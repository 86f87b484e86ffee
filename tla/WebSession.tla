----------------------------- MODULE WebSession -----------------------------
(***************************************************************************)
(* The session of a browser: the pages open in its tabs, the calls they    *)
(* make, the refresh of an expired access token and the replay of a call   *)
(* (packages/api-client/src/api.ts, session.ts), the user it stores        *)
(* (features/auth/model/auth-store.ts), and the server's session row       *)
(* (auth_session.go).                                                      *)
(*                                                                         *)
(* All tabs share the cookies and the stored user; each has its own        *)
(* JavaScript context.  Cookies change when an answer arrives.  The access *)
(* and refresh tokens are the n-th of a session; the token against forged  *)
(* requests is left out, since a refresh keeps it.                         *)
(***************************************************************************)
EXTENDS Access

CONSTANTS
    Tabs,        \* tabs of the browser
    Calls,       \* calls on the way at once, over all tabs
    Account,     \* the account's context (a member of Contexts)
    Links,       \* paths the user opens
    MaxSessions, \* bound: logins, the first session included
    MaxTokens,   \* bound: tokens of a session
    MaxEvents,   \* bound: acts of the user, sessions ended by the server, lost answers
    MaxAging     \* bound: expiries of an access token

ASSUME SessionAssumption ==
    /\ Account \in Contexts /\ Links \subseteq Paths
    /\ MaxSessions \in Nat \ {0} /\ {MaxTokens, MaxEvents, MaxAging} \subseteq Nat

VARIABLES
    account, \* password version, and whether it has to be changed
    row,     \* user_tokens: the rows of the sessions made so far
    jar,     \* the cookies: <<session, n>>, or <<>>
    marker,  \* the stored user: "none", "user" or "must"
    tab,     \* per tab: page, where it leaves to, user in memory, refresh
    call,    \* per call: what it is and how far
    used,    \* bounded events so far
    history  \* executions per call, and what happened to live sessions

vars == <<account, row, jar, marker, tab, call, used, history>>

-----------------------------------------------------------------------------
NoToken == <<>>
Nowhere == "nowhere"
Free == [tab |-> Nowhere, kind |-> "none", at |-> "free", token |-> NoToken,
         status |-> 0, must |-> FALSE, replayed |-> FALSE, base |-> "none"]
NoFlight == [at |-> "idle", token |-> NoToken, ok |-> FALSE]

Flag(must) == IF must THEN "must" ELSE "user"
Sessions == DOMAIN row

(* ValidateSession; a row whose account changed is deleted on the way.       *)
Current(token) ==
    /\ token # NoToken
    /\ row[token[1]].live /\ row[token[1]].n = token[2]
    /\ row[token[1]].pwd = account.pwd
Accepted(token) == Current(token) /\ ~row[token[1]].aged
SessionAlive == Current(jar)

Use(what, max) == used[what] < max /\ used' = [used EXCEPT ![what] = @ + 1]
Excuse(reason) == history' = [history EXCEPT !.excused = @ \/ reason]

InApp(t) == tab[t].page \notin {Login, Change}
Here(t) == tab[t].leaving = Path("")

-----------------------------------------------------------------------------
(* Pages.  Going to a path inside the application runs its guard; entering   *)
(* the layout asks for the user again.                                       *)
At(t, path, m) ==
    LET page == Resolve(path, m, Account)
    IN  [tab[t] EXCEPT !.page = page, !.fresh = page \notin {Login, Change} /\ (@ \/ ~InApp(t))]

OpenLink(t, path) ==
    /\ Here(t) /\ InApp(t)
    /\ Use("events", MaxEvents)
    /\ tab' = [tab EXCEPT ![t] = At(t, path, marker)]
    /\ UNCHANGED <<account, row, jar, marker, call, history>>

(* Leaving the page ends its calls, and its refresh: an answer already given *)
(* by the server may go unread.                                              *)
Unload(t, path) ==
    /\ tab' = [tab EXCEPT ![t] =
                  [page |-> Resolve(path, marker, Account), leaving |-> Path(""), known |-> marker,
                   flight |-> NoFlight, fresh |-> Resolve(path, marker, Account) \notin {Login, Change}]]
    /\ call' = [c \in Calls |-> IF call[c].tab = t THEN Free ELSE call[c]]
    /\ Excuse(tab[t].flight.at = "served")
    /\ UNCHANGED <<account, row, jar, marker>>

Reload(t) == Here(t) /\ Use("events", MaxEvents) /\ Unload(t, tab[t].page)
Leave(t) == ~Here(t) /\ Unload(t, tab[t].leaving) /\ UNCHANGED used

(* redirectTo: nothing when the page is there already; what else the page    *)
(* does until the browser leaves it still counts.                            *)
RedirectTo(t, path) == [tab EXCEPT ![t].leaving = IF tab[t].page = path THEN @ ELSE path]

-----------------------------------------------------------------------------
(* Calls.  "who" is refreshUser, "enter" the user/get of a login, "exit" the *)
(* second path of a logout.                                                  *)
Kinds == {"login", "enter", "who", "data", "logout", "exit", "pwd"}
AuthPaths == {"login", "logout", "exit"}

Sent(t, kind) == [Free EXCEPT !.tab = t, !.kind = kind, !.at = "sent", !.token = jar,
                              !.base = IF tab[t].known # "none" THEN tab[t].known ELSE marker]

Start(c, t, kind) ==
    /\ Here(t) /\ call[c] = Free
    /\ \/ kind = "login" /\ tab[t].page = Login /\ Cardinality({s \in Sessions : row[s].n > 0}) < MaxSessions
       \/ kind \in {"data", "pwd", "logout"} /\ InApp(t)
       \/ kind \in {"pwd", "logout"} /\ tab[t].page = Change
    /\ Use("events", MaxEvents)
    /\ call' = [call EXCEPT ![c] = Sent(t, kind)]
    /\ history' = [history EXCEPT !.runs[c] = 0]
    /\ UNCHANGED <<account, row, jar, marker, tab>>

(* AppLayout's effect, once per entry: the stored user first.                *)
AskUser(c, t) ==
    /\ tab[t].fresh /\ Here(t) /\ InApp(t)
    /\ call[c] = Free
    /\ call' = [call EXCEPT ![c] = IF marker = "none" THEN Free ELSE [Sent(t, "who") EXCEPT !.base = marker]]
    /\ tab' = [tab EXCEPT ![t].fresh = FALSE, ![t].known = marker]
    /\ UNCHANGED <<account, row, jar, marker, used, history>>

Answer(c, status) == [call EXCEPT ![c].at = "answered", ![c].status = status, ![c].token = NoToken,
                                  ![c].must = status = 200 /\ account.must]
Revoked(rows, sids) == [s \in DOMAIN rows |-> IF s \in sids THEN [rows[s] EXCEPT !.live = FALSE] ELSE rows[s]]
New == CHOOSE s \in Sessions : row[s].n = 0 /\ \A r \in Sessions : row[r].n = 0 => s <= r

(* applyPasswordChange stores the password, then clears the sessions; that   *)
(* is a statement of its own and may fail.                                   *)
PasswordChange(must, cleared) ==
    /\ account' = [pwd |-> account.pwd + 1, must |-> must]
    /\ row' = IF cleared THEN Revoked(row, Sessions) ELSE row

Run(c) == history' = [history EXCEPT !.runs[c] = @ + 1]

(* The server on a call.                                                     *)
Serve(c) ==
    LET token == call[c].token
        kind == call[c].kind
    IN
    /\ call[c].at = "sent"
    /\ \/ /\ kind = "login"                          \* Login, createSession
          /\ \E s \in Sessions : row[s].n = 0
          /\ row' = [row EXCEPT ![New] = [live |-> TRUE, n |-> 1, pwd |-> account.pwd, aged |-> FALSE]]
          /\ call' = [Answer(c, 200) EXCEPT ![c].token = <<New, 1>>]
          /\ UNCHANGED <<account, history>>
       \/ /\ kind # "login" /\ ~Accepted(token)      \* authenticateSession
          /\ row' = IF token # NoToken /\ row[token[1]].n = token[2] /\ ~row[token[1]].aged
                        /\ row[token[1]].pwd # account.pwd
                    THEN Revoked(row, {token[1]}) ELSE row
          /\ call' = Answer(c, 401)
          /\ UNCHANGED <<account, history>>
       \/ /\ kind = "data" /\ Accepted(token)
          /\ call' = Answer(c, IF account.must THEN 403 ELSE 200)
          /\ IF account.must THEN UNCHANGED history ELSE Run(c)
          /\ UNCHANGED <<account, row>>
       \/ /\ kind \in {"who", "enter"} /\ Accepted(token)
          /\ call' = Answer(c, 200)
          /\ UNCHANGED <<account, row, history>>
       \/ /\ kind \in {"logout", "exit"} /\ Accepted(token)  \* Logout
          /\ row' = Revoked(row, {token[1]})
          /\ call' = Answer(c, 200)
          /\ UNCHANGED <<account, history>>
       \/ /\ kind = "pwd" /\ Accepted(token)         \* UpdatePassword
          /\ \E cleared \in BOOLEAN :
                /\ PasswordChange(FALSE, cleared)
                /\ call' = Answer(c, IF cleared THEN 200 ELSE 599)
          /\ Run(c)
    /\ UNCHANGED <<jar, marker, tab, used>>

(* The request or its answer is lost.                                        *)
Lose(c) ==
    /\ call[c].at \in {"sent", "answered"} /\ call[c].status # 599
    /\ Use("events", MaxEvents)
    /\ call' = [call EXCEPT ![c].at = "answered", ![c].status = 599, ![c].token = NoToken]
    /\ UNCHANGED <<account, row, jar, marker, tab, history>>

(* Mutant: a lost answer counts as an expired token.                         *)
ExpiredOrLost(c) == call[c].status \in {401, 599} /\ call[c].kind \notin AuthPaths

(* A 401 outside the authentication routes: the call waits for the refresh,  *)
(* which is started unless one is there (single flight).                     *)
Expired(c) == call[c].status = 401 /\ call[c].kind \notin AuthPaths

Flying(t) == tab[t].flight.at \in {"asked", "read", "served"}
Replaying == \E c \in Calls : call[c].replayed /\ call[c].status # 200
Refreshing == Replaying \/ \E t \in Tabs : tab[t].flight.at # "idle"
(* Mutant: every 401 asks for a refresh of its own.                          *)
StartAnother(t) ==
    /\ tab' = [tab EXCEPT ![t].flight = [at |-> "asked", token |-> jar, ok |-> FALSE]]
    /\ Excuse(Replaying \/ \E u \in Tabs \ {t} : tab[u].flight.at # "idle")

StartOrJoin(t) ==
    IF tab[t].flight.at # "idle" THEN UNCHANGED <<tab, history>>
    ELSE /\ tab' = [tab EXCEPT ![t].flight = [at |-> "asked", token |-> jar, ok |-> FALSE]]
         /\ Excuse(Refreshing)

Unauthorized(c) == call[c].at = "answered" /\ Expired(c)
(* The refresh it would wait for has been answered already.                  *)
Late(c) == Unauthorized(c) /\ ~call[c].replayed /\ tab[call[c].tab].flight.at = "done"

Await(c) ==
    /\ Unauthorized(c) /\ ~call[c].replayed
    /\ tab[call[c].tab].flight.at # "done"
    /\ call' = [call EXCEPT ![c].at = "waiting", ![c].status = 0]
    /\ StartOrJoin(call[c].tab)
    /\ UNCHANGED <<account, row, jar, marker, used>>

(* After the refresh the call is sent once more with the new cookies; here   *)
(* it finds one that has been answered and is not forgotten yet.             *)
Again(r, cookies) == [r EXCEPT !.at = "sent", !.status = 0, !.token = cookies, !.replayed = TRUE]

Replay(c) ==
    /\ Late(c) /\ tab[call[c].tab].flight.ok
    /\ call' = [call EXCEPT ![c] = Again(@, jar)]
    /\ UNCHANGED <<account, row, jar, marker, tab, used, history>>

(* The refresh had failed, or the replay got a 401, too.                     *)
GiveUp(c) ==
    /\ \/ Late(c) /\ ~tab[call[c].tab].flight.ok
       \/ Unauthorized(c) /\ call[c].replayed
    /\ marker' = "none"
    /\ tab' = RedirectTo(call[c].tab, Login)
    /\ call' = [call EXCEPT ![c].at = "failed", ![c].status = 0]
    /\ history' = [history EXCEPT !.gaveUp = @ \/ SessionAlive]
    /\ UNCHANGED <<account, row, jar, used>>

(* isPasswordChangeRequired; the answer to a replay goes to the caller.      *)
Sandboxed(c) ==
    /\ call[c].at = "answered" /\ call[c].status = 403
    /\ tab' = IF call[c].replayed THEN tab ELSE RedirectTo(call[c].tab, Change)
    /\ call' = [call EXCEPT ![c].at = "failed", ![c].status = 0]
    /\ UNCHANGED <<account, row, jar, marker, used, history>>

Fails(c) ==
    /\ call[c].at = "answered" /\ call[c].status = 599
    /\ call' = [call EXCEPT ![c].at = "failed", ![c].status = 0]
    /\ UNCHANGED <<account, row, jar, marker, tab, used, history>>

(* What the caller does with a failed call.  fetchUserContext catches: it    *)
(* goes on with the user it started from, who is stored again.               *)
Failed(c) ==
    LET t == call[c].tab
        base == call[c].base
    IN
    /\ call[c].at = "failed" /\ call[c].kind \notin AuthPaths \ {"login"}
    /\ call' = [call EXCEPT ![c] = Free]
    /\ \/ /\ call[c].kind \in {"data", "pwd", "login"}
          /\ UNCHANGED <<marker, tab>>
       \/ /\ call[c].kind = "who"
          /\ IF base = "none" THEN UNCHANGED <<marker, tab>>
             ELSE marker' = base /\ tab' = [tab EXCEPT ![t].known = base]
       \/ /\ call[c].kind = "enter"
          /\ marker' = base
          /\ tab' = [tab EXCEPT ![t] = [At(t, Home(Account, FALSE), base) EXCEPT !.known = base]]
    /\ UNCHANGED <<account, row, jar, used, history>>

(* ... and with a successful one.                                            *)
Succeeded(c) ==
    LET t == call[c].tab
        m == Flag(call[c].must)
    IN
    /\ call[c].at = "answered" /\ call[c].status = 200
    /\ \/ /\ call[c].kind = "data"
          /\ call' = [call EXCEPT ![c] = Free]
          /\ UNCHANGED <<jar, marker, tab, history>>
       \/ /\ call[c].kind \in {"who", "enter"}
          /\ marker' = m
          /\ tab' = [tab EXCEPT ![t] =
                        IF call[c].kind = "who" THEN [@ EXCEPT !.known = m]
                        ELSE [At(t, Home(Account, FALSE), m) EXCEPT !.known = m]]
          /\ call' = [call EXCEPT ![c] = Free]
          /\ UNCHANGED <<jar, history>>
       \/ /\ call[c].kind = "login"                  \* the store's login
          /\ jar' = call[c].token
          /\ marker' = m
          /\ Excuse(Refreshing)
          /\ IF m = "must"
             THEN /\ tab' = [tab EXCEPT ![t] = [At(t, Change, m) EXCEPT !.known = m]]
                  /\ call' = [call EXCEPT ![c] = Free]
             ELSE /\ call' = [call EXCEPT ![c] = [Sent(t, "enter") EXCEPT !.token = jar', !.base = m]]
                  /\ UNCHANGED tab
       \/ /\ call[c].kind = "pwd"                    \* the form's onSuccess
          /\ marker' = IF tab[t].known = "must" /\ tab[t].page = Change THEN "user" ELSE marker
          /\ call' = [call EXCEPT ![c] = Sent(t, "logout")]
          /\ UNCHANGED <<jar, tab, history>>
    /\ call[c].kind \notin {"logout", "exit"}
    /\ UNCHANGED <<account, row, used>>

(* The store's logout: a first path that throws is followed by a second; in  *)
(* the end, whatever the answer, the user is forgotten.                      *)
LogoutAgain(c) ==
    /\ call[c].kind = "logout" /\ call[c].at = "failed"
    /\ call' = [call EXCEPT ![c] = Sent(@.tab, "exit")]
    /\ UNCHANGED <<account, row, jar, marker, tab, used, history>>

LoggedOut(c) ==
    LET t == call[c].tab IN
    /\ \/ call[c].kind \in {"logout", "exit"} /\ call[c].at = "answered" /\ call[c].status # 599
       \/ call[c].kind = "exit" /\ call[c].at = "failed"
    /\ jar' = IF call[c].status = 200 THEN NoToken ELSE jar
    /\ marker' = "none"
    /\ tab' = [tab EXCEPT ![t] = [At(t, Login, "none") EXCEPT !.known = "none"]]
    /\ call' = [call EXCEPT ![c] = Free]
    /\ UNCHANGED <<account, row, used, history>>

-----------------------------------------------------------------------------
(* The refresh.                                                              *)
Flight(t, at, ok) == [tab EXCEPT ![t].flight.at = at, ![t].flight.ok = ok]

Refused(t) == tab' = Flight(t, "served", FALSE)

(* RefreshToken reads the row and the account.  Only the last token issued   *)
(* is good; an older one ends the session.                                   *)
RefreshRead(t) ==
    LET token == tab[t].flight.token
        sid == token[1]
        found == token # NoToken /\ row[sid].live
    IN
    /\ tab[t].flight.at = "asked"
    /\ \/ ~found /\ Refused(t) /\ UNCHANGED <<row, history>>
       \/ /\ found /\ row[sid].n # token[2]
          /\ row' = Revoked(row, {sid})
          /\ Refused(t)
          /\ history' = [history EXCEPT !.reused = TRUE]
       \/ /\ found /\ row[sid].n = token[2] /\ row[sid].pwd # account.pwd
          /\ row' = Revoked(row, {sid})
          /\ Refused(t)
          /\ UNCHANGED history
       \/ /\ Current(token) /\ token[2] < MaxTokens
          /\ tab' = Flight(t, "read", FALSE)
          /\ UNCHANGED <<row, history>>
    /\ UNCHANGED <<account, jar, marker, call, used>>

(* ... then swaps the token it has read for a new one.  A row that changed   *)
(* or went in between is recorded as a reuse; only a row that is still there *)
(* is a session ended for it.                                                *)
RefreshSwap(t) ==
    LET token == tab[t].flight.token
        sid == token[1]
    IN
    /\ tab[t].flight.at = "read"
    /\ \/ /\ row[sid].live /\ row[sid].n = token[2]
          /\ row' = [row EXCEPT ![sid].n = @ + 1, ![sid].aged = FALSE]
          /\ tab' = [Flight(t, "served", TRUE) EXCEPT ![t].flight.token = <<sid, token[2] + 1>>]
          /\ UNCHANGED history
       \/ /\ ~(row[sid].live /\ row[sid].n = token[2])
          /\ row' = Revoked(row, {sid})
          /\ Refused(t)
          /\ history' = [history EXCEPT !.reused = @ \/ row[sid].live]
    /\ UNCHANGED <<account, jar, marker, call, used>>

(* The promise settles.  Whoever waits for it holds the promise and goes on  *)
(* in the same turn: the call is sent again, or gives up.  At least the one  *)
(* that asked for the refresh waits.                                         *)
Settle(t, ok, cookies) ==
    /\ jar' = cookies
    /\ marker' = IF ok THEN marker ELSE "none"
    /\ tab' = [IF ok THEN tab ELSE RedirectTo(t, Login)
                  EXCEPT ![t].flight = [at |-> "done", token |-> NoToken, ok |-> ok]]
    /\ call' = [c \in Calls |-> IF call[c].tab # t \/ call[c].at # "waiting" THEN call[c]
                                ELSE IF ok THEN Again(call[c], cookies) ELSE [call[c] EXCEPT !.at = "failed"]]

(* The cookies follow: new ones, or none; a refresh without a cookie leaves  *)
(* them alone.                                                               *)
Cookies(f) == IF f.ok THEN f.token ELSE IF f.token = NoToken THEN jar ELSE NoToken

(* Mutant: a successful refresh is taken for a failed one.                   *)
RefreshAnsweredUnread(t) ==
    LET f == tab[t].flight IN
    /\ f.at = "served"
    /\ Settle(t, FALSE, Cookies(f))
    /\ history' = [history EXCEPT !.gaveUp = @ \/ Current(Cookies(f))]
    /\ UNCHANGED <<account, row, used>>

RefreshAnswered(t) ==
    LET f == tab[t].flight IN
    /\ f.at = "served"
    /\ Settle(t, f.ok, Cookies(f))
    /\ history' = [history EXCEPT !.excused = @ \/ (jar # NoToken /\ f.token # NoToken /\ jar[1] # f.token[1]),
                                  !.gaveUp = @ \/ (~f.ok /\ Current(Cookies(f)))]
    /\ UNCHANGED <<account, row, used>>

RefreshLost(t) ==
    /\ Flying(t)
    /\ Use("events", MaxEvents)
    /\ Settle(t, FALSE, jar)
    /\ history' = [history EXCEPT !.excused = TRUE, !.gaveUp = @ \/ SessionAlive]
    /\ UNCHANGED <<account, row>>

(* The timer that forgets the refresh; nobody needs it to go on.             *)
ResetFlight(t) ==
    /\ tab[t].flight.at = "done"
    /\ tab' = [tab EXCEPT ![t].flight = NoFlight]
    /\ UNCHANGED <<account, row, jar, marker, call, used, history>>

-----------------------------------------------------------------------------
(* Time and the administrator.                                               *)
Age(s) ==
    /\ row[s].live /\ ~row[s].aged
    /\ Use("aging", MaxAging)
    /\ row' = [row EXCEPT ![s].aged = TRUE]
    /\ Excuse(Refreshing)
    /\ UNCHANGED <<account, jar, marker, tab, call>>

EndSession(s) ==
    /\ row[s].live
    /\ Use("events", MaxEvents)
    /\ row' = Revoked(row, {s})
    /\ UNCHANGED <<account, jar, marker, tab, call, history>>

ResetPassword ==
    /\ Use("events", MaxEvents)
    /\ \E cleared \in BOOLEAN : PasswordChange(TRUE, cleared)
    /\ UNCHANGED <<jar, marker, tab, call, history>>

-----------------------------------------------------------------------------
(* The first session is there.  When the password has to be changed, a tab   *)
(* that was open before the reset still shows the application: another one   *)
(* logged in again.                                                          *)
Init ==
    /\ \E must \in BOOLEAN, open \in SUBSET Tabs :
          /\ must # (open = Tabs)
          /\ account = [pwd |-> 0, must |-> must]
          /\ marker = Flag(must)
          /\ tab = [t \in Tabs |-> [page |-> Resolve(Path("dashboard"), Flag(t \notin open), Account),
                                    leaving |-> Path(""), known |-> Flag(t \notin open),
                                    flight |-> NoFlight, fresh |-> ~must]]
    /\ row = [s \in 1..MaxSessions |-> [live |-> s = 1, n |-> IF s = 1 THEN 1 ELSE 0, pwd |-> 0, aged |-> FALSE]]
    /\ jar = <<1, 1>>
    /\ call = [c \in Calls |-> Free]
    /\ used = [events |-> 0, aging |-> 0]
    /\ history = [runs |-> [c \in Calls |-> 0], excused |-> FALSE, reused |-> FALSE, gaveUp |-> FALSE]

Browser(c) == Await(c) \/ Replay(c) \/ GiveUp(c) \/ Sandboxed(c) \/ Fails(c) \/ Failed(c)
              \/ Succeeded(c) \/ LogoutAgain(c) \/ LoggedOut(c)

Next ==
    \/ \E c \in Calls : Serve(c) \/ Lose(c) \/ Browser(c)
    \/ \E t \in Tabs : \/ \E c \in Calls : AskUser(c, t)
                       \/ \E c \in Calls, kind \in {"login", "data", "logout", "pwd"} : Start(c, t, kind)
                       \/ \E path \in Links : OpenLink(t, path)
                       \/ Reload(t) \/ Leave(t)
                       \/ RefreshRead(t) \/ RefreshSwap(t)
                       \/ RefreshAnswered(t) \/ RefreshLost(t) \/ ResetFlight(t)
    \/ \E s \in Sessions : Age(s) \/ EndSession(s)
    \/ ResetPassword

(* The server and the network answer, the browser runs what is due; nothing  *)
(* makes the user act, a token age or an answer get lost.                    *)
Fairness ==
    /\ \A c \in Calls : WF_vars(Serve(c)) /\ WF_vars(Browser(c))
    /\ \A t \in Tabs : /\ WF_vars(Leave(t)) /\ WF_vars(\E c \in Calls : AskUser(c, t))
                       /\ WF_vars(RefreshRead(t)) /\ WF_vars(RefreshSwap(t))
                       /\ WF_vars(RefreshAnswered(t)) /\ WF_vars(ResetFlight(t))

Spec == Init /\ [][Next]_vars /\ Fairness
-----------------------------------------------------------------------------
(* Types; a row only counts up, and the cookies never name a token that was  *)
(* not issued.                                                               *)
TypeOK ==
    /\ account \in [pwd : Nat, must : BOOLEAN]
    /\ \A s \in Sessions : row[s] \in [live : BOOLEAN, n : Nat, pwd : 0..account.pwd, aged : BOOLEAN]
    /\ jar = NoToken \/ jar[2] \in 1..row[jar[1]].n
    /\ marker \in {"none", "user", "must"}
    /\ \A t \in Tabs : /\ tab[t].page \in Paths \cup {Login, Change}
                       /\ tab[t].leaving \in {Path(""), Login, Change}
                       /\ tab[t].flight.at \in {"idle", "asked", "read", "served", "done"}
    /\ \A c \in Calls : /\ call[c].kind \in Kinds \cup {"none"}
                        /\ call[c].at \in {"free", "sent", "answered", "waiting", "failed"}

(* A replay never carries out a call a second time.                          *)
AtMostOnce == \A c \in Calls : history.runs[c] <= 1

(* "refresh tokens are one-time-use and a second concurrent use would be     *)
(* treated as token theft by the backend" (session.ts): a session that is    *)
(* alive is ended as stolen only if a refresh overlaps another one, a replay *)
(* or a login, a token expires under them, or an answer is lost or comes     *)
(* after the page was left.  (A refresh whose row is ended by somebody else  *)
(* between RefreshToken's read and its swap is recorded as a reuse, too;     *)
(* there is no session left to end.)                                         *)
RevokedForAReason == history.reused => history.excused

(* A page gives a session up that is still alive only if an answer was lost, *)
(* a refresh overlapped another one or its replays, arrived after a login or *)
(* the new token expired before its replay.                                  *)
GaveUpForAReason == history.gaveUp => history.excused

(* "an expired cookie session is caught by the 401 handling of the API       *)
(* client" (router.tsx, getAuthToken): once the session is over for good and *)
(* a call has noticed, the stored user stays away.  The code does not        *)
(* satisfy this.                                                             *)
Over == \A s \in Sessions : ~row[s].live
OverIsNoticed == <>(marker = "none" /\ []Over) => <>[](marker = "none")

(* With what is stored, no two guards of the router send each other's pages  *)
(* back and forth, and no page is shown that access.ts refuses, whatever     *)
(* path is opened by whatever kind of account.                               *)
RedirectsEnd == marker \in Settled

(* While a user is signed in, what the program itself offers it, the home    *)
(* page (resolveHomePath) and the menu (getPlatformMenu), is open to it.     *)
OffersAreOpen == marker = "user" => HomeIsOpen /\ MenuIsOpen
=============================================================================
