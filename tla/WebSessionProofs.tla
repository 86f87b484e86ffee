-------------------------- MODULE WebSessionProofs --------------------------
(***************************************************************************)
(* Proofs about the session of a browser, for any number of tabs, calls,   *)
(* logins and tokens: a call is carried out at most once, what is stored   *)
(* of the user always lets the router come to rest, and a session is ended *)
(* as stolen, or given up while it is alive, only for one of the listed    *)
(* reasons.                                                                *)
(***************************************************************************)
EXTENDS WebSession, AccessProofs

-----------------------------------------------------------------------------
(* The inductive invariant. *)

TabFields == {"page", "leaving", "known", "flight", "fresh"}
CallFields == {"tab", "kind", "at", "token", "status", "must", "replayed", "base"}

TabFits(r) == DOMAIN r = TabFields /\ r.known \in Markers /\ DOMAIN r.flight = {"at", "token", "ok"}
TabsFit(f) == DOMAIN f = Tabs /\ \A t \in Tabs : TabFits(f[t])

CallFits(r) == DOMAIN r = CallFields /\ r.base \in Markers /\ (r.at # "free" => r.tab \in Tabs)
CallsFit(f) == DOMAIN f = Calls /\ \A c \in Calls : CallFits(f[c])

RunsFit(h) == "runs" \in DOMAIN h /\ DOMAIN h.runs = Calls

(* The server has not carried out the call, and still may.                 *)
Unrun(r) ==
    /\ r.kind \in {"data", "pwd"}
    /\ r.at \in {"sent", "waiting"} \/ (r.at = "answered" /\ r.status = 401)

Inv ==
    /\ marker \in Markers
    /\ TabsFit(tab) /\ CallsFit(call) /\ RunsFit(history)
    /\ \A c \in Calls : history.runs[c] \in {0, 1} /\ (Unrun(call[c]) => history.runs[c] = 0)

-----------------------------------------------------------------------------
(* What a step may do to the tabs and to a call. *)

LEMMA TabChange ==
    ASSUME TabsFit(tab), NEW t \in Tabs, NEW r, TabFits(r)
    PROVE  TabsFit([tab EXCEPT ![t] = r])
  BY DEF TabsFit

LEMMA RunsStay ==
    ASSUME RunsFit(history), NEW reason, UNCHANGED history \/ Excuse(reason)
    PROVE  RunsFit(history') /\ history'.runs = history.runs
  BY DEF RunsFit, Excuse

(* Only the tabs change, or the stored user. *)
LEMMA TabStep ==
    ASSUME Inv, UNCHANGED call, marker' \in Markers, TabsFit(tab'),
           RunsFit(history'), history'.runs = history.runs
    PROVE  Inv'
  BY DEF Inv, CallsFit, CallFits, Unrun

(* One call moves on. *)
Only(c, f) == DOMAIN f = Calls /\ \A d \in Calls \ {c} : f[d] = call[d]

LEMMA CallStep ==
    ASSUME Inv, NEW c \in Calls, Only(c, call'), CallFits(call'[c]), marker' \in Markers, TabsFit(tab'),
           RunsFit(history'), \A d \in Calls \ {c} : history'.runs[d] = history.runs[d],
           history'.runs[c] \in {0, 1}, Unrun(call'[c]) => history'.runs[c] = 0
    PROVE  Inv'
<1>1. CallsFit(call')
  BY DEF Inv, CallsFit, Only
<1>3. ASSUME NEW d \in Calls
      PROVE  history'.runs[d] \in {0, 1} /\ (Unrun(call'[d]) => history'.runs[d] = 0)
  <2>1. CASE d = c
    BY <2>1
  <2>2. CASE d # c
    BY <2>2 DEF Inv, Only
  <2> QED
    BY <2>1, <2>2
<1> QED
  BY <1>1, <1>3 DEF Inv

(* ... and is not carried out meanwhile. *)
LEMMA QuietStep ==
    ASSUME Inv, NEW c \in Calls, Only(c, call'), CallFits(call'[c]), marker' \in Markers, TabsFit(tab'),
           RunsFit(history'), history'.runs = history.runs,
           Unrun(call'[c]) => Unrun(call[c])
    PROVE  Inv'
  BY CallStep DEF Inv

LEMMA Replaced ==
    ASSUME CallsFit(call), NEW c \in Calls, NEW r
    PROVE  Only(c, [call EXCEPT ![c] = r]) /\ [call EXCEPT ![c] = r][c] = r
  BY DEF CallsFit, Only

LEMMA FreeIs == CallFits(Free) /\ Free.at = "free" /\ ~Unrun(Free)
  BY DEF Free, CallFits, CallFields, Markers, Unrun

LEMMA SentIs ==
    ASSUME Inv, NEW t \in Tabs, NEW kind
    PROVE  LET r == Sent(t, kind)
           IN  CallFits(r) /\ r.at = "sent" /\ r.kind = kind /\ r.tab = t /\ DOMAIN r = CallFields
<1> DEFINE base == IF tab[t].known # "none" THEN tab[t].known ELSE marker
<1>1. base \in Markers
  BY DEF Inv, TabsFit, TabFits
<1> HIDE DEF base
<1>2. Sent(t, kind) = [Free EXCEPT !.tab = t, !.kind = kind, !.at = "sent", !.token = jar, !.base = base]
  BY DEF Sent, base
<1> QED
  BY <1>1, <1>2 DEF Free, CallFits, CallFields

LEMMA AnswerIs ==
    ASSUME CallsFit(call), NEW c \in Calls, NEW status
    PROVE  LET f == Answer(c, status)
           IN  /\ Only(c, f) /\ DOMAIN f[c] = DOMAIN call[c]
               /\ f[c].at = "answered" /\ f[c].status = status
               /\ f[c].tab = call[c].tab /\ f[c].kind = call[c].kind /\ f[c].base = call[c].base
  BY DEF CallsFit, CallFits, CallFields, Answer, Only

LEMMA AtIs ==
    ASSUME TabsFit(tab), NEW t \in Tabs, NEW path, NEW m
    PROVE  /\ TabFits(At(t, path, m)) /\ At(t, path, m).flight = tab[t].flight
           /\ At(t, path, m).known = tab[t].known
  BY DEF TabsFit, TabFits, TabFields, At

LEMMA AtKnownIs ==
    ASSUME TabsFit(tab), NEW t \in Tabs, NEW path, NEW m, NEW k \in Markers
    PROVE  LET r == [At(t, path, m) EXCEPT !.known = k]
           IN  TabFits(r) /\ r.flight = tab[t].flight
<1> DEFINE a == At(t, path, m)
<1>1. TabFits(a) /\ a.flight = tab[t].flight
  BY AtIs
<1> HIDE DEF a
<1>2. LET r == [a EXCEPT !.known = k] IN TabFits(r) /\ r.flight = tab[t].flight
  BY <1>1 DEF TabFits, TabFields
<1> QED
  BY <1>2 DEF a

LEMMA KnownIs ==
    ASSUME TabsFit(tab), NEW t \in Tabs, NEW k \in Markers
    PROVE  TabsFit([tab EXCEPT ![t].known = k])
<1> DEFINE r == [tab[t] EXCEPT !.known = k]
<1>1. TabFits(r) /\ r.flight = tab[t].flight
  BY DEF TabsFit, TabFits, TabFields
<1> HIDE DEF r
<1>2. TabsFit([tab EXCEPT ![t] = r])
  BY <1>1, TabChange
<1> QED
  BY <1>2 DEF r

LEMMA RedirectIs ==
    ASSUME TabsFit(tab), NEW t \in Tabs, NEW path
    PROVE  TabsFit(RedirectTo(t, path))
<1> DEFINE leaving == IF tab[t].page = path THEN tab[t].leaving ELSE path
           r == [tab[t] EXCEPT !.leaving = leaving]
<1>1. TabFits(r) /\ r.flight = tab[t].flight
  BY DEF TabsFit, TabFits, TabFields
<1>2. RedirectTo(t, path) = [tab EXCEPT ![t] = r]
  BY DEF RedirectTo
<1> HIDE DEF r
<1> QED
  BY <1>1, <1>2, TabChange

(* A refresh moves on. *)
LEMMA FlightIs ==
    ASSUME TabsFit(tab), NEW t \in Tabs, NEW a, NEW k, NEW o
    PROVE  TabsFit([tab EXCEPT ![t].flight = [at |-> a, token |-> k, ok |-> o]])
<1> DEFINE r == [tab[t] EXCEPT !.flight = [at |-> a, token |-> k, ok |-> o]]
<1>1. TabFits(r)
  BY DEF TabsFit, TabFits, TabFields
<1> HIDE DEF r
<1>2. TabsFit([tab EXCEPT ![t] = r])
  BY <1>1, TabChange
<1> QED
  BY <1>2 DEF r

LEMMA FlightMoves ==
    ASSUME TabsFit(tab), NEW t \in Tabs, NEW a, NEW o
    PROVE  /\ TabsFit(Flight(t, a, o))
           /\ \A k : TabsFit([Flight(t, a, o) EXCEPT ![t].flight.token = k])
<1> DEFINE f == Flight(t, a, o)
<1>1. DOMAIN tab = Tabs /\ TabFits(tab[t])
  BY DEF TabsFit
<1>2. /\ DOMAIN f = Tabs /\ \A u \in Tabs \ {t} : f[u] = tab[u]
      /\ DOMAIN f[t] = DOMAIN tab[t] /\ f[t].known = tab[t].known
      /\ DOMAIN f[t].flight = DOMAIN tab[t].flight
  BY <1>1 DEF Flight, TabFits, TabFields
<1> HIDE DEF f
<1>3. TabsFit(f)
  BY <1>2 DEF TabsFit, TabFits
<1>4. ASSUME NEW k
      PROVE  TabsFit([f EXCEPT ![t].flight.token = k])
  <2> DEFINE g == [f EXCEPT ![t].flight.token = k]
  <2>1. /\ DOMAIN g = Tabs /\ \A u \in Tabs \ {t} : g[u] = tab[u]
        /\ DOMAIN g[t] = DOMAIN tab[t] /\ g[t].known = tab[t].known
        /\ DOMAIN g[t].flight = DOMAIN tab[t].flight
    BY <1>1, <1>2 DEF TabFits, TabFields
  <2> HIDE DEF g
  <2>2. TabsFit(g)
    BY <2>1 DEF TabsFit, TabFits
  <2> QED
    BY <2>2 DEF g
<1> QED
  BY <1>3, <1>4 DEF f

-----------------------------------------------------------------------------
(* The user and the pages. *)

LEMMA InvTabs == Inv => TabsFit(tab) /\ CallsFit(call) /\ RunsFit(history) /\ marker \in Markers
  BY DEF Inv

LEMMA OpenLinkKeeps == ASSUME Inv, NEW t \in Tabs, NEW path, OpenLink(t, path) PROVE Inv'
<1> DEFINE r == At(t, path, marker)
<1>1. TabFits(r) /\ r.flight = tab[t].flight /\ tab' = [tab EXCEPT ![t] = r]
  BY InvTabs, AtIs DEF OpenLink
<1> HIDE DEF r
<1>2. TabsFit(tab')
  BY <1>1, InvTabs, TabChange
<1> QED
  BY <1>2, InvTabs, TabStep DEF OpenLink

(* The calls of a page that is left are gone.                              *)
LEMMA UnloadKeeps == ASSUME Inv, NEW t \in Tabs, NEW path, Unload(t, path) PROVE Inv'
<1>1. TabsFit(tab') /\ \A u \in Tabs \ {t} : tab'[u] = tab[u]
  BY InvTabs DEF Unload, TabsFit, TabFits, TabFields, NoFlight
<1>2. CallsFit(call') /\ \A c \in Calls : call'[c] = Free \/ (call'[c] = call[c] /\ call[c].tab # t)
  BY InvTabs, FreeIs DEF Unload, CallsFit
<1>3. RunsFit(history') /\ history'.runs = history.runs /\ marker' = marker
  BY InvTabs, RunsStay DEF Unload
<1>4. ASSUME NEW c \in Calls
      PROVE  history'.runs[c] \in {0, 1} /\ (Unrun(call'[c]) => history'.runs[c] = 0)
  <2>1. CASE call'[c] = Free
    BY <1>3, <2>1, FreeIs DEF Inv
  <2>2. CASE call'[c] = call[c] /\ call[c].tab # t
    BY <1>3, <2>2 DEF Inv
  <2> QED
    BY <1>2, <2>1, <2>2
<1> QED
  BY <1>1, <1>2, <1>3, <1>4 DEF Inv

LEMMA StartKeeps == ASSUME Inv, NEW c \in Calls, NEW t \in Tabs, NEW kind, Start(c, t, kind) PROVE Inv'
<1>1. Only(c, call') /\ call'[c] = Sent(t, kind)
  BY InvTabs, Replaced DEF Start
<1>2. RunsFit(history') /\ history'.runs[c] = 0 /\ \A d \in Calls \ {c} : history'.runs[d] = history.runs[d]
  BY InvTabs DEF Start, RunsFit
<1>3. TabsFit(tab') /\ marker' \in Markers
  BY InvTabs DEF Start
<1>4. CallFits(call'[c]) /\ call'[c].at = "sent"
  BY <1>1, SentIs
<1> QED
  BY <1>1, <1>2, <1>3, <1>4, CallStep

LEMMA AskUserKeeps == ASSUME Inv, NEW c \in Calls, NEW t \in Tabs, AskUser(c, t) PROVE Inv'
<1>1. Only(c, call') /\ (call'[c] = [Sent(t, "who") EXCEPT !.base = marker] \/ call'[c] = Free)
  BY InvTabs, Replaced DEF AskUser
<1>2. CallFits(call'[c]) /\ ~Unrun(call'[c])
  <2> DEFINE s == Sent(t, "who")
  <2>1. CallFits(s) /\ s.kind = "who"
    BY SentIs
  <2> HIDE DEF s
  <2>2. LET r == [s EXCEPT !.base = marker] IN CallFits(r) /\ r.kind = "who"
    BY <2>1, InvTabs DEF CallFits, CallFields
  <2>3. call'[c] = [s EXCEPT !.base = marker] \/ call'[c] = Free
    BY <1>1 DEF s
  <2> QED
    BY <2>2, <2>3, FreeIs DEF Unrun
<1>3. TabsFit(tab')
  <2> DEFINE r == [[tab[t] EXCEPT !.fresh = FALSE] EXCEPT !.known = marker]
  <2>1. TabFits(r) /\ r.flight = tab[t].flight
    BY InvTabs DEF TabsFit, TabFits, TabFields
  <2>2. tab' = [tab EXCEPT ![t] = r]
    BY InvTabs DEF AskUser, TabsFit
  <2> HIDE DEF r
  <2> QED
    BY <2>1, <2>2, InvTabs, TabChange
<1>4. marker' \in Markers /\ RunsFit(history') /\ history'.runs = history.runs
  BY InvTabs DEF AskUser
<1> QED
  BY <1>1, <1>2, <1>3, <1>4, QuietStep

-----------------------------------------------------------------------------
(* The server. *)

LEMMA AnswerFits ==
    ASSUME Inv, NEW c \in Calls, call[c].at # "free", NEW status
    PROVE  LET f == Answer(c, status)
           IN  Only(c, f) /\ CallFits(f[c]) /\ f[c].at = "answered" /\ f[c].status = status
               /\ f[c].kind = call[c].kind
<1>1. CallFits(call[c])
  BY InvTabs DEF CallsFit
<1> QED
  BY <1>1, InvTabs, AnswerIs DEF CallFits

(* A call that is carried out is answered: a replay finds it done.         *)
LEMMA RunKeeps ==
    ASSUME Inv, NEW c \in Calls, Unrun(call[c]), call[c].at = "sent", Run(c),
           \E status \in {200, 599} : call' = Answer(c, status), UNCHANGED <<marker, tab>>
    PROVE  Inv'
<1> PICK status \in {200, 599} : call' = Answer(c, status)
  OBVIOUS
<1>1. Only(c, call') /\ CallFits(call'[c]) /\ call'[c].at = "answered" /\ call'[c].status = status
  BY AnswerFits
<1>2. RunsFit(history') /\ history'.runs[c] = history.runs[c] + 1
      /\ \A d \in Calls \ {c} : history'.runs[d] = history.runs[d]
  BY InvTabs DEF Run, RunsFit
<1>3. history.runs[c] = 0
  BY DEF Inv
<1>4. TabsFit(tab') /\ marker' \in Markers
  BY InvTabs
<1>5. ~Unrun(call'[c])
  BY <1>1 DEF Unrun
<1> QED
  BY <1>1, <1>2, <1>3, <1>4, <1>5, CallStep

(* Any other answer of the server.                                         *)
LEMMA AnsweredKeeps ==
    ASSUME Inv, NEW c \in Calls, call[c].at = "sent", NEW status, call' = Answer(c, status),
           UNCHANGED <<marker, tab, history>>
    PROVE  Inv'
<1>1. Only(c, call') /\ CallFits(call'[c]) /\ call'[c].at = "answered" /\ call'[c].kind = call[c].kind
  BY AnswerFits
<1>2. TabsFit(tab') /\ marker' \in Markers /\ RunsFit(history')
  BY InvTabs
<1>3. Unrun(call'[c]) => Unrun(call[c])
  BY <1>1 DEF Unrun
<1> QED
  BY <1>1, <1>2, <1>3, QuietStep

LEMMA ServeKeeps == ASSUME Inv, NEW c \in Calls, Serve(c) PROVE Inv'
<1> DEFINE kind == call[c].kind
           token == call[c].token
<1>1. call[c].at = "sent" /\ UNCHANGED <<marker, tab>>
  BY DEF Serve
<1>2. CASE kind = "login" /\ call' = [Answer(c, 200) EXCEPT ![c].token = <<New, 1>>] /\ UNCHANGED history
  <2> DEFINE f == Answer(c, 200)
  <2>1. Only(c, f) /\ CallFits(f[c]) /\ f[c].at = "answered" /\ f[c].kind = "login"
    BY <1>1, <1>2, AnswerFits
  <2>2. call' = [f EXCEPT ![c].token = <<New, 1>>]
    BY <1>2
  <2> HIDE DEF f
  <2>3. Only(c, call') /\ CallFits(call'[c]) /\ call'[c].at = "answered" /\ call'[c].kind = "login"
    BY <2>1, <2>2 DEF Only, CallFits, CallFields
  <2>4. ~Unrun(call'[c])
    BY <2>3 DEF Unrun
  <2>5. TabsFit(tab') /\ marker' \in Markers /\ RunsFit(history')
    BY <1>1, <1>2, InvTabs
  <2> QED
    BY <1>2, <2>3, <2>4, <2>5, QuietStep
<1>3. CASE \E status : call' = Answer(c, status) /\ UNCHANGED history
  BY <1>1, <1>3, AnsweredKeeps
<1>4. CASE kind \in {"data", "pwd"} /\ (\E status \in {200, 599} : call' = Answer(c, status)) /\ Run(c)
  <2>1. Unrun(call[c])
    BY <1>1, <1>4 DEF Unrun
  <2>2. \E status \in {200, 599} : call' = Answer(c, status)
    BY <1>4
  <2>3. call[c].at = "sent" /\ Run(c) /\ UNCHANGED <<marker, tab>>
    BY <1>1, <1>4
  <2> QED
    BY <2>1, <2>2, <2>3, RunKeeps
<1>5. CASE kind = "login" /\ call' = [Answer(c, 200) EXCEPT ![c].token = <<New, 1>>] /\ UNCHANGED <<account, history>>
  BY <1>2, <1>5
<1>6. CASE call' = Answer(c, 401) /\ UNCHANGED <<account, history>>
  BY <1>3, <1>6
<1>7. CASE call' = Answer(c, 200) /\ UNCHANGED history
  BY <1>3, <1>7
<1>8. CASE kind = "data" /\ call' = Answer(c, IF account.must THEN 403 ELSE 200)
             /\ (IF account.must THEN UNCHANGED history ELSE Run(c))
  <2>1. CASE account.must
    <3>1. call' = Answer(c, 403) /\ UNCHANGED history
      BY <1>8, <2>1
    <3> QED
      BY <3>1, <1>3
  <2>2. CASE ~account.must
    <3>1. call' = Answer(c, 200) /\ Run(c)
      BY <1>8, <2>2
    <3>2. \E status \in {200, 599} : call' = Answer(c, status)
      BY <3>1
    <3> QED
      BY <1>8, <3>1, <3>2, <1>4
  <2> QED
    BY <2>1, <2>2
<1>9. CASE kind = "pwd" /\ (\E cleared \in BOOLEAN : call' = Answer(c, IF cleared THEN 200 ELSE 599)) /\ Run(c)
  <2>1. PICK cleared \in BOOLEAN : call' = Answer(c, IF cleared THEN 200 ELSE 599)
    BY <1>9
  <2>2. \E status \in {200, 599} : call' = Answer(c, status)
    <3>1. CASE cleared
      <4>1. call' = Answer(c, 200)
        BY <2>1, <3>1
      <4> QED
        BY <4>1
    <3>2. CASE ~cleared
      <4>1. call' = Answer(c, 599)
        BY <2>1, <3>2
      <4> QED
        BY <4>1
    <3> QED
      BY <3>1, <3>2
  <2> QED
    BY <1>9, <2>2, <1>4
<1>10. \/ kind = "login" /\ call' = [Answer(c, 200) EXCEPT ![c].token = <<New, 1>>] /\ UNCHANGED <<account, history>>
       \/ call' = Answer(c, 401) /\ UNCHANGED <<account, history>>
       \/ call' = Answer(c, 200) /\ UNCHANGED history
       \/ kind = "data" /\ call' = Answer(c, IF account.must THEN 403 ELSE 200)
             /\ (IF account.must THEN UNCHANGED history ELSE Run(c))
       \/ kind = "pwd" /\ (\E cleared \in BOOLEAN : call' = Answer(c, IF cleared THEN 200 ELSE 599)) /\ Run(c)
  BY DEF Serve
<1> QED
  BY <1>5, <1>6, <1>7, <1>8, <1>9, <1>10

LEMMA LoseKeeps == ASSUME Inv, NEW c \in Calls, Lose(c) PROVE Inv'
<1>1. /\ Only(c, call') /\ CallFits(call'[c]) /\ call'[c].at = "answered" /\ call'[c].status = 599
  BY InvTabs DEF Lose, CallsFit, CallFits, CallFields, Only
<1>2. TabsFit(tab') /\ marker' \in Markers /\ RunsFit(history') /\ history' = history
  BY InvTabs DEF Lose
<1>3. ~Unrun(call'[c])
  BY <1>1 DEF Unrun
<1> QED
  BY <1>1, <1>2, <1>3, QuietStep

-----------------------------------------------------------------------------
(* The browser. *)

(* A call that fails is not carried out any more.                          *)
LEMMA FailsIs ==
    ASSUME Inv, NEW c \in Calls, call[c].at # "free", call' = [call EXCEPT ![c].at = "failed", ![c].status = 0]
    PROVE  Only(c, call') /\ CallFits(call'[c]) /\ call'[c].at = "failed" /\ ~Unrun(call'[c])
<1>1. CallFits(call[c]) /\ DOMAIN call = Calls
  BY InvTabs DEF CallsFit
<1>2. Only(c, call') /\ CallFits(call'[c]) /\ call'[c].at = "failed"
  BY <1>1 DEF Only, CallFits, CallFields
<1> QED
  BY <1>2 DEF Unrun

LEMMA AwaitKeeps == ASSUME Inv, NEW c \in Calls, Await(c) PROVE Inv'
<1> DEFINE t == call[c].tab
<1>1. CallFits(call[c]) /\ DOMAIN call = Calls /\ t \in Tabs
  BY InvTabs DEF CallsFit, CallFits, Await, Unauthorized
<1>2. /\ Only(c, call') /\ CallFits(call'[c]) /\ call'[c].at = "waiting" /\ call'[c].tab = t
      /\ call'[c].kind = call[c].kind
  BY <1>1 DEF Await, Only, CallFits, CallFields
<1>3. Unrun(call'[c]) => Unrun(call[c])
  BY <1>2 DEF Await, Unauthorized, Expired, Unrun
<1>4. TabsFit(tab')
  <2>1. CASE UNCHANGED <<tab, history>>
    BY <2>1, InvTabs
  <2>2. CASE tab' = [tab EXCEPT ![t].flight = [at |-> "asked", token |-> jar, ok |-> FALSE]]
    BY <1>1, <2>2, InvTabs, FlightIs
  <2> QED
    BY <2>1, <2>2 DEF Await, StartOrJoin
<1>5. RunsFit(history') /\ history'.runs = history.runs
  BY InvTabs, RunsStay DEF Await, StartOrJoin
<1>6. marker' \in Markers
  BY InvTabs DEF Await
<1> HIDE DEF t
<1> QED
  BY <1>2, <1>3, <1>4, <1>5, <1>6, QuietStep

(* A call that is sent again has not been carried out yet.                 *)
LEMMA AgainIs ==
    ASSUME NEW r, CallFits(r), r.at # "free", NEW cookies
    PROVE  LET q == Again(r, cookies)
           IN  /\ CallFits(q) /\ q.at = "sent" /\ q.status = 0 /\ q.token = cookies /\ q.replayed
               /\ q.kind = r.kind
  BY DEF Again, CallFits, CallFields

LEMMA ReplayKeeps == ASSUME Inv, NEW c \in Calls, Replay(c) PROVE Inv'
<1> DEFINE r == Again(call[c], jar)
<1>1. CallFits(call[c]) /\ call[c].at = "answered" /\ call[c].status = 401
  BY InvTabs DEF CallsFit, Replay, Late, Unauthorized, Expired
<1>2. CallFits(r) /\ r.at = "sent" /\ r.kind = call[c].kind
  BY <1>1, AgainIs
<1> HIDE DEF r
<1>3. Only(c, call') /\ call'[c] = r
  BY InvTabs, Replaced DEF Replay, r
<1>4. Unrun(call'[c]) => Unrun(call[c])
  BY <1>1, <1>2, <1>3 DEF Unrun
<1>5. TabsFit(tab') /\ marker' \in Markers /\ RunsFit(history') /\ history' = history
  BY InvTabs DEF Replay
<1> QED
  BY <1>2, <1>3, <1>4, <1>5, QuietStep

LEMMA GiveUpKeeps == ASSUME Inv, NEW c \in Calls, GiveUp(c) PROVE Inv'
<1>1. call[c].at # "free" /\ call' = [call EXCEPT ![c].at = "failed", ![c].status = 0]
      /\ tab' = RedirectTo(call[c].tab, Login) /\ marker' = "none"
      /\ history' = [history EXCEPT !.gaveUp = @ \/ SessionAlive]
  BY DEF GiveUp, Late, Unauthorized
<1>2. call[c].tab \in Tabs
  BY <1>1, InvTabs DEF CallsFit, CallFits
<1>3. TabsFit(tab')
  BY <1>1, <1>2, InvTabs, RedirectIs
<1>4. Only(c, call') /\ CallFits(call'[c]) /\ call'[c].at = "failed" /\ ~Unrun(call'[c])
  BY <1>1, FailsIs
<1>5. RunsFit(history') /\ history'.runs = history.runs
  BY <1>1, InvTabs DEF RunsFit
<1>6. marker' \in Markers
  BY <1>1 DEF Markers
<1> QED
  BY <1>3, <1>4, <1>5, <1>6, QuietStep

LEMMA SandboxedKeeps == ASSUME Inv, NEW c \in Calls, Sandboxed(c) PROVE Inv'
<1>1. call[c].at # "free" /\ call' = [call EXCEPT ![c].at = "failed", ![c].status = 0]
      /\ (tab' = tab \/ tab' = RedirectTo(call[c].tab, Change)) /\ UNCHANGED <<marker, history>>
  BY DEF Sandboxed
<1>2. call[c].tab \in Tabs
  BY <1>1, InvTabs DEF CallsFit, CallFits
<1>3. TabsFit(tab')
  BY <1>1, <1>2, InvTabs, RedirectIs
<1>4. Only(c, call') /\ CallFits(call'[c]) /\ call'[c].at = "failed" /\ ~Unrun(call'[c])
  BY <1>1, FailsIs
<1> QED
  BY <1>1, <1>3, <1>4, InvTabs, QuietStep

LEMMA FailsKeeps == ASSUME Inv, NEW c \in Calls, Fails(c) PROVE Inv'
<1>1. call[c].at # "free" /\ call' = [call EXCEPT ![c].at = "failed", ![c].status = 0]
      /\ UNCHANGED <<marker, tab, history>>
  BY DEF Fails
<1>2. TabsFit(tab')
  BY <1>1, InvTabs
<1>3. Only(c, call') /\ CallFits(call'[c]) /\ call'[c].at = "failed" /\ ~Unrun(call'[c])
  BY <1>1, FailsIs
<1> QED
  BY <1>1, <1>2, <1>3, InvTabs, QuietStep

(* The caller is done with the call.                                       *)
LEMMA DoneKeeps ==
    ASSUME Inv, NEW c \in Calls, call' = [call EXCEPT ![c] = Free], TabsFit(tab'), marker' \in Markers,
           RunsFit(history'), history'.runs = history.runs
    PROVE  Inv'
<1>1. Only(c, call') /\ call'[c] = Free
  BY InvTabs, Replaced
<1> QED
  BY <1>1, FreeIs, QuietStep

(* The pages a caller goes on to.                                          *)
LEMMA EntersIs ==
    ASSUME Inv, NEW t \in Tabs, NEW path, NEW m, NEW k \in Markers
    PROVE  TabsFit([tab EXCEPT ![t] = [At(t, path, m) EXCEPT !.known = k]])
<1> DEFINE r == [At(t, path, m) EXCEPT !.known = k]
<1>1. TabFits(r) /\ r.flight = tab[t].flight
  BY InvTabs, AtKnownIs
<1> HIDE DEF r
<1>2. TabsFit([tab EXCEPT ![t] = r])
  BY <1>1, InvTabs, TabChange
<1> QED
  BY <1>2 DEF r

LEMMA FailedKeeps == ASSUME Inv, NEW c \in Calls, Failed(c) PROVE Inv'
<1> DEFINE t == call[c].tab
           base == call[c].base
<1>1. t \in Tabs /\ base \in Markers
  BY InvTabs DEF CallsFit, CallFits, Failed
<1>2. call' = [call EXCEPT ![c] = Free] /\ history' = history /\ RunsFit(history')
  BY InvTabs DEF Failed
<1>3. \/ UNCHANGED <<marker, tab>>
      \/ marker' = base /\ tab' = [tab EXCEPT ![t].known = base]
      \/ marker' = base /\ tab' = [tab EXCEPT ![t] = [At(t, Home(Account, FALSE), base) EXCEPT !.known = base]]
  BY DEF Failed
<1> HIDE DEF t, base
<1>4. TabsFit(tab') /\ marker' \in Markers
  <2>1. CASE UNCHANGED <<marker, tab>>
    BY <2>1, InvTabs
  <2>2. CASE marker' = base /\ tab' = [tab EXCEPT ![t].known = base]
    BY <1>1, <2>2, InvTabs, KnownIs
  <2>3. CASE marker' = base /\ tab' = [tab EXCEPT ![t] = [At(t, Home(Account, FALSE), base) EXCEPT !.known = base]]
    BY <1>1, <2>3, EntersIs
  <2> QED
    BY <1>3, <2>1, <2>2, <2>3
<1> QED
  BY <1>2, <1>4, DoneKeeps

LEMMA LoggedOutKeeps == ASSUME Inv, NEW c \in Calls, LoggedOut(c) PROVE Inv'
<1> DEFINE t == call[c].tab
<1>1. t \in Tabs
  BY InvTabs DEF CallsFit, CallFits, LoggedOut
<1>2. call' = [call EXCEPT ![c] = Free] /\ history' = history /\ RunsFit(history') /\ marker' = "none"
      /\ tab' = [tab EXCEPT ![t] = [At(t, Login, "none") EXCEPT !.known = "none"]]
  BY InvTabs DEF LoggedOut
<1> HIDE DEF t
<1>3. "none" \in Markers
  BY DEF Markers
<1>4. TabsFit(tab')
  BY <1>1, <1>2, <1>3, EntersIs
<1> QED
  BY <1>2, <1>3, <1>4, DoneKeeps

(* One call follows another: the new one is not carried out yet, but it is *)
(* not one of those that count.                                            *)
LEMMA FollowKeeps ==
    ASSUME Inv, NEW c \in Calls, NEW r, CallFits(r), r.at = "sent", r.kind \in {"enter", "logout", "exit"},
           call' = [call EXCEPT ![c] = r], UNCHANGED tab, marker' \in Markers,
           RunsFit(history'), history'.runs = history.runs
    PROVE  Inv'
<1>1. Only(c, call') /\ call'[c] = r
  BY InvTabs, Replaced
<1>2. ~Unrun(call'[c])
  BY <1>1 DEF Unrun
<1>3. TabsFit(tab')
  BY InvTabs
<1> QED
  BY <1>1, <1>2, <1>3, QuietStep

LEMMA LogoutAgainKeeps == ASSUME Inv, NEW c \in Calls, LogoutAgain(c) PROVE Inv'
<1> DEFINE r == Sent(call[c].tab, "exit")
<1>1. call[c].tab \in Tabs
  BY InvTabs DEF CallsFit, CallFits, LogoutAgain
<1>2. CallFits(r) /\ r.at = "sent" /\ r.kind = "exit"
  BY <1>1, SentIs
<1>3. call' = [call EXCEPT ![c] = r]
  BY DEF LogoutAgain
<1> HIDE DEF r
<1> QED
  BY <1>2, <1>3, InvTabs, FollowKeeps DEF LogoutAgain

LEMMA FlagIs == \A must : Flag(must) \in Markers
  BY DEF Flag, Markers

LEMMA SucceededKeeps == ASSUME Inv, NEW c \in Calls, Succeeded(c) PROVE Inv'
<1> DEFINE t == call[c].tab
           m == Flag(call[c].must)
<1>1. t \in Tabs /\ m \in Markers
  BY InvTabs, FlagIs DEF CallsFit, CallFits, Succeeded
<1>2. RunsFit(history') /\ history'.runs = history.runs
  BY InvTabs, RunsStay DEF Succeeded
<1>3. CASE /\ call' = [call EXCEPT ![c] = Free]
           /\ UNCHANGED <<marker, tab>>
  BY <1>2, <1>3, InvTabs, DoneKeeps
<1>4. CASE /\ call' = [call EXCEPT ![c] = Free] /\ marker' = m
           /\ tab' = [tab EXCEPT ![t] = [tab[t] EXCEPT !.known = m]]
  <2>1. TabsFit([tab EXCEPT ![t].known = m])
    BY <1>1, InvTabs, KnownIs
  <2>2. tab' = [tab EXCEPT ![t].known = m]
    BY <1>4
  <2> HIDE DEF t, m
  <2> QED
    BY <1>1, <1>2, <1>4, <2>1, <2>2, DoneKeeps
<1>5. CASE /\ call' = [call EXCEPT ![c] = Free] /\ marker' = m
           /\ \E path : tab' = [tab EXCEPT ![t] = [At(t, path, m) EXCEPT !.known = m]]
  <2> HIDE DEF t, m
  <2>1. PICK path : tab' = [tab EXCEPT ![t] = [At(t, path, m) EXCEPT !.known = m]]
    BY <1>5
  <2>2. TabsFit([tab EXCEPT ![t] = [At(t, path, m) EXCEPT !.known = m]])
    BY <1>1, EntersIs
  <2>3. TabsFit(tab')
    BY <2>1, <2>2
  <2> QED
    BY <1>1, <1>2, <1>5, <2>3, DoneKeeps
<1>6. CASE /\ call' = [call EXCEPT ![c] = [Sent(t, "enter") EXCEPT !.token = jar', !.base = m]]
           /\ marker' = m /\ UNCHANGED tab
  <2> DEFINE s == Sent(t, "enter")
             r == [s EXCEPT !.token = jar', !.base = m]
  <2>1. CallFits(s) /\ s.at = "sent" /\ s.kind = "enter"
    BY <1>1, SentIs
  <2> HIDE DEF s
  <2>2. CallFits(r) /\ r.at = "sent" /\ r.kind = "enter"
    BY <1>1, <2>1 DEF CallFits, CallFields
  <2>3. call' = [call EXCEPT ![c] = r]
    BY <1>6 DEF s
  <2> HIDE DEF r, m, t
  <2> QED
    BY <1>1, <1>2, <1>6, <2>2, <2>3, FollowKeeps
<1>7. CASE /\ call' = [call EXCEPT ![c] = Sent(t, "logout")]
           /\ marker' = (IF tab[t].known = "must" /\ tab[t].page = Change THEN "user" ELSE marker)
           /\ UNCHANGED tab
  <2> DEFINE r == Sent(t, "logout")
  <2>1. CallFits(r) /\ r.at = "sent" /\ r.kind = "logout"
    BY <1>1, SentIs
  <2> HIDE DEF r
  <2>2. marker' \in Markers
    BY <1>7, InvTabs DEF Markers
  <2> QED
    BY <1>2, <1>7, <2>1, <2>2, FollowKeeps DEF r
<1>8. \/ call' = [call EXCEPT ![c] = Free] /\ UNCHANGED <<marker, tab>>
      \/ /\ call' = [call EXCEPT ![c] = Free] /\ marker' = m
         /\ tab' = [tab EXCEPT ![t] = [tab[t] EXCEPT !.known = m]]
      \/ /\ call' = [call EXCEPT ![c] = Free] /\ marker' = m
         /\ \E path : tab' = [tab EXCEPT ![t] = [At(t, path, m) EXCEPT !.known = m]]
      \/ /\ call' = [call EXCEPT ![c] = [Sent(t, "enter") EXCEPT !.token = jar', !.base = m]]
         /\ marker' = m /\ UNCHANGED tab
      \/ /\ call' = [call EXCEPT ![c] = Sent(t, "logout")]
         /\ marker' = (IF tab[t].known = "must" /\ tab[t].page = Change THEN "user" ELSE marker)
         /\ UNCHANGED tab
  <2>1. CASE call[c].kind = "data"
    BY <2>1 DEF Succeeded
  <2>2. CASE call[c].kind = "who"
    BY <2>2 DEF Succeeded
  <2>3. CASE call[c].kind = "enter"
    BY <2>3 DEF Succeeded
  <2>4. CASE call[c].kind = "login"
    BY <2>4 DEF Succeeded
  <2>5. CASE call[c].kind = "pwd"
    BY <2>5 DEF Succeeded
  <2> QED
    BY <2>1, <2>2, <2>3, <2>4, <2>5 DEF Succeeded
<1> QED
  BY <1>3, <1>4, <1>5, <1>6, <1>7, <1>8

-----------------------------------------------------------------------------
(* The refresh, time and the administrator. *)

LEMMA RefreshReadKeeps == ASSUME Inv, NEW t \in Tabs, RefreshRead(t) PROVE Inv'
<1>1. RunsFit(history') /\ history'.runs = history.runs /\ UNCHANGED <<call, marker>>
  BY InvTabs DEF RefreshRead, RunsFit
<1>2. tab' = Flight(t, "served", FALSE) \/ tab' = Flight(t, "read", FALSE)
  BY DEF RefreshRead, Refused
<1>3. TabsFit(tab')
  BY <1>2, InvTabs, FlightMoves
<1> QED
  BY <1>1, <1>3, InvTabs, TabStep

LEMMA RefreshSwapKeeps == ASSUME Inv, NEW t \in Tabs, RefreshSwap(t) PROVE Inv'
<1>1. RunsFit(history') /\ history'.runs = history.runs /\ UNCHANGED <<call, marker>>
  BY InvTabs DEF RefreshSwap, RunsFit
<1>2. \/ \E k : tab' = [Flight(t, "served", TRUE) EXCEPT ![t].flight.token = k]
      \/ tab' = Flight(t, "served", FALSE)
  BY DEF RefreshSwap, Refused
<1>3. TabsFit(tab')
  <2>1. \A k : TabsFit([Flight(t, "served", TRUE) EXCEPT ![t].flight.token = k])
    BY InvTabs, FlightMoves
  <2>2. TabsFit(Flight(t, "served", FALSE))
    BY InvTabs, FlightMoves
  <2> QED
    BY <1>2, <2>1, <2>2
<1> QED
  BY <1>1, <1>3, InvTabs, TabStep

(* Who waited is sent again, or fails: none of them has been carried out.  *)
LEMMA SettleKeeps ==
    ASSUME Inv, NEW t \in Tabs, NEW ok, NEW cookies, Settle(t, ok, cookies),
           RunsFit(history'), history'.runs = history.runs
    PROVE  Inv'
<1> DEFINE base == IF ok THEN tab ELSE RedirectTo(t, Login)
<1>1. TabsFit(base)
  BY InvTabs, RedirectIs
<1>2. tab' = [base EXCEPT ![t].flight = [at |-> "done", token |-> NoToken, ok |-> ok]]
  BY DEF Settle
<1> HIDE DEF base
<1>3. TabsFit(tab')
  BY <1>1, <1>2 DEF TabsFit, TabFits, TabFields
<1>4. marker' \in Markers
  BY InvTabs DEF Settle, Markers
<1>5. ASSUME NEW c \in Calls
      PROVE  CallFits(call'[c]) /\ (Unrun(call'[c]) => Unrun(call[c]))
  <2>1. CallFits(call[c])
    BY InvTabs DEF CallsFit
  <2>2. CASE call'[c] = call[c]
    BY <2>1, <2>2
  <2>3. CASE call[c].at = "waiting" /\ call'[c] = Again(call[c], cookies)
    <3>1. CallFits(call'[c]) /\ call'[c].at = "sent" /\ call'[c].kind = call[c].kind
      BY <2>1, <2>3, AgainIs
    <3> QED
      BY <2>3, <3>1 DEF Unrun
  <2>4. CASE call[c].at = "waiting" /\ call'[c] = [call[c] EXCEPT !.at = "failed"]
    <3>1. CallFits(call'[c]) /\ call'[c].at = "failed"
      BY <2>1, <2>4 DEF CallFits, CallFields
    <3> QED
      BY <3>1 DEF Unrun
  <2> QED
    BY <2>2, <2>3, <2>4 DEF Settle
<1>6. CallsFit(call')
  BY <1>5 DEF Settle, CallsFit
<1> QED
  BY <1>3, <1>4, <1>5, <1>6 DEF Inv

LEMMA RefreshAnsweredKeeps == ASSUME Inv, NEW t \in Tabs, RefreshAnswered(t) PROVE Inv'
<1>1. RunsFit(history') /\ history'.runs = history.runs
  BY InvTabs DEF RefreshAnswered, RunsFit
<1> QED
  BY <1>1, SettleKeeps DEF RefreshAnswered

LEMMA RefreshLostKeeps == ASSUME Inv, NEW t \in Tabs, RefreshLost(t) PROVE Inv'
<1>1. RunsFit(history') /\ history'.runs = history.runs
  BY InvTabs DEF RefreshLost, RunsFit
<1> QED
  BY <1>1, SettleKeeps DEF RefreshLost

LEMMA ResetFlightKeeps == ASSUME Inv, NEW t \in Tabs, ResetFlight(t) PROVE Inv'
<1>1. TabsFit(tab')
  BY InvTabs DEF ResetFlight, TabsFit, TabFits, TabFields, NoFlight
<1> QED
  BY <1>1, InvTabs, TabStep DEF ResetFlight

LEMMA OthersKeep ==
    ASSUME Inv, UNCHANGED <<call, marker, tab>>, NEW reason, UNCHANGED history \/ Excuse(reason)
    PROVE  Inv'
<1>1. RunsFit(history') /\ history'.runs = history.runs
  BY InvTabs, RunsStay
<1> QED
  BY <1>1, InvTabs, TabStep

-----------------------------------------------------------------------------
LEMMA InitHolds == Init => Inv
<1> SUFFICES ASSUME Init PROVE Inv
  OBVIOUS
<1>1. marker \in Markers
  BY FlagIs DEF Init
<1>2. TabsFit(tab)
  <2>1. PICK must \in BOOLEAN, open \in SUBSET Tabs :
          tab = [t \in Tabs |-> [page |-> Resolve(Path("dashboard"), Flag(t \notin open), Account),
                                 leaving |-> Path(""), known |-> Flag(t \notin open),
                                 flight |-> NoFlight, fresh |-> ~must]]
    BY DEF Init
  <2> QED
    BY <2>1, FlagIs DEF TabsFit, TabFits, TabFields, NoFlight
<1>3. CallsFit(call) /\ \A c \in Calls : call[c] = Free
  BY FreeIs DEF Init, CallsFit
<1>4. RunsFit(history) /\ \A c \in Calls : history.runs[c] = 0
  BY DEF Init, RunsFit
<1> QED
  BY <1>1, <1>2, <1>3, <1>4, FreeIs DEF Inv

LEMMA StepKeeps == Inv /\ [Next]_vars => Inv'
<1> SUFFICES ASSUME Inv, [Next]_vars PROVE Inv'
  OBVIOUS
<1>1. ASSUME NEW c \in Calls, Serve(c) \/ Lose(c) \/ Browser(c) PROVE Inv'
  BY <1>1, ServeKeeps, LoseKeeps, AwaitKeeps, ReplayKeeps, GiveUpKeeps, SandboxedKeeps, FailsKeeps,
     FailedKeeps, SucceededKeeps, LogoutAgainKeeps, LoggedOutKeeps DEF Browser
<1>2. ASSUME NEW t \in Tabs, NEW c \in Calls, AskUser(c, t) PROVE Inv'
  BY <1>2, AskUserKeeps
<1>3. ASSUME NEW t \in Tabs, NEW c \in Calls, NEW kind, Start(c, t, kind) PROVE Inv'
  BY <1>3, StartKeeps
<1>4. ASSUME NEW t \in Tabs, NEW path, OpenLink(t, path) PROVE Inv'
  BY <1>4, OpenLinkKeeps
<1>5. ASSUME NEW t \in Tabs, Reload(t) \/ Leave(t) PROVE Inv'
  BY <1>5, UnloadKeeps DEF Reload, Leave
<1>6. ASSUME NEW t \in Tabs, RefreshRead(t) \/ RefreshSwap(t) \/ RefreshAnswered(t) \/ RefreshLost(t) \/ ResetFlight(t)
      PROVE  Inv'
  BY <1>6, RefreshReadKeeps, RefreshSwapKeeps, RefreshAnsweredKeeps, RefreshLostKeeps, ResetFlightKeeps
<1>7. ASSUME NEW s \in Sessions, Age(s) PROVE Inv'
  BY <1>7, OthersKeep DEF Age
<1>8. ASSUME NEW s \in Sessions, EndSession(s) PROVE Inv'
  BY <1>8, OthersKeep DEF EndSession
<1>9. CASE ResetPassword
  BY <1>9, OthersKeep DEF ResetPassword
<1>10. CASE UNCHANGED vars
  BY <1>10, OthersKeep DEF vars
<1> QED
  BY <1>1, <1>2, <1>3, <1>4, <1>5, <1>6, <1>7, <1>8, <1>9, <1>10 DEF Next

LEMMA InvHolds == Spec => []Inv
<1>1. Init => Inv
  BY InitHolds
<1>2. Inv /\ [Next]_vars => Inv'
  BY StepKeeps
<1> QED
  BY <1>1, <1>2, PTL DEF Spec

(* The replay of api.ts after a refresh never carries out a call that was  *)
(* carried out before: only a 401 is replayed, and the server answers it   *)
(* before it does anything.                                                *)
THEOREM NoDoubleRun == Spec => []AtMostOnce
<1>1. Inv => AtMostOnce
  BY DEF Inv, AtMostOnce
<1> QED
  BY <1>1, InvHolds, PTL

(* Whatever happens to the session, the router's guards come to rest on a  *)
(* page that access.ts opens.                                              *)
THEOREM RouterSettles == Spec => []RedirectsEnd
<1>1. Inv => RedirectsEnd
  BY RedirectsSettle DEF Inv, RedirectsEnd
<1> QED
  BY <1>1, InvHolds, PTL

(* A signed-in user may open the home page and every entry of the menu.    *)
THEOREM OffersOpen == Spec => []OffersAreOpen
<1>1. OffersAreOpen
  BY HomesOpen, MenusOpen DEF OffersAreOpen
<1> QED
  BY <1>1, PTL
-----------------------------------------------------------------------------
(* The tokens.  As long as nothing excuses it, a refresh is the only one on *)
(* its way, the cookies name the current token of their session or the one  *)
(* that refresh is about, and no call is replayed while a refresh is on its *)
(* way: so a refresh never uses an old token, and a page that gives up has  *)
(* no session.                                                              *)

HistFit == DOMAIN history = {"runs", "excused", "reused", "gaveUp"}

Token == Sessions \X (Nat \ {0})

(* The token is the one its session accepts, were it alive.                 *)
Stored(token) == token \in Token /\ row[token[1]].n = token[2]

Busy(f, t) == f[t].flight.at # "idle"

Flies(f) == f.at \in {"asked", "read", "served"}
NoFlying == \A t \in Tabs : ~Flies(tab[t].flight)

RowFits(r) == r \in [live : BOOLEAN, n : Nat, pwd : Nat, aged : BOOLEAN]

(* Sessions are made one after the other, with the password of their time.  *)
RowsFit ==
    /\ Sessions = 1..MaxSessions
    /\ account.pwd \in Nat /\ DOMAIN account = {"pwd", "must"}
    /\ \A s \in Sessions : RowFits(row[s]) /\ row[s].pwd <= account.pwd
    /\ \E k \in Nat : \A s \in Sessions : row[s].n = 0 <=> s > k

JarFits ==
    /\ jar = NoToken \/ jar \in Token
    /\ NoFlying => jar = NoToken \/ Stored(jar)

(* The refresh of a tab and the cookies; an answered one that failed leaves *)
(* no cookies, one that succeeded leaves fresh ones.                        *)
FlightFits(t) ==
    LET f == tab[t].flight IN
    /\ f.ok \in BOOLEAN
    /\ Flies(f) => f.token = NoToken \/ Stored(f.token)
    /\ Flies(f) /\ jar # NoToken => f.token # NoToken /\ jar[1] = f.token[1]
    /\ f.at \in {"asked", "read"} => jar \in {NoToken, f.token}
    /\ f.at = "read" => f.token # NoToken
    /\ f.at = "served" /\ f.ok => f.token # NoToken /\ ~row[f.token[1]].aged
    /\ f.at = "done" => jar = NoToken \/ (f.ok /\ ~row[jar[1]].aged)

OneFlight == \A t, u \in Tabs : Busy(tab, t) /\ Busy(tab, u) => t = u

LoginAnswered(r) == r.kind = "login" /\ r.at = "answered" /\ r.status = 200

(* The session of a login that was answered is nobody else's yet.           *)
LoginFits(c) ==
    LoginAnswered(call[c]) =>
        /\ Stored(call[c].token)
        /\ jar # NoToken => jar[1] # call[c].token[1]
        /\ \A t \in Tabs : Flies(tab[t].flight) /\ tab[t].flight.token # NoToken =>
             tab[t].flight.token[1] # call[c].token[1]
        /\ \A d \in Calls \ {c} : LoginAnswered(call[d]) => call[d].token[1] # call[c].token[1]

(* A replay uses the fresh token, and is refused only if there is none or   *)
(* the session has ended since.                                             *)
ReplayFits(c) ==
    LET r == call[c] IN
    /\ r.at = "waiting" => r.status # 200
    /\ r.replayed /\ r.at = "sent" =>
         /\ r.status # 200 /\ NoFlying
         /\ jar # NoToken => r.token = jar /\ ~row[jar[1]].aged
    /\ r.replayed /\ r.at = "answered" /\ r.status = 401 => NoFlying /\ ~Current(jar)

Sound ==
    /\ ~history.reused /\ ~history.gaveUp
    /\ RowsFit /\ JarFits /\ OneFlight
    /\ \A t \in Tabs : FlightFits(t)
    /\ \A c \in Calls : LoginFits(c)
    /\ \A c \in Calls : ReplayFits(c)

SessionInv == HistFit /\ (~history.excused => Sound)

-----------------------------------------------------------------------------
(* Steps that issue no token. *)

LEMMA NoTokenIs == NoToken \notin Token
  BY DEF NoToken, Token

LEMMA HistoryStays ==
    ASSUME HistFit, \/ UNCHANGED history
                    \/ \E x : history' = [history EXCEPT !.runs = x]
    PROVE  HistFit' /\ history'.reused = history.reused /\ history'.gaveUp = history.gaveUp
           /\ history'.excused = history.excused
  BY DEF HistFit

LEMMA ExcuseIs ==
    ASSUME HistFit, NEW reason, Excuse(reason)
    PROVE  HistFit' /\ history'.reused = history.reused /\ history'.gaveUp = history.gaveUp
           /\ (~history'.excused => ~history.excused /\ ~reason)
  BY DEF HistFit, Excuse

(* Rows only end, and passwords only get newer.                             *)
RowsEnd ==
    /\ Sessions' = Sessions
    /\ account'.pwd \in Nat /\ DOMAIN account' = {"pwd", "must"} /\ account.pwd <= account'.pwd
    /\ \A s \in Sessions :
         /\ RowFits(row'[s]) /\ (row'[s].live => row[s].live)
         /\ row'[s].n = row[s].n /\ row'[s].pwd = row[s].pwd /\ row'[s].aged = row[s].aged

LEMMA RowsStay == ASSUME RowsFit, UNCHANGED <<row, account>> PROVE RowsEnd
  BY DEF RowsFit, RowsEnd, Sessions

LEMMA RevokedEnds == ASSUME RowsFit, NEW sids, row' = Revoked(row, sids), UNCHANGED account PROVE RowsEnd
<1>1. DOMAIN row' = DOMAIN row
  BY DEF Revoked
<1>2. ASSUME NEW s \in Sessions
      PROVE  /\ RowFits(row'[s]) /\ (row'[s].live => row[s].live)
             /\ row'[s].n = row[s].n /\ row'[s].pwd = row[s].pwd /\ row'[s].aged = row[s].aged
  <2>1. row'[s] = IF s \in sids THEN [row[s] EXCEPT !.live = FALSE] ELSE row[s]
    BY DEF Revoked, Sessions
  <2>2. RowFits(row[s])
    BY DEF RowsFit
  <2> QED BY <2>1, <2>2 DEF RowFits
<1> QED BY <1>1, <1>2 DEF RowsFit, RowsEnd, Sessions

FlightsDrop ==
    \A t \in Tabs : \/ tab'[t].flight = tab[t].flight
                    \/ tab'[t].flight = NoFlight /\ tab[t].flight.at # "served"

LEMMA QuietSession ==
    ASSUME Sound, RowsEnd, FlightsDrop, jar' \in {jar, NoToken},
           ~history'.reused, ~history'.gaveUp,
           \A c \in Calls : \/ call'[c] = call[c]
                            \/ ~LoginAnswered(call'[c]) /\ ReplayFits(c)'
    PROVE  Sound'
<1>1. RowsFit'
  <2>1. \A s \in Sessions : row'[s].pwd <= account'.pwd
    BY DEF Sound, RowsFit, RowsEnd, RowFits
  <2>2. PICK k \in Nat : \A s \in Sessions : row[s].n = 0 <=> s > k
    BY DEF Sound, RowsFit
  <2>3. \A s \in Sessions' : row'[s].n = 0 <=> s > k
    BY <2>2 DEF RowsEnd
  <2> QED BY <2>1, <2>3 DEF Sound, RowsFit, RowsEnd
<1>2. /\ Token' = Token
      /\ \A token : Stored(token)' <=> Stored(token)
      /\ \A token \in Token : row'[token[1]].aged = row[token[1]].aged
  BY DEF RowsEnd, Stored, Token, Sessions
<1>3. /\ \A t \in Tabs : Flies(tab'[t].flight) => tab'[t].flight = tab[t].flight
      /\ NoFlying => NoFlying'
      /\ \A t \in Tabs : Busy(tab', t) => Busy(tab, t)
  BY DEF FlightsDrop, NoFlying, Flies, NoFlight, Busy
<1>4. JarFits'
  <2>1. CASE jar' = NoToken
    BY <2>1 DEF JarFits
  <2>2. CASE jar' = jar /\ jar # NoToken
    <3>1. jar' \in Token'
      BY <1>2, <2>2 DEF Sound, JarFits
    <3>2. ASSUME NoFlying' PROVE Stored(jar)
      <4>1. CASE NoFlying
        BY <2>2, <4>1 DEF Sound, JarFits
      <4>2. CASE ~NoFlying
        <5>1. PICK t \in Tabs : Flies(tab[t].flight)
          BY <4>2 DEF NoFlying
        <5>2. tab[t].flight.at \in {"asked", "read"}
          BY <3>2, <5>1 DEF FlightsDrop, NoFlying, Flies
        <5>3. jar = tab[t].flight.token /\ Stored(tab[t].flight.token)
          BY <2>2, <5>1, <5>2 DEF Sound, FlightFits
        <5> QED BY <5>3
      <4> QED BY <4>1, <4>2
    <3> QED BY <1>2, <2>2, <3>1, <3>2 DEF JarFits
  <2> QED BY <2>1, <2>2
<1>5. OneFlight'
  BY <1>3 DEF Sound, OneFlight
<1>6. ASSUME NEW t \in Tabs PROVE FlightFits(t)'
  <2>1. FlightFits(t) /\ (jar = NoToken \/ jar \in Token)
    BY DEF Sound, JarFits
  <2>2. CASE tab'[t].flight = tab[t].flight
    <3>1. tab[t].flight.token # NoToken /\ Flies(tab[t].flight) => tab[t].flight.token \in Token
      BY <2>1 DEF FlightFits, Stored
    <3> QED BY <1>2, <2>1, <2>2, <3>1 DEF FlightFits, Flies
  <2>3. CASE tab'[t].flight = NoFlight
    BY <2>3 DEF FlightFits, NoFlight, Flies
  <2> QED BY <2>2, <2>3 DEF FlightsDrop
<1>7. ASSUME NEW c \in Calls PROVE LoginFits(c)'
  <2>1. LoginFits(c)
    BY DEF Sound
  <2>2. LoginAnswered(call'[c]) => call'[c] = call[c]
    OBVIOUS
  <2>3. \A d \in Calls \ {c} : LoginAnswered(call'[d]) => call'[d] = call[d]
    OBVIOUS
  <2> QED BY <1>2, <1>3, <2>1, <2>2, <2>3 DEF LoginFits
<1>8. ASSUME NEW c \in Calls PROVE ReplayFits(c)'
  <2>1. CASE call'[c] = call[c]
    <3>1. ReplayFits(c) /\ (jar = NoToken \/ jar \in Token)
      BY DEF Sound, JarFits
    <3>2. Current(jar)' => Current(jar)
      <4>1. ASSUME Current(jar)' PROVE Current(jar)
        <5>1. jar' # NoToken /\ jar' = jar
          BY <4>1 DEF Current
        <5>2. jar \in Token /\ RowsFit
          BY <5>1 DEF Sound, JarFits
        <5> QED BY <4>1, <5>1, <5>2 DEF RowsFit, RowsEnd, Current, Token
      <4> QED BY <4>1
    <3> QED BY <1>2, <1>3, <2>1, <3>1, <3>2 DEF ReplayFits
  <2> QED BY <2>1
<1> QED BY <1>1, <1>4, <1>5, <1>6, <1>7, <1>8 DEF Sound

HistoryMoves ==
    /\ HistFit' /\ history'.reused = history.reused /\ history'.gaveUp = history.gaveUp
    /\ ~history'.excused => ~history.excused

(* No login is answered, and no replay on its way or refused.               *)
Calm(r) ==
    /\ ~LoginAnswered(r) /\ (r.at = "waiting" => r.status # 200)
    /\ r.replayed => r.at # "sent" /\ (r.at = "answered" => r.status # 401)

LEMMA CalmFits == ASSUME NEW c \in Calls, Calm(call'[c]) PROVE ~LoginAnswered(call'[c]) /\ ReplayFits(c)'
  BY DEF Calm, ReplayFits

LEMMA CalmSession ==
    ASSUME SessionInv, UNCHANGED <<row, account>>, jar' \in {jar, NoToken}, HistoryMoves,
           ~history'.excused => FlightsDrop,
           \A c \in Calls : call'[c] = call[c] \/ Calm(call'[c])
    PROVE  SessionInv'
<1> SUFFICES ASSUME ~history'.excused PROVE Sound'
  BY DEF SessionInv, HistoryMoves
<1>1. Sound
  BY DEF SessionInv, HistoryMoves
<1>2. RowsEnd
  BY <1>1, RowsStay DEF Sound
<1>3. ~history'.reused /\ ~history'.gaveUp
  BY <1>1 DEF HistoryMoves, Sound
<1> QED
  BY <1>1, <1>2, <1>3, CalmFits, QuietSession

LEMMA HistoryKept ==
    ASSUME HistFit, UNCHANGED history \/ \E x : history' = [history EXCEPT !.runs = x]
    PROVE  HistoryMoves
  BY HistoryStays DEF HistoryMoves

LEMMA ExcuseMoves == ASSUME HistFit, NEW reason, Excuse(reason) PROVE HistoryMoves
  BY ExcuseIs DEF HistoryMoves

(* What leaves the refreshes alone. *)
LEMMA DropNone == ASSUME UNCHANGED tab PROVE FlightsDrop
  BY DEF FlightsDrop

LEMMA DropTab ==
    ASSUME TabsFit(tab), NEW t \in Tabs, NEW r, r.flight = tab[t].flight, tab' = [tab EXCEPT ![t] = r]
    PROVE  FlightsDrop
  BY DEF FlightsDrop, TabsFit

LEMMA DropKnown ==
    ASSUME TabsFit(tab), NEW t \in Tabs, NEW k, tab' = [tab EXCEPT ![t].known = k]
    PROVE  FlightsDrop
<1> DEFINE r == [tab[t] EXCEPT !.known = k]
<1>1. r.flight = tab[t].flight
  BY DEF TabsFit, TabFits, TabFields
<1>2. tab' = [tab EXCEPT ![t] = r]
  OBVIOUS
<1> HIDE DEF r
<1> QED
  BY <1>1, <1>2, DropTab

LEMMA DropRedirect ==
    ASSUME TabsFit(tab), NEW t \in Tabs, NEW path, tab' = RedirectTo(t, path)
    PROVE  FlightsDrop
<1> DEFINE leaving == IF tab[t].page = path THEN tab[t].leaving ELSE path
           r == [tab[t] EXCEPT !.leaving = leaving]
<1>1. r.flight = tab[t].flight
  BY DEF TabsFit, TabFits, TabFields
<1>2. tab' = [tab EXCEPT ![t] = r]
  BY DEF RedirectTo
<1> HIDE DEF r
<1> QED
  BY <1>1, <1>2, DropTab

LEMMA DropEnters ==
    ASSUME TabsFit(tab), NEW t \in Tabs, NEW path, NEW m, NEW k \in Markers,
           tab' = [tab EXCEPT ![t] = [At(t, path, m) EXCEPT !.known = k]]
    PROVE  FlightsDrop
<1> DEFINE r == [At(t, path, m) EXCEPT !.known = k]
<1>1. TabFits(r) /\ r.flight = tab[t].flight
  BY AtKnownIs
<1>2. tab' = [tab EXCEPT ![t] = r]
  OBVIOUS
<1> HIDE DEF r
<1> QED
  BY <1>1, <1>2, DropTab

LEMMA FreeIsCalm == Calm(Free)
  BY DEF Free, Calm, LoginAnswered

LEMMA SentIsCalm == ASSUME Inv, NEW t \in Tabs, NEW kind PROVE Calm(Sent(t, kind)) /\ ~Sent(t, kind).replayed
<1> DEFINE base == IF tab[t].known # "none" THEN tab[t].known ELSE marker
<1>1. Sent(t, kind) = [Free EXCEPT !.tab = t, !.kind = kind, !.at = "sent", !.token = jar, !.base = base]
  BY DEF Sent
<1> HIDE DEF base
<1> QED
  BY <1>1 DEF Free, Calm, LoginAnswered

-----------------------------------------------------------------------------
(* The user and the pages. *)

LEMMA OpenLinkSession == ASSUME Inv, SessionInv, NEW t \in Tabs, NEW path, OpenLink(t, path) PROVE SessionInv'
<1> DEFINE r == At(t, path, marker)
<1>1. r.flight = tab[t].flight /\ tab' = [tab EXCEPT ![t] = r]
  BY InvTabs, AtIs DEF OpenLink
<1> HIDE DEF r
<1>2. FlightsDrop /\ HistoryMoves
  BY <1>1, InvTabs, DropTab, HistoryKept DEF OpenLink, SessionInv
<1> QED
  BY <1>2, CalmSession DEF OpenLink

(* A page left between the server's answer and its arrival is an excuse.    *)
LEMMA UnloadSession == ASSUME Inv, SessionInv, NEW t \in Tabs, NEW path, Unload(t, path) PROVE SessionInv'
<1>1. HistoryMoves /\ (~history'.excused => tab[t].flight.at # "served")
  BY ExcuseIs, ExcuseMoves DEF Unload, SessionInv
<1>2. tab'[t].flight = NoFlight /\ \A u \in Tabs \ {t} : tab'[u] = tab[u]
  BY InvTabs DEF Unload, TabsFit
<1>3. ~history'.excused => FlightsDrop
  BY <1>1, <1>2 DEF FlightsDrop
<1>4. \A c \in Calls : call'[c] = call[c] \/ Calm(call'[c])
  BY FreeIsCalm DEF Unload
<1> QED
  BY <1>1, <1>3, <1>4, CalmSession DEF Unload

LEMMA StartSession ==
    ASSUME Inv, SessionInv, NEW c \in Calls, NEW t \in Tabs, NEW kind, Start(c, t, kind) PROVE SessionInv'
<1>1. Only(c, call') /\ call'[c] = Sent(t, kind)
  BY InvTabs, Replaced DEF Start
<1>2. HistoryMoves
  <2>1. history' = [history EXCEPT !.runs = [history.runs EXCEPT ![c] = 0]]
    BY DEF Start
  <2> QED
    BY <2>1, HistoryKept DEF SessionInv
<1>3. \A d \in Calls : call'[d] = call[d] \/ Calm(call'[d])
  BY <1>1, SentIsCalm DEF Only
<1> QED
  BY <1>2, <1>3, DropNone, CalmSession DEF Start

LEMMA AskUserSession == ASSUME Inv, SessionInv, NEW c \in Calls, NEW t \in Tabs, AskUser(c, t) PROVE SessionInv'
<1>1. Only(c, call') /\ (call'[c] = [Sent(t, "who") EXCEPT !.base = marker] \/ call'[c] = Free)
  BY InvTabs, Replaced DEF AskUser
<1>2. \A d \in Calls : call'[d] = call[d] \/ Calm(call'[d])
  <2> DEFINE s == Sent(t, "who")
  <2>1. CallFits(s) /\ s.at = "sent" /\ ~s.replayed
    BY SentIs, SentIsCalm
  <2> HIDE DEF s
  <2> DEFINE r == [s EXCEPT !.base = marker]
  <2>2. r.at = "sent" /\ ~r.replayed
    BY <2>1 DEF CallFits, CallFields
  <2>3. call'[c] = r \/ call'[c] = Free
    BY <1>1 DEF s
  <2> HIDE DEF r
  <2>4. Calm(call'[c])
    BY <2>2, <2>3, FreeIsCalm DEF Calm, LoginAnswered
  <2> QED
    BY <1>1, <2>4 DEF Only
<1>3. FlightsDrop
  <2> DEFINE r == [[tab[t] EXCEPT !.fresh = FALSE] EXCEPT !.known = marker]
  <2>1. r.flight = tab[t].flight
    BY InvTabs DEF TabsFit, TabFits, TabFields
  <2>2. tab' = [tab EXCEPT ![t] = r]
    BY InvTabs DEF AskUser, TabsFit
  <2> HIDE DEF r
  <2> QED
    BY <2>1, <2>2, InvTabs, DropTab
<1> QED
  BY <1>2, <1>3, HistoryKept, CalmSession DEF AskUser, SessionInv

-----------------------------------------------------------------------------
(* The server. *)

LEMMA AnswerReplays ==
    ASSUME CallsFit(call), NEW c \in Calls, NEW status
    PROVE  Answer(c, status)[c].replayed = call[c].replayed /\ DOMAIN Answer(c, status)[c] = CallFields
  BY DEF CallsFit, CallFits, CallFields, Answer

(* The rows of sessions may end; the answer is no login's, and a replay is  *)
(* refused only when its session has ended.                                 *)
LEMMA AnsweredSession ==
    ASSUME Inv, SessionInv, NEW c \in Calls, call[c].at = "sent", call[c].kind # "login",
           NEW status, call' = Answer(c, status), RowsFit => RowsEnd,
           UNCHANGED <<jar, tab>>, HistoryMoves,
           status = 401 => ~Accepted(call[c].token)
    PROVE  SessionInv'
<1> SUFFICES ASSUME ~history'.excused PROVE Sound'
  BY DEF SessionInv, HistoryMoves
<1>1. Sound
  BY DEF SessionInv, HistoryMoves
<1>2. RowsEnd
  BY <1>1 DEF Sound
<1>3. ~history'.reused /\ ~history'.gaveUp
  BY <1>1 DEF HistoryMoves, Sound
<1>4. /\ Only(c, call') /\ call'[c].at = "answered" /\ call'[c].status = status
      /\ call'[c].kind = call[c].kind /\ call'[c].replayed = call[c].replayed
  BY InvTabs, AnswerIs, AnswerReplays
<1>5. ~LoginAnswered(call'[c])
  BY <1>4 DEF LoginAnswered
<1>6. ReplayFits(c)'
  <2> SUFFICES ASSUME call[c].replayed, status = 401 PROVE NoFlying' /\ ~Current(jar)'
    BY <1>4 DEF ReplayFits
  <2>1. NoFlying /\ (jar # NoToken => call[c].token = jar /\ ~row[jar[1]].aged) /\ RowsFit
        /\ (jar = NoToken \/ jar \in Token)
    BY <1>1 DEF Sound, ReplayFits, JarFits
  <2>2. ~Current(jar)
    BY <2>1 DEF Accepted, Current
  <2>3. ~Current(jar)'
    <3>1. CASE jar = NoToken
      BY <3>1 DEF Current
    <3>2. CASE jar \in Token
      BY <1>2, <2>1, <2>2, <3>2 DEF RowsFit, RowsEnd, Current, Token
    <3> QED
      BY <2>1, <3>1, <3>2
  <2> QED
    BY <2>1, <2>3 DEF NoFlying
<1>7. \A d \in Calls : call'[d] = call[d] \/ (~LoginAnswered(call'[d]) /\ ReplayFits(d)')
  BY <1>4, <1>5, <1>6 DEF Only
<1> QED
  BY <1>1, <1>2, <1>3, <1>7, DropNone, QuietSession

LEMMA ReplayStays ==
    ASSUME NEW c \in Calls, ReplayFits(c), call'[c] = call[c], UNCHANGED jar, NoFlying => NoFlying',
           jar # NoToken => row'[jar[1]].aged = row[jar[1]].aged, Current(jar)' => Current(jar)
    PROVE  ReplayFits(c)'
  BY DEF ReplayFits

(* A login makes a session nobody has heard of.                             *)
LEMMA LoginServedSession ==
    ASSUME Inv, SessionInv, NEW c \in Calls, call[c].at = "sent", call[c].kind = "login",
           \E s \in Sessions : row[s].n = 0,
           row' = [row EXCEPT ![New] = [live |-> TRUE, n |-> 1, pwd |-> account.pwd, aged |-> FALSE]],
           call' = [Answer(c, 200) EXCEPT ![c].token = <<New, 1>>],
           UNCHANGED <<account, jar, tab, history>>
    PROVE  SessionInv'
<1> SUFFICES ASSUME ~history.excused PROVE Sound'
  BY DEF SessionInv, HistFit
<1>1. Sound /\ RowsFit /\ (jar = NoToken \/ jar \in Token)
  BY DEF SessionInv, Sound, JarFits
<1>2. PICK k \in Nat : \A s \in Sessions : row[s].n = 0 <=> s > k
  BY <1>1 DEF RowsFit
<1>3. MaxSessions \in Nat /\ Sessions = 1..MaxSessions
  BY <1>1, SessionAssumption DEF RowsFit
<1>4. k + 1 \in Sessions /\ row[k + 1].n = 0
  BY <1>2, <1>3
<1>5. New = k + 1
  <2>1. \A r \in Sessions : row[r].n = 0 => k + 1 <= r
    BY <1>2, <1>3
  <2>2. \A s \in Sessions : row[s].n = 0 /\ (\A r \in Sessions : row[r].n = 0 => s <= r) => s = k + 1
    BY <1>3, <1>4, <2>1
  <2>3. New \in Sessions /\ row[New].n = 0 /\ \A r \in Sessions : row[r].n = 0 => New <= r
    BY <1>4, <2>1 DEF New
  <2> QED
    BY <2>2, <2>3
<1> HIDE DEF New
<1>6. /\ Sessions' = Sessions
      /\ row'[New] = [live |-> TRUE, n |-> 1, pwd |-> account.pwd, aged |-> FALSE]
      /\ \A s \in Sessions \ {New} : row'[s] = row[s]
  BY <1>4, <1>5 DEF Sessions
<1>7. RowsFit'
  <2>1. \A s \in Sessions : RowFits(row'[s]) /\ row'[s].pwd <= account.pwd
    BY <1>1, <1>6 DEF RowsFit, RowFits
  <2>2. \A s \in Sessions : row'[s].n = 0 <=> s > k + 1
    BY <1>2, <1>3, <1>5, <1>6
  <2>3. k + 1 \in Nat
    OBVIOUS
  <2> QED
    BY <1>1, <1>6, <2>1, <2>2, <2>3 DEF RowsFit
<1>8. /\ Token' = Token
      /\ \A token : Stored(token) => Stored(token)' /\ token[1] # New
  BY <1>4, <1>5, <1>6 DEF Stored, Token
<1>9. jar \in Token => jar[1] # New
  <2>1. CASE NoFlying
    BY <1>1, <1>8, <2>1, NoTokenIs DEF Sound, JarFits
  <2>2. CASE ~NoFlying
    <3>1. PICK t \in Tabs : Flies(tab[t].flight)
      BY <2>2 DEF NoFlying
    <3> QED
      BY <1>1, <1>8, <3>1, NoTokenIs DEF Sound, FlightFits
  <2> QED
    BY <2>1, <2>2
<1>10. /\ Only(c, call') /\ call'[c].token = <<New, 1>> /\ call'[c].replayed = call[c].replayed
       /\ call'[c].at = "answered" /\ call'[c].status = 200
  <2> DEFINE f == Answer(c, 200)
  <2>1. /\ Only(c, f) /\ DOMAIN f[c] = CallFields /\ f[c].replayed = call[c].replayed
        /\ f[c].at = "answered" /\ f[c].status = 200
    BY InvTabs, AnswerIs, AnswerReplays
  <2>2. call' = [f EXCEPT ![c].token = <<New, 1>>]
    OBVIOUS
  <2> HIDE DEF f
  <2> QED
    BY <2>1, <2>2 DEF Only, CallFields
<1>11. JarFits'
  BY <1>1, <1>8 DEF Sound, JarFits, NoFlying
<1>12. ASSUME NEW t \in Tabs PROVE FlightFits(t)'
  <2>1. FlightFits(t)
    BY <1>1 DEF Sound
  <2>2. Flies(tab[t].flight) /\ tab[t].flight.token # NoToken =>
          Stored(tab[t].flight.token)' /\ row'[tab[t].flight.token[1]] = row[tab[t].flight.token[1]]
    BY <1>6, <1>8, <2>1 DEF FlightFits, Stored, Token
  <2>3. jar # NoToken => row'[jar[1]] = row[jar[1]]
    BY <1>1, <1>6, <1>9 DEF Token
  <2> QED
    BY <2>1, <2>2, <2>3 DEF FlightFits, Flies
<1>13. ASSUME NEW d \in Calls PROVE LoginFits(d)'
  <2>1. CASE d = c
    <3>1. /\ call'[c].token \in Token'
          /\ row'[call'[c].token[1]].n = call'[c].token[2]
      <4>1. <<New, 1>> \in Token
        BY <1>4, <1>5 DEF Token
      <4>2. row'[New].n = 1
        BY <1>6
      <4> QED
        BY <1>8, <1>10, <4>1, <4>2
    <3>2. \A t \in Tabs : Flies(tab[t].flight) /\ tab[t].flight.token # NoToken => tab[t].flight.token[1] # New
      BY <1>1, <1>8 DEF Sound, FlightFits
    <3>3. \A e \in Calls \ {c} : LoginAnswered(call'[e]) => call'[e].token[1] # New
      BY <1>1, <1>8, <1>10 DEF Sound, LoginFits, Only
    <3>4. call'[c].token[1] = New
      BY <1>10
    <3>5. jar' = jar /\ tab' = tab /\ (jar # NoToken => jar[1] # New)
      BY <1>1, <1>9
    <3>6. /\ jar' # NoToken => jar'[1] # call'[c].token[1]
          /\ \A t \in Tabs : Flies(tab[t].flight)' /\ tab'[t].flight.token # NoToken =>
               tab'[t].flight.token[1] # call'[c].token[1]
          /\ \A e \in Calls \ {c} : LoginAnswered(call[e])' => call'[e].token[1] # call'[c].token[1]
      BY <3>2, <3>3, <3>4, <3>5 DEF Flies, LoginAnswered
    <3>7. LoginFits(c)'
      BY <3>1, <3>6 DEF LoginFits, Stored
    <3> QED
      BY <2>1, <3>7
  <2>2. CASE d # c
    <3>1. LoginFits(d) /\ call'[d] = call[d]
      BY <1>1, <1>10, <2>2 DEF Sound, Only
    <3>2. LoginAnswered(call[d]) => Stored(call[d].token)' /\ call[d].token[1] # New
      BY <1>8, <3>1 DEF LoginFits
    <3>3. call'[c].token[1] = New
      BY <1>10
    <3>4. \A e \in Calls \ {c, d} : call'[e] = call[e]
      BY <1>10 DEF Only
    <3> QED
      BY <3>1, <3>2, <3>3, <3>4 DEF LoginFits
  <2> QED
    BY <2>1, <2>2
<1>14. ASSUME NEW d \in Calls PROVE ReplayFits(d)'
  <2>1. CASE d = c
    BY <1>10, <2>1 DEF ReplayFits
  <2>2. CASE d # c
    <3>1. ReplayFits(d) /\ call'[d] = call[d]
      BY <1>1, <1>10, <2>2 DEF Sound, Only
    <3>2. jar # NoToken => row'[jar[1]] = row[jar[1]]
      BY <1>1, <1>6, <1>9 DEF Token
    <3>3. Current(jar)' => Current(jar)
      BY <3>2 DEF Current
    <3>4. (NoFlying' <=> NoFlying) /\ jar' = jar
      BY DEF NoFlying
    <3> QED
      BY <3>1, <3>2, <3>3, <3>4, ReplayStays
  <2> QED
    BY <2>1, <2>2
<1> QED
  BY <1>1, <1>7, <1>11, <1>12, <1>13, <1>14 DEF Sound, OneFlight, Busy

(* A new password leaves the rows, or ends them.                            *)
LEMMA PasswordEnds == ASSUME RowsFit, NEW must, NEW cleared, PasswordChange(must, cleared) PROVE RowsEnd
<1>1. account' = [pwd |-> account.pwd + 1, must |-> must]
  BY DEF PasswordChange
<1>2. account'.pwd = account.pwd + 1 /\ DOMAIN account' = {"pwd", "must"}
  BY <1>1
<1>3. CASE row' = row
  BY <1>2, <1>3 DEF RowsFit, RowsEnd, Sessions
<1>4. CASE row' = Revoked(row, Sessions)
  <2>1. \A s \in Sessions : row'[s] = [row[s] EXCEPT !.live = FALSE] /\ RowFits(row[s])
    BY <1>4 DEF Revoked, Sessions, RowsFit
  <2>2. Sessions' = Sessions
    BY <1>4 DEF Revoked, Sessions
  <2>3. \A s \in Sessions : /\ RowFits(row'[s]) /\ ~row'[s].live
                            /\ row'[s].n = row[s].n /\ row'[s].pwd = row[s].pwd /\ row'[s].aged = row[s].aged
    BY <2>1 DEF RowFits
  <2> QED
    BY <1>2, <2>2, <2>3 DEF RowsFit, RowsEnd
<1> QED
  BY <1>3, <1>4 DEF PasswordChange

LEMMA ServeSession == ASSUME Inv, SessionInv, NEW c \in Calls, Serve(c) PROVE SessionInv'
<1> DEFINE token == call[c].token
           kind == call[c].kind
<1>1. call[c].at = "sent" /\ UNCHANGED <<jar, tab>>
  BY DEF Serve
<1>2. CASE kind = "login"
  BY <1>1, <1>2, LoginServedSession DEF Serve
<1>3. CASE kind # "login"
  <2>1. PICK status : call' = Answer(c, status) /\ (status = 401 => ~Accepted(token))
    <3>1. \/ call' = Answer(c, 401) /\ ~Accepted(token)
          \/ call' = Answer(c, 200) \/ call' = Answer(c, 403) \/ call' = Answer(c, 599)
      BY <1>3 DEF Serve
    <3>2. 200 # 401 /\ 403 # 401 /\ 599 # 401
      OBVIOUS
    <3> QED
      BY <3>1, <3>2
  <2>2. RowsFit => RowsEnd
    <3>1. ASSUME RowsFit, row' = row \/ \E sids : row' = Revoked(row, sids), UNCHANGED account PROVE RowsEnd
      BY <3>1, RowsStay, RevokedEnds
    <3>2. ASSUME RowsFit, NEW must, NEW cleared, PasswordChange(must, cleared) PROVE RowsEnd
      BY <3>2, PasswordEnds
    <3> QED
      BY <1>3, <3>1, <3>2 DEF Serve
  <2>3. HistoryMoves
    <3>1. history' = history \/ \E x : history' = [history EXCEPT !.runs = x]
      BY <1>3 DEF Serve, Run
    <3> QED
      BY <3>1, HistoryKept DEF SessionInv
  <2> QED
    BY <1>1, <1>3, <2>1, <2>2, <2>3, AnsweredSession
<1> QED
  BY <1>2, <1>3

(* A step under an excuse. *)
LEMMA Excused == ASSUME HistoryMoves, history'.excused PROVE SessionInv'
  BY DEF SessionInv, HistoryMoves

(* No replay is on its way, or was refused. *)
Pending(r) == r.replayed /\ (r.at = "sent" \/ (r.at = "answered" /\ r.status = 401))
NonePending == \A c \in Calls : ~Pending(call[c])

LEMMA NoRefresh ==
    ASSUME Sound, ~Refreshing
    PROVE  (\A t \in Tabs : tab[t].flight.at = "idle") /\ NoFlying /\ NonePending
<1>1. \A c \in Calls : call[c].replayed => call[c].status = 200
  BY DEF Refreshing, Replaying
<1>2. \A t \in Tabs : tab[t].flight.at = "idle"
  BY DEF Refreshing
<1>3. ASSUME NEW c \in Calls PROVE ~Pending(call[c])
  <2>1. ReplayFits(c)
    BY DEF Sound
  <2> QED
    BY <1>1, <2>1 DEF ReplayFits, Pending
<1> QED
  BY <1>2, <1>3 DEF NoFlying, Flies, NonePending

LEMMA OneRefresh ==
    ASSUME Sound, NEW t \in Tabs, Flies(tab[t].flight)
    PROVE  (\A u \in Tabs \ {t} : tab[u].flight.at = "idle") /\ NonePending
<1>1. ~NoFlying /\ Busy(tab, t)
  BY DEF NoFlying, Busy, Flies
<1>2. \A u \in Tabs \ {t} : tab[u].flight.at = "idle"
  BY <1>1 DEF Sound, OneFlight, Busy
<1>3. ASSUME NEW c \in Calls PROVE ~Pending(call[c])
  <2>1. ReplayFits(c)
    BY DEF Sound
  <2> QED
    BY <1>1, <2>1 DEF ReplayFits, Pending
<1> QED
  BY <1>2, <1>3 DEF NonePending

LEMMA NoReplay ==
    ASSUME Sound, NonePending, NEW c \in Calls, call'[c] = call[c] \/ Calm(call'[c])
    PROVE  ReplayFits(c)'
<1>1. ReplayFits(c)
  BY DEF Sound
<1>2. ~Pending(call'[c]) /\ (call'[c].at = "waiting" => call'[c].status # 200)
  BY <1>1 DEF NonePending, ReplayFits, Calm, Pending
<1> QED
  BY <1>2 DEF ReplayFits, Pending

(* At most one refresh is there after the step. *)
LEMMA OneBusy ==
    ASSUME NEW t \in Tabs, \A u \in Tabs \ {t} : tab[u].flight.at = "idle" /\ tab'[u].flight = tab[u].flight
    PROVE  OneFlight'
  BY DEF OneFlight, Busy

LEMMA IdleFits ==
    ASSUME Sound, NEW t \in Tabs, tab[t].flight.at = "idle", tab'[t].flight = tab[t].flight
    PROVE  FlightFits(t)' /\ ~Flies(tab'[t].flight)
<1>1. tab[t].flight.ok \in BOOLEAN
  BY DEF Sound, FlightFits
<1> QED
  BY <1>1 DEF FlightFits, Flies

LEMMA RowsFitOn == ASSUME RowsFit, RowsEnd PROVE RowsFit' /\ (\A token : Stored(token)' <=> Stored(token))
<1>1. \A s \in Sessions : row'[s].pwd <= account'.pwd
  BY DEF RowsFit, RowsEnd, RowFits
<1>2. PICK k \in Nat : \A s \in Sessions : row[s].n = 0 <=> s > k
  BY DEF RowsFit
<1>3. \A s \in Sessions' : row'[s].n = 0 <=> s > k
  BY <1>2 DEF RowsEnd
<1>4. RowsFit'
  BY <1>1, <1>3 DEF RowsFit, RowsEnd
<1>5. \A token : Stored(token)' <=> Stored(token)
  BY DEF RowsEnd, Stored, Token, Sessions
<1> QED
  BY <1>4, <1>5

-----------------------------------------------------------------------------
(* Calls. *)

LEMMA LoseSession == ASSUME Inv, SessionInv, NEW c \in Calls, Lose(c) PROVE SessionInv'
<1> DEFINE r == [call[c] EXCEPT !.at = "answered", !.status = 599, !.token = NoToken]
<1>1. Only(c, call') /\ call'[c] = r
  BY InvTabs DEF Lose, CallsFit, Only
<1>2. r.at = "answered" /\ r.status = 599
  BY InvTabs DEF CallsFit, CallFits, CallFields
<1> HIDE DEF r
<1>3. \A d \in Calls : call'[d] = call[d] \/ Calm(call'[d])
  BY <1>1, <1>2 DEF Only, Calm, LoginAnswered
<1> QED
  BY <1>3, DropNone, HistoryKept, CalmSession DEF Lose, SessionInv

LEMMA AskedFits ==
    ASSUME NEW t \in Tabs, tab'[t].flight = [at |-> "asked", token |-> jar, ok |-> FALSE], UNCHANGED jar,
           jar = NoToken \/ Stored(jar)'
    PROVE  FlightFits(t)'
<1>1. tab'[t].flight.at = "asked" /\ tab'[t].flight.token = jar' /\ tab'[t].flight.ok = FALSE
  OBVIOUS
<1> QED
  BY <1>1 DEF FlightFits, Flies

(* A refresh starts when nothing of another one is left.                    *)
LEMMA StartedSession ==
    ASSUME Inv, Sound, NEW t \in Tabs, UNCHANGED <<account, row, jar>>,
           ~Refreshing, tab' = [tab EXCEPT ![t].flight = [at |-> "asked", token |-> jar, ok |-> FALSE]],
           \A c \in Calls : call'[c] = call[c] \/ Calm(call'[c]),
           ~history'.reused, ~history'.gaveUp
    PROVE  Sound'
<1>1. (\A u \in Tabs : tab[u].flight.at = "idle") /\ NoFlying /\ NonePending
  BY NoRefresh
<1>2. tab'[t].flight = [at |-> "asked", token |-> jar, ok |-> FALSE] /\ \A u \in Tabs \ {t} : tab'[u] = tab[u]
  BY InvTabs DEF TabsFit, TabFits, TabFields
<1>3. jar = NoToken \/ Stored(jar)
  BY <1>1 DEF Sound, JarFits
<1>4. RowsFit' /\ (\A token : Stored(token)' <=> Stored(token))
  BY RowsStay, RowsFitOn DEF Sound
<1>5. JarFits'
  <2>1. Flies(tab'[t].flight)
    BY <1>2 DEF Flies
  <2>2. ~NoFlying'
    BY <2>1 DEF NoFlying, Flies
  <2> QED
    BY <2>2 DEF Sound, JarFits, Token, Sessions
<1>6. OneFlight'
  BY <1>1, <1>2, OneBusy
<1>7. ASSUME NEW u \in Tabs PROVE FlightFits(u)'
  <2>1. CASE u # t
    BY <1>1, <1>2, <2>1, IdleFits
  <2>2. FlightFits(t)'
    BY <1>2, <1>3, <1>4, AskedFits
  <2> QED
    BY <2>1, <2>2
<1>8. ASSUME NEW c \in Calls PROVE LoginFits(c)'
  <2> SUFFICES ASSUME LoginAnswered(call'[c]) PROVE LoginFits(c)'
    BY DEF LoginFits
  <2>1. call'[c] = call[c] /\ LoginFits(c)
    BY DEF Calm, Sound
  <2>2. \A d \in Calls : LoginAnswered(call'[d]) => call'[d] = call[d]
    BY DEF Calm
  <2>3. \A u \in Tabs : Flies(tab'[u].flight) => tab'[u].flight.token = jar
    BY <1>1, <1>2 DEF Flies
  <2> QED
    BY <1>4, <2>1, <2>2, <2>3 DEF LoginFits
<1>9. \A c \in Calls : ReplayFits(c)'
  BY <1>1, NoReplay
<1> QED
  BY <1>4, <1>5, <1>6, <1>7, <1>8, <1>9 DEF Sound

LEMMA AwaitSession == ASSUME Inv, SessionInv, NEW c \in Calls, Await(c) PROVE SessionInv'
<1> DEFINE r == [call[c] EXCEPT !.at = "waiting", !.status = 0]
           t == call[c].tab
<1>1. Only(c, call') /\ call'[c] = r
  BY InvTabs DEF Await, CallsFit, Only
<1>2. r.at = "waiting" /\ r.status = 0 /\ t \in Tabs
  BY InvTabs DEF Await, Unauthorized, CallsFit, CallFits, CallFields
<1> HIDE DEF r
<1>3. \A d \in Calls : call'[d] = call[d] \/ Calm(call'[d])
  BY <1>1, <1>2 DEF Only, Calm, LoginAnswered
<1>4. CASE tab[t].flight.at # "idle"
  BY <1>3, <1>4, DropNone, HistoryKept, CalmSession DEF Await, StartOrJoin, SessionInv
<1>5. CASE tab[t].flight.at = "idle"
  <2>1. /\ Excuse(Refreshing)
        /\ tab' = [tab EXCEPT ![t].flight = [at |-> "asked", token |-> jar, ok |-> FALSE]]
    BY <1>5 DEF Await, StartOrJoin
  <2>2. HistoryMoves /\ (~history'.excused => ~history.excused /\ ~Refreshing)
    BY <2>1, ExcuseIs, ExcuseMoves DEF SessionInv
  <2>3. ASSUME ~history'.excused PROVE Sound'
    <3>1. Sound /\ ~history'.reused /\ ~history'.gaveUp
      BY <2>2, <2>3 DEF SessionInv, Sound, HistoryMoves
    <3> QED
      BY <1>2, <1>3, <2>1, <2>2, <2>3, <3>1, StartedSession DEF Await
  <2> QED
    BY <2>2, <2>3 DEF SessionInv, HistoryMoves
<1> QED
  BY <1>4, <1>5

(* The refresh before the replay was the only one, and left fresh cookies.  *)
LEMMA ReplaySession == ASSUME Inv, SessionInv, NEW c \in Calls, Replay(c) PROVE SessionInv'
<1> DEFINE r == Again(call[c], jar)
           t == call[c].tab
<1> SUFFICES ASSUME ~history.excused PROVE Sound'
  BY DEF SessionInv, HistFit, Replay
<1>1. Sound
  BY DEF SessionInv
<1>2. CallFits(call[c]) /\ call[c].at = "answered" /\ t \in Tabs
  BY InvTabs DEF CallsFit, CallFits, Replay, Late, Unauthorized
<1>3. r.at = "sent" /\ r.token = jar /\ r.status = 0
  BY <1>2, AgainIs
<1>4. tab[t].flight.at = "done" /\ FlightFits(t)
  BY <1>1, <1>2 DEF Replay, Late, Sound
<1>5. call' = [call EXCEPT ![c] = r]
  BY DEF Replay
<1> HIDE DEF r
<1>6. Only(c, call') /\ call'[c] = r
  BY <1>5, InvTabs, Replaced
<1>7. NoFlying /\ (jar # NoToken => ~row[jar[1]].aged)
  <2>1. NoFlying
    BY <1>1, <1>2, <1>4 DEF Sound, OneFlight, NoFlying, Busy, Flies
  <2> QED
    BY <1>4, <2>1 DEF FlightFits
<1>8. UNCHANGED <<account, row, jar, tab, history>>
  BY DEF Replay
<1>9. ~LoginAnswered(call'[c]) /\ ReplayFits(c)'
  BY <1>3, <1>6, <1>7, <1>8 DEF LoginAnswered, ReplayFits, NoFlying
<1>10. \A d \in Calls : call'[d] = call[d] \/ (~LoginAnswered(call'[d]) /\ ReplayFits(d)')
  BY <1>6, <1>9 DEF Only
<1> QED
  BY <1>1, <1>8, <1>10, RowsStay, DropNone, QuietSession DEF Sound

(* Whoever gives up has lost its cookies, or was refused with fresh ones.   *)
LEMMA GiveUpSession == ASSUME Inv, SessionInv, NEW c \in Calls, GiveUp(c) PROVE SessionInv'
<1> DEFINE r == [call[c] EXCEPT !.at = "failed", !.status = 0]
           t == call[c].tab
<1>1. HistFit' /\ history'.reused = history.reused /\ history'.excused = history.excused
      /\ history'.gaveUp = (history.gaveUp \/ SessionAlive)
  BY DEF SessionInv, HistFit, GiveUp
<1> SUFFICES ASSUME ~history.excused PROVE Sound'
  BY <1>1 DEF SessionInv
<1>2. Sound
  BY DEF SessionInv
<1>3. Only(c, call') /\ call'[c] = r
  BY InvTabs DEF GiveUp, CallsFit, Only
<1>4. r.at = "failed" /\ t \in Tabs
  BY InvTabs DEF GiveUp, Late, Unauthorized, CallsFit, CallFits, CallFields
<1> HIDE DEF r
<1>5. ~SessionAlive
  <2>1. CASE tab[t].flight.at = "done" /\ ~tab[t].flight.ok
    BY <1>2, <1>4, <2>1 DEF Sound, FlightFits, SessionAlive, Current
  <2>2. CASE call[c].at = "answered" /\ Expired(c) /\ call[c].replayed
    BY <1>2, <2>2 DEF Sound, ReplayFits, SessionAlive, Expired
  <2> QED
    BY <2>1, <2>2 DEF GiveUp, Late, Unauthorized
<1>6. \A d \in Calls : call'[d] = call[d] \/ Calm(call'[d])
  BY <1>3, <1>4 DEF Only, Calm, LoginAnswered
<1>7. FlightsDrop
  BY <1>4, InvTabs, DropRedirect DEF GiveUp
<1>8. RowsEnd /\ jar' = jar /\ ~history'.reused /\ ~history'.gaveUp
  BY <1>1, <1>2, <1>5, RowsStay DEF GiveUp, Sound
<1> QED
  BY <1>2, <1>6, <1>7, <1>8, CalmFits, QuietSession

LEMMA FailsCalm ==
    ASSUME CallsFit(call), NEW c \in Calls, call' = [call EXCEPT ![c].at = "failed", ![c].status = 0]
    PROVE  \A d \in Calls : call'[d] = call[d] \/ Calm(call'[d])
<1> DEFINE r == [call[c] EXCEPT !.at = "failed", !.status = 0]
<1>1. Only(c, call') /\ call'[c] = r
  BY DEF CallsFit, Only
<1>2. r.at = "failed"
  BY DEF CallsFit, CallFits, CallFields
<1> HIDE DEF r
<1> QED
  BY <1>1, <1>2 DEF Only, Calm, LoginAnswered

LEMMA SandboxedSession == ASSUME Inv, SessionInv, NEW c \in Calls, Sandboxed(c) PROVE SessionInv'
<1>1. \A d \in Calls : call'[d] = call[d] \/ Calm(call'[d])
  BY InvTabs, FailsCalm DEF Sandboxed
<1>2. call[c].tab \in Tabs
  BY InvTabs DEF Sandboxed, CallsFit, CallFits
<1>3. FlightsDrop
  BY <1>2, InvTabs, DropNone, DropRedirect DEF Sandboxed
<1> QED
  BY <1>1, <1>3, HistoryKept, CalmSession DEF Sandboxed, SessionInv

LEMMA FailsSession == ASSUME Inv, SessionInv, NEW c \in Calls, Fails(c) PROVE SessionInv'
<1>1. \A d \in Calls : call'[d] = call[d] \/ Calm(call'[d])
  BY InvTabs, FailsCalm DEF Fails
<1> QED
  BY <1>1, DropNone, HistoryKept, CalmSession DEF Fails, SessionInv

LEMMA DoneCalm ==
    ASSUME CallsFit(call), NEW c \in Calls, call' = [call EXCEPT ![c] = Free]
    PROVE  \A d \in Calls : call'[d] = call[d] \/ Calm(call'[d])
  BY Replaced, FreeIsCalm DEF Only

LEMMA FailedSession == ASSUME Inv, SessionInv, NEW c \in Calls, Failed(c) PROVE SessionInv'
<1> DEFINE t == call[c].tab
           base == call[c].base
<1>1. \A d \in Calls : call'[d] = call[d] \/ Calm(call'[d])
  BY InvTabs, DoneCalm DEF Failed
<1>2. t \in Tabs /\ base \in Markers
  BY InvTabs DEF Failed, CallsFit, CallFits
<1>3. FlightsDrop
  <2>1. \/ tab' = tab \/ tab' = [tab EXCEPT ![t].known = base]
        \/ tab' = [tab EXCEPT ![t] = [At(t, Home(Account, FALSE), base) EXCEPT !.known = base]]
    BY DEF Failed
  <2> QED
    BY <1>2, <2>1, InvTabs, DropNone, DropKnown, DropEnters
<1> QED
  BY <1>1, <1>3, HistoryKept, CalmSession DEF Failed, SessionInv

LEMMA LogoutAgainSession == ASSUME Inv, SessionInv, NEW c \in Calls, LogoutAgain(c) PROVE SessionInv'
<1>1. call[c].tab \in Tabs
  BY InvTabs DEF LogoutAgain, CallsFit, CallFits
<1>2. Only(c, call') /\ call'[c] = Sent(call[c].tab, "exit")
  BY InvTabs, Replaced DEF LogoutAgain
<1>3. \A d \in Calls : call'[d] = call[d] \/ Calm(call'[d])
  BY <1>1, <1>2, SentIsCalm DEF Only
<1> QED
  BY <1>3, DropNone, HistoryKept, CalmSession DEF LogoutAgain, SessionInv

LEMMA LoggedOutSession == ASSUME Inv, SessionInv, NEW c \in Calls, LoggedOut(c) PROVE SessionInv'
<1>1. \A d \in Calls : call'[d] = call[d] \/ Calm(call'[d])
  BY InvTabs, DoneCalm DEF LoggedOut
<1>2. call[c].tab \in Tabs /\ "none" \in Markers
  BY InvTabs DEF LoggedOut, CallsFit, CallFits, Markers
<1>3. FlightsDrop
  BY <1>2, InvTabs, DropEnters DEF LoggedOut
<1> QED
  BY <1>1, <1>3, HistoryKept, CalmSession DEF LoggedOut, SessionInv

LEMMA NowIdleFits ==
    ASSUME NEW t \in Tabs, tab'[t].flight.at = "idle", tab'[t].flight.ok \in BOOLEAN
    PROVE  FlightFits(t)'
  BY DEF FlightFits, Flies

(* A login takes the fresh session; no refresh is left that it could cross. *)
LEMMA LoggedInSession ==
    ASSUME Inv, Sound, NEW c \in Calls, LoginAnswered(call[c]), jar' = call[c].token,
           ~Refreshing, FlightsDrop, UNCHANGED <<account, row>>, Only(c, call'), Calm(call'[c]),
           ~history'.reused, ~history'.gaveUp
    PROVE  Sound'
<1>1. (\A u \in Tabs : tab[u].flight.at = "idle") /\ NonePending
  BY NoRefresh
<1>2. RowsFit' /\ (\A token : Stored(token)' <=> Stored(token))
  BY RowsStay, RowsFitOn DEF Sound
<1>3. LoginFits(c)
  BY DEF Sound
<1>4. Stored(jar') /\ jar' \in Token'
  BY <1>3 DEF LoginFits, Stored, Token, Sessions
<1>5. JarFits'
  <2>1. \A token : Stored(token) => Stored(token)'
    BY <1>2
  <2>2. row'[jar'[1]].n = jar'[2]
    BY <1>4 DEF Stored
  <2> QED
    BY <1>4, <2>2 DEF JarFits, Stored
<1>6. ASSUME NEW u \in Tabs PROVE tab'[u].flight.at = "idle" /\ tab'[u].flight.ok \in BOOLEAN
  <2>1. tab[u].flight.ok \in BOOLEAN /\ tab[u].flight.at = "idle"
    BY <1>1 DEF Sound, FlightFits
  <2>2. CASE tab'[u].flight = tab[u].flight
    BY <2>1, <2>2
  <2>3. CASE tab'[u].flight = NoFlight
    BY <2>3 DEF NoFlight
  <2> QED
    BY <2>2, <2>3 DEF FlightsDrop
<1>7. OneFlight'
  BY <1>6 DEF OneFlight, Busy
<1>8. ASSUME NEW u \in Tabs PROVE FlightFits(u)'
  BY <1>6, NowIdleFits
<1>9. ASSUME NEW d \in Calls PROVE LoginFits(d)'
  <2> SUFFICES ASSUME LoginAnswered(call'[d]) PROVE LoginFits(d)'
    BY DEF LoginFits
  <2>1. d # c /\ call'[d] = call[d] /\ LoginFits(d)
    BY DEF Only, Calm, Sound
  <2>2. Stored(call[d].token)' /\ jar'[1] # call[d].token[1]
    BY <1>2, <1>3, <2>1 DEF LoginFits
  <2>3. \A u \in Tabs : ~Flies(tab'[u].flight)
    BY <1>6 DEF Flies
  <2>4. \A e \in Calls \ {d} : LoginAnswered(call'[e]) => call'[e].token[1] # call[d].token[1]
    BY <2>1 DEF LoginFits, Only, Calm
  <2> QED
    BY <2>1, <2>2, <2>3, <2>4 DEF LoginFits
<1>10. \A d \in Calls : ReplayFits(d)'
  <2>1. \A d \in Calls : call'[d] = call[d] \/ Calm(call'[d])
    BY DEF Only
  <2> QED
    BY <1>1, <2>1, NoReplay
<1> QED
  BY <1>2, <1>5, <1>7, <1>8, <1>9, <1>10 DEF Sound

LEMMA SucceededSession == ASSUME Inv, SessionInv, NEW c \in Calls, Succeeded(c) PROVE SessionInv'
<1> DEFINE t == call[c].tab
           m == Flag(call[c].must)
<1>1. t \in Tabs /\ m \in Markers /\ UNCHANGED <<account, row>>
  BY InvTabs, FlagIs DEF CallsFit, CallFits, Succeeded
<1>2. Only(c, call') /\ Calm(call'[c])
  <2>1. CASE call' = [call EXCEPT ![c] = Free]
    BY <2>1, InvTabs, Replaced, FreeIsCalm
  <2>2. CASE call' = [call EXCEPT ![c] = [Sent(t, "enter") EXCEPT !.token = jar', !.base = m]]
    <3> DEFINE s == Sent(t, "enter")
               r == [s EXCEPT !.token = jar', !.base = m]
    <3>1. CallFits(s) /\ s.at = "sent" /\ ~s.replayed
      BY <1>1, SentIs, SentIsCalm
    <3> HIDE DEF s
    <3>2. r.at = "sent" /\ ~r.replayed
      BY <3>1 DEF CallFits, CallFields
    <3>3. call' = [call EXCEPT ![c] = r]
      BY <2>2 DEF s
    <3> HIDE DEF r, t, m
    <3> QED
      BY <3>2, <3>3, InvTabs, Replaced DEF Calm, LoginAnswered
  <2>3. CASE call' = [call EXCEPT ![c] = Sent(t, "logout")]
    BY <1>1, <2>3, InvTabs, Replaced, SentIsCalm
  <2> QED
    BY <2>1, <2>2, <2>3 DEF Succeeded
<1>3. FlightsDrop
  <2>1. \/ tab' = tab \/ tab' = [tab EXCEPT ![t] = [tab[t] EXCEPT !.known = m]]
        \/ \E path : tab' = [tab EXCEPT ![t] = [At(t, path, m) EXCEPT !.known = m]]
    <3>1. CASE call[c].kind \in {"data", "pwd"}
      BY <3>1 DEF Succeeded
    <3>2. CASE call[c].kind = "who"
      BY <3>2 DEF Succeeded
    <3>3. CASE call[c].kind = "enter"
      BY <3>3 DEF Succeeded
    <3>4. CASE call[c].kind = "login"
      BY <3>4 DEF Succeeded
    <3> QED
      BY <3>1, <3>2, <3>3, <3>4 DEF Succeeded
  <2>2. CASE tab' = [tab EXCEPT ![t] = [tab[t] EXCEPT !.known = m]]
    <3>1. tab' = [tab EXCEPT ![t].known = m]
      BY <2>2
    <3> HIDE DEF t, m
    <3> QED
      BY <1>1, <3>1, InvTabs, DropKnown
  <2>3. ASSUME NEW path, tab' = [tab EXCEPT ![t] = [At(t, path, m) EXCEPT !.known = m]] PROVE FlightsDrop
    BY <1>1, <2>3, InvTabs, DropEnters
  <2> QED
    BY <2>1, <2>2, <2>3, DropNone
<1>4. CASE call[c].kind # "login"
  <2>1. UNCHANGED <<jar, history>>
    BY <1>4 DEF Succeeded
  <2>2. \A d \in Calls : call'[d] = call[d] \/ Calm(call'[d])
    BY <1>2 DEF Only
  <2> QED
    BY <1>1, <1>3, <2>1, <2>2, HistoryKept, CalmSession DEF SessionInv
<1>5. CASE call[c].kind = "login"
  <2>1. jar' = call[c].token /\ Excuse(Refreshing) /\ LoginAnswered(call[c])
    BY <1>5 DEF Succeeded, LoginAnswered
  <2>2. HistoryMoves /\ (~history'.excused => ~history.excused /\ ~Refreshing)
    BY <2>1, ExcuseIs, ExcuseMoves DEF SessionInv
  <2>3. ASSUME ~history'.excused PROVE Sound'
    <3>1. Sound /\ ~history'.reused /\ ~history'.gaveUp
      BY <2>2, <2>3 DEF SessionInv, Sound, HistoryMoves
    <3> QED
      BY <1>1, <1>2, <1>3, <2>1, <2>2, <2>3, <3>1, LoggedInSession
  <2> QED
    BY <2>2, <2>3 DEF SessionInv, HistoryMoves
<1> QED
  BY <1>4, <1>5

-----------------------------------------------------------------------------
(* The refresh. *)

LEMMA FlightFields ==
    ASSUME NEW g, DOMAIN g = {"at", "token", "ok"}, NEW at, NEW ok
    PROVE  [[g EXCEPT !.at = at] EXCEPT !.ok = ok] = [at |-> at, token |-> g.token, ok |-> ok]
<1> DEFINE h == [[g EXCEPT !.at = at] EXCEPT !.ok = ok]
<1>1. h = [x \in {"at", "token", "ok"} |-> IF x = "ok" THEN ok ELSE IF x = "at" THEN at ELSE g[x]]
  OBVIOUS
<1>2. [at |-> at, token |-> g.token, ok |-> ok]
        = [x \in {"at", "token", "ok"} |-> IF x = "ok" THEN ok ELSE IF x = "at" THEN at ELSE g[x]]
  OBVIOUS
<1> QED
  BY <1>1, <1>2

LEMMA FlightAt ==
    ASSUME TabsFit(tab), NEW t \in Tabs, NEW at, NEW ok, tab' = Flight(t, at, ok)
    PROVE  /\ tab'[t].flight = [at |-> at, token |-> tab[t].flight.token, ok |-> ok]
           /\ DOMAIN tab' = Tabs /\ DOMAIN tab'[t] = TabFields
           /\ \A u \in Tabs \ {t} : tab'[u] = tab[u]
<1> DEFINE g == tab[t].flight
           r == [[tab[t] EXCEPT !.flight.at = at] EXCEPT !.flight.ok = ok]
<1>1. DOMAIN tab = Tabs /\ TabFits(tab[t])
  BY DEF TabsFit
<1>2. DOMAIN r = TabFields /\ r.flight = [[g EXCEPT !.at = at] EXCEPT !.ok = ok]
  BY <1>1 DEF TabFits, TabFields
<1>3. [[g EXCEPT !.at = at] EXCEPT !.ok = ok] = [at |-> at, token |-> g.token, ok |-> ok]
  BY <1>1, FlightFields DEF TabFits
<1>4. tab' = [tab EXCEPT ![t] = r]
  BY <1>1 DEF Flight
<1> HIDE DEF r, g
<1> QED
  BY <1>1, <1>2, <1>3, <1>4 DEF g

LEMMA FlightToken ==
    ASSUME TabsFit(tab), NEW t \in Tabs, NEW at, NEW ok, NEW k,
           tab' = [Flight(t, at, ok) EXCEPT ![t].flight.token = k]
    PROVE  /\ tab'[t].flight = [at |-> at, token |-> k, ok |-> ok]
           /\ \A u \in Tabs \ {t} : tab'[u] = tab[u]
<1> DEFINE g == tab[t].flight
           r == [[tab[t] EXCEPT !.flight.at = at] EXCEPT !.flight.ok = ok]
           f == Flight(t, at, ok)
<1>1. DOMAIN tab = Tabs /\ TabFits(tab[t])
  BY DEF TabsFit
<1>2. DOMAIN r = TabFields /\ r.flight = [[g EXCEPT !.at = at] EXCEPT !.ok = ok]
  BY <1>1 DEF TabFits, TabFields
<1>3. [[g EXCEPT !.at = at] EXCEPT !.ok = ok] = [at |-> at, token |-> g.token, ok |-> ok]
  BY <1>1, FlightFields DEF TabFits
<1>4. f = [tab EXCEPT ![t] = r]
  BY <1>1 DEF Flight
<1>5. tab' = [f EXCEPT ![t].flight.token = k]
  OBVIOUS
<1> HIDE DEF r, g, f
<1>6. DOMAIN f = Tabs /\ f[t] = r /\ \A u \in Tabs \ {t} : f[u] = tab[u]
  BY <1>1, <1>4
<1> QED
  BY <1>2, <1>3, <1>5, <1>6 DEF TabFields

(* The refresh of the tab is answered; some calls go on with the answer.    *)
LEMMA FlightSession ==
    ASSUME Inv, Sound, NEW t \in Tabs, Flies(tab[t].flight),
           ~history'.reused, ~history'.gaveUp, RowsFit', JarFits', FlightFits(t)',
           \A u \in Tabs \ {t} : tab'[u].flight = tab[u].flight,
           \A c \in Calls : call'[c] = call[c] \/ ReplayFits(c)',
           \A c \in Calls : LoginAnswered(call'[c]) => LoginFits(c)'
    PROVE  Sound'
<1>1. (\A u \in Tabs \ {t} : tab[u].flight.at = "idle") /\ NonePending
  BY OneRefresh
<1>2. OneFlight'
  BY <1>1, OneBusy
<1>3. \A u \in Tabs : FlightFits(u)'
  BY <1>1, IdleFits
<1>4. \A c \in Calls : ReplayFits(c)'
  BY <1>1, NoReplay
<1>5. \A c \in Calls : LoginFits(c)'
  BY DEF LoginFits
<1> QED
  BY <1>2, <1>3, <1>4, <1>5 DEF Sound

LEMMA RowFields ==
    ASSUME NEW r, DOMAIN r = {"live", "n", "pwd", "aged"}, NEW n, NEW o
    PROVE  [[r EXCEPT !.n = n] EXCEPT !.aged = o] = [live |-> r.live, n |-> n, pwd |-> r.pwd, aged |-> o]
<1> DEFINE e == [x \in {"live", "n", "pwd", "aged"} |-> IF x = "n" THEN n ELSE IF x = "aged" THEN o ELSE r[x]]
<1>1. [[r EXCEPT !.n = n] EXCEPT !.aged = o] = e
  OBVIOUS
<1>2. [live |-> r.live, n |-> n, pwd |-> r.pwd, aged |-> o] = e
  OBVIOUS
<1> QED
  BY <1>1, <1>2

LEMMA RotatedRow ==
    ASSUME NEW r, RowFits(r)
    PROVE  LET q == [[r EXCEPT !.n = @ + 1] EXCEPT !.aged = FALSE]
           IN  RowFits(q) /\ q.n = r.n + 1 /\ ~q.aged /\ q.pwd = r.pwd /\ q.n # 0
<1> DEFINE q == [[r EXCEPT !.n = @ + 1] EXCEPT !.aged = FALSE]
<1>1. r.live \in BOOLEAN /\ r.n \in Nat /\ r.pwd \in Nat /\ DOMAIN r = {"live", "n", "pwd", "aged"}
  BY DEF RowFits
<1>2. /\ DOMAIN q = {"live", "n", "pwd", "aged"}
      /\ q.live = r.live /\ q.n = r.n + 1 /\ q.pwd = r.pwd /\ q.aged = FALSE
  BY <1>1
<1>3. q = [live |-> r.live, n |-> r.n + 1, pwd |-> r.pwd, aged |-> FALSE]
  BY <1>1, RowFields
<1> HIDE DEF q
<1>4. RowFits([live |-> r.live, n |-> r.n + 1, pwd |-> r.pwd, aged |-> FALSE])
  BY <1>1 DEF RowFits
<1>5. RowFits(q) /\ q.n # 0
  BY <1>1, <1>2, <1>3, <1>4
<1> QED
  BY <1>2, <1>5 DEF q

(* The current token is rotated.                                            *)
LEMMA RotatedSession ==
    ASSUME Inv, Sound, NEW t \in Tabs, tab[t].flight.at = "read", NEW token, token = tab[t].flight.token,
           token # NoToken, UNCHANGED <<account, jar, call>>, ~history'.reused, ~history'.gaveUp,
           row' = [row EXCEPT ![token[1]].n = @ + 1, ![token[1]].aged = FALSE],
           tab'[t].flight = [at |-> "served", token |-> <<token[1], token[2] + 1>>, ok |-> TRUE],
           \A u \in Tabs \ {t} : tab'[u] = tab[u]
    PROVE  Sound'
<1> DEFINE sid == token[1]
           new == <<sid, token[2] + 1>>
<1>1. /\ Flies(tab[t].flight) /\ FlightFits(t) /\ RowsFit
      /\ Stored(token) /\ (jar = NoToken \/ jar = token)
  BY DEF Flies, Sound, FlightFits
<1>2. token \in Token /\ sid \in Sessions /\ token[2] \in Nat \ {0} /\ row[sid].n = token[2] /\ RowFits(row[sid])
  BY <1>1 DEF Stored, Token, RowsFit
<1>3. /\ Sessions' = Sessions /\ \A s \in Sessions \ {sid} : row'[s] = row[s]
      /\ row'[sid] = [[row[sid] EXCEPT !.n = @ + 1] EXCEPT !.aged = FALSE]
  BY <1>2 DEF Sessions
<1>4. /\ RowFits(row'[sid]) /\ row'[sid].n = token[2] + 1 /\ ~row'[sid].aged
      /\ row'[sid].pwd = row[sid].pwd /\ row'[sid].n # 0
  <2> DEFINE r == row[sid]
  <2>1. row'[sid] = [[r EXCEPT !.n = @ + 1] EXCEPT !.aged = FALSE] /\ RowFits(r) /\ r.n = token[2]
    BY <1>2, <1>3
  <2> HIDE DEF r
  <2>2. /\ RowFits(row'[sid]) /\ row'[sid].n = r.n + 1 /\ ~row'[sid].aged
        /\ row'[sid].pwd = r.pwd /\ row'[sid].n # 0
    BY <2>1, RotatedRow
  <2> QED
    BY <2>1, <2>2 DEF r
<1>5. RowsFit'
  <2>1. \A s \in Sessions : RowFits(row'[s]) /\ row'[s].pwd <= account.pwd /\ (row'[s].n = 0 <=> row[s].n = 0)
    BY <1>1, <1>2, <1>3, <1>4 DEF RowsFit
  <2>2. PICK k \in Nat : \A s \in Sessions : row[s].n = 0 <=> s > k
    BY <1>1 DEF RowsFit
  <2>3. \A s \in Sessions : row'[s].n = 0 <=> s > k
    BY <2>1, <2>2
  <2> QED
    BY <1>1, <1>3, <2>1, <2>3 DEF RowsFit
<1>6. /\ Token' = Token /\ new \in Token /\ new # NoToken /\ new[1] = sid
      /\ Stored(new)'
      /\ \A k : Stored(k) /\ k[1] # sid => Stored(k)'
  <2>1. Token' = Token /\ new \in Token
    <3>1. Token' = Token
      BY <1>3 DEF Token
    <3>2. token[2] + 1 \in Nat \ {0}
      BY <1>2
    <3> QED
      BY <1>2, <3>1, <3>2 DEF Token
  <2>2. new[1] = sid /\ new[2] = token[2] + 1
    OBVIOUS
  <2>3. Stored(new)'
    BY <1>4, <2>1, <2>2 DEF Stored
  <2>4. \A k : Stored(k) /\ k[1] # sid => Stored(k)'
    BY <1>3, <2>1 DEF Stored, Token
  <2> QED
    BY <2>1, <2>2, <2>3, <2>4, NoTokenIs
<1>7. tab'[t].flight.at = "served" /\ tab'[t].flight.token = new /\ tab'[t].flight.ok = TRUE
  OBVIOUS
<1>8. JarFits'
  <2>1. ~NoFlying'
    BY <1>7 DEF NoFlying, Flies
  <2> QED
    BY <1>1, <1>2, <1>6, <2>1 DEF JarFits
<1>9. FlightFits(t)'
  <2> HIDE DEF new, sid
  <2>1. jar' # NoToken => jar'[1] = sid
    BY <1>1 DEF sid
  <2>2. ~row'[new[1]].aged
    BY <1>4, <1>6
  <2>3. new \in Token' /\ row'[new[1]].n = new[2]
    BY <1>6 DEF Stored
  <2> QED
    BY <1>6, <1>7, <2>1, <2>2, <2>3 DEF FlightFits, Flies, Stored
<1>10. ASSUME NEW c \in Calls, LoginAnswered(call[c]) PROVE LoginFits(c)'
  <2>1. LoginFits(c)
    BY DEF Sound
  <2>2. call[c].token[1] # sid /\ Stored(call[c].token)'
    BY <1>1, <1>6, <1>10, <2>1 DEF LoginFits
  <2>3. ASSUME NEW u \in Tabs, Flies(tab'[u].flight), tab'[u].flight.token # NoToken
        PROVE  tab'[u].flight.token[1] # call[c].token[1]
    <3>1. CASE u = t
      BY <1>6, <1>7, <2>2, <3>1
    <3>2. CASE u # t
      BY <1>10, <2>1, <2>3, <3>2 DEF LoginFits
    <3> QED
      BY <3>1, <3>2
  <2> QED
    BY <2>1, <2>2, <2>3 DEF LoginFits
<1> QED
  BY <1>1, <1>5, <1>8, <1>9, <1>10, FlightSession

(* Any other answer ends the session, which the current token alone avoids. *)
LEMMA RefusedSession ==
    ASSUME Inv, Sound, NEW t \in Tabs, tab[t].flight.at \in {"asked", "read"}, UNCHANGED <<jar, call>>, RowsEnd,
           ~history'.reused, ~history'.gaveUp,
           tab'[t].flight = [at |-> "served", token |-> tab[t].flight.token, ok |-> FALSE],
           \A u \in Tabs \ {t} : tab'[u] = tab[u]
    PROVE  Sound'
<1>1. Flies(tab[t].flight) /\ FlightFits(t) /\ JarFits
  BY DEF Flies, Sound
<1>2. RowsFit' /\ (\A token : Stored(token)' <=> Stored(token))
  BY RowsFitOn DEF Sound
<1>3. tab'[t].flight.at = "served" /\ tab'[t].flight.token = tab[t].flight.token /\ tab'[t].flight.ok = FALSE
  OBVIOUS
<1>4. JarFits'
  <2>1. ~NoFlying'
    BY <1>3 DEF NoFlying, Flies
  <2> QED
    BY <1>1, <2>1 DEF JarFits, RowsEnd, Token, Sessions
<1>5. FlightFits(t)'
  BY <1>1, <1>2, <1>3 DEF FlightFits, Flies
<1>6. ASSUME NEW c \in Calls, LoginAnswered(call[c]) PROVE LoginFits(c)'
  <2>1. LoginFits(c)
    BY DEF Sound
  <2>2. ASSUME NEW u \in Tabs, Flies(tab'[u].flight), tab'[u].flight.token # NoToken
        PROVE  tab'[u].flight.token[1] # call[c].token[1]
    BY <1>1, <1>3, <1>6, <2>1, <2>2 DEF LoginFits
  <2> QED
    BY <1>2, <1>6, <2>1, <2>2 DEF LoginFits
<1> QED
  BY <1>1, <1>2, <1>4, <1>5, <1>6, FlightSession

LEMMA RefusedStep ==
    ASSUME Inv, NEW t \in Tabs, Refused(t)
    PROVE  /\ tab'[t].flight = [at |-> "served", token |-> tab[t].flight.token, ok |-> FALSE]
           /\ \A u \in Tabs \ {t} : tab'[u] = tab[u]
<1> DEFINE no == FALSE
<1>1. TabsFit(tab) /\ tab' = Flight(t, "served", no)
  BY InvTabs DEF Refused
<1> HIDE DEF no
<1>2. /\ tab'[t].flight = [at |-> "served", token |-> tab[t].flight.token, ok |-> no]
      /\ \A u \in Tabs \ {t} : tab'[u] = tab[u]
  BY <1>1, FlightAt
<1> QED
  BY <1>2 DEF no

(* The token was read as the current one; nothing but the state changes.    *)
LEMMA ReadSession ==
    ASSUME Inv, Sound, NEW t \in Tabs, tab[t].flight.at = "asked", UNCHANGED <<account, row, jar, call>>,
           ~history'.reused, ~history'.gaveUp, tab[t].flight.token # NoToken,
           tab'[t].flight = [at |-> "read", token |-> tab[t].flight.token, ok |-> FALSE],
           \A u \in Tabs \ {t} : tab'[u] = tab[u]
    PROVE  Sound'
<1>1. Flies(tab[t].flight) /\ FlightFits(t) /\ JarFits
  BY DEF Flies, Sound
<1>2. RowsFit' /\ (\A token : Stored(token)' <=> Stored(token))
  BY RowsStay, RowsFitOn DEF Sound
<1>3. tab'[t].flight.at = "read" /\ tab'[t].flight.token = tab[t].flight.token /\ tab'[t].flight.ok = FALSE
  OBVIOUS
<1>4. JarFits'
  <2>1. ~NoFlying'
    BY <1>3 DEF NoFlying, Flies
  <2> QED
    BY <1>1, <2>1 DEF JarFits, Token, Sessions
<1>5. FlightFits(t)'
  BY <1>1, <1>2, <1>3 DEF FlightFits, Flies
<1>6. ASSUME NEW c \in Calls, LoginAnswered(call[c]) PROVE LoginFits(c)'
  <2>1. LoginFits(c)
    BY DEF Sound
  <2>2. ASSUME NEW u \in Tabs, Flies(tab'[u].flight), tab'[u].flight.token # NoToken
        PROVE  tab'[u].flight.token[1] # call[c].token[1]
    BY <1>1, <1>3, <1>6, <2>1, <2>2 DEF LoginFits
  <2> QED
    BY <1>2, <1>6, <2>1, <2>2 DEF LoginFits
<1> QED
  BY <1>1, <1>2, <1>4, <1>5, <1>6, FlightSession

LEMMA RefreshReadSession == ASSUME Inv, SessionInv, NEW t \in Tabs, RefreshRead(t) PROVE SessionInv'
<1> DEFINE token == tab[t].flight.token
           sid == token[1]
<1>1. /\ HistFit' /\ history'.excused = history.excused /\ history'.gaveUp = history.gaveUp
      /\ history'.reused => history.reused \/ (token # NoToken /\ row[sid].n # token[2])
  BY DEF SessionInv, HistFit, RefreshRead
<1> SUFFICES ASSUME ~history.excused PROVE Sound'
  BY <1>1 DEF SessionInv
<1>2. Sound /\ tab[t].flight.at = "asked" /\ UNCHANGED <<account, jar, call>>
  BY DEF SessionInv, RefreshRead
<1>3. token = NoToken \/ Stored(token)
  BY <1>2 DEF Sound, FlightFits, Flies
<1>4. ~history'.reused /\ ~history'.gaveUp
  BY <1>1, <1>2, <1>3 DEF Sound, Stored
<1>5. CASE Refused(t)
  <2>1. row' = row \/ row' = Revoked(row, {sid})
    BY DEF RefreshRead
  <2>2. RowsEnd
    BY <1>2, <2>1, RowsStay, RevokedEnds DEF Sound
  <2> QED
    BY <1>2, <1>4, <1>5, <2>2, RefusedStep, RefusedSession
<1>6. CASE Current(token) /\ tab' = Flight(t, "read", FALSE) /\ UNCHANGED row
  <2>1. token # NoToken
    BY <1>6 DEF Current
  <2>2. /\ tab'[t].flight = [at |-> "read", token |-> token, ok |-> FALSE]
        /\ \A u \in Tabs \ {t} : tab'[u] = tab[u]
    <3> DEFINE no == FALSE
    <3>1. TabsFit(tab) /\ tab' = Flight(t, "read", no)
      BY <1>6, InvTabs
    <3> HIDE DEF no
    <3>2. /\ tab'[t].flight = [at |-> "read", token |-> tab[t].flight.token, ok |-> no]
          /\ \A u \in Tabs \ {t} : tab'[u] = tab[u]
      BY <3>1, FlightAt
    <3> QED
      BY <3>2 DEF no
  <2> QED
    BY <1>2, <1>4, <1>6, <2>1, <2>2, ReadSession
<1> QED
  BY <1>5, <1>6 DEF RefreshRead

(* Nobody else rotates the token that was read; the row may have ended.     *)
LEMMA RefreshSwapSession == ASSUME Inv, SessionInv, NEW t \in Tabs, RefreshSwap(t) PROVE SessionInv'
<1> DEFINE token == tab[t].flight.token
           sid == token[1]
<1>1. /\ HistFit' /\ history'.excused = history.excused /\ history'.gaveUp = history.gaveUp
      /\ history'.reused => history.reused \/ (row[sid].live /\ row[sid].n # token[2])
  BY DEF SessionInv, HistFit, RefreshSwap
<1> SUFFICES ASSUME ~history.excused PROVE Sound'
  BY <1>1 DEF SessionInv
<1>2. Sound /\ tab[t].flight.at = "read" /\ UNCHANGED <<account, jar, call>>
  BY DEF SessionInv, RefreshSwap
<1>3. token # NoToken /\ Stored(token)
  BY <1>2 DEF Sound, FlightFits, Flies
<1>4. ~history'.reused /\ ~history'.gaveUp
  BY <1>1, <1>2, <1>3 DEF Sound, Stored
<1>5. CASE row[sid].live /\ row[sid].n = token[2]
  <2>1. /\ row' = [row EXCEPT ![sid].n = @ + 1, ![sid].aged = FALSE]
        /\ tab' = [Flight(t, "served", TRUE) EXCEPT ![t].flight.token = <<sid, token[2] + 1>>]
    BY <1>5 DEF RefreshSwap
  <2>2. /\ tab'[t].flight = [at |-> "served", token |-> <<sid, token[2] + 1>>, ok |-> TRUE]
        /\ \A u \in Tabs \ {t} : tab'[u] = tab[u]
    <3> DEFINE k == <<sid, token[2] + 1>>
    <3>1. tab' = [Flight(t, "served", TRUE) EXCEPT ![t].flight.token = k]
      BY <2>1
    <3> HIDE DEF k
    <3>2. /\ tab'[t].flight = [at |-> "served", token |-> k, ok |-> TRUE]
          /\ \A u \in Tabs \ {t} : tab'[u] = tab[u]
      BY <3>1, InvTabs, FlightToken
    <3> QED
      BY <3>2 DEF k
  <2> QED
    BY <1>2, <1>3, <1>4, <2>1, <2>2, RotatedSession
<1>6. CASE ~(row[sid].live /\ row[sid].n = token[2])
  <2>1. row' = Revoked(row, {sid}) /\ Refused(t)
    BY <1>6 DEF RefreshSwap
  <2>2. RowsEnd
    BY <1>2, <2>1, RevokedEnds DEF Sound
  <2> QED
    BY <1>2, <1>4, <2>1, <2>2, RefusedStep, RefusedSession
<1> QED
  BY <1>5, <1>6

LEMMA DoneFits ==
    ASSUME NEW t \in Tabs, tab'[t].flight.at = "done", tab'[t].flight.ok \in BOOLEAN,
           jar' = NoToken \/ (tab'[t].flight.ok /\ ~row'[jar'[1]].aged)
    PROVE  FlightFits(t)'
  BY DEF FlightFits, Flies

LEMMA LoginOn ==
    ASSUME NEW c \in Calls, LoginFits(c), \A d \in Calls : LoginAnswered(call'[d]) => call'[d] = call[d],
           LoginAnswered(call'[c]), Stored(call[c].token)',
           jar' # NoToken => jar'[1] # call[c].token[1], \A t \in Tabs : ~Flies(tab'[t].flight)
    PROVE  LoginFits(c)'
  BY DEF LoginFits

LEMMA SettledFlight ==
    ASSUME Inv, NEW t \in Tabs, NEW ok, NEW cookies, Settle(t, ok, cookies)
    PROVE  /\ tab'[t].flight = [at |-> "done", token |-> NoToken, ok |-> ok]
           /\ \A u \in Tabs \ {t} : tab'[u].flight = tab[u].flight
<1> DEFINE base == IF ok THEN tab ELSE RedirectTo(t, Login)
<1>1. TabsFit(base) /\ \A u \in Tabs \ {t} : base[u] = tab[u]
  BY InvTabs, RedirectIs DEF RedirectTo, TabsFit
<1>2. tab' = [base EXCEPT ![t].flight = [at |-> "done", token |-> NoToken, ok |-> ok]]
  BY DEF Settle
<1> HIDE DEF base
<1> QED
  BY <1>1, <1>2 DEF TabsFit, TabFits, TabFields

(* Who waited for the refresh is sent again with its cookies, or fails.     *)
LEMMA SettledCalls ==
    ASSUME Inv, NEW t \in Tabs, NEW ok, NEW cookies, Settle(t, ok, cookies), NoFlying', Sound,
           ok => cookies # NoToken /\ ~row'[cookies[1]].aged, NEW c \in Calls, call'[c] # call[c]
    PROVE  ~LoginAnswered(call'[c]) /\ ReplayFits(c)'
<1>1. CallFits(call[c]) /\ ReplayFits(c) /\ jar' = cookies
  BY InvTabs DEF CallsFit, Sound, Settle
<1>2. CASE ok /\ call[c].at = "waiting" /\ call'[c] = Again(call[c], cookies)
  <2>1. call'[c].at = "sent" /\ call'[c].status = 0 /\ call'[c].token = cookies
    BY <1>1, <1>2, AgainIs
  <2> QED
    BY <1>1, <1>2, <2>1 DEF LoginAnswered, ReplayFits
<1>3. CASE call[c].at = "waiting" /\ call'[c] = [call[c] EXCEPT !.at = "failed"]
  <2>1. call'[c].at = "failed"
    BY <1>1, <1>3 DEF CallFits, CallFields
  <2> QED
    BY <2>1 DEF LoginAnswered, ReplayFits
<1> QED
  BY <1>2, <1>3 DEF Settle

(* The cookies follow the refresh, unless a login came before its answer.   *)
LEMMA RefreshAnsweredSession == ASSUME Inv, SessionInv, NEW t \in Tabs, RefreshAnswered(t) PROVE SessionInv'
<1> DEFINE f == tab[t].flight
           crossed == jar # NoToken /\ f.token # NoToken /\ jar[1] # f.token[1]
<1>1. /\ HistFit' /\ history'.reused = history.reused
      /\ history'.gaveUp = (history.gaveUp \/ (~f.ok /\ Current(Cookies(f))))
      /\ ~history'.excused => ~history.excused /\ ~crossed
  BY DEF SessionInv, HistFit, RefreshAnswered
<1> SUFFICES ASSUME ~history'.excused PROVE Sound'
  BY <1>1 DEF SessionInv
<1>2. Sound /\ ~history'.reused /\ f.at = "served" /\ UNCHANGED <<account, row>>
  BY <1>1 DEF SessionInv, Sound, RefreshAnswered
<1>3. Flies(f) /\ FlightFits(t) /\ f.ok \in BOOLEAN
  BY <1>2 DEF Flies, Sound, FlightFits
<1>4. Settle(t, f.ok, Cookies(f)) /\ jar' = Cookies(f)
  BY DEF RefreshAnswered, Settle
<1>5. /\ tab'[t].flight = [at |-> "done", token |-> NoToken, ok |-> f.ok]
      /\ \A u \in Tabs \ {t} : tab'[u].flight = tab[u].flight
  BY <1>3, <1>4, SettledFlight
<1>6. \/ f.ok /\ jar' = f.token /\ f.token # NoToken /\ Stored(f.token) /\ ~row[f.token[1]].aged
      \/ ~f.ok /\ jar' = NoToken
  <2>1. CASE f.ok
    BY <1>2, <1>3, <1>4, <2>1 DEF FlightFits, Cookies
  <2>2. CASE ~f.ok
    BY <1>2, <1>3, <1>4, <2>2 DEF FlightFits, Cookies
  <2> QED
    BY <2>1, <2>2
<1>7. ~history'.gaveUp
  <2>1. ~(~f.ok /\ Current(Cookies(f)))
    BY <1>4, <1>6 DEF Current
  <2> QED
    BY <1>1, <1>2, <2>1 DEF Sound
<1>8. RowsFit' /\ (\A token : Stored(token)' <=> Stored(token))
  BY <1>2, RowsStay, RowsFitOn DEF Sound
<1>9. tab'[t].flight.at = "done" /\ tab'[t].flight.ok = f.ok
  BY <1>5
<1>10. JarFits'
  <2>1. jar' = NoToken \/ (jar' \in Token' /\ row'[jar'[1]].n = jar'[2])
    BY <1>2, <1>6 DEF Stored, Token, Sessions
  <2> QED
    BY <2>1 DEF JarFits, Stored
<1>11. FlightFits(t)'
  <2>1. jar' = NoToken \/ (tab'[t].flight.ok /\ ~row'[jar'[1]].aged)
    BY <1>2, <1>6, <1>9
  <2>2. tab'[t].flight.ok \in BOOLEAN
    BY <1>3, <1>9
  <2> QED
    BY <1>9, <2>1, <2>2, DoneFits
<1>12. \A u \in Tabs : ~Flies(tab'[u].flight)
  <2>1. \A u \in Tabs \ {t} : tab[u].flight.at = "idle"
    BY <1>2, <1>3, OneRefresh
  <2> QED
    BY <1>5, <1>9, <2>1 DEF Flies
<1>13. NoFlying'
  BY <1>12 DEF NoFlying, Flies
<1>14. ASSUME NEW c \in Calls, call'[c] # call[c] PROVE ~LoginAnswered(call'[c]) /\ ReplayFits(c)'
  <2>1. f.ok => Cookies(f) # NoToken /\ ~row'[Cookies(f)[1]].aged
    BY <1>2, <1>4, <1>6
  <2> QED
    BY <1>2, <1>3, <1>4, <1>13, <1>14, <2>1, SettledCalls
<1>15. ASSUME NEW c \in Calls, LoginAnswered(call'[c]) PROVE LoginFits(c)'
  <2>1. call'[c] = call[c]
    BY <1>14, <1>15
  <2>2. LoginFits(c) /\ Stored(call[c].token)'
    BY <1>2, <1>8, <1>15, <2>1 DEF Sound, LoginFits
  <2>3. jar' # NoToken => jar'[1] # call[c].token[1]
    BY <1>3, <1>6, <1>15, <2>1, <2>2 DEF LoginFits
  <2> HIDE DEF f, crossed
  <2> QED
    BY <1>12, <1>14, <1>15, <2>2, <2>3, LoginOn
<1> QED
  BY <1>2, <1>3, <1>5, <1>7, <1>8, <1>10, <1>11, <1>14, <1>15, FlightSession

(* A lost refresh is an excuse. *)
LEMMA RefreshLostSession == ASSUME Inv, SessionInv, NEW t \in Tabs, RefreshLost(t) PROVE SessionInv'
  BY DEF RefreshLost, SessionInv, HistFit

LEMMA ResetFlightSession == ASSUME Inv, SessionInv, NEW t \in Tabs, ResetFlight(t) PROVE SessionInv'
<1>1. tab'[t].flight = NoFlight /\ \A u \in Tabs \ {t} : tab'[u] = tab[u]
  BY InvTabs DEF ResetFlight, TabsFit, TabFits, TabFields
<1>2. FlightsDrop
  BY <1>1 DEF FlightsDrop, ResetFlight
<1> QED
  BY <1>2, HistoryKept, CalmSession DEF ResetFlight, SessionInv

-----------------------------------------------------------------------------
(* Time and the administrator. *)

LEMMA AgedRow ==
    ASSUME NEW r, RowFits(r), NEW q, q = [r EXCEPT !.aged = TRUE]
    PROVE  RowFits(q) /\ q.n = r.n /\ q.pwd = r.pwd
<1>1. r.live \in BOOLEAN /\ r.n \in Nat /\ r.pwd \in Nat /\ DOMAIN r = {"live", "n", "pwd", "aged"}
  BY DEF RowFits
<1>2. q = [[r EXCEPT !.n = r.n] EXCEPT !.aged = TRUE] /\ q.n = r.n /\ q.pwd = r.pwd
  BY <1>1 DEF RowFits
<1> DEFINE yes == TRUE
<1>3. q = [[r EXCEPT !.n = r.n] EXCEPT !.aged = yes] /\ yes \in BOOLEAN
  BY <1>2
<1> HIDE DEF yes
<1>4. q = [live |-> r.live, n |-> r.n, pwd |-> r.pwd, aged |-> yes]
  BY <1>1, <1>3, RowFields
<1>5. RowFits(q)
  BY <1>1, <1>3, <1>4 DEF RowFits
<1> QED
  BY <1>2, <1>5

(* A token that expires during a refresh is an excuse. *)
LEMMA AgeSession == ASSUME Inv, SessionInv, NEW s \in Sessions, Age(s) PROVE SessionInv'
<1>1. HistoryMoves /\ (~history'.excused => ~history.excused /\ ~Refreshing)
  BY ExcuseIs, ExcuseMoves DEF SessionInv, Age
<1> SUFFICES ASSUME ~history'.excused PROVE Sound'
  BY <1>1 DEF SessionInv, HistoryMoves
<1>2. Sound /\ ~Refreshing /\ ~history'.reused /\ ~history'.gaveUp /\ UNCHANGED <<account, jar, tab, call>>
  BY <1>1 DEF SessionInv, Sound, HistoryMoves, Age
<1>3. (\A t \in Tabs : tab[t].flight.at = "idle") /\ NonePending /\ NoFlying
  BY <1>2, NoRefresh
<1>4. /\ Sessions' = Sessions /\ row' = [row EXCEPT ![s].aged = TRUE]
      /\ \A r \in Sessions \ {s} : row'[r] = row[r]
      /\ row'[s] = [row[s] EXCEPT !.aged = TRUE]
  BY DEF Age, Sessions
<1>5. RowFits(row[s])
  BY <1>2 DEF Sound, RowsFit
<1>6. RowFits(row'[s]) /\ row'[s].n = row[s].n /\ row'[s].pwd = row[s].pwd
  BY <1>4, <1>5, AgedRow
<1>7. \A r \in Sessions : RowFits(row'[r]) /\ row'[r].n = row[r].n /\ row'[r].pwd = row[r].pwd
  BY <1>2, <1>4, <1>6 DEF Sound, RowsFit
<1>8. RowsFit'
  <2>1. PICK k \in Nat : \A r \in Sessions : row[r].n = 0 <=> r > k
    BY <1>2 DEF Sound, RowsFit
  <2>2. \A r \in Sessions : row'[r].n = 0 <=> r > k
    BY <1>7, <2>1
  <2>3. \A r \in Sessions : row'[r].pwd <= account'.pwd
    BY <1>2, <1>7 DEF Sound, RowsFit
  <2> QED
    BY <1>2, <1>4, <1>7, <2>2, <2>3 DEF Sound, RowsFit
<1>9. Token' = Token /\ \A token : Stored(token)' <=> Stored(token)
  BY <1>4, <1>7 DEF Stored, Token
<1>10. JarFits'
  BY <1>2, <1>3, <1>9 DEF Sound, JarFits
<1>11. ASSUME NEW t \in Tabs PROVE FlightFits(t)'
  <2>1. tab'[t].flight = tab[t].flight
    BY <1>2
  <2> QED
    BY <1>2, <1>3, <2>1, IdleFits
<1>12. OneFlight'
  BY <1>2 DEF Sound, OneFlight, Busy
<1>13. ASSUME NEW c \in Calls PROVE LoginFits(c)'
  <2>1. LoginFits(c)
    BY <1>2 DEF Sound
  <2> QED
    BY <1>2, <1>9, <2>1 DEF LoginFits
<1>14. \A c \in Calls : ReplayFits(c)'
  <2>1. \A c \in Calls : call'[c] = call[c]
    BY <1>2
  <2> QED
    BY <1>2, <1>3, <2>1, NoReplay
<1> QED
  BY <1>2, <1>8, <1>10, <1>11, <1>12, <1>13, <1>14 DEF Sound

LEMMA RowsEndSession ==
    ASSUME SessionInv, RowsFit => RowsEnd, UNCHANGED <<jar, tab, call, history>>
    PROVE  SessionInv'
<1> SUFFICES ASSUME ~history.excused PROVE Sound'
  BY DEF SessionInv, HistFit
<1>1. Sound /\ RowsEnd /\ ~history'.reused /\ ~history'.gaveUp
  BY DEF SessionInv, Sound
<1>2. \A c \in Calls : call'[c] = call[c]
  OBVIOUS
<1> QED
  BY <1>1, <1>2, DropNone, QuietSession

LEMMA EndSessionSession == ASSUME SessionInv, NEW s \in Sessions, EndSession(s) PROVE SessionInv'
<1>1. RowsFit => RowsEnd
  BY RevokedEnds DEF EndSession
<1> QED
  BY <1>1, RowsEndSession DEF EndSession

LEMMA ResetPasswordSession == ASSUME SessionInv, ResetPassword PROVE SessionInv'
<1>1. PICK cleared : PasswordChange(TRUE, cleared)
  BY DEF ResetPassword
<1>2. RowsFit => RowsEnd
  BY <1>1, PasswordEnds
<1> QED
  BY <1>2, RowsEndSession DEF ResetPassword

LEMMA IdleSession == ASSUME SessionInv, UNCHANGED vars PROVE SessionInv'
<1>1. UNCHANGED <<account, row, jar, tab, call, history>>
  BY DEF vars
<1>2. RowsFit => RowsEnd
  BY <1>1, RowsStay
<1> QED
  BY <1>1, <1>2, RowsEndSession

-----------------------------------------------------------------------------
LEMMA InitSession == Init => SessionInv
<1> SUFFICES ASSUME Init PROVE SessionInv
  OBVIOUS
<1>1. history = [runs |-> [c \in Calls |-> 0], excused |-> FALSE, reused |-> FALSE, gaveUp |-> FALSE]
      /\ jar = <<1, 1>> /\ \A c \in Calls : call[c] = Free
  BY DEF Init
<1>2. PICK must \in BOOLEAN, open \in SUBSET Tabs :
        /\ account = [pwd |-> 0, must |-> must]
        /\ tab = [t \in Tabs |-> [page |-> Resolve(Path("dashboard"), Flag(t \notin open), Account),
                                leaving |-> Path(""), known |-> Flag(t \notin open),
                                flight |-> NoFlight, fresh |-> ~must]]
  BY DEF Init
<1>3. account.pwd = 0 /\ DOMAIN account = {"pwd", "must"} /\ \A t \in Tabs : tab[t].flight = NoFlight
  BY <1>2
<1>4. MaxSessions \in Nat \ {0} /\ Sessions = 1..MaxSessions
      /\ \A s \in Sessions : row[s] = [live |-> s = 1, n |-> IF s = 1 THEN 1 ELSE 0, pwd |-> 0, aged |-> FALSE]
  BY SessionAssumption DEF Init, Sessions
<1>5. /\ \A s \in Sessions : row[s].n = (IF s = 1 THEN 1 ELSE 0)
      /\ \A s \in Sessions : RowFits(row[s]) /\ row[s].pwd = 0
  <2> SUFFICES ASSUME NEW s \in Sessions
               PROVE  row[s].n = (IF s = 1 THEN 1 ELSE 0) /\ RowFits(row[s]) /\ row[s].pwd = 0
    OBVIOUS
  <2> DEFINE live == s = 1
             n == IF s = 1 THEN 1 ELSE 0
  <2>1. live \in BOOLEAN /\ n \in Nat /\ row[s] = [live |-> live, n |-> n, pwd |-> 0, aged |-> FALSE]
    BY <1>4
  <2> HIDE DEF live, n
  <2>2. RowFits(row[s]) /\ row[s].n = n /\ row[s].pwd = 0
    BY <2>1 DEF RowFits
  <2> QED
    BY <2>2 DEF n
<1>6. RowsFit
  <2>1. \A s \in Sessions : row[s].n = 0 <=> s > 1
    BY <1>4, <1>5
  <2>2. 1 \in Nat
    OBVIOUS
  <2> QED
    BY <1>3, <1>4, <1>5, <2>1, <2>2 DEF RowsFit
<1>7. Stored(jar)
  <2>1. 1 \in Sessions /\ row[1].n = 1
    BY <1>4, <1>5
  <2> QED
    BY <1>1, <2>1 DEF Stored, Token
<1>8. JarFits
  BY <1>7 DEF JarFits, Stored
<1>9. \A t \in Tabs : tab[t].flight.at = "idle" /\ tab[t].flight.ok = FALSE
  BY <1>3 DEF NoFlight
<1>10. OneFlight /\ \A t \in Tabs : FlightFits(t)
  BY <1>9 DEF OneFlight, Busy, FlightFits, Flies
<1>11. \A c \in Calls : call[c].at = "free" /\ ~call[c].replayed
  BY <1>1 DEF Free
<1>12. (\A c \in Calls : LoginFits(c)) /\ \A c \in Calls : ReplayFits(c)
  BY <1>11 DEF LoginFits, LoginAnswered, ReplayFits
<1>13. HistFit /\ ~history.reused /\ ~history.gaveUp
  BY <1>1 DEF HistFit
<1> QED
  BY <1>6, <1>8, <1>10, <1>12, <1>13 DEF SessionInv, Sound

LEMMA SessionStep == Inv /\ SessionInv /\ [Next]_vars => SessionInv'
<1> SUFFICES ASSUME Inv, SessionInv, [Next]_vars PROVE SessionInv'
  OBVIOUS
<1>1. ASSUME NEW c \in Calls, Serve(c) \/ Lose(c) PROVE SessionInv'
  BY <1>1, ServeSession, LoseSession
<1>2. ASSUME NEW c \in Calls, Browser(c) PROVE SessionInv'
  BY <1>2, AwaitSession, ReplaySession, GiveUpSession, SandboxedSession, FailsSession,
     FailedSession, SucceededSession, LogoutAgainSession, LoggedOutSession DEF Browser
<1>3. ASSUME NEW t \in Tabs, NEW c \in Calls, AskUser(c, t) PROVE SessionInv'
  BY <1>3, AskUserSession
<1>4. ASSUME NEW t \in Tabs, NEW c \in Calls, NEW kind, Start(c, t, kind) PROVE SessionInv'
  BY <1>4, StartSession
<1>5. ASSUME NEW t \in Tabs, NEW path, OpenLink(t, path) PROVE SessionInv'
  BY <1>5, OpenLinkSession
<1>6. ASSUME NEW t \in Tabs, Reload(t) \/ Leave(t) PROVE SessionInv'
  BY <1>6, UnloadSession DEF Reload, Leave
<1>7. ASSUME NEW t \in Tabs, RefreshRead(t) \/ RefreshSwap(t) \/ RefreshAnswered(t) \/ RefreshLost(t) \/ ResetFlight(t)
      PROVE  SessionInv'
  BY <1>7, RefreshReadSession, RefreshSwapSession, RefreshAnsweredSession, RefreshLostSession, ResetFlightSession
<1>8. ASSUME NEW s \in Sessions, Age(s) \/ EndSession(s) PROVE SessionInv'
  BY <1>8, AgeSession, EndSessionSession
<1>9. CASE ResetPassword
  BY <1>9, ResetPasswordSession
<1>10. CASE UNCHANGED vars
  BY <1>10, IdleSession
<1> QED
  BY <1>1, <1>2, <1>3, <1>4, <1>5, <1>6, <1>7, <1>8, <1>9, <1>10 DEF Next

LEMMA SessionHolds == Spec => []SessionInv
<1>1. Init => SessionInv
  BY InitSession
<1>2. Inv /\ SessionInv /\ [Next]_vars => SessionInv'
  BY SessionStep
<1> QED
  BY <1>1, <1>2, InvHolds, PTL DEF Spec

(* auth_session.go takes a refresh token that is used again for a theft and *)
(* ends the session.  The browser, which refreshes once per tab at a time   *)
(* (session.ts), never makes it end a session that is alive, whatever comes *)
(* between RefreshToken's read and swap, unless a refresh overlaps another  *)
(* one, a replay or a login, a token expires under them, an answer is lost  *)
(* or a page is left before it arrives.                                     *)
THEOREM NoFalseTheft == Spec => []RevokedForAReason
<1>1. SessionInv => RevokedForAReason
  BY DEF SessionInv, Sound, RevokedForAReason
<1> QED
  BY <1>1, SessionHolds, PTL

(* A page that sends the user to the login (api.ts, after a refresh failed  *)
(* or a replay was refused) has no session any more, but for those excuses, *)
(* an answer that arrives after a login, and a fresh token that expires     *)
(* before the replay.                                                       *)
THEOREM NoSessionGivenUp == Spec => []GaveUpForAReason
<1>1. SessionInv => GaveUpForAReason
  BY DEF SessionInv, Sound, GaveUpForAReason
<1> QED
  BY <1>1, SessionHolds, PTL
=============================================================================
