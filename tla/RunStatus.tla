----------------------------- MODULE RunStatus -----------------------------
(***************************************************************************)
(* The pipeline page while runs are under way: useNodeStatus               *)
(* (pages/dag/use-node-status.ts) polls graph/node/status, decides whether *)
(* the run it watches is over and tells the user.  startNodes and          *)
(* stopNodes of pages/dag/index.tsx start and stop runs.  The server is    *)
(* ProjectJobs.                                                            *)
(*                                                                         *)
(* react-query keeps one answer and at most one fetch per graph: that is   *)
(* modelled here as useNodeStatus relies on it.  The server reads each     *)
(* node's latest task, and the jobs after them, in statements of their own *)
(* (graph_service.go:759-790); here an answer is read in one step.         *)
(***************************************************************************)
EXTENDS ProjectJobs

CONSTANT Opened     \* the graphs the page may open with

ASSUME RunStatusAssumption == Opened \subseteq Graphs

VARIABLES
    page,     \* the open graph, the refs of useNodeStatus and what it told last
    cache,    \* the last answer to graph/node/status of each graph
    query,    \* the fetch of each graph
    pending   \* the runs whose start this page has asked for and not heard of

pageVars == <<page, cache, query, pending>>
vars == <<rows, call, kuscia, syncer, missed, stopping, results, used,
          page, cache, query, pending>>

NoData  == [from |-> <<>>, status |-> <<>>, finished |-> TRUE]

Statuses(data) == {data.status[n] : n \in DOMAIN data.status}
IsActive(data) == Statuses(data) \cap Active # {}

(* mutant *)
PollWhileRequested(data, requested) ==
    IF data = NoData THEN requested ELSE IsActive(data) \/ requested

(* adapters.ts; useNodeStatus asks it of no data only with data = NoData.  *)
shouldPollStatus(data, requested) ==
    IF data = NoData THEN requested
    ELSE \/ "RUNNING" \in Statuses(data)
         \/ (IsActive(data) \/ requested) /\ ~data.finished

result(data) ==
    LET states == Statuses(data) \ {"STAGING"}
    IN  IF states = {"SUCCEED"} THEN "success"
        ELSE IF "FAILED" \in states THEN "failed" ELSE "stopped"

NoWait  == 0   \* mutant
MaxWait == 3

(* refetchInterval *)
Polling ==
    \/ shouldPollStatus(cache[page.graph], page.requested)
    \/ page.requested /\ ~page.active /\ page.polls < MaxWait

(* The effect on data. *)
Effect(p, data) ==
    LET polls   == IF p.requested /\ p.polls < MaxWait THEN p.polls + 1 ELSE p.polls
        active  == IsActive(data)
        waiting == p.requested /\ ~p.active /\ ~active /\ polls < MaxWait
    IN  IF waiting \/ shouldPollStatus(data, p.requested)
        THEN [p EXCEPT !.polls = polls, !.active = @ \/ active, !.told = "nothing"]
        ELSE [p EXCEPT !.polls = polls, !.active = FALSE, !.requested = FALSE, !.asked = 0,
                       !.told = IF p.active \/ p.requested THEN result(data) ELSE "nothing"]

(* ListNodeStatus: the latest task of each node and whether their jobs are *)
(* over.  It is read when the fetch is sent; read later it would only be   *)
(* fresher.                                                                *)
LatestJob(n) ==
    LET jobs == {j \in Runs : n \in DOMAIN rows[j].task}
    IN  IF jobs = {} THEN 0 ELSE CHOOSE j \in jobs : \A i \in jobs : i <= j

NodeStatus(g) ==
    LET from == [n \in NodesOf(g) |-> LatestJob(n)]
    IN  [from |-> from,
         status |-> [n \in NodesOf(g) |-> IF from[n] = 0 THEN "STAGING" ELSE rows[from[n]].task[n]],
         finished |-> \A n \in NodesOf(g) : from[n] = 0 \/ rows[from[n]].status # "RUNNING"]

(* A fetch of the graph, unless one is under way; invalidateQueries        *)
(* replaces the one under way, but for the graph's first.                  *)
Fetch(g) == [query EXCEPT ![g] = IF @ = NoData THEN NodeStatus(g) ELSE @]
Invalidated(g) ==
    IF g # page.graph THEN query
    ELSE IF cache[g] = NoData THEN Fetch(g) ELSE [query EXCEPT ![g] = NodeStatus(g)]

Init ==
    /\ ServerInit
    /\ \E g \in Opened :
         /\ page = [graph |-> g, requested |-> FALSE, active |-> FALSE, polls |-> 0,
                    told |-> "nothing", asked |-> 0]
         /\ query = [h \in Graphs |-> IF h = g THEN NodeStatus(g) ELSE NoData]
    /\ cache = [g \in Graphs |-> NoData]
    /\ pending = {}

----------------------------------------------------------------------------
(* The interval of the query. *)
Poll ==
    /\ Polling /\ query[page.graph] = NoData
    /\ query' = Fetch(page.graph)
    /\ UNCHANGED <<serverVars, page, cache, pending>>

Receive(g) ==
    /\ query[g] # NoData
    /\ cache' = [cache EXCEPT ![g] = query[g]]
    /\ query' = [query EXCEPT ![g] = NoData]
    /\ page' = IF g = page.graph THEN Effect(page, query[g]) ELSE page
    /\ UNCHANGED <<serverVars, pending>>

QueryFails(g) ==
    /\ query[g] # NoData
    /\ Disturbed("fault")
    /\ query' = [query EXCEPT ![g] = NoData]
    /\ UNCHANGED <<rows, call, kuscia, syncer, missed, stopping, results, page, cache, pending>>

(* Another graph is opened.  The effect on data runs before the one that   *)
(* resets the refs, so it sees the new graph's answer with the old refs.   *)
SwitchGraph(g) ==
    /\ g # page.graph
    /\ Disturbed("switch")
    /\ LET p == IF cache[g] = NoData THEN [page EXCEPT !.told = "nothing"] ELSE Effect(page, cache[g])
       IN  page' = [p EXCEPT !.graph = g, !.requested = FALSE, !.active = FALSE, !.asked = 0]
    /\ query' = Fetch(g)
    /\ UNCHANGED <<rows, call, kuscia, syncer, missed, stopping, results, cache, pending>>

----------------------------------------------------------------------------
(* startNodes, from this page or from somebody else's. *)
StartNodes(selected) ==
    /\ Persist(page.graph, selected)
    /\ pending' = pending \union {Len(rows) + 1}
    /\ UNCHANGED <<page, cache, query>>

StartElsewhere(g, selected) ==
    /\ Persist(g, selected)
    /\ UNCHANGED pageVars

(* The answer to a start; markRunStarted if the run was accepted.          *)
Started(j) ==
    /\ call[j] = "accepted"
    /\ call' = [call EXCEPT ![j] = "over"]
    /\ pending' = pending \ {j}
    /\ IF j \in pending
       THEN /\ page' = [page EXCEPT !.requested = TRUE, !.polls = 0, !.active = FALSE, !.asked = j]
            /\ query' = Invalidated(rows[j].graph)
       ELSE UNCHANGED <<page, query>>
    /\ UNCHANGED <<rows, kuscia, syncer, missed, stopping, results, used, cache>>

(* stopNodes refreshes the status of the graph it was asked for. *)
Stopped ==
    /\ StopAnswered
    /\ query' = Invalidated(CHOOSE g \in stopping.for : TRUE)
    /\ UNCHANGED <<page, cache, pending>>

CrashOfServer ==
    /\ Crash
    /\ pending' = {}
    /\ query' = [g \in Graphs |-> NoData]
    /\ UNCHANGED <<page, cache>>

Next ==
    \/ ServerNext /\ UNCHANGED pageVars
    \/ Poll
    \/ \E g \in Graphs :
         \/ Receive(g) \/ QueryFails(g) \/ SwitchGraph(g)
         \/ \E selected \in SUBSET NodesOf(g) : StartElsewhere(g, selected)
    \/ \E selected \in SUBSET NodesOf(page.graph) : StartNodes(selected)
    \/ \E j \in Runs : Started(j)
    \/ StopGraph(page.graph) /\ UNCHANGED pageVars
    \/ \E n \in NodesOf(page.graph) : StopNode(n) /\ UNCHANGED pageVars
    \/ Stopped \/ CrashOfServer

Spec == Init /\ [][Next]_vars

----------------------------------------------------------------------------
(* Fairness.  Goroutines that hold or wait for the lock run on, the poller *)
(* asks for every unfinished job in every pass, requests are answered and  *)
(* the page's interval ticks.  Of Kuscia it is assumed that jobs end.      *)
(* Nothing makes a user act, a call fail or the watch deliver an event.    *)

ServerStep(A) == A /\ UNCHANGED pageVars

Serves(j) == j \in Runs /\ (ServerStep(Submit(j) \/ Rollback(j)) \/ Started(j))
Ages(j)   == j \in Runs /\ ServerStep(GracePasses(j))
Asks(j)   == j \in Runs /\ ServerStep(PollAsk(j))
Applies   == ServerStep(\E s \in DOMAIN syncer : Look(s) \/ Apply(s) \/ Register(s))
Stops     == \/ ServerStep((\E j \in Runs : StopKuscia(j) \/ StopFails(j)) \/ StopWrite)
             \/ Stopped
KusciaRuns(j) ==
    /\ j \in Runs
    /\ ServerStep((\E n \in Nodes : KusciaTask(j, n)) \/ KusciaJobEnds(j) \/ KusciaEndTime(j))

Fairness ==
    /\ \A j \in Len(Prior) + 1 .. MaxJobs :
         /\ WF_vars(Serves(j)) /\ SF_vars(Ages(j))
         /\ WF_vars(KusciaRuns(j)) /\ SF_vars(Asks(j))
    /\ WF_vars(Applies) /\ WF_vars(Stops)
    /\ WF_vars(\E g \in Graphs : Receive(g))
    /\ WF_vars(Poll)

FairSpec == Spec /\ Fairness

----------------------------------------------------------------------------
(* Properties *)

TypeOK ==
    /\ \A j \in Runs :
         /\ rows[j].status \in JobFinished \union {"RUNNING", "GONE"}
         /\ \A n \in DOMAIN rows[j].task :
              n \in NodesOf(rows[j].graph) /\ rows[j].task[n] \in TaskStates
         /\ call[j] \in {"persisted", "refused", "accepted", "over"}
         /\ rows[j].status = "GONE" => call[j] = "over" /\ rows[j].task = NoTasks
    /\ \A s \in DOMAIN syncer :
         /\ syncer[s].at \in {"idle", "holding", "applying", "results"}
         /\ syncer[s].at # "idle" => syncer[s].job \in Runs
    /\ page.graph \in Graphs /\ page.polls \in 0 .. MaxWait
    /\ page.told \in {"nothing", "success", "failed", "stopped"}
    /\ pending \subseteq Runs

(* No task of a finished job is left RUNNING: nothing would ever change it *)
(* again, and the page polls as long as a task is RUNNING.                 *)
FinishedJobsIdle ==
    \A j \in Runs : rows[j].status \in JobFinished =>
        \A n \in DOMAIN rows[j].task : rows[j].task[n] # "RUNNING"

(* "so no task of a finished job stays INITIALIZED / RUNNING"              *)
(* (job_sync_service.go:319).  The code does not satisfy this: a failure   *)
(* reported without an end time, applied to a job that was stopped after   *)
(* updateJob's caller had read it, writes the queued tasks back.           *)
FinishedJobsLeaveNothing ==
    \A j \in Runs : rows[j].status \in JobFinished =>
        \A n \in DOMAIN rows[j].task : rows[j].task[n] \notin Active

(* The outputs of every task that succeeded are registered, or about to be *)
(* by whoever wrote the success; only a crash in between loses them.       *)
ResultsRegistered ==
    ~used.crash =>
        \A j \in Runs : \A n \in DOMAIN rows[j].task :
            rows[j].task[n] = "SUCCEED" =>
                \/ <<j, n>> \in results
                \/ \E s \in DOMAIN syncer : /\ syncer[s].at = "results"
                                           /\ syncer[s].job = j /\ n \in syncer[s].fresh

(* A job is marked STOPPED only at a user's request or when Kuscia has     *)
(* given it up, never because its start had not reached Kuscia yet.        *)
StoppedForAReason ==
    [][\A j \in Runs :
         rows[j].status = "RUNNING" /\ rows'[j].status = "STOPPED" =>
            \/ stopping.at = j
            \/ kuscia[j].state # "Running" /\ call[j] # "persisted"]_vars

(* What the page takes for the end of the run it has just started is not   *)
(* an answer about an earlier run of the same nodes.  The exception is the *)
(* first answer after the start, when an earlier run is over and has left  *)
(* a task INITIALIZED: that one counts as having seen the new run active.  *)
NoEarlierRound ==
    [][LET j == page.asked
           answer == cache'[page.graph]
       IN  /\ page.requested /\ ~page'.requested
           /\ j # 0 /\ page'.graph = page.graph
           /\ rows[j].graph = page.graph
           => \/ \A n \in DOMAIN rows[j].task : answer.from[n] >= j
              \/ page.polls = 0 /\ "INITIALIZED" \in Statuses(answer)]_vars

AllSettled == \A j \in Runs : rows[j].status # "RUNNING"

(* Every run ends in the database: whatever was lost, refused or stopped   *)
(* in between, its row does not stay RUNNING.                              *)
JobsSettle == ~AllSettled ~> AllSettled

(* The page does not poll for ever. *)
PollingEnds == Polling ~> ~Polling

(* Opening another graph tells nothing about the end of a run: the code    *)
(* does not satisfy this.                                                  *)
SwitchTellsNothing ==
    [][page'.graph # page.graph => page'.told = "nothing"]_vars
=============================================================================
