---------------------------- MODULE ProjectJobs ----------------------------
(***************************************************************************)
(* The runs of a project's graphs on the server: graph_chain.go starts a   *)
(* run (rows first, then Kuscia's CreateJob, the rows removed when that    *)
(* fails), job_sync_service.go and job_sync_watch.go copy Kuscia's answers *)
(* into the rows, from a poller and from a watch stream, and               *)
(* graph_service.go stops runs.                                            *)
(*                                                                         *)
(* A database statement or transaction is one step, a call of Kuscia       *)
(* another.  Rows of scheduled jobs are Scheduler's; TEE and model jobs    *)
(* have handlers of their own and are left out, and so are the nodes the   *)
(* platform runs itself, whose tasks are written as SUCCEED at once.  The  *)
(* streams of several watched nodes are one here: each of their events is  *)
(* applied under applyMu.                                                  *)
(***************************************************************************)
EXTENDS Integers, Sequences, FiniteSets

CONSTANTS
    Nodes,          \* nodes of the project's graphs
    Graphs,         \* the graphs
    GraphOf,        \* the graph of a node
    Edges,          \* <<m, n>>: n reads an output of m
    Prior,          \* the runs that are over when the model starts
    MissThreshold,  \* notFoundThreshold
    MaxJobs,        \* bound: runs, the prior ones included
    Choices,        \* the sets of nodes users choose to run
    Kinds,          \* the kinds of disturbance considered
    MaxDisturbances \* bound: watch events, stops, failed calls, vanished jobs,
                    \* crashes and graphs opened, together

JobFinished == {"SUCCEED", "FAILED", "STOPPED"}   \* graphjob.IsJobFinished
Active      == {"INITIALIZED", "RUNNING"}

TaskStates  == Active \union {"SUCCEED", "FAILED", "STOPPED"}
NodesOf(g)  == {n \in Nodes : GraphOf[n] = g}

TaskRows == UNION {[N -> TaskStates] : N \in SUBSET Nodes}
Row == [graph : Graphs, status : JobFinished \union {"RUNNING", "GONE"},
        young : BOOLEAN, task : TaskRows]
NoTasks == [n \in {} |-> "STOPPED"]

ASSUME ProjectJobsAssumption ==
    /\ GraphOf \in [Nodes -> Graphs]
    /\ Edges \subseteq Nodes \X Nodes
    /\ {MissThreshold, MaxJobs} \subseteq Nat \ {0}
    /\ MaxDisturbances \in Nat
    /\ Kinds \subseteq {"event", "stop", "fault", "vanish", "crash", "switch"}
    /\ Choices \subseteq SUBSET Nodes
    /\ Len(Prior) <= MaxJobs
    /\ Prior \in Seq(Row)
    /\ \A j \in DOMAIN Prior :
         /\ Prior[j].status \in JobFinished
         /\ \A n \in DOMAIN Prior[j].task :
              GraphOf[n] = Prior[j].graph /\ Prior[j].task[n] # "RUNNING"

VARIABLES
    rows,      \* project_job with its project_job_task rows, in the order of their ids
    call,      \* the start request of each of them
    kuscia,    \* the job in Kuscia
    syncer,    \* the poller and the watch stream of JobStatusSyncService
    missed,    \* JobStatusSyncService.notFound
    stopping,  \* StopGraph: the jobs to be stopped, the one at hand, the graph
    results,   \* project_result: the outputs registered by syncResult
    used       \* how many disturbances there have been, and whether one was a crash

serverVars == <<rows, call, kuscia, syncer, missed, stopping, results, used>>

NoAnswer == [state |-> "none", task |-> NoTasks, ended |-> FALSE]
Absent   == [state |-> "absent", task |-> NoTasks, ended |-> FALSE]
Deleted  == [state |-> "deleted", task |-> NoTasks, ended |-> FALSE]
NoStop   == [todo |-> {}, at |-> 0, for |-> {}]
Resting  == [at |-> "idle", job |-> 0, answer |-> NoAnswer, fresh |-> {}]

Runs == DOMAIN rows
InKuscia(j) == kuscia[j].state \notin {"absent", "deleted"}

(* stopJobTasksTx, and the loop of stopProjectJob. *)
StopTasks(task) ==
    [n \in DOMAIN task |-> IF task[n] \in Active THEN "STOPPED" ELSE task[n]]

StopJobOnly(row) == [row EXCEPT !.status = "STOPPED"]   \* mutant

StopRow(row) == [row EXCEPT !.status = "STOPPED", !.task = StopTasks(@)]

Disturbed(kind) ==
    /\ kind \in Kinds /\ used.n < MaxDisturbances
    /\ used' = [n |-> used.n + 1, crash |-> used.crash \/ kind = "crash"]

ServerInit ==
    /\ rows = Prior
    /\ call = [j \in DOMAIN Prior |-> "over"]
    /\ kuscia = [j \in DOMAIN Prior |-> Deleted]
    /\ syncer = [s \in {"poll", "watch"} |-> Resting]
    /\ missed = [j \in 1 .. MaxJobs |-> 0]
    /\ stopping = NoStop
    /\ results = {o \in (DOMAIN Prior) \X Nodes :
                    o[2] \in DOMAIN Prior[o[1]].task /\ Prior[o[1]].task[o[2]] = "SUCCEED"}
    /\ used = [n |-> 0, crash |-> FALSE]

----------------------------------------------------------------------------
(* Starting: RunGraphJob.  The rows are committed before Kuscia is asked.  *)

Persist(g, selected) ==
    /\ Len(rows) < MaxJobs
    /\ selected \in Choices /\ selected # {} /\ selected \subseteq NodesOf(g)
    /\ rows' = Append(rows, [graph |-> g, status |-> "RUNNING", young |-> TRUE,
                             task |-> [n \in selected |-> "INITIALIZED"]])
    /\ call' = Append(call, "persisted")
    /\ kuscia' = Append(kuscia, Absent)
    /\ UNCHANGED <<syncer, missed, stopping, results, used>>

Created(j) == [state |-> "Running", ended |-> FALSE,
               task |-> [n \in DOMAIN rows[j].task |-> "Pending"]]

Submit(j) ==
    /\ call[j] = "persisted"
    /\ kuscia' = [kuscia EXCEPT ![j] = Created(j)]
    /\ call' = [call EXCEPT ![j] = "accepted"]
    /\ UNCHANGED <<rows, syncer, missed, stopping, results, used>>

(* CreateJob returns an error, before or after Kuscia made the job. *)
SubmitFails(j) ==
    /\ call[j] = "persisted"
    /\ Disturbed("fault")
    /\ \/ kuscia' = [kuscia EXCEPT ![j] = Created(j)]
       \/ UNCHANGED kuscia
    /\ call' = [call EXCEPT ![j] = "refused"]
    /\ UNCHANGED <<rows, syncer, missed, stopping, results>>

(* rollbackJob deletes the rows. *)
Rollback(j) ==
    /\ call[j] = "refused"
    /\ rows' = [rows EXCEPT ![j].status = "GONE", ![j].task = NoTasks]
    /\ call' = [call EXCEPT ![j] = "over"]
    /\ UNCHANGED <<kuscia, syncer, missed, stopping, results, used>>

(* notFoundWait has passed since the row was written; a start takes less, *)
(* and so does the poller with an answer it got before.                   *)
GracePasses(j) ==
    /\ rows[j].young /\ call[j] \notin {"persisted", "refused"}
    /\ ~(syncer["poll"].job = j /\ syncer["poll"].answer = Deleted)
    /\ rows' = [rows EXCEPT ![j].young = FALSE]
    /\ UNCHANGED <<call, kuscia, syncer, missed, stopping, results, used>>

----------------------------------------------------------------------------
(* Kuscia, as the answers the code reads from it show it.  A failed job    *)
(* starts no further task and goes on reporting them as Pending; the end   *)
(* time may come later than the final state.                               *)

OnlyKuscia == UNCHANGED <<rows, call, syncer, missed, stopping, results>>

KusciaTask(j, n) ==
    /\ kuscia[j].state = "Running" /\ n \in DOMAIN kuscia[j].task
    /\ \/ /\ kuscia[j].task[n] = "Pending"
          /\ \A m \in DOMAIN kuscia[j].task :
                /\ kuscia[j].task[m] # "Failed"
                /\ <<m, n>> \in Edges => kuscia[j].task[m] = "Succeeded"
          /\ kuscia' = [kuscia EXCEPT ![j].task[n] = "Running"]
       \/ /\ kuscia[j].task[n] = "Running"
          /\ \E s \in {"Succeeded", "Failed"} : kuscia' = [kuscia EXCEPT ![j].task[n] = s]
    /\ OnlyKuscia /\ UNCHANGED used

KusciaJobEnds(j) ==
    LET states == {kuscia[j].task[n] : n \in DOMAIN kuscia[j].task}
    IN  /\ kuscia[j].state = "Running"
        /\ \/ /\ states = {"Succeeded"}
              /\ kuscia' = [kuscia EXCEPT ![j].state = "Succeeded"]
           \/ /\ "Failed" \in states /\ "Running" \notin states
              /\ kuscia' = [kuscia EXCEPT ![j].state = "Failed"]
        /\ OnlyKuscia /\ UNCHANGED used

KusciaEndTime(j) ==
    /\ kuscia[j].state \in {"Succeeded", "Failed"} /\ ~kuscia[j].ended
    /\ kuscia' = [kuscia EXCEPT ![j].ended = TRUE]
    /\ OnlyKuscia /\ UNCHANGED used

Vanish(j) ==
    /\ InKuscia(j)
    /\ Disturbed("vanish")
    /\ kuscia' = [kuscia EXCEPT ![j] = Deleted]
    /\ OnlyKuscia

----------------------------------------------------------------------------
(* JobStatusSyncService: an answer is fetched without a lock, and applied  *)
(* under applyMu: the job's row is read, then one transaction writes it.   *)

Unlocked == \A s \in DOMAIN syncer : syncer[s].at \notin {"applying", "results"}

Holds(s, j, answer) ==
    syncer' = [syncer EXCEPT ![s] = [at |-> "holding", job |-> j, answer |-> answer, fresh |-> {}]]

(* Counts of jobs that are no longer asked for are forgotten (pruneNotFound). *)
Counted(j, n) ==
    missed' = [i \in 1 .. MaxJobs |->
                 IF i = j THEN n
                 ELSE IF i \in Runs /\ rows[i].status = "RUNNING" THEN missed[i] ELSE 0]

PollAsk(j) ==
    /\ syncer["poll"].at = "idle"
    /\ rows[j].status = "RUNNING"
    /\ \/ /\ InKuscia(j)
          /\ Counted(j, 0) /\ Holds("poll", j, kuscia[j])
       \/ /\ ~InKuscia(j) /\ missed[j] + 1 < MissThreshold
          /\ Counted(j, missed[j] + 1) /\ UNCHANGED syncer
       \/ /\ ~InKuscia(j) /\ missed[j] + 1 >= MissThreshold
          /\ Counted(j, MissThreshold) /\ Holds("poll", j, Deleted)
    /\ UNCHANGED <<rows, call, kuscia, stopping, results, used>>

WatchEvent(j) ==
    /\ syncer["watch"].at = "idle"
    /\ kuscia[j].state # "absent" /\ rows[j].status # "GONE"
    /\ j > Len(Prior)
    /\ Disturbed("event")
    /\ Holds("watch", j, kuscia[j])
    /\ missed' = IF InKuscia(j) THEN [missed EXCEPT ![j] = 0] ELSE missed
    /\ UNCHANGED <<rows, call, kuscia, stopping, results>>

(* The poller may not take a job it does not find for a deleted one while  *)
(* its start may still be on the way.                                      *)
AnyAge(s) == rows[syncer[s].job].status # "RUNNING"   \* mutant

Skipped(s) ==
    \/ rows[syncer[s].job].status # "RUNNING"
    \/ s = "poll" /\ syncer[s].answer = Deleted /\ rows[syncer[s].job].young

(* SyncJob and markJobDeleted up to the transaction. *)
Look(s) ==
    /\ syncer[s].at = "holding" /\ Unlocked
    /\ \/ /\ Skipped(s)
          /\ syncer' = [syncer EXCEPT ![s] = Resting]
          /\ missed' = IF s = "poll" /\ syncer[s].answer = Deleted
                       THEN [missed EXCEPT ![syncer[s].job] = 0] ELSE missed
       \/ /\ ~Skipped(s)
          /\ syncer' = [syncer EXCEPT ![s].at = "applying"]
          /\ UNCHANGED missed
    /\ UNCHANGED <<rows, call, kuscia, stopping, results, used>>

CancelledRuns(state) ==   \* mutant
    IF state = "Succeeded" THEN "SUCCEED"
    ELSE IF state = "Failed" THEN "FAILED" ELSE "RUNNING"

JobStatus(state) ==
    IF state = "Succeeded" THEN "SUCCEED"
    ELSE IF state = "Failed" THEN "FAILED"
    ELSE IF state = "Cancelled" THEN "STOPPED" ELSE "RUNNING"

RawTaskStatus(state) == state   \* mutant

TaskStatus(state) ==
    IF state = "Pending" THEN "INITIALIZED"
    ELSE IF state = "Running" THEN "RUNNING" ELSE JobStatus(state)

(* updateJob: a final state without an end time leaves the job's status.   *)
Updated(row, answer) ==
    LET told   == ~(answer.state \in {"Succeeded", "Failed"} /\ ~answer.ended)
        status == IF told THEN JobStatus(answer.state) ELSE row.status
        task   == [n \in DOMAIN row.task |-> TaskStatus(answer.task[n])]
    IN  [row EXCEPT !.status = status,
                    !.task = IF told /\ status \in {"FAILED", "STOPPED"} THEN StopTasks(task) ELSE task]

(* The tasks whose results are due. *)
FreshFromRunning(before, after) ==   \* mutant
    {n \in DOMAIN after : after[n] = "SUCCEED" /\ before[n] = "RUNNING"}

Fresh(before, after) ==
    {n \in DOMAIN after : after[n] = "SUCCEED" /\ before[n] # "SUCCEED"}

ApplyAnswer(s) ==
    LET j == syncer[s].job
        row == Updated(rows[j], syncer[s].answer)
        fresh == Fresh(rows[j].task, row.task)
    IN  /\ syncer[s].answer # Deleted /\ rows[j].status # "GONE"
        /\ rows' = [rows EXCEPT ![j] = row]
        /\ syncer' = [syncer EXCEPT ![s] =
                        IF fresh = {} THEN Resting ELSE [@ EXCEPT !.at = "results", !.fresh = fresh]]
        /\ UNCHANGED missed

ApplyDeleted(s) ==
    LET j == syncer[s].job
    IN  /\ syncer[s].answer = Deleted /\ rows[j].status # "GONE"
        /\ rows' = [rows EXCEPT ![j] = StopRow(@)]
        /\ missed' = IF s = "poll" THEN [missed EXCEPT ![j] = 0] ELSE missed
        /\ syncer' = [syncer EXCEPT ![s] = Resting]

(* The rows were deleted meanwhile: the statements find none. *)
ApplyToNothing(s) ==
    /\ rows[syncer[s].job].status = "GONE"
    /\ syncer' = [syncer EXCEPT ![s] = Resting]
    /\ UNCHANGED <<rows, missed>>

Apply(s) ==
    /\ syncer[s].at = "applying"
    /\ ApplyAnswer(s) \/ ApplyDeleted(s) \/ ApplyToNothing(s)
    /\ UNCHANGED <<call, kuscia, stopping, results, used>>

(* syncResult of the tasks that have just succeeded, after the commit. *)
Register(s) ==
    /\ syncer[s].at = "results"
    /\ results' = results \union {<<syncer[s].job, n>> : n \in syncer[s].fresh}
    /\ syncer' = [syncer EXCEPT ![s] = Resting]
    /\ UNCHANGED <<rows, call, kuscia, missed, stopping, used>>

----------------------------------------------------------------------------
(* StopGraph: the RUNNING jobs of the graph, or those that run the node.   *)

StopList(jobs, g) ==
    /\ stopping = NoStop
    /\ Disturbed("stop")
    /\ stopping' = [todo |-> jobs, at |-> 0, for |-> {g}]
    /\ UNCHANGED <<rows, call, kuscia, syncer, missed, results>>

StopGraph(g) == StopList({j \in Runs : rows[j].graph = g /\ rows[j].status = "RUNNING"}, g)

StopNode(n) ==
    StopList({j \in Runs : n \in DOMAIN rows[j].task /\ rows[j].task[n] = "RUNNING"}, GraphOf[n])

Cancelled(k) ==
    [k EXCEPT !.state = "Cancelled",
              !.task = [n \in DOMAIN @ |-> IF @[n] \in {"Pending", "Running"} THEN "Cancelled" ELSE @[n]]]

(* stopProjectJob: Kuscia first, its error ignored.  A job whose rows are  *)
(* gone ends the request.                                                  *)
StopKuscia(j) ==
    /\ j \in stopping.todo /\ stopping.at = 0
    /\ rows[j].status # "GONE"
    /\ stopping' = [stopping EXCEPT !.todo = @ \ {j}, !.at = j]
    /\ \/ /\ kuscia' = IF kuscia[j].state = "Running" THEN [kuscia EXCEPT ![j] = Cancelled(@)]
                         ELSE kuscia
          /\ UNCHANGED used
       \/ Disturbed("fault") /\ UNCHANGED kuscia
    /\ UNCHANGED <<rows, call, syncer, missed, results>>

StopFails(j) ==
    /\ j \in stopping.todo /\ stopping.at = 0
    /\ rows[j].status = "GONE"
    /\ stopping' = NoStop
    /\ UNCHANGED <<rows, call, kuscia, syncer, missed, results, used>>

StopWrite ==
    LET j == stopping.at
    IN  /\ j # 0
        /\ rows' = IF rows[j].status = "GONE" THEN rows ELSE [rows EXCEPT ![j] = StopRow(@)]
        /\ stopping' = [stopping EXCEPT !.at = 0]
        /\ UNCHANGED <<call, kuscia, syncer, missed, results, used>>

StopAnswered ==
    /\ stopping # NoStop /\ stopping.todo = {} /\ stopping.at = 0
    /\ stopping' = NoStop
    /\ UNCHANGED <<rows, call, kuscia, syncer, missed, results, used>>

----------------------------------------------------------------------------
(* The process is killed and started again. *)
Crash ==
    /\ Disturbed("crash")
    /\ call' = [j \in Runs |-> IF call[j] \in {"persisted", "refused", "accepted"} THEN "over" ELSE call[j]]
    /\ syncer' = [s \in DOMAIN syncer |-> Resting]
    /\ missed' = [j \in 1 .. MaxJobs |-> 0]
    /\ stopping' = NoStop
    /\ UNCHANGED <<rows, kuscia, results>>

(* All but the requests of users, which come from the page. *)
ServerNext ==
    \/ \E j \in Runs :
         \/ Submit(j) \/ SubmitFails(j) \/ Rollback(j) \/ GracePasses(j)
         \/ (\E n \in Nodes : KusciaTask(j, n))
         \/ KusciaJobEnds(j) \/ KusciaEndTime(j) \/ Vanish(j)
         \/ PollAsk(j) \/ WatchEvent(j) \/ StopKuscia(j) \/ StopFails(j)
    \/ \E s \in DOMAIN syncer : Look(s) \/ Apply(s) \/ Register(s)
    \/ StopWrite
=============================================================================
