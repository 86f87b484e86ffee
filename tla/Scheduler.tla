----------------------------- MODULE Scheduler -----------------------------
(***************************************************************************)
(* Scheduled jobs: internal/service/scheduled_service.go, with the poller  *)
(* of job_sync_service.go and job_sync_watch.go where it reads and writes  *)
(* schedule rows.  Several instances share one database.  In each of them  *)
(* the fire loop claims due tasks and submits them to Kuscia, status loops *)
(* copy Kuscia's verdict back into the rows, and API requests stop, rerun  *)
(* and take schedules off line.                                            *)
(*                                                                         *)
(* A database statement or transaction is one step, a Kuscia call another; *)
(* between two of them anything may happen.  A task is also its own job:   *)
(* CreateScheduler makes them one to one.  Rows of a job's nodes           *)
(* (project_job_task) are left out.                                        *)
(***************************************************************************)
EXTENDS Integers, FiniteSets

CONSTANTS
    Tasks,          \* the tasks pre-computed for one schedule
    Instances,      \* the processes that share the database
    Loops,          \* the status loops of an instance: SyncRunning, syncOnce
    Calls,          \* the API requests made
    DueBatch,       \* dueBatchSize
    MissThreshold,  \* notFoundThreshold
    NoTask,         \* model value
    MaxRequests,    \* bound: API requests
    MaxRefusals,    \* bound: Kuscia calls that fail without effect
    MaxLostReplies, \* bound: Kuscia calls that take effect and return an error
    MaxTimeouts,    \* bound: fire passes cut off by their context
    MaxVanished,    \* bound: jobs that disappear from Kuscia
    MaxCrashes      \* bound: crashes

ASSUME SchedulerAssumption ==
    /\ NoTask \notin Tasks
    /\ IsFiniteSet(Tasks)
    /\ Loops \subseteq {"sync", "poll"}
    /\ Calls \subseteq {"stop", "rerunAll", "rerunFailed", "offline"}
    /\ {DueBatch, MissThreshold} \subseteq Nat \ {0}
    /\ {MaxRequests, MaxRefusals, MaxLostReplies, MaxTimeouts, MaxVanished,
        MaxCrashes} \subseteq Nat

VARIABLES
    sched,     \* project_schedule.status
    task,      \* project_schedule_task
    job,       \* project_schedule_job.status
    age,       \* a task's expected start: ahead, due, or past the misfire grace
    kjob,      \* the job in Kuscia, as mapKusciaJobStateToScheduleJob reads it
    engine,    \* the fire loop of an instance
    loop,      \* the status loops of an instance
    missed,    \* JobStatusSyncService.notFound of an instance
    request,   \* the API request an instance is serving
    submitted, \* history: CreateJob calls of the fire loops
    withdrawn, \* history: tasks that left TO_BE_RUN unfired
    reruns,    \* history: completed reruns of type ALL
    faults     \* how much of each bound has been used

vars == <<sched, task, job, age, kjob, engine, loop, missed, request,
          submitted, withdrawn, reruns, faults>>

Finished == {"SUCCEED", "FAILED", "STOPPED"}   \* isScheduleJobFinished, isScheduleTaskTerminal
Fired    == {"RUNNING", "STOPPING"}

JobStatus  == {"NONE", "RUNNING"} \cup Finished
TaskStatus == {"NONE", "TO_BE_RUN"} \cup Fired \cup Finished
Fault      == {"refused", "lost", "timeout", "vanished", "crash", "request", "rerun"}

\* A schedule task: its status, whether it has a start time and notFoundWait
\* has gone by since, and all_re_run.
Row == {r \in [status : TaskStatus, started : BOOLEAN, elapsed : BOOLEAN, rerun : BOOLEAN] :
          ~r.started => ~r.elapsed /\ ~r.rerun}

\* The batch a fire pass has read, and the task it is at.
Engine == {e \in [pc : {"loop", "submit", "created", "failing", "failed", "misfired"},
                  late : SUBSET Tasks, due : SUBSET Tasks, cur : Tasks \cup {NoTask}] :
             e.pc # "loop" => e.cur \in Tasks}

\* The jobs a pass still asks about, the job it is at and Kuscia's answer.
Pass == {p \in [pc : {"idle", "read", "writejob", "readtask", "writetask", "vanished", "delete"},
                todo : SUBSET Tasks, cur : Tasks \cup {NoTask}, st : JobStatus] :
           p.pc # "idle" => p.cur \in Tasks}

\* The task a request is about, and the mark of a rerun it will write.
Request == {r \in [pc : {"idle", "cancel", "cancelled", "stop", "stopped", "stopping", "delete",
                         "create", "restart", "rerun", "rerunning", "offline"},
                   cur : Tasks \cup {NoTask}, rerun : BOOLEAN] :
              r.pc \notin {"idle", "offline"} => r.cur \in Tasks}

NoRow     == [status |-> "NONE", started |-> FALSE, elapsed |-> FALSE, rerun |-> FALSE]
NoBatch   == [pc |-> "loop", late |-> {}, due |-> {}, cur |-> NoTask]
NoPass    == [pc |-> "idle", todo |-> {}, cur |-> NoTask, st |-> "NONE"]
NoRequest == [pc |-> "idle", cur |-> NoTask, rerun |-> FALSE]

SetTask(t, s) == task' = [task EXCEPT ![t].status = s]
SetJob(t, s)  == job' = [job EXCEPT ![t] = s]
Count(kind)   == faults' = [faults EXCEPT ![kind] = @ + 1]

\* The instance goes to pc, keeping the rest of its record.
EngineTo(i, pc)  == engine' = [engine EXCEPT ![i].pc = pc]
RequestTo(i, pc) == request' = [request EXCEPT ![i].pc = pc]
EndRequest(i)    == request' = [request EXCEPT ![i] = NoRequest]
-----------------------------------------------------------------------------
(* Kuscia (external). *)

\* A call that succeeds when ready and then leaves the job in a state of res;
\* it may be refused, and its reply may be lost after it took effect.
Call(t, ready, res, ok) ==
    \/ /\ ready
       /\ \E s \in res : kjob' = [kjob EXCEPT ![t] = s]
       /\ \/ ok /\ UNCHANGED faults
          \/ ~ok /\ faults.lost < MaxLostReplies /\ Count("lost")
    \/ ~ready /\ ~ok /\ UNCHANGED <<kjob, faults>>
    \/ ~ok /\ faults.refused < MaxRefusals /\ Count("refused") /\ UNCHANGED kjob

CreateJob(t, ok)  == Call(t, kjob[t] = "NONE", {"RUNNING"}, ok)
DeleteJob(t, ok)  == Call(t, kjob[t] # "NONE", {"NONE"}, ok)
RestartJob(t, ok) == Call(t, kjob[t] \in {"FAILED", "STOPPED"}, {"RUNNING"}, ok)
\* Stopping a job that has finished changes nothing; a cancelled job reads FAILED.
StopJob(t, ok) ==
    Call(t, kjob[t] # "NONE",
         IF kjob[t] = "RUNNING" THEN {"STOPPED", "FAILED"} ELSE {kjob[t]}, ok)

Finish(t) ==
    /\ kjob[t] = "RUNNING"
    /\ \E s \in {"SUCCEED", "FAILED"} : kjob' = [kjob EXCEPT ![t] = s]
    /\ UNCHANGED <<sched, task, job, age, engine, loop, missed, request,
                   submitted, withdrawn, reruns, faults>>

Vanish(t) ==
    /\ kjob[t] # "NONE"
    /\ faults.vanished < MaxVanished
    /\ Count("vanished")
    /\ kjob' = [kjob EXCEPT ![t] = "NONE"]
    /\ UNCHANGED <<sched, task, job, age, engine, loop, missed, request,
                   submitted, withdrawn, reruns>>
-----------------------------------------------------------------------------
(* Time. *)

Ripen(t) ==
    /\ sched # "NONE" /\ age[t] # "late"
    /\ age' = [age EXCEPT ![t] = IF @ = "ahead" THEN "due" ELSE "late"]
    /\ UNCHANGED <<sched, task, job, kjob, engine, loop, missed, request,
                   submitted, withdrawn, reruns, faults>>

\* notFoundWait, one minute, since the task's start time: longer than a fire
\* pass (30 s) or the poller's way from an answer to its verdict may take.
Elapse(t) ==
    /\ task[t].status \in Fired /\ task[t].started /\ ~task[t].elapsed
    /\ \A i \in Instances :
         /\ engine[i].cur # t
         /\ \A l \in Loops : ~(loop[i][l].pc = "vanished" /\ loop[i][l].cur = t)
    /\ task' = [task EXCEPT ![t].elapsed = TRUE]
    /\ UNCHANGED <<sched, job, age, kjob, engine, loop, missed, request,
                   submitted, withdrawn, reruns, faults>>
-----------------------------------------------------------------------------
(* The fire loop: RunDue, markMisfired, fireTask. *)

CreateScheduler ==
    /\ sched = "NONE"
    /\ sched' = "UP"
    /\ task' = [t \in Tasks |-> [NoRow EXCEPT !.status = "TO_BE_RUN"]]
    /\ job' = [t \in Tasks |-> "RUNNING"]
    /\ UNCHANGED <<age, kjob, engine, loop, missed, request, submitted,
                   withdrawn, reruns, faults>>

Waiting(a) == {t \in Tasks : task[t].status = "TO_BE_RUN" /\ age[t] = a}

\* The due tasks of an UP schedule, the oldest first, at most DueBatch of them.
RunDue(i) ==
    /\ engine[i] = NoBatch
    /\ sched = "UP"
    /\ \E late \in SUBSET Waiting("late"), due \in SUBSET Waiting("due") :
         /\ late \cup due # {}
         /\ due # {} => late = Waiting("late")
         /\ LET n == Cardinality(late \cup due)
            IN  n = DueBatch \/ (n < DueBatch /\ late \cup due = Waiting("late") \cup Waiting("due"))
         /\ engine' = [engine EXCEPT ![i] = [NoBatch EXCEPT !.late = late, !.due = due]]
    /\ UNCHANGED <<sched, task, job, age, kjob, loop, missed, request,
                   submitted, withdrawn, reruns, faults>>

\* Fault variant of Misfire: an overdue task is passed over.
MisfireSkips(i, t) ==
    /\ engine[i].pc = "loop" /\ t \in engine[i].late
    /\ engine' = [engine EXCEPT ![i].late = @ \ {t}]
    /\ UNCHANGED <<sched, task, job, age, kjob, loop, missed, request,
                   submitted, withdrawn, reruns, faults>>

Misfire(i, t) ==
    /\ engine[i].pc = "loop" /\ t \in engine[i].late
    /\ IF task[t].status = "TO_BE_RUN"
       THEN /\ SetTask(t, "FAILED")
            /\ withdrawn' = withdrawn \cup {t}
            /\ engine' = [engine EXCEPT ![i] = [pc |-> "misfired", late |-> @.late \ {t}, due |-> @.due, cur |-> t]]
       ELSE /\ engine' = [engine EXCEPT ![i].late = @ \ {t}]
            /\ UNCHANGED <<task, withdrawn>>
    /\ UNCHANGED <<sched, job, age, kjob, loop, missed, request, submitted,
                   reruns, faults>>

\* Fault variant of Claim: the status read by RunDue is taken for granted.
ClaimBlindly(i, t) ==
    /\ engine[i].pc = "loop" /\ engine[i].late = {} /\ t \in engine[i].due
    /\ task' = [task EXCEPT ![t] = [@ EXCEPT !.status = "RUNNING", !.started = TRUE, !.elapsed = FALSE]]
    /\ engine' = [engine EXCEPT ![i] = [pc |-> "submit", late |-> {}, due |-> @.due \ {t}, cur |-> t]]
    /\ UNCHANGED <<sched, job, age, kjob, loop, missed, request, submitted,
                   withdrawn, reruns, faults>>

\* fireTask's compare-and-set of the status.
Claim(i, t) ==
    /\ engine[i].pc = "loop" /\ engine[i].late = {} /\ t \in engine[i].due
    /\ IF task[t].status = "TO_BE_RUN"
       THEN /\ task' = [task EXCEPT ![t] = [@ EXCEPT !.status = "RUNNING", !.started = TRUE, !.elapsed = FALSE]]
            /\ engine' = [engine EXCEPT ![i] = [pc |-> "submit", late |-> {}, due |-> @.due \ {t}, cur |-> t]]
       ELSE /\ engine' = [engine EXCEPT ![i].due = @ \ {t}]
            /\ UNCHANGED task
    /\ UNCHANGED <<sched, job, age, kjob, loop, missed, request, submitted,
                   withdrawn, reruns, faults>>

\* An undecodable request or a missing client counts as a refusal.
Submit(i) ==
    /\ engine[i].pc = "submit"
    /\ submitted' = [submitted EXCEPT ![engine[i].cur] = @ + 1]
    /\ \E ok \in BOOLEAN :
         /\ CreateJob(engine[i].cur, ok)
         /\ EngineTo(i, IF ok THEN "created" ELSE "failing")
    /\ UNCHANGED <<sched, task, job, age, loop, missed, request, withdrawn, reruns>>

\* fail: the task row, then the job row.
FailTask(i) ==
    /\ engine[i].pc = "failing"
    /\ SetTask(engine[i].cur, "FAILED")
    /\ EngineTo(i, "failed")
    /\ UNCHANGED <<sched, job, age, kjob, loop, missed, request, submitted,
                   withdrawn, reruns, faults>>

\* The job row after markMisfired, fail, or a submission.
RecordJob(i) ==
    /\ engine[i].pc \in {"misfired", "failed", "created"}
    /\ SetJob(engine[i].cur, IF engine[i].pc = "created" THEN "RUNNING" ELSE "FAILED")
    /\ engine' = [engine EXCEPT ![i] = [@ EXCEPT !.pc = "loop", !.cur = NoTask]]
    /\ UNCHANGED <<sched, task, age, kjob, loop, missed, request, submitted,
                   withdrawn, reruns, faults>>

\* loop's context expires: every later statement of the pass fails, those of
\* fail included.
Expire(i) ==
    /\ engine[i] # NoBatch
    /\ faults.timeout < MaxTimeouts
    /\ Count("timeout")
    /\ engine' = [engine EXCEPT ![i] = NoBatch]
    /\ UNCHANGED <<sched, task, job, age, kjob, loop, missed, request,
                   submitted, withdrawn, reruns>>
-----------------------------------------------------------------------------
(* The status loops: SyncRunning and syncOnce, ApplyKusciaJobStatus. *)

PassTo(i, l, pc) == loop' = [loop EXCEPT ![i][l].pc = pc]
EndPass(i, l)    == loop' = [loop EXCEPT ![i][l] = [NoPass EXCEPT !.todo = loop[i][l].todo]]

\* What a loop asks Kuscia about.
Candidates(l) ==
    IF l = "sync" THEN {t \in Tasks : task[t].status \in Fired}
                  ELSE {t \in Tasks : job[t] = "RUNNING"}

\* Fault variant of List: the misses of every job are forgotten.
ListForgets(i, l) ==
    /\ loop[i][l] = NoPass
    /\ Candidates(l) # {} \/ \E t \in Tasks : missed[i][t] # 0
    /\ loop' = [loop EXCEPT ![i][l].todo = Candidates(l)]
    /\ missed' = [missed EXCEPT ![i] = [t \in Tasks |-> 0]]
    /\ UNCHANGED <<sched, task, job, age, kjob, engine, request, submitted,
                   withdrawn, reruns, faults>>

\* The poller also forgets the misses of jobs it no longer asks about.
List(i, l) ==
    /\ loop[i][l] = NoPass
    /\ Candidates(l) # {} \/ \E t \in Tasks : missed[i][t] # 0
    /\ loop' = [loop EXCEPT ![i][l].todo = Candidates(l)]
    /\ missed' = IF l = "poll"
                 THEN [missed EXCEPT ![i] = [t \in Tasks |-> IF t \in Candidates(l) THEN @[t] ELSE 0]]
                 ELSE missed
    /\ UNCHANGED <<sched, task, job, age, kjob, engine, request, submitted,
                   withdrawn, reruns, faults>>

Found(i, l, t) ==
    /\ loop[i][l].pc = "idle" /\ t \in loop[i][l].todo
    /\ kjob[t] # "NONE"
    /\ loop' = [loop EXCEPT ![i][l] =
                  [pc |-> "read", todo |-> @.todo \ {t}, cur |-> t, st |-> kjob[t]]]
    /\ missed' = IF l = "poll" THEN [missed EXCEPT ![i][t] = 0] ELSE missed
    /\ UNCHANGED <<sched, task, job, age, kjob, engine, request, submitted,
                   withdrawn, reruns, faults>>

\* SyncRunning ignores a missing job; onJobNotFound counts it.
NotFound(i, l, t) ==
    /\ loop[i][l].pc = "idle" /\ t \in loop[i][l].todo
    /\ kjob[t] = "NONE"
    /\ LET rest == [loop[i][l] EXCEPT !.todo = @ \ {t}]
           n    == missed[i][t] + 1
       IN  IF l = "sync"
           THEN /\ loop' = [loop EXCEPT ![i][l] = rest]
                /\ UNCHANGED missed
           ELSE /\ missed' = [missed EXCEPT ![i][t] = n]
                /\ loop' = [loop EXCEPT ![i][l] =
                     IF n < MissThreshold THEN rest
                     ELSE [rest EXCEPT !.pc = "vanished", !.cur = t]]
    /\ UNCHANGED <<sched, task, job, age, kjob, engine, request, submitted,
                   withdrawn, reruns, faults>>

\* A query that fails tells nothing.
QueryFails(i, l, t) ==
    /\ loop[i][l].pc = "idle" /\ t \in loop[i][l].todo
    /\ faults.refused < MaxRefusals
    /\ Count("refused")
    /\ loop' = [loop EXCEPT ![i][l].todo = @ \ {t}]
    /\ UNCHANGED <<sched, task, job, age, kjob, engine, missed, request,
                   submitted, withdrawn, reruns>>

\* Fault variant of ReadJob: any finished job is left alone.
ReadJobFinished(i, l) ==
    /\ loop[i][l].pc = "read"
    /\ IF job[loop[i][l].cur] \in Finished THEN EndPass(i, l) ELSE PassTo(i, l, "writejob")
    /\ UNCHANGED <<sched, task, job, age, kjob, engine, missed, request, submitted,
                   withdrawn, reruns, faults>>

\* ApplyKusciaJobStatus leaves a SUCCEED job alone.
ReadJob(i, l) ==
    /\ loop[i][l].pc = "read"
    /\ IF job[loop[i][l].cur] = "SUCCEED" THEN EndPass(i, l) ELSE PassTo(i, l, "writejob")
    /\ UNCHANGED <<sched, task, job, age, kjob, engine, missed, request,
                   submitted, withdrawn, reruns, faults>>

WriteJob(i, l) ==
    /\ loop[i][l].pc = "writejob"
    /\ SetJob(loop[i][l].cur, loop[i][l].st)
    /\ PassTo(i, l, "readtask")
    /\ UNCHANGED <<sched, task, age, kjob, engine, missed, request, submitted,
                   withdrawn, reruns, faults>>

\* Fault variant of ToWrite: only tasks being stopped get the verdict.
ToWriteStopping(from, to) == from = "STOPPING" /\ to \in Finished

\* Never resurrect a task that has not fired; STOPPING waits for a verdict.
ToWrite(from, to) ==
    /\ from # "TO_BE_RUN"
    /\ from = "STOPPING" => to \in Finished
    /\ from # to

ReadTask(i, l) ==
    /\ loop[i][l].pc = "readtask"
    /\ IF ToWrite(task[loop[i][l].cur].status, loop[i][l].st)
       THEN PassTo(i, l, "writetask") ELSE EndPass(i, l)
    /\ UNCHANGED <<sched, task, job, age, kjob, engine, missed, request,
                   submitted, withdrawn, reruns, faults>>

WriteTask(i, l) ==
    /\ loop[i][l].pc = "writetask"
    /\ SetTask(loop[i][l].cur, loop[i][l].st)
    /\ EndPass(i, l)
    /\ UNCHANGED <<sched, job, age, kjob, engine, missed, request, submitted,
                   withdrawn, reruns, faults>>

\* Fault variant of Deletable: the grace period is not waited for.
DeletableAtOnce(t) == job[t] # "SUCCEED" /\ task[t].status \in Fired

\* markJobDeleted(fromPoll): what it reads before its transaction.
Deletable(t) ==
    /\ job[t] # "SUCCEED"
    /\ task[t].status \in Fired
    /\ task[t].started => task[t].elapsed

CheckVanished(i, l) ==
    LET t == loop[i][l].cur IN
    /\ loop[i][l].pc = "vanished"
    /\ IF Deletable(t)
       THEN PassTo(i, l, "delete") /\ UNCHANGED missed
       ELSE EndPass(i, l) /\ missed' = [missed EXCEPT ![i][t] = 0]
    /\ UNCHANGED <<sched, task, job, age, kjob, engine, request, submitted,
                   withdrawn, reruns, faults>>

\* markJobDeleted's transaction; onJobNotFound then clears the counter.
MarkDeleted(i, l) ==
    LET t == loop[i][l].cur IN
    /\ loop[i][l].pc = "delete"
    /\ SetJob(t, "STOPPED")
    /\ SetTask(t, "STOPPED")
    /\ missed' = [missed EXCEPT ![i][t] = 0]
    /\ EndPass(i, l)
    /\ UNCHANGED <<sched, age, kjob, engine, request, submitted, withdrawn,
                   reruns, faults>>
-----------------------------------------------------------------------------
(* API requests: TaskStop, TaskRerun, Offline, Del. *)

Begin(i, call, pc, t, rerun) ==
    /\ request[i] = NoRequest
    /\ call \in Calls
    /\ faults.request + faults.rerun < MaxRequests
    /\ Count(IF call \in {"rerunAll", "rerunFailed"} THEN "rerun" ELSE "request")
    /\ request' = [request EXCEPT ![i] = [pc |-> pc, cur |-> t, rerun |-> rerun]]
    /\ UNCHANGED <<sched, task, job, age, kjob, engine, loop, missed, submitted,
                   withdrawn, reruns>>

TaskStop(i, t) ==
    \/ task[t].status = "TO_BE_RUN" /\ Begin(i, "stop", "cancel", t, FALSE)
    \/ task[t].status = "RUNNING"   /\ Begin(i, "stop", "stop", t, FALSE)

\* The status is compared again by the update itself.
Cancel(i) ==
    LET t == request[i].cur IN
    /\ request[i].pc = "cancel"
    /\ IF task[t].status = "TO_BE_RUN"
       THEN /\ SetTask(t, "STOPPED")
            /\ withdrawn' = withdrawn \cup {t}
            /\ RequestTo(i, "cancelled")
       ELSE EndRequest(i) /\ UNCHANGED <<task, withdrawn>>
    /\ UNCHANGED <<sched, job, age, kjob, engine, loop, missed, submitted,
                   reruns, faults>>

StopInKuscia(i) ==
    /\ request[i].pc = "stop"
    /\ \E ok \in BOOLEAN :
         /\ StopJob(request[i].cur, ok)
         /\ IF ok THEN RequestTo(i, "stopped") ELSE EndRequest(i)
    /\ UNCHANGED <<sched, task, job, age, engine, loop, missed, submitted,
                   withdrawn, reruns>>

\* markScheduleJobStopped: the end of a cancellation, half of a stop.
MarkJobStopped(i) ==
    /\ request[i].pc \in {"cancelled", "stopped"}
    /\ SetJob(request[i].cur, "STOPPED")
    /\ IF request[i].pc = "stopped" THEN RequestTo(i, "stopping") ELSE EndRequest(i)
    /\ UNCHANGED <<sched, task, age, kjob, engine, loop, missed, submitted,
                   withdrawn, reruns, faults>>

MarkTaskStopping(i) ==
    /\ request[i].pc = "stopping"
    /\ SetTask(request[i].cur, "STOPPING")
    /\ EndRequest(i)
    /\ UNCHANGED <<sched, job, age, kjob, engine, loop, missed, submitted,
                   withdrawn, reruns, faults>>

\* A task that never reached Kuscia has no job to delete.
TaskRerun(i, t) ==
    /\ sched = "UP" /\ task[t].status \in Finished
    /\ \/ /\ ~task[t].rerun
          /\ Begin(i, "rerunAll", IF task[t].started THEN "delete" ELSE "create", t, TRUE)
       \/ Begin(i, "rerunFailed", "restart", t, task[t].rerun)

DeleteInKuscia(i) ==
    /\ request[i].pc = "delete"
    /\ \E ok \in BOOLEAN :
         /\ DeleteJob(request[i].cur, ok)
         /\ IF ok THEN RequestTo(i, "create") ELSE EndRequest(i)
    /\ UNCHANGED <<sched, task, job, age, engine, loop, missed, submitted,
                   withdrawn, reruns>>

RerunInKuscia(i) ==
    LET t == request[i].cur IN
    /\ request[i].pc \in {"create", "restart"}
    /\ \E ok \in BOOLEAN :
         /\ IF request[i].pc = "create" THEN CreateJob(t, ok) ELSE RestartJob(t, ok)
         /\ IF ok THEN RequestTo(i, "rerun") ELSE EndRequest(i)
         /\ reruns' = IF ok /\ request[i].pc = "create" THEN [reruns EXCEPT ![t] = @ + 1] ELSE reruns
    /\ UNCHANGED <<sched, task, job, age, engine, loop, missed, submitted, withdrawn>>

\* Fault variant of RerunTask: the start time is not written.
RerunTaskKeepsStart(i) ==
    /\ request[i].pc = "rerun"
    /\ task' = [task EXCEPT ![request[i].cur].status = "RUNNING",
                            ![request[i].cur].rerun = request[i].rerun]
    /\ RequestTo(i, "rerunning")
    /\ UNCHANGED <<sched, job, age, kjob, engine, loop, missed, submitted,
                   withdrawn, reruns, faults>>

\* all_re_run is written back as it was read, or set.
RerunTask(i) ==
    /\ request[i].pc = "rerun"
    /\ task' = [task EXCEPT ![request[i].cur] =
         [status |-> "RUNNING", started |-> TRUE, elapsed |-> FALSE, rerun |-> request[i].rerun]]
    /\ RequestTo(i, "rerunning")
    /\ UNCHANGED <<sched, job, age, kjob, engine, loop, missed, submitted,
                   withdrawn, reruns, faults>>

RerunJob(i) ==
    /\ request[i].pc = "rerunning"
    /\ SetJob(request[i].cur, "RUNNING")
    /\ EndRequest(i)
    /\ UNCHANGED <<sched, task, age, kjob, engine, loop, missed, submitted,
                   withdrawn, reruns, faults>>

\* Refused while a task runs; the answer may be out of date when used.
Offline(i) ==
    /\ sched = "UP"
    /\ \A t \in Tasks : task[t].status \notin Fired
    /\ Begin(i, "offline", "offline", NoTask, FALSE)

MarkDown(i) ==
    /\ request[i].pc = "offline"
    /\ sched' = IF sched = "UP" THEN "DOWN" ELSE sched
    /\ EndRequest(i)
    /\ UNCHANGED <<task, job, age, kjob, engine, loop, missed, submitted,
                   withdrawn, reruns, faults>>

\* A schedule never comes up again, so its reading stays true.
Del ==
    /\ sched = "DOWN"
    /\ sched' = "DELETED"
    /\ UNCHANGED <<task, job, age, kjob, engine, loop, missed, request,
                   submitted, withdrawn, reruns, faults>>
-----------------------------------------------------------------------------
NoLoops == [l \in Loops |-> NoPass]

\* An instance dies and another takes its place; the rows remain.
Crash(i) ==
    /\ faults.crash < MaxCrashes
    /\ Count("crash")
    /\ engine' = [engine EXCEPT ![i] = NoBatch]
    /\ loop' = [loop EXCEPT ![i] = NoLoops]
    /\ missed' = [missed EXCEPT ![i] = [t \in Tasks |-> 0]]
    /\ request' = [request EXCEPT ![i] = NoRequest]
    /\ UNCHANGED <<sched, task, job, age, kjob, submitted, withdrawn, reruns>>

Init ==
    /\ sched = "NONE"
    /\ task = [t \in Tasks |-> NoRow]
    /\ job = [t \in Tasks |-> "NONE"]
    /\ age = [t \in Tasks |-> "ahead"]
    /\ kjob = [t \in Tasks |-> "NONE"]
    /\ engine = [i \in Instances |-> NoBatch]
    /\ loop = [i \in Instances |-> NoLoops]
    /\ missed = [i \in Instances |-> [t \in Tasks |-> 0]]
    /\ request = [i \in Instances |-> NoRequest]
    /\ submitted = [t \in Tasks |-> 0]
    /\ withdrawn = {}
    /\ reruns = [t \in Tasks |-> 0]
    /\ faults = [f \in Fault |-> 0]

Environment == \E t \in Tasks : Finish(t) \/ Vanish(t) \/ Ripen(t) \/ Elapse(t)

FireLoop(i) ==
    \/ RunDue(i) \/ Submit(i) \/ FailTask(i) \/ RecordJob(i)
    \/ \E t \in Tasks : Misfire(i, t) \/ Claim(i, t)

StatusLoop(i, l) ==
    \/ List(i, l)
    \/ \E t \in Tasks : Found(i, l, t) \/ NotFound(i, l, t) \/ QueryFails(i, l, t)
    \/ ReadJob(i, l) \/ WriteJob(i, l) \/ ReadTask(i, l) \/ WriteTask(i, l)
    \/ CheckVanished(i, l) \/ MarkDeleted(i, l)

Incoming(i) == Offline(i) \/ \E t \in Tasks : TaskStop(i, t) \/ TaskRerun(i, t)

Serve(i) ==
    \/ Cancel(i) \/ StopInKuscia(i) \/ MarkJobStopped(i) \/ MarkTaskStopping(i)
    \/ DeleteInKuscia(i) \/ RerunInKuscia(i) \/ RerunTask(i) \/ RerunJob(i)
    \/ MarkDown(i)

Next ==
    \/ CreateScheduler \/ Del
    \/ Environment
    \/ \E i \in Instances :
         \/ FireLoop(i) \/ Expire(i)
         \/ \E l \in Loops : StatusLoop(i, l)
         \/ Incoming(i) \/ Serve(i)
         \/ Crash(i)

Spec == Init /\ [][Next]_vars

\* The tickers keep ticking, requests are served to their end, time passes,
\* between the poller's passes as well.  Nobody owes a request, and a job in
\* Kuscia may run for ever.
Fairness ==
    /\ \A i \in Instances :
         /\ WF_vars(FireLoop(i))
         /\ \A l \in Loops : WF_vars(StatusLoop(i, l))
         /\ WF_vars(Serve(i))
    /\ \A t \in Tasks : SF_vars(Elapse(t))

FairSpec == Spec /\ Fairness
-----------------------------------------------------------------------------
(* Properties. *)

\* Every variable keeps its type.  In particular whatever acts on a task has one,
\* and only tasks that were started carry a grace period or the mark of a rerun.
TypeOK ==
    /\ sched \in {"NONE", "UP", "DOWN", "DELETED"}
    /\ task \in [Tasks -> Row]
    /\ job \in [Tasks -> JobStatus]
    /\ age \in [Tasks -> {"ahead", "due", "late"}]
    /\ kjob \in [Tasks -> JobStatus]
    /\ engine \in [Instances -> Engine]
    /\ loop \in [Instances -> [Loops -> Pass]]
    /\ missed \in [Instances -> [Tasks -> Nat]]
    /\ request \in [Instances -> Request]
    /\ submitted \in [Tasks -> Nat]
    /\ withdrawn \in SUBSET Tasks
    /\ reruns \in [Tasks -> Nat]
    /\ faults \in [Fault -> Nat]

\* fireTask's claim is "the multi-instance lock": whatever instances, crashes
\* and stops do, the fire loops submit a task at most once, and never a task
\* that was cancelled or has misfired.
FiredOnce ==
    \A t \in Tasks :
        /\ submitted[t] <= 1
        /\ t \in withdrawn => submitted[t] = 0

\* What runs in Kuscia is accounted for by a fired task row, so that it can be
\* seen and stopped, as long as no reply is lost and nothing is rerun; the
\* poller's notion of a vanished job must not overtake a submission under way.
RunningIsAccounted ==
    faults.lost + faults.rerun = 0 =>
        \A t \in Tasks : kjob[t] = "RUNNING" => task[t].status \in Fired

\* A due task of an UP schedule is claimed, cancelled or marked misfired.
DueTasksLeave ==
    \A t \in Tasks :
        (sched = "UP" /\ task[t].status = "TO_BE_RUN" /\ age[t] # "ahead")
        ~> (task[t].status # "TO_BE_RUN" \/ sched # "UP")

\* Both status loops write answers of any age to the two rows without a common
\* lock, and may die between them.  Still the task of a job that has failed or was
\* stopped does not stay fired: an older answer written last is read back again.
FailuresAreReadBack ==
    \A t \in Tasks :
        <>[](kjob[t] \in {"FAILED", "STOPPED"}) => <>[](task[t].status \notin Fired)

\* The poller "detects jobs that vanished from Kuscia while no watch was
\* connected": a fired task without a job in Kuscia, vanished or never submitted
\* because its pass was cut off or its instance died, does not stay so while its
\* job's row is one the poller asks about.
VanishedIsDetected ==
    \A t \in Tasks :
        (task[t].status \in Fired /\ kjob[t] = "NONE" /\ job[t] = "RUNNING")
        ~> (task[t].status \notin Fired \/ kjob[t] # "NONE" \/ job[t] # "RUNNING")

\* A verdict is read back, be it a success.
VerdictIsReadBack ==
    \A t \in Tasks :
        (task[t].status = "RUNNING" /\ kjob[t] \in Finished)
        ~> task[t].status # "RUNNING"

\* "keep STOPPING until Kuscia reports a terminal state", and no longer.
StoppingEnds ==
    \A t \in Tasks :
        (task[t].status = "STOPPING" /\ kjob[t] \in Finished)
        ~> task[t].status # "STOPPING"

\* "the engine only fires tasks of UP schedules": no task is claimed once its
\* schedule is off line.
OnlyUpSchedulesFire ==
    [][\A t \in Tasks :
         task[t].status = "TO_BE_RUN" /\ task'[t].status = "RUNNING" => sched = "UP"]_vars

\* A rerun of type ALL is performed "once only" per task.
RerunAllOnce == \A t \in Tasks : reruns[t] <= 1
=============================================================================
