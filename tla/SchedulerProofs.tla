--------------------------- MODULE SchedulerProofs ---------------------------
(***************************************************************************)
(* Proofs about the scheduler, for any number of tasks and instances and   *)
(* for every bound on faults and requests: every variable keeps its type,  *)
(* the fire loops submit a task at most once, and what runs in Kuscia is   *)
(* accounted for by a fired row.                                           *)
(***************************************************************************)
EXTENDS Scheduler, TLAPS

-----------------------------------------------------------------------------
(* The updates the actions are made of keep the type of their variable. *)

\* SetTask writes a status into a row and leaves its marks.
LEMMA SetTaskType ==
    ASSUME task \in [Tasks -> Row], NEW t, NEW s \in TaskStatus, SetTask(t, s)
    PROVE  task' \in [Tasks -> Row]
BY DEF SetTask, Row

\* A claimed or rerun task has a start time.
LEMMA StartedRow ==
    ASSUME NEW r \in BOOLEAN
    PROVE  [status |-> "RUNNING", started |-> TRUE, elapsed |-> FALSE, rerun |-> r] \in Row
BY DEF Row, TaskStatus, Fired

\* SetJob writes a status.
LEMMA SetJobType ==
    ASSUME job \in [Tasks -> JobStatus], NEW t, NEW s \in JobStatus, SetJob(t, s)
    PROVE  job' \in [Tasks -> JobStatus]
BY DEF SetJob

\* Count adds one to a counter.
LEMMA CountType ==
    ASSUME faults \in [Fault -> Nat], NEW f \in Fault, Count(f)
    PROVE  faults' \in [Fault -> Nat]
<1>1. faults[f] + 1 \in Nat
  OBVIOUS
<1> QED BY <1>1 DEF Count

\* A call to Kuscia leaves a job in a state Kuscia reports.
LEMMA CallType ==
    ASSUME TypeOK, NEW t, NEW ready, NEW res \in SUBSET JobStatus, NEW ok, Call(t, ready, res, ok)
    PROVE  kjob' \in [Tasks -> JobStatus] /\ faults' \in [Fault -> Nat]
<1>1. kjob' \in [Tasks -> JobStatus]
  BY DEF Call, TypeOK
<1>2. faults' = faults \/ Count("lost") \/ Count("refused")
  BY DEF Call
<1>3. faults' \in [Fault -> Nat]
  BY <1>2, CountType DEF TypeOK, Fault
<1> QED BY <1>1, <1>3

\* Each of the four calls is such a call.
LEMMA KusciaType ==
    ASSUME TypeOK, NEW t \in Tasks, NEW ok,
           CreateJob(t, ok) \/ DeleteJob(t, ok) \/ RestartJob(t, ok) \/ StopJob(t, ok)
    PROVE  kjob' \in [Tasks -> JobStatus] /\ faults' \in [Fault -> Nat]
<1>1. CASE CreateJob(t, ok)
  BY <1>1, CallType DEF CreateJob, JobStatus
<1>2. CASE DeleteJob(t, ok)
  BY <1>2, CallType DEF DeleteJob, JobStatus
<1>3. CASE RestartJob(t, ok)
  BY <1>3, CallType DEF RestartJob, JobStatus
<1>4. CASE StopJob(t, ok)
  <2>1. CASE kjob[t] = "NONE"
    BY <1>4, <2>1, CountType DEF StopJob, Call, TypeOK, Fault
  <2>2. CASE kjob[t] # "NONE"
    <3> DEFINE res == IF kjob[t] = "RUNNING" THEN {"STOPPED", "FAILED"} ELSE {kjob[t]}
    <3>1. res \in SUBSET JobStatus
      BY <2>2 DEF TypeOK, JobStatus, Finished
    <3> QED BY <1>4, <3>1, CallType DEF StopJob
  <2> QED BY <2>1, <2>2
<1> QED BY <1>1, <1>2, <1>3, <1>4

\* The records of an instance at a given place in its code.
LEMMA EngineToType ==
    ASSUME engine \in [Instances -> Engine], NEW i \in Instances, NEW pc, EngineTo(i, pc),
           engine[i].pc # "loop",
           pc \in {"loop", "submit", "created", "failing", "failed", "misfired"}
    PROVE  engine' \in [Instances -> Engine]
BY DEF EngineTo, Engine

LEMMA RequestToType ==
    ASSUME request \in [Instances -> Request], NEW i \in Instances, NEW pc, RequestTo(i, pc),
           request[i].pc \notin {"idle", "offline"},
           pc \in {"idle", "cancel", "cancelled", "stop", "stopped", "stopping", "delete",
                   "create", "restart", "rerun", "rerunning", "offline"}
    PROVE  request' \in [Instances -> Request]
BY DEF RequestTo, Request

LEMMA EndRequestType ==
    ASSUME request \in [Instances -> Request], NEW i, EndRequest(i)
    PROVE  request' \in [Instances -> Request]
BY DEF EndRequest, Request, NoRequest

LEMMA EngineType ==
    ASSUME engine \in [Instances -> Engine], NEW i \in Instances, NEW e \in Engine,
           engine' = [engine EXCEPT ![i] = e]
    PROVE  engine' \in [Instances -> Engine]
OBVIOUS

LEMMA PassType ==
    ASSUME loop \in [Instances -> [Loops -> Pass]], NEW i \in Instances, NEW l \in Loops,
           NEW p \in Pass, loop' = [loop EXCEPT ![i][l] = p]
    PROVE  loop' \in [Instances -> [Loops -> Pass]]
OBVIOUS

LEMMA PassToType ==
    ASSUME loop \in [Instances -> [Loops -> Pass]], NEW i \in Instances, NEW l \in Loops,
           NEW pc, PassTo(i, l, pc), loop[i][l].pc # "idle",
           pc \in {"idle", "read", "writejob", "readtask", "writetask", "vanished", "delete"}
    PROVE  loop' \in [Instances -> [Loops -> Pass]]
<1>0. loop[i][l] \in Pass
  OBVIOUS
<1>1. [loop[i][l] EXCEPT !.pc = pc] \in Pass
  BY <1>0 DEF Pass
<1>2. loop' = [loop EXCEPT ![i][l] = [loop[i][l] EXCEPT !.pc = pc]]
  BY DEF PassTo
<1> QED BY <1>1, <1>2, PassType

LEMMA EndPassType ==
    ASSUME loop \in [Instances -> [Loops -> Pass]], NEW i \in Instances, NEW l \in Loops, EndPass(i, l)
    PROVE  loop' \in [Instances -> [Loops -> Pass]]
<1>1. [NoPass EXCEPT !.todo = loop[i][l].todo] \in Pass
  BY DEF Pass, NoPass, JobStatus
<1> QED BY <1>1, PassType DEF EndPass

\* The misses of a job are a number.
LEMMA MissedType ==
    ASSUME missed \in [Instances -> [Tasks -> Nat]], NEW i \in Instances, NEW t \in Tasks,
           NEW n \in Nat, missed' = [missed EXCEPT ![i][t] = n]
    PROVE  missed' \in [Instances -> [Tasks -> Nat]]
OBVIOUS

-----------------------------------------------------------------------------
(* Type correctness: one step per action, under it one per variable the    *)
(* action writes.                                                          *)

\* The initial rows are well formed.
LEMMA TypeInit == Init => TypeOK
BY SchedulerAssumption DEF Init, TypeOK, Row, Engine, Pass, Request, JobStatus, TaskStatus,
   Fault, NoRow, NoBatch, NoPass, NoLoops, NoRequest, Fired, Finished

\* The life of a schedule, the environment and time.
LEMMA TypeEnvironment ==
    ASSUME TypeOK, CreateScheduler \/ Del \/ Environment
    PROVE  TypeOK'
<1>1. ASSUME CreateScheduler PROVE TypeOK'
  <2>1. task' \in [Tasks -> Row]
    BY <1>1 DEF CreateScheduler, Row, NoRow, TaskStatus, TypeOK
  <2>2. job' \in [Tasks -> JobStatus]
    BY <1>1 DEF CreateScheduler, JobStatus, TypeOK
  <2> QED BY <1>1, <2>1, <2>2 DEF CreateScheduler, TypeOK
<1>2. ASSUME Del PROVE TypeOK'
  BY <1>2 DEF Del, TypeOK
<1>3. ASSUME NEW t \in Tasks, Finish(t) PROVE TypeOK'
  <2>1. kjob' \in [Tasks -> JobStatus]
    BY <1>3 DEF Finish, JobStatus, Finished, TypeOK
  <2> QED BY <1>3, <2>1 DEF Finish, TypeOK
<1>4. ASSUME NEW t \in Tasks, Vanish(t) PROVE TypeOK'
  <2>1. kjob' \in [Tasks -> JobStatus]
    BY <1>4 DEF Vanish, JobStatus, TypeOK
  <2>2. faults' \in [Fault -> Nat]
    BY <1>4, CountType DEF Vanish, Fault, TypeOK
  <2> QED BY <1>4, <2>1, <2>2 DEF Vanish, TypeOK
<1>5. ASSUME NEW t \in Tasks, Ripen(t) PROVE TypeOK'
  <2>1. age' \in [Tasks -> {"ahead", "due", "late"}]
    BY <1>5 DEF Ripen, TypeOK
  <2> QED BY <1>5, <2>1 DEF Ripen, TypeOK
<1>6. ASSUME NEW t \in Tasks, Elapse(t) PROVE TypeOK'
  <2>1. task' \in [Tasks -> Row]
    BY <1>6 DEF Elapse, Row, TypeOK
  <2> QED BY <1>6, <2>1 DEF Elapse, TypeOK
<1> QED BY <1>1, <1>2, <1>3, <1>4, <1>5, <1>6 DEF Environment

\* A fire pass.
LEMMA TypeFireLoop ==
    ASSUME TypeOK, NEW i \in Instances, FireLoop(i)
    PROVE  TypeOK'
<1>1. ASSUME RunDue(i) PROVE TypeOK'
  <2>1. engine' \in [Instances -> Engine]
    <3>1. PICK late \in SUBSET Waiting("late"), due \in SUBSET Waiting("due") :
            engine' = [engine EXCEPT ![i] = [NoBatch EXCEPT !.late = late, !.due = due]]
      BY <1>1 DEF RunDue
    <3>2. [NoBatch EXCEPT !.late = late, !.due = due] \in Engine
      BY DEF NoBatch, Engine, Waiting
    <3> QED BY <3>1, <3>2, EngineType DEF TypeOK
  <2> QED BY <1>1, <2>1 DEF RunDue, TypeOK
<1>2. ASSUME Submit(i) PROVE TypeOK'
  <2>1. engine[i].cur \in Tasks
    BY <1>2 DEF Submit, Engine, TypeOK
  <2>2. submitted' \in [Tasks -> Nat]
    <3>1. submitted[engine[i].cur] + 1 \in Nat
      BY <2>1 DEF TypeOK
    <3> QED BY <1>2, <3>1 DEF Submit, TypeOK
  <2>3. kjob' \in [Tasks -> JobStatus] /\ faults' \in [Fault -> Nat]
    BY <1>2, <2>1, KusciaType DEF Submit, TypeOK
  <2>4. engine' \in [Instances -> Engine]
    BY <1>2, EngineToType DEF Submit, TypeOK
  <2> QED BY <1>2, <2>2, <2>3, <2>4 DEF Submit, TypeOK
<1>3. ASSUME FailTask(i) PROVE TypeOK'
  <2>1. task' \in [Tasks -> Row]
    BY <1>3, SetTaskType DEF FailTask, TaskStatus, Finished, TypeOK
  <2>2. engine' \in [Instances -> Engine]
    BY <1>3, EngineToType DEF FailTask, TypeOK
  <2> QED BY <1>3, <2>1, <2>2 DEF FailTask, TypeOK
<1>4. ASSUME RecordJob(i) PROVE TypeOK'
  <2>1. job' \in [Tasks -> JobStatus]
    BY <1>4, SetJobType DEF RecordJob, JobStatus, Finished, TypeOK
  <2>2. engine' \in [Instances -> Engine]
    <3>0. engine[i] \in Engine
      BY DEF TypeOK
    <3>1. [engine[i] EXCEPT !.pc = "loop", !.cur = NoTask] \in Engine
      BY <3>0 DEF Engine
    <3>2. engine' = [engine EXCEPT ![i] = [engine[i] EXCEPT !.pc = "loop", !.cur = NoTask]]
      BY <1>4 DEF RecordJob
    <3> QED BY <3>1, <3>2, EngineType DEF TypeOK
  <2> QED BY <1>4, <2>1, <2>2 DEF RecordJob, TypeOK
<1>5. ASSUME NEW t \in Tasks, Misfire(i, t) PROVE TypeOK'
  <2>1. task' \in [Tasks -> Row]
    BY <1>5, SetTaskType DEF Misfire, TaskStatus, Finished, TypeOK
  <2>2. withdrawn' \in SUBSET Tasks
    BY <1>5 DEF Misfire, TypeOK
  <2>3. engine' \in [Instances -> Engine]
    <3>0. engine[i] \in Engine /\ engine[i].pc = "loop"
      BY <1>5 DEF Misfire, TypeOK
    <3>1. [engine[i] EXCEPT !.late = engine[i].late \ {t}] \in Engine
      BY <3>0 DEF Engine
    <3>2. [pc |-> "misfired", late |-> engine[i].late \ {t}, due |-> engine[i].due, cur |-> t] \in Engine
      BY <3>0 DEF Engine
    <3>3. \/ engine' = [engine EXCEPT ![i] = [engine[i] EXCEPT !.late = engine[i].late \ {t}]]
          \/ engine' = [engine EXCEPT ![i] = [pc |-> "misfired", late |-> engine[i].late \ {t}, due |-> engine[i].due, cur |-> t]]
      BY <1>5 DEF Misfire
    <3> QED BY <3>1, <3>2, <3>3, EngineType DEF TypeOK
  <2> QED BY <1>5, <2>1, <2>2, <2>3 DEF Misfire, TypeOK
<1>6. ASSUME NEW t \in Tasks, Claim(i, t) PROVE TypeOK'
  <2>1. task' \in [Tasks -> Row]
    <3>1. [task[t] EXCEPT !.status = "RUNNING", !.started = TRUE, !.elapsed = FALSE] \in Row
      BY DEF Row, TaskStatus, Fired, TypeOK
    <3>2. task' = task \/ task' = [task EXCEPT ![t] =
            [task[t] EXCEPT !.status = "RUNNING", !.started = TRUE, !.elapsed = FALSE]]
      BY <1>6 DEF Claim
    <3> QED BY <3>1, <3>2 DEF TypeOK
  <2>2. engine' \in [Instances -> Engine]
    <3>0. engine[i] \in Engine /\ engine[i].pc = "loop"
      BY <1>6 DEF Claim, TypeOK
    <3>1. [engine[i] EXCEPT !.due = engine[i].due \ {t}] \in Engine
      BY <3>0 DEF Engine
    <3>2. [pc |-> "submit", late |-> {}, due |-> engine[i].due \ {t}, cur |-> t] \in Engine
      BY <3>0 DEF Engine
    <3>3. \/ engine' = [engine EXCEPT ![i] = [engine[i] EXCEPT !.due = engine[i].due \ {t}]]
          \/ engine' = [engine EXCEPT ![i] = [pc |-> "submit", late |-> {}, due |-> engine[i].due \ {t}, cur |-> t]]
      BY <1>6 DEF Claim
    <3> QED BY <3>1, <3>2, <3>3, EngineType DEF TypeOK
  <2> QED BY <1>6, <2>1, <2>2 DEF Claim, TypeOK
<1> QED BY <1>1, <1>2, <1>3, <1>4, <1>5, <1>6 DEF FireLoop

\* A pass of a status loop.
LEMMA TypeStatusLoop ==
    ASSUME TypeOK, NEW i \in Instances, NEW l \in Loops, StatusLoop(i, l)
    PROVE  TypeOK'
<1>1. ASSUME List(i, l) PROVE TypeOK'
  <2>1. loop' \in [Instances -> [Loops -> Pass]]
    <3>0. loop[i][l] \in Pass
      BY DEF TypeOK
    <3>1. [loop[i][l] EXCEPT !.todo = Candidates(l)] \in Pass
      BY <3>0 DEF Pass, Candidates
    <3>2. loop' = [loop EXCEPT ![i][l] = [loop[i][l] EXCEPT !.todo = Candidates(l)]]
      BY <1>1 DEF List
    <3> QED BY <3>1, <3>2, PassType DEF TypeOK
  <2>2. missed' \in [Instances -> [Tasks -> Nat]]
    <3>1. [t \in Tasks |-> IF t \in Candidates(l) THEN missed[i][t] ELSE 0] \in [Tasks -> Nat]
      BY DEF TypeOK
    <3>2. missed' = missed \/ missed' =
            [missed EXCEPT ![i] = [t \in Tasks |-> IF t \in Candidates(l) THEN missed[i][t] ELSE 0]]
      BY <1>1 DEF List
    <3> QED BY <3>1, <3>2 DEF TypeOK
  <2> QED BY <1>1, <2>1, <2>2 DEF List, TypeOK
<1>2. ASSUME NEW t \in Tasks, Found(i, l, t) PROVE TypeOK'
  <2>1. loop' \in [Instances -> [Loops -> Pass]]
    <3>1. [pc |-> "read", todo |-> loop[i][l].todo \ {t}, cur |-> t, st |-> kjob[t]] \in Pass
      BY DEF Pass, TypeOK
    <3>2. loop' = [loop EXCEPT ![i][l] =
                     [pc |-> "read", todo |-> loop[i][l].todo \ {t}, cur |-> t, st |-> kjob[t]]]
      BY <1>2 DEF Found
    <3> QED BY <3>1, <3>2, PassType DEF TypeOK
  <2>2. missed' \in [Instances -> [Tasks -> Nat]]
    BY <1>2, MissedType DEF Found, TypeOK
  <2> QED BY <1>2, <2>1, <2>2 DEF Found, TypeOK
<1>3. ASSUME NEW t \in Tasks, NotFound(i, l, t) PROVE TypeOK'
  <2>1. loop' \in [Instances -> [Loops -> Pass]]
    <3>0. loop[i][l] \in Pass /\ loop[i][l].pc = "idle"
      BY <1>3 DEF NotFound, TypeOK
    <3>1. [loop[i][l] EXCEPT !.todo = loop[i][l].todo \ {t}] \in Pass
      BY <3>0 DEF Pass
    <3>2. [[loop[i][l] EXCEPT !.todo = loop[i][l].todo \ {t}]
               EXCEPT !.pc = "vanished", !.cur = t] \in Pass
      BY <3>0 DEF Pass
    <3>3. \/ loop' = [loop EXCEPT ![i][l] = [loop[i][l] EXCEPT !.todo = loop[i][l].todo \ {t}]]
          \/ loop' = [loop EXCEPT ![i][l] = [[loop[i][l] EXCEPT !.todo = loop[i][l].todo \ {t}]
               EXCEPT !.pc = "vanished", !.cur = t]]
      BY <1>3 DEF NotFound
    <3> QED BY <3>1, <3>2, <3>3, PassType DEF TypeOK
  <2>2. missed' \in [Instances -> [Tasks -> Nat]]
    <3>1. missed[i][t] + 1 \in Nat
      BY DEF TypeOK
    <3>2. missed' = missed \/ missed' = [missed EXCEPT ![i][t] = missed[i][t] + 1]
      BY <1>3 DEF NotFound
    <3> QED BY <3>1, <3>2, MissedType DEF TypeOK
  <2> QED BY <1>3, <2>1, <2>2 DEF NotFound, TypeOK
<1>4. ASSUME NEW t \in Tasks, QueryFails(i, l, t) PROVE TypeOK'
  <2>1. faults' \in [Fault -> Nat]
    BY <1>4, CountType DEF QueryFails, Fault, TypeOK
  <2>2. loop' \in [Instances -> [Loops -> Pass]]
    <3>0. loop[i][l] \in Pass
      BY DEF TypeOK
    <3>1. [loop[i][l] EXCEPT !.todo = loop[i][l].todo \ {t}] \in Pass
      BY <3>0 DEF Pass
    <3>2. loop' = [loop EXCEPT ![i][l] = [loop[i][l] EXCEPT !.todo = loop[i][l].todo \ {t}]]
      BY <1>4 DEF QueryFails
    <3> QED BY <3>1, <3>2, PassType DEF TypeOK
  <2> QED BY <1>4, <2>1, <2>2 DEF QueryFails, TypeOK
<1>5. ASSUME ReadJob(i, l) PROVE TypeOK'
  <2>1. loop' \in [Instances -> [Loops -> Pass]]
    BY <1>5, PassToType, EndPassType DEF ReadJob, TypeOK
  <2> QED BY <1>5, <2>1 DEF ReadJob, TypeOK
<1>6. ASSUME WriteJob(i, l) PROVE TypeOK'
  <2>1. job' \in [Tasks -> JobStatus]
    BY <1>6, SetJobType DEF WriteJob, Pass, TypeOK
  <2>2. loop' \in [Instances -> [Loops -> Pass]]
    BY <1>6, PassToType, EndPassType DEF WriteJob, TypeOK
  <2> QED BY <1>6, <2>1, <2>2 DEF WriteJob, TypeOK
<1>7. ASSUME ReadTask(i, l) PROVE TypeOK'
  <2>1. loop' \in [Instances -> [Loops -> Pass]]
    BY <1>7, PassToType, EndPassType DEF ReadTask, TypeOK
  <2> QED BY <1>7, <2>1 DEF ReadTask, TypeOK
<1>8. ASSUME WriteTask(i, l) PROVE TypeOK'
  <2>1. task' \in [Tasks -> Row]
    <3>1. l \in Loops /\ loop[i][l] \in Pass
      BY DEF TypeOK
    <3>2. loop[i][l].cur \in Tasks /\ loop[i][l].st \in TaskStatus
      BY <1>8, <3>1 DEF WriteTask, Pass, JobStatus, TaskStatus, Fired, Finished
    <3> QED BY <1>8, <3>2, SetTaskType DEF WriteTask, TypeOK
  <2>2. loop' \in [Instances -> [Loops -> Pass]]
    BY <1>8, EndPassType DEF WriteTask, TypeOK
  <2> QED BY <1>8, <2>1, <2>2 DEF WriteTask, TypeOK
<1>9. ASSUME CheckVanished(i, l) PROVE TypeOK'
  <2>1. loop[i][l].cur \in Tasks
    BY <1>9 DEF CheckVanished, Pass, TypeOK
  <2>2. loop' \in [Instances -> [Loops -> Pass]]
    BY <1>9, PassToType, EndPassType DEF CheckVanished, TypeOK
  <2>3. missed' \in [Instances -> [Tasks -> Nat]]
    BY <1>9, <2>1, MissedType DEF CheckVanished, TypeOK
  <2> QED BY <1>9, <2>2, <2>3 DEF CheckVanished, TypeOK
<1>10. ASSUME MarkDeleted(i, l) PROVE TypeOK'
  <2>1. loop[i][l].cur \in Tasks
    BY <1>10 DEF MarkDeleted, Pass, TypeOK
  <2>2. job' \in [Tasks -> JobStatus]
    BY <1>10, SetJobType DEF MarkDeleted, JobStatus, Finished, TypeOK
  <2>3. task' \in [Tasks -> Row]
    BY <1>10, SetTaskType DEF MarkDeleted, TaskStatus, Finished, TypeOK
  <2>4. missed' \in [Instances -> [Tasks -> Nat]]
    BY <1>10, <2>1, MissedType DEF MarkDeleted, TypeOK
  <2>5. loop' \in [Instances -> [Loops -> Pass]]
    BY <1>10, EndPassType DEF MarkDeleted, TypeOK
  <2> QED BY <1>10, <2>2, <2>3, <2>4, <2>5 DEF MarkDeleted, TypeOK
<1> QED BY <1>1, <1>2, <1>3, <1>4, <1>5, <1>6, <1>7, <1>8, <1>9, <1>10 DEF StatusLoop

\* The acceptance of a request.
LEMMA BeginType ==
    ASSUME TypeOK, NEW i \in Instances, NEW call, NEW pc, NEW t \in Tasks \cup {NoTask},
           NEW rerun \in BOOLEAN, Begin(i, call, pc, t, rerun),
           \/ pc \in {"cancel", "stop", "delete", "create", "restart"} /\ t \in Tasks
           \/ pc = "offline"
    PROVE  TypeOK'
<1>1. [pc |-> pc, cur |-> t, rerun |-> rerun] \in Request
  BY DEF Request
<1>2. request' \in [Instances -> Request]
  BY <1>1 DEF Begin, TypeOK
<1>3. faults' \in [Fault -> Nat]
  BY CountType DEF Begin, Fault, TypeOK
<1> QED BY <1>2, <1>3 DEF Begin, TypeOK

LEMMA TypeIncoming ==
    ASSUME TypeOK, NEW i \in Instances, Incoming(i)
    PROVE  TypeOK'
<1>1. ASSUME Offline(i) PROVE TypeOK'
  BY <1>1, BeginType DEF Offline
<1>2. ASSUME NEW t \in Tasks, TaskStop(i, t) PROVE TypeOK'
  BY <1>2, BeginType DEF TaskStop
<1>3. ASSUME NEW t \in Tasks, TaskRerun(i, t) PROVE TypeOK'
  <2>1. task[t].rerun \in BOOLEAN
    BY DEF TypeOK, Row
  <2>2. CASE Begin(i, "rerunAll", IF task[t].started THEN "delete" ELSE "create", t, TRUE)
    BY <2>2, BeginType
  <2>3. CASE Begin(i, "rerunFailed", "restart", t, task[t].rerun)
    BY <2>1, <2>3, BeginType
  <2> QED BY <1>3, <2>2, <2>3 DEF TaskRerun
<1> QED BY <1>1, <1>2, <1>3 DEF Incoming

\* The steps of a request.
LEMMA TypeServe ==
    ASSUME TypeOK, NEW i \in Instances, Serve(i)
    PROVE  TypeOK'
<1>1. ASSUME Cancel(i) PROVE TypeOK'
  <2>1. request[i].cur \in Tasks
    BY <1>1 DEF Cancel, Request, TypeOK
  <2>2. task' \in [Tasks -> Row]
    BY <1>1, SetTaskType DEF Cancel, TaskStatus, Finished, TypeOK
  <2>3. withdrawn' \in SUBSET Tasks
    BY <1>1, <2>1 DEF Cancel, TypeOK
  <2>4. request' \in [Instances -> Request]
    BY <1>1, RequestToType, EndRequestType DEF Cancel, TypeOK
  <2> QED BY <1>1, <2>2, <2>3, <2>4 DEF Cancel, TypeOK
<1>2. ASSUME StopInKuscia(i) PROVE TypeOK'
  <2>1. request[i].cur \in Tasks
    BY <1>2 DEF StopInKuscia, Request, TypeOK
  <2>2. kjob' \in [Tasks -> JobStatus] /\ faults' \in [Fault -> Nat]
    BY <1>2, <2>1, KusciaType DEF StopInKuscia, TypeOK
  <2>3. request' \in [Instances -> Request]
    BY <1>2, RequestToType, EndRequestType DEF StopInKuscia, TypeOK
  <2> QED BY <1>2, <2>2, <2>3 DEF StopInKuscia, TypeOK
<1>3. ASSUME MarkJobStopped(i) PROVE TypeOK'
  <2>1. job' \in [Tasks -> JobStatus]
    BY <1>3, SetJobType DEF MarkJobStopped, JobStatus, Finished, TypeOK
  <2>2. request' \in [Instances -> Request]
    BY <1>3, RequestToType, EndRequestType DEF MarkJobStopped, TypeOK
  <2> QED BY <1>3, <2>1, <2>2 DEF MarkJobStopped, TypeOK
<1>4. ASSUME MarkTaskStopping(i) PROVE TypeOK'
  <2>1. task' \in [Tasks -> Row]
    BY <1>4, SetTaskType DEF MarkTaskStopping, TaskStatus, Fired, TypeOK
  <2>2. request' \in [Instances -> Request]
    BY <1>4, RequestToType, EndRequestType DEF MarkTaskStopping, TypeOK
  <2> QED BY <1>4, <2>1, <2>2 DEF MarkTaskStopping, TypeOK
<1>5. ASSUME DeleteInKuscia(i) PROVE TypeOK'
  <2>1. request[i].cur \in Tasks
    BY <1>5 DEF DeleteInKuscia, Request, TypeOK
  <2>2. kjob' \in [Tasks -> JobStatus] /\ faults' \in [Fault -> Nat]
    BY <1>5, <2>1, KusciaType DEF DeleteInKuscia, TypeOK
  <2>3. request' \in [Instances -> Request]
    BY <1>5, RequestToType, EndRequestType DEF DeleteInKuscia, TypeOK
  <2> QED BY <1>5, <2>2, <2>3 DEF DeleteInKuscia, TypeOK
<1>6. ASSUME RerunInKuscia(i) PROVE TypeOK'
  <2>1. request[i].cur \in Tasks
    BY <1>6 DEF RerunInKuscia, Request, TypeOK
  <2>2. kjob' \in [Tasks -> JobStatus] /\ faults' \in [Fault -> Nat]
    BY <1>6, <2>1, KusciaType DEF RerunInKuscia, TypeOK
  <2>3. request' \in [Instances -> Request]
    BY <1>6, RequestToType, EndRequestType DEF RerunInKuscia, TypeOK
  <2>4. reruns' \in [Tasks -> Nat]
    <3>1. reruns[request[i].cur] + 1 \in Nat
      BY <2>1 DEF TypeOK
    <3>2. reruns' = reruns \/ reruns' = [reruns EXCEPT ![request[i].cur] = reruns[request[i].cur] + 1]
      BY <1>6 DEF RerunInKuscia
    <3> QED BY <3>1, <3>2 DEF TypeOK
  <2> QED BY <1>6, <2>2, <2>3, <2>4 DEF RerunInKuscia, TypeOK
<1>7. ASSUME RerunTask(i) PROVE TypeOK'
  <2>1. task' \in [Tasks -> Row]
    BY <1>7, StartedRow DEF RerunTask, Request, TypeOK
  <2>2. request' \in [Instances -> Request]
    BY <1>7, RequestToType, EndRequestType DEF RerunTask, TypeOK
  <2> QED BY <1>7, <2>1, <2>2 DEF RerunTask, TypeOK
<1>8. ASSUME RerunJob(i) PROVE TypeOK'
  <2>1. job' \in [Tasks -> JobStatus]
    BY <1>8, SetJobType DEF RerunJob, JobStatus, TypeOK
  <2>2. request' \in [Instances -> Request]
    BY <1>8, RequestToType, EndRequestType DEF RerunJob, TypeOK
  <2> QED BY <1>8, <2>1, <2>2 DEF RerunJob, TypeOK
<1>9. ASSUME MarkDown(i) PROVE TypeOK'
  <2>1. sched' \in {"NONE", "UP", "DOWN", "DELETED"}
    BY <1>9 DEF MarkDown, TypeOK
  <2>2. request' \in [Instances -> Request]
    BY <1>9, RequestToType, EndRequestType DEF MarkDown, TypeOK
  <2> QED BY <1>9, <2>1, <2>2 DEF MarkDown, TypeOK
<1> QED BY <1>1, <1>2, <1>3, <1>4, <1>5, <1>6, <1>7, <1>8, <1>9 DEF Serve

\* A pass that is cut off, and a crash.
LEMMA TypeInterruption ==
    ASSUME TypeOK, NEW i \in Instances, Expire(i) \/ Crash(i)
    PROVE  TypeOK'
<1>0. NoBatch \in Engine /\ NoLoops \in [Loops -> Pass] /\ NoRequest \in Request
  BY DEF NoBatch, Engine, NoLoops, NoPass, Pass, JobStatus, NoRequest, Request
<1>1. CASE Expire(i)
  BY <1>0, <1>1, CountType DEF Expire, Fault, TypeOK
<1>2. CASE Crash(i)
  BY <1>0, <1>2, CountType DEF Crash, Fault, TypeOK
<1> QED BY <1>1, <1>2

\* Every variable keeps its type, whatever the bounds on faults: what a status
\* loop, a request or a fire pass writes into a row is a status the row may
\* have, and no row gets a grace period or the mark of a rerun without a start.
THEOREM TypeCorrect == Spec => []TypeOK
<1>1. TypeOK /\ [Next]_vars => TypeOK'
  <2> SUFFICES ASSUME TypeOK, [Next]_vars PROVE TypeOK'
    OBVIOUS
  <2>1. CASE UNCHANGED vars
    BY <2>1 DEF vars, TypeOK
  <2>2. CASE Next
    BY <2>2, TypeEnvironment, TypeFireLoop, TypeStatusLoop, TypeIncoming, TypeServe,
       TypeInterruption DEF Next
  <2> QED BY <2>1, <2>2
<1> QED BY TypeInit, <1>1, PTL DEF Spec

-----------------------------------------------------------------------------
(* A task is submitted at most once.  That is not inductive by itself: a     *)
(* submission under way must be the only one for its task, of a task that    *)
(* was never submitted, and a waiting task must have no past.                *)

ClaimInv ==
    /\ FiredOnce
    /\ \A t \in Tasks :
         task[t].status = "TO_BE_RUN" => submitted[t] = 0 /\ t \notin withdrawn
    /\ \A i \in Instances :
         engine[i].pc = "submit" =>
           /\ task[engine[i].cur].status # "TO_BE_RUN"
           /\ submitted[engine[i].cur] = 0 /\ engine[i].cur \notin withdrawn
    /\ \A i, j \in Instances :
         engine[i].pc = "submit" /\ engine[j].pc = "submit" /\ engine[i].cur = engine[j].cur
           => i = j
    /\ sched = "NONE" =>
         /\ \A t \in Tasks : task[t].status # "TO_BE_RUN" /\ submitted[t] = 0
         /\ withdrawn = {}
         /\ \A i \in Instances : engine[i].pc # "submit"

\* A step that starts no submission: no task goes back to waiting, and what it
\* withdraws was waiting.
Quiet ==
    /\ sched' = "NONE" => sched = "NONE"
    /\ submitted' = submitted
    /\ \A t \in Tasks : task'[t].status = "TO_BE_RUN" => task[t].status = "TO_BE_RUN"
    /\ \A t \in withdrawn' \ withdrawn :
         t \in Tasks /\ task[t].status = "TO_BE_RUN" /\ task'[t].status # "TO_BE_RUN"
    /\ \A i \in Instances :
         engine'[i].pc = "submit" => engine[i].pc = "submit" /\ engine'[i].cur = engine[i].cur

LEMMA QuietKeeps ==
    ASSUME TypeOK, TypeOK', ClaimInv, Quiet
    PROVE  ClaimInv'
<1>0. \A i \in Instances : engine[i].pc = "submit" => engine[i].cur \in Tasks
  BY DEF TypeOK, Engine
<1>1. FiredOnce'
  BY DEF Quiet, ClaimInv, FiredOnce
<1>2. \A t \in Tasks : task'[t].status = "TO_BE_RUN" => submitted'[t] = 0 /\ t \notin withdrawn'
  BY DEF Quiet, ClaimInv
<1>3. ASSUME NEW i \in Instances, engine'[i].pc = "submit"
      PROVE  /\ task'[engine'[i].cur].status # "TO_BE_RUN"
             /\ submitted'[engine'[i].cur] = 0 /\ engine'[i].cur \notin withdrawn'
  BY <1>0, <1>3 DEF Quiet, ClaimInv
<1>4. ASSUME NEW i \in Instances, NEW j \in Instances, engine'[i].pc = "submit",
             engine'[j].pc = "submit", engine'[i].cur = engine'[j].cur
      PROVE  i = j
  BY <1>4 DEF Quiet, ClaimInv
<1>5. ASSUME sched' = "NONE"
      PROVE  /\ \A t \in Tasks : task'[t].status # "TO_BE_RUN" /\ submitted'[t] = 0
             /\ withdrawn' = {}
             /\ \A i \in Instances : engine'[i].pc # "submit"
  BY <1>5 DEF Quiet, ClaimInv
<1> QED BY <1>1, <1>2, <1>3, <1>4, <1>5 DEF ClaimInv

\* Writing a status other than TO_BE_RUN puts no task back to waiting.
LEMMA SetTaskQuiet ==
    ASSUME TypeOK, NEW t, NEW s, s # "TO_BE_RUN", SetTask(t, s)
    PROVE  \A u \in Tasks : task'[u].status = "TO_BE_RUN" => task[u].status = "TO_BE_RUN"
BY DEF SetTask, TypeOK, Row

\* The environment starts no submission.
LEMMA QuietEnvironment ==
    ASSUME TypeOK, Environment
    PROVE  Quiet
<1>1. ASSUME NEW t \in Tasks, Finish(t) PROVE Quiet
  BY <1>1 DEF Finish, Quiet
<1>2. ASSUME NEW t \in Tasks, Vanish(t) PROVE Quiet
  BY <1>2 DEF Vanish, Quiet
<1>3. ASSUME NEW t \in Tasks, Ripen(t) PROVE Quiet
  BY <1>3 DEF Ripen, Quiet
<1>4. ASSUME NEW t \in Tasks, Elapse(t) PROVE Quiet
  BY <1>4 DEF Elapse, TypeOK, Row, Quiet
<1> QED BY <1>1, <1>2, <1>3, <1>4 DEF Environment

\* Neither does a status loop: Kuscia never reports TO_BE_RUN.
LEMMA QuietStatusLoop ==
    ASSUME TypeOK, NEW i \in Instances, NEW l \in Loops, StatusLoop(i, l)
    PROVE  Quiet
<1>1. ASSUME List(i, l) PROVE Quiet
  BY <1>1 DEF List, Quiet
<1>2. ASSUME NEW t \in Tasks, Found(i, l, t) PROVE Quiet
  BY <1>2 DEF Found, Quiet
<1>3. ASSUME NEW t \in Tasks, NotFound(i, l, t) PROVE Quiet
  BY <1>3 DEF NotFound, Quiet
<1>4. ASSUME NEW t \in Tasks, QueryFails(i, l, t) PROVE Quiet
  BY <1>4 DEF QueryFails, Quiet
<1>5. ASSUME ReadJob(i, l) PROVE Quiet
  BY <1>5 DEF ReadJob, Quiet
<1>6. ASSUME WriteJob(i, l) PROVE Quiet
  BY <1>6 DEF WriteJob, Quiet
<1>7. ASSUME ReadTask(i, l) PROVE Quiet
  BY <1>7 DEF ReadTask, Quiet
<1>8. ASSUME WriteTask(i, l) PROVE Quiet
  <2>1. loop[i][l].st # "TO_BE_RUN"
    BY DEF TypeOK, Pass, JobStatus, Finished
  <2> QED BY <1>8, <2>1, SetTaskQuiet DEF WriteTask, Quiet
<1>9. ASSUME CheckVanished(i, l) PROVE Quiet
  BY <1>9 DEF CheckVanished, Quiet
<1>10. ASSUME MarkDeleted(i, l) PROVE Quiet
  BY <1>10, SetTaskQuiet DEF MarkDeleted, Quiet
<1> QED BY <1>1, <1>2, <1>3, <1>4, <1>5, <1>6, <1>7, <1>8, <1>9, <1>10 DEF StatusLoop

\* Nor does a request.
LEMMA QuietRequests ==
    ASSUME TypeOK, NEW i \in Instances, Incoming(i) \/ Serve(i)
    PROVE  Quiet
<1>1. ASSUME Incoming(i) PROVE Quiet
  BY <1>1 DEF Incoming, Offline, TaskStop, TaskRerun, Begin, Quiet
<1>2. ASSUME Cancel(i) PROVE Quiet
  <2>1. request[i].cur \in Tasks
    BY <1>2 DEF Cancel, TypeOK, Request
  <2>2. CASE task[request[i].cur].status = "TO_BE_RUN"
    <3>1. SetTask(request[i].cur, "STOPPED") /\ withdrawn' = withdrawn \cup {request[i].cur}
      BY <1>2, <2>2 DEF Cancel
    <3>2. task'[request[i].cur].status = "STOPPED"
      BY <2>1, <3>1 DEF SetTask, TypeOK, Row
    <3> QED BY <1>2, <2>1, <2>2, <3>1, <3>2, SetTaskQuiet DEF Cancel, Quiet
  <2>3. CASE task[request[i].cur].status # "TO_BE_RUN"
    BY <1>2, <2>3 DEF Cancel, Quiet
  <2> QED BY <2>2, <2>3
<1>3. ASSUME StopInKuscia(i) PROVE Quiet
  BY <1>3 DEF StopInKuscia, Quiet
<1>4. ASSUME MarkJobStopped(i) PROVE Quiet
  BY <1>4 DEF MarkJobStopped, Quiet
<1>5. ASSUME MarkTaskStopping(i) PROVE Quiet
  BY <1>5, SetTaskQuiet DEF MarkTaskStopping, Quiet
<1>6. ASSUME DeleteInKuscia(i) PROVE Quiet
  BY <1>6 DEF DeleteInKuscia, Quiet
<1>7. ASSUME RerunInKuscia(i) PROVE Quiet
  BY <1>7 DEF RerunInKuscia, Quiet
<1>8. ASSUME RerunTask(i) PROVE Quiet
  <2>1. \A u \in Tasks : task'[u].status = "TO_BE_RUN" => task[u].status = "TO_BE_RUN"
    BY <1>8 DEF RerunTask, TypeOK, Row
  <2> QED BY <1>8, <2>1 DEF RerunTask, Quiet
<1>9. ASSUME RerunJob(i) PROVE Quiet
  BY <1>9 DEF RerunJob, Quiet
<1>10. ASSUME MarkDown(i) PROVE Quiet
  BY <1>10 DEF MarkDown, Quiet
<1> QED BY <1>1, <1>2, <1>3, <1>4, <1>5, <1>6, <1>7, <1>8, <1>9, <1>10 DEF Serve

\* Nor do the other steps of a fire pass.
LEMMA QuietEngine ==
    ASSUME TypeOK, NEW i \in Instances, RunDue(i) \/ FailTask(i) \/ RecordJob(i) \/ Expire(i) \/ Crash(i)
    PROVE  Quiet
<1>1. ASSUME RunDue(i) PROVE Quiet
  BY <1>1 DEF RunDue, NoBatch, TypeOK, Quiet
<1>2. ASSUME FailTask(i) PROVE Quiet
  BY <1>2, SetTaskQuiet DEF FailTask, EngineTo, TypeOK, Engine, Quiet
<1>3. ASSUME RecordJob(i) PROVE Quiet
  BY <1>3 DEF RecordJob, TypeOK, Engine, Quiet
<1>4. ASSUME Expire(i) PROVE Quiet
  BY <1>4 DEF Expire, NoBatch, TypeOK, Quiet
<1>5. ASSUME Crash(i) PROVE Quiet
  BY <1>5 DEF Crash, NoBatch, TypeOK, Quiet
<1> QED BY <1>1, <1>2, <1>3, <1>4, <1>5

LEMMA QuietMisfire ==
    ASSUME TypeOK, NEW i \in Instances, NEW t \in Tasks, Misfire(i, t)
    PROVE  Quiet
<1>1. \A j \in Instances : engine'[j].pc = "submit" =>
        engine[j].pc = "submit" /\ engine'[j].cur = engine[j].cur
  <2>1. CASE task[t].status = "TO_BE_RUN"
    <3>1. engine' = [engine EXCEPT ![i] =
            [pc |-> "misfired", late |-> engine[i].late \ {t}, due |-> engine[i].due, cur |-> t]]
      BY <2>1 DEF Misfire
    <3> QED BY <3>1 DEF TypeOK
  <2>2. CASE task[t].status # "TO_BE_RUN"
    <3>1. engine' = [engine EXCEPT ![i] = [engine[i] EXCEPT !.late = engine[i].late \ {t}]]
      BY <2>2 DEF Misfire
    <3> QED BY <3>1 DEF TypeOK, Engine
  <2> QED BY <2>1, <2>2
<1>2. CASE task[t].status = "TO_BE_RUN"
  <2>1. SetTask(t, "FAILED") /\ withdrawn' = withdrawn \cup {t}
    BY <1>2 DEF Misfire
  <2>2. task'[t].status = "FAILED"
    BY <2>1 DEF SetTask, TypeOK, Row
  <2> QED BY <1>1, <1>2, <2>1, <2>2, SetTaskQuiet DEF Misfire, Quiet
<1>3. CASE task[t].status # "TO_BE_RUN"
  BY <1>1, <1>3 DEF Misfire, Quiet
<1> QED BY <1>2, <1>3

\* The new rows are waiting and have no past.
LEMMA ClaimCreate ==
    ASSUME TypeOK, ClaimInv, CreateScheduler
    PROVE  ClaimInv'
BY DEF CreateScheduler, ClaimInv, FiredOnce

\* The compare-and-set takes one waiting task from everyone else.
LEMMA ClaimClaim ==
    ASSUME TypeOK, ClaimInv, NEW i \in Instances, NEW t \in Tasks, Claim(i, t)
    PROVE  ClaimInv'
<1>1. CASE task[t].status # "TO_BE_RUN"
  <2>1. Quiet
    BY <1>1 DEF Claim, Quiet, TypeOK, Engine
  <2> QED BY <2>1, QuietKeeps, TypeFireLoop DEF FireLoop
<1>2. CASE task[t].status = "TO_BE_RUN"
  <2>1. /\ engine'[i].pc = "submit" /\ engine'[i].cur = t
        /\ \A j \in Instances : j # i => engine'[j] = engine[j]
    BY <1>2 DEF Claim, TypeOK
  <2>2. \A u \in Tasks :
          task'[u].status = IF u = t THEN "RUNNING" ELSE task[u].status
    <3>1. task' = [task EXCEPT ![t] =
            [task[t] EXCEPT !.status = "RUNNING", !.started = TRUE, !.elapsed = FALSE]]
      BY <1>2 DEF Claim
    <3>2. task'[t].status = "RUNNING"
      BY <3>1 DEF TypeOK, Row
    <3> QED BY <3>1, <3>2 DEF TypeOK
  <2>3. UNCHANGED <<sched, submitted, withdrawn>>
    BY DEF Claim
  <2>4. submitted[t] = 0 /\ t \notin withdrawn /\ sched # "NONE"
    BY <1>2 DEF ClaimInv
  <2>5. \A j \in Instances : engine[j].pc = "submit" => engine[j].cur \in Tasks \ {t}
    BY <1>2 DEF ClaimInv, TypeOK, Engine
  <2>6. FiredOnce'
    BY <2>3 DEF ClaimInv, FiredOnce
  <2>7. \A u \in Tasks : task'[u].status = "TO_BE_RUN" => submitted'[u] = 0 /\ u \notin withdrawn'
    BY <2>2, <2>3 DEF ClaimInv
  <2>8. ASSUME NEW j \in Instances, engine'[j].pc = "submit"
        PROVE  /\ task'[engine'[j].cur].status # "TO_BE_RUN"
               /\ submitted'[engine'[j].cur] = 0 /\ engine'[j].cur \notin withdrawn'
    BY <2>1, <2>2, <2>3, <2>4, <2>5, <2>8 DEF ClaimInv
  <2>9. ASSUME NEW j \in Instances, NEW k \in Instances, engine'[j].pc = "submit",
               engine'[k].pc = "submit", engine'[j].cur = engine'[k].cur
        PROVE  j = k
    BY <2>1, <2>5, <2>9 DEF ClaimInv
  <2> QED BY <2>3, <2>4, <2>6, <2>7, <2>8, <2>9 DEF ClaimInv
<1> QED BY <1>1, <1>2

\* The task submitted had never been, and no other instance is at it.
LEMMA ClaimSubmit ==
    ASSUME TypeOK, ClaimInv, NEW i \in Instances, Submit(i)
    PROVE  ClaimInv'
<1> DEFINE t == engine[i].cur
<1>1. t \in Tasks /\ engine[i].pc = "submit" /\ submitted[t] = 0 /\ t \notin withdrawn
      /\ task[t].status # "TO_BE_RUN" /\ sched # "NONE"
  BY DEF Submit, ClaimInv, TypeOK, Engine
<1>2. \A u \in Tasks : submitted'[u] = IF u = t THEN 1 ELSE submitted[u]
  BY <1>1 DEF Submit, TypeOK
<1>3. \A j \in Instances : engine'[j].pc = "submit" =>
        j # i /\ engine[j].pc = "submit" /\ engine'[j].cur = engine[j].cur
  BY DEF Submit, EngineTo, TypeOK, Engine
<1>4. UNCHANGED <<sched, task, withdrawn>>
  BY DEF Submit
<1>5. \A j \in Instances : engine[j].pc = "submit" /\ j # i => engine[j].cur \in Tasks \ {t}
  BY <1>1 DEF ClaimInv, TypeOK, Engine
<1>6. FiredOnce'
  BY <1>1, <1>2, <1>4 DEF ClaimInv, FiredOnce
<1>7. \A u \in Tasks : task'[u].status = "TO_BE_RUN" => submitted'[u] = 0 /\ u \notin withdrawn'
  BY <1>1, <1>2, <1>4 DEF ClaimInv
<1>8. ASSUME NEW j \in Instances, engine'[j].pc = "submit"
      PROVE  /\ task'[engine'[j].cur].status # "TO_BE_RUN"
             /\ submitted'[engine'[j].cur] = 0 /\ engine'[j].cur \notin withdrawn'
  BY <1>2, <1>3, <1>4, <1>5, <1>8 DEF ClaimInv
<1>9. ASSUME NEW j \in Instances, NEW k \in Instances, engine'[j].pc = "submit",
             engine'[k].pc = "submit", engine'[j].cur = engine'[k].cur
      PROVE  j = k
  BY <1>3, <1>9 DEF ClaimInv
<1> QED BY <1>1, <1>4, <1>6, <1>7, <1>8, <1>9 DEF ClaimInv

\* The first state has no past.
LEMMA ClaimInit == Init => ClaimInv
BY SchedulerAssumption DEF Init, NoRow, NoBatch, ClaimInv, FiredOnce

\* Every step keeps claims exclusive.
LEMMA ClaimStep == TypeOK /\ TypeOK' /\ ClaimInv /\ [Next]_vars => ClaimInv'
<1> SUFFICES ASSUME TypeOK, TypeOK', ClaimInv, [Next]_vars PROVE ClaimInv'
  OBVIOUS
<1>1. CASE UNCHANGED vars
  BY <1>1 DEF vars, ClaimInv, FiredOnce
<1>2. CASE CreateScheduler
  BY <1>2, ClaimCreate
<1>3. CASE Del
  <2>1. Quiet
    BY <1>3 DEF Del, Quiet
  <2> QED BY <2>1, QuietKeeps
<1>4. CASE Environment
  BY <1>4, QuietEnvironment, QuietKeeps
<1>5. ASSUME NEW i \in Instances, FireLoop(i) PROVE ClaimInv'
  BY <1>5, QuietEngine, QuietMisfire, QuietKeeps, ClaimClaim, ClaimSubmit DEF FireLoop
<1>6. ASSUME NEW i \in Instances, NEW l \in Loops, StatusLoop(i, l) PROVE ClaimInv'
  BY <1>6, QuietStatusLoop, QuietKeeps
<1>7. ASSUME NEW i \in Instances, Incoming(i) \/ Serve(i) PROVE ClaimInv'
  BY <1>7, QuietRequests, QuietKeeps
<1>8. ASSUME NEW i \in Instances, Expire(i) \/ Crash(i) PROVE ClaimInv'
  BY <1>8, QuietEngine, QuietKeeps
<1> QED BY <1>1, <1>2, <1>3, <1>4, <1>5, <1>6, <1>7, <1>8 DEF Next

\* fireTask's claim is "the multi-instance lock": with any number of instances
\* firing, crashing, rerunning and polling, the fire loops submit a task at most
\* once, and never one that was cancelled or marked misfired.
THEOREM SubmittedAtMostOnce == Spec => []FiredOnce
<1>1. ClaimInv => FiredOnce
  BY DEF ClaimInv
<1> QED BY TypeCorrect, TypeInit, ClaimInit, ClaimStep, <1>1, PTL DEF Spec

-----------------------------------------------------------------------------
(* What runs in Kuscia belongs to a fired row.  The row a submission is for   *)
(* must therefore stay fired until the submission has ended: no answer about  *)
(* the job can be on its way before the job exists, and the poller's verdict  *)
(* that it vanished waits for the grace period.  Afterwards a verdict that    *)
(* ends the row was read from a job that had ended, and such a job does not   *)
(* start again.                                                               *)

Reading   == {"read", "writejob", "readtask", "writetask"}
Rerunning == {"delete", "create", "restart", "rerun", "rerunning"}
Stopping  == {"stop", "stopped", "stopping"}

\* A row with a past was started, a waiting one was not; the job in Kuscia was
\* submitted, and if it runs its row is fired.
TaskAccounted(t) ==
    /\ kjob[t] = "RUNNING" => task[t].status \in Fired
    /\ kjob[t] # "NONE" => submitted[t] # 0
    /\ submitted[t] # 0 => task[t].started
    /\ task[t].status \in Fired => task[t].started
    /\ task[t].status = "TO_BE_RUN" => ~task[t].started

\* The row being submitted is fired and in its grace period; one whose
\* submission failed has no job that runs.
EngineAccounted(i) ==
    LET e == engine[i] IN
    /\ e.pc = "submit" => task[e.cur].status \in Fired /\ ~task[e.cur].elapsed
    /\ e.pc = "failing" => submitted[e.cur] # 0 /\ kjob[e.cur] # "RUNNING"

\* An answer that ends a job, or says it is gone, stays true.
LoopAccounted(i, l) ==
    LET p == loop[i][l] IN
    /\ p.pc \in Reading => submitted[p.cur] # 0 /\ (p.st # "RUNNING" => kjob[p.cur] # "RUNNING")
    /\ p.pc = "vanished" /\ task[p.cur].elapsed => kjob[p.cur] # "RUNNING"
    /\ p.pc = "delete" => task[p.cur].elapsed /\ kjob[p.cur] # "RUNNING"

\* Only tasks that were started are stopped.
RequestAccounted(i) ==
    LET r == request[i] IN
    /\ r.pc \notin Rerunning
    /\ r.pc \in Stopping => task[r.cur].started

Accounted ==
    /\ \A t \in Tasks : TaskAccounted(t)
    /\ \A i \in Instances : EngineAccounted(i)
    /\ \A i \in Instances, l \in Loops : LoopAccounted(i, l)
    /\ \A i \in Instances : RequestAccounted(i)
    /\ sched = "NONE" => \A t \in Tasks : ~task[t].started

AccountInv == faults.lost + faults.rerun = 0 => Accounted

\* A step that starts no task and no job: rows keep their marks and leave Fired
\* only when their job cannot run, and what an instance holds it held before or
\* has just read.
MildTask(t) ==
    /\ submitted'[t] = submitted[t]
    /\ kjob'[t] = "RUNNING" => kjob[t] = "RUNNING"
    /\ kjob'[t] # "NONE" => kjob[t] # "NONE"
    /\ task'[t].started = task[t].started /\ task'[t].elapsed = task[t].elapsed
    /\ task'[t].status = "TO_BE_RUN" => task[t].status = "TO_BE_RUN"
    /\ task'[t].status \in Fired => task[t].started
    /\ task[t].status \in Fired /\ task'[t].status \notin Fired =>
         /\ kjob[t] # "RUNNING"
         /\ \A i \in Instances : engine[i].pc = "submit" => engine[i].cur # t

MildEngine(i) ==
    engine'[i].pc \in {"submit", "failing"} =>
        engine'[i].pc = engine[i].pc /\ engine'[i].cur = engine[i].cur

MildLoop(i, l) ==
    LET p == loop[i][l]
        q == loop'[i][l]
    IN
    /\ q.pc \in Reading =>
         \/ p.pc \in Reading /\ q.cur = p.cur /\ q.st = p.st
         \/ q.cur \in Tasks /\ kjob[q.cur] # "NONE" /\ q.st = kjob[q.cur]
    /\ q.pc = "vanished" =>
         \/ p.pc = "vanished" /\ q.cur = p.cur
         \/ q.cur \in Tasks /\ kjob[q.cur] = "NONE"
    /\ q.pc = "delete" =>
         \/ p.pc = "delete" /\ q.cur = p.cur
         \/ p.pc = "vanished" /\ q.cur = p.cur /\ Deletable(q.cur)

MildRequest(i) ==
    LET q == request'[i] IN
    /\ q.pc \notin Rerunning
    /\ q.pc \in Stopping =>
         /\ q.cur \in Tasks
         /\ \/ request[i].pc \in Stopping /\ q.cur = request[i].cur
            \/ task[q.cur].status = "RUNNING"

Mild ==
    /\ sched' = "NONE" => sched = "NONE"
    /\ \A t \in Tasks : MildTask(t)
    /\ \A i \in Instances : MildEngine(i)
    /\ \A i \in Instances, l \in Loops : MildLoop(i, l)
    /\ \A i \in Instances : MildRequest(i)

LEMMA MildKeeps ==
    ASSUME TypeOK, TypeOK', Accounted, Mild
    PROVE  Accounted'
<1>1. ASSUME NEW t \in Tasks PROVE TaskAccounted(t)'
  BY DEF Accounted, TaskAccounted, Mild, MildTask
<1>2. ASSUME NEW i \in Instances PROVE EngineAccounted(i)'
  <2>1. engine'[i].pc \in {"submit", "failing"} => engine'[i].cur \in Tasks
    BY DEF TypeOK, Engine
  <2>2. EngineAccounted(i) /\ MildEngine(i)
    BY DEF Accounted, Mild
  <2>3. ASSUME engine'[i].pc \in {"submit", "failing"} PROVE MildTask(engine'[i].cur)
    BY <2>1, <2>3 DEF Mild
  <2> QED BY <2>1, <2>2, <2>3 DEF EngineAccounted, MildEngine, MildTask
<1>3. ASSUME NEW i \in Instances, NEW l \in Loops PROVE LoopAccounted(i, l)'
  <2> DEFINE q == loop'[i][l]
  <2>1. LoopAccounted(i, l) /\ MildLoop(i, l)
    BY DEF Accounted, Mild
  <2>2. q.pc # "idle" => q.cur \in Tasks
    BY DEF TypeOK, Pass
  <2>3. q.cur \in Tasks => MildTask(q.cur) /\ TaskAccounted(q.cur)
    BY DEF Accounted, Mild
  <2>4. ASSUME q.pc \in Reading
        PROVE  submitted'[q.cur] # 0 /\ (q.st # "RUNNING" => kjob'[q.cur] # "RUNNING")
    BY <2>1, <2>2, <2>3, <2>4 DEF LoopAccounted, MildLoop, MildTask, TaskAccounted, Reading
  <2>5. ASSUME q.pc = "vanished", task'[q.cur].elapsed PROVE kjob'[q.cur] # "RUNNING"
    BY <2>1, <2>2, <2>3, <2>5 DEF LoopAccounted, MildLoop, MildTask
  <2>6. ASSUME q.pc = "delete" PROVE task'[q.cur].elapsed /\ kjob'[q.cur] # "RUNNING"
    BY <2>1, <2>2, <2>3, <2>6 DEF LoopAccounted, MildLoop, MildTask, TaskAccounted, Deletable
  <2> QED BY <2>4, <2>5, <2>6 DEF LoopAccounted
<1>4. ASSUME NEW i \in Instances PROVE RequestAccounted(i)'
  <2>1. RequestAccounted(i) /\ MildRequest(i)
    BY DEF Accounted, Mild
  <2>2. request'[i].cur \in Tasks => MildTask(request'[i].cur) /\ TaskAccounted(request'[i].cur)
    BY DEF Accounted, Mild
  <2> QED BY <2>1, <2>2 DEF RequestAccounted, MildRequest, MildTask, TaskAccounted, Fired
<1>5. ASSUME sched' = "NONE", NEW t \in Tasks PROVE ~task'[t].started
  BY <1>5 DEF Accounted, Mild, MildTask
<1> QED BY <1>1, <1>2, <1>3, <1>4, <1>5 DEF Accounted

\* Nothing is forgotten of the faults.
LEMMA FaultsAddUp ==
    ASSUME TypeOK, [Next]_vars, faults'.lost + faults'.rerun = 0
    PROVE  faults.lost + faults.rerun = 0 /\ faults'.lost = faults.lost /\ faults'.rerun = faults.rerun
<1>0. /\ faults.lost \in Nat /\ faults.rerun \in Nat
      /\ faults \in [Fault -> Nat]
  BY DEF TypeOK, Fault
<1>1. \/ UNCHANGED faults
      \/ \E f \in Fault : Count(f)
  <2>1. ASSUME NEW t, NEW ready, NEW res, NEW ok, Call(t, ready, res, ok)
        PROVE  UNCHANGED faults \/ \E f \in Fault : Count(f)
    BY <2>1 DEF Call, Fault
  <2>2. CASE UNCHANGED vars
    BY <2>2 DEF vars
  <2>3. CASE CreateScheduler \/ Del
    BY <2>3 DEF CreateScheduler, Del
  <2>4. CASE Environment
    BY <2>4 DEF Environment, Finish, Vanish, Ripen, Elapse, Fault
  <2>5. ASSUME NEW i \in Instances, FireLoop(i) PROVE UNCHANGED faults \/ \E f \in Fault : Count(f)
    BY <2>1, <2>5 DEF FireLoop, RunDue, Submit, CreateJob, FailTask, RecordJob, Misfire, Claim
  <2>6. ASSUME NEW i \in Instances, NEW l \in Loops, StatusLoop(i, l)
        PROVE  UNCHANGED faults \/ \E f \in Fault : Count(f)
    BY <2>6 DEF StatusLoop, List, Found, NotFound, QueryFails, ReadJob, WriteJob, ReadTask,
       WriteTask, CheckVanished, MarkDeleted, Fault
  <2>7. ASSUME NEW i \in Instances, Incoming(i) PROVE UNCHANGED faults \/ \E f \in Fault : Count(f)
    BY <2>7 DEF Incoming, Offline, TaskStop, TaskRerun, Begin, Fault
  <2>8. ASSUME NEW i \in Instances, Serve(i) PROVE UNCHANGED faults \/ \E f \in Fault : Count(f)
    BY <2>1, <2>8 DEF Serve, Cancel, StopInKuscia, StopJob, MarkJobStopped, MarkTaskStopping,
       DeleteInKuscia, DeleteJob, RerunInKuscia, CreateJob, RestartJob, RerunTask, RerunJob, MarkDown
  <2>9. ASSUME NEW i \in Instances, Expire(i) \/ Crash(i) PROVE UNCHANGED faults \/ \E f \in Fault : Count(f)
    BY <2>9 DEF Expire, Crash, Fault
  <2> QED BY <2>2, <2>3, <2>4, <2>5, <2>6, <2>7, <2>8, <2>9 DEF Next
<1>2. ASSUME NEW f \in Fault, Count(f), f \in {"lost", "rerun"} PROVE FALSE
  <2>1. faults' = [faults EXCEPT ![f] = faults[f] + 1]
    BY <1>2 DEF Count
  <2>2. faults'.lost \in Nat /\ faults'.rerun \in Nat /\ faults'[f] = faults[f] + 1 /\ faults[f] \in Nat
    BY <1>0, <1>2, <2>1 DEF Fault
  <2> QED BY <1>2, <2>2
<1>3. ASSUME NEW f \in Fault, Count(f), f \notin {"lost", "rerun"}
      PROVE  faults'.lost = faults.lost /\ faults'.rerun = faults.rerun
  BY <1>0, <1>3 DEF Count, Fault
<1> QED BY <1>1, <1>2, <1>3

\* A row, a job, a pass or a request a step leaves alone is mild.
LEMMA MildSame ==
    ASSUME TypeOK, Accounted
    PROVE  /\ \A t \in Tasks :
                task'[t] = task[t] /\ kjob'[t] = kjob[t] /\ submitted'[t] = submitted[t] => MildTask(t)
           /\ \A i \in Instances : engine'[i] = engine[i] => MildEngine(i)
           /\ \A i \in Instances, l \in Loops : loop'[i][l] = loop[i][l] => MildLoop(i, l)
           /\ \A i \in Instances : request'[i] = request[i] => MildRequest(i)
<1>1. ASSUME NEW t \in Tasks, task'[t] = task[t], kjob'[t] = kjob[t], submitted'[t] = submitted[t]
      PROVE  MildTask(t)
  BY <1>1 DEF Accounted, TaskAccounted, MildTask
<1>2. ASSUME NEW i \in Instances, engine'[i] = engine[i] PROVE MildEngine(i)
  BY <1>2 DEF MildEngine
<1>3. ASSUME NEW i \in Instances, NEW l \in Loops, loop'[i][l] = loop[i][l] PROVE MildLoop(i, l)
  BY <1>3 DEF MildLoop
<1>4. ASSUME NEW i \in Instances, request'[i] = request[i] PROVE MildRequest(i)
  <2>1. RequestAccounted(i)
    BY DEF Accounted
  <2> QED BY <1>4, <2>1 DEF RequestAccounted, MildRequest, TypeOK, Request, Stopping
<1> QED BY <1>1, <1>2, <1>3, <1>4

\* A step that writes one status into a row.
LEMMA MildSetTask ==
    ASSUME TypeOK, Accounted, NEW t \in Tasks, NEW s, SetTask(t, s), s # "TO_BE_RUN",
           UNCHANGED <<kjob, submitted>>,
           s \in Fired => task[t].started,
           task[t].status \in Fired /\ s \notin Fired =>
             /\ kjob[t] # "RUNNING"
             /\ \A i \in Instances : engine[i].pc = "submit" => engine[i].cur # t
    PROVE  \A u \in Tasks : MildTask(u)
<1>1. \A u \in Tasks \ {t} : task'[u] = task[u]
  BY DEF SetTask, TypeOK
<1>2. task'[t].status = s /\ task'[t].started = task[t].started /\ task'[t].elapsed = task[t].elapsed
  BY DEF SetTask, TypeOK, Row
<1>3. MildTask(t)
  BY <1>2 DEF MildTask
<1> QED BY <1>1, <1>3, MildSame

LEMMA MildEnvironment ==
    ASSUME TypeOK, Accounted, NEW t \in Tasks, Finish(t) \/ Vanish(t) \/ Ripen(t)
    PROVE  Mild
<1>1. UNCHANGED <<sched, task, engine, loop, request, submitted>>
  BY DEF Finish, Vanish, Ripen
<1>2. \A u \in Tasks : MildTask(u)
  <2>1. kjob'[t] = "RUNNING" => kjob[t] = "RUNNING"
    BY DEF Finish, Vanish, Ripen, TypeOK
  <2>2. kjob'[t] # "NONE" => kjob[t] # "NONE"
    BY DEF Finish, Vanish, Ripen, TypeOK
  <2>3. \A u \in Tasks \ {t} : kjob'[u] = kjob[u]
    BY DEF Finish, Vanish, Ripen, TypeOK
  <2>4. MildTask(t)
    BY <1>1, <2>1, <2>2 DEF MildTask, Accounted, TaskAccounted
  <2> QED BY <1>1, <2>3, <2>4, MildSame
<1> QED BY <1>1, <1>2, MildSame DEF Mild

\* The grace period does not end while the row is being submitted or the
\* poller is about to check it.
LEMMA AccountElapse ==
    ASSUME TypeOK, TypeOK', Accounted, NEW t \in Tasks, Elapse(t)
    PROVE  Accounted'
<1>1. UNCHANGED <<sched, kjob, engine, loop, request, submitted>>
  BY DEF Elapse
<1>2. \A u \in Tasks :
        /\ task'[u].status = task[u].status /\ task'[u].started = task[u].started
        /\ task[u].elapsed => task'[u].elapsed
        /\ task'[u].elapsed => task[u].elapsed \/ u = t
  <2>1. task' = [task EXCEPT ![t] = [task[t] EXCEPT !.elapsed = TRUE]]
    BY DEF Elapse
  <2>2. \A u \in Tasks \ {t} : task'[u] = task[u]
    BY <2>1 DEF TypeOK
  <2>3. task'[t].status = task[t].status /\ task'[t].started = task[t].started /\ task'[t].elapsed
    BY <2>1 DEF TypeOK, Row
  <2> QED BY <2>2, <2>3
<1>3. \A i \in Instances : engine[i].cur # t
  BY DEF Elapse
<1>4. \A i \in Instances, l \in Loops : ~(loop[i][l].pc = "vanished" /\ loop[i][l].cur = t)
  BY DEF Elapse
<1>5. ASSUME NEW u \in Tasks PROVE TaskAccounted(u)'
  BY <1>1, <1>2 DEF Accounted, TaskAccounted
<1>6. ASSUME NEW i \in Instances PROVE EngineAccounted(i)'
  <2>1. engine[i].pc \in {"submit", "failing"} => engine[i].cur \in Tasks
    BY DEF TypeOK, Engine
  <2>2. EngineAccounted(i)
    BY DEF Accounted
  <2> QED BY <1>1, <1>2, <1>3, <2>1, <2>2 DEF EngineAccounted
<1>7. ASSUME NEW i \in Instances, NEW l \in Loops PROVE LoopAccounted(i, l)'
  <2>1. loop[i][l].pc # "idle" => loop[i][l].cur \in Tasks
    BY DEF TypeOK, Pass
  <2>2. LoopAccounted(i, l)
    BY DEF Accounted
  <2> QED BY <1>1, <1>2, <1>4, <2>1, <2>2 DEF LoopAccounted
<1>8. ASSUME NEW i \in Instances PROVE RequestAccounted(i)'
  <2>1. request[i].pc \in Stopping => request[i].cur \in Tasks
    BY DEF TypeOK, Request, Stopping
  <2>2. RequestAccounted(i)
    BY DEF Accounted
  <2> QED BY <1>1, <1>2, <2>1, <2>2 DEF RequestAccounted
<1> QED BY <1>1, <1>2, <1>5, <1>6, <1>7, <1>8 DEF Accounted

\* No instance is at work on the new rows.
LEMMA AccountCreate ==
    ASSUME TypeOK, TypeOK', ClaimInv, Accounted, CreateScheduler
    PROVE  Accounted'
<1>1. UNCHANGED <<kjob, engine, loop, request, submitted>> /\ sched' = "UP"
  BY DEF CreateScheduler
<1>2. \A u \in Tasks :
        /\ task'[u].status = "TO_BE_RUN" /\ ~task'[u].started /\ ~task'[u].elapsed
        /\ ~task[u].started /\ ~task[u].elapsed /\ submitted[u] = 0
  BY DEF CreateScheduler, NoRow, Accounted, ClaimInv, TypeOK, Row
<1>5. ASSUME NEW u \in Tasks PROVE TaskAccounted(u)'
  BY <1>1, <1>2 DEF Accounted, TaskAccounted, Fired
<1>6. ASSUME NEW i \in Instances PROVE EngineAccounted(i)'
  <2>1. engine[i].pc \in {"submit", "failing"} => engine[i].cur \in Tasks
    BY DEF TypeOK, Engine
  <2>2. EngineAccounted(i) /\ (engine[i].cur \in Tasks => TaskAccounted(engine[i].cur))
    BY DEF Accounted
  <2> QED BY <1>1, <1>2, <2>1, <2>2 DEF EngineAccounted, TaskAccounted
<1>7. ASSUME NEW i \in Instances, NEW l \in Loops PROVE LoopAccounted(i, l)'
  <2>1. loop[i][l].pc # "idle" => loop[i][l].cur \in Tasks
    BY DEF TypeOK, Pass
  <2>2. LoopAccounted(i, l)
    BY DEF Accounted
  <2> QED BY <1>1, <1>2, <2>1, <2>2 DEF LoopAccounted, Reading
<1>8. ASSUME NEW i \in Instances PROVE RequestAccounted(i)'
  <2>1. request[i].pc \in Stopping => request[i].cur \in Tasks
    BY DEF TypeOK, Request, Stopping
  <2>2. RequestAccounted(i)
    BY DEF Accounted
  <2> QED BY <1>1, <1>2, <2>1, <2>2 DEF RequestAccounted
<1> QED BY <1>1, <1>5, <1>6, <1>7, <1>8 DEF Accounted

\* The claimed row is fired before anything of it reaches Kuscia.
LEMMA AccountClaim ==
    ASSUME TypeOK, TypeOK', ClaimInv, Accounted, NEW i \in Instances, NEW t \in Tasks,
           Claim(i, t), task[t].status = "TO_BE_RUN"
    PROVE  Accounted'
<1>1. UNCHANGED <<sched, kjob, loop, request, submitted>>
  BY DEF Claim
<1>2. /\ task'[t].status = "RUNNING" /\ task'[t].started /\ ~task'[t].elapsed
      /\ \A u \in Tasks \ {t} : task'[u] = task[u]
  <2>1. task' = [task EXCEPT ![t] =
          [task[t] EXCEPT !.status = "RUNNING", !.started = TRUE, !.elapsed = FALSE]]
    BY DEF Claim
  <2> QED BY <2>1 DEF TypeOK, Row
<1>3. /\ engine'[i].pc = "submit" /\ engine'[i].cur = t
      /\ \A j \in Instances \ {i} : engine'[j] = engine[j]
  BY DEF Claim, TypeOK
<1>4. ~task[t].started /\ ~task[t].elapsed /\ kjob[t] = "NONE" /\ submitted[t] = 0 /\ sched # "NONE"
  BY DEF Accounted, TaskAccounted, ClaimInv, TypeOK, Row
<1>5. ASSUME NEW u \in Tasks PROVE TaskAccounted(u)'
  BY <1>1, <1>2, <1>4 DEF Accounted, TaskAccounted, Fired
<1>6. ASSUME NEW j \in Instances PROVE EngineAccounted(j)'
  <2>1. engine[j].pc \in {"submit", "failing"} => engine[j].cur \in Tasks
    BY DEF TypeOK, Engine
  <2>2. EngineAccounted(j)
    BY DEF Accounted
  <2>3. CASE j = i
    BY <1>2, <1>3, <2>3 DEF EngineAccounted, Fired
  <2>4. CASE j # i
    BY <1>1, <1>2, <1>3, <1>4, <2>1, <2>2, <2>4 DEF EngineAccounted, Fired
  <2> QED BY <2>3, <2>4
<1>7. ASSUME NEW j \in Instances, NEW l \in Loops PROVE LoopAccounted(j, l)'
  <2>1. loop[j][l].pc # "idle" => loop[j][l].cur \in Tasks
    BY DEF TypeOK, Pass
  <2>2. LoopAccounted(j, l)
    BY DEF Accounted
  <2> QED BY <1>1, <1>2, <1>4, <2>1, <2>2 DEF LoopAccounted
<1>8. ASSUME NEW j \in Instances PROVE RequestAccounted(j)'
  <2>1. request[j].pc \in Stopping => request[j].cur \in Tasks
    BY DEF TypeOK, Request, Stopping
  <2>2. RequestAccounted(j)
    BY DEF Accounted
  <2> QED BY <1>1, <1>2, <2>1, <2>2 DEF RequestAccounted
<1> QED BY <1>1, <1>4, <1>5, <1>6, <1>7, <1>8 DEF Accounted

\* The job appears while its row is fired, and nobody has asked about it yet.
LEMMA AccountSubmit ==
    ASSUME TypeOK, TypeOK', ClaimInv, Accounted, NEW i \in Instances, Submit(i),
           faults'.lost = faults.lost
    PROVE  Accounted'
<1> DEFINE t == engine[i].cur
<1>1. UNCHANGED <<sched, task, loop, request>> /\ engine[i].pc = "submit"
  BY DEF Submit
<1>2. t \in Tasks /\ EngineAccounted(i) /\ TaskAccounted(t)
  BY <1>1 DEF Accounted, TypeOK, Engine
<1>3. /\ task[t].status \in Fired /\ task[t].started /\ ~task[t].elapsed
      /\ submitted[t] = 0 /\ kjob[t] = "NONE" /\ sched # "NONE"
  BY <1>1, <1>2 DEF EngineAccounted, TaskAccounted, ClaimInv
<1>4. submitted'[t] = 1 /\ \A u \in Tasks \ {t} : submitted'[u] = submitted[u]
  BY <1>2, <1>3 DEF Submit, TypeOK
<1>5. \A j \in Instances \ {i} : engine'[j] = engine[j]
  BY DEF Submit, EngineTo, TypeOK
<1>6. PICK ok \in BOOLEAN : CreateJob(t, ok) /\ EngineTo(i, IF ok THEN "created" ELSE "failing")
  BY DEF Submit
<1>7. engine'[i].cur = t /\ engine'[i].pc = IF ok THEN "created" ELSE "failing"
  BY <1>6 DEF EngineTo, TypeOK, Engine
<1>8. ~Count("lost")
  BY DEF Count, TypeOK, Fault
<1>9. \A u \in Tasks \ {t} : kjob'[u] = kjob[u]
  BY <1>6 DEF CreateJob, Call, TypeOK
<1>10. ~ok => kjob'[t] = "NONE"
  BY <1>3, <1>6, <1>8 DEF CreateJob, Call
<1>11. ASSUME NEW u \in Tasks PROVE TaskAccounted(u)'
  BY <1>1, <1>3, <1>4, <1>9 DEF Accounted, TaskAccounted
<1>12. ASSUME NEW j \in Instances PROVE EngineAccounted(j)'
  <2>1. engine[j].pc \in {"submit", "failing"} => engine[j].cur \in Tasks
    BY DEF TypeOK, Engine
  <2>2. EngineAccounted(j)
    BY DEF Accounted
  <2>3. CASE j = i
    BY <1>4, <1>7, <1>10, <2>3 DEF EngineAccounted
  <2>4. CASE j # i
    BY <1>1, <1>3, <1>4, <1>5, <1>9, <2>1, <2>2, <2>4 DEF EngineAccounted
  <2> QED BY <2>3, <2>4
<1>13. ASSUME NEW j \in Instances, NEW l \in Loops PROVE LoopAccounted(j, l)'
  <2>1. loop[j][l].pc # "idle" => loop[j][l].cur \in Tasks
    BY DEF TypeOK, Pass
  <2>2. LoopAccounted(j, l)
    BY DEF Accounted
  <2> QED BY <1>1, <1>3, <1>4, <1>9, <2>1, <2>2 DEF LoopAccounted, Reading
<1>14. ASSUME NEW j \in Instances PROVE RequestAccounted(j)'
  <2>1. RequestAccounted(j)
    BY DEF Accounted
  <2> QED BY <1>1, <2>1 DEF RequestAccounted
<1> QED BY <1>1, <1>3, <1>11, <1>12, <1>13, <1>14 DEF Accounted

\* No row is being submitted that has been submitted or is past its grace period.
LEMMA NotBeingSubmitted ==
    ASSUME TypeOK, ClaimInv, Accounted, NEW t \in Tasks, submitted[t] # 0 \/ task[t].elapsed
    PROVE  \A i \in Instances : engine[i].pc = "submit" => engine[i].cur # t
BY DEF ClaimInv, Accounted, EngineAccounted

\* The rest of a fire pass.
LEMMA MildEngines ==
    ASSUME TypeOK, ClaimInv, Accounted, NEW i \in Instances,
           \/ RunDue(i) \/ FailTask(i) \/ RecordJob(i) \/ Expire(i)
           \/ \E t \in Tasks : \/ Misfire(i, t)
                               \/ Claim(i, t) /\ task[t].status # "TO_BE_RUN"
    PROVE  Mild
<1>1. UNCHANGED <<sched, kjob, loop, request, submitted>>
  BY DEF RunDue, FailTask, RecordJob, Expire, Misfire, Claim
<1>2. \A j \in Instances : MildEngine(j)
  <2>1. \A j \in Instances \ {i} : engine'[j] = engine[j]
    BY DEF RunDue, FailTask, EngineTo, RecordJob, Expire, Misfire, Claim, TypeOK
  <2>2. engine'[i].pc \in {"submit", "failing"} => engine'[i].pc = engine[i].pc /\ engine'[i].cur = engine[i].cur
    <3>0. engine[i] \in Engine
      BY DEF TypeOK
    <3>1. CASE RunDue(i)
      <4>1. PICK late, due : engine' = [engine EXCEPT ![i] = [NoBatch EXCEPT !.late = late, !.due = due]]
        BY <3>1 DEF RunDue
      <4>2. engine'[i].pc = "loop"
        BY <4>1 DEF NoBatch, TypeOK
      <4> QED BY <4>2
    <3>2. CASE FailTask(i)
      BY <3>0, <3>2 DEF FailTask, EngineTo, TypeOK, Engine
    <3>3. CASE RecordJob(i)
      BY <3>0, <3>3 DEF RecordJob, TypeOK, Engine
    <3>4. CASE Expire(i)
      BY <3>4 DEF Expire, NoBatch, TypeOK
    <3>5. ASSUME NEW t \in Tasks, Misfire(i, t) PROVE engine'[i].pc \notin {"submit", "failing"}
      <4>1. CASE task[t].status = "TO_BE_RUN"
        <5>1. engine' = [engine EXCEPT ![i] =
                [pc |-> "misfired", late |-> engine[i].late \ {t}, due |-> engine[i].due, cur |-> t]]
          BY <3>5, <4>1 DEF Misfire
        <5> QED BY <5>1 DEF TypeOK
      <4>2. CASE task[t].status # "TO_BE_RUN"
        <5>1. engine' = [engine EXCEPT ![i] = [engine[i] EXCEPT !.late = engine[i].late \ {t}]]
          BY <3>5, <4>2 DEF Misfire
        <5>2. engine[i].pc = "loop"
          BY <3>5 DEF Misfire
        <5> QED BY <3>0, <5>1, <5>2 DEF TypeOK, Engine
      <4> QED BY <4>1, <4>2
    <3>6. ASSUME NEW t \in Tasks, Claim(i, t), task[t].status # "TO_BE_RUN"
          PROVE  engine'[i].pc \notin {"submit", "failing"}
      <4>1. engine' = [engine EXCEPT ![i] = [engine[i] EXCEPT !.due = engine[i].due \ {t}]]
        BY <3>6 DEF Claim
      <4>2. engine[i].pc = "loop"
        BY <3>6 DEF Claim
      <4> QED BY <3>0, <4>1, <4>2 DEF TypeOK, Engine
    <3> QED BY <3>1, <3>2, <3>3, <3>4, <3>5, <3>6
  <2> QED BY <2>1, <2>2, MildSame DEF MildEngine
<1>3. \A u \in Tasks : MildTask(u)
  <2>1. CASE UNCHANGED task
    BY <1>1, <2>1, MildSame
  <2>2. CASE FailTask(i)
    <3>1. engine[i].cur \in Tasks /\ engine[i].pc = "failing"
      BY <2>2 DEF FailTask, TypeOK, Engine
    <3>2. submitted[engine[i].cur] # 0 /\ kjob[engine[i].cur] # "RUNNING"
      BY <3>1 DEF Accounted, EngineAccounted
    <3> QED BY <1>1, <2>2, <3>1, <3>2, MildSetTask, NotBeingSubmitted DEF FailTask, Fired
  <2>3. ASSUME NEW t \in Tasks, Misfire(i, t), task[t].status = "TO_BE_RUN" PROVE \A u \in Tasks : MildTask(u)
    BY <1>1, <2>3, MildSetTask DEF Misfire, Fired
  <2> QED BY <2>1, <2>2, <2>3 DEF RunDue, RecordJob, Expire, Misfire, Claim
<1> QED BY <1>1, <1>2, <1>3, MildSame DEF Mild

\* A pass of a status loop.
LEMMA MildLoops ==
    ASSUME TypeOK, ClaimInv, Accounted, NEW i \in Instances, NEW l \in Loops, StatusLoop(i, l)
    PROVE  Mild
<1> DEFINE p == loop[i][l]
           q == loop'[i][l]
<1>1. UNCHANGED <<sched, kjob, engine, request, submitted>>
  BY DEF StatusLoop, List, Found, NotFound, QueryFails, ReadJob, WriteJob, ReadTask, WriteTask,
     CheckVanished, MarkDeleted
<1>2. p \in Pass
  BY DEF TypeOK
<1>3. \A j \in Instances, m \in Loops : <<j, m>> # <<i, l>> => loop'[j][m] = loop[j][m]
  <2>1. ASSUME NEW pc, PassTo(i, l, pc)
        PROVE  \A j \in Instances, m \in Loops : <<j, m>> # <<i, l>> => loop'[j][m] = loop[j][m]
    BY <2>1 DEF PassTo, TypeOK
  <2>2. ASSUME EndPass(i, l)
        PROVE  \A j \in Instances, m \in Loops : <<j, m>> # <<i, l>> => loop'[j][m] = loop[j][m]
    BY <2>2 DEF EndPass, TypeOK
  <2>3. CASE List(i, l)
    BY <2>3 DEF List, TypeOK
  <2>4. ASSUME NEW t \in Tasks, Found(i, l, t) \/ QueryFails(i, l, t)
        PROVE  \A j \in Instances, m \in Loops : <<j, m>> # <<i, l>> => loop'[j][m] = loop[j][m]
    BY <2>4 DEF Found, QueryFails, TypeOK
  <2>5. ASSUME NEW t \in Tasks, NotFound(i, l, t)
        PROVE  \A j \in Instances, m \in Loops : <<j, m>> # <<i, l>> => loop'[j][m] = loop[j][m]
    <3>1. \E r : loop' = [loop EXCEPT ![i][l] = r]
      BY <2>5 DEF NotFound
    <3> QED BY <3>1 DEF TypeOK
  <2> QED BY <2>1, <2>2, <2>3, <2>4, <2>5 DEF StatusLoop, ReadJob, WriteJob, ReadTask, WriteTask,
         CheckVanished, MarkDeleted
<1>4. MildLoop(i, l)
  <2>0. ASSUME NEW pc, PassTo(i, l, pc)
        PROVE  q.cur = p.cur /\ q.st = p.st /\ q.pc = pc
    <3>1. loop' = [loop EXCEPT ![i][l] = [loop[i][l] EXCEPT !.pc = pc]]
      BY <2>0 DEF PassTo
    <3> QED BY <1>2, <3>1 DEF TypeOK, Pass
  <2>1. ASSUME NEW pc \in Reading, PassTo(i, l, pc), p.pc \in Reading
        PROVE  MildLoop(i, l)
    <3>1. q.cur = p.cur /\ q.st = p.st /\ q.pc \in Reading
      BY <2>0, <2>1
    <3> QED BY <2>1, <3>1 DEF MildLoop, Reading
  <2>2. ASSUME EndPass(i, l) PROVE MildLoop(i, l)
    <3>1. q.pc = "idle"
      BY <2>2 DEF EndPass, NoPass, TypeOK
    <3> QED BY <3>1 DEF MildLoop, Reading
  <2>3. ASSUME NEW S, loop' = [loop EXCEPT ![i][l] = [loop[i][l] EXCEPT !.todo = S]] PROVE MildLoop(i, l)
    <3>1. q.cur = p.cur /\ q.st = p.st /\ q.pc = p.pc
      BY <1>2, <2>3 DEF TypeOK, Pass
    <3> QED BY <3>1 DEF MildLoop
  <2>4. CASE List(i, l)
    <3>1. loop' = [loop EXCEPT ![i][l] = [loop[i][l] EXCEPT !.todo = Candidates(l)]]
      BY <2>4 DEF List
    <3> QED BY <2>3, <3>1
  <2>5. ASSUME NEW t \in Tasks, Found(i, l, t) PROVE MildLoop(i, l)
    <3>1. q.cur = t /\ q.st = kjob[t] /\ q.pc = "read" /\ kjob[t] # "NONE"
      BY <2>5 DEF Found, TypeOK
    <3> QED BY <3>1 DEF MildLoop
  <2>6. ASSUME NEW t \in Tasks, NotFound(i, l, t) PROVE MildLoop(i, l)
    <3>1. \/ loop' = [loop EXCEPT ![i][l] = [loop[i][l] EXCEPT !.todo = loop[i][l].todo \ {t}]]
          \/ loop' = [loop EXCEPT ![i][l] = [[loop[i][l] EXCEPT !.todo = loop[i][l].todo \ {t}]
               EXCEPT !.pc = "vanished", !.cur = t]]
      BY <2>6 DEF NotFound
    <3>2. CASE loop' = [loop EXCEPT ![i][l] = [loop[i][l] EXCEPT !.todo = loop[i][l].todo \ {t}]]
      BY <2>3, <3>2
    <3>3. CASE loop' = [loop EXCEPT ![i][l] = [[loop[i][l] EXCEPT !.todo = loop[i][l].todo \ {t}]
               EXCEPT !.pc = "vanished", !.cur = t]]
      <4>1. q.pc = "vanished" /\ q.cur = t /\ kjob[t] = "NONE"
        BY <1>2, <2>6, <3>3 DEF NotFound, TypeOK, Pass
      <4> QED BY <4>1 DEF MildLoop, Reading
    <3> QED BY <3>1, <3>2, <3>3
  <2>7. ASSUME NEW t \in Tasks, QueryFails(i, l, t) PROVE MildLoop(i, l)
    <3>1. loop' = [loop EXCEPT ![i][l] = [loop[i][l] EXCEPT !.todo = loop[i][l].todo \ {t}]]
      BY <2>7 DEF QueryFails
    <3> QED BY <2>3, <3>1
  <2>8. CASE ReadJob(i, l) \/ WriteJob(i, l) \/ ReadTask(i, l) \/ WriteTask(i, l)
    BY <2>1, <2>2, <2>8 DEF ReadJob, WriteJob, ReadTask, WriteTask, Reading
  <2>9. CASE CheckVanished(i, l)
    <3>1. CASE Deletable(p.cur)
      <4>1. q.pc = "delete" /\ q.cur = p.cur /\ p.pc = "vanished"
        BY <2>0, <2>9, <3>1 DEF CheckVanished
      <4> QED BY <3>1, <4>1 DEF MildLoop, Reading
    <3> QED BY <2>2, <2>9, <3>1 DEF CheckVanished
  <2>10. CASE MarkDeleted(i, l)
    BY <2>2, <2>10 DEF MarkDeleted
  <2> QED BY <2>4, <2>5, <2>6, <2>7, <2>8, <2>9, <2>10 DEF StatusLoop
<1>5. \A u \in Tasks : MildTask(u)
  <2>1. CASE UNCHANGED task
    BY <1>1, <2>1, MildSame
  <2>2. CASE WriteTask(i, l)
    <3>1. /\ p.cur \in Tasks /\ p.st \in JobStatus
          /\ submitted[p.cur] # 0 /\ (p.st # "RUNNING" => kjob[p.cur] # "RUNNING")
      BY <1>2, <2>2 DEF WriteTask, Pass, Accounted, LoopAccounted, Reading
    <3>2. p.st # "TO_BE_RUN" /\ (p.st \notin Fired => p.st # "RUNNING") /\ task[p.cur].started
      BY <3>1 DEF JobStatus, Finished, Fired, Accounted, TaskAccounted
    <3> QED BY <1>1, <2>2, <3>1, <3>2, MildSetTask, NotBeingSubmitted DEF WriteTask
  <2>3. CASE MarkDeleted(i, l)
    <3>1. /\ p.cur \in Tasks /\ task[p.cur].elapsed /\ kjob[p.cur] # "RUNNING"
          /\ SetTask(p.cur, "STOPPED")
      BY <1>2, <2>3 DEF MarkDeleted, Pass, Accounted, LoopAccounted
    <3> QED BY <1>1, <3>1, MildSetTask, NotBeingSubmitted DEF Fired
  <2> QED BY <2>1, <2>2, <2>3 DEF StatusLoop, List, Found, NotFound, QueryFails, ReadJob, WriteJob,
         ReadTask, CheckVanished
<1>6. \A j \in Instances, m \in Loops : MildLoop(j, m)
  BY <1>3, <1>4, MildSame
<1> QED BY <1>1, <1>5, <1>6, MildSame DEF Mild

\* A request to stop a task or to go off line.
LEMMA MildRequests ==
    ASSUME TypeOK, Accounted, NEW i \in Instances, Incoming(i) \/ Serve(i),
           faults'.rerun = faults.rerun
    PROVE  Mild
<1>0. ~Count("rerun")
  BY DEF Count, TypeOK, Fault
<1>1. request[i].pc \notin Rerunning /\ request[i] \in Request
  BY DEF Accounted, RequestAccounted, TypeOK
<1>2. ASSUME RequestTo(i, "cancelled") \/ EndRequest(i) PROVE \A j \in Instances : MildRequest(j)
  <2>1. \A j \in Instances \ {i} : request'[j] = request[j]
    BY <1>2 DEF RequestTo, EndRequest, TypeOK
  <2>2. request'[i].pc \in {"cancelled", "idle"}
    BY <1>2 DEF RequestTo, EndRequest, NoRequest, TypeOK, Request
  <2>3. MildRequest(i)
    BY <2>2 DEF MildRequest, Rerunning, Stopping
  <2> QED BY <2>1, <2>3, MildSame
<1>3. ASSUME NEW pc \in Stopping, RequestTo(i, pc), request[i].pc \in Stopping
      PROVE  \A j \in Instances : MildRequest(j)
  <2>1. \A j \in Instances \ {i} : request'[j] = request[j]
    BY <1>3 DEF RequestTo, TypeOK
  <2>2. request'[i].pc = pc /\ request'[i].cur = request[i].cur
    BY <1>1, <1>3 DEF RequestTo, TypeOK, Request
  <2>3. request[i].cur \in Tasks
    BY <1>1, <1>3 DEF Request, Stopping
  <2>4. MildRequest(i)
    BY <1>3, <2>2, <2>3 DEF MildRequest, Rerunning, Stopping
  <2> QED BY <2>1, <2>4, MildSame
<1>4. CASE Incoming(i)
  <2>1. UNCHANGED <<sched, task, kjob, engine, loop, submitted>>
    BY <1>4 DEF Incoming, Offline, TaskStop, TaskRerun, Begin
  <2>2. \A j \in Instances \ {i} : request'[j] = request[j]
    BY <1>4 DEF Incoming, Offline, TaskStop, TaskRerun, Begin, TypeOK
  <2>3. MildRequest(i)
    <3>1. CASE Offline(i)
      <4>1. request'[i].pc = "offline"
        BY <3>1 DEF Offline, Begin, TypeOK
      <4> QED BY <4>1 DEF MildRequest, Rerunning, Stopping
    <3>2. ASSUME NEW t \in Tasks, TaskStop(i, t) PROVE MildRequest(i)
      <4>1. /\ request'[i].cur = t
            /\ \/ request'[i].pc = "cancel"
               \/ request'[i].pc = "stop" /\ task[t].status = "RUNNING"
        BY <3>2 DEF TaskStop, Begin, TypeOK
      <4> QED BY <4>1 DEF MildRequest, Rerunning, Stopping
    <3>3. ASSUME NEW t \in Tasks, TaskRerun(i, t) PROVE FALSE
      BY <1>0, <3>3 DEF TaskRerun, Begin
    <3> QED BY <1>4, <3>1, <3>2, <3>3 DEF Incoming
  <2> QED BY <2>1, <2>2, <2>3, MildSame DEF Mild
<1>5. CASE Cancel(i)
  <2>1. UNCHANGED <<sched, kjob, engine, loop, submitted>> /\ request[i].cur \in Tasks
    BY <1>1, <1>5 DEF Cancel, Request
  <2>2. \A u \in Tasks : MildTask(u)
    <3>1. CASE UNCHANGED task
      BY <2>1, <3>1, MildSame
    <3>2. CASE SetTask(request[i].cur, "STOPPED") /\ task[request[i].cur].status = "TO_BE_RUN"
      BY <2>1, <3>2, MildSetTask DEF Fired
    <3> QED BY <1>5, <3>1, <3>2 DEF Cancel
  <2>3. \A j \in Instances : MildRequest(j)
    BY <1>2, <1>5 DEF Cancel
  <2> QED BY <2>1, <2>2, <2>3, MildSame DEF Mild
<1>6. CASE StopInKuscia(i)
  <2>1. UNCHANGED <<sched, task, engine, loop, submitted>> /\ request[i].cur \in Tasks
    BY <1>1, <1>6 DEF StopInKuscia, Request
  <2>2. PICK ok \in BOOLEAN :
          /\ StopJob(request[i].cur, ok)
          /\ IF ok THEN RequestTo(i, "stopped") ELSE EndRequest(i)
    BY <1>6 DEF StopInKuscia
  <2>3. \A u \in Tasks :
          /\ kjob'[u] = "RUNNING" => kjob[u] = "RUNNING"
          /\ kjob'[u] # "NONE" => kjob[u] # "NONE"
    BY <2>1, <2>2 DEF StopJob, Call, TypeOK
  <2>4. \A u \in Tasks : MildTask(u)
    BY <2>1, <2>3 DEF MildTask, Accounted, TaskAccounted
  <2>5. \A j \in Instances : MildRequest(j)
    BY <1>2, <1>3, <1>6, <2>2 DEF StopInKuscia, Stopping
  <2> QED BY <2>1, <2>4, <2>5, MildSame DEF Mild
<1>7. CASE MarkJobStopped(i)
  <2>1. UNCHANGED <<sched, task, kjob, engine, loop, submitted>>
    BY <1>7 DEF MarkJobStopped
  <2>2. \A j \in Instances : MildRequest(j)
    BY <1>2, <1>3, <1>7 DEF MarkJobStopped, Stopping
  <2> QED BY <2>1, <2>2, MildSame DEF Mild
<1>8. CASE MarkTaskStopping(i)
  <2>1. /\ UNCHANGED <<sched, kjob, engine, loop, submitted>>
        /\ request[i].cur \in Tasks /\ task[request[i].cur].started
    BY <1>1, <1>8 DEF MarkTaskStopping, Request, Accounted, RequestAccounted, Stopping
  <2>2. \A u \in Tasks : MildTask(u)
    BY <1>8, <2>1, MildSetTask DEF MarkTaskStopping, Fired
  <2>3. \A j \in Instances : MildRequest(j)
    BY <1>2, <1>8 DEF MarkTaskStopping
  <2> QED BY <2>1, <2>2, <2>3, MildSame DEF Mild
<1>9. CASE MarkDown(i)
  <2>1. UNCHANGED <<task, kjob, engine, loop, submitted>> /\ (sched' = "NONE" => sched = "NONE")
    BY <1>9 DEF MarkDown
  <2>2. \A j \in Instances : MildRequest(j)
    BY <1>2, <1>9 DEF MarkDown
  <2> QED BY <2>1, <2>2, MildSame DEF Mild
<1>10. ~(DeleteInKuscia(i) \/ RerunInKuscia(i) \/ RerunTask(i) \/ RerunJob(i))
  BY <1>1 DEF DeleteInKuscia, RerunInKuscia, RerunTask, RerunJob, Rerunning
<1> QED BY <1>4, <1>5, <1>6, <1>7, <1>8, <1>9, <1>10 DEF Serve

\* A crash, and a schedule's end.
LEMMA MildCrash ==
    ASSUME TypeOK, Accounted, \/ Del
                              \/ \E i \in Instances : Crash(i)
    PROVE  Mild
<1>1. CASE Del
  <2>1. UNCHANGED <<task, kjob, engine, loop, request, submitted>> /\ sched' # "NONE"
    BY <1>1 DEF Del
  <2> QED BY <2>1, MildSame DEF Mild
<1>2. ASSUME NEW i \in Instances, Crash(i) PROVE Mild
  <2>1. UNCHANGED <<sched, task, kjob, submitted>>
    BY <1>2 DEF Crash
  <2>2. \A j \in Instances : engine'[j].pc = "loop" \/ engine'[j] = engine[j]
    BY <1>2 DEF Crash, NoBatch, TypeOK
  <2>3. \A j \in Instances, l \in Loops : loop'[j][l].pc = "idle" \/ loop'[j][l] = loop[j][l]
    BY <1>2 DEF Crash, NoLoops, NoPass, TypeOK
  <2>4. \A j \in Instances : request'[j].pc = "idle" \/ request'[j] = request[j]
    BY <1>2 DEF Crash, NoRequest, TypeOK
  <2>5. \A j \in Instances : MildEngine(j)
    BY <2>2, MildSame DEF MildEngine
  <2>6. \A j \in Instances, l \in Loops : MildLoop(j, l)
    BY <2>3, MildSame DEF MildLoop, Reading
  <2>7. \A j \in Instances : MildRequest(j)
    BY <2>4, MildSame DEF MildRequest, Rerunning, Stopping
  <2> QED BY <2>1, <2>5, <2>6, <2>7, MildSame DEF Mild
<1> QED BY <1>1, <1>2

LEMMA AccountStep ==
    ASSUME TypeOK, TypeOK', ClaimInv, AccountInv, [Next]_vars
    PROVE  AccountInv'
<1> SUFFICES ASSUME faults'.lost + faults'.rerun = 0 PROVE Accounted'
  BY DEF AccountInv
<1>1. Accounted /\ faults'.lost = faults.lost /\ faults'.rerun = faults.rerun
  BY FaultsAddUp DEF AccountInv
<1>2. CASE UNCHANGED vars
  BY <1>1, <1>2 DEF vars, Accounted, TaskAccounted, EngineAccounted, LoopAccounted, RequestAccounted
<1>3. CASE CreateScheduler
  BY <1>1, <1>3, AccountCreate
<1>4. CASE Del
  BY <1>1, <1>4, MildCrash, MildKeeps
<1>5. CASE Environment
  BY <1>1, <1>5, MildEnvironment, AccountElapse, MildKeeps DEF Environment
<1>6. ASSUME NEW i \in Instances, FireLoop(i) \/ Expire(i) PROVE Accounted'
  <2>1. ASSUME NEW t \in Tasks, Claim(i, t) PROVE Accounted'
    BY <1>1, <2>1, AccountClaim, MildEngines, MildKeeps
  <2>2. ASSUME NEW t \in Tasks, Misfire(i, t) PROVE Accounted'
    BY <1>1, <2>2, MildEngines, MildKeeps
  <2>3. CASE RunDue(i) \/ FailTask(i) \/ RecordJob(i) \/ Expire(i)
    BY <1>1, <2>3, MildEngines, MildKeeps
  <2>4. CASE Submit(i)
    BY <1>1, <2>4, AccountSubmit
  <2> QED BY <1>6, <2>1, <2>2, <2>3, <2>4 DEF FireLoop
<1>7. ASSUME NEW i \in Instances, NEW l \in Loops, StatusLoop(i, l) PROVE Accounted'
  BY <1>1, <1>7, MildLoops, MildKeeps
<1>8. ASSUME NEW i \in Instances, Incoming(i) \/ Serve(i) PROVE Accounted'
  BY <1>1, <1>8, MildRequests, MildKeeps
<1>9. ASSUME NEW i \in Instances, Crash(i) PROVE Accounted'
  BY <1>1, <1>9, MildCrash, MildKeeps
<1> QED BY <1>2, <1>3, <1>4, <1>5, <1>6, <1>7, <1>8, <1>9 DEF Next

\* Without lost replies and reruns, whatever the instances claim, poll and stop,
\* and wherever they time out or crash, a job that runs in Kuscia belongs to a
\* schedule task that is RUNNING or STOPPING: fireTask writes the row before it
\* calls CreateJob, and no verdict of the status loops ends the row too early.
THEOREM JobsAreAccountedFor == Spec => []RunningIsAccounted
<1>1. Init => AccountInv
  BY SchedulerAssumption DEF Init, NoRow, NoBatch, NoLoops, NoPass, NoRequest, AccountInv, Accounted,
     TaskAccounted, EngineAccounted, LoopAccounted, RequestAccounted, Fired, Reading, Rerunning, Stopping
<1>2. TypeOK /\ TypeOK' /\ ClaimInv /\ AccountInv /\ [Next]_vars => AccountInv'
  BY AccountStep
<1>3. AccountInv => RunningIsAccounted
  BY DEF AccountInv, Accounted, TaskAccounted, RunningIsAccounted
<1> QED BY TypeCorrect, TypeInit, ClaimInit, ClaimStep, <1>1, <1>2, <1>3, PTL DEF Spec

=============================================================================
