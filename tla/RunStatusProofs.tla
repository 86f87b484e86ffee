--------------------------- MODULE RunStatusProofs ---------------------------
(***************************************************************************)
(* Proofs about the runs of graphs and the page that watches them, for     *)
(* any graphs and any number of runs, stops, lost calls and crashes: a     *)
(* finished job has no running task, the outputs of a successful task are  *)
(* registered, a job is marked STOPPED only for a reason, and the page     *)
(* takes no answer about an earlier run for the end of this one.           *)
(***************************************************************************)
EXTENDS RunStatus, WellFoundedInduction, TLAPS

-----------------------------------------------------------------------------
(* The inductive invariant. *)

KusciaTaskStates == {"Pending", "Running", "Succeeded", "Failed", "Cancelled"}
KusciaStates == {"none", "absent", "deleted", "Running", "Succeeded", "Failed", "Cancelled"}
KusciaTasks == UNION {[N -> KusciaTaskStates] : N \in SUBSET Nodes}
Answer == [state : KusciaStates, task : KusciaTasks, ended : BOOLEAN]
Places == {"idle", "holding", "applying", "results"}
Record == [at : Places, job : Nat, answer : Answer, fresh : SUBSET Nodes]
Calls  == {"persisted", "refused", "accepted", "over"}

Typed ==
    /\ rows \in Seq(Row)
    /\ call \in Seq(Calls)
    /\ kuscia \in Seq(Answer)
    /\ Len(call) = Len(rows) /\ Len(kuscia) = Len(rows)
    /\ syncer \in [{"poll", "watch"} -> Record]

(* A run that is over in Kuscia has no running task there. *)
Quiet(answer) ==
    answer.state # "Running" => \A n \in DOMAIN answer.task : answer.task[n] # "Running"

(* Kuscia does not run the job and will not be asked to. *)
Over(j) == kuscia[j].state # "Running" /\ call[j] # "persisted"

(* A job Kuscia may still be asked to start is unknown to it and young;    *)
(* Kuscia knows all the tasks of a row.                                    *)
InStep(j) ==
    /\ call[j] = "persisted" => kuscia[j].state = "absent"
    /\ call[j] \in {"persisted", "refused"} => rows[j].young
    /\ kuscia[j].state = "deleted" => kuscia[j] = Deleted
    /\ InKuscia(j) => DOMAIN rows[j].task \subseteq DOMAIN kuscia[j].task
    /\ Quiet(kuscia[j])

(* What a syncer has in its hands: an answer that would stop the job still *)
(* holds, but for the poller's about a young row.                          *)
Held(s) ==
    LET j == syncer[s].job
        answer == syncer[s].answer
    IN  /\ j \in Runs
        /\ Quiet(answer)
        /\ syncer[s].at # "results" =>
             /\ answer # Deleted => DOMAIN rows[j].task \subseteq DOMAIN answer.task
             /\ answer.state = "Cancelled" => Over(j)
             /\ answer = Deleted =>
                  Over(j) \/ (s = "poll" /\ syncer[s].at = "holding" /\ rows[j].young)

Idle(row) == row.status \in JobFinished => \A n \in DOMAIN row.task : row.task[n] # "RUNNING"

Inv ==
    /\ Typed
    /\ \A j \in Runs : InStep(j) /\ Idle(rows[j])
    /\ \A s \in {"poll", "watch"} : syncer[s].at # "idle" => Held(s)

-----------------------------------------------------------------------------
(* Sequences and rows. *)

LEMMA ReplaceOne ==
    ASSUME NEW S, NEW q \in Seq(S), NEW j \in DOMAIN q, NEW v \in S
    PROVE  /\ [q EXCEPT ![j] = v] \in Seq(S)
           /\ Len([q EXCEPT ![j] = v]) = Len(q)
           /\ DOMAIN [q EXCEPT ![j] = v] = DOMAIN q
           /\ \A i \in DOMAIN q : [q EXCEPT ![j] = v][i] = IF i = j THEN v ELSE q[i]
  OBVIOUS

LEMMA AddOne ==
    ASSUME NEW S, NEW q \in Seq(S), NEW v \in S
    PROVE  /\ Append(q, v) \in Seq(S)
           /\ Len(Append(q, v)) = Len(q) + 1
           /\ DOMAIN Append(q, v) = DOMAIN q \cup {Len(q) + 1}
           /\ Len(q) + 1 \notin DOMAIN q
           /\ Append(q, v)[Len(q) + 1] = v
           /\ \A i \in DOMAIN q : Append(q, v)[i] = q[i]
  OBVIOUS

LEMMA SameDomains ==
    ASSUME Typed
    PROVE  DOMAIN call = Runs /\ DOMAIN kuscia = Runs /\ Runs = 1 .. Len(rows)
  BY DEF Typed, Runs

(* Rows and answers with their tasks spelled out. *)
LEMMA TasksOfRow ==
    ASSUME NEW N \in SUBSET Nodes
    PROVE  \A f \in [N -> TaskStates] : f \in TaskRows
  BY DEF TaskRows

LEMMA TasksOfAnswer ==
    ASSUME NEW N \in SUBSET Nodes
    PROVE  \A f \in [N -> KusciaTaskStates] : f \in KusciaTasks
  BY DEF KusciaTasks

LEMMA RowTasks ==
    ASSUME NEW r \in Row
    PROVE  /\ DOMAIN r.task \in SUBSET Nodes
           /\ r.task \in [DOMAIN r.task -> TaskStates]
           /\ r = [graph |-> r.graph, status |-> r.status, young |-> r.young, task |-> r.task]
  BY DEF Row, TaskRows

LEMMA AnswerTasks ==
    ASSUME NEW a \in Answer
    PROVE  DOMAIN a.task \in SUBSET Nodes /\ a.task \in [DOMAIN a.task -> KusciaTaskStates]
  BY DEF Answer, KusciaTasks

LEMMA NoTasksTyped == NoTasks \in TaskRows /\ NoTasks \in KusciaTasks /\ DOMAIN NoTasks = {}
<1>1. NoTasks \in [{} -> TaskStates] /\ NoTasks \in [{} -> KusciaTaskStates] /\ DOMAIN NoTasks = {}
  BY DEF NoTasks
<1> QED
  BY <1>1, TasksOfRow, TasksOfAnswer

LEMMA AnswersTyped ==
    /\ Absent \in Answer /\ Deleted \in Answer /\ NoAnswer \in Answer
    /\ Quiet(Absent) /\ Quiet(Deleted) /\ Quiet(NoAnswer)
    /\ Resting \in Record /\ Resting.at = "idle" /\ Deleted.state = "deleted"
<1>1. /\ Absent \in Answer /\ Deleted \in Answer /\ NoAnswer \in Answer
      /\ Quiet(Absent) /\ Quiet(Deleted) /\ Quiet(NoAnswer)
      /\ Deleted.state = "deleted"
  BY NoTasksTyped DEF Absent, Deleted, NoAnswer, Answer, KusciaStates, Quiet
<1> QED
  BY <1>1 DEF Resting, Record, Places

(* StopRow leaves a stopped row without an active task, and no success     *)
(* that was not there.                                                     *)
LEMMA StopRowIs ==
    ASSUME NEW r \in Row
    PROVE  LET after == StopRow(r)
           IN  /\ after \in Row /\ after.status = "STOPPED" /\ after.young = r.young
               /\ DOMAIN after.task = DOMAIN r.task /\ Idle(after)
               /\ \A n \in DOMAIN r.task : after.task[n] = "SUCCEED" => r.task[n] = "SUCCEED"
<1> DEFINE after == StopRow(r)
<1>1. StopTasks(r.task) \in [DOMAIN r.task -> TaskStates]
  BY RowTasks DEF StopTasks, TaskStates, Active
<1>2. StopTasks(r.task) \in TaskRows
  BY <1>1, RowTasks, TasksOfRow
<1>3. after.status = "STOPPED" /\ after.young = r.young /\ after.task = StopTasks(r.task)
  BY DEF StopRow, Row
<1>4. after \in Row
  BY <1>2 DEF StopRow, Row, JobFinished
<1>5. \A n \in DOMAIN r.task : /\ StopTasks(r.task)[n] # "RUNNING"
                               /\ StopTasks(r.task)[n] = "SUCCEED" => r.task[n] = "SUCCEED"
  BY DEF StopTasks, Active
<1> QED
  BY <1>1, <1>3, <1>4, <1>5 DEF Idle

(* updateJob: a finished job keeps no running task, and becomes STOPPED    *)
(* only by an answer that says so.                                         *)
LEMMA UpdatedIs ==
    ASSUME NEW r \in Row, NEW a \in Answer, DOMAIN r.task \subseteq DOMAIN a.task, Quiet(a)
    PROVE  LET after == Updated(r, a)
           IN  /\ after \in Row /\ after.young = r.young
               /\ DOMAIN after.task = DOMAIN r.task /\ Idle(after)
               /\ after.status = "STOPPED" /\ r.status # "STOPPED" => a.state = "Cancelled"
<1> DEFINE told   == ~(a.state \in {"Succeeded", "Failed"} /\ ~a.ended)
           status == IF told THEN JobStatus(a.state) ELSE r.status
           task   == [n \in DOMAIN r.task |-> TaskStatus(a.task[n])]
           final  == IF told /\ status \in {"FAILED", "STOPPED"} THEN StopTasks(task) ELSE task
           after  == Updated(r, a)
<1>1. task \in [DOMAIN r.task -> TaskStates]
  BY RowTasks, AnswerTasks DEF TaskStatus, JobStatus, TaskStates, Active, KusciaTaskStates
<1>2. final \in [DOMAIN r.task -> TaskStates]
  BY <1>1 DEF StopTasks, TaskStates, Active
<1>3. final \in TaskRows
  BY <1>2, RowTasks, TasksOfRow
<1>4. after = [r EXCEPT !.status = status, !.task = final]
  BY DEF Updated
<1>5. /\ after.status = status /\ after.young = r.young /\ after.task = final
      /\ after \in Row
  <2>1. status \in JobFinished \cup {"RUNNING", "GONE"}
    BY DEF Row, JobFinished, JobStatus
  <2> HIDE DEF final, status
  <2> QED
    BY <1>3, <1>4, <2>1 DEF Row
<1>6. status \in JobFinished => \A n \in DOMAIN final : final[n] # "RUNNING"
  <2>1. CASE a.state = "Running"
    BY <2>1 DEF JobStatus, JobFinished
  <2>2. CASE a.state # "Running"
    <3>1. \A n \in DOMAIN r.task : a.task[n] # "Running" /\ a.task[n] \in KusciaTaskStates
      BY <2>2, AnswerTasks DEF Quiet
    <3>2. \A n \in DOMAIN r.task : task[n] # "RUNNING"
      BY <3>1 DEF TaskStatus, JobStatus, KusciaTaskStates
    <3> QED
      BY <1>1, <3>2 DEF StopTasks
  <2> QED
    BY <2>1, <2>2
<1>7. status = "STOPPED" /\ r.status # "STOPPED" => a.state = "Cancelled"
  BY DEF JobStatus
<1> QED
  BY <1>2, <1>4, <1>5, <1>6, <1>7 DEF Idle

-----------------------------------------------------------------------------
(* What a step may do to the rows, to Kuscia and to the syncers.           *)

LEMMA HeldStays ==
    ASSUME NEW s \in {"poll", "watch"}, NEW j, j = syncer[s].job, Held(s), syncer'[s] = syncer[s],
           j \in Runs', DOMAIN rows'[j].task \subseteq DOMAIN rows[j].task,
           Over(j) => Over(j)',
           s = "poll" /\ syncer[s].answer = Deleted /\ rows[j].young => rows'[j].young
    PROVE  Held(s)'
  BY DEF Held, Quiet

(* One row is written.                                                     *)
LEMMA RowWritten ==
    ASSUME Inv, NEW j \in Runs, NEW r \in Row, rows' = [rows EXCEPT ![j] = r],
           DOMAIN r.task \subseteq DOMAIN rows[j].task, r.young = rows[j].young, Idle(r),
           UNCHANGED <<call, kuscia>>,
           syncer' \in [{"poll", "watch"} -> Record],
           \A s \in {"poll", "watch"} : \/ syncer'[s] = syncer[s]
                                        \/ syncer'[s].at = "idle"
                                        \/ Held(s) /\ syncer'[s].at = "results"
                                             /\ syncer'[s] = [syncer[s] EXCEPT !.at = "results", !.fresh = syncer'[s].fresh]
    PROVE  Inv'
<1>1. /\ rows' \in Seq(Row) /\ Len(rows') = Len(rows) /\ Runs' = Runs
      /\ \A i \in Runs : rows'[i] = IF i = j THEN r ELSE rows[i]
  <2>1. rows \in Seq(Row)
    BY DEF Inv, Typed
  <2> QED
    BY <2>1, ReplaceOne DEF Runs
<1>2. Typed'
  BY <1>1 DEF Inv, Typed
<1>3. ASSUME NEW i \in Runs PROVE InStep(i)' /\ Idle(rows'[i])
  BY <1>1, <1>3 DEF Inv, InStep, Quiet, InKuscia
<1>4. ASSUME NEW s \in {"poll", "watch"}, syncer'[s].at # "idle" PROVE Held(s)'
  <2>1. CASE syncer'[s] = syncer[s]
    <3>1. Held(s)
      BY <1>4, <2>1 DEF Inv
    <3>0. PICK i : i = syncer[s].job
      OBVIOUS
    <3>2. i \in Runs
      BY <3>0, <3>1 DEF Held
    <3>3. DOMAIN rows'[i].task \subseteq DOMAIN rows[i].task /\ rows'[i].young = rows[i].young
      BY <1>1, <3>2
    <3>4. Over(i) => Over(i)'
      BY DEF Over
    <3> QED
      BY <1>1, <2>1, <3>0, <3>1, <3>2, <3>3, <3>4, HeldStays
  <2>2. CASE Held(s) /\ syncer'[s].at = "results"
               /\ syncer'[s] = [syncer[s] EXCEPT !.at = "results", !.fresh = syncer'[s].fresh]
    <3>1. syncer \in [{"poll", "watch"} -> Record]
      BY DEF Inv, Typed
    <3>2. syncer'[s].job = syncer[s].job /\ syncer'[s].answer = syncer[s].answer
      BY <2>2, <3>1 DEF Record
    <3> QED
      BY <1>1, <2>2, <3>2 DEF Held, Quiet
  <2> QED
    BY <1>4, <2>1, <2>2
<1> QED
  BY <1>1, <1>2, <1>3, <1>4 DEF Inv

(* Kuscia moves a job it knows. *)
LEMMA KusciaMoves ==
    ASSUME Inv, NEW j \in Runs, InKuscia(j), NEW k \in Answer, kuscia' = [kuscia EXCEPT ![j] = k],
           Quiet(k), k.state # "absent", k.state = "Running" => kuscia[j].state = "Running",
           k = Deleted \/ (k.state # "deleted" /\ DOMAIN k.task = DOMAIN kuscia[j].task),
           UNCHANGED <<rows, call, syncer>>
    PROVE  Inv'
<1>1. /\ kuscia' \in Seq(Answer) /\ Len(kuscia') = Len(kuscia) /\ Runs' = Runs
      /\ \A i \in Runs : kuscia'[i] = IF i = j THEN k ELSE kuscia[i]
  <2>1. kuscia \in Seq(Answer) /\ DOMAIN kuscia = Runs /\ Runs' = Runs
    BY SameDomains DEF Inv, Typed, Runs
  <2> QED
    BY <2>1, ReplaceOne
<1>2. Typed'
  BY <1>1 DEF Inv, Typed
<1>3. ASSUME NEW i \in Runs PROVE InStep(i)' /\ Idle(rows'[i])
  <2>1. CASE i = j
    BY <1>1, <2>1, AnswersTyped DEF Inv, InStep, InKuscia, Quiet
  <2>2. CASE i # j
    BY <1>1, <2>2 DEF Inv, InStep, InKuscia, Quiet
  <2> QED
    BY <2>1, <2>2
<1>4. ASSUME NEW s \in {"poll", "watch"}, syncer'[s].at # "idle" PROVE Held(s)'
  <2>1. Held(s) /\ syncer[s].job \in Runs
    BY <1>4 DEF Inv, Held
  <2>2. PICK i : i = syncer[s].job
    OBVIOUS
  <2>3. Over(i) => Over(i)'
    BY <1>1, <2>1, <2>2 DEF Over
  <2> QED
    BY <1>1, <2>1, <2>2, <2>3, HeldStays
<1> QED
  BY <1>1, <1>2, <1>3, <1>4 DEF Inv

(* Only what a syncer has in its hands changes. *)
LEMMA SyncerMoves ==
    ASSUME Inv, NEW s \in {"poll", "watch"}, NEW r \in Record, syncer' = [syncer EXCEPT ![s] = r],
           r.at # "idle" => Held(s)',
           UNCHANGED <<rows, call, kuscia>>
    PROVE  Inv'
<1>1. Typed' /\ \A i \in Runs' : InStep(i)' /\ Idle(rows'[i])
  BY DEF Inv, Typed, InStep, Quiet, InKuscia, Runs
<1>2. ASSUME NEW o \in {"poll", "watch"}, syncer'[o].at # "idle" PROVE Held(o)'
  <2>1. syncer \in [{"poll", "watch"} -> Record]
    BY DEF Inv, Typed
  <2>2. CASE o = s
    BY <1>2, <2>1, <2>2
  <2>3. CASE o # s
    <3>1. syncer'[o] = syncer[o] /\ Held(o)
      BY <1>2, <2>1, <2>3 DEF Inv
    <3> QED
      BY <3>1 DEF Held, Quiet, Over, Runs
  <2> QED
    BY <2>2, <2>3
<1> QED
  BY <1>1, <1>2 DEF Inv

-----------------------------------------------------------------------------
(* Starting a run. *)

LEMMA PersistKeeps ==
    ASSUME ProjectJobsAssumption, Inv, NEW g \in Graphs, NEW selected, Persist(g, selected)
    PROVE  Inv'
<1> DEFINE row  == [graph |-> g, status |-> "RUNNING", young |-> TRUE,
                    task |-> [n \in selected |-> "INITIALIZED"]]
           last == Len(rows) + 1
<1>1. row \in Row /\ Idle(row)
  <2>1. selected \in SUBSET Nodes
    BY DEF Persist, NodesOf
  <2>2. [n \in selected |-> "INITIALIZED"] \in [selected -> TaskStates]
    BY DEF TaskStates, Active
  <2>3. [n \in selected |-> "INITIALIZED"] \in TaskRows
    BY <2>1, <2>2, TasksOfRow
  <2> QED
    BY <2>3 DEF Row, Idle, JobFinished
<1>2. rows \in Seq(Row) /\ call \in Seq(Calls) /\ kuscia \in Seq(Answer)
      /\ "persisted" \in Calls /\ Absent \in Answer
      /\ Len(call) = Len(rows) /\ Len(kuscia) = Len(rows)
      /\ DOMAIN call = Runs /\ DOMAIN kuscia = Runs
  BY SameDomains, AnswersTyped DEF Inv, Typed, Calls
<1>3. rows' = Append(rows, row) /\ call' = Append(call, "persisted") /\ kuscia' = Append(kuscia, Absent)
      /\ syncer' = syncer
  BY DEF Persist
<1> HIDE DEF row
<1>4. /\ rows' \in Seq(Row) /\ Len(rows') = last /\ Runs' = Runs \cup {last} /\ last \notin Runs
      /\ rows'[last] = row /\ \A i \in Runs : rows'[i] = rows[i]
  BY <1>1, <1>2, <1>3, AddOne DEF Runs
<1>5. /\ call' \in Seq(Calls) /\ Len(call') = last
      /\ call'[last] = "persisted" /\ \A i \in Runs : call'[i] = call[i]
  BY <1>2, <1>3, AddOne
<1>6. /\ kuscia' \in Seq(Answer) /\ Len(kuscia') = last
      /\ kuscia'[last] = Absent /\ \A i \in Runs : kuscia'[i] = kuscia[i]
  BY <1>2, <1>3, AddOne
<1>7. Typed'
  BY <1>3, <1>4, <1>5, <1>6 DEF Inv, Typed
<1>8. ASSUME NEW i \in Runs' PROVE InStep(i)' /\ Idle(rows'[i])
  <2>1. CASE i = last
    BY <1>1, <1>4, <1>5, <1>6, <2>1, AnswersTyped DEF InStep, InKuscia, Absent, row
  <2>2. CASE i \in Runs
    BY <1>4, <1>5, <1>6, <2>2 DEF Inv, InStep, InKuscia
  <2> QED
    BY <1>4, <2>1, <2>2
<1>9. ASSUME NEW s \in {"poll", "watch"}, syncer'[s].at # "idle" PROVE Held(s)'
  <2>1. Held(s)
    BY <1>3, <1>9 DEF Inv
  <2>2. PICK i : i = syncer[s].job
    OBVIOUS
  <2>3. i \in Runs
    BY <2>1, <2>2 DEF Held
  <2>4. Over(i) => Over(i)'
    BY <1>5, <1>6, <2>3 DEF Over
  <2> QED
    BY <1>3, <1>4, <2>1, <2>2, <2>3, <2>4, HeldStays
<1> QED
  BY <1>7, <1>8, <1>9 DEF Inv

(* Kuscia has made the job, or the call that should have returned an error. *)
LEMMA CreatedIs ==
    ASSUME Inv, NEW j \in Runs
    PROVE  /\ Created(j) \in Answer /\ Quiet(Created(j)) /\ Created(j).state = "Running"
           /\ DOMAIN Created(j).task = DOMAIN rows[j].task
<1>1. DOMAIN rows[j].task \in SUBSET Nodes
  BY RowTasks DEF Inv, Typed, Runs
<1>2. [n \in DOMAIN rows[j].task |-> "Pending"] \in KusciaTasks
  BY <1>1, TasksOfAnswer DEF KusciaTaskStates
<1> QED
  BY <1>2 DEF Created, Answer, KusciaStates, Quiet

LEMMA CallMoves ==
    ASSUME Inv, NEW j \in Runs, NEW c \in {"refused", "accepted", "over"},
           call' = [call EXCEPT ![j] = c], c = "refused" => rows[j].young,
           \/ kuscia' = [kuscia EXCEPT ![j] = Created(j)] /\ call[j] = "persisted"
           \/ UNCHANGED kuscia,
           UNCHANGED <<rows, syncer>>
    PROVE  Inv'
<1>1. kuscia \in Seq(Answer) /\ call \in Seq(Calls) /\ DOMAIN kuscia = Runs /\ DOMAIN call = Runs
      /\ c \in Calls /\ Runs' = Runs
  BY SameDomains DEF Inv, Typed, Calls, Runs
<1>2. call' \in Seq(Calls) /\ Len(call') = Len(call)
      /\ \A i \in Runs : call'[i] = IF i = j THEN c ELSE call[i]
  BY <1>1, ReplaceOne
<1>3. kuscia' \in Seq(Answer) /\ Len(kuscia') = Len(kuscia)
      /\ \A i \in Runs : kuscia'[i] = IF i = j /\ kuscia' # kuscia THEN Created(j) ELSE kuscia[i]
  <2>1. CASE kuscia' = [kuscia EXCEPT ![j] = Created(j)]
    BY <1>1, <2>1, CreatedIs, ReplaceOne
  <2>2. CASE UNCHANGED kuscia
    BY <1>1, <2>2
  <2> QED
    BY <2>1, <2>2
<1>4. Typed'
  BY <1>2, <1>3 DEF Inv, Typed
<1>5. ASSUME NEW i \in Runs PROVE InStep(i)' /\ Idle(rows'[i])
  <2>1. CASE i = j
    BY <1>2, <1>3, <2>1, CreatedIs DEF Inv, InStep, InKuscia
  <2>2. CASE i # j
    BY <1>2, <1>3, <2>2 DEF Inv, InStep, InKuscia
  <2> QED
    BY <2>1, <2>2
<1>6. ASSUME NEW s \in {"poll", "watch"}, syncer'[s].at # "idle" PROVE Held(s)'
  <2>1. Held(s)
    BY <1>6 DEF Inv
  <2>2. PICK i : i = syncer[s].job
    OBVIOUS
  <2>3. i \in Runs
    BY <2>1, <2>2 DEF Held
  <2>4. Over(i) => Over(i)'
    BY <1>2, <1>3, <2>3 DEF Over
  <2> QED
    BY <1>1, <2>1, <2>2, <2>3, <2>4, HeldStays
<1> QED
  BY <1>1, <1>4, <1>5, <1>6 DEF Inv

LEMMA StartKeeps ==
    ASSUME Inv, NEW j \in Runs, Submit(j) \/ SubmitFails(j) \/ Rollback(j) \/ GracePasses(j)
    PROVE  Inv'
<1>1. CASE Submit(j)
  BY <1>1, CallMoves DEF Submit
<1>2. CASE SubmitFails(j)
  <2>1. rows[j].young
    BY <1>2 DEF SubmitFails, Inv, InStep
  <2> QED
    BY <1>2, <2>1, CallMoves DEF SubmitFails
<1>3. CASE Rollback(j)
  <2> DEFINE r == [rows[j] EXCEPT !.status = "GONE", !.task = NoTasks]
  <2>1. rows \in Seq(Row) /\ rows[j] \in Row
    BY DEF Inv, Typed, Runs
  <2>2. r \in Row /\ r.young = rows[j].young /\ r.task = NoTasks /\ r.status = "GONE"
    BY <2>1, NoTasksTyped DEF Row
  <2>3. rows' = [rows EXCEPT ![j] = r] /\ call' = [call EXCEPT ![j] = "over"]
        /\ kuscia' = kuscia /\ syncer' = syncer
    BY <1>3, <2>1 DEF Rollback
  <2> HIDE DEF r
  <2>4. /\ rows' \in Seq(Row) /\ Len(rows') = Len(rows) /\ Runs' = Runs
        /\ \A i \in Runs : rows'[i] = IF i = j THEN r ELSE rows[i]
    BY <2>1, <2>2, <2>3, ReplaceOne DEF Runs
  <2>5. /\ call' \in Seq(Calls) /\ Len(call') = Len(call)
        /\ \A i \in Runs : call'[i] = IF i = j THEN "over" ELSE call[i]
    <3>1. call \in Seq(Calls) /\ DOMAIN call = Runs /\ "over" \in Calls
      BY SameDomains DEF Inv, Typed, Calls
    <3> QED
      BY <2>3, <3>1, ReplaceOne
  <2>6. Typed'
    BY <2>3, <2>4, <2>5 DEF Inv, Typed
  <2>7. ASSUME NEW i \in Runs PROVE InStep(i)' /\ Idle(rows'[i])
    <3>1. CASE i = j
      BY <2>2, <2>3, <2>4, <2>5, <3>1, NoTasksTyped DEF Inv, InStep, InKuscia, Idle, JobFinished
    <3>2. CASE i # j
      BY <2>3, <2>4, <2>5, <3>2 DEF Inv, InStep, InKuscia
    <3> QED
      BY <3>1, <3>2
  <2>8. ASSUME NEW s \in {"poll", "watch"}, syncer'[s].at # "idle" PROVE Held(s)'
    <3>1. Held(s)
      BY <2>3, <2>8 DEF Inv
    <3>2. PICK i : i = syncer[s].job
      OBVIOUS
    <3>3. i \in Runs
      BY <3>1, <3>2 DEF Held
    <3>4. Over(i) => Over(i)'
      BY <2>3, <2>5, <3>3 DEF Over
    <3>5. DOMAIN rows'[i].task \subseteq DOMAIN rows[i].task /\ rows'[i].young = rows[i].young
      BY <2>2, <2>4, <3>3, NoTasksTyped
    <3> QED
      BY <2>3, <2>4, <3>1, <3>2, <3>3, <3>4, <3>5, HeldStays
  <2> QED
    BY <2>4, <2>6, <2>7, <2>8 DEF Inv
<1>4. CASE GracePasses(j)
  <2> DEFINE r == [rows[j] EXCEPT !.young = FALSE]
  <2>1. rows \in Seq(Row) /\ rows[j] \in Row
    BY DEF Inv, Typed, Runs
  <2>2. r \in Row /\ r.young = FALSE /\ r.task = rows[j].task /\ r.status = rows[j].status
    BY <2>1 DEF Row
  <2>3. rows' = [rows EXCEPT ![j] = r] /\ call' = call /\ kuscia' = kuscia /\ syncer' = syncer
        /\ call[j] \notin {"persisted", "refused"}
        /\ ~(syncer["poll"].job = j /\ syncer["poll"].answer = Deleted)
    BY <1>4, <2>1 DEF GracePasses
  <2> HIDE DEF r
  <2>4. /\ rows' \in Seq(Row) /\ Len(rows') = Len(rows) /\ Runs' = Runs
        /\ \A i \in Runs : rows'[i] = IF i = j THEN r ELSE rows[i]
    BY <2>1, <2>2, <2>3, ReplaceOne DEF Runs
  <2>5. Typed'
    BY <2>3, <2>4 DEF Inv, Typed
  <2>6. ASSUME NEW i \in Runs PROVE InStep(i)' /\ Idle(rows'[i])
    BY <2>2, <2>3, <2>4 DEF Inv, InStep, InKuscia, Idle
  <2>7. ASSUME NEW s \in {"poll", "watch"}, syncer'[s].at # "idle" PROVE Held(s)'
    <3>1. Held(s)
      BY <2>3, <2>7 DEF Inv
    <3>2. PICK i : i = syncer[s].job
      OBVIOUS
    <3>3. i \in Runs
      BY <3>1, <3>2 DEF Held
    <3>4. Over(i) => Over(i)'
      BY <2>3, <3>3 DEF Over
    <3>5. DOMAIN rows'[i].task \subseteq DOMAIN rows[i].task
      BY <2>2, <2>4, <3>3
    <3>6. s = "poll" /\ syncer[s].answer = Deleted /\ rows[i].young => rows'[i].young
      BY <2>3, <2>4, <3>2, <3>3
    <3> QED
      BY <2>3, <2>4, <3>1, <3>2, <3>3, <3>4, <3>5, <3>6, HeldStays
  <2> QED
    BY <2>4, <2>5, <2>6, <2>7 DEF Inv
<1> QED
  BY <1>1, <1>2, <1>3, <1>4

(* Kuscia itself. *)
LEMMA KusciaKeeps ==
    ASSUME Inv, NEW j \in Runs,
           (\E n \in Nodes : KusciaTask(j, n)) \/ KusciaJobEnds(j) \/ KusciaEndTime(j) \/ Vanish(j)
    PROVE  Inv'
<1>1. /\ kuscia[j] \in Answer /\ Quiet(kuscia[j])
      /\ DOMAIN kuscia[j].task \in SUBSET Nodes
      /\ kuscia[j].task \in [DOMAIN kuscia[j].task -> KusciaTaskStates]
  <2>1. kuscia[j] \in Answer
    BY SameDomains DEF Inv, Typed
  <2> QED
    BY <2>1, AnswerTasks DEF Inv, InStep
<1>2. ASSUME NEW n \in Nodes, KusciaTask(j, n) PROVE Inv'
  <2>1. PICK s \in KusciaTaskStates : kuscia' = [kuscia EXCEPT ![j].task[n] = s]
    BY <1>2 DEF KusciaTask, KusciaTaskStates
  <2> DEFINE task == [kuscia[j].task EXCEPT ![n] = s]
             k == [kuscia[j] EXCEPT !.task = task]
  <2>2. task \in [DOMAIN kuscia[j].task -> KusciaTaskStates] /\ kuscia[j].state = "Running"
    BY <1>1, <1>2 DEF KusciaTask
  <2>3. task \in KusciaTasks
    BY <1>1, <2>2, TasksOfAnswer
  <2>4. kuscia' = [kuscia EXCEPT ![j] = k]
    BY <2>1
  <2>5. DOMAIN task = DOMAIN kuscia[j].task
    BY <2>2
  <2> HIDE DEF task
  <2>6. k \in Answer /\ k.state = "Running" /\ k.task = task
    BY <1>1, <2>2, <2>3 DEF Answer
  <2> HIDE DEF k
  <2> QED
    BY <1>2, <2>2, <2>4, <2>5, <2>6, KusciaMoves DEF KusciaTask, OnlyKuscia, Quiet, InKuscia
<1>4. CASE KusciaJobEnds(j)
  <2>1. PICK v \in {"Succeeded", "Failed"} : kuscia' = [kuscia EXCEPT ![j].state = v]
    BY <1>4 DEF KusciaJobEnds
  <2> DEFINE k == [kuscia[j] EXCEPT !.state = v]
  <2>2. kuscia' = [kuscia EXCEPT ![j] = k] /\ k.state = v
    BY <1>1, <2>1 DEF Answer
  <2>3. k \in Answer /\ k.task = kuscia[j].task
    BY <1>1, <2>1 DEF Answer, KusciaStates
  <2>4. \A n \in DOMAIN kuscia[j].task : kuscia[j].task[n] # "Running"
    BY <1>4 DEF KusciaJobEnds
  <2> HIDE DEF k
  <2>5. InKuscia(j) /\ Quiet(k) /\ k.state # "absent" /\ k.state # "Running" /\ k.state # "deleted"
        /\ UNCHANGED <<rows, call, syncer>>
    BY <1>4, <2>1, <2>2, <2>3, <2>4 DEF KusciaJobEnds, OnlyKuscia, Quiet, InKuscia
  <2> QED
    BY <2>2, <2>3, <2>5, KusciaMoves
<1>5. CASE KusciaEndTime(j)
  <2> DEFINE k == [kuscia[j] EXCEPT !.ended = TRUE]
  <2>1. kuscia' = [kuscia EXCEPT ![j] = k] /\ kuscia[j].state \in {"Succeeded", "Failed"}
    BY <1>5 DEF KusciaEndTime
  <2>2. k \in Answer /\ k.task = kuscia[j].task /\ k.state = kuscia[j].state
    BY <1>1 DEF Answer
  <2> HIDE DEF k
  <2>3. InKuscia(j) /\ Quiet(k) /\ k.state # "absent" /\ k.state # "Running" /\ k.state # "deleted"
        /\ UNCHANGED <<rows, call, syncer>>
    BY <1>1, <1>5, <2>1, <2>2 DEF KusciaEndTime, OnlyKuscia, Quiet, InKuscia
  <2> QED
    BY <2>1, <2>2, <2>3, KusciaMoves
<1>6. CASE Vanish(j)
  BY <1>6, AnswersTyped, KusciaMoves DEF Vanish, OnlyKuscia
<1> QED
  BY <1>2, <1>4, <1>5, <1>6

-----------------------------------------------------------------------------
(* The poller and the watch stream. *)

(* Kuscia is asked.  The poller may miss a job that is on its way.         *)
LEMMA AskKeeps ==
    ASSUME Inv, NEW j \in Runs, PollAsk(j) \/ WatchEvent(j)
    PROVE  Inv'
<1>1. /\ kuscia[j] \in Answer /\ Quiet(kuscia[j]) /\ InStep(j) /\ j \in Nat
  BY SameDomains DEF Inv, Typed, InStep
<1>2. ASSUME NEW s \in {"poll", "watch"}, NEW a \in Answer, Holds(s, j, a), Quiet(a),
             a # Deleted => DOMAIN rows[j].task \subseteq DOMAIN a.task,
             a.state = "Cancelled" => Over(j),
             a = Deleted => Over(j) \/ (s = "poll" /\ rows[j].young),
             UNCHANGED <<rows, call, kuscia>>
      PROVE  Inv'
  <2> DEFINE r == [at |-> "holding", job |-> j, answer |-> a, fresh |-> {}]
  <2>1. r \in Record /\ syncer' = [syncer EXCEPT ![s] = r]
    BY <1>1, <1>2 DEF Record, Places, Holds
  <2>2. syncer'[s] = r
    BY <2>1 DEF Inv, Typed
  <2>3. Held(s)'
    BY <1>2, <2>2 DEF Held, Quiet, Over, Runs
  <2> QED
    BY <1>2, <2>1, <2>3, SyncerMoves
<1>3. /\ InKuscia(j) => DOMAIN rows[j].task \subseteq DOMAIN kuscia[j].task /\ kuscia[j] # Deleted
      /\ kuscia[j].state \in {"Cancelled", "deleted"} => Over(j)
      /\ ~InKuscia(j) => Over(j) \/ rows[j].young
  BY <1>1, AnswersTyped DEF InStep, InKuscia, Over
<1>4. CASE PollAsk(j)
  <2>1. CASE InKuscia(j)
    <3>1. Holds("poll", j, kuscia[j]) /\ UNCHANGED <<rows, call, kuscia>>
      BY <1>4, <2>1 DEF PollAsk
    <3> QED
      BY <1>1, <1>2, <1>3, <2>1, <3>1
  <2>2. CASE ~InKuscia(j)
    <3>1. UNCHANGED <<rows, call, kuscia>> /\ (UNCHANGED syncer \/ Holds("poll", j, Deleted))
      BY <1>4, <2>2 DEF PollAsk
    <3>2. CASE UNCHANGED syncer
      BY <3>1, <3>2 DEF Inv, Typed, InStep, Quiet, InKuscia, Held, Over, Runs
    <3>3. CASE Holds("poll", j, Deleted)
      BY <1>2, <1>3, <2>2, <3>1, <3>3, AnswersTyped
    <3> QED
      BY <3>1, <3>2, <3>3
  <2> QED
    BY <2>1, <2>2
<1>5. CASE WatchEvent(j)
  <2>1. Holds("watch", j, kuscia[j]) /\ UNCHANGED <<rows, call, kuscia>> /\ kuscia[j].state # "absent"
    BY <1>5 DEF WatchEvent
  <2>2. kuscia[j] # Deleted => InKuscia(j)
    BY <1>1, <2>1 DEF InStep, InKuscia
  <2> QED
    BY <1>1, <1>2, <1>3, <2>1, <2>2, AnswersTyped
<1> QED
  BY <1>4, <1>5

LEMMA LookKeeps ==
    ASSUME Inv, NEW s \in {"poll", "watch"}, Look(s)
    PROVE  Inv'
<1>1. /\ syncer[s] \in Record /\ Held(s) /\ syncer[s].at = "holding"
      /\ syncer \in [{"poll", "watch"} -> Record]
  BY DEF Inv, Typed, Look
<1>2. CASE syncer' = [syncer EXCEPT ![s] = Resting]
  BY <1>2, AnswersTyped, SyncerMoves DEF Look
<1>3. CASE ~Skipped(s)
  <2> DEFINE r == [syncer[s] EXCEPT !.at = "applying"]
  <2>1. r \in Record /\ r.at = "applying" /\ r.job = syncer[s].job /\ r.answer = syncer[s].answer
        /\ syncer' = [syncer EXCEPT ![s] = r] /\ syncer'[s] = r
    BY <1>1, <1>3 DEF Look, Record, Places
  <2> HIDE DEF r
  <2>2. s = "poll" /\ syncer[s].answer = Deleted => ~rows[syncer[s].job].young
    BY <1>3 DEF Skipped
  <2>3. UNCHANGED <<rows, call, kuscia>>
    BY DEF Look
  <2>4. Held(s)'
    BY <1>1, <2>1, <2>2, <2>3 DEF Held, Quiet, Over, Runs
  <2> QED
    BY <2>1, <2>3, <2>4, SyncerMoves
<1> QED
  BY <1>2, <1>3 DEF Look

(* Whoever applies an answer, applies one that fits the row.               *)
LEMMA Applying ==
    ASSUME Inv, NEW s \in {"poll", "watch"}, syncer[s].at = "applying"
    PROVE  LET j == syncer[s].job IN
             /\ j \in Runs /\ rows[j] \in Row /\ syncer[s].answer \in Answer /\ Quiet(syncer[s].answer)
             /\ syncer[s].answer # Deleted => DOMAIN rows[j].task \subseteq DOMAIN syncer[s].answer.task
             /\ syncer[s].answer.state = "Cancelled" \/ syncer[s].answer = Deleted => Over(j)
  BY DEF Inv, Typed, Held, Record, Runs

LEMMA ApplyKeeps ==
    ASSUME Inv, NEW s \in {"poll", "watch"}, Apply(s)
    PROVE  Inv'
<1>1. /\ syncer \in [{"poll", "watch"} -> Record] /\ syncer[s].at = "applying"
      /\ syncer[s] \in Record /\ Held(s) /\ UNCHANGED <<call, kuscia>>
  BY DEF Inv, Typed, Apply
<1>2. PICK j : j = syncer[s].job
  OBVIOUS
<1>3. ASSUME NEW r \in Record, syncer' = [syncer EXCEPT ![s] = r],
             \/ r.at = "idle"
             \/ r.at = "results" /\ r = [syncer[s] EXCEPT !.at = "results", !.fresh = r.fresh]
      PROVE  /\ syncer' \in [{"poll", "watch"} -> Record]
             /\ \A o \in {"poll", "watch"} :
                  \/ syncer'[o] = syncer[o]
                  \/ syncer'[o].at = "idle"
                  \/ Held(o) /\ syncer'[o].at = "results"
                       /\ syncer'[o] = [syncer[o] EXCEPT !.at = "results", !.fresh = syncer'[o].fresh]
  BY <1>1, <1>3
<1>4. CASE ApplyAnswer(s)
  <2> DEFINE row == Updated(rows[j], syncer[s].answer)
             fresh == Fresh(rows[j].task, row.task)
             r == IF fresh = {} THEN Resting ELSE [syncer[s] EXCEPT !.at = "results", !.fresh = fresh]
  <2>1. /\ row \in Row /\ row.young = rows[j].young /\ DOMAIN row.task = DOMAIN rows[j].task
        /\ Idle(row) /\ j \in Runs
    BY <1>1, <1>2, <1>4, Applying, UpdatedIs DEF ApplyAnswer
  <2>2. rows' = [rows EXCEPT ![j] = row] /\ syncer' = [syncer EXCEPT ![s] = r]
    <3>1. rows' = [rows EXCEPT ![j] = row]
      BY <1>2, <1>4 DEF ApplyAnswer
    <3>2. syncer' = [syncer EXCEPT ![s] = r]
      BY <1>1, <1>2, <1>4 DEF ApplyAnswer
    <3> QED
      BY <3>1, <3>2
  <2>3. fresh \in SUBSET Nodes
    BY <2>1, RowTasks DEF Fresh
  <2> HIDE DEF row, fresh
  <2>4. r \in Record /\ (r.at = "idle" \/ (r.at = "results" /\ r = [syncer[s] EXCEPT !.at = "results", !.fresh = r.fresh]))
    <3>1. CASE fresh = {}
      <4>1. r = Resting
        BY <3>1
      <4> HIDE DEF r
      <4> QED
        BY <4>1, AnswersTyped
    <3>2. CASE fresh # {}
      <4>1. r = [syncer[s] EXCEPT !.at = "results", !.fresh = fresh]
        BY <3>2
      <4> HIDE DEF r
      <4>2. r \in Record /\ r.at = "results" /\ r.fresh = fresh
        BY <1>1, <2>3, <4>1 DEF Record, Places
      <4> QED
        BY <4>1, <4>2
    <3> QED
      BY <3>1, <3>2
  <2> HIDE DEF r
  <2> QED
    BY <1>1, <1>3, <2>1, <2>2, <2>4, RowWritten
<1>5. CASE ApplyDeleted(s)
  <2>1. /\ rows' = [rows EXCEPT ![j] = StopRow(rows[j])] /\ syncer' = [syncer EXCEPT ![s] = Resting]
        /\ j \in Runs /\ rows[j] \in Row
    BY <1>1, <1>2, <1>5, Applying DEF ApplyDeleted
  <2>2. /\ StopRow(rows[j]) \in Row /\ StopRow(rows[j]).young = rows[j].young /\ Idle(StopRow(rows[j]))
        /\ DOMAIN StopRow(rows[j]).task = DOMAIN rows[j].task
    BY <2>1, StopRowIs
  <2> QED
    BY <1>1, <1>3, <2>1, <2>2, AnswersTyped, RowWritten
<1>6. CASE ApplyToNothing(s)
  BY <1>1, <1>6, AnswersTyped, SyncerMoves DEF ApplyToNothing
<1> QED
  BY <1>4, <1>5, <1>6 DEF Apply

LEMMA RegisterKeeps ==
    ASSUME Inv, NEW s \in {"poll", "watch"}, Register(s)
    PROVE  Inv'
  BY AnswersTyped, SyncerMoves DEF Register

-----------------------------------------------------------------------------
(* Stops and crashes. *)

LEMMA Untouched ==
    ASSUME Inv, UNCHANGED <<rows, call, kuscia, syncer>>
    PROVE  Inv'
  BY DEF Inv, Typed, InStep, Quiet, InKuscia, Held, Over, Runs

LEMMA CancelledIs ==
    ASSUME NEW k \in Answer
    PROVE  /\ Cancelled(k) \in Answer /\ Quiet(Cancelled(k)) /\ Cancelled(k).state = "Cancelled"
           /\ DOMAIN Cancelled(k).task = DOMAIN k.task
<1> DEFINE task == [n \in DOMAIN k.task |-> IF k.task[n] \in {"Pending", "Running"} THEN "Cancelled" ELSE k.task[n]]
<1>1. task \in [DOMAIN k.task -> KusciaTaskStates] /\ \A n \in DOMAIN k.task : task[n] # "Running"
  BY AnswerTasks DEF KusciaTaskStates
<1>2. task \in KusciaTasks
  BY <1>1, AnswerTasks, TasksOfAnswer
<1>3. Cancelled(k) = [k EXCEPT !.state = "Cancelled", !.task = task]
  BY DEF Cancelled
<1> HIDE DEF task
<1>4. Cancelled(k) \in Answer /\ Cancelled(k).state = "Cancelled" /\ Cancelled(k).task = task
  BY <1>2, <1>3 DEF Answer, KusciaStates
<1> QED
  BY <1>1, <1>4 DEF Quiet

LEMMA StopKeeps ==
    ASSUME Inv, (\E j \in Runs : StopKuscia(j) \/ StopFails(j)) \/ StopWrite
    PROVE  Inv'
<1>1. ASSUME NEW j \in Runs, StopKuscia(j) PROVE Inv'
  <2>1. UNCHANGED <<rows, call, syncer>>
    BY <1>1 DEF StopKuscia
  <2>2. CASE UNCHANGED kuscia
    BY <2>1, <2>2, Untouched
  <2>3. CASE kuscia[j].state = "Running" /\ kuscia' = [kuscia EXCEPT ![j] = Cancelled(kuscia[j])]
    <3>1. kuscia[j] \in Answer
      BY SameDomains DEF Inv, Typed
    <3> QED
      BY <2>1, <2>3, <3>1, CancelledIs, KusciaMoves DEF InKuscia
  <2> QED
    BY <1>1, <2>2, <2>3 DEF StopKuscia
<1>2. ASSUME NEW j \in Runs, StopFails(j) PROVE Inv'
  BY <1>2, Untouched DEF StopFails
<1>3. CASE StopWrite
  <2>1. PICK j : j = stopping.at
    OBVIOUS
  <2>2. UNCHANGED <<call, kuscia, syncer>>
    BY <1>3 DEF StopWrite
  <2>3. CASE rows' = rows
    BY <2>2, <2>3, Untouched
  <2>4. CASE j \in Runs /\ rows' = [rows EXCEPT ![j] = StopRow(rows[j])]
    <3>1. rows[j] \in Row /\ syncer \in [{"poll", "watch"} -> Record]
      BY <2>4 DEF Inv, Typed, Runs
    <3>2. /\ StopRow(rows[j]) \in Row /\ StopRow(rows[j]).young = rows[j].young /\ Idle(StopRow(rows[j]))
          /\ DOMAIN StopRow(rows[j]).task = DOMAIN rows[j].task
      BY <3>1, StopRowIs
    <3> QED
      BY <2>2, <2>4, <3>1, <3>2, RowWritten
  <2>5. j \notin Runs => rows' = rows
    <3>1. rows \in Seq(Row)
      BY DEF Inv, Typed
    <3> QED
      BY <1>3, <2>1, <3>1 DEF StopWrite, Runs
  <2> QED
    BY <1>3, <2>1, <2>3, <2>4, <2>5 DEF StopWrite
<1> QED
  BY <1>1, <1>2, <1>3

LEMMA CrashKeeps ==
    ASSUME Inv, Crash
    PROVE  Inv'
<1>1. /\ call' = [j \in Runs |-> IF call[j] \in {"persisted", "refused", "accepted"} THEN "over" ELSE call[j]]
      /\ syncer' = [s \in DOMAIN syncer |-> Resting] /\ UNCHANGED <<rows, kuscia>>
  BY DEF Crash
<1>2. /\ DOMAIN syncer = {"poll", "watch"} /\ Runs = 1 .. Len(rows) /\ Len(rows) \in Nat /\ Runs' = Runs
      /\ \A j \in Runs : call[j] \in Calls
  BY <1>1, SameDomains DEF Inv, Typed, Runs
<1>3. call' \in [1 .. Len(rows) -> Calls] /\ \A j \in Runs : call'[j] = "over"
  BY <1>1, <1>2 DEF Calls
<1>4. call' \in Seq(Calls) /\ Len(call') = Len(rows)
  BY <1>2, <1>3
<1>5. Typed'
  BY <1>1, <1>2, <1>4, AnswersTyped DEF Inv, Typed
<1>6. ASSUME NEW j \in Runs PROVE InStep(j)' /\ Idle(rows'[j])
  BY <1>1, <1>3, <1>6 DEF Inv, InStep, InKuscia, Quiet
<1>7. \A s \in {"poll", "watch"} : syncer'[s].at = "idle"
  BY <1>1, <1>2, AnswersTyped
<1> QED
  BY <1>2, <1>5, <1>6, <1>7 DEF Inv

-----------------------------------------------------------------------------
(* The whole. *)

ServerStarts == \E g \in Graphs : \E selected \in SUBSET NodesOf(g) : Persist(g, selected)
OtherServerSteps ==
    \/ ServerNext
    \/ UNCHANGED <<rows, call, kuscia, syncer, results>> /\ (used.crash => used'.crash)
    \/ \E j \in Runs : /\ call[j] = "accepted" /\ call' = [call EXCEPT ![j] = "over"]
                       /\ UNCHANGED <<rows, kuscia, syncer, results, used>>
    \/ Crash

OnGraph == "graph" \in DOMAIN page /\ page.graph \in Graphs

LEMMA CrashStays ==
    ASSUME NEW kind, Disturbed(kind)
    PROVE  /\ used.crash => used'.crash
           /\ kind = "crash" => used'.crash
  BY DEF Disturbed

(* What a step of the page and its users is to the server. *)
LEMMA NextCases ==
    ASSUME OnGraph, [Next]_vars
    PROVE  (ServerStarts \/ OtherServerSteps) /\ OnGraph'
<1>1. CASE UNCHANGED vars
  BY <1>1 DEF vars, OtherServerSteps, OnGraph
<1>2. CASE ServerNext /\ UNCHANGED pageVars
  BY <1>2 DEF pageVars, OtherServerSteps, OnGraph
<1>3. CASE Poll
  BY <1>3 DEF Poll, serverVars, OtherServerSteps, OnGraph
<1>4. ASSUME NEW g \in Graphs, Receive(g) \/ QueryFails(g) \/ SwitchGraph(g)
      PROVE  OtherServerSteps /\ OnGraph'
  <2>1. UNCHANGED <<rows, call, kuscia, syncer, results>> /\ (used.crash => used'.crash)
    BY <1>4, CrashStays DEF Receive, QueryFails, SwitchGraph, serverVars
  <2>2. OnGraph'
    BY <1>4 DEF Receive, QueryFails, SwitchGraph, Effect, OnGraph
  <2> QED
    BY <2>1, <2>2 DEF OtherServerSteps
<1>5. ASSUME NEW g \in Graphs, NEW selected \in SUBSET NodesOf(g), StartElsewhere(g, selected)
      PROVE  ServerStarts /\ OnGraph'
  BY <1>5 DEF StartElsewhere, pageVars, ServerStarts, OnGraph
<1>6. ASSUME NEW selected \in SUBSET NodesOf(page.graph), StartNodes(selected)
      PROVE  ServerStarts /\ OnGraph'
  BY <1>6 DEF StartNodes, ServerStarts, OnGraph
<1>7. ASSUME NEW j \in Runs, Started(j) PROVE OtherServerSteps /\ OnGraph'
  BY <1>7 DEF Started, OtherServerSteps, OnGraph
<1>8. ASSUME NEW g, NEW jobs, StopList(jobs, g), UNCHANGED pageVars PROVE OtherServerSteps /\ OnGraph'
  BY <1>8, CrashStays DEF StopList, pageVars, OtherServerSteps, OnGraph
<1>9. CASE Stopped
  BY <1>9 DEF Stopped, StopAnswered, OtherServerSteps, OnGraph
<1>10. CASE CrashOfServer
  BY <1>10 DEF CrashOfServer, OtherServerSteps, OnGraph
<1> QED
  BY <1>1, <1>2, <1>3, <1>4, <1>5, <1>6, <1>7, <1>8, <1>9, <1>10 DEF Next, StopGraph, StopNode

LEMMA StepKeeps ==
    ASSUME ProjectJobsAssumption, Inv, ServerStarts \/ OtherServerSteps
    PROVE  Inv'
<1>1. CASE ServerStarts
  BY <1>1, PersistKeeps DEF ServerStarts
<1>2. CASE ServerNext
  <2>1. DOMAIN syncer = {"poll", "watch"}
    BY DEF Inv, Typed
  <2> QED
    BY <1>2, <2>1, StartKeeps, KusciaKeeps, AskKeeps, StopKeeps, LookKeeps, ApplyKeeps, RegisterKeeps
       DEF ServerNext
<1>3. CASE UNCHANGED <<rows, call, kuscia, syncer>>
  BY <1>3, Untouched
<1>4. ASSUME NEW j \in Runs, call' = [call EXCEPT ![j] = "over"], UNCHANGED <<rows, kuscia, syncer>>
      PROVE  Inv'
  BY <1>4, CallMoves
<1>5. CASE Crash
  BY <1>5, CrashKeeps
<1> QED
  BY <1>1, <1>2, <1>3, <1>4, <1>5 DEF OtherServerSteps

LEMMA InitHolds ==
    ASSUME ProjectJobsAssumption, RunStatusAssumption, Init
    PROVE  Inv /\ OnGraph
<1>1. /\ rows = Prior /\ Prior \in Seq(Row)
      /\ call = [j \in DOMAIN Prior |-> "over"] /\ kuscia = [j \in DOMAIN Prior |-> Deleted]
      /\ syncer = [s \in {"poll", "watch"} |-> Resting]
      /\ \A j \in DOMAIN Prior : \A n \in DOMAIN Prior[j].task : Prior[j].task[n] # "RUNNING"
  BY DEF Init, ServerInit, ProjectJobsAssumption
<1>2. DOMAIN Prior = 1 .. Len(Prior) /\ Len(Prior) \in Nat
  BY <1>1
<1>3. call \in [1 .. Len(Prior) -> Calls] /\ kuscia \in [1 .. Len(Prior) -> Answer]
  BY <1>1, <1>2, AnswersTyped DEF Calls
<1>4. call \in Seq(Calls) /\ Len(call) = Len(Prior) /\ kuscia \in Seq(Answer) /\ Len(kuscia) = Len(Prior)
  <2>1. \A S : \A f \in [1 .. Len(Prior) -> S] : f \in Seq(S) /\ Len(f) = Len(Prior)
    BY <1>2
  <2> QED
    BY <1>3, <2>1
<1>5. Typed
  BY <1>1, <1>4, AnswersTyped DEF Typed
<1>6. \A j \in Runs : InStep(j) /\ Idle(rows[j])
  BY <1>1, <1>2, AnswersTyped DEF Runs, InStep, InKuscia, Idle
<1>7. \A s \in {"poll", "watch"} : syncer[s].at = "idle"
  BY <1>1, AnswersTyped
<1>8. OnGraph
  BY DEF Init, OnGraph, RunStatusAssumption
<1> QED
  BY <1>5, <1>6, <1>7, <1>8 DEF Inv

THEOREM Invariance == Spec => [](Inv /\ OnGraph)
<1>1. Init => Inv /\ OnGraph
  BY InitHolds, ProjectJobsAssumption, RunStatusAssumption
<1>2. Inv /\ OnGraph /\ [Next]_vars => (Inv /\ OnGraph)'
  BY NextCases, StepKeeps, ProjectJobsAssumption
<1> QED
  BY <1>1, <1>2, PTL DEF Spec

(* Whatever the poller, the watch stream and stops write, and in whatever  *)
(* order, no task of a finished job is RUNNING: stopProjectJob and         *)
(* updateJob leave none for the page to wait for.                          *)
THEOREM FinishedJobsAreIdle == Spec => []FinishedJobsIdle
<1>1. Inv => FinishedJobsIdle
  BY DEF Inv, Idle, FinishedJobsIdle
<1> QED
  BY <1>1, Invariance, PTL

-----------------------------------------------------------------------------
(* Why a job is marked STOPPED. *)

LEMMA OthersKept ==
    ASSUME NEW q, NEW i, NEW v, NEW j \in DOMAIN q, i # j
    PROVE  [q EXCEPT ![i] = v][j] = q[j]
  OBVIOUS

LEMMA RowsOfStart ==
    ASSUME Inv, NEW i \in Runs
    PROVE  /\ Rollback(i) =>
                /\ Runs' = Runs /\ rows'[i].status = "GONE" /\ DOMAIN rows'[i].task = {}
                /\ \A j \in Runs : i # j => rows'[j] = rows[j]
           /\ GracePasses(i) =>
                /\ Runs' = Runs
                /\ \A j \in Runs : rows'[j].status = rows[j].status /\ rows'[j].task = rows[j].task
<1>1. rows[i] \in Row /\ DOMAIN NoTasks = {}
  BY NoTasksTyped DEF Inv, Typed, Runs
<1>2. CASE Rollback(i)
  <2> DEFINE r == [rows[i] EXCEPT !.status = "GONE", !.task = NoTasks]
  <2>1. rows' = [rows EXCEPT ![i] = r]
    BY <1>2 DEF Rollback
  <2>2. r.status = "GONE" /\ r.task = NoTasks
    BY <1>1 DEF Row
  <2> HIDE DEF r
  <2>3. Runs' = Runs /\ rows'[i] = r
    BY <2>1 DEF Runs
  <2> QED
    BY <1>1, <1>2, <2>1, <2>2, <2>3, OthersKept DEF Runs, GracePasses, Rollback
<1>3. CASE GracePasses(i)
  <2> DEFINE r == [rows[i] EXCEPT !.young = FALSE]
  <2>1. rows' = [rows EXCEPT ![i] = r] /\ ~Rollback(i)
    BY <1>3 DEF GracePasses, Rollback
  <2>2. r.status = rows[i].status /\ r.task = rows[i].task
    BY <1>1 DEF Row
  <2> HIDE DEF r
  <2>3. Runs' = Runs /\ rows'[i] = r
    BY <2>1 DEF Runs
  <2> QED
    BY <2>1, <2>2, <2>3, OthersKept DEF Runs
<1> QED
  BY <1>2, <1>3

LEMMA WhoStops ==
    ASSUME Inv, ServerStarts \/ OtherServerSteps,
           NEW j \in Runs, rows[j].status = "RUNNING", rows'[j].status = "STOPPED"
    PROVE  stopping.at = j \/ Over(j)
<1>1. rows \in Seq(Row) /\ rows[j] \in Row /\ DOMAIN syncer = {"poll", "watch"}
  BY DEF Inv, Typed, Runs
<1>2. rows' # rows
  OBVIOUS
<1>3. ASSUME NEW g, NEW selected, Persist(g, selected) PROVE FALSE
  <2>1. PICK r : rows' = Append(rows, r)
    BY <1>3 DEF Persist
  <2>2. rows'[j] = rows[j]
    BY <1>1, <2>1 DEF Runs
  <2> QED
    BY <2>2
<1>4. ASSUME NEW i \in Runs, Rollback(i) \/ GracePasses(i) PROVE FALSE
  <2>1. rows'[j].status \in {rows[j].status, "GONE"}
    BY <1>4, RowsOfStart
  <2> QED
    BY <2>1
<1>5. ASSUME NEW s \in {"poll", "watch"}, Apply(s) PROVE Over(j)
  <2>1. PICK k : k = syncer[s].job
    OBVIOUS
  <2>2. syncer[s].at = "applying"
    BY <1>5 DEF Apply
  <2>3. k = j
    <3>1. rows' = rows \/ \E r : rows' = [rows EXCEPT ![k] = r]
      BY <1>5, <2>1 DEF Apply, ApplyAnswer, ApplyDeleted, ApplyToNothing
    <3>2. rows'[j] # rows[j]
      OBVIOUS
    <3> QED
      BY <3>1, <3>2, OthersKept DEF Runs
  <2>4. CASE ApplyAnswer(s)
    <3>1. rows'[j] = Updated(rows[j], syncer[s].answer) /\ syncer[s].answer # Deleted
      BY <1>1, <2>1, <2>3, <2>4 DEF ApplyAnswer
    <3>2. syncer[s].answer \in Answer /\ Quiet(syncer[s].answer)
          /\ DOMAIN rows[j].task \subseteq DOMAIN syncer[s].answer.task
      BY <2>1, <2>2, <2>3, <3>1, Applying
    <3>3. syncer[s].answer.state = "Cancelled"
      BY <1>1, <3>1, <3>2, UpdatedIs
    <3> QED
      BY <2>1, <2>2, <2>3, <3>3, Applying
  <2>5. CASE ApplyDeleted(s)
    BY <2>1, <2>2, <2>3, <2>5, Applying DEF ApplyDeleted
  <2> QED
    BY <1>2, <1>5, <2>4, <2>5 DEF Apply, ApplyToNothing
<1>6. CASE StopWrite
  BY <1>1, <1>2, <1>6 DEF StopWrite
<1>7. CASE ServerNext
  <2>1. ASSUME NEW i \in Runs,
               \/ Submit(i) \/ SubmitFails(i) \/ KusciaJobEnds(i) \/ KusciaEndTime(i) \/ Vanish(i)
               \/ \E n \in Nodes : KusciaTask(i, n)
               \/ PollAsk(i) \/ WatchEvent(i) \/ StopKuscia(i) \/ StopFails(i)
        PROVE  rows' = rows
    BY <2>1 DEF Submit, SubmitFails, KusciaJobEnds, KusciaEndTime, Vanish, KusciaTask, OnlyKuscia,
                PollAsk, WatchEvent, StopKuscia, StopFails
  <2>2. ASSUME NEW s \in DOMAIN syncer, Look(s) \/ Register(s) PROVE rows' = rows
    BY <2>2 DEF Look, Register
  <2> QED
    BY <1>1, <1>2, <1>4, <1>5, <1>6, <1>7, <2>1, <2>2 DEF ServerNext
<1> QED
  BY <1>2, <1>3, <1>7 DEF ServerStarts, OtherServerSteps, Crash

(* markJobDeleted of the poller, the only one that could take a job whose  *)
(* start has not reached Kuscia for a deleted one, waits for the row to be *)
(* old; every other STOPPED comes from a stop or from Kuscia itself.       *)
THEOREM StopsHaveReasons == Spec => StoppedForAReason
<1> DEFINE Reason == \A j \in Runs :
                       rows[j].status = "RUNNING" /\ rows'[j].status = "STOPPED" =>
                         \/ stopping.at = j
                         \/ kuscia[j].state # "Running" /\ call[j] # "persisted"
<1>1. Inv /\ OnGraph /\ [Next]_vars => [Reason]_vars
  BY NextCases, WhoStops DEF Over
<1> QED
  BY <1>1, Invariance, PTL DEF Spec, StoppedForAReason

-----------------------------------------------------------------------------
(* Whose results are registered. *)

Due(j, n) ==
    \/ <<j, n>> \in results
    \/ \E s \in {"poll", "watch"} : syncer[s].at = "results" /\ syncer[s].job = j /\ n \in syncer[s].fresh

AllDue == \A j \in Runs : \A n \in DOMAIN rows[j].task : rows[j].task[n] = "SUCCEED" => Due(j, n)

(* What was due stays due, and a new success is due.                       *)
LEMMA DueStays ==
    ASSUME AllDue,
           results \subseteq results',
           \A s \in {"poll", "watch"} : syncer[s].at = "results" =>
               \/ syncer'[s] = syncer[s]
               \/ \A n \in syncer[s].fresh : <<syncer[s].job, n>> \in results',
           \A j \in Runs' : \A n \in DOMAIN rows'[j].task : rows'[j].task[n] = "SUCCEED" =>
               \/ j \in Runs /\ n \in DOMAIN rows[j].task /\ rows[j].task[n] = "SUCCEED"
               \/ Due(j, n)'
    PROVE  AllDue'
<1>1. ASSUME NEW j, NEW n, Due(j, n) PROVE Due(j, n)'
  <2>1. CASE <<j, n>> \in results
    BY <2>1 DEF Due
  <2>2. ASSUME NEW s \in {"poll", "watch"}, syncer[s].at = "results", syncer[s].job = j, n \in syncer[s].fresh
        PROVE  Due(j, n)'
    <3>1. CASE syncer'[s] = syncer[s]
      BY <2>2, <3>1 DEF Due
    <3>2. CASE \A m \in syncer[s].fresh : <<syncer[s].job, m>> \in results'
      BY <2>2, <3>2 DEF Due
    <3> QED
      BY <2>2, <3>1, <3>2
  <2> QED
    BY <1>1, <2>1, <2>2 DEF Due
<1> QED
  BY <1>1 DEF AllDue

LEMMA DueUntouched ==
    ASSUME AllDue, UNCHANGED <<rows, syncer, results>>
    PROVE  AllDue'
  BY DEF AllDue, Due, Runs

(* A row is written whose successes were there or are due.                 *)
LEMMA DueWritten ==
    ASSUME AllDue, NEW j \in Runs, NEW r, rows' = [rows EXCEPT ![j] = r],
           \A n \in DOMAIN r.task : r.task[n] = "SUCCEED" =>
               (n \in DOMAIN rows[j].task /\ rows[j].task[n] = "SUCCEED") \/ Due(j, n)',
           results' = results,
           \A s \in {"poll", "watch"} : syncer[s].at = "results" => syncer'[s] = syncer[s]
    PROVE  AllDue'
<1>1. Runs' = Runs /\ rows'[j] = r
  BY DEF Runs
<1>2. ASSUME NEW i \in Runs', NEW n \in DOMAIN rows'[i].task, rows'[i].task[n] = "SUCCEED"
      PROVE  \/ i \in Runs /\ n \in DOMAIN rows[i].task /\ rows[i].task[n] = "SUCCEED"
             \/ Due(i, n)'
  <2>1. CASE i = j
    BY <1>1, <1>2, <2>1
  <2>2. CASE i # j
    <3>1. rows'[i] = rows[i]
      BY <1>1, <2>2, OthersKept DEF Runs
    <3> QED
      BY <1>1, <1>2, <3>1
  <2> QED
    BY <2>1, <2>2
<1> QED
  BY <1>2, DueStays

LEMMA ApplyIsDue ==
    ASSUME Inv, AllDue, NEW s \in {"poll", "watch"}, Apply(s)
    PROVE  AllDue'
<1>1. PICK j : j = syncer[s].job
  OBVIOUS
<1>2. /\ syncer \in [{"poll", "watch"} -> Record] /\ syncer[s].at = "applying" /\ results' = results
      /\ syncer[s] \in Record
  BY DEF Inv, Typed, Apply
<1>3. j \in Runs /\ rows[j] \in Row
  BY <1>1, <1>2, Applying
<1>4. ASSUME NEW v, syncer' = [syncer EXCEPT ![s] = v]
      PROVE  /\ syncer'[s] = v
             /\ \A o \in {"poll", "watch"} : syncer[o].at = "results" => syncer'[o] = syncer[o]
  BY <1>2, <1>4
<1>5. CASE ApplyAnswer(s)
  <2> DEFINE row == Updated(rows[j], syncer[s].answer)
             fresh == Fresh(rows[j].task, row.task)
             v == IF fresh = {} THEN Resting ELSE [syncer[s] EXCEPT !.at = "results", !.fresh = fresh]
  <2>1. rows' = [rows EXCEPT ![j] = row]
    BY <1>1, <1>5 DEF ApplyAnswer
  <2>2. syncer' = [syncer EXCEPT ![s] = v]
    BY <1>1, <1>5 DEF ApplyAnswer
  <2>3. DOMAIN row.task = DOMAIN rows[j].task
    BY <1>1, <1>2, <1>5, Applying, UpdatedIs DEF ApplyAnswer
  <2>4. \A n \in DOMAIN row.task : row.task[n] = "SUCCEED" =>
           (n \in DOMAIN rows[j].task /\ rows[j].task[n] = "SUCCEED") \/ n \in fresh
    BY <2>3 DEF Fresh
  <2> HIDE DEF row, fresh
  <2>5. fresh # {} => v.at = "results" /\ v.job = j /\ v.fresh = fresh
    BY <1>1, <1>2 DEF Record
  <2> HIDE DEF v
  <2>6. syncer'[s] = v
    BY <1>4, <2>2
  <2>7. \A n \in fresh : Due(j, n)'
    BY <2>5, <2>6 DEF Due
  <2>8. \A o \in {"poll", "watch"} : syncer[o].at = "results" => syncer'[o] = syncer[o]
    BY <1>4, <2>2
  <2>9. \A n \in DOMAIN row.task : row.task[n] = "SUCCEED" =>
           (n \in DOMAIN rows[j].task /\ rows[j].task[n] = "SUCCEED") \/ Due(j, n)'
    BY <2>4, <2>7
  <2> QED
    BY <1>2, <1>3, <2>1, <2>8, <2>9, DueWritten
<1>6. CASE ApplyDeleted(s)
  <2>1. rows' = [rows EXCEPT ![j] = StopRow(rows[j])] /\ syncer' = [syncer EXCEPT ![s] = Resting]
    BY <1>1, <1>6 DEF ApplyDeleted
  <2>2. \A n \in DOMAIN StopRow(rows[j]).task : StopRow(rows[j]).task[n] = "SUCCEED" =>
           n \in DOMAIN rows[j].task /\ rows[j].task[n] = "SUCCEED"
    BY <1>3, StopRowIs
  <2>3. \A o \in {"poll", "watch"} : syncer[o].at = "results" => syncer'[o] = syncer[o]
    BY <1>4, <2>1
  <2> QED
    BY <1>2, <1>3, <2>1, <2>2, <2>3, DueWritten
<1>7. CASE ApplyToNothing(s)
  <2>1. rows' = rows /\ syncer' = [syncer EXCEPT ![s] = Resting]
    BY <1>7 DEF ApplyToNothing
  <2>2. \A o \in {"poll", "watch"} : syncer[o].at = "results" => syncer'[o] = syncer[o]
    BY <1>4, <2>1
  <2> QED
    BY <1>2, <2>1, <2>2, DueStays DEF Runs
<1> QED
  BY <1>5, <1>6, <1>7 DEF Apply

LEMMA RegisterIsDue ==
    ASSUME Inv, AllDue, NEW s \in {"poll", "watch"}, Register(s)
    PROVE  AllDue'
<1>1. /\ results' = results \union {<<syncer[s].job, n>> : n \in syncer[s].fresh}
      /\ syncer' = [syncer EXCEPT ![s] = Resting] /\ rows' = rows
      /\ syncer \in [{"poll", "watch"} -> Record]
  BY DEF Register, Inv, Typed
<1>2. \A o \in {"poll", "watch"} : o # s => syncer'[o] = syncer[o]
  BY <1>1
<1>3. \A n \in syncer[s].fresh : <<syncer[s].job, n>> \in results'
  BY <1>1
<1>4. results \subseteq results'
  BY <1>1
<1> QED
  BY <1>1, <1>2, <1>3, <1>4, DueStays DEF Runs

LEMMA ServerKeepsDue ==
    ASSUME Inv, AllDue, ServerNext
    PROVE  AllDue'
<1>0. DOMAIN syncer = {"poll", "watch"} /\ rows \in Seq(Row) /\ syncer \in [{"poll", "watch"} -> Record]
  BY DEF Inv, Typed
<1>1. ASSUME NEW j \in Runs,
             \/ Submit(j) \/ SubmitFails(j) \/ KusciaJobEnds(j) \/ KusciaEndTime(j) \/ Vanish(j)
             \/ \E n \in Nodes : KusciaTask(j, n)
             \/ StopKuscia(j) \/ StopFails(j)
      PROVE  AllDue'
  <2>1. UNCHANGED <<rows, syncer, results>>
    BY <1>1 DEF Submit, SubmitFails, KusciaJobEnds, KusciaEndTime, Vanish, KusciaTask, OnlyKuscia,
                StopKuscia, StopFails
  <2> QED
    BY <2>1, DueUntouched
<1>2. ASSUME NEW j \in Runs, Rollback(j) \/ GracePasses(j) PROVE AllDue'
  <2>1. UNCHANGED <<syncer, results>>
    BY <1>2 DEF Rollback, GracePasses
  <2>2. \A i \in Runs' : \A n \in DOMAIN rows'[i].task : rows'[i].task[n] = "SUCCEED" =>
            i \in Runs /\ n \in DOMAIN rows[i].task /\ rows[i].task[n] = "SUCCEED"
    BY <1>2, RowsOfStart
  <2> QED
    BY <2>1, <2>2, DueStays
<1>3. ASSUME NEW s \in {"poll", "watch"}, NEW v, syncer[s].at \in {"idle", "holding"},
             syncer' = [syncer EXCEPT ![s] = v], UNCHANGED <<rows, results>>
      PROVE  AllDue'
  <2>1. \A o \in {"poll", "watch"} : syncer[o].at = "results" => syncer'[o] = syncer[o]
    BY <1>0, <1>3
  <2> QED
    BY <1>3, <2>1, DueStays DEF Runs
<1>4. ASSUME NEW j \in Runs, PollAsk(j) \/ WatchEvent(j) PROVE AllDue'
  <2>1. CASE UNCHANGED syncer
    BY <1>4, <2>1, DueUntouched DEF PollAsk, WatchEvent
  <2>2. UNCHANGED <<rows, results>>
    BY <1>4 DEF PollAsk, WatchEvent
  <2>3. ASSUME NEW s \in {"poll", "watch"}, NEW a, syncer[s].at = "idle", Holds(s, j, a) PROVE AllDue'
    <3>1. PICK v : v = [at |-> "holding", job |-> j, answer |-> a, fresh |-> {}]
      OBVIOUS
    <3>2. syncer' = [syncer EXCEPT ![s] = v]
      BY <2>3, <3>1 DEF Holds
    <3>3. \A o \in {"poll", "watch"} : syncer[o].at = "results" => syncer'[o] = syncer[o]
      BY <1>0, <2>3, <3>2
    <3> QED
      BY <2>2, <3>3, DueStays DEF Runs
  <2> QED
    BY <1>4, <2>1, <2>3 DEF PollAsk, WatchEvent
<1>5. ASSUME NEW s \in {"poll", "watch"}, Look(s) PROVE AllDue'
  <2> DEFINE v == [syncer[s] EXCEPT !.at = "applying"]
  <2>1. syncer' = [syncer EXCEPT ![s] = Resting] \/ syncer' = [syncer EXCEPT ![s] = v]
    BY <1>5 DEF Look
  <2>2. syncer[s].at = "holding" /\ UNCHANGED <<rows, results>>
    BY <1>5 DEF Look
  <2> QED
    BY <1>3, <2>1, <2>2
<1>6. CASE StopWrite
  <2>1. PICK j : j = stopping.at
    OBVIOUS
  <2>2. UNCHANGED <<syncer, results>>
    BY <1>6 DEF StopWrite
  <2>3. CASE rows' = rows
    BY <2>2, <2>3, DueUntouched
  <2>4. CASE j \in Runs /\ rows' = [rows EXCEPT ![j] = StopRow(rows[j])]
    <3>1. \A n \in DOMAIN StopRow(rows[j]).task : StopRow(rows[j]).task[n] = "SUCCEED" =>
             n \in DOMAIN rows[j].task /\ rows[j].task[n] = "SUCCEED"
      BY <1>0, <2>4, StopRowIs DEF Runs
    <3> QED
      BY <2>2, <2>4, <3>1, DueWritten
  <2>5. j \notin Runs => rows' = rows
    BY <1>0, <1>6, <2>1 DEF StopWrite, Runs
  <2> QED
    BY <1>6, <2>1, <2>3, <2>4, <2>5 DEF StopWrite
<1> QED
  BY <1>0, <1>1, <1>2, <1>4, <1>5, <1>6, ApplyIsDue, RegisterIsDue DEF ServerNext

LEMMA DueOrCrash ==
    ASSUME Inv, used.crash \/ AllDue, ServerStarts \/ OtherServerSteps
    PROVE  (used.crash \/ AllDue)'
<1>1. ASSUME used.crash PROVE used'.crash
  <2>1. ASSUME NEW j \in Runs,
               \/ Submit(j) \/ Rollback(j) \/ GracePasses(j) \/ KusciaJobEnds(j) \/ KusciaEndTime(j)
               \/ (\E n \in Nodes : KusciaTask(j, n)) \/ PollAsk(j) \/ StopFails(j)
        PROVE  used' = used
    BY <2>1 DEF Submit, Rollback, GracePasses, KusciaTask, KusciaJobEnds, KusciaEndTime, PollAsk, StopFails
  <2>2. ASSUME NEW j \in Runs, SubmitFails(j) \/ Vanish(j) \/ WatchEvent(j) \/ StopKuscia(j)
        PROVE  used'.crash
    <3>1. Disturbed("fault") \/ Disturbed("vanish") \/ Disturbed("event") \/ used' = used
      BY <2>2 DEF SubmitFails, Vanish, WatchEvent, StopKuscia
    <3> QED
      BY <1>1, <3>1, CrashStays
  <2>3. ASSUME NEW s \in DOMAIN syncer, Look(s) \/ Apply(s) \/ Register(s) PROVE used' = used
    BY <2>3 DEF Look, Apply, Register
  <2>4. ServerNext => used'.crash
    BY <1>1, <2>1, <2>2, <2>3 DEF ServerNext, StopWrite
  <2>5. ServerStarts => used'.crash
    BY <1>1 DEF ServerStarts, Persist
  <2>6. Crash => used'.crash
    BY CrashStays DEF Crash
  <2> QED
    BY <1>1, <2>4, <2>5, <2>6 DEF OtherServerSteps
<1>2. ASSUME AllDue, NEW g, NEW selected, Persist(g, selected) PROVE AllDue'
  <2> DEFINE row == [graph |-> g, status |-> "RUNNING", young |-> TRUE,
                     task |-> [n \in selected |-> "INITIALIZED"]]
  <2>1. rows' = Append(rows, row) /\ UNCHANGED <<syncer, results>>
    BY <1>2 DEF Persist
  <2>2. \A n \in DOMAIN row.task : row.task[n] # "SUCCEED"
    OBVIOUS
  <2> HIDE DEF row
  <2>3. /\ Runs' = Runs \cup {Len(rows) + 1} /\ rows'[Len(rows) + 1] = row
        /\ \A j \in Runs : rows'[j] = rows[j]
    <3>1. rows \in Seq(Row)
      BY DEF Inv, Typed
    <3> QED
      BY <2>1, <3>1 DEF Runs
  <2> QED
    BY <1>2, <2>1, <2>2, <2>3, DueStays
<1>3. CASE Crash
  BY <1>3, CrashStays DEF Crash
<1>4. ASSUME AllDue, UNCHANGED <<rows, syncer, results>> PROVE AllDue'
  BY <1>4, DueUntouched
<1> QED
  BY <1>1, <1>2, <1>3, <1>4, ServerKeepsDue DEF ServerStarts, OtherServerSteps

(* syncResult runs after the commit, outside of its transaction: whoever   *)
(* wrote the success registers the outputs, and no other answer takes that *)
(* from it; only a crash of the process does.                              *)
THEOREM ResultsAreRegistered == Spec => []ResultsRegistered
<1>1. ASSUME Init PROVE AllDue
  <2>1. /\ rows = Prior /\ Prior \in Seq(Row)
        /\ results = {o \in (DOMAIN Prior) \X Nodes :
                        o[2] \in DOMAIN Prior[o[1]].task /\ Prior[o[1]].task[o[2]] = "SUCCEED"}
    BY <1>1, ProjectJobsAssumption DEF Init, ServerInit, ProjectJobsAssumption
  <2>2. ASSUME NEW j \in Runs, NEW n \in DOMAIN rows[j].task, rows[j].task[n] = "SUCCEED"
        PROVE  <<j, n>> \in results
    <3>1. n \in Nodes
      BY <2>1, <2>2, RowTasks DEF Runs
    <3> QED
      BY <2>1, <2>2, <3>1 DEF Runs
  <2> QED
    BY <2>2 DEF AllDue, Due
<1>2. Inv /\ OnGraph /\ (used.crash \/ AllDue) /\ [Next]_vars => (used.crash \/ AllDue)'
  BY NextCases, DueOrCrash
<1>3. Inv /\ (used.crash \/ AllDue) => ResultsRegistered
  BY DEF Inv, Typed, AllDue, Due, ResultsRegistered
<1> QED
  BY <1>1, <1>2, <1>3, Invariance, PTL DEF Spec

-----------------------------------------------------------------------------
(* What the page takes for the end of a run. *)

(* The latest of some runs. *)
LEMMA Latest ==
    ASSUME NEW N \in Nat, NEW jobs, jobs \subseteq 1 .. N, jobs # {}
    PROVE  \E j \in jobs : \A i \in jobs : i <= j
<1> DEFINE s == {N - j : j \in jobs}
           R == {p \in Nat \X Nat : p[1] < p[2]}
<1>1. s \subseteq Nat /\ s # {}
  <2>1. \A j \in jobs : j \in 1 .. N /\ N - j \in Nat
    OBVIOUS
  <2>2. PICK j : j \in jobs
    OBVIOUS
  <2>3. N - j \in s
    BY <2>2
  <2> QED
    BY <2>1, <2>3
<1>2. IsWellFoundedOn(R, Nat)
  BY NatLessThanWellFounded DEF OpToRel
<1>3. \A x, y \in Nat : ~(<<y, x>> \in R) => x <= y
  OBVIOUS
<1> HIDE DEF R
<1>4. \E x \in s : \A y \in s : x <= y
  <2> HIDE DEF s
  <2>1. \E x \in s : \A y \in s : ~(<<y, x>> \in R)
    BY <1>1, <1>2, WFMin
  <2> QED
    BY <1>1, <1>3, <2>1
<1>5. PICK j \in jobs : \A y \in s : N - j <= y
  BY <1>4
<1>6. ASSUME NEW i \in jobs PROVE i <= j
  <2>1. N - j <= N - i /\ i \in Int /\ j \in Int
    BY <1>5
  <2> QED
    BY <2>1
<1> QED
  BY <1>6

(* An answer of a later reading: it is about run j, or about later ones.   *)
Current(data, j) == data = NoData \/ \A n \in DOMAIN rows[j].task : data.from[n] >= j

(* Runs are of the nodes of their graph. *)
Placed == \A j \in Runs : DOMAIN rows[j].task \subseteq NodesOf(rows[j].graph)

Tellings == {"nothing", "success", "failed", "stopped"}
Page == [graph : Graphs, requested : BOOLEAN, active : BOOLEAN, polls : Nat, told : Tellings, asked : Nat]

PageTyped ==
    /\ page \in Page
    /\ page.asked \in {0} \cup Runs
    /\ DOMAIN query = Graphs /\ DOMAIN cache = Graphs

(* While the page waits for a run, only the first answer can be older than *)
(* the run.                                                                *)
Watches ==
    page.requested /\ page.asked # 0 /\ rows[page.asked].graph = page.graph =>
        \/ page.polls = 0 /\ ~page.active
        \/ Current(query[page.graph], page.asked)

(* Rows stay, of the same graph, and lose tasks at most. *)
RowsStay ==
    /\ Runs \subseteq Runs'
    /\ \A j \in Runs : /\ rows'[j].graph = rows[j].graph
                       /\ DOMAIN rows'[j].task \subseteq DOMAIN rows[j].task

LEMMA RowReplaced ==
    ASSUME NEW i \in Runs, NEW r, rows' = [rows EXCEPT ![i] = r],
           r.graph = rows[i].graph, DOMAIN r.task \subseteq DOMAIN rows[i].task
    PROVE  RowsStay /\ Runs' = Runs
<1>1. Runs' = Runs /\ rows'[i] = r
  BY DEF Runs
<1>2. ASSUME NEW j \in Runs
      PROVE  rows'[j].graph = rows[j].graph /\ DOMAIN rows'[j].task \subseteq DOMAIN rows[j].task
  BY <1>1, OthersKept DEF Runs
<1> QED
  BY <1>1, <1>2 DEF RowsStay

LEMMA ServerKeepsRows ==
    ASSUME Inv, ServerNext
    PROVE  RowsStay /\ Runs' = Runs
<1>1. rows \in Seq(Row) /\ DOMAIN syncer = {"poll", "watch"} /\ \A j \in Runs : rows[j] \in Row
  BY DEF Inv, Typed, Runs
<1>2. CASE UNCHANGED rows
  BY <1>2 DEF RowsStay, Runs
<1>3. ASSUME NEW i \in Runs, Rollback(i) PROVE RowsStay /\ Runs' = Runs
  <2> DEFINE r == [rows[i] EXCEPT !.status = "GONE", !.task = NoTasks]
  <2>1. rows' = [rows EXCEPT ![i] = r]
    BY <1>3 DEF Rollback
  <2>2. r.graph = rows[i].graph /\ DOMAIN r.task \subseteq DOMAIN rows[i].task
    BY <1>1, NoTasksTyped DEF Row
  <2> HIDE DEF r
  <2> QED
    BY <2>1, <2>2, RowReplaced
<1>4. ASSUME NEW i \in Runs, GracePasses(i) PROVE RowsStay /\ Runs' = Runs
  <2> DEFINE r == [rows[i] EXCEPT !.young = FALSE]
  <2>1. rows' = [rows EXCEPT ![i] = r]
    BY <1>4 DEF GracePasses
  <2>2. r.graph = rows[i].graph /\ DOMAIN r.task \subseteq DOMAIN rows[i].task
    BY <1>1 DEF Row
  <2> HIDE DEF r
  <2> QED
    BY <2>1, <2>2, RowReplaced
<1>5. ASSUME NEW i \in Runs, rows' = [rows EXCEPT ![i] = StopRow(rows[i])]
      PROVE  RowsStay /\ Runs' = Runs
  <2>1. StopRow(rows[i]).graph = rows[i].graph /\ DOMAIN StopRow(rows[i]).task = DOMAIN rows[i].task
    BY <1>1, StopRowIs DEF StopRow, Row
  <2> QED
    BY <1>5, <2>1, RowReplaced
<1>6. ASSUME NEW s \in {"poll", "watch"}, Apply(s) PROVE RowsStay /\ Runs' = Runs
  <2>1. PICK i : i = syncer[s].job
    OBVIOUS
  <2>2. syncer[s].at = "applying"
    BY <1>6 DEF Apply
  <2>3. i \in Runs
    BY <2>1, <2>2, Applying
  <2>4. CASE ApplyAnswer(s)
    <3> DEFINE r == Updated(rows[i], syncer[s].answer)
    <3>1. rows' = [rows EXCEPT ![i] = r] /\ syncer[s].answer # Deleted
      BY <2>1, <2>4 DEF ApplyAnswer
    <3>2. DOMAIN r.task = DOMAIN rows[i].task
      BY <1>1, <2>1, <2>2, <3>1, Applying, UpdatedIs
    <3>3. r.graph = rows[i].graph
      BY <1>1, <2>3 DEF Updated, Row
    <3> HIDE DEF r
    <3> QED
      BY <2>3, <3>1, <3>2, <3>3, RowReplaced
  <2>5. CASE ApplyDeleted(s)
    BY <1>5, <2>1, <2>3, <2>5 DEF ApplyDeleted
  <2>6. CASE ApplyToNothing(s)
    BY <1>2, <2>6 DEF ApplyToNothing
  <2> QED
    BY <1>6, <2>4, <2>5, <2>6 DEF Apply
<1>7. CASE StopWrite
  <2>1. PICK i : i = stopping.at
    OBVIOUS
  <2>2. CASE i \in Runs
    BY <1>2, <1>5, <1>7, <2>1, <2>2 DEF StopWrite
  <2>3. CASE i \notin Runs
    <3>1. rows' = rows
      BY <1>1, <1>7, <2>1, <2>3 DEF StopWrite, Runs
    <3> QED
      BY <1>2, <3>1
  <2> QED
    BY <2>2, <2>3
<1>8. ASSUME NEW i \in Runs,
             \/ Submit(i) \/ SubmitFails(i) \/ KusciaJobEnds(i) \/ KusciaEndTime(i) \/ Vanish(i)
             \/ \E n \in Nodes : KusciaTask(i, n)
             \/ PollAsk(i) \/ WatchEvent(i) \/ StopKuscia(i) \/ StopFails(i)
      PROVE  rows' = rows
  BY <1>8 DEF Submit, SubmitFails, KusciaJobEnds, KusciaEndTime, Vanish, KusciaTask, OnlyKuscia,
              PollAsk, WatchEvent, StopKuscia, StopFails
<1>9. ASSUME NEW s \in {"poll", "watch"}, Look(s) \/ Register(s) PROVE rows' = rows
  BY <1>9 DEF Look, Register
<1> QED
  BY <1>1, <1>2, <1>3, <1>4, <1>6, <1>7, <1>8, <1>9 DEF ServerNext

LEMMA StartKeepsRows ==
    ASSUME Inv, Placed, NEW g \in Graphs, NEW selected, Persist(g, selected)
    PROVE  RowsStay /\ Placed'
<1> DEFINE row == [graph |-> g, status |-> "RUNNING", young |-> TRUE,
                   task |-> [n \in selected |-> "INITIALIZED"]]
<1>1. rows' = Append(rows, row) /\ selected \subseteq NodesOf(g) /\ rows \in Seq(Row)
  BY DEF Persist, Inv, Typed
<1>2. row.graph = g /\ DOMAIN row.task = selected
  OBVIOUS
<1> HIDE DEF row
<1>3. /\ Runs' = Runs \cup {Len(rows) + 1} /\ rows'[Len(rows) + 1] = row
      /\ \A j \in Runs : rows'[j] = rows[j]
  BY <1>1 DEF Runs
<1>4. RowsStay
  BY <1>3 DEF RowsStay
<1>5. ASSUME NEW j \in Runs' PROVE DOMAIN rows'[j].task \subseteq NodesOf(rows'[j].graph)
  BY <1>1, <1>2, <1>3, <1>5 DEF Placed
<1> QED
  BY <1>4, <1>5 DEF Placed

LEMMA StepKeepsRows ==
    ASSUME Inv, Placed, ServerStarts \/ OtherServerSteps
    PROVE  RowsStay /\ Placed'
<1>1. CASE ServerStarts
  BY <1>1, StartKeepsRows DEF ServerStarts
<1>2. CASE RowsStay /\ Runs' = Runs
  BY <1>2 DEF RowsStay, Placed
<1>3. CASE UNCHANGED rows
  BY <1>2, <1>3 DEF RowsStay, Runs
<1> QED
  BY <1>1, <1>2, <1>3, ServerKeepsRows DEF OtherServerSteps, Crash

(* What the server answers now is about run j or later ones.               *)
LEMMA StatusIsCurrent ==
    ASSUME Typed, Placed, NEW j \in Runs, NEW g, rows[j].graph = g
    PROVE  Current(NodeStatus(g), j)
<1> SUFFICES ASSUME NEW n \in DOMAIN rows[j].task PROVE NodeStatus(g).from[n] >= j
  BY DEF Current
<1> DEFINE jobs == {i \in Runs : n \in DOMAIN rows[i].task}
<1>1. n \in NodesOf(g)
  BY DEF Placed
<1>2. NodeStatus(g).from[n] = LatestJob(n)
  BY <1>1 DEF NodeStatus
<1>3. j \in jobs /\ jobs \subseteq 1 .. Len(rows) /\ Len(rows) \in Nat
  BY SameDomains DEF Typed
<1>4. \E k \in jobs : \A i \in jobs : i <= k
  <2> HIDE DEF jobs
  <2> QED
    BY <1>3, Latest
<1>5. LatestJob(n) = CHOOSE k \in jobs : \A i \in jobs : i <= k
  BY <1>3 DEF LatestJob
<1>6. LatestJob(n) \in jobs /\ \A i \in jobs : i <= LatestJob(n)
  <2> HIDE DEF jobs
  <2> QED
    BY <1>4, <1>5
<1>7. j <= LatestJob(n) /\ LatestJob(n) \in Nat /\ j \in Nat
  <2> HIDE DEF jobs
  <2>1. j <= LatestJob(n) /\ LatestJob(n) \in 1 .. Len(rows) /\ j \in 1 .. Len(rows)
    BY <1>3, <1>6
  <2> QED
    BY <1>3, <2>1
<1> QED
  BY <1>2, <1>7

LEMMA StaysCurrent ==
    ASSUME RowsStay, NEW j \in Runs, NEW data, Current(data, j)
    PROVE  Current(data, j)'
  BY DEF RowsStay, Current

(* The query of the open graph keeps its fetch, loses it or reads anew.    *)
LEMMA WatchesStays ==
    ASSUME Inv, Placed, PageTyped, Watches, RowsStay,
           page'.graph = page.graph, page'.requested => page.requested,
           page'.requested =>
               /\ page'.asked = page.asked
               /\ page'.polls = page.polls /\ page'.active = page.active
               /\ query'[page.graph] \in {query[page.graph], NoData, NodeStatus(page.graph)}
    PROVE  Watches'
<1> SUFFICES ASSUME NEW j, j = page'.asked, NEW data, data = query'[page'.graph],
                    page'.requested, j # 0, rows'[j].graph = page'.graph
             PROVE  (page'.polls = 0 /\ ~page'.active) \/ Current(data, j)'
  BY DEF Watches, Current
<1>1. j \in Runs /\ j = page.asked /\ rows[j].graph = page.graph /\ data = query'[page.graph]
  BY DEF PageTyped, RowsStay
<1>2. CASE page.polls = 0 /\ ~page.active
  BY <1>2
<1>3. CASE data = query[page.graph] /\ Current(data, j)
  BY <1>1, <1>3, StaysCurrent
<1>4. CASE data = NoData
  BY <1>4 DEF Current
<1>5. CASE data = NodeStatus(page.graph)
  <2>1. Current(data, j)
    BY <1>1, <1>5, StatusIsCurrent DEF Inv
  <2> QED
    BY <1>1, <2>1, StaysCurrent
<1> QED
  BY <1>1, <1>2, <1>3, <1>4, <1>5 DEF Watches

PageInv == Placed /\ PageTyped /\ Watches

LEMMA PageWaits ==
    ASSUME NEW p \in Page, NEW n \in Nat, NEW b \in BOOLEAN
    PROVE  LET q == [p EXCEPT !.polls = n, !.active = b, !.told = "nothing"]
           IN  q \in Page /\ q.graph = p.graph /\ q.asked = p.asked /\ q.requested = p.requested
  BY DEF Page, Tellings

LEMMA PageEnds ==
    ASSUME NEW p \in Page, NEW n \in Nat, NEW t \in Tellings
    PROVE  LET q == [p EXCEPT !.polls = n, !.active = FALSE, !.requested = FALSE, !.asked = 0, !.told = t]
           IN  q \in Page /\ q.graph = p.graph /\ q.asked = 0 /\ q.requested = FALSE
  BY DEF Page

(* The effect on data: it keeps the shape of the page, and either waits on *)
(* or forgets the run.                                                     *)
LEMMA EffectIs ==
    ASSUME NEW p \in Page, NEW data
    PROVE  LET after == Effect(p, data)
           IN  /\ after \in Page /\ after.graph = p.graph
               /\ after.asked \in {0, p.asked}
               /\ after.requested => p.requested /\ after.asked = p.asked
               /\ p.requested /\ ~after.requested =>
                    /\ ~shouldPollStatus(data, TRUE)
                    /\ p.polls = 0 /\ ~p.active => IsActive(data)
<1> DEFINE polls   == IF p.requested /\ p.polls < MaxWait THEN p.polls + 1 ELSE p.polls
           active  == IsActive(data)
           waiting == p.requested /\ ~p.active /\ ~active /\ polls < MaxWait
           again   == shouldPollStatus(data, p.requested)
           either  == p.active \/ active
           told    == IF p.active \/ p.requested THEN result(data) ELSE "nothing"
           waits   == [p EXCEPT !.polls = polls, !.active = either, !.told = "nothing"]
           ends    == [p EXCEPT !.polls = polls, !.active = FALSE, !.requested = FALSE, !.asked = 0,
                                !.told = told]
<1>1. Effect(p, data) = IF waiting \/ again THEN waits ELSE ends
  BY Zenon DEF Effect
<1>2. polls \in Nat /\ (p.requested /\ p.polls = 0 => polls < MaxWait)
  BY DEF Page, MaxWait
<1>3. told \in Tellings
  BY DEF result, Tellings
<1>4. either \in BOOLEAN
  BY Zenon DEF IsActive
<1>5. p.requested /\ ~again => ~shouldPollStatus(data, TRUE)
  <2>1. p.requested => p.requested = TRUE
    BY DEF Page
  <2> QED
    BY <2>1
<1> HIDE DEF polls, active, again, told, either
<1>6. CASE waiting \/ again
  <2>1. waits \in Page /\ waits.graph = p.graph /\ waits.asked = p.asked
        /\ waits.requested = p.requested
    BY <1>2, <1>4, PageWaits
  <2>2. Effect(p, data) = waits
    BY <1>1, <1>6
  <2> HIDE DEF waits
  <2> QED
    BY <2>1, <2>2
<1>7. CASE ~(waiting \/ again)
  <2>1. ends \in Page /\ ends.graph = p.graph /\ ends.asked = 0 /\ ends.requested = FALSE
    BY <1>2, <1>3, PageEnds
  <2>2. p.requested /\ p.polls = 0 /\ ~p.active => active
    BY <1>2, <1>7
  <2>3. Effect(p, data) = ends
    BY <1>1, <1>7
  <2> HIDE DEF ends
  <2> QED
    BY <1>5, <1>7, <2>1, <2>2, <2>3 DEF active
<1> QED
  BY <1>6, <1>7

-----------------------------------------------------------------------------
(* The steps of the page. *)

(* An answer to the open graph's query. *)
LEMMA ReceiveWatches ==
    ASSUME PageInv, NEW g \in Graphs, Receive(g)
    PROVE  PageInv'
<1>1. UNCHANGED rows /\ Runs' = Runs /\ query' = [query EXCEPT ![g] = NoData]
      /\ cache' = [cache EXCEPT ![g] = query[g]]
  BY DEF Receive, serverVars, Runs
<1>2. Placed' /\ DOMAIN query' = Graphs /\ DOMAIN cache' = Graphs
  BY <1>1 DEF PageInv, Placed, PageTyped
<1>3. CASE g = page.graph
  <2>1. page' = Effect(page, query[g]) /\ page \in Page
    BY <1>3 DEF Receive, PageInv, PageTyped
  <2>2. /\ page' \in Page /\ page'.graph = page.graph /\ page'.asked \in {0, page.asked}
    BY <2>1, EffectIs
  <2>3. query'[page'.graph] = NoData
    BY <1>1, <1>3, <2>2 DEF PageInv, PageTyped
  <2> QED
    BY <1>1, <1>2, <2>2, <2>3 DEF PageInv, PageTyped, Watches, Current, NoData
<1>4. CASE g # page.graph
  <2>1. page' = page /\ query'[page.graph] = query[page.graph]
    BY <1>1, <1>4 DEF Receive, PageInv, PageTyped, Page
  <2> QED
    BY <1>1, <1>2, <2>1 DEF PageInv, PageTyped, Watches, Current
<1> QED
  BY <1>3, <1>4

LEMMA SwitchWatches ==
    ASSUME PageInv, NEW g \in Graphs, SwitchGraph(g)
    PROVE  PageInv'
<1> DEFINE p == IF cache[g] = NoData THEN [page EXCEPT !.told = "nothing"] ELSE Effect(page, cache[g])
<1>1. p \in Page /\ p.asked \in {0, page.asked}
  <2>1. page \in Page
    BY DEF PageInv, PageTyped
  <2>2. [page EXCEPT !.told = "nothing"] \in Page /\ [page EXCEPT !.told = "nothing"].asked = page.asked
    BY <2>1 DEF Page, Tellings
  <2>3. Effect(page, cache[g]) \in Page /\ Effect(page, cache[g]).asked \in {0, page.asked}
    BY <2>1, EffectIs
  <2> QED
    BY <2>2, <2>3
<1>2. page' = [p EXCEPT !.graph = g, !.requested = FALSE, !.active = FALSE, !.asked = 0]
  BY DEF SwitchGraph
<1> HIDE DEF p
<1>3. page' \in Page /\ page'.requested = FALSE /\ page'.asked = 0
  BY <1>1, <1>2 DEF Page
<1>4. UNCHANGED <<rows, cache>> /\ Runs' = Runs /\ DOMAIN query' = Graphs
  BY DEF SwitchGraph, Fetch, Runs, PageInv, PageTyped
<1> QED
  BY <1>3, <1>4 DEF PageInv, PageTyped, Placed, Watches

LEMMA StartedWatches ==
    ASSUME PageInv, NEW j \in Runs, j \in Nat, Started(j)
    PROVE  PageInv'
<1>1. UNCHANGED <<rows, cache>> /\ Runs' = Runs
  BY DEF Started, Runs
<1>2. CASE j \in pending
  <2>1. page' = [page EXCEPT !.requested = TRUE, !.polls = 0, !.active = FALSE, !.asked = j]
    BY <1>2 DEF Started
  <2>2. page' \in Page /\ page'.polls = 0 /\ page'.active = FALSE /\ page'.asked = j
    BY <2>1 DEF Page, PageInv, PageTyped
  <2>3. DOMAIN query' = Graphs
    BY <1>2 DEF Started, Invalidated, Fetch, PageInv, PageTyped
  <2> QED
    BY <1>1, <2>2, <2>3 DEF PageInv, PageTyped, Placed, Watches
<1>3. CASE j \notin pending
  BY <1>1, <1>3 DEF Started, PageInv, PageTyped, Placed, Watches, Current
<1> QED
  BY <1>2, <1>3

(* The open graph's query is read anew, left or dropped; the page is not   *)
(* touched.                                                                *)
LEMMA QuietWatches ==
    ASSUME Inv, PageInv, RowsStay, Placed', UNCHANGED <<page, cache>>,
           DOMAIN query' = Graphs,
           query'[page.graph] \in {query[page.graph], NoData, NodeStatus(page.graph)}
    PROVE  PageInv'
<1>1. Watches'
  BY WatchesStays DEF PageInv
<1>2. PageTyped'
  BY DEF PageInv, PageTyped, RowsStay
<1> QED
  BY <1>1, <1>2 DEF PageInv

LEMMA Refreshed ==
    ASSUME PageTyped, NEW g
    PROVE  /\ DOMAIN Fetch(g) = Graphs /\ DOMAIN Invalidated(g) = Graphs
           /\ Fetch(g)[page.graph] \in {query[page.graph], NodeStatus(page.graph)}
           /\ Invalidated(g)[page.graph] \in {query[page.graph], NodeStatus(page.graph)}
<1>1. DOMAIN query = Graphs /\ page.graph \in Graphs
  BY DEF PageTyped, Page
<1>2. \A v : [query EXCEPT ![g] = v][page.graph] = IF g = page.graph THEN v ELSE query[page.graph]
  BY <1>1
<1>3. DOMAIN Fetch(g) = Graphs /\ Fetch(g)[page.graph] \in {query[page.graph], NodeStatus(page.graph)}
  BY <1>1, <1>2 DEF Fetch
<1> QED
  BY <1>1, <1>2, <1>3 DEF Invalidated

LEMMA StepWatches ==
    ASSUME Inv, OnGraph, PageInv, [Next]_vars
    PROVE  PageInv'
<1>1. RowsStay /\ Placed'
  BY NextCases, StepKeepsRows DEF PageInv
<1>2. page.graph \in Graphs /\ DOMAIN query = Graphs
  BY DEF PageInv, PageTyped, Page
<1>3. CASE UNCHANGED pageVars
  BY <1>1, <1>2, <1>3, QuietWatches DEF pageVars
<1>4. CASE Poll
  BY <1>1, <1>2, <1>4, QuietWatches, Refreshed DEF Poll, PageInv
<1>5. ASSUME NEW g \in Graphs, QueryFails(g) PROVE PageInv'
  <2>1. DOMAIN query' = Graphs /\ query'[page.graph] \in {query[page.graph], NoData}
    BY <1>2, <1>5 DEF QueryFails
  <2> QED
    BY <1>1, <1>5, <2>1, QuietWatches DEF QueryFails
<1>6. ASSUME NEW g \in Graphs, Receive(g) \/ SwitchGraph(g) PROVE PageInv'
  BY <1>6, ReceiveWatches, SwitchWatches
<1>7. ASSUME NEW selected, StartNodes(selected) PROVE PageInv'
  BY <1>1, <1>2, <1>7, QuietWatches DEF StartNodes
<1>8. ASSUME NEW j \in Runs, Started(j) PROVE PageInv'
  <2>1. j \in Nat
    BY SameDomains DEF Inv, Typed
  <2> QED
    BY <1>8, <2>1, StartedWatches
<1>9. CASE Stopped
  BY <1>1, <1>9, QuietWatches, Refreshed DEF Stopped, PageInv
<1>10. CASE CrashOfServer
  <2>1. DOMAIN query' = Graphs /\ query'[page.graph] = NoData
    BY <1>2, <1>10 DEF CrashOfServer
  <2> QED
    BY <1>1, <1>10, <2>1, QuietWatches DEF CrashOfServer
<1> QED
  BY <1>3, <1>4, <1>5, <1>6, <1>7, <1>8, <1>9, <1>10
     DEF Next, vars, pageVars, StartElsewhere

(* Only the answer to the open graph's query ends the wait, and the first  *)
(* one only when it shows a task that is queued.                           *)
LEMMA EndIsCurrent ==
    ASSUME Inv, PageInv, [Next]_vars,
           page.requested, ~page'.requested, page.asked # 0, page'.graph = page.graph,
           rows[page.asked].graph = page.graph
    PROVE  \/ \A n \in DOMAIN rows[page.asked].task : cache'[page.graph].from[n] >= page.asked
           \/ page.polls = 0 /\ "INITIALIZED" \in Statuses(cache'[page.graph])
<1>1. page' # page /\ page \in Page /\ DOMAIN cache = Graphs
  BY DEF PageInv, PageTyped
<1>2. ASSUME NEW j \in Runs, Started(j) PROVE FALSE
  <2>1. page' = [page EXCEPT !.requested = TRUE, !.polls = 0, !.active = FALSE, !.asked = j]
    BY <1>1, <1>2 DEF Started
  <2> QED
    BY <1>1, <2>1 DEF Page
<1>3. ASSUME NEW g \in Graphs, SwitchGraph(g) PROVE FALSE
  <2> DEFINE p == IF cache[g] = NoData THEN [page EXCEPT !.told = "nothing"] ELSE Effect(page, cache[g])
  <2>1. p \in Page
    BY <1>1, EffectIs DEF Page, Tellings
  <2>2. page' = [p EXCEPT !.graph = g, !.requested = FALSE, !.active = FALSE, !.asked = 0]
    BY <1>3 DEF SwitchGraph
  <2> HIDE DEF p
  <2>3. page'.graph = g
    BY <2>1, <2>2 DEF Page
  <2> QED
    BY <1>3, <2>3 DEF SwitchGraph
<1>4. Receive(page.graph)
  <2>1. ASSUME NEW g \in Graphs, Receive(g) PROVE g = page.graph
    BY <1>1, <2>1 DEF Receive
  <2> QED
    BY <1>1, <1>2, <1>3, <2>1
       DEF Next, vars, pageVars, Poll, QueryFails, StartNodes, StartElsewhere, Stopped, CrashOfServer
<1> DEFINE g == page.graph
           answer == query[g]
<1>5. answer # NoData /\ page' = Effect(page, answer) /\ cache'[g] = answer
  BY <1>1, <1>4 DEF Receive, Page
<1>6. ~shouldPollStatus(answer, TRUE) /\ (page.polls = 0 /\ ~page.active => IsActive(answer))
  BY <1>1, <1>5, EffectIs
<1>7. CASE Current(answer, page.asked)
  BY <1>5, <1>7 DEF Current
<1>8. CASE page.polls = 0 /\ ~page.active
  <2>1. Statuses(answer) \cap Active # {} /\ "RUNNING" \notin Statuses(answer)
    BY <1>5, <1>6, <1>8 DEF IsActive, shouldPollStatus
  <2> QED
    BY <1>5, <1>8, <2>1 DEF Active
<1> QED
  BY <1>7, <1>8 DEF PageInv, Watches

LEMMA PageStarts ==
    ASSUME ProjectJobsAssumption, RunStatusAssumption, Init
    PROVE  PageInv
<1>1. rows = Prior /\ Prior \in Seq(Row)
      /\ \A j \in DOMAIN Prior : \A n \in DOMAIN Prior[j].task : GraphOf[n] = Prior[j].graph
  BY DEF Init, ServerInit, ProjectJobsAssumption
<1>2. Placed
  <2>1. ASSUME NEW j \in Runs, NEW n \in DOMAIN rows[j].task PROVE n \in NodesOf(rows[j].graph)
    <3>1. n \in Nodes
      BY <1>1, <2>1, RowTasks DEF Runs
    <3> QED
      BY <1>1, <2>1, <3>1 DEF Runs, NodesOf
  <2> QED
    BY <2>1 DEF Placed
<1>3. page \in Page /\ page.asked = 0
  BY DEF Init, Page, Tellings, RunStatusAssumption
<1>4. DOMAIN query = Graphs /\ DOMAIN cache = Graphs
  BY DEF Init
<1> QED
  BY <1>2, <1>3, <1>4 DEF PageInv, PageTyped, Watches

(* useNodeStatus does not take what it hears of an earlier run of the same *)
(* nodes for the end of the run it waits for: all answers but the first    *)
(* after the start were read after it, and the first one ends the wait     *)
(* only when it shows a task that an earlier run has left queued.          *)
THEOREM EndsAreOfThisRun == Spec => NoEarlierRound
<1> DEFINE OfThisRun ==
             LET j == page.asked
                 answer == cache'[page.graph]
             IN  /\ page.requested /\ ~page'.requested
                 /\ j # 0 /\ page'.graph = page.graph
                 /\ rows[j].graph = page.graph
                 => \/ \A n \in DOMAIN rows[j].task : answer.from[n] >= j
                    \/ page.polls = 0 /\ "INITIALIZED" \in Statuses(answer)
<1>1. Init => PageInv
  BY PageStarts, ProjectJobsAssumption, RunStatusAssumption
<1>2. Inv /\ OnGraph /\ PageInv /\ [Next]_vars => PageInv'
  BY StepWatches
<1>3. Inv /\ PageInv /\ [Next]_vars => [OfThisRun]_vars
  BY EndIsCurrent
<1> QED
  BY <1>1, <1>2, <1>3, Invariance, PTL DEF Spec, NoEarlierRound
=============================================================================
