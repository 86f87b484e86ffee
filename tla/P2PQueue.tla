------------------------------ MODULE P2PQueue ------------------------------
(***************************************************************************)
(* The AUTONOMY change feed of one institution: internal/service/sync.     *)
(* A write to a synchronised table emits a change event from a GORM        *)
(* callback, still inside the writer's transaction (producer.go); an       *)
(* AsyncSink hands it to one worker; P2PSync.Push appends a copy to the    *)
(* queue of every peer, persists the queue to a file and triggers a drain  *)
(* worker (p2p.go); the worker posts the head of the queue to the peer,    *)
(* whose Consumer applies it to the peer's database, the last arrival      *)
(* winning (consumer.go).                                                  *)
(*                                                                         *)
(* A change is its number in the history log; a queued ChangeEvent is that *)
(* number and its failed attempts.  A row's contents are the number of the *)
(* change that wrote it.                                                   *)
(***************************************************************************)
EXTENDS Integers, Sequences, FiniteSets

CONSTANTS
    Peers,         \* the destinations P2PSync.pad computes
    Rows,          \* business keys (ChangeEvent.Key)
    Workers,       \* identities of the goroutines trigger starts
    MaxRetries,    \* P2PSync.maxRetries (3 by default)
    SinkCap,       \* buffer of the AsyncSink channel (4096 by default)
    EarlyWrites,   \* may rows be written between NewManager and Start?
    NoPeer,        \* model value: no destination
    MaxChanges,    \* bound: rows written in a behaviour
    MaxPostFaults, \* bound: posts that return an error
    MaxDiskFaults, \* bound: queue files that could not be written
    MaxRollbacks,  \* bound: transactions rolled back after emitting
    MaxStops,      \* bound: graceful stops
    MaxCrashes     \* bound: crashes

ASSUME P2PAssumption ==
    /\ Peers # {} /\ IsFiniteSet(Peers) /\ NoPeer \notin Peers
    /\ Rows # {} /\ Workers # {}
    /\ MaxRetries \in Nat \ {0}
    /\ SinkCap \in Nat \ {0}
    /\ EarlyWrites \in BOOLEAN
    /\ {MaxChanges, MaxPostFaults, MaxDiskFaults, MaxRollbacks, MaxStops,
        MaxCrashes} \subseteq Nat

VARIABLES
    phase,     \* life cycle of the process
    row,       \* committed rows of the local database
    open,      \* per row: the change emitted by its open transaction, or 0
    sink,      \* AsyncSink.ch
    push,      \* the sink worker inside P2PSync.Push
    queue,     \* P2PSync.queues
    disk,      \* the persisted queue files
    working,   \* P2PSync.working
    worker,    \* the drain goroutines
    load,      \* P2PSync.Load in progress
    peer,      \* the rows of the peers' databases
    log,       \* history: every change emitted
    refused,   \* history: changes pushed after the sink was closed
    accepted,  \* history: changes enqueued per peer
    sent,      \* history: changes a peer has applied
    dropped,   \* history: changes given up after MaxRetries failures
    faults     \* how much of each bound has been used

local   == <<row, open>>
intake  == <<sink, push>>
drains  == <<working, worker>>
history == <<accepted, sent, dropped>>
vars == <<phase, row, open, sink, push, queue, disk, working, worker, load,
          peer, log, refused, accepted, sent, dropped, faults>>

Ids == DOMAIN log
ActionOf(i) == log[i].action
RowOf(i)    == log[i].row

\* ChangeEvent, as a queue holds it.
Event   == [id : Ids, tries : 0 .. MaxRetries - 1]
NoEvent == [id |-> 0, tries |-> 0]

Idle    == [pc |-> "idle", dst |-> NoPeer, ev |-> NoEvent, err |-> FALSE]
NoPush  == [id |-> 0, todo |-> {}, trig |-> NoPeer]
NoLoad  == [todo |-> {}, cur |-> NoPeer, buf |-> <<>>]

\* The manager exists and the producer's callbacks feed the sink.
Live     == phase \in {"boot", "loading", "up", "stopping", "closed"}
\* P2PSync.started is set and stopCh is still open.
Started  == phase \in {"up", "stopping"}
-----------------------------------------------------------------------------
(* The queue of a destination. *)

\* The entries of q at the positions in I, in their order.
Keep(q, I) ==
    [j \in 1 .. Cardinality(I) |->
        q[CHOOSE i \in I : Cardinality({m \in I : m <= i}) = j]]

IsUpdateOf(ev, k) == ActionOf(ev.id) = "update" /\ RowOf(ev.id) = k

\* Fault variant of Supersede: every pending event of the row is removed.
SupersedeRow(q, i) ==
    IF ActionOf(i) = "update"
    THEN Keep(q, {n \in DOMAIN q : RowOf(q[n].id) # RowOf(i)})
    ELSE q

\* enqueue: pending updates of the row are removed when an update arrives.
Supersede(q, i) ==
    IF ActionOf(i) = "update"
    THEN Keep(q, {n \in DOMAIN q : ~IsUpdateOf(q[n], RowOf(i))})
    ELSE q

\* Fault variants of Enqueued: the new event goes first; an update is skipped
\* while one of its row is pending.
EnqueuedFirst(q, i) == <<[id |-> i, tries |-> 0]>> \o Supersede(q, i)
EnqueuedOnce(q, i) ==
    IF ActionOf(i) = "update" /\ \E n \in DOMAIN q : IsUpdateOf(q[n], RowOf(i))
    THEN q ELSE Append(q, [id |-> i, tries |-> 0])

\* enqueue: the new event goes last.
Enqueued(q, i) == Append(Supersede(q, i), [id |-> i, tries |-> 0])

\* Fault variants of LastTry: one attempt too many, one too few.
LastTryLate(ev)  == ev.tries >= MaxRetries
LastTryEarly(ev) == ev.tries + 2 >= MaxRetries

\* Drain: one more failure and the event is not retried.
LastTry(ev) == ev.tries + 1 >= MaxRetries

\* Fault variant of Settled: the head is removed whatever it is.
SettledBlind(q, ev, err) ==
    LET rest == IF q # <<>> THEN Tail(q) ELSE q
    IN  IF err /\ ~LastTry(ev) THEN Append(rest, [ev EXCEPT !.tries = @ + 1])
                               ELSE rest

\* Drain after the post: the head is removed if it is still the event posted;
\* a failed event, superseded meanwhile or not, goes to the tail.
Settled(q, ev, err) ==
    LET rest == IF q # <<>> /\ Head(q) = ev THEN Tail(q) ELSE q
    IN  IF err /\ ~LastTry(ev) THEN Append(rest, [ev EXCEPT !.tries = @ + 1])
                               ELSE rest

\* persistLocked: an error creating, writing or renaming leaves the old file.
Persist(d, q) ==
    \/ /\ disk' = [disk EXCEPT ![d] = q]
       /\ UNCHANGED faults
    \/ /\ faults.disk < MaxDiskFaults
       /\ faults' = [faults EXCEPT !.disk = @ + 1]
       /\ UNCHANGED disk

\* Fault variant of Trigger: the working map is not consulted.
TriggerAlways(d) ==
    IF Started
    THEN \E g \in Workers :
           /\ worker[g].pc = "idle"
           /\ working' = [working EXCEPT ![d] = TRUE]
           /\ worker' = [worker EXCEPT ![g] = [Idle EXCEPT !.pc = "peek", !.dst = d]]
    ELSE UNCHANGED drains

\* trigger: start a worker for d unless one runs, or the loop does not.
Trigger(d) ==
    IF Started /\ ~working[d]
    THEN \E g \in Workers :
           /\ worker[g].pc = "idle"
           /\ working' = [working EXCEPT ![d] = TRUE]
           /\ worker' = [worker EXCEPT ![g] = [Idle EXCEPT !.pc = "peek", !.dst = d]]
    ELSE UNCHANGED drains
-----------------------------------------------------------------------------
(* Writers.  The event is emitted before the transaction commits. *)

\* AsyncSink.Push: blocks on a full buffer, drops the event once closed.
SinkPush(i) ==
    IF phase \in {"stopping", "closed"}
    THEN refused' = refused \cup {i} /\ UNCHANGED sink
    ELSE /\ Len(sink) < SinkCap
         /\ sink' = Append(sink, i)
         /\ UNCHANGED refused

Writable == phase \in {"up", "stopping", "closed"} \/ (EarlyWrites /\ Live)

Write(k, action) ==
    /\ Writable
    /\ open[k] = 0
    /\ row[k].live <=> action # "create"
    /\ Len(log) < MaxChanges
    /\ log' = Append(log, [row |-> k, action |-> action])
    /\ open' = [open EXCEPT ![k] = Len(log) + 1]
    /\ SinkPush(Len(log) + 1)
    /\ UNCHANGED <<phase, row, push, queue, disk, working, worker, load, peer,
                   accepted, sent, dropped, faults>>

Commit(k) ==
    /\ open[k] # 0
    /\ row' = [row EXCEPT ![k] = [id |-> open[k], live |-> ActionOf(open[k]) # "delete"]]
    /\ open' = [open EXCEPT ![k] = 0]
    /\ UNCHANGED <<phase, sink, push, queue, disk, working, worker, load, peer,
                   log, refused, accepted, sent, dropped, faults>>

\* The event stays in the feed: nothing recalls it.
Rollback(k) ==
    /\ open[k] # 0
    /\ faults.rollback < MaxRollbacks
    /\ faults' = [faults EXCEPT !.rollback = @ + 1]
    /\ open' = [open EXCEPT ![k] = 0]
    /\ UNCHANGED <<phase, row, sink, push, queue, disk, working, worker, load,
                   peer, log, refused, accepted, sent, dropped>>
-----------------------------------------------------------------------------
(* The sink worker: P2PSync.Push, one destination after the other. *)

TakeSink ==
    /\ Live /\ push = NoPush /\ sink # <<>>
    /\ push' = [id |-> Head(sink), todo |-> Peers, trig |-> NoPeer]
    /\ sink' = Tail(sink)
    /\ UNCHANGED <<phase, row, open, queue, disk, working, worker, load, peer,
                   log, refused, accepted, sent, dropped, faults>>

Enqueue(d) ==
    /\ d \in push.todo /\ push.trig = NoPeer
    /\ queue' = [queue EXCEPT ![d] = Enqueued(@, push.id)]
    /\ Persist(d, queue'[d])
    /\ accepted' = [accepted EXCEPT ![d] = @ \cup {push.id}]
    /\ push' = [push EXCEPT !.todo = @ \ {d}, !.trig = d]
    /\ UNCHANGED <<phase, row, open, sink, working, worker, load, peer, log,
                   refused, sent, dropped>>

EnqueueTrigger ==
    /\ push.trig # NoPeer
    /\ Trigger(push.trig)
    /\ push' = IF push.todo = {} THEN NoPush ELSE [push EXCEPT !.trig = NoPeer]
    /\ UNCHANGED <<phase, row, open, sink, queue, disk, load, peer, log,
                   refused, accepted, sent, dropped, faults>>
-----------------------------------------------------------------------------
(* The periodic sender and the drain workers. *)

Tick(d) ==
    /\ Started /\ queue[d] # <<>> /\ ~working[d]
    /\ Trigger(d)
    /\ UNCHANGED <<phase, row, open, sink, push, queue, disk, load, peer, log,
                   refused, accepted, sent, dropped, faults>>

\* Drain: the head is read under qmu; the post happens without it.
Peek(g) ==
    /\ worker[g].pc = "peek"
    /\ LET q == queue[worker[g].dst]
       IN  worker' = [worker EXCEPT ![g] =
               IF q = <<>> THEN [@ EXCEPT !.pc = "exit"]
                           ELSE [@ EXCEPT !.pc = "post", !.ev = Head(q)]]
    /\ UNCHANGED <<phase, row, open, sink, push, queue, disk, working, load,
                   peer, log, refused, accepted, sent, dropped, faults>>

\* Consumer.Apply: upsert or soft delete by business key, last arrival wins.
\* A row that is not live remembers the delete that was last applied to it.
Applied(rows, i) ==
    [rows EXCEPT ![RowOf(i)] = [id |-> i, live |-> ActionOf(i) # "delete"]]

\* PostDataSync: the peer may have applied a post that returns an error.
Post(g) ==
    LET d == worker[g].dst
        i == worker[g].ev.id
    IN
    /\ worker[g].pc = "post"
    /\ \E reached, err \in BOOLEAN :
         /\ reached \/ err
         /\ IF err THEN /\ faults.post < MaxPostFaults
                        /\ faults' = [faults EXCEPT !.post = @ + 1]
                   ELSE UNCHANGED faults
         /\ IF reached THEN /\ peer' = [peer EXCEPT ![d] = Applied(@, i)]
                            /\ sent' = [sent EXCEPT ![d] = @ \cup {i}]
                       ELSE UNCHANGED <<peer, sent>>
         /\ worker' = [worker EXCEPT ![g].pc = "settle", ![g].err = err]
    /\ UNCHANGED <<phase, row, open, sink, push, queue, disk, working, load,
                   log, refused, accepted, dropped>>

Settle(g) ==
    LET d  == worker[g].dst
        ev == worker[g].ev
        err == worker[g].err
    IN
    /\ worker[g].pc = "settle"
    /\ queue' = [queue EXCEPT ![d] = Settled(@, ev, err)]
    /\ Persist(d, queue'[d])
    /\ dropped' = IF err /\ LastTry(ev) THEN [dropped EXCEPT ![d] = @ \cup {ev.id}] ELSE dropped
    /\ worker' = [worker EXCEPT ![g].pc = IF err THEN "exit" ELSE "peek",
                                ![g].ev = NoEvent, ![g].err = FALSE]
    /\ UNCHANGED <<phase, row, open, sink, push, working, load, peer, log,
                   refused, accepted, sent>>

\* Fault variant of Exit: the destination stays marked as working.
ExitStillWorking(g) ==
    /\ worker[g].pc = "exit"
    /\ worker' = [worker EXCEPT ![g] = Idle]
    /\ UNCHANGED <<phase, row, open, sink, push, queue, disk, working, load, peer,
                   log, refused, accepted, sent, dropped, faults>>

\* The goroutine's deferred delete(working, dst).
Exit(g) ==
    /\ worker[g].pc = "exit"
    /\ working' = [working EXCEPT ![worker[g].dst] = FALSE]
    /\ worker' = [worker EXCEPT ![g] = Idle]
    /\ UNCHANGED <<phase, row, open, sink, push, queue, disk, load, peer, log,
                   refused, accepted, sent, dropped, faults>>
-----------------------------------------------------------------------------
(* Life cycle: boot, Load, Start, Stop, crash. *)

\* What a process that ends takes with it; open transactions are aborted.
LoseMemory ==
    /\ phase' = "down"
    /\ open' = [k \in Rows |-> 0]
    /\ sink' = <<>>
    /\ push' = NoPush
    /\ queue' = [d \in Peers |-> <<>>]
    /\ working' = [d \in Peers |-> FALSE]
    /\ worker' = [g \in Workers |-> Idle]
    /\ load' = NoLoad
    /\ UNCHANGED <<row, disk, peer, log, refused, accepted, sent, dropped>>

\* NewManager: the producer's callbacks are registered, nothing runs yet.
Boot ==
    /\ phase = "down"
    /\ phase' = "boot"
    /\ UNCHANGED <<row, open, sink, push, queue, disk, working, worker, load,
                   peer, log, refused, accepted, sent, dropped, faults>>

\* Load: os.ReadDir lists the queue files.
ListFiles ==
    /\ phase = "boot"
    /\ phase' = "loading"
    /\ load' = [NoLoad EXCEPT !.todo = {d \in Peers : disk[d] # <<>>}]
    /\ UNCHANGED <<row, open, sink, push, queue, disk, working, worker, peer,
                   log, refused, accepted, sent, dropped, faults>>

\* Fault variant of ReadFile: the file is removed once read.
ReadFileOnce(d) ==
    /\ d \in load.todo /\ load.cur = NoPeer
    /\ load' = [todo |-> load.todo \ {d}, cur |-> d, buf |-> disk[d]]
    /\ disk' = [disk EXCEPT ![d] = <<>>]
    /\ UNCHANGED <<phase, row, open, sink, push, queue, working, worker,
                   peer, log, refused, accepted, sent, dropped, faults>>

\* Load: a file is read without qmu ...
ReadFile(d) ==
    /\ d \in load.todo /\ load.cur = NoPeer
    /\ load' = [todo |-> load.todo \ {d}, cur |-> d, buf |-> disk[d]]
    /\ UNCHANGED <<phase, row, open, sink, push, queue, disk, working, worker,
                   peer, log, refused, accepted, sent, dropped, faults>>

\* ... and prepended to what has accumulated in memory, with qmu.
MergeFile ==
    /\ load.cur # NoPeer
    /\ queue' = [queue EXCEPT ![load.cur] = load.buf \o @]
    /\ load' = [load EXCEPT !.cur = NoPeer, !.buf = <<>>]
    /\ UNCHANGED <<phase, row, open, sink, push, disk, working, worker, peer,
                   log, refused, accepted, sent, dropped, faults>>

\* Start: started.Store(true) and the ticker runs.
StartLoop ==
    /\ phase = "loading" /\ load = NoLoad
    /\ phase' = "up"
    /\ UNCHANGED <<row, open, sink, push, queue, disk, working, worker, load,
                   peer, log, refused, accepted, sent, dropped, faults>>

\* Manager.Stop: AsyncSink.Stop closes the channel and waits for its worker ...
StopSink ==
    /\ phase = "up" /\ faults.stop < MaxStops
    /\ faults' = [faults EXCEPT !.stop = @ + 1]
    /\ phase' = "stopping"
    /\ UNCHANGED <<row, open, sink, push, queue, disk, working, worker, load,
                   peer, log, refused, accepted, sent, dropped>>

\* Fault variant of StopLoop: the sink worker is not waited for.
StopLoopAtOnce ==
    /\ phase = "stopping"
    /\ phase' = "closed"
    /\ UNCHANGED <<row, open, sink, push, queue, disk, working, worker, load,
                   peer, log, refused, accepted, sent, dropped, faults>>

\* ... then P2PSync.Stop closes stopCh ...
StopLoop ==
    /\ phase = "stopping" /\ sink = <<>> /\ push = NoPush
    /\ phase' = "closed"
    /\ UNCHANGED <<row, open, sink, push, queue, disk, working, worker, load,
                   peer, log, refused, accepted, sent, dropped, faults>>

\* ... and waits for the workers; the process then ends.
StopProcess ==
    /\ phase = "closed"
    /\ \A g \in Workers : worker[g].pc = "idle"
    /\ \A k \in Rows : open[k] = 0
    /\ LoseMemory
    /\ UNCHANGED faults

Crash ==
    /\ Live /\ faults.crash < MaxCrashes
    /\ faults' = [faults EXCEPT !.crash = @ + 1]
    /\ LoseMemory
-----------------------------------------------------------------------------
Init ==
    /\ phase = "boot"
    /\ row = [k \in Rows |-> [id |-> 0, live |-> FALSE]]
    /\ open = [k \in Rows |-> 0]
    /\ sink = <<>>
    /\ push = NoPush
    /\ queue = [d \in Peers |-> <<>>]
    /\ disk = [d \in Peers |-> <<>>]
    /\ working = [d \in Peers |-> FALSE]
    /\ worker = [g \in Workers |-> Idle]
    /\ load = NoLoad
    /\ peer = [d \in Peers |-> [k \in Rows |-> [id |-> 0, live |-> FALSE]]]
    /\ log = <<>>
    /\ refused = {}
    /\ accepted = [d \in Peers |-> {}]
    /\ sent = [d \in Peers |-> {}]
    /\ dropped = [d \in Peers |-> {}]
    /\ faults = [post |-> 0, disk |-> 0, rollback |-> 0, stop |-> 0, crash |-> 0]

Writer == \E k \in Rows :
    \/ \E a \in {"create", "update", "delete"} : Write(k, a)
    \/ Commit(k)
    \/ Rollback(k)
SinkWorker == TakeSink \/ EnqueueTrigger \/ \E d \in Peers : Enqueue(d)
Drain(g)   == Peek(g) \/ Post(g) \/ Settle(g) \/ Exit(g)
Loader     == ListFiles \/ MergeFile \/ StartLoop \/ \E d \in Peers : ReadFile(d)
Stopper    == StopSink \/ StopLoop \/ StopProcess

Next ==
    \/ Writer
    \/ SinkWorker
    \/ \E d \in Peers : Tick(d)
    \/ \E g \in Workers : Drain(g)
    \/ Loader
    \/ Stopper
    \/ Boot
    \/ Crash

Spec == Init /\ [][Next]_vars

\* Goroutines that can run eventually do; the ticker keeps ticking; a
\* transaction ends.  Nobody owes a write, a stop, a crash or a restart.
Fairness ==
    /\ WF_vars(SinkWorker)
    /\ WF_vars(Loader)
    /\ \A g \in Workers : WF_vars(Drain(g))
    /\ \A d \in Peers : WF_vars(Tick(d))
    /\ \A k \in Rows : WF_vars(Commit(k) \/ Rollback(k))

FairSpec == Spec /\ Fairness
-----------------------------------------------------------------------------
(* Properties. *)

Change == [row : Rows, action : {"create", "update", "delete"}]
Copy   == [id : Nat, live : BOOLEAN]

\* Every variable keeps its type: in particular no queued or persisted event
\* has used up its attempts (Drain's ev.Retries < p.maxRetries) and no event
\* refers to a change that was never emitted.
TypeOK ==
    /\ phase \in {"down", "boot", "loading", "up", "stopping", "closed"}
    /\ row \in [Rows -> Copy]
    /\ open \in [Rows -> Ids \cup {0}]
    /\ log \in Seq(Change)
    /\ sink \in Seq(Ids)
    /\ push \in [id : Ids \cup {0}, todo : SUBSET Peers, trig : Peers \cup {NoPeer}]
    /\ queue \in [Peers -> Seq(Event)]
    /\ disk \in [Peers -> Seq(Event)]
    /\ working \in [Peers -> BOOLEAN]
    /\ worker \in [Workers -> [pc : {"idle", "peek", "post", "settle", "exit"},
                               dst : Peers \cup {NoPeer},
                               ev : Event \cup {NoEvent}, err : BOOLEAN]]
    /\ load \in [todo : SUBSET Peers, cur : Peers \cup {NoPeer}, buf : Seq(Event)]
    /\ peer \in [Peers -> [Rows -> Copy]]
    /\ refused \in SUBSET Ids
    /\ accepted \in [Peers -> SUBSET Ids]
    /\ sent \in [Peers -> SUBSET Ids]
    /\ dropped \in [Peers -> SUBSET Ids]
    /\ faults \in [{"post", "disk", "rollback", "stop", "crash"} -> Nat]

\* trigger's working map: two goroutines never drain the same destination at
\* once, however enqueue, the ticker and an exiting worker interleave.
OneDrainPerPeer ==
    \A g, h \in Workers :
        /\ worker[g].pc # "idle"
        /\ worker[h].pc # "idle"
        /\ worker[g].dst = worker[h].dst
        => g = h

QueuedIds(q) == {q[n].id : n \in DOMAIN q}

\* A later update of the same row has been enqueued for d.
Superseded(d, i) ==
    /\ ActionOf(i) = "update"
    /\ \E j \in accepted[d] : /\ j > i
                             /\ ActionOf(j) = "update"
                             /\ RowOf(j) = RowOf(i)

\* The feed's promise: whenever the process may die, a change accepted for a
\* peer has been applied there, was given up after its attempts, was
\* superseded by a later update of its row, or is in the file Load restores.
NoSilentLoss ==
    \A d \in Peers : \A i \in accepted[d] :
        \/ i \in sent[d] \cup dropped[d]
        \/ i \in QueuedIds(disk[d])
        \/ Superseded(d, i)

LeavesForAReason ==
    \A d \in Peers : \A i \in QueuedIds(queue[d]) \ QueuedIds(queue'[d]) :
        \/ i \in sent[d] \cup dropped'[d]
        \/ Superseded(d, i)'
        \/ phase' = "down"

\* A superseding update never removes the create or the delete of the row,
\* and a change leaves a live queue only sent, given up or superseded.
LeavesQueueForAReason == [][LeavesForAReason]_vars

\* Giving a change up costs MaxRetries failed posts, across restarts too: the
\* attempts are counted per event and persisted with it.
GivenUpOnlyAfterRetries ==
    LET GivenUp == {c \in Peers \X Ids : c[2] \in dropped[c[1]]}
    IN  Cardinality(GivenUp) * MaxRetries <= faults.post

\* While no post and no file write fails, a peer applies the changes of a row
\* in the order they were made: an older update is not applied after a newer
\* one, nor an update or a create after the delete that followed it, neither
\* by superseding nor by the repeated delivery that follows a crash between a
\* post and its persist.
InOrderWithoutFailures ==
    [][faults'.post = 0 /\ faults'.disk = 0 =>
         \A d \in Peers, k \in Rows : peer'[d][k].id >= peer[d][k].id]_vars

\* AsyncSink.Stop and P2PSync.Stop: without a crash, every change emitted
\* before the sink closed reaches the queue of every peer.
StopKeepsEmitted ==
    faults.crash = 0 =>
        \A i \in Ids \ refused :
            \/ \E n \in DOMAIN sink : sink[n] = i
            \/ \A d \in Peers : i \in accepted[d] \/ (push.id = i /\ d \in push.todo)

\* The ticker makes up for a trigger that found the worker on its way out: a
\* queue does not stay non-empty while the process runs.
QueueDrains ==
    \A d \in Peers :
        (Started /\ queue[d] # <<>>) ~> (queue[d] = <<>> \/ ~Started)

\* With no failure the peers end up with the rows of the local database.
Converges ==
    [](\A f \in DOMAIN faults : faults[f] = 0) =>
        <>[](\A d \in Peers, k \in Rows :
                /\ peer[d][k].live = row[k].live
                /\ row[k].live => peer[d][k].id = row[k].id)

\* The comment in enqueue, "Pending updates of the same row are superseded by
\* the newer one": no update waits behind a newer update of its row.
SupersededUpdatesAreGone ==
    \A d \in Peers : \A m, n \in DOMAIN queue[d] :
        /\ m < n
        /\ IsUpdateOf(queue[d][m], RowOf(queue[d][n].id))
        /\ ActionOf(queue[d][n].id) = "update"
        => queue[d][m].id <= queue[d][n].id

\* The comments of trigger and Start: before Start changes only accumulate in
\* the queues, and Load restores what was persisted.
StartRestoresQueues == NoSilentLoss
-----------------------------------------------------------------------------
(* What the feed promises: see Outbox.  The queue file is the state of the  *)
(* promise, so a crash is a stuttering step.                                *)
Promise == INSTANCE Outbox WITH
    owed <- [d \in Peers |-> QueuedIds(disk[d])]
Promised == Promise!Spec
=============================================================================
