-------------------------- MODULE P2PPromiseProofs --------------------------
(***************************************************************************)
(* The change feed of P2PQueue keeps the promise of Outbox, and the order   *)
(* of the changes of a row while nothing fails.                            *)
(***************************************************************************)
EXTENDS P2PQueueProofs

-----------------------------------------------------------------------------
(* What enqueue and Drain leave in a queue, exactly.                        *)

\* No change is twice in the queue q.
Unique(q) == \A m, n \in DOMAIN q : q[m].id = q[n].id => m = n

\* The head of q is ev, or q no longer holds ev, an update.
HeadOrGone(q, ev) ==
    \/ q # <<>> /\ Head(q) = ev
    \/ ev.id \notin QueuedIds(q) /\ ActionOf(ev.id) = "update"

LEMMA AppendEntries ==
    ASSUME NEW S, NEW q \in Seq(S), NEW e \in S
    PROVE  /\ Append(q, e) \in Seq(S) /\ Append(q, e) # <<>>
           /\ DOMAIN q = 1 .. Len(q) /\ Len(q) \in Nat
           /\ DOMAIN Append(q, e) = 1 .. Len(q) + 1
           /\ Append(q, e)[Len(q) + 1] = e
           /\ \A n \in DOMAIN q : Append(q, e)[n] = q[n]
           /\ q # <<>> => Head(Append(q, e)) = Head(q)
<1>1. Append(q, e) \in Seq(S) /\ Len(Append(q, e)) = Len(q) + 1 /\ Len(q) \in Nat
  BY AppendProperties, LenProperties
<1>2. /\ DOMAIN q = 1 .. Len(q) /\ DOMAIN Append(q, e) = 1 .. Len(q) + 1
      /\ Append(q, e)[Len(q) + 1] = e
      /\ \A n \in 1 .. Len(q) : Append(q, e)[n] = q[n]
  BY <1>1, AppendProperties, LenProperties
<1>3. Append(q, e) # <<>> /\ Head(Append(q, e)) = Append(q, e)[1]
  BY <1>1, AppendProperties, HeadTailProperties
<1>4. q # <<>> => Head(q) = q[1] /\ 1 \in DOMAIN q
  <2> SUFFICES ASSUME q # <<>> PROVE Head(q) = q[1] /\ 1 \in DOMAIN q
    OBVIOUS
  <2>1. Len(q) # 0
    BY EmptySeq
  <2> QED BY <1>1, <1>2, <2>1, HeadTailProperties
<1> QED BY <1>1, <1>2, <1>3, <1>4

LEMMA TailEntries ==
    ASSUME NEW S, NEW q \in Seq(S), q # <<>>
    PROVE  /\ Tail(q) \in Seq(S) /\ Len(q) \in Nat /\ Len(q) >= 1
           /\ DOMAIN q = 1 .. Len(q) /\ DOMAIN Tail(q) = 1 .. Len(q) - 1
           /\ \A n \in DOMAIN Tail(q) : Tail(q)[n] = q[n + 1]
           /\ Head(q) = q[1]
<1>1. /\ Tail(q) \in Seq(S) /\ Len(Tail(q)) = Len(q) - 1 /\ Len(q) \in Nat
      /\ \A n \in 1 .. Len(Tail(q)) : Tail(q)[n] = q[n + 1]
      /\ Head(q) = q[1]
  BY HeadTailProperties, LenProperties
<1>2. Len(q) # 0
  BY EmptySeq
<1> QED BY <1>1, <1>2, LenProperties

\* enqueue removes exactly the pending updates of the row, and keeps the order
\* of what stays.
LEMMA SupersedeExactly ==
    ASSUME NEW q \in Seq(Event), NEW i \in Ids
    PROVE  /\ Supersede(q, i) \in Seq(Event)
           /\ \E at \in [DOMAIN Supersede(q, i) -> DOMAIN q] :
                /\ \A j \in DOMAIN Supersede(q, i) : Supersede(q, i)[j] = q[at[j]]
                /\ \A j, k \in DOMAIN Supersede(q, i) : j < k => at[j] < at[k]
                /\ \A n \in DOMAIN q :
                      (\E j \in DOMAIN Supersede(q, i) : at[j] = n)
                         <=> ~(ActionOf(i) = "update" /\ IsUpdateOf(q[n], RowOf(i)))
<1>1. DOMAIN q = 1 .. Len(q) /\ Len(q) \in Nat
  BY LenProperties
<1>2. CASE ActionOf(i) = "update"
  <2> DEFINE I == {n \in DOMAIN q : ~IsUpdateOf(q[n], RowOf(i))}
  <2>1. I \in SUBSET DOMAIN q /\ Supersede(q, i) = Keep(q, I)
    BY <1>2 DEF Supersede
  <2>2. \A n \in DOMAIN q : n \in I <=> ~IsUpdateOf(q[n], RowOf(i))
    OBVIOUS
  <2> HIDE DEF I
  <2>3. Keep(q, I) \in Seq(Event)
    BY <2>1, KeepInOrder
  <2>4. PICK at \in [DOMAIN Keep(q, I) -> I] :
          /\ \A j \in DOMAIN Keep(q, I) : Keep(q, I)[j] = q[at[j]]
          /\ \A n \in I : \E j \in DOMAIN Keep(q, I) : at[j] = n
          /\ \A j, k \in DOMAIN Keep(q, I) : j < k => at[j] < at[k]
    BY <2>1, KeepInOrder
  <2>5. \A n \in DOMAIN q :
           (\E j \in DOMAIN Keep(q, I) : at[j] = n)
              <=> ~(ActionOf(i) = "update" /\ IsUpdateOf(q[n], RowOf(i)))
    BY <1>2, <2>2, <2>4
  <2>6. at \in [DOMAIN Keep(q, I) -> DOMAIN q]
    BY <2>1, <2>4
  <2> DEFINE K == Keep(q, I)
  <2>7. K \in Seq(Event) /\ Supersede(q, i) = K
    BY <2>1, <2>3
  <2>8. /\ at \in [DOMAIN K -> DOMAIN q]
        /\ \A j \in DOMAIN K : K[j] = q[at[j]]
        /\ \A j, k \in DOMAIN K : j < k => at[j] < at[k]
        /\ \A n \in DOMAIN q :
              (\E j \in DOMAIN K : at[j] = n)
                 <=> ~(ActionOf(i) = "update" /\ IsUpdateOf(q[n], RowOf(i)))
    BY <2>4, <2>5, <2>6
  <2> HIDE DEF K
  <2> QED BY <2>7, <2>8
<1>3. CASE ActionOf(i) # "update"
  <2> DEFINE at == [n \in DOMAIN q |-> n]
  <2>1. Supersede(q, i) = q
    BY <1>3 DEF Supersede
  <2>2. /\ at \in [DOMAIN q -> DOMAIN q]
        /\ \A j \in DOMAIN q : q[j] = q[at[j]]
        /\ \A j, k \in DOMAIN q : j < k => at[j] < at[k]
        /\ \A n \in DOMAIN q :
              (\E j \in DOMAIN q : at[j] = n)
                 <=> ~(ActionOf(i) = "update" /\ IsUpdateOf(q[n], RowOf(i)))
    BY <1>3
  <2> HIDE DEF at
  <2> DEFINE K == Supersede(q, i)
  <2>3. K = q
    BY <2>1
  <2> HIDE DEF K
  <2>4. K \in Seq(Event)
    BY <2>3
  <2>5. /\ at \in [DOMAIN K -> DOMAIN q]
        /\ \A j \in DOMAIN K : K[j] = q[at[j]]
        /\ \A j, k \in DOMAIN K : j < k => at[j] < at[k]
        /\ \A n \in DOMAIN q :
              (\E j \in DOMAIN K : at[j] = n)
                 <=> ~(ActionOf(i) = "update" /\ IsUpdateOf(q[n], RowOf(i)))
    BY <2>2, <2>3
  <2> QED BY <2>4, <2>5 DEF K
<1> QED BY <1>2, <1>3

\* The ids of a queue after enqueue: the new change, and the old ones but the
\* pending updates of the row of an update.
LEMMA EnqueuedExactly ==
    ASSUME NEW q \in Seq(Event), NEW i \in Ids, i \notin QueuedIds(q), Unique(q)
    PROVE  /\ Enqueued(q, i) \in Seq(Event)
           /\ Unique(Enqueued(q, i))
           /\ QueuedIds(Enqueued(q, i)) =
                {i} \cup {j \in QueuedIds(q) :
                            ~(ActionOf(i) = "update" /\ ActionOf(j) = "update"
                                                     /\ RowOf(j) = RowOf(i))}
           /\ \A ev \in Event : ev.id # i /\ HeadOrGone(q, ev) => HeadOrGone(Enqueued(q, i), ev)
<1> DEFINE s == Supersede(q, i)
           e == [id |-> i, tries |-> 0]
           gone(j) == ActionOf(i) = "update" /\ ActionOf(j) = "update" /\ RowOf(j) = RowOf(i)
<1>1. s \in Seq(Event) /\ e \in Event /\ e.id = i /\ Enqueued(q, i) = Append(s, e)
  <2>1. s \in Seq(Event)
    BY SupersedeExactly
  <2>2. e \in Event /\ e.id = i
    BY P2PAssumption DEF Event
  <2> QED BY <2>1, <2>2 DEF Enqueued
<1>2. PICK at \in [DOMAIN s -> DOMAIN q] :
        /\ \A j \in DOMAIN s : s[j] = q[at[j]]
        /\ \A j, k \in DOMAIN s : j < k => at[j] < at[k]
        /\ \A n \in DOMAIN q :
              (\E j \in DOMAIN s : at[j] = n)
                 <=> ~(ActionOf(i) = "update" /\ IsUpdateOf(q[n], RowOf(i)))
  BY SupersedeExactly
<1>3. DOMAIN s = 1 .. Len(s) /\ Len(s) \in Nat /\ DOMAIN q = 1 .. Len(q) /\ Len(q) \in Nat
  BY <1>1, LenProperties
<1> HIDE DEF s, e
<1>4. QueuedIds(s) = {j \in QueuedIds(q) : ~gone(j)}
  <2>1. ASSUME NEW j \in DOMAIN s PROVE s[j].id \in QueuedIds(q) /\ ~gone(s[j].id)
    BY <1>2 DEF QueuedIds, IsUpdateOf
  <2>2. ASSUME NEW n \in DOMAIN q, ~gone(q[n].id) PROVE \E j \in DOMAIN s : s[j].id = q[n].id
    BY <1>2, <2>2 DEF IsUpdateOf
  <2> HIDE DEF gone
  <2> QED BY <2>1, <2>2 DEF QueuedIds
<1>5. Unique(s)
  <2> SUFFICES ASSUME NEW j \in DOMAIN s, NEW k \in DOMAIN s, s[j].id = s[k].id PROVE j = k
    BY DEF Unique
  <2>1. at[j] = at[k]
    BY <1>2 DEF Unique
  <2>2. j \in Nat /\ k \in Nat /\ at[j] \in Nat /\ at[k] \in Nat
    BY <1>2, <1>3
  <2>3. ~(j < k) /\ ~(k < j)
    BY <1>2, <2>1, <2>2
  <2> QED BY <2>2, <2>3
<1>6. /\ Append(s, e) \in Seq(Event) /\ Append(s, e) # <<>>
      /\ DOMAIN Append(s, e) = 1 .. Len(s) + 1
      /\ Append(s, e)[Len(s) + 1] = e
      /\ \A n \in DOMAIN s : Append(s, e)[n] = s[n]
      /\ s # <<>> => Head(Append(s, e)) = Head(s)
  BY <1>1, AppendEntries
<1>7. QueuedIds(Append(s, e)) = QueuedIds(s) \cup {i}
  BY <1>1, AppendIds
<1>8. i \notin QueuedIds(s)
  BY <1>4
<1>9. Unique(Append(s, e))
  <2>1. \A n \in DOMAIN s : s[n].id # i
    BY <1>8 DEF QueuedIds
  <2> QED BY <1>1, <1>3, <1>5, <1>6, <2>1 DEF Unique
<1>10. ASSUME NEW ev \in Event, ev.id # i, HeadOrGone(q, ev)
       PROVE  HeadOrGone(Append(s, e), ev)
  <2>1. CASE ev.id \notin QueuedIds(q) /\ ActionOf(ev.id) = "update"
    BY <1>4, <1>7, <1>10, <2>1 DEF HeadOrGone
  <2>2. CASE q # <<>> /\ Head(q) = ev /\ gone(ev.id)
    BY <1>4, <1>7, <1>10, <2>2 DEF HeadOrGone
  <2>3. CASE q # <<>> /\ Head(q) = ev /\ ~gone(ev.id)
    <3>1. 1 \in DOMAIN q /\ q[1] = ev
      BY <2>3, TailEntries
    <3>2. PICK j \in DOMAIN s : at[j] = 1
      BY <1>2, <2>3, <3>1 DEF IsUpdateOf
    <3>3. j = 1
      <4>1. j \in Nat /\ j >= 1 /\ 1 \in DOMAIN s /\ at[1] \in Nat /\ at[1] >= 1
        BY <1>2, <1>3, <3>2
      <4>2. ~(1 < j)
        BY <1>2, <3>2, <4>1
      <4> QED BY <4>1, <4>2
    <3>4. s # <<>> /\ s[1] = ev
      <4>1. Len(s) # 0
        BY <1>3, <3>2
      <4>2. s # <<>>
        BY <4>1, EmptySeq
      <4> QED BY <1>2, <3>1, <3>2, <3>3, <4>2
    <3>5. Head(s) = ev
      BY <1>1, <3>4, TailEntries
    <3> QED BY <1>6, <3>4, <3>5 DEF HeadOrGone
  <2> HIDE DEF gone
  <2> QED BY <1>10, <2>1, <2>2, <2>3 DEF HeadOrGone
<1> QED BY <1>1, <1>4, <1>6, <1>7, <1>9, <1>10

\* The ids of a queue after Drain: the change posted is gone, or there again.
LEMMA SettledExactly ==
    ASSUME NEW q \in Seq(Event), NEW ev \in Event, NEW err \in BOOLEAN, Unique(q),
           HeadOrGone(q, ev)
    PROVE  /\ Settled(q, ev, err) \in Seq(Event)
           /\ Unique(Settled(q, ev, err))
           /\ QueuedIds(Settled(q, ev, err)) =
                IF err /\ ~LastTry(ev) THEN QueuedIds(q) \cup {ev.id} ELSE QueuedIds(q) \ {ev.id}
<1> DEFINE rest == IF q # <<>> /\ Head(q) = ev THEN Tail(q) ELSE q
           again == [ev EXCEPT !.tries = @ + 1]
<1>1. rest \in Seq(Event) /\ Unique(rest) /\ QueuedIds(rest) = QueuedIds(q) \ {ev.id}
  <2>1. CASE q # <<>> /\ Head(q) = ev
    <3>1. /\ Tail(q) \in Seq(Event) /\ Len(q) \in Nat /\ Len(q) >= 1
          /\ DOMAIN q = 1 .. Len(q) /\ DOMAIN Tail(q) = 1 .. Len(q) - 1
          /\ \A n \in DOMAIN Tail(q) : Tail(q)[n] = q[n + 1]
          /\ q[1] = ev
      BY <2>1, TailEntries
    <3>2. \A n \in DOMAIN Tail(q) : n + 1 \in DOMAIN q /\ n + 1 # 1
      BY <3>1
    <3>3. Unique(Tail(q))
      <4> SUFFICES ASSUME NEW m \in DOMAIN Tail(q), NEW n \in DOMAIN Tail(q),
                          Tail(q)[m].id = Tail(q)[n].id
                   PROVE  m = n
        BY DEF Unique
      <4>1. m + 1 = n + 1
        BY <3>1, <3>2 DEF Unique
      <4> QED BY <3>1, <4>1
    <3>4. 1 \in DOMAIN q
      BY <3>1
    <3>5. ASSUME NEW n \in DOMAIN Tail(q) PROVE Tail(q)[n].id \in QueuedIds(q) \ {ev.id}
      BY <3>1, <3>2, <3>4 DEF Unique, QueuedIds
    <3>6. ASSUME NEW n \in DOMAIN q, q[n].id # ev.id PROVE \E m \in DOMAIN Tail(q) : Tail(q)[m].id = q[n].id
      <4>1. n # 1
        BY <3>1, <3>6
      <4>2. n - 1 \in DOMAIN Tail(q) /\ (n - 1) + 1 = n
        BY <3>1, <4>1
      <4> QED BY <3>1, <4>2
    <3>7. QueuedIds(Tail(q)) = QueuedIds(q) \ {ev.id}
      BY <3>5, <3>6 DEF QueuedIds
    <3> QED BY <2>1, <3>1, <3>3, <3>7
  <2>2. CASE ~(q # <<>> /\ Head(q) = ev)
    BY <2>2 DEF HeadOrGone
  <2> QED BY <2>1, <2>2
<1>2. Settled(q, ev, err) = IF err /\ ~LastTry(ev) THEN Append(rest, again) ELSE rest
  BY DEF Settled
<1>3. again.id = ev.id
  BY DEF Event
<1>4. err /\ ~LastTry(ev) => again \in Event
  <2>1. ev.id \in Ids /\ ev.tries \in 0 .. MaxRetries - 1 /\ MaxRetries \in Nat
    BY P2PAssumption DEF Event
  <2>2. again = [id |-> ev.id, tries |-> ev.tries + 1]
    BY DEF Event
  <2> QED BY <2>1, <2>2 DEF Event, LastTry
<1> HIDE DEF rest, again
<1>5. CASE err /\ ~LastTry(ev)
  <2>1. /\ Append(rest, again) \in Seq(Event)
        /\ Len(rest) \in Nat /\ DOMAIN rest = 1 .. Len(rest)
        /\ DOMAIN Append(rest, again) = 1 .. Len(rest) + 1
        /\ Append(rest, again)[Len(rest) + 1] = again
        /\ \A n \in DOMAIN rest : Append(rest, again)[n] = rest[n]
    BY <1>1, <1>4, <1>5, AppendEntries
  <2>2. QueuedIds(Append(rest, again)) = QueuedIds(rest) \cup {ev.id}
    BY <1>1, <1>3, <1>4, <1>5, AppendIds
  <2>3. \A n \in DOMAIN rest : rest[n].id # ev.id
    BY <1>1 DEF QueuedIds
  <2>4. Unique(Append(rest, again))
    BY <1>1, <1>3, <2>1, <2>3 DEF Unique
  <2> QED BY <1>1, <1>2, <1>5, <2>1, <2>2, <2>4
<1>6. CASE ~(err /\ ~LastTry(ev))
  BY <1>1, <1>2, <1>6
<1> QED BY <1>5, <1>6
-----------------------------------------------------------------------------
(* A worker and the queue it drains.                                        *)

\* A change is at most once in a queue and in a file.
UniqueInv == \A d \in Peers : Unique(queue[d]) /\ Unique(disk[d])

\* While a worker holds an event of the queue, nobody else takes or reorders
\* it; only a superseding update may remove it.
HeadInv ==
    \A g \in Workers :
        worker[g].pc \in {"post", "settle"} => HeadOrGone(queue[worker[g].dst], worker[g].ev)

SerialInv == UniqueInv /\ HeadInv

\* Until Start no worker runs, and Load puts a file where nothing is queued yet.
LEMMA MergeRestores ==
    ASSUME TypeInv, DiskInv, MergeFile
    PROVE  /\ phase = "loading"
           /\ load.cur \in Peers
           /\ queue' = [queue EXCEPT ![load.cur] = disk[load.cur]]
           /\ \A g \in Workers : worker[g].pc = "idle"
<1>1. load \in [todo : SUBSET Peers, cur : Peers \cup {NoPeer}, buf : Seq(Event)]
      /\ load.cur \in Peers /\ disk \in [Peers -> Seq(Event)]
      /\ phase \in {"down", "boot", "loading", "up", "stopping", "closed"}
  BY DEF TypeInv, TypeOK, MergeFile
<1>2. phase = "loading"
  BY <1>1, P2PAssumption DEF MergeFile, DiskInv, NoLoad
<1>3. load.buf = disk[load.cur] /\ queue[load.cur] = <<>>
  BY <1>1, <1>2, P2PAssumption DEF DiskInv
<1>4. load.buf \o queue[load.cur] = disk[load.cur]
  BY <1>1, <1>3, ConcatEmptySeq
<1> QED BY <1>1, <1>2, <1>4 DEF MergeFile, DiskInv

\* A change about to be enqueued for d is not in the queue of d.
LEMMA EnqueueIsNew ==
    ASSUME FeedInv, NEW d \in Peers, Enqueue(d)
    PROVE  /\ push.id \in Ids /\ push.id \notin accepted[d] /\ push.id \notin QueuedIds(queue[d])
           /\ \A j \in accepted[d] : j < push.id
<1>1. /\ push.id \in Ids /\ Ids = 1 .. Len(log) /\ Len(log) \in Nat
      /\ accepted \in [Peers -> SUBSET Ids]
  BY HistoryGrows DEF Enqueue, FeedInv, TypeInv, TypeOK, PushInv, NoPush
<1>2. \A j \in accepted[d] : j < push.id
  BY DEF Enqueue, FeedInv, OrderInv, NoPush
<1>3. QueuedIds(queue[d]) \subseteq accepted[d]
  BY DEF FeedInv, AcceptedInv
<1>4. push.id \notin accepted[d]
  BY <1>1, <1>2
<1> QED BY <1>1, <1>2, <1>3, <1>4

\* What a worker in post or settle is busy with.
LEMMA WorkerBusy ==
    ASSUME TypeInv, NEW g \in Workers, worker[g].pc \in {"post", "settle"}
    PROVE  /\ worker[g].dst \in Peers /\ worker[g].ev \in Event /\ worker[g].ev.id \in Ids
           /\ worker[g].err \in BOOLEAN /\ queue[worker[g].dst] \in Seq(Event)
           /\ \A h \in Workers \ {g} : worker[h].pc # "idle" => worker[h].dst # worker[g].dst
BY DEF TypeInv, TypeOK, WorkerInv, Event, OneDrainPerPeer

LEMMA UniqueStep ==
    ASSUME FeedInv, DiskInv, SerialInv, [Next]_vars
    PROVE  UniqueInv'
<1> USE DEF FeedInv, SerialInv
<1>1. /\ queue \in [Peers -> Seq(Event)] /\ disk \in [Peers -> Seq(Event)]
  BY DEF TypeInv, TypeOK
<1>2. CASE UNCHANGED <<queue, disk>>
  BY <1>2 DEF UniqueInv
<1>3. ASSUME NEW d \in Peers, NEW q \in Seq(Event), Unique(q), queue' = [queue EXCEPT ![d] = q],
             Persist(d, queue'[d])
      PROVE  UniqueInv'
  <2>1. queue'[d] = q /\ \A e \in Peers \ {d} : queue'[e] = queue[e]
    BY <1>1, <1>3
  <2>2. disk'[d] \in {q, disk[d]} /\ \A e \in Peers \ {d} : disk'[e] = disk[e]
    BY <1>3, <2>1, PersistedIds
  <2> QED BY <1>3, <2>1, <2>2 DEF UniqueInv
<1>4. ASSUME NEW d \in Peers, Enqueue(d) PROVE UniqueInv'
  <2>1. Enqueued(queue[d], push.id) \in Seq(Event) /\ Unique(Enqueued(queue[d], push.id))
    BY <1>1, <1>4, EnqueueIsNew, EnqueuedExactly DEF UniqueInv
  <2>2. /\ queue' = [queue EXCEPT ![d] = Enqueued(queue[d], push.id)]
        /\ Persist(d, queue'[d])
    BY <1>4 DEF Enqueue
  <2> QED BY <1>3, <2>1, <2>2
<1>5. ASSUME NEW g \in Workers, Settle(g) PROVE UniqueInv'
  <2> DEFINE d == worker[g].dst
             q == Settled(queue[d], worker[g].ev, worker[g].err)
  <2>1. worker[g].pc = "settle" /\ queue' = [queue EXCEPT ![d] = q] /\ Persist(d, queue'[d])
    BY <1>5 DEF Settle
  <2>2. d \in Peers /\ q \in Seq(Event) /\ Unique(q)
    BY <2>1, WorkerBusy, SettledExactly DEF UniqueInv, HeadInv
  <2> HIDE DEF d, q
  <2> QED BY <1>3, <2>1, <2>2
<1>6. CASE MergeFile
  <2>1. load.cur \in Peers /\ queue' = [queue EXCEPT ![load.cur] = disk[load.cur]] /\ disk' = disk
    BY <1>6, MergeRestores DEF MergeFile
  <2>2. \A e \in Peers : queue'[e] \in {queue[e], disk[e]}
    BY <1>1, <2>1
  <2> QED BY <2>1, <2>2 DEF UniqueInv
<1>7. CASE LoseMemory
  BY <1>7 DEF LoseMemory, UniqueInv, Unique
<1>8. CASE \/ Writer \/ TakeSink \/ EnqueueTrigger \/ \E d \in Peers : Tick(d) \/ ReadFile(d)
           \/ \E g \in Workers : Peek(g) \/ Post(g) \/ Exit(g)
  BY <1>2, <1>8 DEF Writer, Write, Commit, Rollback, TakeSink, EnqueueTrigger, Tick, ReadFile, Peek,
     Post, Exit
<1>9. CASE ListFiles \/ StartLoop \/ StopSink \/ StopLoop \/ Boot \/ UNCHANGED vars
  BY <1>2, <1>9 DEF ListFiles, StartLoop, StopSink, StopLoop, Boot, vars
<1> QED
  BY <1>4, <1>5, <1>6, <1>7, <1>8, <1>9
  DEF Next, SinkWorker, Drain, Loader, Stopper, StopProcess, Crash

LEMMA HeadStep ==
    ASSUME FeedInv, DiskInv, SerialInv, [Next]_vars
    PROVE  HeadInv'
<1> USE DEF FeedInv, SerialInv
<1>1. /\ queue \in [Peers -> Seq(Event)] /\ worker \in [Workers -> WorkerType]
      /\ push \in [id : Ids \cup {0}, todo : SUBSET Peers, trig : Peers \cup {NoPeer}]
  BY DEF TypeInv, TypeOK, WorkerType
<1>2. CASE UNCHANGED <<queue, worker, log>>
  BY <1>2 DEF HeadInv, HeadOrGone, ActionOf
<1>3. ASSUME NEW k \in Rows, NEW a \in {"create", "update", "delete"}, Write(k, a)
      PROVE  HeadInv'
  <2>1. \A i \in Ids : log'[i] = log[i]
    BY <1>3, WriteGrows DEF Write, TypeInv, Change
  <2>2. queue' = queue /\ worker' = worker
    BY <1>3 DEF Write
  <2>3. \A g \in Workers : worker[g].pc \in {"post", "settle"} => worker[g].ev.id \in Ids
    BY WorkerBusy
  <2> QED BY <2>1, <2>2, <2>3 DEF HeadInv, HeadOrGone, ActionOf
<1>4. ASSUME NEW d \in Peers, Trigger(d), UNCHANGED <<queue, log>> PROVE HeadInv'
  <2>1. CASE worker' = worker
    BY <1>2, <1>4, <2>1
  <2>2. ASSUME NEW g \in Workers,
               worker' = [worker EXCEPT ![g] = [Idle EXCEPT !.pc = "peek", !.dst = d]]
        PROVE  HeadInv'
    <3>1. worker'[g].pc = "peek" /\ \A h \in Workers \ {g} : worker'[h] = worker[h]
      BY <1>1, <2>2 DEF Idle
    <3> QED BY <1>4, <3>1 DEF HeadInv, HeadOrGone, ActionOf
  <2> QED BY <1>4, <2>1, <2>2 DEF Trigger, drains
<1>5. CASE EnqueueTrigger
  <2>1. push.trig \in Peers
    BY <1>1, <1>5 DEF EnqueueTrigger
  <2> QED BY <1>4, <1>5, <2>1 DEF EnqueueTrigger
<1>6. ASSUME NEW d \in Peers, Tick(d) PROVE HeadInv'
  BY <1>4, <1>6 DEF Tick
<1>7. ASSUME NEW d \in Peers, Enqueue(d) PROVE HeadInv'
  <2>1. /\ queue' = [queue EXCEPT ![d] = Enqueued(queue[d], push.id)]
        /\ worker' = worker /\ log' = log
    BY <1>7 DEF Enqueue
  <2>2. push.id \in Ids /\ push.id \notin accepted[d] /\ push.id \notin QueuedIds(queue[d])
    BY <1>7, EnqueueIsNew
  <2>3. ASSUME NEW g \in Workers, worker[g].pc \in {"post", "settle"}
        PROVE  HeadOrGone(queue'[worker[g].dst], worker[g].ev)
    <3>1. HeadOrGone(queue[worker[g].dst], worker[g].ev) /\ worker[g].ev \in Event
      BY <2>3, WorkerBusy DEF HeadInv
    <3>2. CASE worker[g].dst = d
      <4>1. worker[g].ev.id # push.id
        BY <2>2, <2>3, <3>2 DEF AcceptedInv
      <4>2. HeadOrGone(Enqueued(queue[d], push.id), worker[g].ev)
        BY <1>1, <2>2, <3>1, <3>2, <4>1, EnqueuedExactly DEF UniqueInv
      <4> QED BY <1>1, <2>1, <3>2, <4>2
    <3>3. CASE worker[g].dst # d
      <4>1. queue'[worker[g].dst] = queue[worker[g].dst]
        BY <1>1, <2>1, <2>3, <3>3, WorkerBusy
      <4> QED BY <3>1, <4>1
    <3> QED BY <3>2, <3>3
  <2> QED BY <2>1, <2>3 DEF HeadInv, HeadOrGone, ActionOf
<1>8. ASSUME NEW g \in Workers, Peek(g) PROVE HeadInv'
  <2>1. /\ queue' = queue /\ log' = log
        /\ \A h \in Workers \ {g} : worker'[h] = worker[h]
        /\ worker'[g] = IF queue[worker[g].dst] = <<>> THEN [worker[g] EXCEPT !.pc = "exit"]
             ELSE [worker[g] EXCEPT !.pc = "post", !.ev = Head(queue[worker[g].dst])]
    BY <1>1, <1>8 DEF Peek
  <2>2. worker'[g].pc \in {"post", "settle"} => HeadOrGone(queue[worker'[g].dst], worker'[g].ev)
    BY <1>1, <2>1 DEF WorkerType, HeadOrGone
  <2> QED BY <2>1, <2>2 DEF HeadInv, HeadOrGone, ActionOf
<1>9. ASSUME NEW g \in Workers, Post(g) PROVE HeadInv'
  <2>1. worker[g].pc = "post" /\ queue' = queue /\ log' = log
        /\ \E err \in BOOLEAN : worker' = [worker EXCEPT ![g].pc = "settle", ![g].err = err]
    BY <1>9 DEF Post
  <2>2. /\ \A h \in Workers \ {g} : worker'[h] = worker[h]
        /\ worker'[g].dst = worker[g].dst /\ worker'[g].ev = worker[g].ev
    BY <1>1, <2>1 DEF WorkerType
  <2>3. ASSUME NEW h \in Workers, worker'[h].pc \in {"post", "settle"}
        PROVE  HeadOrGone(queue'[worker'[h].dst], worker'[h].ev)
    <3>1. CASE h = g
      BY <2>1, <2>2, <3>1 DEF HeadInv
    <3>2. CASE h # g
      BY <2>1, <2>2, <2>3, <3>2 DEF HeadInv
    <3> QED BY <3>1, <3>2
  <2> QED BY <2>1, <2>3 DEF HeadInv, HeadOrGone, ActionOf
<1>10. ASSUME NEW g \in Workers, Settle(g) PROVE HeadInv'
  <2>1. /\ worker[g].pc = "settle" /\ log' = log
        /\ \E q : queue' = [queue EXCEPT ![worker[g].dst] = q]
        /\ \A h \in Workers \ {g} : worker'[h] = worker[h]
        /\ worker'[g].pc \in {"exit", "peek"}
    BY <1>1, <1>10 DEF Settle, WorkerType
  <2>2. ASSUME NEW h \in Workers, worker'[h].pc \in {"post", "settle"}
        PROVE  /\ h # g /\ worker'[h] = worker[h]
               /\ queue'[worker[h].dst] = queue[worker[h].dst]
    <3>1. h # g /\ worker'[h] = worker[h]
      BY <2>1, <2>2
    <3>2. worker[h].dst # worker[g].dst /\ worker[h].dst \in Peers
      BY <2>1, <2>2, <3>1, WorkerBusy
    <3> QED BY <1>1, <2>1, <3>1, <3>2
  <2>3. ASSUME NEW h \in Workers, worker'[h].pc \in {"post", "settle"}
        PROVE  HeadOrGone(queue'[worker'[h].dst], worker'[h].ev)
    BY <2>2, <2>3 DEF HeadInv
  <2> QED BY <2>1, <2>3 DEF HeadInv, HeadOrGone, ActionOf
<1>11. ASSUME NEW g \in Workers, Exit(g) PROVE HeadInv'
  <2>1. worker'[g].pc = "idle" /\ queue' = queue /\ log' = log
        /\ \A h \in Workers \ {g} : worker'[h] = worker[h]
    BY <1>1, <1>11 DEF Exit, Idle
  <2> QED BY <2>1 DEF HeadInv, HeadOrGone, ActionOf
<1>12. CASE MergeFile
  BY <1>12, MergeRestores DEF MergeFile, HeadInv
<1>13. CASE LoseMemory
  BY <1>13 DEF LoseMemory, HeadInv, Idle
<1>14. CASE \/ \E k \in Rows : Commit(k) \/ Rollback(k)
            \/ TakeSink \/ \E d \in Peers : ReadFile(d)
            \/ ListFiles \/ StartLoop \/ StopSink \/ StopLoop \/ Boot \/ UNCHANGED vars
  BY <1>2, <1>14 DEF Commit, Rollback, TakeSink, ReadFile, ListFiles, StartLoop, StopSink, StopLoop,
     Boot, vars
<1> QED
  BY <1>3, <1>5, <1>6, <1>7, <1>8, <1>9, <1>10, <1>11, <1>12, <1>13, <1>14
  DEF Next, Writer, SinkWorker, Drain, Loader, Stopper, StopProcess, Crash
-----------------------------------------------------------------------------
(* The promise: at-least-once delivery, whatever crashes.                   *)

\* What the promise calls owed: the changes in the queue files.
Owed == [d \in Peers |-> QueuedIds(disk[d])]

LEMMA OwedSame ==
    ASSUME UNCHANGED <<log, accepted, disk, sent, dropped>>
    PROVE  UNCHANGED Promise!feed
BY DEF Promise!feed

\* The file of d holds the queue of d while the feed runs, before and after.
LEMMA FilesFollow ==
    ASSUME TypeInv, DiskInv, DiskInv', phase' = phase, NEW d \in Peers, NEW q,
           \/ push # NoPush
           \/ \E g \in Workers : worker[g].pc # "idle",
           queue' = [queue EXCEPT ![d] = q]
    PROVE  /\ disk[d] = queue[d]
           /\ Owed' = [Owed EXCEPT ![d] = QueuedIds(q)]
<1>1. phase \in {"up", "stopping", "closed"}
  BY DEF TypeInv, TypeOK, DiskInv
<1>2. \A e \in Peers : disk[e] = queue[e] /\ disk'[e] = queue'[e]
  BY <1>1 DEF DiskInv
<1>3. queue \in [Peers -> Seq(Event)]
  BY DEF TypeInv, TypeOK
<1>4. \A e \in Peers : QueuedIds(disk'[e]) = IF e = d THEN QueuedIds(q) ELSE QueuedIds(disk[e])
  BY <1>2, <1>3
<1> QED BY <1>2, <1>4 DEF Owed

LEMMA EnqueueAccepts ==
    ASSUME FeedInv, DiskInv, DiskInv', SerialInv, NEW d \in Peers, Enqueue(d)
    PROVE  Promise!Accept(d, push.id)
<1> DEFINE i == push.id
           q == Enqueued(queue[d], i)
<1>1. /\ queue' = [queue EXCEPT ![d] = q] /\ push # NoPush /\ d \in push.todo
      /\ accepted' = [accepted EXCEPT ![d] = @ \cup {i}]
      /\ UNCHANGED <<phase, log, sent, dropped>>
  BY DEF Enqueue, NoPush
<1>2. /\ i \in Ids /\ i \notin QueuedIds(queue[d]) /\ \A j \in accepted[d] : j < i
  BY EnqueueIsNew
<1>3. QueuedIds(q) = {i} \cup {j \in QueuedIds(queue[d]) :
                                 ~(ActionOf(i) = "update" /\ ActionOf(j) = "update"
                                                          /\ RowOf(j) = RowOf(i))}
  BY <1>2, EnqueuedExactly DEF FeedInv, TypeInv, TypeOK, SerialInv, UniqueInv
<1> HIDE DEF q
<1>4. disk[d] = queue[d] /\ Owed' = [Owed EXCEPT ![d] = QueuedIds(q)]
  BY <1>1, FilesFollow DEF FeedInv
<1>5. Owed[d] = QueuedIds(queue[d])
  BY <1>4 DEF Owed
<1>6. QueuedIds(q) = {i} \cup (IF log[i].action = "update"
                               THEN Owed[d] \ Promise!UpdatesOf(Owed[d], log[i].row)
                               ELSE Owed[d])
  BY <1>3, <1>5 DEF Promise!UpdatesOf, ActionOf, RowOf
<1>7. Owed' = [Owed EXCEPT ![d] =
                 {i} \cup (IF log[i].action = "update"
                           THEN @ \ Promise!UpdatesOf(@, log[i].row) ELSE @)]
  BY <1>4, <1>6
<1> QED BY <1>1, <1>2, <1>7 DEF Promise!Accept, Owed

LEMMA SettleKeepsPromise ==
    ASSUME FeedInv, DiskInv, DiskInv', SerialInv, NEW g \in Workers, Settle(g)
    PROVE  \/ \E d \in Peers, i \in Ids :
                \/ Promise!Acknowledge(d, i)
                \/ Promise!GiveUp(d, i)
                \/ Promise!OweAgain(d, i)
           \/ UNCHANGED Promise!feed
<1> DEFINE d == worker[g].dst
           ev == worker[g].ev
           err == worker[g].err
           q == Settled(queue[d], ev, err)
<1>1. /\ worker[g].pc = "settle" /\ queue' = [queue EXCEPT ![d] = q]
      /\ dropped' = IF err /\ LastTry(ev) THEN [dropped EXCEPT ![d] = @ \cup {ev.id}] ELSE dropped
      /\ UNCHANGED <<phase, log, accepted, sent>>
  BY DEF Settle
<1>2. d \in Peers /\ ev \in Event /\ ev.id \in Ids /\ err \in BOOLEAN
      /\ queue[d] \in Seq(Event)
  BY <1>1, WorkerBusy DEF FeedInv
<1>3. HeadOrGone(queue[d], ev) /\ Unique(queue[d])
  BY <1>1, <1>2 DEF SerialInv, HeadInv, UniqueInv
<1>4. ev.id \in accepted[d] /\ (~err => ev.id \in sent[d])
  BY <1>1 DEF FeedInv, AcceptedInv, AnswerInv
<1> HIDE DEF d, ev, err
<1>5. QueuedIds(q) = IF err /\ ~LastTry(ev) THEN QueuedIds(queue[d]) \cup {ev.id}
                                            ELSE QueuedIds(queue[d]) \ {ev.id}
  BY <1>2, <1>3, SettledExactly
<1> HIDE DEF q
<1>6. disk[d] = queue[d] /\ Owed' = [Owed EXCEPT ![d] = QueuedIds(q)]
  BY <1>1, <1>2, FilesFollow DEF FeedInv
<1>7. Owed[d] = QueuedIds(queue[d]) /\ Owed = [Owed EXCEPT ![d] = Owed[d]]
  BY <1>2, <1>6 DEF Owed
<1>8. ASSUME Owed' = Owed, dropped' = dropped PROVE UNCHANGED Promise!feed
  BY <1>1, <1>8 DEF Promise!feed, Owed
<1>9. CASE err /\ LastTry(ev)
  <2>1. Owed' = [Owed EXCEPT ![d] = @ \ {ev.id}]
    BY <1>5, <1>6, <1>7, <1>9
  <2>2. Promise!GiveUp(d, ev.id)
    BY <1>1, <1>4, <1>9, <2>1 DEF Promise!GiveUp, Owed
  <2> QED BY <1>2, <2>2
<1>10. CASE err /\ ~LastTry(ev) /\ ev.id \in QueuedIds(queue[d])
  <2>1. Owed' = Owed
    <3>1. QueuedIds(q) = QueuedIds(queue[d])
      BY <1>5, <1>10
    <3> QED BY <1>6, <1>7, <3>1
  <2> QED BY <1>1, <1>8, <1>10, <2>1
<1>11. CASE err /\ ~LastTry(ev) /\ ev.id \notin QueuedIds(queue[d])
  <2>1. log[ev.id].action = "update"
    <3>1. ev.id \in QueuedIds(queue[d]) \/ ActionOf(ev.id) = "update"
      <4>1. CASE queue[d] # <<>> /\ Head(queue[d]) = ev
        BY <1>2, <4>1, TailEntries DEF QueuedIds
      <4> QED BY <1>3, <4>1 DEF HeadOrGone
    <3> QED BY <1>11, <3>1 DEF ActionOf
  <2>2. Owed' = [Owed EXCEPT ![d] = @ \cup {ev.id}]
    BY <1>5, <1>6, <1>7, <1>11
  <2>3. Promise!OweAgain(d, ev.id)
    BY <1>1, <1>4, <1>11, <2>1, <2>2 DEF Promise!OweAgain, Owed
  <2> QED BY <1>2, <2>3
<1>12. CASE ~err /\ ev.id \in QueuedIds(queue[d])
  <2>1. Owed' = [Owed EXCEPT ![d] = @ \ {ev.id}]
    BY <1>5, <1>6, <1>7, <1>12
  <2>2. ev.id \in Owed[d] \cap sent[d]
    BY <1>4, <1>7, <1>12
  <2>3. Promise!Acknowledge(d, ev.id)
    BY <1>1, <1>2, <1>12, <2>1, <2>2 DEF Promise!Acknowledge, Owed
  <2> QED BY <1>2, <2>3
<1>13. CASE ~err /\ ev.id \notin QueuedIds(queue[d])
  <2>1. QueuedIds(q) = QueuedIds(queue[d])
    BY <1>5, <1>13
  <2>2. Owed' = Owed
    BY <1>6, <1>7, <2>1
  <2> QED BY <1>1, <1>8, <1>13, <2>2
<1> QED BY <1>9, <1>10, <1>11, <1>12, <1>13

\* Every step of the feed is a step of the promise, or none.
LEMMA PromiseStep ==
    ASSUME FeedInv, DiskInv, DiskInv', SerialInv, [Next]_vars, ~EarlyWrites, faults'.disk = 0
    PROVE  [Promise!Next]_(Promise!feed)
<1>1. DOMAIN log = Ids
  BY DEF Ids
<1>2. CASE UNCHANGED <<log, accepted, disk, sent, dropped>>
  BY <1>2, OwedSame
<1>3. ASSUME NEW k \in Rows, NEW a \in {"create", "update", "delete"}, Write(k, a)
      PROVE  Promise!Emit
  BY <1>3 DEF Write, Promise!Emit
<1>4. ASSUME NEW d \in Peers, Enqueue(d) PROVE [Promise!Next]_(Promise!feed)
  <2>1. Promise!Accept(d, push.id) /\ push.id \in Ids
    BY <1>4, EnqueueAccepts, EnqueueIsNew
  <2> QED BY <1>1, <2>1 DEF Promise!Next
<1>5. ASSUME NEW g \in Workers, Post(g) PROVE [Promise!Next]_(Promise!feed)
  <2> DEFINE d == worker[g].dst
             i == worker[g].ev.id
  <2>1. /\ worker[g].pc = "post" /\ UNCHANGED <<log, accepted, disk, dropped>>
        /\ sent' \in {sent, [sent EXCEPT ![d] = @ \cup {i}]}
    BY <1>5 DEF Post
  <2>2. d \in Peers /\ i \in Ids /\ i \in accepted[d]
    BY <2>1, WorkerBusy DEF FeedInv, AcceptedInv
  <2> HIDE DEF d, i
  <2>3. CASE sent' = sent
    BY <1>2, <2>1, <2>3
  <2>4. CASE sent' = [sent EXCEPT ![d] = @ \cup {i}]
    <3>1. Promise!Deliver(d, i)
      BY <2>1, <2>2, <2>4 DEF Promise!Deliver
    <3> QED BY <1>1, <2>2, <3>1 DEF Promise!Next
  <2> QED BY <2>1, <2>3, <2>4
<1>6. ASSUME NEW g \in Workers, Settle(g) PROVE [Promise!Next]_(Promise!feed)
  BY <1>1, <1>6, SettleKeepsPromise DEF Promise!Next
<1>7. CASE \/ \E k \in Rows : Commit(k) \/ Rollback(k)
           \/ TakeSink \/ EnqueueTrigger \/ \E d \in Peers : Tick(d) \/ ReadFile(d)
           \/ \E g \in Workers : Peek(g) \/ Exit(g)
  BY <1>2, <1>7 DEF Commit, Rollback, TakeSink, EnqueueTrigger, Tick, ReadFile, Peek, Exit
<1>8. CASE \/ ListFiles \/ MergeFile \/ StartLoop \/ StopSink \/ StopLoop \/ Boot
           \/ LoseMemory \/ UNCHANGED vars
  BY <1>2, <1>8 DEF ListFiles, MergeFile, StartLoop, StopSink, StopLoop, Boot, LoseMemory, vars
<1> QED
  BY <1>3, <1>4, <1>5, <1>6, <1>7, <1>8
  DEF Next, Writer, SinkWorker, Drain, Loader, Stopper, StopProcess, Crash, Promise!Next

\* The feed with its queue files implements the promise of Outbox: whatever is
\* accepted for a peer stays owed, in the file, until it was applied there,
\* given up, or superseded by a later update, and a crash is no step at all.
THEOREM KeepsPromise ==
    ASSUME ~EarlyWrites, MaxDiskFaults = 0
    PROVE  Spec => Promised
<1> DEFINE Inv == DiskInv /\ SerialInv /\ faults.disk <= MaxDiskFaults
<1>1. Init => Inv
  BY DEF Init, DiskInv, SerialInv, UniqueInv, HeadInv, Unique, Idle
<1>2. ASSUME FeedInv, FeedInv', Inv, [Next]_vars PROVE faults'.disk = 0 /\ Inv'
  <2>1. faults'.disk <= MaxDiskFaults
    BY <1>2, DiskFaultsBounded DEF FeedInv
  <2>2. faults'.disk \in Nat
    BY <1>2 DEF FeedInv, TypeInv, TypeOK
  <2>3. faults'.disk = 0
    BY <2>1, <2>2
  <2>4. DiskInv'
    BY <1>2, <2>3, DiskStep DEF FeedInv
  <2>5. SerialInv'
    BY <1>2, UniqueStep, HeadStep DEF SerialInv
  <2> QED BY <2>1, <2>3, <2>4, <2>5
<1>3. Init => Promise!Init
  <2> SUFFICES ASSUME Init PROVE Promise!Init
    OBVIOUS
  <2>1. \A d \in Peers : QueuedIds(disk[d]) = {}
    BY DEF Init, QueuedIds
  <2> QED BY <2>1 DEF Init, Promise!Init
<1>4. ASSUME FeedInv, Inv, Inv', faults'.disk = 0, [Next]_vars
      PROVE  [Promise!Next]_(Promise!feed)
  BY <1>4, PromiseStep
<1>5. Spec => []FeedInv
  BY FeedInvariant
<1> HIDE DEF Inv
<1>6. ASSUME FeedInv, FeedInv', Inv, [Next]_vars PROVE Inv' /\ [Promise!Next]_(Promise!feed)
  BY <1>2, <1>4, <1>6
<1>7. Spec => Promise!Init /\ [][Promise!Next]_(Promise!feed)
  BY <1>1, <1>3, <1>5, <1>6, PTL DEF Spec
<1> QED BY <1>7 DEF Promised, Promise!Spec
-----------------------------------------------------------------------------
(* The order of the changes of a row.                                       *)

\* The changes of q are in the order they were emitted.
Sorted(q) == \A m, n \in DOMAIN q : m < n => q[m].id < q[n].id

\* A row a peer has was sent to it by an accepted change.
SentInv == \A d \in Peers, k \in Rows : peer[d][k].id = 0 \/ peer[d][k].id \in accepted[d]

\* What the worker g is posting is not older than the row of the peer, and not
\* newer than what is still queued for the row.
FlightInOrder(g) ==
    LET d == worker[g].dst
        i == worker[g].ev.id
    IN  worker[g].pc \in {"post", "settle"} =>
          /\ \A j \in QueuedIds(disk[d]) : RowOf(j) = RowOf(i) => i <= j
          /\ worker[g].pc = "post" => peer[d][RowOf(i)].id <= i

InOrderInv ==
    /\ \A d \in Peers :
         /\ Sorted(disk[d])
         /\ \A j \in QueuedIds(disk[d]) : peer[d][RowOf(j)].id <= j
    /\ \A g \in Workers : ~worker[g].err /\ FlightInOrder(g)

LEMMA FaultsGrow ==
    ASSUME TypeInv, [Next]_vars
    PROVE  /\ faults.post \in Nat /\ faults.disk \in Nat
           /\ faults'.post >= faults.post /\ faults'.disk >= faults.disk
<1>1. faults \in FaultType /\ faults.post \in Nat /\ faults.disk \in Nat
  BY DEF TypeInv, TypeOK, FaultType
<1>2. CASE faults' = faults
  BY <1>1, <1>2
<1>3. ASSUME NEW f \in {"post", "disk", "rollback", "stop", "crash"},
             faults' = [faults EXCEPT ![f] = @ + 1]
      PROVE  faults'.post >= faults.post /\ faults'.disk >= faults.disk
  BY <1>1, <1>3 DEF FaultType
<1>4. ASSUME NEW d, NEW q, Persist(d, q)
      PROVE  faults' = faults \/ faults' = [faults EXCEPT !["disk"] = @ + 1]
  BY <1>4 DEF Persist
<1>5. CASE Writer
  BY <1>1, <1>2, <1>3, <1>5 DEF Writer, Write, Commit, Rollback
<1>6. CASE SinkWorker \/ \E d \in Peers : Tick(d)
  BY <1>1, <1>2, <1>3, <1>4, <1>6 DEF SinkWorker, TakeSink, Enqueue, EnqueueTrigger, Tick
<1>7. ASSUME NEW g \in Workers, Drain(g)
      PROVE  faults'.post >= faults.post /\ faults'.disk >= faults.disk
  <2>1. CASE Settle(g)
    BY <1>1, <1>2, <1>3, <1>4, <2>1 DEF Settle
  <2>2. CASE Post(g)
    BY <1>1, <1>2, <1>3, <2>2 DEF Post
  <2>3. CASE Peek(g) \/ Exit(g)
    BY <1>1, <1>2, <2>3 DEF Peek, Exit
  <2> QED BY <1>7, <2>1, <2>2, <2>3 DEF Drain
<1>8. CASE Loader \/ Stopper \/ Boot \/ Crash \/ UNCHANGED vars
  BY <1>1, <1>2, <1>3, <1>8 DEF Loader, ListFiles, ReadFile, MergeFile, StartLoop, Stopper, StopSink,
     StopLoop, StopProcess, Boot, Crash, vars
<1> QED BY <1>1, <1>5, <1>6, <1>7, <1>8 DEF Next

LEMMA EnqueuedSorted ==
    ASSUME NEW q \in Seq(Event), NEW i \in Ids, Ids \subseteq Nat, Sorted(q), \A j \in QueuedIds(q) : j < i
    PROVE  /\ Sorted(Enqueued(q, i))
           /\ QueuedIds(Enqueued(q, i)) \subseteq QueuedIds(q) \cup {i}
<1> DEFINE s == Supersede(q, i)
           e == [id |-> i, tries |-> 0]
<1>1. s \in Seq(Event) /\ e \in Event /\ e.id = i /\ Enqueued(q, i) = Append(s, e)
  <2>1. s \in Seq(Event)
    BY SupersedeExactly
  <2>2. e \in Event /\ e.id = i
    BY P2PAssumption DEF Event
  <2> QED BY <2>1, <2>2 DEF Enqueued
<1>2. PICK at \in [DOMAIN s -> DOMAIN q] :
        /\ \A j \in DOMAIN s : s[j] = q[at[j]]
        /\ \A j, k \in DOMAIN s : j < k => at[j] < at[k]
  BY SupersedeExactly
<1> HIDE DEF s, e
<1>3. Sorted(s) /\ \A n \in DOMAIN s : s[n].id < i
  BY <1>2 DEF Sorted, QueuedIds
<1>4. /\ Len(s) \in Nat /\ DOMAIN s = 1 .. Len(s)
      /\ DOMAIN Append(s, e) = 1 .. Len(s) + 1
      /\ Append(s, e)[Len(s) + 1] = e
      /\ \A n \in DOMAIN s : Append(s, e)[n] = s[n]
  BY <1>1, AppendEntries
<1>5. Sorted(Append(s, e))
  BY <1>1, <1>3, <1>4 DEF Sorted
<1> QED BY <1>1, <1>5, EnqueuedProps

\* After a post that was answered, what is left keeps its order.
LEMMA SettledSorted ==
    ASSUME NEW q \in Seq(Event), NEW ev \in Event, Sorted(q)
    PROVE  Sorted(Settled(q, ev, FALSE)) /\ QueuedIds(Settled(q, ev, FALSE)) \subseteq QueuedIds(q)
<1>1. CASE q # <<>> /\ Head(q) = ev
  <2>1. /\ Len(q) \in Nat /\ DOMAIN q = 1 .. Len(q) /\ DOMAIN Tail(q) = 1 .. Len(q) - 1
        /\ \A n \in DOMAIN Tail(q) : Tail(q)[n] = q[n + 1]
    BY <1>1, TailEntries
  <2>2. \A n \in DOMAIN Tail(q) : n + 1 \in DOMAIN q
    BY <2>1
  <2>3. Sorted(Tail(q)) /\ QueuedIds(Tail(q)) \subseteq QueuedIds(q)
    BY <2>1, <2>2 DEF Sorted, QueuedIds
  <2> QED BY <1>1, <2>3 DEF Settled
<1>2. CASE ~(q # <<>> /\ Head(q) = ev)
  BY <1>2 DEF Settled
<1> QED BY <1>1, <1>2

LEMMA SentStep == FeedInv /\ SentInv /\ [Next]_vars => SentInv'
<1> SUFFICES ASSUME FeedInv, SentInv, [Next]_vars PROVE SentInv'
  OBVIOUS
<1>1. /\ peer \in [Peers -> [Rows -> Copy]] /\ accepted \in [Peers -> SUBSET Ids]
  BY DEF FeedInv, TypeInv, TypeOK
<1>2. CASE UNCHANGED peer /\ \A d \in Peers : accepted[d] \subseteq accepted'[d]
  BY <1>2 DEF SentInv
<1>3. ASSUME NEW d \in Peers, Enqueue(d) PROVE SentInv'
  BY <1>1, <1>2, <1>3 DEF Enqueue
<1>4. ASSUME NEW g \in Workers, Post(g) PROVE SentInv'
  <2> DEFINE d == worker[g].dst
             i == worker[g].ev.id
  <2>1. /\ worker[g].pc = "post" /\ accepted' = accepted
        /\ peer' \in {peer, [peer EXCEPT ![d] = Applied(@, i)]}
    BY <1>4 DEF Post
  <2>2. d \in Peers /\ i \in accepted[d]
    BY <2>1, WorkerBusy DEF FeedInv, AcceptedInv
  <2> HIDE DEF d, i
  <2>3. \A k \in Rows : Applied(peer[d], i)[k].id \in {peer[d][k].id, i}
    BY <1>1, <2>2 DEF Applied, Copy
  <2>4. \A e \in Peers, k \in Rows : peer'[e][k].id = peer[e][k].id \/ (e = d /\ peer'[e][k].id = i)
    BY <1>1, <2>1, <2>2, <2>3
  <2> QED BY <2>1, <2>2, <2>4 DEF SentInv
<1>5. CASE \/ Writer \/ TakeSink \/ EnqueueTrigger \/ \E d \in Peers : Tick(d) \/ ReadFile(d)
           \/ \E g \in Workers : Peek(g) \/ Settle(g) \/ Exit(g)
  BY <1>2, <1>5 DEF Writer, Write, Commit, Rollback, TakeSink, EnqueueTrigger, Tick, ReadFile, Peek,
     Settle, Exit
<1>6. CASE \/ ListFiles \/ MergeFile \/ StartLoop \/ StopSink \/ StopLoop \/ Boot
           \/ LoseMemory \/ UNCHANGED vars
  BY <1>2, <1>6 DEF ListFiles, MergeFile, StartLoop, StopSink, StopLoop, Boot, LoseMemory, vars
<1> QED
  BY <1>3, <1>4, <1>5, <1>6
  DEF Next, SinkWorker, Drain, Loader, Stopper, StopProcess, Crash

\* While the feed runs the queue in memory is the one in the file.
LEMMA RunningFile ==
    ASSUME TypeInv, DiskInv, NEW d \in Peers,
           \/ push # NoPush
           \/ \E g \in Workers : worker[g].pc # "idle"
    PROVE  disk[d] = queue[d] /\ phase \in {"up", "stopping", "closed"}
BY DEF TypeInv, TypeOK, DiskInv

\* A step that moves no row, no file and no event in flight keeps the order.
LEMMA OrderFrame ==
    ASSUME TypeInv, InOrderInv, UNCHANGED <<peer, disk, log>>,
           \A g \in Workers : worker'[g] = worker[g]
                           \/ (~worker'[g].err /\ worker'[g].pc \notin {"post", "settle"})
    PROVE  InOrderInv'
<1>1. \A g \in Workers : ~worker'[g].err /\ FlightInOrder(g)'
  BY DEF InOrderInv, FlightInOrder, RowOf
<1> QED BY <1>1 DEF InOrderInv, RowOf

LEMMA OrderWrite ==
    ASSUME FeedInv, InOrderInv,
           NEW k \in Rows, NEW a \in {"create", "update", "delete"}, Write(k, a)
    PROVE  InOrderInv'
<1>1. \A i \in Ids : RowOf(i)' = RowOf(i)
  BY WriteGrows DEF Write, FeedInv, TypeInv, Change, RowOf
<1>2. UNCHANGED <<peer, disk, worker>>
  BY DEF Write
<1>3. \A d \in Peers : QueuedIds(disk[d]) \subseteq Ids
  BY DEF FeedInv, TypeInv, TypeOK, AcceptedInv
<1>4. \A g \in Workers :
         worker[g].pc \in {"post", "settle"} => worker[g].ev.id \in Ids /\ worker[g].dst \in Peers
  BY WorkerBusy DEF FeedInv
<1>5. \A g \in Workers : FlightInOrder(g)'
  BY <1>1, <1>2, <1>3, <1>4 DEF InOrderInv, FlightInOrder
<1> QED BY <1>1, <1>2, <1>3, <1>5 DEF InOrderInv

LEMMA OrderEnqueue ==
    ASSUME FeedInv, DiskInv, DiskInv', SentInv, InOrderInv, NEW d \in Peers, Enqueue(d)
    PROVE  InOrderInv'
<1> DEFINE i == push.id
           q == Enqueued(queue[d], i)
<1>1. /\ queue' = [queue EXCEPT ![d] = q] /\ push # NoPush
      /\ UNCHANGED <<phase, log, peer, worker>>
  BY DEF Enqueue, NoPush
<1>2. /\ queue \in [Peers -> Seq(Event)] /\ peer \in [Peers -> [Rows -> Copy]]
      /\ \A j \in Ids : RowOf(j) \in Rows
      /\ Ids \subseteq Nat
  <2>1. TypeOK
    BY DEF FeedInv, TypeInv
  <2>2. Ids = 1 .. Len(log) /\ Len(log) \in Nat /\ \A j \in Ids : log[j] \in Change
    BY <2>1, HistoryGrows
  <2>3. \A j \in Ids : RowOf(j) \in Rows
    BY <2>2 DEF RowOf, Change
  <2> QED BY <2>1, <2>2, <2>3 DEF TypeOK
<1>3. i \in Ids /\ i \notin accepted[d] /\ \A j \in accepted[d] : j < i
  BY EnqueueIsNew
<1>4. phase \in {"up", "stopping", "closed"} /\ \A e \in Peers : disk[e] = queue[e] /\ disk'[e] = queue'[e]
  <2>1. phase \in {"up", "stopping", "closed"}
    BY <1>1, RunningFile, P2PAssumption DEF FeedInv
  <2> QED BY <1>1, <2>1 DEF DiskInv
<1>5. \A e \in Peers : QueuedIds(disk[e]) \subseteq accepted[e] /\ accepted[e] \subseteq Ids
  BY DEF FeedInv, AcceptedInv, TypeInv, TypeOK
<1>6. Sorted(q) /\ QueuedIds(q) \subseteq QueuedIds(disk[d]) \cup {i}
  <2>1. Sorted(queue[d]) /\ \A j \in QueuedIds(queue[d]) : j < i
    BY <1>3, <1>4, <1>5 DEF InOrderInv
  <2> QED BY <1>2, <1>3, <1>4, <2>1, EnqueuedSorted
<1> HIDE DEF q
<1>7. disk'[d] = q /\ \A e \in Peers \ {d} : disk'[e] = disk[e]
  BY <1>1, <1>2, <1>4
<1>8. peer[d][RowOf(i)].id <= i
  <2>1. peer[d][RowOf(i)].id = 0 \/ peer[d][RowOf(i)].id \in accepted[d]
    BY <1>2, <1>3 DEF SentInv
  <2>2. i \in Nat
    BY <1>2, <1>3
  <2>3. CASE peer[d][RowOf(i)].id = 0
    BY <2>2, <2>3
  <2>4. CASE peer[d][RowOf(i)].id \in accepted[d]
    <3>1. peer[d][RowOf(i)].id < i /\ peer[d][RowOf(i)].id \in Nat
      BY <1>2, <1>3, <1>5, <2>4
    <3> QED BY <2>2, <3>1
  <2> QED BY <2>1, <2>3, <2>4
<1> HIDE DEF i
<1>9. ASSUME NEW e \in Peers
      PROVE  Sorted(disk'[e]) /\ \A j \in QueuedIds(disk'[e]) : peer[e][RowOf(j)].id <= j
  <2>1. CASE e = d
    BY <1>6, <1>7, <1>8, <2>1 DEF InOrderInv
  <2>2. CASE e # d
    BY <1>7, <2>2 DEF InOrderInv
  <2> QED BY <2>1, <2>2
<1>10. ASSUME NEW g \in Workers, worker[g].pc \in {"post", "settle"}
       PROVE  \A j \in QueuedIds(disk'[worker[g].dst]) :
                 RowOf(j) = RowOf(worker[g].ev.id) => worker[g].ev.id <= j
  <2>1. worker[g].dst \in Peers /\ worker[g].ev.id \in accepted[worker[g].dst]
    BY <1>10, WorkerBusy DEF FeedInv, AcceptedInv
  <2>2. \A j \in QueuedIds(disk[worker[g].dst]) :
           RowOf(j) = RowOf(worker[g].ev.id) => worker[g].ev.id <= j
    BY <1>10 DEF InOrderInv, FlightInOrder
  <2>3. CASE worker[g].dst = d
    <3>1. worker[g].ev.id \in Nat /\ i \in Nat
      BY <1>2, <1>3, <1>5, <2>1
    <3>2. worker[g].ev.id < i
      BY <1>3, <2>1, <2>3
    <3>3. worker[g].ev.id <= i
      BY <3>1, <3>2
    <3> QED BY <3>3, <1>6, <1>7, <2>2, <2>3, <3>1
  <2>4. CASE worker[g].dst # d
    BY <1>7, <2>1, <2>2, <2>4
  <2> QED BY <2>3, <2>4
<1>11. \A g \in Workers : ~worker'[g].err /\ FlightInOrder(g)'
  BY <1>1, <1>10 DEF InOrderInv, FlightInOrder, RowOf
<1> QED BY <1>1, <1>9, <1>11 DEF InOrderInv, RowOf

LEMMA OrderPeek ==
    ASSUME FeedInv, DiskInv, InOrderInv, NEW g \in Workers, Peek(g)
    PROVE  InOrderInv'
<1> DEFINE d == worker[g].dst
           q == queue[d]
<1>1. worker \in [Workers -> WorkerType] /\ worker[g].pc = "peek" /\ d \in Peers
      /\ q \in Seq(Event) /\ UNCHANGED <<peer, disk, log>>
  BY DEF FeedInv, TypeInv, TypeOK, WorkerType, WorkerInv, Peek
<1>2. /\ \A h \in Workers \ {g} : worker'[h] = worker[h]
      /\ worker'[g] = IF q = <<>> THEN [worker[g] EXCEPT !.pc = "exit"]
                                  ELSE [worker[g] EXCEPT !.pc = "post", !.ev = Head(q)]
  BY <1>1 DEF Peek
<1>3. disk[d] = q
  BY <1>1, RunningFile DEF FeedInv
<1>4. ~worker[g].err
  BY DEF InOrderInv
<1>5. CASE q = <<>>
  <2>1. worker'[g].pc = "exit" /\ ~worker'[g].err
    BY <1>1, <1>2, <1>4, <1>5 DEF WorkerType
  <2> QED BY <1>1, <1>2, <2>1, OrderFrame DEF FeedInv
<1>6. CASE q # <<>>
  <2>1. /\ worker'[g].pc = "post" /\ worker'[g].dst = d /\ worker'[g].ev = Head(q) /\ ~worker'[g].err
    BY <1>1, <1>2, <1>4, <1>6 DEF WorkerType
  <2>2. Head(q) = q[1] /\ 1 \in DOMAIN q /\ DOMAIN q = 1 .. Len(q) /\ Len(q) \in Nat
    BY <1>1, <1>6, TailEntries
  <2>3. Sorted(q) /\ \A n \in DOMAIN q : peer[d][RowOf(q[n].id)].id <= q[n].id
    BY <1>1, <1>3 DEF InOrderInv, QueuedIds
  <2> HIDE DEF d, q
  <2>4. \A n \in DOMAIN q : q[1].id <= q[n].id
    <3> TAKE n \in DOMAIN q
    <3>1. q[1].id \in Ids /\ q[n].id \in Ids
      <4>1. q[1] \in Event /\ q[n] \in Event
        BY <1>1, <2>2, ElementOfSeq
      <4> QED BY <4>1 DEF Event
    <3>2. Ids \subseteq Nat
      BY HistoryGrows DEF FeedInv, TypeInv
    <3>3. n = 1 \/ q[1].id < q[n].id
      BY <2>2, <2>3 DEF Sorted
    <3>4. q[1].id \in Nat /\ q[n].id \in Nat
      BY <3>1, <3>2
    <3>5. CASE n = 1
      BY <3>4, <3>5
    <3>6. CASE q[1].id < q[n].id
      BY <3>4, <3>6
    <3> QED BY <3>3, <3>5, <3>6
  <2>5. FlightInOrder(g)'
    BY <1>1, <1>3, <2>1, <2>2, <2>3, <2>4 DEF FlightInOrder, QueuedIds, RowOf
  <2>6. \A h \in Workers \ {g} : ~worker'[h].err /\ FlightInOrder(h)'
    BY <1>1, <1>2 DEF InOrderInv, FlightInOrder, RowOf
  <2> QED BY <1>1, <2>1, <2>5, <2>6 DEF InOrderInv, RowOf
<1> QED BY <1>5, <1>6

\* A post that is answered leaves the peer with a row that is not newer than
\* what is queued for it, and not older than the row it had.
LEMMA OrderPost ==
    ASSUME FeedInv, InOrderInv, NEW g \in Workers, Post(g), faults'.post = 0
    PROVE  /\ InOrderInv'
           /\ \A d \in Peers, k \in Rows : peer'[d][k].id >= peer[d][k].id
<1> DEFINE d == worker[g].dst
           i == worker[g].ev.id
<1>1. /\ worker \in [Workers -> WorkerType] /\ peer \in [Peers -> [Rows -> Copy]]
      /\ faults \in FaultType /\ worker[g].pc = "post" /\ UNCHANGED <<disk, log>>
  BY DEF FeedInv, TypeInv, TypeOK, WorkerType, FaultType, Post
<1>2. d \in Peers /\ i \in Ids
      /\ \A h \in Workers \ {g} : worker[h].pc # "idle" => worker[h].dst # d
  BY <1>1, WorkerBusy DEF FeedInv
<1>3. PICK err \in BOOLEAN :
        /\ IF err THEN faults' = [faults EXCEPT !.post = @ + 1] ELSE TRUE
        /\ ~err => peer' = [peer EXCEPT ![d] = Applied(@, i)]
        /\ worker' = [worker EXCEPT ![g].pc = "settle", ![g].err = err]
  BY DEF Post
<1>4. ~err
  BY <1>1, <1>3 DEF FaultType
<1>5. /\ worker'[g].pc = "settle" /\ worker'[g].dst = d /\ worker'[g].ev.id = i /\ ~worker'[g].err
      /\ \A h \in Workers \ {g} : worker'[h] = worker[h]
  BY <1>1, <1>3, <1>4 DEF WorkerType
<1>6. /\ \A j \in QueuedIds(disk[d]) : RowOf(j) = RowOf(i) => i <= j
      /\ peer[d][RowOf(i)].id <= i
  BY <1>1 DEF InOrderInv, FlightInOrder
<1> HIDE DEF d, i
<1>7. RowOf(i) \in Rows /\ i \in Nat /\ \A j \in QueuedIds(disk[d]) : RowOf(j) \in Rows
  <2>1. TypeOK /\ QueuedIds(disk[d]) \subseteq Ids
    BY <1>2 DEF FeedInv, TypeInv, TypeOK, AcceptedInv
  <2> QED BY <1>2, <2>1, HistoryGrows DEF RowOf, Change
<1>8. \A k \in Rows : Applied(peer[d], i)[k].id
                        \in {peer[d][k].id} \cup (IF k = RowOf(i) THEN {i} ELSE {})
  BY <1>1, <1>2, <1>7 DEF Applied, Copy
<1>9. peer'[d] = Applied(peer[d], i) /\ \A e \in Peers \ {d} : peer'[e] = peer[e]
  BY <1>1, <1>2, <1>3, <1>4
<1>10. \A e \in Peers, k \in Rows : peer[e][k].id \in Nat
  BY <1>1 DEF Copy
<1>11. \A e \in Peers, k \in Rows : peer'[e][k].id >= peer[e][k].id
  BY <1>2, <1>6, <1>7, <1>8, <1>9, <1>10
<1>12. \A j \in QueuedIds(disk[d]) : peer'[d][RowOf(j)].id <= j
  BY <1>2, <1>6, <1>7, <1>8, <1>9 DEF InOrderInv
<1>13. \A e \in Peers : Sorted(disk[e]) /\ \A j \in QueuedIds(disk[e]) : peer'[e][RowOf(j)].id <= j
  BY <1>9, <1>12 DEF InOrderInv
<1>14. FlightInOrder(g)'
  BY <1>1, <1>5, <1>6 DEF FlightInOrder, RowOf
<1>15. ASSUME NEW h \in Workers \ {g} PROVE ~worker'[h].err /\ FlightInOrder(h)'
  <2>1. worker'[h] = worker[h] /\ ~worker[h].err /\ FlightInOrder(h)
    BY <1>5 DEF InOrderInv
  <2>2. worker[h].pc \in {"post", "settle"} => worker[h].dst \in Peers /\ worker[h].dst # d
    BY <1>2, WorkerBusy DEF FeedInv
  <2>3. worker[h].pc \in {"post", "settle"} => peer'[worker[h].dst] = peer[worker[h].dst]
    BY <1>9, <2>2
  <2> QED BY <1>1, <2>1, <2>3 DEF FlightInOrder, RowOf
<1> QED BY <1>1, <1>5, <1>11, <1>13, <1>14, <1>15 DEF InOrderInv, RowOf

LEMMA OrderSettle ==
    ASSUME FeedInv, DiskInv, DiskInv', InOrderInv, NEW g \in Workers, Settle(g)
    PROVE  InOrderInv'
<1> DEFINE d == worker[g].dst
           q == Settled(queue[d], worker[g].ev, worker[g].err)
<1>1. /\ worker \in [Workers -> WorkerType] /\ queue \in [Peers -> Seq(Event)]
      /\ worker[g].pc = "settle" /\ UNCHANGED <<phase, peer, log>>
      /\ queue' = [queue EXCEPT ![d] = q]
  BY DEF FeedInv, TypeInv, TypeOK, WorkerType, Settle
<1>2. d \in Peers /\ worker[g].ev \in Event
      /\ \A h \in Workers \ {g} : worker[h].pc # "idle" => worker[h].dst # d
  BY <1>1, WorkerBusy DEF FeedInv
<1>3. phase \in {"up", "stopping", "closed"}
  BY <1>1, <1>2, RunningFile DEF FeedInv
<1>4. \A e \in Peers : disk[e] = queue[e] /\ disk'[e] = queue'[e]
  BY <1>1, <1>3 DEF DiskInv
<1>5. worker[g].err = FALSE
  BY WorkerBusy, <1>1 DEF InOrderInv, FeedInv
<1>6. Sorted(q) /\ QueuedIds(q) \subseteq QueuedIds(disk[d])
  <2>1. Sorted(queue[d]) /\ queue[d] \in Seq(Event)
    BY <1>1, <1>2, <1>4 DEF InOrderInv
  <2> QED BY <1>2, <1>4, <1>5, <2>1, SettledSorted
<1>7. /\ worker'[g].pc \in {"exit", "peek"} /\ ~worker'[g].err
      /\ \A h \in Workers \ {g} : worker'[h] = worker[h]
  BY <1>1 DEF Settle, WorkerType
<1> HIDE DEF q, d
<1>8. disk'[d] = q /\ \A e \in Peers \ {d} : disk'[e] = disk[e]
  BY <1>1, <1>2, <1>4
<1>9. \A e \in Peers : Sorted(disk'[e]) /\ \A j \in QueuedIds(disk'[e]) : peer[e][RowOf(j)].id <= j
  BY <1>6, <1>8 DEF InOrderInv
<1>10. ASSUME NEW h \in Workers \ {g} PROVE ~worker'[h].err /\ FlightInOrder(h)'
  <2>1. worker'[h] = worker[h] /\ ~worker[h].err /\ FlightInOrder(h)
    BY <1>7 DEF InOrderInv
  <2>2. worker[h].pc \in {"post", "settle"} => disk'[worker[h].dst] = disk[worker[h].dst]
    BY <1>2, <1>8, WorkerBusy DEF FeedInv
  <2> QED BY <1>1, <2>1, <2>2 DEF FlightInOrder, RowOf
<1>11. ~worker'[g].err /\ FlightInOrder(g)'
  BY <1>7 DEF FlightInOrder
<1> QED BY <1>1, <1>9, <1>10, <1>11 DEF InOrderInv, RowOf

\* Every step of a feed without failures keeps the order, and lets no peer's
\* row go back.
LEMMA InOrderStep ==
    ASSUME FeedInv, DiskInv, DiskInv', SentInv, InOrderInv, [Next]_vars, faults'.post = 0
    PROVE  /\ InOrderInv'
           /\ \A d \in Peers, k \in Rows : peer'[d][k].id >= peer[d][k].id
<1>1. /\ worker \in [Workers -> WorkerType] /\ peer \in [Peers -> [Rows -> Copy]]
      /\ push \in [id : Ids \cup {0}, todo : SUBSET Peers, trig : Peers \cup {NoPeer}]
  BY DEF FeedInv, TypeInv, TypeOK, WorkerType
<1>2. peer' = peer => \A d \in Peers, k \in Rows : peer'[d][k].id >= peer[d][k].id
  BY <1>1 DEF Copy
<1>3. ASSUME UNCHANGED <<peer, disk, log, worker>> PROVE InOrderInv'
  BY <1>3, OrderFrame DEF FeedInv
<1>4. ASSUME NEW d \in Peers, Trigger(d), UNCHANGED <<peer, disk, log>> PROVE InOrderInv'
  <2>1. ASSUME NEW g \in Workers,
               worker' = [worker EXCEPT ![g] = [Idle EXCEPT !.pc = "peek", !.dst = d]]
        PROVE  InOrderInv'
    <3>1. /\ worker'[g].pc = "peek" /\ ~worker'[g].err
          /\ \A h \in Workers \ {g} : worker'[h] = worker[h]
      BY <1>1, <2>1 DEF Idle
    <3> QED BY <1>4, <3>1, OrderFrame DEF FeedInv
  <2> QED BY <1>3, <1>4, <2>1 DEF Trigger, drains
<1>5. CASE EnqueueTrigger
  <2>1. push.trig \in Peers /\ Trigger(push.trig) /\ UNCHANGED <<peer, disk, log>>
    BY <1>1, <1>5 DEF EnqueueTrigger
  <2> QED BY <1>2, <1>4, <2>1
<1>6. ASSUME NEW d \in Peers, Tick(d)
      PROVE  InOrderInv' /\ peer' = peer
  BY <1>4, <1>6 DEF Tick
<1>7. ASSUME NEW k \in Rows, NEW a \in {"create", "update", "delete"}, Write(k, a)
      PROVE  InOrderInv' /\ peer' = peer
  BY <1>7, OrderWrite DEF Write
<1>8. ASSUME NEW d \in Peers, Enqueue(d)
      PROVE  InOrderInv' /\ peer' = peer
  BY <1>8, OrderEnqueue DEF Enqueue
<1>9. ASSUME NEW g \in Workers, Drain(g)
      PROVE  InOrderInv' /\ \A d \in Peers, k \in Rows : peer'[d][k].id >= peer[d][k].id
  <2>1. CASE Peek(g)
    BY <1>2, <2>1, OrderPeek DEF Peek
  <2>2. CASE Post(g)
    BY <2>2, OrderPost
  <2>3. CASE Settle(g)
    BY <1>2, <2>3, OrderSettle DEF Settle
  <2>4. CASE Exit(g)
    <3>1. /\ worker'[g].pc = "idle" /\ ~worker'[g].err /\ UNCHANGED <<peer, disk, log>>
          /\ \A h \in Workers \ {g} : worker'[h] = worker[h]
      BY <1>1, <2>4 DEF Exit, Idle
    <3> QED BY <1>2, <3>1, OrderFrame DEF FeedInv
  <2> QED BY <1>9, <2>1, <2>2, <2>3, <2>4 DEF Drain
<1>10. CASE LoseMemory
  <2>1. /\ \A g \in Workers : worker'[g].pc = "idle" /\ ~worker'[g].err
        /\ UNCHANGED <<peer, disk, log>>
    BY <1>10 DEF LoseMemory, Idle
  <2> QED BY <1>2, <2>1, OrderFrame DEF FeedInv
<1>11. CASE \/ \E k \in Rows : Commit(k) \/ Rollback(k)
            \/ TakeSink \/ \E d \in Peers : ReadFile(d)
            \/ ListFiles \/ MergeFile \/ StartLoop \/ StopSink \/ StopLoop \/ Boot \/ UNCHANGED vars
  BY <1>2, <1>3, <1>11 DEF Commit, Rollback, TakeSink, ReadFile, ListFiles, MergeFile, StartLoop,
     StopSink, StopLoop, Boot, vars
<1> QED
  BY <1>2, <1>5, <1>6, <1>7, <1>8, <1>9, <1>10, <1>11
  DEF Next, Writer, SinkWorker, Loader, Stopper, StopProcess, Crash

\* As long as every post is answered and every queue file written, a peer's row
\* never goes back to an older change: superseding keeps the order of a queue,
\* and what is posted again after a crash is the head of its file.
THEOREM RowsAdvance ==
    ASSUME ~EarlyWrites
    PROVE  Spec => InOrderWithoutFailures
<1> DEFINE Inv == /\ SentInv
                  /\ faults.disk = 0 => DiskInv
                  /\ faults.disk = 0 /\ faults.post = 0 => InOrderInv
           Step == faults'.post = 0 /\ faults'.disk = 0 =>
                     \A d \in Peers, k \in Rows : peer'[d][k].id >= peer[d][k].id
<1>1. Init => Inv
  BY DEF Init, DiskInv, SentInv, InOrderInv, FlightInOrder, Sorted, QueuedIds, Idle
<1>2. ASSUME FeedInv, Inv, [Next]_vars PROVE Inv' /\ Step
  <2>1. /\ faults.post \in Nat /\ faults.disk \in Nat
        /\ faults'.post >= faults.post /\ faults'.disk >= faults.disk
    BY <1>2, FaultsGrow DEF FeedInv
  <2>2. SentInv'
    BY <1>2, SentStep
  <2>3. CASE faults'.disk = 0 /\ faults'.post = 0
    <3>1. faults.disk = 0 /\ faults.post = 0
      BY <2>1, <2>3
    <3>2. DiskInv /\ DiskInv' /\ InOrderInv
      BY <1>2, <2>3, <3>1, DiskStep DEF FeedInv
    <3>3. InOrderInv' /\ \A d \in Peers, k \in Rows : peer'[d][k].id >= peer[d][k].id
      BY <1>2, <2>3, <3>2, InOrderStep
    <3> QED BY <2>2, <3>2, <3>3
  <2>4. CASE faults'.disk = 0 /\ faults'.post # 0
    <3>1. faults.disk = 0
      BY <2>1, <2>4
    <3>2. DiskInv'
      BY <1>2, <2>4, <3>1, DiskStep DEF FeedInv
    <3> QED BY <2>2, <2>4, <3>2
  <2>5. CASE faults'.disk # 0
    BY <2>2, <2>5
  <2> QED BY <2>3, <2>4, <2>5
<1>3. Spec => []FeedInv
  BY FeedInvariant
<1> HIDE DEF Inv, Step
<1>4. Spec => [][Step]_vars
  BY <1>1, <1>2, <1>3, PTL DEF Spec
<1> QED BY <1>4 DEF Step, InOrderWithoutFailures
=============================================================================
