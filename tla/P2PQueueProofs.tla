--------------------------- MODULE P2PQueueProofs ---------------------------
(***************************************************************************)
(* Proofs about the change feed of P2PQueue, for every set of peers, rows  *)
(* and workers, every retry limit and every bound.                         *)
(***************************************************************************)
EXTENDS P2PQueue, FiniteSetTheorems, SequenceTheorems, TLAPS

-----------------------------------------------------------------------------
(* The subsequence operator.                                                *)

\* Keep(q, I), with which enqueue removes superseded updates, holds the entries
\* of q at the positions in I, each once and in their order.
LEMMA KeepInOrder ==
    ASSUME NEW S, NEW q \in Seq(S), NEW I \in SUBSET DOMAIN q
    PROVE  /\ Keep(q, I) \in Seq(S)
           /\ \E at \in [DOMAIN Keep(q, I) -> I] :
                /\ \A j \in DOMAIN Keep(q, I) : Keep(q, I)[j] = q[at[j]]
                /\ \A i \in I : \E j \in DOMAIN Keep(q, I) : at[j] = i
                /\ \A j, k \in DOMAIN Keep(q, I) : j < k => at[j] < at[k]
<1> DEFINE n == Cardinality(I)
           Upto(i) == {m \in I : m <= i}
           rank == [i \in I |-> Cardinality(Upto(i))]
<1>1. DOMAIN q = 1 .. Len(q) /\ Len(q) \in Nat
  BY LenProperties
<1>2. I \subseteq Nat
  BY <1>1
<1>3. IsFiniteSet(I) /\ n \in Nat
  <2>1. IsFiniteSet(DOMAIN q)
    BY <1>1, FS_Interval
  <2>2. IsFiniteSet(I)
    BY <2>1, FS_Subset
  <2> QED BY <2>2, FS_CardinalityType
<1>4. \A i \in I : /\ IsFiniteSet(Upto(i))
                   /\ Upto(i) \subseteq I
                   /\ Cardinality(Upto(i)) \in Nat
                   /\ Cardinality(Upto(i)) <= n
  BY <1>3, FS_Subset, FS_CardinalityType
<1>5. \A i \in I : rank[i] \in 1 .. n
  <2> TAKE i \in I
  <2>1. Upto(i) # {}
    BY <1>2
  <2>2. Cardinality(Upto(i)) # 0
    BY <1>4, <2>1, FS_EmptySet
  <2> HIDE DEF n, Upto
  <2> QED BY <1>3, <1>4, <2>2
<1>6. \A i, k \in I : rank[i] = rank[k] => i = k
  <2>1. ASSUME NEW i \in I, NEW k \in I, i < k PROVE rank[i] # rank[k]
    <3>1. Upto(i) \subseteq Upto(k)
      BY <1>2, <2>1
    <3>2. k \in Upto(k) /\ k \notin Upto(i)
      BY <1>2, <2>1
    <3>3. Cardinality(Upto(k)) # Cardinality(Upto(i))
      BY <1>4, <3>1, <3>2, FS_Subset
    <3> QED BY <3>3
  <2> HIDE DEF rank
  <2> QED BY <1>2, <2>1
<1>7. \A j \in 1 .. n : \E i \in I : rank[i] = j
  <2> SUFFICES ASSUME NEW j \in 1 .. n, \A i \in I : rank[i] # j PROVE FALSE
    OBVIOUS
  <2> DEFINE T == (1 .. n) \ {j}
  <2>1. rank \in [I -> T]
    <3> HIDE DEF n, Upto
    <3> QED BY <1>5
  <2>2. IsFiniteSet(1 .. n) /\ Cardinality(1 .. n) = n
    <3> HIDE DEF n
    <3> QED BY <1>3, FS_Interval
  <2>3. IsFiniteSet(T) /\ Cardinality(T) = n - 1
    <3> HIDE DEF n
    <3> QED BY <2>2, FS_RemoveElement
  <2>4. Cardinality(T) < Cardinality(I)
    BY <1>3, <2>3
  <2> HIDE DEF T, rank, n
  <2>5. \E x, y \in I : x # y /\ rank[x] = rank[y]
    BY <1>3, <2>1, <2>3, <2>4, FS_PigeonHole
  <2> QED BY <1>6, <2>5
<1> DEFINE at(j) == CHOOSE i \in I : Cardinality(Upto(i)) = j
<1>8. \A j \in 1 .. n : at(j) \in I /\ Cardinality(Upto(at(j))) = j
  <2> TAKE j \in 1 .. n
  <2>1. \E i \in I : Cardinality(Upto(i)) = j
    BY <1>7
  <2> QED BY <2>1
<1>9. \A i \in I : at(rank[i]) = i
  <2> TAKE i \in I
  <2>1. rank[i] \in 1 .. n
    BY <1>5
  <2>2. at(rank[i]) \in I /\ rank[at(rank[i])] = rank[i]
    BY <2>1, <1>8
  <2> QED BY <2>2, <1>6
<1>10. \A j, k \in 1 .. n : j < k => at(j) < at(k)
  <2> SUFFICES ASSUME NEW j \in 1 .. n, NEW k \in 1 .. n, j < k, ~(at(j) < at(k)) PROVE FALSE
    OBVIOUS
  <2> HIDE DEF n, at
  <2>1. at(j) \in Nat /\ at(k) \in Nat /\ at(j) \in I /\ at(k) \in I
    BY <1>2, <1>8
  <2>2. Upto(at(k)) \subseteq Upto(at(j))
    BY <1>2, <2>1
  <2>3. Cardinality(Upto(at(k))) <= Cardinality(Upto(at(j)))
    BY <1>4, <2>1, <2>2, FS_Subset
  <2> HIDE DEF Upto
  <2>4. k <= j
    BY <1>8, <2>3
  <2> QED BY <1>3, <2>4
<1>11. Keep(q, I) = [j \in 1 .. n |-> q[at(j)]]
  BY DEF Keep
<1> HIDE DEF n, rank, at, Upto
<1>12. \A j \in 1 .. n : q[at(j)] \in S
  BY <1>1, <1>8, ElementOfSeq
<1>13. [j \in 1 .. n |-> q[at(j)]] \in Seq(S)
  BY <1>3, <1>12, SeqDef
<1>14. \E f \in [1 .. n -> I] :
          /\ \A j \in 1 .. n : q[at(j)] = q[f[j]]
          /\ \A i \in I : \E j \in 1 .. n : f[j] = i
          /\ \A j, k \in 1 .. n : j < k => f[j] < f[k]
  <2> DEFINE f == [j \in 1 .. n |-> at(j)]
  <2>1. f \in [1 .. n -> I]
    BY <1>8
  <2>2. \A i \in I : \E j \in 1 .. n : f[j] = i
    BY <1>5, <1>9
  <2>3. \A j, k \in 1 .. n : j < k => f[j] < f[k]
    BY <1>10
  <2>4. \A j \in 1 .. n : q[at(j)] = q[f[j]]
    OBVIOUS
  <2> HIDE DEF f
  <2> QED BY <2>1, <2>2, <2>3, <2>4
<1> DEFINE K == [j \in 1 .. n |-> q[at(j)]]
<1>15. DOMAIN K = 1 .. n /\ \A j \in 1 .. n : K[j] = q[at(j)]
  OBVIOUS
<1>16. PICK f \in [1 .. n -> I] :
          /\ \A j \in 1 .. n : q[at(j)] = q[f[j]]
          /\ \A i \in I : \E j \in 1 .. n : f[j] = i
          /\ \A j, k \in 1 .. n : j < k => f[j] < f[k]
  BY <1>14
<1>17. Keep(q, I) = K /\ K \in Seq(S)
  BY <1>11, <1>13
<1> HIDE DEF K
<1>18. \A j \in 1 .. n : K[j] = q[f[j]]
  BY <1>15, <1>16
<1> QED BY <1>15, <1>16, <1>17, <1>18

LEMMA KeepIsSubsequence ==
    ASSUME NEW S, NEW q \in Seq(S), NEW I \in SUBSET DOMAIN q
    PROVE  /\ Keep(q, I) \in Seq(S)
           /\ \A i \in I : \E j \in DOMAIN Keep(q, I) : Keep(q, I)[j] = q[i]
           /\ \A j \in DOMAIN Keep(q, I) : \E i \in I : Keep(q, I)[j] = q[i]
BY KeepInOrder
-----------------------------------------------------------------------------
(* What enqueue and Drain do to a queue.                                    *)

\* The ids of a queue after Append.
LEMMA AppendIds ==
    ASSUME NEW S, NEW q \in Seq(S), NEW e \in S
    PROVE  QueuedIds(Append(q, e)) = QueuedIds(q) \cup {e.id}
<1>1. Append(q, e) \in Seq(S) /\ Len(Append(q, e)) = Len(q) + 1 /\ Len(q) \in Nat
  BY AppendProperties, LenProperties
<1>2. /\ DOMAIN q = 1 .. Len(q)
      /\ DOMAIN Append(q, e) = 1 .. Len(q) + 1
      /\ Append(q, e)[Len(q) + 1] = e
      /\ \A n \in 1 .. Len(q) : Append(q, e)[n] = q[n]
  BY <1>1, AppendProperties, LenProperties
<1> QED BY <1>1, <1>2 DEF QueuedIds

\* enqueue: the new change is in the queue, nothing else is new, and only
\* pending updates of its row are gone, superseded by an update.
LEMMA EnqueuedProps ==
    ASSUME NEW q \in Seq(Event), NEW i \in Ids
    PROVE  /\ Enqueued(q, i) \in Seq(Event)
           /\ i \in QueuedIds(Enqueued(q, i))
           /\ QueuedIds(Enqueued(q, i)) \subseteq QueuedIds(q) \cup {i}
           /\ \A j \in QueuedIds(q) :
                 \/ j \in QueuedIds(Enqueued(q, i))
                 \/ ActionOf(i) = "update" /\ ActionOf(j) = "update" /\ RowOf(j) = RowOf(i)
<1> DEFINE e == [id |-> i, tries |-> 0]
           I == {n \in DOMAIN q : ~IsUpdateOf(q[n], RowOf(i))}
<1>1. e \in Event
  BY P2PAssumption DEF Event
<1>2. /\ Supersede(q, i) \in Seq(Event)
      /\ QueuedIds(Supersede(q, i)) \subseteq QueuedIds(q)
      /\ \A j \in QueuedIds(q) :
            \/ j \in QueuedIds(Supersede(q, i))
            \/ ActionOf(i) = "update" /\ ActionOf(j) = "update" /\ RowOf(j) = RowOf(i)
  <2>1. CASE ActionOf(i) = "update"
    <3>1. I \in SUBSET DOMAIN q
      OBVIOUS
    <3>2. /\ Keep(q, I) \in Seq(Event)
          /\ \A n \in I : \E j \in DOMAIN Keep(q, I) : Keep(q, I)[j] = q[n]
          /\ \A j \in DOMAIN Keep(q, I) : \E n \in I : Keep(q, I)[j] = q[n]
      BY <3>1, KeepIsSubsequence
    <3>3. Supersede(q, i) = Keep(q, I)
      BY <2>1 DEF Supersede
    <3>4. \A n \in DOMAIN q : n \in I \/ IsUpdateOf(q[n], RowOf(i))
      OBVIOUS
    <3> HIDE DEF I
    <3>5. QueuedIds(Keep(q, I)) \subseteq QueuedIds(q)
      BY <3>1, <3>2 DEF QueuedIds
    <3>6. ASSUME NEW n \in DOMAIN q
          PROVE  \/ q[n].id \in QueuedIds(Keep(q, I))
                 \/ ActionOf(q[n].id) = "update" /\ RowOf(q[n].id) = RowOf(i)
      BY <3>2, <3>4 DEF QueuedIds, IsUpdateOf
    <3>7. ASSUME NEW j \in QueuedIds(q)
          PROVE  \/ j \in QueuedIds(Keep(q, I))
                 \/ ActionOf(j) = "update" /\ RowOf(j) = RowOf(i)
      <4>1. PICK n \in DOMAIN q : q[n].id = j
        BY DEF QueuedIds
      <4> QED BY <3>6, <4>1
    <3> QED BY <2>1, <3>2, <3>3, <3>5, <3>7
  <2>2. CASE ActionOf(i) # "update"
    BY <2>2 DEF Supersede
  <2> QED BY <2>1, <2>2
<1>3. Enqueued(q, i) = Append(Supersede(q, i), e)
  BY DEF Enqueued
<1>4. QueuedIds(Enqueued(q, i)) = QueuedIds(Supersede(q, i)) \cup {i}
  BY <1>1, <1>2, <1>3, AppendIds
<1>5. Enqueued(q, i) \in Seq(Event)
  BY <1>1, <1>2, <1>3, AppendProperties
<1> QED BY <1>2, <1>4, <1>5

\* Drain after a post: only the event posted may leave the queue, and only
\* when the post succeeded or was its last attempt.
LEMMA SettledProps ==
    ASSUME NEW q \in Seq(Event), NEW ev \in Event, NEW err \in BOOLEAN
    PROVE  /\ Settled(q, ev, err) \in Seq(Event)
           /\ QueuedIds(Settled(q, ev, err)) \subseteq QueuedIds(q) \cup {ev.id}
           /\ \A j \in QueuedIds(q) :
                 \/ j \in QueuedIds(Settled(q, ev, err))
                 \/ j = ev.id /\ (~err \/ LastTry(ev))
           /\ err /\ ~LastTry(ev) => ev.id \in QueuedIds(Settled(q, ev, err))
<1> DEFINE rest == IF q # <<>> /\ Head(q) = ev THEN Tail(q) ELSE q
           again == [ev EXCEPT !.tries = @ + 1]
<1>1. /\ rest \in Seq(Event)
      /\ QueuedIds(rest) \subseteq QueuedIds(q)
      /\ QueuedIds(q) \subseteq QueuedIds(rest) \cup {ev.id}
  <2>1. CASE q # <<>> /\ Head(q) = ev
    <3>1. /\ Len(q) \in Nat /\ DOMAIN q = 1 .. Len(q)
          /\ Tail(q) \in Seq(Event) /\ Len(Tail(q)) = Len(q) - 1
          /\ \A n \in 1 .. Len(Tail(q)) : Tail(q)[n] = q[n + 1]
          /\ q[1] = ev
      BY <2>1, HeadTailProperties, LenProperties
    <3>2. DOMAIN Tail(q) = 1 .. Len(q) - 1
      BY <3>1, LenProperties
    <3>3. ASSUME NEW n \in DOMAIN q
          PROVE  q[n] = ev \/ \E m \in DOMAIN Tail(q) : Tail(q)[m] = q[n]
      <4>1. CASE n = 1
        BY <3>1, <4>1
      <4>2. CASE n # 1
        <5>1. n - 1 \in DOMAIN Tail(q) /\ Tail(q)[n - 1] = q[n]
          BY <3>1, <3>2, <4>2
        <5> QED BY <5>1
      <4> QED BY <4>1, <4>2
    <3>4. ASSUME NEW m \in DOMAIN Tail(q)
          PROVE  \E n \in DOMAIN q : Tail(q)[m] = q[n]
      BY <3>1, <3>2
    <3>5. rest = Tail(q)
      BY <2>1
    <3> QED BY <3>1, <3>3, <3>4, <3>5 DEF QueuedIds
  <2>2. CASE ~(q # <<>> /\ Head(q) = ev)
    BY <2>2
  <2> QED BY <2>1, <2>2
<1>2. Settled(q, ev, err) = IF err /\ ~LastTry(ev) THEN Append(rest, again) ELSE rest
  BY DEF Settled
<1> HIDE DEF rest
<1>3. CASE err /\ ~LastTry(ev)
  <2>1. again \in Event /\ again.id = ev.id
    <3>1. ev.id \in Ids /\ ev.tries \in 0 .. MaxRetries - 1 /\ MaxRetries \in Nat
      BY P2PAssumption DEF Event
    <3>2. ev.tries + 1 \in 0 .. MaxRetries - 1
      BY <1>3, <3>1 DEF LastTry
    <3>3. again = [id |-> ev.id, tries |-> ev.tries + 1]
      BY DEF Event
    <3> QED BY <3>1, <3>2, <3>3 DEF Event
  <2> HIDE DEF again
  <2>2. Settled(q, ev, err) = Append(rest, again)
    BY <1>2, <1>3
  <2>3. QueuedIds(Settled(q, ev, err)) = QueuedIds(rest) \cup {ev.id}
    BY <1>1, <2>1, <2>2, AppendIds
  <2>4. Settled(q, ev, err) \in Seq(Event)
    BY <1>1, <2>1, <2>2, AppendProperties
  <2> QED BY <1>1, <1>3, <2>3, <2>4
<1>4. CASE ~(err /\ ~LastTry(ev))
  BY <1>1, <1>2, <1>4
<1> QED BY <1>3, <1>4
-----------------------------------------------------------------------------
(* Type correctness and the exclusion of two drains of one peer.            *)

\* A goroutine that runs has a destination marked in the working map, and
\* holds an event between Peek and Settle.
WorkerInv ==
    \A g \in Workers :
        /\ worker[g].pc # "idle" => worker[g].dst \in Peers /\ working[worker[g].dst]
        /\ worker[g].pc \in {"post", "settle"} => worker[g].ev \in Event

\* The sink worker inside Push holds an event.
PushInv == push = NoPush \/ push.id \in Ids

TypeInv == TypeOK /\ WorkerInv /\ PushInv /\ OneDrainPerPeer

\* Ids and Event only grow with the history, and stand still with it.
LEMMA HistoryGrows ==
    ASSUME TypeOK
    PROVE  /\ Ids = 1 .. Len(log) /\ Len(log) \in Nat
           /\ \A i \in Ids : log[i] \in Change
           /\ log' = log => Ids' = Ids /\ Event' = Event
<1>1. log \in Seq(Change)
  BY DEF TypeOK
<1>2. Ids = 1 .. Len(log) /\ Len(log) \in Nat
  BY <1>1, LenProperties DEF Ids
<1>3. \A i \in Ids : log[i] \in Change
  BY <1>1, <1>2, ElementOfSeq
<1>4. log' = log => Ids' = Ids /\ Event' = Event
  BY DEF Ids, Event
<1> QED BY <1>2, <1>3, <1>4

LEMMA WriteGrows ==
    ASSUME TypeOK, NEW c \in Change, log' = Append(log, c)
    PROVE  /\ log' \in Seq(Change)
           /\ Len(log) + 1 \in Ids'
           /\ Ids \subseteq Ids'
           /\ Event \subseteq Event'
           /\ \A i \in Ids : log'[i] = log[i]
           /\ Seq(Ids) \subseteq Seq(Ids')
           /\ Seq(Event) \subseteq Seq(Event')
<1>1. log \in Seq(Change)
  BY DEF TypeOK
<1>2. /\ log' \in Seq(Change) /\ Len(log') = Len(log) + 1 /\ Len(log) \in Nat
      /\ \A i \in 1 .. Len(log) : log'[i] = log[i]
  BY <1>1, AppendProperties, LenProperties
<1>3. Ids = 1 .. Len(log) /\ Ids' = 1 .. Len(log) + 1
  BY <1>1, <1>2, LenProperties DEF Ids
<1>4. Ids \subseteq Ids' /\ Len(log) + 1 \in Ids'
  BY <1>2, <1>3
<1>5. Event \subseteq Event'
  BY <1>4 DEF Event
<1>6. Seq(Ids) \subseteq Seq(Ids') /\ Seq(Event) \subseteq Seq(Event')
  BY <1>4, <1>5, SeqDef
<1> QED BY <1>2, <1>3, <1>4, <1>5, <1>6

LEMMA TypeInit == Init => TypeInv
<1> SUFFICES ASSUME Init PROVE TypeInv
  OBVIOUS
<1>1. TypeOK
  <2>1. <<>> \in Seq(Change) /\ <<>> \in Seq(Ids) /\ <<>> \in Seq(Event)
    BY EmptySeq
  <2>2. \A g \in Workers : worker[g] \in
          [pc : {"idle", "peek", "post", "settle", "exit"}, dst : Peers \cup {NoPeer},
           ev : Event \cup {NoEvent}, err : BOOLEAN]
    BY DEF Init, Idle
  <2> QED BY <2>1, <2>2 DEF Init, TypeOK, Copy, NoPush, NoLoad
<1>2. WorkerInv /\ OneDrainPerPeer
  BY DEF Init, WorkerInv, OneDrainPerPeer, Idle
<1>3. PushInv
  BY DEF Init, PushInv
<1> QED BY <1>1, <1>2, <1>3 DEF TypeInv
WorkerType == [pc : {"idle", "peek", "post", "settle", "exit"}, dst : Peers \cup {NoPeer},
               ev : Event \cup {NoEvent}, err : BOOLEAN]

\* What the actions that move a drain worker, or none, must re-establish.
DrainInv ==
    /\ working \in [Peers -> BOOLEAN]
    /\ worker \in [Workers -> WorkerType]
    /\ WorkerInv
    /\ OneDrainPerPeer

LEMMA TriggerDrain ==
    ASSUME TypeInv, log' = log, NEW d \in Peers, Trigger(d)
    PROVE  DrainInv'
<1>1. Event' = Event /\ WorkerType' = WorkerType
  BY HistoryGrows DEF TypeInv, WorkerType
<1>2. DrainInv
  BY DEF TypeInv, TypeOK, DrainInv, WorkerType
<1>3. CASE UNCHANGED drains
  BY <1>1, <1>2, <1>3 DEF drains, DrainInv, WorkerInv, OneDrainPerPeer
<1>4. CASE Started /\ ~working[d]
  <2>1. PICK g \in Workers :
          /\ worker[g].pc = "idle"
          /\ working' = [working EXCEPT ![d] = TRUE]
          /\ worker' = [worker EXCEPT ![g] = [Idle EXCEPT !.pc = "peek", !.dst = d]]
    BY <1>4 DEF Trigger
  <2>2. /\ worker'[g] \in WorkerType /\ worker'[g].pc = "peek" /\ worker'[g].dst = d
        /\ \A h \in Workers \ {g} : worker'[h] = worker[h]
    BY <1>2, <2>1 DEF DrainInv, WorkerType, Idle
  <2>3. working' \in [Peers -> BOOLEAN] /\ worker' \in [Workers -> WorkerType]
    BY <1>2, <2>1, <2>2 DEF DrainInv
  <2>4. \A e \in Peers : working[e] => working'[e]
    BY <1>2, <2>1 DEF DrainInv
  <2>5. WorkerInv'
    BY <1>1, <1>2, <2>1, <2>2, <2>4 DEF WorkerInv, DrainInv
  <2>6. \A h \in Workers \ {g} : worker[h].pc # "idle" => worker[h].dst # d
    BY <1>2, <1>4 DEF DrainInv, WorkerInv
  <2>7. OneDrainPerPeer'
    BY <1>2, <2>2, <2>6 DEF OneDrainPerPeer, DrainInv
  <2> QED BY <1>1, <2>3, <2>5, <2>7 DEF DrainInv
<1> QED BY <1>3, <1>4 DEF Trigger

\* A worker g takes a step that keeps its destination and leaves it running.
LEMMA WorkerStep ==
    ASSUME TypeInv, log' = log, NEW g \in Workers, worker[g].pc # "idle",
           NEW w \in WorkerType, w.dst = worker[g].dst, w.pc # "idle",
           w.pc \in {"post", "settle"} => w.ev \in Event,
           worker' = [worker EXCEPT ![g] = w], working' = working
    PROVE  DrainInv'
<1>1. Event' = Event /\ WorkerType' = WorkerType
  BY HistoryGrows DEF TypeInv, WorkerType
<1>2. DrainInv
  BY DEF TypeInv, TypeOK, DrainInv, WorkerType
<1>3. worker' \in [Workers -> WorkerType] /\ worker'[g] = w
      /\ \A h \in Workers \ {g} : worker'[h] = worker[h]
  BY <1>2 DEF DrainInv
<1>4. WorkerInv'
  BY <1>1, <1>2, <1>3 DEF WorkerInv, DrainInv
<1>5. OneDrainPerPeer'
  BY <1>2, <1>3 DEF OneDrainPerPeer, DrainInv
<1> QED BY <1>1, <1>2, <1>3, <1>4, <1>5 DEF DrainInv

\* No worker runs and none is marked.
LEMMA NoDrain ==
    ASSUME working' = [d \in Peers |-> FALSE], worker' = [g \in Workers |-> Idle]
    PROVE  DrainInv'
BY DEF DrainInv, WorkerType, WorkerInv, OneDrainPerPeer, Idle

\* No worker moves.
LEMMA SameDrain ==
    ASSUME TypeInv, log' = log, UNCHANGED drains
    PROVE  DrainInv'
<1>1. Event' = Event
  BY HistoryGrows DEF TypeInv
<1> QED
  BY <1>1 DEF TypeInv, TypeOK, DrainInv, WorkerType, WorkerInv, OneDrainPerPeer, drains
FaultType == [{"post", "disk", "rollback", "stop", "crash"} -> Nat]

LEMMA FaultCounted ==
    ASSUME TypeOK, NEW f \in {"post", "disk", "rollback", "stop", "crash"},
           faults' = [faults EXCEPT ![f] = @ + 1]
    PROVE  faults' \in FaultType
<1>1. faults \in FaultType
  BY DEF TypeOK, FaultType
<1>2. faults[f] + 1 \in Nat
  BY <1>1 DEF FaultType
<1> QED BY <1>1, <1>2 DEF FaultType

LEMMA PersistType ==
    ASSUME TypeInv, log' = log, NEW d \in Peers, NEW q \in Seq(Event), Persist(d, q)
    PROVE  disk' \in [Peers -> Seq(Event')] /\ faults' \in FaultType
<1>1. Event' = Event
  BY HistoryGrows DEF TypeInv
<1>2. disk \in [Peers -> Seq(Event)] /\ faults \in FaultType /\ TypeOK
  BY DEF TypeInv, TypeOK, FaultType
<1>3. CASE disk' = [disk EXCEPT ![d] = q] /\ UNCHANGED faults
  BY <1>1, <1>2, <1>3
<1>4. CASE faults' = [faults EXCEPT !["disk"] = @ + 1] /\ UNCHANGED disk
  BY <1>1, <1>2, <1>4, FaultCounted
<1> QED BY <1>3, <1>4 DEF Persist

\* The type invariant holds initially and every step keeps it.
LEMMA TypeStep == TypeInv /\ [Next]_vars => TypeInv'
<1> SUFFICES ASSUME TypeInv, [Next]_vars PROVE TypeInv'
  OBVIOUS
<1> USE DEF TypeInv, FaultType
<1>1. ASSUME NEW k \in Rows, NEW a \in {"create", "update", "delete"}, Write(k, a)
      PROVE  TypeInv'
  <2> DEFINE c == [row |-> k, action |-> a]
  <2>1. c \in Change /\ log' = Append(log, c)
    BY <1>1 DEF Write, Change
  <2> HIDE DEF c
  <2>2. /\ log' \in Seq(Change) /\ Len(log) + 1 \in Ids'
        /\ Ids \subseteq Ids' /\ Event \subseteq Event'
        /\ Seq(Ids) \subseteq Seq(Ids') /\ Seq(Event) \subseteq Seq(Event')
    BY <2>1, WriteGrows
  <2>3. sink' \in Seq(Ids') /\ refused' \in SUBSET Ids'
    <3>1. sink \in Seq(Ids') /\ refused \in SUBSET Ids'
      BY <2>2 DEF TypeOK
    <3>2. SinkPush(Len(log) + 1)
      BY <1>1 DEF Write
    <3>3. Append(sink, Len(log) + 1) \in Seq(Ids')
      BY <2>2, <3>1, AppendProperties
    <3>4. refused \cup {Len(log) + 1} \in SUBSET Ids'
      BY <2>2, <3>1
    <3>5. \/ refused' = refused \cup {Len(log) + 1} /\ sink' = sink
          \/ sink' = Append(sink, Len(log) + 1) /\ refused' = refused
      BY <3>2 DEF SinkPush
    <3> QED BY <3>1, <3>3, <3>4, <3>5
  <2>4. open' \in [Rows -> Ids' \cup {0}]
    BY <1>1, <2>2 DEF Write, TypeOK
  <2>5. UNCHANGED <<phase, row, push, queue, disk, working, worker, load, peer,
                    accepted, sent, dropped, faults>>
    BY <1>1 DEF Write
  <2>6. /\ queue' \in [Peers -> Seq(Event')] /\ disk' \in [Peers -> Seq(Event')]
        /\ load' \in [todo : SUBSET Peers, cur : Peers \cup {NoPeer}, buf : Seq(Event')]
    BY <2>2, <2>5 DEF TypeOK
  <2>7. /\ accepted' \in [Peers -> SUBSET Ids'] /\ sent' \in [Peers -> SUBSET Ids']
        /\ dropped' \in [Peers -> SUBSET Ids']
        /\ push' \in [id : Ids' \cup {0}, todo : SUBSET Peers, trig : Peers \cup {NoPeer}]
    BY <2>2, <2>5 DEF TypeOK
  <2>8. worker' \in [Workers -> [pc : {"idle", "peek", "post", "settle", "exit"},
                                dst : Peers \cup {NoPeer},
                                ev : Event' \cup {NoEvent}, err : BOOLEAN]]
    BY <2>2, <2>5 DEF TypeOK
  <2>9. TypeOK'
    BY <2>2, <2>3, <2>4, <2>5, <2>6, <2>7, <2>8 DEF TypeOK
  <2>10. WorkerInv' /\ PushInv' /\ OneDrainPerPeer'
    BY <2>2, <2>5 DEF WorkerInv, PushInv, OneDrainPerPeer
  <2> QED BY <2>9, <2>10
<1>2. ASSUME log' = log, UNCHANGED drains, UNCHANGED <<sink, push, queue, disk, load,
              refused, peer, accepted, sent, dropped>>,
             row' \in [Rows -> Copy], open' \in [Rows -> Ids \cup {0}],
             phase' \in {"down", "boot", "loading", "up", "stopping", "closed"},
             faults' \in FaultType
      PROVE  TypeInv'
  <2>1. Ids' = Ids /\ Event' = Event
    BY <1>2, HistoryGrows
  <2> QED BY <1>2, <2>1 DEF TypeOK, drains, WorkerInv, PushInv, OneDrainPerPeer
<1>3. ASSUME NEW k \in Rows, Commit(k) PROVE TypeInv'
  <2>1. open[k] \in Ids /\ Ids \subseteq Nat
    BY <1>3, HistoryGrows DEF Commit, TypeOK
  <2>2. row' \in [Rows -> Copy] /\ open' \in [Rows -> Ids \cup {0}]
    BY <1>3, <2>1 DEF Commit, TypeOK, Copy
  <2> QED BY <1>2, <1>3, <2>2 DEF Commit, TypeOK, drains
<1>4. ASSUME NEW k \in Rows, Rollback(k) PROVE TypeInv'
  <2>1. faults' \in FaultType
    BY <1>4, FaultCounted DEF Rollback
  <2> QED BY <1>2, <1>4, <2>1 DEF Rollback, TypeOK, drains
<1>5. ASSUME log' = log, DrainInv', PushInv',
             UNCHANGED <<phase, row, open, refused>>, sink' \in Seq(Ids),
             push' \in [id : Ids \cup {0}, todo : SUBSET Peers, trig : Peers \cup {NoPeer}],
             queue' \in [Peers -> Seq(Event)], disk' \in [Peers -> Seq(Event)],
             load' = load, peer' \in [Peers -> [Rows -> Copy]],
             accepted' \in [Peers -> SUBSET Ids], sent' \in [Peers -> SUBSET Ids],
             dropped' \in [Peers -> SUBSET Ids],
             faults' \in FaultType
      PROVE  TypeInv'
  <2>1. Ids' = Ids /\ Event' = Event
    BY <1>5, HistoryGrows
  <2>2. TypeOK'
    BY <1>5, <2>1 DEF TypeOK, DrainInv, WorkerType
  <2> QED BY <1>5, <2>2 DEF DrainInv
<1>6. ASSUME TakeSink PROVE TypeInv'
  <2>1. sink \in Seq(Ids) /\ sink # <<>>
    BY <1>6 DEF TakeSink, TypeOK
  <2>2. Head(sink) \in Ids /\ Tail(sink) \in Seq(Ids)
    BY <2>1, HeadTailProperties
  <2>3. DrainInv' /\ Ids' = Ids
    BY <1>6, SameDrain, HistoryGrows DEF TakeSink, drains
  <2>4. PushInv'
    BY <1>6, <2>2, <2>3 DEF TakeSink, PushInv
  <2>5. push' \in [id : Ids \cup {0}, todo : SUBSET Peers, trig : Peers \cup {NoPeer}]
    BY <1>6, <2>2 DEF TakeSink
  <2> QED BY <1>5, <1>6, <2>2, <2>3, <2>4, <2>5 DEF TakeSink, TypeOK
<1>7. ASSUME NEW d \in Peers, Enqueue(d) PROVE TypeInv'
  <2>1. push.id \in Ids
    BY <1>7 DEF Enqueue, PushInv, NoPush
  <2>2. queue' = [queue EXCEPT ![d] = Enqueued(queue[d], push.id)]
        /\ Enqueued(queue[d], push.id) \in Seq(Event)
    BY <1>7, <2>1, EnqueuedProps DEF Enqueue, TypeOK
  <2>3. queue' \in [Peers -> Seq(Event)] /\ queue'[d] \in Seq(Event)
    BY <2>2 DEF TypeOK
  <2>4. DrainInv' /\ Ids' = Ids /\ Event' = Event
    BY <1>7, SameDrain, HistoryGrows DEF Enqueue, drains
  <2>5. PushInv'
    BY <1>7, <2>1, <2>4 DEF Enqueue, PushInv, TypeOK
  <2>6. push' \in [id : Ids \cup {0}, todo : SUBSET Peers, trig : Peers \cup {NoPeer}]
    BY <1>7 DEF Enqueue, TypeOK
  <2>7. accepted' \in [Peers -> SUBSET Ids]
    BY <1>7, <2>1 DEF Enqueue, TypeOK
  <2>8. /\ disk' \in [Peers -> Seq(Event)]
        /\ faults' \in FaultType
    <3>1. Persist(d, queue'[d]) /\ log' = log
      BY <1>7 DEF Enqueue
    <3> QED BY <2>3, <2>4, <3>1, PersistType
  <2> QED BY <1>5, <1>7, <2>3, <2>4, <2>5, <2>6, <2>7, <2>8 DEF Enqueue, TypeOK
<1>8. ASSUME EnqueueTrigger PROVE TypeInv'
  <2>1. push.trig \in Peers /\ push # NoPush
    BY <1>8 DEF EnqueueTrigger, TypeOK, NoPush
  <2>2. DrainInv' /\ Ids' = Ids
    BY <1>8, <2>1, TriggerDrain, HistoryGrows DEF EnqueueTrigger
  <2>3. PushInv'
    BY <1>8, <2>1, <2>2 DEF EnqueueTrigger, PushInv, TypeOK
  <2>4. push' \in [id : Ids \cup {0}, todo : SUBSET Peers, trig : Peers \cup {NoPeer}]
    BY <1>8 DEF EnqueueTrigger, TypeOK, NoPush
  <2> QED BY <1>5, <1>8, <2>2, <2>3, <2>4 DEF EnqueueTrigger, TypeOK
<1>9. ASSUME NEW d \in Peers, Tick(d) PROVE TypeInv'
  <2>1. DrainInv' /\ PushInv'
    BY <1>9, TriggerDrain, HistoryGrows DEF Tick, PushInv
  <2> QED BY <1>5, <1>9, <2>1 DEF Tick, TypeOK
<1>10. ASSUME NEW g \in Workers, Peek(g) PROVE TypeInv'
  <2> DEFINE q == queue[worker[g].dst]
             w == IF q = <<>> THEN [worker[g] EXCEPT !.pc = "exit"]
                              ELSE [worker[g] EXCEPT !.pc = "post", !.ev = Head(q)]
  <2>1. worker[g] \in WorkerType /\ worker[g].dst \in Peers /\ q \in Seq(Event)
    BY <1>10 DEF Peek, TypeOK, WorkerType, WorkerInv
  <2>2. q # <<>> => Head(q) \in Event
    BY <2>1, HeadTailProperties
  <2>3. /\ w \in WorkerType /\ w.dst = worker[g].dst /\ w.pc # "idle"
        /\ w.pc \in {"post", "settle"} => w.ev \in Event
    BY <2>1, <2>2 DEF WorkerType
  <2>4. worker' = [worker EXCEPT ![g] = w] /\ working' = working
    BY <1>10 DEF Peek
  <2> HIDE DEF w
  <2>5. DrainInv' /\ PushInv'
    BY <1>10, <2>3, <2>4, WorkerStep, HistoryGrows DEF Peek, PushInv
  <2> QED BY <1>5, <1>10, <2>5 DEF Peek, TypeOK
<1>11. ASSUME NEW g \in Workers, Post(g) PROVE TypeInv'
  <2>1. /\ worker[g] \in WorkerType /\ worker[g].dst \in Peers /\ worker[g].ev \in Event
        /\ worker[g].ev.id \in Ids
    BY <1>11 DEF Post, TypeOK, WorkerType, WorkerInv, Event
  <2>2. PICK err \in BOOLEAN : worker' = [worker EXCEPT ![g].pc = "settle", ![g].err = err]
    BY <1>11 DEF Post
  <2> DEFINE w == [worker[g] EXCEPT !.pc = "settle", !.err = err]
  <2>3. /\ w \in WorkerType /\ w.dst = worker[g].dst /\ w.pc = "settle" /\ w.ev \in Event
    BY <2>1 DEF WorkerType
  <2>4. worker' = [worker EXCEPT ![g] = w] /\ working' = working
    BY <1>11, <2>1, <2>2 DEF Post, TypeOK
  <2> HIDE DEF w
  <2>5. DrainInv' /\ PushInv'
    BY <1>11, <2>3, <2>4, WorkerStep, HistoryGrows DEF Post, PushInv
  <2>6. peer' \in [Peers -> [Rows -> Copy]]
    <3>1. Applied(peer[worker[g].dst], worker[g].ev.id) \in [Rows -> Copy]
      <4>1. worker[g].ev.id \in Nat /\ RowOf(worker[g].ev.id) \in Rows
        BY <2>1, HistoryGrows DEF RowOf, Change
      <4>2. peer[worker[g].dst] \in [Rows -> Copy]
        BY <2>1 DEF TypeOK
      <4> QED BY <4>1, <4>2 DEF Applied, Copy
    <3> QED BY <1>11, <3>1 DEF Post, TypeOK
  <2>7. sent' \in [Peers -> SUBSET Ids]
    <3>1. sent' = sent \/ sent' = [sent EXCEPT ![worker[g].dst] = @ \cup {worker[g].ev.id}]
      BY <1>11 DEF Post
    <3>2. sent \in [Peers -> SUBSET Ids]
      BY DEF TypeOK
    <3>3. sent[worker[g].dst] \cup {worker[g].ev.id} \in SUBSET Ids
      BY <2>1, <3>2
    <3> QED BY <3>1, <3>2, <3>3
  <2>8. faults' \in FaultType
    <3>1. faults' = faults \/ faults' = [faults EXCEPT !["post"] = @ + 1]
      BY <1>11 DEF Post
    <3> QED BY <3>1, FaultCounted DEF TypeOK, FaultType
  <2> QED BY <1>5, <1>11, <2>5, <2>6, <2>7, <2>8 DEF Post, TypeOK
<1>12. ASSUME NEW g \in Workers, Settle(g) PROVE TypeInv'
  <2> DEFINE d == worker[g].dst
             ev == worker[g].ev
             err == worker[g].err
             w == [worker[g] EXCEPT !.pc = IF err THEN "exit" ELSE "peek",
                                    !.ev = NoEvent, !.err = FALSE]
  <2>1. /\ worker[g] \in WorkerType /\ d \in Peers /\ ev \in Event /\ ev.id \in Ids
        /\ err \in BOOLEAN
    BY <1>12 DEF Settle, TypeOK, WorkerType, WorkerInv, Event
  <2>2. w \in WorkerType /\ w.dst = worker[g].dst /\ w.pc \in {"exit", "peek"}
    BY <2>1 DEF WorkerType
  <2>3. worker' = [worker EXCEPT ![g] = w] /\ working' = working
    BY <1>12, <2>1 DEF Settle, TypeOK
  <2>4. Settled(queue[d], ev, err) \in Seq(Event)
    BY <2>1, SettledProps DEF TypeOK
  <2>5. /\ queue' = [queue EXCEPT ![d] = Settled(queue[d], ev, err)]
        /\ Persist(d, queue'[d]) /\ log' = log
    BY <1>12 DEF Settle
  <2>6. queue' \in [Peers -> Seq(Event)] /\ queue'[d] \in Seq(Event)
    BY <2>1, <2>4, <2>5 DEF TypeOK
  <2>7. dropped' \in [Peers -> SUBSET Ids]
    BY <1>12, <2>1 DEF Settle, TypeOK
  <2> HIDE DEF w
  <2>8. DrainInv' /\ PushInv'
    BY <1>12, <2>2, <2>3, WorkerStep, HistoryGrows DEF Settle, PushInv
  <2> HIDE DEF d, ev, err
  <2>9. /\ disk' \in [Peers -> Seq(Event)]
        /\ faults' \in FaultType
    BY <2>1, <2>5, <2>6, PersistType, HistoryGrows
  <2> QED BY <1>5, <1>12, <2>6, <2>7, <2>8, <2>9 DEF Settle, TypeOK
<1>13. ASSUME NEW g \in Workers, Exit(g) PROVE TypeInv'
  <2>1. /\ worker' = [worker EXCEPT ![g] = Idle]
        /\ working' = [working EXCEPT ![worker[g].dst] = FALSE]
        /\ worker[g].pc = "exit"
    BY <1>13 DEF Exit
  <2>2. Idle \in WorkerType
    BY DEF Idle, WorkerType
  <2>3. worker' \in [Workers -> WorkerType] /\ working' \in [Peers -> BOOLEAN]
    BY <2>1, <2>2 DEF TypeOK, WorkerType
  <2>4. worker'[g] = Idle /\ \A h \in Workers \ {g} : worker'[h] = worker[h]
    BY <2>1 DEF TypeOK
  <2>5. \A h \in Workers \ {g} : worker[h].pc # "idle" => worker[h].dst # worker[g].dst
    BY <2>1 DEF OneDrainPerPeer
  <2>6. Ids' = Ids /\ Event' = Event /\ WorkerType' = WorkerType
    BY <1>13, HistoryGrows DEF Exit, WorkerType
  <2>7. WorkerInv'
    BY <2>1, <2>4, <2>5, <2>6 DEF WorkerInv, TypeOK, Idle
  <2>8. OneDrainPerPeer'
    BY <2>4 DEF OneDrainPerPeer, Idle
  <2>9. DrainInv' /\ PushInv'
    BY <1>13, <2>3, <2>6, <2>7, <2>8 DEF DrainInv, PushInv, Exit
  <2> QED BY <1>5, <1>13, <2>9 DEF Exit, TypeOK
<1>14. ASSUME ListFiles \/ MergeFile \/ \E d \in Peers : ReadFile(d) PROVE TypeInv'
  <2>1. /\ log' = log /\ UNCHANGED drains /\ UNCHANGED <<sink, push, disk, refused, peer,
              accepted, sent, dropped, row, open, faults>>
    BY <1>14 DEF ListFiles, MergeFile, ReadFile, drains
  <2>2. DrainInv' /\ Ids' = Ids /\ Event' = Event
    BY <2>1, SameDrain, HistoryGrows
  <2>3. load' \in [todo : SUBSET Peers, cur : Peers \cup {NoPeer}, buf : Seq(Event)]
    <3>1. CASE ListFiles
      BY <3>1, EmptySeq DEF ListFiles, NoLoad
    <3>2. CASE MergeFile
      BY <3>2, EmptySeq DEF MergeFile, TypeOK
    <3>3. ASSUME NEW d \in Peers, ReadFile(d)
          PROVE  load' \in [todo : SUBSET Peers, cur : Peers \cup {NoPeer}, buf : Seq(Event)]
      BY <3>3 DEF ReadFile, TypeOK
    <3> QED BY <1>14, <3>1, <3>2, <3>3
  <2>4. queue' \in [Peers -> Seq(Event)]
    <3>1. CASE MergeFile
      <4>1. load.cur \in Peers /\ load.buf \in Seq(Event) /\ queue[load.cur] \in Seq(Event)
        BY <3>1 DEF MergeFile, TypeOK
      <4>2. load.buf \o queue[load.cur] \in Seq(Event)
        BY <4>1, ConcatProperties
      <4> QED BY <3>1, <4>2 DEF MergeFile, TypeOK
    <3>2. CASE UNCHANGED queue
      BY <3>2 DEF TypeOK
    <3> QED BY <1>14, <3>1, <3>2 DEF ListFiles, ReadFile
  <2>5. phase' \in {"down", "boot", "loading", "up", "stopping", "closed"}
    BY <1>14 DEF ListFiles, MergeFile, ReadFile, TypeOK
  <2>6. TypeOK'
    BY <2>1, <2>2, <2>3, <2>4, <2>5 DEF TypeOK, DrainInv, WorkerType
  <2> QED BY <2>1, <2>2, <2>6 DEF PushInv, DrainInv
<1>15. ASSUME StartLoop \/ StopSink \/ StopLoop \/ Boot PROVE TypeInv'
  <2>1. faults' = faults \/ faults' = [faults EXCEPT !["stop"] = @ + 1]
    BY <1>15 DEF StartLoop, StopSink, StopLoop, Boot
  <2>2. faults' \in FaultType
    BY <2>1, FaultCounted DEF TypeOK, FaultType
  <2> QED BY <1>2, <1>15, <2>2 DEF StartLoop, StopSink, StopLoop, Boot, TypeOK, drains
<1>16. ASSUME StopProcess \/ Crash PROVE TypeInv'
  <2>1. LoseMemory
    BY <1>16 DEF StopProcess, Crash
  <2>2. faults' \in FaultType
    <3>1. faults' = faults \/ faults' = [faults EXCEPT !["crash"] = @ + 1]
      BY <1>16 DEF StopProcess, Crash
    <3> QED BY <3>1, FaultCounted DEF TypeOK, FaultType
  <2>3. Ids' = Ids /\ Event' = Event /\ DrainInv'
    BY <2>1, NoDrain, HistoryGrows DEF LoseMemory
  <2>4. <<>> \in Seq(Ids) /\ <<>> \in Seq(Event)
    BY EmptySeq
  <2>5. /\ push' \in [id : Ids \cup {0}, todo : SUBSET Peers, trig : Peers \cup {NoPeer}]
        /\ load' \in [todo : SUBSET Peers, cur : Peers \cup {NoPeer}, buf : Seq(Event)]
        /\ queue' \in [Peers -> Seq(Event)] /\ sink' \in Seq(Ids)
        /\ open' \in [Rows -> Ids \cup {0}]
    BY <2>1, <2>4 DEF LoseMemory, NoPush, NoLoad
  <2>6. TypeOK'
    BY <2>1, <2>2, <2>3, <2>5 DEF LoseMemory, TypeOK, DrainInv, WorkerType
  <2>7. PushInv'
    BY <2>1 DEF LoseMemory, PushInv
  <2> QED BY <2>3, <2>6, <2>7 DEF DrainInv
<1>17. ASSUME UNCHANGED vars PROVE TypeInv'
  BY <1>2, <1>17 DEF vars, TypeOK, drains
<1> QED
  BY <1>1, <1>3, <1>4, <1>6, <1>7, <1>8, <1>9, <1>10, <1>11, <1>12, <1>13, <1>14, <1>15,
     <1>16, <1>17 DEF Next, Writer, SinkWorker, Drain, Loader, Stopper

\* Whatever the interleaving of writers, pushes, drains, restarts and faults,
\* every variable of the feed keeps its type; in particular no event is queued
\* or persisted that has used up its attempts.
THEOREM TypeCorrect == Spec => []TypeOK
<1>1. Spec => []TypeInv
  BY TypeInit, TypeStep, PTL DEF Spec
<1>2. TypeInv => TypeOK
  BY DEF TypeInv
<1> QED BY <1>1, <1>2, PTL

\* trigger and the deferred delete of the working map: never two goroutines
\* draining the same peer.
THEOREM DrainsExclusive == Spec => []OneDrainPerPeer
<1>1. Spec => []TypeInv
  BY TypeInit, TypeStep, PTL DEF Spec
<1>2. TypeInv => OneDrainPerPeer
  BY DEF TypeInv
<1> QED BY <1>1, <1>2, PTL
-----------------------------------------------------------------------------
(* Changes are accepted in the order they were emitted, and leave a queue   *)
(* only when delivered, given up or superseded.                             *)

\* Emission order is kept through the sink and Push.
OrderInv ==
    /\ \A n \in DOMAIN sink :
          /\ push.id < sink[n]
          /\ \A d \in Peers : \A i \in accepted[d] : i < sink[n]
    /\ \A m, n \in DOMAIN sink : m < n => sink[m] < sink[n]
    /\ push # NoPush =>
         \A d \in Peers : \A i \in accepted[d] :
            i <= push.id /\ (d \in push.todo => i < push.id)

\* A post that returned no error was applied by the peer.
AnswerInv ==
    \A g \in Workers :
        worker[g].pc = "settle" /\ ~worker[g].err => worker[g].ev.id \in sent[worker[g].dst]

\* Whatever is queued, persisted, being restored or being posted for a peer
\* has been accepted for it.
AcceptedInv ==
    /\ \A d \in Peers : QueuedIds(queue[d]) \cup QueuedIds(disk[d]) \subseteq accepted[d]
    /\ load.cur # NoPeer => QueuedIds(load.buf) \subseteq accepted[load.cur]
    /\ \A g \in Workers :
         worker[g].pc \in {"post", "settle"} => worker[g].ev.id \in accepted[worker[g].dst]

FeedInv == TypeInv /\ OrderInv /\ AnswerInv /\ AcceptedInv

LEMMA OrderStep == TypeInv /\ OrderInv /\ [Next]_vars => OrderInv'
<1> SUFFICES ASSUME TypeInv, OrderInv, [Next]_vars PROVE OrderInv'
  OBVIOUS
<1>1. /\ sink \in Seq(Ids) /\ Ids = 1 .. Len(log) /\ Len(log) \in Nat
      /\ push \in [id : Ids \cup {0}, todo : SUBSET Peers, trig : Peers \cup {NoPeer}]
      /\ accepted \in [Peers -> SUBSET Ids]
  BY HistoryGrows DEF TypeInv, TypeOK
<1>2. /\ Len(sink) \in Nat /\ DOMAIN sink = 1 .. Len(sink)
      /\ \A n \in 1 .. Len(sink) : sink[n] \in Ids
  BY <1>1, LenProperties, ElementOfSeq
<1>3. CASE UNCHANGED <<sink, push, accepted>>
  BY <1>3 DEF OrderInv
<1>4. ASSUME NEW k \in Rows, NEW a \in {"create", "update", "delete"}, Write(k, a)
      PROVE  OrderInv'
  <2>1. push' = push /\ accepted' = accepted
    BY <1>4 DEF Write
  <2>2. CASE sink' = Append(sink, Len(log) + 1)
    <3>1. /\ DOMAIN sink' = 1 .. Len(sink) + 1 /\ sink'[Len(sink) + 1] = Len(log) + 1
          /\ \A n \in 1 .. Len(sink) : sink'[n] = sink[n]
      <4> DEFINE S == Ids \cup {Len(log) + 1}
      <4>1. sink \in Seq(S) /\ Len(log) + 1 \in S
        BY <1>1, <1>2, SeqDef
      <4> HIDE DEF S
      <4>2. sink' \in Seq(S) /\ Len(sink') = Len(sink) + 1
        BY <2>2, <4>1, AppendProperties
      <4> QED BY <2>2, <4>1, <4>2, AppendProperties, LenProperties
    <3>2. \A n \in DOMAIN sink' :
            /\ push.id < sink'[n]
            /\ \A d \in Peers : \A i \in accepted[d] : i < sink'[n]
      BY <1>1, <1>2, <3>1 DEF OrderInv
    <3>3. \A m, n \in DOMAIN sink' : m < n => sink'[m] < sink'[n]
      BY <1>1, <1>2, <3>1 DEF OrderInv
    <3> QED BY <2>1, <3>2, <3>3 DEF OrderInv
  <2> QED BY <1>3, <1>4, <2>1, <2>2 DEF Write, SinkPush
<1>5. CASE TakeSink
  <2>1. /\ sink # <<>> /\ push = NoPush /\ sink' = Tail(sink) /\ accepted' = accepted
        /\ push'.id = sink[1]
    BY <1>1, <1>5, HeadTailProperties DEF TakeSink
  <2>2. /\ Len(sink) >= 1 /\ DOMAIN sink' = 1 .. Len(sink) - 1
        /\ \A n \in DOMAIN sink' : sink'[n] = sink[n + 1]
    <3>1. /\ sink' \in Seq(Ids) /\ Len(sink') = Len(sink) - 1
          /\ \A n \in 1 .. Len(sink') : sink'[n] = sink[n + 1]
      BY <1>1, <2>1, HeadTailProperties
    <3> QED BY <1>2, <3>1, LenProperties
  <2>3. 1 \in DOMAIN sink /\ \A n \in DOMAIN sink' : n + 1 \in DOMAIN sink
    BY <1>2, <2>2
  <2>4. \A n \in DOMAIN sink' :
          /\ push'.id < sink'[n]
          /\ \A d \in Peers : \A i \in accepted[d] : i < sink'[n]
    BY <1>2, <2>1, <2>2, <2>3 DEF OrderInv
  <2>5. \A m, n \in DOMAIN sink' : m < n => sink'[m] < sink'[n]
    BY <1>2, <2>2, <2>3 DEF OrderInv
  <2>6. ASSUME NEW d \in Peers, NEW i \in accepted[d]
        PROVE  i < push'.id /\ i <= push'.id
    <3>1. i \in Ids /\ sink[1] \in Ids
      BY <1>1, <1>2, <2>3
    <3>2. i < sink[1]
      BY <2>3 DEF OrderInv
    <3> QED BY <1>1, <2>1, <3>1, <3>2
  <2> QED BY <2>1, <2>4, <2>5, <2>6 DEF OrderInv
<1>6. ASSUME NEW d \in Peers, Enqueue(d) PROVE OrderInv'
  <2>1. /\ d \in push.todo /\ sink' = sink /\ push # NoPush
        /\ accepted' = [accepted EXCEPT ![d] = @ \cup {push.id}]
        /\ push' = [push EXCEPT !.todo = @ \ {d}, !.trig = d]
    BY <1>6 DEF Enqueue, NoPush
  <2>2. push'.id = push.id /\ push'.todo = push.todo \ {d}
    BY <1>1, <2>1
  <2>3. /\ accepted'[d] = accepted[d] \cup {push.id}
        /\ \A e \in Peers \ {d} : accepted'[e] = accepted[e]
    BY <1>1, <2>1
  <2>4. \A n \in DOMAIN sink' :
          /\ push'.id < sink'[n]
          /\ \A e \in Peers : \A i \in accepted'[e] : i < sink'[n]
    BY <2>1, <2>2, <2>3 DEF OrderInv
  <2>5. \A e \in Peers : \A i \in accepted'[e] :
          i <= push'.id /\ (e \in push'.todo => i < push'.id)
    BY <1>1, <2>1, <2>2, <2>3 DEF OrderInv
  <2> QED BY <2>1, <2>4, <2>5 DEF OrderInv
<1>7. CASE EnqueueTrigger
  <2>1. sink' = sink /\ accepted' = accepted /\ push # NoPush
    BY <1>7 DEF EnqueueTrigger, NoPush
  <2>2. CASE push' = NoPush
    <3>1. \A n \in DOMAIN sink : 0 < sink[n]
      BY <1>1, <1>2
    <3> QED BY <2>1, <2>2, <3>1 DEF OrderInv, NoPush
  <2>3. CASE push' = [push EXCEPT !.trig = NoPeer]
    <3>1. push'.id = push.id /\ push'.todo = push.todo
      BY <1>1, <2>3
    <3> QED BY <2>1, <3>1 DEF OrderInv
  <2> QED BY <1>7, <2>2, <2>3 DEF EnqueueTrigger
<1>8. CASE LoseMemory
  BY <1>8 DEF LoseMemory, OrderInv
<1>9. CASE UNCHANGED vars
  BY <1>3, <1>9 DEF vars
<1>10. CASE \E k \in Rows : Commit(k) \/ Rollback(k)
  BY <1>3, <1>10 DEF Commit, Rollback
<1>11. CASE \/ \E d \in Peers : Tick(d)
            \/ \E g \in Workers : Drain(g)
  BY <1>3, <1>11 DEF Tick, Drain, Peek, Post, Settle, Exit
<1>12. CASE Loader \/ StopSink \/ StopLoop \/ Boot
  BY <1>3, <1>12 DEF Loader, ListFiles, ReadFile, MergeFile, StartLoop, StopSink, StopLoop, Boot
<1> QED
  BY <1>4, <1>5, <1>6, <1>7, <1>8, <1>9, <1>10, <1>11, <1>12
  DEF Next, Writer, SinkWorker, Stopper, StopProcess, Crash
LEMMA AnswerStep == TypeInv /\ AnswerInv /\ [Next]_vars => AnswerInv'
<1> SUFFICES ASSUME TypeInv, AnswerInv, [Next]_vars PROVE AnswerInv'
  OBVIOUS
<1>1. /\ worker \in [Workers -> WorkerType] /\ sent \in [Peers -> SUBSET Ids]
  BY DEF TypeInv, TypeOK, WorkerType
<1>2. CASE UNCHANGED <<worker, sent>>
  BY <1>2 DEF AnswerInv
<1>3. ASSUME NEW d \in Peers, Trigger(d), sent' = sent PROVE AnswerInv'
  <2>1. CASE UNCHANGED drains
    BY <1>2, <1>3, <2>1 DEF drains
  <2>2. CASE Started /\ ~working[d]
    <3>1. PICK g \in Workers :
            worker' = [worker EXCEPT ![g] = [Idle EXCEPT !.pc = "peek", !.dst = d]]
      BY <1>3, <2>2 DEF Trigger
    <3>2. worker'[g].pc = "peek" /\ \A h \in Workers \ {g} : worker'[h] = worker[h]
      BY <1>1, <3>1 DEF Idle
    <3> QED BY <1>3, <3>2 DEF AnswerInv
  <2> QED BY <1>3, <2>1, <2>2 DEF Trigger
<1>4. ASSUME NEW g \in Workers, Peek(g) \/ Settle(g) \/ Exit(g) PROVE AnswerInv'
  <2>1. /\ worker'[g].pc # "settle" /\ sent' = sent
        /\ \A h \in Workers \ {g} : worker'[h] = worker[h]
    <3>1. CASE Peek(g)
      BY <1>1, <3>1 DEF Peek, WorkerType
    <3>2. CASE Settle(g)
      BY <1>1, <3>2 DEF Settle, WorkerType
    <3>3. CASE Exit(g)
      BY <1>1, <3>3 DEF Exit, Idle
    <3> QED BY <1>4, <3>1, <3>2, <3>3
  <2> QED BY <2>1 DEF AnswerInv
<1>5. ASSUME NEW g \in Workers, Post(g) PROVE AnswerInv'
  <2> DEFINE d == worker[g].dst
             i == worker[g].ev.id
  <2>1. d \in Peers
    BY <1>5 DEF Post, TypeInv, WorkerInv
  <2>2. PICK reached, err \in BOOLEAN :
          /\ reached \/ err
          /\ IF reached THEN sent' = [sent EXCEPT ![d] = @ \cup {i}] ELSE sent' = sent
          /\ worker' = [worker EXCEPT ![g].pc = "settle", ![g].err = err]
    BY <1>5 DEF Post
  <2>3. /\ worker'[g].dst = d /\ worker'[g].ev.id = i /\ worker'[g].err = err
        /\ \A h \in Workers \ {g} : worker'[h] = worker[h]
    BY <1>1, <2>2 DEF WorkerType
  <2> HIDE DEF d, i
  <2>4. ~err => i \in sent'[d]
    BY <1>1, <2>1, <2>2
  <2>5. \A e \in Peers : sent[e] \subseteq sent'[e]
    BY <1>1, <2>1, <2>2
  <2>6. \A h \in Workers : worker[h].pc = "settle" => worker[h].dst \in Peers
    BY DEF TypeInv, WorkerInv
  <2> QED BY <2>3, <2>4, <2>5, <2>6 DEF AnswerInv
<1>6. CASE LoseMemory
  BY <1>6 DEF LoseMemory, AnswerInv, Idle
<1>7. CASE EnqueueTrigger
  <2>1. push.trig \in Peers
    BY <1>7 DEF EnqueueTrigger, TypeInv, TypeOK
  <2> QED BY <1>3, <1>7, <2>1 DEF EnqueueTrigger
<1>8. CASE \E d \in Peers : Tick(d)
  BY <1>3, <1>8 DEF Tick
<1>9. CASE Writer \/ TakeSink \/ \E d \in Peers : Enqueue(d)
  BY <1>2, <1>9 DEF Writer, Write, Commit, Rollback, TakeSink, Enqueue
<1>10. CASE Loader \/ StopSink \/ StopLoop \/ Boot \/ UNCHANGED vars
  BY <1>2, <1>10 DEF Loader, ListFiles, ReadFile, MergeFile, StartLoop, StopSink, StopLoop,
     Boot, vars
<1> QED
  BY <1>4, <1>5, <1>6, <1>7, <1>8, <1>9, <1>10
  DEF Next, SinkWorker, Drain, Stopper, StopProcess, Crash

LEMMA ConcatIds ==
    ASSUME NEW S, NEW q \in Seq(S), NEW r \in Seq(S)
    PROVE  QueuedIds(q \o r) = QueuedIds(q) \cup QueuedIds(r)
<1>1. /\ Len(q) \in Nat /\ Len(r) \in Nat /\ DOMAIN q = 1 .. Len(q) /\ DOMAIN r = 1 .. Len(r)
      /\ DOMAIN (q \o r) = 1 .. Len(q) + Len(r)
      /\ \A n \in 1 .. Len(q) + Len(r) :
            (q \o r)[n] = IF n <= Len(q) THEN q[n] ELSE r[n - Len(q)]
  BY ConcatProperties, LenProperties
<1>2. ASSUME NEW n \in DOMAIN (q \o r) PROVE (q \o r)[n].id \in QueuedIds(q) \cup QueuedIds(r)
  <2>1. CASE n <= Len(q)
    BY <1>1, <2>1 DEF QueuedIds
  <2>2. CASE ~(n <= Len(q))
    <3>1. n - Len(q) \in DOMAIN r /\ (q \o r)[n] = r[n - Len(q)]
      BY <1>1, <2>2
    <3> QED BY <3>1 DEF QueuedIds
  <2> QED BY <2>1, <2>2
<1>3. ASSUME NEW n \in DOMAIN q PROVE q[n].id \in QueuedIds(q \o r)
  <2>1. n \in DOMAIN (q \o r) /\ (q \o r)[n] = q[n]
    BY <1>1
  <2> QED BY <2>1 DEF QueuedIds
<1>4. ASSUME NEW n \in DOMAIN r PROVE r[n].id \in QueuedIds(q \o r)
  <2>1. Len(q) + n \in DOMAIN (q \o r) /\ (q \o r)[Len(q) + n] = r[n]
    BY <1>1
  <2> QED BY <2>1 DEF QueuedIds
<1> QED BY <1>2, <1>3, <1>4 DEF QueuedIds

\* What Persist leaves in the file of d, and in the others.
LEMMA PersistedIds ==
    ASSUME TypeInv, NEW d \in Peers, NEW q, Persist(d, q)
    PROVE  /\ disk'[d] \in {q, disk[d]}
           /\ \A e \in Peers \ {d} : disk'[e] = disk[e]
BY DEF Persist, TypeInv, TypeOK

LEMMA AcceptedStep ==
    TypeInv /\ AcceptedInv /\ [Next]_vars => AcceptedInv'
<1> SUFFICES ASSUME TypeInv, AcceptedInv, [Next]_vars PROVE AcceptedInv'
  OBVIOUS
<1>1. /\ worker \in [Workers -> WorkerType] /\ accepted \in [Peers -> SUBSET Ids]
      /\ queue \in [Peers -> Seq(Event)] /\ disk \in [Peers -> Seq(Event)]
      /\ load \in [todo : SUBSET Peers, cur : Peers \cup {NoPeer}, buf : Seq(Event)]
  BY DEF TypeInv, TypeOK, WorkerType
<1>2. CASE UNCHANGED <<worker, accepted, queue, disk, load>>
  BY <1>2 DEF AcceptedInv
<1>3. ASSUME NEW d \in Peers, Trigger(d), UNCHANGED <<accepted, queue, disk, load>>
      PROVE  AcceptedInv'
  <2>1. CASE UNCHANGED drains
    BY <1>2, <1>3, <2>1 DEF drains
  <2>2. CASE Started /\ ~working[d]
    <3>1. PICK g \in Workers :
            worker' = [worker EXCEPT ![g] = [Idle EXCEPT !.pc = "peek", !.dst = d]]
      BY <1>3, <2>2 DEF Trigger
    <3>2. worker'[g].pc = "peek" /\ \A h \in Workers \ {g} : worker'[h] = worker[h]
      BY <1>1, <3>1 DEF Idle
    <3> QED BY <1>3, <3>2 DEF AcceptedInv
  <2> QED BY <1>3, <2>1, <2>2 DEF Trigger
<1>4. ASSUME NEW d \in Peers, Enqueue(d) PROVE AcceptedInv'
  <2>1. push.id \in Ids /\ queue[d] \in Seq(Event)
    BY <1>1, <1>4 DEF Enqueue, TypeInv, PushInv, NoPush
  <2>2. /\ queue' = [queue EXCEPT ![d] = Enqueued(queue[d], push.id)]
        /\ Persist(d, queue'[d]) /\ worker' = worker /\ load' = load
        /\ accepted' = [accepted EXCEPT ![d] = @ \cup {push.id}]
    BY <1>4 DEF Enqueue
  <2>3. /\ queue'[d] = Enqueued(queue[d], push.id)
        /\ accepted'[d] = accepted[d] \cup {push.id}
        /\ \A e \in Peers \ {d} : queue'[e] = queue[e] /\ accepted'[e] = accepted[e]
    BY <1>1, <2>2
  <2>4. QueuedIds(queue'[d]) \subseteq accepted'[d]
    BY <2>1, <2>3, EnqueuedProps DEF AcceptedInv
  <2>5. /\ disk'[d] \in {queue'[d], disk[d]}
        /\ \A e \in Peers \ {d} : disk'[e] = disk[e]
    BY <2>2, PersistedIds
  <2>6. \A e \in Peers : QueuedIds(queue'[e]) \cup QueuedIds(disk'[e]) \subseteq accepted'[e]
    BY <2>3, <2>4, <2>5 DEF AcceptedInv
  <2>7. \A e \in Peers : accepted[e] \subseteq accepted'[e]
    BY <2>3
  <2>8. \A g \in Workers : worker[g].pc \in {"post", "settle"} => worker[g].dst \in Peers
    BY DEF TypeInv, WorkerInv
  <2> QED BY <1>1, <2>2, <2>6, <2>7, <2>8 DEF AcceptedInv
<1>5. ASSUME NEW g \in Workers, Peek(g) PROVE AcceptedInv'
  <2> DEFINE q == queue[worker[g].dst]
  <2>1. /\ worker[g].dst \in Peers /\ q \in Seq(Event)
        /\ UNCHANGED <<accepted, queue, disk, load>>
    BY <1>1, <1>5 DEF Peek, TypeInv, WorkerInv
  <2>2. \A h \in Workers \ {g} : worker'[h] = worker[h]
    BY <1>1, <1>5 DEF Peek
  <2>3. CASE q = <<>>
    <3>1. worker'[g].pc = "exit"
      BY <1>1, <1>5, <2>3 DEF Peek, WorkerType
    <3> QED BY <2>1, <2>2, <3>1 DEF AcceptedInv
  <2>4. CASE q # <<>>
    <3>1. worker'[g].ev = Head(q) /\ worker'[g].dst = worker[g].dst
      BY <1>1, <1>5, <2>4 DEF Peek, WorkerType
    <3>2. Head(q) = q[1] /\ 1 \in DOMAIN q
      BY <2>1, <2>4, HeadTailProperties, LenProperties, EmptySeq
    <3>3. Head(q).id \in QueuedIds(q)
      BY <3>2 DEF QueuedIds
    <3>4. worker'[g].ev.id \in accepted[worker[g].dst]
      BY <2>1, <3>1, <3>3 DEF AcceptedInv
    <3> QED BY <2>1, <2>2, <3>1, <3>4 DEF AcceptedInv
  <2> QED BY <2>3, <2>4
<1>6. ASSUME NEW g \in Workers, Post(g) PROVE AcceptedInv'
  <2>1. /\ worker'[g].dst = worker[g].dst /\ worker'[g].ev = worker[g].ev
        /\ \A h \in Workers \ {g} : worker'[h] = worker[h]
    BY <1>1, <1>6 DEF Post, WorkerType
  <2>2. worker[g].pc = "post" /\ UNCHANGED <<accepted, queue, disk, load>>
    BY <1>6 DEF Post
  <2> QED BY <2>1, <2>2 DEF AcceptedInv
<1>7. ASSUME NEW g \in Workers, Settle(g) PROVE AcceptedInv'
  <2> DEFINE d == worker[g].dst
             ev == worker[g].ev
             err == worker[g].err
  <2>1. d \in Peers /\ ev \in Event /\ err \in BOOLEAN /\ queue[d] \in Seq(Event)
    BY <1>1, <1>7 DEF Settle, TypeInv, WorkerInv, WorkerType
  <2>2. /\ queue' = [queue EXCEPT ![d] = Settled(queue[d], ev, err)]
        /\ Persist(d, queue'[d]) /\ UNCHANGED <<accepted, load>> /\ worker[g].pc = "settle"
    BY <1>7 DEF Settle
  <2>3. /\ worker'[g].pc \in {"exit", "peek"}
        /\ \A h \in Workers \ {g} : worker'[h] = worker[h]
    BY <1>1, <1>7 DEF Settle, WorkerType
  <2>4. ev.id \in accepted[d]
    BY <2>2 DEF AcceptedInv
  <2> HIDE DEF d, ev, err
  <2>5. /\ queue'[d] = Settled(queue[d], ev, err)
        /\ \A e \in Peers \ {d} : queue'[e] = queue[e]
    BY <1>1, <2>1, <2>2
  <2>6. QueuedIds(queue'[d]) \subseteq accepted[d]
    BY <2>1, <2>4, <2>5, SettledProps DEF AcceptedInv
  <2>7. /\ disk'[d] \in {queue'[d], disk[d]}
        /\ \A e \in Peers \ {d} : disk'[e] = disk[e]
    BY <2>1, <2>2, PersistedIds
  <2>8. \A e \in Peers : QueuedIds(queue'[e]) \cup QueuedIds(disk'[e]) \subseteq accepted[e]
    BY <2>5, <2>6, <2>7 DEF AcceptedInv
  <2> QED BY <2>2, <2>3, <2>8 DEF AcceptedInv
<1>8. ASSUME NEW g \in Workers, Exit(g) PROVE AcceptedInv'
  <2>1. worker'[g] = Idle /\ \A h \in Workers \ {g} : worker'[h] = worker[h]
    BY <1>1, <1>8 DEF Exit
  <2>2. UNCHANGED <<accepted, queue, disk, load>>
    BY <1>8 DEF Exit
  <2> QED BY <2>1, <2>2 DEF AcceptedInv, Idle
<1>9. CASE MergeFile
  <2>1. /\ load.cur \in Peers /\ load.buf \in Seq(Event) /\ queue[load.cur] \in Seq(Event)
        /\ queue' = [queue EXCEPT ![load.cur] = load.buf \o queue[load.cur]]
        /\ load'.cur = NoPeer /\ UNCHANGED <<accepted, disk, worker>>
    BY <1>1, <1>9 DEF MergeFile
  <2>2. QueuedIds(load.buf \o queue[load.cur]) \subseteq accepted[load.cur]
    <3>1. QueuedIds(load.buf \o queue[load.cur]) = QueuedIds(load.buf) \cup QueuedIds(queue[load.cur])
      BY <2>1, ConcatIds
    <3>2. QueuedIds(load.buf) \subseteq accepted[load.cur]
      BY <1>9 DEF AcceptedInv, MergeFile
    <3>3. QueuedIds(queue[load.cur]) \subseteq accepted[load.cur]
      BY <2>1 DEF AcceptedInv
    <3> QED BY <3>1, <3>2, <3>3
  <2> QED BY <1>1, <2>1, <2>2 DEF AcceptedInv
<1>10. ASSUME NEW d \in Peers, ReadFile(d) PROVE AcceptedInv'
  BY <1>1, <1>10 DEF ReadFile, AcceptedInv
<1>11. CASE ListFiles
  BY <1>11 DEF ListFiles, AcceptedInv, NoLoad
<1>12. CASE LoseMemory
  <2>1. QueuedIds(<<>>) = {}
    BY DEF QueuedIds
  <2> QED BY <1>12, <2>1 DEF LoseMemory, AcceptedInv, Idle, NoLoad
<1>13. CASE EnqueueTrigger
  <2>1. push.trig \in Peers
    BY <1>13 DEF EnqueueTrigger, TypeInv, TypeOK
  <2> QED BY <1>3, <1>13, <2>1 DEF EnqueueTrigger
<1>14. CASE \E d \in Peers : Tick(d)
  BY <1>3, <1>14 DEF Tick
<1>15. CASE Writer \/ TakeSink
  BY <1>2, <1>15 DEF Writer, Write, Commit, Rollback, TakeSink
<1>16. CASE StartLoop \/ StopSink \/ StopLoop \/ Boot \/ UNCHANGED vars
  BY <1>2, <1>16 DEF StartLoop, StopSink, StopLoop, Boot, vars
<1> QED
  BY <1>4, <1>5, <1>6, <1>7, <1>8, <1>9, <1>10, <1>11, <1>12, <1>13, <1>14, <1>15, <1>16
  DEF Next, SinkWorker, Drain, Loader, Stopper, StopProcess, Crash

LEMMA FeedInvariant == Spec => []FeedInv
<1>1. Init => OrderInv /\ AnswerInv /\ AcceptedInv
  BY DEF Init, OrderInv, AnswerInv, AcceptedInv, QueuedIds, Idle, NoLoad
<1>2. FeedInv /\ [Next]_vars => FeedInv'
  BY TypeStep, OrderStep, AnswerStep, AcceptedStep DEF FeedInv
<1> QED BY <1>1, <1>2, TypeInit, PTL DEF Spec, FeedInv

\* The changes an Enqueue removes from the queue of d are superseded by the
\* one it adds.
LEMMA EnqueueSupersedes ==
    ASSUME FeedInv, NEW d \in Peers, Enqueue(d), NEW i \in QueuedIds(queue[d]),
           i \notin QueuedIds(queue'[d])
    PROVE  Superseded(d, i)'
<1>1. push.id \in Ids /\ i < push.id /\ d \in push.todo
  BY DEF Enqueue, FeedInv, TypeInv, PushInv, OrderInv, AcceptedInv, NoPush
<1>2. queue[d] \in Seq(Event) /\ queue'[d] = Enqueued(queue[d], push.id)
      /\ accepted'[d] = accepted[d] \cup {push.id} /\ log' = log
  BY DEF Enqueue, FeedInv, TypeInv, TypeOK
<1>3. ActionOf(push.id) = "update" /\ ActionOf(i) = "update" /\ RowOf(i) = RowOf(push.id)
  BY <1>1, <1>2, EnqueuedProps
<1> QED BY <1>1, <1>2, <1>3 DEF Superseded, ActionOf, RowOf
\* The changes a Settle removes from the queue of d were delivered or given up.
LEMMA SettleRemoves ==
    ASSUME FeedInv, NEW g \in Workers, Settle(g), NEW d \in Peers, NEW i \in QueuedIds(queue[d]),
           i \notin QueuedIds(queue'[d])
    PROVE  i \in sent[d] \cup dropped'[d]
<1> DEFINE ev == worker[g].ev
           err == worker[g].err
<1>1. worker[g].dst \in Peers /\ ev \in Event /\ err \in BOOLEAN /\ queue \in [Peers -> Seq(Event)]
      /\ dropped \in [Peers -> SUBSET Ids]
  BY DEF FeedInv, TypeInv, TypeOK, WorkerInv, Settle
<1>2. /\ queue' = [queue EXCEPT ![worker[g].dst] = Settled(@, ev, err)]
      /\ dropped' = IF err /\ LastTry(ev)
                    THEN [dropped EXCEPT ![worker[g].dst] = @ \cup {ev.id}] ELSE dropped
      /\ worker[g].pc = "settle"
  BY DEF Settle
<1>3. ~err => ev.id \in sent[worker[g].dst]
  BY <1>2 DEF FeedInv, AnswerInv
<1> HIDE DEF ev, err
<1>4. d = worker[g].dst
  BY <1>1, <1>2
<1>5. queue'[d] = Settled(queue[d], ev, err) /\ queue[d] \in Seq(Event)
  BY <1>1, <1>2, <1>4
<1>6. i = ev.id /\ (~err \/ LastTry(ev))
  BY <1>1, <1>5, SettledProps
<1> QED BY <1>1, <1>2, <1>3, <1>4, <1>6

\* A queue loses a change only because the peer applied it, it was given up, a
\* later update of its row superseded it, or the process ended.
THEOREM QueueKeepsChanges == Spec => LeavesQueueForAReason
<1>1. ASSUME FeedInv, [Next]_vars PROVE LeavesForAReason
  <2> SUFFICES ASSUME NEW d \in Peers, NEW i \in QueuedIds(queue[d]), i \notin QueuedIds(queue'[d])
               PROVE  i \in sent[d] \cup dropped'[d] \/ Superseded(d, i)' \/ phase' = "down"
    BY DEF LeavesForAReason
  <2>1. queue' # queue
    OBVIOUS
  <2>2. queue \in [Peers -> Seq(Event)]
    BY <1>1 DEF FeedInv, TypeInv, TypeOK
  <2>3. CASE \E e \in Peers : Enqueue(e)
    <3>1. PICK e \in Peers : Enqueue(e)
      BY <2>3
    <3>2. e = d
      BY <2>2, <3>1 DEF Enqueue
    <3> QED BY <1>1, <3>1, <3>2, EnqueueSupersedes
  <2>4. CASE \E g \in Workers : Settle(g)
    BY <1>1, <2>4, SettleRemoves
  <2>5. CASE MergeFile
    <3>1. /\ load.cur \in Peers /\ load.buf \in Seq(Event)
          /\ queue' = [queue EXCEPT ![load.cur] = load.buf \o queue[load.cur]]
      BY <1>1, <2>5 DEF MergeFile, FeedInv, TypeInv, TypeOK
    <3>2. d = load.cur
      BY <2>2, <3>1
    <3>3. queue'[d] = load.buf \o queue[d] /\ queue[d] \in Seq(Event)
      BY <2>2, <3>1, <3>2
    <3>4. QueuedIds(queue'[d]) = QueuedIds(load.buf) \cup QueuedIds(queue[d])
      BY <3>1, <3>3, ConcatIds
    <3> QED BY <3>4
  <2>6. CASE LoseMemory
    BY <2>6 DEF LoseMemory
  <2>7. CASE Writer \/ TakeSink \/ EnqueueTrigger \/ \E e \in Peers : Tick(e)
    BY <2>1, <2>7 DEF Writer, Write, Commit, Rollback, TakeSink, EnqueueTrigger, Tick
  <2>8. CASE \E g \in Workers : Peek(g) \/ Post(g) \/ Exit(g)
    BY <2>1, <2>8 DEF Peek, Post, Exit
  <2>9. CASE \/ ListFiles \/ StartLoop \/ StopSink \/ StopLoop \/ Boot \/ UNCHANGED vars
            \/ \E e \in Peers : ReadFile(e)
    BY <2>1, <2>9 DEF ListFiles, StartLoop, StopSink, StopLoop, Boot, ReadFile, vars
  <2> QED
    BY <1>1, <2>3, <2>4, <2>5, <2>6, <2>7, <2>8, <2>9
    DEF Next, SinkWorker, Drain, Loader, Stopper, StopProcess, Crash
<1> QED BY <1>1, FeedInvariant, PTL DEF Spec, LeavesQueueForAReason
-----------------------------------------------------------------------------
(* The promise of the queue file.  It needs that no change is emitted       *)
(* before Start has restored the files (a push would overwrite the file     *)
(* before it is read: see the run P2PQueueEarly) and that the file can be   *)
(* written.                                                                 *)

\* The file of a peer is its queue once the feed runs; until Start nothing is
\* taken in, and what is not in the queue is still to be read from the file.
DiskInv ==
    /\ phase \in {"down", "boot", "loading"} =>
         /\ sink = <<>> /\ push = NoPush
         /\ \A g \in Workers : worker[g].pc = "idle"
    /\ phase \in {"down", "boot"} => load = NoLoad /\ \A d \in Peers : queue[d] = <<>>
    /\ phase = "loading" =>
         /\ load.cur # NoPeer => load.buf = disk[load.cur] /\ load.cur \notin load.todo
         /\ \A d \in Peers :
              queue[d] = IF d \in load.todo \cup {load.cur} THEN <<>> ELSE disk[d]
    /\ phase \in {"up", "stopping", "closed"} =>
         load = NoLoad /\ \A d \in Peers : queue[d] = disk[d]

\* Every step keeps DiskInv: a push or a drain needs the feed to run, and persists.
LEMMA DiskStep ==
    ASSUME ~EarlyWrites, TypeInv, DiskInv, [Next]_vars, faults'.disk = 0
    PROVE  DiskInv'
<1> USE DEF TypeInv
<1>1. /\ queue \in [Peers -> Seq(Event)] /\ disk \in [Peers -> Seq(Event)]
      /\ load \in [todo : SUBSET Peers, cur : Peers \cup {NoPeer}, buf : Seq(Event)]
      /\ worker \in [Workers -> WorkerType]
      /\ phase \in {"down", "boot", "loading", "up", "stopping", "closed"}
      /\ push \in [id : Ids \cup {0}, todo : SUBSET Peers, trig : Peers \cup {NoPeer}]
  BY DEF TypeOK, WorkerType
<1>2. ASSUME NEW d \in Peers, NEW q, Persist(d, q) PROVE disk' = [disk EXCEPT ![d] = q]
  <2>1. faults \in FaultType
    BY DEF TypeOK, FaultType
  <2>2. faults' # [faults EXCEPT !.disk = @ + 1]
    BY <2>1 DEF FaultType
  <2> QED BY <1>2, <2>2 DEF Persist
<1>3. ASSUME phase \in {"up", "stopping", "closed"}, phase' = phase, load' = load,
             NEW d \in Peers, Persist(d, queue'[d]), NEW q, queue' = [queue EXCEPT ![d] = q]
      PROVE  DiskInv'
  <2>1. disk' = [disk EXCEPT ![d] = queue'[d]]
    BY <1>2, <1>3
  <2>2. \A e \in Peers : queue'[e] = disk'[e]
    BY <1>1, <1>3, <2>1 DEF DiskInv
  <2> QED BY <1>3, <2>2 DEF DiskInv
<1>4. ASSUME phase \in {"up", "stopping", "closed"}, phase' \in {"up", "stopping", "closed"},
             UNCHANGED <<queue, disk, load>>
      PROVE  DiskInv'
  BY <1>4 DEF DiskInv
<1>5. ASSUME NEW k \in Rows, NEW a \in {"create", "update", "delete"}, Write(k, a) PROVE DiskInv'
  BY <1>4, <1>5 DEF Write, Writable
<1>6. CASE \E k \in Rows : Commit(k) \/ Rollback(k)
  BY <1>6 DEF Commit, Rollback, DiskInv
<1>7. CASE TakeSink
  <2>1. phase \in {"up", "stopping", "closed"}
    BY <1>1, <1>7 DEF TakeSink, DiskInv
  <2> QED BY <1>4, <1>7, <2>1 DEF TakeSink
<1>8. ASSUME NEW d \in Peers, Enqueue(d) PROVE DiskInv'
  <2>1. phase \in {"up", "stopping", "closed"}
    BY <1>1, <1>8 DEF Enqueue, DiskInv, NoPush
  <2> QED BY <1>3, <1>8, <2>1 DEF Enqueue
<1>9. CASE EnqueueTrigger
  <2>1. phase \in {"up", "stopping", "closed"}
    BY <1>1, <1>9 DEF EnqueueTrigger, DiskInv, NoPush
  <2> QED BY <1>4, <1>9, <2>1 DEF EnqueueTrigger
<1>10. CASE \E d \in Peers : Tick(d)
  BY <1>4, <1>10 DEF Tick, Started
<1>11. ASSUME NEW g \in Workers, Peek(g) \/ Post(g) \/ Exit(g) PROVE DiskInv'
  <2>1. worker[g].pc # "idle"
    BY <1>11 DEF Peek, Post, Exit
  <2>2. phase \in {"up", "stopping", "closed"}
    BY <1>1, <2>1 DEF DiskInv
  <2> QED BY <1>4, <1>11, <2>2 DEF Peek, Post, Exit
<1>12. ASSUME NEW g \in Workers, Settle(g) PROVE DiskInv'
  <2>1. phase \in {"up", "stopping", "closed"}
    BY <1>1, <1>12 DEF Settle, DiskInv
  <2>2. worker[g].dst \in Peers
    BY <1>12 DEF Settle, WorkerInv
  <2> QED BY <1>3, <1>12, <2>1, <2>2 DEF Settle
<1>13. CASE ListFiles
  <2>1. /\ phase = "boot" /\ phase' = "loading" /\ UNCHANGED <<sink, push, worker, queue, disk>>
        /\ load'.todo = {d \in Peers : disk[d] # <<>>} /\ load'.cur = NoPeer
    BY <1>13 DEF ListFiles, NoLoad
  <2>2. NoPeer \notin Peers
    BY P2PAssumption
  <2> QED BY <1>1, <2>1, <2>2 DEF DiskInv
<1>14. ASSUME NEW d \in Peers, ReadFile(d) PROVE DiskInv'
  <2>1. /\ d \in load.todo /\ load.cur = NoPeer
        /\ load' = [todo |-> load.todo \ {d}, cur |-> d, buf |-> disk[d]]
        /\ UNCHANGED <<phase, sink, push, worker, queue, disk>>
    BY <1>14 DEF ReadFile
  <2>2. phase = "loading"
    BY <1>1, <2>1 DEF DiskInv, NoLoad
  <2>3. NoPeer \notin Peers
    BY P2PAssumption
  <2>4. \A e \in Peers : e \in load'.todo \cup {load'.cur} <=> e \in load.todo \cup {load.cur}
    BY <2>1, <2>3
  <2> QED BY <1>1, <2>1, <2>2, <2>4 DEF DiskInv
<1>15. CASE MergeFile
  <2>1. /\ load.cur \in Peers
        /\ queue' = [queue EXCEPT ![load.cur] = load.buf \o queue[load.cur]]
        /\ load'.cur = NoPeer /\ load'.todo = load.todo
        /\ UNCHANGED <<phase, sink, push, worker, disk>>
    BY <1>1, <1>15 DEF MergeFile
  <2>2. phase = "loading"
    BY <1>1, <1>15 DEF MergeFile, DiskInv, NoLoad
  <2>3. load.buf = disk[load.cur] /\ queue[load.cur] = <<>> /\ load.cur \notin load.todo
    BY <2>1, <2>2, P2PAssumption DEF DiskInv
  <2>4. disk[load.cur] \in Seq(Event)
    BY <1>1, <2>1
  <2>5. queue'[load.cur] = disk[load.cur]
    BY <1>1, <2>1, <2>3, <2>4, ConcatEmptySeq
  <2>6. \A d \in Peers : queue'[d] = IF d \in load'.todo \cup {load'.cur} THEN <<>> ELSE disk'[d]
    BY <1>1, <2>1, <2>2, <2>3, <2>5, P2PAssumption DEF DiskInv
  <2> QED BY <2>1, <2>2, <2>6 DEF DiskInv
<1>16. CASE StartLoop
  BY <1>16, P2PAssumption DEF StartLoop, DiskInv, NoLoad
<1>17. CASE StopSink \/ StopLoop
  BY <1>4, <1>17 DEF StopSink, StopLoop
<1>18. CASE Boot
  BY <1>18 DEF Boot, DiskInv
<1>19. CASE LoseMemory
  BY <1>19 DEF LoseMemory, DiskInv, Idle
<1>20. CASE UNCHANGED vars
  BY <1>20 DEF vars, DiskInv
<1> QED
  BY <1>5, <1>6, <1>7, <1>8, <1>9, <1>10, <1>11, <1>12, <1>13, <1>14, <1>15, <1>16, <1>17, <1>18,
     <1>19, <1>20 DEF Next, Writer, SinkWorker, Drain, Loader, Stopper, StopProcess, Crash

\* An accepted change stays accounted for.
LEMMA LossStep ==
    ASSUME FeedInv, DiskInv, DiskInv', NoSilentLoss, [Next]_vars, ~EarlyWrites
    PROVE  NoSilentLoss'
<1>1. /\ accepted \in [Peers -> SUBSET Ids] /\ sent \in [Peers -> SUBSET Ids]
      /\ dropped \in [Peers -> SUBSET Ids] /\ queue \in [Peers -> Seq(Event)]
      /\ phase \in {"down", "boot", "loading", "up", "stopping", "closed"}
  BY DEF FeedInv, TypeInv, TypeOK
<1>2. ASSUME disk' = disk, accepted' = accepted, log' = log,
             \A d \in Peers : sent[d] \subseteq sent'[d] /\ dropped[d] \subseteq dropped'[d]
      PROVE  NoSilentLoss'
  BY <1>2 DEF NoSilentLoss, Superseded, ActionOf, RowOf
<1>3. ASSUME NEW k \in Rows, NEW a \in {"create", "update", "delete"}, Write(k, a)
      PROVE  NoSilentLoss'
  <2>1. \A i \in Ids : log'[i] = log[i]
    BY <1>3, WriteGrows DEF Write, FeedInv, TypeInv, Change
  <2>2. UNCHANGED <<accepted, sent, dropped, disk>>
    BY <1>3 DEF Write
  <2>3. ASSUME NEW d \in Peers, NEW i \in accepted[d], Superseded(d, i) PROVE Superseded(d, i)'
    <3>1. accepted[d] \subseteq Ids
      BY <1>1
    <3> QED BY <2>1, <2>2, <2>3, <3>1 DEF Superseded, ActionOf, RowOf
  <2> QED BY <2>2, <2>3 DEF NoSilentLoss
<1>4. ASSUME NEW d \in Peers, Enqueue(d) PROVE NoSilentLoss'
  <2>1. phase \in {"up", "stopping", "closed"} /\ phase' = phase
    BY <1>1, <1>4 DEF Enqueue, DiskInv, NoPush
  <2>2. \A e \in Peers : queue[e] = disk[e] /\ queue'[e] = disk'[e]
    BY <2>1 DEF DiskInv
  <2>3. /\ accepted'[d] = accepted[d] \cup {push.id} /\ log' = log /\ sent' = sent
        /\ dropped' = dropped /\ push.id \in Ids
        /\ \A e \in Peers \ {d} : accepted'[e] = accepted[e] /\ queue'[e] = queue[e]
    BY <1>1, <1>4 DEF Enqueue, FeedInv, TypeInv, PushInv, NoPush
  <2>4. push.id \in QueuedIds(queue'[d])
    BY <1>1, <1>4, <2>3, EnqueuedProps DEF Enqueue
  <2>5. \A e \in Peers, i \in Ids : Superseded(e, i) => Superseded(e, i)'
    BY <2>3 DEF Superseded, ActionOf, RowOf
  <2>6. \A i \in QueuedIds(queue[d]) : i \in QueuedIds(queue'[d]) \/ Superseded(d, i)'
    BY <1>4, EnqueueSupersedes
  <2>7. ASSUME NEW i \in accepted'[d]
        PROVE  i \in sent'[d] \cup dropped'[d] \/ i \in QueuedIds(disk'[d]) \/ Superseded(d, i)'
    BY <1>1, <2>2, <2>3, <2>4, <2>5, <2>6 DEF NoSilentLoss
  <2>8. ASSUME NEW e \in Peers \ {d}, NEW i \in accepted'[e]
        PROVE  i \in sent'[e] \cup dropped'[e] \/ i \in QueuedIds(disk'[e]) \/ Superseded(e, i)'
    BY <1>1, <2>2, <2>3, <2>5 DEF NoSilentLoss
  <2> QED BY <2>7, <2>8 DEF NoSilentLoss
<1>5. ASSUME NEW g \in Workers, Settle(g) PROVE NoSilentLoss'
  <2>1. phase \in {"up", "stopping", "closed"} /\ phase' = phase
    BY <1>1, <1>5 DEF Settle, DiskInv
  <2>2. \A e \in Peers : queue[e] = disk[e] /\ queue'[e] = disk'[e]
    BY <2>1 DEF DiskInv
  <2>3. /\ accepted' = accepted /\ log' = log /\ sent' = sent
        /\ \A e \in Peers : dropped[e] \subseteq dropped'[e]
    BY <1>1, <1>5 DEF Settle
  <2>4. \A e \in Peers, i \in Ids : Superseded(e, i) => Superseded(e, i)'
    BY <2>3 DEF Superseded, ActionOf, RowOf
  <2>5. \A e \in Peers : \A i \in QueuedIds(queue[e]) :
          i \in QueuedIds(queue'[e]) \/ i \in sent[e] \cup dropped'[e]
    BY <1>5, SettleRemoves
  <2>6. ASSUME NEW e \in Peers, NEW i \in accepted[e]
        PROVE  i \in sent'[e] \cup dropped'[e] \/ i \in QueuedIds(disk'[e]) \/ Superseded(e, i)'
    BY <1>1, <2>2, <2>3, <2>4, <2>5 DEF NoSilentLoss
  <2> QED BY <2>3, <2>6 DEF NoSilentLoss
<1>6. ASSUME NEW g \in Workers, Post(g) PROVE NoSilentLoss'
  <2>1. \A d \in Peers : sent[d] \subseteq sent'[d]
    <3>1. sent' = sent \/ sent' = [sent EXCEPT ![worker[g].dst] = @ \cup {worker[g].ev.id}]
      BY <1>6 DEF Post
    <3> QED BY <1>1, <3>1
  <2> QED BY <1>2, <1>6, <2>1 DEF Post
<1>7. CASE \/ \E k \in Rows : Commit(k) \/ Rollback(k)
           \/ TakeSink \/ EnqueueTrigger \/ \E d \in Peers : Tick(d)
           \/ \E g \in Workers : Peek(g) \/ Exit(g)
  BY <1>2, <1>7 DEF Commit, Rollback, TakeSink, EnqueueTrigger, Tick, Peek, Exit
<1>8. CASE Loader \/ StopSink \/ StopLoop \/ Boot
  BY <1>2, <1>8 DEF Loader, ListFiles, ReadFile, MergeFile, StartLoop, StopSink, StopLoop, Boot
<1>9. CASE LoseMemory \/ UNCHANGED vars
  BY <1>2, <1>9 DEF LoseMemory, vars
<1> QED
  BY <1>3, <1>4, <1>5, <1>6, <1>7, <1>8, <1>9
  DEF Next, Writer, SinkWorker, Drain, Stopper, StopProcess, Crash

\* Failures to write a queue file stay within their bound.
LEMMA DiskFaultsBounded ==
    ASSUME TypeInv, faults.disk <= MaxDiskFaults, [Next]_vars
    PROVE  faults'.disk <= MaxDiskFaults
<1>1. faults \in FaultType /\ faults.disk \in Nat /\ MaxDiskFaults \in Nat
  BY P2PAssumption DEF TypeInv, TypeOK, FaultType
<1>2. ASSUME NEW d \in Peers, NEW q, Persist(d, q) PROVE faults'.disk <= MaxDiskFaults
  BY <1>1, <1>2 DEF Persist, FaultType
<1>3. CASE Writer \/ SinkWorker \/ \E d \in Peers : Tick(d)
  BY <1>1, <1>2, <1>3 DEF Writer, Write, Commit, Rollback, SinkWorker, TakeSink, Enqueue,
     EnqueueTrigger, Tick, FaultType
<1>4. ASSUME NEW g \in Workers, Drain(g) PROVE faults'.disk <= MaxDiskFaults
  <2>1. CASE Settle(g)
    BY <1>2, <2>1 DEF Settle, TypeInv, WorkerInv
  <2>2. CASE Peek(g) \/ Post(g) \/ Exit(g)
    BY <1>1, <2>2 DEF Peek, Post, Exit, FaultType
  <2> QED BY <1>4, <2>1, <2>2 DEF Drain
<1>5. CASE Loader \/ Stopper \/ Boot \/ Crash \/ UNCHANGED vars
  BY <1>1, <1>5 DEF Loader, ListFiles, ReadFile, MergeFile, StartLoop, Stopper, StopSink, StopLoop,
     StopProcess, Boot, Crash, vars, FaultType
<1> QED BY <1>3, <1>4, <1>5 DEF Next

\* Unless a change is emitted before Start or a queue file cannot be written,
\* a crash at any point loses no accepted change: it was applied, given up,
\* superseded by a later update of its row, or is in the file.
THEOREM NothingLost ==
    ASSUME ~EarlyWrites, MaxDiskFaults = 0
    PROVE  Spec => []NoSilentLoss
<1> DEFINE Inv == DiskInv /\ NoSilentLoss /\ faults.disk <= MaxDiskFaults
<1>1. Init => Inv
  BY DEF Init, DiskInv, NoSilentLoss, Idle
<1>2. ASSUME FeedInv, FeedInv', Inv, [Next]_vars PROVE Inv'
  <2>1. faults'.disk <= MaxDiskFaults /\ faults'.disk = 0
    <3>1. faults'.disk <= MaxDiskFaults
      BY <1>2, DiskFaultsBounded DEF FeedInv
    <3>2. faults'.disk \in Nat
      BY <1>2 DEF FeedInv, TypeInv, TypeOK
    <3> QED BY <3>1, <3>2
  <2>2. DiskInv'
    BY <1>2, <2>1, DiskStep DEF FeedInv
  <2> QED BY <1>2, <2>1, <2>2, LossStep
<1> QED BY <1>1, <1>2, FeedInvariant, PTL DEF Spec
-----------------------------------------------------------------------------
(* A stop without a crash.                                                  *)

\* AsyncSink.Stop waits for its worker before P2PSync.Stop closes stopCh, and
\* the closed channel takes nothing in.
ClosedInv == phase = "closed" => sink = <<>> /\ push = NoPush

StopInv == ClosedInv /\ StopKeepsEmitted

\* A stop empties the sink into the queues; only a crash takes emitted changes.
LEMMA StopStep == TypeInv /\ StopInv /\ [Next]_vars => StopInv'
<1> SUFFICES ASSUME TypeInv, StopInv, [Next]_vars PROVE StopInv'
  OBVIOUS
<1> USE DEF TypeInv
<1>1. /\ sink \in Seq(Ids) /\ Ids = 1 .. Len(log) /\ Len(log) \in Nat
      /\ push \in [id : Ids \cup {0}, todo : SUBSET Peers, trig : Peers \cup {NoPeer}]
      /\ accepted \in [Peers -> SUBSET Ids] /\ faults \in FaultType /\ NoPeer \notin Peers
  BY HistoryGrows, P2PAssumption DEF TypeOK, FaultType
<1>2. Len(sink) \in Nat /\ DOMAIN sink = 1 .. Len(sink)
  BY <1>1, LenProperties
<1>3. CASE UNCHANGED <<phase, sink, push, accepted, log, refused>> /\ faults'.crash = faults.crash
  BY <1>3 DEF StopInv, ClosedInv, StopKeepsEmitted, Ids
<1>4. ASSUME NEW k \in Rows, NEW a \in {"create", "update", "delete"}, Write(k, a)
      PROVE  StopInv'
  <2> DEFINE i == Len(log) + 1
             c == [row |-> k, action |-> a]
  <2>1. /\ UNCHANGED <<phase, push, accepted, faults>> /\ SinkPush(i)
        /\ log' = Append(log, c) /\ c \in Change /\ log \in Seq(Change)
    BY <1>4 DEF Write, Change, TypeOK
  <2> HIDE DEF c
  <2>2. Ids' = 1 .. i
    BY <2>1, AppendProperties, LenProperties DEF Ids
  <2>3. CASE sink' = sink /\ refused' = refused \cup {i}
    <3>1. \A j \in Ids' \ refused' : j \in Ids \ refused
      BY <1>1, <2>2, <2>3
    <3> HIDE DEF i
    <3> QED BY <2>1, <2>3, <3>1 DEF StopInv, ClosedInv, StopKeepsEmitted
  <2>4. CASE sink' = Append(sink, i) /\ refused' = refused /\ phase # "closed"
    <3> DEFINE S == Ids \cup {i}
    <3>1. sink \in Seq(S) /\ i \in S
      BY <1>1, SeqDef
    <3> HIDE DEF S
    <3>2. Append(sink, i) \in Seq(S) /\ Len(Append(sink, i)) = Len(sink) + 1
      BY <3>1, AppendProperties
    <3>3. /\ DOMAIN sink' = 1 .. Len(sink) + 1 /\ sink'[Len(sink) + 1] = i
          /\ \A n \in 1 .. Len(sink) : sink'[n] = sink[n]
      BY <2>4, <3>1, <3>2, AppendProperties, LenProperties
    <3> HIDE DEF i
    <3>4. ClosedInv'
      BY <2>1, <2>4 DEF ClosedInv
    <3>5. \A n \in DOMAIN sink : n \in DOMAIN sink' /\ sink'[n] = sink[n]
      BY <1>2, <3>3
    <3>6. Len(sink) + 1 \in DOMAIN sink'
      BY <1>2, <3>3
    <3>7. \A j \in Ids' : j \in Ids \/ j = i
      BY <1>1, <2>2 DEF i
    <3> QED BY <2>1, <2>4, <3>3, <3>4, <3>5, <3>6, <3>7 DEF StopInv, StopKeepsEmitted
  <2> QED BY <2>1, <2>3, <2>4 DEF SinkPush
<1>5. CASE TakeSink
  <2>1. /\ sink # <<>> /\ sink' = Tail(sink) /\ push = NoPush
        /\ push' = [id |-> Head(sink), todo |-> Peers, trig |-> NoPeer]
        /\ UNCHANGED <<phase, log, refused, accepted, faults>>
    BY <1>5 DEF TakeSink
  <2>2. /\ Head(sink) = sink[1] /\ Tail(sink) \in Seq(Ids) /\ Len(Tail(sink)) = Len(sink) - 1
        /\ \A n \in 1 .. Len(Tail(sink)) : Tail(sink)[n] = sink[n + 1]
    BY <1>1, <2>1, HeadTailProperties
  <2>3. DOMAIN Tail(sink) = 1 .. Len(sink) - 1
    BY <2>2, LenProperties
  <2>4. ASSUME NEW n \in DOMAIN sink
        PROVE  sink[n] = Head(sink) \/ \E m \in DOMAIN sink' : sink'[m] = sink[n]
    <3>1. CASE n = 1
      BY <2>2, <3>1
    <3>2. CASE n # 1
      <4>1. n - 1 \in DOMAIN sink' /\ sink'[n - 1] = sink[n]
        BY <1>2, <2>1, <2>2, <2>3, <3>2
      <4> QED BY <4>1
    <3> QED BY <3>1, <3>2
  <2>5. push'.id = Head(sink) /\ push'.todo = Peers /\ push.todo = {}
    BY <2>1 DEF NoPush
  <2>6. StopKeepsEmitted'
    BY <2>1, <2>4, <2>5 DEF StopInv, StopKeepsEmitted, Ids
  <2> QED BY <2>1, <2>6 DEF StopInv, ClosedInv
<1>6. ASSUME NEW d \in Peers, Enqueue(d) PROVE StopInv'
  <2>1. /\ d \in push.todo /\ push.trig = NoPeer
        /\ accepted' = [accepted EXCEPT ![d] = @ \cup {push.id}]
        /\ push' = [push EXCEPT !.todo = @ \ {d}, !.trig = d]
        /\ UNCHANGED <<phase, sink, log, refused>>
    BY <1>6 DEF Enqueue
  <2>2. faults'.crash = faults.crash
    BY <1>1, <1>6 DEF Enqueue, Persist, FaultType
  <2>3. /\ push'.id = push.id /\ push'.todo = push.todo \ {d} /\ push # NoPush
        /\ \A e \in Peers : accepted'[e] = IF e = d THEN accepted[d] \cup {push.id} ELSE accepted[e]
    BY <1>1, <2>1 DEF NoPush
  <2> QED BY <2>1, <2>2, <2>3 DEF StopInv, ClosedInv, StopKeepsEmitted, Ids
<1>7. CASE EnqueueTrigger
  <2>1. /\ push.trig # NoPeer /\ UNCHANGED <<phase, sink, log, refused, accepted, faults>>
        /\ push' = IF push.todo = {} THEN NoPush ELSE [push EXCEPT !.trig = NoPeer]
    BY <1>7 DEF EnqueueTrigger
  <2>2. push # NoPush /\ (push.todo # {} => push'.id = push.id /\ push'.todo = push.todo)
    BY <1>1, <2>1 DEF NoPush
  <2> QED BY <2>1, <2>2 DEF StopInv, ClosedInv, StopKeepsEmitted, Ids
<1>8. CASE StopLoop
  BY <1>8 DEF StopLoop, StopInv, ClosedInv, StopKeepsEmitted, Ids
<1>9. CASE StopProcess
  BY <1>9 DEF StopProcess, LoseMemory, StopInv, ClosedInv, StopKeepsEmitted, Ids
<1>10. CASE Crash
  <2>1. faults'.crash # 0
    BY <1>1, <1>10 DEF Crash, FaultType
  <2> QED BY <1>10, <2>1 DEF Crash, LoseMemory, StopInv, ClosedInv, StopKeepsEmitted
<1>11. CASE StopSink \/ StartLoop \/ Boot \/ ListFiles
  <2>1. faults'.crash = faults.crash
    BY <1>1, <1>11 DEF StopSink, StartLoop, Boot, ListFiles, FaultType
  <2> QED BY <1>11, <2>1 DEF StopSink, StartLoop, Boot, ListFiles, StopInv, ClosedInv,
          StopKeepsEmitted, Ids
<1>12. CASE \/ \E k \in Rows : Commit(k) \/ Rollback(k)
            \/ \E d \in Peers : Tick(d) \/ ReadFile(d)
            \/ \E g \in Workers : Peek(g) \/ Exit(g)
            \/ MergeFile
            \/ UNCHANGED vars
  BY <1>1, <1>3, <1>12 DEF Commit, Rollback, Tick, ReadFile, Peek, Exit, MergeFile, vars, FaultType
<1>13. ASSUME NEW g \in Workers, Post(g) \/ Settle(g) PROVE StopInv'
  <2>1. faults'.crash = faults.crash
    BY <1>1, <1>13 DEF Post, Settle, Persist, FaultType
  <2> QED BY <1>3, <1>13, <2>1 DEF Post, Settle
<1> QED
  BY <1>4, <1>5, <1>6, <1>7, <1>8, <1>9, <1>10, <1>11, <1>12, <1>13
  DEF Next, Writer, SinkWorker, Drain, Loader, Stopper

\* Manager.Stop drains the sink before it stops the sender: in a behaviour
\* without a crash, every change emitted before the sink closed is on its way
\* to every peer or has been taken into that peer's queue.
THEOREM StopKeeps == Spec => []StopKeepsEmitted
<1>1. Init => StopInv
  BY DEF Init, StopInv, ClosedInv, StopKeepsEmitted, Ids
<1>2. Spec => []TypeInv
  BY TypeInit, TypeStep, PTL DEF Spec
<1>3. StopInv => StopKeepsEmitted
  BY DEF StopInv
<1> QED BY <1>1, <1>2, <1>3, StopStep, PTL DEF Spec
-----------------------------------------------------------------------------
(* What it costs to give a change up.                                       *)

\* An event of change i in the queue q has failed more than k times.
HasFailed(q, i, k) == \E n \in DOMAIN q : q[n].id = i /\ q[n].tries > k

\* The drain worker w holds a change i of d whose failed posts outnumber k, the
\* post it has just made included.
InFlight(w, d, i, k) ==
    /\ w.pc \in {"post", "settle"} /\ w.dst = d /\ w.ev.id = i
    /\ w.ev.tries > k \/ (w.pc = "settle" /\ w.err /\ w.ev.tries = k)

\* The feed remembers a failed post number k + 1 of change i to d.
Tried(d, i, k) ==
    \/ i \in dropped[d]
    \/ HasFailed(queue[d], i, k)
    \/ HasFailed(disk[d], i, k)
    \/ load.cur = d /\ HasFailed(load.buf, i, k)
    \/ \E g \in Workers : InFlight(worker[g], d, i, k)

Attempts == 0 .. MaxRetries - 1

\* Every failed post the feed remembers, once.
FailedPosts == {p \in (Peers \X Ids) \X Attempts : Tried(p[1][1], p[1][2], p[2])}

\* No failure is counted that did not happen, and none twice.
CountInv == Cardinality(FailedPosts) <= faults.post

LEMMA EnqueuedFailed ==
    ASSUME NEW q \in Seq(Event), NEW i \in Ids, NEW j, NEW k \in Nat,
           HasFailed(Enqueued(q, i), j, k)
    PROVE  HasFailed(q, j, k)
<1> DEFINE e == [id |-> i, tries |-> 0]
           I == {n \in DOMAIN q : ~IsUpdateOf(q[n], RowOf(i))}
           s == Supersede(q, i)
<1>1. e \in Event
  BY P2PAssumption DEF Event
<1>2. s \in Seq(Event) /\ \A n \in DOMAIN s : \E m \in DOMAIN q : s[n] = q[m]
  <2>1. CASE ActionOf(i) = "update"
    <3>1. I \in SUBSET DOMAIN q
      OBVIOUS
    <3>2. s = Keep(q, I)
      BY <2>1 DEF Supersede
    <3> HIDE DEF I, s
    <3> QED BY <3>1, <3>2, KeepIsSubsequence
  <2>2. CASE ActionOf(i) # "update"
    BY <2>2 DEF Supersede
  <2> QED BY <2>1, <2>2
<1> HIDE DEF s
<1>3. Enqueued(q, i) = Append(s, e)
  BY DEF Enqueued, s
<1>4. /\ DOMAIN Append(s, e) = 1 .. Len(s) + 1 /\ Len(s) \in Nat /\ DOMAIN s = 1 .. Len(s)
      /\ Append(s, e)[Len(s) + 1] = e
      /\ \A n \in 1 .. Len(s) : Append(s, e)[n] = s[n]
  <2> HIDE DEF e
  <2>1. Append(s, e) \in Seq(Event) /\ Len(Append(s, e)) = Len(s) + 1
    BY <1>1, <1>2, AppendProperties
  <2> QED BY <1>1, <1>2, <2>1, AppendProperties, LenProperties
<1>5. PICK n \in DOMAIN Append(s, e) : Append(s, e)[n].id = j /\ Append(s, e)[n].tries > k
  BY <1>3 DEF HasFailed
<1>6. n # Len(s) + 1
  BY <1>4, <1>5
<1>7. n \in DOMAIN s /\ s[n].id = j /\ s[n].tries > k
  BY <1>4, <1>5, <1>6
<1> QED BY <1>2, <1>7 DEF HasFailed

LEMMA SettledFailed ==
    ASSUME NEW q \in Seq(Event), NEW ev \in Event, NEW err \in BOOLEAN, NEW j, NEW k \in Nat,
           HasFailed(Settled(q, ev, err), j, k)
    PROVE  \/ HasFailed(q, j, k)
           \/ err /\ ~LastTry(ev) /\ j = ev.id /\ ev.tries >= k
<1> DEFINE rest == IF q # <<>> /\ Head(q) = ev THEN Tail(q) ELSE q
           again == [ev EXCEPT !.tries = @ + 1]
<1>1. rest \in Seq(Event) /\ \A n \in DOMAIN rest : \E m \in DOMAIN q : rest[n] = q[m]
  <2>1. CASE q # <<>> /\ Head(q) = ev
    <3>1. /\ Len(q) \in Nat /\ DOMAIN q = 1 .. Len(q)
          /\ Tail(q) \in Seq(Event) /\ Len(Tail(q)) = Len(q) - 1
          /\ \A n \in 1 .. Len(Tail(q)) : Tail(q)[n] = q[n + 1]
      BY <2>1, HeadTailProperties, LenProperties
    <3>2. DOMAIN Tail(q) = 1 .. Len(q) - 1
      BY <3>1, LenProperties
    <3> QED BY <2>1, <3>1, <3>2
  <2>2. CASE ~(q # <<>> /\ Head(q) = ev)
    BY <2>2
  <2> QED BY <2>1, <2>2
<1>2. Settled(q, ev, err) = IF err /\ ~LastTry(ev) THEN Append(rest, again) ELSE rest
  BY DEF Settled
<1> HIDE DEF rest
<1>3. CASE err /\ ~LastTry(ev)
  <2>1. /\ ev.id \in Ids /\ ev.tries \in 0 .. MaxRetries - 1 /\ MaxRetries \in Nat
        /\ again.id = ev.id /\ again.tries = ev.tries + 1
    BY P2PAssumption DEF Event
  <2> DEFINE S == Event \cup {again}
  <2>2. rest \in Seq(S) /\ again \in S
    BY <1>1, SeqDef
  <2> HIDE DEF S, again
  <2>3. Append(rest, again) \in Seq(S) /\ Len(Append(rest, again)) = Len(rest) + 1
    BY <2>2, AppendProperties
  <2>4. /\ DOMAIN Append(rest, again) = 1 .. Len(rest) + 1 /\ Len(rest) \in Nat
        /\ DOMAIN rest = 1 .. Len(rest)
        /\ Append(rest, again)[Len(rest) + 1] = again
        /\ \A n \in 1 .. Len(rest) : Append(rest, again)[n] = rest[n]
    BY <2>2, <2>3, AppendProperties, LenProperties
  <2>5. PICK n \in DOMAIN Append(rest, again) :
          Append(rest, again)[n].id = j /\ Append(rest, again)[n].tries > k
    BY <1>2, <1>3 DEF HasFailed
  <2>6. CASE n = Len(rest) + 1
    BY <1>3, <2>1, <2>4, <2>5, <2>6
  <2>7. CASE n \in DOMAIN rest
    BY <1>1, <2>4, <2>5, <2>7 DEF HasFailed
  <2> QED BY <2>4, <2>5, <2>6, <2>7
<1>4. CASE ~(err /\ ~LastTry(ev))
  BY <1>1, <1>2, <1>4 DEF HasFailed
<1> QED BY <1>3, <1>4

LEMMA ConcatFailed ==
    ASSUME NEW q \in Seq(Event), NEW r \in Seq(Event), NEW j, NEW k, HasFailed(q \o r, j, k)
    PROVE  HasFailed(q, j, k) \/ HasFailed(r, j, k)
<1>1. /\ Len(q) \in Nat /\ Len(r) \in Nat /\ DOMAIN q = 1 .. Len(q) /\ DOMAIN r = 1 .. Len(r)
      /\ DOMAIN (q \o r) = 1 .. Len(q) + Len(r)
      /\ \A n \in 1 .. Len(q) + Len(r) :
            (q \o r)[n] = IF n <= Len(q) THEN q[n] ELSE r[n - Len(q)]
  BY ConcatProperties, LenProperties
<1>2. PICK n \in 1 .. Len(q) + Len(r) : (q \o r)[n].id = j /\ (q \o r)[n].tries > k
  BY <1>1 DEF HasFailed
<1>3. CASE n <= Len(q)
  BY <1>1, <1>2, <1>3 DEF HasFailed
<1>4. CASE ~(n <= Len(q))
  <2>1. n - Len(q) \in DOMAIN r /\ (q \o r)[n] = r[n - Len(q)]
    BY <1>1, <1>4
  <2> QED BY <1>2, <2>1 DEF HasFailed
<1> QED BY <1>3, <1>4

\* What the feed remembers is about changes emitted, so it is finite.
LEMMA FailedFinite ==
    ASSUME TypeInv
    PROVE  IsFiniteSet(FailedPosts) /\ Cardinality(FailedPosts) \in Nat
<1>1. Ids = 1 .. Len(log) /\ Len(log) \in Nat
  BY HistoryGrows DEF TypeInv
<1>2. IsFiniteSet(Ids) /\ IsFiniteSet(Peers) /\ IsFiniteSet(Attempts)
  BY <1>1, P2PAssumption, FS_Interval DEF Attempts
<1>3. IsFiniteSet(Peers \X Ids)
  BY <1>2, FS_Product
<1>4. IsFiniteSet((Peers \X Ids) \X Attempts)
  BY <1>2, <1>3, FS_Product
<1>5. FailedPosts \subseteq (Peers \X Ids) \X Attempts
  BY DEF FailedPosts
<1> QED BY <1>4, <1>5, FS_Subset, FS_CardinalityType

LEMMA TriedType ==
    ASSUME TypeInv, NEW d \in Peers, NEW i, NEW k, Tried(d, i, k)
    PROVE  i \in Ids
<1> USE DEF TypeInv
<1>1. ASSUME NEW q \in Seq(Event), HasFailed(q, i, k) PROVE i \in Ids
  <2>1. \A n \in DOMAIN q : q[n] \in Event
    BY LenProperties, ElementOfSeq
  <2> QED BY <1>1, <2>1 DEF HasFailed, Event
<1>2. CASE i \in dropped[d]
  BY <1>2 DEF TypeOK
<1>3. CASE HasFailed(queue[d], i, k) \/ HasFailed(disk[d], i, k)
  BY <1>1, <1>3 DEF TypeOK
<1>4. CASE HasFailed(load.buf, i, k)
  BY <1>1, <1>4 DEF TypeOK
<1>5. CASE \E g \in Workers : InFlight(worker[g], d, i, k)
  BY <1>5 DEF InFlight, WorkerInv, Event
<1> QED BY <1>2, <1>3, <1>4, <1>5 DEF Tried

\* A step after which the feed remembers no new failure keeps the count.
LEMMA NothingNew ==
    ASSUME TypeInv, TypeInv', CountInv, faults'.post = faults.post,
           \A d \in Peers, i \in Ids', k \in Attempts : Tried(d, i, k)' => Tried(d, i, k)
    PROVE  CountInv'
<1>1. FailedPosts' \subseteq FailedPosts
  <2> SUFFICES ASSUME NEW d \in Peers, NEW i \in Ids', NEW k \in Attempts, Tried(d, i, k)'
               PROVE  i \in Ids /\ Tried(d, i, k)
    BY DEF FailedPosts
  <2>1. Tried(d, i, k)
    OBVIOUS
  <2> QED BY <2>1, TriedType
<1>2. Cardinality(FailedPosts') <= Cardinality(FailedPosts)
  BY <1>1, FailedFinite, FS_Subset
<1>3. Cardinality(FailedPosts') \in Nat /\ Cardinality(FailedPosts) \in Nat
  BY <1>1, FailedFinite, FS_Subset, FS_CardinalityType
<1>4. faults.post \in Nat
  BY DEF TypeInv, TypeOK
<1> QED BY <1>2, <1>3, <1>4 DEF CountInv

\* A worker that starts has no event.
LEMMA TriggerNoFlight ==
    ASSUME TypeInv, NEW d \in Peers, Trigger(d), NEW g \in Workers, NEW e \in Peers, NEW i, NEW k,
           InFlight(worker'[g], e, i, k)
    PROVE  InFlight(worker[g], e, i, k)
<1>1. worker \in [Workers -> WorkerType]
  BY DEF TypeInv, TypeOK, WorkerType
<1>2. CASE worker' = worker
  BY <1>2
<1>3. ASSUME NEW h \in Workers,
             worker' = [worker EXCEPT ![h] = [Idle EXCEPT !.pc = "peek", !.dst = d]]
      PROVE  InFlight(worker[g], e, i, k)
  <2>1. worker'[h].pc = "peek" /\ \A f \in Workers \ {h} : worker'[f] = worker[f]
    BY <1>1, <1>3 DEF Idle
  <2> QED BY <2>1 DEF InFlight
<1> QED BY <1>2, <1>3 DEF Trigger, drains

\* The file written or kept remembers what the queue or the file did.
LEMMA PersistFailed ==
    ASSUME TypeInv, NEW d \in Peers, NEW q, Persist(d, q), NEW e \in Peers, NEW i, NEW k,
           HasFailed(disk'[e], i, k)
    PROVE  HasFailed(disk[e], i, k) \/ (e = d /\ HasFailed(q, i, k))
<1>1. disk'[d] \in {q, disk[d]} /\ \A f \in Peers \ {d} : disk'[f] = disk[f]
  BY PersistedIds
<1> QED BY <1>1

LEMMA PersistFaults ==
    ASSUME TypeInv, NEW d \in Peers, NEW q, Persist(d, q)
    PROVE  faults'.post = faults.post
BY DEF Persist, TypeInv, TypeOK

\* Only a post that fails adds to what the feed remembers.
LEMMA CountOthers ==
    ASSUME TypeInv, TypeInv', CountInv, [Next]_vars, \A g \in Workers : ~Post(g)
    PROVE  CountInv'
<1> USE DEF TypeInv
<1>1. /\ queue \in [Peers -> Seq(Event)] /\ disk \in [Peers -> Seq(Event)]
      /\ load \in [todo : SUBSET Peers, cur : Peers \cup {NoPeer}, buf : Seq(Event)]
      /\ worker \in [Workers -> WorkerType] /\ dropped \in [Peers -> SUBSET Ids]
      /\ push \in [id : Ids \cup {0}, todo : SUBSET Peers, trig : Peers \cup {NoPeer}]
      /\ faults \in FaultType /\ Attempts \subseteq Nat
  <2>1. Attempts \subseteq Nat
    BY P2PAssumption DEF Attempts
  <2> QED BY <2>1 DEF TypeOK, WorkerType, FaultType
<1>2. ASSUME UNCHANGED <<queue, disk, load, dropped>>, faults'.post = faults.post,
             \A g \in Workers, d \in Peers, i \in Ids', k \in Attempts :
                InFlight(worker'[g], d, i, k) => InFlight(worker[g], d, i, k)
      PROVE  CountInv'
  <2>1. \A d \in Peers, i \in Ids', k \in Attempts : Tried(d, i, k)' => Tried(d, i, k)
    BY <1>2 DEF Tried
  <2> QED BY <1>2, <2>1, NothingNew
<1>3. CASE Writer \/ TakeSink \/ ListFiles \/ StartLoop \/ StopSink \/ StopLoop \/ Boot
  <2>1. UNCHANGED <<queue, disk, worker, dropped>> /\ faults'.post = faults.post
    BY <1>1, <1>3 DEF Writer, Write, Commit, Rollback, TakeSink, ListFiles, StartLoop, StopSink,
       StopLoop, Boot, FaultType
  <2>2. CASE ListFiles
    <3>1. load'.cur = NoPeer /\ NoPeer \notin Peers
      BY <2>2, P2PAssumption DEF ListFiles, NoLoad
    <3>2. \A d \in Peers, i \in Ids', k \in Attempts : Tried(d, i, k)' => Tried(d, i, k)
      BY <2>1, <3>1 DEF Tried
    <3> QED BY <2>1, <3>2, NothingNew
  <2>3. CASE load' = load
    BY <1>2, <2>1, <2>3
  <2> QED
    BY <1>3, <2>2, <2>3 DEF Writer, Write, Commit, Rollback, TakeSink, StartLoop, StopSink,
       StopLoop, Boot
<1>4. CASE EnqueueTrigger
  <2>1. push.trig \in Peers /\ Trigger(push.trig)
    BY <1>1, <1>4 DEF EnqueueTrigger
  <2> QED BY <1>2, <1>4, <2>1, TriggerNoFlight DEF EnqueueTrigger
<1>5. ASSUME NEW d \in Peers, Tick(d) PROVE CountInv'
  BY <1>2, <1>5, TriggerNoFlight DEF Tick
<1>6. ASSUME NEW d \in Peers, Enqueue(d) PROVE CountInv'
  <2>1. /\ push.id \in Ids
        /\ queue' = [queue EXCEPT ![d] = Enqueued(queue[d], push.id)]
        /\ Persist(d, queue'[d])
        /\ UNCHANGED <<load, worker, dropped>>
    BY <1>6 DEF Enqueue, PushInv, NoPush
  <2>2. ASSUME NEW e \in Peers, NEW i \in Ids', NEW k \in Attempts, HasFailed(queue'[e], i, k)
        PROVE  HasFailed(queue[e], i, k)
    <3>1. CASE e = d
      BY <1>1, <2>1, <2>2, <3>1, EnqueuedFailed
    <3>2. CASE e # d
      BY <1>1, <2>1, <2>2, <3>2
    <3> QED BY <3>1, <3>2
  <2>3. ASSUME NEW e \in Peers, NEW i \in Ids', NEW k \in Attempts, HasFailed(disk'[e], i, k)
        PROVE  HasFailed(disk[e], i, k) \/ HasFailed(queue'[e], i, k)
    BY <2>1, <2>3, PersistFailed
  <2>4. \A e \in Peers, i \in Ids', k \in Attempts : Tried(e, i, k)' => Tried(e, i, k)
    BY <2>1, <2>2, <2>3 DEF Tried
  <2> QED BY <2>1, <2>4, NothingNew, PersistFaults
<1>7. ASSUME NEW g \in Workers, Peek(g) PROVE CountInv'
  <2> DEFINE d == worker[g].dst
  <2>1. /\ worker[g].pc = "peek" /\ d \in Peers /\ queue[d] \in Seq(Event)
        /\ UNCHANGED <<queue, disk, load, dropped, faults>>
        /\ \A h \in Workers \ {g} : worker'[h] = worker[h]
        /\ worker'[g] = IF queue[d] = <<>> THEN [worker[g] EXCEPT !.pc = "exit"]
                                      ELSE [worker[g] EXCEPT !.pc = "post", !.ev = Head(queue[d])]
    BY <1>1, <1>7 DEF Peek, WorkerInv
  <2>2. ASSUME NEW e \in Peers, NEW i \in Ids', NEW k \in Attempts, InFlight(worker'[g], e, i, k)
        PROVE  HasFailed(queue[e], i, k)
    <3>1. CASE queue[d] = <<>>
      <4>1. worker'[g].pc = "exit"
        BY <1>1, <2>1, <3>1 DEF WorkerType
      <4> QED BY <2>2, <4>1 DEF InFlight
    <3>2. CASE queue[d] # <<>>
      <4>1. worker'[g].pc = "post" /\ worker'[g].dst = d /\ worker'[g].ev = Head(queue[d])
        BY <1>1, <2>1, <3>2 DEF WorkerType
      <4>2. 1 \in DOMAIN queue[d] /\ queue[d][1] = Head(queue[d])
        <5>1. Len(queue[d]) \in Nat \ {0} /\ DOMAIN queue[d] = 1 .. Len(queue[d])
          BY <2>1, <3>2, LenProperties, EmptySeq
        <5> QED BY <2>1, <3>2, <5>1, HeadTailProperties
      <4>3. d = e /\ queue[d][1].id = i /\ queue[d][1].tries > k
        BY <2>2, <4>1, <4>2 DEF InFlight
      <4> QED BY <4>2, <4>3 DEF HasFailed
    <3> QED BY <3>1, <3>2
  <2> HIDE DEF d
  <2>3. \A e \in Peers, i \in Ids', k \in Attempts : Tried(e, i, k)' => Tried(e, i, k)
    BY <2>1, <2>2 DEF Tried
  <2> QED BY <2>1, <2>3, NothingNew
<1>8. ASSUME NEW g \in Workers, Settle(g) PROVE CountInv'
  <2> DEFINE d == worker[g].dst
             ev == worker[g].ev
             err == worker[g].err
  <2>1. /\ worker[g].pc = "settle" /\ d \in Peers /\ ev \in Event /\ err \in BOOLEAN
        /\ queue' = [queue EXCEPT ![d] = Settled(queue[d], ev, err)]
        /\ dropped' = IF err /\ LastTry(ev) THEN [dropped EXCEPT ![d] = @ \cup {ev.id}] ELSE dropped
        /\ load' = load
        /\ \A h \in Workers \ {g} : worker'[h] = worker[h]
    BY <1>1, <1>8 DEF Settle, WorkerInv, WorkerType
  <2>2. Persist(d, queue'[d])
    BY <1>8 DEF Settle
  <2>3. worker'[g].pc \in {"exit", "peek"}
    BY <1>1, <1>8 DEF Settle, WorkerType
  <2> HIDE DEF d, ev, err
  <2>4. ASSUME NEW k \in Attempts, err, ev.tries >= k PROVE InFlight(worker[g], d, ev.id, k)
    <3>1. ev.tries \in Nat /\ k \in Nat
      BY <1>1, <2>1 DEF Event
    <3>2. ev.tries > k \/ ev.tries = k
      BY <2>4, <3>1
    <3> QED BY <2>1, <2>4, <3>2 DEF InFlight, d, ev, err
  <2>5. ASSUME NEW e \in Peers, NEW i \in Ids', NEW k \in Attempts, HasFailed(queue'[e], i, k)
        PROVE  HasFailed(queue[e], i, k) \/ InFlight(worker[g], e, i, k)
    <3>1. CASE e = d
      <4>1. queue'[d] = Settled(queue[d], ev, err) /\ queue[d] \in Seq(Event) /\ k \in Nat
        BY <1>1, <2>1
      <4>2. HasFailed(queue[d], i, k) \/ (err /\ i = ev.id /\ ev.tries >= k)
        BY <2>1, <2>5, <3>1, <4>1, SettledFailed
      <4> QED BY <2>4, <3>1, <4>2
    <3>2. CASE e # d
      BY <1>1, <2>1, <2>5, <3>2
    <3> QED BY <3>1, <3>2
  <2>6. ASSUME NEW e \in Peers, NEW i \in Ids', NEW k \in Attempts, HasFailed(disk'[e], i, k)
        PROVE  HasFailed(disk[e], i, k) \/ HasFailed(queue'[e], i, k)
    BY <2>1, <2>2, <2>6, PersistFailed
  <2>7. ASSUME NEW e \in Peers, NEW i \in Ids', NEW k \in Attempts, i \in dropped'[e]
        PROVE  i \in dropped[e] \/ InFlight(worker[g], e, i, k)
    <3>1. CASE i \notin dropped[e]
      <4>1. err /\ LastTry(ev) /\ e = d /\ i = ev.id
        BY <1>1, <2>1, <2>7, <3>1
      <4>2. ev.tries >= k
        <5>1. ev.tries \in Nat /\ k \in Nat /\ MaxRetries \in Nat /\ k <= MaxRetries - 1
          BY <2>1, P2PAssumption DEF Event, Attempts
        <5> QED BY <4>1, <5>1 DEF LastTry
      <4> QED BY <2>4, <4>1, <4>2
    <3> QED BY <3>1
  <2>8. \A e \in Peers, i \in Ids', k \in Attempts : ~InFlight(worker'[g], e, i, k)
    BY <2>3 DEF InFlight
  <2>9. ASSUME NEW e \in Peers, NEW i \in Ids', NEW k \in Attempts, Tried(e, i, k)'
        PROVE  Tried(e, i, k)
    <3>1. CASE i \in dropped'[e]
      BY <2>7, <3>1 DEF Tried
    <3>2. CASE HasFailed(queue'[e], i, k) \/ HasFailed(disk'[e], i, k)
      BY <2>5, <2>6, <3>2 DEF Tried
    <3>3. CASE \/ load'.cur = e /\ HasFailed(load'.buf, i, k)
               \/ \E h \in Workers : InFlight(worker'[h], e, i, k)
      BY <2>1, <2>8, <3>3 DEF Tried
    <3> QED BY <2>9, <3>1, <3>2, <3>3 DEF Tried
  <2> QED BY <2>1, <2>2, <2>9, NothingNew, PersistFaults
<1>9. ASSUME NEW g \in Workers, Exit(g) PROVE CountInv'
  <2>1. /\ worker'[g].pc = "idle" /\ \A h \in Workers \ {g} : worker'[h] = worker[h]
        /\ UNCHANGED <<queue, disk, load, dropped, faults>>
    BY <1>1, <1>9 DEF Exit, Idle
  <2>2. \A h \in Workers, e \in Peers, i \in Ids', k \in Attempts :
           InFlight(worker'[h], e, i, k) => InFlight(worker[h], e, i, k)
    BY <2>1 DEF InFlight
  <2> QED BY <1>2, <2>1, <2>2
<1>10. ASSUME NEW d \in Peers, ReadFile(d) PROVE CountInv'
  <2>1. /\ load'.cur = d /\ load'.buf = disk[d] /\ UNCHANGED <<queue, disk, worker, dropped, faults>>
    BY <1>10 DEF ReadFile
  <2>2. \A e \in Peers, i \in Ids', k \in Attempts : Tried(e, i, k)' => Tried(e, i, k)
    BY <2>1 DEF Tried
  <2> QED BY <2>1, <2>2, NothingNew
<1>11. CASE MergeFile
  <2>1. /\ load.cur \in Peers /\ load.buf \in Seq(Event) /\ queue[load.cur] \in Seq(Event)
        /\ queue' = [queue EXCEPT ![load.cur] = load.buf \o queue[load.cur]]
        /\ load'.cur = NoPeer
        /\ UNCHANGED <<disk, worker, dropped, faults>>
    BY <1>1, <1>11 DEF MergeFile
  <2>2. NoPeer \notin Peers
    BY P2PAssumption
  <2>3. ASSUME NEW e \in Peers, NEW i \in Ids', NEW k \in Attempts, HasFailed(queue'[e], i, k)
        PROVE  HasFailed(queue[e], i, k) \/ (load.cur = e /\ HasFailed(load.buf, i, k))
    <3>1. CASE e = load.cur
      BY <1>1, <2>1, <2>3, <3>1, ConcatFailed
    <3>2. CASE e # load.cur
      BY <1>1, <2>1, <2>3, <3>2
    <3> QED BY <3>1, <3>2
  <2>4. \A e \in Peers, i \in Ids', k \in Attempts : Tried(e, i, k)' => Tried(e, i, k)
    BY <2>1, <2>2, <2>3 DEF Tried
  <2> QED BY <2>1, <2>4, NothingNew
<1>12. CASE StopProcess \/ Crash
  <2>1. LoseMemory /\ faults'.post = faults.post
    BY <1>1, <1>12 DEF StopProcess, Crash, FaultType
  <2>2. /\ \A d \in Peers : queue'[d] = <<>>
        /\ load'.cur = NoPeer /\ NoPeer \notin Peers
        /\ \A g \in Workers : worker'[g].pc = "idle"
        /\ UNCHANGED <<disk, dropped>>
    BY <2>1, P2PAssumption DEF LoseMemory, NoLoad, Idle
  <2>3. \A d \in Peers, i \in Ids', k \in Attempts : Tried(d, i, k)' => Tried(d, i, k)
    BY <2>2 DEF Tried, HasFailed, InFlight
  <2> QED BY <2>1, <2>3, NothingNew
<1>13. CASE UNCHANGED vars
  BY <1>2, <1>13 DEF vars
<1> QED
  BY <1>3, <1>4, <1>5, <1>6, <1>7, <1>8, <1>9, <1>10, <1>11, <1>12, <1>13
  DEF Next, SinkWorker, Drain, Loader, Stopper

\* A post that fails adds one failure to what the feed remembers, and to the count.
LEMMA CountPost ==
    ASSUME TypeInv, TypeInv', CountInv, NEW g \in Workers, Post(g)
    PROVE  CountInv'
<1> DEFINE d == worker[g].dst
           ev == worker[g].ev
           p == <<<<d, ev.id>>, ev.tries>>
<1>1. /\ worker \in [Workers -> WorkerType] /\ faults \in FaultType /\ faults.post \in Nat
      /\ d \in Peers /\ ev \in Event /\ worker[g].pc = "post"
  BY DEF TypeInv, TypeOK, WorkerType, FaultType, WorkerInv, Post
<1>2. PICK err \in BOOLEAN :
        /\ worker' = [worker EXCEPT ![g].pc = "settle", ![g].err = err]
        /\ IF err THEN faults' = [faults EXCEPT !.post = @ + 1] ELSE faults' = faults
  BY DEF Post
<1>3. /\ worker'[g].pc = "settle" /\ worker'[g].dst = d /\ worker'[g].ev = ev /\ worker'[g].err = err
      /\ \A h \in Workers \ {g} : worker'[h] = worker[h]
      /\ UNCHANGED <<queue, disk, load, dropped, log>>
  BY <1>1, <1>2 DEF Post, WorkerType
<1>4. faults'.post = IF err THEN faults.post + 1 ELSE faults.post
  BY <1>1, <1>2 DEF FaultType
<1>5. ASSUME NEW e \in Peers, NEW i \in Ids', NEW k \in Attempts, Tried(e, i, k)'
      PROVE  Tried(e, i, k) \/ (err /\ <<<<e, i>>, k>> = p)
  <2>1. CASE InFlight(worker'[g], e, i, k)
    <3>1. e = d /\ i = ev.id /\ (ev.tries > k \/ (err /\ ev.tries = k))
      BY <1>3, <2>1 DEF InFlight
    <3>2. CASE ev.tries > k
      BY <1>1, <3>1, <3>2 DEF InFlight, Tried
    <3> QED BY <3>1, <3>2
  <2>2. CASE ~InFlight(worker'[g], e, i, k)
    BY <1>3, <1>5, <2>2 DEF Tried
  <2> QED BY <2>1, <2>2
<1> HIDE DEF p
<1>6. CASE ~err
  BY <1>4, <1>5, <1>6, NothingNew
<1>7. CASE err
  <2>1. FailedPosts' \subseteq FailedPosts \cup {p}
    BY <1>3, <1>5, HistoryGrows DEF FailedPosts, TypeInv
  <2>2. IsFiniteSet(FailedPosts \cup {p})
        /\ Cardinality(FailedPosts \cup {p}) <= Cardinality(FailedPosts) + 1
    BY FailedFinite, FS_AddElement
  <2>3. IsFiniteSet(FailedPosts') /\ Cardinality(FailedPosts') <= Cardinality(FailedPosts \cup {p})
    BY <2>1, <2>2, FS_Subset
  <2>4. /\ Cardinality(FailedPosts) \in Nat /\ Cardinality(FailedPosts \cup {p}) \in Nat
        /\ Cardinality(FailedPosts') \in Nat
    BY <2>2, <2>3, FailedFinite, FS_CardinalityType
  <2> QED BY <1>1, <1>4, <1>7, <2>2, <2>3, <2>4 DEF CountInv
<1> QED BY <1>6, <1>7

\* A change given up accounts for MaxRetries of the failed posts.
LEMMA CountGivesUp == TypeInv /\ CountInv => GivenUpOnlyAfterRetries
<1> SUFFICES ASSUME TypeInv, CountInv PROVE GivenUpOnlyAfterRetries
  OBVIOUS
<1> DEFINE GivenUp == {c \in Peers \X Ids : c[2] \in dropped[c[1]]}
<1>1. GivenUp \X Attempts \subseteq FailedPosts
  BY DEF FailedPosts, Tried
<1>2. IsFiniteSet(GivenUp)
  <2>1. Ids = 1 .. Len(log) /\ Len(log) \in Nat
    BY HistoryGrows DEF TypeInv
  <2>2. IsFiniteSet(Ids) /\ IsFiniteSet(Peers)
    BY <2>1, P2PAssumption, FS_Interval
  <2>3. IsFiniteSet(Peers \X Ids)
    BY <2>2, FS_Product
  <2> QED BY <2>3, FS_Subset
<1>3. MaxRetries \in Nat /\ IsFiniteSet(Attempts) /\ Cardinality(Attempts) = MaxRetries
  <2>1. MaxRetries \in Nat \ {0} /\ 0 \in Int /\ MaxRetries - 1 \in Int
    BY P2PAssumption
  <2>2. IsFiniteSet(0 .. MaxRetries - 1) /\ Cardinality(0 .. MaxRetries - 1) = MaxRetries - 1 - 0 + 1
    BY <2>1, FS_Interval
  <2> QED BY <2>1, <2>2 DEF Attempts
<1> HIDE DEF GivenUp
<1>4. IsFiniteSet(GivenUp \X Attempts)
      /\ Cardinality(GivenUp \X Attempts) = Cardinality(GivenUp) * MaxRetries
  BY <1>2, <1>3, FS_Product
<1>5. Cardinality(GivenUp \X Attempts) <= Cardinality(FailedPosts)
  BY <1>1, FailedFinite, FS_Subset
<1>6. Cardinality(GivenUp) \in Nat /\ Cardinality(GivenUp \X Attempts) \in Nat
  BY <1>2, <1>4, FS_CardinalityType
<1>7. faults.post \in Nat /\ Cardinality(FailedPosts) \in Nat
  BY FailedFinite DEF TypeInv, TypeOK
<1>8. Cardinality(GivenUp \X Attempts) <= faults.post
  BY <1>5, <1>6, <1>7 DEF CountInv
<1>9. Cardinality(GivenUp) * MaxRetries <= faults.post
  BY <1>4, <1>8
<1> QED BY <1>9 DEF GivenUpOnlyAfterRetries, GivenUp

\* The attempts of a change are counted with its event, in memory and in the
\* file: whatever restarts, duplicates or supersedes it, a change is given up
\* only after MaxRetries posts of its own have failed.
THEOREM GivenUpLate == Spec => []GivenUpOnlyAfterRetries
<1>1. Init => CountInv
  <2> SUFFICES ASSUME Init PROVE CountInv
    OBVIOUS
  <2>1. FailedPosts = {}
    BY DEF Init, FailedPosts, Ids
  <2>2. faults.post = 0
    BY DEF Init
  <2> QED BY <2>1, <2>2, FS_EmptySet DEF CountInv
<1>2. ASSUME TypeInv, TypeInv', CountInv, [Next]_vars PROVE CountInv'
  BY <1>2, CountOthers, CountPost
<1>3. TypeInv /\ CountInv => GivenUpOnlyAfterRetries
  BY CountGivesUp
<1> QED BY <1>1, <1>2, <1>3, TypeInit, TypeStep, PTL DEF Spec
=============================================================================
