------------------------------- MODULE Outbox -------------------------------
(***************************************************************************)
(* The promise of a change feed with superseding updates: at-least-once    *)
(* delivery to every peer.  A change accepted for a peer is owed to it     *)
(* until the peer has applied it, the sender has given it up, or a later   *)
(* update of the same row is owed instead.  Nothing else ends the debt, in *)
(* particular not a crash of the sender.                                   *)
(***************************************************************************)
EXTENDS Naturals, Sequences

CONSTANTS Peers, Rows

VARIABLES
    log,       \* every change: its row and action
    accepted,  \* per peer: the changes accepted
    owed,      \* per peer: the changes still owed
    sent,      \* per peer: the changes applied
    dropped    \* per peer: the changes given up

feed == <<log, accepted, owed, sent, dropped>>

\* The updates of row k among the changes in S.
UpdatesOf(S, k) == {i \in S : log[i].action = "update" /\ log[i].row = k}

Init ==
    /\ log = <<>>
    /\ accepted = [d \in Peers |-> {}]
    /\ owed = [d \in Peers |-> {}]
    /\ sent = [d \in Peers |-> {}]
    /\ dropped = [d \in Peers |-> {}]

Emit ==
    /\ \E k \in Rows, a \in {"create", "update", "delete"} :
          log' = Append(log, [row |-> k, action |-> a])
    /\ UNCHANGED <<accepted, owed, sent, dropped>>

\* Changes are accepted in the order they were emitted.
Accept(d, i) ==
    /\ \A j \in accepted[d] : j < i
    /\ accepted' = [accepted EXCEPT ![d] = @ \cup {i}]
    /\ owed' = [owed EXCEPT ![d] =
                  {i} \cup (IF log[i].action = "update"
                           THEN @ \ UpdatesOf(@, log[i].row) ELSE @)]
    /\ UNCHANGED <<log, sent, dropped>>

Deliver(d, i) ==
    /\ i \in accepted[d]
    /\ sent' = [sent EXCEPT ![d] = @ \cup {i}]
    /\ UNCHANGED <<log, accepted, owed, dropped>>

Acknowledge(d, i) ==
    /\ i \in owed[d] \cap sent[d]
    /\ owed' = [owed EXCEPT ![d] = @ \ {i}]
    /\ UNCHANGED <<log, accepted, sent, dropped>>

\* A superseded update that failed in flight is owed again.
OweAgain(d, i) ==
    /\ i \in accepted[d]
    /\ log[i].action = "update"
    /\ owed' = [owed EXCEPT ![d] = @ \cup {i}]
    /\ UNCHANGED <<log, accepted, sent, dropped>>

GiveUp(d, i) ==
    /\ i \in accepted[d]
    /\ owed' = [owed EXCEPT ![d] = @ \ {i}]
    /\ dropped' = [dropped EXCEPT ![d] = @ \cup {i}]
    /\ UNCHANGED <<log, accepted, sent>>

Next ==
    \/ Emit
    \/ \E d \in Peers, i \in DOMAIN log :
         \/ Accept(d, i)
         \/ Deliver(d, i)
         \/ Acknowledge(d, i)
         \/ OweAgain(d, i)
         \/ GiveUp(d, i)

Spec == Init /\ [][Next]_feed
=============================================================================
