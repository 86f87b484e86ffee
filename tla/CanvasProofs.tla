---------------------------- MODULE CanvasProofs ----------------------------
(***************************************************************************)
(* Proofs about Canvas, for any kinds, ports and first graph.              *)
(*                                                                         *)
(* The lemmas come in the order of the model: recursion over Nat and what  *)
(* Downstream, DeriveInputs and Without compute; what each edit makes of a *)
(* canvas (Better, Imported, Pasted); Pick and the layers; then the        *)
(* inductive invariant CanvasInv with one lemma for each action.           *)
(***************************************************************************)
EXTENDS Canvas, FiniteSetTheorems, SequenceTheorems, WellFoundedInduction, TLAPS

-----------------------------------------------------------------------------
(* Numbers and recursion.  Induction is over sets of numbers. *)

LEMMA Least ==
    ASSUME NEW s, s \subseteq Nat, s # {}
    PROVE  \E g \in s : \A h \in s : g <= h
<1> DEFINE R == {p \in Nat \X Nat : p[1] < p[2]}
<1>1. IsWellFoundedOn(R, Nat)
  BY NatLessThanWellFounded DEF OpToRel
<1>2. \A x, y \in Nat : ~(<<y, x>> \in R) => x <= y
  OBVIOUS
<1> HIDE DEF R
<1>3. \E x \in s : \A y \in s : ~(<<y, x>> \in R)
  BY <1>1, WFMin
<1> QED
  BY <1>2, <1>3

LEMMA ByNumbers ==
    ASSUME NEW P, P \subseteq Nat, 0 \in P, \A n \in P : n + 1 \in P
    PROVE  \A n \in Nat : n \in P
<1> SUFFICES ASSUME Nat \ P # {} PROVE FALSE
  OBVIOUS
<1>1. PICK g \in Nat \ P : \A h \in Nat \ P : g <= h
  <2> DEFINE s == Nat \ P
  <2>1. s \subseteq Nat /\ s # {}
    OBVIOUS
  <2> HIDE DEF s
  <2>2. \E g \in s : \A h \in s : g <= h
    BY <2>1, Least
  <2> QED
    BY <2>2 DEF s
<1>2. g # 0 /\ g - 1 \in Nat /\ ~(g <= g - 1)
  BY <1>1
<1>3. g - 1 \in P /\ g = (g - 1) + 1
  BY <1>1, <1>2
<1> QED
  BY <1>1, <1>3

(* What f[n \in Nat] == IF n = 0 THEN a ELSE D[<<f[n - 1], n>>] defines. *)
Recursion(f, S, a, D) ==
    f = [n \in Nat |-> IF n = 0 THEN a ELSE D[<<f[n - 1], n>>]]

LEMMA RecursionExists ==
    ASSUME NEW S, NEW a \in S, NEW D \in [S \X Nat -> S]
    PROVE  \E f \in [Nat -> S] : Recursion(f, S, a, D)
<1> DEFINE Upto(g, n) == /\ g \in [0..n -> S]
                         /\ g[0] = a
                         /\ \A k \in 1..n : g[k] = D[<<g[k - 1], k>>]
           P == {n \in Nat : \E g \in [0..n -> S] : Upto(g, n)}
<1>1. \A n \in Nat : n \in P
  <2>1. 0 \in P
    <3> DEFINE g == [k \in 0..0 |-> a]
    <3>1. Upto(g, 0)
      OBVIOUS
    <3> QED
      BY <3>1
  <2>2. ASSUME NEW n \in P PROVE n + 1 \in P
    <3>1. n \in Nat
      OBVIOUS
    <3>2. PICK g \in [0..n -> S] : Upto(g, n)
      OBVIOUS
    <3> DEFINE h == [k \in 0..(n + 1) |-> IF k = n + 1 THEN D[<<g[n], n + 1>>] ELSE g[k]]
    <3>3. D[<<g[n], n + 1>>] \in S
      BY <3>1, <3>2
    <3>4. h \in [0..(n + 1) -> S]
      BY <3>1, <3>2, <3>3
    <3>5. h[0] = a
      BY <3>1, <3>2
    <3>6. ASSUME NEW k \in 1..(n + 1) PROVE h[k] = D[<<h[k - 1], k>>]
      <4>1. k \in 0..(n + 1) /\ k - 1 \in 0..n /\ k - 1 \in 0..(n + 1) /\ k - 1 # n + 1
        BY <3>1
      <4>2. h[k - 1] = g[k - 1]
        BY <4>1
      <4>3. CASE k = n + 1
        BY <3>1, <4>1, <4>2, <4>3
      <4>4. CASE k # n + 1
        <5>1. k \in 1..n /\ h[k] = g[k]
          BY <3>1, <4>1, <4>4
        <5> QED
          BY <3>2, <4>2, <5>1
      <4> QED
        BY <4>3, <4>4
    <3> HIDE DEF h
    <3>7. Upto(h, n + 1)
      BY <3>4, <3>5, <3>6
    <3> QED
      BY <3>1, <3>4, <3>7
  <2> HIDE DEF P
  <2>3. P \subseteq Nat
    BY DEF P
  <2> QED
    BY <2>1, <2>2, <2>3, ByNumbers
<1>2. ASSUME NEW n \in Nat, NEW g, Upto(g, n), NEW m \in Nat, NEW h, Upto(h, m), n <= m
      PROVE  \A k \in 0..n : g[k] = h[k]
  <2> DEFINE Q == {k \in Nat : k <= n => g[k] = h[k]}
  <2>1. 0 \in Q
    BY <1>2
  <2>2. ASSUME NEW k \in Q PROVE k + 1 \in Q
    <3>1. CASE k + 1 <= n
      <4>1. k <= n /\ k + 1 \in 1..n /\ k + 1 \in 1..m /\ (k + 1) - 1 = k
        BY <1>2, <3>1
      <4>2. g[k] = h[k]
        BY <4>1
      <4>3. g[k + 1] = D[<<g[k], k + 1>>]
        BY <1>2, <4>1
      <4>4. h[k + 1] = D[<<h[k], k + 1>>]
        BY <1>2, <4>1
      <4> QED
        BY <4>2, <4>3, <4>4
    <3>2. CASE ~(k + 1 <= n)
      BY <3>2
    <3> QED
      BY <3>1, <3>2
  <2> HIDE DEF Q
  <2>3. Q \subseteq Nat
    BY DEF Q
  <2>4. \A k \in Nat : k \in Q
    BY <2>1, <2>2, <2>3, ByNumbers
  <2> QED
    BY <2>4 DEF Q
<1> DEFINE G(n) == CHOOSE g \in [0..n -> S] : Upto(g, n)
<1>3. \A n \in Nat : G(n) \in [0..n -> S] /\ Upto(G(n), n)
  BY <1>1
<1> DEFINE f == [n \in Nat |-> G(n)[n]]
<1> HIDE DEF G, P
<1>4. f \in [Nat -> S]
  BY <1>3
<1>5. f[0] = a
  BY <1>3
<1>6. ASSUME NEW n \in Nat, n # 0 PROVE f[n] = D[<<f[n - 1], n>>]
  <2>1. n - 1 \in Nat /\ n \in 1..n /\ n - 1 <= n /\ n - 1 \in 0..(n - 1)
    BY <1>6
  <2>2. G(n)[n] = D[<<G(n)[n - 1], n>>]
    BY <1>3, <2>1
  <2>3. \A k \in 0..(n - 1) : G(n - 1)[k] = G(n)[k]
    <3>1. Upto(G(n - 1), n - 1) /\ Upto(G(n), n)
      BY <1>3, <2>1
    <3> HIDE DEF Upto
    <3> QED
      BY <1>2, <2>1, <3>1
  <2> QED
    BY <2>1, <2>2, <2>3
<1> HIDE DEF f
<1>7. f = [n \in Nat |-> IF n = 0 THEN a ELSE D[<<f[n - 1], n>>]]
  BY <1>4, <1>5, <1>6
<1> QED
  BY <1>4, <1>7 DEF Recursion


LEMMA MaxIs ==
    ASSUME NEW s, s \subseteq Nat, IsFiniteSet(s), s # {}
    PROVE  Max(s) \in s /\ \A y \in s : y <= Max(s)
<1> DEFINE n == Cardinality(s)
<1>1. n \in Nat /\ ExistsBijection(1..n, s)
  BY FS_CardinalityType
<1> HIDE DEF n
<1>2. PICK f \in [1..n -> s] : \A y \in s : \E j \in 1..n : f[j] = y
  BY <1>1 DEF ExistsBijection, Bijection, Surjection
<1> DEFINE P == {k \in Nat : k <= n => \E b \in Nat : \A j \in 1..k : f[j] <= b}
<1>3. 0 \in P /\ P \subseteq Nat
  OBVIOUS
<1>4. ASSUME NEW k \in P PROVE k + 1 \in P
  <2>1. CASE k + 1 <= n
    <3>1. k \in Nat /\ k <= n /\ k + 1 \in 1..n
      BY <1>1, <2>1
    <3>2. PICK b \in Nat : \A j \in 1..k : f[j] <= b
      BY <3>1
    <3>3. f[k + 1] \in Nat
      BY <1>2, <3>1
    <3> DEFINE c == IF f[k + 1] <= b THEN b ELSE f[k + 1]
    <3>4. c \in Nat /\ b <= c /\ f[k + 1] <= c
      BY <3>3
    <3> HIDE DEF c
    <3>5. ASSUME NEW j \in 1..(k + 1) PROVE f[j] <= c
      <4>1. CASE j = k + 1
        BY <3>4, <4>1
      <4>2. CASE j # k + 1
        <5>1. j \in 1..k /\ j \in 1..n
          BY <1>1, <3>1, <4>2
        <5>2. f[j] \in Nat
          BY <1>2, <5>1
        <5> QED
          BY <3>2, <3>4, <5>1, <5>2
      <4> QED
        BY <4>1, <4>2
    <3> QED
      BY <3>1, <3>4, <3>5
  <2>2. CASE ~(k + 1 <= n)
    BY <1>3, <2>2
  <2> QED
    BY <2>1, <2>2
<1> HIDE DEF P
<1>5. n \in P
  BY <1>1, <1>3, <1>4, ByNumbers
<1>6. PICK b \in Nat : \A j \in 1..n : f[j] <= b
  BY <1>1, <1>5 DEF P
<1> DEFINE U == {u \in Nat : \A y \in s : y <= u}
<1>7. b \in U
  BY <1>2, <1>6
<1>8. PICK u \in U : \A v \in U : u <= v
  <2>1. U \subseteq Nat /\ U # {}
    BY <1>7
  <2> HIDE DEF U
  <2> QED
    BY <2>1, Least
<1>9. u \in s
  <2> SUFFICES ASSUME u \notin s PROVE FALSE
    OBVIOUS
  <2>1. u # 0
    <3>1. PICK y \in s : y <= u
      BY <1>8
    <3>2. y \in Nat
      OBVIOUS
    <3> QED
      BY <3>1, <3>2
  <2>2. u - 1 \in U
    BY <1>8, <2>1
  <2> QED
    BY <1>8, <2>2
<1>10. \E x \in s : \A y \in s : x >= y
  BY <1>8, <1>9
<1>11. Max(s) \in s /\ \A y \in s : Max(s) >= y
  BY <1>10 DEF Max
<1> QED
  BY <1>11

-----------------------------------------------------------------------------
(* Downstream is the least set with the successors of id that the edges do   *)
(* not leave.                                                                *)

LEMMA TargetsFinite ==
    ASSUME NEW edges, IsFiniteSet(edges)
    PROVE  LET targets == {e.target : e \in edges}
           IN  IsFiniteSet(targets) /\ Cardinality(targets) <= Cardinality(edges)
<1> DEFINE targets == {e.target : e \in edges}
           f == [e \in edges |-> e.target]
<1>1. f \in [edges -> targets] /\ \A t \in targets : \E e \in edges : f[e] = t
  OBVIOUS
<1> HIDE DEF f, targets
<1>2. f \in Surjection(edges, targets)
  BY <1>1 DEF Surjection
<1>3. IsFiniteSet(targets) /\ Cardinality(targets) <= Cardinality(edges)
  BY <1>2, FS_Surjection
<1> QED
  BY <1>3 DEF targets

Reach(id, edges) ==
    CHOOSE reach : reach = [n \in Nat |->
        IF n = 0 THEN Successors({id}, edges)
        ELSE reach[n - 1] \cup Successors(reach[n - 1], edges)]

LEMMA ReachIs ==
    ASSUME NEW id, NEW edges
    PROVE  LET f == Reach(id, edges)
           IN  /\ f[0] = Successors({id}, edges)
               /\ \A n \in Nat : /\ f[n] \subseteq {e.target : e \in edges}
                                 /\ f[n + 1] = f[n] \cup Successors(f[n], edges)
<1> DEFINE targets == {e.target : e \in edges}
           S == SUBSET targets
           D == [p \in S \X Nat |-> p[1] \cup Successors(p[1], edges)]
           a == Successors({id}, edges)
<1>1. a \in S /\ \A r \in S : r \cup Successors(r, edges) \in S
  BY DEF Successors
<1>2. D \in [S \X Nat -> S] /\ \A r \in S, n \in Nat : D[<<r, n>>] = r \cup Successors(r, edges)
  BY <1>1
<1> HIDE DEF S, D, a
<1>3. PICK g \in [Nat -> S] : Recursion(g, S, a, D)
  BY <1>1, <1>2, RecursionExists
<1>4. g = [n \in Nat |-> IF n = 0 THEN a ELSE g[n - 1] \cup Successors(g[n - 1], edges)]
  <2>1. \A n \in Nat : n # 0 => D[<<g[n - 1], n>>] = g[n - 1] \cup Successors(g[n - 1], edges)
    BY <1>2, <1>3
  <2> QED
    BY <1>3, <2>1 DEF Recursion
<1> DEFINE f == Reach(id, edges)
<1>5. f = [n \in Nat |-> IF n = 0 THEN a ELSE f[n - 1] \cup Successors(f[n - 1], edges)]
  BY <1>4 DEF Reach, a
<1> HIDE DEF f
<1> DEFINE P == {n \in Nat : f[n] \in S}
<1>6. f[0] = a /\ \A n \in Nat : f[n + 1] = f[n] \cup Successors(f[n], edges)
  <2>1. f[0] = a
    BY <1>5
  <2>2. ASSUME NEW n \in Nat PROVE f[n + 1] = f[n] \cup Successors(f[n], edges)
    <3> DEFINE k == n + 1
    <3>1. k \in Nat /\ k # 0 /\ k - 1 = n
      OBVIOUS
    <3> HIDE DEF k
    <3>2. f[k] = f[k - 1] \cup Successors(f[k - 1], edges)
      BY <1>5, <3>1
    <3>3. f[k] = f[n] \cup Successors(f[n], edges)
      BY <3>1, <3>2
    <3> QED
      BY <3>3 DEF k
  <2> QED
    BY <2>1, <2>2
<1>7. 0 \in P /\ P \subseteq Nat
  BY <1>1, <1>6
<1>8. ASSUME NEW n \in P PROVE n + 1 \in P
  <2>1. n \in Nat /\ f[n] \in S
    OBVIOUS
  <2>2. f[n] \cup Successors(f[n], edges) \in S
    BY <1>1, <2>1
  <2>3. f[n + 1] = f[n] \cup Successors(f[n], edges)
    BY <1>6, <2>1
  <2>4. f[n + 1] \in S
    BY <2>2, <2>3
  <2> QED
    BY <2>1, <2>4
<1> HIDE DEF P
<1>9. \A n \in Nat : n \in P
  BY <1>7, <1>8, ByNumbers
<1>10. \A n \in Nat : f[n] \subseteq targets
  BY <1>9 DEF P, S
<1>11. f[0] = a /\ \A n \in Nat : f[n] \subseteq targets /\ f[n + 1] = f[n] \cup Successors(f[n], edges)
  <2> HIDE DEF targets
  <2> QED
    BY <1>6, <1>10
<1> QED
  BY <1>11 DEF f, a

LEMMA DownstreamIs ==
    ASSUME NEW id, NEW edges, IsFiniteSet(edges)
    PROVE  /\ Successors({id}, edges) \subseteq Downstream(id, edges)
           /\ Successors(Downstream(id, edges), edges) \subseteq Downstream(id, edges)
           /\ \A X : Successors({id}, edges) \subseteq X /\ Successors(X, edges) \subseteq X
                    => Downstream(id, edges) \subseteq X
<1> DEFINE f == Reach(id, edges)
           m == Cardinality(edges)
           targets == {e.target : e \in edges}
<1>1. Downstream(id, edges) = f[m] /\ m \in Nat
  BY FS_CardinalityType DEF Downstream, Reach
<1>2. /\ f[0] = Successors({id}, edges)
      /\ \A n \in Nat : f[n] \subseteq targets /\ f[n + 1] = f[n] \cup Successors(f[n], edges)
  BY ReachIs
<1>3. IsFiniteSet(targets) /\ Cardinality(targets) <= m
  BY TargetsFinite
<1>4. \A r : Successors(r, edges) \subseteq targets
  BY DEF Successors
<1> HIDE DEF f, m, targets
<1>5. Successors({id}, edges) \subseteq f[m]
  <2> DEFINE P == {n \in Nat : f[0] \subseteq f[n]}
  <2>1. 0 \in P /\ P \subseteq Nat
    OBVIOUS
  <2>2. ASSUME NEW n \in P PROVE n + 1 \in P
    <3>1. n \in Nat /\ f[0] \subseteq f[n]
      OBVIOUS
    <3>2. f[n + 1] = f[n] \cup Successors(f[n], edges)
      BY <1>2, <3>1
    <3> QED
      BY <3>1, <3>2
  <2> HIDE DEF P
  <2>3. m \in P
    BY <1>1, <2>1, <2>2, ByNumbers
  <2> QED
    BY <1>2, <2>3 DEF P
<1>6. Successors(f[m], edges) \subseteq f[m]
  <2> DEFINE Closed(n) == Successors(f[n], edges) \subseteq f[n]
             P == {n \in Nat : Closed(n) \/ Cardinality(f[n]) >= n}
  <2>1. \A n \in Nat : IsFiniteSet(f[n]) /\ Cardinality(f[n]) \in Nat
    BY <1>2, <1>3, FS_Subset, FS_CardinalityType
  <2>2. 0 \in P /\ P \subseteq Nat
    BY <2>1
  <2>3. ASSUME NEW n \in P PROVE n + 1 \in P
    <3>1. n \in Nat /\ n + 1 \in Nat
      OBVIOUS
    <3>2. CASE Closed(n)
      <4>1. f[n + 1] = f[n]
        BY <1>2, <3>1, <3>2
      <4> QED
        BY <3>1, <3>2, <4>1
    <3>3. CASE ~Closed(n)
      <4>1. Cardinality(f[n]) >= n
        BY <3>3
      <4>2. f[n] \in SUBSET f[n + 1] /\ f[n] # f[n + 1]
        BY <1>2, <3>1, <3>3
      <4>3. Cardinality(f[n]) <= Cardinality(f[n + 1]) /\ Cardinality(f[n]) # Cardinality(f[n + 1])
        BY <2>1, <3>1, <4>2, FS_Subset
      <4>4. Cardinality(f[n + 1]) >= n + 1
        BY <2>1, <3>1, <4>1, <4>3
      <4> QED
        BY <3>1, <4>4
    <3> QED
      BY <3>2, <3>3
  <2> HIDE DEF P
  <2>4. m \in P
    BY <1>1, <2>2, <2>3, ByNumbers
  <2>5. CASE Cardinality(f[m]) >= m
    <3>1. f[m] \in SUBSET targets
      BY <1>1, <1>2
    <3>2. Cardinality(f[m]) <= Cardinality(targets) /\ Cardinality(targets) \in Nat
      BY <1>3, <3>1, FS_Subset, FS_CardinalityType
    <3>3. Cardinality(f[m]) = Cardinality(targets)
      BY <1>1, <1>3, <2>1, <2>5, <3>2
    <3>4. f[m] = targets
      BY <1>3, <3>1, <3>3, FS_Subset
    <3> QED
      BY <1>4, <3>4
  <2> QED
    BY <2>4, <2>5 DEF P
<1>7. ASSUME NEW X, Successors({id}, edges) \subseteq X, Successors(X, edges) \subseteq X
      PROVE  f[m] \subseteq X
  <2> DEFINE P == {n \in Nat : f[n] \subseteq X}
  <2>1. \A r : r \subseteq X => Successors(r, edges) \subseteq Successors(X, edges)
    BY DEF Successors
  <2>2. 0 \in P /\ P \subseteq Nat
    BY <1>2, <1>7
  <2>3. ASSUME NEW n \in P PROVE n + 1 \in P
    <3>1. f[n + 1] \subseteq X /\ n + 1 \in Nat
      BY <1>2, <1>7, <2>1
    <3> QED
      BY <3>1
  <2> HIDE DEF P
  <2>4. m \in P
    BY <1>1, <2>2, <2>3, ByNumbers
  <2> QED
    BY <2>4 DEF P
<1> QED
  BY <1>1, <1>5, <1>6, <1>7

(* No node is behind itself. *)
Acyclic(edges) == \A x : x \notin Downstream(x, edges)

LEMMA SourcesOnly ==
    ASSUME NEW edges, IsFiniteSet(edges), NEW x, \A e \in edges : e.source # x
    PROVE  Downstream(x, edges) = {}
<1>1. Successors({x}, edges) \subseteq {} /\ Successors({}, edges) \subseteq {}
  BY DEF Successors
<1> QED
  BY <1>1, DownstreamIs

LEMMA FewerEdges ==
    ASSUME NEW edges, IsFiniteSet(edges), NEW fewer, fewer \subseteq edges, Acyclic(edges)
    PROVE  Acyclic(fewer)
<1>1. IsFiniteSet(fewer)
  BY FS_Subset
<1>2. \A ids : Successors(ids, fewer) \subseteq Successors(ids, edges)
  BY DEF Successors
<1>3. ASSUME NEW x PROVE x \notin Downstream(x, fewer)
  <2> DEFINE D == Downstream(x, edges)
  <2>1. Successors({x}, edges) \subseteq D /\ Successors(D, edges) \subseteq D
    BY DownstreamIs
  <2>2. Successors({x}, fewer) \subseteq D /\ Successors(D, fewer) \subseteq D
    BY <1>2, <2>1
  <2>3. Downstream(x, fewer) \subseteq D
    BY <1>1, <2>2, DownstreamIs
  <2> QED
    BY <2>3 DEF Acyclic
<1> QED
  BY <1>3 DEF Acyclic

LEMMA OneMoreEdge ==
    ASSUME NEW edges, IsFiniteSet(edges), Acyclic(edges),
           NEW e, ~IsReachable(e.target, e.source, edges)
    PROVE  IsFiniteSet(edges \cup {e}) /\ Acyclic(edges \cup {e})
<1> DEFINE more == edges \cup {e}
           s == e.source
           t == e.target
           D(x) == Downstream(x, edges)
<1>1. IsFiniteSet(more)
  BY FS_AddElement
<1>2. s # t /\ s \notin D(t)
  BY DEF IsReachable
<1>3. \A x : Successors({x}, edges) \subseteq D(x) /\ Successors(D(x), edges) \subseteq D(x) /\ x \notin D(x)
  BY DownstreamIs DEF Acyclic
<1>4. \A x, y : y \in D(x) => D(y) \subseteq D(x)
  <2> SUFFICES ASSUME NEW x, NEW y \in D(x) PROVE D(y) \subseteq D(x)
    OBVIOUS
  <2>1. Successors({y}, edges) \subseteq Successors(D(x), edges)
    BY DEF Successors
  <2> QED
    BY <1>3, <2>1, DownstreamIs
<1>5. \A ids : Successors(ids, more) = Successors(ids, edges) \cup (IF s \in ids THEN {t} ELSE {})
  BY DEF Successors
<1> HIDE DEF D, more, s, t
<1>6. ASSUME NEW x, NEW X, Successors({x}, more) \subseteq X, Successors(X, more) \subseteq X, x \notin X
      PROVE  x \notin Downstream(x, more)
  BY <1>1, <1>6, DownstreamIs
<1>7. ASSUME NEW x PROVE x \notin Downstream(x, more)
  <2>1. CASE s = x \/ s \in D(x)
    <3> DEFINE X == D(x) \cup {t} \cup D(t)
    <3>1. x # t /\ x \notin D(t)
      BY <1>2, <1>4, <2>1
    <3>2. x \notin X
      BY <1>3, <3>1
    <3>3. Successors({x}, more) \subseteq X
      BY <1>3, <1>5
    <3>4. Successors(X, edges) = Successors(D(x), edges) \cup Successors({t}, edges) \cup Successors(D(t), edges)
      BY DEF Successors
    <3>5. Successors(X, more) \subseteq X
      BY <1>3, <1>5, <3>4
    <3> HIDE DEF X
    <3> QED
      BY <1>6, <3>2, <3>3, <3>5
  <2>2. CASE ~(s = x \/ s \in D(x))
    <3>1. Successors({x}, more) \subseteq D(x) /\ Successors(D(x), more) \subseteq D(x)
      BY <1>3, <1>5, <2>2
    <3> QED
      BY <1>3, <1>6, <3>1
  <2> QED
    BY <2>1, <2>2
<1>8. Acyclic(more)
  BY <1>7 DEF Acyclic
<1> QED
  BY <1>1, <1>8 DEF more

(* Edges among known whose ends are renamed. *)
OneToOne(F, known) == \A x, y \in known : F[x] = F[y] => x = y
Renamed(moved, edges, F, known) ==
    \A m \in moved : \E e \in edges : /\ e.source \in known /\ e.target \in known
                                      /\ m.source = F[e.source] /\ m.target = F[e.target]

LEMMA RenamedEdges ==
    ASSUME NEW edges, IsFiniteSet(edges), Acyclic(edges), NEW known, NEW F, OneToOne(F, known),
           NEW moved, IsFiniteSet(moved), Renamed(moved, edges, F, known)
    PROVE  Acyclic(moved)
<1>1. ASSUME NEW z, z \in Downstream(z, moved) PROVE FALSE
  <2>1. PICK m \in moved : m.source = z
    BY <1>1, SourcesOnly
  <2>2. PICK e \in edges : e.source \in known /\ m.source = F[e.source]
    BY DEF Renamed
  <2> DEFINE x == e.source
             D == Downstream(x, edges)
             X == {F[y] : y \in D \cap known}
  <2>3. x \in known /\ F[x] = z
    BY <2>1, <2>2
  <2> HIDE DEF x
  <2>4. Successors({x}, edges) \subseteq D /\ Successors(D, edges) \subseteq D /\ x \notin D
    BY DownstreamIs DEF Acyclic
  <2>5. \A y \in {x} \cup D : \A d \in edges : d.source = y => d.target \in D
    BY <2>4 DEF Successors
  <2> HIDE DEF D
  <2>6. z \notin X
    BY <2>3, <2>4 DEF OneToOne
  <2>7. ASSUME NEW y \in ({x} \cup D) \cap known, NEW w \in moved, w.source = F[y]
        PROVE  w.target \in X
    <3>1. PICK d \in edges : /\ d.source \in known /\ d.target \in known
                             /\ w.source = F[d.source] /\ w.target = F[d.target]
      BY DEF Renamed
    <3>2. d.source = y
      BY <2>7, <3>1 DEF OneToOne
    <3>3. d.target \in D
      BY <2>5, <3>2
    <3> QED
      BY <3>1, <3>3
  <2>8. Successors({z}, moved) \subseteq X
    BY <2>3, <2>7 DEF Successors
  <2>9. Successors(X, moved) \subseteq X
    BY <2>7 DEF Successors
  <2> HIDE DEF X
  <2>10. Downstream(z, moved) \subseteq X
    BY <2>8, <2>9, DownstreamIs
  <2> QED
    BY <1>1, <2>6, <2>10
<1> QED
  BY <1>1 DEF Acyclic

-----------------------------------------------------------------------------
(* Nodes. *)

Distinct(nodes) == \A i, j \in DOMAIN nodes : nodes[i].id = nodes[j].id => i = j

LEMMA UniqueIsDistinct ==
    ASSUME NEW c, NEW S, c.nodes \in Seq(S)
    PROVE  Unique(c) <=> Distinct(c.nodes)
<1> DEFINE n == Len(c.nodes)
           f == [i \in 1..n |-> c.nodes[i].id]
<1>1. n \in Nat /\ DOMAIN c.nodes = 1..n
  BY LenProperties
<1>2. f \in Surjection(1..n, IdsOf(c))
  BY <1>1 DEF Surjection, IdsOf, NodesOf, ToSet
<1>3. f \in Injection(1..n, IdsOf(c)) <=> Distinct(c.nodes)
  <2>1. f \in [1..n -> IdsOf(c)] /\ \A i \in 1..n : f[i] = c.nodes[i].id
    BY <1>2 DEF Surjection
  <2>2. Distinct(c.nodes) <=> \A i, j \in 1..n : f[i] = f[j] => i = j
    BY <1>1, <2>1 DEF Distinct
  <2> HIDE DEF f
  <2> QED
    BY <2>1, <2>2 DEF Injection, IsInjective
<1>4. IsFiniteSet(1..n) /\ Cardinality(1..n) = n
  BY <1>1, FS_Interval
<1> HIDE DEF f
<1>5. Cardinality(IdsOf(c)) = Cardinality(1..n) <=> f \in Injection(1..n, IdsOf(c))
  BY <1>2, <1>4, FS_Surjection
<1> QED
  BY <1>3, <1>4, <1>5 DEF Unique

(* Without keeps the others, in order. *)
Kept(nodes, ids) ==
    CHOOSE kept : kept = [n \in Nat |->
        IF n = 0 THEN <<>>
        ELSE IF nodes[n].id \in ids THEN kept[n - 1] ELSE Append(kept[n - 1], nodes[n])]

KeptUpTo(f, nodes, ids) ==
    /\ f[0] = <<>>
    /\ \A n \in Nat : f[n + 1] = IF nodes[n + 1].id \in ids THEN f[n] ELSE Append(f[n], nodes[n + 1])

LEMMA KeptIs ==
    ASSUME NEW nodes, NEW ids, NEW f, f = Kept(nodes, ids)
    PROVE  KeptUpTo(f, nodes, ids)
<1> DEFINE V == {nodes[n] : n \in Nat}
           S == Seq(V)
           D == [p \in S \X Nat |-> IF nodes[p[2]].id \in ids THEN p[1] ELSE Append(p[1], nodes[p[2]])]
<1>1. <<>> \in S
  OBVIOUS
<1>2. ASSUME NEW r \in S, NEW n \in Nat
      PROVE  (IF nodes[n].id \in ids THEN r ELSE Append(r, nodes[n])) \in S
  <2>1. nodes[n] \in V
    OBVIOUS
  <2> HIDE DEF V
  <2> QED
    BY <2>1, AppendProperties
<1> HIDE DEF V
<1>3. D \in [S \X Nat -> S] /\ \A r \in S, n \in Nat : D[<<r, n>>] = IF nodes[n].id \in ids THEN r ELSE Append(r, nodes[n])
  <2> HIDE DEF S
  <2> QED
    BY <1>2
<1> HIDE DEF S, D
<1>4. PICK g \in [Nat -> S] : Recursion(g, S, <<>>, D)
  BY <1>1, <1>3, RecursionExists
<1>5. g = [n \in Nat |-> IF n = 0 THEN <<>>
                         ELSE IF nodes[n].id \in ids THEN g[n - 1] ELSE Append(g[n - 1], nodes[n])]
  <2>1. \A n \in Nat : n # 0 => D[<<g[n - 1], n>>] = IF nodes[n].id \in ids THEN g[n - 1] ELSE Append(g[n - 1], nodes[n])
    BY <1>3, <1>4
  <2> QED
    BY <1>4, <2>1 DEF Recursion
<1>6. f = [n \in Nat |-> IF n = 0 THEN <<>>
                         ELSE IF nodes[n].id \in ids THEN f[n - 1] ELSE Append(f[n - 1], nodes[n])]
  BY <1>5 DEF Kept
<1>7. f[0] = <<>>
  BY <1>6
<1>8. ASSUME NEW n \in Nat
      PROVE  f[n + 1] = IF nodes[n + 1].id \in ids THEN f[n] ELSE Append(f[n], nodes[n + 1])
  <2> DEFINE k == n + 1
  <2>1. k \in Nat /\ k # 0 /\ k - 1 = n
    OBVIOUS
  <2> HIDE DEF k
  <2>2. f[k] = IF nodes[k].id \in ids THEN f[k - 1] ELSE Append(f[k - 1], nodes[k])
    BY <1>6, <2>1
  <2>3. f[k] = IF nodes[k].id \in ids THEN f[n] ELSE Append(f[n], nodes[k])
    BY <2>1, <2>2
  <2> QED
    BY <2>3 DEF k
<1> QED
  BY <1>7, <1>8 DEF KeptUpTo

LEMMA WithoutIs ==
    ASSUME NEW S, NEW nodes \in Seq(S), NEW ids
    PROVE  /\ Without(nodes, ids) \in Seq(S)
           /\ ToSet(Without(nodes, ids)) = {n \in ToSet(nodes) : n.id \notin ids}
           /\ Distinct(nodes) => Distinct(Without(nodes, ids))
<1> DEFINE f == Kept(nodes, ids)
           m == Len(nodes)
           Upto(k) == {nodes[j] : j \in {x \in 1..k : nodes[x].id \notin ids}}
           Good(k) == /\ f[k] \in Seq(S)
                      /\ ToSet(f[k]) = Upto(k)
                      /\ Distinct(nodes) => Distinct(f[k])
           P == {k \in Nat : k <= m => Good(k)}
<1>1. m \in Nat /\ DOMAIN nodes = 1..m /\ \A j \in 1..m : nodes[j] \in S
  BY LenProperties
<1>2. Without(nodes, ids) = f[m]
  BY DEF Without, Kept
<1>3. KeptUpTo(f, nodes, ids)
  BY KeptIs
<1> HIDE DEF f, m, Upto, Good, P
<1>4. f[0] = <<>>
  BY <1>3 DEF KeptUpTo
<1>5. ASSUME NEW n \in Nat
      PROVE  f[n + 1] = IF nodes[n + 1].id \in ids THEN f[n] ELSE Append(f[n], nodes[n + 1])
  BY <1>3 DEF KeptUpTo
<1> USE DEF Upto, Good, P
<1>6. 0 \in P /\ P \subseteq Nat
  <2>1. Good(0)
    BY <1>4 DEF ToSet, Distinct
  <2> HIDE DEF Good
  <2> QED
    BY <2>1
<1>7. ASSUME NEW k \in P PROVE k + 1 \in P
  <2> SUFFICES ASSUME k + 1 <= m PROVE Good(k + 1)
    OBVIOUS
  <2>1. k \in Nat /\ k + 1 \in 1..m
    BY <1>1
  <2>2. f[k] \in Seq(S) /\ ToSet(f[k]) = Upto(k) /\ (Distinct(nodes) => Distinct(f[k]))
    BY <1>1, <2>1
  <2> DEFINE x == nodes[k + 1]
  <2>3. x \in S
    BY <1>1, <2>1
  <2>4. 1..(k + 1) = (1..k) \cup {k + 1}
    BY <2>1
  <2>5. Upto(k + 1) = Upto(k) \cup (IF x.id \in ids THEN {} ELSE {x})
    BY <2>4
  <2>6. CASE x.id \in ids
    <3>1. f[k + 1] = f[k]
      BY <1>5, <2>1, <2>6
    <3>2. Upto(k + 1) = Upto(k)
      BY <2>5, <2>6
    <3> HIDE DEF Upto
    <3> QED
      BY <2>2, <3>1, <3>2
  <2>7. CASE x.id \notin ids
    <3> DEFINE w == Append(f[k], x)
               l == Len(f[k])
    <3>1. f[k + 1] = w
      BY <1>5, <2>1, <2>7
    <3>2. /\ l \in Nat /\ DOMAIN f[k] = 1..l
          /\ w \in Seq(S) /\ DOMAIN w = 1..(l + 1)
          /\ \A i \in 1..l : w[i] = f[k][i]
          /\ w[l + 1] = x
      BY <2>2, <2>3, AppendProperties, LenProperties
    <3> HIDE DEF w, l
    <3>3. ToSet(w) = ToSet(f[k]) \cup {x}
      BY <3>2 DEF ToSet
    <3>4. ASSUME Distinct(nodes) PROVE Distinct(w)
      <4>1. \A i \in 1..l : w[i].id # x.id
        <5> SUFFICES ASSUME NEW i \in 1..l, w[i].id = x.id PROVE FALSE
          OBVIOUS
        <5>1. w[i] \in Upto(k)
          BY <2>2, <3>2 DEF ToSet
        <5>2. PICK j \in 1..k : w[i] = nodes[j]
          BY <5>1
        <5>3. j \in 1..m /\ j # k + 1
          BY <1>1, <2>1
        <5> QED
          BY <1>1, <2>1, <3>4, <5>2, <5>3 DEF Distinct
      <4>2. \A i, j \in 1..l : w[i].id = w[j].id => i = j
        BY <2>2, <3>2, <3>4 DEF Distinct
      <4>3. \A i \in 1..(l + 1) : i \in 1..l \/ i = l + 1
        BY <3>2
      <4> QED
        BY <3>2, <4>1, <4>2, <4>3 DEF Distinct
    <3>5. ToSet(w) = Upto(k + 1)
      <4>1. Upto(k + 1) = Upto(k) \cup {x}
        BY <2>5, <2>7
      <4> HIDE DEF Upto, x
      <4> QED
        BY <2>2, <3>3, <4>1
    <3> HIDE DEF Upto
    <3> QED
      BY <3>1, <3>2, <3>4, <3>5
  <2> QED
    BY <2>6, <2>7
<1> HIDE DEF P
<1>8. m \in P
  BY <1>1, <1>6, <1>7, ByNumbers
<1>9. Good(m)
  BY <1>1, <1>8 DEF P
<1>10. Upto(m) = {n \in ToSet(nodes) : n.id \notin ids}
  BY <1>1 DEF ToSet
<1> HIDE DEF Upto
<1> QED
  BY <1>2, <1>9, <1>10

-----------------------------------------------------------------------------
(* Inputs. *)

OncePerInput(edges) == \A e, x \in edges : e.target = x.target /\ e.in = x.in => e = x

LEMMA InputsAre ==
    ASSUME NEW edges, edges \subseteq Connections, IsFiniteSet(edges), NEW id
    PROVE  /\ DeriveInputs(id, edges) \in Seq(Anchors)
           /\ \A e \in edges : e.target = id =>
                  /\ e.in \in DOMAIN DeriveInputs(id, edges)
                  /\ OncePerInput(edges) => DeriveInputs(id, edges)[e.in] = <<e.source, e.out>>
           /\ \A i \in DOMAIN DeriveInputs(id, edges) : DeriveInputs(id, edges)[i] # None =>
                  \E e \in edges : /\ e.target = id /\ e.in = i
                                   /\ DeriveInputs(id, edges)[i] = <<e.source, e.out>>
<1> DEFINE mine == {e \in edges : e.target = id}
           ins == {e.in : e \in mine} \cup {0}
           m == Max(ins)
           at(i) == CHOOSE x \in mine : x.in = i
           v(i) == IF \E e \in mine : e.in = i THEN <<at(i).source, at(i).out>> ELSE None
           d == DeriveInputs(id, edges)
<1>1. d = [i \in 1..m |-> v(i)]
  BY DEF DeriveInputs
<1>2. \A e \in edges : e.source \in Ids /\ e.out \in Nat /\ e.in \in Nat /\ e.in # 0
  BY DEF Connections
<1>3. m \in Nat /\ \A e \in mine : e.in \in 1..m
  <2> DEFINE f == [e \in mine |-> e.in]
             vals == {e.in : e \in mine}
  <2>1. f \in Surjection(mine, vals)
    BY DEF Surjection
  <2> HIDE DEF f
  <2>2. IsFiniteSet(mine)
    BY FS_Subset
  <2>3. IsFiniteSet(vals)
    BY <2>1, <2>2, FS_Surjection
  <2>4. IsFiniteSet(ins) /\ ins \subseteq Nat /\ ins # {}
    BY <1>2, <2>3, FS_AddElement
  <2> HIDE DEF ins
  <2>5. m \in ins /\ \A y \in ins : y <= m
    BY <2>4, MaxIs
  <2>6. m \in Nat
    BY <2>4, <2>5
  <2>7. \A e \in mine : e.in \in ins
    BY DEF ins
  <2> HIDE DEF m
  <2> QED
    BY <1>2, <2>4, <2>5, <2>6, <2>7
<1>4. \A i \in 1..m : \A e \in mine : e.in = i => at(i) \in mine /\ at(i).in = i
  OBVIOUS
<1>5. \A i \in 1..m : (\E e \in mine : e.in = i) \/ v(i) = None
  OBVIOUS
<1>6. \A i \in 1..m : (\E e \in mine : e.in = i) => v(i) = <<at(i).source, at(i).out>>
  OBVIOUS
<1> HIDE DEF at, v, m, d
<1>7. DOMAIN d = 1..m /\ \A i \in 1..m : d[i] = v(i)
  BY <1>1
<1>8. ASSUME NEW i \in 1..m PROVE v(i) \in Anchors
  <2>1. CASE \E e \in mine : e.in = i
    <3>1. at(i) \in edges /\ v(i) = <<at(i).source, at(i).out>>
      BY <1>4, <1>6, <2>1
    <3> QED
      BY <1>2, <3>1 DEF Anchors
  <2> QED
    BY <1>5, <2>1 DEF Anchors
<1>9. d \in Seq(Anchors)
  BY <1>1, <1>3, <1>8, IsASeq
<1>10. ASSUME NEW e \in edges, e.target = id
       PROVE  e.in \in DOMAIN d /\ (OncePerInput(edges) => d[e.in] = <<e.source, e.out>>)
  <2>1. e \in mine /\ e.in \in 1..m
    BY <1>3, <1>10
  <2>2. at(e.in) \in mine /\ at(e.in).in = e.in
    BY <1>4, <2>1
  <2>3. OncePerInput(edges) => at(e.in) = e
    BY <1>10, <2>2 DEF OncePerInput
  <2> QED
    BY <1>6, <1>7, <2>1, <2>3
<1>11. ASSUME NEW i \in DOMAIN d, d[i] # None
       PROVE  \E e \in edges : e.target = id /\ e.in = i /\ d[i] = <<e.source, e.out>>
  <2>1. i \in 1..m /\ \E e \in mine : e.in = i
    BY <1>5, <1>7, <1>11
  <2>2. at(i) \in mine /\ at(i).in = i /\ d[i] = <<at(i).source, at(i).out>>
    BY <1>4, <1>6, <1>7, <2>1
  <2> QED
    BY <2>2
<1> HIDE DEF mine
<1> QED
  BY <1>9, <1>10, <1>11 DEF d

LEMMA SameInputs ==
    ASSUME NEW id, NEW edges, NEW other,
           {e \in edges : e.target = id} = {e \in other : e.target = id}
    PROVE  DeriveInputs(id, edges) = DeriveInputs(id, other)
  BY DEF DeriveInputs

LEMMA NoInputs ==
    ASSUME NEW id, NEW edges, \A e \in edges : e.target # id
    PROVE  DeriveInputs(id, edges) = <<>>
<1> DEFINE mine == {e \in edges : e.target = id}
           ins == {e.in : e \in mine} \cup {0}
<1>1. mine = {} /\ ins = {0}
  OBVIOUS
<1>2. Max({0}) = 0
  BY FS_Singleton, MaxIs
<1>3. \A v : [i \in 1..0 |-> v] = <<>>
  OBVIOUS
<1>4. DeriveInputs(id, edges) = [i \in 1..Max(ins) |->
          IF \E e \in mine : e.in = i
          THEN LET e == CHOOSE x \in mine : x.in = i IN <<e.source, e.out>>
          ELSE None]
  BY DEF DeriveInputs
<1> HIDE DEF mine, ins
<1>5. DOMAIN DeriveInputs(id, edges) = {}
  BY <1>1, <1>2, <1>4
<1> DEFINE d == DeriveInputs(id, edges)
<1>6. d = [i \in {} |-> d[i]]
  BY <1>4, <1>5
<1> HIDE DEF d
<1>7. d \in Seq({}) /\ Len(d) = 0
  BY <1>6
<1> QED
  BY <1>7, EmptySeq DEF d

LEMMA FewerInputs ==
    ASSUME NEW edges, edges \subseteq Connections, IsFiniteSet(edges), OncePerInput(edges),
           NEW fewer, fewer \subseteq edges, NEW id,
           NEW i \in DOMAIN DeriveInputs(id, fewer), DeriveInputs(id, fewer)[i] # None
    PROVE  /\ i \in DOMAIN DeriveInputs(id, edges)
           /\ DeriveInputs(id, edges)[i] = DeriveInputs(id, fewer)[i]
<1>1. IsFiniteSet(fewer) /\ fewer \subseteq Connections
  BY FS_Subset
<1>2. PICK e \in fewer : /\ e.target = id /\ e.in = i
                         /\ DeriveInputs(id, fewer)[i] = <<e.source, e.out>>
  BY <1>1, InputsAre
<1>3. e.in \in DOMAIN DeriveInputs(id, edges) /\ DeriveInputs(id, edges)[e.in] = <<e.source, e.out>>
  BY <1>2, InputsAre
<1> QED
  BY <1>2, <1>3

-----------------------------------------------------------------------------
(* Graphs. *)

(* Sound, with no cycle from anywhere. *)
Shaped(c) ==
    /\ c \in Graphs
    /\ IsFiniteSet(c.edges)
    /\ \A e \in c.edges : {e.source, e.target} \subseteq IdsOf(c)
    /\ OncePerInput(c.edges)
    /\ Acyclic(c.edges)

(* What an edit that makes no node leaves of a canvas. *)
Better(d, c) ==
    /\ Shaped(d)
    /\ IdsOf(d) \subseteq IdsOf(c)
    /\ Unique(c) => Unique(d)
    /\ Follows(c) => Follows(d)
    /\ Follows(c) /\ Latest(c) => Latest(d)

LEMMA ShapedIsSound ==
    ASSUME NEW c, c \in Graphs, IsFiniteSet(c.edges)
    PROVE  Shaped(c) <=> Sound(c)
<1>1. ASSUME Shaped(c) PROVE Sound(c)
  BY <1>1 DEF Shaped, Sound, Acyclic, OncePerInput
<1>2. ASSUME Sound(c) PROVE Shaped(c)
  <2>1. ASSUME NEW x, x \in Downstream(x, c.edges) PROVE FALSE
    <3>1. \E e \in c.edges : e.source = x
      BY <2>1, SourcesOnly
    <3>2. x \in IdsOf(c)
      BY <1>2, <3>1 DEF Sound
    <3> QED
      BY <1>2, <2>1, <3>2 DEF Sound
  <2> QED
    BY <1>2, <2>1 DEF Shaped, Sound, Acyclic, OncePerInput
<1> QED
  BY <1>1, <1>2

LEMMA SameIds ==
    ASSUME NEW w \in Seq(Nodes), NEW v, v = [i \in DOMAIN w |-> v[i]],
           \A i \in DOMAIN w : v[i] \in Nodes /\ v[i].id = w[i].id
    PROVE  /\ v \in Seq(Nodes)
           /\ DOMAIN v = DOMAIN w
           /\ {n.id : n \in ToSet(v)} = {n.id : n \in ToSet(w)}
           /\ Distinct(w) => Distinct(v)
<1>1. Len(w) \in Nat /\ DOMAIN w = 1..Len(w)
  BY LenProperties
<1>2. DOMAIN v = DOMAIN w
  OBVIOUS
<1>3. v \in Seq(Nodes)
  <2>1. v = [i \in 1..Len(w) |-> v[i]] /\ \A i \in 1..Len(w) : v[i] \in Nodes
    BY <1>1
  <2> QED
    BY <1>1, <2>1, IsASeq
<1>4. {n.id : n \in ToSet(v)} = {n.id : n \in ToSet(w)}
  BY <1>2 DEF ToSet
<1>5. Distinct(w) => Distinct(v)
  BY <1>2 DEF Distinct
<1> QED
  BY <1>2, <1>3, <1>4, <1>5

LEMMA RederivedIs ==
    ASSUME NEW w, NEW ids, NEW edges
    PROVE  LET v == Rederived(w, ids, edges)
           IN  /\ v = [i \in DOMAIN w |-> v[i]]
               /\ \A i \in DOMAIN w :
                      v[i] = IF w[i].id \in ids THEN [w[i] EXCEPT !.inputs = DeriveInputs(w[i].id, edges)]
                             ELSE w[i]
  BY DEF Rederived, OnNodes

LEMMA WithInputs ==
    ASSUME NEW n \in Nodes, NEW in \in Seq(Anchors), NEW m, m = [n EXCEPT !.inputs = in]
    PROVE  m \in Nodes /\ m.id = n.id /\ m.kind = n.kind /\ m.params = n.params /\ m.inputs = in
  BY DEF Nodes

(* Deleting nodes or an edge. *)
LEMMA Shrunk ==
    ASSUME NEW c, Shaped(c),
           NEW w \in Seq(Nodes), ToSet(w) \subseteq NodesOf(c), Distinct(c.nodes) => Distinct(w),
           NEW rest, rest \subseteq c.edges,
           \A e \in rest : {e.source, e.target} \subseteq {n.id : n \in ToSet(w)},
           NEW ids, \A e \in c.edges \ rest : e.target \in ids \/ e.target \notin {n.id : n \in ToSet(w)},
           NEW d, d = [nodes |-> Rederived(w, ids, rest), edges |-> rest]
    PROVE  Better(d, c)
<1> DEFINE v == Rederived(w, ids, rest)
<1>1. c \in Graphs /\ IsFiniteSet(c.edges) /\ OncePerInput(c.edges) /\ Acyclic(c.edges)
      /\ c.edges \subseteq Connections /\ c.nodes \in Seq(Nodes)
  BY DEF Shaped, Graphs
<1>2. IsFiniteSet(rest) /\ rest \subseteq Connections /\ OncePerInput(rest) /\ Acyclic(rest)
  <2>1. IsFiniteSet(rest)
    BY <1>1, FS_Subset
  <2>2. OncePerInput(rest)
    BY <1>1 DEF OncePerInput
  <2>3. Acyclic(rest)
    BY <1>1, FewerEdges
  <2> QED
    BY <1>1, <2>1, <2>2, <2>3
<1>3. /\ v = [i \in DOMAIN w |-> v[i]]
      /\ \A i \in DOMAIN w :
             v[i] = IF w[i].id \in ids THEN [w[i] EXCEPT !.inputs = DeriveInputs(w[i].id, rest)] ELSE w[i]
  BY RederivedIs
<1> HIDE DEF v
<1>4. \A i \in DOMAIN w : w[i] \in Nodes /\ w[i] \in ToSet(w) /\ w[i] \in NodesOf(c)
  BY LenProperties DEF ToSet
<1>5. ASSUME NEW i \in DOMAIN w
      PROVE  /\ v[i] \in Nodes /\ v[i].id = w[i].id /\ v[i].kind = w[i].kind /\ v[i].params = w[i].params
             /\ v[i].inputs = IF w[i].id \in ids THEN DeriveInputs(w[i].id, rest) ELSE w[i].inputs
  <2>1. w[i] \in Nodes
    BY <1>4
  <2>2. CASE w[i].id \in ids
    <3>1. DeriveInputs(w[i].id, rest) \in Seq(Anchors)
      BY <1>2, InputsAre
    <3>2. v[i] = [w[i] EXCEPT !.inputs = DeriveInputs(w[i].id, rest)]
      BY <1>3, <2>2
    <3> QED
      BY <2>1, <2>2, <3>1, <3>2, WithInputs
  <2>3. CASE w[i].id \notin ids
    BY <1>3, <2>1, <2>3
  <2> QED
    BY <2>2, <2>3
<1>6. /\ v \in Seq(Nodes) /\ DOMAIN v = DOMAIN w
      /\ {n.id : n \in ToSet(v)} = {n.id : n \in ToSet(w)}
      /\ Distinct(w) => Distinct(v)
  BY <1>3, <1>5, SameIds
<1>7. d.nodes = v /\ d.edges = rest /\ d \in Graphs
  BY <1>2, <1>6 DEF v, Graphs
<1>8. IdsOf(d) = {n.id : n \in ToSet(w)}
  BY <1>6, <1>7 DEF IdsOf, NodesOf
<1>9. Shaped(d)
  BY <1>2, <1>7, <1>8 DEF Shaped
<1>10. IdsOf(d) \subseteq IdsOf(c)
  BY <1>8 DEF IdsOf
<1>11. Unique(c) => Unique(d)
  BY <1>1, <1>6, <1>7, UniqueIsDistinct
<1>12. \A i \in DOMAIN w : w[i].id \notin ids =>
           DeriveInputs(w[i].id, rest) = DeriveInputs(w[i].id, c.edges)
  <2> SUFFICES ASSUME NEW i \in DOMAIN w, w[i].id \notin ids
               PROVE  DeriveInputs(w[i].id, rest) = DeriveInputs(w[i].id, c.edges)
    OBVIOUS
  <2>1. {e \in rest : e.target = w[i].id} = {e \in c.edges : e.target = w[i].id}
    BY <1>4
  <2> QED
    BY <2>1, SameInputs
<1>13. ASSUME Follows(c) PROVE Follows(d)
  <2> SUFFICES ASSUME NEW i \in DOMAIN w PROVE v[i].inputs = DeriveInputs(v[i].id, rest)
    BY <1>6, <1>7 DEF Follows, NodesOf, ToSet
  <2>1. w[i].inputs = DeriveInputs(w[i].id, c.edges)
    BY <1>4, <1>13 DEF Follows
  <2> QED
    BY <1>5, <1>12, <2>1
<1>14. ASSUME Follows(c), Latest(c) PROVE Latest(d)
  <2> SUFFICES ASSUME NEW i \in DOMAIN w, v[i].kind \in Modifications, v[i].params # None,
                      NEW j \in DOMAIN v[i].inputs, v[i].inputs[j] # None
               PROVE  j \in DOMAIN v[i].params[1] /\ v[i].params[1][j] = v[i].inputs[j]
    BY <1>6, <1>7 DEF Latest, NodesOf, ToSet
  <2>1. w[i].kind \in Modifications /\ w[i].params # None
    BY <1>5
  <2>2. w[i].inputs = DeriveInputs(w[i].id, c.edges) /\ w[i] \in NodesOf(c)
    BY <1>4, <1>14 DEF Follows
  <2>3. v[i].inputs = DeriveInputs(w[i].id, rest)
    BY <1>5, <1>12, <2>2
  <2>4. j \in DOMAIN w[i].inputs /\ w[i].inputs[j] = v[i].inputs[j]
    BY <1>1, <2>2, <2>3, FewerInputs
  <2>5. j \in DOMAIN w[i].params[1] /\ w[i].params[1][j] = w[i].inputs[j]
    BY <1>14, <2>1, <2>2, <2>4 DEF Latest
  <2> QED
    BY <1>5, <2>4, <2>5
<1> QED
  BY <1>9, <1>10, <1>11, <1>13, <1>14 DEF Better

LEMMA Deleted ==
    ASSUME NEW c, Shaped(c), NEW ids, NEW rest,
           rest = {e \in c.edges : e.source \notin ids /\ e.target \notin ids},
           NEW d, d = [nodes |-> Rederived(Without(c.nodes, ids), Successors(ids, c.edges), rest), edges |-> rest]
    PROVE  Better(d, c)
<1> DEFINE w == Without(c.nodes, ids)
           next == Successors(ids, c.edges)
<1>1. c.nodes \in Seq(Nodes) /\ \A e \in c.edges : {e.source, e.target} \subseteq IdsOf(c)
  BY DEF Shaped, Graphs
<1>2. /\ w \in Seq(Nodes)
      /\ ToSet(w) = {n \in NodesOf(c) : n.id \notin ids}
      /\ Distinct(c.nodes) => Distinct(w)
  BY <1>1, WithoutIs DEF NodesOf
<1>3. {n.id : n \in ToSet(w)} = IdsOf(c) \ ids
  BY <1>2 DEF IdsOf
<1>4. \A e \in rest : {e.source, e.target} \subseteq {n.id : n \in ToSet(w)}
  BY <1>1, <1>3
<1>5. \A e \in c.edges \ rest : e.target \in next \/ e.target \notin {n.id : n \in ToSet(w)}
  BY <1>3 DEF Successors
<1>6. rest \subseteq c.edges /\ ToSet(w) \subseteq NodesOf(c)
  BY <1>2
<1>7. d = [nodes |-> Rederived(w, next, rest), edges |-> rest]
  OBVIOUS
<1> HIDE DEF w, next
<1> QED
  BY <1>2, <1>4, <1>5, <1>6, <1>7, Shrunk

LEMMA Disconnected ==
    ASSUME NEW c, Shaped(c), NEW e \in c.edges, NEW rest, rest = c.edges \ {e},
           NEW d, d = [nodes |-> Rederived(c.nodes, {e.target}, rest), edges |-> rest]
    PROVE  Better(d, c)
<1>1. c.nodes \in Seq(Nodes) /\ rest \subseteq c.edges /\ ToSet(c.nodes) \subseteq NodesOf(c)
  BY DEF Shaped, Graphs, NodesOf
<1>2. \A x \in rest : {x.source, x.target} \subseteq {n.id : n \in ToSet(c.nodes)}
  BY DEF Shaped, IdsOf, NodesOf
<1>3. \A x \in c.edges \ rest : x.target \in {e.target}
  OBVIOUS
<1> QED
  BY <1>1, <1>2, <1>3, Shrunk

(* Connecting. *)
LEMMA ValidIs ==
    ASSUME NEW c, NEW e, NEW ported
    PROVE  Valid(c, e, ported) <=> \A reason \in {"SELF", "NO_PORT", "TYPE", "DUPLICATE", "OCCUPIED", "CYCLE"} :
                                       ~Applies(reason, c, e, ported)
<1>1. DOMAIN Reasons = 1..6
  BY DEF Reasons
<1>2. /\ Reasons[1] = "SELF" /\ Reasons[2] = "NO_PORT" /\ Reasons[3] = "TYPE"
      /\ Reasons[4] = "DUPLICATE" /\ Reasons[5] = "OCCUPIED" /\ Reasons[6] = "CYCLE"
  BY DEF Reasons
<1>3. \A i \in 1..6 : i = 1 \/ i = 2 \/ i = 3 \/ i = 4 \/ i = 5 \/ i = 6
  OBVIOUS
<1>4. 1 \in 1..6 /\ 2 \in 1..6 /\ 3 \in 1..6 /\ 4 \in 1..6 /\ 5 \in 1..6 /\ 6 \in 1..6
  OBVIOUS
<1> QED
  BY <1>1, <1>2, <1>3, <1>4 DEF Valid

LEMMA ValidEdge ==
    ASSUME NEW c, NEW e, NEW ported, Valid(c, e, ported)
    PROVE  /\ \A x \in c.edges : ~(x.target = e.target /\ x.in = e.in)
           /\ ~IsReachable(e.target, e.source, c.edges)
           /\ e.source # e.target
<1>1. ~Applies("OCCUPIED", c, e, ported) /\ ~Applies("CYCLE", c, e, ported) /\ ~Applies("SELF", c, e, ported)
  BY ValidIs
<1> QED
  BY <1>1 DEF Applies

(* A node after commitEdge, and after its parameters were entered. *)
CommittedNode(n, e, edges) ==
    IF n.id # e.target THEN n
    ELSE [n EXCEPT !.inputs = DeriveInputs(n.id, edges),
                   !.params = IF n.kind \in Modifications THEN None ELSE @]
ConfiguredNode(n, id) == IF n.id = id THEN [n EXCEPT !.params = <<n.inputs>>] ELSE n

LatestNode(n) ==
    n.kind \in Modifications /\ n.params # None =>
        \A i \in DOMAIN n.inputs : n.inputs[i] # None =>
            i \in DOMAIN n.params[1] /\ n.params[1][i] = n.inputs[i]

LEMMA WithParams ==
    ASSUME NEW n \in Nodes, NEW p \in Seq(Seq(Anchors)), NEW m, m = [n EXCEPT !.params = p]
    PROVE  m \in Nodes /\ m.id = n.id /\ m.kind = n.kind /\ m.inputs = n.inputs /\ m.params = p
  BY DEF Nodes

Both(n, in, p) == [n EXCEPT !.inputs = in, !.params = p]

LEMMA WithBoth ==
    ASSUME NEW n \in Nodes, NEW in \in Seq(Anchors), NEW p \in Seq(Seq(Anchors)),
           NEW m, m = Both(n, in, p)
    PROVE  m \in Nodes /\ m.id = n.id /\ m.kind = n.kind /\ m.inputs = in /\ m.params = p
  BY DEF Nodes, Both

LEMMA CommittedNodeIs ==
    ASSUME NEW n \in Nodes, NEW e, NEW edges, DeriveInputs(n.id, edges) \in Seq(Anchors),
           NEW m, m = CommittedNode(n, e, edges)
    PROVE  /\ m \in Nodes /\ m.id = n.id /\ m.kind = n.kind
           /\ n.id # e.target => m = n
           /\ n.id = e.target => /\ m.inputs = DeriveInputs(n.id, edges)
                                 /\ n.kind \in Modifications => m.params = None
<1>1. CASE n.id # e.target
  BY <1>1 DEF CommittedNode
<1>2. CASE n.id = e.target
  <2> DEFINE p == IF n.kind \in Modifications THEN None ELSE n.params
  <2>1. p \in Seq(Seq(Anchors))
    BY DEF None, Nodes
  <2>2. m = [n EXCEPT !.inputs = DeriveInputs(n.id, edges), !.params = p]
    BY <1>2 DEF CommittedNode
  <2>3. n.kind \in Modifications => p = None
    OBVIOUS
  <2> HIDE DEF p
  <2> DEFINE in == DeriveInputs(n.id, edges)
  <2>4. m = Both(n, in, p) /\ in \in Seq(Anchors)
    BY <2>2 DEF Both
  <2> HIDE DEF in
  <2>5. m \in Nodes /\ m.id = n.id /\ m.kind = n.kind /\ m.inputs = in /\ m.params = p
    BY <2>1, <2>4, WithBoth
  <2> QED
    BY <1>2, <2>3, <2>5 DEF in
<1> QED
  BY <1>1, <1>2

LEMMA Altered ==
    ASSUME NEW c, Shaped(c), NEW v, v = [i \in DOMAIN c.nodes |-> v[i]],
           NEW edges, edges \subseteq Connections, IsFiniteSet(edges), OncePerInput(edges), Acyclic(edges),
           \A x \in edges : {x.source, x.target} \subseteq IdsOf(c),
           \A i \in DOMAIN c.nodes :
               /\ v[i] \in Nodes /\ v[i].id = c.nodes[i].id
               /\ Follows(c) => v[i].inputs = DeriveInputs(v[i].id, edges)
               /\ Latest(c) => LatestNode(v[i]),
           NEW d, d = [nodes |-> v, edges |-> edges]
    PROVE  Better(d, c)
<1> DEFINE w == c.nodes
<1>1. c \in Graphs /\ w \in Seq(Nodes)
  BY DEF Shaped, Graphs
<1>2. /\ v \in Seq(Nodes) /\ DOMAIN v = DOMAIN w
      /\ {n.id : n \in ToSet(v)} = {n.id : n \in ToSet(w)}
      /\ Distinct(w) => Distinct(v)
  BY <1>1, SameIds
<1>3. d.nodes = v /\ d.edges = edges /\ d \in Graphs
  BY <1>1, <1>2 DEF Graphs
<1>4. IdsOf(d) = IdsOf(c)
  BY <1>2, <1>3 DEF IdsOf, NodesOf
<1>5. Shaped(d)
  BY <1>3, <1>4 DEF Shaped
<1>6. Unique(c) => Unique(d)
  BY <1>1, <1>2, <1>3, UniqueIsDistinct
<1>7. \A n \in NodesOf(d) : \E i \in DOMAIN w : n = v[i]
  BY <1>2, <1>3 DEF NodesOf, ToSet
<1>8. Follows(c) => Follows(d)
  BY <1>3, <1>7 DEF Follows
<1>9. Latest(c) => Latest(d)
  <2>1. Latest(c) => \A n \in NodesOf(d) : LatestNode(n)
    BY <1>7
  <2> QED
    BY <2>1 DEF Latest, LatestNode
<1> QED
  BY <1>4, <1>5, <1>6, <1>8, <1>9 DEF Better

LEMMA Connected ==
    ASSUME NEW c, Shaped(c), NEW e \in Connections, {e.source, e.target} \subseteq IdsOf(c),
           NEW ported, Valid(c, e, ported),
           NEW edges, edges = c.edges \cup {e},
           NEW v, v = [i \in DOMAIN c.nodes |-> v[i]],
           \A i \in DOMAIN c.nodes : v[i] = CommittedNode(c.nodes[i], e, edges),
           NEW d, d = [nodes |-> v, edges |-> edges]
    PROVE  Better(d, c)
<1> DEFINE w == c.nodes
<1>1. /\ c \in Graphs /\ IsFiniteSet(c.edges) /\ OncePerInput(c.edges) /\ Acyclic(c.edges)
      /\ c.edges \subseteq Connections /\ w \in Seq(Nodes)
      /\ \A x \in c.edges : {x.source, x.target} \subseteq IdsOf(c)
  BY DEF Shaped, Graphs
<1>2. /\ IsFiniteSet(edges) /\ edges \subseteq Connections /\ OncePerInput(edges) /\ Acyclic(edges)
      /\ \A x \in edges : {x.source, x.target} \subseteq IdsOf(c)
  <2>1. IsFiniteSet(edges) /\ Acyclic(edges)
    BY <1>1, OneMoreEdge, ValidEdge
  <2>2. OncePerInput(edges)
    BY <1>1, ValidEdge DEF OncePerInput
  <2> QED
    BY <1>1, <2>1, <2>2
<1>3. \A i \in DOMAIN w : w[i] \in Nodes /\ w[i] \in NodesOf(c)
  BY <1>1, LenProperties DEF ToSet, NodesOf
<1>4. ASSUME NEW i \in DOMAIN w
      PROVE  /\ v[i] \in Nodes /\ v[i].id = w[i].id /\ v[i].kind = w[i].kind
             /\ w[i].id # e.target => v[i] = w[i]
             /\ w[i].id = e.target => /\ v[i].inputs = DeriveInputs(w[i].id, edges)
                                      /\ w[i].kind \in Modifications => v[i].params = None
  <2> DEFINE n == w[i]
             m == v[i]
  <2>1. n \in Nodes /\ m = CommittedNode(n, e, edges)
    BY <1>3
  <2> HIDE DEF m, n
  <2>2. DeriveInputs(n.id, edges) \in Seq(Anchors)
    BY <1>2, InputsAre
  <2>3. /\ m \in Nodes /\ m.id = n.id /\ m.kind = n.kind
        /\ n.id # e.target => m = n
        /\ n.id = e.target => /\ m.inputs = DeriveInputs(n.id, edges)
                              /\ n.kind \in Modifications => m.params = None
    BY <2>1, <2>2, CommittedNodeIs
  <2> QED
    BY <2>3 DEF m, n
<1>5. ASSUME Follows(c), NEW i \in DOMAIN w PROVE v[i].inputs = DeriveInputs(v[i].id, edges)
  <2>1. CASE w[i].id = e.target
    BY <1>4, <2>1
  <2>2. CASE w[i].id # e.target
    <3>1. {x \in edges : x.target = w[i].id} = {x \in c.edges : x.target = w[i].id}
      BY <2>2
    <3>2. DeriveInputs(w[i].id, edges) = DeriveInputs(w[i].id, c.edges)
      BY <3>1, SameInputs
    <3>3. w[i].inputs = DeriveInputs(w[i].id, c.edges)
      BY <1>3, <1>5 DEF Follows
    <3> QED
      BY <1>4, <2>2, <3>2, <3>3
  <2> QED
    BY <2>1, <2>2
<1>6. ASSUME Latest(c), NEW i \in DOMAIN w PROVE LatestNode(v[i])
  <2>1. LatestNode(w[i])
    BY <1>3, <1>6 DEF Latest, LatestNode
  <2>2. CASE w[i].id = e.target
    BY <1>4, <2>2 DEF LatestNode
  <2>3. CASE w[i].id # e.target
    BY <1>4, <2>1, <2>3
  <2> QED
    BY <2>2, <2>3
<1> HIDE DEF w
<1>7. \A i \in DOMAIN c.nodes :
         /\ v[i] \in Nodes /\ v[i].id = c.nodes[i].id
         /\ Follows(c) => v[i].inputs = DeriveInputs(v[i].id, edges)
         /\ Latest(c) => LatestNode(v[i])
  BY <1>4, <1>5, <1>6 DEF w
<1> QED
  BY <1>2, <1>7, Altered

(* Entering parameters. *)
LEMMA Configured ==
    ASSUME NEW c, Shaped(c), NEW id, NEW v, v = [i \in DOMAIN c.nodes |-> v[i]],
           \A i \in DOMAIN c.nodes : v[i] = ConfiguredNode(c.nodes[i], id),
           NEW d, d = [nodes |-> v, edges |-> c.edges]
    PROVE  Better(d, c)
<1> DEFINE w == c.nodes
<1>1. /\ c \in Graphs /\ IsFiniteSet(c.edges) /\ OncePerInput(c.edges) /\ Acyclic(c.edges)
      /\ c.edges \subseteq Connections /\ w \in Seq(Nodes)
      /\ \A x \in c.edges : {x.source, x.target} \subseteq IdsOf(c)
  BY DEF Shaped, Graphs
<1>2. \A i \in DOMAIN w : w[i] \in Nodes /\ w[i] \in NodesOf(c)
  BY <1>1, LenProperties DEF ToSet, NodesOf
<1>3. ASSUME NEW i \in DOMAIN w
      PROVE  /\ v[i] \in Nodes /\ v[i].id = w[i].id /\ v[i].inputs = w[i].inputs
             /\ v[i] = w[i] \/ v[i].params = <<v[i].inputs>>
  <2>1. CASE w[i].id = id
    <3>1. w[i] \in Nodes /\ <<w[i].inputs>> \in Seq(Seq(Anchors))
      BY <1>2 DEF Nodes
    <3> DEFINE n == w[i]
               p == <<n.inputs>>
    <3>2. v[i] = [n EXCEPT !.params = p]
      BY <2>1 DEF ConfiguredNode
    <3>3. n \in Nodes /\ p \in Seq(Seq(Anchors))
      BY <3>1
    <3> HIDE DEF n, p
    <3>4. v[i] \in Nodes /\ v[i].id = n.id /\ v[i].inputs = n.inputs /\ v[i].params = p
      BY <3>2, <3>3, WithParams
    <3> QED
      BY <3>4 DEF n, p
  <2>2. CASE w[i].id # id
    BY <1>2, <2>2 DEF ConfiguredNode
  <2> QED
    BY <2>1, <2>2
<1>4. ASSUME Follows(c), NEW i \in DOMAIN w PROVE v[i].inputs = DeriveInputs(v[i].id, c.edges)
  BY <1>2, <1>3, <1>4 DEF Follows
<1>5. ASSUME Latest(c), NEW i \in DOMAIN w PROVE LatestNode(v[i])
  <2>1. LatestNode(w[i])
    BY <1>2, <1>5 DEF Latest, LatestNode
  <2>2. CASE v[i].params = <<v[i].inputs>>
    <3>1. v[i].params[1] = v[i].inputs
      BY <2>2
    <3> QED
      BY <3>1 DEF LatestNode
  <2> QED
    BY <1>3, <2>1, <2>2
<1> HIDE DEF w
<1>6. \A i \in DOMAIN c.nodes :
         /\ v[i] \in Nodes /\ v[i].id = c.nodes[i].id
         /\ Follows(c) => v[i].inputs = DeriveInputs(v[i].id, c.edges)
         /\ Latest(c) => LatestNode(v[i])
  BY <1>3, <1>4, <1>5 DEF w
<1> QED
  BY <1>1, <1>6, Altered

(* Importing: the parts of Remapped by name. *)
To(nodes, ids, id) ==
    IF id \in {n.id : n \in ToSet(nodes)} THEN ids[CHOOSE i \in DOMAIN nodes : nodes[i].id = id] ELSE id
Anchored(nodes, ids, ins) ==
    [i \in DOMAIN ins |-> IF ins[i] = None THEN None ELSE <<To(nodes, ids, ins[i][1]), ins[i][2]>>]
Moved(nodes, edges, ids) ==
    {Edge(To(nodes, ids, e.source), e.out, To(nodes, ids, e.target), e.in) :
        e \in {x \in edges : /\ x.source \in {n.id : n \in ToSet(nodes)}
                             /\ x.target \in {n.id : n \in ToSet(nodes)}}}
All(n, id, in, p) == [n EXCEPT !.id = id, !.inputs = in, !.params = p]
MovedParams(nodes, ids, p) == IF p = None THEN None ELSE <<Anchored(nodes, ids, p[1])>>

LEMMA RemappedIs ==
    ASSUME NEW nodes, NEW edges, NEW ids, NEW d, d = Remapped(nodes, edges, ids),
           NEW moved, moved = Moved(nodes, edges, ids)
    PROVE  /\ d = [nodes |-> d.nodes, edges |-> moved]
           /\ d.nodes = [i \in DOMAIN nodes |-> d.nodes[i]]
           /\ \A i \in DOMAIN nodes :
                  d.nodes[i] = All(nodes[i], ids[i], DeriveInputs(ids[i], moved),
                                   MovedParams(nodes, ids, nodes[i].params))
<1>1. d = [nodes |-> [i \in DOMAIN nodes |-> All(nodes[i], ids[i], DeriveInputs(ids[i], moved),
                                                 MovedParams(nodes, ids, nodes[i].params))],
           edges |-> moved]
  BY DEF Remapped, All, MovedParams, Anchored, To, Moved
<1> DEFINE v(i) == All(nodes[i], ids[i], DeriveInputs(ids[i], moved), MovedParams(nodes, ids, nodes[i].params))
<1>2. d = [nodes |-> [i \in DOMAIN nodes |-> v(i)], edges |-> moved]
  BY <1>1
<1> HIDE DEF v
<1>3. d.nodes = [i \in DOMAIN nodes |-> v(i)]
  BY <1>2
<1>4. \A i \in DOMAIN nodes : d.nodes[i] = v(i)
  BY <1>3
<1>5. d = [nodes |-> d.nodes, edges |-> moved] /\ d.nodes = [i \in DOMAIN nodes |-> d.nodes[i]]
  BY <1>2, <1>3
<1> QED
  BY <1>4, <1>5 DEF v

LEMMA AllIs ==
    ASSUME NEW n \in Nodes, NEW id \in Ids, NEW in \in Seq(Anchors), NEW p \in Seq(Seq(Anchors)),
           NEW m, m = All(n, id, in, p)
    PROVE  m \in Nodes /\ m.id = id /\ m.kind = n.kind /\ m.inputs = in /\ m.params = p
  BY DEF Nodes, All

(* An id of its own for every node. *)
FreshFor(ids, nodes) ==
    /\ \A i \in DOMAIN nodes : ids[i] \in Ids
    /\ \A i, j \in DOMAIN nodes : ids[i] = ids[j] => i = j
RenamesIds(nodes, ids) == \A x \in Ids : To(nodes, ids, x) \in Ids

Renames(nodes, ids, known) ==
    /\ \A x \in known : To(nodes, ids, x) \in {ids[i] : i \in DOMAIN nodes}
    /\ \A x, y \in known : To(nodes, ids, x) = To(nodes, ids, y) => x = y
    /\ RenamesIds(nodes, ids)
    /\ Distinct(nodes) => \A i \in DOMAIN nodes : To(nodes, ids, nodes[i].id) = ids[i]

LEMMA ToIs ==
    ASSUME NEW nodes \in Seq(Nodes), NEW ids, FreshFor(ids, nodes),
           NEW known, known = {n.id : n \in ToSet(nodes)}
    PROVE  Renames(nodes, ids, known)
<1> DEFINE at(x) == CHOOSE i \in DOMAIN nodes : nodes[i].id = x
<1>1. \A x \in known : at(x) \in DOMAIN nodes /\ nodes[at(x)].id = x
  BY DEF ToSet
<1>2. \A x \in known : To(nodes, ids, x) = ids[at(x)]
  BY DEF To
<1>3. \A x : x \notin known => To(nodes, ids, x) = x
  BY DEF To
<1>4. \A i \in DOMAIN nodes : nodes[i].id \in known
  BY DEF ToSet
<1> HIDE DEF at
<1>5. \A x, y \in known : To(nodes, ids, x) = To(nodes, ids, y) => x = y
  <2> SUFFICES ASSUME NEW x \in known, NEW y \in known, To(nodes, ids, x) = To(nodes, ids, y) PROVE x = y
    OBVIOUS
  <2>1. at(x) = at(y)
    BY <1>1, <1>2 DEF FreshFor
  <2> QED
    BY <1>1, <2>1
<1>6. RenamesIds(nodes, ids)
  BY <1>1, <1>2, <1>3 DEF FreshFor, RenamesIds
<1>7. Distinct(nodes) => \A i \in DOMAIN nodes : at(nodes[i].id) = i
  BY <1>1, <1>4 DEF Distinct
<1>8. Distinct(nodes) => \A i \in DOMAIN nodes : To(nodes, ids, nodes[i].id) = ids[i]
  BY <1>2, <1>4, <1>7
<1>9. \A x \in known : To(nodes, ids, x) \in {ids[i] : i \in DOMAIN nodes}
  BY <1>1, <1>2
<1> QED
  BY <1>5, <1>6, <1>8, <1>9 DEF Renames

LEMMA AnchoredIs ==
    ASSUME NEW nodes, NEW ids, RenamesIds(nodes, ids), NEW ins \in Seq(Anchors)
    PROVE  /\ Anchored(nodes, ids, ins) \in Seq(Anchors)
           /\ DOMAIN Anchored(nodes, ids, ins) = DOMAIN ins
           /\ \A i \in DOMAIN ins : ins[i] # None =>
                  Anchored(nodes, ids, ins)[i] = <<To(nodes, ids, ins[i][1]), ins[i][2]>>
<1> DEFINE v(i) == IF ins[i] = None THEN None ELSE <<To(nodes, ids, ins[i][1]), ins[i][2]>>
           m == Len(ins)
<1>1. m \in Nat /\ DOMAIN ins = 1..m /\ \A i \in 1..m : ins[i] \in Anchors
  BY LenProperties
<1>2. ASSUME NEW i \in 1..m PROVE v(i) \in Anchors
  <2>1. CASE ins[i] = None
    BY <2>1 DEF Anchors
  <2>2. CASE ins[i] # None
    <3>1. ins[i] \in Ids \X Nat
      BY <1>1, <2>2 DEF Anchors
    <3>2. ins[i][1] \in Ids /\ ins[i][2] \in Nat
      BY <3>1
    <3>3. v(i) \in Ids \X Nat
      BY <2>2, <3>2 DEF RenamesIds
    <3> QED
      BY <3>3 DEF Anchors
  <2> QED
    BY <2>1, <2>2
<1>3. Anchored(nodes, ids, ins) = [i \in 1..m |-> v(i)]
  BY <1>1 DEF Anchored
<1>4. \A i \in 1..m : ins[i] # None => v(i) = <<To(nodes, ids, ins[i][1]), ins[i][2]>>
  OBVIOUS
<1> HIDE DEF v, m
<1>5. [i \in 1..m |-> v(i)] \in Seq(Anchors)
  BY <1>1, <1>2, IsASeq
<1> QED
  BY <1>1, <1>3, <1>4, <1>5

LEMMA MovedIs ==
    ASSUME NEW f, Shaped(f), NEW ids, FreshFor(ids, f.nodes),
           NEW moved, moved = Moved(f.nodes, f.edges, ids),
           NEW to, \A x \in IdsOf(f) : to[x] = To(f.nodes, ids, x)
    PROVE  /\ IsFiniteSet(moved) /\ moved \subseteq Connections /\ OncePerInput(moved) /\ Acyclic(moved)
           /\ \A m \in moved : \E e \in f.edges :
                  /\ e.source \in IdsOf(f) /\ e.target \in IdsOf(f)
                  /\ m.source = to[e.source] /\ m.target = to[e.target] /\ m.out = e.out /\ m.in = e.in
           /\ \A x \in IdsOf(f) : to[x] \in {ids[i] : i \in DOMAIN f.nodes}
           /\ \A x, y \in IdsOf(f) : to[x] = to[y] => x = y
<1> DEFINE nodes == f.nodes
           known == IdsOf(f)
           edges == {x \in f.edges : x.source \in known /\ x.target \in known}
           image(e) == Edge(To(nodes, ids, e.source), e.out, To(nodes, ids, e.target), e.in)
           g == [e \in edges |-> image(e)]
<1>1. /\ nodes \in Seq(Nodes) /\ IsFiniteSet(f.edges) /\ f.edges \subseteq Connections
      /\ OncePerInput(f.edges) /\ Acyclic(f.edges)
  BY DEF Shaped, Graphs
<1>2. known = {n.id : n \in ToSet(nodes)}
  BY DEF IdsOf, NodesOf
<1>3. moved = {image(e) : e \in edges}
  BY <1>2 DEF Moved
<1> HIDE DEF nodes, known
<1>4. /\ \A x \in known : To(nodes, ids, x) \in {ids[i] : i \in DOMAIN nodes}
      /\ \A x, y \in known : To(nodes, ids, x) = To(nodes, ids, y) => x = y
  <2>1. FreshFor(ids, nodes)
    BY DEF nodes
  <2>2. Renames(nodes, ids, known)
    BY <1>1, <1>2, <2>1, ToIs
  <2> QED
    BY <2>2 DEF Renames
<1>5. \A e \in edges : /\ image(e).source = To(nodes, ids, e.source) /\ image(e).target = To(nodes, ids, e.target)
                       /\ image(e).out = e.out /\ image(e).in = e.in
                       /\ image(e) = [source |-> image(e).source, out |-> image(e).out,
                                      target |-> image(e).target, in |-> image(e).in]
  BY DEF Edge
<1>6. g \in Surjection(edges, moved)
  <2> HIDE DEF image, edges
  <2> QED
    BY <1>3 DEF Surjection
<1>7. IsFiniteSet(moved)
  <2>1. IsFiniteSet(edges)
    BY <1>1, FS_Subset
  <2> HIDE DEF g, edges
  <2> QED
    BY <1>6, <2>1, FS_Surjection
<1> HIDE DEF image
<1>8. \A m \in moved : \E e \in edges : m = image(e)
  BY <1>3
<1>9. \A x \in known : To(nodes, ids, x) \in Ids
  BY <1>4 DEF nodes, FreshFor
<1>10. moved \subseteq Connections
  <2> SUFFICES ASSUME NEW e \in edges PROVE image(e) \in Connections
    BY <1>8
  <2>1. e.out \in Nat /\ e.in \in Nat \ {0}
    BY <1>1 DEF Connections
  <2>2. image(e).source \in Ids /\ image(e).target \in Ids /\ image(e).out \in Nat /\ image(e).in \in Nat \ {0}
    BY <1>5, <1>9, <2>1
  <2> QED
    BY <1>5, <2>2 DEF Connections
<1>11. \A x \in known : to[x] = To(nodes, ids, x)
  BY DEF nodes, known
<1>12. \A m \in moved : \E e \in f.edges :
           /\ e.source \in known /\ e.target \in known
           /\ m.source = to[e.source] /\ m.target = to[e.target] /\ m.out = e.out /\ m.in = e.in
           /\ m = image(e) /\ e \in edges
  <2> SUFFICES ASSUME NEW e \in edges
               PROVE  /\ image(e).source = to[e.source] /\ image(e).target = to[e.target]
                      /\ image(e).out = e.out /\ image(e).in = e.in
    BY <1>8
  <2> QED
    BY <1>5, <1>11
<1>13. \A x, y \in known : to[x] = to[y] => x = y
  BY <1>4, <1>11
<1>14. OncePerInput(moved)
  <2> SUFFICES ASSUME NEW m \in moved, NEW k \in moved, m.target = k.target, m.in = k.in PROVE m = k
    BY DEF OncePerInput
  <2>1. PICK e \in f.edges : /\ e.target \in known /\ m.target = to[e.target] /\ m.in = e.in /\ m = image(e)
    BY <1>12
  <2>2. PICK x \in f.edges : /\ x.target \in known /\ k.target = to[x.target] /\ k.in = x.in /\ k = image(x)
    BY <1>12
  <2>3. e.target = x.target /\ e.in = x.in
    BY <1>13, <2>1, <2>2
  <2>4. e = x
    BY <1>1, <2>3 DEF OncePerInput
  <2> QED
    BY <2>1, <2>2, <2>4
<1>15. Acyclic(moved)
  <2>1. Renamed(moved, f.edges, to, known)
    BY <1>12 DEF Renamed
  <2>2. OneToOne(to, known)
    BY <1>13 DEF OneToOne
  <2> QED
    BY <1>1, <1>7, <2>1, <2>2, RenamedEdges
<1>16. \A x \in known : to[x] \in {ids[i] : i \in DOMAIN nodes}
  BY <1>4, <1>11
<1> HIDE DEF edges
<1> QED
  BY <1>7, <1>10, <1>12, <1>13, <1>14, <1>15, <1>16 DEF known, nodes

LEMMA Imported ==
    ASSUME NEW f, Shaped(f), NEW ids, FreshFor(ids, f.nodes),
           NEW d, d = Remapped(f.nodes, f.edges, ids)
    PROVE  /\ Shaped(d) /\ Unique(d) /\ Follows(d)
           /\ Unique(f) /\ Follows(f) /\ Latest(f) => Latest(d)
           /\ IdsOf(d) = {ids[i] : i \in DOMAIN f.nodes}
<1> DEFINE nodes == f.nodes
           moved == Moved(f.nodes, f.edges, ids)
           to == [x \in IdsOf(f) |-> To(nodes, ids, x)]
           v == d.nodes
<1>1. /\ nodes \in Seq(Nodes) /\ f.edges \subseteq Connections /\ IsFiniteSet(f.edges) /\ OncePerInput(f.edges)
      /\ \A e \in f.edges : {e.source, e.target} \subseteq IdsOf(f)
  BY DEF Shaped, Graphs
<1>2. \A x \in IdsOf(f) : to[x] = To(nodes, ids, x)
  OBVIOUS
<1> HIDE DEF to, moved
<1>3. /\ IsFiniteSet(moved) /\ moved \subseteq Connections /\ OncePerInput(moved) /\ Acyclic(moved)
      /\ \A m \in moved : \E e \in f.edges :
             /\ e.source \in IdsOf(f) /\ e.target \in IdsOf(f)
             /\ m.source = to[e.source] /\ m.target = to[e.target] /\ m.out = e.out /\ m.in = e.in
      /\ \A x \in IdsOf(f) : to[x] \in {ids[i] : i \in DOMAIN nodes}
      /\ \A x, y \in IdsOf(f) : to[x] = to[y] => x = y
  BY <1>2, MovedIs DEF moved
<1>4. /\ d = [nodes |-> v, edges |-> moved]
      /\ v = [i \in DOMAIN nodes |-> v[i]]
      /\ \A i \in DOMAIN nodes :
             v[i] = All(nodes[i], ids[i], DeriveInputs(ids[i], moved), MovedParams(nodes, ids, nodes[i].params))
  BY RemappedIs DEF moved
<1> HIDE DEF v
<1>5. IdsOf(f) = {n.id : n \in ToSet(nodes)}
  BY DEF IdsOf, NodesOf
<1> HIDE DEF nodes
<1>6. FreshFor(ids, nodes)
  BY DEF nodes
<1>7. /\ \A i \in DOMAIN nodes : ids[i] \in Ids
      /\ \A i, j \in DOMAIN nodes : ids[i] = ids[j] => i = j
  BY <1>6 DEF FreshFor
<1>8. /\ RenamesIds(nodes, ids)
      /\ Distinct(nodes) => \A i \in DOMAIN nodes : To(nodes, ids, nodes[i].id) = ids[i]
  <2>1. Renames(nodes, ids, IdsOf(f))
    BY <1>1, <1>5, <1>6, ToIs
  <2> QED
    BY <2>1 DEF Renames
<1>9. \A i \in DOMAIN nodes : nodes[i] \in Nodes /\ nodes[i] \in NodesOf(f)
  BY <1>1, LenProperties DEF ToSet, NodesOf, nodes
<1>10. ASSUME NEW p \in Seq(Seq(Anchors))
       PROVE  /\ MovedParams(nodes, ids, p) \in Seq(Seq(Anchors))
              /\ p # None => /\ p[1] \in Seq(Anchors)
                             /\ MovedParams(nodes, ids, p)[1] = Anchored(nodes, ids, p[1])
              /\ p = None => MovedParams(nodes, ids, p) = None
  <2>1. CASE p = None
    BY <2>1 DEF MovedParams
  <2>2. CASE p # None
    <3>1. p[1] \in Seq(Anchors)
      BY <2>2, EmptySeq, ElementOfSeq DEF None
    <3>2. Anchored(nodes, ids, p[1]) \in Seq(Anchors)
      BY <1>8, <3>1, AnchoredIs
    <3>3. MovedParams(nodes, ids, p) = <<Anchored(nodes, ids, p[1])>>
      BY <2>2 DEF MovedParams
    <3> QED
      BY <2>2, <3>1, <3>2, <3>3
  <2> QED
    BY <2>1, <2>2
<1>11. ASSUME NEW i \in DOMAIN nodes
       PROVE  /\ v[i] \in Nodes /\ v[i].id = ids[i] /\ v[i].kind = nodes[i].kind
              /\ v[i].inputs = DeriveInputs(ids[i], moved)
              /\ v[i].params = MovedParams(nodes, ids, nodes[i].params)
  <2>1. nodes[i] \in Nodes /\ nodes[i].params \in Seq(Seq(Anchors))
    BY <1>9 DEF Nodes
  <2>2. DeriveInputs(ids[i], moved) \in Seq(Anchors)
    BY <1>3, InputsAre
  <2>3. MovedParams(nodes, ids, nodes[i].params) \in Seq(Seq(Anchors))
    BY <1>10, <2>1
  <2> QED
    BY <1>4, <1>7, <2>1, <2>2, <2>3, AllIs
<1>12. Len(nodes) \in Nat /\ DOMAIN nodes = 1..Len(nodes) /\ DOMAIN v = DOMAIN nodes
  BY <1>1, <1>4, LenProperties
<1>13. v \in Seq(Nodes)
  <2>1. v = [i \in 1..Len(nodes) |-> v[i]] /\ \A i \in 1..Len(nodes) : v[i] \in Nodes
    BY <1>4, <1>11, <1>12
  <2> QED
    BY <1>12, <2>1, IsASeq
<1>14. d.nodes = v /\ d.edges = moved /\ d \in Graphs
  BY <1>3, <1>4, <1>13 DEF Graphs
<1>15. NodesOf(d) = {v[i] : i \in DOMAIN nodes}
  BY <1>12, <1>14 DEF NodesOf, ToSet
<1>16. IdsOf(d) = {ids[i] : i \in DOMAIN nodes}
  BY <1>11, <1>15 DEF IdsOf
<1>17. Shaped(d)
  <2>1. \A m \in moved : {m.source, m.target} \subseteq IdsOf(d)
    BY <1>3, <1>16
  <2> QED
    BY <1>3, <1>14, <2>1 DEF Shaped
<1>18. Distinct(v)
  BY <1>7, <1>11, <1>12 DEF Distinct
<1>19. Unique(d)
  BY <1>13, <1>14, <1>18, UniqueIsDistinct
<1>20. Follows(d)
  BY <1>11, <1>14, <1>15 DEF Follows
<1>21. ASSUME Unique(f), Follows(f), Latest(f) PROVE Latest(d)
  <2>1. Distinct(nodes)
    BY <1>1, <1>21, UniqueIsDistinct DEF nodes
  <2> SUFFICES ASSUME NEW i \in DOMAIN nodes, v[i].kind \in Modifications, v[i].params # None,
                      NEW j \in DOMAIN v[i].inputs, v[i].inputs[j] # None
               PROVE  j \in DOMAIN v[i].params[1] /\ v[i].params[1][j] = v[i].inputs[j]
    BY <1>15 DEF Latest
  <2> DEFINE n == nodes[i]
  <2>2. n \in Nodes /\ n \in NodesOf(f) /\ n.kind \in Modifications /\ n.params \in Seq(Seq(Anchors))
    BY <1>9, <1>11 DEF Nodes
  <2>3. n.params # None /\ n.params[1] \in Seq(Anchors) /\ v[i].params[1] = Anchored(nodes, ids, n.params[1])
    BY <1>10, <1>11, <2>2
  <2>4. PICK m \in moved : m.target = ids[i] /\ m.in = j /\ v[i].inputs[j] = <<m.source, m.out>>
    <3>1. DeriveInputs(ids[i], moved)[j] # None /\ j \in DOMAIN DeriveInputs(ids[i], moved)
      BY <1>11
    <3>2. \E m \in moved : m.target = ids[i] /\ m.in = j /\ DeriveInputs(ids[i], moved)[j] = <<m.source, m.out>>
      BY <1>3, <3>1, InputsAre
    <3> QED
      BY <1>11, <3>2
  <2>5. PICK e \in f.edges : /\ e.source \in IdsOf(f) /\ e.target \in IdsOf(f)
                             /\ m.source = to[e.source] /\ m.target = to[e.target] /\ m.out = e.out /\ m.in = e.in
    BY <1>3
  <2>6. n.id \in IdsOf(f) /\ to[n.id] = ids[i]
    BY <1>2, <1>8, <2>1, <2>2 DEF IdsOf, nodes
  <2>7. e.target = n.id
    BY <1>3, <2>4, <2>5, <2>6
  <2>8. n.inputs = DeriveInputs(n.id, f.edges)
    BY <1>21, <2>2 DEF Follows
  <2>9. e.in \in DOMAIN n.inputs /\ n.inputs[e.in] = <<e.source, e.out>>
    BY <1>1, <2>7, <2>8, InputsAre
  <2>10. n.inputs[j] # None /\ j \in DOMAIN n.inputs /\ n.inputs[j] = <<e.source, e.out>>
    BY <2>4, <2>5, <2>9 DEF None
  <2>11. j \in DOMAIN n.params[1] /\ n.params[1][j] = <<e.source, e.out>>
    BY <1>21, <2>2, <2>3, <2>10 DEF Latest
  <2> HIDE DEF n
  <2>12. n.params[1][j] # None /\ n.params[1][j][1] = e.source /\ n.params[1][j][2] = e.out
    BY <2>11 DEF None
  <2>13. j \in DOMAIN v[i].params[1] /\ v[i].params[1][j] = <<To(nodes, ids, e.source), e.out>>
    <3> DEFINE q == n.params[1]
    <3>1. /\ q \in Seq(Anchors) /\ v[i].params[1] = Anchored(nodes, ids, q)
          /\ j \in DOMAIN q /\ q[j] # None /\ q[j][1] = e.source /\ q[j][2] = e.out
      BY <2>3, <2>11, <2>12
    <3> HIDE DEF q
    <3> QED
      BY <1>8, <3>1, AnchoredIs
  <2> QED
    BY <1>2, <2>4, <2>5, <2>13
<1> QED
  BY <1>16, <1>17, <1>19, <1>20, <1>21 DEF nodes

(* Adding and pasting. *)
Drafts == [id : Ids \cup {None}, kind : Kinds, inputs : Seq(Anchors), params : Seq(Seq(Anchors))]

LEMMA NodesAreDrafts ==
    ASSUME NEW s \in Seq(Nodes)
    PROVE  s \in Seq(Drafts)
<1>1. Nodes \subseteq Drafts
  BY DEF Nodes, Drafts
<1> QED
  BY <1>1, SeqMonotonic

LEMMA CloneIs ==
    ASSUME NEW n \in Drafts, NEW id \in Ids, NEW m, m = Clone(n, id)
    PROVE  /\ m \in Nodes /\ m.id = id /\ m.kind = n.kind /\ m.inputs = <<>>
           /\ n.kind \in Modifications => m.params = None
<1> DEFINE p == IF n.kind \in Modifications THEN None ELSE n.params
<1>1. p \in Seq(Seq(Anchors)) /\ <<>> \in Seq(Anchors)
  BY DEF None, Drafts
<1>2. m = All(n, id, <<>>, p)
  BY DEF Clone, All
<1>3. n.kind \in Modifications => p = None
  OBVIOUS
<1> HIDE DEF p
<1>4. m \in Nodes /\ m.id = id /\ m.kind = n.kind /\ m.inputs = <<>> /\ m.params = p
  <2> DEFINE in == <<>>
  <2>1. in \in Seq(Anchors) /\ m = All(n, id, in, p)
    BY <1>1, <1>2
  <2> HIDE DEF in
  <2>2. m \in Nodes /\ m.id = id /\ m.kind = n.kind /\ m.inputs = in /\ m.params = p
    BY <1>1, <2>1 DEF Nodes, Drafts, All
  <2> QED
    BY <2>2 DEF in
<1> QED
  BY <1>3, <1>4

LEMMA FreshIs ==
    ASSUME NEW p, p.nodes \in Seq(Drafts), p.local \in Nat, p.got \in Nat, p.graph \in 1..MaxGraphs
    PROVE  /\ FreshFor(FreshIds(p), p.nodes)
           /\ DOMAIN FreshIds(p) = DOMAIN p.nodes
           /\ \A i \in DOMAIN p.nodes : FreshIds(p)[i][1] = p.graph /\ FreshIds(p)[i][2] > p.local
<1> DEFINE max == IF p.local > p.got THEN p.local ELSE p.got
<1>1. max \in Nat /\ max >= p.local
  OBVIOUS
<1>2. FreshIds(p) = [i \in DOMAIN p.nodes |-> <<p.graph, max + i>>]
  BY DEF FreshIds, Id
<1>3. \A i \in DOMAIN p.nodes : i \in Nat /\ i >= 1
  BY LenProperties
<1> HIDE DEF max
<1>4. \A i \in DOMAIN p.nodes : /\ FreshIds(p)[i] = <<p.graph, max + i>>
                                /\ max + i \in Nat /\ max + i > p.local
  <2> DEFINE dom == DOMAIN p.nodes
             g == p.graph
             l == p.local
             f == FreshIds(p)
  <2>1. f = [i \in dom |-> <<g, max + i>>] /\ l \in Nat /\ max >= l /\ \A i \in dom : i \in Nat /\ i >= 1
    BY <1>1, <1>2, <1>3
  <2> HIDE DEF dom, g, l, f
  <2>2. \A i \in dom : f[i] = <<g, max + i>> /\ max + i \in Nat /\ max + i > l
    BY <1>1, <2>1
  <2> QED
    BY <2>2 DEF dom, g, l, f
<1>5. \A i \in DOMAIN p.nodes : /\ FreshIds(p)[i] \in Ids
                                /\ FreshIds(p)[i][1] = p.graph /\ FreshIds(p)[i][2] = max + i
  <2> SUFFICES ASSUME NEW i \in DOMAIN p.nodes
               PROVE  /\ FreshIds(p)[i] \in Ids
                      /\ FreshIds(p)[i][1] = p.graph /\ FreshIds(p)[i][2] = max + i
    OBVIOUS
  <2> DEFINE g == p.graph
             n == max + i
             x == FreshIds(p)[i]
  <2>1. x = <<g, n>> /\ n \in Nat /\ g \in 1..MaxGraphs
    BY <1>4
  <2> HIDE DEF g, n, x
  <2>2. x \in Ids /\ x[1] = g /\ x[2] = n
    BY <2>1 DEF Ids
  <2> QED
    BY <2>2 DEF g, n, x
<1>6. \A i, j \in DOMAIN p.nodes : FreshIds(p)[i] = FreshIds(p)[j] => i = j
  BY <1>1, <1>3, <1>5
<1> QED
  BY <1>2, <1>4, <1>5, <1>6 DEF FreshFor

LEMMA MaxIndexIs ==
    ASSUME NEW nodes \in Seq(Nodes)
    PROVE  MaxIndex(nodes) \in Nat /\ \A n \in ToSet(nodes) : n.id[2] <= MaxIndex(nodes)
<1> DEFINE vals == {n.id[2] : n \in ToSet(nodes)}
           f == [i \in 1..Len(nodes) |-> nodes[i].id[2]]
           s == vals \cup {0}
<1>1. Len(nodes) \in Nat /\ DOMAIN nodes = 1..Len(nodes) /\ \A i \in DOMAIN nodes : nodes[i] \in Nodes
  BY LenProperties
<1>2. f \in Surjection(1..Len(nodes), vals)
  BY <1>1 DEF Surjection, ToSet
<1>3. \A n \in ToSet(nodes) : n.id[2] \in Nat
  BY <1>1 DEF ToSet, Nodes, Ids
<1>4. IsFiniteSet(vals)
  <2>1. IsFiniteSet(1..Len(nodes))
    BY <1>1, FS_Interval
  <2> HIDE DEF f
  <2> QED
    BY <1>2, <2>1, FS_Surjection
<1>5. s \subseteq Nat /\ IsFiniteSet(s) /\ s # {}
  BY <1>3, <1>4, FS_AddElement
<1>6. \A n \in ToSet(nodes) : n.id[2] \in s
  OBVIOUS
<1>7. MaxIndex(nodes) = Max(s)
  BY DEF MaxIndex
<1> HIDE DEF s
<1>8. Max(s) \in s /\ \A y \in s : y <= Max(s)
  BY <1>5, MaxIs
<1> QED
  BY <1>5, <1>6, <1>7, <1>8

(* Nodes as they are pasted. *)
Bare(q) ==
    /\ q \in Seq(Nodes)
    /\ \A j \in DOMAIN q : /\ q[j].inputs = <<>>
                           /\ q[j].kind \in Modifications => q[j].params = None
IdsIn(q) == {q[j].id : j \in DOMAIN q}

Extension(c, q) == [nodes |-> c.nodes \o q, edges |-> c.edges]

LEMMA Pasted ==
    ASSUME NEW c, Shaped(c), NEW q, Bare(q), NEW d, d = Extension(c, q)
    PROVE  /\ Shaped(d)
           /\ IdsOf(d) = IdsOf(c) \cup IdsIn(q)
           /\ Unique(c) /\ Distinct(q) /\ IdsIn(q) \cap IdsOf(c) = {} => Unique(d)
           /\ Follows(c) /\ IdsIn(q) \cap IdsOf(c) = {} => Follows(d)
           /\ Latest(c) => Latest(d)
<1>0. /\ q \in Seq(Nodes)
      /\ \A j \in DOMAIN q : /\ q[j].inputs = <<>>
                             /\ q[j].kind \in Modifications => q[j].params = None
  BY DEF Bare
<1> DEFINE w == c.nodes
           v == w \o q
           l == Len(w)
           m == Len(q)
           new == IdsIn(q)
<1>1. /\ c \in Graphs /\ IsFiniteSet(c.edges) /\ OncePerInput(c.edges) /\ Acyclic(c.edges)
      /\ c.edges \subseteq Connections /\ w \in Seq(Nodes)
      /\ \A e \in c.edges : {e.source, e.target} \subseteq IdsOf(c)
  BY DEF Shaped, Graphs
<1>2. l \in Nat /\ DOMAIN w = 1..l /\ m \in Nat /\ DOMAIN q = 1..m
  BY <1>0, <1>1, LenProperties
<1>3. /\ v \in Seq(Nodes) /\ Len(v) = l + m
      /\ \A i \in 1..(l + m) : v[i] = IF i <= l THEN w[i] ELSE q[i - l]
  BY <1>0, <1>1, ConcatProperties
<1>4. d.nodes = v /\ d.edges = c.edges /\ d \in Graphs
  BY <1>1, <1>3 DEF Graphs, Extension
<1> HIDE DEF v, l, m
<1>5. DOMAIN v = 1..(l + m)
  BY <1>2, <1>3, LenProperties
<1>6. \A i \in DOMAIN v : \/ i \in DOMAIN w /\ v[i] = w[i]
                          \/ ~(i \in DOMAIN w) /\ i - l \in DOMAIN q /\ v[i] = q[i - l]
  BY <1>2, <1>3, <1>5
<1>7. /\ \A i \in DOMAIN w : i \in DOMAIN v /\ v[i] = w[i]
      /\ \A j \in DOMAIN q : j + l \in DOMAIN v /\ v[j + l] = q[j]
  <2>1. \A i \in DOMAIN w : i \in DOMAIN v /\ v[i] = w[i]
    BY <1>2, <1>3, <1>5
  <2>2. ASSUME NEW j \in DOMAIN q PROVE j + l \in DOMAIN v /\ v[j + l] = q[j]
    <3>1. j + l \in 1..(l + m) /\ ~(j + l <= l) /\ (j + l) - l = j
      BY <1>2
    <3> QED
      BY <1>3, <1>5, <3>1
  <2> QED
    BY <2>1, <2>2
<1>8. ToSet(v) = ToSet(w) \cup ToSet(q)
  <2>1. ToSet(v) \subseteq ToSet(w) \cup ToSet(q)
    BY <1>6 DEF ToSet
  <2>2. ToSet(w) \subseteq ToSet(v) /\ ToSet(q) \subseteq ToSet(v)
    BY <1>7 DEF ToSet
  <2> QED
    BY <2>1, <2>2
<1>9. NodesOf(d) = NodesOf(c) \cup ToSet(q) /\ new = {n.id : n \in ToSet(q)}
  <2>1. NodesOf(d) = NodesOf(c) \cup ToSet(q)
    BY <1>4, <1>8 DEF NodesOf
  <2>2. ToSet(q) = {q[i] : i \in DOMAIN q}
    BY DEF ToSet
  <2>3. new = {q[i].id : i \in DOMAIN q}
    BY DEF IdsIn
  <2> QED
    BY <2>1, <2>2, <2>3
<1> HIDE DEF new
<1>10. IdsOf(d) = IdsOf(c) \cup new
  BY <1>9 DEF IdsOf
<1>11. Shaped(d)
  BY <1>1, <1>4, <1>10 DEF Shaped
<1>12. ASSUME Unique(c), Distinct(q), new \cap IdsOf(c) = {} PROVE Unique(d)
  <2>1. Distinct(w)
    BY <1>1, <1>12, UniqueIsDistinct
  <2>2. \A i \in DOMAIN w : w[i].id \in IdsOf(c)
    BY DEF IdsOf, NodesOf, ToSet
  <2>3. ASSUME NEW i \in DOMAIN w, NEW j \in DOMAIN q PROVE w[i].id # q[j].id
    <3>1. q[j].id \in new
      BY DEF new, IdsIn
    <3> QED
      BY <1>12, <2>2, <3>1
  <2>4. ASSUME NEW i \in DOMAIN v, NEW j \in DOMAIN v, v[i].id = v[j].id PROVE i = j
    <3>1. CASE i \in DOMAIN w /\ j \in DOMAIN w
      BY <1>6, <2>1, <2>4, <3>1 DEF Distinct
    <3>2. CASE ~(i \in DOMAIN w) /\ ~(j \in DOMAIN w)
      <4>1. i - l \in DOMAIN q /\ j - l \in DOMAIN q /\ q[i - l].id = q[j - l].id
        BY <1>6, <2>4, <3>2
      <4>2. i - l = j - l
        BY <1>12, <4>1 DEF Distinct
      <4> QED
        BY <1>2, <1>5, <4>2
    <3> QED
      BY <1>6, <2>3, <2>4, <3>1, <3>2
  <2>5. Distinct(v)
    BY <2>4 DEF Distinct
  <2> QED
    BY <1>3, <1>4, <2>5, UniqueIsDistinct
<1>13. ASSUME Follows(c), new \cap IdsOf(c) = {} PROVE Follows(d)
  <2>1. ASSUME NEW n \in ToSet(q) PROVE n.inputs = DeriveInputs(n.id, c.edges)
    <3>1. n.inputs = <<>> /\ n.id \in new
      BY <1>0, <1>9 DEF ToSet
    <3>2. \A e \in c.edges : e.target # n.id
      BY <1>1, <1>13, <3>1
    <3> QED
      BY <3>1, <3>2, NoInputs
  <2> QED
    BY <1>4, <1>9, <1>13, <2>1 DEF Follows
<1>14. ASSUME Latest(c) PROVE Latest(d)
  <2>1. \A n \in ToSet(q) : n.kind \in Modifications => n.params = None
    BY <1>0 DEF ToSet
  <2> QED
    BY <1>9, <1>14, <2>1 DEF Latest
<1> QED
  BY <1>10, <1>11, <1>12, <1>13, <1>14 DEF new

-----------------------------------------------------------------------------
(* Connecting. *)
LEMMA KindOfIs ==
    ASSUME NEW c, c \in Graphs, NEW id \in IdsOf(c)
    PROVE  /\ KindOf(c, id) \in Kinds
           /\ InPorts(KindOf(c, id)) \subseteq Nat \ {0} /\ OutPorts(KindOf(c, id)) \subseteq Nat \ {0}
           /\ DOMAIN Ports[KindOf(c, id)].ins \subseteq Nat \ {0}
           /\ DOMAIN Ports[KindOf(c, id)].outs \subseteq Nat \ {0}
           /\ OutPorts(KindOf(c, id)) \subseteq DOMAIN Ports[KindOf(c, id)].outs
           /\ InPorts(KindOf(c, id)) = DOMAIN Ports[KindOf(c, id)].ins
           /\ id \in Ids
<1> DEFINE n == CHOOSE n \in NodesOf(c) : n.id = id
<1>1. n \in NodesOf(c) /\ n.id = id
  BY DEF IdsOf
<1>2. KindOf(c, id) = n.kind
  BY DEF KindOf
<1> HIDE DEF n
<1>3. c.nodes \in Seq(Nodes)
  BY DEF Graphs
<1>4. n \in Nodes
  BY <1>1, <1>3, LenProperties DEF NodesOf, ToSet
<1>5. KindOf(c, id) \in Kinds /\ id \in Ids
  BY <1>1, <1>2, <1>4 DEF Nodes
<1> QED
  BY <1>5, CanvasAssumption DEF InPorts, OutPorts

LEMMA EdgeIs ==
    ASSUME NEW s, NEW o, NEW t, NEW i
    PROVE  /\ Edge(s, o, t, i).source = s /\ Edge(s, o, t, i).out = o
           /\ Edge(s, o, t, i).target = t /\ Edge(s, o, t, i).in = i
           /\ s \in Ids /\ t \in Ids /\ o \in Nat /\ i \in Nat \ {0} => Edge(s, o, t, i) \in Connections
  BY DEF Edge, Connections

LEMMA FreeInputIs ==
    ASSUME IsFiniteSet(canvas.edges), canvas.edges \subseteq Connections, NEW t
    PROVE  FreeInput(t) \in Nat \ {0}
<1> DEFINE mine == {e \in canvas.edges : e.target = t}
           used == {e.in : e \in mine}
           m == Cardinality(canvas.edges)
           f == [e \in mine |-> e.in]
           P(i) == /\ \A e \in canvas.edges : e.target = t => e.in # i
                   /\ \A j \in 1..(i - 1) : \E e \in canvas.edges : e.target = t /\ e.in = j
<1>1. m \in Nat /\ IsFiniteSet(mine) /\ Cardinality(mine) <= m /\ Cardinality(mine) \in Nat
  BY FS_CardinalityType, FS_Subset
<1>2. f \in Surjection(mine, used)
  BY DEF Surjection
<1>3. IsFiniteSet(used) /\ Cardinality(used) <= Cardinality(mine) /\ Cardinality(used) \in Nat
  <2> HIDE DEF f, mine, used
  <2> QED
    BY <1>1, <1>2, FS_Surjection, FS_CardinalityType
<1>4. used \subseteq Nat
  BY DEF Connections
<1> HIDE DEF m
<1>5. ~(1..(m + 1) \subseteq used)
  <2> HIDE DEF used, mine, f
  <2>1. Cardinality(1..(m + 1)) = m + 1
    BY <1>1, FS_Interval
  <2>2. 1..(m + 1) \subseteq used => Cardinality(1..(m + 1)) <= Cardinality(used)
    BY <1>3, FS_Subset
  <2> QED
    BY <1>1, <1>3, <2>1, <2>2
<1>6. \E i \in 1..(m + 1) : P(i)
  <2> DEFINE free == {i \in 1..(m + 1) : i \notin used}
  <2>1. free \subseteq Nat /\ free # {}
    BY <1>1, <1>5
  <2>2. PICK g \in free : \A h \in free : g <= h
    <3> HIDE DEF free
    <3> QED
      BY <2>1, Least
  <2>3. \A j \in 1..(g - 1) : j \in used
    <3> HIDE DEF used
    <3> QED
      BY <1>1, <2>2
  <2>4. P(g)
    BY <2>2, <2>3
  <2> QED
    BY <2>2, <2>4
<1>7. FreeInput(t) = CHOOSE i \in 1..(m + 1) : P(i)
  BY DEF FreeInput, m
<1> HIDE DEF P
<1>8. FreeInput(t) \in 1..(m + 1)
  BY <1>6, <1>7
<1> QED
  BY <1>1, <1>8

LEMMA Committed ==
    ASSUME Shaped(canvas), NEW e \in Connections, {e.source, e.target} \subseteq IdsOf(canvas),
           NEW ported, Valid(canvas, e, ported), CommitEdge(e)
    PROVE  PushHistory /\ Better(canvas', canvas)
<1> DEFINE edges == canvas.edges \cup {e}
           v == [i \in DOMAIN canvas.nodes |-> CommittedNode(canvas.nodes[i], e, edges)]
<1>1. canvas' = [nodes |-> v, edges |-> edges] /\ PushHistory
  BY DEF CommitEdge, Edited, OnNodes, CommittedNode
<1>2. v = [i \in DOMAIN canvas.nodes |-> v[i]] /\ edges = canvas.edges \cup {e}
  OBVIOUS
<1>3. \A i \in DOMAIN canvas.nodes : v[i] = CommittedNode(canvas.nodes[i], e, edges)
  OBVIOUS
<1> HIDE DEF v, edges
<1> DEFINE d == canvas'
<1>4. d = [nodes |-> v, edges |-> edges]
  BY <1>1
<1> HIDE DEF d
<1>5. Better(d, canvas)
  BY <1>2, <1>3, <1>4, Connected
<1> QED
  BY <1>1, <1>5 DEF d

(* Pick finds a valid connection if there is one: those tried before the     *)
(* first valid one are refused, and not for a cycle, since that depends on   *)
(* the two nodes alone.                                                      *)
Tried(c, s, t) == {Edge(s, o, t, i) : o \in OutPorts(KindOf(c, s)), i \in InPorts(KindOf(c, t))}

Joins(e, s, t) == e \in Connections /\ e.source = s /\ e.target = t

LEMMA PickIs ==
    ASSUME NEW c, c \in Graphs, NEW s \in IdsOf(c), NEW t \in IdsOf(c)
    PROVE  /\ \A e \in Pick(c, s, t) : e \in Tried(c, s, t) /\ Valid(c, e, TRUE) /\ Joins(e, s, t)
           /\ (\E e \in Tried(c, s, t) : Valid(c, e, TRUE)) => Pick(c, s, t) # {}
<1> DEFINE tried == Tried(c, s, t)
           yes == TRUE
           valid == {e \in tried : Valid(c, e, yes)}
<1>1. \A e \in tried : e \in Connections /\ e.source = s /\ e.target = t
  <2>1. \A o \in OutPorts(KindOf(c, s)) : o \in Nat
    BY KindOfIs
  <2>2. \A i \in InPorts(KindOf(c, t)) : i \in Nat \ {0}
    BY KindOfIs
  <2>3. s \in Ids /\ t \in Ids
    BY KindOfIs
  <2> QED
    BY <2>1, <2>2, <2>3, EdgeIs DEF Tried
<1> DEFINE First(e) == Valid(c, e, yes) /\ \A x \in tried :
                           Before(x, e) => ~Valid(c, x, yes) /\ ~Refused("CYCLE", c, x, yes)
<1>2. Pick(c, s, t) = IF s = t THEN {} ELSE {e \in tried : First(e)}
  BY DEF Pick, Tried
<1>3. \A e : e \in Pick(c, s, t) <=> s # t /\ e \in tried /\ First(e)
  <2> HIDE DEF First, tried
  <2> QED
    BY <1>2
<1> HIDE DEF yes, tried
<1>4. ASSUME NEW w \in valid PROVE Pick(c, s, t) # {}
  <2>1. ~IsReachable(t, s, c.edges) /\ s # t
    <3>1. Valid(c, w, yes) /\ w.source = s /\ w.target = t
      BY <1>1
    <3> QED
      BY <3>1, ValidEdge
  <2>2. \A x \in tried : ~Refused("CYCLE", c, x, yes)
    <3>1. \A x \in tried : ~Applies("CYCLE", c, x, yes)
      BY <1>1, <2>1 DEF Applies
    <3> QED
      BY <3>1 DEF Refused
  <2> DEFINE ins == {x.in : x \in valid}
  <2>3. ins \subseteq Nat /\ ins # {}
    BY <1>1 DEF Connections
  <2>4. PICK i \in ins : \A h \in ins : i <= h
    <3> HIDE DEF ins
    <3> QED
      BY <2>3, Least
  <2> DEFINE outs == {x.out : x \in {y \in valid : y.in = i}}
  <2>5. outs \subseteq Nat /\ outs # {}
    BY <1>1, <2>4 DEF Connections
  <2>6. PICK o \in outs : \A h \in outs : o <= h
    <3> HIDE DEF outs
    <3> QED
      BY <2>5, Least
  <2>7. PICK e \in valid : e.in = i /\ e.out = o
    BY <2>6
  <2>8. ASSUME NEW x \in tried, Before(x, e), x \in valid PROVE FALSE
    <3>1. x.in \in Nat /\ x.out \in Nat /\ e.in \in Nat /\ e.out \in Nat
      BY <1>1 DEF Connections
    <3>2. x.in < i \/ (x.in = i /\ x.out < o)
      BY <2>7, <2>8 DEF Before
    <3>3. i <= x.in
      BY <2>4, <2>8
    <3>4. x.in = i => o <= x.out
      BY <2>6, <2>8
    <3> QED
      BY <2>7, <3>1, <3>2, <3>3, <3>4
  <2>9. e \in Pick(c, s, t)
    BY <1>3, <2>1, <2>2, <2>8
  <2> QED
    BY <2>9
<1>5. (\E e \in tried : Valid(c, e, yes)) => Pick(c, s, t) # {}
  BY <1>4
<1>6. \A e \in tried : Joins(e, s, t)
  BY <1>1 DEF Joins
<1>7. \A e \in Pick(c, s, t) : e \in tried /\ Valid(c, e, yes) /\ Joins(e, s, t)
  BY <1>3, <1>6
<1> QED
  BY <1>5, <1>7 DEF yes, tried

LEMMA Complete ==
    ASSUME canvas \in Graphs
    PROVE  PickIsComplete
<1> SUFFICES ASSUME NEW s \in IdsOf(canvas), NEW t \in IdsOf(canvas)
             PROVE  LET valid == {e \in Candidates(s, t) : Valid(canvas, e, TRUE)}
                        found == Pick(canvas, s, t)
                    IN  found \subseteq valid /\ (found = {} => valid = {})
  BY DEF PickIsComplete
<1> DEFINE yes == TRUE
           tried == Tried(canvas, s, t)
<1>1. tried \subseteq Candidates(s, t)
  <2>1. /\ OutPorts(KindOf(canvas, s)) \subseteq DOMAIN Ports[KindOf(canvas, s)].outs
        /\ InPorts(KindOf(canvas, t)) = DOMAIN Ports[KindOf(canvas, t)].ins
    BY KindOfIs
  <2> QED
    BY <2>1 DEF Tried, Candidates
<1>2. ASSUME NEW e \in Candidates(s, t), Valid(canvas, e, yes) PROVE e \in tried
  <2>1. PICK o \in DOMAIN Ports[KindOf(canvas, s)].outs, i \in DOMAIN Ports[KindOf(canvas, t)].ins :
            e = Edge(s, o, t, i)
    BY DEF Candidates
  <2>2. e.source = s /\ e.out = o /\ e.target = t /\ e.in = i
    BY <2>1, EdgeIs
  <2>3. ~Applies("NO_PORT", canvas, e, yes)
    <3> HIDE DEF yes
    <3> QED
      BY <1>2, ValidIs
  <2>4. o \in OutPorts(KindOf(canvas, s)) /\ i \in InPorts(KindOf(canvas, t))
    BY <2>2, <2>3 DEF Applies
  <2> QED
    BY <2>1, <2>4 DEF Tried
<1>3. /\ \A e \in Pick(canvas, s, t) : e \in tried /\ Valid(canvas, e, yes)
      /\ (\E e \in tried : Valid(canvas, e, yes)) => Pick(canvas, s, t) # {}
  BY PickIs
<1> HIDE DEF tried
<1> QED
  BY <1>1, <1>2, <1>3

-----------------------------------------------------------------------------
(* Kahn's layers place every node of a canvas without a cycle.               *)
Placeable(c, placed) == {id \in IdsOf(c) : \A e \in c.edges : e.target = id => e.source \in placed}

LEMMA LayersAre ==
    ASSUME NEW c
    PROVE  /\ Layers(c)[0] = Placeable(c, {})
           /\ \A n \in Nat : /\ Layers(c)[n] \subseteq IdsOf(c)
                             /\ Layers(c)[n + 1] = Placeable(c, Layers(c)[n])
<1> DEFINE S == SUBSET IdsOf(c)
           D == [p \in S \X Nat |-> Placeable(c, p[1])]
           a == Placeable(c, {})
<1>1. a \in S /\ \A r : Placeable(c, r) \in S
  BY DEF Placeable
<1>2. D \in [S \X Nat -> S] /\ \A r \in S, n \in Nat : D[<<r, n>>] = Placeable(c, r)
  BY <1>1
<1> HIDE DEF S, D, a
<1>3. PICK g \in [Nat -> S] : Recursion(g, S, a, D)
  BY <1>1, <1>2, RecursionExists
<1>4. g = [n \in Nat |-> IF n = 0 THEN a ELSE Placeable(c, g[n - 1])]
  <2>1. \A n \in Nat : n # 0 => D[<<g[n - 1], n>>] = Placeable(c, g[n - 1])
    BY <1>2, <1>3
  <2> QED
    BY <1>3, <2>1 DEF Recursion
<1>5. g = [n \in Nat |-> Placeable(c, IF n = 0 THEN {} ELSE g[n - 1])]
  BY <1>4 DEF a
<1> DEFINE f == Layers(c)
<1>6. f = CHOOSE layer : layer = [n \in Nat |-> Placeable(c, IF n = 0 THEN {} ELSE layer[n - 1])]
  BY DEF Layers, Placeable
<1> HIDE DEF f
<1>7. f = [n \in Nat |-> Placeable(c, IF n = 0 THEN {} ELSE f[n - 1])]
  BY <1>5, <1>6
<1>8. f[0] = a
  BY <1>7 DEF a
<1>9. ASSUME NEW n \in Nat PROVE f[n] \subseteq IdsOf(c) /\ f[n + 1] = Placeable(c, f[n])
  <2>1. f[n] = Placeable(c, IF n = 0 THEN {} ELSE f[n - 1])
    BY <1>7
  <2>2. f[n] \in S
    BY <1>1, <2>1
  <2> DEFINE k == n + 1
  <2>3. k \in Nat /\ k # 0 /\ k - 1 = n
    OBVIOUS
  <2> HIDE DEF k
  <2>4. f[k] = Placeable(c, f[k - 1])
    BY <1>7, <2>3
  <2> QED
    BY <2>2, <2>3, <2>4 DEF k, S
<1> QED
  BY <1>8, <1>9 DEF f, a

LEMMA LayersGrow ==
    ASSUME NEW c, NEW m \in Nat, NEW n \in Nat, m <= n
    PROVE  Layers(c)[m] \subseteq Layers(c)[n]
<1> DEFINE f == Layers(c)
           P == {k \in Nat : f[k] \subseteq f[k + 1]}
           Q == {k \in Nat : m <= k => f[m] \subseteq f[k]}
<1>1. /\ f[0] = Placeable(c, {})
      /\ \A k \in Nat : f[k + 1] = Placeable(c, f[k])
  BY LayersAre
<1>2. \A r, q : r \subseteq q => Placeable(c, r) \subseteq Placeable(c, q)
  BY DEF Placeable
<1> HIDE DEF f
<1>3. 0 \in P
  <2>1. f[0 + 1] = Placeable(c, f[0])
    BY <1>1
  <2> QED
    BY <1>1, <1>2, <2>1
<1>4. ASSUME NEW k \in P PROVE k + 1 \in P
  <2>1. k \in Nat /\ k + 1 \in Nat /\ f[k] \subseteq f[k + 1]
    OBVIOUS
  <2>2. f[k + 1] = Placeable(c, f[k]) /\ f[(k + 1) + 1] = Placeable(c, f[k + 1])
    BY <1>1, <2>1
  <2>3. f[k + 1] \subseteq f[(k + 1) + 1]
    BY <1>2, <2>1, <2>2
  <2> QED
    BY <2>1, <2>3
<1>5. P \subseteq Nat
  OBVIOUS
<1> HIDE DEF P
<1>6. \A k \in Nat : k \in P
  BY <1>3, <1>4, <1>5, ByNumbers
<1>7. \A k \in Nat : f[k] \subseteq f[k + 1]
  BY <1>6 DEF P
<1>8. 0 \in Q /\ Q \subseteq Nat
  OBVIOUS
<1>9. ASSUME NEW k \in Q PROVE k + 1 \in Q
  <2>1. CASE m = k + 1
    BY <2>1
  <2>2. CASE m # k + 1
    BY <1>7, <2>2
  <2> QED
    BY <2>1, <2>2
<1> HIDE DEF Q
<1>10. n \in Q
  BY <1>8, <1>9, ByNumbers
<1> QED
  BY <1>10 DEF Q, f

(* Some node has nothing before it among those not yet placed: the one with  *)
(* the most downstream.                                                      *)
LEMMA SomeFirst ==
    ASSUME NEW edges, IsFiniteSet(edges), Acyclic(edges), NEW X, X # {}
    PROVE  \E x \in X : \A e \in edges : e.target = x => e.source \notin X
<1> DEFINE targets == {e.target : e \in edges}
           size == [x \in X |-> Cardinality(Downstream(x, edges))]
           sizes == {size[x] : x \in X}
           m == Cardinality(targets)
<1>1. IsFiniteSet(targets) /\ m \in Nat
  BY TargetsFinite, FS_CardinalityType
<1>2. \A x : Downstream(x, edges) \subseteq targets
  <2>1. \A r : Successors(r, edges) \subseteq targets
    BY DEF Successors
  <2> QED
    BY <2>1, DownstreamIs
<1> HIDE DEF targets, m
<1>3. \A x \in X : size[x] \in 0..m /\ IsFiniteSet(Downstream(x, edges))
  BY <1>1, <1>2, FS_Subset, FS_CardinalityType DEF m
<1>4. sizes \subseteq 0..m /\ sizes # {} /\ sizes \subseteq Nat
  BY <1>1, <1>3
<1>5. IsFiniteSet(sizes)
  <2>1. IsFiniteSet(0..m)
    BY <1>1, FS_Interval
  <2> HIDE DEF sizes
  <2> QED
    BY <1>4, <2>1, FS_Subset
<1>6. Max(sizes) \in sizes /\ \A y \in sizes : y <= Max(sizes)
  <2> HIDE DEF sizes
  <2> QED
    BY <1>4, <1>5, MaxIs
<1>7. PICK x \in X : \A y \in X : size[y] <= size[x]
  BY <1>6
<1>8. ASSUME NEW e \in edges, e.target = x, e.source \in X PROVE FALSE
  <2> DEFINE y == e.source
             dx == Downstream(x, edges)
             dy == Downstream(y, edges)
  <2>1. x \in dy
    <3>1. x \in Successors({y}, edges)
      BY <1>8 DEF Successors
    <3>2. Successors({y}, edges) \subseteq Downstream(y, edges)
      BY DownstreamIs
    <3> QED
      BY <3>1, <3>2
  <2>2. dx \subseteq dy
    <3>1. Successors(dy, edges) \subseteq dy
      BY DownstreamIs
    <3>2. Successors({x}, edges) \subseteq Successors(dy, edges)
      BY <2>1 DEF Successors
    <3> HIDE DEF dy
    <3>3. Successors({x}, edges) \subseteq dy
      BY <3>1, <3>2
    <3> QED
      BY <3>1, <3>3, DownstreamIs
  <2>3. x \notin dx
    BY DEF Acyclic
  <2>4. IsFiniteSet(dy) /\ y \in X /\ size[x] = Cardinality(dx) /\ size[y] = Cardinality(dy)
    BY <1>3, <1>8
  <2>5. size[x] \in Nat /\ size[y] \in Nat /\ size[y] <= size[x]
    BY <1>3, <1>7, <2>4
  <2> HIDE DEF dx, dy, y, size
  <2>6. Cardinality(dx) <= Cardinality(dy) /\ Cardinality(dx) # Cardinality(dy)
    BY <2>1, <2>2, <2>3, <2>4, FS_Subset
  <2> QED
    BY <2>4, <2>5, <2>6
<1> QED
  BY <1>8

LEMMA AllPlaced ==
    ASSUME NEW c, Shaped(c), Unique(c)
    PROVE  Layers(c)[Len(c.nodes)] = IdsOf(c) /\ Len(c.nodes) \in Nat
<1> DEFINE f == Layers(c)
           all == IdsOf(c)
           m == Len(c.nodes)
           P == {n \in Nat : f[n] = all \/ Cardinality(f[n]) >= n + 1}
<1>1. c.nodes \in Seq(Nodes)
  BY DEF Shaped, Graphs
<1>2. m \in Nat /\ m = Cardinality(all) /\ IsFiniteSet(all)
  <2>1. m \in Nat /\ DOMAIN c.nodes = 1..m
    BY <1>1, LenProperties
  <2> DEFINE g == [i \in 1..m |-> c.nodes[i].id]
  <2>2. g \in Surjection(1..m, all)
    BY <2>1 DEF Surjection, IdsOf, NodesOf, ToSet
  <2>3. IsFiniteSet(1..m)
    BY <2>1, FS_Interval
  <2> HIDE DEF g, all, m
  <2>4. IsFiniteSet(all)
    BY <2>2, <2>3, FS_Surjection
  <2> QED
    BY <2>1, <2>4 DEF Unique, all, m
<1>3. /\ f[0] = Placeable(c, {})
      /\ \A n \in Nat : f[n] \subseteq all /\ f[n + 1] = Placeable(c, f[n])
  BY LayersAre
<1>4. \A n \in Nat : f[n] \subseteq f[n + 1]
  BY LayersGrow
<1>5. ASSUME NEW r, r \subseteq all, r # all PROVE \E x \in all : x \notin r /\ x \in Placeable(c, r)
  <2> DEFINE X == all \ r
  <2>1. X # {}
    BY <1>5
  <2>2. IsFiniteSet(c.edges) /\ Acyclic(c.edges) /\ \A e \in c.edges : e.source \in all
    BY DEF Shaped
  <2> HIDE DEF X, all
  <2>3. PICK x \in X : \A e \in c.edges : e.target = x => e.source \notin X
    BY <2>1, <2>2, SomeFirst
  <2>4. x \in all /\ x \notin r /\ \A e \in c.edges : e.target = x => e.source \in r
    BY <2>2, <2>3 DEF X
  <2> QED
    BY <2>4 DEF Placeable, all
<1> HIDE DEF f, all, m
<1>6. \A n \in Nat : IsFiniteSet(f[n]) /\ Cardinality(f[n]) \in Nat
  BY <1>2, <1>3, FS_Subset, FS_CardinalityType
<1>7. 0 \in P /\ P \subseteq Nat
  <2>1. CASE all = {}
    BY <1>3, <2>1
  <2>2. CASE all # {}
    <3>1. \E x \in all : x \in f[0]
      BY <1>3, <1>5, <2>2
    <3>2. Cardinality(f[0]) # 0
      BY <1>6, <3>1, FS_EmptySet
    <3> QED
      BY <1>6, <3>2
  <2> QED
    BY <2>1, <2>2
<1>8. ASSUME NEW n \in P PROVE n + 1 \in P
  <2>1. n \in Nat /\ n + 1 \in Nat /\ f[n] \subseteq all /\ f[n + 1] \subseteq all /\ f[n] \subseteq f[n + 1]
    BY <1>3, <1>4
  <2>2. CASE f[n] = all
    BY <2>1, <2>2
  <2>3. CASE f[n] # all
    <3>1. Cardinality(f[n]) >= n + 1
      BY <2>3
    <3>2. f[n] # f[n + 1]
      BY <1>3, <1>5, <2>1, <2>3
    <3>3. Cardinality(f[n]) <= Cardinality(f[n + 1]) /\ Cardinality(f[n]) # Cardinality(f[n + 1])
      BY <1>6, <2>1, <3>2, FS_Subset
    <3>4. Cardinality(f[n + 1]) >= (n + 1) + 1
      BY <1>6, <2>1, <3>1, <3>3
    <3> QED
      BY <2>1, <3>4
  <2> QED
    BY <2>2, <2>3
<1> HIDE DEF P
<1>9. m \in P
  BY <1>2, <1>7, <1>8, ByNumbers
<1>10. ~(Cardinality(f[m]) >= m + 1)
  <2>1. Cardinality(f[m]) <= m
    BY <1>2, <1>3, FS_Subset
  <2> QED
    BY <1>2, <1>6, <2>1
<1>11. f[m] = all
  BY <1>9, <1>10 DEF P
<1> QED
  BY <1>2, <1>11 DEF f, all, m

LEMMA LayerOfIs ==
    ASSUME NEW c, Shaped(c), Unique(c), NEW id \in IdsOf(c)
    PROVE  /\ LayerOf(c, id) \in Nat
           /\ id \in Layers(c)[LayerOf(c, id)]
           /\ LayerOf(c, id) > 0 => id \notin Layers(c)[LayerOf(c, id) - 1]
<1> DEFINE f == Layers(c)
           m == Len(c.nodes)
           here == {n \in 0..m : id \in f[n]}
           At(n) == id \in f[n] /\ (n > 0 => id \notin f[n - 1])
<1>1. m \in Nat /\ id \in f[m]
  BY AllPlaced
<1> HIDE DEF f, m
<1>2. here \subseteq Nat /\ here # {} /\ \E n \in 0..m : id \in f[n]
  BY <1>1
<1>3. PICK g \in here : \A h \in here : g <= h
  <2> HIDE DEF here
  <2> QED
    BY <1>2, Least
<1>4. g \in 0..m /\ At(g)
  BY <1>1, <1>3
<1>5. LayerOf(c, id) = CHOOSE n \in 0..m : At(n)
  BY <1>2 DEF LayerOf, f, m
<1> HIDE DEF At
<1>6. LayerOf(c, id) \in 0..m /\ At(LayerOf(c, id))
  BY <1>4, <1>5
<1> QED
  BY <1>1, <1>6 DEF At, f

LEMMA LayersFollow ==
    ASSUME NEW c, Shaped(c), Unique(c), NEW e \in c.edges
    PROVE  LayerOf(c, e.source) < LayerOf(c, e.target)
<1> DEFINE s == e.source
           t == e.target
           a == LayerOf(c, s)
           b == LayerOf(c, t)
           f == Layers(c)
<1>1. s \in IdsOf(c) /\ t \in IdsOf(c)
  BY DEF Shaped
<1>2. /\ a \in Nat /\ (a > 0 => s \notin f[a - 1])
      /\ b \in Nat /\ t \in f[b]
  BY <1>1, LayerOfIs
<1>3. b > 0 /\ s \in f[b - 1]
  <2>1. b # 0
    <3>1. f[0] = Placeable(c, {})
      BY LayersAre
    <3>2. t \notin f[0]
      BY <3>1 DEF Placeable
    <3> QED
      BY <1>2, <3>2
  <2>2. b - 1 \in Nat /\ b = (b - 1) + 1
    BY <1>2, <2>1
  <2> DEFINE k == b - 1
  <2>3. f[k + 1] = Placeable(c, f[k]) /\ t \in f[k + 1]
    BY <1>2, <2>2, LayersAre
  <2>4. s \in f[k]
    BY <2>3 DEF Placeable
  <2> QED
    BY <1>2, <2>1, <2>4
<1> SUFFICES ASSUME ~(a < b) PROVE FALSE
  OBVIOUS
<1>4. a > 0 /\ a - 1 \in Nat /\ b - 1 \in Nat /\ b - 1 <= a - 1
  BY <1>2, <1>3
<1>5. f[b - 1] \subseteq f[a - 1]
  BY <1>4, LayersGrow
<1> QED
  BY <1>2, <1>3, <1>4, <1>5

-----------------------------------------------------------------------------
(* The inductive invariant. *)
Whole(p) == [nodes |-> p.nodes, edges |-> p.edges]

Requests == [op : {"add", "paste", "import"}, graph : 1..MaxGraphs, nodes : Seq(Drafts), edges : SUBSET Connections,
             local : Nat, state : {"asked", "loaded", "answered"}, got : Nat]

(* A canvas that is shown or can come back. *)
Held(c, g, overlapped) ==
    /\ Shaped(c) /\ OfGraph(c, g)
    /\ g \notin overlapped => Unique(c) /\ Follows(c)
    /\ overlapped = {} => Latest(c)

(* What was exported or is being imported. *)
Exported(f, overlapped) ==
    /\ Shaped(f)
    /\ overlapped = {} => Unique(f) /\ Follows(f) /\ Latest(f)

(* Without overlapping allocations one at most is on its way for the graph   *)
(* shown, and it was asked with an index no node of the canvas exceeds.      *)
Single(q, g) == \A i, j \in DOMAIN q : q[i].graph = g /\ q[j].graph = g => i = j
Above(q, c, g) == \A i \in DOMAIN q : q[i].graph = g => \A id \in IdsOf(c) : id[2] <= q[i].local

Requested(q, c, g, overlapped) ==
    /\ q \in Seq(Requests)
    /\ \A i \in DOMAIN q : /\ q[i].graph <= g
                           /\ q[i].nodes # <<>>
                           /\ q[i].op = "import" => Exported(Whole(q[i]), overlapped)
    /\ g \notin overlapped => Single(q, g) /\ Above(q, c, g)

CanvasInv ==
    /\ TypeOK
    /\ \A c \in Canvases : Held(c, shown, clash)
    /\ Exported(file, clash)
    /\ Requested(pending, canvas, shown, clash)

(* The two stacks. *)
LEMMA Appended ==
    ASSUME NEW S, NEW s \in Seq(S), NEW x \in S
    PROVE  /\ Append(s, x) \in Seq(S) /\ Len(Append(s, x)) = Len(s) + 1
           /\ ToSet(Append(s, x)) = ToSet(s) \cup {x}
<1> DEFINE a == Append(s, x)
           n == Len(s)
<1>1. /\ a \in Seq(S) /\ Len(a) = n + 1
      /\ \A i \in 1..n : a[i] = s[i]
      /\ a[n + 1] = x
  BY AppendProperties
<1>2. n \in Nat /\ DOMAIN s = 1..n /\ DOMAIN a = 1..(n + 1)
  BY <1>1, LenProperties
<1> HIDE DEF a, n
<1>3. ToSet(a) \subseteq ToSet(s) \cup {x}
  <2>1. \A i \in DOMAIN a : i \in 1..n \/ i = n + 1
    BY <1>2
  <2> QED
    BY <1>1, <1>2, <2>1 DEF ToSet
<1>4. ToSet(s) \cup {x} \subseteq ToSet(a)
  <2>1. \A i \in DOMAIN s : i \in DOMAIN a /\ a[i] = s[i]
    BY <1>1, <1>2
  <2>2. n + 1 \in DOMAIN a
    BY <1>2
  <2> QED
    BY <1>1, <2>1, <2>2 DEF ToSet
<1> QED
  BY <1>1, <1>3, <1>4 DEF a, n

LEMMA Shortened ==
    ASSUME NEW S, NEW s \in Seq(S), s # <<>>
    PROVE  /\ Tail(s) \in Seq(S) /\ Len(Tail(s)) = Len(s) - 1 /\ ToSet(Tail(s)) \subseteq ToSet(s)
           /\ Front(s) \in Seq(S) /\ Len(Front(s)) = Len(s) - 1 /\ ToSet(Front(s)) \subseteq ToSet(s)
           /\ Last(s) \in S /\ Last(s) \in ToSet(s)
<1> DEFINE n == Len(s)
           a == Tail(s)
           b == Front(s)
<1>1. n \in Nat /\ n # 0 /\ DOMAIN s = 1..n
  BY LenProperties, EmptySeq
<1>2. a \in Seq(S) /\ Len(a) = n - 1 /\ \A i \in 1..Len(a) : a[i] = s[i + 1]
  BY HeadTailProperties
<1>3. ToSet(a) \subseteq ToSet(s)
  <2>1. DOMAIN a = 1..(n - 1)
    BY <1>2, LenProperties
  <2>2. \A i \in DOMAIN a : i + 1 \in DOMAIN s /\ a[i] = s[i + 1]
    BY <1>1, <1>2, <2>1
  <2> QED
    BY <2>2 DEF ToSet
<1>4. b \in Seq(S) /\ Len(b) = n - 1 /\ \A i \in 1..(n - 1) : b[i] = s[i]
  <2>1. \A i \in 1..(n - 1) : s[i] \in S
    BY <1>1, ElementOfSeq
  <2>2. /\ SubSeq(s, 1, n - 1) \in Seq(S)
        /\ Len(SubSeq(s, 1, n - 1)) = IF 1 <= n - 1 THEN (n - 1) - 1 + 1 ELSE 0
        /\ \A i \in 1..((n - 1) - 1 + 1) : SubSeq(s, 1, n - 1)[i] = s[1 + i - 1]
    BY <1>1, <2>1, SubSeqProperties
  <2>3. b = SubSeq(s, 1, n - 1)
    BY DEF Front
  <2> HIDE DEF b, n
  <2>4. (n - 1) - 1 + 1 = n - 1 /\ \A i \in 1..(n - 1) : 1 + i - 1 = i
    BY <1>1
  <2> QED
    BY <1>1, <2>2, <2>3, <2>4
<1>5. ToSet(b) \subseteq ToSet(s)
  <2>1. DOMAIN b = 1..(n - 1)
    BY <1>4, LenProperties
  <2>2. \A i \in DOMAIN b : i \in DOMAIN s /\ b[i] = s[i]
    BY <1>1, <1>4, <2>1
  <2> QED
    BY <2>2 DEF ToSet
<1>6. Last(s) = s[n] /\ n \in DOMAIN s
  BY <1>1 DEF Last
<1>7. Last(s) \in S /\ Last(s) \in ToSet(s)
  BY <1>1, <1>6, ElementOfSeq DEF ToSet
<1> QED
  BY <1>2, <1>3, <1>4, <1>5, <1>7

LEMMA Removed ==
    ASSUME NEW S, NEW s \in Seq(S), NEW i \in DOMAIN s, NEW r, r = RemoveAt(s, i)
    PROVE  /\ r \in Seq(S)
           /\ \A j \in DOMAIN r : \E k \in DOMAIN s : k # i /\ r[j] = s[k]
           /\ \A j, k \in DOMAIN r : \E l, m \in DOMAIN s : l # i /\ m # i /\ r[j] = s[l] /\ r[k] = s[m] /\ (l = m => j = k)
<1> DEFINE n == Len(s)
           a == SubSeq(s, 1, i - 1)
           b == SubSeq(s, i + 1, n)
<1>1. n \in Nat /\ DOMAIN s = 1..n /\ \A j \in 1..n : s[j] \in S
  BY LenProperties, ElementOfSeq
<1>2. i \in 1..n /\ i - 1 \in Int /\ i + 1 \in Int
  BY <1>1
<1>3. a \in Seq(S) /\ Len(a) = i - 1 /\ \A j \in 1..(i - 1) : a[j] = s[j]
  <2>1. \A j \in 1..(i - 1) : s[j] \in S
    BY <1>1, <1>2
  <2>2. /\ a \in Seq(S) /\ Len(a) = IF 1 <= i - 1 THEN (i - 1) - 1 + 1 ELSE 0
        /\ \A j \in 1..((i - 1) - 1 + 1) : a[j] = s[1 + j - 1]
    BY <1>2, <2>1, SubSeqProperties
  <2> HIDE DEF a
  <2>3. (i - 1) - 1 + 1 = i - 1 /\ \A j \in 1..(i - 1) : 1 + j - 1 = j
    BY <1>1, <1>2
  <2> QED
    BY <1>1, <1>2, <2>2, <2>3
<1>4. b \in Seq(S) /\ Len(b) = n - i /\ \A j \in 1..(n - i) : b[j] = s[i + j]
  <2>1. \A j \in (i + 1)..n : s[j] \in S
    BY <1>1, <1>2
  <2>2. /\ b \in Seq(S) /\ Len(b) = IF i + 1 <= n THEN n - (i + 1) + 1 ELSE 0
        /\ \A j \in 1..(n - (i + 1) + 1) : b[j] = s[(i + 1) + j - 1]
    BY <1>1, <1>2, <2>1, SubSeqProperties
  <2> HIDE DEF b
  <2>3. n - (i + 1) + 1 = n - i /\ \A j \in 1..(n - i) : (i + 1) + j - 1 = i + j
    BY <1>1, <1>2
  <2> QED
    BY <1>1, <1>2, <2>2, <2>3
<1>5. r = a \o b
  BY DEF RemoveAt
<1> HIDE DEF a, b, n
<1>6. /\ r \in Seq(S) /\ Len(r) = Len(a) + Len(b)
      /\ \A j \in 1..(Len(a) + Len(b)) : r[j] = IF j <= Len(a) THEN a[j] ELSE b[j - Len(a)]
  BY <1>3, <1>4, <1>5, ConcatProperties
<1>7. DOMAIN r = 1..(n - 1)
  <2>1. Len(r) = n - 1
    BY <1>1, <1>2, <1>3, <1>4, <1>6
  <2> QED
    BY <1>6, <2>1, LenProperties
<1> DEFINE at(j) == IF j < i THEN j ELSE j + 1
<1>8. ASSUME NEW j \in DOMAIN r PROVE at(j) \in DOMAIN s /\ at(j) # i /\ r[j] = s[at(j)]
  <2>1. j \in 1..(n - 1) /\ j \in 1..(Len(a) + Len(b))
    BY <1>1, <1>2, <1>3, <1>4, <1>7
  <2>2. CASE j < i
    <3>1. j \in 1..(i - 1) /\ j <= Len(a)
      BY <1>1, <1>2, <1>3, <2>1, <2>2
    <3>2. r[j] = s[j]
      BY <1>3, <1>6, <2>1, <3>1
    <3> QED
      BY <1>1, <1>2, <2>1, <2>2, <3>2
  <2>3. CASE ~(j < i)
    <3>1. j - (i - 1) \in 1..(n - i) /\ ~(j <= Len(a)) /\ i + (j - (i - 1)) = j + 1 /\ j - Len(a) = j - (i - 1)
      BY <1>1, <1>2, <1>3, <2>1, <2>3
    <3>2. r[j] = s[j + 1]
      BY <1>3, <1>4, <1>6, <2>1, <3>1
    <3> QED
      BY <1>1, <1>2, <2>1, <2>3, <3>2
  <2> QED
    BY <2>2, <2>3
<1>9. \A j, k \in DOMAIN r : at(j) = at(k) => j = k
  BY <1>1, <1>2, <1>7
<1> HIDE DEF at
<1> QED
  BY <1>6, <1>8, <1>9

-----------------------------------------------------------------------------
(* What the invariant says, and where it begins. *)
LEMMA EmptyIs ==
    /\ Empty \in Graphs /\ Shaped(Empty) /\ IdsOf(Empty) = {}
    /\ Unique(Empty) /\ Follows(Empty) /\ Latest(Empty)
<1>1. Empty.nodes = <<>> /\ Empty.edges = {}
  BY DEF Empty
<1>2. NodesOf(Empty) = {} /\ IdsOf(Empty) = {}
  BY <1>1 DEF NodesOf, IdsOf, ToSet
<1>3. Empty \in Graphs
  BY DEF Empty, Graphs
<1>4. IsFiniteSet({}) /\ Cardinality({}) = 0
  BY FS_EmptySet
<1>5. Acyclic({})
  BY <1>4, SourcesOnly DEF Acyclic
<1>6. Shaped(Empty)
  BY <1>1, <1>3, <1>4, <1>5 DEF Shaped, OncePerInput
<1>7. Unique(Empty)
  BY <1>1, <1>2, <1>4 DEF Unique
<1> QED
  BY <1>2, <1>3, <1>6, <1>7 DEF Follows, Latest

LEMMA InvImplies ==
    ASSUME CanvasInv
    PROVE  /\ EdgesSound /\ IdsUnique /\ InputsFollowEdges /\ HistoryOfGraph /\ ParamsMatchInputs
           /\ PickIsComplete /\ LayoutFollowsEdges
<1>1. Held(canvas, shown, clash)
  BY DEF CanvasInv, Canvases
<1>2. Shaped(canvas) /\ canvas \in Graphs /\ IsFiniteSet(canvas.edges)
  BY <1>1 DEF Held, Shaped
<1>3. EdgesSound
  BY <1>2, ShapedIsSound DEF EdgesSound
<1>4. IdsUnique /\ InputsFollowEdges /\ ParamsMatchInputs
  BY <1>1 DEF Held, IdsUnique, InputsFollowEdges, ParamsMatchInputs
<1>5. HistoryOfGraph
  BY DEF CanvasInv, Held, HistoryOfGraph
<1>6. PickIsComplete
  BY <1>2, Complete
<1>7. LayoutFollowsEdges
  BY <1>1, <1>2, LayersFollow DEF Held, LayoutFollowsEdges
<1> QED
  BY <1>3, <1>4, <1>5, <1>6, <1>7

LEMMA InitInv ==
    ASSUME Init
    PROVE  CanvasInv
<1>1. /\ MaxGraphs \in Nat \ {0} /\ MaxHistory \in Nat \ {0} /\ MaxGestures \in Nat \ {0} /\ DefaultIndex \in Nat
  BY CanvasAssumption
<1>2. /\ canvas = FirstGraph /\ undo = <<>> /\ redo = <<>> /\ clipboard = <<>> /\ file = Empty /\ pending = <<>>
      /\ shown = 1 /\ picked = None /\ clash = {} /\ gestures = 0
      /\ index = [g \in 1..MaxGraphs |-> DefaultIndex + (IF g = 1 THEN Len(FirstGraph.nodes) ELSE 0)]
  BY DEF Init
<1>3. Len(FirstGraph.nodes) \in Nat
  BY FirstGraphAssumption, LenProperties DEF Graphs
<1>4. index \in [1..MaxGraphs -> Nat]
  BY <1>1, <1>2, <1>3
<1>5. TypeOK
  BY <1>1, <1>2, <1>4, EmptyIs, FirstGraphAssumption DEF TypeOK
<1>6. Held(FirstGraph, 1, {})
  <2>1. Shaped(FirstGraph)
    BY FirstGraphAssumption, ShapedIsSound
  <2> QED
    BY <2>1, FirstGraphAssumption DEF Held
<1>7. Canvases = {FirstGraph}
  BY <1>2 DEF Canvases, ToSet
<1>8. Exported(Empty, {})
  BY EmptyIs DEF Exported
<1>9. Requested(<<>>, FirstGraph, 1, {})
  BY DEF Requested, Single, Above
<1> QED
  BY <1>2, <1>5, <1>6, <1>7, <1>8, <1>9 DEF CanvasInv

(* What a step has to show. *)
Stacks(u, r, cs) ==
    /\ u \in Seq(Graphs) /\ r \in Seq(Graphs)
    /\ Len(u) + Len(r) <= MaxHistory
    /\ ToSet(u) \cup ToSet(r) \subseteq cs

LEMMA HeldMore ==
    ASSUME NEW c, NEW g, NEW o, Held(c, g, o), NEW p, o \subseteq p
    PROVE  Held(c, g, p) /\ Exported(c, p)
  BY DEF Held, Exported

LEMMA HeldBetter ==
    ASSUME NEW c, NEW g, NEW o, Held(c, g, o), NEW d, Better(d, c)
    PROVE  Held(d, g, o) /\ IdsOf(d) \subseteq IdsOf(c)
  BY DEF Held, Better, OfGraph

LEMMA RequestedMore ==
    ASSUME NEW q, NEW c, NEW g, NEW o, Requested(q, c, g, o),
           NEW d, NEW p, o \subseteq p, g \notin p => IdsOf(d) \subseteq IdsOf(c) \/ \A i \in DOMAIN q : q[i].graph # g
    PROVE  Requested(q, d, g, p)
<1>1. ASSUME g \notin p PROVE Single(q, g) /\ Above(q, d, g)
  BY <1>1 DEF Requested, Single, Above
<1>2. \A f : Exported(f, o) => Exported(f, p)
  BY DEF Exported
<1> QED
  BY <1>1, <1>2 DEF Requested

LEMMA InvKept ==
    ASSUME CanvasInv, Stacks(undo', redo', Canvases),
           clash \subseteq clash', clash' \subseteq 1..MaxGraphs, shown' = shown,
           Held(canvas', shown, clash'), file' \in Canvases \cup {file},
           Requested(pending', canvas', shown, clash'), clipboard' \in Seq(Nodes),
           index' \in [1..MaxGraphs -> Nat], picked' \in Ids \cup {None}, gestures' \in 0..MaxGestures
    PROVE  CanvasInv'
<1>1. \A c \in Canvases : Held(c, shown, clash') /\ Exported(c, clash')
  BY HeldMore DEF CanvasInv
<1>2. Exported(file', clash')
  <2>1. Exported(file, clash')
    BY DEF CanvasInv, Exported
  <2> QED
    BY <1>1, <2>1
<1>3. Canvases' \subseteq Canvases \cup {canvas'}
  BY DEF Canvases, Stacks
<1>4. \A c \in Canvases' : Held(c, shown, clash')
  BY <1>1, <1>3
<1>5. canvas' \in Graphs /\ file' \in Graphs
  BY <1>2 DEF Held, Exported, Shaped
<1>6. /\ pending' \in Seq(Requests) /\ DOMAIN pending' = 1..Len(pending') /\ Len(pending') \in Nat
      /\ \A i \in DOMAIN pending' : pending'[i].graph <= shown
  BY LenProperties DEF Requested
<1>7. \A i \in DOMAIN pending' : pending'[i] \in Requests
  BY <1>6, ElementOfSeq
<1>8. shown \in 1..MaxGraphs /\ MaxGraphs \in Nat
  BY CanvasAssumption DEF CanvasInv, TypeOK
<1>9. ASSUME NEW i \in DOMAIN pending'
      PROVE  /\ pending'[i].op \in {"add", "paste", "import"}
             /\ pending'[i].graph \in 1..shown
             /\ pending'[i].state \in {"asked", "loaded", "answered"}
  <2> DEFINE p == pending'[i]
  <2>1. p \in Requests /\ p.graph <= shown
    BY <1>6, <1>7
  <2> HIDE DEF p
  <2>2. p.op \in {"add", "paste", "import"} /\ p.graph \in 1..MaxGraphs /\ p.state \in {"asked", "loaded", "answered"}
    BY <2>1 DEF Requests
  <2>3. p.graph \in 1..shown
    BY <1>8, <2>1, <2>2
  <2> QED
    BY <2>2, <2>3 DEF p
<1>10. TypeOK'
  BY <1>5, <1>8, <1>9 DEF TypeOK, Stacks
<1> QED
  BY <1>2, <1>4, <1>10 DEF CanvasInv

-----------------------------------------------------------------------------
(* Steps. *)
LEMMA Now ==
    ASSUME CanvasInv
    PROVE  /\ Held(canvas, shown, clash) /\ Requested(pending, canvas, shown, clash)
           /\ Shaped(canvas) /\ canvas \in Graphs /\ canvas.nodes \in Seq(Nodes)
           /\ canvas.edges \subseteq Connections /\ IsFiniteSet(canvas.edges)
           /\ undo \in Seq(Graphs) /\ redo \in Seq(Graphs) /\ Len(undo) + Len(redo) <= MaxHistory
           /\ Len(undo) \in Nat /\ Len(redo) \in Nat /\ MaxHistory \in Nat \ {0}
           /\ clipboard \in Seq(Nodes) /\ index \in [1..MaxGraphs -> Nat] /\ shown \in 1..MaxGraphs
           /\ picked \in Ids \cup {None} /\ clash \subseteq 1..MaxGraphs /\ gestures \in 0..MaxGestures
           /\ IdsOf(canvas) \subseteq Ids
<1>1. Held(canvas, shown, clash)
  BY DEF CanvasInv, Canvases
<1>2. Shaped(canvas)
  BY <1>1 DEF Held
<1>3. canvas \in Graphs /\ canvas.nodes \in Seq(Nodes) /\ canvas.edges \subseteq Connections /\ IsFiniteSet(canvas.edges)
  BY <1>2 DEF Shaped, Graphs
<1>4. /\ undo \in Seq(Graphs) /\ redo \in Seq(Graphs) /\ Len(undo) + Len(redo) <= MaxHistory
      /\ clipboard \in Seq(Nodes) /\ index \in [1..MaxGraphs -> Nat] /\ shown \in 1..MaxGraphs
      /\ picked \in Ids \cup {None} /\ clash \subseteq 1..MaxGraphs /\ gestures \in 0..MaxGestures
  BY DEF CanvasInv, TypeOK
<1>5. Len(undo) \in Nat /\ Len(redo) \in Nat
  BY <1>4, LenProperties
<1>6. IdsOf(canvas) \subseteq Ids
  BY <1>3, KindOfIs
<1> QED
  BY <1>1, <1>2, <1>3, <1>4, <1>5, <1>6, CanvasAssumption DEF CanvasInv

LEMMA Counted ==
    ASSUME CanvasInv, Gesture
    PROVE  gestures' \in 0..MaxGestures
<1>1. gestures \in 0..MaxGestures /\ MaxGestures \in Nat
  BY Now, CanvasAssumption
<1> QED
  BY <1>1 DEF Gesture

LEMMA Pushed ==
    ASSUME CanvasInv, PushHistory
    PROVE  Stacks(undo', redo', Canvases)
<1>1. undo' = Snapshot(undo) /\ redo' = <<>>
  BY DEF PushHistory
<1>2. /\ undo \in Seq(Graphs) /\ canvas \in Graphs /\ Len(undo) \in Nat /\ Len(redo) \in Nat
      /\ Len(undo) + Len(redo) <= MaxHistory /\ MaxHistory \in Nat \ {0}
  BY Now
<1>3. canvas \in Canvases /\ ToSet(undo) \subseteq Canvases
  BY DEF Canvases
<1>4. /\ Snapshot(undo) \in Seq(Graphs) /\ Len(Snapshot(undo)) <= MaxHistory
      /\ ToSet(Snapshot(undo)) \subseteq Canvases /\ Len(Snapshot(undo)) \in Nat
  <2>1. CASE Len(undo) = MaxHistory
    <3>1. undo # <<>>
      BY <1>2, <2>1, EmptySeq
    <3>2. Tail(undo) \in Seq(Graphs) /\ Len(Tail(undo)) = Len(undo) - 1 /\ ToSet(Tail(undo)) \subseteq ToSet(undo)
      BY <1>2, <3>1, Shortened
    <3> DEFINE r == Tail(undo)
    <3>3. Snapshot(undo) = Append(r, canvas)
      BY <2>1 DEF Snapshot
    <3>4. r \in Seq(Graphs)
      BY <3>2
    <3> HIDE DEF r
    <3>5. Append(r, canvas) \in Seq(Graphs) /\ Len(Append(r, canvas)) = Len(r) + 1
          /\ ToSet(Append(r, canvas)) = ToSet(r) \cup {canvas}
      BY <1>2, <3>4, Appended
    <3> QED
      BY <1>2, <1>3, <2>1, <3>2, <3>3, <3>5 DEF r
  <2>2. CASE Len(undo) # MaxHistory
    <3>1. Snapshot(undo) = Append(undo, canvas)
      BY <2>2 DEF Snapshot
    <3>2. Append(undo, canvas) \in Seq(Graphs) /\ Len(Append(undo, canvas)) = Len(undo) + 1
          /\ ToSet(Append(undo, canvas)) = ToSet(undo) \cup {canvas}
      BY <1>2, Appended
    <3> QED
      BY <1>2, <1>3, <2>2, <3>1, <3>2
  <2> QED
    BY <2>1, <2>2
<1>5. <<>> \in Seq(Graphs) /\ Len(<<>>) = 0 /\ ToSet(<<>>) = {}
  BY DEF ToSet
<1> QED
  BY <1>1, <1>2, <1>4, <1>5 DEF Stacks

LEMMA NotPushed ==
    ASSUME CanvasInv, undo' = undo, redo' = redo
    PROVE  Stacks(undo', redo', Canvases)
BY Now DEF Stacks, Canvases

LEMMA Popped ==
    ASSUME CanvasInv, NEW a \in Seq(Graphs), a # <<>>, NEW b \in Seq(Graphs),
           Len(a) + Len(b) <= MaxHistory, ToSet(a) \cup ToSet(b) \subseteq Canvases
    PROVE  /\ Stacks(Front(a), Append(b, canvas), Canvases)
           /\ Stacks(Append(b, canvas), Front(a), Canvases)
           /\ Last(a) \in Canvases
<1>1. Len(a) \in Nat /\ Len(b) \in Nat /\ canvas \in Graphs /\ canvas \in Canvases /\ MaxHistory \in Nat
  BY Now, LenProperties DEF Canvases
<1>2. /\ Front(a) \in Seq(Graphs) /\ Len(Front(a)) = Len(a) - 1 /\ ToSet(Front(a)) \subseteq ToSet(a)
      /\ Last(a) \in ToSet(a)
  BY Shortened
<1>3. /\ Append(b, canvas) \in Seq(Graphs) /\ Len(Append(b, canvas)) = Len(b) + 1
      /\ ToSet(Append(b, canvas)) = ToSet(b) \cup {canvas}
  BY <1>1, Appended
<1>4. Len(Front(a)) + Len(Append(b, canvas)) <= MaxHistory /\ Len(Append(b, canvas)) + Len(Front(a)) <= MaxHistory
  BY <1>1, <1>2, <1>3
<1> QED
  BY <1>1, <1>2, <1>3, <1>4 DEF Stacks

LEMMA EditKeeps ==
    ASSUME CanvasInv, Gesture, Better(canvas', canvas), Stacks(undo', redo', Canvases), picked' \in Ids \cup {None},
           UNCHANGED <<clipboard, file, pending, index, shown, clash>>
    PROVE  CanvasInv'
<1>1. Held(canvas', shown, clash) /\ IdsOf(canvas') \subseteq IdsOf(canvas)
  BY Now, HeldBetter
<1>2. Requested(pending, canvas', shown, clash)
  BY <1>1, Now, RequestedMore
<1> QED
  BY <1>1, <1>2, Now, Counted, InvKept

LEMMA DeleteNodesKeeps ==
    ASSUME CanvasInv, NEW ids \in SUBSET IdsOf(canvas), DeleteNodes(ids)
    PROVE  CanvasInv'
<1> DEFINE rest == {e \in canvas.edges : e.source \notin ids /\ e.target \notin ids}
           d == [nodes |-> Rederived(Without(canvas.nodes, ids), Successors(ids, canvas.edges), rest), edges |-> rest]
<1>1. /\ Gesture /\ PushHistory /\ canvas' = d
      /\ picked' = IF picked \in ids THEN None ELSE picked
      /\ UNCHANGED <<clipboard, file, pending, index, shown, clash>>
  BY DEF DeleteNodes, Edited
<1> HIDE DEF rest
<1>2. Better(d, canvas)
  <2>1. rest = {e \in canvas.edges : e.source \notin ids /\ e.target \notin ids}
    BY DEF rest
  <2> QED
    BY <2>1, Now, Deleted
<1> HIDE DEF d
<1>3. picked' \in Ids \cup {None}
  BY <1>1, Now
<1> QED
  BY <1>1, <1>2, <1>3, Pushed, EditKeeps

LEMMA DeleteEdgeKeeps ==
    ASSUME CanvasInv, NEW e \in canvas.edges, DeleteEdge(e)
    PROVE  CanvasInv'
<1> DEFINE rest == canvas.edges \ {e}
           d == [nodes |-> Rederived(canvas.nodes, {e.target}, rest), edges |-> rest]
<1>1. /\ Gesture /\ PushHistory /\ canvas' = d
      /\ UNCHANGED <<clipboard, file, pending, index, shown, picked, clash>>
  BY DEF DeleteEdge, Edited
<1> HIDE DEF rest
<1>2. Better(d, canvas)
  <2>1. rest = canvas.edges \ {e}
    BY DEF rest
  <2> QED
    BY <2>1, Now, Disconnected
<1> HIDE DEF d
<1>3. picked' \in Ids \cup {None}
  BY <1>1, Now
<1> QED
  BY <1>1, <1>2, <1>3, Pushed, EditKeeps

LEMMA CommitKeeps ==
    ASSUME CanvasInv, Gesture, NEW e \in Connections, {e.source, e.target} \subseteq IdsOf(canvas),
           NEW ported, Valid(canvas, e, ported), CommitEdge(e),
           UNCHANGED <<clipboard, file, pending, index, shown, picked, clash>>
    PROVE  CanvasInv'
<1>1. PushHistory /\ Better(canvas', canvas)
  BY Now, Committed
<1>2. picked' \in Ids \cup {None}
  BY Now
<1> QED
  BY <1>1, <1>2, Pushed, EditKeeps

LEMMA ConnectKeeps ==
    ASSUME CanvasInv, NEW s \in IdsOf(canvas), NEW t \in IdsOf(canvas), NEW e \in Candidates(s, t), Connect(e)
    PROVE  CanvasInv'
<1> DEFINE yes == TRUE
<1>1. /\ Gesture /\ Valid(canvas, e, yes) /\ CommitEdge(e)
      /\ UNCHANGED <<clipboard, file, pending, index, shown, picked, clash>>
  BY DEF Connect
<1>2. PICK o \in DOMAIN Ports[KindOf(canvas, s)].outs, i \in DOMAIN Ports[KindOf(canvas, t)].ins : e = Edge(s, o, t, i)
  BY DEF Candidates
<1>3. canvas \in Graphs
  BY Now
<1>4. o \in Nat /\ s \in Ids
  BY <1>3, KindOfIs
<1>5. i \in Nat \ {0} /\ t \in Ids
  BY <1>3, KindOfIs
<1>6. e \in Connections /\ e.source = s /\ e.target = t
  BY <1>2, <1>4, <1>5, EdgeIs
<1> HIDE DEF yes
<1> QED
  BY <1>1, <1>6, CommitKeeps

LEMMA ConnectNodesKeeps ==
    ASSUME CanvasInv, NEW s \in IdsOf(canvas), NEW t \in IdsOf(canvas), ConnectNodes(s, t)
    PROVE  CanvasInv'
<1> DEFINE yes == TRUE
<1>1. Gesture /\ UNCHANGED <<clipboard, file, pending, index, shown, picked, clash>>
  BY DEF ConnectNodes
<1>2. PICK e \in Pick(canvas, s, t) : CommitEdge(e)
  BY DEF ConnectNodes
<1>3. Valid(canvas, e, yes) /\ e \in Connections /\ e.source = s /\ e.target = t
  <2>1. canvas \in Graphs
    BY Now
  <2>2. Valid(canvas, e, yes) /\ Joins(e, s, t)
    BY <2>1, PickIs
  <2> QED
    BY <2>2 DEF Joins
<1> HIDE DEF yes
<1> QED
  BY <1>1, <1>2, <1>3, CommitKeeps

LEMMA ConnectPortlessKeeps ==
    ASSUME CanvasInv, NEW s \in IdsOf(canvas), NEW t \in IdsOf(canvas), ConnectPortless(s, t)
    PROVE  CanvasInv'
<1> DEFINE no == FALSE
           i == FreeInput(t)
           e == Edge(s, 1, t, i)
<1>1. /\ Gesture /\ Valid(canvas, e, no) /\ CommitEdge(e)
      /\ UNCHANGED <<clipboard, file, pending, index, shown, picked, clash>>
  BY DEF ConnectPortless
<1>2. i \in Nat \ {0}
  BY Now, FreeInputIs
<1>3. s \in Ids /\ t \in Ids
  BY Now
<1> HIDE DEF i, no
<1>4. e \in Connections /\ e.source = s /\ e.target = t
  BY <1>2, <1>3, EdgeIs
<1> HIDE DEF e
<1> QED
  BY <1>1, <1>4, CommitKeeps

LEMMA ArrangeKeeps ==
    ASSUME CanvasInv, Arrange
    PROVE  CanvasInv'
<1>1. /\ Gesture /\ PushHistory /\ canvas' = canvas
      /\ UNCHANGED <<clipboard, file, pending, index, shown, picked, clash>>
  BY DEF Arrange, Edited
<1>2. Better(canvas, canvas) /\ picked' \in Ids \cup {None}
  BY <1>1, Now DEF Better
<1> QED
  BY <1>1, <1>2, Pushed, EditKeeps

LEMMA ConfigureKeeps ==
    ASSUME CanvasInv, Configure
    PROVE  CanvasInv'
<1> DEFINE v == [i \in DOMAIN canvas.nodes |-> ConfiguredNode(canvas.nodes[i], picked)]
           d == [nodes |-> v, edges |-> canvas.edges]
<1>1. canvas \in Graphs
  BY Now
<1>2. canvas' = [canvas EXCEPT !.nodes = v]
  BY DEF Configure, OnNodes, ConfiguredNode
<1>3. Gesture /\ UNCHANGED <<undo, redo, clipboard, file, pending, index, shown, picked, clash>>
  BY DEF Configure
<1>4. \A i \in DOMAIN canvas.nodes : v[i] = ConfiguredNode(canvas.nodes[i], picked)
  OBVIOUS
<1>5. v = [i \in DOMAIN canvas.nodes |-> v[i]]
  OBVIOUS
<1> HIDE DEF v
<1>6. canvas' = d
  BY <1>1, <1>2 DEF Graphs
<1>7. Better(d, canvas)
  BY <1>4, <1>5, Now, Configured
<1> HIDE DEF d
<1>8. picked' \in Ids \cup {None}
  BY <1>3, Now
<1> QED
  BY <1>3, <1>6, <1>7, <1>8, NotPushed, EditKeeps

LEMMA ClashIs ==
    ASSUME CanvasInv
    PROVE  /\ clash \subseteq Clashing /\ Clashing \subseteq 1..MaxGraphs
           /\ shown \notin Clashing => \A i \in DOMAIN pending : pending[i].graph # shown
<1>1. shown \in 1..MaxGraphs /\ clash \subseteq 1..MaxGraphs
  BY Now
<1>2. CASE \E p \in ToSet(pending) : p.graph = shown
  <2>1. Clashing = clash \cup {shown}
    BY <1>2 DEF Clashing
  <2> QED
    BY <1>1, <2>1
<1>3. CASE ~(\E p \in ToSet(pending) : p.graph = shown)
  <2>1. Clashing = clash
    BY <1>3 DEF Clashing
  <2>2. \A i \in DOMAIN pending : pending[i].graph # shown
    BY <1>3 DEF ToSet
  <2> QED
    BY <1>1, <2>1, <2>2
<1> QED
  BY <1>2, <1>3

LEMMA TakeBackKeeps ==
    ASSUME CanvasInv, Gesture, Stacks(undo', redo', Canvases), canvas' \in Canvases, clash' = Clashing,
           UNCHANGED <<clipboard, file, pending, index, shown, picked>>
    PROVE  CanvasInv'
<1>1. /\ clash \subseteq clash' /\ clash' \subseteq 1..MaxGraphs
      /\ shown \notin clash' => \A i \in DOMAIN pending : pending[i].graph # shown
  BY ClashIs
<1>2. Held(canvas', shown, clash')
  <2>1. Held(canvas', shown, clash)
    BY DEF CanvasInv
  <2> QED
    BY <1>1, <2>1, HeldMore
<1>3. Requested(pending, canvas', shown, clash')
  BY <1>1, Now, RequestedMore
<1> QED
  BY <1>1, <1>2, <1>3, Now, Counted, InvKept

LEMMA UndoKeeps ==
    ASSUME CanvasInv, Undo
    PROVE  CanvasInv'
<1>1. /\ Gesture /\ undo # <<>> /\ undo' = Front(undo) /\ redo' = Append(redo, canvas) /\ canvas' = Last(undo)
      /\ clash' = Clashing /\ UNCHANGED <<clipboard, file, pending, index, shown, picked>>
  BY DEF Undo
<1>2. ToSet(undo) \cup ToSet(redo) \subseteq Canvases
  BY DEF Canvases
<1>3. Stacks(undo', redo', Canvases) /\ canvas' \in Canvases
  BY <1>1, <1>2, Now, Popped
<1> QED
  BY <1>1, <1>3, TakeBackKeeps

LEMMA RedoKeeps ==
    ASSUME CanvasInv, Redo
    PROVE  CanvasInv'
<1>1. /\ Gesture /\ redo # <<>> /\ redo' = Front(redo) /\ undo' = Append(undo, canvas) /\ canvas' = Last(redo)
      /\ clash' = Clashing /\ UNCHANGED <<clipboard, file, pending, index, shown, picked>>
  BY DEF Redo
<1>2. ToSet(redo) \cup ToSet(undo) \subseteq Canvases /\ Len(redo) + Len(undo) <= MaxHistory
  BY Now DEF Canvases
<1>3. Stacks(undo', redo', Canvases) /\ canvas' \in Canvases
  BY <1>1, <1>2, Now, Popped
<1> QED
  BY <1>1, <1>3, TakeBackKeeps

LEMMA OtherKeeps ==
    ASSUME CanvasInv, Gesture, file' \in Canvases \cup {file}, clipboard' \in Seq(Nodes), picked' \in Ids \cup {None},
           UNCHANGED <<canvas, undo, redo, pending, index, shown, clash>>
    PROVE  CanvasInv'
<1>1. Held(canvas', shown, clash') /\ Requested(pending', canvas', shown, clash')
  BY Now
<1> QED
  BY <1>1, Now, NotPushed, Counted, InvKept

LEMMA SelectKeeps ==
    ASSUME CanvasInv, NEW id \in IdsOf(canvas) \cup {None}, Select(id)
    PROVE  CanvasInv'
<1>1. picked' \in Ids \cup {None}
  BY Now DEF Select
<1> QED
  BY <1>1, Now, OtherKeeps DEF Select

LEMMA CopyKeeps ==
    ASSUME CanvasInv, NEW nodes \in Seq(Nodes), Copy(nodes)
    PROVE  CanvasInv'
<1>1. picked' \in Ids \cup {None}
  BY Now DEF Copy
<1> QED
  BY <1>1, Now, OtherKeeps DEF Copy

LEMMA ExportJsonKeeps ==
    ASSUME CanvasInv, ExportJson
    PROVE  CanvasInv'
<1>1. picked' \in Ids \cup {None} /\ clipboard' \in Seq(Nodes) /\ file' \in Canvases
  BY Now DEF ExportJson, Canvases
<1> QED
  BY <1>1, OtherKeeps DEF ExportJson

(* Allocations. *)
LEMMA BeginKeeps ==
    ASSUME CanvasInv, NEW op \in {"add", "paste", "import"}, NEW nodes \in Seq(Drafts), NEW edges \in SUBSET Connections,
           op = "import" => Exported([nodes |-> nodes, edges |-> edges], clash), Begin(op, nodes, edges)
    PROVE  CanvasInv'
<1> DEFINE p == [op |-> op, graph |-> shown, nodes |-> nodes, edges |-> edges,
                 local |-> MaxIndex(canvas.nodes), state |-> "asked", got |-> 0]
           q == Append(pending, p)
           n == Len(pending)
<1>1. /\ Gesture /\ nodes # <<>> /\ pending' = q /\ clash' = Clashing
      /\ UNCHANGED <<canvas, undo, redo, clipboard, file, index, shown, picked>>
  BY DEF Begin
<1>2. MaxIndex(canvas.nodes) \in Nat /\ \A id \in IdsOf(canvas) : id[2] <= MaxIndex(canvas.nodes)
  <2>1. canvas.nodes \in Seq(Nodes)
    BY Now
  <2>2. MaxIndex(canvas.nodes) \in Nat /\ \A x \in ToSet(canvas.nodes) : x.id[2] <= MaxIndex(canvas.nodes)
    BY <2>1, MaxIndexIs
  <2> QED
    BY <2>2 DEF IdsOf, NodesOf
<1>3. /\ p \in Requests /\ p.graph = shown /\ p.nodes = nodes /\ p.op = op
      /\ p.local = MaxIndex(canvas.nodes) /\ Whole(p) = [nodes |-> nodes, edges |-> edges]
  <2>1. shown \in 1..MaxGraphs
    BY Now
  <2> QED
    BY <1>2, <2>1 DEF Requests, Whole
<1> HIDE DEF p, q, n
<1>4. pending \in Seq(Requests) /\ n \in Nat /\ DOMAIN pending = 1..n
  BY Now, LenProperties DEF Requested, n
<1>5. /\ q \in Seq(Requests) /\ DOMAIN q = 1..(n + 1)
      /\ \A i \in 1..n : q[i] = pending[i]
      /\ q[n + 1] = p
  <2>1. /\ q \in Seq(Requests) /\ Len(q) = n + 1
        /\ \A i \in 1..n : q[i] = pending[i]
        /\ q[n + 1] = p
    BY <1>3, <1>4, AppendProperties DEF q, n
  <2>2. DOMAIN q = 1..Len(q)
    BY <2>1, LenProperties
  <2> QED
    BY <2>1, <2>2
<1>6. /\ clash \subseteq Clashing /\ Clashing \subseteq 1..MaxGraphs
      /\ shown \notin Clashing => \A i \in DOMAIN pending : pending[i].graph # shown
  BY ClashIs
<1>7. \A f : Exported(f, clash) => Exported(f, Clashing)
  BY <1>6 DEF Exported
<1>8. Requested(pending, canvas, shown, clash)
  BY Now
<1>9. \A i \in DOMAIN q : \/ i \in DOMAIN pending /\ q[i] = pending[i]
                          \/ i = n + 1 /\ q[i] = p
  BY <1>4, <1>5
<1>10. ASSUME NEW i \in DOMAIN q
       PROVE  q[i].graph <= shown /\ q[i].nodes # <<>> /\ (q[i].op = "import" => Exported(Whole(q[i]), Clashing))
  <2>1. CASE i \in DOMAIN pending /\ q[i] = pending[i]
    BY <1>7, <1>8, <2>1 DEF Requested
  <2>2. CASE q[i] = p
    <3>1. shown \in Nat
      BY Now
    <3> QED
      BY <1>1, <1>3, <1>7, <2>2, <3>1
  <2> QED
    BY <1>9, <2>1, <2>2
<1>11. ASSUME shown \notin Clashing PROVE Single(q, shown) /\ Above(q, canvas, shown)
  <2>1. \A i \in DOMAIN q : q[i].graph = shown => i = n + 1 /\ q[i] = p
    BY <1>6, <1>9, <1>11
  <2>2. Single(q, shown)
    BY <2>1 DEF Single
  <2>3. Above(q, canvas, shown)
    BY <1>2, <1>3, <2>1 DEF Above
  <2> QED
    BY <2>2, <2>3
<1>12. Requested(q, canvas, shown, Clashing)
  BY <1>5, <1>10, <1>11 DEF Requested
<1>13. Held(canvas, shown, Clashing)
  BY <1>6, Now, HeldMore
<1> QED
  BY <1>1, <1>6, <1>12, <1>13, Now, NotPushed, Counted, InvKept

LEMMA AddNodeKeeps ==
    ASSUME CanvasInv, NEW kind \in NewKinds, AddNode(kind)
    PROVE  CanvasInv'
<1> DEFINE s == <<Blank(None, kind)>>
           op == "add"
<1>1. kind \in Kinds
  BY CanvasAssumption
<1>2. Blank(None, kind) \in Drafts
  BY <1>1 DEF Blank, Drafts, None
<1>3. s \in Seq(Drafts) /\ {} \in SUBSET Connections
  BY <1>2
<1>4. Begin(op, s, {}) /\ op \in {"add", "paste", "import"} /\ op # "import"
  BY DEF AddNode
<1> HIDE DEF s, op
<1> QED
  BY <1>3, <1>4, BeginKeeps

LEMMA PasteNodeKeeps ==
    ASSUME CanvasInv, PasteNode
    PROVE  CanvasInv'
<1> DEFINE op == "paste"
<1>1. clipboard \in Seq(Drafts) /\ {} \in SUBSET Connections
  BY Now, NodesAreDrafts
<1>2. Begin(op, clipboard, {}) /\ op \in {"add", "paste", "import"} /\ op # "import"
  BY DEF PasteNode
<1> HIDE DEF op
<1> QED
  BY <1>1, <1>2, BeginKeeps

LEMMA ImportGraphKeeps ==
    ASSUME CanvasInv, ImportGraph
    PROVE  CanvasInv'
<1> DEFINE op == "import"
<1>1. Exported(file, clash) /\ file \in Graphs
  BY DEF CanvasInv, Exported, Shaped
<1>2. file.nodes \in Seq(Drafts) /\ file.edges \in SUBSET Connections /\ file = [nodes |-> file.nodes, edges |-> file.edges]
  BY <1>1, NodesAreDrafts DEF Graphs
<1>3. Begin(op, file.nodes, file.edges) /\ op \in {"add", "paste", "import"}
  BY DEF ImportGraph
<1> HIDE DEF op
<1>4. Exported([nodes |-> file.nodes, edges |-> file.edges], clash)
  BY <1>1, <1>2
<1> QED
  BY <1>2, <1>3, <1>4, BeginKeeps

(* The server's two statements, and their failure. *)
Updated(q, i, st, n) == [q EXCEPT ![i].state = st, ![i].got = n]
Alike(r, q) ==
    /\ r \in Seq(Requests) /\ DOMAIN r = DOMAIN q
    /\ \A j \in DOMAIN q : /\ r[j].op = q[j].op /\ r[j].graph = q[j].graph /\ r[j].nodes = q[j].nodes
                           /\ r[j].edges = q[j].edges /\ r[j].local = q[j].local

LEMMA UpdatedIs ==
    ASSUME NEW q \in Seq(Requests), NEW i \in DOMAIN q, NEW st \in {"asked", "loaded", "answered"}, NEW n \in Nat,
           NEW r, r = Updated(q, i, st, n)
    PROVE  Alike(r, q)
<1> DEFINE Set(p) == [p EXCEPT !.state = st, !.got = n]
<1>1. /\ Len(q) \in Nat /\ DOMAIN q = 1..Len(q) /\ \A j \in DOMAIN q : q[j] \in Requests
  BY LenProperties, ElementOfSeq
<1>2. ASSUME NEW p \in Requests
      PROVE  /\ Set(p) \in Requests /\ Set(p).op = p.op /\ Set(p).graph = p.graph
             /\ Set(p).nodes = p.nodes /\ Set(p).edges = p.edges /\ Set(p).local = p.local
  BY <1>2 DEF Requests
<1>3. r = [j \in DOMAIN q |-> IF j = i THEN Set(q[j]) ELSE q[j]]
  BY <1>1 DEF Updated, Requests
<1> HIDE DEF Set
<1>4. DOMAIN r = DOMAIN q /\ \A j \in DOMAIN q : r[j] = Set(q[j]) \/ r[j] = q[j]
  BY <1>3
<1>5. \A j \in DOMAIN q : r[j] \in Requests
  BY <1>1, <1>2, <1>4
<1>6. r = [j \in 1..Len(q) |-> r[j]] /\ \A j \in 1..Len(q) : r[j] \in Requests
  BY <1>1, <1>3, <1>5
<1>7. r \in Seq(Requests)
  BY <1>1, <1>6, IsASeq
<1> QED
  BY <1>1, <1>2, <1>4, <1>7 DEF Alike

LEMMA ProgressKeeps ==
    ASSUME CanvasInv, NEW i \in DOMAIN pending, NEW st \in {"asked", "loaded", "answered"}, NEW n \in Nat,
           pending' = Updated(pending, i, st, n), index' \in [1..MaxGraphs -> Nat],
           UNCHANGED <<canvas, undo, redo, clipboard, file, shown, picked, clash, gestures>>
    PROVE  CanvasInv'
<1> DEFINE r == pending'
<1>1. Requested(pending, canvas, shown, clash) /\ pending \in Seq(Requests)
  BY Now DEF Requested
<1>2. r = Updated(pending, i, st, n)
  OBVIOUS
<1> HIDE DEF r
<1>3. Alike(r, pending)
  BY <1>1, <1>2, UpdatedIs
<1>4. \A j \in DOMAIN pending : Whole(r[j]) = Whole(pending[j])
  BY <1>3 DEF Whole, Alike
<1>5. Requested(r, canvas, shown, clash)
  BY <1>1, <1>3, <1>4 DEF Requested, Single, Above, Alike
<1>6. Held(canvas', shown, clash') /\ Requested(pending', canvas', shown, clash')
  BY <1>5, Now DEF r
<1> QED
  BY <1>6, Now, NotPushed, InvKept

LEMMA RequestIs ==
    ASSUME CanvasInv, NEW i \in DOMAIN pending
    PROVE  /\ pending[i] \in Requests
           /\ pending[i].graph \in 1..MaxGraphs /\ pending[i].local \in Nat /\ pending[i].got \in Nat
           /\ pending[i].nodes \in Seq(Drafts) /\ pending[i].nodes # <<>>
           /\ index[pending[i].graph] \in Nat
<1> DEFINE p == pending[i]
<1>1. Requested(pending, canvas, shown, clash) /\ index \in [1..MaxGraphs -> Nat]
  BY Now
<1>2. pending \in Seq(Requests) /\ p.nodes # <<>>
  BY <1>1 DEF Requested
<1>3. p \in Requests
  BY <1>2, LenProperties, ElementOfSeq
<1> HIDE DEF p
<1>4. p.graph \in 1..MaxGraphs /\ p.local \in Nat /\ p.got \in Nat /\ p.nodes \in Seq(Drafts)
  BY <1>3 DEF Requests
<1>5. index[p.graph] \in Nat
  BY <1>1, <1>4
<1> QED
  BY <1>2, <1>3, <1>4, <1>5 DEF p

LEMMA LoadIndexKeeps ==
    ASSUME CanvasInv, NEW i \in DOMAIN pending, LoadIndex(i)
    PROVE  CanvasInv'
<1> DEFINE st == "loaded"
           n == index[pending[i].graph]
<1>1. pending' = Updated(pending, i, st, n)
  BY DEF LoadIndex, Updated
<1>2. UNCHANGED <<canvas, undo, redo, clipboard, file, index, shown, picked, clash, gestures>>
  BY DEF LoadIndex
<1>3. n \in Nat /\ st \in {"asked", "loaded", "answered"}
  BY RequestIs
<1>4. index' \in [1..MaxGraphs -> Nat]
  BY <1>2, Now
<1> HIDE DEF st, n
<1> QED
  BY <1>1, <1>2, <1>3, <1>4, ProgressKeeps

LEMMA SaveIndexKeeps ==
    ASSUME CanvasInv, NEW i \in DOMAIN pending, SaveIndex(i)
    PROVE  CanvasInv'
<1> DEFINE st == "answered"
           n == IF pending[i].local > pending[i].got THEN pending[i].local ELSE pending[i].got
           g == pending[i].graph
<1>1. pending' = Updated(pending, i, st, n) /\ index' = [index EXCEPT ![g] = n + 1]
  BY DEF SaveIndex, Updated
<1>2. UNCHANGED <<canvas, undo, redo, clipboard, file, shown, picked, clash, gestures>>
  BY DEF SaveIndex
<1>3. n \in Nat /\ g \in 1..MaxGraphs /\ st \in {"asked", "loaded", "answered"}
  BY RequestIs
<1> HIDE DEF st, n, g
<1>4. index' \in [1..MaxGraphs -> Nat]
  BY <1>1, <1>3, Now
<1> QED
  BY <1>1, <1>2, <1>3, <1>4, ProgressKeeps

LEMMA IndexFailsKeeps ==
    ASSUME CanvasInv, NEW i \in DOMAIN pending, IndexFails(i)
    PROVE  CanvasInv'
<1> DEFINE st == "answered"
<1>1. pending' = Updated(pending, i, st, DefaultIndex)
  BY DEF IndexFails, Updated
<1>2. UNCHANGED <<canvas, undo, redo, clipboard, file, index, shown, picked, clash, gestures>>
  BY DEF IndexFails
<1>3. DefaultIndex \in Nat /\ st \in {"asked", "loaded", "answered"}
  BY CanvasAssumption
<1>4. index' \in [1..MaxGraphs -> Nat]
  BY <1>2, Now
<1> HIDE DEF st
<1> QED
  BY <1>1, <1>2, <1>3, <1>4, ProgressKeeps

(* What follows the await. *)
LEMMA RequestedRemoved ==
    ASSUME NEW q, NEW c, NEW g, NEW o, Requested(q, c, g, o), NEW i \in DOMAIN q, NEW r, r = RemoveAt(q, i)
    PROVE  /\ Requested(r, c, g, o)
           /\ g \notin o /\ q[i].graph = g => \A j \in DOMAIN r : r[j].graph # g
<1>1. q \in Seq(Requests)
  BY DEF Requested
<1>2. /\ r \in Seq(Requests)
      /\ \A j \in DOMAIN r : \E k \in DOMAIN q : k # i /\ r[j] = q[k]
      /\ \A j, k \in DOMAIN r : \E l, m \in DOMAIN q : l # i /\ m # i /\ r[j] = q[l] /\ r[k] = q[m] /\ (l = m => j = k)
  BY <1>1, Removed
<1>3. ASSUME g \notin o PROVE Single(r, g) /\ Above(r, c, g)
  <2>1. Single(q, g) /\ Above(q, c, g)
    BY <1>3 DEF Requested
  <2>2. Single(r, g)
    BY <1>2, <2>1 DEF Single
  <2>3. Above(r, c, g)
    BY <1>2, <2>1 DEF Above
  <2> QED
    BY <2>2, <2>3
<1>4. ASSUME NEW j \in DOMAIN r
      PROVE  r[j].graph <= g /\ r[j].nodes # <<>> /\ (r[j].op = "import" => Exported(Whole(r[j]), o))
  <2>1. PICK k \in DOMAIN q : r[j] = q[k]
    BY <1>2
  <2>2. q[k].graph <= g /\ q[k].nodes # <<>> /\ (q[k].op = "import" => Exported(Whole(q[k]), o))
    BY DEF Requested
  <2> QED
    BY <2>1, <2>2
<1>5. Requested(r, c, g, o)
  BY <1>2, <1>3, <1>4 DEF Requested
<1>6. ASSUME g \notin o, q[i].graph = g, NEW j \in DOMAIN r, r[j].graph = g PROVE FALSE
  <2>1. Single(q, g)
    BY <1>6 DEF Requested
  <2>2. PICK k \in DOMAIN q : k # i /\ r[j] = q[k]
    BY <1>2
  <2> QED
    BY <1>6, <2>1, <2>2 DEF Single
<1> QED
  BY <1>5, <1>6

LEMMA ImportedHeld ==
    ASSUME CanvasInv, NEW i \in DOMAIN pending, pending[i].op = "import", NEW d,
           d = Remapped(pending[i].nodes, pending[i].edges, FreshIds(pending[i]))
    PROVE  Held(d, pending[i].graph, clash)
<1> DEFINE p == pending[i]
           f == Whole(p)
           ids == FreshIds(p)
<1>1. Exported(f, clash)
  BY Now DEF Requested
<1>2. p.nodes \in Seq(Drafts) /\ p.local \in Nat /\ p.got \in Nat /\ p.graph \in 1..MaxGraphs
  BY RequestIs
<1> HIDE DEF p
<1>3. /\ FreshFor(ids, p.nodes)
      /\ \A j \in DOMAIN p.nodes : ids[j][1] = p.graph
  BY <1>2, FreshIs
<1>4. f.nodes = p.nodes /\ f.edges = p.edges
  BY DEF Whole
<1>5. d = Remapped(f.nodes, f.edges, ids) /\ FreshFor(ids, f.nodes)
  BY <1>3, <1>4 DEF p
<1> HIDE DEF f, ids
<1>6. /\ Shaped(d) /\ Unique(d) /\ Follows(d)
      /\ Unique(f) /\ Follows(f) /\ Latest(f) => Latest(d)
      /\ IdsOf(d) = {ids[j] : j \in DOMAIN f.nodes}
  BY <1>1, <1>5, Imported DEF Exported
<1>7. OfGraph(d, p.graph)
  BY <1>3, <1>4, <1>6 DEF OfGraph
<1>8. clash = {} => Latest(d)
  BY <1>1, <1>6 DEF Exported
<1>9. Held(d, p.graph, clash)
  BY <1>6, <1>7, <1>8 DEF Held
<1> QED
  BY <1>9 DEF p

LEMMA Extended ==
    ASSUME NEW c, NEW g, NEW o, Held(c, g, o), NEW q, Bare(q), Distinct(q),
           g \notin o => IdsIn(q) \cap IdsOf(c) = {}, \A x \in IdsIn(q) : x[1] = g,
           NEW d, d = Extension(c, q)
    PROVE  Held(d, g, o)
<1>1. Shaped(c)
  BY DEF Held
<1>2. /\ Shaped(d)
      /\ IdsOf(d) = IdsOf(c) \cup IdsIn(q)
      /\ Unique(c) /\ Distinct(q) /\ IdsIn(q) \cap IdsOf(c) = {} => Unique(d)
      /\ Follows(c) /\ IdsIn(q) \cap IdsOf(c) = {} => Follows(d)
      /\ Latest(c) => Latest(d)
  BY <1>1, Pasted
<1>3. OfGraph(d, g)
  BY <1>2 DEF OfGraph, Held
<1> QED
  BY <1>2, <1>3 DEF Held

LEMMA ClonesAre ==
    ASSUME NEW w, w \in Seq(Drafts), NEW ids, FreshFor(ids, w), NEW q,
           q = [j \in DOMAIN w |-> Clone(w[j], ids[j])]
    PROVE  Bare(q) /\ Distinct(q) /\ IdsIn(q) = {ids[j] : j \in DOMAIN w}
<1>1. Len(w) \in Nat /\ DOMAIN w = 1..Len(w) /\ \A j \in DOMAIN w : w[j] \in Drafts
  BY LenProperties, ElementOfSeq
<1>2. ASSUME NEW j \in DOMAIN w
      PROVE  /\ q[j] \in Nodes /\ q[j].id = ids[j] /\ q[j].inputs = <<>>
             /\ q[j].kind \in Modifications => q[j].params = None
  <2> DEFINE n == w[j]
             id == ids[j]
             m == q[j]
  <2>1. n \in Drafts /\ id \in Ids /\ m = Clone(n, id)
    BY <1>1 DEF FreshFor
  <2> HIDE DEF n, id, m
  <2>2. /\ m \in Nodes /\ m.id = id /\ m.kind = n.kind /\ m.inputs = <<>>
        /\ n.kind \in Modifications => m.params = None
    BY <2>1, CloneIs
  <2> QED
    BY <2>2 DEF n, id, m
<1>3. q = [j \in DOMAIN w |-> q[j]] /\ DOMAIN q = DOMAIN w
  OBVIOUS
<1>4. q \in Seq(Nodes)
  <2> DEFINE n == Len(w)
  <2>1. n \in Nat /\ DOMAIN w = 1..n
    BY <1>1
  <2> HIDE DEF n
  <2>2. q = [j \in 1..n |-> q[j]] /\ \A j \in 1..n : q[j] \in Nodes
    BY <1>2, <1>3, <2>1
  <2>3. q \in [1..n -> Nodes]
    BY <2>2
  <2> QED
    BY <2>1, <2>3, SeqDef
<1>5. Bare(q)
  BY <1>2, <1>3, <1>4 DEF Bare
<1>6. \A j \in DOMAIN w : q[j].id = ids[j]
  BY <1>2
<1>7. Distinct(q)
  <2>1. ASSUME NEW j \in DOMAIN w, NEW k \in DOMAIN w, q[j].id = q[k].id PROVE j = k
    <3>1. ids[j] = ids[k]
      <4>1. q[j].id = ids[j] /\ q[k].id = ids[k]
        BY <1>2
      <4> QED
        BY <2>1, <4>1
    <3> QED
      BY <3>1 DEF FreshFor
  <2> DEFINE dom == DOMAIN w
  <2>2. DOMAIN q = dom /\ \A j, k \in dom : q[j].id = q[k].id => j = k
    BY <1>3, <2>1
  <2> HIDE DEF dom
  <2> QED
    BY <2>2 DEF Distinct
<1>8. IdsIn(q) = {ids[j] : j \in DOMAIN w}
  BY <1>3, <1>6 DEF IdsIn
<1> QED
  BY <1>5, <1>7, <1>8

LEMMA PastedHeld ==
    ASSUME CanvasInv, NEW i \in DOMAIN pending, pending[i].graph = shown,
           NEW w, w = pending[i].nodes, NEW ids, ids = FreshIds(pending[i]), NEW q, Bare(q), Distinct(q),
           IdsIn(q) = {ids[j] : j \in DOMAIN w},
           NEW d, d = Extension(canvas, q)
    PROVE  Held(d, shown, clash)
<1> DEFINE p == pending[i]
<1>1. w \in Seq(Drafts) /\ p.local \in Nat /\ p.got \in Nat /\ p.graph \in 1..MaxGraphs /\ p.graph = shown
  BY RequestIs
<1>2. w = p.nodes /\ ids = FreshIds(p)
  OBVIOUS
<1>3. Held(canvas, shown, clash) /\ Requested(pending, canvas, shown, clash) /\ IdsOf(canvas) \subseteq Ids
  BY Now
<1>4. shown \notin clash => \A id \in IdsOf(canvas) : id[2] <= p.local
  BY <1>1, <1>3 DEF Requested, Above
<1> HIDE DEF p
<1>5. FreshFor(ids, w) /\ \A j \in DOMAIN w : ids[j][1] = p.graph /\ ids[j][2] > p.local
  BY <1>1, <1>2, FreshIs
<1>6. \A x \in IdsIn(q) : x \in Ids /\ x[1] = shown /\ x[2] > p.local
  BY <1>1, <1>5 DEF FreshFor
<1>7. shown \notin clash => IdsIn(q) \cap IdsOf(canvas) = {}
  <2>1. \A x \in Ids : x[2] \in Nat
    BY DEF Ids
  <2> QED
    BY <1>1, <1>3, <1>4, <1>6, <2>1
<1> QED
  BY <1>3, <1>6, <1>7, Extended

LEMMA CreatedHeld ==
    ASSUME CanvasInv, NEW i \in DOMAIN pending, pending[i].graph = shown, NEW d, d = Created(pending[i])
    PROVE  Held(d, shown, clash)
<1> DEFINE p == pending[i]
<1>1. CASE p.op = "import"
  <2>1. d = Remapped(p.nodes, p.edges, FreshIds(p))
    BY <1>1 DEF Created
  <2>2. Held(d, pending[i].graph, clash)
    BY <1>1, <2>1, ImportedHeld
  <2> QED
    BY <2>2
<1>2. CASE p.op # "import"
  <2> DEFINE w == p.nodes
             ids == FreshIds(p)
             q == [j \in DOMAIN w |-> Clone(w[j], ids[j])]
  <2>1. canvas \in Graphs
    BY Now
  <2>2. d = [canvas EXCEPT !.nodes = @ \o q]
    BY <1>2 DEF Created
  <2>3. /\ p.nodes \in Seq(Drafts) /\ p.local \in Nat /\ p.got \in Nat /\ p.graph \in 1..MaxGraphs
    BY RequestIs
  <2>4. FreshFor(ids, w) /\ w \in Seq(Drafts)
    <3> HIDE DEF p
    <3> QED
      BY <2>3, FreshIs
  <2>5. q = [j \in DOMAIN w |-> Clone(w[j], ids[j])]
    OBVIOUS
  <2>6. w = pending[i].nodes /\ ids = FreshIds(pending[i])
    OBVIOUS
  <2> HIDE DEF q, ids, w, p
  <2>7. d = Extension(canvas, q)
    BY <2>1, <2>2 DEF Extension, Graphs
  <2>8. Bare(q) /\ Distinct(q) /\ IdsIn(q) = {ids[j] : j \in DOMAIN w}
    BY <2>4, <2>5, ClonesAre
  <2> QED
    BY <2>6, <2>7, <2>8, PastedHeld
<1> QED
  BY <1>1, <1>2

LEMMA ApplyKeeps ==
    ASSUME CanvasInv, NEW i \in DOMAIN pending, Apply(i)
    PROVE  CanvasInv'
<1> DEFINE p == pending[i]
           r == RemoveAt(pending, i)
<1>1. /\ pending' = r
      /\ IF p.graph = shown THEN Edited(Created(p)) ELSE UNCHANGED <<canvas, undo, redo>>
      /\ picked' = IF p.op = "import" THEN None ELSE FreshIds(p)[1]
      /\ UNCHANGED <<clipboard, file, index, shown, clash, gestures>>
  BY DEF Apply
<1>2. /\ p.nodes \in Seq(Drafts) /\ p.nodes # <<>> /\ p.local \in Nat /\ p.got \in Nat /\ p.graph \in 1..MaxGraphs
  BY RequestIs
<1>3. /\ Held(canvas, shown, clash) /\ Requested(pending, canvas, shown, clash)
      /\ picked \in Ids \cup {None}
  BY Now
<1>4. /\ Requested(r, canvas, shown, clash)
      /\ shown \notin clash /\ p.graph = shown => \A j \in DOMAIN r : r[j].graph # shown
  <2>1. r = RemoveAt(pending, i)
    OBVIOUS
  <2> HIDE DEF r
  <2> QED
    BY <1>3, <2>1, RequestedRemoved
<1>5. picked' \in Ids \cup {None}
  <2> HIDE DEF p
  <2>1. FreshFor(FreshIds(p), p.nodes)
    BY <1>2, FreshIs
  <2>2. 1 \in DOMAIN p.nodes
    <3> DEFINE w == p.nodes
    <3>1. w \in Seq(Drafts) /\ w # <<>>
      BY <1>2
    <3> HIDE DEF w
    <3>2. Len(w) \in Nat \ {0} /\ DOMAIN w = 1..Len(w)
      BY <3>1, EmptySeq, LenProperties
    <3> QED
      BY <3>2 DEF w
  <2>3. FreshIds(p)[1] \in Ids
    BY <2>1, <2>2 DEF FreshFor
  <2> QED
    BY <1>1, <2>3
<1> HIDE DEF r
<1>6. CASE p.graph = shown
  <2> DEFINE d == Created(p)
  <2>1. PushHistory /\ canvas' = d
    BY <1>1, <1>6 DEF Edited
  <2>2. Held(d, shown, clash)
    BY <1>6, CreatedHeld
  <2> HIDE DEF d, p
  <2>3. Requested(r, d, shown, clash)
    BY <1>4, <1>6, RequestedMore
  <2>4. Held(canvas', shown, clash') /\ Requested(pending', canvas', shown, clash')
    BY <1>1, <2>1, <2>2, <2>3
  <2> QED
    BY <1>1, <1>5, <2>1, <2>4, Now, Pushed, InvKept
<1>7. CASE p.graph # shown
  <2>1. UNCHANGED <<canvas, undo, redo>>
    BY <1>1, <1>7
  <2>2. Held(canvas', shown, clash') /\ Requested(pending', canvas', shown, clash')
    BY <1>1, <1>3, <1>4, <2>1
  <2> HIDE DEF p
  <2> QED
    BY <1>1, <1>5, <2>1, <2>2, Now, NotPushed, InvKept
<1> QED
  BY <1>6, <1>7

(* Another graph: nothing is on its way for it yet. *)
LEMMA OpenGraphKeeps ==
    ASSUME CanvasInv, OpenGraph
    PROVE  CanvasInv'
<1>1. /\ shown < MaxGraphs /\ shown' = shown + 1
      /\ canvas' = Empty /\ undo' = <<>> /\ redo' = <<>> /\ clipboard' = <<>> /\ picked' = None
      /\ UNCHANGED <<file, pending, index, clash, gestures>>
  BY DEF OpenGraph
<1>2. MaxGraphs \in Nat /\ MaxHistory \in Nat /\ shown \in 1..MaxGraphs /\ Requested(pending, canvas, shown, clash)
  BY Now, CanvasAssumption
<1>3. TypeOK'
  <2>1. TypeOK
    BY DEF CanvasInv
  <2>2. shown' \in 1..MaxGraphs
    BY <1>1, <1>2
  <2>3. \A i \in DOMAIN pending : pending[i].graph \in 1..shown'
    BY <1>1, <1>2, <2>1 DEF TypeOK
  <2> QED
    BY <1>1, <1>2, <2>1, <2>2, <2>3, EmptyIs DEF TypeOK
<1>4. Canvases' = {Empty}
  BY <1>1 DEF Canvases, ToSet
<1>5. Held(Empty, shown', clash')
  BY EmptyIs DEF Held, OfGraph
<1>6. Exported(file', clash')
  BY <1>1 DEF CanvasInv
<1>7. Requested(pending', canvas', shown', clash')
  <2> DEFINE g == shown + 1
  <2>1. \A i \in DOMAIN pending : pending[i].graph <= shown /\ pending[i].graph # g /\ pending[i].graph <= g
    <3>1. \A i \in DOMAIN pending : pending[i].graph \in 1..MaxGraphs /\ pending[i].graph <= shown
      BY <1>2, RequestIs DEF Requested
    <3> QED
      BY <1>2, <3>1
  <2> HIDE DEF g
  <2>2. Requested(pending, Empty, g, clash)
    BY <1>2, <2>1 DEF Requested, Single, Above
  <2> QED
    BY <1>1, <2>2 DEF g
<1> QED
  BY <1>3, <1>4, <1>5, <1>6, <1>7 DEF CanvasInv

LEMMA StepInv ==
    ASSUME CanvasInv, [Next]_vars
    PROVE  CanvasInv'
<1>1. ASSUME NEW ids \in SUBSET IdsOf(canvas), DeleteNodes(ids) PROVE CanvasInv'
  BY <1>1, DeleteNodesKeeps
<1>2. ASSUME NEW s \in IdsOf(canvas), NEW t \in IdsOf(canvas),
             (\E e \in Candidates(s, t) : Connect(e)) \/ ConnectNodes(s, t) \/ ConnectPortless(s, t)
      PROVE  CanvasInv'
  BY <1>2, ConnectKeeps, ConnectNodesKeeps, ConnectPortlessKeeps
<1>3. ASSUME NEW e \in canvas.edges, DeleteEdge(e) PROVE CanvasInv'
  BY <1>3, DeleteEdgeKeeps
<1>4. ASSUME Arrange \/ Configure \/ Undo \/ Redo PROVE CanvasInv'
  BY <1>4, ArrangeKeeps, ConfigureKeeps, UndoKeeps, RedoKeeps
<1>5. ASSUME ExportJson \/ PasteNode \/ ImportGraph \/ OpenGraph PROVE CanvasInv'
  BY <1>5, ExportJsonKeeps, PasteNodeKeeps, ImportGraphKeeps, OpenGraphKeeps
<1>6. ASSUME NEW id \in IdsOf(canvas) \cup {None}, Select(id) PROVE CanvasInv'
  BY <1>6, SelectKeeps
<1>7. ASSUME NEW id \in IdsOf(canvas),
             Copy(Without(canvas.nodes, IdsOf(canvas) \ {id})) \/ Copy(canvas.nodes)
      PROVE  CanvasInv'
  <2> DEFINE w == Without(canvas.nodes, IdsOf(canvas) \ {id})
  <2>1. canvas.nodes \in Seq(Nodes)
    BY Now
  <2>2. w \in Seq(Nodes)
    BY <2>1, WithoutIs
  <2> HIDE DEF w
  <2>3. Copy(w) \/ Copy(canvas.nodes)
    BY <1>7 DEF w
  <2> QED
    BY <2>1, <2>2, <2>3, CopyKeeps
<1>8. ASSUME NEW kind \in NewKinds, AddNode(kind) PROVE CanvasInv'
  BY <1>8, AddNodeKeeps
<1>9. ASSUME NEW i \in DOMAIN pending, LoadIndex(i) \/ SaveIndex(i) \/ IndexFails(i) \/ Apply(i) PROVE CanvasInv'
  BY <1>9, LoadIndexKeeps, SaveIndexKeeps, IndexFailsKeeps, ApplyKeeps
<1>10. ASSUME UNCHANGED vars PROVE CanvasInv'
  BY <1>10 DEF vars, CanvasInv, TypeOK, Canvases
<1>11. ASSUME Next PROVE CanvasInv'
  BY <1>1, <1>2, <1>3, <1>4, <1>5, <1>6, <1>7, <1>8, <1>9, <1>11 DEF Next
<1> QED
  BY <1>10, <1>11

LEMMA AlwaysCanvasInv == Spec => []CanvasInv
<1>1. Init => CanvasInv
  BY InitInv
<1>2. CanvasInv /\ [Next]_vars => CanvasInv'
  BY StepInv
<1> QED
  BY <1>1, <1>2, PTL DEF Spec

-----------------------------------------------------------------------------
(* Theorems. *)

(* Types: whatever the user does and whenever ids arrive, the canvas, the    *)
(* stacks, the clipboard and the exported file hold nodes and edges of the   *)
(* page, and the history is never longer than MAX_HISTORY (index.tsx).       *)
THEOREM TypesHold == Spec => []TypeOK
<1>1. CanvasInv => TypeOK
  BY DEF CanvasInv
<1> QED
  BY <1>1, AlwaysCanvasInv, PTL

(* No edit of index.tsx, not even a paste or an import whose ids come late,  *)
(* leaves an edge to a node that is gone, an input connected twice or a      *)
(* cycle.                                                                    *)
THEOREM CanvasStaysSound == Spec => []EdgesSound
<1>1. CanvasInv => EdgesSound
  BY InvImplies
<1> QED
  BY <1>1, AlwaysCanvasInv, PTL

(* deriveInputs is called wherever an edge comes or goes: every node has the *)
(* inputs of its edges, as long as no allocation of ids overlapped.          *)
THEOREM InputsAreDerived == Spec => []InputsFollowEdges
<1>1. CanvasInv => InputsFollowEdges
  BY InvImplies
<1> QED
  BY <1>1, AlwaysCanvasInv, PTL

(* allocateNodeIds: two nodes have the same id only if allocations of the    *)
(* graph overlapped, or one overlapped an undo.                              *)
THEOREM IdsStayUnique == Spec => []IdsUnique
<1>1. CanvasInv => IdsUnique
  BY InvImplies
<1> QED
  BY <1>1, AlwaysCanvasInv, PTL

(* DAGNextWorkspace is mounted anew for each graph: what undo and redo can   *)
(* bring back is of the graph shown, whichever answers arrive.               *)
THEOREM HistoryStaysInGraph == Spec => []HistoryOfGraph
<1>1. CanvasInv => HistoryOfGraph
  BY InvImplies
<1> QED
  BY <1>1, AlwaysCanvasInv, PTL

(* commitEdge clears a modification that is connected again: the upstream it *)
(* reads was there when its parameters were entered, through undo, paste and *)
(* import, as long as no allocation overlapped.                              *)
THEOREM ParamsStayLatest == Spec => []ParamsMatchInputs
<1>1. CanvasInv => ParamsMatchInputs
  BY InvImplies
<1> QED
  BY <1>1, AlwaysCanvasInv, PTL

(* pickConnection returns a valid connection of two nodes if there is one:   *)
(* the search ends early only when every other pair would close a cycle too. *)
THEOREM PickFindsAny == Spec => []PickIsComplete
<1>1. CanvasInv => PickIsComplete
  BY InvImplies
<1> QED
  BY <1>1, AlwaysCanvasInv, PTL

(* tidyLayout places every node of a canvas, each in a later layer than all  *)
(* it depends on.                                                            *)
THEOREM LayoutIsOrdered == Spec => []LayoutFollowsEdges
<1>1. CanvasInv => LayoutFollowsEdges
  BY InvImplies
<1> QED
  BY <1>1, AlwaysCanvasInv, PTL
=============================================================================
