----------------------------- MODULE MCP2PQueue -----------------------------
(* Model-checking instance of P2PQueue: goroutines, peers and rows are       *)
(* interchangeable, which the runs without liveness properties use.         *)
EXTENDS P2PQueue, TLC

Symmetry == Permutations(Workers) \cup Permutations(Peers) \cup Permutations(Rows)
=============================================================================
