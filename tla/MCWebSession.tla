---------------------------- MODULE MCWebSession ----------------------------
EXTENDS WebSession, TLC

(* An institution's account on the center, and a page it may not open.       *)
MCAccount == [platform |-> "CENTER", ownerType |-> "EDGE", owner |-> "alice"]
MCLinks == {Path("nodes")}

Interchangeable == Permutations(Tabs) \cup Permutations(Calls)
=============================================================================
