--------------------------- MODULE MCGraphEditor ---------------------------
(* Model-checking instance of GraphEditor: edits are interchangeable.       *)
EXTENDS GraphEditor

Symmetry == Permutations(Edits)
=============================================================================
