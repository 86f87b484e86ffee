---------------------------- MODULE MCRunStatus ----------------------------
(***************************************************************************)
(* Instances of RunStatus for TLC.                                         *)
(***************************************************************************)
EXTENDS RunStatus

CONSTANTS g, h, a, b, c

MCGraphs == {g, h}
MCNodes  == {a, b, c}
MCOpened == {g}
MCOpenedOther == {h}
MCEdges == {<<a, b>>}
MCWhole == {{a, b}}
MCOne == {{a}}
MCGraphOf == [n \in MCNodes |-> IF n = c THEN h ELSE g]

Over(graph, task) ==
    [graph |-> graph, young |-> FALSE, task |-> task,
     status |-> IF \E n \in DOMAIN task : task[n] = "FAILED" THEN "FAILED" ELSE "SUCCEED"]

(* Each graph has been run before. *)
MCPrior == <<Over(h, [n \in {c} |-> "SUCCEED"]),
             Over(g, [n \in {a, b} |-> IF n = a THEN "SUCCEED" ELSE "FAILED"])>>
=============================================================================
