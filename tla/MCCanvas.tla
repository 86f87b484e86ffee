----------------------------- MODULE MCCanvas -----------------------------
(* Model-checking instance of Canvas: a table, a training with a model, a    *)
(* table and a report as outputs, a modification with two inputs, and a      *)
(* component whose ports are unknown.                                        *)
EXTENDS Canvas

MCPorts == [table |-> [ins |-> <<>>, outs |-> <<{"t"}>>],
            train |-> [ins |-> <<{"t"}>>, outs |-> <<{"m"}, {"t"}, {Report}>>],
            edit  |-> [ins |-> <<{"t"}, {"t"}>>, outs |-> <<{"t"}>>],
            old   |-> [ins |-> <<>>, outs |-> <<>>]]

(* table -> edit <- train, with the parameters of edit entered for both.     *)
MCFirst ==
    LET a == Blank(Id(1, 3), "table")
        b == Blank(Id(1, 4), "train")
        c == Blank(Id(1, 5), "edit")
        in == << <<a.id, 1>>, <<b.id, 2>> >>
    IN  [nodes |-> <<a, b, [c EXCEPT !.inputs = in, !.params = <<in>>]>>,
         edges |-> {Edge(a.id, 1, c.id, 1), Edge(b.id, 2, c.id, 2)}]
=============================================================================
