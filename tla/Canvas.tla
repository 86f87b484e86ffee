------------------------------- MODULE Canvas -------------------------------
(***************************************************************************)
(* The canvas of the pipeline page (packages/dag-next/src/index.tsx): its  *)
(* nodes and edges, undo and redo, clipboard, export and import, and the   *)
(* rules of graph-model.ts for ports and connections.                      *)
(*                                                                         *)
(* New nodes get their ids from the server (allocateNodeIds in             *)
(* pages/dag/index.tsx, RefreshNodeMaxIndex in graph_service.go), so       *)
(* adding, pasting and importing are begun in one step and applied in a    *)
(* later one; the user goes on editing, or opens another graph, meanwhile. *)
(* A graph that is opened mounts a canvas of its own.  Positions are left  *)
(* out; a node's parameters are represented by the inputs it had when they *)
(* were entered.                                                           *)
(***************************************************************************)
EXTENDS Integers, Sequences, FiniteSets, SequencesExt

CONSTANTS
    Kinds,         \* component kinds
    Ports,         \* kind |-> the types of its inputs and outputs
    Report,        \* the type of outputs that are shown and never consumed
    Modifications, \* kinds that edit parameters read from upstream
    FirstGraph,    \* the stored graph the page opens
    NewKinds,      \* kinds in the palette
    DefaultIndex,  \* first index of a graph's nodes
    MaxHistory,    \* snapshots kept for undo (50)
    MaxNodes,      \* bound: nodes on a canvas
    MaxGestures,   \* bound: what the user does
    MaxPending,    \* bound: allocations on the way at once
    MaxGraphs      \* bound: graphs opened one after another

ASSUME CanvasAssumption ==
    /\ Modifications \subseteq Kinds /\ NewKinds \subseteq Kinds
    /\ \A k \in Kinds : DOMAIN Ports[k].ins \cup DOMAIN Ports[k].outs \subseteq Nat \ {0}
    /\ DefaultIndex \in Nat
    /\ {MaxHistory, MaxNodes, MaxGestures, MaxPending, MaxGraphs} \subseteq Nat \ {0}

VARIABLES
    canvas,    \* the nodes and edges shown
    undo,      \* undoStackRef: earlier canvases, the latest last
    redo,      \* redoStackRef
    clipboard, \* copied nodes
    file,      \* what was exported
    pending,   \* gestures that wait for ids
    index,     \* the server's node_max_index of each graph
    shown,     \* the graph on the page; graphs are opened in order
    picked,    \* selectedNode of the page
    clash,     \* history: graphs for which two allocations overlapped
    gestures   \* gestures so far

vars == <<canvas, undo, redo, clipboard, file, pending, index, shown, picked, clash, gestures>>

-----------------------------------------------------------------------------
(* Nodes, ports and connections. *)

None == <<>>
Id(g, n) == <<g, n>>
IdOf(node) == node.id
Blank(id, kind) == [id |-> id, kind |-> kind, inputs |-> <<>>, params |-> None]
Empty == [nodes |-> <<>>, edges |-> {}]

NodesOf(c) == ToSet(c.nodes)
IdsOf(c) == {n.id : n \in NodesOf(c)}
KindOf(c, id) == (CHOOSE n \in NodesOf(c) : n.id = id).kind

(* buildPorts: a report has no port; a node whose component is unknown none. *)
InPorts(kind) == DOMAIN Ports[kind].ins
OutPorts(kind) == {i \in DOMAIN Ports[kind].outs : Ports[kind].outs[i] # {Report}}
HasPorts(kind) == InPorts(kind) \cup OutPorts(kind) # {}

(* deriveInputs: the outputs an id's input ports are connected to, in order.  *)
DeriveInputs(id, edges) ==
    LET mine == {e \in edges : e.target = id}
    IN  [i \in 1..Max({e.in : e \in mine} \cup {0}) |-> IF \E e \in mine : e.in = i
                           THEN LET e == CHOOSE x \in mine : x.in = i IN <<e.source, e.out>>
                           ELSE None]

(* downstreamIds: breadth first along the edges; isReachable: from it. *)
Successors(ids, edges) == {e.target : e \in {x \in edges : x.source \in ids}}
Downstream(id, edges) ==
    LET reach[n \in Nat] == IF n = 0 THEN Successors({id}, edges)
                            ELSE LET r == reach[n - 1] IN r \cup Successors(r, edges)
    IN  reach[Cardinality(edges)]
(* Mutant: looked for the wrong way round. *)
IsReachableBackwards(from, to, edges) == from = to \/ from \in Downstream(to, edges)

IsReachable(from, to, edges) == from = to \/ to \in Downstream(from, edges)

(* validateConnection: the first of these that applies is the refusal.  A    *)
(* port that declares no types fits any other.                               *)
Reasons == <<"SELF", "NO_PORT", "TYPE", "DUPLICATE", "OCCUPIED", "CYCLE">>
Applies(reason, c, e, ported) ==
    LET from == KindOf(c, e.source)
        to   == KindOf(c, e.target)
        known == ported /\ e.out \in OutPorts(from) /\ e.in \in InPorts(to)
        unlike(offers, takes) == {} \notin {offers, takes} /\ offers \cap takes = {}
    IN  CASE reason = "SELF"      -> e.source = e.target
          [] reason = "NO_PORT"   -> ported /\ ~known
          [] reason = "TYPE"      -> known /\ unlike(Ports[from].outs[e.out], Ports[to].ins[e.in])
          [] reason = "DUPLICATE" -> e \in c.edges
          [] reason = "OCCUPIED"  -> \E x \in c.edges : x.target = e.target /\ x.in = e.in
          [] reason = "CYCLE"     -> IsReachable(e.target, e.source, c.edges)
Valid(c, e, ported) == \A i \in DOMAIN Reasons : ~Applies(Reasons[i], c, e, ported)
Refused(reason, c, e, ported) ==
    \E i \in DOMAIN Reasons : /\ Reasons[i] = reason /\ Applies(reason, c, e, ported)
                              /\ \A j \in 1..(i - 1) : ~Applies(Reasons[j], c, e, ported)

Edge(s, o, t, i) == [source |-> s, out |-> o, target |-> t, in |-> i]
Before(x, e) == x.in < e.in \/ (x.in = e.in /\ x.out < e.out)

(* Mutant: an occupied input ends the search, too. *)
PickFirstInput(c, s, t) ==
    LET tried == {Edge(s, o, t, i) : o \in OutPorts(KindOf(c, s)), i \in InPorts(KindOf(c, t))}
    IN  IF s = t THEN {}
        ELSE {e \in tried : Valid(c, e, TRUE) /\ \A x \in tried : Before(x, e) =>
                 ~Valid(c, x, TRUE) /\ ~Refused("OCCUPIED", c, x, TRUE) /\ ~Refused("CYCLE", c, x, TRUE)}

(* pickConnection: the inputs in order, and for each the outputs in order;   *)
(* a cycle ends the search.  {} when nothing can be connected.               *)
Pick(c, s, t) ==
    LET tried == {Edge(s, o, t, i) : o \in OutPorts(KindOf(c, s)), i \in InPorts(KindOf(c, t))}
    IN  IF s = t THEN {}
        ELSE {e \in tried : Valid(c, e, TRUE) /\ \A x \in tried :
                 Before(x, e) => ~Valid(c, x, TRUE) /\ ~Refused("CYCLE", c, x, TRUE)}

(* Mutant: a node follows the first of its sources to be placed. *)
LayersOfFirstSource(c) ==
    LET layer[n \in Nat] ==
            LET placed == IF n = 0 THEN {} ELSE layer[n - 1]
            IN  {id \in IdsOf(c) : \/ \A e \in c.edges : e.target # id
                                  \/ \E e \in c.edges : e.target = id /\ e.source \in placed}
    IN  layer

(* tidyLayout: Kahn's layers; what a cycle keeps out goes to the last one.   *)
Layers(c) ==
    LET layer[n \in Nat] ==   \* the ids placed up to layer n
            LET placed == IF n = 0 THEN {} ELSE layer[n - 1]
            IN  {id \in IdsOf(c) : \A e \in c.edges : e.target = id => e.source \in placed}
    IN  layer
LayerOf(c, id) ==
    IF \E n \in 0..Len(c.nodes) : id \in Layers(c)[n]
    THEN CHOOSE n \in 0..Len(c.nodes) : id \in Layers(c)[n] /\ (n > 0 => id \notin Layers(c)[n - 1])
    ELSE Len(c.nodes)
-----------------------------------------------------------------------------
(* Graphs and what makes one correct. *)

Ids == (1..MaxGraphs) \X Nat
Anchors == {None} \cup (Ids \X Nat)
Nodes == [id : Ids, kind : Kinds, inputs : Seq(Anchors), params : Seq(Seq(Anchors))]
Connections == [source : Ids, out : Nat, target : Ids, in : Nat \ {0}]
Graphs == [nodes : Seq(Nodes), edges : SUBSET Connections]

(* An edge joins two nodes that are there, an input is connected once, and   *)
(* there is no cycle.                                                        *)
Sound(c) ==
    /\ \A e \in c.edges : {e.source, e.target} \subseteq IdsOf(c)
    /\ \A e, x \in c.edges : e.target = x.target /\ e.in = x.in => e = x
    /\ \A id \in IdsOf(c) : id \notin Downstream(id, c.edges)

OfGraph(c, g) == \A id \in IdsOf(c) : id[1] = g
Unique(c) == Len(c.nodes) = Cardinality(IdsOf(c))
Follows(c) == \A n \in NodesOf(c) : n.inputs = DeriveInputs(n.id, c.edges)

(* What a modification with parameters reads now was there when they were    *)
(* entered.                                                                  *)
Latest(c) ==
    \A n \in NodesOf(c) : n.kind \in Modifications /\ n.params # None =>
        \A i \in DOMAIN n.inputs : n.inputs[i] # None =>
            i \in DOMAIN n.params[1] /\ n.params[1][i] = n.inputs[i]

(* A stored graph was saved from a canvas. *)
ASSUME FirstGraphAssumption ==
    /\ FirstGraph \in Graphs /\ IsFiniteSet(FirstGraph.edges)
    /\ Sound(FirstGraph) /\ OfGraph(FirstGraph, 1)
    /\ Unique(FirstGraph) /\ Follows(FirstGraph) /\ Latest(FirstGraph)
-----------------------------------------------------------------------------
(* Editing. *)

(* Mutant: the stack is never cut. *)
SnapshotUncut(stack) == Append(stack, canvas)

Snapshot(stack) == IF Len(stack) = MaxHistory THEN Append(Tail(stack), canvas) ELSE Append(stack, canvas)
PushHistory == undo' = Snapshot(undo) /\ redo' = <<>>

(* The ids of two allocations that overlap may coincide, and those of one    *)
(* that overlaps an undo may be on the restored canvas.                      *)
Clashing == IF \E p \in ToSet(pending) : p.graph = shown THEN clash \cup {shown} ELSE clash

Gesture == gestures < MaxGestures /\ gestures' = gestures + 1
Edited(c) ==
    /\ PushHistory
    /\ canvas' = c

(* nodes.filter: the nodes that are not among ids, in order. *)
Without(nodes, ids) ==
    LET kept[n \in Nat] == IF n = 0 THEN <<>>
                           ELSE IF nodes[n].id \in ids THEN kept[n - 1] ELSE Append(kept[n - 1], nodes[n])
    IN  kept[Len(nodes)]

OnNodes(nodes, Op(_)) == [i \in DOMAIN nodes |-> Op(nodes[i])]
(* Mutant: what was downstream keeps its inputs. *)
RederivedNever(nodes, ids, edges) == nodes

Rederived(nodes, ids, edges) ==
    OnNodes(nodes, LAMBDA n : IF n.id \in ids THEN [n EXCEPT !.inputs = DeriveInputs(n.id, edges)] ELSE n)

DeleteNodes(ids) ==
    /\ Gesture
    /\ LET rest == {e \in canvas.edges : e.source \notin ids /\ e.target \notin ids}
       IN  Edited([nodes |-> Rederived(Without(canvas.nodes, ids), Successors(ids, canvas.edges), rest),
                   edges |-> rest])
    /\ picked' = IF picked \in ids THEN None ELSE picked
    /\ UNCHANGED <<clipboard, file, pending, index, shown, clash>>

(* Mutant: a modification keeps its parameters. *)
CommitEdgeOnly(e) ==
    LET edges == canvas.edges \cup {e} IN
    Edited([edges |-> edges,
            nodes |-> OnNodes(canvas.nodes, LAMBDA n :
                IF n.id # e.target THEN n ELSE [n EXCEPT !.inputs = DeriveInputs(n.id, edges)])])

(* commitEdge: the target's inputs follow, a modification starts afresh.     *)
CommitEdge(e) ==
    LET edges == canvas.edges \cup {e} IN
    Edited([edges |-> edges,
            nodes |-> OnNodes(canvas.nodes, LAMBDA n :
                IF n.id # e.target THEN n
                ELSE [n EXCEPT !.inputs = DeriveInputs(n.id, edges),
                               !.params = IF n.kind \in Modifications THEN None ELSE @])])

(* handleConnect from port to port, by clicking two nodes, and between nodes *)
(* without ports.                                                            *)
Connect(e) ==
    /\ Gesture
    /\ HasPorts(KindOf(canvas, e.source)) /\ HasPorts(KindOf(canvas, e.target))
    /\ Valid(canvas, e, TRUE)
    /\ CommitEdge(e)
    /\ UNCHANGED <<clipboard, file, pending, index, shown, picked, clash>>

ConnectNodes(s, t) ==
    /\ Gesture
    /\ HasPorts(KindOf(canvas, s)) /\ HasPorts(KindOf(canvas, t))
    /\ \E e \in Pick(canvas, s, t) : CommitEdge(e)
    /\ UNCHANGED <<clipboard, file, pending, index, shown, picked, clash>>

FreeInput(t) == CHOOSE i \in 1..(Cardinality(canvas.edges) + 1) :
                    /\ \A e \in canvas.edges : e.target = t => e.in # i
                    /\ \A j \in 1..(i - 1) : \E e \in canvas.edges : e.target = t /\ e.in = j
ConnectPortless(s, t) ==
    /\ Gesture
    /\ ~(HasPorts(KindOf(canvas, s)) /\ HasPorts(KindOf(canvas, t)))
    /\ LET e == Edge(s, 1, t, FreeInput(t)) IN Valid(canvas, e, FALSE) /\ CommitEdge(e)
    /\ UNCHANGED <<clipboard, file, pending, index, shown, picked, clash>>

DeleteEdge(e) ==
    /\ Gesture
    /\ LET rest == canvas.edges \ {e}
       IN  Edited([nodes |-> Rederived(canvas.nodes, {e.target}, rest), edges |-> rest])
    /\ UNCHANGED <<clipboard, file, pending, index, shown, picked, clash>>

(* The end of a drag, or tidyLayout: only positions change.                  *)
Arrange ==
    /\ Gesture
    /\ Edited(canvas)
    /\ UNCHANGED <<clipboard, file, pending, index, shown, picked, clash>>

(* The form of the inspector: no entry in the history.                       *)
Configure ==
    /\ Gesture
    /\ picked \in IdsOf(canvas)
    /\ canvas' = [canvas EXCEPT !.nodes = OnNodes(@, LAMBDA n :
                     IF n.id = picked THEN [n EXCEPT !.params = <<n.inputs>>] ELSE n)]
    /\ UNCHANGED <<undo, redo, clipboard, file, pending, index, shown, picked, clash>>

Select(id) ==
    /\ Gesture
    /\ picked # id
    /\ picked' = id
    /\ UNCHANGED <<canvas, undo, redo, clipboard, file, pending, index, shown, clash>>

Undo ==
    /\ Gesture
    /\ undo # <<>>
    /\ undo' = Front(undo)
    /\ redo' = Append(redo, canvas)
    /\ canvas' = Last(undo)
    /\ clash' = Clashing
    /\ UNCHANGED <<clipboard, file, pending, index, shown, picked>>

Redo ==
    /\ Gesture
    /\ redo # <<>>
    /\ redo' = Front(redo)
    /\ undo' = Append(undo, canvas)
    /\ canvas' = Last(redo)
    /\ clash' = Clashing
    /\ UNCHANGED <<clipboard, file, pending, index, shown, picked>>

Copy(nodes) ==
    /\ Gesture
    /\ clipboard' = nodes
    /\ UNCHANGED <<canvas, undo, redo, file, pending, index, shown, picked, clash>>

ExportJson ==
    /\ Gesture
    /\ file' = canvas
    /\ UNCHANGED <<canvas, undo, redo, clipboard, pending, index, shown, picked, clash>>
-----------------------------------------------------------------------------
(* Adding, pasting and importing.  allocateNodeIds asks the server with the  *)
(* largest index on the canvas at that time.                                 *)
MaxIndex(nodes) == Max({n.id[2] : n \in ToSet(nodes)} \cup {0})

Begin(op, nodes, edges) ==
    /\ Gesture
    /\ nodes # <<>> /\ Len(pending) < MaxPending /\ Len(canvas.nodes) < MaxNodes
    /\ pending' = Append(pending, [op |-> op, graph |-> shown, nodes |-> nodes, edges |-> edges,
                                   local |-> MaxIndex(canvas.nodes), state |-> "asked", got |-> 0])
    /\ clash' = Clashing
    /\ UNCHANGED <<canvas, undo, redo, clipboard, file, index, shown, picked>>

AddNode(kind) == Begin("add", <<Blank(None, kind)>>, {})
PasteNode == Begin("paste", clipboard, {})
ImportGraph == file # Empty /\ Begin("import", file.nodes, file.edges)

(* RefreshNodeMaxIndex loads the graph and saves it in another statement.    *)
LoadIndex(i) ==
    /\ pending[i].state = "asked"
    /\ pending' = [pending EXCEPT ![i].state = "loaded", ![i].got = index[pending[i].graph]]
    /\ UNCHANGED <<canvas, undo, redo, clipboard, file, index, shown, picked, clash, gestures>>

SaveIndex(i) ==
    /\ pending[i].state = "loaded"
    /\ LET max == IF pending[i].local > pending[i].got THEN pending[i].local ELSE pending[i].got
       IN  /\ index' = [index EXCEPT ![pending[i].graph] = max + 1]
           /\ pending' = [pending EXCEPT ![i].state = "answered", ![i].got = max]
    /\ UNCHANGED <<canvas, undo, redo, clipboard, file, shown, picked, clash, gestures>>

(* The request, its second statement or its answer is lost. *)
IndexFails(i) ==
    /\ pending[i].got # DefaultIndex \/ pending[i].state # "answered"
    /\ pending' = [pending EXCEPT ![i].state = "answered", ![i].got = DefaultIndex]
    /\ UNCHANGED <<canvas, undo, redo, clipboard, file, index, shown, picked, clash, gestures>>

(* Mutant: what the canvas itself uses is not looked at. *)
FreshIdsOfServer(p) == [i \in DOMAIN p.nodes |-> Id(p.graph, p.got + i)]

FreshIds(p) ==
    LET max == IF p.local > p.got THEN p.local ELSE p.got
    IN  [i \in DOMAIN p.nodes |-> Id(p.graph, max + i)]

(* cloneNodes: unconnected, and a modification without its parameters.       *)
Clone(node, id) == [node EXCEPT !.id = id, !.inputs = <<>>,
                                !.params = IF node.kind \in Modifications THEN None ELSE @]

(* remapImportedGraph: ids, anchors and edges rewritten together; the import *)
(* then derives the inputs again (index.tsx:1212), so the renamed ones are   *)
(* not kept.  The parameters stay as they are: what they were entered for is *)
(* the same node, under its new id.                                          *)
Remapped(nodes, edges, ids) ==
    LET known == {n.id : n \in ToSet(nodes)}
        to(id) == IF id \in known THEN ids[CHOOSE i \in DOMAIN nodes : nodes[i].id = id] ELSE id
        anchors(ins) == [i \in DOMAIN ins |-> IF ins[i] = None THEN None ELSE <<to(ins[i][1]), ins[i][2]>>]
        moved == {Edge(to(e.source), e.out, to(e.target), e.in) :
                     e \in {x \in edges : x.source \in known /\ x.target \in known}}
    IN  [nodes |-> [i \in DOMAIN nodes |->
                       [nodes[i] EXCEPT !.id = ids[i], !.inputs = DeriveInputs(ids[i], moved),
                                        !.params = IF @ = None THEN None ELSE <<anchors(@[1])>>]],
         edges |-> moved]

Created(p) ==
    IF p.op = "import" THEN Remapped(p.nodes, p.edges, FreshIds(p))
    ELSE [canvas EXCEPT !.nodes = @ \o [i \in DOMAIN p.nodes |-> Clone(p.nodes[i], FreshIds(p)[i])]]

(* What follows the await.  On a canvas that is gone only the page's         *)
(* selection changes: onNodeSelect is called whatever graph is shown.        *)
Apply(i) ==
    LET p == pending[i] IN
    /\ p.state = "answered"
    /\ pending' = RemoveAt(pending, i)
    /\ IF p.graph = shown THEN Edited(Created(p)) ELSE UNCHANGED <<canvas, undo, redo>>
    /\ picked' = IF p.op = "import" THEN None ELSE FreshIds(p)[1]
    /\ UNCHANGED <<clipboard, file, index, shown, clash, gestures>>

(* Mutant: one workspace for all graphs. *)
OpenGraphInPlace ==
    /\ shown < MaxGraphs
    /\ shown' = shown + 1
    /\ canvas' = Empty /\ picked' = None
    /\ UNCHANGED <<undo, redo, clipboard, file, pending, index, clash, gestures>>

(* Another graph: the workspace is mounted anew, the page drops its          *)
(* selection.                                                                *)
OpenGraph ==
    /\ shown < MaxGraphs
    /\ shown' = shown + 1
    /\ canvas' = Empty /\ undo' = <<>> /\ redo' = <<>> /\ clipboard' = <<>>
    /\ picked' = None
    /\ UNCHANGED <<file, pending, index, clash, gestures>>
-----------------------------------------------------------------------------
Init ==
    /\ canvas = FirstGraph
    /\ undo = <<>> /\ redo = <<>> /\ clipboard = <<>> /\ file = Empty /\ pending = <<>>
    /\ index = [g \in 1..MaxGraphs |-> DefaultIndex + (IF g = 1 THEN Len(FirstGraph.nodes) ELSE 0)]
    /\ shown = 1 /\ picked = None /\ clash = {} /\ gestures = 0

Candidates(s, t) == {Edge(s, o, t, i) : o \in DOMAIN Ports[KindOf(canvas, s)].outs,
                                        i \in DOMAIN Ports[KindOf(canvas, t)].ins}

Next ==
    \/ \E ids \in SUBSET IdsOf(canvas) : ids # {} /\ DeleteNodes(ids)
    \/ \E s, t \in IdsOf(canvas) :
           \/ \E e \in Candidates(s, t) : Connect(e)
           \/ ConnectNodes(s, t)
           \/ ConnectPortless(s, t)
    \/ \E e \in canvas.edges : DeleteEdge(e)
    \/ Arrange \/ Configure \/ Undo \/ Redo \/ ExportJson \/ PasteNode \/ ImportGraph \/ OpenGraph
    \/ \E id \in IdsOf(canvas) \cup {None} : Select(id)
    \/ \E id \in IdsOf(canvas) : Copy(Without(canvas.nodes, IdsOf(canvas) \ {id})) \/ Copy(canvas.nodes)
    \/ \E kind \in NewKinds : AddNode(kind)
    \/ \E i \in DOMAIN pending : LoadIndex(i) \/ SaveIndex(i) \/ IndexFails(i) \/ Apply(i)

Spec == Init /\ [][Next]_vars
-----------------------------------------------------------------------------
Canvases == {canvas} \cup ToSet(undo) \cup ToSet(redo)

(* Types; the two stacks together never exceed the history's limit.          *)
TypeOK ==
    /\ canvas \in Graphs /\ file \in Graphs /\ undo \in Seq(Graphs) /\ redo \in Seq(Graphs)
    /\ Len(undo) + Len(redo) <= MaxHistory
    /\ clipboard \in Seq(Nodes)
    /\ \A i \in DOMAIN pending : /\ pending[i].op \in {"add", "paste", "import"}
                                 /\ pending[i].graph \in 1..shown
                                 /\ pending[i].state \in {"asked", "loaded", "answered"}
    /\ index \in [1..MaxGraphs -> Nat] /\ shown \in 1..MaxGraphs
    /\ picked \in Ids \cup {None}
    /\ clash \subseteq 1..MaxGraphs /\ gestures \in 0..MaxGestures

(* Whatever the user deletes, pastes, imports or takes back, an edge joins   *)
(* two nodes that are there, an input is connected once, and there is no     *)
(* cycle.                                                                    *)
EdgesSound == Sound(canvas)

(* The inputs a node is saved and run with are those of its edges.           *)
InputsFollowEdges == shown \notin clash => Follows(canvas)

(* Nodes have ids of their own as long as no allocation overlaps another or  *)
(* an undo.                                                                  *)
IdsUnique == shown \notin clash => Unique(canvas)

(* "undo and redo stacks are not kept across graphs" (pages/dag/index.tsx,   *)
(* key of DAGNextWorkspace): no canvas that can come back has a node of      *)
(* another graph, though ids asked for one graph may arrive in the next.     *)
HistoryOfGraph == \A c \in Canvases : OfGraph(c, shown)

(* "a modification is cleared when it is connected again, to be sure of the  *)
(* latest upstream" (index.tsx, commitEdge): whatever it reads now was there *)
(* when its parameters were entered, as long as no allocation overlapped.    *)
ParamsMatchInputs == clash = {} => Latest(canvas)

(* Connecting two nodes by clicking is refused only if no pair of their      *)
(* ports can be connected.                                                   *)
PickIsComplete ==
    \A s, t \in IdsOf(canvas) :
        HasPorts(KindOf(canvas, s)) /\ HasPorts(KindOf(canvas, t)) =>
            LET valid == {e \in Candidates(s, t) : Valid(canvas, e, TRUE)}
                found == Pick(canvas, s, t)
            IN  found \subseteq valid /\ (found = {} => valid = {})

(* Tidying up places every node to the right of all it depends on.           *)
LayoutFollowsEdges ==
    shown \notin clash => \A e \in canvas.edges : LayerOf(canvas, e.source) < LayerOf(canvas, e.target)

(* "Node inspectors and graph-specific dialogs belong to one canvas only"    *)
(* (pages/dag/index.tsx:159): the selected node is one of the graph shown.   *)
SelectionOfGraph == picked # None => picked[1] = shown
=============================================================================
