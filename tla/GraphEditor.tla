---------------------------- MODULE GraphEditor ----------------------------
(***************************************************************************)
(* The pipeline page of the web front end: autosave of the canvas          *)
(* (pages/dag/use-graph-editor.ts) under the page that owns it             *)
(* (pages/dag/index.tsx), React Query's cache of graph details, and the    *)
(* graphs the server stores (graph_service.go).                            *)
(*                                                                         *)
(* One browser tab edits the graphs of one project.  A gesture or a        *)
(* handler up to its next await is one step; a request is sent, served and *)
(* answered in three.  A graph's content is the set of edits it            *)
(* incorporates; a save carries the whole graph, so it replaces.  Run      *)
(* options that ride along with a save are left out.                       *)
(***************************************************************************)
EXTENDS Integers, Sequences, FiniteSets, SequencesExt

CONSTANTS
    Graphs,       \* the graphs there can be, in the order of graph/list
    Initial,      \* the graphs the project starts with
    Edits,        \* what can be done to a canvas
    Gestures,     \* the gestures besides editing the user makes
    MaxRequests,  \* bound: requests on the wire at once
    MaxMoves,     \* bound: gestures
    MaxFailures   \* bound: requests that end in an error

NoGraph == 0
NotLoaded == {}     \* a detail is {content}, or {} before it arrives

ASSUME GraphEditorAssumption ==
    /\ Graphs \subseteq Nat \ {NoGraph} /\ IsFiniteSet(Graphs)
    /\ Initial \subseteq Graphs
    /\ Gestures \subseteq {"select", "link", "save", "create", "copy", "delete",
                           "advanced", "quick", "run"}
    /\ {MaxRequests, MaxMoves, MaxFailures} \subseteq Nat

VARIABLES
    list,      \* graphs the server has
    stored,    \* their contents
    wire,      \* requests in the order they were sent
    cached,    \* React Query: the last answer of graph/list
    listing,   \* a graph/list refetch is due
    detail,    \* React Query: the last answer of graph/detail
    fetch,     \* graph/detail in flight: idle, asked, half or all of it read
    selected,  \* selectedGraphId
    editor,    \* the state and refs of useGraphEditor
    made,      \* history: edits of each graph
    given,     \* history: edits that a gesture or an error discarded
    risky,     \* history: graphs where a write overtook or lacked something
    copies,    \* history: graphs made by copying
    ever,      \* history: every content the server stored
    runs,      \* history: what each run was asked for and each read of its start
    moves,     \* gestures so far
    failures   \* requests that ended in an error so far

server  == <<list, stored>>
queries == <<cached, listing, detail, fetch>>
history == <<made, given, risky, copies, ever, runs>>
vars == <<list, stored, wire, cached, listing, detail, fetch, selected, editor,
          made, given, risky, copies, ever, runs, moves, failures>>

Content == SUBSET Edits
Writes  == {"save", "advanced", "quick", "fill"}
Request == [kind : Writes \cup {"start", "create", "delete"},
            graph : Graphs \cup {NoGraph},
            from : Graphs \cup {NoGraph},      \* whose canvas the content is meant to be
            content : Content,
            version : Nat, generation : Nat,   \* what doSave captured
            next : {"nothing", "start", "create", "open", "fill"},
            saved : BOOLEAN,                   \* the flush before it was accepted
            state : {"sent", "reading", "done", "refused", "lost"}]

Idle  == [state |-> "idle", content |-> {}]
Asked == [state |-> "asked", content |-> {}]
Half(c) == [state |-> "half", content |-> c]
Read(c) == [state |-> "read", content |-> c]

(* What the edges of one content and the nodes of another give together: all *)
(* that both have, and of what one has any part.                             *)
Torn(a, b) == {c \in Content : a \cap b \subseteq c /\ c \subseteq a \cup b}

First(s)  == CHOOSE g \in s : \A h \in s : g <= h

(* selectedGraph: the selected one if the cached list has it, else the first *)
Shown(sel, graphs) == IF sel \in graphs THEN sel
                      ELSE IF graphs = {} THEN NoGraph ELSE First(graphs)

(* In this module an operator that no action uses is a mutant of the next.   *)
(* The effect that follows every render: a switch starts over from the      *)
(* server's graph, new server data replaces a clean canvas only.            *)
RenderedAlways(ed, key, old, new) == [ed EXCEPT !.key = key, !.local = UNION new]
RenderedDirty(ed, key, old, new) == [ed EXCEPT !.key = key]
Rendered(ed, key, old, new) ==
    IF ed.key # key
    THEN [key |-> key, local |-> UNION new, dirty |-> FALSE, timer |-> FALSE,
          version |-> ed.version + 1, generation |-> ed.generation + 1, saveState |-> "idle"]
    ELSE IF old # new /\ ~ed.dirty THEN [ed EXCEPT !.local = UNION new] ELSE ed

(* A graph that comes into view is refetched, whatever the cache holds.      *)
Refetched(key) == IF key = editor.key \/ key = NoGraph \/ fetch[key].state # "idle" THEN fetch
                  ELSE [fetch EXCEPT ![key] = Asked]

Render(ed, sel, graphs) ==
    LET key == Shown(sel, graphs)
        now == IF key = NoGraph THEN NotLoaded ELSE detail[key]
    IN  /\ selected' = sel
        /\ cached' = graphs
        /\ editor' = Rendered(ed, key, now, now)
        /\ fetch' = Refetched(key)

Call(kind, graph) ==
    [kind |-> kind, graph |-> graph, from |-> graph, content |-> {}, version |-> 0,
     generation |-> 0, next |-> "nothing", saved |-> TRUE, state |-> "sent"]

(* doSave up to its await: the request, if there is something to save        *)
Save(ed, next) == [Call("save", ed.key) EXCEPT !.content = ed.local, !.version = ed.version,
                       !.generation = ed.generation, !.next = next]
FlushedClean(ed) == [ed EXCEPT !.timer = FALSE, !.dirty = FALSE]
Flushed(ed) == IF ed.dirty THEN [ed EXCEPT !.timer = FALSE, !.saveState = "saving"]
               ELSE [ed EXCEPT !.timer = FALSE]
Flush(next) == IF editor.dirty THEN Append(wire, Save(editor, next)) ELSE wire

Pending(g) == {i \in DOMAIN wire : wire[i].kind \in Writes /\ wire[i].graph = g}
OnWire(g)  == UNION {wire[i].content : i \in Pending(g)}
(* Saving a content that lacks something the server has or is about to have. *)
Behind(g, content) == (stored[g] \cup OnWire(g)) \ content # {}
Risked(sends) == IF sends /\ Behind(editor.key, editor.local) THEN risky \cup {editor.key} ELSE risky
(* Edits that leaving the canvas without a flush drops.                      *)
Unsaved == IF editor.dirty THEN editor.local \ stored[editor.key] ELSE {}

Gesture(name) ==
    /\ name \in Gestures
    /\ moves < MaxMoves
    /\ moves' = moves + 1
    /\ Len(wire) < MaxRequests

-----------------------------------------------------------------------------
Init ==
    /\ list = Initial /\ stored = [g \in Graphs |-> {}]
    /\ wire = <<>>
    /\ cached = Initial /\ listing = FALSE
    /\ detail = [g \in Graphs |-> IF g = Shown(NoGraph, Initial) THEN {{}} ELSE NotLoaded]
    /\ fetch = [g \in Graphs |-> Idle]
    /\ selected = NoGraph
    /\ editor = [key |-> Shown(NoGraph, Initial), local |-> {}, dirty |-> FALSE, timer |-> FALSE,
                 version |-> 0, generation |-> 0, saveState |-> "idle"]
    /\ made = [g \in Graphs |-> {}] /\ given = {} /\ risky = {}
    /\ ever = [g \in Graphs |-> IF g \in Initial THEN {{}} ELSE {}] /\ copies = {} /\ runs = {}
    /\ moves = 0 /\ failures = 0

(* onGraphChange: a new stamp on the canvas, the debounce timer restarts.    *)
Edit(e) ==
    /\ editor.key # NoGraph
    /\ e \notin UNION {made[g] : g \in Graphs}
    /\ editor' = [editor EXCEPT !.local = @ \cup {e}, !.dirty = TRUE, !.timer = TRUE,
                                !.version = @ + 1, !.saveState = "dirty"]
    /\ made' = [made EXCEPT ![editor.key] = @ \cup {e}]
    /\ UNCHANGED <<server, wire, queries, selected, given, risky, copies, ever, runs, moves, failures>>

(* The debounce timer fires.                                                 *)
AutoSave ==
    /\ editor.timer
    /\ Len(wire) < MaxRequests
    /\ wire' = Flush("nothing")
    /\ editor' = Flushed(editor)
    /\ risky' = Risked(editor.dirty)
    /\ UNCHANGED <<server, queries, selected, made, given, copies, ever, runs, moves, failures>>

(* The save button: onGraphChange with the same graph, then flush.           *)
SaveNow ==
    /\ Gesture("save")
    /\ editor.key # NoGraph
    /\ LET ed == [editor EXCEPT !.dirty = TRUE, !.version = @ + 1]
       IN  /\ editor' = Flushed(ed)
           /\ wire' = Append(wire, Save(ed, "nothing"))
    /\ risky' = Risked(TRUE)
    /\ UNCHANGED <<server, queries, selected, made, given, copies, ever, runs, failures>>

(* The graph selector: flush, then switch.                                   *)
Select(g) ==
    /\ Gesture("select")
    /\ g \in cached \ {editor.key}
    /\ wire' = Flush("nothing")
    /\ Render(Flushed(editor), g, cached)
    /\ risky' = Risked(editor.dirty)
    /\ UNCHANGED <<server, listing, detail, made, given, copies, ever, runs, failures>>

(* A link or the browser history changes the router search: no flush.        *)
FollowLink(g) ==
    /\ Gesture("link")
    /\ g \in cached \ {editor.key}
    /\ Render(editor, g, cached)
    /\ given' = given \cup Unsaved
    /\ UNCHANGED <<server, wire, listing, detail, made, risky, copies, ever, runs, failures>>

(* Create, delete and the requests of the dialogs, sent as they are.         *)
Ask(name, request) ==
    /\ Gesture(name)
    /\ wire' = Append(wire, request)
    /\ risky' = Risked(request.kind = "advanced")
    /\ UNCHANGED <<server, queries, selected, editor, made, given, copies, ever, runs, failures>>

CreateGraph == Ask("create", [Call("create", NoGraph) EXCEPT !.next = "open"])
DeleteGraph == editor.key # NoGraph /\ Ask("delete", Call("delete", editor.key))
(* advancedMutation: the canvas as it is, around doSave.                     *)
SaveAdvanced ==
    /\ editor.key # NoGraph
    /\ Ask("advanced", [Call("advanced", editor.key) EXCEPT !.content = editor.local])
(* saveQuickConfig: a template replaces the graph.                           *)
QuickConfig(e) ==
    /\ editor.key # NoGraph
    /\ e \notin UNION {made[g] : g \in Graphs}
    /\ Gesture("quick")
    /\ wire' = Append(wire, [Call("quick", editor.key) EXCEPT !.content = {e}])
    /\ made' = [made EXCEPT ![editor.key] = @ \cup {e}]
    /\ UNCHANGED <<server, queries, selected, editor, given, risky, copies, ever, runs, failures>>

(* startNodes and copyGraph: await flush, then a request of their own.       *)
Start(g, wanted, ok) == [Call("start", g) EXCEPT !.content = wanted, !.saved = ok]
Create(g) == [Call("create", NoGraph) EXCEPT !.from = g, !.content = editor'.local, !.next = "fill"]
FlushThenUnsaved(name, next) ==
    /\ editor.key # NoGraph
    /\ Gesture(name)
    /\ wire' = Append(wire, Start(editor.key, editor.local, TRUE))
    /\ UNCHANGED <<server, queries, selected, editor, history, failures>>
FlushThen(name, next) ==
    /\ editor.key # NoGraph
    /\ Gesture(name)
    /\ editor' = Flushed(editor)
    /\ wire' = Append(wire, IF editor.dirty THEN Save(editor, next)
                            ELSE IF next = "start" THEN Start(editor.key, editor.local, TRUE)
                            ELSE Create(editor.key))
    /\ risky' = Risked(editor.dirty)
    /\ UNCHANGED <<server, queries, selected, made, given, copies, ever, runs, failures>>
StartNodes == FlushThen("run", "start")
CopyGraph  == FlushThen("copy", "create")

-----------------------------------------------------------------------------
(* The server serves request i; requests of a tab may overtake each other.   *)
Overtakes(i) == \E j \in Pending(wire[i].graph) : j < i /\ wire[j].state = "sent"

FullUpdate(i) ==
    /\ wire[i].kind \in Writes
    /\ wire[i].graph \in list
    /\ stored' = [stored EXCEPT ![wire[i].graph] = wire[i].content]
    /\ ever' = [ever EXCEPT ![wire[i].graph] = @ \cup {wire[i].content}]
    /\ risky' = IF Overtakes(i) THEN risky \cup {wire[i].graph} ELSE risky
    /\ given' = IF wire[i].kind = "quick" THEN given \cup (stored[wire[i].graph] \ wire[i].content) ELSE given
    /\ UNCHANGED <<list, made, copies, runs>>

ServerCreate(i, g) ==
    /\ wire[i].kind = "create"
    /\ g \in Graphs \ (list \cup Initial) /\ ever[g] = {}
    /\ list' = list \cup {g}
    /\ ever' = [ever EXCEPT ![g] = {{}}]
    /\ copies' = IF wire[i].next = "fill" THEN copies \cup {g} ELSE copies
    /\ UNCHANGED <<stored, made, given, risky, runs>>

ServerDelete(i) ==
    /\ wire[i].kind = "delete"
    /\ wire[i].graph \in list
    /\ list' = list \ {wire[i].graph}
    /\ UNCHANGED <<stored, history>>

(* RunGraphJob reads the graph with its edges, then its nodes.               *)
ServerStart(i) ==
    /\ wire[i].kind = "start" /\ wire[i].state \in {"sent", "reading"}
    /\ wire[i].graph \in list
    /\ wire' = [wire EXCEPT ![i].state = IF @ = "sent" THEN "reading" ELSE "done"]
    /\ runs' = runs \cup {[graph |-> wire[i].graph, wanted |-> wire[i].content,
                           used |-> stored[wire[i].graph], saved |-> wire[i].saved]}
    /\ UNCHANGED <<server, made, given, risky, copies, ever>>

Serve(i, g) ==
    /\ \/ /\ wire[i].state = "sent"
          /\ FullUpdate(i) \/ ServerDelete(i)
          /\ wire' = [wire EXCEPT ![i].state = "done"]
       \/ /\ wire[i].state = "sent"
          /\ ServerCreate(i, g)
          /\ wire' = [wire EXCEPT ![i].state = "done", ![i].graph = g]
       \/ ServerStart(i)
    /\ UNCHANGED <<queries, selected, editor, moves, failures>>

(* The request fails, before it has an effect or after.                      *)
Fail(i) ==
    /\ \/ failures < MaxFailures /\ failures' = failures + 1
       \/ wire[i].graph \notin list \cup {NoGraph} /\ UNCHANGED failures
    /\ \/ wire[i].state \in {"sent", "reading"} /\ wire' = [wire EXCEPT ![i].state = "refused"]
       \/ wire[i].state = "done" /\ wire' = [wire EXCEPT ![i].state = "lost"]
    /\ UNCHANGED <<server, queries, selected, editor, history, moves>>

-----------------------------------------------------------------------------
(* doSave after its await: an answer of another graph or of an earlier visit *)
(* changes nothing, an answer of an older version leaves the canvas dirty.   *)
Mine(r) == editor.key = r.graph /\ editor.generation = r.generation
SaveAnsweredAny(r) ==
    IF Mine(r) /\ r.state = "done" THEN [editor EXCEPT !.dirty = FALSE, !.saveState = "saved"] ELSE editor
SaveAnsweredBlind(r) == [editor EXCEPT !.dirty = FALSE, !.saveState = "saved"]
SaveAnsweredFailed(r) == IF Mine(r) THEN [editor EXCEPT !.saveState = r.state] ELSE editor
SaveAnswered(r) ==
    IF ~Mine(r) THEN editor
    ELSE IF r.state = "done" /\ editor.version = r.version
         THEN [editor EXCEPT !.dirty = FALSE, !.saveState = "saved"]
         ELSE [editor EXCEPT !.saveState = "dirty"]

(* reloadGraph: reset the editor and invalidate the detail of the graph the  *)
(* handler was created for.                                                  *)
Reset(ed) == [ed EXCEPT !.dirty = FALSE, !.timer = FALSE, !.saveState = "idle"]
Invalidate(g) == IF g = editor.key THEN [fetch EXCEPT ![g] = Asked] ELSE fetch

Succeeded(i) == wire[i].state = "done"
Gone(i) == wire' = RemoveAt(wire, i)

(* The answer of a save, and what the handler that awaited it does next.     *)
AnswerSave(i) ==
    LET r == wire[i] IN
    /\ r.kind = "save"
    /\ editor' = SaveAnswered(r)
    /\ wire' = CASE r.next = "start"  -> Append(RemoveAt(wire, i), Start(r.graph, r.content, Succeeded(i)))
                 [] r.next = "create" -> Append(RemoveAt(wire, i), Create(r.graph))
                 [] OTHER             -> RemoveAt(wire, i)
    /\ given' = IF Mine(r) \/ Succeeded(i) THEN given ELSE given \cup r.content
    /\ UNCHANGED <<server, queries, selected, made, risky, copies, ever, runs, moves, failures>>

AnswerAdvanced(i) ==
    /\ wire[i].kind = "advanced"
    /\ Gone(i)
    /\ fetch' = IF Succeeded(i) THEN Invalidate(wire[i].graph) ELSE fetch
    /\ UNCHANGED <<server, cached, listing, detail, selected, editor, history, moves, failures>>

AnswerQuick(i) ==
    /\ wire[i].kind = "quick"
    /\ Gone(i)
    /\ IF Succeeded(i)
       THEN /\ editor' = Reset(editor)
            /\ fetch' = Invalidate(wire[i].graph)
            /\ given' = given \cup Unsaved
       ELSE UNCHANGED <<editor, fetch>> /\ given' = given \cup wire[i].content
    /\ UNCHANGED <<server, cached, listing, detail, selected, made, risky, copies, ever, runs, moves, failures>>

AnswerStart(i) ==
    /\ wire[i].kind = "start"
    /\ Gone(i)
    /\ UNCHANGED <<server, queries, selected, editor, history, moves, failures>>

(* A graph was created: open it, or fill it with the canvas copied before.   *)
(* The list is only invalidated, so until it answers the new graph is not    *)
(* in it and the first graph is shown.                                       *)
Open(g) ==
    /\ Render(editor, g, cached)
    /\ listing' = TRUE
    /\ given' = IF editor'.key # editor.key THEN given \cup Unsaved ELSE given

AnswerCreate(i) ==
    /\ wire[i].kind = "create"
    /\ IF Succeeded(i) /\ wire[i].next = "open"
       THEN Gone(i) /\ Open(wire[i].graph) /\ UNCHANGED risky
       ELSE /\ wire' = IF Succeeded(i)
                       THEN Append(RemoveAt(wire, i), [wire[i] EXCEPT !.kind = "fill", !.next = "nothing", !.state = "sent"])
                       ELSE RemoveAt(wire, i)
            /\ risky' = IF Succeeded(i) /\ Behind(wire[i].graph, wire[i].content)
                        THEN risky \cup {wire[i].graph} ELSE risky
            /\ UNCHANGED <<selected, cached, editor, fetch, listing, given>>
    /\ UNCHANGED <<server, detail, made, copies, ever, runs, moves, failures>>

AnswerFill(i) ==
    /\ wire[i].kind = "fill"
    /\ Gone(i)
    /\ IF Succeeded(i) THEN Open(wire[i].graph)
       ELSE UNCHANGED <<selected, cached, editor, fetch, listing, given>>
    /\ UNCHANGED <<server, detail, made, risky, copies, ever, runs, moves, failures>>

AnswerDelete(i) ==
    /\ wire[i].kind = "delete"
    /\ Gone(i)
    /\ IF Succeeded(i) /\ editor.key = wire[i].graph
       THEN Open(NoGraph)
       ELSE /\ listing' = (listing \/ Succeeded(i))
            /\ UNCHANGED <<selected, cached, editor, fetch, given>>
    /\ UNCHANGED <<server, detail, made, risky, copies, ever, runs, moves, failures>>

Answer(i) ==
    /\ wire[i].state \notin {"sent", "reading"}
    /\ \/ AnswerSave(i) \/ AnswerAdvanced(i) \/ AnswerQuick(i) \/ AnswerStart(i)
       \/ AnswerCreate(i) \/ AnswerFill(i) \/ AnswerDelete(i)

-----------------------------------------------------------------------------
(* React Query: the list answers; a detail is read by the server in two      *)
(* statements, the graph with its edges and then the nodes, and arrives       *)
(* later; an unused detail is collected.                                      *)
ListAnswered ==
    /\ listing
    /\ listing' = FALSE
    /\ Render(editor, selected, list)
    /\ given' = IF editor'.key # editor.key THEN given \cup Unsaved ELSE given
    /\ UNCHANGED <<server, wire, detail, made, risky, copies, ever, runs, moves, failures>>

DetailRead(g) ==
    /\ fetch[g].state = "asked" /\ g \in list
    /\ fetch' = [fetch EXCEPT ![g] = Half(stored[g])]
    /\ UNCHANGED <<server, wire, cached, listing, detail, selected, editor, history, moves, failures>>

DetailNodes(g) ==
    /\ fetch[g].state = "half"
    /\ \E c \in Torn(fetch[g].content, IF g \in list THEN stored[g] ELSE {}) :
          fetch' = [fetch EXCEPT ![g] = Read(c)]
    /\ UNCHANGED <<server, wire, cached, listing, detail, selected, editor, history, moves, failures>>

DetailArrives(g) ==
    /\ fetch[g].state = "read"
    /\ fetch' = [fetch EXCEPT ![g] = Idle]
    /\ detail' = [detail EXCEPT ![g] = {fetch[g].content}]
    /\ editor' = IF g = editor.key THEN Rendered(editor, g, detail[g], {fetch[g].content}) ELSE editor
    /\ UNCHANGED <<server, wire, cached, listing, selected, history, moves, failures>>

DetailFails(g) ==
    /\ fetch[g].state \in {"asked", "half"}
    /\ \/ failures < MaxFailures /\ failures' = failures + 1
       \/ g \notin list /\ UNCHANGED failures
    /\ fetch' = [fetch EXCEPT ![g] = Idle]
    /\ UNCHANGED <<server, wire, cached, listing, detail, selected, editor, history, moves>>

Collect(g) ==
    /\ g # editor.key /\ fetch[g].state = "idle" /\ detail[g] # NotLoaded
    /\ detail' = [detail EXCEPT ![g] = NotLoaded]
    /\ UNCHANGED <<server, wire, cached, listing, fetch, selected, editor, history, moves, failures>>

Next ==
    \/ \E e \in Edits : Edit(e) \/ QuickConfig(e)
    \/ AutoSave \/ SaveNow \/ CreateGraph \/ DeleteGraph \/ SaveAdvanced \/ StartNodes \/ CopyGraph
    \/ \E g \in Graphs : Select(g) \/ FollowLink(g)
    \/ \E i \in DOMAIN wire : Fail(i) \/ Answer(i) \/ \E g \in Graphs : Serve(i, g)
    \/ ListAnswered
    \/ \E g \in Graphs : DetailRead(g) \/ DetailNodes(g) \/ DetailArrives(g) \/ DetailFails(g) \/ Collect(g)

Spec == Init /\ [][Next]_vars

-----------------------------------------------------------------------------
(* Types.                                                                    *)
TypeOK ==
    /\ list \in SUBSET Graphs /\ stored \in [Graphs -> Content]
    /\ wire \in Seq(Request) /\ Len(wire) <= MaxRequests
    /\ cached \in SUBSET Graphs /\ listing \in BOOLEAN
    /\ detail \in [Graphs -> {NotLoaded} \cup {{c} : c \in Content}]
    /\ fetch \in [Graphs -> [state : {"idle", "asked", "half", "read"}, content : Content]]
    /\ selected \in Graphs \cup {NoGraph}
    /\ editor \in [key : Graphs \cup {NoGraph}, local : Content, dirty : BOOLEAN,
                   timer : BOOLEAN, version : Nat, generation : Nat,
                   saveState : {"idle", "dirty", "saving", "saved"}]
    /\ made \in [Graphs -> Content] /\ given \in Content
    /\ risky \in SUBSET Graphs /\ copies \in SUBSET Graphs
    /\ ever \in [Graphs -> SUBSET Content]
    /\ runs \in SUBSET [graph : Graphs, wanted : Content, used : Content, saved : BOOLEAN]
    /\ moves \in 0..MaxMoves /\ failures \in 0..MaxFailures

(* "Saved" is shown only over what the server stored for this graph, however *)
(* late, failed or foreign the answers that came in: nothing on the canvas is *)
(* unsaved, and nothing is missing from it that the server had throughout.   *)
(* Two stored contents, as a detail read while a save is stored mixes them.  *)
SavedWasStored ==
    editor.saveState = "saved" => \E a, b \in ever[editor.key] : editor.local \in Torn(a, b)

(* No edit disappears unnoticed: it is stored, on its way, or on the open     *)
(* canvas (a deleted graph counts with what it held), unless it was           *)
(* discarded by leaving the page's canvas without a flush, by a template, or  *)
(* by a refused save, or two saves of the graph overtook each other, or one   *)
(* was sent that lacked what the server had or was about to have.             *)
EditsAccounted ==
    \A g \in Graphs \ risky :
        made[g] \subseteq stored[g] \cup OnWire(g) \cup given
                        \cup (IF editor.key = g THEN editor.local ELSE {})

(* Except for those, a canvas shown as "saved" is stored: at that moment and  *)
(* for as long as it is shown, whatever else is on the wire.                  *)
SavedIsStored ==
    (editor.saveState = "saved" /\ editor.key \notin risky)
        => editor.local \subseteq stored[editor.key] \cup given

(* Edits of one graph never reach another through autosave, whatever the     *)
(* order of switching, timers and answers.                                   *)
GraphsStayApart == \A g \in Graphs \ copies : stored[g] \subseteq made[g]

(* A run whose flush was accepted reads at least what the canvas showed when *)
(* it was asked for, its edges and its nodes, if the saves kept their order. *)
RunsUseCanvas ==
    \A r \in runs : r.saved /\ r.graph \notin risky => r.wanted \subseteq r.used \cup given

(* A refresh never replaces unsaved edits on the canvas                      *)
(* (use-graph-editor.ts:2).                                                  *)
RefreshKeepsUnsaved ==
    [][editor.dirty /\ editor'.key = editor.key => editor.local \subseteq editor'.local]_vars

(* "A response from graph A must never clear graph B's dirty state"          *)
(* (use-graph-editor.ts:60): only an answer to a request of the graph on the *)
(* canvas makes it clean.                                                    *)
LateAnswerKeepsDirty ==
    [][editor.dirty /\ ~editor'.dirty /\ editor'.key = editor.key
        => \E i \in DOMAIN wire : wire[i].graph = editor.key /\ wire[i].state = "done"]_vars
=============================================================================
