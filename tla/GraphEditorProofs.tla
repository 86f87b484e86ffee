-------------------------- MODULE GraphEditorProofs --------------------------
(***************************************************************************)
(* Proofs about the pipeline page and its autosave, for any number of      *)
(* graphs, edits, requests, gestures and failures: what is called saved    *)
(* was stored for this graph and stays stored, no edit reaches another     *)
(* graph or is lost, a refresh replaces no unsaved edit, and a run uses    *)
(* the graph of the canvas.                                                *)
(***************************************************************************)
EXTENDS GraphEditor, NaturalsInduction, SequenceTheorems, WellFoundedInduction, TLAPS

-----------------------------------------------------------------------------
(* The inductive invariant.  Its parts take the state they are about as      *)
(* arguments (md: made, ev: ever, cp: copies), since a step moves them one   *)
(* by one.                                                                   *)

(* A request writes to a graph what was done to that graph, and to have been *)
(* served is to have been stored.                                            *)
Fits(r, md, ev, cp) ==
    /\ r.kind \in Writes \cup {"start"} => r.graph \in Graphs
    /\ r.kind = "create" => r.next \in {"open", "fill"}
    /\ r.kind = "create" /\ r.state = "done" =>
           r.graph \in Graphs /\ (r.next = "fill" => r.graph \in cp)
    /\ r.kind = "fill" => r.graph \in cp
    /\ r.kind \in Writes /\ r.graph \notin cp => r.content \subseteq md[r.graph]
    /\ r.kind \in Writes /\ r.state = "done" => r.content \in ev[r.graph]

(* What two answers of the same graph, each with what was stored, can be     *)
(* mixed of.                                                                 *)
Mixes(s) == {c \in Content : \E a, b \in s : c \in Torn(a, b)}

(* A save whose version is still the canvas's carries the canvas, unless the *)
(* canvas has been refreshed since.                                          *)
Fresh(r, ed, ev) ==
    r.kind = "save" =>
        /\ r.version <= ed.version
        /\ r.version = ed.version /\ r.graph = ed.key =>
               r.content = ed.local \/ ed.local \in Mixes(ev[ed.key])

(* Every request on the wire. *)
WireFits(w, ed, md, ev, cp) ==
    \A j \in DOMAIN w : Fits(w[j], md, ev, cp) /\ Fresh(w[j], ed, ev)

(* What the server stores was written to that graph, and only what was done *)
(* to it, copies apart.                                                      *)
StoreFits(st, ls, md, ev, cp) ==
    \A g \in Graphs :
        /\ st[g] \in ev[g] \/ (st[g] = {} /\ g \notin ls)
        /\ g \notin cp => \A c \in ev[g] : c \subseteq md[g]
        /\ ev[g] # {} => {} \in ev[g]

(* React Query's cache and the answers to come show what was stored, at one  *)
(* time or mixed of two.                                                     *)
CacheFits(dt, ft, ev) ==
    \A g \in Graphs :
        /\ dt[g] \subseteq Mixes(ev[g])
        /\ ft[g].state = "half" => ft[g].content \in ev[g]
        /\ ft[g].state = "read" => ft[g].content \in Mixes(ev[g])

(* The canvas has what was done to its graph; dirty and saved mean something *)
(* only over a graph.                                                        *)
EditorFits(ed, md, ev, cp) ==
    /\ ed.dirty => ed.key \in Graphs
    /\ ed.key \in Graphs \ cp => ed.local \subseteq md[ed.key]
    /\ ed.saveState = "saved" => ed.key \in Graphs /\ ed.local \in Mixes(ev[ed.key])

Inv ==
    /\ TypeOK
    /\ WireFits(wire, editor, made, ever, copies)
    /\ StoreFits(stored, list, made, ever, copies)
    /\ CacheFits(detail, fetch, ever)
    /\ EditorFits(editor, made, ever, copies)

-----------------------------------------------------------------------------
(* Sequences and numbers. *)

LEMMA FirstIs ==
    ASSUME NEW s, s \subseteq Nat, s # {}
    PROVE  First(s) \in s
<1>1. \E g \in s : \A h \in s : g <= h
  <2> DEFINE R == {p \in Nat \X Nat : p[1] < p[2]}
  <2>1. IsWellFoundedOn(R, Nat)
    BY NatLessThanWellFounded DEF OpToRel
  <2>2. \A x, y \in Nat : ~(<<y, x>> \in R) => x <= y
    OBVIOUS
  <2> HIDE DEF R
  <2>3. \E x \in s : \A y \in s : ~(<<y, x>> \in R)
    BY <2>1, WFMin
  <2> QED
    BY <2>2, <2>3
<1> QED
  BY <1>1 DEF First
LEMMA Removed ==
    ASSUME NEW S, NEW s \in Seq(S), NEW i \in DOMAIN s
    PROVE  /\ RemoveAt(s, i) \in Seq(S)
           /\ Len(RemoveAt(s, i)) = Len(s) - 1
           /\ \A j \in DOMAIN RemoveAt(s, i) : \E k \in DOMAIN s : RemoveAt(s, i)[j] = s[k]
           /\ DOMAIN RemoveAt(s, i) = 1 .. Len(s) - 1
           /\ \A j \in 1 .. Len(s) - 1 : RemoveAt(s, i)[j] = s[IF j < i THEN j ELSE j + 1]
<1> DEFINE a == SubSeq(s, 1, i - 1)
           b == SubSeq(s, i + 1, Len(s))
<1>1. i \in 1 .. Len(s) /\ Len(s) \in Nat /\ DOMAIN s = 1 .. Len(s)
  OBVIOUS
<1>2. a \in Seq(S) /\ Len(a) = i - 1 /\ \A j \in 1 .. i - 1 : a[j] = s[j]
  BY <1>1, SubSeqProperties
<1>3. b \in Seq(S) /\ Len(b) = Len(s) - i /\ \A j \in 1 .. Len(s) - i : b[j] = s[i + j]
  BY <1>1, SubSeqProperties
<1> HIDE DEF a, b
<1>4. /\ a \o b \in Seq(S) /\ Len(a \o b) = Len(s) - 1
      /\ DOMAIN (a \o b) = 1 .. Len(s) - 1
      /\ \A j \in 1 .. Len(s) - 1 : (a \o b)[j] = IF j <= i - 1 THEN a[j] ELSE b[j - (i - 1)]
  <2> DEFINE c == a \o b
  <2>1. /\ c \in Seq(S) /\ Len(c) = Len(a) + Len(b)
        /\ \A j \in 1 .. Len(a) + Len(b) : c[j] = IF j <= Len(a) THEN a[j] ELSE b[j - Len(a)]
    BY <1>2, <1>3, ConcatProperties
  <2> HIDE DEF c
  <2>2. Len(a) + Len(b) = Len(s) - 1
    BY <1>1, <1>2, <1>3
  <2>3. DOMAIN c = 1 .. Len(s) - 1
    BY <2>1, <2>2
  <2>4. \A j \in 1 .. Len(s) - 1 : c[j] = IF j <= i - 1 THEN a[j] ELSE b[j - (i - 1)]
    BY <1>2, <2>1, <2>2
  <2>5. c \in Seq(S) /\ Len(c) = Len(s) - 1
    BY <2>1, <2>2
  <2> QED
    BY <2>3, <2>4, <2>5 DEF c
<1>5. ASSUME NEW j \in 1 .. Len(s) - 1
      PROVE  /\ (a \o b)[j] = s[IF j < i THEN j ELSE j + 1]
             /\ (IF j < i THEN j ELSE j + 1) \in DOMAIN s
  <2>1. CASE j <= i - 1
    <3>1. j \in 1 .. i - 1 /\ j \in DOMAIN s
      BY <1>1, <2>1
    <3>2. (a \o b)[j] = a[j]
      BY <1>4, <2>1
    <3>3. j < i
      BY <1>1, <2>1
    <3> QED
      BY <1>2, <3>1, <3>2, <3>3
  <2>2. CASE ~(j <= i - 1)
    <3> DEFINE m == j - (i - 1)
    <3>1. m \in 1 .. Len(s) - i /\ i + m \in 1 .. Len(s) /\ i + m = j + 1 /\ ~(j < i)
      BY <1>1, <2>2
    <3>2. (a \o b)[j] = b[m]
      BY <1>4, <2>2
    <3> HIDE DEF m
    <3>3. b[m] = s[i + m]
      BY <1>3, <3>1
    <3> QED
      BY <1>1, <3>1, <3>2, <3>3
  <2> QED
    BY <2>1, <2>2
<1>6. RemoveAt(s, i) = a \o b
  BY DEF RemoveAt, a, b
<1> QED
  BY <1>4, <1>5, <1>6

-----------------------------------------------------------------------------
(* Requests while the canvas and the history move on. *)

Grown(md, ev, cp, md2, ev2, cp2) ==
    cp \subseteq cp2 /\ \A g \in Graphs : md[g] \subseteq md2[g] /\ ev[g] \subseteq ev2[g]

Moves(ed, ed2, ev2) ==
    /\ ed2.version \in Nat /\ ed2.version >= ed.version
    /\ ed2.version = ed.version =>
           ed2.key = ed.key /\ (ed2.local = ed.local \/ ed2.local \in Mixes(ev2[ed2.key]))

Editors == [key : Graphs \cup {NoGraph}, local : Content, dirty : BOOLEAN,
            timer : BOOLEAN, version : Nat, generation : Nat,
            saveState : {"idle", "dirty", "saving", "saved"}]

LEMMA MixesGrow ==
    ASSUME NEW s, NEW t, s \subseteq t
    PROVE  Mixes(s) \subseteq Mixes(t)
  BY DEF Mixes

LEMMA MixesHold ==
    ASSUME NEW s, NEW c \in s, c \in Content
    PROVE  c \in Mixes(s)
<1>1. c \in Torn(c, c)
  BY DEF Torn
<1> QED
  BY <1>1 DEF Mixes

LEMMA MixesWithin ==
    ASSUME NEW s, NEW m, \A c \in s : c \subseteq m
    PROVE  \A c \in Mixes(s) : c \subseteq m
  BY DEF Mixes, Torn

LEMMA FitsGrow ==
    ASSUME NEW r \in Request, NEW md, NEW ev, NEW cp, NEW md2, NEW ev2, NEW cp2,
           Fits(r, md, ev, cp), Grown(md, ev, cp, md2, ev2, cp2)
    PROVE  Fits(r, md2, ev2, cp2)
  BY DEF Fits, Grown, Writes

LEMMA FreshMoves ==
    ASSUME NEW r \in Request, NEW md, NEW ev, NEW cp, NEW md2, NEW ev2, NEW cp2,
           NEW ed \in Editors, NEW ed2,
           Fits(r, md, ev, cp), Grown(md, ev, cp, md2, ev2, cp2),
           Fresh(r, ed, ev), Moves(ed, ed2, ev2)
    PROVE  Fresh(r, ed2, ev2)
<1> SUFFICES ASSUME r.kind = "save" PROVE Fresh(r, ed2, ev2)
  BY DEF Fresh
<1>1. r.graph \in Graphs /\ r.version \in Nat /\ ed.version \in Nat /\ ed2.version \in Nat
  BY DEF Fits, Writes, Request, Editors, Moves
<1>2. r.version <= ed2.version
  BY <1>1 DEF Fresh, Moves
<1>3. ASSUME r.version = ed2.version, r.graph = ed2.key
      PROVE  r.content = ed2.local \/ ed2.local \in Mixes(ev2[ed2.key])
  <2>1. ed2.version = ed.version /\ r.version = ed.version
    BY <1>1, <1>3 DEF Fresh, Moves
  <2>2. Mixes(ev[r.graph]) \subseteq Mixes(ev2[r.graph])
    BY <1>1, MixesGrow DEF Grown
  <2> QED
    BY <1>1, <1>3, <2>1, <2>2 DEF Fresh, Moves
<1> QED
  BY <1>2, <1>3 DEF Fresh

LEMMA WireStays ==
    ASSUME NEW w \in Seq(Request), NEW md, NEW ev, NEW cp, NEW md2, NEW ev2, NEW cp2,
           NEW ed \in Editors, NEW ed2,
           WireFits(w, ed, md, ev, cp), Grown(md, ev, cp, md2, ev2, cp2), Moves(ed, ed2, ev2)
    PROVE  WireFits(w, ed2, md2, ev2, cp2)
<1>1. ASSUME NEW j \in DOMAIN w PROVE Fits(w[j], md2, ev2, cp2) /\ Fresh(w[j], ed2, ev2)
  <2>1. w[j] \in Request /\ Fits(w[j], md, ev, cp) /\ Fresh(w[j], ed, ev)
    BY DEF WireFits
  <2> QED
    BY <2>1, FitsGrow, FreshMoves
<1> QED
  BY <1>1 DEF WireFits

LEMMA WireAppend ==
    ASSUME NEW w \in Seq(Request), NEW md, NEW ev, NEW cp, NEW ed,
           WireFits(w, ed, md, ev, cp),
           NEW r \in Request, Fits(r, md, ev, cp), Fresh(r, ed, ev)
    PROVE  /\ WireFits(Append(w, r), ed, md, ev, cp)
           /\ Append(w, r) \in Seq(Request) /\ Len(Append(w, r)) = Len(w) + 1
<1> DEFINE x == Append(w, r)
<1>1. /\ x \in Seq(Request) /\ Len(x) = Len(w) + 1
      /\ \A j \in 1 .. Len(x) : (x[j] = w[j] /\ j \in DOMAIN w) \/ x[j] = r
  BY AppendProperties
<1>2. DOMAIN x = 1 .. Len(x)
  OBVIOUS
<1> HIDE DEF x
<1>3. WireFits(x, ed, md, ev, cp)
  BY <1>1, <1>2 DEF WireFits
<1> QED
  BY <1>1, <1>3 DEF x

LEMMA WireRemove ==
    ASSUME NEW w \in Seq(Request), NEW md, NEW ev, NEW cp, NEW ed,
           WireFits(w, ed, md, ev, cp), NEW i \in DOMAIN w
    PROVE  /\ WireFits(RemoveAt(w, i), ed, md, ev, cp)
           /\ RemoveAt(w, i) \in Seq(Request) /\ Len(RemoveAt(w, i)) = Len(w) - 1
<1> DEFINE x == RemoveAt(w, i)
<1>1. /\ x \in Seq(Request) /\ Len(x) = Len(w) - 1
      /\ \A j \in DOMAIN x : \E k \in DOMAIN w : x[j] = w[k]
  BY Removed
<1> HIDE DEF x
<1>2. WireFits(x, ed, md, ev, cp)
  BY <1>1 DEF WireFits
<1> QED
  BY <1>1, <1>2 DEF x

LEMMA WireChange ==
    ASSUME NEW w \in Seq(Request), NEW md, NEW ev, NEW cp, NEW ed,
           WireFits(w, ed, md, ev, cp), NEW i \in DOMAIN w,
           NEW r \in Request, Fits(r, md, ev, cp), Fresh(r, ed, ev)
    PROVE  /\ WireFits([w EXCEPT ![i] = r], ed, md, ev, cp)
           /\ [w EXCEPT ![i] = r] \in Seq(Request) /\ Len([w EXCEPT ![i] = r]) = Len(w)
<1> DEFINE x == [w EXCEPT ![i] = r]
<1>1. x \in Seq(Request) /\ Len(x) = Len(w) /\ DOMAIN x = DOMAIN w
      /\ \A j \in DOMAIN w : x[j] = IF j = i THEN r ELSE w[j]
  OBVIOUS
<1> HIDE DEF x
<1>2. WireFits(x, ed, md, ev, cp)
  BY <1>1 DEF WireFits
<1> QED
  BY <1>1, <1>2 DEF x

-----------------------------------------------------------------------------
(* The canvas after a render, and the requests the page sends. *)

LEMMA ShownIs ==
    ASSUME NEW sel, NEW graphs \in SUBSET Graphs
    PROVE  Shown(sel, graphs) \in Graphs \cup {NoGraph}
  BY FirstIs, GraphEditorAssumption DEF Shown

LEMMA NoGraphIs == NoGraph \notin Graphs
  BY GraphEditorAssumption

Cached == [Graphs -> {NotLoaded} \cup {{c} : c \in Content}]

(* What is taken from the cache was stored once. *)
LEMMA RenderedIs ==
    ASSUME NEW ed \in Editors, NEW k \in Graphs \cup {NoGraph}, NEW old,
           NEW new \in {NotLoaded} \cup {{c} : c \in Content},
           NEW md, NEW ev, NEW cp,
           EditorFits(ed, md, ev, cp),
           k \in Graphs => new \subseteq Mixes(ev[k])
                           /\ (k \notin cp => \A c \in Mixes(ev[k]) : c \subseteq md[k]),
           k \notin Graphs => new = NotLoaded,
           old # new => new # NotLoaded /\ k \in Graphs
    PROVE  LET e == Rendered(ed, k, old, new)
           IN  e \in Editors /\ e.key = k /\ EditorFits(e, md, ev, cp) /\ Moves(ed, e, ev)
<1>1. UNION new \in Content /\ (new # NotLoaded => new = {UNION new})
  <2>1. CASE new = NotLoaded
    BY <2>1 DEF NotLoaded, Content
  <2>2. CASE \E c \in Content : new = {c}
    <3>1. PICK c \in Content : new = {c}
      BY <2>2
    <3>2. UNION {c} = c
      OBVIOUS
    <3> QED
      BY <3>1, <3>2
  <2> QED
    BY <2>1, <2>2
<1> DEFINE u == UNION new
<1>2. /\ u \in Content /\ (new = NotLoaded => u = {})
      /\ k \in Graphs /\ new # NotLoaded => u \in Mixes(ev[k])
      /\ k \in Graphs \ cp => u \subseteq md[k]
  BY <1>1 DEF NotLoaded
<1>3. Rendered(ed, k, old, new) =
        IF ed.key # k
        THEN [key |-> k, local |-> u, dirty |-> FALSE, timer |-> FALSE,
              version |-> ed.version + 1, generation |-> ed.generation + 1, saveState |-> "idle"]
        ELSE IF old # new /\ ~ed.dirty THEN [ed EXCEPT !.local = u] ELSE ed
  BY DEF Rendered
<1> HIDE DEF u
<1>4. CASE ed.key # k
  <2> DEFINE e == [key |-> k, local |-> u, dirty |-> FALSE, timer |-> FALSE,
              version |-> ed.version + 1, generation |-> ed.generation + 1, saveState |-> "idle"]
  <2>1. e \in Editors
    BY <1>2 DEF Editors
  <2>2. EditorFits(e, md, ev, cp)
    BY <1>2 DEF EditorFits
  <2>3. Moves(ed, e, ev)
    BY DEF Moves, Editors
  <2> QED
    BY <1>3, <1>4, <2>1, <2>2, <2>3
<1>5. CASE ed.key = k /\ old # new /\ ~ed.dirty
  <2> DEFINE e == [ed EXCEPT !.local = u]
  <2>1. e \in Editors /\ e.local = u /\ e.key = k /\ e.dirty = ed.dirty
        /\ e.saveState = ed.saveState /\ e.version = ed.version
    BY <1>2, <1>5 DEF Editors
  <2> HIDE DEF e
  <2>2. EditorFits(e, md, ev, cp)
    BY <1>2, <1>5, <2>1 DEF EditorFits
  <2>3. Moves(ed, e, ev)
    BY <1>2, <1>5, <2>1 DEF Moves, Editors
  <2> QED
    BY <1>3, <1>5, <2>1, <2>2, <2>3 DEF e
<1>6. CASE ed.key = k /\ ~(old # new /\ ~ed.dirty)
  <2>1. Moves(ed, ed, ev)
    BY DEF Moves, Editors
  <2> QED
    BY <1>3, <1>6, <2>1
<1> QED
  BY <1>4, <1>5, <1>6

Fetches == [Graphs -> [state : {"idle", "asked", "half", "read"}, content : Content]]

LEMMA AskedIs == Asked \in [state : {"idle", "asked", "half", "read"}, content : Content]
                 /\ Asked.state = "asked"
  BY DEF Asked, Content
LEMMA IdleIs == Idle \in [state : {"idle", "asked", "half", "read"}, content : Content]
                 /\ Idle.state = "idle"
  BY DEF Idle, Content

LEMMA FetchSet ==
    ASSUME NEW dt, NEW ev, fetch \in Fetches, CacheFits(dt, fetch, ev), NEW g,
           NEW x \in [state : {"idle", "asked", "half", "read"}, content : Content],
           g \in Graphs /\ x.state = "half" => x.content \in ev[g],
           g \in Graphs /\ x.state = "read" => x.content \in Mixes(ev[g])
    PROVE  LET f == [fetch EXCEPT ![g] = x] IN f \in Fetches /\ CacheFits(dt, f, ev)
  BY DEF Fetches, CacheFits

LEMMA RenderIs ==
    ASSUME Inv, NEW ed \in Editors, EditorFits(ed, made, ever, copies),
           NEW sel \in Graphs \cup {NoGraph}, NEW graphs \in SUBSET Graphs,
           Render(ed, sel, graphs)
    PROVE  /\ selected' \in Graphs \cup {NoGraph} /\ cached' \in SUBSET Graphs
           /\ fetch' \in Fetches /\ CacheFits(detail, fetch', ever)
           /\ editor' \in Editors /\ EditorFits(editor', made, ever, copies)
           /\ Moves(ed, editor', ever)
<1> DEFINE key == Shown(sel, graphs)
           now == IF key = NoGraph THEN NotLoaded ELSE detail[key]
<1>1. key \in Graphs \cup {NoGraph}
  BY ShownIs
<1>2. /\ selected' = sel /\ cached' = graphs
      /\ editor' = Rendered(ed, key, now, now) /\ fetch' = Refetched(key)
  BY DEF Render
<1> HIDE DEF key
<1>3. now \in {NotLoaded} \cup {{c} : c \in Content}
  BY <1>1 DEF Inv, TypeOK
<1>4. /\ key \in Graphs => now \subseteq Mixes(ever[key])
                           /\ (key \notin copies => \A c \in Mixes(ever[key]) : c \subseteq made[key])
      /\ key \notin Graphs => now = NotLoaded
  BY <1>1, NoGraphIs, MixesWithin DEF Inv, CacheFits, StoreFits
<1> HIDE DEF now
<1>5. editor' \in Editors /\ EditorFits(editor', made, ever, copies) /\ Moves(ed, editor', ever)
  BY <1>1, <1>2, <1>3, <1>4, RenderedIs
<1>6. fetch \in Fetches /\ CacheFits(detail, fetch, ever)
  BY DEF Inv, TypeOK, Fetches
<1>7. fetch' \in Fetches /\ CacheFits(detail, fetch', ever)
  BY <1>2, <1>6, FetchSet, AskedIs DEF Refetched
<1> QED
  BY <1>2, <1>5, <1>7

-----------------------------------------------------------------------------
Kinds == Writes \cup {"start", "create", "delete"}
Nexts == {"nothing", "start", "create", "open", "fill"}

LEMMA CallIs ==
    ASSUME NEW kind \in Kinds, NEW graph \in Graphs \cup {NoGraph}
    PROVE  LET r == Call(kind, graph)
           IN  r \in Request /\ r.kind = kind /\ r.graph = graph /\ r.state = "sent"
  BY DEF Call, Request, Kinds, Content

LEMMA SaveIs ==
    ASSUME NEW ed \in Editors, ed.key \in Graphs, NEW next \in Nexts,
           NEW md, NEW ev, NEW cp, EditorFits(ed, md, ev, cp)
    PROVE  LET r == Save(ed, next)
           IN  r \in Request /\ Fits(r, md, ev, cp) /\ Fresh(r, ed, ev)
<1> DEFINE r == Save(ed, next)
           a == Call("save", ed.key)
<1>1. a \in Request /\ a.kind = "save" /\ a.graph = ed.key /\ a.state = "sent"
  BY CallIs DEF Kinds, Writes
<1>2. r = [a EXCEPT !.content = ed.local, !.version = ed.version,
                       !.generation = ed.generation, !.next = next]
  BY DEF Save
<1> HIDE DEF a, r
<1>3. /\ r \in Request /\ r.kind = "save" /\ r.graph = ed.key /\ r.state = "sent"
      /\ r.content = ed.local /\ r.version = ed.version
  BY <1>1, <1>2 DEF Request, Editors, Nexts
<1>4. Fits(r, md, ev, cp)
  BY <1>3 DEF Fits, EditorFits, Writes
<1>5. Fresh(r, ed, ev)
  BY <1>3 DEF Fresh, Editors
<1> QED
  BY <1>3, <1>4, <1>5 DEF r

LEMMA StartIs ==
    ASSUME NEW g \in Graphs, NEW wanted \in Content, NEW ok \in BOOLEAN,
           NEW md, NEW ev, NEW cp, NEW ed
    PROVE  LET r == Start(g, wanted, ok)
           IN  r \in Request /\ Fits(r, md, ev, cp) /\ Fresh(r, ed, ev)
<1> DEFINE r == Start(g, wanted, ok)
           a == Call("start", g)
<1>1. a \in Request /\ a.kind = "start" /\ a.graph = g /\ a.state = "sent"
  BY CallIs DEF Kinds
<1>2. r = [a EXCEPT !.content = wanted, !.saved = ok]
  BY DEF Start
<1> HIDE DEF a, r
<1>3. r \in Request /\ r.kind = "start" /\ r.graph = g
  BY <1>1, <1>2 DEF Request
<1> QED
  BY <1>3 DEF r, Fits, Fresh, Writes

LEMMA CreateIs ==
    ASSUME NEW g \in Graphs \cup {NoGraph}, editor' \in Editors,
           NEW md, NEW ev, NEW cp, NEW ed
    PROVE  LET r == Create(g)
           IN  r \in Request /\ Fits(r, md, ev, cp) /\ Fresh(r, ed, ev)
<1> DEFINE r == Create(g)
           a == Call("create", NoGraph)
<1>1. a \in Request /\ a.kind = "create" /\ a.state = "sent"
  BY CallIs DEF Kinds
<1>2. r = [a EXCEPT !.from = g, !.content = editor'.local, !.next = "fill"]
  BY DEF Create
<1> HIDE DEF a, r
<1>3. r \in Request /\ r.kind = "create" /\ r.state = "sent" /\ r.next = "fill"
  BY <1>1, <1>2 DEF Request, Editors
<1> QED
  BY <1>3 DEF r, Fits, Fresh, Writes

LEMMA FlushedIs ==
    ASSUME NEW ed \in Editors, NEW md, NEW ev, NEW cp, EditorFits(ed, md, ev, cp)
    PROVE  LET e == Flushed(ed)
           IN  e \in Editors /\ EditorFits(e, md, ev, cp) /\ Moves(ed, e, ev)
<1> DEFINE e == Flushed(ed)
<1>1. /\ e \in Editors /\ e.key = ed.key /\ e.local = ed.local /\ e.dirty = ed.dirty
      /\ e.version = ed.version /\ (e.saveState = "saved" => ed.saveState = "saved")
  BY DEF Flushed, Editors
<1> HIDE DEF e
<1>2. EditorFits(e, md, ev, cp) /\ Moves(ed, e, ev)
  BY <1>1 DEF EditorFits, Moves, Editors
<1> QED
  BY <1>1, <1>2 DEF e

LEMMA FlushIs ==
    ASSUME Inv, NEW next \in Nexts
    PROVE  /\ Flush(next) \in Seq(Request) /\ WireFits(Flush(next), editor, made, ever, copies)
           /\ Len(Flush(next)) <= Len(wire) + 1
<1>1. wire \in Seq(Request) /\ editor \in Editors /\ EditorFits(editor, made, ever, copies)
      /\ WireFits(wire, editor, made, ever, copies)
  BY DEF Inv, TypeOK, Editors
<1>2. CASE editor.dirty
  <2>1. editor.key \in Graphs
    BY <1>2 DEF Inv, EditorFits
  <2>2. Save(editor, next) \in Request /\ Fits(Save(editor, next), made, ever, copies)
        /\ Fresh(Save(editor, next), editor, ever)
    BY <1>1, <2>1, SaveIs
  <2>3. /\ WireFits(Append(wire, Save(editor, next)), editor, made, ever, copies)
        /\ Append(wire, Save(editor, next)) \in Seq(Request)
        /\ Len(Append(wire, Save(editor, next))) = Len(wire) + 1
    BY <1>1, <2>2, WireAppend
  <2> QED
    BY <1>2, <2>3 DEF Flush
<1>3. CASE ~editor.dirty
  BY <1>1, <1>3 DEF Flush
<1> QED
  BY <1>2, <1>3

-----------------------------------------------------------------------------
(* The steps of the page. *)

TabFits(sel, ca, li, gi, ri, mo, fa) ==
    /\ sel \in Graphs \cup {NoGraph} /\ ca \in SUBSET Graphs /\ li \in BOOLEAN
    /\ gi \in Content /\ ri \in SUBSET Graphs
    /\ mo \in 0 .. MaxMoves /\ fa \in 0 .. MaxFailures

WireIs(w, ed, md, ev, cp) ==
    w \in Seq(Request) /\ Len(w) <= MaxRequests /\ WireFits(w, ed, md, ev, cp)
EditorIs(ed, md, ev, cp) == ed \in Editors /\ EditorFits(ed, md, ev, cp)
CacheIs(dt, ft, ev) == dt \in Cached /\ ft \in Fetches /\ CacheFits(dt, ft, ev)

LEMMA Parts ==
    ASSUME Inv
    PROVE  /\ TabFits(selected, cached, listing, given, risky, moves, failures)
           /\ WireIs(wire, editor, made, ever, copies)
           /\ EditorIs(editor, made, ever, copies) /\ CacheIs(detail, fetch, ever)
           /\ list \in SUBSET Graphs /\ stored \in [Graphs -> Content]
           /\ made \in [Graphs -> Content] /\ copies \in SUBSET Graphs
           /\ ever \in [Graphs -> SUBSET Content]
           /\ StoreFits(stored, list, made, ever, copies)
           /\ runs \in SUBSET [graph : Graphs, wanted : Content, used : Content, saved : BOOLEAN]
  BY DEF Inv, TypeOK, TabFits, WireIs, EditorIs, CacheIs, Cached, Fetches, Editors

LEMMA Whole ==
    ASSUME TabFits(selected', cached', listing', given', risky', moves', failures'),
           WireIs(wire', editor', made', ever', copies'),
           EditorIs(editor', made', ever', copies'), CacheIs(detail', fetch', ever'),
           list' \in SUBSET Graphs, stored' \in [Graphs -> Content],
           made' \in [Graphs -> Content], copies' \in SUBSET Graphs,
           ever' \in [Graphs -> SUBSET Content],
           StoreFits(stored', list', made', ever', copies'),
           runs' \in SUBSET [graph : Graphs, wanted : Content, used : Content, saved : BOOLEAN]
    PROVE  Inv'
  BY DEF Inv, TypeOK, TabFits, WireIs, EditorIs, CacheIs, Cached, Fetches, Editors

(* Nothing is stored, edited or run. *)
LEMMA Quiet ==
    ASSUME Inv, UNCHANGED <<server, made, copies, ever, runs>>,
           TabFits(selected', cached', listing', given', risky', moves', failures'),
           WireIs(wire', editor', made, ever, copies),
           EditorIs(editor', made, ever, copies), CacheIs(detail', fetch', ever)
    PROVE  Inv'
<1>1. UNCHANGED <<list, stored, made, copies, ever, runs>>
  BY DEF server
<1> QED
  BY <1>1, Parts, Whole

LEMMA Still ==
    ASSUME Inv
    PROVE  Grown(made, ever, copies, made, ever, copies) /\ Moves(editor, editor, ever)
  BY DEF Grown, Moves, Inv, TypeOK

(* The canvas moves, the requests keep to it. *)
LEMMA WireFollows ==
    ASSUME Inv, NEW w, WireIs(w, editor, made, ever, copies), NEW ed2, Moves(editor, ed2, ever)
    PROVE  WireIs(w, ed2, made, ever, copies)
  BY Still, Parts, WireStays DEF WireIs, EditorIs

LEMMA WireGone ==
    ASSUME Inv, NEW i \in DOMAIN wire
    PROVE  WireIs(RemoveAt(wire, i), editor, made, ever, copies)
           /\ Len(RemoveAt(wire, i)) < MaxRequests
<1>1. /\ WireFits(RemoveAt(wire, i), editor, made, ever, copies)
      /\ RemoveAt(wire, i) \in Seq(Request) /\ Len(RemoveAt(wire, i)) = Len(wire) - 1
  BY Parts, WireRemove DEF WireIs
<1>2. Len(wire) \in Nat /\ Len(wire) <= MaxRequests /\ MaxRequests \in Nat
  BY Parts, GraphEditorAssumption DEF WireIs
<1> QED
  BY <1>1, <1>2 DEF WireIs

LEMMA WireMore ==
    ASSUME NEW w, NEW ed, WireIs(w, ed, made, ever, copies), Len(w) < MaxRequests,
           NEW r \in Request, Fits(r, made, ever, copies), Fresh(r, ed, ever)
    PROVE  WireIs(Append(w, r), ed, made, ever, copies)
<1>1. /\ WireFits(Append(w, r), ed, made, ever, copies)
      /\ Append(w, r) \in Seq(Request) /\ Len(Append(w, r)) = Len(w) + 1
  BY WireAppend DEF WireIs
<1>2. Len(w) \in Nat /\ MaxRequests \in Nat
  BY GraphEditorAssumption DEF WireIs
<1> QED
  BY <1>1, <1>2 DEF WireIs

LEMMA WireFlushed ==
    ASSUME Inv, Len(wire) < MaxRequests, NEW next \in Nexts
    PROVE  WireIs(Flush(next), editor, made, ever, copies)
<1>1. Len(wire) \in Nat /\ MaxRequests \in Nat /\ Len(Flush(next)) \in Nat
  BY Parts, FlushIs, GraphEditorAssumption DEF WireIs
<1> QED
  BY <1>1, FlushIs DEF WireIs

LEMMA EditorFlushed ==
    ASSUME Inv
    PROVE  EditorIs(Flushed(editor), made, ever, copies) /\ Moves(editor, Flushed(editor), ever)
  BY Parts, FlushedIs DEF EditorIs

LEMMA RiskedIs ==
    ASSUME Inv, NEW sends, sends => editor.key \in Graphs
    PROVE  Risked(sends) \in SUBSET Graphs
  BY Parts DEF Risked, TabFits

LEMMA DirtyIs == ASSUME Inv PROVE editor.dirty => editor.key \in Graphs
  BY DEF Inv, EditorFits

LEMMA UnsavedIs == ASSUME Inv PROVE given \cup Unsaved \in Content
<1>1. given \in Content /\ editor.local \in Content
  BY Parts DEF TabFits, EditorIs, Editors
<1> QED
  BY <1>1 DEF Unsaved, Content

LEMMA GestureIs ==
    ASSUME Inv, NEW name, Gesture(name)
    PROVE  Len(wire) < MaxRequests /\ moves' \in 0 .. MaxMoves
<1>1. MaxMoves \in Nat /\ moves \in 0 .. MaxMoves
  BY Parts, GraphEditorAssumption DEF TabFits
<1> QED
  BY <1>1 DEF Gesture

-----------------------------------------------------------------------------
LEMMA EditorKey == ASSUME Inv, editor.key # NoGraph PROVE editor.key \in Graphs
  BY Parts DEF EditorIs, Editors

LEMMA AutoSaveStep == ASSUME Inv, AutoSave PROVE Inv'
<1>1. UNCHANGED <<server, made, copies, ever, runs>>
  BY DEF AutoSave
<1>2. TabFits(selected', cached', listing', given', risky', moves', failures')
  BY Parts, RiskedIs, DirtyIs DEF AutoSave, TabFits, queries
<1>3. WireIs(wire', editor', made, ever, copies) /\ EditorIs(editor', made, ever, copies)
  BY WireFlushed, EditorFlushed, WireFollows DEF AutoSave, Nexts
<1>4. CacheIs(detail', fetch', ever)
  BY Parts DEF AutoSave, queries
<1> QED
  BY <1>1, <1>2, <1>3, <1>4, Quiet

LEMMA SaveNowStep == ASSUME Inv, SaveNow PROVE Inv'
<1> DEFINE ed == [editor EXCEPT !.dirty = TRUE, !.version = @ + 1]
<1>1. editor.key \in Graphs /\ Len(wire) < MaxRequests /\ moves' \in 0 .. MaxMoves
  BY EditorKey, GestureIs DEF SaveNow
<1>2. editor \in Editors /\ EditorFits(editor, made, ever, copies)
  BY Parts DEF EditorIs
<1>3. /\ ed \in Editors /\ ed.key = editor.key /\ ed.local = editor.local
      /\ ed.saveState = editor.saveState /\ ed.version = editor.version + 1
  <2> DEFINE v == editor.version + 1
             e == [editor EXCEPT !.dirty = TRUE, !.version = v]
  <2>1. v \in Nat /\ ed = e
    BY <1>2 DEF Editors
  <2> HIDE DEF v, ed
  <2>2. e \in Editors /\ e.key = editor.key /\ e.local = editor.local
        /\ e.saveState = editor.saveState /\ e.version = v
    BY <1>2, <2>1 DEF Editors
  <2> QED
    BY <2>1, <2>2 DEF v
<1>4. editor' = Flushed(ed) /\ wire' = Append(wire, Save(ed, "nothing"))
  BY DEF SaveNow
<1> HIDE DEF ed
<1>5. EditorFits(ed, made, ever, copies) /\ Moves(editor, ed, ever)
  BY <1>1, <1>2, <1>3 DEF EditorFits, Moves, Editors
<1>6. WireIs(wire, ed, made, ever, copies)
  BY <1>5, Parts, WireFollows
<1>7. LET r == Save(ed, "nothing")
      IN  r \in Request /\ Fits(r, made, ever, copies) /\ Fresh(r, ed, ever)
  BY <1>1, <1>3, <1>5, SaveIs DEF Nexts
<1>8. WireIs(wire', ed, made, ever, copies)
  BY <1>1, <1>4, <1>6, <1>7, WireMore
<1>9. EditorIs(editor', made, ever, copies) /\ Moves(ed, editor', ever)
  BY <1>3, <1>4, <1>5, FlushedIs DEF EditorIs
<1>10. WireIs(wire', editor', made, ever, copies)
  BY <1>3, <1>8, <1>9, Still, WireStays DEF WireIs
<1>11. TabFits(selected', cached', listing', given', risky', moves', failures')
  BY <1>1, Parts, RiskedIs DEF SaveNow, TabFits, queries
<1>12. CacheIs(detail', fetch', ever)
  BY Parts DEF SaveNow, queries
<1> QED
  BY <1>9, <1>10, <1>11, <1>12, Quiet DEF SaveNow

LEMMA SelectStep == ASSUME Inv, NEW g \in Graphs, Select(g) PROVE Inv'
<1>1. Len(wire) < MaxRequests /\ moves' \in 0 .. MaxMoves
  BY GestureIs DEF Select
<1>2. /\ WireIs(wire', editor, made, ever, copies)
      /\ EditorIs(Flushed(editor), made, ever, copies) /\ Moves(editor, Flushed(editor), ever)
  BY <1>1, WireFlushed, EditorFlushed DEF Select, Nexts
<1>3. WireIs(wire', Flushed(editor), made, ever, copies)
  BY <1>2, WireFollows
<1>4. cached \in SUBSET Graphs /\ Render(Flushed(editor), g, cached)
  BY Parts DEF Select, TabFits
<1>5. /\ selected' \in Graphs \cup {NoGraph} /\ cached' \in SUBSET Graphs
      /\ fetch' \in Fetches /\ CacheFits(detail, fetch', ever)
      /\ EditorIs(editor', made, ever, copies) /\ Moves(Flushed(editor), editor', ever)
  BY <1>2, <1>4, RenderIs DEF EditorIs
<1>6. WireIs(wire', editor', made, ever, copies)
  BY <1>2, <1>3, <1>5, Still, WireStays DEF WireIs, EditorIs
<1>7. TabFits(selected', cached', listing', given', risky', moves', failures')
  BY <1>1, <1>5, Parts, RiskedIs, DirtyIs DEF Select, TabFits
<1>8. CacheIs(detail', fetch', ever)
  BY <1>5, Parts DEF Select, CacheIs
<1> QED
  BY <1>5, <1>6, <1>7, <1>8, Quiet DEF Select

(* The graph in view may change, nothing is sent. *)
LEMMA RenderStep ==
    ASSUME Inv, NEW sel \in Graphs \cup {NoGraph}, NEW graphs \in SUBSET Graphs,
           Render(editor, sel, graphs), NEW w, WireIs(w, editor, made, ever, copies)
    PROVE  /\ selected' \in Graphs \cup {NoGraph} /\ cached' \in SUBSET Graphs
           /\ CacheIs(detail, fetch', ever) /\ EditorIs(editor', made, ever, copies)
           /\ WireIs(w, editor', made, ever, copies)
<1>1. editor \in Editors /\ EditorFits(editor, made, ever, copies)
  BY Parts DEF EditorIs
<1>2. /\ selected' \in Graphs \cup {NoGraph} /\ cached' \in SUBSET Graphs
      /\ fetch' \in Fetches /\ CacheFits(detail, fetch', ever)
      /\ EditorIs(editor', made, ever, copies) /\ Moves(editor, editor', ever)
  BY <1>1, RenderIs DEF EditorIs
<1>3. WireIs(w, editor', made, ever, copies)
  BY <1>2, WireFollows
<1> QED
  BY <1>2, <1>3, Parts DEF CacheIs

LEMMA FollowLinkStep == ASSUME Inv, NEW g \in Graphs, FollowLink(g) PROVE Inv'
<1>1. cached \in SUBSET Graphs /\ Render(editor, g, cached) /\ moves' \in 0 .. MaxMoves
  BY Parts, GestureIs DEF FollowLink, TabFits
<1>2. /\ selected' \in Graphs \cup {NoGraph} /\ cached' \in SUBSET Graphs
      /\ CacheIs(detail, fetch', ever) /\ EditorIs(editor', made, ever, copies)
      /\ WireIs(wire, editor', made, ever, copies)
  BY <1>1, Parts, RenderStep
<1>3. TabFits(selected', cached', listing', given', risky', moves', failures')
  BY <1>1, <1>2, Parts, UnsavedIs DEF FollowLink, TabFits
<1> QED
  BY <1>2, <1>3, Quiet DEF FollowLink

LEMMA AskStep ==
    ASSUME Inv, NEW name, NEW r \in Request, Ask(name, r),
           Fits(r, made, ever, copies), Fresh(r, editor, ever),
           r.kind = "advanced" => editor.key \in Graphs
    PROVE  Inv'
<1>1. Len(wire) < MaxRequests /\ moves' \in 0 .. MaxMoves
  BY GestureIs DEF Ask
<1>2. WireIs(wire', editor', made, ever, copies) /\ EditorIs(editor', made, ever, copies)
  BY <1>1, Parts, WireMore DEF Ask
<1>3. TabFits(selected', cached', listing', given', risky', moves', failures')
  BY <1>1, Parts, RiskedIs DEF Ask, TabFits, queries
<1>4. CacheIs(detail', fetch', ever)
  BY Parts DEF Ask, queries
<1> QED
  BY <1>2, <1>3, <1>4, Quiet DEF Ask

LEMMA CreateGraphStep == ASSUME Inv, CreateGraph PROVE Inv'
<1> DEFINE a == Call("create", NoGraph)
           r == [a EXCEPT !.next = "open"]
<1>1. a \in Request /\ a.kind = "create" /\ a.state = "sent"
  BY CallIs DEF Kinds
<1>2. Ask("create", r)
  BY DEF CreateGraph
<1> HIDE DEF a
<1>3. r \in Request /\ r.kind = "create" /\ r.state = "sent" /\ r.next = "open"
  BY <1>1 DEF Request
<1> HIDE DEF r
<1> QED
  BY <1>2, <1>3, AskStep DEF Fits, Fresh, Writes

LEMMA DeleteGraphStep == ASSUME Inv, DeleteGraph PROVE Inv'
<1> DEFINE r == Call("delete", editor.key)
<1>1. r \in Request /\ r.kind = "delete"
  BY EditorKey, CallIs DEF Kinds, DeleteGraph
<1>2. Ask("delete", r)
  BY DEF DeleteGraph
<1> HIDE DEF r
<1> QED
  BY <1>1, <1>2, AskStep DEF Fits, Fresh, Writes

LEMMA SaveAdvancedStep == ASSUME Inv, SaveAdvanced PROVE Inv'
<1> DEFINE a == Call("advanced", editor.key)
           r == [a EXCEPT !.content = editor.local]
<1>1. editor.key \in Graphs
  BY EditorKey DEF SaveAdvanced
<1>2. a \in Request /\ a.kind = "advanced" /\ a.state = "sent" /\ a.graph = editor.key
  BY <1>1, CallIs DEF Kinds, Writes
<1>3. Ask("advanced", r)
  BY DEF SaveAdvanced
<1>4. editor \in Editors /\ EditorFits(editor, made, ever, copies)
  BY Parts DEF EditorIs
<1> HIDE DEF a
<1>5. /\ r \in Request /\ r.kind = "advanced" /\ r.state = "sent" /\ r.graph = editor.key
      /\ r.content = editor.local
  BY <1>2, <1>4 DEF Request, Editors
<1> HIDE DEF r
<1>6. Fits(r, made, ever, copies) /\ Fresh(r, editor, ever)
  BY <1>1, <1>4, <1>5 DEF Fits, Fresh, Writes, EditorFits
<1> QED
  BY <1>1, <1>3, <1>5, <1>6, AskStep

LEMMA FlushThenStep ==
    ASSUME Inv, NEW name, NEW next \in {"start", "create"}, FlushThen(name, next)
    PROVE  Inv'
<1>1. editor.key \in Graphs /\ Len(wire) < MaxRequests /\ moves' \in 0 .. MaxMoves
  BY EditorKey, GestureIs DEF FlushThen
<1>2. editor \in Editors /\ EditorFits(editor, made, ever, copies)
  BY Parts DEF EditorIs
<1>3. EditorIs(editor', made, ever, copies) /\ Moves(editor, editor', ever)
  BY EditorFlushed DEF FlushThen
<1>4. editor.local \in Content
  BY <1>2 DEF Editors
<1> DEFINE r == IF editor.dirty THEN Save(editor, next)
                ELSE IF next = "start" THEN Start(editor.key, editor.local, TRUE)
                ELSE Create(editor.key)
<1>5. r \in Request /\ Fits(r, made, ever, copies) /\ Fresh(r, editor, ever)
  <2>1. CASE editor.dirty
    BY <1>1, <1>2, <2>1, SaveIs DEF Nexts
  <2>2. CASE ~editor.dirty /\ next = "start"
    BY <1>1, <1>4, <2>2, StartIs
  <2>3. CASE ~editor.dirty /\ next # "start"
    BY <1>1, <1>3, <2>3, CreateIs DEF EditorIs
  <2> QED
    BY <2>1, <2>2, <2>3
<1>6. wire' = Append(wire, r)
  BY DEF FlushThen
<1> HIDE DEF r
<1>7. WireIs(wire', editor, made, ever, copies)
  BY <1>1, <1>5, <1>6, Parts, WireMore
<1>8. WireIs(wire', editor', made, ever, copies)
  BY <1>3, <1>7, WireFollows
<1>9. TabFits(selected', cached', listing', given', risky', moves', failures')
  BY <1>1, Parts, RiskedIs DEF FlushThen, TabFits, queries
<1>10. CacheIs(detail', fetch', ever)
  BY Parts DEF FlushThen, queries
<1> QED
  BY <1>3, <1>8, <1>9, <1>10, Quiet DEF FlushThen

-----------------------------------------------------------------------------
(* Edits, and the steps of the server. *)

(* More has been done to a graph. *)
LEMMA MadeMore ==
    ASSUME Inv, NEW g \in Graphs, NEW e \in Edits,
           made' = [made EXCEPT ![g] = @ \cup {e}]
    PROVE  /\ made' \in [Graphs -> Content]
           /\ Grown(made, ever, copies, made', ever, copies)
           /\ StoreFits(stored, list, made', ever, copies)
           /\ e \in made'[g]
<1>1. /\ made \in [Graphs -> Content] /\ StoreFits(stored, list, made, ever, copies)
  BY Parts
<1>2. /\ made' \in [Graphs -> Content] /\ \A h \in Graphs : made[h] \subseteq made'[h]
      /\ e \in made'[g]
  BY <1>1 DEF Content
<1>3. StoreFits(stored, list, made', ever, copies)
  <2>1. ASSUME NEW h \in Graphs, h \notin copies, NEW c \in ever[h] PROVE c \subseteq made'[h]
    BY <1>1, <1>2, <2>1 DEF StoreFits
  <2> QED
    BY <1>1, <2>1 DEF StoreFits
<1> QED
  BY <1>2, <1>3 DEF Grown

LEMMA EditStep == ASSUME Inv, NEW e \in Edits, Edit(e) PROVE Inv'
<1>1. editor.key \in Graphs
  BY EditorKey DEF Edit
<1>2. editor \in Editors /\ EditorFits(editor, made, ever, copies)
  BY Parts DEF EditorIs
<1>3. made' = [made EXCEPT ![editor.key] = @ \cup {e}]
  BY DEF Edit
<1>4. /\ made' \in [Graphs -> Content]
      /\ Grown(made, ever, copies, made', ever, copies)
      /\ StoreFits(stored, list, made', ever, copies) /\ e \in made'[editor.key]
  BY <1>1, <1>3, MadeMore
<1>5. /\ editor' \in Editors /\ editor'.key = editor.key /\ editor'.local = editor.local \cup {e}
      /\ editor'.saveState = "dirty" /\ editor'.version = editor.version + 1
  <2> DEFINE l == editor.local \cup {e}
             v == editor.version + 1
  <2>1. l \in Content /\ v \in Nat
    BY <1>2 DEF Editors, Content
  <2>2. editor' = [editor EXCEPT !.local = l, !.dirty = TRUE, !.timer = TRUE,
                                 !.version = v, !.saveState = "dirty"]
    BY DEF Edit
  <2> HIDE DEF l, v
  <2>3. /\ editor' \in Editors /\ editor'.key = editor.key /\ editor'.local = l
        /\ editor'.saveState = "dirty" /\ editor'.version = v
    BY <1>2, <2>1, <2>2 DEF Editors
  <2> QED
    BY <2>3 DEF l, v
<1>6. EditorFits(editor', made', ever, copies) /\ Moves(editor, editor', ever)
  BY <1>1, <1>2, <1>4, <1>5 DEF EditorFits, Moves, Editors, Grown
<1>7. WireIs(wire, editor', made', ever, copies)
  BY <1>2, <1>4, <1>6, Parts, WireStays DEF WireIs
<1>8. UNCHANGED <<list, stored, wire, cached, listing, detail, fetch, selected, given, risky,
                  copies, ever, runs, moves, failures>>
  BY DEF Edit, server, queries
<1> QED
  BY <1>4, <1>5, <1>6, <1>7, <1>8, Parts, Whole DEF EditorIs, TabFits, CacheIs

LEMMA QuickConfigStep == ASSUME Inv, NEW e \in Edits, QuickConfig(e) PROVE Inv'
<1> DEFINE a == Call("quick", editor.key)
           r == [a EXCEPT !.content = {e}]
<1>1. editor.key \in Graphs /\ Len(wire) < MaxRequests /\ moves' \in 0 .. MaxMoves
  BY EditorKey, GestureIs DEF QuickConfig
<1>2. editor \in Editors /\ EditorFits(editor, made, ever, copies)
  BY Parts DEF EditorIs
<1>3. /\ made' = [made EXCEPT ![editor.key] = @ \cup {e}]
      /\ wire' = Append(wire, r) /\ editor' = editor
  BY DEF QuickConfig
<1>4. /\ made' \in [Graphs -> Content]
      /\ Grown(made, ever, copies, made', ever, copies)
      /\ StoreFits(stored, list, made', ever, copies) /\ e \in made'[editor.key]
  BY <1>1, <1>3, MadeMore
<1>5. a \in Request /\ a.kind = "quick" /\ a.state = "sent" /\ a.graph = editor.key
  BY <1>1, CallIs DEF Kinds, Writes
<1> HIDE DEF a
<1>6. /\ r \in Request /\ r.kind = "quick" /\ r.state = "sent" /\ r.graph = editor.key
      /\ r.content = {e}
  BY <1>5 DEF Request, Content
<1> HIDE DEF r
<1>7. Fits(r, made', ever, copies) /\ Fresh(r, editor, ever)
  BY <1>1, <1>4, <1>6 DEF Fits, Fresh, Writes
<1>8. EditorFits(editor, made', ever, copies)
  BY <1>2, <1>4 DEF EditorFits, Grown
<1>9. WireIs(wire, editor, made', ever, copies)
  BY <1>2, <1>4, Parts, Still, WireStays DEF WireIs
<1>10. /\ WireFits(Append(wire, r), editor, made', ever, copies)
       /\ Append(wire, r) \in Seq(Request) /\ Len(Append(wire, r)) = Len(wire) + 1
  BY <1>6, <1>7, <1>9, WireAppend DEF WireIs
<1>11. WireIs(wire', editor', made', ever, copies)
  <2>1. Len(wire) \in Nat /\ MaxRequests \in Nat
    BY Parts, GraphEditorAssumption DEF WireIs
  <2> QED
    BY <1>1, <1>3, <1>10, <2>1 DEF WireIs
<1>12. UNCHANGED <<list, stored, cached, listing, detail, fetch, selected, given, risky,
                  copies, ever, runs, failures>>
  BY DEF QuickConfig, server, queries
<1> QED
  BY <1>1, <1>2, <1>3, <1>4, <1>8, <1>11, <1>12, Parts, Whole DEF EditorIs, TabFits, CacheIs

-----------------------------------------------------------------------------
(* The server. *)
LEMMA RequestIs ==
    ASSUME Inv, NEW i \in DOMAIN wire
    PROVE  wire[i] \in Request /\ Fits(wire[i], made, ever, copies) /\ Fresh(wire[i], editor, ever)
  BY Parts DEF WireIs, WireFits

LEMMA StateSet ==
    ASSUME NEW r \in Request, NEW s \in {"sent", "reading", "done", "refused", "lost"}
    PROVE  LET q == [r EXCEPT !.state = s]
           IN  /\ q \in Request /\ q.state = s
               /\ q.kind = r.kind /\ q.graph = r.graph /\ q.next = r.next
               /\ q.content = r.content /\ q.version = r.version
  BY DEF Request

LEMMA WireSet ==
    ASSUME Inv, NEW i \in DOMAIN wire, NEW md, NEW ev, NEW cp, NEW r \in Request,
           Grown(made, ever, copies, md, ev, cp), Fits(r, md, ev, cp), Fresh(r, editor, ev),
           Moves(editor, editor, ev)
    PROVE  WireIs([wire EXCEPT ![i] = r], editor, md, ev, cp)
<1>1. WireFits(wire, editor, md, ev, cp) /\ wire \in Seq(Request) /\ Len(wire) <= MaxRequests
  BY Parts, WireStays DEF WireIs, EditorIs
<1> QED
  BY <1>1, WireChange DEF WireIs

LEMMA Unmoved == ASSUME Inv, NEW ev PROVE Moves(editor, editor, ev)
  BY DEF Moves, Inv, TypeOK

LEMMA EditorStays ==
    ASSUME Inv, NEW md, NEW ev, NEW cp, Grown(made, ever, copies, md, ev, cp)
    PROVE  EditorIs(editor, md, ev, cp)
<1>1. editor \in Editors /\ EditorFits(editor, made, ever, copies)
  BY Parts DEF EditorIs
<1>2. editor.key \in Graphs => Mixes(ever[editor.key]) \subseteq Mixes(ev[editor.key])
  BY MixesGrow DEF Grown
<1> QED
  BY <1>1, <1>2 DEF EditorIs, EditorFits, Grown

LEMMA CacheStays ==
    ASSUME Inv, NEW md, NEW ev, NEW cp, Grown(made, ever, copies, md, ev, cp)
    PROVE  CacheIs(detail, fetch, ev)
<1>1. detail \in Cached /\ fetch \in Fetches /\ CacheFits(detail, fetch, ever)
  BY Parts DEF CacheIs
<1>2. ASSUME NEW g \in Graphs
      PROVE  /\ detail[g] \subseteq Mixes(ev[g])
             /\ fetch[g].state = "half" => fetch[g].content \in ev[g]
             /\ fetch[g].state = "read" => fetch[g].content \in Mixes(ev[g])
  <2>1. ever[g] \subseteq ev[g] /\ Mixes(ever[g]) \subseteq Mixes(ev[g])
    BY MixesGrow DEF Grown
  <2> QED
    BY <1>1, <2>1 DEF CacheFits
<1> QED
  BY <1>1, <1>2 DEF CacheIs, CacheFits

LEMMA FreshStays ==
    ASSUME Inv, NEW i \in DOMAIN wire, NEW md, NEW ev, NEW cp, Grown(made, ever, copies, md, ev, cp)
    PROVE  Fresh(wire[i], editor, ev) /\ Fits(wire[i], md, ev, cp)
<1>1. editor \in Editors
  BY Parts DEF EditorIs
<1> QED
  BY <1>1, RequestIs, Unmoved, FreshMoves, FitsGrow

LEMMA FullUpdateStep ==
    ASSUME Inv, NEW i \in DOMAIN wire, FullUpdate(i), wire' = [wire EXCEPT ![i].state = "done"],
           UNCHANGED <<queries, selected, editor, moves, failures>>
    PROVE  Inv'
<1> DEFINE r == wire[i]
           g == r.graph
           q == [r EXCEPT !.state = "done"]
<1>1. r \in Request /\ r.kind \in Writes /\ g \in list /\ g \in Graphs /\ r.content \in Content
  BY RequestIs, Parts DEF FullUpdate, Request
<1>2. /\ stored' = [stored EXCEPT ![g] = r.content]
      /\ ever' = [ever EXCEPT ![g] = @ \cup {r.content}]
      /\ wire' = [wire EXCEPT ![i] = q]
      /\ UNCHANGED <<list, made, copies, runs>>
  BY DEF FullUpdate
<1>3. /\ stored \in [Graphs -> Content] /\ ever \in [Graphs -> SUBSET Content]
      /\ StoreFits(stored, list, made, ever, copies)
  BY Parts
<1>4. /\ stored' \in [Graphs -> Content] /\ ever' \in [Graphs -> SUBSET Content]
      /\ r.content \in ever'[g]
      /\ \A h \in Graphs : ever'[h] = ever[h] \cup (IF h = g THEN {r.content} ELSE {})
  BY <1>1, <1>2, <1>3
<1>5. Grown(made, ever, copies, made, ever', copies)
  BY <1>4 DEF Grown
<1>6. r.graph \notin copies => r.content \subseteq made[r.graph]
  BY <1>1, RequestIs DEF Fits
<1>7. StoreFits(stored', list, made, ever', copies)
  <2>1. ASSUME NEW h \in Graphs
        PROVE  /\ stored'[h] \in ever'[h] \/ (stored'[h] = {} /\ h \notin list)
               /\ ever'[h] # {} => {} \in ever'[h]
    <3>1. ever[g] # {}
      BY <1>1, <1>3 DEF StoreFits
    <3>2. ever'[h] # {} => {} \in ever'[h]
      BY <1>1, <1>3, <1>4, <3>1 DEF StoreFits
    <3> QED
      BY <1>1, <1>2, <1>3, <1>4, <3>2 DEF StoreFits
  <2>2. ASSUME NEW h \in Graphs, h \notin copies, NEW c \in ever'[h]
        PROVE  c \subseteq made[h]
    <3>1. CASE c \in ever[h]
      BY <1>3, <2>2, <3>1 DEF StoreFits
    <3>2. CASE c \notin ever[h]
      BY <1>4, <1>6, <2>2, <3>2
    <3> QED
      BY <3>1, <3>2
  <2> QED
    BY <2>1, <2>2 DEF StoreFits
<1>8. /\ q \in Request /\ q.state = "done" /\ q.kind = r.kind /\ q.graph = g
      /\ q.next = r.next /\ q.content = r.content /\ q.version = r.version
  BY <1>1, StateSet
<1>9. Fresh(r, editor, ever') /\ Fits(r, made, ever', copies)
  BY <1>5, FreshStays
<1> HIDE DEF q
<1>10. Fits(q, made, ever', copies) /\ Fresh(q, editor, ever')
  BY <1>1, <1>4, <1>8, <1>9 DEF Fits, Fresh, Writes
<1>11. WireIs(wire', editor, made, ever', copies)
  <2>1. Moves(editor, editor, ever')
    BY Unmoved
  <2>2. WireIs([wire EXCEPT ![i] = q], editor, made, ever', copies)
    BY <1>5, <1>8, <1>10, <2>1, WireSet
  <2> QED
    BY <1>2, <2>2
<1>12. EditorIs(editor, made, ever', copies) /\ CacheIs(detail, fetch, ever')
  BY <1>5, EditorStays, CacheStays
<1>13. given' \in Content /\ risky' \in SUBSET Graphs
  <2>1. given \in Content /\ risky \in SUBSET Graphs /\ stored[g] \in Content
    BY <1>1, Parts DEF TabFits
  <2> QED
    BY <1>1, <2>1 DEF FullUpdate, Content
<1> QED
  BY <1>2, <1>4, <1>7, <1>11, <1>12, <1>13, Parts, Whole DEF TabFits, queries

LEMMA ServerCreateStep ==
    ASSUME Inv, NEW i \in DOMAIN wire, NEW g \in Graphs, ServerCreate(i, g),
           wire' = [wire EXCEPT ![i].state = "done", ![i].graph = g],
           UNCHANGED <<queries, selected, editor, moves, failures>>
    PROVE  Inv'
<1> DEFINE r == wire[i]
           p == [r EXCEPT !.state = "done"]
           q == [p EXCEPT !.graph = g]
<1>1. r \in Request /\ r.kind = "create" /\ r.next \in {"open", "fill"}
  BY RequestIs DEF ServerCreate, Fits
<1>2. /\ list' = list \cup {g} /\ g \notin list /\ ever[g] = {}
      /\ ever' = [ever EXCEPT ![g] = {{}}]
      /\ copies' = IF r.next = "fill" THEN copies \cup {g} ELSE copies
      /\ UNCHANGED <<stored, made, given, risky, runs>>
  BY DEF ServerCreate
<1>3. wire' = [wire EXCEPT ![i] = q]
  OBVIOUS
<1>4. /\ stored \in [Graphs -> Content] /\ ever \in [Graphs -> SUBSET Content]
      /\ list \in SUBSET Graphs /\ copies \in SUBSET Graphs
      /\ StoreFits(stored, list, made, ever, copies)
  BY Parts
<1>5. /\ ever' \in [Graphs -> SUBSET Content] /\ list' \in SUBSET Graphs
      /\ copies' \in SUBSET Graphs /\ copies \subseteq copies' /\ ever'[g] = {{}}
      /\ \A h \in Graphs \ {g} : ever'[h] = ever[h] /\ (h \in list' => h \in list)
  BY <1>2, <1>4 DEF Content
<1>6. Grown(made, ever, copies, made, ever', copies')
  BY <1>2, <1>5 DEF Grown
<1>7. StoreFits(stored, list', made, ever', copies')
  <2>1. ASSUME NEW h \in Graphs
        PROVE  /\ stored[h] \in ever'[h] \/ (stored[h] = {} /\ h \notin list')
               /\ h \notin copies' => \A c \in ever'[h] : c \subseteq made[h]
               /\ ever'[h] # {} => {} \in ever'[h]
    <3>1. CASE h = g
      BY <1>2, <1>4, <1>5, <3>1 DEF StoreFits
    <3>2. CASE h # g
      BY <1>4, <1>5, <3>2 DEF StoreFits
    <3> QED
      BY <3>1, <3>2
  <2> QED
    BY <2>1 DEF StoreFits
<1>8. p \in Request /\ p.state = "done" /\ p.kind = "create" /\ p.next = r.next
  BY <1>1, StateSet
<1> HIDE DEF p
<1>9. q \in Request /\ q.kind = "create" /\ q.graph = g /\ q.next = r.next
  BY <1>8 DEF Request
<1> HIDE DEF q
<1>10. Fits(q, made, ever', copies') /\ Fresh(q, editor, ever')
  BY <1>1, <1>2, <1>9 DEF Fits, Fresh, Writes
<1>11. WireIs(wire', editor, made, ever', copies')
  <2>1. Moves(editor, editor, ever')
    BY Unmoved
  <2>2. WireIs([wire EXCEPT ![i] = q], editor, made, ever', copies')
    BY <1>6, <1>9, <1>10, <2>1, WireSet
  <2> QED
    BY <1>3, <2>2
<1>12. EditorIs(editor, made, ever', copies') /\ CacheIs(detail, fetch, ever')
  BY <1>6, EditorStays, CacheStays
<1> QED
  BY <1>2, <1>5, <1>7, <1>11, <1>12, Parts, Whole DEF TabFits, queries

(* A request is answered, or fails, and nothing is written. *)
LEMMA SettledIs ==
    ASSUME Inv, NEW i \in DOMAIN wire, NEW s \in {"reading", "done", "refused", "lost"},
           wire[i].kind \notin Writes \cup {"create"} \/ s # "done"
    PROVE  WireIs([wire EXCEPT ![i].state = s], editor, made, ever, copies)
<1> DEFINE r == wire[i]
           q == [r EXCEPT !.state = s]
<1>1. r \in Request /\ Fits(r, made, ever, copies) /\ Fresh(r, editor, ever)
  BY RequestIs
<1>2. /\ q \in Request /\ q.state = s /\ q.kind = r.kind /\ q.graph = r.graph
      /\ q.next = r.next /\ q.content = r.content /\ q.version = r.version
  <2>1. s \in {"sent", "reading", "done", "refused", "lost"}
    OBVIOUS
  <2> QED
    BY <1>1, <2>1, StateSet
<1> HIDE DEF q
<1>3. Fits(q, made, ever, copies) /\ Fresh(q, editor, ever)
  BY <1>1, <1>2 DEF Fits, Fresh
<1>4. WireIs([wire EXCEPT ![i] = q], editor, made, ever, copies)
  BY <1>2, <1>3, Still, WireSet
<1> QED
  BY <1>4 DEF q

LEMMA ServerDeleteStep ==
    ASSUME Inv, NEW i \in DOMAIN wire, ServerDelete(i), wire' = [wire EXCEPT ![i].state = "done"],
           UNCHANGED <<queries, selected, editor, moves, failures>>
    PROVE  Inv'
<1>1. WireIs(wire', editor, made, ever, copies)
  BY SettledIs DEF ServerDelete, Writes
<1>2. /\ list' \in SUBSET Graphs /\ list' \subseteq list
      /\ UNCHANGED <<stored, made, given, risky, copies, ever, runs>>
  BY Parts DEF ServerDelete, history
<1>3. StoreFits(stored, list', made, ever, copies)
  BY <1>2, Parts DEF StoreFits
<1> QED
  BY <1>1, <1>2, <1>3, Parts, Whole DEF queries

LEMMA ServerStartStep ==
    ASSUME Inv, NEW i \in DOMAIN wire, ServerStart(i),
           UNCHANGED <<queries, selected, editor, moves, failures>>
    PROVE  Inv'
<1>1. WireIs(wire', editor, made, ever, copies)
  <2>1. PICK s \in {"reading", "done"} : wire' = [wire EXCEPT ![i].state = s]
    BY DEF ServerStart
  <2>2. wire[i].kind \notin Writes \cup {"create"}
    BY DEF ServerStart, Writes
  <2> QED
    BY <2>1, <2>2, SettledIs
<1>2. UNCHANGED <<list, stored, made, given, risky, copies, ever>>
  BY DEF ServerStart, server
<1> DEFINE RunSet == [graph : Graphs, wanted : Content, used : Content, saved : BOOLEAN]
           r == wire[i]
<1>3. runs' \in SUBSET RunSet
  <2>1. r \in Request /\ r.graph \in Graphs
    BY RequestIs, Parts DEF ServerStart
  <2>2. r.content \in Content /\ r.saved \in BOOLEAN /\ stored[r.graph] \in Content
    BY <2>1, Parts DEF Request
  <2>3. runs' = runs \cup {[graph |-> r.graph, wanted |-> r.content,
                            used |-> stored[r.graph], saved |-> r.saved]}
    BY DEF ServerStart
  <2> QED
    BY <2>1, <2>2, <2>3, Parts
<1> QED
  BY <1>1, <1>2, <1>3, Parts, Whole DEF queries

LEMMA ServeStep ==
    ASSUME Inv, NEW i \in DOMAIN wire, NEW g \in Graphs, Serve(i, g)
    PROVE  Inv'
  BY FullUpdateStep, ServerDeleteStep, ServerStartStep, ServerCreateStep DEF Serve

LEMMA FailStep == ASSUME Inv, NEW i \in DOMAIN wire, Fail(i) PROVE Inv'
<1>1. WireIs(wire', editor, made, ever, copies)
  BY SettledIs DEF Fail
<1>2. failures' \in 0 .. MaxFailures
  BY Parts, GraphEditorAssumption DEF Fail, TabFits
<1>3. UNCHANGED <<server, selected, editor, made, given, risky, copies, ever, runs, moves,
                  cached, listing, detail, fetch>>
  BY DEF Fail, queries, history
<1> QED
  BY <1>1, <1>2, <1>3, Parts, Quiet DEF TabFits

-----------------------------------------------------------------------------
(* The answers and the refreshes. *)

LEMMA SaveAnsweredIs ==
    ASSUME Inv, NEW i \in DOMAIN wire, wire[i].kind = "save"
    PROVE  EditorIs(SaveAnswered(wire[i]), made, ever, copies)
           /\ Moves(editor, SaveAnswered(wire[i]), ever)
<1> DEFINE r == wire[i]
           saved == [editor EXCEPT !.dirty = FALSE, !.saveState = "saved"]
           dirty == [editor EXCEPT !.saveState = "dirty"]
<1>1. editor \in Editors /\ EditorFits(editor, made, ever, copies) /\ Moves(editor, editor, ever)
  BY Parts, Still DEF EditorIs
<1>2. r \in Request /\ Fits(r, made, ever, copies) /\ Fresh(r, editor, ever)
  BY RequestIs
<1>3. CASE ~Mine(r)
  BY <1>1, <1>3 DEF SaveAnswered, EditorIs
<1>4. CASE Mine(r) /\ r.state = "done" /\ editor.version = r.version
  <2>1. /\ saved \in Editors /\ saved.key = editor.key /\ saved.local = editor.local
        /\ saved.version = editor.version /\ ~saved.dirty
    BY <1>1 DEF Editors
  <2>2. editor.key \in Graphs /\ editor.local \in Mixes(ever[editor.key])
    <3>1. /\ editor.key = r.graph /\ r.graph \in Graphs /\ r.content \in ever[r.graph]
          /\ r.content \in Content
          /\ r.content = editor.local \/ editor.local \in Mixes(ever[editor.key])
      BY <1>2, <1>4 DEF Mine, Fits, Fresh, Writes, Request
    <3> QED
      BY <3>1, MixesHold
  <2>3. SaveAnswered(r) = saved
    BY <1>4 DEF SaveAnswered
  <2> HIDE DEF saved
  <2>4. EditorFits(saved, made, ever, copies) /\ Moves(editor, saved, ever)
    BY <1>1, <2>1, <2>2 DEF EditorFits, Moves
  <2> QED
    BY <2>1, <2>3, <2>4 DEF EditorIs
<1>5. CASE Mine(r) /\ ~(r.state = "done" /\ editor.version = r.version)
  <2>1. /\ dirty \in Editors /\ dirty.key = editor.key /\ dirty.local = editor.local
        /\ dirty.version = editor.version /\ dirty.dirty = editor.dirty
        /\ dirty.saveState = "dirty"
    BY <1>1 DEF Editors
  <2>2. SaveAnswered(r) = dirty
    BY <1>5 DEF SaveAnswered
  <2> HIDE DEF dirty
  <2>3. EditorFits(dirty, made, ever, copies) /\ Moves(editor, dirty, ever)
    BY <1>1, <2>1 DEF EditorFits, Moves
  <2> QED
    BY <2>1, <2>2, <2>3 DEF EditorIs
<1> QED
  BY <1>3, <1>4, <1>5

LEMMA ContentIs ==
    ASSUME Inv, NEW i \in DOMAIN wire
    PROVE  given \cup wire[i].content \in Content
  BY RequestIs, Parts DEF Request, Content, TabFits

LEMMA AnswerSaveStep == ASSUME Inv, NEW i \in DOMAIN wire, AnswerSave(i) PROVE Inv'
<1> DEFINE r == wire[i]
           w == RemoveAt(wire, i)
<1>1. r.kind = "save" /\ editor' = SaveAnswered(r)
  BY DEF AnswerSave
<1>2. EditorIs(editor', made, ever, copies) /\ Moves(editor, editor', ever)
  BY <1>1, SaveAnsweredIs
<1>3. WireIs(w, editor, made, ever, copies) /\ Len(w) < MaxRequests
  BY WireGone
<1>4. wire' = CASE r.next = "start"  -> Append(w, Start(r.graph, r.content, Succeeded(i)))
                [] r.next = "create" -> Append(w, Create(r.graph))
                [] OTHER             -> w
  BY DEF AnswerSave
<1>5. /\ r.graph \in Graphs /\ r.content \in Content /\ Succeeded(i) \in BOOLEAN
  BY <1>1, RequestIs DEF Fits, Writes, Request, Succeeded
<1> HIDE DEF w
<1>6. WireIs(wire', editor, made, ever, copies)
  <2>1. CASE r.next = "start"
    <3> DEFINE q == Start(r.graph, r.content, Succeeded(i))
    <3>1. q \in Request /\ Fits(q, made, ever, copies) /\ Fresh(q, editor, ever)
      BY <1>5, StartIs
    <3>2. wire' = Append(w, q)
      BY <1>4, <2>1
    <3> HIDE DEF q
    <3> QED
      BY <1>3, <3>1, <3>2, WireMore
  <2>2. CASE r.next = "create"
    <3> DEFINE q == Create(r.graph)
    <3>1. q \in Request /\ Fits(q, made, ever, copies) /\ Fresh(q, editor, ever)
      BY <1>2, <1>5, CreateIs DEF EditorIs
    <3>2. wire' = Append(w, q)
      BY <1>4, <2>2
    <3> HIDE DEF q
    <3> QED
      BY <1>3, <3>1, <3>2, WireMore
  <2>3. CASE r.next \notin {"start", "create"}
    BY <1>3, <1>4, <2>3
  <2> QED
    BY <2>1, <2>2, <2>3
<1>7. WireIs(wire', editor', made, ever, copies)
  BY <1>2, <1>6, WireFollows
<1>8. TabFits(selected', cached', listing', given', risky', moves', failures')
  BY Parts, ContentIs DEF AnswerSave, TabFits, queries
<1>9. CacheIs(detail', fetch', ever)
  BY Parts DEF AnswerSave, queries
<1> QED
  BY <1>2, <1>7, <1>8, <1>9, Quiet DEF AnswerSave

LEMMA InvalidateIs ==
    ASSUME Inv, NEW g
    PROVE  CacheIs(detail, Invalidate(g), ever)
  BY Parts, FetchSet, AskedIs DEF Invalidate, CacheIs

LEMMA ResetIs ==
    ASSUME Inv
    PROVE  EditorIs(Reset(editor), made, ever, copies) /\ Moves(editor, Reset(editor), ever)
<1> DEFINE e == Reset(editor)
<1>1. editor \in Editors /\ EditorFits(editor, made, ever, copies)
  BY Parts DEF EditorIs
<1>2. /\ e \in Editors /\ e.key = editor.key /\ e.local = editor.local /\ ~e.dirty
      /\ e.version = editor.version /\ e.saveState = "idle"
  BY <1>1 DEF Reset, Editors
<1> HIDE DEF e
<1>3. EditorFits(e, made, ever, copies) /\ Moves(editor, e, ever)
  BY <1>1, <1>2 DEF EditorFits, Moves, Editors
<1> QED
  BY <1>2, <1>3 DEF e, EditorIs

LEMMA AnswerAdvancedStep == ASSUME Inv, NEW i \in DOMAIN wire, AnswerAdvanced(i) PROVE Inv'
<1>1. WireIs(wire', editor, made, ever, copies)
  BY WireGone DEF AnswerAdvanced, Gone
<1>2. CacheIs(detail, fetch', ever)
  BY Parts, InvalidateIs DEF AnswerAdvanced
<1>3. UNCHANGED <<server, selected, editor, made, given, risky, copies, ever, runs, moves,
                  failures, cached, listing, detail>>
  BY DEF AnswerAdvanced, history
<1> QED
  BY <1>1, <1>2, <1>3, Parts, Quiet

LEMMA AnswerQuickStep == ASSUME Inv, NEW i \in DOMAIN wire, AnswerQuick(i) PROVE Inv'
<1>1. WireIs(wire', editor, made, ever, copies)
  BY WireGone DEF AnswerQuick, Gone
<1>2. CacheIs(detail, fetch', ever)
  BY Parts, InvalidateIs DEF AnswerQuick
<1>3. EditorIs(editor', made, ever, copies) /\ Moves(editor, editor', ever)
  BY Parts, ResetIs, Still DEF AnswerQuick
<1>4. given' \in Content
  BY UnsavedIs, ContentIs DEF AnswerQuick
<1>5. WireIs(wire', editor', made, ever, copies)
  BY <1>1, <1>3, WireFollows
<1>6. UNCHANGED <<server, cached, listing, detail, selected, made, risky, copies, ever, runs,
                  moves, failures>>
  BY DEF AnswerQuick
<1> QED
  BY <1>2, <1>3, <1>4, <1>5, <1>6, Parts, Quiet DEF TabFits

LEMMA AnswerStartStep == ASSUME Inv, NEW i \in DOMAIN wire, AnswerStart(i) PROVE Inv'
<1>1. WireIs(wire', editor, made, ever, copies)
  BY WireGone DEF AnswerStart, Gone
<1>2. UNCHANGED <<server, selected, editor, made, given, risky, copies, ever, runs, moves,
                  failures, cached, listing, detail, fetch>>
  BY DEF AnswerStart, history, queries
<1> QED
  BY <1>1, <1>2, Parts, Quiet

(* A request is answered and another graph opened. *)
LEMMA OpenStep ==
    ASSUME Inv, NEW i \in DOMAIN wire, Gone(i), NEW g \in Graphs \cup {NoGraph}, Open(g),
           UNCHANGED <<server, detail, made, risky, copies, ever, runs, moves, failures>>
    PROVE  Inv'
<1>1. WireIs(wire', editor, made, ever, copies)
  BY WireGone DEF Gone
<1>2. cached \in SUBSET Graphs /\ Render(editor, g, cached)
  BY Parts DEF Open, TabFits
<1>3. /\ selected' \in Graphs \cup {NoGraph} /\ cached' \in SUBSET Graphs
      /\ CacheIs(detail, fetch', ever) /\ EditorIs(editor', made, ever, copies)
      /\ WireIs(wire', editor', made, ever, copies)
  BY <1>1, <1>2, RenderStep
<1>4. given' \in Content /\ listing' = TRUE
  BY Parts, UnsavedIs DEF Open, TabFits
<1> QED
  BY <1>3, <1>4, Parts, Quiet DEF TabFits

(* A request is answered, the page stays. *)
LEMMA AnsweredStep ==
    ASSUME Inv, WireIs(wire', editor, made, ever, copies), listing' \in BOOLEAN,
           risky' \in SUBSET Graphs, UNCHANGED <<selected, cached, editor, fetch, given>>,
           UNCHANGED <<server, detail, made, copies, ever, runs, moves, failures>>
    PROVE  Inv'
  BY Parts, Quiet DEF TabFits

LEMMA AnswerCreateStep == ASSUME Inv, NEW i \in DOMAIN wire, AnswerCreate(i) PROVE Inv'
<1> DEFINE r == wire[i]
           w == RemoveAt(wire, i)
<1>1. r.kind = "create" /\ r \in Request /\ Fits(r, made, ever, copies)
  BY RequestIs DEF AnswerCreate
<1>2. UNCHANGED <<server, detail, made, copies, ever, runs, moves, failures>>
  BY DEF AnswerCreate
<1>3. CASE Succeeded(i) /\ r.next = "open"
  <2>1. Gone(i) /\ Open(r.graph) /\ UNCHANGED risky
    BY <1>3 DEF AnswerCreate
  <2>2. r.graph \in Graphs
    BY <1>1, <1>3 DEF Fits, Succeeded
  <2> QED
    BY <1>2, <2>1, <2>2, OpenStep
<1>4. CASE ~(Succeeded(i) /\ r.next = "open")
  <2> DEFINE q == [r EXCEPT !.kind = "fill", !.next = "nothing", !.state = "sent"]
  <2>1. wire' = IF Succeeded(i) THEN Append(w, q) ELSE w
    BY <1>4 DEF AnswerCreate
  <2>2. UNCHANGED <<selected, cached, editor, fetch, listing, given>>
    BY <1>4 DEF AnswerCreate
  <2>3. WireIs(w, editor, made, ever, copies) /\ Len(w) < MaxRequests
    BY WireGone
  <2>4. ASSUME Succeeded(i) PROVE WireIs(Append(w, q), editor, made, ever, copies)
    <3>1. /\ q \in Request /\ q.kind = "fill" /\ q.state = "sent" /\ q.graph = r.graph
      BY <1>1 DEF Request, Writes
    <3>2. r.next = "fill"
      BY <1>1, <1>4, <2>4 DEF Fits
    <3>3. r.graph \in Graphs /\ r.graph \in copies
      BY <1>1, <2>4, <3>2 DEF Fits, Succeeded
    <3> HIDE DEF q, w
    <3>4. Fits(q, made, ever, copies) /\ Fresh(q, editor, ever)
      BY <3>1, <3>3 DEF Fits, Fresh, Writes
    <3> QED
      BY <2>3, <3>1, <3>4, WireMore
  <2>5. WireIs(wire', editor, made, ever, copies)
    BY <2>1, <2>3, <2>4
  <2>6. risky' \in SUBSET Graphs
    <3>1. risky' = risky \/ (Succeeded(i) /\ risky' = risky \cup {r.graph})
      BY <1>4 DEF AnswerCreate
    <3>2. Succeeded(i) => r.graph \in Graphs
      BY <1>1 DEF Fits, Succeeded
    <3> QED
      BY <3>1, <3>2, Parts DEF TabFits
  <2> QED
    BY <1>2, <2>2, <2>5, <2>6, Parts, AnsweredStep DEF TabFits
<1> QED
  BY <1>3, <1>4

LEMMA AnswerFillStep == ASSUME Inv, NEW i \in DOMAIN wire, AnswerFill(i) PROVE Inv'
<1>1. Gone(i) /\ UNCHANGED <<server, detail, made, risky, copies, ever, runs, moves, failures>>
  BY DEF AnswerFill
<1>2. WireIs(wire', editor, made, ever, copies)
  BY <1>1, WireGone DEF Gone
<1>3. CASE Succeeded(i)
  <2>1. Open(wire[i].graph) /\ wire[i].graph \in Graphs
    BY <1>3, RequestIs DEF AnswerFill, Fits, Writes
  <2> QED
    BY <1>1, <2>1, OpenStep
<1>4. CASE ~Succeeded(i)
  <2>1. UNCHANGED <<selected, cached, editor, fetch, listing, given>>
    BY <1>4 DEF AnswerFill
  <2> QED
    BY <1>1, <1>2, <2>1, Parts, AnsweredStep DEF TabFits
<1> QED
  BY <1>3, <1>4

LEMMA AnswerDeleteStep == ASSUME Inv, NEW i \in DOMAIN wire, AnswerDelete(i) PROVE Inv'
<1>1. Gone(i) /\ UNCHANGED <<server, detail, made, risky, copies, ever, runs, moves, failures>>
  BY DEF AnswerDelete
<1>2. WireIs(wire', editor, made, ever, copies)
  BY <1>1, WireGone DEF Gone
<1>3. CASE Succeeded(i) /\ editor.key = wire[i].graph
  BY <1>1, <1>3, OpenStep DEF AnswerDelete
<1>4. CASE ~(Succeeded(i) /\ editor.key = wire[i].graph)
  <2>1. UNCHANGED <<selected, cached, editor, fetch, given>> /\ listing' \in BOOLEAN
    BY <1>4, Parts DEF AnswerDelete, TabFits, Succeeded
  <2> QED
    BY <1>1, <1>2, <2>1, Parts, AnsweredStep DEF TabFits
<1> QED
  BY <1>3, <1>4

LEMMA AnswerStep == ASSUME Inv, NEW i \in DOMAIN wire, Answer(i) PROVE Inv'
  BY AnswerSaveStep, AnswerAdvancedStep, AnswerQuickStep, AnswerStartStep, AnswerCreateStep,
     AnswerFillStep, AnswerDeleteStep DEF Answer

-----------------------------------------------------------------------------
LEMMA ListAnsweredStep == ASSUME Inv, ListAnswered PROVE Inv'
<1>1. list \in SUBSET Graphs /\ selected \in Graphs \cup {NoGraph}
      /\ WireIs(wire, editor, made, ever, copies) /\ Render(editor, selected, list)
  BY Parts DEF ListAnswered, TabFits
<1>2. /\ selected' \in Graphs \cup {NoGraph} /\ cached' \in SUBSET Graphs
      /\ CacheIs(detail, fetch', ever) /\ EditorIs(editor', made, ever, copies)
      /\ WireIs(wire, editor', made, ever, copies)
  BY <1>1, RenderStep
<1>3. TabFits(selected', cached', listing', given', risky', moves', failures')
  BY <1>2, Parts, UnsavedIs DEF ListAnswered, TabFits
<1> QED
  BY <1>2, <1>3, Quiet DEF ListAnswered

LEMMA DetailReadStep == ASSUME Inv, NEW g \in Graphs, DetailRead(g) PROVE Inv'
<1> DEFINE x == Half(stored[g])
<1>1. /\ x \in [state : {"idle", "asked", "half", "read"}, content : Content] /\ x.content \in ever[g]
      /\ x.state = "half"
  BY Parts DEF DetailRead, StoreFits, Half
<1>2. fetch' = [fetch EXCEPT ![g] = x]
  BY DEF DetailRead
<1> HIDE DEF x
<1>3. CacheIs(detail, fetch', ever)
  BY <1>1, <1>2, Parts, FetchSet DEF CacheIs
<1>4. UNCHANGED <<server, wire, selected, editor, made, given, risky, copies, ever, runs, moves,
                  failures, cached, listing, detail>>
  BY DEF DetailRead, history
<1> QED
  BY <1>3, <1>4, Parts, Quiet

LEMMA DetailNodesStep == ASSUME Inv, NEW g \in Graphs, DetailNodes(g) PROVE Inv'
<1> DEFINE a == fetch[g].content
           b == IF g \in list THEN stored[g] ELSE {}
<1>1. PICK c \in Torn(a, b) : fetch' = [fetch EXCEPT ![g] = Read(c)]
  BY DEF DetailNodes
<1>2. a \in ever[g] /\ b \in ever[g]
  <2>1. a \in ever[g]
    BY Parts DEF DetailNodes, CacheIs, CacheFits
  <2> QED
    BY <2>1, Parts DEF StoreFits
<1>3. c \in Content /\ c \in Mixes(ever[g])
  BY <1>1, <1>2 DEF Torn, Mixes
<1>4. Read(c) \in [state : {"idle", "asked", "half", "read"}, content : Content]
      /\ Read(c).state = "read" /\ Read(c).content = c
  BY <1>3 DEF Read
<1>5. CacheIs(detail, fetch', ever)
  BY <1>1, <1>3, <1>4, Parts, FetchSet DEF CacheIs
<1>6. UNCHANGED <<server, wire, selected, editor, made, given, risky, copies, ever, runs, moves,
                  failures, cached, listing, detail>>
  BY DEF DetailNodes, history
<1> QED
  BY <1>5, <1>6, Parts, Quiet

LEMMA DetailArrivesStep == ASSUME Inv, NEW g \in Graphs, DetailArrives(g) PROVE Inv'
<1> DEFINE c == fetch[g].content
<1>1. detail \in Cached /\ fetch \in Fetches /\ CacheFits(detail, fetch, ever)
  BY Parts DEF CacheIs
<1>2. c \in Content /\ c \in Mixes(ever[g])
  BY <1>1 DEF DetailArrives, CacheFits, Fetches
<1>3. /\ fetch' = [fetch EXCEPT ![g] = Idle] /\ detail' = [detail EXCEPT ![g] = {c}]
      /\ editor' = IF g = editor.key THEN Rendered(editor, g, detail[g], {c}) ELSE editor
  BY DEF DetailArrives
<1> HIDE DEF c
<1>4. detail' \in Cached /\ CacheFits(detail', fetch, ever)
  BY <1>1, <1>2, <1>3 DEF Cached, CacheFits
<1>5. CacheIs(detail', fetch', ever)
  BY <1>1, <1>3, <1>4, FetchSet, IdleIs DEF CacheIs
<1>6. editor \in Editors /\ EditorFits(editor, made, ever, copies) /\ Moves(editor, editor, ever)
  BY Parts, Still DEF EditorIs
<1>7. EditorIs(editor', made, ever, copies) /\ Moves(editor, editor', ever)
  <2>1. CASE g = editor.key
    <3>1. {c} \in {NotLoaded} \cup {{d} : d \in Content} /\ {c} # NotLoaded
      BY <1>2 DEF NotLoaded
    <3>2. {c} \subseteq Mixes(ever[g]) /\ (g \notin copies => \A d \in Mixes(ever[g]) : d \subseteq made[g])
      BY <1>2, Parts, MixesWithin DEF StoreFits
    <3> QED
      BY <1>3, <1>6, <2>1, <3>1, <3>2, RenderedIs DEF EditorIs
  <2>2. CASE g # editor.key
    BY <1>3, <1>6, <2>2 DEF EditorIs
  <2> QED
    BY <2>1, <2>2
<1>8. WireIs(wire, editor', made, ever, copies)
  BY <1>7, Parts, WireFollows
<1>9. UNCHANGED <<server, wire, selected, made, given, risky, copies, ever, runs, moves,
                  failures, cached, listing>>
  BY DEF DetailArrives, history
<1> QED
  BY <1>5, <1>7, <1>8, <1>9, Parts, Quiet

LEMMA DetailFailsStep == ASSUME Inv, NEW g \in Graphs, DetailFails(g) PROVE Inv'
<1>1. CacheIs(detail, fetch', ever)
  BY Parts, FetchSet, IdleIs DEF CacheIs, DetailFails
<1>2. failures' \in 0 .. MaxFailures
  BY Parts, GraphEditorAssumption DEF DetailFails, TabFits
<1>3. UNCHANGED <<server, wire, selected, editor, made, given, risky, copies, ever, runs, moves,
                  cached, listing, detail>>
  BY DEF DetailFails, history
<1> QED
  BY <1>1, <1>2, <1>3, Parts, Quiet DEF TabFits

LEMMA CollectStep == ASSUME Inv, NEW g \in Graphs, Collect(g) PROVE Inv'
<1>1. CacheIs(detail', fetch, ever)
  BY Parts DEF CacheIs, Collect, Cached, CacheFits, NotLoaded
<1>2. UNCHANGED <<server, wire, selected, editor, made, given, risky, copies, ever, runs, moves,
                  failures, cached, listing, fetch>>
  BY DEF Collect, history
<1> QED
  BY <1>1, <1>2, Parts, Quiet

-----------------------------------------------------------------------------
LEMMA NextStep == ASSUME Inv, Next PROVE Inv'
<1>1. ASSUME StartNodes \/ CopyGraph PROVE Inv'
  BY <1>1, FlushThenStep DEF StartNodes, CopyGraph
<1>2. ASSUME NEW e \in Edits, Edit(e) \/ QuickConfig(e) PROVE Inv'
  BY <1>2, EditStep, QuickConfigStep
<1>3. ASSUME AutoSave \/ SaveNow \/ CreateGraph \/ DeleteGraph \/ SaveAdvanced PROVE Inv'
  BY <1>3, AutoSaveStep, SaveNowStep, CreateGraphStep, DeleteGraphStep, SaveAdvancedStep
<1>4. ASSUME NEW g \in Graphs, Select(g) \/ FollowLink(g) PROVE Inv'
  BY <1>4, SelectStep, FollowLinkStep
<1>5. ASSUME NEW i \in DOMAIN wire, Fail(i) \/ Answer(i) \/ \E g \in Graphs : Serve(i, g)
      PROVE  Inv'
  BY <1>5, FailStep, AnswerStep, ServeStep
<1>6. ASSUME NEW g \in Graphs,
             DetailRead(g) \/ DetailNodes(g) \/ DetailArrives(g) \/ DetailFails(g) \/ Collect(g)
      PROVE  Inv'
  BY <1>6, DetailReadStep, DetailNodesStep, DetailArrivesStep, DetailFailsStep, CollectStep
<1> QED
  BY <1>1, <1>2, <1>3, <1>4, <1>5, <1>6, ListAnsweredStep DEF Next

LEMMA StutterStep == ASSUME Inv, UNCHANGED vars PROVE Inv'
<1>1. UNCHANGED <<list, stored, wire, cached, listing, detail, fetch, selected, editor,
                  made, given, risky, copies, ever, runs, moves, failures>>
  BY DEF vars
<1> QED
  BY <1>1, Parts, Whole

LEMMA InitIs == ASSUME Init PROVE Inv
<1>1. /\ MaxRequests \in Nat /\ MaxMoves \in Nat /\ MaxFailures \in Nat
      /\ Initial \in SUBSET Graphs /\ {} \in Content
  BY GraphEditorAssumption DEF Content
<1>2. Shown(NoGraph, Initial) \in Graphs \cup {NoGraph}
  BY <1>1, ShownIs
<1>3. list = Initial /\ cached = Initial /\ stored = [g \in Graphs |-> {}]
      /\ wire = <<>> /\ listing = FALSE /\ selected = NoGraph
      /\ fetch = [g \in Graphs |-> Idle]
  BY DEF Init
<1>4. wire \in Seq(Request) /\ Len(wire) <= MaxRequests /\ WireFits(wire, editor, made, ever, copies)
  BY <1>1, <1>3 DEF WireFits
<1>5. /\ editor \in Editors /\ ~editor.dirty /\ editor.saveState = "idle" /\ editor.local = {}
  BY <1>1, <1>2 DEF Init, Editors
<1>6. EditorFits(editor, made, ever, copies)
  BY <1>5 DEF EditorFits
<1>7. /\ made \in [Graphs -> Content] /\ given \in Content /\ risky \in SUBSET Graphs
      /\ copies \in SUBSET Graphs /\ runs = {} /\ moves = 0 /\ failures = 0
      /\ stored \in [Graphs -> Content]
  BY <1>1, <1>3 DEF Init
<1>8. ever = [g \in Graphs |-> IF g \in Initial THEN {{}} ELSE {}]
  BY DEF Init
<1>9. ever \in [Graphs -> SUBSET Content]
  BY <1>1, <1>8
<1>10. StoreFits(stored, list, made, ever, copies)
  BY <1>3, <1>8 DEF StoreFits
<1>11. detail = [g \in Graphs |-> IF g = Shown(NoGraph, Initial) THEN {{}} ELSE NotLoaded]
  BY DEF Init
<1>12. detail \in Cached
  BY <1>1, <1>11 DEF Cached
<1>13. ASSUME NEW g \in Graphs, g = Shown(NoGraph, Initial) PROVE g \in Initial
  BY <1>1, <1>13, FirstIs, NoGraphIs, GraphEditorAssumption DEF Shown
<1>14. CacheFits(detail, fetch, ever)
  <2>1. ASSUME NEW g \in Graphs PROVE detail[g] \subseteq Mixes(ever[g])
    BY <1>1, <1>8, <1>11, <1>13, MixesHold DEF NotLoaded
  <2> QED
    BY <1>3, <2>1, IdleIs DEF CacheFits
<1>15. fetch \in Fetches
  BY <1>3, IdleIs DEF Fetches
<1>16. /\ list \in SUBSET Graphs /\ cached \in SUBSET Graphs /\ listing \in BOOLEAN
       /\ selected \in Graphs \cup {NoGraph} /\ moves \in 0 .. MaxMoves
       /\ failures \in 0 .. MaxFailures
       /\ runs \in SUBSET [graph : Graphs, wanted : Content, used : Content, saved : BOOLEAN]
  <2>1. moves \in 0 .. MaxMoves /\ failures \in 0 .. MaxFailures
    BY <1>1, <1>7
  <2>2. listing \in BOOLEAN /\ selected \in Graphs \cup {NoGraph}
    BY <1>3
  <2>3. list \in SUBSET Graphs /\ cached \in SUBSET Graphs
    BY <1>1, <1>3
  <2>4. runs \in SUBSET [graph : Graphs, wanted : Content, used : Content, saved : BOOLEAN]
    BY <1>7
  <2> QED
    BY <2>1, <2>2, <2>3, <2>4
<1>17. TypeOK
  BY <1>4, <1>5, <1>7, <1>9, <1>12, <1>15, <1>16 DEF TypeOK, Cached, Fetches, Editors
<1> QED
  BY <1>4, <1>6, <1>10, <1>14, <1>17 DEF Inv

(* Every reachable state of the page, its requests and the stored graphs     *)
(* satisfies the inductive invariant.                                        *)
THEOREM Invariant == Spec => []Inv
<1>1. Inv /\ [Next]_vars => Inv'
  BY NextStep, StutterStep
<1> QED
  BY InitIs, <1>1, PTL DEF Spec

(* The state of useGraphEditor, of the caches and of the stored graphs keeps *)
(* to its types, and no more requests are on the wire than the bound allows. *)
THEOREM Typed == Spec => []TypeOK
<1>1. Inv => TypeOK
  BY DEF Inv
<1> QED
  BY <1>1, Invariant, PTL

(* The save state "saved" is shown only over what was stored for the graph   *)
(* on the canvas (doSave's checks of graph, generation, version), at one     *)
(* time or mixed of two by an answer of graph/detail whose edges and nodes   *)
(* were read around a save (GetGraphDetail).                                 *)
THEOREM SavedIsTrue == Spec => []SavedWasStored
<1>1. Inv => SavedWasStored
  BY DEF Inv, EditorFits, SavedWasStored, Mixes
<1> QED
  BY <1>1, Invariant, PTL

(* Autosave, switching, dialogs and late answers never store in one graph    *)
(* what was done to another (doSave captures the graph with its content).    *)
THEOREM GraphsApart == Spec => []GraphsStayApart
<1>1. Inv => GraphsStayApart
  BY DEF Inv, StoreFits, GraphsStayApart
<1> QED
  BY <1>1, Invariant, PTL

-----------------------------------------------------------------------------
(* Unsaved edits. *)

(* Nothing unsaved is taken off the canvas. *)
Keeps(ed, ed2) == ed.dirty /\ ed2.key = ed.key => ed.local \subseteq ed2.local

LEMMA RenderedKeeps ==
    ASSUME NEW ed \in Editors, NEW k, NEW old, NEW new
    PROVE  Keeps(ed, Rendered(ed, k, old, new))
<1>1. CASE ed.key # k
  BY <1>1 DEF Rendered, Keeps
<1>2. CASE ed.key = k /\ ed.dirty
  BY <1>2 DEF Rendered, Keeps
<1>3. CASE ~ed.dirty
  BY <1>3 DEF Keeps
<1> QED
  BY <1>1, <1>2, <1>3

LEMMA RenderKeeps ==
    ASSUME NEW ed \in Editors, NEW sel, NEW graphs, Render(ed, sel, graphs)
    PROVE  Keeps(ed, editor')
  BY RenderedKeeps DEF Render

LEMMA EditorKeeps ==
    ASSUME NEW ed \in Editors
    PROVE  /\ Keeps(ed, ed) /\ Keeps(ed, Reset(ed)) /\ Keeps(ed, Flushed(ed))
           /\ Flushed(ed).key = ed.key /\ Flushed(ed).local = ed.local
           /\ Flushed(ed).dirty = ed.dirty /\ Flushed(ed) \in Editors
<1>1. /\ Flushed(ed).key = ed.key /\ Flushed(ed).local = ed.local
      /\ Flushed(ed).dirty = ed.dirty /\ Flushed(ed) \in Editors
  BY DEF Flushed, Editors
<1>2. Reset(ed).local = ed.local
  BY DEF Reset, Editors
<1> QED
  BY <1>1, <1>2 DEF Keeps

LEMMA NextKeeps == ASSUME Inv, Next PROVE Keeps(editor, editor')
<1>1. editor \in Editors
  BY Parts DEF EditorIs
<1>2. ASSUME NEW e \in Edits, Edit(e) PROVE Keeps(editor, editor')
  <2>1. editor'.local = editor.local \cup {e}
    BY <1>1, <1>2 DEF Edit, Editors
  <2> QED
    BY <2>1 DEF Keeps
<1>3. ASSUME SaveNow PROVE Keeps(editor, editor')
  <2> DEFINE v == editor.version + 1
             ed == [editor EXCEPT !.dirty = TRUE, !.version = v]
  <2>1. editor' = Flushed(ed) /\ v \in Nat
    BY <1>1, <1>3 DEF SaveNow, Editors
  <2> HIDE DEF v
  <2>2. ed \in Editors /\ ed.local = editor.local
    BY <1>1, <2>1 DEF Editors
  <2> HIDE DEF ed
  <2>3. Flushed(ed).local = editor.local
    BY <2>2, EditorKeeps
  <2> QED
    BY <2>1, <2>3 DEF Keeps
<1>4. ASSUME NEW g \in Graphs, Select(g) PROVE Keeps(editor, editor')
  <2>1. Keeps(Flushed(editor), editor')
    BY <1>1, <1>4, EditorKeeps, RenderKeeps DEF Select
  <2> QED
    BY <1>1, <2>1, EditorKeeps DEF Keeps
<1>5. ASSUME AutoSave \/ StartNodes \/ CopyGraph PROVE editor' = Flushed(editor)
  BY <1>5 DEF AutoSave, StartNodes, CopyGraph, FlushThen
<1>6. ASSUME ListAnswered \/ \E g \in Graphs : FollowLink(g) PROVE Keeps(editor, editor')
  BY <1>1, <1>6, RenderKeeps DEF ListAnswered, FollowLink
<1>7. ASSUME NEW i \in DOMAIN wire, Answer(i) PROVE Keeps(editor, editor')
  <2>1. ASSUME AnswerSave(i) PROVE Keeps(editor, editor')
    <3>1. editor' = SaveAnswered(wire[i])
      BY <2>1 DEF AnswerSave
    <3>2. SaveAnswered(wire[i]).local = editor.local
      BY <1>1 DEF SaveAnswered, Editors
    <3> QED
      BY <3>1, <3>2 DEF Keeps
  <2>2. ASSUME AnswerQuick(i) PROVE editor' \in {editor, Reset(editor)}
    BY <2>2 DEF AnswerQuick
  <2>3. ASSUME NEW g, Open(g) PROVE Keeps(editor, editor')
    BY <1>1, <2>3, RenderKeeps DEF Open
  <2>4. ASSUME AnswerCreate(i) \/ AnswerFill(i) \/ AnswerDelete(i)
        PROVE  editor' = editor \/ \E g : Open(g)
    BY <2>4 DEF AnswerCreate, AnswerFill, AnswerDelete
  <2>5. ASSUME AnswerAdvanced(i) \/ AnswerStart(i) PROVE editor' = editor
    BY <2>5 DEF AnswerAdvanced, AnswerStart
  <2> QED
    BY <1>1, <1>7, <2>1, <2>2, <2>3, <2>4, <2>5, EditorKeeps DEF Answer
<1>8. ASSUME NEW g \in Graphs, DetailArrives(g) PROVE Keeps(editor, editor')
  BY <1>1, <1>8, RenderedKeeps, EditorKeeps DEF DetailArrives
<1>9. ASSUME \/ CreateGraph \/ DeleteGraph \/ SaveAdvanced \/ \E e \in Edits : QuickConfig(e)
             \/ \E i \in DOMAIN wire : Fail(i) \/ \E g \in Graphs : Serve(i, g)
             \/ \E g \in Graphs : DetailRead(g) \/ DetailNodes(g) \/ DetailFails(g) \/ Collect(g)
      PROVE  editor' = editor
  BY <1>9 DEF CreateGraph, DeleteGraph, SaveAdvanced, Ask, QuickConfig, Fail, Serve,
              DetailRead, DetailNodes, DetailFails, Collect
<1> QED
  BY <1>1, <1>2, <1>3, <1>4, <1>5, <1>6, <1>7, <1>8, <1>9, EditorKeeps DEF Next

(* The effect that takes over the server's graph leaves a dirty canvas of    *)
(* the same graph with every edit it has.                                    *)
THEOREM RefreshKeeps == Spec => RefreshKeepsUnsaved
<1>1. Inv /\ [Next]_vars => [editor.dirty /\ editor'.key = editor.key
                                 => editor.local \subseteq editor'.local]_vars
  BY NextKeeps DEF Keeps
<1> QED
  BY <1>1, Invariant, PTL DEF Spec, RefreshKeepsUnsaved

-----------------------------------------------------------------------------
(* No edit is lost.                                                          *)
(*                                                                           *)
(* The invariant below says where an edit is after every step.  Like the     *)
(* first one its parts take the state they are about as arguments: sf is     *)
(* what of each graph is stored or was given up, ri the graphs that are left *)
(* out.  Both only grow.                                                     *)

Safe(st, gi) == [g \in Graphs |-> st[g] \cup gi]
Grows(sf, ri, sf2, ri2) == ri \subseteq ri2 /\ \A g \in Graphs \ ri2 : sf[g] \subseteq sf2[g]

(* The writes that carry the canvas, which a template's does not. *)
Wholes == Writes \ {"quick"}

(* What was served is safe, and so is what a run or a clean canvas rests on. *)
(* The content of a save that may still be answered to this visit is on the  *)
(* canvas, or safe.                                                          *)
Stands(r, ed, sf, ri) ==
    r.graph \in Graphs \ ri =>
        /\ r.kind \in Writes /\ r.state \in {"done", "lost"} => r.content \subseteq sf[r.graph]
        /\ r.kind = "start" /\ r.saved => r.content \subseteq sf[r.graph]
        /\ r.kind = "save" => r.generation <= ed.generation /\ r.version <= ed.version
        /\ r.kind = "save" /\ r.graph = ed.key /\ r.generation = ed.generation =>
               r.content \subseteq sf[r.graph] \cup ed.local
        /\ r.kind = "save" /\ r.graph = ed.key /\ r.version = ed.version =>
               r.content = ed.local \/ ed.local \subseteq sf[r.graph]

(* A write that is still to be served has all that is stored, *)
Builds(r, st, ri) ==
    r.kind \in Wholes /\ r.state = "sent" /\ r.graph \in Graphs \ ri => st[r.graph] \subseteq r.content

(* and all that was sent before it. *)
InOrder(w, ri) ==
    \A j, k \in DOMAIN w :
        j < k /\ w[j].kind \in Writes /\ w[k].kind \in Wholes
              /\ w[j].graph = w[k].graph /\ w[k].graph \in Graphs \ ri
            => w[j].content \subseteq w[k].content

(* Every edit of a graph is safe, on its canvas, or on the wire. *)
Somewhere(e, g, w, ed, sf) ==
    \/ e \in sf[g]
    \/ ed.key = g /\ e \in ed.local
    \/ \E j \in DOMAIN w : w[j].kind \in {"save", "quick"} /\ w[j].graph = g /\ e \in w[j].content
Accounted(w, ed, md, sf, ri) == \A g \in Graphs \ ri : \A e \in md[g] : Somewhere(e, g, w, ed, sf)

Wired(w, ed, md, sf, st, ri) ==
    /\ \A j \in DOMAIN w : Stands(w[j], ed, sf, ri) /\ Builds(w[j], st, ri)
    /\ InOrder(w, ri)
    /\ Accounted(w, ed, md, sf, ri)

(* A canvas without unsaved edits is safe, and "saved" means there are none. *)
EditorStands(ed, sf, ri) ==
    /\ ed.saveState = "saved" => ~ed.dirty
    /\ ed.key \in Graphs \ ri /\ ~ed.dirty => ed.local \subseteq sf[ed.key]

(* What the cache shows, or is about to show, is safe. *)
CacheStands(dt, ft, sf, ri) ==
    \A g \in Graphs \ ri :
        /\ UNION dt[g] \subseteq sf[g]
        /\ ft[g].state \in {"half", "read"} => ft[g].content \subseteq sf[g]

RunsStand(rs, gi, ri) == \A r \in rs : r.saved /\ r.graph \notin ri => r.wanted \subseteq r.used \cup gi

Survival ==
    /\ Wired(wire, editor, made, Safe(stored, given), stored, risky)
    /\ EditorStands(editor, Safe(stored, given), risky)
    /\ CacheStands(detail, fetch, Safe(stored, given), risky)
    /\ RunsStand(runs, given, risky)

-----------------------------------------------------------------------------
(* Each part while the rest moves on. *)

(* More is stored or given up, or fewer graphs are looked at. *)
LEMMA WiredGrows ==
    ASSUME NEW w, NEW ed, NEW md, NEW sf, NEW st, NEW ri, NEW sf2, NEW ri2,
           Wired(w, ed, md, sf, st, ri), Grows(sf, ri, sf2, ri2)
    PROVE  Wired(w, ed, md, sf2, st, ri2)
<1>1. ASSUME NEW j \in DOMAIN w PROVE Stands(w[j], ed, sf2, ri2) /\ Builds(w[j], st, ri2)
  <2>1. Stands(w[j], ed, sf, ri) /\ Builds(w[j], st, ri)
    BY DEF Wired
  <2>2. w[j].graph \in Graphs \ ri2 => w[j].graph \in Graphs \ ri /\ sf[w[j].graph] \subseteq sf2[w[j].graph]
    BY DEF Grows
  <2>3. Stands(w[j], ed, sf2, ri2)
    BY <2>1, <2>2 DEF Stands
  <2>4. Builds(w[j], st, ri2)
    BY <2>1, <2>2 DEF Builds
  <2> QED
    BY <2>3, <2>4
<1>2. InOrder(w, ri2)
  BY DEF Wired, Grows, InOrder
<1>3. Accounted(w, ed, md, sf2, ri2)
  BY DEF Wired, Grows, Accounted, Somewhere
<1> QED
  BY <1>1, <1>2, <1>3 DEF Wired

LEMMA OthersGrow ==
    ASSUME NEW ed, NEW sf, NEW ri, NEW sf2, NEW ri2, NEW dt, NEW ft, Grows(sf, ri, sf2, ri2)
    PROVE  /\ EditorStands(ed, sf, ri) => EditorStands(ed, sf2, ri2)
           /\ CacheStands(dt, ft, sf, ri) => CacheStands(dt, ft, sf2, ri2)
<1>1. EditorStands(ed, sf, ri) => EditorStands(ed, sf2, ri2)
  BY DEF Grows, EditorStands
<1>2. ASSUME CacheStands(dt, ft, sf, ri), NEW g \in Graphs \ ri2
      PROVE  UNION dt[g] \subseteq sf2[g] /\ (ft[g].state \in {"half", "read"} => ft[g].content \subseteq sf2[g])
  <2>1. g \in Graphs \ ri /\ sf[g] \subseteq sf2[g]
    BY DEF Grows
  <2>2. UNION dt[g] \subseteq sf[g] /\ (ft[g].state \in {"half", "read"} => ft[g].content \subseteq sf[g])
    BY <1>2, <2>1 DEF CacheStands
  <2> QED
    BY <2>1, <2>2
<1> QED
  BY <1>1, <1>2 DEF CacheStands

(* The canvas moves: within a visit it keeps what is not safe, within a      *)
(* version it changes to nothing but what is, and what it drops is           *)
(* somewhere.                                                                *)
Goes(ed, ed2, w, sf, ri) ==
    /\ ed2.version >= ed.version /\ ed2.generation >= ed.generation
    /\ ed2.version = ed.version \/ ed2.generation = ed.generation => ed2.key = ed.key
    /\ ed.key \in Graphs \ ri =>
        /\ ed2.generation = ed.generation => ed.local \subseteq sf[ed.key] \cup ed2.local
        /\ ed2.version = ed.version => ed2.local = ed.local \/ ed2.local \subseteq sf[ed.key]
        /\ \A e \in ed.local : Somewhere(e, ed.key, w, ed2, sf)

LEMMA StandsGoes ==
    ASSUME NEW r \in Request, NEW ed \in Editors, NEW ed2 \in Editors, NEW w, NEW sf, NEW ri,
           Stands(r, ed, sf, ri), Goes(ed, ed2, w, sf, ri)
    PROVE  Stands(r, ed2, sf, ri)
<1> SUFFICES ASSUME r.graph \in Graphs \ ri PROVE Stands(r, ed2, sf, ri)
  BY DEF Stands
<1>1. /\ r.generation \in Nat /\ r.version \in Nat /\ ed.generation \in Nat /\ ed.version \in Nat
      /\ ed2.generation \in Nat /\ ed2.version \in Nat
  BY DEF Request, Editors
<1>2. r.kind = "save" => r.generation <= ed2.generation /\ r.version <= ed2.version
  BY <1>1 DEF Stands, Goes
<1>3. ASSUME r.kind = "save", r.graph = ed2.key, r.generation = ed2.generation
      PROVE  r.content \subseteq sf[r.graph] \cup ed2.local
  <2>1. ed2.generation = ed.generation /\ r.generation = ed.generation
    BY <1>1, <1>3 DEF Stands, Goes
  <2>2. r.graph = ed.key
    BY <1>3, <2>1 DEF Goes
  <2>3. r.content \subseteq sf[r.graph] \cup ed.local
    BY <1>3, <2>1, <2>2 DEF Stands
  <2>4. ed.local \subseteq sf[ed.key] \cup ed2.local
    BY <2>1, <2>2 DEF Goes
  <2> QED
    BY <2>2, <2>3, <2>4
<1>4. ASSUME r.kind = "save", r.graph = ed2.key, r.version = ed2.version
      PROVE  r.content = ed2.local \/ ed2.local \subseteq sf[r.graph]
  <2>1. ed2.version = ed.version /\ r.version = ed.version
    BY <1>1, <1>4 DEF Stands, Goes
  <2>2. r.graph = ed.key
    BY <1>4, <2>1 DEF Goes
  <2>3. r.content = ed.local \/ ed.local \subseteq sf[r.graph]
    BY <1>4, <2>1, <2>2 DEF Stands
  <2>4. ed2.local = ed.local \/ ed2.local \subseteq sf[ed.key]
    BY <2>1, <2>2 DEF Goes
  <2> QED
    BY <2>2, <2>3, <2>4
<1> QED
  BY <1>2, <1>3, <1>4 DEF Stands

LEMMA WiredGoes ==
    ASSUME NEW w \in Seq(Request), NEW ed \in Editors, NEW ed2 \in Editors,
           NEW md, NEW sf, NEW st, NEW ri,
           Wired(w, ed, md, sf, st, ri), Goes(ed, ed2, w, sf, ri)
    PROVE  Wired(w, ed2, md, sf, st, ri)
<1>1. ASSUME NEW j \in DOMAIN w PROVE Stands(w[j], ed2, sf, ri) /\ Builds(w[j], st, ri)
  <2>1. w[j] \in Request /\ Stands(w[j], ed, sf, ri) /\ Builds(w[j], st, ri)
    BY DEF Wired
  <2> QED
    BY <2>1, StandsGoes
<1>2. ASSUME NEW g \in Graphs \ ri, NEW e \in md[g] PROVE Somewhere(e, g, w, ed2, sf)
  <2>1. Somewhere(e, g, w, ed, sf)
    BY DEF Wired, Accounted
  <2>2. CASE ed.key = g /\ e \in ed.local
    BY <2>2 DEF Goes
  <2> QED
    BY <2>1, <2>2 DEF Somewhere
<1> QED
  BY <1>1, <1>2 DEF Wired, Accounted

LEMMA WiredAdds ==
    ASSUME NEW w \in Seq(Request), NEW ed, NEW md, NEW sf, NEW st, NEW ri,
           Wired(w, ed, md, sf, st, ri),
           NEW r \in Request, Stands(r, ed, sf, ri), Builds(r, st, ri),
           r.kind \in Wholes /\ r.graph \in Graphs \ ri =>
               \A j \in DOMAIN w : w[j].kind \in Writes /\ w[j].graph = r.graph
                                       => w[j].content \subseteq r.content
    PROVE  Wired(Append(w, r), ed, md, sf, st, ri)
<1> DEFINE x == Append(w, r)
           n == Len(w) + 1
<1>1. /\ DOMAIN x = 1 .. n /\ DOMAIN w = 1 .. Len(w) /\ x[n] = r /\ n \in Nat
      /\ \A j \in DOMAIN w : x[j] = w[j] /\ j \in DOMAIN x /\ j < n
      /\ \A j \in DOMAIN x : j \in DOMAIN w \/ j = n
  <2>1. x \in Seq(Request) /\ Len(x) = n /\ \A j \in 1 .. Len(w) : x[j] = w[j]
    BY AppendProperties
  <2>2. x[n] = r
    BY AppendProperties
  <2> QED
    BY <2>1, <2>2
<1> HIDE DEF x, n
<1>2. \A j \in DOMAIN x : Stands(x[j], ed, sf, ri) /\ Builds(x[j], st, ri)
  BY <1>1 DEF Wired
<1>3. ASSUME NEW j \in DOMAIN x, NEW k \in DOMAIN x, j < k, x[j].kind \in Writes,
             x[k].kind \in Wholes, x[j].graph = x[k].graph, x[k].graph \in Graphs \ ri
      PROVE  x[j].content \subseteq x[k].content
  <2>1. j \in DOMAIN w
    BY <1>1, <1>3
  <2>2. CASE k \in DOMAIN w
    BY <1>1, <1>3, <2>1, <2>2 DEF Wired, InOrder
  <2>3. CASE k = n
    BY <1>1, <1>3, <2>1, <2>3
  <2> QED
    BY <1>1, <2>2, <2>3
<1>4. Accounted(x, ed, md, sf, ri)
  BY <1>1 DEF Wired, Accounted, Somewhere
<1> QED
  BY <1>2, <1>3, <1>4 DEF Wired, InOrder, x

LEMMA WiredDrops ==
    ASSUME NEW w \in Seq(Request), NEW ed, NEW md, NEW sf, NEW st, NEW ri,
           Wired(w, ed, md, sf, st, ri), NEW i \in DOMAIN w,
           w[i].kind \in {"save", "quick"} /\ w[i].graph \in Graphs \ ri =>
               \A e \in w[i].content : e \in sf[w[i].graph] \/ (ed.key = w[i].graph /\ e \in ed.local)
    PROVE  Wired(RemoveAt(w, i), ed, md, sf, st, ri)
<1> DEFINE x == RemoveAt(w, i)
           Was(j) == IF j < i THEN j ELSE j + 1
<1>1. DOMAIN x = 1 .. Len(w) - 1 /\ \A j \in 1 .. Len(w) - 1 : x[j] = w[Was(j)]
  BY Removed
<1> HIDE DEF x
<1>2. DOMAIN w = 1 .. Len(w) /\ Len(w) \in Nat /\ i \in 1 .. Len(w)
  OBVIOUS
<1>3. /\ \A j \in DOMAIN x : Was(j) \in DOMAIN w
      /\ \A j, k \in DOMAIN x : j < k => Was(j) < Was(k)
      /\ \A k \in DOMAIN w : k # i => \E j \in DOMAIN x : Was(j) = k
  <2>1. ASSUME NEW k \in DOMAIN w, k # i PROVE \E j \in DOMAIN x : Was(j) = k
    <3>1. CASE k < i
      BY <1>1, <1>2, <3>1
    <3>2. CASE ~(k < i)
      <4>1. k - 1 \in DOMAIN x /\ Was(k - 1) = k
        BY <1>1, <1>2, <2>1, <3>2
      <4> QED
        BY <4>1
    <3> QED
      BY <3>1, <3>2
  <2>2. \A j \in DOMAIN x : Was(j) \in DOMAIN w
    BY <1>1, <1>2
  <2>3. \A j, k \in DOMAIN x : j < k => Was(j) < Was(k)
    BY <1>1, <1>2
  <2> QED
    BY <2>1, <2>2, <2>3
<1> HIDE DEF Was
<1>4. \A j \in DOMAIN x : Stands(x[j], ed, sf, ri) /\ Builds(x[j], st, ri)
  BY <1>1, <1>3 DEF Wired
<1>5. InOrder(x, ri)
  BY <1>1, <1>3 DEF Wired, InOrder
<1>6. ASSUME NEW g \in Graphs \ ri, NEW e \in md[g] PROVE Somewhere(e, g, x, ed, sf)
  <2>1. Somewhere(e, g, w, ed, sf)
    BY DEF Wired, Accounted
  <2>2. ASSUME NEW k \in DOMAIN w, w[k].kind \in {"save", "quick"}, w[k].graph = g, e \in w[k].content
        PROVE  Somewhere(e, g, x, ed, sf)
    <3>1. CASE k = i
      BY <2>2, <3>1 DEF Somewhere
    <3>2. CASE k # i
      BY <1>1, <1>3, <2>2, <3>2 DEF Somewhere
    <3> QED
      BY <3>1, <3>2
  <2> QED
    BY <2>1, <2>2 DEF Somewhere
<1> QED
  BY <1>4, <1>5, <1>6 DEF Wired, Accounted, x

(* A request comes to another state; what it writes and where it stays. *)
LEMMA WiredSets ==
    ASSUME NEW w \in Seq(Request), NEW ed, NEW md, NEW sf, NEW st, NEW ri,
           Wired(w, ed, md, sf, st, ri), NEW i \in DOMAIN w,
           NEW q \in Request, Stands(q, ed, sf, ri), Builds(q, st, ri), q.kind = w[i].kind,
           q.kind \in Writes => q.graph = w[i].graph /\ q.content = w[i].content
    PROVE  Wired([w EXCEPT ![i] = q], ed, md, sf, st, ri)
<1> DEFINE x == [w EXCEPT ![i] = q]
<1>1. DOMAIN x = DOMAIN w /\ \A j \in DOMAIN w : x[j] = IF j = i THEN q ELSE w[j]
  OBVIOUS
<1> HIDE DEF x
<1>2. \A j \in DOMAIN w : /\ x[j].kind = w[j].kind
                          /\ x[j].kind \in Writes => x[j].graph = w[j].graph /\ x[j].content = w[j].content
  BY <1>1
<1>3. \A j \in DOMAIN x : Stands(x[j], ed, sf, ri) /\ Builds(x[j], st, ri)
  BY <1>1 DEF Wired
<1>4. InOrder(x, ri)
  BY <1>1, <1>2 DEF Wired, InOrder, Wholes
<1>5. Accounted(x, ed, md, sf, ri)
  BY <1>1, <1>2 DEF Wired, Accounted, Somewhere, Writes
<1> QED
  BY <1>3, <1>4, <1>5 DEF Wired, x

-----------------------------------------------------------------------------
(* The requests the page sends, and what it knows of those it has sent. *)

LEMMA SaveFields ==
    ASSUME NEW ed \in Editors, ed.key \in Graphs, NEW next \in Nexts
    PROVE  LET r == Save(ed, next)
           IN  /\ r \in Request /\ r.kind = "save" /\ r.state = "sent" /\ r.graph = ed.key
               /\ r.content = ed.local /\ r.version = ed.version /\ r.generation = ed.generation
<1> DEFINE r == Save(ed, next)
           a == Call("save", ed.key)
<1>1. a \in Request /\ a.kind = "save" /\ a.graph = ed.key /\ a.state = "sent"
  BY CallIs DEF Kinds, Writes
<1>2. r = [a EXCEPT !.content = ed.local, !.version = ed.version,
                       !.generation = ed.generation, !.next = next]
  BY DEF Save
<1> HIDE DEF a, r
<1>3. /\ r \in Request /\ r.kind = "save" /\ r.graph = ed.key /\ r.state = "sent"
      /\ r.content = ed.local /\ r.version = ed.version /\ r.generation = ed.generation
  BY <1>1, <1>2 DEF Request, Editors, Nexts
<1> QED
  BY <1>3 DEF r

LEMMA StartFields ==
    ASSUME NEW g \in Graphs, NEW wanted \in Content, NEW ok \in BOOLEAN
    PROVE  LET r == Start(g, wanted, ok)
           IN  /\ r \in Request /\ r.kind = "start" /\ r.graph = g
               /\ r.content = wanted /\ r.saved = ok
<1> DEFINE r == Start(g, wanted, ok)
           a == Call("start", g)
<1>1. a \in Request /\ a.kind = "start" /\ a.graph = g
  BY CallIs DEF Kinds
<1>2. r = [a EXCEPT !.content = wanted, !.saved = ok]
  BY DEF Start
<1> HIDE DEF a, r
<1>3. r \in Request /\ r.kind = "start" /\ r.graph = g /\ r.content = wanted /\ r.saved = ok
  BY <1>1, <1>2 DEF Request
<1> QED
  BY <1>3 DEF r

LEMMA CreateFields ==
    ASSUME NEW g \in Graphs \cup {NoGraph}, editor' \in Editors
    PROVE  Create(g) \in Request /\ Create(g).kind = "create"
<1> DEFINE a == Call("create", NoGraph)
           r == [a EXCEPT !.from = g, !.content = editor'.local, !.next = "fill"]
<1>1. a \in Request /\ a.kind = "create"
  BY CallIs DEF Kinds
<1>2. Create(g) = r
  BY DEF Create
<1> HIDE DEF a
<1>3. r \in Request /\ r.kind = "create"
  BY <1>1 DEF Request, Editors
<1> QED
  BY <1>2, <1>3

(* Creating and deleting carry no canvas. *)
LEMMA OthersStand ==
    ASSUME NEW r, r.kind \in {"create", "delete"}, NEW ed, NEW sf, NEW st, NEW ri
    PROVE  Stands(r, ed, sf, ri) /\ Builds(r, st, ri) /\ r.kind \notin Wholes
<1>1. r.kind \notin Writes /\ r.kind # "start" /\ r.kind # "save" /\ r.kind \notin Wholes
  BY DEF Writes, Wholes
<1> QED
  BY <1>1 DEF Stands, Builds

(* A save may be sent when the canvas has all that is stored and sent. *)
LEMMA WiredSaves ==
    ASSUME NEW w \in Seq(Request), NEW ed \in Editors, ed.key \in Graphs, NEW next \in Nexts,
           NEW md, NEW sf, NEW st, NEW ri, Wired(w, ed, md, sf, st, ri),
           ed.key \notin ri =>
               /\ st[ed.key] \subseteq ed.local
               /\ \A j \in DOMAIN w : w[j].kind \in Writes /\ w[j].graph = ed.key
                                          => w[j].content \subseteq ed.local
    PROVE  Wired(Append(w, Save(ed, next)), ed, md, sf, st, ri)
<1> DEFINE r == Save(ed, next)
<1>1. /\ r \in Request /\ r.kind = "save" /\ r.state = "sent" /\ r.graph = ed.key
      /\ r.content = ed.local /\ r.version = ed.version /\ r.generation = ed.generation
  BY SaveFields
<1> HIDE DEF r
<1>2. Stands(r, ed, sf, ri)
  BY <1>1 DEF Stands, Editors
<1>3. Builds(r, st, ri)
  BY <1>1 DEF Builds
<1> QED
  BY <1>1, <1>2, <1>3, WiredAdds DEF r

LEMMA BehindIs ==
    ASSUME NEW g, NEW content, ~Behind(g, content)
    PROVE  /\ stored[g] \subseteq content
           /\ \A j \in DOMAIN wire : wire[j].kind \in Writes /\ wire[j].graph = g
                                         => wire[j].content \subseteq content
<1>1. (stored[g] \cup OnWire(g)) \subseteq content
  BY DEF Behind
<1>2. ASSUME NEW j \in DOMAIN wire, wire[j].kind \in Writes, wire[j].graph = g
      PROVE  wire[j].content \subseteq OnWire(g)
  BY <1>2 DEF OnWire, Pending
<1> QED
  BY <1>1, <1>2

LEMMA RiskedBehind ==
    ASSUME NEW sends
    PROVE  /\ risky \subseteq Risked(sends)
           /\ sends /\ editor.key \notin Risked(sends) => ~Behind(editor.key, editor.local)
  BY DEF Risked

-----------------------------------------------------------------------------
(* Steps that give up more, and store nothing. *)

LEMMA NowIs ==
    ASSUME Inv
    PROVE  /\ editor \in Editors /\ wire \in Seq(Request) /\ given \in Content
           /\ risky \in SUBSET Graphs /\ stored \in [Graphs -> Content]
           /\ made \in [Graphs -> Content]
  BY DEF Inv, TypeOK, Editors
LEMMA ThenIs ==
    ASSUME Inv'
    PROVE  editor' \in Editors /\ wire' \in Seq(Request)
  BY DEF Inv, TypeOK, Editors

LEMMA SafeIs ==
    ASSUME NEW st, NEW gi, NEW g \in Graphs
    PROVE  Safe(st, gi)[g] = st[g] \cup gi
  BY DEF Safe

LEMMA RunsGrow ==
    ASSUME RunsStand(runs, given, risky), risky \subseteq risky', given \subseteq given'
    PROVE  RunsStand(runs, given', risky')
  BY DEF RunsStand

LEMMA Wider ==
    ASSUME Survival, risky \subseteq risky', given \subseteq given', stored' = stored
    PROVE  /\ Wired(wire, editor, made, Safe(stored', given'), stored', risky')
           /\ EditorStands(editor, Safe(stored', given'), risky')
           /\ CacheStands(detail, fetch, Safe(stored', given'), risky')
           /\ RunsStand(runs, given', risky')
<1>1. Grows(Safe(stored, given), risky, Safe(stored', given'), risky')
  BY SafeIs DEF Grows
<1> QED
  BY <1>1, WiredGrows, OthersGrow, RunsGrow DEF Survival

(* The canvas keeps graph, visit and content. *)
LEMMA GoesAlong ==
    ASSUME NEW ed \in Editors, NEW ed2, NEW w, NEW sf, NEW ri,
           ed2.key = ed.key, ed2.local = ed.local, ed2.generation = ed.generation,
           ed2.version >= ed.version
    PROVE  Goes(ed, ed2, w, sf, ri)
<1>1. ed.generation >= ed.generation
  BY DEF Editors
<1> QED
  BY <1>1 DEF Goes, Somewhere

LEMMA FlushedFields ==
    ASSUME NEW ed \in Editors
    PROVE  LET e == Flushed(ed)
           IN  /\ e \in Editors /\ e.key = ed.key /\ e.local = ed.local /\ e.dirty = ed.dirty
               /\ e.version = ed.version /\ e.generation = ed.generation
               /\ e.saveState = IF ed.dirty THEN "saving" ELSE ed.saveState
  BY DEF Flushed, Editors

LEMMA FlushedStands ==
    ASSUME NEW ed \in Editors, NEW w, NEW sf, NEW ri, ed.dirty \/ EditorStands(ed, sf, ri)
    PROVE  Goes(ed, Flushed(ed), w, sf, ri) /\ EditorStands(Flushed(ed), sf, ri)
<1> DEFINE e == Flushed(ed)
<1>1. /\ e \in Editors /\ e.key = ed.key /\ e.local = ed.local /\ e.dirty = ed.dirty
      /\ e.version = ed.version /\ e.generation = ed.generation
      /\ e.saveState = IF ed.dirty THEN "saving" ELSE ed.saveState
  BY FlushedFields
<1> HIDE DEF e
<1>2. e.version >= ed.version
  BY <1>1 DEF Editors
<1>3. Goes(ed, e, w, sf, ri)
  BY <1>1, <1>2, GoesAlong
<1>4. EditorStands(e, sf, ri)
  BY <1>1 DEF EditorStands
<1> QED
  BY <1>3, <1>4 DEF e

(* What a flush sends, and where that leaves the canvas. *)
LEMMA FlushStands ==
    ASSUME Inv, Survival, NEW next \in Nexts,
           risky' = Risked(editor.dirty), given' = given, stored' = stored
    PROVE  LET sf == Safe(stored', given')
           IN  /\ Wired(Flush(next), editor, made, sf, stored', risky')
               /\ editor.key \in Graphs \ risky' =>
                      \A ed, e : e \in editor.local => Somewhere(e, editor.key, Flush(next), ed, sf)
<1> DEFINE sf == Safe(stored', given')
           r == Save(editor, next)
<1>1. /\ Wired(wire, editor, made, sf, stored', risky') /\ EditorStands(editor, sf, risky')
      /\ editor \in Editors /\ wire \in Seq(Request)
  BY NowIs, Wider, RiskedBehind
<1> HIDE DEF sf
<1>2. CASE editor.dirty
  <2>1. editor.key \in Graphs /\ Flush(next) = Append(wire, r)
    BY <1>2, DirtyIs DEF Flush
  <2>2. editor.key \notin risky' =>
            /\ stored'[editor.key] \subseteq editor.local
            /\ \A j \in DOMAIN wire : wire[j].kind \in Writes /\ wire[j].graph = editor.key
                                          => wire[j].content \subseteq editor.local
    BY <1>2, RiskedBehind, BehindIs
  <2>3. Wired(Append(wire, r), editor, made, sf, stored', risky')
    BY <1>1, <2>1, <2>2, WiredSaves
  <2>4. r \in Request /\ r.kind = "save" /\ r.graph = editor.key /\ r.content = editor.local
    BY <1>1, <2>1, SaveFields
  <2> HIDE DEF r
  <2>5. /\ Append(wire, r)[Len(wire) + 1] = r /\ Len(wire) + 1 \in DOMAIN Append(wire, r)
    BY <1>1, <2>4, AppendProperties
  <2>6. ASSUME NEW ed, NEW e, e \in editor.local
        PROVE  Somewhere(e, editor.key, Append(wire, r), ed, sf)
    BY <2>4, <2>5, <2>6 DEF Somewhere
  <2> QED
    BY <2>1, <2>3, <2>6 DEF sf
<1>3. CASE ~editor.dirty
  <2>1. Flush(next) = wire
    BY <1>3 DEF Flush
  <2>2. ASSUME editor.key \in Graphs \ risky', NEW ed, NEW e, e \in editor.local
        PROVE  Somewhere(e, editor.key, wire, ed, sf)
    BY <1>1, <1>3, <2>2 DEF EditorStands, Somewhere
  <2> QED
    BY <1>1, <2>1, <2>2 DEF sf
<1> QED
  BY <1>2, <1>3

(* Leaving the canvas gives up what is unsaved on it. *)
LEMMA UnsavedSafe ==
    ASSUME Inv, Survival, risky \subseteq risky', given \cup Unsaved \subseteq given', stored' = stored
    PROVE  editor.key \in Graphs \ risky' => editor.local \subseteq Safe(stored', given')[editor.key]
<1> SUFFICES ASSUME editor.key \in Graphs \ risky'
             PROVE  editor.local \subseteq stored[editor.key] \cup given'
  BY SafeIs
<1>1. CASE editor.dirty
  BY <1>1 DEF Unsaved
<1>2. CASE ~editor.dirty
  BY <1>2, SafeIs DEF Survival, EditorStands
<1> QED
  BY <1>1, <1>2

LEMMA RenderedStands ==
    ASSUME NEW ed \in Editors, NEW k, NEW old, NEW new, NEW w, NEW sf, NEW ri,
           EditorStands(ed, sf, ri), k \in Graphs \ ri => UNION new \subseteq sf[k],
           ed.key # k /\ ed.key \in Graphs \ ri =>
               \A e \in ed.local : Somewhere(e, ed.key, w, Rendered(ed, k, old, new), sf)
    PROVE  Goes(ed, Rendered(ed, k, old, new), w, sf, ri) /\ EditorStands(Rendered(ed, k, old, new), sf, ri)
<1> DEFINE u == UNION new
           e2 == Rendered(ed, k, old, new)
<1>1. e2 = IF ed.key # k
           THEN [key |-> k, local |-> u, dirty |-> FALSE, timer |-> FALSE, version |-> ed.version + 1,
                 generation |-> ed.generation + 1, saveState |-> "idle"]
           ELSE IF old # new /\ ~ed.dirty THEN [ed EXCEPT !.local = u] ELSE ed
  BY DEF Rendered
<1>2. k \in Graphs \ ri => u \subseteq sf[k]
  OBVIOUS
<1>3. ed.version \in Nat /\ ed.generation \in Nat
  BY DEF Editors
<1> HIDE DEF u, e2
<1>4. CASE ed.key # k
  <2>1. /\ e2.key = k /\ e2.local = u /\ ~e2.dirty /\ e2.saveState = "idle"
        /\ e2.version = ed.version + 1 /\ e2.generation = ed.generation + 1
    BY <1>1, <1>4
  <2>2. Goes(ed, e2, w, sf, ri)
    BY <1>3, <1>4, <2>1 DEF Goes, e2
  <2> QED
    BY <1>2, <2>1, <2>2 DEF EditorStands, e2
<1>5. CASE ed.key = k /\ old # new /\ ~ed.dirty
  <2>1. /\ e2.key = ed.key /\ e2.local = u /\ e2.dirty = ed.dirty /\ e2.saveState = ed.saveState
        /\ e2.version = ed.version /\ e2.generation = ed.generation
    BY <1>1, <1>5 DEF Editors
  <2>2. ed.key \in Graphs \ ri => ed.local \subseteq sf[ed.key] /\ u \subseteq sf[ed.key]
    BY <1>2, <1>5 DEF EditorStands
  <2>3. Goes(ed, e2, w, sf, ri)
    BY <1>3, <2>1, <2>2 DEF Goes, Somewhere
  <2> QED
    BY <2>1, <2>2, <2>3 DEF EditorStands, e2
<1>6. CASE ed.key = k /\ ~(old # new /\ ~ed.dirty)
  <2>1. e2 = ed /\ ed.version >= ed.version
    BY <1>1, <1>3, <1>6
  <2> QED
    BY <2>1, GoesAlong DEF e2
<1> QED
  BY <1>4, <1>5, <1>6

(* Another graph comes into view, or the same one stays. *)
LEMMA RenderStands ==
    ASSUME Inv, NEW ed \in Editors, NEW sel, NEW graphs \in SUBSET Graphs, Render(ed, sel, graphs),
           NEW w, NEW sf, NEW ri, EditorStands(ed, sf, ri), CacheStands(detail, fetch, sf, ri),
           editor'.key # ed.key /\ ed.key \in Graphs \ ri =>
               \A e \in ed.local : Somewhere(e, ed.key, w, editor', sf)
    PROVE  /\ Goes(ed, editor', w, sf, ri) /\ EditorStands(editor', sf, ri)
           /\ CacheStands(detail, fetch', sf, ri)
<1> DEFINE k == Shown(sel, graphs)
           now == IF k = NoGraph THEN NotLoaded ELSE detail[k]
<1>1. k \in Graphs \cup {NoGraph}
  BY ShownIs
<1>2. editor' = Rendered(ed, k, now, now) /\ fetch' = Refetched(k)
  BY DEF Render
<1> HIDE DEF k
<1>3. k \in Graphs \ ri => UNION now \subseteq sf[k]
  BY <1>1, NoGraphIs DEF CacheStands
<1> HIDE DEF now
<1>4. ed.key # k => editor'.key = k
  BY <1>2 DEF Rendered
<1>5. Goes(ed, editor', w, sf, ri) /\ EditorStands(editor', sf, ri)
  BY <1>2, <1>3, <1>4, RenderedStands
<1>6. CacheStands(detail, fetch', sf, ri)
  BY <1>2, Parts, AskedIs DEF Refetched, CacheStands, CacheIs, Fetches
<1> QED
  BY <1>5, <1>6

-----------------------------------------------------------------------------
(* The steps of the page. *)

LEMMA EditSurvives == ASSUME Inv, Inv', Survival, NEW e \in Edits, Edit(e) PROVE Survival'
<1> DEFINE sf == Safe(stored, given)
<1>1. UNCHANGED <<stored, wire, detail, fetch, given, risky, runs>>
  BY DEF Edit, server, queries
<1>2. /\ editor \in Editors /\ editor' \in Editors /\ wire \in Seq(Request)
      /\ Wired(wire, editor, made, sf, stored, risky) /\ EditorStands(editor, sf, risky)
      /\ made \in [Graphs -> Content]
  BY NowIs, ThenIs DEF Survival
<1> HIDE DEF sf
<1>3. /\ editor'.key = editor.key /\ editor'.local = editor.local \cup {e} /\ editor'.dirty
      /\ editor'.saveState = "dirty" /\ editor'.version = editor.version + 1
      /\ editor'.generation = editor.generation
  BY <1>2 DEF Edit, Editors
<1>4. Goes(editor, editor', wire, sf, risky)
  BY <1>2, <1>3 DEF Goes, Editors, Somewhere
<1>5. Wired(wire, editor', made, sf, stored, risky)
  BY <1>2, <1>4, WiredGoes
<1>6. ASSUME NEW g \in Graphs \ risky, NEW x \in made'[g] PROVE Somewhere(x, g, wire, editor', sf)
  <2>1. made' = [made EXCEPT ![editor.key] = @ \cup {e}]
    BY DEF Edit
  <2>2. x \in made[g] \/ (g = editor.key /\ x = e)
    BY <1>2, <2>1
  <2>3. CASE x \in made[g]
    BY <1>5, <2>3 DEF Wired, Accounted
  <2>4. CASE g = editor.key /\ x = e
    BY <1>3, <2>4 DEF Somewhere
  <2> QED
    BY <2>2, <2>3, <2>4
<1>7. Wired(wire, editor', made', sf, stored, risky)
  BY <1>5, <1>6 DEF Wired, Accounted
<1>8. EditorStands(editor', sf, risky)
  BY <1>3 DEF EditorStands
<1> QED
  BY <1>1, <1>7, <1>8 DEF Survival, sf

LEMMA AutoSaveSurvives == ASSUME Inv, Inv', Survival, AutoSave PROVE Survival'
<1> DEFINE sf == Safe(stored', given')
<1>1. /\ wire' = Flush("nothing") /\ editor' = Flushed(editor) /\ risky' = Risked(editor.dirty)
      /\ UNCHANGED <<stored, detail, fetch, made, given, runs>>
  BY DEF AutoSave, server, queries
<1>2. Wired(wire', editor, made, sf, stored', risky')
  BY <1>1, FlushStands DEF Nexts
<1>3. /\ EditorStands(editor, sf, risky') /\ CacheStands(detail, fetch, sf, risky')
      /\ RunsStand(runs, given', risky')
  BY <1>1, RiskedBehind, Wider
<1> HIDE DEF sf
<1>4. Goes(editor, editor', wire', sf, risky') /\ EditorStands(editor', sf, risky')
  BY <1>1, <1>3, NowIs, FlushedStands
<1>5. Wired(wire', editor', made, sf, stored', risky')
  BY <1>2, <1>4, NowIs, ThenIs, WiredGoes
<1> QED
  BY <1>1, <1>3, <1>4, <1>5 DEF Survival, sf

LEMMA SaveNowSurvives == ASSUME Inv, Inv', Survival, SaveNow PROVE Survival'
<1> DEFINE sf == Safe(stored', given')
           v == editor.version + 1
           ed == [editor EXCEPT !.dirty = TRUE, !.version = v]
<1>1. /\ wire' = Append(wire, Save(ed, "nothing")) /\ editor' = Flushed(ed) /\ risky' = Risked(TRUE)
      /\ UNCHANGED <<stored, detail, fetch, made, given, runs>>
  BY DEF SaveNow, server, queries
<1>2. /\ Wired(wire, editor, made, sf, stored', risky')
      /\ CacheStands(detail, fetch, sf, risky') /\ RunsStand(runs, given', risky')
  BY <1>1, RiskedBehind, Wider
<1> HIDE DEF sf
<1>3. editor \in Editors /\ v \in Nat /\ v >= editor.version
  BY NowIs DEF Editors
<1> HIDE DEF v
<1>4. /\ ed \in Editors /\ ed.key = editor.key /\ ed.local = editor.local /\ ed.dirty
      /\ ed.generation = editor.generation /\ ed.version = v
  BY <1>3 DEF Editors
<1> HIDE DEF ed
<1>5. Wired(wire, ed, made, sf, stored', risky')
  <2>1. Goes(editor, ed, wire, sf, risky')
    BY <1>3, <1>4, GoesAlong
  <2> QED
    BY <1>2, <1>4, <2>1, NowIs, WiredGoes
<1>6. Wired(wire', ed, made, sf, stored', risky')
  <2>1. ed.key \in Graphs
    BY <1>4, EditorKey DEF SaveNow
  <2>2. ed.key \notin risky' =>
            /\ stored'[ed.key] \subseteq ed.local
            /\ \A j \in DOMAIN wire : wire[j].kind \in Writes /\ wire[j].graph = ed.key
                                          => wire[j].content \subseteq ed.local
    BY <1>1, <1>4, RiskedBehind, BehindIs
  <2>3. "nothing" \in Nexts
    BY DEF Nexts
  <2> QED
    BY <1>1, <1>4, <1>5, <2>1, <2>2, <2>3, NowIs, WiredSaves
<1>7. Goes(ed, editor', wire', sf, risky') /\ EditorStands(editor', sf, risky')
  BY <1>1, <1>4, FlushedStands
<1>8. Wired(wire', editor', made, sf, stored', risky')
  BY <1>4, <1>6, <1>7, ThenIs, WiredGoes
<1> QED
  BY <1>1, <1>2, <1>7, <1>8 DEF Survival, sf

LEMMA SelectSurvives == ASSUME Inv, Inv', Survival, NEW g \in Graphs, Select(g) PROVE Survival'
<1> DEFINE sf == Safe(stored', given')
           ed == Flushed(editor)
<1>1. /\ wire' = Flush("nothing") /\ Render(ed, g, cached) /\ risky' = Risked(editor.dirty)
      /\ UNCHANGED <<stored, detail, made, given, runs>>
  BY DEF Select, server
<1>2. /\ Wired(wire', editor, made, sf, stored', risky')
      /\ editor.key \in Graphs \ risky' =>
             \A e2, e : e \in editor.local => Somewhere(e, editor.key, wire', e2, sf)
  BY <1>1, FlushStands DEF Nexts
<1>3. /\ EditorStands(editor, sf, risky') /\ CacheStands(detail, fetch, sf, risky')
      /\ RunsStand(runs, given', risky')
  BY <1>1, RiskedBehind, Wider
<1> HIDE DEF sf
<1>4. Goes(editor, ed, wire', sf, risky') /\ EditorStands(ed, sf, risky')
  BY <1>3, NowIs, FlushedStands
<1>5. ed \in Editors /\ ed.key = editor.key /\ ed.local = editor.local
  BY NowIs, FlushedFields
<1> HIDE DEF ed
<1>6. Wired(wire', ed, made, sf, stored', risky')
  BY <1>2, <1>4, <1>5, NowIs, ThenIs, WiredGoes
<1>7. /\ Goes(ed, editor', wire', sf, risky') /\ EditorStands(editor', sf, risky')
      /\ CacheStands(detail, fetch', sf, risky')
  <2>1. cached \in SUBSET Graphs
    BY Parts DEF TabFits
  <2> QED
    BY <1>1, <1>2, <1>3, <1>4, <1>5, <2>1, RenderStands
<1>8. Wired(wire', editor', made, sf, stored', risky')
  BY <1>5, <1>6, <1>7, ThenIs, WiredGoes
<1> QED
  BY <1>1, <1>3, <1>7, <1>8 DEF Survival, sf

(* The page goes to another graph and gives up what is unsaved; w is what is *)
(* on the wire by then.                                                      *)
LEMMA LeaveSurvives ==
    ASSUME Inv, Inv', Survival, NEW sel, NEW graphs \in SUBSET Graphs, Render(editor, sel, graphs),
           given' = IF editor'.key # editor.key THEN given \cup Unsaved ELSE given,
           UNCHANGED <<stored, detail, made, risky, runs>>,
           Wired(wire', editor, made, Safe(stored', given'), stored', risky')
    PROVE  Survival'
<1> DEFINE sf == Safe(stored', given')
<1>1. given \subseteq given' /\ risky \subseteq risky'
  OBVIOUS
<1>2. /\ EditorStands(editor, sf, risky') /\ CacheStands(detail, fetch, sf, risky')
      /\ RunsStand(runs, given', risky')
  BY <1>1, Wider
<1>3. editor'.key # editor.key /\ editor.key \in Graphs \ risky' => editor.local \subseteq sf[editor.key]
  BY <1>1, UnsavedSafe
<1>4. Wired(wire', editor, made, sf, stored', risky')
  OBVIOUS
<1> HIDE DEF sf
<1>5. /\ Goes(editor, editor', wire', sf, risky') /\ EditorStands(editor', sf, risky')
      /\ CacheStands(detail, fetch', sf, risky')
  <2>1. editor'.key # editor.key /\ editor.key \in Graphs \ risky' =>
            \A e \in editor.local : Somewhere(e, editor.key, wire', editor', sf)
    BY <1>3 DEF Somewhere
  <2> QED
    BY <1>2, <2>1, NowIs, RenderStands
<1>6. Wired(wire', editor', made, sf, stored', risky')
  BY <1>4, <1>5, NowIs, ThenIs, WiredGoes
<1> QED
  BY <1>2, <1>5, <1>6 DEF Survival, sf

LEMMA FollowLinkSurvives == ASSUME Inv, Inv', Survival, NEW g \in Graphs, FollowLink(g) PROVE Survival'
<1>1. /\ Render(editor, g, cached) /\ given' = given \cup Unsaved
      /\ UNCHANGED <<stored, wire, detail, made, risky, runs>>
  BY DEF FollowLink, server
<1>2. editor'.key # editor.key
  <2>1. Shown(g, cached) = g /\ g # editor.key
    BY DEF FollowLink, Shown
  <2>2. Rendered(editor, g, detail[g], detail[g]).key = g
    BY <2>1 DEF Rendered
  <2> QED
    BY <1>1, <2>1, <2>2, NoGraphIs DEF Render
<1>3. Wired(wire', editor, made, Safe(stored', given'), stored', risky')
  <2>1. given \subseteq given' /\ risky \subseteq risky'
    BY <1>1
  <2> QED
    BY <1>1, <2>1, Wider
<1>4. cached \in SUBSET Graphs
  BY Parts DEF TabFits
<1> QED
  BY <1>1, <1>2, <1>3, <1>4, LeaveSurvives

LEMMA ListAnsweredSurvives == ASSUME Inv, Inv', Survival, ListAnswered PROVE Survival'
<1>1. /\ Render(editor, selected, list) /\ list \in SUBSET Graphs
      /\ given' = IF editor'.key # editor.key THEN given \cup Unsaved ELSE given
      /\ UNCHANGED <<stored, wire, detail, made, risky, runs>>
  BY Parts DEF ListAnswered, server
<1>2. Wired(wire', editor, made, Safe(stored', given'), stored', risky')
  <2>1. given \subseteq given' /\ risky \subseteq risky'
    BY <1>1
  <2> QED
    BY <1>1, <2>1, Wider
<1> QED
  BY <1>1, <1>2, LeaveSurvives

(* A request is sent, the canvas stays as it is. *)
LEMMA SentSurvives ==
    ASSUME Inv, Inv', Survival, NEW r \in Request, wire' = Append(wire, r),
           risky \subseteq risky', UNCHANGED <<stored, detail, fetch, editor, made, given, runs>>,
           Stands(r, editor, Safe(stored', given'), risky'), Builds(r, stored', risky'),
           r.kind \in Wholes /\ r.graph \in Graphs \ risky' =>
               \A j \in DOMAIN wire : wire[j].kind \in Writes /\ wire[j].graph = r.graph
                                          => wire[j].content \subseteq r.content
    PROVE  Survival'
<1>1. /\ Wired(wire, editor, made, Safe(stored', given'), stored', risky')
      /\ EditorStands(editor, Safe(stored', given'), risky')
      /\ CacheStands(detail, fetch, Safe(stored', given'), risky')
      /\ RunsStand(runs, given', risky')
  BY Wider
<1>2. Wired(wire', editor, made, Safe(stored', given'), stored', risky')
  BY <1>1, NowIs, WiredAdds
<1> QED
  BY <1>1, <1>2 DEF Survival

LEMMA CreateGraphSurvives == ASSUME Inv, Inv', Survival, CreateGraph PROVE Survival'
<1> DEFINE a == Call("create", NoGraph)
           r == [a EXCEPT !.next = "open"]
<1>1. a \in Request /\ a.kind = "create"
  BY CallIs DEF Kinds
<1>2. /\ wire' = Append(wire, r) /\ risky' = Risked(r.kind = "advanced")
      /\ UNCHANGED <<stored, detail, fetch, editor, made, given, runs>>
  BY DEF CreateGraph, Ask, server, queries
<1> HIDE DEF a
<1>3. r \in Request /\ r.kind = "create"
  BY <1>1 DEF Request
<1> HIDE DEF r
<1>4. Stands(r, editor, Safe(stored', given'), risky') /\ Builds(r, stored', risky')
      /\ r.kind \notin Wholes
  BY <1>3, OthersStand
<1>5. risky \subseteq risky'
  BY <1>2, RiskedBehind
<1> QED
  BY <1>2, <1>3, <1>4, <1>5, SentSurvives

LEMMA DeleteGraphSurvives == ASSUME Inv, Inv', Survival, DeleteGraph PROVE Survival'
<1> DEFINE r == Call("delete", editor.key)
<1>1. r \in Request /\ r.kind = "delete"
  BY EditorKey, CallIs DEF Kinds, DeleteGraph
<1>2. /\ wire' = Append(wire, r) /\ risky' = Risked(r.kind = "advanced")
      /\ UNCHANGED <<stored, detail, fetch, editor, made, given, runs>>
  BY DEF DeleteGraph, Ask, server, queries
<1> HIDE DEF r
<1>3. Stands(r, editor, Safe(stored', given'), risky') /\ Builds(r, stored', risky')
      /\ r.kind \notin Wholes
  BY <1>1, OthersStand
<1>4. risky \subseteq risky'
  BY <1>2, RiskedBehind
<1> QED
  BY <1>1, <1>2, <1>3, <1>4, SentSurvives

LEMMA SaveAdvancedSurvives == ASSUME Inv, Inv', Survival, SaveAdvanced PROVE Survival'
<1> DEFINE a == Call("advanced", editor.key)
           r == [a EXCEPT !.content = editor.local]
<1>1. editor.key \in Graphs
  BY EditorKey DEF SaveAdvanced
<1>2. a \in Request /\ a.kind = "advanced" /\ a.state = "sent" /\ a.graph = editor.key
  BY <1>1, CallIs DEF Kinds, Writes
<1>3. /\ wire' = Append(wire, r) /\ risky' = Risked(r.kind = "advanced")
      /\ UNCHANGED <<stored, detail, fetch, editor, made, given, runs>>
  BY DEF SaveAdvanced, Ask, server, queries
<1> HIDE DEF a
<1>4. /\ r \in Request /\ r.kind = "advanced" /\ r.state = "sent" /\ r.graph = editor.key
      /\ r.content = editor.local
  BY <1>2, NowIs DEF Request, Editors
<1> HIDE DEF r
<1>5. risky \subseteq risky' /\ (editor.key \notin risky' => ~Behind(editor.key, editor.local))
  BY <1>3, <1>4, RiskedBehind
<1>6. editor.key \notin risky' =>
          /\ stored'[editor.key] \subseteq r.content
          /\ \A j \in DOMAIN wire : wire[j].kind \in Writes /\ wire[j].graph = editor.key
                                        => wire[j].content \subseteq r.content
  BY <1>3, <1>4, <1>5, BehindIs
<1>7. Stands(r, editor, Safe(stored', given'), risky') /\ Builds(r, stored', risky')
  BY <1>4, <1>6 DEF Stands, Builds
<1> QED
  BY <1>3, <1>4, <1>5, <1>6, <1>7, SentSurvives

LEMMA QuickConfigSurvives ==
    ASSUME Inv, Inv', Survival, NEW e \in Edits, QuickConfig(e) PROVE Survival'
<1> DEFINE a == Call("quick", editor.key)
           r == [a EXCEPT !.content = {e}]
           sf == Safe(stored, given)
<1>1. editor.key \in Graphs
  BY EditorKey DEF QuickConfig
<1>2. a \in Request /\ a.kind = "quick" /\ a.state = "sent" /\ a.graph = editor.key
  BY <1>1, CallIs DEF Kinds, Writes
<1>3. /\ wire' = Append(wire, r) /\ made' = [made EXCEPT ![editor.key] = @ \cup {e}]
      /\ UNCHANGED <<stored, detail, fetch, editor, given, risky, runs>>
  BY DEF QuickConfig, server, queries
<1> HIDE DEF a
<1>4. r \in Request /\ r.kind = "quick" /\ r.state = "sent" /\ r.graph = editor.key /\ r.content = {e}
  BY <1>2 DEF Request, Content
<1> HIDE DEF r
<1>5. Stands(r, editor, sf, risky) /\ Builds(r, stored, risky) /\ r.kind \notin Wholes
  BY <1>4 DEF Stands, Builds, Wholes, Writes
<1>6. Wired(wire, editor, made, sf, stored, risky) /\ wire \in Seq(Request) /\ made \in [Graphs -> Content]
  BY NowIs DEF Survival
<1> HIDE DEF sf
<1>7. Wired(wire', editor, made, sf, stored, risky)
  BY <1>3, <1>4, <1>5, <1>6, WiredAdds
<1>8. ASSUME NEW g \in Graphs \ risky, NEW x \in made'[g] PROVE Somewhere(x, g, wire', editor, sf)
  <2>1. x \in made[g] \/ (g = editor.key /\ x = e)
    BY <1>3, <1>6
  <2>2. wire'[Len(wire) + 1] = r /\ Len(wire) + 1 \in DOMAIN wire'
    BY <1>3, <1>4, <1>6, AppendProperties
  <2>3. CASE x \in made[g]
    BY <1>7, <2>3 DEF Wired, Accounted
  <2>4. CASE g = editor.key /\ x = e
    BY <1>4, <2>2, <2>4 DEF Somewhere
  <2> QED
    BY <2>1, <2>3, <2>4
<1>9. Wired(wire', editor, made', sf, stored, risky)
  BY <1>7, <1>8 DEF Wired, Accounted
<1> QED
  BY <1>3, <1>9 DEF Survival, sf

LEMMA FlushThenSurvives ==
    ASSUME Inv, Inv', Survival, NEW name, NEW next \in {"start", "create"}, FlushThen(name, next)
    PROVE  Survival'
<1> DEFINE sf == Safe(stored', given')
<1>1. /\ editor' = Flushed(editor) /\ risky' = Risked(editor.dirty)
      /\ UNCHANGED <<stored, detail, fetch, made, given, runs>>
  BY DEF FlushThen, server, queries
<1>2. /\ Wired(wire, editor, made, sf, stored', risky')
      /\ EditorStands(editor, sf, risky') /\ CacheStands(detail, fetch, sf, risky')
      /\ RunsStand(runs, given', risky')
  BY <1>1, RiskedBehind, Wider
<1>3. editor.key \in Graphs /\ editor \in Editors /\ editor.local \in Content /\ wire \in Seq(Request)
  BY EditorKey, NowIs DEF FlushThen, Editors
<1>4. Wired(wire', editor, made, sf, stored', risky')
  <2>1. CASE editor.dirty
    <3>1. wire' = Flush(next)
      BY <2>1 DEF FlushThen, Flush
    <3> QED
      BY <1>1, <3>1, FlushStands DEF Nexts
  <2>2. CASE ~editor.dirty /\ next = "start"
    <3> DEFINE r == Start(editor.key, editor.local, TRUE)
    <3>1. r \in Request /\ r.kind = "start" /\ r.graph = editor.key /\ r.content = editor.local
      BY <1>3, StartFields
    <3>2. wire' = Append(wire, r)
      BY <2>2 DEF FlushThen
    <3> HIDE DEF r, sf
    <3>3. Stands(r, editor, sf, risky') /\ Builds(r, stored', risky') /\ r.kind \notin Wholes
      BY <1>2, <2>2, <3>1 DEF Stands, Builds, EditorStands, Wholes, Writes
    <3>4. Wired(Append(wire, r), editor, made, sf, stored', risky')
      BY <1>2, <1>3, <3>1, <3>3, WiredAdds
    <3> QED
      BY <3>2, <3>4
  <2>3. CASE ~editor.dirty /\ next # "start"
    <3> DEFINE r == Create(editor.key)
    <3>1. r \in Request /\ r.kind = "create"
      BY <1>3, ThenIs, CreateFields
    <3>2. wire' = Append(wire, r)
      BY <2>3 DEF FlushThen
    <3> HIDE DEF r, sf
    <3>3. Stands(r, editor, sf, risky') /\ Builds(r, stored', risky') /\ r.kind \notin Wholes
      BY <3>1, OthersStand
    <3>4. Wired(Append(wire, r), editor, made, sf, stored', risky')
      BY <1>2, <1>3, <3>1, <3>3, WiredAdds
    <3> QED
      BY <3>2, <3>4
  <2> QED
    BY <2>1, <2>2, <2>3
<1> HIDE DEF sf
<1>5. Goes(editor, editor', wire', sf, risky') /\ EditorStands(editor', sf, risky')
  BY <1>1, <1>2, <1>3, FlushedStands
<1>6. Wired(wire', editor', made, sf, stored', risky')
  BY <1>3, <1>4, <1>5, ThenIs, WiredGoes
<1> QED
  BY <1>1, <1>2, <1>5, <1>6 DEF Survival, sf

-----------------------------------------------------------------------------
(* The server. *)

LEMMA StateFields ==
    ASSUME NEW r \in Request, NEW s \in {"sent", "reading", "done", "refused", "lost"}
    PROVE  LET q == [r EXCEPT !.state = s]
           IN  /\ q \in Request /\ q.state = s /\ q.kind = r.kind /\ q.graph = r.graph
               /\ q.content = r.content /\ q.version = r.version /\ q.generation = r.generation
               /\ q.saved = r.saved
  BY DEF Request

(* A state that says no more of the request than the one before. *)
LEMMA StateStands ==
    ASSUME NEW r \in Request, NEW s \in {"reading", "done", "refused", "lost"}, NEW ed, NEW sf, NEW st, NEW ri,
           Stands(r, ed, sf, ri),
           r.kind \in Writes /\ s \in {"done", "lost"} =>
               r.state = "done" \/ (r.graph \in Graphs \ ri => r.content \subseteq sf[r.graph])
    PROVE  LET q == [r EXCEPT !.state = s]
           IN  Stands(q, ed, sf, ri) /\ Builds(q, st, ri) /\ q \in Request
               /\ q.kind = r.kind /\ q.graph = r.graph /\ q.content = r.content
<1> DEFINE q == [r EXCEPT !.state = s]
<1>1. /\ q \in Request /\ q.state = s /\ q.kind = r.kind /\ q.graph = r.graph
      /\ q.content = r.content /\ q.version = r.version /\ q.generation = r.generation
      /\ q.saved = r.saved
  <2>1. s \in {"sent", "reading", "done", "refused", "lost"}
    OBVIOUS
  <2> QED
    BY <2>1, StateFields
<1> HIDE DEF q
<1>2. Stands(q, ed, sf, ri)
  BY <1>1 DEF Stands
<1>3. Builds(q, st, ri)
  BY <1>1 DEF Builds
<1> QED
  BY <1>1, <1>2, <1>3 DEF q

LEMMA StandsNow ==
    ASSUME Inv, Survival, NEW i \in DOMAIN wire
    PROVE  /\ wire[i] \in Request /\ Stands(wire[i], editor, Safe(stored, given), risky)
           /\ Builds(wire[i], stored, risky)
  BY NowIs DEF Survival, Wired

LEMMA FullUpdateSurvives ==
    ASSUME Inv, Inv', Survival, NEW i \in DOMAIN wire, FullUpdate(i), wire[i].state = "sent",
           wire' = [wire EXCEPT ![i].state = "done"], UNCHANGED <<queries, editor>>
    PROVE  Survival'
<1> DEFINE r == wire[i]
           g == r.graph
           q == [r EXCEPT !.state = "done"]
           sf == Safe(stored', given')
<1>1. /\ r \in Request /\ r.kind \in Writes /\ g \in Graphs /\ stored \in [Graphs -> Content]
      /\ Stands(r, editor, Safe(stored, given), risky) /\ Builds(r, stored, risky)
  BY RequestIs, NowIs, StandsNow DEF FullUpdate, Fits
<1>2. /\ stored' = [stored EXCEPT ![g] = r.content] /\ wire' = [wire EXCEPT ![i] = q]
      /\ risky' = IF Overtakes(i) THEN risky \cup {g} ELSE risky
      /\ given' = IF r.kind = "quick" THEN given \cup (stored[g] \ r.content) ELSE given
      /\ UNCHANGED <<detail, fetch, editor, made, runs>>
  BY DEF FullUpdate, queries
<1>3. stored'[g] = r.content /\ \A h \in Graphs \ {g} : stored'[h] = stored[h]
  BY <1>1, <1>2
<1>4. risky \subseteq risky' /\ given \subseteq given'
  BY <1>2
<1>5. Grows(Safe(stored, given), risky, sf, risky')
  <2>1. ASSUME NEW h \in Graphs \ risky' PROVE stored[h] \cup given \subseteq stored'[h] \cup given'
    <3>1. CASE h # g
      BY <1>3, <1>4, <3>1
    <3>2. CASE h = g /\ r.kind = "quick"
      BY <1>2, <1>3, <3>2
    <3>3. CASE h = g /\ r.kind # "quick"
      <4>1. r.kind \in Wholes /\ g \in Graphs \ risky
        BY <1>1, <1>4, <3>3 DEF Wholes
      <4> QED
        BY <1>1, <1>3, <1>4, <3>3, <4>1 DEF Builds
    <3> QED
      BY <3>1, <3>2, <3>3
  <2> QED
    BY <1>4, <2>1, SafeIs DEF Grows
<1>6. /\ Wired(wire, editor, made, sf, stored, risky') /\ EditorStands(editor, sf, risky')
      /\ CacheStands(detail, fetch, sf, risky') /\ RunsStand(runs, given', risky')
  BY <1>4, <1>5, WiredGrows, OthersGrow, RunsGrow DEF Survival
<1>7. r.content \subseteq sf[g]
  BY <1>1, <1>3, SafeIs
<1> HIDE DEF sf
<1>8. /\ q \in Request /\ Stands(q, editor, sf, risky') /\ Builds(q, stored, risky')
      /\ Builds(q, stored', risky') /\ q.kind = r.kind /\ q.graph = g /\ q.content = r.content
  <2>1. Stands(r, editor, sf, risky')
    BY <1>6 DEF Wired
  <2>2. "done" \in {"done", "refused", "lost"}
    OBVIOUS
  <2>3. \A st : Stands(q, editor, sf, risky') /\ Builds(q, st, risky') /\ q \in Request
                   /\ q.kind = r.kind /\ q.graph = r.graph /\ q.content = r.content
    <3> TAKE st
    <3> QED
      BY <1>1, <1>7, <2>1, <2>2, StateStands
  <2> QED
    BY <2>3
<1> HIDE DEF q
<1>9. Wired(wire', editor, made, sf, stored, risky')
  <2>1. wire \in Seq(Request)
    BY NowIs
  <2> HIDE DEF g
  <2>2. q.kind \in Writes => q.graph = wire[i].graph /\ q.content = wire[i].content
    BY <1>8 DEF g
  <2>3. Wired([wire EXCEPT ![i] = q], editor, made, sf, stored, risky')
    BY <1>6, <1>8, <2>1, <2>2, WiredSets
  <2> QED
    BY <1>2, <2>3
<1>10. ASSUME NEW j \in DOMAIN wire' PROVE Builds(wire'[j], stored', risky')
  <2>1. CASE j = i
    BY <1>2, <1>8, <2>1
  <2>2. CASE j # i
    <3>1. wire'[j] = wire[j] /\ j \in DOMAIN wire /\ Builds(wire[j], stored, risky')
      BY <1>2, <1>6, <2>2 DEF Wired
    <3>2. ASSUME wire[j].kind \in Wholes, wire[j].state = "sent", wire[j].graph = g, g \notin risky'
          PROVE  r.content \subseteq wire[j].content
      <4>1. ~(j < i)
        BY <1>2, <3>1, <3>2 DEF Overtakes, Pending, Wholes
      <4>2. i < j
        BY <2>2, <3>1, <4>1, NowIs
      <4> QED
        BY <1>1, <1>6, <3>1, <3>2, <4>2 DEF Wired, InOrder
    <3> QED
      BY <1>3, <3>1, <3>2 DEF Builds
  <2> QED
    BY <2>1, <2>2
<1>11. Wired(wire', editor, made, sf, stored', risky')
  BY <1>9, <1>10 DEF Wired
<1> QED
  BY <1>2, <1>6, <1>11 DEF Survival, sf

(* A request settles and nothing is written. *)
LEMMA SetSurvives ==
    ASSUME Inv, Survival, NEW i \in DOMAIN wire, NEW q \in Request, wire' = [wire EXCEPT ![i] = q],
           q.kind = wire[i].kind,
           q.kind \in Writes => q.graph = wire[i].graph /\ q.content = wire[i].content,
           Stands(q, editor, Safe(stored, given), risky), Builds(q, stored, risky),
           RunsStand(runs', given, risky),
           UNCHANGED <<stored, detail, fetch, editor, made, given, risky>>
    PROVE  Survival'
<1>1. Wired(wire', editor, made, Safe(stored, given), stored, risky)
  BY NowIs, WiredSets DEF Survival
<1> QED
  BY <1>1 DEF Survival

LEMMA ServerCreateSurvives ==
    ASSUME Inv, Inv', Survival, NEW i \in DOMAIN wire, NEW g \in Graphs, ServerCreate(i, g),
           wire' = [wire EXCEPT ![i].state = "done", ![i].graph = g], UNCHANGED <<queries, editor>>
    PROVE  Survival'
<1> DEFINE r == wire[i]
           p == [r EXCEPT !.state = "done"]
           q == [p EXCEPT !.graph = g]
<1>1. r \in Request /\ r.kind = "create"
  BY StandsNow DEF ServerCreate
<1>2. wire' = [wire EXCEPT ![i] = q]
  OBVIOUS
<1>3. p \in Request /\ p.kind = "create"
  BY <1>1, StateFields
<1> HIDE DEF p
<1>4. q \in Request /\ q.kind = "create" /\ q.kind \notin Writes
  BY <1>3 DEF Request, Writes
<1> HIDE DEF q
<1>5. /\ Stands(q, editor, Safe(stored, given), risky) /\ Builds(q, stored, risky)
  BY <1>4, OthersStand
<1>6. UNCHANGED <<stored, detail, fetch, editor, made, given, risky, runs>>
  BY DEF ServerCreate, queries
<1> QED
  BY <1>1, <1>2, <1>4, <1>5, <1>6, SetSurvives DEF Survival

LEMMA ServerDeleteSurvives ==
    ASSUME Inv, Inv', Survival, NEW i \in DOMAIN wire, ServerDelete(i),
           wire' = [wire EXCEPT ![i].state = "done"], UNCHANGED <<queries, editor>>
    PROVE  Survival'
<1> DEFINE r == wire[i]
           q == [r EXCEPT !.state = "done"]
<1>1. r \in Request /\ r.kind = "delete" /\ r.kind \notin Writes
      /\ Stands(r, editor, Safe(stored, given), risky)
  BY StandsNow DEF ServerDelete, Writes
<1>2. wire' = [wire EXCEPT ![i] = q]
  OBVIOUS
<1>3. /\ q \in Request /\ Stands(q, editor, Safe(stored, given), risky) /\ Builds(q, stored, risky)
      /\ q.kind = r.kind /\ q.graph = r.graph /\ q.content = r.content
  BY <1>1, StateStands
<1> HIDE DEF q
<1>4. UNCHANGED <<stored, detail, fetch, editor, made, given, risky, runs>>
  BY DEF ServerDelete, history, queries
<1> QED
  BY <1>2, <1>3, <1>4, SetSurvives DEF Survival

LEMMA ServerStartSurvives ==
    ASSUME Inv, Inv', Survival, NEW i \in DOMAIN wire, ServerStart(i), UNCHANGED <<queries, editor>>
    PROVE  Survival'
<1> DEFINE r == wire[i]
           s == IF r.state = "sent" THEN "reading" ELSE "done"
           q == [r EXCEPT !.state = s]
           run == [graph |-> r.graph, wanted |-> r.content, used |-> stored[r.graph], saved |-> r.saved]
<1>1. /\ r \in Request /\ r.kind = "start" /\ r.kind \notin Writes /\ r.graph \in Graphs
      /\ Stands(r, editor, Safe(stored, given), risky)
  BY RequestIs, StandsNow DEF ServerStart, Writes, Fits
<1>2. wire' = [wire EXCEPT ![i] = q] /\ s \in {"reading", "done", "refused", "lost"}
  BY DEF ServerStart
<1> HIDE DEF s
<1>3. /\ q \in Request /\ Stands(q, editor, Safe(stored, given), risky) /\ Builds(q, stored, risky)
      /\ q.kind = r.kind /\ q.graph = r.graph /\ q.content = r.content
  BY <1>1, <1>2, StateStands
<1> HIDE DEF q
<1>4. runs' = runs \cup {run} /\ UNCHANGED <<stored, detail, fetch, editor, made, given, risky>>
  BY DEF ServerStart, server, queries
<1>5. run.saved /\ run.graph \notin risky => run.wanted \subseteq run.used \cup given
  BY <1>1, SafeIs DEF Stands
<1>6. RunsStand(runs', given, risky)
  BY <1>4, <1>5 DEF Survival, RunsStand
<1> QED
  BY <1>2, <1>3, <1>4, <1>6, SetSurvives

LEMMA ServeSurvives ==
    ASSUME Inv, Inv', Survival, NEW i \in DOMAIN wire, NEW g \in Graphs, Serve(i, g)
    PROVE  Survival'
  BY FullUpdateSurvives, ServerDeleteSurvives, ServerStartSurvives, ServerCreateSurvives DEF Serve

LEMMA FailSurvives == ASSUME Inv, Inv', Survival, NEW i \in DOMAIN wire, Fail(i) PROVE Survival'
<1> DEFINE r == wire[i]
           q(s) == [r EXCEPT !.state = s]
<1>1. PICK s \in {"refused", "lost"} : /\ wire' = [wire EXCEPT ![i].state = s]
                                       /\ s = "lost" => r.state = "done"
  BY DEF Fail
<1>2. wire' = [wire EXCEPT ![i] = q(s)]
  BY <1>1
<1>3. r \in Request /\ Stands(r, editor, Safe(stored, given), risky)
  BY StandsNow
<1>4. /\ q(s) \in Request /\ Stands(q(s), editor, Safe(stored, given), risky) /\ Builds(q(s), stored, risky)
      /\ q(s).kind = r.kind /\ q(s).graph = r.graph /\ q(s).content = r.content
  <2>1. s \in {"done", "refused", "lost"} /\ s # "done"
    BY <1>1
  <2> QED
    BY <1>1, <1>3, <2>1, StateStands
<1> HIDE DEF q
<1>5. UNCHANGED <<stored, detail, fetch, editor, made, given, risky, runs>>
  BY DEF Fail, server, queries, history
<1> QED
  BY <1>2, <1>4, <1>5, SetSurvives DEF Survival

-----------------------------------------------------------------------------
(* The answers and the refreshes. *)

LEMMA Dropped ==
    ASSUME Inv, Survival, NEW i \in DOMAIN wire,
           risky \subseteq risky', given \subseteq given', stored' = stored,
           wire[i].kind \in {"save", "quick"} /\ wire[i].graph \in Graphs \ risky' =>
               wire[i].content \subseteq Safe(stored', given')[wire[i].graph]
                   \cup (IF editor.key = wire[i].graph THEN editor.local ELSE {})
    PROVE  /\ Wired(RemoveAt(wire, i), editor, made, Safe(stored', given'), stored', risky')
           /\ RemoveAt(wire, i) \in Seq(Request)
<1>1. Wired(wire, editor, made, Safe(stored', given'), stored', risky')
  BY Wider
<1>2. wire[i].kind \in {"save", "quick"} /\ wire[i].graph \in Graphs \ risky' =>
          \A e \in wire[i].content : \/ e \in Safe(stored', given')[wire[i].graph]
                                     \/ (editor.key = wire[i].graph /\ e \in editor.local)
  OBVIOUS
<1> QED
  BY <1>1, <1>2, NowIs, Removed, WiredDrops

LEMMA SaveAnsweredFields ==
    ASSUME NEW r, editor \in Editors
    PROVE  LET e == SaveAnswered(r)
           IN  /\ e.key = editor.key /\ e.local = editor.local /\ e.version = editor.version
               /\ e.generation = editor.generation
               /\ \/ e = editor
                  \/ e.saveState = "dirty" /\ e.dirty = editor.dirty
                  \/ ~e.dirty /\ Mine(r) /\ r.state = "done" /\ editor.version = r.version
<1>1. CASE ~Mine(r)
  BY <1>1 DEF SaveAnswered
<1>2. CASE Mine(r) /\ r.state = "done" /\ editor.version = r.version
  BY <1>2 DEF SaveAnswered, Editors
<1>3. CASE Mine(r) /\ ~(r.state = "done" /\ editor.version = r.version)
  BY <1>3 DEF SaveAnswered, Editors
<1> QED
  BY <1>1, <1>2, <1>3

LEMMA AnswerSaveSurvives ==
    ASSUME Inv, Inv', Survival, NEW i \in DOMAIN wire, AnswerSave(i) PROVE Survival'
<1> DEFINE r == wire[i]
           w == RemoveAt(wire, i)
           sf == Safe(stored', given')
<1>1. /\ r.kind = "save" /\ editor' = SaveAnswered(r)
      /\ given' = IF Mine(r) \/ Succeeded(i) THEN given ELSE given \cup r.content
      /\ UNCHANGED <<stored, detail, fetch, made, risky, runs>>
  BY DEF AnswerSave, server, queries
<1>2. given \subseteq given' /\ risky \subseteq risky'
  BY <1>1
<1>3. /\ Wired(wire, editor, made, sf, stored', risky')
      /\ EditorStands(editor, sf, risky') /\ CacheStands(detail, fetch, sf, risky')
      /\ RunsStand(runs, given', risky')
  BY <1>1, <1>2, Wider
<1>4. r \in Request /\ Stands(r, editor, sf, risky') /\ r.graph \in Graphs /\ r.content \in Content
  BY <1>1, <1>3, RequestIs DEF Wired, Fits, Writes, Request
<1>5. r.graph \notin risky' /\ Succeeded(i) => r.content \subseteq sf[r.graph]
  BY <1>1, <1>4 DEF Succeeded, Stands, Writes
<1>6. r.graph \notin risky' =>
          r.content \subseteq sf[r.graph] \cup (IF editor.key = r.graph THEN editor.local ELSE {})
  <2>1. CASE Succeeded(i)
    BY <1>5, <2>1
  <2>2. CASE Mine(r)
    BY <1>1, <1>4, <2>2 DEF Mine, Stands
  <2>3. CASE ~Mine(r) /\ ~Succeeded(i)
    BY <1>1, <1>4, <2>3, SafeIs
  <2> QED
    BY <2>1, <2>2, <2>3
<1>7. Wired(w, editor, made, sf, stored', risky') /\ w \in Seq(Request)
  BY <1>1, <1>2, <1>6, Dropped
<1>8. wire' = CASE r.next = "start"  -> Append(w, Start(r.graph, r.content, Succeeded(i)))
                [] r.next = "create" -> Append(w, Create(r.graph))
                [] OTHER             -> w
  BY DEF AnswerSave
<1> HIDE DEF w, sf
<1>9. Wired(wire', editor, made, sf, stored', risky')
  <2>1. CASE r.next = "start"
    <3> DEFINE q == Start(r.graph, r.content, Succeeded(i))
    <3>1. Succeeded(i) \in BOOLEAN
      BY DEF Succeeded
    <3>2. /\ q \in Request /\ q.kind = "start" /\ q.graph = r.graph
          /\ q.content = r.content /\ q.saved = Succeeded(i)
      BY <1>4, <3>1, StartFields
    <3>3. wire' = Append(w, q)
      BY <1>8, <2>1
    <3> HIDE DEF q
    <3>4. Stands(q, editor, sf, risky') /\ Builds(q, stored', risky') /\ q.kind \notin Wholes
      BY <1>5, <3>2 DEF Stands, Builds, Wholes, Writes
    <3> QED
      BY <1>7, <3>2, <3>3, <3>4, WiredAdds
  <2>2. CASE r.next = "create"
    <3> DEFINE q == Create(r.graph)
    <3>1. q \in Request /\ q.kind = "create"
      BY <1>4, ThenIs, CreateFields
    <3>2. wire' = Append(w, q)
      BY <1>8, <2>2
    <3> HIDE DEF q
    <3>3. Stands(q, editor, sf, risky') /\ Builds(q, stored', risky') /\ q.kind \notin Wholes
      BY <3>1, OthersStand
    <3> QED
      BY <1>7, <3>1, <3>2, <3>3, WiredAdds
  <2>3. CASE r.next \notin {"start", "create"}
    BY <1>7, <1>8, <2>3
  <2> QED
    BY <2>1, <2>2, <2>3
<1>10. /\ editor'.key = editor.key /\ editor'.local = editor.local /\ editor'.version = editor.version
       /\ editor'.generation = editor.generation
       /\ \/ editor' = editor
          \/ editor'.saveState = "dirty" /\ editor'.dirty = editor.dirty
          \/ ~editor'.dirty /\ Mine(r) /\ r.state = "done" /\ editor.version = r.version
  BY <1>1, NowIs, SaveAnsweredFields
<1>11. Goes(editor, editor', wire', sf, risky')
  <2>1. editor'.version >= editor.version
    BY <1>10, NowIs DEF Editors
  <2> QED
    BY <1>10, <2>1, NowIs, GoesAlong
<1>12. Wired(wire', editor', made, sf, stored', risky')
  BY <1>9, <1>11, NowIs, ThenIs, WiredGoes
<1>13. EditorStands(editor', sf, risky')
  <2>1. CASE editor' = editor
    BY <1>3, <2>1
  <2>2. CASE editor'.saveState = "dirty" /\ editor'.dirty = editor.dirty
    BY <1>3, <1>10, <2>2 DEF EditorStands
  <2>3. CASE ~editor'.dirty /\ Mine(r) /\ r.state = "done" /\ editor.version = r.version
    <3>1. r.graph = editor.key /\ Succeeded(i)
      BY <2>3 DEF Mine, Succeeded
    <3>2. editor.key \notin risky' => editor.local \subseteq sf[editor.key]
      BY <1>1, <1>4, <1>5, <2>3, <3>1 DEF Stands
    <3> QED
      BY <1>10, <2>3, <3>2 DEF EditorStands
  <2> QED
    BY <1>10, <2>1, <2>2, <2>3
<1> QED
  BY <1>1, <1>3, <1>12, <1>13 DEF Survival, sf

LEMMA InvalidateStands ==
    ASSUME Inv, NEW g, NEW sf, NEW ri, CacheStands(detail, fetch, sf, ri)
    PROVE  CacheStands(detail, Invalidate(g), sf, ri)
  BY Parts, AskedIs DEF Invalidate, CacheStands, CacheIs, Fetches

LEMMA AnswerAdvancedSurvives ==
    ASSUME Inv, Inv', Survival, NEW i \in DOMAIN wire, AnswerAdvanced(i) PROVE Survival'
<1>1. /\ wire[i].kind = "advanced" /\ wire' = RemoveAt(wire, i)
      /\ fetch' \in {Invalidate(wire[i].graph), fetch}
      /\ UNCHANGED <<stored, detail, editor, made, given, risky, runs>>
  BY DEF AnswerAdvanced, Gone, server, history
<1>2. Wired(wire', editor, made, Safe(stored', given'), stored', risky')
  BY <1>1, Dropped
<1>3. CacheStands(detail, fetch', Safe(stored, given), risky)
  BY <1>1, InvalidateStands DEF Survival
<1> QED
  BY <1>1, <1>2, <1>3 DEF Survival

LEMMA AnswerQuickSurvives ==
    ASSUME Inv, Inv', Survival, NEW i \in DOMAIN wire, AnswerQuick(i) PROVE Survival'
<1> DEFINE r == wire[i]
           sf == Safe(stored', given')
<1>1. /\ r.kind = "quick" /\ wire' = RemoveAt(wire, i)
      /\ IF Succeeded(i)
         THEN editor' = Reset(editor) /\ fetch' = Invalidate(r.graph) /\ given' = given \cup Unsaved
         ELSE UNCHANGED <<editor, fetch>> /\ given' = given \cup r.content
      /\ UNCHANGED <<stored, detail, made, risky, runs>>
  BY DEF AnswerQuick, Gone, server
<1>2. given \subseteq given' /\ risky \subseteq risky'
  BY <1>1
<1>3. /\ Wired(wire, editor, made, sf, stored', risky')
      /\ EditorStands(editor, sf, risky') /\ CacheStands(detail, fetch, sf, risky')
      /\ RunsStand(runs, given', risky')
  BY <1>1, <1>2, Wider
<1>4. r \in Request /\ Stands(r, editor, sf, risky') /\ r.graph \in Graphs
  BY <1>1, <1>3, RequestIs DEF Wired, Fits, Writes
<1>5. r.graph \notin risky' => r.content \subseteq sf[r.graph]
  <2>1. CASE Succeeded(i)
    BY <1>1, <1>4, <2>1 DEF Succeeded, Stands, Writes
  <2>2. CASE ~Succeeded(i)
    BY <1>1, <1>4, <2>2, SafeIs
  <2> QED
    BY <2>1, <2>2
<1>6. Wired(wire', editor, made, sf, stored', risky')
  BY <1>1, <1>2, <1>5, Dropped
<1>7. Succeeded(i) /\ editor.key \in Graphs \ risky' => editor.local \subseteq sf[editor.key]
  BY <1>1, <1>2, UnsavedSafe
<1> HIDE DEF sf
<1>8. Goes(editor, editor', wire', sf, risky') /\ EditorStands(editor', sf, risky')
  <2>1. CASE Succeeded(i)
    <3>1. /\ editor'.key = editor.key /\ editor'.local = editor.local /\ editor'.version = editor.version
          /\ editor'.generation = editor.generation /\ editor'.saveState = "idle"
      BY <1>1, <2>1, NowIs DEF Reset, Editors
    <3>2. editor'.version >= editor.version
      BY <3>1, NowIs DEF Editors
    <3> QED
      BY <1>7, <2>1, <3>1, <3>2, NowIs, GoesAlong DEF EditorStands
  <2>2. CASE ~Succeeded(i)
    <3>1. editor' = editor /\ editor'.version >= editor.version
      BY <1>1, <2>2, NowIs DEF Editors
    <3> QED
      BY <1>3, <3>1, NowIs, GoesAlong
  <2> QED
    BY <2>1, <2>2
<1>9. Wired(wire', editor', made, sf, stored', risky')
  BY <1>6, <1>8, NowIs, ThenIs, WiredGoes
<1>10. CacheStands(detail, fetch', sf, risky')
  BY <1>1, <1>3, InvalidateStands
<1> QED
  BY <1>1, <1>3, <1>8, <1>9, <1>10 DEF Survival, sf

LEMMA AnswerStartSurvives ==
    ASSUME Inv, Inv', Survival, NEW i \in DOMAIN wire, AnswerStart(i) PROVE Survival'
<1>1. /\ wire[i].kind = "start" /\ wire' = RemoveAt(wire, i)
      /\ UNCHANGED <<stored, detail, fetch, editor, made, given, risky, runs>>
  BY DEF AnswerStart, Gone, server, queries, history
<1>2. Wired(wire', editor, made, Safe(stored', given'), stored', risky')
  BY <1>1, Dropped
<1> QED
  BY <1>1, <1>2 DEF Survival

(* A request that carried no canvas is answered and another graph opened. *)
LEMMA OpenSurvives ==
    ASSUME Inv, Inv', Survival, NEW i \in DOMAIN wire, Gone(i), NEW g, Open(g),
           wire[i].kind \notin {"save", "quick"}, UNCHANGED <<stored, detail, made, risky, runs>>
    PROVE  Survival'
<1>1. /\ Render(editor, g, cached) /\ cached \in SUBSET Graphs
      /\ given' = IF editor'.key # editor.key THEN given \cup Unsaved ELSE given
  BY Parts DEF Open, TabFits
<1>2. Wired(wire', editor, made, Safe(stored', given'), stored', risky')
  <2>1. given \subseteq given' /\ risky \subseteq risky'
    BY <1>1
  <2> QED
    BY <2>1, Dropped DEF Gone
<1> QED
  BY <1>1, <1>2, LeaveSurvives

(* The same, and the page stays. *)
LEMMA AnsweredSurvives ==
    ASSUME Inv, Survival, NEW i \in DOMAIN wire, Gone(i), wire[i].kind \notin {"save", "quick"},
           risky \subseteq risky', UNCHANGED <<stored, detail, fetch, editor, made, given, runs>>
    PROVE  Survival'
<1>1. Wired(wire', editor, made, Safe(stored', given'), stored', risky')
  BY Dropped DEF Gone
<1>2. /\ EditorStands(editor, Safe(stored', given'), risky')
      /\ CacheStands(detail, fetch, Safe(stored', given'), risky') /\ RunsStand(runs, given', risky')
  BY Wider
<1> QED
  BY <1>1, <1>2 DEF Survival

LEMMA AnswerCreateSurvives ==
    ASSUME Inv, Inv', Survival, NEW i \in DOMAIN wire, AnswerCreate(i) PROVE Survival'
<1> DEFINE r == wire[i]
           w == RemoveAt(wire, i)
           sf == Safe(stored', given')
<1>1. r.kind = "create" /\ r \in Request /\ UNCHANGED <<stored, detail, made, runs>>
  BY RequestIs DEF AnswerCreate, server
<1>2. CASE Succeeded(i) /\ r.next = "open"
  <2>1. Gone(i) /\ Open(r.graph) /\ UNCHANGED risky
    BY <1>2 DEF AnswerCreate
  <2> QED
    BY <1>1, <2>1, OpenSurvives
<1>3. CASE ~(Succeeded(i) /\ r.next = "open")
  <2> DEFINE q == [r EXCEPT !.kind = "fill", !.next = "nothing", !.state = "sent"]
  <2>1. /\ wire' = IF Succeeded(i) THEN Append(w, q) ELSE w
        /\ risky' = IF Succeeded(i) /\ Behind(r.graph, r.content) THEN risky \cup {r.graph} ELSE risky
        /\ UNCHANGED <<editor, fetch, given>>
    BY <1>3 DEF AnswerCreate
  <2>2. risky \subseteq risky'
    BY <2>1
  <2>3. CASE ~Succeeded(i)
    BY <1>1, <2>1, <2>2, <2>3, AnsweredSurvives DEF Gone
  <2>4. CASE Succeeded(i)
    <3>1. Wired(w, editor, made, sf, stored', risky') /\ w \in Seq(Request)
      BY <1>1, <2>1, <2>2, Dropped
    <3>2. /\ q \in Request /\ q.kind = "fill" /\ q.state = "sent" /\ q.graph = r.graph
          /\ q.content = r.content
      BY <1>1 DEF Request, Writes
    <3>3. wire' = Append(w, q)
      BY <2>1, <2>4
    <3> HIDE DEF q
    <3>4. r.graph \notin risky' =>
              /\ stored[r.graph] \subseteq r.content
              /\ \A j \in DOMAIN wire : wire[j].kind \in Writes /\ wire[j].graph = r.graph
                                            => wire[j].content \subseteq r.content
      BY <2>1, <2>4, BehindIs
    <3>5. r.graph \notin risky' =>
              \A j \in DOMAIN w : w[j].kind \in Writes /\ w[j].graph = r.graph
                                      => w[j].content \subseteq r.content
      <4>1. \A j \in DOMAIN w : \E k \in DOMAIN wire : w[j] = wire[k]
        BY NowIs, Removed
      <4> HIDE DEF w
      <4> QED
        BY <3>4, <4>1
    <3>6. Stands(q, editor, sf, risky') /\ Builds(q, stored', risky')
      BY <1>1, <3>2, <3>4 DEF Stands, Builds
    <3> HIDE DEF w, sf
    <3>7. Wired(wire', editor, made, sf, stored', risky')
      BY <3>1, <3>2, <3>3, <3>5, <3>6, WiredAdds
    <3>8. /\ EditorStands(editor, sf, risky') /\ CacheStands(detail, fetch, sf, risky')
          /\ RunsStand(runs, given', risky')
      BY <1>1, <2>1, <2>2, Wider DEF sf
    <3> QED
      BY <1>1, <2>1, <3>7, <3>8 DEF Survival, sf
  <2> QED
    BY <2>3, <2>4
<1> QED
  BY <1>2, <1>3

LEMMA AnswerFillSurvives ==
    ASSUME Inv, Inv', Survival, NEW i \in DOMAIN wire, AnswerFill(i) PROVE Survival'
<1>1. /\ Gone(i) /\ wire[i].kind = "fill" /\ UNCHANGED <<stored, detail, made, risky, runs>>
      /\ Open(wire[i].graph) \/ UNCHANGED <<editor, fetch, given>>
  BY DEF AnswerFill, server
<1> QED
  BY <1>1, OpenSurvives, AnsweredSurvives

LEMMA AnswerDeleteSurvives ==
    ASSUME Inv, Inv', Survival, NEW i \in DOMAIN wire, AnswerDelete(i) PROVE Survival'
<1>1. /\ Gone(i) /\ wire[i].kind = "delete" /\ UNCHANGED <<stored, detail, made, risky, runs>>
      /\ Open(NoGraph) \/ UNCHANGED <<editor, fetch, given>>
  BY DEF AnswerDelete, server
<1> QED
  BY <1>1, OpenSurvives, AnsweredSurvives

LEMMA AnswerSurvives ==
    ASSUME Inv, Inv', Survival, NEW i \in DOMAIN wire, Answer(i) PROVE Survival'
  BY AnswerSaveSurvives, AnswerAdvancedSurvives, AnswerQuickSurvives, AnswerStartSurvives,
     AnswerCreateSurvives, AnswerFillSurvives, AnswerDeleteSurvives DEF Answer

LEMMA DetailReadSurvives ==
    ASSUME Inv, Inv', Survival, NEW g \in Graphs, DetailRead(g) PROVE Survival'
<1> DEFINE x == Half(stored[g])
           sf == Safe(stored, given)
<1>1. fetch' = [fetch EXCEPT ![g] = x] /\ x.content = stored[g]
      /\ UNCHANGED <<stored, wire, detail, editor, made, given, risky, runs>>
  BY DEF DetailRead, server, history, Half
<1>2. stored[g] \subseteq sf[g] /\ CacheStands(detail, fetch, sf, risky) /\ fetch \in Fetches
  BY SafeIs, Parts DEF Survival, CacheIs
<1> HIDE DEF x, sf
<1>3. CacheStands(detail, fetch', sf, risky)
  BY <1>1, <1>2 DEF CacheStands, Fetches
<1> QED
  BY <1>1, <1>3 DEF Survival, sf

LEMMA DetailNodesSurvives ==
    ASSUME Inv, Inv', Survival, NEW g \in Graphs, DetailNodes(g) PROVE Survival'
<1> DEFINE a == fetch[g].content
           sf == Safe(stored, given)
<1>1. /\ fetch[g].state = "half"
      /\ UNCHANGED <<stored, wire, detail, editor, made, given, risky, runs>>
  BY DEF DetailNodes, server, history
<1>2. PICK c \in Torn(a, IF g \in list THEN stored[g] ELSE {}) : fetch' = [fetch EXCEPT ![g] = Read(c)]
  BY DEF DetailNodes
<1>3. stored[g] \subseteq sf[g] /\ CacheStands(detail, fetch, sf, risky) /\ fetch \in Fetches
  BY SafeIs, Parts DEF Survival, CacheIs
<1>4. g \notin risky => c \subseteq sf[g]
  BY <1>1, <1>2, <1>3 DEF Torn, CacheStands
<1> DEFINE x == Read(c)
<1>5. x.content = c /\ fetch' = [fetch EXCEPT ![g] = x]
  BY <1>2 DEF Read
<1> HIDE DEF a, sf, x
<1>6. CacheStands(detail, fetch', sf, risky)
  BY <1>3, <1>4, <1>5 DEF CacheStands, Fetches
<1> QED
  BY <1>1, <1>6 DEF Survival, sf

LEMMA DetailArrivesSurvives ==
    ASSUME Inv, Inv', Survival, NEW g \in Graphs, DetailArrives(g) PROVE Survival'
<1> DEFINE c == fetch[g].content
           sf == Safe(stored, given)
<1>1. /\ fetch' = [fetch EXCEPT ![g] = Idle] /\ detail' = [detail EXCEPT ![g] = {c}]
      /\ editor' = IF g = editor.key THEN Rendered(editor, g, detail[g], {c}) ELSE editor
      /\ UNCHANGED <<stored, wire, made, given, risky, runs>>
  BY DEF DetailArrives, server, history
<1>2. /\ Wired(wire, editor, made, sf, stored, risky) /\ EditorStands(editor, sf, risky)
      /\ CacheStands(detail, fetch, sf, risky) /\ detail \in Cached /\ fetch \in Fetches
  BY Parts DEF Survival, CacheIs
<1>3. g \notin risky => c \subseteq sf[g]
  BY <1>2 DEF DetailArrives, CacheStands
<1>4. UNION {c} = c
  OBVIOUS
<1> HIDE DEF c, sf
<1>5. CacheStands(detail', fetch', sf, risky)
  <2>1. ASSUME NEW h \in Graphs \ risky
        PROVE  /\ UNION detail'[h] \subseteq sf[h]
               /\ fetch'[h].state \in {"half", "read"} => fetch'[h].content \subseteq sf[h]
    <3>1. CASE h = g
      BY <1>1, <1>2, <1>3, <1>4, <3>1, IdleIs DEF Cached, Fetches
    <3>2. CASE h # g
      BY <1>1, <1>2, <3>2 DEF Cached, Fetches, CacheStands
    <3> QED
      BY <3>1, <3>2
  <2> QED
    BY <2>1 DEF CacheStands
<1>6. Goes(editor, editor', wire, sf, risky) /\ EditorStands(editor', sf, risky)
  <2>1. CASE g = editor.key
    BY <1>1, <1>2, <1>3, <1>4, <2>1, NowIs, RenderedStands
  <2>2. CASE g # editor.key
    <3>1. editor' = editor /\ editor'.version >= editor.version
      BY <1>1, <2>2, NowIs DEF Editors
    <3> QED
      BY <1>2, <3>1, NowIs, GoesAlong
  <2> QED
    BY <2>1, <2>2
<1>7. Wired(wire, editor', made, sf, stored, risky)
  BY <1>2, <1>6, NowIs, ThenIs, WiredGoes
<1> QED
  BY <1>1, <1>5, <1>6, <1>7 DEF Survival, sf

LEMMA DetailFailsSurvives ==
    ASSUME Inv, Inv', Survival, NEW g \in Graphs, DetailFails(g) PROVE Survival'
<1>1. /\ fetch' = [fetch EXCEPT ![g] = Idle]
      /\ UNCHANGED <<stored, wire, detail, editor, made, given, risky, runs>>
  BY DEF DetailFails, server, history
<1>2. CacheStands(detail, fetch', Safe(stored, given), risky)
  BY <1>1, Parts, IdleIs DEF Survival, CacheStands, CacheIs, Fetches
<1> QED
  BY <1>1, <1>2 DEF Survival

LEMMA CollectSurvives == ASSUME Inv, Inv', Survival, NEW g \in Graphs, Collect(g) PROVE Survival'
<1>1. /\ detail' = [detail EXCEPT ![g] = {}]
      /\ UNCHANGED <<stored, wire, fetch, editor, made, given, risky, runs>>
  BY DEF Collect, server, history, NotLoaded
<1>2. UNION {} = {}
  OBVIOUS
<1>3. CacheStands(detail', fetch, Safe(stored, given), risky)
  BY <1>1, <1>2, Parts DEF Survival, CacheStands, CacheIs, Cached
<1> QED
  BY <1>1, <1>3 DEF Survival

-----------------------------------------------------------------------------
LEMMA NextSurvives == ASSUME Inv, Inv', Survival, Next PROVE Survival'
<1>1. ASSUME StartNodes \/ CopyGraph PROVE Survival'
  BY <1>1, FlushThenSurvives DEF StartNodes, CopyGraph
<1>2. ASSUME NEW e \in Edits, Edit(e) \/ QuickConfig(e) PROVE Survival'
  BY <1>2, EditSurvives, QuickConfigSurvives
<1>3. ASSUME AutoSave \/ SaveNow \/ CreateGraph \/ DeleteGraph \/ SaveAdvanced PROVE Survival'
  BY <1>3, AutoSaveSurvives, SaveNowSurvives, CreateGraphSurvives, DeleteGraphSurvives,
     SaveAdvancedSurvives
<1>4. ASSUME NEW g \in Graphs, Select(g) \/ FollowLink(g) PROVE Survival'
  BY <1>4, SelectSurvives, FollowLinkSurvives
<1>5. ASSUME NEW i \in DOMAIN wire, Fail(i) \/ Answer(i) \/ \E g \in Graphs : Serve(i, g)
      PROVE  Survival'
  BY <1>5, FailSurvives, AnswerSurvives, ServeSurvives
<1>6. ASSUME NEW g \in Graphs,
             DetailRead(g) \/ DetailNodes(g) \/ DetailArrives(g) \/ DetailFails(g) \/ Collect(g)
      PROVE  Survival'
  BY <1>6, DetailReadSurvives, DetailNodesSurvives, DetailArrivesSurvives, DetailFailsSurvives, CollectSurvives
<1> QED
  BY <1>1, <1>2, <1>3, <1>4, <1>5, <1>6, ListAnsweredSurvives DEF Next

LEMMA StutterSurvives == ASSUME Survival, UNCHANGED vars PROVE Survival'
  BY DEF vars, Survival

LEMMA InitSurvives == ASSUME Init PROVE Survival
<1>1. /\ wire = <<>> /\ made = [g \in Graphs |-> {}] /\ runs = {} /\ fetch = [g \in Graphs |-> Idle]
      /\ editor.local = {} /\ editor.saveState = "idle"
      /\ detail = [g \in Graphs |-> IF g = Shown(NoGraph, Initial) THEN {{}} ELSE NotLoaded]
  BY DEF Init
<1>2. Wired(wire, editor, made, Safe(stored, given), stored, risky)
  BY <1>1 DEF Wired, InOrder, Accounted
<1>3. UNION {{}} = {} /\ UNION NotLoaded = {}
  BY DEF NotLoaded
<1>4. CacheStands(detail, fetch, Safe(stored, given), risky)
  BY <1>1, <1>3, IdleIs DEF CacheStands
<1> QED
  BY <1>1, <1>2, <1>4 DEF Survival, EditorStands, RunsStand

(* In every reachable state each edit is where the invariant says it is.     *)
THEOREM Survives == Spec => []Survival
<1>1. Inv /\ Inv' /\ Survival /\ [Next]_vars => Survival'
  BY NextSurvives, StutterSurvives
<1> QED
  BY InitSurvives, <1>1, Invariant, PTL DEF Spec

(* However gestures, timers, served requests, answers and refreshes follow   *)
(* each other, an edit is stored, on its way or on the open canvas, apart    *)
(* from what was given up and the graphs that were overwritten knowingly     *)
(* (doSave sends the whole canvas, its answer clears what it was sent for).  *)
THEOREM EditsSurvive == Spec => []EditsAccounted
<1>1. Survival => EditsAccounted
  <2> SUFFICES ASSUME Survival, NEW g \in Graphs \ risky, NEW e \in made[g]
               PROVE  e \in stored[g] \cup OnWire(g) \cup given
                                \cup (IF editor.key = g THEN editor.local ELSE {})
    BY DEF EditsAccounted
  <2>1. Somewhere(e, g, wire, editor, Safe(stored, given))
    BY DEF Survival, Wired, Accounted
  <2>2. ASSUME NEW j \in DOMAIN wire, wire[j].kind \in {"save", "quick"}, wire[j].graph = g,
               e \in wire[j].content
        PROVE  e \in OnWire(g)
    <3>1. j \in Pending(g)
      BY <2>2 DEF Pending, Writes
    <3> QED
      BY <2>2, <3>1 DEF OnWire
  <2> QED
    BY <2>1, <2>2, SafeIs DEF Somewhere
<1> QED
  BY <1>1, Survives, PTL

(* While the page shows "saved", what the canvas shows is stored: later      *)
(* requests of the same graph take nothing away from it.                     *)
THEOREM SavedStays == Spec => []SavedIsStored
<1>1. Inv /\ Survival => SavedIsStored
  <2> SUFFICES ASSUME Inv, Survival, editor.saveState = "saved", editor.key \notin risky
               PROVE  editor.local \subseteq stored[editor.key] \cup given
    BY DEF SavedIsStored
  <2>1. editor.key \in Graphs /\ ~editor.dirty
    BY DEF Inv, EditorFits, Survival, EditorStands
  <2> QED
    BY <2>1, SafeIs DEF Survival, EditorStands
<1> QED
  BY <1>1, Invariant, Survives, PTL

(* startNodes waits for its flush: a run it asks for after an accepted one   *)
(* uses the graph with everything the canvas showed.                         *)
THEOREM RunsUseTheirCanvas == Spec => []RunsUseCanvas
<1>1. Survival => RunsUseCanvas
  BY DEF Survival, RunsStand, RunsUseCanvas
<1> QED
  BY <1>1, Survives, PTL
=============================================================================
