--------------------------- MODULE DatabaseProofs ---------------------------
(***************************************************************************)
(* The graph behind a database handle for every set of ids, labels, types  *)
(* and values, every batch of nodes, edges and links, and every table an   *)
(* older version can have left: the adjacency tables hold exactly the      *)
(* edges, no edge dangles, the indexes answer as a scan would, and no id   *)
(* is given twice.                                                         *)
(*                                                                         *)
(* None of these is inductive.  What an index holds is right only because  *)
(* every operation removes what it put there (IndexSound), which a torn    *)
(* rebuild keeps too, and complete only with the marker and no tear        *)
(* (IndexComplete).  A loop writes ids it reserved some steps before: they *)
(* are below the counter, above every committed one, and still free        *)
(* (LoopInv).  What the open transaction holds beyond the committed data   *)
(* has ids from the committed counters on (Later).                         *)
(***************************************************************************)
EXTENDS Database, FiniteSetTheorems, TLAPS

\* The rows an edge has in the two adjacency tables.
OutRow(g, e) == <<g.edges[e].from, g.edges[e].type, g.edges[e].to, e>>
InRow(g, e) == <<g.edges[e].to, g.edges[e].type, g.edges[e].from, e>>

Adjacent(g) ==
    /\ \A e \in LiveEdges(g) : OutRow(g, e) \in g.out /\ InRow(g, e) \in g.in
    /\ \A r \in g.out : r[4] \in LiveEdges(g) /\ r = OutRow(g, r[4])
    /\ \A r \in g.in : r[4] \in LiveEdges(g) /\ r = InRow(g, r[4])

Joined(g) ==
    \A e \in LiveEdges(g) : g.edges[e].from \in LiveNodes(g) /\ g.edges[e].to \in LiveNodes(g)

Counted(g) ==
    /\ \A n \in LiveNodes(g) : n < g.nextNode
    /\ \A e \in LiveEdges(g) : e < g.nextEdge

IndexSound(g) ==
    /\ \A l \in g.reg : l \notin LongLabels
    /\ \A r \in g.labels : r[2] \in LiveNodes(g) /\ g.nodes[r[2]].label = r[1]
    /\ \A r \in g.props :
           /\ r[1] \in g.reg /\ r[3] \in LiveNodes(g)
           /\ g.nodes[r[3]].label = r[1] /\ g.nodes[r[3]].prop = r[2]

IndexComplete(g) ==
    /\ ~g.torn /\ g.marker =>
           \A n \in LiveNodes(g) : g.nodes[n].label \notin LongLabels =>
               <<g.nodes[n].label, n>> \in g.labels
    /\ ~g.torn => \A n \in LiveNodes(g) :
           g.nodes[n].label \in g.reg /\ g.nodes[n].prop \in Keyable =>
               <<g.nodes[n].label, g.nodes[n].prop, n>> \in g.props

GraphInv(g) ==
    /\ g \in GraphStore
    /\ Adjacent(g) /\ Joined(g) /\ Counted(g)
    /\ IndexSound(g) /\ IndexComplete(g)

\* What h holds beyond g has ids from g's counters on.
Later(g, h) ==
    /\ g.nextNode <= h.nextNode /\ g.nextEdge <= h.nextEdge
    /\ \A n \in LiveNodes(h) : n \in LiveNodes(g) \/ n >= g.nextNode
    /\ \A e \in LiveEdges(h) : e \in LiveEdges(g) \/ e >= g.nextEdge

\* The ids a loop has left to write.
Ahead == stmt.next .. (stmt.next + Len(stmt.todo) - 1)

LoopInv ==
    /\ stmt.op = "nodes" =>
           /\ db.graph.nextNode <= stmt.next
           /\ \A n \in Ahead : /\ n \in NodeIds \ LiveNodes(work.graph)
                               /\ n < work.graph.nextNode
    /\ stmt.op = "edges" =>
           /\ db.graph.nextEdge <= stmt.next
           /\ \A e \in Ahead : /\ e \in EdgeIds \ LiveEdges(work.graph)
                               /\ e < work.graph.nextEdge
    /\ stmt.op = "collect" => stmt.at >= 1
    /\ stmt.op = "delete" => stmt.at <= Len(stmt.found)

IInv ==
    /\ TypeOK
    /\ GraphInv(db.graph) /\ GraphInv(work.graph)
    /\ Later(db.graph, work.graph)
    /\ LoopInv

-----------------------------------------------------------------------------
\* The operators over one graph.

\* The fields of a graph, and the graphs that have them.
LEMMA Fields ==
  ASSUME NEW g \in GraphStore
  PROVE  /\ g.nodes \in [NodeIds -> Node \cup {None}] /\ g.edges \in [EdgeIds -> Edge \cup {None}]
         /\ g.out \subseteq NodeIds \X Types \X NodeIds \X EdgeIds
         /\ g.in \subseteq NodeIds \X Types \X NodeIds \X EdgeIds
         /\ g.labels \subseteq Labels \X NodeIds /\ g.marker \in BOOLEAN
         /\ g.reg \subseteq Labels /\ g.props \subseteq Labels \X Keyable \X NodeIds
         /\ g.nextNode \in Nat /\ g.nextEdge \in Nat /\ g.torn \in BOOLEAN
  BY DEF GraphStore

LEMMA LiveTyped ==
  ASSUME NEW g \in GraphStore
  PROVE  /\ \A n \in LiveNodes(g) : n \in NodeIds /\ g.nodes[n] \in Node
         /\ \A e \in LiveEdges(g) : e \in EdgeIds /\ g.edges[e] \in Edge
  BY Fields DEF LiveNodes, LiveEdges

LEMMA NoneIsNoItem == None \notin Node /\ None \notin Edge
  BY GraphAssumption DEF Node, Edge

LEMMA ReserveType ==
  ASSUME NEW next \in Nat
  PROVE  Reserve(next) \in Nat /\ Reserve(next) >= next /\ Reserve(next) >= 1
  BY DEF Reserve

LEMMA LaterReflexive == ASSUME NEW g \in GraphStore PROVE Later(g, g)
  BY Fields DEF Later

LEMMA LaterTransitive ==
  ASSUME NEW f \in GraphStore, NEW g \in GraphStore, NEW h \in GraphStore,
         Later(f, g), Later(g, h)
  PROVE  Later(f, h)
<1> USE GraphAssumption, Fields DEF Later
<1>1. ASSUME NEW n \in LiveNodes(h) PROVE n \in LiveNodes(f) \/ n >= f.nextNode
  BY <1>1 DEF LiveNodes
<1>2. ASSUME NEW e \in LiveEdges(h) PROVE e \in LiveEdges(f) \/ e >= f.nextEdge
  BY <1>2 DEF LiveEdges
<1> QED
  BY <1>1, <1>2

\* An edit of the two indexes.
LEMMA IndexEdit ==
  ASSUME NEW g \in GraphStore, NEW ls \in SUBSET (Labels \X NodeIds),
         NEW ps \in SUBSET (Labels \X Keyable \X NodeIds)
  PROVE  LET h == [g EXCEPT !.labels = ls, !.props = ps]
         IN  /\ h \in GraphStore
             /\ h.nodes = g.nodes /\ h.edges = g.edges /\ h.out = g.out /\ h.in = g.in
             /\ h.labels = ls /\ h.props = ps
             /\ h.marker = g.marker /\ h.reg = g.reg /\ h.torn = g.torn
             /\ h.nextNode = g.nextNode /\ h.nextEdge = g.nextEdge
  BY DEF GraphStore

\* What no operation that leaves the edges alone can break.
LEMMA SameEdges ==
  ASSUME NEW g, NEW h, GraphInv(g), h \in GraphStore,
         h.edges = g.edges, h.out = g.out, h.in = g.in, h.nextEdge >= g.nextEdge
  PROVE  Adjacent(h) /\ LiveEdges(h) = LiveEdges(g) /\ \A e \in LiveEdges(h) : e < h.nextEdge
<1>1. LiveEdges(h) = LiveEdges(g)
  BY DEF LiveEdges
<1>2. Adjacent(h)
  BY <1>1 DEF GraphInv, Adjacent, OutRow, InRow
<1>3. ASSUME NEW e \in LiveEdges(h) PROVE e < h.nextEdge
  BY <1>1, <1>3, Fields, GraphAssumption DEF GraphInv, Counted, LiveEdges
<1> QED
  BY <1>1, <1>2, <1>3

\* Nor one that leaves the nodes and the indexes alone.
LEMMA SameNodes ==
  ASSUME NEW g, NEW h, GraphInv(g), h \in GraphStore,
         h.nodes = g.nodes, h.labels = g.labels, h.marker = g.marker, h.reg = g.reg,
         h.props = g.props, h.torn = g.torn, h.nextNode = g.nextNode
  PROVE  /\ IndexSound(h) /\ IndexComplete(h) /\ LiveNodes(h) = LiveNodes(g)
         /\ \A n \in LiveNodes(h) : n < h.nextNode
<1>1. LiveNodes(h) = LiveNodes(g)
  BY DEF LiveNodes
<1> QED
  BY <1>1 DEF GraphInv, IndexSound, IndexComplete, Counted

\* before_first_nodes and the reservation of a block of ids.
LEMMA ReserveNodes ==
  ASSUME NEW g, GraphInv(g), NEW k \in Nat
  PROVE  LET base == Reserve(BeforeFirst(g).nextNode)
             h == [BeforeFirst(g) EXCEPT !.nextNode = base + k]
         IN  /\ GraphInv(h) /\ Later(g, h) /\ LiveNodes(h) = LiveNodes(g)
             /\ base \in Nat /\ base >= g.nextNode /\ h.nextNode = base + k
<1> DEFINE f == BeforeFirst(g)
           base == Reserve(f.nextNode)
           h == [f EXCEPT !.nextNode = base + k]
<1> SUFFICES /\ GraphInv(h) /\ Later(g, h) /\ LiveNodes(h) = LiveNodes(g)
             /\ base \in Nat /\ base >= g.nextNode /\ h.nextNode = base + k
  OBVIOUS
<1>0. g \in GraphStore
  BY DEF GraphInv
<1>a. /\ f \in GraphStore
      /\ f.nodes = g.nodes /\ f.edges = g.edges /\ f.out = g.out /\ f.in = g.in
      /\ f.labels = g.labels /\ f.reg = g.reg /\ f.props = g.props /\ f.torn = g.torn
      /\ f.nextEdge = g.nextEdge /\ f.nextNode = g.nextNode
      /\ f.marker = (g.marker \/ g.nextNode = 0)
  BY <1>0 DEF BeforeFirst, GraphStore
<1> HIDE DEF f
<1>1. base \in Nat /\ base >= g.nextNode
  BY <1>0, <1>a, Fields, ReserveType
<1> HIDE DEF base
<1>2. /\ h \in GraphStore
      /\ h.nodes = g.nodes /\ h.edges = g.edges /\ h.out = g.out /\ h.in = g.in
      /\ h.labels = g.labels /\ h.reg = g.reg /\ h.props = g.props /\ h.torn = g.torn
      /\ h.nextEdge = g.nextEdge /\ h.nextNode = base + k
      /\ h.marker = (g.marker \/ g.nextNode = 0)
  BY <1>a, <1>1 DEF GraphStore
<1> HIDE DEF h
<1>3. LiveNodes(h) = LiveNodes(g)
  BY <1>2 DEF LiveNodes
<1>4. Adjacent(h) /\ LiveEdges(h) = LiveEdges(g) /\ \A e \in LiveEdges(h) : e < h.nextEdge
  BY <1>0, <1>2, Fields, SameEdges
<1>5. \A n \in LiveNodes(h) : n < g.nextNode /\ n < h.nextNode /\ n \in Nat
  BY <1>0, <1>1, <1>2, <1>3, Fields, GraphAssumption DEF GraphInv, Counted, LiveNodes
<1>6. Joined(h) /\ Counted(h) /\ IndexSound(h)
  BY <1>2, <1>3, <1>4, <1>5 DEF GraphInv, Joined, Counted, IndexSound
<1>7. IndexComplete(h)
  <2>1. CASE g.nextNode = 0
    <3>1. LiveNodes(h) = {}
      BY <1>5, <2>1
    <3> QED
      BY <3>1 DEF IndexComplete
  <2>2. CASE g.nextNode # 0
    BY <2>2, <1>2, <1>3 DEF GraphInv, IndexComplete
  <2> QED
    BY <2>1, <2>2
<1>8. Later(g, h)
  BY <1>0, <1>1, <1>2, <1>3, <1>4, Fields DEF Later
<1> QED
  BY <1>1, <1>2, <1>3, <1>4, <1>6, <1>7, <1>8 DEF GraphInv

\* One node of a bulk, under an id that is reserved and free.
LEMMA PutNodeStep ==
  ASSUME NEW g, GraphInv(g), NEW n \in NodeIds \ LiveNodes(g), n < g.nextNode, NEW node \in Node
  PROVE  LET h == PutNode(g, n, node).t
         IN  /\ GraphInv(h) /\ LiveNodes(h) = LiveNodes(g) \cup {n}
             /\ LiveEdges(h) = LiveEdges(g)
             /\ h.nextNode = g.nextNode /\ h.nextEdge = g.nextEdge
<1> DEFINE h == PutNode(g, n, node).t
           fits == node.label \notin LongLabels
<1> SUFFICES /\ GraphInv(h) /\ LiveNodes(h) = LiveNodes(g) \cup {n}
             /\ LiveEdges(h) = LiveEdges(g)
             /\ h.nextNode = g.nextNode /\ h.nextEdge = g.nextEdge
  OBVIOUS
<1>0. g \in GraphStore /\ n \in NodeIds
  BY DEF GraphInv
<1>a. node.label \in Labels /\ node.prop \in Vals \cup {Absent}
  BY DEF Node
<1>1. /\ h.nodes = [g.nodes EXCEPT ![n] = node]
      /\ h.edges = g.edges /\ h.out = g.out /\ h.in = g.in
      /\ h.marker = g.marker /\ h.reg = g.reg /\ h.torn = g.torn
      /\ h.nextNode = g.nextNode /\ h.nextEdge = g.nextEdge
  BY <1>0 DEF PutNode, OnInsert, Broken, Done, GraphStore
<1>2. /\ h.labels = IF fits THEN g.labels \cup {<<node.label, n>>} ELSE g.labels
      /\ h.props = IF fits THEN g.props \cup PropEntries(g, n, node) ELSE g.props
  BY <1>0 DEF PutNode, OnInsert, Broken, Done, GraphStore, PropEntries
<1>3. PropEntries(g, n, node) =
        IF node.prop \in Keyable /\ node.label \in g.reg THEN {<<node.label, node.prop, n>>} ELSE {}
  BY DEF PropEntries
<1>4. h \in GraphStore
  <2>1. PropEntries(g, n, node) \subseteq Labels \X Keyable \X NodeIds
    BY <1>0, <1>3, <1>a
  <2>2. /\ [g.nodes EXCEPT ![n] = node] \in [NodeIds -> Node \cup {None}]
        /\ {<<node.label, n>>} \subseteq Labels \X NodeIds
    BY <1>0, <1>a, Fields
  <2> DEFINE f == [g EXCEPT !.nodes[n] = node]
  <2>3. f \in GraphStore /\ f.labels = g.labels /\ f.props = g.props /\ f.reg = g.reg
    BY <1>0, <2>2 DEF GraphStore
  <2> HIDE DEF f
  <2>4. PropEntries(f, n, node) = PropEntries(g, n, node)
    BY <2>3 DEF PropEntries
  <2>5. h = IF fits THEN [f EXCEPT !.labels = @ \cup {<<node.label, n>>},
                                   !.props = @ \cup PropEntries(g, n, node)]
            ELSE f
    BY <2>4 DEF PutNode, OnInsert, Broken, Done, f
  <2>6. CASE fits
    <3> DEFINE ls == f.labels \cup {<<node.label, n>>}
               ps == f.props \cup PropEntries(g, n, node)
    <3>1. ls \in SUBSET (Labels \X NodeIds) /\ ps \in SUBSET (Labels \X Keyable \X NodeIds)
      BY <2>1, <2>2, <2>3, Fields
    <3>2. h = [f EXCEPT !.labels = ls, !.props = ps]
      BY <2>5, <2>6
    <3> HIDE DEF h, ls, ps
    <3>3. [f EXCEPT !.labels = ls, !.props = ps] \in GraphStore
      BY <2>3, <3>1, IndexEdit
    <3> QED
      BY <3>2, <3>3
  <2> QED
    BY <2>3, <2>5, <2>6
<1> HIDE DEF h, fits
<1>5. /\ LiveNodes(h) = LiveNodes(g) \cup {n}
      /\ \A m \in LiveNodes(g) : m # n /\ h.nodes[m] = g.nodes[m]
      /\ h.nodes[n] = node
  BY <1>0, <1>1, Fields, NoneIsNoItem DEF LiveNodes
<1>6. Adjacent(h) /\ LiveEdges(h) = LiveEdges(g) /\ \A e \in LiveEdges(h) : e < h.nextEdge
  BY <1>0, <1>1, <1>4, Fields, SameEdges
<1>7. Joined(h) /\ Counted(h)
  BY <1>1, <1>5, <1>6 DEF GraphInv, Joined, Counted
<1>8. IndexSound(h)
  <2>1. ASSUME NEW r \in h.labels PROVE r[2] \in LiveNodes(h) /\ h.nodes[r[2]].label = r[1]
    BY <1>2, <1>5 DEF GraphInv, IndexSound
  <2>2. ASSUME NEW r \in h.props
        PROVE  /\ r[1] \in h.reg /\ r[3] \in LiveNodes(h)
               /\ h.nodes[r[3]].label = r[1] /\ h.nodes[r[3]].prop = r[2]
    BY <1>1, <1>2, <1>3, <1>5 DEF GraphInv, IndexSound
  <2> QED
    BY <1>1, <2>1, <2>2 DEF GraphInv, IndexSound
<1>9. IndexComplete(h)
  <2>1. ASSUME ~h.torn, h.marker, NEW m \in LiveNodes(h), h.nodes[m].label \notin LongLabels
        PROVE  <<h.nodes[m].label, m>> \in h.labels
    BY <1>1, <1>2, <1>5, <2>1 DEF GraphInv, IndexComplete, fits
  <2>2. ASSUME ~h.torn, NEW m \in LiveNodes(h),
               h.nodes[m].label \in h.reg, h.nodes[m].prop \in Keyable
        PROVE  <<h.nodes[m].label, h.nodes[m].prop, m>> \in h.props
    BY <1>1, <1>2, <1>3, <1>5, <2>2 DEF GraphInv, IndexComplete, IndexSound, fits
  <2> QED
    BY <2>1, <2>2 DEF IndexComplete
<1> QED
  BY <1>1, <1>4, <1>5, <1>6, <1>7, <1>8, <1>9 DEF GraphInv

\* A set of edges removed from the three tables they are in.
LEMMA CutEdges ==
  ASSUME NEW g, GraphInv(g), NEW S \in SUBSET EdgeIds, NEW h \in GraphStore,
         h.edges = [e \in EdgeIds |-> IF e \in S THEN None ELSE g.edges[e]],
         h.out = {r \in g.out : r[4] \notin S}, h.in = {r \in g.in : r[4] \notin S},
         h.nodes = g.nodes, h.labels = g.labels, h.marker = g.marker, h.reg = g.reg,
         h.props = g.props, h.torn = g.torn, h.nextNode = g.nextNode, h.nextEdge = g.nextEdge
  PROVE  /\ GraphInv(h) /\ Later(g, h)
         /\ LiveNodes(h) = LiveNodes(g) /\ LiveEdges(h) = LiveEdges(g) \ S
         /\ \A e \in LiveEdges(h) : h.edges[e] = g.edges[e]
<1>0. g \in GraphStore
  BY DEF GraphInv
<1>1. LiveEdges(h) = LiveEdges(g) \ S /\ \A e \in LiveEdges(h) : h.edges[e] = g.edges[e]
  BY DEF LiveEdges
<1>2. IndexSound(h) /\ IndexComplete(h) /\ LiveNodes(h) = LiveNodes(g)
      /\ \A n \in LiveNodes(h) : n < h.nextNode
  BY SameNodes
<1>3. Adjacent(h)
  <2>1. \A e \in LiveEdges(h) : OutRow(h, e) = OutRow(g, e) /\ InRow(h, e) = InRow(g, e)
    BY <1>1 DEF OutRow, InRow
  <2>2. ASSUME NEW e \in LiveEdges(h) PROVE OutRow(h, e) \in h.out /\ InRow(h, e) \in h.in
    <3>1. OutRow(g, e)[4] = e /\ InRow(g, e)[4] = e
      BY DEF OutRow, InRow
    <3> QED
      BY <1>1, <2>1, <3>1 DEF GraphInv, Adjacent
  <2>3. ASSUME NEW r \in h.out PROVE r[4] \in LiveEdges(h) /\ r = OutRow(h, r[4])
    BY <1>1, <2>1 DEF GraphInv, Adjacent
  <2>4. ASSUME NEW r \in h.in PROVE r[4] \in LiveEdges(h) /\ r = InRow(h, r[4])
    BY <1>1, <2>1 DEF GraphInv, Adjacent
  <2> QED
    BY <2>2, <2>3, <2>4 DEF Adjacent
<1>4. Joined(h) /\ Counted(h)
  BY <1>1, <1>2 DEF GraphInv, Joined, Counted
<1>5. Later(g, h)
  BY <1>0, <1>1, <1>2, Fields DEF Later
<1> QED
  BY <1>1, <1>2, <1>3, <1>4, <1>5 DEF GraphInv

\* The first scan of delete_node_in.
LEMMA CutOutStep ==
  ASSUME NEW g, GraphInv(g), NEW n
  PROVE  LET h == CutOut(g, n)
         IN  /\ GraphInv(h) /\ Later(g, h) /\ LiveNodes(h) = LiveNodes(g) /\ h.nodes = g.nodes
             /\ \A e \in LiveEdges(h) : /\ e \in LiveEdges(g) /\ h.edges[e] = g.edges[e]
                                        /\ g.edges[e].from # n
<1> DEFINE h == CutOut(g, n)
           rows == {r \in g.out : r[1] = n}
           S == {e \in LiveEdges(g) : g.edges[e].from = n}
           es == [e \in EdgeIds |-> IF \E r \in rows : r[4] = e THEN None ELSE g.edges[e]]
           here == g.out \ rows
           there == g.in \ {<<r[3], r[2], n, r[4]>> : r \in rows}
<1> SUFFICES /\ GraphInv(h) /\ Later(g, h) /\ LiveNodes(h) = LiveNodes(g) /\ h.nodes = g.nodes
             /\ \A e \in LiveEdges(h) : /\ e \in LiveEdges(g) /\ h.edges[e] = g.edges[e]
                                        /\ g.edges[e].from # n
  OBVIOUS
<1>0. g \in GraphStore
  BY DEF GraphInv
<1>1. h = [g EXCEPT !.edges = es, !.out = here, !.in = there]
  BY <1>0 DEF CutOut, GraphStore
<1>2. S \in SUBSET EdgeIds /\ \A e \in LiveEdges(g) : e \in S <=> g.edges[e].from = n
  BY DEF LiveEdges
<1>3. /\ here = {r \in g.out : r[4] \notin S} /\ there = {r \in g.in : r[4] \notin S}
      /\ \A e \in EdgeIds : (\E r \in rows : r[4] = e) <=> e \in S
  <2>0. /\ \A r \in g.out : r[4] \in LiveEdges(g)
                          /\ r = <<g.edges[r[4]].from, g.edges[r[4]].type, g.edges[r[4]].to, r[4]>>
        /\ \A r \in g.in : r[4] \in LiveEdges(g)
                         /\ r = <<g.edges[r[4]].to, g.edges[r[4]].type, g.edges[r[4]].from, r[4]>>
        /\ \A e \in LiveEdges(g) :
               <<g.edges[e].from, g.edges[e].type, g.edges[e].to, e>> \in g.out
    BY DEF GraphInv, Adjacent, OutRow, InRow
  <2>1. g.out \ rows = {r \in g.out : r[4] \notin S}
    BY <2>0
  <2>2. ASSUME NEW e \in EdgeIds PROVE (\E r \in rows : r[4] = e) <=> e \in S
    <3>1. ASSUME NEW r \in rows, r[4] = e PROVE e \in S
      BY <2>0, <3>1
    <3>2. ASSUME e \in S PROVE \E r \in rows : r[4] = e
      <4> DEFINE row == <<g.edges[e].from, g.edges[e].type, g.edges[e].to, e>>
      <4>1. row \in g.out /\ row[1] = n /\ row[4] = e
        BY <2>0, <3>2
      <4> QED
        BY <4>1
    <3> QED
      BY <3>1, <3>2
  <2>3. ASSUME NEW q \in g.in
        PROVE  q[4] \in S <=> \E r \in rows : q = <<r[3], r[2], n, r[4]>>
    <3>1. ASSUME NEW r \in rows, q = <<r[3], r[2], n, r[4]>> PROVE q[4] \in S
      <4>1. q[4] = r[4]
        BY <3>1
      <4> QED
        BY <2>0, <4>1
    <3>2. ASSUME q[4] \in S PROVE \E r \in rows : q = <<r[3], r[2], n, r[4]>>
      <4> DEFINE edge == g.edges[q[4]]
                 row == <<edge.from, edge.type, edge.to, q[4]>>
      <4>1. q[4] \in LiveEdges(g) /\ edge.from = n
        BY <3>2
      <4>2. row \in g.out /\ row[1] = edge.from /\ row[2] = edge.type /\ row[3] = edge.to
            /\ row[4] = q[4]
        BY <2>0, <4>1
      <4>3. row \in rows
        BY <4>1, <4>2
      <4>4. q = <<edge.to, edge.type, edge.from, q[4]>>
        BY <2>0
      <4>5. q = <<row[3], row[2], n, row[4]>>
        BY <4>1, <4>2, <4>4
      <4> QED
        BY <4>3, <4>5
    <3> QED
      BY <3>1, <3>2
  <2>4. g.in \ {<<r[3], r[2], n, r[4]>> : r \in rows} = {r \in g.in : r[4] \notin S}
    BY <2>3
  <2> QED
    BY <2>1, <2>2, <2>4
<1>4. es = [e \in EdgeIds |-> IF e \in S THEN None ELSE g.edges[e]]
  BY <1>3
<1> HIDE DEF h, rows, S, es, here, there
<1>5. /\ es \in [EdgeIds -> Edge \cup {None}]
      /\ here \in SUBSET (NodeIds \X Types \X NodeIds \X EdgeIds)
      /\ there \in SUBSET (NodeIds \X Types \X NodeIds \X EdgeIds)
  BY <1>0, <1>3, <1>4, Fields
<1>6. /\ h \in GraphStore
      /\ h.nodes = g.nodes /\ h.edges = es /\ h.out = here /\ h.in = there
      /\ h.labels = g.labels /\ h.props = g.props
      /\ h.marker = g.marker /\ h.reg = g.reg /\ h.torn = g.torn
      /\ h.nextNode = g.nextNode /\ h.nextEdge = g.nextEdge
  BY <1>0, <1>1, <1>5 DEF GraphStore
<1>7. /\ h.edges = [e \in EdgeIds |-> IF e \in S THEN None ELSE g.edges[e]]
      /\ h.out = {r \in g.out : r[4] \notin S} /\ h.in = {r \in g.in : r[4] \notin S}
  BY <1>3, <1>4, <1>6
<1>8. /\ GraphInv(h) /\ Later(g, h)
      /\ LiveNodes(h) = LiveNodes(g) /\ LiveEdges(h) = LiveEdges(g) \ S
      /\ \A e \in LiveEdges(h) : h.edges[e] = g.edges[e]
  BY <1>2, <1>6, <1>7, CutEdges
<1> QED
  BY <1>2, <1>6, <1>8

\* The second scan of delete_node_in.
LEMMA CutInStep ==
  ASSUME NEW g, GraphInv(g), NEW n
  PROVE  LET h == CutIn(g, n)
         IN  /\ GraphInv(h) /\ Later(g, h) /\ LiveNodes(h) = LiveNodes(g) /\ h.nodes = g.nodes
             /\ \A e \in LiveEdges(h) : /\ e \in LiveEdges(g) /\ h.edges[e] = g.edges[e]
                                        /\ g.edges[e].to # n
<1> DEFINE h == CutIn(g, n)
           rows == {r \in g.in : r[1] = n}
           S == {e \in LiveEdges(g) : g.edges[e].to = n}
           es == [e \in EdgeIds |-> IF \E r \in rows : r[4] = e THEN None ELSE g.edges[e]]
           here == g.in \ rows
           there == g.out \ {<<r[3], r[2], n, r[4]>> : r \in rows}
<1> SUFFICES /\ GraphInv(h) /\ Later(g, h) /\ LiveNodes(h) = LiveNodes(g) /\ h.nodes = g.nodes
             /\ \A e \in LiveEdges(h) : /\ e \in LiveEdges(g) /\ h.edges[e] = g.edges[e]
                                        /\ g.edges[e].to # n
  OBVIOUS
<1>0. g \in GraphStore
  BY DEF GraphInv
<1>1. h = [g EXCEPT !.edges = es, !.in = here, !.out = there]
  BY <1>0 DEF CutIn, GraphStore
<1>2. S \in SUBSET EdgeIds /\ \A e \in LiveEdges(g) : e \in S <=> g.edges[e].to = n
  BY DEF LiveEdges
<1>3. /\ here = {r \in g.in : r[4] \notin S} /\ there = {r \in g.out : r[4] \notin S}
      /\ \A e \in EdgeIds : (\E r \in rows : r[4] = e) <=> e \in S
  <2>0. /\ \A r \in g.in : r[4] \in LiveEdges(g)
                          /\ r = <<g.edges[r[4]].to, g.edges[r[4]].type, g.edges[r[4]].from, r[4]>>
        /\ \A r \in g.out : r[4] \in LiveEdges(g)
                         /\ r = <<g.edges[r[4]].from, g.edges[r[4]].type, g.edges[r[4]].to, r[4]>>
        /\ \A e \in LiveEdges(g) :
               <<g.edges[e].to, g.edges[e].type, g.edges[e].from, e>> \in g.in
    BY DEF GraphInv, Adjacent, OutRow, InRow
  <2>1. g.in \ rows = {r \in g.in : r[4] \notin S}
    BY <2>0
  <2>2. ASSUME NEW e \in EdgeIds PROVE (\E r \in rows : r[4] = e) <=> e \in S
    <3>1. ASSUME NEW r \in rows, r[4] = e PROVE e \in S
      BY <2>0, <3>1
    <3>2. ASSUME e \in S PROVE \E r \in rows : r[4] = e
      <4> DEFINE row == <<g.edges[e].to, g.edges[e].type, g.edges[e].from, e>>
      <4>1. row \in g.in /\ row[1] = n /\ row[4] = e
        BY <2>0, <3>2
      <4> QED
        BY <4>1
    <3> QED
      BY <3>1, <3>2
  <2>3. ASSUME NEW q \in g.out
        PROVE  q[4] \in S <=> \E r \in rows : q = <<r[3], r[2], n, r[4]>>
    <3>1. ASSUME NEW r \in rows, q = <<r[3], r[2], n, r[4]>> PROVE q[4] \in S
      <4>1. q[4] = r[4]
        BY <3>1
      <4> QED
        BY <2>0, <4>1
    <3>2. ASSUME q[4] \in S PROVE \E r \in rows : q = <<r[3], r[2], n, r[4]>>
      <4> DEFINE edge == g.edges[q[4]]
                 row == <<edge.to, edge.type, edge.from, q[4]>>
      <4>1. q[4] \in LiveEdges(g) /\ edge.to = n
        BY <3>2
      <4>2. row \in g.in /\ row[1] = edge.to /\ row[2] = edge.type /\ row[3] = edge.from
            /\ row[4] = q[4]
        BY <2>0, <4>1
      <4>3. row \in rows
        BY <4>1, <4>2
      <4>4. q = <<edge.from, edge.type, edge.to, q[4]>>
        BY <2>0
      <4>5. q = <<row[3], row[2], n, row[4]>>
        BY <4>1, <4>2, <4>4
      <4> QED
        BY <4>3, <4>5
    <3> QED
      BY <3>1, <3>2
  <2>4. g.out \ {<<r[3], r[2], n, r[4]>> : r \in rows} = {r \in g.out : r[4] \notin S}
    BY <2>3
  <2> QED
    BY <2>1, <2>2, <2>4
<1>4. es = [e \in EdgeIds |-> IF e \in S THEN None ELSE g.edges[e]]
  BY <1>3
<1> HIDE DEF h, rows, S, es, here, there
<1>5. /\ es \in [EdgeIds -> Edge \cup {None}]
      /\ here \in SUBSET (NodeIds \X Types \X NodeIds \X EdgeIds)
      /\ there \in SUBSET (NodeIds \X Types \X NodeIds \X EdgeIds)
  BY <1>0, <1>3, <1>4, Fields
<1>6. /\ h \in GraphStore
      /\ h.nodes = g.nodes /\ h.edges = es /\ h.in = here /\ h.out = there
      /\ h.labels = g.labels /\ h.props = g.props
      /\ h.marker = g.marker /\ h.reg = g.reg /\ h.torn = g.torn
      /\ h.nextNode = g.nextNode /\ h.nextEdge = g.nextEdge
  BY <1>0, <1>1, <1>5 DEF GraphStore
<1>7. /\ h.edges = [e \in EdgeIds |-> IF e \in S THEN None ELSE g.edges[e]]
      /\ h.out = {r \in g.out : r[4] \notin S} /\ h.in = {r \in g.in : r[4] \notin S}
  BY <1>3, <1>4, <1>6
<1>8. /\ GraphInv(h) /\ Later(g, h)
      /\ LiveNodes(h) = LiveNodes(g) /\ LiveEdges(h) = LiveEdges(g) \ S
      /\ \A e \in LiveEdges(h) : h.edges[e] = g.edges[e]
  BY <1>2, <1>6, <1>7, CutEdges
<1> QED
  BY <1>2, <1>6, <1>8

\* The property entries of a node, as a set of at most one row.
LEMMA EntriesOf ==
  ASSUME NEW g, NEW n, NEW node
  PROVE  PropEntries(g, n, node) =
           IF node.prop \in Keyable /\ node.label \in g.reg
           THEN {<<node.label, node.prop, n>>} ELSE {}
  BY DEF PropEntries

\* delete_node_in: with the edges of the node gone, the node and its entries
\* go together, or the node stays whole.
LEMMA DeleteNodeStep ==
  ASSUME NEW g, GraphInv(g), NEW n \in NodeIds
  PROVE  LET h == DeleteNodeIn(g, n).t IN GraphInv(h) /\ Later(g, h)
<1> DEFINE c == CutIn(CutOut(g, n), n)
           node == g.nodes[n]
           r == OnDelete(c, n, node)
           h == DeleteNodeIn(g, n).t
<1> SUFFICES GraphInv(h) /\ Later(g, h)
  OBVIOUS
<1>0. g \in GraphStore
  BY DEF GraphInv
<1>1. /\ GraphInv(c) /\ Later(g, c) /\ LiveNodes(c) = LiveNodes(g) /\ c.nodes = g.nodes
      /\ \A e \in LiveEdges(c) : c.edges[e].from # n /\ c.edges[e].to # n
  <2> DEFINE b == CutOut(g, n)
  <2>1. /\ GraphInv(b) /\ Later(g, b) /\ LiveNodes(b) = LiveNodes(g) /\ b.nodes = g.nodes
        /\ \A e \in LiveEdges(b) : b.edges[e].from # n
    BY CutOutStep
  <2> HIDE DEF b
  <2> DEFINE d == CutIn(b, n)
  <2>2. /\ GraphInv(d) /\ Later(b, d) /\ LiveNodes(d) = LiveNodes(b) /\ d.nodes = b.nodes
        /\ \A e \in LiveEdges(d) : /\ e \in LiveEdges(b) /\ d.edges[e] = b.edges[e]
                                   /\ b.edges[e].to # n
    BY <2>1, CutInStep
  <2> HIDE DEF d
  <2>3. Later(g, d)
    BY <1>0, <2>1, <2>2, LaterTransitive DEF GraphInv
  <2>4. c = d
    BY DEF b, d
  <2> QED
    BY <2>1, <2>2, <2>3, <2>4
<1>2. h = IF node = None \/ node.label \in LongLabels THEN c
          ELSE [[c EXCEPT !.labels = @ \ {<<node.label, n>>},
                          !.props = @ \ PropEntries(c, n, node)] EXCEPT !.nodes[n] = None]
  BY DEF DeleteNodeIn, OnDelete, Broken, Done
<1> HIDE DEF c, h
<1>a. c \in GraphStore
  BY <1>1 DEF GraphInv
<1>3. CASE node = None \/ node.label \in LongLabels
  BY <1>1, <1>2, <1>3
<1>4. CASE ~(node = None \/ node.label \in LongLabels)
  <2> DEFINE ls == c.labels \ {<<node.label, n>>}
             ps == c.props \ PropEntries(c, n, node)
             d == [c EXCEPT !.labels = ls, !.props = ps]
  <2>0. h = [d EXCEPT !.nodes[n] = None]
    BY <1>2, <1>4
  <2>1. ls \in SUBSET (Labels \X NodeIds) /\ ps \in SUBSET (Labels \X Keyable \X NodeIds)
    BY <1>a, Fields
  <2> HIDE DEF ls, ps
  <2>2. /\ d \in GraphStore
        /\ d.nodes = c.nodes /\ d.edges = c.edges /\ d.out = c.out /\ d.in = c.in
        /\ d.labels = ls /\ d.props = ps
        /\ d.marker = c.marker /\ d.reg = c.reg /\ d.torn = c.torn
        /\ d.nextNode = c.nextNode /\ d.nextEdge = c.nextEdge
    BY <1>a, <2>1 DEF GraphStore
  <2> HIDE DEF d
  <2>3. /\ h \in GraphStore
        /\ h.nodes = [c.nodes EXCEPT ![n] = None]
        /\ h.edges = c.edges /\ h.out = c.out /\ h.in = c.in
        /\ h.labels = ls /\ h.props = ps
        /\ h.marker = c.marker /\ h.reg = c.reg /\ h.torn = c.torn
        /\ h.nextNode = c.nextNode /\ h.nextEdge = c.nextEdge
    BY <2>0, <2>2 DEF GraphStore
  <2>4. /\ LiveNodes(h) = LiveNodes(c) \ {n} /\ c.nodes[n] = node /\ n \in LiveNodes(c)
        /\ \A m \in LiveNodes(h) : m # n /\ h.nodes[m] = c.nodes[m]
    BY <1>1, <1>4, <1>a, <2>3, Fields DEF LiveNodes
  <2>5. Adjacent(h) /\ LiveEdges(h) = LiveEdges(c) /\ \A e \in LiveEdges(h) : e < h.nextEdge
    BY <1>1, <1>a, <2>3, Fields, SameEdges
  <2>6. Joined(h) /\ Counted(h)
    BY <1>1, <2>3, <2>4, <2>5 DEF GraphInv, Joined, Counted
  <2>7. \A q \in ls : q \in c.labels /\ q # <<node.label, n>>
    BY DEF ls
  <2>8. \A q \in ps : /\ q \in c.props
                      /\ node.prop \in Keyable /\ node.label \in c.reg =>
                             q # <<node.label, node.prop, n>>
    BY EntriesOf DEF ps
  <2>9. IndexSound(h)
    <3>1. ASSUME NEW q \in h.labels PROVE q[2] \in LiveNodes(h) /\ h.nodes[q[2]].label = q[1]
      <4>1. q \in c.labels /\ q \in Labels \X NodeIds /\ q # <<node.label, n>>
        BY <1>a, <2>3, <2>7, <3>1, Fields
      <4>2. q[2] \in LiveNodes(c) /\ c.nodes[q[2]].label = q[1] /\ q = <<q[1], q[2]>>
        BY <1>1, <4>1 DEF GraphInv, IndexSound
      <4>3. q[2] # n
        BY <2>4, <4>1, <4>2
      <4> QED
        BY <2>4, <4>2, <4>3
    <3>2. ASSUME NEW q \in h.props
          PROVE  /\ q[1] \in h.reg /\ q[3] \in LiveNodes(h)
                 /\ h.nodes[q[3]].label = q[1] /\ h.nodes[q[3]].prop = q[2]
      <4>1. q \in c.props /\ q \in Labels \X Keyable \X NodeIds
            /\ (node.prop \in Keyable /\ node.label \in c.reg => q # <<node.label, node.prop, n>>)
        BY <1>a, <2>3, <2>8, <3>2, Fields
      <4>2. /\ q[1] \in c.reg /\ q[3] \in LiveNodes(c)
            /\ c.nodes[q[3]].label = q[1] /\ c.nodes[q[3]].prop = q[2]
            /\ q = <<q[1], q[2], q[3]>> /\ q[2] \in Keyable
        BY <1>1, <4>1 DEF GraphInv, IndexSound
      <4>3. q[3] # n
        BY <2>4, <4>1, <4>2
      <4> QED
        BY <2>3, <2>4, <4>2, <4>3
    <3> QED
      BY <1>1, <2>3, <3>1, <3>2 DEF GraphInv, IndexSound
  <2>10. IndexComplete(h)
    <3>1. ASSUME ~h.torn, h.marker, NEW m \in LiveNodes(h), h.nodes[m].label \notin LongLabels
          PROVE  <<h.nodes[m].label, m>> \in h.labels
      BY <1>1, <2>3, <2>4, <3>1 DEF GraphInv, IndexComplete, ls
    <3>2. ASSUME ~h.torn, NEW m \in LiveNodes(h),
                 h.nodes[m].label \in h.reg, h.nodes[m].prop \in Keyable
          PROVE  <<h.nodes[m].label, h.nodes[m].prop, m>> \in h.props
      BY <1>1, <2>3, <2>4, <3>2, EntriesOf DEF GraphInv, IndexComplete, ps
    <3> QED
      BY <3>1, <3>2 DEF IndexComplete
  <2>11. GraphInv(h)
    BY <2>3, <2>5, <2>6, <2>9, <2>10 DEF GraphInv
  <2>12. Later(c, h)
    BY <1>a, <2>3, <2>4, <2>5, Fields DEF Later
  <2> QED
    BY <1>0, <1>1, <1>a, <2>3, <2>11, <2>12, LaterTransitive
<1> QED
  BY <1>3, <1>4

\* update_node_in: the entry of the old value goes and that of the new comes.
LEMMA UpdateNodeStep ==
  ASSUME NEW g, GraphInv(g), NEW n \in NodeIds, NEW prop \in Vals \cup {Absent}
  PROVE  LET h == UpdateNodeIn(g, n, prop).t IN GraphInv(h) /\ Later(g, h)
<1> DEFINE old == g.nodes[n]
           new == [old EXCEPT !.prop = prop]
           h == UpdateNodeIn(g, n, prop).t
           ps == (g.props \ PropEntries(g, n, old)) \cup PropEntries(g, n, new)
           d == [g EXCEPT !.props = ps]
<1> SUFFICES GraphInv(h) /\ Later(g, h)
  OBVIOUS
<1>0. g \in GraphStore
  BY DEF GraphInv
<1>1. CASE old = None
  <2>1. h = g
    BY <1>1 DEF UpdateNodeIn, Broken
  <2> HIDE DEF h
  <2> QED
    BY <1>0, <2>1, LaterReflexive
<1>2. CASE old # None /\ new.label \in LongLabels
  <2>1. h = g
    BY <1>2 DEF UpdateNodeIn, OnUpdate, Broken
  <2> HIDE DEF h
  <2> QED
    BY <1>0, <2>1, LaterReflexive
<1>3. CASE old # None /\ new.label \notin LongLabels
  <2>1. h = [d EXCEPT !.nodes[n] = new]
    BY <1>3 DEF UpdateNodeIn, OnUpdate, Broken, Done
  <2>2. old \in Node /\ new \in Node /\ new.label = old.label /\ new.prop = prop
        /\ old.label \in Labels
    BY <1>0, <1>3, Fields DEF Node
  <2> HIDE DEF h, old, new
  <2>3. \A q : q \in ps <=>
          \/ /\ q \in g.props
             /\ ~(old.prop \in Keyable /\ old.label \in g.reg /\ q = <<old.label, old.prop, n>>)
          \/ prop \in Keyable /\ old.label \in g.reg /\ q = <<old.label, prop, n>>
    BY <2>2, EntriesOf
  <2> HIDE DEF ps
  <2>4. ps \in SUBSET (Labels \X Keyable \X NodeIds)
    BY <1>0, <2>2, <2>3, Fields
  <2>5. /\ d \in GraphStore
        /\ d.nodes = g.nodes /\ d.edges = g.edges /\ d.out = g.out /\ d.in = g.in
        /\ d.labels = g.labels /\ d.props = ps
        /\ d.marker = g.marker /\ d.reg = g.reg /\ d.torn = g.torn
        /\ d.nextNode = g.nextNode /\ d.nextEdge = g.nextEdge
    BY <1>0, <2>4 DEF GraphStore
  <2> HIDE DEF d
  <2>6. /\ h \in GraphStore
        /\ h.nodes = [g.nodes EXCEPT ![n] = new]
        /\ h.edges = g.edges /\ h.out = g.out /\ h.in = g.in
        /\ h.labels = g.labels /\ h.props = ps
        /\ h.marker = g.marker /\ h.reg = g.reg /\ h.torn = g.torn
        /\ h.nextNode = g.nextNode /\ h.nextEdge = g.nextEdge
    BY <2>1, <2>2, <2>5 DEF GraphStore
  <2>7. /\ LiveNodes(h) = LiveNodes(g) /\ n \in LiveNodes(g)
        /\ \A m \in LiveNodes(g) : h.nodes[m].label = g.nodes[m].label
        /\ \A m \in LiveNodes(g) : m # n => h.nodes[m] = g.nodes[m]
        /\ h.nodes[n].prop = prop /\ h.nodes[n].label = old.label /\ g.nodes[n] = old
    BY <1>0, <1>3, <2>2, <2>6, Fields, NoneIsNoItem DEF LiveNodes, old
  <2>8. Adjacent(h) /\ LiveEdges(h) = LiveEdges(g) /\ \A e \in LiveEdges(h) : e < h.nextEdge
    BY <1>0, <2>6, Fields, SameEdges
  <2>9. Joined(h) /\ Counted(h)
    BY <2>6, <2>7, <2>8 DEF GraphInv, Joined, Counted
  <2>10. IndexSound(h)
    <3>1. ASSUME NEW q \in h.labels PROVE q[2] \in LiveNodes(h) /\ h.nodes[q[2]].label = q[1]
      BY <2>6, <2>7 DEF GraphInv, IndexSound
    <3>2. ASSUME NEW q \in h.props
          PROVE  /\ q[1] \in h.reg /\ q[3] \in LiveNodes(h)
                 /\ h.nodes[q[3]].label = q[1] /\ h.nodes[q[3]].prop = q[2]
      <4>1. CASE /\ q \in g.props
                 /\ ~(old.prop \in Keyable /\ old.label \in g.reg /\ q = <<old.label, old.prop, n>>)
        <5>1. /\ q[1] \in g.reg /\ q[3] \in LiveNodes(g)
              /\ g.nodes[q[3]].label = q[1] /\ g.nodes[q[3]].prop = q[2]
              /\ q = <<q[1], q[2], q[3]>> /\ q[2] \in Keyable
          BY <1>0, <4>1, Fields DEF GraphInv, IndexSound
        <5>2. q[3] # n
          BY <2>7, <4>1, <5>1
        <5> QED
          BY <2>6, <2>7, <5>1, <5>2
      <4>2. CASE prop \in Keyable /\ old.label \in g.reg /\ q = <<old.label, prop, n>>
        BY <2>6, <2>7, <4>2
      <4> QED
        BY <2>3, <2>6, <4>1, <4>2
    <3> QED
      BY <2>6, <3>1, <3>2 DEF GraphInv, IndexSound
  <2>11. IndexComplete(h)
    <3>1. ASSUME ~h.torn, h.marker, NEW m \in LiveNodes(h), h.nodes[m].label \notin LongLabels
          PROVE  <<h.nodes[m].label, m>> \in h.labels
      BY <2>6, <2>7, <3>1 DEF GraphInv, IndexComplete
    <3>2. ASSUME ~h.torn, NEW m \in LiveNodes(h),
                 h.nodes[m].label \in h.reg, h.nodes[m].prop \in Keyable
          PROVE  <<h.nodes[m].label, h.nodes[m].prop, m>> \in h.props
      BY <2>3, <2>6, <2>7, <3>2 DEF GraphInv, IndexComplete
    <3> QED
      BY <3>1, <3>2 DEF IndexComplete
  <2>12. Later(g, h)
    BY <1>0, <2>6, <2>7, <2>8, Fields DEF Later
  <2> QED
    BY <2>6, <2>8, <2>9, <2>10, <2>11, <2>12 DEF GraphInv
<1> QED
  BY <1>1, <1>2, <1>3

\* One edge of a bulk, under an id that is reserved and free.
LEMMA PutEdgeStep ==
  ASSUME NEW g, GraphInv(g), NEW e \in EdgeIds \ LiveEdges(g), e < g.nextEdge,
         NEW edge \in Edge, CanLink(g, edge)
  PROVE  LET h == PutEdge(g, e, edge)
         IN  /\ GraphInv(h) /\ LiveNodes(h) = LiveNodes(g)
             /\ LiveEdges(h) = LiveEdges(g) \cup {e}
             /\ h.nextNode = g.nextNode /\ h.nextEdge = g.nextEdge
<1> DEFINE h == PutEdge(g, e, edge)
           es == [g.edges EXCEPT ![e] = edge]
           out == g.out \cup {<<edge.from, edge.type, edge.to, e>>}
           in == g.in \cup {<<edge.to, edge.type, edge.from, e>>}
<1> SUFFICES /\ GraphInv(h) /\ LiveNodes(h) = LiveNodes(g)
             /\ LiveEdges(h) = LiveEdges(g) \cup {e}
             /\ h.nextNode = g.nextNode /\ h.nextEdge = g.nextEdge
  OBVIOUS
<1>0. g \in GraphStore /\ edge.from \in NodeIds /\ edge.to \in NodeIds /\ edge.type \in Types
  BY DEF GraphInv, Edge
<1>1. h = [g EXCEPT !.edges = es, !.out = out, !.in = in]
  BY DEF PutEdge
<1>2. /\ es \in [EdgeIds -> Edge \cup {None}]
      /\ out \in SUBSET (NodeIds \X Types \X NodeIds \X EdgeIds)
      /\ in \in SUBSET (NodeIds \X Types \X NodeIds \X EdgeIds)
  BY <1>0, Fields
<1> HIDE DEF h, es, out, in
<1>3. /\ h \in GraphStore
      /\ h.nodes = g.nodes /\ h.edges = es /\ h.out = out /\ h.in = in
      /\ h.labels = g.labels /\ h.props = g.props
      /\ h.marker = g.marker /\ h.reg = g.reg /\ h.torn = g.torn
      /\ h.nextNode = g.nextNode /\ h.nextEdge = g.nextEdge
  BY <1>0, <1>1, <1>2 DEF GraphStore
<1>4. /\ LiveEdges(h) = LiveEdges(g) \cup {e} /\ h.edges[e] = edge
      /\ \A f \in LiveEdges(g) : f # e /\ h.edges[f] = g.edges[f]
  BY <1>0, <1>3, Fields, NoneIsNoItem DEF LiveEdges, es
<1>5. /\ IndexSound(h) /\ IndexComplete(h) /\ LiveNodes(h) = LiveNodes(g)
      /\ \A n \in LiveNodes(h) : n < h.nextNode
  BY <1>3, SameNodes
<1>6. /\ \A f \in LiveEdges(g) : OutRow(h, f) = OutRow(g, f) /\ InRow(h, f) = InRow(g, f)
      /\ OutRow(h, e) = <<edge.from, edge.type, edge.to, e>>
      /\ InRow(h, e) = <<edge.to, edge.type, edge.from, e>>
  BY <1>4 DEF OutRow, InRow
<1>7. Adjacent(h)
  <2>1. ASSUME NEW f \in LiveEdges(h) PROVE OutRow(h, f) \in h.out /\ InRow(h, f) \in h.in
    BY <1>3, <1>4, <1>6 DEF GraphInv, Adjacent, out, in
  <2>2. ASSUME NEW r \in h.out PROVE r[4] \in LiveEdges(h) /\ r = OutRow(h, r[4])
    BY <1>3, <1>4, <1>6 DEF GraphInv, Adjacent, out
  <2>3. ASSUME NEW r \in h.in PROVE r[4] \in LiveEdges(h) /\ r = InRow(h, r[4])
    BY <1>3, <1>4, <1>6 DEF GraphInv, Adjacent, in
  <2> QED
    BY <2>1, <2>2, <2>3 DEF Adjacent
<1>8. Joined(h) /\ Counted(h)
  BY <1>3, <1>4, <1>5 DEF GraphInv, Joined, Counted, CanLink
<1> QED
  BY <1>3, <1>4, <1>5, <1>7, <1>8 DEF GraphInv

\* A larger edge counter.
LEMMA ReserveEdgesStep ==
  ASSUME NEW g, GraphInv(g), NEW k \in Nat, k >= g.nextEdge
  PROVE  LET h == [g EXCEPT !.nextEdge = k]
         IN  /\ GraphInv(h) /\ Later(g, h) /\ LiveNodes(h) = LiveNodes(g)
             /\ LiveEdges(h) = LiveEdges(g) /\ h.nextEdge = k
<1> DEFINE h == [g EXCEPT !.nextEdge = k]
<1> SUFFICES /\ GraphInv(h) /\ Later(g, h) /\ LiveNodes(h) = LiveNodes(g)
             /\ LiveEdges(h) = LiveEdges(g) /\ h.nextEdge = k
  OBVIOUS
<1>0. g \in GraphStore
  BY DEF GraphInv
<1>1. /\ h \in GraphStore
      /\ h.nodes = g.nodes /\ h.edges = g.edges /\ h.out = g.out /\ h.in = g.in
      /\ h.labels = g.labels /\ h.props = g.props
      /\ h.marker = g.marker /\ h.reg = g.reg /\ h.torn = g.torn
      /\ h.nextNode = g.nextNode /\ h.nextEdge = k
  BY <1>0 DEF GraphStore
<1> HIDE DEF h
<1>2. Adjacent(h) /\ LiveEdges(h) = LiveEdges(g) /\ \A e \in LiveEdges(h) : e < h.nextEdge
  BY <1>1, SameEdges
<1>3. /\ IndexSound(h) /\ IndexComplete(h) /\ LiveNodes(h) = LiveNodes(g)
      /\ \A n \in LiveNodes(h) : n < h.nextNode
  BY <1>1, SameNodes
<1>4. Joined(h) /\ Counted(h)
  BY <1>1, <1>2, <1>3 DEF GraphInv, Joined, Counted
<1>5. Later(g, h)
  BY <1>0, <1>1, <1>2, <1>3, Fields DEF Later
<1> QED
  BY <1>1, <1>2, <1>3, <1>4, <1>5 DEF GraphInv

\* create_edge_in.
LEMMA CreateEdgeStep ==
  ASSUME NEW g, GraphInv(g), NEW edge \in Edge, Reserve(g.nextEdge) \in EdgeIds
  PROVE  LET h == CreateEdgeIn(g, edge).t IN GraphInv(h) /\ Later(g, h)
<1> DEFINE e == Reserve(g.nextEdge)
           f == [g EXCEPT !.nextEdge = e + 1]
           h == CreateEdgeIn(g, edge).t
<1> SUFFICES GraphInv(h) /\ Later(g, h)
  OBVIOUS
<1>0. g \in GraphStore
  BY DEF GraphInv
<1>1. h = IF CanLink(g, edge) THEN PutEdge(f, e, edge) ELSE g
  BY DEF CreateEdgeIn, Broken, Done
<1>2. e \in Nat /\ e >= g.nextEdge /\ e \in EdgeIds /\ e \notin LiveEdges(g) /\ g.nextEdge \in Nat
  BY <1>0, Fields, ReserveType DEF GraphInv, Counted
<1> HIDE DEF e, h
<1>3. /\ GraphInv(f) /\ Later(g, f) /\ LiveNodes(f) = LiveNodes(g)
      /\ LiveEdges(f) = LiveEdges(g) /\ f.nextEdge = e + 1
  BY <1>2, ReserveEdgesStep
<1> HIDE DEF f
<1>4. CASE ~CanLink(g, edge)
  BY <1>0, <1>1, <1>4, LaterReflexive
<1>5. CASE CanLink(g, edge)
  <2> DEFINE p == PutEdge(f, e, edge)
  <2>1. CanLink(f, edge)
    BY <1>3, <1>5 DEF CanLink
  <2>2. /\ GraphInv(p) /\ LiveNodes(p) = LiveNodes(f) /\ LiveEdges(p) = LiveEdges(f) \cup {e}
        /\ p.nextNode = f.nextNode /\ p.nextEdge = f.nextEdge
    BY <1>2, <1>3, <2>1, PutEdgeStep
  <2> HIDE DEF p
  <2>3. Later(g, p)
    BY <1>2, <1>3, <2>2 DEF Later
  <2> QED
    BY <1>1, <1>5, <2>2, <2>3 DEF p
<1> QED
  BY <1>4, <1>5

\* delete_edge_in.
LEMMA DeleteEdgeStep ==
  ASSUME NEW g, GraphInv(g), NEW e \in EdgeIds
  PROVE  LET h == DeleteEdgeIn(g, e).t IN GraphInv(h) /\ Later(g, h)
<1> DEFINE edge == g.edges[e]
           h == DeleteEdgeIn(g, e).t
           es == [g.edges EXCEPT ![e] = None]
           out == g.out \ {<<edge.from, edge.type, edge.to, e>>}
           in == g.in \ {<<edge.to, edge.type, edge.from, e>>}
<1> SUFFICES GraphInv(h) /\ Later(g, h)
  OBVIOUS
<1>0. g \in GraphStore
  BY DEF GraphInv
<1>1. h = IF edge = None THEN g ELSE [g EXCEPT !.edges = es, !.out = out, !.in = in]
  BY DEF DeleteEdgeIn, Done
<1>2. CASE edge = None
  <2>1. h = g
    BY <1>1, <1>2
  <2> HIDE DEF h
  <2> QED
    BY <1>0, <2>1, LaterReflexive
<1>3. CASE edge # None
  <2>1. e \in LiveEdges(g) /\ OutRow(g, e) = <<edge.from, edge.type, edge.to, e>>
        /\ InRow(g, e) = <<edge.to, edge.type, edge.from, e>>
    BY <1>3 DEF LiveEdges, OutRow, InRow
  <2>2. out = {r \in g.out : r[4] \notin {e}} /\ in = {r \in g.in : r[4] \notin {e}}
    BY <2>1 DEF GraphInv, Adjacent
  <2>3. es = [f \in EdgeIds |-> IF f \in {e} THEN None ELSE g.edges[f]]
    BY <1>0, Fields
  <2>4. /\ es \in [EdgeIds -> Edge \cup {None}]
        /\ out \in SUBSET (NodeIds \X Types \X NodeIds \X EdgeIds)
        /\ in \in SUBSET (NodeIds \X Types \X NodeIds \X EdgeIds)
    BY <1>0, Fields
  <2> HIDE DEF h, es, out, in
  <2>5. /\ h \in GraphStore
        /\ h.nodes = g.nodes /\ h.edges = es /\ h.out = out /\ h.in = in
        /\ h.labels = g.labels /\ h.props = g.props
        /\ h.marker = g.marker /\ h.reg = g.reg /\ h.torn = g.torn
        /\ h.nextNode = g.nextNode /\ h.nextEdge = g.nextEdge
    BY <1>0, <1>1, <1>3, <2>4 DEF GraphStore
  <2> DEFINE S == {e}
  <2>6. /\ h.edges = [f \in EdgeIds |-> IF f \in S THEN None ELSE g.edges[f]]
        /\ h.out = {r \in g.out : r[4] \notin S} /\ h.in = {r \in g.in : r[4] \notin S}
        /\ S \in SUBSET EdgeIds
    BY <2>2, <2>3, <2>5
  <2> HIDE DEF S
  <2> QED
    BY <2>5, <2>6, CutEdges
<1> QED
  BY <1>2, <1>3

\* update_edge_in.
LEMMA UpdateEdgeStep ==
  ASSUME NEW g, GraphInv(g), NEW e \in EdgeIds, NEW prop \in Vals \cup {Absent}
  PROVE  LET h == UpdateEdgeIn(g, e, prop).t IN GraphInv(h) /\ Later(g, h)
<1> DEFINE edge == g.edges[e]
           new == [edge EXCEPT !.prop = prop]
           h == UpdateEdgeIn(g, e, prop).t
<1> SUFFICES GraphInv(h) /\ Later(g, h)
  OBVIOUS
<1>0. g \in GraphStore
  BY DEF GraphInv
<1>1. CASE edge = None
  <2>1. h = g
    BY <1>1 DEF UpdateEdgeIn, Broken
  <2> HIDE DEF h
  <2> QED
    BY <1>0, <2>1, LaterReflexive
<1>2. CASE edge # None
  <2> DEFINE es == [g.edges EXCEPT ![e] = new]
  <2>1. h = [g EXCEPT !.edges = es]
    BY <1>2 DEF UpdateEdgeIn, Done
  <2>2. edge \in Edge /\ new \in Edge
        /\ new.from = edge.from /\ new.type = edge.type /\ new.to = edge.to
    BY <1>0, <1>2, Fields DEF Edge
  <2> HIDE DEF h, edge, new
  <2>3. es \in [EdgeIds -> Edge \cup {None}]
    BY <1>0, <2>2, Fields
  <2> HIDE DEF es
  <2>4. /\ h \in GraphStore
        /\ h.nodes = g.nodes /\ h.edges = es /\ h.out = g.out /\ h.in = g.in
        /\ h.labels = g.labels /\ h.props = g.props
        /\ h.marker = g.marker /\ h.reg = g.reg /\ h.torn = g.torn
        /\ h.nextNode = g.nextNode /\ h.nextEdge = g.nextEdge
    BY <1>0, <2>1, <2>3 DEF GraphStore
  <2>5. /\ LiveEdges(h) = LiveEdges(g)
        /\ \A f \in LiveEdges(g) : /\ h.edges[f].from = g.edges[f].from
                                   /\ h.edges[f].type = g.edges[f].type
                                   /\ h.edges[f].to = g.edges[f].to
    BY <1>0, <1>2, <2>2, <2>4, Fields, NoneIsNoItem DEF LiveEdges, es, edge
  <2>6. \A f \in LiveEdges(g) : OutRow(h, f) = OutRow(g, f) /\ InRow(h, f) = InRow(g, f)
    BY <2>5 DEF OutRow, InRow
  <2>7. Adjacent(h)
    BY <2>4, <2>5, <2>6 DEF GraphInv, Adjacent
  <2>8. /\ IndexSound(h) /\ IndexComplete(h) /\ LiveNodes(h) = LiveNodes(g)
        /\ \A n \in LiveNodes(h) : n < h.nextNode
    BY <2>4, SameNodes
  <2>9. Joined(h) /\ Counted(h)
    BY <2>4, <2>5, <2>8 DEF GraphInv, Joined, Counted
  <2>10. Later(g, h)
    BY <1>0, <2>4, <2>5, <2>8, Fields DEF Later
  <2> QED
    BY <2>4, <2>7, <2>8, <2>9, <2>10 DEF GraphInv
<1> QED
  BY <1>1, <1>2

\* What no operation over the indexes alone can break.
LEMMA SameGraph ==
  ASSUME NEW g, NEW h, GraphInv(g), h \in GraphStore, h.nodes = g.nodes, h.edges = g.edges,
         h.out = g.out, h.in = g.in, h.nextNode = g.nextNode, h.nextEdge = g.nextEdge
  PROVE  Adjacent(h) /\ Joined(h) /\ Counted(h) /\ Later(g, h) /\ LiveNodes(h) = LiveNodes(g)
<1>0. g \in GraphStore
  BY DEF GraphInv
<1>1. LiveNodes(h) = LiveNodes(g)
  BY DEF LiveNodes
<1>2. Adjacent(h) /\ LiveEdges(h) = LiveEdges(g) /\ \A e \in LiveEdges(h) : e < h.nextEdge
  BY <1>0, Fields, SameEdges
<1> QED
  BY <1>0, <1>1, <1>2, Fields DEF GraphInv, Joined, Counted, Later

\* A lookup by label finds no node that a scan would not, and without a torn
\* rebuild it finds them all.
LEMMA LookupByLabel ==
  ASSUME NEW g, GraphInv(g), NEW l \in Labels \ LongLabels
  PROVE  /\ NodesByLabel(g, l) \subseteq ByScan(g, l)
         /\ ~g.torn => NodesByLabel(g, l) = ByScan(g, l)
<1>0. g \in GraphStore
  BY DEF GraphInv
<1>1. CASE ~g.marker
  BY <1>1 DEF NodesByLabel
<1>2. CASE g.marker
  <2>1. NodesByLabel(g, l) = {n \in NodeIds : <<l, n>> \in g.labels}
    BY <1>2 DEF NodesByLabel
  <2>2. ASSUME NEW n \in NodesByLabel(g, l) PROVE n \in ByScan(g, l)
    <3>1. <<l, n>> \in g.labels /\ <<l, n>>[1] = l /\ <<l, n>>[2] = n
      BY <2>1, <2>2
    <3> QED
      BY <3>1 DEF GraphInv, IndexSound, ByScan
  <2>3. ASSUME ~g.torn, NEW n \in ByScan(g, l) PROVE n \in NodesByLabel(g, l)
    BY <1>2, <2>1, <2>3 DEF GraphInv, IndexComplete, ByScan, LiveNodes
  <2> QED
    BY <2>2, <2>3
<1> QED
  BY <1>1, <1>2

\* create_property_index_in: the entries of the label are those the nodes have.
LEMMA CreatePropertyIndexStep ==
  ASSUME NEW g, GraphInv(g), NEW l \in Labels
  PROVE  LET h == CreatePropertyIndexIn(g, l).t IN GraphInv(h) /\ Later(g, h)
<1> DEFINE f == [g EXCEPT !.reg = @ \cup {l}]
           h == CreatePropertyIndexIn(g, l).t
           held == {n \in NodesByLabel(f, l) \cap LiveNodes(f) : f.nodes[n].prop \in Keyable}
           ps == {p \in f.props : p[1] # l} \cup {<<l, f.nodes[n].prop, n>> : n \in held}
<1> SUFFICES GraphInv(h) /\ Later(g, h)
  OBVIOUS
<1>0. g \in GraphStore
  BY DEF GraphInv
<1>1. CASE l \in LongLabels \/ l \in g.reg
  <2>1. h = g
    BY <1>1 DEF CreatePropertyIndexIn, Broken, Done
  <2> HIDE DEF h
  <2> QED
    BY <1>0, <2>1, LaterReflexive
<1>2. CASE l \notin LongLabels /\ l \notin g.reg
  <2>1. h = [f EXCEPT !.props = ps]
    BY <1>2 DEF CreatePropertyIndexIn, Backfill, Broken, Done
  <2>2. /\ f \in GraphStore
        /\ f.nodes = g.nodes /\ f.edges = g.edges /\ f.out = g.out /\ f.in = g.in
        /\ f.labels = g.labels /\ f.props = g.props
        /\ f.marker = g.marker /\ f.reg = g.reg \cup {l} /\ f.torn = g.torn
        /\ f.nextNode = g.nextNode /\ f.nextEdge = g.nextEdge
    BY <1>0 DEF GraphStore
  <2> HIDE DEF f, h
  <2>3. NodesByLabel(f, l) = NodesByLabel(g, l) /\ LiveNodes(f) = LiveNodes(g)
    BY <2>2 DEF NodesByLabel, ByScan, LiveNodes
  <2>4. \A n : n \in held <=> n \in NodesByLabel(g, l) /\ g.nodes[n].prop \in Keyable
    BY <1>2, <2>2, <2>3, LookupByLabel DEF ByScan
  <2>5. \A n \in held : /\ n \in LiveNodes(g) /\ g.nodes[n].label = l
                        /\ g.nodes[n].prop \in Keyable
    BY <1>2, <2>4, LookupByLabel DEF ByScan
  <2> HIDE DEF held
  <2>6. \A q : q \in ps <=> \/ q \in g.props /\ q[1] # l
                            \/ \E n \in held : q = <<l, g.nodes[n].prop, n>>
    BY <2>2
  <2> HIDE DEF ps
  <2>7. ps \in SUBSET (Labels \X Keyable \X NodeIds)
    BY <1>0, <2>5, <2>6, Fields DEF LiveNodes
  <2>8. /\ h \in GraphStore
        /\ h.nodes = g.nodes /\ h.edges = g.edges /\ h.out = g.out /\ h.in = g.in
        /\ h.labels = g.labels /\ h.props = ps
        /\ h.marker = g.marker /\ h.reg = g.reg \cup {l} /\ h.torn = g.torn
        /\ h.nextNode = g.nextNode /\ h.nextEdge = g.nextEdge
    BY <2>1, <2>2, <2>7 DEF GraphStore
  <2>9. Adjacent(h) /\ Joined(h) /\ Counted(h) /\ Later(g, h) /\ LiveNodes(h) = LiveNodes(g)
    BY <2>8, SameGraph
  <2>10. IndexSound(h)
    <3>1. ASSUME NEW q \in h.props
          PROVE  /\ q[1] \in h.reg /\ q[3] \in LiveNodes(h)
                 /\ h.nodes[q[3]].label = q[1] /\ h.nodes[q[3]].prop = q[2]
      <4>1. CASE q \in g.props
        BY <2>8, <2>9, <4>1 DEF GraphInv, IndexSound
      <4>2. ASSUME NEW n \in held, q = <<l, g.nodes[n].prop, n>>
            PROVE  /\ q[1] \in h.reg /\ q[3] \in LiveNodes(h)
                   /\ h.nodes[q[3]].label = q[1] /\ h.nodes[q[3]].prop = q[2]
        BY <2>5, <2>8, <2>9, <4>2
      <4> QED
        BY <2>6, <2>8, <4>1, <4>2
    <3> QED
      BY <1>2, <2>8, <2>9, <3>1 DEF GraphInv, IndexSound
  <2>11. IndexComplete(h)
    <3>1. ASSUME ~h.torn, NEW m \in LiveNodes(h),
                 h.nodes[m].label \in h.reg, h.nodes[m].prop \in Keyable
          PROVE  <<h.nodes[m].label, h.nodes[m].prop, m>> \in h.props
      <4>1. CASE h.nodes[m].label = l
        <5>1. m \in held
          BY <1>2, <2>4, <2>8, <2>9, <3>1, <4>1, LookupByLabel DEF ByScan
        <5> QED
          BY <2>6, <2>8, <4>1, <5>1
      <4>2. CASE h.nodes[m].label # l
        BY <2>6, <2>8, <2>9, <3>1, <4>2 DEF GraphInv, IndexComplete
      <4> QED
        BY <4>1, <4>2
    <3> QED
      BY <2>8, <2>9, <3>1 DEF GraphInv, IndexComplete
  <2> QED
    BY <2>8, <2>9, <2>10, <2>11 DEF GraphInv
<1> QED
  BY <1>1, <1>2

\* drop_property_index_in.
LEMMA DropPropertyIndexStep ==
  ASSUME NEW g, GraphInv(g), NEW l \in Labels
  PROVE  LET h == DropPropertyIndexIn(g, l).t IN GraphInv(h) /\ Later(g, h)
<1> DEFINE h == DropPropertyIndexIn(g, l).t
           ps == {p \in g.props : p[1] # l}
           reg == g.reg \ {l}
<1> SUFFICES GraphInv(h) /\ Later(g, h)
  OBVIOUS
<1>0. g \in GraphStore
  BY DEF GraphInv
<1>1. CASE l \in LongLabels \/ l \notin g.reg
  <2>1. h = g
    BY <1>1 DEF DropPropertyIndexIn, Broken, Done
  <2> HIDE DEF h
  <2> QED
    BY <1>0, <2>1, LaterReflexive
<1>2. CASE l \notin LongLabels /\ l \in g.reg
  <2>1. h = [g EXCEPT !.reg = reg, !.props = ps]
    BY <1>2 DEF DropPropertyIndexIn, Done
  <2>2. reg \in SUBSET Labels /\ ps \in SUBSET (Labels \X Keyable \X NodeIds)
    BY <1>0, Fields
  <2> HIDE DEF h, reg, ps
  <2>3. /\ h \in GraphStore
        /\ h.nodes = g.nodes /\ h.edges = g.edges /\ h.out = g.out /\ h.in = g.in
        /\ h.labels = g.labels /\ h.props = ps
        /\ h.marker = g.marker /\ h.reg = reg /\ h.torn = g.torn
        /\ h.nextNode = g.nextNode /\ h.nextEdge = g.nextEdge
    BY <1>0, <2>1, <2>2 DEF GraphStore
  <2>4. Adjacent(h) /\ Joined(h) /\ Counted(h) /\ Later(g, h) /\ LiveNodes(h) = LiveNodes(g)
    BY <2>3, SameGraph
  <2>5. IndexSound(h)
    BY <2>3, <2>4 DEF GraphInv, IndexSound, reg, ps
  <2>6. IndexComplete(h)
    BY <2>3, <2>4 DEF GraphInv, IndexComplete, reg, ps
  <2> QED
    BY <2>3, <2>4, <2>5, <2>6 DEF GraphInv
<1> QED
  BY <1>1, <1>2

\* rebuild_indexes_in: a rebuild that stops keeps what it wrote and is marked
\* torn; one that ends has every entry.
LEMMA RebuildIndexesStep ==
  ASSUME NEW g, GraphInv(g)
  PROVE  LET h == RebuildIndexesIn(g).t IN GraphInv(h) /\ Later(g, h)
<1> DEFINE unkeyed == {n \in LiveNodes(g) : g.nodes[n].label \in LongLabels}
           done == {n \in LiveNodes(g) : \A m \in unkeyed : n < m}
           ls == {<<g.nodes[n].label, n>> : n \in done}
           ps == UNION {PropEntries(g, n, g.nodes[n]) : n \in done}
           b == [g EXCEPT !.labels = ls]
           h == RebuildIndexesIn(g).t
<1> SUFFICES GraphInv(h) /\ Later(g, h)
  OBVIOUS
<1>0. g \in GraphStore
  BY DEF GraphInv
<1>1. h = IF unkeyed # {} THEN [b EXCEPT !.torn = TRUE]
          ELSE [[b EXCEPT !.marker = TRUE, !.torn = FALSE] EXCEPT !.props = ps]
  BY DEF RebuildIndexesIn, Broken, Done
<1>2. \A n \in done : n \in LiveNodes(g) /\ n \in NodeIds /\ g.nodes[n].label \in Labels
  BY <1>0, LiveTyped DEF Node
<1>3. \A q : q \in ls <=> \E n \in done : q = <<g.nodes[n].label, n>>
  OBVIOUS
<1>4. \A q : q \in ps <=> \E n \in done : /\ g.nodes[n].prop \in Keyable
                                          /\ g.nodes[n].label \in g.reg
                                          /\ q = <<g.nodes[n].label, g.nodes[n].prop, n>>
  BY EntriesOf
<1>5. unkeyed = {} => done = LiveNodes(g)
  OBVIOUS
<1> HIDE DEF h, done, unkeyed, ls, ps
<1>6. ls \in SUBSET (Labels \X NodeIds) /\ ps \in SUBSET (Labels \X Keyable \X NodeIds)
  BY <1>2, <1>3, <1>4
<1>7. /\ b \in GraphStore
      /\ b.nodes = g.nodes /\ b.edges = g.edges /\ b.out = g.out /\ b.in = g.in
      /\ b.labels = ls /\ b.props = g.props
      /\ b.marker = g.marker /\ b.reg = g.reg /\ b.torn = g.torn
      /\ b.nextNode = g.nextNode /\ b.nextEdge = g.nextEdge
  BY <1>0, <1>6 DEF GraphStore
<1> HIDE DEF b
<1>8. CASE unkeyed # {}
  <2>1. /\ h \in GraphStore
        /\ h.nodes = g.nodes /\ h.edges = g.edges /\ h.out = g.out /\ h.in = g.in
        /\ h.labels = ls /\ h.props = g.props /\ h.reg = g.reg /\ h.torn = TRUE
        /\ h.nextNode = g.nextNode /\ h.nextEdge = g.nextEdge
    BY <1>1, <1>7, <1>8 DEF GraphStore
  <2>2. Adjacent(h) /\ Joined(h) /\ Counted(h) /\ Later(g, h) /\ LiveNodes(h) = LiveNodes(g)
    BY <2>1, SameGraph
  <2>3. IndexSound(h)
    BY <1>2, <1>3, <2>1, <2>2 DEF GraphInv, IndexSound
  <2>4. IndexComplete(h)
    BY <2>1 DEF IndexComplete
  <2> QED
    BY <2>1, <2>2, <2>3, <2>4 DEF GraphInv
<1>9. CASE unkeyed = {}
  <2> DEFINE c == [b EXCEPT !.marker = TRUE, !.torn = FALSE]
  <2>1. /\ c \in GraphStore
        /\ c.nodes = g.nodes /\ c.edges = g.edges /\ c.out = g.out /\ c.in = g.in
        /\ c.labels = ls /\ c.reg = g.reg
        /\ c.nextNode = g.nextNode /\ c.nextEdge = g.nextEdge
    BY <1>7 DEF GraphStore
  <2>2. h = [c EXCEPT !.props = ps]
    BY <1>1, <1>9
  <2> HIDE DEF c
  <2>3. /\ h \in GraphStore
        /\ h.nodes = g.nodes /\ h.edges = g.edges /\ h.out = g.out /\ h.in = g.in
        /\ h.labels = ls /\ h.props = ps /\ h.reg = g.reg
        /\ h.nextNode = g.nextNode /\ h.nextEdge = g.nextEdge
    BY <1>6, <2>1, <2>2 DEF GraphStore
  <2>4. Adjacent(h) /\ Joined(h) /\ Counted(h) /\ Later(g, h) /\ LiveNodes(h) = LiveNodes(g)
    BY <2>3, SameGraph
  <2>5. IndexSound(h)
    BY <1>2, <1>3, <1>4, <2>3, <2>4 DEF GraphInv, IndexSound
  <2>6. IndexComplete(h)
    BY <1>3, <1>4, <1>5, <1>9, <2>3, <2>4 DEF IndexComplete
  <2> QED
    BY <2>3, <2>4, <2>5, <2>6 DEF GraphInv
<1> QED
  BY <1>8, <1>9

-----------------------------------------------------------------------------
\* The steps of a transaction.

\* A step keeps the invariant, and what it commits has ids from the committed
\* counters on.
Keeps == IInv' /\ Later(db.graph, db'.graph)

LEMMA StoreFields ==
  ASSUME NEW t \in Store, NEW g \in GraphStore
  PROVE  /\ t.graph \in GraphStore /\ [t EXCEPT !.graph = g] \in Store
         /\ [t EXCEPT !.graph = g].graph = g
  BY DEF Store

LEMMA Concluded ==
  ASSUME IInv, NEW r, r.t \in Store, GraphInv(r.t.graph), Later(db.graph, r.t.graph),
         Conclude(r), left' \in 0..MaxStmts
  PROVE  Keeps
<1>0. db.graph \in GraphStore /\ r.t.graph \in GraphStore
  BY DEF IInv, GraphInv
<1>1. Later(db.graph, db.graph) /\ Later(r.t.graph, r.t.graph)
  BY <1>0, LaterReflexive
<1>2. stmt' = NoStmt /\ LoopInv'
  BY DEF Conclude, LoopInv, NoStmt
<1>3. CASE mode = "batch"
  <2>1. work' = r.t /\ db' = db /\ mode' = mode
    BY <1>3 DEF Conclude
  <2> QED
    BY <1>1, <1>2, <2>1 DEF Keeps, IInv, TypeOK
<1>4. CASE mode # "batch"
  <2>1. work' = db' /\ mode' = "idle" /\ (db' = r.t \/ db' = db)
    BY <1>4 DEF Conclude
  <2> QED
    BY <1>1, <1>2, <2>1 DEF Keeps, IInv, TypeOK
<1> QED
  BY <1>3, <1>4

\* A statement of one step over the graph.
LEMMA GraphStatement ==
  ASSUME IInv, NEW r, GraphInv(r.t), Later(work.graph, r.t), Apply(Over(r))
  PROVE  Keeps
<1>0. work \in Store /\ work.graph \in GraphStore /\ db.graph \in GraphStore /\ r.t \in GraphStore
  BY DEF IInv, GraphInv, TypeOK
<1> DEFINE q == Over(r)
<1>1. q.t = [work EXCEPT !.graph = r.t]
  BY DEF Over
<1>2. q.t \in Store /\ q.t.graph = r.t
  BY <1>0, <1>1, StoreFields
<1>3. Later(db.graph, r.t)
  BY <1>0, LaterTransitive DEF IInv
<1>4. left' \in 0..MaxStmts /\ Conclude(q)
  BY WriteTxAssumption DEF Apply, Ready, IInv, TypeOK
<1> HIDE DEF q
<1> QED
  BY <1>2, <1>3, <1>4, Concluded

\* A statement that begins a loop.
LEMMA Begun ==
  ASSUME IInv, NEW t \in Store, GraphInv(t.graph), Later(work.graph, t.graph),
         NEW s \in {NoStmt} \cup NodesStmt \cup EdgesStmt \cup CascadeStmt,
         Loop(t, s), LoopInv'
  PROVE  Keeps
<1>0. work.graph \in GraphStore /\ db.graph \in GraphStore /\ t.graph \in GraphStore
  BY DEF IInv, GraphInv
<1>1. Later(db.graph, t.graph) /\ Later(db.graph, db.graph)
  BY <1>0, LaterTransitive, LaterReflexive DEF IInv
<1>2. stmt' = s /\ work' = t /\ db' = db /\ left' \in 0..MaxStmts
      /\ mode' \in {"idle", "auto", "batch"}
  BY WriteTxAssumption DEF Loop, Ready, IInv, TypeOK
<1> QED
  BY <1>1, <1>2 DEF Keeps, IInv, TypeOK

\* A step of a loop.
LEMMA WentOn ==
  ASSUME IInv, NEW t \in Store, GraphInv(t.graph), Later(db.graph, t.graph),
         NEW s \in {NoStmt} \cup NodesStmt \cup EdgesStmt \cup CascadeStmt,
         GoOn(t, s), LoopInv'
  PROVE  Keeps
<1>1. Later(db.graph, db.graph)
  BY LaterReflexive DEF IInv, GraphInv
<1>2. stmt' = s /\ work' = t /\ db' = db /\ left' = left /\ mode' = mode
  BY DEF GoOn
<1> QED
  BY <1>1, <1>2 DEF Keeps, IInv, TypeOK

\* The end of a loop.
LEMMA Ended ==
  ASSUME IInv, NEW r, r.t \in Store, GraphInv(r.t.graph), Later(db.graph, r.t.graph), Finish(r)
  PROVE  Keeps
<1>1. left' \in 0..MaxStmts /\ Conclude(r)
  BY DEF Finish, IInv, TypeOK
<1> QED
  BY <1>1, Concluded

LEMMA EndedAsIs ==
  ASSUME IInv, Finish(Ok(work)) \/ Finish(Fail(work))
  PROVE  Keeps
<1>1. work \in Store /\ GraphInv(work.graph) /\ Later(db.graph, work.graph)
  BY DEF IInv, TypeOK
<1>2. Ok(work).t = work /\ Fail(work).t = work
  BY DEF Ok, Fail
<1> QED
  BY <1>1, <1>2, Ended

\* The batch of a caller.
LEMMA BatchStep ==
  ASSUME IInv, BeginBatch \/ CommitBatch \/ DropBatch
  PROVE  Keeps
<1>1. Later(db.graph, db.graph) /\ Later(work.graph, work.graph)
  BY LaterReflexive DEF IInv, GraphInv
<1>2. stmt' = stmt /\ left' = left /\ mode' \in {"idle", "auto", "batch"}
  BY DEF BeginBatch, CommitBatch, DropBatch
<1>3. CASE BeginBatch
  BY <1>1, <1>2, <1>3 DEF BeginBatch, Keeps, IInv, TypeOK, LoopInv, Ahead
<1>4. CASE CommitBatch
  BY <1>1, <1>2, <1>4 DEF CommitBatch, Keeps, IInv, TypeOK, LoopInv, NoStmt
<1>5. CASE DropBatch
  BY <1>1, <1>2, <1>5 DEF DropBatch, Keeps, IInv, TypeOK, LoopInv, NoStmt
<1> QED
  BY <1>3, <1>4, <1>5

LEMMA StutterStep == IInv /\ UNCHANGED vars => Keeps
<1> SUFFICES ASSUME IInv, UNCHANGED vars PROVE Keeps
  OBVIOUS
<1>1. Later(db.graph, db.graph)
  BY LaterReflexive DEF IInv, GraphInv
<1> QED
  BY <1>1 DEF vars, Keeps, IInv, TypeOK, LoopInv, Ahead

\* Raw tables.
LEMMA KvWriteStep ==
  ASSUME IInv, NEW table \in KvTables, NEW v \in KvVals \cup {None}, KvWrite(table, v)
  PROVE  Keeps
<1> DEFINE r == IF table \in Reserved THEN Fail(work) ELSE Ok([work EXCEPT !.kv[table] = v])
<1>1. r.t \in Store /\ r.t.graph = work.graph
  BY DEF Ok, Fail, IInv, TypeOK, Store
<1>2. GraphInv(r.t.graph) /\ Later(db.graph, r.t.graph)
  BY <1>1 DEF IInv
<1>3. Conclude(r) /\ left' \in 0..MaxStmts
  BY WriteTxAssumption DEF KvWrite, Apply, Ready, IInv, TypeOK
<1> HIDE DEF r
<1> QED
  BY <1>1, <1>2, <1>3, Concluded

LEMMA StmtKinds ==
  ASSUME IInv
  PROVE  /\ stmt.op = "nodes" => stmt \in NodesStmt
         /\ stmt.op = "edges" => stmt \in EdgesStmt
         /\ stmt.op \in {"collect", "delete"} => stmt \in CascadeStmt
  BY DEF IInv, TypeOK, NoStmt, NodesStmt, EdgesStmt, CascadeStmt

\* The loop over nodes.
LEMMA StartNodesStep ==
  ASSUME IInv, NEW items \in Seq(Node), NEW links \in Seq(Link) \cup {None},
         StartNodes(items, links)
  PROVE  Keeps
<1> DEFINE f == BeforeFirst(work.graph)
           base == Reserve(f.nextNode)
           k == Len(items)
           g == [f EXCEPT !.nextNode = base + k]
           s == [op |-> "nodes", todo |-> items, base |-> base, next |-> base, links |-> links]
<1>0. /\ work \in Store /\ GraphInv(work.graph) /\ Later(db.graph, work.graph)
      /\ work.graph \in GraphStore /\ db.graph \in GraphStore
  BY DEF IInv, TypeOK, GraphInv
<1>1. k \in Nat
  OBVIOUS
<1>2. base .. (base + k - 1) \subseteq NodeIds /\ Loop(On(g), s)
  BY DEF StartNodes
<1>3. /\ GraphInv(g) /\ Later(work.graph, g) /\ LiveNodes(g) = LiveNodes(work.graph)
      /\ base \in Nat /\ base >= work.graph.nextNode /\ g.nextNode = base + k
  BY <1>0, <1>1, ReserveNodes
<1> HIDE DEF f, base, k, g
<1>4. On(g) \in Store /\ On(g).graph = g
  BY <1>0, <1>3, StoreFields DEF On, GraphInv
<1>5. s \in NodesStmt
  BY <1>3 DEF NodesStmt
<1>6. LoopInv'
  <2>1. /\ stmt' = s /\ s.op = "nodes" /\ s.next = base /\ Len(s.todo) = k
        /\ work'.graph = g /\ db' = db
    BY <1>2, <1>4 DEF Loop, k
  <2>2. db.graph.nextNode <= base
    BY <1>0, <1>3, Fields DEF Later
  <2>3. ASSUME NEW n \in base .. (base + k - 1)
        PROVE  n \in NodeIds \ LiveNodes(g) /\ n < g.nextNode
    <3>1. n \in NodeIds /\ n >= work.graph.nextNode
      BY <1>0, <1>1, <1>2, <1>3, <2>3, Fields
    <3>2. n \notin LiveNodes(work.graph)
      BY <1>0, <3>1, Fields, GraphAssumption DEF GraphInv, Counted
    <3> QED
      BY <1>1, <1>3, <2>3, <3>1, <3>2
  <2> HIDE DEF s
  <2> QED
    BY <2>1, <2>2, <2>3 DEF LoopInv, Ahead
<1> HIDE DEF s
<1> QED
  BY <1>2, <1>3, <1>4, <1>5, <1>6, Begun

\* What is left of a loop after one item.
LEMMA TailAhead ==
  ASSUME NEW T, NEW todo \in Seq(T), todo # <<>>, NEW next \in Nat
  PROVE  /\ Head(todo) \in T /\ Tail(todo) \in Seq(T)
         /\ next \in next .. (next + Len(todo) - 1)
         /\ (next + 1) .. (next + 1 + Len(Tail(todo)) - 1) =
                (next .. (next + Len(todo) - 1)) \ {next}
<1>1. Len(todo) \in Nat /\ Len(todo) >= 1 /\ Len(Tail(todo)) = Len(todo) - 1
  OBVIOUS
<1>2. Head(todo) \in T /\ Tail(todo) \in Seq(T)
  OBVIOUS
<1> QED
  BY <1>1, <1>2

LEMMA NodesNextStep == ASSUME IInv, NodesNext PROVE Keeps
<1> DEFINE n == stmt.next
           node == Head(stmt.todo)
           r == PutNode(work.graph, n, node)
           h == r.t
           s == [stmt EXCEPT !.todo = Tail(@), !.next = @ + 1]
<1>0. /\ work \in Store /\ GraphInv(work.graph) /\ Later(db.graph, work.graph)
      /\ work.graph \in GraphStore /\ db.graph \in GraphStore
  BY DEF IInv, TypeOK, GraphInv
<1>1. /\ stmt \in NodesStmt /\ stmt.op = "nodes" /\ stmt.todo # <<>>
      /\ stmt.todo \in Seq(Node) /\ n \in Nat
  BY DEF NodesNext, IInv, TypeOK, NoStmt, NodesStmt, EdgesStmt, CascadeStmt
<1>2. /\ node \in Node /\ Tail(stmt.todo) \in Seq(Node) /\ n \in Ahead
      /\ (n + 1) .. (n + 1 + Len(Tail(stmt.todo)) - 1) = Ahead \ {n}
  BY <1>1, TailAhead DEF Ahead
<1>3. /\ db.graph.nextNode <= n
      /\ \A m \in Ahead : m \in NodeIds \ LiveNodes(work.graph) /\ m < work.graph.nextNode
  BY <1>1 DEF IInv, LoopInv
<1>4. /\ GraphInv(h) /\ LiveNodes(h) = LiveNodes(work.graph) \cup {n}
      /\ LiveEdges(h) = LiveEdges(work.graph)
      /\ h.nextNode = work.graph.nextNode /\ h.nextEdge = work.graph.nextEdge
  BY <1>0, <1>2, <1>3, PutNodeStep
<1>5. IF r.ok THEN GoOn(On(h), s) ELSE Finish(Over(r))
  BY DEF NodesNext
<1>6. s \in NodesStmt /\ s.op = "nodes" /\ s.next = n + 1 /\ s.todo = Tail(stmt.todo)
  <2> DEFINE rest == Tail(stmt.todo)
  <2>1. s = [stmt EXCEPT !.todo = rest, !.next = n + 1]
    OBVIOUS
  <2>2. rest \in Seq(Node) /\ n + 1 \in Nat
    BY <1>1, <1>2
  <2> HIDE DEF rest, s, n
  <2>3. s \in NodesStmt /\ s.op = "nodes" /\ s.next = n + 1 /\ s.todo = rest
    BY <1>1, <2>1, <2>2 DEF NodesStmt
  <2> QED
    BY <2>3 DEF rest
<1>7. Over(r).t = On(h)
  BY DEF Over, On
<1> HIDE DEF n, node, r, h, s
<1>8. Later(db.graph, h)
  BY <1>0, <1>3, <1>4 DEF Later
<1>9. On(h) \in Store /\ On(h).graph = h
  BY <1>0, <1>4, StoreFields DEF On, GraphInv
<1>10. CASE r.ok
  <2>1. stmt' = s /\ work'.graph = h /\ db' = db
    BY <1>5, <1>9, <1>10 DEF GoOn
  <2>2. Ahead' = Ahead \ {n}
    BY <1>2, <1>6, <2>1 DEF Ahead
  <2>3. db.graph.nextNode <= n + 1
    BY <1>0, <1>1, <1>3, Fields
  <2>4. LoopInv'
    BY <1>3, <1>4, <1>6, <2>1, <2>2, <2>3 DEF LoopInv
  <2> QED
    BY <1>4, <1>5, <1>6, <1>8, <1>9, <1>10, <2>4, WentOn
<1>11. CASE ~r.ok
  BY <1>4, <1>5, <1>7, <1>8, <1>9, <1>11, Ended
<1> QED
  BY <1>10, <1>11

\* The loop over edges.
LEMMA ReserveEdgesFor ==
  ASSUME IInv, NEW links \in Seq(Link), RoomForEdges(links)
  PROVE  LET t == ReserveEdges(links).t
             base == ReserveEdges(links).base
         IN  /\ t \in Store /\ GraphInv(t.graph) /\ Later(work.graph, t.graph)
             /\ base \in Nat /\ db.graph.nextEdge <= base
             /\ \A e \in base .. (base + Len(links) - 1) :
                    e \in EdgeIds \ LiveEdges(t.graph) /\ e < t.graph.nextEdge
<1> DEFINE t == ReserveEdges(links).t
           base == ReserveEdges(links).base
           k == Len(links)
           g == [work.graph EXCEPT !.nextEdge = base + k]
<1> SUFFICES /\ t \in Store /\ GraphInv(t.graph) /\ Later(work.graph, t.graph)
             /\ base \in Nat /\ db.graph.nextEdge <= base
             /\ \A e \in base .. (base + k - 1) :
                    e \in EdgeIds \ LiveEdges(t.graph) /\ e < t.graph.nextEdge
  OBVIOUS
<1>0. /\ work \in Store /\ GraphInv(work.graph) /\ Later(db.graph, work.graph)
      /\ work.graph \in GraphStore /\ db.graph \in GraphStore /\ k \in Nat
  BY DEF IInv, TypeOK, GraphInv
<1>1. base = Reserve(work.graph.nextEdge) /\ base .. (base + k - 1) \subseteq EdgeIds
  BY DEF ReserveEdges, RoomForEdges
<1>3. t = IF links = <<>> THEN work ELSE [work EXCEPT !.graph = g]
  BY <1>0 DEF ReserveEdges, Store
<1>4. links = <<>> => k = 0
  OBVIOUS
<1> HIDE DEF t, base, k
<1>2. base \in Nat /\ base >= work.graph.nextEdge /\ db.graph.nextEdge <= base
  <2>1. /\ work.graph.nextEdge \in Nat /\ db.graph.nextEdge \in Nat
        /\ db.graph.nextEdge <= work.graph.nextEdge
    BY <1>0, Fields DEF Later
  <2>2. base \in Nat /\ base >= work.graph.nextEdge
    BY <1>1, <2>1, ReserveType
  <2> QED
    BY <2>1, <2>2
<1>5. /\ GraphInv(g) /\ Later(work.graph, g) /\ LiveEdges(g) = LiveEdges(work.graph)
      /\ g.nextEdge = base + k
  <2> DEFINE top == base + k
  <2>1. top \in Nat /\ top >= work.graph.nextEdge
    BY <1>0, <1>2, Fields
  <2> HIDE DEF top
  <2>2. LET h == [work.graph EXCEPT !.nextEdge = top]
        IN  /\ GraphInv(h) /\ Later(work.graph, h) /\ LiveNodes(h) = LiveNodes(work.graph)
            /\ LiveEdges(h) = LiveEdges(work.graph) /\ h.nextEdge = top
    BY <1>0, <2>1, ReserveEdgesStep
  <2> QED
    BY <2>2 DEF top
<1> HIDE DEF g
<1>6. [work EXCEPT !.graph = g] \in Store /\ [work EXCEPT !.graph = g].graph = g
  BY <1>0, <1>5, StoreFields DEF GraphInv
<1>7. CASE links = <<>>
  BY <1>0, <1>2, <1>3, <1>4, <1>7, LaterReflexive
<1>8. CASE links # <<>>
  <2>1. t \in Store /\ t.graph = g
    BY <1>3, <1>6, <1>8
  <2>2. ASSUME NEW e \in base .. (base + k - 1)
        PROVE  e \in EdgeIds \ LiveEdges(g) /\ e < g.nextEdge
    <3>1. e \in EdgeIds /\ e \in Nat /\ e >= work.graph.nextEdge /\ e < g.nextEdge
      BY <1>0, <1>1, <1>2, <1>5, <2>2, Fields
    <3>2. e \notin LiveEdges(work.graph)
      BY <1>0, <3>1, Fields DEF GraphInv, Counted
    <3> QED
      BY <1>5, <3>1, <3>2
  <2> QED
    BY <1>2, <1>5, <2>1, <2>2
<1> QED
  BY <1>7, <1>8

LEMMA EdgesFromFields ==
  ASSUME NEW links \in Seq(Link), NEW made \in (SUBSET NodeIds) \cup {None},
         ReserveEdges(links).base \in Nat
  PROVE  LET s == EdgesFrom(links, made)
         IN  /\ s \in EdgesStmt /\ s.op = "edges" /\ s.todo = links
             /\ s.next = ReserveEdges(links).base
<1> DEFINE base == ReserveEdges(links).base
           s == EdgesFrom(links, made)
<1>1. s = [op |-> "edges", todo |-> links, next |-> base, made |-> made] /\ base \in Nat
  BY DEF EdgesFrom
<1> HIDE DEF base
<1>2. s \in EdgesStmt /\ s.op = "edges" /\ s.todo = links /\ s.next = base
  BY <1>1 DEF EdgesStmt
<1> QED
  BY <1>2 DEF base

\* A loop over edges that has just reserved their ids.
LEMMA EdgesLoopInv ==
  ASSUME IInv, NEW links \in Seq(Link), RoomForEdges(links),
         NEW made \in (SUBSET NodeIds) \cup {None},
         stmt' = EdgesFrom(links, made), work' = ReserveEdges(links).t, db' = db
  PROVE  LoopInv'
<1> DEFINE t == ReserveEdges(links).t
           base == ReserveEdges(links).base
           s == EdgesFrom(links, made)
<1>1. /\ base \in Nat /\ db.graph.nextEdge <= base
      /\ \A e \in base .. (base + Len(links) - 1) :
             e \in EdgeIds \ LiveEdges(t.graph) /\ e < t.graph.nextEdge
  BY ReserveEdgesFor
<1>2. s \in EdgesStmt /\ s.op = "edges" /\ s.todo = links /\ s.next = base
  BY <1>1, EdgesFromFields
<1>3. stmt' = s /\ work' = t
  OBVIOUS
<1> HIDE DEF s, t, base
<1> QED
  BY <1>1, <1>2, <1>3 DEF LoopInv, Ahead

LEMMA CreateEdgesStep ==
  ASSUME IInv, NEW links \in Seq(Link), CreateEdges(links)
  PROVE  Keeps
<1> DEFINE t == ReserveEdges(links).t
           s == EdgesFrom(links, None)
<1>1. RoomForEdges(links) /\ Loop(t, s)
  BY DEF CreateEdges
<1>2. t \in Store /\ GraphInv(t.graph) /\ Later(work.graph, t.graph) /\ s \in EdgesStmt
  BY <1>1, ReserveEdgesFor, EdgesFromFields
<1>3. LoopInv'
  BY <1>1, EdgesLoopInv DEF Loop
<1> HIDE DEF t, s
<1> QED
  BY <1>1, <1>2, <1>3, Begun

LEMMA EdgesNextStep == ASSUME IInv, EdgesNext PROVE Keeps
<1> DEFINE e == stmt.next
           link == Head(stmt.todo)
           h == PutEdge(work.graph, e, link)
           s == [stmt EXCEPT !.todo = Tail(@), !.next = @ + 1]
           ok == link \in Edge /\ CanLink(work.graph, link)
<1>0. /\ work \in Store /\ GraphInv(work.graph) /\ Later(db.graph, work.graph)
      /\ work.graph \in GraphStore /\ db.graph \in GraphStore
  BY DEF IInv, TypeOK, GraphInv
<1>1. /\ stmt \in EdgesStmt /\ stmt.op = "edges" /\ stmt.todo # <<>>
      /\ stmt.todo \in Seq(Link) /\ e \in Nat
  BY DEF EdgesNext, IInv, TypeOK, NoStmt, NodesStmt, EdgesStmt, CascadeStmt
<1>2. /\ Tail(stmt.todo) \in Seq(Link) /\ e \in Ahead
      /\ (e + 1) .. (e + 1 + Len(Tail(stmt.todo)) - 1) = Ahead \ {e}
  BY <1>1, TailAhead DEF Ahead
<1>3. /\ db.graph.nextEdge <= e
      /\ \A f \in Ahead : f \in EdgeIds \ LiveEdges(work.graph) /\ f < work.graph.nextEdge
  BY <1>1 DEF IInv, LoopInv
<1>4. IF ok THEN GoOn(On(h), s) ELSE Finish(Fail(work))
  BY DEF EdgesNext
<1>5. s \in EdgesStmt /\ s.op = "edges" /\ s.next = e + 1 /\ s.todo = Tail(stmt.todo)
  <2> DEFINE rest == Tail(stmt.todo)
  <2>1. s = [stmt EXCEPT !.todo = rest, !.next = e + 1]
    OBVIOUS
  <2>2. rest \in Seq(Link) /\ e + 1 \in Nat
    BY <1>1, <1>2
  <2> HIDE DEF rest, s, e
  <2>3. s \in EdgesStmt /\ s.op = "edges" /\ s.next = e + 1 /\ s.todo = rest
    BY <1>1, <2>1, <2>2 DEF EdgesStmt
  <2> QED
    BY <2>3 DEF rest
<1>6. CASE ok
  <2>1. /\ GraphInv(h) /\ LiveNodes(h) = LiveNodes(work.graph)
        /\ LiveEdges(h) = LiveEdges(work.graph) \cup {e}
        /\ h.nextNode = work.graph.nextNode /\ h.nextEdge = work.graph.nextEdge
    BY <1>0, <1>2, <1>3, <1>6, PutEdgeStep
  <2> HIDE DEF e, link, h, s
  <2>2. Later(db.graph, h)
    BY <1>0, <1>3, <2>1 DEF Later
  <2>3. On(h) \in Store /\ On(h).graph = h
    BY <1>0, <2>1, StoreFields DEF On, GraphInv
  <2>4. stmt' = s /\ work'.graph = h /\ db' = db /\ GoOn(On(h), s)
    BY <1>4, <1>6, <2>3 DEF GoOn
  <2>5. Ahead' = Ahead \ {e}
    BY <1>2, <1>5, <2>4 DEF Ahead
  <2>6. db.graph.nextEdge <= e + 1
    BY <1>0, <1>1, <1>3, Fields
  <2>7. LoopInv'
    BY <1>3, <1>5, <2>1, <2>4, <2>5, <2>6 DEF LoopInv
  <2> QED
    BY <1>5, <2>1, <2>2, <2>3, <2>4, <2>7, WentOn
<1>7. CASE ~ok
  BY <1>4, <1>7, EndedAsIs
<1> QED
  BY <1>6, <1>7

\* sync_batch: the links over the new nodes, then the rows.
LEMMA SyncEdgesStep == ASSUME IInv, SyncEdges PROVE Keeps
<1> DEFINE old == stmt.links
           ends == \A i \in DOMAIN old : Resolves(old[i].from) /\ Resolves(old[i].to)
           links == [i \in DOMAIN old |-> [old[i] EXCEPT !.from = Resolved(@), !.to = Resolved(@)]]
           made == {n \in NodeIds : stmt.base <= n /\ n < stmt.next}
           t == ReserveEdges(links).t
           s == EdgesFrom(links, made)
<1>1. stmt \in NodesStmt /\ old \in Seq(Link) /\ stmt.base \in Nat
  <2>0. stmt.op = "nodes"
    BY DEF SyncEdges
  <2>1. stmt \in NodesStmt
    BY <2>0, StmtKinds
  <2>2. old \in Seq(Link) \cup {None} /\ stmt.base \in Nat
    BY <2>1 DEF NodesStmt
  <2>3. old # None
    BY DEF SyncEdges
  <2> QED
    BY <2>1, <2>2, <2>3
<1>2. IF ends THEN GoOn(t, s) ELSE Finish(Fail(work))
  BY DEF SyncEdges
<1>3. links \in Seq(Link) /\ Len(links) = Len(old)
  <2>1. Len(old) \in Nat /\ DOMAIN old = 1 .. Len(old)
    BY <1>1
  <2>2. ASSUME NEW i \in DOMAIN old PROVE links[i] \in Link
    <3>1. old[i] \in Link /\ old[i].from \in Int /\ old[i].to \in Int
      <4> HIDE DEF old
      <4>1. old[i] \in Link
        BY <1>1, <2>2
      <4> QED
        BY <4>1 DEF Link
    <3>2. Resolved(old[i].from) \in Int /\ Resolved(old[i].to) \in Int
      BY <1>1, <3>1 DEF Resolved
    <3>3. links[i] = [old[i] EXCEPT !.from = Resolved(old[i].from), !.to = Resolved(old[i].to)]
      BY <2>2
    <3> HIDE DEF links, old
    <3> QED
      BY <3>1, <3>2, <3>3 DEF Link
  <2>3. links \in [1 .. Len(old) -> Link]
    BY <2>1, <2>2
  <2> HIDE DEF links, old
  <2> QED
    BY <2>1, <2>3
<1>4. RoomForEdges(links)
  BY <1>3 DEF SyncEdges, RoomForEdges
<1>5. made \in SUBSET NodeIds
  OBVIOUS
<1> HIDE DEF ends, links, made
<1>6. t \in Store /\ GraphInv(t.graph) /\ Later(work.graph, t.graph) /\ s \in EdgesStmt
  BY <1>3, <1>4, <1>5, ReserveEdgesFor, EdgesFromFields
<1>7. Later(db.graph, t.graph)
  BY <1>6, LaterTransitive DEF IInv, GraphInv
<1>8. CASE ends
  <2>1. LoopInv'
    BY <1>2, <1>3, <1>4, <1>5, <1>8, EdgesLoopInv DEF GoOn
  <2> HIDE DEF t, s
  <2> QED
    BY <1>2, <1>6, <1>7, <1>8, <2>1, WentOn
<1>9. CASE ~ends
  BY <1>2, <1>9, EndedAsIs
<1> QED
  BY <1>8, <1>9

LEMMA SyncRowsStep == ASSUME IInv, SyncRows PROVE Keeps
<1> DEFINE t == [work EXCEPT !.synced = @ \cup stmt.made]
<1>1. stmt.made \in SUBSET NodeIds
  BY DEF SyncRows, IInv, TypeOK, NoStmt, NodesStmt, EdgesStmt, CascadeStmt
<1>2. t \in Store /\ t.graph = work.graph
  BY <1>1 DEF IInv, TypeOK, Store
<1> HIDE DEF t
<1>3. Ok(t).t = t
  BY DEF Ok
<1>4. CASE Finish(Ok(t))
  BY <1>2, <1>3, <1>4, Ended DEF IInv
<1>5. CASE Finish(Fail(work))
  BY <1>5, EndedAsIs
<1> QED
  BY <1>4, <1>5 DEF SyncRows, t

\* cascade_delete_in.
LEMMA CascadeDeleteStep ==
  ASSUME IInv, NEW root \in NodeIds, NEW type \in Types, CascadeDelete(root, type)
  PROVE  Keeps
<1> DEFINE s == [op |-> "collect", type |-> type, found |-> <<root>>, at |-> 1]
<1>0. work \in Store /\ GraphInv(work.graph) /\ Later(work.graph, work.graph)
  BY LaterReflexive DEF IInv, TypeOK, GraphInv
<1>1. CASE Apply(Fail(work))
  <2>1. Conclude(Fail(work)) /\ left' \in 0..MaxStmts
    BY <1>1, WriteTxAssumption DEF Apply, Ready, IInv, TypeOK
  <2>2. Fail(work).t = work
    BY DEF Fail
  <2> QED
    BY <1>0, <2>1, <2>2, Concluded DEF IInv
<1>2. CASE Loop(work, s)
  <2>1. s \in CascadeStmt
    BY DEF CascadeStmt
  <2>2. LoopInv'
    BY <1>2 DEF Loop, LoopInv
  <2> HIDE DEF s
  <2> QED
    BY <1>0, <1>2, <2>1, <2>2, Begun
<1> QED
  BY <1>1, <1>2 DEF CascadeDelete

LEMMA CascadeCollectStep == ASSUME IInv, CascadeCollect PROVE Keeps
<1>0. work \in Store /\ GraphInv(work.graph) /\ Later(db.graph, work.graph)
  BY DEF IInv, TypeOK
<1>1. stmt.op = "collect"
  BY DEF CascadeCollect
<1>2. stmt \in CascadeStmt /\ stmt.found \in Seq(NodeIds) /\ stmt.at \in Nat /\ stmt.at >= 1
  BY <1>1, StmtKinds DEF CascadeStmt, IInv, LoopInv
<1> DEFINE S == Children(work.graph, stmt.found[stmt.at], stmt.type) \ Found
<1>3. PICK s \in Ascending(S) : GoOn(work, [stmt EXCEPT !.found = @ \o s, !.at = @ + 1])
  BY DEF CascadeCollect
<1>4. S \subseteq NodeIds
  BY DEF Children
<1> HIDE DEF S
<1>5. Cardinality(S) \in Nat
  BY <1>4, GraphAssumption, FS_Subset, FS_CardinalityType
<1>6. s \in Seq(NodeIds)
  <2> DEFINE k == Cardinality(S)
  <2>1. s \in [1..k -> S]
    BY DEF Ascending
  <2>2. k \in Nat
    BY <1>5
  <2> HIDE DEF k
  <2> QED
    BY <1>4, <2>1, <2>2
<1> DEFINE found == stmt.found \o s
           q == [stmt EXCEPT !.found = @ \o s, !.at = @ + 1]
<1>7. found \in Seq(NodeIds) /\ stmt.at + 1 \in Nat /\ stmt.at + 1 >= 1
  BY <1>2, <1>6
<1>8. q = [stmt EXCEPT !.found = found, !.at = stmt.at + 1]
  OBVIOUS
<1> HIDE DEF found, q
<1>9. q \in CascadeStmt /\ q.op = "collect" /\ q.at = stmt.at + 1
  BY <1>1, <1>2, <1>7, <1>8 DEF CascadeStmt
<1>10. GoOn(work, q)
  BY <1>3 DEF q
<1>11. LoopInv'
  BY <1>7, <1>9, <1>10 DEF GoOn, LoopInv
<1> QED
  BY <1>0, <1>9, <1>10, <1>11, WentOn

LEMMA CascadeTurnStep == ASSUME IInv, CascadeTurn PROVE Keeps
<1> DEFINE s == [stmt EXCEPT !.op = "delete", !.at = Len(stmt.found)]
<1>0. work \in Store /\ GraphInv(work.graph) /\ Later(db.graph, work.graph)
  BY DEF IInv, TypeOK
<1>1. stmt \in CascadeStmt /\ stmt.found \in Seq(NodeIds) /\ GoOn(work, s)
  BY StmtKinds DEF CascadeTurn, CascadeStmt
<1>2. Len(stmt.found) \in Nat
  BY <1>1
<1>3. s \in CascadeStmt /\ s.op = "delete" /\ s.at = Len(stmt.found) /\ s.found = stmt.found
  BY <1>1, <1>2 DEF CascadeStmt
<1> HIDE DEF s
<1>4. LoopInv'
  BY <1>1, <1>2, <1>3 DEF GoOn, LoopInv
<1> QED
  BY <1>0, <1>1, <1>3, <1>4, WentOn

LEMMA CascadeNextStep == ASSUME IInv, CascadeNext PROVE Keeps
<1> DEFINE n == stmt.found[stmt.at]
           r == DeleteNodeIn(work.graph, n)
           h == r.t
           s == [stmt EXCEPT !.at = @ - 1]
<1>0. /\ work \in Store /\ GraphInv(work.graph) /\ Later(db.graph, work.graph)
      /\ work.graph \in GraphStore /\ db.graph \in GraphStore
  BY DEF IInv, TypeOK, GraphInv
<1>1. stmt.op = "delete" /\ stmt.at > 0
  BY DEF CascadeNext
<1>2. /\ stmt \in CascadeStmt /\ stmt.found \in Seq(NodeIds) /\ stmt.at \in Nat
      /\ stmt.at <= Len(stmt.found)
  BY <1>1, StmtKinds DEF CascadeStmt, IInv, LoopInv
<1>3. n \in NodeIds
  BY <1>1, <1>2
<1>4. IF r.ok THEN GoOn(On(h), s) ELSE Finish(Over(r))
  BY DEF CascadeNext
<1>5. s \in CascadeStmt /\ s.op = "delete" /\ s.at = stmt.at - 1 /\ s.found = stmt.found
  BY <1>1, <1>2 DEF CascadeStmt
<1>6. Over(r).t = On(h)
  BY DEF Over, On
<1> HIDE DEF n, s
<1>7. GraphInv(h) /\ Later(work.graph, h)
  BY <1>0, <1>3, DeleteNodeStep
<1> HIDE DEF h, r
<1>8. Later(db.graph, h)
  BY <1>0, <1>7, LaterTransitive DEF GraphInv
<1>9. On(h) \in Store /\ On(h).graph = h
  BY <1>0, <1>7, StoreFields DEF On, GraphInv
<1>10. CASE r.ok
  <2>1. stmt' = s
    BY <1>4, <1>10 DEF GoOn
  <2>2. stmt.at - 1 <= Len(stmt.found)
    BY <1>2
  <2>3. LoopInv'
    BY <1>5, <2>1, <2>2 DEF LoopInv
  <2> QED
    BY <1>4, <1>5, <1>7, <1>8, <1>9, <1>10, <2>3, WentOn
<1>11. CASE ~r.ok
  BY <1>4, <1>6, <1>7, <1>8, <1>9, <1>11, Ended
<1> QED
  BY <1>10, <1>11

LEMMA NextKeeps == ASSUME IInv, Next PROVE Keeps
<1>0. GraphInv(work.graph)
  BY DEF IInv
<1>1. CASE BeginBatch \/ CommitBatch \/ DropBatch
  BY <1>1, BatchStep
<1>2. ASSUME NEW table \in KvTables, NEW v \in KvVals \cup {None}, KvWrite(table, v) PROVE Keeps
  BY <1>2, KvWriteStep
<1>3. ASSUME NEW items \in NodeBatches, CreateNodes(items) PROVE Keeps
  <2>1. items \in Seq(Node)
    BY DatabaseAssumption
  <2> QED
    BY <1>3, <2>1, StartNodesStep DEF CreateNodes
<1>4. ASSUME NEW links \in EdgeBatches, CreateEdges(links) PROVE Keeps
  BY <1>4, DatabaseAssumption, CreateEdgesStep
<1>5. ASSUME NEW link, CreateEdge(link) PROVE Keeps
  BY <1>0, <1>5, CreateEdgeStep, GraphStatement DEF CreateEdge
<1>6. ASSUME NEW items \in NodeBatches, NEW links \in LinkBatches, SyncBatch(items, links)
      PROVE  Keeps
  <2>1. items \in Seq(Node) /\ links \in Seq(Link)
    BY DatabaseAssumption
  <2> QED
    BY <1>6, <2>1, StartNodesStep DEF SyncBatch
<1>7. CASE NodesNext \/ EdgesNext \/ SyncEdges \/ SyncRows
  BY <1>7, NodesNextStep, EdgesNextStep, SyncEdgesStep, SyncRowsStep
<1>8. CASE NodesDone \/ EdgesDone \/ CascadeDone
  BY <1>8, EndedAsIs DEF NodesDone, EdgesDone, CascadeDone
<1>9. ASSUME NEW n \in NodeIds, DeleteNode(n) PROVE Keeps
  BY <1>0, <1>9, DeleteNodeStep, GraphStatement DEF DeleteNode
<1>10. ASSUME NEW n \in NodeIds, NEW v \in Vals \cup {Absent}, UpdateNode(n, v) PROVE Keeps
  BY <1>0, <1>10, UpdateNodeStep, GraphStatement DEF UpdateNode
<1>11. ASSUME NEW e \in EdgeIds, DeleteEdge(e) PROVE Keeps
  BY <1>0, <1>11, DeleteEdgeStep, GraphStatement DEF DeleteEdge
<1>12. ASSUME NEW e \in EdgeIds, NEW v \in Vals \cup {Absent}, UpdateEdge(e, v) PROVE Keeps
  BY <1>0, <1>12, UpdateEdgeStep, GraphStatement DEF UpdateEdge
<1>13. ASSUME NEW l \in Labels, CreatePropertyIndex(l) PROVE Keeps
  BY <1>0, <1>13, CreatePropertyIndexStep, GraphStatement DEF CreatePropertyIndex
<1>14. ASSUME NEW l \in Labels, DropPropertyIndex(l) PROVE Keeps
  BY <1>0, <1>14, DropPropertyIndexStep, GraphStatement DEF DropPropertyIndex
<1>15. CASE RebuildIndexes
  BY <1>0, <1>15, RebuildIndexesStep, GraphStatement DEF RebuildIndexes
<1>16. ASSUME NEW n \in NodeIds, NEW type \in Types, CascadeDelete(n, type) PROVE Keeps
  BY <1>16, CascadeDeleteStep
<1>17. CASE CascadeCollect \/ CascadeTurn \/ CascadeNext
  BY <1>17, CascadeCollectStep, CascadeTurnStep, CascadeNextStep
<1> QED
  BY <1>1, <1>2, <1>3, <1>4, <1>5, <1>6, <1>7, <1>8, <1>9, <1>10, <1>11, <1>12, <1>13, <1>14,
     <1>15, <1>16, <1>17 DEF Next

LEMMA InitIInv == Init => IInv
<1> SUFFICES ASSUME Init PROVE IInv
  OBVIOUS
<1> DEFINE At(g) == /\ \A n \in LiveNodes(g) : n < g.nextNode
                   /\ db = Opened(g)
           files == {NewGraph} \cup {OldGraph(f, n) : f \in OldFiles, n \in NodeIds}
<1>a. \E g \in files : At(g)
  BY DEF Init
<1>b. \A g \in files : \E f \in [NodeIds -> Node \cup {None}], k \in Nat : g = OldGraph(f, k)
  <2>1. [n \in NodeIds |-> None] \in [NodeIds -> Node \cup {None}] /\ 0 \in Nat
    OBVIOUS
  <2>2. \E f \in [NodeIds -> Node \cup {None}], k \in Nat : NewGraph = OldGraph(f, k)
    BY <2>1 DEF NewGraph
  <2>3. \A f \in OldFiles, n \in NodeIds : f \in [NodeIds -> Node \cup {None}] /\ n \in Nat
    BY DatabaseAssumption, GraphAssumption
  <2> QED
    BY <2>2, <2>3
<1> HIDE DEF At, files
<1>1. PICK f \in [NodeIds -> Node \cup {None}], k \in Nat : At(OldGraph(f, k))
  BY <1>a, <1>b
<1> DEFINE g == OldGraph(f, k)
<1>2. /\ g \in GraphStore
      /\ g.nodes = f /\ g.edges = [e \in EdgeIds |-> None] /\ g.out = {} /\ g.in = {}
      /\ g.labels = {} /\ g.marker = FALSE /\ g.reg = {} /\ g.props = {}
      /\ g.nextNode = k /\ g.nextEdge = 0 /\ g.torn = FALSE
  BY DEF OldGraph, GraphStore
<1>3. db = Opened(g) /\ \A n \in LiveNodes(g) : n < g.nextNode
  BY <1>1 DEF At
<1> HIDE DEF g
<1>4. LiveEdges(g) = {}
  BY <1>2 DEF LiveEdges
<1>5. GraphInv(g)
  BY <1>2, <1>3, <1>4 DEF GraphInv, Adjacent, Joined, Counted, IndexSound, IndexComplete
<1>6. db \in Store /\ db.graph = g
  BY <1>2, <1>3 DEF Opened, Store
<1>7. Later(g, g)
  BY <1>2, LaterReflexive
<1>8. TypeOK
  BY <1>6, WriteTxAssumption DEF Init, TypeOK
<1>9. LoopInv
  BY DEF Init, LoopInv, NoStmt
<1>10. work = db
  BY DEF Init
<1> QED
  BY <1>5, <1>6, <1>7, <1>8, <1>9, <1>10 DEF IInv

LEMMA StepKeeps == IInv /\ [Next]_vars => Keeps
  BY NextKeeps, StutterStep

\* The strengthening holds in every reachable state, and every step commits
\* only what it may.
LEMMA Invariant == Spec => []IInv /\ [][Keeps]_vars
<1>1. IInv /\ [Next]_vars => IInv'
  BY StepKeeps DEF Keeps
<1> QED
  BY <1>1, InitIInv, StepKeeps, PTL DEF Spec

-----------------------------------------------------------------------------
\* Every reachable state of a database handle is well typed.
THEOREM DatabaseTypeOK == Spec => []TypeOK
<1>1. IInv => TypeOK
  BY DEF IInv
<1> QED
  BY <1>1, Invariant, PTL

\* The adjacency tables hold exactly the edges at every step of every
\* statement, in the committed data and in the open transaction: what
\* create_edges_bulk_in, delete_node_in with its two scans, and
\* cascade_delete_in half done leave behind.
THEOREM DatabaseAdjacencyExact == Spec => []AdjacencyExact
<1>1. ASSUME IInv, NEW g \in {db.graph, work.graph}
      PROVE  /\ g.out = {<<g.edges[e].from, g.edges[e].type, g.edges[e].to, e>> :
                            e \in LiveEdges(g)}
             /\ g.in = {<<g.edges[e].to, g.edges[e].type, g.edges[e].from, e>> :
                            e \in LiveEdges(g)}
  <2>1. Adjacent(g)
    BY <1>1 DEF IInv, GraphInv
  <2>2. ASSUME NEW r
        PROVE  /\ r \in g.out <=> \E e \in LiveEdges(g) : r = OutRow(g, e)
               /\ r \in g.in <=> \E e \in LiveEdges(g) : r = InRow(g, e)
    BY <2>1 DEF Adjacent
  <2> QED
    BY <2>2 DEF OutRow, InRow
<1>2. IInv => AdjacencyExact
  BY <1>1 DEF AdjacencyExact
<1> QED
  BY <1>2, Invariant, PTL

\* No edge dangles: whatever create_edge_in, create_edges_bulk_in and
\* sync_batch link, delete_node_in and cascade_delete_in unlink.
THEOREM DatabaseNoDangling == Spec => []NoDangling
<1>1. IInv => NoDangling
  BY DEF IInv, GraphInv, Joined, NoDangling
<1> QED
  BY <1>1, Invariant, PTL

\* Lookups by label and by property answer as a scan would (up to the values
\* whose keys begin alike), in files of versions with and without the label
\* index, unless a batch went on after a rebuild that stopped half way.
THEOREM DatabaseIndexesExact == Spec => []IndexesExact
<1>1. ASSUME IInv, NEW g \in {db.graph, work.graph}, ~g.torn, NEW l \in Labels \ LongLabels
      PROVE  /\ NodesByLabel(g, l) = ByScan(g, l)
             /\ \A v \in Vals :
                   LET want == {n \in ByScan(g, l) : g.nodes[n].prop = v} IN
                   /\ want \subseteq FindNodes(g, l, v)
                   /\ \A n \in FindNodes(g, l, v) \ want :
                          n \in ByScan(g, l) /\ <<v, g.nodes[n].prop>> \in PrefixOf
  <2>0. GraphInv(g)
    BY <1>1 DEF IInv
  <2>1. NodesByLabel(g, l) = ByScan(g, l)
    BY <1>1, <2>0, LookupByLabel
  <2>2. ASSUME NEW v \in Vals,
               NEW want, want = {n \in ByScan(g, l) : g.nodes[n].prop = v}
        PROVE  /\ want \subseteq FindNodes(g, l, v)
               /\ \A n \in FindNodes(g, l, v) \ want :
                      n \in ByScan(g, l) /\ <<v, g.nodes[n].prop>> \in PrefixOf
    <3>1. CASE v \in Keyable /\ l \in g.reg
      <4>1. \A n : n \in FindNodes(g, l, v) <=>
              n \in NodeIds /\ \E w \in Keyable :
                  <<l, w, n>> \in g.props /\ (w = v \/ <<v, w>> \in PrefixOf)
        BY <3>1 DEF FindNodes
      <4>2. ASSUME NEW n \in want PROVE n \in FindNodes(g, l, v)
        BY <1>1, <2>0, <2>2, <3>1, <4>1, <4>2 DEF GraphInv, IndexComplete, ByScan, LiveNodes
      <4>3. ASSUME NEW n \in FindNodes(g, l, v) \ want
            PROVE  n \in ByScan(g, l) /\ <<v, g.nodes[n].prop>> \in PrefixOf
        <5>1. PICK w \in Keyable : <<l, w, n>> \in g.props /\ (w = v \/ <<v, w>> \in PrefixOf)
          BY <4>1, <4>3
        <5>2. n \in LiveNodes(g) /\ g.nodes[n].label = l /\ g.nodes[n].prop = w
          BY <2>0, <5>1 DEF GraphInv, IndexSound
        <5> QED
          BY <2>2, <4>3, <5>1, <5>2 DEF ByScan
      <4> QED
        BY <4>2, <4>3
    <3>2. CASE ~(v \in Keyable /\ l \in g.reg)
      <4>1. FindNodes(g, l, v) =
              {n \in NodesByLabel(g, l) \cap LiveNodes(g) : g.nodes[n].prop = v}
        BY <3>2 DEF FindNodes
      <4> QED
        BY <2>1, <2>2, <4>1 DEF ByScan
    <3> QED
      BY <3>1, <3>2
  <2> QED
    BY <2>1, <2>2
<1>2. IInv => IndexesExact
  BY <1>1 DEF IndexesExact
<1> QED
  BY <1>2, Invariant, PTL

\* No committed id is ever given again: the counters never go back, committed
\* ids are below them, and what a commit adds has ids from the counters of the
\* data it replaces on, over rollbacks, deletions and failed statements
\* (reserve_ids).
THEOREM DatabaseIdsNeverReused == Spec => IdsNeverReused
<1> DEFINE Fresh ==
             LET g == db.graph
                 h == db'.graph
             IN  /\ h.nextNode >= g.nextNode /\ h.nextEdge >= g.nextEdge
                 /\ \A n \in LiveNodes(h) :
                        n < h.nextNode /\ (n \in LiveNodes(g) \/ n >= g.nextNode)
                 /\ \A e \in LiveEdges(h) :
                        e < h.nextEdge /\ (e \in LiveEdges(g) \/ e >= g.nextEdge)
<1>1. Keeps => Fresh
  BY DEF Keeps, IInv, GraphInv, Counted, Later
<1>2. IdsNeverReused <=> [][Fresh]_vars
  BY DEF IdsNeverReused
<1> QED
  BY <1>1, <1>2, Invariant, PTL

=============================================================================
