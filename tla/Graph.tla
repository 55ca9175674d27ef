------------------------------- MODULE Graph --------------------------------
(***************************************************************************)
(* The tables of the property graph (bkndb-core/src/graph) and what each   *)
(* operation over an open write transaction does to them: db/ops.rs and    *)
(* index.rs.  Nodes carry a label and one property, edges a type and one   *)
(* property; the adjacency tables hold every edge under both its ends.     *)
(*                                                                         *)
(* A label longer than 65535 bytes does not fit an index key: its key      *)
(* builders fail, after the node itself is written.  An indexed value is   *)
(* found by a prefix of its key, so it also finds a value of another kind  *)
(* whose key begins with the same bytes (PrefixOf).                        *)
(***************************************************************************)
EXTENDS Integers, FiniteSets

CONSTANTS
    NodeIds, EdgeIds,  \* ids a file has room for, from 1 on
    Labels, LongLabels,
    Types,             \* edge types
    Vals, Keyable,     \* property values, and those an index can hold
    PrefixOf,          \* pairs of values of two kinds: key of one begins key of the other
    Absent, None

ASSUME GraphAssumption ==
    /\ NodeIds \subseteq Nat \ {0} /\ EdgeIds \subseteq Nat \ {0}
    /\ IsFiniteSet(NodeIds)
    /\ LongLabels \subseteq Labels /\ Keyable \subseteq Vals
    /\ PrefixOf \subseteq Keyable \X Keyable
    /\ Absent \notin Vals
    /\ None \notin [label : Labels, prop : Vals \cup {Absent}]
    /\ None \notin [from : NodeIds, type : Types, to : NodeIds, prop : Vals \cup {Absent}]

Node == [label : Labels, prop : Vals \cup {Absent}]
Edge == [from : NodeIds, type : Types, to : NodeIds, prop : Vals \cup {Absent}]

\* A counter of 0 is one that is not stored yet.  "torn" is history: a
\* rebuild of the label index stopped half way and the batch went on.
GraphStore ==
    [nodes : [NodeIds -> Node \cup {None}], edges : [EdgeIds -> Edge \cup {None}],
     out : SUBSET (NodeIds \X Types \X NodeIds \X EdgeIds),
     in : SUBSET (NodeIds \X Types \X NodeIds \X EdgeIds),
     labels : SUBSET (Labels \X NodeIds), marker : BOOLEAN,
     reg : SUBSET Labels, props : SUBSET (Labels \X Keyable \X NodeIds),
     nextNode : Nat, nextEdge : Nat, torn : BOOLEAN]

\* A file without a graph, and one of a version that had no label index.
OldGraph(nodes, next) ==
    [nodes |-> nodes, edges |-> [e \in EdgeIds |-> None], out |-> {}, in |-> {},
     labels |-> {}, marker |-> FALSE, reg |-> {}, props |-> {},
     nextNode |-> next, nextEdge |-> 0, torn |-> FALSE]
NewGraph == OldGraph([n \in NodeIds |-> None], 0)

LiveNodes(g) == {n \in NodeIds : g.nodes[n] # None}
LiveEdges(g) == {e \in EdgeIds : g.edges[e] # None}

\* reserve_ids: where the next block begins.
Reserve(next) == IF next = 0 THEN 1 ELSE next

Done(g) == [ok |-> TRUE, t |-> g]
Broken(g) == [ok |-> FALSE, t |-> g]

-----------------------------------------------------------------------------
\* Indexes over nodes (index.rs).

\* before_first_nodes.
BeforeFirst(g) == [g EXCEPT !.marker = @ \/ g.nextNode = 0]

\* The property entries of a node under the registered indexes.
PropEntries(g, n, node) ==
    {<<node.label, v, n>> : v \in {v \in Keyable : v = node.prop /\ node.label \in g.reg}}

OnInsert(g, n, node) ==
    IF node.label \in LongLabels THEN Broken(g)
    ELSE Done([g EXCEPT !.labels = @ \cup {<<node.label, n>>},
                        !.props = @ \cup PropEntries(g, n, node)])

OnDelete(g, n, node) ==
    IF node.label \in LongLabels THEN Broken(g)
    ELSE Done([g EXCEPT !.labels = @ \ {<<node.label, n>>},
                        !.props = @ \ PropEntries(g, n, node)])

\* An index that on_update does not move from the old value to the new.
OnUpdateAdds(g, n, old, new) ==
    IF new.label \in LongLabels THEN Broken(g)
    ELSE Done([g EXCEPT !.props = @ \cup PropEntries(g, n, new)])
OnUpdate(g, n, old, new) ==
    IF new.label \in LongLabels THEN Broken(g)
    ELSE Done([g EXCEPT !.props = (@ \ PropEntries(g, n, old)) \cup PropEntries(g, n, new)])

ByScan(g, l) == {n \in LiveNodes(g) : g.nodes[n].label = l}

\* nodes_by_label_in: the index once the marker says it is complete.
NodesByLabel(g, l) ==
    IF g.marker THEN {n \in NodeIds : <<l, n>> \in g.labels} ELSE ByScan(g, l)

\* find_nodes_in.
FindNodes(g, l, v) ==
    IF v \in Keyable /\ l \in g.reg
    THEN {n \in NodeIds : \E w \in Keyable :
              <<l, w, n>> \in g.props /\ (w = v \/ <<v, w>> \in PrefixOf)}
    ELSE {n \in NodesByLabel(g, l) \cap LiveNodes(g) : g.nodes[n].prop = v}

\* backfill_property.
BackfillAll(g, l) ==
    LET held == NodesByLabel(g, l) \cap LiveNodes(g)
    IN  [g EXCEPT !.props = {p \in @ : p[1] # l} \cup {<<l, g.nodes[n].prop, n>> : n \in held}]
Backfill(g, l) ==
    LET held == {n \in NodesByLabel(g, l) \cap LiveNodes(g) : g.nodes[n].prop \in Keyable}
    IN  [g EXCEPT !.props = {p \in @ : p[1] # l} \cup {<<l, g.nodes[n].prop, n>> : n \in held}]

CreatePropertyIndexIn(g, l) ==
    IF l \in LongLabels THEN Broken(g)
    ELSE IF l \in g.reg THEN Done(g)
    ELSE Done(Backfill([g EXCEPT !.reg = @ \cup {l}], l))

DropPropertyIndexIn(g, l) ==
    IF l \in LongLabels THEN Broken(g)
    ELSE IF l \notin g.reg THEN Done(g)
    ELSE Done([g EXCEPT !.reg = @ \ {l}, !.props = {p \in @ : p[1] # l}])

\* rebuild_indexes_in: nodes in id order, to the first label with no key;
\* the property indexes only after that.
RebuildIndexesIn(g) ==
    LET unkeyed == {n \in LiveNodes(g) : g.nodes[n].label \in LongLabels}
        done == {n \in LiveNodes(g) : \A m \in unkeyed : n < m}
        labelled == [g EXCEPT !.labels = {<<g.nodes[n].label, n>> : n \in done}]
        ready == [labelled EXCEPT !.marker = TRUE, !.torn = FALSE]
    IN  IF unkeyed # {} THEN Broken([labelled EXCEPT !.torn = TRUE])
        ELSE Done([ready EXCEPT !.props = UNION {PropEntries(g, n, g.nodes[n]) : n \in done}])

-----------------------------------------------------------------------------
\* Nodes and edges (db/ops.rs).

\* One node of create_node_in or create_nodes_bulk_in, its id reserved.
PutNode(g, n, node) == OnInsert([g EXCEPT !.nodes[n] = node], n, node)

\* The three tables an edge is in.
PutEdge(g, e, edge) ==
    [g EXCEPT !.edges[e] = edge,
              !.out = @ \cup {<<edge.from, edge.type, edge.to, e>>},
              !.in = @ \cup {<<edge.to, edge.type, edge.from, e>>}]

\* The endpoint checks of create_edge_in and create_edges_bulk_in.
CanLinkFrom(g, edge) == edge.from \in LiveNodes(g)
CanLink(g, edge) == edge.from \in LiveNodes(g) /\ edge.to \in LiveNodes(g)

CreateEdgeIn(g, edge) ==
    IF ~CanLink(g, edge) THEN Broken(g)
    ELSE Done(PutEdge([g EXCEPT !.nextEdge = Reserve(@) + 1], Reserve(g.nextEdge), edge))

DeleteEdgeIn(g, e) ==
    LET edge == g.edges[e] IN
    IF edge = None THEN Done(g)
    ELSE Done([g EXCEPT !.edges[e] = None,
                        !.out = @ \ {<<edge.from, edge.type, edge.to, e>>},
                        !.in = @ \ {<<edge.to, edge.type, edge.from, e>>}])

UpdateEdgeIn(g, e, prop) ==
    IF g.edges[e] = None THEN Broken(g) ELSE Done([g EXCEPT !.edges[e].prop = prop])

UpdateNodeIn(g, n, prop) ==
    LET old == g.nodes[n]
        new == [old EXCEPT !.prop = prop]
        r == OnUpdate(g, n, old, new)
    IN  IF old = None THEN Broken(g)
        ELSE IF ~r.ok THEN r
        ELSE Done([r.t EXCEPT !.nodes[n] = new])

\* The two scans of delete_node_in: what it removes under the node in one
\* adjacency table, with the other's row and the edge.
CutOut(g, n) ==
    LET rows == {r \in g.out : r[1] = n} IN
    [g EXCEPT !.out = @ \ rows,
              !.in = @ \ {<<r[3], r[2], n, r[4]>> : r \in rows},
              !.edges = [e \in EdgeIds |-> IF \E r \in rows : r[4] = e THEN None ELSE @[e]]]

CutInOnly(g, n) ==
    LET rows == {r \in g.in : r[1] = n} IN
    [g EXCEPT !.in = @ \ rows,
              !.edges = [e \in EdgeIds |-> IF \E r \in rows : r[4] = e THEN None ELSE @[e]]]
CutIn(g, n) ==
    LET rows == {r \in g.in : r[1] = n} IN
    [g EXCEPT !.in = @ \ rows,
              !.out = @ \ {<<r[3], r[2], n, r[4]>> : r \in rows},
              !.edges = [e \in EdgeIds |-> IF \E r \in rows : r[4] = e THEN None ELSE @[e]]]

DeleteNodeIn(g, n) ==
    LET cut == CutIn(CutOut(g, n), n)
        r == OnDelete(cut, n, g.nodes[n])
    IN  IF g.nodes[n] = None THEN Done(cut)
        ELSE IF ~r.ok THEN r
        ELSE Done([r.t EXCEPT !.nodes[n] = None])

\* neighbors_out_in: the nodes an edge of the type leads to.
Children(g, n, type) == {m \in NodeIds : \E e \in EdgeIds : <<n, type, m, e>> \in g.out}

=============================================================================
