------------------------------ MODULE Database ------------------------------
(***************************************************************************)
(* A database handle (bkndb-core/src/db, kv and graph/db): the graph and   *)
(* the raw key-value tables behind one write transaction, and sync_batch,  *)
(* which creates nodes, edges between them and relational rows together.   *)
(* The rows of a sync_batch are a set here; their own rules are module     *)
(* Relational, and their failing is a choice.                              *)
(***************************************************************************)
EXTENDS WriteTx, Graph, Sequences

CONSTANTS
    KvTables, Reserved,  \* names clients use, and the reserved ones among them
    KvVals,
    NodeBatches,         \* sequences of nodes clients create
    EdgeBatches,         \* sequences of edges clients create
    LinkBatches,         \* sequences of edges over the nodes of a sync_batch:
                         \* an end -i is the i-th node created
    OldFiles             \* node tables an older version can have left

Link == [from : Int, type : Types, to : Int, prop : Vals \cup {Absent}]

ASSUME DatabaseAssumption ==
    /\ Reserved \subseteq KvTables /\ None \notin KvVals
    /\ NodeBatches \subseteq Seq(Node) \ {<<>>}
    /\ EdgeBatches \subseteq Seq(Link) /\ LinkBatches \subseteq Seq(Link)
    /\ OldFiles \subseteq [NodeIds -> Node \cup {None}]
    /\ None \notin Seq(Link)

Store == [graph : GraphStore, kv : [KvTables -> KvVals \cup {None}], synced : SUBSET NodeIds]

\* The loops: creating nodes and then perhaps edges; creating edges and then
\* perhaps rows; a cascade that collects and then deletes.
NodesStmt == [op : {"nodes"}, todo : Seq(Node), base : Nat, next : Nat,
              links : Seq(Link) \cup {None}]
EdgesStmt == [op : {"edges"}, todo : Seq(Link), next : Nat, made : (SUBSET NodeIds) \cup {None}]
CascadeStmt == [op : {"collect", "delete"}, type : Types, found : Seq(NodeIds), at : Nat]

\* Every variable has its type.
TypeOK ==
    /\ db \in Store /\ work \in Store
    /\ mode \in {"idle", "auto", "batch"}
    /\ stmt \in {NoStmt} \cup NodesStmt \cup EdgesStmt \cup CascadeStmt
    /\ left \in 0..MaxStmts

\* The tables of a file with graph g and nothing else in it.
Opened(g) == [graph |-> g, kv |-> [k \in KvTables |-> None], synced |-> {}]

\* The counter of an old file is past its nodes.
Init ==
    /\ \E g \in {NewGraph} \cup {OldGraph(f, n) : f \in OldFiles, n \in NodeIds} :
           /\ \A n \in LiveNodes(g) : n < g.nextNode
           /\ db = Opened(g)
    /\ work = db
    /\ mode = "idle" /\ stmt = NoStmt /\ left = MaxStmts

\* A result over the graph as one over the whole transaction.
Over(r) == [ok |-> r.ok, t |-> [work EXCEPT !.graph = r.t]]
On(g) == [work EXCEPT !.graph = g]

-----------------------------------------------------------------------------
\* Raw key-value tables: check_table_name, then the write.

KvWrite(table, v) ==
    Apply(IF table \in Reserved THEN Fail(work)
          ELSE Ok([work EXCEPT !.kv[table] = v]))

-----------------------------------------------------------------------------
\* Creating nodes: create_node, create_nodes_bulk and the first part of
\* sync_batch, which names the edges that follow.

StartNodes(items, links) ==
    LET g == BeforeFirst(work.graph)
        base == Reserve(g.nextNode)
    IN  /\ base .. (base + Len(items) - 1) \subseteq NodeIds   \* bound: ids of NodeIds
        /\ Loop(On([g EXCEPT !.nextNode = base + Len(items)]),
                [op |-> "nodes", todo |-> items, base |-> base, next |-> base, links |-> links])

CreateNodes(items) == StartNodes(items, None)
SyncBatch(items, links) == mode = "idle" /\ StartNodes(items, links)

NodesNext ==
    /\ stmt.op = "nodes" /\ stmt.todo # <<>>
    /\ LET r == PutNode(work.graph, stmt.next, Head(stmt.todo))
       IN  IF r.ok THEN GoOn(On(r.t), [stmt EXCEPT !.todo = Tail(@), !.next = @ + 1])
           ELSE Finish(Over(r))

NodesDone == stmt.op = "nodes" /\ stmt.todo = <<>> /\ stmt.links = None /\ Finish(Ok(work))

-----------------------------------------------------------------------------
\* Creating edges.

CreateEdge(link) ==
    /\ Reserve(work.graph.nextEdge) \in EdgeIds   \* bound: ids of EdgeIds
    /\ link \in Edge
    /\ Apply(Over(CreateEdgeIn(work.graph, link)))

ReserveEdges(links) ==
    LET base == Reserve(work.graph.nextEdge)
    IN  [base |-> base,
         t |-> IF links = <<>> THEN work
               ELSE [work EXCEPT !.graph.nextEdge = base + Len(links)]]

RoomForEdges(links) ==                              \* bound: ids of EdgeIds
    LET base == Reserve(work.graph.nextEdge) IN
    base .. (base + Len(links) - 1) \subseteq EdgeIds

EdgesFrom(links, made) ==
    [op |-> "edges", todo |-> links, next |-> ReserveEdges(links).base, made |-> made]

CreateEdges(links) ==
    /\ links # <<>> /\ RoomForEdges(links)
    /\ Loop(ReserveEdges(links).t, EdgesFrom(links, None))

EdgesNext ==
    /\ stmt.op = "edges" /\ stmt.todo # <<>>
    /\ LET link == Head(stmt.todo) IN
       IF link \in Edge /\ CanLink(work.graph, link)
       THEN GoOn(On(PutEdge(work.graph, stmt.next, link)),
                 [stmt EXCEPT !.todo = Tail(@), !.next = @ + 1])
       ELSE Finish(Fail(work))

EdgesDone == stmt.op = "edges" /\ stmt.todo = <<>> /\ stmt.made = None /\ Finish(Ok(work))

-----------------------------------------------------------------------------
\* The rest of sync_batch: NodeRef::resolve over the new nodes, the edges,
\* and the rows, for which any of their errors ends the transaction.

Resolved(end) == IF end < 0 THEN stmt.base - end - 1 ELSE end
Resolves(end) == end >= 0 \/ Resolved(end) < stmt.next

SyncEdges ==
    /\ stmt.op = "nodes" /\ stmt.todo = <<>> /\ stmt.links # None
    /\ RoomForEdges(stmt.links)
    /\ IF \A i \in DOMAIN stmt.links : Resolves(stmt.links[i].from) /\ Resolves(stmt.links[i].to)
       THEN LET links == [i \in DOMAIN stmt.links |->
                             [stmt.links[i] EXCEPT !.from = Resolved(@), !.to = Resolved(@)]]
            IN  GoOn(ReserveEdges(links).t,
                     EdgesFrom(links, {n \in NodeIds : stmt.base <= n /\ n < stmt.next}))
       ELSE Finish(Fail(work))

SyncRows ==
    /\ stmt.op = "edges" /\ stmt.todo = <<>> /\ stmt.made # None
    /\ \/ Finish(Ok([work EXCEPT !.synced = @ \cup stmt.made]))
       \/ Finish(Fail(work))

-----------------------------------------------------------------------------
\* The other operations.

DeleteNodeReclaims(n) ==
    LET r == DeleteNodeIn(work.graph, n)
    IN  Apply(Over([r EXCEPT !.t.nextNode = IF @ = n + 1 THEN n ELSE @]))
DeleteNode(n) == Apply(Over(DeleteNodeIn(work.graph, n)))
UpdateNode(n, prop) == Apply(Over(UpdateNodeIn(work.graph, n, prop)))
DeleteEdge(e) == Apply(Over(DeleteEdgeIn(work.graph, e)))
UpdateEdge(e, prop) == Apply(Over(UpdateEdgeIn(work.graph, e, prop)))
CreatePropertyIndex(l) == Apply(Over(CreatePropertyIndexIn(work.graph, l)))
DropPropertyIndex(l) == Apply(Over(DropPropertyIndexIn(work.graph, l)))
RebuildIndexes == Apply(Over(RebuildIndexesIn(work.graph)))

\* cascade_delete_in: breadth first along one edge type, then the nodes found
\* are deleted last to first.
CascadeDelete(root, type) ==
    IF root \notin LiveNodes(work.graph) THEN Apply(Fail(work))
    ELSE Loop(work, [op |-> "collect", type |-> type, found |-> <<root>>, at |-> 1])

Found == {stmt.found[i] : i \in DOMAIN stmt.found}

\* The ascending sequence of a set of nodes, as a choice of one.
Ascending(S) ==
    {s \in [1..Cardinality(S) -> S] : \A i, j \in DOMAIN s : i < j => s[i] < s[j]}

CascadeCollect ==
    /\ stmt.op = "collect" /\ stmt.at <= Len(stmt.found)
    /\ \E s \in Ascending(Children(work.graph, stmt.found[stmt.at], stmt.type) \ Found) :
           GoOn(work, [stmt EXCEPT !.found = @ \o s, !.at = @ + 1])

CascadeTurn ==
    /\ stmt.op = "collect" /\ stmt.at > Len(stmt.found)
    /\ GoOn(work, [stmt EXCEPT !.op = "delete", !.at = Len(stmt.found)])

CascadeNext ==
    /\ stmt.op = "delete" /\ stmt.at > 0
    /\ LET r == DeleteNodeIn(work.graph, stmt.found[stmt.at])
       IN  IF r.ok THEN GoOn(On(r.t), [stmt EXCEPT !.at = @ - 1]) ELSE Finish(Over(r))

CascadeDone == stmt.op = "delete" /\ stmt.at = 0 /\ Finish(Ok(work))

-----------------------------------------------------------------------------
Next ==
    \/ BeginBatch \/ CommitBatch \/ DropBatch
    \/ \E table \in KvTables, v \in KvVals \cup {None} : KvWrite(table, v)
    \/ \E items \in NodeBatches : CreateNodes(items)
    \/ \E links \in EdgeBatches : CreateEdges(links) \/ CreateEdge(links[1])
    \/ \E items \in NodeBatches, links \in LinkBatches : SyncBatch(items, links)
    \/ NodesNext \/ NodesDone \/ EdgesNext \/ EdgesDone \/ SyncEdges \/ SyncRows
    \/ \E n \in NodeIds : DeleteNode(n)
    \/ \E n \in NodeIds, v \in Vals \cup {Absent} : UpdateNode(n, v)
    \/ \E e \in EdgeIds : DeleteEdge(e)
    \/ \E e \in EdgeIds, v \in Vals \cup {Absent} : UpdateEdge(e, v)
    \/ \E l \in Labels : CreatePropertyIndex(l) \/ DropPropertyIndex(l)
    \/ RebuildIndexes
    \/ \E n \in NodeIds, type \in Types : CascadeDelete(n, type)
    \/ CascadeCollect \/ CascadeTurn \/ CascadeNext \/ CascadeDone

Spec == Init /\ [][Next]_vars

-----------------------------------------------------------------------------
\* Both adjacency tables hold exactly the edges, at every step of every
\* statement, the half-done ones included (create_edges_bulk_in,
\* delete_node_in with self loops, cascade_delete_in).
AdjacencyExact ==
    \A g \in {db.graph, work.graph} :
        /\ g.out = {<<g.edges[e].from, g.edges[e].type, g.edges[e].to, e>> : e \in LiveEdges(g)}
        /\ g.in = {<<g.edges[e].to, g.edges[e].type, g.edges[e].from, e>> : e \in LiveEdges(g)}

\* Every edge joins two nodes that exist (create_edge_in, create_edges_bulk_in,
\* sync_batch's linked edges against delete_node_in and cascade_delete_in).
NoDangling ==
    \A g \in {db.graph, work.graph} : \A e \in LiveEdges(g) :
        {g.edges[e].from, g.edges[e].to} \subseteq LiveNodes(g)

\* A lookup by label gives the nodes a scan would (index.rs, "results are
\* always correct"), in files of versions with and without the index.  A lookup
\* by property finds every node that has the value, and besides them only nodes
\* whose value is of another kind with a key that begins alike (find_nodes_in
\* scans a prefix).  Both unless a batch went on after a rebuild that stopped
\* half way.
IndexesExact ==
    \A g \in {db.graph, work.graph} : ~g.torn =>
        \A l \in Labels \ LongLabels :
            /\ NodesByLabel(g, l) = ByScan(g, l)
            /\ \A v \in Vals :
                   LET want == {n \in ByScan(g, l) : g.nodes[n].prop = v} IN
                   /\ want \subseteq FindNodes(g, l, v)
                   /\ \A n \in FindNodes(g, l, v) \ want :
                          n \in ByScan(g, l) /\ <<v, g.nodes[n].prop>> \in PrefixOf

\* An id a committed node or edge once had is never given to another
\* (reserve_ids), over rollbacks, deletions and failed statements: committed
\* ids stay below the counters, the counters never go back, and what a commit
\* adds has ids from the counters before it on.
IdsNeverReused ==
    [][LET g == db.graph
           h == db'.graph
       IN  /\ h.nextNode >= g.nextNode /\ h.nextEdge >= g.nextEdge
           /\ \A n \in LiveNodes(h) : n < h.nextNode /\ (n \in LiveNodes(g) \/ n >= g.nextNode)
           /\ \A e \in LiveEdges(h) : e < h.nextEdge /\ (e \in LiveEdges(g) \/ e >= g.nextEdge)
      ]_vars

=============================================================================
