----------------------------- MODULE Traversal ------------------------------
(***************************************************************************)
(* The graph algorithms (bkndb-core/src/graph/traversal, top_hubs_in of    *)
(* graph/db/ops.rs): breadth-first traversal, the call tree built from it, *)
(* the shortest path, Dijkstra's lowest-cost path and the nodes of highest *)
(* degree, over one snapshot.                                              *)
(*                                                                         *)
(* A graph g has labelled nodes (g.label, a function from the ids in use)  *)
(* and edges (g.edge, from ids to records).  Edge types are numbered in    *)
(* key order.  Options are sequences of length 0 or 1.  Costs are          *)
(* integers: the rounding of f64 sums is left out.                         *)
(***************************************************************************)
EXTENDS Integers, FiniteSets, SequencesExt

Infinity == 1000000
Nodes(g) == DOMAIN g.label
Edges(g) == DOMAIN g.edge

\* The elements of a set in an order.
InOrder(S, Before(_, _)) ==
    LET seq[T \in SUBSET S] ==
            IF T = {} THEN <<>>
            ELSE LET first == CHOOSE x \in T : \A y \in T : x = y \/ Before(x, y)
                 IN  <<first>> \o seq[T \ {first}]
    IN  seq[S]

\* The adjacency tables, in key order: type, other end, edge.
KeyBefore(a, b) ==
    \/ a.type < b.type
    \/ a.type = b.type /\ a.node < b.node
    \/ a.type = b.type /\ a.node = b.node /\ a.via < b.via
NeighborsAny(g, table, n) ==
    LET near == IF table = "out" THEN "from" ELSE "to"
        far == IF table = "out" THEN "to" ELSE "from"
    IN  InOrder({[type |-> g.edge[e].type, node |-> g.edge[e][far], via |-> e] :
                         e \in {x \in Edges(g) : g.edge[x][near] = n}}, KeyBefore)

\* A typed read is a range over one type's keys.
NeighborsTyped(g, table, n, t) == SelectSeq(NeighborsAny(g, table, n), LAMBDA k : k.type = t)

Tables(dir) == CASE dir = "out" -> <<"out">> [] dir = "in" -> <<"in">> [] dir = "both" -> <<"out", "in">>

\* neighbors_for_traversal: type by type in the order the caller gave them.
NeighborsForTraversal(g, n, dir, types) ==
    FlattenSeq([i \in DOMAIN Tables(dir) |->
        IF types = <<>> THEN NeighborsAny(g, Tables(dir)[i], n)
        ELSE FlattenSeq([j \in DOMAIN types[1] |->
                 NeighborsTyped(g, Tables(dir)[i], n, types[1][j])])])

\* neighbors_for_path: in key order, whatever the order of the types.
NeighborsForPath(g, n, dir, types) ==
    FlattenSeq([i \in DOMAIN Tables(dir) |->
        SelectSeq(NeighborsAny(g, Tables(dir)[i], n),
                  LAMBDA k : types = <<>> \/ k.type \in ToSet(types[1]))])

-----------------------------------------------------------------------------
\* traverse_in.

\* A label filter hides a node from the answer, not from the search.
Shown(g, label, n) == label = <<>> \/ (n \in Nodes(g) /\ g.label[n] = label[1])

Visit(g, label, from, s, k) ==
    IF k.node \in s.visited THEN s
    ELSE LET hit == [node |-> k.node, depth |-> from.depth + 1, via |-> <<k.via>>, parent |-> <<from.node>>]
         IN  [visited |-> s.visited \cup {k.node},
              queue |-> Append(s.queue, [node |-> k.node, depth |-> from.depth + 1]),
              out |-> IF Shown(g, label, k.node) THEN Append(s.out, hit) ELSE s.out]

\* Nodes at the greatest depth are not expanded.
StopsPast(depth, max) == depth > max
Stops(depth, max) == depth >= max

RECURSIVE Drain(_, _, _, _, _, _)
Drain(g, dir, types, label, max, s) ==
    IF s.queue = <<>> THEN s.out
    ELSE LET cur == Head(s.queue)
             rest == [s EXCEPT !.queue = Tail(s.queue)]
         IN  Drain(g, dir, types, label, max,
                   IF Stops(cur.depth, max) THEN rest
                   ELSE FoldLeft(LAMBDA acc, k : Visit(g, label, cur, acc, k), rest,
                                 NeighborsForTraversal(g, cur.node, dir, types)))

Traverse(g, start, dir, types, label, max) ==
    LET root == [node |-> start, depth |-> 0, via |-> <<>>, parent |-> <<>>]
    IN  Drain(g, dir, types, label, max,
              [visited |-> {start}, queue |-> <<[node |-> start, depth |-> 0]>>,
               out |-> IF Shown(g, label, start) THEN <<root>> ELSE <<>>])

\* to_tree: the answer grouped by parent, as its nodes in preorder.
RECURSIVE Preorder(_, _)
Preorder(hits, parent) ==
    FlattenSeq([i \in DOMAIN hits |->
        IF hits[i].parent = parent THEN <<hits[i].node>> \o Preorder(hits, <<hits[i].node>>) ELSE <<>>])
ToTree(hits) == Preorder(hits, <<>>)

-----------------------------------------------------------------------------
\* find_shortest_path_in.

\* A step of the search: the parents of what was seen, until the target is.
Reach(cur, target, s, k) ==
    IF s.found \/ k.node \in DOMAIN s.parent THEN s
    ELSE [parent |-> [n \in DOMAIN s.parent \cup {k.node} |->
                         IF n = k.node THEN [prev |-> cur, via |-> k.via] ELSE s.parent[n]],
          queue |-> IF k.node = target THEN s.queue ELSE Append(s.queue, k.node),
          found |-> k.node = target]

RECURSIVE Search(_, _, _, _, _)
Search(g, dir, types, target, s) ==
    IF s.found \/ s.queue = <<>> THEN s
    ELSE LET cur == Head(s.queue)
         IN  Search(g, dir, types, target,
                    FoldLeft(LAMBDA acc, k : Reach(cur, target, acc, k),
                             [s EXCEPT !.queue = Tail(s.queue)],
                             NeighborsForPath(g, cur, dir, types)))

\* The steps back from the target.
RECURSIVE Unwind(_, _, _)
Unwind(parent, start, n) ==
    IF n = start THEN <<[node |-> start, via |-> <<>>]>>
    ELSE Append(Unwind(parent, start, parent[n].prev), [node |-> n, via |-> <<parent[n].via>>])

ShortestPath(g, start, target, dir, types) ==
    IF start = target THEN
        IF start \in Nodes(g) THEN <<[node |-> start, via |-> <<>>]>> ELSE <<>>
    ELSE LET s == Search(g, dir, types, target,
                         [parent |-> [n \in {start} |-> [prev |-> start, via |-> 0]],
                          queue |-> <<start>>, found |-> FALSE])
         IN  IF s.found THEN Unwind(s.parent, start, target) ELSE <<>>

-----------------------------------------------------------------------------
\* find_weighted_path_in.

Invalid(w) == w < 0
Weight(g, e, default) == IF g.edge[e].weight = <<>> THEN default ELSE g.edge[e].weight[1]

Relax(g, default, d, cur, s, k) ==
    LET w == Weight(g, k.via, default) IN
    IF s.error THEN s
    ELSE IF Invalid(w) THEN [s EXCEPT !.error = TRUE]
    ELSE IF d + w < s.dist[k.node]
         THEN [s EXCEPT !.dist[k.node] = d + w, !.parent[k.node] = [prev |-> cur, via |-> k.via],
                        !.heap = @ \cup {<<d + w, k.node>>}]
    ELSE s

\* The heap pops the least (cost, node); an entry a cheaper one has replaced is skipped.
RECURSIVE Dijkstra(_, _, _, _, _, _)
Dijkstra(g, dir, types, default, target, s) ==
    IF s.error \/ s.heap = {} THEN s
    ELSE LET top == CHOOSE p \in s.heap :
                        \A q \in s.heap : p[1] < q[1] \/ (p[1] = q[1] /\ p[2] <= q[2])
             rest == [s EXCEPT !.heap = @ \ {top}]
         IN  IF top[2] = target THEN s
             ELSE Dijkstra(g, dir, types, default, target,
                           IF top[1] > s.dist[top[2]] THEN rest
                           ELSE FoldLeft(LAMBDA acc, k : Relax(g, default, top[1], top[2], acc, k),
                                         rest, NeighborsForPath(g, top[2], dir, types)))

NoPath == [error |-> FALSE, cost |-> Infinity, steps |-> <<>>]
WeightedPath(g, start, target, dir, types, default) ==
    IF Invalid(default) THEN [NoPath EXCEPT !.error = TRUE]
    ELSE IF {start, target} \subseteq Nodes(g) THEN
        LET s == Dijkstra(g, dir, types, default, target,
                          [dist |-> [n \in Nodes(g) |-> IF n = start THEN 0 ELSE Infinity],
                           parent |-> [n \in Nodes(g) |-> [prev |-> n, via |-> 0]],
                           heap |-> {<<0, start>>}, error |-> FALSE])
        IN  IF s.error THEN [NoPath EXCEPT !.error = TRUE]
            ELSE IF s.dist[target] = Infinity THEN NoPath
            ELSE [error |-> FALSE, cost |-> s.dist[target], steps |-> Unwind(s.parent, start, target)]
    ELSE NoPath

-----------------------------------------------------------------------------
\* top_hubs_in: a bounded heap of (degree, node); a newcomer replaces its
\* minimum only with a strictly higher degree.

Degree(g, dir, n) == Len(NeighborsForPath(g, n, dir, <<>>))

Lower(a, b) == a.degree < b.degree \/ (a.degree = b.degree /\ a.node < b.node)
Admit(g, dir, limit, heap, n) ==
    LET new == [node |-> n, degree |-> Degree(g, dir, n)]
        least == CHOOSE h \in heap : \A o \in heap : o = h \/ Lower(h, o)
    IN  IF Cardinality(heap) < limit THEN heap \cup {new}
        ELSE IF new.degree > least.degree THEN (heap \ {least}) \cup {new}
        ELSE heap

\* Sorted and then reversed: the highest degree comes last.
TopHubs(g, limit, dir, label) ==
    IF limit = 0 THEN <<>>
    ELSE LET candidates == InOrder({n \in Nodes(g) : Shown(g, label, n)}, <)
         IN  InOrder(FoldLeft(LAMBDA heap, n : Admit(g, dir, limit, heap, n), {}, candidates), Lower)

-----------------------------------------------------------------------------
\* What the answers should be, stated without any search.

Allowed(g, e, types) == types = <<>> \/ g.edge[e].type \in ToSet(types[1])
Joins(g, e, dir, a, b) ==
    \/ dir # "in" /\ g.edge[e].from = a /\ g.edge[e].to = b
    \/ dir # "out" /\ g.edge[e].to = a /\ g.edge[e].from = b
Uses(g, dir, types, a, b) == {e \in Edges(g) : Allowed(g, e, types) /\ Joins(g, e, dir, a, b)}

\* The number of hops from a set of nodes to n.
RECURSIVE HopsFrom(_, _, _, _, _)
HopsFrom(g, dir, types, S, n) ==
    IF n \in S THEN 0
    ELSE LET next == {b \in Nodes(g) \ S : \E a \in S : Uses(g, dir, types, a, b) # {}}
         IN  IF next = {} THEN Infinity ELSE 1 + HopsFrom(g, dir, types, S \cup next, n)
Hops(g, dir, types, start, n) ==
    LET h == HopsFrom(g, dir, types, {start}, n) IN IF h >= Infinity THEN Infinity ELSE h

\* The lowest cost of reaching each node, by relaxing every edge until nothing
\* changes.
RECURSIVE Relaxed(_, _, _, _, _, _)
Relaxed(g, dir, types, default, cost, rounds) ==
    IF rounds = 0 THEN cost
    ELSE Relaxed(g, dir, types, default,
                 [b \in Nodes(g) |->
                    Min({cost[b]} \cup
                        UNION {{cost[a] + Weight(g, e, default) : e \in Uses(g, dir, types, a, b)} :
                                  a \in {x \in Nodes(g) : cost[x] < Infinity}})],
                 rounds - 1)
Costs(g, start, dir, types, default) ==
    Relaxed(g, dir, types, default, [n \in Nodes(g) |-> IF n = start THEN 0 ELSE Infinity],
            Cardinality(Nodes(g)))

\* Consecutive steps of a path are joined by the edges it names.
Connected(g, dir, types, steps) ==
    \A i \in 2..Len(steps) : steps[i].via[1] \in Uses(g, dir, types, steps[i - 1].node, steps[i].node)
PathCost(g, default, steps) ==
    FoldLeft(LAMBDA sum, x : IF x.via = <<>> THEN sum ELSE sum + Weight(g, x.via[1], default), 0, steps)

\* traverse_in answers each shown node within the depth once, at its distance,
\* reached over an edge from a node one hop nearer, nearest first; without a
\* label filter its tree has all of them.
TraverseExact(g, start, dir, types, label, max) ==
    LET hits == Traverse(g, start, dir, types, label, max)
        hops == [n \in Nodes(g) |-> Hops(g, dir, types, start, n)]
    IN  /\ {hits[i].node : i \in DOMAIN hits} = {n \in Nodes(g) : hops[n] <= max /\ Shown(g, label, n)}
        /\ \A i, j \in DOMAIN hits : i < j =>
               hits[i].node # hits[j].node /\ hits[i].depth <= hits[j].depth
        /\ \A i \in DOMAIN hits :
               /\ hits[i].depth = hops[hits[i].node]
               /\ hits[i].parent # <<>> =>
                      /\ hops[hits[i].parent[1]] = hits[i].depth - 1
                      /\ hits[i].via[1] \in Uses(g, dir, types, hits[i].parent[1], hits[i].node)
        /\ label = <<>> => /\ Len(ToTree(hits)) = Len(hits)
                           /\ ToSet(ToTree(hits)) = {hits[i].node : i \in DOMAIN hits}

\* find_shortest_path_in finds a connected path of as few hops as there is.
ShortestExact(g, start, target, dir, types) ==
    LET hops == Hops(g, dir, types, start, target)
        steps == ShortestPath(g, start, target, dir, types)
    IN  IF hops = Infinity THEN steps = <<>>
        ELSE /\ Len(steps) = hops + 1 /\ steps[1].node = start /\ Last(steps).node = target
             /\ Connected(g, dir, types, steps)

\* find_weighted_path_in finds a connected path of the lowest cost; it fails
\* only for a weight it can reach.
WeightedExact(g, start, target, dir, types, default) ==
    LET cost == Costs(g, start, dir, types, default)
        p == WeightedPath(g, start, target, dir, types, default)
        bad == {e \in Edges(g) : /\ Allowed(g, e, types) /\ Invalid(Weight(g, e, default))
                                 /\ \E a, b \in Nodes(g) : Joins(g, e, dir, a, b) /\ cost[a] < Infinity}
    IN  /\ p.error => bad # {}
        /\ bad = {} => /\ p.cost = cost[target]
                       /\ p.steps = <<>> <=> p.cost = Infinity
        /\ p.steps # <<>> =>
               /\ Connected(g, dir, types, p.steps) /\ PathCost(g, default, p.steps) = p.cost
               /\ p.steps[1].node = start /\ Last(p.steps).node = target

\* top_hubs_in: as many as asked for, lowest degree first, and no node left out
\* has a higher degree than one that is in.
HubsExact(g, limit, dir, label) ==
    LET hubs == TopHubs(g, limit, dir, label)
        all == {n \in Nodes(g) : Shown(g, label, n)}
        chosen == {hubs[i].node : i \in DOMAIN hubs}
    IN  /\ chosen \subseteq all /\ Cardinality(chosen) = Len(hubs)
        /\ Len(hubs) = Min({limit, Cardinality(all)})
        /\ \A i \in DOMAIN hubs : hubs[i].degree = Degree(g, dir, hubs[i].node)
        /\ \A i, j \in DOMAIN hubs : i < j => hubs[i].degree <= hubs[j].degree
        /\ \A n \in all \ chosen, i \in DOMAIN hubs : Degree(g, dir, n) <= hubs[i].degree

=============================================================================
