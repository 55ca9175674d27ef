----------------------------- MODULE Algorithms -----------------------------
(***************************************************************************)
(* The pure algorithms of the system over bounded inputs: a state is one   *)
(* input, and each invariant compares what the code computes from it with  *)
(* a definition that does not search, plan, encode or cache.               *)
(***************************************************************************)
EXTENDS Integers, Traversal, QueryPlan, Hnsw, Encodings, PatternMatch, Hybrid, Sql

CONSTANTS
    GraphQueries(_),  \* [g, dir, types]: a graph of nodes 1..n, searched from node 1
    TableQueries(_),  \* [t, filters]: a table and the filters of a query
    VectorIndexes(_), \* [m, efc, changes, q, keep]: a vector index's history, and a search
    Likings(_),       \* [t, p]: a text and a LIKE pattern
    MatchInputs(_),   \* [g, q]: a MATCH query of a graph
    JoinInputs(_),    \* [g, t, ids, col]: nodes and a column of a table
    SqlInputs(_)      \* [t, sel]: a SELECT statement of a table

PickGraph == Pick("graph", GraphQueries(input.q))
PickQuery == Pick("query", TableQueries(input.q))
PickVectors == Pick("vectors", VectorIndexes(input.q))
PickLike == Pick("like", Likings(input.q))
PickMatch == Pick("match", MatchInputs(input.q))
PickJoin == Pick("join", JoinInputs(input.q))
PickSql == Pick("sql", SqlInputs(input.q))

Next ==
    \/ PickGraph \/ PickQuery \/ PickVectors \/ PickLike
    \/ PickMatch \/ PickJoin \/ PickSql
    \/ EncodingNext
Spec == Init /\ [][Next]_input

-----------------------------------------------------------------------------
\* Breadth-first traversal and its call tree, shortest and lowest-cost paths
\* and hubs answer exactly what reachability, distance and cost define
\* (traversal/mod.rs, builder.rs, top_hubs_in).
TraversalExact ==
    input.kind = "graph" =>
        LET g == input.q.g  dir == input.q.dir  types == input.q.types IN
        /\ \A p \in {<< <<>>, 3 >>, << <<"a">>, 2 >>, << <<>>, 1 >>} :
               TraverseExact(g, 1, dir, types, p[1], p[2])
        /\ \A target \in Nodes(g) :
               ShortestExact(g, 1, target, dir, types) /\ WeightedExact(g, 1, target, dir, types, 2)
        /\ HubsExact(g, 2, dir, <<>>) /\ HubsExact(g, 1, dir, <<"a">>)

Ref(col) == [col |-> col, path |-> <<>>]
Orders(t) ==
    {<<>>, <<[ref |-> Ref(t.pk), desc |-> FALSE]>>, <<[ref |-> Ref(t.pk), desc |-> TRUE]>>,
     <<[ref |-> Ref(t.indexed[2]), desc |-> FALSE], [ref |-> Ref(t.pk), desc |-> TRUE]>>}
Pages == {[offset |-> 0, limit |-> <<>>], [offset |-> 1, limit |-> <<1>>], [offset |-> 0, limit |-> <<2>>]}

\* Whatever key, index, range or scan the planner takes, a query returns,
\* counts and aggregates the rows its filters keep, in the order and the page
\* asked for (query/plan.rs, query/exec.rs, expr.rs, like_matches).
QueriesExact ==
    /\ input.kind = "query" =>
           LET t == input.q.t  filters == input.q.filters
               q(order, page, columns) ==
                   [filters |-> filters, order |-> order, offset |-> page.offset, limit |-> page.limit, columns |-> columns]
           IN  /\ \A order \in Orders(t), page \in Pages : SelectExact(t, q(order, page, <<>>))
               /\ SelectExact(t, q(<<>>, [offset |-> 0, limit |-> <<>>], <<"missing">>))
               /\ \A by \in {<<>>, <<Ref(t.indexed[1])>>} :
                      CheckColumns(t, q(<<>>, [offset |-> 0, limit |-> <<>>], <<>>), {}) =>
                          AggregateExact(t, q(<<>>, [offset |-> 0, limit |-> <<>>], <<>>), by, t.indexed[2])
    /\ input.kind = "like" => LikeExact(input.q.t, input.q.p)

\* The graph of a vector index stays one that searches can enter and walk,
\* and searches find what its links lead to (ann/graph.rs, ann/search.rs),
\* after refused inserts too.  Only a batch that goes on after an update whose
\* vector was refused is left with an index its metadata does not describe.
VectorsSound ==
    input.kind = "vectors" =>
        \A s \in {BuiltFrom(input.q.m, input.q.efc, input.q.changes)} : ~s.torn =>
            /\ IndexSound(s.h)
            /\ \A limit \in {1, 2, 4}, keep \in { <<>>, <<input.q.keep>> } :
                   SearchSound(s.h, input.q.q, limit, keep)

\* MATCH finds every match of the pattern once from whatever node it starts,
\* joins of nodes and rows agree in both directions with and without an index,
\* and SELECT returns what its WHERE clause says (lang/graph, hybrid.rs,
\* lang/sql/exec.rs).
AnswersExact ==
    LET q == input.q IN
    /\ input.kind = "match" => MatchExact(q.g, q.q)
    /\ input.kind = "join" => JoinsExact(q.g, q.t, q.ids, q.col)
    /\ input.kind = "sql" => SelectSays(q.t, q.sel)

=============================================================================
