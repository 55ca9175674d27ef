---------------------------- MODULE PatternMatch ----------------------------
(***************************************************************************)
(* MATCH queries (bkndb-core/src/lang/graph): the checks of a parsed       *)
(* query, the choice of the node pattern to start from, the expansion of   *)
(* the path to its right and to its left, the WHERE clause, and RETURN     *)
(* with grouping, DISTINCT, ORDER BY, SKIP and LIMIT.                      *)
(*                                                                         *)
(* A graph is one of Traversal with, besides, the properties of nodes      *)
(* (g.props) and edges and the property indexes (g.indexes, pairs of a     *)
(* label and a property).  Labels are strings of letters, and edge types   *)
(* and variables are numbered in the order of their names.  Parameters are *)
(* bound.  Options are sequences of length 0 or 1.  The map that a node or *)
(* an edge is returned as is known by its id; CONTAINS does not look into  *)
(* it.                                                                     *)
(***************************************************************************)
EXTENDS Integers, FiniteSets, SequencesExt, Traversal, QueryPlan

StrValue(s) == [k |-> "str", v |-> s]
ListValue(s) == [k |-> "list", v |-> s]
FloatValue(n) == [k |-> "float", v |-> <<n>>]
NodeValue(n) == [k |-> "map", v |-> <<"node", n>>]
EdgeValue(e) == [k |-> "map", v |-> <<"edge", e>>]

-----------------------------------------------------------------------------
\* validate.rs.

NodeVars(q) == UNION {ToSet(q.nodes[i].var) : i \in DOMAIN q.nodes}
RelVars(q) == UNION {ToSet(q.rels[i].var) : i \in DOMAIN q.rels}

\* var_kinds, once no relationship variable is bound twice.
RelOf(q, v) == q.rels[CHOOSE i \in DOMAIN q.rels : q.rels[i].var = <<v>>]
VarKind(q, v) == IF v \in NodeVars(q) THEN "node" ELSE IF RelOf(q, v).hops = <<>> THEN "rel" ELSE "path"
BoundOnce(q) ==
    /\ NodeVars(q) \cap RelVars(q) = {}
    /\ \A i, j \in DOMAIN q.rels : i # j => q.rels[i].var = <<>> \/ q.rels[i].var # q.rels[j].var

\* The expressions of a condition.
RECURSIVE ExprsOf(_)
ExprsOf(c) ==
    CASE c.x \in {"and", "or"} -> UNION {ExprsOf(c.args[i]) : i \in DOMAIN c.args}
      [] c.x = "not" -> ExprsOf(c.arg)
      [] c.x = "haslabel" -> {[x |-> "label", var |-> c.var]}
      [] c.x = "isnull" -> {c.a}
      [] OTHER -> {c.a, c.b}
CheckExpr(q, x) ==
    x.x # "value" =>
        /\ x.var \in NodeVars(q) \cup RelVars(q)
        /\ x.x = "label" => VarKind(q, x.var) = "node"
        /\ x.x = "type" => VarKind(q, x.var) = "rel"
        /\ x.x \in {"prop", "id"} => VarKind(q, x.var) # "path"

Aggregating(q) == \E i \in DOMAIN q.returns : q.returns[i].agg # <<>>
Validate(q) ==
    LET used == UNION ({ExprsOf(q.filter[i]) : i \in DOMAIN q.filter} \cup
                       {ToSet(q.returns[i].arg) : i \in DOMAIN q.returns} \cup
                       {ToSet(q.order[i].expr) : i \in DOMAIN q.order})
    IN  /\ BoundOnce(q)
        /\ \A x \in used : CheckExpr(q, x)
        /\ q.returns = <<>> => NodeVars(q) \cup RelVars(q) # {}
        /\ Aggregating(q) => \A i \in DOMAIN q.order : q.order[i].expr = <<>>

-----------------------------------------------------------------------------
\* exec.rs.

PropsHold(stored, wanted) ==
    \A j \in DOMAIN wanted : wanted[j].p \in DOMAIN stored /\ Same(stored[wanted[j].p], wanted[j].v)
NodeMatches(g, q, i, n) ==
    /\ n \in Nodes(g)
    /\ q.nodes[i].label # <<>> => g.label[n] = q.nodes[i].label[1]
    /\ PropsHold(g.props[n], q.nodes[i].props)
EdgeMatches(g, q, i, e) == PropsHold(g.edge[e].props, q.rels[i].props)

\* step: a relationship read against its direction changes tables; a loop is in
\* both tables of an undirected one.
StepDir(rel, forward) ==
    IF rel.dir = "either" THEN "both" ELSE IF (rel.dir = "right") = forward THEN "out" ELSE "in"
FirstByEdge(hits) ==
    LET fresh(i) == \A j \in 1..i - 1 : hits[j].via # hits[i].via
        kept == SelectSeq([i \in DOMAIN hits |-> i], fresh)
    IN  [i \in DOMAIN kept |-> hits[kept[i]]]
Step(g, q, i, n, forward) ==
    LET rel == q.rels[i]
        hits == NeighborsForTraversal(g, n, StepDir(rel, forward), IF rel.types = <<>> THEN <<>> ELSE <<rel.types>>)
    IN  IF rel.dir = "either" THEN FirstByEdge(hits) ELSE hits

\* expand: by number of hops, without the used edges and without repeating one.
Hopped(g, q, i, forward, used, from) ==
    LET free(k) == k.via \notin used \cup ToSet(from.walk) /\ EdgeMatches(g, q, i, k.via)
        steps == SelectSeq(Step(g, q, i, from.node, forward), free)
    IN  [j \in DOMAIN steps |-> [node |-> steps[j].node, walk |-> Append(from.walk, steps[j].via)]]
HopBounds(rel) == IF rel.hops = <<>> THEN <<1, 1>> ELSE rel.hops[1]

RECURSIVE ExpandFrom(_, _, _, _, _, _, _)
ExpandFrom(g, q, i, forward, used, depth, frontier) ==
    LET next == FlattenSeq([j \in DOMAIN frontier |-> Hopped(g, q, i, forward, used, frontier[j])])
    IN  IF depth > HopBounds(q.rels[i])[2] \/ frontier = <<>> THEN <<>>
        ELSE (IF depth >= HopBounds(q.rels[i])[1] THEN next ELSE <<>>)
                 \o ExpandFrom(g, q, i, forward, used, depth + 1, next)
ExpandRel(g, q, i, start, forward, used) ==
    LET here == <<[node |-> start, walk |-> <<>>]>>
    IN  (IF HopBounds(q.rels[i])[1] = 0 THEN here ELSE <<>>) \o ExpandFrom(g, q, i, forward, used, 1, here)

\* top_level_equalities: a stack, so the last conjunct comes first.
RECURSIVE TopEqualities(_)
TopEqualities(c) ==
    CASE c.x = "and" -> FlattenSeq(Reverse([i \in DOMAIN c.args |-> TopEqualities(c.args[i])]))
      [] c.x = "cmp" /\ c.op = "eq" /\ c.a.x \in {"id", "prop"} /\ c.b.x = "value" -> <<[e |-> c.a, v |-> c.b.v]>>
      [] c.x = "cmp" /\ c.op = "eq" /\ c.b.x \in {"id", "prop"} /\ c.a.x = "value" -> <<[e |-> c.b, v |-> c.a.v]>>
      [] OTHER -> <<>>
Equalities(q) == IF q.filter = <<>> THEN <<>> ELSE TopEqualities(q.filter[1])

\* The start node: pinned by id, found in a property index, labelled, any.
FirstOf(s) == IF s = <<>> THEN <<>> ELSE <<s[1]>>
Pinned(q, eqs, i) ==
    FirstOf(SelectSeq(eqs, LAMBDA x : x.e.x = "id" /\ <<x.e.var>> = q.nodes[i].var))
Indexed(g, q, eqs, i) ==
    LET wanted == SelectSeq(eqs, LAMBDA x : x.e.x = "prop" /\ <<x.e.var>> = q.nodes[i].var /\ Len(x.e.path) = 1)
        where == [j \in DOMAIN wanted |-> [p |-> wanted[j].e.path[1], v |-> wanted[j].v]]
    IN  IF q.nodes[i].label = <<>> THEN <<>>
        ELSE FirstOf(SelectSeq(q.nodes[i].props \o where, LAMBDA x : <<q.nodes[i].label[1], x.p>> \in g.indexes))
Score(g, q, eqs, i) ==
    CASE Pinned(q, eqs, i) # <<>> -> 4
      [] Pinned(q, eqs, i) = <<>> /\ Indexed(g, q, eqs, i) # <<>> -> 3
      [] OTHER -> IF q.nodes[i].label # <<>> THEN 2 ELSE 1
AnchorOf(g, q, eqs) ==
    CHOOSE i \in DOMAIN q.nodes : \A j \in DOMAIN q.nodes :
        Score(g, q, eqs, i) > Score(g, q, eqs, j) \/ (Score(g, q, eqs, i) = Score(g, q, eqs, j) /\ i <= j)

\* find_nodes_in: the same value, not one that compares as equal.
FindNodes(g, label, p, v) == InOrder({n \in Nodes(g) : g.label[n] = label /\ p \in DOMAIN g.props[n] /\ g.props[n][p] = v}, <)
AnchorCandidates(g, q, eqs, i) ==
    LET pinned == Pinned(q, eqs, i)  indexed == Indexed(g, q, eqs, i)  label == q.nodes[i].label
    IN  IF pinned # <<>> THEN IF pinned[1].v.k = "int" /\ pinned[1].v.v[1] >= 0 THEN pinned[1].v.v ELSE <<>>
        ELSE IF indexed # <<>> THEN FindNodes(g, label[1], indexed[1].p, indexed[1].v)
        ELSE InOrder({n \in Nodes(g) : Shown(g, label, n)}, <)

\* The depth-first walk: rightwards from the anchor, then leftwards.  A frame
\* has the nodes and the edges of the part of the pattern reached so far.
StepsFrom(q, anchor) ==
    [k \in 1..Len(q.rels) |->
        IF anchor + k - 1 <= Len(q.rels) THEN [rel |-> anchor + k - 1, forward |-> TRUE]
        ELSE [rel |-> Len(q.rels) - k + 1, forward |-> FALSE]]
UsedEdges(f) == UNION {ToSet(f.walks[i]) : i \in DOMAIN f.walks}
Extended(f, at, i, hit) ==
    [pos |-> [j \in DOMAIN f.pos \cup {at} |-> IF j = at THEN hit.node ELSE f.pos[j]],
     walks |-> [j \in DOMAIN f.walks \cup {i} |-> IF j = i THEN hit.walk ELSE f.walks[j]]]

RECURSIVE Completed(_, _, _, _)
Completed(g, q, steps, f) ==
    IF steps = <<>> THEN <<f>>
    ELSE LET i == steps[1].rel
             from == IF steps[1].forward THEN i ELSE i + 1
             to == IF steps[1].forward THEN i + 1 ELSE i
             hits == SelectSeq(ExpandRel(g, q, i, f.pos[from], steps[1].forward, UsedEdges(f)),
                               LAMBDA h : NodeMatches(g, q, to, h.node))
         IN  FlattenSeq([j \in DOMAIN hits |-> Completed(g, q, Tail(steps), Extended(f, to, i, hits[j]))])
Frames(g, q, anchor) ==
    LET starts == SelectSeq(AnchorCandidates(g, q, Equalities(q), anchor), LAMBDA n : NodeMatches(g, q, anchor, n))
    IN  FlattenSeq([j \in DOMAIN starts |->
            Completed(g, q, StepsFrom(q, anchor), [pos |-> [i \in {anchor} |-> starts[j]], walks |-> <<>>])])

\* A variable repeated in the pattern binds one node.
Consistent(q, f) ==
    \A i, j \in DOMAIN q.nodes : q.nodes[i].var # <<>> /\ q.nodes[i].var = q.nodes[j].var => f.pos[i] = f.pos[j]
BindingOf(q, f) ==
    [v \in NodeVars(q) \cup RelVars(q) |->
        IF v \in NodeVars(q) THEN <<f.pos[CHOOSE i \in DOMAIN q.nodes : q.nodes[i].var = <<v>>]>>
        ELSE f.walks[CHOOSE i \in DOMAIN q.rels : q.rels[i].var = <<v>>]]

\* eval and test.  An error is <<>>.
OrNull(o) == IF o = <<>> THEN Null ELSE o[1]
GEval(g, q, x, b) ==
    LET kind == VarKind(q, x.var)
        props == IF kind = "node" THEN g.props[b[x.var][1]] ELSE g.edge[b[x.var][1]].props
    IN  CASE x.x = "value" -> x.v
          [] x.x = "id" -> IntValue(b[x.var][1])
          [] x.x = "label" -> StrValue(g.label[b[x.var][1]])
          [] x.x = "type" -> StrValue(<<g.edge[b[x.var][1]].type>>)
          [] x.x = "prop" -> IF x.path[1] \in DOMAIN props THEN OrNull(GetPath(props[x.path[1]], Tail(x.path))) ELSE Null
          [] x.x = "var" -> CASE kind = "node" -> NodeValue(b[x.var][1])
                              [] kind = "rel" -> EdgeValue(b[x.var][1])
                              [] kind = "path" -> ListValue([i \in DOMAIN b[x.var] |-> EdgeValue(b[x.var][i])])

Compared(op, x, y) ==
    IF "null" \in {x.k, y.k} THEN (op = "eq" /\ x.k = y.k) \/ (op = "ne" /\ x.k # y.k)
    ELSE CmpHolds(op, CompareValues(x, y))
BothStr(x, y) == x.k = "str" /\ y.k = "str"
LeafTest(c, x, y) ==
    CASE c.x = "cmp" -> <<Compared(c.op, x, y)>>
      [] c.x = "in" -> IF y.k # "list" THEN <<>>
                       ELSE <<(x.k # "null" /\ \E i \in DOMAIN y.v : Same(x, y.v[i])) # c.negated>>
      [] c.x = "isnull" -> <<(x.k = "null") # c.negated>>
      [] c.x = "like" -> <<BothStr(x, y) /\ (LikeMatches(x.v, y.v, c.ci) # c.negated)>>
      [] c.x = "contains" -> <<\/ x.k = "list" /\ \E i \in DOMAIN x.v : Same(x.v[i], y)
                               \/ BothStr(x, y) /\ Within(y.v, x.v)>>
      [] c.x = "startswith" -> <<BothStr(x, y) /\ Starts(y.v, x.v)>>
      [] c.x = "endswith" -> <<BothStr(x, y) /\ IsSuffix(y.v, x.v)>>

\* AND stops at the first part that is not true, OR at the first not false.
UpToFirst(answers, go) ==
    LET stop == {i \in DOMAIN answers : answers[i] # <<go>>}
    IN  IF stop = {} THEN <<go>> ELSE answers[CHOOSE i \in stop : \A j \in stop : i <= j]
RECURSIVE Test(_, _, _, _)
Test(g, q, c, b) ==
    CASE c.x = "and" -> UpToFirst([i \in DOMAIN c.args |-> Test(g, q, c.args[i], b)], TRUE)
      [] c.x = "or" -> UpToFirst([i \in DOMAIN c.args |-> Test(g, q, c.args[i], b)], FALSE)
      [] c.x = "not" -> LET t == Test(g, q, c.arg, b) IN IF t = <<>> THEN t ELSE <<~t[1]>>
      [] c.x = "haslabel" -> <<g.label[b[c.var][1]] = c.label>>
      [] c.x = "isnull" -> LeafTest(c, GEval(g, q, c.a, b), Null)
      [] OTHER -> LeafTest(c, GEval(g, q, c.a, b), GEval(g, q, c.b, b))
Filtered(g, q, b) == IF q.filter = <<>> THEN <<TRUE>> ELSE Test(g, q, q.filter[1], b)

-----------------------------------------------------------------------------
\* project.rs.

\* The search stops once a query that needs no more matches has SKIP + LIMIT.
StreamingLimitShort(q) == IF Aggregating(q) \/ q.distinct \/ q.order # <<>> THEN <<>> ELSE q.limit
StreamingLimit(q) ==
    IF Aggregating(q) \/ q.distinct \/ q.order # <<>> \/ q.limit = <<>> THEN <<>>
    ELSE <<q.limit[1] + (IF q.skip = <<>> THEN 0 ELSE q.skip[1])>>
Judge(g, q, b) == [b |-> b, t |-> Filtered(g, q, b)]
Judged(g, q, frames) ==
    FlattenSeq([i \in DOMAIN frames |->
        IF Consistent(q, frames[i]) THEN <<Judge(g, q, BindingOf(q, frames[i]))>> ELSE <<>>])
StopAt(q, judged) ==
    LET passed(i) == {j \in 1..i : judged[j].t = <<TRUE>>}
        enough == {i \in DOMAIN judged : StreamingLimit(q) # <<>> /\ judged[i].t = <<TRUE>> /\ Cardinality(passed(i)) >= StreamingLimit(q)[1]}
    IN  IF enough = {} THEN Len(judged) ELSE CHOOSE i \in enough : \A j \in enough : i <= j
FoundIn(met) ==
    LET kept == SelectSeq(met, LAMBDA m : m.t = <<TRUE>>)
    IN  [error |-> \E i \in DOMAIN met : met[i].t = <<>>, found |-> [i \in DOMAIN kept |-> kept[i].b]]
Streamed(q, judged) == FoundIn(SubSeq(judged, 1, StopAt(q, judged)))
MatchesFound(g, q) == Streamed(q, Judged(g, q, Frames(g, q, AnchorOf(g, q, Equalities(q)))))

\* RETURN * names every variable.
Items(q) ==
    IF q.returns # <<>> THEN q.returns
    ELSE LET vars == InOrder(NodeVars(q) \cup RelVars(q), <)
         IN  [i \in DOMAIN vars |-> [agg |-> <<>>, arg |-> <<[x |-> "var", var |-> vars[i]]>>]]

\* AggState: new, add and finish.  An average is the pair of sum and count.
AggNew == [n |-> 0, int |-> 0, total |-> 0, allInt |-> TRUE, overflow |-> FALSE, best |-> <<>>, items |-> <<>>, error |-> FALSE]
AggNumber(acc, v) ==
    LET int == acc.int + IF v.k = "int" THEN v.v[1] ELSE 0
    IN  IF ~Numeric(v) THEN [acc EXCEPT !.error = TRUE]
        ELSE [acc EXCEPT !.n = @ + 1, !.total = @ + v.v[1], !.allInt = @ /\ v.k = "int",
                         !.overflow = @ \/ int \notin Int64, !.int = IF int \in Int64 THEN int ELSE @]
AggAdd(f, acc, o) ==
    CASE acc.error \/ (o # <<>> /\ o[1].k = "null") -> acc
      [] ~acc.error /\ o = <<>> -> IF f = "count" THEN [acc EXCEPT !.n = @ + 1] ELSE acc
      [] OTHER ->
             CASE f = "count" -> [acc EXCEPT !.n = @ + 1]
               [] f \in {"sum", "avg"} -> AggNumber(acc, o[1])
               [] f \in {"min", "max"} ->
                      IF acc.best = <<>> \/ TotalCmp(o, acc.best) = (IF f = "min" THEN -1 ELSE 1)
                      THEN [acc EXCEPT !.best = o] ELSE acc
               [] f = "collect" -> [acc EXCEPT !.items = Append(@, o[1])]
AggFinish(f, acc) ==
    CASE f = "count" -> IntValue(acc.n)
      [] f \in {"sum", "avg"} /\ acc.n = 0 -> Null
      [] f = "sum" /\ acc.n > 0 -> IF acc.allInt /\ ~acc.overflow THEN IntValue(acc.int) ELSE FloatValue(acc.total)
      [] f = "avg" /\ acc.n > 0 -> [k |-> "avg", v |-> <<acc.total, acc.n>>]
      [] f \in {"min", "max"} -> OrNull(acc.best)
      [] f = "collect" -> ListValue(acc.items)

\* Groups in the order they are met; aggregates over nothing make one row.
GroupKey(g, q, b) ==
    LET keys == SelectSeq(Items(q), LAMBDA it : it.agg = <<>>)
    IN  [i \in DOMAIN keys |-> GEval(g, q, keys[i].arg[1], b)]
Gathered(g, q, item, members) ==
    FoldLeft(LAMBDA acc, b :
                 AggAdd(item.agg[1], acc, IF item.arg = <<>> THEN <<>> ELSE <<GEval(g, q, item.arg[1], b)>>),
             AggNew, members)
Met(keys, key) == IF Contains(keys, key) THEN keys ELSE Append(keys, key)
GroupKeys(g, q, found) ==
    LET met == FoldLeft(LAMBDA ks, b : Met(ks, GroupKey(g, q, b)), <<>>, found)
    IN  IF found = <<>> /\ \A i \in DOMAIN Items(q) : Items(q)[i].agg # <<>> THEN << <<>> >> ELSE met
GroupRow(g, q, found, key) ==
    LET members == SelectSeq(found, LAMBDA b : GroupKey(g, q, b) = key)
        accs == [i \in DOMAIN Items(q) |->
                    IF Items(q)[i].agg = <<>> THEN AggNew ELSE Gathered(g, q, Items(q)[i], members)]
        at(i) == Cardinality({j \in 1..i : Items(q)[j].agg = <<>>})
    IN  [error |-> \E i \in DOMAIN accs : accs[i].error,
         row |-> [i \in DOMAIN Items(q) |->
                    IF Items(q)[i].agg = <<>> THEN key[at(i)] ELSE AggFinish(Items(q)[i].agg[1], accs[i])],
         keys |-> <<>>]
PlainRow(g, q, b) ==
    [error |-> FALSE, row |-> [i \in DOMAIN Items(q) |-> GEval(g, q, Items(q)[i].arg[1], b)],
     keys |-> [i \in DOMAIN q.order |-> IF q.order[i].expr = <<>> THEN Null ELSE GEval(g, q, q.order[i].expr[1], b)]]
MatchGroups(g, q, found, keys) == [i \in DOMAIN keys |-> GroupRow(g, q, found, keys[i])]
RowsOf(g, q, found) ==
    IF Aggregating(q) THEN MatchGroups(g, q, found, GroupKeys(g, q, found))
    ELSE [i \in DOMAIN found |-> PlainRow(g, q, found[i])]

Deduplicated(rows) ==
    FoldLeft(LAMBDA out, r : IF \E i \in DOMAIN out : out[i].row = r.row THEN out ELSE Append(out, r), <<>>, rows)

\* ORDER BY names a column of RETURN or has an expression of its own.
SortCmp(q, a, b) ==
    LET key(r, i) == IF q.order[i].expr = <<>> THEN r.row[q.order[i].column] ELSE r.keys[i]
        cmp(i) == IF q.order[i].desc THEN -TotalCmp(<<key(a, i)>>, <<key(b, i)>>) ELSE TotalCmp(<<key(a, i)>>, <<key(b, i)>>)
        differ == {i \in DOMAIN q.order : cmp(i) # 0}
    IN  IF differ = {} THEN 0 ELSE cmp(CHOOSE i \in differ : \A j \in differ : i <= j)
Finished(q, rows) ==
    LET once == IF q.distinct THEN Deduplicated(rows) ELSE rows
        sorted == IF q.order = <<>> THEN once ELSE StableSort(once, LAMBDA a, b : SortCmp(q, a, b))
        paged == UpTo(From(sorted, IF q.skip = <<>> THEN 0 ELSE q.skip[1]), q.limit)
    IN  [i \in DOMAIN paged |-> paged[i].row]

\* bind_count refuses a negative SKIP or LIMIT.
CountsBind(q) == \A n \in ToSet(q.skip) \cup ToSet(q.limit) : n >= 0
Returned(g, q, rows) == IF \E i \in DOMAIN rows : rows[i].error THEN <<>> ELSE <<Finished(q, rows)>>
Answer(g, q, s) == IF s.error THEN <<>> ELSE Returned(g, q, RowsOf(g, q, s.found))
RunMatch(g, q) ==
    IF ~Validate(q) \/ ~CountsBind(q) THEN <<>>
    ELSE Answer(g, q, MatchesFound(g, q))

-----------------------------------------------------------------------------
\* What a pattern matches, stated without a start node or an order.

\* The ways along relationship i from a to b: edges that differ, each leading
\* from the node before it to the node after it.
Trails(g, q, i, a, b) ==
    LET rel == q.rels[i]
        dir == CASE rel.dir = "right" -> "out" [] rel.dir = "left" -> "in" [] rel.dir = "either" -> "both"
        types == IF rel.types = <<>> THEN <<>> ELSE <<rel.types>>
        usable == {e \in Edges(g) : Allowed(g, e, types) /\ EdgeMatches(g, q, i, e)}
        ends(w) == FoldLeft(LAMBDA S, e : {n \in Nodes(g) : \E m \in S : Joins(g, e, dir, m, n)}, {a}, w)
        lengths == HopBounds(rel)[1]..Min({HopBounds(rel)[2], Cardinality(usable)})
    IN  {w \in UNION {[1..n -> usable] : n \in lengths} : IsInjective(w) /\ b \in ends(w)}
TrailsBetween(g, q) == [i \in DOMAIN q.rels |-> [ab \in Nodes(g) \X Nodes(g) |-> Trails(g, q, i, ab[1], ab[2])]]

PatternMatches(g, q, trails) ==
    UNION {{[pos |-> pos, walks |-> walks] :
               walks \in {w \in [DOMAIN q.rels -> UNION {trails[i][<<pos[i], pos[i + 1]>>] : i \in DOMAIN q.rels}] :
                             /\ \A i \in DOMAIN w : w[i] \in trails[i][<<pos[i], pos[i + 1]>>]
                             /\ \A i, j \in DOMAIN w : i # j => ToSet(w[i]) \cap ToSet(w[j]) = {}}} :
           pos \in {p \in [DOMAIN q.nodes -> Nodes(g)] :
                       /\ \A i \in DOMAIN p : NodeMatches(g, q, i, p[i])
                       /\ \A v \in NodeVars(q) : Cardinality({p[i] : i \in {j \in DOMAIN p : q.nodes[j].var = <<v>>}}) = 1}}

\* A walk to the left of the start node has its edges from right to left.
Oriented(f, anchor) == [f EXCEPT !.walks = [i \in DOMAIN f.walks |-> IF i < anchor THEN Reverse(f.walks[i]) ELSE f.walks[i]]]

\* The start node is looked up by values that equal only themselves: not 2.0
\* for 2, and not null, which WHERE also finds where the property is missing.
StrictLookup(g, q, anchor) ==
    LET pinned == Pinned(q, Equalities(q), anchor)  indexed == Indexed(g, q, Equalities(q), anchor)
    IN  IF pinned # <<>> THEN pinned[1].v.k = "int"
        ELSE indexed # <<>> =>
                 /\ indexed[1].v.k # "null"
                 /\ \A n \in Nodes(g) : indexed[1].p \in DOMAIN g.props[n] =>
                        (Same(g.props[n][indexed[1].p], indexed[1].v) => g.props[n][indexed[1].p] = indexed[1].v)
TypesOnce(q) == \A i \in DOMAIN q.rels : IsInjective(q.rels[i].types)

\* The whole answer is the projection of the matches that pass WHERE: each
\* once, each row once under DISTINCT, each group once with the count of its
\* matches, in the order asked for.
RowsExact(g, q, bindings, rows) ==
    LET key(b) == GroupKey(g, q, b)
        counts == {i \in DOMAIN Items(q) : Items(q)[i].agg = <<"count">> /\ Items(q)[i].arg = <<>>}
        keyOf(r) == LET at == SelectSeq([i \in DOMAIN r |-> i], LAMBDA i : Items(q)[i].agg = <<>>)
                    IN  [i \in DOMAIN at |-> r[at[i]]]
        members(k) == {i \in DOMAIN bindings : key(bindings[i]) = k}
    IN  IF Aggregating(q)
        THEN /\ {keyOf(rows[i]) : i \in DOMAIN rows} = {key(bindings[i]) : i \in DOMAIN bindings} \cup
                    (IF \A i \in DOMAIN Items(q) : Items(q)[i].agg # <<>> THEN { <<>> } ELSE {})
             /\ \A i, j \in DOMAIN rows : i # j => keyOf(rows[i]) # keyOf(rows[j])
             /\ \A i \in DOMAIN rows, c \in counts : rows[i][c] = IntValue(Cardinality(members(keyOf(rows[i]))))
        ELSE LET row(b) == [i \in DOMAIN Items(q) |-> GEval(g, q, Items(q)[i].arg[1], b)]
                 times(r) == {i \in DOMAIN bindings : row(bindings[i]) = r}
             IN  /\ ToSet(rows) = {row(bindings[i]) : i \in DOMAIN bindings}
                 /\ \A r \in ToSet(rows) :
                        Cardinality({i \in DOMAIN rows : rows[i] = r}) = IF q.distinct THEN 1 ELSE Cardinality(times(r))

\* A query answers, whatever node it starts from, a page of the rows of every
\* match of its pattern that WHERE keeps; the limit it streams by and the order
\* it sorts in change nothing else.
MatchExact(g, q) ==
    \A whole \in {[q EXCEPT !.skip = <<>>, !.limit = <<>>]}, got \in {RunMatch(g, q)} :
    \A all \in {RunMatch(g, whole)}, anchor \in {AnchorOf(g, q, Equalities(q))} :
        IF ~Validate(q) \/ ~CountsBind(q) THEN got = <<>>
        ELSE /\ all # <<>> => got = <<UpTo(From(all[1], IF q.skip = <<>> THEN 0 ELSE q.skip[1]), q.limit)>>
             /\ all # <<>> /\ StrictLookup(g, q, anchor) /\ TypesOnce(q) =>
                    \A trails \in {TrailsBetween(g, q)} :
                    \A matched \in {{Oriented(f, anchor) : f \in PatternMatches(g, q, trails)}} :
                    \A kept \in {{f \in matched : Filtered(g, q, BindingOf(q, f)) = <<TRUE>>}} :
                        RowsExact(g, q, [f \in kept |-> BindingOf(q, f)], all[1])
             /\ all # <<>> => \A i \in 1..Len(q.order) : q.order[i].expr = <<>> /\ i = 1 =>
                    \A j \in 1..Len(all[1]) - 1 :
                        LET o == TotalCmp(<<all[1][j][q.order[1].column]>>, <<all[1][j + 1][q.order[1].column]>>)
                        IN  IF q.order[1].desc THEN o >= 0 ELSE o <= 0

=============================================================================
