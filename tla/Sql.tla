--------------------------------- MODULE Sql --------------------------------
(***************************************************************************)
(* SELECT statements (bkndb-core/src/lang/sql/exec.rs): the WHERE clause   *)
(* bound to a filter of the query builder, and the statement run as a      *)
(* query or as an aggregate query of QueryPlan.                            *)
(*                                                                         *)
(* Parameters are bound.  A name in the text is a reference [col, path];   *)
(* options are sequences of length 0 or 1, and an error is <<>>.           *)
(***************************************************************************)
EXTENDS Integers, FiniteSets, SequencesExt, QueryPlan

Negated(e, negated) == IF negated THEN [x |-> "not", arg |-> e] ELSE e

\* 'abc%' is a plain prefix, which an index can serve.
PlainPrefix(p) == p # <<>> /\ Last(p) = Percent /\ ToSet(Front(p)) \cap {Percent, Underscore} = {}

RECURSIVE BindExpr(_)
BindExpr(c) ==
    CASE c.x \in {"and", "or"} ->
             LET parts == [i \in DOMAIN c.args |-> BindExpr(c.args[i])]
             IN  IF <<>> \in ToSet(parts) THEN <<>>
                 ELSE <<[x |-> c.x, args |-> [i \in DOMAIN parts |-> parts[i][1]]]>>
      [] c.x = "not" -> LET e == BindExpr(c.arg) IN IF e = <<>> THEN <<>> ELSE <<Negated(e[1], TRUE)>>
      [] c.x = "in" -> <<Negated([x |-> "in", ref |-> c.ref, vs |-> c.vs], c.negated)>>
      [] c.x = "isnull" -> <<[x |-> IF c.negated THEN "isnotnull" ELSE "isnull", ref |-> c.ref]>>
      [] c.x = "between" ->
             <<Negated([x |-> "and", args |-> <<[x |-> "cmp", ref |-> c.ref, op |-> "ge", v |-> c.low],
                                                [x |-> "cmp", ref |-> c.ref, op |-> "le", v |-> c.high]>>], c.negated)>>
      [] c.x = "like" ->
             IF c.v.k # "str" THEN <<>>
             ELSE <<Negated(IF PlainPrefix(c.v.v) /\ ~c.ci THEN [x |-> "prefix", ref |-> c.ref, p |-> Front(c.v.v)]
                            ELSE [x |-> "like", ref |-> c.ref, p |-> c.v.v, ci |-> c.ci], c.negated)>>
      [] c.x \in {"cmp", "contains"} -> <<c>>

BindCount(o) == \A i \in DOMAIN o : o[i] >= 0
Offset(sel) == IF sel.offset = <<>> THEN 0 ELSE sel.offset[1]

\* Output names: the alias, else the text of the item.
AggName(f, col) == [col |-> f \o "(" \o (IF col = <<>> THEN "*" ELSE col[1]) \o ")", path |-> <<>>]
OutName(item) ==
    IF item.alias # <<>> THEN item.alias[1] ELSE IF item.item = "column" THEN item.ref ELSE AggName(item.f, item.col)
GroupedSelect(sel) == sel.by # <<>> \/ \E i \in DOMAIN sel.items : sel.items[i].item = "agg"

\* A plain SELECT.  * is the key and then the other columns in schema order.
StarColumns(t) == <<t.pk>> \o SelectSeq(t.columns, LAMBDA c : c # t.pk)
Paths(t, sel) ==
    FlattenSeq([i \in DOMAIN sel.items |->
        IF sel.items[i].item = "star" THEN [j \in DOMAIN t.columns |-> [col |-> StarColumns(t)[j], path |-> <<>>]]
        ELSE <<sel.items[i].ref>>])
Valued(o) == IF o = <<>> THEN Null ELSE o[1]
SelectRows(t, sel, filters) ==
    LET paths == Paths(t, sel)
        found == Select(t, [filters |-> filters, order |-> sel.order, offset |-> Offset(sel), limit |-> sel.limit, columns |-> <<>>])
    IN  IF (\E i \in DOMAIN paths : paths[i].col \notin DOMAIN t.kind) \/ found = <<>> THEN <<>>
        ELSE <<[r \in DOMAIN found[1] |-> [i \in DOMAIN paths |-> Valued(Resolve(t, found[1][r].pk, paths[i]))]]>>

\* An aggregate SELECT: each output column is a group value or an aggregate,
\* and ORDER BY names an output column or the column it comes from.
ItemsFit(t, sel) ==
    /\ \A i \in DOMAIN sel.items :
           CASE sel.items[i].item = "star" -> FALSE
             [] sel.items[i].item = "column" -> sel.items[i].ref \in ToSet(sel.by)
             [] sel.items[i].item = "agg" -> sel.items[i].col = <<>> => sel.items[i].f = "count"
    /\ \A i \in DOMAIN sel.by : sel.by[i].col \in DOMAIN t.kind
NumberIn(items, i) == Cardinality({j \in 1..i : items[j].item = "agg"})
FirstIn(S) == CHOOSE i \in S : \A j \in S : i <= j
OutputRow(sel, g) ==
    [i \in DOMAIN sel.items |->
        IF sel.items[i].item = "agg" THEN g.values[NumberIn(sel.items, i)][1]
        ELSE g.group[FirstIn({j \in DOMAIN sel.by : sel.by[j] = sel.items[i].ref})]]
OrderColumn(sel, name) ==
    LET named == {i \in DOMAIN sel.items : OutName(sel.items[i]) = name}
        from == {i \in DOMAIN sel.items : sel.items[i].item = "column" /\ sel.items[i].ref = name}
    IN  IF named # {} THEN <<FirstIn(named)>> ELSE IF from # {} THEN <<FirstIn(from)>> ELSE <<>>
OutputCmp(sel, keys, a, b) ==
    LET cmp(i) == LET c == TotalCmp(<<a[keys[i][1]]>>, <<b[keys[i][1]]>>) IN IF sel.order[i].desc THEN -c ELSE c
        differ == {i \in DOMAIN keys : cmp(i) # 0}
    IN  IF differ = {} THEN 0 ELSE cmp(FirstIn(differ))
Arranged(sel, rows) ==
    LET keys == [i \in DOMAIN sel.order |-> OrderColumn(sel, sel.order[i].ref)]
    IN  IF <<>> \in ToSet(keys) THEN <<>>
        ELSE <<UpTo(From(StableSort(rows, LAMBDA a, b : OutputCmp(sel, keys, a, b)), Offset(sel)), sel.limit)>>
AggregateRows(t, sel, filters) ==
    LET items == SelectSeq(sel.items, LAMBDA it : it.item = "agg")
        grouped == Aggregate(t, [filters |-> filters, order |-> <<>>, offset |-> 0, limit |-> <<>>, columns |-> <<>>], sel.by,
                             [i \in DOMAIN items |-> [f |-> items[i].f, col |-> items[i].col]])
    IN  IF ~ItemsFit(t, sel) THEN <<>>
        ELSE IF grouped = <<>> THEN <<>>
        ELSE Arranged(sel, [i \in DOMAIN grouped[1] |-> OutputRow(sel, grouped[1][i])])

ExecuteSelect(t, sel) ==
    LET filter == IF sel.filter = <<>> THEN <<>> ELSE BindExpr(sel.filter[1])
    IN  IF (sel.filter # <<>> /\ filter = <<>>) \/ ~BindCount(sel.limit) \/ ~BindCount(sel.offset) THEN <<>>
        ELSE IF GroupedSelect(sel) THEN AggregateRows(t, sel, filter) ELSE SelectRows(t, sel, filter)

-----------------------------------------------------------------------------
\* What the WHERE clause says of a row, read as it is written.
RECURSIVE Says(_, _, _)
Says(t, pk, c) ==
    LET o == Resolve(t, pk, c.ref)
        some == o # <<>> /\ o[1].k # "null"
    IN  CASE c.x = "and" -> \A i \in DOMAIN c.args : Says(t, pk, c.args[i])
          [] c.x = "or" -> \E i \in DOMAIN c.args : Says(t, pk, c.args[i])
          [] c.x = "not" -> ~Says(t, pk, c.arg)
          [] c.x = "between" -> c.negated # (some /\ CmpHolds("ge", CompareValues(o[1], c.low)) /\ CmpHolds("le", CompareValues(o[1], c.high)))
          [] c.x = "like" -> c.negated # (some /\ o[1].k = "str" /\ IF c.ci THEN Likes(LowerCase(o[1].v), LowerCase(c.v.v)) ELSE Likes(o[1].v, c.v.v))
          [] c.x = "in" -> c.negated # (some /\ \E i \in DOMAIN c.vs : Same(o[1], c.vs[i]))
          [] c.x = "isnull" -> c.negated # ~some
          [] c.x \in {"cmp", "contains"} -> Eval(t, pk, c)
Said(t, sel) == {pk \in DOMAIN t.rows : sel.filter = <<>> \/ Says(t, pk, sel.filter[1])}

\* The values a row of the answer is made from.
OutputOf(t, sel, pk) == [i \in DOMAIN Paths(t, sel) |-> Valued(Resolve(t, pk, Paths(t, sel)[i]))]

\* A SELECT answers a page of the rows that its text describes; grouped, one
\* row for each group there is, with the number of the rows in it.
SelectSays(t, sel) ==
    \A whole \in {[sel EXCEPT !.limit = <<>>, !.offset = <<>>]}, got \in {ExecuteSelect(t, sel)} :
    \A all \in {ExecuteSelect(t, whole)}, said \in {Said(t, sel)} :
        /\ all = <<>> => got = <<>>
        /\ all # <<>> =>
               /\ got = IF BindCount(sel.limit) /\ BindCount(sel.offset) THEN <<UpTo(From(all[1], Offset(sel)), sel.limit)>> ELSE <<>>
               /\ ~GroupedSelect(sel) =>
                      /\ Len(all[1]) = Cardinality(said)
                      /\ ToSet(all[1]) = {OutputOf(t, sel, pk) : pk \in said}
               /\ GroupedSelect(sel) =>
                      /\ sel.by # <<>> => Len(all[1]) = Cardinality({GroupOf(t, sel.by, pk) : pk \in said})
                      /\ \A i \in DOMAIN sel.items : sel.items[i].item = "agg" /\ sel.items[i].f = "count" /\ sel.items[i].col = <<>> =>
                             FoldLeft(LAMBDA n, r : n + r[i].v[1], 0, all[1]) = Cardinality(said)
               /\ sel.order # <<>> /\ GroupedSelect(sel) =>
                      LET at == OrderColumn(sel, sel.order[1].ref)[1]
                          rank(j) == TotalCmp(<<all[1][j][at]>>, <<all[1][j + 1][at]>>)
                      IN  \A j \in 1..Len(all[1]) - 1 : IF sel.order[1].desc THEN rank(j) >= 0 ELSE rank(j) <= 0

=============================================================================
