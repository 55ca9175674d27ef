----------------------------- MODULE QueryPlan ------------------------------
(***************************************************************************)
(* Queries over one table (bkndb-core/src/relational/query, expr.rs,       *)
(* db/read.rs, and the comparisons of value.rs): the access path chosen    *)
(* from the filters, the candidate rows it fetches, the filters applied to *)
(* them, order, paging, projection, counts and aggregates.                 *)
(*                                                                         *)
(* A value is [k, v], v a sequence whatever the kind k.  A table t has     *)
(* t.kind (the kind of each column), t.pk, t.indexed (in schema order),    *)
(* t.rows (a function from key numbers to the columns present) and         *)
(* t.stale: index entries that outlived their rows.  A reference           *)
(* [col, path] names a column, or with a path an element of a list in it.  *)
(* Floats have integral values here.                                       *)
(***************************************************************************)
EXTENDS Integers, FiniteSets, SequencesExt, KeyCodec

Null == [k |-> "null", v |-> <<>>]
IntValue(n) == [k |-> "int", v |-> <<n>>]

-----------------------------------------------------------------------------
\* value.rs.

Sign(before, after) == IF before THEN -1 ELSE IF after THEN 1 ELSE 0
Numeric(v) == v.k \in {"int", "float"}

\* compare_values: -1, 0 or 1, or nothing for kinds that do not compare.
RECURSIVE CompareValues(_, _)
RECURSIVE CompareFrom(_, _, _)
CompareValues(a, b) ==
    CASE Numeric(a) /\ Numeric(b) -> <<Sign(a.v[1] < b.v[1], b.v[1] < a.v[1])>>
      [] a.k = "list" /\ b.k = "list" -> CompareFrom(1, a.v, b.v)
      [] a.k = "map" /\ b.k = "map" -> IF a.v = b.v THEN <<0>> ELSE <<>>
      [] a.k = b.k /\ a.k \notin {"int", "float", "list", "map", "null"} -> <<Sign(Less(a.v, b.v), Less(b.v, a.v))>>
      [] OTHER -> <<>>
CompareFrom(i, x, y) ==
    IF i > Len(x) \/ i > Len(y) THEN <<Sign(Len(x) < Len(y), Len(y) < Len(x))>>
    ELSE IF x[i].k = "null" /\ y[i].k = "null" THEN CompareFrom(i + 1, x, y)
    ELSE IF CompareValues(x[i], y[i]) = <<0>> THEN CompareFrom(i + 1, x, y)
    ELSE CompareValues(x[i], y[i])

\* total_cmp: nulls and missing values first, then kinds, then values.
Rank(o) ==
    IF o = <<>> THEN 0
    ELSE CASE o[1].k = "null" -> 0 [] Numeric(o[1]) -> 2 [] o[1].k = "str" -> 3 [] o[1].k = "list" -> 7 [] o[1].k = "map" -> 8
TotalCmp(a, b) ==
    IF Rank(a) # Rank(b) THEN Sign(Rank(a) < Rank(b), TRUE)
    ELSE IF Rank(a) = 0 \/ CompareValues(a[1], b[1]) = <<>> THEN 0
    ELSE CompareValues(a[1], b[1])[1]

\* like_matches: greedy, going back to the last %.  An upper-case letter is
\* its lower-case letter + 10.
Percent == 91
Underscore == 92
LowerCase(s) == [i \in DOMAIN s |-> IF s[i] \in 11..19 THEN s[i] - 10 ELSE s[i]]

RECURSIVE LikeLoop(_, _, _, _, _)
LikeLoop(t, p, ti, pi, star) ==
    IF ti > Len(t) THEN \A i \in pi..Len(p) : p[i] = Percent
    ELSE IF pi <= Len(p) /\ (p[pi] = Underscore \/ (p[pi] # Percent /\ p[pi] = t[ti]))
         THEN LikeLoop(t, p, ti + 1, pi + 1, star)
    ELSE IF pi <= Len(p) /\ p[pi] = Percent THEN LikeLoop(t, p, ti, pi + 1, <<pi, ti>>)
    ELSE IF star # <<>> THEN LikeLoop(t, p, star[2] + 1, star[1] + 1, <<star[1], star[2] + 1>>)
    ELSE FALSE
LikeMatches(t, p, ci) ==
    IF ci THEN LikeLoop(LowerCase(t), LowerCase(p), 1, 1, <<>>) ELSE LikeLoop(t, p, 1, 1, <<>>)

-----------------------------------------------------------------------------
\* expr.rs.

Key(t, pk) == [k |-> t.kind[t.pk], v |-> pk]

\* Row::get and resolve, with the walk of get_path along list positions.
Get(t, pk, col) ==
    IF col = t.pk THEN <<Key(t, pk)>>
    ELSE IF col \in DOMAIN t.rows[pk] THEN <<t.rows[pk][col]>> ELSE <<>>
RECURSIVE GetPath(_, _)
GetPath(v, path) ==
    IF path = <<>> THEN <<v>>
    ELSE IF v.k = "list" /\ Head(path) \in DOMAIN v.v THEN GetPath(v.v[Head(path)], Tail(path)) ELSE <<>>
Resolve(t, pk, ref) ==
    LET column == Get(t, pk, ref.col)
    IN  IF ref.path = <<>> \/ column = <<>> THEN column ELSE GetPath(column[1], ref.path)

Holds(op, ord) ==
    CASE op = "eq" -> ord = 0 [] op = "ne" -> ord # 0 [] op = "lt" -> ord < 0
      [] op = "le" -> ord <= 0 [] op = "gt" -> ord > 0 [] op = "ge" -> ord >= 0

Same(a, b) == CompareValues(a, b) = <<0>>
Within(needle, s) == \E i \in 0..Len(s) : Starts(needle, SubSeq(s, i + 1, Len(s)))

\* Expr::eval.  A null counts as no value.
CmpHolds(op, ord) == ord # <<>> /\ Holds(op, ord[1])
LeafHolds(e, none, value) ==
    CASE e.x = "cmp" ->
             IF e.v.k = "null" THEN (e.op = "eq" /\ none) \/ (e.op = "ne" /\ ~none)
             ELSE ~none /\ CmpHolds(e.op, CompareValues(value, e.v))
      [] e.x = "in" -> ~none /\ \E i \in DOMAIN e.vs : Same(value, e.vs[i])
      [] e.x = "isnull" -> none
      [] e.x = "isnotnull" -> ~none
      [] e.x = "prefix" -> ~none /\ value.k = "str" /\ Starts(e.p, value.v)
      [] e.x = "contains" ->
             /\ ~none
             /\ \/ value.k = "list" /\ \E i \in DOMAIN value.v : Same(value.v[i], e.v)
                \/ value.k = "str" /\ e.v.k = "str" /\ Within(e.v.v, value.v)
      [] e.x = "like" -> ~none /\ value.k = "str" /\ LikeMatches(value.v, e.p, e.ci)
RECURSIVE Eval(_, _, _)
Eval(t, pk, e) ==
    CASE e.x = "and" -> \A i \in DOMAIN e.args : Eval(t, pk, e.args[i])
      [] e.x = "or" -> \E i \in DOMAIN e.args : Eval(t, pk, e.args[i])
      [] e.x = "not" -> ~Eval(t, pk, e.arg)
      [] OTHER -> LET found == Resolve(t, pk, e.ref)
                  IN  LeafHolds(e, found = <<>> \/ found[1].k = "null", found[1])
Matches(t, filters, pk) == \A i \in DOMAIN filters : Eval(t, pk, filters[i])

\* Query::check_columns with Expr::columns.
RECURSIVE Columns(_)
Columns(e) ==
    CASE e.x \in {"and", "or"} -> UNION {Columns(e.args[i]) : i \in DOMAIN e.args}
      [] e.x = "not" -> Columns(e.arg)
      [] OTHER -> {e.ref.col}
CheckColumns(t, q, extra) ==
    UNION ({Columns(q.filters[i]) : i \in DOMAIN q.filters} \cup
           {{q.order[i].ref.col : i \in DOMAIN q.order}, ToSet(q.columns), extra}) \subseteq DOMAIN t.kind

-----------------------------------------------------------------------------
\* plan.rs.

RECURSIVE Conjuncts(_)
Conjuncts(filters) ==
    FlattenSeq([i \in DOMAIN filters |->
        IF filters[i].x = "and" THEN Conjuncts(filters[i].args) ELSE <<filters[i]>>])

Encoded(v) == SortableKey(v.k, IF v.k = "str" THEN v.v ELSE v.v[1])
UsableKey(kind, v) == v.k = kind /\ v.k \in {"int", "str"} /\ Encoded(v) # <<>>

DedupValues(vs) ==
    SelectSeq([i \in DOMAIN vs |-> [v |-> vs[i], first |-> \A j \in 1..i - 1 : Encoded(vs[j]) # Encoded(vs[i])]],
              LAMBDA entry : entry.first)

\* tighter and range_bounds.
Tighter(cur, new, lower) ==
    IF cur.side = "unbounded" THEN new
    ELSE CASE Same(new.v, cur.v) -> IF new.side = "excluded" THEN new ELSE cur
           [] (CompareValues(new.v, cur.v)[1] > 0) = lower -> new
           [] OTHER -> cur
RangeBounds(conj, col, kind) ==
    FoldLeft(LAMBDA b, e :
                 IF e.x # "cmp" \/ e.op \notin {"gt", "ge", "lt", "le"} THEN b
                 ELSE IF e.ref # [col |-> col, path |-> <<>>] \/ ~UsableKey(kind, e.v) THEN b
                 ELSE LET new == IF e.op \in {"gt", "lt"} THEN Excluded(e.v) ELSE Included(e.v)
                      IN  IF e.op \in {"gt", "ge"} THEN [b EXCEPT !.lo = Tighter(b.lo, new, TRUE)]
                          ELSE [b EXCEPT !.hi = Tighter(b.hi, new, FALSE)],
             [lo |-> Unbounded, hi |-> Unbounded], conj)
Narrow(b) == b.lo.side # "unbounded" \/ b.hi.side # "unbounded"

\* The values that an equality or IN on a column in `cols` asks for.
AsksKeys(t, e, cols) ==
    /\ e.x = "in" \/ (e.x = "cmp" /\ e.op = "eq")
    /\ e.ref.path = <<>> /\ e.ref.col \in cols
    /\ IF e.x = "cmp" THEN UsableKey(t.kind[e.ref.col], e.v)
       ELSE \A i \in DOMAIN e.vs : UsableKey(t.kind[e.ref.col], e.vs[i])
KeysAsked(e) == IF e.x = "cmp" THEN <<[v |-> e.v, first |-> TRUE]>> ELSE DedupValues(e.vs)
AsksPrefix(t, e) ==
    /\ e.x = "prefix" /\ e.ref.path = <<>> /\ e.ref.col \in ToSet(t.indexed)
    /\ t.kind[e.ref.col] = "str" /\ 0 \notin ToSet(e.p)

PlanOver(t, conj) ==
    LET byPk == SelectSeq(conj, LAMBDA e : AsksKeys(t, e, {t.pk}))
        byIndex == SelectSeq(conj, LAMBDA e : AsksKeys(t, e, ToSet(t.indexed)))
        byPrefix == SelectSeq(conj, LAMBDA e : AsksPrefix(t, e))
        range(c) == RangeBounds(conj, c, t.kind[c])
        byRange == SelectSeq(t.indexed, LAMBDA c : Narrow(range(c)))
    IN  IF byPk # <<>> THEN [by |-> "PkGet", keys |-> KeysAsked(byPk[1])]
        ELSE IF byIndex # <<>> THEN [by |-> "IndexEq", col |-> byIndex[1].ref.col, keys |-> KeysAsked(byIndex[1])]
        ELSE IF Narrow(range(t.pk)) THEN [by |-> "PkRange", range |-> range(t.pk)]
        ELSE IF byPrefix # <<>> THEN [by |-> "IndexPrefix", col |-> byPrefix[1].ref.col, p |-> byPrefix[1].p]
        ELSE IF byRange # <<>> THEN [by |-> "IndexRange", col |-> byRange[1], range |-> range(byRange[1])]
        ELSE [by |-> "Scan"]
Plan(t, filters) == PlanOver(t, Conjuncts(filters))

\* A storage range: the keys inside the bounds, in byte order.
RECURSIVE InByteOrder(_)
InByteOrder(entries) ==
    IF entries = {} THEN <<>>
    ELSE LET least == CHOOSE a \in entries : \A b \in entries : a = b \/ Less(a.key, b.key)
         IN  <<least>> \o InByteOrder(entries \ {least})
RangeOf(entries, lo, hi) == InByteOrder({x \in entries : Above(lo, x.key) /\ Below(hi, x.key)})

\* The base table and an index, as bytes.  An index holds the rows whose
\* value is there, not null and encodable, and what is stale.
BaseEntries(t) == {[key |-> Encoded(Key(t, pk))[1], pk |-> pk] : pk \in DOMAIN t.rows}
Indexable(t, pk, col) == LET o == Get(t, pk, col) IN o # <<>> /\ UsableKey(t.kind[col], o[1])
EntryKey(t, v, pk) == Encoded(v)[1] \o Encoded(Key(t, pk))[1]
IndexEntries(t, col) ==
    {[key |-> EntryKey(t, Get(t, pk, col)[1], pk), pk |-> pk] : pk \in {x \in DOMAIN t.rows : Indexable(t, x, col)}}
        \cup {[key |-> EntryKey(t, s.v, s.pk), pk |-> s.pk] : s \in {x \in t.stale : x.col = col}}

\* resolve_index_rows_in: an entry counts if its row is there and agrees.
ResolveIndexRows(t, col, entries) ==
    LET kept == SelectSeq(entries, LAMBDA x :
                    /\ x.pk \in DOMAIN t.rows
                    /\ Indexable(t, x.pk, col) /\ EntryKey(t, Get(t, x.pk, col)[1], x.pk) = x.key)
    IN  [i \in DOMAIN kept |-> kept[i].pk]

\* candidates, with get_in and the index_lookup functions.
AsBound(b, kind) == IF b.side = "unbounded" THEN b ELSE [b EXCEPT !.v = IF kind = "str" THEN @.v ELSE @.v[1]]
RangeBytes(range, kind) ==
    [lo |-> LowerBoundBytes(kind, AsBound(range.lo, kind)), hi |-> UpperBoundBytes(kind, AsBound(range.hi, kind))]
IndexLookup(t, col, lo, hi) == ResolveIndexRows(t, col, RangeOf(IndexEntries(t, col), lo, hi))
Candidates(t, access) ==
    LET base(lo, hi) == LET found == RangeOf(BaseEntries(t), lo, hi) IN [i \in DOMAIN found |-> found[i].pk]
    IN  CASE access.by = "Scan" -> base(Unbounded, Unbounded)
          [] access.by = "PkRange" ->
                 LET b == RangeBytes(access.range, t.kind[t.pk]) IN base(b.lo, b.hi)
          [] access.by = "PkGet" ->
                 LET there == SelectSeq(access.keys, LAMBDA x : x.v.v \in DOMAIN t.rows)
                 IN  [i \in DOMAIN there |-> there[i].v.v]
          [] access.by = "IndexEq" ->
                 FlattenSeq([i \in DOMAIN access.keys |->
                     LET p == Encoded(access.keys[i].v)[1]
                     IN  IndexLookup(t, access.col, Included(p), PastPrefix(p, "excluded"))])
          [] access.by = "IndexPrefix" ->
                 LET b == StrPrefixBounds(access.p) IN IndexLookup(t, access.col, b.lo, b.hi)
          [] access.by = "IndexRange" ->
                 LET b == RangeBytes(access.range, t.kind[access.col]) IN IndexLookup(t, access.col, b.lo, b.hi)

MatchingRows(t, filters) == SelectSeq(Candidates(t, Plan(t, filters)), LAMBDA pk : Matches(t, filters, pk))

-----------------------------------------------------------------------------
\* exec.rs.

\* The order of select_in's sort: the first column that differs decides.
RowOrder(t, order, a, b) ==
    LET cmp(i) == LET c == TotalCmp(Resolve(t, a, order[i].ref), Resolve(t, b, order[i].ref))
                  IN  IF order[i].desc THEN -c ELSE c
        differ == {i \in DOMAIN order : cmp(i) # 0}
    IN  IF differ = {} THEN 0 ELSE cmp(CHOOSE i \in differ : \A j \in differ : i <= j)

\* sort_by is stable.
StableSort(rows, Cmp(_, _)) ==
    FoldLeft(LAMBDA out, r :
                 LET later == {i \in DOMAIN out : Cmp(r, out[i]) < 0}
                     at == IF later = {} THEN Len(out) + 1 ELSE CHOOSE i \in later : \A j \in later : i <= j
                 IN  InsertAt(out, at, r),
             <<>>, rows)

PresortedAny(t, q, access) == q.order = <<[ref |-> [col |-> t.pk, path |-> <<>>], desc |-> FALSE]>>
Presorted(t, q, access) ==
    access.by \in {"Scan", "PkRange"} /\ q.order = <<[ref |-> [col |-> t.pk, path |-> <<>>], desc |-> FALSE]>>
UpTo(rows, limit) == IF limit = <<>> \/ limit[1] >= Len(rows) THEN rows ELSE SubSeq(rows, 1, limit[1])
From(rows, offset) == SubSeq(rows, offset + 1, Len(rows))

\* select_in: the keys of the rows, the columns they carry, or a refusal.
Paged(t, q, access, matching) ==
    IF q.order = <<>> \/ Presorted(t, q, access)
    THEN From(UpTo(matching, IF q.limit = <<>> THEN <<>> ELSE <<q.limit[1] + q.offset>>), q.offset)
    ELSE UpTo(From(StableSort(matching, LAMBDA a, b : RowOrder(t, q.order, a, b)), q.offset), q.limit)
Projected(t, q, rows) ==
    [i \in DOMAIN rows |->
        [pk |-> rows[i], cols |-> IF q.columns = <<>> THEN DOMAIN t.rows[rows[i]]
                                  ELSE DOMAIN t.rows[rows[i]] \cap ToSet(q.columns)]]
Select(t, q) ==
    IF CheckColumns(t, q, {})
    THEN <<Projected(t, q, Paged(t, q, Plan(t, q.filters), MatchingRows(t, q.filters)))>>
    ELSE <<>>
Count(t, q) == IF CheckColumns(t, q, {}) THEN <<Len(MatchingRows(t, q.filters))>> ELSE <<>>

\* Acc: new, add and finish.  An average is the pair of sum and count.
AccNew == [n |-> 0, int |-> 0, float |-> 0, anyFloat |-> FALSE, seen |-> FALSE, best |-> <<>>]
AccAdd(t, agg, acc, pk) ==
    LET o == IF agg.col = <<>> THEN <<>> ELSE Get(t, pk, agg.col[1])
        some == o # <<>> /\ o[1].k # "null"
        number == some /\ Numeric(o[1])
        better == acc.best = <<>> \/ TotalCmp(o, acc.best) = IF agg.f = "min" THEN -1 ELSE 1
    IN  CASE agg.f = "count" -> [acc EXCEPT !.n = @ + IF agg.col = <<>> \/ some THEN 1 ELSE 0]
          [] agg.f \in {"sum", "avg"} /\ number ->
                 [acc EXCEPT !.n = @ + 1, !.seen = TRUE, !.anyFloat = @ \/ o[1].k = "float",
                             !.int = @ + IF o[1].k = "int" THEN o[1].v[1] ELSE 0,
                             !.float = @ + IF o[1].k = "float" THEN o[1].v[1] ELSE 0]
          [] agg.f \in {"min", "max"} /\ some -> IF better THEN [acc EXCEPT !.best = o] ELSE acc
          [] OTHER -> acc
Int64 == -(Range64 \div 2)..Range64 \div 2 - 1
AccFinish(agg, acc) ==
    CASE agg.f = "count" -> <<IntValue(acc.n)>>
      [] agg.f \in {"sum", "avg"} /\ ~acc.seen -> <<Null>>
      [] agg.f = "sum" /\ acc.anyFloat -> <<[k |-> "float", v |-> <<acc.int + acc.float>>]>>
      [] agg.f = "sum" /\ acc.seen /\ ~acc.anyFloat -> IF acc.int \in Int64 THEN <<IntValue(acc.int)>> ELSE <<>>
      [] agg.f = "avg" /\ acc.seen -> <<[k |-> "avg", v |-> <<acc.int + acc.float, acc.n>>]>>
      [] agg.f \in {"min", "max"} -> IF acc.best = <<>> THEN <<Null>> ELSE acc.best

\* Agg::check: sums and averages need a column of numbers.
AggCheck(t, agg) == agg.f \in {"sum", "avg"} => t.kind[agg.col[1]] \in {"int", "float"}

\* aggregate_in: rows by group in the order the groups first appear, then
\* sorted; a group value that is missing is null.
GroupOf(t, by, pk) ==
    [i \in DOMAIN by |-> LET o == Resolve(t, pk, by[i]) IN IF o = <<>> THEN Null ELSE o[1]]
GroupCmp(a, b) ==
    LET differ == {i \in DOMAIN a : TotalCmp(<<a[i]>>, <<b[i]>>) # 0}
    IN  IF differ = {} THEN 0
        ELSE LET i == CHOOSE x \in differ : \A y \in differ : x <= y IN TotalCmp(<<a[i]>>, <<b[i]>>)
GroupsOf(t, by, rows) ==
    LET met(gs, g) == IF Contains(gs, g) THEN gs ELSE Append(gs, g)
    IN  IF by = <<>> THEN << <<>> >>
        ELSE StableSort(FoldLeft(LAMBDA gs, pk : met(gs, GroupOf(t, by, pk)), <<>>, rows), GroupCmp)
Folded(t, by, rows, agg, g) ==
    AccFinish(agg, FoldLeft(LAMBDA a, pk : IF GroupOf(t, by, pk) = g THEN AccAdd(t, agg, a, pk) ELSE a, AccNew, rows))
GroupRows(t, by, aggs, rows) ==
    LET groups == GroupsOf(t, by, rows)
    IN  [i \in DOMAIN groups |->
            [group |-> groups[i], values |-> [j \in DOMAIN aggs |-> Folded(t, by, rows, aggs[j], groups[i])]]]
Whole(out) == IF \A i \in DOMAIN out : <<>> \notin ToSet(out[i].values) THEN <<out>> ELSE <<>>
Aggregate(t, q, by, aggs) ==
    IF /\ CheckColumns(t, q, UNION {ToSet(aggs[j].col) : j \in DOMAIN aggs})
       /\ {by[i].col : i \in DOMAIN by} \subseteq DOMAIN t.kind
       /\ \A j \in DOMAIN aggs : AggCheck(t, aggs[j])
    THEN Whole(GroupRows(t, by, aggs, MatchingRows(t, q.filters)))
    ELSE <<>>

-----------------------------------------------------------------------------
\* LIKE as SQL defines it.
RECURSIVE Likes(_, _)
Likes(t, p) ==
    IF p = <<>> THEN t = <<>>
    ELSE IF Head(p) = Percent THEN \E i \in 1..Len(t) + 1 : Likes(SubSeq(t, i, Len(t)), Tail(p))
    ELSE t # <<>> /\ Head(p) \in {Underscore, Head(t)} /\ Likes(Tail(t), Tail(p))

LikeExact(t, p) == (LikeMatches(t, p, FALSE) <=> Likes(t, p)) /\ (LikeMatches(t, p, TRUE) <=> Likes(LowerCase(t), LowerCase(p)))

\* The rows a query is about, without a plan.
Asked(t, filters) == {pk \in DOMAIN t.rows : Matches(t, filters, pk)}

\* The access path changes nothing: a query returns distinct rows among those
\* its filters keep, as many as its page holds, each at a position that its
\* rank in the requested order allows.
SelectExact(t, q) ==
    \A all \in {Asked(t, q.filters)}, selected \in {Select(t, q)} :
        LET got == selected[1]
            room == IF Cardinality(all) > q.offset THEN Cardinality(all) - q.offset ELSE 0
            before(pk, n) == {x \in all : RowOrder(t, q.order, x, pk) < n}
        IN  IF ~CheckColumns(t, q, {}) THEN selected = <<>>
            ELSE /\ \A i, j \in DOMAIN got : i # j => got[i].pk # got[j].pk
                 /\ Len(got) = IF q.limit = <<>> \/ q.limit[1] > room THEN room ELSE q.limit[1]
                 /\ \A i \in DOMAIN got :
                       /\ got[i].pk \in all
                       /\ Cardinality(before(got[i].pk, 0)) < q.offset + i
                       /\ Cardinality(before(got[i].pk, 1)) >= q.offset + i
                 /\ Count(t, q) = <<Cardinality(all)>>

\* Aggregates are those of the rows the filters keep: one row per group in
\* ascending order, one in all without grouping; a sum is refused exactly when
\* the whole of it is no i64, whatever it passes through on the way.
AggregateExact(t, q, by, col) ==
    LET aggs == <<[f |-> "count", col |-> <<>>], [f |-> "sum", col |-> <<col>>],
                  [f |-> "min", col |-> <<col>>], [f |-> "max", col |-> <<col>>]>>
        number(pk) == Get(t, pk, col)[1].v[1]
        numbers(members) == {pk \in members : Get(t, pk, col) # <<>>}
        sum(pks) == FoldLeft(LAMBDA n, pk : n + number(pk), 0, SetToSeq(pks))
        \* The row of a group with these members, of which these have a number.
        exact(values, members, pks) ==
            /\ values[1] = <<IntValue(Cardinality(members))>>
            /\ values[2] = <<IF pks = {} THEN Null ELSE IntValue(sum(pks))>>
            /\ IF pks = {} THEN values[3] = <<Null>> /\ values[4] = <<Null>>
               ELSE \E lo, hi \in pks :
                       /\ \A pk \in pks : number(pk) \in number(lo)..number(hi)
                       /\ values[3] = <<IntValue(number(lo))>> /\ values[4] = <<IntValue(number(hi))>>
    IN  \A all \in {Asked(t, q.filters)}, got \in {Aggregate(t, q, by, aggs)} :
        LET members(g) == {pk \in all : GroupOf(t, by, pk) = g}
        IN  \A groups \in {IF by = <<>> THEN { <<>> } ELSE {GroupOf(t, by, pk) : pk \in all}} :
            IF \E g \in groups : sum(numbers(members(g))) \notin Int64 THEN got = <<>>
            ELSE /\ {got[1][i].group : i \in DOMAIN got[1]} = groups
                 /\ \A i \in 1..Len(got[1]) - 1 : GroupCmp(got[1][i].group, got[1][i + 1].group) < 0
                 /\ \A i \in DOMAIN got[1] :
                       LET g == got[1][i].group
                       IN  exact(got[1][i].values, members(g), numbers(members(g)))

=============================================================================
