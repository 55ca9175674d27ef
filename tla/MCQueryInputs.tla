--------------------------- MODULE MCQueryInputs ----------------------------
(***************************************************************************)
(* Graphs, tables, MATCH queries, joins and SELECT statements for          *)
(* MCAlgorithms, divided by three seeds.                                   *)
(***************************************************************************)
EXTENDS PatternMatch, Hybrid, Sql

Num(n) == IntValue(n)
A == <<1>>
B == <<2>>

\* Graphs of three nodes and three edges: parallel edges, a loop, a cycle, two
\* types.  Node 1 has p = 1, node 2 has p = 2 or 2.0, node 3 none; label A has an
\* index on p or not.
Ends == <<<<1, 2>>, <<2, 3>>, <<2, 1>>, <<2, 2>>, <<3, 1>>>>
Graph(f, indexed, float) ==
    [label |-> <<A, A, IF indexed THEN A ELSE B>>,
     props |-> [n \in 1..3 |-> CASE n = 1 -> [p |-> Num(1), s |-> StrValue(<<1, 2>>)]
                                 [] n = 2 -> [p |-> IF float THEN FloatValue(2) ELSE Num(2), s |-> StrValue(<<12>>)]
                                 [] n = 3 -> [s |-> Num(7), l |-> ListValue(<<Num(1), Num(3)>>)]],
     indexes |-> IF indexed THEN {<<A, "p">>} ELSE {},
     edge |-> [e \in 1..3 |-> [from |-> Ends[f[e]][1], to |-> Ends[f[e]][2], type |-> IF e = 2 THEN 2 ELSE 1,
                               props |-> IF e = 3 THEN [w |-> Num(7)] ELSE [w |-> Num(e)]]]]

Var(v) == [x |-> "var", var |-> v]
Prop(v, p) == [x |-> "prop", var |-> v, path |-> <<p>>]
Id(v) == [x |-> "id", var |-> v]
Val(v) == [x |-> "value", v |-> v]
Cmp(a, op, b) == [x |-> "cmp", a |-> a, op |-> op, b |-> b]

Blank == [var |-> <<>>, label |-> <<>>, props |-> <<>>]
Named(v) == [Blank EXCEPT !.var = <<v>>]
Labelled(v, l) == [Blank EXCEPT !.var = <<v>>, !.label = <<l>>]
Rel(dir) == [var |-> <<>>, types |-> <<>>, dir |-> dir, props |-> <<>>, hops |-> <<>>]
Hops2(lo, hi, dir) == [Rel(dir) EXCEPT !.hops = <<<<lo, hi>>>>, !.var = <<9>>]

\* Nodes 1..n of a pattern are the variables 1..n, relationships 8 and 9.
Patterns ==
    {[nodes |-> <<Labelled(1, A)>>, rels |-> <<>>],
     [nodes |-> <<Named(1), Named(2)>>, rels |-> <<[Rel("right") EXCEPT !.var = <<8>>]>>],
     [nodes |-> <<Named(1), Labelled(2, A)>>, rels |-> <<[Rel("either") EXCEPT !.types = <<2, 1>>, !.var = <<8>>]>>],
     [nodes |-> <<Named(1), Named(2), Named(1)>>, rels |-> <<Rel("right"), Rel("right")>>],
     [nodes |-> <<Named(1), Named(2), Labelled(3, A)>>, rels |-> <<[Rel("right") EXCEPT !.types = <<1>>], Rel("left")>>],
     [nodes |-> <<Blank, Named(2), Named(1)>>, rels |-> <<Rel("either"), Hops2(0, 2, "right")>>],
     [nodes |-> <<Named(1), [Labelled(2, A) EXCEPT !.props = <<[p |-> "p", v |-> Num(2)]>>]>>, rels |-> <<Hops2(1, 16, "left")>>],
     [nodes |-> <<Named(1), Named(2)>>, rels |-> <<[Hops2(2, 3, "either") EXCEPT !.props = <<[p |-> "w", v |-> Num(7)]>>]>>],
     [nodes |-> <<Named(1), Named(2)>>, rels |-> <<[Rel("right") EXCEPT !.types = <<1, 1>>]>>]}

And(a, b) == [x |-> "and", args |-> <<a, b>>]
Filters ==
    {<<>>, <<Cmp(Id(1), "eq", Val(Num(2)))>>, <<And(Cmp(Id(1), "eq", Val(Num(2))), Cmp(Val(Num(1)), "eq", Id(2)))>>,
     <<And(Cmp(Prop(1, "p"), "eq", Val(Num(2))), Cmp(Prop(1, "s"), "ne", Prop(2, "s")))>>,
     <<Cmp(Prop(1, "p"), "eq", Val(Null))>>, <<Cmp(Id(1), "eq", Val(FloatValue(2)))>>,
     <<[x |-> "or", args |-> <<Cmp(Prop(1, "p"), "gt", Val(Num(1))), [x |-> "haslabel", var |-> 1, label |-> B]>>]>>,
     <<[x |-> "not", arg |-> [x |-> "in", a |-> Prop(1, "p"), b |-> Val(ListValue(<<Num(1), Null>>)), negated |-> FALSE]]>>,
     <<[x |-> "or", args |-> <<Cmp(Id(1), "lt", Val(Num(2))), [x |-> "in", a |-> Id(1), b |-> Prop(1, "p"), negated |-> TRUE]>>]>>,
     <<[x |-> "like", a |-> Prop(1, "s"), b |-> Val(StrValue(<<Percent, 2>>)), ci |-> TRUE, negated |-> FALSE]>>,
     <<And([x |-> "isnull", a |-> Prop(1, "l"), negated |-> TRUE], [x |-> "contains", a |-> Prop(1, "l"), b |-> Val(Num(3))])>>,
     <<[x |-> "or", args |-> <<[x |-> "startswith", a |-> Prop(1, "s"), b |-> Val(StrValue(<<1>>))],
                               [x |-> "endswith", a |-> Prop(1, "s"), b |-> Val(StrValue(<<12>>))]>>]>>,
     <<Cmp([x |-> "type", var |-> 8], "eq", Val(StrValue(<<2>>)))>>, <<Cmp([x |-> "label", var |-> 1], "eq", Val(StrValue(A)))>>,
     <<Cmp(Var(1), "eq", Var(2))>>}

Column(i, desc) == [expr |-> <<>>, column |-> i, desc |-> desc]
Item(x) == [agg |-> <<>>, arg |-> <<x>>]
Agg(f, x) == [agg |-> <<f>>, arg |-> <<x>>]
Returns ==
    {[distinct |-> FALSE, returns |-> <<>>, order |-> <<>>, skip |-> <<>>, limit |-> <<>>],
     [distinct |-> FALSE, returns |-> <<Item(Id(1)), Item(Prop(1, "s"))>>, order |-> <<>>, skip |-> <<1>>, limit |-> <<2>>],
     [distinct |-> FALSE, returns |-> <<Item(Id(1))>>, order |-> <<Column(1, TRUE)>>, skip |-> <<1>>, limit |-> <<1>>],
     [distinct |-> TRUE, returns |-> <<Item(Prop(1, "p"))>>, skip |-> <<>>, limit |-> <<1>>,
      order |-> <<[expr |-> <<Prop(1, "s")>>, column |-> 0, desc |-> FALSE]>>],
     [distinct |-> FALSE, returns |-> <<Item(Prop(1, "p")), [agg |-> <<"count">>, arg |-> <<>>], Agg("sum", Prop(1, "p"))>>,
      order |-> <<Column(2, TRUE)>>, skip |-> <<>>, limit |-> <<2>>],
     [distinct |-> FALSE, returns |-> <<[agg |-> <<"count">>, arg |-> <<>>], Agg("max", Prop(1, "s")), Agg("avg", Id(1)),
                                        Agg("collect", Var(1)), Agg("count", Prop(1, "l")), Agg("sum", Id(1))>>,
      order |-> <<>>, skip |-> <<0>>, limit |-> <<>>],
     [distinct |-> FALSE, returns |-> <<Agg("sum", Prop(1, "s"))>>, order |-> <<>>, skip |-> <<>>, limit |-> <<>>],
     [distinct |-> FALSE, returns |-> <<Item(Var(9))>>, order |-> <<>>, skip |-> <<>>, limit |-> <<0>>],
     [distinct |-> FALSE, returns |-> <<Item(Id(1))>>, order |-> <<>>, skip |-> <<>>, limit |-> <<-1>>]}

\* Every filter is asked with the first two returns, every return with three
\* filters.
Crossed == {<<>>, <<Cmp(Id(1), "eq", Val(Num(2)))>>, <<Cmp(Prop(1, "p"), "eq", Val(Null))>>}
Streaming == {r \in Returns : ~r.distinct /\ r.order = <<>> /\ (r.returns = <<>> \/ r.skip = <<1>>)}
QueryOf(p, f, r) ==
    [nodes |-> p.nodes, rels |-> p.rels, filter |-> f, distinct |-> r.distinct, returns |-> r.returns,
     order |-> r.order, skip |-> r.skip, limit |-> r.limit]
MatchesAsked(seed) ==
    {[g |-> Graph(<<seed, x, 4>>, k > 1, k = 3), q |-> QueryOf(p, a[1], a[2])] :
        x \in {1, 2, 5}, k \in 1..3, p \in Patterns,
        a \in {b \in Filters \X Returns : b[1] \in Crossed \/ b[2] \in Streaming}}

\* Three rows; column n, indexed or not, names nodes that are there, are gone
\* or never were.
Column3(seed) == CASE seed = 1 -> <<2, 2, -8>> [] seed = 2 -> <<7, 0, 0>> [] seed = 3 -> <<1, 7, 1>>
Table(seed, indexed) ==
    [kind |-> [c \in {"id", "s", "n", "l"} |-> CASE c = "s" -> "str" [] c = "l" -> "list" [] OTHER -> "int"],
     columns |-> <<"s", "id", "n", "l">>, pk |-> "id", indexed |-> indexed,
     rows |-> [pk \in {<<-8>>, <<2>>, <<7>>} |->
        CASE pk[1] = -8 -> [n |-> Num(Column3(seed)[1]), s |-> StrValue(<<1, 2>>)]
          [] pk[1] = 2 -> [n |-> Num(Column3(seed)[2]), s |-> StrValue(<<11>>), l |-> ListValue(<<Num(3)>>)]
          [] pk[1] = 7 -> IF seed = 2 THEN [s |-> StrValue(<<2>>)] ELSE [n |-> Num(Column3(seed)[3]), s |-> StrValue(<<1, 2>>)]],
     stale |-> {[col |-> "n", v |-> Num(2), pk |-> <<7>>], [col |-> "n", v |-> Num(1), pk |-> <<5>>]}]
JoinsAsked(seed) ==
    {[g |-> [label |-> [n \in ns |-> A]], t |-> Table(seed, i), ids |-> ids, col |-> c] :
        ns \in {{}, {0, 7}, {1, 2, 7}}, i \in {<<>>, <<"s", "n">>}, c \in {"id", "n", "s", "missing"},
        ids \in UNION {[1..k -> {0, 1, 2, 7, 8}] : k \in 0..2}}

Ref(col) == [col |-> col, path |-> <<>>]
Leaves ==
    {[x |-> "like", ref |-> Ref("s"), v |-> StrValue(p), ci |-> ci, negated |-> n] :
        p \in {<<1, Percent>>, <<Percent>>, <<Underscore, Percent>>, <<1, Percent, Percent>>, <<11>>, <<>>},
        ci \in BOOLEAN, n \in BOOLEAN} \cup
    {[x |-> "between", ref |-> Ref("n"), low |-> Num(a), high |-> Num(b), negated |-> n] :
        a \in {-8, 1}, b \in {0, 7}, n \in BOOLEAN} \cup
    {[x |-> "in", ref |-> Ref("n"), vs |-> <<Num(2), Null>>, negated |-> n] : n \in BOOLEAN} \cup
    {[x |-> "isnull", ref |-> Ref("n"), negated |-> n] : n \in BOOLEAN} \cup
    {[x |-> "cmp", ref |-> Ref("id"), op |-> "gt", v |-> Num(-8)], [x |-> "contains", ref |-> Ref("l"), v |-> Num(3)],
     [x |-> "like", ref |-> Ref("s"), v |-> Num(2), ci |-> FALSE, negated |-> FALSE],
     [x |-> "cmp", ref |-> Ref("missing"), op |-> "eq", v |-> Num(2)]}
Col(c, alias) == [item |-> "column", ref |-> Ref(c), alias |-> alias]
AggItem(f, col, alias) == [item |-> "agg", f |-> f, col |-> col, alias |-> alias]
Star == [item |-> "star"]
Shapes ==
    {[items |-> <<Star>>, by |-> <<>>, order |-> <<>>, limit |-> <<2>>, offset |-> <<1>>],
     [items |-> <<Col("s", <<>>), [Col("l", <<>>) EXCEPT !.ref.path = <<1>>]>>, by |-> <<>>,
      order |-> <<[ref |-> Ref("n"), desc |-> TRUE]>>, limit |-> <<2>>, offset |-> <<>>],
     [items |-> <<Col("missing", <<>>)>>, by |-> <<>>, order |-> <<>>, limit |-> <<>>, offset |-> <<>>],
     [items |-> <<Col("id", <<>>)>>, by |-> <<>>, order |-> <<>>, limit |-> <<-1>>, offset |-> <<>>],
     [items |-> <<AggItem("count", <<>>, <<>>), AggItem("sum", <<"n">>, <<>>)>>, by |-> <<>>, order |-> <<>>, limit |-> <<>>, offset |-> <<>>],
     [items |-> <<AggItem("count", <<>>, <<Ref("s")>>), Col("s", <<>>), AggItem("min", <<"id">>, <<>>)>>, by |-> <<Ref("n"), Ref("s")>>,
      order |-> <<[ref |-> Ref("s"), desc |-> TRUE], [ref |-> Ref("min(id)"), desc |-> FALSE]>>, limit |-> <<2>>, offset |-> <<>>],
     [items |-> <<Col("n", <<Ref("m")>>), AggItem("count", <<>>, <<>>), AggItem("max", <<"s">>, <<>>)>>, by |-> <<Ref("n")>>,
      order |-> <<[ref |-> Ref("n"), desc |-> TRUE]>>, limit |-> <<1>>, offset |-> <<1>>],
     [items |-> <<Col("n", <<>>), AggItem("count", <<>>, <<>>)>>, by |-> <<Ref("n")>>,
      order |-> <<[ref |-> Ref("id"), desc |-> TRUE]>>, limit |-> <<>>, offset |-> <<>>],
     [items |-> <<Star, AggItem("count", <<>>, <<>>)>>, by |-> <<Ref("n")>>, order |-> <<>>, limit |-> <<>>, offset |-> <<>>],
     [items |-> <<AggItem("sum", <<>>, <<>>)>>, by |-> <<>>, order |-> <<>>, limit |-> <<>>, offset |-> <<>>],
     [items |-> <<Col("s", <<>>)>>, by |-> <<Ref("n")>>, order |-> <<>>, limit |-> <<>>, offset |-> <<>>]}
Statement(s, filter) ==
    [items |-> s.items, by |-> s.by, order |-> s.order, limit |-> s.limit, offset |-> s.offset, filter |-> filter]
SelectsAsked(seed) ==
    {[t |-> Table(seed, i), sel |-> Statement(s, f)] :
        i \in {<<>>, <<"s", "n">>}, s \in Shapes,
        f \in {<<>>} \cup {<<a>> : a \in Leaves} \cup {<<[x |-> "not", arg |-> a]>> : a \in Leaves}
              \cup {<<[x |-> o, args |-> <<a, [x |-> "between", ref |-> Ref("n"), low |-> Num(1), high |-> Num(7), negated |-> FALSE]>>]>> :
                       a \in Leaves, o \in {"and", "or"}}}

=============================================================================
