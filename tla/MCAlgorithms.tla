---------------------------- MODULE MCAlgorithms ----------------------------
(***************************************************************************)
(* Algorithms over bounded inputs, divided by three seeds.                 *)
(***************************************************************************)
EXTENDS Algorithms

MCSeeds == 1..3

\* Every graph of four nodes and four edges between seven pairs of nodes, the
\* first edge at node 1: parallel edges, cycles, a loop, unreachable nodes, an
\* edge whose weight is invalid.
Ends == <<<<1, 2>>, <<1, 3>>, <<4, 1>>, <<2, 3>>, <<2, 4>>, <<3, 4>>, <<2, 2>>>>
SearchesAsked ==
    {[dir |-> "out", types |-> <<>>, w |-> -1], [dir |-> "out", types |-> <<>>, w |-> 0],
     [dir |-> "both", types |-> <<>>, w |-> 0], [dir |-> "in", types |-> <<<<1>>>>, w |-> 0],
     [dir |-> "out", types |-> <<<<2, 1>>>>, w |-> 0]}
MCGraphQueries(seed) ==
    {[g |-> [label |-> <<"a", "b", "a", "a">>,
             edge |-> [e \in 1..4 |->
                [from |-> Ends[f[e]][1], type |-> IF e = 2 THEN 2 ELSE 1, to |-> Ends[f[e]][2],
                 weight |-> CASE e = 1 -> <<1>> [] e = 2 -> <<5>> [] e = 3 -> <<>> [] e = 4 -> <<a.w>>]]],
      dir |-> a.dir, types |-> a.types] :
        f \in {x \in [1..4 -> 1..7] : x[1] = seed}, a \in SearchesAsked}

\* Three rows at the ends and in the middle of the keys; the seed chooses
\* what the rows hold: values at the ends, missing values, equal ones, lists.
Str(s) == [k |-> "str", v |-> s]
Num(n) == [k |-> "int", v |-> <<n>>]
List(s) == [k |-> "list", v |-> s]
Rows(seed) ==
    [pk \in {<<-8>>, <<2>>, <<7>>} |->
        CASE seed = 1 /\ pk[1] = -8 -> [s |-> Str(<<1>>), n |-> Num(7), l |-> List(<<Num(3), Num(1)>>)]
          [] seed = 1 /\ pk[1] = 2 -> [s |-> Str(<<1, 2>>), n |-> Num(-8), l |-> List(<<Num(3)>>)]
          [] seed = 1 /\ pk[1] = 7 -> [n |-> Num(3)]
          [] seed = 2 /\ pk[1] = -8 -> [s |-> Str(<<2>>), n |-> Num(3)]
          [] seed = 2 /\ pk[1] = 2 -> [s |-> Str(<<1, 2>>), l |-> List(<<Str(<<1>>), Num(3)>>)]
          [] seed = 2 /\ pk[1] = 7 -> [s |-> Str(<<2>>), n |-> Num(-8)]
          [] seed = 3 /\ pk[1] = -8 -> [n |-> Num(7), l |-> List(<<>>)]
          [] seed = 3 /\ pk[1] = 2 -> [s |-> Str(<<>>), n |-> Num(7)]
          [] seed = 3 /\ pk[1] = 7 -> [s |-> Str(<<1>>), n |-> Num(-8)]]
MCTable(seed) ==
    [kind |-> [c \in {"id", "s", "n", "l"} |-> CASE c = "s" -> "str" [] c = "l" -> "list" [] OTHER -> "int"],
     pk |-> "id", indexed |-> <<"s", "n">>, rows |-> Rows(seed),
     stale |-> {[col |-> "n", v |-> Num(3), pk |-> <<2>>], [col |-> "n", v |-> Num(3), pk |-> <<5>>]}]

Cmp(c, op, v) == [x |-> "cmp", ref |-> Ref(c), op |-> op, v |-> v]
In(c, vs) == [x |-> "in", ref |-> Ref(c), vs |-> vs]
Leaves ==
    {Cmp("id", "eq", Num(2)), Cmp("id", "gt", Num(-8)), Cmp("id", "lt", Num(7)), Cmp("id", "gt", Num(7)),
     Cmp("id", "ge", [k |-> "float", v |-> <<2>>]), In("id", <<Num(7), Num(2), Num(7)>>), In("id", <<>>),
     Cmp("n", "eq", Num(3)), Cmp("n", "ne", Num(3)), Cmp("n", "gt", Num(-8)), Cmp("n", "le", Num(3)), Cmp("n", "lt", Num(7)),
     Cmp("n", "ge", Num(3)), Cmp("n", "eq", Null), In("n", <<Num(7), Num(3), Num(-8)>>), In("n", <<Num(7), Null>>),
     Cmp("s", "eq", Str(<<1>>)), Cmp("s", "ge", Str(<<1>>)), Cmp("s", "lt", Str(<<2>>)), Cmp("s", "eq", Str(<<1, 0>>)),
     [x |-> "prefix", ref |-> Ref("s"), p |-> <<1>>], [x |-> "prefix", ref |-> Ref("s"), p |-> <<>>],
     [x |-> "prefix", ref |-> Ref("s"), p |-> <<0>>], [x |-> "contains", ref |-> Ref("s"), v |-> Str(<<2>>)],
     [x |-> "like", ref |-> Ref("s"), p |-> <<Underscore, Percent>>, ci |-> TRUE],
     [x |-> "isnull", ref |-> Ref("s")], [x |-> "isnotnull", ref |-> Ref("n")],
     [x |-> "contains", ref |-> Ref("l"), v |-> Num(3)], Cmp("l", "ge", List(<<Num(3)>>)),
     [x |-> "cmp", ref |-> [col |-> "l", path |-> <<1>>], op |-> "eq", v |-> Num(3)],
     Cmp("missing", "eq", Num(2))}
MCTableQueries(seed) ==
    {[t |-> MCTable(seed), filters |-> f] :
        f \in {<<>>} \cup {<<a>> : a \in Leaves}
              \cup {<<a, b>> : a \in Leaves, b \in Leaves}
              \cup {<<[x |-> "not", arg |-> a]>> : a \in Leaves}
              \cup {<<[x |-> "or", args |-> <<a, Cmp("n", "eq", Num(7))>>]>> : a \in Leaves}
              \cup {<<[x |-> "and", args |-> <<a, [x |-> "and", args |-> <<b>>]>>]>> :
                       a \in {x \in Leaves : x.ref.col = "n"}, b \in {x \in Leaves : x.ref.col = "id"}}}

\* Six points on a line, apart or all equal, added in several orders on one to
\* three layers, two removed and one added again, with room for two links a
\* node above layer 0; then an insert of two dimensions that is refused, the
\* same row with one, an update that is refused, and one more removal.
Places(k, step) == [i \in 1..6 |-> (k + i * step) % 7]
LevelOf(l, i) == CASE l = 1 -> IF i = 2 THEN 2 ELSE i % 2 [] l = 2 -> 1 [] l = 3 -> IF i = 1 THEN 1 ELSE 0
Change(seed, pk, vec) == [pk |-> pk, level |-> LevelOf(seed, pk), vec |-> vec]
MCVectorIndexes(seed) ==
    {[m |-> 2, efc |-> efc, q |-> <<3>>, keep |-> {1, 5},
      changes |-> [i \in 1..6 |-> Change(seed, i, << <<Places(k, step)[i]>> >>)]
                  \o SubSeq(<<Change(seed, a, <<>>), Change(seed, b, <<>>), Change(seed, a, << <<k>> >>),
                              Change(seed, b, << <<k, k>> >>), Change(seed, b, << <<k>> >>),
                              Change(seed, a, << <<k, k>> >>), Change(seed, b, <<>>)>>, 1, n)] :
        k \in 0..6, step \in 0..5, efc \in {1, 4}, a \in 1..6, b \in 1..3, n \in {1, 2, 5, 7}}

MCLikings(seed) ==
    {[t |-> t, p |-> p] : t \in {x \in UNION {[1..n -> {1, 2, 11}] : n \in 0..4} : Len(x) % 3 = seed - 1},
                          p \in UNION {[1..n -> {1, 2, Percent, Underscore}] : n \in 0..4}}

\* Base 4, Width 2: integers -8..7, strings over two letters.
Strs == UNION {[1..n -> {1, 2}] : n \in 0..2}
MCValueKeys(seed) ==
    {[kind |-> "int", v |-> v, w |-> w, pkKind |-> p.kind, pk |-> p.pk] :
        v \in {x \in -8..7 : seed = 1}, w \in -8..7,
        p \in {[kind |-> "str", pk |-> <<>>], [kind |-> "str", pk |-> <<2>>]}} \cup
    {[kind |-> "str", v |-> v, w |-> w, pkKind |-> "int", pk |-> pk] :
        v \in {x \in Strs : seed = 2}, w \in Strs, pk \in {-8, 0, 7}} \cup
    {[kind |-> "uuid", v |-> v, w |-> w, pkKind |-> "str", pk |-> pk] :
        v \in {x \in [1..2 -> 0..3] : seed = 3}, w \in [1..2 -> 0..3], pk \in {<<>>, <<1>>}}
MCEdgeKeys(seed) ==
    {[k |-> [first |-> f, type |-> t, second |-> s, edge |-> e], node |-> n, type |-> u] :
        f \in {x \in {0, 3, 15} : x % 3 = seed - 1}, t \in Strs, s \in {0, 15}, e \in {0, 15}, n \in {0, 3, 15}, u \in Strs} \cup
    {[k |-> [first |-> 14, type |-> t, second |-> s, edge |-> e], node |-> n, type |-> u] :
        t \in {x \in Strs : seed = 2}, s \in {0, 15}, e \in {0, 15}, n \in {14, 15}, u \in Strs}
MCPropKeys(seed) ==
    {[k |-> [label |-> l, property |-> p, kind |-> "str", v |-> v, node |-> n], label |-> m, property |-> r, v |-> w] :
        l \in {<<1>>, <<1, 1>>}, p \in {x \in {<<1>>, <<1, 1>>} : Len(x) = seed}, v \in {<<>>, <<1>>, <<1, 2>>}, n \in {0, 15},
        m \in {<<1>>, <<1, 1>>}, r \in {<<1>>, <<1, 1>>}, w \in {<<>>, <<1>>, <<1, 2>>}} \cup
    {[k |-> [label |-> <<1>>, property |-> <<1>>, kind |-> "int", v |-> v, node |-> n], label |-> <<1>>, property |-> <<1>>, v |-> w] :
        v \in {x \in -8..7 : seed = 3}, n \in {0, 15}, w \in -8..7}
MCTableKeys(seed) ==
    {[table |-> t, key |-> k, other |-> o, otherKey |-> l] :
        t \in {x \in UNION {[1..n -> {1, 3}] : n \in 1..2} : Len(x) = seed}, o \in UNION {[1..n -> {1, 3}] : n \in 1..2},
        k \in UNION {[1..n -> {0, 3}] : n \in 0..2}, l \in UNION {[1..n -> {0, 3}] : n \in 0..2}}

\* Two SSTables over three keys of a table, the first block of the newer one
\* damaged or not, under a memtable and a transaction's own writes; another
\* table has a key on either side.
MCBaseHashes(key) == <<7 * Len(key) + key[Len(key)], 3 + key[Len(key)]>>
Held(f, v) == [k \in {EncodeKey(<<1>>, <<i>>) : i \in {j \in 1..3 : f[j] # 0}} |-> IF f[k[3]] = 1 THEN <<>> ELSE <<v>>]
Beside(f, v) ==
    [k \in DOMAIN Held(f, v) \cup {EncodeKey(<<>>, <<3>>), EncodeKey(<<1, 1>>, <<1>>)} |->
        IF k \in DOMAIN Held(f, v) THEN Held(f, v)[k] ELSE <<v>>]
MCSnapshots(seed) ==
    {[s |-> [mems |-> <<Held(c, 3)>>,
             ssts |-> <<[Write(Entries(Held(b, 2)), size) EXCEPT !.bad = d \cap DOMAIN Write(Entries(Held(b, 2)), size).blocks],
                        Write(Entries(Beside(a, 1)), size)>>],
      pending |-> p, blockSize |-> size] :
        a \in [1..3 -> {0, 2}], b \in [1..3 -> 0..2], c \in {<<0, 0, 0>>, <<1, 0, 2>>},
        p \in {<<>>, <<Held(<<0, 1, 2>>, 4)>>}, d \in {{}, {1}, {2}},
        size \in {CASE seed = 1 -> 0 [] seed = 2 -> 16 [] seed = 3 -> 100}}

MCCCalls(seed) == UNION {{[fn |-> fn, c |-> c] : c \in Calls(fn)} : fn \in {f \in Functions : Len(f.args) % 3 = seed - 1}}
Node(k, v) == [k |-> k, v |-> v]
Leaf(k, v) == [at \in {<<>>} |-> Node(k, v)]
Over(k, below) ==
    [at \in {<<>>} \cup UNION {{<<i>> \o x : x \in DOMAIN below[i]} : i \in DOMAIN below} |->
        IF at = <<>> THEN Node(k, 0) ELSE below[Head(at)][Tail(at)]]
Simple ==
    {Leaf("null", 0), Leaf("int", -8), Leaf("int", 7), Leaf("float", 3), Leaf("inf", 0), Leaf("bool", 1), Leaf("str", 5),
     Leaf("timestamp", 7), Leaf("uuid", 5), Over("bytes", <<Leaf("byte", 0), Leaf("byte", 7)>>), Over("bytes", <<>>)}
MCProps(seed) ==
    IF seed # 1 THEN {}
    ELSE Simple \cup {Over("list", <<a, b>>) : a \in Simple, b \in Simple}
                \cup {Over("map", <<a, Over("list", <<b>>)>>) : a \in Simple, b \in Simple}

Inputs == INSTANCE MCQueryInputs
MCMatchInputs(seed) == Inputs!MatchesAsked(seed)
MCJoinInputs(seed) == Inputs!JoinsAsked(seed)
MCSqlInputs(seed) == Inputs!SelectsAsked(seed)

=============================================================================
