-------------------------- MODULE RelationalProofs --------------------------
(***************************************************************************)
(* The relational table for every set of keys and values, every schema,    *)
(* batch of rows and change, with and without an automatic key.            *)
(*                                                                         *)
(* The properties are not inductive.  An index lookup is exact and a       *)
(* UNIQUE check sound only if the index has every row of the registered    *)
(* schema that can have a key in it (IndexComplete), index by index, as a  *)
(* statement that fails half way leaves some behind; a migration may keep  *)
(* an index only because the schema that named it was well formed (Built), *)
(* and a search index only because its column stays (SearchColumns).  A    *)
(* loop writes with a schema it resolved before, and automatic keys it     *)
(* reserved before: it is still the registered one, and those are above    *)
(* every row that was there when the statement began (LoopInv).            *)
(***************************************************************************)
EXTENDS Relational, FiniteSetTheorems, TLAPS

RowsTyped(t) ==
    \A k \in Live(t) : \A c \in Columns : t.rows[k][c] \in Dom(c) \cup {Null, Absent}

\* The index over c has every row that can have a key in it; no two rows
\* have the same value of c.
Covers(t, c) ==
    \A k \in Live(t) : Keyable(t.rows[k], c) => <<c, t.rows[k][c], k>> \in t.idx
Distinct(t, c) ==
    \A j, k \in Live(t) : j # k /\ Indexable(t.rows[j], c) => t.rows[j][c] # t.rows[k][c]

IndexComplete(t) == t.def # None => \A c \in t.def.indexed \ t.torn : Covers(t, c)
UniqueRows(t) == t.def # None => \A c \in t.def.unique \ t.torn : Distinct(t, c)

\* The rows, the schema and the indexes.
RowsInv(t) ==
    /\ t \in Table
    /\ RowsTyped(t)
    /\ t.def # None => Built(t.def)
    /\ IndexComplete(t) /\ UniqueRows(t)
    /\ AutoIncrement => \A k \in Live(t) : k < t.next

SearchColumns(t) ==
    /\ t.fts # None => t.def # None /\ "s" \in t.def.cols
    /\ t.ann # None => t.def # None /\ "v" \in t.def.cols

\* The nodes of a vector index, and what they are for the rows of a table.
AnnNodes(x) == {k \in Pks : x.node[k] # None}
VecOf(row) == IF Cell(row, "v") \in Vecs /\ ~Unindexed(row["v"]) THEN row["v"] ELSE None
AnnExact(x, rows) ==
    /\ x.count = Cardinality(AnnNodes(x))
    /\ \A k \in Pks : x.node[k] = VecOf(rows[k])
    /\ \A k \in AnnNodes(x) : Len(x.node[k]) = x.dim

SearchExact(t) ==
    /\ "fts" \notin t.torn /\ t.fts # None => t.fts = FtsOf(t)
    /\ "ann" \notin t.torn /\ t.ann # None => AnnExact(t.ann, t.rows)

TableInv(t) == RowsInv(t) /\ SearchColumns(t) /\ SearchExact(t)

\* The automatic keys an insert has left to give.
Ahead == Block(stmt.next, ToAllocate(stmt.todo))

LoopInv ==
    /\ stmt.op \in {"insert", "rewrite"} => Built(stmt.sch) /\ work.def \in {None, stmt.sch}
    /\ stmt.op = "insert" =>
           /\ Ahead \subseteq Pks /\ stmt.base <= stmt.next
           /\ stmt.next + ToAllocate(stmt.todo) <= work.next
           /\ AutoIncrement => \A k \in Live(work) : k < stmt.base \/ k \in stmt.mine

IInv == TypeOK /\ TableInv(db) /\ TableInv(work) /\ LoopInv

-----------------------------------------------------------------------------
\* Finite sets of integers have a least and a greatest element.

LEMMA FiniteHasLeast ==
  ASSUME NEW S \in SUBSET Int, IsFiniteSet(S), S # {}
  PROVE  \E m \in S : \A j \in S : m <= j
<1> DEFINE Has(T) == \E m \in T : \A j \in T : m <= j
           Bad == {T \in FiniteSubsetsOf(S) : T # {} /\ ~Has(T)}
<1>1. SUFFICES Bad = {}
  <2>1. S \in FiniteSubsetsOf(S)
    BY DEF FiniteSubsetsOf
  <2> QED
    BY <1>1, <2>1
<1>2. SUFFICES ASSUME Bad # {} PROVE FALSE
  OBVIOUS
<1>3. PICK T \in Bad : \A U \in Bad : ~(<<U, T>> \in StrictSubsetOrdering(S))
  <2>1. IsWellFoundedOn(StrictSubsetOrdering(S), FiniteSubsetsOf(S))
    BY FS_StrictSubsetOrderingWellFounded
  <2>2. Bad \subseteq FiniteSubsetsOf(S)
    OBVIOUS
  <2> HIDE DEF Bad
  <2> QED
    BY <1>2, <2>1, <2>2, WFMin
<1>4. T \subseteq S /\ IsFiniteSet(T) /\ T # {} /\ ~Has(T)
  BY DEF FiniteSubsetsOf
<1>5. PICK x \in T : TRUE
  BY <1>4
<1> DEFINE U == T \ {x}
<1>6. U \subseteq S /\ IsFiniteSet(U)
  BY <1>4, FS_Subset
<1>7. <<U, T>> \in StrictSubsetOrdering(S)
  BY <1>4, <1>5, <1>6 DEF StrictSubsetOrdering
<1>8. U = {} \/ Has(U)
  BY <1>3, <1>6, <1>7 DEF FiniteSubsetsOf
<1>9. CASE U = {}
  <2>1. T = {x}
    BY <1>5, <1>9
  <2> QED
    BY <1>4, <1>5, <2>1
<1>10. CASE Has(U)
  <2>1. PICK m \in U : \A j \in U : m <= j
    BY <1>10
  <2>2. m \in Int /\ x \in Int /\ \A j \in T : j \in Int
    BY <1>4, <1>5
  <2>3. CASE m <= x
    BY <1>4, <2>1, <2>2, <2>3
  <2>4. CASE ~(m <= x)
    <3>1. \A j \in T : x <= j
      BY <2>1, <2>2, <2>4
    <3> QED
      BY <1>4, <1>5, <3>1
  <2> QED
    BY <2>3, <2>4
<1> QED
  BY <1>8, <1>9, <1>10

LEMMA FiniteHasGreatest ==
  ASSUME NEW S \in SUBSET Int, IsFiniteSet(S), S # {}
  PROVE  \E m \in S : \A j \in S : j <= m
<1> DEFINE N == {-j : j \in S}
           f == [j \in S |-> -j]
<1>1. f \in Surjection(S, N)
  BY DEF Surjection
<1>2. IsFiniteSet(N) /\ N \in SUBSET Int /\ N # {}
  BY <1>1, FS_Surjection
<1>3. PICK m \in N : \A j \in N : m <= j
  BY <1>2, FiniteHasLeast
<1>4. PICK k \in S : m = -k
  BY <1>3
<1>5. ASSUME NEW j \in S PROVE j <= k
  BY <1>3, <1>4
<1> QED
  BY <1>5

LEMMA PksFinite ==
  /\ Half \in Nat \ {0} /\ IsFiniteSet(Pks) /\ Pks \subseteq Int
  /\ \A k \in Pks : -Half <= k /\ k < Half
<1>1. Half \in Nat \ {0} /\ Pks \subseteq (-Half) .. (Half - 1)
  BY RelationalAssumption
<1>2. -Half \in Int /\ Half - 1 \in Int
  BY <1>1
<1>3. IsFiniteSet((-Half) .. (Half - 1))
  BY <1>2, FS_Interval
<1>4. IsFiniteSet(Pks)
  BY <1>1, <1>3, FS_Subset
<1> QED
  BY <1>1, <1>4

LEMMA LeastIn ==
  ASSUME NEW S \in SUBSET Pks, S # {}
  PROVE  Least(S) \in S /\ \A j \in S : Least(S) <= j
<1>1. S \in SUBSET Int /\ IsFiniteSet(S)
  BY PksFinite, FS_Subset
<1>2. \E m \in S : \A j \in S : m <= j
  BY <1>1, FiniteHasLeast
<1> QED
  BY <1>2 DEF Least

-----------------------------------------------------------------------------
\* How many automatic keys a batch needs.

LEMMA AllocationType ==
  ASSUME NEW items \in Seq(Item)
  PROVE  ToAllocate(items) \in Nat /\ IsFiniteSet({i \in DOMAIN items : Allocates(items[i])})
<1>1. DOMAIN items = 1 .. Len(items) /\ Len(items) \in Nat
  OBVIOUS
<1>2. IsFiniteSet(DOMAIN items)
  BY <1>1, FS_Interval
<1>3. IsFiniteSet({i \in DOMAIN items : Allocates(items[i])})
  BY <1>2, FS_Subset
<1> QED
  BY <1>3, FS_CardinalityType DEF ToAllocate

LEMMA AllocationOfNone ==
  ASSUME NEW items \in Seq(Item), \A i \in DOMAIN items : ~Allocates(items[i])
  PROVE  ToAllocate(items) = 0
<1>1. {i \in DOMAIN items : Allocates(items[i])} = {}
  OBVIOUS
<1> QED
  BY <1>1, FS_EmptySet DEF ToAllocate

LEMMA AllocationStep ==
  ASSUME NEW items \in Seq(Item), items # <<>>
  PROVE  /\ Head(items) \in Item /\ Tail(items) \in Seq(Item)
         /\ ToAllocate(items) =
                ToAllocate(Tail(items)) + (IF Allocates(Head(items)) THEN 1 ELSE 0)
<1> DEFINE rest == Tail(items)
           A == {i \in DOMAIN items : Allocates(items[i])}
           B == {i \in DOMAIN rest : Allocates(rest[i])}
           f == [i \in B |-> i + 1]
<1>1. /\ Head(items) \in Item /\ rest \in Seq(Item)
      /\ Len(items) \in Nat \ {0} /\ Len(rest) = Len(items) - 1
      /\ DOMAIN items = 1 .. Len(items) /\ DOMAIN rest = 1 .. Len(rest)
      /\ Head(items) = items[1] /\ \A i \in 1 .. Len(rest) : rest[i] = items[i + 1]
  OBVIOUS
<1> HIDE DEF rest
<1>2. IsFiniteSet(A) /\ IsFiniteSet(B) /\ Cardinality(B) \in Nat
  BY <1>1, AllocationType, FS_CardinalityType
<1>3. f \in Bijection(B, A \ {1})
  <2>1. \A i \in B : i \in Nat /\ i + 1 \in A \ {1}
    BY <1>1
  <2>2. \A j \in A \ {1} : j - 1 \in B /\ (j - 1) + 1 = j
    BY <1>1
  <2>3. \A i, j \in B : i + 1 = j + 1 => i = j
    BY <2>1
  <2> HIDE DEF A, B
  <2>4. f \in [B -> A \ {1}] /\ \A i \in B : f[i] = i + 1
    BY <2>1
  <2>5. \A i, j \in B : f[i] = f[j] => i = j
    BY <2>3, <2>4
  <2>6. \A j \in A \ {1} : \E i \in B : f[i] = j
    BY <2>2, <2>4
  <2> HIDE DEF f
  <2> QED
    BY <2>4, <2>5, <2>6 DEF Bijection, Injection, Surjection, IsInjective
<1>4. Cardinality(A \ {1}) = Cardinality(B)
  BY <1>2, <1>3, FS_Bijection DEF ExistsBijection
<1>5. 1 \in A <=> Allocates(Head(items))
  BY <1>1
<1> HIDE DEF A, B, f
<1>6. Cardinality(A) = Cardinality(B) + (IF Allocates(Head(items)) THEN 1 ELSE 0)
  <2>1. Cardinality(A \ {1}) = IF 1 \in A THEN Cardinality(A) - 1 ELSE Cardinality(A)
    BY <1>2, FS_RemoveElement
  <2>2. Cardinality(A) \in Nat
    BY <1>2, FS_CardinalityType
  <2> QED
    BY <1>2, <1>4, <1>5, <2>1, <2>2
<1> QED
  BY <1>1, <1>6 DEF ToAllocate, A, B, rest

-----------------------------------------------------------------------------
\* The full-text index, as a function of the texts of the rows.

Txt(rows) == [k \in Pks |-> TextOf(rows[k])]
With(x) == {k \in Pks : x[k] # None}
Postings(x) ==
    {e \in Tokens \X Pks \X Nat :
        /\ e[2] \in With(x) /\ e[1] \in TokenSet(x[e[2]])
        /\ e[3] = Frequency(x[e[2]], e[1])}
Lengths(x) == [k \in Pks |-> IF k \in With(x) THEN Len(x[k]) ELSE None]
Places(x) == {p \in With(x) \X Nat : p[2] \in DOMAIN x[p[1]]}
FtsFor(x) == [post |-> Postings(x), len |-> Lengths(x),
              docs |-> Cardinality(With(x)), terms |-> Cardinality(Places(x))]

LEMMA TextFacts ==
  ASSUME NEW text \in Texts
  PROVE  /\ text # None /\ Len(text) \in Nat /\ DOMAIN text = 1 .. Len(text)
         /\ TokenSet(text) \subseteq Tokens
         /\ \A tok : Frequency(text, tok) \in Nat
<1>1. text \in Seq(Tokens) /\ text # None
  BY RelationalAssumption
<1>2. Len(text) \in Nat /\ DOMAIN text = 1 .. Len(text)
  BY <1>1
<1>3. TokenSet(text) \subseteq Tokens
  BY <1>1 DEF TokenSet
<1>4. ASSUME NEW tok PROVE Frequency(text, tok) \in Nat
  <2>1. IsFiniteSet(DOMAIN text)
    BY <1>2, FS_Interval
  <2>2. IsFiniteSet({i \in DOMAIN text : text[i] = tok})
    BY <2>1, FS_Subset
  <2> QED
    BY <2>2, FS_CardinalityType DEF Frequency
<1> QED
  BY <1>1, <1>2, <1>3, <1>4

LEMMA TxtFacts ==
  ASSUME NEW rows \in [Pks -> Row \cup {None}]
  PROVE  /\ Txt(rows) \in [Pks -> Texts \cup {None}]
         /\ \A k \in Pks : Txt(rows)[k] # None =>
                rows[k] # None /\ rows[k]["s"] = Txt(rows)[k] /\ Txt(rows)[k] \in Texts
<1>1. ASSUME NEW k \in Pks
      PROVE  /\ TextOf(rows[k]) \in Texts \cup {None}
             /\ TextOf(rows[k]) # None => /\ rows[k] # None /\ TextOf(rows[k]) \in Texts
                                          /\ rows[k]["s"] = TextOf(rows[k])
  BY RelationalAssumption DEF TextOf, Cell
<1> QED
  BY <1>1 DEF Txt

LEMMA PlacesFinite ==
  ASSUME NEW x \in [Pks -> Texts \cup {None}]
  PROVE  IsFiniteSet(With(x)) /\ IsFiniteSet(Places(x))
<1>1. IsFiniteSet(With(x))
  BY PksFinite, FS_Subset DEF With
<1> DEFINE f == [k \in With(x) |-> {k} \X DOMAIN x[k]]
           U == {f[k] : k \in With(x)}
<1>2. \A T \in U : IsFiniteSet(T)
  <2>1. ASSUME NEW k \in With(x) PROVE IsFiniteSet({k} \X DOMAIN x[k])
    <3>1. x[k] \in Texts
      BY DEF With
    <3>2. IsFiniteSet(DOMAIN x[k])
      BY <3>1, TextFacts, FS_Interval
    <3>3. IsFiniteSet({k})
      BY FS_Singleton
    <3> QED
      BY <3>2, <3>3, FS_Product
  <2> QED
    BY <2>1
<1>3. IsFiniteSet(U)
  <2>1. f \in Surjection(With(x), U)
    BY DEF Surjection
  <2> HIDE DEF f, U
  <2> QED
    BY <1>1, <2>1, FS_Surjection
<1>4. IsFiniteSet(UNION U)
  <2> HIDE DEF U
  <2> QED
    BY <1>2, <1>3, FS_UNION
<1>5. Places(x) \subseteq UNION U
  <2>1. ASSUME NEW p \in Places(x) PROVE p \in f[p[1]] /\ p[1] \in With(x)
    BY DEF Places
  <2> QED
    BY <2>1
<1> QED
  BY <1>1, <1>4, <1>5, FS_Subset

LEMMA FtsForTyped ==
  ASSUME NEW x \in [Pks -> Texts \cup {None}]
  PROVE  FtsFor(x) \in Fts
<1>1. Cardinality(With(x)) \in Nat /\ Cardinality(Places(x)) \in Nat
  BY PlacesFinite, FS_CardinalityType
<1>2. Postings(x) \subseteq Tokens \X Pks \X Nat
  BY DEF Postings
<1>3. Lengths(x) \in [Pks -> Nat \cup {None}]
  BY TextFacts DEF Lengths, With
<1> QED
  BY <1>1, <1>2, <1>3 DEF FtsFor, Fts

\* What create_fulltext_index_in builds.
LEMMA FtsOfRows ==
  ASSUME NEW t, t.rows \in [Pks -> Row \cup {None}]
  PROVE  FtsOf(t) = FtsFor(Txt(t.rows))
<1> DEFINE x == Txt(t.rows)
           W == {k \in Live(t) : TextOf(t.rows[k]) # None}
           P == UNION {{<<tok, k, Frequency(t.rows[k]["s"], tok)>> :
                            tok \in TokenSet(t.rows[k]["s"])} : k \in W}
           L == [k \in Pks |-> IF k \in W THEN Len(t.rows[k]["s"]) ELSE None]
           Q == UNION {{<<k, i>> : i \in DOMAIN t.rows[k]["s"]} : k \in W}
<1>1. /\ x \in [Pks -> Texts \cup {None}] /\ \A k \in Pks : x[k] = TextOf(t.rows[k])
      /\ \A k \in Pks : x[k] # None => /\ t.rows[k] # None /\ t.rows[k]["s"] = x[k]
                                       /\ x[k] \in Texts
  BY TxtFacts DEF Txt
<1>2. W = With(x) /\ \A k \in W : t.rows[k]["s"] = x[k] /\ x[k] \in Texts /\ k \in Pks
  BY <1>1 DEF With, Live
<1>3. FtsOf(t) = [post |-> P, len |-> L, docs |-> Cardinality(W), terms |-> Cardinality(Q)]
  BY DEF FtsOf
<1> HIDE DEF x, W
<1>4. P = Postings(x)
  <2>1. ASSUME NEW e \in P PROVE e \in Postings(x)
    <3>1. PICK k \in W : e \in {<<tok, k, Frequency(t.rows[k]["s"], tok)>> :
                                     tok \in TokenSet(t.rows[k]["s"])}
      BY <2>1
    <3>2. PICK tok \in TokenSet(x[k]) : e = <<tok, k, Frequency(x[k], tok)>>
      BY <1>2, <3>1
    <3>3. tok \in Tokens /\ Frequency(x[k], tok) \in Nat /\ k \in Pks /\ k \in With(x)
      BY <1>2, <3>2, TextFacts
    <3> QED
      BY <3>2, <3>3 DEF Postings
  <2>2. ASSUME NEW e \in Postings(x) PROVE e \in P
    <3>1. /\ e[2] \in W /\ e[1] \in TokenSet(x[e[2]]) /\ e = <<e[1], e[2], e[3]>>
          /\ e[3] = Frequency(x[e[2]], e[1]) /\ x[e[2]] = t.rows[e[2]]["s"]
      BY <1>2, <2>2 DEF Postings
    <3>2. e \in {<<tok, e[2], Frequency(t.rows[e[2]]["s"], tok)>> :
                     tok \in TokenSet(t.rows[e[2]]["s"])}
      BY <3>1
    <3> QED
      BY <3>1, <3>2
  <2> QED
    BY <2>1, <2>2
<1>5. L = Lengths(x)
  BY <1>2 DEF Lengths
<1>6. Q = Places(x)
  <2>1. ASSUME NEW p \in Q PROVE p \in Places(x)
    <3>1. PICK k \in W : p \in {<<k, i>> : i \in DOMAIN t.rows[k]["s"]}
      BY <2>1
    <3>2. PICK i \in DOMAIN x[k] : p = <<k, i>>
      BY <1>2, <3>1
    <3>3. i \in Nat /\ k \in With(x)
      BY <1>2, <3>2, TextFacts
    <3> QED
      BY <3>2, <3>3 DEF Places
  <2>2. ASSUME NEW p \in Places(x) PROVE p \in Q
    <3>1. p[1] \in W /\ p = <<p[1], p[2]>> /\ p[2] \in DOMAIN t.rows[p[1]]["s"]
      BY <1>2, <2>2 DEF Places
    <3>2. p \in {<<p[1], i>> : i \in DOMAIN t.rows[p[1]]["s"]}
      BY <3>1
    <3> QED
      BY <3>1, <3>2
  <2> QED
    BY <2>1, <2>2
<1> HIDE DEF P, L, Q
<1> QED
  BY <1>2, <1>3, <1>4, <1>5, <1>6 DEF FtsFor, x

\* One more text: index_text with either sign moves between the two indexes.
LEMMA TextAdded ==
  ASSUME NEW x \in [Pks -> Texts \cup {None}], NEW k \in Pks, x[k] = None,
         NEW text \in Texts
  PROVE  LET y == [x EXCEPT ![k] = text]
         IN  /\ IndexText(FtsFor(x), k, text) = FtsFor(y)
             /\ Unindex(FtsFor(y), k, text) = FtsFor(x)
<1> DEFINE y == [x EXCEPT ![k] = text]
           new == {<<tok, k, Frequency(text, tok)>> : tok \in TokenSet(text)}
           here == {k} \X (1 .. Len(text))
           Off(S) == {e \in S : e[2] # k \/ e[1] \notin TokenSet(text)}
<1> SUFFICES /\ IndexText(FtsFor(x), k, text) = FtsFor(y)
             /\ Unindex(FtsFor(y), k, text) = FtsFor(x)
  OBVIOUS
<1>1. /\ y \in [Pks -> Texts \cup {None}] /\ y[k] = text
      /\ \A j \in Pks \ {k} : y[j] = x[j]
  OBVIOUS
<1> HIDE DEF y
<1>2. /\ text # None /\ Len(text) \in Nat /\ DOMAIN text = 1 .. Len(text)
      /\ TokenSet(text) \subseteq Tokens
      /\ \A tok : Frequency(text, tok) \in Nat
  BY TextFacts
<1>3. With(y) = With(x) \cup {k} /\ k \notin With(x)
  BY <1>1, <1>2 DEF With
<1>4. Cardinality(With(y)) = Cardinality(With(x)) + 1 /\ Cardinality(With(x)) \in Nat
  BY <1>3, PlacesFinite, FS_AddElement, FS_CardinalityType
<1>5. Places(y) = Places(x) \cup here /\ Places(x) \cap here = {}
  <2>1. ASSUME NEW p \in Places(y) PROVE p \in Places(x) \cup here
    <3>1. p[1] \in With(y) /\ p[2] \in Nat /\ p[2] \in DOMAIN y[p[1]] /\ p = <<p[1], p[2]>>
      BY <2>1 DEF Places
    <3>2. CASE p[1] = k
      BY <1>1, <1>2, <3>1, <3>2
    <3>3. CASE p[1] # k
      <4>1. p[1] \in With(x) /\ y[p[1]] = x[p[1]]
        BY <1>1, <1>3, <3>1, <3>3 DEF With
      <4> QED
        BY <3>1, <4>1 DEF Places
    <3> QED
      BY <3>2, <3>3
  <2>2. ASSUME NEW p \in here PROVE p \in Places(y) /\ p \notin Places(x)
    <3>1. p[1] = k /\ p[2] \in 1 .. Len(text) /\ p = <<k, p[2]>> /\ p[2] \in Nat
      BY <1>2, <2>2
    <3> QED
      BY <1>1, <1>2, <1>3, <3>1 DEF Places
  <2>3. ASSUME NEW p \in Places(x) PROVE p \in Places(y)
    <3>1. p[1] \in With(x) /\ p[2] \in Nat /\ p[2] \in DOMAIN x[p[1]] /\ p = <<p[1], p[2]>>
      BY <2>3 DEF Places
    <3>2. p[1] \in With(y) /\ y[p[1]] = x[p[1]]
      BY <1>1, <1>3, <3>1 DEF With
    <3> QED
      BY <3>1, <3>2 DEF Places
  <2> QED
    BY <2>1, <2>2, <2>3
<1>6. /\ Cardinality(Places(y)) = Cardinality(Places(x)) + Len(text)
      /\ Cardinality(Places(x)) \in Nat
  <2>1. IsFiniteSet({k}) /\ Cardinality({k}) = 1
    BY FS_Singleton
  <2>2. IsFiniteSet(1 .. Len(text)) /\ Cardinality(1 .. Len(text)) = Len(text)
    BY <1>2, FS_Interval
  <2>3. IsFiniteSet(here) /\ Cardinality(here) = Len(text)
    BY <1>2, <2>1, <2>2, FS_Product
  <2>4. IsFiniteSet(Places(x)) /\ Cardinality(Places(x)) \in Nat
    BY PlacesFinite, FS_CardinalityType
  <2>5. Cardinality({}) = 0
    BY FS_EmptySet
  <2> HIDE DEF here
  <2>6. Cardinality(Places(x) \cup here) =
          Cardinality(Places(x)) + Cardinality(here) - Cardinality(Places(x) \cap here)
    BY <2>3, <2>4, FS_Union
  <2> QED
    <3>1. Cardinality(Places(y)) = Cardinality(Places(x) \cup here)
      BY <1>5, Zenon
    <3>2. Cardinality(Places(x) \cap here) = 0
      BY <1>5, <2>5, Zenon
    <3> QED
      BY <1>2, <2>3, <2>4, <2>6, <3>1, <3>2
<1>7. Postings(x) = Off(Postings(y)) /\ Postings(x) = Off(Postings(x))
  <2>1. ASSUME NEW e \in Postings(x) PROVE e \in Off(Postings(y)) /\ e \in Off(Postings(x))
    <3>1. /\ e \in Tokens \X Pks \X Nat /\ e[2] \in With(x) /\ e[1] \in TokenSet(x[e[2]])
          /\ e[3] = Frequency(x[e[2]], e[1])
      BY <2>1 DEF Postings
    <3>2. e[2] # k /\ e[2] \in With(y) /\ x[e[2]] = y[e[2]]
      BY <1>1, <1>3, <3>1
    <3> QED
      BY <2>1, <3>1, <3>2 DEF Postings
  <2>2. ASSUME NEW e \in Off(Postings(y)) PROVE e \in Postings(x)
    <3>1. /\ e \in Tokens \X Pks \X Nat /\ e[2] \in With(y) /\ e[1] \in TokenSet(y[e[2]])
          /\ e[3] = Frequency(y[e[2]], e[1])
      BY <2>2 DEF Postings
    <3>2. e[2] # k /\ e[2] \in With(x) /\ x[e[2]] = y[e[2]]
      BY <1>1, <1>3, <2>2, <3>1
    <3> QED
      BY <3>1, <3>2 DEF Postings
  <2> QED
    BY <2>1, <2>2
<1>8. Postings(y) = Postings(x) \cup new
  <2>1. ASSUME NEW e \in Postings(y) PROVE e \in Postings(x) \cup new
    <3>1. /\ e \in Tokens \X Pks \X Nat /\ e[2] \in With(y) /\ e[1] \in TokenSet(y[e[2]])
          /\ e[3] = Frequency(y[e[2]], e[1]) /\ e = <<e[1], e[2], e[3]>>
      BY <2>1 DEF Postings
    <3>2. CASE e[2] = k
      BY <1>1, <3>1, <3>2
    <3>3. CASE e[2] # k
      BY <1>7, <2>1, <3>3
    <3> QED
      BY <3>2, <3>3
  <2>2. ASSUME NEW e \in new PROVE e \in Postings(y)
    <3>1. PICK tok \in TokenSet(text) : e = <<tok, k, Frequency(text, tok)>>
      BY <2>2
    <3>2. tok \in Tokens /\ Frequency(text, tok) \in Nat /\ k \in With(y)
      BY <1>2, <1>3
    <3> QED
      BY <1>1, <3>1, <3>2 DEF Postings
  <2> QED
    BY <1>7, <2>1, <2>2
<1>9. /\ Lengths(y) = [Lengths(x) EXCEPT ![k] = Len(text)]
      /\ Lengths(x) = [Lengths(y) EXCEPT ![k] = None]
  BY <1>1, <1>3 DEF Lengths
<1>10. IndexText(FtsFor(x), k, text) = FtsFor(y)
  <2>1. IndexText(FtsFor(x), k, text) =
          [post |-> Off(Postings(x)) \cup new, len |-> [Lengths(x) EXCEPT ![k] = Len(text)],
           docs |-> Cardinality(With(x)) + 1, terms |-> Cardinality(Places(x)) + Len(text)]
    BY <1>2 DEF IndexText, FtsFor
  <2> HIDE DEF Off, new
  <2> QED
    BY <1>4, <1>6, <1>7, <1>8, <1>9, <2>1 DEF FtsFor
<1>11. Unindex(FtsFor(y), k, text) = FtsFor(x)
  <2>1. Unindex(FtsFor(y), k, text) =
          [post |-> Off(Postings(y)), len |-> [Lengths(y) EXCEPT ![k] = None],
           docs |-> NatSub(Cardinality(With(y)), 1),
           terms |-> NatSub(Cardinality(Places(y)), Len(text))]
    BY <1>2 DEF Unindex, FtsFor
  <2>2. NatSub(Cardinality(With(y)), 1) = Cardinality(With(x))
    BY <1>4 DEF NatSub
  <2>3. NatSub(Cardinality(Places(y)), Len(text)) = Cardinality(Places(x))
    BY <1>2, <1>6 DEF NatSub
  <2> HIDE DEF Off
  <2> QED
    BY <1>7, <1>9, <2>1, <2>2, <2>3 DEF FtsFor
<1> QED
  BY <1>10, <1>11

\* fulltext.rs, on_row_change: the index follows the row.
LEMMA FtsFollows ==
  ASSUME NEW rows \in [Pks -> Row \cup {None}], NEW k \in Pks, NEW new \in Row \cup {None},
         FtsFor(Txt(rows)) # None
  PROVE  FtsChange(FtsFor(Txt(rows)), k, rows[k], new)
           = FtsFor(Txt([rows EXCEPT ![k] = new]))
<1> DEFINE x == Txt(rows)
           y == Txt([rows EXCEPT ![k] = new])
           z == [x EXCEPT ![k] = None]
<1>1. x \in [Pks -> Texts \cup {None}] /\ y \in [Pks -> Texts \cup {None}]
  BY TxtFacts
<1>2. x[k] = TextOf(rows[k]) /\ y[k] = TextOf(new) /\ \A j \in Pks \ {k} : y[j] = x[j]
  BY DEF Txt
<1> HIDE DEF x, y
<1>3. z \in [Pks -> Texts \cup {None}] /\ z[k] = None
  BY <1>1
<1>4. x = [z EXCEPT ![k] = x[k]] /\ y = [z EXCEPT ![k] = y[k]]
  BY <1>1, <1>2
<1> HIDE DEF z
<1>5. Unindex(FtsFor(x), k, x[k]) = FtsFor(z)
  <2>1. CASE x[k] = None
    <3>1. x = z
      BY <1>1, <1>3, <1>4, <2>1
    <3> QED
      BY <2>1, <3>1 DEF Unindex
  <2>2. CASE x[k] \in Texts
    <3>1. PICK text \in Texts : text = x[k]
      BY <2>2
    <3>2. x = [z EXCEPT ![k] = text]
      BY <1>4, <3>1
    <3>3. Unindex(FtsFor([z EXCEPT ![k] = text]), k, text) = FtsFor(z)
      BY <1>3, TextAdded, Zenon
    <3> QED
      BY <3>1, <3>2, <3>3, Zenon
  <2> QED
    BY <1>1, <2>1, <2>2
<1>6. IndexText(FtsFor(z), k, y[k]) = FtsFor(y)
  <2>1. CASE y[k] = None
    <3>1. y = z
      BY <1>1, <1>3, <1>4, <2>1
    <3> QED
      BY <2>1, <3>1 DEF IndexText
  <2>2. CASE y[k] \in Texts
    <3>1. PICK text \in Texts : text = y[k]
      BY <2>2
    <3>2. y = [z EXCEPT ![k] = text]
      BY <1>4, <3>1
    <3>3. IndexText(FtsFor(z), k, text) = FtsFor([z EXCEPT ![k] = text])
      BY <1>3, TextAdded, Zenon
    <3> QED
      BY <3>1, <3>2, <3>3, Zenon
  <2> QED
    BY <1>1, <2>1, <2>2
<1>7. CASE x[k] = y[k]
  <2>1. x = y
    BY <1>4, <1>7
  <2> QED
    BY <1>2, <1>7, <2>1 DEF FtsChange, x, y
<1>8. CASE x[k] # y[k]
  BY <1>2, <1>5, <1>6, <1>8 DEF FtsChange, x, y
<1> QED
  BY <1>7, <1>8

LEMMA FtsChangeTyped ==
  ASSUME NEW f \in Fts \cup {None}, NEW k \in Pks,
         NEW old \in Row \cup {None}, NEW new \in Row \cup {None}
  PROVE  /\ FtsChange(f, k, old, new) \in Fts \cup {None}
         /\ f = None => FtsChange(f, k, old, new) = None
<1>1. ASSUME NEW g \in Fts, NEW text \in Texts \cup {None}
      PROVE  Unindex(g, k, text) \in Fts /\ IndexText(g, k, text) \in Fts
  <2>1. CASE text = None
    BY <2>1 DEF Unindex, IndexText
  <2>2. CASE text # None
    <3> DEFINE off == {e \in g.post : e[2] # k \/ e[1] \notin TokenSet(text)}
               new2 == {<<tok, k, Frequency(text, tok)>> : tok \in TokenSet(text)}
    <3>1. /\ g.post \subseteq Tokens \X Pks \X Nat /\ g.len \in [Pks -> Nat \cup {None}]
          /\ g.docs \in Nat /\ g.terms \in Nat
      BY DEF Fts
    <3>2. /\ Len(text) \in Nat /\ TokenSet(text) \subseteq Tokens
          /\ \A tok : Frequency(text, tok) \in Nat
      BY <2>2, TextFacts
    <3>3. off \subseteq Tokens \X Pks \X Nat /\ new2 \subseteq Tokens \X Pks \X Nat
      BY <3>1, <3>2
    <3>4. /\ [g.len EXCEPT ![k] = None] \in [Pks -> Nat \cup {None}]
          /\ [g.len EXCEPT ![k] = Len(text)] \in [Pks -> Nat \cup {None}]
      BY <3>1, <3>2
    <3>5. /\ NatSub(g.docs, 1) \in Nat /\ NatSub(g.terms, Len(text)) \in Nat
          /\ g.docs + 1 \in Nat /\ g.terms + Len(text) \in Nat
      BY <3>1, <3>2 DEF NatSub
    <3>6. /\ Unindex(g, k, text) =
               [post |-> off, len |-> [g.len EXCEPT ![k] = None],
                docs |-> NatSub(g.docs, 1), terms |-> NatSub(g.terms, Len(text))]
          /\ IndexText(g, k, text) =
               [post |-> off \cup new2, len |-> [g.len EXCEPT ![k] = Len(text)],
                docs |-> g.docs + 1, terms |-> g.terms + Len(text)]
      BY <2>2 DEF Unindex, IndexText
    <3> HIDE DEF off, new2
    <3>7. off \cup new2 \subseteq Tokens \X Pks \X Nat
      BY <3>3
    <3> QED
      BY <3>3, <3>4, <3>5, <3>6, <3>7 DEF Fts
  <2> QED
    BY <2>1, <2>2
<1>2. TextOf(old) \in Texts \cup {None} /\ TextOf(new) \in Texts \cup {None}
  BY RelationalAssumption DEF TextOf, Cell
<1>3. CASE f \in Fts
  <2>1. Unindex(f, k, TextOf(old)) \in Fts
    BY <1>1, <1>2, <1>3
  <2>2. IndexText(Unindex(f, k, TextOf(old)), k, TextOf(new)) \in Fts
    BY <1>1, <1>2, <2>1
  <2> QED
    BY <1>3, <2>2 DEF FtsChange
<1>4. CASE f = None
  BY <1>4 DEF FtsChange
<1> QED
  BY <1>3, <1>4 DEF FtsChange

-----------------------------------------------------------------------------
\* The vector index.

\* The node of a vector cell.
NodeOf(v) == IF v \in Vecs /\ ~Unindexed(v) THEN v ELSE None

LEMMA VecOfCell ==
  ASSUME NEW row
  PROVE  VecOf(row) = NodeOf(Cell(row, "v"))
BY RelationalAssumption DEF VecOf, NodeOf, Cell

LEMMA VecFacts ==
  ASSUME NEW v \in Vecs
  PROVE  v # None /\ Len(v) \in Nat /\ (v = <<>> => Unindexed(v))
BY RelationalAssumption DEF Unindexed

LEMMA AnnNodesFinite ==
  ASSUME NEW x
  PROVE  IsFiniteSet(AnnNodes(x)) /\ Cardinality(AnnNodes(x)) \in Nat
BY PksFinite, FS_Subset, FS_CardinalityType DEF AnnNodes

LEMMA AnnRemoveStep ==
  ASSUME NEW x \in Ann, NEW k \in Pks
  PROVE  LET y == AnnRemove(x, k)
         IN  /\ y \in Ann /\ y.dim = x.dim /\ y.node = [x.node EXCEPT ![k] = None]
             /\ x.count = Cardinality(AnnNodes(x)) => y.count = Cardinality(AnnNodes(y))
<1> DEFINE y == AnnRemove(x, k)
<1> SUFFICES /\ y \in Ann /\ y.dim = x.dim /\ y.node = [x.node EXCEPT ![k] = None]
             /\ x.count = Cardinality(AnnNodes(x)) => y.count = Cardinality(AnnNodes(y))
  OBVIOUS
<1>1. x.node \in [Pks -> Vecs \cup {None}] /\ x.dim \in Nat /\ x.count \in Nat
  BY DEF Ann
<1>2. CASE x.node[k] = None
  <2>1. y = x /\ x.node = [x.node EXCEPT ![k] = None]
    BY <1>1, <1>2 DEF AnnRemove
  <2> QED
    BY <2>1
<1>3. CASE x.node[k] # None
  <2>1. /\ y.dim = x.dim /\ y.node = [x.node EXCEPT ![k] = None]
        /\ y.count = NatSub(x.count, 1) /\ y \in [node : {y.node}, dim : {y.dim}, count : {y.count}]
    BY <1>1, <1>3 DEF AnnRemove, Ann
  <2> HIDE DEF y
  <2>2. NatSub(x.count, 1) \in Nat
    BY <1>1 DEF NatSub
  <2>3. y \in Ann
    BY <1>1, <2>1, <2>2 DEF Ann
  <2>4. AnnNodes(y) = AnnNodes(x) \ {k} /\ k \in AnnNodes(x)
    BY <1>1, <1>3, <2>1 DEF AnnNodes
  <2>5. Cardinality(AnnNodes(y)) = Cardinality(AnnNodes(x)) - 1
    BY <2>4, AnnNodesFinite, FS_RemoveElement
  <2>6. Cardinality(AnnNodes(x)) \in Nat /\ Cardinality(AnnNodes(y)) \in Nat
    BY AnnNodesFinite
  <2> QED
    BY <2>1, <2>3, <2>5, <2>6 DEF NatSub
<1> QED
  BY <1>2, <1>3

\* A vector that is not refused keeps the index exact.
LEMMA AnnAddStep ==
  ASSUME NEW x \in Ann, NEW k \in Pks, NEW v
  PROVE  LET y == AnnAdd(x, k, v)
         IN  /\ y \in Ann
             /\ /\ x.count = Cardinality(AnnNodes(x)) /\ x.node[k] = None
                /\ \A j \in AnnNodes(x) : Len(x.node[j]) = x.dim
                /\ ~AnnRefuses(x, v)
                => /\ y.count = Cardinality(AnnNodes(y))
                   /\ y.node = [x.node EXCEPT ![k] = NodeOf(v)]
                   /\ \A j \in AnnNodes(y) : Len(y.node[j]) = y.dim
<1> DEFINE y == AnnAdd(x, k, v)
           Was == /\ x.count = Cardinality(AnnNodes(x)) /\ x.node[k] = None
                  /\ \A j \in AnnNodes(x) : Len(x.node[j]) = x.dim
                  /\ ~AnnRefuses(x, v)
           Is == /\ y.count = Cardinality(AnnNodes(y))
                 /\ y.node = [x.node EXCEPT ![k] = NodeOf(v)]
                 /\ \A j \in AnnNodes(y) : Len(y.node[j]) = y.dim
<1> SUFFICES y \in Ann /\ (Was => Is)
  OBVIOUS
<1>1. x.node \in [Pks -> Vecs \cup {None}] /\ x.dim \in Nat /\ x.count \in Nat
  BY DEF Ann
<1>2. CASE v \notin Vecs \/ v = <<>>
  <2>1. y = x /\ NodeOf(v) = None
    BY <1>2, VecFacts DEF AnnAdd, NodeOf
  <2>2. ASSUME x.node[k] = None PROVE x.node = [x.node EXCEPT ![k] = None]
    BY <1>1, <2>2
  <2> QED
    BY <2>1, <2>2
<1>3. CASE v \in Vecs /\ v # <<>> /\ Unindexed(v)
  <2>1. y = [x EXCEPT !.dim = Len(v)] /\ NodeOf(v) = None /\ Len(v) \in Nat
    BY <1>3, VecFacts DEF AnnAdd, NodeOf
  <2> HIDE DEF y
  <2>2. y \in Ann /\ y.node = x.node /\ y.dim = Len(v) /\ y.count = x.count
    BY <1>1, <2>1 DEF Ann
  <2>3. AnnNodes(y) = AnnNodes(x)
    BY <2>2 DEF AnnNodes
  <2>4. ASSUME Was PROVE Is
    <3>1. x.node = [x.node EXCEPT ![k] = None]
      BY <1>1, <2>4
    <3>2. \A j \in AnnNodes(y) : Len(y.node[j]) = y.dim
      <4>1. CASE x.count = 0
        <5>1. AnnNodes(x) = {}
          BY <2>4, <4>1, AnnNodesFinite, FS_EmptySet
        <5> QED
          BY <2>3, <5>1
      <4>2. CASE Len(v) = x.dim
        BY <2>2, <2>3, <2>4, <4>2
      <4> QED
        BY <1>3, <2>4, <4>1, <4>2 DEF AnnRefuses
    <3> QED
      BY <2>1, <2>2, <2>3, <2>4, <3>1, <3>2
  <2> QED
    BY <2>2, <2>4
<1>4. CASE v \in Vecs /\ v # <<>> /\ ~Unindexed(v)
  <2> DEFINE d == [x EXCEPT !.dim = Len(v)]
  <2>1. y = [d EXCEPT !.node[k] = v, !.count = @ + 1] /\ NodeOf(v) = v
    BY <1>4 DEF AnnAdd, NodeOf
  <2>2. Len(v) \in Nat /\ v # None
    BY <1>4, VecFacts
  <2>3. d \in Ann /\ d.node = x.node /\ d.dim = Len(v) /\ d.count = x.count
    BY <1>1, <2>2 DEF Ann
  <2> HIDE DEF d, y
  <2>4. /\ y.node = [x.node EXCEPT ![k] = v] /\ y.dim = Len(v) /\ y.count = x.count + 1
        /\ y \in [node : {y.node}, dim : {y.dim}, count : {y.count}]
    BY <2>1, <2>3 DEF Ann
  <2>5. y \in Ann
    BY <1>1, <1>4, <2>2, <2>4 DEF Ann
  <2>6. ASSUME Was PROVE Is
    <3>1. AnnNodes(y) = AnnNodes(x) \cup {k} /\ k \notin AnnNodes(x)
      BY <1>1, <2>2, <2>4, <2>6 DEF AnnNodes
    <3>2. Cardinality(AnnNodes(y)) = Cardinality(AnnNodes(x)) + 1
      BY <3>1, AnnNodesFinite, FS_AddElement
    <3>3. \A j \in AnnNodes(y) : Len(y.node[j]) = y.dim
      <4>1. \A j \in AnnNodes(x) : y.node[j] = x.node[j]
        BY <1>1, <2>4, <3>1 DEF AnnNodes
      <4>2. y.node[k] = v
        BY <1>1, <2>4
      <4>3. CASE x.count = 0
        <5>1. AnnNodes(x) = {}
          BY <2>6, <4>3, AnnNodesFinite, FS_EmptySet
        <5> QED
          BY <2>4, <3>1, <4>2, <5>1
      <4>4. CASE Len(v) = x.dim
        BY <2>4, <2>6, <3>1, <4>1, <4>2, <4>4
      <4> QED
        BY <1>4, <2>6, <4>3, <4>4 DEF AnnRefuses
    <3> QED
      BY <2>1, <2>4, <2>6, <3>2, <3>3
  <2> QED
    BY <2>5, <2>6
<1> QED
  BY <1>2, <1>3, <1>4

\* ann/mod.rs, on_row_change: what it holds when the vector is not refused.
LEMMA AnnFollows ==
  ASSUME NEW x \in Ann, NEW rows \in [Pks -> Row \cup {None}], NEW k \in Pks,
         NEW new \in Row \cup {None}
  PROVE  LET gone == IF Cell(rows[k], "v") = Absent THEN x ELSE AnnRemove(x, k)
             y == AnnAdd(gone, k, Cell(new, "v"))
         IN  /\ gone \in Ann /\ y \in Ann
             /\ AnnExact(x, rows) /\ ~AnnRefuses(gone, Cell(new, "v"))
                    => AnnExact(y, [rows EXCEPT ![k] = new])
<1> DEFINE gone == IF Cell(rows[k], "v") = Absent THEN x ELSE AnnRemove(x, k)
           v == Cell(new, "v")
           y == AnnAdd(gone, k, v)
           after == [rows EXCEPT ![k] = new]
<1> SUFFICES /\ gone \in Ann /\ y \in Ann
             /\ AnnExact(x, rows) /\ ~AnnRefuses(gone, v) => AnnExact(y, after)
  OBVIOUS
<1>1. gone \in Ann
  BY AnnRemoveStep
<1>2. ASSUME AnnExact(x, rows)
      PROVE  /\ gone.count = Cardinality(AnnNodes(gone)) /\ gone.dim = x.dim
             /\ gone.node = [x.node EXCEPT ![k] = None]
  <2>1. CASE Cell(rows[k], "v") = Absent
    <3>1. x.node[k] = None
      BY <1>2, <2>1, VecOfCell, RelationalAssumption DEF AnnExact, NodeOf
    <3>2. x.node \in [Pks -> Vecs \cup {None}]
      BY DEF Ann
    <3> QED
      BY <1>2, <2>1, <3>1, <3>2 DEF AnnExact
  <2>2. CASE Cell(rows[k], "v") # Absent
    <3>1. x.count = Cardinality(AnnNodes(x))
      BY <1>2 DEF AnnExact
    <3> QED
      BY <2>2, <3>1, AnnRemoveStep
  <2> QED
    BY <2>1, <2>2
<1>3. y \in Ann
  <2> HIDE DEF gone, v
  <2> QED
    BY <1>1, AnnAddStep
<1>4. ASSUME AnnExact(x, rows), ~AnnRefuses(gone, v) PROVE AnnExact(y, after)
  <2>1. x.node \in [Pks -> Vecs \cup {None}]
    BY DEF Ann
  <2>2. gone.node[k] = None /\ \A j \in AnnNodes(gone) : Len(gone.node[j]) = gone.dim
    <3> HIDE DEF gone
    <3> QED
      BY <1>2, <1>4, <2>1 DEF AnnExact, AnnNodes
  <2> HIDE DEF gone
  <2>3. /\ y.count = Cardinality(AnnNodes(y)) /\ y.node = [gone.node EXCEPT ![k] = NodeOf(v)]
        /\ \A j \in AnnNodes(y) : Len(y.node[j]) = y.dim
    <3> HIDE DEF v
    <3>1. gone.count = Cardinality(AnnNodes(gone))
      BY <1>2, <1>4
    <3> QED
      BY <1>1, <1>4, <2>2, <3>1, AnnAddStep, Zenon
  <2> HIDE DEF y
  <2>4. ASSUME NEW j \in Pks PROVE y.node[j] = VecOf(after[j])
    <3>1. CASE j = k
      BY <1>2, <1>4, <2>1, <2>3, <3>1, VecOfCell
    <3>2. CASE j # k
      BY <1>2, <1>4, <2>1, <2>3, <3>2 DEF AnnExact
    <3> QED
      BY <3>1, <3>2
  <2> QED
    BY <2>3, <2>4 DEF AnnExact
<1> QED
  BY <1>1, <1>3, <1>4

\* What a step on one row leaves of the search indexes: exact for rows.
SearchFor(t, rows) ==
    /\ "fts" \notin t.torn /\ t.fts # None => t.fts = FtsFor(Txt(rows))
    /\ "ann" \notin t.torn /\ t.ann # None => AnnExact(t.ann, rows)

LEMMA SearchForRows ==
  ASSUME NEW t \in Table
  PROVE  SearchExact(t) <=> SearchFor(t, t.rows)
<1>1. FtsOf(t) = FtsFor(Txt(t.rows))
  BY FtsOfRows DEF Table
<1> QED
  BY <1>1 DEF SearchExact, SearchFor

\* What t2 keeps of t: all but the search indexes.
SameRows(t, t2) ==
    /\ t2.def = t.def /\ t2.rows = t.rows /\ t2.idx = t.idx /\ t2.next = t.next
    /\ t2.torn \cap IndexCols = t.torn \cap IndexCols

LEMMA OnRowChangeStep ==
  ASSUME NEW t \in Table, NEW rows \in [Pks -> Row \cup {None}], NEW k \in Pks,
         NEW new \in Row \cup {None}, t.rows = [rows EXCEPT ![k] = new],
         SearchColumns(t), SearchFor(t, rows)
  PROVE  LET r == OnRowChange(t, k, rows[k], new)
         IN  /\ r.t \in Table /\ SameRows(t, r.t)
             /\ SearchColumns(r.t) /\ SearchExact(r.t)
<1> DEFINE old == rows[k]
           gone == IF Cell(old, "v") = Absent THEN t.ann ELSE AnnRemove(t.ann, k)
           v == Cell(new, "v")
           changed == t.ann # None /\ Cell(old, "v") # v
           u == OnRowChange(t, k, old, new).t
           x == [t.ann EXCEPT !.node = gone.node]
           y == IF changed THEN AnnAdd(gone, k, v) ELSE t.ann
           f == FtsChange(t.fts, k, old, new)
<1> SUFFICES u \in Table /\ SameRows(t, u) /\ SearchColumns(u) /\ SearchExact(u)
  OBVIOUS
<1>1. old \in Row \cup {None}
  OBVIOUS
<1>2. ASSUME t.ann # None
      PROVE  /\ gone \in Ann /\ AnnAdd(gone, k, v) \in Ann
             /\ AnnExact(t.ann, rows) /\ ~AnnRefuses(gone, v) => AnnExact(AnnAdd(gone, k, v), t.rows)
  <2>1. t.ann \in Ann
    BY <1>2 DEF Table
  <2> QED
    <3>1. /\ gone \in Ann /\ AnnAdd(gone, k, v) \in Ann
          /\ AnnExact(t.ann, rows) /\ ~AnnRefuses(gone, v)
               => AnnExact(AnnAdd(gone, k, v), [rows EXCEPT ![k] = new])
      BY <2>1, AnnFollows, Zenon
    <3> HIDE DEF gone, v
    <3> QED
      BY <3>1
<1>3. /\ f \in Fts \cup {None} /\ (t.fts = None => f = None)
      /\ t.fts # None /\ t.fts = FtsFor(Txt(rows)) => f = FtsFor(Txt(t.rows))
  <2>1. t.fts \in Fts \cup {None}
    BY DEF Table
  <2>2. f \in Fts \cup {None} /\ (t.fts = None => f = None)
    BY <1>1, <2>1, FtsChangeTyped
  <2>3. ASSUME t.fts # None, t.fts = FtsFor(Txt(rows)) PROVE f = FtsFor(Txt(t.rows))
    <3>1. FtsFor(Txt(rows)) # None
      BY <2>3
    <3>2. FtsChange(FtsFor(Txt(rows)), k, rows[k], new) = FtsFor(Txt([rows EXCEPT ![k] = new]))
      BY <3>1, FtsFollows, Zenon
    <3> QED
      BY <2>3, <3>2
  <2> QED
    BY <2>2, <2>3
<1>4. CASE changed /\ AnnRefuses(gone, v)
  <2>1. u = [t EXCEPT !.ann = x, !.torn = @ \cup {"fts", "ann"}]
    BY <1>4 DEF OnRowChange
  <2>2. x \in Ann
    <3>1. t.ann \in Ann /\ gone \in Ann
      BY <1>2, <1>4 DEF Table
    <3> HIDE DEF gone
    <3> QED
      BY <3>1 DEF Ann
  <2> HIDE DEF u, x, f
  <2>3. u \in Table /\ SameRows(t, u) /\ u.fts = t.fts /\ {"fts", "ann"} \subseteq u.torn
    BY <2>1, <2>2 DEF Table, SameRows, Indexes, IndexCols
  <2>4. SearchExact(u)
    BY <2>3 DEF SearchExact
  <2> QED
    BY <1>4, <2>3, <2>4 DEF SearchColumns, SameRows
<1>5. CASE ~(changed /\ AnnRefuses(gone, v))
  <2>1. u = [t EXCEPT !.ann = y, !.fts = f]
    BY <1>5 DEF OnRowChange
  <2>2. y \in Ann \cup {None} /\ (t.ann = None => y = None)
    BY <1>2 DEF Table
  <2>3. ASSUME t.ann # None, AnnExact(t.ann, rows) PROVE AnnExact(y, t.rows)
    <3>1. CASE changed
      BY <1>2, <1>5, <2>3, <3>1
    <3>2. CASE ~changed
      <4>1. Cell(old, "v") = Cell(new, "v")
        BY <2>3, <3>2
      <4>2. VecOf(old) = VecOf(new)
        BY <4>1, VecOfCell
      <4>3. \A j \in Pks : VecOf(rows[j]) = VecOf(t.rows[j])
        BY <4>2
      <4> QED
        BY <2>3, <3>2, <4>3 DEF AnnExact
    <3> QED
      BY <3>1, <3>2
  <2> HIDE DEF u, y, f
  <2>4. u \in Table /\ SameRows(t, u) /\ u.fts = f /\ u.ann = y /\ u.torn = t.torn
    BY <1>3, <2>1, <2>2 DEF Table, SameRows
  <2>5. SearchColumns(u)
    BY <1>3, <2>2, <2>4 DEF SearchColumns, SameRows
  <2>6. SearchFor(u, u.rows)
    <3>1. u.rows = t.rows
      BY <2>4 DEF SameRows
    <3>2. ASSUME "fts" \notin t.torn, f # None PROVE f = FtsFor(Txt(t.rows))
      BY <1>3, <3>2 DEF SearchFor
    <3>3. ASSUME "ann" \notin t.torn, y # None PROVE AnnExact(y, t.rows)
      BY <2>2, <2>3, <3>3 DEF SearchFor
    <3> QED
      BY <2>4, <3>1, <3>2, <3>3 DEF SearchFor
  <2> QED
    BY <2>4, <2>5, <2>6, SearchForRows
<1> QED
  BY <1>4, <1>5

-----------------------------------------------------------------------------
\* One row.

CellsTyped(row) == \A c \in Columns : row[c] \in Dom(c) \cup {Null, Absent}

LEMMA IndexKeysFacts ==
  ASSUME NEW cols \in SUBSET IndexCols, NEW k \in Pks, NEW row \in Row \cup {None}
  PROVE  /\ IndexKeys(cols, k, row) \subseteq IndexCols \X Cells \X Pks
         /\ \A e \in IndexKeys(cols, k, row) : e[1] \in cols /\ e[3] = k
         /\ \A c \in cols : Keyable(row, c) => <<c, row[c], k>> \in IndexKeys(cols, k, row)
         /\ Keyed(cols, row) \subseteq Indexes
<1>1. \A c \in cols : c \in IndexCols /\ c \in Columns /\ c \in Indexes
  BY DEF IndexCols, Columns, Indexes
<1>2. ASSUME NEW c \in Keyed(cols, row) PROVE c \in cols /\ row[c] \in Cells
  <2>1. c \in cols /\ row # None
    BY DEF Keyed, Keyable, Indexable, Cell
  <2> QED
    BY <1>1, <2>1 DEF Row
<1>3. ASSUME NEW e \in IndexKeys(cols, k, row)
      PROVE  e \in IndexCols \X Cells \X Pks /\ e[1] \in cols /\ e[3] = k
  <2>1. PICK c \in Keyed(cols, row) : e = <<c, row[c], k>>
    BY DEF IndexKeys
  <2> QED
    BY <1>1, <1>2, <2>1
<1>4. \A c \in cols : Keyable(row, c) => <<c, row[c], k>> \in IndexKeys(cols, k, row)
  BY DEF IndexKeys, Keyed
<1>5. Keyed(cols, row) \subseteq Indexes
  BY <1>1, <1>2
<1> QED
  BY <1>3, <1>4, <1>5

LEMMA SchemaCols ==
  ASSUME NEW sch \in Schema
  PROVE  sch.indexed \subseteq IndexCols /\ sch.unique \subseteq IndexCols
         /\ sch.cols \subseteq Columns
BY DEF Schema

LEMMA NothingIndexed ==
  ASSUME NEW c
  PROVE  ~Indexable(None, c) /\ ~Keyable(None, c)
BY DEF Keyable, Indexable, Cell

\* A change of the search indexes leaves RowsInv.
LEMMA RowsInvSame ==
  ASSUME NEW t, NEW u \in Table, RowsInv(t), SameRows(t, u)
  PROVE  RowsInv(u) /\ Live(u) = Live(t)
<1>1. Live(u) = Live(t)
  BY DEF SameRows, Live
<1>2. RowsTyped(u)
  BY <1>1 DEF SameRows, RowsInv, RowsTyped
<1>3. ASSUME NEW c \in IndexCols, c \notin u.torn
      PROVE  c \notin t.torn /\ (Covers(t, c) => Covers(u, c)) /\ (Distinct(t, c) => Distinct(u, c))
  BY <1>1, <1>3 DEF SameRows, Covers, Distinct
<1>4. ASSUME u.def # None
      PROVE  u.def = t.def /\ u.def.indexed \subseteq IndexCols /\ u.def.unique \subseteq IndexCols
  BY <1>4, SchemaCols DEF SameRows, RowsInv, Table
<1>5. IndexComplete(u)
  BY <1>3, <1>4 DEF RowsInv, IndexComplete
<1>6. UniqueRows(u)
  BY <1>3, <1>4 DEF RowsInv, UniqueRows
<1> QED
  BY <1>1, <1>2, <1>5, <1>6 DEF SameRows, RowsInv

\* What a new row, the keys that leave and enter the indexes, and what is torn
\* must satisfy for the table to stay right.
RowFits(t, sch, k, row, out, in, torn) ==
    /\ row # None => CellsTyped(row)
    /\ in \subseteq IndexCols \X Cells \X Pks /\ torn \subseteq Indexes
    /\ \A e \in out : e[3] = k
    /\ \A c \in sch.indexed \ (t.torn \cup torn) :
           t.def # None /\ Keyable(row, c) => <<c, row[c], k>> \in (t.idx \ out) \cup in
    /\ \A c \in sch.unique \ t.torn :
           t.def # None /\ Indexable(row, c) => \A j \in Live(t) \ {k} : t.rows[j][c] # row[c]
    /\ AutoIncrement /\ row # None => k < t.next

\* What a statement on the row of key k leaves.
RowDone(t, k, u) ==
    TableInv(u) /\ u.def = t.def /\ u.next = t.next /\ Live(u) \subseteq Live(t) \cup {k}

PutDone(t, k, row, torn, s) ==
    /\ RowsInv(s) /\ Live(s) \subseteq Live(t) \cup {k}
    /\ s.rows = [t.rows EXCEPT ![k] = row] /\ s.def = t.def /\ s.next = t.next
    /\ s.fts = t.fts /\ s.ann = t.ann /\ s.torn = t.torn \cup torn

LEMMA PutStep ==
  ASSUME NEW t, RowsInv(t), NEW sch \in Schema, t.def \in {None, sch},
         NEW k \in Pks, NEW row \in Row \cup {None}, NEW out, NEW in, NEW torn,
         RowFits(t, sch, k, row, out, in, torn)
  PROVE  PutDone(t, k, row, torn, Put(t, k, row, out, in, torn))
<1> DEFINE s == Put(t, k, row, out, in, torn)
           rows == t.rows
<1> SUFFICES /\ RowsInv(s) /\ Live(s) \subseteq Live(t) \cup {k}
             /\ s.rows = [t.rows EXCEPT ![k] = row] /\ s.def = t.def /\ s.next = t.next
             /\ s.fts = t.fts /\ s.ann = t.ann /\ s.torn = t.torn \cup torn
  BY DEF PutDone
<1>1. t \in Table
  BY DEF RowsInv
<1>2. rows \in [Pks -> Row \cup {None}]
  BY <1>1 DEF Table
<1>3. /\ s.rows = [rows EXCEPT ![k] = row] /\ s.idx = (t.idx \ out) \cup in /\ s.def = t.def
      /\ s.next = t.next /\ s.fts = t.fts /\ s.ann = t.ann /\ s.torn = t.torn \cup torn
      /\ s \in [def : {s.def}, rows : {s.rows}, idx : {s.idx}, next : {s.next},
                fts : {s.fts}, ann : {s.ann}, torn : {s.torn}]
  BY <1>1 DEF Table, Put
<1> HIDE DEF s
<1>4. s \in Table
  <2>1. [rows EXCEPT ![k] = row] \in [Pks -> Row \cup {None}]
    BY <1>2
  <2>2. (t.idx \ out) \cup in \subseteq IndexCols \X Cells \X Pks
    BY <1>1 DEF Table, RowFits
  <2>3. t.torn \cup torn \subseteq Indexes
    BY <1>1 DEF Table, RowFits
  <2> QED
    BY <1>1, <1>3, <2>1, <2>2, <2>3 DEF Table
<1>5. Live(s) = IF row = None THEN Live(t) \ {k} ELSE Live(t) \cup {k}
  BY <1>2, <1>3 DEF Live
<1>6. \A j \in Pks \ {k} : s.rows[j] = t.rows[j]
  BY <1>2, <1>3
<1>7. s.rows[k] = row
  BY <1>2, <1>3
<1>8. RowsInv(s)
  <2>1. RowsTyped(s)
    BY <1>5, <1>6, <1>7 DEF RowsInv, RowsTyped, CellsTyped, Live, RowFits
  <2>2. s.def # None => Built(s.def)
    BY <1>3 DEF RowsInv
  <2>3. IndexComplete(s)
    <3>1. SUFFICES ASSUME s.def # None, NEW c \in s.def.indexed \ s.torn,
                          NEW j \in Live(s), Keyable(s.rows[j], c)
                   PROVE  <<c, s.rows[j][c], j>> \in s.idx
      BY DEF IndexComplete, Covers
    <3>2. t.def # None /\ t.def = sch /\ c \in sch.indexed \ (t.torn \cup torn)
      BY <1>3, <3>1
    <3>3. CASE j = k
      BY <1>3, <1>7, <3>1, <3>2, <3>3 DEF RowFits
    <3>4. CASE j # k
      <4>1. j \in Live(t) /\ s.rows[j] = t.rows[j]
        BY <1>5, <1>6, <3>1, <3>4 DEF Live
      <4>2. <<c, t.rows[j][c], j>> \in t.idx
        BY <3>1, <3>2, <4>1 DEF RowsInv, IndexComplete, Covers
      <4>3. <<c, t.rows[j][c], j>> \notin out
        BY <3>4 DEF RowFits
      <4> QED
        BY <1>3, <4>1, <4>2, <4>3
    <3> QED
      BY <3>3, <3>4
  <2>4. UniqueRows(s)
    <3>1. SUFFICES ASSUME s.def # None, NEW c \in s.def.unique \ s.torn,
                          NEW i \in Live(s), NEW j \in Live(s), i # j,
                          Indexable(s.rows[i], c)
                   PROVE  s.rows[i][c] # s.rows[j][c]
      BY DEF UniqueRows, Distinct
    <3>2. t.def # None /\ t.def = sch /\ c \in sch.unique \ t.torn
      BY <1>3, <3>1
    <3>3. i # k => i \in Live(t) /\ s.rows[i] = t.rows[i]
      BY <1>5, <1>6, <3>1 DEF Live
    <3>4. j # k => j \in Live(t) /\ s.rows[j] = t.rows[j]
      BY <1>5, <1>6, <3>1 DEF Live
    <3>5. CASE i = k
      BY <1>7, <3>1, <3>2, <3>4, <3>5 DEF RowFits
    <3>6. CASE j = k
      <4>1. i # k /\ row # None
        BY <1>5, <3>1, <3>6
      <4>2. ASSUME row[c] = t.rows[i][c] PROVE FALSE
        <5>1. Indexable(row, c)
          BY <3>1, <3>3, <4>1, <4>2 DEF Indexable, Cell
        <5> QED
          BY <3>2, <3>3, <4>1, <4>2, <5>1 DEF RowFits
      <4> QED
        BY <1>7, <3>3, <3>6, <4>1, <4>2
    <3>7. CASE i # k /\ j # k
      BY <3>1, <3>2, <3>3, <3>4, <3>7 DEF RowsInv, UniqueRows, Distinct
    <3> QED
      BY <3>5, <3>6, <3>7
  <2>5. AutoIncrement => \A j \in Live(s) : j < s.next
    BY <1>3, <1>5 DEF RowsInv, RowFits
  <2> QED
    BY <1>4, <2>1, <2>2, <2>3, <2>4, <2>5 DEF RowsInv
<1> QED
  BY <1>3, <1>5, <1>8

\* A row that is written to its end.
LEMMA RowStep ==
  ASSUME NEW t, TableInv(t), NEW sch \in Schema, t.def \in {None, sch},
         NEW k \in Pks, NEW row \in Row \cup {None}, NEW out, NEW in,
         RowFits(t, sch, k, row, out, in, {})
  PROVE  RowDone(t, k, OnRowChange(Put(t, k, row, out, in, {}), k, t.rows[k], row).t)
<1> DEFINE s == Put(t, k, row, out, in, {})
           rows == t.rows
           u == OnRowChange(s, k, rows[k], row).t
<1> SUFFICES RowDone(t, k, u)
  OBVIOUS
<1>1. RowsInv(t) /\ SearchColumns(t) /\ SearchExact(t) /\ t \in Table
  BY DEF TableInv, RowsInv
<1>2. rows \in [Pks -> Row \cup {None}]
  BY <1>1 DEF Table
<1>3. /\ RowsInv(s) /\ Live(s) \subseteq Live(t) \cup {k}
      /\ s.rows = [rows EXCEPT ![k] = row] /\ s.def = t.def /\ s.next = t.next
      /\ s.fts = t.fts /\ s.ann = t.ann /\ s.torn = t.torn \cup {}
  <2>1. PutDone(t, k, row, {}, s)
    BY <1>1, PutStep
  <2> HIDE DEF s
  <2> QED
    BY <2>1 DEF PutDone
<1> HIDE DEF s
<1>4. SearchColumns(s) /\ SearchFor(s, rows)
  <2>1. SearchFor(t, rows)
    BY <1>1, SearchForRows
  <2> QED
    BY <1>1, <1>3, <2>1 DEF SearchColumns, SearchFor
<1>5. s \in Table
  BY <1>3 DEF RowsInv
<1> HIDE DEF rows
<1>6. u \in Table /\ SameRows(s, u) /\ SearchColumns(u) /\ SearchExact(u)
  BY <1>2, <1>3, <1>4, <1>5, OnRowChangeStep, Zenon
<1> HIDE DEF u
<1>7. RowsInv(u) /\ Live(u) = Live(s)
  BY <1>3, <1>6, RowsInvSame
<1> QED
  BY <1>3, <1>6, <1>7 DEF TableInv, SameRows, RowDone

\* A row that is left half way: either it is the old one, or the search
\* indexes are torn.
LEMMA RowFails ==
  ASSUME NEW t, TableInv(t), NEW sch \in Schema, t.def \in {None, sch},
         NEW k \in Pks, NEW row \in Row \cup {None}, NEW out, NEW in, NEW torn,
         RowFits(t, sch, k, row, out, in, torn),
         row = t.rows[k] \/ {"fts", "ann"} \subseteq torn
  PROVE  RowDone(t, k, Fail(Put(t, k, row, out, in, torn)).t)
<1> DEFINE s == Put(t, k, row, out, in, torn)
<1>1. RowsInv(t) /\ SearchColumns(t) /\ SearchExact(t) /\ t \in Table
  BY DEF TableInv, RowsInv
<1>2. /\ RowsInv(s) /\ Live(s) \subseteq Live(t) \cup {k}
      /\ s.rows = [t.rows EXCEPT ![k] = row] /\ s.def = t.def /\ s.next = t.next
      /\ s.fts = t.fts /\ s.ann = t.ann /\ s.torn = t.torn \cup torn
  <2>1. PutDone(t, k, row, torn, s)
    BY <1>1, PutStep
  <2> HIDE DEF s
  <2> QED
    BY <2>1 DEF PutDone
<1> HIDE DEF s
<1>3. SearchExact(s)
  <2>1. CASE {"fts", "ann"} \subseteq torn
    BY <1>2, <2>1 DEF SearchExact
  <2>2. CASE row = t.rows[k]
    <3>1. s.rows = t.rows
      BY <1>1, <1>2, <2>2 DEF Table
    <3>2. SearchFor(t, t.rows)
      BY <1>1, SearchForRows
    <3>3. SearchFor(s, s.rows)
      BY <1>2, <3>1, <3>2 DEF SearchFor
    <3>4. s \in Table
      BY <1>2 DEF RowsInv
    <3> QED
      BY <3>3, <3>4, SearchForRows
  <2> QED
    BY <2>1, <2>2
<1>4. SearchColumns(s)
  BY <1>1, <1>2 DEF SearchColumns
<1>5. Fail(Put(t, k, row, out, in, torn)).t = s
  BY DEF Fail, s
<1> QED
  BY <1>2, <1>3, <1>4, <1>5 DEF RowDone, TableInv

\* check_unique finds every other row that holds the value.
LEMMA UniqueChecked ==
  ASSUME NEW t, TableInv(t), NEW sch \in Schema, Built(sch), NEW k \in Pks, NEW row \in Row,
         NEW old \in {None, t.rows[k]}, CheckUnique(t, sch, k, row, old),
         t.def = sch, t.def # None, NEW c \in sch.unique \ t.torn, Indexable(row, c),
         NEW j \in Live(t) \ {k}
  PROVE  t.rows[j][c] # row[c]
<1>1. SUFFICES ASSUME t.rows[j][c] = row[c] PROVE FALSE
  OBVIOUS
<1>2. c \in sch.unique /\ c \in sch.indexed
  BY DEF Built
<1>3. row # None /\ Cell(row, c) = row[c] /\ row[c] \notin {Null, Absent}
  BY RelationalAssumption DEF Cell, Indexable
<1>4. Indexable(t.rows[j], c)
  BY <1>1, <1>3 DEF Indexable, Cell, Live
<1>5. CASE Cell(old, c) # row[c]
  <2>1. Keyable(row, c) /\ LookupEq(t, c, row[c]) \subseteq {k}
    BY <1>2, <1>5 DEF CheckUnique
  <2>2. Keyable(t.rows[j], c)
    BY <1>1, <1>4, <2>1 DEF Keyable
  <2>3. <<c, t.rows[j][c], j>> \in t.idx
    BY <1>2, <2>2 DEF TableInv, RowsInv, IndexComplete, Covers
  <2>4. j \in LookupEq(t, c, row[c])
    BY <1>1, <2>3 DEF LookupEq
  <2> QED
    BY <2>1, <2>4
<1>6. CASE Cell(old, c) = row[c]
  <2>1. old = t.rows[k] /\ old # None /\ t.rows[k][c] = row[c]
    BY <1>3, <1>6 DEF Cell
  <2>2. k \in Live(t) /\ Indexable(t.rows[k], c)
    BY <1>3, <2>1 DEF Live, Indexable, Cell
  <2> QED
    BY <1>1, <2>1, <2>2 DEF TableInv, RowsInv, UniqueRows, Distinct
<1> QED
  BY <1>5, <1>6

\* The old row stays, without its keys over gone.
LEMMA OldRowFits ==
  ASSUME NEW t, TableInv(t), NEW sch \in Schema, t.def \in {None, sch}, Built(sch),
         NEW k \in Pks, t.rows[k] # None, NEW gone \in SUBSET IndexCols,
         NEW in \in SUBSET (IndexCols \X Cells \X Pks)
  PROVE  RowFits(t, sch, k, t.rows[k], IndexKeys(gone, k, t.rows[k]), in,
                 Keyed(gone, t.rows[k]))
<1> DEFINE old == t.rows[k]
           out == IndexKeys(gone, k, old)
<1>1. t \in Table /\ RowsInv(t) /\ old \in Row /\ CellsTyped(old) /\ k \in Live(t)
  BY DEF TableInv, RowsInv, RowsTyped, CellsTyped, Live, Table
<1> HIDE DEF old
<1>2. /\ \A e \in out : e[1] \in gone /\ e[3] = k
      /\ Keyed(gone, old) \subseteq Indexes
  BY <1>1, IndexKeysFacts
<1> HIDE DEF out
<1>3. ASSUME NEW c \in sch.indexed \ (t.torn \cup Keyed(gone, old)), t.def # None, Keyable(old, c)
      PROVE  <<c, old[c], k>> \in t.idx \ out
  <2>1. c \notin gone
    BY <1>3 DEF Keyed
  <2>2. <<c, old[c], k>> \in t.idx
    BY <1>1, <1>3 DEF RowsInv, IndexComplete, Covers, old
  <2> QED
    BY <1>2, <2>1, <2>2
<1>4. ASSUME NEW c \in sch.unique \ t.torn, t.def # None, Indexable(old, c),
             NEW j \in Live(t) \ {k}
      PROVE  t.rows[j][c] # old[c]
  BY <1>1, <1>4 DEF RowsInv, UniqueRows, Distinct, old
<1>5. AutoIncrement => k < t.next
  BY <1>1 DEF RowsInv
<1>6. RowFits(t, sch, k, old, out, in, Keyed(gone, old))
  BY <1>1, <1>2, <1>3, <1>4, <1>5 DEF RowFits
<1> QED
  BY <1>6 DEF old, out

\* The columns before "s".
LEMMA PassedCols ==
  ASSUME NEW sch \in Schema
  PROVE  Passed(sch) \in SUBSET IndexCols /\ Passed(sch) \subseteq sch.indexed
BY SchemaCols DEF Passed

LEMMA WriteRowStep ==
  ASSUME NEW t, TableInv(t), NEW sch \in Schema, Built(sch), t.def \in {None, sch},
         NEW k \in Pks, AutoIncrement => k < t.next, NEW values \in Row, NEW replace
  PROVE  RowDone(t, k, WriteRow(t, sch, k, values, replace).t)
<1> DEFINE row == WithDefaults(sch, values)
           old == t.rows[k]
           done == Passed(sch)
           before == IndexKeys(sch.indexed, k, old)
           Bad == \/ ~ValidRow(sch, row)
                  \/ old # None /\ ~replace
                  \/ ~CheckUnique(t, sch, k, row, None)
           torn == Keyed(sch.indexed \ done, row) \cup {"fts", "ann"}
           half == IndexKeys(done, k, row)
           full == IndexKeys(sch.indexed, k, row)
           lost == Fail(Put(t, k, old, IndexKeys(done, k, old), {}, Keyed(done, old)))
           stopped == Fail(Put(t, k, row, before, half, torn))
           written == OnRowChange(Put(t, k, row, before, full, {}), k, old, row)
<1>1. /\ WriteRow(t, sch, k, values, replace) =
            IF Bad THEN Fail(t) ELSE IF Stuck(sch, old) THEN lost
            ELSE IF Stuck(sch, row) THEN stopped ELSE written
      /\ t.rows \in [Pks -> Row \cup {None}]
  BY DEF WriteRow, TableInv, RowsInv, Table
<1>2. /\ done \in SUBSET IndexCols /\ sch.indexed \in SUBSET IndexCols
      /\ sch.indexed \ done \in SUBSET IndexCols /\ done \subseteq sch.indexed
  BY PassedCols, SchemaCols
<1>3. CASE Bad
  BY <1>1, <1>3 DEF RowDone, Fail
<1>4. CASE ~Bad /\ Stuck(sch, old)
  <2>1. old # None
    BY <1>4, RelationalAssumption DEF Stuck, Cell
  <2>2. RowFits(t, sch, k, old, IndexKeys(done, k, old), {}, Keyed(done, old))
    <3> HIDE DEF done
    <3> QED
      BY <1>2, <2>1, OldRowFits
  <2>3. old \in Row \cup {None}
    BY <1>1
  <2>4. RowDone(t, k, lost.t)
    <3> HIDE DEF done
    <3> QED
      BY <2>2, <2>3, RowFails
  <2> QED
    BY <1>1, <1>4, <2>4
<1>5. CASE ~Bad /\ ~Stuck(sch, old)
  <2>1. row \in Row
    BY DEF WithDefaults, Row, Schema
  <2>2. row # None /\ CellsTyped(row)
    BY <1>5, <2>1, RelationalAssumption DEF ValidRow, CellsTyped
  <2>3. old \in Row \cup {None}
    BY <1>1
  <2>4. ASSUME NEW c \in sch.unique \ t.torn, t.def # None, Indexable(row, c),
               NEW j \in Live(t) \ {k}
        PROVE  t.rows[j][c] # row[c]
    <3> HIDE DEF row
    <3> QED
      BY <1>5, <2>1, <2>4, UniqueChecked
  <2>5. CheckUnique(t, sch, k, row, None)
    BY <1>5
  <2> HIDE DEF row, old, done
  <2>6. \A e \in before : e[3] = k
    BY <1>2, <2>3, IndexKeysFacts
  <2>7. /\ half \subseteq IndexCols \X Cells \X Pks /\ full \subseteq IndexCols \X Cells \X Pks
        /\ \A c \in done : Keyable(row, c) => <<c, row[c], k>> \in half
        /\ \A c \in sch.indexed : Keyable(row, c) => <<c, row[c], k>> \in full
        /\ torn \subseteq Indexes
    BY <1>2, <2>1, IndexKeysFacts DEF Indexes
  <2>8. \A c \in sch.indexed \ torn : Keyable(row, c) => c \in done
    BY DEF Keyed
  <2> HIDE DEF before, half, full, torn
  <2>9. RowFits(t, sch, k, row, before, half, torn)
    BY <2>2, <2>4, <2>6, <2>7, <2>8 DEF RowFits
  <2>10. RowFits(t, sch, k, row, before, full, {})
    BY <2>2, <2>4, <2>6, <2>7 DEF RowFits
  <2>11. row \in Row \cup {None}
    BY <2>1
  <2>12. RowDone(t, k, stopped.t)
    <3>1. {"fts", "ann"} \subseteq torn
      BY DEF torn
    <3> QED
      BY <2>9, <2>11, <3>1, RowFails
  <2>13. RowDone(t, k, written.t)
    BY <2>10, <2>11, RowStep DEF old
  <2> QED
    BY <1>1, <1>5, <2>12, <2>13
<1> QED
  BY <1>3, <1>4, <1>5

LEMMA DeleteRowStep ==
  ASSUME NEW t, TableInv(t), NEW sch \in Schema, t.def \in {None, sch}, NEW k \in Pks
  PROVE  RowDone(t, k, DeleteRow(t, sch, k).t)
<1> DEFINE old == t.rows[k]
           some == IndexKeys(Passed(sch), k, old)
           all == IndexKeys(sch.indexed, k, old)
           stopped == Fail(Put(t, k, None, some, {}, {"fts", "ann"}))
           deleted == OnRowChange(Put(t, k, None, all, {}, {}), k, old, None)
<1>1. /\ DeleteRow(t, sch, k) =
            IF old = None THEN Ok(t) ELSE IF Stuck(sch, old) THEN stopped ELSE deleted
      /\ old \in Row \cup {None}
  BY DEF DeleteRow, TableInv, RowsInv, Table
<1>2. CASE old = None
  BY <1>1, <1>2 DEF RowDone, Ok
<1>3. \A e \in some \cup all : e[3] = k
  <2> HIDE DEF old
  <2>1. Passed(sch) \in SUBSET IndexCols /\ sch.indexed \in SUBSET IndexCols
    BY PassedCols, SchemaCols
  <2>2. \A e \in some : e[3] = k
    BY <1>1, <2>1, IndexKeysFacts
  <2>3. \A e \in all : e[3] = k
    BY <1>1, <2>1, IndexKeysFacts
  <2> QED
    BY <2>2, <2>3
<1>4. {"fts", "ann"} \subseteq Indexes
  BY DEF Indexes
<1> HIDE DEF some, all
<1>5. RowFits(t, sch, k, None, some, {}, {"fts", "ann"}) /\ RowFits(t, sch, k, None, all, {}, {})
  BY <1>3, <1>4, NothingIndexed DEF RowFits
<1>6. None \in Row \cup {None}
  OBVIOUS
<1>7. RowDone(t, k, stopped.t)
  BY <1>5, <1>6, RowFails
<1>8. RowDone(t, k, deleted.t)
  BY <1>5, <1>6, RowStep
<1> QED
  BY <1>1, <1>2, <1>7, <1>8

LEMMA UpdateRowStep ==
  ASSUME NEW t, TableInv(t), NEW sch \in Schema, Built(sch), t.def \in {None, sch},
         NEW k \in Pks, NEW change \in Row
  PROVE  RowDone(t, k, UpdateRow(t, sch, k, change).t)
<1> DEFINE old == t.rows[k]
           new == [c \in Columns |-> IF change[c] = Absent THEN old[c] ELSE change[c]]
           changed == {c \in sch.indexed : Indexable(old, c) \/ Indexable(new, c)}
                          \cap {c \in sch.indexed : old[c] # new[c]}
           done == changed \cap Passed(sch)
           gone == done \cup {"s"}
           Bad == ~ValidRow(sch, new) \/ ~CheckUnique(t, sch, k, new, old)
           Stops == "s" \in changed /\ (Stuck(sch, old) \/ Stuck(sch, new))
           some == IndexKeys(done, k, new)
           out == IndexKeys(changed, k, old)
           in == IndexKeys(changed, k, new)
           stopped == Fail(Put(t, k, old, IndexKeys(gone, k, old), some, Keyed(gone, old)))
           updated == OnRowChange(Put(t, k, new, out, in, {}), k, old, new)
<1>1. /\ UpdateRow(t, sch, k, change) =
            IF old = None THEN Ok(t) ELSE IF Bad THEN Fail(t)
            ELSE IF Stops THEN stopped ELSE updated
      /\ t.rows \in [Pks -> Row \cup {None}]
  BY DEF UpdateRow, TableInv, RowsInv, Table
<1>2. CASE old = None \/ Bad
  <2> HIDE DEF old, new, Bad, Stops, stopped, updated
  <2>1. UpdateRow(t, sch, k, change).t = t
    BY <1>1, <1>2 DEF Ok, Fail
  <2> QED
    BY <2>1 DEF RowDone
<1>3. CASE old # None /\ ~Bad
  <2>1. changed \in SUBSET IndexCols /\ done \in SUBSET IndexCols /\ gone \in SUBSET IndexCols
    BY SchemaCols DEF IndexCols
  <2>2. old \in Row /\ k \in Live(t)
    BY <1>1, <1>3 DEF Live
  <2>3. new \in Row
    BY <2>2 DEF Row
  <2>4. new # None /\ CellsTyped(new)
    BY <1>3, <2>3, RelationalAssumption DEF ValidRow, CellsTyped
  <2>5. RowDone(t, k, stopped.t)
    <3>1. old \in Row \cup {None} /\ new \in Row \cup {None}
      BY <2>2, <2>3
    <3> HIDE DEF gone, done, new
    <3>2. some \in SUBSET (IndexCols \X Cells \X Pks)
      BY <2>1, <3>1, IndexKeysFacts
    <3> HIDE DEF some
    <3>3. RowFits(t, sch, k, old, IndexKeys(gone, k, old), some, Keyed(gone, old))
      BY <1>3, <2>1, <3>2, OldRowFits
    <3> QED
      BY <3>1, <3>3, RowFails
  <2>6. ASSUME NEW c \in sch.indexed, c \notin changed, Keyable(new, c)
        PROVE  Keyable(old, c) /\ old[c] = new[c]
    <3>1. old[c] = new[c]
      BY <2>6 DEF Keyable
    <3> HIDE DEF new
    <3> QED
      BY <1>3, <2>4, <2>6, <3>1 DEF Keyable, Indexable, Cell
  <2> HIDE DEF new, changed
  <2>7. ASSUME NEW c \in sch.unique \ t.torn, t.def # None, Indexable(new, c),
               NEW j \in Live(t) \ {k}
        PROVE  t.rows[j][c] # new[c]
    BY <1>3, <2>3, <2>7, UniqueChecked
  <2>8. /\ \A e \in out : e[1] \in changed /\ e[3] = k
        /\ in \subseteq IndexCols \X Cells \X Pks
        /\ \A c \in changed : Keyable(new, c) => <<c, new[c], k>> \in in
    <3>1. old \in Row \cup {None} /\ new \in Row \cup {None}
      BY <2>2, <2>3
    <3> HIDE DEF old
    <3> QED
      BY <2>1, <3>1, IndexKeysFacts
  <2> HIDE DEF out, in
  <2>9. ASSUME NEW c \in sch.indexed \ t.torn, t.def # None, Keyable(new, c)
        PROVE  <<c, new[c], k>> \in (t.idx \ out) \cup in
    <3>1. CASE c \in changed
      BY <2>8, <2>9, <3>1
    <3>2. CASE c \notin changed
      <4>1. Keyable(old, c) /\ old[c] = new[c]
        BY <2>6, <2>9, <3>2
      <4>2. <<c, old[c], k>> \in t.idx
        BY <2>2, <2>9, <4>1 DEF TableInv, RowsInv, IndexComplete, Covers
      <4> QED
        BY <2>8, <3>2, <4>1, <4>2
    <3> QED
      BY <3>1, <3>2
  <2>10. AutoIncrement => k < t.next
    BY <2>2 DEF TableInv, RowsInv
  <2>11. RowFits(t, sch, k, new, out, in, {})
    BY <2>4, <2>7, <2>8, <2>9, <2>10 DEF RowFits
  <2>12. RowDone(t, k, updated.t)
    <3>1. new \in Row \cup {None}
      BY <2>3
    <3> QED
      BY <2>11, <3>1, RowStep
  <2> QED
    BY <1>1, <1>3, <2>5, <2>12
<1> QED
  BY <1>2, <1>3

-----------------------------------------------------------------------------
\* The catalog.

\* u has t's rows, key counter and search indexes.
SameData(t, u) ==
    /\ u.rows = t.rows /\ u.next = t.next /\ u.fts = t.fts /\ u.ann = t.ann

\* u has t's search indexes torn, or not.
SameSearchTorn(t, u) == \A n \in {"fts", "ann"} : n \in u.torn <=> n \in t.torn

\* u keeps what t has of the index over c; the index over c of u is right.
Kept(t, u, c) ==
    /\ c \in u.torn <=> c \in t.torn
    /\ \A e \in t.idx : e[1] = c => e \in u.idx
Right(u, sch, c) == c \notin u.torn => Covers(u, c) /\ (c \in sch.unique => Distinct(u, c))

LEMMA RebuildStep ==
  ASSUME NEW t \in Table, NEW sch \in Schema, NEW c \in IndexCols
  PROVE  LET r == RebuildIndex(t, sch, c)
         IN  /\ r.t \in Table /\ SameData(t, r.t) /\ r.t.def = t.def /\ SameSearchTorn(t, r.t)
             /\ Right(r.t, sch, c) /\ \A d \in IndexCols \ {c} : Kept(t, r.t, d)
<1> DEFINE has == {k \in Live(t) : Indexable(t.rows[k], c)}
           bad == {k \in has : t.rows[k][c] \in Unkeyable \/ (c \in sch.unique /\ Repeats(t, c, k))}
           done == {k \in has : \A j \in bad : k < j}
           keys == {<<c, t.rows[k][c], k>> : k \in done}
           idx == {e \in t.idx : e[1] # c} \cup keys
           torn == IF bad = {} THEN t.torn \ {c} ELSE t.torn \cup {c}
           u == RebuildIndex(t, sch, c).t
<1> SUFFICES /\ u \in Table /\ SameData(t, u) /\ u.def = t.def /\ SameSearchTorn(t, u)
             /\ Right(u, sch, c) /\ \A d \in IndexCols \ {c} : Kept(t, u, d)
  OBVIOUS
<1>1. \A k \in Live(t) : k \in Pks /\ k \in Int /\ t.rows[k] \in Row /\ t.rows[k][c] \in Cells
  BY PksFinite DEF Table, Live, Row, IndexCols, Columns
<1>2. keys \subseteq IndexCols \X Cells \X Pks /\ \A e \in keys : e[1] = c
  BY <1>1
<1>3. u = [t EXCEPT !.idx = idx, !.torn = torn]
  BY DEF RebuildIndex, Ok, Fail
<1>4. ASSUME bad = {} PROVE \A k \in has : <<c, t.rows[k][c], k>> \in idx
  BY <1>4
<1>5. ASSUME bad = {}, c \in sch.unique PROVE Distinct(t, c)
  <2>1. \A k \in has : ~Repeats(t, c, k)
    BY <1>5
  <2>2. SUFFICES ASSUME NEW j \in Live(t), NEW k \in Live(t), j # k,
                        Indexable(t.rows[j], c), t.rows[j][c] = t.rows[k][c]
                 PROVE  FALSE
    BY DEF Distinct
  <2>3. j \in has /\ k \in has
    BY <2>2 DEF Indexable, Cell, Live
  <2>4. j < k \/ k < j
    BY <1>1, <2>2
  <2> QED
    BY <2>1, <2>2, <2>3, <2>4 DEF Repeats
<1>6. idx \subseteq IndexCols \X Cells \X Pks
  <2> HIDE DEF keys
  <2> QED
    BY <1>2 DEF Table
<1>7. torn \subseteq Indexes
  <2> HIDE DEF bad
  <2> QED
    BY DEF Table, Indexes
<1>8. \A d \in IndexCols \ {c} : \A e \in t.idx : e[1] = d => e \in idx
  OBVIOUS
<1>9. /\ \A d \in Indexes \ {c} : d \in torn <=> d \in t.torn
      /\ c \notin torn => bad = {}
  <2> HIDE DEF bad
  <2> QED
    OBVIOUS
<1>10. c \notin {"fts", "ann"} /\ IndexCols \subseteq Indexes /\ {"fts", "ann"} \subseteq Indexes
  BY DEF IndexCols, Indexes
<1> HIDE DEF idx, torn, u
<1>11. /\ u \in Table /\ SameData(t, u) /\ u.def = t.def /\ u.idx = idx /\ u.torn = torn
  BY <1>3, <1>6, <1>7 DEF Table, SameData
<1>12. Live(u) = Live(t) /\ u.rows = t.rows
  BY <1>11 DEF Live, SameData
<1>13. SameSearchTorn(t, u)
  BY <1>9, <1>10, <1>11 DEF SameSearchTorn
<1>14. \A d \in IndexCols \ {c} : Kept(t, u, d)
  BY <1>8, <1>9, <1>10, <1>11 DEF Kept
<1>15. Right(u, sch, c)
  <2> SUFFICES ASSUME c \notin u.torn PROVE Covers(u, c) /\ (c \in sch.unique => Distinct(u, c))
    BY DEF Right
  <2>1. bad = {}
    BY <1>9, <1>11
  <2>2. Covers(u, c)
    <3>1. \A k \in Live(t) : Keyable(t.rows[k], c) => k \in has
      BY DEF Keyable
    <3> HIDE DEF has
    <3> QED
      BY <1>4, <1>11, <1>12, <2>1, <3>1 DEF Covers
  <2>3. ASSUME c \in sch.unique PROVE Distinct(u, c)
    BY <1>5, <1>12, <2>1, <2>3 DEF Distinct
  <2> QED
    BY <2>2, <2>3
<1> QED
  BY <1>11, <1>13, <1>14, <1>15

\* The indexes over cols, one after the other: the first that fails is torn,
\* and the ones after it are as they were.
LEMMA RebuildAll ==
  ASSUME NEW t \in Table, NEW sch \in Schema, NEW cols \in SUBSET IndexCols
  PROVE  LET r == Rebuild(t, sch, cols)
         IN  /\ r.t \in Table /\ SameData(t, r.t) /\ r.t.def = t.def /\ SameSearchTorn(t, r.t)
             /\ \A c \in IndexCols : Kept(t, r.t, c) \/ (c \in cols /\ Right(r.t, sch, c))
             /\ r.ok => \A c \in cols : Right(r.t, sch, c)
<1> DEFINE first == IF AFirst THEN "a" ELSE "s"
           second == IF AFirst THEN "s" ELSE "a"
           q == IF first \in cols THEN RebuildIndex(t, sch, first) ELSE Ok(t)
           p == RebuildIndex(q.t, sch, second)
           both == q.ok /\ second \in cols
           r == Rebuild(t, sch, cols)
           Same(x, u) == u \in Table /\ SameData(x, u) /\ u.def = x.def /\ SameSearchTorn(x, u)
<1> SUFFICES /\ Same(t, r.t)
             /\ \A c \in IndexCols : Kept(t, r.t, c) \/ (c \in cols /\ Right(r.t, sch, c))
             /\ r.ok => \A c \in cols : Right(r.t, sch, c)
  OBVIOUS
<1>1. r = IF both THEN p ELSE q
  BY DEF Rebuild
<1>2. IndexCols = {first, second} /\ first # second
  BY DEF IndexCols
<1> HIDE DEF first, second
<1>3. /\ Same(t, q.t) /\ Kept(t, q.t, second)
      /\ IF first \in cols THEN Right(q.t, sch, first) ELSE Kept(t, q.t, first)
  <2>1. CASE first \in cols
    BY <1>2, <2>1, RebuildStep
  <2>2. CASE first \notin cols
    BY <2>2 DEF Ok, SameData, SameSearchTorn, Kept
  <2> QED
    BY <2>1, <2>2
<1> HIDE DEF q
<1>4. CASE ~both
  <2>1. r = q
    BY <1>1, <1>4
  <2>2. r.ok => second \notin cols
    BY <1>4, <2>1
  <2> QED
    BY <1>2, <1>3, <2>1, <2>2
<1>5. CASE both
  <2>1. r = p
    BY <1>1, <1>5
  <2>2. Same(q.t, p.t) /\ Right(p.t, sch, second) /\ Kept(q.t, p.t, first)
    BY <1>2, <1>3, RebuildStep
  <2> HIDE DEF p
  <2>3. Same(t, p.t)
    BY <1>3, <2>2 DEF SameData, SameSearchTorn
  <2>4. Live(p.t) = Live(q.t) /\ p.t.rows = q.t.rows
    BY <2>2 DEF SameData, Live
  <2>5. CASE first \in cols
    <3>1. Right(p.t, sch, first)
      BY <1>3, <2>2, <2>4, <2>5 DEF Right, Kept, Covers, Distinct
    <3> QED
      BY <1>2, <1>5, <2>1, <2>2, <2>3, <2>5, <3>1
  <2>6. CASE first \notin cols
    <3>1. Kept(t, p.t, first)
      BY <1>3, <2>2, <2>6 DEF Kept
    <3> QED
      BY <1>2, <1>5, <2>1, <2>2, <2>3, <2>6, <3>1
  <2> QED
    BY <2>5, <2>6
<1> QED
  BY <1>4, <1>5

\* What a catalog statement may store: a table that is right as it stands.
LEMMA StoreDefStep ==
  ASSUME NEW t \in Table, RowsTyped(t), NEW sch \in Schema, Built(sch),
         \A c \in sch.indexed : Right(t, sch, c),
         AutoIncrement => \A k \in Live(t) : k < t.next
  PROVE  LET u == [t EXCEPT !.def = sch]
         IN  /\ RowsInv(u) /\ u.def = sch /\ u.rows = t.rows /\ u.fts = t.fts
             /\ u.ann = t.ann /\ u.torn = t.torn
<1> DEFINE u == [t EXCEPT !.def = sch]
<1> SUFFICES /\ RowsInv(u) /\ u.def = sch /\ u.rows = t.rows /\ u.fts = t.fts
             /\ u.ann = t.ann /\ u.torn = t.torn
  OBVIOUS
<1>1. /\ u \in Table /\ u.def = sch /\ u.rows = t.rows /\ u.idx = t.idx /\ u.next = t.next
      /\ u.fts = t.fts /\ u.ann = t.ann /\ u.torn = t.torn
  BY DEF Table
<1> HIDE DEF u
<1>2. Live(u) = Live(t)
  BY <1>1 DEF Live
<1>3. RowsTyped(u) /\ IndexComplete(u)
  BY <1>1, <1>2 DEF RowsTyped, IndexComplete, Covers, Right
<1>4. UniqueRows(u)
  <2>1. sch.unique \subseteq sch.indexed
    BY DEF Built
  <2> QED
    BY <1>1, <1>2, <2>1 DEF UniqueRows, Distinct, Right
<1> QED
  BY <1>1, <1>2, <1>3, <1>4 DEF RowsInv

LEMMA AdoptStep ==
  ASSUME NEW t, TableInv(t), t.def = None, NEW sch \in Schema, Built(sch)
  PROVE  TableInv(Adopt(t, sch).t)
<1> DEFINE r == IF Live(t) # {} THEN Rebuild(t, sch, sch.indexed) ELSE Ok(t)
           s == r.t
           u == Adopt(t, sch).t
<1> SUFFICES TableInv(u)
  OBVIOUS
<1>1. /\ t \in Table /\ RowsTyped(t) /\ t.fts = None /\ t.ann = None
      /\ AutoIncrement => \A k \in Live(t) : k < t.next
  BY DEF TableInv, RowsInv, SearchColumns
<1>2. /\ s \in Table /\ SameData(t, s) /\ s.def = None
      /\ r.ok => \A c \in sch.indexed : Right(s, sch, c)
  <2>1. CASE Live(t) # {}
    <3>1. sch.indexed \in SUBSET IndexCols
      BY SchemaCols
    <3> QED
      BY <1>1, <2>1, <3>1, RebuildAll
  <2>2. CASE Live(t) = {}
    BY <1>1, <2>2 DEF Ok, SameData, Right, Covers, Distinct
  <2> QED
    BY <2>1, <2>2
<1>3. u = IF r.ok THEN [s EXCEPT !.def = sch] ELSE s
  BY DEF Adopt, StoreDef, Ok
<1> HIDE DEF r, s, u
<1>4. /\ Live(s) = Live(t) /\ RowsTyped(s) /\ s.fts = None /\ s.ann = None
      /\ AutoIncrement => \A k \in Live(s) : k < s.next
  BY <1>1, <1>2 DEF SameData, Live, RowsTyped
<1>5. CASE r.ok
  <2>1. RowsInv(u) /\ u.fts = None /\ u.ann = None
    BY <1>2, <1>3, <1>4, <1>5, StoreDefStep
  <2> QED
    BY <2>1 DEF TableInv, SearchColumns, SearchExact
<1>6. CASE ~r.ok
  <2>1. RowsInv(s)
    BY <1>2, <1>4 DEF RowsInv, IndexComplete, UniqueRows
  <2> QED
    BY <1>3, <1>4, <1>6, <2>1 DEF TableInv, SearchColumns, SearchExact
<1> QED
  BY <1>5, <1>6

\* The search indexes depend on the cells of their columns only.
LEMMA SearchSame ==
  ASSUME NEW rows \in [Pks -> Row \cup {None}], NEW rows2 \in [Pks -> Row \cup {None}]
  PROVE  /\ (\A k \in Pks : Cell(rows[k], "s") = Cell(rows2[k], "s")) => Txt(rows) = Txt(rows2)
         /\ (\A k \in Pks : Cell(rows[k], "v") = Cell(rows2[k], "v"))
                => \A x : AnnExact(x, rows) => AnnExact(x, rows2)
<1>1. \A row : TextOf(row) = IF Cell(row, "s") \in Texts THEN Cell(row, "s") ELSE None
  BY RelationalAssumption DEF TextOf, Cell
<1>2. ASSUME \A k \in Pks : Cell(rows[k], "s") = Cell(rows2[k], "s")
      PROVE  Txt(rows) = Txt(rows2)
  <2>1. \A k \in Pks : TextOf(rows[k]) = TextOf(rows2[k])
    BY <1>1, <1>2
  <2> QED
    BY <2>1 DEF Txt
<1>3. ASSUME \A k \in Pks : Cell(rows[k], "v") = Cell(rows2[k], "v"),
             NEW x, AnnExact(x, rows)
      PROVE  AnnExact(x, rows2)
  <2>1. \A k \in Pks : VecOf(rows[k]) = VecOf(rows2[k])
    BY <1>3, VecOfCell
  <2> QED
    BY <1>3, <2>1 DEF AnnExact
<1> QED
  BY <1>2, <1>3

\* migrate_in's rows: every column both schemas have keeps its cell.
Moved(t, new, rows) ==
    /\ rows \in [Pks -> Row \cup {None}]
    /\ \A k \in Pks : (rows[k] = None <=> t.rows[k] = None)
    /\ \A k \in Live(t) : CellsTyped(rows[k])
    /\ \A k \in Pks : \A c \in t.def.cols \cap new.cols : Cell(rows[k], c) = Cell(t.rows[k], c)

LEMMA MigratedRows ==
  ASSUME NEW t, TableInv(t), t.def # None, NEW new \in Schema, Built(new), NEW S
  PROVE  Moved(t, new, [k \in Pks |-> IF k \in Live(t) /\ k \in S
                                      THEN Migrated(t.def, new, t.rows[k]) ELSE t.rows[k]])
<1> DEFINE m(k) == Migrated(t.def, new, t.rows[k])
           rows == [k \in Pks |-> IF k \in Live(t) /\ k \in S THEN m(k) ELSE t.rows[k]]
<1>1. t.rows \in [Pks -> Row \cup {None}] /\ t.def \in Schema /\ None \notin Row
  BY RelationalAssumption DEF TableInv, RowsInv, Table
<1>2. \A k \in Live(t) : k \in Pks /\ t.rows[k] \in Row /\ CellsTyped(t.rows[k])
  BY <1>1 DEF TableInv, RowsInv, RowsTyped, Live, CellsTyped
<1>3. ASSUME NEW k \in Live(t)
      PROVE  /\ m(k) \in Row /\ CellsTyped(m(k))
             /\ \A c \in t.def.cols \cap new.cols : m(k)[c] = t.rows[k][c]
  <2>1. new.dflt \in Row /\ t.rows[k] \in Row /\ t.def.cols \subseteq Columns
    BY <1>1, <1>2 DEF Schema
  <2>2. \A c \in Columns :
           m(k)[c] = IF c \notin new.cols THEN Absent
                     ELSE IF c \notin t.def.cols /\ t.rows[k][c] = Absent THEN new.dflt[c]
                     ELSE t.rows[k][c]
    BY DEF Migrated
  <2>3. m(k) \in Row
    BY <2>1 DEF Migrated, Row, Cells
  <2>4. CellsTyped(m(k))
    <3> HIDE DEF m
    <3> QED
      BY <1>2, <2>2 DEF CellsTyped, Built
  <2> HIDE DEF m
  <2> QED
    BY <2>1, <2>2, <2>3, <2>4
<1> HIDE DEF m
<1>4. \A k \in Pks : rows[k] = IF k \in Live(t) /\ k \in S THEN m(k) ELSE t.rows[k]
  OBVIOUS
<1>5. rows \in [Pks -> Row \cup {None}]
  BY <1>1, <1>3
<1> HIDE DEF rows
<1>6. \A k \in Pks : (rows[k] = None <=> t.rows[k] = None)
  BY <1>1, <1>3, <1>4 DEF Live
<1>7. \A k \in Live(t) : CellsTyped(rows[k])
  BY <1>2, <1>3, <1>4
<1>8. ASSUME NEW k \in Pks, NEW c \in t.def.cols \cap new.cols
      PROVE  Cell(rows[k], c) = Cell(t.rows[k], c)
  BY <1>1, <1>3, <1>4, <1>6 DEF Cell, Live
<1>9. Moved(t, new, rows)
  BY <1>5, <1>6, <1>7, <1>8 DEF Moved
<1> QED
  BY <1>9 DEF rows, m

\* What a migration leaves: a failed one, the old schema over rows that are
\* partly moved; one that succeeds, the new schema with all that depends on it.
LEMMA MigrateStep ==
  ASSUME NEW t, TableInv(t), t.def # None, NEW new \in Schema, Built(new)
  PROVE  LET r == Migrate(t, new)
         IN  /\ ~r.ok => TableInv(r.t)
             /\ r.ok => /\ RowsInv(r.t) /\ r.t.def = new /\ Moved(t, new, r.t.rows)
                        /\ r.t.fts = t.fts /\ r.t.ann = t.ann /\ SameSearchTorn(t, r.t)
<1> DEFINE old == t.def
           row(k) == Migrated(old, new, t.rows[k])
           bad == {k \in Live(t) : ~ValidRow(new, row(k))}
           S == {k \in Pks : \A j \in bad : k < j}
           rows == [k \in Pks |-> IF k \in Live(t) /\ k \in S THEN row(k) ELSE t.rows[k]]
           moved == [t EXCEPT !.rows = rows]
           dropped == old.indexed \ new.indexed
           cleared == [moved EXCEPT !.idx = {e \in @ : e[1] \notin dropped}]
           q == IF bad # {} THEN Fail(moved) ELSE Rebuild(cleared, new, Rebuilds(old, new))
           s == q.t
           r == Migrate(t, new)
<1> SUFFICES /\ ~r.ok => TableInv(r.t)
             /\ r.ok => /\ RowsInv(r.t) /\ r.t.def = new /\ Moved(t, new, r.t.rows)
                        /\ r.t.fts = t.fts /\ r.t.ann = t.ann /\ SameSearchTorn(t, r.t)
  OBVIOUS
<1>1. /\ t \in Table /\ old \in Schema /\ Built(old) /\ t.rows \in [Pks -> Row \cup {None}]
      /\ new.indexed \subseteq IndexCols /\ old.indexed \subseteq IndexCols
      /\ old.unique \subseteq old.indexed /\ new.unique \subseteq new.indexed
      /\ old.indexed \subseteq old.cols /\ new.indexed \subseteq new.cols
  BY SchemaCols DEF TableInv, RowsInv, Table, Built
<1>2. Moved(t, new, rows)
  <2> HIDE DEF S
  <2> QED
    BY MigratedRows
<1>3. r = IF q.ok THEN StoreDef(s, new)
          ELSE Fail([s EXCEPT !.torn = @ \cup dropped \cup {"fts", "ann"}])
  <2>1. rows = [k \in Pks |-> IF k \in Live(t) /\ \A j \in bad : k < j THEN row(k)
                              ELSE t.rows[k]]
    <3> HIDE DEF row, bad
    <3> QED
      OBVIOUS
  <2> HIDE DEF rows
  <2> QED
    BY <2>1 DEF Migrate
<1> HIDE DEF rows, bad, row
<1>4. /\ moved \in Table /\ moved.rows = rows /\ moved.def = old /\ moved.idx = t.idx
      /\ moved.next = t.next /\ moved.fts = t.fts /\ moved.ann = t.ann /\ moved.torn = t.torn
  BY <1>1, <1>2 DEF Table, Moved
<1> HIDE DEF moved
<1>5. /\ cleared \in Table /\ SameData(moved, cleared) /\ cleared.def = old
      /\ cleared.torn = t.torn /\ \A e \in t.idx : e[1] \notin dropped => e \in cleared.idx
  BY <1>4 DEF Table, SameData
<1> HIDE DEF cleared
<1>6. /\ s \in Table /\ SameData(moved, s) /\ s.def = old /\ SameSearchTorn(t, s)
      /\ \A c \in IndexCols \ dropped :
             Kept(t, s, c) \/ (c \in Rebuilds(old, new) /\ Right(s, new, c))
      /\ q.ok => \A c \in Rebuilds(old, new) : Right(s, new, c)
  <2>1. CASE bad # {}
    <3>1. q.ok = FALSE /\ s = moved
      BY <2>1 DEF Fail
    <3> HIDE DEF q, s
    <3> QED
      BY <1>4, <3>1 DEF SameData, SameSearchTorn, Kept
  <2>2. CASE bad = {}
    <3>1. q = Rebuild(cleared, new, Rebuilds(old, new))
      BY <2>2
    <3>2. Rebuilds(old, new) \in SUBSET IndexCols
      BY <1>1 DEF Rebuilds
    <3>3. /\ s \in Table /\ SameData(cleared, s) /\ s.def = cleared.def /\ SameSearchTorn(cleared, s)
          /\ \A c \in IndexCols :
                 Kept(cleared, s, c) \/ (c \in Rebuilds(old, new) /\ Right(s, new, c))
          /\ q.ok => \A c \in Rebuilds(old, new) : Right(s, new, c)
      <4> HIDE DEF q
      <4> QED
        BY <1>5, <3>1, <3>2, RebuildAll
    <3> HIDE DEF q, s, dropped
    <3>4. \A c \in IndexCols \ dropped : Kept(cleared, s, c) => Kept(t, s, c)
      BY <1>5 DEF Kept
    <3> QED
      BY <1>5, <3>3, <3>4 DEF SameData, SameSearchTorn
  <2> QED
    BY <2>1, <2>2
<1> HIDE DEF q, s, r
<1>7. /\ Live(s) = Live(t) /\ RowsTyped(s) /\ s.rows = rows
      /\ AutoIncrement => \A k \in Live(s) : k < s.next
  BY <1>2, <1>4, <1>6 DEF SameData, Live, RowsTyped, Moved, CellsTyped, TableInv, RowsInv
<1>8. ASSUME NEW c \in old.cols \cap new.cols
      PROVE  /\ Kept(t, s, c) /\ Covers(t, c) => Covers(s, c)
             /\ Distinct(t, c) => Distinct(s, c)
  <2>1. \A k \in Live(t) : Cell(rows[k], c) = Cell(t.rows[k], c) /\ rows[k] # None
    BY <1>2 DEF Moved, Live
  <2>2. \A k \in Live(t) : /\ rows[k][c] = t.rows[k][c]
                           /\ Indexable(rows[k], c) <=> Indexable(t.rows[k], c)
                           /\ Keyable(rows[k], c) <=> Keyable(t.rows[k], c)
    BY <2>1 DEF Cell, Indexable, Keyable, Live
  <2>3. ASSUME Kept(t, s, c), Covers(t, c) PROVE Covers(s, c)
    <3>1. ASSUME NEW k \in Live(s), Keyable(s.rows[k], c) PROVE <<c, s.rows[k][c], k>> \in s.idx
      <4>1. <<c, t.rows[k][c], k>> \in t.idx
        BY <1>7, <2>2, <2>3, <3>1 DEF Covers
      <4>2. <<c, t.rows[k][c], k>> \in s.idx
        BY <2>3, <4>1 DEF Kept
      <4> QED
        BY <1>7, <2>2, <4>2
    <3> QED
      BY <3>1 DEF Covers
  <2>4. ASSUME Distinct(t, c) PROVE Distinct(s, c)
    BY <1>7, <2>2, <2>4 DEF Distinct
  <2> QED
    BY <2>3, <2>4
<1>9. ASSUME NEW c \in old.indexed \cap new.indexed, c \notin Rebuilds(old, new), c \notin s.torn
      PROVE  c \notin t.torn /\ Covers(s, c) /\ (c \in old.unique => Distinct(s, c))
  <2>1. Kept(t, s, c) /\ c \in old.cols \cap new.cols
    BY <1>1, <1>6, <1>9
  <2>2. c \notin t.torn
    BY <1>9, <2>1 DEF Kept
  <2> QED
    BY <1>8, <2>1, <2>2 DEF TableInv, RowsInv, IndexComplete, UniqueRows
<1>10. CASE q.ok
  <2>1. r.ok = TRUE /\ r.t = [s EXCEPT !.def = new]
    BY <1>3, <1>10 DEF StoreDef, Ok
  <2>2. ASSUME NEW c \in new.indexed PROVE Right(s, new, c)
    <3>1. CASE c \in Rebuilds(old, new)
      BY <1>6, <1>10, <3>1
    <3>2. CASE c \notin Rebuilds(old, new)
      <4>1. c \in old.indexed /\ (c \in new.unique => c \in old.unique)
        BY <2>2, <3>2 DEF Rebuilds
      <4> QED
        BY <1>9, <2>2, <3>2, <4>1 DEF Right
    <3> QED
      BY <3>1, <3>2
  <2>3. /\ RowsInv(r.t) /\ r.t.def = new /\ r.t.rows = s.rows /\ r.t.fts = s.fts
        /\ r.t.ann = s.ann /\ r.t.torn = s.torn
    BY <1>6, <1>7, <2>1, <2>2, StoreDefStep
  <2> QED
    BY <1>2, <1>4, <1>6, <1>7, <2>1, <2>3 DEF SameData, SameSearchTorn
<1>11. CASE ~q.ok
  <2> DEFINE torn == s.torn \cup dropped \cup {"fts", "ann"}
             u == [s EXCEPT !.torn = torn]
  <2>1. r.ok = FALSE /\ r.t = u
    BY <1>3, <1>11 DEF Fail
  <2>2. torn \subseteq Indexes
    BY <1>1, <1>6 DEF Table, Indexes
  <2>3. \A c \in old.indexed \ torn : c \in new.indexed /\ c \notin s.torn
    OBVIOUS
  <2>4. {"fts", "ann"} \subseteq torn
    OBVIOUS
  <2> HIDE DEF torn
  <2>5. /\ u \in Table /\ u.def = s.def /\ u.rows = s.rows /\ u.next = s.next
        /\ u.fts = s.fts /\ u.ann = s.ann /\ u.torn = torn /\ u.idx = s.idx
    BY <1>6, <2>2 DEF Table
  <2> HIDE DEF u
  <2>6. Live(u) = Live(s)
    BY <2>5 DEF Live
  <2>7. ASSUME NEW c \in old.indexed \ torn
        PROVE  Covers(u, c) /\ (c \in old.unique => Distinct(u, c))
    <3>1. Covers(s, c) /\ (c \in old.unique => Distinct(s, c))
      <4>1. c \in old.indexed \cap new.indexed /\ c \notin s.torn
        BY <2>3, <2>7
      <4>2. CASE c \notin Rebuilds(old, new)
        BY <1>9, <4>1, <4>2
      <4>3. CASE c \in Rebuilds(old, new)
        <5>1. c \notin old.unique /\ c \in IndexCols \ dropped
          BY <1>1, <4>1, <4>3 DEF Rebuilds
        <5>2. CASE Right(s, new, c)
          BY <4>1, <5>1, <5>2 DEF Right
        <5>3. CASE Kept(t, s, c)
          <6>1. c \in old.cols \cap new.cols
            BY <1>1, <4>1
          <6>2. c \notin t.torn
            BY <4>1, <5>3 DEF Kept
          <6> QED
            BY <1>8, <4>1, <5>1, <5>3, <6>1, <6>2 DEF TableInv, RowsInv, IndexComplete
        <5> QED
          BY <1>6, <5>1, <5>2, <5>3
      <4> QED
        BY <4>2, <4>3
    <3> QED
      BY <2>5, <2>6, <3>1 DEF Covers, Distinct
  <2>8. RowsInv(u)
    <3>1. IndexComplete(u) /\ UniqueRows(u)
      BY <1>1, <1>6, <2>5, <2>7 DEF IndexComplete, UniqueRows
    <3> QED
      BY <1>1, <1>6, <1>7, <2>5, <2>6, <3>1 DEF RowsInv, RowsTyped
  <2>9. SearchColumns(u) /\ SearchExact(u)
    BY <1>4, <1>6, <2>4, <2>5 DEF TableInv, SearchColumns, SearchExact, SameData
  <2> QED
    BY <2>1, <2>8, <2>9 DEF TableInv
<1> QED
  BY <1>10, <1>11

\* A table whose search indexes change, and nothing else.
LEMMA SearchStep ==
  ASSUME NEW t, TableInv(t), NEW u \in Table, SameRows(t, u), SearchColumns(u), SearchExact(u)
  PROVE  TableInv(u)
BY RowsInvSame DEF TableInv

LEMMA EnsureStep ==
  ASSUME NEW t, TableInv(t), NEW sch \in Schema, Built(sch)
  PROVE  TableInv(EnsureTable(t, sch).t)
<1>1. CASE t.def = None
  BY <1>1, AdoptStep DEF EnsureTable
<1>2. CASE t.def # None /\ t.def = sch
  <2>1. EnsureTable(t, sch) = Ok(t)
    BY <1>2 DEF EnsureTable
  <2> QED
    BY <2>1 DEF Ok
<1>3. CASE t.def # None /\ t.def # sch
  <2> DEFINE r == Migrate(t, sch)
             s == r.t
             u == RetainValid(s, sch)
  <2>1. EnsureTable(t, sch).t = IF r.ok THEN u ELSE s
    BY <1>3 DEF EnsureTable, Ok
  <2>2. /\ ~r.ok => TableInv(s)
        /\ r.ok => /\ RowsInv(s) /\ s.def = sch /\ Moved(t, sch, s.rows)
                   /\ s.fts = t.fts /\ s.ann = t.ann /\ SameSearchTorn(t, s)
    BY <1>3, MigrateStep
  <2> HIDE DEF r, s
  <2>3. ASSUME r.ok PROVE TableInv(u)
    <3>1. s \in Table /\ t \in Table
      BY <2>2, <2>3 DEF TableInv, RowsInv
    <3>2. /\ u \in Table /\ u.rows = s.rows /\ u.def = sch /\ SameSearchTorn(t, u)
          /\ u.fts = (IF "s" \in sch.cols THEN t.fts ELSE None)
          /\ u.ann = (IF "v" \in sch.cols THEN t.ann ELSE None)
          /\ SameRows(s, u)
      BY <2>2, <2>3, <3>1 DEF RetainValid, Table, SameRows, SameSearchTorn
    <3> HIDE DEF u
    <3>3. RowsInv(u)
      BY <2>2, <2>3, <3>2, RowsInvSame
    <3>4. SearchColumns(u)
      <4>1. sch # None
        BY RelationalAssumption
      <4> QED
        BY <3>2, <4>1 DEF SearchColumns
    <3>5. /\ s.rows \in [Pks -> Row \cup {None}] /\ t.rows \in [Pks -> Row \cup {None}]
          /\ \A k \in Pks : \A c \in t.def.cols \cap sch.cols :
                 Cell(s.rows[k], c) = Cell(t.rows[k], c)
      BY <2>2, <2>3, <3>1 DEF Moved, Table
    <3>6. ASSUME "fts" \notin t.torn, u.fts # None PROVE u.fts = FtsFor(Txt(u.rows))
      <4>1. "s" \in t.def.cols \cap sch.cols /\ u.fts = t.fts /\ t.fts # None
        BY <3>2, <3>6 DEF TableInv, SearchColumns
      <4>2. t.fts = FtsFor(Txt(t.rows))
        BY <3>1, <3>6, <4>1, SearchForRows DEF TableInv, SearchFor
      <4>3. Txt(t.rows) = Txt(s.rows)
        BY <3>5, <4>1, SearchSame
      <4> QED
        BY <3>2, <4>1, <4>2, <4>3
    <3>7. ASSUME "ann" \notin t.torn, u.ann # None PROVE AnnExact(u.ann, u.rows)
      <4>1. "v" \in t.def.cols \cap sch.cols /\ u.ann = t.ann /\ t.ann # None
        BY <3>2, <3>7 DEF TableInv, SearchColumns
      <4>2. AnnExact(t.ann, t.rows)
        BY <3>1, <3>7, <4>1, SearchForRows DEF TableInv, SearchFor
      <4>3. \A x : AnnExact(x, t.rows) => AnnExact(x, s.rows)
        BY <3>5, <4>1, SearchSame
      <4> QED
        BY <3>2, <4>1, <4>2, <4>3
    <3>8. SearchFor(u, u.rows)
      BY <3>2, <3>6, <3>7 DEF SearchFor, SameSearchTorn
    <3> QED
      BY <3>2, <3>3, <3>4, <3>8, SearchForRows DEF TableInv
  <2> QED
    BY <2>1, <2>2, <2>3
<1> QED
  BY <1>1, <1>2, <1>3

\* create_index and drop_index rebuild the registered schema.
LEMMA WithIndex ==
  ASSUME NEW sch \in Schema, Built(sch), NEW c \in IndexCols, c \in sch.cols
  PROVE  /\ [sch EXCEPT !.indexed = @ \cup {c}] \in Schema
         /\ Built([sch EXCEPT !.indexed = @ \cup {c}])
<1> DEFINE n == [sch EXCEPT !.indexed = @ \cup {c}]
<1>1. /\ n \in Schema /\ n.indexed = sch.indexed \cup {c} /\ n.cols = sch.cols
      /\ n.notNull = sch.notNull /\ n.unique = sch.unique /\ n.dflt = sch.dflt
  BY DEF Schema
<1> HIDE DEF n
<1>2. Built(n)
  BY <1>1 DEF Built
<1> QED
  BY <1>1, <1>2 DEF n

LEMMA WithoutIndex ==
  ASSUME NEW sch \in Schema, Built(sch), NEW c
  PROVE  /\ [sch EXCEPT !.indexed = @ \ {c}, !.unique = @ \ {c}] \in Schema
         /\ Built([sch EXCEPT !.indexed = @ \ {c}, !.unique = @ \ {c}])
<1> DEFINE n == [sch EXCEPT !.indexed = @ \ {c}, !.unique = @ \ {c}]
<1>1. /\ n \in Schema /\ n.indexed = sch.indexed \ {c} /\ n.cols = sch.cols
      /\ n.notNull = sch.notNull /\ n.unique = sch.unique \ {c} /\ n.dflt = sch.dflt
  BY DEF Schema
<1> HIDE DEF n
<1>2. Built(n)
  BY <1>1 DEF Built
<1> QED
  BY <1>1, <1>2 DEF n

LEMMA NewTableInv ==
  ASSUME NEW idx \in SUBSET (IndexCols \X Cells \X Pks)
  PROVE  TableInv([NewTable EXCEPT !.idx = idx]) /\ TableInv(NewTable)
<1>1. ASSUME NEW t \in Table, t.def = None, t.rows = [k \in Pks |-> None],
             t.fts = None, t.ann = None
      PROVE  TableInv(t)
  <2>1. Live(t) = {}
    BY <1>1 DEF Live
  <2> QED
    BY <1>1, <2>1 DEF TableInv, RowsInv, RowsTyped, IndexComplete, UniqueRows,
                      SearchColumns, SearchExact
<1>2. NewTable \in Table
  BY DEF NewTable, Table
<1>3. [NewTable EXCEPT !.idx = idx] \in Table
  BY <1>2 DEF Table
<1> QED
  BY <1>1, <1>2, <1>3 DEF NewTable

-----------------------------------------------------------------------------
\* Creating and dropping the search indexes.

LEMMA SetFts ==
  ASSUME NEW t, TableInv(t), NEW f \in Fts \cup {None},
         NEW torn \in SUBSET Indexes, torn \ {"fts"} = t.torn \ {"fts"},
         f # None => t.def # None /\ "s" \in t.def.cols
                      /\ ("fts" \notin torn => f = FtsOf(t))
  PROVE  TableInv([t EXCEPT !.fts = f, !.torn = torn])
<1> DEFINE u == [t EXCEPT !.fts = f, !.torn = torn]
<1>1. t \in Table
  BY DEF TableInv, RowsInv
<1>2. u \in Table /\ u.fts = f /\ u.ann = t.ann /\ u.torn = torn
      /\ u.def = t.def /\ u.rows = t.rows /\ u.idx = t.idx /\ u.next = t.next
  BY <1>1 DEF Table
<1> HIDE DEF u
<1>3. SameRows(t, u) /\ ("ann" \in torn <=> "ann" \in t.torn)
  BY <1>2 DEF SameRows, IndexCols
<1>4. SearchColumns(u)
  BY <1>2 DEF TableInv, SearchColumns
<1>5. FtsOf(t) = FtsFor(Txt(t.rows)) /\ SearchFor(t, t.rows)
  BY <1>1, SearchForRows, FtsOfRows DEF Table, TableInv
<1>6. SearchFor(u, u.rows)
  BY <1>2, <1>3, <1>5 DEF SearchFor
<1>7. TableInv(u)
  BY <1>2, <1>3, <1>4, <1>6, SearchForRows, SearchStep
<1> QED
  BY <1>7 DEF u

LEMMA SetAnn ==
  ASSUME NEW t, TableInv(t), NEW x \in Ann \cup {None},
         NEW torn \in SUBSET Indexes, torn \ {"ann"} = t.torn \ {"ann"},
         x # None => t.def # None /\ "v" \in t.def.cols
                      /\ ("ann" \notin torn => AnnExact(x, t.rows))
  PROVE  TableInv([t EXCEPT !.ann = x, !.torn = torn])
<1> DEFINE u == [t EXCEPT !.ann = x, !.torn = torn]
<1>1. t \in Table
  BY DEF TableInv, RowsInv
<1>2. u \in Table /\ u.ann = x /\ u.fts = t.fts /\ u.torn = torn
      /\ u.def = t.def /\ u.rows = t.rows /\ u.idx = t.idx /\ u.next = t.next
  BY <1>1 DEF Table
<1> HIDE DEF u
<1>3. SameRows(t, u) /\ ("fts" \in torn <=> "fts" \in t.torn)
  BY <1>2 DEF SameRows, IndexCols
<1>4. SearchColumns(u)
  BY <1>2 DEF TableInv, SearchColumns
<1>5. FtsOf(t) = FtsFor(Txt(t.rows)) /\ SearchFor(t, t.rows)
  BY <1>1, SearchForRows, FtsOfRows DEF Table, TableInv
<1>6. SearchFor(u, u.rows)
  BY <1>2, <1>3, <1>5 DEF SearchFor
<1>7. TableInv(u)
  BY <1>2, <1>3, <1>4, <1>6, SearchForRows, SearchStep
<1> QED
  BY <1>7 DEF u

LEMMA AnnCreateStep ==
  ASSUME NEW t, TableInv(t), t.def # None, "v" \in t.def.cols
  PROVE  TableInv(AnnCreate(t).t)
<1> DEFINE vec == {k \in Live(t) : Cell(t.rows[k], "v") \in Vecs \ {<<>>}}
           node == {k \in vec : ~Unindexed(t.rows[k]["v"])}
           last == CHOOSE k \in vec : \A j \in vec : j <= k
           dim == IF node # {} THEN Len(t.rows[Least(node)]["v"])
                  ELSE IF vec # {} THEN Len(t.rows[last]["v"]) ELSE 0
           bad == {k \in vec : node # {} /\ Least(node) < k /\ Len(t.rows[k]["v"]) # dim}
           S == {k \in Pks : \A j \in bad : k < j}
           nodes == [k \in Pks |-> IF k \in node /\ k \in S THEN t.rows[k]["v"] ELSE None]
           torn == t.torn \cup {"ann"}
           whole == t.torn \ {"ann"}
           x == [node |-> nodes, dim |-> 0, count |-> 0]
           y == [node |-> nodes, dim |-> dim, count |-> Cardinality(node)]
<1>1. t \in Table /\ t.torn \subseteq Indexes /\ Live(t) \subseteq Pks /\ "ann" \in Indexes
  BY DEF TableInv, RowsInv, Table, Live, Indexes
<1>2. AnnCreate(t).t = IF bad # {} THEN [t EXCEPT !.ann = x, !.torn = torn]
                       ELSE [t EXCEPT !.ann = y, !.torn = whole]
  <2>1. nodes = [k \in Pks |-> IF k \in node /\ \A j \in bad : k < j
                               THEN t.rows[k]["v"] ELSE None]
    <3> HIDE DEF node, bad
    <3> QED
      OBVIOUS
  <2>2. AnnCreate(t) = IF bad # {} THEN Fail([t EXCEPT !.ann = x, !.torn = @ \cup {"ann"}])
                       ELSE Ok([t EXCEPT !.ann = y, !.torn = @ \ {"ann"}])
    <3> HIDE DEF nodes
    <3> QED
      BY <2>1 DEF AnnCreate
  <2>3. /\ [t EXCEPT !.ann = x, !.torn = @ \cup {"ann"}] = [t EXCEPT !.ann = x, !.torn = torn]
        /\ [t EXCEPT !.ann = y, !.torn = @ \ {"ann"}] = [t EXCEPT !.ann = y, !.torn = whole]
    <3> HIDE DEF x, y
    <3> QED
      BY <1>1 DEF Table
  <2> HIDE DEF x, y, bad, torn, whole
  <2> QED
    BY <2>2, <2>3 DEF Ok, Fail
<1>3. \A k \in vec : /\ k \in Pks /\ t.rows[k]["v"] = Cell(t.rows[k], "v")
                     /\ t.rows[k]["v"] \in Vecs /\ Len(t.rows[k]["v"]) \in Nat
                     /\ t.rows[k]["v"] # None
  BY <1>1, VecFacts DEF Cell, Live
<1>4. node \subseteq Pks /\ node \subseteq vec /\ vec \subseteq Pks
  BY <1>1
<1>5. node # {} => Least(node) \in node /\ \A j \in node : Least(node) <= j
  BY <1>4, LeastIn
<1>6. vec # {} => last \in vec
  <2>1. vec \in SUBSET Int /\ IsFiniteSet(vec)
    BY <1>4, PksFinite, FS_Subset
  <2> HIDE DEF vec
  <2>2. vec # {} => \E m \in vec : \A j \in vec : j <= m
    BY <2>1, FiniteHasGreatest
  <2> QED
    BY <2>2 DEF last
<1>7. \A k \in Pks : VecOf(t.rows[k]) = IF k \in node THEN t.rows[k]["v"] ELSE None
  <2>1. ASSUME NEW k \in node PROVE VecOf(t.rows[k]) = t.rows[k]["v"]
    BY <1>3, <2>1 DEF VecOf
  <2>2. ASSUME NEW k \in Pks, k \notin node PROVE VecOf(t.rows[k]) = None
    <3>1. SUFFICES ASSUME Cell(t.rows[k], "v") \in Vecs, ~Unindexed(t.rows[k]["v"]) PROVE FALSE
      BY DEF VecOf
    <3>2. t.rows[k] # None /\ Cell(t.rows[k], "v") = t.rows[k]["v"]
      BY <3>1, RelationalAssumption DEF Cell
    <3>3. k \in Live(t) /\ t.rows[k]["v"] # <<>>
      BY <3>1, <3>2, VecFacts DEF Live
    <3> QED
      BY <2>2, <3>1, <3>2, <3>3
  <2> QED
    BY <2>1, <2>2
<1> HIDE DEF vec, node, last
<1>8. dim \in Nat
  BY <1>3, <1>4, <1>5, <1>6
<1>9. nodes \in [Pks -> Vecs \cup {None}]
  BY <1>3, <1>4
<1>10. IsFiniteSet(node) /\ Cardinality(node) \in Nat
  BY <1>4, PksFinite, FS_Subset, FS_CardinalityType
<1>11. CASE bad # {}
  <2>1. x \in Ann
    <3> HIDE DEF nodes
    <3> QED
      BY <1>9 DEF Ann
  <2> HIDE DEF x, bad
  <2>2. torn \in SUBSET Indexes /\ torn \ {"ann"} = t.torn \ {"ann"} /\ "ann" \in torn
    BY <1>1
  <2> HIDE DEF torn
  <2>3. TableInv([t EXCEPT !.ann = x, !.torn = torn])
    BY <2>1, <2>2, SetAnn
  <2> QED
    BY <1>2, <1>11, <2>3
<1>12. CASE bad = {}
  <2>1. \A k \in Pks : nodes[k] = VecOf(t.rows[k])
    <3>1. S = Pks
      BY <1>12
    <3> HIDE DEF S
    <3> QED
      BY <1>7, <3>1
  <2>2. ASSUME NEW k \in node PROVE Len(t.rows[k]["v"]) = dim
    <3>1. CASE Least(node) = k
      BY <3>1
    <3>2. CASE Least(node) # k
      <4>1. Least(node) \in Int /\ k \in Int /\ Least(node) <= k
        BY <1>4, <1>5, PksFinite
      <4>2. Least(node) < k /\ k \in vec
        BY <1>4, <3>2, <4>1
      <4> HIDE DEF dim
      <4> QED
        BY <1>12, <4>2
    <3> QED
      BY <3>1, <3>2
  <2> HIDE DEF dim, nodes
  <2>3. y \in Ann /\ y.node = nodes /\ y.dim = dim /\ y.count = Cardinality(node)
    BY <1>8, <1>9, <1>10 DEF Ann
  <2> HIDE DEF y
  <2>4. AnnNodes(y) = node /\ \A k \in node : y.node[k] = t.rows[k]["v"]
    BY <1>3, <1>4, <1>7, <2>1, <2>3 DEF AnnNodes
  <2>5. AnnExact(y, t.rows)
    BY <2>1, <2>2, <2>3, <2>4 DEF AnnExact
  <2>6. whole \in SUBSET Indexes /\ whole \ {"ann"} = t.torn \ {"ann"}
    BY <1>1
  <2> HIDE DEF whole
  <2>7. TableInv([t EXCEPT !.ann = y, !.torn = whole])
    BY <2>3, <2>5, <2>6, SetAnn
  <2> QED
    BY <1>2, <1>12, <2>7
<1> QED
  BY <1>11, <1>12

-----------------------------------------------------------------------------
\* The transaction around a statement.

LEMMA Concluded ==
  ASSUME IInv, NEW r, TableInv(r.t), Conclude(r), left' \in 0..MaxStmts
  PROVE  IInv'
<1>1. stmt' = NoStmt /\ LoopInv' /\ r.t \in Table
  BY DEF Conclude, LoopInv, NoStmt, TableInv, RowsInv
<1>2. CASE mode = "batch"
  <2>1. work' = r.t /\ db' = db /\ mode' = mode
    BY <1>2 DEF Conclude
  <2>2. TableInv(db)' /\ TableInv(work)'
    BY <2>1 DEF IInv
  <2> QED
    BY <1>1, <2>1, <2>2 DEF IInv, TypeOK
<1>3. CASE mode # "batch"
  <2>1. work' = db' /\ mode' = "idle" /\ (db' = r.t \/ db' = db)
    BY <1>3 DEF Conclude
  <2>2. TableInv(db)' /\ TableInv(work)'
    BY <2>1 DEF IInv
  <2> QED
    BY <1>1, <2>1, <2>2 DEF IInv, TypeOK
<1> QED
  BY <1>2, <1>3

\* A statement of one step.
LEMMA Applied ==
  ASSUME IInv, NEW r, TableInv(r.t), Apply(r)
  PROVE  IInv'
<1>1. left' \in 0..MaxStmts /\ Conclude(r)
  BY WriteTxAssumption DEF Apply, Ready, IInv, TypeOK
<1> QED
  BY <1>1, Concluded

LEMMA AppliedAsIs ==
  ASSUME IInv, NEW r, r.t = work, Apply(r)
  PROVE  IInv'
BY Applied DEF IInv

LEMMA Finished ==
  ASSUME IInv, NEW r, TableInv(r.t), Finish(r)
  PROVE  IInv'
<1>1. left' \in 0..MaxStmts /\ Conclude(r)
  BY DEF Finish, IInv, TypeOK
<1> QED
  BY <1>1, Concluded

\* A statement that loops, and a step of its loop.
LEMMA Begun ==
  ASSUME IInv, NEW t, TableInv(t), NEW s \in InsertStmt \cup RewriteStmt, Loop(t, s), LoopInv'
  PROVE  IInv'
<1>1. /\ left' \in 0..MaxStmts /\ stmt' = s /\ work' = t /\ db' = db
      /\ mode' \in {"idle", "auto", "batch"}
  BY WriteTxAssumption DEF Loop, Ready, IInv, TypeOK
<1>2. TableInv(db)' /\ TableInv(work)' /\ t \in Table
  BY <1>1 DEF IInv, TableInv, RowsInv
<1> QED
  BY <1>1, <1>2 DEF IInv, TypeOK

LEMMA WentOn ==
  ASSUME IInv, NEW t, TableInv(t), NEW s \in InsertStmt \cup RewriteStmt, GoOn(t, s), LoopInv'
  PROVE  IInv'
<1>1. left' = left /\ stmt' = s /\ work' = t /\ db' = db /\ mode' = mode
  BY DEF GoOn
<1>2. TableInv(db)' /\ TableInv(work)' /\ t \in Table
  BY <1>1 DEF IInv, TableInv, RowsInv
<1> QED
  BY <1>1, <1>2 DEF IInv, TypeOK

LEMMA BatchStep ==
  ASSUME IInv, BeginBatch \/ CommitBatch \/ DropBatch
  PROVE  IInv'
<1>1. CASE BeginBatch
  <2>1. db' = db /\ work' = work /\ stmt' = stmt /\ left' = left /\ mode' = "batch"
    BY <1>1 DEF BeginBatch
  <2>2. TableInv(db)' /\ TableInv(work)'
    BY <2>1 DEF IInv
  <2>3. LoopInv'
    BY <2>1 DEF IInv, LoopInv, Ahead
  <2> QED
    BY <2>1, <2>2, <2>3 DEF IInv, TypeOK
<1>2. CASE CommitBatch \/ DropBatch
  <2>1. /\ (db' = work /\ work' = work) \/ (db' = db /\ work' = db)
        /\ stmt' = NoStmt /\ left' = left /\ mode' = "idle"
    BY <1>2 DEF CommitBatch, DropBatch
  <2>2. TableInv(db)' /\ TableInv(work)'
    BY <2>1 DEF IInv
  <2>3. LoopInv'
    BY <2>1 DEF LoopInv, NoStmt
  <2> QED
    BY <2>1, <2>2, <2>3 DEF IInv, TypeOK
<1> QED
  BY <1>1, <1>2

LEMMA StutterStep == IInv /\ UNCHANGED vars => IInv'
<1> SUFFICES ASSUME IInv, UNCHANGED vars PROVE IInv'
  OBVIOUS
<1>1. db' = db /\ work' = work /\ stmt' = stmt /\ left' = left /\ mode' = mode
  BY DEF vars
<1>2. TableInv(db)' /\ TableInv(work)'
  BY <1>1 DEF IInv
<1>3. LoopInv'
  BY <1>1 DEF IInv, LoopInv, Ahead
<1> QED
  BY <1>1, <1>2, <1>3 DEF IInv, TypeOK

LEMMA InitIInv == Init => IInv
<1> SUFFICES ASSUME Init PROVE IInv
  OBVIOUS
<1>1. db = NewTable /\ work = NewTable /\ mode = "idle" /\ stmt = NoStmt /\ left = MaxStmts
  BY DEF Init
<1>2. TableInv(NewTable)
  <2>1. {} \in SUBSET (IndexCols \X Cells \X Pks)
    OBVIOUS
  <2> QED
    BY <2>1, NewTableInv
<1>3. TableInv(db) /\ TableInv(work)
  BY <1>1, <1>2
<1>4. LoopInv
  BY <1>1 DEF LoopInv, NoStmt
<1> QED
  BY <1>1, <1>3, <1>4, WriteTxAssumption DEF IInv, TypeOK, TableInv, RowsInv

-----------------------------------------------------------------------------
\* Statements of one step.

LEMMA CatalogStep ==
  ASSUME IInv, NEW sch \in Schemas, CreateTable(sch) \/ MigrateTable(sch)
  PROVE  IInv'
<1>1. sch \in Schema /\ Built(sch) /\ TableInv(work)
  BY RelationalAssumption DEF IInv
<1>2. CASE CreateTable(sch)
  <2> DEFINE r == IF work.def = None THEN Adopt(work, sch)
                  ELSE IF work.def = sch THEN Ok(work) ELSE Fail(work)
  <2>1. TableInv(r.t)
    BY <1>1, AdoptStep DEF Ok, Fail
  <2>2. Apply(r)
    BY <1>2 DEF CreateTable
  <2> HIDE DEF r
  <2> QED
    BY <2>1, <2>2, Applied
<1>3. CASE MigrateTable(sch)
  <2> DEFINE r == EnsureTable(work, sch)
  <2>1. TableInv(r.t) /\ Apply(r)
    BY <1>1, <1>3, EnsureStep DEF MigrateTable
  <2> HIDE DEF r
  <2> QED
    BY <2>1, Applied
<1> QED
  BY <1>2, <1>3

LEMMA IndexStep ==
  ASSUME IInv, NEW c \in IndexCols, CreateIndex(c) \/ DropIndex(c)
  PROVE  IInv'
<1>1. /\ TableInv(work) /\ (work.def # None => work.def \in Schema /\ Built(work.def))
  BY DEF IInv, TableInv, RowsInv, Table
<1>2. CASE CreateIndex(c)
  <2> DEFINE n == [work.def EXCEPT !.indexed = @ \cup {c}]
             r == IF work.def = None \/ c \notin work.def.cols THEN Fail(work)
                  ELSE EnsureTable(work, n)
  <2>1. work.def # None /\ c \in work.def.cols => n \in Schema /\ Built(n)
    BY <1>1, WithIndex
  <2>2. Apply(r)
    BY <1>2 DEF CreateIndex
  <2> HIDE DEF n
  <2>3. TableInv(r.t)
    BY <1>1, <2>1, EnsureStep DEF Fail
  <2> HIDE DEF r
  <2> QED
    BY <2>2, <2>3, Applied
<1>3. CASE DropIndex(c)
  <2> DEFINE n == [work.def EXCEPT !.indexed = @ \ {c}, !.unique = @ \ {c}]
             r == IF work.def = None THEN Fail(work) ELSE EnsureTable(work, n)
  <2>1. work.def # None => n \in Schema /\ Built(n)
    BY <1>1, WithoutIndex
  <2>2. Apply(r)
    BY <1>3 DEF DropIndex
  <2> HIDE DEF n
  <2>3. TableInv(r.t)
    BY <1>1, <2>1, EnsureStep DEF Fail
  <2> HIDE DEF r
  <2> QED
    BY <2>2, <2>3, Applied
<1> QED
  BY <1>2, <1>3

LEMMA DropTableStep == ASSUME IInv, DropTable PROVE IInv'
<1> DEFINE idx == {e \in work.idx : e[1] \notin work.def.indexed}
           r == IF work.def = None THEN Ok(work) ELSE Ok([NewTable EXCEPT !.idx = idx])
<1>1. TableInv(work) /\ work.idx \subseteq IndexCols \X Cells \X Pks
  BY DEF IInv, TypeOK, Table
<1>2. idx \in SUBSET (IndexCols \X Cells \X Pks)
  BY <1>1
<1>3. Apply(r)
  BY DEF DropTable
<1> HIDE DEF idx
<1>4. TableInv(r.t)
  BY <1>1, <1>2, NewTableInv DEF Ok
<1> HIDE DEF r
<1> QED
  BY <1>3, <1>4, Applied

LEMMA FulltextStep ==
  ASSUME IInv, CreateFulltext \/ DropFulltext
  PROVE  IInv'
<1>1. /\ TableInv(work) /\ work \in Table /\ work.rows \in [Pks -> Row \cup {None}]
      /\ work.torn \in SUBSET Indexes
  BY DEF IInv, TypeOK, Table
<1>2. CASE CreateFulltext
  <2> DEFINE f == FtsOf(work)
             torn == work.torn \ {"fts"}
             u == [work EXCEPT !.fts = f, !.torn = torn]
             r == IF work.def = None \/ "s" \notin work.def.cols THEN Fail(work)
                  ELSE IF work.fts # None THEN Ok(work)
                  ELSE Ok(u)
  <2>1. f \in Fts
    BY <1>1, FtsOfRows, TxtFacts, FtsForTyped
  <2>2. Apply(r)
    BY <1>2 DEF CreateFulltext
  <2>3. work.def # None /\ "s" \in work.def.cols => TableInv(u)
    <3>1. torn \in SUBSET Indexes /\ torn \ {"fts"} = work.torn \ {"fts"}
      BY <1>1
    <3> HIDE DEF torn
    <3> QED
      BY <1>1, <2>1, <3>1, SetFts
  <2> HIDE DEF u
  <2>4. TableInv(r.t)
    BY <1>1, <2>3 DEF Ok, Fail
  <2> HIDE DEF r
  <2> QED
    BY <2>2, <2>4, Applied
<1>3. CASE DropFulltext
  <2> DEFINE r == Ok([work EXCEPT !.fts = None])
  <2>1. TableInv([work EXCEPT !.fts = None, !.torn = work.torn])
    BY <1>1, SetFts
  <2>2. [work EXCEPT !.fts = None, !.torn = work.torn] = [work EXCEPT !.fts = None]
    BY <1>1 DEF Table
  <2>3. TableInv(r.t) /\ Apply(r)
    BY <1>3, <2>1, <2>2 DEF Ok, DropFulltext
  <2> HIDE DEF r
  <2> QED
    BY <2>3, Applied
<1> QED
  BY <1>2, <1>3

LEMMA VectorStep ==
  ASSUME IInv, CreateVector \/ DropVector
  PROVE  IInv'
<1>1. TableInv(work) /\ work \in Table /\ work.torn \in SUBSET Indexes
  BY DEF IInv, TypeOK, Table
<1>2. CASE CreateVector
  <2> DEFINE r == IF work.def = None \/ "v" \notin work.def.cols THEN Fail(work)
                  ELSE IF work.ann # None THEN Ok(work)
                  ELSE AnnCreate(work)
  <2>1. Apply(r)
    BY <1>2 DEF CreateVector
  <2>2. TableInv(r.t)
    BY <1>1, AnnCreateStep DEF Ok, Fail
  <2> HIDE DEF r
  <2> QED
    BY <2>1, <2>2, Applied
<1>3. CASE DropVector
  <2> DEFINE r == Ok([work EXCEPT !.ann = None])
  <2>1. TableInv([work EXCEPT !.ann = None, !.torn = work.torn])
    BY <1>1, SetAnn
  <2>2. [work EXCEPT !.ann = None, !.torn = work.torn] = [work EXCEPT !.ann = None]
    BY <1>1 DEF Table
  <2>3. TableInv(r.t) /\ Apply(r)
    BY <1>3, <2>1, <2>2 DEF Ok, DropVector
  <2> HIDE DEF r
  <2> QED
    BY <2>3, Applied
<1> QED
  BY <1>2, <1>3

-----------------------------------------------------------------------------
\* Statements that loop.

\* TableRef::resolve gives a schema the table has, or had none to contradict.
LEMMA ResolveFacts ==
  ASSUME IInv, NEW handle \in Handles, Resolve(work, handle) # None
  PROVE  LET sch == Resolve(work, handle)
         IN  sch \in Schema /\ Built(sch) /\ work.def \in {None, sch}
<1>1. work.def \in Schema \cup {None} /\ (work.def # None => Built(work.def))
  BY DEF IInv, TypeOK, Table, TableInv, RowsInv
<1>2. CASE handle = ByName
  BY <1>1, <1>2 DEF Resolve
<1>3. CASE handle # ByName
  <2>1. handle \in Schema /\ Built(handle)
    BY <1>3, RelationalAssumption DEF Handles
  <2> QED
    BY <1>3, <2>1 DEF Resolve
<1> QED
  BY <1>2, <1>3

\* A larger key counter.
LEMMA Advanced ==
  ASSUME NEW t, TableInv(t), NEW m \in Nat \ {0}, t.next <= m
  PROVE  LET u == [t EXCEPT !.next = m]
         IN  TableInv(u) /\ u.def = t.def /\ u.next = m /\ Live(u) = Live(t)
<1> DEFINE u == [t EXCEPT !.next = m]
<1> SUFFICES TableInv(u) /\ u.def = t.def /\ u.next = m /\ Live(u) = Live(t)
  OBVIOUS
<1>1. t \in Table /\ t.next \in Nat
  BY DEF TableInv, RowsInv, Table
<1>2. /\ u \in Table /\ u.def = t.def /\ u.rows = t.rows /\ u.idx = t.idx /\ u.next = m
      /\ u.fts = t.fts /\ u.ann = t.ann /\ u.torn = t.torn
  BY <1>1 DEF Table
<1> HIDE DEF u
<1>3. Live(u) = Live(t) /\ Live(t) \subseteq Int
  BY <1>2, PksFinite DEF Live
<1>4. RowsTyped(u) /\ IndexComplete(u) /\ UniqueRows(u)
  BY <1>2, <1>3 DEF TableInv, RowsInv, RowsTyped, IndexComplete, UniqueRows, Covers, Distinct
<1>5. ASSUME AutoIncrement, NEW k \in Live(u) PROVE k < u.next
  <2>1. k < t.next /\ k \in Int
    BY <1>3, <1>5 DEF TableInv, RowsInv
  <2> QED
    BY <1>1, <1>2, <2>1
<1>6. RowsInv(u)
  BY <1>2, <1>4, <1>5 DEF TableInv, RowsInv
<1>7. SearchColumns(u)
  BY <1>2 DEF TableInv, SearchColumns
<1>8. SearchExact(u)
  <2>1. SearchFor(t, t.rows)
    BY <1>1, SearchForRows DEF TableInv
  <2> QED
    BY <1>2, <2>1, SearchForRows DEF SearchFor
<1> QED
  BY <1>2, <1>3, <1>6, <1>7, <1>8 DEF TableInv

\* The block of keys an insert reserved, given out one by one.
LEMMA BlockStep ==
  ASSUME NEW first \in Nat, NEW n \in Nat
  PROVE  /\ n = 0 => Block(first, n) = {}
         /\ n # 0 => AsI64(first) \in Block(first, n)
         /\ n # 0 => Block(first + 1, n - 1) \subseteq Block(first, n)
<1>1. ASSUME n = 0 PROVE Block(first, n) = {}
  BY <1>1 DEF Block
<1>2. ASSUME n # 0 PROVE AsI64(first) \in Block(first, n)
  <2>1. 0 \in 0 .. (n - 1) /\ first + 0 = first
    BY <1>2
  <2> QED
    BY <2>1 DEF Block
<1>3. ASSUME n # 0, NEW k \in Block(first + 1, n - 1) PROVE k \in Block(first, n)
  <2>1. PICK i \in 0 .. (n - 1 - 1) : k = AsI64(first + 1 + i)
    BY <1>3 DEF Block
  <2>2. i + 1 \in 0 .. (n - 1) /\ first + 1 + i = first + (i + 1)
    BY <1>3, <2>1
  <2>3. k = AsI64(first + (i + 1))
    BY <2>1, <2>2
  <2> QED
    BY <2>2, <2>3 DEF Block
<1> QED
  BY <1>1, <1>2, <1>3

\* What an insert must have when its loop stands at s over the table t.
InsertAt(s, t) ==
    /\ Built(s.sch) /\ t.def \in {None, s.sch}
    /\ Block(s.next, ToAllocate(s.todo)) \subseteq Pks /\ s.base <= s.next
    /\ s.next + ToAllocate(s.todo) <= t.next
    /\ AutoIncrement => \A k \in Live(t) : k < s.base \/ k \in s.mine

LEMMA InsertLoopInv ==
  ASSUME NEW s \in InsertStmt, NEW t, InsertAt(s, t), stmt' = s, work' = t
  PROVE  LoopInv'
BY DEF InsertAt, LoopInv, Ahead, InsertStmt

LEMMA InsertBegun ==
  ASSUME IInv, NEW sch \in Schema, Built(sch), work.def \in {None, sch},
         NEW items \in Seq(Item), NEW replace \in BOOLEAN,
         NEW m \in Nat \ {0}, work.next + ToAllocate(items) <= m,
         Block(work.next, ToAllocate(items)) \subseteq Pks,
         Loop([work EXCEPT !.next = m],
              [op |-> "insert", sch |-> sch, replace |-> replace, todo |-> items,
               base |-> work.next, next |-> work.next, mine |-> {}])
  PROVE  IInv'
<1> DEFINE t == [work EXCEPT !.next = m]
           s == [op |-> "insert", sch |-> sch, replace |-> replace, todo |-> items,
                 base |-> work.next, next |-> work.next, mine |-> {}]
<1>1. /\ TableInv(work) /\ work.next \in Nat \ {0}
      /\ AutoIncrement => \A k \in Live(work) : k < work.next
  BY DEF IInv, TypeOK, Table, TableInv, RowsInv
<1>2. ToAllocate(items) \in Nat
  BY AllocationType
<1>3. TableInv(t) /\ t.def = work.def /\ t.next = m /\ Live(t) = Live(work)
  BY <1>1, <1>2, Advanced
<1>4. /\ s \in InsertStmt /\ s.sch = sch /\ s.todo = items /\ s.base = work.next
      /\ s.next = work.next
  BY <1>1 DEF InsertStmt
<1>5. Loop(t, s)
  OBVIOUS
<1> HIDE DEF t, s
<1>6. InsertAt(s, t)
  BY <1>1, <1>2, <1>3, <1>4 DEF InsertAt
<1>7. LoopInv'
  BY <1>4, <1>5, <1>6, InsertLoopInv DEF Loop
<1> QED
  BY <1>3, <1>4, <1>5, <1>7, Begun

LEMMA InsertStartStep ==
  ASSUME IInv, NEW h \in Handles, NEW items \in Batches, NEW replace \in BOOLEAN,
         InsertBulk(h, items, replace) \/ InsertWithPk(h, items, replace)
  PROVE  IInv'
<1> DEFINE sch == Resolve(work, h)
           n == ToAllocate(items)
<1>1. items \in Seq(Item) /\ n \in Nat /\ work.next \in Nat \ {0} /\ work \in Table
  BY RelationalAssumption, AllocationType DEF IInv, TypeOK, Table
<1>2. Fail(work).t = work
  BY DEF Fail
<1>3. CASE InsertBulk(h, items, replace) /\ sch = None
  <2>1. Apply(Fail(work))
    BY <1>3 DEF InsertBulk
  <2> QED
    BY <1>2, <2>1, AppliedAsIs
<1>4. CASE InsertBulk(h, items, replace) /\ sch # None
  <2>1. /\ sch \in Schema /\ Built(sch) /\ work.def \in {None, sch}
    BY <1>4, ResolveFacts
  <2>2. /\ Block(work.next, n) \subseteq Pks
        /\ Loop([work EXCEPT !.next = @ + n],
                [op |-> "insert", sch |-> sch, replace |-> replace, todo |-> items,
                 base |-> work.next, next |-> work.next, mine |-> {}])
    BY <1>4 DEF InsertBulk
  <2> HIDE DEF sch, n
  <2>3. [work EXCEPT !.next = @ + n] = [work EXCEPT !.next = work.next + n]
    OBVIOUS
  <2>4. work.next + n \in Nat \ {0} /\ work.next + n <= work.next + n
    BY <1>1
  <2> QED
    BY <1>1, <2>1, <2>2, <2>3, <2>4, InsertBegun, Zenon DEF n
<1>5. CASE InsertWithPk(h, items, replace) /\ (sch = None \/ (AutoIncrement /\ ~replace))
  <2>1. Apply(Fail(work))
    BY <1>5 DEF InsertWithPk
  <2> QED
    BY <1>2, <2>1, AppliedAsIs
<1>6. CASE InsertWithPk(h, items, replace) /\ ~(sch = None \/ (AutoIncrement /\ ~replace))
  <2>1. /\ sch \in Schema /\ Built(sch) /\ work.def \in {None, sch}
    BY <1>6, ResolveFacts
  <2>2. /\ \A i \in DOMAIN items : ~Allocates(items[i])
        /\ Loop(work, [op |-> "insert", sch |-> sch, replace |-> replace, todo |-> items,
                       base |-> work.next, next |-> work.next, mine |-> {}])
    BY <1>6 DEF InsertWithPk, Allocates
  <2> HIDE DEF sch
  <2>3. n = 0
    BY <1>1, <2>2, AllocationOfNone
  <2> HIDE DEF n
  <2>4. work = [work EXCEPT !.next = work.next]
    BY <1>1 DEF Table
  <2>5. Block(work.next, n) \subseteq Pks /\ work.next + n <= work.next
    BY <1>1, <2>3, BlockStep
  <2> QED
    BY <1>1, <2>1, <2>2, <2>4, <2>5, InsertBegun, Zenon DEF n
<1> QED
  BY <1>3, <1>4, <1>5, <1>6

LEMMA StmtKinds ==
  ASSUME IInv
  PROVE  /\ stmt.op = "insert" => stmt \in InsertStmt
         /\ stmt.op = "rewrite" => stmt \in RewriteStmt
BY DEF IInv, TypeOK, NoStmt, InsertStmt, RewriteStmt

\* The key and the table with which an insert writes its next row.
LEMMA NextWrite ==
  ASSUME IInv, stmt.op = "insert", stmt.todo # <<>>, NextPk # None
  PROVE  /\ NextPk \in Pks /\ TableInv(NextTable) /\ NextTable.def = work.def
         /\ Live(NextTable) = Live(work) /\ work.next <= NextTable.next
         /\ NextTable.next \in Nat
         /\ AutoIncrement => NextPk < NextTable.next
<1> DEFINE item == Head(stmt.todo)
<1>1. stmt \in InsertStmt /\ TableInv(work) /\ work.next \in Nat \ {0} /\ work \in Table
  BY StmtKinds DEF IInv, TypeOK, Table
<1>2. /\ stmt.todo \in Seq(Item) /\ stmt.next \in Nat
  BY <1>1 DEF InsertStmt
<1>3. /\ item \in Item /\ Tail(stmt.todo) \in Seq(Item)
      /\ ToAllocate(stmt.todo) = ToAllocate(Tail(stmt.todo)) + (IF Allocates(item) THEN 1 ELSE 0)
      /\ ToAllocate(Tail(stmt.todo)) \in Nat
  BY <1>2, AllocationStep, AllocationType
<1>4. /\ Block(stmt.next, ToAllocate(stmt.todo)) \subseteq Pks
      /\ stmt.next + ToAllocate(stmt.todo) <= work.next
  BY DEF IInv, LoopInv, Ahead
<1> HIDE DEF item
<1>5. CASE Allocates(item)
  <2>1. NextPk = AsI64(stmt.next) /\ NextTable = work
    BY <1>5 DEF NextPk, NextTable, item
  <2>2. ToAllocate(stmt.todo) \in Nat \ {0}
    BY <1>3, <1>5
  <2>3. NextPk \in Pks
    BY <1>2, <1>4, <2>1, <2>2, BlockStep
  <2>4. stmt.next < work.next
    BY <1>1, <1>2, <1>4, <2>2
  <2>5. NextPk < work.next
    BY <1>1, <1>2, <2>1, <2>4, PksFinite DEF AsI64
  <2> QED
    BY <1>1, <2>1, <2>3, <2>5
<1>6. CASE ~Allocates(item)
  <2>1. NextPk = item.pk /\ NextTable = BumpPast(work, NextPk)
    BY <1>6 DEF NextPk, NextTable, item
  <2>2. NextPk \in Pks /\ NextPk \in Int
    BY <1>3, <2>1, PksFinite DEF Item
  <2>3. CASE AutoIncrement /\ NextPk >= 1 /\ NextPk + 1 > work.next
    <3> DEFINE m == NextPk + 1
               u == [work EXCEPT !.next = m]
    <3>1. NextTable = u /\ m \in Nat \ {0} /\ work.next <= m /\ NextPk < m
      BY <1>1, <2>1, <2>2, <2>3 DEF BumpPast
    <3> HIDE DEF m
    <3>2. TableInv(u) /\ u.def = work.def /\ u.next = m /\ Live(u) = Live(work)
      BY <1>1, <3>1, Advanced
    <3> QED
      BY <2>2, <3>1, <3>2
  <2>4. CASE ~(AutoIncrement /\ NextPk >= 1 /\ NextPk + 1 > work.next)
    <3>1. NextTable = work
      BY <2>1, <2>4 DEF BumpPast
    <3> QED
      BY <1>1, <2>2, <2>4, <3>1
  <2> QED
    BY <2>3, <2>4
<1> QED
  BY <1>5, <1>6

LEMMA InsertNextStep == ASSUME IInv, InsertNext PROVE IInv'
<1> DEFINE item == Head(stmt.todo)
           r == IF NextPk = None THEN Fail(work)
                ELSE WriteRow(NextTable, stmt.sch, NextPk, item.row, stmt.replace)
           next == IF Allocates(item) THEN stmt.next + 1 ELSE stmt.next
           s == [stmt EXCEPT !.todo = Tail(@), !.mine = @ \cup {NextPk},
                             !.next = IF Allocates(item) THEN @ + 1 ELSE @]
<1>1. /\ stmt.op = "insert" /\ stmt.todo # <<>>
      /\ IF r.ok THEN GoOn(r.t, s) ELSE Finish(r)
  BY DEF InsertNext
<1>2. stmt \in InsertStmt /\ TableInv(work) /\ work.next \in Nat
  BY <1>1, StmtKinds DEF IInv, TypeOK, Table
<1>3. /\ stmt.todo \in Seq(Item) /\ stmt.next \in Nat /\ stmt.base \in Nat
      /\ stmt.sch \in Schema /\ stmt.mine \subseteq Pks
  BY <1>2 DEF InsertStmt
<1>4. /\ item \in Item /\ Tail(stmt.todo) \in Seq(Item)
      /\ ToAllocate(stmt.todo) = ToAllocate(Tail(stmt.todo)) + (IF Allocates(item) THEN 1 ELSE 0)
      /\ ToAllocate(Tail(stmt.todo)) \in Nat
  BY <1>1, <1>3, AllocationStep, AllocationType
<1>5. /\ Built(stmt.sch) /\ work.def \in {None, stmt.sch}
      /\ Block(stmt.next, ToAllocate(stmt.todo)) \subseteq Pks
      /\ stmt.base <= stmt.next /\ stmt.next + ToAllocate(stmt.todo) <= work.next
      /\ AutoIncrement => \A k \in Live(work) : k < stmt.base \/ k \in stmt.mine
  BY <1>1 DEF IInv, LoopInv, Ahead
<1>6. ASSUME NextPk # None
      PROVE  /\ TableInv(r.t) /\ r.t.def = work.def /\ work.next <= r.t.next /\ r.t.next \in Nat
             /\ Live(r.t) \subseteq Live(work) \cup {NextPk} /\ NextPk \in Pks
  <2>1. /\ NextPk \in Pks /\ TableInv(NextTable) /\ NextTable.def = work.def
        /\ Live(NextTable) = Live(work) /\ work.next <= NextTable.next
        /\ NextTable.next \in Nat
        /\ AutoIncrement => NextPk < NextTable.next
    BY <1>1, <1>6, NextWrite
  <2>2. item.row \in Row
    BY <1>4 DEF Item
  <2>3. r = WriteRow(NextTable, stmt.sch, NextPk, item.row, stmt.replace)
    BY <1>6
  <2> HIDE DEF r, item
  <2>4. RowDone(NextTable, NextPk, r.t)
    BY <1>3, <1>5, <2>1, <2>2, <2>3, WriteRowStep
  <2> QED
    BY <2>1, <2>4 DEF RowDone
<1>7. CASE r.ok
  <2>1. NextPk # None
    BY <1>7 DEF Fail
  <2>2. /\ s \in InsertStmt /\ s.todo = Tail(stmt.todo) /\ s.mine = stmt.mine \cup {NextPk}
        /\ s.next = next /\ s.base = stmt.base /\ s.sch = stmt.sch
    <3>1. /\ s.todo = Tail(stmt.todo) /\ s.mine = stmt.mine \cup {NextPk} /\ s.next = next
          /\ s.base = stmt.base /\ s.sch = stmt.sch /\ s.replace = stmt.replace
          /\ s.op = stmt.op
          /\ s \in [op : {s.op}, sch : {s.sch}, replace : {s.replace}, todo : {s.todo},
                    base : {s.base}, next : {s.next}, mine : {s.mine}]
      <4> DEFINE rest == Tail(stmt.todo)
                 mine == stmt.mine \cup {NextPk}
      <4>1. s = [stmt EXCEPT !.todo = rest, !.mine = mine, !.next = next]
        <5>1. stmt \in [op : {stmt.op}, sch : {stmt.sch}, replace : {stmt.replace},
                        todo : {stmt.todo}, base : {stmt.base}, next : {stmt.next},
                        mine : {stmt.mine}]
          BY <1>2 DEF InsertStmt
        <5> HIDE DEF item
        <5> QED
          BY <5>1
      <4> HIDE DEF rest, mine, next, s
      <4>2. /\ s.todo = rest /\ s.mine = mine /\ s.next = next
            /\ s.base = stmt.base /\ s.sch = stmt.sch /\ s.replace = stmt.replace
            /\ s.op = stmt.op
            /\ s \in [op : {s.op}, sch : {s.sch}, replace : {s.replace}, todo : {s.todo},
                      base : {s.base}, next : {s.next}, mine : {s.mine}]
        BY <1>2, <4>1 DEF InsertStmt
      <4> QED
        BY <4>2 DEF rest, mine
    <3>2. /\ Tail(stmt.todo) \in Seq(Item) /\ stmt.mine \cup {NextPk} \in SUBSET Pks
          /\ next \in Nat
      BY <1>3, <1>4, <1>6, <2>1
    <3>3. stmt.replace \in BOOLEAN
      BY <1>2 DEF InsertStmt
    <3> HIDE DEF s, next, item
    <3> QED
      BY <1>1, <1>3, <3>1, <3>2, <3>3 DEF InsertStmt
  <2>3. GoOn(r.t, s)
    BY <1>1, <1>7
  <2> HIDE DEF s, r, item
  <2>4. InsertAt(s, r.t)
    <3>1. Block(next, ToAllocate(s.todo)) \subseteq Pks
      <4>1. CASE Allocates(item)
        <5>1. /\ ToAllocate(stmt.todo) \in Nat \ {0} /\ next = stmt.next + 1
              /\ ToAllocate(s.todo) = ToAllocate(stmt.todo) - 1
          BY <1>4, <2>2, <4>1
        <5> HIDE DEF next
        <5> QED
          BY <1>3, <1>5, <5>1, BlockStep
      <4>2. CASE ~Allocates(item)
        <5>1. next = stmt.next /\ ToAllocate(s.todo) = ToAllocate(stmt.todo)
          BY <1>4, <2>2, <4>2
        <5> HIDE DEF next
        <5> QED
          BY <1>5, <5>1
      <4> QED
        BY <4>1, <4>2
    <3>2. stmt.base <= next /\ next + ToAllocate(s.todo) <= r.t.next
      BY <1>2, <1>3, <1>4, <1>5, <1>6, <2>1, <2>2
    <3>3. AutoIncrement => \A k \in Live(r.t) : k < s.base \/ k \in s.mine
      BY <1>5, <1>6, <2>1, <2>2
    <3> QED
      BY <1>5, <1>6, <2>1, <2>2, <3>1, <3>2, <3>3 DEF InsertAt
  <2>5. LoopInv'
    BY <2>2, <2>3, <2>4, InsertLoopInv DEF GoOn
  <2> QED
    BY <1>6, <2>1, <2>2, <2>3, <2>5, WentOn
<1>8. CASE ~r.ok
  <2>1. TableInv(r.t)
    BY <1>2, <1>6 DEF Fail
  <2>2. Finish(r)
    BY <1>1, <1>8
  <2> HIDE DEF r
  <2> QED
    BY <2>1, <2>2, Finished
<1> QED
  BY <1>7, <1>8

LEMMA RewriteBegun ==
  ASSUME IInv, NEW sch, sch # None => sch \in Schema /\ Built(sch) /\ work.def \in {None, sch},
         NEW targets \in SUBSET Pks, NEW change \in Row \cup {None},
         Rewrite(sch, targets, change)
  PROVE  IInv'
<1>1. CASE sch = None
  <2>1. Apply(Fail(work)) /\ Fail(work).t = work
    BY <1>1 DEF Rewrite, Fail
  <2> QED
    BY <2>1, AppliedAsIs
<1>2. CASE sch # None
  <2> DEFINE s == [op |-> "rewrite", sch |-> sch, targets |-> targets, change |-> change]
  <2>1. Loop(work, s)
    BY <1>2 DEF Rewrite
  <2>2. s \in RewriteStmt /\ s.op = "rewrite" /\ s.sch = sch
    BY <1>2 DEF RewriteStmt
  <2> HIDE DEF s
  <2>3. stmt' = s /\ work' = work
    BY <2>1 DEF Loop
  <2>4. LoopInv'
    BY <1>2, <2>2, <2>3 DEF LoopInv
  <2> QED
    BY <2>1, <2>2, <2>4, Begun DEF IInv
<1> QED
  BY <1>1, <1>2

LEMMA RewriteStartStep ==
  ASSUME IInv, NEW h \in Handles, NEW change \in Changes \cup {None},
         \/ \E k \in Pks : RewriteOne(h, k, change)
         \/ \E v \in KeyVals \cup {Null} : RewriteWhere(h, v, change)
  PROVE  IInv'
<1> DEFINE sch == Resolve(work, h)
<1>1. sch # None => sch \in Schema /\ Built(sch) /\ work.def \in {None, sch}
  BY ResolveFacts
<1>2. change \in Row \cup {None}
  BY RelationalAssumption
<1>3. ASSUME NEW k \in Pks, RewriteOne(h, k, change) PROVE IInv'
  <2>1. Rewrite(sch, {k}, change)
    BY <1>3 DEF RewriteOne
  <2>2. {k} \in SUBSET Pks
    OBVIOUS
  <2> HIDE DEF sch
  <2> QED
    BY <1>1, <1>2, <2>1, <2>2, RewriteBegun
<1>4. ASSUME NEW v \in KeyVals \cup {Null}, RewriteWhere(h, v, change) PROVE IInv'
  <2>1. CASE sch # None /\ "a" \notin sch.cols
    <3>1. Apply(Fail(work)) /\ Fail(work).t = work
      BY <1>4, <2>1 DEF RewriteWhere, Fail
    <3> QED
      BY <3>1, AppliedAsIs
  <2>2. CASE ~(sch # None /\ "a" \notin sch.cols)
    <3> DEFINE S == Selected(work, sch, v)
    <3>1. Rewrite(sch, S, change)
      BY <1>4, <2>2 DEF RewriteWhere
    <3>2. S \in SUBSET Pks
      BY DEF Selected, LookupEq, Live
    <3> HIDE DEF sch, S
    <3> QED
      BY <1>1, <1>2, <3>1, <3>2, RewriteBegun
  <2> QED
    BY <2>1, <2>2
<1> QED
  BY <1>3, <1>4

LEMMA RewriteNextStep == ASSUME IInv, RewriteNext PROVE IInv'
<1> DEFINE k == Least(stmt.targets)
           r == IF stmt.change = None THEN DeleteRow(work, stmt.sch, k)
                ELSE UpdateRow(work, stmt.sch, k, stmt.change)
           s == [stmt EXCEPT !.targets = @ \ {k}]
<1>1. /\ stmt.op = "rewrite" /\ stmt.targets # {}
      /\ IF r.ok THEN GoOn(r.t, s) ELSE Finish(r)
  BY DEF RewriteNext
<1>2. stmt \in RewriteStmt /\ TableInv(work)
  BY <1>1, StmtKinds DEF IInv
<1>3. /\ stmt.targets \in SUBSET Pks /\ stmt.sch \in Schema /\ stmt.change \in Row \cup {None}
  BY <1>2 DEF RewriteStmt
<1>4. Built(stmt.sch) /\ work.def \in {None, stmt.sch}
  BY <1>1 DEF IInv, LoopInv
<1>5. k \in Pks
  BY <1>1, <1>3, LeastIn
<1> HIDE DEF k
<1>6. RowDone(work, k, r.t)
  BY <1>2, <1>3, <1>4, <1>5, DeleteRowStep, UpdateRowStep
<1>7. TableInv(r.t) /\ r.t.def = work.def
  BY <1>6 DEF RowDone
<1> HIDE DEF r
<1>8. CASE r.ok
  <2>1. GoOn(r.t, s)
    BY <1>1, <1>8
  <2>2. s \in RewriteStmt /\ s.op = "rewrite" /\ s.sch = stmt.sch
    BY <1>2 DEF RewriteStmt
  <2> HIDE DEF s
  <2>3. stmt' = s /\ work' = r.t
    BY <2>1 DEF GoOn
  <2>4. LoopInv'
    BY <1>4, <1>7, <2>2, <2>3 DEF LoopInv
  <2> QED
    BY <1>7, <2>1, <2>2, <2>4, WentOn
<1>9. CASE ~r.ok
  BY <1>1, <1>7, <1>9, Finished
<1> QED
  BY <1>8, <1>9

LEMMA LoopDoneStep == ASSUME IInv, InsertDone \/ RewriteDone PROVE IInv'
<1>1. Finish(Ok(work)) /\ Ok(work).t = work
  BY DEF InsertDone, RewriteDone, Ok
<1> QED
  BY <1>1, Finished DEF IInv

LEMMA NextStep == IInv /\ [Next]_vars => IInv'
<1> SUFFICES ASSUME IInv, [Next]_vars PROVE IInv'
  OBVIOUS
<1>1. CASE BeginBatch \/ CommitBatch \/ DropBatch
  BY <1>1, BatchStep
<1>2. ASSUME NEW h \in Handles, NEW items \in Batches, NEW replace \in BOOLEAN,
             InsertBulk(h, items, replace) \/ InsertWithPk(h, items, replace)
      PROVE  IInv'
  BY <1>2, InsertStartStep
<1>3. ASSUME NEW h \in Handles, NEW k \in Pks, NEW change \in Changes \cup {None},
             RewriteOne(h, k, change)
      PROVE  IInv'
  BY <1>3, RewriteStartStep
<1>4. ASSUME NEW h \in Handles, NEW v \in KeyVals \cup {Null}, NEW change \in Changes \cup {None},
             RewriteWhere(h, v, change)
      PROVE  IInv'
  BY <1>4, RewriteStartStep
<1>5. CASE InsertNext
  BY <1>5, InsertNextStep
<1>6. CASE RewriteNext
  BY <1>6, RewriteNextStep
<1>7. CASE InsertDone \/ RewriteDone
  BY <1>7, LoopDoneStep
<1>8. ASSUME NEW sch \in Schemas, CreateTable(sch) \/ MigrateTable(sch) PROVE IInv'
  BY <1>8, CatalogStep
<1>9. ASSUME NEW c \in IndexCols, CreateIndex(c) \/ DropIndex(c) PROVE IInv'
  BY <1>9, IndexStep
<1>10. CASE DropTable
  BY <1>10, DropTableStep
<1>11. CASE CreateFulltext \/ DropFulltext
  BY <1>11, FulltextStep
<1>12. CASE CreateVector \/ DropVector
  BY <1>12, VectorStep
<1>13. CASE UNCHANGED vars
  BY <1>13, StutterStep
<1> QED
  BY <1>1, <1>2, <1>3, <1>4, <1>5, <1>6, <1>7, <1>8, <1>9, <1>10, <1>11, <1>12, <1>13 DEF Next

\* The strengthening holds in every reachable state.
LEMMA Invariant == Spec => []IInv
BY InitIInv, NextStep, PTL DEF Spec

-----------------------------------------------------------------------------
\* Every reachable state of a table is well typed.
THEOREM RelationalTypeOK == Spec => []TypeOK
<1>1. IInv => TypeOK
  BY DEF IInv
<1> QED
  BY <1>1, Invariant, PTL

\* A lookup by index answers as a scan would, for every schema, key set and
\* history of writes, adoptions and migrations, over every index that no failed
\* statement of a batch left behind (resolve_index_rows_in, write_row_in,
\* update_row_in, migrate_in).
THEOREM RelationalLookupExact == Spec => []LookupExact
<1>1. ASSUME IInv, NEW t \in {db, work}, t.def # None, NEW c \in t.def.indexed \ t.torn,
             NEW v \in Dom(c) \ Unkeyable
      PROVE  LookupEq(t, c, v) = {k \in Live(t) : t.rows[k][c] = v}
  <2>1. Covers(t, c)
    BY <1>1 DEF IInv, TableInv, RowsInv, IndexComplete
  <2>2. v \notin {Null, Absent}
    BY RelationalAssumption DEF Dom
  <2>3. ASSUME NEW k \in Live(t), t.rows[k][c] = v PROVE <<c, v, k>> \in t.idx
    <3>1. Keyable(t.rows[k], c)
      BY <2>2, <2>3 DEF Keyable, Indexable, Cell, Live
    <3> QED
      BY <2>1, <2>3, <3>1 DEF Covers
  <2> QED
    BY <2>3 DEF LookupEq
<1>2. IInv => LookupExact
  BY <1>1 DEF LookupExact
<1> QED
  BY <1>2, Invariant, PTL

\* No two rows of a table share a value of a UNIQUE column, for every order
\* of inserts, updates, index creations and migrations (check_unique,
\* rebuild_index), unless a failed statement of a batch left the index of the
\* column behind its rows.
THEOREM RelationalUniqueHolds == Spec => []UniqueHolds
<1>1. IInv => UniqueRows(db) /\ UniqueRows(work)
  BY DEF IInv, TableInv, RowsInv
<1>2. IInv => UniqueHolds
  BY <1>1 DEF UniqueHolds, UniqueRows, Distinct
<1> QED
  BY <1>2, Invariant, PTL

\* The full-text postings, lengths and totals and the vector nodes, count and
\* dimension are those of the rows after every statement (fulltext.rs and
\* ann/mod.rs on_row_change, retain_valid_in), unless a batch went on after a
\* statement that failed between its row and these indexes.
THEOREM RelationalSearchAgrees == Spec => []SearchAgrees
<1>1. ASSUME IInv, NEW t \in {db, work}
      PROVE  /\ "fts" \notin t.torn /\ t.fts # None => t.fts = FtsOf(t)
             /\ "ann" \notin t.torn /\ t.ann # None => AnnExact(t.ann, t.rows)
  BY <1>1 DEF IInv, TableInv, SearchExact
<1>2. ASSUME IInv, NEW t \in {db, work}, "ann" \notin t.torn, t.ann # None,
             NEW live, live = {k \in Pks : t.ann.node[k] # None}
      PROVE  /\ t.ann.count = Cardinality(live)
             /\ \A k \in Pks : t.ann.node[k] =
                   IF Cell(t.rows[k], "v") \in Vecs /\ ~Unindexed(t.rows[k]["v"])
                   THEN t.rows[k]["v"] ELSE None
             /\ \A k \in live : Len(t.ann.node[k]) = t.ann.dim
  <2>1. live = AnnNodes(t.ann)
    BY <1>2 DEF AnnNodes
  <2> QED
    BY <1>1, <1>2, <2>1 DEF AnnExact, VecOf
<1>3. IInv => SearchAgrees
  BY <1>1, <1>2 DEF SearchAgrees
<1> QED
  BY <1>3, Invariant, PTL

\* As long as the counter is an i64, an automatic key never names a row that
\* was there before its statement, however many statements, explicit keys and
\* failed batches came before (reserve_pks, bump_pk_counter_past).
THEOREM RelationalFreshKeys == Spec => []FreshKeys
<1>1. ASSUME IInv, Allocating, stmt.next < Half, NextPk \in Live(work)
      PROVE  NextPk \in stmt.mine
  <2>1. stmt \in InsertStmt
    BY <1>1, StmtKinds DEF Allocating
  <2>2. stmt.base \in Nat /\ stmt.next \in Nat
    BY <2>1 DEF InsertStmt
  <2>3. NextPk = stmt.next
    BY <1>1 DEF Allocating, NextPk, AsI64
  <2>4. stmt.next < stmt.base \/ stmt.next \in stmt.mine
    BY <1>1, <2>3 DEF IInv, LoopInv, Allocating, Allocates
  <2>5. stmt.base <= stmt.next
    BY <1>1 DEF IInv, LoopInv, Allocating
  <2> QED
    BY <2>2, <2>3, <2>4, <2>5
<1>2. IInv => FreshKeys
  BY <1>1 DEF FreshKeys
<1> QED
  BY <1>2, Invariant, PTL

=============================================================================
