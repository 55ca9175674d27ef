----------------------------- MODULE Relational -----------------------------
(***************************************************************************)
(* One relational table (bkndb-core/src/relational): its catalog entry,    *)
(* rows, secondary index, automatic-key counter, full-text and vector      *)
(* index, and the statements that change them, each in a transaction of    *)
(* its own or inside a caller's batch (db/, txn/, catalog.rs, search/,     *)
(* ann/), as module WriteTx runs it.                                       *)
(*                                                                         *)
(* The key is an Int column, "a" a column whose values can all be index    *)
(* keys, "s" a Str column, "v" an embedding; "a" and "s" may be indexed.   *)
(* A text stands for one string, given by its tokens; a string with a NUL  *)
(* byte can be stored but not be an index key.  The graph inside the       *)
(* vector index is module Hnsw.                                            *)
(***************************************************************************)
EXTENDS WriteTx, Sequences, FiniteSets

CONSTANTS
    Half,          \* 2^63: an i64 is -Half .. Half - 1, a u64 0 .. 2 * Half - 1
    Pks,           \* keys a row can have
    KeyVals,       \* values of column "a"
    Tokens, Texts, \* values of column "s" are sequences of tokens
    Unkeyable,     \* the texts with a NUL byte
    AFirst,        \* whether the schemas declare "a" before "s"
    Vecs,          \* values of column "v": sequences of numbers
    Cosine,        \* whether the metric of the vector index is Cosine
    Null, Absent,  \* an explicit null, and a column the row does not mention
    None,          \* Option::None
    ByName,        \* the handle table_named() gives out
    AutoIncrement, \* whether the table's key is automatic
    Schemas,       \* schemas clients define the table with
    Batches,       \* row sequences clients insert
    Changes        \* column assignments of an update

Columns == {"a", "s", "v"}
IndexCols == {"a", "s"}
Dom(c) == IF c = "a" THEN KeyVals ELSE IF c = "s" THEN Texts ELSE Vecs
Cells == KeyVals \cup Texts \cup Vecs \cup {Null, Absent}
Row == [Columns -> Cells]
Item == [pk : Pks \cup {None}, row : Row]
Schema == [cols : SUBSET Columns, notNull : SUBSET Columns,
           indexed : SUBSET IndexCols, unique : SUBSET IndexCols, dflt : Row]

\* What TableSchemaBuilder::build accepts and From<&RelSchema> produces.
Built(sch) ==
    /\ sch.notNull \cup sch.indexed \subseteq sch.cols
    /\ sch.unique \subseteq sch.indexed
    /\ \A c \in Columns : /\ sch.dflt[c] # Absent => c \in sch.cols
                          /\ sch.dflt[c] \in Dom(c) \cup {Null, Absent}
    /\ \A c \in sch.notNull : sch.dflt[c] # Null

ASSUME RelationalAssumption ==
    /\ Half \in Nat \ {0} /\ Pks \subseteq (-Half) .. (Half - 1)
    /\ Texts \subseteq Seq(Tokens) /\ Vecs \subseteq Seq(Nat) /\ Unkeyable \subseteq Texts \ KeyVals
    /\ AutoIncrement \in BOOLEAN /\ AFirst \in BOOLEAN /\ Cosine \in BOOLEAN
    /\ Schemas \subseteq Schema /\ \A sch \in Schemas : Built(sch)
    /\ Batches \subseteq Seq(Item)
    /\ Changes \subseteq Row
    /\ None \notin Pks /\ None \notin Texts \cup Vecs /\ None \notin Row /\ None \notin Schema
    /\ Null \notin KeyVals \cup Texts \cup Vecs
    /\ Absent \notin KeyVals \cup Texts \cup Vecs /\ Absent # Null

\* What the shared key-value store holds for the table.  "torn" is history:
\* the indexes that a failed statement of a batch left behind the rows.
Indexes == IndexCols \cup {"fts", "ann"}
Fts == [post : SUBSET (Tokens \X Pks \X Nat), len : [Pks -> Nat \cup {None}],
        docs : Nat, terms : Nat]
Ann == [node : [Pks -> Vecs \cup {None}], dim : Nat, count : Nat]
Table == [def : Schema \cup {None}, rows : [Pks -> Row \cup {None}],
          idx : SUBSET (IndexCols \X Cells \X Pks), next : Nat \ {0},
          fts : Fts \cup {None}, ann : Ann \cup {None}, torn : SUBSET Indexes]

NewTable == [def |-> None, rows |-> [k \in Pks |-> None], idx |-> {}, next |-> 1,
             fts |-> None, ann |-> None, torn |-> {}]

InsertStmt == [op : {"insert"}, sch : Schema, replace : BOOLEAN, todo : Seq(Item),
               base : Nat, next : Nat, mine : SUBSET Pks]
RewriteStmt == [op : {"rewrite"}, sch : Schema, targets : SUBSET Pks,
                change : Row \cup {None}]

\* Every variable has its type.
TypeOK ==
    /\ db \in Table /\ work \in Table
    /\ mode \in {"idle", "auto", "batch"}
    /\ stmt \in {NoStmt} \cup InsertStmt \cup RewriteStmt
    /\ left \in 0..MaxStmts

Init ==
    /\ db = NewTable /\ work = NewTable
    /\ mode = "idle" /\ stmt = NoStmt /\ left = MaxStmts

-----------------------------------------------------------------------------
\* Rows and the indexes over "a" and "s".

Least(S) == CHOOSE k \in S : \A j \in S : k <= j
Live(t) == {k \in Pks : t.rows[k] # None}
Cell(row, c) == IF row = None THEN Absent ELSE row[c]
Indexable(row, c) == Cell(row, c) \notin {Null, Absent}

\* The keys a row has in the indexes over cols; index_key fails on the rest.
Keyable(row, c) == Indexable(row, c) /\ row[c] \notin Unkeyable
Keyed(cols, row) == {c \in cols : Keyable(row, c)}
IndexKeys(cols, k, row) == {<<c, row[c], k>> : c \in Keyed(cols, row)}

\* A loop over the indexed columns of a row stops at the key of "s", after
\* the columns declared before it.
Stuck(sch, row) == "s" \in sch.indexed /\ Cell(row, "s") \in Unkeyable
Passed(sch) == IF AFirst THEN sch.indexed \ {"s"} ELSE {}

\* validate_row.
ValidRow(sch, row) ==
    /\ \A c \in Columns : row[c] # Absent => c \in sch.cols /\ row[c] \in Dom(c) \cup {Null}
    /\ \A c \in sch.notNull : Indexable(row, c)

\* The columns an insert leaves out get their defaults.
WithDefaults(sch, row) ==
    [c \in Columns |-> IF c \in sch.cols /\ row[c] = Absent THEN sch.dflt[c] ELSE row[c]]

\* index_lookup_eq_in: entries of the value whose row still agrees with them.
LookupEq(t, c, v) == {k \in Live(t) : <<c, v, k>> \in t.idx /\ t.rows[k][c] = v}

\* check_unique, with the row an update changes; it fails on a value that
\* cannot be looked up.
CheckUnique(t, sch, k, row, old) ==
    \A c \in sch.unique :
        Indexable(row, c) /\ Cell(old, c) # row[c]
            => Keyable(row, c) /\ LookupEq(t, c, row[c]) \subseteq {k}

-----------------------------------------------------------------------------
\* The search indexes.

TokenSet(text) == {text[i] : i \in DOMAIN text}
Frequency(text, tok) == Cardinality({i \in DOMAIN text : text[i] = tok})
NatSubWrapping(a, b) == a - b
NatSub(a, b) == IF a > b THEN a - b ELSE 0
TextOf(row) == IF Cell(row, "s") \in Texts THEN row["s"] ELSE None

\* index_text with sign -1 and 1.
Unindex(f, k, text) ==
    IF text = None THEN f
    ELSE [post |-> {e \in f.post : e[2] # k \/ e[1] \notin TokenSet(text)},
          len |-> [f.len EXCEPT ![k] = None],
          docs |-> NatSub(f.docs, 1), terms |-> NatSub(f.terms, Len(text))]

IndexText(f, k, text) ==
    IF text = None THEN f
    ELSE [post |-> {e \in f.post : e[2] # k \/ e[1] \notin TokenSet(text)}
                       \cup {<<tok, k, Frequency(text, tok)>> : tok \in TokenSet(text)},
          len |-> [f.len EXCEPT ![k] = Len(text)],
          docs |-> f.docs + 1, terms |-> f.terms + Len(text)]

FtsChange(f, k, old, new) ==
    IF f = None \/ TextOf(old) = TextOf(new) THEN f
    ELSE IndexText(Unindex(f, k, TextOf(old)), k, TextOf(new))

\* Hnsw::prepare: what has no node.
Unindexed(v) == v = <<>> \/ (Cosine /\ \A i \in DOMAIN v : v[i] = 0)

\* Hnsw::remove and Hnsw::add for one row, as the tables see them.  A vector
\* of another dimension is refused after the old node is gone and before the
\* metadata is saved.
AnnRemove(x, k) ==
    IF x.node[k] = None THEN x
    ELSE [x EXCEPT !.node[k] = None, !.count = NatSub(@, 1)]

AnnRefuses(x, v) == v \in Vecs /\ v # <<>> /\ x.count # 0 /\ Len(v) # x.dim

AnnAdd(x, k, v) ==
    IF v \notin Vecs \/ v = <<>> THEN x
    ELSE LET d == [x EXCEPT !.dim = Len(v)]
         IN  IF Unindexed(v) THEN d ELSE [d EXCEPT !.node[k] = v, !.count = @ + 1]

\* on_row_change: vector index first, then full text; [ok, t].
OnRowChange(t, k, old, new) ==
    LET changed == t.ann # None /\ Cell(old, "v") # Cell(new, "v")
        gone == IF Cell(old, "v") = Absent THEN t.ann ELSE AnnRemove(t.ann, k)
        v == Cell(new, "v")
    IN  IF changed /\ AnnRefuses(gone, v)
        THEN [ok |-> FALSE,
              t |-> [t EXCEPT !.ann = [t.ann EXCEPT !.node = gone.node],
                              !.torn = @ \cup {"fts", "ann"}]]
        ELSE [ok |-> TRUE,
              t |-> [t EXCEPT !.ann = IF changed THEN AnnAdd(gone, k, v) ELSE @,
                              !.fts = FtsChange(@, k, old, new)]]

-----------------------------------------------------------------------------
\* One row; each returns [ok, t], what the transaction holds afterwards.

\* The row of key k becomes row; the keys out leave the indexes and the keys
\* in enter them; a failure leaves the indexes torn behind.
Put(t, k, row, out, in, torn) ==
    [t EXCEPT !.rows[k] = row, !.idx = (@ \ out) \cup in, !.torn = @ \cup torn]

\* write_row_in: the old row's keys go, the row is put, its keys are put; the
\* key of the old or of the new "s" may fail half way.
WriteRow(t, sch, k, values, replace) ==
    LET row == WithDefaults(sch, values)
        old == t.rows[k]
        before == IndexKeys(sch.indexed, k, old)
        done == Passed(sch)
    IN  IF \/ ~ValidRow(sch, row)
           \/ old # None /\ ~replace
           \/ ~CheckUnique(t, sch, k, row, None)
        THEN Fail(t)
        ELSE IF Stuck(sch, old)
        THEN Fail(Put(t, k, old, IndexKeys(done, k, old), {}, Keyed(done, old)))
        ELSE IF Stuck(sch, row)
        THEN Fail(Put(t, k, row, before, IndexKeys(done, k, row),
                      Keyed(sch.indexed \ done, row) \cup {"fts", "ann"}))
        ELSE OnRowChange(Put(t, k, row, before, IndexKeys(sch.indexed, k, row), {}),
                         k, old, row)

\* delete_row_in: the row goes first.
DeleteRow(t, sch, k) ==
    LET old == t.rows[k] IN
    IF old = None THEN Ok(t)
    ELSE IF Stuck(sch, old)
    THEN Fail(Put(t, k, None, IndexKeys(Passed(sch), k, old), {}, {"fts", "ann"}))
    ELSE OnRowChange(Put(t, k, None, IndexKeys(sch.indexed, k, old), {}, {}), k, old, None)

\* update_row_in: the keys of the indexed columns that change, one column
\* after the other and the old key before the new one; then the row.
UpdateRow(t, sch, k, change) ==
    LET old == t.rows[k]
        new == [c \in Columns |-> IF change[c] = Absent THEN old[c] ELSE change[c]]
        changed == {c \in sch.indexed : Indexable(old, c) \/ Indexable(new, c)}
                       \cap {c \in sch.indexed : old[c] # new[c]}
        done == changed \cap Passed(sch)
    IN  IF old = None THEN Ok(t)
        ELSE IF ~ValidRow(sch, new) \/ ~CheckUnique(t, sch, k, new, old) THEN Fail(t)
        ELSE IF "s" \in changed /\ (Stuck(sch, old) \/ Stuck(sch, new))
        THEN Fail(Put(t, k, old, IndexKeys(done \cup {"s"}, k, old), IndexKeys(done, k, new),
                      Keyed(done \cup {"s"}, old)))
        ELSE OnRowChange(Put(t, k, new, IndexKeys(changed, k, old),
                             IndexKeys(changed, k, new), {}),
                         k, old, new)

\* bump_pk_counter_past.
BumpNever(t, k) == t
BumpPast(t, k) ==
    IF AutoIncrement /\ k >= 1 /\ k + 1 > t.next THEN [t EXCEPT !.next = k + 1] ELSE t

-----------------------------------------------------------------------------
\* Statements.

\* TableRef::resolve: None is its error.
Resolve(t, handle) ==
    IF handle = ByName THEN t.def
    ELSE IF t.def \in {None, handle} THEN handle ELSE None

-----------------------------------------------------------------------------
\* Inserting: insert(_bulk), upsert(_bulk) and the _with_pk forms.

Allocates(item) == AutoIncrement /\ item.pk = None
ToAllocate(items) == Cardinality({i \in DOMAIN items : Allocates(items[i])})

\* A u64 counter "as i64".
AsI64(n) == IF n < Half THEN n ELSE n - 2 * Half
Block(first, n) == {AsI64(first + i) : i \in 0 .. (n - 1)}

\* insert_bulk_in up to its loop: resolve, reserve the automatic keys.
InsertBulk(handle, items, replace) ==
    LET sch == Resolve(work, handle)
        n == ToAllocate(items)
    IN  /\ Block(work.next, n) \subseteq Pks   \* bound: keys of Pks
        /\ work.next + n < 2 * Half             \* bound: the counter is a u64
        /\ IF sch = None THEN Apply(Fail(work))
           ELSE Loop([work EXCEPT !.next = @ + n],
                     [op |-> "insert", sch |-> sch, replace |-> replace, todo |-> items,
                      base |-> work.next, next |-> work.next, mine |-> {}])

\* insert_with_pk_bulk_in, which an automatic key only lets upsert.
InsertWithPk(handle, items, replace) ==
    LET sch == Resolve(work, handle) IN
    /\ \A i \in DOMAIN items : items[i].pk # None
    /\ IF sch = None \/ (AutoIncrement /\ ~replace) THEN Apply(Fail(work))
       ELSE Loop(work, [op |-> "insert", sch |-> sch, replace |-> replace, todo |-> items,
                        base |-> work.next, next |-> work.next, mine |-> {}])

\* The key and the table with which an insert's loop writes its next row.  The
\* i64 "next" wraps, as it does in a release build.
NextPk == IF Allocates(Head(stmt.todo)) THEN AsI64(stmt.next) ELSE Head(stmt.todo).pk
NextTable == IF Allocates(Head(stmt.todo)) THEN work ELSE BumpPast(work, NextPk)

InsertNext ==
    /\ stmt.op = "insert" /\ stmt.todo # <<>>
    /\ LET r == IF NextPk = None THEN Fail(work)
                ELSE WriteRow(NextTable, stmt.sch, NextPk, Head(stmt.todo).row, stmt.replace)
       IN  IF r.ok
           THEN GoOn(r.t, [stmt EXCEPT
                               !.todo = Tail(@), !.mine = @ \cup {NextPk},
                               !.next = IF Allocates(Head(stmt.todo)) THEN @ + 1 ELSE @])
           ELSE Finish(r)

InsertDone ==
    /\ stmt.op = "insert" /\ stmt.todo = <<>>
    /\ Finish(Ok(work))

-----------------------------------------------------------------------------
\* Updating and deleting: the rows are selected first, then changed one by one.

\* select_in with the filter a = v: by index when the schema has one.
Selected(t, sch, v) ==
    IF v # Null /\ "a" \in sch.indexed THEN LookupEq(t, "a", v)
    ELSE {k \in Live(t) : IF v = Null THEN ~Indexable(t.rows[k], "a") ELSE t.rows[k]["a"] = v}

Rewrite(sch, targets, change) ==
    IF sch = None THEN Apply(Fail(work))
    ELSE Loop(work, [op |-> "rewrite", sch |-> sch, targets |-> targets, change |-> change])

\* update(pk) / delete(pk): the change None deletes.
RewriteOne(handle, k, change) == Rewrite(Resolve(work, handle), {k}, change)

\* update_where / delete_where; a column the schema lacks is an error.
RewriteWhere(handle, v, change) ==
    LET sch == Resolve(work, handle) IN
    IF sch # None /\ "a" \notin sch.cols THEN Apply(Fail(work))
    ELSE Rewrite(sch, Selected(work, sch, v), change)

RewriteNext ==
    /\ stmt.op = "rewrite" /\ stmt.targets # {}
    /\ LET k == Least(stmt.targets)
           r == IF stmt.change = None THEN DeleteRow(work, stmt.sch, k)
                ELSE UpdateRow(work, stmt.sch, k, stmt.change)
       IN  IF r.ok
           THEN GoOn(r.t, [stmt EXCEPT !.targets = @ \ {k}]) ELSE Finish(r)

RewriteDone ==
    /\ stmt.op = "rewrite" /\ stmt.targets = {}
    /\ Finish(Ok(work))

-----------------------------------------------------------------------------
\* The catalog.

\* rebuild_index over one column: rows in key order, stopping at the first
\* value that is no key or that a UNIQUE column repeats.
Repeats(t, c, k) == \E j \in Live(t) : j < k /\ t.rows[j][c] = t.rows[k][c]

RebuildIndex(t, sch, c) ==
    LET has == {k \in Live(t) : Indexable(t.rows[k], c)}
        bad == {k \in has : t.rows[k][c] \in Unkeyable \/ (c \in sch.unique /\ Repeats(t, c, k))}
        done == {k \in has : \A j \in bad : k < j}
        idx == {e \in t.idx : e[1] # c} \cup {<<c, t.rows[k][c], k>> : k \in done}
    IN  IF bad = {} THEN Ok([t EXCEPT !.idx = idx, !.torn = @ \ {c}])
        ELSE Fail([t EXCEPT !.idx = idx, !.torn = @ \cup {c}])

\* The indexes over cols, in the order of the columns.
Rebuild(t, sch, cols) ==
    LET first == IF AFirst THEN "a" ELSE "s"
        second == IF AFirst THEN "s" ELSE "a"
        r == IF first \in cols THEN RebuildIndex(t, sch, first) ELSE Ok(t)
    IN  IF r.ok /\ second \in cols THEN RebuildIndex(r.t, sch, second) ELSE r

StoreDef(t, sch) == Ok([t EXCEPT !.def = sch])

\* adopt_in: a table without rows keeps the index entries it may still have.
AdoptUnindexed(t, sch) == StoreDef(t, sch)
Adopt(t, sch) ==
    LET r == IF Live(t) # {} THEN Rebuild(t, sch, sch.indexed) ELSE Ok(t)
    IN  IF r.ok THEN StoreDef(r.t, sch) ELSE r

\* migrate_in's row: dropped columns go, added ones get their default.
Migrated(old, new, row) ==
    [c \in Columns |-> IF c \notin new.cols THEN Absent
                       ELSE IF c \notin old.cols /\ row[c] = Absent THEN new.dflt[c]
                       ELSE row[c]]

\* Which indexes migrate_in builds again.
RebuildsNew(old, new) == new.indexed \ old.indexed
Rebuilds(old, new) == {c \in new.indexed : c \notin old.indexed \/ c \in new.unique \ old.unique}

Migrate(t, new) ==
    LET old == t.def
        row(k) == Migrated(old, new, t.rows[k])
        bad == {k \in Live(t) : ~ValidRow(new, row(k))}
        moved == [t EXCEPT !.rows =
                     [k \in Pks |-> IF k \in Live(t) /\ \A j \in bad : k < j
                                    THEN row(k) ELSE t.rows[k]]]
        cleared == [moved EXCEPT !.idx = {e \in @ : e[1] \notin old.indexed \ new.indexed}]
        r == IF bad # {} THEN Fail(moved) ELSE Rebuild(cleared, new, Rebuilds(old, new))
    IN  IF r.ok THEN StoreDef(r.t, new)
        ELSE Fail([r.t EXCEPT !.torn = @ \cup (old.indexed \ new.indexed) \cup {"fts", "ann"}])

\* retain_valid_in after a migration.
RetainAll(t, sch) == t
RetainValid(t, sch) ==
    [t EXCEPT !.fts = IF "s" \in sch.cols THEN @ ELSE None,
              !.ann = IF "v" \in sch.cols THEN @ ELSE None]

EnsureTable(t, sch) ==
    IF t.def = None THEN Adopt(t, sch)
    ELSE IF t.def = sch THEN Ok(t)
    ELSE LET r == Migrate(t, sch) IN IF r.ok THEN Ok(RetainValid(r.t, sch)) ELSE r

CreateTable(sch) ==
    Apply(IF work.def = None THEN Adopt(work, sch)
          ELSE IF work.def = sch THEN Ok(work) ELSE Fail(work))

MigrateTable(sch) == Apply(EnsureTable(work, sch))

\* create_index / drop_index: the registered schema, rebuilt with the index.
CreateIndex(c) ==
    Apply(IF work.def = None \/ c \notin work.def.cols THEN Fail(work)
          ELSE EnsureTable(work, [work.def EXCEPT !.indexed = @ \cup {c}]))

DropIndex(c) ==
    Apply(IF work.def = None THEN Fail(work)
          ELSE EnsureTable(work, [work.def EXCEPT !.indexed = @ \ {c}, !.unique = @ \ {c}]))

\* drop_table_in clears the indexes the registered schema names.
DropTable ==
    Apply(IF work.def = None THEN Ok(work)
          ELSE Ok([NewTable EXCEPT !.idx = {e \in work.idx : e[1] \notin work.def.indexed}]))

-----------------------------------------------------------------------------
\* Creating and dropping the search indexes.

\* The backfill of create_fulltext_index_in.
FtsOf(t) ==
    LET withText == {k \in Live(t) : TextOf(t.rows[k]) # None} IN
    [post |-> UNION {{<<tok, k, Frequency(t.rows[k]["s"], tok)>> :
                          tok \in TokenSet(t.rows[k]["s"])} : k \in withText},
     len |-> [k \in Pks |-> IF k \in withText THEN Len(t.rows[k]["s"]) ELSE None],
     docs |-> Cardinality(withText),
     terms |-> Cardinality(UNION {{<<k, i>> : i \in DOMAIN t.rows[k]["s"]} : k \in withText})]

CreateFulltext ==
    Apply(IF work.def = None \/ "s" \notin work.def.cols THEN Fail(work)
          ELSE IF work.fts # None THEN Ok(work)
          ELSE Ok([work EXCEPT !.fts = FtsOf(work), !.torn = @ \ {"fts"}]))

DropFulltext == Apply(Ok([work EXCEPT !.fts = None]))

\* The backfill of ann::create_in, in key order: the first vector that has a
\* node fixes the dimension, and a later one of another dimension stops it
\* with the nodes written and the metadata of an empty index.
AnnCreate(t) ==
    LET vec == {k \in Live(t) : Cell(t.rows[k], "v") \in Vecs \ {<<>>}}
        node == {k \in vec : ~Unindexed(t.rows[k]["v"])}
        dim == IF node # {} THEN Len(t.rows[Least(node)]["v"])
               ELSE IF vec # {} THEN Len(t.rows[CHOOSE k \in vec : \A j \in vec : j <= k]["v"])
               ELSE 0
        bad == {k \in vec : node # {} /\ Least(node) < k /\ Len(t.rows[k]["v"]) # dim}
        nodes == [k \in Pks |-> IF k \in node /\ \A j \in bad : k < j
                                THEN t.rows[k]["v"] ELSE None]
    IN  IF bad # {}
        THEN Fail([t EXCEPT !.ann = [node |-> nodes, dim |-> 0, count |-> 0],
                            !.torn = @ \cup {"ann"}])
        ELSE Ok([t EXCEPT !.ann = [node |-> nodes, dim |-> dim, count |-> Cardinality(node)],
                          !.torn = @ \ {"ann"}])

CreateVector ==
    Apply(IF work.def = None \/ "v" \notin work.def.cols THEN Fail(work)
          ELSE IF work.ann # None THEN Ok(work)
          ELSE AnnCreate(work))

DropVector == Apply(Ok([work EXCEPT !.ann = None]))

-----------------------------------------------------------------------------
Handles == Schemas \cup {ByName}

Next ==
    \/ BeginBatch \/ CommitBatch \/ DropBatch
    \/ \E h \in Handles, items \in Batches, replace \in BOOLEAN :
           InsertBulk(h, items, replace) \/ InsertWithPk(h, items, replace)
    \/ \E h \in Handles, k \in Pks, change \in Changes \cup {None} : RewriteOne(h, k, change)
    \/ \E h \in Handles, v \in KeyVals \cup {Null}, change \in Changes \cup {None} :
           RewriteWhere(h, v, change)
    \/ InsertNext \/ InsertDone \/ RewriteNext \/ RewriteDone
    \/ \E sch \in Schemas : CreateTable(sch) \/ MigrateTable(sch)
    \/ \E c \in IndexCols : CreateIndex(c) \/ DropIndex(c)
    \/ DropTable
    \/ CreateFulltext \/ DropFulltext \/ CreateVector \/ DropVector

Spec == Init /\ [][Next]_vars

-----------------------------------------------------------------------------
\* A lookup by index returns exactly the rows that hold the value, whatever
\* mixture of writes, migrations and adoptions of a table used without the
\* catalog came before (read.rs, resolve_index_rows_in).  A batch that goes on
\* after a statement failed half way is left with the indexes in "torn" behind
\* its rows, and only with those, until they are built again.
LookupExact ==
    \A t \in {db, work} : t.def # None =>
        \A c \in t.def.indexed \ t.torn : \A v \in Dom(c) \ Unkeyable :
            LookupEq(t, c, v) = {k \in Live(t) : t.rows[k][c] = v}

\* No two rows share a value of a UNIQUE column (write.rs, check_unique and
\* catalog.rs, rebuild_index), across statements, batches and migrations, as
\* long as no failed statement of a batch left the index of the column behind.
UniqueHolds ==
    \A t \in {db, work} : t.def # None =>
        \A c \in t.def.unique \ t.torn : \A j, k \in Live(t) :
            j # k /\ Indexable(t.rows[j], c) => t.rows[j][c] # t.rows[k][c]

\* The full-text and the vector index describe exactly the rows of the table
\* (fulltext.rs on_row_change, ann/mod.rs), unless a batch went on after a
\* statement that failed between its row and its search indexes: one whose
\* vector was refused or whose index key could not be encoded.
SearchAgrees ==
    \A t \in {db, work} : t.def # None =>
        /\ "fts" \notin t.torn /\ t.fts # None => t.fts = FtsOf(t)
        /\ "ann" \notin t.torn /\ t.ann # None =>
               LET live == {k \in Pks : t.ann.node[k] # None} IN
               /\ t.ann.count = Cardinality(live)
               /\ \A k \in Pks : t.ann.node[k] =
                     IF Cell(t.rows[k], "v") \in Vecs /\ ~Unindexed(t.rows[k]["v"])
                     THEN t.rows[k]["v"] ELSE None
               /\ \A k \in live : Len(t.ann.node[k]) = t.ann.dim

\* The insert is about to give out an automatic key.
Allocating == stmt.op = "insert" /\ stmt.todo # <<>> /\ Allocates(Head(stmt.todo))

\* As long as the counter is an i64, an automatic key never names a row that
\* was there before its statement, whatever explicit keys, failed statements
\* and batches came before (codec.rs, reserve_pks and bump_pk_counter_past).
\* A row of the same insert may be in its way: see AutoKeyFree.
FreshKeys == Allocating /\ stmt.next < Half => (NextPk \in Live(work) => NextPk \in stmt.mine)

-----------------------------------------------------------------------------
(* A claim of the documentation that an upsert of several rows does not keep. *)

\* db/sync.rs:121-122 and relational/db/table.rs:120-121: in an upsert a row
\* without a key "gets a fresh one".  The block of automatic keys is reserved
\* before the loop, so an explicit key of the same call can fall into it: the
\* automatic key then names the row just written, and the upsert replaces it.
AutoKeyFree == Allocating /\ stmt.replace => NextPk \notin Live(work)
=============================================================================
