------------------------------ MODULE SsTable -------------------------------
(***************************************************************************)
(* SSTables and reads by key (bkndb-storage-lsm/src: bloom.rs, sstable/,   *)
(* engine/tx.rs): how a table is cut into blocks and searched, and which   *)
(* of the layers answers.                                                  *)
(*                                                                         *)
(* Keys are byte strings.  A layer (the pending writes of a transaction, a *)
(* memtable) is a function from the keys it holds to <<v>>, or <<>> for a  *)
(* tombstone.  A block is the list of its entries; sst.bad holds the       *)
(* blocks whose checksum no longer matches.  The unchecked blocks of       *)
(* format v1 and compression are left out.                                 *)
(***************************************************************************)
EXTENDS Integers, FiniteSets, FiniteSetsExt, SequencesExt, KeyCodec

CONSTANTS
    BloomBits,     \* m, the bits of a filter
    BloomProbes,   \* k, the bits looked at for a key
    BaseHashes(_)  \* the two hashes of a key

\* The entries of a layer in the order of its keys: the n-th key has n - 1
\* before it.
KeysInOrder(K) == [n \in 1..Cardinality(K) |-> CHOOSE k \in K : Cardinality({x \in K : Less(x, k)}) = n - 1]
Entries(layer) ==
    LET keys == KeysInOrder(DOMAIN layer) IN [n \in DOMAIN keys |-> [k |-> keys[n], e |-> layer[keys[n]]]]

\* probe_bits: double hashing.
ProbeBits(key) ==
    LET h == BaseHashes(key) IN {((h[1] + i * h[2]) % 2^16) % BloomBits : i \in 0..BloomProbes - 1}
MightContain(bloom, key) == ProbeBits(key) \subseteq bloom

-----------------------------------------------------------------------------
\* SstableHandle::write.

\* encode_entry: a length, the key, a tag, and for a value a length and one byte.
EntryLen(x) == 4 + Len(x.k) + 1 + (IF x.e = <<>> THEN 0 ELSE 4 + 1)

FinishBlock(w) ==
    IF w.raw = <<>> THEN w ELSE [w EXCEPT !.blocks = Append(@, w.raw), !.raw = <<>>, !.len = 0]
Push(w, x, blockSize) ==
    LET fuller == [w EXCEPT !.raw = Append(@, x), !.len = @ + EntryLen(x), !.bloom = @ \cup ProbeBits(x.k)]
    IN  IF fuller.len >= Max({blockSize, 1}) THEN FinishBlock(fuller) ELSE fuller

Pushed(entries, blockSize) ==
    LET after[n \in 0..Len(entries)] ==
            IF n = 0 THEN [blocks |-> <<>>, raw |-> <<>>, len |-> 0, bloom |-> {}]
            ELSE Push(after[n - 1], entries[n], blockSize)
    IN  after[Len(entries)]

Write(entries, blockSize) ==
    LET w == FinishBlock(Pushed(entries, blockSize))
    IN  [blocks |-> w.blocks, bloom |-> w.bloom, count |-> Len(entries), bad |-> {},
         min |-> IF entries = <<>> THEN <<>> ELSE Head(entries).k,
         max |-> IF entries = <<>> THEN <<>> ELSE Last(entries).k]

-----------------------------------------------------------------------------
\* Reading one SSTable.

\* block_for: the last block that begins at or before the key, 0 if none does.
BlockForPast(sst, key) == Cardinality({i \in DOMAIN sst.blocks : Less(sst.blocks[i][1].k, key)})
BlockFor(sst, key) == Cardinality({i \in DOMAIN sst.blocks : ~Less(key, sst.blocks[i][1].k)})

\* get: found is <<>>, or the entry, <<v>> or <<>>, in a sequence.
SstGet(sst, key) ==
    LET none == [bad |-> FALSE, found |-> <<>>]
        i == BlockFor(sst, key)
    IN  IF sst.blocks = <<>> \/ Less(key, sst.min) \/ Less(sst.max, key) \/ ~MightContain(sst.bloom, key) \/ i = 0
        THEN none
        ELSE IF i \in sst.bad THEN [bad |-> TRUE, found |-> <<>>]
        ELSE LET at == {j \in DOMAIN sst.blocks[i] : sst.blocks[i][j].k = key}
             IN  IF at = {} THEN none ELSE [bad |-> FALSE, found |-> <<sst.blocks[i][Min(at)].e>>]

-----------------------------------------------------------------------------
\* A snapshot: s.mems holds the memtables and s.ssts the SSTables, both newest
\* first; pending is <<>>, or the writes of the transaction that reads.

Tells(sst, key) == SstGet(sst, key).bad \/ SstGet(sst, key).found # <<>>

\* lookup: the first layer that holds the key, or fails to tell, answers.
Lookup(s, pending, key) ==
    LET layers == pending \o s.mems
        held == {i \in DOMAIN layers : key \in DOMAIN layers[i]}
        told == {i \in DOMAIN s.ssts : Tells(s.ssts[i], key)}
    IN  IF held # {} THEN [bad |-> FALSE, v |-> layers[Min(held)][key]]
        ELSE IF told = {} THEN [bad |-> FALSE, v |-> <<>>]
        ELSE LET r == SstGet(s.ssts[Min(told)], key)
             IN  [bad |-> r.bad, v |-> IF r.bad THEN <<>> ELSE r.found[1]]

-----------------------------------------------------------------------------
\* The definition the reads are compared with: the newest of the layers that
\* hold a key, whatever the blocks and the filter.
EntriesIn(sst) == UNION {ToSet(sst.blocks[i]) : i \in DOMAIN sst.blocks}
LayerOf(sst) == [k \in {x.k : x \in EntriesIn(sst)} |-> (CHOOSE x \in EntriesIn(sst) : x.k = k).e]
Stack(s, pending) == pending \o s.mems \o [i \in DOMAIN s.ssts |-> LayerOf(s.ssts[i])]
Visible(stack, key) ==
    LET held == {i \in DOMAIN stack : key \in DOMAIN stack[i]} IN IF held = {} THEN <<>> ELSE stack[Min(held)][key]

\* What Write leaves, whichever blocks are damaged later: keys ascend along the
\* blocks, none of which is empty, the filter and the ends of the table hold
\* them all, and they are as many as was noted.
IsTable(sst) ==
    /\ sst.bad \subseteq DOMAIN sst.blocks /\ sst.count = Cardinality(DOMAIN LayerOf(sst))
    /\ sst.blocks \in Seq(Seq(EntriesIn(sst)) \ {<<>>}) /\ sst.min \in Bytes /\ sst.max \in Bytes
    /\ \A x \in EntriesIn(sst) :
           /\ x = [k |-> x.k, e |-> x.e] /\ x.k \in Bytes
           /\ ~Less(x.k, sst.min) /\ ~Less(sst.max, x.k) /\ MightContain(sst.bloom, x.k)
    /\ \A i, j \in DOMAIN sst.blocks : \A p \in DOMAIN sst.blocks[i], q \in DOMAIN sst.blocks[j] :
           i < j \/ (i = j /\ p < q) => Less(sst.blocks[i][p].k, sst.blocks[j][q].k)

\* The layers of a snapshot as the code keeps them: finite maps and tables.
IsStore(s, pending) ==
    /\ pending \in Seq(ToSet(pending)) /\ s.mems \in Seq(ToSet(s.mems)) /\ s.ssts \in Seq(ToSet(s.ssts))
    /\ \A layer \in ToSet(pending) \cup ToSet(s.mems) : IsFiniteSet(DOMAIN layer) /\ DOMAIN layer \subseteq Bytes
    /\ \A sst \in ToSet(s.ssts) : IsTable(sst)

\* An error comes only of a damaged block the answer depends on.
GetExact(s, pending, key) ==
    LET r == Lookup(s, pending, key)
        stack == Stack(s, pending)
        newer == Len(pending) + Len(s.mems)
    IN  IF r.bad
        THEN \E i \in DOMAIN s.ssts :
                /\ BlockFor(s.ssts[i], key) \in s.ssts[i].bad
                /\ \A j \in 1..newer + i - 1 : key \notin DOMAIN stack[j]
        ELSE r.v = Visible(stack, key)

=============================================================================
