------------------------------ MODULE LsmScan -------------------------------
(***************************************************************************)
(* Reading the LSM layers by range (bkndb-storage-lsm/src:                 *)
(* sstable/cursor.rs, compaction.rs, engine/tx.rs): how a table is walked, *)
(* and the merge that scans, compaction and backup share.                  *)
(*                                                                         *)
(* What an iterator yields is [list, fails]: entries, and whether an error *)
(* follows them, after which it ends.                                      *)
(***************************************************************************)
EXTENDS SsTable

\* SstCursor: the entries of a block and of those after it.  A block is decoded
\* as a whole, so a damaged one fails where its first entry would come.
BlockItems(sst, from) ==
    FlattenSeq([i \in DOMAIN sst.blocks |->
        IF i < from THEN <<>>
        ELSE [p \in DOMAIN sst.blocks[i] |-> [x |-> sst.blocks[i][p], lost |-> i \in sst.bad]]])

\* next: what lies below the start is skipped, the first entry past the end is
\* the end.
Take(w, item, lo, hi) ==
    IF w.done THEN w
    ELSE IF item.lost THEN [w EXCEPT !.done = TRUE, !.fails = TRUE]
    ELSE IF ~Above(lo, item.x.k) THEN w
    ELSE IF ~Below(hi, item.x.k) THEN [w EXCEPT !.done = TRUE]
    ELSE [w EXCEPT !.list = Append(@, item.x)]
CursorFrom(sst, from, lo, hi) ==
    LET items == BlockItems(sst, from)
        after[n \in 0..Len(items)] ==
            IF n = 0 THEN [list |-> <<>>, fails |-> FALSE, done |-> FALSE] ELSE Take(after[n - 1], items[n], lo, hi)
    IN  [list |-> after[Len(items)].list, fails |-> after[Len(items)].fails]

\* cursor: nothing is read of a table that lies outside the bounds.
Cursor(sst, lo, hi) ==
    IF \/ sst.blocks = <<>>
       \/ hi.side # "unbounded" /\ Less(hi.v, sst.min)
       \/ lo.side # "unbounded" /\ Less(sst.max, lo.v)
    THEN [list |-> <<>>, fails |-> FALSE]
    ELSE CursorFrom(sst, IF lo.side = "unbounded" THEN 1 ELSE BlockFor(sst, lo.v), lo, hi)

\* verify: every block is read, and the entries are as many as were written.
Verify(sst) == sst.bad = {} /\ Len(FlattenSeq(sst.blocks)) = sst.count

-----------------------------------------------------------------------------
\* MergeIter over sources ordered newest first.  m.pos counts what was pulled of
\* each source; the last of it is parked while the source is in the heap.

Parked(sources, m, i) == sources[i].list[m.pos[i]]

\* advance, of all the sources in I; an error waits until the entry in hand is
\* returned.
Advance(sources, m, I) ==
    LET more == {i \in I : m.pos[i] < Len(sources[i].list)}
    IN  [m EXCEPT !.pos = [i \in DOMAIN sources |-> IF i \in more THEN m.pos[i] + 1 ELSE m.pos[i]],
                  !.heap = (@ \ I) \cup more,
                  !.fails = @ \/ \E i \in I \ more : sources[i].fails]

\* next: of the entries with the least key the newest source's is returned, or
\* dropped if it is a tombstone; the others are discarded.  No source has a key
\* twice.
LeastParked(sources, m) ==
    CHOOSE k \in {Parked(sources, m, i).k : i \in m.heap} : \A i \in m.heap : ~Less(Parked(sources, m, i).k, k)
MergeNext(sources, m) ==
    IF m.fails \/ m.heap = {} THEN m
    ELSE LET same == {i \in m.heap : Parked(sources, m, i).k = LeastParked(sources, m)}
             x == Parked(sources, m, Min(same))
         IN  Advance(sources, IF x.e = <<>> THEN m ELSE [m EXCEPT !.list = Append(@, x)], same)

\* new, and next until the end: there are no more rounds than keys.
MergeStart(sources) ==
    Advance(sources, [pos |-> [i \in DOMAIN sources |-> 0], heap |-> {}, fails |-> FALSE, list |-> <<>>], DOMAIN sources)
KeysOf(sources) == UNION {{x.k : x \in ToSet(sources[i].list)} : i \in DOMAIN sources}
Merge(sources) ==
    LET rounds == Cardinality(KeysOf(sources))
        after[n \in 0..rounds] == IF n = 0 THEN MergeStart(sources) ELSE MergeNext(sources, after[n - 1])
    IN  [list |-> after[rounds].list, fails |-> after[rounds].fails]

-----------------------------------------------------------------------------
\* Scans of a snapshot: nothing is read where no key can lie between the bounds.
BoundsEmpty(lo, hi) ==
    /\ lo.side # "unbounded" /\ hi.side # "unbounded"
    /\ Less(hi.v, lo.v) \/ (hi.v = lo.v /\ ~(lo.side = "included" /\ hi.side = "included"))

Between(layer, lo, hi) == [k \in {x \in DOMAIN layer : Above(lo, x) /\ Below(hi, x)} |-> layer[k]]
ScanSources(s, pending, lo, hi) ==
    IF BoundsEmpty(lo, hi) THEN <<>>
    ELSE LET layers == pending \o s.mems
         IN  [i \in DOMAIN layers |-> [list |-> Entries(Between(layers[i], lo, hi)), fails |-> FALSE]]
             \o [i \in DOMAIN s.ssts |-> Cursor(s.ssts[i], lo, hi)]

\* table_scan_bounds: an unbounded side ends with the table, not the database.
TableBound(table, b, whole) == IF b.side = "unbounded" THEN whole ELSE [b EXCEPT !.v = EncodeKey(table, @)]
Stripped(table, k) == SubSeq(k, Len(TablePrefix(table)) + 1, Len(k))
ScanTable(s, pending, table, start, end) ==
    LET out == Merge(ScanSources(s, pending, TableBound(table, start, Included(TablePrefix(table))),
                                 TableBound(table, end, PastPrefix(TablePrefix(table), "excluded"))))
    IN  [list |-> [i \in DOMAIN out.list |-> [out.list[i] EXCEPT !.k = Stripped(table, @)]], fails |-> out.fails]

\* backup_to, and compact, which has no memtable to merge: one table of all
\* that the layers hold, unless one cannot be read.
WriteMerged(s, blockSize) ==
    LET out == Merge(ScanSources(s, <<>>, Unbounded, Unbounded))
    IN  IF out.fails THEN <<>> ELSE <<Write(out.list, blockSize)>>

-----------------------------------------------------------------------------
\* What scans and merges are compared with: the live keys, in order.
LiveKeys(stack) == {k \in UNION {DOMAIN stack[i] : i \in DOMAIN stack} : Visible(stack, k) # <<>>}
Live(stack) == [k \in LiveKeys(stack) |-> Visible(stack, k)]

\* A scan returns the live keys of its table within its bounds, each once and
\* in order, or an error after some of the first of them.
InScan(table, start, end, k) ==
    Starts(TablePrefix(table), k) /\ Above(start, Stripped(table, k)) /\ Below(end, Stripped(table, k))
ScanExact(s, pending, table, start, end) ==
    LET stack == Stack(s, pending)
        found == Entries([k \in {x \in LiveKeys(stack) : InScan(table, start, end, x)} |-> Visible(stack, k)])
        want == [i \in DOMAIN found |-> [found[i] EXCEPT !.k = Stripped(table, @)]]
        got == ScanTable(s, pending, table, start, end)
    IN  IF got.fails THEN IsPrefix(got.list, want) /\ \E i \in DOMAIN s.ssts : s.ssts[i].bad # {}
        ELSE got.list = want

\* Compaction and backup keep what was live and nothing else, or stop on a
\* damaged block.
MergedExact(s, blockSize) ==
    LET stack == Stack(s, <<>>)
        damaged == \E i \in DOMAIN s.ssts : ~Verify(s.ssts[i])
        c == WriteMerged(s, blockSize)
    IN  /\ (c = <<>>) <=> damaged
        /\ c # <<>> => /\ Verify(c[1])
                       /\ FlattenSeq(c[1].blocks) = Entries(Live(stack))
                       /\ \A k \in UNION {DOMAIN stack[i] : i \in DOMAIN stack} :
                              SstGet(c[1], k).found = IF Visible(stack, k) = <<>> THEN <<>> ELSE <<Visible(stack, k)>>

=============================================================================
