------------------------------ MODULE Container ------------------------------
(***************************************************************************)
(* The single-file container of bkndb-storage-lsm as a value: the body a   *)
(* sequence of extents (WAL frames, SSTable blobs, manifest blobs), the    *)
(* header two slots (container.rs, wal.rs, manifest.rs).  An offset is the *)
(* index of an extent; EOF is Len(body).                                   *)
(*                                                                         *)
(* A file also records what of it is durable: the first `synced` extents   *)
(* and the slots `dslots`.  CrashImages are the files a power loss or a    *)
(* process kill can leave behind.                                          *)
(***************************************************************************)
EXTENDS Layers

NoManifest == [kind |-> "none"]

\* One WAL frame: the whole pending map of one transaction.
Frame(pending) == [kind |-> "wal", data |-> pending]

\* One SSTable blob.
Blob(gen, layer) == [kind |-> "sst", gen |-> gen, data |-> layer]

\* manifest.rs: Manifest.  refs is a sequence of [gen, off].
Manifest(nextId, refs, walStart) ==
    [kind |-> "manifest", nextId |-> nextId, refs |-> refs, walStart |-> walStart]

\* Bytes that no checksum accepts: a torn write.
Junk == [kind |-> "junk"]

\* A header slot whose magic or checksum does not verify.
BadSlot == [seq |-> 0, man |-> 0, crc |-> NoManifest]

\* container.rs encode_slot: the slot names the manifest and pins its checksum,
\* which the model keeps as the manifest itself.
Slot(seq, off, manifest) == [seq |-> seq, man |-> off, crc |-> manifest]

EmptyFile ==
    [body   |-> << >>,
     synced |-> 0,
     slots  |-> [i \in {0, 1} |-> BadSlot],
     dslots |-> [i \in {0, 1} |-> BadSlot]]

AppendExtent(f, x) == [f EXCEPT !.body = Append(@, x)]

\* File::sync_data / sync_all.
Sync(f) == [f EXCEPT !.synced = Len(f.body), !.dslots = f.slots]

\* Mutant: the slot in use is overwritten instead of the other one.
PutHeaderInPlace(f, prevSeq, prevSlot, off) ==
    [f EXCEPT !.slots[IF prevSeq = 0 THEN 0 ELSE prevSlot] =
        Slot(prevSeq + 1, off, f.body[off])]

\* container.rs write_header, before its sync_data: the slot that is not the
\* previous one gets the next sequence number.
PutHeader(f, prevSeq, prevSlot, off) ==
    [f EXCEPT !.slots[1 - prevSlot] = Slot(prevSeq + 1, off, f.body[off])]

\* container.rs read_header on a file of at least BODY_START bytes: the valid
\* slot of the higher seq.
ActiveSlot(f) == IF f.slots[0].seq >= f.slots[1].seq THEN 0 ELSE 1

\* len < BODY_START: nothing was ever written to the body.
BrandNew(f) == f.body = << >> /\ \A i \in {0, 1} : f.slots[i] = BadSlot

HasHeader(f) == \E i \in {0, 1} : f.slots[i] # BadSlot

\* container.rs read_manifest and Manifest::decode: the range is inside the
\* file, its checksum matches the one in the slot, and it decodes.
ManifestReadable(f) ==
    LET s == f.slots[ActiveSlot(f)]
    IN  s.man \in DOMAIN f.body /\ f.body[s.man] = s.crc /\ s.crc.kind = "manifest"

LiveManifest(f) == f.body[f.slots[ActiveSlot(f)].man]

\* wal.rs replay_from: the offset of the last frame before the first extent
\* that is not a valid frame.
ValidEnd(f, start) ==
    IF start > Len(f.body)
      THEN start - 1
      ELSE CHOOSE e \in (start - 1)..Len(f.body) :
             /\ \A i \in start..e : f.body[i].kind = "wal"
             /\ e = Len(f.body) \/ f.body[e + 1].kind # "wal"

\* The records replay_from returns, oldest first.
Replayed(f, start) ==
    [i \in 1..(ValidEnd(f, start) + 1 - start) |-> f.body[start + i - 1].data]

\* Mutant: torn bytes are left behind the last good frame.
KeepTail(f, end) == f

\* set_len(valid_end) and sync_all, when the file is longer than valid_end.
Truncate(f, end) ==
    IF Len(f.body) > end
      THEN Sync([f EXCEPT !.body = SubSeq(@, 1, end)])
      ELSE f

\* sort_by_key(|s| s.generation), a stable sort.
SortByGeneration(refs) ==
    LET rank(i) == Cardinality({j \in DOMAIN refs :
                      \/ refs[j].gen < refs[i].gen
                      \/ refs[j].gen = refs[i].gen /\ j =< i})
    IN  [n \in DOMAIN refs |-> refs[CHOOSE i \in DOMAIN refs : rank(i) = n]]

\* engine/mod.rs write_fresh_container: a complete, fsynced database with one
\* SSTable, a manifest and an empty WAL region.
FreshFile(gen, layer) ==
    LET man  == Manifest(gen + 1, << [gen |-> gen, off |-> 1] >>, 3)
        body == AppendExtent(AppendExtent(EmptyFile, Blob(gen, layer)), man)
    IN  Sync(PutHeader(Sync(body), 0, 1, 2))

\* SstableHandle::open: the range holds an SSTable blob.
IsTable(f, off) == off \in DOMAIN f.body /\ f.body[off].kind = "sst"

\* The entries an SSTable range yields; none where there is no such blob.
TableAt(f, off) == IF IsTable(f, off) THEN f.body[off].data ELSE EmptyLayer

RefsIntact(f, refs) ==
    \A i \in DOMAIN refs :
        IsTable(f, refs[i].off) /\ f.body[refs[i].off].gen = refs[i].gen

\* The database a file holds: its SSTables from the manifest and the frames of
\* its WAL region, merged.  A file without a readable header holds none.
Stored(f) ==
    IF HasHeader(f) /\ ManifestReadable(f)
      THEN LET man  == LiveManifest(f)
               refs == SortByGeneration(man.refs)
               data == [i \in DOMAIN refs |-> TableAt(f, refs[i].off)]
           IN  Merged(data \o Replayed(f, man.walStart))
      ELSE Live(EmptyLayer)

\* open() accepts the file and finds every structure the header leads to.
Recoverable(f) ==
    \/ BrandNew(f)
    \/ HasHeader(f) /\ ManifestReadable(f) /\ RefsIntact(f, LiveManifest(f).refs)

\* What may be found in one slot after a crash: a write that was not synced may
\* have happened, not have happened, or be torn.
SlotOutcomes(f, i) ==
    {f.slots[i], f.dslots[i]} \cup
        (IF f.slots[i] # f.dslots[i] THEN {BadSlot} ELSE {})

\* What may be found of the body: every synced extent, then any number of the
\* others, each whole or torn.
BodyOutcomes(f) ==
    UNION {{[i \in 1..n |-> IF i \in torn THEN Junk ELSE f.body[i]] :
               torn \in SUBSET ((f.synced + 1)..n)} : n \in f.synced..Len(f.body)}

Image(b, s) == [body |-> b, synced |-> Len(b), slots |-> s, dslots |-> s]

CrashImages(f) ==
    {Image(b, [i \in {0, 1} |-> IF i = 0 THEN s0 ELSE s1]) :
        b \in BodyOutcomes(f), s0 \in SlotOutcomes(f, 0), s1 \in SlotOutcomes(f, 1)}

-----------------------------------------------------------------------------
(* Types *)

Extent ==
    [kind : {"wal"}, data : Layer]
        \cup [kind : {"sst"}, gen : Nat, data : Layer]
        \cup [kind : {"manifest"}, nextId : Nat, refs : Seq([gen : Nat, off : Nat]),
              walStart : Nat \ {0}]
        \cup {Junk}

SlotType == [seq : Nat, man : Nat, crc : Extent \cup {NoManifest}]

FileType ==
    [body : Seq(Extent), synced : Nat, slots : [{0, 1} -> SlotType],
     dslots : [{0, 1} -> SlotType]]

=============================================================================
