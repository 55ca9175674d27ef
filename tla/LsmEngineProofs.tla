-------------------------- MODULE LsmEngineProofs --------------------------
(***************************************************************************)
(* The LSM engine for every set of keys, values, readers and files, every  *)
(* option value, any number of operations and crashes and every pattern of *)
(* I/O errors: type correctness and stable snapshots; the files and lists  *)
(* at every step of a flush, a compaction and an open; that a healthy      *)
(* engine reads, and every crash leaves, what was committed; and the       *)
(* refinement of the storage contract.                                     *)
(***************************************************************************)
EXTENDS LsmEngine, TLAPS, FiniteSetTheorems

-----------------------------------------------------------------------------
(* What the operators of Layers and Container return and preserve *)

\* Every SSTable a manifest of the file lists lies before its WAL region.
ManifestSound(x) ==
    x.kind = "manifest" => \A i \in DOMAIN x.refs : x.refs[i].off < x.walStart

ManifestsSound(f) == \A n \in DOMAIN f.body : ManifestSound(f.body[n])

\* The file after the first write of a new database.
Bootstrapped(f) ==
    /\ 1 \in DOMAIN f.body /\ f.body[1].kind = "manifest"
    /\ \A i \in {0, 1} : f.slots[i] = BadSlot

-----------------------------------------------------------------------------
(* Layers *)

\* A nonempty set of naturals with an upper bound has a largest element.
LEMMA MaxExists ==
  ASSUME NEW S \in SUBSET Nat, NEW n \in Nat, \A s \in S : s =< n, S # {}
  PROVE  \E m \in S : \A s \in S : s =< m
<1> DEFINE T == {i \in Nat : \E s \in S : i = n - s}
<1>1. T \subseteq Nat
  OBVIOUS
<1>2. T # {}
  <2>1. PICK s \in S : TRUE
    OBVIOUS
  <2>2. s \in Nat /\ s =< n
    BY <2>1
  <2>3. n - s \in T
    BY <2>1, <2>2
  <2> QED BY <2>3
<1>3. PICK x \in T : \A y \in T : ~ (<< y, x >> \in OpToRel(<, Nat))
  <2> HIDE DEF T
  <2> QED BY <1>1, <1>2, NatLessThanWellFounded, WFMin
<1>4. ASSUME NEW y \in T PROVE x =< y
  <2>1. x \in Nat /\ y \in Nat
    OBVIOUS
  <2>2. ~ (<< y, x >> \in OpToRel(<, Nat))
    BY <1>3
  <2>3. ~ (y < x)
    <3> HIDE DEF T
    <3> QED BY <2>1, <2>2 DEF OpToRel
  <2> QED BY <2>1, <2>3
<1>5. PICK m \in S : x = n - m
  OBVIOUS
<1>6. ASSUME NEW s \in S PROVE s =< m
  <2>1. s \in Nat /\ s =< n /\ m \in Nat
    OBVIOUS
  <2>2. n - s \in T
    BY <2>1
  <2>3. x =< n - s
    BY <2>2, <1>4
  <2> QED BY <2>1, <2>3, <1>5
<1> QED BY <1>6

LEMMA SeqOfFunction ==
  ASSUME NEW S, NEW n \in Nat, NEW s \in [1..n -> S]
  PROVE  s \in Seq(S) /\ Len(s) = n
  OBVIOUS

LEMMA SeqElements ==
  ASSUME NEW S, NEW s \in Seq(S)
  PROVE  /\ DOMAIN s = 1..Len(s) /\ Len(s) \in Nat
         /\ \A i \in DOMAIN s : s[i] \in S
  OBVIOUS

LEMMA EmptyLayerType == EmptyLayer \in Layer
  BY DEF EmptyLayer, Layer, Entry

LEMMA OverlayType ==
  ASSUME NEW a \in Layer, NEW b \in Layer
  PROVE  Overlay(a, b) \in Layer
  BY DEF Overlay, Layer, Entry

LEMMA LiveType ==
  ASSUME NEW l \in Layer
  PROVE  Live(l) \in View
  BY LayersAssumption DEF Live, Layer, View, Entry

LEMMA ViewIsLayer == View \subseteq Layer
  BY DEF View, Layer, Entry

\* The newest entry of a stack of layers is an entry of one of them.
LEMMA NewestType ==
  ASSUME NEW stack \in Seq(Layer), NEW k \in Keys
  PROVE  Newest(stack, k) \in Entry
<1> DEFINE H == Holding(stack, k)
<1>1. CASE H = {}
  BY <1>1 DEF Newest, Entry
<1>2. CASE H # {}
  <2>1. H \in SUBSET Nat /\ \A s \in H : s =< Len(stack)
    BY DEF Holding
  <2>2. Len(stack) \in Nat
    OBVIOUS
  <2>3. \E m \in H : \A s \in H : s =< m
    <3> HIDE DEF H
    <3> QED BY <1>2, <2>1, <2>2, MaxExists
  <2> DEFINE top == CHOOSE i \in H : \A j \in H : j =< i
  <2>4. top \in H
    BY <2>3
  <2>5. stack[top] \in Layer
    BY <2>4 DEF Holding
  <2>6. Newest(stack, k) = stack[top][k]
    BY <1>2 DEF Newest
  <2> QED BY <2>5, <2>6 DEF Layer
<1> QED BY <1>1, <1>2

LEMMA FlattenType ==
  ASSUME NEW stack \in Seq(Layer)
  PROVE  Flatten(stack) \in Layer
  BY NewestType DEF Flatten, Layer

LEMMA MergedType ==
  ASSUME NEW stack \in Seq(Layer)
  PROVE  Merged(stack) \in View
  BY FlattenType, LiveType DEF Merged

-----------------------------------------------------------------------------
(* Extents and slots *)

LEMMA ExtentFields ==
  ASSUME NEW x \in Extent
  PROVE  /\ x.kind = "wal" => x.data \in Layer
         /\ x.kind = "sst" => x.data \in Layer
         /\ x.kind = "manifest" =>
               /\ x.nextId \in Nat /\ x.walStart \in Nat \ {0}
               /\ x.refs \in Seq([gen : Nat, off : Nat])
  BY DEF Extent, Junk

LEMMA ExtentTypes ==
  /\ \A l \in Layer : Frame(l) \in Extent
  /\ \A l \in Layer, g \in Nat : Blob(g, l) \in Extent
  /\ \A n \in Nat, w \in Nat \ {0}, r \in Seq([gen : Nat, off : Nat]) :
        Manifest(n, r, w) \in Extent
  /\ Junk \in Extent
  BY DEF Frame, Blob, Manifest, Extent

LEMMA ExtentsSound ==
  /\ \A l : ManifestSound(Frame(l))
  /\ \A l, g : ManifestSound(Blob(g, l))
  /\ \A n, r, w : (\A i \in DOMAIN r : r[i].off < w) => ManifestSound(Manifest(n, r, w))
  /\ ManifestSound(Junk)
  BY DEF Frame, Blob, Manifest, Junk, ManifestSound

LEMMA SlotTypes ==
  /\ BadSlot \in SlotType
  /\ \A n \in Nat, o \in Nat, x \in Extent : Slot(n, o, x) \in SlotType
  BY DEF BadSlot, SlotType, Slot

LEMMA TableAtType ==
  ASSUME NEW f \in FileType, NEW off
  PROVE  TableAt(f, off) \in Layer
<1>1. CASE IsTable(f, off)
  <2>1. f.body[off] \in Extent /\ f.body[off].kind = "sst"
    BY <1>1 DEF IsTable, FileType
  <2> QED BY <1>1, <2>1, ExtentFields DEF TableAt
<1>2. CASE ~ IsTable(f, off)
  BY <1>2, EmptyLayerType DEF TableAt
<1> QED BY <1>1, <1>2

-----------------------------------------------------------------------------
(* Files *)

LEMMA FileFields ==
  ASSUME NEW f \in FileType
  PROVE  /\ f.body \in Seq(Extent) /\ f.synced \in Nat
         /\ f.slots \in [{0, 1} -> SlotType] /\ f.dslots \in [{0, 1} -> SlotType]
  BY DEF FileType

LEMMA EmptyFileOK == EmptyFile \in FileType /\ ManifestsSound(EmptyFile)
  BY SlotTypes DEF EmptyFile, FileType, ManifestsSound

LEMMA AppendExtentOK ==
  ASSUME NEW f \in FileType, NEW x \in Extent
  PROVE  /\ AppendExtent(f, x) \in FileType
         /\ AppendExtent(f, x).body = Append(f.body, x)
         /\ AppendExtent(f, x).slots = f.slots
         /\ ManifestsSound(f) /\ ManifestSound(x) => ManifestsSound(AppendExtent(f, x))
<1>1. /\ AppendExtent(f, x).body = Append(f.body, x)
      /\ AppendExtent(f, x).slots = f.slots
  BY DEF AppendExtent, FileType
<1>2. f.body \in Seq(Extent) /\ Append(f.body, x) \in Seq(Extent)
  BY FileFields
<1>4. AppendExtent(f, x) \in FileType
  <2> DEFINE b == Append(f.body, x)
  <2>1. AppendExtent(f, x) = [f EXCEPT !.body = b]
    BY DEF AppendExtent
  <2>2. b \in Seq(Extent)
    BY <1>2
  <2> HIDE DEF b
  <2> QED BY <2>1, <2>2 DEF FileType
<1>3. ASSUME ManifestsSound(f), ManifestSound(x), NEW n \in DOMAIN Append(f.body, x)
      PROVE  ManifestSound(Append(f.body, x)[n])
  <2>1. Append(f.body, x)[n] = IF n = Len(f.body) + 1 THEN x ELSE f.body[n]
    BY <1>2, <1>3
  <2>2. n # Len(f.body) + 1 => n \in DOMAIN f.body
    BY <1>2, <1>3
  <2> QED BY <1>3, <2>1, <2>2 DEF ManifestsSound
<1> QED BY <1>1, <1>3, <1>4 DEF ManifestsSound

LEMMA SyncOK ==
  ASSUME NEW f \in FileType
  PROVE  /\ Sync(f) \in FileType
         /\ Sync(f).body = f.body
         /\ Sync(f).slots = f.slots
         /\ ManifestsSound(f) => ManifestsSound(Sync(f))
<1>1. Len(f.body) \in Nat
  BY FileFields
<1>2. Sync(f) \in FileType
  <2> DEFINE l == Len(f.body)
  <2>1. Sync(f) = [f EXCEPT !.synced = l, !.dslots = f.slots]
    BY DEF Sync
  <2>2. l \in Nat
    BY <1>1
  <2> HIDE DEF l
  <2> QED BY <2>1, <2>2 DEF FileType
<1>3. Sync(f).body = f.body /\ Sync(f).slots = f.slots
  BY DEF Sync, FileType
<1> QED BY <1>2, <1>3 DEF ManifestsSound

LEMMA PutHeaderOK ==
  ASSUME NEW f \in FileType, NEW seq \in Nat, NEW slot \in {0, 1},
         NEW off \in DOMAIN f.body
  PROVE  /\ PutHeader(f, seq, slot, off) \in FileType
         /\ PutHeader(f, seq, slot, off).body = f.body
         /\ PutHeader(f, seq, slot, off).slots =
               [f.slots EXCEPT ![1 - slot] = Slot(seq + 1, off, f.body[off])]
         /\ ManifestsSound(f) => ManifestsSound(PutHeader(f, seq, slot, off))
<1>1. f.body[off] \in Extent /\ off \in Nat
  BY DEF FileType
<1>2. Slot(seq + 1, off, f.body[off]) \in SlotType
  BY <1>1, SlotTypes
<1> QED BY <1>2 DEF PutHeader, FileType, ManifestsSound

\* Replay stops at the end of the file or before the first extent that is not
\* a frame, and every extent it passed is one.
LEMMA ValidEndOK ==
  ASSUME NEW f \in FileType, NEW start \in Nat \ {0}
  PROVE  /\ ValidEnd(f, start) \in Nat
         /\ ValidEnd(f, start) >= start - 1
         /\ start > Len(f.body) => ValidEnd(f, start) = start - 1
         /\ start =< Len(f.body) =>
               /\ ValidEnd(f, start) =< Len(f.body)
               /\ \A i \in start..ValidEnd(f, start) : f.body[i].kind = "wal"
<1>1. f.body \in Seq(Extent) /\ Len(f.body) \in Nat
  BY FileFields
<1>2. CASE start > Len(f.body)
  BY <1>1, <1>2 DEF ValidEnd
<1>3. CASE start =< Len(f.body)
  <2> DEFINE good(e) == \A i \in start..e : f.body[i].kind = "wal"
             S == {e \in (start - 1)..Len(f.body) : good(e)}
  <2>1. S \in SUBSET Nat /\ \A e \in S : e =< Len(f.body)
    BY <1>1
  <2>2. start - 1 \in S
    BY <1>1, <1>3
  <2>3. \E m \in S : \A e \in S : e =< m
    <3> HIDE DEF S
    <3> QED BY <1>1, <2>1, <2>2, MaxExists
  <2>4. PICK m \in S : \A e \in S : e =< m
    BY <2>3
  <2>5. ASSUME m # Len(f.body), f.body[m + 1].kind = "wal" PROVE FALSE
    <3>1. m \in Nat /\ m + 1 \in (start - 1)..Len(f.body)
      BY <1>1, <2>5
    <3>2. good(m + 1)
      <4> SUFFICES ASSUME NEW i \in start..(m + 1) PROVE f.body[i].kind = "wal"
        OBVIOUS
      <4>1. CASE i = m + 1
        BY <4>1, <2>5
      <4>2. CASE i # m + 1
        BY <4>2, <3>1
      <4> QED BY <4>1, <4>2
    <3>3. m + 1 \in S
      BY <3>1, <3>2
    <3> QED BY <3>1, <3>3, <2>4
  <2> DEFINE P(e) == good(e) /\ (e = Len(f.body) \/ f.body[e + 1].kind # "wal")
             end == CHOOSE e \in (start - 1)..Len(f.body) : P(e)
  <2>6. m \in (start - 1)..Len(f.body) /\ P(m)
    BY <2>5
  <2>7. end \in (start - 1)..Len(f.body) /\ P(end)
    <3> HIDE DEF P
    <3> QED BY <2>6
  <2>8. ValidEnd(f, start) = end
    <3>1. ~(start > Len(f.body))
      BY <1>1, <1>3
    <3> QED BY <3>1, Zenon DEF ValidEnd
  <2> HIDE DEF end
  <2> QED BY <1>1, <1>3, <2>7, <2>8
<1> QED BY <1>1, <1>2, <1>3

LEMMA ReplayedType ==
  ASSUME NEW f \in FileType, NEW start \in Nat \ {0}
  PROVE  Replayed(f, start) \in Seq(Layer)
<1> DEFINE end == ValidEnd(f, start)
           n == end + 1 - start
<1>1. f.body \in Seq(Extent) /\ Len(f.body) \in Nat
  BY FileFields
<1>2. /\ end \in Nat /\ end >= start - 1
      /\ start > Len(f.body) => end = start - 1
      /\ start =< Len(f.body) =>
            end =< Len(f.body) /\ \A i \in start..end : f.body[i].kind = "wal"
  BY ValidEndOK
<1>3. Replayed(f, start) = [i \in 1..n |-> f.body[start + i - 1].data]
  BY DEF Replayed
<1> HIDE DEF end
<1>4. n \in Nat
  BY <1>2
<1>5. ASSUME NEW i \in 1..n PROVE f.body[start + i - 1].data \in Layer
  <2>1. start =< Len(f.body)
    BY <1>1, <1>2
  <2>2. start + i - 1 \in start..end /\ start + i - 1 \in 1..Len(f.body)
    BY <1>1, <1>2, <2>1
  <2>3. f.body[start + i - 1].kind = "wal" /\ f.body[start + i - 1] \in Extent
    BY <1>1, <1>2, <2>1, <2>2
  <2> QED BY <2>3, ExtentFields
<1> HIDE DEF n
<1>6. Replayed(f, start) \in [1..n -> Layer]
  BY <1>3, <1>5
<1> QED BY <1>4, <1>6, SeqOfFunction

\* Cutting a file keeps every extent up to the cut.
LEMMA TruncateOK ==
  ASSUME NEW f \in FileType, NEW end \in Nat
  PROVE  /\ Truncate(f, end) \in FileType
         /\ ManifestsSound(f) => ManifestsSound(Truncate(f, end))
         /\ \A n \in DOMAIN f.body : n =< end => n \in DOMAIN Truncate(f, end).body
<1>1. f.body \in Seq(Extent) /\ Len(f.body) \in Nat
  BY FileFields
<1>2. CASE Len(f.body) > end
  <2> DEFINE b == SubSeq(f.body, 1, end)
             g == [f EXCEPT !.body = b]
  <2>1. b \in Seq(Extent) /\ DOMAIN b = 1..end /\ \A n \in 1..end : b[n] = f.body[n]
    BY <1>1, <1>2
  <2>2. g \in FileType /\ g.body = b
    <3> HIDE DEF b
    <3> QED BY <2>1 DEF FileType
  <2>3. Truncate(f, end) = Sync(g)
    BY <1>2 DEF Truncate
  <2>4. ASSUME ManifestsSound(f) PROVE ManifestsSound(g)
    <3> SUFFICES ASSUME NEW n \in DOMAIN g.body PROVE ManifestSound(g.body[n])
      BY DEF ManifestsSound
    <3>1. n \in 1..end /\ g.body[n] = f.body[n] /\ n \in DOMAIN f.body
      <4> HIDE DEF b
      <4> QED BY <1>1, <1>2, <2>1, <2>2
    <3> QED BY <3>1, <2>4 DEF ManifestsSound
  <2> HIDE DEF g, b
  <2>5. Sync(g) \in FileType /\ Sync(g).body = b /\ (ManifestsSound(g) => ManifestsSound(Sync(g)))
    BY <2>2, SyncOK
  <2> QED BY <1>1, <1>2, <2>1, <2>3, <2>4, <2>5
<1>3. CASE ~ (Len(f.body) > end)
  BY <1>3 DEF Truncate
<1> QED BY <1>2, <1>3

LEMMA FreshFileOK ==
  ASSUME NEW gen \in Nat, NEW layer \in Layer
  PROVE  /\ FreshFile(gen, layer) \in FileType
         /\ ManifestsSound(FreshFile(gen, layer))
         /\ 1 \in DOMAIN FreshFile(gen, layer).body
<1> DEFINE refs == << [gen |-> gen, off |-> 1] >>
           man  == Manifest(gen + 1, refs, 3)
           f1   == AppendExtent(EmptyFile, Blob(gen, layer))
           f2   == AppendExtent(f1, man)
           f3   == PutHeader(Sync(f2), 0, 1, 2)
<1>1. refs \in Seq([gen : Nat, off : Nat]) /\ \A i \in DOMAIN refs : refs[i].off < 3
  OBVIOUS
<1>2. man \in Extent /\ ManifestSound(man)
  <2> HIDE DEF refs
  <2> QED BY <1>1, ExtentTypes, ExtentsSound
<1>3. Blob(gen, layer) \in Extent /\ ManifestSound(Blob(gen, layer))
  BY ExtentTypes, ExtentsSound
<1>4. FreshFile(gen, layer) = Sync(f3)
  BY DEF FreshFile
<1> HIDE DEF man
<1>5. f1 \in FileType /\ ManifestsSound(f1) /\ Len(f1.body) = 1
  <2>1. f1 \in FileType /\ ManifestsSound(f1) /\ f1.body = Append(EmptyFile.body, Blob(gen, layer))
    BY <1>3, EmptyFileOK, AppendExtentOK
  <2>2. EmptyFile.body = << >>
    BY DEF EmptyFile
  <2> QED BY <2>1, <2>2
<1> HIDE DEF f1
<1>6. f2 \in FileType /\ ManifestsSound(f2) /\ Len(f2.body) = 2
  <2>1. f2 \in FileType /\ ManifestsSound(f2) /\ f2.body = Append(f1.body, man)
    BY <1>2, <1>5, AppendExtentOK
  <2>2. f1.body \in Seq(Extent)
    BY <1>5, FileFields
  <2> QED BY <1>5, <2>1, <2>2
<1> HIDE DEF f2
<1>7. Sync(f2) \in FileType /\ ManifestsSound(Sync(f2)) /\ Sync(f2).body = f2.body
  BY <1>6, SyncOK
<1>8. 2 \in DOMAIN Sync(f2).body /\ 1 \in DOMAIN f2.body
  BY <1>6, <1>7, FileFields
<1>9. f3 \in FileType /\ ManifestsSound(f3) /\ f3.body = f2.body
  <2> DEFINE g == Sync(f2)
  <2> HIDE DEF g
  <2>1. 0 \in Nat /\ 1 \in {0, 1} /\ g \in FileType /\ 2 \in DOMAIN g.body
    BY <1>7, <1>8 DEF g
  <2>2. PutHeader(g, 0, 1, 2) \in FileType
    BY <2>1, PutHeaderOK, Zenon
  <2>3. PutHeader(g, 0, 1, 2).body = g.body
    BY <2>1, PutHeaderOK, Zenon
  <2>4. ManifestsSound(g) => ManifestsSound(PutHeader(g, 0, 1, 2))
    BY <2>1, PutHeaderOK, Zenon
  <2> QED BY <1>7, <2>2, <2>3, <2>4 DEF g
<1> HIDE DEF f3
<1> QED BY <1>4, <1>8, <1>9, SyncOK

\* The file only got longer: every extent is where it was.
Grows(f, g) ==
    /\ DOMAIN f.body \subseteq DOMAIN g.body
    /\ \A n \in DOMAIN f.body : g.body[n] = f.body[n]

LEMMA SameBodyGrows ==
  ASSUME NEW f, NEW g, g.body = f.body
  PROVE  Grows(f, g)
  BY DEF Grows

LEMMA AppendGrows ==
  ASSUME NEW f \in FileType, NEW x \in Extent
  PROVE  Grows(f, AppendExtent(f, x))
<1>1. f.body \in Seq(Extent) /\ AppendExtent(f, x).body = Append(f.body, x)
  BY FileFields, AppendExtentOK
<1>2. Len(f.body) \in Nat /\ DOMAIN f.body = 1..Len(f.body)
  BY <1>1
<1>3. /\ DOMAIN Append(f.body, x) = 1..(Len(f.body) + 1)
      /\ \A n \in 1..Len(f.body) : Append(f.body, x)[n] = f.body[n]
  BY <1>1
<1> QED BY <1>1, <1>2, <1>3 DEF Grows

LEMMA GrowsTransitive ==
  ASSUME NEW f, NEW g, NEW h, Grows(f, g), Grows(g, h)
  PROVE  Grows(f, h)
  BY DEF Grows

\* A table found in a file is still the same table in the longer file.
LEMMA TableKept ==
  ASSUME NEW f, NEW g, Grows(f, g), NEW off \in DOMAIN f.body
  PROVE  TableAt(g, off) = TableAt(f, off)
  BY DEF Grows, TableAt, IsTable

-----------------------------------------------------------------------------
(* The order open() puts the SSTables in *)

\* Sorting permutes: every place of the result holds one of the references.
LEMMA SortOK ==
  ASSUME NEW refs \in Seq([gen : Nat, off : Nat])
  PROVE  /\ SortByGeneration(refs) \in Seq([gen : Nat, off : Nat])
         /\ DOMAIN SortByGeneration(refs) = DOMAIN refs
         /\ \A n \in DOMAIN refs : \E i \in DOMAIN refs : SortByGeneration(refs)[n] = refs[i]
<1> DEFINE D == DOMAIN refs
           upto(i) == {j \in DOMAIN refs :
                         \/ refs[j].gen < refs[i].gen
                         \/ refs[j].gen = refs[i].gen /\ j =< i}
           rank == [i \in D |-> Cardinality(upto(i))]
<1>0. D = 1..Len(refs) /\ Len(refs) \in Nat /\ \A i \in D : refs[i] \in [gen : Nat, off : Nat]
  BY SeqElements
<1>1. D = 1..Len(refs) /\ Len(refs) \in Nat /\ \A i \in D : refs[i].gen \in Nat
  <2> HIDE DEF D
  <2> QED BY <1>0
<1>2. IsFiniteSet(D) /\ Cardinality(D) = Len(refs)
  <2>1. /\ IsFiniteSet(1..Len(refs))
        /\ Cardinality(1..Len(refs)) = IF 1 > Len(refs) THEN 0 ELSE Len(refs) - 1 + 1
    BY <1>1, FS_Interval
  <2> QED BY <1>1, <2>1
<1>3. ASSUME NEW i \in D
      PROVE  /\ upto(i) \in SUBSET D /\ i \in upto(i) /\ IsFiniteSet(upto(i))
             /\ Cardinality(upto(i)) \in D
  <2>1. upto(i) \in SUBSET D /\ i \in upto(i)
    BY <1>1
  <2> HIDE DEF D, upto
  <2>2. IsFiniteSet(upto(i)) /\ Cardinality(upto(i)) =< Cardinality(D)
    BY <1>2, <2>1, FS_Subset
  <2>3. Cardinality(upto(i)) \in Nat /\ Cardinality(upto(i)) # 0
    BY <2>1, <2>2, FS_CardinalityType, FS_EmptySet
  <2> QED BY <1>1, <1>2, <2>1, <2>2, <2>3
<1>4. ASSUME NEW i \in D, NEW j \in D, i # j, i \in upto(j)
      PROVE  Cardinality(upto(i)) # Cardinality(upto(j))
  <2>1. upto(i) \subseteq upto(j) /\ j \notin upto(i)
    BY <1>1, <1>4
  <2>2. upto(i) # upto(j) /\ IsFiniteSet(upto(j))
    BY <1>3, <2>1
  <2> HIDE DEF upto
  <2> QED BY <2>1, <2>2, FS_Subset
<1>5. ASSUME NEW i \in D, NEW j \in D, i # j PROVE rank[i] # rank[j]
  <2>1. i \in upto(j) \/ j \in upto(i)
    BY <1>1
  <2> HIDE DEF upto
  <2> QED BY <1>4, <1>5, <2>1
<1>6. rank \in Injection(D, D)
  <2>1. rank \in [D -> D]
    <3> HIDE DEF upto, D
    <3> QED BY <1>3
  <2>2. DOMAIN rank = D
    OBVIOUS
  <2> HIDE DEF rank, D
  <2> QED BY <1>5, <2>1, <2>2 DEF Injection, IsInjective
<1>7. rank \in Surjection(D, D)
  <2> HIDE DEF rank, D
  <2> QED BY <1>2, <1>6, FS_Injection
<1>8. ASSUME NEW n \in D PROVE \E i \in D : Cardinality(upto(i)) = n
  <2>1. \E i \in D : rank[i] = n
    <3> HIDE DEF rank, D
    <3> QED BY <1>7 DEF Surjection
  <2> HIDE DEF upto
  <2> QED BY <2>1
<1> DEFINE pick(n) == CHOOSE i \in D : Cardinality(upto(i)) = n
<1>9. ASSUME NEW n \in D PROVE pick(n) \in D
  <2> HIDE DEF upto, D
  <2> QED BY <1>8
<1>10. SortByGeneration(refs) = [n \in D |-> refs[pick(n)]]
  BY DEF SortByGeneration
<1> HIDE DEF pick
<1>11. SortByGeneration(refs) \in [1..Len(refs) -> [gen : Nat, off : Nat]]
  <2>1. \A n \in D : refs[pick(n)] \in [gen : Nat, off : Nat]
    BY <1>0, <1>9
  <2> HIDE DEF D
  <2> QED BY <1>1, <1>10, <2>1
<1>12. SortByGeneration(refs) \in Seq([gen : Nat, off : Nat])
  BY <1>1, <1>11, SeqOfFunction
<1> HIDE DEF D
<1>13. DOMAIN SortByGeneration(refs) = D /\ \A n \in D : SortByGeneration(refs)[n] = refs[pick(n)]
  BY <1>10
<1> QED BY <1>9, <1>12, <1>13 DEF D

-----------------------------------------------------------------------------
(* Crashes *)

LEMMA CrashImagesOK ==
  ASSUME NEW f \in FileType, NEW g \in CrashImages(f)
  PROVE  /\ g \in FileType
         /\ ManifestsSound(f) => ManifestsSound(g)
<1>1. f.body \in Seq(Extent) /\ f.synced \in Nat
  BY FileFields
<1>2. \A i \in {0, 1} : SlotOutcomes(f, i) \subseteq SlotType
  BY FileFields, SlotTypes DEF SlotOutcomes
<1>3. PICK b \in BodyOutcomes(f), s0 \in SlotOutcomes(f, 0), s1 \in SlotOutcomes(f, 1) :
         g = Image(b, [i \in {0, 1} |-> IF i = 0 THEN s0 ELSE s1])
  BY DEF CrashImages
<1>4. PICK n \in f.synced..Len(f.body) : \E torn \in SUBSET ((f.synced + 1)..n) :
         b = [i \in 1..n |-> IF i \in torn THEN Junk ELSE f.body[i]]
  BY <1>3 DEF BodyOutcomes
<1>5. n \in Nat /\ n =< Len(f.body) /\ \A i \in 1..n : f.body[i] \in Extent
  BY <1>1
<1>6. b \in [1..n -> Extent]
  BY <1>4, <1>5, ExtentTypes
<1>7. b \in Seq(Extent) /\ Len(b) = n
  BY <1>5, <1>6, SeqOfFunction
<1> DEFINE s == [i \in {0, 1} |-> IF i = 0 THEN s0 ELSE s1]
<1>8. s \in [{0, 1} -> SlotType]
  BY <1>2
<1> HIDE DEF s
<1>9. g \in FileType
  BY <1>3, <1>5, <1>7, <1>8 DEF Image, FileType, s
<1>10. ASSUME ManifestsSound(f) PROVE ManifestsSound(g)
  <2>1. g.body = b
    BY <1>3 DEF Image
  <2> SUFFICES ASSUME NEW i \in 1..n PROVE ManifestSound(b[i])
    BY <1>6, <2>1 DEF ManifestsSound
  <2>2. i \in DOMAIN f.body
    BY <1>1, <1>5
  <2>3. b[i] = Junk \/ b[i] = f.body[i]
    BY <1>4
  <2> QED BY <1>10, <2>2, <2>3, ExtentsSound DEF ManifestsSound
<1> QED BY <1>9, <1>10

-----------------------------------------------------------------------------
(* What a file holds *)

LEMMA LiveManifestOK ==
  ASSUME NEW f \in FileType, ManifestReadable(f)
  PROVE  /\ LiveManifest(f) \in Extent /\ LiveManifest(f).kind = "manifest"
         /\ f.slots[ActiveSlot(f)].man \in DOMAIN f.body
         /\ ActiveSlot(f) \in {0, 1} /\ f.slots[ActiveSlot(f)].seq \in Nat
         /\ ManifestsSound(f) => ManifestSound(LiveManifest(f))
<1>1. ActiveSlot(f) \in {0, 1}
  BY DEF ActiveSlot
<1>2. f.slots[ActiveSlot(f)] \in SlotType /\ f.body \in Seq(Extent)
  BY <1>1, FileFields
<1>3. f.slots[ActiveSlot(f)].seq \in Nat
  BY <1>2 DEF SlotType
<1>4. LiveManifest(f) \in Extent /\ LiveManifest(f).kind = "manifest"
  BY <1>2 DEF ManifestReadable, LiveManifest
<1>5. ManifestsSound(f) => ManifestSound(LiveManifest(f))
  BY DEF ManifestReadable, LiveManifest, ManifestsSound
<1> QED BY <1>1, <1>3, <1>4, <1>5 DEF ManifestReadable

LEMMA StoredType ==
  ASSUME NEW f \in FileType
  PROVE  Stored(f) \in View
<1>1. CASE HasHeader(f) /\ ManifestReadable(f)
  <2> DEFINE man  == LiveManifest(f)
             refs == SortByGeneration(man.refs)
             data == [i \in DOMAIN refs |-> TableAt(f, refs[i].off)]
  <2>1. man.refs \in Seq([gen : Nat, off : Nat]) /\ man.walStart \in Nat \ {0}
    BY <1>1, LiveManifestOK, ExtentFields
  <2>2. refs \in Seq([gen : Nat, off : Nat])
    BY <2>1, SortOK
  <2>3. Replayed(f, man.walStart) \in Seq(Layer)
    BY <2>1, ReplayedType
  <2>4. Stored(f) = Merged(data \o Replayed(f, man.walStart))
    BY <1>1 DEF Stored
  <2> HIDE DEF man, refs
  <2>5. data \in [1..Len(refs) -> Layer] /\ Len(refs) \in Nat
    BY <2>2, TableAtType
  <2> HIDE DEF data
  <2>6. data \in Seq(Layer)
    BY <2>5, SeqOfFunction
  <2> DEFINE wal == Replayed(f, man.walStart)
  <2> HIDE DEF wal
  <2>7. data \o wal \in Seq(Layer)
    BY <2>3, <2>6 DEF wal
  <2> QED BY <2>4, <2>7, MergedType DEF wal
<1>2. CASE ~ (HasHeader(f) /\ ManifestReadable(f))
  BY <1>2, EmptyLayerType, LiveType DEF Stored
<1> QED BY <1>1, <1>2

-----------------------------------------------------------------------------
(* Stacks of layers *)

\* A layer above which no layer holds the key gives the key its entry.
LEMMA NewestIs ==
  ASSUME NEW stack \in Seq(Layer), NEW k \in Keys, NEW top \in Holding(stack, k),
         \A j \in Holding(stack, k) : j =< top
  PROVE  Newest(stack, k) = stack[top][k]
<1> DEFINE H == Holding(stack, k)
           t == CHOOSE i \in H : \A j \in H : j =< i
<1>1. t \in H /\ \A j \in H : j =< t
  OBVIOUS
<1>2. H # {} /\ H \subseteq Nat
  BY DEF Holding
<1>3. Newest(stack, k) = stack[t][k]
  BY <1>2 DEF Newest
<1> HIDE DEF H, t
<1>4. t = top
  <2>1. t \in Nat /\ top \in Nat /\ t =< top /\ top =< t
    BY <1>1, <1>2 DEF H
  <2> QED BY <2>1
<1> QED BY <1>3, <1>4

\* A key has an entry in a stack exactly when some layer holds one, and then
\* there is a topmost layer that does.
LEMMA NewestCases ==
  ASSUME NEW stack \in Seq(Layer), NEW k \in Keys
  PROVE  \/ Holding(stack, k) = {} /\ Newest(stack, k) = Absent
         \/ \E top \in Holding(stack, k) :
               /\ \A j \in Holding(stack, k) : j =< top
               /\ Newest(stack, k) = stack[top][k]
               /\ Newest(stack, k) # Absent
<1> DEFINE H == Holding(stack, k)
<1>1. CASE H = {}
  BY <1>1 DEF Newest
<1>2. CASE H # {}
  <2>1. H \in SUBSET Nat /\ Len(stack) \in Nat /\ \A s \in H : s =< Len(stack)
    BY DEF Holding
  <2> HIDE DEF H
  <2>2. PICK top \in H : \A j \in H : j =< top
    BY <1>2, <2>1, MaxExists
  <2>3. Newest(stack, k) = stack[top][k]
    BY <2>2, NewestIs DEF H
  <2>4. stack[top][k] # Absent
    BY <2>2 DEF H, Holding
  <2> QED BY <2>2, <2>3, <2>4 DEF H
<1> QED BY <1>1, <1>2

LEMMA ConcatElements ==
  ASSUME NEW S, NEW a \in Seq(S), NEW b \in Seq(S)
  PROVE  /\ a \o b \in Seq(S)
         /\ Len(a) \in Nat /\ Len(b) \in Nat
         /\ DOMAIN (a \o b) = 1..(Len(a) + Len(b))
         /\ \A i \in 1..Len(a) : (a \o b)[i] = a[i]
         /\ \A i \in 1..Len(b) : (a \o b)[Len(a) + i] = b[i]
         /\ DOMAIN a = 1..Len(a) /\ DOMAIN b = 1..Len(b)
  OBVIOUS

\* The layers of the upper part of a stack win over those of the lower part.
LEMMA NewestConcat ==
  ASSUME NEW a \in Seq(Layer), NEW b \in Seq(Layer), NEW k \in Keys
  PROVE  Newest(a \o b, k) = IF Newest(b, k) = Absent THEN Newest(a, k) ELSE Newest(b, k)
<1> DEFINE c == a \o b
<1>1. /\ c \in Seq(Layer) /\ Len(a) \in Nat /\ Len(b) \in Nat
      /\ DOMAIN c = 1..(Len(a) + Len(b))
      /\ \A i \in 1..Len(a) : c[i] = a[i]
      /\ \A i \in 1..Len(b) : c[Len(a) + i] = b[i]
      /\ DOMAIN a = 1..Len(a) /\ DOMAIN b = 1..Len(b)
  BY ConcatElements
<1> HIDE DEF c
<1>2. \A i \in DOMAIN c : \/ i \in 1..Len(a) /\ c[i] = a[i]
                          \/ i - Len(a) \in 1..Len(b) /\ c[i] = b[i - Len(a)]
  <2> SUFFICES ASSUME NEW i \in DOMAIN c
               PROVE  \/ i \in 1..Len(a) /\ c[i] = a[i]
                      \/ i - Len(a) \in 1..Len(b) /\ c[i] = b[i - Len(a)]
    OBVIOUS
  <2>1. CASE i =< Len(a)
    BY <1>1, <2>1
  <2>2. CASE i > Len(a)
    <3>1. i - Len(a) \in 1..Len(b) /\ i = Len(a) + (i - Len(a))
      BY <1>1, <2>2
    <3> QED BY <1>1, <3>1
  <2> QED BY <1>1, <2>1, <2>2
<1>3. CASE Newest(b, k) # Absent
  <2>1. PICK top \in Holding(b, k) :
           (\A j \in Holding(b, k) : j =< top) /\ Newest(b, k) = b[top][k]
    BY <1>3, NewestCases
  <2>2. top \in 1..Len(b) /\ b[top][k] # Absent
    BY <1>1, <2>1 DEF Holding
  <2>3. Len(a) + top \in Holding(c, k) /\ c[Len(a) + top] = b[top]
    BY <1>1, <2>2 DEF Holding
  <2>4. ASSUME NEW j \in Holding(c, k) PROVE j =< Len(a) + top
    <3>1. j \in DOMAIN c /\ c[j][k] # Absent
      BY DEF Holding
    <3>2. CASE j \in 1..Len(a)
      BY <1>1, <2>2, <3>2
    <3>3. CASE j - Len(a) \in 1..Len(b) /\ c[j] = b[j - Len(a)]
      <4>1. j - Len(a) \in Holding(b, k)
        BY <1>1, <3>1, <3>3 DEF Holding
      <4> QED BY <1>1, <2>1, <2>2, <3>1, <4>1
    <3> QED BY <1>2, <3>1, <3>2, <3>3
  <2>5. Newest(c, k) = c[Len(a) + top][k]
    BY <1>1, <2>3, <2>4, NewestIs
  <2> QED BY <1>3, <2>1, <2>3, <2>5 DEF c
<1>4. CASE Newest(b, k) = Absent
  <2>1. Holding(b, k) = {}
    BY <1>4, NewestCases
  <2>2. \A i \in DOMAIN c : i \in Holding(c, k) <=> i \in Holding(a, k)
    <3> SUFFICES ASSUME NEW i \in DOMAIN c PROVE i \in Holding(c, k) <=> i \in Holding(a, k)
      OBVIOUS
    <3>1. CASE i \in 1..Len(a) /\ c[i] = a[i]
      BY <1>1, <3>1 DEF Holding
    <3>2. CASE i - Len(a) \in 1..Len(b) /\ c[i] = b[i - Len(a)]
      <4>1. i - Len(a) \notin Holding(b, k)
        BY <2>1
      <4>2. c[i][k] = Absent
        BY <1>1, <3>2, <4>1 DEF Holding
      <4>3. i \notin DOMAIN a
        BY <1>1, <3>2
      <4> QED BY <4>2, <4>3 DEF Holding
    <3> QED BY <1>2, <3>1, <3>2
  <2>3. Holding(c, k) = Holding(a, k)
    <3>1. Holding(c, k) \subseteq DOMAIN c /\ Holding(a, k) \subseteq DOMAIN c
      BY <1>1 DEF Holding
    <3> QED BY <2>2, <3>1
  <2>4. CASE Holding(a, k) = {}
    BY <1>4, <2>3, <2>4 DEF Newest, c
  <2>5. CASE Holding(a, k) # {}
    <3>1. PICK top \in Holding(a, k) :
             (\A j \in Holding(a, k) : j =< top) /\ Newest(a, k) = a[top][k]
      BY <2>5, NewestCases
    <3>2. Newest(c, k) = c[top][k]
      BY <1>1, <2>3, <3>1, NewestIs
    <3>3. c[top] = a[top]
      BY <1>1, <3>1 DEF Holding
    <3> QED BY <1>4, <3>1, <3>2, <3>3 DEF c
  <2> QED BY <2>4, <2>5
<1> QED BY <1>3, <1>4

\* Flattening two stacks one above the other overlays what each flattens to.
LEMMA FlattenConcat ==
  ASSUME NEW a \in Seq(Layer), NEW b \in Seq(Layer)
  PROVE  Flatten(a \o b) = Overlay(Flatten(a), Flatten(b))
<1>1. \A k \in Keys : Flatten(a)[k] = Newest(a, k) /\ Flatten(b)[k] = Newest(b, k)
  BY DEF Flatten
<1>2. \A k \in Keys : Newest(a \o b, k) =
                        IF Flatten(b)[k] = Absent THEN Flatten(a)[k] ELSE Flatten(b)[k]
  BY <1>1, NewestConcat
<1>3. Flatten(a \o b) = [k \in Keys |-> Newest(a \o b, k)]
  BY DEF Flatten
<1> QED BY <1>2, <1>3 DEF Overlay

LEMMA FlattenEmpty == Flatten(<< >>) = EmptyLayer
<1>1. \A k \in Keys : Newest(<< >>, k) = Absent
  BY DEF Newest, Holding
<1> QED BY <1>1 DEF Flatten, EmptyLayer

LEMMA FlattenOne ==
  ASSUME NEW l \in Layer
  PROVE  Flatten(<< l >>) = l
<1>1. << l >> \in Seq(Layer) /\ DOMAIN << l >> = {1} /\ << l >>[1] = l
  OBVIOUS
<1>2. ASSUME NEW k \in Keys PROVE Newest(<< l >>, k) = l[k]
  <2>1. Holding(<< l >>, k) \subseteq {1}
    BY <1>1 DEF Holding
  <2>2. CASE Holding(<< l >>, k) = {}
    <3>1. l[k] = Absent
      BY <1>1, <2>2 DEF Holding
    <3> QED BY <2>2, <3>1 DEF Newest
  <2>3. CASE Holding(<< l >>, k) # {}
    <3>1. 1 \in Holding(<< l >>, k) /\ \A j \in Holding(<< l >>, k) : j =< 1
      BY <2>1, <2>3
    <3>2. Newest(<< l >>, k) = << l >>[1][k]
      BY <1>1, <3>1, NewestIs, Zenon
    <3> QED BY <1>1, <3>2
  <2> QED BY <2>2, <2>3
<1>3. Flatten(<< l >>) = [k \in Keys |-> l[k]]
  BY <1>2 DEF Flatten
<1> QED BY <1>3 DEF Layer

\* Overlay has the empty layer as its unit and is associative; tombstones
\* dropped from the lower layer make no difference.
LEMMA OverlayAlgebra ==
  ASSUME NEW a \in Layer, NEW b \in Layer, NEW c \in Layer
  PROVE  /\ Overlay(a, EmptyLayer) = a
         /\ Overlay(EmptyLayer, a) = a
         /\ Overlay(Overlay(a, b), c) = Overlay(a, Overlay(b, c))
         /\ Live(Overlay(Live(a), b)) = Live(Overlay(a, b))
<1>1. Overlay(a, EmptyLayer) = a /\ Overlay(EmptyLayer, a) = a
  BY DEF Overlay, EmptyLayer, Layer
<1>2. Overlay(Overlay(a, b), c) = Overlay(a, Overlay(b, c))
  BY DEF Overlay
<1>3. Live(Overlay(Live(a), b)) = Live(Overlay(a, b))
  BY LayersAssumption DEF Live, Overlay
<1> QED BY <1>1, <1>2, <1>3

LEMMA LiveView ==
  ASSUME NEW v \in View
  PROVE  Live(v) = v
  BY LayersAssumption DEF Live, View

-----------------------------------------------------------------------------
(* Sorted references *)

InOrder(list) == \A i, j \in DOMAIN list : i < j => list[i].gen < list[j].gen

\* Sorting references that are in strictly ascending order changes nothing.
LEMMA SortInOrder ==
  ASSUME NEW refs \in Seq([gen : Nat, off : Nat]), InOrder(refs)
  PROVE  SortByGeneration(refs) = refs
<1> DEFINE D == DOMAIN refs
           upto(i) == {j \in DOMAIN refs :
                         \/ refs[j].gen < refs[i].gen
                         \/ refs[j].gen = refs[i].gen /\ j =< i}
           pick(n) == CHOOSE i \in D : Cardinality(upto(i)) = n
<1>0. D = 1..Len(refs) /\ Len(refs) \in Nat /\ \A i \in D : refs[i] \in [gen : Nat, off : Nat]
  BY SeqElements
<1>1. D = 1..Len(refs) /\ Len(refs) \in Nat /\ \A i \in D : refs[i].gen \in Nat
  <2> HIDE DEF D
  <2> QED BY <1>0
<1>2. ASSUME NEW i \in D PROVE upto(i) = 1..i
  <2>1. ASSUME NEW j \in D PROVE j \in upto(i) <=> j \in 1..i
    <3>1. i \in Nat /\ j \in Nat /\ 1 =< j /\ refs[i].gen \in Nat /\ refs[j].gen \in Nat
      BY <1>1
    <3>2. CASE j < i
      <4>1. refs[j].gen < refs[i].gen
        BY <3>2 DEF InOrder
      <4> QED BY <3>1, <3>2, <4>1
    <3>3. CASE j = i
      BY <3>1, <3>3
    <3>4. CASE i < j
      <4>1. refs[i].gen < refs[j].gen
        BY <3>4 DEF InOrder
      <4> QED BY <3>1, <3>4, <4>1
    <3> QED BY <3>1, <3>2, <3>3, <3>4
  <2>2. upto(i) \subseteq D /\ 1..i \subseteq D
    BY <1>1
  <2> HIDE DEF upto, D
  <2> QED BY <2>1, <2>2
<1>3. ASSUME NEW i \in D PROVE Cardinality(upto(i)) = i
  <2>1. i \in Nat /\ 1 =< i
    BY <1>1
  <2> HIDE DEF upto, pick, D
  <2>2. /\ IsFiniteSet(1..i)
        /\ Cardinality(1..i) = IF 1 > i THEN 0 ELSE i - 1 + 1
    BY <2>1, FS_Interval
  <2> QED BY <1>2, <2>1, <2>2
<1>4. ASSUME NEW n \in D PROVE pick(n) = n
  <2> HIDE DEF upto, D
  <2> QED BY <1>3
<1>5. SortByGeneration(refs) = [n \in D |-> refs[pick(n)]]
  BY DEF SortByGeneration
<1> HIDE DEF pick
<1>6. SortByGeneration(refs) = [n \in D |-> refs[n]]
  BY <1>4, <1>5
<1> QED BY <1>6

-----------------------------------------------------------------------------
(* The log of a file *)

LEMMA ValidEndChoice ==
  ASSUME NEW f, NEW start, Len(f.body) \in Nat, start \in Nat, start =< Len(f.body)
  PROVE  ValidEnd(f, start) =
            CHOOSE e \in (start - 1)..Len(f.body) :
               /\ \A i \in start..e : f.body[i].kind = "wal"
               /\ e = Len(f.body) \/ f.body[e + 1].kind # "wal"
<1>1. ~ (start > Len(f.body))
  OBVIOUS
<1> QED BY <1>1, Zenon DEF ValidEnd

\* Where replay stops is determined: frames up to there and none after it.
LEMMA ValidEndIs ==
  ASSUME NEW f \in FileType, NEW start \in Nat \ {0}, NEW end \in Nat,
         start - 1 =< end, end =< Len(f.body),
         \A i \in start..end : f.body[i].kind = "wal",
         end # Len(f.body) => f.body[end + 1].kind # "wal"
  PROVE  ValidEnd(f, start) = end
<1>1. f.body \in Seq(Extent) /\ Len(f.body) \in Nat
  BY FileFields
<1>2. CASE start > Len(f.body)
  BY <1>1, <1>2 DEF ValidEnd
<1>3. CASE start =< Len(f.body)
  <2> DEFINE P(e) == /\ \A i \in start..e : f.body[i].kind = "wal"
                     /\ e = Len(f.body) \/ f.body[e + 1].kind # "wal"
             stop == CHOOSE e \in (start - 1)..Len(f.body) : P(e)
  <2>1. end \in (start - 1)..Len(f.body) /\ P(end)
    BY <1>1
  <2>2. ASSUME NEW e \in (start - 1)..Len(f.body), P(e) PROVE e = end
    <3>1. e \in Nat
      BY <1>1
    <3>2. CASE e < end
      <4>1. e + 1 \in start..end /\ e # Len(f.body)
        BY <1>1, <3>1, <3>2
      <4> QED BY <2>2, <4>1
    <3>3. CASE end < e
      <4>1. end + 1 \in start..e /\ end # Len(f.body)
        BY <1>1, <3>1, <3>3
      <4> QED BY <2>2, <4>1
    <3> QED BY <3>1, <3>2, <3>3
  <2>3. ValidEnd(f, start) = stop
    BY <1>1, <1>3, ValidEndChoice, Zenon
  <2>4. stop \in (start - 1)..Len(f.body) /\ P(stop)
    <3> HIDE DEF P
    <3> QED BY <2>1
  <2> HIDE DEF P, stop
  <2> QED BY <2>2, <2>3, <2>4
<1> QED BY <1>1, <1>2, <1>3

\* The frames from one extent to another.
Logged(f, from, to) == [i \in 1..(to + 1 - from) |-> f.body[from + i - 1].data]

\* Extents from..to of the body are frames.
Frames(f, from, to) == \A n \in from..to : n \in DOMAIN f.body /\ f.body[n].kind = "wal"

\* The frames of a stretch of log give one layer each.
LEMMA LoggedType ==
  ASSUME NEW f \in FileType, NEW from \in Nat \ {0}, NEW to \in Nat, from - 1 =< to,
         Frames(f, from, to)
  PROVE  Logged(f, from, to) \in Seq(Layer) /\ Len(Logged(f, from, to)) = to + 1 - from
<1> DEFINE n == to + 1 - from
<1>1. n \in Nat
  OBVIOUS
<1>2. ASSUME NEW i \in 1..n PROVE f.body[from + i - 1].data \in Layer
  <2>1. from + i - 1 \in from..to
    OBVIOUS
  <2>2. f.body[from + i - 1].kind = "wal" /\ from + i - 1 \in DOMAIN f.body
    BY <2>1 DEF Frames
  <2>3. f.body[from + i - 1] \in Extent
    BY <2>2, FileFields
  <2> QED BY <2>2, <2>3, ExtentFields
<1>3. Logged(f, from, to) = [i \in 1..n |-> f.body[from + i - 1].data]
  BY DEF Logged
<1> HIDE DEF n
<1>4. Logged(f, from, to) \in [1..n -> Layer]
  BY <1>2, <1>3
<1>5. Logged(f, from, to) \in Seq(Layer) /\ Len(Logged(f, from, to)) = n
  BY <1>1, <1>4, SeqOfFunction
<1> QED BY <1>5 DEF n

\* One more frame is one more layer.
LEMMA LoggedAppend ==
  ASSUME NEW f \in FileType, NEW from \in Nat \ {0}, NEW to \in Nat, from - 1 =< to,
         Frames(f, from, to + 1)
  PROVE  /\ Logged(f, from, to + 1) = Logged(f, from, to) \o << f.body[to + 1].data >>
         /\ f.body[to + 1].data \in Layer
<1>1. Frames(f, from, to) /\ to + 1 \in from..(to + 1)
  BY DEF Frames
<1>2. f.body[to + 1].kind = "wal" /\ to + 1 \in DOMAIN f.body
  BY <1>1 DEF Frames
<1>3. f.body[to + 1].data \in Layer
  <2>1. f.body[to + 1] \in Extent
    BY <1>2, FileFields
  <2> QED BY <1>2, <2>1, ExtentFields
<1>4. Logged(f, from, to) \in Seq(Layer) /\ Len(Logged(f, from, to)) = to + 1 - from
  BY <1>1, LoggedType
<1>5. /\ Logged(f, from, to + 1) \in Seq(Layer)
      /\ Len(Logged(f, from, to + 1)) = to + 1 + 1 - from
  <2>1. to + 1 \in Nat /\ from - 1 =< to + 1
    OBVIOUS
  <2> QED BY <2>1, LoggedType
<1> DEFINE a == Logged(f, from, to)
           b == Logged(f, from, to + 1)
           l == f.body[to + 1].data
           n == to + 1 - from
<1>6. n \in Nat /\ \A i \in 1..n : a[i] = f.body[from + i - 1].data
  BY DEF Logged
<1>7. /\ \A i \in 1..(n + 1) : b[i] = f.body[from + i - 1].data
      /\ from + (n + 1) - 1 = to + 1
  BY DEF Logged
<1>8. Len(a) = n /\ Len(b) = n + 1 /\ a \in Seq(Layer) /\ b \in Seq(Layer) /\ l \in Layer
  BY <1>3, <1>4, <1>5
<1>9. b[n + 1] = l
  BY <1>6, <1>7
<1> HIDE DEF a, b, l, n
<1>10. \A i \in 1..n : b[i] = a[i]
  BY <1>6, <1>7
<1>11. b = a \o << l >>
  <2>1. << l >> \in Seq(Layer) /\ Len(<< l >>) = 1 /\ << l >>[1] = l
    BY <1>8
  <2> DEFINE c == a \o << l >>
  <2>2. /\ c \in Seq(Layer) /\ Len(c) = n + 1
        /\ \A i \in 1..n : c[i] = a[i]
        /\ c[n + 1] = l
    <3>1. /\ c \in Seq(Layer) /\ DOMAIN c = 1..(Len(a) + Len(<< l >>))
          /\ \A i \in 1..Len(a) : c[i] = a[i]
          /\ \A i \in 1..Len(<< l >>) : c[Len(a) + i] = << l >>[i]
      BY <1>8, <2>1, ConcatElements
    <3> HIDE DEF c
    <3> QED BY <1>6, <1>8, <2>1, <3>1
  <2> HIDE DEF c
  <2>3. \A i \in 1..(n + 1) : c[i] = b[i]
    BY <1>6, <1>9, <1>10, <2>2
  <2>4. b = c
    BY <1>6, <1>8, <2>2, <2>3
  <2> QED BY <2>4 DEF c
<1> QED BY <1>3, <1>11 DEF a, b, l

-----------------------------------------------------------------------------
(* What a header slot leads to *)

\* The slot leads to a manifest; the manifest's tables are all in the file,
\* before it and in the order of their generations; its log follows it.
Names(f, s) ==
    /\ s.seq > 0
    /\ s.man \in DOMAIN f.body /\ f.body[s.man] = s.crc /\ s.crc.kind = "manifest"
    /\ s.crc.walStart = s.man + 1
    /\ RefsIntact(f, s.crc.refs) /\ InOrder(s.crc.refs)
    /\ \A i \in DOMAIN s.crc.refs :
          s.crc.refs[i].off < s.man /\ s.crc.refs[i].gen < s.crc.nextId

\* The tables of the manifest, oldest first.
Tables(f, s) == [i \in DOMAIN s.crc.refs |-> TableAt(f, s.crc.refs[i].off)]

\* The database slot s leads to, with its log read up to `end`.
Kept(f, s, end) == Merged(Tables(f, s) \o Logged(f, s.man + 1, end))

\* The two files are the same up to extent n.
Agree(f, g, n) ==
    \A i \in 1..n : i \in DOMAIN f.body /\ i \in DOMAIN g.body /\ g.body[i] = f.body[i]

Refs == Seq([gen : Nat, off : Nat])

LEMMA RefsElements ==
  ASSUME NEW refs \in Refs
  PROVE  /\ DOMAIN refs = 1..Len(refs) /\ Len(refs) \in Nat
         /\ \A i \in DOMAIN refs : refs[i] \in [gen : Nat, off : Nat]
         /\ \A i \in DOMAIN refs : refs[i].gen \in Nat /\ refs[i].off \in Nat
<1>1. /\ DOMAIN refs = 1..Len(refs) /\ Len(refs) \in Nat
      /\ \A i \in DOMAIN refs : refs[i] \in [gen : Nat, off : Nat]
  BY SeqElements DEF Refs
<1>2. \A i \in DOMAIN refs : refs[i].gen \in Nat /\ refs[i].off \in Nat
  BY <1>1
<1> QED BY <1>1, <1>2

\* A slot that names a manifest is not the blank one.
LEMMA NamesFacts ==
  ASSUME NEW f \in FileType, NEW s \in SlotType, Names(f, s)
  PROVE  /\ s.seq \in Nat /\ s.man \in Nat \ {0} /\ s.man =< Len(f.body)
         /\ s.man + 1 \in Nat \ {0}
         /\ s.crc \in Extent /\ s.crc.nextId \in Nat /\ s.crc.refs \in Refs
         /\ s # BadSlot
<1>1. s.seq \in Nat /\ s.man \in Nat
  BY DEF SlotType
<1>2. f.body \in Seq(Extent) /\ Len(f.body) \in Nat /\ s.man \in 1..Len(f.body)
  BY FileFields DEF Names
<1>3. s.crc \in Extent /\ s.crc.kind = "manifest"
  BY <1>2 DEF Names
<1>4. s.crc.nextId \in Nat /\ s.crc.refs \in Refs
  BY <1>3, ExtentFields DEF Refs
<1>5. s # BadSlot
  BY <1>1 DEF Names, BadSlot
<1> QED BY <1>1, <1>2, <1>3, <1>4, <1>5

LEMMA TablesType ==
  ASSUME NEW f \in FileType, NEW s, s.crc.refs \in Refs
  PROVE  Tables(f, s) \in Seq(Layer)
<1> DEFINE refs == s.crc.refs
<1>1. DOMAIN refs = 1..Len(refs) /\ Len(refs) \in Nat
  BY RefsElements
<1>2. Tables(f, s) = [i \in DOMAIN refs |-> TableAt(f, refs[i].off)]
  BY DEF Tables
<1> HIDE DEF refs
<1>3. Tables(f, s) \in [1..Len(refs) -> Layer]
  BY <1>1, <1>2, TableAtType
<1> QED BY <1>1, <1>3, SeqOfFunction

\* What a slot and the log behind it keep is a database.
LEMMA KeptType ==
  ASSUME NEW f \in FileType, NEW s \in SlotType, Names(f, s), NEW end \in Nat, s.man =< end,
         Frames(f, s.man + 1, end)
  PROVE  Kept(f, s, end) \in View
<1>1. Tables(f, s) \in Seq(Layer)
  BY NamesFacts, TablesType
<1>2. Logged(f, s.man + 1, end) \in Seq(Layer)
  BY NamesFacts, LoggedType
<1>3. Tables(f, s) \o Logged(f, s.man + 1, end) \in Seq(Layer)
  BY <1>1, <1>2
<1> QED BY <1>3, MergedType DEF Kept

\* A slot names the same manifest and tables in a file that agrees so far.
LEMMA NamesAgree ==
  ASSUME NEW f \in FileType, NEW s \in SlotType, Names(f, s), NEW g, Agree(f, g, s.man)
  PROVE  Names(g, s) /\ Tables(g, s) = Tables(f, s)
<1>1. s.man \in Nat \ {0} /\ s.man \in 1..s.man /\ s.crc.refs \in Refs
  BY NamesFacts
<1>2. s.man \in DOMAIN g.body /\ g.body[s.man] = s.crc
  BY <1>1 DEF Agree, Names
<1>3. ASSUME NEW i \in DOMAIN s.crc.refs
      PROVE  /\ s.crc.refs[i].off \in DOMAIN g.body
             /\ s.crc.refs[i].off \in DOMAIN f.body
             /\ g.body[s.crc.refs[i].off] = f.body[s.crc.refs[i].off]
  <2>1. s.crc.refs[i].off \in Nat /\ s.crc.refs[i].off < s.man
    BY <1>1, RefsElements DEF Names
  <2>2. s.crc.refs[i].off \in DOMAIN f.body
    BY DEF Names, RefsIntact, IsTable
  <2>3. s.crc.refs[i].off >= 1
    BY <2>2, FileFields
  <2>4. s.crc.refs[i].off \in 1..s.man
    BY <1>1, <2>1, <2>3
  <2> QED BY <2>4 DEF Agree
<1>4. RefsIntact(g, s.crc.refs)
  BY <1>3 DEF Names, RefsIntact, IsTable
<1>5. Names(g, s)
  BY <1>2, <1>4 DEF Names
<1>6. \A i \in DOMAIN s.crc.refs :
         TableAt(g, s.crc.refs[i].off) = TableAt(f, s.crc.refs[i].off)
  BY <1>3 DEF TableAt, IsTable
<1> QED BY <1>5, <1>6 DEF Tables

\* The same of what the slot and the log behind it keep.
LEMMA KeptAgree ==
  ASSUME NEW f \in FileType, NEW s \in SlotType, Names(f, s), NEW g, NEW end \in Nat,
         s.man =< end, Agree(f, g, end)
  PROVE  /\ Names(g, s) /\ Kept(g, s, end) = Kept(f, s, end)
         /\ Frames(f, s.man + 1, end) => Frames(g, s.man + 1, end)
<1>1. s.man \in Nat \ {0}
  BY NamesFacts
<1>2. Agree(f, g, s.man)
  BY <1>1 DEF Agree
<1>3. Names(g, s) /\ Tables(g, s) = Tables(f, s)
  BY <1>2, NamesAgree
<1>4. \A i \in 1..(end + 1 - (s.man + 1)) :
         (s.man + 1) + i - 1 \in 1..end /\ g.body[(s.man + 1) + i - 1] = f.body[(s.man + 1) + i - 1]
  BY <1>1 DEF Agree
<1>5. Logged(g, s.man + 1, end) = Logged(f, s.man + 1, end)
  BY <1>4 DEF Logged
<1>6. \A n \in (s.man + 1)..end : n \in 1..end
  BY <1>1
<1>7. Frames(f, s.man + 1, end) => Frames(g, s.man + 1, end)
  BY <1>6 DEF Frames, Agree
<1> QED BY <1>3, <1>5, <1>7 DEF Kept

\* The empty log adds nothing to the tables.
LEMMA KeptNone ==
  ASSUME NEW f \in FileType, NEW s \in SlotType, Names(f, s)
  PROVE  Kept(f, s, s.man) = Merged(Tables(f, s)) /\ Frames(f, s.man + 1, s.man)
<1>1. s.man \in Nat \ {0} /\ Tables(f, s) \in Seq(Layer)
  BY NamesFacts, TablesType
<1>2. Frames(f, s.man + 1, s.man)
  BY <1>1 DEF Frames
<1>3. Logged(f, s.man + 1, s.man) \in Seq(Layer) /\ Len(Logged(f, s.man + 1, s.man)) = 0
  <2>1. s.man + 1 \in Nat \ {0} /\ (s.man + 1) - 1 =< s.man /\ s.man + 1 - (s.man + 1) = 0
    BY <1>1
  <2> QED BY <1>1, <1>2, <2>1, LoggedType
<1>4. Tables(f, s) \o Logged(f, s.man + 1, s.man) = Tables(f, s)
  <2>1. Logged(f, s.man + 1, s.man) = << >>
    BY <1>3
  <2> QED BY <1>1, <2>1
<1> QED BY <1>2, <1>4 DEF Kept

\* Merging a stack with one more layer on top of it.
LEMMA MergedPush ==
  ASSUME NEW a \in Seq(Layer), NEW l \in Layer
  PROVE  Merged(a \o << l >>) = Live(Overlay(Merged(a), l))
<1>1. << l >> \in Seq(Layer) /\ Flatten(a) \in Layer
  BY FlattenType
<1>2. Flatten(a \o << l >>) = Overlay(Flatten(a), l)
  BY <1>1, FlattenConcat, FlattenOne
<1> QED BY <1>1, <1>2, OverlayAlgebra DEF Merged

\* One more frame in the log is one more commit.
LEMMA KeptFrame ==
  ASSUME NEW f \in FileType, NEW s \in SlotType, Names(f, s), NEW end \in Nat, s.man =< end,
         Frames(f, s.man + 1, end + 1)
  PROVE  Kept(f, s, end + 1) = Live(Overlay(Kept(f, s, end), f.body[end + 1].data))
<1>1. s.man \in Nat \ {0} /\ Tables(f, s) \in Seq(Layer) /\ s.man + 1 \in Nat \ {0}
  BY NamesFacts, TablesType
<1> DEFINE a == Tables(f, s)
           b == Logged(f, s.man + 1, end)
           l == f.body[end + 1].data
<1>2. (s.man + 1) - 1 =< end
  BY <1>1
<1>3. Logged(f, s.man + 1, end + 1) = b \o << l >> /\ l \in Layer
  BY <1>1, <1>2, LoggedAppend
<1>4. b \in Seq(Layer)
  <2>1. Frames(f, s.man + 1, end)
    BY <1>1 DEF Frames
  <2> QED BY <1>1, <1>2, <2>1, LoggedType
<1>5. Kept(f, s, end + 1) = Merged(a \o (b \o << l >>)) /\ Kept(f, s, end) = Merged(a \o b)
  BY <1>3 DEF Kept
<1> HIDE DEF a, b, l
<1>6. a \o (b \o << l >>) = (a \o b) \o << l >> /\ a \o b \in Seq(Layer)
  BY <1>1, <1>3, <1>4 DEF a
<1>7. Merged((a \o b) \o << l >>) = Live(Overlay(Merged(a \o b), l))
  BY <1>3, <1>6, MergedPush
<1> QED BY <1>5, <1>6, <1>7 DEF l

-----------------------------------------------------------------------------
(* Files that open() accepts *)

\* The slot with the greater sequence number is the active one.
LEMMA ActiveIs ==
  ASSUME NEW f \in FileType, NEW at \in {0, 1}, f.slots[1 - at].seq < f.slots[at].seq
  PROVE  ActiveSlot(f) = at
<1>1. \A i \in {0, 1} : f.slots[i] \in SlotType
  BY FileFields
<1>2. f.slots[0].seq \in Nat /\ f.slots[1].seq \in Nat
  BY <1>1 DEF SlotType
<1>3. CASE at = 0
  BY <1>2, <1>3 DEF ActiveSlot
<1>4. CASE at = 1
  BY <1>2, <1>4 DEF ActiveSlot
<1> QED BY <1>3, <1>4

\* The slot in use leads to a manifest: open() finds everything, and what it
\* finds is what the slot keeps up to where replay stops.
LEMMA StoredKept ==
  ASSUME NEW f \in FileType, NEW s, s = f.slots[ActiveSlot(f)], Names(f, s)
  PROVE  /\ HasHeader(f) /\ ManifestReadable(f) /\ LiveManifest(f) = s.crc
         /\ RefsIntact(f, LiveManifest(f).refs)
         /\ SortByGeneration(LiveManifest(f).refs) = s.crc.refs
         /\ Recoverable(f)
         /\ Stored(f) = Kept(f, s, ValidEnd(f, s.man + 1))
<1>1. ActiveSlot(f) \in {0, 1}
  BY DEF ActiveSlot
<1>2. s \in SlotType
  BY <1>1, FileFields
<1>3. HasHeader(f)
  BY <1>1, <1>2, NamesFacts DEF HasHeader
<1>4. ManifestReadable(f) /\ LiveManifest(f) = s.crc
  BY DEF ManifestReadable, LiveManifest, Names
<1>5. RefsIntact(f, LiveManifest(f).refs)
  BY <1>4 DEF Names
<1>6. SortByGeneration(LiveManifest(f).refs) = s.crc.refs
  BY <1>2, <1>4, NamesFacts, SortInOrder DEF Names, Refs
<1>7. Recoverable(f)
  BY <1>3, <1>4, <1>5 DEF Recoverable
<1>8. Replayed(f, s.crc.walStart) = Logged(f, s.man + 1, ValidEnd(f, s.man + 1))
  BY DEF Replayed, Logged, Names
<1>9. Stored(f) = Merged(Tables(f, s) \o Replayed(f, s.crc.walStart))
  BY <1>3, <1>4, <1>6 DEF Stored, Tables
<1> QED BY <1>3, <1>4, <1>5, <1>6, <1>7, <1>8, <1>9 DEF Kept

\* A crash finds slot `at` as it is; the other one, old, new or torn, is older
\* or leads to a manifest that is on disk as well.
Durable(f, at) ==
    /\ f.synced =< Len(f.body)
    /\ f.slots[at] = f.dslots[at]
    /\ Names(f, f.slots[at]) /\ f.slots[at].man =< f.synced
    /\ \A s \in {f.slots[1 - at], f.dslots[1 - at]} :
          \/ s.seq < f.slots[at].seq
          \/ s.seq > f.slots[at].seq /\ Names(f, s) /\ s.man =< f.synced

\* Everything of the file is on disk.
Clean(f) == f.synced = Len(f.body) /\ f.dslots = f.slots

\* A crash keeps what was synced and tears at most what was not.
LEMMA ImageFacts ==
  ASSUME NEW f \in FileType, NEW g \in CrashImages(f), f.synced =< Len(f.body)
  PROVE  /\ g \in FileType /\ Clean(g)
         /\ Len(g.body) \in Nat /\ f.synced =< Len(g.body) /\ Len(g.body) =< Len(f.body)
         /\ Agree(f, g, f.synced)
         /\ \A n \in 1..Len(g.body) : g.body[n] = f.body[n] \/ (n > f.synced /\ g.body[n] = Junk)
         /\ \A i \in {0, 1} : g.slots[i] \in SlotOutcomes(f, i)
<1>1. f.body \in Seq(Extent) /\ f.synced \in Nat /\ Len(f.body) \in Nat
  BY FileFields
<1>2. g \in FileType
  BY CrashImagesOK
<1>3. PICK b \in BodyOutcomes(f), s0 \in SlotOutcomes(f, 0), s1 \in SlotOutcomes(f, 1) :
         g = Image(b, [i \in {0, 1} |-> IF i = 0 THEN s0 ELSE s1])
  BY DEF CrashImages
<1>4. PICK n \in f.synced..Len(f.body) : \E torn \in SUBSET ((f.synced + 1)..n) :
         b = [i \in 1..n |-> IF i \in torn THEN Junk ELSE f.body[i]]
  BY <1>3 DEF BodyOutcomes
<1>5. PICK torn \in SUBSET ((f.synced + 1)..n) :
         b = [i \in 1..n |-> IF i \in torn THEN Junk ELSE f.body[i]]
  BY <1>4
<1>6. g.body = b /\ g.synced = Len(b) /\ g.dslots = g.slots
      /\ g.slots = [i \in {0, 1} |-> IF i = 0 THEN s0 ELSE s1]
  BY <1>3 DEF Image
<1>7. n \in Nat /\ f.synced =< n /\ n =< Len(f.body)
  BY <1>1
<1>8. Len(g.body) = n /\ DOMAIN g.body = 1..n
  BY <1>5, <1>6, <1>7
<1>9. \A m \in 1..n : g.body[m] = IF m \in torn THEN Junk ELSE f.body[m]
  BY <1>5, <1>6
<1>10. \A m \in torn : m > f.synced
  BY <1>1, <1>7
<1>11. Agree(f, g, f.synced)
  <2> SUFFICES ASSUME NEW m \in 1..f.synced
               PROVE  m \in DOMAIN f.body /\ m \in DOMAIN g.body /\ g.body[m] = f.body[m]
    BY DEF Agree
  <2>1. m \in 1..n /\ m \in 1..Len(f.body) /\ ~ (m > f.synced)
    BY <1>1, <1>7
  <2> QED BY <1>1, <1>8, <1>9, <1>10, <2>1
<1>12. \A m \in 1..n : g.body[m] = f.body[m] \/ (m > f.synced /\ g.body[m] = Junk)
  BY <1>9, <1>10
<1>13. \A i \in {0, 1} : g.slots[i] \in SlotOutcomes(f, i)
  BY <1>3, <1>6
<1> QED BY <1>2, <1>6, <1>7, <1>8, <1>11, <1>12, <1>13 DEF Clean

LEMMA AgreeShorter ==
  ASSUME NEW f, NEW g, NEW n \in Nat, NEW m \in Nat, m =< n, Agree(f, g, n)
  PROVE  Agree(f, g, m)
  BY DEF Agree

LEMMA SlotsTyped ==
  ASSUME NEW f \in FileType, NEW i \in {0, 1}
  PROVE  /\ f.slots[i] \in SlotType /\ f.dslots[i] \in SlotType
         /\ f.slots[i].seq \in Nat /\ f.dslots[i].seq \in Nat
<1>1. f.slots[i] \in SlotType /\ f.dslots[i] \in SlotType
  BY FileFields
<1> QED BY <1>1 DEF SlotType

\* What a crash leaves of such a file opens again, with the slot `at` or with
\* the other one when that is newer.
LEMMA DurableImage ==
  ASSUME NEW f \in FileType, NEW at \in {0, 1}, Durable(f, at), NEW g \in CrashImages(f)
  PROVE  /\ Durable(g, ActiveSlot(g))
         /\ \/ ActiveSlot(g) = at /\ g.slots[ActiveSlot(g)] = f.slots[at]
            \/ /\ ActiveSlot(g) = 1 - at /\ g.slots[1 - at].seq > f.slots[at].seq
               /\ g.slots[1 - at] \in {f.slots[1 - at], f.dslots[1 - at]}
<1>1. /\ g \in FileType /\ g.synced = Len(g.body) /\ g.dslots = g.slots
      /\ Len(g.body) \in Nat /\ f.synced =< Len(g.body) /\ Agree(f, g, f.synced)
      /\ \A i \in {0, 1} : g.slots[i] \in SlotOutcomes(f, i)
  BY ImageFacts DEF Durable, Clean
<1>2. f.synced \in Nat /\ 1 - at \in {0, 1} /\ 1 - (1 - at) = at
  BY FileFields
<1> DEFINE s == f.slots[at]
           o == g.slots[1 - at]
<1>3. s \in SlotType /\ o \in SlotType /\ s.seq \in Nat /\ o.seq \in Nat
  BY <1>1, <1>2, SlotsTyped
<1>4. g.slots[at] = s
  BY <1>1 DEF SlotOutcomes, Durable
<1>5. Names(g, s) /\ s.man =< g.synced /\ s.seq > 0
  <2>1. Names(f, s) /\ s.man =< f.synced /\ s.man \in Nat
    BY <1>3, NamesFacts DEF Durable
  <2>2. Agree(f, g, s.man)
    BY <1>1, <1>2, <2>1, AgreeShorter
  <2>3. Names(g, s)
    BY <1>3, <2>1, <2>2, NamesAgree
  <2> QED BY <1>1, <1>2, <2>1, <2>3 DEF Names
<1>6. o \in {f.slots[1 - at], f.dslots[1 - at], BadSlot}
  BY <1>1, <1>2 DEF SlotOutcomes
<1>7. CASE o.seq < s.seq
  <2>1. ActiveSlot(g) = at
    BY <1>1, <1>4, <1>7, ActiveIs
  <2>2. Durable(g, at)
    BY <1>1, <1>4, <1>5, <1>7 DEF Durable
  <2> QED BY <1>4, <2>1, <2>2
<1>8. CASE ~ (o.seq < s.seq)
  <2>1. o # BadSlot
    BY <1>3, <1>5, <1>8 DEF BadSlot
  <2>2. o \in {f.slots[1 - at], f.dslots[1 - at]}
    BY <1>6, <2>1
  <2>3. o.seq > s.seq /\ Names(f, o) /\ o.man =< f.synced
    BY <1>8, <2>2 DEF Durable
  <2>4. o.man \in Nat
    BY <1>3, <2>3, NamesFacts
  <2>5. Agree(f, g, o.man)
    BY <1>1, <1>2, <2>3, <2>4, AgreeShorter
  <2>6. Names(g, o) /\ o.man =< g.synced
    BY <1>1, <1>2, <1>3, <2>3, <2>4, <2>5, NamesAgree
  <2>7. s.seq < o.seq
    BY <1>3, <2>3
  <2>8. ActiveSlot(g) = 1 - at
    <3>1. g.slots[1 - (1 - at)].seq < g.slots[1 - at].seq
      BY <1>2, <1>4, <2>7
    <3> QED BY <1>1, <1>2, <3>1, ActiveIs
  <2>9. Durable(g, 1 - at)
    <3>1. \A x \in {g.slots[1 - (1 - at)], g.dslots[1 - (1 - at)]} : x.seq < g.slots[1 - at].seq
      BY <1>1, <1>2, <1>4, <2>7
    <3> QED BY <1>1, <2>6, <3>1 DEF Durable
  <2> QED BY <2>2, <2>3, <2>8, <2>9
<1> QED BY <1>7, <1>8

-----------------------------------------------------------------------------
(* The writes that keep a file openable *)

LEMMA GrowsAgree ==
  ASSUME NEW f \in FileType, NEW g, Grows(f, g), NEW n \in Nat, n =< Len(f.body)
  PROVE  Agree(f, g, n)
<1>1. f.body \in Seq(Extent) /\ Len(f.body) \in Nat /\ DOMAIN f.body = 1..Len(f.body)
  BY FileFields
<1>2. \A i \in 1..n : i \in DOMAIN f.body
  BY <1>1
<1> QED BY <1>2 DEF Agree, Grows

LEMMA GrowsLen ==
  ASSUME NEW f \in FileType, NEW g \in FileType, Grows(f, g)
  PROVE  Len(f.body) =< Len(g.body) /\ Len(f.body) \in Nat /\ Len(g.body) \in Nat
<1>1. /\ f.body \in Seq(Extent) /\ Len(f.body) \in Nat /\ DOMAIN f.body = 1..Len(f.body)
      /\ g.body \in Seq(Extent) /\ Len(g.body) \in Nat /\ DOMAIN g.body = 1..Len(g.body)
  BY FileFields
<1>2. 1..Len(f.body) \subseteq 1..Len(g.body)
  BY <1>1 DEF Grows
<1> QED BY <1>1, <1>2

\* Growing a file leaves what its slots name.
LEMMA NamesGrows ==
  ASSUME NEW f \in FileType, NEW g, Grows(f, g), NEW s \in SlotType, Names(f, s)
  PROVE  Names(g, s)
<1>1. s.man \in Nat /\ s.man =< Len(f.body)
  BY NamesFacts
<1>2. Agree(f, g, s.man)
  BY <1>1, GrowsAgree
<1> QED BY <1>2, NamesAgree

\* Writing behind everything that is there.
LEMMA DurableGrows ==
  ASSUME NEW f \in FileType, NEW g \in FileType, NEW at \in {0, 1}, Durable(f, at),
         Grows(f, g), g.synced = f.synced, g.slots = f.slots, g.dslots = f.dslots
  PROVE  Durable(g, at)
<1>1. 1 - at \in {0, 1} /\ f.synced \in Nat
  BY FileFields
<1>2. f.synced =< Len(g.body)
  BY <1>1, GrowsLen DEF Durable
<1>3. \A s \in {f.slots[at], f.slots[1 - at], f.dslots[1 - at]} : Names(f, s) => Names(g, s)
  BY <1>1, SlotsTyped, NamesGrows
<1> QED BY <1>2, <1>3 DEF Durable

LEMMA SyncFields ==
  ASSUME NEW f \in FileType
  PROVE  /\ Sync(f) \in FileType /\ Sync(f).body = f.body /\ Sync(f).slots = f.slots
         /\ Sync(f).synced = Len(f.body) /\ Sync(f).dslots = f.slots
         /\ Clean(Sync(f)) /\ Grows(f, Sync(f))
<1>1. Sync(f) \in FileType /\ Sync(f).body = f.body /\ Sync(f).slots = f.slots
  BY SyncOK
<1>2. Sync(f).synced = Len(f.body) /\ Sync(f).dslots = f.slots
  BY DEF Sync, FileType
<1> QED BY <1>1, <1>2, SameBodyGrows DEF Clean

\* A sync leaves a durable header durable.
LEMMA DurableSync ==
  ASSUME NEW f \in FileType, NEW at \in {0, 1}, Durable(f, at)
  PROVE  Durable(Sync(f), at)
<1> DEFINE g == Sync(f)
<1>1. /\ g \in FileType /\ g.body = f.body /\ g.slots = f.slots
      /\ g.synced = Len(f.body) /\ g.dslots = f.slots /\ Grows(f, g)
  BY SyncFields
<1> HIDE DEF g
<1>2. 1 - at \in {0, 1} /\ f.synced \in Nat /\ Len(f.body) \in Nat
  BY FileFields
<1>3. \A s \in {f.slots[at], f.slots[1 - at]} : Names(f, s) => Names(g, s) /\ s.man =< g.synced
  BY <1>1, <1>2, SlotsTyped, NamesGrows, NamesFacts
<1>4. Durable(g, at)
  BY <1>1, <1>2, <1>3 DEF Durable
<1> QED BY <1>4 DEF g

LEMMA PutHeaderFields ==
  ASSUME NEW f \in FileType, NEW seq \in Nat, NEW at \in {0, 1}, NEW off \in DOMAIN f.body
  PROVE  LET g == PutHeader(f, seq, at, off)
         IN  /\ g \in FileType /\ g.body = f.body /\ g.synced = f.synced /\ g.dslots = f.dslots
             /\ g.slots[at] = f.slots[at]
             /\ g.slots[1 - at] = Slot(seq + 1, off, f.body[off])
<1> DEFINE v == Slot(seq + 1, off, f.body[off])
           k == 1 - at
           g == PutHeader(f, seq, at, off)
<1>1. g \in FileType
  BY PutHeaderOK, Zenon
<1>2. g = [f EXCEPT !.slots[k] = v]
  BY DEF PutHeader
<1>3. k \in {0, 1} /\ k # at
  OBVIOUS
<1> HIDE DEF v, k
<1>4. /\ g.body = f.body /\ g.synced = f.synced /\ g.dslots = f.dslots
      /\ g.slots = [f.slots EXCEPT ![k] = v]
  BY <1>2 DEF FileType
<1>5. g.slots[at] = f.slots[at] /\ g.slots[k] = v
  BY <1>3, <1>4, FileFields
<1> QED BY <1>1, <1>4, <1>5 DEF v, k

\* Syncing the body and then writing the slot that is not `at`.
LEMMA DurableHeader ==
  ASSUME NEW f \in FileType, NEW at \in {0, 1}, Durable(f, at), NEW seq \in Nat,
         seq = f.slots[at].seq, NEW off \in DOMAIN f.body,
         Names(f, Slot(seq + 1, off, f.body[off]))
  PROVE  LET g == PutHeader(Sync(f), seq, at, off)
         IN  /\ g \in FileType /\ Durable(g, at) /\ Grows(f, g)
             /\ g.body = f.body /\ g.synced = Len(f.body) /\ g.dslots = f.slots
             /\ g.slots[at] = f.slots[at]
             /\ g.slots[1 - at] = Slot(seq + 1, off, f.body[off])
             /\ Names(g, Slot(seq + 1, off, f.body[off]))
<1> DEFINE h == Sync(f)
           v == Slot(seq + 1, off, f.body[off])
           g == PutHeader(h, seq, at, off)
<1>1. /\ h \in FileType /\ h.body = f.body /\ h.slots = f.slots
      /\ h.synced = Len(f.body) /\ h.dslots = f.slots
  BY SyncFields
<1>2. Durable(h, at)
  BY DurableSync
<1>3. v \in SlotType /\ v.seq = seq + 1 /\ v.man = off /\ off \in Nat
  <2>1. off \in Nat /\ f.body[off] \in Extent
    BY FileFields
  <2> QED BY <2>1, SlotTypes DEF Slot
<1> HIDE DEF h, v
<1>4. /\ g \in FileType /\ g.body = h.body /\ g.synced = h.synced /\ g.dslots = h.dslots
      /\ g.slots[at] = h.slots[at]
      /\ g.slots[1 - at] = Slot(seq + 1, off, h.body[off])
  <2>1. off \in DOMAIN h.body
    BY <1>1
  <2> QED BY <1>1, <2>1, PutHeaderFields
<1> HIDE DEF g
<1>5. g.slots[1 - at] = v
  BY <1>1, <1>4 DEF v
<1>6. Grows(f, g) /\ Grows(h, g)
  BY <1>1, <1>4, SameBodyGrows
<1>7. Names(g, v) /\ v.man =< g.synced
  <2>1. Names(f, v)
    BY DEF v
  <2> QED BY <1>1, <1>3, <1>4, <1>6, <2>1, NamesGrows, NamesFacts
<1>8. 1 - at \in {0, 1}
  OBVIOUS
<1>9. \A s \in {h.slots[at], h.slots[1 - at]} : s \in SlotType /\ (Names(h, s) => Names(g, s))
  BY <1>1, <1>6, <1>8, SlotsTyped, NamesGrows
<1>10. Durable(g, at)
  <2>1. v.seq > g.slots[at].seq
    BY <1>1, <1>3, <1>4
  <2>2. /\ Names(g, g.slots[at]) /\ g.slots[at].man =< g.synced /\ g.slots[at] = g.dslots[at]
        /\ g.synced =< Len(g.body)
    BY <1>2, <1>4, <1>9 DEF Durable
  <2>3. \/ g.dslots[1 - at].seq < g.slots[at].seq
        \/ /\ g.dslots[1 - at].seq > g.slots[at].seq
           /\ Names(g, g.dslots[1 - at]) /\ g.dslots[1 - at].man =< g.synced
    BY <1>1, <1>2, <1>4, <1>9 DEF Durable
  <2> QED BY <1>5, <1>7, <2>1, <2>2, <2>3 DEF Durable
<1> QED BY <1>1, <1>4, <1>5, <1>6, <1>7, <1>10 DEF g, h, v

\* The slot that is not `at` may be torn.
LEMMA DurableTorn ==
  ASSUME NEW f \in FileType, NEW at \in {0, 1}, Durable(f, at)
  PROVE  LET g == [f EXCEPT !.slots[1 - at] = BadSlot]
         IN  /\ g \in FileType /\ Durable(g, at) /\ g.body = f.body /\ g.slots[at] = f.slots[at]
             /\ Grows(f, g)
<1> DEFINE k == 1 - at
           g == [f EXCEPT !.slots[k] = BadSlot]
<1>1. k \in {0, 1} /\ k # at
  OBVIOUS
<1>2. f.slots[at].seq \in Nat /\ f.slots[at].seq > 0 /\ BadSlot.seq = 0
  BY SlotsTyped DEF Durable, Names, BadSlot
<1> HIDE DEF k
<1>3. g \in FileType
  BY <1>1, SlotTypes DEF FileType
<1>4. /\ g.body = f.body /\ g.synced = f.synced /\ g.dslots = f.dslots
      /\ g.slots = [f.slots EXCEPT ![k] = BadSlot]
  BY DEF FileType
<1>5. g.slots[at] = f.slots[at] /\ g.slots[k] = BadSlot
  BY <1>1, <1>4, FileFields
<1> HIDE DEF g
<1>6. Grows(f, g)
  BY <1>4, SameBodyGrows
<1>7. \A s \in {f.slots[at], f.dslots[k]} : Names(f, s) => Names(g, s)
  BY <1>1, <1>6, SlotsTyped, NamesGrows
<1>8. Durable(g, at)
  BY <1>2, <1>4, <1>5, <1>7 DEF Durable, k
<1> QED BY <1>3, <1>4, <1>5, <1>6, <1>8 DEF g, k

\* Syncing the header makes the newer slot the one a crash finds.
LEMMA DurableFlip ==
  ASSUME NEW f \in FileType, NEW at \in {0, 1}, Durable(f, at),
         f.slots[1 - at].seq > f.slots[at].seq, Names(f, f.slots[1 - at])
  PROVE  Durable(Sync(f), 1 - at)
<1> DEFINE g == Sync(f)
           k == 1 - at
<1>1. /\ g \in FileType /\ g.body = f.body /\ g.slots = f.slots
      /\ g.synced = Len(f.body) /\ g.dslots = f.slots /\ Grows(f, g)
  BY SyncFields
<1>2. k \in {0, 1} /\ 1 - k = at
  OBVIOUS
<1> HIDE DEF g, k
<1>3. /\ f.slots[k] \in SlotType /\ f.slots[k].seq \in Nat /\ f.slots[at].seq \in Nat
      /\ Names(f, f.slots[k]) /\ f.slots[at].seq < f.slots[k].seq
  BY <1>2, SlotsTyped DEF k
<1>4. Names(g, f.slots[k]) /\ f.slots[k].man =< Len(f.body) /\ Len(f.body) \in Nat
  BY <1>1, <1>3, NamesGrows, NamesFacts, FileFields
<1>5. Durable(g, k)
  BY <1>1, <1>2, <1>3, <1>4 DEF Durable
<1> QED BY <1>5 DEF g, k

\* With nothing left to sync, the slot in use is strictly the newer one.
LEMMA ActiveNewer ==
  ASSUME NEW f \in FileType, Durable(f, ActiveSlot(f))
  PROVE  /\ ActiveSlot(f) \in {0, 1}
         /\ f.slots[1 - ActiveSlot(f)].seq < f.slots[ActiveSlot(f)].seq
<1> DEFINE at == ActiveSlot(f)
<1>1. at \in {0, 1}
  BY DEF ActiveSlot
<1>2. f.slots[0].seq \in Nat /\ f.slots[1].seq \in Nat
  BY SlotsTyped
<1>3. \/ f.slots[1 - at].seq < f.slots[at].seq
      \/ f.slots[1 - at].seq > f.slots[at].seq
  BY DEF Durable
<1>4. CASE at = 0
  BY <1>2, <1>3, <1>4 DEF ActiveSlot
<1>5. CASE at = 1
  BY <1>2, <1>3, <1>5 DEF ActiveSlot
<1> QED BY <1>1, <1>4, <1>5

\* The file with everything behind extent `end` cut off and synced.
LEMMA TruncateFields ==
  ASSUME NEW f \in FileType, Clean(f), NEW end \in Nat, end =< Len(f.body)
  PROVE  LET g == Truncate(f, end)
         IN  /\ g \in FileType /\ Clean(g) /\ g.slots = f.slots
             /\ Len(g.body) = end /\ Agree(f, g, end)
<1> DEFINE g == Truncate(f, end)
<1>1. f.body \in Seq(Extent) /\ Len(f.body) \in Nat /\ DOMAIN f.body = 1..Len(f.body)
  BY FileFields
<1>2. g \in FileType
  BY TruncateOK
<1>3. CASE Len(f.body) > end
  <2> DEFINE b == SubSeq(f.body, 1, end)
             h == [f EXCEPT !.body = b]
  <2>1. b \in Seq(Extent) /\ DOMAIN b = 1..end /\ Len(b) = end /\ \A n \in 1..end : b[n] = f.body[n]
    BY <1>1, <1>3
  <2>2. g = Sync(h)
    BY <1>3 DEF Truncate
  <2> HIDE DEF b, g
  <2>3. h \in FileType /\ h.body = b /\ h.slots = f.slots
    BY <2>1 DEF FileType
  <2> HIDE DEF h
  <2>4. g.body = b /\ g.slots = f.slots /\ Clean(g)
    BY <2>2, <2>3, SyncFields
  <2>5. Agree(f, g, end)
    BY <1>1, <1>3, <2>1, <2>4 DEF Agree
  <2> QED BY <1>2, <2>1, <2>4, <2>5 DEF g
<1>4. CASE ~ (Len(f.body) > end)
  <2>1. g = f /\ Len(f.body) = end
    BY <1>1, <1>4 DEF Truncate
  <2>2. Agree(f, f, end)
    BY <1>1, <2>1 DEF Agree
  <2> HIDE DEF g
  <2> QED BY <2>1, <2>2 DEF g
<1> QED BY <1>3, <1>4

\* Cutting the log behind its last good frame keeps the database.
LEMMA TruncateKeeps ==
  ASSUME NEW f \in FileType, Clean(f), Durable(f, ActiveSlot(f))
  PROVE  LET at == ActiveSlot(f)
             s  == f.slots[at]
             g  == Truncate(f, ValidEnd(f, s.man + 1))
         IN  /\ g \in FileType /\ Clean(g) /\ Durable(g, at) /\ g.slots = f.slots
             /\ Agree(f, g, s.man) /\ s.man =< Len(g.body) /\ Len(g.body) = ValidEnd(f, s.man + 1)
             /\ Frames(g, s.man + 1, Len(g.body))
             /\ Kept(g, s, Len(g.body)) = Stored(f)
<1> DEFINE at == ActiveSlot(f)
           s == f.slots[at]
           end == ValidEnd(f, s.man + 1)
           g == Truncate(f, end)
<1>1. at \in {0, 1} /\ f.slots[1 - at].seq < s.seq
  BY ActiveNewer
<1>2. s \in SlotType /\ Names(f, s)
  BY <1>1, SlotsTyped DEF Durable
<1>3. /\ s.man \in Nat \ {0} /\ s.man =< Len(f.body) /\ s.man + 1 \in Nat \ {0}
      /\ f.body \in Seq(Extent) /\ Len(f.body) \in Nat /\ DOMAIN f.body = 1..Len(f.body)
  BY <1>2, NamesFacts, FileFields
<1>4. Stored(f) = Kept(f, s, end)
  BY <1>2, StoredKept
<1> HIDE DEF at, s
<1>5. /\ end \in Nat /\ end >= (s.man + 1) - 1
      /\ s.man + 1 > Len(f.body) => end = (s.man + 1) - 1
      /\ s.man + 1 =< Len(f.body) =>
            /\ end =< Len(f.body)
            /\ \A i \in (s.man + 1)..end : f.body[i].kind = "wal"
  BY <1>3, ValidEndOK
<1> HIDE DEF end
<1>6. end =< Len(f.body) /\ s.man =< end
  BY <1>3, <1>5
<1>7. Frames(f, s.man + 1, end)
  <2> SUFFICES ASSUME NEW n \in (s.man + 1)..end
               PROVE  n \in DOMAIN f.body /\ f.body[n].kind = "wal"
    BY DEF Frames
  <2>1. s.man + 1 =< Len(f.body) /\ n \in 1..Len(f.body)
    BY <1>3, <1>5, <1>6
  <2> QED BY <1>3, <1>5, <2>1
<1>8. g \in FileType /\ Clean(g) /\ g.slots = f.slots /\ Len(g.body) = end /\ Agree(f, g, end)
  BY <1>5, <1>6, TruncateFields
<1> HIDE DEF g
<1>9. Names(g, s) /\ Kept(g, s, end) = Kept(f, s, end) /\ Frames(g, s.man + 1, end)
  BY <1>2, <1>5, <1>6, <1>7, <1>8, KeptAgree
<1>10. Agree(f, g, s.man)
  BY <1>3, <1>5, <1>6, <1>8, AgreeShorter
<1>11. Durable(g, at)
  <2>1. g.slots[at] = s /\ g.dslots = g.slots /\ g.synced = end
    BY <1>8 DEF Clean, s
  <2>2. g.slots[1 - at].seq < s.seq /\ g.dslots[1 - at].seq < s.seq
    BY <1>1, <1>8, <2>1
  <2> QED BY <1>3, <1>6, <1>8, <1>9, <2>1, <2>2 DEF Durable
<1> QED BY <1>4, <1>6, <1>8, <1>9, <1>10, <1>11 DEF at, s, end, g

LEMMA ManifestFields ==
  ASSUME NEW n, NEW r, NEW w
  PROVE  /\ Manifest(n, r, w).kind = "manifest" /\ Manifest(n, r, w).nextId = n
         /\ Manifest(n, r, w).refs = r /\ Manifest(n, r, w).walStart = w
  BY DEF Manifest

LEMMA SlotFields ==
  ASSUME NEW n, NEW o, NEW x
  PROVE  Slot(n, o, x).seq = n /\ Slot(n, o, x).man = o /\ Slot(n, o, x).crc = x
  BY DEF Slot

\* A new file.
LEMMA EmptyFileFields ==
  /\ EmptyFile \in FileType /\ EmptyFile.body = << >> /\ EmptyFile.synced = 0
  /\ Len(EmptyFile.body) = 0
  /\ \A i \in {0, 1} : EmptyFile.slots[i] = BadSlot /\ EmptyFile.dslots[i] = BadSlot
  BY EmptyFileOK DEF EmptyFile

LEMMA AppendFields ==
  ASSUME NEW f \in FileType, NEW x \in Extent
  PROVE  LET g == AppendExtent(f, x)
         IN  /\ g \in FileType /\ Grows(f, g) /\ g.body \in Seq(Extent)
             /\ g.slots = f.slots /\ g.dslots = f.dslots /\ g.synced = f.synced
             /\ Len(f.body) \in Nat /\ Len(g.body) = Len(f.body) + 1
             /\ g.body[Len(f.body) + 1] = x
             /\ \A n \in 1..Len(f.body) : g.body[n] = f.body[n]
<1> DEFINE g == AppendExtent(f, x)
<1>1. g \in FileType /\ Grows(f, g) /\ g.body = Append(f.body, x) /\ g.slots = f.slots
  BY AppendExtentOK, AppendGrows
<1>2. g.dslots = f.dslots /\ g.synced = f.synced
  BY DEF AppendExtent, FileType
<1>3. f.body \in Seq(Extent)
  BY FileFields
<1> HIDE DEF g
<1>4. /\ g.body \in Seq(Extent) /\ Len(f.body) \in Nat /\ Len(g.body) = Len(f.body) + 1
      /\ g.body[Len(f.body) + 1] = x
      /\ \A n \in 1..Len(f.body) : g.body[n] = f.body[n]
  BY <1>1, <1>3
<1> QED BY <1>1, <1>2, <1>4 DEF g

\* A file with one header slot written: what it was synced with, and a slot
\* that leads to its last extent.
LEMMA FirstHeader ==
  ASSUME NEW f \in FileType, NEW off \in DOMAIN f.body,
         \A i \in {0, 1} : f.slots[i] = BadSlot, Names(f, Slot(1, off, f.body[off]))
  PROVE  LET g == PutHeader(Sync(f), 0, 1, off)
             v == Slot(1, off, f.body[off])
         IN  /\ g \in FileType /\ g.body = f.body /\ g.synced = Len(f.body)
             /\ g.dslots = f.slots /\ g.slots[0] = v /\ g.slots[1] = BadSlot /\ Names(g, v)
             /\ Durable(Sync(g), 0) /\ Clean(Sync(g)) /\ ActiveSlot(Sync(g)) = 0
             /\ Sync(g).slots = g.slots /\ Sync(g).body = f.body /\ Names(Sync(g), v)
<1> DEFINE h == Sync(f)
           v == Slot(1, off, f.body[off])
           g == PutHeader(h, 0, 1, off)
           c == Sync(g)
<1>1. /\ h \in FileType /\ h.body = f.body /\ h.slots = f.slots
      /\ h.synced = Len(f.body) /\ h.dslots = f.slots
  BY SyncFields
<1>2. v \in SlotType /\ v.seq = 1 /\ v.man = off /\ off \in Nat
  <2>1. off \in Nat /\ f.body[off] \in Extent
    BY FileFields
  <2> QED BY <2>1, SlotTypes DEF Slot
<1> HIDE DEF h
<1>3. /\ g \in FileType /\ g.body = h.body /\ g.synced = h.synced /\ g.dslots = h.dslots
      /\ g.slots[1] = h.slots[1]
      /\ g.slots[0] = Slot(1, off, h.body[off])
  <2>1. off \in DOMAIN h.body /\ 0 \in Nat /\ 1 \in {0, 1} /\ 1 - 1 = 0 /\ 0 + 1 = 1
    BY <1>1
  <2>2. /\ g \in FileType /\ g.body = h.body /\ g.synced = h.synced /\ g.dslots = h.dslots
        /\ g.slots[1] = h.slots[1]
        /\ g.slots[1 - 1] = Slot(0 + 1, off, h.body[off])
    BY <1>1, <2>1, PutHeaderFields, Zenon
  <2> HIDE DEF g
  <2> QED BY <2>1, <2>2
<1> HIDE DEF g
<1>4. g.slots[0] = v /\ g.slots[1] = BadSlot /\ g.body = f.body
  BY <1>1, <1>3
<1>5. Grows(f, g)
  BY <1>4, SameBodyGrows
<1>6. Names(f, v)
  OBVIOUS
<1> HIDE DEF v
<1>7. Names(g, v) /\ v.man =< Len(f.body)
  BY <1>2, <1>5, <1>6, NamesGrows, NamesFacts
<1>8. /\ c \in FileType /\ c.body = g.body /\ c.slots = g.slots
      /\ c.synced = Len(g.body) /\ c.dslots = g.slots /\ Clean(c) /\ Grows(g, c)
  BY <1>3, SyncFields
<1> HIDE DEF c
<1>9. Names(c, v) /\ v.man =< c.synced /\ Len(c.body) \in Nat
  BY <1>2, <1>3, <1>4, <1>7, <1>8, NamesGrows, FileFields
<1>10. BadSlot.seq < v.seq /\ 1 - 0 = 1
  BY <1>2 DEF BadSlot
<1>11. Durable(c, 0)
  BY <1>4, <1>8, <1>9, <1>10 DEF Durable
<1>12. ActiveSlot(c) = 0
  BY <1>4, <1>8, <1>10, ActiveIs
<1> QED BY <1>1, <1>3, <1>4, <1>7, <1>8, <1>9, <1>11, <1>12 DEF g, v, c, h

-----------------------------------------------------------------------------
(* New files *)

LEMMA BlobFields ==
  ASSUME NEW g, NEW l
  PROVE  Blob(g, l).kind = "sst" /\ Blob(g, l).gen = g /\ Blob(g, l).data = l
  BY DEF Blob

\* The file a compaction builds is durable and holds the merged table alone.
LEMMA FreshFacts ==
  ASSUME NEW gen \in Nat, NEW layer \in Layer
  PROVE  LET g == FreshFile(gen, layer)
             v == g.slots[0]
         IN  /\ g \in FileType /\ Clean(g) /\ Durable(g, 0) /\ ActiveSlot(g) = 0
             /\ v \in SlotType /\ Names(g, v) /\ v.seq = 1 /\ v.man = 2 /\ v.crc.walStart = 3
             /\ g.slots[1] = BadSlot /\ Len(g.body) = 2
             /\ IsTable(g, 1) /\ g.body[1].gen = gen /\ TableAt(g, 1) = layer
             /\ Kept(g, v, 2) = Live(layer) /\ Frames(g, 3, 2)
<1> DEFINE ref  == [gen |-> gen, off |-> 1]
           refs == << ref >>
           man  == Manifest(gen + 1, refs, 3)
           blob == Blob(gen, layer)
           f1   == AppendExtent(EmptyFile, blob)
           f2   == AppendExtent(f1, man)
           v    == Slot(1, 2, f2.body[2])
           f3   == PutHeader(Sync(f2), 0, 1, 2)
           g    == FreshFile(gen, layer)
<1>0. g = Sync(f3)
  BY DEF FreshFile
<1>1. /\ refs \in Refs /\ DOMAIN refs = {1} /\ refs[1] = ref
      /\ ref.gen = gen /\ ref.off = 1
  BY DEF Refs
<1> HIDE DEF ref, refs
<1>2. /\ man \in Extent /\ man.kind = "manifest" /\ man.nextId = gen + 1
      /\ man.refs = refs /\ man.walStart = 3
  <2>1. gen + 1 \in Nat /\ 3 \in Nat \ {0} /\ refs \in Seq([gen : Nat, off : Nat])
    BY <1>1 DEF Refs
  <2>2. man \in Extent
    BY <2>1, ExtentTypes, Zenon
  <2> QED BY <2>2, ManifestFields
<1>3. blob \in Extent /\ blob.kind = "sst" /\ blob.gen = gen /\ blob.data = layer
  BY ExtentTypes, BlobFields
<1> HIDE DEF man, blob
<1>4. /\ f1 \in FileType /\ Len(f1.body) = 1 /\ f1.body[1] = blob
      /\ \A i \in {0, 1} : f1.slots[i] = BadSlot
  <2>1. /\ f1 \in FileType /\ f1.slots = EmptyFile.slots
        /\ Len(f1.body) = Len(EmptyFile.body) + 1
        /\ f1.body[Len(EmptyFile.body) + 1] = blob
    BY <1>3, EmptyFileFields, AppendFields, Zenon
  <2> HIDE DEF f1
  <2> QED BY <2>1, EmptyFileFields
<1> HIDE DEF f1
<1>5. /\ f2 \in FileType /\ Len(f2.body) = 2 /\ f2.body[1] = blob /\ f2.body[2] = man
      /\ f2.body \in Seq(Extent) /\ \A i \in {0, 1} : f2.slots[i] = BadSlot
  <2>1. /\ f2 \in FileType /\ f2.slots = f1.slots /\ f2.body \in Seq(Extent)
        /\ Len(f2.body) = Len(f1.body) + 1
        /\ f2.body[Len(f1.body) + 1] = man
        /\ \A n \in 1..Len(f1.body) : f2.body[n] = f1.body[n]
    BY <1>2, <1>4, AppendFields, Zenon
  <2> HIDE DEF f2
  <2> QED BY <1>4, <2>1
<1> HIDE DEF f2
<1>6. DOMAIN f2.body = {1, 2}
  BY <1>5
<1>7. v \in SlotType /\ v.seq = 1 /\ v.man = 2 /\ v.crc = man
  BY <1>2, <1>5, SlotFields, SlotTypes
<1>8. Names(f2, v)
  <2>1. RefsIntact(f2, refs)
    BY <1>1, <1>3, <1>5, <1>6 DEF RefsIntact, IsTable
  <2>2. InOrder(refs)
    BY <1>1 DEF InOrder
  <2>3. \A i \in DOMAIN refs : refs[i].off < 2 /\ refs[i].gen < gen + 1
    BY <1>1
  <2> HIDE DEF v
  <2> QED BY <1>2, <1>5, <1>6, <1>7, <2>1, <2>2, <2>3 DEF Names
<1>9. /\ f3 \in FileType /\ f3.body = f2.body /\ f3.slots[0] = v /\ f3.slots[1] = BadSlot
      /\ Durable(Sync(f3), 0) /\ Clean(Sync(f3)) /\ ActiveSlot(Sync(f3)) = 0
      /\ Sync(f3).slots = f3.slots /\ Sync(f3).body = f2.body /\ Names(Sync(f3), v)
  <2>1. 2 \in DOMAIN f2.body /\ Names(f2, Slot(1, 2, f2.body[2]))
    BY <1>6, <1>8
  <2> QED BY <1>5, <2>1, FirstHeader
<1> HIDE DEF v, f3
<1>10. g \in FileType
  BY FreshFileOK
<1> HIDE DEF g
<1>11. /\ g.slots[0] = v /\ g.slots[1] = BadSlot /\ g.body = f2.body /\ Names(g, v)
       /\ Durable(g, 0) /\ Clean(g) /\ ActiveSlot(g) = 0
  BY <1>0, <1>9
<1>12. IsTable(g, 1) /\ g.body[1].gen = gen /\ TableAt(g, 1) = layer
  BY <1>3, <1>5, <1>6, <1>11 DEF IsTable, TableAt
<1>13. Kept(g, v, 2) = Live(layer) /\ Frames(g, 3, 2)
  <2>1. Kept(g, v, v.man) = Merged(Tables(g, v)) /\ Frames(g, v.man + 1, v.man)
    BY <1>7, <1>10, <1>11, KeptNone
  <2>2. Tables(g, v) \in Seq(Layer) /\ Tables(g, v) = [i \in {1} |-> layer]
    <3>1. Tables(g, v) = [i \in {1} |-> layer]
      BY <1>1, <1>2, <1>7, <1>12 DEF Tables
    <3> QED BY <1>1, <1>2, <1>7, <1>10, <3>1, TablesType
  <2>3. Tables(g, v) = << layer >>
    BY <2>2
  <2>4. Merged(<< layer >>) = Live(layer)
    BY FlattenOne DEF Merged
  <2> QED BY <1>7, <2>1, <2>3, <2>4
<1> QED BY <1>2, <1>5, <1>7, <1>10, <1>11, <1>12, <1>13 DEF g

\* The first two writes of a new database.
BootFile == AppendExtent(EmptyFile, Manifest(1, << >>, 2))

BootHeaderFile == PutHeader(Sync(BootFile), 0, 1, 1)

\* No header slot verifies.
Blank(f) == \A i \in {0, 1} : f.slots[i] = BadSlot

\* The file at each step of the bootstrap of a new database.
LEMMA BootFacts ==
  /\ BootFile \in FileType /\ Blank(BootFile) /\ BootFile.dslots = BootFile.slots
  /\ BootFile.synced = 0 /\ Len(BootFile.body) = 1
  /\ BootHeaderFile \in FileType /\ BootHeaderFile.body = BootFile.body
  /\ BootHeaderFile.synced = 1 /\ BootHeaderFile.dslots = BootFile.slots
  /\ BootHeaderFile.slots[1] = BadSlot
  /\ LET v == BootHeaderFile.slots[0]
     IN  /\ v \in SlotType /\ v.seq = 1 /\ v.man = 1 /\ v.crc.refs = << >>
         /\ Names(BootHeaderFile, v)
  /\ Durable(Sync(BootHeaderFile), 0) /\ Clean(Sync(BootHeaderFile))
  /\ ActiveSlot(Sync(BootHeaderFile)) = 0
<1> DEFINE refs == << >>
           man  == Manifest(1, refs, 2)
           f    == BootFile
           g    == BootHeaderFile
           v    == Slot(1, 1, f.body[1])
<1>1. /\ man \in Extent /\ man.kind = "manifest" /\ man.nextId = 1
      /\ man.refs = << >> /\ man.walStart = 2
  <2>1. 1 \in Nat /\ 2 \in Nat \ {0} /\ refs \in Seq([gen : Nat, off : Nat])
    OBVIOUS
  <2> HIDE DEF refs
  <2>2. man \in Extent
    BY <2>1, ExtentTypes, Zenon
  <2>3. man.kind = "manifest" /\ man.nextId = 1 /\ man.refs = refs /\ man.walStart = 2
    BY ManifestFields
  <2> QED BY <2>2, <2>3 DEF refs
<1>2. f = AppendExtent(EmptyFile, man)
  BY DEF BootFile
<1> HIDE DEF man
<1>3. /\ f \in FileType /\ Len(f.body) = 1 /\ f.body[1] = man /\ f.synced = 0
      /\ f.body \in Seq(Extent) /\ f.slots = EmptyFile.slots /\ f.dslots = EmptyFile.dslots
  <2> DEFINE h == AppendExtent(EmptyFile, man)
  <2>1. /\ h \in FileType /\ h.slots = EmptyFile.slots /\ h.dslots = EmptyFile.dslots
        /\ h.synced = EmptyFile.synced /\ h.body \in Seq(Extent)
        /\ Len(h.body) = Len(EmptyFile.body) + 1
        /\ h.body[Len(EmptyFile.body) + 1] = man
    BY <1>1, EmptyFileFields, AppendFields, Zenon
  <2>2. f = h
    BY <1>2
  <2> HIDE DEF h, f
  <2> QED BY <2>1, <2>2, EmptyFileFields
<1>4. Blank(f) /\ f.dslots = f.slots /\ DOMAIN f.body = {1}
  BY <1>3, EmptyFileFields DEF Blank, EmptyFile
<1>5. v \in SlotType /\ v.seq = 1 /\ v.man = 1 /\ v.crc = man
  BY <1>1, <1>3, SlotFields, SlotTypes
<1>6. Names(f, v)
  <2>1. RefsIntact(f, man.refs) /\ InOrder(man.refs) /\ DOMAIN man.refs = {}
    BY <1>1 DEF RefsIntact, InOrder
  <2> HIDE DEF v, f
  <2> QED BY <1>1, <1>3, <1>4, <1>5, <2>1 DEF Names
<1>7. g = PutHeader(Sync(f), 0, 1, 1)
  BY DEF BootHeaderFile
<1>8. /\ g \in FileType /\ g.body = f.body /\ g.synced = Len(f.body)
      /\ g.dslots = f.slots /\ g.slots[0] = v /\ g.slots[1] = BadSlot /\ Names(g, v)
      /\ Durable(Sync(g), 0) /\ Clean(Sync(g)) /\ ActiveSlot(Sync(g)) = 0
  <2>1. 1 \in DOMAIN f.body /\ Names(f, Slot(1, 1, f.body[1])) /\ \A i \in {0, 1} : f.slots[i] = BadSlot
    BY <1>4, <1>6 DEF Blank
  <2> HIDE DEF f, g
  <2> QED BY <1>3, <1>7, <2>1, FirstHeader, Zenon
<1> HIDE DEF v, f, g
<1>9. /\ g.slots[0] \in SlotType /\ g.slots[0].seq = 1 /\ g.slots[0].man = 1
      /\ g.slots[0].crc.refs = << >> /\ Names(g, g.slots[0])
  BY <1>1, <1>5, <1>8
<1> QED BY <1>3, <1>4, <1>8, <1>9 DEF f, g

-----------------------------------------------------------------------------
(* The engine *)

\* A handle points into the body of its file, so that what it names cannot
\* change while the file only grows.
Within(fs, h) == h.off \in DOMAIN fs[h.ino].body

AllWithin(fs, list) == \A i \in DOMAIN list : Within(fs, list[i])

\* Without a running engine there is no lock holder, snapshot or handle, and
\* each step of open() finds the file as the step before left it.
PhaseInv ==
    /\ phase # "up" =>
          /\ pc = "idle" /\ ssts = << >>
          /\ \A t \in Txs : snaps[t] = NoSnapshot
    /\ phase = "boot" => BrandNew(files[path])
    /\ phase = "boot_written" => Bootstrapped(files[path])
    /\ phase \in {"boot_header", "recover"} => ManifestReadable(files[path])

HandlesInv ==
    /\ AllWithin(files, ssts)
    /\ \A t \in Txs : snaps[t] # NoSnapshot => AllWithin(files, snaps[t].ssts)

\* Every SSTable a manifest lists lies before the WAL region it starts, so
\* that cutting a torn log never cuts a table.
ManifestsInv == \A i \in Inodes : ManifestsSound(files[i])

\* The engine writes to the file its own SSTables are in, except between the
\* two halves of a compaction's swap.
CurrentInv ==
    phase = "up" /\ pc # "swapped" => \A i \in DOMAIN ssts : ssts[i].ino = cw.file

\* What flush and compact_all hold in their locals.  The file a compaction
\* builds is nobody else's until it is swapped in.
JobInv ==
    /\ pc = "rotated" => imms # << >>
    /\ pc \in {"rotated", "flush_written", "header_written", "header_synced", "swapped"}
          => job.ino = cw.file
    /\ pc \in {"flush_written", "header_written", "header_synced", "built", "renamed",
               "dir_synced", "swapped"} => Within(files, job)
    /\ pc = "flush_written" => job.off + 1 \in DOMAIN files[job.ino].body
    /\ pc \in {"built", "renamed", "dir_synced"} =>
          /\ job.ino # cw.file
          /\ \A i \in DOMAIN ssts : ssts[i].ino # job.ino
          /\ \A t \in Txs : snaps[t] # NoSnapshot =>
                \A i \in DOMAIN snaps[t].ssts : snaps[t].ssts[i].ino # job.ino

\* No write transaction outlives its hold on writer_lock.
WriterInv == pc = "idle" => snaps[Writer] = NoSnapshot

IInv == TypeOK /\ PhaseInv /\ HandlesInv /\ ManifestsInv /\ CurrentInv /\ JobInv /\ WriterInv

\* What a step does to the snapshots that stay open: they are the same and the
\* files they read from have at most grown.
Stable ==
    \A t \in Txs : snaps[t] # NoSnapshot /\ snaps'[t] # NoSnapshot =>
        /\ snaps'[t] = snaps[t]
        /\ \A i \in DOMAIN snaps[t].ssts :
              Grows(files[snaps[t].ssts[i].ino], files'[snaps[t].ssts[i].ino])

-----------------------------------------------------------------------------
(* Facts about states *)

LEMMA StateTypes ==
  ASSUME TypeOK
  PROVE  /\ active \in Layer /\ imms \in Seq(Immutable) /\ ssts \in Seq(Handle)
         /\ \A i \in DOMAIN ssts : ssts[i] \in Handle
         /\ \A t \in Txs : snaps[t] # NoSnapshot =>
               /\ snaps[t] \in SnapshotType
               /\ \A i \in DOMAIN snaps[t].ssts : snaps[t].ssts[i] \in Handle
         /\ \A i \in Inodes : files[i] \in FileType
<1>1. active \in Layer /\ imms \in Seq(Immutable) /\ ssts \in Seq(Handle)
  BY DEF TypeOK, Snapshot, SnapshotType
<1>2. ASSUME NEW t \in Txs, snaps[t] # NoSnapshot
      PROVE  snaps[t] \in SnapshotType /\ snaps[t].ssts \in Seq(Handle)
  <2>1. snaps[t] \in SnapshotType
    BY <1>2 DEF TypeOK
  <2> QED BY <2>1 DEF SnapshotType
<1>3. \A i \in Inodes : files[i] \in FileType
  BY DEF TypeOK
<1> QED BY <1>1, <1>2, <1>3, SeqElements

LEMMA SnapshotTyped ==
  ASSUME NEW a \in Layer, NEW m \in Seq(Immutable), NEW s \in Seq(Handle)
  PROVE  [active |-> a, imms |-> m, ssts |-> s] \in SnapshotType
  BY DEF SnapshotType

LEMMA HandleFields ==
  ASSUME NEW h \in Handle
  PROVE  h.gen \in Nat /\ h.ino \in Inodes /\ h.off \in Nat
  BY DEF Handle

LEMMA HandleTyped ==
  ASSUME NEW g \in Nat, NEW i \in Inodes, NEW o \in Nat
  PROVE  [gen |-> g, ino |-> i, off |-> o] \in Handle
  BY DEF Handle

LEMMA WithinGrows ==
  ASSUME NEW fs, NEW gs, NEW h, Within(fs, h), Grows(fs[h.ino], gs[h.ino])
  PROVE  Within(gs, h)
  BY DEF Within, Grows

\* Replacing a file by a longer one lets every file grow.
LEMMA OneGrows ==
  ASSUME TypeOK, ManifestsInv, NEW i \in Inodes, NEW f \in FileType, ManifestsSound(f),
         Grows(files[i], f), files' = [files EXCEPT ![i] = f]
  PROVE  /\ files' \in [Inodes -> FileType] /\ ManifestsInv'
         /\ \A j \in Inodes : Grows(files[j], files'[j])
         /\ files'[i] = f
<1>1. files \in [Inodes -> FileType]
  BY DEF TypeOK
<1>2. \A j \in Inodes : files'[j] = IF j = i THEN f ELSE files[j]
  BY <1>1
<1>3. files' \in [Inodes -> FileType]
  BY <1>1
<1>4. \A j \in Inodes : Grows(files[j], files'[j])
  BY <1>2, SameBodyGrows
<1> QED BY <1>2, <1>3, <1>4 DEF ManifestsInv

\* The part of the invariant that a running engine keeps when nobody opens a
\* snapshot except on the current lists and no file in use loses anything.
LEMMA UpStep ==
  ASSUME IInv, phase = "up", phase' = "up", TypeOK', AllWithin(files', ssts'),
         \A t \in Txs : \/ snaps'[t] = snaps[t] \/ snaps'[t] = NoSnapshot
                        \/ snaps[t] = NoSnapshot /\ snaps'[t].ssts = ssts,
         \A t \in Txs : snaps'[t] # NoSnapshot =>
            \A i \in DOMAIN snaps'[t].ssts :
               Grows(files[snaps'[t].ssts[i].ino], files'[snaps'[t].ssts[i].ino])
  PROVE  PhaseInv' /\ HandlesInv' /\ Stable
<1>1. PhaseInv'
  BY DEF PhaseInv
<1>2. ASSUME NEW t \in Txs, snaps'[t] # NoSnapshot PROVE AllWithin(files', snaps'[t].ssts)
  <2>1. AllWithin(files, snaps'[t].ssts)
    BY <1>2 DEF IInv, HandlesInv
  <2> SUFFICES ASSUME NEW i \in DOMAIN snaps'[t].ssts PROVE Within(files', snaps'[t].ssts[i])
    BY DEF AllWithin
  <2>2. Within(files, snaps'[t].ssts[i])
    BY <2>1 DEF AllWithin
  <2>3. Grows(files[snaps'[t].ssts[i].ino], files'[snaps'[t].ssts[i].ino])
    BY <1>2
  <2> QED BY <2>2, <2>3 DEF Within, Grows
<1>3. HandlesInv'
  BY <1>2 DEF HandlesInv
<1>4. Stable
  BY DEF Stable
<1> QED BY <1>1, <1>3, <1>4

LEMMA AllGrow ==
  ASSUME IInv, phase = "up", phase' = "up", TypeOK', ssts' = ssts,
         \A t \in Txs : \/ snaps'[t] = snaps[t] \/ snaps'[t] = NoSnapshot
                        \/ snaps[t] = NoSnapshot /\ snaps'[t].ssts = ssts,
         \A j \in Inodes : Grows(files[j], files'[j])
  PROVE  PhaseInv' /\ HandlesInv' /\ Stable
<1>1. AllWithin(files', ssts')
  <2> SUFFICES ASSUME NEW i \in DOMAIN ssts PROVE Within(files', ssts[i])
    BY DEF AllWithin
  <2>1. Within(files, ssts[i]) /\ ssts[i].ino \in Inodes
    BY StateTypes, HandleFields DEF IInv, HandlesInv, AllWithin
  <2> QED BY <2>1, WithinGrows
<1>2. ASSUME NEW t \in Txs, snaps'[t] # NoSnapshot, NEW i \in DOMAIN snaps'[t].ssts
      PROVE  snaps'[t].ssts[i].ino \in Inodes
  BY <1>2, StateTypes, HandleFields DEF IInv
<1> QED BY <1>1, <1>2, UpStep

-----------------------------------------------------------------------------
(* Steps that leave the files alone *)

\* Taking a snapshot opens the files of the current SSTables.
LEMMA BeginReadStep ==
  ASSUME IInv, NEW r \in Readers, BeginRead(r)
  PROVE  IInv' /\ Stable
<1> USE DEF IInv
<1>1. /\ phase = "up" /\ phase' = "up" /\ files' = files /\ ssts' = ssts /\ imms' = imms
      /\ pc' = pc /\ job' = job /\ cw' = cw /\ path' = path /\ snaps[r] = NoSnapshot
      /\ snaps' = [snaps EXCEPT ![r] = Snapshot] /\ r \in Txs /\ r # Writer
  BY LsmAssumption DEF BeginRead, mem, disk, thread, Txs
<1>2. \A t \in Txs : snaps'[t] = IF t = r THEN Snapshot ELSE snaps[t]
  BY <1>1 DEF TypeOK
<1>3. TypeOK'
  <2>1. snaps' \in [Txs -> SnapshotType \cup {NoSnapshot}]
    BY <1>1 DEF TypeOK
  <2>2. UNCHANGED << mem, disk, thread, history, phase, cw, pc, pending, verdict >>
    BY DEF BeginRead
  <2> QED BY <2>1, <2>2 DEF TypeOK, Snapshot, mem, disk, thread, history
<1>4. Snapshot.ssts = ssts
  BY DEF Snapshot
<1>5. PhaseInv' /\ HandlesInv' /\ Stable
  BY <1>1, <1>2, <1>3, <1>4, AllGrow, SameBodyGrows
<1>6. ManifestsInv' /\ CurrentInv'
  BY <1>1 DEF ManifestsInv, CurrentInv
<1>7. JobInv'
  BY <1>1, <1>2, <1>4 DEF JobInv
<1>8. WriterInv'
  BY <1>1, <1>2 DEF WriterInv, Txs
<1> QED BY <1>3, <1>5, <1>6, <1>7, <1>8

LEMMA BeginWriteStep ==
  ASSUME IInv, BeginWrite
  PROVE  IInv' /\ Stable
<1> USE DEF IInv
<1>1. /\ phase = "up" /\ phase' = "up" /\ files' = files /\ ssts' = ssts /\ cw' = cw
      /\ pc = "idle" /\ pc' = "tx" /\ snaps[Writer] = NoSnapshot
      /\ snaps' = [snaps EXCEPT ![Writer] = Snapshot] /\ Writer \in Txs
  BY DEF BeginWrite, mem, disk, Txs, WriterInv
<1>2. \A t \in Txs : snaps'[t] = IF t = Writer THEN Snapshot ELSE snaps[t]
  BY <1>1 DEF TypeOK
<1>3. TypeOK'
  <2>1. snaps' \in [Txs -> SnapshotType \cup {NoSnapshot}]
    BY <1>1 DEF TypeOK
  <2>2. /\ UNCHANGED << mem, disk, force, job, history, phase, cw, verdict >>
        /\ pc' = "tx" /\ op' = "commit" /\ pending' = EmptyLayer
    BY DEF BeginWrite
  <2> QED BY <2>1, <2>2, EmptyLayerType DEF TypeOK, Snapshot, mem, disk, history, PCs
<1>4. Snapshot.ssts = ssts
  BY DEF Snapshot
<1>5. PhaseInv' /\ HandlesInv' /\ Stable
  BY <1>1, <1>2, <1>3, <1>4, AllGrow, SameBodyGrows
<1>6. ManifestsInv' /\ CurrentInv' /\ JobInv' /\ WriterInv'
  BY <1>1 DEF ManifestsInv, CurrentInv, JobInv, WriterInv
<1> QED BY <1>3, <1>5, <1>6

-----------------------------------------------------------------------------
(* Steps of the holder of writer_lock *)

\* The points of the lock holder at which flush and compact_all hold no file.
PlainPCs == {"idle", "tx", "wal_written", "logged", "flush", "compact"}

LEMMA ReturningSnaps ==
  ASSUME TypeOK, Returning \/ (snaps' = snaps /\ pc' # "idle")
  PROVE  /\ snaps' \in [Txs -> SnapshotType \cup {NoSnapshot}]
         /\ \A t \in Txs : snaps'[t] = IF t = Writer /\ pc' = "idle" THEN NoSnapshot ELSE snaps[t]
<1>1. Writer \in Txs /\ snaps \in [Txs -> SnapshotType \cup {NoSnapshot}]
  BY DEF Txs, TypeOK
<1>2. CASE Returning
  BY <1>1, <1>2 DEF Returning
<1>3. CASE snaps' = snaps /\ pc' # "idle"
  BY <1>1, <1>3
<1> QED BY <1>2, <1>3

LEMMA PlainStep ==
  ASSUME IInv, phase = "up", phase' = "up", TypeOK', ManifestsInv', ssts' = ssts,
         cw'.file = cw.file, pc # "swapped", pc' \in PlainPCs,
         \A j \in Inodes : Grows(files[j], files'[j]),
         \A t \in Txs : snaps'[t] = IF t = Writer /\ pc' = "idle" THEN NoSnapshot ELSE snaps[t]
  PROVE  IInv' /\ Stable
<1> USE DEF IInv
<1>1. PhaseInv' /\ HandlesInv' /\ Stable
  BY AllGrow
<1>2. CurrentInv' /\ JobInv'
  BY DEF CurrentInv, JobInv, PlainPCs
<1>3. WriterInv'
  BY DEF WriterInv, Txs
<1> QED BY <1>1, <1>2, <1>3

LEMMA QuietStep ==
  ASSUME IInv, phase = "up", phase' = "up", TypeOK', files' = files, ssts' = ssts,
         cw' = cw, pc # "swapped", pc' \in PlainPCs,
         \A t \in Txs : snaps'[t] = IF t = Writer /\ pc' = "idle" THEN NoSnapshot ELSE snaps[t]
  PROVE  IInv' /\ Stable
<1>1. ManifestsInv'
  BY DEF IInv, ManifestsInv
<1>2. \A j \in Inodes : Grows(files[j], files'[j])
  BY SameBodyGrows
<1>3. cw'.file = cw.file
  OBVIOUS
<1> QED BY <1>1, <1>2, <1>3, PlainStep

LEMMA BufferStep ==
  ASSUME IInv, NEW k \in Keys, NEW e \in Values \cup {Tombstone}, Buffer(k, e)
  PROVE  IInv' /\ Stable
<1>1. /\ UNCHANGED << mem, disk, thread, history, phase, cw, pc, snaps, verdict >>
      /\ phase = "up" /\ pc = "tx" /\ pending' = [pending EXCEPT ![k] = e]
  BY DEF Buffer
<1>2. pending' \in Layer
  BY <1>1 DEF IInv, TypeOK, Layer, Entry
<1>3. TypeOK'
  BY <1>1, <1>2 DEF IInv, TypeOK, Snapshot, mem, disk, thread, history
<1> QED BY <1>1, <1>3, QuietStep DEF PlainPCs, mem, disk

LEMMA RollbackStep ==
  ASSUME IInv, Rollback
  PROVE  IInv' /\ Stable
<1>1. /\ UNCHANGED << mem, disk, thread, history, phase, cw, verdict >>
      /\ phase = "up" /\ pc = "tx" /\ pc' = "idle" /\ pending' = EmptyLayer /\ Returning
  BY DEF Rollback
<1>2. /\ snaps' \in [Txs -> SnapshotType \cup {NoSnapshot}]
      /\ \A t \in Txs : snaps'[t] = IF t = Writer /\ pc' = "idle" THEN NoSnapshot ELSE snaps[t]
  BY <1>1, ReturningSnaps DEF IInv
<1>3. TypeOK'
  BY <1>1, <1>2, EmptyLayerType DEF IInv, TypeOK, Snapshot, mem, disk, thread, history, PCs
<1> QED BY <1>1, <1>2, <1>3, QuietStep DEF PlainPCs, mem, disk

LEMMA ApplyStep ==
  ASSUME IInv, Apply
  PROVE  IInv' /\ Stable
<1>1. /\ UNCHANGED << imms, ssts, nextId, walStart, disk, thread, faults, ops, crashes,
                      phase, cw, verdict >>
      /\ phase = "up" /\ pc = "logged" /\ pc' \in {"flush", "idle"}
      /\ pending' = EmptyLayer /\ Returning
      /\ active' = Overlay(active, pending)
      /\ committed' = Live(Overlay(committed, pending))
  BY DEF Apply
<1>2. /\ snaps' \in [Txs -> SnapshotType \cup {NoSnapshot}]
      /\ \A t \in Txs : snaps'[t] = IF t = Writer /\ pc' = "idle" THEN NoSnapshot ELSE snaps[t]
  BY <1>1, ReturningSnaps DEF IInv
<1>3. active' \in Layer /\ committed' \in View
  <2>1. active \in Layer /\ pending \in Layer /\ committed \in Layer
    BY StateTypes, ViewIsLayer DEF IInv, TypeOK
  <2> QED BY <1>1, <2>1, OverlayType, LiveType
<1>4. Snapshot' \in SnapshotType
  BY <1>1, <1>3, StateTypes, SnapshotTyped DEF IInv, Snapshot
<1>5. TypeOK'
  BY <1>1, <1>2, <1>3, <1>4, EmptyLayerType DEF IInv, TypeOK, disk, thread, PCs
<1> QED BY <1>1, <1>2, <1>5, QuietStep DEF PlainPCs, disk

LEMMA ForceCompactStep ==
  ASSUME IInv, ForceCompact
  PROVE  IInv' /\ Stable
<1>1. /\ UNCHANGED << mem, disk, force, job, committed, faults, crashes, phase, cw,
                      pending, snaps, verdict >>
      /\ phase = "up" /\ pc = "idle" /\ pc' = "flush" /\ op' = "force_compact"
      /\ ops' = ops + 1 /\ ops < MaxOps
  BY DEF ForceCompact
<1>2. TypeOK'
  BY <1>1, LsmAssumption DEF IInv, TypeOK, Snapshot, mem, disk, PCs
<1> QED BY <1>1, <1>2, QuietStep DEF PlainPCs, mem, disk

LEMMA CompactSkipStep ==
  ASSUME IInv, CompactSkip
  PROVE  IInv' /\ Stable
<1>1. /\ UNCHANGED << mem, disk, op, job, history, phase, cw, pending, verdict >>
      /\ phase = "up" /\ pc = "compact" /\ pc' \in {"compact", "idle"} /\ force' = TRUE
      /\ Returning
  BY DEF CompactSkip, AfterCompact
<1>2. /\ snaps' \in [Txs -> SnapshotType \cup {NoSnapshot}]
      /\ \A t \in Txs : snaps'[t] = IF t = Writer /\ pc' = "idle" THEN NoSnapshot ELSE snaps[t]
  BY <1>1, ReturningSnaps DEF IInv
<1>3. TypeOK'
  BY <1>1, <1>2 DEF IInv, TypeOK, Snapshot, mem, disk, history, PCs
<1> QED BY <1>1, <1>2, <1>3, QuietStep DEF PlainPCs, mem, disk

LEMMA FlushRotateStep ==
  ASSUME IInv, FlushRotate
  PROVE  IInv' /\ Stable
<1>1. /\ UNCHANGED << disk, op, history, phase, cw, pending, verdict >>
      /\ phase = "up" /\ pc = "flush" /\ Returning
  BY DEF FlushRotate
<1>2. /\ snaps' \in [Txs -> SnapshotType \cup {NoSnapshot}]
      /\ \A t \in Txs : snaps'[t] = IF t = Writer /\ pc' = "idle" THEN NoSnapshot ELSE snaps[t]
  BY <1>1, ReturningSnaps DEF IInv
<1>3. CASE active = EmptyLayer
  <2>1. /\ UNCHANGED << mem, job >>
        /\ pc' \in {"compact", "idle"} /\ force' \in BOOLEAN
    BY <1>3 DEF FlushRotate, AfterFlush, IInv, TypeOK
  <2>2. TypeOK'
    BY <1>1, <1>2, <2>1 DEF IInv, TypeOK, Snapshot, mem, disk, history, PCs
  <2> QED BY <1>1, <1>2, <2>1, <2>2, QuietStep DEF PlainPCs, mem, disk
<1>4. CASE active # EmptyLayer
  <2>1. /\ UNCHANGED << ssts, walStart, force >>
        /\ imms' = Append(imms, [id |-> nextId, data |-> active])
        /\ active' = EmptyLayer /\ pc' = "rotated" /\ nextId' = nextId + 1
        /\ job' = [gen |-> nextId, ino |-> cw.file, off |-> 0]
    BY <1>4 DEF FlushRotate
  <2>2. nextId \in Nat /\ cw.file \in Inodes /\ active \in Layer /\ imms \in Seq(Immutable)
    BY StateTypes DEF IInv, TypeOK
  <2>3. imms' \in Seq(Immutable) /\ imms' # << >>
    <3>1. [id |-> nextId, data |-> active] \in Immutable
      BY <2>2 DEF Immutable
    <3> QED BY <2>1, <2>2, <3>1
  <2>4. job' \in Handle /\ job'.ino = cw.file
    BY <2>1, <2>2, HandleTyped
  <2>5. Snapshot' \in SnapshotType
    BY <2>1, <2>3, EmptyLayerType, StateTypes, SnapshotTyped DEF IInv, Snapshot
  <2>6. TypeOK'
    BY <1>1, <1>2, <2>1, <2>2, <2>4, <2>5 DEF IInv, TypeOK, disk, history, PCs
  <2>7. PhaseInv' /\ HandlesInv' /\ Stable
    BY <1>1, <1>2, <2>1, <2>6, AllGrow, SameBodyGrows DEF disk
  <2>8. ManifestsInv' /\ CurrentInv' /\ WriterInv'
    BY <1>1, <2>1 DEF IInv, ManifestsInv, CurrentInv, WriterInv, disk
  <2>9. JobInv'
    BY <1>1, <2>1, <2>3, <2>4 DEF JobInv
  <2> QED BY <2>6, <2>7, <2>8, <2>9 DEF IInv
<1> QED BY <1>3, <1>4

\* rename and the sync of the directory change what a crash finds, not what
\* the engine holds.
LEMMA CompactRenameStep ==
  ASSUME IInv, CompactRename \/ CompactSyncDir
  PROVE  IInv' /\ Stable
<1>1. /\ UNCHANGED << mem, files, thread, history, phase, cw, pending, snaps, verdict >>
      /\ phase = "up" /\ pc \in {"built", "renamed"} /\ pc' \in {"renamed", "dir_synced"}
      /\ path' \in Inodes /\ dpath' \in Inodes
  BY HandleFields DEF CompactRename, CompactSyncDir, IInv, TypeOK
<1>2. TypeOK'
  BY <1>1 DEF IInv, TypeOK, Snapshot, mem, thread, history, PCs
<1>3. PhaseInv' /\ HandlesInv' /\ Stable
  BY <1>1, <1>2, AllGrow, SameBodyGrows DEF mem
<1>4. ManifestsInv' /\ CurrentInv' /\ WriterInv'
  BY <1>1 DEF IInv, ManifestsInv, CurrentInv, WriterInv, mem
<1>5. JobInv'
  BY <1>1 DEF IInv, JobInv, mem, thread
<1> QED BY <1>2, <1>3, <1>4, <1>5 DEF IInv

LEMMA CompactSwapStep ==
  ASSUME IInv, CompactSwap
  PROVE  IInv' /\ Stable
<1>1. /\ UNCHANGED << mem, disk, thread, history, phase, pending, snaps, verdict >>
      /\ phase = "up" /\ pc = "dir_synced" /\ pc' = "swapped"
      /\ cw' = [file |-> job.ino, seq |-> 1, slot |-> 0]
  BY DEF CompactSwap
<1>2. TypeOK'
  BY <1>1, HandleFields DEF IInv, TypeOK, Snapshot, mem, disk, thread, history, PCs
<1>3. PhaseInv' /\ HandlesInv' /\ Stable
  BY <1>1, <1>2, AllGrow, SameBodyGrows DEF mem, disk
<1>4. ManifestsInv' /\ CurrentInv' /\ WriterInv'
  BY <1>1 DEF IInv, ManifestsInv, CurrentInv, WriterInv, mem, disk
<1>5. JobInv'
  BY <1>1 DEF IInv, JobInv, mem, thread, disk
<1> QED BY <1>2, <1>3, <1>4, <1>5 DEF IInv

LEMMA WithoutType ==
  ASSUME NEW S, NEW list \in Seq(S), NEW id
  PROVE  Without(list, id) \in Seq(S)
<1>1. CASE \E i \in DOMAIN list : list[i].id = id
  <2> DEFINE at == CHOOSE i \in DOMAIN list : list[i].id = id
  <2>1. at \in DOMAIN list
    BY <1>1
  <2>2. Without(list, id) = SubSeq(list, 1, at - 1) \o SubSeq(list, at + 1, Len(list))
    BY <1>1 DEF Without
  <2> HIDE DEF at
  <2>3. at \in 1..Len(list) /\ Len(list) \in Nat
    BY <2>1
  <2>4. SubSeq(list, 1, at - 1) \in Seq(S) /\ SubSeq(list, at + 1, Len(list)) \in Seq(S)
    BY <2>3
  <2> QED BY <2>2, <2>4
<1>2. CASE ~ \E i \in DOMAIN list : list[i].id = id
  BY <1>2 DEF Without
<1> QED BY <1>1, <1>2

LEMMA FlushPublishStep ==
  ASSUME IInv, FlushPublish
  PROVE  IInv' /\ Stable
<1>1. /\ UNCHANGED << active, nextId, disk, op, job, history, phase, cw, pending, verdict >>
      /\ phase = "up" /\ pc = "header_synced" /\ pc' \in {"compact", "idle"}
      /\ force' \in BOOLEAN /\ Returning
      /\ ssts' = Append(ssts, job) /\ imms' = Without(imms, job.gen) /\ walStart' = job.off + 2
  BY DEF FlushPublish, AfterFlush, IInv, TypeOK
<1>2. /\ snaps' \in [Txs -> SnapshotType \cup {NoSnapshot}]
      /\ \A t \in Txs : snaps'[t] = IF t = Writer /\ pc' = "idle" THEN NoSnapshot ELSE snaps[t]
  BY <1>1, ReturningSnaps DEF IInv
<1>3. ssts \in Seq(Handle) /\ job \in Handle /\ imms \in Seq(Immutable) /\ job.off \in Nat
  BY StateTypes, HandleFields DEF IInv, TypeOK
<1>4. /\ ssts' \in Seq(Handle)
      /\ \A i \in DOMAIN ssts' : ssts'[i] = job \/ (i \in DOMAIN ssts /\ ssts'[i] = ssts[i])
  BY <1>1, <1>3
<1>5. Snapshot' \in SnapshotType
  BY <1>1, <1>3, <1>4, StateTypes, WithoutType, SnapshotTyped DEF IInv, Snapshot
<1>6. TypeOK'
  BY <1>1, <1>2, <1>3, <1>5 DEF IInv, TypeOK, disk, history, PCs
<1>7. AllWithin(files', ssts')
  BY <1>1, <1>4 DEF IInv, HandlesInv, AllWithin, JobInv, disk
<1>8. PhaseInv' /\ HandlesInv' /\ Stable
  <2>1. \A i : Grows(files[i], files'[i])
    BY <1>1, SameBodyGrows DEF disk
  <2> QED BY <1>1, <1>2, <1>6, <1>7, <2>1, UpStep
<1>9. ManifestsInv' /\ JobInv'
  BY <1>1 DEF IInv, ManifestsInv, JobInv, disk
<1>10. CurrentInv'
  BY <1>1, <1>4 DEF IInv, CurrentInv, JobInv
<1>11. WriterInv'
  BY <1>1, <1>2 DEF WriterInv, Txs
<1> QED BY <1>6, <1>8, <1>9, <1>10, <1>11 DEF IInv

-----------------------------------------------------------------------------
(* Steps that write to the current file *)

LEMMA CurrentFile ==
  ASSUME IInv
  PROVE  /\ cw.file \in Inodes /\ cw.seq \in Nat /\ cw.slot \in {0, 1}
         /\ files[cw.file] \in FileType /\ ManifestsSound(files[cw.file])
  BY DEF IInv, TypeOK, ManifestsInv

LEMMA WalAppendStep ==
  ASSUME IInv, WalAppend
  PROVE  IInv' /\ Stable
<1> DEFINE f == AppendExtent(files[cw.file], Frame(pending))
<1>1. /\ UNCHANGED << mem, path, dpath, thread, committed, faults, crashes, phase, cw,
                      pending, snaps, verdict >>
      /\ phase = "up" /\ pc = "tx" /\ pc' = "wal_written" /\ ops' = ops + 1 /\ ops < MaxOps
      /\ files' = [files EXCEPT ![cw.file] = f]
  BY DEF WalAppend
<1>2. f \in FileType /\ ManifestsSound(f) /\ Grows(files[cw.file], f)
  <2>1. Frame(pending) \in Extent /\ ManifestSound(Frame(pending))
    BY ExtentTypes, ExtentsSound DEF IInv, TypeOK
  <2> QED BY <2>1, CurrentFile, AppendExtentOK, AppendGrows
<1> HIDE DEF f
<1>3. /\ files' \in [Inodes -> FileType] /\ ManifestsInv'
      /\ \A j \in Inodes : Grows(files[j], files'[j])
  BY <1>1, <1>2, CurrentFile, OneGrows DEF IInv
<1>4. TypeOK'
  BY <1>1, <1>3, LsmAssumption DEF IInv, TypeOK, Snapshot, mem, thread, PCs
<1> QED BY <1>1, <1>3, <1>4, PlainStep DEF PlainPCs, mem

LEMMA WalSyncStep ==
  ASSUME IInv, WalSync
  PROVE  IInv' /\ Stable
<1> DEFINE f == Sync(files[cw.file])
<1>1. /\ UNCHANGED << mem, path, dpath, thread, history, phase, cw, pending, snaps, verdict >>
      /\ phase = "up" /\ pc = "wal_written" /\ pc' = "logged"
      /\ files' = [files EXCEPT ![cw.file] = f]
  BY DEF WalSync
<1>2. f \in FileType /\ ManifestsSound(f) /\ Grows(files[cw.file], f)
  BY CurrentFile, SyncOK, SameBodyGrows
<1> HIDE DEF f
<1>3. /\ files' \in [Inodes -> FileType] /\ ManifestsInv'
      /\ \A j \in Inodes : Grows(files[j], files'[j])
  BY <1>1, <1>2, CurrentFile, OneGrows DEF IInv
<1>4. TypeOK'
  BY <1>1, <1>3 DEF IInv, TypeOK, Snapshot, mem, thread, history, PCs
<1> QED BY <1>1, <1>3, <1>4, PlainStep DEF PlainPCs, mem

\* The manifest a flush writes lists tables of this file only, all of them
\* before its own WAL region.
LEMMA FlushWriteStep ==
  ASSUME IInv, FlushWrite
  PROVE  IInv' /\ Stable
<1> DEFINE f    == files[cw.file]
           off  == Len(f.body) + 1
           refs == [i \in DOMAIN ssts |-> [gen |-> ssts[i].gen, off |-> ssts[i].off]]
           all  == Append(refs, [gen |-> job.gen, off |-> off])
           man  == Manifest(nextId, all, off + 2)
           blob == Blob(job.gen, imms[Len(imms)].data)
           f1   == AppendExtent(f, blob)
           f2   == AppendExtent(f1, man)
<1>1. /\ UNCHANGED << mem, path, dpath, op, force, history, phase, cw, pending,
                      snaps, verdict >>
      /\ phase = "up" /\ pc = "rotated" /\ pc' = "flush_written"
      /\ files' = [files EXCEPT ![cw.file] = f2] /\ job' = [job EXCEPT !.off = off]
  BY DEF FlushWrite
<1>2. f.body \in Seq(Extent) /\ Len(f.body) \in Nat /\ off \in Nat
  BY CurrentFile, FileFields
<1>3. /\ ssts \in Seq(Handle) /\ imms \in Seq(Immutable) /\ nextId \in Nat
      /\ job \in Handle /\ job.gen \in Nat /\ imms # << >> /\ job.ino = cw.file
  BY <1>1, StateTypes, HandleFields DEF IInv, TypeOK, JobInv
<1>4. blob \in Extent /\ ManifestSound(blob)
  <2>1. imms[Len(imms)] \in Immutable
    BY <1>3
  <2>2. imms[Len(imms)].data \in Layer
    BY <2>1 DEF Immutable
  <2> QED BY <1>3, <2>2, ExtentTypes, ExtentsSound
<1>5. \A i \in DOMAIN ssts : ssts[i].gen \in Nat /\ ssts[i].off \in Nat /\ ssts[i].off < off
  <2> SUFFICES ASSUME NEW i \in DOMAIN ssts
               PROVE  ssts[i].gen \in Nat /\ ssts[i].off \in Nat /\ ssts[i].off < off
    OBVIOUS
  <2>1. ssts[i].gen \in Nat /\ ssts[i].off \in Nat
    BY StateTypes, HandleFields DEF IInv
  <2>2. ssts[i].off \in DOMAIN f.body
    BY <1>1 DEF IInv, HandlesInv, AllWithin, Within, CurrentInv
  <2> QED BY <1>2, <2>1, <2>2
<1> HIDE DEF off, blob
<1>6. refs \in Seq([gen : Nat, off : Nat]) /\ \A i \in DOMAIN refs : refs[i].off < off
  <2>1. refs \in [1..Len(ssts) -> [gen : Nat, off : Nat]] /\ Len(ssts) \in Nat
    BY <1>3, <1>5
  <2>2. refs \in Seq([gen : Nat, off : Nat])
    BY <2>1, SeqOfFunction
  <2> QED BY <2>2, <1>5
<1>7. /\ all \in Seq([gen : Nat, off : Nat])
      /\ \A i \in DOMAIN all : all[i].off < off + 2
  <2> DEFINE last == [gen |-> job.gen, off |-> off]
             R == [gen : Nat, off : Nat]
  <2>1. last \in R /\ last.off < off + 2
    BY <1>2, <1>3
  <2>2. refs \in Seq(R) /\ \A i \in DOMAIN refs : refs[i].off < off + 2
    <3>1. ASSUME NEW i \in DOMAIN refs PROVE refs[i].off < off + 2
      <4>1. refs[i].off \in Nat /\ refs[i].off < off
        BY <1>5, <1>6
      <4> QED BY <1>2, <4>1
    <3> QED BY <1>6, <3>1
  <2> HIDE DEF refs, last, R
  <2>3. /\ Append(refs, last) \in Seq(R)
        /\ \A i \in DOMAIN Append(refs, last) :
              Append(refs, last)[i] = last \/ (i \in DOMAIN refs /\ Append(refs, last)[i] = refs[i])
    BY <2>1, <2>2
  <2> QED BY <2>1, <2>2, <2>3 DEF last, R
<1> HIDE DEF all, refs
<1>8. man \in Extent /\ ManifestSound(man)
  <2>1. off + 2 \in Nat \ {0}
    BY <1>2
  <2> QED BY <1>3, <1>7, <2>1, ExtentTypes, ExtentsSound
<1> HIDE DEF man
<1>9. f1 \in FileType /\ ManifestsSound(f1) /\ Grows(f, f1) /\ f1.body = Append(f.body, blob)
  BY <1>4, CurrentFile, AppendExtentOK, AppendGrows
<1>10. f2 \in FileType /\ ManifestsSound(f2) /\ Grows(f1, f2) /\ f2.body = Append(f1.body, man)
  <2> HIDE DEF f1
  <2> QED BY <1>8, <1>9, AppendExtentOK, AppendGrows
<1>11. off \in DOMAIN f2.body /\ off + 1 \in DOMAIN f2.body
  <2> HIDE DEF f, f1, f2
  <2>1. f1.body \in Seq(Extent) /\ Len(f1.body) = Len(f.body) + 1
    BY <1>2, <1>4, <1>9
  <2>2. Len(f2.body) = Len(f.body) + 2 /\ f2.body \in Seq(Extent)
    BY <1>8, <1>10, <2>1
  <2> QED BY <1>2, <2>2 DEF off
<1>12. Grows(f, f2)
  BY <1>9, <1>10, GrowsTransitive
<1> HIDE DEF f1, f2
<1>13. /\ files' \in [Inodes -> FileType] /\ ManifestsInv' /\ files'[cw.file] = f2
       /\ \A j \in Inodes : Grows(files[j], files'[j])
  BY <1>1, <1>10, <1>12, CurrentFile, OneGrows DEF IInv
<1>14. job' \in Handle /\ job'.off = off /\ job'.ino = cw.file
  BY <1>1, <1>2, <1>3 DEF Handle
<1>15. TypeOK'
  BY <1>1, <1>13, <1>14 DEF IInv, TypeOK, Snapshot, mem, history, PCs
<1>16. PhaseInv' /\ HandlesInv' /\ Stable
  BY <1>1, <1>13, <1>15, AllGrow DEF mem
<1>17. CurrentInv' /\ WriterInv'
  BY <1>1 DEF IInv, CurrentInv, WriterInv, mem
<1>18. JobInv'
  BY <1>1, <1>11, <1>13, <1>14 DEF JobInv, Within
<1> QED BY <1>13, <1>15, <1>16, <1>17, <1>18 DEF IInv

\* The file with the header of the flush in progress.
LEMMA FlushHeaderFile ==
  ASSUME IInv, pc = "flush_written"
  PROVE  LET f == files[cw.file]
             g == PutHeader(Sync(f), cw.seq, cw.slot, job.off + 1)
         IN  g \in FileType /\ ManifestsSound(g) /\ g.body = f.body
<1> DEFINE f == files[cw.file]
           s == Sync(f)
           off == job.off + 1
<1>1. s \in FileType /\ ManifestsSound(s) /\ s.body = f.body
  BY CurrentFile, SyncOK
<1>2. off \in DOMAIN s.body
  BY <1>1 DEF IInv, JobInv
<1> HIDE DEF s, off
<1>3. /\ PutHeader(s, cw.seq, cw.slot, off) \in FileType
      /\ PutHeader(s, cw.seq, cw.slot, off).body = s.body
      /\ ManifestsSound(s) => ManifestsSound(PutHeader(s, cw.seq, cw.slot, off))
  <2>1. cw.seq \in Nat /\ cw.slot \in {0, 1} /\ s \in FileType
    BY <1>1, CurrentFile
  <2>2. PutHeader(s, cw.seq, cw.slot, off) \in FileType
    BY <1>2, <2>1, PutHeaderOK, Zenon
  <2>3. PutHeader(s, cw.seq, cw.slot, off).body = s.body
    BY <2>1 DEF PutHeader, FileType
  <2>4. ManifestsSound(s) => ManifestsSound(PutHeader(s, cw.seq, cw.slot, off))
    BY <1>2, <2>1, PutHeaderOK, Zenon
  <2> QED BY <2>2, <2>3, <2>4
<1> QED BY <1>1, <1>3 DEF s, off

LEMMA FlushHeaderStep ==
  ASSUME IInv, FlushHeader
  PROVE  IInv' /\ Stable
<1> DEFINE f == PutHeader(Sync(files[cw.file]), cw.seq, cw.slot, job.off + 1)
<1>1. /\ UNCHANGED << mem, path, dpath, thread, history, phase, cw, pending, snaps, verdict >>
      /\ phase = "up" /\ pc = "flush_written" /\ pc' = "header_written"
      /\ files' = [files EXCEPT ![cw.file] = f]
  BY DEF FlushHeader
<1>2. f \in FileType /\ ManifestsSound(f) /\ Grows(files[cw.file], f)
  BY <1>1, FlushHeaderFile, SameBodyGrows
<1> HIDE DEF f
<1>3. /\ files' \in [Inodes -> FileType] /\ ManifestsInv'
      /\ \A j \in Inodes : Grows(files[j], files'[j])
  BY <1>1, <1>2, CurrentFile, OneGrows DEF IInv
<1>4. TypeOK'
  BY <1>1, <1>3 DEF IInv, TypeOK, Snapshot, mem, thread, history, PCs
<1>5. PhaseInv' /\ HandlesInv' /\ Stable
  BY <1>1, <1>3, <1>4, AllGrow DEF mem
<1>6. CurrentInv' /\ WriterInv'
  BY <1>1 DEF IInv, CurrentInv, WriterInv, mem
<1>7. JobInv'
  <2>1. Within(files, job) /\ job.ino = cw.file /\ cw.file \in Inodes
    BY <1>1, CurrentFile DEF IInv, JobInv
  <2>2. Within(files', job)
    BY <1>3, <2>1, WithinGrows
  <2> QED BY <1>1, <2>1, <2>2 DEF JobInv, thread
<1> QED BY <1>3, <1>4, <1>5, <1>6, <1>7 DEF IInv

LEMMA FlushHeaderSyncStep ==
  ASSUME IInv, FlushHeaderSync
  PROVE  IInv' /\ Stable
<1> DEFINE f == Sync(files[cw.file])
<1>1. /\ UNCHANGED << mem, path, dpath, thread, history, phase, pending, snaps, verdict >>
      /\ phase = "up" /\ pc = "header_written" /\ pc' = "header_synced"
      /\ files' = [files EXCEPT ![cw.file] = f]
      /\ cw' = [cw EXCEPT !.seq = @ + 1, !.slot = 1 - @]
  BY DEF FlushHeaderSync
<1>2. f \in FileType /\ ManifestsSound(f) /\ Grows(files[cw.file], f)
  BY CurrentFile, SyncOK, SameBodyGrows
<1> HIDE DEF f
<1>3. /\ files' \in [Inodes -> FileType] /\ ManifestsInv'
      /\ \A j \in Inodes : Grows(files[j], files'[j])
  BY <1>1, <1>2, CurrentFile, OneGrows DEF IInv
<1>4. cw' \in [file : Inodes, seq : Nat, slot : {0, 1}] /\ cw'.file = cw.file
  <2> DEFINE seq == cw.seq + 1
             slot == 1 - cw.slot
  <2>1. cw \in [file : Inodes, seq : Nat, slot : {0, 1}]
    BY DEF IInv, TypeOK
  <2>2. seq \in Nat /\ slot \in {0, 1} /\ cw' = [cw EXCEPT !.seq = seq, !.slot = slot]
    BY <1>1, CurrentFile
  <2> HIDE DEF seq, slot
  <2> QED BY <2>1, <2>2
<1>5. TypeOK'
  BY <1>1, <1>3, <1>4 DEF IInv, TypeOK, Snapshot, mem, thread, history, PCs
<1>6. PhaseInv' /\ HandlesInv' /\ Stable
  BY <1>1, <1>3, <1>5, AllGrow DEF mem
<1>7. CurrentInv' /\ WriterInv'
  BY <1>1, <1>4 DEF IInv, CurrentInv, WriterInv, mem
<1>8. JobInv'
  <2>1. Within(files, job) /\ job.ino = cw.file /\ cw.file \in Inodes
    BY <1>1, CurrentFile DEF IInv, JobInv
  <2>2. Within(files', job)
    BY <1>3, <2>1, WithinGrows
  <2> QED BY <1>1, <1>4, <2>1, <2>2 DEF JobInv, thread
<1> QED BY <1>3, <1>5, <1>6, <1>7, <1>8 DEF IInv

-----------------------------------------------------------------------------
(* I/O errors *)

LEMMA FailsFacts ==
  ASSUME IInv, NEW point, Fails(point)
  PROVE  /\ phase = "up" /\ phase' = "up" /\ pc' = "idle"
         /\ faults' \subseteq IoFaults
         /\ UNCHANGED << committed, crashes, cw, verdict >>
         /\ snaps' \in [Txs -> SnapshotType \cup {NoSnapshot}]
         /\ \A t \in Txs : snaps'[t] = IF t = Writer /\ pc' = "idle" THEN NoSnapshot ELSE snaps[t]
<1>1. Returning /\ faults' = faults \cup {point} /\ point \in IoFaults
  BY DEF Fails
<1>2. faults \subseteq IoFaults
  BY DEF IInv, TypeOK
<1>3. /\ snaps' \in [Txs -> SnapshotType \cup {NoSnapshot}]
      /\ \A t \in Txs : snaps'[t] = IF t = Writer /\ pc' = "idle" THEN NoSnapshot ELSE snaps[t]
  BY <1>1, ReturningSnaps DEF IInv
<1> QED BY <1>1, <1>2, <1>3 DEF Fails

\* An error that left the current file as it was or longer.
LEMMA FailedWrite ==
  ASSUME IInv, NEW point, Fails(point), NEW f \in FileType, ManifestsSound(f),
         Grows(files[cw.file], f), files' = [files EXCEPT ![cw.file] = f],
         UNCHANGED << mem, path, dpath, thread >>, pending' \in Layer, ops' \in 0..MaxOps,
         pc # "swapped"
  PROVE  IInv' /\ Stable
<1>1. /\ files' \in [Inodes -> FileType] /\ ManifestsInv'
      /\ \A j \in Inodes : Grows(files[j], files'[j])
  BY CurrentFile, OneGrows DEF IInv
<1>2. /\ phase = "up" /\ phase' = "up" /\ pc' = "idle"
      /\ faults' \subseteq IoFaults
      /\ UNCHANGED << committed, crashes, cw, verdict >>
      /\ snaps' \in [Txs -> SnapshotType \cup {NoSnapshot}]
      /\ \A t \in Txs : snaps'[t] = IF t = Writer /\ pc' = "idle" THEN NoSnapshot ELSE snaps[t]
  BY FailsFacts
<1>3. TypeOK'
  BY <1>1, <1>2 DEF IInv, TypeOK, Snapshot, mem, thread, PCs
<1> QED BY <1>1, <1>2, <1>3, PlainStep DEF PlainPCs, mem

LEMMA WalWriteFailsStep ==
  ASSUME IInv, WalWriteFails
  PROVE  IInv' /\ Stable
<1>1. /\ Fails("wal_write") /\ UNCHANGED << mem, path, dpath, thread >>
      /\ pc = "tx" /\ ops < MaxOps /\ ops' = ops + 1 /\ pending' = EmptyLayer
      /\ \/ files' = files
         \/ files' = [files EXCEPT ![cw.file] = AppendExtent(files[cw.file], Junk)]
  BY DEF WalWriteFails
<1>2. pending' \in Layer /\ ops' \in 0..MaxOps
  BY <1>1, EmptyLayerType, LsmAssumption DEF IInv, TypeOK
<1>3. PICK f \in FileType : /\ ManifestsSound(f) /\ Grows(files[cw.file], f)
                            /\ files' = [files EXCEPT ![cw.file] = f]
  <2>1. CASE files' = files
    <3>1. files = [files EXCEPT ![cw.file] = files[cw.file]]
      BY DEF IInv, TypeOK
    <3> QED BY <2>1, <3>1, CurrentFile, SameBodyGrows
  <2>2. CASE files' = [files EXCEPT ![cw.file] = AppendExtent(files[cw.file], Junk)]
    <3>1. /\ AppendExtent(files[cw.file], Junk) \in FileType
          /\ ManifestsSound(AppendExtent(files[cw.file], Junk))
          /\ Grows(files[cw.file], AppendExtent(files[cw.file], Junk))
      BY CurrentFile, ExtentTypes, ExtentsSound, AppendExtentOK, AppendGrows
    <3> QED BY <2>2, <3>1
  <2> QED BY <1>1, <2>1, <2>2
<1>4. pc # "swapped"
  BY <1>1
<1> QED BY <1>1, <1>2, <1>3, <1>4, FailedWrite

\* A flush that fails after some of its writes leaves a longer file.
LEMMA FlushWriteFailsStep ==
  ASSUME IInv, FlushWriteFails
  PROVE  IInv' /\ Stable
<1> DEFINE blob == Blob(job.gen, imms[Len(imms)].data)
           g == files[cw.file]
<1>1. /\ Fails("flush_write") /\ pc = "rotated"
      /\ UNCHANGED << mem, path, dpath, thread, pending, ops >>
  BY DEF FlushWriteFails
<1>2. PICK written \in { << >>, << Junk >>, << blob >>, << blob, Junk >> } :
         files' = [files EXCEPT ![cw.file].body = @ \o written]
  BY DEF FlushWriteFails
<1>3. blob \in Extent /\ ManifestSound(blob) /\ Junk \in Extent /\ ManifestSound(Junk)
  <2>1. imms \in Seq(Immutable) /\ imms # << >> /\ job.gen \in Nat
    BY <1>1, StateTypes, HandleFields DEF IInv, JobInv, TypeOK
  <2>2. imms[Len(imms)] \in Immutable
    BY <2>1
  <2>3. imms[Len(imms)].data \in Layer
    BY <2>2 DEF Immutable
  <2> QED BY <2>1, <2>3, ExtentTypes, ExtentsSound
<1> HIDE DEF blob
<1>4. written \in Seq(Extent) /\ \A n \in DOMAIN written : ManifestSound(written[n])
  <2>1. CASE written = << >>
    BY <2>1
  <2>2. CASE written = << Junk >>
    BY <1>3, <2>2
  <2>3. CASE written = << blob >>
    BY <1>3, <2>3
  <2>4. CASE written = << blob, Junk >>
    BY <1>3, <2>4
  <2> QED BY <1>2, <2>1, <2>2, <2>3, <2>4
<1> DEFINE b == g.body \o written
           f == [g EXCEPT !.body = b]
<1>5. files' = [files EXCEPT ![cw.file] = f]
  BY <1>2
<1>6. g.body \in Seq(Extent) /\ g \in FileType /\ ManifestsSound(g)
  BY CurrentFile, FileFields
<1>7. /\ b \in Seq(Extent) /\ DOMAIN g.body \subseteq DOMAIN b
      /\ \A n \in DOMAIN g.body : b[n] = g.body[n]
  BY <1>4, <1>6
<1>8. ASSUME NEW n \in DOMAIN b PROVE ManifestSound(b[n])
  <2>1. CASE n \in DOMAIN g.body
    BY <1>6, <1>7, <2>1 DEF ManifestsSound
  <2>2. CASE n \notin DOMAIN g.body
    <3>1. n - Len(g.body) \in DOMAIN written /\ b[n] = written[n - Len(g.body)]
      BY <1>4, <1>6, <2>2
    <3> QED BY <1>4, <3>1
  <2> QED BY <2>1, <2>2
<1> HIDE DEF b
<1>9. f \in FileType /\ f.body = b
  BY <1>6, <1>7 DEF FileType
<1>10. ManifestsSound(f) /\ Grows(g, f)
  <2> HIDE DEF f, g
  <2> QED BY <1>7, <1>8, <1>9 DEF ManifestsSound, Grows
<1> HIDE DEF f
<1>11. pending' \in Layer /\ ops' \in 0..MaxOps /\ pc # "swapped"
  BY <1>1 DEF IInv, TypeOK
<1> QED BY <1>1, <1>5, <1>9, <1>10, <1>11, FailedWrite

LEMMA FlushHeaderFailsStep ==
  ASSUME IInv, FlushHeaderFails
  PROVE  IInv' /\ Stable
<1> DEFINE f == files[cw.file]
           g == PutHeader(Sync(f), cw.seq, cw.slot, job.off + 1)
           k == 1 - cw.slot
           torn == [g EXCEPT !.slots[k] = BadSlot]
<1>1. /\ Fails("flush_header") /\ pc = "flush_written"
      /\ UNCHANGED << mem, path, dpath, thread, pending, ops >>
  BY DEF FlushHeaderFails
<1>2. PICK h \in {f, g, torn} : files' = [files EXCEPT ![cw.file] = h]
  BY DEF FlushHeaderFails
<1>3. f \in FileType /\ ManifestsSound(f)
  BY CurrentFile
<1>4. g \in FileType /\ ManifestsSound(g) /\ g.body = f.body
  BY <1>1, FlushHeaderFile
<1> HIDE DEF g, k
<1>5. torn \in FileType /\ torn.body = g.body
  BY <1>4, SlotTypes DEF FileType
<1>6. ManifestsSound(torn)
  <2> HIDE DEF torn
  <2> QED BY <1>4, <1>5 DEF ManifestsSound
<1> HIDE DEF torn
<1>7. h \in FileType /\ ManifestsSound(h) /\ Grows(f, h)
  BY <1>2, <1>3, <1>4, <1>5, <1>6, SameBodyGrows
<1>8. pending' \in Layer /\ ops' \in 0..MaxOps /\ pc # "swapped"
  BY <1>1 DEF IInv, TypeOK
<1> QED BY <1>1, <1>2, <1>7, <1>8, FailedWrite

\* Errors that leave every file as it was.
LEMMA QuietFailsStep ==
  ASSUME IInv, WalSyncFails \/ CompactBuildFails \/ CompactSyncDirFails
  PROVE  IInv' /\ Stable
<1>1. /\ \E point : Fails(point)
      /\ UNCHANGED << active, imms, ssts, walStart, disk, thread, ops >>
      /\ pending' \in Layer /\ nextId' \in Nat /\ pc # "swapped"
  BY EmptyLayerType DEF WalSyncFails, CompactBuildFails, CompactSyncDirFails, IInv, TypeOK, mem
<1>2. /\ phase = "up" /\ phase' = "up" /\ pc' = "idle"
      /\ faults' \subseteq IoFaults
      /\ UNCHANGED << committed, crashes, cw, verdict >>
      /\ snaps' \in [Txs -> SnapshotType \cup {NoSnapshot}]
      /\ \A t \in Txs : snaps'[t] = IF t = Writer /\ pc' = "idle" THEN NoSnapshot ELSE snaps[t]
  BY <1>1, FailsFacts
<1>3. TypeOK'
  BY <1>1, <1>2 DEF IInv, TypeOK, Snapshot, disk, thread, PCs
<1> QED BY <1>1, <1>2, <1>3, QuietStep DEF PlainPCs, disk

-----------------------------------------------------------------------------
(* Steps that let go of files, and compaction *)

LEMMA ReclaimOK ==
  ASSUME TypeOK, ManifestsInv, NEW used, NEW fs, fs = Reclaim(files, used)
  PROVE  /\ fs \in [Inodes -> FileType]
         /\ \A i \in Inodes : ManifestsSound(fs[i])
         /\ \A i \in Inodes : i \in used => fs[i] = files[i]
<1>1. \A i \in Inodes : fs[i] = IF i \in used THEN files[i] ELSE EmptyFile
  BY DEF Reclaim
<1>2. \A i \in Inodes : files[i] \in FileType /\ ManifestsSound(files[i])
  BY StateTypes DEF ManifestsInv
<1>3. fs = [i \in Inodes |-> fs[i]]
  BY DEF Reclaim
<1> QED BY <1>1, <1>2, <1>3, EmptyFileOK

LEMMA HeldInodes ==
  ASSUME NEW sn, NEW t \in Txs, sn[t] # NoSnapshot, NEW i \in DOMAIN sn[t].ssts
  PROVE  sn[t].ssts[i].ino \in HeldBy(sn)
  BY DEF HeldBy, Handles

LEMMA CurrentInodes ==
  ASSUME NEW i \in DOMAIN ssts
  PROVE  ssts[i].ino \in Handles(Snapshot)
  BY DEF Handles, Snapshot

LEMMA DropStep ==
  ASSUME IInv, NEW r \in Readers, phase = "up", DropSnapshot(r),
         UNCHANGED << mem, path, dpath, thread, history, phase, cw, pc, pending >>,
         verdict' \in {"none", "ok", "corruption"}
  PROVE  IInv' /\ Stable
<1> DEFINE used == HeldBy(snaps') \cup Handles(Snapshot) \cup {cw.file, path, dpath, job.ino}
<1>1. snaps' = [snaps EXCEPT ![r] = NoSnapshot] /\ files' = Reclaim(files, used) /\ r \in Txs
  BY DEF DropSnapshot, Txs
<1>2. \A t \in Txs : snaps'[t] = IF t = r THEN NoSnapshot ELSE snaps[t]
  BY <1>1 DEF IInv, TypeOK
<1>3. job.ino \in used /\ job.ino \in Inodes
  BY HandleFields DEF IInv, TypeOK
<1>4. \A i \in DOMAIN ssts : ssts[i].ino \in used /\ ssts[i].ino \in Inodes
  BY CurrentInodes, StateTypes, HandleFields DEF IInv
<1>5. \A t \in Txs : snaps'[t] # NoSnapshot =>
        \A i \in DOMAIN snaps'[t].ssts :
           snaps'[t].ssts[i].ino \in used /\ snaps'[t].ssts[i].ino \in Inodes
  <2> SUFFICES ASSUME NEW t \in Txs, snaps'[t] # NoSnapshot, NEW i \in DOMAIN snaps'[t].ssts
               PROVE  snaps'[t].ssts[i].ino \in used /\ snaps'[t].ssts[i].ino \in Inodes
    OBVIOUS
  <2>1. snaps'[t].ssts[i].ino \in HeldBy(snaps')
    BY HeldInodes
  <2>2. snaps'[t] = snaps[t]
    BY <1>2
  <2> QED BY <2>1, <2>2, StateTypes, HandleFields DEF IInv
<1> HIDE DEF used
<1>6. /\ files' \in [Inodes -> FileType] /\ ManifestsInv'
      /\ \A i \in Inodes : i \in used => files'[i] = files[i]
  BY <1>1, ReclaimOK DEF IInv, ManifestsInv
<1>7. TypeOK'
  <2>1. snaps' \in [Txs -> SnapshotType \cup {NoSnapshot}]
    BY <1>1 DEF IInv, TypeOK
  <2> QED BY <1>6, <2>1 DEF IInv, TypeOK, Snapshot, mem, thread, history
<1>8. AllWithin(files', ssts')
  BY <1>4, <1>6 DEF IInv, HandlesInv, AllWithin, Within, mem
<1>9. PhaseInv' /\ HandlesInv' /\ Stable
  BY <1>2, <1>5, <1>6, <1>7, <1>8, UpStep, SameBodyGrows
<1>10. CurrentInv' /\ WriterInv'
  BY <1>2 DEF IInv, CurrentInv, WriterInv, mem, Txs
<1>11. JobInv'
  <2>1. files'[job.ino] = files[job.ino]
    BY <1>3, <1>6
  <2> QED BY <1>2, <2>1 DEF IInv, JobInv, Within, mem, thread
<1> QED BY <1>6, <1>7, <1>9, <1>10, <1>11 DEF IInv

LEMMA EndReadStep ==
  ASSUME IInv, NEW r \in Readers, EndRead(r) \/ Verify(r)
  PROVE  IInv' /\ Stable
<1>1. /\ phase = "up" /\ DropSnapshot(r)
      /\ UNCHANGED << mem, path, dpath, thread, history, phase, cw, pc, pending >>
      /\ verdict' \in {"none", "ok", "corruption"}
  BY DEF EndRead, Verify, Verdict, IInv, TypeOK
<1> QED BY <1>1, DropStep

\* The file a compaction builds was in nobody's use.
LEMMA CompactBuildStep ==
  ASSUME IInv, NEW new \in Inodes, CompactBuild(new)
  PROVE  IInv' /\ Stable
<1> DEFINE tables == [n \in DOMAIN ssts |-> TableData(ssts[n])]
           f == FreshFile(nextId, Merged(tables))
<1>1. /\ UNCHANGED << active, imms, ssts, walStart, path, dpath, op, force, history,
                      phase, cw, pending, snaps, verdict >>
      /\ phase = "up" /\ pc = "compact" /\ pc' = "built" /\ FreeInode(new)
      /\ files' = [files EXCEPT ![new] = f] /\ nextId' = nextId + 1
      /\ job' = [gen |-> nextId, ino |-> new, off |-> 1]
  BY DEF CompactBuild
<1>2. nextId \in Nat /\ ssts \in Seq(Handle)
  BY StateTypes DEF IInv, TypeOK
<1>3. tables \in Seq(Layer)
  <2>1. \A n \in DOMAIN ssts : TableData(ssts[n]) \in Layer
    BY StateTypes, HandleFields, TableAtType DEF IInv, TableData
  <2>2. tables \in [1..Len(ssts) -> Layer] /\ Len(ssts) \in Nat
    BY <1>2, <2>1
  <2> HIDE DEF tables
  <2> QED BY <2>2, SeqOfFunction
<1> HIDE DEF tables
<1>4. f \in FileType /\ ManifestsSound(f) /\ 1 \in DOMAIN f.body
  BY <1>2, <1>3, MergedType, ViewIsLayer, FreshFileOK
<1> HIDE DEF f
<1>5. /\ files' \in [Inodes -> FileType] /\ ManifestsInv' /\ files'[new] = f
      /\ \A i \in Inodes : i # new => files'[i] = files[i]
  BY <1>1, <1>4 DEF IInv, TypeOK, ManifestsInv
<1>6. job' \in Handle /\ job'.ino = new /\ Within(files', job')
  BY <1>1, <1>2, <1>4, <1>5, HandleTyped DEF Within
<1>7. new # cw.file /\ \A i \in DOMAIN ssts : ssts[i].ino # new /\ ssts[i].ino \in Inodes
  BY <1>1, CurrentInodes, StateTypes, HandleFields DEF FreeInode, IInv
<1>8. \A t \in Txs : snaps[t] # NoSnapshot => \A i \in DOMAIN snaps[t].ssts :
         snaps[t].ssts[i].ino # new /\ snaps[t].ssts[i].ino \in Inodes
  BY <1>1, HeldInodes, StateTypes, HandleFields DEF FreeInode, IInv
<1>9. TypeOK'
  BY <1>1, <1>2, <1>5, <1>6 DEF IInv, TypeOK, Snapshot, history, PCs
<1>10. AllWithin(files', ssts')
  BY <1>1, <1>5, <1>7 DEF IInv, HandlesInv, AllWithin, Within
<1>11. PhaseInv' /\ HandlesInv' /\ Stable
  BY <1>1, <1>5, <1>8, <1>9, <1>10, UpStep, SameBodyGrows
<1>12. CurrentInv' /\ WriterInv'
  BY <1>1 DEF IInv, CurrentInv, WriterInv
<1>13. JobInv'
  BY <1>1, <1>6, <1>7, <1>8 DEF JobInv
<1> QED BY <1>5, <1>9, <1>11, <1>12, <1>13 DEF IInv

LEMMA CompactRenameFailsStep ==
  ASSUME IInv, CompactRenameFails
  PROVE  IInv' /\ Stable
<1>1. /\ Fails("compact_rename") /\ pc = "built"
      /\ files' = [files EXCEPT ![job.ino] = EmptyFile]
      /\ UNCHANGED << mem, path, dpath, thread, pending, ops >>
  BY DEF CompactRenameFails
<1>2. /\ phase = "up" /\ phase' = "up" /\ pc' = "idle"
      /\ faults' \subseteq IoFaults
      /\ UNCHANGED << committed, crashes, cw, verdict >>
      /\ snaps' \in [Txs -> SnapshotType \cup {NoSnapshot}]
      /\ \A t \in Txs : snaps'[t] = IF t = Writer /\ pc' = "idle" THEN NoSnapshot ELSE snaps[t]
  BY <1>1, FailsFacts
<1>3. /\ files' \in [Inodes -> FileType] /\ ManifestsInv'
      /\ \A i \in Inodes : i # job.ino => files'[i] = files[i]
  BY <1>1, EmptyFileOK, HandleFields DEF IInv, TypeOK, ManifestsInv
<1>4. \A i \in DOMAIN ssts : ssts[i].ino # job.ino /\ ssts[i].ino \in Inodes
  BY <1>1, StateTypes, HandleFields DEF IInv, JobInv
<1>5. \A t \in Txs : snaps[t] # NoSnapshot => \A i \in DOMAIN snaps[t].ssts :
         snaps[t].ssts[i].ino # job.ino /\ snaps[t].ssts[i].ino \in Inodes
  BY <1>1, StateTypes, HandleFields DEF IInv, JobInv
<1>6. TypeOK'
  BY <1>1, <1>2, <1>3 DEF IInv, TypeOK, Snapshot, mem, thread, PCs
<1>7. AllWithin(files', ssts')
  BY <1>1, <1>3, <1>4 DEF IInv, HandlesInv, AllWithin, Within, mem
<1>8. PhaseInv' /\ HandlesInv' /\ Stable
  BY <1>1, <1>2, <1>3, <1>5, <1>6, <1>7, UpStep, SameBodyGrows
<1>9. CurrentInv' /\ WriterInv' /\ JobInv'
  BY <1>1, <1>2 DEF IInv, CurrentInv, WriterInv, JobInv, mem, Txs
<1> QED BY <1>3, <1>6, <1>8, <1>9 DEF IInv

LEMMA CompactPublishStep ==
  ASSUME IInv, CompactPublish
  PROVE  IInv' /\ Stable
<1> DEFINE used == HeldBy(snaps') \cup {cw.file, path, dpath}
<1>1. /\ UNCHANGED << active, imms, path, dpath, op, job, history, phase, cw, pending, verdict >>
      /\ phase = "up" /\ pc = "swapped" /\ pc' \in {"compact", "idle"} /\ force' = TRUE
      /\ Returning /\ ssts' = << job >> /\ walStart' = 3 /\ nextId' = job.gen + 1
      /\ files' = Reclaim(files, used)
  BY DEF CompactPublish, AfterCompact
<1>2. /\ snaps' \in [Txs -> SnapshotType \cup {NoSnapshot}]
      /\ \A t \in Txs : snaps'[t] = IF t = Writer /\ pc' = "idle" THEN NoSnapshot ELSE snaps[t]
  BY <1>1, ReturningSnaps DEF IInv
<1>3. /\ job \in Handle /\ job.ino = cw.file /\ job.gen \in Nat
      /\ cw.file \in Inodes /\ cw.file \in used
  BY <1>1, HandleFields, CurrentFile DEF IInv, TypeOK, JobInv
<1>4. \A t \in Txs : snaps'[t] # NoSnapshot =>
        \A i \in DOMAIN snaps'[t].ssts :
           snaps'[t].ssts[i].ino \in used /\ snaps'[t].ssts[i].ino \in Inodes
  <2> SUFFICES ASSUME NEW t \in Txs, snaps'[t] # NoSnapshot, NEW i \in DOMAIN snaps'[t].ssts
               PROVE  snaps'[t].ssts[i].ino \in used /\ snaps'[t].ssts[i].ino \in Inodes
    OBVIOUS
  <2>1. snaps'[t].ssts[i].ino \in HeldBy(snaps')
    BY HeldInodes
  <2>2. snaps'[t] = snaps[t]
    BY <1>2
  <2> QED BY <2>1, <2>2, StateTypes, HandleFields DEF IInv
<1> HIDE DEF used
<1>5. /\ files' \in [Inodes -> FileType] /\ ManifestsInv'
      /\ \A i \in Inodes : i \in used => files'[i] = files[i]
  BY <1>1, ReclaimOK DEF IInv, ManifestsInv
<1>6. Snapshot' \in SnapshotType
  <2>1. ssts' \in Seq(Handle)
    BY <1>1, <1>3
  <2> QED BY <1>1, <2>1, StateTypes, SnapshotTyped DEF IInv, Snapshot
<1>7. TypeOK'
  BY <1>1, <1>2, <1>3, <1>5, <1>6 DEF IInv, TypeOK, history, PCs
<1>8. AllWithin(files', ssts')
  <2>1. Within(files, job)
    BY <1>1 DEF IInv, JobInv
  <2>2. Within(files', job)
    BY <1>3, <1>5, <2>1 DEF Within
  <2> QED BY <1>1, <2>2 DEF AllWithin
<1>9. PhaseInv' /\ HandlesInv' /\ Stable
  BY <1>1, <1>2, <1>4, <1>5, <1>7, <1>8, UpStep, SameBodyGrows
<1>10. CurrentInv' /\ JobInv'
  BY <1>1, <1>3 DEF CurrentInv, JobInv
<1>11. WriterInv'
  BY <1>1, <1>2 DEF WriterInv, Txs
<1> QED BY <1>5, <1>7, <1>9, <1>10, <1>11 DEF IInv

-----------------------------------------------------------------------------
(* open() *)

LEMMA DownStep ==
  ASSUME IInv, phase # "up", phase' # "up", TypeOK', ManifestsInv',
         UNCHANGED << ssts, pc, snaps >>,
         phase' = "boot" => BrandNew(files'[path']),
         phase' = "boot_written" => Bootstrapped(files'[path']),
         phase' \in {"boot_header", "recover"} => ManifestReadable(files'[path'])
  PROVE  IInv' /\ Stable
<1>1. pc = "idle" /\ ssts = << >> /\ \A t \in Txs : snaps[t] = NoSnapshot
  BY DEF IInv, PhaseInv
<1>2. PhaseInv'
  BY <1>1 DEF PhaseInv
<1>3. HandlesInv'
  BY <1>1 DEF HandlesInv, AllWithin
<1>4. CurrentInv' /\ JobInv' /\ WriterInv'
  BY <1>1 DEF CurrentInv, JobInv, WriterInv, Txs
<1>5. Stable
  BY <1>1 DEF Stable
<1> QED BY <1>2, <1>3, <1>4, <1>5 DEF IInv

LEMMA PathFile ==
  ASSUME IInv
  PROVE  path \in Inodes /\ files[path] \in FileType /\ ManifestsSound(files[path])
  BY DEF IInv, TypeOK, ManifestsInv

LEMMA PathWritten ==
  ASSUME IInv, NEW f \in FileType, ManifestsSound(f), files' = [files EXCEPT ![path] = f]
  PROVE  files' \in [Inodes -> FileType] /\ ManifestsInv' /\ files'[path] = f
<1>1. files \in [Inodes -> FileType] /\ path \in Inodes
  BY DEF IInv, TypeOK
<1>2. \A j \in Inodes : files'[j] = IF j = path THEN f ELSE files[j]
  BY <1>1
<1>3. files' \in [Inodes -> FileType]
  BY <1>1
<1> QED BY <1>1, <1>2, <1>3 DEF IInv, ManifestsInv

LEMMA OpenFileStep ==
  ASSUME IInv, OpenFile
  PROVE  IInv' /\ Stable
<1>1. /\ UNCHANGED << mem, disk, thread, history, pc, pending, snaps, verdict >>
      /\ phase # "up" /\ phase' \in {"boot", "recover", "failed"}
      /\ phase' = "boot" => BrandNew(files[path])
      /\ phase' = "recover" => ManifestReadable(files[path])
      /\ cw' = [file |-> path, seq |-> 0, slot |-> 1]
  BY DEF OpenFile
<1>2. TypeOK'
  BY <1>1 DEF IInv, TypeOK, Snapshot, mem, disk, thread, history, Phases
<1>3. ManifestsInv'
  BY <1>1 DEF IInv, ManifestsInv, disk
<1> QED BY <1>1, <1>2, <1>3, DownStep DEF mem, disk

LEMMA BootManifestStep ==
  ASSUME IInv, BootManifest
  PROVE  IInv' /\ Stable
<1> DEFINE man == Manifest(1, << >>, 2)
           f == AppendExtent(files[path], man)
<1>1. /\ UNCHANGED << mem, path, dpath, thread, history, cw, pc, pending, snaps, verdict >>
      /\ phase = "boot" /\ phase' = "boot_written" /\ files' = [files EXCEPT ![path] = f]
  BY DEF BootManifest
<1>2. man \in Extent /\ ManifestSound(man) /\ man.kind = "manifest"
  <2>1. man \in Extent
    <3>1. 1 \in Nat /\ 2 \in Nat \ {0} /\ << >> \in Seq([gen : Nat, off : Nat])
      OBVIOUS
    <3> QED BY <3>1, ExtentTypes, Zenon
  <2>2. ManifestSound(man)
    BY DEF Manifest, ManifestSound
  <2> QED BY <2>1, <2>2 DEF Manifest
<1> HIDE DEF man
<1>3. /\ f \in FileType /\ ManifestsSound(f)
      /\ f.body = Append(files[path].body, man) /\ f.slots = files[path].slots
  BY <1>2, PathFile, AppendExtentOK
<1>4. Bootstrapped(f)
  <2>1. files[path].body = << >> /\ \A i \in {0, 1} : files[path].slots[i] = BadSlot
    BY <1>1 DEF IInv, PhaseInv, BrandNew
  <2>2. f.body = << man >>
    BY <1>3, <2>1
  <2> QED BY <1>2, <1>3, <2>1, <2>2 DEF Bootstrapped
<1> HIDE DEF f
<1>5. files' \in [Inodes -> FileType] /\ ManifestsInv' /\ files'[path] = f
  BY <1>1, <1>3, PathWritten
<1>6. TypeOK'
  BY <1>1, <1>5 DEF IInv, TypeOK, Snapshot, mem, thread, history, Phases
<1> QED BY <1>1, <1>4, <1>5, <1>6, DownStep DEF mem

LEMMA BootHeaderStep ==
  ASSUME IInv, BootHeader
  PROVE  IInv' /\ Stable
<1> DEFINE g == Sync(files[path])
           f == PutHeader(g, 0, 1, 1)
<1>1. /\ UNCHANGED << mem, path, dpath, thread, history, cw, pc, pending, snaps, verdict >>
      /\ phase = "boot_written" /\ phase' = "boot_header" /\ files' = [files EXCEPT ![path] = f]
  BY DEF BootHeader
<1>2. /\ g \in FileType /\ ManifestsSound(g)
      /\ g.body = files[path].body /\ g.slots = files[path].slots
  BY PathFile, SyncOK
<1>3. 1 \in DOMAIN g.body /\ g.body[1].kind = "manifest" /\ \A i \in {0, 1} : g.slots[i] = BadSlot
  BY <1>1, <1>2 DEF IInv, PhaseInv, Bootstrapped
<1> HIDE DEF g
<1>4. f \in FileType /\ ManifestsSound(f)
  <2>1. 0 \in Nat /\ 1 \in {0, 1} /\ g \in FileType
    BY <1>2
  <2>2. f \in FileType
    BY <1>3, <2>1, PutHeaderOK, Zenon
  <2>3. ManifestsSound(g) => ManifestsSound(f)
    BY <1>3, <2>1, PutHeaderOK, Zenon
  <2> QED BY <1>2, <2>2, <2>3
<1>5. f.body = g.body /\ f.slots = [g.slots EXCEPT ![0] = Slot(1, 1, g.body[1])]
  BY <1>2 DEF PutHeader, FileType
<1>6. ManifestReadable(f)
  <2>1. g.slots \in [{0, 1} -> SlotType]
    BY <1>2, FileFields
  <2>2. f.slots[0] = Slot(1, 1, g.body[1]) /\ f.slots[1] = BadSlot
    BY <1>3, <1>5, <2>1
  <2>3. ActiveSlot(f) = 0
    BY <2>2 DEF ActiveSlot, Slot, BadSlot
  <2> QED BY <1>3, <1>5, <2>2, <2>3 DEF ManifestReadable, Slot
<1> HIDE DEF f
<1>7. files' \in [Inodes -> FileType] /\ ManifestsInv' /\ files'[path] = f
  BY <1>1, <1>4, PathWritten
<1>8. TypeOK'
  BY <1>1, <1>7 DEF IInv, TypeOK, Snapshot, mem, thread, history, Phases
<1> QED BY <1>1, <1>6, <1>7, <1>8, DownStep DEF mem

LEMMA BootSyncStep ==
  ASSUME IInv, BootSync
  PROVE  IInv' /\ Stable
<1> DEFINE f == Sync(files[path])
<1>1. /\ UNCHANGED << mem, path, dpath, thread, history, cw, pc, pending, snaps, verdict >>
      /\ phase = "boot_header" /\ phase' = "recover" /\ files' = [files EXCEPT ![path] = f]
  BY DEF BootSync
<1>2. /\ f \in FileType /\ ManifestsSound(f)
      /\ f.body = files[path].body /\ f.slots = files[path].slots
  BY PathFile, SyncOK
<1>3. ManifestReadable(files[path])
  BY <1>1 DEF IInv, PhaseInv
<1> HIDE DEF f
<1>4. ManifestReadable(f)
  BY <1>2, <1>3 DEF ManifestReadable, ActiveSlot
<1>5. files' \in [Inodes -> FileType] /\ ManifestsInv' /\ files'[path] = f
  BY <1>1, <1>2, PathWritten
<1>6. TypeOK'
  BY <1>1, <1>5 DEF IInv, TypeOK, Snapshot, mem, thread, history, Phases
<1> QED BY <1>1, <1>4, <1>5, <1>6, DownStep DEF mem

\* Recovery builds its handles from the manifest and cuts the file behind all
\* of them.
LEMMA RecoverStep ==
  ASSUME IInv, Recover
  PROVE  IInv' /\ Stable
<1> DEFINE f    == files[path]
           man  == LiveManifest(f)
           refs == SortByGeneration(man.refs)
           end  == ValidEnd(f, man.walStart)
           g    == Truncate(f, end)
<1>1. /\ UNCHANGED << path, dpath, thread, committed, ops, crashes, pc, pending, snaps, verdict >>
      /\ phase = "recover"
  BY DEF Recover
<1>2. /\ f \in FileType /\ ManifestsSound(f) /\ path \in Inodes
      /\ ManifestReadable(f)
  BY <1>1, PathFile DEF IInv, PhaseInv
<1>3. /\ man.nextId \in Nat /\ man.walStart \in Nat \ {0}
      /\ man.refs \in Seq([gen : Nat, off : Nat])
      /\ \A i \in DOMAIN man.refs : man.refs[i].off < man.walStart
      /\ ActiveSlot(f) \in {0, 1} /\ f.slots[ActiveSlot(f)].seq \in Nat
  BY <1>2, LiveManifestOK, ExtentFields DEF ManifestSound
<1>4. CASE ~ RefsIntact(f, refs)
  <2>1. phase' = "failed" /\ UNCHANGED << files, mem, cw, faults >>
    BY <1>4 DEF Recover
  <2>2. TypeOK'
    BY <1>1, <2>1 DEF IInv, TypeOK, Snapshot, mem, thread, Phases
  <2>3. ManifestsInv'
    BY <2>1 DEF IInv, ManifestsInv
  <2> QED BY <1>1, <2>1, <2>2, <2>3, DownStep DEF mem
<1>5. CASE RefsIntact(f, refs)
  <2>1. /\ phase' = "up" /\ files' = [files EXCEPT ![path] = g]
        /\ active' = Flatten(Replayed(f, man.walStart)) /\ imms' = << >>
        /\ ssts' = [i \in DOMAIN refs |-> [gen |-> refs[i].gen, ino |-> path, off |-> refs[i].off]]
        /\ nextId' = man.nextId /\ walStart' = man.walStart
        /\ cw' = [file |-> path, seq |-> f.slots[ActiveSlot(f)].seq, slot |-> ActiveSlot(f)]
        /\ faults' = {}
    BY <1>5 DEF Recover
  <2>2. active' \in Layer
    BY <1>2, <1>3, <2>1, ReplayedType, FlattenType
  <2>3. end \in Nat /\ end >= man.walStart - 1
    BY <1>2, <1>3, ValidEndOK
  <2>4. /\ refs \in Seq([gen : Nat, off : Nat]) /\ DOMAIN refs = DOMAIN man.refs
        /\ \A n \in DOMAIN refs : \E i \in DOMAIN man.refs : refs[n] = man.refs[i]
    BY <1>3, SortOK
  <2>5. \A n \in DOMAIN refs : refs[n].off \in DOMAIN f.body
    BY <1>5 DEF RefsIntact, IsTable
  <2>6. \A n \in DOMAIN refs : refs[n] \in [gen : Nat, off : Nat]
    BY <2>4, SeqElements
  <2> HIDE DEF f, man, refs, end
  <2>7. /\ g \in FileType /\ ManifestsSound(g)
        /\ \A n \in DOMAIN f.body : n =< end => n \in DOMAIN g.body
    BY <1>2, <2>3, TruncateOK
  <2> HIDE DEF g
  <2>8. \A n \in DOMAIN refs : refs[n].off \in DOMAIN g.body
    <3> SUFFICES ASSUME NEW n \in DOMAIN refs PROVE refs[n].off \in DOMAIN g.body
      OBVIOUS
    <3>1. refs[n].off \in Nat
      BY <2>6
    <3>2. refs[n].off < man.walStart
      BY <1>3, <2>4
    <3>3. refs[n].off =< end
      BY <1>3, <2>3, <3>1, <3>2
    <3> QED BY <2>5, <2>7, <3>3
  <2>9. files' \in [Inodes -> FileType] /\ ManifestsInv' /\ files'[path] = g
    BY <2>1, <2>7, PathWritten DEF f
  <2>10. ssts' \in Seq(Handle)
    <3>1. ssts' \in [1..Len(refs) -> Handle] /\ Len(refs) \in Nat
      BY <1>2, <2>1, <2>4, <2>6, HandleTyped
    <3> QED BY <3>1, SeqOfFunction
  <2>11. Snapshot' \in SnapshotType
    <3>1. imms' \in Seq(Immutable)
      BY <2>1
    <3> QED BY <2>2, <2>10, <3>1, SnapshotTyped DEF Snapshot
  <2>12. TypeOK'
    BY <1>1, <1>2, <1>3, <2>1, <2>9, <2>11 DEF IInv, TypeOK, thread, Phases
  <2>13. pc' = "idle" /\ \A t \in Txs : snaps[t] = NoSnapshot /\ snaps'[t] = NoSnapshot
    BY <1>1 DEF IInv, PhaseInv
  <2>14. \A i \in DOMAIN ssts' : ssts'[i].ino = path /\ Within(files', ssts'[i])
    BY <2>1, <2>8, <2>9 DEF Within
  <2>15. PhaseInv' /\ HandlesInv' /\ Stable
    BY <2>1, <2>13, <2>14 DEF PhaseInv, HandlesInv, AllWithin, Stable
  <2>16. CurrentInv' /\ JobInv' /\ WriterInv'
    BY <2>1, <2>13, <2>14 DEF CurrentInv, JobInv, WriterInv, Txs
  <2> QED BY <2>9, <2>12, <2>15, <2>16 DEF IInv
<1> QED BY <1>4, <1>5

LEMMA CrashStep ==
  ASSUME IInv, Crash
  PROVE  IInv' /\ Stable
<1>1. PICK i \in {path, dpath} : \E f \in CrashImages(files[i]) :
          /\ files' = [Reclaim(files, {}) EXCEPT ![i] = f]
          /\ path' = i /\ dpath' = i
          /\ cw' = [file |-> i, seq |-> 0, slot |-> 1]
          /\ committed' = Stored(f)
  BY DEF Crash
<1>2. PICK f \in CrashImages(files[i]) :
          /\ files' = [Reclaim(files, {}) EXCEPT ![i] = f]
          /\ path' = i /\ dpath' = i
          /\ cw' = [file |-> i, seq |-> 0, slot |-> 1]
          /\ committed' = Stored(f)
  BY <1>1
<1>3. i \in Inodes /\ files[i] \in FileType /\ ManifestsSound(files[i])
  BY DEF IInv, TypeOK, ManifestsInv
<1>4. f \in FileType /\ ManifestsSound(f)
  BY <1>3, CrashImagesOK
<1>5. committed' \in View
  BY <1>2, <1>4, StoredType
<1> DEFINE fs == Reclaim(files, {})
<1>6. fs \in [Inodes -> FileType] /\ \A j \in Inodes : ManifestsSound(fs[j])
  BY ReclaimOK DEF IInv
<1>7. files' = [fs EXCEPT ![i] = f]
  BY <1>2
<1> HIDE DEF fs
<1>8. files' \in [Inodes -> FileType] /\ ManifestsInv'
  BY <1>3, <1>4, <1>6, <1>7 DEF ManifestsInv
<1>9. /\ phase' = "down" /\ active' = EmptyLayer /\ imms' = << >> /\ ssts' = << >>
      /\ nextId' = 1 /\ walStart' = 1 /\ pc' = "idle" /\ op' = "commit" /\ force' = FALSE
      /\ pending' = EmptyLayer /\ job' = NoJob(path') /\ snaps' = [t \in Txs |-> NoSnapshot]
      /\ verdict' = "none" /\ crashes' = crashes + 1 /\ crashes < MaxCrashes
      /\ UNCHANGED << faults, ops >>
  BY DEF Crash
<1>10. Snapshot' \in SnapshotType
  <2>1. imms' \in Seq(Immutable) /\ ssts' \in Seq(Handle)
    BY <1>9
  <2> QED BY <1>9, <2>1, EmptyLayerType, SnapshotTyped DEF Snapshot
<1>11. job' \in Handle
  BY <1>2, <1>3, <1>9, HandleTyped DEF NoJob
<1>12. TypeOK'
  <2>1. snaps' \in [Txs -> SnapshotType \cup {NoSnapshot}]
    BY <1>9
  <2>2. crashes' \in 0..MaxCrashes /\ ops' \in 0..MaxOps /\ faults' \subseteq IoFaults
    BY <1>9, LsmAssumption DEF IInv, TypeOK
  <2>3. cw' \in [file : Inodes, seq : Nat, slot : {0, 1}] /\ path' \in Inodes /\ dpath' \in Inodes
    BY <1>2, <1>3
  <2>4. /\ phase' \in Phases /\ nextId' \in Nat /\ walStart' \in Nat \ {0} /\ pc' \in PCs
        /\ op' \in {"commit", "force_compact"}
        /\ verdict' \in {"none", "ok", "corruption"} /\ pending' \in Layer
    BY <1>9, EmptyLayerType DEF Phases, PCs
  <2>5. force' \in BOOLEAN
    BY <1>9
  <2> QED BY <1>5, <1>8, <1>10, <1>11, <2>1, <2>2, <2>3, <2>4, <2>5 DEF TypeOK
<1>13. PhaseInv' /\ HandlesInv' /\ Stable
  BY <1>9 DEF PhaseInv, HandlesInv, AllWithin, Stable
<1>14. CurrentInv' /\ JobInv' /\ WriterInv'
  BY <1>9 DEF CurrentInv, JobInv, WriterInv, Txs
<1> QED BY <1>8, <1>12, <1>13, <1>14 DEF IInv

-----------------------------------------------------------------------------
(* The invariant and the theorems *)

LEMMA InitIInv == Init => IInv
<1> SUFFICES ASSUME Init PROVE IInv
  OBVIOUS
<1> USE DEF Init
<1>1. imms \in Seq(Immutable) /\ ssts \in Seq(Handle)
  OBVIOUS
<1>2. Snapshot \in SnapshotType
  BY <1>1, EmptyLayerType, SnapshotTyped DEF Snapshot
<1>3. job \in Handle
  BY HandleTyped DEF NoJob
<1>4. files \in [Inodes -> FileType] /\ ManifestsInv
  BY EmptyFileOK DEF ManifestsInv
<1>5. TypeOK
  <2>1. snaps \in [Txs -> SnapshotType \cup {NoSnapshot}]
    OBVIOUS
  <2>2. crashes \in 0..MaxCrashes /\ ops \in 0..MaxOps /\ faults \subseteq IoFaults
    BY LsmAssumption
  <2>3. cw \in [file : Inodes, seq : Nat, slot : {0, 1}] /\ path \in Inodes /\ dpath \in Inodes
    OBVIOUS
  <2>4. /\ phase \in Phases /\ nextId \in Nat /\ walStart \in Nat \ {0} /\ pc \in PCs
        /\ op \in {"commit", "force_compact"}
        /\ verdict \in {"none", "ok", "corruption"}
    BY DEF Phases, PCs
  <2>5. pending \in Layer /\ committed \in View
    BY EmptyLayerType, LiveType
  <2>6. force \in BOOLEAN
    OBVIOUS
  <2> QED BY <1>2, <1>3, <1>4, <2>1, <2>2, <2>3, <2>4, <2>5, <2>6 DEF TypeOK
<1>6. PhaseInv /\ HandlesInv /\ CurrentInv /\ JobInv /\ WriterInv
  BY DEF PhaseInv, HandlesInv, AllWithin, CurrentInv, JobInv, WriterInv, Txs
<1> QED BY <1>4, <1>5, <1>6 DEF IInv

LEMMA StutterStep ==
  ASSUME IInv, UNCHANGED vars
  PROVE  IInv' /\ Stable
<1> USE DEF vars, mem, disk, thread, history
<1>1. TypeOK' /\ PhaseInv' /\ HandlesInv' /\ ManifestsInv'
  BY DEF IInv, TypeOK, PhaseInv, HandlesInv, ManifestsInv, Snapshot
<1>2. CurrentInv' /\ JobInv' /\ WriterInv'
  BY DEF IInv, CurrentInv, JobInv, WriterInv
<1>3. Stable
  BY SameBodyGrows DEF Stable
<1> QED BY <1>1, <1>2, <1>3 DEF IInv

LEMMA NextIInv == IInv /\ [Next]_vars => IInv' /\ Stable
<1> SUFFICES ASSUME IInv, [Next]_vars PROVE IInv' /\ Stable
  OBVIOUS
<1>1. CASE Start
  BY <1>1, OpenFileStep, BootManifestStep, BootHeaderStep, BootSyncStep, RecoverStep DEF Start
<1>2. CASE \E r \in Readers : BeginRead(r) \/ EndRead(r) \/ Verify(r)
  BY <1>2, BeginReadStep, EndReadStep
<1>3. CASE BeginWrite \/ Rollback \/ ForceCompact
  BY <1>3, BeginWriteStep, RollbackStep, ForceCompactStep
<1>4. CASE \E k \in Keys, e \in Values \cup {Tombstone} : Buffer(k, e)
  BY <1>4, BufferStep
<1>5. CASE CommitStep
  BY <1>5, WalAppendStep, WalSyncStep, ApplyStep DEF CommitStep
<1>6. CASE FlushStep
  BY <1>6, FlushRotateStep, FlushWriteStep, FlushHeaderStep, FlushHeaderSyncStep,
     FlushPublishStep DEF FlushStep
<1>7. CASE CompactStep
  BY <1>7, CompactSkipStep, CompactBuildStep, CompactRenameStep, CompactSwapStep,
     CompactPublishStep DEF CompactStep
<1>8. CASE Fault
  BY <1>8, WalWriteFailsStep, QuietFailsStep, FlushWriteFailsStep, FlushHeaderFailsStep,
     CompactRenameFailsStep DEF Fault
<1>9. CASE Crash
  BY <1>9, CrashStep
<1>10. CASE UNCHANGED vars
  BY <1>10, StutterStep
<1> QED BY <1>1, <1>2, <1>3, <1>4, <1>5, <1>6, <1>7, <1>8, <1>9, <1>10 DEF Next

\* Every variable of the engine, down to the contents of every file, keeps its
\* type, whatever fails and whenever the process dies.
THEOREM LsmTypeOK == Spec => []TypeOK
<1>1. IInv => TypeOK
  BY DEF IInv
<1> QED BY <1>1, InitIInv, NextIInv, PTL DEF Spec

\* A snapshot whose files at most grew reads the same entries as before.
LEMMA ReadsKept ==
  ASSUME IInv, Stable, NEW t \in Txs, snaps[t] # NoSnapshot, snaps'[t] # NoSnapshot
  PROVE  Reads(snaps[t])' = Reads(snaps[t])
<1> DEFINE s == snaps[t]
<1>1. snaps'[t] = s
  BY DEF Stable
<1>2. ASSUME NEW i \in DOMAIN s.ssts
      PROVE  TableAt(files'[s.ssts[i].ino], s.ssts[i].off) =
             TableAt(files[s.ssts[i].ino], s.ssts[i].off)
  <2>1. Grows(files[s.ssts[i].ino], files'[s.ssts[i].ino])
    BY DEF Stable
  <2>2. s.ssts[i].off \in DOMAIN files[s.ssts[i].ino].body
    BY DEF IInv, HandlesInv, AllWithin, Within
  <2> QED BY <2>1, <2>2, TableKept
<1>3. Stack(snaps[t])' = [i \in DOMAIN s.ssts |-> TableAt(files'[s.ssts[i].ino], s.ssts[i].off)]
          \o [i \in DOMAIN s.imms |-> s.imms[i].data] \o << s.active >>
  BY <1>1 DEF Stack, TableData
<1>4. Stack(snaps[t]) = [i \in DOMAIN s.ssts |-> TableAt(files[s.ssts[i].ino], s.ssts[i].off)]
          \o [i \in DOMAIN s.imms |-> s.imms[i].data] \o << s.active >>
  BY DEF Stack, TableData
<1>5. [i \in DOMAIN s.ssts |-> TableAt(files'[s.ssts[i].ino], s.ssts[i].off)] =
      [i \in DOMAIN s.ssts |-> TableAt(files[s.ssts[i].ino], s.ssts[i].off)]
  BY <1>2
<1>6. Stack(snaps[t])' = Stack(snaps[t])
  BY <1>3, <1>4, <1>5
<1>7. Merged(Stack(snaps[t]))' = Merged(Stack(snaps[t])')
  BY DEF Merged, Live, Flatten, Newest, Holding
<1> QED BY <1>6, <1>7 DEF Reads

\* An open snapshot reads the same entries for as long as it is open: whatever
\* is committed, flushed, compacted or unlinked meanwhile and whichever I/O
\* calls fail, what get, range and scan return on it does not change.
THEOREM LsmSnapshotsStable == Spec => SnapshotsStable
<1>1. IInv /\ Stable =>
        \A r \in Txs : snaps[r] # NoSnapshot /\ snaps'[r] # NoSnapshot
                          => Reads(snaps[r])' = Reads(snaps[r])
  BY ReadsKept
<1> QED BY <1>1, InitIInv, NextIInv, PTL DEF Spec, SnapshotsStable

-----------------------------------------------------------------------------
(* The disk *)

\* The handle leads to the table of its generation.
TableIn(fs, h) == IsTable(fs[h.ino], h.off) /\ fs[h.ino].body[h.off].gen = h.gen

\* The SSTables are in the order of their generations, every one older than
\* the next, and every handle leads to its table.
ListsInv ==
    /\ InOrder(ssts)
    /\ \A i \in DOMAIN ssts : ssts[i].gen < nextId /\ TableIn(files, ssts[i])
    /\ \A t \in Txs : snaps[t] # NoSnapshot =>
          \A i \in DOMAIN snaps[t].ssts : TableIn(files, snaps[t].ssts[i])

\* The points of flush at which the rotated memtable is still in memory.
FlushPCs == {"rotated", "flush_written", "header_written", "header_synced"}

\* The header slot a flush is about to write.
NewSlot == Slot(cw.seq + 1, job.off + 1, files[cw.file].body[job.off + 1])

\* A flush adds the newest generation; its blob and manifest are complete
\* before its header, and the header slot it writes is the one not in use.
FlushInv ==
    /\ pc \in FlushPCs => job.gen < nextId /\ \A i \in DOMAIN ssts : ssts[i].gen < job.gen
    /\ pc \in {"flush_written", "header_written", "header_synced", "built", "renamed",
               "dir_synced", "swapped"} => TableIn(files, job)
    /\ pc \in {"flush_written", "header_written"} => Names(files[cw.file], NewSlot)
    /\ pc = "header_written" =>
          /\ files[cw.file].slots[1 - cw.slot] = NewSlot
          /\ job.off + 1 =< files[cw.file].synced

\* Whatever the database path may name after a crash can be opened: the file
\* the engine writes, the file a failed directory sync left under the path, and
\* the file a compaction is about to rename.
DurableInv ==
    phase = "up" =>
        /\ Durable(files[cw.file], cw.slot) /\ files[cw.file].slots[cw.slot].seq = cw.seq
        /\ \A i \in {path, dpath} : i = cw.file \/ Durable(files[i], 0)
        /\ pc = "built" => job.ino \notin {path, dpath}
        /\ pc \in {"renamed", "dir_synced"} => path = job.ino
        /\ pc = "dir_synced" => dpath = job.ino
        /\ pc \in {"built", "renamed", "dir_synced"} =>
              Durable(files[job.ino], 0) /\ files[job.ino].slots[0].seq = 1

\* A file at rest is all on disk, and open() accepts it unless the very first
\* open of the database never finished.
RestInv ==
    phase # "up" =>
        /\ dpath = path
        /\ phase \in {"down", "failed", "recover"} => Clean(files[path])
        /\ phase \in {"down", "failed"} =>
              \/ Durable(files[path], ActiveSlot(files[path]))
              \/ ops = 0 /\ Blank(files[path])
        /\ phase = "recover" => Durable(files[path], ActiveSlot(files[path]))
        /\ phase \in {"failed", "boot", "boot_written", "boot_header"} => ops = 0
        /\ phase = "boot" => files[path] = EmptyFile
        /\ phase = "boot_written" => files[path] = BootFile
        /\ phase = "boot_header" => files[path] = BootHeaderFile

Sound == ListsInv /\ FlushInv /\ DurableInv /\ RestInv

\* A handle leads to its table as long as its file only grows.
LEMMA TableGrows ==
  ASSUME NEW fs, NEW gs, NEW h, TableIn(fs, h), Grows(fs[h.ino], gs[h.ino])
  PROVE  TableIn(gs, h)
  BY DEF TableIn, IsTable, Grows

\* Lists that stay as they are, or are snapshots of the current one, over
\* files that at most grow.
LEMMA ListsKept ==
  ASSUME IInv, ListsInv, ssts' = ssts, nextId' \in Nat, nextId =< nextId',
         \A t \in Txs : \/ snaps'[t] = snaps[t] \/ snaps'[t] = NoSnapshot
                        \/ snaps'[t].ssts = ssts,
         \A i \in DOMAIN ssts : Grows(files[ssts[i].ino], files'[ssts[i].ino]),
         \A t \in Txs : snaps'[t] # NoSnapshot =>
            \A i \in DOMAIN snaps'[t].ssts :
               Grows(files[snaps'[t].ssts[i].ino], files'[snaps'[t].ssts[i].ino])
  PROVE  ListsInv'
<1>1. InOrder(ssts')
  BY DEF ListsInv
<1>2. ASSUME NEW i \in DOMAIN ssts' PROVE ssts'[i].gen < nextId' /\ TableIn(files', ssts'[i])
  <2>1. ssts[i].gen \in Nat /\ nextId \in Nat /\ ssts[i].gen < nextId /\ TableIn(files, ssts[i])
    BY <1>2, StateTypes, HandleFields DEF IInv, TypeOK, ListsInv
  <2> QED BY <1>2, <2>1, TableGrows
<1>3. ASSUME NEW t \in Txs, snaps'[t] # NoSnapshot, NEW i \in DOMAIN snaps'[t].ssts
      PROVE  TableIn(files', snaps'[t].ssts[i])
  <2>1. TableIn(files, snaps'[t].ssts[i])
    BY <1>3 DEF ListsInv
  <2> QED BY <1>3, <2>1, TableGrows
<1> QED BY <1>1, <1>2, <1>3 DEF ListsInv

\* A snapshot that stays open, or that is taken of the current lists.
SnapsKept ==
    \A t \in Txs : \/ snaps'[t] = snaps[t] \/ snaps'[t] = NoSnapshot
                   \/ snaps'[t].ssts = ssts

LEMMA SnapInodes ==
  ASSUME IInv, SnapsKept, NEW t \in Txs, snaps'[t] # NoSnapshot, NEW i \in DOMAIN snaps'[t].ssts
  PROVE  snaps'[t].ssts[i].ino \in Inodes
  BY StateTypes, HandleFields DEF IInv, SnapsKept

\* The lists stay sound as long as the files only grow.
LEMMA ListsGrow ==
  ASSUME IInv, ListsInv, ssts' = ssts, nextId' \in Nat, nextId =< nextId', SnapsKept,
         \A j \in Inodes : Grows(files[j], files'[j])
  PROVE  ListsInv'
<1>1. \A i \in DOMAIN ssts : ssts[i].ino \in Inodes
  BY StateTypes, HandleFields DEF IInv
<1>2. \A i \in DOMAIN ssts : Grows(files[ssts[i].ino], files'[ssts[i].ino])
  BY <1>1
<1>3. \A t \in Txs : snaps'[t] # NoSnapshot =>
         \A i \in DOMAIN snaps'[t].ssts :
            Grows(files[snaps'[t].ssts[i].ino], files'[snaps'[t].ssts[i].ino])
  BY SnapInodes
<1> QED BY <1>2, <1>3, ListsKept DEF SnapsKept

\* Steps that write nothing.
LEMMA QuietSound ==
  ASSUME IInv, Sound, phase = "up", phase' = "up", files' = files, ssts' = ssts,
         nextId' \in Nat, nextId =< nextId', cw' = cw, path' = path, dpath' = dpath, SnapsKept,
         pc' \in PlainPCs \/ (pc' = pc /\ job' = job)
  PROVE  Sound'
<1>1. ListsInv'
  BY ListsGrow, SameBodyGrows DEF Sound
<1>2. RestInv'
  BY DEF RestInv
<1>3. CASE pc' \in PlainPCs
  <2>1. FlushInv'
    BY <1>3 DEF FlushInv, PlainPCs, FlushPCs
  <2>2. DurableInv'
    BY <1>3 DEF DurableInv, PlainPCs, Sound
  <2> QED BY <1>1, <1>2, <2>1, <2>2 DEF Sound
<1>4. CASE pc' = pc /\ job' = job
  <2>1. FlushInv'
    <3>1. job.gen \in Nat /\ nextId \in Nat
      BY HandleFields DEF IInv, TypeOK
    <3>2. NewSlot' = NewSlot
      BY <1>4 DEF NewSlot
    <3> QED BY <1>4, <3>1, <3>2 DEF FlushInv, Sound
  <2>2. DurableInv'
    BY <1>4 DEF DurableInv, Sound
  <2> QED BY <1>1, <1>2, <2>1, <2>2 DEF Sound
<1> QED BY <1>3, <1>4

\* Steps that write to the current file and end where flush and compact_all
\* hold no file.
LEMMA WriteSound ==
  ASSUME IInv, Sound, phase = "up", phase' = "up", NEW f \in FileType,
         Grows(files[cw.file], f), Durable(f, cw.slot), f.slots[cw.slot] = files[cw.file].slots[cw.slot],
         files' = [files EXCEPT ![cw.file] = f], ssts' = ssts, nextId' = nextId,
         cw' = cw, path' = path, dpath' = dpath, SnapsKept, pc' \in PlainPCs
  PROVE  Sound'
<1>1. files \in [Inodes -> FileType] /\ cw.file \in Inodes /\ nextId \in Nat
      /\ path \in Inodes /\ dpath \in Inodes
  BY DEF IInv, TypeOK
<1>2. files'[cw.file] = f /\ \A j \in Inodes : j # cw.file => files'[j] = files[j]
  BY <1>1
<1>3. \A j \in Inodes : Grows(files[j], files'[j])
  BY <1>2, SameBodyGrows
<1>4. ListsInv'
  BY <1>1, <1>3, ListsGrow DEF Sound
<1>5. RestInv'
  BY DEF RestInv
<1>6. FlushInv'
  BY DEF FlushInv, PlainPCs, FlushPCs
<1>7. DurableInv'
  <2>1. \A i \in {path, dpath} : i = cw.file \/ Durable(files'[i], 0)
    BY <1>1, <1>2 DEF Sound, DurableInv
  <2> QED BY <1>2, <2>1 DEF Sound, DurableInv, PlainPCs
<1> QED BY <1>4, <1>5, <1>6, <1>7 DEF Sound

LEMMA ReturningKeeps ==
  ASSUME IInv, Returning \/ snaps' = snaps
  PROVE  SnapsKept
<1>1. Writer \in Txs /\ snaps \in [Txs -> SnapshotType \cup {NoSnapshot}]
  BY DEF Txs, IInv, TypeOK
<1> QED BY <1>1 DEF Returning, SnapsKept

-----------------------------------------------------------------------------
(* Every step keeps the disk sound *)

LEMMA ReaderSound ==
  ASSUME IInv, Sound, NEW r \in Readers, BeginRead(r)
  PROVE  Sound'
<1>1. /\ phase = "up" /\ phase' = "up" /\ files' = files /\ ssts' = ssts /\ nextId' = nextId
      /\ pc' = pc /\ job' = job /\ cw' = cw /\ path' = path /\ dpath' = dpath
      /\ snaps' = [snaps EXCEPT ![r] = Snapshot]
  BY DEF BeginRead, mem, disk, thread
<1>2. SnapsKept
  <2>1. \A t \in Txs : snaps'[t] = IF t = r THEN Snapshot ELSE snaps[t]
    BY <1>1 DEF IInv, TypeOK
  <2> QED BY <2>1 DEF SnapsKept, Snapshot
<1>3. nextId \in Nat
  BY DEF IInv, TypeOK
<1> QED BY <1>1, <1>2, <1>3, QuietSound

LEMMA TxSound ==
  ASSUME IInv, Sound, BeginWrite \/ Rollback \/ ForceCompact \/ Apply \/ CompactSkip
  PROVE  Sound'
<1>1. nextId \in Nat /\ Writer \in Txs /\ snaps \in [Txs -> SnapshotType \cup {NoSnapshot}]
  BY DEF IInv, TypeOK, Txs
<1>2. CASE BeginWrite
  <2>1. /\ phase = "up" /\ phase' = "up" /\ files' = files /\ ssts' = ssts /\ nextId' = nextId
        /\ cw' = cw /\ path' = path /\ dpath' = dpath /\ pc' = "tx"
        /\ snaps' = [snaps EXCEPT ![Writer] = Snapshot]
    BY <1>2 DEF BeginWrite, mem, disk
  <2>2. SnapsKept
    BY <1>1, <2>1 DEF SnapsKept, Snapshot
  <2> QED BY <1>1, <2>1, <2>2, QuietSound DEF PlainPCs
<1>3. CASE Rollback \/ ForceCompact \/ Apply \/ CompactSkip
  <2>1. /\ phase = "up" /\ phase' = "up" /\ files' = files /\ ssts' = ssts /\ nextId' = nextId
        /\ cw' = cw /\ path' = path /\ dpath' = dpath
        /\ pc' \in {"idle", "flush", "compact"} /\ (Returning \/ snaps' = snaps)
    BY <1>3 DEF Rollback, ForceCompact, Apply, CompactSkip, AfterCompact, mem, disk
  <2>2. SnapsKept
    BY <2>1, ReturningKeeps
  <2> QED BY <1>1, <2>1, <2>2, QuietSound DEF PlainPCs
<1> QED BY <1>2, <1>3

LEMMA BufferSound ==
  ASSUME IInv, Sound, NEW k \in Keys, NEW e \in Values \cup {Tombstone}, Buffer(k, e)
  PROVE  Sound'
<1>1. /\ phase = "up" /\ phase' = "up" /\ files' = files /\ ssts' = ssts /\ nextId' = nextId
      /\ cw' = cw /\ path' = path /\ dpath' = dpath /\ pc' = pc /\ job' = job /\ snaps' = snaps
  BY DEF Buffer, mem, disk, thread
<1>2. SnapsKept /\ nextId \in Nat
  BY <1>1, ReturningKeeps DEF IInv, TypeOK
<1> QED BY <1>1, <1>2, QuietSound

LEMMA QuietFailsSound ==
  ASSUME IInv, Sound, WalSyncFails \/ CompactBuildFails \/ CompactSyncDirFails
  PROVE  Sound'
<1>1. /\ phase = "up" /\ phase' = "up" /\ files' = files /\ ssts' = ssts
      /\ nextId' \in {nextId, nextId + 1}
      /\ cw' = cw /\ path' = path /\ dpath' = dpath /\ pc' = "idle" /\ Returning
  BY DEF WalSyncFails, CompactBuildFails, CompactSyncDirFails, Fails, mem, disk
<1>2. nextId \in Nat
  BY DEF IInv, TypeOK
<1>3. nextId' \in Nat /\ nextId =< nextId'
  BY <1>1, <1>2
<1>4. SnapsKept
  BY <1>1, ReturningKeeps
<1> QED BY <1>1, <1>3, <1>4, QuietSound DEF PlainPCs

LEMMA RotateSound ==
  ASSUME IInv, Sound, FlushRotate
  PROVE  Sound'
<1>1. /\ phase = "up" /\ phase' = "up" /\ files' = files /\ ssts' = ssts
      /\ cw' = cw /\ path' = path /\ dpath' = dpath /\ Returning
  BY DEF FlushRotate, mem, disk
<1>2. SnapsKept /\ nextId \in Nat
  BY <1>1, ReturningKeeps DEF IInv, TypeOK
<1>3. CASE active = EmptyLayer
  <2>1. nextId' = nextId /\ pc' \in {"idle", "compact"}
    BY <1>3 DEF FlushRotate, AfterFlush, mem
  <2> QED BY <1>1, <1>2, <2>1, QuietSound DEF PlainPCs
<1>4. CASE active # EmptyLayer
  <2>1. /\ nextId' = nextId + 1 /\ pc' = "rotated"
        /\ job' = [gen |-> nextId, ino |-> cw.file, off |-> 0]
    BY <1>4 DEF FlushRotate
  <2>2. ListsInv'
    BY <1>1, <1>2, <2>1, ListsGrow, SameBodyGrows DEF Sound
  <2>3. FlushInv'
    <3>1. \A i \in DOMAIN ssts : ssts[i].gen < nextId
      BY DEF Sound, ListsInv
    <3>2. job'.gen = nextId /\ nextId < nextId'
      BY <1>2, <2>1
    <3> QED BY <1>1, <2>1, <3>1, <3>2 DEF FlushInv
  <2>4. DurableInv' /\ RestInv'
    BY <1>1, <2>1 DEF Sound, DurableInv, RestInv
  <2> QED BY <2>2, <2>3, <2>4 DEF Sound
<1> QED BY <1>3, <1>4

\* The current file opens with the slot the writer used last.
LEMMA CurrentDurable ==
  ASSUME IInv, Sound, phase = "up"
  PROVE  /\ files[cw.file] \in FileType /\ cw.file \in Inodes /\ cw.slot \in {0, 1}
         /\ cw.seq \in Nat /\ Durable(files[cw.file], cw.slot)
         /\ files[cw.file].slots[cw.slot].seq = cw.seq
  BY CurrentFile DEF Sound, DurableInv

\* An append to the current file outside a flush.
LEMMA AppendSound ==
  ASSUME IInv, Sound, NEW x \in Extent, phase = "up", phase' = "up",
         files' = [files EXCEPT ![cw.file] = AppendExtent(@, x)], ssts' = ssts,
         nextId' = nextId, cw' = cw, path' = path, dpath' = dpath, SnapsKept, pc' \in PlainPCs
  PROVE  Sound'
<1> DEFINE f == files[cw.file]
           g == AppendExtent(f, x)
<1>1. f \in FileType /\ cw.slot \in {0, 1} /\ Durable(f, cw.slot)
  BY CurrentDurable
<1>2. /\ g \in FileType /\ Grows(f, g) /\ g.slots = f.slots /\ g.dslots = f.dslots
      /\ g.synced = f.synced
  BY <1>1, AppendFields, Zenon
<1>3. files' = [files EXCEPT ![cw.file] = g]
  OBVIOUS
<1> HIDE DEF g
<1>4. Durable(g, cw.slot)
  BY <1>1, <1>2, DurableGrows
<1>5. g.slots[cw.slot] = f.slots[cw.slot]
  BY <1>2
<1> QED BY <1>2, <1>3, <1>4, <1>5, WriteSound

LEMMA WalAppendSound ==
  ASSUME IInv, Sound, WalAppend
  PROVE  Sound'
<1>1. /\ phase = "up" /\ phase' = "up" /\ ssts' = ssts /\ nextId' = nextId /\ cw' = cw
      /\ path' = path /\ dpath' = dpath /\ pc' = "wal_written" /\ snaps' = snaps
      /\ files' = [files EXCEPT ![cw.file] = AppendExtent(@, Frame(pending))]
  BY DEF WalAppend, mem
<1>2. Frame(pending) \in Extent
  BY ExtentTypes DEF IInv, TypeOK
<1>3. SnapsKept /\ pc' \in PlainPCs
  BY <1>1, ReturningKeeps DEF PlainPCs
<1> QED BY <1>1, <1>2, <1>3, AppendSound

LEMMA WalSyncSound ==
  ASSUME IInv, Sound, WalSync
  PROVE  Sound'
<1> DEFINE f == files[cw.file]
           g == Sync(f)
<1>1. /\ phase = "up" /\ phase' = "up" /\ ssts' = ssts /\ nextId' = nextId /\ cw' = cw
      /\ path' = path /\ dpath' = dpath /\ pc' = "logged" /\ snaps' = snaps
      /\ files' = [files EXCEPT ![cw.file] = g]
  BY DEF WalSync, mem
<1>2. SnapsKept /\ pc' \in PlainPCs
  BY <1>1, ReturningKeeps DEF PlainPCs
<1>3. f \in FileType /\ cw.slot \in {0, 1} /\ Durable(f, cw.slot)
  BY <1>1, CurrentDurable
<1>4. g \in FileType /\ Grows(f, g) /\ g.slots[cw.slot] = f.slots[cw.slot] /\ Durable(g, cw.slot)
  BY <1>3, SyncFields, DurableSync
<1> HIDE DEF g
<1> QED BY <1>1, <1>2, <1>4, WriteSound

LEMMA WalWriteFailsSound ==
  ASSUME IInv, Sound, WalWriteFails
  PROVE  Sound'
<1>1. /\ phase = "up" /\ phase' = "up" /\ ssts' = ssts /\ nextId' = nextId /\ cw' = cw
      /\ path' = path /\ dpath' = dpath /\ pc' = "idle" /\ Returning
      /\ \/ files' = files
         \/ files' = [files EXCEPT ![cw.file] = AppendExtent(@, Junk)]
  BY DEF WalWriteFails, Fails, mem
<1>2. SnapsKept /\ pc' \in PlainPCs /\ nextId \in Nat
  BY <1>1, ReturningKeeps DEF PlainPCs, IInv, TypeOK
<1>3. CASE files' = files
  BY <1>1, <1>2, <1>3, QuietSound
<1>4. CASE files' = [files EXCEPT ![cw.file] = AppendExtent(@, Junk)]
  BY <1>1, <1>2, <1>4, ExtentTypes, AppendSound
<1> QED BY <1>1, <1>3, <1>4

\* A file of which the body alone has become longer.
LEMMA LongerFile ==
  ASSUME NEW f \in FileType, NEW written \in Seq(Extent)
  PROVE  LET g == [f EXCEPT !.body = f.body \o written]
         IN  /\ g \in FileType /\ Grows(f, g) /\ g.slots = f.slots /\ g.dslots = f.dslots
             /\ g.synced = f.synced
<1> DEFINE b == f.body \o written
           g == [f EXCEPT !.body = b]
<1>1. f.body \in Seq(Extent)
  BY FileFields
<1>2. /\ b \in Seq(Extent) /\ DOMAIN f.body \subseteq DOMAIN b
      /\ \A n \in DOMAIN f.body : b[n] = f.body[n]
  BY <1>1
<1> HIDE DEF b
<1>3. g \in FileType /\ g.body = b /\ g.slots = f.slots /\ g.dslots = f.dslots /\ g.synced = f.synced
  BY <1>2 DEF FileType
<1>4. Grows(f, g)
  <2> HIDE DEF g
  <2> QED BY <1>2, <1>3 DEF Grows
<1> QED BY <1>3, <1>4 DEF b

LEMMA FlushWriteFailsSound ==
  ASSUME IInv, Sound, FlushWriteFails
  PROVE  Sound'
<1> DEFINE blob == Blob(job.gen, imms[Len(imms)].data)
           f == files[cw.file]
<1>1. /\ phase = "up" /\ phase' = "up" /\ ssts' = ssts /\ nextId' = nextId /\ cw' = cw
      /\ path' = path /\ dpath' = dpath /\ pc = "rotated" /\ pc' = "idle" /\ Returning
  BY DEF FlushWriteFails, Fails, mem
<1>2. PICK written \in { << >>, << Junk >>, << blob >>, << blob, Junk >> } :
         files' = [files EXCEPT ![cw.file].body = @ \o written]
  BY DEF FlushWriteFails
<1>3. blob \in Extent /\ Junk \in Extent
  <2>1. imms \in Seq(Immutable) /\ imms # << >> /\ job.gen \in Nat
    BY <1>1, StateTypes, HandleFields DEF IInv, JobInv, TypeOK
  <2>2. imms[Len(imms)] \in Immutable
    BY <2>1
  <2>3. imms[Len(imms)].data \in Layer
    BY <2>2 DEF Immutable
  <2> QED BY <2>1, <2>3, ExtentTypes
<1> HIDE DEF blob
<1>4. written \in Seq(Extent)
  <2>1. << >> \in Seq(Extent) /\ << Junk >> \in Seq(Extent) /\ << blob >> \in Seq(Extent)
    BY <1>3
  <2>2. << blob, Junk >> \in Seq(Extent)
    BY <1>3
  <2> QED BY <1>2, <2>1, <2>2
<1> DEFINE g == [f EXCEPT !.body = f.body \o written]
<1>5. files' = [files EXCEPT ![cw.file] = g]
  BY <1>2
<1>6. f \in FileType /\ cw.slot \in {0, 1} /\ Durable(f, cw.slot)
  BY <1>1, CurrentDurable
<1>7. /\ g \in FileType /\ Grows(f, g) /\ g.slots = f.slots /\ g.dslots = f.dslots
      /\ g.synced = f.synced
  BY <1>4, <1>6, LongerFile, Zenon
<1> HIDE DEF g
<1>8. Durable(g, cw.slot) /\ g.slots[cw.slot] = f.slots[cw.slot]
  BY <1>6, <1>7, DurableGrows
<1>9. SnapsKept /\ pc' \in PlainPCs
  BY <1>1, ReturningKeeps DEF PlainPCs
<1> QED BY <1>1, <1>5, <1>7, <1>8, <1>9, WriteSound

\* The manifest at the end of a file leads to the tables it lists.
LEMMA ManifestNames ==
  ASSUME NEW f \in FileType, NEW refs \in Refs, NEW next \in Nat, NEW seq \in Nat,
         RefsIntact(f, refs), InOrder(refs), \A i \in DOMAIN refs : refs[i].gen < next
  PROVE  LET man == Manifest(next, refs, Len(f.body) + 2)
             g   == AppendExtent(f, man)
         IN  /\ Names(g, Slot(seq + 1, Len(f.body) + 1, man))
             /\ man \in Extent /\ g.body[Len(f.body) + 1] = man
             /\ Len(f.body) + 1 \in DOMAIN g.body
<1> DEFINE n   == Len(f.body)
           man == Manifest(next, refs, n + 2)
           g   == AppendExtent(f, man)
           v   == Slot(seq + 1, n + 1, man)
<1>1. f.body \in Seq(Extent) /\ n \in Nat
  BY FileFields
<1>2. man \in Extent
  <2>1. n + 2 \in Nat \ {0} /\ refs \in Seq([gen : Nat, off : Nat])
    BY <1>1 DEF Refs
  <2> QED BY <2>1, ExtentTypes, Zenon
<1>3. man.kind = "manifest" /\ man.nextId = next /\ man.refs = refs /\ man.walStart = n + 2
  BY ManifestFields
<1>4. v.seq = seq + 1 /\ v.man = n + 1 /\ v.crc = man
  BY SlotFields
<1> HIDE DEF man, v, n
<1>5. /\ g \in FileType /\ Grows(f, g) /\ g.body \in Seq(Extent)
      /\ Len(g.body) = n + 1 /\ g.body[n + 1] = man
  BY <1>1, <1>2, AppendFields, Zenon DEF n
<1> HIDE DEF g
<1>6. n + 1 \in DOMAIN g.body
  BY <1>1, <1>5
<1>7. ASSUME NEW i \in DOMAIN refs
      PROVE  /\ refs[i].off < n + 1 /\ refs[i].gen < next
             /\ IsTable(g, refs[i].off) /\ g.body[refs[i].off].gen = refs[i].gen
  <2>1. refs[i].off \in DOMAIN f.body /\ f.body[refs[i].off].kind = "sst"
        /\ f.body[refs[i].off].gen = refs[i].gen
    BY DEF RefsIntact, IsTable
  <2>2. refs[i].off \in Nat /\ refs[i].off =< n
    BY <1>1, <2>1 DEF n
  <2> QED BY <1>1, <1>5, <2>1, <2>2 DEF Grows, IsTable
<1>8. seq + 1 > 0
  OBVIOUS
<1>9. Names(g, v)
  <2>1. RefsIntact(g, v.crc.refs)
    BY <1>3, <1>4, <1>7 DEF RefsIntact
  <2>2. v.crc.walStart = v.man + 1
    BY <1>1, <1>3, <1>4
  <2> QED BY <1>3, <1>4, <1>5, <1>6, <1>7, <1>8, <2>1, <2>2 DEF Names
<1> QED BY <1>2, <1>5, <1>6, <1>9 DEF n, man, v, g

\* The references of a flush's manifest: the tables so far and the new one.
LEMMA FlushRefs ==
  ASSUME IInv, Sound, phase = "up", pc = "rotated",
         NEW blob \in Extent, blob.kind = "sst", blob.gen = job.gen
  PROVE  LET f    == files[cw.file]
             off  == Len(f.body) + 1
             refs == [i \in DOMAIN ssts |-> [gen |-> ssts[i].gen, off |-> ssts[i].off]]
             all  == Append(refs, [gen |-> job.gen, off |-> off])
             f1   == AppendExtent(f, blob)
         IN  /\ all \in Refs /\ InOrder(all) /\ RefsIntact(f1, all)
             /\ \A i \in DOMAIN all : all[i].gen < nextId
             /\ DOMAIN all = 1..(Len(ssts) + 1)
             /\ \A i \in 1..Len(ssts) : all[i].off = ssts[i].off
             /\ all[Len(ssts) + 1].off = off
<1> DEFINE f    == files[cw.file]
           off  == Len(f.body) + 1
           refs == [i \in DOMAIN ssts |-> [gen |-> ssts[i].gen, off |-> ssts[i].off]]
           last == [gen |-> job.gen, off |-> off]
           all  == Append(refs, last)
           f1   == AppendExtent(f, blob)
           R    == [gen : Nat, off : Nat]
           m    == Len(ssts)
<1>1. f \in FileType /\ f.body \in Seq(Extent) /\ Len(f.body) \in Nat /\ off \in Nat
  BY CurrentFile, FileFields
<1>2. ssts \in Seq(Handle) /\ job.gen \in Nat /\ nextId \in Nat /\ m \in Nat /\ DOMAIN ssts = 1..m
  BY StateTypes, HandleFields DEF IInv, TypeOK
<1>3. \A i \in 1..m : /\ ssts[i].gen \in Nat /\ ssts[i].off \in Nat
                      /\ ssts[i].gen < job.gen /\ ssts[i].off \in DOMAIN f.body
                      /\ f.body[ssts[i].off].kind = "sst" /\ f.body[ssts[i].off].gen = ssts[i].gen
  <2> SUFFICES ASSUME NEW i \in 1..m
               PROVE  /\ ssts[i].gen \in Nat /\ ssts[i].off \in Nat
                      /\ ssts[i].gen < job.gen /\ ssts[i].off \in DOMAIN f.body
                      /\ f.body[ssts[i].off].kind = "sst" /\ f.body[ssts[i].off].gen = ssts[i].gen
    OBVIOUS
  <2>1. i \in DOMAIN ssts
    BY <1>2
  <2>2. ssts[i].gen \in Nat /\ ssts[i].off \in Nat
    BY <2>1, StateTypes, HandleFields DEF IInv
  <2>3. ssts[i].gen < job.gen
    BY <2>1 DEF Sound, FlushInv, FlushPCs
  <2>4. ssts[i].ino = cw.file
    BY <2>1 DEF IInv, CurrentInv
  <2>5. TableIn(files, ssts[i])
    BY <2>1 DEF Sound, ListsInv
  <2> QED BY <2>2, <2>3, <2>4, <2>5 DEF TableIn, IsTable
<1>4. job.gen < nextId
  BY DEF Sound, FlushInv, FlushPCs
<1>5. \A i, j \in 1..m : i < j => ssts[i].gen < ssts[j].gen
  BY <1>2 DEF Sound, ListsInv, InOrder
<1>6. /\ f1.body \in Seq(Extent) /\ f1.body[off] = blob /\ off \in DOMAIN f1.body
      /\ \A n \in DOMAIN f.body : n \in DOMAIN f1.body /\ f1.body[n] = f.body[n]
  <2>1. /\ Grows(f, f1) /\ f1.body \in Seq(Extent) /\ Len(f1.body) = Len(f.body) + 1
        /\ f1.body[Len(f.body) + 1] = blob
    BY <1>1, AppendFields, Zenon
  <2> HIDE DEF f1
  <2> QED BY <1>1, <2>1 DEF Grows
<1>7. refs \in Seq(R) /\ Len(refs) = m /\ last \in R /\ last.gen = job.gen /\ last.off = off
  <2>1. refs \in [1..m -> R]
    BY <1>2, <1>3
  <2>2. refs \in Seq(R)
    BY <1>2, <2>1, SeqOfFunction
  <2>3. Len(refs) = m
    <3> HIDE DEF m
    <3> QED BY <1>2, <2>1, <2>2
  <2> QED BY <1>1, <1>2, <2>2, <2>3
<1>8. \A i \in 1..m : refs[i].gen = ssts[i].gen /\ refs[i].off = ssts[i].off
  BY <1>2
<1> HIDE DEF f1, off, refs, last, R, m, f
<1>9. /\ all \in Seq(R) /\ DOMAIN all = 1..(m + 1)
      /\ \A i \in 1..m : all[i] = refs[i]
      /\ all[m + 1] = last
  BY <1>2, <1>7
<1> HIDE DEF all
<1>10. \A i \in 1..m : all[i].gen = ssts[i].gen /\ all[i].off = ssts[i].off
  BY <1>8, <1>9
<1>11. all[m + 1].gen = job.gen /\ all[m + 1].off = off
  BY <1>7, <1>9
<1>12. InOrder(all)
  <2> SUFFICES ASSUME NEW i \in 1..(m + 1), NEW j \in 1..(m + 1), i < j
               PROVE  all[i].gen < all[j].gen
    BY <1>9 DEF InOrder
  <2>1. i \in 1..m /\ (j \in 1..m \/ j = m + 1)
    BY <1>2
  <2> QED BY <1>3, <1>5, <1>10, <1>11, <2>1
<1>13. ASSUME NEW i \in DOMAIN all
       PROVE  /\ IsTable(f1, all[i].off) /\ f1.body[all[i].off].gen = all[i].gen
              /\ all[i].gen < nextId
  <2>1. CASE i \in 1..m
    <3>1. all[i].off \in DOMAIN f.body /\ f.body[all[i].off].kind = "sst"
          /\ f.body[all[i].off].gen = all[i].gen /\ all[i].gen \in Nat /\ all[i].gen < job.gen
      BY <1>3, <1>10, <2>1
    <3>2. all[i].gen < nextId
      BY <1>2, <1>4, <3>1
    <3> QED BY <1>6, <3>1, <3>2 DEF IsTable
  <2>2. CASE i = m + 1
    BY <1>4, <1>6, <1>11, <2>2 DEF IsTable
  <2> QED BY <1>2, <1>9, <2>1, <2>2
<1>14. RefsIntact(f1, all)
  BY <1>13 DEF RefsIntact
<1>15. all \in Refs
  BY <1>9 DEF Refs, R
<1> QED BY <1>9, <1>10, <1>11, <1>12, <1>13, <1>14, <1>15 DEF f1, off, refs, last, m, f, all

\* The files after the two appends of a flush.
LEMMA FlushFile ==
  ASSUME IInv, Sound, FlushWrite
  PROVE  LET f  == files[cw.file]
             g  == files'[cw.file]
         IN  /\ g \in FileType /\ Grows(f, g)
             /\ g.slots = f.slots /\ g.dslots = f.dslots /\ g.synced = f.synced
             /\ Len(f.body) \in Nat /\ Len(g.body) = Len(f.body) + 2
             /\ job'.off = Len(f.body) + 1 /\ job'.ino = cw.file /\ job'.gen = job.gen
             /\ TableIn(files', job') /\ TableData(job)' = imms[Len(imms)].data
             /\ files' = [files EXCEPT ![cw.file] = g]
             /\ NewSlot' \in SlotType /\ Names(g, NewSlot')
             /\ NewSlot'.seq = cw.seq + 1 /\ NewSlot'.man = Len(f.body) + 2
             /\ DOMAIN NewSlot'.crc.refs = 1..(Len(ssts) + 1)
             /\ \A i \in 1..Len(ssts) : NewSlot'.crc.refs[i].off = ssts[i].off
             /\ NewSlot'.crc.refs[Len(ssts) + 1].off = Len(f.body) + 1
<1> DEFINE f    == files[cw.file]
           n    == Len(f.body)
           refs == [i \in DOMAIN ssts |-> [gen |-> ssts[i].gen, off |-> ssts[i].off]]
           all  == Append(refs, [gen |-> job.gen, off |-> n + 1])
           blob == Blob(job.gen, imms[Len(imms)].data)
           f1   == AppendExtent(f, blob)
           man  == Manifest(nextId, all, n + 3)
           g    == AppendExtent(f1, man)
           v    == Slot(cw.seq + 1, n + 2, man)
<1>1. f \in FileType /\ n \in Nat /\ cw.file \in Inodes /\ files \in [Inodes -> FileType]
      /\ cw.seq \in Nat /\ nextId \in Nat
  BY CurrentFile, FileFields DEF IInv, TypeOK
<1>2. /\ phase = "up" /\ pc = "rotated" /\ cw' = cw
      /\ files' = [files EXCEPT ![cw.file] = AppendExtent(f1, Manifest(nextId, all, (n + 1) + 2))]
      /\ job' = [job EXCEPT !.off = n + 1]
  BY DEF FlushWrite
<1>3. files' = [files EXCEPT ![cw.file] = g]
  BY <1>1, <1>2
<1>4. job \in Handle /\ job.ino = cw.file /\ job.gen \in Nat
  BY <1>2, HandleFields DEF IInv, TypeOK, JobInv
<1>5. job'.off = n + 1 /\ job'.ino = cw.file /\ job'.gen = job.gen
  BY <1>1, <1>2, <1>4 DEF Handle
<1>6. blob \in Extent /\ blob.kind = "sst" /\ blob.gen = job.gen /\ blob.data = imms[Len(imms)].data
  <2>1. imms \in Seq(Immutable) /\ imms # << >>
    BY <1>2, StateTypes DEF IInv, JobInv
  <2>2. imms[Len(imms)] \in Immutable
    BY <2>1
  <2>3. imms[Len(imms)].data \in Layer
    BY <2>2 DEF Immutable
  <2> QED BY <1>4, <2>3, ExtentTypes, BlobFields
<1> HIDE DEF blob
<1>7. /\ all \in Refs /\ InOrder(all) /\ RefsIntact(f1, all)
      /\ \A i \in DOMAIN all : all[i].gen < nextId
      /\ DOMAIN all = 1..(Len(ssts) + 1)
      /\ \A i \in 1..Len(ssts) : all[i].off = ssts[i].off
      /\ all[Len(ssts) + 1].off = n + 1
  BY <1>2, <1>6, FlushRefs, Zenon
<1>8. /\ f1 \in FileType /\ Grows(f, f1) /\ f1.body \in Seq(Extent)
      /\ f1.slots = f.slots /\ f1.dslots = f.dslots /\ f1.synced = f.synced
      /\ Len(f1.body) = n + 1 /\ f1.body[n + 1] = blob
  BY <1>1, <1>6, AppendFields, Zenon
<1> HIDE DEF f1, all, n
<1>9. man.refs = all
  BY ManifestFields
<1>10. n + 3 = Len(f1.body) + 2 /\ n + 2 = Len(f1.body) + 1
  BY <1>1, <1>8
<1>11. /\ Names(g, v) /\ man \in Extent /\ g.body[n + 2] = man /\ n + 2 \in DOMAIN g.body
  BY <1>1, <1>7, <1>8, <1>10, ManifestNames
<1>12. v.seq = cw.seq + 1 /\ v.man = n + 2 /\ v.crc = man
  BY SlotFields
<1>13. v \in SlotType
  BY <1>1, <1>11, SlotTypes
<1> HIDE DEF man, v
<1>14. /\ g \in FileType /\ Grows(f1, g) /\ g.body \in Seq(Extent)
       /\ g.slots = f1.slots /\ g.dslots = f1.dslots /\ g.synced = f1.synced
       /\ Len(g.body) = Len(f1.body) + 1
  BY <1>8, <1>11, AppendFields, Zenon
<1> HIDE DEF g, f
<1>15. Grows(f, g) /\ Len(g.body) = n + 2
  BY <1>1, <1>8, <1>14, GrowsTransitive
<1>16. files'[cw.file] = g
  BY <1>1, <1>3
<1>17. n + 1 \in DOMAIN g.body /\ g.body[n + 1] = blob
  BY <1>1, <1>8, <1>14 DEF Grows
<1>18. TableIn(files', job') /\ TableAt(files'[job'.ino], job'.off) = imms[Len(imms)].data
  BY <1>5, <1>6, <1>16, <1>17 DEF TableIn, IsTable, TableAt
<1>19. NewSlot' = v
  <2>1. job'.off + 1 = n + 2
    BY <1>1, <1>5
  <2>2. NewSlot' = Slot(cw.seq + 1, n + 2, g.body[n + 2])
    BY <1>2, <1>16, <2>1 DEF NewSlot
  <2> QED BY <1>11, <2>2 DEF v
<1>20. TableData(job)' = imms[Len(imms)].data
  BY <1>18 DEF TableData
<1>21. files' = [files EXCEPT ![cw.file] = files'[cw.file]]
  BY <1>3, <1>16
<1> QED BY <1>1, <1>5, <1>7, <1>8, <1>9, <1>11, <1>12, <1>13, <1>14, <1>15, <1>16, <1>18, <1>19,
           <1>20, <1>21 DEF f, n

LEMMA FlushWriteSound ==
  ASSUME IInv, Sound, FlushWrite
  PROVE  Sound'
<1> DEFINE f == files[cw.file]
           g == files'[cw.file]
<1>1. /\ phase = "up" /\ phase' = "up" /\ ssts' = ssts /\ nextId' = nextId /\ cw' = cw
      /\ path' = path /\ dpath' = dpath /\ pc = "rotated" /\ pc' = "flush_written"
      /\ snaps' = snaps
  BY DEF FlushWrite, mem
<1>2. /\ g \in FileType /\ Grows(f, g)
      /\ g.slots = f.slots /\ g.dslots = f.dslots /\ g.synced = f.synced
      /\ job'.gen = job.gen /\ TableIn(files', job')
      /\ files' = [files EXCEPT ![cw.file] = g] /\ Names(g, NewSlot')
  BY FlushFile, Zenon
<1>3. f \in FileType /\ cw.file \in Inodes /\ cw.slot \in {0, 1} /\ Durable(f, cw.slot)
      /\ f.slots[cw.slot].seq = cw.seq
  BY <1>1, CurrentDurable
<1>4. Durable(g, cw.slot) /\ g.slots[cw.slot].seq = cw.seq
  BY <1>2, <1>3, DurableGrows
<1>5. files \in [Inodes -> FileType] /\ path \in Inodes /\ dpath \in Inodes /\ nextId \in Nat
  BY DEF IInv, TypeOK
<1>6. \A j \in Inodes : j # cw.file => files'[j] = files[j]
  BY <1>2, <1>5
<1>7. ListsInv'
  <2>1. \A j \in Inodes : Grows(files[j], files'[j])
    BY <1>2, <1>6, SameBodyGrows
  <2>2. SnapsKept
    BY <1>1, ReturningKeeps
  <2> QED BY <1>1, <1>5, <2>1, <2>2, ListsGrow DEF Sound
<1>8. FlushInv'
  <2>1. job.gen < nextId /\ \A i \in DOMAIN ssts : ssts[i].gen < job.gen
    BY <1>1 DEF Sound, FlushInv, FlushPCs
  <2> QED BY <1>1, <1>2, <2>1 DEF FlushInv
<1>9. DurableInv' /\ RestInv'
  <2>1. \A i \in {path, dpath} : i = cw.file \/ Durable(files'[i], 0)
    BY <1>1, <1>5, <1>6 DEF Sound, DurableInv
  <2> QED BY <1>1, <1>4, <2>1 DEF DurableInv, RestInv
<1> QED BY <1>7, <1>8, <1>9 DEF Sound

\* The file with the header of the flush in progress.
LEMMA HeaderFile ==
  ASSUME IInv, Sound, phase = "up", pc = "flush_written"
  PROVE  LET f == files[cw.file]
             g == PutHeader(Sync(f), cw.seq, cw.slot, job.off + 1)
         IN  /\ g \in FileType /\ Durable(g, cw.slot) /\ Grows(f, g)
             /\ g.body = f.body /\ g.synced = Len(f.body) /\ g.dslots = f.slots
             /\ g.slots[cw.slot] = f.slots[cw.slot]
             /\ g.slots[1 - cw.slot] = NewSlot /\ Names(g, NewSlot)
             /\ job.off + 1 =< Len(f.body)
<1> DEFINE f == files[cw.file]
           off == job.off + 1
<1>1. /\ f \in FileType /\ cw.slot \in {0, 1} /\ cw.seq \in Nat /\ Durable(f, cw.slot)
      /\ f.slots[cw.slot].seq = cw.seq
  BY CurrentDurable
<1>2. Names(f, NewSlot) /\ off \in DOMAIN f.body
  BY DEF Sound, FlushInv, IInv, JobInv
<1>3. NewSlot = Slot(cw.seq + 1, off, f.body[off])
  BY DEF NewSlot
<1>4. off =< Len(f.body)
  <2>1. f.body \in Seq(Extent)
    BY <1>1, FileFields
  <2> HIDE DEF off
  <2> QED BY <1>2, <2>1
<1> HIDE DEF off, f
<1>5. LET g == PutHeader(Sync(f), cw.seq, cw.slot, off)
      IN  /\ g \in FileType /\ Durable(g, cw.slot) /\ Grows(f, g)
          /\ g.body = f.body /\ g.synced = Len(f.body) /\ g.dslots = f.slots
          /\ g.slots[cw.slot] = f.slots[cw.slot]
          /\ g.slots[1 - cw.slot] = Slot(cw.seq + 1, off, f.body[off])
          /\ Names(g, Slot(cw.seq + 1, off, f.body[off]))
  BY <1>1, <1>2, <1>3, DurableHeader, Zenon
<1> QED BY <1>3, <1>4, <1>5 DEF off, f

LEMMA FlushHeaderSound ==
  ASSUME IInv, Sound, FlushHeader
  PROVE  Sound'
<1> DEFINE f == files[cw.file]
           g == PutHeader(Sync(f), cw.seq, cw.slot, job.off + 1)
<1>1. /\ phase = "up" /\ phase' = "up" /\ ssts' = ssts /\ nextId' = nextId /\ cw' = cw
      /\ path' = path /\ dpath' = dpath /\ pc = "flush_written" /\ pc' = "header_written"
      /\ snaps' = snaps /\ job' = job /\ files' = [files EXCEPT ![cw.file] = g]
  BY DEF FlushHeader, mem, thread
<1>2. /\ g \in FileType /\ Durable(g, cw.slot) /\ Grows(f, g)
      /\ g.body = f.body /\ g.synced = Len(f.body) /\ g.slots[cw.slot] = f.slots[cw.slot]
      /\ g.slots[1 - cw.slot] = NewSlot /\ Names(g, NewSlot) /\ job.off + 1 =< Len(f.body)
  BY <1>1, HeaderFile, Zenon
<1> HIDE DEF g
<1>3. cw.file \in Inodes /\ f.slots[cw.slot].seq = cw.seq
  BY <1>1, CurrentDurable
<1>4. /\ files \in [Inodes -> FileType] /\ path \in Inodes /\ dpath \in Inodes /\ nextId \in Nat
      /\ job.ino = cw.file /\ job.ino \in Inodes
  BY <1>1, <1>3 DEF IInv, TypeOK, JobInv
<1>5. files'[cw.file] = g /\ \A j \in Inodes : j # cw.file => files'[j] = files[j]
  BY <1>1, <1>3, <1>4
<1>6. ListsInv' /\ TableIn(files', job)
  <2>1. \A j \in Inodes : Grows(files[j], files'[j])
    BY <1>2, <1>5, SameBodyGrows
  <2>2. SnapsKept
    BY <1>1, ReturningKeeps
  <2>3. TableIn(files, job)
    BY <1>1 DEF Sound, FlushInv
  <2>4. ListsInv'
    BY <1>1, <1>4, <2>1, <2>2, ListsGrow DEF Sound
  <2>5. Grows(files[job.ino], files'[job.ino])
    BY <1>4, <2>1
  <2>6. TableIn(files', job)
    BY <2>3, <2>5, TableGrows, Zenon
  <2> QED BY <2>4, <2>6
<1>7. FlushInv'
  <2>1. job.gen < nextId /\ \A i \in DOMAIN ssts : ssts[i].gen < job.gen
    BY <1>1 DEF Sound, FlushInv, FlushPCs
  <2>2. NewSlot' = NewSlot
    BY <1>1, <1>2, <1>5 DEF NewSlot
  <2> QED BY <1>1, <1>2, <1>5, <1>6, <2>1, <2>2 DEF FlushInv
<1>8. DurableInv' /\ RestInv'
  <2>1. \A i \in {path, dpath} : i = cw.file \/ Durable(files'[i], 0)
    BY <1>1, <1>4, <1>5 DEF Sound, DurableInv
  <2> QED BY <1>1, <1>2, <1>3, <1>5, <2>1 DEF DurableInv, RestInv
<1> QED BY <1>6, <1>7, <1>8 DEF Sound

LEMMA FlushHeaderSyncSound ==
  ASSUME IInv, Sound, FlushHeaderSync
  PROVE  Sound' /\ cw' = [file |-> cw.file, seq |-> cw.seq + 1, slot |-> 1 - cw.slot]
<1> DEFINE f == files[cw.file]
           g == Sync(f)
<1>1. /\ phase = "up" /\ phase' = "up" /\ ssts' = ssts /\ nextId' = nextId
      /\ cw' = [cw EXCEPT !.seq = @ + 1, !.slot = 1 - @]
      /\ path' = path /\ dpath' = dpath /\ pc = "header_written" /\ pc' = "header_synced"
      /\ snaps' = snaps /\ job' = job /\ files' = [files EXCEPT ![cw.file] = g]
  BY DEF FlushHeaderSync, mem, thread
<1>2. f \in FileType /\ cw.file \in Inodes /\ cw.slot \in {0, 1} /\ Durable(f, cw.slot)
      /\ f.slots[cw.slot].seq = cw.seq /\ cw.seq \in Nat
  BY <1>1, CurrentDurable
<1>3. cw' = [file |-> cw.file, seq |-> cw.seq + 1, slot |-> 1 - cw.slot]
  BY <1>1 DEF IInv, TypeOK
<1>4. f.slots[1 - cw.slot] = NewSlot /\ Names(f, NewSlot) /\ NewSlot.seq = cw.seq + 1
  BY <1>1, SlotFields DEF Sound, FlushInv, NewSlot
<1>5. Durable(g, 1 - cw.slot) /\ g.slots = f.slots /\ Grows(f, g)
  BY <1>2, <1>4, DurableFlip, SyncFields
<1> HIDE DEF g
<1>6. /\ files \in [Inodes -> FileType] /\ path \in Inodes /\ dpath \in Inodes /\ nextId \in Nat
      /\ job.ino = cw.file /\ job.ino \in Inodes
  BY <1>1, <1>2 DEF IInv, TypeOK, JobInv
<1>7. files'[cw.file] = g /\ \A j \in Inodes : j # cw.file => files'[j] = files[j]
  BY <1>1, <1>2, <1>6
<1>8. ListsInv' /\ TableIn(files', job)
  <2>1. \A j \in Inodes : Grows(files[j], files'[j])
    BY <1>5, <1>7, SameBodyGrows
  <2>2. SnapsKept
    BY <1>1, ReturningKeeps
  <2>3. TableIn(files, job)
    BY <1>1 DEF Sound, FlushInv
  <2>4. ListsInv'
    BY <1>1, <1>6, <2>1, <2>2, ListsGrow DEF Sound
  <2>5. Grows(files[job.ino], files'[job.ino])
    BY <1>6, <2>1
  <2>6. TableIn(files', job)
    BY <2>3, <2>5, TableGrows, Zenon
  <2> QED BY <2>4, <2>6
<1>9. FlushInv'
  <2>1. job.gen < nextId /\ \A i \in DOMAIN ssts : ssts[i].gen < job.gen
    BY <1>1 DEF Sound, FlushInv, FlushPCs
  <2> QED BY <1>1, <1>8, <2>1 DEF FlushInv
<1>10. DurableInv' /\ RestInv'
  <2>1. \A i \in {path, dpath} : i = cw.file \/ Durable(files'[i], 0)
    BY <1>1, <1>6, <1>7 DEF Sound, DurableInv
  <2> QED BY <1>1, <1>3, <1>4, <1>5, <1>7, <2>1 DEF DurableInv, RestInv
<1> QED BY <1>3, <1>8, <1>9, <1>10 DEF Sound

LEMMA FlushHeaderFailsSound ==
  ASSUME IInv, Sound, FlushHeaderFails
  PROVE  Sound'
<1> DEFINE f == files[cw.file]
           g == PutHeader(Sync(f), cw.seq, cw.slot, job.off + 1)
           torn == [g EXCEPT !.slots[1 - cw.slot] = BadSlot]
<1>1. /\ phase = "up" /\ phase' = "up" /\ ssts' = ssts /\ nextId' = nextId /\ cw' = cw
      /\ path' = path /\ dpath' = dpath /\ pc = "flush_written" /\ pc' = "idle" /\ Returning
  BY DEF FlushHeaderFails, Fails, mem
<1>2. PICK h \in {f, g, torn} : files' = [files EXCEPT ![cw.file] = h]
  BY DEF FlushHeaderFails
<1>3. f \in FileType /\ cw.slot \in {0, 1} /\ Durable(f, cw.slot)
  BY <1>1, CurrentDurable
<1>4. /\ g \in FileType /\ Durable(g, cw.slot) /\ Grows(f, g) /\ g.body = f.body
      /\ g.slots[cw.slot] = f.slots[cw.slot]
  BY <1>1, HeaderFile, Zenon
<1> HIDE DEF g
<1>5. /\ torn \in FileType /\ Durable(torn, cw.slot) /\ torn.body = g.body
      /\ torn.slots[cw.slot] = g.slots[cw.slot]
  BY <1>3, <1>4, DurableTorn, Zenon
<1> HIDE DEF torn
<1>6. /\ h \in FileType /\ Durable(h, cw.slot) /\ Grows(f, h)
      /\ h.slots[cw.slot] = f.slots[cw.slot]
  BY <1>2, <1>3, <1>4, <1>5, SameBodyGrows
<1>7. SnapsKept /\ pc' \in PlainPCs
  BY <1>1, ReturningKeeps DEF PlainPCs
<1> QED BY <1>1, <1>2, <1>6, <1>7, WriteSound

LEMMA FlushPublishSound ==
  ASSUME IInv, Sound, FlushPublish
  PROVE  Sound'
<1>1. /\ phase = "up" /\ phase' = "up" /\ files' = files /\ nextId' = nextId /\ cw' = cw
      /\ path' = path /\ dpath' = dpath /\ pc = "header_synced" /\ pc' \in {"idle", "compact"}
      /\ ssts' = Append(ssts, job) /\ Returning
  BY DEF FlushPublish, AfterFlush, disk
<1>2. \A t \in Txs : snaps'[t] = snaps[t] \/ snaps'[t] = NoSnapshot
  BY <1>1, ReturningSnaps DEF IInv
<1>3. /\ ssts \in Seq(Handle) /\ job \in Handle /\ job.gen < nextId /\ TableIn(files, job)
      /\ \A i \in DOMAIN ssts : ssts[i].gen < job.gen
  BY <1>1, StateTypes DEF IInv, TypeOK, Sound, FlushInv, FlushPCs
<1>4. /\ Len(ssts) \in Nat /\ DOMAIN ssts = 1..Len(ssts) /\ DOMAIN ssts' = 1..(Len(ssts) + 1)
      /\ \A i \in DOMAIN ssts : ssts'[i] = ssts[i]
      /\ ssts'[Len(ssts) + 1] = job
  BY <1>1, <1>3
<1>5. InOrder(ssts')
  <2> SUFFICES ASSUME NEW i \in DOMAIN ssts', NEW j \in DOMAIN ssts', i < j
               PROVE  ssts'[i].gen < ssts'[j].gen
    BY DEF InOrder
  <2>1. i \in DOMAIN ssts /\ (j \in DOMAIN ssts \/ j = Len(ssts) + 1)
    BY <1>4
  <2> QED BY <1>3, <1>4, <2>1 DEF Sound, ListsInv, InOrder
<1>6. ASSUME NEW i \in DOMAIN ssts' PROVE ssts'[i].gen < nextId /\ TableIn(files, ssts'[i])
  <2>1. i \in DOMAIN ssts \/ i = Len(ssts) + 1
    BY <1>4
  <2> QED BY <1>3, <1>4, <2>1 DEF Sound, ListsInv
<1>7. ListsInv'
  BY <1>1, <1>2, <1>5, <1>6 DEF Sound, ListsInv
<1>8. FlushInv' /\ DurableInv' /\ RestInv'
  BY <1>1 DEF Sound, FlushInv, FlushPCs, DurableInv, RestInv
<1> QED BY <1>7, <1>8 DEF Sound

\* Files that no list, path or lock refers to do not matter.
LEMMA UsedSound ==
  ASSUME IInv, Sound, UNCHANGED << phase, cw, pc, path, dpath, job, ssts, nextId, ops >>,
         phase = "up", SnapsKept,
         \A i \in {cw.file, path, dpath, job.ino} : files'[i] = files[i],
         \A i \in DOMAIN ssts : files'[ssts[i].ino] = files[ssts[i].ino],
         \A t \in Txs : snaps'[t] # NoSnapshot =>
            \A i \in DOMAIN snaps'[t].ssts :
               files'[snaps'[t].ssts[i].ino] = files[snaps'[t].ssts[i].ino]
  PROVE  Sound'
<1>1. nextId \in Nat
  BY DEF IInv, TypeOK
<1>2. ListsInv'
  BY <1>1, ListsKept, SameBodyGrows DEF Sound, SnapsKept
<1>3. FlushInv'
  <2>1. TableIn(files, job) => TableIn(files', job)
    BY DEF TableIn
  <2>2. NewSlot' = NewSlot
    BY DEF NewSlot
  <2> QED BY <2>1, <2>2 DEF Sound, FlushInv
<1>4. DurableInv' /\ RestInv'
  BY DEF Sound, DurableInv, RestInv
<1> QED BY <1>2, <1>3, <1>4 DEF Sound

\* What dropping a snapshot leaves alone.
LEMMA DropKeeps ==
  ASSUME IInv, NEW r \in Readers, DropSnapshot(r)
  PROVE  /\ \A t \in Txs : snaps'[t] = IF t = r THEN NoSnapshot ELSE snaps[t]
         /\ \A i \in {cw.file, path, dpath, job.ino} : files'[i] = files[i]
         /\ \A i \in DOMAIN ssts : files'[ssts[i].ino] = files[ssts[i].ino]
         /\ \A t \in Txs : snaps'[t] # NoSnapshot =>
               \A i \in DOMAIN snaps'[t].ssts :
                  files'[snaps'[t].ssts[i].ino] = files[snaps'[t].ssts[i].ino]
<1> DEFINE used == HeldBy(snaps') \cup Handles(Snapshot) \cup {cw.file, path, dpath, job.ino}
<1>1. snaps' = [snaps EXCEPT ![r] = NoSnapshot] /\ files' = Reclaim(files, used) /\ r \in Txs
  BY DEF DropSnapshot, Txs
<1>2. \A t \in Txs : snaps'[t] = IF t = r THEN NoSnapshot ELSE snaps[t]
  BY <1>1 DEF IInv, TypeOK
<1>3. \A i \in {cw.file, path, dpath, job.ino} : i \in used /\ i \in Inodes
  BY HandleFields DEF IInv, TypeOK
<1>4. \A i \in DOMAIN ssts : ssts[i].ino \in used /\ ssts[i].ino \in Inodes
  BY CurrentInodes, StateTypes, HandleFields DEF IInv
<1>5. ASSUME NEW t \in Txs, snaps'[t] # NoSnapshot, NEW i \in DOMAIN snaps'[t].ssts
      PROVE  snaps'[t].ssts[i].ino \in used /\ snaps'[t].ssts[i].ino \in Inodes
  <2>1. snaps'[t].ssts[i].ino \in HeldBy(snaps')
    BY <1>5, HeldInodes
  <2>2. snaps'[t] = snaps[t]
    BY <1>2, <1>5
  <2> QED BY <1>5, <2>1, <2>2, StateTypes, HandleFields DEF IInv
<1> HIDE DEF used
<1>6. \A i \in Inodes : i \in used => files'[i] = files[i]
  BY <1>1 DEF Reclaim
<1> QED BY <1>2, <1>3, <1>4, <1>5, <1>6

LEMMA EndReadSound ==
  ASSUME IInv, Sound, NEW r \in Readers, EndRead(r) \/ Verify(r)
  PROVE  Sound'
<1>1. /\ phase = "up" /\ DropSnapshot(r)
      /\ UNCHANGED << phase, cw, pc, path, dpath, job, ssts, nextId, ops >>
  BY DEF EndRead, Verify, mem, thread, history
<1>2. SnapsKept
  BY <1>1, DropKeeps DEF SnapsKept
<1>3. /\ \A i \in {cw.file, path, dpath, job.ino} : files'[i] = files[i]
      /\ \A i \in DOMAIN ssts : files'[ssts[i].ino] = files[ssts[i].ino]
      /\ \A t \in Txs : snaps'[t] # NoSnapshot =>
            \A i \in DOMAIN snaps'[t].ssts :
               files'[snaps'[t].ssts[i].ino] = files[snaps'[t].ssts[i].ino]
  BY <1>1, DropKeeps
<1> QED BY <1>1, <1>2, <1>3, UsedSound

\* The tables of a list of handles, oldest first.
TablesOf(fs, list) == [n \in DOMAIN list |-> TableAt(fs[list[n].ino], list[n].off)]

LEMMA TablesOfType ==
  ASSUME IInv
  PROVE  TablesOf(files, ssts) \in Seq(Layer) /\ Merged(TablesOf(files, ssts)) \in Layer
<1>1. ssts \in Seq(Handle) /\ Len(ssts) \in Nat /\ DOMAIN ssts = 1..Len(ssts)
  BY StateTypes DEF IInv
<1>2. \A n \in DOMAIN ssts : TableAt(files[ssts[n].ino], ssts[n].off) \in Layer
  BY StateTypes, HandleFields, TableAtType DEF IInv
<1>3. TablesOf(files, ssts) \in [1..Len(ssts) -> Layer]
  BY <1>1, <1>2 DEF TablesOf
<1>4. TablesOf(files, ssts) \in Seq(Layer)
  BY <1>1, <1>3, SeqOfFunction
<1> QED BY <1>4, MergedType, ViewIsLayer

\* What building the new file of a compaction does.
LEMMA BuildFacts ==
  ASSUME IInv, NEW new \in Inodes, CompactBuild(new)
  PROVE  /\ phase = "up" /\ phase' = "up" /\ ssts' = ssts /\ nextId' = nextId + 1 /\ cw' = cw
         /\ path' = path /\ dpath' = dpath /\ pc = "compact" /\ pc' = "built" /\ snaps' = snaps
         /\ job'.gen = nextId /\ job'.ino = new /\ job'.off = 1
         /\ files'[new] = FreshFile(nextId, Merged(TablesOf(files, ssts)))
         /\ \A i \in Inodes : i # new => files'[i] = files[i]
         /\ new \notin {cw.file, path, dpath}
         /\ \A i \in DOMAIN ssts : ssts[i].ino # new /\ ssts[i].ino \in Inodes
         /\ \A t \in Txs : snaps[t] # NoSnapshot => \A i \in DOMAIN snaps[t].ssts :
               snaps[t].ssts[i].ino # new /\ snaps[t].ssts[i].ino \in Inodes
<1>1. /\ phase = "up" /\ phase' = "up" /\ ssts' = ssts /\ nextId' = nextId + 1 /\ cw' = cw
      /\ path' = path /\ dpath' = dpath /\ pc = "compact" /\ pc' = "built" /\ snaps' = snaps
      /\ job' = [gen |-> nextId, ino |-> new, off |-> 1] /\ FreeInode(new)
      /\ files' = [files EXCEPT ![new] = FreshFile(nextId, Merged(TablesOf(files, ssts)))]
  BY DEF CompactBuild, TablesOf, TableData
<1>2. /\ files'[new] = FreshFile(nextId, Merged(TablesOf(files, ssts)))
      /\ \A i \in Inodes : i # new => files'[i] = files[i]
  <2> DEFINE f == FreshFile(nextId, Merged(TablesOf(files, ssts)))
  <2>1. files' = [files EXCEPT ![new] = f]
    BY <1>1
  <2> HIDE DEF f
  <2>2. files'[new] = f /\ \A i \in Inodes : i # new => files'[i] = files[i]
    BY <2>1 DEF IInv, TypeOK
  <2> QED BY <2>2 DEF f
<1>3. \A i \in DOMAIN ssts : ssts[i].ino # new /\ ssts[i].ino \in Inodes
  BY <1>1, CurrentInodes, StateTypes, HandleFields DEF FreeInode, IInv
<1>4. \A t \in Txs : snaps[t] # NoSnapshot => \A i \in DOMAIN snaps[t].ssts :
         snaps[t].ssts[i].ino # new /\ snaps[t].ssts[i].ino \in Inodes
  BY <1>1, HeldInodes, StateTypes, HandleFields DEF FreeInode, IInv
<1>5. new \notin {cw.file, path, dpath}
  BY <1>1 DEF FreeInode
<1>6. job'.gen = nextId /\ job'.ino = new /\ job'.off = 1
  BY <1>1
<1> QED BY <1>1, <1>2, <1>3, <1>4, <1>5, <1>6, Zenon

LEMMA CompactBuildSound ==
  ASSUME IInv, Sound, NEW new \in Inodes, CompactBuild(new)
  PROVE  Sound'
<1> DEFINE f == FreshFile(nextId, Merged(TablesOf(files, ssts)))
<1>1. /\ phase = "up" /\ phase' = "up" /\ ssts' = ssts /\ nextId' = nextId + 1 /\ cw' = cw
      /\ path' = path /\ dpath' = dpath /\ pc = "compact" /\ pc' = "built" /\ snaps' = snaps
      /\ job'.gen = nextId /\ job'.ino = new /\ job'.off = 1 /\ files'[new] = f
  BY BuildFacts, Zenon
<1>2. \A i \in Inodes : i # new => files'[i] = files[i]
  BY BuildFacts, Zenon
<1>3. new \notin {cw.file, path, dpath}
  BY BuildFacts, Zenon
<1>4. \A i \in DOMAIN ssts : ssts[i].ino # new /\ ssts[i].ino \in Inodes
  BY BuildFacts, Zenon
<1>5. \A t \in Txs : snaps[t] # NoSnapshot => \A i \in DOMAIN snaps[t].ssts :
         snaps[t].ssts[i].ino # new /\ snaps[t].ssts[i].ino \in Inodes
  BY BuildFacts, Zenon
<1>6. nextId \in Nat /\ Merged(TablesOf(files, ssts)) \in Layer
      /\ cw.file \in Inodes /\ path \in Inodes /\ dpath \in Inodes
  BY TablesOfType DEF IInv, TypeOK
<1>7. Durable(f, 0) /\ f.slots[0].seq = 1 /\ IsTable(f, 1) /\ f.body[1].gen = nextId
  BY <1>6, FreshFacts, Zenon
<1> HIDE DEF f
<1>8. ListsInv'
  <2>1. \A i \in DOMAIN ssts : Grows(files[ssts[i].ino], files'[ssts[i].ino])
    BY <1>2, <1>4, SameBodyGrows
  <2>2. \A t \in Txs : snaps'[t] # NoSnapshot =>
           \A i \in DOMAIN snaps'[t].ssts :
              Grows(files[snaps'[t].ssts[i].ino], files'[snaps'[t].ssts[i].ino])
    BY <1>1, <1>2, <1>5, SameBodyGrows
  <2>3. nextId' \in Nat /\ nextId =< nextId'
    BY <1>1, <1>6
  <2> QED BY <1>1, <2>1, <2>2, <2>3, ListsKept DEF Sound
<1>9. FlushInv'
  <2>1. TableIn(files', job')
    BY <1>1, <1>7 DEF TableIn
  <2> QED BY <1>1, <2>1 DEF FlushInv, FlushPCs
<1>10. DurableInv'
  <2>1. \A i \in {cw.file, path, dpath} : files'[i] = files[i]
    BY <1>2, <1>3, <1>6
  <2>2. /\ Durable(files'[cw.file], cw.slot) /\ files'[cw.file].slots[cw.slot].seq = cw.seq
        /\ \A i \in {path, dpath} : i = cw.file \/ Durable(files'[i], 0)
    BY <1>1, <2>1 DEF Sound, DurableInv
  <2> QED BY <1>1, <1>3, <1>7, <2>2 DEF DurableInv
<1>11. RestInv'
  BY <1>1 DEF RestInv
<1> QED BY <1>8, <1>9, <1>10, <1>11 DEF Sound

LEMMA RenameSound ==
  ASSUME IInv, Sound, CompactRename \/ CompactSyncDir \/ CompactSwap
  PROVE  Sound'
<1>1. /\ phase = "up" /\ phase' = "up" /\ files' = files /\ ssts' = ssts /\ nextId' = nextId
      /\ snaps' = snaps /\ job' = job
  BY DEF CompactRename, CompactSyncDir, CompactSwap, mem, disk, thread
<1>2. ListsInv' /\ RestInv'
  BY <1>1 DEF Sound, ListsInv, RestInv
<1>3. /\ pc \in {"built", "renamed", "dir_synced"} /\ TableIn(files, job)
      /\ pc' \in {"renamed", "dir_synced", "swapped"}
  BY DEF CompactRename, CompactSyncDir, CompactSwap, Sound, FlushInv
<1>4. FlushInv'
  BY <1>1, <1>3 DEF FlushInv, FlushPCs
<1>5. /\ Durable(files[job.ino], 0) /\ files[job.ino].slots[0].seq = 1
      /\ Durable(files[cw.file], cw.slot) /\ files[cw.file].slots[cw.slot].seq = cw.seq
      /\ \A i \in {path, dpath} : i = cw.file \/ Durable(files[i], 0)
  BY <1>1, <1>3 DEF Sound, DurableInv
<1>6. CASE CompactRename
  <2>1. path' = job.ino /\ dpath' = dpath /\ cw' = cw /\ pc' = "renamed"
    BY <1>6 DEF CompactRename
  <2>2. DurableInv'
    BY <1>1, <1>5, <2>1 DEF DurableInv
  <2> QED BY <1>2, <1>4, <2>2 DEF Sound
<1>7. CASE CompactSyncDir
  <2>1. path' = path /\ dpath' = path /\ cw' = cw /\ pc = "renamed" /\ pc' = "dir_synced"
    BY <1>7 DEF CompactSyncDir
  <2>2. path = job.ino
    BY <1>1, <2>1 DEF Sound, DurableInv
  <2>3. DurableInv'
    BY <1>1, <1>5, <2>1, <2>2 DEF DurableInv
  <2> QED BY <1>2, <1>4, <2>3 DEF Sound
<1>8. CASE CompactSwap
  <2>1. /\ path' = path /\ dpath' = dpath /\ pc = "dir_synced" /\ pc' = "swapped"
        /\ cw' = [file |-> job.ino, seq |-> 1, slot |-> 0]
    BY <1>8 DEF CompactSwap, disk
  <2>2. path = job.ino /\ dpath = job.ino
    BY <1>1, <2>1 DEF Sound, DurableInv
  <2>3. cw'.file = job.ino /\ cw'.seq = 1 /\ cw'.slot = 0
    BY <2>1
  <2>4. DurableInv'
    BY <1>1, <1>5, <2>1, <2>2, <2>3 DEF DurableInv
  <2> QED BY <1>2, <1>4, <2>4 DEF Sound
<1> QED BY <1>6, <1>7, <1>8

LEMMA CompactRenameFailsSound ==
  ASSUME IInv, Sound, CompactRenameFails
  PROVE  Sound'
<1>1. /\ phase = "up" /\ phase' = "up" /\ ssts' = ssts /\ nextId' = nextId /\ cw' = cw
      /\ path' = path /\ dpath' = dpath /\ pc = "built" /\ pc' = "idle" /\ Returning
      /\ files' = [files EXCEPT ![job.ino] = EmptyFile]
  BY DEF CompactRenameFails, Fails, mem
<1>2. SnapsKept
  BY <1>1, ReturningKeeps
<1>3. /\ cw.file \in Inodes /\ path \in Inodes /\ dpath \in Inodes /\ nextId \in Nat
      /\ \A i \in Inodes : i # job.ino => files'[i] = files[i]
  BY <1>1 DEF IInv, TypeOK
<1>4. /\ job.ino # cw.file /\ job.ino # path /\ job.ino # dpath
      /\ \A i \in DOMAIN ssts : ssts[i].ino # job.ino /\ ssts[i].ino \in Inodes
      /\ \A t \in Txs : snaps[t] # NoSnapshot => \A i \in DOMAIN snaps[t].ssts :
            snaps[t].ssts[i].ino # job.ino /\ snaps[t].ssts[i].ino \in Inodes
  BY <1>1, StateTypes, HandleFields DEF IInv, JobInv, Sound, DurableInv
<1>5. ListsInv'
  <2>1. \A i \in DOMAIN ssts : Grows(files[ssts[i].ino], files'[ssts[i].ino])
    BY <1>3, <1>4, SameBodyGrows
  <2>2. \A t \in Txs : snaps'[t] = snaps[t] \/ snaps'[t] = NoSnapshot
    BY <1>1, ReturningSnaps DEF IInv
  <2>3. \A t \in Txs : snaps'[t] # NoSnapshot =>
           \A i \in DOMAIN snaps'[t].ssts :
              Grows(files[snaps'[t].ssts[i].ino], files'[snaps'[t].ssts[i].ino])
    BY <1>3, <1>4, <2>2, SameBodyGrows
  <2> QED BY <1>1, <1>3, <2>1, <2>2, <2>3, ListsKept DEF Sound
<1>6. FlushInv' /\ DurableInv' /\ RestInv'
  BY <1>1, <1>3, <1>4 DEF Sound, FlushInv, FlushPCs, DurableInv, RestInv
<1> QED BY <1>5, <1>6 DEF Sound

\* What publishing the result of a compaction keeps.
LEMMA PublishKeeps ==
  ASSUME IInv, CompactPublish
  PROVE  /\ \A i \in {cw.file, path, dpath} : files'[i] = files[i]
         /\ \A t \in Txs : snaps'[t] = snaps[t] \/ snaps'[t] = NoSnapshot
         /\ \A t \in Txs : snaps'[t] # NoSnapshot =>
               \A i \in DOMAIN snaps'[t].ssts :
                  files'[snaps'[t].ssts[i].ino] = files[snaps'[t].ssts[i].ino]
<1> DEFINE used == HeldBy(snaps') \cup {cw.file, path, dpath}
<1>1. Returning /\ files' = Reclaim(files, used)
  BY DEF CompactPublish
<1>2. \A t \in Txs : snaps'[t] = snaps[t] \/ snaps'[t] = NoSnapshot
  BY <1>1, ReturningSnaps DEF IInv
<1>3. \A i \in {cw.file, path, dpath} : i \in used /\ i \in Inodes
  BY DEF IInv, TypeOK
<1>4. ASSUME NEW t \in Txs, snaps'[t] # NoSnapshot, NEW i \in DOMAIN snaps'[t].ssts
      PROVE  snaps'[t].ssts[i].ino \in used /\ snaps'[t].ssts[i].ino \in Inodes
  <2>1. snaps'[t].ssts[i].ino \in HeldBy(snaps')
    BY <1>4, HeldInodes
  <2>2. snaps'[t] = snaps[t]
    BY <1>2, <1>4
  <2> QED BY <1>4, <2>1, <2>2, StateTypes, HandleFields DEF IInv
<1> HIDE DEF used
<1>5. \A i \in Inodes : i \in used => files'[i] = files[i]
  BY <1>1 DEF Reclaim
<1> QED BY <1>2, <1>3, <1>4, <1>5

LEMMA CompactPublishSound ==
  ASSUME IInv, Sound, CompactPublish
  PROVE  Sound'
<1>1. /\ phase = "up" /\ phase' = "up" /\ ssts' = << job >> /\ nextId' = job.gen + 1 /\ cw' = cw
      /\ path' = path /\ dpath' = dpath /\ pc = "swapped" /\ pc' \in {"idle", "compact"}
  BY DEF CompactPublish, AfterCompact
<1>2. job.ino = cw.file /\ job.gen \in Nat /\ TableIn(files, job)
  BY <1>1, HandleFields DEF IInv, TypeOK, JobInv, Sound, FlushInv
<1>3. ListsInv'
  <2>1. TableIn(files', job)
    BY <1>2, PublishKeeps DEF TableIn
  <2>2. DOMAIN ssts' = {1} /\ ssts'[1] = job
    BY <1>1
  <2>3. InOrder(ssts')
    BY <2>2 DEF InOrder
  <2>4. \A i \in DOMAIN ssts' : ssts'[i].gen < nextId' /\ TableIn(files', ssts'[i])
    BY <1>1, <1>2, <2>1, <2>2
  <2>5. ASSUME NEW t \in Txs, snaps'[t] # NoSnapshot, NEW i \in DOMAIN snaps'[t].ssts
        PROVE  TableIn(files', snaps'[t].ssts[i])
    <3>1. TableIn(files, snaps'[t].ssts[i])
      BY <2>5, PublishKeeps DEF Sound, ListsInv
    <3> QED BY <2>5, <3>1, PublishKeeps DEF TableIn
  <2> QED BY <2>3, <2>4, <2>5 DEF ListsInv
<1>4. DurableInv'
  <2>1. \A i \in {cw.file, path, dpath} : files'[i] = files[i]
    BY PublishKeeps
  <2> QED BY <1>1, <2>1 DEF Sound, DurableInv
<1>5. FlushInv' /\ RestInv'
  BY <1>1 DEF FlushInv, FlushPCs, RestInv
<1> QED BY <1>3, <1>4, <1>5 DEF Sound

-----------------------------------------------------------------------------
(* open() and crashes *)

LEMMA DownSound ==
  ASSUME IInv, phase # "up", phase' # "up", UNCHANGED << ssts, pc, snaps >>, RestInv'
  PROVE  Sound'
<1>1. pc = "idle" /\ ssts = << >> /\ \A t \in Txs : snaps[t] = NoSnapshot
  BY DEF IInv, PhaseInv
<1>2. ListsInv' /\ FlushInv' /\ DurableInv'
  BY <1>1 DEF ListsInv, InOrder, FlushInv, FlushPCs, DurableInv
<1> QED BY <1>2 DEF Sound

\* A file of no bytes with nothing to sync is the empty file.
LEMMA BrandNewEmpty ==
  ASSUME NEW f \in FileType, BrandNew(f), Clean(f)
  PROVE  f = EmptyFile
<1>1. f.body = << >> /\ f.synced = 0 /\ f.dslots = f.slots
  BY DEF BrandNew, Clean
<1>2. f.slots = [i \in {0, 1} |-> BadSlot]
  <2>1. f.slots \in [{0, 1} -> SlotType]
    BY FileFields
  <2> QED BY <2>1 DEF BrandNew
<1>3. f = [body |-> f.body, synced |-> f.synced, slots |-> f.slots, dslots |-> f.dslots]
  BY DEF FileType
<1> QED BY <1>1, <1>2, <1>3 DEF EmptyFile

\* open() accepts every file that opens with the slot in use.
LEMMA DurableOpens ==
  ASSUME NEW f \in FileType, Durable(f, ActiveSlot(f))
  PROVE  /\ HasHeader(f) /\ ManifestReadable(f) /\ ~ BrandNew(f)
         /\ LiveManifest(f) = f.slots[ActiveSlot(f)].crc
         /\ SortByGeneration(LiveManifest(f).refs) = f.slots[ActiveSlot(f)].crc.refs
         /\ RefsIntact(f, f.slots[ActiveSlot(f)].crc.refs)
         /\ Recoverable(f)
         /\ Stored(f) = Kept(f, f.slots[ActiveSlot(f)],
                             ValidEnd(f, f.slots[ActiveSlot(f)].man + 1))
<1> DEFINE s == f.slots[ActiveSlot(f)]
<1>1. Names(f, s)
  BY DEF Durable
<1>2. /\ HasHeader(f) /\ ManifestReadable(f) /\ LiveManifest(f) = s.crc
      /\ RefsIntact(f, LiveManifest(f).refs)
      /\ SortByGeneration(LiveManifest(f).refs) = s.crc.refs
      /\ Recoverable(f)
      /\ Stored(f) = Kept(f, s, ValidEnd(f, s.man + 1))
  BY <1>1, StoredKept, Zenon
<1>3. ~ BrandNew(f)
  <2>1. s.man \in DOMAIN f.body
    BY <1>1 DEF Names
  <2> HIDE DEF s
  <2> QED BY <2>1 DEF BrandNew
<1> HIDE DEF s
<1>4. RefsIntact(f, s.crc.refs)
  BY <1>2
<1> QED BY <1>2, <1>3, <1>4 DEF s

LEMMA OpenFileSound ==
  ASSUME IInv, Sound, OpenFile
  PROVE  Sound'
<1> DEFINE f == files[path]
<1>1. /\ phase \in {"down", "failed"} /\ UNCHANGED << ssts, pc, snaps, files, path, dpath, ops >>
      /\ phase' = IF BrandNew(f) THEN "boot"
                  ELSE IF HasHeader(f) /\ ManifestReadable(f) THEN "recover" ELSE "failed"
  BY DEF OpenFile, mem, disk, history
<1>2. f \in FileType
  BY PathFile
<1>3. /\ dpath = path /\ Clean(f)
      /\ Durable(f, ActiveSlot(f)) \/ (ops = 0 /\ Blank(f))
  BY <1>1 DEF Sound, RestInv
<1> HIDE DEF f
<1>4. BrandNew(f) => f = EmptyFile /\ ops = 0
  BY <1>2, <1>3, BrandNewEmpty, DurableOpens
<1>5. HasHeader(f) => Durable(f, ActiveSlot(f))
  BY <1>3 DEF HasHeader, Blank
<1>6. ~ (HasHeader(f) /\ ManifestReadable(f)) => ops = 0 /\ Blank(f)
  BY <1>2, <1>3, DurableOpens
<1>7. RestInv'
  BY <1>1, <1>3, <1>4, <1>5, <1>6 DEF RestInv, f
<1>8. phase # "up" /\ phase' # "up"
  BY <1>1
<1> QED BY <1>1, <1>7, <1>8, DownSound

LEMMA BootSound ==
  ASSUME IInv, Sound, BootManifest \/ BootHeader \/ BootSync
  PROVE  Sound'
<1>1. UNCHANGED << ssts, pc, snaps, path, dpath, ops >>
  BY DEF BootManifest, BootHeader, BootSync, mem, history
<1>2. files \in [Inodes -> FileType] /\ path \in Inodes
  BY DEF IInv, TypeOK
<1>3. CASE BootManifest
  <2>1. /\ phase = "boot" /\ phase' = "boot_written"
        /\ files' = [files EXCEPT ![path] = AppendExtent(@, Manifest(1, << >>, 2))]
    BY <1>3 DEF BootManifest
  <2>2. files[path] = EmptyFile /\ dpath = path /\ ops = 0
    BY <2>1 DEF Sound, RestInv
  <2>3. files'[path] = BootFile
    BY <1>2, <2>1, <2>2 DEF BootFile
  <2>4. RestInv'
    BY <1>1, <2>1, <2>2, <2>3 DEF RestInv
  <2> QED BY <1>1, <2>1, <2>4, DownSound
<1>4. CASE BootHeader
  <2>1. /\ phase = "boot_written" /\ phase' = "boot_header"
        /\ files' = [files EXCEPT ![path] = PutHeader(Sync(@), 0, 1, 1)]
    BY <1>4 DEF BootHeader
  <2>2. files[path] = BootFile /\ dpath = path /\ ops = 0
    BY <2>1 DEF Sound, RestInv
  <2>3. files'[path] = BootHeaderFile
    BY <1>2, <2>1, <2>2 DEF BootHeaderFile
  <2>4. RestInv'
    BY <1>1, <2>1, <2>2, <2>3 DEF RestInv
  <2> QED BY <1>1, <2>1, <2>4, DownSound
<1>5. CASE BootSync
  <2>1. /\ phase = "boot_header" /\ phase' = "recover"
        /\ files' = [files EXCEPT ![path] = Sync(@)]
    BY <1>5 DEF BootSync
  <2>2. files[path] = BootHeaderFile /\ dpath = path
    BY <2>1 DEF Sound, RestInv
  <2>3. files'[path] = Sync(BootHeaderFile)
    BY <1>2, <2>1, <2>2
  <2>4. Clean(files'[path]) /\ Durable(files'[path], ActiveSlot(files'[path]))
    BY <2>3, BootFacts
  <2>5. RestInv'
    BY <1>1, <2>1, <2>2, <2>4 DEF RestInv
  <2> QED BY <1>1, <2>1, <2>5, DownSound
<1> QED BY <1>3, <1>4, <1>5

\* What recovery makes of the file it opens: it never fails here, and the
\* handles it opens are the references of the manifest in use.
LEMMA RecoverFacts ==
  ASSUME IInv, Sound, Recover
  PROVE  LET f  == files[path]
             at == ActiveSlot(f)
             s  == f.slots[at]
             g  == Truncate(f, ValidEnd(f, s.man + 1))
         IN  /\ phase = "recover" /\ phase' = "up" /\ path' = path /\ dpath' = path
             /\ pc = "idle" /\ pc' = "idle" /\ snaps' = snaps
             /\ \A t \in Txs : snaps[t] = NoSnapshot
             /\ f \in FileType /\ Clean(f) /\ Durable(f, at) /\ path \in Inodes
             /\ s \in SlotType /\ Names(f, s)
             /\ files' = [files EXCEPT ![path] = g] /\ files'[path] = g
             /\ active' = Flatten(Replayed(f, s.man + 1)) /\ imms' = << >>
             /\ ssts' = [i \in DOMAIN s.crc.refs |->
                           [gen |-> s.crc.refs[i].gen, ino |-> path, off |-> s.crc.refs[i].off]]
             /\ nextId' = s.crc.nextId /\ walStart' = s.man + 1
             /\ cw' = [file |-> path, seq |-> s.seq, slot |-> at]
<1> DEFINE f  == files[path]
           at == ActiveSlot(f)
           s  == f.slots[at]
           g  == Truncate(f, ValidEnd(f, s.man + 1))
<1>1. phase = "recover" /\ UNCHANGED << path, dpath, pc, snaps >>
  BY DEF Recover
<1>2. /\ pc = "idle" /\ \A t \in Txs : snaps[t] = NoSnapshot
      /\ f \in FileType /\ path \in Inodes /\ files \in [Inodes -> FileType]
      /\ dpath = path /\ Clean(f) /\ Durable(f, at)
  BY <1>1, PathFile DEF IInv, PhaseInv, TypeOK, Sound, RestInv
<1>3. /\ LiveManifest(f) = s.crc /\ RefsIntact(f, s.crc.refs)
      /\ SortByGeneration(LiveManifest(f).refs) = s.crc.refs
  BY <1>2, DurableOpens, Zenon
<1>4. s \in SlotType /\ Names(f, s) /\ s.crc.walStart = s.man + 1
  <2>1. at \in {0, 1}
    BY DEF ActiveSlot
  <2>2. s \in SlotType
    BY <1>2, <2>1, SlotsTyped
  <2> QED BY <1>2, <2>2 DEF Durable, Names
<1>5. /\ phase' = "up"
      /\ files' = [files EXCEPT ![path] = Truncate(f, ValidEnd(f, LiveManifest(f).walStart))]
      /\ active' = Flatten(Replayed(f, LiveManifest(f).walStart)) /\ imms' = << >>
      /\ ssts' = [i \in DOMAIN s.crc.refs |->
                    [gen |-> s.crc.refs[i].gen, ino |-> path, off |-> s.crc.refs[i].off]]
      /\ nextId' = LiveManifest(f).nextId /\ walStart' = LiveManifest(f).walStart
      /\ cw' = [file |-> path, seq |-> s.seq, slot |-> at]
  BY <1>3 DEF Recover
<1>6. LiveManifest(f).walStart = s.man + 1 /\ LiveManifest(f).nextId = s.crc.nextId
  BY <1>3, <1>4
<1>7. files' = [files EXCEPT ![path] = g] /\ active' = Flatten(Replayed(f, s.man + 1))
  BY <1>5, <1>6
<1> HIDE DEF g
<1>8. files'[path] = g
  BY <1>2, <1>7
<1> QED BY <1>1, <1>2, <1>4, <1>5, <1>6, <1>7, <1>8 DEF g

LEMMA RecoverSound ==
  ASSUME IInv, Sound, Recover
  PROVE  Sound'
<1> DEFINE f  == files[path]
           at == ActiveSlot(f)
           s  == f.slots[at]
           g  == Truncate(f, ValidEnd(f, s.man + 1))
           refs == s.crc.refs
<1>1. /\ phase' = "up" /\ path' = path /\ dpath' = path /\ pc' = "idle" /\ snaps' = snaps
      /\ \A t \in Txs : snaps[t] = NoSnapshot
      /\ f \in FileType /\ Clean(f) /\ Durable(f, at)
      /\ s \in SlotType /\ Names(f, s) /\ files'[path] = g
      /\ ssts' = [i \in DOMAIN refs |-> [gen |-> refs[i].gen, ino |-> path, off |-> refs[i].off]]
      /\ nextId' = s.crc.nextId /\ cw' = [file |-> path, seq |-> s.seq, slot |-> at]
  BY RecoverFacts, Zenon
<1>2. g \in FileType /\ Durable(g, at) /\ g.slots = f.slots /\ Agree(f, g, s.man)
  BY <1>1, TruncateKeeps, Zenon
<1> HIDE DEF g, f, at
<1>3. Names(g, s) /\ g.slots[at] = s
  BY <1>1, <1>2, NamesAgree
<1> HIDE DEF s
<1>4. InOrder(refs) /\ RefsIntact(g, refs) /\ \A i \in DOMAIN refs : refs[i].gen < s.crc.nextId
  BY <1>3 DEF Names
<1> HIDE DEF refs
<1>5. /\ DOMAIN ssts' = DOMAIN refs
      /\ \A i \in DOMAIN refs : /\ ssts'[i].gen = refs[i].gen /\ ssts'[i].ino = path
                                /\ ssts'[i].off = refs[i].off
  BY <1>1
<1>6. ListsInv'
  <2>1. InOrder(ssts')
    BY <1>4, <1>5 DEF InOrder
  <2>2. \A i \in DOMAIN ssts' : ssts'[i].gen < nextId' /\ TableIn(files', ssts'[i])
    BY <1>1, <1>4, <1>5 DEF TableIn, RefsIntact
  <2> QED BY <1>1, <2>1, <2>2 DEF ListsInv
<1>7. FlushInv' /\ RestInv'
  BY <1>1 DEF FlushInv, FlushPCs, RestInv
<1>8. DurableInv'
  <2>1. cw'.file = path /\ cw'.seq = s.seq /\ cw'.slot = at
    BY <1>1
  <2> QED BY <1>1, <1>2, <1>3, <2>1 DEF DurableInv
<1> QED BY <1>6, <1>7, <1>8 DEF Sound

\* Before the first header is synced a crash leaves no header, or that one.
LEMMA BlankImage ==
  ASSUME NEW f \in FileType, Blank(f), f.dslots = f.slots, f.synced =< Len(f.body),
         NEW g \in CrashImages(f)
  PROVE  Blank(g)
<1>1. \A i \in {0, 1} : g.slots[i] \in SlotOutcomes(f, i)
  BY ImageFacts
<1> QED BY <1>1 DEF Blank, SlotOutcomes

\* A crash in the middle of the bootstrap leaves a blank or a durable file.
LEMMA BootHeaderImage ==
  ASSUME NEW g \in CrashImages(BootHeaderFile)
  PROVE  Clean(g) /\ (Blank(g) \/ Durable(g, ActiveSlot(g)))
<1> DEFINE f == BootHeaderFile
           v == f.slots[0]
<1>1. /\ f \in FileType /\ f.synced = 1 /\ Len(f.body) = 1 /\ f.slots[1] = BadSlot
      /\ v \in SlotType /\ v.seq = 1 /\ v.man = 1 /\ Names(f, v)
      /\ \A i \in {0, 1} : f.dslots[i] = BadSlot
  BY BootFacts DEF Blank
<1> HIDE DEF f
<1>2. f.synced =< Len(f.body) /\ g \in CrashImages(f)
  BY <1>1 DEF f
<1>3. /\ g \in FileType /\ Clean(g) /\ Len(g.body) \in Nat /\ f.synced =< Len(g.body)
      /\ Agree(f, g, f.synced) /\ \A i \in {0, 1} : g.slots[i] \in SlotOutcomes(f, i)
  BY <1>1, <1>2, ImageFacts, Zenon
<1>4. g.slots[1] = BadSlot /\ g.slots[0] \in {v, BadSlot}
  BY <1>1, <1>3 DEF SlotOutcomes
<1>5. CASE g.slots[0] = BadSlot
  BY <1>3, <1>4, <1>5 DEF Blank
<1>6. CASE g.slots[0] = v
  <2> HIDE DEF v
  <2>1. Names(g, v)
    BY <1>1, <1>3, NamesAgree
  <2>2. BadSlot.seq = 0
    BY DEF BadSlot
  <2>3. ActiveSlot(g) = 0
    BY <1>1, <1>4, <1>6, <2>2 DEF ActiveSlot
  <2>4. g.dslots = g.slots /\ g.synced = Len(g.body)
    BY <1>3 DEF Clean
  <2>5. Durable(g, 0)
    BY <1>1, <1>3, <1>4, <1>6, <2>1, <2>2, <2>4 DEF Durable
  <2> QED BY <1>3, <2>3, <2>5
<1> QED BY <1>4, <1>5, <1>6

\* Whatever the path names, a crash leaves a file that the next open accepts,
\* unless the first open had not finished.
LEMMA ImageRests ==
  ASSUME IInv, Sound, phase \notin {"down", "failed"}, NEW i \in {path, dpath},
         NEW g \in CrashImages(files[i])
  PROVE  /\ g \in FileType /\ Clean(g)
         /\ Durable(g, ActiveSlot(g)) \/ (ops = 0 /\ Blank(g))
<1> DEFINE f == files[i]
<1>1. f \in FileType /\ i \in Inodes
  BY DEF IInv, TypeOK
<1>2. ASSUME NEW at \in {0, 1}, Durable(f, at)
      PROVE  g \in FileType /\ Clean(g) /\ Durable(g, ActiveSlot(g))
  <2>1. f.synced =< Len(f.body)
    BY <1>2 DEF Durable
  <2> QED BY <1>1, <1>2, <2>1, ImageFacts, DurableImage
<1>3. CASE phase = "up"
  <2>1. CASE i = cw.file
    BY <1>2, <1>3, <2>1, CurrentDurable
  <2>2. CASE i # cw.file
    BY <1>2, <1>3, <2>2 DEF Sound, DurableInv
  <2> QED BY <2>1, <2>2
<1>4. CASE phase = "recover"
  <2>1. Durable(f, ActiveSlot(f)) /\ ActiveSlot(f) \in {0, 1}
    BY <1>4 DEF Sound, RestInv, ActiveSlot
  <2> QED BY <1>2, <2>1
<1>5. CASE phase = "boot"
  <2>1. f = EmptyFile /\ ops = 0
    BY <1>5 DEF Sound, RestInv
  <2>2. f.synced =< Len(f.body) /\ Blank(f)
    BY <2>1, EmptyFileFields DEF Blank
  <2>3. f.dslots = f.slots
    BY <2>1 DEF EmptyFile
  <2> QED BY <1>1, <2>1, <2>2, <2>3, ImageFacts, BlankImage
<1>6. CASE phase = "boot_written"
  <2>1. f = BootFile /\ ops = 0
    BY <1>6 DEF Sound, RestInv
  <2>2. f.synced =< Len(f.body) /\ Blank(f) /\ f.dslots = f.slots
    BY <2>1, BootFacts
  <2> QED BY <1>1, <2>1, <2>2, ImageFacts, BlankImage
<1>7. CASE phase = "boot_header"
  <2>1. f = BootHeaderFile /\ ops = 0
    BY <1>7 DEF Sound, RestInv
  <2>2. BootHeaderFile.synced = 1 /\ Len(BootHeaderFile.body) = 1
    BY BootFacts
  <2>3. f.synced =< Len(f.body)
    BY <2>1, <2>2
  <2> QED BY <1>1, <2>1, <2>3, ImageFacts, BootHeaderImage
<1>8. phase \in {"up", "recover", "boot", "boot_written", "boot_header"}
  BY DEF IInv, TypeOK, Phases
<1> QED BY <1>3, <1>4, <1>5, <1>6, <1>7, <1>8

\* A crash leaves one of the two files a path may lead to, in one of its images.
LEMMA CrashFacts ==
  ASSUME IInv, Crash
  PROVE  \E i \in {path, dpath} : \E g \in CrashImages(files[i]) :
            /\ path' = i /\ dpath' = i /\ files'[i] = g /\ committed' = Stored(g)
            /\ phase \notin {"down", "failed"} /\ phase' = "down" /\ ops' = ops /\ pc' = "idle"
            /\ ssts' = << >> /\ \A t \in Txs : snaps'[t] = NoSnapshot
<1>1. /\ phase \notin {"down", "failed"} /\ phase' = "down" /\ ops' = ops /\ pc' = "idle"
      /\ ssts' = << >> /\ \A t \in Txs : snaps'[t] = NoSnapshot
  BY DEF Crash
<1>2. PICK i \in {path, dpath} : \E g \in CrashImages(files[i]) :
         /\ files' = [Reclaim(files, {}) EXCEPT ![i] = g]
         /\ path' = i /\ dpath' = i /\ committed' = Stored(g)
  BY DEF Crash
<1>3. PICK g \in CrashImages(files[i]) :
         /\ files' = [Reclaim(files, {}) EXCEPT ![i] = g]
         /\ path' = i /\ dpath' = i /\ committed' = Stored(g)
  BY <1>2
<1>4. i \in Inodes
  BY DEF IInv, TypeOK
<1>5. files'[i] = g
  BY <1>3, <1>4 DEF Reclaim
<1> QED BY <1>1, <1>3, <1>5

LEMMA CrashSound ==
  ASSUME IInv, Sound, Crash
  PROVE  Sound'
<1>1. PICK i \in {path, dpath} : \E g \in CrashImages(files[i]) :
         /\ path' = i /\ dpath' = i /\ files'[i] = g /\ committed' = Stored(g)
         /\ phase \notin {"down", "failed"} /\ phase' = "down" /\ ops' = ops /\ pc' = "idle"
         /\ ssts' = << >> /\ \A t \in Txs : snaps'[t] = NoSnapshot
  BY CrashFacts
<1>2. PICK g \in CrashImages(files[i]) :
         /\ path' = i /\ dpath' = i /\ files'[i] = g /\ committed' = Stored(g)
         /\ phase \notin {"down", "failed"} /\ phase' = "down" /\ ops' = ops /\ pc' = "idle"
         /\ ssts' = << >> /\ \A t \in Txs : snaps'[t] = NoSnapshot
  BY <1>1
<1>3. Clean(g) /\ (Durable(g, ActiveSlot(g)) \/ (ops = 0 /\ Blank(g)))
  BY <1>2, ImageRests
<1>4. RestInv'
  BY <1>2, <1>3 DEF RestInv
<1>5. ListsInv' /\ FlushInv' /\ DurableInv'
  BY <1>2 DEF ListsInv, InOrder, FlushInv, FlushPCs, DurableInv
<1> QED BY <1>4, <1>5 DEF Sound

LEMMA InitSound == Init => Sound
<1> SUFFICES ASSUME Init PROVE Sound
  OBVIOUS
<1>1. /\ phase = "down" /\ pc = "idle" /\ ssts = << >> /\ \A t \in Txs : snaps[t] = NoSnapshot
      /\ dpath = path /\ files[path] = EmptyFile /\ ops = 0
  BY DEF Init
<1>2. Clean(EmptyFile) /\ Blank(EmptyFile)
  <2>1. EmptyFile.dslots = EmptyFile.slots
    BY DEF EmptyFile
  <2> QED BY <2>1, EmptyFileFields DEF Clean, Blank
<1> QED BY <1>1, <1>2 DEF Sound, ListsInv, InOrder, FlushInv, FlushPCs, DurableInv, RestInv

LEMMA StutterSound ==
  ASSUME Sound, UNCHANGED vars
  PROVE  Sound'
  BY DEF Sound, vars, mem, disk, thread, history, ListsInv, InOrder, TableIn, FlushInv, NewSlot,
         DurableInv, RestInv

\* Every step keeps files and lists sound.
LEMMA NextSound == IInv /\ Sound /\ [Next]_vars => Sound'
<1> SUFFICES ASSUME IInv, Sound, [Next]_vars PROVE Sound'
  OBVIOUS
<1>1. CASE Start
  BY <1>1, OpenFileSound, BootSound, RecoverSound DEF Start
<1>2. CASE \E r \in Readers : BeginRead(r) \/ EndRead(r) \/ Verify(r)
  BY <1>2, ReaderSound, EndReadSound
<1>3. CASE BeginWrite \/ Rollback \/ ForceCompact
  BY <1>3, TxSound
<1>4. CASE \E k \in Keys, e \in Values \cup {Tombstone} : Buffer(k, e)
  BY <1>4, BufferSound
<1>5. CASE CommitStep
  BY <1>5, WalAppendSound, WalSyncSound, TxSound DEF CommitStep
<1>6. CASE FlushStep
  BY <1>6, RotateSound, FlushWriteSound, FlushHeaderSound, FlushHeaderSyncSound,
     FlushPublishSound DEF FlushStep
<1>7. CASE CompactStep
  BY <1>7, TxSound, CompactBuildSound, RenameSound, CompactPublishSound DEF CompactStep
<1>8. CASE Fault
  BY <1>8, WalWriteFailsSound, QuietFailsSound, FlushWriteFailsSound, FlushHeaderFailsSound,
     CompactRenameFailsSound DEF Fault
<1>9. CASE Crash
  BY <1>9, CrashSound
<1>10. CASE UNCHANGED vars
  BY <1>10, StutterSound
<1> QED BY <1>1, <1>2, <1>3, <1>4, <1>5, <1>6, <1>7, <1>8, <1>9, <1>10 DEF Next

\* No commit is ever behind a file that open() refuses: whatever fails and
\* whenever the process dies, the file under the database path opens again once
\* one operation has been acknowledged.
THEOREM LsmRefusedOnlyUnborn == Spec => []RefusedOnlyUnborn
<1>1. Sound => RefusedOnlyUnborn
  BY DEF Sound, RestInv, RefusedOnlyUnborn
<1>2. IInv /\ Sound /\ [Next]_vars => (IInv /\ Sound)'
  BY NextIInv, NextSound
<1> QED BY <1>1, <1>2, InitIInv, InitSound, PTL DEF Spec

-----------------------------------------------------------------------------
(* What a healthy engine serves *)

\* Slot s of the file, with its log read up to `end`, leads to database v.
Leads(f, s, end, v) == s.man =< end /\ Frames(f, s.man + 1, end) /\ Kept(f, s, end) = v

\* The file is all on disk, its slot `at` is the one in use and its log is
\* frames to EOF; it holds database v.
Whole(f, at, v) ==
    /\ Clean(f) /\ f.slots[1 - at].seq < f.slots[at].seq
    /\ Leads(f, f.slots[at], Len(f.body), v)

\* The database once the commit in progress is done.
Finished == Live(Overlay(committed, pending))

\* The entries in memory and in the tables are the database, at every point of
\* flush and compaction.
MemoryInv ==
    LET tables == Flatten(TablesOf(files, ssts))
    IN  /\ pc \notin FlushPCs =>
              imms = << >> /\ Live(Overlay(tables, active)) = committed
        /\ pc \in FlushPCs =>
              /\ Len(imms) = 1 /\ imms[1].id = job.gen
              /\ Live(Overlay(tables, imms[1].data)) = committed
        /\ pc \in FlushPCs \cup {"compact", "built", "renamed", "dir_synced", "swapped"} =>
              active = EmptyLayer
        /\ pc \in {"flush_written", "header_written", "header_synced"} =>
              TableAt(files[job.ino], job.off) = imms[1].data

\* What the current file holds on disk at every point of commit and flush.
FileInv ==
    LET f == files[cw.file]
        s == f.slots[cw.slot]
    IN  /\ f.dslots[1 - cw.slot].seq < cw.seq
        /\ pc \notin {"wal_written", "logged", "flush_written", "header_written"} =>
              Whole(f, cw.slot, committed)
        /\ pc = "logged" => Whole(f, cw.slot, Finished)
        /\ pc = "wal_written" =>
              /\ f.dslots = f.slots /\ f.synced = Len(f.body) - 1
              /\ Leads(f, s, Len(f.body) - 1, committed)
              /\ Leads(f, s, Len(f.body), Finished)
        /\ pc \in {"flush_written", "header_written"} =>
              /\ Len(f.body) = job.off + 1
              /\ Leads(f, s, job.off - 1, committed)
              /\ Leads(f, NewSlot, Len(f.body), committed)
        /\ pc = "flush_written" => f.dslots = f.slots /\ f.synced = job.off - 1
        /\ pc = "header_written" => f.synced = Len(f.body)

\* The path names the current file except while a compaction moves it, and the
\* file a compaction builds holds the whole database.
PathInv ==
    /\ pc \notin {"renamed", "dir_synced"} => path = cw.file
    /\ pc # "dir_synced" => dpath = cw.file
    /\ pc \in {"built", "renamed", "dir_synced", "swapped"} =>
          job.off = 1 /\ files[job.ino] = FreshFile(job.gen, committed)

\* The log starts where the engine holds it in memory, except between the two
\* halves of a publication.
StartInv ==
    LET s == files[cw.file].slots[cw.slot]
    IN  /\ pc \notin {"header_synced", "swapped"} => walStart = s.man + 1
        /\ pc = "header_synced" => s.man = job.off + 1
        /\ pc = "swapped" => s.man = 2

Consistent == MemoryInv /\ FileInv /\ PathInv /\ StartInv

\* An engine that has met no harmful I/O error is consistent with its disk.
Serving == phase = "up" /\ Healthy => Consistent

\* At rest the database is what the file under the path holds, and no
\* transaction has survived.
StoredInv == phase # "up" => committed = Stored(files[path]) /\ pending = EmptyLayer

-----------------------------------------------------------------------------
(* Files that hold a database *)

\* A slot leads to the same database in a file that agrees so far.
LEMMA LeadsAgree ==
  ASSUME NEW f \in FileType, NEW s \in SlotType, Names(f, s), NEW g, NEW end \in Nat, NEW v,
         Leads(f, s, end, v), Agree(f, g, end)
  PROVE  Leads(g, s, end, v)
<1>1. s.man =< end /\ Frames(f, s.man + 1, end) /\ Kept(f, s, end) = v
  BY DEF Leads
<1>2. Kept(g, s, end) = Kept(f, s, end) /\ Frames(g, s.man + 1, end)
  BY <1>1, KeptAgree
<1> QED BY <1>1, <1>2 DEF Leads

\* The slot a durable file is opened with.
LEMMA DurableSlot ==
  ASSUME NEW f \in FileType, NEW at \in {0, 1}, Durable(f, at)
  PROVE  /\ f.slots[at] \in SlotType /\ Names(f, f.slots[at])
         /\ f.slots[at].man \in Nat \ {0} /\ f.slots[at].man =< f.synced
         /\ f.synced \in Nat /\ Len(f.body) \in Nat /\ f.synced =< Len(f.body)
         /\ f.slots[at].seq \in Nat /\ f.slots[1 - at].seq \in Nat /\ f.dslots[1 - at].seq \in Nat
<1>1. f.slots[at] \in SlotType /\ f.slots[1 - at].seq \in Nat /\ f.dslots[1 - at].seq \in Nat
  <2>1. 1 - at \in {0, 1}
    OBVIOUS
  <2> QED BY <2>1, SlotsTyped
<1>2. Names(f, f.slots[at]) /\ f.slots[at].man =< f.synced /\ f.synced =< Len(f.body)
  BY DEF Durable
<1>3. f.slots[at].man \in Nat \ {0} /\ f.slots[at].seq \in Nat
  BY <1>1, <1>2, NamesFacts
<1>4. f.synced \in Nat /\ Len(f.body) \in Nat
  BY FileFields DEF FileType
<1> QED BY <1>1, <1>2, <1>3, <1>4

\* What open() finds in a crash image whose log stops at `end`.
LEMMA ImageStored ==
  ASSUME NEW g \in FileType, NEW s, s = g.slots[ActiveSlot(g)], Durable(g, ActiveSlot(g)),
         NEW end \in Nat, NEW v, Leads(g, s, end, v), end =< Len(g.body),
         end # Len(g.body) => g.body[end + 1].kind # "wal"
  PROVE  Stored(g) = v /\ Recoverable(g)
<1>1. Stored(g) = Kept(g, s, ValidEnd(g, s.man + 1)) /\ Recoverable(g)
  BY DurableOpens
<1>2. ActiveSlot(g) \in {0, 1}
  BY DEF ActiveSlot
<1>3. s.man \in Nat \ {0} /\ Len(g.body) \in Nat
  BY <1>2, DurableSlot
<1>4. s.man =< end /\ Frames(g, s.man + 1, end) /\ Kept(g, s, end) = v
  BY DEF Leads
<1>5. s.man + 1 \in Nat \ {0} /\ (s.man + 1) - 1 =< end
  BY <1>3, <1>4
<1>6. \A i \in (s.man + 1)..end : g.body[i].kind = "wal"
  BY <1>4 DEF Frames
<1>7. ValidEnd(g, s.man + 1) = end
  BY <1>3, <1>5, <1>6, ValidEndIs
<1> QED BY <1>1, <1>4, <1>7

\* With only one slot that a crash can find, that one is in use afterwards.
LEMMA ImageSlot ==
  ASSUME NEW f \in FileType, NEW at \in {0, 1}, Durable(f, at), NEW g \in CrashImages(f),
         f.dslots = f.slots, f.slots[1 - at].seq < f.slots[at].seq
  PROVE  ActiveSlot(g) = at /\ g.slots[ActiveSlot(g)] = f.slots[at]
<1>1. \/ ActiveSlot(g) = at /\ g.slots[ActiveSlot(g)] = f.slots[at]
      \/ /\ ActiveSlot(g) = 1 - at /\ g.slots[1 - at].seq > f.slots[at].seq
         /\ g.slots[1 - at] \in {f.slots[1 - at], f.dslots[1 - at]}
  BY DurableImage
<1>2. f.slots[at].seq \in Nat /\ f.slots[1 - at].seq \in Nat
  BY DurableSlot
<1> QED BY <1>1, <1>2

\* Every crash image of a file that is whole holds the same database.
LEMMA WholeImage ==
  ASSUME NEW f \in FileType, NEW at \in {0, 1}, Durable(f, at), NEW v, Whole(f, at, v),
         NEW g \in CrashImages(f)
  PROVE  Stored(g) = v /\ Recoverable(g)
<1> DEFINE s == f.slots[at]
<1>1. f.synced = Len(f.body) /\ f.dslots = f.slots /\ f.slots[1 - at].seq < s.seq
      /\ Leads(f, s, Len(f.body), v)
  BY DEF Whole, Clean
<1>2. Len(f.body) \in Nat /\ s \in SlotType /\ Names(f, s)
  BY DurableSlot
<1>3. g \in FileType /\ Len(g.body) \in Nat /\ Len(g.body) = Len(f.body) /\ Agree(f, g, Len(f.body))
  <2>1. f.synced =< Len(f.body)
    BY <1>1, <1>2
  <2>2. /\ g \in FileType /\ Len(g.body) \in Nat /\ f.synced =< Len(g.body)
        /\ Len(g.body) =< Len(f.body) /\ Agree(f, g, f.synced)
    BY <2>1, ImageFacts, Zenon
  <2> QED BY <1>1, <1>2, <2>2
<1>4. Durable(g, ActiveSlot(g)) /\ g.slots[ActiveSlot(g)] = s
  BY <1>1, DurableImage, ImageSlot
<1> HIDE DEF s
<1>5. Leads(g, s, Len(g.body), v) /\ Len(g.body) =< Len(g.body)
  BY <1>1, <1>2, <1>3, LeadsAgree
<1> QED BY <1>3, <1>4, <1>5, ImageStored

\* A frame that is written and not synced is kept whole or lost whole.
LEMMA LoggingImage ==
  ASSUME NEW f \in FileType, NEW at \in {0, 1}, Durable(f, at), NEW v, NEW w,
         f.dslots = f.slots, f.slots[1 - at].seq < f.slots[at].seq,
         f.synced = Len(f.body) - 1, Leads(f, f.slots[at], Len(f.body) - 1, v),
         Leads(f, f.slots[at], Len(f.body), w), NEW g \in CrashImages(f)
  PROVE  Stored(g) \in {v, w} /\ Recoverable(g)
<1> DEFINE s == f.slots[at]
           n == Len(f.body)
<1>1. n \in Nat /\ n - 1 \in Nat /\ s \in SlotType /\ Names(f, s)
  BY DurableSlot
<1>2. Durable(g, ActiveSlot(g)) /\ g.slots[ActiveSlot(g)] = s
  BY DurableImage, ImageSlot
<1>3. Leads(f, s, n - 1, v) /\ Leads(f, s, n, w)
  OBVIOUS
<1>4. f.synced =< Len(f.body)
  BY <1>1
<1>5. /\ g \in FileType /\ Len(g.body) \in Nat /\ f.synced =< Len(g.body) /\ Len(g.body) =< n
      /\ Agree(f, g, f.synced)
      /\ \A i \in 1..Len(g.body) : g.body[i] = f.body[i] \/ (i > f.synced /\ g.body[i] = Junk)
  BY <1>4, ImageFacts, Zenon
<1>6. f.synced = n - 1
  OBVIOUS
<1> HIDE DEF s, n
<1>7. Leads(g, s, n - 1, v)
  BY <1>1, <1>3, <1>5, <1>6, LeadsAgree
<1>8. CASE Len(g.body) = n - 1
  <2>1. Leads(g, s, Len(g.body), v) /\ Len(g.body) =< Len(g.body)
    BY <1>5, <1>7, <1>8
  <2>2. Stored(g) = v /\ Recoverable(g)
    BY <1>2, <1>5, <2>1, ImageStored
  <2> QED BY <2>2
<1>9. CASE Len(g.body) = n /\ g.body[n] = Junk
  <2>1. g.body[(n - 1) + 1].kind # "wal" /\ n - 1 =< Len(g.body)
    BY <1>1, <1>9 DEF Junk
  <2> QED BY <1>1, <1>2, <1>5, <1>7, <2>1, ImageStored
<1>10. CASE Len(g.body) = n /\ g.body[n] = f.body[n]
  <2>1. Agree(f, g, n)
    <3>1. g.body \in Seq(Extent) /\ f.body \in Seq(Extent)
      BY <1>5, FileFields
    <3> SUFFICES ASSUME NEW i \in 1..n
                 PROVE  i \in DOMAIN f.body /\ i \in DOMAIN g.body /\ g.body[i] = f.body[i]
      BY DEF Agree
    <3>2. i = n \/ i \in 1..(n - 1)
      BY <1>1
    <3>3. i \in DOMAIN f.body /\ i \in DOMAIN g.body
      BY <1>10, <3>1 DEF n
    <3> QED BY <1>5, <1>6, <1>10, <3>2, <3>3 DEF Agree
  <2>2. Leads(g, s, n, w)
    BY <1>1, <1>3, <2>1, LeadsAgree
  <2> QED BY <1>1, <1>2, <1>5, <1>10, <2>2, ImageStored
<1>11. n = 0 \/ n \in 1..n
  BY <1>1
<1>12. Len(g.body) = n - 1 \/ Len(g.body) = n
  BY <1>1, <1>5, <1>6
<1> QED BY <1>1, <1>5, <1>8, <1>9, <1>10, <1>11, <1>12

\* Extents behind the log that are no frames do not matter.
LEMMA TailImage ==
  ASSUME NEW f \in FileType, NEW at \in {0, 1}, Durable(f, at), NEW g \in CrashImages(f),
         g.slots[ActiveSlot(g)] = f.slots[at], NEW v, NEW end \in Nat, end =< f.synced,
         end < Len(f.body), f.body[end + 1].kind # "wal", Leads(f, f.slots[at], end, v)
  PROVE  Stored(g) = v /\ Recoverable(g)
<1> DEFINE s == f.slots[at]
<1>1. /\ Len(f.body) \in Nat /\ f.synced \in Nat /\ f.synced =< Len(f.body)
      /\ s \in SlotType /\ Names(f, s)
  BY DurableSlot
<1>2. Durable(g, ActiveSlot(g)) /\ g.slots[ActiveSlot(g)] = s /\ Leads(f, s, end, v)
  BY DurableImage
<1>3. /\ g \in FileType /\ Len(g.body) \in Nat /\ f.synced =< Len(g.body)
      /\ Agree(f, g, f.synced)
      /\ \A i \in 1..Len(g.body) : g.body[i] = f.body[i] \/ (i > f.synced /\ g.body[i] = Junk)
  BY <1>1, ImageFacts, Zenon
<1> HIDE DEF s
<1>4. Agree(f, g, end)
  BY <1>1, <1>3, AgreeShorter
<1>5. Leads(g, s, end, v)
  BY <1>1, <1>2, <1>4, LeadsAgree
<1>6. end =< Len(g.body)
  BY <1>1, <1>3
<1>7. end # Len(g.body) => g.body[end + 1].kind # "wal"
  <2> SUFFICES ASSUME end # Len(g.body) PROVE g.body[end + 1].kind # "wal"
    OBVIOUS
  <2>1. end + 1 \in 1..Len(g.body)
    BY <1>3, <1>6
  <2>2. Junk.kind # "wal"
    BY DEF Junk
  <2> QED BY <1>3, <2>1, <2>2
<1> QED BY <1>2, <1>3, <1>5, <1>6, <1>7, ImageStored

\* A header that is written and not synced: both slots lead to the database.
LEMMA HeaderImage ==
  ASSUME NEW f \in FileType, NEW at \in {0, 1}, Durable(f, at), NEW g \in CrashImages(f),
         NEW v, NEW end \in Nat, end < Len(f.body), f.body[end + 1].kind # "wal",
         Leads(f, f.slots[at], end, v), f.synced = Len(f.body),
         f.dslots[1 - at].seq < f.slots[at].seq, Names(f, f.slots[1 - at]),
         Leads(f, f.slots[1 - at], Len(f.body), v)
  PROVE  Stored(g) = v /\ Recoverable(g)
<1>1. /\ Len(f.body) \in Nat /\ f.slots[at].seq \in Nat /\ f.dslots[1 - at].seq \in Nat
      /\ f.slots[1 - at].seq \in Nat
  BY DurableSlot
<1>2. /\ Durable(g, ActiveSlot(g))
      /\ \/ g.slots[ActiveSlot(g)] = f.slots[at]
         \/ g.slots[ActiveSlot(g)] = f.slots[1 - at]
  <2>1. /\ Durable(g, ActiveSlot(g))
        /\ \/ ActiveSlot(g) = at /\ g.slots[ActiveSlot(g)] = f.slots[at]
           \/ /\ ActiveSlot(g) = 1 - at /\ g.slots[1 - at].seq > f.slots[at].seq
              /\ g.slots[1 - at] \in {f.slots[1 - at], f.dslots[1 - at]}
    BY DurableImage
  <2> QED BY <1>1, <2>1
<1>3. CASE g.slots[ActiveSlot(g)] = f.slots[at]
  <2>1. end =< f.synced
    BY <1>1
  <2> QED BY <1>3, <2>1, TailImage
<1>4. CASE g.slots[ActiveSlot(g)] = f.slots[1 - at]
  <2> DEFINE s == f.slots[1 - at]
  <2>1. s \in SlotType /\ Names(f, s) /\ Leads(f, s, Len(f.body), v)
    <3>1. 1 - at \in {0, 1}
      OBVIOUS
    <3> QED BY <3>1, SlotsTyped
  <2>2. f.synced =< Len(f.body)
    BY <1>1
  <2>3. /\ g \in FileType /\ Len(g.body) \in Nat /\ f.synced =< Len(g.body)
        /\ Len(g.body) =< Len(f.body) /\ Agree(f, g, f.synced)
    BY <2>2, ImageFacts, Zenon
  <2> HIDE DEF s
  <2>4. Len(g.body) = Len(f.body) /\ Agree(f, g, Len(f.body))
    BY <1>1, <2>3
  <2>5. Leads(g, s, Len(g.body), v) /\ Len(g.body) =< Len(g.body)
    BY <1>1, <2>1, <2>3, <2>4, LeadsAgree
  <2> QED BY <1>2, <1>4, <2>3, <2>5, ImageStored DEF s
<1> QED BY <1>2, <1>3, <1>4

\* Writing a frame behind a whole file.
LEMMA AppendLeads ==
  ASSUME NEW f \in FileType, NEW at \in {0, 1}, Durable(f, at), NEW v, Whole(f, at, v),
         NEW p \in Layer
  PROVE  LET g == AppendExtent(f, Frame(p))
             n == Len(g.body)
         IN  /\ g \in FileType /\ g.dslots = g.slots /\ g.slots = f.slots /\ g.synced = n - 1
             /\ Leads(g, g.slots[at], n - 1, v)
             /\ Leads(g, g.slots[at], n, Live(Overlay(v, p)))
<1> DEFINE g == AppendExtent(f, Frame(p))
           n == Len(g.body)
           m == Len(f.body)
           s == f.slots[at]
<1>1. f.synced = m /\ f.dslots = f.slots /\ Leads(f, s, m, v)
  BY DEF Whole, Clean
<1>2. m \in Nat /\ s \in SlotType /\ Names(f, s) /\ s.man \in Nat \ {0}
  BY DurableSlot
<1>3. Frame(p) \in Extent /\ Frame(p).kind = "wal" /\ Frame(p).data = p
  BY ExtentTypes DEF Frame
<1>4. /\ g \in FileType /\ Grows(f, g) /\ g.slots = f.slots /\ g.dslots = f.dslots
      /\ g.synced = f.synced /\ n = m + 1 /\ g.body[m + 1] = Frame(p) /\ g.body \in Seq(Extent)
  BY <1>3, AppendFields, Zenon
<1> HIDE DEF g, n
<1>5. Agree(f, g, m)
  BY <1>2, <1>4, GrowsAgree
<1> HIDE DEF m, s
<1>6. Leads(g, s, m, v) /\ Names(g, s)
  BY <1>1, <1>2, <1>4, <1>5, LeadsAgree, NamesGrows
<1>7. s.man =< m /\ Frames(g, s.man + 1, m) /\ Kept(g, s, m) = v
  BY <1>6 DEF Leads
<1>8. Frames(g, s.man + 1, m + 1)
  <2> SUFFICES ASSUME NEW i \in (s.man + 1)..(m + 1)
               PROVE  i \in DOMAIN g.body /\ g.body[i].kind = "wal"
    BY DEF Frames
  <2>1. i = m + 1 \/ i \in (s.man + 1)..m
    BY <1>2
  <2>2. m + 1 \in DOMAIN g.body
    BY <1>2, <1>4 DEF n
  <2> QED BY <1>3, <1>4, <1>7, <2>1, <2>2 DEF Frames
<1>9. Kept(g, s, m + 1) = Live(Overlay(v, p))
  BY <1>2, <1>3, <1>4, <1>6, <1>7, <1>8, KeptFrame
<1>10. s.man =< m + 1
  BY <1>2, <1>7
<1>11. Leads(g, s, m + 1, Live(Overlay(v, p)))
  BY <1>8, <1>9, <1>10 DEF Leads
<1>12. n - 1 = m
  BY <1>2, <1>4
<1> QED BY <1>1, <1>4, <1>6, <1>11, <1>12 DEF g, n, s

\* Syncing a file whose log is frames to EOF.
LEMMA SyncWhole ==
  ASSUME NEW f \in FileType, NEW at \in {0, 1}, NEW v, Names(f, f.slots[at]),
         f.slots[1 - at].seq < f.slots[at].seq, Leads(f, f.slots[at], Len(f.body), v)
  PROVE  Whole(Sync(f), at, v)
<1> DEFINE g == Sync(f)
<1>1. g.slots = f.slots /\ g.body = f.body /\ Clean(g) /\ Grows(f, g)
  BY SyncFields
<1>2. f.slots[at] \in SlotType /\ Len(f.body) \in Nat
  BY SlotsTyped, FileFields
<1> HIDE DEF g
<1>3. Agree(f, g, Len(f.body))
  BY <1>1, <1>2, GrowsAgree
<1>4. Leads(g, f.slots[at], Len(f.body), v)
  BY <1>2, <1>3, LeadsAgree
<1> QED BY <1>1, <1>4 DEF Whole, g

\* The file a compaction builds, and the file recovery leaves.
LEMMA FreshWhole ==
  ASSUME NEW gen \in Nat, NEW v \in View
  PROVE  LET g == FreshFile(gen, v)
         IN  /\ g \in FileType /\ Durable(g, 0) /\ Whole(g, 0, v) /\ g.slots[0].man = 2
             /\ g.slots[0].seq = 1 /\ g.slots[1].seq = 0 /\ TableAt(g, 1) = v
<1> DEFINE g == FreshFile(gen, v)
           s == g.slots[0]
<1>1. v \in Layer /\ Live(v) = v
  BY ViewIsLayer, LiveView
<1>2. /\ g \in FileType /\ Clean(g) /\ Durable(g, 0) /\ s.seq = 1 /\ s.man = 2
      /\ g.slots[1] = BadSlot /\ Len(g.body) = 2 /\ TableAt(g, 1) = v
      /\ Kept(g, s, 2) = Live(v) /\ Frames(g, 3, 2)
  BY <1>1, FreshFacts, Zenon
<1> HIDE DEF g, s
<1>3. BadSlot.seq = 0
  BY DEF BadSlot
<1>4. Leads(g, s, 2, v)
  BY <1>1, <1>2 DEF Leads
<1>5. Whole(g, 0, v)
  BY <1>2, <1>3, <1>4 DEF Whole, s
<1> QED BY <1>2, <1>3, <1>5 DEF g, s

\* Recovery cuts the torn log and leaves a whole file.
LEMMA RecoveredWhole ==
  ASSUME NEW f \in FileType, Clean(f), Durable(f, ActiveSlot(f))
  PROVE  LET at == ActiveSlot(f)
             s  == f.slots[at]
             g  == Truncate(f, ValidEnd(f, s.man + 1))
         IN  Whole(g, at, Stored(f)) /\ g.slots = f.slots
<1> DEFINE at == ActiveSlot(f)
           s  == f.slots[at]
           g  == Truncate(f, ValidEnd(f, s.man + 1))
<1>1. /\ g \in FileType /\ Clean(g) /\ Durable(g, at) /\ g.slots = f.slots
      /\ s.man =< Len(g.body) /\ Frames(g, s.man + 1, Len(g.body))
      /\ Kept(g, s, Len(g.body)) = Stored(f)
  BY TruncateKeeps, Zenon
<1>2. f.slots[1 - at].seq < s.seq
  BY ActiveNewer
<1> HIDE DEF g, at
<1>3. Leads(g, s, Len(g.body), Stored(f)) /\ g.slots[at] = s
  BY <1>1 DEF Leads
<1> QED BY <1>1, <1>2, <1>3 DEF Whole, g, at

-----------------------------------------------------------------------------
(* Every step keeps a healthy engine consistent *)

\* The points at which no operation has anything half done.
RestPCs == {"idle", "tx", "flush", "compact"}

\* The tables read the same as long as their files only grow.
LEMMA TablesKept ==
  ASSUME IInv, ListsInv, \A i \in DOMAIN ssts : Grows(files[ssts[i].ino], files'[ssts[i].ino])
  PROVE  TablesOf(files', ssts) = TablesOf(files, ssts)
<1>1. ASSUME NEW i \in DOMAIN ssts
      PROVE  TableAt(files'[ssts[i].ino], ssts[i].off) = TableAt(files[ssts[i].ino], ssts[i].off)
  <2>1. ssts[i].off \in DOMAIN files[ssts[i].ino].body
    BY DEF ListsInv, TableIn, IsTable
  <2> QED BY <2>1, TableKept
<1> QED BY <1>1 DEF TablesOf

\* The tables are in the current file, which a step only makes longer.
LEMMA HandlesCurrent ==
  ASSUME IInv, phase = "up", pc # "swapped", NEW f, files' = [files EXCEPT ![cw.file] = f],
         Grows(files[cw.file], f)
  PROVE  \A i \in DOMAIN ssts : Grows(files[ssts[i].ino], files'[ssts[i].ino])
<1>1. files'[cw.file] = f
  BY CurrentFile DEF IInv, TypeOK
<1> QED BY <1>1 DEF IInv, CurrentInv

\* Steps that leave the files and the lists alone.
LEMMA QuietConsistent ==
  ASSUME IInv, Sound, Consistent, phase = "up",
         UNCHANGED << active, imms, ssts, walStart, cw, path, dpath, committed >>,
         files'[cw.file] = files[cw.file],
         \A i \in DOMAIN ssts : files'[ssts[i].ino] = files[ssts[i].ino],
         \/ /\ pc \in RestPCs \cup {"built"} /\ pc' \in RestPCs
            /\ pc' = "compact" => active = EmptyLayer
         \/ /\ UNCHANGED << pc, job >> /\ files'[job.ino] = files[job.ino]
            /\ pc \in {"tx"} \/ pending' = pending
  PROVE  Consistent'
<1>1. TablesOf(files', ssts') = TablesOf(files, ssts)
  <2>1. \A i \in DOMAIN ssts : Grows(files[ssts[i].ino], files'[ssts[i].ino])
    BY SameBodyGrows
  <2> QED BY <2>1, TablesKept DEF Sound
<1>2. MemoryInv'
  BY <1>1 DEF Consistent, MemoryInv, RestPCs, FlushPCs
<1>3. FileInv'
  BY DEF Consistent, FileInv, RestPCs, NewSlot, Finished
<1>4. PathInv'
  BY DEF Consistent, PathInv, RestPCs
<1>5. StartInv'
  BY DEF Consistent, StartInv, RestPCs
<1> QED BY <1>2, <1>3, <1>4, <1>5 DEF Consistent

\* Steps that touch neither memtables nor files.
LEMMA TxConsistent ==
  ASSUME IInv, Sound, Consistent,
         \/ BeginWrite \/ Rollback \/ ForceCompact \/ CompactSkip \/ CompactBuildFails
         \/ (FlushRotate /\ active = EmptyLayer)
         \/ \E r \in Readers : BeginRead(r)
         \/ \E k \in Keys, e \in Values \cup {Tombstone} : Buffer(k, e)
  PROVE  Consistent'
<1>1. /\ phase = "up" /\ files' = files
      /\ UNCHANGED << active, imms, ssts, walStart, cw, path, dpath, committed >>
  BY DEF BeginWrite, Rollback, ForceCompact, CompactSkip, CompactBuildFails, Fails, FlushRotate,
         BeginRead, Buffer, mem, disk, history
<1>2. \/ pc \in RestPCs /\ pc' \in RestPCs /\ (pc' = "compact" => active = EmptyLayer)
      \/ UNCHANGED << pc, job >> /\ (pc \in {"tx"} \/ pending' = pending)
  <2>1. CASE BeginWrite \/ Rollback \/ ForceCompact \/ CompactBuildFails
    BY <2>1 DEF BeginWrite, Rollback, ForceCompact, CompactBuildFails, Fails, RestPCs
  <2>2. CASE CompactSkip
    <3>1. pc = "compact" /\ pc' \in RestPCs
      BY <2>2 DEF CompactSkip, AfterCompact, RestPCs
    <3>2. active = EmptyLayer
      BY <3>1 DEF Consistent, MemoryInv
    <3> QED BY <3>1, <3>2 DEF RestPCs
  <2>3. CASE FlushRotate /\ active = EmptyLayer
    BY <2>3 DEF FlushRotate, AfterFlush, RestPCs
  <2>4. CASE \E r \in Readers : BeginRead(r)
    BY <2>4 DEF BeginRead, thread
  <2>5. CASE \E k \in Keys, e \in Values \cup {Tombstone} : Buffer(k, e)
    BY <2>5 DEF Buffer, thread
  <2> QED BY <2>1, <2>2, <2>3, <2>4, <2>5
<1> QED BY <1>1, <1>2, QuietConsistent

LEMMA EndReadConsistent ==
  ASSUME IInv, Sound, Consistent, NEW r \in Readers, EndRead(r) \/ Verify(r)
  PROVE  Consistent'
<1>1. /\ phase = "up" /\ DropSnapshot(r)
      /\ UNCHANGED << active, imms, ssts, walStart, cw, path, dpath, committed, pc, job, pending >>
  BY DEF EndRead, Verify, mem, thread, history
<1>2. /\ files'[cw.file] = files[cw.file] /\ files'[job.ino] = files[job.ino]
      /\ \A i \in DOMAIN ssts : files'[ssts[i].ino] = files[ssts[i].ino]
  BY <1>1, DropKeeps
<1> QED BY <1>1, <1>2, QuietConsistent

LEMMA WalAppendConsistent ==
  ASSUME IInv, Sound, Consistent, WalAppend
  PROVE  Consistent'
<1> DEFINE f == files[cw.file]
           g == AppendExtent(f, Frame(pending))
<1>1. /\ phase = "up" /\ pc = "tx" /\ pc' = "wal_written"
      /\ files' = [files EXCEPT ![cw.file] = g]
      /\ UNCHANGED << active, imms, ssts, walStart, cw, path, dpath, committed, pending >>
  BY DEF WalAppend, mem
<1>2. f \in FileType /\ cw.slot \in {0, 1} /\ Durable(f, cw.slot) /\ cw.file \in Inodes
  BY <1>1, CurrentDurable
<1>3. pending \in Layer
  BY DEF IInv, TypeOK
<1>4. Whole(f, cw.slot, committed) /\ f.dslots[1 - cw.slot].seq < cw.seq
  BY <1>1 DEF Consistent, FileInv
<1>5. /\ g \in FileType /\ g.dslots = g.slots /\ g.slots = f.slots /\ g.synced = Len(g.body) - 1
      /\ Leads(g, g.slots[cw.slot], Len(g.body) - 1, committed)
      /\ Leads(g, g.slots[cw.slot], Len(g.body), Finished)
  <2> HIDE DEF f, g
  <2>1. LET h == AppendExtent(f, Frame(pending))
            n == Len(h.body)
        IN  /\ h \in FileType /\ h.dslots = h.slots /\ h.slots = f.slots /\ h.synced = n - 1
            /\ Leads(h, h.slots[cw.slot], n - 1, committed)
            /\ Leads(h, h.slots[cw.slot], n, Live(Overlay(committed, pending)))
    BY <1>2, <1>3, <1>4, AppendLeads, Zenon
  <2> QED BY <2>1, Zenon DEF g, Finished
<1>6. Grows(f, g)
  BY <1>2, <1>3, AppendGrows, ExtentTypes
<1>7. files'[cw.file] = g
  BY <1>1, <1>2 DEF IInv, TypeOK
<1> HIDE DEF g
<1>8. TablesOf(files', ssts') = TablesOf(files, ssts)
  BY <1>1, <1>6, HandlesCurrent, TablesKept DEF Sound
<1>9. MemoryInv'
  BY <1>1, <1>8 DEF Consistent, MemoryInv, FlushPCs
<1>10. FileInv'
  <2>1. Finished' = Finished
    BY <1>1 DEF Finished
  <2>2. g.dslots = f.dslots
    BY <1>4, <1>5 DEF Whole, Clean
  <2> QED BY <1>1, <1>4, <1>5, <1>7, <2>1, <2>2 DEF FileInv
<1>11. PathInv'
  BY <1>1 DEF Consistent, PathInv
<1>12. StartInv'
  BY <1>1, <1>5, <1>7 DEF Consistent, StartInv
<1> QED BY <1>9, <1>10, <1>11, <1>12 DEF Consistent

LEMMA WalSyncConsistent ==
  ASSUME IInv, Sound, Consistent, WalSync
  PROVE  Consistent'
<1> DEFINE f == files[cw.file]
           g == Sync(f)
<1>1. /\ phase = "up" /\ pc = "wal_written" /\ pc' = "logged"
      /\ files' = [files EXCEPT ![cw.file] = g]
      /\ UNCHANGED << active, imms, ssts, walStart, cw, path, dpath, committed, pending >>
  BY DEF WalSync, mem, history
<1>2. /\ f \in FileType /\ cw.slot \in {0, 1} /\ Durable(f, cw.slot) /\ cw.file \in Inodes
      /\ f.slots[cw.slot].seq = cw.seq
  BY <1>1, CurrentDurable
<1>3. f.dslots = f.slots /\ Leads(f, f.slots[cw.slot], Len(f.body), Finished)
      /\ f.dslots[1 - cw.slot].seq < cw.seq
  BY <1>1 DEF Consistent, FileInv
<1>4. Names(f, f.slots[cw.slot])
  BY <1>2, DurableSlot
<1>5. Whole(g, cw.slot, Finished)
  BY <1>2, <1>3, <1>4, SyncWhole
<1>6. g.slots = f.slots /\ g.dslots = f.slots /\ Grows(f, g)
  BY <1>2, SyncFields
<1>7. files'[cw.file] = g
  BY <1>1, <1>2 DEF IInv, TypeOK
<1> HIDE DEF g
<1>8. TablesOf(files', ssts') = TablesOf(files, ssts)
  BY <1>1, <1>6, HandlesCurrent, TablesKept DEF Sound
<1>9. MemoryInv'
  BY <1>1, <1>8 DEF Consistent, MemoryInv, FlushPCs
<1>10. FileInv'
  <2>1. Finished' = Finished
    BY <1>1 DEF Finished
  <2> QED BY <1>1, <1>3, <1>5, <1>6, <1>7, <2>1 DEF FileInv
<1>11. PathInv'
  BY <1>1 DEF Consistent, PathInv
<1>12. StartInv'
  BY <1>1, <1>6, <1>7 DEF Consistent, StartInv
<1> QED BY <1>9, <1>10, <1>11, <1>12 DEF Consistent

LEMMA ApplyConsistent ==
  ASSUME IInv, Sound, Consistent, Apply
  PROVE  Consistent'
<1>1. /\ phase = "up" /\ pc = "logged" /\ pc' \in {"flush", "idle"} /\ files' = files
      /\ active' = Overlay(active, pending) /\ committed' = Finished
      /\ UNCHANGED << imms, ssts, walStart, cw, path, dpath >>
  BY DEF Apply, disk, Finished
<1> DEFINE tables == Flatten(TablesOf(files, ssts))
<1>2. tables \in Layer /\ active \in Layer /\ pending \in Layer
  BY TablesOfType, FlattenType, StateTypes DEF IInv, TypeOK
<1>3. imms = << >> /\ Live(Overlay(tables, active)) = committed
  BY <1>1 DEF Consistent, MemoryInv, FlushPCs
<1>4. Live(Overlay(tables, active')) = committed'
  <2> HIDE DEF tables
  <2>1. Overlay(tables, Overlay(active, pending)) = Overlay(Overlay(tables, active), pending)
    BY <1>2, OverlayAlgebra
  <2>2. Overlay(tables, active) \in Layer
    BY <1>2, OverlayType
  <2>3. Live(Overlay(Live(Overlay(tables, active)), pending)) =
            Live(Overlay(Overlay(tables, active), pending))
    BY <1>2, <2>2, OverlayAlgebra
  <2> QED BY <1>1, <1>3, <2>1, <2>3 DEF Finished
<1>5. MemoryInv'
  BY <1>1, <1>3, <1>4 DEF MemoryInv, FlushPCs
<1>6. FileInv'
  BY <1>1 DEF Consistent, FileInv
<1>7. PathInv'
  BY <1>1 DEF Consistent, PathInv
<1>8. StartInv'
  BY <1>1 DEF Consistent, StartInv
<1> QED BY <1>5, <1>6, <1>7, <1>8 DEF Consistent

\* The active memtable moves to the immutable ones as a whole.
LEMMA RotateConsistent ==
  ASSUME IInv, Sound, Consistent, FlushRotate
  PROVE  Consistent'
<1>1. CASE active = EmptyLayer
  BY <1>1, TxConsistent
<1>2. CASE active # EmptyLayer
  <2>1. /\ phase = "up" /\ pc = "flush" /\ pc' = "rotated" /\ files' = files
        /\ imms' = Append(imms, [id |-> nextId, data |-> active]) /\ active' = EmptyLayer
        /\ job' = [gen |-> nextId, ino |-> cw.file, off |-> 0]
        /\ UNCHANGED << ssts, walStart, cw, path, dpath, committed >>
    BY <1>2 DEF FlushRotate, disk, history
  <2>2. imms = << >> /\ Live(Overlay(Flatten(TablesOf(files, ssts)), active)) = committed
    BY <2>1 DEF Consistent, MemoryInv, FlushPCs
  <2>3. Len(imms') = 1 /\ imms'[1].id = nextId /\ imms'[1].data = active /\ job'.gen = nextId
    <3> HIDE DEF Consistent
    <3> QED BY <2>1, <2>2
  <2>4. MemoryInv'
    BY <2>1, <2>2, <2>3 DEF MemoryInv, FlushPCs
  <2>5. FileInv'
    BY <2>1 DEF Consistent, FileInv
  <2>6. PathInv'
    BY <2>1 DEF Consistent, PathInv
  <2>7. StartInv'
    BY <2>1 DEF Consistent, StartInv
  <2> QED BY <2>4, <2>5, <2>6, <2>7 DEF Consistent
<1> QED BY <1>1, <1>2

\* The manifest a flush writes lists the tables in use and the new one.
LEMMA FlushTables ==
  ASSUME IInv, Sound, Consistent, FlushWrite
  PROVE  Leads(files'[cw.file], NewSlot', Len(files'[cw.file].body), committed)
<1> DEFINE f == files[cw.file]
           g == files'[cw.file]
           s == NewSlot'
           T == TablesOf(files, ssts)
           l == imms[1].data
<1>1. phase = "up" /\ pc = "rotated" /\ imms' = imms /\ ssts' = ssts
  BY DEF FlushWrite, mem
<1>2. /\ g \in FileType /\ Grows(f, g) /\ files' = [files EXCEPT ![cw.file] = g]
      /\ Len(f.body) \in Nat /\ Len(g.body) = Len(f.body) + 2
      /\ job'.off = Len(f.body) + 1 /\ job'.ino = cw.file
      /\ TableData(job)' = imms[Len(imms)].data
      /\ s \in SlotType /\ Names(g, s) /\ s.man = Len(f.body) + 2
      /\ DOMAIN s.crc.refs = 1..(Len(ssts) + 1)
      /\ \A i \in 1..Len(ssts) : s.crc.refs[i].off = ssts[i].off
      /\ s.crc.refs[Len(ssts) + 1].off = Len(f.body) + 1
  BY FlushFile, Zenon
<1>3. Len(imms) = 1 /\ Live(Overlay(Flatten(T), l)) = committed
  BY <1>1 DEF Consistent, MemoryInv, FlushPCs
<1>4. TableAt(g, Len(f.body) + 1) = l
  BY <1>2, <1>3 DEF TableData
<1>5. T \in Seq(Layer) /\ l \in Layer /\ Flatten(T) \in Layer
  <2>1. T \in Seq(Layer) /\ g \in FileType
    BY <1>2, TablesOfType
  <2> HIDE DEF T, g
  <2> QED BY <1>4, <2>1, TableAtType, FlattenType
<1>6. TablesOf(files', ssts) = T
  BY <1>1, <1>2, HandlesCurrent, TablesKept DEF Sound
<1>7. DOMAIN ssts = 1..Len(ssts) /\ Len(ssts) \in Nat /\ \A i \in DOMAIN ssts : ssts[i].ino = cw.file
  BY <1>1, StateTypes DEF IInv, CurrentInv
<1>8. DOMAIN T = 1..Len(ssts) /\ Len(T) = Len(ssts)
      /\ \A i \in 1..Len(ssts) : T[i] = TableAt(g, ssts[i].off)
  <2>1. \A i \in DOMAIN ssts : T[i] = TableAt(files'[ssts[i].ino], ssts[i].off)
    BY <1>6 DEF TablesOf
  <2>2. DOMAIN T = DOMAIN ssts
    BY DEF TablesOf
  <2> HIDE DEF T
  <2>3. Len(T) = Len(ssts)
    BY <1>5, <1>7, <2>2
  <2> QED BY <1>7, <2>1, <2>2, <2>3
<1> HIDE DEF f, g, s, T, l
<1>9. Tables(g, s) = T \o << l >>
  <2>1. << l >> \in Seq(Layer) /\ Len(<< l >>) = 1 /\ << l >>[1] = l
    BY <1>5
  <2>2. /\ T \o << l >> \in Seq(Layer) /\ DOMAIN (T \o << l >>) = 1..(Len(ssts) + 1)
        /\ \A i \in 1..Len(ssts) : (T \o << l >>)[i] = T[i]
        /\ (T \o << l >>)[Len(ssts) + 1] = l
    <3>1. Len(T \o << l >>) = Len(T) + 1
      BY <1>5, <1>7, <1>8
    <3> QED BY <1>5, <1>7, <1>8, <2>1, <3>1
  <2>3. \A i \in 1..(Len(ssts) + 1) : TableAt(g, s.crc.refs[i].off) = (T \o << l >>)[i]
    <3> SUFFICES ASSUME NEW i \in 1..(Len(ssts) + 1)
                 PROVE  TableAt(g, s.crc.refs[i].off) = (T \o << l >>)[i]
      OBVIOUS
    <3>1. CASE i \in 1..Len(ssts)
      BY <1>2, <1>8, <2>2, <3>1
    <3>2. CASE i = Len(ssts) + 1
      BY <1>2, <1>4, <2>2, <3>2
    <3>3. Len(ssts) \in Nat
      BY <1>7
    <3>4. i \in 1..Len(ssts) \/ i = Len(ssts) + 1
      BY <3>3
    <3> QED BY <3>1, <3>2, <3>4
  <2>4. T \o << l >> = [i \in 1..(Len(ssts) + 1) |-> (T \o << l >>)[i]]
    BY <2>2
  <2>5. Tables(g, s) = [i \in 1..(Len(ssts) + 1) |-> TableAt(g, s.crc.refs[i].off)]
    BY <1>2 DEF Tables
  <2> QED BY <2>3, <2>4, <2>5
<1>10. Kept(g, s, s.man) = committed /\ Frames(g, s.man + 1, s.man)
  <2>1. Kept(g, s, s.man) = Merged(T \o << l >>) /\ Frames(g, s.man + 1, s.man)
    BY <1>2, <1>9, KeptNone
  <2>2. Merged(T \o << l >>) = Live(Overlay(Live(Flatten(T)), l))
    BY <1>5, MergedPush DEF Merged
  <2>3. Live(Overlay(Live(Flatten(T)), l)) = Live(Overlay(Flatten(T), l))
    BY <1>5, OverlayAlgebra
  <2> QED BY <1>3, <2>1, <2>2, <2>3
<1>11. s.man = Len(g.body) /\ s.man =< Len(g.body)
  BY <1>2
<1> QED BY <1>10, <1>11 DEF Leads, g, s

LEMMA FlushWriteConsistent ==
  ASSUME IInv, Sound, Consistent, FlushWrite
  PROVE  Consistent'
<1> DEFINE f == files[cw.file]
           g == files'[cw.file]
           s == f.slots[cw.slot]
<1>1. /\ phase = "up" /\ pc = "rotated" /\ pc' = "flush_written"
      /\ UNCHANGED << active, imms, ssts, walStart, cw, path, dpath, committed >>
  BY DEF FlushWrite, mem, history
<1>2. /\ g \in FileType /\ Grows(f, g) /\ files' = [files EXCEPT ![cw.file] = g]
      /\ g.slots = f.slots /\ g.dslots = f.dslots /\ g.synced = f.synced
      /\ Len(f.body) \in Nat /\ Len(g.body) = Len(f.body) + 2
      /\ job'.off = Len(f.body) + 1 /\ job'.ino = cw.file /\ job'.gen = job.gen
      /\ TableData(job)' = imms[Len(imms)].data
  BY FlushFile, Zenon
<1>3. Leads(g, NewSlot', Len(g.body), committed)
  BY FlushTables
<1>4. TablesOf(files', ssts') = TablesOf(files, ssts)
  BY <1>1, <1>2, HandlesCurrent, TablesKept DEF Sound
<1>5. MemoryInv'
  <2>1. Len(imms) = 1 /\ imms[1].id = job.gen /\ active = EmptyLayer
        /\ Live(Overlay(Flatten(TablesOf(files, ssts)), imms[1].data)) = committed
    BY <1>1 DEF Consistent, MemoryInv, FlushPCs
  <2>2. TableAt(files'[job'.ino], job'.off) = imms[1].data
    BY <1>2, <2>1 DEF TableData
  <2> QED BY <1>1, <1>2, <1>4, <2>1, <2>2 DEF MemoryInv, FlushPCs
<1>6. FileInv'
  <2>1. /\ f.synced = Len(f.body) /\ f.dslots = f.slots /\ Leads(f, s, Len(f.body), committed)
        /\ f.dslots[1 - cw.slot].seq < cw.seq
    BY <1>1 DEF Consistent, FileInv, Whole, Clean
  <2>2. f \in FileType /\ s \in SlotType /\ Names(f, s)
    BY <1>1, CurrentDurable, DurableSlot
  <2>3. Agree(f, g, Len(f.body))
    <3> HIDE DEF g
    <3> QED BY <1>2, <2>2, GrowsAgree
  <2>4. Leads(g, s, Len(f.body), committed)
    BY <1>2, <2>1, <2>2, <2>3, LeadsAgree
  <2>5. Len(f.body) = job'.off - 1 /\ Len(g.body) = job'.off + 1
    BY <1>2
  <2> QED BY <1>1, <1>2, <1>3, <2>1, <2>4, <2>5 DEF FileInv
<1>7. PathInv'
  BY <1>1 DEF Consistent, PathInv
<1>8. StartInv'
  BY <1>1, <1>2 DEF Consistent, StartInv
<1> QED BY <1>5, <1>6, <1>7, <1>8 DEF Consistent

LEMMA FlushHeaderConsistent ==
  ASSUME IInv, Sound, Consistent, FlushHeader
  PROVE  Consistent'
<1> DEFINE f == files[cw.file]
           g == PutHeader(Sync(f), cw.seq, cw.slot, job.off + 1)
           s == f.slots[cw.slot]
<1>1. /\ phase = "up" /\ pc = "flush_written" /\ pc' = "header_written"
      /\ files' = [files EXCEPT ![cw.file] = g]
      /\ UNCHANGED << active, imms, ssts, walStart, cw, path, dpath, committed, job >>
  BY DEF FlushHeader, mem, history, thread
<1>2. /\ g \in FileType /\ Grows(f, g)
      /\ g.body = f.body /\ g.synced = Len(f.body) /\ g.dslots = f.slots
      /\ g.slots[cw.slot] = s /\ g.slots[1 - cw.slot] = NewSlot /\ Names(g, NewSlot)
  BY <1>1, HeaderFile, Zenon
<1>3. files'[cw.file] = g
  BY <1>1, CurrentFile DEF IInv, TypeOK
<1>4. /\ f \in FileType /\ s \in SlotType /\ Names(f, s) /\ Len(f.body) \in Nat
  BY <1>1, CurrentDurable, DurableSlot
<1> HIDE DEF g
<1>5. TablesOf(files', ssts') = TablesOf(files, ssts)
  BY <1>1, <1>2, HandlesCurrent, TablesKept DEF Sound
<1>6. NewSlot' = NewSlot
  BY <1>1, <1>2, <1>3 DEF NewSlot
<1>7. MemoryInv'
  <2>1. job.ino = cw.file
    BY <1>1 DEF IInv, JobInv
  <2>2. TableAt(files'[job'.ino], job'.off) = TableAt(files[job.ino], job.off)
    BY <1>1, <1>2, <1>3, <2>1 DEF TableAt, IsTable
  <2> QED BY <1>1, <1>5, <2>2 DEF Consistent, MemoryInv, FlushPCs
<1>8. FileInv'
  <2>1. /\ Len(f.body) = job.off + 1 /\ f.dslots = f.slots /\ f.synced = job.off - 1
        /\ Leads(f, s, job.off - 1, committed) /\ Leads(f, NewSlot, Len(f.body), committed)
        /\ f.dslots[1 - cw.slot].seq < cw.seq
    BY <1>1 DEF Consistent, FileInv
  <2>2. Leads(g, s, job.off - 1, committed) /\ Leads(g, NewSlot, Len(f.body), committed)
    BY <1>2, <2>1 DEF Leads, Kept, Frames, Logged, Tables, TableAt, IsTable
  <2> QED BY <1>1, <1>2, <1>3, <1>6, <2>1, <2>2 DEF FileInv
<1>9. PathInv'
  BY <1>1 DEF Consistent, PathInv
<1>10. StartInv'
  BY <1>1, <1>2, <1>3 DEF Consistent, StartInv
<1> QED BY <1>7, <1>8, <1>9, <1>10 DEF Consistent

\* The new header is the one in use once it is synced.
LEMMA FlushHeaderSyncConsistent ==
  ASSUME IInv, Sound, Consistent, FlushHeaderSync
  PROVE  Consistent'
<1> DEFINE f == files[cw.file]
           g == Sync(f)
           at == 1 - cw.slot
<1>1. /\ phase = "up" /\ pc = "header_written" /\ pc' = "header_synced"
      /\ files' = [files EXCEPT ![cw.file] = g]
      /\ UNCHANGED << active, imms, ssts, walStart, path, dpath, committed, job >>
  BY DEF FlushHeaderSync, mem, history, thread
<1>2. cw'.file = cw.file /\ cw'.seq = cw.seq + 1 /\ cw'.slot = at
  BY FlushHeaderSyncSound
<1>3. /\ f \in FileType /\ cw.slot \in {0, 1} /\ cw.seq \in Nat /\ f.slots[cw.slot].seq = cw.seq
      /\ cw.file \in Inodes
  BY <1>1, CurrentDurable
<1>4. at \in {0, 1} /\ 1 - at = cw.slot
  BY <1>3
<1>5. files'[cw.file] = g
  BY <1>1, <1>3 DEF IInv, TypeOK
<1>6. g.body = f.body /\ g.slots = f.slots /\ g.dslots = f.slots /\ Grows(f, g)
  BY <1>3, SyncFields
<1>7. f.slots[at] = NewSlot /\ Names(f, NewSlot) /\ NewSlot.seq = cw.seq + 1
      /\ NewSlot.man = job.off + 1
  BY <1>1, SlotFields DEF Sound, FlushInv, NewSlot
<1>8. Leads(f, NewSlot, Len(f.body), committed)
  BY <1>1 DEF Consistent, FileInv
<1> HIDE DEF at
<1>9. f.slots[1 - at].seq < f.slots[at].seq
  BY <1>3, <1>4, <1>7
<1>10. Whole(g, at, committed)
  BY <1>3, <1>4, <1>7, <1>8, <1>9, SyncWhole
<1> HIDE DEF g
<1>11. TablesOf(files', ssts') = TablesOf(files, ssts)
  BY <1>1, <1>6, HandlesCurrent, TablesKept DEF Sound
<1>12. MemoryInv'
  <2>1. job.ino = cw.file
    BY <1>1 DEF IInv, JobInv
  <2>2. TableAt(files'[job'.ino], job'.off) = TableAt(files[job.ino], job.off)
    BY <1>1, <1>5, <1>6, <2>1 DEF TableAt, IsTable
  <2> QED BY <1>1, <1>11, <2>2 DEF Consistent, MemoryInv, FlushPCs
<1>13. FileInv'
  <2>1. g.dslots[1 - at].seq < cw.seq + 1
    BY <1>3, <1>4, <1>6
  <2> QED BY <1>1, <1>2, <1>5, <1>10, <2>1 DEF FileInv
<1>14. PathInv'
  BY <1>1, <1>2 DEF Consistent, PathInv
<1>15. StartInv'
  BY <1>1, <1>2, <1>5, <1>6, <1>7 DEF StartInv
<1> QED BY <1>12, <1>13, <1>14, <1>15 DEF Consistent

\* One more table at the end of the list.
LEMMA TablesAppend ==
  ASSUME IInv, NEW h \in Handle
  PROVE  /\ TablesOf(files, Append(ssts, h))
              = TablesOf(files, ssts) \o << TableAt(files[h.ino], h.off) >>
         /\ TableAt(files[h.ino], h.off) \in Layer
<1> DEFINE T == TablesOf(files, ssts)
           l == TableAt(files[h.ino], h.off)
           n == Len(ssts)
           U == TablesOf(files, Append(ssts, h))
<1>1. ssts \in Seq(Handle) /\ n \in Nat /\ DOMAIN ssts = 1..n
  BY StateTypes DEF IInv
<1>2. /\ DOMAIN Append(ssts, h) = 1..(n + 1) /\ Append(ssts, h)[n + 1] = h
      /\ \A i \in 1..n : Append(ssts, h)[i] = ssts[i]
  BY <1>1
<1>3. T \in Seq(Layer) /\ l \in Layer
  BY TablesOfType, HandleFields, TableAtType, StateTypes DEF IInv
<1>4. DOMAIN T = 1..n /\ \A i \in 1..n : T[i] = TableAt(files[ssts[i].ino], ssts[i].off)
  BY <1>1 DEF TablesOf
<1>5. DOMAIN U = 1..(n + 1) /\ U[n + 1] = l /\ \A i \in 1..n : U[i] = T[i]
  <2>1. \A i \in 1..(n + 1) :
          U[i] = TableAt(files[Append(ssts, h)[i].ino], Append(ssts, h)[i].off)
    BY <1>2 DEF TablesOf
  <2>2. DOMAIN U = 1..(n + 1)
    BY <1>2 DEF TablesOf
  <2>3. n + 1 \in 1..(n + 1) /\ 1..n \subseteq 1..(n + 1)
    BY <1>1
  <2> HIDE DEF U, T, n
  <2> QED BY <1>2, <1>4, <2>1, <2>2, <2>3
<1> HIDE DEF T, l, n
<1>6. Len(T) = n
  BY <1>1, <1>3, <1>4
<1>7. /\ T \o << l >> \in Seq(Layer) /\ DOMAIN (T \o << l >>) = 1..(n + 1)
      /\ (T \o << l >>)[n + 1] = l
      /\ \A i \in 1..n : (T \o << l >>)[i] = T[i]
  <2>1. Len(T \o << l >>) = n + 1
    BY <1>3, <1>6
  <2> QED BY <1>1, <1>3, <1>6, <2>1
<1>8. U = [i \in 1..(n + 1) |-> U[i]]
  BY <1>5 DEF TablesOf
<1>9. T \o << l >> = [i \in 1..(n + 1) |-> (T \o << l >>)[i]]
  <2>1. n \in Nat
    BY <1>1
  <2> QED BY <1>7, <2>1
<1> HIDE DEF U
<1>10. \A i \in 1..(n + 1) : U[i] = (T \o << l >>)[i]
  <2> SUFFICES ASSUME NEW i \in 1..(n + 1) PROVE U[i] = (T \o << l >>)[i]
    OBVIOUS
  <2>1. i \in 1..n \/ i = n + 1
    BY <1>1
  <2> QED BY <1>5, <1>7, <2>1
<1> QED BY <1>3, <1>8, <1>9, <1>10 DEF U, T, l

LEMMA WithoutOnly ==
  ASSUME NEW list \in Seq(Immutable), Len(list) = 1, NEW id, list[1].id = id
  PROVE  Without(list, id) = << >>
<1>1. DOMAIN list = {1}
  OBVIOUS
<1>2. (CHOOSE i \in DOMAIN list : list[i].id = id) = 1
  BY <1>1
<1>3. Without(list, id) = SubSeq(list, 1, 0) \o SubSeq(list, 2, 1)
  BY <1>1, <1>2 DEF Without
<1>4. SubSeq(list, 1, 0) = << >> /\ SubSeq(list, 2, 1) = << >>
  OBVIOUS
<1> QED BY <1>3, <1>4

\* The new table takes the place of the immutable memtable it was made from.
LEMMA FlushPublishConsistent ==
  ASSUME IInv, Sound, Consistent, FlushPublish
  PROVE  Consistent'
<1> DEFINE T == TablesOf(files, ssts)
           l == imms[1].data
<1>1. /\ phase = "up" /\ pc = "header_synced" /\ pc' \in {"compact", "idle"} /\ files' = files
      /\ ssts' = Append(ssts, job) /\ imms' = Without(imms, job.gen) /\ walStart' = job.off + 2
      /\ UNCHANGED << active, cw, path, dpath, committed >>
  BY DEF FlushPublish, AfterFlush, disk, history
<1>2. /\ Len(imms) = 1 /\ imms[1].id = job.gen /\ active = EmptyLayer
      /\ Live(Overlay(Flatten(T), l)) = committed /\ TableAt(files[job.ino], job.off) = l
  BY <1>1 DEF Consistent, MemoryInv, FlushPCs
<1>3. imms' = << >>
  BY <1>1, <1>2, WithoutOnly, StateTypes DEF IInv
<1>4. job \in Handle /\ job.off \in Nat
  BY HandleFields DEF IInv, TypeOK
<1>5. TablesOf(files', ssts') = T \o << l >> /\ l \in Layer /\ T \in Seq(Layer)
  BY <1>1, <1>2, <1>4, TablesAppend, TablesOfType
<1> HIDE DEF T, l
<1>6. Live(Overlay(Flatten(TablesOf(files', ssts')), active')) = committed'
  <2>1. << l >> \in Seq(Layer)
    BY <1>5
  <2>2. Flatten(T \o << l >>) = Overlay(Flatten(T), l)
    BY <1>5, <2>1, FlattenConcat, FlattenOne
  <2>3. Overlay(Flatten(T), l) \in Layer
    BY <1>5, FlattenType, OverlayType
  <2>4. Overlay(Overlay(Flatten(T), l), EmptyLayer) = Overlay(Flatten(T), l)
    BY <2>3, OverlayAlgebra
  <2> QED BY <1>1, <1>2, <1>5, <2>2, <2>4
<1>7. MemoryInv'
  BY <1>1, <1>2, <1>3, <1>6 DEF MemoryInv, FlushPCs
<1>8. FileInv'
  BY <1>1 DEF Consistent, FileInv
<1>9. PathInv'
  BY <1>1 DEF Consistent, PathInv
<1>10. StartInv'
  BY <1>1, <1>4 DEF Consistent, StartInv
<1> QED BY <1>7, <1>8, <1>9, <1>10 DEF Consistent

\* The tables alone hold the database when compact_all runs.
LEMMA TablesHoldAll ==
  ASSUME IInv, MemoryInv, pc \in {"compact", "built", "renamed", "dir_synced", "swapped"}
  PROVE  Merged(TablesOf(files, ssts)) = committed
<1> DEFINE T == TablesOf(files, ssts)
<1>1. active = EmptyLayer /\ Live(Overlay(Flatten(T), active)) = committed
  BY DEF MemoryInv, FlushPCs
<1>2. Flatten(T) \in Layer
  BY TablesOfType, FlattenType
<1> HIDE DEF T
<1>3. Overlay(Flatten(T), EmptyLayer) = Flatten(T)
  BY <1>2, OverlayAlgebra
<1> QED BY <1>1, <1>3 DEF Merged, T

\* The steps of a compaction before its swap leave the current file alone.
LEMMA CompactKeeps ==
  ASSUME IInv, Sound, Consistent, phase = "up",
         pc \in {"compact", "built", "renamed", "dir_synced"},
         pc' \in {"built", "renamed", "dir_synced"},
         UNCHANGED << active, imms, ssts, walStart, cw, committed >>,
         files'[cw.file] = files[cw.file],
         \A i \in DOMAIN ssts : files'[ssts[i].ino] = files[ssts[i].ino]
  PROVE  MemoryInv' /\ FileInv' /\ StartInv'
<1>1. TablesOf(files', ssts') = TablesOf(files, ssts)
  <2>1. \A i \in DOMAIN ssts : Grows(files[ssts[i].ino], files'[ssts[i].ino])
    BY SameBodyGrows
  <2> QED BY <2>1, TablesKept DEF Sound
<1>2. MemoryInv'
  BY <1>1 DEF Consistent, MemoryInv, FlushPCs
<1>3. FileInv'
  BY DEF Consistent, FileInv
<1>4. StartInv'
  BY DEF Consistent, StartInv
<1> QED BY <1>2, <1>3, <1>4

LEMMA CompactBuildConsistent ==
  ASSUME IInv, Sound, Consistent, NEW new \in Inodes, CompactBuild(new)
  PROVE  Consistent'
<1>1. /\ phase = "up" /\ cw' = cw /\ path' = path /\ dpath' = dpath /\ ssts' = ssts
      /\ pc = "compact" /\ pc' = "built"
      /\ job'.gen = nextId /\ job'.ino = new /\ job'.off = 1
      /\ files'[new] = FreshFile(nextId, Merged(TablesOf(files, ssts)))
      /\ \A i \in Inodes : i # new => files'[i] = files[i]
      /\ new \notin {cw.file, path, dpath}
      /\ \A i \in DOMAIN ssts : ssts[i].ino # new /\ ssts[i].ino \in Inodes
  BY BuildFacts
<1>2. UNCHANGED << active, imms, walStart, committed >>
  BY DEF CompactBuild, history
<1>3. files'[cw.file] = files[cw.file]
  BY <1>1, CurrentFile
<1>4. MemoryInv' /\ FileInv' /\ StartInv'
  BY <1>1, <1>2, <1>3, CompactKeeps
<1>5. Merged(TablesOf(files, ssts)) = committed
  BY <1>1, TablesHoldAll DEF Consistent
<1>6. PathInv'
  BY <1>1, <1>2, <1>5 DEF Consistent, PathInv
<1> QED BY <1>4, <1>6 DEF Consistent

LEMMA RenameConsistent ==
  ASSUME IInv, Sound, Consistent, CompactRename \/ CompactSyncDir
  PROVE  Consistent'
<1>1. /\ phase = "up" /\ files' = files /\ job' = job
      /\ pc \in {"built", "renamed"} /\ pc' \in {"renamed", "dir_synced"}
      /\ UNCHANGED << active, imms, ssts, walStart, cw, committed >>
      /\ pc' = "renamed" => pc = "built" /\ dpath' = dpath
  BY DEF CompactRename, CompactSyncDir, mem, thread, history
<1>2. MemoryInv' /\ FileInv' /\ StartInv'
  BY <1>1, CompactKeeps
<1>3. PathInv'
  BY <1>1 DEF Consistent, PathInv
<1> QED BY <1>2, <1>3 DEF Consistent

LEMMA CompactSwapConsistent ==
  ASSUME IInv, Sound, Consistent, CompactSwap
  PROVE  Consistent'
<1> DEFINE g == files[job.ino]
<1>1. /\ phase = "up" /\ pc = "dir_synced" /\ pc' = "swapped" /\ files' = files /\ job' = job
      /\ cw' = [file |-> job.ino, seq |-> 1, slot |-> 0]
      /\ UNCHANGED << active, imms, ssts, walStart, path, dpath, committed >>
  BY DEF CompactSwap, mem, disk, thread, history
<1>2. g = FreshFile(job.gen, committed) /\ job.off = 1
  BY <1>1 DEF Consistent, PathInv
<1>3. path = job.ino /\ dpath = job.ino
  BY <1>1 DEF Sound, DurableInv
<1>4. job.gen \in Nat /\ committed \in View
  BY HandleFields DEF IInv, TypeOK
<1>5. Whole(g, 0, committed) /\ g.slots[0].man = 2 /\ g.slots[0].seq = 1 /\ g.slots[1].seq = 0
  <2> DEFINE h == FreshFile(job.gen, committed)
  <2>1. Whole(h, 0, committed) /\ h.slots[0].man = 2 /\ h.slots[0].seq = 1 /\ h.slots[1].seq = 0
    BY <1>4, FreshWhole, Zenon
  <2> HIDE DEF h
  <2> QED BY <1>2, <2>1 DEF h
<1>6. MemoryInv'
  BY <1>1 DEF Consistent, MemoryInv, FlushPCs
<1>7. cw'.file = job.ino /\ cw'.seq = 1 /\ cw'.slot = 0
  BY <1>1
<1>8. FileInv'
  <2>1. g.dslots[1] = g.slots[1]
    BY <1>5 DEF Whole, Clean
  <2> QED BY <1>1, <1>5, <1>7, <2>1 DEF FileInv
<1>9. PathInv'
  BY <1>1, <1>2, <1>3, <1>7 DEF PathInv
<1>10. StartInv'
  BY <1>1, <1>5, <1>7 DEF StartInv
<1> QED BY <1>6, <1>8, <1>9, <1>10 DEF Consistent

\* The one table of the new file stands for all that were merged.
LEMMA CompactPublishConsistent ==
  ASSUME IInv, Sound, Consistent, CompactPublish
  PROVE  Consistent'
<1>1. /\ phase = "up" /\ pc = "swapped" /\ pc' \in {"compact", "idle"} /\ ssts' = << job >>
      /\ walStart' = 3
      /\ UNCHANGED << active, imms, cw, path, dpath, committed, job >>
  BY DEF CompactPublish, AfterCompact, history
<1>2. files'[cw.file] = files[cw.file]
  BY PublishKeeps
<1>3. job.ino = cw.file
  BY <1>1 DEF IInv, JobInv
<1>4. job.off = 1 /\ files[cw.file] = FreshFile(job.gen, committed)
  BY <1>1, <1>3 DEF Consistent, PathInv
<1>5. job.gen \in Nat /\ committed \in View /\ committed \in Layer
  BY HandleFields, ViewIsLayer DEF IInv, TypeOK
<1>6. TableAt(files[cw.file], 1) = committed
  <2>1. TableAt(FreshFile(job.gen, committed), 1) = committed
    BY <1>5, FreshWhole, Zenon
  <2> QED BY <1>4, <2>1
<1>7. TablesOf(files', ssts') = << committed >>
  <2>1. \A i \in {1} : TableAt(files'[ssts'[i].ino], ssts'[i].off) = committed
    BY <1>1, <1>2, <1>3, <1>4, <1>6
  <2>2. DOMAIN ssts' = {1}
    BY <1>1
  <2> QED BY <2>1, <2>2 DEF TablesOf
<1>8. MemoryInv'
  <2>1. imms = << >> /\ active = EmptyLayer
    BY <1>1 DEF Consistent, MemoryInv, FlushPCs
  <2>2. Live(Overlay(Flatten(<< committed >>), EmptyLayer)) = committed
    BY <1>5, FlattenOne, OverlayAlgebra, LiveView
  <2> QED BY <1>1, <1>7, <2>1, <2>2 DEF MemoryInv, FlushPCs
<1>9. FileInv'
  BY <1>1, <1>2 DEF Consistent, FileInv
<1>10. PathInv'
  BY <1>1 DEF Consistent, PathInv
<1>11. StartInv'
  BY <1>1, <1>2 DEF Consistent, StartInv
<1> QED BY <1>8, <1>9, <1>10, <1>11 DEF Consistent

LEMMA CompactRenameFailsConsistent ==
  ASSUME IInv, Sound, Consistent, CompactRenameFails
  PROVE  Consistent'
<1>1. /\ phase = "up" /\ pc = "built" /\ pc' = "idle"
      /\ files' = [files EXCEPT ![job.ino] = EmptyFile]
      /\ UNCHANGED << active, imms, ssts, walStart, cw, path, dpath, committed >>
  BY DEF CompactRenameFails, Fails, mem
<1>2. job.ino # cw.file /\ \A i \in DOMAIN ssts : ssts[i].ino # job.ino
  BY <1>1 DEF IInv, JobInv
<1>3. files'[cw.file] = files[cw.file] /\ \A i \in DOMAIN ssts : files'[ssts[i].ino] = files[ssts[i].ino]
  BY <1>1, <1>2
<1> QED BY <1>1, <1>3, QuietConsistent DEF RestPCs

\* Recovery reads back what the file holds.
LEMMA RecoverConsistent ==
  ASSUME IInv, Sound, StoredInv, Recover
  PROVE  Consistent'
<1> DEFINE f  == files[path]
           at == ActiveSlot(f)
           s  == f.slots[at]
           end == ValidEnd(f, s.man + 1)
           g  == Truncate(f, end)
           A  == Tables(f, s)
           B  == Replayed(f, s.man + 1)
<1>1. /\ phase = "recover" /\ pc' = "idle" /\ path' = path /\ dpath' = path
      /\ f \in FileType /\ Clean(f) /\ Durable(f, at) /\ s \in SlotType /\ Names(f, s)
      /\ files'[path] = g /\ active' = Flatten(B) /\ imms' = << >>
      /\ ssts' = [i \in DOMAIN s.crc.refs |->
                    [gen |-> s.crc.refs[i].gen, ino |-> path, off |-> s.crc.refs[i].off]]
      /\ walStart' = s.man + 1 /\ cw' = [file |-> path, seq |-> s.seq, slot |-> at]
  BY RecoverFacts, Zenon
<1>2. committed' = committed /\ committed = Stored(f)
  <2>1. committed' = committed
    BY DEF Recover
  <2> QED BY <1>1, <2>1 DEF StoredInv
<1>3. Whole(g, at, Stored(f)) /\ g.slots = f.slots
  BY <1>1, RecoveredWhole, Zenon
<1>4. Agree(f, g, s.man)
  BY <1>1, TruncateKeeps, Zenon
<1>5. Stored(f) = Kept(f, s, end)
  BY <1>1, DurableOpens
<1>6. A \in Seq(Layer) /\ B \in Seq(Layer) /\ B = Logged(f, s.man + 1, end)
  <2>1. s.crc.refs \in Refs /\ s.man + 1 \in Nat \ {0}
    <3> HIDE DEF s, f
    <3> QED BY <1>1, NamesFacts
  <2>2. A \in Seq(Layer)
    BY <1>1, <2>1, TablesType
  <2>3. B \in Seq(Layer)
    BY <1>1, <2>1, ReplayedType
  <2>4. B = Logged(f, s.man + 1, end)
    BY DEF Replayed, Logged
  <2> QED BY <2>2, <2>3, <2>4
<1>7. Tables(g, s) = A
  <2> HIDE DEF f, g, s
  <2> QED BY <1>1, <1>4, NamesAgree
<1> HIDE DEF f, at, s, end, g, A, B
<1>8. TablesOf(files', ssts') = A
  <2>1. DOMAIN ssts' = DOMAIN s.crc.refs
    BY <1>1
  <2>2. \A i \in DOMAIN s.crc.refs : TableAt(files'[ssts'[i].ino], ssts'[i].off)
                                       = TableAt(g, s.crc.refs[i].off)
    BY <1>1
  <2> QED BY <1>7, <2>1, <2>2 DEF TablesOf, Tables
<1>9. Live(Overlay(Flatten(A), Flatten(B))) = committed
  <2>1. Stored(f) = Live(Flatten(A \o B))
    BY <1>5, <1>6 DEF Kept, A, Merged
  <2> QED BY <1>2, <1>6, <2>1, FlattenConcat
<1>10. MemoryInv'
  BY <1>1, <1>2, <1>8, <1>9 DEF MemoryInv, FlushPCs
<1>11. cw'.file = path /\ cw'.seq = s.seq /\ cw'.slot = at /\ g.slots[at] = s
  BY <1>1, <1>3 DEF s
<1>12. FileInv'
  <2>1. g.dslots[1 - at].seq < s.seq
    BY <1>3, <1>11 DEF Whole, Clean
  <2> QED BY <1>1, <1>2, <1>3, <1>11, <2>1 DEF FileInv
<1>13. PathInv'
  BY <1>1, <1>11 DEF PathInv
<1>14. StartInv'
  BY <1>1, <1>11 DEF StartInv
<1> QED BY <1>10, <1>12, <1>13, <1>14 DEF Consistent

-----------------------------------------------------------------------------
(* A database at rest *)

\* A file without a header holds nothing.
LEMMA BlankStored ==
  ASSUME NEW f, Blank(f)
  PROVE  Stored(f) = Live(EmptyLayer)
  BY DEF Stored, HasHeader, Blank

LEMMA StoredSame ==
  ASSUME NEW f, NEW g, g.body = f.body, g.slots = f.slots
  PROVE  Stored(g) = Stored(f)
<1>1. HasHeader(g) = HasHeader(f) /\ ManifestReadable(g) = ManifestReadable(f)
      /\ LiveManifest(g) = LiveManifest(f)
  BY DEF HasHeader, ManifestReadable, LiveManifest, ActiveSlot
<1>2. \A n : Replayed(g, n) = Replayed(f, n) /\ TableAt(g, n) = TableAt(f, n)
  BY DEF Replayed, ValidEnd, TableAt, IsTable
<1> QED BY <1>1, <1>2 DEF Stored

\* A bootstrapped database is empty.
LEMMA BootStored == Stored(BootHeaderFile) = Live(EmptyLayer)
<1> DEFINE f == BootHeaderFile
           s == f.slots[0]
<1>1. /\ f \in FileType /\ f.slots[1] = BadSlot /\ s \in SlotType /\ s.seq = 1 /\ s.man = 1
      /\ s.crc.refs = << >> /\ Names(f, s) /\ Len(f.body) = 1
  <2>1. f \in FileType /\ f.slots[1] = BadSlot /\ f.body = BootFile.body /\ Len(BootFile.body) = 1
    BY BootFacts
  <2>2. s \in SlotType /\ s.seq = 1 /\ s.man = 1 /\ s.crc.refs = << >> /\ Names(f, s)
    BY BootFacts, Zenon
  <2> QED BY <2>1, <2>2
<1> HIDE DEF f
<1>2. ActiveSlot(f) = 0
  BY <1>1 DEF ActiveSlot, BadSlot
<1>3. ValidEnd(f, 2) = 1
  <2>1. 2 \in Nat \ {0} /\ 2 > Len(f.body) /\ 2 - 1 = 1
    BY <1>1
  <2> QED BY <1>1, <2>1, ValidEndOK
<1>4. s = f.slots[ActiveSlot(f)]
  BY <1>2
<1> HIDE DEF s
<1>5. s.man + 1 = 2
  BY <1>1
<1>6. Stored(f) = Kept(f, s, s.man)
  <2>1. Stored(f) = Kept(f, s, ValidEnd(f, s.man + 1))
    BY <1>1, <1>4, StoredKept
  <2> QED BY <1>1, <1>3, <1>5, <2>1
<1>7. Kept(f, s, s.man) = Merged(Tables(f, s))
  BY <1>1, KeptNone
<1>8. Tables(f, s) = << >>
  BY <1>1 DEF Tables
<1> QED BY <1>6, <1>7, <1>8, FlattenEmpty DEF Merged, f

\* No step of open changes what the file holds.
LEMMA BootKeepsStored ==
  ASSUME IInv, Sound, StoredInv, OpenFile \/ BootManifest \/ BootHeader \/ BootSync
  PROVE  StoredInv'
<1>1. /\ UNCHANGED << path, committed, pending >> /\ phase # "up"
      /\ committed = Stored(files[path]) /\ pending = EmptyLayer
  BY DEF OpenFile, BootManifest, BootHeader, BootSync, disk, history, StoredInv
<1>2. files \in [Inodes -> FileType] /\ path \in Inodes
  BY DEF IInv, TypeOK
<1>3. CASE OpenFile
  BY <1>1, <1>3 DEF OpenFile, disk, StoredInv
<1>4. CASE BootManifest
  <2>1. files' = [files EXCEPT ![path] = AppendExtent(@, Manifest(1, << >>, 2))] /\ phase = "boot"
    BY <1>4 DEF BootManifest
  <2>2. files[path] = EmptyFile
    BY <2>1 DEF Sound, RestInv
  <2>3. files'[path] = BootFile
    BY <1>2, <2>1, <2>2 DEF BootFile
  <2>4. Blank(EmptyFile) /\ Blank(BootFile)
    BY EmptyFileFields, BootFacts DEF Blank
  <2> QED BY <1>1, <2>2, <2>3, <2>4, BlankStored DEF StoredInv
<1>5. CASE BootHeader
  <2>1. files' = [files EXCEPT ![path] = PutHeader(Sync(@), 0, 1, 1)] /\ phase = "boot_written"
    BY <1>5 DEF BootHeader
  <2>2. files[path] = BootFile
    BY <2>1 DEF Sound, RestInv
  <2>3. files'[path] = BootHeaderFile
    BY <1>2, <2>1, <2>2 DEF BootHeaderFile
  <2>4. Blank(BootFile)
    BY BootFacts
  <2> QED BY <1>1, <2>2, <2>3, <2>4, BlankStored, BootStored DEF StoredInv
<1>6. CASE BootSync
  <2>1. files' = [files EXCEPT ![path] = Sync(@)]
    BY <1>6 DEF BootSync
  <2>2. files'[path] = Sync(files[path]) /\ files[path] \in FileType
    BY <1>2, <2>1
  <2>3. Stored(files'[path]) = Stored(files[path])
    BY <2>2, SyncFields, StoredSame
  <2> QED BY <1>1, <2>3 DEF StoredInv
<1> QED BY <1>3, <1>4, <1>5, <1>6

-----------------------------------------------------------------------------
(* The engine is consistent at every step *)

\* An I/O error other than those of write_fresh_container and rename ends the
\* claim.
LEMMA HarmfulFaults ==
  ASSUME \/ WalWriteFails \/ WalSyncFails \/ FlushWriteFails \/ FlushHeaderFails
         \/ CompactSyncDirFails
  PROVE  ~ Healthy'
<1>1. \/ "wal_write" \in faults' \/ "wal_sync" \in faults' \/ "flush_write" \in faults'
      \/ "flush_header" \in faults' \/ "compact_sync_dir" \in faults'
  BY Zenon DEF WalWriteFails, WalSyncFails, FlushWriteFails, FlushHeaderFails,
         CompactSyncDirFails, Fails
<1> QED BY <1>1 DEF Healthy

\* Every step of a running engine that stays healthy keeps it consistent.
LEMMA StepConsistent ==
  ASSUME IInv, Sound, Consistent, Next, phase = "up", phase' = "up", Healthy'
  PROVE  Consistent'
<1>1. CASE Start
  BY <1>1 DEF Start, OpenFile, BootManifest, BootHeader, BootSync, Recover
<1>2. CASE \E r \in Readers : BeginRead(r) \/ EndRead(r) \/ Verify(r)
  BY <1>2, TxConsistent, EndReadConsistent
<1>3. CASE BeginWrite \/ Rollback \/ ForceCompact
  BY <1>3, TxConsistent
<1>4. CASE \E k \in Keys, e \in Values \cup {Tombstone} : Buffer(k, e)
  BY <1>4, TxConsistent
<1>5. CASE CommitStep
  BY <1>5, WalAppendConsistent, WalSyncConsistent, ApplyConsistent DEF CommitStep
<1>6. CASE FlushStep
  BY <1>6, RotateConsistent, FlushWriteConsistent, FlushHeaderConsistent,
     FlushHeaderSyncConsistent, FlushPublishConsistent DEF FlushStep
<1>7. CASE CompactStep
  BY <1>7, TxConsistent, CompactBuildConsistent, RenameConsistent, CompactSwapConsistent,
     CompactPublishConsistent DEF CompactStep
<1>8. CASE Fault
  BY <1>8, HarmfulFaults, TxConsistent, CompactRenameFailsConsistent DEF Fault
<1>9. CASE Crash
  BY <1>9 DEF Crash
<1> QED BY <1>1, <1>2, <1>3, <1>4, <1>5, <1>6, <1>7, <1>8, <1>9 DEF Next

\* No step but open() forgets an I/O error.
LEMMA HealthyBefore ==
  ASSUME Next, phase = "up", phase' = "up", Healthy'
  PROVE  Healthy
<1>1. CASE Start
  BY <1>1 DEF Start, OpenFile, BootManifest, BootHeader, BootSync, Recover
<1>2. CASE \E r \in Readers : BeginRead(r) \/ EndRead(r) \/ Verify(r)
  BY <1>2 DEF BeginRead, EndRead, Verify, history, Healthy
<1>3. CASE \/ BeginWrite \/ Rollback \/ ForceCompact
           \/ \E k \in Keys, e \in Values \cup {Tombstone} : Buffer(k, e)
  BY <1>3 DEF BeginWrite, Rollback, ForceCompact, Buffer, history, Healthy
<1>4. CASE CommitStep
  BY <1>4 DEF CommitStep, WalAppend, WalSync, Apply, history, Healthy
<1>5. CASE FlushStep
  BY <1>5 DEF FlushStep, FlushRotate, FlushWrite, FlushHeader, FlushHeaderSync, FlushPublish,
              history, Healthy
<1>6. CASE CompactStep
  BY <1>6 DEF CompactStep, CompactSkip, CompactBuild, CompactRename, CompactSyncDir, CompactSwap,
              CompactPublish, history, Healthy
<1>7. CASE Fault
  <2>1. faults \subseteq faults'
    BY <1>7 DEF Fault, WalWriteFails, WalSyncFails, FlushWriteFails, FlushHeaderFails,
                CompactBuildFails, CompactRenameFails, CompactSyncDirFails, Fails
  <2> QED BY <2>1 DEF Healthy
<1>8. CASE Crash
  BY <1>8 DEF Crash
<1> QED BY <1>1, <1>2, <1>3, <1>4, <1>5, <1>6, <1>7, <1>8 DEF Next

\* Only open() brings the engine up and only a crash takes it down.
LEMMA PhaseSteps ==
  ASSUME Next
  PROVE  /\ phase # "up" /\ phase' = "up" => Recover
         /\ phase # "up" /\ phase' # "up" => Start \/ Crash
         /\ phase = "up" /\ phase' # "up" => Crash
<1>1. CASE Start
  BY <1>1 DEF Start, OpenFile, BootManifest, BootHeader, BootSync, Recover
<1>2. CASE \E r \in Readers : BeginRead(r) \/ EndRead(r) \/ Verify(r)
  BY <1>2 DEF BeginRead, EndRead, Verify
<1>3. CASE \/ BeginWrite \/ Rollback \/ ForceCompact
           \/ \E k \in Keys, e \in Values \cup {Tombstone} : Buffer(k, e)
  BY <1>3 DEF BeginWrite, Rollback, ForceCompact, Buffer
<1>4. CASE CommitStep \/ FlushStep
  BY <1>4 DEF CommitStep, WalAppend, WalSync, Apply,
              FlushStep, FlushRotate, FlushWrite, FlushHeader, FlushHeaderSync, FlushPublish
<1>5. CASE CompactStep
  BY <1>5 DEF CompactStep, CompactSkip, CompactBuild, CompactRename, CompactSyncDir, CompactSwap,
              CompactPublish
<1>6. CASE Fault
  BY <1>6 DEF Fault, WalWriteFails, WalSyncFails, FlushWriteFails, FlushHeaderFails,
              CompactBuildFails, CompactRenameFails, CompactSyncDirFails, Fails
<1>7. CASE Crash
  BY <1>7 DEF Crash
<1> QED BY <1>1, <1>2, <1>3, <1>4, <1>5, <1>6, <1>7 DEF Next

LEMMA InitServing == Init => Serving /\ StoredInv
<1> SUFFICES ASSUME Init PROVE Serving /\ StoredInv
  OBVIOUS
<1>1. Serving
  BY DEF Init, Serving
<1>2. files[path] = EmptyFile /\ committed = Live(EmptyLayer) /\ pending = EmptyLayer
  BY DEF Init
<1>3. Blank(EmptyFile)
  BY EmptyFileFields DEF Blank
<1> QED BY <1>1, <1>2, <1>3, BlankStored DEF StoredInv

\* Every step keeps the consistency of a healthy engine and, while none is
\* running, the file as the record of what was committed.
LEMMA NextServing ==
  IInv /\ Sound /\ Serving /\ StoredInv /\ [Next]_vars => Serving' /\ StoredInv'
<1> SUFFICES ASSUME IInv, Sound, Serving, StoredInv, [Next]_vars PROVE Serving' /\ StoredInv'
  OBVIOUS
<1>1. CASE UNCHANGED vars
  <2>1. UNCHANGED << files, path, dpath, active, imms, ssts, walStart, cw, job, pending, committed,
                     phase, pc, faults >>
    BY <1>1 DEF vars, mem, disk, thread, history
  <2> QED BY <2>1 DEF Serving, StoredInv, Healthy, Consistent, MemoryInv, FileInv, PathInv, StartInv,
                      Finished, NewSlot
<1>2. CASE Next
  <2>1. CASE phase = "up" /\ phase' = "up"
    <3>1. StoredInv'
      BY <2>1 DEF StoredInv
    <3>2. ASSUME Healthy' PROVE Consistent'
      <4>1. Consistent
        BY <1>2, <2>1, <3>2, HealthyBefore DEF Serving
      <4> QED BY <1>2, <2>1, <3>2, <4>1, StepConsistent
    <3> QED BY <3>1, <3>2 DEF Serving
  <2>2. CASE phase # "up" /\ phase' = "up"
    <3>1. Recover
      BY <1>2, <2>2, PhaseSteps
    <3> QED BY <2>2, <3>1, RecoverConsistent DEF Serving, StoredInv
  <2>3. CASE phase' # "up"
    <3>1. Start \/ Crash
      BY <1>2, <2>3, PhaseSteps
    <3>2. CASE Start
      <4>1. OpenFile \/ BootManifest \/ BootHeader \/ BootSync
        <5>1. ~ Recover
          BY <2>3, RecoverFacts
        <5> QED BY <3>2, <5>1 DEF Start
      <4> QED BY <2>3, <4>1, BootKeepsStored DEF Serving
    <3>3. CASE Crash
      <4>1. pending' = EmptyLayer
        BY <3>3 DEF Crash
      <4> QED BY <2>3, <3>3, <4>1, CrashFacts DEF Serving, StoredInv
    <3> QED BY <3>1, <3>2, <3>3
  <2> QED BY <2>1, <2>2, <2>3
<1> QED BY <1>1, <1>2

-----------------------------------------------------------------------------
(* Theorems *)

\* Everything that holds of every reachable state.
AllInv == IInv /\ Sound /\ Serving /\ StoredInv

\* The inductive invariant of the engine.
LEMMA LsmAllInv == Spec => []AllInv
<1>1. Init => AllInv
  BY InitIInv, InitSound, InitServing DEF AllInv
<1>2. AllInv /\ [Next]_vars => AllInv'
  BY NextIInv, NextSound, NextServing DEF AllInv
<1> QED BY <1>1, <1>2, PTL DEF Spec

LEMMA ImmutableData ==
  ASSUME NEW list \in Seq(Immutable)
  PROVE  /\ DOMAIN list = 1..Len(list) /\ Len(list) \in Nat
         /\ \A i \in DOMAIN list : list[i].data \in Layer
<1>1. \A i \in DOMAIN list : list[i] \in Immutable
  BY SeqElements
<1>2. \A x \in Immutable : x.data \in Layer
  BY DEF Immutable
<1> QED BY <1>1, <1>2, SeqElements

\* The walk through SSTables, immutable memtables and the active one.
LEMMA StackReads ==
  ASSUME IInv
  PROVE  LET D == [i \in DOMAIN imms |-> imms[i].data]
         IN  /\ D \in Seq(Layer)
             /\ Reads(Snapshot)
                  = Live(Overlay(Overlay(Flatten(TablesOf(files, ssts)), Flatten(D)), active))
<1> DEFINE D == [i \in DOMAIN imms |-> imms[i].data]
           T == TablesOf(files, ssts)
<1>1. T \in Seq(Layer) /\ active \in Layer /\ imms \in Seq(Immutable)
  BY TablesOfType, StateTypes DEF IInv
<1>2. D \in Seq(Layer)
  <2>1. DOMAIN imms = 1..Len(imms) /\ Len(imms) \in Nat /\ \A i \in DOMAIN imms : imms[i].data \in Layer
    BY <1>1, ImmutableData
  <2>2. D \in [1..Len(imms) -> Layer]
    BY <2>1
  <2> HIDE DEF D
  <2> QED BY <2>1, <2>2, SeqOfFunction
<1>3. Stack(Snapshot) = T \o D \o << active >>
  BY DEF Stack, Snapshot, TableData, TablesOf
<1> HIDE DEF T, D
<1>4. T \o D \in Seq(Layer) /\ << active >> \in Seq(Layer)
  BY <1>1, <1>2
<1>5. Flatten(T \o D \o << active >>) = Overlay(Overlay(Flatten(T), Flatten(D)), active)
  BY <1>1, <1>2, <1>4, FlattenConcat, FlattenOne
<1> QED BY <1>2, <1>3, <1>5 DEF Reads, Merged, T, D

\* A new snapshot reads what was committed.
LEMMA ConsistentReads ==
  ASSUME IInv, MemoryInv
  PROVE  Reads(Snapshot) = committed
<1> DEFINE D == [i \in DOMAIN imms |-> imms[i].data]
           T == Flatten(TablesOf(files, ssts))
<1>1. D \in Seq(Layer) /\ Reads(Snapshot) = Live(Overlay(Overlay(T, Flatten(D)), active))
  BY StackReads, Zenon
<1>2. T \in Layer /\ active \in Layer
  BY TablesOfType, FlattenType, StateTypes DEF IInv
<1>3. CASE pc \notin FlushPCs
  <2>1. imms = << >> /\ Live(Overlay(T, active)) = committed
    BY <1>3 DEF MemoryInv
  <2>2. D = << >>
    BY <2>1
  <2> HIDE DEF D, T
  <2>3. Overlay(T, Flatten(D)) = T
    BY <1>2, <2>2, FlattenEmpty, OverlayAlgebra
  <2> QED BY <1>1, <2>1, <2>3
<1>4. CASE pc \in FlushPCs
  <2>1. Len(imms) = 1 /\ active = EmptyLayer /\ Live(Overlay(T, imms[1].data)) = committed
    BY <1>4 DEF MemoryInv
  <2>2. D = << imms[1].data >> /\ imms[1].data \in Layer
    <3>1. imms \in Seq(Immutable)
      BY StateTypes DEF IInv
    <3>2. DOMAIN imms = {1} /\ imms[1].data \in Layer
      <4>1. DOMAIN imms = 1..1 /\ 1..1 = {1}
        BY <2>1, <3>1, SeqElements
      <4> QED BY <3>1, <4>1, ImmutableData
    <3>3. D = [i \in {1} |-> imms[i].data]
      BY <3>2
    <3> QED BY <3>2, <3>3
  <2> HIDE DEF D, T
  <2>3. Flatten(D) = imms[1].data
    BY <2>2, FlattenOne
  <2>4. Overlay(Overlay(T, imms[1].data), EmptyLayer) = Overlay(T, imms[1].data)
    BY <1>2, <2>2, OverlayType, OverlayAlgebra
  <2> QED BY <1>1, <2>1, <2>3, <2>4
<1> QED BY <1>3, <1>4

\* A transaction of a healthy engine that begins now reads every commit and
\* nothing else, at every point of commit, flush and compaction, for any number
\* of keys, readers and operations.
THEOREM LsmReadsCommitted == Spec => []ReadsCommitted
<1>1. AllInv => ReadsCommitted
  BY ConsistentReads DEF AllInv, Serving, Consistent, ReadsCommitted
<1> QED BY <1>1, LsmAllInv, PTL

\* The newest-first walk over the lists is sound, because generations only
\* grow and no immutable memtable outlives the flush that made it.
THEOREM LsmLayerOrder == Spec => []LayerOrder
<1>1. AllInv => LayerOrder
  <2> SUFFICES ASSUME AllInv, phase = "up", Healthy
               PROVE  /\ \A i, j \in DOMAIN ssts : i < j => ssts[i].gen < ssts[j].gen
                      /\ \A i \in DOMAIN imms, j \in DOMAIN ssts : ssts[j].gen =< imms[i].id
                      /\ pc \in {"idle", "tx", "compact"} => imms = << >>
    BY DEF LayerOrder
  <2>1. IInv /\ Sound /\ MemoryInv
    BY DEF AllInv, Serving, Consistent
  <2>2. \A i, j \in DOMAIN ssts : i < j => ssts[i].gen < ssts[j].gen
    BY <2>1 DEF Sound, ListsInv, InOrder
  <2>3. pc \in {"idle", "tx", "compact"} => imms = << >>
    BY <2>1 DEF MemoryInv, FlushPCs
  <2>4. ASSUME NEW i \in DOMAIN imms, NEW j \in DOMAIN ssts PROVE ssts[j].gen =< imms[i].id
    <3>1. pc \in FlushPCs
      BY <2>1, <2>4 DEF MemoryInv
    <3>2. Len(imms) = 1 /\ imms[1].id = job.gen
      BY <2>1, <3>1 DEF MemoryInv
    <3>3. i = 1
      BY <2>1, <2>4, <3>2, StateTypes DEF IInv
    <3>4. ssts[j].gen < job.gen
      BY <2>1, <2>4, <3>1 DEF Sound, FlushInv
    <3>5. ssts[j].gen \in Nat /\ job.gen \in Nat
      BY <2>1, <2>4, StateTypes, HandleFields DEF IInv, TypeOK
    <3> QED BY <3>2, <3>3, <3>4, <3>5
  <2> QED BY <2>2, <2>3, <2>4
<1> QED BY <1>1, LsmAllInv, PTL

\* What open() and verify_integrity find in a file that is whole.
LEMMA WholeReads ==
  ASSUME NEW f \in FileType, NEW at \in {0, 1}, Durable(f, at), NEW v, Whole(f, at, v)
  PROVE  /\ ActiveSlot(f) = at /\ HasHeader(f) /\ ManifestReadable(f)
         /\ LiveManifest(f).walStart = f.slots[at].man + 1
         /\ ValidEnd(f, f.slots[at].man + 1) = Len(f.body)
<1> DEFINE s == f.slots[at]
<1>1. ActiveSlot(f) = at
  BY ActiveIs DEF Whole
<1>2. HasHeader(f) /\ ManifestReadable(f) /\ LiveManifest(f) = s.crc
  BY <1>1, DurableOpens
<1>3. s.crc.walStart = s.man + 1
  BY DurableSlot DEF Names
<1>4. s.man \in Nat \ {0} /\ Len(f.body) \in Nat
  BY DurableSlot
<1>5. s.man =< Len(f.body) /\ \A i \in (s.man + 1)..Len(f.body) : f.body[i].kind = "wal"
  BY DEF Whole, Leads, Frames
<1> HIDE DEF s
<1>6. s.man + 1 \in Nat \ {0} /\ (s.man + 1) - 1 =< Len(f.body) /\ Len(f.body) =< Len(f.body)
  BY <1>4, <1>5
<1>7. ValidEnd(f, s.man + 1) = Len(f.body)
  BY <1>4, <1>5, <1>6, ValidEndIs
<1> QED BY <1>1, <1>2, <1>3, <1>7 DEF s

\* Between operations the log of the current file ends where the file ends.
LEMMA ConsistentFile ==
  ASSUME IInv, Sound, FileInv, phase = "up",
         pc \notin {"wal_written", "flush_written", "header_written"}
  PROVE  LET f == files[cw.file]
         IN  /\ ActiveSlot(f) = cw.slot /\ HasHeader(f) /\ ManifestReadable(f)
             /\ LiveManifest(f).walStart = f.slots[cw.slot].man + 1
             /\ ValidEnd(f, f.slots[cw.slot].man + 1) = Len(f.body)
<1> DEFINE f == files[cw.file]
<1>1. f \in FileType /\ cw.slot \in {0, 1} /\ Durable(f, cw.slot)
  BY CurrentDurable
<1>2. Whole(f, cw.slot, committed) \/ Whole(f, cw.slot, Finished)
  BY DEF FileInv
<1> HIDE DEF f
<1>3. /\ ActiveSlot(f) = cw.slot /\ HasHeader(f) /\ ManifestReadable(f)
      /\ LiveManifest(f).walStart = f.slots[cw.slot].man + 1
      /\ ValidEnd(f, f.slots[cw.slot].man + 1) = Len(f.body)
  BY <1>1, <1>2, WholeReads
<1> QED BY <1>3 DEF f

\* Between operations the header names the manifest in use and the log is pure
\* frames from the wal_region_start the engine holds to EOF.
THEOREM LsmWalRegionPure == Spec => []WalRegionPure
<1>1. AllInv => WalRegionPure
  <2> SUFFICES ASSUME AllInv, phase = "up", Healthy, pc \in {"idle", "tx", "logged"}
               PROVE  LET f == files[cw.file]
                      IN  /\ cw.file = path
                          /\ cw.slot = ActiveSlot(f) /\ cw.seq = f.slots[cw.slot].seq
                          /\ LiveManifest(f).walStart = walStart
                          /\ ValidEnd(f, walStart) = Len(f.body)
    BY DEF WalRegionPure
  <2> DEFINE f == files[cw.file]
  <2>1. IInv /\ Sound /\ FileInv /\ PathInv /\ StartInv
    BY DEF AllInv, Serving, Consistent
  <2>2. /\ ActiveSlot(f) = cw.slot /\ LiveManifest(f).walStart = f.slots[cw.slot].man + 1
        /\ ValidEnd(f, f.slots[cw.slot].man + 1) = Len(f.body)
    BY <2>1, ConsistentFile, Zenon
  <2>3. walStart = f.slots[cw.slot].man + 1 /\ path = cw.file
    BY <2>1 DEF StartInv, PathInv
  <2>4. f.slots[cw.slot].seq = cw.seq
    BY <2>1, CurrentDurable
  <2> QED BY <2>2, <2>3, <2>4
<1> QED BY <1>1, LsmAllInv, PTL

\* verify_integrity of a healthy database reports corruption only while a flush
\* or a compaction has published its file and not yet its wal_region_start.
THEOREM LsmVerifyWindow == Spec => VerifyWindow
<1>1. AllInv /\ [Next]_vars =>
        [verdict' = "corruption" /\ verdict # "corruption" /\ Healthy
            => pc \in {"header_synced", "swapped"}]_vars
  <2> SUFFICES ASSUME AllInv, Next, verdict' = "corruption", verdict # "corruption", Healthy,
                      pc \notin {"header_synced", "swapped"}
               PROVE  FALSE
    OBVIOUS
  <2>1. PICK r \in Readers : Verify(r)
    <3>1. verdict' # verdict /\ verdict' # "none"
      OBVIOUS
    <3> QED BY <3>1 DEF Next, Start, OpenFile, BootManifest, BootHeader, BootSync, Recover,
          BeginRead, EndRead, BeginWrite, Rollback, ForceCompact, Buffer,
          CommitStep, WalAppend, WalSync, Apply,
          FlushStep, FlushRotate, FlushWrite, FlushHeader, FlushHeaderSync, FlushPublish,
          CompactStep, CompactSkip, CompactBuild, CompactRename, CompactSyncDir, CompactSwap,
          CompactPublish, Fault, WalWriteFails, WalSyncFails, FlushWriteFails, FlushHeaderFails,
          CompactBuildFails, CompactRenameFails, CompactSyncDirFails, Fails, Crash
  <2>2. /\ phase = "up" /\ snaps[r] # NoSnapshot /\ verdict' = Verdict(r)
        /\ pc \notin {"wal_written", "flush_written", "header_written"}
    BY <2>1 DEF Verify, ContainerLocked
  <2>3. IInv /\ Sound /\ FileInv /\ StartInv
    BY <2>2 DEF AllInv, Serving, Consistent
  <2> DEFINE f == files[cw.file]
  <2>4. HasHeader(f) /\ ManifestReadable(f) /\ ValidEnd(f, f.slots[cw.slot].man + 1) = Len(f.body)
    BY <2>2, <2>3, ConsistentFile, Zenon
  <2>5. walStart = f.slots[cw.slot].man + 1
    BY <2>3 DEF StartInv
  <2>6. \A i \in DOMAIN snaps[r].ssts : IsTable(files[snaps[r].ssts[i].ino], snaps[r].ssts[i].off)
    BY <2>2, <2>3 DEF Sound, ListsInv, TableIn, Txs
  <2>7. Verdict(r) = "ok"
    BY <2>4, <2>5, <2>6 DEF Verdict
  <2> QED BY <2>2, <2>7
<1> QED BY <1>1, LsmAllInv, PTL DEF Spec, VerifyWindow

\* What a crash leaves of the file the engine writes.
LEMMA CurrentImage ==
  ASSUME IInv, Sound, FileInv, phase = "up", NEW g \in CrashImages(files[cw.file])
  PROVE  Recoverable(g) /\ Stored(g) \in Outcomes
<1> DEFINE f == files[cw.file]
           at == cw.slot
           s == f.slots[at]
<1>1. f \in FileType /\ at \in {0, 1} /\ Durable(f, at) /\ s.seq = cw.seq /\ cw.seq \in Nat
  BY CurrentDurable
<1>2. f.dslots[1 - at].seq < s.seq
  BY <1>1 DEF FileInv
<1>3. CASE pc \notin {"wal_written", "logged", "flush_written", "header_written"}
  <2>1. Whole(f, at, committed)
    BY <1>3 DEF FileInv
  <2>2. committed \in Outcomes
    BY <1>3 DEF Outcomes
  <2> HIDE DEF f, at
  <2>3. Stored(g) = committed /\ Recoverable(g)
    BY <1>1, <2>1, WholeImage DEF f
  <2> QED BY <2>2, <2>3
<1>4. CASE pc = "logged"
  <2>1. Whole(f, at, Finished)
    BY <1>4 DEF FileInv
  <2>2. Finished \in Outcomes
    BY <1>4 DEF Outcomes, Finished
  <2> HIDE DEF f, at
  <2>3. Stored(g) = Finished /\ Recoverable(g)
    BY <1>1, <2>1, WholeImage DEF f
  <2> QED BY <2>2, <2>3
<1>5. CASE pc = "wal_written"
  <2>1. /\ f.dslots = f.slots /\ f.synced = Len(f.body) - 1
        /\ Leads(f, s, Len(f.body) - 1, committed) /\ Leads(f, s, Len(f.body), Finished)
    BY <1>5 DEF FileInv
  <2>2. committed \in Outcomes /\ Finished \in Outcomes
    BY <1>5 DEF Outcomes, Finished
  <2>3. g \in CrashImages(f)
    OBVIOUS
  <2> HIDE DEF f, at
  <2>4. Stored(g) \in {committed, Finished} /\ Recoverable(g)
    BY <1>1, <1>2, <2>1, <2>3, LoggingImage
  <2> QED BY <2>2, <2>4
<1>6. CASE pc \in {"flush_written", "header_written"}
  <2> DEFINE end == job.off - 1
  <2>1. /\ Len(f.body) = job.off + 1 /\ Leads(f, s, end, committed)
        /\ Leads(f, NewSlot, Len(f.body), committed)
        /\ pc = "flush_written" => f.dslots = f.slots /\ f.synced = end
        /\ pc = "header_written" => f.synced = Len(f.body)
    BY <1>6 DEF FileInv
  <2>2. f.body[job.off].kind = "sst" /\ job.off \in DOMAIN f.body
    <3>1. job.ino = cw.file
      BY <1>6 DEF IInv, JobInv
    <3> QED BY <1>6, <3>1 DEF Sound, FlushInv, TableIn, IsTable
  <2>3. Len(f.body) \in Nat /\ f.body \in Seq(Extent)
    BY <1>1, FileFields
  <2>4. end \in Nat /\ end < Len(f.body) /\ end + 1 = job.off
    BY <2>1, <2>2, <2>3
  <2>5. f.body[end + 1].kind # "wal"
    BY <2>2, <2>4
  <2>6. committed \in Outcomes
    BY <1>6 DEF Outcomes
  <2>7. pc = "header_written" => f.slots[1 - at] = NewSlot /\ Names(f, NewSlot)
    BY DEF Sound, FlushInv
  <2>8. g \in CrashImages(f)
    OBVIOUS
  <2> HIDE DEF f, at, end
  <2>9. CASE pc = "flush_written"
    <3>1. g.slots[ActiveSlot(g)] = s
      BY <1>1, <1>2, <2>1, <2>8, <2>9, ImageSlot
    <3>2. end =< f.synced
      BY <2>1, <2>4, <2>9
    <3>3. Stored(g) = committed /\ Recoverable(g)
      BY <1>1, <2>1, <2>4, <2>5, <2>8, <3>1, <3>2, TailImage
    <3> QED BY <2>6, <3>3
  <2>10. CASE pc = "header_written"
    <3>1. f.synced = Len(f.body) /\ Names(f, f.slots[1 - at])
          /\ Leads(f, f.slots[1 - at], Len(f.body), committed)
      BY <2>1, <2>7, <2>10
    <3>2. Stored(g) = committed /\ Recoverable(g)
      BY <1>1, <1>2, <2>1, <2>4, <2>5, <2>8, <3>1, HeaderImage
    <3> QED BY <2>6, <3>2
  <2> QED BY <1>6, <2>9, <2>10
<1> QED BY <1>3, <1>4, <1>5, <1>6

\* Every image a crash can leave holds what was committed, with or without
\* the commit under way.
LEMMA AllCrashSafe ==
  AllInv => CrashSafe
<1> SUFFICES ASSUME AllInv, phase = "up", Healthy, NEW i \in {path, dpath},
                    NEW g \in CrashImages(files[i])
             PROVE  Recoverable(g) /\ Stored(g) \in Outcomes
  BY DEF CrashSafe, Images
<1>1. IInv /\ Sound /\ FileInv /\ PathInv
  BY DEF AllInv, Serving, Consistent
<1>2. CASE i = cw.file
  BY <1>1, <1>2, CurrentImage
<1>3. CASE i # cw.file
  <2>1. pc \in {"renamed", "dir_synced"}
    BY <1>1, <1>3 DEF PathInv
  <2>2. i = job.ino
    BY <1>1, <1>3, <2>1 DEF PathInv, Sound, DurableInv
  <2>3. files[i] = FreshFile(job.gen, committed)
    BY <1>1, <2>1, <2>2 DEF PathInv
  <2>4. job.gen \in Nat /\ committed \in View
    BY <1>1, HandleFields DEF IInv, TypeOK
  <2> DEFINE f == FreshFile(job.gen, committed)
  <2>5. f \in FileType /\ Durable(f, 0) /\ Whole(f, 0, committed)
    BY <2>4, FreshWhole, Zenon
  <2>6. g \in CrashImages(f)
    BY <2>3
  <2> HIDE DEF f
  <2>7. Stored(g) = committed /\ Recoverable(g)
    BY <2>5, <2>6, WholeImage
  <2>8. committed \in Outcomes
    BY <2>1 DEF Outcomes
  <2> QED BY <2>7, <2>8
<1> QED BY <1>2, <1>3

\* Whatever a crash leaves on disk of an open database, at any point of commit,
\* flush and compaction, opens again and holds exactly the commits that returned, for
\* any number of keys, commits, tables and earlier crashes, as long as the
\* engine is healthy.
THEOREM LsmCrashSafe == Spec => []CrashSafe
  BY LsmAllInv, AllCrashSafe, PTL

-----------------------------------------------------------------------------
(* Refinement of the storage contract *)

\* The instance's operators on layers are the engine's own.
LEMMA SameOperators ==
  /\ Abstract!EmptyLayer = EmptyLayer
  /\ \A l : Abstract!Live(l) = Live(l)
  /\ \A a, b : Abstract!Overlay(a, b) = Overlay(a, b)
  /\ Abstract!Txs = Txs
  BY DEF Abstract!EmptyLayer, EmptyLayer, Abstract!Live, Live, Abstract!Overlay, Overlay,
         Abstract!Txs, Txs

\* A transaction sees nothing once it has ended or started to commit, and the
\* same database as long as it lasts.
LEMMA SeenAt ==
  ASSUME IInv, Stable, NEW t \in Txs
  PROVE  /\ snaps'[t] = NoSnapshot \/ (t = Writer /\ pc' # "tx") => Seen'[t] = NoSnapshot
         /\ snaps[t] = NoSnapshot \/ (t = Writer /\ pc # "tx") => Seen[t] = NoSnapshot
         /\ snaps'[t] = snaps[t] /\ (t = Writer => (pc = "tx" <=> pc' = "tx")) => Seen'[t] = Seen[t]
<1>1. Seen[t] = IF snaps[t] = NoSnapshot \/ (t = Writer /\ pc # "tx")
                  THEN NoSnapshot ELSE Reads(snaps[t])
  BY DEF Seen
<1>2. Seen'[t] = IF snaps'[t] = NoSnapshot \/ (t = Writer /\ pc' # "tx")
                   THEN NoSnapshot ELSE Reads(snaps[t])'
  BY DEF Seen
<1>3. snaps[t] # NoSnapshot /\ snaps'[t] # NoSnapshot => Reads(snaps[t])' = Reads(snaps[t])
  BY ReadsKept
<1> QED BY <1>1, <1>2, <1>3

LEMMA SeenDomain == Seen = [t \in Txs |-> Seen[t]] /\ Seen' = [t \in Txs |-> Seen'[t]]
  BY DEF Seen

\* Steps in which no transaction begins or ends.
LEMMA SeenSame ==
  ASSUME IInv, Stable, pc = "tx" <=> pc' = "tx",
         \A t \in Txs : snaps'[t] = snaps[t] \/ (t = Writer /\ pc' # "tx")
  PROVE  Seen' = Seen
<1>1. ASSUME NEW t \in Txs PROVE Seen'[t] = Seen[t]
  BY SeenAt
<1> QED BY <1>1, SeenDomain

\* Steps in which transaction u ends, or starts to commit.
LEMMA SeenEnds ==
  ASSUME IInv, Stable, NEW u \in Txs, Seen'[u] = NoSnapshot,
         \A t \in Txs : t # u => snaps'[t] = snaps[t], u # Writer => pc' = pc
  PROVE  Seen' = [Seen EXCEPT ![u] = NoSnapshot]
<1>1. ASSUME NEW t \in Txs, t # u PROVE Seen'[t] = Seen[t]
  BY <1>1, SeenAt
<1> QED BY <1>1, SeenDomain

LEMMA NextReads == (IInv /\ MemoryInv)' => (Reads(Snapshot) = committed)'
<1>1. IInv /\ MemoryInv => Reads(Snapshot) = committed
  BY ConsistentReads
<1> QED BY <1>1, PTL

\* Steps in which transaction u begins.
LEMMA SeenBegins ==
  ASSUME IInv, Stable, IInv', MemoryInv', NEW u \in Txs, snaps'[u] = Snapshot',
         \A t \in Txs : t # u => snaps'[t] = snaps[t], u # Writer => pc' = pc,
         u = Writer => pc' = "tx"
  PROVE  Seen' = [Seen EXCEPT ![u] = committed']
<1>1. ASSUME NEW t \in Txs, t # u PROVE Seen'[t] = Seen[t]
  BY <1>1, SeenAt
<1>2. Reads(Snapshot)' = committed'
  BY NextReads
<1>3. Reads(snaps[u])' = Reads(Snapshot)'
  BY DEF Reads, Stack, TableData, Merged, Live, Flatten, Newest, Holding
<1>4. snaps'[u] # NoSnapshot
  BY SnapshotAssumption DEF IInv, TypeOK
<1>5. Seen'[u] = committed'
  BY <1>2, <1>3, <1>4 DEF Seen
<1> QED BY <1>1, <1>5, SeenDomain

\* A step that changes nothing the contract sees.
LEMMA StutterRefines ==
  ASSUME committed' = committed, pending' = pending, phase' = "up" <=> phase = "up",
         Stage' = Stage, Seen' = Seen
  PROVE  UNCHANGED Abstract!vars
<1>1. Up' = Up
  BY Zenon DEF Up
<1> QED BY <1>1 DEF Abstract!vars

\* The steps of commit, flush and compaction between the ones that matter to
\* the contract.
LEMMA InternalRefines ==
  ASSUME IInv, Stable, phase' = phase, committed' = committed, pending' = pending,
         pc \in {"tx", "wal_written", "logged"} \/ pc' \in {"tx", "wal_written", "logged"}
            => Stage' = Stage,
         \A t \in Txs : snaps'[t] = snaps[t] \/ (t = Writer /\ pc' # "tx")
  PROVE  UNCHANGED Abstract!vars
<1>1. Stage' = Stage
  BY DEF Stage
<1>2. pc = "tx" <=> pc' = "tx"
  BY <1>1 DEF Stage
<1>3. Seen' = Seen
  BY <1>2, SeenSame
<1> QED BY <1>1, <1>3, StutterRefines

LEMMA ReturningWriter ==
  ASSUME IInv, Returning, NEW t \in Txs
  PROVE  snaps'[t] = snaps[t] \/ (t = Writer /\ pc' = "idle" /\ snaps'[t] = NoSnapshot)
  BY DEF IInv, TypeOK, Returning

\* Syncs, flushes and compactions are invisible.
LEMMA WorkRefines ==
  ASSUME IInv, Stable,
         \/ WalSync \/ ForceCompact \/ FlushStep \/ CompactStep \/ CompactBuildFails
         \/ CompactRenameFails
  PROVE  UNCHANGED Abstract!vars
<1>1. CASE WalSync
  <2>1. /\ phase' = phase /\ committed' = committed /\ pending' = pending /\ snaps' = snaps
        /\ pc = "wal_written" /\ pc' = "logged"
    BY <1>1 DEF WalSync, history
  <2>2. Stage' = Stage
    BY <2>1 DEF Stage
  <2> QED BY <2>1, <2>2, InternalRefines
<1>2. CASE ForceCompact
  <2>1. /\ phase' = phase /\ committed' = committed /\ pending' = pending /\ snaps' = snaps
        /\ pc = "idle" /\ pc' = "flush"
    BY <1>2 DEF ForceCompact
  <2> QED BY <2>1, InternalRefines
<1>3. CASE FlushStep
  <2>1. /\ phase' = phase /\ committed' = committed /\ pending' = pending
        /\ pc \notin {"tx", "wal_written", "logged"} /\ pc' \notin {"tx", "wal_written", "logged"}
        /\ (Returning \/ snaps' = snaps)
    BY <1>3 DEF FlushStep, FlushRotate, FlushWrite, FlushHeader, FlushHeaderSync, FlushPublish,
                AfterFlush, history
  <2>2. \A t \in Txs : snaps'[t] = snaps[t] \/ (t = Writer /\ pc' # "tx")
    BY <2>1, ReturningWriter
  <2> QED BY <2>1, <2>2, InternalRefines
<1>4. CASE CompactStep
  <2>1. /\ phase' = phase /\ committed' = committed /\ pending' = pending
        /\ pc \notin {"tx", "wal_written", "logged"} /\ pc' \notin {"tx", "wal_written", "logged"}
        /\ (Returning \/ snaps' = snaps)
    BY <1>4 DEF CompactStep, CompactSkip, CompactBuild, CompactRename, CompactSyncDir, CompactSwap,
                CompactPublish, AfterCompact, history
  <2>2. \A t \in Txs : snaps'[t] = snaps[t] \/ (t = Writer /\ pc' # "tx")
    BY <2>1, ReturningWriter
  <2> QED BY <2>1, <2>2, InternalRefines
<1>5. CASE CompactBuildFails \/ CompactRenameFails
  <2>1. /\ phase' = phase /\ committed' = committed /\ pending' = pending
        /\ pc \notin {"tx", "wal_written", "logged"} /\ pc' \notin {"tx", "wal_written", "logged"}
        /\ Returning
    BY <1>5 DEF CompactBuildFails, CompactRenameFails, Fails
  <2>2. \A t \in Txs : snaps'[t] = snaps[t] \/ (t = Writer /\ pc' # "tx")
    BY <2>1, ReturningWriter
  <2> QED BY <2>1, <2>2, InternalRefines
<1> QED BY <1>1, <1>2, <1>3, <1>4, <1>5

\* A read transaction begins on the database as it is.
LEMMA BeginReadRefines ==
  ASSUME IInv, Stable, IInv', MemoryInv', NEW r \in Readers, BeginRead(r)
  PROVE  Abstract!BeginRead(r)
<1>1. /\ phase = "up" /\ snaps[r] = NoSnapshot /\ snaps' = [snaps EXCEPT ![r] = Snapshot]
      /\ Snapshot' = Snapshot
      /\ UNCHANGED << committed, phase, pending, pc >>
  BY DEF BeginRead, mem, history, Snapshot
<1>2. r \in Txs /\ r # Writer
  BY LsmAssumption DEF Txs
<1>3. snaps'[r] = Snapshot' /\ \A t \in Txs : t # r => snaps'[t] = snaps[t]
  BY <1>1, <1>2 DEF IInv, TypeOK
<1>4. Seen' = [Seen EXCEPT ![r] = committed]
  BY <1>1, <1>2, <1>3, SeenBegins
<1>5. Seen[r] = NoSnapshot
  BY <1>1, <1>2, SeenAt
<1>6. Up /\ Up' = Up /\ Stage' = Stage
  BY <1>1 DEF Up, Stage
<1> QED BY <1>1, <1>4, <1>5, <1>6 DEF Abstract!BeginRead

LEMMA EndReadRefines ==
  ASSUME IInv, Stable, NEW r \in Readers, EndRead(r) \/ Verify(r)
  PROVE  Abstract!EndRead(r) \/ UNCHANGED Abstract!vars
<1>1. /\ phase = "up" /\ DropSnapshot(r) /\ UNCHANGED << committed, phase, pending, pc >>
  BY DEF EndRead, Verify, history
<1>2. r \in Txs /\ r # Writer
  BY LsmAssumption DEF Txs
<1>3. snaps'[r] = NoSnapshot /\ \A t \in Txs : t # r => snaps'[t] = snaps[t]
  BY <1>1, <1>2, DropKeeps
<1>4. Seen'[r] = NoSnapshot
  BY <1>2, <1>3, SeenAt
<1>5. Seen' = [Seen EXCEPT ![r] = NoSnapshot]
  BY <1>1, <1>2, <1>3, <1>4, SeenEnds
<1>6. Up /\ Up' = Up /\ Stage' = Stage
  BY <1>1 DEF Up, Stage
<1>7. CASE Seen[r] # NoSnapshot
  BY <1>1, <1>5, <1>6, <1>7 DEF Abstract!EndRead
<1>8. CASE Seen[r] = NoSnapshot
  <2>1. Seen' = Seen
    BY <1>2, <1>5, <1>8, SeenDomain
  <2> QED BY <1>1, <1>6, <2>1, StutterRefines
<1> QED BY <1>7, <1>8

LEMMA BeginWriteRefines ==
  ASSUME IInv, Stable, IInv', MemoryInv', BeginWrite
  PROVE  Abstract!BeginWrite
<1>1. /\ phase = "up" /\ pc = "idle" /\ pc' = "tx" /\ pending' = EmptyLayer
      /\ snaps' = [snaps EXCEPT ![Writer] = Snapshot] /\ Snapshot' = Snapshot
      /\ UNCHANGED << committed, phase >>
  BY DEF BeginWrite, mem, history, Snapshot
<1>2. Writer \in Txs
  BY DEF Txs
<1>3. snaps'[Writer] = Snapshot' /\ \A t \in Txs : t # Writer => snaps'[t] = snaps[t]
  BY <1>1, <1>2 DEF IInv, TypeOK
<1>4. Seen' = [Seen EXCEPT ![Writer] = committed]
  BY <1>1, <1>2, <1>3, SeenBegins
<1>5. Up /\ Up' = Up /\ Stage = "idle" /\ Stage' = "open"
  BY <1>1 DEF Up, Stage
<1> QED BY <1>1, <1>4, <1>5, SameOperators DEF Abstract!BeginWrite

LEMMA BufferRefines ==
  ASSUME IInv, Stable, NEW k \in Keys, NEW e \in Values \cup {Tombstone}, Buffer(k, e)
  PROVE  Abstract!Buffer(k, e)
<1>1. /\ phase = "up" /\ pc = "tx" /\ pc' = "tx" /\ pending' = [pending EXCEPT ![k] = e]
      /\ UNCHANGED << committed, phase, snaps >>
  BY DEF Buffer, history
<1>2. Seen' = Seen
  BY <1>1, SeenSame
<1>3. Up /\ Up' = Up /\ Stage = "open" /\ Stage' = "open"
  BY <1>1 DEF Up, Stage
<1> QED BY <1>1, <1>2, <1>3 DEF Abstract!Buffer

LEMMA RollbackRefines ==
  ASSUME IInv, Stable, Rollback
  PROVE  Abstract!Rollback
<1>1. /\ phase = "up" /\ pc = "tx" /\ pc' = "idle" /\ pending' = EmptyLayer /\ Returning
      /\ UNCHANGED << committed, phase >>
  BY DEF Rollback, history
<1>2. Writer \in Txs /\ \A t \in Txs : t # Writer => snaps'[t] = snaps[t]
  BY <1>1, ReturningWriter DEF Txs
<1>3. Seen'[Writer] = NoSnapshot
  BY <1>1, <1>2, SeenAt
<1>4. Seen' = [Seen EXCEPT ![Writer] = NoSnapshot]
  BY <1>2, <1>3, SeenEnds
<1>5. Up /\ Up' = Up /\ Stage = "open" /\ Stage' = "idle"
  BY <1>1 DEF Up, Stage
<1> QED BY <1>1, <1>4, <1>5, SameOperators DEF Abstract!Rollback

\* The frame is on its way to the log: from here a crash may keep the commit.
LEMMA WalAppendRefines ==
  ASSUME IInv, Stable, WalAppend
  PROVE  Abstract!StartCommit
<1>1. /\ phase = "up" /\ pc = "tx" /\ pc' = "wal_written"
      /\ UNCHANGED << committed, phase, pending, snaps >>
  BY DEF WalAppend
<1>2. Writer \in Txs
  BY DEF Txs
<1>3. Seen'[Writer] = NoSnapshot
  BY <1>1, <1>2, SeenAt
<1>4. Seen' = [Seen EXCEPT ![Writer] = NoSnapshot]
  BY <1>1, <1>2, <1>3, SeenEnds
<1>5. Up /\ Up' = Up /\ Stage = "open" /\ Stage' = "committing"
  BY <1>1 DEF Up, Stage
<1> QED BY <1>1, <1>4, <1>5 DEF Abstract!StartCommit

\* The whole batch takes effect when it enters the active memtable.
LEMMA ApplyRefines ==
  ASSUME IInv, Stable, Apply
  PROVE  Abstract!Commit
<1>1. /\ phase = "up" /\ pc = "logged" /\ pc' \in {"flush", "idle"} /\ pending' = EmptyLayer
      /\ committed' = Live(Overlay(committed, pending)) /\ Returning /\ phase' = phase
  BY DEF Apply
<1>2. Writer \in Txs /\ \A t \in Txs : t # Writer => snaps'[t] = snaps[t]
  BY <1>1, ReturningWriter DEF Txs
<1>3. Seen'[Writer] = NoSnapshot
  BY <1>1, <1>2, SeenAt
<1>4. Seen' = [Seen EXCEPT ![Writer] = NoSnapshot]
  BY <1>2, <1>3, SeenEnds
<1>5. Up /\ Up' = Up /\ Stage = "committing" /\ Stage' = "idle"
  BY <1>1 DEF Up, Stage
<1> QED BY <1>1, <1>4, <1>5, SameOperators DEF Abstract!Commit

LEMMA StartRefines ==
  ASSUME IInv, Stable, Sound, Start
  PROVE  Abstract!Open \/ UNCHANGED Abstract!vars
<1>1. UNCHANGED << pc, snaps, pending, committed >>
  BY DEF Start, OpenFile, BootManifest, BootHeader, BootSync, Recover, history
<1>2. Stage' = Stage /\ Seen' = Seen
  <2>1. Seen' = Seen
    BY <1>1, SeenSame
  <2> QED BY <1>1, <2>1 DEF Stage
<1>3. CASE Recover
  <2>1. phase # "up" /\ phase' = "up"
    <3>1. phase = "recover" /\ phase' = "up"
      BY <1>3, RecoverFacts, Zenon
    <3> QED BY <3>1
  <2>2. ~ Up /\ Up' = TRUE
    BY <2>1, Zenon DEF Up
  <2> QED BY <1>1, <1>2, <2>2 DEF Abstract!Open
<1>4. CASE OpenFile \/ BootManifest \/ BootHeader \/ BootSync
  <2>1. phase # "up" /\ phase' # "up"
    BY <1>4 DEF OpenFile, BootManifest, BootHeader, BootSync
  <2> QED BY <1>1, <1>2, <2>1, StutterRefines
<1> QED BY <1>3, <1>4 DEF Start

\* A crash of open() itself changes nothing of what the file holds.
LEMMA OpenImage ==
  ASSUME IInv, Sound, StoredInv, phase \notin {"up", "down", "failed"}, NEW i \in {path, dpath},
         NEW g \in CrashImages(files[i])
  PROVE  Stored(g) = committed
<1> DEFINE f == files[path]
<1>1. i = path /\ committed = Stored(f) /\ f \in FileType
  BY PathFile DEF Sound, RestInv, StoredInv
<1>2. phase \in {"boot", "boot_written", "boot_header", "recover"}
  BY DEF IInv, TypeOK, Phases
<1>3. g \in CrashImages(f)
  BY <1>1
<1>4. CASE phase \in {"boot", "boot_written"}
  <2>1. f = EmptyFile \/ f = BootFile
    BY <1>4 DEF Sound, RestInv
  <2>2. Blank(f) /\ f.dslots = f.slots /\ f.synced =< Len(f.body)
    <3>1. CASE f = EmptyFile
      <4>1. EmptyFile.dslots = EmptyFile.slots
        BY DEF EmptyFile
      <4> QED BY <3>1, <4>1, EmptyFileFields DEF Blank
    <3>2. CASE f = BootFile
      BY <3>2, BootFacts
    <3> QED BY <2>1, <3>1, <3>2
  <2>3. Blank(g)
    BY <1>1, <1>3, <2>2, BlankImage
  <2> QED BY <1>1, <2>2, <2>3, BlankStored
<1>5. CASE phase \in {"boot_header", "recover"}
  <2>1. f.synced = Len(f.body)
    <3>1. CASE phase = "boot_header"
      <4>1. f = BootHeaderFile
        BY <3>1 DEF Sound, RestInv
      <4>2. BootHeaderFile.synced = 1 /\ Len(BootHeaderFile.body) = 1
        BY BootFacts
      <4> QED BY <4>1, <4>2
    <3>2. CASE phase = "recover"
      BY <3>2 DEF Sound, RestInv, Clean
    <3> QED BY <1>5, <3>1, <3>2
  <2>2. Len(f.body) \in Nat /\ f.body \in Seq(Extent)
    BY <1>1, FileFields
  <2>3. f.synced =< Len(f.body)
    BY <2>1, <2>2
  <2>4. /\ g \in FileType /\ Len(g.body) \in Nat /\ f.synced =< Len(g.body) /\ Len(g.body) =< Len(f.body)
        /\ Agree(f, g, f.synced) /\ \A n \in {0, 1} : g.slots[n] \in SlotOutcomes(f, n)
    BY <1>1, <1>3, <2>3, ImageFacts, Zenon
  <2>5. g.body = f.body
    <3>1. g.body \in Seq(Extent) /\ Len(g.body) = Len(f.body)
      BY <2>1, <2>2, <2>4, FileFields
    <3>2. \A n \in 1..Len(f.body) : g.body[n] = f.body[n]
      BY <2>1, <2>4 DEF Agree
    <3> HIDE DEF f
    <3> QED BY <2>2, <3>1, <3>2
  <2>6. g.slots \in [{0, 1} -> SlotType] /\ f.slots \in [{0, 1} -> SlotType]
    BY <1>1, <2>4, FileFields
  <2>7. CASE phase = "recover"
    <3>1. f.dslots = f.slots
      BY <2>7 DEF Sound, RestInv, Clean
    <3>2. \A n \in {0, 1} : g.slots[n] = f.slots[n]
      BY <2>4, <3>1 DEF SlotOutcomes
    <3>3. g.slots = f.slots
      BY <2>6, <3>2
    <3> QED BY <1>1, <2>5, <3>3, StoredSame
  <2>8. CASE phase = "boot_header"
    <3>1. f = BootHeaderFile
      BY <2>8 DEF Sound, RestInv
    <3>2. committed = Live(EmptyLayer)
      BY <1>1, <3>1, BootStored
    <3>3. BootHeaderFile.dslots = BootFile.slots /\ BootHeaderFile.slots[1] = BadSlot
          /\ BootFile.slots[0] = BadSlot /\ BootFile.slots[1] = BadSlot
      BY BootFacts DEF Blank
    <3>4. g.slots[1] = BadSlot /\ (g.slots[0] = BadSlot \/ g.slots[0] = f.slots[0])
      BY <2>4, <3>1, <3>3 DEF SlotOutcomes
    <3>5. CASE g.slots[0] = BadSlot
      <4>1. Blank(g)
        BY <3>4, <3>5 DEF Blank
      <4> QED BY <3>2, <4>1, BlankStored
    <3>6. CASE g.slots[0] = f.slots[0]
      <4>1. \A n \in {0, 1} : g.slots[n] = f.slots[n]
        BY <3>1, <3>3, <3>4, <3>6
      <4>2. g.slots = f.slots
        BY <2>6, <4>1
      <4> QED BY <1>1, <2>5, <4>2, StoredSame
    <3> QED BY <3>4, <3>5, <3>6
  <2> QED BY <1>5, <2>7, <2>8
<1> QED BY <1>2, <1>4, <1>5

\* A crash keeps or loses a commit under way as a whole.
LEMMA CrashRefines ==
  ASSUME IInv, Sound, StoredInv, CrashSafe, Healthy, Crash
  PROVE  Abstract!Crash \/ UNCHANGED Abstract!vars
<1>0. PICK i \in {path, dpath} : \E g \in CrashImages(files[i]) :
         /\ committed' = Stored(g) /\ phase \notin {"down", "failed"} /\ phase' = "down"
         /\ pc' = "idle" /\ \A t \in Txs : snaps'[t] = NoSnapshot
  BY CrashFacts
<1>1. PICK g \in CrashImages(files[i]) :
         /\ committed' = Stored(g) /\ phase \notin {"down", "failed"} /\ phase' = "down"
         /\ pc' = "idle" /\ \A t \in Txs : snaps'[t] = NoSnapshot
  BY <1>0
<1>2. pending' = EmptyLayer
  BY DEF Crash
<1>3. Seen' = [t \in Txs |-> NoSnapshot]
  BY <1>1 DEF Seen
<1>4. Stage' = "idle" /\ Up' = FALSE
  <2>1. Stage' = "idle"
    BY <1>1 DEF Stage
  <2>2. Up' = FALSE
    BY <1>1, Zenon DEF Up
  <2> QED BY <2>1, <2>2
<1>5. CASE phase = "up"
  <2>1. Up
    BY <1>5 DEF Up
  <2>2. committed' \in Outcomes
    BY <1>1, <1>5 DEF CrashSafe, Images
  <2>3. committed' = committed \/ (Stage = "committing" /\ committed' = Live(Overlay(committed, pending)))
    BY <2>2 DEF Outcomes, Stage
  <2> QED BY <1>2, <1>3, <1>4, <2>1, <2>3, SameOperators DEF Abstract!Crash, Abstract!Closed
<1>6. CASE phase # "up"
  <2>1. committed' = committed
    BY <1>1, <1>6, OpenImage
  <2>2. pc = "idle" /\ (\A t \in Txs : snaps[t] = NoSnapshot) /\ pending = EmptyLayer
    BY <1>6 DEF IInv, PhaseInv, StoredInv
  <2>3. Seen = [t \in Txs |-> NoSnapshot] /\ Stage = "idle"
    BY <2>2 DEF Seen, Stage
  <2> QED BY <1>1, <1>2, <1>3, <1>4, <1>6, <2>1, <2>2, <2>3, StutterRefines
<1> QED BY <1>5, <1>6

\* Every step of an engine that meets no harmful I/O error is a step of the
\* contract, or none.
LEMMA StepRefines ==
  AllInv /\ AllInv' /\ Healthy /\ Healthy' /\ [Next]_vars => [Abstract!Next]_(Abstract!vars)
<1> SUFFICES ASSUME AllInv, AllInv', Healthy, Healthy', [Next]_vars
             PROVE  Abstract!Next \/ UNCHANGED Abstract!vars
  OBVIOUS
<1>1. IInv /\ Sound /\ StoredInv /\ IInv' /\ CrashSafe /\ Stable
  BY AllCrashSafe, NextIInv DEF AllInv
<1>2. phase' = "up" => MemoryInv'
  BY DEF AllInv, Serving, Consistent
<1>3. CASE UNCHANGED vars
  <2>1. UNCHANGED << phase, committed, pending, pc, snaps >>
    BY <1>3 DEF vars, history
  <2>2. Seen' = Seen /\ Stage' = Stage
    BY <1>1, <2>1, SeenSame DEF Stage
  <2> QED BY <2>1, <2>2, StutterRefines
<1>4. CASE Start
  BY <1>1, <1>4, StartRefines DEF Abstract!Next
<1>5. ASSUME NEW r \in Readers, BeginRead(r) \/ EndRead(r) \/ Verify(r)
      PROVE  Abstract!Next \/ UNCHANGED Abstract!vars
  <2>1. CASE BeginRead(r)
    <3>1. phase' = "up"
      BY <2>1 DEF BeginRead
    <3> QED BY <1>1, <1>2, <2>1, <3>1, BeginReadRefines DEF Abstract!Next
  <2>2. CASE EndRead(r) \/ Verify(r)
    BY <1>1, <2>2, EndReadRefines DEF Abstract!Next
  <2> QED BY <1>5, <2>1, <2>2
<1>6. CASE BeginWrite
  <2>1. phase' = "up"
    BY <1>6 DEF BeginWrite
  <2> QED BY <1>1, <1>2, <1>6, <2>1, BeginWriteRefines DEF Abstract!Next
<1>7. CASE Rollback
  BY <1>1, <1>7, RollbackRefines DEF Abstract!Next
<1>8. ASSUME NEW k \in Keys, NEW e \in Values \cup {Tombstone}, Buffer(k, e)
      PROVE  Abstract!Next
  BY <1>1, <1>8, BufferRefines DEF Abstract!Next
<1>9. CASE CommitStep
  BY <1>1, <1>9, WalAppendRefines, WorkRefines, ApplyRefines DEF CommitStep, Abstract!Next
<1>10. CASE ForceCompact \/ FlushStep \/ CompactStep
  BY <1>1, <1>10, WorkRefines
<1>11. CASE Fault
  BY <1>1, <1>11, HarmfulFaults, WorkRefines DEF Fault
<1>12. CASE Crash
  BY <1>1, <1>12, CrashRefines DEF Abstract!Next
<1> QED BY <1>3, <1>4, <1>5, <1>6, <1>7, <1>8, <1>9, <1>10, <1>11, <1>12 DEF Next

LEMMA InitRefines == Init => Abstract!Init
<1> SUFFICES ASSUME Init PROVE Abstract!Init
  OBVIOUS
<1>1. /\ committed = Live(EmptyLayer) /\ pending = EmptyLayer /\ pc = "idle" /\ phase = "down"
      /\ snaps = [t \in Txs |-> NoSnapshot]
  BY DEF Init
<1>2. Seen = [t \in Txs |-> NoSnapshot] /\ Stage = "idle"
  BY <1>1 DEF Seen, Stage
<1>3. Up \in BOOLEAN
  BY Zenon DEF Up
<1> QED BY <1>1, <1>2, <1>3, SameOperators DEF Abstract!Init, Abstract!Closed

\* As long as no I/O error other than those of write_fresh_container and rename
\* happens, the engine implements the storage contract: atomic, durable,
\* serialized commits and readers on fixed snapshots, across flushes,
\* compactions, crashes and recoveries.
THEOREM LsmImplementsSnapshotStore == Spec /\ []Healthy => ImplementsSnapshotStore
  BY LsmAllInv, InitRefines, StepRefines, PTL DEF Spec, ImplementsSnapshotStore, Abstract!Spec
=============================================================================
