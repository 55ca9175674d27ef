------------------------------ MODULE KeyCodec ------------------------------
(***************************************************************************)
(* How values, ids and names become byte strings whose order and prefixes  *)
(* the storage scans rely on: value.rs and relational/codec.rs (rows and   *)
(* secondary indexes), graph/codec.rs and graph/index.rs (adjacency and    *)
(* property indexes), keys.rs of the LSM engine (tables in one key space). *)
(*                                                                         *)
(* Bytes are 0..Base-1 and integers have Width of them, instead of 256 and *)
(* 8; lengths take one byte.  A string is the sequence of its UTF-8 bytes, *)
(* in which the greatest byte never occurs.  An optional value is a        *)
(* sequence of length 0 or 1; a bound is [side, v].                        *)
(***************************************************************************)
EXTENDS Integers, SequencesExt

CONSTANTS Base, Width

ASSUME CodecAssumption == Base \in Nat /\ Base > 2 /\ Base % 2 = 0 /\ Width \in Nat \ {0}

Top == Base - 1
Power[n \in Nat] == IF n = 0 THEN 1 ELSE Base * Power[n - 1]
Range64 == Power[Width]

\* Byte strings are compared as memcmp does.
Less(a, b) ==
    \E i \in 1..Len(b) :
        /\ i <= Len(a) + 1 /\ \A j \in 1..i - 1 : a[j] = b[j]
        /\ i <= Len(a) => a[i] < b[i]
Starts(p, s) == Len(p) <= Len(s) /\ \A i \in DOMAIN p : p[i] = s[i]

\* to_be_bytes and from_be_bytes.
Be(n) == [i \in 1..Width |-> (n \div Power[Width - i]) % Base]
FromBe(bytes) == CHOOSE n \in 0..Range64 - 1 : Be(n) = bytes

\* sortable_key: the sign bit flipped, a terminated string, the bytes as they
\* are; a string with a NUL byte has no key.
Flip(n) == n + Range64 \div 2
SortableKey(kind, v) ==
    CASE kind \in {"int", "timestamp"} -> <<Be(Flip(v))>>
      [] kind = "str" -> IF 0 \in ToSet(v) THEN <<>> ELSE <<Append(v, 0)>>
      [] kind = "uuid" -> <<v>>
      [] OTHER -> <<>>
SortableEncode(kind, v) == SortableKey(kind, v)[1]

DecodeSortable(kind, bytes) ==
    CASE kind \in {"int", "timestamp"} ->
             IF Len(bytes) = Width THEN <<FromBe(bytes) - Range64 \div 2>> ELSE <<>>
      [] kind = "uuid" -> IF Len(bytes) = Width THEN <<bytes>> ELSE <<>>
      [] kind = "str" -> IF bytes # <<>> /\ Last(bytes) = 0 THEN <<Front(bytes)>> ELSE <<>>

\* index_key, and the primary key read back from one.
IndexKey(kind, v, pkKind, pk) == SortableEncode(kind, v) \o SortableEncode(pkKind, pk)
IndexedValueLen(kind, key) ==
    IF kind = "str" THEN CHOOSE n \in DOMAIN key : key[n] = 0 /\ \A m \in 1..n - 1 : key[m] # 0
    ELSE Width
PkFromIndexKey(kind, pkKind, key) ==
    DecodeSortable(pkKind, SubSeq(key, IndexedValueLen(kind, key) + 1, Len(key)))

\* prefix_upper_bound: the last byte that can grow grows, the rest is cut.
PrefixUpperBound(p) ==
    LET grow == {i \in DOMAIN p : p[i] # Top}
    IN  IF grow = {} THEN <<>>
        ELSE LET i == CHOOSE x \in grow : \A y \in grow : y <= x
             IN  <<Append(SubSeq(p, 1, i - 1), p[i] + 1)>>

Unbounded == [side |-> "unbounded", v |-> <<>>]
Included(b) == [side |-> "included", v |-> b]
Excluded(b) == [side |-> "excluded", v |-> b]
Above(lo, key) ==
    CASE lo.side = "unbounded" -> TRUE
      [] lo.side = "included" -> ~Less(key, lo.v)
      [] lo.side = "excluded" -> Less(lo.v, key)
Below(hi, key) ==
    CASE hi.side = "unbounded" -> TRUE
      [] hi.side = "included" -> ~Less(hi.v, key)
      [] hi.side = "excluded" -> Less(key, hi.v)
PastPrefix(p, side) == IF PrefixUpperBound(p) = <<>> THEN Unbounded ELSE [side |-> side, v |-> PrefixUpperBound(p)[1]]

\* lower_bound_bytes, upper_bound_bytes and sortable_str_prefix_bounds: an
\* index key is longer than the value it begins with.
LowerBoundBytes(kind, b) ==
    CASE b.side = "unbounded" -> Unbounded
      [] b.side = "included" -> Included(SortableEncode(kind, b.v))
      [] b.side = "excluded" -> PastPrefix(SortableEncode(kind, b.v), "included")
UpperBoundBytes(kind, b) ==
    CASE b.side = "unbounded" -> Unbounded
      [] b.side = "excluded" -> Excluded(SortableEncode(kind, b.v))
      [] b.side = "included" -> PastPrefix(SortableEncode(kind, b.v), "excluded")
StrPrefixBounds(p) ==
    IF p = <<>> THEN [lo |-> Unbounded, hi |-> Unbounded]
    ELSE [lo |-> Included(p), hi |-> PastPrefix(p, "excluded")]

-----------------------------------------------------------------------------
\* graph/codec.rs.

\* The length is cut to the bytes it has (`as u16`).
EncodeEdgeType(t) == <<Len(t) % Base>> \o t
AdjKey(first, type, second, edge) == Be(first) \o EncodeEdgeType(type) \o Be(second) \o Be(edge)
AdjTypePrefix(first, type) == Be(first) \o EncodeEdgeType(type)
AdjTypeUpperBoundShort(first, type) == AdjTypePrefix(first, type) \o [i \in 1..Width |-> Top]
AdjTypeUpperBound(first, type) == AdjTypePrefix(first, type) \o [i \in 1..2 * Width |-> Top]
DecodeAdjKey(key) ==
    LET len == key[Width + 1]
        off == Width + 1 + len
    IN  [first |-> FromBe(SubSeq(key, 1, Width)), type |-> SubSeq(key, Width + 2, off),
         second |-> FromBe(SubSeq(key, off + 1, off + Width)),
         edge |-> FromBe(SubSeq(key, off + Width + 1, off + 2 * Width))]

\* next_node_prefix: nothing follows the greatest id.
NextNodePrefix(n) == IF n + 1 = Range64 THEN Unbounded ELSE Excluded(Be(n + 1))

\* graph/index.rs: keys of the property index, and the node at their end.
PropPrefix(label, property) == <<Len(label)>> \o label \o <<Len(property)>> \o property
PropKey(label, property, kind, v, n) == PropPrefix(label, property) \o SortableEncode(kind, v) \o Be(n)
ScanPrefix(p, key) == Above(Included(p), key) /\ Below(PastPrefix(p, "excluded"), key)
TrailingNodeId(key) == FromBe(SubSeq(key, Len(key) - Width + 1, Len(key)))

\* keys.rs: the table's name leads every key.
TablePrefix(table) == <<Len(table)>> \o table
EncodeKey(table, key) == TablePrefix(table) \o key

-----------------------------------------------------------------------------
\* What keys are made of: ids, names whose length one byte can say, and the
\* values of each kind that has a key.
Bytes == Seq(0..Top)
Ids == 0..Range64 - 1
Names == {s \in Bytes : Len(s) < Base}
Kinds == {"int", "timestamp", "str", "uuid"}
Values(kind) ==
    CASE kind \in {"int", "timestamp"} -> -(Range64 \div 2)..Range64 \div 2 - 1
      [] kind = "str" -> Seq(1..Top - 1)
      [] kind = "uuid" -> [1..Width -> 0..Top]

EdgeFields == [first : Ids, type : Names, second : Ids, edge : Ids]

\* The order of values that the byte order must be.
Precedes(kind, a, b) == IF kind \in {"int", "timestamp"} THEN a < b ELSE Less(a, b)
WithinLower(kind, b, v) ==
    CASE b.side = "unbounded" -> TRUE
      [] b.side = "included" -> ~Precedes(kind, v, b.v)
      [] b.side = "excluded" -> Precedes(kind, b.v, v)
WithinUpper(kind, b, v) ==
    CASE b.side = "unbounded" -> TRUE
      [] b.side = "included" -> ~Precedes(kind, b.v, v)
      [] b.side = "excluded" -> Precedes(kind, v, b.v)

\* Encoded values order and decode as the values do; the row key and the
\* index keys of v lie inside byte bounds exactly when v lies inside the value
\* bounds, whatever primary key follows.  The one exception is a lower bound that excludes the
\* greatest value there is: it is dropped.
ValueKeysExact(kind, v, w, pkKind, pk) ==
    LET key == IndexKey(kind, v, pkKind, pk) IN
    /\ Less(SortableEncode(kind, v), SortableEncode(kind, w)) <=> Precedes(kind, v, w)
    /\ DecodeSortable(kind, SortableEncode(kind, v)) = <<v>>
    /\ PkFromIndexKey(kind, pkKind, key) = <<pk>>
    /\ \A side \in {"unbounded", "included", "excluded"}, x \in {key, SortableEncode(kind, v)} :
           LET b == [side |-> side, v |-> w] IN
           /\ Below(UpperBoundBytes(kind, b), x) <=> WithinUpper(kind, b, v)
           /\ \/ Above(LowerBoundBytes(kind, b), x) <=> WithinLower(kind, b, v)
              \/ b.side = "excluded" /\ ToSet(SortableEncode(kind, w)) = {Top}
    /\ ScanPrefix(SortableEncode(kind, w), key) <=> v = w
    /\ kind = "str" =>
           ((Above(StrPrefixBounds(w).lo, key) /\ Below(StrPrefixBounds(w).hi, key)) <=> Starts(w, v))

\* An adjacency key gives its four fields back; the scan over a node's keys,
\* and over those of one type, finds it exactly when they are its own.  A type
\* longer than its length field can say is left out.
AdjKeysExact(k, node, type) ==
    LET key == AdjKey(k.first, k.type, k.second, k.edge) IN
    /\ DecodeAdjKey(key) = k
    /\ (Above(Included(Be(node)), key) /\ Below(NextNodePrefix(node), key)) <=> k.first = node
    /\ (Above(Included(AdjTypePrefix(node, type)), key) /\ Below(Included(AdjTypeUpperBound(node, type)), key))
           <=> (k.first = node /\ k.type = type)

\* A scan of the property index finds the entries of its own label, property
\* and value, and nothing of another label or property.
PropKeysExact(k, label, property, v) ==
    LET key == PropKey(k.label, k.property, k.kind, k.v, k.node)
        hit == ScanPrefix(PropPrefix(label, property) \o SortableEncode(k.kind, v), key)
    IN  /\ TrailingNodeId(key) = k.node
        /\ hit <=> (k.label = label /\ k.property = property /\ k.v = v)

\* Tables do not overlap in the shared key space and keep the order of keys.
TableKeysExact(table, key, other, otherKey) ==
    /\ ScanPrefix(TablePrefix(other), EncodeKey(table, key)) <=> table = other
    /\ table = other => (Less(EncodeKey(table, key), EncodeKey(other, otherKey)) <=> Less(key, otherKey))
    /\ EncodeKey(table, key) = EncodeKey(other, otherKey) => table = other /\ key = otherKey

=============================================================================
