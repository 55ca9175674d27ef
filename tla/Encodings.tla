----------------------------- MODULE Encodings ------------------------------
(***************************************************************************)
(* What crosses a boundary as bytes: the keys of the storage tables, the   *)
(* layers that hold them, and the calls and values of the C functions.  A  *)
(* state is one input, and the invariants compare what the code makes of   *)
(* it with what it stands for.                                             *)
(***************************************************************************)
EXTENDS Integers, KeyCodec, LsmScan, CApi

CONSTANTS
    Seeds,            \* what the inputs are divided by
    ValueKeys(_),     \* [kind, v, w, pkKind, pk]: two values of a column and a primary key
    EdgeKeys(_),      \* [k, node, type]: an adjacency key and a scan
    PropKeys(_),      \* [k, label, property, v]: a property-index key and a scan
    TableKeys(_),     \* [table, key, other, otherKey]: keys of two tables
    Snapshots(_),     \* [s, pending, blockSize]: the layers of a store
    CCalls(_),        \* [fn, c]: a call of a C function
    Props(_)          \* values that cross the C boundary as JSON

\* The inputs are ones the code meets: values that have a key, names no longer
\* than their length field can say, tables as they are written, calls of the C
\* functions there are.
ASSUME InputsAssumption ==
    \A seed \in Seeds :
        /\ \A q \in ValueKeys(seed) :
               /\ q.kind \in Kinds /\ q.v \in Values(q.kind) /\ q.w \in Values(q.kind)
               /\ q.pkKind \in Kinds /\ q.pk \in Values(q.pkKind)
        /\ \A q \in EdgeKeys(seed) : q.k \in EdgeFields /\ q.node \in Ids /\ q.type \in Names
        /\ \A q \in PropKeys(seed) :
               /\ q.k.label \in Names /\ q.k.property \in Names /\ q.k.node \in Ids
               /\ q.k.kind \in Kinds /\ q.k.v \in Values(q.k.kind)
               /\ q.label \in Names /\ q.property \in Names /\ q.v \in Values(q.k.kind)
        /\ \A q \in TableKeys(seed) :
               q.table \in Names /\ q.key \in Bytes /\ q.other \in Names /\ q.otherKey \in Bytes
        /\ \A q \in Snapshots(seed) : IsStore(q.s, q.pending)
        /\ \A q \in CCalls(seed) : q.fn \in Functions /\ q.c \in Calls(q.fn)
        /\ \A q \in Props(seed) : IsValue(q)

VARIABLE input  \* the kind of input and the input

Init == input \in [kind : {"none"}, q : Seeds]

Pick(kind, inputs) ==
    input.kind = "none" /\ \E q \in inputs : input' = [kind |-> kind, q |-> q]

PickValueKey == Pick("valueKey", ValueKeys(input.q))
PickEdgeKey == Pick("edgeKey", EdgeKeys(input.q))
PickPropKey == Pick("propKey", PropKeys(input.q))
PickTableKey == Pick("tableKey", TableKeys(input.q))
PickSnapshot == Pick("snapshot", Snapshots(input.q))
PickCall == Pick("call", CCalls(input.q))
PickProp == Pick("prop", Props(input.q))

EncodingNext ==
    \/ PickValueKey \/ PickEdgeKey \/ PickPropKey \/ PickTableKey
    \/ PickSnapshot \/ PickCall \/ PickProp
EncodingSpec == Init /\ [][EncodingNext]_input

-----------------------------------------------------------------------------
\* The byte keys of rows, index entries, adjacency and tables sort, scan and
\* decode as the values in them do (value.rs, both codec.rs, index.rs,
\* keys.rs).
KeysExact ==
    LET q == input.q IN
    /\ input.kind = "valueKey" => ValueKeysExact(q.kind, q.v, q.w, q.pkKind, q.pk)
    /\ input.kind = "edgeKey" => AdjKeysExact(q.k, q.node, q.type)
    /\ input.kind = "propKey" => PropKeysExact(q.k, q.label, q.property, q.v)
    /\ input.kind = "tableKey" => TableKeysExact(q.table, q.key, q.other, q.otherKey)

\* Reads, scans and compaction of the LSM layers see the newest entry of every
\* key and no deleted one, and report damage where an answer depends on it
\* (bloom.rs, sstable/, compaction.rs, engine/tx.rs).
StoreReadsExact ==
    input.kind = "snapshot" =>
        LET s == input.q.s  pending == input.q.pending
            ends == {Unbounded, Included(<<1>>), Excluded(<<1>>), Included(<<2>>), Excluded(<<3>>)}
        IN  /\ \A table \in {<<1>>, <<1, 1>>}, key \in {<<>>, <<1>>, <<2>>, <<3>>} :
                   GetExact(s, pending, EncodeKey(table, key))
            /\ \A start \in ends, end \in ends : ScanExact(s, pending, <<1>>, start, end)
            /\ MergedExact(s, input.q.blockSize)

\* A C caller can tell failure from success by the returned value alone, and
\* values change at most once on their way through JSON (c_api.rs).
ApiContract ==
    /\ input.kind = "call" => CallContract(input.q.fn, input.q.c)
    /\ input.kind = "prop" => JsonStable(input.q)

=============================================================================
