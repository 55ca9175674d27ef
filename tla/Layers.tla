------------------------------- MODULE Layers -------------------------------
(***************************************************************************)
(* The newest-wins reading of a stack of key/value layers, shared by every *)
(* part of the LSM engine that merges memtables and SSTables               *)
(* (bkndb-storage-lsm: memtable.rs, engine/tx.rs, compaction.rs).          *)
(*                                                                         *)
(* A layer is a total function from Keys: Absent where the map has no      *)
(* entry, Tombstone for a buffered or stored delete, else the value.       *)
(* A stack lists layers OLDEST FIRST; the code walks them in reverse.      *)
(***************************************************************************)
EXTENDS Integers, Sequences, FiniteSets

CONSTANTS Keys, Values, Tombstone, Absent

ASSUME LayersAssumption ==
    /\ Tombstone \notin Values
    /\ Absent \notin Values
    /\ Tombstone # Absent

\* memtable.rs: LsmValue::Value / LsmValue::Tombstone, or no entry at all.
Entry == Values \cup {Tombstone, Absent}

\* A Memtable, a Pending overlay or the contents of one SSTable.
Layer == [Keys -> Entry]

\* What a reader can see: LsmValue::Tombstone reads as None.
View == [Keys -> Values \cup {Absent}]

EmptyLayer == [k \in Keys |-> Absent]

\* Number of entries a layer holds; one entry is one unit of memtable size.
Size(layer) == Cardinality({k \in Keys : layer[k] # Absent})

\* BTreeMap::insert of every entry of `new` into `old`.
Overlay(old, new) ==
    [k \in Keys |-> IF new[k] = Absent THEN old[k] ELSE new[k]]

\* The layers of a stack that hold an entry for k.
Holding(stack, k) == {i \in DOMAIN stack : stack[i][k] # Absent}

\* The entry of the newest layer holding k: lookup's loops return at the
\* first hit, and the lowest source index wins in MergeIter.
Newest(stack, k) ==
    IF Holding(stack, k) = {}
      THEN Absent
      ELSE LET top == CHOOSE i \in Holding(stack, k) :
                        \A j \in Holding(stack, k) : j =< i
           IN  stack[top][k]

\* All the entries of a stack in one layer, tombstones kept.
Flatten(stack) == [k \in Keys |-> Newest(stack, k)]

\* Mutant: a tombstone comes out as an entry.
KeepTombstones(layer) == layer

\* A tombstone has done its work once it has shadowed the older layers.
Live(layer) ==
    [k \in Keys |-> IF layer[k] = Tombstone THEN Absent ELSE layer[k]]

\* lookup for every key at once, and the output of MergeIter.
Merged(stack) == Live(Flatten(stack))

=============================================================================
