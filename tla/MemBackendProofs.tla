-------------------------- MODULE MemBackendProofs --------------------------
(***************************************************************************)
(* MemBackend implements SnapshotStore for every set of keys, values,      *)
(* readers and heap references.                                            *)
(***************************************************************************)
EXTENDS MemBackend, TLAPS

LEMMA ViewType == \A layer \in Layer : Live(layer) \in View
  BY LayersAssumption DEF Layer, Entry, View, Live

LEMMA OverlayType == \A v \in View, l \in Layer : Overlay(v, l) \in Layer
  BY DEF Layer, Entry, View, Overlay

LEMMA EmptyType == EmptyLayer \in Layer
  BY DEF EmptyLayer, Layer, Entry

LEMMA InitTypeOK == Init => TypeOK
  BY EmptyType, ViewType DEF Init, TypeOK

LEMMA NextTypeOK == TypeOK /\ [Next]_vars => TypeOK'
<1> SUFFICES ASSUME TypeOK, [Next]_vars PROVE TypeOK'
  OBVIOUS
<1>1. CASE UNCHANGED vars
  BY <1>1 DEF TypeOK, vars
<1>2. ASSUME NEW r \in Readers, BeginRead(r) \/ EndRead(r) PROVE TypeOK'
  BY <1>2 DEF TypeOK, BeginRead, EndRead, Txs
<1>3. CASE BeginWrite \/ Rollback
  BY <1>3, EmptyType DEF TypeOK, BeginWrite, Rollback, Txs
<1>4. CASE Commit
  <2>1. Live(Overlay(heap[tables], pending)) \in View
    BY ViewType, OverlayType DEF TypeOK
  <2> QED
    BY <1>4, <2>1, EmptyType DEF TypeOK, Commit, Txs
<1>5. ASSUME NEW k \in Keys, NEW e \in Values \cup {Tombstone}, Buffer(k, e)
      PROVE TypeOK'
  BY <1>5 DEF TypeOK, Buffer, Layer, Entry
<1> QED
  BY <1>1, <1>2, <1>3, <1>4, <1>5 DEF Next

\* Every reachable state of the in-memory backend is well typed.
THEOREM MemTypeOK == Spec => []TypeOK
  BY InitTypeOK, NextTypeOK, PTL DEF Spec

-----------------------------------------------------------------------------

LEMMA SameOperators ==
  /\ Abstract!EmptyLayer = EmptyLayer
  /\ \A l : Abstract!Live(l) = Live(l)
  /\ \A a, b : Abstract!Overlay(a, b) = Overlay(a, b)
  /\ Abstract!Txs = Txs
  BY DEF Abstract!EmptyLayer, EmptyLayer, Abstract!Live, Live, Abstract!Overlay, Overlay,
         Abstract!Txs, Txs

LEMMA InitRefines == Init => Abstract!Init
  BY SameOperators DEF Init, Seen, Abstract!Init, Abstract!Closed

\* A step that leaves the heap alone and changes one transaction's reference
\* changes what that transaction sees and nothing else.
LEMMA SeenUpdate ==
  ASSUME TypeOK, UNCHANGED << heap, tables >>, NEW t \in Txs,
         NEW ref \in Refs \cup {NoSnapshot}, snaps' = [snaps EXCEPT ![t] = ref]
  PROVE  Seen' = [Seen EXCEPT ![t] = IF ref = NoSnapshot THEN NoSnapshot ELSE heap[ref]]
<1>1. \A u \in Txs : snaps'[u] = IF u = t THEN ref ELSE snaps[u]
  BY DEF TypeOK
<1>2. Seen' = [u \in Txs |-> IF snaps'[u] = NoSnapshot THEN NoSnapshot ELSE heap[snaps'[u]]]
  BY DEF Seen
<1> DEFINE sees == IF ref = NoSnapshot THEN NoSnapshot ELSE heap[ref]
<1>3. Seen' = [u \in Txs |-> IF u = t THEN sees ELSE Seen[u]]
  BY <1>1, <1>2 DEF Seen
<1>4. Seen = [u \in Txs |-> Seen[u]]
  BY DEF Seen
<1> HIDE DEF sees
<1>5. [Seen EXCEPT ![t] = sees] = [u \in Txs |-> IF u = t THEN sees ELSE Seen[u]]
  BY <1>4
<1> QED
  BY <1>3, <1>5 DEF sees

LEMMA SeenOpen ==
  ASSUME TypeOK, NEW t \in Txs
  PROVE  Seen[t] = NoSnapshot <=> snaps[t] = NoSnapshot
  BY MemAssumption DEF Seen, TypeOK

LEMMA StepRefines == TypeOK /\ [Next]_vars => [Abstract!Next]_(Abstract!vars)
<1> SUFFICES ASSUME TypeOK, [Next]_vars
             PROVE  Abstract!Next \/ UNCHANGED Abstract!vars
  OBVIOUS
<1>0. /\ Writer \in Txs /\ Readers \subseteq Txs
      /\ tables \in Refs /\ tables # NoSnapshot
  BY MemAssumption DEF Txs, TypeOK
<1>1. CASE UNCHANGED vars
  BY <1>1 DEF vars, Abstract!vars, Seen
<1>2. ASSUME NEW r \in Readers, BeginRead(r) PROVE Abstract!Next
  <2>1. Seen' = [Seen EXCEPT ![r] = heap[tables]]
    BY <1>0, <1>2, SeenUpdate DEF BeginRead
  <2> Abstract!BeginRead(r)
    BY <1>0, <1>2, <2>1, SeenOpen DEF BeginRead, Abstract!BeginRead
  <2> QED
    BY DEF Abstract!Next
<1>3. ASSUME NEW r \in Readers, EndRead(r) PROVE Abstract!Next
  <2>1. Seen' = [Seen EXCEPT ![r] = NoSnapshot]
    BY <1>0, <1>3, SeenUpdate DEF EndRead
  <2> Abstract!EndRead(r)
    BY <1>0, <1>3, <2>1, SeenOpen DEF EndRead, Abstract!EndRead
  <2> QED
    BY DEF Abstract!Next
<1>4. CASE BeginWrite
  <2>1. Seen' = [Seen EXCEPT ![Writer] = heap[tables]]
    BY <1>0, <1>4, SeenUpdate DEF BeginWrite
  <2> Abstract!BeginWrite
    BY <1>4, <2>1, SameOperators DEF BeginWrite, Abstract!BeginWrite
  <2> QED
    BY DEF Abstract!Next
<1>5. CASE Rollback
  <2>1. Seen' = [Seen EXCEPT ![Writer] = NoSnapshot]
    BY <1>0, <1>5, SeenUpdate DEF Rollback
  <2> Abstract!Rollback
    BY <1>5, <2>1, SameOperators DEF Rollback, Abstract!Rollback
  <2> QED
    BY DEF Abstract!Next
<1>6. CASE Commit
  <2> DEFINE after == Live(Overlay(heap[tables], pending))
  <2>1. PICK r \in Refs :
          /\ IF Shared THEN Free(r) ELSE r = tables
          /\ heap' = [heap EXCEPT ![r] = after]
          /\ tables' = r
    BY <1>6 DEF Commit
  \* No open snapshot refers to the allocation that is written.
  <2>2. \A t \in Txs : snaps[t] # r
    BY <2>1 DEF Free, Shared
  <2>3. heap'[tables'] = after
    BY <2>1 DEF TypeOK
  <2>4. \A t \in Txs : snaps[t] # NoSnapshot => heap'[snaps[t]] = heap[snaps[t]]
    BY <2>1, <2>2 DEF TypeOK
  <2>5. \A t \in Txs : snaps'[t] = IF t = Writer THEN NoSnapshot ELSE snaps[t]
    BY <1>6 DEF Commit, TypeOK
  <2>6. Seen' = [t \in Txs |-> IF snaps'[t] = NoSnapshot THEN NoSnapshot ELSE heap'[snaps'[t]]]
    BY DEF Seen
  <2>7. Seen' = [Seen EXCEPT ![Writer] = NoSnapshot]
    BY <2>4, <2>5, <2>6 DEF Seen
  <2> Abstract!Commit
    BY <1>6, <2>3, <2>7, SameOperators DEF Commit, Abstract!Commit
  <2> QED
    BY DEF Abstract!Next
<1>7. ASSUME NEW k \in Keys, NEW e \in Values \cup {Tombstone}, Buffer(k, e)
      PROVE Abstract!Next
  <2> Abstract!Buffer(k, e)
    BY <1>7 DEF Buffer, Seen, Abstract!Buffer
  <2> QED
    BY DEF Abstract!Next
<1> QED
  BY <1>1, <1>2, <1>3, <1>4, <1>5, <1>6, <1>7 DEF Next

\* The in-memory backend implements the storage contract: commits are atomic and
\* serialized, and clone-on-write never reaches a snapshot that is still open.
THEOREM MemImplementsSnapshotStore == Spec => ImplementsSnapshotStore
  BY InitTypeOK, NextTypeOK, InitRefines, StepRefines, PTL
  DEF Spec, ImplementsSnapshotStore, Abstract!Spec
=============================================================================
