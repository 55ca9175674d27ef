--------------------------- MODULE FileLockProofs ---------------------------
(***************************************************************************)
(* FileLock for every number of processes and inodes: as long as no        *)
(* process is left with an inode that has lost the path, one process owns  *)
(* the database.                                                           *)
(***************************************************************************)
EXTENDS FileLock, TLAPS

IInv == TypeOK /\ LockInv

LEMMA InitIInv == Init => IInv
  BY FileLockAssumption DEF Init, IInv, TypeOK, LockInv, Serving, Compacting

\* Two processes past lock_exclusive are the same process.
LEMMA OneHolder ==
  ASSUME IInv, ~ stray, NEW p \in Processes, NEW q \in Processes,
         pc[p] \in {"locked"} \cup Serving, pc[q] \in {"locked"} \cup Serving
  PROVE  p = q
  BY DEF IInv, LockInv, Serving, Compacting

LEMMA NextIInv == IInv /\ [Next]_vars => IInv'
<1> USE FileLockAssumption
<1> SUFFICES ASSUME IInv, [Next]_vars PROVE IInv'
  OBVIOUS
<1>1. CASE UNCHANGED vars
  BY <1>1 DEF IInv, TypeOK, LockInv, vars, Serving, Compacting
<1>2. ASSUME NEW p \in Processes, Open(p) PROVE IInv'
  BY <1>2 DEF IInv, TypeOK, LockInv, Open, Step, Serving, Compacting
<1>3. ASSUME NEW p \in Processes, Lock(p) PROVE IInv'
  <2>1. TypeOK'
    BY <1>3 DEF IInv, TypeOK, LockInv, Lock, Step, Serving
  <2>2. CASE stray'
    BY <1>3, <2>2 DEF IInv, TypeOK, LockInv, Lock, Step, Serving, Compacting
  <2>3. CASE ~ stray'
    <3>1. ~ stray /\ file[p] = path /\ lock[path] = NoProcess
      BY <1>3, <2>3 DEF Lock
    <3>2. \A q \in Processes : pc[q] \notin {"locked"} \cup Serving
      BY <3>1 DEF IInv, LockInv, Serving
    <3> QED
      BY <1>3, <2>1, <3>1, <3>2 DEF IInv, TypeOK, LockInv, Lock, Step, Serving, Compacting
  <2> QED
    BY <2>1, <2>2, <2>3 DEF IInv
<1>4. ASSUME NEW p \in Processes, Locked(p) PROVE IInv'
  BY <1>4 DEF IInv, TypeOK, LockInv, Locked, Step, Serving, Compacting
<1>5. ASSUME NEW p \in Processes, RemoveTmp(p) PROVE IInv'
  BY <1>5, OneHolder DEF IInv, TypeOK, LockInv, RemoveTmp, Step, Serving, Compacting
<1>6. ASSUME NEW p \in Processes, CreateTmp(p) PROVE IInv'
  <2>1. PICK i \in Inodes :
          /\ IF tmp = NoInode THEN Unused(i) ELSE i = tmp
          /\ tmp' = i
          /\ fresh' = [fresh EXCEPT ![p] = i]
    BY <1>6 DEF CreateTmp
  <2>2. i # path /\ (~ stray => i # file[p])
    <3>1. CASE tmp = NoInode
      BY <2>1, <3>1 DEF Unused
    <3>2. CASE tmp # NoInode
      BY <1>6, <2>1, <3>2 DEF IInv, LockInv, CreateTmp, Step, Serving
    <3> QED
      BY <3>1, <3>2
  <2> QED
    BY <1>6, <2>1, <2>2, OneHolder
    DEF IInv, TypeOK, LockInv, CreateTmp, Step, Serving, Compacting
<1>7. ASSUME NEW p \in Processes, WriteTmp(p) PROVE IInv'
  BY <1>7 DEF IInv, TypeOK, LockInv, WriteTmp, Step, Serving, Compacting
<1>8. ASSUME NEW p \in Processes, LockTmp(p) PROVE IInv'
  BY <1>8, OneHolder DEF IInv, TypeOK, LockInv, LockTmp, Serving, Compacting
<1>9. ASSUME NEW p \in Processes, Rename(p) PROVE IInv'
  BY <1>9, OneHolder DEF IInv, TypeOK, LockInv, Rename, Release, Serving, Compacting
<1>10. ASSUME NEW p \in Processes, Swap(p) PROVE IInv'
  BY <1>10, OneHolder DEF IInv, TypeOK, LockInv, Swap, Step, Release, Serving, Compacting
<1>11. ASSUME NEW p \in Processes, Close(p) PROVE IInv'
  BY <1>11, OneHolder DEF IInv, TypeOK, LockInv, Close, Serving, Compacting
<1>12. ASSUME NEW p \in Processes, WriteTmpFails(p) PROVE IInv'
  BY <1>12, OneHolder DEF IInv, TypeOK, LockInv, WriteTmpFails, Step, Serving, Compacting
<1>13. ASSUME NEW p \in Processes, SyncDirFails(p) PROVE IInv'
  BY <1>13 DEF IInv, TypeOK, LockInv, SyncDirFails, Step, Release, Serving, Compacting
<1>14. ASSUME NEW p \in Processes, NEW i \in Inodes, DropSnapshot(p, i) PROVE IInv'
  BY <1>14, OneHolder DEF IInv, TypeOK, LockInv, DropSnapshot, Release, Serving, Compacting
<1>15. ASSUME NEW p \in Processes, CompactStops(p) PROVE IInv'
  BY <1>15, OneHolder DEF IInv, TypeOK, LockInv, CompactStops, Release, Serving, Compacting
<1> QED
  BY <1>1, <1>2, <1>3, <1>4, <1>5, <1>6, <1>7, <1>8, <1>9, <1>10, <1>11, <1>12, <1>13,
     <1>14, <1>15 DEF Next

\* LockInv holds of every behaviour: whoever passed lock_exclusive holds the lock
\* of the inode the database path names.
THEOREM LockInvariant == Spec => []LockInv
<1>1. IInv => LockInv
  BY DEF IInv
<1> QED
  BY <1>1, InitIInv, NextIInv, PTL DEF Spec

\* One process at most serves the database as long as none was left with an
\* inode that compaction had taken the path from (open_with_options).
THEOREM ExclusiveOwner == Spec => []ExclusiveUnlessStray
<1>1. IInv => ExclusiveUnlessStray
  BY OneHolder DEF IInv, LockInv, ExclusiveUnlessStray, Owners, Serving
<1> QED
  BY <1>1, InitIInv, NextIInv, PTL DEF Spec

\* No open removes a compaction's temporary file under the same condition.
THEOREM TemporaryFileSafe == Spec => []TmpSafeUnlessStray
<1>1. IInv => TmpSafeUnlessStray
  BY DEF IInv, LockInv, TmpSafeUnlessStray
<1> QED
  BY <1>1, InitIInv, NextIInv, PTL DEF Spec
=============================================================================
