---------------------------- MODULE BackupProofs ----------------------------
(***************************************************************************)
(* backup_to for every number of callers, commits and crashes: calls that  *)
(* do not overlap leave whole copies, never replace one, and (LSM) an      *)
(* acknowledged copy survives a crash.                                     *)
(***************************************************************************)
EXTENDS Backup, TLAPS

Busy(c) == pc[c] # "idle"

\* One call at a time, and only while there is no copy yet, until its rename.
OneCall ==
    \A c \in Callers : Busy(c) =>
        /\ \A d \in Callers : Busy(d) => c = d
        /\ pc[c] # "renamed" => dest = NoInode /\ ddest = NoInode
        /\ start[c] # 0 /\ start[c] =< db
        /\ pc[c] # "checked" => start[c] =< snap[c]

\* What the call under way has written so far is in the file it thinks it is in.
InProgress ==
    \A c \in Callers :
        /\ pc[c] \in {"writing", "written", "synced"} => mine[c] = tmp /\ tmp \in Inodes
        /\ pc[c] \in {"idle", "checked", "snapped", "removed"} => mine[c] = NoInode
        /\ pc[c] \in {"written", "synced"} => content[tmp].data = snap[c]
        /\ pc[c] = "synced" => content[tmp].synced
        /\ pc[c] = "renamed" => /\ dest \in Inodes /\ mine[c] = dest
                                /\ content[dest].data = snap[c]

\* The copy in place, and the temporary file beside it.
InPlace ==
    /\ dest # NoInode => Whole(dest) /\ tmp # dest
    /\ ddest \in {dest, NoInode}
    /\ ~ redb /\ acked # 0 =>
          dest # NoInode /\ ddest = dest /\ content[dest].data >= acked

IInv == TypeOK /\ (~ overlap => OneCall /\ InProgress /\ InPlace)

LEMMA InitIInv == Init => IInv
<1> SUFFICES ASSUME Init PROVE IInv
  OBVIOUS
<1>1. TypeOK
  <2>1. content \in [Inodes -> [data : Nat, synced : BOOLEAN]]
    BY DEF Init, Partial
  <2>2. pc \in [Callers -> PCs] /\ mine \in [Callers -> Inodes \cup {NoInode}]
    BY DEF Init, PCs
  <2>3. start \in [Callers -> Nat] /\ snap \in [Callers -> Nat]
    BY DEF Init
  <2>4. db \in Nat \ {0} /\ acked \in Nat /\ crashes \in Nat
    BY DEF Init
  <2>5. {dest, ddest, tmp} \subseteq Inodes \cup {NoInode} /\ {overlap, redb} \subseteq BOOLEAN
    BY DEF Init
  <2> QED
    BY <2>1, <2>2, <2>3, <2>4, <2>5 DEF TypeOK
<1>2. OneCall /\ InProgress
  BY BackupAssumption DEF Init, OneCall, InProgress, Busy
<1>3. InPlace
  BY DEF Init, InPlace
<1> QED
  BY <1>1, <1>2, <1>3 DEF IInv

LEMMA NextIInv == IInv /\ [Next]_vars => IInv'
<1> USE BackupAssumption
<1> SUFFICES ASSUME IInv, [Next]_vars PROVE IInv'
  OBVIOUS
<1>0. CASE UNCHANGED vars
  BY <1>0 DEF IInv, TypeOK, OneCall, InProgress, InPlace, Whole, Busy, vars, dir, caller, history
<1>1. ASSUME NEW c \in Callers, Check(c) PROVE IInv'
  <2>1. TypeOK'
    BY <1>1 DEF IInv, TypeOK, PCs, Check, Step, dir
  <2> SUFFICES ASSUME ~ overlap' PROVE OneCall' /\ InProgress' /\ InPlace'
    BY <2>1 DEF IInv
  <2>2. OneCall'
    <3>1. ~ overlap /\ \A d \in Callers \ {c} : pc[d] = "idle"
      BY <1>1 DEF Check
    <3> QED
      BY <1>1, <3>1 DEF IInv, TypeOK, OneCall, InPlace, Busy, Check, Step, dir
  <2>3. InProgress'
    BY <1>1 DEF IInv, TypeOK, OneCall, InProgress, InPlace, Busy, Check, Step, dir
  <2>4. InPlace'
    BY <1>1 DEF IInv, TypeOK, OneCall, InProgress, InPlace, Whole, Busy, Check, Step, dir
  <2> QED
    BY <2>2, <2>3, <2>4
<1>2. ASSUME NEW c \in Callers, Snapshot(c) PROVE IInv'
  <2>1. TypeOK'
    BY <1>2 DEF IInv, TypeOK, PCs, Snapshot, Step, dir, history
  <2> SUFFICES ASSUME ~ overlap' PROVE OneCall' /\ InProgress' /\ InPlace'
    BY <2>1 DEF IInv
  <2>2. OneCall'
    BY <1>2 DEF IInv, TypeOK, OneCall, InProgress, InPlace, Busy, Snapshot, Step, dir, history
  <2>3. InProgress'
    BY <1>2 DEF IInv, TypeOK, OneCall, InProgress, InPlace, Busy, Snapshot, Step, dir, history
  <2>4. InPlace'
    BY <1>2
    DEF IInv, TypeOK, OneCall, InProgress, InPlace, Whole, Busy, Snapshot, Step, dir, history
  <2> QED
    BY <2>2, <2>3, <2>4
<1>3. ASSUME NEW c \in Callers, SnapshotFails(c) PROVE IInv'
  <2>1. TypeOK'
    BY <1>3 DEF IInv, TypeOK, PCs, SnapshotFails, Return, dir, history
  <2> SUFFICES ASSUME ~ overlap' PROVE OneCall' /\ InProgress' /\ InPlace'
    BY <2>1 DEF IInv
  <2>2. OneCall'
    BY <1>3
    DEF IInv, TypeOK, OneCall, InProgress, InPlace, Busy, SnapshotFails, Return, dir, history
  <2>3. InProgress'
    BY <1>3
    DEF IInv, TypeOK, OneCall, InProgress, InPlace, Busy, SnapshotFails, Return, dir, history
  <2>4. InPlace'
    BY <1>3
    DEF IInv, TypeOK, OneCall, InProgress, InPlace, Whole, Busy, SnapshotFails, Return, dir, history
  <2> QED
    BY <2>2, <2>3, <2>4
<1>4. ASSUME NEW c \in Callers, RemoveTmp(c) PROVE IInv'
  <2>1. TypeOK'
    BY <1>4 DEF IInv, TypeOK, PCs, RemoveTmp, Step, history
  <2> SUFFICES ASSUME ~ overlap' PROVE OneCall' /\ InProgress' /\ InPlace'
    BY <2>1 DEF IInv
  <2>2. OneCall'
    BY <1>4 DEF IInv, TypeOK, OneCall, InProgress, InPlace, Busy, RemoveTmp, Step, history
  <2>3. InProgress'
    BY <1>4 DEF IInv, TypeOK, OneCall, InProgress, InPlace, Busy, RemoveTmp, Step, history
  <2>4. InPlace'
    BY <1>4
    DEF IInv, TypeOK, OneCall, InProgress, InPlace, Whole, Busy, RemoveTmp, Step, history
  <2> QED
    BY <2>2, <2>3, <2>4
<1>5. ASSUME NEW c \in Callers, Create(c) PROVE IInv'
  <2>1. TypeOK'
    BY <1>5 DEF IInv, TypeOK, PCs, Create, Step, history, Partial
  <2> SUFFICES ASSUME ~ overlap' PROVE OneCall' /\ InProgress' /\ InPlace'
    BY <2>1 DEF IInv
  <2>2. OneCall'
    BY <1>5 DEF IInv, TypeOK, OneCall, InProgress, InPlace, Busy, Create, Step, history
  <2>3. InProgress'
    BY <1>5 DEF IInv, TypeOK, OneCall, InProgress, InPlace, Busy, Create, Step, history
  <2>4. InPlace'
    BY <1>5 DEF IInv, TypeOK, OneCall, InProgress, InPlace, Whole, Busy, Create, Step, history
  <2> QED
    BY <2>2, <2>3, <2>4
<1>6. ASSUME NEW c \in Callers, Write(c) PROVE IInv'
  <2>1. TypeOK'
    <3>1. PICK d \in Nat :
            content' = [content EXCEPT ![mine[c]] = [data |-> d, synced |-> FALSE]]
      BY <1>6 DEF IInv, TypeOK, Write, Partial
    <3> QED
      BY <1>6, <3>1 DEF IInv, TypeOK, PCs, Write, Step, dir, history
  <2> SUFFICES ASSUME ~ overlap' PROVE OneCall' /\ InProgress' /\ InPlace'
    BY <2>1 DEF IInv
  <2>2. OneCall'
    BY <1>6 DEF IInv, TypeOK, OneCall, InProgress, InPlace, Busy, Write, Step, dir, history
  <2>3. InProgress'
    BY <1>6 DEF IInv, TypeOK, OneCall, InProgress, InPlace, Busy, Write, Step, dir, history
  <2>4. InPlace'
    BY <1>6
    DEF IInv, TypeOK, OneCall, InProgress, InPlace, Whole, Busy, Write, Step, dir, history
  <2> QED
    BY <2>2, <2>3, <2>4
<1>7. ASSUME NEW c \in Callers, Sync(c) PROVE IInv'
  <2>1. TypeOK'
    BY <1>7 DEF IInv, TypeOK, PCs, Sync, Step, dir, history
  <2> SUFFICES ASSUME ~ overlap' PROVE OneCall' /\ InProgress' /\ InPlace'
    BY <2>1 DEF IInv
  <2>2. OneCall'
    BY <1>7 DEF IInv, TypeOK, OneCall, InProgress, InPlace, Busy, Sync, Step, dir, history
  <2>3. InProgress'
    BY <1>7 DEF IInv, TypeOK, OneCall, InProgress, InPlace, Busy, Sync, Step, dir, history
  <2>4. InPlace'
    BY <1>7
    DEF IInv, TypeOK, OneCall, InProgress, InPlace, Whole, Busy, Sync, Step, dir, history
  <2> QED
    BY <2>2, <2>3, <2>4
<1>8. ASSUME NEW c \in Callers, WriteFails(c) PROVE IInv'
  <2>1. TypeOK'
    BY <1>8 DEF IInv, TypeOK, PCs, WriteFails, Return, history
  <2> SUFFICES ASSUME ~ overlap' PROVE OneCall' /\ InProgress' /\ InPlace'
    BY <2>1 DEF IInv
  <2>2. OneCall'
    BY <1>8 DEF IInv, TypeOK, OneCall, InProgress, InPlace, Busy, WriteFails, Return, history
  <2>3. InProgress'
    BY <1>8 DEF IInv, TypeOK, OneCall, InProgress, InPlace, Busy, WriteFails, Return, history
  <2>4. InPlace'
    BY <1>8
    DEF IInv, TypeOK, OneCall, InProgress, InPlace, Whole, Busy, WriteFails, Return, history
  <2> QED
    BY <2>2, <2>3, <2>4
<1>9. ASSUME NEW c \in Callers, Rename(c) PROVE IInv'
  <2>1. TypeOK'
    BY <1>9 DEF IInv, TypeOK, PCs, Rename, Step, history
  <2> SUFFICES ASSUME ~ overlap' PROVE OneCall' /\ InProgress' /\ InPlace'
    BY <2>1 DEF IInv
  <2>2. OneCall'
    BY <1>9 DEF IInv, TypeOK, OneCall, InProgress, InPlace, Busy, Rename, Step, history
  <2>3. InProgress'
    BY <1>9 DEF IInv, TypeOK, OneCall, InProgress, InPlace, Busy, Rename, Step, history
  <2>4. InPlace'
    <3>1. /\ dest = NoInode /\ ddest = NoInode /\ (~ redb => acked = 0)
          /\ start[c] # 0 /\ start[c] =< snap[c]
          /\ tmp \in Inodes /\ content[tmp].data = snap[c] /\ content[tmp].synced
      BY <1>9 DEF IInv, TypeOK, OneCall, InProgress, InPlace, Busy, Rename, Step, history
    <3>2. snap[c] # 0
      BY <3>1 DEF IInv, TypeOK
    <3>3. Whole(tmp)
      BY <3>1, <3>2 DEF Whole, Partial
    <3> QED
      BY <1>9, <3>1, <3>3 DEF InPlace, Whole, Rename, history
  <2> QED
    BY <2>2, <2>3, <2>4
<1>10. ASSUME NEW c \in Callers, RenameFails(c) PROVE IInv'
  <2>1. TypeOK'
    BY <1>10 DEF IInv, TypeOK, PCs, RenameFails, Return, history
  <2> SUFFICES ASSUME ~ overlap' PROVE OneCall' /\ InProgress' /\ InPlace'
    BY <2>1 DEF IInv
  <2>2. OneCall'
    BY <1>10 DEF IInv, TypeOK, OneCall, InProgress, InPlace, Busy, RenameFails, Return, history
  <2>3. InProgress'
    BY <1>10 DEF IInv, TypeOK, OneCall, InProgress, InPlace, Busy, RenameFails, Return, history
  <2>4. InPlace'
    BY <1>10
    DEF IInv, TypeOK, OneCall, InProgress, InPlace, Whole, Busy, RenameFails, Return, history
  <2> QED
    BY <2>2, <2>3, <2>4
<1>11. ASSUME NEW c \in Callers, Finish(c) PROVE IInv'
  <2>1. TypeOK'
    BY <1>11 DEF IInv, TypeOK, PCs, Finish, Return
  <2> SUFFICES ASSUME ~ overlap' PROVE OneCall' /\ InProgress' /\ InPlace'
    BY <2>1 DEF IInv
  <2>2. OneCall'
    BY <1>11 DEF IInv, TypeOK, OneCall, InProgress, InPlace, Busy, Finish, Return
  <2>3. InProgress'
    BY <1>11 DEF IInv, TypeOK, OneCall, InProgress, InPlace, Busy, Finish, Return
  <2>4. InPlace'
    BY <1>11 DEF IInv, TypeOK, OneCall, InProgress, InPlace, Whole, Busy, Finish, Return
  <2> QED
    BY <2>2, <2>3, <2>4
<1>12. ASSUME NEW c \in Callers, FinishFails(c) PROVE IInv'
  <2>1. TypeOK'
    BY <1>12 DEF IInv, TypeOK, PCs, FinishFails, Return, dir, history
  <2> SUFFICES ASSUME ~ overlap' PROVE OneCall' /\ InProgress' /\ InPlace'
    BY <2>1 DEF IInv
  <2>2. OneCall'
    BY <1>12
    DEF IInv, TypeOK, OneCall, InProgress, InPlace, Busy, FinishFails, Return, dir, history
  <2>3. InProgress'
    BY <1>12
    DEF IInv, TypeOK, OneCall, InProgress, InPlace, Busy, FinishFails, Return, dir, history
  <2>4. InPlace'
    BY <1>12
    DEF IInv, TypeOK, OneCall, InProgress, InPlace, Whole, Busy, FinishFails, Return, dir, history
  <2> QED
    BY <2>2, <2>3, <2>4
<1>13. ASSUME Crash PROVE IInv'
  BY <1>13 DEF IInv, TypeOK, PCs, OneCall, InProgress, InPlace, Whole, Busy, Crash, Partial
<1>14. ASSUME Commit PROVE IInv'
  BY <1>14 DEF IInv, TypeOK, OneCall, InProgress, InPlace, Whole, Busy, Commit, dir, caller, history
<1> QED
  BY <1>0, <1>1, <1>2, <1>3, <1>4, <1>5, <1>6, <1>7, <1>8, <1>9, <1>10, <1>11, <1>12,
     <1>13, <1>14 DEF Next

\* While calls do not overlap, the destination path names nothing or a whole,
\* synced copy (backup_to of both backends).
THEOREM BackupDestWhole == Spec => []DestWhole
<1>1. IInv => DestWhole
  BY DEF IInv, InPlace, DestWhole
<1> QED
  BY <1>1, InitIInv, NextIInv, PTL DEF Spec

\* While calls do not overlap, an LSM backup that returned Ok outlives a crash and
\* holds every commit made before the call.
THEOREM BackupAckedSurvives == Spec => []AckedSurvives
<1>1. IInv => AckedSurvives
  BY DEF IInv, InPlace, AckedSurvives
<1> QED
  BY <1>1, InitIInv, NextIInv, PTL DEF Spec

\* While calls do not overlap, no call replaces a copy that is in place.
THEOREM BackupNeverReplaced == Spec => NeverReplaced
<1> DEFINE Kept == ~ overlap' /\ dest # NoInode /\ dest' # NoInode => dest' = dest
<1>1. IInv /\ [Next]_vars => [Kept]_vars
  <2> SUFFICES ASSUME IInv, Next, ~ overlap', dest # NoInode, dest' # NoInode
               PROVE  dest' = dest
    OBVIOUS
  <2>1. ASSUME NEW c \in Callers, Rename(c) PROVE FALSE
    BY <2>1 DEF IInv, OneCall, Busy, Rename, Step, history
  <2>2. CASE Crash
    BY <2>2 DEF IInv, InPlace, Crash
  <2> QED
    BY <2>1, <2>2 DEF Next, Commit, Check, Snapshot, SnapshotFails, RemoveTmp, Create,
       Write, Sync, WriteFails, RenameFails, Finish, FinishFails, dir
<1> QED
  BY <1>1, InitIInv, NextIInv, PTL DEF Spec, NeverReplaced

=============================================================================
