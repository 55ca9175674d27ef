------------------------------- MODULE Backup -------------------------------
(***************************************************************************)
(* backup_to of the two on-disk backends (bkndb-storage-lsm engine/ops.rs, *)
(* bkndb-storage-redb lib.rs): threads copy a snapshot of the database to  *)
(* one destination path while commits go on.  Both write `dest` +          *)
(* ".backup.tmp" and rename it; LSM truncates a temporary file it finds,   *)
(* redb removes it first.  A database is the number of its last commit.    *)
(***************************************************************************)
EXTENDS Naturals

CONSTANTS
    Callers,     \* threads calling backup_to(dest)
    Inodes, NoInode,
    MaxCommits,  \* bound: commits
    MaxCrashes   \* bound: crashes

ASSUME BackupAssumption ==
    /\ NoInode \notin Inodes
    /\ MaxCommits \in Nat /\ MaxCrashes \in Nat

VARIABLES
    redb,     \* TRUE: RedbStorageBackend, FALSE: LsmStorageBackend; never changes
    db,       \* the last commit, from 1
    dest,     \* the inode the destination path names, or NoInode
    ddest,    \* the same, as far as the directory is durable
    tmp,      \* the inode the temporary path names, or NoInode
    content,  \* inode -> [data, synced]
    pc,       \* caller -> where it stands
    mine,     \* caller -> the inode it writes
    start,    \* caller -> db when it called backup_to
    snap,     \* caller -> the commit its snapshot shows
    acked,    \* history: `start` of the call that returned Ok, else 0
    overlap,  \* history: two calls have been under way at once
    crashes   \* history: crashes

dir     == << dest, ddest, tmp >>
caller  == << pc, mine, start, snap >>
history == << redb, acked, overlap, crashes >>
vars    == << db, dir, content, caller, history >>

\* The data of a file that is not a whole database.
Partial == 0

PCs == {"idle", "checked", "snapped", "removed", "writing", "written", "synced", "renamed"}

\* Every variable has its type.
TypeOK ==
    /\ redb \in BOOLEAN
    /\ db \in Nat \ {0}
    /\ dest \in Inodes \cup {NoInode}
    /\ ddest \in Inodes \cup {NoInode}
    /\ tmp \in Inodes \cup {NoInode}
    /\ content \in [Inodes -> [data : Nat, synced : BOOLEAN]]
    /\ pc \in [Callers -> PCs]
    /\ mine \in [Callers -> Inodes \cup {NoInode}]
    /\ start \in [Callers -> Nat]
    /\ snap \in [Callers -> Nat]
    /\ acked \in Nat
    /\ overlap \in BOOLEAN
    /\ crashes \in Nat

Init ==
    /\ redb \in BOOLEAN
    /\ db = 1
    /\ dest = NoInode /\ ddest = NoInode /\ tmp = NoInode
    /\ content = [i \in Inodes |-> [data |-> Partial, synced |-> FALSE]]
    /\ pc = [c \in Callers |-> "idle"]
    /\ mine = [c \in Callers |-> NoInode]
    /\ start = [c \in Callers |-> 0]
    /\ snap = [c \in Callers |-> 0]
    /\ acked = 0 /\ overlap = FALSE /\ crashes = 0

Step(c, from, to) == pc[c] = from /\ pc' = [pc EXCEPT ![c] = to]

\* backup_to returns from one of the points `from`.
Return(c, from) ==
    /\ pc[c] \in from
    /\ pc' = [pc EXCEPT ![c] = "idle"]
    /\ mine' = [mine EXCEPT ![c] = NoInode]
    /\ start' = [start EXCEPT ![c] = 0]
    /\ snap' = [snap EXCEPT ![c] = 0]

\* Any commit of the database, by any thread.
Commit ==
    /\ db =< MaxCommits
    /\ db' = db + 1
    /\ UNCHANGED << dir, content, caller, history >>

-----------------------------------------------------------------------------
\* Mutant: whether the destination exists is not looked at.
CheckNothing(c) ==
    /\ Step(c, "idle", "checked")
    /\ start' = [start EXCEPT ![c] = db]
    /\ overlap' = (overlap \/ \E d \in Callers \ {c} : pc[d] # "idle")
    /\ UNCHANGED << db, dir, content, mine, snap, redb, acked, crashes >>

\* dest.exists(): an error when it does.
Check(c) ==
    /\ Step(c, "idle", "checked")
    /\ dest = NoInode
    /\ start' = [start EXCEPT ![c] = db]
    /\ overlap' = (overlap \/ \E d \in Callers \ {c} : pc[d] # "idle")
    /\ UNCHANGED << db, dir, content, mine, snap, redb, acked, crashes >>

\* snapshot() / begin_read.
Snapshot(c) ==
    /\ Step(c, "checked", "snapped")
    /\ snap' = [snap EXCEPT ![c] = db]
    /\ UNCHANGED << db, dir, content, mine, start, history >>

\* create_dir_all or begin_read fails.
SnapshotFails(c) ==
    /\ Return(c, {"checked"})
    /\ UNCHANGED << db, dir, content, history >>

\* redb: a temporary file left by an earlier call is removed.
RemoveTmp(c) ==
    /\ redb
    /\ Step(c, "snapped", "removed")
    /\ tmp' = NoInode
    /\ UNCHANGED << db, dest, ddest, content, mine, start, snap, history >>

Unused(i) == i \notin {dest, ddest, tmp} /\ \A c \in Callers : mine[c] # i

\* create_container_file (truncating) / Database::create, which locks the file it
\* makes: a second one on the same path is DatabaseAlreadyOpen.
Create(c) ==
    /\ Step(c, IF redb THEN "removed" ELSE "snapped", "writing")
    /\ \E i \in Inodes :
          /\ IF tmp = NoInode THEN Unused(i) ELSE i = tmp /\ ~ redb
          /\ tmp' = i
          /\ mine' = [mine EXCEPT ![c] = i]
          /\ content' = [content EXCEPT ![i] = [data |-> Partial, synced |-> FALSE]]
    /\ UNCHANGED << db, dest, ddest, start, snap, history >>

\* Every entry of the snapshot, in one file.  Two writers of one file may leave
\* a mixture of both.
Write(c) ==
    /\ Step(c, "writing", "written")
    /\ \E d \in {snap[c]} \cup
                (IF \E o \in Callers \ {c} : mine[o] = mine[c] THEN {Partial} ELSE {}) :
          content' = [content EXCEPT ![mine[c]] = [data |-> d, synced |-> FALSE]]
    /\ UNCHANGED << db, dir, mine, start, snap, history >>

\* Mutant: the temporary file is not synced.
SyncNothing(c) ==
    /\ Step(c, "written", "synced")
    /\ UNCHANGED << db, dir, content, mine, start, snap, history >>

\* The sync_all that ends write_fresh_container / the commit of the copy.
Sync(c) ==
    /\ Step(c, "written", "synced")
    /\ content' = [content EXCEPT ![mine[c]].synced = TRUE]
    /\ UNCHANGED << db, dir, mine, start, snap, history >>

\* An error while creating or writing the copy: the error path removes whatever
\* the temporary path names.
WriteFails(c) ==
    /\ Return(c, {IF redb THEN "removed" ELSE "snapped", "writing", "written"})
    /\ tmp' = NoInode
    /\ UNCHANGED << db, dest, ddest, content, history >>

\* rename(tmp, dest): replaces what dest names.
Rename(c) ==
    /\ Step(c, "synced", "renamed")
    /\ tmp # NoInode
    /\ dest' = tmp /\ tmp' = NoInode
    /\ UNCHANGED << db, ddest, content, mine, start, snap, history >>

\* Or it fails, for one because the temporary file is gone; redb removes it.
RenameFails(c) ==
    /\ Return(c, {"synced"})
    /\ tmp' = IF redb THEN NoInode ELSE tmp
    /\ UNCHANGED << db, dest, ddest, content, history >>

\* Mutant: backup_to returns without syncing the directory.
FinishUnsynced(c) ==
    /\ Return(c, {"renamed"})
    /\ acked' = start[c]
    /\ UNCHANGED << db, dir, content, redb, overlap, crashes >>

\* LSM ends with sync_parent_dir, redb returns at once.
Finish(c) ==
    /\ Return(c, {"renamed"})
    /\ ddest' = IF redb THEN ddest ELSE dest
    /\ acked' = start[c]
    /\ UNCHANGED << db, dest, tmp, content, redb, overlap, crashes >>

\* sync_parent_dir fails: an error, with the copy in place.
FinishFails(c) ==
    /\ ~ redb
    /\ Return(c, {"renamed"})
    /\ UNCHANGED << db, dir, content, history >>

-----------------------------------------------------------------------------
\* Power loss: renames that were not synced may be undone, and so may writes.
Crash ==
    /\ crashes < MaxCrashes
    /\ crashes' = crashes + 1
    /\ dest' \in {dest, ddest}
    /\ ddest' = dest'
    /\ tmp' \in {tmp, dest, NoInode} \ ({dest'} \ {NoInode})
    /\ \E keep \in BOOLEAN :
          content' = [i \in Inodes |->
                        IF keep \/ content[i].synced THEN content[i]
                        ELSE [data |-> Partial, synced |-> FALSE]]
    /\ pc' = [c \in Callers |-> "idle"]
    /\ mine' = [c \in Callers |-> NoInode]
    /\ start' = [c \in Callers |-> 0]
    /\ snap' = [c \in Callers |-> 0]
    /\ UNCHANGED << redb, db, acked, overlap >>

Next ==
    \/ Commit \/ Crash
    \/ \E c \in Callers :
          \/ Check(c) \/ Snapshot(c) \/ SnapshotFails(c) \/ RemoveTmp(c) \/ Create(c)
          \/ Write(c) \/ Sync(c) \/ WriteFails(c)
          \/ Rename(c) \/ RenameFails(c) \/ Finish(c) \/ FinishFails(c)

Spec == Init /\ [][Next]_vars

-----------------------------------------------------------------------------
Whole(i) == content[i].data # Partial /\ content[i].synced

\* As long as calls do not overlap, whatever the destination path names is a
\* whole, synced copy, after crashes and failed calls too (backup_to writes
\* under another name and renames).
DestWhole == ~ overlap /\ dest # NoInode => Whole(dest)

\* A backup that returned Ok survives a crash and holds every commit made
\* before the call (LSM: the snapshot is taken inside the call and the rename
\* is followed by sync_parent_dir).
AckedSurvives ==
    ~ redb /\ ~ overlap /\ acked # 0 => dest # NoInode /\ content[dest].data >= acked

\* As long as calls do not overlap, a copy once in place is never replaced by
\* another (the exists check at the top of backup_to).
NeverReplaced ==
    [][~ overlap' /\ dest # NoInode /\ dest' # NoInode => dest' = dest]_vars
=============================================================================
