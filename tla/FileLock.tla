------------------------------ MODULE FileLock ------------------------------
(***************************************************************************)
(* Who owns a .bkndb file: several processes open, compact and close one   *)
(* database path (bkndb-storage-lsm/src/engine: open_with_options,         *)
(* lock_exclusive, compact_all).  The OS lock belongs to an inode; the     *)
(* path is a name that compaction moves from one inode to another.         *)
(***************************************************************************)
CONSTANTS Processes, Inodes, NoInode, NoProcess

ASSUME FileLockAssumption == NoInode \notin Inodes /\ NoProcess \notin Processes

VARIABLES
    path,    \* the inode the database path names
    tmp,     \* the inode the .compact.tmp path names, or NoInode
    lock,    \* inode -> the process holding its exclusive lock
    pc,      \* process -> where it stands
    file,    \* process -> the inode behind its container handle
    fresh,   \* process -> the inode of the compaction under way
    stray    \* history: some process was left with an inode that had lost the path

vars == << path, tmp, lock, pc, file, fresh, stray >>

\* Where a process has the database open.
Serving == {"up", "building", "built", "locked_fresh", "renamed"}

\* Where it has a compaction under way.
Compacting == {"building", "built", "locked_fresh", "renamed"}

\* Every variable has its type.
TypeOK ==
    /\ path \in Inodes
    /\ tmp \in Inodes \cup {NoInode}
    /\ lock \in [Inodes -> Processes \cup {NoProcess}]
    /\ pc \in [Processes -> {"closed", "opened", "locked"} \cup Serving]
    /\ file \in [Processes -> Inodes \cup {NoInode}]
    /\ fresh \in [Processes -> Inodes \cup {NoInode}]
    /\ stray \in BOOLEAN

Init ==
    /\ path \in Inodes
    /\ tmp = NoInode
    /\ lock = [i \in Inodes |-> NoProcess]
    /\ pc = [p \in Processes |-> "closed"]
    /\ file = [p \in Processes |-> NoInode]
    /\ fresh = [p \in Processes |-> NoInode]
    /\ stray = FALSE

Step(p, from, to) == pc[p] = from /\ pc' = [pc EXCEPT ![p] = to]

\* A lock goes with the last handle to its inode.
Release(i) == [lock EXCEPT ![i] = NoProcess]

-----------------------------------------------------------------------------
\* Mutant: the temporary file is removed before the lock is taken.
OpenRemovingTmp(p) ==
    /\ Step(p, "closed", "opened")
    /\ file' = [file EXCEPT ![p] = path]
    /\ tmp' = NoInode
    /\ UNCHANGED << path, lock, fresh, stray >>

\* open_container_file: a handle to whatever the path names now.
Open(p) ==
    /\ Step(p, "closed", "opened")
    /\ file' = [file EXCEPT ![p] = path]
    /\ UNCHANGED << path, tmp, lock, fresh, stray >>

\* Mutant: the lock is not exclusive.
LockShared(p) ==
    /\ Step(p, "opened", "locked")
    /\ lock' = [lock EXCEPT ![file[p]] = p]
    /\ stray' = (stray \/ file[p] # path)
    /\ UNCHANGED << path, tmp, file, fresh >>

\* lock_exclusive: try_lock on that handle, which may have lost the path.
Lock(p) ==
    /\ Step(p, "opened", "locked")
    /\ lock[file[p]] = NoProcess
    /\ lock' = [lock EXCEPT ![file[p]] = p]
    /\ stray' = (stray \/ file[p] # path)
    /\ UNCHANGED << path, tmp, file, fresh >>

\* WouldBlock: open returns DatabaseLocked.
Locked(p) ==
    /\ Step(p, "opened", "closed")
    /\ lock[file[p]] # NoProcess
    /\ file' = [file EXCEPT ![p] = NoInode]
    /\ UNCHANGED << path, tmp, lock, fresh, stray >>

\* remove_file of a stale .compact.tmp, then recovery: the database is open.
RemoveTmp(p) ==
    /\ Step(p, "locked", "up")
    /\ tmp' = NoInode
    /\ UNCHANGED << path, lock, file, fresh, stray >>

-----------------------------------------------------------------------------
\* An inode no path and no handle refers to.
Unused(i) ==
    /\ i \notin {path, tmp}
    /\ lock[i] = NoProcess
    /\ \A p \in Processes : i \notin {file[p], fresh[p]}

\* create_container_file(.compact.tmp): a new inode, or the existing one truncated.
CreateTmp(p) ==
    /\ Step(p, "up", "building")
    /\ \E i \in Inodes :
          /\ IF tmp = NoInode THEN Unused(i) ELSE i = tmp
          /\ tmp' = i
          /\ fresh' = [fresh EXCEPT ![p] = i]
    /\ UNCHANGED << path, lock, file, stray >>

\* The rest of write_fresh_container.
WriteTmp(p) ==
    /\ Step(p, "building", "built")
    /\ UNCHANGED << path, tmp, lock, file, fresh, stray >>

\* write_fresh_container fails and removes what the temporary path names.
WriteTmpFails(p) ==
    /\ Step(p, "building", "up")
    /\ tmp' = NoInode
    /\ fresh' = [fresh EXCEPT ![p] = NoInode]
    /\ UNCHANGED << path, lock, file, stray >>

\* lock_exclusive on the new file before it gets the path.
LockTmp(p) ==
    /\ pc[p] = "built"
    /\ IF lock[fresh[p]] = NoProcess
         THEN /\ lock' = [lock EXCEPT ![fresh[p]] = p]
              /\ pc' = [pc EXCEPT ![p] = "locked_fresh"]
              /\ UNCHANGED fresh
         ELSE /\ pc' = [pc EXCEPT ![p] = "up"]
              /\ fresh' = [fresh EXCEPT ![p] = NoInode]
              /\ UNCHANGED lock
    /\ UNCHANGED << path, tmp, file, stray >>

\* rename(.compact.tmp, path); an error when the temporary file is gone.
Rename(p) ==
    /\ pc[p] = "locked_fresh"
    /\ IF tmp # NoInode
         THEN /\ path' = tmp
              /\ tmp' = NoInode
              /\ pc' = [pc EXCEPT ![p] = "renamed"]
              /\ UNCHANGED << lock, fresh >>
         ELSE /\ pc' = [pc EXCEPT ![p] = "up"]
              /\ lock' = Release(fresh[p])
              /\ fresh' = [fresh EXCEPT ![p] = NoInode]
              /\ UNCHANGED << path, tmp >>
    /\ UNCHANGED << file, stray >>

\* lock_exclusive or the rename fails on I/O: the new file is dropped, and the
\* temporary path goes on naming it.
CompactStops(p) ==
    /\ pc[p] \in {"built", "locked_fresh"}
    /\ pc' = [pc EXCEPT ![p] = "up"]
    /\ lock' = IF lock[fresh[p]] = p THEN Release(fresh[p]) ELSE lock
    /\ fresh' = [fresh EXCEPT ![p] = NoInode]
    /\ UNCHANGED << path, tmp, file, stray >>

\* sync_parent_dir fails: the new file is dropped, and its lock with it, while
\* the path names it already and the backend keeps the old one.
SyncDirFails(p) ==
    /\ Step(p, "renamed", "up")
    /\ fresh' = [fresh EXCEPT ![p] = NoInode]
    /\ lock' = Release(fresh[p])
    /\ stray' = TRUE
    /\ UNCHANGED << path, tmp, file >>

\* The container handle moves to the new file.  The old one keeps its lock as
\* long as a snapshot reads from it.
Swap(p) ==
    /\ Step(p, "renamed", "up")
    /\ file' = [file EXCEPT ![p] = fresh[p]]
    /\ fresh' = [fresh EXCEPT ![p] = NoInode]
    /\ lock' \in {lock, Release(file[p])}
    /\ UNCHANGED << path, tmp, stray >>

\* The last snapshot on a replaced file is dropped.
DropSnapshot(p, i) ==
    /\ pc[p] \in Serving
    /\ lock[i] = p /\ i \notin {file[p], fresh[p]}
    /\ lock' = Release(i)
    /\ UNCHANGED << path, tmp, pc, file, fresh, stray >>

\* The backend is dropped, or its process dies: every handle is closed.
Close(p) ==
    /\ pc[p] \in {"opened", "locked"} \cup Serving
    /\ pc' = [pc EXCEPT ![p] = "closed"]
    /\ lock' = [i \in Inodes |-> IF lock[i] = p THEN NoProcess ELSE lock[i]]
    /\ file' = [file EXCEPT ![p] = NoInode]
    /\ fresh' = [fresh EXCEPT ![p] = NoInode]
    /\ UNCHANGED << path, tmp, stray >>

Next ==
    \E p \in Processes :
        \/ Open(p) \/ Lock(p) \/ Locked(p) \/ RemoveTmp(p)
        \/ CreateTmp(p) \/ WriteTmp(p) \/ WriteTmpFails(p) \/ LockTmp(p) \/ Rename(p)
        \/ CompactStops(p) \/ SyncDirFails(p) \/ Swap(p) \/ Close(p)
        \/ \E i \in Inodes : DropSnapshot(p, i)

Spec == Init /\ [][Next]_vars

-----------------------------------------------------------------------------
Owners == {p \in Processes : pc[p] \in Serving}

\* As long as no process was left with an inode that had lost the path, one at
\* most serves the database, on the file the path names, whatever compactions
\* and crashes do in between (lock_exclusive before rename in compact_all).
ExclusiveUnlessStray ==
    ~ stray => /\ \A p, q \in Owners : p = q
               /\ \A p \in Owners : path = IF pc[p] = "renamed" THEN fresh[p] ELSE file[p]

\* And no open then removes the temporary file of a compaction under way
\* (open_with_options cleans up only once it holds the lock).
TmpSafeUnlessStray ==
    ~ stray => \A p \in Processes : pc[p] \in {"built", "locked_fresh"} => tmp = fresh[p]

\* What carries the two: a process that got through lock_exclusive holds the lock
\* of the inode the path names, before and after its rename, and compaction
\* never builds on the live inode.
LockInv ==
    /\ tmp # path
    /\ \A p \in Processes :
          /\ pc[p] \in {"opened", "locked"} \cup Serving => file[p] \in Inodes
          /\ pc[p] \in Compacting => fresh[p] \in Inodes
    /\ ~ stray =>
         \A p \in Processes :
            /\ pc[p] \in {"locked"} \cup (Serving \ {"renamed"}) =>
                  file[p] = path /\ lock[path] = p
            /\ pc[p] = "renamed" => fresh[p] = path /\ lock[path] = p
            /\ pc[p] \in Compacting => fresh[p] # file[p]
            /\ pc[p] = "locked_fresh" => lock[fresh[p]] = p
            /\ pc[p] \in {"building", "built", "locked_fresh"} => fresh[p] = tmp
=============================================================================
