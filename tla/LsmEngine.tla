------------------------------ MODULE LsmEngine ------------------------------
(***************************************************************************)
(* The LSM storage engine (bkndb-storage-lsm/src/engine): commit, flush,   *)
(* compaction, open with recovery, snapshot readers and the integrity      *)
(* check, over the single-file container of module Container.              *)
(*                                                                         *)
(* One thread at a time holds `writer_lock`; `pc` is where it stands       *)
(* between two points at which another thread, or a crash, can observe it. *)
(* Readers and verify_integrity interleave with it freely, except that     *)
(* verify_integrity waits for the `container` mutex.                       *)
(***************************************************************************)
EXTENDS Container

CONSTANTS
    Readers, Writer, NoSnapshot,  \* transactions and the absence of one
    Inodes,       \* files the file system can hold at one time
    FlushBytes,   \* LsmOptions.memtable_flush_bytes, in entries
    TriggerFiles, \* LsmOptions.compaction_trigger_files
    IoFaults,     \* the I/O calls that may return an error
    MaxOps,       \* bound: commits logged and compactions forced
    MaxCrashes    \* bound: crashes

FaultPoints == {"wal_write", "wal_sync", "flush_write", "flush_header",
                "compact_build", "compact_rename", "compact_sync_dir"}

ASSUME LsmAssumption ==
    /\ Writer \notin Readers
    /\ IsFiniteSet(Keys)
    /\ FlushBytes \in Nat \ {0}
    /\ TriggerFiles \in Nat
    /\ MaxOps \in Nat
    /\ MaxCrashes \in Nat
    /\ IoFaults \subseteq FaultPoints
    /\ Inodes # {}

VARIABLES
    files,     \* inode -> file
    path,      \* the inode the database path names
    dpath,     \* the inode it names durably (before sync_parent_dir: the old one)
    phase,     \* of the process: see Phases
    active,    \* EngineState.active_memtable
    imms,      \* EngineState.immutable_memtables, each [id, data]
    ssts,      \* EngineState.sstables, handles [gen, ino, off]
    nextId,    \* EngineState.next_sstable_id
    walStart,  \* EngineState.wal_region_start
    cw,        \* ContainerWriter: [file, seq, slot]
    pc,        \* where the holder of writer_lock stands, "idle" when it is free
    op,        \* what the holder runs: "commit" or "force_compact"
    force,     \* the argument of the next compact_all
    pending,   \* LsmWriteTx.pending
    job,       \* locals of flush / compact_all: [gen, ino, off]
    snaps,     \* ReadSnapshot of each open transaction, or NoSnapshot
    verdict,   \* the last result of verify_integrity
    committed, \* history: the database the commits so far have produced
    faults,    \* history: the I/O calls that have failed since open
    ops,       \* history: commits logged and compactions forced
    crashes    \* history: crashes

mem     == << active, imms, ssts, nextId, walStart >>
disk    == << files, path, dpath >>
thread  == << op, force, job >>
history == << committed, faults, ops, crashes >>
vars    == << mem, disk, thread, history, phase, cw, pc, pending, snaps, verdict >>

Phases == {"down", "boot", "boot_written", "boot_header", "recover", "up", "failed"}

Txs == Readers \cup {Writer}

NoJob(i) == [gen |-> 0, ino |-> i, off |-> 0]

-----------------------------------------------------------------------------
(* Reading. *)

\* write.rs snapshot(): Arc clones of the three lists, under the state lock.
Snapshot == [active |-> active, imms |-> imms, ssts |-> ssts]

\* The bytes behind a handle: read from the file the handle keeps open.
TableData(h) == TableAt(files[h.ino], h.off)

\* Mutant: the immutable memtables are not searched.
StackWithoutImmutables(s) ==
    [i \in DOMAIN s.ssts |-> TableData(s.ssts[i])] \o << s.active >>

\* scan_sources, oldest first: SSTables, immutable memtables, the active one.
Stack(s) ==
    [i \in DOMAIN s.ssts |-> TableData(s.ssts[i])]
        \o [i \in DOMAIN s.imms |-> s.imms[i].data]
        \o << s.active >>

\* What get / range / scan return on a snapshot.
Reads(s) == Merged(Stack(s))

-----------------------------------------------------------------------------
(* Files in use: an unlinked file lives while a handle to it is open. *)

Handles(s) == {s.ssts[i].ino : i \in DOMAIN s.ssts}

HeldBy(sn) == UNION {Handles(sn[t]) : t \in {u \in Txs : sn[u] # NoSnapshot}}

Reclaim(fs, used) == [i \in Inodes |-> IF i \in used THEN fs[i] ELSE EmptyFile]

-----------------------------------------------------------------------------
Init ==
    /\ files = [i \in Inodes |-> EmptyFile]
    /\ path \in Inodes
    /\ dpath = path
    /\ phase = "down"
    /\ active = EmptyLayer /\ imms = << >> /\ ssts = << >>
    /\ nextId = 1 /\ walStart = 1
    /\ cw = [file |-> path, seq |-> 0, slot |-> 1]
    /\ pc = "idle" /\ op = "commit" /\ force = FALSE
    /\ pending = EmptyLayer
    /\ job = NoJob(path)
    /\ snaps = [t \in Txs |-> NoSnapshot]
    /\ verdict = "none"
    /\ committed = Live(EmptyLayer)
    /\ faults = {} /\ ops = 0 /\ crashes = 0

-----------------------------------------------------------------------------
(* open_with_options *)

\* Open the file, take the OS lock, drop a stale temporary file, read_header.
\* A file that open() refuses is refused again on the next attempt.
OpenFile ==
    /\ phase \in {"down", "failed"}
    /\ phase' = IF BrandNew(files[path]) THEN "boot"
                ELSE IF HasHeader(files[path]) /\ ManifestReadable(files[path])
                  THEN "recover" ELSE "failed"
    /\ cw' = [file |-> path, seq |-> 0, slot |-> 1]
    /\ UNCHANGED << mem, disk, thread, history, pc, pending, snaps, verdict >>

\* A brand-new file: the bootstrap manifest goes right after the header.
BootManifest ==
    /\ phase = "boot"
    /\ files' = [files EXCEPT ![path] = AppendExtent(@, Manifest(1, << >>, 2))]
    /\ phase' = "boot_written"
    /\ UNCHANGED << mem, path, dpath, thread, history, cw, pc, pending, snaps, verdict >>

\* sync_data, then write_header(0, 1, BODY_START) up to its own sync.
BootHeader ==
    /\ phase = "boot_written"
    /\ files' = [files EXCEPT ![path] = PutHeader(Sync(@), 0, 1, 1)]
    /\ phase' = "boot_header"
    /\ UNCHANGED << mem, path, dpath, thread, history, cw, pc, pending, snaps, verdict >>

BootSync ==
    /\ phase = "boot_header"
    /\ files' = [files EXCEPT ![path] = Sync(@)]
    /\ phase' = "recover"
    /\ UNCHANGED << mem, path, dpath, thread, history, cw, pc, pending, snaps, verdict >>

\* Mutant: recovery waits for a log without a torn tail instead of cutting it.
RecoverCleanOnly ==
    LET f    == files[path]
        man  == LiveManifest(f)
        refs == SortByGeneration(man.refs)
    IN  /\ phase = "recover"
        /\ ValidEnd(f, man.walStart) = Len(f.body)
        /\ phase' = "up"
        /\ active' = Flatten(Replayed(f, man.walStart))
        /\ imms' = << >>
        /\ ssts' = [i \in DOMAIN refs |->
                      [gen |-> refs[i].gen, ino |-> path, off |-> refs[i].off]]
        /\ nextId' = man.nextId
        /\ walStart' = man.walStart
        /\ cw' = [file |-> path, seq |-> f.slots[ActiveSlot(f)].seq, slot |-> ActiveSlot(f)]
        /\ faults' = {}
        /\ UNCHANGED << disk, thread, committed, ops, crashes, pc, pending, snaps, verdict >>

\* Replay the WAL region into a new memtable, cut off what follows the last
\* good frame, open the SSTables in generation order.
Recover ==
    LET f    == files[path]
        man  == LiveManifest(f)
        refs == SortByGeneration(man.refs)
    IN  /\ phase = "recover"
        /\ IF RefsIntact(f, refs)
             THEN /\ phase' = "up"
                  /\ files' = [files EXCEPT ![path] = Truncate(f, ValidEnd(f, man.walStart))]
                  /\ active' = Flatten(Replayed(f, man.walStart))
                  /\ imms' = << >>
                  /\ ssts' = [i \in DOMAIN refs |->
                                [gen |-> refs[i].gen, ino |-> path, off |-> refs[i].off]]
                  /\ nextId' = man.nextId
                  /\ walStart' = man.walStart
                  /\ cw' = [file |-> path, seq |-> f.slots[ActiveSlot(f)].seq,
                            slot |-> ActiveSlot(f)]
                  /\ faults' = {}
             ELSE /\ phase' = "failed"
                  /\ UNCHANGED << files, mem, cw, faults >>
        /\ UNCHANGED << path, dpath, thread, committed, ops, crashes, pc, pending,
                        snaps, verdict >>

-----------------------------------------------------------------------------
(* Read transactions and verify_integrity *)

BeginRead(r) ==
    /\ phase = "up" /\ snaps[r] = NoSnapshot
    /\ snaps' = [snaps EXCEPT ![r] = Snapshot]
    /\ UNCHANGED << mem, disk, thread, history, phase, cw, pc, pending, verdict >>

\* Dropping a snapshot may drop the last handle of an unlinked file.
DropSnapshot(r) ==
    /\ snaps' = [snaps EXCEPT ![r] = NoSnapshot]
    /\ files' = Reclaim(files, HeldBy(snaps') \cup Handles(Snapshot)
                                 \cup {cw.file, path, dpath, job.ino})

EndRead(r) ==
    /\ phase = "up" /\ snaps[r] # NoSnapshot
    /\ DropSnapshot(r)
    /\ UNCHANGED << mem, path, dpath, thread, history, phase, cw, pc, pending, verdict >>

\* The commit and flush steps that run with the container mutex held.
ContainerLocked == pc \in {"wal_written", "flush_written", "header_written"}

\* The checks of verify_integrity: SSTables from the snapshot, then, holding
\* the container mutex, the header, the manifest and the WAL re-read from the
\* wal_region_start the engine holds in memory.
Verdict(r) ==
    LET f == files[cw.file]
    IN  IF /\ \A i \in DOMAIN snaps[r].ssts :
                  IsTable(files[snaps[r].ssts[i].ino], snaps[r].ssts[i].off)
           /\ HasHeader(f) /\ ManifestReadable(f)
           /\ ValidEnd(f, walStart) = Len(f.body)
          THEN "ok" ELSE "corruption"

\* verify_integrity, begun by taking the snapshot as BeginRead does.
Verify(r) ==
    /\ phase = "up" /\ snaps[r] # NoSnapshot
    /\ ~ ContainerLocked
    /\ verdict' = Verdict(r)
    /\ DropSnapshot(r)
    /\ UNCHANGED << mem, path, dpath, thread, history, phase, cw, pc, pending >>

-----------------------------------------------------------------------------
(* Write transactions *)

\* commit() owns its transaction: the snapshot is dropped, then writer_lock
\* released, only when commit() returns, after any flush and compaction.
Returning == snaps' = [snaps EXCEPT ![Writer] = IF pc' = "idle" THEN NoSnapshot ELSE @]

\* begin_write: wait for writer_lock, then take the snapshot.
BeginWrite ==
    /\ phase = "up" /\ pc = "idle"
    /\ pc' = "tx" /\ op' = "commit"
    /\ pending' = EmptyLayer
    /\ snaps' = [snaps EXCEPT ![Writer] = Snapshot]
    /\ UNCHANGED << mem, disk, force, job, history, phase, cw, verdict >>

\* put (an entry of Values) and delete (Tombstone).
Buffer(k, e) ==
    /\ phase = "up" /\ pc = "tx"
    /\ pending' = [pending EXCEPT ![k] = e]
    /\ UNCHANGED << mem, disk, thread, history, phase, cw, pc, snaps, verdict >>

\* Dropping the transaction, or commit() of an empty one.
Rollback ==
    /\ phase = "up" /\ pc = "tx"
    /\ pc' = "idle"
    /\ pending' = EmptyLayer
    /\ Returning
    /\ UNCHANGED << mem, disk, thread, history, phase, cw, verdict >>

\* commit_pending: wal::append writes the frame at EOF, container mutex held.
WalAppend ==
    /\ phase = "up" /\ pc = "tx" /\ pending # EmptyLayer /\ ops < MaxOps
    /\ files' = [files EXCEPT ![cw.file] = AppendExtent(@, Frame(pending))]
    /\ pc' = "wal_written"
    /\ ops' = ops + 1
    /\ UNCHANGED << mem, path, dpath, thread, committed, faults, crashes, phase, cw,
                    pending, snaps, verdict >>

\* wal::append's sync_data, then the container mutex is released.
WalSync ==
    /\ phase = "up" /\ pc = "wal_written"
    /\ files' = [files EXCEPT ![cw.file] = Sync(@)]
    /\ pc' = "logged"
    /\ UNCHANGED << mem, path, dpath, thread, history, phase, cw, pending, snaps, verdict >>

NeedsFlush(m) == Size(m) >= FlushBytes

\* The batch enters the active memtable under the state lock.
Apply ==
    /\ phase = "up" /\ pc = "logged"
    /\ active' = Overlay(active, pending)
    /\ committed' = Live(Overlay(committed, pending))
    /\ pc' = IF NeedsFlush(active') THEN "flush" ELSE "idle"
    /\ pending' = EmptyLayer
    /\ Returning
    /\ UNCHANGED << imms, ssts, nextId, walStart, disk, thread, faults, ops, crashes,
                    phase, cw, verdict >>

\* force_compact: take writer_lock, flush, then compact_all(true).
ForceCompact ==
    /\ phase = "up" /\ pc = "idle" /\ ops < MaxOps
    /\ pc' = "flush" /\ op' = "force_compact"
    /\ ops' = ops + 1
    /\ UNCHANGED << mem, disk, force, job, committed, faults, crashes, phase, cw,
                    pending, snaps, verdict >>

-----------------------------------------------------------------------------
(* flush *)

\* Where flush returns to: its own compact_all(false), then the caller.
AfterFlush(compact) ==
    /\ pc' = IF compact \/ op = "force_compact" THEN "compact" ELSE "idle"
    /\ force' = ~ compact

\* Mutant: the rotated memtable is not kept readable while it is flushed.
RotateUnread ==
    /\ phase = "up" /\ pc = "flush"
    /\ IF active = EmptyLayer
         THEN /\ AfterFlush(FALSE)
              /\ UNCHANGED << mem, job >>
         ELSE /\ imms' = << [id |-> nextId, data |-> EmptyLayer] >>
              /\ active' = EmptyLayer
              /\ job' = [gen |-> nextId, ino |-> cw.file, off |-> 0]
              /\ nextId' = nextId + 1
              /\ pc' = "rotated"
              /\ UNCHANGED << ssts, walStart, force >>
    /\ Returning
    /\ UNCHANGED << disk, op, history, phase, cw, pending, verdict >>

\* The active memtable becomes the newest immutable one; nothing to do when it
\* is empty.
FlushRotate ==
    /\ phase = "up" /\ pc = "flush"
    /\ IF active = EmptyLayer
         THEN /\ AfterFlush(FALSE)
              /\ UNCHANGED << mem, job >>
         ELSE /\ imms' = Append(imms, [id |-> nextId, data |-> active])
              /\ active' = EmptyLayer
              /\ job' = [gen |-> nextId, ino |-> cw.file, off |-> 0]
              /\ nextId' = nextId + 1
              /\ pc' = "rotated"
              /\ UNCHANGED << ssts, walStart, force >>
    /\ Returning
    /\ UNCHANGED << disk, op, history, phase, cw, pending, verdict >>

\* Under the container mutex: the SSTable blob at EOF, then the manifest that
\* lists it and starts the WAL region after itself.
FlushWrite ==
    LET f    == files[cw.file]
        off  == Len(f.body) + 1
        refs == [i \in DOMAIN ssts |-> [gen |-> ssts[i].gen, off |-> ssts[i].off]]
        man  == Manifest(nextId, Append(refs, [gen |-> job.gen, off |-> off]), off + 2)
        blob == Blob(job.gen, imms[Len(imms)].data)
    IN  /\ phase = "up" /\ pc = "rotated"
        /\ files' = [files EXCEPT ![cw.file] = AppendExtent(AppendExtent(f, blob), man)]
        /\ job' = [job EXCEPT !.off = off]
        /\ pc' = "flush_written"
        /\ UNCHANGED << mem, path, dpath, op, force, history, phase, cw, pending,
                        snaps, verdict >>

\* Mutant: the header is written before blob and manifest are synced.
HeaderBeforeSync ==
    /\ phase = "up" /\ pc = "flush_written"
    /\ files' = [files EXCEPT ![cw.file] = PutHeader(@, cw.seq, cw.slot, job.off + 1)]
    /\ pc' = "header_written"
    /\ UNCHANGED << mem, path, dpath, thread, history, phase, cw, pending, snaps, verdict >>

\* sync_data covers blob and manifest; then the header slot is written.
FlushHeader ==
    /\ phase = "up" /\ pc = "flush_written"
    /\ files' = [files EXCEPT ![cw.file] =
                    PutHeader(Sync(@), cw.seq, cw.slot, job.off + 1)]
    /\ pc' = "header_written"
    /\ UNCHANGED << mem, path, dpath, thread, history, phase, cw, pending, snaps, verdict >>

\* Mutant: the slot number counts up instead of alternating.
SlotCountsUp ==
    /\ phase = "up" /\ pc = "header_written"
    /\ files' = [files EXCEPT ![cw.file] = Sync(@)]
    /\ cw' = [cw EXCEPT !.seq = @ + 1, !.slot = @ + 1]
    /\ pc' = "header_synced"
    /\ UNCHANGED << mem, path, dpath, thread, history, phase, pending, snaps, verdict >>

\* write_header's sync_data, the commit point; the container mutex is released.
FlushHeaderSync ==
    /\ phase = "up" /\ pc = "header_written"
    /\ files' = [files EXCEPT ![cw.file] = Sync(@)]
    /\ cw' = [cw EXCEPT !.seq = @ + 1, !.slot = 1 - @]
    /\ pc' = "header_synced"
    /\ UNCHANGED << mem, path, dpath, thread, history, phase, pending, snaps, verdict >>

\* Mutant: the flushed memtable is not removed.
KeepAll(list, id) == list

\* immutable_memtables without the one that was flushed (Arc::ptr_eq).
Without(list, id) ==
    LET at == CHOOSE i \in DOMAIN list : list[i].id = id
    IN  IF \E i \in DOMAIN list : list[i].id = id
          THEN SubSeq(list, 1, at - 1) \o SubSeq(list, at + 1, Len(list))
          ELSE list

\* Mutant: wal_region_start is not advanced in memory.
PublishOldWalStart ==
    /\ phase = "up" /\ pc = "header_synced"
    /\ ssts' = Append(ssts, job)
    /\ imms' = Without(imms, job.gen)
    /\ AfterFlush(Len(ssts') >= TriggerFiles)
    /\ Returning
    /\ UNCHANGED << active, nextId, walStart, disk, op, job, history, phase, cw, pending,
                    verdict >>

\* Under the state lock: the SSTable replaces its immutable memtable.
FlushPublish ==
    /\ phase = "up" /\ pc = "header_synced"
    /\ ssts' = Append(ssts, job)
    /\ imms' = Without(imms, job.gen)
    /\ walStart' = job.off + 2
    /\ AfterFlush(Len(ssts') >= TriggerFiles)
    /\ Returning
    /\ UNCHANGED << active, nextId, disk, op, job, history, phase, cw, pending, verdict >>

-----------------------------------------------------------------------------
(* compact_all *)

\* Where compact_all returns to: force_compact still has its own call to make
\* when this was the automatic one.
AfterCompact ==
    /\ pc' = IF op = "force_compact" /\ ~ force THEN "compact" ELSE "idle"
    /\ force' = TRUE

WorthIt == Len(ssts) >= 2 \/ (force /\ ssts # << >>)

CompactSkip ==
    /\ phase = "up" /\ pc = "compact" /\ ~ WorthIt
    /\ AfterCompact
    /\ Returning
    /\ UNCHANGED << mem, disk, op, job, history, phase, cw, pending, verdict >>

\* Mutant: the new file reuses the space of files only readers still hold.
FreeOfWriters(i) == i \notin Handles(Snapshot) \cup {cw.file, path, dpath}

\* An inode no path, handle or lock refers to.
FreeInode(i) ==
    i \notin HeldBy(snaps) \cup Handles(Snapshot) \cup {cw.file, path, dpath}

\* Mutant: the rename target is built without waiting for its fsync.
BuildUnsynced(i) ==
    LET tables == [n \in DOMAIN ssts |-> TableData(ssts[n])]
        fresh  == FreshFile(nextId, Merged(tables))
    IN  /\ phase = "up" /\ pc = "compact" /\ WorthIt /\ FreeInode(i)
        /\ files' = [files EXCEPT ![i] = [fresh EXCEPT !.synced = 0]]
        /\ job' = [gen |-> nextId, ino |-> i, off |-> 1]
        /\ nextId' = nextId + 1
        /\ pc' = "built"
        /\ UNCHANGED << active, imms, ssts, walStart, path, dpath, op, force, history,
                        phase, cw, pending, snaps, verdict >>

\* Merge every SSTable, newest first, into a complete fsynced temporary file.
CompactBuild(i) ==
    LET tables == [n \in DOMAIN ssts |-> TableData(ssts[n])]
    IN  /\ phase = "up" /\ pc = "compact" /\ WorthIt /\ FreeInode(i)
        /\ files' = [files EXCEPT ![i] = FreshFile(nextId, Merged(tables))]
        /\ job' = [gen |-> nextId, ino |-> i, off |-> 1]
        /\ nextId' = nextId + 1
        /\ pc' = "built"
        /\ UNCHANGED << active, imms, ssts, walStart, path, dpath, op, force, history,
                        phase, cw, pending, snaps, verdict >>

CompactRename ==
    /\ phase = "up" /\ pc = "built"
    /\ path' = job.ino
    /\ pc' = "renamed"
    /\ UNCHANGED << mem, files, dpath, thread, history, phase, cw, pending, snaps, verdict >>

CompactSyncDir ==
    /\ phase = "up" /\ pc = "renamed"
    /\ dpath' = path
    /\ pc' = "dir_synced"
    /\ UNCHANGED << mem, files, path, thread, history, phase, cw, pending, snaps, verdict >>

\* Under the container mutex: later frames go to the new file.
CompactSwap ==
    /\ phase = "up" /\ pc = "dir_synced"
    /\ cw' = [file |-> job.ino, seq |-> 1, slot |-> 0]
    /\ pc' = "swapped"
    /\ UNCHANGED << mem, disk, thread, history, phase, pending, snaps, verdict >>

\* Under the state lock: the one new SSTable replaces all that were merged.
CompactPublish ==
    /\ phase = "up" /\ pc = "swapped"
    /\ ssts' = << job >>
    /\ walStart' = 3
    /\ nextId' = job.gen + 1
    /\ AfterCompact
    /\ Returning
    /\ files' = Reclaim(files, HeldBy(snaps') \cup {cw.file, path, dpath})
    /\ UNCHANGED << active, imms, path, dpath, op, job, history, phase, cw, pending,
                    verdict >>

-----------------------------------------------------------------------------
(* I/O errors: `?` returns from where the call failed. *)

Fails(point) ==
    /\ phase = "up"
    /\ point \in IoFaults
    /\ faults' = faults \cup {point}
    /\ pc' = "idle"
    /\ Returning
    /\ UNCHANGED << committed, crashes, phase, cw, verdict >>

\* write_all may have written nothing or part of the frame.
WalWriteFails ==
    /\ pc = "tx" /\ pending # EmptyLayer /\ ops < MaxOps
    /\ Fails("wal_write")
    /\ ops' = ops + 1
    /\ \/ UNCHANGED files
       \/ files' = [files EXCEPT ![cw.file] = AppendExtent(@, Junk)]
    /\ pending' = EmptyLayer
    /\ UNCHANGED << mem, path, dpath, thread >>

\* The frame is in the file, not known to be durable.
WalSyncFails ==
    /\ pc = "wal_written"
    /\ Fails("wal_sync")
    /\ pending' = EmptyLayer
    /\ UNCHANGED << mem, disk, thread, ops >>

\* The SSTable or the manifest write fails, wholly or in part.
FlushWriteFails ==
    /\ pc = "rotated"
    /\ Fails("flush_write")
    /\ LET blob == Blob(job.gen, imms[Len(imms)].data)
       IN  \E written \in { << >>, << Junk >>, << blob >>, << blob, Junk >> } :
               files' = [files EXCEPT ![cw.file].body = @ \o written]
    /\ UNCHANGED << mem, path, dpath, thread, pending, ops >>

\* sync_data or write_header fails; the slot may be old, torn or new.
FlushHeaderFails ==
    /\ pc = "flush_written"
    /\ Fails("flush_header")
    /\ LET f == files[cw.file]
           g == PutHeader(Sync(f), cw.seq, cw.slot, job.off + 1)
       IN  \E h \in {f, g, [g EXCEPT !.slots[1 - cw.slot] = BadSlot]} :
               files' = [files EXCEPT ![cw.file] = h]
    /\ UNCHANGED << mem, path, dpath, thread, pending, ops >>

\* write_fresh_container fails and removes its partial file.
CompactBuildFails ==
    /\ pc = "compact" /\ WorthIt
    /\ Fails("compact_build")
    /\ nextId' = nextId + 1
    /\ UNCHANGED << active, imms, ssts, walStart, disk, thread, pending, ops >>

\* lock_exclusive or rename fails: the finished file keeps only its temporary
\* name, under which the next compaction truncates it.
CompactRenameFails ==
    /\ pc = "built"
    /\ Fails("compact_rename")
    /\ files' = [files EXCEPT ![job.ino] = EmptyFile]
    /\ UNCHANGED << mem, path, dpath, thread, pending, ops >>

\* The path names the new file already; the engine keeps the old one.
CompactSyncDirFails ==
    /\ pc = "renamed"
    /\ Fails("compact_sync_dir")
    /\ UNCHANGED << mem, disk, thread, pending, ops >>

-----------------------------------------------------------------------------
(* Crash *)

\* The files a crash now can leave under the database path.
Images == UNION {CrashImages(files[i]) : i \in {path, dpath}}

\* Power loss, or the death of the process: only the disk survives.
Crash ==
    /\ phase \notin {"down", "failed"} /\ crashes < MaxCrashes
    /\ \E i \in {path, dpath} : \E f \in CrashImages(files[i]) :
          /\ files' = [Reclaim(files, {}) EXCEPT ![i] = f]
          /\ path' = i /\ dpath' = i
          /\ cw' = [file |-> i, seq |-> 0, slot |-> 1]
          /\ committed' = Stored(f)
    /\ phase' = "down"
    /\ active' = EmptyLayer /\ imms' = << >> /\ ssts' = << >>
    /\ nextId' = 1 /\ walStart' = 1
    /\ pc' = "idle" /\ op' = "commit" /\ force' = FALSE
    /\ pending' = EmptyLayer /\ job' = NoJob(path')
    /\ snaps' = [t \in Txs |-> NoSnapshot]
    /\ verdict' = "none"
    /\ crashes' = crashes + 1
    /\ UNCHANGED << faults, ops >>

Start == OpenFile \/ BootManifest \/ BootHeader \/ BootSync \/ Recover

CommitStep == WalAppend \/ WalSync \/ Apply

FlushStep ==
    FlushRotate \/ FlushWrite \/ FlushHeader \/ FlushHeaderSync \/ FlushPublish

CompactStep ==
    \/ CompactSkip \/ (\E i \in Inodes : CompactBuild(i)) \/ CompactRename
    \/ CompactSyncDir \/ CompactSwap \/ CompactPublish

Fault ==
    \/ WalWriteFails \/ WalSyncFails \/ FlushWriteFails \/ FlushHeaderFails
    \/ CompactBuildFails \/ CompactRenameFails \/ CompactSyncDirFails

Next ==
    \/ Start
    \/ \E r \in Readers : BeginRead(r) \/ EndRead(r) \/ Verify(r)
    \/ BeginWrite \/ Rollback \/ ForceCompact
    \/ \E k \in Keys, e \in Values \cup {Tombstone} : Buffer(k, e)
    \/ CommitStep \/ FlushStep \/ CompactStep
    \/ Fault \/ Crash

Spec == Init /\ [][Next]_vars

\* open() runs on once it was called.
Fairness == WF_vars(Start)

FairSpec == Spec /\ Fairness

-----------------------------------------------------------------------------
(* Properties *)

Handle == [gen : Nat, ino : Inodes, off : Nat]

Immutable == [id : Nat, data : Layer]

SnapshotType == [active : Layer, imms : Seq(Immutable), ssts : Seq(Handle)]

\* The absence of a transaction is not mistaken for one.
ASSUME SnapshotAssumption == NoSnapshot \notin SnapshotType

PCs == {"idle", "tx", "wal_written", "logged", "flush", "rotated", "flush_written",
        "header_written", "header_synced", "compact", "built", "renamed",
        "dir_synced", "swapped"}

\* Every variable has its type.
TypeOK ==
    /\ path \in Inodes /\ dpath \in Inodes
    /\ phase \in Phases
    /\ Snapshot \in SnapshotType
    /\ nextId \in Nat /\ walStart \in Nat \ {0}
    /\ cw \in [file : Inodes, seq : Nat, slot : {0, 1}]
    /\ pc \in PCs
    /\ op \in {"commit", "force_compact"} /\ force \in BOOLEAN
    /\ pending \in Layer
    /\ job \in Handle
    /\ snaps \in [Txs -> SnapshotType \cup {NoSnapshot}]
    /\ verdict \in {"none", "ok", "corruption"}
    /\ committed \in View
    /\ faults \subseteq IoFaults
    /\ ops \in 0..MaxOps /\ crashes \in 0..MaxCrashes
    /\ files \in [Inodes -> FileType]

\* An error of write_fresh_container or of rename leaves the engine as it was;
\* after any other I/O error it is out of step with its file.
Healthy == faults \subseteq {"compact_build", "compact_rename"}

\* The databases a crash may leave: commit() is durable once the frame is
\* synced, and until then it is kept whole or lost whole.
Outcomes ==
    LET after == Live(Overlay(committed, pending))
    IN  CASE pc = "wal_written" -> {committed, after}
          [] pc = "logged"      -> {after}
          [] OTHER              -> {committed}

\* Whatever a crash leaves on disk while the database is open, at any point of
\* commit, flush and compaction, opens again and holds exactly the commits that
\* returned (commit_pending, flush and compact_all in write.rs).  What a crash
\* during an open leaves is what RefusedOnlyUnborn and the refinement speak of.
CrashSafe ==
    phase = "up" /\ Healthy =>
        \A f \in Images : Recoverable(f) /\ Stored(f) \in Outcomes

\* A transaction that begins now reads every commit and nothing else, wherever
\* flush and compaction have moved the entries (tx.rs lookup and scan_sources).
ReadsCommitted ==
    phase = "up" /\ Healthy => Reads(Snapshot) = committed

\* An open snapshot never changes under a reader: not by commits, flushes or
\* compactions that unlink the file it reads from, not even after I/O errors
\* (mod.rs ReadSnapshot).
SnapshotsStable ==
    [][\A r \in Txs :
          snaps[r] # NoSnapshot /\ snaps'[r] # NoSnapshot
              => Reads(snaps[r])' = Reads(snaps[r])]_vars

\* The newest-first walk is sound: SSTables are in ascending generation order,
\* immutable memtables are newer than every SSTable, and none outlives the
\* flush that made it (tx.rs lookup; flush in write.rs).
LayerOrder ==
    phase = "up" /\ Healthy =>
        /\ \A i, j \in DOMAIN ssts : i < j => ssts[i].gen < ssts[j].gen
        /\ \A i \in DOMAIN imms, j \in DOMAIN ssts : ssts[j].gen =< imms[i].id
        /\ pc \in {"idle", "tx", "compact"} => imms = << >>

\* Between operations the file is one a later open reads the same way: the
\* header names the manifest in use and the WAL region is pure frames to EOF
\* (manifest.rs wal_region_start).
WalRegionPure ==
    LET f == files[cw.file]
    IN  phase = "up" /\ Healthy /\ pc \in {"idle", "tx", "logged"} =>
            /\ cw.file = path
            /\ cw.slot = ActiveSlot(f) /\ cw.seq = f.slots[cw.slot].seq
            /\ LiveManifest(f).walStart = walStart
            /\ ValidEnd(f, walStart) = Len(f.body)

\* open() refuses a file only when the crash came before the first open of a
\* new database had written its header, so no commit is ever behind a refused
\* open (mod.rs open_with_options, container.rs read_header).
RefusedOnlyUnborn == phase = "failed" => ops = 0

\* verify_integrity reports corruption of a healthy database only between the
\* header write of a flush, or the file swap of a compaction, and the update of
\* wal_region_start that follows it (ops.rs verify_integrity).
VerifyWindow ==
    [][verdict' = "corruption" /\ verdict # "corruption" /\ Healthy
          => pc \in {"header_synced", "swapped"}]_vars

\* Every open ends, by serving the database or by refusing it, whatever crash
\* or failed call left the file behind (mod.rs open_with_options, wal.rs replay).
OpenEnds == (phase \notin {"up", "failed"}) ~> (phase \in {"up", "failed"})

-----------------------------------------------------------------------------
(* A claim of the documentation that the engine does not keep. *)

\* wal.rs:31: append's "fsync is what makes commit() durable before it returns Ok
\* to the caller": what the commits so far have written survives a crash.
CommitsDurable ==
    phase = "up" /\ pc = "idle" => \A f \in Images : Stored(f) = committed

-----------------------------------------------------------------------------
(* Refinement *)

Up == phase = "up"

Stage ==
    CASE pc = "tx" -> "open"
      [] pc \in {"wal_written", "logged"} -> "committing"
      [] OTHER -> "idle"

\* What each open transaction reads; commit() reads no more.
Seen ==
    [t \in Txs |-> IF snaps[t] = NoSnapshot \/ (t = Writer /\ pc # "tx")
                     THEN NoSnapshot ELSE Reads(snaps[t])]

Abstract == INSTANCE SnapshotStore WITH
    db <- committed, up <- Up, stage <- Stage, snaps <- Seen

\* The engine implements the storage contract of bkndb-core/src/storage.rs:
\* atomic, durable, serialized commits and readers on fixed snapshots.
ImplementsSnapshotStore == Abstract!Spec
=============================================================================
