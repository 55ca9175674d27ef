---------------------------- MODULE SnapshotStore ----------------------------
(***************************************************************************)
(* What every storage backend promises the engines above it                *)
(* (bkndb-core/src/storage.rs: StorageBackend, StorageReadTx,              *)
(* StorageWriteTx): one database, one write transaction at a time, readers *)
(* on fixed snapshots, a commit that takes effect all at once or not at    *)
(* all, and a crash that loses nothing whose commit() has returned.        *)
(*                                                                         *)
(* Nothing here knows of files, memtables or logs.  LsmEngine and          *)
(* MemBackend are shown to implement this specification.                   *)
(***************************************************************************)
EXTENDS Layers

CONSTANTS Readers, Writer, NoSnapshot

VARIABLES
    db,       \* the committed database, as a View
    up,       \* FALSE while no process has the database open
    stage,    \* of the one write transaction: "idle", "open", "committing"
    pending,  \* its buffered puts and deletes
    snaps     \* what each open transaction sees, or NoSnapshot

vars == << db, up, stage, pending, snaps >>

Txs == Readers \cup {Writer}

TypeOK ==
    /\ db \in View
    /\ up \in BOOLEAN
    /\ stage \in {"idle", "open", "committing"}
    /\ pending \in Layer
    /\ snaps \in [Txs -> View \cup {NoSnapshot}]

Closed == [t \in Txs |-> NoSnapshot]

Init ==
    /\ db = Live(EmptyLayer)
    /\ up \in BOOLEAN
    /\ stage = "idle"
    /\ pending = EmptyLayer
    /\ snaps = Closed

-----------------------------------------------------------------------------

BeginRead(r) ==
    /\ up /\ snaps[r] = NoSnapshot
    /\ snaps' = [snaps EXCEPT ![r] = db]
    /\ UNCHANGED << db, up, stage, pending >>

EndRead(r) ==
    /\ up /\ snaps[r] # NoSnapshot
    /\ snaps' = [snaps EXCEPT ![r] = NoSnapshot]
    /\ UNCHANGED << db, up, stage, pending >>

\* Writers are serialized; the transaction starts from the latest commit.
BeginWrite ==
    /\ up /\ stage = "idle"
    /\ stage' = "open"
    /\ pending' = EmptyLayer
    /\ snaps' = [snaps EXCEPT ![Writer] = db]
    /\ UNCHANGED << db, up >>

\* put (an entry of Values) or delete (Tombstone).
Buffer(k, e) ==
    /\ up /\ stage = "open"
    /\ pending' = [pending EXCEPT ![k] = e]
    /\ UNCHANGED << db, up, stage, snaps >>

\* Dropping the transaction.
Rollback ==
    /\ up /\ stage = "open"
    /\ stage' = "idle"
    /\ pending' = EmptyLayer
    /\ snaps' = [snaps EXCEPT ![Writer] = NoSnapshot]
    /\ UNCHANGED << db, up >>

\* commit() has been called; a crash from here on may or may not keep it.
StartCommit ==
    /\ up /\ stage = "open"
    /\ stage' = "committing"
    /\ snaps' = [snaps EXCEPT ![Writer] = NoSnapshot]
    /\ UNCHANGED << db, up, pending >>

\* The whole batch takes effect at once.
Commit ==
    /\ up /\ stage \in {"open", "committing"}
    /\ db' = Live(Overlay(db, pending))
    /\ stage' = "idle"
    /\ pending' = EmptyLayer
    /\ snaps' = [snaps EXCEPT ![Writer] = NoSnapshot]
    /\ UNCHANGED up

\* The process dies: an unfinished commit is kept whole or lost whole, and
\* nothing else of the database changes.
Crash ==
    /\ up
    /\ \/ UNCHANGED db
       \/ stage = "committing" /\ db' = Live(Overlay(db, pending))
    /\ up' = FALSE
    /\ stage' = "idle"
    /\ pending' = EmptyLayer
    /\ snaps' = Closed

Open ==
    /\ ~ up
    /\ up' = TRUE
    /\ UNCHANGED << db, stage, pending, snaps >>

Next ==
    \/ \E r \in Readers : BeginRead(r) \/ EndRead(r)
    \/ BeginWrite
    \/ \E k \in Keys, e \in Values \cup {Tombstone} : Buffer(k, e)
    \/ Rollback \/ StartCommit \/ Commit
    \/ Crash \/ Open

Spec == Init /\ [][Next]_vars

=============================================================================
