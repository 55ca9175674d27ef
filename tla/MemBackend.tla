----------------------------- MODULE MemBackend -----------------------------
(***************************************************************************)
(* The in-memory backend (bkndb-storage-mem/src/lib.rs): one Arc to the    *)
(* tables, clone-on-write at commit.  The Arc is modelled as a reference   *)
(* into a heap, so that writing in place what a snapshot still shares is   *)
(* something the model could get wrong.                                    *)
(***************************************************************************)
EXTENDS Layers

CONSTANTS
    Readers, Writer, NoSnapshot,  \* transactions and the absence of one
    Refs                          \* allocations the heap can hold

ASSUME MemAssumption ==
    /\ Writer \notin Readers
    /\ NoSnapshot \notin Refs
    /\ NoSnapshot \notin View

VARIABLES
    heap,     \* the contents behind each reference
    tables,   \* MemoryStorageBackend.tables: the current reference
    stage,    \* "open" while a MemWriteTx holds the writer mutex, else "idle"
    pending,  \* MemWriteTx.pending
    snaps     \* the snapshot reference of each open transaction

vars == << heap, tables, stage, pending, snaps >>

Txs == Readers \cup {Writer}

\* Every variable has its type.
TypeOK ==
    /\ heap \in [Refs -> View]
    /\ tables \in Refs
    /\ stage \in {"idle", "open"}
    /\ pending \in Layer
    /\ snaps \in [Txs -> Refs \cup {NoSnapshot}]

Init ==
    /\ heap = [r \in Refs |-> Live(EmptyLayer)]
    /\ tables \in Refs
    /\ stage = "idle"
    /\ pending = EmptyLayer
    /\ snaps = [t \in Txs |-> NoSnapshot]

-----------------------------------------------------------------------------
\* begin_read: clone the Arc.
BeginRead(r) ==
    /\ snaps[r] = NoSnapshot
    /\ snaps' = [snaps EXCEPT ![r] = tables]
    /\ UNCHANGED << heap, tables, stage, pending >>

EndRead(r) ==
    /\ snaps[r] # NoSnapshot
    /\ snaps' = [snaps EXCEPT ![r] = NoSnapshot]
    /\ UNCHANGED << heap, tables, stage, pending >>

\* begin_write: wait for the writer mutex, then clone the Arc.
BeginWrite ==
    /\ stage = "idle"
    /\ stage' = "open"
    /\ pending' = EmptyLayer
    /\ snaps' = [snaps EXCEPT ![Writer] = tables]
    /\ UNCHANGED << heap, tables >>

\* put and delete go to the overlay.
Buffer(k, e) ==
    /\ stage = "open"
    /\ pending' = [pending EXCEPT ![k] = e]
    /\ UNCHANGED << heap, tables, stage, snaps >>

\* Dropping the transaction; also commit of an empty overlay.
Rollback ==
    /\ stage = "open"
    /\ stage' = "idle"
    /\ pending' = EmptyLayer
    /\ snaps' = [snaps EXCEPT ![Writer] = NoSnapshot]
    /\ UNCHANGED << heap, tables >>

\* Mutant: the reference count is not looked at.
NeverShared == FALSE

\* Arc::make_mut copies when the count is above one.
Shared == \E t \in Txs : snaps[t] = tables

\* An allocation nothing refers to.
Free(r) == r # tables /\ \A t \in Txs : snaps[t] # r

\* commit: insert and remove every overlay entry, in place or in a copy.  The
\* transaction's own snapshot is dropped only when commit returns.
Commit ==
    LET after == Live(Overlay(heap[tables], pending))
    IN  /\ stage = "open" /\ pending # EmptyLayer
        /\ \E r \in Refs :
              /\ IF Shared THEN Free(r) ELSE r = tables
              /\ heap' = [heap EXCEPT ![r] = after]
              /\ tables' = r
        /\ stage' = "idle"
        /\ pending' = EmptyLayer
        /\ snaps' = [snaps EXCEPT ![Writer] = NoSnapshot]

Next ==
    \/ \E r \in Readers : BeginRead(r) \/ EndRead(r)
    \/ BeginWrite \/ Rollback \/ Commit
    \/ \E k \in Keys, e \in Values \cup {Tombstone} : Buffer(k, e)

Spec == Init /\ [][Next]_vars

-----------------------------------------------------------------------------
\* What each open transaction sees through its reference.
Seen ==
    [t \in Txs |-> IF snaps[t] = NoSnapshot THEN NoSnapshot ELSE heap[snaps[t]]]

Abstract == INSTANCE SnapshotStore WITH db <- heap[tables], up <- TRUE, snaps <- Seen

\* The in-memory backend keeps the storage contract of bkndb-core/src/storage.rs
\* (without crashes: it has nothing to recover).
ImplementsSnapshotStore == Abstract!Spec
=============================================================================
