# A TLA+ verification of bkndb

bkndb is an embedded database written in Rust: graph, relational and key-value
models over one pluggable storage backend. This directory holds TLA+ modules of
the storage layer, of the graph, relational and key-value models above it, of
their algorithms and encodings, of query execution, and of the handle the language bindings share;
TLC configurations that check them on small instances; and TLAPS proofs of what
holds for every instance.

## 1. The system

| part | source | state it keeps | operations |
|---|---|---|---|
| storage contract | `bkndb-core/src/storage.rs` | none (traits) | `begin_read`, `begin_write`, `get`/`range`/`scan`, `put`, `delete`, `commit`, drop |
| LSM engine | `bkndb-storage-lsm/src/engine/` | `EngineState` (active memtable, immutable memtables, SSTables, next id, `wal_region_start`), `ContainerWriter` (file, header seq and slot), `writer_lock` | open with recovery, `commit_pending`, `flush`, `compact_all`, `force_compact`, `verify_integrity`, `stats`, `backup_to` |
| container file | `container.rs`, `wal.rs`, `manifest.rs` | two header slots, a body of WAL frames, SSTable and manifest blobs | `write_header`, `read_header`, `append`, `replay_from`, `write_blob_at` |
| SSTable, bloom, keys, merge | `sstable/`, `bloom.rs`, `keys.rs`, `compaction.rs`, `memtable.rs` | immutable blobs; `MergeIter`'s heap | write, open, get, cursor, merge |
| redb backend (the default) | `bkndb-storage-redb/src/lib.rs` | an external `redb::Database` behind an `RwLock`, a writer mutex | transactions, `compact`, `backup_to`, `verify_integrity` |
| in-memory backend | `bkndb-storage-mem/src/lib.rs` | `RwLock<Arc<Tables>>`, a writer mutex | transactions, clone-on-write commit |
| `Db`, batches, sync | `bkndb-core/src/db/`, `kv/` | none of its own: tables in the backend | one transaction across the three models, `SyncBatch` |
| graph | `bkndb-core/src/graph/` | nodes, edges, two adjacency tables, label and property indexes, id counters | create, update, delete, bulk, index maintenance, traversal |
| relational | `bkndb-core/src/relational/` | catalog, rows, secondary and unique indexes, key counters, search postings, vector index | insert, upsert, update, delete, DDL, query |
| query languages, hybrid | `lang/`, `hybrid.rs` | none | parse, plan, run |
| C ABI | `bkndb-ffi/src/` | a worker thread per explicit transaction, an open flag | begin, run, commit, rollback |

`bkndb::BknDb` wraps `Db<RedbStorageBackend>`; the LSM engine is the alternative
behind the feature `lsm-backend`, the in-memory one serves tests and FFI.

How they meet. Everything above the contract calls a backend through one
transaction at a time. In the LSM engine three locks matter: `writer_lock`,
held for a whole write transaction and everything `commit()` runs; the
`container` mutex around the file handle; the `state` lock around the lists a
snapshot clones. Readers hold none of them after `begin_read`. Processes meet at
the file path: the OS lock belongs to an inode, and compaction moves the path
from one inode to another.

What is hard to test: a crash between any two of the dozen writes, syncs and
renames of a flush or a compaction; a reader between two of the critical sections
of a flush; an I/O error in the middle, after which the engine keeps serving; a
second process that opens while the first one compacts; two backups of one
destination; a statement that fails half way inside a batch whose caller goes on;
indexes over a long history of writes and schema changes; a commit, a failing
operation, a late rollback and a `close()` from four threads at once; bounds of
key ranges at the ends of their types; a query whose plan, start node or early stop
must not show in its answer. `PROJECT.json` lists each at its line under `hazards`, with the
properties that watch it.

## 2. Modules

```
Layers            newest-wins reading of a stack of key/value layers
  SnapshotStore     the abstract specification: what a backend promises
  Container         the file as a value, and what a crash leaves of it
    LsmEngine         the engine; implements SnapshotStore
  MemBackend        the in-memory backend; implements SnapshotStore
FileLock          several processes on one path
Backup            backup_to of the LSM and redb backends
WriteTx           one write transaction: statements, batches, commit, drop
  Relational        a table with its index, key counter and search indexes
  Database          graph, key-value tables and sync_batch in one transaction
    Graph             the graph's tables and what each operation does to them
FfiSession        the shared handle, explicit transactions and their workers
Algorithms        inputs for the pure algorithms, and what they must compute
  Traversal         breadth-first search, paths, hubs
  QueryPlan         access paths, filters, order, pages, aggregates, LIKE
  Encodings         the part of the inputs that is keys, LSM layers and C calls
    KeyCodec          sortable keys and the bounds of their scans
    LsmScan           cursors, MergeIter, scans and compaction
      SsTable           bloom filter, blocks, reads by key
    CApi              argument, result and JSON conventions of the C functions
  Hnsw              the graph of a vector index
  PatternMatch      MATCH, over Traversal and QueryPlan
  Sql               SELECT, over QueryPlan
  Hybrid            joins of nodes and rows
MC*               instances for TLC
*Proofs           theorems on LsmEngine, MemBackend, FileLock, Backup, Database,
                  Relational, FfiSession and Encodings
```

**Layers.** A memtable, a pending batch and an SSTable are functions from `Keys`
to a value, `Tombstone` or `Absent`. `Merged` of a stack is what `lookup`,
`scan_sources` and `MergeIter` produce: the newest entry of each key, tombstones
dropped. Key bytes, table prefixes and range bounds are abstracted: a read is
the whole view at once, and an entry is one unit of `memtable_byte_size`.

**Container.** The body is a sequence of extents (`Frame`, `Blob`, `Manifest`,
`Junk` for bytes no checksum accepts), an offset an index into it. A slot pins
its manifest's checksum, kept as the manifest itself, so a slot that names other
bytes is rejected as in `read_manifest`. A file remembers what of it is durable;
`CrashImages` are the files a power loss may leave: every synced extent, any
number of the later ones, each whole or torn, and any unsynced slot old, new or
torn. `Recover` in LsmEngine uses the same `ValidEnd`, `Truncate` and
`SortByGeneration` as `Stored`, the database a file holds.

**LsmEngine.** One action per stretch of code between two points at which
another thread, or a crash, can see a difference. `pc` is where the holder of
`writer_lock` stands:

| code | actions |
|---|---|
| `open_with_options` | `OpenFile`, `BootManifest`, `BootHeader`, `BootSync`, `Recover` |
| `begin_read`, drop, `verify_integrity` | `BeginRead`, `EndRead`, `Verify` |
| `begin_write`, `put`/`delete`, drop | `BeginWrite`, `Buffer`, `Rollback` |
| `commit_pending` | `WalAppend`, `WalSync`, `Apply` |
| `flush` | `FlushRotate`, `FlushWrite`, `FlushHeader`, `FlushHeaderSync`, `FlushPublish` |
| `compact_all`, `force_compact` | `ForceCompact`, `CompactSkip`, `CompactBuild`, `CompactRename`, `CompactSyncDir`, `CompactSwap`, `CompactPublish` |
| each `?` on I/O | `WalWriteFails` ... `CompactSyncDirFails`, enabled by `IoFaults` |
| power loss | `Crash` |

Snapshots hold handles into inodes, and an unlinked inode is reused once nothing
refers to it, so that reading a reclaimed file is something the model could do.
`committed` is a history variable: the database that the commits so far produced.
Reading inside a write transaction (`pending` over its snapshot) is the same
`Merged` with one more layer and is not a step.

**SnapshotStore.** A database, one write transaction, fixed snapshots, commits
that take effect whole, a crash that keeps or loses an unfinished commit whole
and nothing else. LsmEngine maps `committed`, its `pc` and what each snapshot
reads onto it; a writer's snapshot counts as closed once `commit()` has begun,
since the transaction was consumed by the call.

**MemBackend.** `Arc<Tables>` is a reference into a heap, `Arc::make_mut` the
choice between writing in place and allocating. The per-table `Arc`s inside are
folded into the outer one: a table is copied exactly when the outer map is
shared with whoever shares the table.

**FileLock.** Open and lock are two steps, as are the steps of a compaction that
concern path, temporary path and locks. `stray` records that some process was
left with an inode that had lost the path: it locked one that a rename had
replaced, or its own directory sync failed. A compaction that stops at `lock_exclusive`
or at the rename (`CompactStops`) leaves its temporary file for the next one.

**Backup.** Callers of `backup_to` with one destination, commits beside them, a
crash and retries. `redb`, chosen at the start, selects the backend: redb removes the temporary file
first and does not sync the directory, LSM truncates the file and syncs it.

**WriteTx.** `db` is the committed data, `work` what the open write transaction
sees, `stmt` a statement that is looping over its items. A statement on its own
commits or is dropped; in a batch the caller may go on after an error, and then
keeps what the failed statement had already written. That the storage layer
keeps `work` private and makes commits atomic is what the modules above show.

**Relational.** One table with an Int key and three columns: `a`, a text `s`, both of
which may be indexed or UNIQUE, and a vector. Its state is the catalog entry, the
rows, the index entries, the key counter and both search indexes. Inserts and
updates of several rows take a step per row (`InsertNext`, `RewriteNext`), and
`write_row_in`, `delete_row_in` and `update_row_in` are `WriteRow`, `DeleteRow` and
`UpdateRow`: checks, row, index keys column by column, search indexes, in the code's
order. They can stop in the middle in two ways. A text with a NUL byte (`Unkeyable`) may be
stored, but `index_key` fails on it, at the old value or at the new one, with the columns before it
done (`Stuck`, `Passed`; `AFirst` is the order of the columns); and the vector index
refuses a vector of another dimension after the old node is gone and before its metadata is
saved. Tables may be used through a static schema that the catalog does not know and
be adopted later. `torn` is the set of indexes that a failed statement left behind the rows in
a batch that went on; the properties are stated of the others, and building an index again takes
it out of the set. The counter is a u64 and a key an i64 (`AsI64`, with `Half` for 2^63).
The loop's own `next += 1` wraps as it does in a release build; a debug build panics there.

**Graph, Database.** Nodes, edges, both adjacency tables, label and property
indexes with their markers, the two id counters, each operation of `db/ops.rs` and
`index.rs` as an operator on them; Database runs them as statements, with bulk
creation, `cascade_delete` and `sync_batch` item by item, from new files and from
files older than the label index. Some labels are too long for an index key (their
key builders fail after the node is written); some values of two kinds have keys
that begin alike, so that a prefix scan finds both.

**FfiSession.** One step per access to the `RwLock`, the flags, the worker mutex,
the channels, and the backend's writer lock. `thread[t].at` is where a host thread
stands in `read`/`write`/`close` of the engine, `begin_transaction`, an operation
(`in_tx!`), or `end(commit)`; `worker[x]` is the thread that owns the batch. An operation
may fail after writing part of what it writes (`half`). `saved` and `acked` are
history variables: what commit made durable, and what was answered with `Ok`.
`late` records that an operation failed while commit had already read the abort flag.

**Traversal, QueryPlan, KeyCodec, SsTable, LsmScan, Hnsw, CApi.** Each states the code's
algorithm with its queues, heaps, early exits and bounds, and beside it a
definition that does not search, plan, encode or cache: reachability and the cost
of walks; the rows that satisfy the filters; the order of values; the newest entry
of a key. Bytes are digits of a small base, so that the ends of every range are
reached. A value on its way through JSON is a tree, a function from paths to nodes,
which the conversions change node by node. An iterator is the list it yields and whether
an error follows; `Merge` goes round by round, once for each key at most, and takes the
entries with the least key off all their sources in one round. In Algorithms a state is
one input, and one invariant per family compares the two; Encodings is the part of it,
with its own specification, that needs no recursive operator and is proved. `Hnsw`
promises no exact answers (its search is approximate by design):
the entry point is a live node of the level recorded, links stay within their
layer and its capacity, searches return live rows, nearest first, and miss none
that the links lead to when there is room for all. A history is what a batch does that
goes on after errors: an `add` that is refused returns before the metadata is saved, with the
old node gone (`Unsaved`). After that (`torn`) the stored entry point may name a removed node,
the code reports "lost its entry point", and nothing is claimed.

**PatternMatch, Sql, Hybrid.** `lang/graph`, the SELECT part of `lang/sql/exec.rs`
and `hybrid.rs`, from the parsed query on. `RunMatch` is `validate` and `execute`:
`AnchorOf` chooses the node pattern to start from by id, index or label,
`Completed` is the depth-first walk to the right and then to the left of it with
`ExpandRel` for each relationship, `Streamed` stops at SKIP + LIMIT where nothing
later needs more, and `RowsOf` and `Finished` group, deduplicate, sort and cut. An
error anywhere makes the answer `<<>>`. Beside it stands `PatternMatches`: all
assignments of nodes and edges that fit the pattern, with no start and no order.
`ExecuteSelect` binds WHERE to a filter and runs QueryPlan's `Select` or
`Aggregate`; `Says` reads the same clause of a row directly. `AnswersExact` of Algorithms
compares the two for each query of a graph or a table that `MCQueryInputs` lists.

## 3. Runs

| run | instance | shows |
|---|---|---|
| `lsm_crash` | 2 keys, 1 value and delete, 4 operations, 2 crashes, flush at 2 entries, compaction at 2 files | `CrashSafe`, `ReadsCommitted`, `LayerOrder`, `WalRegionPure`, `RefusedOnlyUnborn`, `TypeOK` |
| `lsm_readers` | 1 key, 2 values, 1 reader | `SnapshotsStable`, `VerifyWindow`, `ImplementsSnapshotStore` |
| `lsm_faults` | 1 key, 3 operations, a crash, every I/O call may fail, `FairSpec` | `CrashSafe`, a statement about every image a crash could leave of an open database, as long as only a compaction's build or rename has failed; `OpenEnds`, whatever failed |
| `mem_backend` | 2 readers | `ImplementsSnapshotStore` |
| `file_lock` | 3 processes, 5 inodes | `LockInv`, `ExclusiveUnlessStray`, `TmpSafeUnlessStray` |
| `backup` | 2 callers, 4 inodes, 2 crashes, both backends | `DestWhole`, `NeverReplaced`, and for LSM `AckedSurvives` |
| `relational` | keys -3, 1 and 2 (i64::MIN is -3 and i64::MAX is 2), 2 values and 2 texts, one with a NUL byte, vectors of 2 dimensions and a zero one, 5 schemas, 4 statements | `TypeOK`, `LookupExact`, `UniqueHolds`, `SearchAgrees`, `FreshKeys` |
| `graph` | 3 nodes, 2 edges, 2 labels, 3 values, 4 statements, a new or an old file | `TypeOK`, `AdjacencyExact`, `NoDangling`, `IndexesExact`, `IdsNeverReused` |
| `ffi_session` | 3 threads, 2 transactions, 1 call a thread beside commit and rollback, `FairSpec` | `SessionInv`, `FlagCoversWorker`, `CommitWhole`, `CallsReturn` |
| `algorithms` | 155,987 inputs: graphs of 4 nodes and 4 edges, filters over 3 rows, vector histories of 7 to 13 changes with vectors of 1 and 2 dimensions, keys in base 4 with 2 digits, 2 SSTables and a memtable over 3 keys, the C functions, 9 patterns of up to 3 nodes and 2 relationships (hops 0..2, 1..16, 2..3) with 15 filters and 9 RETURN clauses over graphs of 3 nodes and 3 edges with and without an index, SELECT and joins over 3 rows | `TraversalExact`, `QueriesExact`, `VectorsSound`, `KeysExact`, `StoreReadsExact`, `ApiContract`, `AnswersExact` |

The bounds. Four operations are two flushes and an automatic compaction, or a
flush, a forced compaction and commits on both sides of it; two crashes let the
second one hit a recovered file. Two keys let one be in an SSTable while the
other is in the log. Two keys and one value suffice for shadowing because delete
is a second entry; where versions must be told apart (readers) there are two
values. There are inodes enough that a compaction never waits for one: the files
path, durable path, container and a reader can keep live at a time within the
bound on operations, and one to build (in `lsm_faults` a fourth inode adds no
distinct state). Symmetry is over keys, values, inodes and
processes, which no action distinguishes, and is not used for liveness. The
Backup runs check no deadlock: a caller that finds its destination in place has
nothing left to do, and the bounded crashes and commits run out.

Four statements are enough to create rows through one schema, change the schema
twice and write again, or to fill an index, fail in a batch, go on and commit; with
three keys there is one at either end of i64, so that the automatic key after the greatest is
the least. Columns are in the order `s`, `a`, so that a failure at `s` leaves the UNIQUE `a` undone;
the proofs are for both orders. Two edges give a self loop beside an edge and
parallel edges, three nodes a cascade that turns. Three threads are one inside
an operation, one that commits and one that begins, writes or closes; two transactions let a late end
of the first meet the second. Integers of two base-4 digits have their sign bit,
their least and greatest value; string keys contain prefixes of each other. Three
edges give parallel edges, a cycle and a loop beside an edge, which is what trails that may
not reuse an edge depend on; three rows give two of one group and a value that is missing. No run of a
bounded number of statements, calls or inputs checks deadlock: they end by design.

Fairness. `FairSpec` of LsmEngine assumes that a thread inside `open` runs on
(`Start`), and nothing else: a transaction may stay open and a commit stand still for ever. No
step of `open` waits for another thread, so weak fairness is enough. In FfiSession, threads inside
a call (`Proceed`) and workers (`Work`) are scheduled, and a host that has nothing
else to do ends its transaction (`End`): without that last one an engine write
queued before the flag went up could wait for ever, as it would in the program.
`CallsReturn` says nothing while a `close()` is queued; see below.

### Where code and comments disagree

TLC refutes two runs, quoted under `findings`. `lsm_torn_wal`: after a write
error in `wal::append` the torn bytes stay in the WAL region. Later commits return
`Ok` and lie behind them, where the next open cuts them off. A write error in
`flush` leaves foreign bytes there too. `relational_keys`: an explicit key of an
`upsert_bulk`, or of a `sync_batch`, can lie in the block reserved for the automatic keys of the same
call; the row without a key then gets that key and silently replaces the row
(`AutoKeyFree`; sync.rs:121 promises a fresh one). In `insert_bulk` it fails with `DuplicateKey`.

The following are conditions in the properties that pass, or choices of the model:

- After `sync_parent_dir` fails in `compact_all` (write.rs:222), commits go to the
  inode that has lost the path. `CrashSafe` excludes it (`Healthy`).
- The memtable of a failed flush stays in front of newer SSTables (write.rs:78; tx.rs:46
  says "newest first"), and reads return its old values (`Healthy` again).
- An open that straddles a compaction's rename locks the replaced inode and serves
  it beside the owner (engine/mod.rs:260), and may remove the owner's temporary file;
  `ExclusiveUnlessStray` and `TmpSafeUnlessStray` have their condition for it.
- Overlapping LSM backups to one destination share the temporary file (ops.rs:54);
  with redb the second one replaces the first's copy. `DestWhole` and `NeverReplaced`
  exclude overlapping calls.
- `VerifyWindow`: `verify_integrity` between the two critical sections of a flush
  or of a compaction reports corruption of an intact file, and only there. After
  a compaction's swap the subtraction in its message (ops.rs:108) underflows; the
  model counts that, too, as a report of corruption.
- `RefusedOnlyUnborn`: a crash inside the very first open, after the manifest and
  before the header, leaves a file every later open refuses; no commit is lost.
- `FreshKeys`: the counter is handed out "as i64" (codec.rs:198). After the explicit key
  i64::MAX the next automatic key is i64::MIN: if there is such a row an insert fails
  and an upsert replaces it.
- `LookupExact`, `UniqueHolds`, `SearchAgrees`: what a failed statement has written stays if the
  batch swallows the error. At a NUL byte an update has taken the old key out of the index and
  leaves the row (write.rs:294-297), so that the lookup misses it; an insert has put the row without
  the keys of `s` and of the columns after it (write.rs:157), among them that of a UNIQUE column, so that a
  second row with its value is accepted, and without its postings and its vector. At a refused
  vector the row is put and the old node gone. A migration may stop half way too;
  catalog.rs:58 ("a failed migration changes nothing") holds if the transaction is dropped.
- `IndexesExact`: a property lookup scans a key prefix, so an Int and a Str whose
  keys begin alike are both found. A node whose label exceeds 65535 bytes is
  written before its index key fails; a batch that goes on keeps a node that can be neither
  updated nor deleted, and at which `rebuild_indexes` stops half way.
- `CommitWhole`: `in_tx!` notes a failure after it has released the worker
  (transaction.rs:198), so a concurrent `commit` can make half an operation durable
  (transaction.rs:127: "If any operation fails, the transaction is aborted").
- `CallsReturn`: a queued `close()`, an engine write that holds the read lock and
  waits for a transaction, and the owner of that transaction in a read behind the
  `close()` wait for each other. `close()` can also succeed while a transaction opens.
- `KeysExact`: the lower bound "greater than the largest Int or uuid" becomes
  unbounded. A query filters again, a direct range lookup returns every row.
- `QueriesExact` compares values as `total_cmp` does, which is no total order over
  values of different kinds; `HubsExact` lists the chosen hubs by ascending degree, as the
  code does; `to_tree` drops children whose parent a label filter removed.
- `AnswersExact`: the lookup of a start node by id or index takes the value as it is,
  so `id(a) = 2.0` and an indexed `p = 2` on a stored 2.0 find nothing that WHERE
  would keep (`StrictLookup`). `WHERE a.p = NULL` keeps the nodes without `p` (exec.rs:235:
  "test nullness"), until label and `p` have an index: it finds only a stored null. A type written twice in `[:T|T]` doubles the matches
  of a directed relationship (`TypesOnce`). A variable-length path to the left of
  the start node lists its edges from right to left (`Oriented`).
- `VectorsSound`: with more than `2*m` equal vectors, `shrink` leaves the entry point
  a single link; after that neighbour is removed an unfiltered search finds the
  entry row only.
- `ApiContract`: optional JSON that is not UTF-8 counts as absent, keys that are not
  strings are skipped, integers beyond i64 become floats, and bytes, timestamps and
  uuids come back from JSON as another kind. The error slot is overwritten, not freed.

## 4. Proofs

| theorem | says | argument |
|---|---|---|
| `LsmTypeOK` | every variable of the engine and every extent, manifest and slot of every file keeps its type, for any options and sets, any number of operations, crashes and I/O errors | needs `IInv` below: what `Recover` reads from a file is typed only because each step of open left a readable manifest, and the header of a flush can be written only because the manifest is where `job` says |
| `LsmSnapshotsStable` | an open snapshot reads the same for ever, whatever else happens | every step that leaves a snapshot open leaves each file it reads from unchanged or longer (`Grows`), and every handle points inside its file (`HandlesInv`), so that what it names cannot change |
| `LsmReadsCommitted`, `LsmLayerOrder`, `LsmWalRegionPure` | the three invariants, with any number of keys, tables, readers, operations and crashes | from `AllInv` below |
| `LsmCrashSafe` | every file a power loss can leave, at any point of commit, flush and compaction, opens again and holds exactly the commits that returned; of an open database, as is the run's | from `AllInv`: `FileInv` and `PathInv` tell what each file under the path holds, and a crash keeps what was synced (`WholeImage` and its companions) |
| `LsmVerifyWindow` | the verdict "corruption" is given only inside the two windows | from `StartInv`: elsewhere the log starts where the engine says |
| `LsmRefusedOnlyUnborn` | no acknowledged operation is behind a refused open, whatever fails | from `Sound` alone, without the condition `Healthy` |
| `LsmImplementsSnapshotStore` | `Spec /\ []Healthy => ImplementsSnapshotStore` | step by step from `AllInv`: a commit takes effect at `Apply`, syncs, flushes and compactions are invisible, a crash is one of the contract's two. The hypothesis is what the run has with `IoFaults = {}`; without it the statement is false, as `lsm_torn_wal` shows |
| `DatabaseTypeOK`, `DatabaseAdjacencyExact`, `DatabaseNoDangling`, `DatabaseIndexesExact`, `DatabaseIdsNeverReused` | the graph's properties for any ids, labels, types, values, batches and old files, at every step of a statement that is half done | `IInv` of `DatabaseProofs`, see below |
| `RelationalTypeOK`, `RelationalLookupExact`, `RelationalUniqueHolds`, `RelationalSearchAgrees`, `RelationalFreshKeys` | the table's properties for any keys, values, schemas, batches and changes, with and without an automatic key | `IInv` of `RelationalProofs`, see below |
| `MemTypeOK` | types | inductive as it stands |
| `MemImplementsSnapshotStore` | the in-memory backend implements the contract, for any keys, values, readers and heap | step by step; `Commit` writes to a reference no snapshot holds, which is what `Shared` and `Free` give |
| `LockInvariant` | `LockInv` | with `TypeOK`, inductive: while no process is stray, whoever has passed `lock_exclusive` holds the lock of the path's inode, and a compaction holds the lock of the file it is about to rename |
| `ExclusiveOwner`, `TemporaryFileSafe` | one owner; nobody removes its temporary file | from `LockInv`: two owners would hold one lock |
| `BackupDestWhole`, `BackupAckedSurvives`, `BackupNeverReplaced` | for both backends, any number of callers, crashes and commits | `IInv`: as long as no two calls overlapped, one call at most is under way; where it stands tells what the temporary path names and how much of it is durable; what the destination names is whole. `DestWhole` alone is not inductive: the file being renamed must be known to be synced |
| `SessionInvariant`, `SessionFlagCoversWorker`, `SessionCommitWhole` | `SessionInv`, `FlagCoversWorker`, `CommitWhole` for any number of threads, transactions and calls | `SessionInv` is inductive, see below; the other two follow from it |
| `KeysAlwaysExact` | `KeysExact` for every base and width, every value, id and name, every pair of keys | below |
| `PointReadsExact` | reads by key give the newest entry, and fail only on a damaged block that the answer depends on, for any layers, blocks, filter and hashes | a key is in one place of a table, the blocks that begin at or before it are the first ones up to its own, and filter and ends pass it |
| `WrittenTables` | what `Write` makes of ascending entries (sstable/mod.rs:159 asserts them to be) holds exactly those and is what `PointReadsExact` asks of a table | after n entries the finished blocks and the open one hold the first n, in order |
| `ScansExact` | a scan returns the live keys of its table within its bounds, each once and in order, or an error after the first of them, and only if a table is damaged | below |
| `MergesExact` | compaction and backup keep exactly what is live in a table that verifies, or write none because a block is damaged | the merge without bounds yields the live entries, `WrittenTables` says what is made of them |
| `StoreReadsAlwaysExact` | `StoreReadsExact` for every store, base, filter, hash and block size | from `PointReadsExact`, `ScansExact` and `MergesExact` |
| `ApiContractHolds` | `ApiContract` for every function, every call and value trees of any shape | by the function and the kind of each argument; JSON node by node |

`SessionInv` of FfiSession has four parts beside `TypeOK`. `FlagInv`: the `tx_open`
flag is up exactly when it has an owner, and has at most one: a thread inside
`begin_transaction`, a transaction whose worker is still in its slot, or the thread
that took the worker out and has not yet lowered the flag. Without the uniqueness,
a late `end()` could lower the flag of the next transaction. `PlaceInv`: a thread
inside a call on a transaction is on one that exists. `TxInv`: mutex, slot,
command, reply and result of a transaction fit together, so that a reply reaches
the thread that asked.
`BatchInv`: everything acknowledged is in the batch, and half an operation is in
it only if its failure is noted, about to be noted by a thread that stands
between the two, or was late.

The inductive invariant of the engine (`IInv` in `LsmEngineProofs`) has six parts
beside `TypeOK`. `PhaseInv`: without a running engine there is no snapshot or
handle, and each step of open() finds the file as the step before left it.
`HandlesInv`: every handle, of the current lists and of open snapshots, points
into its file. `ManifestsInv`: every table a manifest lists lies before the WAL
region it starts, so that cutting a torn log at recovery never cuts a table.
`CurrentInv`: the SSTables are in the file the engine writes to, except between
the two halves of a compaction's swap; this is what makes the manifest of a flush
satisfy `ManifestsInv`. `JobInv`: what the locals of `flush` and `compact_all` name;
the file being built is nobody's until it is swapped in, so that clearing it
after a failed rename hurts no reader. `WriterInv`: no write transaction outlives
its hold on `writer_lock`. TLC found no violation of `IInv` with 3 operations, a
crash and every I/O error before it was proved. The lemmas in front say what the
operators of Layers and Container return and preserve: `ValidEnd` exists, the
stable sort permutes, a crash image is a well-formed file.

Above `IInv` stand two more layers (`AllInv == IInv /\ Sound /\ Serving /\ StoredInv`),
since none of the engine's safety properties is inductive: what a crash leaves depends
on every write and sync before it.

`Sound` holds whatever fails. `ListsInv`: generations ascend along the SSTable list,
and every handle leads to the table of its generation. `FlushInv`: the blob and the
manifest of a flush are in the file before the header slot that names them, which is
the slot not in use. `DurableInv`: every file the path may lead to after a crash, the
current one, the one a compaction has renamed or one that a failed directory sync left
there, has a slot that is on disk and names a manifest whose tables are all there;
the other slot, old, new or torn, is older or names a manifest that is on disk too
(`Durable` and `Names`). `RestInv`: a file at rest is all on disk,
and without a header only before the first open ended.

`Serving` says that a healthy engine is `Consistent`. `MemoryInv`: tables, the memtable
under flush and the active one, laid over each other, are `committed` at every point
of flush and compaction. `FileInv`: what the current file leads to, on disk, at every `pc`: `committed`,
or with the frame written and not yet synced both outcomes, or with the new header
unsynced the same database through either slot. `PathInv`: the path names the
current file except while a compaction moves it, and then a fresh file with the same
database. `StartInv`: where the log starts. `StoredInv`: without a running engine
the file under the path is what was committed.

The argument for crashes is about files, not steps: a crash image
agrees with the file up to what was synced and has junk or less behind it
(`ImageFacts`); what a slot and a stretch of frames keep depends on that part only
(`KeptAgree`); and replay stops exactly where the frames end. TLC found no violation of
these invariants on the instance of `lsm_readers` before they were proved.

Database. `IInv` is `TypeOK`, `GraphInv` of the committed and of the open data,
`Later` and `LoopInv`. What an index holds is right only because every operation
removes what it put there (`IndexSound`, which a torn rebuild keeps), and complete
with the marker and without a tear (`IndexComplete`). A loop writes ids that it
reserved some steps before: they are below the counter, above every committed one and
still free (`LoopInv`). What the open transaction holds beyond the committed data has ids from the
committed counters on (`Later`), and its counters are not below the committed ones, which gives
`IdsNeverReused`.

Relational. `IInv` is `TypeOK`, `TableInv` of the committed and of the open table and
`LoopInv`. A lookup is exact and a UNIQUE check sound only if the index has every row
of the registered schema and column, `torn` ones aside (`IndexComplete`); a migration may keep an index only because
the schema that named it was well formed (`Built`), and a search index only because its
column stays (`SearchColumns`). The full-text index is a function of the rows' texts
(`FtsFor`), so that removing and adding a row's postings is a change of that function
at one key; the vector index has a node for each row with a vector, all of one
dimension (`AnnExact`). A loop writes with a schema that it resolved and with keys
that it reserved before: the schema is still the registered one, and the keys are above
every row that was there when the statement began (`LoopInv`).

Encodings. The state holds one input, so the invariant is that the input is one of
those asked for (`Chosen`); the rest are lemmas on operators. Numbers are compared by
their highest different digit, byte strings by their first different byte
(`DifferAt`). Two encodings are `Apart` if they are equal or differ in some byte
of both: fixed-width integers, terminated strings and length-prefixed names are, and so are
sequences of them. Encodings that are apart sort and decode as their parts do whatever
follows, and a scan from a prefix to `PrefixUpperBound` finds exactly what begins with
it. The library's induction takes an operator, which the provers cannot
instantiate: `Induction` takes a set instead, and `RecursionExists` the function that
makes a step, which is how `Power` and the loops of `Write`, `CursorFrom` and `Merge` are
known to be defined.

Scans. An iterator `Yields` a layer if what it returns are entries of the layer in
ascending order, and all of them, or, if it fails, all below some key. Such a list is a
prefix of `Entries(layer)`, and the whole of it if the iterator does not fail
(`YieldsUnique`), so it is enough to show what is yielded. A cursor yields its table's
entries between the bounds: the blocks it skips lie below the start, and it stops at a
lost block or at the first entry past the end (`Walked`). The merge has `Merging` for an
invariant of its rounds: each source in the heap has parked its first entry that is not
done, the keys done are below those to come, and of those done the live ones have been
returned. While it goes on each round does at least one key, so that as many rounds as
there are keys end it. What a failing source hides is above all that it returned, and the
merge stops as soon as that source has run out, before it could return an older entry of
a hidden key.
`TableBounds` takes the bounds of a table's scan back to the caller's. All of it asks of a
store `IsStore`: finite maps with byte keys and tables as `Write` makes them, whichever
blocks are damaged; `InputsAssumption` asks it of the inputs, TLC evaluates it on the
run's, and `WrittenTables` proves it of what `Write` makes.

They assume only what the modules' named `ASSUME`s say: distinct model values,
natural bounds, finite sets of keys and node ids, batches of the right type, schemas
the builders accept. `AckedSurvives` is stated of the LSM backend, since redb's
`backup_to` does not sync the directory.

Only model-checked: `OpenEnds` and `CallsReturn` (liveness is outside the prover's
reach); four properties of Algorithms (`TraversalExact`, `QueriesExact`,
`VectorsSound` and `AnswersExact`), which compare recursive algorithms with definitions
over every input: they use RECURSIVE operators, and a proof would be an induction over
queues, heaps and trees; and the two runs that show a violation.

## 5. Not modelled

- bytes of slots, frames and blocks: compression, checksum arithmetic, SSTable
  blocks of format version 1, bincode; that SSTable bytes read as a WAL frame by
  accident (a CRC coincidence);
- `stats()`, which changes nothing; `create_dir_all`; Windows (`sync_parent_dir`
  is a no-op there);
- I/O errors during `open`: it returns `Err`, and the next open starts over;
- the redb crate: transactions and durability of the default backend are its own,
  and so is what `check_integrity` does beside an open write transaction;
- f64: path costs and distances are integers; BM25 scores, cosine normalisation and
  the hash that draws a vector's level (an input of Hnsw) are left out;
- values of kind map, bytes and Boolean in filters, and dotted paths into maps;
- the lexers and parsers of `lang/`: text to trees; INSERT, UPDATE, DELETE and DDL
  statements, which end in operations of Relational; CONTAINS on the map that a
  node or an edge is returned as; node ids beyond i64 in MATCH;
- edge types beyond 65535 bytes, guarded by a `debug_assert` only (graph codec.rs:58);
- `is_closed`, the `free_*` functions and memory ownership of the C ABI; the bindings.

## 6. Plan

1. The pages of QueryPlan without RECURSIVE operators, as LsmScan is, so that
   `QueriesExact` can be proved.
2. `LsmEngine` after a harmful I/O error: which commits are still safe, as an
   invariant without `Healthy`.
3. Composition: a `SyncBatch` over the rows of Relational instead of a set, and
   Database over SnapshotStore instead of `db` and `work`.
