----------------------------- MODULE FfiSession -----------------------------
(***************************************************************************)
(* The handle the language bindings share between threads                  *)
(* (bkndb-ffi/src/engine/mod.rs, transaction.rs, c_api.rs): its            *)
(* RwLock<Option<Backend>>, the tx_open flag, the backend's writer lock,   *)
(* and the explicit transactions, each run by a worker thread that owns    *)
(* the open batch and takes its commands from a channel.                   *)
(*                                                                         *)
(* One step is one atomic access: a load or store of a flag, taking or     *)
(* releasing a lock, a send or a receive.  A reader waits behind a queued  *)
(* writer of the RwLock, as std's does on Linux.  What an operation writes *)
(* is its own identity.                                                    *)
(***************************************************************************)
EXTENDS Integers, FiniteSets

CONSTANTS
    Threads,   \* threads of the host program
    Txs,       \* bound: transaction objects a behaviour creates
    MaxCalls,  \* bound: calls a thread makes, not counting commit and rollback
    None

ASSUME FfiAssumption ==
    /\ MaxCalls \in Nat
    /\ None \notin Threads \cup Txs \cup {"run", "commit", "rollback", "ok", "err"}
    /\ Threads \cap Txs = {}

VARIABLES
    open,     \* the Option<Backend> is Some
    readers,  \* threads that hold inner.read()
    closers,  \* threads queued for inner.write()
    txOpen,   \* the flag tx_open
    writer,   \* who holds the backend's writer lock: a thread, a transaction or None
    thread,   \* where each thread is: [at, tx, commit]
    calls,    \* calls each thread has left
    slot,     \* BknDbTransaction.worker: "unborn", "held" (Some) or "taken" (None)
    lock,     \* who holds the mutex around it
    aborted,  \* BknDbTransaction.aborted is Some
    worker,   \* the worker thread: "none", "starting", "open", "gone"
    cmd,      \* the command in its channel
    reply,    \* its answer
    batch,    \* what it has written: [done, half] operations
    acked,    \* operations that returned Ok
    saved,    \* None, or the batch as committed
    late      \* history: commit began while a failure was not yet noted

shared == << open, readers, closers, txOpen, writer >>
object == << slot, lock, aborted, acked, late >>
wvars == << worker, cmd, reply, batch, saved >>
vars == << shared, object, wvars, thread, calls >>

Op == Threads \X Nat
Batch == [done : SUBSET Op, half : SUBSET Op]
Places == {"idle", "w.inner", "w.lock", "w.body", "r.inner", "r.body", "b.inner", "b.wait",
           "b.undo", "c.request", "c.wait", "o.lock", "o.wait", "o.note", "e.take", "e.read",
           "e.join", "e.flag"}

\* Every variable has its type.
TypeOK ==
    /\ open \in BOOLEAN /\ txOpen \in BOOLEAN
    /\ readers \subseteq Threads /\ closers \subseteq Threads
    /\ writer \in Threads \cup Txs \cup {None}
    /\ thread \in [Threads -> [at : Places, tx : Txs \cup {None}, commit : BOOLEAN]]
    /\ calls \in [Threads -> 0..MaxCalls]
    /\ slot \in [Txs -> {"unborn", "held", "taken"}]
    /\ lock \in [Txs -> Threads \cup {None}]
    /\ aborted \in [Txs -> BOOLEAN] /\ late \in [Txs -> BOOLEAN]
    /\ worker \in [Txs -> {"none", "starting", "open", "gone"}]
    /\ cmd \in [Txs -> {None, "run", "commit", "rollback"}]
    /\ reply \in [Txs -> {None, "ok", "err"}]
    /\ batch \in [Txs -> Batch] /\ saved \in [Txs -> Batch \cup {None}]
    /\ acked \in [Txs -> SUBSET Op]

Empty == [done |-> {}, half |-> {}]
Idle == [at |-> "idle", tx |-> None, commit |-> FALSE]

Init ==
    /\ open = TRUE /\ readers = {} /\ closers = {} /\ txOpen = FALSE /\ writer = None
    /\ thread = [t \in Threads |-> Idle]
    /\ calls = [t \in Threads |-> MaxCalls]
    /\ slot = [x \in Txs |-> "unborn"] /\ lock = [x \in Txs |-> None]
    /\ aborted = [x \in Txs |-> FALSE] /\ late = [x \in Txs |-> FALSE]
    /\ worker = [x \in Txs |-> "none"]
    /\ cmd = [x \in Txs |-> None] /\ reply = [x \in Txs |-> None]
    /\ batch = [x \in Txs |-> Empty] /\ saved = [x \in Txs |-> None]
    /\ acked = [x \in Txs |-> {}]

At(t, place) == thread[t].at = place
Go(t, place) == thread' = [thread EXCEPT ![t].at = place]
Return(t) == thread' = [thread EXCEPT ![t] = Idle]

\* A call begins: at a place, on a transaction, or it returns at once.
Call(t) == At(t, "idle") /\ calls[t] > 0 /\ calls' = [calls EXCEPT ![t] = @ - 1]
Enter(t, place, x) == thread' = [thread EXCEPT ![t] = [Idle EXCEPT !.at = place, !.tx = x]]

\* The operation a thread has under way.
OpOf(t) == <<t, calls[t]>>

-----------------------------------------------------------------------------
\* Calls on the engine.

\* read!: a snapshot read while holding inner.read().
ReadCall(t) ==
    /\ Call(t) /\ Enter(t, "r.inner", None)
    /\ UNCHANGED << shared, object, wvars >>

\* write! and compact(): refused while the flag is up; otherwise on to the lock.
WriteCall(t) ==
    /\ Call(t)
    /\ IF txOpen THEN UNCHANGED thread ELSE Enter(t, "w.inner", None)
    /\ UNCHANGED << shared, object, wvars >>

\* inner.read(), and DatabaseClosed when there is nothing inside.
TakeInner(t, from, to) ==
    /\ At(t, from) /\ closers = {}
    /\ IF open THEN readers' = readers \cup {t} /\ Go(t, to)
       ELSE Return(t) /\ UNCHANGED readers
    /\ UNCHANGED << open, closers, txOpen, writer, object, wvars, calls >>

ReadInner(t) == TakeInner(t, "r.inner", "r.body")
WriteInner(t) == TakeInner(t, "w.inner", "w.lock")

ReadBody(t) ==
    /\ At(t, "r.body") /\ Return(t) /\ readers' = readers \ {t}
    /\ UNCHANGED << open, closers, txOpen, writer, object, wvars, calls >>

WriteLock(t) ==
    /\ At(t, "w.lock") /\ writer = None
    /\ writer' = t /\ Go(t, "w.body")
    /\ UNCHANGED << open, readers, closers, txOpen, object, wvars, calls >>

\* The write commits or fails; either way the locks are given back.
WriteBody(t) ==
    /\ At(t, "w.body") /\ Return(t)
    /\ writer' = None /\ readers' = readers \ {t}
    /\ UNCHANGED << open, closers, txOpen, object, wvars, calls >>

\* close(): the check of the flag, queueing for the lock, emptying the option.
CloseCall(t) ==
    /\ Call(t)
    /\ IF txOpen THEN UNCHANGED thread ELSE Enter(t, "c.request", None)
    /\ UNCHANGED << shared, object, wvars >>

CloseRequest(t) ==
    /\ At(t, "c.request") /\ Go(t, "c.wait") /\ closers' = closers \cup {t}
    /\ UNCHANGED << open, readers, txOpen, writer, object, wvars, calls >>

CloseTake(t) ==
    /\ At(t, "c.wait") /\ readers = {} /\ Return(t)
    /\ open' = FALSE /\ closers' = closers \ {t}
    /\ UNCHANGED << readers, txOpen, writer, object, wvars, calls >>

-----------------------------------------------------------------------------
\* begin_transaction: the flag, the read lock, and a worker that answers once
\* it holds the writer lock.

BeginCall(t) ==
    /\ Call(t) /\ \E x \in Txs : slot[x] = "unborn" /\ worker[x] = "none"
    /\ IF txOpen THEN UNCHANGED << thread, txOpen >>
       ELSE txOpen' = TRUE /\ Enter(t, "b.inner", None)
    /\ UNCHANGED << open, readers, closers, writer, object, wvars >>

\* The worker is spawned, or cannot be.
BeginInner(t) ==
    /\ At(t, "b.inner") /\ closers = {}
    /\ \/ /\ open
          /\ \E x \in Txs :
                 /\ worker[x] = "none" /\ worker' = [worker EXCEPT ![x] = "starting"]
                 /\ thread' = [thread EXCEPT ![t].at = "b.wait", ![t].tx = x]
          /\ readers' = readers \cup {t}
       \/ Go(t, "b.undo") /\ UNCHANGED << worker, readers >>
    /\ UNCHANGED << open, closers, txOpen, writer, object, cmd, reply, batch, saved, calls >>

BeginReady(t) ==
    /\ At(t, "b.wait")
    /\ LET x == thread[t].tx IN
       \/ worker[x] = "open" /\ slot' = [slot EXCEPT ![x] = "held"] /\ Return(t)
       \/ worker[x] = "gone" /\ Go(t, "b.undo") /\ UNCHANGED slot
    /\ readers' = readers \ {t}
    /\ UNCHANGED << open, closers, txOpen, writer, lock, aborted, acked, late, wvars, calls >>

BeginUndo(t) ==
    /\ At(t, "b.undo") /\ Return(t) /\ txOpen' = FALSE
    /\ UNCHANGED << open, readers, closers, writer, object, wvars, calls >>

-----------------------------------------------------------------------------
\* in_tx!: every operation of a transaction.

\* check_usable.
OpCall(t, x) ==
    /\ Call(t) /\ slot[x] # "unborn"
    /\ IF aborted[x] THEN UNCHANGED thread ELSE Enter(t, "o.lock", x)
    /\ UNCHANGED << shared, object, wvars >>

\* An argument that does not convert aborts the transaction without the lock.
OpBadArgument(t, x) ==
    /\ Call(t) /\ slot[x] # "unborn" /\ UNCHANGED thread
    /\ aborted' = [aborted EXCEPT ![x] = TRUE]
    /\ UNCHANGED << shared, slot, lock, acked, late, wvars >>

\* Under the mutex: TransactionClosed, or the job is sent; the send fails
\* when the worker is gone.
OpSend(t) ==
    /\ At(t, "o.lock")
    /\ LET x == thread[t].tx IN
       /\ lock[x] = None
       /\ CASE slot[x] = "taken" -> Return(t) /\ UNCHANGED << lock, cmd >>
            [] slot[x] = "held" /\ worker[x] = "gone" -> Go(t, "o.note") /\ UNCHANGED << lock, cmd >>
            [] OTHER -> /\ Go(t, "o.wait")
                        /\ lock' = [lock EXCEPT ![x] = t] /\ cmd' = [cmd EXCEPT ![x] = "run"]
    /\ UNCHANGED << shared, slot, aborted, acked, late, worker, reply, batch, saved, calls >>

\* The answer, or that none will come; the mutex is released with it.
OpReplyWaits(t) ==
    /\ At(t, "o.wait")
    /\ LET x == thread[t].tx IN
       /\ reply[x] # None
       /\ lock' = [lock EXCEPT ![x] = None] /\ reply' = [reply EXCEPT ![x] = None]
       /\ IF reply[x] = "ok" THEN Return(t) /\ acked' = [acked EXCEPT ![x] = @ \cup {OpOf(t)}]
          ELSE Go(t, "o.note") /\ UNCHANGED acked
    /\ UNCHANGED << shared, slot, aborted, late, worker, cmd, batch, saved, calls >>
OpReply(t) ==
    /\ At(t, "o.wait")
    /\ LET x == thread[t].tx IN
       /\ reply[x] # None \/ worker[x] = "gone"
       /\ lock' = [lock EXCEPT ![x] = None] /\ reply' = [reply EXCEPT ![x] = None]
       /\ IF reply[x] = "ok" THEN Return(t) /\ acked' = [acked EXCEPT ![x] = @ \cup {OpOf(t)}]
          ELSE Go(t, "o.note") /\ UNCHANGED acked
    /\ UNCHANGED << shared, slot, aborted, late, worker, cmd, batch, saved, calls >>

\* note_failure.
OpNote(t) ==
    /\ At(t, "o.note") /\ Return(t)
    /\ aborted' = [aborted EXCEPT ![thread[t].tx] = TRUE]
    /\ UNCHANGED << shared, slot, lock, acked, late, wvars, calls >>

-----------------------------------------------------------------------------
\* end(): commit, rollback and drop.

EndCall(t, x, commit) ==
    /\ At(t, "idle") /\ slot[x] = "held"
    /\ thread' = [thread EXCEPT ![t] = [at |-> "e.take", tx |-> x, commit |-> commit]]
    /\ UNCHANGED << shared, object, wvars, calls >>

\* Taking the worker out, or TransactionClosed: the flag is then another's.
EndTakeClears(t) ==
    /\ At(t, "e.take")
    /\ LET x == thread[t].tx IN
       /\ lock[x] = None
       /\ IF slot[x] = "taken" THEN Go(t, "e.flag") /\ UNCHANGED slot
          ELSE slot' = [slot EXCEPT ![x] = "taken"] /\ Go(t, "e.read")
    /\ UNCHANGED << shared, lock, aborted, acked, late, wvars, calls >>
EndTake(t) ==
    /\ At(t, "e.take")
    /\ LET x == thread[t].tx IN
       /\ lock[x] = None
       /\ IF slot[x] = "taken" THEN Return(t) /\ UNCHANGED slot
          ELSE slot' = [slot EXCEPT ![x] = "taken"] /\ Go(t, "e.read")
    /\ UNCHANGED << shared, lock, aborted, acked, late, wvars, calls >>

\* Reading aborted and sending the last command: an aborted transaction is
\* rolled back whatever was asked.
EndSendAsked(t) ==
    /\ At(t, "e.read") /\ Go(t, "e.join")
    /\ cmd' = [cmd EXCEPT ![thread[t].tx] = IF thread[t].commit THEN "commit" ELSE "rollback"]
    /\ UNCHANGED << shared, object, worker, reply, batch, saved, calls >>
EndSend(t) ==
    /\ At(t, "e.read") /\ Go(t, "e.join")
    /\ LET x == thread[t].tx
           keep == thread[t].commit /\ ~aborted[x]
       IN  /\ cmd' = [cmd EXCEPT ![x] = IF keep THEN "commit" ELSE "rollback"]
           /\ late' = [late EXCEPT ![x] =
                  keep /\ \E u \in Threads : At(u, "o.note") /\ thread[u].tx = x]
    /\ UNCHANGED << shared, slot, lock, aborted, acked, worker, reply, batch, saved, calls >>

\* The answer to a commit, and the end of the worker thread.
EndJoin(t) ==
    /\ At(t, "e.join") /\ worker[thread[t].tx] = "gone" /\ Go(t, "e.flag")
    /\ UNCHANGED << shared, object, wvars, calls >>

EndFlag(t) ==
    /\ At(t, "e.flag") /\ Return(t) /\ txOpen' = FALSE
    /\ UNCHANGED << open, readers, closers, writer, object, wvars, calls >>

-----------------------------------------------------------------------------
\* The worker thread of transaction x.

WorkerOpens(x) ==
    /\ worker[x] = "starting"
    /\ \/ writer = None /\ writer' = x /\ worker' = [worker EXCEPT ![x] = "open"]
       \/ writer' = writer /\ worker' = [worker EXCEPT ![x] = "gone"]
    /\ UNCHANGED << open, readers, closers, txOpen, object, cmd, reply, batch, saved, thread, calls >>

\* A job succeeds, fails half way, or panics: unwinding drops the batch.
WorkerRuns(x) ==
    /\ worker[x] = "open" /\ cmd[x] = "run"
    /\ LET op == OpOf(lock[x]) IN
       \/ /\ batch' = [batch EXCEPT ![x].done = @ \cup {op}]
          /\ reply' = [reply EXCEPT ![x] = "ok"] /\ UNCHANGED << worker, writer >>
       \/ /\ batch' = [batch EXCEPT ![x].half = @ \cup {op}]
          /\ reply' = [reply EXCEPT ![x] = "err"] /\ UNCHANGED << worker, writer >>
       \/ /\ worker' = [worker EXCEPT ![x] = "gone"] /\ writer' = None
          /\ UNCHANGED << batch, reply >>
    /\ cmd' = [cmd EXCEPT ![x] = None]
    /\ UNCHANGED << open, readers, closers, txOpen, object, saved, thread, calls >>

\* Commit succeeds or fails in the storage, rollback drops the batch; the
\* writer lock goes with it and the thread ends.
WorkerEnds(x) ==
    /\ worker[x] = "open" /\ cmd[x] \in {"commit", "rollback"}
    /\ worker' = [worker EXCEPT ![x] = "gone"] /\ writer' = None
    /\ \/ cmd[x] = "commit" /\ saved' = [saved EXCEPT ![x] = batch[x]]
       \/ UNCHANGED saved
    /\ cmd' = [cmd EXCEPT ![x] = None]
    /\ UNCHANGED << open, readers, closers, txOpen, object, reply, batch, thread, calls >>

-----------------------------------------------------------------------------
\* The steps that are not a thread's own decision to call.
Proceed(t) ==
    \/ ReadInner(t) \/ WriteInner(t) \/ ReadBody(t) \/ WriteLock(t) \/ WriteBody(t)
    \/ CloseRequest(t) \/ CloseTake(t)
    \/ BeginInner(t) \/ BeginReady(t) \/ BeginUndo(t)
    \/ OpSend(t) \/ OpReply(t) \/ OpNote(t)
    \/ EndTake(t) \/ EndSend(t) \/ EndJoin(t) \/ EndFlag(t)
Work(x) == WorkerOpens(x) \/ WorkerRuns(x) \/ WorkerEnds(x)
End(t) == \E x \in Txs, commit \in BOOLEAN : EndCall(t, x, commit)

Next ==
    \/ \E t \in Threads :
           \/ ReadCall(t) \/ WriteCall(t) \/ CloseCall(t) \/ BeginCall(t)
           \/ \E x \in Txs : OpCall(t, x) \/ OpBadArgument(t, x)
           \/ End(t)
           \/ Proceed(t)
    \/ \E x \in Txs : Work(x)

Spec == Init /\ [][Next]_vars

\* Threads that are in a call and workers are scheduled; a host that has a
\* transaction open and a thread with nothing else to do ends it.
FairSpec ==
    /\ Spec
    /\ \A t \in Threads : WF_vars(Proceed(t)) /\ WF_vars(End(t))
    /\ \A x \in Txs : WF_vars(Work(x))

-----------------------------------------------------------------------------
\* Who has the flag: a thread inside begin_transaction, a transaction whose
\* worker is in its slot, or the thread that took the worker out.
BeginsFlag(t) == thread[t].at \in {"b.inner", "b.wait", "b.undo"}
EndsFlag(t) == thread[t].at \in {"e.read", "e.join", "e.flag"}
Takes(t, x) == thread[t].tx = x /\ EndsFlag(t)
FlagOwners ==
    {t \in Threads : BeginsFlag(t) \/ EndsFlag(t)} \cup {x \in Txs : slot[x] = "held"}

\* The flag is up exactly while it has an owner, and it never has two; every
\* live worker belongs to that owner.
FlagInv ==
    /\ txOpen = (FlagOwners # {})
    /\ \A a, b \in FlagOwners : a = b
    /\ \A x \in Txs : worker[x] \in {"starting", "open"} =>
           \/ slot[x] = "held"
           \/ \E t \in Threads : thread[t].tx = x /\ thread[t].at \in {"b.wait", "e.read", "e.join"}

\* A thread inside a call on a transaction is on one that exists; it exists
\* once its worker has answered.
PlaceInv ==
    /\ \A t \in Threads :
           /\ thread[t].at \in {"b.wait", "o.lock", "o.wait", "o.note", "e.take", "e.read", "e.join"} => thread[t].tx \in Txs
           /\ At(t, "b.wait") => slot[thread[t].tx] = "unborn"
           /\ thread[t].at \in {"o.lock", "e.take"} => slot[thread[t].tx] # "unborn"
    /\ \A x \in Txs :
           /\ worker[x] = "none" => slot[x] = "unborn"
           /\ slot[x] = "held" => worker[x] \in {"open", "gone"}

\* Where each transaction's mutex, command, answer and result can be in
\* relation to each other.
TxInv ==
    \A x \in Txs :
        /\ \A t \in Threads : lock[x] = t <=> (At(t, "o.wait") /\ thread[t].tx = x)
        /\ lock[x] # None => slot[x] = "held"
        /\ cmd[x] = "run" => lock[x] # None /\ reply[x] = None /\ worker[x] = "open"
        /\ reply[x] # None => lock[x] # None
        /\ cmd[x] \in {"commit", "rollback"} => slot[x] = "taken"
        /\ \A t \in Threads : thread[t].tx = x /\ At(t, "e.read") =>
               slot[x] = "taken" /\ cmd[x] = None /\ saved[x] = None
        /\ saved[x] # None => slot[x] = "taken" /\ saved[x] = batch[x]

\* A half-done operation is known to the transaction or about to be, and an
\* acknowledged one is in the batch.
BatchInv ==
    \A x \in Txs :
        /\ acked[x] \subseteq batch[x].done
        /\ reply[x] = "ok" => OpOf(lock[x]) \in batch[x].done
        /\ batch[x].half # {} =>
               aborted[x] \/ reply[x] = "err" \/ \E t \in Threads : At(t, "o.note") /\ thread[t].tx = x
        /\ cmd[x] = "commit" \/ saved[x] # None => batch[x].half = {} \/ late[x]

\* The inductive invariant: the types, who owns the flag, where the parties of
\* a transaction are, and what its batch holds.
SessionInv == TypeOK /\ PlaceInv /\ FlagInv /\ TxInv /\ BatchInv

\* While a worker has or is about to have a write transaction open the flag is
\* up, so that the engine's own writes are refused and not queued behind it
\* (begin_transaction and end(), across late and repeated commits, rollbacks
\* and drops of earlier transactions).
FlagCoversWorker == \A x \in Txs : worker[x] \in {"starting", "open"} => txOpen

\* What commit makes durable contains every operation that returned Ok to a
\* caller, and nothing of an operation that failed, unless its failure had
\* not been noted when commit read the flag (transaction.rs, in_tx! notes it
\* after releasing the worker).
CommitWhole ==
    \A x \in Txs : saved[x] # None =>
        /\ acked[x] \subseteq saved[x].done
        /\ saved[x].half = {} \/ late[x]

\* Every call returns, unless a close() is queued: then a host that reads
\* while its own transaction is open can wait behind the close, which waits
\* for a write, which waits for the transaction.
CallsReturn == \A t \in Threads : ~At(t, "idle") ~> (At(t, "idle") \/ closers # {})

=============================================================================
