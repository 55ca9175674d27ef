-------------------------- MODULE FfiSessionProofs --------------------------
(***************************************************************************)
(* Proofs about FfiSession, for any number of threads, transactions and    *)
(* calls.  SessionInv is inductive: TypeOK, PlaceInv (a caller is on a     *)
(* transaction that exists), FlagInv (tx_open has exactly one owner, and   *)
(* live workers belong to it), TxInv (mutex, command, answer and result)   *)
(* and BatchInv (what the batch holds and who knows of a failure).         *)
(*                                                                         *)
(* One lemma per action.  Actions first say where the thread goes          *)
(* (Moves), so that the steps after them need not unfold thread'.          *)
(***************************************************************************)
EXTENDS FfiSession, TLAPS

\* A step moves thread t and no other.
ThreadMap == [Threads -> [at : Places, tx : Txs \cup {None}, commit : BOOLEAN]]
Moves(t) == thread' \in ThreadMap /\ \A u \in Threads \ {t} : thread'[u] = thread[u]
\* The places of calls on the engine itself.
Outside == {"idle", "w.inner", "w.lock", "w.body", "r.inner", "r.body", "c.request", "c.wait"}

\* What Go, Return, Enter, UNCHANGED thread and Call do to thread and calls.
LEMMA GoFacts ==
    ASSUME TypeOK, NEW t \in Threads, NEW p \in Places, Go(t, p)
    PROVE  /\ Moves(t) /\ thread'[t].at = p /\ thread'[t].tx = thread[t].tx
           /\ thread'[t].commit = thread[t].commit
BY DEF Go, TypeOK, Moves, ThreadMap

LEMMA ReturnFacts ==
    ASSUME TypeOK, NEW t \in Threads, Return(t)
    PROVE  Moves(t) /\ thread'[t].at = "idle" /\ thread'[t].tx = None
BY DEF Return, Idle, TypeOK, Moves, ThreadMap, Places

LEMMA EnterFacts ==
    ASSUME TypeOK, NEW t \in Threads, NEW p \in Places, NEW x \in Txs \cup {None}, Enter(t, p, x)
    PROVE  Moves(t) /\ thread'[t].at = p /\ thread'[t].tx = x
BY DEF Enter, Idle, TypeOK, Moves, ThreadMap

LEMMA StayFacts ==
    ASSUME TypeOK, NEW t \in Threads, UNCHANGED thread
    PROVE  Moves(t) /\ thread'[t] = thread[t]
BY DEF TypeOK, Moves, ThreadMap

LEMMA CallFacts ==
    ASSUME TypeOK, NEW t \in Threads, Call(t)
    PROVE  /\ thread[t].at = "idle" /\ calls' \in [Threads -> 0..MaxCalls]
           /\ \A u \in Threads \ {t} : calls'[u] = calls[u]
BY FfiAssumption DEF Call, At, TypeOK

\* A thread that neither waits for an answer nor has a failure to note
\* cannot disturb what is known of the batches.
LEMMA BatchKept ==
    ASSUME SessionInv, NEW t \in Threads, Moves(t), thread[t].at \notin {"o.wait", "o.note"},
           UNCHANGED << lock, aborted, acked, late, batch, reply, cmd, saved >>,
           \A u \in Threads \ {t} : calls'[u] = calls[u]
    PROVE  BatchInv'
<1>1. ASSUME NEW x \in Txs, lock[x] # None  PROVE OpOf(lock[x])' = OpOf(lock[x])
  <2>1. lock[x] \in Threads
    BY <1>1 DEF SessionInv, TypeOK
  <2>2. thread[lock[x]].at = "o.wait"
    BY <1>1, <2>1 DEF SessionInv, TxInv, At
  <2>3. lock[x] \in Threads \ {t}
    BY <2>1, <2>2
  <2>4. QED
    BY <2>3 DEF OpOf
<1>2. ASSUME NEW u \in Threads, thread[u].at = "o.note"  PROVE thread'[u] = thread[u]
  BY <1>2 DEF Moves
<1>3. ASSUME NEW x \in Txs, reply[x] = "ok"  PROVE OpOf(lock[x])' \in batch[x].done
  BY <1>1, <1>3, FfiAssumption DEF SessionInv, BatchInv, TxInv
<1>4. ASSUME NEW x \in Txs, batch[x].half # {}
      PROVE  aborted[x] \/ reply[x] = "err" \/ \E u \in Threads : thread'[u].at = "o.note" /\ thread'[u].tx = x
  BY <1>2, <1>4 DEF SessionInv, BatchInv, At
<1>5. QED
  BY <1>3, <1>4 DEF SessionInv, BatchInv, At

\* Calls on the engine itself touch no transaction.
LEMMA Quiet ==
    ASSUME SessionInv, NEW t \in Threads, Moves(t), thread[t].at \in Outside, thread'[t].at \in Outside,
           UNCHANGED << txOpen, object, wvars >>, \A u \in Threads \ {t} : calls'[u] = calls[u]
    PROVE  PlaceInv' /\ FlagInv' /\ TxInv' /\ BatchInv'
<1>1. PlaceInv'
  BY DEF SessionInv, PlaceInv, Moves, Outside, object, wvars, At
<1>2. FlagOwners' = FlagOwners
  BY DEF Moves, Outside, object, wvars, FlagOwners, BeginsFlag, EndsFlag
<1>3. FlagInv'
  BY <1>2 DEF SessionInv, FlagInv, Moves, Outside, object, wvars
<1>4. TxInv'
  BY DEF SessionInv, TxInv, Moves, Outside, object, wvars, At
<1>5. BatchInv'
  BY BatchKept DEF Outside, object, wvars
<1>6. QED  BY <1>1, <1>3, <1>4, <1>5

\* ReadCall keeps the inductive invariant.
LEMMA ReadCallSafe ==
    ASSUME SessionInv, NEW t \in Threads, ReadCall(t)
    PROVE  SessionInv'
<1>1. Moves(t) /\ thread'[t].at \in Outside
  BY EnterFacts, Zenon DEF SessionInv, ReadCall, Outside, Places
<1>2. TypeOK'
  BY <1>1, CallFacts DEF SessionInv, ReadCall, TypeOK, Moves, ThreadMap, shared, object, wvars, Batch
<1>3. QED
  BY <1>1, <1>2, CallFacts, Quiet DEF SessionInv, ReadCall, Outside, shared

\* WriteCall keeps the inductive invariant.
LEMMA WriteCallSafe ==
    ASSUME SessionInv, NEW t \in Threads, WriteCall(t)
    PROVE  SessionInv'
<1>1. Moves(t) /\ thread'[t].at \in Outside
  <2>1. CASE txOpen
    BY <2>1, StayFacts, CallFacts DEF SessionInv, WriteCall, Outside
  <2>2. CASE ~ txOpen
    BY <2>2, EnterFacts DEF SessionInv, WriteCall, Outside, Places
  <2>3. QED  BY <2>1, <2>2
<1>2. TypeOK'
  BY <1>1, CallFacts DEF SessionInv, WriteCall, TypeOK, Moves, ThreadMap, shared, object, wvars
<1>3. QED
  BY <1>1, <1>2, CallFacts, Quiet DEF SessionInv, WriteCall, Outside, shared

\* CloseCall keeps the inductive invariant.
LEMMA CloseCallSafe ==
    ASSUME SessionInv, NEW t \in Threads, CloseCall(t)
    PROVE  SessionInv'
<1>1. Moves(t) /\ thread'[t].at \in Outside
  <2>1. CASE txOpen
    BY <2>1, StayFacts, CallFacts DEF SessionInv, CloseCall, Outside
  <2>2. CASE ~ txOpen
    BY <2>2, EnterFacts DEF SessionInv, CloseCall, Outside, Places
  <2>3. QED  BY <2>1, <2>2
<1>2. TypeOK'
  BY <1>1, CallFacts DEF SessionInv, CloseCall, TypeOK, Moves, ThreadMap, shared, object, wvars
<1>3. QED
  BY <1>1, <1>2, CallFacts, Quiet DEF SessionInv, CloseCall, Outside, shared

\* TakeInner keeps the inductive invariant.
LEMMA TakeInnerSafe ==
    ASSUME SessionInv, NEW t \in Threads, NEW p \in Outside, NEW q \in Outside, TakeInner(t, p, q)
    PROVE  SessionInv'
<1>1. Moves(t) /\ thread'[t].at \in Outside
  <2>1. CASE open
    BY <2>1, GoFacts DEF SessionInv, TakeInner, Outside, Places
  <2>2. CASE ~ open
    BY <2>2, ReturnFacts DEF SessionInv, TakeInner, Outside
  <2>3. QED  BY <2>1, <2>2
<1>2. TypeOK'
  BY <1>1 DEF SessionInv, TakeInner, TypeOK, Moves, ThreadMap, object, wvars
<1>3. QED
  BY <1>1, <1>2, Quiet DEF SessionInv, TakeInner, At

\* ReadBody keeps the inductive invariant.
LEMMA ReadBodySafe ==
    ASSUME SessionInv, NEW t \in Threads, ReadBody(t)
    PROVE  SessionInv'
<1>1. Moves(t) /\ thread'[t].at \in Outside
  BY ReturnFacts DEF SessionInv, ReadBody, Outside, Places
<1>2. TypeOK'
  BY <1>1 DEF SessionInv, ReadBody, TypeOK, Moves, ThreadMap, object, wvars
<1>3. QED
  BY <1>1, <1>2, Quiet DEF SessionInv, ReadBody, At, Outside

\* WriteLock keeps the inductive invariant.
LEMMA WriteLockSafe ==
    ASSUME SessionInv, NEW t \in Threads, WriteLock(t)
    PROVE  SessionInv'
<1>1. Moves(t) /\ thread'[t].at \in Outside
  BY GoFacts DEF SessionInv, WriteLock, Outside, Places
<1>2. TypeOK'
  BY <1>1 DEF SessionInv, WriteLock, TypeOK, Moves, ThreadMap, object, wvars
<1>3. QED
  BY <1>1, <1>2, Quiet DEF SessionInv, WriteLock, At, Outside

\* WriteBody keeps the inductive invariant.
LEMMA WriteBodySafe ==
    ASSUME SessionInv, NEW t \in Threads, WriteBody(t)
    PROVE  SessionInv'
<1>1. Moves(t) /\ thread'[t].at \in Outside
  BY ReturnFacts DEF SessionInv, WriteBody, Outside, Places
<1>2. TypeOK'
  BY <1>1 DEF SessionInv, WriteBody, TypeOK, Moves, ThreadMap, object, wvars
<1>3. QED
  BY <1>1, <1>2, Quiet DEF SessionInv, WriteBody, At, Outside

\* CloseRequest keeps the inductive invariant.
LEMMA CloseRequestSafe ==
    ASSUME SessionInv, NEW t \in Threads, CloseRequest(t)
    PROVE  SessionInv'
<1>1. Moves(t) /\ thread'[t].at \in Outside
  BY GoFacts DEF SessionInv, CloseRequest, Outside, Places
<1>2. TypeOK'
  BY <1>1 DEF SessionInv, CloseRequest, TypeOK, Moves, ThreadMap, object, wvars
<1>3. QED
  BY <1>1, <1>2, Quiet DEF SessionInv, CloseRequest, At, Outside

\* CloseTake keeps the inductive invariant.
LEMMA CloseTakeSafe ==
    ASSUME SessionInv, NEW t \in Threads, CloseTake(t)
    PROVE  SessionInv'
<1>1. Moves(t) /\ thread'[t].at \in Outside
  BY ReturnFacts DEF SessionInv, CloseTake, Outside, Places
<1>2. TypeOK'
  BY <1>1 DEF SessionInv, CloseTake, TypeOK, Moves, ThreadMap, object, wvars
<1>3. QED
  BY <1>1, <1>2, Quiet DEF SessionInv, CloseTake, At, Outside

\* BeginCall keeps the inductive invariant.
LEMMA BeginCallSafe ==
    ASSUME SessionInv, NEW t \in Threads, BeginCall(t)
    PROVE  SessionInv'
<1> USE DEF object, wvars
<1>1. CASE txOpen
  <2>1. Moves(t) /\ thread'[t] = thread[t]
    BY <1>1, StayFacts DEF SessionInv, BeginCall
  <2>2. TypeOK'
    BY <1>1, <2>1, CallFacts DEF SessionInv, BeginCall, TypeOK, Moves, ThreadMap
  <2>3. QED
    BY <1>1, <2>1, <2>2, CallFacts, Quiet DEF SessionInv, BeginCall, Outside
<1>2. CASE ~ txOpen
  <2>1. Moves(t) /\ thread'[t].at = "b.inner" /\ thread'[t].tx = None /\ thread[t].at = "idle" /\ txOpen' = TRUE
    BY <1>2, EnterFacts, CallFacts DEF SessionInv, BeginCall, Places
  <2>2. TypeOK'
    BY <1>2, <2>1, CallFacts DEF SessionInv, BeginCall, TypeOK, Moves, ThreadMap
  <2>3. PlaceInv'
    BY <2>1 DEF SessionInv, PlaceInv, BeginCall, Moves, At
  <2>4. FlagInv'
    <3>1. FlagOwners = {}
      BY <1>2 DEF SessionInv, FlagInv
    <3>2. FlagOwners' = {t}
      BY <2>1, <3>1 DEF BeginCall, Moves, FlagOwners, BeginsFlag, EndsFlag
    <3>3. txOpen' = (FlagOwners' # {})
      BY <2>1, <3>2
    <3>4. \A x \in Txs : worker'[x] \notin {"starting", "open"}
      BY <3>1 DEF SessionInv, FlagInv, FlagOwners, BeginsFlag, EndsFlag, BeginCall
    <3>5. QED
      BY <3>2, <3>3, <3>4 DEF FlagInv
  <2>5. TxInv'
    BY <2>1 DEF SessionInv, TxInv, BeginCall, Moves, At
  <2>6. BatchInv'
    BY <2>1, CallFacts, BatchKept DEF SessionInv, BeginCall
  <2>7. QED  BY <2>2, <2>3, <2>4, <2>5, <2>6 DEF SessionInv
<1>3. QED  BY <1>1, <1>2

\* BeginInner keeps the inductive invariant.
LEMMA BeginInnerSafe ==
    ASSUME SessionInv, NEW t \in Threads, BeginInner(t)
    PROVE  SessionInv'
<1> USE DEF object
<1>1. CASE Go(t, "b.undo") /\ UNCHANGED << worker, readers >>
  <2>1. Moves(t) /\ thread'[t].at = "b.undo" /\ thread[t].at = "b.inner"
    BY <1>1, GoFacts DEF SessionInv, BeginInner, Places, At
  <2>2. TypeOK'
    BY <1>1, <2>1 DEF SessionInv, BeginInner, TypeOK, Moves, ThreadMap
  <2>3. PlaceInv'
    BY <1>1, <2>1 DEF SessionInv, PlaceInv, BeginInner, Moves, At
  <2>4. FlagOwners' = FlagOwners
    BY <2>1 DEF BeginInner, Moves, FlagOwners, BeginsFlag, EndsFlag
  <2>5. FlagInv'
    BY <1>1, <2>1, <2>4 DEF SessionInv, FlagInv, BeginInner, Moves
  <2>6. TxInv'
    BY <1>1, <2>1 DEF SessionInv, TxInv, BeginInner, Moves, At
  <2>7. BatchInv'
    BY <2>1, BatchKept DEF BeginInner
  <2>8. QED  BY <2>2, <2>3, <2>5, <2>6, <2>7 DEF SessionInv
<1>2. ASSUME NEW x \in Txs, worker[x] = "none", worker' = [worker EXCEPT ![x] = "starting"],
             thread' = [thread EXCEPT ![t].at = "b.wait", ![t].tx = x], readers' = readers \cup {t}
      PROVE  SessionInv'
  <2> DEFINE r == [thread[t] EXCEPT !.at = "b.wait", !.tx = x]
  <2>0. thread[t].at = "b.inner" /\ UNCHANGED << open, closers, txOpen, writer, object, cmd, reply, batch, saved, calls >>
    BY DEF BeginInner, At
  <2>1. Moves(t) /\ thread'[t].at = "b.wait" /\ thread'[t].tx = x
    <3>1. r \in [at : Places, tx : Txs \cup {None}, commit : BOOLEAN] /\ r.at = "b.wait" /\ r.tx = x
      BY DEF SessionInv, TypeOK, Places
    <3>2. thread' = [thread EXCEPT ![t] = r]
      BY <1>2 DEF SessionInv, TypeOK
    <3>3. QED
      BY <3>1, <3>2 DEF SessionInv, TypeOK, Moves, ThreadMap
  <2>2. worker' \in [Txs -> {"none", "starting", "open", "gone"}] /\ worker'[x] = "starting" /\ \A y \in Txs \ {x} : worker'[y] = worker[y]
    BY <1>2 DEF SessionInv, TypeOK
  <2>3. TypeOK'
    BY <1>2, <2>0, <2>1, <2>2 DEF SessionInv, TypeOK, Moves, ThreadMap
  <2>4. PlaceInv'
    <3>1. slot[x] = "unborn"
      BY <1>2 DEF SessionInv, PlaceInv
    <3>2. QED
      BY <2>0, <2>1, <2>2, <3>1 DEF SessionInv, PlaceInv, Moves, At
  <2>5. FlagInv'
    <3>1. FlagOwners' = FlagOwners
      BY <2>0, <2>1 DEF Moves, FlagOwners, BeginsFlag, EndsFlag
    <3>2. \A y \in Txs : worker'[y] \in {"starting", "open"} =>
              \/ slot'[y] = "held"
              \/ \E u \in Threads : thread'[u].tx = y /\ thread'[u].at \in {"b.wait", "e.read", "e.join"}
      BY <2>0, <2>1, <2>2 DEF SessionInv, FlagInv, Moves
    <3>3. QED
      BY <2>0, <3>1, <3>2 DEF SessionInv, FlagInv
  <2>6. TxInv'
    <3>1. cmd[x] # "run"
      BY <1>2 DEF SessionInv, TxInv
    <3>2. QED
      BY <2>0, <2>1, <2>2, <3>1 DEF SessionInv, TxInv, Moves, At
  <2>7. BatchInv'
    BY <2>0, <2>1, BatchKept
  <2>8. QED  BY <2>3, <2>4, <2>5, <2>6, <2>7 DEF SessionInv
<1>3. QED  BY <1>1, <1>2 DEF BeginInner

\* The flag passes from the thread in begin_transaction to the transaction.
LEMMA BeginReadySafe ==
    ASSUME SessionInv, NEW t \in Threads, BeginReady(t)
    PROVE  SessionInv'
<1> DEFINE x == thread[t].tx
<1>1. x \in Txs /\ slot[x] = "unborn" /\ thread[t].at = "b.wait"
  BY DEF SessionInv, PlaceInv, BeginReady, At
<1>2. FlagOwners = {t} /\ txOpen
  <2>1. t \in FlagOwners
    BY <1>1 DEF FlagOwners, BeginsFlag
  <2>2. FlagOwners = {t}
    BY <2>1 DEF SessionInv, FlagInv
  <2>3. txOpen
    BY <2>1 DEF SessionInv, FlagInv
  <2>4. QED  BY <2>2, <2>3
<1>3. CASE worker[x] = "open" /\ slot' = [slot EXCEPT ![x] = "held"] /\ Return(t)
  <2> HIDE DEF x
  <2>1. Moves(t) /\ thread'[t].at = "idle"
    BY <1>3, ReturnFacts DEF SessionInv
  <2>2. TypeOK'
    BY <1>1, <1>3, <2>1 DEF SessionInv, BeginReady, TypeOK, Moves, ThreadMap, wvars
  <2>3. slot'[x] = "held" /\ \A y \in Txs \ {x} : slot'[y] = slot[y]
    BY <1>1, <1>3 DEF SessionInv, TypeOK
  <2>4. \A u \in Threads \ {t} : thread[u].at # "b.wait"
    BY <1>2 DEF FlagOwners, BeginsFlag
  <2>5. PlaceInv'
    BY <1>1, <1>3, <2>1, <2>3, <2>4 DEF SessionInv, PlaceInv, BeginReady, Moves, At, wvars
  <2>6. FlagOwners' = {x}
    BY <1>1, <1>2, <2>1, <2>3, FfiAssumption DEF FlagOwners, Moves, BeginsFlag, EndsFlag
  <2>7. FlagInv'
    <3>1. ASSUME NEW y \in Txs, y # x, worker[y] \in {"starting", "open"}  PROVE FALSE
      BY <1>1, <1>2, <3>1, FfiAssumption DEF x, SessionInv, FlagInv, FlagOwners, BeginsFlag, EndsFlag
    <3>2. QED
      BY <1>2, <2>3, <2>6, <3>1 DEF FlagInv, BeginReady, wvars
  <2>8. TxInv'
    BY <1>1, <2>1, <2>3 DEF SessionInv, TxInv, BeginReady, Moves, At, wvars
  <2>9. BatchInv'
    BY <1>1, <2>1, BatchKept DEF BeginReady, wvars
  <2>10. QED  BY <2>2, <2>5, <2>7, <2>8, <2>9 DEF SessionInv
<1>4. CASE worker[x] = "gone" /\ Go(t, "b.undo") /\ UNCHANGED slot
  <2> HIDE DEF x
  <2>1. Moves(t) /\ thread'[t].at = "b.undo"
    BY <1>4, GoFacts DEF SessionInv, Places
  <2>2. TypeOK'
    BY <1>4, <2>1 DEF SessionInv, BeginReady, TypeOK, Moves, ThreadMap, wvars
  <2>3. PlaceInv'
    BY <1>4, <2>1 DEF SessionInv, PlaceInv, BeginReady, Moves, At, wvars
  <2>4. FlagOwners' = FlagOwners
    BY <1>1, <1>4, <2>1 DEF FlagOwners, Moves, BeginsFlag, EndsFlag
  <2>5. FlagInv'
    BY <1>1, <1>4, <2>1, <2>4 DEF x, SessionInv, FlagInv, BeginReady, Moves, wvars
  <2>6. TxInv'
    BY <1>1, <1>4, <2>1 DEF SessionInv, TxInv, BeginReady, Moves, At, wvars
  <2>7. BatchInv'
    BY <1>1, <2>1, BatchKept DEF BeginReady, wvars
  <2>8. QED  BY <2>2, <2>3, <2>5, <2>6, <2>7 DEF SessionInv
<1>5. QED  BY <1>3, <1>4 DEF BeginReady

\* begin_transaction that fails and the end of end() put the flag down: it is
\* theirs.
LEMMA FlagDown ==
    ASSUME SessionInv, NEW t \in Threads, thread[t].at \in {"b.undo", "e.flag"}, Return(t), txOpen' = FALSE,
           UNCHANGED << open, readers, closers, writer, object, wvars, calls >>
    PROVE  SessionInv'
<1> USE DEF object, wvars
<1>1. Moves(t) /\ thread'[t].at = "idle"
  BY ReturnFacts DEF SessionInv
<1>2. TypeOK'
  BY <1>1 DEF SessionInv, TypeOK, Moves, ThreadMap
<1>3. PlaceInv'
  BY <1>1 DEF SessionInv, PlaceInv, Moves, At
<1>4. FlagOwners = {t}
  BY DEF SessionInv, FlagInv, FlagOwners, BeginsFlag, EndsFlag
<1>5. FlagOwners' = {}
  BY <1>1, <1>4, FfiAssumption DEF FlagOwners, Moves, BeginsFlag, EndsFlag
<1>6. FlagInv'
  <2>1. ASSUME NEW x \in Txs, worker[x] \in {"starting", "open"}  PROVE FALSE
    BY <1>4, <2>1, FfiAssumption DEF SessionInv, FlagInv, FlagOwners, BeginsFlag, EndsFlag
  <2>2. QED
    BY <1>5, <2>1 DEF FlagInv
<1>7. TxInv'
  BY <1>1 DEF SessionInv, TxInv, Moves, At
<1>8. BatchInv'
  BY <1>1, BatchKept
<1>9. QED  BY <1>2, <1>3, <1>6, <1>7, <1>8 DEF SessionInv

\* OpCall keeps the inductive invariant.
LEMMA OpCallSafe ==
    ASSUME SessionInv, NEW t \in Threads, NEW x \in Txs, OpCall(t, x)
    PROVE  SessionInv'
<1> USE DEF shared, object, wvars
<1>1. CASE aborted[x]
  <2>1. Moves(t) /\ thread'[t] = thread[t]
    BY <1>1, StayFacts DEF SessionInv, OpCall
  <2>2. TypeOK'
    BY <2>1, CallFacts DEF SessionInv, OpCall, TypeOK, Moves, ThreadMap
  <2>3. QED
    BY <2>1, <2>2, CallFacts, Quiet DEF SessionInv, OpCall, Outside
<1>2. CASE ~ aborted[x]
  <2>1. Moves(t) /\ thread'[t].at = "o.lock" /\ thread'[t].tx = x
    BY <1>2, EnterFacts DEF SessionInv, OpCall, Places
  <2>2. thread[t].at = "idle" /\ slot[x] # "unborn" /\ UNCHANGED << shared, object, wvars >>
    BY CallFacts DEF SessionInv, OpCall
  <2>3. TypeOK'
    BY <2>1, <2>2, CallFacts DEF SessionInv, OpCall, TypeOK, Moves, ThreadMap
  <2>4. PlaceInv'
    BY <2>1, <2>2 DEF SessionInv, PlaceInv, Moves, At
  <2>5. FlagOwners' = FlagOwners
    BY <2>1, <2>2 DEF FlagOwners, Moves, BeginsFlag, EndsFlag
  <2>6. FlagInv'
    BY <2>1, <2>2, <2>5 DEF SessionInv, FlagInv, Moves
  <2>7. TxInv'
    BY <2>1, <2>2 DEF SessionInv, TxInv, Moves, At
  <2>8. BatchInv'
    BY <2>1, <2>2, CallFacts, BatchKept DEF SessionInv, OpCall
  <2>9. QED  BY <2>3, <2>4, <2>6, <2>7, <2>8 DEF SessionInv
<1>3. QED  BY <1>1, <1>2

\* Marking a transaction aborted.
LEMMA Aborts ==
    ASSUME SessionInv, NEW t \in Threads, NEW x \in Txs, Moves(t), aborted' = [aborted EXCEPT ![x] = TRUE],
           thread[t].at # "o.wait", thread[t].at = "o.note" => thread[t].tx = x,
           UNCHANGED << lock, acked, late, wvars >>, \A u \in Threads \ {t} : calls'[u] = calls[u]
    PROVE  BatchInv'
<1> USE DEF wvars
<1>1. aborted'[x] /\ \A y \in Txs \ {x} : aborted'[y] = aborted[y]
  BY DEF SessionInv, TypeOK
<1>2. ASSUME NEW y \in Txs, reply[y] = "ok"  PROVE OpOf(lock[y])' \in batch[y].done
  <2>1. lock[y] \in Threads /\ thread[lock[y]].at = "o.wait"
    BY <1>2, FfiAssumption DEF SessionInv, TypeOK, TxInv, At
  <2>2. lock[y] \in Threads \ {t}
    BY <2>1
  <2>3. OpOf(lock[y])' = OpOf(lock[y])
    BY <2>2 DEF OpOf
  <2>4. QED
    BY <1>2, <2>3 DEF SessionInv, BatchInv
<1>3. ASSUME NEW y \in Txs, batch[y].half # {}, y # x
      PROVE  aborted[y] \/ reply[y] = "err" \/ \E u \in Threads : thread'[u].at = "o.note" /\ thread'[u].tx = y
  BY <1>3 DEF SessionInv, BatchInv, At, Moves
<1>4. QED
  BY <1>1, <1>2, <1>3 DEF SessionInv, BatchInv, At

\* OpBadArgument keeps the inductive invariant.
LEMMA OpBadArgumentSafe ==
    ASSUME SessionInv, NEW t \in Threads, NEW x \in Txs, OpBadArgument(t, x)
    PROVE  SessionInv'
<1> USE DEF shared, wvars
<1>1. Moves(t) /\ UNCHANGED << thread, shared, slot, lock, acked, late, wvars >> /\ thread[t].at = "idle"
  BY StayFacts, CallFacts DEF SessionInv, OpBadArgument
<1>2. TypeOK'
  BY <1>1, CallFacts DEF SessionInv, OpBadArgument, TypeOK, Moves, ThreadMap
<1>3. PlaceInv' /\ FlagInv' /\ TxInv'
  BY <1>1 DEF SessionInv, PlaceInv, FlagInv, FlagOwners, BeginsFlag, EndsFlag, TxInv, At
<1>4. BatchInv'
  BY <1>1, CallFacts, Aborts DEF SessionInv, OpBadArgument
<1>5. QED  BY <1>2, <1>3, <1>4 DEF SessionInv

\* OpSend keeps the inductive invariant.
LEMMA OpSendSafe ==
    ASSUME SessionInv, NEW t \in Threads, OpSend(t)
    PROVE  SessionInv'
<1> USE DEF shared
<1> DEFINE x == thread[t].tx
<1>1. x \in Txs /\ slot[x] # "unborn" /\ thread[t].at = "o.lock" /\ lock[x] = None
  BY DEF SessionInv, PlaceInv, OpSend, At
<1>2. UNCHANGED << shared, slot, aborted, acked, late, worker, reply, batch, saved, calls >>
  BY DEF OpSend
<1>3. CASE UNCHANGED << lock, cmd >> /\ (Return(t) \/ Go(t, "o.note"))
  <2> HIDE DEF x
  <2>1. Moves(t) /\ thread'[t].at \in {"idle", "o.note"} /\ (thread'[t].at = "o.note" => thread'[t].tx = x)
    BY <1>3, ReturnFacts, GoFacts DEF SessionInv, Places, x
  <2>2. TypeOK'
    BY <1>2, <1>3, <2>1 DEF SessionInv, TypeOK, Moves, ThreadMap
  <2>3. PlaceInv'
    BY <1>1, <1>2, <2>1 DEF SessionInv, PlaceInv, Moves, At
  <2>4. FlagOwners' = FlagOwners
    BY <1>1, <1>2, <2>1 DEF FlagOwners, Moves, BeginsFlag, EndsFlag
  <2>5. FlagInv'
    BY <1>1, <1>2, <2>1, <2>4 DEF SessionInv, FlagInv, Moves
  <2>6. TxInv'
    BY <1>1, <1>2, <1>3, <2>1 DEF SessionInv, TxInv, Moves, At
  <2>7. BatchInv'
    BY <1>1, <1>2, <1>3, <2>1, BatchKept
  <2>8. QED  BY <2>2, <2>3, <2>5, <2>6, <2>7 DEF SessionInv
<1>4. CASE /\ slot[x] = "held" /\ worker[x] # "gone" /\ Go(t, "o.wait")
           /\ lock' = [lock EXCEPT ![x] = t] /\ cmd' = [cmd EXCEPT ![x] = "run"]
  <2>1. Moves(t) /\ thread'[t].at = "o.wait" /\ thread'[t].tx = x
    BY <1>4, GoFacts DEF SessionInv, Places
  <2> HIDE DEF x
  <2>2. /\ lock'[x] = t /\ \A y \in Txs \ {x} : lock'[y] = lock[y]
        /\ cmd'[x] = "run" /\ \A y \in Txs \ {x} : cmd'[y] = cmd[y]
        /\ lock' \in [Txs -> Threads \cup {None}] /\ cmd' \in [Txs -> {None, "run", "commit", "rollback"}]
    BY <1>1, <1>4 DEF SessionInv, TypeOK
  <2>3. TypeOK'
    BY <1>2, <2>1, <2>2 DEF SessionInv, TypeOK, Moves, ThreadMap
  <2>4. PlaceInv'
    BY <1>1, <1>2, <2>1 DEF SessionInv, PlaceInv, Moves, At
  <2>5. FlagOwners' = FlagOwners
    BY <1>1, <1>2, <2>1 DEF FlagOwners, Moves, BeginsFlag, EndsFlag
  <2>6. FlagInv'
    BY <1>1, <1>2, <2>1, <2>5 DEF SessionInv, FlagInv, Moves
  <2>7. worker[x] = "open" /\ reply[x] = None /\ saved[x] = None
    BY <1>1, <1>4 DEF SessionInv, PlaceInv, TxInv
  <2>8. TxInv'
    BY <1>1, <1>2, <1>4, <2>1, <2>2, <2>7, FfiAssumption DEF SessionInv, TxInv, Moves, At
  <2>9. BatchInv'
    <3>1. ASSUME NEW y \in Txs, reply[y] = "ok"  PROVE OpOf(lock[y])' \in batch[y].done
      BY <1>2, <2>2, <2>7, <3>1, FfiAssumption DEF SessionInv, BatchInv, OpOf
    <3>2. ASSUME NEW y \in Txs, batch[y].half # {}
          PROVE  aborted[y] \/ reply[y] = "err" \/ \E u \in Threads : thread'[u].at = "o.note" /\ thread'[u].tx = y
      BY <1>1, <2>1, <3>2 DEF SessionInv, BatchInv, At, Moves
    <3>3. QED
      BY <1>2, <2>2, <3>1, <3>2 DEF SessionInv, BatchInv, At
  <2>10. QED  BY <2>3, <2>4, <2>6, <2>8, <2>9 DEF SessionInv
<1>5. QED
  <2>1. slot[x] \in {"held", "taken"}
    BY <1>1 DEF SessionInv, TypeOK
  <2>2. QED
    BY <1>3, <1>4, <2>1 DEF OpSend

\* An operation is acknowledged with its writes in the batch; a failed one is
\* still to be noted.
LEMMA OpReplySafe ==
    ASSUME SessionInv, NEW t \in Threads, OpReply(t)
    PROVE  SessionInv'
<1> USE DEF shared
<1> DEFINE x == thread[t].tx
<1>1. x \in Txs /\ thread[t].at = "o.wait" /\ lock[x] = t /\ cmd[x] # "run"
  BY DEF SessionInv, PlaceInv, TxInv, OpReply, At
<1>2. UNCHANGED << shared, slot, aborted, late, worker, cmd, batch, saved, calls >>
  BY DEF OpReply
<1>3. /\ Moves(t) /\ thread'[t].at \in {"idle", "o.note"} /\ (thread'[t].at = "o.note" => thread'[t].tx = x)
      /\ reply[x] = "err" => thread'[t].at = "o.note"
  <2>1. CASE reply[x] = "ok"
    BY <2>1, ReturnFacts DEF SessionInv, OpReply
  <2>2. CASE reply[x] # "ok"
    BY <2>2, GoFacts DEF SessionInv, OpReply, Places
  <2>3. QED  BY <2>1, <2>2
<1>4. lock' = [lock EXCEPT ![x] = None] /\ reply' = [reply EXCEPT ![x] = None]
  BY DEF OpReply
<1>5. acked' \in [Txs -> SUBSET Op] /\ \A y \in Txs : acked'[y] \subseteq batch[y].done
  <2>1. CASE reply[x] = "ok"
    <3>1. acked' = [acked EXCEPT ![x] = @ \cup {OpOf(t)}] /\ OpOf(t) \in batch[x].done
      BY <1>1, <2>1 DEF SessionInv, BatchInv, OpReply
    <3> HIDE DEF x
    <3>2. batch[x].done \subseteq Op
      BY <1>1 DEF SessionInv, TypeOK, Batch
    <3>3. QED
      BY <1>1, <3>1, <3>2 DEF SessionInv, TypeOK, BatchInv
  <2>2. CASE reply[x] # "ok"
    BY <2>2 DEF SessionInv, TypeOK, BatchInv, OpReply
  <2>3. QED  BY <2>1, <2>2
<1> HIDE DEF x
<1>6. /\ lock'[x] = None /\ \A y \in Txs \ {x} : lock'[y] = lock[y]
      /\ reply'[x] = None /\ \A y \in Txs \ {x} : reply'[y] = reply[y]
      /\ lock' \in [Txs -> Threads \cup {None}] /\ reply' \in [Txs -> {None, "ok", "err"}]
  BY <1>1, <1>4 DEF SessionInv, TypeOK
<1>7. TypeOK'
  BY <1>2, <1>3, <1>5, <1>6 DEF SessionInv, TypeOK, Moves, ThreadMap
<1>8. PlaceInv'
  BY <1>1, <1>2, <1>3 DEF SessionInv, PlaceInv, Moves, At
<1>9. FlagOwners' = FlagOwners
  BY <1>1, <1>2, <1>3 DEF FlagOwners, Moves, BeginsFlag, EndsFlag
<1>10. FlagInv'
  BY <1>1, <1>2, <1>3, <1>9 DEF SessionInv, FlagInv, Moves
<1>11. TxInv'
  BY <1>1, <1>2, <1>3, <1>6, FfiAssumption DEF SessionInv, TxInv, Moves, At
<1>12. BatchInv'
  <2>1. ASSUME NEW y \in Txs, reply'[y] = "ok"  PROVE OpOf(lock[y])' \in batch[y].done
    BY <1>2, <1>6, <2>1, FfiAssumption DEF SessionInv, BatchInv, OpOf
  <2>2. ASSUME NEW y \in Txs, batch[y].half # {}
        PROVE  aborted[y] \/ reply'[y] = "err" \/ \E u \in Threads : thread'[u].at = "o.note" /\ thread'[u].tx = y
    BY <1>1, <1>3, <1>6, <2>2 DEF SessionInv, BatchInv, At, Moves
  <2>3. QED
    BY <1>2, <1>5, <2>1, <2>2 DEF SessionInv, BatchInv, At
<1>13. QED  BY <1>7, <1>8, <1>10, <1>11, <1>12 DEF SessionInv

\* OpNote keeps the inductive invariant.
LEMMA OpNoteSafe ==
    ASSUME SessionInv, NEW t \in Threads, OpNote(t)
    PROVE  SessionInv'
<1> USE DEF shared, wvars
<1> DEFINE x == thread[t].tx
<1>1. x \in Txs /\ thread[t].at = "o.note" /\ aborted' = [aborted EXCEPT ![x] = TRUE]
  BY DEF SessionInv, PlaceInv, OpNote, At
<1>2. UNCHANGED << shared, slot, lock, acked, late, wvars, calls >>
  BY DEF OpNote
<1>3. Moves(t) /\ thread'[t].at = "idle"
  BY ReturnFacts DEF SessionInv, OpNote
<1>4. BatchInv'
  BY <1>1, <1>2, <1>3, Aborts
<1> HIDE DEF x
<1>5. TypeOK'
  BY <1>1, <1>2, <1>3 DEF SessionInv, TypeOK, Moves, ThreadMap
<1>6. PlaceInv'
  BY <1>1, <1>2, <1>3 DEF SessionInv, PlaceInv, Moves, At
<1>7. FlagOwners' = FlagOwners
  BY <1>1, <1>2, <1>3 DEF FlagOwners, Moves, BeginsFlag, EndsFlag
<1>8. FlagInv'
  BY <1>1, <1>2, <1>3, <1>7 DEF SessionInv, FlagInv, Moves
<1>9. TxInv'
  BY <1>1, <1>2, <1>3 DEF SessionInv, TxInv, Moves, At
<1>10. QED  BY <1>4, <1>5, <1>6, <1>8, <1>9 DEF SessionInv

\* EndCall keeps the inductive invariant.
LEMMA EndCallSafe ==
    ASSUME SessionInv, NEW t \in Threads, NEW x \in Txs, NEW commit \in BOOLEAN, EndCall(t, x, commit)
    PROVE  SessionInv'
<1> USE DEF shared, object, wvars
<1>1. thread[t].at = "idle" /\ slot[x] = "held" /\ UNCHANGED << shared, object, wvars, calls >>
  BY DEF EndCall, At
<1>2. Moves(t) /\ thread'[t].at = "e.take" /\ thread'[t].tx = x
  BY DEF EndCall, SessionInv, TypeOK, Moves, ThreadMap, Places
<1>3. TypeOK'
  BY <1>1, <1>2 DEF SessionInv, TypeOK, Moves, ThreadMap
<1>4. PlaceInv'
  BY <1>1, <1>2 DEF SessionInv, PlaceInv, Moves, At
<1>5. FlagOwners' = FlagOwners
  BY <1>1, <1>2 DEF FlagOwners, Moves, BeginsFlag, EndsFlag
<1>6. FlagInv'
  BY <1>1, <1>2, <1>5 DEF SessionInv, FlagInv, Moves
<1>7. TxInv'
  BY <1>1, <1>2 DEF SessionInv, TxInv, Moves, At
<1>8. BatchInv'
  BY <1>1, <1>2, BatchKept
<1>9. QED  BY <1>3, <1>4, <1>6, <1>7, <1>8 DEF SessionInv

\* The flag passes from the transaction to the thread that took its worker.
LEMMA EndTakeSafe ==
    ASSUME SessionInv, NEW t \in Threads, EndTake(t)
    PROVE  SessionInv'
<1> USE DEF shared, wvars
<1> DEFINE x == thread[t].tx
<1>1. x \in Txs /\ slot[x] # "unborn" /\ thread[t].at = "e.take" /\ lock[x] = None
  BY DEF SessionInv, PlaceInv, EndTake, At
<1>2. UNCHANGED << shared, lock, aborted, acked, late, wvars, calls >>
  BY DEF EndTake
<1>3. CASE slot[x] = "taken"
  <2>1. Moves(t) /\ thread'[t].at = "idle" /\ UNCHANGED slot
    BY <1>3, ReturnFacts DEF SessionInv, EndTake
  <2> HIDE DEF x
  <2>2. TypeOK'
    BY <1>2, <2>1 DEF SessionInv, TypeOK, Moves, ThreadMap
  <2>3. PlaceInv'
    BY <1>1, <1>2, <2>1 DEF SessionInv, PlaceInv, Moves, At
  <2>4. FlagOwners' = FlagOwners
    BY <1>1, <2>1 DEF FlagOwners, Moves, BeginsFlag, EndsFlag
  <2>5. FlagInv'
    BY <1>1, <1>2, <2>1, <2>4 DEF SessionInv, FlagInv, Moves
  <2>6. TxInv'
    BY <1>1, <1>2, <2>1 DEF SessionInv, TxInv, Moves, At
  <2>7. BatchInv'
    BY <1>1, <1>2, <2>1, BatchKept
  <2>8. QED  BY <2>2, <2>3, <2>5, <2>6, <2>7 DEF SessionInv
<1>4. CASE slot[x] = "held"
  <2>1. Moves(t) /\ thread'[t].at = "e.read" /\ thread'[t].tx = x /\ slot' = [slot EXCEPT ![x] = "taken"]
    BY <1>4, GoFacts DEF SessionInv, EndTake, Places
  <2> HIDE DEF x
  <2>2. /\ slot' \in [Txs -> {"unborn", "held", "taken"}]
        /\ slot'[x] = "taken" /\ \A y \in Txs \ {x} : slot'[y] = slot[y]
    BY <1>1, <2>1 DEF SessionInv, TypeOK
  <2>3. FlagOwners = {x} /\ txOpen
    <3>1. x \in FlagOwners
      BY <1>1, <1>4 DEF FlagOwners
    <3>2. FlagOwners = {x}
      BY <3>1 DEF SessionInv, FlagInv
    <3>3. txOpen
      BY <3>1 DEF SessionInv, FlagInv
    <3>4. QED  BY <3>2, <3>3
  <2>4. TypeOK'
    BY <1>2, <2>1, <2>2 DEF SessionInv, TypeOK, Moves, ThreadMap
  <2>5. \A u \in Threads : thread[u].at # "b.wait"
    BY <1>1, <2>3, FfiAssumption DEF FlagOwners, BeginsFlag
  <2>6. PlaceInv'
    <3>1. worker[x] # "none"
      BY <1>1, <1>4 DEF SessionInv, PlaceInv
    <3>2. QED
      BY <1>1, <1>2, <2>1, <2>2, <2>5, <3>1 DEF SessionInv, PlaceInv, Moves, At
  <2>7. FlagInv'
    <3>1. FlagOwners' = {t}
      BY <1>1, <2>1, <2>2, <2>3, FfiAssumption DEF FlagOwners, Moves, BeginsFlag, EndsFlag
    <3>2. txOpen' = (FlagOwners' # {})
      BY <1>2, <2>3, <3>1
    <3>3. ASSUME NEW y \in Txs, worker[y] \in {"starting", "open"}
          PROVE  \E u \in Threads : thread'[u].tx = y /\ thread'[u].at \in {"b.wait", "e.read", "e.join"}
      <4>1. y = x
        <5>1. CASE slot[y] = "held"
          BY <2>3, <5>1 DEF FlagOwners
        <5>2. ASSUME NEW u \in Threads, thread[u].at \in {"b.wait", "e.read", "e.join"}  PROVE FALSE
          <6>1. u \in FlagOwners
            BY <5>2 DEF FlagOwners, BeginsFlag, EndsFlag
          <6>2. QED
            BY <1>1, <2>3, <6>1, FfiAssumption
        <5>3. QED
          BY <3>3, <5>1, <5>2 DEF SessionInv, FlagInv
      <4>2. QED
        BY <2>1, <4>1
    <3>4. QED
      BY <1>2, <3>1, <3>2, <3>3 DEF FlagInv
  <2>8. cmd[x] = None /\ saved[x] = None
    BY <1>1, <1>4 DEF SessionInv, TypeOK, TxInv
  <2>9. TxInv'
    BY <1>1, <1>2, <2>1, <2>2, <2>8 DEF SessionInv, TxInv, Moves, At
  <2>10. BatchInv'
    BY <1>1, <1>2, <2>1, BatchKept
  <2>11. QED  BY <2>4, <2>6, <2>7, <2>9, <2>10 DEF SessionInv
<1>5. QED
  BY <1>1, <1>3, <1>4 DEF SessionInv, TypeOK

\* A commit is sent for a batch without half-done operations, or late.
LEMMA EndSendSafe ==
    ASSUME SessionInv, NEW t \in Threads, EndSend(t)
    PROVE  SessionInv'
<1> USE DEF shared
<1> DEFINE x == thread[t].tx
<1> DEFINE keep == thread[t].commit /\ ~aborted[x]
<1> DEFINE noting == \E u \in Threads : At(u, "o.note") /\ thread[u].tx = x
<1>1. x \in Txs /\ thread[t].at = "e.read" /\ slot[x] = "taken" /\ saved[x] = None
  BY DEF SessionInv, PlaceInv, TxInv, EndSend, At
<1>2. UNCHANGED << shared, slot, lock, aborted, acked, worker, reply, batch, saved, calls >>
  BY DEF EndSend
<1>3. Moves(t) /\ thread'[t].at = "e.join" /\ thread'[t].tx = x
  BY GoFacts DEF SessionInv, EndSend, Places
<1>4. /\ cmd' = [cmd EXCEPT ![x] = IF keep THEN "commit" ELSE "rollback"]
      /\ late' = [late EXCEPT ![x] = keep /\ noting]
  BY DEF EndSend
<1>5. FlagOwners = {t}
  BY <1>1 DEF SessionInv, FlagInv, FlagOwners, EndsFlag
<1>6. lock[x] = None /\ reply[x] = None
  BY <1>1 DEF SessionInv, TxInv
<1>7. keep /\ ~noting => batch[x].half = {}
  BY <1>1, <1>6, FfiAssumption DEF SessionInv, BatchInv
<1> HIDE DEF x, keep, noting
<1>8. /\ cmd'[x] \in {"commit", "rollback"} /\ (cmd'[x] = "commit" => keep)
      /\ \A y \in Txs \ {x} : cmd'[y] = cmd[y] /\ late'[y] = late[y]
      /\ late'[x] = (keep /\ noting)
  BY <1>1, <1>4 DEF SessionInv, TypeOK
<1>9. cmd' \in [Txs -> {None, "run", "commit", "rollback"}]
  BY <1>1, <1>4 DEF SessionInv, TypeOK
<1>10. late' \in [Txs -> BOOLEAN]
  <2>1. (keep /\ noting) \in BOOLEAN
    BY DEF keep, noting
  <2>2. QED
    BY <1>1, <1>4, <2>1 DEF SessionInv, TypeOK
<1>11. TypeOK'
  BY <1>2, <1>3, <1>9, <1>10 DEF SessionInv, TypeOK, Moves, ThreadMap
<1>12. PlaceInv'
  BY <1>1, <1>2, <1>3 DEF SessionInv, PlaceInv, Moves, At
<1>13. FlagOwners' = FlagOwners
  BY <1>1, <1>2, <1>3 DEF FlagOwners, Moves, BeginsFlag, EndsFlag
<1>14. FlagInv'
  <2>1. \A y \in Txs : worker[y] \in {"starting", "open"} =>
            \/ slot[y] = "held"
            \/ \E u \in Threads : thread'[u].tx = y /\ thread'[u].at \in {"b.wait", "e.read", "e.join"}
    BY <1>1, <1>3 DEF SessionInv, FlagInv, Moves, x
  <2>2. QED
    BY <1>2, <1>13, <2>1 DEF SessionInv, FlagInv
<1>15. TxInv'
  <2>1. \A u \in Threads \ {t} : thread[u].at # "e.read"
    BY <1>5 DEF FlagOwners, EndsFlag
  <2>2. QED
    BY <1>1, <1>2, <1>3, <1>6, <1>8, <2>1, FfiAssumption DEF SessionInv, TxInv, Moves, At
<1>16. BatchInv'
  <2>1. ASSUME NEW y \in Txs, reply[y] = "ok"  PROVE OpOf(lock[y])' \in batch[y].done
    BY <1>2, <2>1 DEF SessionInv, BatchInv, OpOf
  <2>2. ASSUME NEW y \in Txs, batch[y].half # {}
        PROVE  aborted[y] \/ reply[y] = "err" \/ \E u \in Threads : thread'[u].at = "o.note" /\ thread'[u].tx = y
    BY <1>1, <1>3, <2>2 DEF SessionInv, BatchInv, At, Moves
  <2>3. ASSUME NEW y \in Txs, cmd'[y] = "commit" \/ saved[y] # None
        PROVE  batch[y].half = {} \/ late'[y]
    BY <1>1, <1>7, <1>8, <2>3 DEF SessionInv, BatchInv
  <2>4. QED
    BY <1>2, <2>1, <2>2, <2>3 DEF SessionInv, BatchInv, At
<1>17. QED  BY <1>11, <1>12, <1>14, <1>15, <1>16 DEF SessionInv

\* EndJoin keeps the inductive invariant.
LEMMA EndJoinSafe ==
    ASSUME SessionInv, NEW t \in Threads, EndJoin(t)
    PROVE  SessionInv'
<1> USE DEF shared, object, wvars
<1>1. Moves(t) /\ thread'[t].at = "e.flag" /\ thread'[t].tx = thread[t].tx
  BY GoFacts DEF SessionInv, EndJoin, Places
<1>2. thread[t].at = "e.join" /\ worker[thread[t].tx] = "gone" /\ UNCHANGED << shared, object, wvars, calls >>
  BY DEF EndJoin, At
<1>3. TypeOK'
  BY <1>1, <1>2 DEF SessionInv, TypeOK, Moves, ThreadMap
<1>4. PlaceInv'
  BY <1>1, <1>2 DEF SessionInv, PlaceInv, Moves, At
<1>5. FlagOwners' = FlagOwners
  BY <1>1, <1>2 DEF FlagOwners, Moves, BeginsFlag, EndsFlag
<1>6. FlagInv'
  BY <1>1, <1>2, <1>5 DEF SessionInv, FlagInv, Moves
<1>7. TxInv'
  BY <1>1, <1>2 DEF SessionInv, TxInv, Moves, At
<1>8. BatchInv'
  BY <1>1, <1>2, BatchKept
<1>9. QED  BY <1>3, <1>4, <1>6, <1>7, <1>8 DEF SessionInv

\* WorkerOpens keeps the inductive invariant.
LEMMA WorkerOpensSafe ==
    ASSUME SessionInv, NEW x \in Txs, WorkerOpens(x)
    PROVE  SessionInv'
<1> USE DEF object
<1>1. UNCHANGED << open, readers, closers, txOpen, object, cmd, reply, batch, saved, thread, calls >>
  BY DEF WorkerOpens
<1>2. worker[x] = "starting" /\ worker' \in [Txs -> {"none", "starting", "open", "gone"}]
  BY DEF WorkerOpens, SessionInv, TypeOK
<1>3. worker'[x] \in {"open", "gone"} /\ \A y \in Txs \ {x} : worker'[y] = worker[y]
  BY DEF WorkerOpens, SessionInv, TypeOK
<1>4. TypeOK'
  <2>1. writer' \in Threads \cup Txs \cup {None}
    BY DEF WorkerOpens, SessionInv, TypeOK
  <2>2. QED
    BY <1>1, <1>2, <2>1 DEF SessionInv, TypeOK
<1>5. PlaceInv'
  BY <1>1, <1>2, <1>3 DEF SessionInv, PlaceInv, At
<1>6. FlagInv'
  <2>1. FlagOwners' = FlagOwners
    BY <1>1 DEF FlagOwners, BeginsFlag, EndsFlag
  <2>2. QED
    BY <1>1, <1>2, <1>3, <2>1 DEF SessionInv, FlagInv
<1>7. TxInv'
  BY <1>1, <1>2, <1>3 DEF SessionInv, TxInv, At
<1>8. BatchInv'
  BY <1>1 DEF SessionInv, BatchInv, At, OpOf
<1>9. QED  BY <1>4, <1>5, <1>6, <1>7, <1>8 DEF SessionInv

\* WorkerRuns keeps the inductive invariant.
LEMMA WorkerRunsSafe ==
    ASSUME SessionInv, NEW x \in Txs, WorkerRuns(x)
    PROVE  SessionInv'
<1> USE DEF object
<1> DEFINE op == OpOf(lock[x])
<1>1. UNCHANGED << open, readers, closers, txOpen, object, saved, thread, calls >>
  BY DEF WorkerRuns
<1>2. worker[x] = "open" /\ lock[x] \in Threads /\ slot[x] = "held" /\ reply[x] = None /\ saved[x] = None
  BY DEF WorkerRuns, SessionInv, TypeOK, TxInv
<1>3. op \in Op
  BY <1>2 DEF SessionInv, TypeOK, Op, OpOf
<1>4. /\ cmd' \in [Txs -> {None, "run", "commit", "rollback"}]
      /\ cmd'[x] = None /\ \A y \in Txs \ {x} : cmd'[y] = cmd[y]
  BY DEF WorkerRuns, SessionInv, TypeOK
<1>5. \/ /\ batch' = [batch EXCEPT ![x].done = @ \cup {op}] /\ reply' = [reply EXCEPT ![x] = "ok"] /\ UNCHANGED << worker, writer >>
      \/ /\ batch' = [batch EXCEPT ![x].half = @ \cup {op}] /\ reply' = [reply EXCEPT ![x] = "err"] /\ UNCHANGED << worker, writer >>
      \/ worker' = [worker EXCEPT ![x] = "gone"] /\ writer' = None /\ UNCHANGED << batch, reply >>
  BY DEF WorkerRuns
<1> HIDE DEF op
<1>6. batch' \in [Txs -> Batch] /\ \A y \in Txs \ {x} : batch'[y] = batch[y]
  <2>1. batch[x] \in Batch
    BY DEF SessionInv, TypeOK
  <2>2. [batch[x] EXCEPT !.done = @ \cup {op}] \in Batch /\ [batch[x] EXCEPT !.half = @ \cup {op}] \in Batch
    BY <1>3, <2>1 DEF Batch
  <2>3. batch' \in {batch, [batch EXCEPT ![x] = [batch[x] EXCEPT !.done = @ \cup {op}]],
                     [batch EXCEPT ![x] = [batch[x] EXCEPT !.half = @ \cup {op}]]}
    BY <1>5, Zenon
  <2>4. QED
    BY <2>2, <2>3 DEF SessionInv, TypeOK
<1>7. /\ batch'[x].done \in {batch[x].done, batch[x].done \cup {op}}
      /\ batch'[x].half \in {batch[x].half, batch[x].half \cup {op}}
      /\ reply'[x] = "ok" => op \in batch'[x].done
      /\ reply'[x] = "err" \/ batch'[x].half = batch[x].half
  BY <1>2, <1>5, FfiAssumption DEF SessionInv, TypeOK, Batch
<1>8. /\ reply' \in [Txs -> {None, "ok", "err"}] /\ \A y \in Txs \ {x} : reply'[y] = reply[y]
      /\ worker' \in [Txs -> {"none", "starting", "open", "gone"}]
      /\ worker'[x] \in {"open", "gone"} /\ \A y \in Txs \ {x} : worker'[y] = worker[y]
      /\ writer' \in Threads \cup Txs \cup {None}
  BY <1>2, <1>5 DEF SessionInv, TypeOK
<1>9. TypeOK'
  BY <1>1, <1>4, <1>6, <1>8 DEF SessionInv, TypeOK
<1>10. PlaceInv'
  BY <1>1, <1>2, <1>8 DEF SessionInv, PlaceInv, At
<1>11. FlagInv'
  <2>1. FlagOwners' = FlagOwners
    BY <1>1 DEF FlagOwners, BeginsFlag, EndsFlag
  <2>2. QED
    BY <1>1, <1>2, <1>8, <2>1 DEF SessionInv, FlagInv
<1>12. TxInv'
  BY <1>1, <1>2, <1>4, <1>6, <1>8, FfiAssumption DEF SessionInv, TxInv, At
<1>13. BatchInv'
  <2>1. ASSUME NEW y \in Txs  PROVE acked[y] \subseteq batch'[y].done
    BY <1>6, <1>7 DEF SessionInv, BatchInv
  <2>2. ASSUME NEW y \in Txs, reply'[y] = "ok"  PROVE OpOf(lock[y])' \in batch'[y].done
    BY <1>1, <1>6, <1>7, <1>8, <2>2 DEF SessionInv, BatchInv, OpOf, op
  <2>3. ASSUME NEW y \in Txs, batch'[y].half # {}
        PROVE  aborted[y] \/ reply'[y] = "err" \/ \E u \in Threads : thread[u].at = "o.note" /\ thread[u].tx = y
    <3>1. CASE y = x
      BY <1>2, <1>7, <2>3, <3>1, FfiAssumption DEF SessionInv, BatchInv, At
    <3>2. CASE y # x
      BY <1>6, <1>8, <2>3, <3>2 DEF SessionInv, BatchInv, At
    <3>3. QED  BY <3>1, <3>2
  <2>4. ASSUME NEW y \in Txs, cmd'[y] = "commit" \/ saved[y] # None
        PROVE  batch'[y].half = {} \/ late[y]
    BY <1>2, <1>4, <1>6, <2>4, FfiAssumption DEF SessionInv, BatchInv
  <2>5. QED
    BY <1>1, <2>1, <2>2, <2>3, <2>4 DEF BatchInv, At
<1>14. QED  BY <1>9, <1>10, <1>11, <1>12, <1>13 DEF SessionInv

\* WorkerEnds keeps the inductive invariant.
LEMMA WorkerEndsSafe ==
    ASSUME SessionInv, NEW x \in Txs, WorkerEnds(x)
    PROVE  SessionInv'
<1> USE DEF object
<1>1. UNCHANGED << open, readers, closers, txOpen, object, reply, batch, thread, calls >>
  BY DEF WorkerEnds
<1>2. worker[x] = "open" /\ slot[x] = "taken" /\ cmd[x] \in {"commit", "rollback"} /\ writer' = None
  BY DEF WorkerEnds, SessionInv, TxInv
<1>3. /\ worker' \in [Txs -> {"none", "starting", "open", "gone"}]
      /\ worker'[x] = "gone" /\ \A y \in Txs \ {x} : worker'[y] = worker[y]
      /\ cmd' \in [Txs -> {None, "run", "commit", "rollback"}]
      /\ cmd'[x] = None /\ \A y \in Txs \ {x} : cmd'[y] = cmd[y]
  BY DEF WorkerEnds, SessionInv, TypeOK
<1>4. /\ saved' \in [Txs -> Batch \cup {None}] /\ \A y \in Txs \ {x} : saved'[y] = saved[y]
      /\ saved'[x] = saved[x] \/ (cmd[x] = "commit" /\ saved'[x] = batch[x])
  BY DEF WorkerEnds, SessionInv, TypeOK
<1>5. TypeOK'
  BY <1>1, <1>2, <1>3, <1>4 DEF SessionInv, TypeOK
<1>6. PlaceInv'
  BY <1>1, <1>2, <1>3 DEF SessionInv, PlaceInv, At
<1>7. FlagInv'
  <2>1. FlagOwners' = FlagOwners
    BY <1>1 DEF FlagOwners, BeginsFlag, EndsFlag
  <2>2. QED
    BY <1>1, <1>3, <2>1 DEF SessionInv, FlagInv
<1>8. TxInv'
  BY <1>1, <1>2, <1>3, <1>4, FfiAssumption DEF SessionInv, TxInv, At
<1>9. BatchInv'
  <2>1. ASSUME NEW y \in Txs, reply[y] = "ok"  PROVE OpOf(lock[y])' \in batch[y].done
    BY <1>1, <2>1 DEF SessionInv, BatchInv, OpOf
  <2>2. ASSUME NEW y \in Txs, cmd'[y] = "commit" \/ saved'[y] # None
        PROVE  batch[y].half = {} \/ late[y]
    BY <1>3, <1>4, <2>2, FfiAssumption DEF SessionInv, BatchInv
  <2>3. QED
    BY <1>1, <2>1, <2>2 DEF SessionInv, BatchInv, At
<1>10. QED  BY <1>5, <1>6, <1>7, <1>8, <1>9 DEF SessionInv

\* Every step of a host thread or of a worker keeps the inductive invariant.
LEMMA SessionStep ==
    ASSUME SessionInv, [Next]_vars
    PROVE  SessionInv'
<1>1. ASSUME NEW t \in Threads, Proceed(t)  PROVE SessionInv'
  <2>1. CASE ReadInner(t) \/ WriteInner(t)
    BY <2>1, TakeInnerSafe DEF ReadInner, WriteInner, Outside
  <2>2. CASE BeginUndo(t) \/ EndFlag(t)
    BY <2>2, FlagDown DEF BeginUndo, EndFlag, At
  <2>3. QED
    BY <1>1, <2>1, <2>2, ReadBodySafe, WriteLockSafe, WriteBodySafe, CloseRequestSafe, CloseTakeSafe,
       BeginInnerSafe, BeginReadySafe, OpSendSafe, OpReplySafe, OpNoteSafe, EndTakeSafe, EndSendSafe, EndJoinSafe
       DEF Proceed
<1>2. ASSUME NEW x \in Txs, Work(x)  PROVE SessionInv'
  BY <1>2, WorkerOpensSafe, WorkerRunsSafe, WorkerEndsSafe DEF Work
<1>3. ASSUME NEW t \in Threads, ReadCall(t) \/ WriteCall(t) \/ CloseCall(t) \/ BeginCall(t)  PROVE SessionInv'
  BY <1>3, ReadCallSafe, WriteCallSafe, CloseCallSafe, BeginCallSafe
<1>4. ASSUME NEW t \in Threads, NEW x \in Txs, OpCall(t, x) \/ OpBadArgument(t, x)  PROVE SessionInv'
  BY <1>4, OpCallSafe, OpBadArgumentSafe
<1>5. ASSUME NEW t \in Threads, End(t)  PROVE SessionInv'
  BY <1>5, EndCallSafe DEF End
<1>6. CASE UNCHANGED vars
  <2> USE <1>6 DEF vars, shared, object, wvars, SessionInv, At
  <2>1. TypeOK'
    BY DEF TypeOK
  <2>2. PlaceInv' /\ TxInv'
    BY DEF PlaceInv, TxInv
  <2>3. FlagInv'
    BY DEF FlagInv, FlagOwners, BeginsFlag, EndsFlag
  <2>4. BatchInv'
    BY DEF BatchInv, OpOf
  <2>5. QED  BY <2>1, <2>2, <2>3, <2>4
<1>7. QED
  BY <1>1, <1>2, <1>3, <1>4, <1>5, <1>6 DEF Next

\* The session starts with no transaction, no caller and the flag down.
LEMMA SessionStart ==
    ASSUME Init
    PROVE  SessionInv
<1> USE FfiAssumption DEF Init, Idle, Empty
<1>1. TypeOK
  <2>1. Empty \in Batch
    BY DEF Batch
  <2>2. batch \in [Txs -> Batch]
    BY <2>1
  <2>3. thread \in [Threads -> [at : Places, tx : Txs \cup {None}, commit : BOOLEAN]]
    BY DEF Places
  <2>4. calls \in [Threads -> 0..MaxCalls]
    OBVIOUS
  <2>5. QED
    BY <2>2, <2>3, <2>4 DEF TypeOK
<1>2. PlaceInv
  BY DEF PlaceInv, At
<1>3. FlagInv
  <2>1. FlagOwners = {}
    BY DEF FlagOwners, BeginsFlag, EndsFlag
  <2>2. QED
    BY <2>1 DEF FlagInv
<1>4. TxInv
  BY DEF TxInv, At
<1>5. BatchInv
  BY DEF BatchInv
<1>6. QED  BY <1>1, <1>2, <1>3, <1>4, <1>5 DEF SessionInv

\* The inductive invariant holds in every state of the session, for any number
\* of threads, transactions and calls (engine/mod.rs, transaction.rs).
THEOREM SessionInvariant == Spec => []SessionInv
<1>1. Init => SessionInv
  BY SessionStart
<1>2. SessionInv /\ [Next]_vars => SessionInv'
  BY SessionStep
<1>3. QED  BY <1>1, <1>2, PTL DEF Spec

\* While a worker has or is about to have a write transaction open the flag is
\* up: begin_transaction's early returns, late and repeated ends and dropped
\* handles never put down the flag of another transaction.
THEOREM SessionFlagCoversWorker == Spec => []FlagCoversWorker
<1>1. SessionInv => FlagCoversWorker
  <2>1. ASSUME SessionInv, NEW x \in Txs, worker[x] \in {"starting", "open"}  PROVE txOpen
    <3>1. FlagOwners # {}
      <4>1. CASE slot[x] = "held"
        BY <4>1 DEF FlagOwners
      <4>2. ASSUME NEW t \in Threads, thread[t].at \in {"b.wait", "e.read", "e.join"}  PROVE FlagOwners # {}
        <5>1. t \in FlagOwners
          BY <4>2 DEF FlagOwners, BeginsFlag, EndsFlag
        <5>2. QED  BY <5>1
      <4>3. QED
        BY <2>1, <4>1, <4>2 DEF SessionInv, FlagInv
    <3>2. QED
      BY <2>1, <3>1 DEF SessionInv, FlagInv
  <2>2. QED
    BY <2>1 DEF FlagCoversWorker
<1>2. QED  BY <1>1, SessionInvariant, PTL

\* What commit makes durable holds every acknowledged operation and nothing
\* of a failed one whose failure was noted in time (transaction.rs, end and
\* in_tx!).
THEOREM SessionCommitWhole == Spec => []CommitWhole
<1>1. SessionInv => CommitWhole
  BY DEF SessionInv, TxInv, BatchInv, CommitWhole
<1>2. QED  BY <1>1, SessionInvariant, PTL

=============================================================================
