------------------------------ MODULE WriteTx -------------------------------
(***************************************************************************)
(* One write transaction at a time over the data of a model, as the        *)
(* facades of bkndb-core run it: RelationalDb::write and ::write_tx,       *)
(* GraphDb::write_tx and Db::write_tx.  A statement of its own commits     *)
(* when it succeeds and is dropped when it fails.  Inside a batch the      *)
(* caller may go on after an error, and commits or drops the whole.  What  *)
(* a transaction writes stays private until it commits: that is what the   *)
(* storage modules show.  A statement over several items takes one step    *)
(* per item, as its loop does.                                             *)
(***************************************************************************)
EXTENDS Integers

CONSTANT MaxStmts  \* bound: statements of a behaviour

ASSUME WriteTxAssumption == MaxStmts \in Nat

VARIABLES
    db,    \* the committed data
    work,  \* the data as the open write transaction sees it
    mode,  \* "idle"; "auto": one statement and its commit; "batch": write_tx
    stmt,  \* the statement that is looping over its items
    left   \* statements a behaviour may still start

vars == << db, work, mode, stmt, left >>

NoStmt == [op |-> "none"]

\* What an operation over an open transaction returns: whether it failed,
\* and the data it leaves in the transaction.
Fail(t) == [ok |-> FALSE, t |-> t]
Ok(t) == [ok |-> TRUE, t |-> t]

Ready == stmt = NoStmt /\ mode # "auto" /\ left > 0

\* The end of a statement.
Conclude(r) ==
    /\ stmt' = NoStmt
    /\ IF mode = "batch"
       THEN work' = r.t /\ UNCHANGED << db, mode >>
       ELSE /\ db' = IF r.ok THEN r.t ELSE db
            /\ work' = db' /\ mode' = "idle"

\* A statement that is one step.
Apply(r) == Ready /\ left' = left - 1 /\ Conclude(r)

\* A statement that goes on to loop, from data t.
Loop(t, s) ==
    /\ Ready
    /\ left' = left - 1
    /\ stmt' = s
    /\ work' = t
    /\ mode' = IF mode = "idle" THEN "auto" ELSE mode
    /\ UNCHANGED db

\* A step of a loop, and its end.
GoOn(t, s) == work' = t /\ stmt' = s /\ UNCHANGED << db, mode, left >>
Finish(r) == Conclude(r) /\ UNCHANGED left

BeginBatch ==
    /\ mode = "idle" /\ left > 0
    /\ mode' = "batch"
    /\ UNCHANGED << db, work, stmt, left >>

CommitBatch ==
    /\ mode = "batch" /\ stmt = NoStmt
    /\ mode' = "idle" /\ db' = work
    /\ UNCHANGED << work, stmt, left >>

DropBatch ==
    /\ mode = "batch" /\ stmt = NoStmt
    /\ mode' = "idle" /\ work' = db
    /\ UNCHANGED << db, stmt, left >>

=============================================================================
