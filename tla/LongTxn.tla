------------------------------- MODULE LongTxn -------------------------------
(***************************************************************************)
(* What db.Transaction does for its caller (pkg/db/db.go): one REPEATABLE  *)
(* READ transaction with a moving checkpoint.  A method is checkpointed,   *)
(* or rolls back to the last checkpoint, or, if its SAVEPOINT fails, just  *)
(* returns and leaves the transaction aborted, as a bare statement can;    *)
(* nothing works on it then until someone rolls back.  Only the commit of  *)
(* a usable transaction changes what others see, and it publishes all of   *)
(* the work.  The specification says nothing of rows: a database state is  *)
(* any member of Database.                                                 *)
(*                                                                         *)
(* This is less than the comments promise.  "On failure it rolls back to   *)
(* the last savepoint, keeping the transaction alive" (db.go:417-418) is   *)
(* not so for a failed SAVEPOINT, see Execute; and Close does not preserve *)
(* the checkpointed work of an aborted transaction (db.go:464-466).        *)
(***************************************************************************)

CONSTANT Database      \* the states the rows of the database can be in

VARIABLES
    committed,   \* the rows other transactions see
    work,        \* the rows this transaction sees, its own writes included
    saved,       \* the rows at the last savepoint
    status       \* "none", "open", "failed" (aborted by an error), "ended"

txnVars == <<committed, work, saved, status>>

TxnTypeOK ==
    /\ committed \in Database /\ work \in Database /\ saved \in Database
    /\ status \in {"none", "open", "failed", "ended"}

TxnInit ==
    /\ committed \in Database
    /\ work = committed /\ saved = committed
    /\ status = "none"

(* StartLongTxn: begin, and set the initial checkpoint.                    *)
Start ==
    /\ status = "none"
    /\ work' = committed /\ saved' = committed
    /\ status' = "open"
    /\ UNCHANGED committed

(* A method that executes its statements and calls saveCheckpoint.         *)
Operate ==
    /\ status = "open"
    /\ work' \in Database /\ saved' = work'
    /\ UNCHANGED <<committed, status>>

(* Statements without a checkpoint of their own, or whose SAVEPOINT fails: *)
(* what they did may stay, in a transaction that may be aborted.           *)
Execute ==
    /\ status = "open"
    /\ work' \in Database
    /\ status' \in {"open", "failed"}
    /\ UNCHANGED <<committed, saved>>

(* rollbackToCheckpoint: by a failed method, or by the caller's Rollback.  *)
RollbackToCheckpoint ==
    /\ status \in {"open", "failed"}
    /\ work' = saved
    /\ status' = "open"
    /\ UNCHANGED <<committed, saved>>

(* Close: COMMIT publishes a usable transaction.  On an aborted one COMMIT *)
(* is a rollback, after which the driver's handle is closed: the rollback  *)
(* to the checkpoint that Close tries next is refused, and nothing is      *)
(* published.  The comment of Close says that the checkpointed work is.    *)
Close ==
    /\ status \in {"open", "failed"}
    /\ committed' = IF status = "open" THEN work ELSE committed
    /\ status' = "ended"
    /\ UNCHANGED <<work, saved>>

(* The connection or the process is lost: the server rolls back.           *)
Lose ==
    /\ status \in {"open", "failed"}
    /\ status' = "ended"
    /\ UNCHANGED <<committed, work, saved>>

TxnNext == Start \/ Operate \/ Execute \/ RollbackToCheckpoint \/ Close \/ Lose

TxnSpec == TxnInit /\ [][TxnNext]_txnVars
==============================================================================
