---------------------------- MODULE Transactions -----------------------------
(***************************************************************************)
(* One operation of data_manager after the other (tokenize(), store(), a   *)
(* work list), each in a transaction of its own: the transaction_manager,  *)
(* whose constructor, commit() and destructor drive SQLite, and the weak   *)
(* reference by which data_manager knows that a transaction is open.       *)
(*                                                                         *)
(* Any statement may fail, any find() may throw, and the process may be    *)
(* killed.  Nothing in the program catches these exceptions, and then the  *)
(* language leaves open whether the stack is unwound before the process    *)
(* ends: either may happen.  An operation whose results are in the store   *)
(* is not repeated.                                                        *)
(***************************************************************************)
EXTENDS Naturals

CONSTANTS Operations,    \* the operations of data_manager that write
          Statements     \* Statements[o]: how many statements o executes

ASSUME StatementsAssumption == Statements \in [Operations -> Nat \ {0}]

VARIABLES disk,       \* disk[o]: statements of o the database file holds
          inTx,       \* SQLite is in a transaction
          manager,    \* flags of the transaction_manager: none (there is no
                      \* manager), open, committed, rolled_back
          held,       \* a shared_ptr to it exists
          current,    \* current_transaction refers to it
          op, done,   \* the running operation, and its statements so far
          pc          \* where the process is

vars == <<disk, inTx, manager, held, current, op, done, pc>>

Managers == {"none", "open", "committed", "rolled_back"}
PCs == {"idle", "working", "release", "return", "throwing",
        "destroy", "destroy_release", "terminated", "down"}

\* current_transaction.lock() succeeds: a weak reference to an object nobody
\* holds any more has expired.
Lock == current /\ held

Init ==
  /\ disk = [o \in Operations |-> 0]
  /\ inTx = FALSE /\ manager = "none" /\ held = FALSE /\ current = FALSE
  /\ op \in Operations /\ done = 0 /\ pc = "idle"

Throw == pc' = "throwing"

------------------------------------------------------------------------------
\* Mutated form: the open handler is not called.
OpenWithoutBegin(o) ==
  /\ pc = "idle" /\ disk[o] = 0
  /\ op' = o /\ done' = 0
  /\ manager' = "open" /\ held' = TRUE /\ current' = TRUE /\ pc' = "working"
  /\ UNCHANGED <<disk, inTx>>

\* open_transaction(), and with it the manager's constructor: refused while a
\* transaction is open; BEGIN fails inside one.
OpenTransaction(o) ==
  /\ pc = "idle" /\ disk[o] = 0
  /\ op' = o /\ done' = 0
  /\ IF Lock \/ inTx
       THEN Throw /\ UNCHANGED <<inTx, manager, held, current>>
       ELSE /\ inTx' = TRUE /\ manager' = "open" /\ held' = TRUE
            /\ current' = TRUE /\ pc' = "working"
  /\ UNCHANGED disk

\* BEGIN fails: the constructor throws, there is no manager to destroy.
BeginFails(o) ==
  /\ pc = "idle" /\ disk[o] = 0
  /\ op' = o /\ done' = 0 /\ Throw
  /\ UNCHANGED <<disk, inTx, manager, held, current>>

\* A statement outside a transaction is committed at once.
RunStatement ==
  /\ pc = "working" /\ done < Statements[op]
  /\ done' = done + 1
  /\ disk' = IF inTx THEN disk ELSE [disk EXCEPT ![op] = @ + 1]
  /\ UNCHANGED <<inTx, manager, held, current, op, pc>>

\* A statement fails or a find() throws.  After some errors SQLite has rolled
\* the transaction back by itself.
StatementFails ==
  /\ pc = "working" /\ Throw
  /\ inTx' \in {inTx, FALSE}
  /\ UNCHANGED <<disk, manager, held, current, op, done>>

\* commit(), up to the release handler.
Commit ==
  /\ pc = "working" /\ done = Statements[op]
  /\ disk' = IF inTx THEN [disk EXCEPT ![op] = done] ELSE disk
  /\ inTx' = FALSE /\ manager' = "committed" /\ pc' = "release"
  /\ UNCHANGED <<held, current, op, done>>

\* COMMIT fails; the transaction may stay open.
CommitFails ==
  /\ pc = "working" /\ done = Statements[op] /\ Throw
  /\ inTx' \in {inTx, FALSE}
  /\ UNCHANGED <<disk, manager, held, current, op, done>>

\* Mutated forms of the release handler: the reference is kept; the test is
\* the wrong way round.
ReleaseForgotten ==
  /\ pc = "release" /\ pc' = "return"
  /\ UNCHANGED <<disk, inTx, manager, held, current, op, done>>
ReleaseInverted ==
  /\ pc = "release"
  /\ IF Lock THEN Throw /\ UNCHANGED current ELSE current' = FALSE /\ pc' = "return"
  /\ UNCHANGED <<disk, inTx, manager, held, op, done>>

\* release_transaction(), called by commit().
Release ==
  /\ pc = "release"
  /\ IF Lock THEN current' = FALSE /\ pc' = "return" ELSE Throw /\ UNCHANGED current
  /\ UNCHANGED <<disk, inTx, manager, held, op, done>>

\* The operation returns; the destructor has nothing to do.
Return ==
  /\ pc = "return" /\ pc' = "idle"
  /\ held' = FALSE /\ manager' = "none"
  /\ UNCHANGED <<disk, inTx, current, op, done>>

------------------------------------------------------------------------------
\* The process ends at once.
Abort ==
  /\ pc = "throwing" /\ pc' = "down"
  /\ UNCHANGED <<disk, inTx, manager, held, current, op, done>>

\* The stack is unwound: the last shared_ptr goes, then its object.
Unwind ==
  /\ pc = "throwing"
  /\ held' = FALSE
  /\ pc' = IF manager = "open" THEN "destroy" ELSE "down"
  /\ UNCHANGED <<disk, inTx, manager, current, op, done>>

\* Mutated form: what was not rolled back is committed.
CommitInDestructor ==
  /\ pc = "destroy" /\ inTx
  /\ disk' = [disk EXCEPT ![op] = done]
  /\ inTx' = FALSE /\ manager' = "rolled_back" /\ pc' = "destroy_release"
  /\ UNCHANGED <<held, current, op, done>>

\* rollback(), called by the destructor.
Rollback ==
  /\ pc = "destroy" /\ inTx
  /\ inTx' = FALSE /\ manager' = "rolled_back" /\ pc' = "destroy_release"
  /\ UNCHANGED <<disk, held, current, op, done>>

\* ROLLBACK fails, as it does outside a transaction: the exception leaves a
\* destructor, which terminates the process.
RollbackFails ==
  /\ pc = "destroy" /\ pc' = "terminated"
  /\ UNCHANGED <<disk, inTx, manager, held, current, op, done>>

\* release_transaction(), called by rollback() in the destructor.
ReleaseInDestructor ==
  /\ pc = "destroy_release"
  /\ IF Lock THEN current' = FALSE /\ pc' = "down"
             ELSE pc' = "terminated" /\ UNCHANGED current
  /\ UNCHANGED <<disk, inTx, manager, held, op, done>>

------------------------------------------------------------------------------
Kill ==
  /\ pc \notin {"down", "terminated"} /\ pc' = "down"
  /\ UNCHANGED <<disk, inTx, manager, held, current, op, done>>

\* The next job: SQLite undoes what was not committed.
Restart ==
  /\ pc \in {"down", "terminated"} /\ pc' = "idle"
  /\ inTx' = FALSE /\ manager' = "none" /\ held' = FALSE /\ current' = FALSE
  /\ UNCHANGED <<disk, op, done>>

Next ==
  \/ \E o \in Operations : OpenTransaction(o) \/ BeginFails(o)
  \/ RunStatement \/ StatementFails \/ Commit \/ CommitFails
  \/ Release \/ Return
  \/ Abort \/ Unwind \/ Rollback \/ RollbackFails \/ ReleaseInDestructor
  \/ Kill \/ Restart

Spec == Init /\ [][Next]_vars
==============================================================================
