------------------------- MODULE TransactionTheorems -------------------------
(***************************************************************************)
(* Transactions keeps TInv, and TInv makes every operation atomic.         *)
(***************************************************************************)
EXTENDS TransactionProperties, TLAPS

\* Every operation has a statement to run.
LEMMA StatementsPositive ==
  \A o \in Operations :
    Statements[o] \in Nat /\ Statements[o] # 0 /\ 0 \in 0 .. Statements[o]
BY StatementsAssumption

LEMMA InitInv == Init => TInv
<1> SUFFICES ASSUME Init PROVE TInv
  OBVIOUS
<1>1. TypeOK
  BY StatementsPositive DEF Init, TypeOK, Managers, PCs
<1> QED BY <1>1 DEF Init, TInv

\* An operation opens its transaction; it has no rows yet.
LEMMA OpenKeepsInv ==
  ASSUME TInv, NEW o \in Operations, OpenTransaction(o) \/ BeginFails(o)
  PROVE  TInv'
<1>1. ~Lock /\ ~inTx
  BY DEF TInv, Lock, OpenTransaction, BeginFails
<1>2. TypeOK'
  <2>1. /\ disk' = disk /\ op' = o /\ done' = 0
        /\ inTx' \in BOOLEAN /\ held' \in BOOLEAN /\ current' \in BOOLEAN
    BY <1>1 DEF TInv, TypeOK, OpenTransaction, BeginFails, Throw
  <2>2. manager' \in Managers /\ pc' \in PCs
    BY <1>1 DEF TInv, TypeOK, OpenTransaction, BeginFails, Throw, Managers, PCs
  <2> QED BY <2>1, <2>2, StatementsPositive DEF TInv, TypeOK
<1> QED BY <1>1, <1>2 DEF TInv, OpenTransaction, BeginFails, Throw

\* The statements, and whatever fails among them.
LEMMA WorkKeepsInv ==
  ASSUME TInv, RunStatement \/ StatementFails \/ Commit \/ CommitFails
  PROVE  TInv'
<1>1. CASE RunStatement
  <2>1. pc = "working" /\ inTx /\ disk' = disk
    BY <1>1 DEF RunStatement, TInv
  <2>2. TypeOK'
    BY <1>1, <2>1, StatementsPositive DEF RunStatement, TInv, TypeOK
  <2> QED BY <1>1, <2>1, <2>2 DEF RunStatement, TInv
<1>2. CASE Commit
  <2>1. /\ disk' = [disk EXCEPT ![op] = Statements[op]]
        /\ op \in Operations /\ disk \in [Operations -> Nat]
        /\ held /\ current
    BY <1>2 DEF Commit, TInv, TypeOK
  <2>2. TypeOK'
    BY <1>2, <2>1, StatementsPositive DEF Commit, TInv, TypeOK, Managers, PCs
  <2>3. \A o \in Operations : disk'[o] \in {0, Statements[o]}
    BY <2>1 DEF TInv
  <2> QED BY <1>2, <2>1, <2>2, <2>3 DEF Commit, TInv
<1>3. CASE StatementFails \/ CommitFails
  <2>1. TypeOK'
    BY <1>3 DEF StatementFails, CommitFails, Throw, TInv, TypeOK, PCs
  <2> QED BY <1>3, <2>1 DEF StatementFails, CommitFails, Throw, TInv
<1> QED BY <1>1, <1>2, <1>3

\* commit() ends: the manager is alive, so its release is not refused.
LEMMA ReleaseKeepsInv ==
  ASSUME TInv, Release \/ Return
  PROVE  TInv'
<1>1. TypeOK'
  BY DEF Release, Return, Throw, Lock, TInv, TypeOK, Managers, PCs
<1> QED BY <1>1 DEF Release, Return, Throw, Lock, TInv

\* The process ends, by an exception or from outside, or starts again.
LEMMA EndKeepsInv ==
  ASSUME TInv,
         \/ Abort \/ Unwind \/ Rollback \/ RollbackFails
         \/ ReleaseInDestructor \/ Kill \/ Restart
  PROVE  TInv'
<1>1. CASE Abort \/ Kill
  BY <1>1 DEF Abort, Kill, TInv, TypeOK, PCs
<1>2. CASE Unwind
  BY <1>2 DEF Unwind, TInv, TypeOK, PCs
<1>3. CASE Rollback \/ RollbackFails
  <2>1. TypeOK'
    BY <1>3 DEF Rollback, RollbackFails, TInv, TypeOK, Managers, PCs
  <2> QED BY <1>3, <2>1 DEF Rollback, RollbackFails, TInv
<1>4. CASE ReleaseInDestructor
  BY <1>4 DEF ReleaseInDestructor, Lock, TInv, TypeOK, PCs
<1>5. CASE Restart
  BY <1>5 DEF Restart, TInv, TypeOK, Managers, PCs
<1> QED BY <1>1, <1>2, <1>3, <1>4, <1>5

LEMMA NextInv == TInv /\ [Next]_vars => TInv'
<1> SUFFICES ASSUME TInv, [Next]_vars PROVE TInv'
  OBVIOUS
<1>1. CASE UNCHANGED vars
  BY <1>1 DEF vars, TInv, TypeOK
<1> QED BY <1>1, OpenKeepsInv, WorkKeepsInv, ReleaseKeepsInv, EndKeepsInv DEF Next

(***************************************************************************)
(* The inductive invariant holds, whatever the operations and however many *)
(* statements each executes.                                               *)
(***************************************************************************)
THEOREM Invariant == Spec => []TInv
<1> QED BY InitInv, NextInv, PTL DEF Spec

(***************************************************************************)
(* No committed transaction stands in the way of the next one.             *)
(***************************************************************************)
THEOREM NeverRefused == Spec => []NextMayOpen
<1>1. TInv => NextMayOpen
  BY DEF TInv, NextMayOpen, Lock
<1> QED BY <1>1, Invariant, PTL

(***************************************************************************)
(* An operation that throws has left no trace in the database file.        *)
(***************************************************************************)
THEOREM NoTrace == Spec => []ThrownLeavesNoTrace
<1>1. TInv => ThrownLeavesNoTrace
  BY DEF TInv, ThrownLeavesNoTrace
<1> QED BY <1>1, Invariant, PTL

\* Only COMMIT touches the file, and it writes all statements of an operation.
LEMMA NextAtomic ==
  TInv /\ [Next]_vars =>
    [\E o \in Operations : Atomic!Perform(o)]_disk
<1> SUFFICES ASSUME TInv, [Next]_vars, disk' # disk
             PROVE  \E o \in Operations : Atomic!Perform(o)
  OBVIOUS
<1>1. Commit
  BY DEF Next, vars, TInv, OpenTransaction, BeginFails, RunStatement, StatementFails,
         CommitFails, Release, Return, Abort, Unwind, Rollback, RollbackFails,
         ReleaseInDestructor, Kill, Restart
<1>2. Atomic!Perform(op)
  BY <1>1 DEF Commit, TInv, Atomic!Perform
<1>3. op \in Operations
  BY DEF TInv, TypeOK
<1> QED BY <1>2, <1>3

(***************************************************************************)
(* Transactions implements AtomicStore.                                    *)
(***************************************************************************)
THEOREM Refinement == Spec => ImplementsAtomicStore
<1>1. Init => Atomic!Empty
  BY DEF Init, Atomic!Empty
<1> QED BY <1>1, NextAtomic, Invariant, PTL
       DEF Spec, ImplementsAtomicStore, Atomic!AtomicSpec
==============================================================================
