------------------------ MODULE TransactionProperties ------------------------
(***************************************************************************)
(* What module Transactions must and does guarantee.                       *)
(***************************************************************************)
EXTENDS Transactions

(***************************************************************************)
(* The values the variables may take.                                      *)
(***************************************************************************)
TypeOK ==
  /\ disk \in [Operations -> Nat]
  /\ inTx \in BOOLEAN /\ held \in BOOLEAN /\ current \in BOOLEAN
  /\ manager \in Managers
  /\ op \in Operations /\ done \in 0 .. Statements[op]
  /\ pc \in PCs

(***************************************************************************)
(* Once commit() has released its transaction nothing is left that would   *)
(* refuse the next one: neither data_manager's reference, not even while   *)
(* the committed manager is still in scope, nor SQLite.                    *)
(***************************************************************************)
NextMayOpen == pc \in {"return", "idle"} => ~Lock /\ ~inTx

(***************************************************************************)
(* An operation that throws has left no trace in the database file, so     *)
(* that the next job finds it missing and does it again.                   *)
(***************************************************************************)
ThrownLeavesNoTrace ==
  pc \in {"throwing", "destroy", "destroy_release", "terminated"} => disk[op] = 0

(***************************************************************************)
(* The other modules take an operation as one step that happens or does    *)
(* not; so it is, whatever fails and whenever the process dies.            *)
(***************************************************************************)
Atomic == INSTANCE AtomicStore

ImplementsAtomicStore == Atomic!AtomicSpec

(***************************************************************************)
(* The inductive invariant: the flags of the manager, the two references   *)
(* to it and SQLite's state follow from the position of the operation, of  *)
(* which the file holds all or nothing.                                    *)
(***************************************************************************)
TInv ==
  /\ TypeOK
  /\ \A o \in Operations : disk[o] \in {0, Statements[o]}
  /\ pc \in {"working", "throwing", "destroy", "destroy_release", "terminated"} => disk[op] = 0
  /\ pc = "idle" => manager = "none" /\ ~held /\ ~current /\ ~inTx
  /\ pc = "working" => manager = "open" /\ held /\ current /\ inTx
  /\ pc = "release" => manager = "committed" /\ held /\ current /\ ~inTx
  /\ pc = "return" => manager = "committed" /\ held /\ ~current /\ ~inTx
  /\ pc = "throwing" => manager \in {"none", "open"}
  /\ pc \in {"destroy", "destroy_release"} => ~held
==============================================================================
