----------------------------- MODULE AtomicStore -----------------------------
(***************************************************************************)
(* What a transaction promises the rest of the program: an operation on    *)
(* the store happens in one step, with all of its statements, or not at    *)
(* all.                                                                    *)
(***************************************************************************)
EXTENDS Naturals

CONSTANTS Operations,    \* the operations of data_manager that write
          Statements     \* Statements[o]: how many statements o executes

VARIABLE disk            \* disk[o]: statements of o the database file holds

Empty == disk = [o \in Operations |-> 0]

Perform(o) ==
  /\ disk[o] = 0
  /\ disk' = [disk EXCEPT ![o] = Statements[o]]

AtomicSpec == Empty /\ [][\E o \in Operations : Perform(o)]_disk
==============================================================================
