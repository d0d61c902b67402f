------------------------------ MODULE Scheduler ------------------------------
(***************************************************************************)
(* The bookkeeping object the master uses while it farms out one work list *)
(* (src/controller/scheduler.{h,cpp}).  A scheduler is a value: the three  *)
(* flags of every worker_data record, kept as the sets of workers for      *)
(* which they hold, next to the three "quick-access" counters that the     *)
(* code keeps in step with the flags by hand.                              *)
(*                                                                         *)
(* Every mark_* operation comes with the condition its assert()s state.    *)
(* The asserts vanish in the Release build the README recommends, so an    *)
(* operation is defined whether or not its condition holds.                *)
(***************************************************************************)
EXTENDS Integers, FiniteSets

CONSTANT Workers      \* the worker processes, MPI ranks 1 .. size-1

(***************************************************************************)
(* worker_data: initialized, active (kept as its complement: the workers   *)
(* that have been marked inactive) and assigned.                           *)
(***************************************************************************)
SchedulerState ==
  [ initialized : SUBSET Workers,
    inactive    : SUBSET Workers,
    assigned    : SUBSET Workers,
    waiting_for_initialization : Nat,
    active      : Nat,
    unassigned  : Nat ]

(***************************************************************************)
(* Mutated forms of definitions below: the bug each stands for is one that *)
(* the properties must notice.                                             *)
(***************************************************************************)
schedulerNoneFree(N) ==             \* unassigned is never set
  [ initialized |-> {}, inactive |-> {}, assigned |-> {},
    waiting_for_initialization |-> N, active |-> 0, unassigned |-> 0 ]
readyWhenAnyActive(s)      == s.active > 0
inactiveButOne(s)          == s.active <= 1
assignmentOfAll(s)         == Workers
unassignForgetsCount(s, w) == [s EXCEPT !.assigned = @ \ {w}]

\* scheduler(N): no worker initialized, all flagged active and unassigned,
\* but none counted as active before it has reported in.
scheduler(N) ==
  [ initialized |-> {}, inactive |-> {}, assigned |-> {},
    waiting_for_initialization |-> N, active |-> 0, unassigned |-> N ]

is_ready(s)      == s.waiting_for_initialization = 0
is_assignable(s) == s.unassigned > 0
all_inactive(s)  == s.active = 0

\* The workers make_assignment() lists: every one not flagged assigned, be it
\* active or not.
make_assignment(s) == Workers \ s.assigned

MayInitialize(s, w) == s.waiting_for_initialization > 0 /\ w \notin s.initialized

initialize_worker(s, w) ==
  [s EXCEPT !.initialized = @ \cup {w},
            !.waiting_for_initialization = @ - 1,
            !.active = @ + 1]

MayAssign(s, w) == w \notin s.assigned /\ s.unassigned > 0

mark_assigned(s, w) ==
  [s EXCEPT !.assigned = @ \cup {w}, !.unassigned = @ - 1]

MayUnassign(s, w) == w \in s.assigned

mark_unassigned(s, w) ==
  [s EXCEPT !.assigned = @ \ {w}, !.unassigned = @ + 1]

MayRetire(s, w) == w \notin s.inactive /\ w \notin s.assigned /\ s.active > 0

mark_inactive(s, w) ==
  [s EXCEPT !.inactive = @ \cup {w}, !.active = @ - 1]

(***************************************************************************)
(* The counters repeat what the flags say.  The scatter loop decides with  *)
(* the counters (is_ready, is_assignable, all_inactive) and acts on the    *)
(* flags (make_assignment, the asserts), so it needs the two to agree.     *)
(***************************************************************************)
CountersMatchFlags(s) ==
  /\ s.waiting_for_initialization = Cardinality(Workers \ s.initialized)
  /\ s.active = Cardinality(s.initialized \ s.inactive)
  /\ s.unassigned = Cardinality(Workers \ s.assigned)
==============================================================================
