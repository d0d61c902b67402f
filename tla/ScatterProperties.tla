-------------------------- MODULE ScatterProperties --------------------------
(***************************************************************************)
(* What makes the master/worker protocol of module Scatter correct.        *)
(***************************************************************************)
EXTENDS Scatter

(***************************************************************************)
(* The values the variables may take.                                      *)
(***************************************************************************)
TypeOK ==
  /\ rows \in [Items -> Nat]
  /\ indexed \in [UsedKinds -> BOOLEAN]
  /\ db_set \in BOOLEAN
  /\ pc \in MasterPCs
  /\ stage \in 1 .. NStages + 1
  /\ todo \subseteq Items
  /\ sch \in SchedulerState
  /\ list \subseteq Workers
  /\ closed \in BOOLEAN
  /\ wpc \in [Workers -> WorkerPCs]
  /\ wtask \in [Workers -> Kinds]
  /\ witem \in [Workers -> Items \cup {NoItem}]
  /\ toWorker \in [Workers -> Seq(Message)]
  /\ toMaster \in [Workers -> Seq(Message)]
  /\ crashes \in 0 .. MaxCrashes

\* The master is inside the while loop of scatter(), after set_up_workers().
InLoop == pc \in {"loop", "close_wait", "assign", "assigning", "assign_wait",
                  "probe"}

(***************************************************************************)
(* None of the scheduler's asserts can fail: a worker reports ready once,  *)
(* is given an item only while it has none, hands a product in only while  *)
(* it has one, and acknowledges the end of the work once, after its last   *)
(* product was stored (scheduler.cpp, which loses the asserts in a Release *)
(* build and would then let a counter wrap).                               *)
(***************************************************************************)
SchedulerAssertsHold ==
  \A w \in Workers :
    /\ pc = "init" /\ Arrived(toMaster, w, WORKER_READY) => MayInitialize(sch, w)
    /\ pc = "assigning" /\ w \in list => MayAssign(sch, w)
    /\ pc = "probe" /\ Arrived(toMaster, w, WORK_PRODUCT_READY)
         => MayUnassign(sch, w)
    /\ pc = "probe" /\ Arrived(toMaster, w, END_OF_WORK_ACK) => MayRetire(sch, w)

(***************************************************************************)
(* The counters the loop decides with agree with the flags it acts on,     *)
(* from set_up_workers() to the end of scatter().                          *)
(***************************************************************************)
SchedulerConsistent == pc = "init" \/ InLoop => CountersMatchFlags(sch)

(***************************************************************************)
(* No process finds a message its switch has no case for: not the slave's  *)
(* execute() and process_task(), nor the master's loop (assert(false)),    *)
(* nor set_up_workers(), which would probe the same message for ever.      *)
(***************************************************************************)
NoUnexpectedMessage ==
  \A w \in Workers :
    /\ wpc[w] = "idle" /\ toWorker[w] # <<>>
         => Head(toWorker[w]).tag \in TaskTags \cup {TERMINATE}
    /\ wpc[w] = "task" /\ toWorker[w] # <<>>
         => Head(toWorker[w]).tag \in {new_item_message(wtask[w]), END_OF_WORK}
    /\ pc = "init" /\ toMaster[w] # <<>>
         => Head(toMaster[w]).tag = WORKER_READY
    /\ pc = "probe" /\ toMaster[w] # <<>>
         => Head(toMaster[w]).tag \in {WORK_PRODUCT_READY, END_OF_WORK_ACK}

(***************************************************************************)
(* A worker decodes an item as the type of work record it was encoded      *)
(* from.  Two pairs of types share the tag of their items (21 and 51), so  *)
(* the tag alone does not tell: the worker must be in the task the master  *)
(* is handing out.                                                         *)
(***************************************************************************)
ItemsDecodedAsSent ==
  \A w \in Workers :
    /\ wpc[w] = "computing" => KindOf[StageOf[witem[w]]] = wtask[w]
    /\ wpc[w] = "computing" => StageOf[witem[w]] = stage

\* The places where an item of the running scatter() can be.
ItemsHeld(w) ==
  {n \in 1 .. Len(toWorker[w]) : toWorker[w][n].item # NoItem}
ProductsHeld(w) ==
  {n \in 1 .. Len(toMaster[w]) : toMaster[w][n].item # NoItem}
CopiesOf(i) ==
  rows[i] + (IF i \in todo THEN 1 ELSE 0)
    + Cardinality({w \in Workers : witem[w] = i})
    + Cardinality({p \in Workers \X (1 .. 2) :
                     /\ p[2] \in ItemsHeld(p[1])
                     /\ toWorker[p[1]][p[2]].item = i})
    + Cardinality({p \in Workers \X (1 .. 2) :
                     /\ p[2] \in ProductsHeld(p[1])
                     /\ toMaster[p[1]][p[2]].item = i})

(***************************************************************************)
(* While a work list is farmed out, each of its items is in one place: the *)
(* rest of the list, a message, a worker, or a row of the store.  None is  *)
(* lost and none is computed twice.  Whatever job dies and is started      *)
(* again, the store never holds two rows for one item.                     *)
(***************************************************************************)
EachItemInOnePlace ==
  /\ \A i \in Items : rows[i] <= 1
  /\ InLoop => \A i \in ItemsOfStage(stage) : CopiesOf(i) = 1

(***************************************************************************)
(* scatter() returns only when every item of its list is in the store, no  *)
(* message is left in either direction, and every worker is back where it  *)
(* awaits a new task: the next set_up_workers() starts from a clean slate. *)
(***************************************************************************)
ScatterCompletes ==
  [][pc = "loop" /\ pc' = "between" =>
       /\ \A i \in ItemsOfStage(stage) : rows[i] = 1
       /\ \A w \in Workers : /\ wpc[w] = "idle"
                             /\ toWorker[w] = <<>> /\ toMaster[w] = <<>>
    ]_vars

(***************************************************************************)
(* The master and a worker never wait for each other: the master for the   *)
(* worker to take a message, the worker for the master to take its product *)
(* or to send something.  It holds if the library buffers empty messages;  *)
(* without that, the END_OF_WORK sent to a busy worker closes such a cycle.*)
(***************************************************************************)
MasterWaitsFor(w) ==
  \/ pc = "close_wait" /\ ~SendComplete(toWorker[w], END_OF_WORK)
  \/ pc = "assign_wait" /\ ~SendComplete(toWorker[w], new_item_message(kind))
  \/ pc = "setup_wait" /\ ~SendComplete(toWorker[w], new_task_message(kind))

WorkerWaits(w) ==
  \/ wpc[w] = "ack" /\ ~SendComplete(toMaster[w], WORK_PRODUCT_READY)
  \/ wpc[w] \in {"idle", "task"} /\ toWorker[w] = <<>>

NoCyclicWait == \A w \in Workers : ~(MasterWaitsFor(w) /\ WorkerWaits(w))

(***************************************************************************)
(* create_index() has no IF NOT EXISTS: finalize_write() must find the     *)
(* indexes of its tables dropped, also after a job that died on the way.   *)
(***************************************************************************)
IndexAbsentOnCreate ==
  pc = "loop" /\ all_inactive(sch) /\ kind \in IndexedKinds => ~indexed[kind]

(***************************************************************************)
(* The store only ever changes as WorkFarm promises.                       *)
(***************************************************************************)
Farm == INSTANCE WorkFarm
ImplementsWorkFarm == Farm!FarmSpec

(***************************************************************************)
(* A job that is given a database and is not killed finishes: the results  *)
(* of all stages are in the store and every process has exited.  A job     *)
(* that died may stay down, since nothing restarts it.                     *)
(***************************************************************************)
AllDone ==
  /\ pc = "exited"
  /\ \A w \in Workers : wpc[w] = "exited"
  /\ \A i \in Items : rows[i] = 1

\* slave_controller::execute(): "wait until we receive an EXIT instruction from
\* master".  Every worker gets one, unless the job is killed.
EveryWorkerExits ==
  <>(\A w \in Workers : wpc[w] = "exited") \/ <>[](pc = "down")

JobFinishes == db_set => <>[]AllDone \/ <>[](pc = "down")
==============================================================================
