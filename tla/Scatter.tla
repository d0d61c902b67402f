------------------------------- MODULE Scatter -------------------------------
(***************************************************************************)
(* One LSSEFT job: the master (MPI rank 0) runs the stages of execute(),   *)
(* farms the work list of each stage out to the workers with scatter() and *)
(* stores what comes back; every worker runs slave_controller::execute().  *)
(*                                                                         *)
(* The MPI layer keeps, for every worker, one FIFO of messages in each     *)
(* direction: messages between two ranks do not overtake each other, while *)
(* messages from different ranks are matched in any order.  A standard-    *)
(* mode isend() is complete when the library has buffered the message or   *)
(* the receiver has taken it; Buffered holds the tags it buffers.          *)
(*                                                                         *)
(* The store and the indexes of its tables survive the death of a job; all *)
(* the rest is lost and a new job starts from nothing.                     *)
(***************************************************************************)
EXTENDS Scheduler, Sequences

CONSTANTS Items,       \* results wanted, over all stages: one work record each
          NoItem,      \* "no item": the payload of an empty message
          NStages,     \* number of scatter() calls in execute()
          StageOf,     \* the stage whose work list an item belongs to
          KindOf,      \* the work record type of a stage
          Buffered,    \* tags of the messages the MPI library buffers
          MaxCrashes   \* bound: how many jobs may die (or be killed)

Stages == 1 .. NStages

(***************************************************************************)
(* Message tags (mpi_operations.h), and the traits that map a work record  *)
(* type to them (mpi_traits.h).  The item tags are not injective.          *)
(***************************************************************************)
Kinds == {"transfer", "filter_Pk", "loop_integral", "Matsubara_XY",
          "one_loop_Pk", "multipole_Pk", "counterterm"}

\* Mutated form: one task's tag pasted over another's.
pastedTaskTag(k) ==
  CASE k = "transfer"      -> 0
    [] k \in {"filter_Pk", "loop_integral"} -> 10
    [] k = "one_loop_Pk"   -> 30
    [] k = "Matsubara_XY"  -> 40
    [] k = "multipole_Pk"  -> 50
    [] k = "counterterm"   -> 60

new_task_message(k) ==
  CASE k = "transfer"      -> 0
    [] k = "filter_Pk"     -> 10
    [] k = "loop_integral" -> 20
    [] k = "one_loop_Pk"   -> 30
    [] k = "Matsubara_XY"  -> 40
    [] k = "multipole_Pk"  -> 50
    [] k = "counterterm"   -> 60

new_item_message(k) ==
  CASE k = "transfer"      -> 1
    [] k = "filter_Pk"     -> 21
    [] k = "loop_integral" -> 21
    [] k = "one_loop_Pk"   -> 31
    [] k = "Matsubara_XY"  -> 51
    [] k = "multipole_Pk"  -> 51
    [] k = "counterterm"   -> 61

WORKER_READY       == 90
WORK_PRODUCT_READY == 91
END_OF_WORK        == 98
END_OF_WORK_ACK    == 99
TERMINATE          == 999

TaskTags    == {new_task_message(k) : k \in Kinds}
ItemTags    == {new_item_message(k) : k \in Kinds}
ControlTags == TaskTags \cup
               {WORKER_READY, END_OF_WORK, END_OF_WORK_ACK, TERMINATE}
AllTags     == ControlTags \cup ItemTags \cup {WORK_PRODUCT_READY}

\* Samples of these types can come back marked as failed.
KindsThatMayFail == {"filter_Pk", "loop_integral"}

\* setup_write() and finalize_write() touch no index for the other kind.
IndexedKinds == Kinds \ {"Matsubara_XY"}

UsedKinds == {KindOf[s] : s \in Stages}

\* scatter() throws ERROR_TOO_FEW_WORKERS if there is no worker.
ASSUME WorkersAssumption == IsFiniteSet(Workers) /\ Workers # {}

ASSUME StagesAssumption ==
  /\ NStages \in Nat
  /\ StageOf \in [Items -> Stages]
  /\ KindOf \in [Stages -> Kinds]

ASSUME NoItemAssumption == NoItem \notin Items

ASSUME BoundsAssumption == Buffered \subseteq AllTags /\ MaxCrashes \in Nat

Message == [tag : AllTags, item : Items \cup {NoItem}, fail : BOOLEAN]

Empty(t)     == [tag |-> t, item |-> NoItem, fail |-> FALSE]
NewItem(k, i) == [tag |-> new_item_message(k), item |-> i, fail |-> FALSE]
Product(i, f) == [tag |-> WORK_PRODUCT_READY, item |-> i, fail |-> f]

VARIABLES
  \* the store, on disk
  rows,        \* rows[i]: rows held for item i
  indexed,     \* indexed[k]: the tables of kind k have their indexes
  \* the master
  db_set,      \* a database was given on the command line
  pc,          \* where it is in execute() / scatter()
  stage,       \* the scatter() call it is in or will make next
  todo,        \* [next_work_item, cend): the items not yet handed out
  sch,         \* the scheduler
  list,        \* unassigned_list, from the iterator t on
  closed,      \* sent_closedown
  \* the workers
  wpc,         \* where a worker is
  wtask,       \* the WorkItem of its process_task<WorkItem>()
  witem,       \* the item it is computing
  \* MPI
  toWorker,    \* toWorker[w]: messages from the master to w
  toMaster,    \* toMaster[w]: messages from w to the master
  \* history
  crashes      \* jobs that died so far

storeVars  == <<rows, indexed>>
masterVars == <<db_set, pc, stage, todo, sch, list, closed>>
workerVars == <<wpc, wtask, witem>>
mpiVars    == <<toWorker, toMaster>>
vars == <<storeVars, masterVars, workerVars, mpiVars, crashes>>

MasterPCs == {"start", "between", "setup_wait", "init", "loop", "close_wait",
              "assign", "assigning", "assign_wait", "probe", "term_wait",
              "exited", "down"}
WorkerPCs == {"idle", "task", "computing", "ack", "exited"}

kind == KindOf[stage]

ItemsOfStage(s) == {i \in Items : StageOf[i] = s}
\* Mutated form: the work list is not reduced by what is in the store.
missingIgnoresRows(s) == ItemsOfStage(s)

MissingItems(s) == {i \in ItemsOfStage(s) : rows[i] = 0}

------------------------------------------------------------------------------
(***************************************************************************)
(* MPI.                                                                    *)
(***************************************************************************)
Arrived(channel, w, t) == channel[w] # <<>> /\ Head(channel[w]).tag = t

Receive(channel, w) == [channel EXCEPT ![w] = Tail(@)]

Send(channel, w, m) == [channel EXCEPT ![w] = Append(@, m)]

SendToAll(t) == [w \in Workers |-> Append(toWorker[w], Empty(t))]

\* The request of an isend() with tag t over this channel has completed.
SendComplete(messages, t) ==
  t \in Buffered \/ \A n \in 1 .. Len(messages) : messages[n].tag # t

\* wait_all() on the requests of isend()s with tag t returns.
WaitAll(t) == \A w \in Workers : SendComplete(toWorker[w], t)

------------------------------------------------------------------------------
(***************************************************************************)
(* A job starts: every process is created anew.                            *)
(***************************************************************************)
FreshProcesses ==
  /\ stage' = 1 /\ todo' = {} /\ list' = {} /\ closed' = FALSE
  /\ sch' = scheduler(0)
  /\ wpc' = [w \in Workers |-> "idle"]
  /\ wtask' = [w \in Workers |-> "transfer"]
  /\ witem' = [w \in Workers |-> NoItem]
  /\ toWorker' = [w \in Workers |-> <<>>]
  /\ toMaster' = [w \in Workers |-> <<>>]

Init ==
  /\ rows \in [Items -> {0, 1}]
  /\ indexed \in [UsedKinds -> BOOLEAN]
  /\ db_set \in BOOLEAN
  /\ pc = "start" /\ stage = 1 /\ todo = {} /\ list = {} /\ closed = FALSE
  /\ sch = scheduler(0)
  /\ wpc = [w \in Workers |-> "idle"]
  /\ wtask = [w \in Workers |-> "transfer"]
  /\ witem = [w \in Workers |-> NoItem]
  /\ toWorker = [w \in Workers |-> <<>>]
  /\ toMaster = [w \in Workers |-> <<>>]
  /\ crashes = 0

------------------------------------------------------------------------------
(***************************************************************************)
(* The master: execute().                                                  *)
(***************************************************************************)
Goto(label) == pc' = label

\* execute() returns at once when no database was named; nobody tells the
\* workers.
NoDatabase ==
  /\ pc = "start" /\ ~db_set
  /\ Goto("exited")
  /\ UNCHANGED <<storeVars, db_set, stage, todo, sch, list, closed, workerVars,
                 mpiVars, crashes>>

OpenDatabase ==
  /\ pc = "start" /\ db_set
  /\ Goto("between")
  /\ UNCHANGED <<storeVars, db_set, stage, todo, sch, list, closed, workerVars,
                 mpiVars, crashes>>

\* The build_*_work_list() call of a stage returned no list.
SkipStage ==
  /\ pc = "between" /\ stage \in Stages
  /\ MissingItems(stage) = {}
  /\ stage' = stage + 1
  /\ UNCHANGED <<storeVars, db_set, pc, todo, sch, list, closed, workerVars,
                 mpiVars, crashes>>

\* Mutated form: setup_write() is not called.
BeginScatterKeepsIndex ==
  /\ pc = "between" /\ stage \in Stages
  /\ MissingItems(stage) # {}
  /\ todo' = MissingItems(stage)
  /\ toWorker' = SendToAll(new_task_message(kind))
  /\ Goto("setup_wait")
  /\ UNCHANGED <<storeVars, db_set, stage, sch, list, closed, workerVars,
                 toMaster, crashes>>

\* scatter() up to the isend()s of set_up_workers(): setup_write() drops the
\* indexes, and every worker is told of the new task.
BeginScatter ==
  /\ pc = "between" /\ stage \in Stages
  /\ MissingItems(stage) # {}
  /\ todo' = MissingItems(stage)
  /\ indexed' = IF kind \in IndexedKinds THEN [indexed EXCEPT ![kind] = FALSE]
                                         ELSE indexed
  /\ toWorker' = SendToAll(new_task_message(kind))
  /\ Goto("setup_wait")
  /\ UNCHANGED <<rows, db_set, stage, sch, list, closed, workerVars, toMaster,
                 crashes>>

\* terminate_workers()
TerminateWorkers ==
  /\ pc = "between" /\ stage \notin Stages
  /\ toWorker' = SendToAll(TERMINATE)
  /\ Goto("term_wait")
  /\ UNCHANGED <<storeVars, db_set, stage, todo, sch, list, closed, workerVars,
                 toMaster, crashes>>

TerminateSent ==
  /\ pc = "term_wait" /\ WaitAll(TERMINATE)
  /\ Goto("exited")
  /\ UNCHANGED <<storeVars, db_set, stage, todo, sch, list, closed, workerVars,
                 mpiVars, crashes>>

------------------------------------------------------------------------------
(***************************************************************************)
(* The master: set_up_workers().                                           *)
(***************************************************************************)
SetUpSent ==
  /\ pc = "setup_wait" /\ WaitAll(new_task_message(kind))
  /\ sch' = scheduler(Cardinality(Workers))
  /\ Goto("init")
  /\ UNCHANGED <<storeVars, db_set, stage, todo, list, closed, workerVars,
                 mpiVars, crashes>>

\* The switch has this one case; a message with any other tag stays where it is.
ReceiveReady(w) ==
  /\ pc = "init" /\ ~is_ready(sch)
  /\ Arrived(toMaster, w, WORKER_READY)
  /\ toMaster' = Receive(toMaster, w)
  /\ sch' = initialize_worker(sch, w)
  /\ UNCHANGED <<storeVars, db_set, pc, stage, todo, list, closed, workerVars,
                 toWorker, crashes>>

AllReady ==
  /\ pc = "init" /\ is_ready(sch)
  /\ closed' = FALSE
  /\ Goto("loop")
  /\ UNCHANGED <<storeVars, db_set, stage, todo, sch, list, workerVars, mpiVars,
                 crashes>>

------------------------------------------------------------------------------
(***************************************************************************)
(* The master: the loop of scatter().                                      *)
(***************************************************************************)
\* while(!all_inactive()) ends; finalize_write() puts the indexes back.
EndScatter ==
  /\ pc = "loop" /\ all_inactive(sch)
  /\ indexed' = IF kind \in IndexedKinds THEN [indexed EXCEPT ![kind] = TRUE]
                                         ELSE indexed
  /\ stage' = stage + 1
  /\ Goto("between")
  /\ UNCHANGED <<rows, db_set, todo, sch, list, closed, workerVars, mpiVars,
                 crashes>>

\* Mutated form: the workers are closed down while items are left.
CloseDownEarly ==
  /\ pc = "loop" /\ ~all_inactive(sch)
  /\ ~closed
  /\ closed' = TRUE
  /\ toWorker' = SendToAll(END_OF_WORK)
  /\ Goto("close_wait")
  /\ UNCHANGED <<storeVars, db_set, stage, todo, sch, list, workerVars, toMaster,
                 crashes>>

\* close_down_workers(), as soon as the last item is handed out: busy workers
\* are told as well, and find the message behind the item they hold.
CloseDown ==
  /\ pc = "loop" /\ ~all_inactive(sch)
  /\ todo = {} /\ ~closed
  /\ closed' = TRUE
  /\ toWorker' = SendToAll(END_OF_WORK)
  /\ Goto("close_wait")
  /\ UNCHANGED <<storeVars, db_set, stage, todo, sch, list, workerVars, toMaster,
                 crashes>>

CloseDownSent ==
  /\ pc = "close_wait" /\ WaitAll(END_OF_WORK)
  /\ Goto("assign")
  /\ UNCHANGED <<storeVars, db_set, stage, todo, sch, list, closed, workerVars,
                 mpiVars, crashes>>

NoCloseDown ==
  /\ pc = "loop" /\ ~all_inactive(sch)
  /\ todo # {} \/ closed
  /\ Goto("assign")
  /\ UNCHANGED <<storeVars, db_set, stage, todo, sch, list, closed, workerVars,
                 mpiVars, crashes>>

MakeAssignment ==
  /\ pc = "assign" /\ todo # {} /\ is_assignable(sch)
  /\ list' = make_assignment(sch)
  /\ Goto("assigning")
  /\ UNCHANGED <<storeVars, db_set, stage, todo, sch, closed, workerVars, mpiVars,
                 crashes>>

NoAssignment ==
  /\ pc = "assign" /\ (todo = {} \/ ~is_assignable(sch))
  /\ Goto("probe")
  /\ UNCHANGED <<storeVars, db_set, stage, todo, sch, list, closed, workerVars,
                 mpiVars, crashes>>

\* Mutated form: the iterator over the unassigned workers is not advanced.
AssignItemSameWorker(w, i) ==
  /\ pc = "assigning" /\ i \in todo /\ w \in list
  /\ toWorker' = Send(toWorker, w, NewItem(kind, i))
  /\ sch' = mark_assigned(sch, w)
  /\ todo' = todo \ {i}
  /\ UNCHANGED <<storeVars, db_set, pc, stage, list, closed, workerVars,
                 toMaster, crashes>>

\* Mutated form: the iterator over the work list is not advanced.
AssignItemAgain(w, i) ==
  /\ pc = "assigning" /\ i \in todo /\ w \in list
  /\ toWorker' = Send(toWorker, w, NewItem(kind, i))
  /\ sch' = mark_assigned(sch, w)
  /\ list' = list \ {w}
  /\ UNCHANGED <<storeVars, db_set, pc, stage, todo, closed, workerVars,
                 toMaster, crashes>>

\* One iteration of the for loop.  Which worker of the list gets which item of
\* the work list is left open: the code takes both in order.
AssignItem(w, i) ==
  /\ pc = "assigning" /\ i \in todo /\ w \in list
  /\ toWorker' = Send(toWorker, w, NewItem(kind, i))
  /\ sch' = mark_assigned(sch, w)
  /\ todo' = todo \ {i}
  /\ list' = list \ {w}
  /\ UNCHANGED <<storeVars, db_set, pc, stage, closed, workerVars, toMaster,
                 crashes>>

AssignmentDone ==
  /\ pc = "assigning" /\ (todo = {} \/ list = {})
  /\ list' = {}
  /\ Goto("assign_wait")
  /\ UNCHANGED <<storeVars, db_set, stage, todo, sch, closed, workerVars, mpiVars,
                 crashes>>

AssignmentSent ==
  /\ pc = "assign_wait" /\ WaitAll(new_item_message(kind))
  /\ Goto("probe")
  /\ UNCHANGED <<storeVars, db_set, stage, todo, sch, list, closed, workerVars,
                 mpiVars, crashes>>

\* A product arrived: store_payload() receives it and writes it to the store in
\* a transaction of its own, then the worker is free again.
StoreProduct(w) ==
  /\ pc = "probe" /\ Arrived(toMaster, w, WORK_PRODUCT_READY)
  /\ ~Head(toMaster[w]).fail
  /\ rows' = [rows EXCEPT ![Head(toMaster[w]).item] = @ + 1]
  /\ toMaster' = Receive(toMaster, w)
  /\ sch' = mark_unassigned(sch, w)
  /\ UNCHANGED <<indexed, db_set, pc, stage, todo, list, closed, workerVars,
                 toWorker, crashes>>

ReceiveAck(w) ==
  /\ pc = "probe" /\ Arrived(toMaster, w, END_OF_WORK_ACK)
  /\ toMaster' = Receive(toMaster, w)
  /\ sch' = mark_inactive(sch, w)
  /\ UNCHANGED <<storeVars, db_set, pc, stage, todo, list, closed, workerVars,
                 toWorker, crashes>>

\* iprobe() found nothing.  It may miss a message still on its way.
NoMessage ==
  /\ pc = "probe"
  /\ Goto("loop")
  /\ UNCHANGED <<storeVars, db_set, stage, todo, sch, list, closed, workerVars,
                 mpiVars, crashes>>

------------------------------------------------------------------------------
(***************************************************************************)
(* A worker: slave_controller::execute(), process_task(), process_item().  *)
(***************************************************************************)
WorkerUnchanged == UNCHANGED <<storeVars, masterVars, crashes>>

ReceiveTask(w) ==
  /\ wpc[w] = "idle"
  /\ \E k \in Kinds : /\ Arrived(toWorker, w, new_task_message(k))
                      /\ wtask' = [wtask EXCEPT ![w] = k]
  /\ toWorker' = Receive(toWorker, w)
  /\ toMaster' = Send(toMaster, w, Empty(WORKER_READY))
  /\ wpc' = [wpc EXCEPT ![w] = "task"]
  /\ WorkerUnchanged /\ UNCHANGED witem

ReceiveTerminate(w) ==
  /\ wpc[w] = "idle" /\ Arrived(toWorker, w, TERMINATE)
  /\ toWorker' = Receive(toWorker, w)
  /\ wpc' = [wpc EXCEPT ![w] = "exited"]
  /\ WorkerUnchanged /\ UNCHANGED <<wtask, witem, toMaster>>

ReceiveItem(w) ==
  /\ wpc[w] = "task" /\ Arrived(toWorker, w, new_item_message(wtask[w]))
  /\ toWorker' = Receive(toWorker, w)
  /\ witem' = [witem EXCEPT ![w] = Head(toWorker[w]).item]
  /\ wpc' = [wpc EXCEPT ![w] = "computing"]
  /\ WorkerUnchanged /\ UNCHANGED <<wtask, toMaster>>

\* The calculation is over, and its product is on its way to the master.  Some
\* calculations can fail; their sample is sent all the same.  A failed sample
\* ends the job (StoreFailed), hence the bound.
FinishItem(w, fail) ==
  /\ wpc[w] = "computing"
  /\ fail => wtask[w] \in KindsThatMayFail /\ crashes < MaxCrashes
  /\ toMaster' = Send(toMaster, w, Product(witem[w], fail))
  /\ witem' = [witem EXCEPT ![w] = NoItem]
  /\ wpc' = [wpc EXCEPT ![w] = "ack"]
  /\ WorkerUnchanged /\ UNCHANGED <<wtask, toWorker>>

\* ack.wait() returns.
ProductSent(w) ==
  /\ wpc[w] = "ack" /\ SendComplete(toMaster[w], WORK_PRODUCT_READY)
  /\ wpc' = [wpc EXCEPT ![w] = "task"]
  /\ WorkerUnchanged /\ UNCHANGED <<wtask, witem, mpiVars>>

ReceiveEndOfWork(w) ==
  /\ wpc[w] = "task" /\ Arrived(toWorker, w, END_OF_WORK)
  /\ toWorker' = Receive(toWorker, w)
  /\ toMaster' = Send(toMaster, w, Empty(END_OF_WORK_ACK))
  /\ wpc' = [wpc EXCEPT ![w] = "idle"]
  /\ WorkerUnchanged /\ UNCHANGED <<wtask, witem>>

------------------------------------------------------------------------------
(***************************************************************************)
(* The death of a job.  No exception is caught on the way to main(), so an *)
(* exception in any process ends it, and MPI ends the others.              *)
(***************************************************************************)
JobDies ==
  /\ crashes < MaxCrashes
  /\ crashes' = crashes + 1
  /\ Goto("down")
  /\ FreshProcesses
  /\ UNCHANGED <<storeVars, db_set>>

\* sqlite3_operations::store() throws on a sample marked as failed; its
\* transaction is not committed.
StoreFailed(w) ==
  /\ pc = "probe" /\ Arrived(toMaster, w, WORK_PRODUCT_READY)
  /\ Head(toMaster[w]).fail
  /\ JobDies

Crash == pc \notin {"exited", "down"} /\ JobDies

Restart ==
  /\ pc = "down"
  /\ Goto("start")
  /\ UNCHANGED <<storeVars, db_set, stage, todo, sch, list, closed, workerVars,
                 mpiVars, crashes>>

\* The master has returned from execute().
Finished == pc = "exited" /\ UNCHANGED vars

------------------------------------------------------------------------------
MasterStep ==
  \/ NoDatabase \/ OpenDatabase \/ SkipStage \/ BeginScatter
  \/ TerminateWorkers \/ TerminateSent
  \/ SetUpSent \/ (\E w \in Workers : ReceiveReady(w)) \/ AllReady
  \/ EndScatter \/ CloseDown \/ CloseDownSent \/ NoCloseDown
  \/ MakeAssignment \/ NoAssignment
  \/ (\E w \in Workers, i \in Items : AssignItem(w, i))
  \/ AssignmentDone \/ AssignmentSent
  \/ (\E w \in Workers : StoreProduct(w) \/ ReceiveAck(w)) \/ NoMessage

WorkerStep(w) ==
  \/ ReceiveTask(w) \/ ReceiveTerminate(w) \/ ReceiveItem(w)
  \/ (\E fail \in BOOLEAN : FinishItem(w, fail))
  \/ ProductSent(w) \/ ReceiveEndOfWork(w)

Next ==
  \/ MasterStep
  \/ \E w \in Workers : WorkerStep(w)
  \/ (\E w \in Workers : StoreFailed(w)) \/ Crash \/ Restart
  \/ Finished

Spec == Init /\ [][Next]_vars

(***************************************************************************)
(* No process stops while it can go on, a calculation ends, and a message  *)
(* that is waiting is found by one of the iprobe() calls still to come.    *)
(***************************************************************************)
Fairness ==
  /\ WF_vars(MasterStep)
  /\ \A w \in Workers :
       /\ WF_vars(WorkerStep(w))
       /\ SF_vars(StoreProduct(w) \/ StoreFailed(w))
       /\ SF_vars(ReceiveAck(w))

FairSpec == Spec /\ Fairness
==============================================================================
