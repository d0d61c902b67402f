--------------------------- MODULE ScatterTheorems ----------------------------
(***************************************************************************)
(* The steps of the master preserve the invariant too, and what follows    *)
(* from it: theorems about every job of module Scatter, for any number of  *)
(* workers, items and stages, and whatever the MPI library buffers.        *)
(***************************************************************************)
EXTENDS ScatterProofs

\* Outside the loop a step preserves the invariant if it leaves the scheduler,
\* the store and the workers alone and every worker's position still fits.
LEMMA QuietStepInv ==
  ASSUME IInv, UNCHANGED <<storeVars, db_set, todo, sch, list, closed, crashes>>,
         pc' \in {"start", "between", "exited", "term_wait"},
         stage' \in 1 .. NStages + 1, pc' = "start" => stage' = 1,
         WorkerTypes', \A w \in Workers : WorkerInv(w)'
  PROVE  IInv'
  <1> USE DEF storeVars
  <1>1. ~InLoop' /\ pc' \notin {"init", "setup_wait", "close_wait", "assigning"}
    BY DEF InLoop
  <1>2. pc' \in MasterPCs
    BY DEF MasterPCs
  <1>3. TypeOK'
    BY <1>2 DEF IInv, TypeOK, WorkerTypes
  <1>4. MasterInv' /\ SchedulerConsistent' /\ ItemsInv' /\ IndexInv'
    BY <1>1 DEF IInv, MasterInv, SchedulerConsistent, ItemsInv, IndexInv
  <1> QED BY <1>3, <1>4 DEF IInv

\* Sending one message with the same tag to every worker.
LEMMA SendToAllTypes ==
  ASSUME TypeOK, NEW t \in AllTags
  PROVE  /\ SendToAll(t) \in [Workers -> Seq(Message)]
         /\ \A w \in Workers : SendToAll(t)[w] = Append(toWorker[w], Empty(t))
  <1>1. Empty(t) \in Message
    BY DEF Empty, Message
  <1> QED BY <1>1 DEF TypeOK, SendToAll

\* The early return without a database keeps the invariant.
LEMMA NoDatabaseInv == IInv /\ NoDatabase => IInv'
  <1> SUFFICES ASSUME IInv, NoDatabase PROVE IInv'
    OBVIOUS
  <1> USE DEF NoDatabase, Goto, workerVars, mpiVars
  <1>1. WorkerTypes'
    BY DEF IInv, TypeOK, WorkerTypes
  <1>2. ASSUME NEW w \in Workers PROVE WorkerInv(w)'
    <2>1. Resting(w)
      BY DEF IInv, WorkerInv
    <2>2. Leaving(w)'
      BY <2>1 DEF Resting, Leaving, Channels
    <2> QED BY <2>2 DEF WorkerInv, InLoop
  <1> QED BY <1>1, <1>2, QuietStepInv DEF IInv, TypeOK

\* Opening the database keeps the invariant.
LEMMA OpenDatabaseInv == IInv /\ OpenDatabase => IInv'
  <1> SUFFICES ASSUME IInv, OpenDatabase PROVE IInv'
    OBVIOUS
  <1> USE DEF OpenDatabase, Goto, workerVars, mpiVars
  <1>1. WorkerTypes'
    BY DEF IInv, TypeOK, WorkerTypes
  <1>2. ASSUME NEW w \in Workers PROVE WorkerInv(w)'
    BY DEF IInv, WorkerInv, InLoop, Resting, Channels
  <1> QED BY <1>1, <1>2, QuietStepInv DEF IInv, TypeOK

\* A stage without a work list keeps the invariant.
LEMMA SkipStageInv == IInv /\ SkipStage => IInv'
  <1> SUFFICES ASSUME IInv, SkipStage PROVE IInv'
    OBVIOUS
  <1> USE DEF SkipStage, workerVars, mpiVars
  <1>1. WorkerTypes'
    BY DEF IInv, TypeOK, WorkerTypes
  <1>2. ASSUME NEW w \in Workers PROVE WorkerInv(w)'
    BY DEF IInv, WorkerInv, InLoop, Resting, Channels
  <1>3. stage' \in 1 .. NStages + 1
    BY StagesAssumption DEF Stages
  <1> QED BY <1>1, <1>2, <1>3, QuietStepInv

\* A new job starts in a state of the invariant.
LEMMA RestartInv == IInv /\ Restart => IInv'
  <1> SUFFICES ASSUME IInv, Restart PROVE IInv'
    OBVIOUS
  <1> USE DEF Restart, Goto, workerVars, mpiVars
  <1>1. WorkerTypes'
    BY DEF IInv, TypeOK, WorkerTypes
  <1>2. ASSUME NEW w \in Workers PROVE WorkerInv(w)'
    BY DEF IInv, WorkerInv, InLoop, Resting, Channels
  <1>3. stage' = 1 /\ stage' \in 1 .. NStages + 1
    BY DEF IInv, MasterInv, TypeOK
  <1> QED BY <1>1, <1>2, <1>3, QuietStepInv

\* The isend()s of terminate_workers() keep the invariant.
LEMMA TerminateWorkersInv == IInv /\ TerminateWorkers => IInv'
  <1> SUFFICES ASSUME IInv, TerminateWorkers PROVE IInv'
    OBVIOUS
  <1> USE DEF TerminateWorkers, Goto, workerVars
  <1>1. TERMINATE \in AllTags
    BY DEF AllTags, ControlTags
  <1>2. WorkerTypes'
    BY <1>1, SendToAllTypes DEF IInv, TypeOK, WorkerTypes
  <1>3. ASSUME NEW w \in Workers PROVE WorkerInv(w)'
    <2>1. Resting(w)
      BY DEF IInv, WorkerInv
    <2>2. toWorker'[w] = <<Empty(TERMINATE)>>
      BY <1>1, <2>1, SendToAllTypes, Channel0 DEF IInv, Resting, Channels
    <2>3. Leaving(w)'
      BY <2>1, <2>2 DEF Resting, Leaving, Channels
    <2> QED BY <2>3 DEF WorkerInv, InLoop
  <1> QED BY <1>2, <1>3, QuietStepInv DEF IInv, TypeOK

\* The wait_all() of terminate_workers() keeps the invariant.
LEMMA TerminateSentInv == IInv /\ TerminateSent => IInv'
  <1> SUFFICES ASSUME IInv, TerminateSent PROVE IInv'
    OBVIOUS
  <1> USE DEF TerminateSent, Goto, workerVars, mpiVars
  <1>1. WorkerTypes'
    BY DEF IInv, TypeOK, WorkerTypes
  <1>2. ASSUME NEW w \in Workers PROVE WorkerInv(w)'
    BY DEF IInv, WorkerInv, InLoop, Leaving, Resting, Channels
  <1> QED BY <1>1, <1>2, QuietStepInv DEF IInv, TypeOK

------------------------------------------------------------------------------
(***************************************************************************)
(* The start of a scatter().                                               *)
(***************************************************************************)
LEMMA IndexType ==
  ASSUME IInv, stage \in Stages, NEW b \in BOOLEAN
  PROVE  /\ kind \in UsedKinds
         /\ [indexed EXCEPT ![kind] = b] \in [UsedKinds -> BOOLEAN]
         /\ [indexed EXCEPT ![kind] = b][kind] = b
  BY DEF IInv, TypeOK, UsedKinds, kind

\* The start of scatter() establishes the invariant's part about a called worker.
LEMMA BeginScatterInv == IInv /\ BeginScatter => IInv'
  <1> SUFFICES ASSUME IInv, BeginScatter PROVE IInv'
    OBVIOUS
  <1> USE DEF BeginScatter, Goto, workerVars
  <1> DEFINE t == new_task_message(kind)
  <1>1. t \in AllTags
    BY KindType DEF AllTags, ControlTags, TaskTags
  <1>2. TypeOK'
    <2>1. toWorker' \in [Workers -> Seq(Message)]
      BY <1>1, SendToAllTypes DEF IInv
    <2>2. indexed' \in [UsedKinds -> BOOLEAN]
      BY IndexType DEF IInv, TypeOK
    <2>3. todo' \subseteq Items
      BY DEF MissingItems, ItemsOfStage
    <2>4. pc' \in MasterPCs
      BY DEF MasterPCs
    <2> QED BY <2>1, <2>2, <2>3, <2>4 DEF IInv, TypeOK
  <1>3. ASSUME NEW w \in Workers PROVE WorkerInv(w)'
    <2>1. Resting(w)
      BY DEF IInv, WorkerInv
    <2>2. toWorker'[w] = <<Empty(t)>>
      BY <1>1, <2>1, SendToAllTypes, Channel0 DEF IInv, Resting, Channels
    <2>3. Called(w)'
      BY <2>1, <2>2 DEF Resting, Called, Channels, kind
    <2> QED BY <2>3 DEF WorkerInv, InLoop
  <1>4. ~InLoop'
    BY DEF InLoop
  <1>5. MasterInv' /\ SchedulerConsistent' /\ ItemsInv'
    BY <1>4 DEF IInv, MasterInv, SchedulerConsistent, ItemsInv, MissingItems,
                ItemsOfStage
  <1>6. IndexInv'
    BY IndexType DEF IndexInv, kind
  <1> QED BY <1>2, <1>3, <1>5, <1>6 DEF IInv

\* The new scheduler counts every worker as not yet initialized.
LEMMA SetUpSentInv == IInv /\ SetUpSent => IInv'
  <1> SUFFICES ASSUME IInv, SetUpSent PROVE IInv'
    OBVIOUS
  <1> USE DEF SetUpSent, Goto, storeVars, workerVars, mpiVars
  <1>1. GoodScheduler(sch')
    BY WorkersAssumption, SchedulerBegins
  <1>2. sch'.initialized = {} /\ sch'.assigned = {} /\ sch'.inactive = {}
    BY DEF scheduler
  <1>3. TypeOK'
    BY <1>1 DEF IInv, TypeOK, GoodScheduler, MasterPCs
  <1>4. ASSUME NEW w \in Workers PROVE WorkerInv(w)'
    <2>1. Called(w) \/ Reported(w)
      BY DEF IInv, WorkerInv
    <2>2. Called(w)' \/ Reported(w)'
      BY <2>1 DEF Called, Reported, Channels, kind
    <2> QED BY <1>2, <2>2 DEF WorkerInv, InLoop
  <1>5. MasterInv'
    BY <1>2 DEF IInv, MasterInv, InLoop
  <1>6. SchedulerConsistent'
    BY <1>1 DEF SchedulerConsistent, GoodScheduler
  <1>7. ItemsInv' /\ IndexInv'
    BY DEF IInv, ItemsInv, IndexInv, InLoop, MissingItems, ItemsOfStage, kind
  <1> QED BY <1>3, <1>4, <1>5, <1>6, <1>7 DEF IInv

\* Everywhere the scheduler is in use it is a good one.
LEMMA SchedulerGood ==
  ASSUME IInv, pc = "init" \/ InLoop
  PROVE  GoodScheduler(sch)
  BY DEF IInv, MasterInv, SchedulerConsistent, GoodScheduler, TypeOK,
         SchedulerState

\* A worker that reports in has not done so before.
LEMMA ReadyArrives ==
  ASSUME IInv, NEW w \in Workers, pc = "init", toMaster[w] # <<>>
  PROVE  /\ Reported(w) /\ w \notin sch.initialized
         /\ MayInitialize(sch, w)
         /\ Head(toMaster[w]).tag = WORKER_READY
  <1>1. WorkerInv(w)
    BY DEF IInv
  <1>2. Reported(w) /\ w \notin sch.initialized
    BY <1>1 DEF WorkerInv, Called, InTask, Channels
  <1>3. CountersMatchFlags(sch) /\ sch \in SchedulerState
    BY DEF IInv, SchedulerConsistent, TypeOK
  <1>4. w \in Workers \ sch.initialized
    BY <1>2
  <1>5. Cardinality(Workers \ sch.initialized) > 0
    BY <1>4, SomebodyLeft, WorkersAssumption
  <1>6. MayInitialize(sch, w)
    BY <1>2, <1>3, <1>5 DEF MayInitialize, CountersMatchFlags
  <1>7. Head(toMaster[w]).tag = WORKER_READY
    BY <1>2, Channel1 DEF Reported, Channels, Empty
  <1> QED BY <1>2, <1>6, <1>7

\* A ready message keeps the invariant; the worker it names was not initialized.
LEMMA ReceiveReadyInv ==
  ASSUME IInv, NEW w \in Workers, ReceiveReady(w)
  PROVE  IInv'
  <1> USE DEF ReceiveReady, storeVars, workerVars
  <1>1. /\ Reported(w) /\ w \notin sch.initialized /\ MayInitialize(sch, w)
        /\ toMaster[w] # <<>>
    BY ReadyArrives DEF Arrived
  <1>2. GoodScheduler(sch')
    BY <1>1, SchedulerGood, InitializeCounts, WorkersAssumption
  <1>3. /\ sch'.initialized = sch.initialized \cup {w}
        /\ sch'.assigned = sch.assigned /\ sch'.inactive = sch.inactive
    BY DEF initialize_worker, IInv, TypeOK, SchedulerState
  <1>4. TypeOK'
    BY <1>1, <1>2, ReceiveTypes DEF IInv, TypeOK, GoodScheduler
  <1>5. ASSUME NEW v \in Workers PROVE WorkerInv(v)'
    <2>1. CASE v = w
      <3>1. toMaster'[w] = <<>>
        BY <1>1, Channel1 DEF IInv, TypeOK, Receive, Reported, Channels
      <3>2. InTask(w, <<>>, <<>>)'
        BY <1>1, <3>1 DEF Reported, InTask, Channels, kind
      <3> QED BY <1>3, <2>1, <3>2 DEF WorkerInv, InLoop
    <2>2. CASE v # w
      <3>1. Untouched(v)
        BY <2>2 DEF IInv, TypeOK, Untouched, Receive
      <3>2. WorkerInv(v)
        BY DEF IInv
      <3>3. /\ Called(v)' <=> Called(v)
            /\ Reported(v)' <=> Reported(v)
            /\ InTask(v, <<>>, <<>>)' <=> InTask(v, <<>>, <<>>)
        BY <3>1, UntouchedLemma
      <3> QED BY <1>3, <2>2, <3>2, <3>3 DEF WorkerInv, InLoop
    <2> QED BY <2>1, <2>2
  <1>6. MasterInv'
    BY <1>3 DEF IInv, MasterInv, InLoop
  <1>7. SchedulerConsistent'
    BY <1>2 DEF SchedulerConsistent, GoodScheduler
  <1>8. ItemsInv' /\ IndexInv'
    BY DEF IInv, ItemsInv, IndexInv, InLoop, MissingItems, ItemsOfStage, kind
  <1> QED BY <1>4, <1>5, <1>6, <1>7, <1>8 DEF IInv

\* A worker with empty channels, in process_task() between two items, has none.
LEMMA NothingHeld ==
  ASSUME NEW w \in Workers, NEW i, InTask(w, <<>>, <<>>)
  PROVE  ~Holds(w, i)
  BY DEF Holds, InTask, Computing, Channels

\* When every worker is initialized the loop starts with all of them free.
LEMMA AllReadyInv == IInv /\ AllReady => IInv'
  <1> SUFFICES ASSUME IInv, AllReady PROVE IInv'
    OBVIOUS
  <1> USE DEF AllReady, Goto, storeVars, workerVars, mpiVars
  <1>1. sch.initialized = Workers /\ sch.assigned = {} /\ sch.inactive = {}
    <2>1. CountersMatchFlags(sch) /\ sch \in SchedulerState
      BY DEF IInv, SchedulerConsistent, TypeOK
    <2>2. Workers \ sch.initialized = {}
      BY <2>1, NobodyLeft, WorkersAssumption DEF CountersMatchFlags, is_ready
    <2> QED BY <2>1, <2>2 DEF IInv, MasterInv, SchedulerState
  <1>2. \A w \in Workers : InTask(w, <<>>, <<>>)
    BY <1>1 DEF IInv, WorkerInv
  <1>3. \A w \in Workers : InTask(w, <<>>, <<>>)'
    BY <1>2 DEF InTask, Channels, kind
  <1>4. TypeOK'
    BY DEF IInv, TypeOK, MasterPCs
  <1>5. ASSUME NEW w \in Workers PROVE WorkerInv(w)'
    <2>1. Free(w)'
      BY <1>1, <1>3 DEF Free
    <2> QED BY <1>1, <2>1 DEF WorkerInv, InLoop
  <1>6. \A w \in Workers, i \in Items : ~Holds(w, i)'
    BY <1>3 DEF Holds, InTask, Computing, Channels
  <1>7. LoopItems'
    <2>1. /\ todo' = MissingItems(stage)'
          /\ MissingItems(stage)' \subseteq Items
      BY DEF IInv, ItemsInv, MissingItems, ItemsOfStage
    <2> QED BY <1>6, <2>1 DEF LoopItems
  <1>8. MasterInv' /\ SchedulerConsistent'
    BY <1>1 DEF IInv, MasterInv, SchedulerConsistent, InLoop
  <1>9. ItemsInv' /\ IndexInv'
    BY <1>7 DEF IInv, ItemsInv, IndexInv, InLoop, kind
  <1> QED BY <1>4, <1>5, <1>8, <1>9 DEF IInv

------------------------------------------------------------------------------
(***************************************************************************)
(* The loop of scatter().                                                  *)
(***************************************************************************)
\* A step of the loop preserves the invariant if it only moves the master and
\* its list of unassigned workers.
LEMMA LoopStepInv ==
  ASSUME IInv, InLoop, InLoop',
         UNCHANGED <<storeVars, db_set, stage, todo, sch, closed, workerVars,
                     mpiVars, crashes>>,
         list' \subseteq Workers,
         pc' = "close_wait" => closed,
         pc' = "assigning" => ~closed /\ list' \subseteq Workers \ sch.assigned
  PROVE  IInv'
  <1> USE DEF storeVars, workerVars, mpiVars
  <1>1. pc' \in MasterPCs
    BY DEF InLoop, MasterPCs
  <1>2. TypeOK'
    BY <1>1 DEF IInv, TypeOK
  <1>3. \A w \in Workers : Untouched(w)
    BY DEF Untouched
  <1>4. ASSUME NEW w \in Workers PROVE WorkerInv(w)'
    <2>1. WorkerInv(w)
      BY DEF IInv
    <2>2. /\ Free(w)' <=> Free(w)
          /\ \A i : Holds(w, i)' <=> Holds(w, i)
      BY <1>3, UntouchedLemma
    <2> QED BY <2>1, <2>2 DEF WorkerInv, InLoop
  <1>5. LoopItems'
    <2>1. \A w \in Workers, i \in Items : Holds(w, i)' <=> Holds(w, i)
      BY <1>3, UntouchedLemma
    <2>2. /\ MissingItems(stage)' = MissingItems(stage)
          /\ MissingItems(stage) \subseteq Items /\ todo' = todo
      BY DEF MissingItems, ItemsOfStage
    <2>3. LoopItems
      BY DEF IInv, ItemsInv
    <2> QED BY ONLY <2>1, <2>2, <2>3 DEF LoopItems
  <1>6. MasterInv' /\ SchedulerConsistent'
    BY DEF IInv, MasterInv, SchedulerConsistent, InLoop
  <1>7. ItemsInv' /\ IndexInv'
    BY <1>5 DEF IInv, ItemsInv, IndexInv, InLoop, kind
  <1> QED BY <1>2, <1>4, <1>6, <1>7 DEF IInv

\* The wait_all() of close_down_workers() keeps the invariant.
LEMMA CloseDownSentInv == IInv /\ CloseDownSent => IInv'
  BY LoopStepInv DEF CloseDownSent, Goto, InLoop, IInv, TypeOK

\* Passing the close-down test keeps the invariant.
LEMMA NoCloseDownInv == IInv /\ NoCloseDown => IInv'
  BY LoopStepInv DEF NoCloseDown, Goto, InLoop, IInv, TypeOK

\* Passing the assignment test keeps the invariant.
LEMMA NoAssignmentInv == IInv /\ NoAssignment => IInv'
  BY LoopStepInv DEF NoAssignment, Goto, InLoop, IInv, TypeOK

\* The wait_all() after an assignment keeps the invariant.
LEMMA AssignmentSentInv == IInv /\ AssignmentSent => IInv'
  BY LoopStepInv DEF AssignmentSent, Goto, InLoop, IInv, TypeOK

\* An iprobe() that finds nothing keeps the invariant.
LEMMA NoMessageInv == IInv /\ NoMessage => IInv'
  BY LoopStepInv DEF NoMessage, Goto, InLoop, IInv, TypeOK

\* The end of the assignment loop keeps the invariant.
LEMMA AssignmentDoneInv == IInv /\ AssignmentDone => IInv'
  BY LoopStepInv DEF AssignmentDone, Goto, InLoop

\* make_assignment() lists workers that are free, as nothing is closed down.
LEMMA MakeAssignmentInv == IInv /\ MakeAssignment => IInv'
  <1> SUFFICES ASSUME IInv, MakeAssignment PROVE IInv'
    OBVIOUS
  <1>1. ~closed /\ InLoop /\ InLoop' /\ list' \subseteq Workers \ sch.assigned
    BY DEF MakeAssignment, Goto, make_assignment, InLoop, IInv, MasterInv
  <1> QED BY <1>1, LoopStepInv DEF MakeAssignment, Goto

\* When no worker is active, all are at rest and the stage may be left.
LEMMA EndScatterInv == IInv /\ EndScatter => IInv'
  <1> SUFFICES ASSUME IInv, EndScatter PROVE IInv'
    OBVIOUS
  <1> USE DEF EndScatter, Goto, workerVars, mpiVars
  <1>1. InLoop /\ ~InLoop' /\ stage \in Stages
    BY DEF InLoop, IInv, MasterInv
  <1>2. Workers \subseteq sch.inactive
    <2>1. CountersMatchFlags(sch) /\ sch.initialized = Workers
      BY <1>1 DEF IInv, SchedulerConsistent, MasterInv
    <2>2. Workers \ sch.inactive = {}
      BY <2>1, NobodyLeft, WorkersAssumption DEF CountersMatchFlags, all_inactive
    <2> QED BY <2>2
  <1>3. TypeOK'
    <2>1. indexed' \in [UsedKinds -> BOOLEAN]
      BY <1>1, IndexType DEF IInv, TypeOK
    <2>2. stage' \in 1 .. NStages + 1
      BY <1>1, StagesAssumption DEF Stages
    <2> QED BY <2>1, <2>2 DEF IInv, TypeOK, MasterPCs
  <1>4. ASSUME NEW w \in Workers PROVE WorkerInv(w)'
    <2>1. Resting(w)
      BY <1>1, <1>2 DEF IInv, WorkerInv, Free
    <2>2. Resting(w)'
      BY <2>1 DEF Resting, Channels
    <2> QED BY <2>2 DEF WorkerInv, InLoop
  <1>5. MasterInv' /\ SchedulerConsistent' /\ ItemsInv' /\ IndexInv'
    BY <1>1 DEF IInv, MasterInv, SchedulerConsistent, ItemsInv, IndexInv, InLoop
  <1> QED BY <1>3, <1>4, <1>5 DEF IInv

\* close_down_workers() puts an end-of-work message behind whatever a worker has.
LEMMA CloseDownInv == IInv /\ CloseDown => IInv'
  <1> SUFFICES ASSUME IInv, CloseDown PROVE IInv'
    OBVIOUS
  <1> USE DEF CloseDown, Goto, storeVars, workerVars
  <1>1. InLoop /\ InLoop' /\ closed' /\ ~closed
    BY DEF InLoop
  <1>2. END_OF_WORK \in AllTags
    BY DEF AllTags, ControlTags
  <1>3. TypeOK'
    <2>1. toWorker' \in [Workers -> Seq(Message)]
      BY <1>2, SendToAllTypes DEF IInv
    <2> QED BY <2>1 DEF IInv, TypeOK, MasterPCs
  <1>4. \A w \in Workers : toWorker'[w] = Append(toWorker[w], EOW)
    BY <1>2, SendToAllTypes DEF IInv, EOW
  <1>5. ASSUME NEW w \in Workers, w \in sch.assigned
        PROVE  \E i \in Items : /\ \A j \in Items : Holds(w, j) <=> j = i
                                /\ \A j \in Items : Holds(w, j)' <=> j = i
    <2>1. PICK i \in Items : Holds(w, i)
      BY <1>1, <1>5 DEF IInv, WorkerInv
    <2>2. \A j \in Items : Holds(w, j) <=> j = i
      BY <2>1, HoldsOne
    <2>3. \A j \in Items : Holds(w, j)' <=> j = i
      <3>1. CASE InTask(w, <<NewItem(kind, i)>>, <<>>)
        <4>1. toWorker'[w] = <<NewItem(kind, i), EOW>>
          BY <1>4, <3>1, Channel1 DEF InTask, Channels
        <4>2. \A j : /\ <<NewItem(kind, i), EOW>> = <<NewItem(kind, j), EOW>>
                          => i = j
                     /\ <<NewItem(kind, i), EOW>> # <<EOW>>
          BY MessageFacts, ChannelsDiffer
        <4> QED BY <1>1, <3>1, <4>1, <4>2
                DEF Holds, InTask, Computing, Channels, kind
      <3>2. CASE Computing(w, i, <<>>)
        <4>1. toWorker'[w] = <<EOW>>
          BY <1>4, <3>2, Channel0 DEF Computing, Channels
        <4> QED BY <1>1, <3>2, <4>1 DEF Holds, InTask, Computing, Channels, kind
      <3>3. CASE \E f \in BOOLEAN : InTask(w, <<>>, <<Product(i, f)>>)
        <4>1. PICK f \in BOOLEAN : InTask(w, <<>>, <<Product(i, f)>>)
          BY <3>3
        <4>2. toWorker'[w] = <<EOW>> /\ toMaster'[w] = <<Product(i, f)>>
          BY <1>4, <4>1, Channel0 DEF InTask, Channels
        <4>3. \A j, g : /\ <<Product(i, f)>> = <<Product(j, g)>> => i = j
                        /\ <<Product(i, f)>> # <<>>
          BY MessageFacts, ChannelsDiffer
        <4> QED BY <1>1, <4>1, <4>2, <4>3
                DEF Holds, InTask, Computing, Channels, kind
      <3> QED BY <1>1, <2>1, <3>1, <3>2, <3>3 DEF Holds
    <2> QED BY <2>2, <2>3
  <1>6. ASSUME NEW w \in Workers, w \notin sch.assigned
        PROVE  Free(w)' /\ \A i \in Items : ~Holds(w, i) /\ ~Holds(w, i)'
    <2>1. w \notin sch.inactive /\ InTask(w, <<>>, <<>>)
      BY <1>1, <1>6 DEF IInv, WorkerInv, Free
    <2>2. toWorker'[w] = <<EOW>> /\ toMaster'[w] = <<>>
      BY <1>4, <2>1, Channel0 DEF InTask, Channels
    <2>3. \A i, f : <<Product(i, f)>> # <<>> /\ <<NewItem(kind, i), EOW>> # <<EOW>>
                    /\ <<Product(i, f), ACK>> # <<>>
      BY ChannelsDiffer
    <2>4. \A i \in Items : ~Holds(w, i)'
      BY <1>1, <2>1, <2>2, <2>3 DEF Holds, InTask, Computing, Channels, kind
    <2>5. Free(w)'
      BY <1>1, <2>1, <2>2 DEF Free, InTask, Channels, kind
    <2> QED BY <2>1, <2>4, <2>5, NothingHeld
  <1>7. ASSUME NEW w \in Workers PROVE WorkerInv(w)'
    <2>1. CASE w \in sch.assigned
      BY <1>1, <1>5, <2>1 DEF IInv, WorkerInv, InLoop
    <2>2. CASE w \notin sch.assigned
      BY <1>6, <2>2 DEF WorkerInv, InLoop
    <2> QED BY <2>1, <2>2
  <1>8. LoopItems'
    <2>1. \A w \in Workers, i \in Items : Holds(w, i)' <=> Holds(w, i)
      BY <1>5, <1>6
    <2>2. /\ MissingItems(stage)' = MissingItems(stage)
          /\ MissingItems(stage) \subseteq Items /\ todo' = todo
      BY DEF MissingItems, ItemsOfStage
    <2>3. LoopItems
      BY <1>1 DEF IInv, ItemsInv
    <2> QED BY ONLY <2>1, <2>2, <2>3 DEF LoopItems
  <1>9. MasterInv' /\ SchedulerConsistent'
    BY DEF IInv, MasterInv, SchedulerConsistent, InLoop
  <1>10. ItemsInv' /\ IndexInv'
    BY <1>8 DEF IInv, ItemsInv, IndexInv, InLoop, kind
  <1> QED BY <1>3, <1>7, <1>9, <1>10 DEF IInv

\* In the loop a worker that a step does not touch keeps its part of the
\* invariant, if the scheduler's flags for it stay.
LEMMA OthersStay ==
  ASSUME IInv, InLoop, InLoop', stage' = stage, closed' = closed,
         NEW v \in Workers, Untouched(v),
         v \in sch'.assigned <=> v \in sch.assigned,
         v \in sch'.inactive <=> v \in sch.inactive
  PROVE  WorkerInv(v)'
  <1>1. WorkerInv(v)
    BY DEF IInv
  <1>2. /\ Free(v)' <=> Free(v)
        /\ \A i : Holds(v, i)' <=> Holds(v, i)
    BY UntouchedLemma
  <1> QED BY <1>1, <1>2 DEF WorkerInv, InLoop

\* make_assignment()'s list holds workers without an item, and unassigned
\* counts them: mark_assigned()'s asserts hold for each of them.
LEMMA ListedIsFree ==
  ASSUME IInv, pc = "assigning", NEW w \in list
  PROVE  /\ w \in Workers /\ w \notin sch.assigned /\ w \notin sch.inactive
         /\ ~closed /\ InTask(w, <<>>, <<>>)
         /\ MayAssign(sch, w)
  <1>1. w \in Workers \ sch.assigned /\ ~closed /\ InLoop
    BY DEF IInv, MasterInv, TypeOK, InLoop
  <1>2. WorkerInv(w) /\ CountersMatchFlags(sch)
    BY <1>1 DEF IInv, SchedulerConsistent
  <1>3. w \notin sch.inactive /\ InTask(w, <<>>, <<>>)
    BY <1>1, <1>2 DEF WorkerInv, Free
  <1>4. Cardinality(Workers \ sch.assigned) > 0
    BY <1>1, SomebodyLeft, WorkersAssumption
  <1> QED BY <1>1, <1>2, <1>3, <1>4 DEF MayAssign, CountersMatchFlags

\* An assignment moves one item from the list to one free worker.
LEMMA AssignItemInv ==
  ASSUME IInv, NEW w \in Workers, NEW i \in Items, AssignItem(w, i)
  PROVE  IInv'
  <1> USE DEF AssignItem, storeVars, workerVars
  <1>1. InLoop /\ InLoop' /\ stage \in Stages
    BY DEF InLoop, IInv, MasterInv
  <1>2. /\ w \notin sch.assigned /\ w \notin sch.inactive /\ ~closed
        /\ InTask(w, <<>>, <<>>) /\ MayAssign(sch, w)
    BY ListedIsFree
  <1>3. GoodScheduler(sch')
    BY <1>1, <1>2, SchedulerGood, AssignCounts, WorkersAssumption
  <1>4. /\ sch'.assigned = sch.assigned \cup {w}
        /\ sch'.initialized = sch.initialized /\ sch'.inactive = sch.inactive
    BY DEF mark_assigned, IInv, TypeOK, SchedulerState
  <1>5. TypeOK'
    <2>1. NewItem(kind, i) \in Message
      BY <1>1, KindType DEF NewItem, Message, AllTags, ItemTags
    <2>2. toWorker' \in [Workers -> Seq(Message)]
      BY <2>1, SendTypes DEF IInv
    <2> QED BY <1>3, <2>2 DEF IInv, TypeOK, GoodScheduler
  <1>6. \A v \in Workers \ {w} : Untouched(v)
    BY DEF IInv, TypeOK, Untouched, Send
  <1>7. InTask(w, <<NewItem(kind, i)>>, <<>>)'
    <2>1. toWorker'[w] = <<NewItem(kind, i)>>
      BY <1>2, Channel0 DEF IInv, TypeOK, Send, InTask, Channels
    <2> QED BY <1>2, <2>1 DEF InTask, Channels, kind, NewItem
  <1>8. \A j \in Items : Holds(w, j)' <=> j = i
    <2>1. \A j : <<NewItem(kind, i)>> = <<NewItem(kind, j)>> => i = j
      BY MessageFacts, ChannelsDiffer
    <2>2. <<NewItem(kind, i)>> # <<>>
      BY ChannelsDiffer
    <2>3. /\ toWorker'[w] = <<NewItem(kind, i)>> /\ toMaster'[w] = <<>>
          /\ wpc'[w] \in {"task", "ack"} /\ wtask'[w] = kind' /\ kind' = kind
      BY <1>7 DEF InTask, Channels, kind, NewItem
    <2>4. ASSUME NEW j \in Items, Holds(w, j)' PROVE j = i
      BY <1>2, <2>1, <2>2, <2>3, <2>4 DEF Holds, InTask, Computing, Channels
    <2>5. Holds(w, i)'
      BY <1>2, <1>7 DEF Holds
    <2> QED BY <2>4, <2>5
  <1>9. ASSUME NEW v \in Workers PROVE WorkerInv(v)'
    <2>1. CASE v = w
      BY <1>1, <1>2, <1>4, <1>8, <2>1 DEF WorkerInv, InLoop
    <2>2. CASE v # w
      BY <1>1, <1>4, <1>6, <2>2, OthersStay
    <2> QED BY <2>1, <2>2
  <1>10. LoopItems'
    <2>1. \A v \in Workers \ {w}, j \in Items : Holds(v, j)' <=> Holds(v, j)
      BY <1>6, UntouchedLemma
    <2>2. \A j \in Items : ~Holds(w, j)
      BY <1>2, NothingHeld
    <2>3. /\ MissingItems(stage)' = MissingItems(stage)
          /\ MissingItems(stage) \subseteq Items
      BY DEF MissingItems, ItemsOfStage
    <2>4. LoopItems /\ i \in todo /\ todo' = todo \ {i}
      BY <1>1 DEF IInv, ItemsInv
    <2> QED BY ONLY <1>8, <2>1, <2>2, <2>3, <2>4 DEF LoopItems
  <1>11. MasterInv'
    BY <1>2, <1>4 DEF IInv, MasterInv, InLoop
  <1>12. SchedulerConsistent'
    BY <1>3 DEF SchedulerConsistent, GoodScheduler
  <1>13. ItemsInv' /\ IndexInv'
    BY <1>1, <1>10 DEF IInv, ItemsInv, IndexInv, InLoop, kind
  <1> QED BY <1>5, <1>9, <1>11, <1>12, <1>13 DEF IInv

\* A product that arrives was computed by a worker that is marked assigned.
LEMMA ProductArrives ==
  ASSUME IInv, NEW w \in Workers, InLoop, Arrived(toMaster, w, WORK_PRODUCT_READY)
  PROVE  /\ w \in sch.assigned /\ w \notin sch.inactive
         /\ \E i \in Items, f \in BOOLEAN :
              /\ Holds(w, i) /\ Head(toMaster[w]) = Product(i, f)
              /\ \/ ~closed /\ InTask(w, <<>>, <<Product(i, f)>>)
                 \/ closed /\ InTask(w, <<EOW>>, <<Product(i, f)>>)
                 \/ /\ closed /\ wpc[w] = "idle"
                    /\ Channels(w, <<>>, <<Product(i, f), ACK>>)
  <1>1. WorkerInv(w)
    BY DEF IInv
  <1>2. toMaster[w] # <<ACK>>
    BY Channel1, MessageFacts
       DEF Arrived, WORK_PRODUCT_READY, END_OF_WORK_ACK
  <1>3. w \in sch.assigned /\ w \notin sch.inactive
    BY <1>1, <1>2 DEF WorkerInv, Free, InTask, Resting, Channels, Arrived
  <1>4. PICK i \in Items : Holds(w, i)
    BY <1>1, <1>3 DEF WorkerInv
  <1>5. PICK f \in BOOLEAN :
          \/ ~closed /\ InTask(w, <<>>, <<Product(i, f)>>)
          \/ closed /\ InTask(w, <<EOW>>, <<Product(i, f)>>)
          \/ /\ closed /\ wpc[w] = "idle"
             /\ Channels(w, <<>>, <<Product(i, f), ACK>>)
    BY <1>4 DEF Holds, InTask, Computing, Channels, Arrived
  <1>6. Head(toMaster[w]) = Product(i, f)
    BY <1>5, Channel1, Channel2 DEF InTask, Channels
  <1> QED BY <1>3, <1>4, <1>5, <1>6

\* A stored product turns the item a worker holds into a row, and frees the worker.
LEMMA StoreProductInv ==
  ASSUME IInv, NEW w \in Workers, StoreProduct(w)
  PROVE  IInv'
  <1> USE DEF StoreProduct, workerVars
  <1>1. InLoop /\ InLoop' /\ stage \in Stages
    BY DEF InLoop, IInv, MasterInv
  <1>2. /\ w \in sch.assigned /\ w \notin sch.inactive
        /\ toMaster[w] # <<>>
    BY <1>1, ProductArrives DEF Arrived
  <1>3. PICK i \in Items, f \in BOOLEAN :
          /\ Holds(w, i) /\ Head(toMaster[w]) = Product(i, f)
          /\ \/ ~closed /\ InTask(w, <<>>, <<Product(i, f)>>)
             \/ closed /\ InTask(w, <<EOW>>, <<Product(i, f)>>)
             \/ /\ closed /\ wpc[w] = "idle"
                /\ Channels(w, <<>>, <<Product(i, f), ACK>>)
    BY <1>1, ProductArrives
  <1>4. GoodScheduler(sch')
    BY <1>1, <1>2, SchedulerGood, UnassignCounts, WorkersAssumption
       DEF MayUnassign
  <1>5. /\ sch'.assigned = sch.assigned \ {w}
        /\ sch'.initialized = sch.initialized /\ sch'.inactive = sch.inactive
    BY DEF mark_unassigned, IInv, TypeOK, SchedulerState
  <1>6. LoopItems /\ i \in MissingItems(stage) \ todo
    BY <1>1, <1>3 DEF IInv, ItemsInv, LoopItems
  <1>7. rows' = [rows EXCEPT ![i] = 1]
    <2>1. rows[i] = 0
      BY <1>6 DEF MissingItems
    <2>2. Head(toMaster[w]).item = i
      BY <1>3, MessageFacts
    <2>3. rows[i] + 1 = 1
      BY <2>1
    <2> QED BY <2>2, <2>3
  <1>8. rows' \in [Items -> {0, 1}]
    BY <1>7 DEF IInv, ItemsInv
  <1>9. TypeOK'
    <2>1. toMaster' \in [Workers -> Seq(Message)]
      BY <1>2, ReceiveTypes DEF IInv
    <2>2. rows' \in [Items -> Nat]
      BY <1>8
    <2> QED BY <1>4, <2>1, <2>2 DEF IInv, TypeOK, GoodScheduler
  <1>10. \A v \in Workers \ {w} : Untouched(v)
    BY DEF IInv, TypeOK, Untouched, Receive
  <1>11. Free(w)'
    <2>1. toMaster'[w] = Tail(toMaster[w])
      BY DEF IInv, TypeOK, Receive
    <2>2. CASE ~closed /\ InTask(w, <<>>, <<Product(i, f)>>)
      BY <1>2, <1>5, <2>1, <2>2, Channel1 DEF Free, InTask, Channels, kind
    <2>3. CASE closed /\ InTask(w, <<EOW>>, <<Product(i, f)>>)
      BY <1>2, <1>5, <2>1, <2>3, Channel1 DEF Free, InTask, Channels, kind
    <2>4. CASE closed /\ wpc[w] = "idle" /\ Channels(w, <<>>, <<Product(i, f), ACK>>)
      BY <1>2, <1>5, <2>1, <2>4, Channel2 DEF Free, Channels
    <2> QED BY <1>3, <2>2, <2>3, <2>4
  <1>12. \A j \in Items : ~Holds(w, j)'
    <2>1. \A j, g : /\ <<Product(j, g)>> # <<>>
                    /\ <<Product(j, g), ACK>> # <<>>
                    /\ <<Product(j, g), ACK>> # <<ACK>>
                    /\ <<NewItem(kind', j), EOW>> # <<EOW>>
                    /\ <<NewItem(kind', j)>> # <<>>
      BY ChannelsDiffer
    <2> QED BY <1>11, <2>1
            DEF Free, Resting, Holds, InTask, Computing, Channels
  <1>13. ASSUME NEW v \in Workers PROVE WorkerInv(v)'
    <2>1. CASE v = w
      BY <1>1, <1>5, <1>11, <2>1 DEF WorkerInv, InLoop
    <2>2. CASE v # w
      BY <1>1, <1>5, <1>10, <2>2, OthersStay
    <2> QED BY <2>1, <2>2
  <1>14. LoopItems'
    <2>1. \A v \in Workers \ {w}, j \in Items : Holds(v, j)' <=> Holds(v, j)
      BY <1>10, UntouchedLemma
    <2>2. \A j \in Items : Holds(w, j) <=> j = i
      BY <1>3, HoldsOne
    <2>3. /\ MissingItems(stage)' = MissingItems(stage) \ {i}
          /\ MissingItems(stage) \subseteq Items /\ todo' = todo
      BY <1>7 DEF MissingItems, ItemsOfStage, IInv, TypeOK
    <2> QED BY ONLY <1>6, <1>12, <2>1, <2>2, <2>3 DEF LoopItems
  <1>15. MasterInv'
    BY <1>5 DEF IInv, MasterInv, InLoop
  <1>16. SchedulerConsistent'
    BY <1>4 DEF SchedulerConsistent, GoodScheduler
  <1>17. ItemsInv' /\ IndexInv'
    BY <1>1, <1>8, <1>14 DEF IInv, ItemsInv, IndexInv, InLoop, kind
  <1> QED BY <1>9, <1>13, <1>15, <1>16, <1>17 DEF IInv

\* An acknowledgement that arrives was sent by a worker without an item, and
\* none came from it before.
LEMMA AckArrives ==
  ASSUME IInv, NEW w \in Workers, InLoop, Arrived(toMaster, w, END_OF_WORK_ACK)
  PROVE  /\ w \notin sch.assigned /\ w \notin sch.inactive
         /\ closed /\ wpc[w] = "idle" /\ Channels(w, <<>>, <<ACK>>)
         /\ MayRetire(sch, w)
  <1>1. WorkerInv(w) /\ CountersMatchFlags(sch) /\ sch.initialized = Workers
    BY DEF IInv, SchedulerConsistent, MasterInv
  <1>2. \A i, f : /\ toMaster[w] # <<Product(i, f)>>
                  /\ toMaster[w] # <<Product(i, f), ACK>>
    BY Channel1, Channel2, MessageFacts
       DEF Arrived, WORK_PRODUCT_READY, END_OF_WORK_ACK
  <1>3. toMaster[w] # <<>>
    BY DEF Arrived
  <1>4. \A i \in Items : ~Holds(w, i)
    BY <1>2, <1>3 DEF Holds, InTask, Computing, Channels
  <1>5. w \notin sch.assigned /\ Free(w)
    BY <1>1, <1>4 DEF WorkerInv
  <1>6. /\ w \notin sch.inactive /\ closed /\ wpc[w] = "idle"
        /\ Channels(w, <<>>, <<ACK>>)
    BY <1>3, <1>5 DEF Free, InTask, Resting, Channels
  <1>7. Cardinality(sch.initialized \ sch.inactive) > 0
    BY <1>1, <1>6, SomebodyLeft, WorkersAssumption
  <1> QED BY <1>1, <1>5, <1>6, <1>7 DEF MayRetire, CountersMatchFlags

\* An acknowledgement retires a worker that holds nothing.
LEMMA ReceiveAckInv ==
  ASSUME IInv, NEW w \in Workers, ReceiveAck(w)
  PROVE  IInv'
  <1> USE DEF ReceiveAck, storeVars, workerVars
  <1>1. InLoop /\ InLoop' /\ stage \in Stages
    BY DEF InLoop, IInv, MasterInv
  <1>2. /\ w \notin sch.assigned /\ w \notin sch.inactive /\ closed
        /\ wpc[w] = "idle" /\ Channels(w, <<>>, <<ACK>>) /\ MayRetire(sch, w)
    BY <1>1, AckArrives
  <1>3. GoodScheduler(sch')
    BY <1>1, <1>2, SchedulerGood, RetireCounts, WorkersAssumption
       DEF IInv, MasterInv
  <1>4. /\ sch'.inactive = sch.inactive \cup {w}
        /\ sch'.initialized = sch.initialized /\ sch'.assigned = sch.assigned
    BY DEF mark_inactive, IInv, TypeOK, SchedulerState
  <1>5. toMaster[w] # <<>>
    BY DEF Arrived
  <1>6. TypeOK'
    <2>1. toMaster' \in [Workers -> Seq(Message)]
      BY <1>5, ReceiveTypes DEF IInv
    <2> QED BY <1>3, <2>1 DEF IInv, TypeOK, GoodScheduler
  <1>7. \A v \in Workers \ {w} : Untouched(v)
    BY DEF IInv, TypeOK, Untouched, Receive
  <1>8. Resting(w)'
    <2>1. toMaster'[w] = <<>>
      BY <1>2, Channel1 DEF IInv, TypeOK, Receive, Channels
    <2> QED BY <1>2, <2>1 DEF Resting, Channels
  <1>9. \A j \in Items : ~Holds(w, j)' /\ ~Holds(w, j)
    <2>1. \A j, g : /\ <<Product(j, g), ACK>> # <<>>
                    /\ <<Product(j, g), ACK>> # <<ACK>>
      BY ChannelsDiffer
    <2>2. \A j \in Items : ~Holds(w, j)
      BY <1>2, <2>1 DEF Holds, InTask, Computing, Channels
    <2>3. \A j \in Items : ~Holds(w, j)'
      BY <1>8, <2>1 DEF Resting, Holds, InTask, Computing, Channels
    <2> QED BY <2>2, <2>3
  <1>10. ASSUME NEW v \in Workers PROVE WorkerInv(v)'
    <2>1. CASE v = w
      <3>1. Free(w)'
        BY <1>2, <1>4, <1>8 DEF Free
      <3> QED BY <1>1, <1>2, <1>4, <2>1, <3>1 DEF WorkerInv, InLoop
    <2>2. CASE v # w
      BY <1>1, <1>4, <1>7, <2>2, OthersStay
    <2> QED BY <2>1, <2>2
  <1>11. LoopItems'
    <2>1. \A v \in Workers \ {w}, j \in Items : Holds(v, j)' <=> Holds(v, j)
      BY <1>7, UntouchedLemma
    <2>2. \A v \in Workers, j \in Items : Holds(v, j)' <=> Holds(v, j)
      BY <1>9, <2>1
    <2>3. /\ MissingItems(stage)' = MissingItems(stage)
          /\ MissingItems(stage) \subseteq Items /\ todo' = todo
      BY DEF MissingItems, ItemsOfStage
    <2>4. LoopItems
      BY <1>1 DEF IInv, ItemsInv
    <2> QED BY ONLY <2>2, <2>3, <2>4 DEF LoopItems
  <1>12. MasterInv'
    BY <1>4 DEF IInv, MasterInv, InLoop
  <1>13. SchedulerConsistent'
    BY <1>3 DEF SchedulerConsistent, GoodScheduler
  <1>14. ItemsInv' /\ IndexInv'
    BY <1>1, <1>11 DEF IInv, ItemsInv, IndexInv, InLoop, kind
  <1> QED BY <1>6, <1>10, <1>12, <1>13, <1>14 DEF IInv

------------------------------------------------------------------------------
(***************************************************************************)
(* The death of a job.                                                     *)
(***************************************************************************)
LEMMA JobDiesInv == IInv /\ JobDies => IInv'
  <1> SUFFICES ASSUME IInv, JobDies PROVE IInv'
    OBVIOUS
  <1> USE DEF JobDies, Goto, FreshProcesses, storeVars
  <1>1. TypeOK'
    <2>1. sch' \in SchedulerState
      BY DEF scheduler, SchedulerState
    <2>2. stage' \in 1 .. NStages + 1
      BY StagesAssumption
    <2>3. crashes' \in 0 .. MaxCrashes
      BY BoundsAssumption DEF IInv, TypeOK
    <2>4. pc' \in MasterPCs /\ wpc' \in [Workers -> WorkerPCs]
          /\ wtask' \in [Workers -> Kinds]
      BY DEF MasterPCs, WorkerPCs, Kinds
    <2>5. /\ witem' \in [Workers -> Items \cup {NoItem}]
          /\ toWorker' \in [Workers -> Seq(Message)]
          /\ toMaster' \in [Workers -> Seq(Message)]
      OBVIOUS
    <2>6. /\ todo' \subseteq Items /\ list' \subseteq Workers
          /\ closed' \in BOOLEAN
      OBVIOUS
    <2> QED BY <2>1, <2>2, <2>3, <2>4, <2>5, <2>6 DEF IInv, TypeOK
  <1>2. ASSUME NEW w \in Workers PROVE WorkerInv(w)'
    BY DEF WorkerInv, Resting, Channels, InLoop
  <1>3. MasterInv' /\ SchedulerConsistent' /\ ItemsInv' /\ IndexInv'
    BY DEF IInv, MasterInv, SchedulerConsistent, ItemsInv, IndexInv, InLoop
  <1> QED BY <1>1, <1>2, <1>3 DEF IInv

------------------------------------------------------------------------------
(***************************************************************************)
(* The theorems.                                                           *)
(***************************************************************************)
\* No step of any process, and no death of a job, breaks the invariant.
LEMMA StepInv == IInv /\ [Next]_vars => IInv'
  <1> SUFFICES ASSUME IInv, [Next]_vars PROVE IInv'
    OBVIOUS
  <1>1. CASE MasterStep
    BY <1>1, NoDatabaseInv, OpenDatabaseInv, SkipStageInv, BeginScatterInv,
       TerminateWorkersInv, TerminateSentInv, SetUpSentInv, ReceiveReadyInv,
       AllReadyInv, EndScatterInv, CloseDownInv, CloseDownSentInv,
       NoCloseDownInv, MakeAssignmentInv, NoAssignmentInv, AssignItemInv,
       AssignmentDoneInv, AssignmentSentInv, StoreProductInv, ReceiveAckInv,
       NoMessageInv
       DEF MasterStep
  <1>2. CASE \E w \in Workers : WorkerStep(w)
    BY <1>2, ReceiveTaskInv, ReceiveTerminateInv, ReceiveItemInv,
       FinishItemInv, ProductSentInv, ReceiveEndOfWorkInv
       DEF WorkerStep
  <1>3. CASE (\E w \in Workers : StoreFailed(w)) \/ Crash
    BY <1>3, JobDiesInv DEF StoreFailed, Crash
  <1>4. CASE Restart
    BY <1>4, RestartInv
  <1>5. CASE UNCHANGED vars
    <2>1. UNCHANGED <<storeVars, masterVars, workerVars, mpiVars, crashes>>
      BY <1>5 DEF vars
    <2>2. CASE InLoop
      BY <2>1, <2>2, LoopStepInv
         DEF masterVars, InLoop, IInv, TypeOK, MasterInv
    <2>3. CASE ~InLoop
      <3> USE DEF storeVars, masterVars, workerVars, mpiVars
      <3>1. TypeOK' /\ MasterInv' /\ SchedulerConsistent' /\ ItemsInv' /\ IndexInv'
        BY <2>1, <2>3 DEF IInv, TypeOK, MasterInv, SchedulerConsistent,
           ItemsInv, IndexInv, InLoop, MissingItems, ItemsOfStage, kind
      <3>2. ASSUME NEW w \in Workers PROVE WorkerInv(w)'
        BY <2>1, <2>3 DEF IInv, WorkerInv, InLoop, Resting, Called, Reported,
           InTask, Leaving, Channels, kind
      <3> QED BY <3>1, <3>2 DEF IInv
    <2> QED BY <2>2, <2>3
  <1> QED BY <1>1, <1>2, <1>3, <1>4, <1>5 DEF Next, Finished

\* The inductive invariant holds in every reachable state.
THEOREM Invariant == Spec => []IInv
  BY InitIInv, StepInv, PTL DEF Spec

\* Every variable keeps to the values it may take.
THEOREM TypeCorrect == Spec => []TypeOK
  <1>1. IInv => TypeOK
    BY DEF IInv
  <1> QED BY <1>1, Invariant, PTL

\* The scheduler's counters never depart from its flags while it is in use.
THEOREM CountersCorrect == Spec => []SchedulerConsistent
  <1>1. IInv => SchedulerConsistent
    BY DEF IInv
  <1> QED BY <1>1, Invariant, PTL

\* No assert() of the scheduler can fail, so the Release build, which has none,
\* never lets one of its counters wrap.
THEOREM AssertsCorrect == Spec => []SchedulerAssertsHold
  <1>1. ASSUME IInv PROVE SchedulerAssertsHold
    <2> SUFFICES ASSUME NEW w \in Workers
                 PROVE  SchedulerAssertsHold!(w)
      BY DEF SchedulerAssertsHold
    <2>1. pc = "init" /\ Arrived(toMaster, w, WORKER_READY)
            => MayInitialize(sch, w)
      BY <1>1, ReadyArrives DEF Arrived
    <2>2. pc = "assigning" /\ w \in list => MayAssign(sch, w)
      BY <1>1, ListedIsFree
    <2>3. pc = "probe" /\ Arrived(toMaster, w, WORK_PRODUCT_READY)
            => MayUnassign(sch, w)
      BY <1>1, ProductArrives DEF InLoop, MayUnassign
    <2>4. pc = "probe" /\ Arrived(toMaster, w, END_OF_WORK_ACK)
            => MayRetire(sch, w)
      BY <1>1, AckArrives DEF InLoop
    <2> QED BY <2>1, <2>2, <2>3, <2>4
  <1> QED BY <1>1, Invariant, PTL

\* No process ever finds a message that its switch has no case for.
THEOREM DispatchCorrect == Spec => []NoUnexpectedMessage
  <1>1. ASSUME IInv PROVE NoUnexpectedMessage
    <2> SUFFICES ASSUME NEW w \in Workers
                 PROVE  NoUnexpectedMessage!(w)
      BY DEF NoUnexpectedMessage
    <2>1. wpc[w] = "idle" /\ toWorker[w] # <<>>
            => Head(toWorker[w]).tag \in TaskTags \cup {TERMINATE}
      BY <1>1, IdleReceives, KindType, Channel1
         DEF Called, Channels, Empty, TaskTags
    <2>2. wpc[w] = "task" /\ toWorker[w] # <<>>
            => Head(toWorker[w]).tag \in {new_item_message(wtask[w]), END_OF_WORK}
      BY <1>1, TaskReceives, Channel1, Channel2, MessageFacts DEF Channels
    <2>3. pc = "init" /\ toMaster[w] # <<>>
            => Head(toMaster[w]).tag = WORKER_READY
      BY <1>1, ReadyArrives
    <2>4. pc = "probe" /\ toMaster[w] # <<>>
            => Head(toMaster[w]).tag \in {WORK_PRODUCT_READY, END_OF_WORK_ACK}
      <3> SUFFICES ASSUME pc = "probe", toMaster[w] # <<>>
                   PROVE  Head(toMaster[w]).tag
                            \in {WORK_PRODUCT_READY, END_OF_WORK_ACK}
        OBVIOUS
      <3>1. WorkerInv(w) /\ InLoop
        BY <1>1 DEF IInv, InLoop
      <3>2. \/ toMaster[w] = <<ACK>>
            \/ \E i \in Items, f \in BOOLEAN :
                 toMaster[w] \in {<<Product(i, f)>>, <<Product(i, f), ACK>>}
        BY <3>1 DEF WorkerInv, Holds, Free, InTask, Computing, Resting, Channels
      <3> QED BY <3>2, Channel1, Channel2, MessageFacts
    <2> QED BY <2>1, <2>2, <2>3, <2>4
  <1> QED BY <1>1, Invariant, PTL

\* A worker decodes an item as the kind of work record it was encoded from.
THEOREM DecodingCorrect == Spec => []ItemsDecodedAsSent
  <1>1. ASSUME IInv PROVE ItemsDecodedAsSent
    <2> SUFFICES ASSUME NEW w \in Workers, wpc[w] = "computing"
                 PROVE  /\ KindOf[StageOf[witem[w]]] = wtask[w]
                        /\ StageOf[witem[w]] = stage
      BY DEF ItemsDecodedAsSent
    <2>1. /\ InLoop /\ wtask[w] = kind
          /\ witem[w] \in Items /\ Holds(w, witem[w])
      BY <1>1, ComputingWhere
    <2>2. witem[w] \in MissingItems(stage)
      BY <1>1, <2>1 DEF IInv, ItemsInv, LoopItems
    <2> QED BY <2>1, <2>2 DEF MissingItems, ItemsOfStage, kind
  <1> QED BY <1>1, Invariant, PTL

\* finalize_write() never meets an index that is still there.
THEOREM IndexCorrect == Spec => []IndexAbsentOnCreate
  <1>1. IInv => IndexAbsentOnCreate
    BY DEF IInv, IndexInv, IndexAbsentOnCreate, InLoop
  <1> QED BY <1>1, Invariant, PTL

\* When the loop of scatter() ends, every worker is at rest and every item of
\* the work list is in the store.
LEMMA AtTheEnd ==
  ASSUME IInv, pc = "loop", all_inactive(sch)
  PROVE  /\ \A w \in Workers : Resting(w)
         /\ \A i \in ItemsOfStage(stage) : rows[i] = 1
  <1>1. InLoop
    BY DEF InLoop
  <1>2. CountersMatchFlags(sch) /\ sch.initialized = Workers
    BY <1>1 DEF IInv, SchedulerConsistent, MasterInv
  <1>3. Workers \ sch.inactive = {}
    BY <1>2, NobodyLeft, WorkersAssumption DEF CountersMatchFlags, all_inactive
  <1>4. \A w \in Workers : closed /\ Resting(w)
    BY <1>1, <1>3 DEF IInv, WorkerInv, Free
  <1>5. \A w \in Workers, i \in Items : ~Holds(w, i)
    BY <1>4, ChannelsDiffer DEF Resting, Holds, InTask, Computing, Channels
  <1>6. todo = {}
    BY <1>1, <1>4, WorkersAssumption DEF IInv, MasterInv
  <1>7. MissingItems(stage) = {}
    BY <1>1, <1>5, <1>6 DEF IInv, ItemsInv, LoopItems, MissingItems, ItemsOfStage
  <1>8. \A i \in ItemsOfStage(stage) : rows[i] = 1
    BY <1>7 DEF MissingItems, ItemsOfStage, IInv, ItemsInv
  <1> QED BY <1>4, <1>8

\* The only way from the loop to the next stage is EndScatter.
LEMMA OnlyEndScatter ==
  ASSUME Next, pc = "loop", pc' = "between"
  PROVE  EndScatter
  BY DEF Next, MasterStep, WorkerStep, NoDatabase, OpenDatabase, SkipStage,
         BeginScatter, TerminateWorkers, TerminateSent, SetUpSent, ReceiveReady,
         AllReady, CloseDown, CloseDownSent, NoCloseDown, MakeAssignment,
         NoAssignment, AssignItem, AssignmentDone, AssignmentSent, StoreProduct,
         ReceiveAck, NoMessage, ReceiveTask, ReceiveTerminate, ReceiveItem,
         FinishItem, ProductSent, ReceiveEndOfWork, StoreFailed, Crash, Restart,
         JobDies, Finished, Goto, WorkerUnchanged, masterVars, vars

\* scatter() returns only with its whole work list stored and every channel
\* empty, whatever order the messages of different workers arrive in.
THEOREM CompletionCorrect == Spec => ScatterCompletes
  <1> DEFINE Complete ==
        pc = "loop" /\ pc' = "between" =>
          /\ \A i \in ItemsOfStage(stage) : rows[i] = 1
          /\ \A w \in Workers : /\ wpc[w] = "idle"
                                /\ toWorker[w] = <<>> /\ toMaster[w] = <<>>
  <1>1. IInv /\ Next => Complete
    BY AtTheEnd, OnlyEndScatter DEF EndScatter, Resting, Channels
  <1>2. IInv /\ [Next]_vars => [Complete]_vars
    BY <1>1
  <1> HIDE DEF Complete
  <1>3. Spec => [][Complete]_vars
    BY <1>2, Invariant, PTL DEF Spec
  <1> QED BY <1>3 DEF Complete, ScatterCompletes

------------------------------------------------------------------------------
(***************************************************************************)
(* Where the items of the running scatter() are.                           *)
(***************************************************************************)
\* An item leaves the hands of a worker with its product.
LEMMA HandsStepInv == TypeOK /\ IdleHands /\ [Next]_vars => IdleHands'
  <1> SUFFICES ASSUME TypeOK, IdleHands, [Next]_vars PROVE IdleHands'
    OBVIOUS
  <1> USE DEF IdleHands, TypeOK
  <1>1. CASE \/ (\E w \in Workers : StoreFailed(w)) \/ Crash
    BY <1>1 DEF StoreFailed, Crash, JobDies, FreshProcesses
  <1>2. CASE Restart \/ MasterStep \/ UNCHANGED vars
    <2>1. UNCHANGED workerVars
      BY <1>2 DEF Restart, MasterStep, vars, NoDatabase, OpenDatabase,
         SkipStage, BeginScatter, TerminateWorkers, TerminateSent, SetUpSent,
         ReceiveReady, AllReady, EndScatter, CloseDown, CloseDownSent,
         NoCloseDown, MakeAssignment, NoAssignment, AssignItem, AssignmentDone,
         AssignmentSent, StoreProduct, ReceiveAck, NoMessage
    <2> QED BY <2>1 DEF workerVars
  <1>3. CASE \E w \in Workers : WorkerStep(w)
    BY <1>3 DEF WorkerStep, ReceiveTask, ReceiveTerminate, ReceiveItem,
       FinishItem, ProductSent, ReceiveEndOfWork
  <1> QED BY <1>1, <1>2, <1>3 DEF Next, Finished

\* A worker without a calculation has no item.
LEMMA HandsInvariant == Spec => []IdleHands
  <1>1. Init => IdleHands
    BY DEF Init, IdleHands
  <1> QED BY <1>1, HandsStepInv, TypeCorrect, PTL DEF Spec

\* The item of message n of a channel is item i.
Down(w, i, n) == n \in ItemsHeld(w) /\ toWorker[w][n].item = i
Up(w, i, n)   == n \in ProductsHeld(w) /\ toMaster[w][n].item = i

\* The messages that may be in the channels of a worker, and their items.
LEMMA MessageItems ==
  ASSUME NEW w \in Workers, NEW i \in Items, NEW j, NEW n, NEW f
  PROVE  /\ toWorker[w] \in {<<>>, <<EOW>>} => ~Down(w, i, n)
         /\ toWorker[w] \in {<<NewItem(kind, j)>>, <<NewItem(kind, j), EOW>>}
              => (Down(w, i, n) <=> n = 1 /\ j = i)
         /\ toMaster[w] \in {<<>>, <<ACK>>} => ~Up(w, i, n)
         /\ toMaster[w] \in {<<Product(j, f)>>, <<Product(j, f), ACK>>}
              => (Up(w, i, n) <=> n = 1 /\ j = i)
  <1>1. EOW.item = NoItem /\ ACK.item = NoItem /\ i # NoItem
    BY NoItemAssumption DEF EOW, ACK, Empty
  <1>2. NewItem(kind, j).item = j /\ Product(j, f).item = j
    BY MessageFacts
  <1>3. /\ toWorker[w] \in {<<>>, <<EOW>>} => ~Down(w, i, n)
        /\ toMaster[w] \in {<<>>, <<ACK>>} => ~Up(w, i, n)
    BY <1>1 DEF Down, Up, ItemsHeld, ProductsHeld
  <1>4. /\ toWorker[w] = <<NewItem(kind, j)>> => (Down(w, i, n) <=> n = 1 /\ j = i)
        /\ toMaster[w] = <<Product(j, f)>> => (Up(w, i, n) <=> n = 1 /\ j = i)
    BY <1>1, <1>2 DEF Down, Up, ItemsHeld, ProductsHeld
  <1>5. /\ toWorker[w] = <<NewItem(kind, j), EOW>>
             => (Down(w, i, n) <=> n = 1 /\ j = i)
        /\ toMaster[w] = <<Product(j, f), ACK>> => (Up(w, i, n) <=> n = 1 /\ j = i)
    <2>1. ASSUME NEW a, NEW b, NEW s, s = <<a, b>>, a.item = j, b.item = NoItem
          PROVE  n \in {m \in 1 .. Len(s) : s[m].item # NoItem} /\ s[n].item = i
                   <=> n = 1 /\ j = i
      <3>1. Len(s) = 2 /\ s[1] = a /\ s[2] = b
        BY <2>1
      <3>2. n \in 1 .. Len(s) <=> n = 1 \/ n = 2
        BY <3>1
      <3> QED BY <1>1, <2>1, <3>1, <3>2
    <2> QED BY <1>1, <1>2, <2>1 DEF Down, Up, ItemsHeld, ProductsHeld
  <1> QED BY <1>3, <1>4, <1>5

\* In a worker's channels and hands an item that it does not hold is nowhere,
\* and one that it holds is in one place: in its hands, first in the channel to
\* it, or first in the channel from it.
LEMMA HeldInOnePlace ==
  ASSUME IInv, IdleHands, InLoop, NEW w \in Workers, NEW i \in Items
  PROVE  /\ ~Holds(w, i) =>
              witem[w] # i /\ \A n : ~Down(w, i, n) /\ ~Up(w, i, n)
         /\ Holds(w, i) =>
              \/ witem[w] = i /\ \A n : ~Down(w, i, n) /\ ~Up(w, i, n)
              \/ witem[w] # i /\ \A n : (Down(w, i, n) <=> n = 1) /\ ~Up(w, i, n)
              \/ witem[w] # i /\ \A n : ~Down(w, i, n) /\ (Up(w, i, n) <=> n = 1)
  <1>1. i # NoItem /\ (wpc[w] # "computing" => witem[w] = NoItem)
    BY NoItemAssumption DEF IdleHands
  <1>2. ASSUME NEW j \in Items, Holds(w, j)
        PROVE  \/ witem[w] = j /\ \A n : ~Down(w, i, n) /\ ~Up(w, i, n)
               \/ /\ witem[w] # i
                  /\ \A n : (Down(w, i, n) <=> n = 1 /\ j = i) /\ ~Up(w, i, n)
               \/ /\ witem[w] # i
                  /\ \A n : ~Down(w, i, n) /\ (Up(w, i, n) <=> n = 1 /\ j = i)
    <2>1. CASE wpc[w] = "computing"
      <3>1. /\ witem[w] = j /\ toWorker[w] \in {<<>>, <<EOW>>}
            /\ toMaster[w] = <<>>
        BY <1>2, <2>1 DEF Holds, InTask, Computing, Channels
      <3> QED BY <3>1, MessageItems
    <2>2. CASE wpc[w] # "computing" /\ toMaster[w] = <<>>
      <3>1. toWorker[w] \in {<<NewItem(kind, j)>>, <<NewItem(kind, j), EOW>>}
        BY <1>2, <2>2, ChannelsDiffer DEF Holds, InTask, Computing, Channels
      <3> QED BY <1>1, <2>2, <3>1, MessageItems
    <2>3. CASE wpc[w] # "computing" /\ toMaster[w] # <<>>
      <3>1. /\ toWorker[w] \in {<<>>, <<EOW>>}
            /\ \E f \in BOOLEAN :
                 toMaster[w] \in {<<Product(j, f)>>, <<Product(j, f), ACK>>}
        BY <1>2, <2>3 DEF Holds, InTask, Computing, Channels
      <3> QED BY <1>1, <2>3, <3>1, MessageItems
    <2> QED BY <2>1, <2>2, <2>3
  <1>3. CASE Holds(w, i)
    BY <1>2, <1>3
  <1>4. CASE ~Holds(w, i)
    <2>1. WorkerInv(w)
      BY DEF IInv
    <2>2. CASE \E j \in Items : Holds(w, j)
      BY <1>2, <1>4, <2>2
    <2>3. CASE Free(w)
      <3>1. /\ wpc[w] # "computing" /\ toWorker[w] \in {<<>>, <<EOW>>}
            /\ toMaster[w] \in {<<>>, <<ACK>>}
        BY <2>3 DEF Free, InTask, Resting, Channels
      <3> QED BY <1>1, <3>1, <1>4, MessageItems
    <2> QED BY <2>1, <2>2, <2>3 DEF WorkerInv
  <1> QED BY <1>3, <1>4

\* While scatter() runs there is one copy of each item of its stage.
LEMMA OneCopy ==
  ASSUME IInv, IdleHands, InLoop, NEW i \in ItemsOfStage(stage)
  PROVE  CopiesOf(i) = 1
  <1> DEFINE Hands == {w \in Workers : witem[w] = i}
             Downs == {p \in Workers \X (1 .. 2) : Down(p[1], i, p[2])}
             Ups   == {p \in Workers \X (1 .. 2) : Up(p[1], i, p[2])}
  <1>1. i \in Items /\ rows[i] \in {0, 1} /\ LoopItems
        /\ (i \in MissingItems(stage) <=> rows[i] = 0)
    BY DEF IInv, ItemsInv, ItemsOfStage, MissingItems
  <1>2. CopiesOf(i) = rows[i] + (IF i \in todo THEN 1 ELSE 0)
                        + Cardinality(Hands) + Cardinality(Downs)
                        + Cardinality(Ups)
    BY DEF CopiesOf, Down, Up
  <1>3. Cardinality({}) = 0 /\ \A x : Cardinality({x}) = 1
    BY FS_EmptySet, FS_Singleton
  <1>4. CASE \A w \in Workers : ~Holds(w, i)
    <2>1. Hands = {} /\ Downs = {} /\ Ups = {}
      BY <1>1, <1>4, HeldInOnePlace
    <2>2. i \in todo <=> rows[i] = 0
      BY <1>1, <1>4 DEF LoopItems
    <2> HIDE DEF Hands, Downs, Ups
    <2> QED BY <1>1, <1>2, <1>3, <2>1, <2>2
  <1>5. ASSUME NEW w \in Workers, Holds(w, i)
        PROVE  CopiesOf(i) = 1
    <2>1. rows[i] = 0 /\ i \notin todo
      BY <1>1, <1>5 DEF LoopItems
    <2>2. \A v \in Workers \ {w} :
            witem[v] # i /\ \A n : ~Down(v, i, n) /\ ~Up(v, i, n)
      BY <1>1, <1>5, HeldInOnePlace DEF LoopItems
    <2>3. \/ Hands = {w} /\ Downs = {} /\ Ups = {}
          \/ Hands = {} /\ Downs = {<<w, 1>>} /\ Ups = {}
          \/ Hands = {} /\ Downs = {} /\ Ups = {<<w, 1>>}
      BY <1>1, <1>5, <2>2, HeldInOnePlace
    <2>4. /\ Cardinality({}) = 0 /\ Cardinality({w}) = 1
          /\ Cardinality({<<w, 1>>}) = 1
      BY <1>3
    <2> HIDE DEF Hands, Downs, Ups
    <2> QED BY <1>2, <2>1, <2>3, <2>4
  <1> QED BY <1>4, <1>5

\* Every item of the running scatter() is in one place, and no item ever has
\* more than one row, whichever jobs died.
THEOREM PlacesCorrect == Spec => []EachItemInOnePlace
  <1>1. IInv /\ IdleHands => EachItemInOnePlace
    BY OneCopy DEF EachItemInOnePlace, IInv, ItemsInv
  <1> QED BY <1>1, Invariant, HandsInvariant, PTL

\* Master and worker never wait for each other if the MPI library buffers the
\* END_OF_WORK messages or the products: the one cycle there can be is closed by
\* the END_OF_WORK behind an item.
THEOREM WaitsCorrect ==
  ASSUME END_OF_WORK \in Buffered \/ WORK_PRODUCT_READY \in Buffered
  PROVE  Spec => []NoCyclicWait
  <1>1. ASSUME IInv PROVE NoCyclicWait
    <2> SUFFICES ASSUME NEW w \in Workers, MasterWaitsFor(w), WorkerWaits(w)
                 PROVE  FALSE
      BY DEF NoCyclicWait
    <2>1. WorkerInv(w)
      BY <1>1 DEF IInv
    <2>2. toWorker[w] # <<>>
      BY DEF MasterWaitsFor, SendComplete
    <2>3. wpc[w] = "ack" /\ toMaster[w] # <<>> /\ WORK_PRODUCT_READY \notin Buffered
      BY <2>2 DEF WorkerWaits, SendComplete
    <2>4. ~InLoop
      <3> SUFFICES ASSUME InLoop PROVE FALSE
        OBVIOUS
      <3>1. toWorker[w] = <<EOW>>
        BY <2>1, <2>2, <2>3
           DEF WorkerInv, Holds, Free, InTask, Computing, Resting, Channels
      <3>2. Len(<<EOW>>) = 1 /\ <<EOW>>[1] = EOW
        OBVIOUS
      <3>3. pc = "assign_wait" /\ new_item_message(kind) = END_OF_WORK
        BY <2>3, <3>1, <3>2, MessageFacts
           DEF MasterWaitsFor, SendComplete, InLoop
      <3>4. kind \in Kinds
        BY <1>1, KindType DEF IInv, MasterInv
      <3> QED BY <3>3, <3>4, TagFacts DEF END_OF_WORK
    <2>5. pc = "setup_wait"
      BY <2>4 DEF MasterWaitsFor, InLoop
    <2> QED BY <2>1, <2>3, <2>5 DEF WorkerInv, Called, Reported
  <1> QED BY <1>1, Invariant, PTL

------------------------------------------------------------------------------
(***************************************************************************)
(* The store changes as WorkFarm promises.                                 *)
(***************************************************************************)
\* A product is stored only for an item of the current stage without a row.
LEMMA StoreProductRefines ==
  ASSUME IInv, NEW w \in Workers, StoreProduct(w)
  PROVE  \E i \in Items : Farm!Store(i)
  <1>1. InLoop
    BY DEF StoreProduct, InLoop
  <1>2. PICK i \in Items, f \in BOOLEAN :
          Holds(w, i) /\ Head(toMaster[w]) = Product(i, f)
    BY <1>1, ProductArrives DEF StoreProduct
  <1>3. Head(toMaster[w]).item = i
    BY <1>2, MessageFacts
  <1>4. StageOf[i] = stage /\ rows[i] = 0
    BY <1>1, <1>2
       DEF IInv, ItemsInv, LoopItems, MissingItems, ItemsOfStage
  <1>5. rows' = [rows EXCEPT ![i] = 1] /\ stage' = stage
    <2>1. rows' = [rows EXCEPT ![i] = rows[i] + 1] /\ stage' = stage
      BY <1>3 DEF StoreProduct
    <2>2. rows[i] + 1 = 1
      BY <1>4
    <2> QED BY <2>1, <2>2
  <1> QED BY <1>4, <1>5 DEF Farm!Store

\* A skipped stage has all its results: in WorkFarm it is done.
LEMMA SkipStageRefines ==
  ASSUME IInv, SkipStage
  PROVE  Farm!NextStage
  <1>1. \A i \in ItemsOfStage(stage) : rows[i] = 1
    BY DEF SkipStage, MissingItems, ItemsOfStage, IInv, ItemsInv
  <1>2. stage <= NStages
    BY StagesAssumption DEF SkipStage, Stages
  <1> QED BY <1>1, <1>2
          DEF Farm!NextStage, Farm!ItemsOf, ItemsOfStage, SkipStage, storeVars

\* When scatter() ends all results of its stage are stored: in WorkFarm it is done.
LEMMA EndScatterRefines ==
  ASSUME IInv, EndScatter
  PROVE  Farm!NextStage
  <1>1. \A i \in ItemsOfStage(stage) : rows[i] = 1
    BY AtTheEnd DEF EndScatter
  <1>2. stage <= NStages
    BY StagesAssumption DEF EndScatter, IInv, MasterInv, InLoop, Stages
  <1> QED BY <1>1, <1>2
          DEF Farm!NextStage, Farm!ItemsOf, ItemsOfStage, EndScatter

\* Every step of the protocol is a step of WorkFarm or leaves its state alone.
LEMMA StepRefines ==
  IInv /\ [Next]_vars => [Farm!FarmNext]_<<rows, stage>>
  <1> SUFFICES ASSUME IInv, [Next]_vars
               PROVE  Farm!FarmNext \/ UNCHANGED <<rows, stage>>
    OBVIOUS
  <1> USE DEF storeVars, masterVars
  <1>1. CASE \E w \in Workers : StoreProduct(w)
    BY <1>1, StoreProductRefines DEF Farm!FarmNext
  <1>2. CASE SkipStage \/ EndScatter
    BY <1>2, SkipStageRefines, EndScatterRefines DEF Farm!FarmNext
  <1>3. CASE (\E w \in Workers : StoreFailed(w)) \/ Crash
    BY <1>3 DEF StoreFailed, Crash, JobDies, FreshProcesses, Farm!FarmNext,
                Farm!StartAgain
  <1>4. CASE \/ NoDatabase \/ OpenDatabase \/ BeginScatter \/ TerminateWorkers
             \/ TerminateSent \/ SetUpSent \/ (\E w \in Workers : ReceiveReady(w))
             \/ AllReady \/ CloseDown \/ CloseDownSent \/ NoCloseDown
             \/ MakeAssignment \/ NoAssignment
             \/ (\E w \in Workers, i \in Items : AssignItem(w, i))
             \/ AssignmentDone \/ AssignmentSent
             \/ (\E w \in Workers : ReceiveAck(w)) \/ NoMessage \/ Restart
    BY <1>4 DEF NoDatabase, OpenDatabase, BeginScatter, TerminateWorkers,
       TerminateSent, SetUpSent, ReceiveReady, AllReady, CloseDown,
       CloseDownSent, NoCloseDown, MakeAssignment, NoAssignment, AssignItem,
       AssignmentDone, AssignmentSent, ReceiveAck, NoMessage, Restart
  <1>5. CASE \E w \in Workers : WorkerStep(w)
    BY <1>5 DEF WorkerStep, ReceiveTask, ReceiveTerminate, ReceiveItem,
       FinishItem, ProductSent, ReceiveEndOfWork, WorkerUnchanged
  <1>6. CASE UNCHANGED vars
    BY <1>6 DEF vars
  <1> QED BY <1>1, <1>2, <1>3, <1>4, <1>5, <1>6 DEF Next, MasterStep, Finished

\* The protocol implements WorkFarm: no result is written twice, none is
\* written before the stages it depends on are complete, and a job that died
\* loses nothing that was written.
THEOREM Refinement == Spec => ImplementsWorkFarm
  <1>1. Init => Farm!FarmInit
    BY DEF Init, Farm!FarmInit
  <1> QED BY <1>1, Invariant, StepRefines, PTL
          DEF Spec, ImplementsWorkFarm, Farm!FarmSpec, Farm!farmVars
==============================================================================
