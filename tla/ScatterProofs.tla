---------------------------- MODULE ScatterProofs -----------------------------
(***************************************************************************)
(* Proofs about module Scatter, for every number of workers, items and     *)
(* stages.                                                                 *)
(***************************************************************************)
EXTENDS ScatterInvariant, FiniteSetTheorems, SequenceTheorems, TLAPS

------------------------------------------------------------------------------
(***************************************************************************)
(* The counters of the scheduler keep repeating its flags, for any number  *)
(* of workers, as long as the condition of every mark_* operation's        *)
(* assert()s holds when it is called.                                      *)
(***************************************************************************)
\* A state of the scheduler in which counters and flags agree, and in which
\* only workers that reported in were marked inactive.
GoodScheduler(s) ==
  /\ s \in SchedulerState
  /\ CountersMatchFlags(s)
  /\ s.inactive \subseteq s.initialized

\* Taking one element out of, or putting one into, a finite set of workers.
LEMMA OneWorker ==
  ASSUME IsFiniteSet(Workers), NEW S \in SUBSET Workers, NEW w \in Workers
  PROVE  /\ Cardinality(S) \in Nat
         /\ w \in S => Cardinality(S \ {w}) = Cardinality(S) - 1
         /\ w \notin S => Cardinality(S \cup {w}) = Cardinality(S) + 1
  <1>1. IsFiniteSet(S)
    BY FS_Subset
  <1> QED BY <1>1, FS_CardinalityType, FS_AddElement, FS_RemoveElement

\* A counter that was counting down reached zero: nobody is left in the set.
LEMMA NobodyLeft ==
  ASSUME IsFiniteSet(Workers), NEW S \in SUBSET Workers
  PROVE  Cardinality(S) = 0 <=> S = {}
  <1>1. IsFiniteSet(S)
    BY FS_Subset
  <1> QED BY <1>1, FS_EmptySet

\* A counter whose set still has a worker in it is not zero.
LEMMA SomebodyLeft ==
  ASSUME IsFiniteSet(Workers), NEW S \in SUBSET Workers, NEW w \in S
  PROVE  Cardinality(S) > 0
  <1>1. IsFiniteSet(S)
    BY FS_Subset
  <1>2. Cardinality(S) \in Nat /\ Cardinality(S) # 0
    BY <1>1, FS_CardinalityType, FS_EmptySet
  <1> QED BY <1>2

\* Each operation leaves a record of the same type if the values it puts into
\* the fields have the right one.
LEMMA FieldTypes ==
  ASSUME NEW s \in SchedulerState, NEW S \in SUBSET Workers,
         NEW m \in Nat, NEW n \in Nat
  PROVE  /\ [s EXCEPT !.initialized = S, !.waiting_for_initialization = m,
                      !.active = n] \in SchedulerState
         /\ [s EXCEPT !.assigned = S, !.unassigned = n] \in SchedulerState
         /\ [s EXCEPT !.inactive = S, !.active = n] \in SchedulerState
  BY DEF SchedulerState

\* The constructor: everybody waits to be initialized and nobody is assigned.
LEMMA SchedulerBegins ==
  ASSUME IsFiniteSet(Workers)
  PROVE  GoodScheduler(scheduler(Cardinality(Workers)))
  <1>1. Cardinality(Workers) \in Nat /\ Cardinality({}) = 0
    BY FS_CardinalityType, FS_EmptySet
  <1>2. Workers \ {} = Workers /\ {} \ {} = {}
    OBVIOUS
  <1> QED BY <1>1, <1>2
          DEF GoodScheduler, SchedulerState, CountersMatchFlags, scheduler

\* initialize_worker() counts a worker as active that was not counted yet.
LEMMA InitializeCounts ==
  ASSUME IsFiniteSet(Workers), NEW s, GoodScheduler(s), NEW w \in Workers,
         MayInitialize(s, w)
  PROVE  GoodScheduler(initialize_worker(s, w))
  <1> DEFINE t == initialize_worker(s, w)
  <1> USE DEF GoodScheduler, SchedulerState, CountersMatchFlags
  <1>1. /\ t.initialized = s.initialized \cup {w}
        /\ t.inactive = s.inactive /\ t.assigned = s.assigned
        /\ t.waiting_for_initialization = s.waiting_for_initialization - 1
        /\ t.active = s.active + 1 /\ t.unassigned = s.unassigned
    BY DEF initialize_worker
  <1>2. Workers \ t.initialized = (Workers \ s.initialized) \ {w}
    BY <1>1
  <1>3. t.initialized \ t.inactive = (s.initialized \ s.inactive) \cup {w}
    BY <1>1 DEF MayInitialize
  <1>4. /\ t.waiting_for_initialization = Cardinality(Workers \ t.initialized)
        /\ t.active = Cardinality(t.initialized \ t.inactive)
    BY <1>1, <1>2, <1>3, OneWorker DEF MayInitialize
  <1>5. t \in SchedulerState
    <2>1. (s.initialized \cup {w}) \in SUBSET Workers
      OBVIOUS
    <2>2. s.waiting_for_initialization - 1 \in Nat /\ s.active + 1 \in Nat
      BY DEF MayInitialize
    <2> QED BY <2>1, <2>2, FieldTypes DEF initialize_worker
  <1> QED BY <1>1, <1>4, <1>5

\* mark_assigned() counts a worker off that was unassigned.
LEMMA AssignCounts ==
  ASSUME IsFiniteSet(Workers), NEW s, GoodScheduler(s), NEW w \in Workers,
         MayAssign(s, w)
  PROVE  GoodScheduler(mark_assigned(s, w))
  <1> DEFINE t == mark_assigned(s, w)
  <1> USE DEF GoodScheduler, SchedulerState, CountersMatchFlags
  <1>1. /\ t.initialized = s.initialized
        /\ t.inactive = s.inactive /\ t.assigned = s.assigned \cup {w}
        /\ t.waiting_for_initialization = s.waiting_for_initialization
        /\ t.active = s.active /\ t.unassigned = s.unassigned - 1
    BY DEF mark_assigned
  <1>2. Workers \ t.assigned = (Workers \ s.assigned) \ {w}
    BY <1>1
  <1>3. t.unassigned = Cardinality(Workers \ t.assigned)
    BY <1>1, <1>2, OneWorker DEF MayAssign
  <1>4. t \in SchedulerState
    <2>1. (s.assigned \cup {w}) \in SUBSET Workers
      OBVIOUS
    <2>2. s.unassigned - 1 \in Nat
      BY DEF MayAssign
    <2> QED BY <2>1, <2>2, FieldTypes DEF mark_assigned
  <1> QED BY <1>1, <1>3, <1>4

\* mark_unassigned() counts a worker again that was assigned.
LEMMA UnassignCounts ==
  ASSUME IsFiniteSet(Workers), NEW s, GoodScheduler(s), NEW w \in Workers,
         MayUnassign(s, w)
  PROVE  GoodScheduler(mark_unassigned(s, w))
  <1> DEFINE t == mark_unassigned(s, w)
  <1> USE DEF GoodScheduler, SchedulerState, CountersMatchFlags
  <1>1. /\ t.initialized = s.initialized
        /\ t.inactive = s.inactive /\ t.assigned = s.assigned \ {w}
        /\ t.waiting_for_initialization = s.waiting_for_initialization
        /\ t.active = s.active /\ t.unassigned = s.unassigned + 1
    BY DEF mark_unassigned
  <1>2. Workers \ t.assigned = (Workers \ s.assigned) \cup {w}
    BY <1>1
  <1>3. t.unassigned = Cardinality(Workers \ t.assigned)
    BY <1>1, <1>2, OneWorker DEF MayUnassign
  <1>4. t \in SchedulerState
    <2>1. (s.assigned \ {w}) \in SUBSET Workers
      OBVIOUS
    <2>2. s.unassigned + 1 \in Nat
      OBVIOUS
    <2> QED BY <2>1, <2>2, FieldTypes DEF mark_unassigned
  <1> QED BY <1>1, <1>3, <1>4

\* mark_inactive() counts a worker off that reported in and was still active.
LEMMA RetireCounts ==
  ASSUME IsFiniteSet(Workers), NEW s, GoodScheduler(s), NEW w \in Workers,
         MayRetire(s, w), w \in s.initialized
  PROVE  GoodScheduler(mark_inactive(s, w))
  <1> DEFINE t == mark_inactive(s, w)
  <1> USE DEF GoodScheduler, SchedulerState, CountersMatchFlags
  <1>1. /\ t.initialized = s.initialized
        /\ t.inactive = s.inactive \cup {w} /\ t.assigned = s.assigned
        /\ t.waiting_for_initialization = s.waiting_for_initialization
        /\ t.active = s.active - 1 /\ t.unassigned = s.unassigned
    BY DEF mark_inactive
  <1>2. t.initialized \ t.inactive = (s.initialized \ s.inactive) \ {w}
    BY <1>1
  <1>3. t.active = Cardinality(t.initialized \ t.inactive)
    BY <1>1, <1>2, OneWorker DEF MayRetire
  <1>4. t \in SchedulerState
    <2>1. (s.inactive \cup {w}) \in SUBSET Workers
      OBVIOUS
    <2>2. s.active - 1 \in Nat
      BY DEF MayRetire
    <2> QED BY <2>1, <2>2, FieldTypes DEF mark_inactive
  <1> QED BY <1>1, <1>3, <1>4

------------------------------------------------------------------------------
(***************************************************************************)
(* Channels hold at most two messages: what sending and receiving do.      *)
(***************************************************************************)
LEMMA Channel0 ==
  ASSUME NEW m
  PROVE  Append(<<>>, m) = <<m>>
  OBVIOUS

\* A message sent behind a single one makes a pair.
LEMMA AppendToOne ==
  ASSUME NEW a, NEW m
  PROVE  Append(<<a>>, m) = <<a, m>>
  <1> DEFINE S == {a, m}
  <1> SUFFICES ASSUME NEW s, s = Append(<<a>>, m), NEW t, t = <<a, m>>
               PROVE  s = t
    OBVIOUS
  <1>1. <<a>> \in Seq(S) /\ m \in S /\ t \in Seq(S) OBVIOUS
  <1>2. s \in Seq(S) /\ Len(s) = 2 /\ s[2] = m /\ s[1] = a
    BY <1>1, AppendProperties
  <1>3. Len(t) = 2 /\ t[1] = a /\ t[2] = m OBVIOUS
  <1>4. \A n \in 1 .. Len(s) : s[n] = t[n] BY <1>2, <1>3
  <1> QED BY <1>1, <1>2, <1>3, <1>4, SeqEqual

\* What the queue operators do to a channel that holds one message.
LEMMA Channel1 ==
  ASSUME NEW a, NEW m
  PROVE  /\ <<a>> # <<>>
         /\ Head(<<a>>) = a
         /\ Tail(<<a>>) = <<>>
         /\ Append(<<a>>, m) = <<a, m>>
  BY AppendToOne

\* What they do to a channel that holds two.
LEMMA Channel2 ==
  ASSUME NEW a, NEW b
  PROVE  /\ <<a, b>> # <<>>
         /\ Head(<<a, b>>) = a
         /\ Tail(<<a, b>>) = <<b>>
  OBVIOUS

\* The values of the task and item tags (mpi_operations.h): control tags are
\* none of them, and a task tag, unlike an item tag, tells the type apart.
LEMMA TagFacts ==
  ASSUME NEW k \in Kinds
  PROVE  /\ new_task_message(k) \in {0, 10, 20, 30, 40, 50, 60}
         /\ new_item_message(k) \in {1, 21, 31, 51, 61}
         /\ \A j \in Kinds : new_task_message(j) = new_task_message(k) => j = k
  BY DEF Kinds, new_task_message, new_item_message

\* The fields of the three sorts of message; items and products carry their item.
LEMMA MessageFacts ==
  ASSUME NEW k, NEW i, NEW j, NEW f, NEW g
  PROVE  /\ NewItem(k, i).tag = new_item_message(k) /\ NewItem(k, i).item = i
         /\ Product(i, f).tag = WORK_PRODUCT_READY /\ Product(i, f).item = i
         /\ Product(i, f).fail = f
         /\ EOW.tag = END_OF_WORK /\ ACK.tag = END_OF_WORK_ACK
         /\ Empty(i).tag = i
         /\ NewItem(k, i) = NewItem(k, j) => i = j
         /\ Product(i, f) = Product(j, g) => i = j
         /\ Product(i, f) # ACK
  BY DEF NewItem, Product, EOW, ACK, Empty, WORK_PRODUCT_READY, END_OF_WORK_ACK

\* Channel contents are equal only if they agree message by message.
LEMMA ChannelsDiffer ==
  ASSUME NEW a, NEW b, NEW c, NEW d
  PROVE  /\ <<a>> # <<>> /\ <<a, b>> # <<>> /\ <<a, b>> # <<c>>
         /\ <<a>> = <<c>> => a = c
         /\ <<a, b>> = <<c, d>> => a = c /\ b = d
  OBVIOUS

\* Every message that a process sends is a Message.
LEMMA MessageType ==
  ASSUME NEW k \in Kinds, NEW i \in Items, NEW f \in BOOLEAN
  PROVE  /\ Empty(new_task_message(k)) \in Message
         /\ Empty(WORKER_READY) \in Message
         /\ EOW \in Message /\ ACK \in Message
         /\ Empty(TERMINATE) \in Message
         /\ NewItem(k, i) \in Message
         /\ Product(i, f) \in Message
  BY DEF Message, Empty, EOW, ACK, NewItem, Product, AllTags, ControlTags,
         TaskTags, ItemTags, WORKER_READY, WORK_PRODUCT_READY, END_OF_WORK,
         END_OF_WORK_ACK, TERMINATE

------------------------------------------------------------------------------
(***************************************************************************)
(* The initial states.                                                     *)
(***************************************************************************)
LEMMA InitIInv == Init => IInv
  <1> SUFFICES ASSUME Init PROVE IInv
    OBVIOUS
  <1> USE WorkersAssumption, StagesAssumption, BoundsAssumption
  <1>1. TypeOK
    <2>1. sch \in SchedulerState BY DEF Init, scheduler, SchedulerState
    <2>2. stage \in 1 .. NStages + 1 /\ crashes \in 0 .. MaxCrashes BY DEF Init
    <2>3. pc \in MasterPCs /\ wpc \in [Workers -> WorkerPCs]
          /\ wtask \in [Workers -> Kinds]
      BY DEF Init, MasterPCs, WorkerPCs, Kinds
    <2>4. /\ rows \in [Items -> Nat]
          /\ witem \in [Workers -> Items \cup {NoItem}]
      BY DEF Init
    <2>6. /\ indexed \in [UsedKinds -> BOOLEAN] /\ db_set \in BOOLEAN
          /\ todo \subseteq Items /\ list \subseteq Workers
          /\ closed \in BOOLEAN
      BY Zenon DEF Init
    <2>5. /\ toWorker \in [Workers -> Seq(Message)]
          /\ toMaster \in [Workers -> Seq(Message)]
      BY DEF Init
    <2> QED BY <2>1, <2>2, <2>3, <2>4, <2>5, <2>6 DEF TypeOK
  <1>2. MasterInv /\ SchedulerConsistent /\ ItemsInv /\ IndexInv
    BY DEF Init, MasterInv, SchedulerConsistent, ItemsInv, IndexInv, InLoop
  <1>3. \A w \in Workers : WorkerInv(w)
    BY DEF Init, WorkerInv, Resting, Channels, InLoop
  <1> QED BY <1>1, <1>2, <1>3 DEF IInv

(***************************************************************************)
(* A worker that a step does not touch stays where it is.                  *)
(***************************************************************************)
Untouched(v) ==
  /\ wpc'[v] = wpc[v] /\ wtask'[v] = wtask[v] /\ witem'[v] = witem[v]
  /\ toWorker'[v] = toWorker[v] /\ toMaster'[v] = toMaster[v]

\* A step of another process leaves a worker's position predicates alone.
LEMMA UntouchedLemma ==
  ASSUME NEW v \in Workers, Untouched(v), stage' = stage, closed' = closed
  PROVE  /\ Resting(v)' <=> Resting(v)
         /\ Called(v)' <=> Called(v)
         /\ Reported(v)' <=> Reported(v)
         /\ InTask(v, <<>>, <<>>)' <=> InTask(v, <<>>, <<>>)
         /\ \A i : Holds(v, i)' <=> Holds(v, i)
         /\ (v \in sch'.inactive <=> v \in sch.inactive) => (Free(v)' <=> Free(v))
  <1> USE DEF Untouched, kind, Channels, InTask
  <1>1. /\ Resting(v)' <=> Resting(v)
        /\ Called(v)' <=> Called(v)
        /\ Reported(v)' <=> Reported(v)
    BY DEF Resting, Called, Reported
  <1>2. InTask(v, <<>>, <<>>)' <=> InTask(v, <<>>, <<>>)
    OBVIOUS
  <1>3. \A i : Holds(v, i)' <=> Holds(v, i)
    BY DEF Computing, Holds
  <1>4. (v \in sch'.inactive <=> v \in sch.inactive) => (Free(v)' <=> Free(v))
    BY DEF Resting, Free
  <1> QED BY ONLY <1>1, <1>2, <1>3, <1>4

WorkerTypes ==
  /\ wpc \in [Workers -> WorkerPCs]
  /\ wtask \in [Workers -> Kinds]
  /\ witem \in [Workers -> Items \cup {NoItem}]
  /\ toWorker \in [Workers -> Seq(Message)]
  /\ toMaster \in [Workers -> Seq(Message)]

(***************************************************************************)
(* A step of worker w preserves the invariant if w ends in a position the  *)
(* invariant allows, holding the items it held.                            *)
(***************************************************************************)
LEMMA WorkerStepInv ==
  ASSUME IInv, NEW w \in Workers,
         UNCHANGED <<storeVars, masterVars, crashes>>,
         \A v \in Workers \ {w} : Untouched(v),
         WorkerTypes', WorkerInv(w)',
         InLoop => \A i \in Items : Holds(w, i)' <=> Holds(w, i)
  PROVE  IInv'
  <1> USE DEF storeVars, masterVars
  <1>1. TypeOK'
    BY DEF IInv, TypeOK, WorkerTypes
  <1>2. MasterInv' /\ IndexInv'
    BY DEF IInv, MasterInv, IndexInv, InLoop, kind
  <1>3. SchedulerConsistent'
    BY DEF IInv, SchedulerConsistent, InLoop
  <1>4. ASSUME NEW v \in Workers PROVE WorkerInv(v)'
    <2>1. CASE v = w
      BY <2>1
    <2>2. CASE v # w
      <3>1. WorkerInv(v)
        BY DEF IInv
      <3>2. Untouched(v)
        BY <2>2
      <3> QED BY <3>1, <3>2, UntouchedLemma DEF WorkerInv, Leaving, InLoop,
                 Untouched, Channels
    <2> QED BY <2>1, <2>2
  <1>5. ItemsInv'
    <2>1. ASSUME InLoop
          PROVE  \A v \in Workers, i \in Items : Holds(v, i)' <=> Holds(v, i)
      BY <2>1, UntouchedLemma
    <2>2. /\ MissingItems(stage)' = MissingItems(stage)
          /\ MissingItems(stage) \subseteq Items
      BY DEF MissingItems, ItemsOfStage
    <2>3. InLoop' <=> InLoop
      BY DEF InLoop
    <2>4. ASSUME InLoop, LoopItems PROVE LoopItems'
      <3>1. todo' = todo
        OBVIOUS
      <3>2. \A v \in Workers, i \in Items : Holds(v, i)' <=> Holds(v, i)
        BY <2>1, <2>4
      <3> QED BY ONLY <2>2, <2>4, <3>1, <3>2 DEF LoopItems
    <2> QED BY <2>2, <2>3, <2>4 DEF IInv, ItemsInv
  <1> QED BY <1>1, <1>2, <1>3, <1>4, <1>5 DEF IInv

------------------------------------------------------------------------------
(***************************************************************************)
(* Where a worker can be, and what its channels hold there.                *)
(***************************************************************************)
LEMMA KindType == stage \in Stages => kind \in Kinds
  BY StagesAssumption DEF kind

\* An idle worker finds a message only when the master is calling the workers to
\* a task (set_up_workers) or dismissing them (terminate_workers).
LEMMA IdleReceives ==
  ASSUME IInv, NEW w \in Workers, wpc[w] = "idle", toWorker[w] # <<>>
  PROVE  \/ /\ pc \in {"setup_wait", "init"} /\ stage \in Stages
            /\ Called(w) /\ (pc = "init" => w \notin sch.initialized)
         \/ /\ pc \in {"term_wait", "exited"}
            /\ Channels(w, <<Empty(TERMINATE)>>, <<>>)
  <1>1. WorkerInv(w) /\ pc \in MasterPCs
    BY DEF IInv, TypeOK
  <1>2. CASE InLoop
    BY <1>1, <1>2 DEF WorkerInv, Holds, Free, InTask, Computing, Resting, Channels
  <1>3. CASE pc \in {"start", "between", "down"}
    BY <1>1, <1>3 DEF WorkerInv, Resting, Channels
  <1>4. CASE pc \in {"setup_wait", "init"}
    BY <1>1, <1>4 DEF IInv, MasterInv, WorkerInv, Reported, InTask
  <1>5. CASE pc \in {"term_wait", "exited"}
    BY <1>1, <1>5 DEF WorkerInv, Leaving, Resting, Channels
  <1> QED BY <1>1, <1>2, <1>3, <1>4, <1>5 DEF MasterPCs, InLoop

\* A worker in process_task() whose channel from the master is not empty.
LEMMA TaskReceives ==
  ASSUME IInv, NEW w \in Workers, wpc[w] = "task", toWorker[w] # <<>>
  PROVE  /\ InLoop /\ stage \in Stages /\ wtask[w] = kind
         /\ \/ /\ w \in sch.assigned /\ w \notin sch.inactive
               /\ \E i \in Items :
                    \/ ~closed /\ Channels(w, <<NewItem(kind, i)>>, <<>>)
                    \/ closed /\ Channels(w, <<NewItem(kind, i), EOW>>, <<>>)
                    \/ /\ closed
                       /\ \E f \in BOOLEAN : Channels(w, <<EOW>>, <<Product(i, f)>>)
            \/ /\ w \notin sch.assigned /\ w \notin sch.inactive
               /\ closed /\ Channels(w, <<EOW>>, <<>>)
  <1>1. WorkerInv(w) /\ pc \in MasterPCs
    BY DEF IInv, TypeOK
  <1>2. CASE InLoop
    BY <1>1, <1>2 DEF IInv, MasterInv, WorkerInv, Holds, Free, InTask, Computing,
                      Resting, Channels
  <1>3. CASE pc \in {"start", "between", "down"}
    BY <1>1, <1>3 DEF WorkerInv, Resting, Channels
  <1>4. CASE pc \in {"setup_wait", "init"}
    BY <1>1, <1>4 DEF WorkerInv, Called, Reported, InTask, Channels
  <1>5. CASE pc \in {"term_wait", "exited"}
    BY <1>1, <1>5 DEF WorkerInv, Leaving, Resting, Channels
  <1> QED BY <1>1, <1>2, <1>3, <1>4, <1>5 DEF MasterPCs, InLoop

\* A worker is concerned with one item at a time.
LEMMA HoldsOne ==
  ASSUME NEW w \in Workers, NEW i, NEW j, Holds(w, i), Holds(w, j)
  PROVE  i = j
  <1> USE ChannelsDiffer, MessageFacts
  <1>1. CASE wpc[w] = "computing"
    BY <1>1 DEF Holds, InTask, Computing
  <1>2. CASE wpc[w] = "idle"
    BY <1>2 DEF Holds, InTask, Computing, Channels
  <1>3. CASE wpc[w] \notin {"computing", "idle"} /\ closed
    BY <1>3 DEF Holds, InTask, Computing, Channels
  <1>4. CASE wpc[w] \notin {"computing", "idle"} /\ ~closed
    BY <1>4 DEF Holds, InTask, Computing, Channels
  <1> QED BY <1>1, <1>2, <1>3, <1>4

\* A worker computes only during the loop of scatter(), in the task and with an
\* item of the running stage, and the scheduler has it marked as assigned.
LEMMA ComputingWhere ==
  ASSUME IInv, NEW w \in Workers, wpc[w] = "computing"
  PROVE  /\ InLoop /\ stage \in Stages /\ wtask[w] = kind
         /\ w \in sch.assigned /\ w \notin sch.inactive
         /\ witem[w] \in Items /\ Holds(w, witem[w])
         /\ Computing(w, witem[w], IF closed THEN <<EOW>> ELSE <<>>)
  <1>1. WorkerInv(w) /\ pc \in MasterPCs
    BY DEF IInv, TypeOK
  <1>2. CASE InLoop
    <2>1. w \in sch.assigned
      BY <1>1, <1>2 DEF WorkerInv, Free, InTask, Resting
    <2>2. PICK i \in Items : Holds(w, i)
      BY <1>1, <1>2, <2>1 DEF WorkerInv
    <2>3. Computing(w, i, IF closed THEN <<EOW>> ELSE <<>>)
      BY <2>2 DEF Holds, InTask
    <2>4. witem[w] = i /\ wtask[w] = kind
      BY <2>3 DEF Computing
    <2> QED BY <1>1, <1>2, <2>1, <2>2, <2>3, <2>4 DEF IInv, MasterInv, WorkerInv
  <1>3. CASE pc \in {"start", "between", "down"}
    BY <1>1, <1>3 DEF WorkerInv, Resting
  <1>4. CASE pc \in {"setup_wait", "init"}
    BY <1>1, <1>4 DEF WorkerInv, Called, Reported, InTask
  <1>5. CASE pc \in {"term_wait", "exited"}
    BY <1>1, <1>5 DEF WorkerInv, Leaving, Resting
  <1> QED BY <1>1, <1>2, <1>3, <1>4, <1>5 DEF MasterPCs, InLoop

------------------------------------------------------------------------------
(***************************************************************************)
(* The steps of a worker.                                                  *)
(***************************************************************************)
LEMMA ReceiveTypes ==
  ASSUME TypeOK, NEW w \in Workers
  PROVE  /\ toWorker[w] # <<>> =>
              Receive(toWorker, w) \in [Workers -> Seq(Message)]
         /\ toMaster[w] # <<>> =>
              Receive(toMaster, w) \in [Workers -> Seq(Message)]
  BY DEF TypeOK, Receive

\* Sending a message keeps the channels well typed.
LEMMA SendTypes ==
  ASSUME TypeOK, NEW w \in Workers, NEW m \in Message
  PROVE  /\ Send(toWorker, w, m) \in [Workers -> Seq(Message)]
         /\ Send(toMaster, w, m) \in [Workers -> Seq(Message)]
  BY DEF TypeOK, Send

\* A worker that takes up a task and reports ready keeps the invariant.
LEMMA ReceiveTaskInv ==
  ASSUME IInv, NEW w \in Workers, ReceiveTask(w)
  PROVE  IInv'
  <1> USE DEF ReceiveTask, WorkerUnchanged, storeVars, masterVars
  <1>1. PICK k \in Kinds : /\ Arrived(toWorker, w, new_task_message(k))
                          /\ wtask' = [wtask EXCEPT ![w] = k]
    OBVIOUS
  <1>2. TypeOK
    BY DEF IInv
  <1>3. /\ pc \in {"setup_wait", "init"} /\ stage \in Stages
        /\ Called(w) /\ (pc = "init" => w \notin sch.initialized)
    <2>1. new_task_message(k) # TERMINATE
      BY TagFacts DEF TERMINATE
    <2>2. ~Channels(w, <<Empty(TERMINATE)>>, <<>>)
      BY <1>1, <2>1, Channel1 DEF Channels, Arrived, Empty
    <2> QED BY <1>1, <2>2, IdleReceives DEF Arrived
  <1>4. k = kind
    BY <1>1, <1>3, Channel1, TagFacts, KindType DEF Called, Channels, Arrived, Empty
  <1>5. Reported(w)'
    <2>1. toWorker'[w] = <<>> /\ toMaster'[w] = <<Empty(WORKER_READY)>>
      BY <1>2, <1>3, Channel0, Channel1
         DEF TypeOK, Called, Channels, Send, Receive
    <2>2. wpc'[w] = "task" /\ wtask'[w] = kind'
      BY <1>1, <1>2, <1>4 DEF TypeOK, kind
    <2> QED BY <2>1, <2>2 DEF Reported, Channels
  <1>6. WorkerTypes'
    <2>1. Receive(toWorker, w) \in [Workers -> Seq(Message)]
      BY <1>1, <1>2, ReceiveTypes DEF Arrived
    <2>2. Empty(WORKER_READY) \in Message
      BY DEF Empty, Message, AllTags, ControlTags
    <2>3. Send(toMaster, w, Empty(WORKER_READY)) \in [Workers -> Seq(Message)]
      BY <1>2, <2>2, SendTypes
    <2>4. [wpc EXCEPT ![w] = "task"] \in [Workers -> WorkerPCs]
      BY <1>2 DEF TypeOK, WorkerPCs
    <2>5. [wtask EXCEPT ![w] = k] \in [Workers -> Kinds]
      BY <1>2 DEF TypeOK
    <2> QED BY <1>1, <1>2, <2>1, <2>3, <2>4, <2>5 DEF WorkerTypes, TypeOK
  <1>7. \A v \in Workers \ {w} : Untouched(v)
    BY <1>1, <1>2 DEF Untouched, TypeOK, Send, Receive
  <1>8. WorkerInv(w)'
    BY <1>3, <1>5 DEF WorkerInv, InLoop
  <1>9. ~InLoop
    BY <1>3 DEF InLoop
  <1> QED BY <1>6, <1>7, <1>8, <1>9, WorkerStepInv

\* A worker that leaves on TERMINATE keeps the invariant.
LEMMA ReceiveTerminateInv ==
  ASSUME IInv, NEW w \in Workers, ReceiveTerminate(w)
  PROVE  IInv'
  <1> USE DEF ReceiveTerminate, WorkerUnchanged, storeVars, masterVars
  <1>1. TypeOK
    BY DEF IInv
  <1>2. /\ pc \in {"term_wait", "exited"}
        /\ Channels(w, <<Empty(TERMINATE)>>, <<>>)
    <2>1. stage \in Stages => ~Called(w)
      BY TagFacts, KindType, Channel1
         DEF Called, Channels, Arrived, Empty, TERMINATE
    <2> QED BY <2>1, IdleReceives DEF Arrived
  <1>3. wpc'[w] = "exited" /\ Channels(w, <<>>, <<>>)'
    BY <1>1, <1>2, Channel1 DEF TypeOK, Channels, Receive
  <1>4. WorkerInv(w)'
    BY <1>2, <1>3 DEF WorkerInv, InLoop, Leaving
  <1>5. WorkerTypes'
    <2>1. Receive(toWorker, w) \in [Workers -> Seq(Message)]
      BY <1>1, ReceiveTypes DEF Arrived
    <2>2. [wpc EXCEPT ![w] = "exited"] \in [Workers -> WorkerPCs]
      BY <1>1 DEF TypeOK, WorkerPCs
    <2> QED BY <1>1, <2>1, <2>2 DEF WorkerTypes, TypeOK
  <1>6. \A v \in Workers \ {w} : Untouched(v)
    BY <1>1 DEF Untouched, TypeOK, Receive
  <1>7. ~InLoop
    BY <1>2 DEF InLoop
  <1> QED BY <1>4, <1>5, <1>6, <1>7, WorkerStepInv

\* A worker that takes an item keeps the invariant: the item moves from the
\* channel to the worker.
LEMMA ReceiveItemInv ==
  ASSUME IInv, NEW w \in Workers, ReceiveItem(w)
  PROVE  IInv'
  <1> USE DEF ReceiveItem, WorkerUnchanged, storeVars, masterVars
  <1>1. TypeOK
    BY DEF IInv
  <1>2. InLoop /\ stage \in Stages /\ wtask[w] = kind
    BY TaskReceives DEF Arrived
  <1>3. new_item_message(kind) # END_OF_WORK
    BY <1>2, KindType, TagFacts DEF END_OF_WORK
  <1>4. PICK i \in Items :
          /\ w \in sch.assigned /\ w \notin sch.inactive
          /\ \/ ~closed /\ Channels(w, <<NewItem(kind, i)>>, <<>>)
             \/ closed /\ Channels(w, <<NewItem(kind, i), EOW>>, <<>>)
    <2>1. toWorker[w] # <<EOW>>
      BY <1>2, <1>3, Channel1, MessageFacts DEF Arrived
    <2> QED BY <2>1, TaskReceives DEF Arrived, Channels
  <1>5. /\ Head(toWorker[w]) = NewItem(kind, i)
        /\ toWorker'[w] = IF closed THEN <<EOW>> ELSE <<>>
        /\ toMaster'[w] = <<>>
    <2>1. toWorker'[w] = Tail(toWorker[w]) /\ toMaster'[w] = <<>>
      BY <1>1, <1>4 DEF TypeOK, Channels, Receive
    <2>2. CASE closed
      BY <1>4, <2>1, <2>2, Channel2 DEF Channels
    <2>3. CASE ~closed
      BY <1>4, <2>1, <2>3, Channel1 DEF Channels
    <2> QED BY <2>1, <2>2, <2>3
  <1>6. Computing(w, i, IF closed THEN <<EOW>> ELSE <<>>)'
    <2>3. wpc'[w] = "computing" /\ wtask'[w] = kind'
      BY <1>1, <1>2 DEF TypeOK, kind
    <2>4. witem'[w] = Head(toWorker[w]).item
      BY <1>1 DEF TypeOK
    <2>1. wpc'[w] = "computing" /\ wtask'[w] = kind' /\ witem'[w] = i
      BY <1>5, <2>3, <2>4, MessageFacts
    <2>2. toWorker'[w] = IF closed' THEN <<EOW>> ELSE <<>>
      BY <1>5
    <2> QED BY ONLY <1>5, <2>1, <2>2 DEF Computing, Channels, EOW, Empty
  <1>7. \A j \in Items : Holds(w, j) <=> j = i
    <2>1. Holds(w, i)
      BY <1>2, <1>4 DEF Holds, InTask, Channels
    <2> QED BY <2>1, HoldsOne
  <1>8. \A j \in Items : Holds(w, j)' <=> j = i
    BY <1>6 DEF Holds, InTask, Computing, Channels
  <1>9. WorkerInv(w)'
    BY <1>2, <1>4, <1>8 DEF WorkerInv, InLoop
  <1>10. WorkerTypes'
    BY <1>1, <1>5, ReceiveTypes
       DEF WorkerTypes, TypeOK, WorkerPCs, Arrived, NewItem
  <1>11. \A v \in Workers \ {w} : Untouched(v)
    BY <1>1 DEF Untouched, TypeOK, Receive
  <1> QED BY <1>7, <1>8, <1>9, <1>10, <1>11, WorkerStepInv

\* A worker that returns a product keeps the invariant: the item moves from the
\* worker to the channel back.
LEMMA FinishItemInv ==
  ASSUME IInv, NEW w \in Workers, NEW fail \in BOOLEAN, FinishItem(w, fail)
  PROVE  IInv'
  <1> USE DEF FinishItem, WorkerUnchanged, storeVars, masterVars
  <1> DEFINE i == witem[w]
  <1>1. TypeOK
    BY DEF IInv
  <1>2. /\ InLoop /\ stage \in Stages /\ wtask[w] = kind
        /\ w \in sch.assigned /\ w \notin sch.inactive
        /\ i \in Items
        /\ Computing(w, i, IF closed THEN <<EOW>> ELSE <<>>)
    BY ComputingWhere
  <1>3. /\ toWorker'[w] = IF closed THEN <<EOW>> ELSE <<>>
        /\ toMaster'[w] = <<Product(i, fail)>>
        /\ wpc'[w] = "ack" /\ wtask'[w] = kind'
    BY <1>1, <1>2, Channel0 DEF TypeOK, Computing, Channels, Send, kind
  <1>4. \A j \in Items : Holds(w, j) <=> j = i
    BY <1>2 DEF Holds, InTask, Computing, Channels
  <1>5. \A j \in Items : Holds(w, j)' <=> j = i
    <2>1. \A j, g : <<Product(i, fail)>> = <<Product(j, g)>> => i = j
      BY MessageFacts, ChannelsDiffer
    <2>2. toMaster'[w] # <<>>
      BY <1>3
    <2>3. CASE closed
      BY <1>3, <2>1, <2>2, <2>3 DEF Holds, InTask, Computing, Channels
    <2>4. CASE ~closed
      BY <1>3, <2>1, <2>2, <2>4 DEF Holds, InTask, Computing, Channels
    <2> QED BY <2>3, <2>4
  <1>6. WorkerInv(w)'
    BY <1>2, <1>5 DEF WorkerInv, InLoop
  <1>7. WorkerTypes'
    BY <1>1, <1>2, SendTypes, MessageType, KindType
       DEF WorkerTypes, TypeOK, WorkerPCs
  <1>8. \A v \in Workers \ {w} : Untouched(v)
    BY <1>1 DEF Untouched, TypeOK, Send
  <1> QED BY <1>4, <1>5, <1>6, <1>7, <1>8, WorkerStepInv

\* ack.wait() keeps the invariant.
LEMMA ProductSentInv ==
  ASSUME IInv, NEW w \in Workers, ProductSent(w)
  PROVE  IInv'
  <1> USE DEF ProductSent, WorkerUnchanged, storeVars, masterVars, mpiVars
  <1>1. TypeOK
    BY DEF IInv
  <1>2. wpc[w] = "ack" /\ wpc'[w] = "task"
    BY <1>1 DEF TypeOK
  <1>3. \A j \in Items : Holds(w, j)' <=> Holds(w, j)
    BY <1>2 DEF Holds, InTask, Computing, Channels, kind
  <1>4. WorkerInv(w)'
    <2>1. WorkerInv(w)
      BY DEF IInv
    <2>2. Free(w) => Free(w)'
      BY <1>2 DEF Free, InTask, Resting, Channels, kind
    <2>3. InTask(w, <<>>, <<>>) => InTask(w, <<>>, <<>>)'
      BY <1>2 DEF InTask, Channels, kind
    <2>4. ~Called(w) /\ ~Reported(w) /\ ~Resting(w) /\ ~Leaving(w)
      BY <1>2 DEF Called, Reported, Resting, Leaving
    <2> QED BY <1>3, <2>1, <2>2, <2>3, <2>4 DEF WorkerInv, InLoop
  <1>5. WorkerTypes'
    BY <1>1 DEF WorkerTypes, TypeOK, WorkerPCs
  <1>6. \A v \in Workers \ {w} : Untouched(v)
    BY <1>1 DEF Untouched, TypeOK
  <1> QED BY <1>3, <1>4, <1>5, <1>6, WorkerStepInv

\* A worker that acknowledges the end of the work keeps the invariant.
LEMMA ReceiveEndOfWorkInv ==
  ASSUME IInv, NEW w \in Workers, ReceiveEndOfWork(w)
  PROVE  IInv'
  <1> USE DEF ReceiveEndOfWork, WorkerUnchanged, storeVars, masterVars
  <1>1. TypeOK
    BY DEF IInv
  <1>2. InLoop /\ stage \in Stages /\ wtask[w] = kind
    BY TaskReceives DEF Arrived
  <1>3. new_item_message(kind) # END_OF_WORK
    BY <1>2, KindType, TagFacts DEF END_OF_WORK
  <1>4. /\ closed /\ w \notin sch.inactive
        /\ \/ /\ w \in sch.assigned
              /\ \E i \in Items, f \in BOOLEAN :
                   Channels(w, <<EOW>>, <<Product(i, f)>>)
           \/ w \notin sch.assigned /\ Channels(w, <<EOW>>, <<>>)
    <2>1. \A i : /\ toWorker[w] # <<NewItem(kind, i)>>
                 /\ toWorker[w] # <<NewItem(kind, i), EOW>>
      BY <1>3, Channel1, Channel2, MessageFacts DEF Arrived
    <2> QED BY <2>1, TaskReceives DEF Arrived, Channels
  <1>5. wpc'[w] = "idle" /\ toWorker'[w] = <<>>
    BY <1>1, <1>4, Channel1 DEF TypeOK, Channels, Receive
  <1>6. WorkerTypes'
    <2> DEFINE received == Receive(toWorker, w)
               sent == Send(toMaster, w, ACK)
    <2>1. received \in [Workers -> Seq(Message)]
      BY <1>1, ReceiveTypes DEF Arrived
    <2>2. ACK \in Message
      BY <1>2, <1>4, KindType
         DEF ACK, Empty, Message, AllTags, ControlTags
    <2>3. sent \in [Workers -> Seq(Message)]
      BY <1>1, <2>2, SendTypes
    <2> QED BY <1>1, <2>1, <2>3 DEF WorkerTypes, TypeOK, WorkerPCs, ACK
  <1>7. \A v \in Workers \ {w} : Untouched(v)
    BY <1>1 DEF Untouched, TypeOK, Send, Receive
  <1>8. WorkerInv(w)' /\ \A i \in Items : Holds(w, i)' <=> Holds(w, i)
    <2>1. CASE w \in sch.assigned
      <3>1. PICK i \in Items, f \in BOOLEAN : Channels(w, <<EOW>>, <<Product(i, f)>>)
        BY <1>4, <2>1
      <3>2. toMaster'[w] = <<Product(i, f), ACK>>
        BY <1>1, <3>1, Channel1 DEF TypeOK, Channels, Send, ACK
      <3>3. \A j \in Items : Holds(w, j) <=> j = i
        <4>1. Holds(w, i)
          BY <1>2, <1>4, <3>1 DEF Holds, InTask, Channels
        <4> QED BY <4>1, HoldsOne
      <3>4. \A j \in Items : Holds(w, j)' <=> j = i
        <4>1. \A j, g : <<Product(i, f), ACK>> = <<Product(j, g), ACK>> => i = j
          BY MessageFacts, ChannelsDiffer
        <4> QED BY <1>4, <1>5, <3>2, <4>1 DEF Holds, InTask, Computing, Channels
      <3> QED BY <1>2, <1>4, <2>1, <3>3, <3>4 DEF WorkerInv, InLoop
    <2>2. CASE w \notin sch.assigned
      <3>1. toMaster'[w] = <<ACK>>
        BY <1>1, <1>4, <2>2, Channel0 DEF TypeOK, Channels, Send, ACK
      <3>2. \A j \in Items : ~Holds(w, j) /\ ~Holds(w, j)'
        <4>1. \A j, g : /\ <<ACK>> # <<Product(j, g)>>
                        /\ <<ACK>> # <<Product(j, g), ACK>>
                        /\ <<EOW>> # <<NewItem(kind, j), EOW>>
          BY MessageFacts, ChannelsDiffer
        <4>2. \A j \in Items : ~Holds(w, j)
          <5>1. /\ wpc[w] = "task" /\ closed
                /\ toWorker[w] = <<EOW>> /\ toMaster[w] = <<>>
            BY <1>4, <2>2 DEF Channels
          <5>2. \A j, g : toMaster[w] # <<Product(j, g)>>
            BY <5>1, ChannelsDiffer
          <5> QED BY ONLY <4>1, <5>1, <5>2 DEF Holds, InTask, Computing, Channels
        <4>3. \A j \in Items : ~Holds(w, j)'
          BY <1>4, <1>5, <3>1, <4>1 DEF Holds, InTask, Computing, Channels
        <4> QED BY <4>2, <4>3
      <3>3. Free(w)'
        BY <1>4, <1>5, <3>1 DEF Free, Channels
      <3> QED BY <1>2, <2>2, <3>2, <3>3 DEF WorkerInv, InLoop
    <2> QED BY <2>1, <2>2
  <1> QED BY <1>6, <1>7, <1>8, WorkerStepInv
==============================================================================
