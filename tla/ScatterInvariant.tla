--------------------------- MODULE ScatterInvariant ---------------------------
(***************************************************************************)
(* The inductive invariant behind the safety properties of Scatter.        *)
(*                                                                         *)
(* It says, for every position of the master, which combinations of a      *)
(* worker's position and the contents of its two channels can occur.       *)
(* There are few: no channel ever holds more than two messages, and the    *)
(* only pairs are an item or a product with an end-of-work message behind. *)
(***************************************************************************)
EXTENDS ScatterProperties

Channels(w, down, up) == toWorker[w] = down /\ toMaster[w] = up

EOW == Empty(END_OF_WORK)
ACK == Empty(END_OF_WORK_ACK)

\* w awaits the next task; nothing is under way.
Resting(w) == wpc[w] = "idle" /\ Channels(w, <<>>, <<>>)

\* w has been told of the task, or has answered.
Called(w) ==
  wpc[w] = "idle" /\ Channels(w, <<Empty(new_task_message(kind))>>, <<>>)
Reported(w) == /\ wpc[w] = "task" /\ wtask[w] = kind
               /\ Channels(w, <<>>, <<Empty(WORKER_READY)>>)

\* w is in process_task() for this stage, between two items.
InTask(w, down, up) == /\ wpc[w] \in {"task", "ack"} /\ wtask[w] = kind
                       /\ Channels(w, down, up)

Computing(w, i, down) == /\ wpc[w] = "computing" /\ wtask[w] = kind
                         /\ witem[w] = i /\ Channels(w, down, <<>>)

\* Item i is with w: on its way there, being computed, or on its way back.
Holds(w, i) ==
  \/ ~closed /\ InTask(w, <<NewItem(kind, i)>>, <<>>)
  \/ ~closed /\ Computing(w, i, <<>>)
  \/ ~closed /\ \E f \in BOOLEAN : InTask(w, <<>>, <<Product(i, f)>>)
  \/ closed /\ InTask(w, <<NewItem(kind, i), EOW>>, <<>>)
  \/ closed /\ Computing(w, i, <<EOW>>)
  \/ closed /\ \E f \in BOOLEAN : InTask(w, <<EOW>>, <<Product(i, f)>>)
  \/ /\ closed /\ wpc[w] = "idle"
     /\ \E f \in BOOLEAN : Channels(w, <<>>, <<Product(i, f), ACK>>)

\* w has no item: free, told to stop, stopped, or written off by the master.
Free(w) ==
  \/ ~closed /\ w \notin sch.inactive /\ InTask(w, <<>>, <<>>)
  \/ closed /\ w \notin sch.inactive /\ InTask(w, <<EOW>>, <<>>)
  \/ closed /\ w \notin sch.inactive /\ wpc[w] = "idle" /\ Channels(w, <<>>, <<ACK>>)
  \/ closed /\ w \in sch.inactive /\ Resting(w)

\* w was told to terminate, and may have done so; or nobody told it.
Leaving(w) ==
  \/ wpc[w] = "idle" /\ Channels(w, <<Empty(TERMINATE)>>, <<>>)
  \/ wpc[w] = "exited" /\ Channels(w, <<>>, <<>>)
  \/ pc = "exited" /\ Resting(w)

WorkerInv(w) ==
  /\ pc \in {"start", "between", "down"} => Resting(w)
  /\ pc = "setup_wait" => Called(w) \/ Reported(w)
  /\ pc = "init" => IF w \in sch.initialized THEN InTask(w, <<>>, <<>>)
                                             ELSE Called(w) \/ Reported(w)
  /\ InLoop => IF w \in sch.assigned
                 THEN w \notin sch.inactive /\ \E i \in Items : Holds(w, i)
                 ELSE Free(w)
  /\ pc \in {"term_wait", "exited"} => Leaving(w)

MasterInv ==
  /\ pc \in {"start", "down"} => stage = 1
  /\ pc \in {"setup_wait", "init"} \/ InLoop => stage \in Stages
  /\ pc = "init" => sch.assigned = {} /\ sch.inactive = {}
  /\ InLoop => /\ sch.initialized = Workers
               /\ closed => todo = {}
  /\ pc = "close_wait" => closed
  /\ pc = "assigning" => ~closed /\ list \subseteq Workers \ sch.assigned

IndexInv ==
  /\ (pc \in {"setup_wait", "init"} \/ InLoop) /\ kind \in IndexedKinds
       => ~indexed[kind]

\* The items of the running scatter(): where they are, and only there.
LoopItems ==
  /\ todo \subseteq MissingItems(stage)
  /\ \A w \in Workers, i \in Items :
       Holds(w, i) => i \in MissingItems(stage) \ todo
  /\ \A w, v \in Workers, i \in Items : Holds(w, i) /\ Holds(v, i) => w = v
  /\ \A i \in MissingItems(stage) : i \in todo \/ \E w \in Workers : Holds(w, i)

ItemsInv ==
  /\ rows \in [Items -> {0, 1}]
  /\ pc \in {"setup_wait", "init"} => todo = MissingItems(stage)
  /\ InLoop => LoopItems

\* A worker keeps an item only while it computes it.
IdleHands == \A w \in Workers : wpc[w] # "computing" => witem[w] = NoItem

IInv ==
  /\ TypeOK
  /\ MasterInv
  /\ \A w \in Workers : WorkerInv(w)
  /\ SchedulerConsistent
  /\ ItemsInv
  /\ IndexInv
==============================================================================
