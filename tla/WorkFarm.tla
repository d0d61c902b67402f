------------------------------ MODULE WorkFarm -------------------------------
(***************************************************************************)
(* What a run of the pipeline promises about the results store, with no    *)
(* mention of workers, messages or the scheduler.  A pipeline is a row of  *)
(* stages (filtering, Matsubara coefficients, loop integrals, one-loop     *)
(* P(k), multipoles, counterterms); each has its own results.              *)
(*                                                                         *)
(*   - a result is written to the store at most once;                      *)
(*   - a result of a stage is written only when every result of every      *)
(*     earlier stage is there, because a later work list reads them;       *)
(*   - a job that dies starts again at the first stage, and keeps every    *)
(*     result already written.                                             *)
(***************************************************************************)
EXTENDS Integers

CONSTANTS Items,     \* the results wanted, over all stages
          NStages,   \* number of stages, executed in order
          StageOf    \* the stage that computes an item

VARIABLES rows,      \* number of rows the store holds for an item
          stage      \* the stage being worked on; NStages + 1: all done

farmVars == <<rows, stage>>

ItemsOf(s) == {i \in Items : StageOf[i] = s}

\* A store that an earlier run left partly filled, by this pipeline or by one
\* whose stages overlap with it.
FarmInit ==
  /\ rows \in [Items -> {0, 1}]
  /\ stage = 1

Store(i) ==
  /\ StageOf[i] = stage
  /\ rows[i] = 0
  /\ rows' = [rows EXCEPT ![i] = 1]
  /\ UNCHANGED stage

NextStage ==
  /\ stage <= NStages
  /\ \A i \in ItemsOf(stage) : rows[i] = 1
  /\ stage' = stage + 1
  /\ UNCHANGED rows

StartAgain ==
  /\ stage' = 1
  /\ UNCHANGED rows

FarmNext == (\E i \in Items : Store(i)) \/ NextStage \/ StartAgain

FarmSpec == FarmInit /\ [][FarmNext]_farmVars
==============================================================================
