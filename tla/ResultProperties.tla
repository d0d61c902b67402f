-------------------------- MODULE ResultProperties ---------------------------
(***************************************************************************)
(* What makes the results store of module ResultTables correct.            *)
(***************************************************************************)
EXTENDS ResultTables

(***************************************************************************)
(* The values the variables may take.                                      *)
(***************************************************************************)
TypeOK ==
  /\ rows \in [Cells -> Nat]
  /\ grid \in Grids
  /\ pc \in PCs
  /\ stage \in Stages
  /\ list \subseteq SUBSET Keys(name)
  /\ outcome \in Outcomes
  /\ edits \in 0 .. MaxEdits

(***************************************************************************)
(* Whatever grids the jobs ask for, wherever they are killed and whatever  *)
(* rows are deleted by hand between them, no result is stored twice (there *)
(* is no uniqueness constraint, and find() accepts exactly one row).  The  *)
(* work lists of the other two stages do not guarantee it: see             *)
(* OnlyMissingComputed for the one-loop spectra and DoneIsExact for the    *)
(* counterterms.                                                           *)
(***************************************************************************)
SafeStages == {"growth", "filter_Pk", "Matsubara_XY", "loop_integral",
               "multipole_Pk"}

NeverTwice ==
  \A s \in SafeStages : \A cell \in CellsOf(s) : rows[cell] <= 1

(***************************************************************************)
(* A job that ended normally left exactly one row for every result it was  *)
(* asked for, in every table.                                              *)
(***************************************************************************)
Computed(g, n) == n = 1 \/ g.Pk

DoneIsExact ==
  pc = "idle" /\ outcome = "done" =>
    \A n \in Stages : Computed(grid, n) =>
      \A t \in Tables(StageNames[n]), key \in Wanted(grid, StageNames[n]) :
        rows[<<t, key>>] = 1

\* The same without asking that there is only one.
DoneIsComplete ==
  pc = "idle" /\ outcome = "done" =>
    \A n \in Stages : Computed(grid, n) =>
      \A t \in Tables(StageNames[n]), key \in Wanted(grid, StageNames[n]) :
        rows[<<t, key>>] > 0

(***************************************************************************)
(* No find() ever misreads: each stage finds the results of the earlier    *)
(* stages it needs, once.                                                  *)
(***************************************************************************)
NoMisread == outcome # "failed"

(***************************************************************************)
(* Where the grids of the jobs differ, only one thing makes a find() fail: *)
(* one-loop spectra that were stored again (see OnlyMissingComputed).  No  *)
(* row lost elsewhere does, since the lists see to it in time.             *)
(***************************************************************************)
OnlyDuplicatesMisread ==
  outcome = "failed" => \E cell \in CellsOf("one_loop_Pk") : rows[cell] > 1

(***************************************************************************)
(* Building a work list deletes a row only if another table of the stage   *)
(* has none for the same result, and such a result is then computed again. *)
(***************************************************************************)
DropsAreRecomputed ==
  [][\A cell \in Cells :
       edits' = edits /\ rows'[cell] < rows[cell] =>
         /\ \E t \in Tables(name) : rows[<<t, cell[2]>>] = 0
         /\ cell[1] \in Tables(name)
         /\ \E i \in list' : cell[2] \in i
    ]_vars

(***************************************************************************)
(* An item computes only what is missing: "schedule a task to compute any  *)
(* missing redshifts" (work_lists.cpp).                                    *)
(***************************************************************************)
OnlyMissingComputed ==
  pc = "farm" =>
    \A i \in list, t \in Tables(name) : \A key \in i : rows[<<t, key>>] = 0

(***************************************************************************)
(* The filtered power spectrum is read back for the wavenumbers it was     *)
(* stored for: find() takes the n-th row for the n-th wavenumber.          *)
(***************************************************************************)
ReadAtItsOwnWavenumber ==
  pc = "read" =>
    \A n \in DOMAIN Wavenumbers :
      n <= Len(FilteredRows(rows)) => FilteredRows(rows)[n] = Wavenumbers[n]

(***************************************************************************)
(* As long as all jobs ask for the same, the tables implement WorkFarm:    *)
(* an item is stored once, and after all items of the earlier stages.      *)
(***************************************************************************)
TheGrid == CHOOSE g \in Grids : TRUE

FarmItems ==
  UNION {{<<n, i>> : i \in WorkItems(TheGrid, StageNames[n], Wanted(TheGrid, StageNames[n]))} :
           n \in Stages}

\* Rows of an item, in the table that has most.
MostRows(n, i) == Max({rows[cell] : cell \in Tables(StageNames[n]) \X i})

Farm == INSTANCE WorkFarm WITH
          Items   <- FarmItems,
          NStages <- Len(StageNames),
          StageOf <- [item \in FarmItems |-> item[1]],
          rows    <- [item \in FarmItems |-> MostRows(item[1], item[2])],
          stage   <- stage

ImplementsWorkFarm == Farm!FarmSpec
==============================================================================
