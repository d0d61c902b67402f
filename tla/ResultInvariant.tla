--------------------------- MODULE ResultInvariant ---------------------------
(***************************************************************************)
(* The inductive invariant behind NeverTwice and DoneIsComplete.  It       *)
(* follows a work list from the moment it is built: what the list covers   *)
(* and what the tables of its stage already hold.                          *)
(***************************************************************************)
EXTENDS ResultProperties

\* Every table of stage s has the result: the job may rely on it.
Present(R, g, s) == \A t \in Tables(s), key \in Wanted(g, s) : R[<<t, key>>] > 0

\* Where a job is determines what there may be on its list.
ControlInv ==
  /\ pc # "farm" => list = {}
  /\ pc = "read" => name = "filter_Pk"

\* The results on a list are in no table of the stage, and on it once.
ListInv ==
  pc = "farm" /\ name \in SafeStages =>
    /\ \A i \in list, t \in Tables(name) : \A key \in i : rows[<<t, key>>] = 0
    /\ \A i, j \in list : i # j => i \cap j = {}

\* What the list does not cover is there; the earlier stages are complete.
CoverInv ==
  /\ pc # "idle" => \A m \in 1 .. stage - 1 : Present(rows, grid, StageNames[m])
  /\ pc = "farm" =>
       \A t \in Tables(name), key \in Wanted(grid, name) :
         rows[<<t, key>>] > 0 \/ \E i \in list : key \in i
  /\ pc = "read" => Present(rows, grid, name)

\* The tables of the counterterms, of which only c0 is asked, hold the same.
CountertermsAgree ==
  \A key \in Keys("counterterm") : \A t, u \in counterterm_tables :
    rows[<<t, key>>] = rows[<<u, key>>]

\* So do the tables of the one-loop spectra, all of which are asked.
SpectraAgree ==
  \A key \in Keys("one_loop_Pk") : \A t, u \in Spectra :
    rows[<<t, key>>] = rows[<<u, key>>]

\* A loop configuration was computed for all redshifts equally often.
LoopsWhole ==
  \A c \in LoopConfigs, y, z \in grid.z : \A t \in Spectra :
    rows[<<t, <<c, y>>>>] = rows[<<t, <<c, z>>>>]

\* The items of the two unsafe stages: what is on the list is in no table, and
\* an item of the one-loop spectra is a configuration with all its redshifts.
UnsafeListInv ==
  pc = "farm" /\ name \notin SafeStages =>
    /\ \A i \in list, t \in Tables(name) : \A key \in i : rows[<<t, key>>] = 0
    /\ \A i, j \in list : i # j => i \cap j = {}
    /\ name = "one_loop_Pk" => \A i \in list : \E c \in grid.c : i = {c} \X grid.z

\* No stage stores anything twice.
NothingTwice == \A cell \in Cells : rows[cell] <= 1

\* For NeverTwice; whatever is edited.
UniqueInv == TypeOK /\ ControlInv /\ NeverTwice /\ ListInv

\* For DoneIsComplete; as long as nobody edits the counterterms.
RInv == UniqueInv /\ CoverInv /\ DoneIsComplete /\ CountertermsAgree

\* For OnlyDuplicatesMisread; as long as nobody edits the spectra either.
AgreeInv == RInv /\ SpectraAgree /\ OnlyDuplicatesMisread

\* For DoneIsExact and NoMisread; as long as all jobs ask for the same redshifts.
OnceInv == AgreeInv /\ LoopsWhole /\ UnsafeListInv /\ NothingTwice

\* The items of a stage for an empty store.
AllItems(g, s) == WorkItems(g, s, Wanted(g, s))

\* The results of an item, over all tables, are there or not together.
ItemsWhole ==
  \A n \in Stages : \A i \in AllItems(grid, StageNames[n]) :
    \A t, u \in Tables(StageNames[n]), key, other \in i :
      rows[<<t, key>>] = rows[<<u, other>>]

\* A list has none but these items, whatever the store holds.
ListedItems == list \subseteq AllItems(grid, name)

\* For ImplementsWorkFarm; as long as all jobs ask for the same and nobody edits.
FarmInv == OnceInv /\ ItemsWhole /\ ListedItems
==============================================================================
