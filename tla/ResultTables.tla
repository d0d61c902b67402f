---------------------------- MODULE ResultTables -----------------------------
(***************************************************************************)
(* The results store, table by table: how a job finds out what is missing  *)
(* (missing_elements.cpp), drops what is inconsistent, builds its work     *)
(* lists (work_lists.cpp), reads earlier results (find.cpp) and stores new *)
(* ones (store.cpp).                                                       *)
(*                                                                         *)
(* A cell is a table and a key, a key the parameters a row is selected by: *)
(* redshift, loop configuration (k, UV and IR cutoff), resummation scale.  *)
(* One cosmological model, one initial power spectrum and one set of each  *)
(* kind of parameters are fixed, except the filter's; no final power       *)
(* spectrum is given.  No result table has a uniqueness constraint: a cell *)
(* holds any number of rows.                                               *)
(*                                                                         *)
(* Building a work list is one transaction, and so is storing a product.   *)
(* How products travel is the subject of Scatter: here the items of a list *)
(* are stored one by one, in any order.                                    *)
(***************************************************************************)
EXTENDS Integers, FiniteSets, Sequences, SequencesExt, FiniteSetsExt

CONSTANTS Redshifts,      \* redshifts a job may ask for
          LoopConfigs,    \* (k, UV cutoff, IR cutoff) of the loop integrals
          ResumScales,    \* IR resummation scales
          Wavenumbers,    \* wavenumbers of the power spectrum, in order
          FilterParams,   \* parameter sets of the wiggle/no-wiggle filter
          Kernels,        \* tables of the loop integrals
          Spectra,        \* tables of the one-loop power spectra
          Grids,          \* what a job may ask for
          Editable,       \* tables somebody edits by hand between two jobs
          MaxEdits        \* bound: rows deleted by hand

growth_tables      == {"D_factor", "f_factor"}
multipole_tables   == {"P0", "P2", "P4"}
counterterm_tables == {"c0", "c2", "c4", "c6"}

\* Mutated form: the multipoles before the spectra they decompose.
SwappedStages == <<"growth", "filter_Pk", "Matsubara_XY", "loop_integral",
                   "multipole_Pk", "one_loop_Pk", "counterterm">>

\* The order of execute().
StageNames == <<"growth", "filter_Pk", "Matsubara_XY", "loop_integral",
                "one_loop_Pk", "multipole_Pk", "counterterm">>
Stages == 1 .. Len(StageNames)

Tables(s) ==
  CASE s = "growth"        -> growth_tables
    [] s = "filter_Pk"     -> {"Pk_linear"}
    [] s = "Matsubara_XY"  -> {"Matsubara_XY"}
    [] s = "loop_integral" -> Kernels
    [] s = "one_loop_Pk"   -> Spectra
    [] s = "multipole_Pk"  -> multipole_tables
    [] s = "counterterm"   -> counterterm_tables

\* What a job asks for: redshifts, loop configurations, resummation scales,
\* filter parameters, and whether a power spectrum was given.
Grid == [z : SUBSET Redshifts, c : SUBSET LoopConfigs, r : SUBSET ResumScales,
         p : FilterParams, Pk : BOOLEAN]

\* tensor_product() and the z, k and parameter databases.
Wanted(g, s) ==
  CASE s = "growth"        -> {<<z>> : z \in g.z}
    [] s = "filter_Pk"     -> {<<g.p, k>> : k \in Range(Wavenumbers)}
    [] s = "Matsubara_XY"  -> {<<r>> : r \in g.r}
    [] s = "loop_integral" -> {<<c>> : c \in g.c}
    [] s = "one_loop_Pk"   -> g.c \X g.z
    [] s = "multipole_Pk"  -> g.c \X g.r \X g.z
    [] s = "counterterm"   -> g.c \X g.r \X g.z

Whole(p) == [z |-> Redshifts, c |-> LoopConfigs, r |-> ResumScales,
             p |-> p, Pk |-> TRUE]
Keys(s)   == UNION {Wanted(Whole(p), s) : p \in FilterParams}
CellsOf(s) == Tables(s) \X Keys(s)
Cells     == UNION {CellsOf(StageNames[n]) : n \in Stages}

ASSUME GridsAssumption == Grids \subseteq Grid

\* No two stages share a table.
ASSUME TablesAssumption ==
  \A m, n \in Stages :
    m # n => Tables(StageNames[m]) \cap Tables(StageNames[n]) = {}

ASSUME EditsAssumption == MaxEdits \in Nat

\* What may be asked for is finite: ranges of samples, sets of parameters.
ASSUME SamplesAssumption ==
  /\ IsFiniteSet(Redshifts) /\ IsFiniteSet(FilterParams)
  /\ Wavenumbers \in Seq(Range(Wavenumbers))

VARIABLES rows,      \* rows[cell]: rows the store holds there
          grid,      \* what the running (or the last) job asks for
          pc,        \* idle (no job), build, farm, read
          stage,     \* index in StageNames
          list,      \* the work list: for every item the keys of its results
          outcome,   \* of the last job: none, done, failed (an exception), killed
          edits      \* rows deleted by hand so far

vars == <<rows, grid, pc, stage, list, outcome, edits>>

PCs      == {"idle", "build", "farm", "read"}
Outcomes == {"none", "done", "failed", "killed"}

name == StageNames[stage]

------------------------------------------------------------------------------
(***************************************************************************)
(* What is missing, and what is dropped.                                   *)
(***************************************************************************)
\* missing_redshifts_for_table() and its like: wanted keys without a row.
MissingFrom(R, g, s, t) == {key \in Wanted(g, s) : R[<<t, key>>] = 0}

\* The table that is asked on behalf of table t.  The counterterms ask c0 three
\* times, and nobody asks for c6.
AskedFor(t) == IF t \in {"c2", "c4"} THEN "c0" ELSE t
Checked(s)  == Tables(s) \ {"c6"}

\* Mutated forms: a result counts as missing only if every table lacks it; the
\* store is not looked at.
MissingEverywhere(R, g, s) ==
  {key \in Wanted(g, s) : \A t \in Checked(s) : R[<<AskedFor(t), key>>] = 0}
AllWanted(R, g, s) == Wanted(g, s)

\* update_missing_*(): missing from some table.
TotalMissing(R, g, s) ==
  UNION {MissingFrom(R, g, s, AskedFor(t)) : t \in Checked(s)}

\* Mutated forms: nothing is dropped; everything is, if anything is missing.
KeepInconsistent(R, g, s) == R
DropWanted(R, g, s) ==
  LET total == TotalMissing(R, g, s)
  IN  [cell \in Cells |->
         IF total # {} /\ cell[1] \in Checked(s) /\ cell[2] \in Wanted(g, s)
         THEN 0 ELSE R[cell]]

\* drop_inconsistent_*(): delete from every table what another one lacks.
DropInconsistent(R, g, s) ==
  LET total == TotalMissing(R, g, s)
  IN  [cell \in Cells |->
         IF /\ cell[1] \in Checked(s)
            /\ cell[2] \in total \ MissingFrom(R, g, s, AskedFor(cell[1]))
         THEN 0 ELSE R[cell]]

\* Mutated form: the growth functions, too, are computed for the whole grid.
WholeGridItems(g, s, missing) ==
  CASE s = "growth"      -> IF missing = {} THEN {} ELSE {Wanted(g, s)}
    [] s = "one_loop_Pk" -> {{c} \X g.z : c \in {key[1] : key \in missing}}
    [] OTHER             -> {{key} : key \in missing}

\* The items of a work list, each with the keys of the results it computes: all
\* redshifts in one integration for the growth functions; all redshifts of the
\* grid, missing or not, for a one-loop configuration; else one key each.
WorkItems(g, s, missing) ==
  CASE s = "growth"      -> IF missing = {} THEN {} ELSE {missing}
    [] s = "one_loop_Pk" -> {{c} \X g.z : c \in {key[1] : key \in missing}}
    [] OTHER             -> {{key} : key \in missing}

------------------------------------------------------------------------------
(***************************************************************************)
(* What is read while a work list is built.                                *)
(***************************************************************************)
\* find(oneloop_growth): the rows of the D and f tables are read side by side
\* until one of them ends, and there must be as many as redshifts.
GrowthReadable(R, zs) ==
  LET RowsIn(t) == UNION {{z} \X (1 .. R[<<t, <<z>>>>]) : z \in zs}
      D == Cardinality(RowsIn("D_factor"))
      f == Cardinality(RowsIn("f_factor"))
  IN  (IF D < f THEN D ELSE f) = Cardinality(zs)

\* find() of a single result: exactly one row.
OneRow(R, t, key) == R[<<t, key>>] = 1

KernelsReadable(R, c) == \A t \in Kernels : OneRow(R, t, <<c>>)

SpectraReadable(R, c, z) == \A t \in Spectra : OneRow(R, t, <<c, z>>)

XYReadable(R, r) == OneRow(R, "Matsubara_XY", <<r>>)

MissingRedshifts(missing, c, r) == {key[3] : key \in {m \in missing : m[1] = c /\ m[2] = r}}

\* Every find() of build_*_work_list() succeeds.
InputsReadable(R, g, s, missing) ==
  CASE s = "one_loop_Pk" ->
         \A key \in missing : GrowthReadable(R, g.z) /\ KernelsReadable(R, key[1])
    [] s = "multipole_Pk" ->
         \A key \in missing :
           /\ GrowthReadable(R, MissingRedshifts(missing, key[1], key[2]))
           /\ SpectraReadable(R, key[1], key[3])
           /\ XYReadable(R, key[2])
    [] s = "counterterm" ->
         \A key \in missing :
           /\ GrowthReadable(R, MissingRedshifts(missing, key[1], key[2]))
           /\ XYReadable(R, key[2])
    [] OTHER -> TRUE

\* The rows of this power spectrum at a wavenumber, whatever their filter
\* parameters.
RowsAt(R, k) ==
  UNION {{p} \X (1 .. R[<<"Pk_linear", <<p, k>>>>]) : p \in FilterParams}

\* find(filtered Pk): as many rows as there are, in the order of the wavenumbers.
NumberFiltered(R) ==
  Cardinality(UNION {{n} \X RowsAt(R, Wavenumbers[n]) : n \in DOMAIN Wavenumbers})

FilteredRows(R) ==
  FlattenSeq([n \in DOMAIN Wavenumbers |->
                [m \in 1 .. Cardinality(RowsAt(R, Wavenumbers[n])) |-> Wavenumbers[n]]])

------------------------------------------------------------------------------
Init ==
  /\ rows = [cell \in Cells |-> 0]
  /\ grid \in Grids
  /\ pc = "idle" /\ stage = 1 /\ list = {} /\ outcome = "none" /\ edits = 0

StartJob(g) ==
  /\ pc = "idle"
  /\ grid' = g /\ pc' = "build" /\ stage' = 1 /\ list' = {}
  /\ UNCHANGED <<rows, outcome, edits>>

EndJob(how) ==
  /\ pc' = "idle" /\ stage' = 1 /\ list' = {} /\ outcome' = how
  /\ UNCHANGED <<grid, edits>>

\* build_*_work_list(): find the missing results, drop the inconsistent ones,
\* read what the items need; all of it is committed.
BuildList ==
  /\ pc = "build"
  /\ LET missing == TotalMissing(rows, grid, name)
     IN  /\ InputsReadable(rows, grid, name, missing)
         /\ list' = WorkItems(grid, name, missing)
  /\ rows' = DropInconsistent(rows, grid, name)
  /\ pc' = "farm"
  /\ UNCHANGED <<grid, stage, outcome, edits>>

\* A find() throws: nothing is committed and nothing catches it.
BuildFails ==
  /\ pc = "build"
  /\ ~InputsReadable(rows, grid, name, TotalMissing(rows, grid, name))
  /\ EndJob("failed")
  /\ UNCHANGED rows

\* Mutated form: one table of the stage is left out.
StoreAllButOne(i) ==
  /\ pc = "farm" /\ i \in list
  /\ rows' = [cell \in Cells |->
                IF cell[1] \in Tables(name) \ {"c6"} /\ cell[2] \in i
                  THEN rows[cell] + 1 ELSE rows[cell]]
  /\ list' = list \ {i}
  /\ UNCHANGED <<grid, pc, stage, outcome, edits>>

\* store(): one row in every table of the stage for every key of the item.
StoreItem(i) ==
  /\ pc = "farm" /\ i \in list
  /\ rows' = [cell \in Cells |->
                IF cell[1] \in Tables(name) /\ cell[2] \in i
                  THEN rows[cell] + 1 ELSE rows[cell]]
  /\ list' = list \ {i}
  /\ UNCHANGED <<grid, pc, stage, outcome, edits>>

NextStage == pc' = "build" /\ stage' = stage + 1 /\ UNCHANGED <<grid, list, outcome, edits>>

\* Mutated form: the power spectrum is only needed for the loop integrals.
LastStageEarly(g, s) == s = "counterterm" \/ s = "growth"

\* Without a power spectrum only the growth functions are computed.
LastStage(g, s) == s = "counterterm" \/ (s = "growth" /\ ~g.Pk)

\* Mutated form: the next stage begins while items are out.
EndStageEarly ==
  /\ pc = "farm"
  /\ UNCHANGED rows
  /\ IF LastStage(grid, name) THEN EndJob("done")
     ELSE IF name = "filter_Pk"
       THEN pc' = "read" /\ UNCHANGED <<grid, stage, list, outcome, edits>>
       ELSE NextStage

EndStage ==
  /\ pc = "farm" /\ list = {}
  /\ UNCHANGED rows
  /\ IF LastStage(grid, name) THEN EndJob("done")
     ELSE IF name = "filter_Pk"
       THEN pc' = "read" /\ UNCHANGED <<grid, stage, list, outcome, edits>>
       ELSE NextStage

\* build_wiggle_Pk(): read the filtered power spectrum back; rows beyond the
\* number of wavenumbers are not looked at.
ReadFiltered ==
  /\ pc = "read"
  /\ UNCHANGED rows
  /\ IF NumberFiltered(rows) >= Len(Wavenumbers) THEN NextStage
                                                 ELSE EndJob("failed")

\* The job is killed, or dies while its list is farmed out.
Kill == pc # "idle" /\ EndJob("killed") /\ UNCHANGED rows

\* Somebody deletes the rows of a cell; the code expects as much ("those present
\* in some tables but not others").
EditRow(cell) ==
  /\ pc = "idle" /\ edits < MaxEdits
  /\ cell[1] \in Editable /\ rows[cell] > 0
  /\ rows' = [rows EXCEPT ![cell] = 0]
  /\ edits' = edits + 1
  /\ outcome' = "none"
  /\ UNCHANGED <<grid, pc, stage, list>>

Next ==
  \/ \E g \in Grids : StartJob(g)
  \/ BuildList \/ BuildFails
  \/ \E i \in list : StoreItem(i)
  \/ EndStage \/ ReadFiltered \/ Kill
  \/ \E cell \in Cells : EditRow(cell)

Spec == Init /\ [][Next]_vars
==============================================================================
