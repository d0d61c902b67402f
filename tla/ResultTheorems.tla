--------------------------- MODULE ResultTheorems ----------------------------
(***************************************************************************)
(* What holds of the results store for any grids, tables and parameters,   *)
(* wherever jobs are killed and whatever is deleted between them: no       *)
(* result is stored twice, and a completed job has all it was asked for;   *)
(* where all jobs ask for the same, the tables implement WorkFarm.         *)
(***************************************************************************)
EXTENDS ResultInvariant, FiniteSetTheorems, TLAPS

(***************************************************************************)
(* Facts about stages, tables, keys and work lists.                        *)
(***************************************************************************)
StageSet == {"growth", "filter_Pk", "Matsubara_XY", "loop_integral",
             "one_loop_Pk", "multipole_Pk", "counterterm"}

\* The names of the stages, one by one.
LEMMA StageFacts ==
  /\ Stages = 1 .. 7
  /\ StageNames[1] = "growth" /\ StageNames[2] = "filter_Pk"
  /\ StageNames[3] = "Matsubara_XY" /\ StageNames[4] = "loop_integral"
  /\ StageNames[5] = "one_loop_Pk" /\ StageNames[6] = "multipole_Pk"
  /\ StageNames[7] = "counterterm"
  BY DEF Stages, StageNames

\* Every stage has a name, every name a stage.
LEMMA StageNamesOnto ==
  /\ \A n \in Stages : StageNames[n] \in StageSet
  /\ \A s \in StageSet : \E n \in Stages : StageNames[n] = s
  /\ \A m, n \in Stages : m # n => StageNames[m] # StageNames[n]
<1>1. \A n \in Stages : StageNames[n] \in StageSet
  BY StageFacts DEF StageSet
<1>2. \A s \in StageSet : \E n \in Stages : StageNames[n] = s
  BY StageFacts DEF StageSet
<1>3. \A m, n \in Stages : m # n => StageNames[m] # StageNames[n]
  BY StageFacts
<1> QED BY <1>1, <1>2, <1>3

\* A table belongs to one stage.
LEMMA TablesDisjoint ==
  ASSUME NEW s \in StageSet, NEW u \in StageSet, s # u
  PROVE  Tables(s) \cap Tables(u) = {}
<1>1. PICK m \in Stages : StageNames[m] = s
  BY StageNamesOnto
<1>2. PICK n \in Stages : StageNames[n] = u
  BY StageNamesOnto
<1> QED BY <1>1, <1>2, TablesAssumption

\* The tables that are asked are tables of the stage.
LEMMA CheckedTables ==
  ASSUME NEW s \in StageSet
  PROVE  /\ Checked(s) \subseteq Tables(s)
         /\ \A t \in Checked(s) : AskedFor(t) \in Tables(s)
<1>1. CASE s = "counterterm"
  BY <1>1 DEF Checked, AskedFor, Tables, counterterm_tables
<1>2. CASE s # "counterterm"
  <2>1. Tables(s) \cap Tables("counterterm") = {}
    BY <1>2, TablesDisjoint DEF StageSet
  <2>2. \A t \in Tables(s) : AskedFor(t) = t
    BY <2>1 DEF AskedFor, Tables, counterterm_tables
  <2> QED BY <2>2 DEF Checked
<1> QED BY <1>1, <1>2

\* Outside the counterterms every table is asked, and for itself.
LEMMA AskedForItself ==
  ASSUME NEW s \in StageSet, s # "counterterm"
  PROVE  Checked(s) = Tables(s) /\ \A t \in Tables(s) : AskedFor(t) = t
<1>1. Tables(s) \cap {"c0", "c2", "c4", "c6"} = {}
  <2>1. Tables(s) \cap Tables("counterterm") = {}
    BY TablesDisjoint DEF StageSet
  <2> QED BY <2>1 DEF Tables, counterterm_tables
<1> QED BY <1>1 DEF Checked, AskedFor

\* What a job wants has a cell.
LEMMA WantedKeys ==
  ASSUME NEW g \in Grid, NEW s \in StageSet
  PROVE  Wanted(g, s) \subseteq Keys(s)
<1> DEFINE W == Whole(g.p)
<1>1. g.p \in FilterParams /\ g.z \subseteq Redshifts /\ g.c \subseteq LoopConfigs
      /\ g.r \subseteq ResumScales
  BY DEF Grid
<1>2. W.z = Redshifts /\ W.c = LoopConfigs /\ W.r = ResumScales /\ W.p = g.p
  BY DEF Whole
<1>3. Wanted(g, s) \subseteq Wanted(W, s)
  <2> SUFFICES ASSUME NEW key \in Wanted(g, s) PROVE key \in Wanted(W, s)
    OBVIOUS
  <2> HIDE DEF W
  <2>1. CASE s = "growth"        BY <1>1, <1>2, <2>1 DEF Wanted
  <2>2. CASE s = "filter_Pk"     BY <1>1, <1>2, <2>2 DEF Wanted
  <2>3. CASE s = "Matsubara_XY"  BY <1>1, <1>2, <2>3 DEF Wanted
  <2>4. CASE s = "loop_integral" BY <1>1, <1>2, <2>4 DEF Wanted
  <2>5. CASE s = "one_loop_Pk"   BY <1>1, <1>2, <2>5 DEF Wanted
  <2>6. CASE s = "multipole_Pk"  BY <1>1, <1>2, <2>6 DEF Wanted
  <2>7. CASE s = "counterterm"   BY <1>1, <1>2, <2>7 DEF Wanted
  <2> QED BY <2>1, <2>2, <2>3, <2>4, <2>5, <2>6, <2>7 DEF StageSet
<1>4. Wanted(W, s) \subseteq Keys(s)
  BY <1>1 DEF Keys
<1> QED BY <1>3, <1>4

\* The cells of a stage are cells of the store, and a pair.
LEMMA CellFacts ==
  ASSUME NEW s \in StageSet
  PROVE  /\ CellsOf(s) \subseteq Cells
         /\ \A t \in Tables(s), key \in Keys(s) : <<t, key>> \in CellsOf(s)
         /\ \A cell \in CellsOf(s) : /\ cell[1] \in Tables(s) /\ cell[2] \in Keys(s)
                                     /\ cell = <<cell[1], cell[2]>>
<1>1. CellsOf(s) \subseteq Cells
  BY StageNamesOnto DEF Cells
<1> QED BY <1>1 DEF CellsOf

------------------------------------------------------------------------------
\* What is missing is wanted, and is missing from some table asked.
LEMMA MissingFacts ==
  ASSUME NEW R, NEW g, NEW s
  PROVE  /\ TotalMissing(R, g, s) \subseteq Wanted(g, s)
         /\ \A t \in Checked(s), key \in Wanted(g, s) :
              key \notin TotalMissing(R, g, s) => R[<<AskedFor(t), key>>] # 0
<1>1. TotalMissing(R, g, s) \subseteq Wanted(g, s)
  BY DEF TotalMissing, MissingFrom
<1>2. ASSUME NEW t \in Checked(s), NEW key \in Wanted(g, s),
             R[<<AskedFor(t), key>>] = 0
      PROVE  key \in TotalMissing(R, g, s)
  <2>1. key \in MissingFrom(R, g, s, AskedFor(t))
    BY <1>2 DEF MissingFrom
  <2> QED BY <2>1 DEF TotalMissing
<1> QED BY <1>1, <1>2

\* Dropping leaves the other stages' tables alone and adds nothing.
LEMMA DropFacts ==
  ASSUME NEW R \in [Cells -> Nat], NEW g \in Grid, NEW s \in StageSet
  PROVE  /\ DropInconsistent(R, g, s) \in [Cells -> Nat]
         /\ \A cell \in Cells : /\ DropInconsistent(R, g, s)[cell] <= R[cell]
                                /\ cell[1] \notin Tables(s)
                                     => DropInconsistent(R, g, s)[cell] = R[cell]
                                /\ cell[2] \notin TotalMissing(R, g, s)
                                     => DropInconsistent(R, g, s)[cell] = R[cell]
  BY CheckedTables DEF DropInconsistent

\* Outside the counterterms, what is missing is in no table afterwards.
LEMMA DropClears ==
  ASSUME NEW R \in [Cells -> Nat], NEW g \in Grid, NEW s \in StageSet,
         s # "counterterm", NEW t \in Tables(s),
         NEW key \in TotalMissing(R, g, s)
  PROVE  DropInconsistent(R, g, s)[<<t, key>>] = 0
<1>1. key \in Wanted(g, s)
  BY MissingFacts
<1>2. <<t, key>> \in Cells
  BY <1>1, WantedKeys, CellFacts
<1>3. t \in Checked(s) /\ AskedFor(t) = t
  BY AskedForItself
<1>4. CASE key \in MissingFrom(R, g, s, t)
  BY <1>2, <1>3, <1>4 DEF DropInconsistent, MissingFrom
<1>5. CASE key \notin MissingFrom(R, g, s, t)
  BY <1>2, <1>3, <1>5 DEF DropInconsistent
<1> QED BY <1>4, <1>5

\* The counterterms are never dropped, since c0 is asked for every table.
LEMMA CountertermsStay ==
  ASSUME NEW R \in [Cells -> Nat], NEW g, NEW cell \in Cells
  PROVE  DropInconsistent(R, g, "counterterm")[cell] = R[cell]
<1>1. \A t \in Checked("counterterm") : AskedFor(t) = "c0"
  BY DEF Checked, AskedFor, Tables, counterterm_tables
<1>2. \A t \in Checked("counterterm") :
        MissingFrom(R, g, "counterterm", AskedFor(t)) = TotalMissing(R, g, "counterterm")
  BY <1>1 DEF TotalMissing
<1> QED BY <1>2 DEF DropInconsistent

\* The items of a list: keys of the stage, which cover what is missing.
LEMMA WorkItemsFacts ==
  ASSUME NEW g \in Grid, NEW s \in StageSet, NEW missing \in SUBSET Wanted(g, s)
  PROVE  /\ WorkItems(g, s, missing) \subseteq SUBSET Wanted(g, s)
         /\ \A key \in missing : \E i \in WorkItems(g, s, missing) : key \in i
<1>1. CASE s = "growth"
  BY <1>1 DEF WorkItems
<1>2. CASE s = "one_loop_Pk"
  <2>1. Wanted(g, s) = g.c \X g.z
    BY <1>2 DEF Wanted
  <2>2. WorkItems(g, s, missing) = {{c} \X g.z : c \in {key[1] : key \in missing}}
    BY <1>2 DEF WorkItems
  <2>3. \A key \in missing : key[1] \in g.c /\ key \in {key[1]} \X g.z
    BY <2>1
  <2>4. \A i \in WorkItems(g, s, missing) : i \subseteq Wanted(g, s)
    <3> SUFFICES ASSUME NEW key \in missing, NEW z \in g.z
                 PROVE  <<key[1], z>> \in Wanted(g, s)
      BY <2>2
    <3> QED BY <2>1, <2>3
  <2>5. \A key \in missing : {key[1]} \X g.z \in WorkItems(g, s, missing)
    BY <2>2
  <2> QED BY <2>3, <2>4, <2>5
<1>3. CASE s \notin {"growth", "one_loop_Pk"}
  BY <1>3 DEF WorkItems
<1> QED BY <1>1, <1>2, <1>3

\* Outside the one-loop spectra the items hold what is missing, each key once.
LEMMA WorkItemsExact ==
  ASSUME NEW g, NEW s \in StageSet, s # "one_loop_Pk", NEW missing
  PROVE  /\ \A i \in WorkItems(g, s, missing) : i \subseteq missing
         /\ \A i, j \in WorkItems(g, s, missing) : i # j => i \cap j = {}
<1>1. CASE s = "growth"
  BY <1>1 DEF WorkItems
<1>2. CASE s # "growth"
  BY <1>2 DEF WorkItems
<1> QED BY <1>1, <1>2

------------------------------------------------------------------------------
\* The stage at hand is a stage, and the grid a grid.
LEMMA NameFacts ==
  ASSUME TypeOK
  PROVE  name \in StageSet /\ grid \in Grid /\ stage \in 1 .. 7
  BY StageNamesOnto, StageFacts, GridsAssumption DEF TypeOK, name

\* Safe stages are stages other than the one-loop spectra and counterterms.
LEMMA SafeFacts ==
  /\ SafeStages \subseteq StageSet
  /\ "one_loop_Pk" \notin SafeStages /\ "counterterm" \notin SafeStages
  BY DEF SafeStages, StageSet

\* NeverTwice, cell by cell.
LEMMA NeverTwiceCells ==
  ASSUME NEW s \in SafeStages, NEW cell \in CellsOf(s)
  PROVE  cell \in Cells /\ s \in StageSet /\ cell[1] \in Tables(s)
  BY SafeFacts, CellFacts

------------------------------------------------------------------------------
(***************************************************************************)
(* UniqueInv, action by action.                                            *)
(***************************************************************************)
\* An empty store has nothing twice.
LEMMA InitUnique == Init => UniqueInv
<1> SUFFICES ASSUME Init PROVE UniqueInv
  OBVIOUS
<1>1. TypeOK
  BY StageFacts, EditsAssumption DEF Init, TypeOK, PCs, Outcomes
<1>2. ControlInv /\ ListInv
  BY DEF Init, ControlInv, ListInv
<1>3. NeverTwice
  BY NeverTwiceCells DEF Init, NeverTwice
<1> QED BY <1>1, <1>2, <1>3 DEF UniqueInv

\* A job that ends, however it does, leaves the store alone.
LEMMA EndJobUnique ==
  ASSUME UniqueInv, NEW how \in Outcomes, EndJob(how), UNCHANGED rows
  PROVE  UniqueInv'
<1>1. TypeOK'
  BY StageFacts DEF UniqueInv, TypeOK, EndJob, PCs
<1>2. ControlInv' /\ ListInv'
  BY DEF EndJob, ControlInv, ListInv
<1>3. NeverTwice'
  BY DEF UniqueInv, NeverTwice
<1> QED BY <1>1, <1>2, <1>3 DEF UniqueInv

\* So does going on to the next stage.
LEMMA NextStageUnique ==
  ASSUME UniqueInv, NextStage, UNCHANGED rows, list = {}, name # "counterterm"
  PROVE  UniqueInv'
<1>1. stage' \in Stages
  BY NameFacts, StageFacts DEF UniqueInv, NextStage, name
<1>2. TypeOK'
  BY <1>1 DEF UniqueInv, TypeOK, NextStage, PCs
<1>3. ControlInv' /\ ListInv'
  BY DEF NextStage, ControlInv, ListInv
<1>4. NeverTwice'
  BY DEF UniqueInv, NeverTwice
<1> QED BY <1>2, <1>3, <1>4 DEF UniqueInv

\* A list is built after what is inconsistent was dropped.
LEMMA BuildUnique ==
  ASSUME UniqueInv, BuildList
  PROVE  UniqueInv'
<1> DEFINE missing == TotalMissing(rows, grid, name)
<1>1. /\ name \in StageSet /\ grid \in Grid /\ rows \in [Cells -> Nat]
      /\ rows' = DropInconsistent(rows, grid, name)
      /\ list' = WorkItems(grid, name, missing)
      /\ pc' = "farm" /\ UNCHANGED <<grid, stage, outcome, edits>>
      /\ name' = name
  BY NameFacts DEF UniqueInv, TypeOK, BuildList, name
<1>2. missing \in SUBSET Wanted(grid, name)
  BY MissingFacts
<1> HIDE DEF missing
<1>3. list' \subseteq SUBSET Keys(name)
  BY <1>1, <1>2, WorkItemsFacts, WantedKeys
<1>4. TypeOK'
  BY <1>1, <1>3, DropFacts DEF UniqueInv, TypeOK, PCs
<1>5. NeverTwice'
  <2> SUFFICES ASSUME NEW s \in SafeStages, NEW cell \in CellsOf(s)
               PROVE  rows'[cell] <= 1
    BY DEF NeverTwice
  <2>1. cell \in Cells /\ rows[cell] <= 1
    BY NeverTwiceCells DEF UniqueInv, NeverTwice
  <2>2. rows'[cell] <= rows[cell] /\ rows'[cell] \in Nat /\ rows[cell] \in Nat
    BY <1>1, <2>1, DropFacts
  <2> QED BY <2>1, <2>2
<1>6. ListInv'
  <2> SUFFICES ASSUME name \in SafeStages
               PROVE  /\ \A i \in list', t \in Tables(name) :
                           \A key \in i : rows'[<<t, key>>] = 0
                      /\ \A i, j \in list' : i # j => i \cap j = {}
    BY <1>1 DEF ListInv
  <2>1. name # "one_loop_Pk" /\ name # "counterterm"
    BY SafeFacts
  <2>2. \A i \in list' : i \subseteq missing
    BY <1>1, <2>1, WorkItemsExact
  <2>3. \A t \in Tables(name), key \in missing : rows'[<<t, key>>] = 0
    BY <1>1, <2>1, DropClears DEF missing
  <2> QED BY <1>1, <2>1, <2>2, <2>3, WorkItemsExact
<1>7. ControlInv'
  BY <1>1 DEF ControlInv
<1> QED BY <1>4, <1>5, <1>6, <1>7 DEF UniqueInv

\* A product fills cells that were empty, and is taken off the list.
LEMMA StoreUnique ==
  ASSUME UniqueInv, NEW i \in list, StoreItem(i)
  PROVE  UniqueInv'
<1>1. /\ name \in StageSet /\ rows \in [Cells -> Nat] /\ name' = name
      /\ pc = "farm" /\ UNCHANGED <<grid, pc, stage, outcome, edits>>
      /\ list' = list \ {i}
      /\ rows' = [cell \in Cells |->
                    IF cell[1] \in Tables(name) /\ cell[2] \in i
                      THEN rows[cell] + 1 ELSE rows[cell]]
  BY NameFacts DEF UniqueInv, TypeOK, StoreItem, name
<1>2. rows' \in [Cells -> Nat]
  BY <1>1
<1>3. TypeOK'
  BY <1>1, <1>2 DEF UniqueInv, TypeOK
<1>4. ControlInv'
  BY <1>1 DEF ControlInv
<1>5. NeverTwice'
  <2> SUFFICES ASSUME NEW s \in SafeStages, NEW cell \in CellsOf(s)
               PROVE  rows'[cell] <= 1
    BY DEF NeverTwice
  <2>1. cell \in Cells /\ s \in StageSet /\ cell[1] \in Tables(s) /\ rows[cell] <= 1
    BY NeverTwiceCells DEF UniqueInv, NeverTwice
  <2>2. CASE cell[1] \in Tables(name) /\ cell[2] \in i
    <3>1. s = name
      BY <1>1, <2>1, <2>2, TablesDisjoint
    <3>2. rows[<<cell[1], cell[2]>>] = 0
      BY <1>1, <2>2, <3>1 DEF UniqueInv, ListInv
    <3>3. cell = <<cell[1], cell[2]>>
      BY <2>1, CellFacts
    <3> QED BY <1>1, <2>1, <2>2, <3>2, <3>3
  <2>3. CASE ~(cell[1] \in Tables(name) /\ cell[2] \in i)
    BY <1>1, <2>1, <2>3
  <2> QED BY <2>2, <2>3
<1>6. ListInv'
  <2> SUFFICES ASSUME name \in SafeStages,
                      NEW j \in list, j # i, NEW t \in Tables(name), NEW key \in j
               PROVE  rows'[<<t, key>>] = 0
    BY <1>1 DEF UniqueInv, ListInv
  <2>1. key \notin i /\ rows[<<t, key>>] = 0
    BY <1>1 DEF UniqueInv, ListInv
  <2>2. <<t, key>> \in Cells
    BY <1>1, CellFacts DEF UniqueInv, TypeOK
  <2> QED BY <1>1, <2>1, <2>2
<1> QED BY <1>3, <1>4, <1>5, <1>6 DEF UniqueInv

\* The end of a stage.
LEMMA EndStageUnique ==
  ASSUME UniqueInv, EndStage
  PROVE  UniqueInv'
<1>1. CASE LastStage(grid, name)
  BY <1>1, EndJobUnique DEF EndStage, Outcomes
<1>2. CASE ~LastStage(grid, name) /\ name = "filter_Pk"
  <2>1. /\ pc' = "read" /\ list = {}
        /\ UNCHANGED <<rows, grid, stage, list, outcome, edits>> /\ name' = name
    BY <1>2 DEF EndStage, name
  <2> QED BY <1>2, <2>1
       DEF UniqueInv, TypeOK, PCs, ControlInv, ListInv, NeverTwice
<1>3. CASE ~LastStage(grid, name) /\ name # "filter_Pk"
  BY <1>3, NextStageUnique DEF EndStage, LastStage
<1> QED BY <1>1, <1>2, <1>3

\* UniqueInv is inductive.
LEMMA NextUnique == UniqueInv /\ [Next]_vars => UniqueInv'
<1> SUFFICES ASSUME UniqueInv, [Next]_vars PROVE UniqueInv'
  OBVIOUS
<1>1. ASSUME NEW g \in Grids, StartJob(g) PROVE UniqueInv'
  BY <1>1, StageFacts
     DEF StartJob, UniqueInv, TypeOK, PCs, ControlInv, ListInv, NeverTwice
<1>2. CASE BuildList
  BY <1>2, BuildUnique
<1>3. CASE BuildFails
  BY <1>3, EndJobUnique DEF BuildFails, Outcomes
<1>4. ASSUME NEW i \in list, StoreItem(i) PROVE UniqueInv'
  BY <1>4, StoreUnique
<1>5. CASE EndStage
  BY <1>5, EndStageUnique
<1>6. CASE ReadFiltered
  <2>1. list = {} /\ name # "counterterm"
    BY <1>6 DEF ReadFiltered, UniqueInv, ControlInv
  <2> QED BY <1>6, <2>1, NextStageUnique, EndJobUnique DEF ReadFiltered, Outcomes
<1>7. CASE Kill
  BY <1>7, EndJobUnique DEF Kill, Outcomes
<1>8. ASSUME NEW cell \in Cells, EditRow(cell) PROVE UniqueInv'
  <2>1. /\ pc = "idle" /\ UNCHANGED <<grid, pc, stage, list>> /\ name' = name
        /\ rows' = [rows EXCEPT ![cell] = 0] /\ outcome' = "none"
        /\ edits < MaxEdits /\ edits' = edits + 1
    BY <1>8 DEF EditRow, name
  <2>2. TypeOK'
    BY <2>1, EditsAssumption DEF UniqueInv, TypeOK, Outcomes
  <2>3. NeverTwice'
    <3> SUFFICES ASSUME NEW s \in SafeStages, NEW c \in CellsOf(s)
                 PROVE  rows'[c] <= 1
      BY DEF NeverTwice
    <3>1. c \in Cells /\ rows[c] <= 1 /\ rows \in [Cells -> Nat]
      BY NeverTwiceCells DEF UniqueInv, NeverTwice, TypeOK
    <3> QED BY <2>1, <3>1
  <2>4. ControlInv' /\ ListInv'
    BY <2>1 DEF UniqueInv, ControlInv, ListInv
  <2> QED BY <2>2, <2>3, <2>4 DEF UniqueInv
<1>9. CASE UNCHANGED vars
  BY <1>9 DEF vars, UniqueInv, TypeOK, ControlInv, ListInv, NeverTwice, name
<1> QED BY <1>1, <1>2, <1>3, <1>4, <1>5, <1>6, <1>7, <1>8, <1>9 DEF Next

(***************************************************************************)
(* Whatever grids are asked for, wherever jobs are killed and whatever     *)
(* rows are deleted by hand, the growth functions, filtered spectra,       *)
(* Matsubara coefficients, loop integrals and multipoles are stored at     *)
(* most once.                                                              *)
(***************************************************************************)
THEOREM StoredOnce == Spec => []NeverTwice
<1>1. UniqueInv => NeverTwice
  BY DEF UniqueInv
<1> QED BY <1>1, InitUnique, NextUnique, PTL DEF Spec

\* Every variable keeps to its type.
THEOREM ResultTypes == Spec => []TypeOK
<1>1. UniqueInv => TypeOK
  BY DEF UniqueInv
<1> QED BY <1>1, InitUnique, NextUnique, PTL DEF Spec

------------------------------------------------------------------------------
(***************************************************************************)
(* RInv, action by action, if nobody edits the counterterms.               *)
(***************************************************************************)
NoCountertermEdits == Editable \cap counterterm_tables = {}

\* Earlier stages have other tables.
LEMMA EarlierStage ==
  ASSUME TypeOK, NEW m \in 1 .. stage - 1
  PROVE  /\ m \in Stages /\ StageNames[m] \in StageSet
         /\ Tables(StageNames[m]) \cap Tables(name) = {}
<1>1. m \in Stages /\ m # stage /\ stage \in Stages
  BY StageFacts DEF TypeOK
<1> QED BY <1>1, StageNamesOnto, TablesAssumption DEF name

\* Cells of wanted results are cells of the store.
LEMMA WantedCells ==
  ASSUME NEW g \in Grid, NEW s \in StageSet, NEW t \in Tables(s), NEW key \in Wanted(g, s)
  PROVE  <<t, key>> \in Cells
  BY WantedKeys, CellFacts

\* The counterterms are among the stages.
LEMMA CountertermCells ==
  ASSUME NEW t \in counterterm_tables, NEW key \in Keys("counterterm")
  PROVE  <<t, key>> \in Cells
<1>1. "counterterm" \in StageSet /\ t \in Tables("counterterm")
  BY DEF StageSet, Tables
<1> QED BY <1>1, CellFacts

\* In an empty store the counterterms agree.
LEMMA InitComplete == Init => RInv
<1> SUFFICES ASSUME Init PROVE RInv
  OBVIOUS
<1>1. UniqueInv
  BY InitUnique
<1>2. CoverInv /\ DoneIsComplete
  BY DEF Init, CoverInv, DoneIsComplete
<1>3. CountertermsAgree
  BY CountertermCells DEF Init, CountertermsAgree
<1> QED BY <1>1, <1>2, <1>3 DEF RInv

\* A stage whose list is empty is complete, and the next one may begin.
LEMMA NextStageComplete ==
  ASSUME RInv, NextStage, UNCHANGED rows, list = {}, name # "counterterm",
         pc \in {"farm", "read"}
  PROVE  RInv'
<1>1. UniqueInv'
  BY NextStageUnique DEF RInv
<1>2. Present(rows, grid, name)
  BY DEF RInv, CoverInv, Present
<1>3. \A m \in 1 .. stage : Present(rows, grid, StageNames[m])
  <2>1. stage \in 1 .. 7
    BY NameFacts DEF RInv, UniqueInv
  <2>2. \A m \in 1 .. stage - 1 : Present(rows, grid, StageNames[m])
    BY DEF RInv, CoverInv
  <2> QED BY <1>2, <2>1, <2>2 DEF name
<1>4. stage' - 1 = stage /\ pc' = "build" /\ grid' = grid
  BY NameFacts DEF NextStage, RInv, UniqueInv
<1>5. CoverInv'
  BY <1>3, <1>4 DEF CoverInv
<1>6. DoneIsComplete' /\ CountertermsAgree'
  BY <1>4 DEF RInv, DoneIsComplete, CountertermsAgree
<1> QED BY <1>1, <1>5, <1>6 DEF RInv

\* A job that dies leaves the store alone and is not done.
LEMMA DeadJobComplete ==
  ASSUME RInv, NEW how \in Outcomes \ {"done"}, EndJob(how), UNCHANGED rows
  PROVE  RInv'
<1>1. UniqueInv'
  BY EndJobUnique DEF RInv
<1>2. CoverInv' /\ DoneIsComplete' /\ CountertermsAgree'
  BY DEF EndJob, RInv, CoverInv, DoneIsComplete, CountertermsAgree
<1> QED BY <1>1, <1>2 DEF RInv

\* A list covers what its stage lacks; no other stage is touched.
LEMMA BuildComplete ==
  ASSUME RInv, BuildList
  PROVE  RInv'
<1> DEFINE missing == TotalMissing(rows, grid, name)
<1>1. /\ name \in StageSet /\ grid \in Grid /\ rows \in [Cells -> Nat]
      /\ rows' = DropInconsistent(rows, grid, name)
      /\ list' = WorkItems(grid, name, missing)
      /\ pc = "build" /\ pc' = "farm" /\ UNCHANGED <<grid, stage, outcome, edits>>
      /\ name' = name
  BY NameFacts DEF RInv, UniqueInv, TypeOK, BuildList, name
<1>2. missing \in SUBSET Wanted(grid, name)
  BY MissingFacts
<1> HIDE DEF missing
<1>3. \A m \in 1 .. stage - 1 : Present(rows', grid, StageNames[m])
  <2> SUFFICES ASSUME NEW m \in 1 .. stage - 1,
                      NEW t \in Tables(StageNames[m]),
                      NEW key \in Wanted(grid, StageNames[m])
               PROVE  rows'[<<t, key>>] > 0
    BY DEF Present
  <2>1. StageNames[m] \in StageSet /\ t \notin Tables(name)
    BY EarlierStage DEF RInv, UniqueInv
  <2>2. <<t, key>> \in Cells
    BY <1>1, <2>1, WantedCells
  <2>3. rows[<<t, key>>] > 0
    BY <1>1 DEF RInv, CoverInv, Present
  <2>4. rows'[<<t, key>>] = rows[<<t, key>>]
    BY <1>1, <2>1, <2>2, DropFacts
  <2> QED BY <2>3, <2>4
<1>4. \A t \in Tables(name), key \in Wanted(grid, name) :
        rows'[<<t, key>>] > 0 \/ \E i \in list' : key \in i
  <2> SUFFICES ASSUME NEW t \in Tables(name), NEW key \in Wanted(grid, name)
               PROVE  rows'[<<t, key>>] > 0 \/ \E i \in list' : key \in i
    OBVIOUS
  <2>1. CASE key \in missing
    BY <1>1, <1>2, <2>1, WorkItemsFacts
  <2>2. CASE key \notin missing
    <3>1. <<t, key>> \in Cells /\ rows'[<<t, key>>] = rows[<<t, key>>]
      BY <1>1, <2>2, WantedCells, DropFacts DEF missing
    <3>2. rows[<<t, key>>] # 0
      <4>1. CASE name # "counterterm"
        BY <1>1, <2>2, <4>1, MissingFacts, AskedForItself DEF missing
      <4>2. CASE name = "counterterm"
        <5>1. "c0" \in Checked(name) /\ AskedFor("c0") = "c0" /\ t \in counterterm_tables
          BY <4>2 DEF Checked, AskedFor, Tables, counterterm_tables
        <5>2. rows[<<"c0", key>>] # 0
          BY <2>2, <5>1, MissingFacts DEF missing
        <5>3. key \in Keys("counterterm") /\ "c0" \in counterterm_tables
          BY <1>1, <4>2, WantedKeys DEF counterterm_tables
        <5> QED BY <5>1, <5>2, <5>3 DEF RInv, CountertermsAgree
      <4> QED BY <4>1, <4>2
    <3> QED BY <1>1, <3>1, <3>2
  <2> QED BY <2>1, <2>2
<1>5. CoverInv'
  BY <1>1, <1>3, <1>4 DEF CoverInv
<1>6. CountertermsAgree'
  <2> SUFFICES ASSUME NEW key \in Keys("counterterm"), NEW t \in counterterm_tables
               PROVE  rows'[<<t, key>>] = rows[<<t, key>>]
    BY DEF RInv, CountertermsAgree
  <2>1. <<t, key>> \in Cells
    BY CountertermCells
  <2>2. CASE name = "counterterm"
    BY <1>1, <2>1, <2>2, CountertermsStay
  <2>3. CASE name # "counterterm"
    <3>1. t \notin Tables(name)
      BY <1>1, <2>3, TablesDisjoint DEF StageSet, Tables
    <3> QED BY <1>1, <2>1, <3>1, DropFacts
  <2> QED BY <2>2, <2>3
<1>7. DoneIsComplete'
  BY <1>1 DEF DoneIsComplete
<1>8. UniqueInv'
  BY BuildUnique DEF RInv
<1> QED BY <1>5, <1>6, <1>7, <1>8 DEF RInv

\* A product makes good for its place on the list, in every table alike.
LEMMA StoreComplete ==
  ASSUME RInv, NEW i \in list, StoreItem(i)
  PROVE  RInv'
<1>1. /\ name \in StageSet /\ grid \in Grid /\ rows \in [Cells -> Nat]
      /\ name' = name /\ pc = "farm"
      /\ UNCHANGED <<grid, pc, stage, outcome, edits>>
      /\ list' = list \ {i}
      /\ rows' = [cell \in Cells |->
                    IF cell[1] \in Tables(name) /\ cell[2] \in i
                      THEN rows[cell] + 1 ELSE rows[cell]]
  BY NameFacts DEF RInv, UniqueInv, TypeOK, StoreItem, name
<1>2. \A cell \in Cells : rows'[cell] >= rows[cell]
  BY <1>1
<1>3. \A m \in 1 .. stage - 1 : Present(rows', grid, StageNames[m])
  <2> SUFFICES ASSUME NEW m \in 1 .. stage - 1,
                      NEW t \in Tables(StageNames[m]),
                      NEW key \in Wanted(grid, StageNames[m])
               PROVE  rows'[<<t, key>>] > 0
    BY DEF Present
  <2>1. <<t, key>> \in Cells
    BY <1>1, EarlierStage, WantedCells DEF RInv, UniqueInv
  <2>2. rows[<<t, key>>] > 0
    BY <1>1 DEF RInv, CoverInv, Present
  <2>3. rows'[<<t, key>>] \in Nat /\ rows[<<t, key>>] \in Nat
    BY <1>1, <2>1
  <2> QED BY <1>2, <2>1, <2>2, <2>3
<1>4. \A t \in Tables(name), key \in Wanted(grid, name) :
        rows'[<<t, key>>] > 0 \/ \E j \in list' : key \in j
  <2> SUFFICES ASSUME NEW t \in Tables(name), NEW key \in Wanted(grid, name)
               PROVE  rows'[<<t, key>>] > 0 \/ \E j \in list' : key \in j
    OBVIOUS
  <2>1. <<t, key>> \in Cells
    BY <1>1, WantedCells
  <2>2. CASE key \in i
    BY <1>1, <2>1, <2>2
  <2>3. CASE key \notin i
    BY <1>1, <2>1, <2>3 DEF RInv, CoverInv
  <2> QED BY <2>2, <2>3
<1>5. CoverInv'
  BY <1>1, <1>3, <1>4 DEF CoverInv
<1>6. CountertermsAgree'
  <2> SUFFICES ASSUME NEW key \in Keys("counterterm"),
                      NEW t \in counterterm_tables, NEW u \in counterterm_tables
               PROVE  rows'[<<t, key>>] = rows'[<<u, key>>]
    BY DEF CountertermsAgree
  <2>1. <<t, key>> \in Cells /\ <<u, key>> \in Cells
    BY CountertermCells
  <2>2. rows[<<t, key>>] = rows[<<u, key>>]
    BY DEF RInv, CountertermsAgree
  <2>3. t \in Tables(name) <=> u \in Tables(name)
    BY <1>1, TablesDisjoint DEF StageSet, Tables
  <2> QED BY <1>1, <2>1, <2>2, <2>3
<1>7. DoneIsComplete'
  BY <1>1 DEF DoneIsComplete
<1>8. UniqueInv'
  BY StoreUnique DEF RInv
<1> QED BY <1>5, <1>6, <1>7, <1>8 DEF RInv

\* The end of a stage; after the last, all that was asked for is there.
LEMMA EndStageComplete ==
  ASSUME RInv, EndStage
  PROVE  RInv'
<1>1. UniqueInv'
  BY EndStageUnique DEF RInv
<1>2. Present(rows, grid, name) /\ pc = "farm" /\ list = {} /\ UNCHANGED rows
  BY DEF EndStage, RInv, CoverInv, Present
<1>3. CASE LastStage(grid, name)
  <2>1. EndJob("done")
    BY <1>3 DEF EndStage
  <2>2. CoverInv' /\ CountertermsAgree'
    BY <1>2, <2>1 DEF EndJob, RInv, CoverInv, CountertermsAgree
  <2>3. DoneIsComplete'
    <3> SUFFICES ASSUME NEW n \in Stages, Computed(grid, n),
                        NEW t \in Tables(StageNames[n]),
                        NEW key \in Wanted(grid, StageNames[n])
                 PROVE  rows[<<t, key>>] > 0
      BY <1>2, <2>1 DEF EndJob, DoneIsComplete
    <3>1. stage \in 1 .. 7
      BY NameFacts DEF RInv, UniqueInv
    <3>2. n \in 1 .. 7 /\ n <= stage
      BY <1>3, <3>1, StageFacts DEF LastStage, Computed, name
    <3>3. Present(rows, grid, StageNames[n])
      BY <1>2, <3>1, <3>2 DEF RInv, CoverInv, name
    <3> QED BY <3>3 DEF Present
  <2> QED BY <1>1, <2>2, <2>3 DEF RInv
<1>4. CASE ~LastStage(grid, name) /\ name = "filter_Pk"
  <2>1. pc' = "read" /\ UNCHANGED <<rows, grid, stage, list, outcome, edits>> /\ name' = name
    BY <1>2, <1>4 DEF EndStage, name
  <2> QED BY <1>1, <1>2, <2>1
       DEF RInv, CoverInv, DoneIsComplete, CountertermsAgree
<1>5. CASE ~LastStage(grid, name) /\ name # "filter_Pk"
  BY <1>2, <1>5, NextStageComplete DEF EndStage, LastStage
<1> QED BY <1>3, <1>4, <1>5

\* RInv is inductive.
LEMMA NextComplete ==
  ASSUME NoCountertermEdits
  PROVE  RInv /\ [Next]_vars => RInv'
<1> SUFFICES ASSUME RInv, [Next]_vars PROVE RInv'
  OBVIOUS
<1>0. UniqueInv'
  BY NextUnique DEF RInv
<1>1. ASSUME NEW g \in Grids, StartJob(g) PROVE RInv'
  BY <1>0, <1>1 DEF StartJob, RInv, CoverInv, DoneIsComplete, CountertermsAgree
<1>2. CASE BuildList
  BY <1>2, BuildComplete
<1>3. CASE BuildFails
  BY <1>3, DeadJobComplete DEF BuildFails, Outcomes
<1>4. ASSUME NEW i \in list, StoreItem(i) PROVE RInv'
  BY <1>4, StoreComplete
<1>5. CASE EndStage
  BY <1>5, EndStageComplete
<1>6. CASE ReadFiltered
  <2>1. list = {} /\ name # "counterterm" /\ pc = "read"
    BY <1>6 DEF ReadFiltered, RInv, UniqueInv, ControlInv
  <2> QED BY <1>6, <2>1, NextStageComplete, DeadJobComplete DEF ReadFiltered, Outcomes
<1>7. CASE Kill
  BY <1>7, DeadJobComplete DEF Kill, Outcomes
<1>8. ASSUME NEW cell \in Cells, EditRow(cell) PROVE RInv'
  <2>1. /\ pc' = "idle" /\ outcome' = "none" /\ rows \in [Cells -> Nat]
        /\ rows' = [rows EXCEPT ![cell] = 0] /\ cell[1] \notin counterterm_tables
    BY <1>8 DEF EditRow, NoCountertermEdits, RInv, UniqueInv, TypeOK
  <2>2. CoverInv' /\ DoneIsComplete'
    BY <1>8, <2>1 DEF EditRow, CoverInv, DoneIsComplete
  <2>3. CountertermsAgree'
    <3> SUFFICES ASSUME NEW key \in Keys("counterterm"),
                        NEW t \in counterterm_tables, NEW u \in counterterm_tables
                 PROVE  rows'[<<t, key>>] = rows'[<<u, key>>]
      BY DEF CountertermsAgree
    <3>1. rows[<<t, key>>] = rows[<<u, key>>]
      BY DEF RInv, CountertermsAgree
    <3>2. <<t, key>> \in Cells /\ <<u, key>> \in Cells
      BY CountertermCells
    <3>3. <<t, key>> # cell /\ <<u, key>> # cell
      BY <2>1
    <3> QED BY <2>1, <3>1, <3>2, <3>3
  <2> QED BY <1>0, <2>2, <2>3 DEF RInv
<1>9. CASE UNCHANGED vars
  BY <1>0, <1>9 DEF vars, RInv, CoverInv, DoneIsComplete, CountertermsAgree, name
<1> QED BY <1>1, <1>2, <1>3, <1>4, <1>5, <1>6, <1>7, <1>8, <1>9 DEF Next

(***************************************************************************)
(* If nobody edits the counterterms, a job that ended normally left every  *)
(* result it was asked for in every table, whatever happened to the store  *)
(* before the job.                                                         *)
(***************************************************************************)
THEOREM JobsComplete ==
  ASSUME NoCountertermEdits
  PROVE  Spec => []DoneIsComplete
<1>1. RInv => DoneIsComplete
  BY DEF RInv
<1> QED BY <1>1, InitComplete, NextComplete, PTL DEF Spec

------------------------------------------------------------------------------
(***************************************************************************)
(* What the lists drop.                                                    *)
(***************************************************************************)
\* A row goes only if another table of the stage lacks the result.
LEMMA DropReason ==
  ASSUME NEW R \in [Cells -> Nat], NEW g \in Grid, NEW s \in StageSet,
         NEW cell \in Cells, DropInconsistent(R, g, s)[cell] < R[cell]
  PROVE  /\ cell[1] \in Tables(s)
         /\ cell[2] \in TotalMissing(R, g, s)
         /\ \E t \in Tables(s) : R[<<t, cell[2]>>] = 0
<1>1. /\ cell[1] \in Checked(s)
      /\ cell[2] \in TotalMissing(R, g, s)
  BY DEF DropInconsistent
<1>2. PICK t \in Checked(s) : cell[2] \in MissingFrom(R, g, s, AskedFor(t))
  BY <1>1 DEF TotalMissing
<1>3. R[<<AskedFor(t), cell[2]>>] = 0 /\ AskedFor(t) \in Tables(s)
  BY <1>2, CheckedTables DEF MissingFrom
<1> QED BY <1>1, <1>3, CheckedTables

(***************************************************************************)
(* Whatever is edited and wherever jobs are killed, building a work list   *)
(* deletes a row only if another table of the stage has none for the same  *)
(* result, and such a result is on the list and is computed again.         *)
(***************************************************************************)
THEOREM DropsRecomputed == Spec => DropsAreRecomputed
<1> DEFINE Step ==
      \A cell \in Cells :
        edits' = edits /\ rows'[cell] < rows[cell] =>
          /\ \E t \in Tables(name) : rows[<<t, cell[2]>>] = 0
          /\ cell[1] \in Tables(name)
          /\ \E i \in list' : cell[2] \in i
<1>1. ASSUME TypeOK, [Next]_vars
      PROVE  Step \/ UNCHANGED vars
  <2> SUFFICES ASSUME NEW cell \in Cells, edits' = edits, rows'[cell] < rows[cell]
               PROVE  /\ \E t \in Tables(name) : rows[<<t, cell[2]>>] = 0
                      /\ cell[1] \in Tables(name)
                      /\ \E i \in list' : cell[2] \in i
    OBVIOUS
  <2>1. /\ name \in StageSet /\ grid \in Grid /\ grid \in Grids
        /\ rows \in [Cells -> Nat] /\ rows[cell] \in Nat /\ edits \in Nat
    BY <1>1, NameFacts, EditsAssumption DEF TypeOK
  <2>2. rows' # rows
    BY <2>1
  <2>3. CASE BuildList
    <3>1. /\ rows' = DropInconsistent(rows, grid, name)
          /\ list' = WorkItems(grid, name, TotalMissing(rows, grid, name))
      BY <2>3 DEF BuildList
    <3>2. /\ \E t \in Tables(name) : rows[<<t, cell[2]>>] = 0
          /\ cell[1] \in Tables(name)
          /\ cell[2] \in TotalMissing(rows, grid, name)
      BY <2>1, <3>1, DropReason
    <3>3. TotalMissing(rows, grid, name) \in SUBSET Wanted(grid, name)
      BY MissingFacts
    <3> QED BY <2>1, <3>1, <3>2, <3>3, WorkItemsFacts
  <2>4. ASSUME NEW i \in list, StoreItem(i) PROVE FALSE
    <3>1. rows'[cell] >= rows[cell]
      BY <2>1, <2>4 DEF StoreItem
    <3> QED BY <2>1, <2>4, <3>1 DEF StoreItem
  <2>5. ASSUME NEW c \in Cells, EditRow(c) PROVE FALSE
    BY <2>1, <2>5 DEF EditRow
  <2> QED BY <1>1, <2>2, <2>3, <2>4, <2>5
       DEF Next, StartJob, BuildFails, EndStage, ReadFiltered, Kill, vars
<1> QED BY <1>1, ResultTypes, PTL DEF Spec, DropsAreRecomputed

------------------------------------------------------------------------------
(***************************************************************************)
(* What a job reads.                                                       *)
(***************************************************************************)
\* A set with one row for each of its elements.
LEMMA OneRowEach ==
  ASSUME NEW S, IsFiniteSet(S)
  PROVE  Cardinality(S \X {1}) = Cardinality(S)
<1>1. IsFiniteSet({1}) /\ Cardinality({1}) = 1
  BY FS_Singleton
<1>2. Cardinality(S \X {1}) = Cardinality(S) * Cardinality({1})
  BY <1>1, FS_Product
<1> QED BY <1>1, <1>2, FS_CardinalityType

\* The same, element by element.
LEMMA OneRowSets ==
  ASSUME NEW S
  PROVE  UNION {{z} \X {1} : z \in S} = S \X {1}
<1> DEFINE Rows(z) == {z} \X {1}
<1>1. ASSUME NEW x \in UNION {Rows(z) : z \in S} PROVE x \in S \X {1}
  <2>1. PICK z \in S : x \in Rows(z)
    OBVIOUS
  <2> QED BY <2>1
<1>2. ASSUME NEW x \in S \X {1} PROVE x \in UNION {Rows(z) : z \in S}
  <2>1. PICK z \in S : x = <<z, 1>>
    OBVIOUS
  <2>2. x \in Rows(z)
    BY <2>1
  <2> HIDE DEF Rows
  <2> QED BY <2>2
<1>3. UNION {Rows(z) : z \in S} = S \X {1}
  <2> HIDE DEF Rows
  <2> QED BY <1>1, <1>2
<1> QED BY <1>3

\* The growth functions are read if each redshift is there once.
LEMMA GrowthRead ==
  ASSUME NEW R, NEW zs \in SUBSET Redshifts,
         \A t \in growth_tables, z \in zs : R[<<t, <<z>>>>] = 1
  PROVE  GrowthReadable(R, zs)
<1> DEFINE RowsIn(t) == UNION {{z} \X (1 .. R[<<t, <<z>>>>]) : z \in zs}
<1>1. \A t \in growth_tables : RowsIn(t) = zs \X {1}
  <2> SUFFICES ASSUME NEW t \in growth_tables PROVE RowsIn(t) = zs \X {1}
    OBVIOUS
  <2>1. \A z \in zs : 1 .. R[<<t, <<z>>>>] = {1}
    BY 1 .. 1 = {1}
  <2>2. RowsIn(t) = UNION {{z} \X {1} : z \in zs}
    BY <2>1
  <2> QED BY <2>2, OneRowSets
<1>2. IsFiniteSet(zs)
  BY SamplesAssumption, FS_Subset
<1>3. \A t \in growth_tables : Cardinality(RowsIn(t)) = Cardinality(zs)
  BY <1>1, <1>2, OneRowEach
<1>4. Cardinality(zs) \in Nat
  BY <1>2, FS_CardinalityType
<1> HIDE DEF RowsIn
<1>5. /\ Cardinality(RowsIn("D_factor")) = Cardinality(zs)
      /\ Cardinality(RowsIn("f_factor")) = Cardinality(zs)
  BY <1>3 DEF growth_tables
<1> QED BY <1>4, <1>5 DEF GrowthReadable, RowsIn

\* The filtered power spectrum is read if each of its wavenumbers is there.
LEMMA FilteredRead ==
  ASSUME NEW R, NEW p \in FilterParams,
         \A q \in FilterParams, k \in Range(Wavenumbers) :
           /\ R[<<"Pk_linear", <<q, k>>>>] \in {0, 1}
           /\ q = p => R[<<"Pk_linear", <<q, k>>>>] = 1
  PROVE  NumberFiltered(R) >= Len(Wavenumbers)
<1> DEFINE Numbered == UNION {{n} \X RowsAt(R, Wavenumbers[n]) : n \in DOMAIN Wavenumbers}
           Ours     == (1 .. Len(Wavenumbers)) \X {<<p, 1>>}
           All      == (1 .. Len(Wavenumbers)) \X (FilterParams \X {1})
<1>1. /\ DOMAIN Wavenumbers = 1 .. Len(Wavenumbers) /\ Len(Wavenumbers) \in Nat
      /\ \A n \in DOMAIN Wavenumbers : Wavenumbers[n] \in Range(Wavenumbers)
  BY SamplesAssumption DEF Range
<1>2. \A k \in Range(Wavenumbers) : /\ RowsAt(R, k) \subseteq FilterParams \X {1}
                                    /\ <<p, 1>> \in RowsAt(R, k)
  <2> SUFFICES ASSUME NEW k \in Range(Wavenumbers)
               PROVE  /\ RowsAt(R, k) \subseteq FilterParams \X {1}
                      /\ <<p, 1>> \in RowsAt(R, k)
    OBVIOUS
  <2>1. \A q \in FilterParams : 1 .. R[<<"Pk_linear", <<q, k>>>>] \subseteq {1}
    BY 1 .. 1 = {1}, 1 .. 0 = {}
  <2>2. 1 \in 1 .. R[<<"Pk_linear", <<p, k>>>>]
    BY 1 .. 1 = {1}
  <2> DEFINE RowsOf(q) == {q} \X (1 .. R[<<"Pk_linear", <<q, k>>>>])
  <2>3. RowsAt(R, k) = UNION {RowsOf(q) : q \in FilterParams}
    BY DEF RowsAt
  <2>4. /\ \A q \in FilterParams : RowsOf(q) \subseteq FilterParams \X {1}
        /\ <<p, 1>> \in RowsOf(p)
    BY <2>1, <2>2
  <2> HIDE DEF RowsOf
  <2> QED BY <2>3, <2>4
<1>3. Ours \subseteq Numbered /\ Numbered \subseteq All
  BY <1>1, <1>2
<1>4. IsFiniteSet(All)
  <2>1. IsFiniteSet({1})
    BY FS_Singleton
  <2>2. IsFiniteSet(1 .. Len(Wavenumbers))
    BY <1>1, 1 \in Int, FS_Interval
  <2>3. IsFiniteSet(FilterParams \X {1})
    BY <2>1, SamplesAssumption, FS_Product
  <2> QED BY <2>2, <2>3, FS_Product
<1>5. Cardinality(Ours) = Len(Wavenumbers)
  <2>1. IsFiniteSet({<<p, 1>>}) /\ Cardinality({<<p, 1>>}) = 1
    BY FS_Singleton
  <2>2. /\ IsFiniteSet(1 .. Len(Wavenumbers))
        /\ Cardinality(1 .. Len(Wavenumbers)) = Len(Wavenumbers)
    BY <1>1, FS_Interval
  <2>3. Cardinality(Ours) = Cardinality(1 .. Len(Wavenumbers)) * Cardinality({<<p, 1>>})
    BY <2>1, <2>2, FS_Product
  <2> QED BY <1>1, <2>1, <2>2, <2>3
<1>6. IsFiniteSet(Numbered)
  BY <1>3, <1>4, FS_Subset
<1>7. Cardinality(Ours) <= Cardinality(Numbered)
  BY <1>3, <1>6, FS_Subset
<1>8. Cardinality(Numbered) \in Nat
  BY <1>6, FS_CardinalityType
<1> HIDE DEF Ours
<1> QED BY <1>1, <1>5, <1>7, <1>8 DEF NumberFiltered

\* A result of an earlier, safe stage is there once.
LEMMA EarlierOnce ==
  ASSUME RInv, pc # "idle", NEW s \in SafeStages,
         NEW m \in 1 .. stage - 1, StageNames[m] = s,
         NEW t \in Tables(s), NEW key \in Wanted(grid, s)
  PROVE  rows[<<t, key>>] = 1
<1>1. rows[<<t, key>>] > 0
  BY DEF RInv, CoverInv, Present
<1>2. s \in StageSet /\ grid \in Grid /\ rows \in [Cells -> Nat]
  BY NameFacts, SafeFacts DEF RInv, UniqueInv, TypeOK
<1>3. <<t, key>> \in CellsOf(s) /\ <<t, key>> \in Cells
  BY <1>2, WantedKeys, WantedCells, CellFacts
<1> QED BY <1>1, <1>2, <1>3 DEF RInv, UniqueInv, NeverTwice

\* Where a later stage reads, the earlier ones are there once.
LEMMA EarlierReadable ==
  ASSUME RInv, pc = "build", name \in {"one_loop_Pk", "multipole_Pk", "counterterm"}
  PROVE  /\ \A t \in growth_tables, z \in grid.z : rows[<<t, <<z>>>>] = 1
         /\ \A c \in grid.c : KernelsReadable(rows, c)
         /\ \A r \in grid.r : XYReadable(rows, r)
<1>1. stage \in 5 .. 7
  BY NameFacts, StageFacts DEF name, RInv, UniqueInv
<1>2. \A t \in growth_tables, z \in grid.z : rows[<<t, <<z>>>>] = 1
  <2> SUFFICES ASSUME NEW t \in growth_tables, NEW z \in grid.z
               PROVE  rows[<<t, <<z>>>>] = 1
    OBVIOUS
  <2>1. t \in Tables("growth") /\ <<z>> \in Wanted(grid, "growth")
    BY DEF Tables, Wanted
  <2>2. 1 \in 1 .. stage - 1 /\ "growth" \in SafeStages
    BY <1>1 DEF SafeStages
  <2> QED BY <2>1, <2>2, StageFacts, EarlierOnce
<1>3. \A c \in grid.c : KernelsReadable(rows, c)
  <2> SUFFICES ASSUME NEW c \in grid.c, NEW t \in Kernels PROVE rows[<<t, <<c>>>>] = 1
    BY DEF KernelsReadable, OneRow
  <2>1. t \in Tables("loop_integral") /\ <<c>> \in Wanted(grid, "loop_integral")
    BY DEF Tables, Wanted
  <2>2. 4 \in 1 .. stage - 1 /\ "loop_integral" \in SafeStages
    BY <1>1 DEF SafeStages
  <2> QED BY <2>1, <2>2, StageFacts, EarlierOnce
<1>4. \A r \in grid.r : XYReadable(rows, r)
  <2> SUFFICES ASSUME NEW r \in grid.r PROVE rows[<<"Matsubara_XY", <<r>>>>] = 1
    BY DEF XYReadable, OneRow
  <2>1. "Matsubara_XY" \in Tables("Matsubara_XY") /\ <<r>> \in Wanted(grid, "Matsubara_XY")
    BY DEF Tables, Wanted
  <2>2. 3 \in 1 .. stage - 1 /\ "Matsubara_XY" \in SafeStages
    BY <1>1 DEF SafeStages
  <2> QED BY <2>1, <2>2, StageFacts, EarlierOnce
<1> QED BY <1>2, <1>3, <1>4

\* Only spectra stored again keep a list from being built.
LEMMA OnlySpectraUnreadable ==
  ASSUME RInv, pc = "build",
         ~InputsReadable(rows, grid, name, TotalMissing(rows, grid, name))
  PROVE  \E cell \in CellsOf("one_loop_Pk") : rows[cell] > 1
<1> DEFINE missing == TotalMissing(rows, grid, name)
<1>1. /\ name \in StageSet /\ grid \in Grid /\ rows \in [Cells -> Nat]
      /\ grid.z \subseteq Redshifts
  BY NameFacts DEF RInv, UniqueInv, TypeOK, Grid
<1>2. missing \subseteq Wanted(grid, name)
  BY MissingFacts
<1> HIDE DEF missing
<1>3. \A zs \in SUBSET grid.z :
        name \in {"one_loop_Pk", "multipole_Pk", "counterterm"} => GrowthReadable(rows, zs)
  <2> SUFFICES ASSUME NEW zs \in SUBSET grid.z,
                      name \in {"one_loop_Pk", "multipole_Pk", "counterterm"}
               PROVE  GrowthReadable(rows, zs)
    OBVIOUS
  <2>1. \A t \in growth_tables, z \in zs : rows[<<t, <<z>>>>] = 1
    BY EarlierReadable
  <2> QED BY <1>1, <2>1, GrowthRead
<1>4. CASE name = "one_loop_Pk"
  <2>1. missing \subseteq grid.c \X grid.z
    BY <1>2, <1>4 DEF Wanted
  <2>2. \A key \in missing : GrowthReadable(rows, grid.z) /\ KernelsReadable(rows, key[1])
    BY <1>3, <1>4, <2>1, EarlierReadable
  <2> QED BY <1>4, <2>2 DEF InputsReadable, missing
<1>5. CASE name \in {"multipole_Pk", "counterterm"}
  <2>1. missing \subseteq grid.c \X grid.r \X grid.z
    BY <1>2, <1>5 DEF Wanted
  <2>2. \A key \in missing :
          /\ GrowthReadable(rows, MissingRedshifts(missing, key[1], key[2]))
          /\ XYReadable(rows, key[2])
    <3> SUFFICES ASSUME NEW key \in missing
                 PROVE  /\ GrowthReadable(rows, MissingRedshifts(missing, key[1], key[2]))
                        /\ XYReadable(rows, key[2])
      OBVIOUS
    <3>1. MissingRedshifts(missing, key[1], key[2]) \subseteq grid.z
      BY <2>1 DEF MissingRedshifts
    <3>2. key[2] \in grid.r
      BY <2>1
    <3> QED BY <1>3, <1>5, <3>1, <3>2, EarlierReadable
  <2>3. PICK key \in missing :
          name = "multipole_Pk" /\ ~SpectraReadable(rows, key[1], key[3])
    BY <1>5, <2>2 DEF InputsReadable, missing
  <2>4. PICK t \in Spectra : rows[<<t, <<key[1], key[3]>>>>] # 1
    BY <2>3 DEF SpectraReadable, OneRow
  <2>5. <<key[1], key[3]>> \in Wanted(grid, "one_loop_Pk") /\ t \in Tables("one_loop_Pk")
    BY <2>1 DEF Wanted, Tables
  <2>6. "one_loop_Pk" \in StageSet /\ stage = 6 /\ 5 \in 1 .. stage - 1
    BY <2>3, NameFacts, StageFacts DEF StageSet, RInv, UniqueInv, name
  <2>7. rows[<<t, <<key[1], key[3]>>>>] > 0
    BY <2>5, <2>6, StageFacts DEF RInv, CoverInv, Present
  <2>8. /\ <<t, <<key[1], key[3]>>>> \in CellsOf("one_loop_Pk")
        /\ <<t, <<key[1], key[3]>>>> \in Cells
    BY <1>1, <2>5, <2>6, WantedKeys, CellFacts
  <2>9. rows[<<t, <<key[1], key[3]>>>>] \in Nat
    BY <1>1, <2>8
  <2> QED BY <2>4, <2>7, <2>8, <2>9
<1>6. CASE name \notin {"one_loop_Pk", "multipole_Pk", "counterterm"}
  BY <1>6 DEF InputsReadable
<1> QED BY <1>4, <1>5, <1>6

\* The filtered power spectrum is never short when it is read back.
LEMMA FilteredReadBack ==
  ASSUME RInv, pc = "read"
  PROVE  NumberFiltered(rows) >= Len(Wavenumbers)
<1>1. /\ name = "filter_Pk" /\ grid \in Grid /\ rows \in [Cells -> Nat]
      /\ grid.p \in FilterParams /\ Present(rows, grid, "filter_Pk")
  BY NameFacts DEF RInv, UniqueInv, ControlInv, CoverInv, TypeOK, Grid
<1>2. ASSUME NEW q \in FilterParams, NEW k \in Range(Wavenumbers)
      PROVE  /\ rows[<<"Pk_linear", <<q, k>>>>] \in {0, 1}
             /\ q = grid.p => rows[<<"Pk_linear", <<q, k>>>>] = 1
  <2>1. <<q, k>> \in Keys("filter_Pk")
    BY DEF Keys, Wanted, Whole
  <2>2. "filter_Pk" \in SafeStages /\ "Pk_linear" \in Tables("filter_Pk")
    BY DEF SafeStages, Tables
  <2>3. <<"Pk_linear", <<q, k>>>> \in CellsOf("filter_Pk") /\ <<"Pk_linear", <<q, k>>>> \in Cells
    BY <2>1, <2>2, SafeFacts, CellFacts
  <2>4. rows[<<"Pk_linear", <<q, k>>>>] \in {0, 1}
    BY <1>1, <2>2, <2>3 DEF RInv, UniqueInv, NeverTwice
  <2>5. q = grid.p => rows[<<"Pk_linear", <<q, k>>>>] > 0
    BY <1>1, <2>2 DEF Present, Wanted
  <2> QED BY <2>4, <2>5
<1> QED BY <1>1, <1>2, FilteredRead

------------------------------------------------------------------------------
(***************************************************************************)
(* AgreeInv, action by action, if nobody edits the spectra either.         *)
(***************************************************************************)
NoSpectraEdits == Editable \cap Spectra = {}

\* Tables that hold the same lack the same, and nothing is dropped.
LEMMA SpectraStay ==
  ASSUME RInv, SpectraAgree, name = "one_loop_Pk", NEW cell \in Cells
  PROVE  DropInconsistent(rows, grid, name)[cell] = rows[cell]
<1>1. /\ "one_loop_Pk" \in StageSet /\ grid \in Grid
      /\ Tables("one_loop_Pk") = Spectra
  BY NameFacts DEF StageSet, Tables, RInv, UniqueInv
<1>2. Checked("one_loop_Pk") = Spectra /\ \A t \in Spectra : AskedFor(t) = t
  BY <1>1, AskedForItself
<1>3. ASSUME NEW t \in Spectra, NEW key \in TotalMissing(rows, grid, "one_loop_Pk")
      PROVE  key \in MissingFrom(rows, grid, "one_loop_Pk", t)
  <2>1. PICK u \in Spectra : key \in MissingFrom(rows, grid, "one_loop_Pk", u)
    BY <1>2, <1>3 DEF TotalMissing
  <2>2. key \in Wanted(grid, "one_loop_Pk") /\ rows[<<u, key>>] = 0
    BY <2>1 DEF MissingFrom
  <2>3. rows[<<t, key>>] = 0
    BY <1>1, <2>2, WantedKeys DEF SpectraAgree
  <2> QED BY <2>2, <2>3 DEF MissingFrom
<1> QED BY <1>2, <1>3 DEF DropInconsistent

\* The spectra are among the stages.
LEMMA SpectraCells ==
  ASSUME NEW t \in Spectra, NEW key \in Keys("one_loop_Pk")
  PROVE  <<t, key>> \in Cells
<1>1. "one_loop_Pk" \in StageSet /\ t \in Tables("one_loop_Pk")
  BY DEF StageSet, Tables
<1> QED BY <1>1, CellFacts

\* No list touches the spectra that are there.
LEMMA BuildSpectra ==
  ASSUME RInv, SpectraAgree, BuildList,
         NEW t \in Spectra, NEW key, <<t, key>> \in Cells
  PROVE  rows'[<<t, key>>] = rows[<<t, key>>]
<1>1. /\ name \in StageSet /\ grid \in Grid /\ rows \in [Cells -> Nat]
      /\ rows' = DropInconsistent(rows, grid, name)
  BY NameFacts DEF RInv, UniqueInv, TypeOK, BuildList
<1>2. CASE name = "one_loop_Pk"
  BY <1>1, <1>2, SpectraStay
<1>3. CASE name # "one_loop_Pk"
  <2>1. t \notin Tables(name)
    BY <1>1, <1>3, TablesDisjoint DEF StageSet, Tables
  <2> QED BY <1>1, <2>1, DropFacts
<1> QED BY <1>2, <1>3

\* In an empty store the spectra agree, and no job has failed.
LEMMA InitAgree == Init => AgreeInv
<1> SUFFICES ASSUME Init PROVE AgreeInv
  OBVIOUS
<1>1. RInv /\ OnlyDuplicatesMisread
  BY InitComplete DEF Init, OnlyDuplicatesMisread
<1>2. SpectraAgree
  BY SpectraCells DEF Init, SpectraAgree
<1> QED BY <1>1, <1>2 DEF AgreeInv

\* The tables of the spectra change together.
LEMMA NextSpectra ==
  ASSUME NoSpectraEdits, RInv, SpectraAgree, [Next]_vars
  PROVE  SpectraAgree'
<1> SUFFICES ASSUME NEW key \in Keys("one_loop_Pk"), NEW t \in Spectra, NEW u \in Spectra
             PROVE  rows'[<<t, key>>] = rows'[<<u, key>>]
  BY DEF SpectraAgree
<1>1. /\ rows[<<t, key>>] = rows[<<u, key>>]
      /\ <<t, key>> \in Cells /\ <<u, key>> \in Cells
      /\ name \in StageSet /\ rows \in [Cells -> Nat]
  BY SpectraCells, NameFacts DEF SpectraAgree, RInv, UniqueInv, TypeOK
<1>2. CASE BuildList
  BY <1>1, <1>2, BuildSpectra
<1>3. ASSUME NEW i \in list, StoreItem(i)
      PROVE  rows'[<<t, key>>] = rows'[<<u, key>>]
  <2>1. t \in Tables(name) <=> u \in Tables(name)
    BY <1>1, TablesDisjoint DEF StageSet, Tables
  <2> QED BY <1>1, <1>3, <2>1 DEF StoreItem
<1>4. ASSUME NEW cell \in Cells, EditRow(cell)
      PROVE  rows'[<<t, key>>] = rows'[<<u, key>>]
  <2>1. cell[1] \notin Spectra
    BY <1>4 DEF EditRow, NoSpectraEdits
  <2>2. <<t, key>> # cell /\ <<u, key>> # cell
    BY <2>1
  <2> QED BY <1>1, <1>4, <2>2 DEF EditRow
<1>5. CASE UNCHANGED rows
  BY <1>1, <1>5
<1> QED BY <1>2, <1>3, <1>4, <1>5
     DEF Next, StartJob, BuildFails, EndStage, ReadFiltered, Kill, vars

\* A spectrum that is there twice stays, until the store is edited.
LEMMA DuplicateStays ==
  ASSUME AgreeInv, BuildList \/ (\E i \in list : StoreItem(i)),
         NEW cell \in CellsOf("one_loop_Pk"), rows[cell] > 1
  PROVE  rows'[cell] > 1
<1>1. /\ "one_loop_Pk" \in StageSet /\ Tables("one_loop_Pk") = Spectra
      /\ rows \in [Cells -> Nat]
  BY DEF StageSet, Tables, AgreeInv, RInv, UniqueInv, TypeOK
<1>2. cell \in Cells /\ cell[1] \in Spectra /\ cell = <<cell[1], cell[2]>>
  BY <1>1, CellFacts
<1>3. CASE BuildList
  BY <1>2, <1>3, BuildSpectra DEF AgreeInv
<1>4. CASE \E i \in list : StoreItem(i)
  BY <1>1, <1>2, <1>4 DEF StoreItem
<1> QED BY <1>3, <1>4

\* AgreeInv is inductive.
LEMMA NextAgree ==
  ASSUME NoCountertermEdits, NoSpectraEdits
  PROVE  AgreeInv /\ [Next]_vars => AgreeInv'
<1> SUFFICES ASSUME AgreeInv, [Next]_vars PROVE AgreeInv'
  OBVIOUS
<1>1. RInv' /\ SpectraAgree'
  BY NextComplete, NextSpectra DEF AgreeInv
<1>2. OnlyDuplicatesMisread'
  <2> SUFFICES ASSUME outcome' = "failed"
               PROVE  \E cell \in CellsOf("one_loop_Pk") : rows'[cell] > 1
    BY DEF OnlyDuplicatesMisread
  <2>1. CASE UNCHANGED <<rows, outcome>>
    BY <2>1 DEF AgreeInv, OnlyDuplicatesMisread
  <2>2. CASE BuildList \/ (\E i \in list : StoreItem(i))
    <3>1. outcome = "failed"
      BY <2>2 DEF BuildList, StoreItem
    <3> QED BY <2>2, <3>1, DuplicateStays DEF AgreeInv, OnlyDuplicatesMisread
  <2>3. CASE BuildFails
    BY <2>3, OnlySpectraUnreadable DEF BuildFails, AgreeInv
  <2>4. CASE EndStage
    <3>1. UNCHANGED <<rows, outcome>>
      BY <2>4 DEF EndStage, EndJob, NextStage
    <3> QED BY <2>1, <3>1
  <2>5. CASE ReadFiltered
    <3>1. UNCHANGED <<rows, outcome>>
      BY <2>5, FilteredReadBack DEF ReadFiltered, NextStage, AgreeInv
    <3> QED BY <2>1, <3>1
  <2>6. CASE Kill
    BY <2>6 DEF Kill, EndJob
  <2>7. ASSUME NEW cell \in Cells, EditRow(cell) PROVE FALSE
    BY <2>7 DEF EditRow
  <2> QED BY <2>1, <2>2, <2>3, <2>4, <2>5, <2>6, <2>7 DEF Next, StartJob, vars
<1> QED BY <1>1, <1>2 DEF AgreeInv

(***************************************************************************)
(* If nobody edits the counterterms or the one-loop spectra, a find()      *)
(* fails only where one-loop spectra were stored again: whatever grids are *)
(* asked for, wherever jobs are killed, and whatever other rows are        *)
(* deleted by hand.                                                        *)
(***************************************************************************)
THEOREM OnlySpectraMisread ==
  ASSUME NoCountertermEdits, NoSpectraEdits
  PROVE  Spec => []OnlyDuplicatesMisread
<1>1. AgreeInv => OnlyDuplicatesMisread
  BY DEF AgreeInv
<1> QED BY <1>1, InitAgree, NextAgree, PTL DEF Spec

------------------------------------------------------------------------------
(***************************************************************************)
(* OnceInv, action by action, if all jobs ask for the same redshifts too.  *)
(***************************************************************************)
SameRedshifts == \A g, h \in Grids : g.z = h.z

\* A cell is a pair.
LEMMA CellPairs ==
  ASSUME NEW cell \in Cells
  PROVE  cell = <<cell[1], cell[2]>>
<1>1. PICK n \in Stages : cell \in CellsOf(StageNames[n])
  BY DEF Cells
<1> QED BY <1>1, StageNamesOnto, CellFacts

\* In an empty store nothing is there twice.
LEMMA InitOnce == Init => OnceInv
<1> SUFFICES ASSUME Init PROVE OnceInv
  OBVIOUS
<1>1. AgreeInv /\ UnsafeListInv /\ NothingTwice
  BY InitAgree DEF Init, UnsafeListInv, NothingTwice
<1>2. LoopsWhole
  <2> SUFFICES ASSUME NEW c \in LoopConfigs, NEW z \in grid.z, NEW t \in Spectra
               PROVE  <<t, <<c, z>>>> \in Cells
    BY DEF Init, LoopsWhole
  <2>1. grid \in Grid
    BY GridsAssumption DEF Init
  <2>2. <<c, z>> \in Keys("one_loop_Pk")
    BY <2>1 DEF Keys, Wanted, Whole, Grid
  <2> QED BY <2>2, SpectraCells
<1> QED BY <1>1, <1>2 DEF OnceInv

\* A loop configuration the grid asks for has its cells.
LEMMA LoopCells ==
  ASSUME TypeOK, NEW c \in LoopConfigs, NEW z \in grid.z, NEW t \in Spectra
  PROVE  <<t, <<c, z>>>> \in Cells
<1>1. grid \in Grid
  BY NameFacts
<1>2. <<c, z>> \in Keys("one_loop_Pk")
  BY <1>1 DEF Keys, Wanted, Whole, Grid
<1> QED BY <1>2, SpectraCells

\* A configuration is stored with all its redshifts, and never dropped.
LEMMA NextWhole ==
  ASSUME SameRedshifts, NoSpectraEdits, OnceInv, [Next]_vars
  PROVE  LoopsWhole'
<1>1. /\ name \in StageSet /\ rows \in [Cells -> Nat] /\ grid \in Grids /\ TypeOK
      /\ RInv /\ SpectraAgree
  BY NameFacts DEF OnceInv, AgreeInv, RInv, UniqueInv, TypeOK
<1>2. grid'.z = grid.z
  <2>1. (\E g \in Grids : grid' = g) \/ grid' = grid
    BY DEF Next, StartJob, BuildList, BuildFails, StoreItem, EndStage, ReadFiltered, Kill,
           EditRow, EndJob, NextStage, vars
  <2> QED BY <1>1, <2>1 DEF SameRedshifts
<1> SUFFICES ASSUME NEW c \in LoopConfigs, NEW y \in grid.z, NEW z \in grid.z,
                    NEW t \in Spectra
             PROVE  rows'[<<t, <<c, y>>>>] = rows'[<<t, <<c, z>>>>]
  BY <1>2 DEF LoopsWhole
<1>3. /\ rows[<<t, <<c, y>>>>] = rows[<<t, <<c, z>>>>]
      /\ <<t, <<c, y>>>> \in Cells /\ <<t, <<c, z>>>> \in Cells
  BY <1>1, LoopCells DEF OnceInv, LoopsWhole
<1>4. CASE BuildList
  BY <1>1, <1>3, <1>4, BuildSpectra
<1>5. ASSUME NEW i \in list, StoreItem(i)
      PROVE  rows'[<<t, <<c, y>>>>] = rows'[<<t, <<c, z>>>>]
  <2>1. t \in Tables(name) => (<<c, y>> \in i <=> <<c, z>> \in i)
    <3> SUFFICES ASSUME t \in Tables(name) PROVE <<c, y>> \in i <=> <<c, z>> \in i
      OBVIOUS
    <3>1. name = "one_loop_Pk"
      BY <1>1, TablesDisjoint DEF StageSet, Tables
    <3>2. PICK d \in grid.c : i = {d} \X grid.z
      BY <1>5, <3>1 DEF StoreItem, OnceInv, UnsafeListInv, SafeStages
    <3> QED BY <3>2
  <2> QED BY <1>1, <1>3, <1>5, <2>1 DEF StoreItem
<1>6. ASSUME NEW cell \in Cells, EditRow(cell)
      PROVE  rows'[<<t, <<c, y>>>>] = rows'[<<t, <<c, z>>>>]
  <2>1. cell[1] \notin Spectra
    BY <1>6 DEF EditRow, NoSpectraEdits
  <2>2. <<t, <<c, y>>>> # cell /\ <<t, <<c, z>>>> # cell
    BY <2>1
  <2> QED BY <1>1, <1>3, <1>6, <2>2 DEF EditRow
<1>7. CASE UNCHANGED rows
  BY <1>3, <1>7
<1> QED BY <1>4, <1>5, <1>6, <1>7
     DEF Next, StartJob, BuildFails, EndStage, ReadFiltered, Kill, vars

\* A list of the one-loop spectra holds whole configurations, none computed yet.
LEMMA BuildLoops ==
  ASSUME OnceInv, BuildList, name = "one_loop_Pk"
  PROVE  /\ \A i \in list', t \in Spectra : \A key \in i : rows'[<<t, key>>] = 0
         /\ \A i, j \in list' : i # j => i \cap j = {}
         /\ \A i \in list' : \E c \in grid.c : i = {c} \X grid.z
<1> DEFINE missing == TotalMissing(rows, grid, name)
<1>1. /\ TypeOK /\ RInv /\ SpectraAgree /\ grid \in Grid
      /\ grid.c \subseteq LoopConfigs
      /\ Tables("one_loop_Pk") = Spectra /\ "one_loop_Pk" \in StageSet
  BY NameFacts DEF OnceInv, AgreeInv, RInv, UniqueInv, Grid, Tables, StageSet
<1>2. missing \subseteq grid.c \X grid.z
  BY MissingFacts DEF Wanted
<1>3. \A key \in missing : \E u \in Spectra : rows[<<u, key>>] = 0
  <2> SUFFICES ASSUME NEW key \in missing PROVE \E u \in Spectra : rows[<<u, key>>] = 0
    OBVIOUS
  <2>1. Checked(name) = Spectra /\ \A u \in Spectra : AskedFor(u) = u
    BY <1>1, AskedForItself
  <2>2. PICK u \in Checked(name) : key \in MissingFrom(rows, grid, name, AskedFor(u))
    BY DEF TotalMissing
  <2> QED BY <2>1, <2>2 DEF MissingFrom
<1>4. list' = {{c} \X grid.z : c \in {key[1] : key \in missing}}
  BY DEF BuildList, WorkItems
<1> HIDE DEF missing
<1>5. ASSUME NEW key \in missing, NEW z \in grid.z, NEW t \in Spectra
      PROVE  rows'[<<t, <<key[1], z>>>>] = 0
  <2>1. /\ key[1] \in LoopConfigs /\ key[2] \in grid.z /\ key = <<key[1], key[2]>>
        /\ key[1] \in grid.c
    BY <1>1, <1>2
  <2>2. PICK u \in Spectra : rows[<<u, <<key[1], key[2]>>>>] = 0
    BY <1>3, <2>1
  <2>3. rows[<<u, <<key[1], z>>>>] = 0
    BY <2>1, <2>2 DEF OnceInv, LoopsWhole
  <2>4. <<key[1], z>> \in Keys("one_loop_Pk")
    BY <1>1, <2>1, WantedKeys DEF Wanted
  <2>5. rows[<<t, <<key[1], z>>>>] = 0
    BY <1>1, <2>3, <2>4 DEF SpectraAgree
  <2>6. <<t, <<key[1], z>>>> \in Cells
    BY <2>4, SpectraCells
  <2> QED BY <1>1, <2>5, <2>6, BuildSpectra
<1>6. \A i \in list' : \E key \in missing : i = {key[1]} \X grid.z
  BY <1>4
<1>7. \A i \in list', t \in Spectra : \A key \in i : rows'[<<t, key>>] = 0
  <2> SUFFICES ASSUME NEW i \in list', NEW t \in Spectra, NEW key \in i
               PROVE  rows'[<<t, key>>] = 0
    OBVIOUS
  <2>1. PICK m \in missing : i = {m[1]} \X grid.z
    BY <1>6
  <2>2. PICK z \in grid.z : key = <<m[1], z>>
    BY <2>1
  <2> QED BY <1>5, <2>2
<1>8. \A i, j \in list' : i # j => i \cap j = {}
  <2> SUFFICES ASSUME NEW i \in list', NEW j \in list', i # j PROVE i \cap j = {}
    OBVIOUS
  <2>1. PICK m \in missing : i = {m[1]} \X grid.z
    BY <1>6
  <2>2. PICK n \in missing : j = {n[1]} \X grid.z
    BY <1>6
  <2>3. m[1] # n[1]
    BY <2>1, <2>2
  <2> QED BY <2>1, <2>2, <2>3
<1>9. \A i \in list' : \E c \in grid.c : i = {c} \X grid.z
  BY <1>2, <1>6
<1> QED BY <1>7, <1>8, <1>9

\* A list of the counterterms holds results no table has.
LEMMA BuildCounterterms ==
  ASSUME OnceInv, BuildList, name = "counterterm"
  PROVE  /\ \A i \in list', t \in counterterm_tables : \A key \in i : rows'[<<t, key>>] = 0
         /\ \A i, j \in list' : i # j => i \cap j = {}
<1> DEFINE missing == TotalMissing(rows, grid, name)
<1>1. /\ RInv /\ grid \in Grid /\ rows \in [Cells -> Nat]
      /\ name \in StageSet /\ "c0" \in counterterm_tables
      /\ rows' = DropInconsistent(rows, grid, "counterterm")
  BY NameFacts DEF OnceInv, AgreeInv, RInv, UniqueInv, TypeOK, counterterm_tables, BuildList
<1>2. missing \subseteq Keys("counterterm")
  BY <1>1, MissingFacts, WantedKeys
<1>3. \A key \in missing : rows[<<"c0", key>>] = 0
  BY DEF TotalMissing, MissingFrom, Checked, AskedFor, Tables, counterterm_tables
<1>4. list' = WorkItems(grid, name, missing)
  BY DEF BuildList
<1> HIDE DEF missing
<1>5. /\ \A i \in list' : i \subseteq missing
      /\ \A i, j \in list' : i # j => i \cap j = {}
  BY <1>1, <1>4, WorkItemsExact
<1>6. ASSUME NEW t \in counterterm_tables, NEW key \in missing
      PROVE  rows'[<<t, key>>] = 0
  <2>1. rows[<<t, key>>] = 0
    BY <1>1, <1>2, <1>3 DEF RInv, CountertermsAgree
  <2>2. <<t, key>> \in Cells
    BY <1>2, CountertermCells
  <2> QED BY <1>1, <2>1, <2>2, CountertermsStay
<1> QED BY <1>5, <1>6

\* What is on a list is in no table of its stage.
LEMMA ListedIsAbsent ==
  ASSUME OnceInv, pc = "farm", NEW i \in list, NEW t \in Tables(name), NEW key \in i
  PROVE  rows[<<t, key>>] = 0
  BY DEF OnceInv, AgreeInv, RInv, UniqueInv, ListInv, UnsafeListInv

\* The lists of the unsafe stages.
LEMMA NextUnsafeList ==
  ASSUME OnceInv, [Next]_vars
  PROVE  UnsafeListInv'
<1>1. /\ name \in StageSet /\ rows \in [Cells -> Nat] /\ list \subseteq SUBSET Keys(name)
  BY NameFacts DEF OnceInv, AgreeInv, RInv, UniqueInv, TypeOK
<1>2. CASE BuildList
  <2>1. name' = name /\ UNCHANGED grid
    BY <1>2 DEF BuildList, name
  <2> SUFFICES ASSUME name \notin SafeStages
               PROVE  /\ \A i \in list', t \in Tables(name) :
                           \A key \in i : rows'[<<t, key>>] = 0
                      /\ \A i, j \in list' : i # j => i \cap j = {}
                      /\ name = "one_loop_Pk" =>
                           \A i \in list' : \E c \in grid.c : i = {c} \X grid.z
    BY <2>1 DEF UnsafeListInv
  <2>2. name \in {"one_loop_Pk", "counterterm"}
    BY <1>1 DEF StageSet, SafeStages
  <2>3. /\ name = "one_loop_Pk" => Tables(name) = Spectra
        /\ name = "counterterm" => Tables(name) = counterterm_tables
    BY DEF Tables
  <2> QED BY <1>2, <2>2, <2>3, BuildLoops, BuildCounterterms
<1>3. ASSUME NEW i \in list, StoreItem(i) PROVE UnsafeListInv'
  <2>1. /\ name' = name /\ UNCHANGED grid /\ pc = "farm" /\ list' = list \ {i}
        /\ rows' = [cell \in Cells |->
                      IF cell[1] \in Tables(name) /\ cell[2] \in i
                        THEN rows[cell] + 1 ELSE rows[cell]]
    BY <1>3 DEF StoreItem, name
  <2> SUFFICES ASSUME name \notin SafeStages,
                      NEW j \in list, j # i, NEW t \in Tables(name), NEW key \in j
               PROVE  rows'[<<t, key>>] = 0
    BY <2>1 DEF UnsafeListInv, OnceInv
  <2>2. rows[<<t, key>>] = 0 /\ key \notin i
    BY <2>1 DEF UnsafeListInv, OnceInv
  <2>3. <<t, key>> \in Cells
    BY <1>1, CellFacts
  <2> QED BY <2>1, <2>2, <2>3
<1>4. CASE UNCHANGED vars
  BY <1>4 DEF vars, UnsafeListInv, OnceInv, name
<1>5. CASE pc' # "farm"
  BY <1>5 DEF UnsafeListInv
<1> QED BY <1>2, <1>3, <1>4, <1>5
     DEF Next, StartJob, BuildFails, EndStage, ReadFiltered, Kill, EditRow, EndJob, NextStage

\* Products fill cells that were empty.
LEMMA NextOnceEverywhere ==
  ASSUME OnceInv, [Next]_vars
  PROVE  NothingTwice'
<1> SUFFICES ASSUME NEW cell \in Cells PROVE rows'[cell] <= 1
  BY DEF NothingTwice
<1>1. /\ name \in StageSet /\ grid \in Grid /\ rows \in [Cells -> Nat] /\ rows[cell] <= 1
      /\ cell = <<cell[1], cell[2]>>
  BY NameFacts, CellPairs DEF OnceInv, AgreeInv, RInv, UniqueInv, TypeOK, NothingTwice
<1>2. CASE BuildList
  <2>1. rows'[cell] <= rows[cell] /\ rows'[cell] \in Nat
    BY <1>1, <1>2, DropFacts DEF BuildList
  <2> QED BY <1>1, <2>1
<1>3. ASSUME NEW i \in list, StoreItem(i) PROVE rows'[cell] <= 1
  <2>1. CASE cell[1] \in Tables(name) /\ cell[2] \in i
    <3>1. rows[<<cell[1], cell[2]>>] = 0
      BY <1>3, <2>1, ListedIsAbsent DEF StoreItem
    <3> QED BY <1>1, <1>3, <2>1, <3>1 DEF StoreItem
  <2>2. CASE ~(cell[1] \in Tables(name) /\ cell[2] \in i)
    BY <1>1, <1>3, <2>2 DEF StoreItem
  <2> QED BY <2>1, <2>2
<1>4. ASSUME NEW c \in Cells, EditRow(c) PROVE rows'[cell] <= 1
  BY <1>1, <1>4 DEF EditRow
<1>5. CASE UNCHANGED rows
  BY <1>1, <1>5
<1> QED BY <1>2, <1>3, <1>4, <1>5
     DEF Next, StartJob, BuildFails, EndStage, ReadFiltered, Kill, vars

\* OnceInv is inductive.
LEMMA NextOnce ==
  ASSUME NoCountertermEdits, NoSpectraEdits, SameRedshifts
  PROVE  OnceInv /\ [Next]_vars => OnceInv'
<1> SUFFICES ASSUME OnceInv, [Next]_vars PROVE OnceInv'
  OBVIOUS
<1>1. AgreeInv'
  BY NextAgree DEF OnceInv
<1> QED BY <1>1, NextWhole, NextUnsafeList, NextOnceEverywhere DEF OnceInv

(***************************************************************************)
(* If, besides, all jobs ask for the same redshifts, a job that ended      *)
(* normally left exactly one row for every result it was asked for, in     *)
(* every table, whatever loop configurations, resummation scales and       *)
(* filters the jobs before it asked for and wherever they were killed.     *)
(***************************************************************************)
THEOREM JobsExact ==
  ASSUME NoCountertermEdits, NoSpectraEdits, SameRedshifts
  PROVE  Spec => []DoneIsExact
<1>1. OnceInv => DoneIsExact
  <2> SUFFICES ASSUME OnceInv, pc = "idle", outcome = "done",
                      NEW n \in Stages, Computed(grid, n),
                      NEW t \in Tables(StageNames[n]),
                      NEW key \in Wanted(grid, StageNames[n])
               PROVE  rows[<<t, key>>] = 1
    BY DEF DoneIsExact
  <2>1. /\ rows[<<t, key>>] > 0 /\ rows \in [Cells -> Nat]
        /\ grid \in Grid /\ StageNames[n] \in StageSet
    BY NameFacts, StageNamesOnto
       DEF OnceInv, AgreeInv, RInv, UniqueInv, TypeOK, DoneIsComplete
  <2>2. <<t, key>> \in Cells
    BY <2>1, WantedCells
  <2> QED BY <2>1, <2>2 DEF OnceInv, NothingTwice
<1> QED BY <1>1, InitOnce, NextOnce, PTL DEF Spec

(***************************************************************************)
(* Under the same conditions no find() ever misreads.                      *)
(***************************************************************************)
THEOREM NoResultMisread ==
  ASSUME NoCountertermEdits, NoSpectraEdits, SameRedshifts
  PROVE  Spec => []NoMisread
<1>1. OnceInv => NoMisread
  <2> SUFFICES ASSUME OnceInv, outcome = "failed" PROVE FALSE
    BY DEF NoMisread
  <2>1. PICK cell \in CellsOf("one_loop_Pk") : rows[cell] > 1
    BY DEF OnceInv, AgreeInv, OnlyDuplicatesMisread
  <2>2. cell \in Cells
    BY CellFacts DEF StageSet
  <2>3. rows[cell] <= 1 /\ rows[cell] \in Nat
    BY <2>2 DEF OnceInv, AgreeInv, RInv, UniqueInv, TypeOK, NothingTwice
  <2> QED BY <2>1, <2>3
<1> QED BY <1>1, InitOnce, NextOnce, PTL DEF Spec

------------------------------------------------------------------------------
(***************************************************************************)
(* The refinement of WorkFarm, if all jobs ask for the same and nobody     *)
(* edits.  The generated tables are there: without tables there would be   *)
(* items that no store ever completes.                                     *)
(***************************************************************************)
OneGrid     == \A g, h \in Grids : g = h
NoEdits     == Editable = {}
TablesThere == Kernels # {} /\ Spectra # {}

\* Items have results, share none, and cover what is wanted.
LEMMA AllItemsFacts ==
  ASSUME NEW g \in Grid, NEW s \in StageSet
  PROVE  /\ \A i \in AllItems(g, s) : i # {} /\ i \subseteq Wanted(g, s)
         /\ \A i, j \in AllItems(g, s) : i # j => i \cap j = {}
         /\ \A key \in Wanted(g, s) : \E i \in AllItems(g, s) : key \in i
<1>1. /\ \A i \in AllItems(g, s) : i \subseteq Wanted(g, s)
      /\ \A key \in Wanted(g, s) : \E i \in AllItems(g, s) : key \in i
  BY WorkItemsFacts DEF AllItems
<1>2. CASE s = "growth"
  BY <1>1, <1>2 DEF AllItems, WorkItems
<1>3. CASE s = "one_loop_Pk"
  <2>1. Wanted(g, s) = g.c \X g.z
    BY <1>3 DEF Wanted
  <2>2. \A i \in AllItems(g, s) : \E key \in g.c \X g.z : i = {key[1]} \X g.z
    BY <1>3, <2>1 DEF AllItems, WorkItems
  <2>3. \A i \in AllItems(g, s) : i # {}
    <3> SUFFICES ASSUME NEW i \in AllItems(g, s) PROVE i # {}
      OBVIOUS
    <3>1. PICK key \in g.c \X g.z : i = {key[1]} \X g.z
      BY <2>2
    <3>2. <<key[1], key[2]>> \in i
      BY <3>1
    <3> QED BY <3>2
  <2>4. \A i, j \in AllItems(g, s) : i # j => i \cap j = {}
    <3> SUFFICES ASSUME NEW i \in AllItems(g, s), NEW j \in AllItems(g, s), i # j
                 PROVE  i \cap j = {}
      OBVIOUS
    <3>1. PICK m \in g.c \X g.z : i = {m[1]} \X g.z
      BY <2>2
    <3>2. PICK n \in g.c \X g.z : j = {n[1]} \X g.z
      BY <2>2
    <3>3. m[1] # n[1]
      BY <3>1, <3>2
    <3> QED BY <3>1, <3>2, <3>3
  <2> QED BY <1>1, <2>3, <2>4
<1>4. CASE s \notin {"growth", "one_loop_Pk"}
  <2>1. AllItems(g, s) = {{key} : key \in Wanted(g, s)}
    BY <1>4 DEF AllItems, WorkItems
  <2> QED BY <1>1, <2>1
<1> QED BY <1>2, <1>3, <1>4

\* No list drops anything, and its items are those of an empty store.
LEMMA BuildWhole ==
  ASSUME FarmInv, BuildList
  PROVE  UNCHANGED rows /\ list' \subseteq AllItems(grid, name)
<1> DEFINE missing == TotalMissing(rows, grid, name)
<1>1. /\ name \in StageSet /\ grid \in Grid /\ rows \in [Cells -> Nat]
      /\ stage \in Stages /\ name = StageNames[stage]
      /\ rows' = DropInconsistent(rows, grid, name)
      /\ list' = WorkItems(grid, name, missing)
  BY NameFacts DEF FarmInv, OnceInv, AgreeInv, RInv, UniqueInv, TypeOK, BuildList, name
<1>2. ASSUME NEW i \in AllItems(grid, name), NEW key \in i, key \in missing,
             NEW other \in i, NEW t \in Tables(name)
      PROVE  rows[<<t, other>>] = 0
  <2>1. PICK u \in Checked(name) : rows[<<AskedFor(u), key>>] = 0
    BY <1>2 DEF TotalMissing, MissingFrom
  <2>2. AskedFor(u) \in Tables(name)
    BY <1>1, CheckedTables
  <2> QED BY <1>1, <1>2, <2>1, <2>2 DEF FarmInv, ItemsWhole
<1>3. missing \subseteq Wanted(grid, name)
  BY MissingFacts
<1>4. \A cell \in Cells : DropInconsistent(rows, grid, name)[cell] = rows[cell]
  <2> SUFFICES ASSUME NEW cell \in Cells, cell[1] \in Checked(name),
                      cell[2] \in missing,
                      cell[2] \notin MissingFrom(rows, grid, name, AskedFor(cell[1]))
               PROVE  FALSE
    BY DEF DropInconsistent
  <2>1. PICK i \in AllItems(grid, name) : cell[2] \in i
    BY <1>1, <1>3, AllItemsFacts
  <2>2. AskedFor(cell[1]) \in Tables(name)
    BY <1>1, CheckedTables
  <2>3. rows[<<AskedFor(cell[1]), cell[2]>>] = 0
    BY <1>2, <2>1, <2>2
  <2> QED BY <1>3, <2>3 DEF MissingFrom
<1>5. UNCHANGED rows
  BY <1>1, <1>4, DropFacts
<1>6. list' \subseteq AllItems(grid, name)
  <2>1. CASE name = "growth"
    <3>1. CASE missing = {}
      BY <1>1, <2>1, <3>1 DEF WorkItems
    <3>2. CASE missing # {}
      <4>1. AllItems(grid, name) = {Wanted(grid, name)}
        BY <1>3, <2>1, <3>2 DEF AllItems, WorkItems
      <4>2. PICK key \in missing : TRUE
        BY <3>2
      <4>3. Tables(name) = {"D_factor", "f_factor"}
        BY <2>1 DEF Tables, growth_tables
      <4>4. "D_factor" \in Checked(name) /\ AskedFor("D_factor") = "D_factor"
        BY <4>3 DEF Checked, AskedFor
      <4>5. \A other \in Wanted(grid, name) : rows[<<"D_factor", other>>] = 0
        BY <1>2, <1>3, <4>1, <4>2, <4>3
      <4>6. Wanted(grid, name) \subseteq missing
        BY <4>4, <4>5 DEF TotalMissing, MissingFrom
      <4> QED BY <1>1, <1>3, <4>6 DEF AllItems
    <3> QED BY <3>1, <3>2
  <2>2. CASE name # "growth"
    <3> HIDE DEF missing
    <3> QED BY <1>1, <1>3, <2>2 DEF AllItems, WorkItems
  <2> QED BY <2>1, <2>2
<1> QED BY <1>5, <1>6

\* In an empty store every item is missing as a whole.
LEMMA InitFarm == Init => FarmInv
<1> SUFFICES ASSUME Init PROVE FarmInv
  OBVIOUS
<1>1. OnceInv /\ ListedItems
  BY InitOnce DEF Init, ListedItems
<1>2. ItemsWhole
  <2> SUFFICES ASSUME NEW n \in Stages, NEW i \in AllItems(grid, StageNames[n]),
                      NEW t \in Tables(StageNames[n]), NEW key \in i
               PROVE  rows[<<t, key>>] = 0
    BY DEF ItemsWhole
  <2>1. grid \in Grid /\ StageNames[n] \in StageSet
    BY StageNamesOnto, GridsAssumption DEF Init
  <2>2. <<t, key>> \in Cells
    BY <2>1, AllItemsFacts, WantedKeys, CellFacts
  <2> QED BY <2>2 DEF Init
<1> QED BY <1>1, <1>2 DEF FarmInv

\* Storing a product concerns the results of its item and no others.
LEMMA StoreConcerns ==
  ASSUME FarmInv, NEW i \in list, StoreItem(i),
         NEW n \in Stages, NEW j \in AllItems(grid, StageNames[n]),
         NEW t \in Tables(StageNames[n]), NEW key \in j
  PROVE  /\ <<t, key>> \in Cells
         /\ n = stage /\ j = i => rows[<<t, key>>] = 0 /\ rows'[<<t, key>>] = 1
         /\ ~(n = stage /\ j = i) => rows'[<<t, key>>] = rows[<<t, key>>]
<1>1. /\ name \in StageSet /\ grid \in Grid /\ rows \in [Cells -> Nat]
      /\ stage \in Stages /\ name = StageNames[stage] /\ pc = "farm"
      /\ StageNames[n] \in StageSet /\ i \in AllItems(grid, name)
      /\ rows' = [cell \in Cells |->
                    IF cell[1] \in Tables(name) /\ cell[2] \in i
                      THEN rows[cell] + 1 ELSE rows[cell]]
  BY NameFacts, StageNamesOnto
     DEF FarmInv, ListedItems, OnceInv, AgreeInv, RInv, UniqueInv, TypeOK, StoreItem, name
<1>2. <<t, key>> \in Cells
  BY <1>1, AllItemsFacts, WantedKeys, CellFacts
<1>3. CASE n = stage /\ j = i
  <2>1. rows[<<t, key>>] = 0
    BY <1>1, <1>3, ListedIsAbsent DEF FarmInv
  <2> QED BY <1>1, <1>2, <1>3, <2>1
<1>4. CASE n = stage /\ j # i
  <2>1. key \notin i
    BY <1>1, <1>4, AllItemsFacts
  <2> QED BY <1>1, <1>2, <1>4, <2>1
<1>5. CASE n # stage
  <2>1. t \notin Tables(name)
    BY <1>1, <1>5, TablesAssumption
  <2> QED BY <1>1, <1>2, <1>5, <2>1
<1> QED BY <1>3, <1>4, <1>5

\* FarmInv is inductive.
LEMMA NextFarm ==
  ASSUME OneGrid, NoEdits
  PROVE  FarmInv /\ [Next]_vars => FarmInv'
<1> SUFFICES ASSUME FarmInv, [Next]_vars PROVE FarmInv'
  OBVIOUS
<1>1. NoCountertermEdits /\ NoSpectraEdits /\ SameRedshifts
  BY DEF OneGrid, NoEdits, NoCountertermEdits, NoSpectraEdits, SameRedshifts
<1>2. OnceInv'
  BY <1>1, NextOnce DEF FarmInv
<1>3. /\ TypeOK /\ ControlInv /\ TypeOK' /\ UNCHANGED grid
  <2>1. TypeOK /\ ControlInv /\ TypeOK'
    BY <1>2 DEF FarmInv, OnceInv, AgreeInv, RInv, UniqueInv
  <2> QED BY <2>1 DEF TypeOK, OneGrid
<1>4. CASE BuildList
  <2>1. UNCHANGED <<rows, stage, name>> /\ list' \subseteq AllItems(grid, name)
    BY <1>4, BuildWhole DEF BuildList, name
  <2> QED BY <1>2, <1>3, <2>1 DEF FarmInv, ItemsWhole, ListedItems
<1>5. ASSUME NEW i \in list, StoreItem(i) PROVE FarmInv'
  <2>1. ItemsWhole'
    <3> SUFFICES ASSUME NEW n \in Stages, NEW j \in AllItems(grid, StageNames[n]),
                        NEW t \in Tables(StageNames[n]), NEW u \in Tables(StageNames[n]),
                        NEW key \in j, NEW other \in j
                 PROVE  rows'[<<t, key>>] = rows'[<<u, other>>]
      BY <1>3 DEF ItemsWhole
    <3>1. rows[<<t, key>>] = rows[<<u, other>>]
      BY DEF FarmInv, ItemsWhole
    <3> QED BY <1>5, <3>1, StoreConcerns
  <2>2. ListedItems'
    BY <1>3, <1>5 DEF StoreItem, FarmInv, ListedItems, name
  <2> QED BY <1>2, <2>1, <2>2 DEF FarmInv
<1>6. ASSUME NEW cell \in Cells, EditRow(cell) PROVE FALSE
  BY <1>6 DEF EditRow, NoEdits
<1>7. CASE UNCHANGED rows /\ list' = {}
  BY <1>2, <1>3, <1>7 DEF FarmInv, ItemsWhole, ListedItems
<1>8. CASE UNCHANGED vars
  BY <1>2, <1>3, <1>8 DEF FarmInv, ItemsWhole, ListedItems, vars, name
<1>9. CASE EndStage \/ ReadFiltered
  BY <1>3, <1>7, <1>9 DEF EndStage, ReadFiltered, EndJob, NextStage, ControlInv
<1> QED BY <1>4, <1>5, <1>6, <1>7, <1>8, <1>9
     DEF Next, StartJob, BuildFails, Kill, EndJob

------------------------------------------------------------------------------
\* Every stage has a table.
LEMMA StageHasTables ==
  ASSUME TablesThere, NEW s \in StageSet
  PROVE  Tables(s) # {}
  BY DEF TablesThere, StageSet, Tables, growth_tables, multipole_tables, counterterm_tables

\* The greatest of one number.
LEMMA MaxOfOne ==
  ASSUME NEW v \in Nat
  PROVE  Max({v}) = v
  BY DEF Max

\* All jobs ask for the grid of the farm.
LEMMA FarmGrid ==
  ASSUME OneGrid, TypeOK
  PROVE  TheGrid = grid
  BY DEF OneGrid, TheGrid, TypeOK

\* The items of the farm are those of the stages.
LEMMA FarmItemFacts ==
  ASSUME OneGrid, TypeOK
  PROVE  /\ \A item \in FarmItems : /\ item = <<item[1], item[2]>> /\ item[1] \in Stages
                                     /\ item[2] \in AllItems(grid, StageNames[item[1]])
         /\ \A n \in Stages : \A i \in AllItems(grid, StageNames[n]) : <<n, i>> \in FarmItems
  BY FarmGrid DEF FarmItems, AllItems

\* The rows of an item: as many in each table, none or one.
LEMMA ItemRows ==
  ASSUME TablesThere, FarmInv, NEW n \in Stages, NEW i \in AllItems(grid, StageNames[n])
  PROVE  /\ \E t \in Tables(StageNames[n]) : \E key \in i : TRUE
         /\ \A t \in Tables(StageNames[n]) : \A key \in i :
              /\ MostRows(n, i) = rows[<<t, key>>] /\ rows[<<t, key>>] \in {0, 1}
              /\ <<t, key>> \in Cells
<1>1. /\ grid \in Grid /\ StageNames[n] \in StageSet /\ rows \in [Cells -> Nat]
  BY NameFacts, StageNamesOnto DEF FarmInv, OnceInv, AgreeInv, RInv, UniqueInv, TypeOK
<1>2. \E t \in Tables(StageNames[n]) : \E key \in i : TRUE
  BY <1>1, StageHasTables, AllItemsFacts
<1>3. ASSUME NEW t \in Tables(StageNames[n]), NEW key \in i
      PROVE  /\ MostRows(n, i) = rows[<<t, key>>] /\ rows[<<t, key>>] \in {0, 1}
             /\ <<t, key>> \in Cells
  <2>1. <<t, key>> \in Cells
    BY <1>1, AllItemsFacts, WantedKeys, CellFacts
  <2>2. rows[<<t, key>>] \in Nat /\ rows[<<t, key>>] \in {0, 1}
    BY <1>1, <2>1 DEF FarmInv, OnceInv, NothingTwice
  <2>3. \A u \in Tables(StageNames[n]), other \in i : rows[<<u, other>>] = rows[<<t, key>>]
    BY DEF FarmInv, ItemsWhole
  <2>4. {rows[cell] : cell \in Tables(StageNames[n]) \X i} = {rows[<<t, key>>]}
    BY <2>3
  <2> QED BY <2>1, <2>2, <2>4, MaxOfOne DEF MostRows
<1> QED BY <1>2, <1>3

\* What the farm sees of the store.
FarmRows == [item \in FarmItems |-> MostRows(item[1], item[2])]

\* Where no cell changes its rows no item does.
LEMMA SameFarmRows ==
  ASSUME UNCHANGED rows
  PROVE  UNCHANGED FarmRows
  BY DEF FarmRows, MostRows

\* Storing a product is Store.
LEMMA StoreIsStore ==
  ASSUME OneGrid, TablesThere, FarmInv, FarmInv', NEW i \in list, StoreItem(i)
  PROVE  Farm!Store(<<stage, i>>) /\ <<stage, i>> \in FarmItems
<1>1. /\ TypeOK /\ TypeOK' /\ stage \in Stages /\ i \in AllItems(grid, StageNames[stage])
      /\ UNCHANGED <<stage, grid>>
  BY DEF FarmInv, ListedItems, OnceInv, AgreeInv, RInv, UniqueInv, TypeOK, StoreItem, name
<1>2. <<stage, i>> \in FarmItems
  BY <1>1, FarmItemFacts
<1>3. ASSUME NEW item \in FarmItems
      PROVE  FarmRows'[item] = IF item = <<stage, i>> THEN 1 ELSE FarmRows[item]
  <2>1. /\ item = <<item[1], item[2]>> /\ item[1] \in Stages
        /\ item[2] \in AllItems(grid, StageNames[item[1]])
    BY <1>1, FarmItemFacts
  <2>2. PICK n, j : n = item[1] /\ j = item[2]
    OBVIOUS
  <2>3. /\ n \in Stages /\ j \in AllItems(grid, StageNames[n])
        /\ item = <<stage, i>> <=> n = stage /\ j = i
    BY <2>1, <2>2
  <2>4. PICK t \in Tables(StageNames[n]) : \E key \in j : TRUE
    BY <2>3, ItemRows
  <2>5. PICK key \in j : TRUE
    BY <2>4
  <2>6. FarmRows[item] = rows[<<t, key>>]
    BY <2>2, <2>3, ItemRows DEF FarmRows
  <2>7. MostRows(n, j)' = rows'[<<t, key>>]
    <3>1. rows'[<<t, key>>] \in {0, 1}
      BY <2>3, <2>6, ItemRows, StoreConcerns
    <3>2. \A u \in Tables(StageNames[n]), other \in j : rows'[<<u, other>>] = rows'[<<t, key>>]
      BY <1>1, <2>3 DEF FarmInv, ItemsWhole
    <3>3. {rows'[cell] : cell \in Tables(StageNames[n]) \X j} = {rows'[<<t, key>>]}
      BY <2>3, <2>4, <2>5, <3>2
    <3> QED BY <3>1, <3>3, MaxOfOne DEF MostRows
  <2>8. FarmRows'[item] = rows'[<<t, key>>]
    BY <2>2, <2>7 DEF FarmRows
  <2> QED BY <2>3, <2>6, <2>8, StoreConcerns
<1>4. FarmRows' = [FarmRows EXCEPT ![<<stage, i>>] = 1]
  BY <1>2, <1>3 DEF FarmRows
<1>5. FarmRows[<<stage, i>>] = 0
  <2>1. PICK t \in Tables(StageNames[stage]) : \E key \in i : TRUE
    BY <1>1, ItemRows
  <2>2. PICK key \in i : TRUE
    BY <2>1
  <2>3. rows[<<t, key>>] = 0
    BY <1>1, StoreConcerns
  <2>4. MostRows(stage, i) = 0
    BY <1>1, <2>3, ItemRows
  <2> QED BY <1>2, <2>4 DEF FarmRows
<1> QED BY <1>1, <1>2, <1>4, <1>5 DEF Farm!Store, FarmRows

\* A stage whose results are all present is left by NextStage.
LEMMA NextStageIsNextStage ==
  ASSUME OneGrid, TablesThere, FarmInv, UNCHANGED rows, NextStage,
         Present(rows, grid, name)
  PROVE  Farm!NextStage
<1>1. /\ TypeOK /\ stage \in 1 .. 7 /\ grid \in Grid /\ stage \in Stages
      /\ StageNames[stage] \in StageSet /\ name = StageNames[stage]
  BY NameFacts DEF FarmInv, OnceInv, AgreeInv, RInv, UniqueInv, TypeOK, name
<1>2. Len(StageNames) = 7
  BY DEF StageNames
<1>3. ASSUME NEW item \in FarmItems, item[1] = stage
      PROVE  FarmRows[item] = 1
  <2>1. item[2] \in AllItems(grid, StageNames[stage])
    BY <1>1, <1>3, FarmItemFacts
  <2>2. PICK i : i = item[2]
    OBVIOUS
  <2>3. PICK t \in Tables(StageNames[stage]) : \E key \in i : TRUE
    BY <1>1, <2>1, <2>2, ItemRows
  <2>4. PICK key \in i : TRUE
    BY <2>3
  <2>5. key \in Wanted(grid, StageNames[stage])
    BY <1>1, <2>1, <2>2, AllItemsFacts
  <2>6. rows[<<t, key>>] > 0
    BY <1>1, <2>5 DEF Present
  <2>7. MostRows(stage, i) = rows[<<t, key>>] /\ rows[<<t, key>>] \in {0, 1}
    BY <1>1, <2>1, <2>2, ItemRows
  <2> QED BY <1>3, <2>2, <2>6, <2>7 DEF FarmRows
<1> QED BY <1>1, <1>2, <1>3, SameFarmRows
     DEF Farm!NextStage, Farm!ItemsOf, NextStage, FarmRows

\* Every step of the store is one of the farm, or none.
LEMMA StepFarm ==
  ASSUME OneGrid, NoEdits, TablesThere, FarmInv, FarmInv', [Next]_vars
  PROVE  [Farm!FarmNext]_(Farm!farmVars)
<1>1. /\ TypeOK /\ ControlInv /\ CoverInv
  BY DEF FarmInv, OnceInv, AgreeInv, RInv, UniqueInv
<1>2. ASSUME UNCHANGED <<rows, stage>> PROVE UNCHANGED Farm!farmVars
  BY <1>2, SameFarmRows DEF Farm!farmVars, FarmRows
<1>3. ASSUME UNCHANGED rows, stage' = 1 PROVE Farm!StartAgain
  BY <1>3, SameFarmRows DEF Farm!StartAgain, FarmRows
<1>4. CASE BuildList
  BY <1>2, <1>4, BuildWhole DEF BuildList
<1>5. ASSUME NEW i \in list, StoreItem(i) PROVE Farm!FarmNext
  BY <1>5, StoreIsStore DEF Farm!FarmNext
<1>6. CASE EndStage
  <2>1. Present(rows, grid, name)
    BY <1>1, <1>6 DEF EndStage, CoverInv, Present
  <2>2. CASE NextStage
    BY <1>6, <2>1, <2>2, NextStageIsNextStage DEF EndStage, Farm!FarmNext
  <2>3. CASE ~NextStage
    BY <1>2, <1>3, <1>6, <2>3 DEF EndStage, EndJob, Farm!FarmNext
  <2> QED BY <2>2, <2>3
<1>7. CASE ReadFiltered
  <2>1. Present(rows, grid, name)
    BY <1>1, <1>7 DEF ReadFiltered, CoverInv
  <2>2. CASE NextStage
    BY <1>7, <2>1, <2>2, NextStageIsNextStage DEF ReadFiltered, Farm!FarmNext
  <2>3. CASE ~NextStage
    BY <1>3, <1>7, <2>3 DEF ReadFiltered, EndJob, Farm!FarmNext
  <2> QED BY <2>2, <2>3
<1>8. CASE BuildFails \/ Kill \/ \E g \in Grids : StartJob(g)
  BY <1>3, <1>8 DEF BuildFails, Kill, StartJob, EndJob, Farm!FarmNext
<1>9. ASSUME NEW cell \in Cells, EditRow(cell) PROVE FALSE
  BY <1>9 DEF EditRow, NoEdits
<1>10. CASE UNCHANGED vars
  BY <1>2, <1>10 DEF vars
<1> QED BY <1>4, <1>5, <1>6, <1>7, <1>8, <1>9, <1>10 DEF Next

(***************************************************************************)
(* If all jobs ask for the same and nobody edits, the tables implement the *)
(* farm: each item is stored at most once, and only after all items of the *)
(* earlier stages; the death of a job loses nothing.                       *)
(***************************************************************************)
THEOREM ResultsRefine ==
  ASSUME OneGrid, NoEdits, TablesThere
  PROVE  Spec => ImplementsWorkFarm
<1>1. Init => Farm!FarmInit
  <2> SUFFICES ASSUME Init PROVE Farm!FarmInit
    OBVIOUS
  <2>1. FarmInv /\ TypeOK /\ stage = 1
    BY InitFarm DEF FarmInv, OnceInv, AgreeInv, RInv, UniqueInv, Init
  <2>2. \A item \in FarmItems : MostRows(item[1], item[2]) \in {0, 1}
    <3> SUFFICES ASSUME NEW n \in Stages, NEW i \in AllItems(grid, StageNames[n])
                 PROVE  MostRows(n, i) \in {0, 1}
      BY <2>1, FarmItemFacts
    <3> QED BY <2>1, ItemRows
  <2> QED BY <2>1, <2>2 DEF Farm!FarmInit
<1>2. FarmInv /\ FarmInv' /\ [Next]_vars => [Farm!FarmNext]_(Farm!farmVars)
  BY StepFarm
<1> QED BY <1>1, <1>2, InitFarm, NextFarm, PTL DEF Spec, ImplementsWorkFarm, Farm!FarmSpec
==============================================================================
