-------------------------- MODULE ProductProperties --------------------------
(***************************************************************************)
(* What a result must still be when it has travelled through Products.     *)
(***************************************************************************)
EXTENDS Products

(***************************************************************************)
(* Every variable keeps to its kind: only one stage's items travel.        *)
(***************************************************************************)
TypeOK ==
  /\ job \in Jobs
  /\ pc \in {"idle", "build", "farm"}
  /\ stage \in 1 .. Len(Kinds)
  /\ outcome \in {"none", "done", "killed", "misread", "store_error"}
  /\ pc # "farm" => list = {} /\ sent = {} /\ desk = {} /\ returned = {}
  /\ \A d \in desk : kind = "loop_integral" /\ d.at \in 1 .. 5 /\ d.tries \in 0 .. 4

------------------------------------------------------------------------------
\* The value that belongs to a key: computed from the data its columns name.
FilterValue(m, key) == [model |-> m, k |-> key.k, Pk |-> key.Pk, params |-> key.params]
XYValue(key)    == [resum |-> key.resum, Pk |-> key.Pk, params |-> key.params]
LoopValue(key)  == [model |-> key.model, k |-> key.k, UV |-> key.UV, IR |-> key.IR,
                    Pk |-> key.Pk, params |-> key.params, unset |-> {}]
SpectrumValue(key) ==
  [k |-> key.k, ker |-> LoopValue(LoopKeyOf(key)), Df |-> <<key.growth, key.z>>,
   init |-> key.init, final |-> key.final]
MultipoleValue(key) ==
  [k |-> key.k, XY |-> XYValue(XYKeyOf(key)), data |-> SpectrumValue(SpectrumKeyOf(key)),
   Df |-> <<key.growth, key.z>>, init |-> key.init]
CountertermValue(key, c) ==
  [k |-> key.k, XY |-> XYValue(XYKeyOf(key)), Df |-> <<key.growth, key.z>>,
   mu |-> PowerOfMu[c], tree |-> IF key.final = None THEN key.init ELSE key.final]

AsAsked(j, s) ==
  CASE s = "filter_Pk"     -> {Row(s, key, FilterValue(j.model, key)) : key \in Wanted(j, s)}
    [] s = "Matsubara_XY"  -> {Row(s, key, XYValue(key)) : key \in Wanted(j, s)}
    [] s = "loop_integral" -> {Row(s, key, LoopValue(key)) : key \in Wanted(j, s)}
    [] s = "one_loop_Pk"   -> {Row(s, key, SpectrumValue(key)) : key \in Wanted(j, s)}
    [] s = "multipole_Pk"  -> {Row(t, key, MultipoleValue(key)) :
                                 t \in Tables(s), key \in Wanted(j, s)}
    [] s = "counterterm"   -> {Row(t, key, CountertermValue(key, t)) :
                                 t \in Tables(s), key \in Wanted(j, s)}

(***************************************************************************)
(* Every row is one that some job asked for: the tokens in its columns are *)
(* those of the data it was computed from, however often it was packed,    *)
(* sent and unpacked on the way, and no integral in it was left unset.     *)
(***************************************************************************)
RowsAreAsAsked ==
  \A r \in BagToSet(rows) :
    \E j \in Jobs, n \in DOMAIN Kinds : r \in AsAsked(j, Kinds[n])

(***************************************************************************)
(* A result is computed and stored once, whichever jobs die: what has been *)
(* stored is found by the next job's query for what is missing.            *)
(***************************************************************************)
StoredOnce ==
  \A r \in BagToSet(rows) :
    rows[r] = 1 /\ RowsFor(r.table, r.key) = {r}

(***************************************************************************)
(* The results of a stage are found by the stages that build on them.      *)
(***************************************************************************)
NoMisread == outcome # "misread"

(***************************************************************************)
(* A job that ends normally left every row it was asked for.               *)
(***************************************************************************)
DoneIsStored ==
  pc = "idle" /\ outcome = "done" =>
    \A n \in DOMAIN Kinds : AsAsked(job, Kinds[n]) \subseteq BagToSet(rows)
==============================================================================
