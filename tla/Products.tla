------------------------------ MODULE Products -------------------------------
(***************************************************************************)
(* What becomes of an item and its product on their way: the master builds *)
(* a work record (work_lists.cpp, types.h) and from it a payload           *)
(* (mpi_payloads.cpp); serialize() archives some members of the payload,   *)
(* and the worker's empty constructor supplies the others; the worker      *)
(* computes a product, which travels back in the same way, and store()     *)
(* binds its tokens to the columns by which later queries select the row.  *)
(*                                                                         *)
(* An object is a function from its members to what they hold.  A token is *)
(* the id of a row of a token table; the datum a token stands for bears    *)
(* the same number.  An empty constructor makes token 0, which is also the *)
(* first row of every token table, and default parameters.                 *)
(*                                                                         *)
(* Work lists and tables are as in ResultTables, and the order of messages *)
(* is the subject of Scatter.  The growth functions are computed by the    *)
(* master, and are always found here; see Growth.                          *)
(***************************************************************************)
EXTENDS Integers, FiniteSets, Sequences, Bags

CONSTANTS Jobs,   \* what a job may ask for
          None    \* no final power spectrum (a null pointer, SQL NULL)

Default == 0

Tokens == Nat \cup {None}

Job == [model : Nat, k : SUBSET Nat, UV : SUBSET Nat, IR : SUBSET Nat,
        resum : SUBSET Nat, z : SUBSET Nat, init : Nat, final : Tokens,
        filter : Nat, loop : Nat, XY : Nat, growth : Nat]

ASSUME JobsAssumption == Jobs \subseteq Job

VARIABLES job,      \* what the running (or the last) job asks for
          pc,       \* idle (no job), build, farm
          stage,    \* index in Kinds
          list,     \* work records not yet sent
          sent,     \* payloads on their way to a worker, as they will arrive
          desk,     \* loop integrations a worker has begun
          returned, \* products on their way to the master, as they will arrive
          rows,     \* the result tables, a bag of rows
          outcome   \* of the last job: none, done, killed, misread, store_error

vars == <<job, pc, stage, list, sent, desk, returned, rows, outcome>>

Kinds == <<"filter_Pk", "Matsubara_XY", "loop_integral", "one_loop_Pk",
           "multipole_Pk", "counterterm">>
kind == Kinds[stage]

Tables(s) == CASE s = "multipole_Pk" -> {"P0", "P2", "P4"}
               [] s = "counterterm"  -> {"c0", "c2", "c4", "c6"}
               [] OTHER              -> {s}

------------------------------------------------------------------------------
(***************************************************************************)
(* Serialization: the members a class archives; the others are as the      *)
(* empty constructor left them.                                            *)
(***************************************************************************)
Through(obj, archived) ==
  [f \in DOMAIN obj |-> IF f \in archived THEN obj[f] ELSE Default]

\* The same, of an object with members of a class of their own.
ThroughParts(obj, archived, parts) ==
  [f \in DOMAIN obj |-> IF f \notin archived      THEN Default
                        ELSE IF f \in DOMAIN parts THEN Through(obj[f], parts[f])
                        ELSE obj[f]]

\* Mutated form: a member is left out, as two are of loop_integral.
ScaleNotArchived == {"params_tok", "Pk_lin", "value"}

filtered_Pk_value  == {"fail", "k_tok", "Pk_tok", "params_tok", "value"}
Matsubara_XY       == {"params_tok", "IR_resum_tok", "Pk_lin", "value"}
loop_integral      == {"k", "UV_cutoff", "IR_cutoff", "ker"}
oneloop_Pk         == {"k", "loop_params", "growth_params", "init_Pk", "final_Pk",
                       "UV_cutoff", "IR_cutoff", "z", "value"}
multipole_Pk       == {"k", "growth_params", "loop_params", "XY_params", "init_Pk",
                       "final_Pk", "UV_cutoff", "IR_cutoff", "z", "IR_resum", "value"}
multipole_counterterm == {"k", "growth_params", "XY_params", "init_Pk", "final_Pk",
                          "UV_cutoff", "IR_cutoff", "z", "IR_resum", "value"}

new_filter_Pk == {"model", "k", "k_tok", "Pk_tok", "Pk_lin", "params_tok", "params"}
new_Matsubara_XY == {"IR_resum", "IR_resum_tok", "Pk", "params_tok", "params"}
new_loop_momentum_integration == {"model", "k", "k_tok", "UV_cutoff", "UV_tok",
                                  "IR_cutoff", "IR_tok", "Pk"}
new_one_loop_Pk == {"k", "gf_factors", "loop_data", "Pk_init", "Pk_final"}
new_multipole_Pk == {"k", "XY", "data", "Df_data", "Pk_init", "Pk_final"}
new_counterterm == {"k", "k_tok", "XY", "IR_tok", "UV_tok", "z_tok", "growth_tok",
                    "Df_data", "Pk_init", "Pk_final"}

\* A filtered power spectrum: its token and its two splines.
wiggle_Pk(t) == [tok |-> t, data |-> t]
FinalToken(Pk) == IF Pk = None THEN None ELSE Pk.tok
FinalData(Pk)  == IF Pk = None THEN None ELSE Pk.data
optional_Pk(t) == IF t = None THEN None ELSE wiggle_Pk(t)

\* A null pointer is no power spectrum.
ASSUME NoneAssumption == \A j \in Jobs : j.final # None => wiggle_Pk(j.final) # None

------------------------------------------------------------------------------
(***************************************************************************)
(* The rows that are asked for: the columns the queries for missing        *)
(* results and for earlier results select by.                              *)
(***************************************************************************)
FilterKeys(j) == [Pk : {j.init, j.final} \ {None}, params : {j.filter}, k : j.k]
XYKeys(j) == [model : {j.model}, params : {j.XY}, Pk : {j.init}, resum : j.resum]
LoopKeys(j) == [model : {j.model}, params : {j.loop}, k : j.k, Pk : {j.init},
                UV : j.UV, IR : j.IR]
SpectrumKeys(j) == [model : {j.model}, growth : {j.growth}, loop : {j.loop}, k : j.k,
                    init : {j.init}, final : {j.final}, UV : j.UV, IR : j.IR, z : j.z]
MultipoleKeys(j) == [model : {j.model}, growth : {j.growth}, loop : {j.loop},
                     XY : {j.XY}, k : j.k, init : {j.init}, final : {j.final},
                     UV : j.UV, IR : j.IR, resum : j.resum, z : j.z]
CountertermKeys(j) == [model : {j.model}, growth : {j.growth}, XY : {j.XY}, k : j.k,
                       init : {j.init}, final : {j.final}, UV : j.UV, IR : j.IR,
                       resum : j.resum, z : j.z]

Wanted(j, s) == CASE s = "filter_Pk"     -> FilterKeys(j)
                  [] s = "Matsubara_XY"  -> XYKeys(j)
                  [] s = "loop_integral" -> LoopKeys(j)
                  [] s = "one_loop_Pk"   -> SpectrumKeys(j)
                  [] s = "multipole_Pk"  -> MultipoleKeys(j)
                  [] s = "counterterm"   -> CountertermKeys(j)

Row(t, key, value) == [table |-> t, key |-> key, value |-> value]

RowsFor(t, key) == {r \in BagToSet(rows) : r.table = t /\ r.key = key}

Missing(s) == {key \in Wanted(job, s) : \E t \in Tables(s) : RowsFor(t, key) = {}}

\* find(): exactly one row.
OneRow(t, key) == \E r \in RowsFor(t, key) : RowsFor(t, key) = {r} /\ rows[r] = 1
Find(t, key) == (CHOOSE r \in RowsFor(t, key) : TRUE).value

------------------------------------------------------------------------------
(***************************************************************************)
(* Work records: what build_*_work_list() puts on a list for a key.        *)
(***************************************************************************)
filter_Pk_work_record(key) ==
  [k |-> key.k, k_tok |-> key.k, Pk_lin |-> key.Pk, Pk_tok |-> key.Pk,
   params_tok |-> key.params, params |-> key.params]

Matsubara_XY_work_record(key) ==
  [IR_resum |-> key.resum, IR_resum_tok |-> key.resum, Pk |-> wiggle_Pk(key.Pk),
   params_tok |-> key.params, params |-> key.params]

loop_integral_work_record(key) ==
  [k |-> key.k, k_tok |-> key.k, UV_cutoff |-> key.UV, UV_tok |-> key.UV,
   IR_cutoff |-> key.IR, IR_tok |-> key.IR, Pk |-> wiggle_Pk(key.Pk),
   params_tok |-> key.params, params |-> key.params]

\* The key of the loop integrals, of the spectra and of X and Y behind a result.
LoopKeyOf(key) == [model |-> key.model, params |-> key.loop, k |-> key.k,
                   Pk |-> key.init, UV |-> key.UV, IR |-> key.IR]
SpectrumKeyOf(key) == [c \in {"model", "growth", "loop", "k", "init", "final", "UV",
                              "IR", "z"} |-> key[c]]
XYKeyOf(key) == [model |-> key.model, params |-> key.XY, Pk |-> key.init,
                 resum |-> key.resum]

\* find(loop_integral), find(oneloop_Pk_set), find(Matsubara_XY): the tokens are
\* those it was asked for, the rest is read from the row.
FoundLoop(key) ==
  [k |-> key.k, params |-> key.params, Pk_lin |-> key.Pk, UV_cutoff |-> key.UV,
   IR_cutoff |-> key.IR, ker |-> [value |-> Find("loop_integral", key), fail |-> FALSE]]
FoundSpectra(key) ==
  [k |-> key.k, loop_params |-> key.loop, growth_params |-> key.growth,
   init_Pk |-> key.init, final_Pk |-> key.final, UV_cutoff |-> key.UV,
   IR_cutoff |-> key.IR, z |-> key.z, value |-> Find("one_loop_Pk", key)]
FoundXY(key) ==
  [params_tok |-> key.params, IR_resum_tok |-> key.resum, Pk_lin |-> key.Pk,
   value |-> Find("Matsubara_XY", key)]

\* All redshifts of the grid together.
one_loop_Pk_work_record(key) ==
  [k |-> key.k, gf_factors |-> [params |-> key.growth, z |-> job.z],
   loop_data |-> FoundLoop(LoopKeyOf(key)), Pk_init |-> wiggle_Pk(key.init),
   Pk_final |-> optional_Pk(key.final)]

multipole_Pk_work_record(key) ==
  [k |-> key.k, XY |-> FoundXY(XYKeyOf(key)), data |-> FoundSpectra(SpectrumKeyOf(key)),
   Df_data |-> <<key.growth, key.z>>, Pk_init |-> wiggle_Pk(key.init),
   Pk_final |-> optional_Pk(key.final)]

counterterm_work_record(key) ==
  [k |-> key.k, k_tok |-> key.k, XY |-> FoundXY(XYKeyOf(key)), IR_tok |-> key.IR,
   UV_tok |-> key.UV, z_tok |-> key.z, growth_tok |-> key.growth,
   Df_data |-> <<key.growth, key.z>>, Pk_init |-> wiggle_Pk(key.init),
   Pk_final |-> optional_Pk(key.final)]

WorkRecord(s, key) ==
  CASE s = "filter_Pk"     -> filter_Pk_work_record(key)
    [] s = "Matsubara_XY"  -> Matsubara_XY_work_record(key)
    [] s = "loop_integral" -> loop_integral_work_record(key)
    [] s = "one_loop_Pk"   -> one_loop_Pk_work_record(key)
    [] s = "multipole_Pk"  -> multipole_Pk_work_record(key)
    [] s = "counterterm"   -> counterterm_work_record(key)

\* Every find() while the list is built returns.
InputsReadable(s, missing) ==
  \A key \in missing :
    CASE s = "one_loop_Pk"  -> OneRow("loop_integral", LoopKeyOf(key))
      [] s = "multipole_Pk" -> /\ OneRow("one_loop_Pk", SpectrumKeyOf(key))
                               /\ OneRow("Matsubara_XY", XYKeyOf(key))
      [] s = "counterterm"  -> OneRow("Matsubara_XY", XYKeyOf(key))
      [] OTHER              -> TRUE

\* The work record with the cosmological model, where one is needed.
build_payload(s, model, r) ==
  IF s \in {"filter_Pk", "loop_integral"}
    THEN [f \in {"model"} \cup DOMAIN r |-> IF f = "model" THEN model ELSE r[f]]
    ELSE r

\* What of the payload arrives.
NewItem(s, p) ==
  CASE s = "filter_Pk"     -> Through(p, new_filter_Pk)
    [] s = "Matsubara_XY"  -> Through(p, new_Matsubara_XY)
    [] s = "loop_integral" -> Through(p, new_loop_momentum_integration)
    [] s = "one_loop_Pk"   -> ThroughParts(p, new_one_loop_Pk, [loop_data |-> loop_integral])
    [] s = "multipole_Pk"  -> ThroughParts(p, new_multipole_Pk,
                                           [XY |-> Matsubara_XY, data |-> oneloop_Pk])
    [] s = "counterterm"   -> ThroughParts(p, new_counterterm, [XY |-> Matsubara_XY])

------------------------------------------------------------------------------
(***************************************************************************)
(* What a worker computes: process_item() and the calculators.  A value is *)
(* the data it was computed from.                                          *)
(***************************************************************************)
Unset == [model |-> Default, k |-> Default, Pk |-> Default, params |-> Default]

\* A filter that fails gives an empty sample, marked.
FilterSample(p, ok) ==
  [fail |-> ~ok, k_tok |-> p.k_tok, Pk_tok |-> p.Pk_tok, params_tok |-> p.params_tok,
   value |-> IF ok THEN [model |-> p.model, k |-> p.k, Pk |-> p.Pk_lin, params |-> p.params]
                   ELSE Unset]

calculate_Matsubara_XY(p) ==
  [params_tok |-> p.params_tok, IR_resum_tok |-> p.IR_resum_tok, Pk_lin |-> p.Pk.tok,
   value |-> [resum |-> p.IR_resum, Pk |-> p.Pk.data, params |-> p.params]]

\* One spectrum for each redshift of the growth functions.
calculate_Pk(p) ==
  {[k |-> p.loop_data.k, loop_params |-> p.loop_data.params,
    growth_params |-> p.gf_factors.params, init_Pk |-> p.Pk_init.tok,
    final_Pk |-> FinalToken(p.Pk_final), UV_cutoff |-> p.loop_data.UV_cutoff,
    IR_cutoff |-> p.loop_data.IR_cutoff, z |-> z,
    value |-> [k |-> p.k, ker |-> p.loop_data.ker.value, Df |-> <<p.gf_factors.params, z>>,
               init |-> p.Pk_init.data, final |-> FinalData(p.Pk_final)]] :
     z \in p.gf_factors.z}

calculate_Legendre(p) ==
  [k |-> p.data.k, growth_params |-> p.data.growth_params, loop_params |-> p.data.loop_params,
   XY_params |-> p.XY.params_tok, init_Pk |-> p.data.init_Pk, final_Pk |-> p.data.final_Pk,
   UV_cutoff |-> p.data.UV_cutoff, IR_cutoff |-> p.data.IR_cutoff, z |-> p.data.z,
   IR_resum |-> p.XY.IR_resum_tok,
   value |-> [k |-> p.k, XY |-> p.XY.value, data |-> p.data.value, Df |-> p.Df_data,
              init |-> p.Pk_init.data]]

\* One for each of c0, c2, c4, c6, from the power of mu it multiplies.
PowerOfMu == [c0 |-> 0, c2 |-> 2, c4 |-> 4, c6 |-> 6]
calculate_counterterms(p) ==
  [c \in DOMAIN PowerOfMu |->
    [k |-> p.k_tok, growth_params |-> p.growth_tok, XY_params |-> p.XY.params_tok,
     init_Pk |-> p.Pk_init.tok, final_Pk |-> FinalToken(p.Pk_final),
     UV_cutoff |-> p.UV_tok, IR_cutoff |-> p.IR_tok, z |-> p.z_tok,
     IR_resum |-> p.XY.IR_resum_tok,
     value |-> [k |-> p.k, XY |-> p.XY.value, Df |-> p.Df_data, mu |-> PowerOfMu[c],
                tree |-> IF p.Pk_final = None THEN p.Pk_init.data ELSE p.Pk_final.data]]]

\* The integrals of a kernel record: two kinds of kernel, with the power
\* spectrum raw and without wiggles, one after the other.
Integrals == <<"P13", "P13", "P22", "P22">>
MaxTriesMore(n) == IF Integrals[n] = "P13" THEN 6 ELSE 4 \* Mutated form: the first call is not counted.
MaxTries(n) == IF Integrals[n] = "P13" THEN 5 ELSE 3

Begin(p) == [item |-> p, at |-> 1, tries |-> 0, fail |-> FALSE, unset |-> {}]

\* Mutated form: the failure of the last integral counts, not of any.
EvaluateLastOnly(d, converges) ==
  LET over == d.tries + 1 >= MaxTries(d.at)
  IN  IF converges THEN [d EXCEPT !.at = @ + 1, !.tries = 0, !.fail = FALSE]
      ELSE IF over
        THEN [d EXCEPT !.at = @ + 1, !.tries = 0, !.fail = TRUE, !.unset = @ \cup {d.at}]
        ELSE [d EXCEPT !.tries = @ + 1]

\* evaluate_integral(): one call of Cuhre().  After each failure the tolerance
\* is relaxed; after the last the result keeps its initial value.
Evaluate(d, converges) ==
  LET over == d.tries + 1 >= MaxTries(d.at)
  IN  IF converges THEN [d EXCEPT !.at = @ + 1, !.tries = 0]
      ELSE IF over
        THEN [d EXCEPT !.at = @ + 1, !.tries = 0, !.fail = TRUE, !.unset = @ \cup {d.at}]
        ELSE [d EXCEPT !.tries = @ + 1]

LoopSample(d) ==
  LET p == d.item
  IN  [k |-> p.k_tok, params |-> p.params_tok, Pk_lin |-> p.Pk.tok,
       UV_cutoff |-> p.UV_tok, IR_cutoff |-> p.IR_tok,
       ker |-> [fail |-> d.fail,
                value |-> [model |-> p.model, k |-> p.k, UV |-> p.UV_cutoff,
                           IR |-> p.IR_cutoff, Pk |-> p.Pk.data, params |-> p.params,
                           unset |-> d.unset]]]

\* What of the products arrives at the master.
filter_Pk_ready(x)    == Through(x, filtered_Pk_value)
Matsubara_XY_ready(x) == Through(x, Matsubara_XY)
loop_momentum_integration_ready(x) == Through(x, loop_integral)
one_loop_Pk_ready(xs) == {Through(x, oneloop_Pk) : x \in xs}
multipole_Pk_ready(x) == Through(x, multipole_Pk)
counterterm_ready(xs) == [c \in DOMAIN xs |-> Through(xs[c], multipole_counterterm)]

------------------------------------------------------------------------------
(***************************************************************************)
(* store(): which token goes into which column.                            *)
(***************************************************************************)
store_filtered_Pk_value(x) ==
  {Row("filter_Pk", [Pk |-> x.Pk_tok, params |-> x.params_tok, k |-> x.k_tok], x.value)}

store_Matsubara_XY(m, x) ==
  {Row("Matsubara_XY", [model |-> m, params |-> x.params_tok, Pk |-> x.Pk_lin,
                        resum |-> x.IR_resum_tok], x.value)}

store_loop_kernel(m, x) ==
  {Row("loop_integral", [model |-> m, params |-> x.params, k |-> x.k, Pk |-> x.Pk_lin,
                         UV |-> x.UV_cutoff, IR |-> x.IR_cutoff], x.ker.value)}

store_one_loop_rsd_Pk(m, xs) ==
  {Row("one_loop_Pk", [model |-> m, growth |-> x.growth_params, loop |-> x.loop_params,
                       k |-> x.k, init |-> x.init_Pk, final |-> x.final_Pk,
                       UV |-> x.UV_cutoff, IR |-> x.IR_cutoff, z |-> x.z], x.value) : x \in xs}

\* Mutated form: the cutoffs are bound to each other's columns.
StoreMultipoleSwapped(m, x) ==
  {Row(t, [model |-> m, growth |-> x.growth_params, loop |-> x.loop_params,
           XY |-> x.XY_params, k |-> x.k, init |-> x.init_Pk, final |-> x.final_Pk,
           UV |-> x.IR_cutoff, IR |-> x.UV_cutoff, resum |-> x.IR_resum, z |-> x.z],
       x.value) : t \in Tables("multipole_Pk")}

store_multipole_Pk(m, x) ==
  {Row(t, [model |-> m, growth |-> x.growth_params, loop |-> x.loop_params,
           XY |-> x.XY_params, k |-> x.k, init |-> x.init_Pk, final |-> x.final_Pk,
           UV |-> x.UV_cutoff, IR |-> x.IR_cutoff, resum |-> x.IR_resum, z |-> x.z],
       x.value) : t \in Tables("multipole_Pk")}

\* Mutated form: the last of the four is forgotten.
StoreThreeCounterterms(m, xs) ==
  {Row(c, [model |-> m, growth |-> xs[c].growth_params, XY |-> xs[c].XY_params,
           k |-> xs[c].k, init |-> xs[c].init_Pk, final |-> xs[c].final_Pk,
           UV |-> xs[c].UV_cutoff, IR |-> xs[c].IR_cutoff, resum |-> xs[c].IR_resum,
           z |-> xs[c].z], xs[c].value) : c \in DOMAIN xs \ {"c6"}}

store_counterterm(m, xs) ==
  {Row(c, [model |-> m, growth |-> xs[c].growth_params, XY |-> xs[c].XY_params,
           k |-> xs[c].k, init |-> xs[c].init_Pk, final |-> xs[c].final_Pk,
           UV |-> xs[c].UV_cutoff, IR |-> xs[c].IR_cutoff, resum |-> xs[c].IR_resum,
           z |-> xs[c].z], xs[c].value) : c \in DOMAIN xs}

\* store() refuses what is marked as failed.
MarkedFailed(s, x) ==
  CASE s = "filter_Pk"     -> x.fail
    [] s = "loop_integral" -> x.ker.fail
    [] OTHER               -> FALSE

NewRows(s, m, x) ==
  CASE s = "filter_Pk"     -> store_filtered_Pk_value(x)
    [] s = "Matsubara_XY"  -> store_Matsubara_XY(m, x)
    [] s = "loop_integral" -> store_loop_kernel(m, x)
    [] s = "one_loop_Pk"   -> store_one_loop_rsd_Pk(m, x)
    [] s = "multipole_Pk"  -> store_multipole_Pk(m, x)
    [] s = "counterterm"   -> store_counterterm(m, x)

------------------------------------------------------------------------------
Init ==
  /\ job \in Jobs
  /\ pc = "idle" /\ stage = 1 /\ outcome = "none"
  /\ list = {} /\ sent = {} /\ desk = {} /\ returned = {}
  /\ rows = EmptyBag

StartJob(j) ==
  /\ pc = "idle"
  /\ job' = j /\ pc' = "build" /\ stage' = 1
  /\ UNCHANGED <<list, sent, desk, returned, rows, outcome>>

EndJob(how) ==
  /\ pc' = "idle" /\ stage' = 1 /\ outcome' = how
  /\ list' = {} /\ sent' = {} /\ desk' = {} /\ returned' = {}
  /\ UNCHANGED job

\* build_*_work_list(); find() throws where it does not find one row.
BuildList ==
  /\ pc = "build"
  /\ UNCHANGED rows
  /\ IF InputsReadable(kind, Missing(kind))
       THEN /\ list' = {WorkRecord(kind, key) : key \in Missing(kind)}
            /\ pc' = "farm"
            /\ UNCHANGED <<job, stage, sent, desk, returned, outcome>>
       ELSE EndJob("misread")

Send(r) ==
  /\ pc = "farm" /\ r \in list
  /\ list' = list \ {r}
  /\ sent' = sent \cup {NewItem(kind, build_payload(kind, job.model, r))}
  /\ UNCHANGED <<job, pc, stage, desk, returned, rows, outcome>>

\* A worker receives an item, computes it and sends the product.
Work(p, product) ==
  /\ sent' = sent \ {p}
  /\ returned' = returned \cup {product}
  /\ UNCHANGED <<job, pc, stage, list, desk, rows, outcome>>

\* process_item(), kind by kind.
FilterItem(p, ok) ==
  kind = "filter_Pk" /\ p \in sent /\ Work(p, filter_Pk_ready(FilterSample(p, ok)))

XYItem(p) ==
  kind = "Matsubara_XY" /\ p \in sent
    /\ Work(p, Matsubara_XY_ready(calculate_Matsubara_XY(p)))

SpectrumItem(p) ==
  kind = "one_loop_Pk" /\ p \in sent /\ Work(p, one_loop_Pk_ready(calculate_Pk(p)))

MultipoleItem(p) ==
  kind = "multipole_Pk" /\ p \in sent /\ Work(p, multipole_Pk_ready(calculate_Legendre(p)))

CountertermItem(p) ==
  kind = "counterterm" /\ p \in sent
    /\ Work(p, counterterm_ready(calculate_counterterms(p)))

\* The loop integrals take many calls of the integrator.
BeginLoopItem(p) ==
  /\ kind = "loop_integral" /\ p \in sent
  /\ sent' = sent \ {p}
  /\ desk' = desk \cup {Begin(p)}
  /\ UNCHANGED <<job, pc, stage, list, returned, rows, outcome>>

Cuhre(d, converges) ==
  /\ d \in desk /\ d.at <= Len(Integrals)
  /\ desk' = (desk \ {d}) \cup {Evaluate(d, converges)}
  /\ UNCHANGED <<job, pc, stage, list, sent, returned, rows, outcome>>

FinishLoopItem(d) ==
  /\ d \in desk /\ d.at > Len(Integrals)
  /\ desk' = desk \ {d}
  /\ returned' = returned \cup {loop_momentum_integration_ready(LoopSample(d))}
  /\ UNCHANGED <<job, pc, stage, list, sent, rows, outcome>>

StoreProduct(x) ==
  /\ x \in returned /\ ~MarkedFailed(kind, x)
  /\ returned' = returned \ {x}
  /\ rows' = rows (+) SetToBag(NewRows(kind, job.model, x))
  /\ UNCHANGED <<job, pc, stage, list, sent, desk, outcome>>

\* store() throws and the job ends.
StoreThrows(x) ==
  /\ x \in returned /\ MarkedFailed(kind, x)
  /\ EndJob("store_error")
  /\ UNCHANGED rows

EndStage ==
  /\ pc = "farm" /\ list = {} /\ sent = {} /\ desk = {} /\ returned = {}
  /\ UNCHANGED rows
  /\ IF stage = Len(Kinds)
       THEN EndJob("done")
       ELSE /\ pc' = "build" /\ stage' = stage + 1
            /\ UNCHANGED <<job, list, sent, desk, returned, outcome>>

Kill == pc # "idle" /\ EndJob("killed") /\ UNCHANGED rows

Next ==
  \/ \E j \in Jobs : StartJob(j)
  \/ BuildList
  \/ \E r \in list : Send(r)
  \/ \E p \in sent : \/ \E ok \in BOOLEAN : FilterItem(p, ok)
                     \/ XYItem(p) \/ SpectrumItem(p) \/ MultipoleItem(p)
                     \/ CountertermItem(p) \/ BeginLoopItem(p)
  \/ \E d \in desk : FinishLoopItem(d) \/ \E converges \in BOOLEAN : Cuhre(d, converges)
  \/ \E x \in returned : StoreProduct(x) \/ StoreThrows(x)
  \/ EndStage \/ Kill

Spec == Init /\ [][Next]_vars
==============================================================================
