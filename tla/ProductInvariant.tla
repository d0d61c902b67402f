-------------------------- MODULE ProductInvariant ---------------------------
(***************************************************************************)
(* The inductive invariant behind the properties of Products.  Whatever    *)
(* travels between master and workers is followed by its fate: the rows it *)
(* will be stored as, if no integral and no filter fails.                  *)
(***************************************************************************)
EXTENDS ProductProperties

\* The rows a job's product for a key is stored as; a one-loop product holds all
\* redshifts of the job.
RowsOf(j, s, key) ==
  CASE s = "filter_Pk"     -> {Row(s, key, FilterValue(j.model, key))}
    [] s = "Matsubara_XY"  -> {Row(s, key, XYValue(key))}
    [] s = "loop_integral" -> {Row(s, key, LoopValue(key))}
    [] s = "one_loop_Pk"   -> {Row(s, [key EXCEPT !.z = z],
                                   SpectrumValue([key EXCEPT !.z = z])) : z \in j.z}
    [] s = "multipole_Pk"  -> {Row(t, key, MultipoleValue(key)) : t \in Tables(s)}
    [] s = "counterterm"   -> {Row(t, key, CountertermValue(key, t)) : t \in Tables(s)}

\* The product of an item, as it arrives, if nothing fails.
Result(s, p) ==
  CASE s = "filter_Pk"     -> filter_Pk_ready(FilterSample(p, TRUE))
    [] s = "Matsubara_XY"  -> Matsubara_XY_ready(calculate_Matsubara_XY(p))
    [] s = "loop_integral" -> loop_momentum_integration_ready(LoopSample(Begin(p)))
    [] s = "one_loop_Pk"   -> one_loop_Pk_ready(calculate_Pk(p))
    [] s = "multipole_Pk"  -> multipole_Pk_ready(calculate_Legendre(p))
    [] s = "counterterm"   -> counterterm_ready(calculate_counterterms(p))

\* What is on its way, with the place it is at; a product that is marked as
\* failed is on its way no more.
InFlight ==
  UNION {{"list"} \X list, {"sent"} \X sent, {"desk"} \X desk,
         {"returned"} \X {x \in returned : ~MarkedFailed(kind, x)}}

\* Its fate.
Fate(s, m, y) ==
  CASE y[1] = "list"     -> NewRows(s, m, Result(s, NewItem(s, build_payload(s, m, y[2]))))
    [] y[1] = "sent"     -> NewRows(s, m, Result(s, y[2]))
    [] y[1] = "desk"     -> NewRows(s, m, Result(s, y[2].item))
    [] y[1] = "returned" -> NewRows(s, m, y[2])

CellsIn(F) == {<<r.table, r.key>> : r \in F}

------------------------------------------------------------------------------
\* A kernel record that did not fail has all its integrals.
DeskInv ==
  \A d \in desk :
    /\ d \in [item : {d.item}, at : 1 .. 5, tries : 0 .. 4, fail : BOOLEAN,
              unset : {d.unset}]
    /\ ~d.fail => d.unset = {}

\* What is on its way ends up as rows that the job asks for.
FatesAsked ==
  \A y \in InFlight : \E key \in Wanted(job, kind) :
    Fate(kind, job.model, y) = RowsOf(job, kind, key)

\* Nothing that is on its way shares a cell with anything else.
FatesApart ==
  \A y, z \in InFlight :
    y # z => CellsIn(Fate(kind, job.model, y)) \cap CellsIn(Fate(kind, job.model, z)) = {}

\* What is on its way is not stored yet.
FatesOpen ==
  \A y \in InFlight : \A c \in CellsIn(Fate(kind, job.model, y)) : RowsFor(c[1], c[2]) = {}

\* The tables have every result of a stage.
Present(j, s) == \A t \in Tables(s), key \in Wanted(j, s) : RowsFor(t, key) # {}

\* What is not stored is on its way, unless something failed; the earlier
\* stages are complete.
CoverInv ==
  /\ pc # "idle" => \A n \in 1 .. stage - 1 : Present(job, Kinds[n])
  /\ pc = "farm" =>
       \/ \E x \in returned : MarkedFailed(kind, x)
       \/ \A t \in Tables(kind), key \in Wanted(job, kind) :
            \/ RowsFor(t, key) # {}
            \/ \E y \in InFlight : <<t, key>> \in CellsIn(Fate(kind, job.model, y))

\* A product is stored as a whole: in all its tables, for all its redshifts.
WholeInv ==
  \A j \in Jobs, n \in DOMAIN Kinds : \A key \in Wanted(j, Kinds[n]) :
    \A c, d \in CellsIn(RowsOf(j, Kinds[n], key)) :
      RowsFor(c[1], c[2]) = {} => RowsFor(d[1], d[2]) = {}

\* For RowsAreAsAsked.
AskedInv == TypeOK /\ DeskInv /\ RowsAreAsAsked /\ FatesAsked

\* For DoneIsStored.
StoredInv == AskedInv /\ CoverInv /\ DoneIsStored

\* For StoredOnce and NoMisread.
OnceInv == AskedInv /\ CoverInv /\ WholeInv /\ FatesApart /\ FatesOpen
             /\ StoredOnce /\ NoMisread
==============================================================================
