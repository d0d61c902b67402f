-------------------------------- MODULE Growth --------------------------------
(***************************************************************************)
(* The growth factors D and growth rates f, which the master integrates    *)
(* itself, back from the earliest of the redshifts that are missing, and   *)
(* the rescaling of the final power spectrum by the growth factors it      *)
(* finds.  Composed with the requests of Inputs.                           *)
(***************************************************************************)
EXTENDS Inputs

CONSTANT MaxEdits   \* bound: rows deleted from the tables by hand

VARIABLES D, f,     \* the tables, of rows [mid, params, zid, value]
          indexes,  \* the tables that have their indexes
          work,     \* the redshifts to integrate
          found,    \* the container that find() last made of the tables
          ends,     \* the first and the last of its values, as they were read
          edits

growthVars == <<D, f, indexes, work, found, ends, edits>>
vars == <<inputVars, growthVars>>

NoGrowth == [params |-> None, z_db |-> EmptyDatabase, values |-> <<>>]

\* The process takes its memory with it.
Forgotten ==
  IF pc' = "idle" THEN work' = EmptyDatabase /\ found' = NoGrowth /\ ends' = <<>>
                  ELSE UNCHANGED <<work, found, ends>>

GrowthInit ==
  /\ D = {} /\ f = {} /\ indexes = {} /\ edits = 0
  /\ work = EmptyDatabase /\ found = NoGrowth /\ ends = <<>>

\* Rows of a table for the job's model and parameters.
Mine(table) == {r \in table : r.mid = tok["FRW_model"] /\ r.params = tok["growth"]}

------------------------------------------------------------------------------
(* The container: a copy of the redshifts, read from the latest value to   *)
(* the earliest, beside the factors (D, A to J) and the rates (f, fA to    *)
(* fJ) in the order they were pushed back.  Its iterator has a position in *)
(* each of them.                                                           *)

Container(z_db, values) == [params |-> tok["growth"], z_db |-> z_db, values |-> values]

\* Mutated form: the redshifts are read from the other end.
recordsAscending(z_db) == Ascending(z_db)

reverse_records(z_db) == Reverse(Ascending(z_db))

begin == [record |-> 1, D |-> 1, f |-> 1]

end(c) == [record |-> Len(reverse_records(c.z_db)) + 1,
           D |-> Len(c.values) + 1, f |-> Len(c.values) + 1]

\* The prefix operator ++, n times: every position moves.
increments(it, n) == [record |-> it.record + n, D |-> it.D + n, f |-> it.f + n]

\* The prefix operator --: the rates stay where they are.
decrement(it) == [record |-> it.record - 1, D |-> it.D - 1, f |-> it.f]

\* What lies past the end of a vector is undefined: stray stands for it.
element(values, i, stray) == IF i \in DOMAIN values THEN values[i] ELSE stray

dereference(c, it, stray) ==
  [params |-> c.params, z |-> reverse_records(c.z_db)[it.record],
   value |-> [D |-> element(c.values, it.D, stray).D, f |-> element(c.values, it.f, stray).f]]

\* A range-based for goes on until the position among the redshifts is the end.
oneloop_values(c) ==
  [i \in DOMAIN reverse_records(c.z_db) |->
     dereference(c, increments(begin, i - 1), [D |-> None, f |-> None])]

------------------------------------------------------------------------------
missing_redshifts_for_table(table, z_db) == Ids(z_db) \ {r.zid : r \in Mine(table)}

\* Mutated form: only the growth factors are looked through.
missingFactors(z_db) == missing_redshifts_for_table(D, z_db)

missing_oneloop_growth_redshifts(z_db) ==
  missing_redshifts_for_table(D, z_db) \cup missing_redshifts_for_table(f, z_db)

\* Mutated form: nothing is dropped.
keep_inconsistent(table, z_db) == table

drop_inconsistent_redshifts(table, z_db) ==
  table \ {r \in Mine(table) : r.zid \in missing_oneloop_growth_redshifts(z_db)
                                         \ missing_redshifts_for_table(table, z_db)}

\* The records of the missing tokens.
missing_db(z_db) ==
  rebuild_key_index([z_db EXCEPT !.records =
    {r \in @ : \E id \in missing_oneloop_growth_redshifts(z_db) : r.value = lookup(z_db, id)}])

build_loop_growth_work_list ==
  /\ Asking({"growth_list"})
  /\ D' = drop_inconsistent_redshifts(D, dbs["z"])
  /\ f' = drop_inconsistent_redshifts(f, dbs["z"])
  /\ work' = missing_db(dbs["z"])
  /\ Advance(IF missing_oneloop_growth_redshifts(dbs["z"]) = {} THEN 4 ELSE 1)
  /\ UNCHANGED <<tokenVars, file, pc, job, tok, dbs, outcome, jobs, indexes, found, ends, edits>>

\* DROP INDEX IF EXISTS, a table after the other.
setup_growth_write ==
  /\ Asking({"growth_setup"})
  /\ indexes' = indexes \ {request.values[read + 1]}
  /\ Answered
  /\ UNCHANGED <<tokenVars, file, pc, job, tok, dbs, outcome, jobs, D, f, work, found, ends, edits>>

\* D is one, by definition, at the first of the times handed in.
ics(z, params) == [from |-> z, params |-> params]

\* The observer is called at every redshift of the list, earliest first.
integrate(z_db, params) ==
  LET times == Reverse(Ascending(z_db))
      state(z) == [at |-> z, start |-> ics(times[1].value, params),
                   by |-> jobs, pipeline |-> job.pipeline]
  IN  Container(z_db, [i \in DOMAIN times |->
        [D |-> state(times[i].value), f |-> state(times[i].value)]])

\* integrate_loop_growth(): both tables are written in one transaction.
store ==
  /\ Asking({"growth_store"})
  /\ LET entries == ToSet(oneloop_values(integrate(work, job.growth)))
         row(v, value) == [mid |-> tok["FRW_model"], params |-> v.params,
                           zid |-> v.z.id, value |-> value]
     IN  /\ D' = D \cup {row(v, v.value.D) : v \in entries}
         /\ f' = f \cup {row(v, v.value.f) : v \in entries}
  /\ Advance(1)
  /\ UNCHANGED <<tokenVars, file, pc, job, tok, dbs, outcome, jobs, indexes, work, found, ends, edits>>

\* CREATE INDEX, which throws if the index is there.
finalize_growth_write ==
  /\ Asking({"growth_finalize"})
  /\ LET table == request.values[read + 1]
     IN  IF table \in indexes THEN End("index_exists") /\ UNCHANGED indexes
         ELSE /\ indexes' = indexes \cup {table} /\ Answered
              /\ UNCHANGED <<tokenVars, file, pc, job, tok, dbs, outcome, jobs>>
  /\ Forgotten /\ UNCHANGED <<D, f, edits>>

------------------------------------------------------------------------------
\* The temporary table of redshifts, joined with a table of results: pairs of the
\* number of a redshift and a row.
joined(table, z_db) ==
  {p \in (DOMAIN Ascending(z_db)) \X Mine(table) : p[2].zid = Ascending(z_db)[p[1]].id}

\* Mutated form: the order is that of the temporary table.
selectAscending(table, z_db) ==
  LET rows == joined(table, z_db)
      sorted == CHOOSE s \in [1 .. Cardinality(rows) -> rows] :
                  /\ IsInjective(s)
                  /\ \A m, n \in DOMAIN s : m < n => s[m][1] <= s[n][1]
  IN  [n \in DOMAIN sorted |-> sorted[n][2]]

\* Its rows, from the last of the redshifts to the first.
select(table, z_db) ==
  LET rows == joined(table, z_db)
      sorted == CHOOSE s \in [1 .. Cardinality(rows) -> rows] :
                  /\ IsInjective(s)
                  /\ \A m, n \in DOMAIN s : m < n => s[m][1] >= s[n][1]
  IN  [n \in DOMAIN sorted |-> sorted[n][2]]

\* The two queries are stepped together, as long as both have a row.
find(z_db) ==
  LET Ds == select(D, z_db)
      fs == select(f, z_db)
  IN  Container(z_db, [i \in 1 .. Min({Len(Ds), Len(fs)}) |->
                         [D |-> Ds[i].value, f |-> fs[i].value]])

\* The factor [D(z_init)/D(z_final)]^2 is made of the first value and of the one that
\* is a step back from the end.  Where that step leaves the rates there is no value:
\* what is read is one that was stored, or (None) any other number.
rescale_final_Pk ==
  /\ Asking({"rescale"})
  /\ LET data == find(dbs["z"])
     IN  IF Len(data.values) # Cardinality(dbs["z"].records)
         THEN End("misread") /\ Forgotten
         ELSE /\ found' = data
              /\ \E rate \in {None} \cup {r.value : r \in f} :
                   LET stray == [D |-> None, f |-> rate]
                   IN  ends' = <<dereference(data, begin, stray),
                                 dereference(data, decrement(end(data)), stray)>>
              /\ Advance(1)
              /\ UNCHANGED <<tokenVars, file, pc, job, tok, dbs, outcome, jobs, work>>
  /\ UNCHANGED <<D, f, indexes, edits>>

------------------------------------------------------------------------------
\* Between jobs, a row is deleted from one of the tables.
Edit ==
  /\ pc = "idle" /\ edits < MaxEdits /\ edits' = edits + 1
  /\ \/ \E r \in D : D' = D \ {r} /\ f' = f
     \/ \E r \in f : f' = f \ {r} /\ D' = D
  /\ UNCHANGED <<inputVars, indexes, work, found, ends>>

Init == InputInit /\ GrowthInit

InputNext ==
  \/ \E j \in Jobs : attach(j) \/ create(j) \/ turn_away(j)
  \/ create_table \/ write_pipeline_id
  \/ Ask \/ AskNothing \/ Fail \/ Killed \/ Done

Next ==
  \/ InputNext /\ Forgotten /\ UNCHANGED <<D, f, indexes, edits>>
  \/ build_loop_growth_work_list \/ setup_growth_write \/ store
  \/ finalize_growth_write \/ rescale_final_Pk \/ Edit

Spec == Init /\ [][Next]_vars
==============================================================================
