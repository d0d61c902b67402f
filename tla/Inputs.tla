-------------------------------- MODULE Inputs --------------------------------
(***************************************************************************)
(* What a job does before it has work to hand out: it opens or creates the *)
(* database, turns the ranges of its samples into databases of values and  *)
(* tokens, asks for the tokens of its parameters, reads its power spectra  *)
(* and the wavenumbers at which they can be filtered.  A job may be killed *)
(* anywhere; the next one finds what was committed.                        *)
(***************************************************************************)
EXTENDS Tokens, SequencesExt

CONSTANTS None,
          Jobs,         \* what may be asked for: the constants of a controller
          Statements,   \* CREATE TABLE statements after that of the pipeline id
          range_tol,    \* inverse tolerance of DuplicateRemovalPredicate
          MaxJobs       \* bound: jobs run on the database

ASSUME BoundsAssumption == Statements \in Nat /\ MaxJobs \in Nat /\ range_tol \in Nat \ {0}

ASSUME PipelineAssumption == \A j \in Jobs : j.pipeline # None

VARIABLES file,    \* the database file: its tables, the pipeline ids written
          pc,      \* "idle", "create" or "execute"
          job,     \* the job that runs, or ran last
          todo,    \* its requests that are left
          read,    \* values of the first of them dealt with
          tok,     \* its tokens for parameters and power spectra
          dbs,     \* its databases of samples
          outcome, \* how the last job ended
          jobs     \* jobs started

inputVars == <<tokenVars, file, pc, job, todo, read, tok, dbs, outcome, jobs>>

------------------------------------------------------------------------------
(* Ranges.                                                                 *)

\* Of two numbers in ascending order.  0/0 is NaN: two zeros are no duplicates.
DuplicateRemovalPredicate(a, b) == a # 0 /\ Below(b - a, a, range_tol)

\* Mutated form: the elements are not sorted.
TidiedUnsorted(s) ==
  FoldLeft(LAMBDA kept, v : IF kept # <<>> /\ DuplicateRemovalPredicate(Last(kept), v)
                            THEN kept ELSE Append(kept, v), <<>>, s)

\* std::sort, and std::unique, which compares with the last element kept.
Tidied(s) ==
  FoldLeft(LAMBDA kept, v : IF kept # <<>> /\ DuplicateRemovalPredicate(Last(kept), v)
                            THEN kept ELSE Append(kept, v),
           <<>>, SortSeq(s, <))

Root(x, n) == CHOOSE r \in 1 .. x : r^n = x

linear_grid(s) == [i \in 0 .. s.steps |-> s.min + (i * (s.max - s.min)) \div s.steps]

\* Spaced by a factor; a range that is not positive is shifted to begin at one.
log_bottom_grid(s) ==
  IF s.min > 0
  THEN [i \in 0 .. s.steps |-> s.min * Root(s.max \div s.min, s.steps)^i]
  ELSE [i \in 0 .. s.steps |->
          s.min - One + One * Root((s.max - s.min + One) \div One, s.steps)^i]

log_top_grid(s) == [i \in 0 .. s.steps |-> s.max + s.min - log_bottom_grid(s)[i]]

stepping_range(s) ==
  LET grid == CASE s.steps = 0           -> [i \in {0} |-> s.min]
                [] s.spacing = "linear"  -> linear_grid(s)
                [] s.spacing = "bottom"  -> log_bottom_grid(s)
                [] s.spacing = "top"     -> log_top_grid(s)
  IN  Tidied([i \in 1 .. s.steps + 1 |-> grid[i - 1]])

\* A sum of ranges, as often as they overlap.
aggregation_range(subranges) ==
  Tidied(FlattenSeq([n \in DOMAIN subranges |-> stepping_range(subranges[n])]))

------------------------------------------------------------------------------
(* Databases of samples: a map from values to records, and an index of the *)
(* records by token.                                                       *)

EmptyDatabase == [records |-> {}, index |-> [id \in {} |-> 0]]

\* Both maps are filled with emplace(), which keeps what is there.
add_record(db, v, id) ==
  [records |-> IF \E r \in db.records : r.value = v THEN db.records
               ELSE db.records \cup {[value |-> v, id |-> id]},
   index   |-> [i \in DOMAIN db.index \cup {id} |->
                  IF i \in DOMAIN db.index THEN db.index[i] ELSE v]]

\* The assert() in add_record(), which a build may leave out.
Emplaced(db, v) == \A r \in db.records : r.value # v

Ids(db) == {r.id : r \in db.records}

\* The records in the order of the map: the n-th has n - 1 before it.
Ascending(db) ==
  [n \in 1 .. Cardinality(db.records) |->
     CHOOSE r \in db.records :
       Cardinality({s \in db.records : s.value < r.value}) = n - 1]

\* What load() makes of an archive, which holds the records alone: a token is
\* that of the first of its records.
rebuild_key_index(db) ==
  [db EXCEPT !.index = [id \in Ids(db) |->
     (CHOOSE r \in db.records :
        r.id = id /\ \A s \in db.records : s.id = id => r.value <= s.value).value]]

lookup(db, id) == db.index[id]

Lists == {"z", "UV_cutoff", "IR_cutoff", "IR_resum", "k", "Pk_k"}

------------------------------------------------------------------------------
(* The requests of a job, in the order of execute().                       *)

build_redshift_db(samples) ==
  [kind |-> "database", table |-> "z", into |-> "z", together |-> FALSE,
   values |-> aggregation_range(samples)]

build_wavenumber_db(t, samples) ==
  [kind |-> "database", table |-> t, into |-> t, together |-> FALSE,
   values |-> aggregation_range(samples)]

parameters(t, v) ==
  [kind |-> "token", table |-> t, into |-> t, together |-> TRUE, values |-> <<v>>]

\* The wavenumbers of a power spectrum, a map: ascending, each of them once.
Pk_database(samples) == SetToSortSeq(ToSet(samples), <)

\* Those of them that leave room for the filter's window.
is_valid(k, samples) ==
  /\ 4 * k >= 5 * Min(ToSet(samples))
  /\ 4 * k <= 3 * Max(ToSet(samples))

filterable(Pk) ==
  SelectSeq(Pk_database(Pk.samples), LAMBDA k : is_valid(k, Pk.samples))

build_k_db(Pk) ==
  [kind |-> "database", table |-> "k", into |-> "Pk_k", together |-> TRUE,
   values |-> filterable(Pk)]

step(name, values) ==
  [kind |-> name, table |-> None, into |-> None, together |-> FALSE, values |-> values]

\* By what a power spectrum is known: where its file is, and the hash of the file.
linear_Pk(Pk) == [path |-> Pk.path, md5 |-> Pk.md5]

\* Tokenized, listed for the filter, and read back filtered.
power_spectrum(Pk) ==
  << parameters("linear_Pk", linear_Pk(Pk)),
     build_k_db(Pk), build_k_db(Pk) >>

\* The requests of every job, whatever power spectra it has.
preparation(j) ==
  << parameters("FRW_model", j.model), build_redshift_db(j.z),
     build_wavenumber_db("UV_cutoff", j.UV_cutoffs),
     build_wavenumber_db("IR_cutoff", j.IR_cutoffs),
     build_wavenumber_db("IR_resum", j.IR_resummation),
     build_wavenumber_db("k", j.loop_k),
     parameters("filter", j.filter), parameters("growth", j.growth),
     parameters("MatsubaraXY", j.XY), parameters("loop", j.loop),
     step("growth_list", <<>>), step("growth_setup", <<"D", "f">>),
     step("growth_store", <<>>), step("growth_finalize", <<"D", "f">>) >>

execute(j) ==
  preparation(j)
  \o (IF j.init = None THEN <<>> ELSE power_spectrum(j.init))
  \o (IF j.init = None \/ j.final = None THEN <<>>
      ELSE power_spectrum(j.final) \o <<step("rescale", <<>>)>>)

\* What is asked for: the ranges give redshifts and wavenumbers.
ASSUME SamplesAssumption ==
  \A j \in Jobs :
    /\ aggregation_range(j.z) \in Seq(Redshifts)
    /\ \A r \in {j.UV_cutoffs, j.IR_cutoffs, j.IR_resummation, j.loop_k} :
         aggregation_range(r) \in Seq(Wavenumbers)
    /\ \A Pk \in {j.init, j.final} \ {None} : filterable(Pk) \in Seq(Wavenumbers)

\* Its parameters are blocks, and its power spectra belong to any model's token.
ASSUME LabelsAssumption ==
  \A j \in Jobs :
    /\ {j.model, j.filter, j.growth, j.XY, j.loop} \subseteq Blocks
    /\ \A Pk \in {j.init, j.final} \ {None} : \A m \in 0 .. MaxJobs - 1 :
         [path |-> Pk.path, md5 |-> Pk.md5, model |-> m] \in Spectra

request == Head(todo)

\* The value to be tokenized: a power spectrum belongs to the job's model.
asked == LET v == request.values[read + 1]
         IN  IF request.table # "linear_Pk" THEN v
             ELSE [path |-> v.path, md5 |-> v.md5, model |-> tok["FRW_model"]]

------------------------------------------------------------------------------
(* Opening the file.                                                       *)

\* What a process begins with, and leaves behind.
NoTokens == [t \in Params \cup {"linear_Pk"} |-> 0]
NoDatabases == [l \in Lists |-> EmptyDatabase]

InputInit ==
  /\ TokenInit
  /\ file = [exists |-> FALSE, tables |-> 0, ids |-> <<>>]
  /\ pc = "idle" /\ job \in Jobs /\ todo = <<>> /\ read = 0
  /\ tok = NoTokens /\ dbs = NoDatabases
  /\ outcome = "none" /\ jobs = 0

Start(j) ==
  /\ pc = "idle" /\ jobs < MaxJobs
  /\ job' = j /\ todo' = execute(j) /\ jobs' = jobs + 1
  /\ outcome' = "none"
  /\ UNCHANGED <<tokenVars, read, tok, dbs>>

\* read_pipeline_id(): the only row of the table, which must be there.
read_pipeline_id == IF file.tables > 0 /\ Len(file.ids) = 1 THEN file.ids[1] ELSE None

\* Mutated form: whose the database is does not matter.
attachAny(j) ==
  /\ file.exists /\ read_pipeline_id # None
  /\ Start(j) /\ pc' = "execute" /\ UNCHANGED file

attach(j) ==
  /\ file.exists /\ read_pipeline_id = j.pipeline
  /\ Start(j) /\ pc' = "execute" /\ UNCHANGED file

create(j) ==
  /\ ~file.exists
  /\ Start(j) /\ pc' = "create" /\ file' = [file EXCEPT !.exists = TRUE]

\* create_tables(), a statement at a time: the pipeline id's table is the first.
create_table ==
  /\ pc = "create" /\ file.tables < 1 + Statements
  /\ file' = [file EXCEPT !.tables = @ + 1]
  /\ UNCHANGED <<tokenVars, pc, job, todo, read, tok, dbs, outcome, jobs>>

\* Mutated form: the id is written as soon as it has its table.
write_pipeline_idFirst ==
  /\ pc = "create" /\ file.tables > 0
  /\ file' = [file EXCEPT !.ids = <<job.pipeline>>]
  /\ pc' = IF file.tables = 1 + Statements THEN "execute" ELSE pc
  /\ UNCHANGED <<tokenVars, job, todo, read, tok, dbs, outcome, jobs>>

write_pipeline_id ==
  /\ pc = "create" /\ file.tables = 1 + Statements
  /\ file' = [file EXCEPT !.ids = Append(@, job.pipeline)]
  /\ pc' = "execute"
  /\ UNCHANGED <<tokenVars, job, todo, read, tok, dbs, outcome, jobs>>

\* The constructor throws, and the job ends before it has begun.
turn_away(j) ==
  /\ file.exists /\ read_pipeline_id # j.pipeline
  /\ pc = "idle" /\ jobs < MaxJobs
  /\ jobs' = jobs + 1 /\ outcome' = "turned_away"
  /\ UNCHANGED <<tokenVars, file, pc, job, todo, read, tok, dbs>>

------------------------------------------------------------------------------
(* The requests.                                                           *)

Asking(kinds) == pc = "execute" /\ todo # <<>> /\ request.kind \in kinds

Advance(n) == todo' = SubSeq(todo, n + 1, Len(todo)) /\ read' = 0

Answered ==
  IF read + 1 < Len(request.values) THEN todo' = todo /\ read' = read + 1 ELSE Advance(1)

\* The next value of the request is tokenized and recorded.
Ask ==
  /\ Asking({"database", "token"}) /\ request.values # <<>>
  /\ LET v    == asked
         last == ~request.together \/ read + 1 = Len(request.values)
         into == request.into
     IN  \E id \in lookup_or_insert(request.table, v) :
           /\ tokenize(request.table, v, id, last)
           /\ IF request.kind = "token"
              THEN tok' = [tok EXCEPT ![into] = id] /\ dbs' = dbs
              ELSE /\ tok' = tok
                   /\ dbs' = [dbs EXCEPT ![into] =
                        add_record(IF read = 0 THEN EmptyDatabase ELSE @, v, id)]
  /\ Answered
  /\ UNCHANGED <<file, pc, job, outcome, jobs>>

\* No wavenumber of the power spectrum can be filtered.
AskNothing ==
  /\ Asking({"database"}) /\ request.values = <<>>
  /\ Advance(1) /\ dbs' = [dbs EXCEPT ![request.into] = EmptyDatabase]
  /\ UNCHANGED <<tokenVars, file, pc, job, tok, outcome, jobs>>

------------------------------------------------------------------------------
(* Ends.                                                                   *)

\* Mutated form: what a dying process has not committed is committed.
EndCommits(how) ==
  /\ pc' = "idle" /\ outcome' = how
  /\ committed' = tokens /\ held' = [t \in TokenTables |-> {}] /\ UNCHANGED <<tokens, given>>
  /\ todo' = <<>> /\ read' = 0 /\ tok' = NoTokens /\ dbs' = NoDatabases
  /\ UNCHANGED <<file, job, jobs>>

End(how) ==
  /\ pc' = "idle" /\ outcome' = how /\ Forget
  /\ todo' = <<>> /\ read' = 0 /\ tok' = NoTokens /\ dbs' = NoDatabases
  /\ UNCHANGED <<file, job, jobs>>

\* A query throws, or the assert in add_record() fails.
Fail ==
  /\ Asking({"database", "token"}) /\ request.values # <<>>
  /\ LET v == asked
     IN  \/ Refused(request.table, v) /\ End("refused")
         \/ /\ request.kind = "database" /\ read > 0
            /\ ~Emplaced(dbs[request.into], v)
            /\ End("asserted")

Killed == pc # "idle" /\ End("killed")

Done == pc = "execute" /\ todo = <<>> /\ End("done")
==============================================================================
