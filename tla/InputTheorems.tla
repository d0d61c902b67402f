---------------------------- MODULE InputTheorems ----------------------------
(***************************************************************************)
(* What holds of a database file for any jobs, wherever they are killed:   *)
(* only a complete one can be attached to, and one pipeline fills it; the  *)
(* tokens its jobs are given are those of the values they asked for.       *)
(***************************************************************************)
EXTENDS InputProperties, TokenTheorems, SequenceTheorems

Pipelines == {j.pipeline : j \in Jobs}

\* The file is empty of identities or complete with one, which is that of the
\* job that runs and of every row.
FileInv ==
  /\ file \in [exists : BOOLEAN, tables : Nat, ids : Seq(Pipelines)]
  /\ job \in Jobs /\ pc \in {"idle", "create", "execute"}
  /\ file.ids # <<>> =>
       file.exists /\ file.tables = 1 + Statements /\ Len(file.ids) = 1
  /\ pc = "create" => file.exists /\ file.ids = <<>>
  /\ pc = "execute" => file.ids = <<job.pipeline>>
  /\ \A r \in D \cup f : file.ids = <<r.value.pipeline>>

------------------------------------------------------------------------------
\* There is no file at first.
LEMMA InitFile == Init => FileInv
<1> SUFFICES ASSUME Init PROVE FileInv
  OBVIOUS
<1>1. /\ file = [exists |-> FALSE, tables |-> 0, ids |-> <<>>]
      /\ pc = "idle" /\ job \in Jobs /\ D \cup f = {}
  BY DEF Init, InputInit, GrowthInit
<1>2. <<>> \in Seq(Pipelines)
  OBVIOUS
<1>3. file \in [exists : BOOLEAN, tables : Nat, ids : Seq(Pipelines)] /\ file.ids = <<>>
  BY <1>1, <1>2
<1> QED
  BY <1>1, <1>3 DEF FileInv

\* An action that leaves the file alone, and goes on or ends.
LEMMA SameFile ==
  ASSUME FileInv, file' = file, job' = job, pc' = pc \/ pc' = "idle",
         \A r \in D' \cup f' : r \in D \cup f \/ (pc = "execute" /\ r.value.pipeline = job.pipeline)
  PROVE  FileInv'
  BY DEF FileInv

\* Opening or creating the database.
LEMMA OpenStep ==
  ASSUME FileInv, NEW j \in Jobs, attach(j) \/ create(j) \/ turn_away(j), UNCHANGED <<D, f>>
  PROVE  FileInv'
<1>1. CASE attach(j)
  <2>1. /\ file' = file /\ job' = j /\ pc' = "execute"
        /\ file.tables > 0 /\ Len(file.ids) = 1 /\ file.ids[1] = j.pipeline
    BY <1>1, PipelineAssumption DEF attach, Start, read_pipeline_id
  <2>2. file.ids = <<j.pipeline>>
    BY <2>1 DEF FileInv
  <2> QED
    BY <2>1, <2>2 DEF FileInv
<1>2. CASE create(j)
  <2>1. /\ file.ids = <<>> /\ file' = [file EXCEPT !.exists = TRUE]
        /\ job' = j /\ pc' = "create"
    BY <1>2 DEF create, Start, FileInv
  <2>2. D \cup f = {}
    BY <2>1 DEF FileInv
  <2> QED
    BY <2>1, <2>2 DEF FileInv
<1>3. CASE turn_away(j)
  BY <1>3 DEF turn_away, FileInv
<1> QED
  BY <1>1, <1>2, <1>3

\* Creating the tables, and writing the identity when all are there.
LEMMA CreateStep ==
  ASSUME FileInv, create_table \/ write_pipeline_id, UNCHANGED <<D, f>>
  PROVE  FileInv'
<1>1. D \cup f = {}
  BY DEF FileInv, create_table, write_pipeline_id
<1>2. CASE create_table
  <2>1. /\ file' = [file EXCEPT !.tables = @ + 1] /\ UNCHANGED <<job, pc>> /\ pc = "create"
    BY <1>2 DEF create_table
  <2>2. /\ file'.ids = <<>> /\ file'.exists
        /\ file' \in [exists : BOOLEAN, tables : Nat, ids : Seq(Pipelines)]
    BY <2>1 DEF FileInv
  <2> QED
    BY <1>1, <2>1, <2>2 DEF FileInv
<1>3. CASE write_pipeline_id
  <2>1. /\ file' = [file EXCEPT !.ids = Append(@, job.pipeline)] /\ job' = job
        /\ pc = "create" /\ pc' = "execute" /\ file.tables = 1 + Statements
    BY <1>3 DEF write_pipeline_id
  <2>2. file.ids = <<>>
    BY <2>1 DEF FileInv
  <2>3. /\ <<job.pipeline>> \in Seq(Pipelines) /\ Len(<<job.pipeline>>) = 1
        /\ Append(<<>>, job.pipeline) = <<job.pipeline>>
    BY DEF FileInv, Pipelines
  <2>4. /\ file'.ids = <<job.pipeline>> /\ file'.tables = file.tables
        /\ file'.exists = file.exists
        /\ file' \in [exists : BOOLEAN, tables : Nat, ids : Seq(Pipelines)]
    BY <2>1, <2>2, <2>3 DEF FileInv
  <2> QED
    BY <1>1, <2>1, <2>3, <2>4 DEF FileInv
<1> QED
  BY <1>2, <1>3

\* Requests, and ends.
LEMMA RequestStep ==
  ASSUME FileInv, Ask \/ AskNothing \/ Fail \/ Killed \/ Done, UNCHANGED <<D, f>>
  PROVE  FileInv'
<1>1. file' = file /\ job' = job /\ (pc' = pc \/ pc' = "idle")
  BY DEF Ask, AskNothing, Fail, Killed, Done, End
<1>2. \A r \in D' \cup f' : r \in D \cup f \/ (pc = "execute" /\ r.value.pipeline = job.pipeline)
  OBVIOUS
<1> QED
  BY <1>1, <1>2, SameFile

\* The rows stored are the job's.
LEMMA StoreStep == ASSUME FileInv, store PROVE FileInv'
<1> DEFINE c == integrate(work, job.growth)
           entries == ToSet(oneloop_values(c))
           row(v, value) == [mid |-> tok["FRW_model"], params |-> v.params,
                             zid |-> v.z.id, value |-> value]
<1>1. /\ pc = "execute" /\ file' = file /\ job' = job /\ pc' = pc
      /\ D' = D \cup {row(v, v.value.D) : v \in entries}
      /\ f' = f \cup {row(v, v.value.f) : v \in entries}
  BY DEF store, Asking
<1>2. ASSUME NEW v \in entries
      PROVE  v.value.D.pipeline = job.pipeline /\ v.value.f.pipeline = job.pipeline
  <2>1. /\ c.z_db = work /\ DOMAIN c.values = DOMAIN reverse_records(work)
        /\ \A i \in DOMAIN c.values :
             c.values[i].D.pipeline = job.pipeline /\ c.values[i].f.pipeline = job.pipeline
    BY DEF integrate, Container, reverse_records
  <2> HIDE DEF c
  <2>2. PICK i \in DOMAIN oneloop_values(c) : v = oneloop_values(c)[i]
    BY DEF ToSet
  <2>3. /\ i \in DOMAIN c.values
        /\ v = dereference(c, increments(begin, i - 1), [D |-> None, f |-> None])
    BY <2>1, <2>2 DEF oneloop_values
  <2>4. increments(begin, i - 1).D = i /\ increments(begin, i - 1).f = i
    <3>1. i \in Nat
      BY <2>1, <2>3 DEF reverse_records, Reverse
    <3> QED
      BY <3>1 DEF increments, begin
  <2>5. v.value.D = c.values[i].D /\ v.value.f = c.values[i].f
    BY <2>3, <2>4 DEF dereference, element
  <2> QED
    BY <2>1, <2>3, <2>5
<1> HIDE DEF entries
<1>3. \A r \in D' \cup f' : r \in D \cup f \/ (pc = "execute" /\ r.value.pipeline = job.pipeline)
  BY <1>1, <1>2
<1> QED
  BY <1>1, <1>3, SameFile

\* The other steps of the growth factors add no rows.
LEMMA GrowthStep ==
  ASSUME FileInv,
         \/ build_loop_growth_work_list \/ setup_growth_write
         \/ finalize_growth_write \/ rescale_final_Pk \/ Edit
  PROVE  FileInv'
<1>1. file' = file /\ job' = job /\ (pc' = pc \/ pc' = "idle")
  BY DEF build_loop_growth_work_list, setup_growth_write, finalize_growth_write,
         rescale_final_Pk, Edit, End, inputVars
<1>2. D' \subseteq D /\ f' \subseteq f
  BY DEF build_loop_growth_work_list, setup_growth_write, finalize_growth_write,
         rescale_final_Pk, Edit, drop_inconsistent_redshifts
<1>3. \A r \in D' \cup f' : r \in D \cup f \/ (pc = "execute" /\ r.value.pipeline = job.pipeline)
  BY <1>2
<1> QED
  BY <1>1, <1>3, SameFile

------------------------------------------------------------------------------
\* The invariant of every behaviour.
THEOREM FileInvariant == Spec => []FileInv
<1>1. FileInv /\ [Next]_vars => FileInv'
  <2> SUFFICES ASSUME FileInv, [Next]_vars PROVE FileInv'
    OBVIOUS
  <2>1. CASE UNCHANGED vars
    BY <2>1 DEF vars, inputVars, growthVars, FileInv
  <2>2. CASE InputNext /\ Forgotten /\ UNCHANGED <<D, f, indexes, edits>>
    BY <2>2, OpenStep, CreateStep, RequestStep DEF InputNext
  <2>3. CASE store
    BY <2>3, StoreStep
  <2>4. CASE \/ build_loop_growth_work_list \/ setup_growth_write
             \/ finalize_growth_write \/ rescale_final_Pk \/ Edit
    BY <2>4, GrowthStep
  <2> QED
    BY <2>1, <2>2, <2>3, <2>4 DEF Next
<1> QED
  BY <1>1, InitFile, PTL DEF Spec

(***************************************************************************)
(* A database that the next job would accept is complete.                  *)
(***************************************************************************)
THEOREM UsableDatabases == Spec => []UsableIsComplete
<1>1. FileInv => UsableIsComplete
  BY DEF FileInv, UsableIsComplete, read_pipeline_id
<1> QED
  BY <1>1, FileInvariant, PTL

(***************************************************************************)
(* All results in a database come from the pipeline that created it.       *)
(***************************************************************************)
THEOREM OnePipelineEach == Spec => []OnePipeline
<1>1. FileInv => OnePipeline
  BY DEF FileInv, OnePipeline
<1> QED
  BY <1>1, FileInvariant, PTL

------------------------------------------------------------------------------
(* The requests of a job.                                                  *)

\* The number of requests dealt with.
Dealt == Len(execute(job)) - Len(todo)

\* A power spectrum may be asked for, whatever the token of its model.
Known(v) ==
  \A m \in 0 .. MaxJobs - 1 : [path |-> v.path, md5 |-> v.md5, model |-> m] \in Spectra

\* What may be asked for after the growth factors.
LateRequest(q) ==
  \/ /\ q.kind = "token" /\ q.table = "linear_Pk" /\ q.into = "linear_Pk"
     /\ q.together = TRUE /\ Len(q.values) = 1 /\ Known(q.values[1])
  \/ /\ q.kind = "database" /\ q.table = "k" /\ q.into = "Pk_k"
     /\ q.together = TRUE /\ q.values \in Seq(Wavenumbers)
  \/ q.kind = "rescale" /\ q.values = <<>>

\* The first m of two sequences are the same.
SameFirst(s, t, m) == \A n \in 1 .. m : s[n] = t[n]

\* All but the first m of some requests are late ones.
LateBeyond(s, m) == \A n \in 1 .. Len(s) : n <= m \/ LateRequest(s[n])

Requests(j) ==
  {preparation(j)[n] : n \in 1 .. 14} \cup {power_spectrum(j.init)[n] : n \in 1 .. 3}
    \cup {power_spectrum(j.final)[n] : n \in 1 .. 3} \cup {step("rescale", <<>>)}

LEMMA PreparationSeq ==
  ASSUME NEW j
  PROVE  preparation(j) \in Seq(Requests(j)) /\ Len(preparation(j)) = 14
<1>1. Len(preparation(j)) = 14
  BY DEF preparation
<1>2. preparation(j) = [n \in 1 .. 14 |-> preparation(j)[n]]
  BY DEF preparation
<1> QED
  BY <1>1, <1>2 DEF Requests

LEMMA SpectrumSeq ==
  ASSUME NEW j \in Jobs, NEW Pk \in {j.init, j.final}
  PROVE  /\ power_spectrum(Pk) \in Seq(Requests(j)) /\ Len(power_spectrum(Pk)) = 3
         /\ Pk # None => \A n \in 1 .. 3 : LateRequest(power_spectrum(Pk)[n])
<1> DEFINE a == parameters("linear_Pk", linear_Pk(Pk))
           b == build_k_db(Pk)
<1>1. Pk # None => LateRequest(a)
  BY LabelsAssumption DEF LateRequest, parameters, Known, linear_Pk
<1>2. Pk # None => LateRequest(b)
  BY SamplesAssumption DEF LateRequest, build_k_db
<1>3. power_spectrum(Pk) = <<a, b, b>>
  BY DEF power_spectrum
<1> HIDE DEF a, b
<1>4. /\ Len(power_spectrum(Pk)) = 3
      /\ power_spectrum(Pk) = [n \in 1 .. 3 |-> power_spectrum(Pk)[n]]
  BY <1>3
<1>5. power_spectrum(Pk) \in Seq(Requests(j))
  BY <1>4 DEF Requests
<1>6. \A n \in 1 .. 3 : power_spectrum(Pk)[n] \in {a, b}
  BY <1>3
<1> QED
  BY <1>1, <1>2, <1>4, <1>5, <1>6

\* The elements of two sequences, one behind the other.
LEMMA Joined ==
  ASSUME NEW S, NEW s \in Seq(S), NEW t \in Seq(S), NEW u, u = s \o t
  PROVE  /\ u \in Seq(S) /\ Len(s) \in Nat /\ Len(t) \in Nat
         /\ Len(u) = Len(s) + Len(t)
         /\ \A n \in 1 .. Len(u) : \/ n \in 1 .. Len(s) /\ u[n] = s[n]
                                   \/ n - Len(s) \in 1 .. Len(t) /\ u[n] = t[n - Len(s)]
         /\ \A n \in 1 .. Len(s) : u[n] = s[n]
<1>1. Len(s) \in Nat /\ Len(t) \in Nat
  OBVIOUS
<1>2. /\ u \in Seq(S) /\ Len(u) = Len(s) + Len(t)
      /\ \A n \in 1 .. Len(s) + Len(t) :
           u[n] = IF n <= Len(s) THEN s[n] ELSE t[n - Len(s)]
  BY ConcatProperties, Zenon
<1> QED
  BY <1>1, <1>2

\* Late requests behind whatever there is.
LEMMA LateJoined ==
  ASSUME NEW S, NEW s \in Seq(S), NEW t \in Seq(S), NEW m \in Nat, NEW u, u = s \o t,
         Len(s) >= m, LateBeyond(s, m), LateBeyond(t, 0)
  PROVE  /\ u \in Seq(S) /\ Len(u) \in Nat /\ Len(u) >= m /\ LateBeyond(u, m)
         /\ SameFirst(u, s, m)
<1>1. /\ u \in Seq(S) /\ Len(s) \in Nat /\ Len(t) \in Nat
      /\ Len(u) = Len(s) + Len(t)
      /\ \A n \in 1 .. Len(u) : \/ n \in 1 .. Len(s) /\ u[n] = s[n]
                                \/ n - Len(s) \in 1 .. Len(t) /\ u[n] = t[n - Len(s)]
      /\ \A n \in 1 .. Len(s) : u[n] = s[n]
  BY Joined
<1>2. \A n \in 1 .. Len(u) : n <= m \/ LateRequest(u[n])
  BY <1>1 DEF LateBeyond
<1> QED
  BY <1>1, <1>2 DEF LateBeyond, SameFirst

\* The requests of a job: the preparation, and late ones behind it.
LEMMA ExecuteShape ==
  ASSUME NEW j \in Jobs
  PROVE  /\ execute(j) \in Seq(Requests(j)) /\ Len(execute(j)) \in Nat
         /\ Len(execute(j)) >= 14 /\ LateBeyond(execute(j), 14)
         /\ \A n \in 1 .. 14 : execute(j)[n] = preparation(j)[n]
<1>1. PICK S : S = Requests(j)
  OBVIOUS
<1>2. PICK m \in Nat : m = 14
  OBVIOUS
<1>3. PICK p : p = preparation(j)
  OBVIOUS
<1>4. p \in Seq(S) /\ Len(p) >= m /\ LateBeyond(p, m)
  <2>1. p \in Seq(S) /\ Len(p) = m
    BY <1>1, <1>2, <1>3, PreparationSeq
  <2>2. \A n \in 1 .. Len(p) : n <= m
    BY <1>2, <2>1
  <2> QED
    BY <1>2, <2>1, <2>2 DEF LateBeyond
<1>5. PICK a : a = IF j.init = None THEN <<>> ELSE power_spectrum(j.init)
  OBVIOUS
<1>6. a \in Seq(S) /\ LateBeyond(a, 0)
  BY <1>1, <1>5, SpectrumSeq DEF LateBeyond
<1>7. PICK r : r = <<step("rescale", <<>>)>>
  OBVIOUS
<1>8. r \in Seq(S) /\ LateBeyond(r, 0)
  BY <1>1, <1>7 DEF Requests, LateBeyond, LateRequest, step
<1>9. PICK q : q = power_spectrum(j.final)
  OBVIOUS
<1>10. q \in Seq(S) /\ Len(q) >= 0 /\ (j.final # None => LateBeyond(q, 0))
  BY <1>1, <1>9, SpectrumSeq DEF LateBeyond
<1>11. PICK qr : qr = q \o r
  OBVIOUS
<1>12. j.final # None => qr \in Seq(S) /\ LateBeyond(qr, 0)
  BY <1>8, <1>10, <1>11, LateJoined
<1>13. PICK b : b = IF j.init = None \/ j.final = None THEN <<>> ELSE qr
  OBVIOUS
<1>14. b \in Seq(S) /\ LateBeyond(b, 0)
  <2>1. LateBeyond(<<>>, 0)
    BY DEF LateBeyond
  <2> QED
    BY <1>12, <1>13, <2>1
<1>15. PICK pa : pa = p \o a
  OBVIOUS
<1>16. /\ pa \in Seq(S) /\ Len(pa) \in Nat /\ Len(pa) >= m /\ LateBeyond(pa, m)
       /\ SameFirst(pa, p, m)
  BY <1>4, <1>6, <1>15, LateJoined
<1>17. PICK e : e = pa \o b
  OBVIOUS
<1>18. /\ e \in Seq(S) /\ Len(e) \in Nat /\ Len(e) >= m /\ LateBeyond(e, m)
       /\ SameFirst(e, pa, m)
  BY <1>14, <1>16, <1>17, LateJoined
<1>19. execute(j) = e
  BY <1>3, <1>5, <1>7, <1>9, <1>11, <1>13, <1>15, <1>17 DEF execute
<1> QED
  BY <1>1, <1>2, <1>3, <1>16, <1>18, <1>19 DEF SameFirst

\* What the first fourteen requests are.
EarlyRequest(j, n, q) ==
  /\ n = 1 => q = parameters("FRW_model", j.model)
  /\ n = 2 => q = build_redshift_db(j.z)
  /\ n \in 3 .. 6 => /\ q.kind = "database" /\ q.table = q.into /\ q.together = FALSE
                       /\ q.into \in {"UV_cutoff", "IR_cutoff", "IR_resum", "k"}
                       /\ q.values \in Seq(Wavenumbers)
  /\ n = 8 => q = parameters("growth", j.growth)
  /\ n \in {7, 9, 10} => /\ q.kind = "token" /\ q.table = q.into /\ q.together = TRUE
                           /\ q.into \in {"filter", "MatsubaraXY", "loop"}
                           /\ Len(q.values) = 1 /\ q.values[1] \in Blocks
  /\ n = 11 => q.kind = "growth_list" /\ q.values = <<>>
  /\ n = 12 => q.kind = "growth_setup" /\ q.values = <<"D", "f">>
  /\ n = 13 => q.kind = "growth_store" /\ q.values = <<>>
  /\ n = 14 => q.kind = "growth_finalize" /\ q.values = <<"D", "f">>

LEMMA PreparationFacts ==
  ASSUME NEW j \in Jobs, NEW n \in 1 .. 14
  PROVE  EarlyRequest(j, n, preparation(j)[n])
<1> DEFINE p == preparation(j)
<1>1. p[1] = parameters("FRW_model", j.model) /\ p[2] = build_redshift_db(j.z)
  BY DEF preparation
<1>2. /\ p[3] = build_wavenumber_db("UV_cutoff", j.UV_cutoffs)
      /\ p[4] = build_wavenumber_db("IR_cutoff", j.IR_cutoffs)
      /\ p[5] = build_wavenumber_db("IR_resum", j.IR_resummation)
      /\ p[6] = build_wavenumber_db("k", j.loop_k)
  BY DEF preparation
<1>3. /\ p[7] = parameters("filter", j.filter) /\ p[8] = parameters("growth", j.growth)
      /\ p[9] = parameters("MatsubaraXY", j.XY) /\ p[10] = parameters("loop", j.loop)
  BY DEF preparation
<1>4. /\ p[11] = step("growth_list", <<>>) /\ p[12] = step("growth_setup", <<"D", "f">>)
      /\ p[13] = step("growth_store", <<>>) /\ p[14] = step("growth_finalize", <<"D", "f">>)
  BY DEF preparation
<1> HIDE DEF p
<1>5. CASE n \in {1, 2, 8}
  BY <1>1, <1>3, <1>5 DEF EarlyRequest, p
<1>6. CASE n \in 3 .. 6
  <2>1. \E t \in {"UV_cutoff", "IR_cutoff", "IR_resum", "k"},
           r \in {j.UV_cutoffs, j.IR_cutoffs, j.IR_resummation, j.loop_k} :
          p[n] = build_wavenumber_db(t, r)
    BY <1>2, <1>6
  <2> QED
    BY <1>6, <2>1, SamplesAssumption DEF EarlyRequest, build_wavenumber_db, p
<1>7. CASE n \in {7, 9, 10}
  <2>1. \E t \in {"filter", "MatsubaraXY", "loop"} : \E v \in Blocks : p[n] = parameters(t, v)
    BY <1>3, <1>7, LabelsAssumption
  <2> QED
    BY <1>7, <2>1 DEF EarlyRequest, parameters, p
<1>8. CASE n \in 11 .. 14
  BY <1>4, <1>8 DEF EarlyRequest, step, p
<1> QED
  BY <1>5, <1>6, <1>7, <1>8

------------------------------------------------------------------------------
\* The requests that are left are the last ones, and of the first of them
\* values are left.
Progress ==
  /\ job \in Jobs /\ pc \in {"idle", "create", "execute"} /\ read \in Nat
  /\ Dealt \in 0 .. Len(execute(job))
  /\ todo = SubSeq(execute(job), Dealt + 1, Len(execute(job)))
  /\ pc = "idle" => todo = <<>>
  /\ pc = "create" => Dealt = 0
  /\ read # 0 => todo # <<>> /\ read < Len(request.values)

\* The first of the requests left.
LEMMA RequestAt ==
  ASSUME Progress, todo # <<>>
  PROVE  /\ Len(execute(job)) \in Nat /\ Dealt \in Nat /\ Dealt < Len(execute(job))
         /\ Len(execute(job)) >= 14
         /\ request = execute(job)[Dealt + 1]
         /\ Dealt <= 13 => EarlyRequest(job, Dealt + 1, request)
         /\ Dealt >= 14 => LateRequest(request)
<1>1. PICK e : e = execute(job)
  OBVIOUS
<1>2. PICK S : S = Requests(job)
  OBVIOUS
<1>3. /\ e \in Seq(S) /\ Len(e) \in Nat /\ Len(e) >= 14
      /\ \A n \in 1 .. 14 : e[n] = preparation(job)[n]
      /\ \A n \in 1 .. Len(e) : n <= 14 \/ LateRequest(e[n])
  BY <1>1, <1>2, ExecuteShape DEF Progress, LateBeyond
<1>4. PICK d : d = Dealt
  OBVIOUS
<1>5. d \in 0 .. Len(e) /\ todo = SubSeq(e, d + 1, Len(e))
  BY <1>1, <1>4 DEF Progress
<1>6. d \in Nat /\ d < Len(e)
  BY <1>3, <1>5
<1>7. PICK q : q = request
  OBVIOUS
<1>8. PICK n : n = d + 1
  OBVIOUS
<1>9. n \in 1 .. Len(e) /\ q = e[n]
  <2>1. n \in Nat /\ n >= 1 /\ n <= Len(e) /\ todo = SubSeq(e, n, Len(e))
    BY <1>3, <1>5, <1>6, <1>8
  <2> QED
    BY <1>3, <1>7, <2>1 DEF request
<1>10. n \in 1 .. 14 => EarlyRequest(job, n, q)
  BY <1>3, <1>9, PreparationFacts DEF Progress
<1>11. n > 14 => LateRequest(q)
  BY <1>3, <1>9
<1>12. d <= 13 => EarlyRequest(job, n, q)
  BY <1>6, <1>8, <1>10
<1>13. d >= 14 => LateRequest(q)
  BY <1>6, <1>8, <1>11
<1>14. Len(e) \in Nat /\ Len(e) >= 14 /\ d \in Nat /\ d < Len(e) /\ q = e[n]
  BY <1>3, <1>6, <1>9
<1> QED
  BY <1>1, <1>4, <1>7, <1>8, <1>12, <1>13, <1>14

\* Requests for tokens, indexes, and others, which have no values.
LEMMA KindsOfRequests ==
  ASSUME NEW j, NEW n \in Nat, NEW q, n <= 13 => EarlyRequest(j, n + 1, q), n >= 14 => LateRequest(q)
  PROVE  \/ q.kind \in {"database", "token", "growth_setup", "growth_finalize"}
         \/ q.values = <<>>
<1>1. CASE n >= 14
  BY <1>1 DEF LateRequest
<1>2. CASE n <= 13
  <2>1. n + 1 \in {1, 2, 8} \cup 3 .. 6 \cup {7, 9, 10, 11, 12, 13, 14}
    BY <1>2
  <2> QED
    BY <1>2, <2>1 DEF EarlyRequest, parameters, build_redshift_db
<1> QED
  BY <1>1, <1>2

\* What its kind says of a request.
LEMMA RequestKinds ==
  ASSUME Progress, todo # <<>>
  PROVE  /\ request.kind = "growth_list" => Dealt = 10
         /\ request.kind = "growth_setup" => Dealt = 11 /\ request.values = <<"D", "f">>
         /\ request.kind = "growth_store" => Dealt = 12
         /\ request.kind = "growth_finalize" => Dealt = 13 /\ request.values = <<"D", "f">>
         /\ request.kind = "rescale" => Dealt >= 14
         /\ request.kind \in {"database", "token"} => Dealt <= 9 \/ Dealt >= 14
<1>1. /\ Dealt \in Nat
      /\ Dealt <= 13 => EarlyRequest(job, Dealt + 1, request)
      /\ Dealt >= 14 => LateRequest(request)
  BY RequestAt
<1>2. PICK n : n = Dealt + 1
  OBVIOUS
<1>3. CASE Dealt >= 14
  BY <1>1, <1>3 DEF LateRequest
<1>4. CASE Dealt <= 13
  <2>1. n \in 1 .. 14 /\ EarlyRequest(job, n, request)
    BY <1>1, <1>2, <1>4
  <2>2. n \in {1, 2} \cup 3 .. 6 \cup {7, 8, 9, 10, 11, 12, 13, 14}
    BY <2>1
  <2>3. n \in {1, 2, 8} => request.kind \in {"database", "token"}
    BY <2>1 DEF EarlyRequest, parameters, build_redshift_db
  <2>4. /\ n \in {1, 2} \cup 3 .. 6 \cup {7, 8, 9, 10} => request.kind \in {"database", "token"}
        /\ n = 11 => request.kind = "growth_list"
        /\ n = 12 => request.kind = "growth_setup" /\ request.values = <<"D", "f">>
        /\ n = 13 => request.kind = "growth_store"
        /\ n = 14 => request.kind = "growth_finalize" /\ request.values = <<"D", "f">>
    BY <2>1, <2>3 DEF EarlyRequest
  <2> HIDE DEF Dealt
  <2>5. Dealt = n - 1
    BY <1>1, <1>2
  <2> QED
    BY <2>2, <2>4, <2>5
<1> QED
  BY <1>1, <1>3, <1>4

\* A request for tokens, of one value or of a list.
TokenRequest(q) ==
  /\ q.kind = "token" /\ q.table = q.into /\ q.together = TRUE /\ Len(q.values) = 1
  /\ q.table \in Params \cup {"linear_Pk"}
  /\ q.table \in Params => q.values[1] \in Blocks
  /\ q.table = "linear_Pk" => Known(q.values[1])

DatabaseRequest(q) ==
  /\ q.kind = "database" /\ q.together \in BOOLEAN /\ q.into \in Lists
  /\ q.table = IF q.into = "Pk_k" THEN "k" ELSE q.into
  /\ q.into = "z" => q.together = FALSE /\ q.values \in Seq(Redshifts)
  /\ q.into # "z" => q.values \in Seq(Wavenumbers)

\* What a request for tokens asks.
LEMMA AskedRequest ==
  ASSUME Progress, todo # <<>>, request.kind \in {"database", "token"}
  PROVE  /\ TokenRequest(request) \/ DatabaseRequest(request)
         /\ Dealt = 0 <=> request.into = "FRW_model"
         /\ Dealt = 1 <=> request.into = "z"
         /\ Dealt = 7 <=> request.into = "growth"
         /\ Dealt = 7 => request.values = <<job.growth>>
         /\ request.table = "linear_Pk" => Dealt >= 14
<1>1. /\ Dealt \in Nat
      /\ Dealt <= 13 => EarlyRequest(job, Dealt + 1, request)
      /\ Dealt >= 14 => LateRequest(request)
      /\ Dealt <= 9 \/ Dealt >= 14
  BY RequestAt, RequestKinds
<1>2. PICK n : n = Dealt + 1
  OBVIOUS
<1>3. PICK q : q = request
  OBVIOUS
<1>4. n \in Nat /\ Dealt = n - 1 /\ (n \in 1 .. 10 \/ n >= 15)
  BY <1>1, <1>2
<1>5. (n \in 1 .. 10 => EarlyRequest(job, n, q)) /\ (n >= 15 => LateRequest(q))
  BY <1>1, <1>2, <1>3
<1>6. /\ TokenRequest(q) \/ DatabaseRequest(q)
      /\ n = 1 <=> q.into = "FRW_model"
      /\ n = 2 <=> q.into = "z"
      /\ n = 8 <=> q.into = "growth"
      /\ n = 8 => q.values = <<job.growth>>
      /\ q.table = "linear_Pk" => n >= 15
  <2>1. CASE n >= 15
    <3>1. q.kind \in {"database", "token"} /\ LateRequest(q)
      BY <1>3, <1>5, <2>1
    <3>2. TokenRequest(q) \/ DatabaseRequest(q)
      BY <3>1 DEF LateRequest, TokenRequest, DatabaseRequest, Lists, Params
    <3>3. q.into \in {"linear_Pk", "Pk_k"}
      BY <3>1 DEF LateRequest
    <3> QED
      BY <2>1, <3>2, <3>3
  <2>2. CASE n = 1
    BY <1>5, <2>2, LabelsAssumption DEF EarlyRequest, parameters, TokenRequest, Params, Progress
  <2>3. CASE n = 2
    <3>1. aggregation_range(job.z) \in Seq(Redshifts)
      BY SamplesAssumption DEF Progress
    <3>2. q = build_redshift_db(job.z)
      BY <1>5, <2>3 DEF EarlyRequest
    <3> QED
      BY <2>3, <3>1, <3>2 DEF build_redshift_db, DatabaseRequest, Lists
  <2>4. CASE n = 8
    BY <1>5, <2>4, LabelsAssumption DEF EarlyRequest, parameters, TokenRequest, Params, Progress
  <2>5. CASE n \in 3 .. 6
    <3>1. /\ q.kind = "database" /\ q.table = q.into /\ q.together = FALSE
          /\ q.into \in {"UV_cutoff", "IR_cutoff", "IR_resum", "k"}
          /\ q.values \in Seq(Wavenumbers)
      BY <1>5, <2>5 DEF EarlyRequest
    <3>2. DatabaseRequest(q)
      BY <3>1 DEF DatabaseRequest, Lists
    <3> QED
      BY <2>5, <3>1, <3>2
  <2>6. CASE n \in {7, 9, 10}
    BY <1>5, <2>6 DEF EarlyRequest, TokenRequest, Params
  <2> QED
    BY <1>4, <2>1, <2>2, <2>3, <2>4, <2>5, <2>6
<1> QED
  BY <1>3, <1>4, <1>6

------------------------------------------------------------------------------
\* What is left of a sequence, shortened once more.
LEMMA ShorterYet ==
  ASSUME NEW S, NEW e \in Seq(S), NEW d \in Nat, d <= Len(e), NEW n \in Nat, n <= Len(e) - d,
         NEW t, t = SubSeq(e, d + 1, Len(e))
  PROVE  /\ Len(t) = Len(e) - d
         /\ SubSeq(t, n + 1, Len(t)) = SubSeq(e, d + n + 1, Len(e))
         /\ Len(SubSeq(t, n + 1, Len(t))) = Len(e) - (d + n)
<1>1. Len(e) \in Nat
  OBVIOUS
<1>2. t \in Seq(S) /\ Len(t) = Len(e) - d /\ \A i \in 1 .. Len(e) - d : t[i] = e[d + i]
  BY <1>1
<1>3. PICK u : u = SubSeq(t, n + 1, Len(t))
  OBVIOUS
<1>4. /\ u \in Seq(S) /\ Len(u) = Len(e) - d - n
      /\ \A i \in 1 .. Len(e) - d - n : u[i] = t[n + i]
  BY <1>1, <1>2, <1>3
<1>5. PICK v : v = SubSeq(e, d + n + 1, Len(e))
  OBVIOUS
<1>6. /\ v \in Seq(S) /\ Len(v) = Len(e) - d - n
      /\ \A i \in 1 .. Len(e) - d - n : v[i] = e[d + n + i]
  BY <1>1, <1>5
<1>7. ASSUME NEW i \in 1 .. Len(u) PROVE u[i] = v[i]
  <2>1. n + i \in 1 .. Len(e) - d /\ d + (n + i) = d + n + i
    BY <1>1, <1>4
  <2> QED
    BY <1>2, <1>4, <1>6, <2>1
<1>8. u = v
  BY <1>4, <1>6, <1>7, SeqEqual
<1>9. Len(t) = Len(e) - d
  BY <1>2
<1>10. Len(v) = Len(e) - (d + n)
  BY <1>1, <1>6
<1> QED
  BY <1>3, <1>5, <1>8, <1>9, <1>10

\* As many requests as are said are done with.
LEMMA AdvanceProgress ==
  ASSUME Progress, pc = "execute", todo # <<>>, NEW n \in Nat, n <= Len(execute(job)) - Dealt,
         Advance(n), UNCHANGED <<job, pc>>
  PROVE  Progress' /\ Dealt' = Dealt + n
<1>1. PICK e : e = execute(job)
  OBVIOUS
<1>2. PICK S : S = Requests(job)
  OBVIOUS
<1>3. PICK d : d = Dealt
  OBVIOUS
<1>4. /\ e \in Seq(S) /\ Len(e) \in Nat /\ d \in Nat /\ d <= Len(e) /\ n <= Len(e) - d
      /\ todo = SubSeq(e, d + 1, Len(e))
  BY <1>1, <1>2, <1>3, ExecuteShape DEF Progress
<1>5. /\ todo' = SubSeq(e, d + n + 1, Len(e)) /\ Len(todo') = Len(e) - (d + n)
      /\ read' = 0
  BY <1>4, ShorterYet DEF Advance
<1>6. e = execute(job')
  BY <1>1
<1>7. Dealt' = d + n
  <2>1. Dealt' = Len(e) - Len(todo')
    BY <1>6 DEF Dealt
  <2> QED
    BY ONLY <1>4, <1>5, <2>1, n \in Nat
<1> HIDE DEF Dealt
<1>8. /\ Dealt' \in 0 .. Len(execute(job'))
      /\ todo' = SubSeq(execute(job'), Dealt' + 1, Len(execute(job')))
  BY <1>4, <1>5, <1>6, <1>7
<1> QED
  BY <1>3, <1>5, <1>7, <1>8 DEF Progress

\* A value of a request is dealt with, and if it is the last, the request.
LEMMA AnsweredProgress ==
  ASSUME Progress, pc = "execute", todo # <<>>, Len(request.values) \in Nat,
         Answered, UNCHANGED <<job, pc>>
  PROVE  /\ Progress'
         /\ \/ read + 1 < Len(request.values) /\ Dealt' = Dealt /\ read' = read + 1 /\ todo' = todo
            \/ read + 1 >= Len(request.values) /\ Dealt' = Dealt + 1 /\ read' = 0
<1>1. read \in Nat
  BY DEF Progress
<1>2. CASE read + 1 < Len(request.values)
  <2>1. todo' = todo /\ read' = read + 1
    BY <1>2 DEF Answered
  <2>2. Dealt' = Dealt /\ request' = request
    BY <2>1 DEF Dealt, request
  <2> HIDE DEF Dealt
  <2> QED
    BY <1>1, <1>2, <2>1, <2>2 DEF Progress
<1>3. CASE ~(read + 1 < Len(request.values))
  <2>1. Advance(1) /\ read' = 0
    BY <1>3 DEF Answered, Advance
  <2>2. 1 \in Nat /\ 1 <= Len(execute(job)) - Dealt
    BY RequestAt
  <2>3. Progress' /\ Dealt' = Dealt + 1
    BY <2>1, <2>2, AdvanceProgress
  <2> QED
    BY <1>1, <1>3, <2>1, <2>3
<1> QED
  BY <1>2, <1>3

\* A job that ends, or that goes on without a request being dealt with.
LEMMA EndProgress ==
  ASSUME Progress, todo' = <<>>, read' = 0, pc' = "idle", job' = job
  PROVE  Progress' /\ Dealt' = Len(execute(job'))
<1>1. PICK e : e = execute(job')
  OBVIOUS
<1>2. PICK S : S = Requests(job')
  OBVIOUS
<1>3. e \in Seq(S) /\ Len(e) \in Nat
  BY <1>1, <1>2, ExecuteShape DEF Progress
<1>4. Dealt' = Len(e)
  BY <1>1, <1>3 DEF Dealt
<1>5. SubSeq(e, Len(e) + 1, Len(e)) = <<>>
  BY <1>3
<1> HIDE DEF Dealt
<1> QED
  BY <1>1, <1>3, <1>4, <1>5 DEF Progress

LEMMA SameProgress ==
  ASSUME Progress, UNCHANGED <<todo, read, job>>, pc' = pc \/ (pc = "create" /\ pc' = "execute")
  PROVE  Progress' /\ Dealt' = Dealt
<1>1. Dealt' = Dealt /\ request' = request
  BY DEF Dealt, request
<1> HIDE DEF Dealt
<1> QED
  BY <1>1 DEF Progress

\* A job begins with all its requests.
LEMMA StartProgress ==
  ASSUME Progress, NEW j \in Jobs, Start(j), pc' \in {"create", "execute"}
  PROVE  Progress' /\ Dealt' = 0
<1>1. todo' = execute(j) /\ job' = j /\ read' = 0
  BY DEF Start, Progress
<1>2. PICK S : S = Requests(j)
  OBVIOUS
<1>3. PICK e : e = execute(j)
  OBVIOUS
<1>4. e \in Seq(S) /\ Len(e) \in Nat
  BY <1>2, <1>3, ExecuteShape
<1>5. Dealt' = 0
  BY <1>1, <1>3, <1>4 DEF Dealt
<1>6. SubSeq(e, 1, Len(e)) = e
  <2>1. PICK u : u = SubSeq(e, 1, Len(e))
    OBVIOUS
  <2>2. u \in Seq(S) /\ Len(u) = Len(e) /\ \A i \in 1 .. Len(e) : u[i] = e[i]
    BY <1>4, <2>1
  <2> QED
    BY <1>4, <2>1, <2>2, SeqEqual
<1> HIDE DEF Dealt
<1> QED
  BY <1>1, <1>3, <1>4, <1>5, <1>6 DEF Progress

\* Every request has a sequence of values.
LEMMA ValuesLength ==
  ASSUME Progress, todo # <<>>
  PROVE  Len(request.values) \in Nat
<1>1. CASE request.kind \in {"database", "token"}
  <2>1. TokenRequest(request) \/ DatabaseRequest(request)
    BY <1>1, AskedRequest
  <2> QED
    BY <2>1 DEF TokenRequest, DatabaseRequest
<1>2. CASE request.kind \in {"growth_setup", "growth_finalize"}
  <2>1. request.values = <<"D", "f">>
    BY <1>2, RequestKinds
  <2> QED
    BY <2>1
<1>3. CASE request.kind \notin {"database", "token", "growth_setup", "growth_finalize"}
  <2>1. request.values = <<>>
    BY <1>3, RequestAt, KindsOfRequests
  <2> QED
    BY <2>1
<1> QED
  BY <1>1, <1>2, <1>3

LEMMA InitProgress == Init => Progress
<1> SUFFICES ASSUME Init PROVE Progress
  OBVIOUS
<1>1. job \in Jobs /\ pc = "idle" /\ todo = <<>> /\ read = 0
  BY DEF Init, InputInit
<1>2. PICK e : e = execute(job)
  OBVIOUS
<1>3. PICK S : S = Requests(job)
  OBVIOUS
<1>4. e \in Seq(S) /\ Len(e) \in Nat
  BY <1>1, <1>2, <1>3, ExecuteShape
<1>5. Dealt = Len(e)
  BY <1>1, <1>2, <1>4 DEF Dealt
<1>6. SubSeq(e, Len(e) + 1, Len(e)) = <<>>
  BY <1>4
<1> HIDE DEF Dealt
<1> QED
  BY <1>1, <1>2, <1>4, <1>5, <1>6 DEF Progress

\* Opening and creating, asking and ending.
LEMMA InputProgress == ASSUME Progress, InputNext PROVE Progress'
<1>1. CASE \E j \in Jobs : attach(j) \/ create(j)
  <2>1. PICK j \in Jobs : Start(j) /\ pc' \in {"create", "execute"}
    BY <1>1 DEF attach, create
  <2> QED
    BY <2>1, StartProgress
<1>2. CASE \/ \E j \in Jobs : turn_away(j)
           \/ create_table \/ write_pipeline_id
  <2>1. UNCHANGED <<todo, read, job>> /\ (pc' = pc \/ (pc = "create" /\ pc' = "execute"))
    BY <1>2 DEF turn_away, create_table, write_pipeline_id
  <2> QED
    BY <2>1, SameProgress
<1>3. CASE Ask
  <2>1. /\ pc = "execute" /\ todo # <<>> /\ request.kind \in {"database", "token"}
        /\ Answered /\ UNCHANGED <<job, pc>>
    BY <1>3 DEF Ask, Asking
  <2> QED
    BY <2>1, ValuesLength, AnsweredProgress
<1>4. CASE AskNothing
  <2>1. /\ pc = "execute" /\ todo # <<>> /\ Advance(1) /\ UNCHANGED <<job, pc>>
    BY <1>4 DEF AskNothing, Asking
  <2>2. 1 \in Nat /\ 1 <= Len(execute(job)) - Dealt
    BY <2>1, RequestAt
  <2> QED
    BY <2>1, <2>2, AdvanceProgress
<1>5. CASE Fail \/ Killed \/ Done
  <2>1. todo' = <<>> /\ read' = 0 /\ pc' = "idle" /\ job' = job
    BY <1>5 DEF Fail, Killed, Done, End
  <2> QED
    BY <2>1, EndProgress
<1> QED
  BY <1>1, <1>2, <1>3, <1>4, <1>5 DEF InputNext

\* The growth factors, and the power spectra behind them.
LEMMA GrowthProgress ==
  ASSUME Progress,
         \/ build_loop_growth_work_list \/ setup_growth_write \/ store
         \/ finalize_growth_write \/ rescale_final_Pk \/ Edit
  PROVE  Progress' /\ (pc' # "idle" => Dealt' \in Nat /\ Dealt' >= Dealt)
<1> HIDE DEF Dealt
<1>1. CASE build_loop_growth_work_list
  <2>1. PICK n \in {1, 4} : Advance(n) /\ UNCHANGED <<job, pc>>
    BY <1>1 DEF build_loop_growth_work_list
  <2>2. pc = "execute" /\ todo # <<>> /\ Dealt = 10
    BY <1>1, RequestKinds DEF build_loop_growth_work_list, Asking
  <2>3. n \in Nat /\ n <= Len(execute(job)) - Dealt /\ Dealt \in Nat
    BY <2>2, RequestAt
  <2> QED
    BY <2>1, <2>2, <2>3, AdvanceProgress
<1>2. CASE setup_growth_write
  <2>1. /\ pc = "execute" /\ todo # <<>> /\ request.kind = "growth_setup"
        /\ Answered /\ UNCHANGED <<job, pc>>
    BY <1>2 DEF setup_growth_write, Asking
  <2> QED
    BY <2>1, ValuesLength, AnsweredProgress, RequestAt
<1>3. CASE store
  <2>1. pc = "execute" /\ todo # <<>> /\ Advance(1) /\ UNCHANGED <<job, pc>>
    BY <1>3 DEF store, Asking
  <2>2. 1 \in Nat /\ 1 <= Len(execute(job)) - Dealt /\ Dealt \in Nat
    BY <2>1, RequestAt
  <2> QED
    BY <2>1, <2>2, AdvanceProgress
<1>4. CASE finalize_growth_write
  <2>1. /\ pc = "execute" /\ todo # <<>> /\ request.kind = "growth_finalize"
        /\ \/ Answered /\ UNCHANGED <<job, pc>>
           \/ End("index_exists")
    BY <1>4 DEF finalize_growth_write, Asking
  <2> QED
    BY <2>1, ValuesLength, AnsweredProgress, EndProgress, RequestAt DEF End
<1>5. CASE rescale_final_Pk
  <2>1. /\ pc = "execute" /\ todo # <<>>
        /\ \/ Advance(1) /\ UNCHANGED <<job, pc>>
           \/ End("misread")
    BY <1>5 DEF rescale_final_Pk, Asking
  <2>2. 1 \in Nat /\ 1 <= Len(execute(job)) - Dealt /\ Dealt \in Nat
    BY <2>1, RequestAt
  <2> QED
    BY <2>1, <2>2, AdvanceProgress, EndProgress DEF End
<1>6. CASE Edit
  BY <1>6, SameProgress DEF Edit, inputVars
<1> QED
  BY <1>1, <1>2, <1>3, <1>4, <1>5, <1>6

LEMMA ProgressInvariant == Spec => []Progress
<1>1. Progress /\ [Next]_vars => Progress'
  <2> SUFFICES ASSUME Progress, [Next]_vars PROVE Progress'
    OBVIOUS
  <2>1. CASE UNCHANGED vars
    BY <2>1, SameProgress DEF vars, inputVars
  <2>2. CASE InputNext
    BY <2>2, InputProgress
  <2>3. CASE \/ build_loop_growth_work_list \/ setup_growth_write \/ store
             \/ finalize_growth_write \/ rescale_final_Pk \/ Edit
    BY <2>3, GrowthProgress
  <2> QED
    BY <2>1, <2>2, <2>3 DEF Next
<1> QED
  BY <1>1, InitProgress, PTL DEF Spec

------------------------------------------------------------------------------
(* The tokens of a job's requests.                                         *)

\* What a step does to the tables of tokens.
LEMMA TokenSteps ==
  ASSUME Progress, [Next]_vars
  PROVE  \/ \E id : \E last \in BOOLEAN : Ask /\ tokenize(request.table, asked, id, last)
         \/ Forget /\ pc' = "idle"
         \/ UNCHANGED tokenVars
<1>1. CASE UNCHANGED vars
  BY <1>1 DEF vars, inputVars
<1>2. CASE \E j \in Jobs : attach(j) \/ create(j) \/ turn_away(j)
  BY <1>2 DEF attach, create, turn_away, Start
<1>3. CASE create_table \/ write_pipeline_id \/ AskNothing
  BY <1>3 DEF create_table, write_pipeline_id, AskNothing
<1>4. CASE Ask
  <2> DEFINE last == ~request.together \/ read + 1 = Len(request.values)
  <2>1. PICK id : tokenize(request.table, asked, id, last)
    BY <1>4 DEF Ask
  <2>2. last \in BOOLEAN
    OBVIOUS
  <2> HIDE DEF last
  <2> QED
    BY <1>4, <2>1, <2>2
<1>5. CASE Fail \/ Killed \/ Done
  BY <1>5 DEF Fail, Killed, Done, End
<1>6. CASE build_loop_growth_work_list \/ setup_growth_write \/ store \/ Edit
  BY <1>6 DEF build_loop_growth_work_list, setup_growth_write, store, Edit, inputVars
<1>7. CASE finalize_growth_write \/ rescale_final_Pk
  BY <1>7 DEF finalize_growth_write, rescale_final_Pk, End
<1> QED
  BY <1>1, <1>2, <1>3, <1>4, <1>5, <1>6, <1>7 DEF Next, InputNext

\* What is asked is asked of a table.
LEMMA AskedTable ==
  ASSUME Progress, Ask
  PROVE  /\ request.table \in TokenTables
         /\ request.table = "z" => asked \in Redshifts
         /\ request.table \in Waves => asked \in Wavenumbers
<1>1. todo # <<>> /\ request.kind \in {"database", "token"} /\ request.values # <<>>
  BY DEF Ask, Asking
<1>2. TokenRequest(request) \/ DatabaseRequest(request)
  BY <1>1, AskedRequest
<1>3. CASE TokenRequest(request)
  BY <1>3 DEF TokenRequest, TokenTables, Params, Waves
<1>4. CASE DatabaseRequest(request)
  <2>1. /\ request.table \in {"z"} \cup Waves
        /\ request.table = "z" => request.values \in Seq(Redshifts)
        /\ request.table \in Waves => request.values \in Seq(Wavenumbers)
    BY <1>4 DEF DatabaseRequest, Lists, Waves
  <2>2. request.table \in TokenTables
    BY <2>1 DEF TokenTables
  <2>3. asked = request.values[read + 1]
    BY <2>1 DEF asked, Waves
  <2>4. read + 1 \in 1 .. Len(request.values)
    <3>1. Len(request.values) \in Nat /\ Len(request.values) > 0
      BY <1>1, <2>1
    <3> QED
      BY <3>1 DEF Progress
  <2> QED
    BY <2>1, <2>2, <2>3, <2>4
<1> QED
  BY <1>2, <1>3, <1>4

LEMMA TokenInvariant == Spec => []TokenInv
<1>1. Init => TokenInv
  BY InitToken DEF Init, InputInit
<1>2. TokenInv /\ Progress /\ [Next]_vars => TokenInv'
  <2> SUFFICES ASSUME TokenInv, Progress, [Next]_vars PROVE TokenInv'
    OBVIOUS
  <2>1. CASE \E id : \E last \in BOOLEAN : Ask /\ tokenize(request.table, asked, id, last)
    BY <2>1, AskedTable, TokenizeStep
  <2>2. CASE Forget
    BY <2>2, ForgetStep
  <2>3. CASE UNCHANGED tokenVars
    BY <2>3 DEF tokenVars, TokenInv, Functions, SameTokenAgain, Findable
  <2> QED
    BY <2>1, <2>2, <2>3, TokenSteps
<1> QED
  BY <1>1, <1>2, ProgressInvariant, PTL DEF Spec

(***************************************************************************)
(* Whatever a job does with the database, the same value is given the same *)
(* token, by every job at any time.                                        *)
(***************************************************************************)
THEOREM JobsTokensAgree == Spec => []SameTokenAgain
<1>1. TokenInv => SameTokenAgain
  BY DEF TokenInv
<1> QED
  BY <1>1, TokenInvariant, PTL

(***************************************************************************)
(* A token that a job holds or left a transaction with is the id of one    *)
(* row only, and the row's value is that asked.                            *)
(***************************************************************************)
THEOREM JobsTokensStand == Spec => []TokenStandsForValue
<1>1. TokenInv => TokenStandsForValue
  BY DEF TokenInv, TokenStandsForValue, Answers, Numbered
<1> QED
  BY <1>1, TokenInvariant, PTL

(***************************************************************************)
(* No end of a job takes the row of a token that may label results.        *)
(***************************************************************************)
THEOREM JobsTokensPersist == Spec => []GivenIsCommitted
<1>1. TokenInv => GivenIsCommitted
  BY DEF TokenInv, GivenIsCommitted, Answers
<1> QED
  BY <1>1, TokenInvariant, PTL

------------------------------------------------------------------------------
(* Kinds.                                                                  *)

\* What is in the tables of samples are samples.
Samples(t, rows) ==
  /\ t = "z" => \A r \in rows : r.value \in Redshifts
  /\ t \in Waves => \A r \in rows : r.value \in Wavenumbers

\* Samples are tokenized, and a process that does not run holds no tokens.
KindInv ==
  /\ \A t \in TokenTables :
       /\ Samples(t, tokens[t]) /\ Samples(t, committed[t])
       /\ Samples(t, held[t]) /\ Samples(t, given[t])
  /\ pc = "idle" => tokens = committed /\ \A t \in TokenTables : held[t] = {}
  /\ file.tables \in 0 .. 1 + Statements

\* The rows and tokens after a query.
LEMMA TokenizeSamples ==
  ASSUME TokenInv, KindInv, NEW u \in TokenTables, NEW v, NEW id, NEW last,
         tokenize(u, v, id, last),
         u = "z" => v \in Redshifts, u \in Waves => v \in Wavenumbers
  PROVE  \A t \in TokenTables :
           /\ Samples(t, tokens'[t]) /\ Samples(t, committed'[t])
           /\ Samples(t, held'[t]) /\ Samples(t, given'[t])
<1>1. /\ held' = [held EXCEPT ![u] = @ \cup {[value |-> v, id |-> id]}]
      /\ tokens' = tokens \/ tokens' = [tokens EXCEPT ![u] = @ \cup {[id |-> id, value |-> v]}]
      /\ \/ committed' = tokens' /\ given' = [w \in TokenTables |-> given[w] \cup held'[w]]
         \/ UNCHANGED <<committed, given>>
  BY DEF tokenize
<1>2. ASSUME NEW t \in TokenTables PROVE Samples(t, tokens'[t]) /\ Samples(t, held'[t])
  <2>1. \A r \in tokens'[t] : r \in tokens[t] \/ (t = u /\ r.value = v)
    BY <1>1 DEF TokenInv, Functions
  <2>2. \A r \in held'[t] : r \in held[t] \/ (t = u /\ r.value = v)
    BY <1>1 DEF TokenInv, Functions
  <2> QED
    BY <2>1, <2>2 DEF KindInv, Samples
<1>3. ASSUME NEW t \in TokenTables PROVE Samples(t, committed'[t]) /\ Samples(t, given'[t])
  <2>1. CASE committed' = tokens' /\ given' = [w \in TokenTables |-> given[w] \cup held'[w]]
    <3>1. committed'[t] = tokens'[t] /\ given'[t] = given[t] \cup held'[t]
      BY <2>1
    <3>2. Samples(t, tokens'[t]) /\ Samples(t, held'[t]) /\ Samples(t, given[t])
      BY <1>2 DEF KindInv
    <3> QED
      BY <3>1, <3>2 DEF Samples
  <2>2. CASE UNCHANGED <<committed, given>>
    BY <2>2 DEF KindInv
  <2> QED
    BY <1>1, <2>1, <2>2
<1> QED
  BY <1>2, <1>3

\* What becomes of the file's tables.
LEMMA FileTables ==
  ASSUME FileInv, [Next]_vars
  PROVE  \/ file'.tables = file.tables
         \/ create_table
<1>1. CASE UNCHANGED vars
  BY <1>1 DEF vars, inputVars
<1>2. CASE \E j \in Jobs : attach(j) \/ create(j) \/ turn_away(j)
  <2>1. file' = file \/ file' = [file EXCEPT !.exists = TRUE]
    BY <1>2 DEF attach, create, turn_away
  <2> QED
    BY <2>1 DEF FileInv
<1>3. CASE write_pipeline_id
  BY <1>3 DEF write_pipeline_id, FileInv
<1>4. CASE Ask \/ AskNothing \/ Fail \/ Killed \/ Done
  BY <1>4 DEF Ask, AskNothing, Fail, Killed, Done, End
<1>5. CASE build_loop_growth_work_list \/ setup_growth_write \/ store \/ Edit
  BY <1>5 DEF build_loop_growth_work_list, setup_growth_write, store, Edit, inputVars
<1>6. CASE finalize_growth_write \/ rescale_final_Pk
  BY <1>6 DEF finalize_growth_write, rescale_final_Pk, End
<1> QED
  BY <1>1, <1>2, <1>3, <1>4, <1>5, <1>6 DEF Next, InputNext

LEMMA KindInvariant == Spec => []KindInv
<1>1. Init => KindInv
  <2> SUFFICES ASSUME Init PROVE KindInv
    OBVIOUS
  <2>1. /\ file.tables = 0 /\ tokens = committed
        /\ \A t \in TokenTables :
             tokens[t] = {} /\ committed[t] = {} /\ held[t] = {} /\ given[t] = {}
    BY DEF Init, InputInit, TokenInit
  <2> QED
    BY <2>1, BoundsAssumption DEF KindInv, Samples
<1>2. KindInv /\ TokenInv /\ Progress /\ FileInv /\ [Next]_vars => KindInv'
  <2> SUFFICES ASSUME KindInv, TokenInv, Progress, FileInv, [Next]_vars PROVE KindInv'
    OBVIOUS
  <2>1. file'.tables \in 0 .. 1 + Statements
    <3>1. CASE create_table
      <4>1. file' = [file EXCEPT !.tables = @ + 1] /\ file.tables < 1 + Statements
        BY <3>1 DEF create_table
      <4> QED
        BY <4>1, BoundsAssumption DEF KindInv, FileInv
    <3> QED
      BY <3>1, FileTables DEF KindInv
  <2>2. CASE \E id : \E last \in BOOLEAN : Ask /\ tokenize(request.table, asked, id, last)
    <3>1. pc' # "idle"
      BY <2>2 DEF Ask, Asking
    <3> QED
      BY <2>1, <2>2, <3>1, AskedTable, TokenizeSamples DEF KindInv
  <2>3. CASE Forget
    <3>1. /\ tokens' = committed /\ committed' = committed /\ given' = given
          /\ \A t \in TokenTables : held'[t] = {}
      BY <2>3 DEF Forget
    <3> QED
      BY <2>1, <3>1 DEF KindInv, Samples
  <2>4. CASE UNCHANGED tokenVars /\ ~Forget
    <3>1. pc' = "idle" => pc = "idle"
      <4>1. pc' = "idle" /\ pc # "idle" => Forget
        BY DEF Next, InputNext, vars, inputVars, attach, create, turn_away, Start,
               create_table, write_pipeline_id, Ask, AskNothing, Fail, Killed, Done, End,
               build_loop_growth_work_list, setup_growth_write, store, Edit,
               finalize_growth_write, rescale_final_Pk
      <4> QED
        BY <2>4, <4>1
    <3>2. UNCHANGED <<tokens, committed, held, given>>
      BY <2>4 DEF tokenVars
    <3> QED
      BY <2>1, <3>1, <3>2 DEF KindInv
  <2> QED
    BY <2>2, <2>3, <2>4, TokenSteps
<1> QED
  BY <1>1, <1>2, TokenInvariant, ProgressInvariant, FileInvariant, PTL DEF Spec

(***************************************************************************)
(* Every variable keeps to its kind, and a process that does not run holds *)
(* no tokens, so that none it has not committed survives it.               *)
(***************************************************************************)
THEOREM InputTypes == Spec => []TypeOK
<1>1. KindInv /\ TokenInv /\ Progress => TypeOK
  <2> SUFFICES ASSUME KindInv, TokenInv, Progress PROVE TypeOK
    OBVIOUS
  <2>1. ASSUME NEW t \in TokenTables, NEW r \in tokens[t]
        PROVE  r.id \in Nat /\ (t \in {"z"} \cup Waves => r.value \in Nat)
    BY NumberAssumption DEF KindInv, Samples, TokenInv, Numbered
  <2>2. todo # <<>> => read \in 0 .. Len(request.values)
    <3>1. todo # <<>> => Len(request.values) \in Nat
      BY ValuesLength
    <3> QED
      BY <3>1 DEF Progress
  <2> QED
    BY <2>1, <2>2 DEF TypeOK, KindInv, Progress
<1> QED
  BY <1>1, KindInvariant, TokenInvariant, ProgressInvariant, PTL
==============================================================================
