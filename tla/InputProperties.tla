--------------------------- MODULE InputProperties ---------------------------
(***************************************************************************)
(* What tokens, databases and growth factors must be to whoever uses them. *)
(***************************************************************************)
EXTENDS Growth, TokenProperties

(***************************************************************************)
(* Every variable keeps to its kind, and a process that does not run holds *)
(* no tokens.                                                              *)
(***************************************************************************)
TypeOK ==
  /\ \A t \in TokenTables : \A r \in tokens[t] :
       r.id \in Nat /\ (t \in {"z"} \cup Waves => r.value \in Nat)
  /\ file.tables \in 0 .. 1 + Statements /\ pc \in {"idle", "create", "execute"}
  /\ pc = "idle" => tokens = committed /\ \A t \in TokenTables : held[t] = {}
  /\ todo # <<>> => read \in 0 .. Len(request.values)

------------------------------------------------------------------------------
(***************************************************************************)
(* A database that the next job would accept has all its tables, and one   *)
(* identity, wherever the job that created it died.                        *)
(***************************************************************************)
UsableIsComplete ==
  read_pipeline_id # None =>
    file.exists /\ file.tables = 1 + Statements /\ Len(file.ids) = 1

(***************************************************************************)
(* All results in a database come from the pipeline that created it, since *)
(* another's kernels would be numbered otherwise.                          *)
(***************************************************************************)
OnePipeline == \A r \in D \cup f : r.value.pipeline = file.ids[1]

------------------------------------------------------------------------------
(***************************************************************************)
(* Whatever a job does to the tables of tokens is to ask for a token or to *)
(* end: opening, recording samples and growth factors leave them alone, so *)
(* that what holds of the tokens by themselves holds here.                 *)
(***************************************************************************)
TokensByRequest == TokenSpec

(***************************************************************************)
(* The index by token, of which no copy is archived, is the same when it   *)
(* is built again on a slave: two samples may share a token.               *)
(***************************************************************************)
IndexSurvivesArchive == \A l \in Lists : rebuild_key_index(dbs[l]) = dbs[l]

------------------------------------------------------------------------------
\* A row's labels are those of what it was computed for, be it that the parameters
\* with a number zero among them are found by no query.
Labelled(r) ==
  /\ \E s \in committed["z"] : s.id = r.zid /\ lookup_redshift(s.value, r.value.at)
  /\ \E s \in committed["growth"] :
       /\ s.id = r.params
       /\ lookup_params(s.value, r.value.start.params) \/ s.value = r.value.start.params

(***************************************************************************)
(* The growth factors in the tables belong to the redshifts and parameters *)
(* under which they are stored.                                            *)
(***************************************************************************)
GrowthAsAsked == \A r \in D \cup f : Labelled(r)

(***************************************************************************)
(* No redshift has two growth factors or two growth rates, even after one  *)
(* of them was lost and both were computed again.                          *)
(***************************************************************************)
GrowthOnce ==
  \A table \in {D, f} : \A r, s \in table :
    r.mid = s.mid /\ r.params = s.params /\ r.zid = s.zid => r = s

\* A value that was read, as a row.
RowOf(v, value) == [zid |-> v.z.id, params |-> v.params, value |-> value]

(***************************************************************************)
(* Walked forwards, as every later list walks it, what is read back goes   *)
(* in step with the redshifts: each with its own growth factor and, of the *)
(* same integration, its own growth rate.  The two factors that the        *)
(* rescaling divides are those of the highest and the lowest redshift,     *)
(* although the step back from the end does not move all positions: of the *)
(* rates beside them only the first is that of its redshift.               *)
(***************************************************************************)
FoundInStep ==
  LET walk == oneloop_values(found)
      InStep(v) == v.value.f = v.value.D
  IN  /\ \A i \in DOMAIN walk :
           InStep(walk[i]) /\ Labelled(RowOf(walk[i], walk[i].value.D))
      /\ found.z_db.records # {} =>
           /\ InStep(ends[1]) /\ \A i \in {1, 2} : Labelled(RowOf(ends[i], ends[i].value.D))
           /\ \A r \in found.z_db.records :
                ends[2].z.value <= r.value /\ r.value <= ends[1].z.value

(***************************************************************************)
(* A job finds all that it has just seen to, and the indexes it recreates  *)
(* are not there, whatever job died before.                                *)
(***************************************************************************)
NeverMisread == outcome \notin {"misread", "index_exists"}

(***************************************************************************)
(* The growth factors that a job compares are normalised at one time, the  *)
(* earliest of its redshifts.                                              *)
(***************************************************************************)
NormalisedAtEarliest ==
  \A i \in DOMAIN ends : ends[i].value.D.start.from = ends[1].z.value
==============================================================================
