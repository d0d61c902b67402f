---------------------------- MODULE GrowthTheorems ---------------------------
(***************************************************************************)
(* What holds of the databases of samples and of the growth factors, for   *)
(* any jobs, whatever was deleted from the tables and wherever a job died. *)
(***************************************************************************)
EXTENDS InputTheorems

------------------------------------------------------------------------------
(* Sets of records with values of their own, in the order of the values.   *)

\* The records of a map: each value has one.
Map(R) ==
  /\ IsFiniteSet(R) /\ \A r \in R : r.value \in Nat
  /\ \A r, s \in R : r.value = s.value => r = s

Lower(R, r) == {s \in R : s.value < r.value}

\* A record is preceded by fewer others than one above it.
LEMMA LowerCount ==
  ASSUME NEW R, Map(R), NEW r \in R
  PROVE  /\ IsFiniteSet(Lower(R, r)) /\ Cardinality(Lower(R, r)) \in Nat
         /\ Cardinality(Lower(R, r)) < Cardinality(R)
         /\ \A t \in R : r.value < t.value =>
              Cardinality(Lower(R, r)) < Cardinality(Lower(R, t))
<1>1. ASSUME NEW T, IsFiniteSet(T), Lower(R, r) \subseteq T, r \in T
      PROVE  /\ IsFiniteSet(Lower(R, r)) /\ Cardinality(Lower(R, r)) \in Nat
             /\ Cardinality(Lower(R, r)) < Cardinality(T)
  <2>1. r \notin Lower(R, r)
    BY DEF Lower, Map
  <2>2. /\ IsFiniteSet(Lower(R, r)) /\ Cardinality(Lower(R, r)) <= Cardinality(T)
        /\ Cardinality(T) = Cardinality(Lower(R, r)) => T = Lower(R, r)
    BY <1>1, FS_Subset
  <2>3. Cardinality(Lower(R, r)) \in Nat /\ Cardinality(T) \in Nat
    BY <1>1, <2>2, FS_CardinalityType
  <2> QED
    BY <1>1, <2>1, <2>2, <2>3
<1>2. Lower(R, r) \subseteq R /\ IsFiniteSet(R)
  BY DEF Lower, Map
<1>3. ASSUME NEW t \in R, r.value < t.value
      PROVE  Cardinality(Lower(R, r)) < Cardinality(Lower(R, t))
  <2>1. Lower(R, t) \subseteq R
    BY DEF Lower
  <2>2. IsFiniteSet(Lower(R, t))
    BY <1>2, <2>1, FS_Subset
  <2>3. r \in Lower(R, t) /\ Lower(R, r) \subseteq Lower(R, t)
    BY <1>3 DEF Lower, Map
  <2> QED
    BY <1>1, <2>2, <2>3
<1> QED
  BY <1>1, <1>2, <1>3

\* Every record has its number, and every number its record.
LEMMA RankBijection ==
  ASSUME NEW R, Map(R)
  PROVE  /\ Cardinality(R) \in Nat
         /\ [r \in R |-> Cardinality(Lower(R, r)) + 1] \in Bijection(R, 1 .. Cardinality(R))
<1> DEFINE rank == [r \in R |-> Cardinality(Lower(R, r)) + 1]
           N == Cardinality(R)
<1>1. IsFiniteSet(R) /\ N \in Nat
  BY FS_CardinalityType DEF Map
<1>2. rank \in [R -> 1 .. N]
  BY <1>1, LowerCount
<1>3. ASSUME NEW r \in R, NEW s \in R, rank[r] = rank[s] PROVE r = s
  <2>1. /\ Cardinality(Lower(R, r)) \in Nat /\ Cardinality(Lower(R, s)) \in Nat
        /\ r.value < s.value => Cardinality(Lower(R, r)) < Cardinality(Lower(R, s))
        /\ s.value < r.value => Cardinality(Lower(R, s)) < Cardinality(Lower(R, r))
    BY LowerCount
  <2>2. Cardinality(Lower(R, r)) = Cardinality(Lower(R, s))
    BY <1>3, <2>1
  <2> QED
    BY <2>1, <2>2 DEF Map
<1>4. rank \in Injection(R, 1 .. N)
  BY <1>2, <1>3 DEF Injection, IsInjective
<1>5. IsFiniteSet(1 .. N) /\ Cardinality(1 .. N) = N
  BY <1>1, FS_Interval
<1>6. rank \in Surjection(R, 1 .. N)
  BY <1>4, <1>5, FS_Injection
<1> QED
  BY <1>1, <1>4, <1>6 DEF Bijection

\* The n-th record is preceded by the n - 1 others.
LEMMA LowerAscending ==
  ASSUME NEW db, Map(db.records), NEW n \in 1 .. Cardinality(db.records)
  PROVE  /\ Ascending(db)[n] \in db.records
         /\ Cardinality(Lower(db.records, Ascending(db)[n])) = n - 1
<1> DEFINE R == db.records
           N == Cardinality(R)
           rank == [r \in R |-> Cardinality(Lower(R, r)) + 1]
<1>1. N \in Nat /\ rank \in Bijection(R, 1 .. N)
  BY RankBijection
<1>2. Ascending(db)[n] = CHOOSE r \in R : Cardinality(Lower(R, r)) = n - 1
  BY DEF Ascending, Lower
<1>3. PICK r \in R : rank[r] = n
  BY <1>1 DEF Bijection, Surjection
<1>4. Cardinality(Lower(R, r)) \in Nat
  BY LowerCount
<1>5. Cardinality(Lower(R, r)) = n - 1
  BY <1>3, <1>4
<1> QED
  BY <1>2, <1>5

\* The records in ascending order.
LEMMA AscendingRecords ==
  ASSUME NEW db, Map(db.records)
  PROVE  LET N == Cardinality(db.records)
             a == Ascending(db)
         IN  /\ N \in Nat /\ a \in Seq(db.records) /\ Len(a) = N /\ DOMAIN a = 1 .. N
             /\ \A n \in 1 .. N : a[n] \in db.records
             /\ \A m, n \in 1 .. N : a[m] = a[n] => m = n
             /\ \A r \in db.records : \E n \in 1 .. N : a[n] = r
<1> DEFINE R == db.records
           N == Cardinality(R)
           a == Ascending(db)
           rank == [r \in R |-> Cardinality(Lower(R, r)) + 1]
<1>1. N \in Nat /\ rank \in Bijection(R, 1 .. N)
  BY RankBijection
<1>2. a = [n \in 1 .. N |-> CHOOSE r \in R : Cardinality(Lower(R, r)) = n - 1]
  BY DEF Ascending, Lower
<1>4. ASSUME NEW n \in 1 .. N PROVE a[n] \in R /\ rank[a[n]] = n
  BY LowerAscending
<1>5. \A m, n \in 1 .. N : a[m] = a[n] => m = n
  BY <1>4
<1>6. ASSUME NEW r \in R PROVE \E n \in 1 .. N : a[n] = r
  <2>1. rank[r] \in 1 .. N
    BY <1>1 DEF Bijection, Injection
  <2>2. a[rank[r]] \in R /\ rank[a[rank[r]]] = rank[r]
    BY <1>4, <2>1
  <2>3. a[rank[r]] = r
    BY <1>1, <2>2 DEF Bijection, Injection, IsInjective
  <2> QED
    BY <2>1, <2>3
<1>7. a \in Seq(R) /\ Len(a) = N /\ DOMAIN a = 1 .. N
  <2>1. a = [n \in 1 .. N |-> a[n]]
    BY <1>2
  <2> HIDE DEF a, N, R
  <2>2. \A n \in 1 .. N : a[n] \in R
    BY <1>4
  <2> QED
    BY <1>1, <2>1, <2>2
<1> QED
  BY <1>1, <1>4, <1>5, <1>6, <1>7

\* The order in which the redshifts are integrated: latest value first.
LEMMA DescendingRecords ==
  ASSUME NEW db, Map(db.records)
  PROVE  LET N == Cardinality(db.records)
             a == Ascending(db)
             t == Reverse(a)
         IN  /\ N \in Nat /\ t \in Seq(db.records) /\ Len(t) = N /\ DOMAIN t = 1 .. N
             /\ \A n \in 1 .. N : t[n] = a[N - n + 1] /\ t[n] \in db.records
             /\ \A r \in db.records : \E n \in 1 .. N : t[n] = r
<1> DEFINE R == db.records
           N == Cardinality(R)
           a == Ascending(db)
           t == Reverse(a)
<1>1. /\ N \in Nat /\ Len(a) = N /\ \A n \in 1 .. N : a[n] \in R
      /\ \A r \in R : \E n \in 1 .. N : a[n] = r
  BY AscendingRecords
<1> HIDE DEF R, N, a
<1>2. t = [n \in 1 .. N |-> a[N - n + 1]]
  BY <1>1 DEF Reverse
<1> HIDE DEF t
<1>3. \A n \in 1 .. N : t[n] = a[N - n + 1] /\ t[n] \in R
  BY <1>1, <1>2
<1>4. t \in Seq(R) /\ Len(t) = N /\ DOMAIN t = 1 .. N
  BY <1>1, <1>2, <1>3
<1>5. ASSUME NEW r \in R PROVE \E n \in 1 .. N : t[n] = r
  <2>1. PICK m \in 1 .. N : a[m] = r
    BY <1>1
  <2>2. N - m + 1 \in 1 .. N /\ N - (N - m + 1) + 1 = m
    BY <1>1
  <2> QED
    BY <1>3, <2>1, <2>2
<1> QED
  BY <1>1, <1>3, <1>4, <1>5 DEF R, N, a, t

\* The first of them is the highest, the last of them the lowest.
LEMMA EndRecords ==
  ASSUME NEW db, Map(db.records), NEW r \in db.records
  PROVE  LET N == Cardinality(db.records)
             t == Reverse(Ascending(db))
         IN  1 \in 1 .. N /\ N \in 1 .. N /\ t[N].value <= r.value /\ r.value <= t[1].value
<1> DEFINE R == db.records
           N == Cardinality(R)
           a == Ascending(db)
           t == Reverse(a)
<1>1. /\ N \in Nat /\ \A n \in 1 .. N : a[n] \in R
      /\ \E n \in 1 .. N : a[n] = r
  BY AscendingRecords
<1>2. 1 \in 1 .. N /\ N \in 1 .. N /\ N - 1 + 1 = N /\ N - N + 1 = 1
  BY <1>1
<1>3. t[1] = a[N] /\ t[N] = a[1] /\ a[1] \in R /\ a[N] \in R
  <2>1. \A n \in 1 .. N : t[n] = a[N - n + 1] /\ t[n] \in R
    BY DescendingRecords
  <2>2. t[1] = a[N - 1 + 1] /\ t[N] = a[N - N + 1]
    BY <1>2, <2>1
  <2> QED
    BY <1>1, <1>2, <2>2
<1>4. \A n \in 1 .. N : Cardinality(Lower(R, a[n])) = n - 1
  BY LowerAscending
<1>5. Cardinality(Lower(R, a[1])) = 0 /\ Cardinality(Lower(R, a[N])) = N - 1
  <2>1. Cardinality(Lower(R, a[1])) = 1 - 1
    BY <1>2, <1>4
  <2> QED
    BY <1>2, <1>4, <2>1
<1>6. /\ Cardinality(Lower(R, r)) \in Nat /\ Cardinality(Lower(R, r)) < N
      /\ r.value < a[1].value => Cardinality(Lower(R, r)) < Cardinality(Lower(R, a[1]))
      /\ a[N].value < r.value => Cardinality(Lower(R, a[N])) < Cardinality(Lower(R, r))
  BY <1>3, LowerCount
<1>7. r.value \in Nat /\ a[1].value \in Nat /\ a[N].value \in Nat
  BY <1>3 DEF Map
<1>8. ~(r.value < a[1].value) /\ ~(a[N].value < r.value)
  BY <1>1, <1>5, <1>6
<1>9. a[1].value <= r.value /\ r.value <= a[N].value
  <2>1. \A x, y \in Nat : ~(x < y) => y <= x
    OBVIOUS
  <2> QED
    BY <1>7, <1>8, <2>1
<1> QED
  BY <1>2, <1>3, <1>9

------------------------------------------------------------------------------
(* Databases of samples.                                                   *)

\* Every token of the index is that of the record it leads to.
Indexed(db) ==
  /\ db = [records |-> db.records, index |-> [id \in Ids(db) |-> db.index[id]]]
  /\ Map(db.records)
  /\ \A r \in db.records : r = [value |-> r.value, id |-> r.id]
  /\ \A id \in Ids(db) : [value |-> db.index[id], id |-> id] \in db.records

LEMMA EmptyIndexed == Indexed(EmptyDatabase) /\ EmptyDatabase.records = {}
<1>1. EmptyDatabase.records = {} /\ Ids(EmptyDatabase) = {}
  BY DEF EmptyDatabase, Ids
<1>2. EmptyDatabase = [records |-> EmptyDatabase.records,
                       index |-> [id \in {} |-> EmptyDatabase.index[id]]]
  BY DEF EmptyDatabase
<1>3. Map(EmptyDatabase.records)
  BY <1>1, FS_EmptySet DEF Map
<1> QED
  BY <1>1, <1>2, <1>3 DEF Indexed

\* A record is added, of a value that has the same token if it is there.
LEMMA AddRecord ==
  ASSUME NEW db, Indexed(db), NEW v \in Nat, NEW id,
         \A r \in db.records : r.value = v => r.id = id
  PROVE  LET new == [value |-> v, id |-> id]
             more == add_record(db, v, id)
         IN  /\ Indexed(more) /\ more.records = db.records \cup {new}
             /\ Ids(more) = Ids(db) \cup {id}
             /\ \A i \in Ids(more) : more.index[i] = IF i \in Ids(db) THEN db.index[i] ELSE v
<1> DEFINE new == [value |-> v, id |-> id]
           more == add_record(db, v, id)
<1>1. DOMAIN db.index = Ids(db) /\ \A i \in Ids(db) : [value |-> db.index[i], id |-> i] \in db.records
  BY DEF Indexed
<1>2. more.records = db.records \cup {new}
  <2>1. CASE \E r \in db.records : r.value = v
    <3>1. PICK r \in db.records : r.value = v
      BY <2>1
    <3>2. r = new
      BY <3>1 DEF Indexed
    <3> QED
      BY <3>1, <3>2 DEF add_record
  <2>2. CASE ~\E r \in db.records : r.value = v
    BY <2>2 DEF add_record
  <2> QED
    BY <2>1, <2>2
<1>3. more.index = [i \in Ids(db) \cup {id} |-> IF i \in Ids(db) THEN db.index[i] ELSE v]
  BY <1>1 DEF add_record
<1>4. more = [records |-> more.records, index |-> more.index]
  BY DEF add_record
<1> HIDE DEF more
<1>5. Ids(more) = Ids(db) \cup {id}
  <2>1. new.id = id
    OBVIOUS
  <2> HIDE DEF new
  <2>2. \A i : i \in Ids(more) <=> \E r \in db.records \cup {new} : i = r.id
    BY <1>2 DEF Ids
  <2>3. \A i : i \in Ids(db) <=> \E r \in db.records : i = r.id
    BY DEF Ids
  <2> QED
    BY <2>1, <2>2, <2>3
<1>6. \A i \in Ids(more) : more.index[i] = IF i \in Ids(db) THEN db.index[i] ELSE v
  BY <1>3, <1>5
<1>7. Map(more.records)
  <2>1. IsFiniteSet(db.records \cup {new})
    BY FS_AddElement DEF Indexed, Map
  <2>2. \A r \in db.records : r.value = v => r = new
    BY DEF Indexed
  <2> QED
    BY <1>2, <2>1, <2>2 DEF Indexed, Map
<1>8. \A i \in Ids(more) : [value |-> more.index[i], id |-> i] \in more.records
  BY <1>1, <1>2, <1>5, <1>6
<1>9. \A r \in more.records : r = [value |-> r.value, id |-> r.id]
  BY <1>2 DEF Indexed
<1>10. more = [records |-> more.records, index |-> [i \in Ids(more) |-> more.index[i]]]
  BY <1>3, <1>4, <1>5
<1>11. Indexed(more)
  BY <1>7, <1>8, <1>9, <1>10 DEF Indexed
<1> QED
  BY <1>2, <1>5, <1>6, <1>11 DEF more

------------------------------------------------------------------------------
(* What a job has seen to, before its growth factors.                      *)

\* Its redshifts have tokens that may be used, and so have its parameters.
Prepared ==
  /\ tok = [t \in Params \cup {"linear_Pk"} |-> tok[t]]
  /\ dbs = [l \in Lists |-> dbs[l]]
  /\ Indexed(dbs["z"]) /\ dbs["z"].records \subseteq given["z"]
  /\ pc # "idle" /\ Dealt >= 8 =>
       [value |-> job.growth, id |-> tok["growth"]] \in given["growth"]

\* A token is never taken back.
LEMMA GivenGrows ==
  ASSUME Progress, [Next]_vars
  PROVE  \A t \in TokenTables : given[t] \subseteq given'[t]
<1>1. CASE \E id : \E last \in BOOLEAN : Ask /\ tokenize(request.table, asked, id, last)
  BY <1>1 DEF tokenize
<1>2. CASE Forget \/ UNCHANGED tokenVars
  BY <1>2 DEF Forget, tokenVars
<1> QED
  BY <1>1, <1>2, TokenSteps

\* A redshift is found again.
LEMMA RedshiftFindable == ASSUME NEW z \in Nat PROVE Findable("z", z)
<1>1. lookup_redshift(z, z)
  <2>1. Abs(z - z) = 0
    BY DEF Abs
  <2>2. One \in Nat /\ One > 0 /\ z_tol \in Nat /\ USE_RELATIVE_ERROR \in Nat
    BY ScaleAssumption
  <2>3. Below(z - z, One, z_tol) /\ (z > 0 => Below(z - z, z, z_tol))
    BY <2>1, <2>2 DEF Below
  <2>4. z * USE_RELATIVE_ERROR > One => z # 0
    BY <2>2
  <2> QED
    BY <2>3, <2>4 DEF lookup_redshift, Relative
<1> QED
  BY <1>1 DEF Findable, Matches, Waves, Params

\* The job's memory, and how far it is, after a step that is no query.
LEMMA MemorySteps ==
  ASSUME Progress, [Next]_vars
  PROVE  \/ Ask \/ AskNothing
         \/ pc' = "idle" /\ tok' = NoTokens /\ dbs' = NoDatabases
         \/ UNCHANGED <<tok, dbs>> /\ (pc' = "idle" \/ (Dealt' = 0 /\ (pc = "idle" \/ Dealt = 0)))
         \/ /\ UNCHANGED <<tok, dbs, job, pc>> /\ pc # "idle"
            /\ Dealt' = Dealt \/ (Dealt \in Nat /\ Dealt >= 10 /\ Dealt' # 0)
<1>1. CASE UNCHANGED vars
  BY <1>1, SameProgress DEF vars, inputVars
<1>2. CASE \E j \in Jobs : attach(j) \/ create(j)
  <2>1. PICK j \in Jobs : Start(j) /\ pc' \in {"create", "execute"}
    BY <1>2 DEF attach, create
  <2> QED
    BY <2>1, StartProgress DEF Start
<1>3. CASE \/ \E j \in Jobs : turn_away(j)
           \/ Edit
  BY <1>3 DEF turn_away, Edit, inputVars
<1>4. CASE create_table \/ write_pipeline_id
  <2>1. /\ UNCHANGED <<todo, read, job>> /\ (pc' = pc \/ (pc = "create" /\ pc' = "execute"))
        /\ pc = "create" /\ UNCHANGED <<tok, dbs>>
    BY <1>4 DEF create_table, write_pipeline_id
  <2>2. Dealt' = Dealt /\ Dealt = 0
    BY <2>1, SameProgress DEF Progress
  <2> QED
    BY <2>1, <2>2
<1>5. CASE Fail \/ Killed \/ Done
  BY <1>5 DEF Fail, Killed, Done, End
<1>6. CASE \/ build_loop_growth_work_list \/ setup_growth_write \/ store
           \/ finalize_growth_write \/ rescale_final_Pk
  <2>1. /\ pc = "execute" /\ todo # <<>>
        /\ request.kind \in {"growth_list", "growth_setup", "growth_store",
                             "growth_finalize", "rescale"}
        /\ \/ UNCHANGED <<tok, dbs, job, pc>>
           \/ pc' = "idle" /\ tok' = NoTokens /\ dbs' = NoDatabases
    BY <1>6 DEF build_loop_growth_work_list, setup_growth_write, store,
                finalize_growth_write, rescale_final_Pk, Asking, End
  <2>2. Dealt \in Nat /\ Dealt >= 10
    BY <2>1, RequestAt, RequestKinds
  <2>3. pc' # "idle" => Dealt' \in Nat /\ Dealt' >= Dealt
    BY <1>6, GrowthProgress
  <2> HIDE DEF Dealt
  <2> QED
    BY <2>1, <2>2, <2>3
<1> QED
  BY <1>1, <1>2, <1>3, <1>4, <1>5, <1>6 DEF Next, InputNext

\* How far a job is when it asks, and what is asked.
LEMMA AskShape ==
  ASSUME Progress, Ask \/ AskNothing
  PROVE  /\ pc = "execute" /\ UNCHANGED <<pc, job>> /\ todo # <<>>
         /\ request.kind \in {"database", "token"}
         /\ Dealt \in Nat /\ Dealt' \in {Dealt, Dealt + 1}
         /\ TokenRequest(request) \/ DatabaseRequest(request)
         /\ AskNothing => request.kind = "database"
<1>1. /\ pc = "execute" /\ UNCHANGED <<pc, job>> /\ todo # <<>>
      /\ request.kind \in {"database", "token"}
      /\ AskNothing => request.kind = "database"
      /\ Answered \/ Advance(1)
  BY DEF Ask, AskNothing, Asking
<1>2. /\ Dealt \in Nat /\ 1 \in Nat /\ 1 <= Len(execute(job)) - Dealt
      /\ Len(request.values) \in Nat
  BY <1>1, RequestAt, ValuesLength
<1>3. Dealt' \in {Dealt, Dealt + 1}
  BY <1>1, <1>2, AnsweredProgress, AdvanceProgress
<1> QED
  BY <1>1, <1>2, <1>3, AskedRequest

\* A query, for a sample or for another value.
LEMMA AskDatabase ==
  ASSUME Progress, Prepared, Ask, request.kind = "database"
  PROVE  /\ tok' = tok /\ dbs' = [l \in Lists |-> dbs'[l]]
         /\ \E id : LET db == IF read = 0 THEN EmptyDatabase ELSE dbs[request.into]
                        last == ~request.together \/ read + 1 = Len(request.values)
                    IN  /\ tokenize(request.table, asked, id, last)
                        /\ dbs' = [dbs EXCEPT ![request.into] = add_record(db, asked, id)]
<1>1. PICK id :
        LET db == IF read = 0 THEN EmptyDatabase ELSE dbs[request.into]
            last == ~request.together \/ read + 1 = Len(request.values)
        IN  /\ tokenize(request.table, asked, id, last)
            /\ tok' = tok
            /\ dbs' = [dbs EXCEPT ![request.into] = add_record(db, asked, id)]
  BY DEF Ask
<1>2. dbs' = [l \in Lists |-> dbs'[l]]
  BY <1>1 DEF Prepared
<1> QED
  BY <1>1, <1>2

LEMMA AskToken ==
  ASSUME Progress, Prepared, Ask, request.kind = "token"
  PROVE  /\ dbs' = dbs /\ tok' = [t \in Params \cup {"linear_Pk"} |-> tok'[t]]
         /\ \E id : /\ tokenize(request.table, asked, id, TRUE)
                    /\ tok' = [tok EXCEPT ![request.into] = id]
<1>1. PICK id :
         /\ tokenize(request.table, asked, id,
                     ~request.together \/ read + 1 = Len(request.values))
         /\ dbs' = dbs
         /\ tok' = [tok EXCEPT ![request.into] = id]
  BY DEF Ask
<1>2. read + 1 = Len(request.values)
  <2>1. todo # <<>> /\ request.kind \in {"database", "token"}
    BY DEF Ask, Asking
  <2>2. TokenRequest(request) \/ DatabaseRequest(request)
    BY <2>1, AskedRequest
  <2>3. Len(request.values) = 1
    BY <2>2 DEF TokenRequest, DatabaseRequest
  <2> QED
    BY <2>3 DEF Progress
<1>3. (~request.together \/ read + 1 = Len(request.values)) = TRUE
  BY <1>2
<1>4. tok' = [t \in Params \cup {"linear_Pk"} |-> tok'[t]]
  BY <1>1 DEF Prepared
<1> QED
  BY <1>1, <1>3, <1>4

\* A redshift is asked for, on its own.
LEMMA AskRedshift ==
  ASSUME Progress, Prepared, TokenInv, TokenInv', KindInv, Ask, request.into = "z"
  PROVE  Indexed(dbs'["z"]) /\ dbs'["z"].records \subseteq given'["z"]
<1>1. request.kind = "database" /\ request.table = "z" /\ request.together = FALSE
  BY AskShape DEF TokenRequest, DatabaseRequest, Params
<1> DEFINE db == IF read = 0 THEN EmptyDatabase ELSE dbs["z"]
<1>2. PICK id :
        /\ tokenize("z", asked, id, TRUE)
        /\ dbs' = [dbs EXCEPT !["z"] = add_record(db, asked, id)]
  <2>1. PICK id :
          /\ tokenize("z", asked, id, ~request.together \/ read + 1 = Len(request.values))
          /\ dbs' = [dbs EXCEPT !["z"] = add_record(db, asked, id)]
    BY <1>1, AskDatabase
  <2>2. (~request.together \/ read + 1 = Len(request.values)) = TRUE
    BY <1>1
  <2> QED
    BY <2>1, <2>2
<1>3. Indexed(db) /\ db.records \subseteq given["z"]
  BY EmptyIndexed DEF Prepared
<1>4. asked \in Nat
  BY <1>1, AskedTable, NumberAssumption
<1>5. [value |-> asked, id |-> id] \in given'["z"] /\ given["z"] \subseteq given'["z"]
  <2>1. /\ held' = [held EXCEPT !["z"] = @ \cup {[value |-> asked, id |-> id]}]
        /\ given' = [u \in TokenTables |-> given[u] \cup held'[u]]
    BY <1>2 DEF tokenize
  <2>2. "z" \in TokenTables
    BY DEF TokenTables
  <2> QED
    BY <2>1, <2>2 DEF TokenInv, Functions
<1>6. ASSUME NEW r \in db.records, r.value = asked PROVE r.id = id
  <2>1. r \in given'["z"] /\ Findable("z", asked) /\ "z" \in TokenTables
    BY <1>3, <1>4, <1>5, RedshiftFindable DEF TokenTables
  <2>2. \A g, h \in given'["z"] : g.value = h.value /\ Findable("z", g.value) => g.id = h.id
    BY <2>1 DEF TokenInv, SameTokenAgain, Findable
  <2> QED
    BY <1>5, <1>6, <2>1, <2>2
<1> HIDE DEF db
<1>7. PICK more : more = add_record(db, asked, id)
  OBVIOUS
<1>8. Indexed(more) /\ more.records = db.records \cup {[value |-> asked, id |-> id]}
  BY <1>3, <1>4, <1>6, <1>7, AddRecord
<1>9. dbs'["z"] = more
  BY <1>2, <1>7 DEF Prepared, Lists
<1> QED
  BY <1>3, <1>5, <1>8, <1>9

\* The token of the growth parameters, once it is asked for.
LEMMA AskGrowth ==
  ASSUME Progress, Prepared, TokenInv, Ask, request.into = "growth"
  PROVE  [value |-> job'.growth, id |-> tok'["growth"]] \in given'["growth"]
<1>1. /\ todo # <<>> /\ request.kind = "token" /\ request.table = "growth"
      /\ Len(request.values) = 1 /\ UNCHANGED job
  BY AskShape DEF TokenRequest, DatabaseRequest, Lists
<1>2. request.values = <<job.growth>>
  BY <1>1, AskedRequest
<1>3. asked = job.growth
  <2>1. read = 0
    BY <1>1 DEF Progress
  <2> QED
    BY <1>1, <1>2, <2>1 DEF asked
<1>4. PICK id : tokenize("growth", asked, id, TRUE) /\ tok' = [tok EXCEPT !["growth"] = id]
  BY <1>1, AskToken
<1>5. /\ held' = [held EXCEPT !["growth"] = @ \cup {[value |-> asked, id |-> id]}]
      /\ given' = [u \in TokenTables |-> given[u] \cup held'[u]]
  BY <1>4 DEF tokenize
<1>6. "growth" \in TokenTables /\ "growth" \in Params \cup {"linear_Pk"}
  BY DEF TokenTables, Params
<1>7. [value |-> asked, id |-> id] \in given'["growth"] /\ tok'["growth"] = id
  BY <1>4, <1>5, <1>6 DEF TokenInv, Functions, Prepared
<1> QED
  BY <1>1, <1>3, <1>7

\* What other requests leave alone.
LEMMA AskOther ==
  ASSUME Progress, Prepared, Ask \/ AskNothing
  PROVE  /\ tok' = [t \in Params \cup {"linear_Pk"} |-> tok'[t]]
         /\ dbs' = [l \in Lists |-> dbs'[l]]
         /\ Dealt # 0 => tok'["FRW_model"] = tok["FRW_model"]
         /\ Dealt # 7 => tok'["growth"] = tok["growth"]
         /\ Dealt # 1 => dbs'["z"] = dbs["z"]
<1>1. /\ todo # <<>> /\ request.kind \in {"database", "token"}
      /\ Dealt = 0 <=> request.into = "FRW_model"
      /\ Dealt = 1 <=> request.into = "z"
      /\ Dealt = 7 <=> request.into = "growth"
  BY AskShape, AskedRequest
<1>2. CASE AskNothing
  <2>1. tok' = tok /\ dbs' = [dbs EXCEPT ![request.into] = EmptyDatabase]
    BY <1>2 DEF AskNothing
  <2>2. dbs' = [l \in Lists |-> dbs'[l]]
    BY <2>1 DEF Prepared
  <2> QED
    BY <1>1, <2>1, <2>2 DEF Prepared, Lists
<1>3. CASE Ask /\ request.kind = "database"
  <2>1. /\ tok' = tok /\ dbs' = [l \in Lists |-> dbs'[l]]
        /\ \E db : dbs' = [dbs EXCEPT ![request.into] = db]
    BY <1>3, AskDatabase
  <2> QED
    BY <1>1, <2>1 DEF Prepared, Lists
<1>4. CASE Ask /\ request.kind = "token"
  <2>1. /\ dbs' = dbs /\ tok' = [t \in Params \cup {"linear_Pk"} |-> tok'[t]]
        /\ \E id : tok' = [tok EXCEPT ![request.into] = id]
    BY <1>4, AskToken
  <2> QED
    BY <1>1, <2>1 DEF Prepared, Params
<1> QED
  BY <1>1, <1>2, <1>3, <1>4

LEMMA PreparedStep ==
  ASSUME Progress, Prepared, TokenInv, TokenInv', KindInv, [Next]_vars
  PROVE  Prepared'
<1>1. given["z"] \subseteq given'["z"] /\ given["growth"] \subseteq given'["growth"]
  BY GivenGrows DEF TokenTables, Params
<1>2. CASE Ask \/ AskNothing
  <2>1. /\ pc = "execute" /\ UNCHANGED <<pc, job>>
        /\ Dealt \in Nat /\ Dealt' \in {Dealt, Dealt + 1} /\ todo # <<>>
        /\ request.kind \in {"database", "token"}
    BY <1>2, AskShape
  <2>2. Indexed(dbs'["z"]) /\ dbs'["z"].records \subseteq given'["z"]
    <3>1. CASE Dealt # 1
      BY <1>1, <1>2, <3>1, AskOther DEF Prepared
    <3>2. CASE Dealt = 1 /\ Ask
      BY <2>1, <3>2, AskedRequest, AskRedshift
    <3>3. CASE Dealt = 1 /\ AskNothing
      <4>1. request.into = "z" /\ dbs' = [dbs EXCEPT ![request.into] = EmptyDatabase]
        BY <2>1, <3>3, AskedRequest DEF AskNothing
      <4>2. dbs'["z"] = EmptyDatabase
        BY <4>1 DEF Prepared, Lists
      <4> QED
        BY <4>2, EmptyIndexed
    <3> QED
      BY <1>2, <3>1, <3>2, <3>3
  <2>3. Dealt' >= 8 => [value |-> job'.growth, id |-> tok'["growth"]] \in given'["growth"]
    <3>1. CASE Dealt = 7
      <4>1. request.into = "growth"
        BY <2>1, <3>1, AskedRequest
      <4>2. ~AskNothing
        BY <1>2, <4>1, AskShape DEF TokenRequest, DatabaseRequest, Lists
      <4> QED
        BY <1>2, <4>1, <4>2, AskGrowth
    <3>2. CASE Dealt # 7
      <4>1. tok'["growth"] = tok["growth"]
        BY <1>2, <3>2, AskOther
      <4>2. Dealt' >= 8 => Dealt >= 8
        BY <2>1, <3>2
      <4> QED
        BY <1>1, <2>1, <4>1, <4>2 DEF Prepared
    <3> QED
      BY <3>1, <3>2
  <2> QED
    BY <1>2, <2>2, <2>3, AskOther DEF Prepared
<1>3. CASE pc' = "idle" /\ tok' = NoTokens /\ dbs' = NoDatabases
  <2>1. dbs'["z"] = EmptyDatabase
    BY <1>3 DEF NoDatabases, Lists
  <2> QED
    BY <1>3, <2>1, EmptyIndexed DEF Prepared, NoTokens, NoDatabases
<1>4. CASE UNCHANGED <<tok, dbs>> /\ (pc' = "idle" \/ Dealt' = 0)
  <2>1. ~(pc' # "idle" /\ Dealt' >= 8)
    BY <1>4
  <2> HIDE DEF Dealt
  <2> QED
    BY <1>1, <1>4, <2>1 DEF Prepared
<1>5. CASE /\ UNCHANGED <<tok, dbs, job, pc>> /\ pc # "idle"
           /\ Dealt' = Dealt \/ (Dealt \in Nat /\ Dealt >= 10)
  <2>1. Dealt' >= 8 => Dealt >= 8
    BY <1>5
  <2> HIDE DEF Dealt
  <2> QED
    BY <1>1, <1>5, <2>1 DEF Prepared
<1> QED
  BY <1>2, <1>3, <1>4, <1>5, MemorySteps

LEMMA InitPrepared == Init => Prepared
<1> SUFFICES ASSUME Init PROVE Prepared
  OBVIOUS
<1>1. tok = NoTokens /\ dbs = NoDatabases /\ pc = "idle"
  BY DEF Init, InputInit
<1>2. dbs["z"] = EmptyDatabase
  BY <1>1 DEF NoDatabases, Lists
<1> QED
  BY <1>1, <1>2, EmptyIndexed DEF Prepared, NoTokens, NoDatabases

LEMMA PreparedInvariant == Spec => []Prepared
<1>1. Prepared /\ Progress /\ TokenInv /\ TokenInv' /\ KindInv /\ [Next]_vars => Prepared'
  BY PreparedStep
<1> QED
  BY <1>1, InitPrepared, ProgressInvariant, TokenInvariant, KindInvariant, PTL DEF Spec

------------------------------------------------------------------------------
(* The growth factors.                                                     *)

\* A row is labelled by tokens of what it was computed for.
RowGiven(r) ==
  /\ [value |-> r.value.at, id |-> r.zid] \in given["z"]
  /\ [value |-> r.value.start.params, id |-> r.params] \in given["growth"]

\* Between them, the tables have one row for a redshift: what was lost from
\* one of them is computed again for both.
OneEach ==
  \A r, s \in D \cup f : r.mid = s.mid /\ r.params = s.params /\ r.zid = s.zid => r = s

Has(table, id) == \E r \in Mine(table) : r.zid = id

\* The redshifts to integrate, each with a token of its own, have no rows.
WorkInv ==
  /\ Map(work.records) /\ work.records \subseteq dbs["z"].records
  /\ \A r, s \in work.records : r.id = s.id => r = s
  /\ \A r \in Mine(D) \cup Mine(f) : r.zid \notin Ids(work)
  /\ \A id \in Ids(dbs["z"]) \ Ids(work) : Has(D, id) /\ Has(f, id)

\* Before and after the rows are stored, and while indexes are dropped and created.
StageInv ==
  pc = "execute" =>
    /\ Dealt \in {11, 12} => WorkInv
    /\ Dealt >= 13 => \A id \in Ids(dbs["z"]) : Has(D, id) /\ Has(f, id)
    /\ Dealt = 11 /\ read = 1 => "D" \notin indexes
    /\ Dealt = 12 \/ (Dealt = 13 /\ read = 0) => "D" \notin indexes /\ "f" \notin indexes
    /\ Dealt = 13 /\ read = 1 => "f" \notin indexes

\* What was found keeps its labels, and its ends.
FoundInv ==
  LET walk == oneloop_values(found)
  IN  /\ \A i \in DOMAIN walk :
           walk[i].value.f = walk[i].value.D /\ RowGiven(RowOf(walk[i], walk[i].value.D))
      /\ found.z_db.records # {} =>
           /\ ends[1].value.f = ends[1].value.D
           /\ \A i \in {1, 2} : RowGiven(RowOf(ends[i], ends[i].value.D))
           /\ \A r \in found.z_db.records :
                ends[2].z.value <= r.value /\ r.value <= ends[1].z.value

GrowthInv == (\A r \in D \cup f : RowGiven(r)) /\ OneEach /\ StageInv /\ FoundInv

\* The tokens that are missing from one of the tables, and how they are not.
LEMMA MissingTokens ==
  ASSUME NEW db, NEW id
  PROVE  id \in missing_oneloop_growth_redshifts(db)
           <=> id \in Ids(db) /\ ~(Has(D, id) /\ Has(f, id))
  BY DEF missing_oneloop_growth_redshifts, missing_redshifts_for_table, Has

\* Nothing is left of the redshifts that are missing from one of the tables,
\* and nothing else is dropped.
LEMMA Dropped ==
  ASSUME NEW db, NEW table \in {D, f}, NEW r
  PROVE  r \in drop_inconsistent_redshifts(table, db)
           <=> r \in table /\ ~(r \in Mine(table) /\ r.zid \in missing_oneloop_growth_redshifts(db))
<1>1. r \in Mine(table) => r.zid \notin missing_redshifts_for_table(table, db)
  BY DEF missing_redshifts_for_table
<1>2. Mine(table) \subseteq table
  BY DEF Mine
<1> QED
  BY <1>1, <1>2 DEF drop_inconsistent_redshifts

\* The work is the records of the missing tokens.
LEMMA MissingRecords ==
  ASSUME NEW db, Indexed(db)
  PROVE  LET w == missing_db(db).records
         IN  /\ Map(w) /\ w \subseteq db.records
             /\ \A r, s \in w : r.id = s.id => r = s
             /\ \A id : (\E r \in w : r.id = id) <=> id \in missing_oneloop_growth_redshifts(db)
<1> DEFINE M == missing_oneloop_growth_redshifts(db)
           w == missing_db(db).records
<1>1. M \subseteq Ids(db)
  BY DEF missing_oneloop_growth_redshifts, missing_redshifts_for_table
<1>2. w = {r \in db.records : \E id \in M : r.value = db.index[id]}
  <2>1. db = [records |-> db.records, index |-> db.index]
    BY DEF Indexed
  <2>2. {r \in db.records : \E id \in M : r.value = lookup(db, id)}
          = {r \in db.records : \E id \in M : r.value = db.index[id]}
    BY DEF lookup
  <2>3. [db EXCEPT !.records = {r \in @ : \E id \in M : r.value = lookup(db, id)}]
          = [records |-> {r \in db.records : \E id \in M : r.value = db.index[id]},
             index |-> db.index]
    <3> DEFINE looked == {r \in db.records : \E id \in M : r.value = lookup(db, id)}
    <3>1. [db EXCEPT !.records = looked] = [records |-> looked, index |-> db.index]
      <4> HIDE DEF looked
      <4> QED BY <2>1
    <3> QED BY <2>2, <3>1
  <2> DEFINE d == [records |-> {r \in db.records : \E id \in M : r.value = db.index[id]},
                   index |-> db.index]
  <2>4. rebuild_key_index(d).records = d.records
    BY DEF rebuild_key_index
  <2> QED
    BY <2>3, <2>4 DEF missing_db
<1> HIDE DEF w
<1>3. ASSUME NEW r \in w PROVE r.id \in M /\ r.value = db.index[r.id]
  <2>1. PICK id \in M : r.value = db.index[id]
    BY <1>2
  <2>2. [value |-> db.index[id], id |-> id] \in db.records /\ r \in db.records
    BY <1>1, <1>2 DEF Indexed
  <2>3. r = [value |-> db.index[id], id |-> id]
    BY <2>1, <2>2 DEF Indexed, Map
  <2> QED
    BY <2>1, <2>3
<1>4. ASSUME NEW id \in M PROVE \E r \in w : r.id = id
  <2>1. [value |-> db.index[id], id |-> id] \in db.records
    BY <1>1 DEF Indexed
  <2> QED
    BY <1>2, <2>1
<1>5. w \subseteq db.records /\ IsFiniteSet(w)
  BY <1>2, FS_Subset DEF Indexed, Map
<1>6. Map(w)
  BY <1>5 DEF Indexed, Map
<1>7. \A r, s \in w : r.id = s.id => r = s
  BY <1>3, <1>6 DEF Map
<1> QED
  BY <1>3, <1>4, <1>5, <1>6, <1>7 DEF w

\* The work list is drawn up: what is missing has no rows, and all else has.
LEMMA ListWork ==
  ASSUME Prepared, build_loop_growth_work_list
  PROVE  /\ D' \subseteq D /\ f' \subseteq f /\ UNCHANGED <<tok, dbs>>
         /\ WorkInv'
         /\ missing_oneloop_growth_redshifts(dbs["z"]) = {} =>
              \A id \in Ids(dbs["z"]) : Has(D, id)' /\ Has(f, id)'
<1> DEFINE z == dbs["z"]
           M == missing_oneloop_growth_redshifts(z)
<1>1. /\ D' = drop_inconsistent_redshifts(D, z) /\ f' = drop_inconsistent_redshifts(f, z)
      /\ work' = missing_db(z) /\ UNCHANGED <<tok, dbs>>
  BY DEF build_loop_growth_work_list
<1>2. Indexed(z)
  BY DEF Prepared
<1>3. /\ Map(work'.records) /\ work'.records \subseteq z.records
      /\ \A r, s \in work'.records : r.id = s.id => r = s
      /\ \A id : (\E r \in work'.records : r.id = id) <=> id \in M
  BY <1>1, <1>2, MissingRecords
<1>4. Ids(work') = M /\ Ids(work)' = Ids(work')
  BY <1>3 DEF Ids
<1>5. \A r : /\ r \in D' <=> r \in D /\ ~(r \in Mine(D) /\ r.zid \in M)
             /\ r \in f' <=> r \in f /\ ~(r \in Mine(f) /\ r.zid \in M)
  BY <1>1, Dropped
<1>6. ASSUME NEW r \in Mine(D)' \cup Mine(f)' PROVE r.zid \notin M
  BY <1>1, <1>5 DEF Mine
<1>7. ASSUME NEW id \in Ids(z) \ M PROVE Has(D, id)' /\ Has(f, id)'
  <2>1. Has(D, id) /\ Has(f, id)
    BY MissingTokens
  <2>2. Mine(D)' = {r \in D' : r.mid = tok["FRW_model"] /\ r.params = tok["growth"]}
        /\ Mine(f)' = {r \in f' : r.mid = tok["FRW_model"] /\ r.params = tok["growth"]}
    BY <1>1 DEF Mine
  <2>3. PICK r \in Mine(D) : r.zid = id
    BY <2>1 DEF Has
  <2>4. PICK s \in Mine(f) : s.zid = id
    BY <2>1 DEF Has
  <2>5. r \in Mine(D)' /\ s \in Mine(f)'
    BY <1>5, <2>2, <2>3, <2>4 DEF Mine
  <2> QED
    BY <2>3, <2>4, <2>5 DEF Has
<1>8. WorkInv'
  BY <1>1, <1>3, <1>4, <1>6, <1>7 DEF WorkInv
<1> QED
  BY <1>1, <1>5, <1>7, <1>8

\* The row of a redshift, when it is integrated.
Stored(r) ==
  [mid |-> tok["FRW_model"], params |-> tok["growth"], zid |-> r.id,
   value |-> [at |-> r.value,
              start |-> ics(Reverse(Ascending(work))[1].value, job.growth),
              by |-> jobs, pipeline |-> job.pipeline]]

\* A container with a value for each redshift is walked in step with them.
LEMMA WalkedForwards ==
  ASSUME NEW c, NEW N \in Nat, DOMAIN c.values = 1 .. N, DOMAIN reverse_records(c.z_db) = 1 .. N
  PROVE  oneloop_values(c) =
           [n \in 1 .. N |-> [params |-> c.params, z |-> reverse_records(c.z_db)[n],
                              value |-> [D |-> c.values[n].D, f |-> c.values[n].f]]]
<1>1. ASSUME NEW n \in 1 .. N, NEW stray
      PROVE  dereference(c, increments(begin, n - 1), stray) =
               [params |-> c.params, z |-> reverse_records(c.z_db)[n],
                value |-> [D |-> c.values[n].D, f |-> c.values[n].f]]
  <2>1. increments(begin, n - 1) = [record |-> n, D |-> n, f |-> n]
    BY DEF increments, begin
  <2> QED
    BY <2>1 DEF dereference, element
<1> QED
  BY <1>1 DEF oneloop_values

\* The rows that are stored are those of the redshifts to integrate.
LEMMA StoredRows ==
  ASSUME Map(work.records), store
  PROVE  /\ D' = D \cup {Stored(r) : r \in work.records}
         /\ f' = f \cup {Stored(r) : r \in work.records}
         /\ UNCHANGED <<tok, dbs, work, indexes, found, ends, given>>
<1> DEFINE c == integrate(work, job.growth)
           times == Reverse(Ascending(work))
           N == Cardinality(work.records)
           state(z) == [at |-> z, start |-> ics(times[1].value, job.growth),
                        by |-> jobs, pipeline |-> job.pipeline]
           walk == oneloop_values(c)
           Row(v, value) == [mid |-> tok["FRW_model"], params |-> v.params,
                             zid |-> v.z.id, value |-> value]
           Drows == {Row(v, v.value.D) : v \in ToSet(walk)}
           frows == {Row(v, v.value.f) : v \in ToSet(walk)}
<1>1. /\ D' = D \cup Drows /\ f' = f \cup frows
      /\ UNCHANGED <<tok, dbs, work, indexes, found, ends, given>>
  BY DEF store, tokenVars
<1>2. /\ N \in Nat /\ DOMAIN times = 1 .. N
      /\ \A n \in 1 .. N : times[n] \in work.records
      /\ \A r \in work.records : \E n \in 1 .. N : times[n] = r
  BY DescendingRecords
<1>3. walk = [n \in 1 .. N |->
               [params |-> tok["growth"], z |-> times[n],
                value |-> [D |-> state(times[n].value), f |-> state(times[n].value)]]]
  <2>1. /\ c.params = tok["growth"] /\ c.z_db = work
        /\ c.values = [n \in DOMAIN times |->
             [D |-> state(times[n].value), f |-> state(times[n].value)]]
    BY DEF integrate, Container
  <2> HIDE DEF c, state
  <2>2. reverse_records(c.z_db) = times
    BY <2>1 DEF reverse_records
  <2> HIDE DEF times
  <2>3. DOMAIN c.values = 1 .. N /\ DOMAIN reverse_records(c.z_db) = 1 .. N
    BY <1>2, <2>1, <2>2
  <2>4. \A n \in 1 .. N :
          c.values[n].D = state(times[n].value) /\ c.values[n].f = state(times[n].value)
    BY <1>2, <2>1
  <2> HIDE DEF N
  <2> QED
    BY <1>2, <2>1, <2>2, <2>3, <2>4, WalkedForwards
<1> HIDE DEF c, state, times
<1>4. \A n \in 1 .. N : /\ Row(walk[n], walk[n].value.D) = Stored(times[n])
                        /\ Row(walk[n], walk[n].value.f) = Stored(times[n])
  BY <1>3 DEF Stored, state, times
<1>5. /\ DOMAIN walk = 1 .. N
      /\ ToSet(walk) = {walk[n] : n \in 1 .. N}
  BY <1>3 DEF ToSet
<1> HIDE DEF walk, N, Row
<1>6. /\ Drows = {Row(walk[n], walk[n].value.D) : n \in 1 .. N}
      /\ frows = {Row(walk[n], walk[n].value.f) : n \in 1 .. N}
  BY <1>5
<1>7. Drows = {Stored(times[n]) : n \in 1 .. N} /\ frows = {Stored(times[n]) : n \in 1 .. N}
  BY <1>4, <1>6
<1>8. {Stored(times[n]) : n \in 1 .. N} = {Stored(r) : r \in work.records}
  BY <1>2 DEF N
<1> QED
  BY <1>1, <1>7, <1>8

------------------------------------------------------------------------------
(* Reading the tables back.                                                *)

\* A descending sequence of n numbers up to n leaves none of them out.
LEMMA Descending ==
  ASSUME NEW N \in Nat, NEW h \in [1 .. N -> 1 .. N],
         \A m, n \in 1 .. N : m < n => h[m] > h[n]
  PROVE  \A n \in 1 .. N : h[n] = N - n + 1
<1>1. h \in Injection(1 .. N, 1 .. N)
  <2>1. \A m, n \in 1 .. N : h[m] = h[n] => m = n
    OBVIOUS
  <2> QED
    BY <2>1 DEF Injection, IsInjective
<1>2. h \in Surjection(1 .. N, 1 .. N)
  BY <1>1, FS_Injection, FS_Interval
<1>3. ASSUME NEW n \in 1 .. N PROVE h[n] = N - n + 1
  <2> DEFINE A == 1 .. n - 1
             B == h[n] + 1 .. N
             k == [i \in A |-> h[i]]
  <2>1. h[n] \in 1 .. N
    OBVIOUS
  <2>2. k \in [A -> B]
    BY <2>1
  <2>3. \A i, j \in A : k[i] = k[j] => i = j
    OBVIOUS
  <2>4. ASSUME NEW m \in B PROVE \E i \in A : k[i] = m
    <3>1. PICK i \in 1 .. N : h[i] = m
      BY <1>2, <2>1 DEF Surjection
    <3>2. h[i] > h[n] /\ h[i] \in 1 .. N
      BY <2>1, <3>1
    <3>3. n < i => h[n] > h[i]
      OBVIOUS
    <3>4. i < n
      <4>1. PICK x, y : x = h[i] /\ y = h[n]
        OBVIOUS
      <4> HIDE DEF A, B, k
      <4>2. x \in 1 .. N /\ y \in 1 .. N /\ x > y
        BY <2>1, <3>2, <4>1
      <4>3. n < i => y > x
        BY <3>3, <4>1
      <4>4. i = n => x = y
        BY <4>1
      <4> QED
        BY <4>2, <4>3, <4>4
    <3> QED
      BY <3>1, <3>4
  <2>5. k \in Bijection(A, B)
    BY <2>2, <2>3, <2>4 DEF Bijection, Injection, Surjection, IsInjective
  <2>6. ExistsBijection(A, B)
    BY <2>5 DEF ExistsBijection
  <2>7. IsFiniteSet(A) /\ Cardinality(A) = n - 1
    BY FS_Interval
  <2>8. Cardinality(B) = N - h[n]
    BY <2>1, FS_Interval
  <2>9. Cardinality(B) = Cardinality(A)
    BY <2>6, <2>7, FS_Bijection
  <2> QED
    BY <2>1, <2>7, <2>8, <2>9
<1> QED
  BY <1>3

\* A query for a table that has one row for each redshift gives their rows,
\* the last redshift's first.
LEMMA Selected ==
  ASSUME NEW z_db, Map(z_db.records), NEW table,
         \A id \in Ids(z_db) : Has(table, id),
         \A r, s \in Mine(table) : r.zid = s.zid => r = s
  PROVE  LET N == Cardinality(z_db.records)
             s == select(table, z_db)
         IN  /\ N \in Nat /\ Len(s) = N
             /\ \A n \in 1 .. N :
                  s[n] \in Mine(table) /\ s[n].zid = Ascending(z_db)[N - n + 1].id
<1> DEFINE N == Cardinality(z_db.records)
           a == Ascending(z_db)
           row == [n \in 1 .. N |-> CHOOSE r \in Mine(table) : r.zid = a[n].id]
           rows == joined(table, z_db)
           Sorted(t) == /\ IsInjective(t)
                        /\ \A m, n \in DOMAIN t : m < n => t[m][1] >= t[n][1]
<1>1. N \in Nat /\ DOMAIN a = 1 .. N /\ \A n \in 1 .. N : a[n] \in z_db.records
  BY AscendingRecords
<1>2. ASSUME NEW n \in 1 .. N
      PROVE  /\ row[n] \in Mine(table) /\ row[n].zid = a[n].id
             /\ \A r \in Mine(table) : r.zid = a[n].id => r = row[n]
  <2>1. a[n].id \in Ids(z_db)
    BY <1>1 DEF Ids
  <2>2. \E r \in Mine(table) : r.zid = a[n].id
    BY <2>1 DEF Has
  <2> QED
    BY <2>2
<1>3. \A p : p \in rows <=> \E n \in 1 .. N : p = <<n, row[n]>>
  <2> HIDE DEF row, a, N
  <2>1. \A p : p \in rows <=> \E n \in 1 .. N : \E r \in Mine(table) : p = <<n, r>> /\ r.zid = a[n].id
    BY <1>1 DEF joined, a
  <2> QED
    BY <1>2, <2>1
<1> HIDE DEF row, rows, a, N
<1>4. Cardinality(rows) = N
  <2> DEFINE g == [n \in 1 .. N |-> <<n, row[n]>>]
  <2>1. g \in [1 .. N -> rows]
    BY <1>3
  <2>2. \A m, n \in 1 .. N : g[m] = g[n] => m = n
    OBVIOUS
  <2>3. \A p \in rows : \E n \in 1 .. N : g[n] = p
    BY <1>3
  <2>4. g \in Bijection(1 .. N, rows)
    BY <2>1, <2>2, <2>3 DEF Bijection, Injection, Surjection, IsInjective
  <2> QED
    BY <1>1, <2>4, FS_CountingElements DEF ExistsBijection
<1>5. \E t \in [1 .. N -> rows] : Sorted(t)
  <2> DEFINE w == [n \in 1 .. N |-> <<N - n + 1, row[N - n + 1]>>]
  <2>1. \A n \in 1 .. N : N - n + 1 \in 1 .. N
    BY <1>1
  <2>2. w \in [1 .. N -> rows]
    BY <1>3, <2>1
  <2>3. \A n \in 1 .. N : w[n][1] = N - n + 1
    OBVIOUS
  <2> HIDE DEF w
  <2>4. Sorted(w)
    BY <1>1, <2>2, <2>3 DEF IsInjective
  <2> QED
    BY <2>2, <2>4
<1> DEFINE sorted == CHOOSE t \in [1 .. N -> rows] : Sorted(t)
<1>6. sorted \in [1 .. N -> rows] /\ Sorted(sorted)
  BY <1>5
<1>7. select(table, z_db) = [n \in 1 .. N |-> sorted[n][2]]
  <2>1. select(table, z_db) = [n \in DOMAIN sorted |-> sorted[n][2]]
    BY <1>4 DEF select, rows
  <2> QED
    BY <1>6, <2>1
<1> HIDE DEF sorted
<1>8. ASSUME NEW n \in 1 .. N
      PROVE  sorted[n][1] \in 1 .. N /\ sorted[n] = <<sorted[n][1], row[sorted[n][1]]>>
  BY <1>3, <1>6
<1> DEFINE h == [n \in 1 .. N |-> sorted[n][1]]
<1>9. h \in [1 .. N -> 1 .. N]
  BY <1>8
<1>10. \A m, n \in 1 .. N : m < n => h[m] > h[n]
  <2> SUFFICES ASSUME NEW m \in 1 .. N, NEW n \in 1 .. N, m < n PROVE h[m] > h[n]
    OBVIOUS
  <2>1. h[m] >= h[n]
    BY <1>6
  <2>2. sorted[m] # sorted[n]
    BY <1>6 DEF IsInjective
  <2>3. h[m] # h[n]
    BY <1>8, <2>2
  <2> QED
    BY <1>9, <2>1, <2>3
<1>11. \A n \in 1 .. N : h[n] = N - n + 1
  BY <1>1, <1>9, <1>10, Descending
<1>12. ASSUME NEW n \in 1 .. N
       PROVE  /\ select(table, z_db)[n] \in Mine(table)
              /\ select(table, z_db)[n].zid = a[N - n + 1].id
  <2>1. sorted[n][1] = N - n + 1 /\ N - n + 1 \in 1 .. N
    BY <1>1, <1>11
  <2>2. sorted[n][2] = row[N - n + 1]
    BY <1>8, <2>1
  <2> QED
    BY <1>2, <1>7, <2>1, <2>2
<1>13. Len(select(table, z_db)) = N
  BY <1>1, <1>7
<1> QED
  BY <1>1, <1>12, <1>13 DEF N, a

\* What find() makes of tables with one row for each redshift: as many values,
\* each of the same row in both tables, in step with the redshifts.
LEMMA Found ==
  ASSUME NEW z_db, Map(z_db.records), OneEach,
         \A id \in Ids(z_db) : Has(D, id) /\ Has(f, id)
  PROVE  LET c == find(z_db)
             N == Cardinality(z_db.records)
         IN  /\ c.params = tok["growth"] /\ c.z_db = z_db
             /\ N \in Nat /\ Len(c.values) = N /\ DOMAIN c.values = 1 .. N
             /\ DOMAIN reverse_records(z_db) = 1 .. N /\ Len(reverse_records(z_db)) = N
             /\ \A n \in 1 .. N : \E r \in Mine(D) :
                  /\ r.zid = reverse_records(z_db)[n].id
                  /\ c.values[n] = [D |-> r.value, f |-> r.value]
<1> DEFINE N == Cardinality(z_db.records)
           Ds == select(D, z_db)
           fs == select(f, z_db)
           c == find(z_db)
<1>1. /\ \A r, s \in Mine(D) : r.zid = s.zid => r = s
      /\ \A r, s \in Mine(f) : r.zid = s.zid => r = s
      /\ \A r \in Mine(D), s \in Mine(f) : r.zid = s.zid => r = s
  BY DEF OneEach, Mine
<1>2. /\ N \in Nat /\ Len(Ds) = N
      /\ \A n \in 1 .. N : Ds[n] \in Mine(D) /\ Ds[n].zid = Ascending(z_db)[N - n + 1].id
  BY <1>1, Selected
<1>3. /\ Len(fs) = N
      /\ \A n \in 1 .. N : fs[n] \in Mine(f) /\ fs[n].zid = Ascending(z_db)[N - n + 1].id
  BY <1>1, Selected
<1>4. /\ \A n \in 1 .. N : reverse_records(z_db)[n] = Ascending(z_db)[N - n + 1]
      /\ DOMAIN reverse_records(z_db) = 1 .. N /\ Len(reverse_records(z_db)) = N
  BY DescendingRecords DEF reverse_records
<1>5. /\ c.params = tok["growth"] /\ c.z_db = z_db
      /\ c.values = [n \in 1 .. Min({Len(Ds), Len(fs)}) |-> [D |-> Ds[n].value, f |-> fs[n].value]]
  BY DEF find, Container
<1> HIDE DEF N, Ds, fs, c
<1>6. Min({Len(Ds), Len(fs)}) = N
  BY <1>2, <1>3 DEF Min
<1>7. \A n \in 1 .. N : fs[n] = Ds[n]
  BY <1>1, <1>2, <1>3
<1>8. c.values = [n \in 1 .. N |-> [D |-> Ds[n].value, f |-> Ds[n].value]]
  BY <1>5, <1>6, <1>7
<1>9. Len(c.values) = N /\ DOMAIN c.values = 1 .. N
  BY <1>2, <1>8
<1>10. ASSUME NEW n \in 1 .. N
       PROVE  \E r \in Mine(D) : /\ r.zid = reverse_records(z_db)[n].id
                                  /\ c.values[n] = [D |-> r.value, f |-> r.value]
  BY <1>2, <1>4, <1>8
<1> QED
  BY <1>2, <1>4, <1>5, <1>9, <1>10 DEF N, c

\* The first value, and the factor of the last: a step back from the end leads to it.
LEMMA ReadEnds ==
  ASSUME NEW c, NEW N \in Nat, N >= 1, NEW stray, DOMAIN c.values = 1 .. N, Len(c.values) = N,
         Len(reverse_records(c.z_db)) = N
  PROVE  LET first == dereference(c, begin, stray)
             last == dereference(c, decrement(end(c)), stray)
         IN  /\ first.params = c.params /\ last.params = c.params
             /\ first.z = reverse_records(c.z_db)[1]
             /\ first.value.D = c.values[1].D /\ first.value.f = c.values[1].f
             /\ last.z = reverse_records(c.z_db)[N] /\ last.value.D = c.values[N].D
<1>1. decrement(end(c)) = [record |-> N, D |-> N, f |-> N + 1]
  <2>1. end(c) = [record |-> N + 1, D |-> N + 1, f |-> N + 1]
    BY DEF end
  <2>2. N + 1 - 1 = N
    OBVIOUS
  <2> QED
    BY <2>1, <2>2 DEF decrement
<1>2. 1 \in DOMAIN c.values /\ N \in DOMAIN c.values
  OBVIOUS
<1> QED
  BY <1>1, <1>2 DEF dereference, element, begin

------------------------------------------------------------------------------
(* The steps of a job.                                                     *)

\* The rows of a job whose labels stay.
LEMMA SameMine ==
  ASSUME UNCHANGED <<D, f>>, tok'["FRW_model"] = tok["FRW_model"], tok'["growth"] = tok["growth"]
  PROVE  /\ Mine(D)' = Mine(D) /\ Mine(f)' = Mine(f)
         /\ \A id : (Has(D, id)' <=> Has(D, id)) /\ (Has(f, id)' <=> Has(f, id))
<1>1. Mine(D)' = Mine(D) /\ Mine(f)' = Mine(f)
  BY DEF Mine
<1> QED
  BY <1>1 DEF Has

\* Once the rows are stored they stay, while the job goes on.
LEMMA LateStage ==
  ASSUME StageInv, UNCHANGED <<D, f>>, Dealt \in Nat, Dealt >= 13, Dealt' \in Nat, Dealt' >= 14,
         pc = "execute", dbs'["z"] = dbs["z"],
         tok'["FRW_model"] = tok["FRW_model"], tok'["growth"] = tok["growth"]
  PROVE  StageInv'
<1>1. \A id \in Ids(dbs["z"]) : Has(D, id) /\ Has(f, id)
  BY DEF StageInv
<1>2. \A id \in Ids(dbs'["z"]) : Has(D, id)' /\ Has(f, id)'
  BY <1>1, SameMine
<1>3. /\ Dealt' \notin {11, 12} /\ Dealt' # 13
  OBVIOUS
<1> HIDE DEF Dealt
<1> QED
  BY <1>2, <1>3 DEF StageInv

\* A job that ends, or has only begun.
LEMMA EarlyStage ==
  ASSUME pc' # "execute" \/ (Dealt' \in Nat /\ Dealt' <= 10)
  PROVE  StageInv'
<1>1. pc' = "execute" => Dealt' \notin {11, 12} /\ Dealt' # 13 /\ ~(Dealt' >= 13)
  OBVIOUS
<1> HIDE DEF Dealt
<1> QED
  BY <1>1 DEF StageInv

LEMMA AskStage ==
  ASSUME Progress, Prepared, StageInv, Ask \/ AskNothing, UNCHANGED <<D, f>>
  PROVE  StageInv'
<1>1. /\ pc = "execute" /\ todo # <<>> /\ request.kind \in {"database", "token"}
      /\ Dealt \in Nat /\ Dealt' \in {Dealt, Dealt + 1}
  BY AskShape
<1>2. Dealt <= 9 \/ Dealt >= 14
  BY <1>1, RequestKinds
<1>3. CASE Dealt <= 9
  <2>1. Dealt' \in Nat /\ Dealt' <= 10
    BY <1>1, <1>3
  <2> QED
    BY <2>1, EarlyStage
<1>4. CASE Dealt >= 14
  <2>1. Dealt >= 13 /\ Dealt' \in Nat /\ Dealt' >= 14 /\ Dealt # 0 /\ Dealt # 7 /\ Dealt # 1
    BY <1>1, <1>4
  <2>2. dbs'["z"] = dbs["z"] /\ tok'["FRW_model"] = tok["FRW_model"] /\ tok'["growth"] = tok["growth"]
    BY <2>1, AskOther
  <2> QED
    BY <1>1, <2>1, <2>2, LateStage
<1> QED
  BY <1>2, <1>3, <1>4

LEMMA ListStage ==
  ASSUME Progress, Prepared, StageInv, build_loop_growth_work_list
  PROVE  StageInv'
<1> DEFINE M == missing_oneloop_growth_redshifts(dbs["z"])
<1>1. /\ pc = "execute" /\ todo # <<>> /\ Dealt = 10 /\ UNCHANGED <<job, pc>>
      /\ Advance(IF M = {} THEN 4 ELSE 1) /\ read' = 0
  BY RequestKinds DEF build_loop_growth_work_list, Asking, Advance
<1>2. Len(execute(job)) \in Nat /\ Len(execute(job)) >= 14
  BY <1>1, RequestAt
<1>3. WorkInv' /\ UNCHANGED <<dbs>>
  BY ListWork
<1>4. CASE M = {}
  <2>1. Advance(4) /\ 4 \in Nat /\ 4 <= Len(execute(job)) - Dealt
    BY <1>1, <1>2, <1>4
  <2>2. Dealt' = Dealt + 4
    BY <1>1, <2>1, AdvanceProgress
  <2>3. Dealt' = 14
    BY <1>1, <2>2
  <2>4. \A id \in Ids(dbs'["z"]) : Has(D, id)' /\ Has(f, id)'
    BY <1>3, <1>4, ListWork
  <2> HIDE DEF Dealt
  <2> QED
    BY <2>3, <2>4 DEF StageInv
<1>5. CASE M # {}
  <2>1. Advance(1) /\ 1 \in Nat /\ 1 <= Len(execute(job)) - Dealt
    BY <1>1, <1>2, <1>5
  <2>2. Dealt' = Dealt + 1
    BY <1>1, <2>1, AdvanceProgress
  <2>3. Dealt' = 11
    BY <1>1, <2>2
  <2> HIDE DEF Dealt
  <2> QED
    BY <1>1, <1>3, <2>3 DEF StageInv
<1> QED
  BY <1>4, <1>5

LEMMA SetupStage ==
  ASSUME Progress, StageInv, setup_growth_write
  PROVE  StageInv'
<1>1. /\ pc = "execute" /\ todo # <<>> /\ Dealt = 11 /\ request.values = <<"D", "f">>
      /\ Answered /\ UNCHANGED <<job, pc, D, f, tok, dbs, work>>
      /\ indexes' = indexes \ {request.values[read + 1]}
  BY RequestKinds DEF setup_growth_write, Asking
<1>2. read \in {0, 1}
  BY <1>1 DEF Progress
<1>3. \/ read = 0 /\ Dealt' = Dealt /\ read' = 1
      \/ read = 1 /\ Dealt' = Dealt + 1 /\ read' = 0
  BY <1>1, <1>2, AnsweredProgress
<1>4. WorkInv
  BY <1>1 DEF StageInv
<1>5. WorkInv'
  <2>1. Mine(D)' = Mine(D) /\ Mine(f)' = Mine(f)
        /\ \A id : (Has(D, id)' <=> Has(D, id)) /\ (Has(f, id)' <=> Has(f, id))
    BY <1>1, SameMine
  <2> QED
    BY <1>1, <1>4, <2>1 DEF WorkInv
<1>6. CASE read = 0 /\ Dealt' = Dealt /\ read' = 1
  <2>1. "D" \notin indexes' /\ Dealt' = 11
    BY <1>1, <1>6
  <2> HIDE DEF Dealt
  <2> QED
    BY <1>5, <1>6, <2>1 DEF StageInv
<1>7. CASE read = 1 /\ Dealt' = Dealt + 1 /\ read' = 0
  <2>1. "D" \notin indexes' /\ "f" \notin indexes' /\ Dealt' = 12
    BY <1>1, <1>7 DEF StageInv
  <2> HIDE DEF Dealt
  <2> QED
    BY <1>5, <1>7, <2>1 DEF StageInv
<1> QED
  BY <1>3, <1>6, <1>7

\* The redshifts to integrate have rows, when these are stored.
LEMMA StoreStage ==
  ASSUME Progress, StageInv, store
  PROVE  StageInv'
<1>1. pc = "execute" /\ todo # <<>> /\ Dealt = 12 /\ Advance(1) /\ UNCHANGED <<job, pc>> /\ read' = 0
  BY RequestKinds DEF store, Asking, Advance
<1>2. Dealt' = 13
  <2>1. 1 \in Nat /\ 1 <= Len(execute(job)) - Dealt
    BY <1>1, RequestAt
  <2>2. Dealt' = Dealt + 1
    BY <1>1, <2>1, AdvanceProgress
  <2> QED
    BY <1>1, <2>2
<1>3. WorkInv /\ "D" \notin indexes /\ "f" \notin indexes
  BY <1>1 DEF StageInv
<1>4. /\ D' = D \cup {Stored(r) : r \in work.records}
      /\ f' = f \cup {Stored(r) : r \in work.records}
      /\ UNCHANGED <<tok, dbs, work, indexes, found, ends, given>>
  BY <1>3, StoredRows DEF WorkInv
<1>5. /\ Mine(D)' = {r \in D' : r.mid = tok["FRW_model"] /\ r.params = tok["growth"]}
      /\ Mine(f)' = {r \in f' : r.mid = tok["FRW_model"] /\ r.params = tok["growth"]}
  BY <1>4 DEF Mine
<1>6. ASSUME NEW id \in Ids(dbs["z"]) PROVE Has(D, id)' /\ Has(f, id)'
  <2>1. CASE id \in Ids(work)
    <3>1. PICK r \in work.records : r.id = id
      BY <2>1 DEF Ids
    <3>2. /\ Stored(r).mid = tok["FRW_model"] /\ Stored(r).params = tok["growth"]
          /\ Stored(r).zid = id
      BY <3>1 DEF Stored
    <3>3. Stored(r) \in D' /\ Stored(r) \in f'
      BY <1>4
    <3>4. Stored(r) \in Mine(D)' /\ Stored(r) \in Mine(f)'
      BY <1>5, <3>2, <3>3
    <3> QED
      BY <3>2, <3>4 DEF Has
  <2>2. CASE id \notin Ids(work)
    <3>1. PICK r \in Mine(D), s \in Mine(f) : r.zid = id /\ s.zid = id
      BY <1>3, <2>2 DEF WorkInv, Has
    <3>2. r \in Mine(D)' /\ s \in Mine(f)'
      BY <1>4, <1>5, <3>1 DEF Mine
    <3> QED
      BY <3>1, <3>2 DEF Has
  <2> QED
    BY <2>1, <2>2
<1>7. \A id \in Ids(dbs'["z"]) : Has(D, id)' /\ Has(f, id)'
  BY <1>4, <1>6
<1>8. read' = 0 /\ "D" \notin indexes' /\ "f" \notin indexes'
  BY <1>1, <1>3, <1>4
<1>9. Dealt' \notin {11, 12} /\ Dealt' # 11 /\ Dealt' # 12
  BY <1>2
<1> HIDE DEF Dealt
<1> QED
  BY <1>7, <1>8, <1>9 DEF StageInv

\* An index that is created is not there.
LEMMA FinalizeStage ==
  ASSUME Progress, StageInv, finalize_growth_write
  PROVE  StageInv' /\ outcome' = outcome
<1>1. /\ pc = "execute" /\ todo # <<>> /\ Dealt = 13 /\ request.values = <<"D", "f">>
      /\ UNCHANGED <<D, f>>
  BY RequestKinds DEF finalize_growth_write, Asking
<1>2. read \in {0, 1}
  BY <1>1 DEF Progress
<1>3. request.values[read + 1] \notin indexes
  BY <1>1, <1>2 DEF StageInv
<1>4. /\ indexes' = indexes \cup {request.values[read + 1]} /\ Answered
      /\ UNCHANGED <<job, pc, tok, dbs, outcome>>
  BY <1>3 DEF finalize_growth_write
<1>5. \/ read = 0 /\ Dealt' = Dealt /\ read' = 1
      \/ read = 1 /\ Dealt' = Dealt + 1 /\ read' = 0
  BY <1>1, <1>2, <1>4, AnsweredProgress
<1>6. CASE read = 0 /\ Dealt' = Dealt /\ read' = 1
  <2>1. /\ "f" \notin indexes' /\ Dealt' \notin {11, 12}
        /\ Dealt' # 11 /\ Dealt' # 12 /\ Dealt' = 13
    BY <1>1, <1>4, <1>6 DEF StageInv
  <2>2. \A id \in Ids(dbs'["z"]) : Has(D, id)' /\ Has(f, id)'
    <3>1. \A id \in Ids(dbs["z"]) : Has(D, id) /\ Has(f, id)
      BY <1>1 DEF StageInv
    <3> QED
      BY <1>1, <1>4, <3>1, SameMine
  <2> HIDE DEF Dealt
  <2> QED
    BY <1>4, <1>6, <2>1, <2>2 DEF StageInv
<1>7. CASE read = 1 /\ Dealt' = Dealt + 1 /\ read' = 0
  <2>1. Dealt \in Nat /\ Dealt >= 13 /\ Dealt' \in Nat /\ Dealt' >= 14
    BY <1>1, <1>7
  <2>2. dbs'["z"] = dbs["z"] /\ tok'["FRW_model"] = tok["FRW_model"] /\ tok'["growth"] = tok["growth"]
    BY <1>4
  <2>3. pc = "execute" /\ UNCHANGED <<D, f>>
    BY <1>1
  <2>4. StageInv'
    BY <2>1, <2>2, <2>3, LateStage
  <2> QED
    BY <1>4, <2>4
<1> QED
  BY <1>4, <1>5, <1>6, <1>7

\* A job finds all that it has just seen to.
LEMMA RescaleStage ==
  ASSUME Progress, Prepared, OneEach, StageInv, rescale_final_Pk
  PROVE  /\ StageInv' /\ outcome' = outcome
         /\ found' = find(dbs["z"])
         /\ \E stray : ends' = <<dereference(found', begin, stray),
                                 dereference(found', decrement(end(found')), stray)>>
         /\ Map(dbs["z"].records)
         /\ \A id \in Ids(dbs["z"]) : Has(D, id) /\ Has(f, id)
<1>1. /\ pc = "execute" /\ todo # <<>> /\ Dealt >= 14 /\ UNCHANGED <<D, f>>
      /\ Dealt \in Nat /\ 1 \in Nat /\ 1 <= Len(execute(job)) - Dealt
  BY RequestKinds, RequestAt DEF rescale_final_Pk, Asking
<1>2. Map(dbs["z"].records) /\ \A id \in Ids(dbs["z"]) : Has(D, id) /\ Has(f, id)
  BY <1>1 DEF Prepared, Indexed, StageInv
<1>3. Len(find(dbs["z"]).values) = Cardinality(dbs["z"].records)
  BY <1>2, Found
<1>4. /\ found' = find(dbs["z"]) /\ Advance(1)
      /\ \E stray : ends' = <<dereference(found', begin, stray),
                              dereference(found', decrement(end(found')), stray)>>
      /\ UNCHANGED <<job, pc, tok, dbs, outcome>>
  BY <1>3 DEF rescale_final_Pk
<1>5. Dealt' = Dealt + 1
  BY <1>1, <1>4, AdvanceProgress
<1>6. Dealt >= 13 /\ Dealt' \in Nat /\ Dealt' >= 14
  BY <1>1, <1>5
<1>7. dbs'["z"] = dbs["z"] /\ tok'["FRW_model"] = tok["FRW_model"] /\ tok'["growth"] = tok["growth"]
  BY <1>4
<1>8. StageInv'
  BY <1>1, <1>6, <1>7, LateStage
<1> QED
  BY <1>2, <1>4, <1>8

\* All the steps of a job.
LEMMA StageStep ==
  ASSUME Progress, Prepared, OneEach, StageInv, [Next]_vars
  PROVE  StageInv'
<1>1. CASE UNCHANGED vars
  <2>1. /\ UNCHANGED <<pc, read, D, f, tok, dbs, work, indexes, todo, job>>
    BY <1>1 DEF vars, inputVars, growthVars
  <2>2. Dealt' = Dealt
    BY <2>1 DEF Dealt
  <2>3. WorkInv => WorkInv'
    BY <2>1, SameMine DEF WorkInv
  <2>4. \A id : (Has(D, id)' <=> Has(D, id)) /\ (Has(f, id)' <=> Has(f, id))
    BY <2>1, SameMine
  <2> HIDE DEF Dealt
  <2> QED
    BY <2>1, <2>2, <2>3, <2>4 DEF StageInv
<1>2. CASE InputNext /\ UNCHANGED <<D, f>>
  <2>1. CASE \E j \in Jobs : attach(j) \/ create(j)
    <3>1. PICK j \in Jobs : Start(j) /\ pc' \in {"create", "execute"}
      BY <2>1 DEF attach, create
    <3>2. Dealt' = 0
      BY <3>1, StartProgress
    <3>3. Dealt' \in Nat /\ Dealt' <= 10
      BY <3>2
    <3> QED
      BY <3>3, EarlyStage
  <2>2. CASE create_table \/ (\E j \in Jobs : turn_away(j)) \/ Fail \/ Killed \/ Done
    <3>1. pc' # "execute"
      BY <2>2 DEF create_table, turn_away, Fail, Killed, Done, End
    <3> QED
      BY <3>1, EarlyStage
  <2>3. CASE write_pipeline_id
    <3>1. UNCHANGED <<todo, read, job>> /\ pc = "create" /\ pc' = "execute"
      BY <2>3 DEF write_pipeline_id
    <3>2. Dealt' = 0
      BY <3>1, SameProgress DEF Progress
    <3>3. Dealt' \in Nat /\ Dealt' <= 10
      BY <3>2
    <3> QED
      BY <3>3, EarlyStage
  <2>4. CASE Ask \/ AskNothing
    BY <1>2, <2>4, AskStage
  <2> QED
    BY <1>2, <2>1, <2>2, <2>3, <2>4 DEF InputNext
<1>3. CASE Edit
  <2>1. pc' # "execute"
    BY <1>3 DEF Edit, inputVars
  <2> QED
    BY <2>1, EarlyStage
<1> QED
  BY <1>1, <1>2, <1>3, ListStage, SetupStage, StoreStage, FinalizeStage, RescaleStage DEF Next

------------------------------------------------------------------------------
\* The rows after a step: those there were, or those of the redshifts to integrate.
LEMMA RowSteps ==
  ASSUME Progress, StageInv, [Next]_vars
  PROVE  \/ D' \subseteq D /\ f' \subseteq f
         \/ store /\ pc = "execute" /\ Dealt = 12 /\ WorkInv
<1>1. CASE UNCHANGED vars
  BY <1>1 DEF vars, growthVars
<1>2. CASE build_loop_growth_work_list
  BY <1>2, Dropped DEF build_loop_growth_work_list
<1>3. CASE store
  <2>1. pc = "execute" /\ Dealt = 12
    BY <1>3, RequestKinds DEF store, Asking
  <2> QED
    BY <1>3, <2>1 DEF StageInv
<1>4. CASE setup_growth_write \/ finalize_growth_write \/ rescale_final_Pk \/ Edit
  BY <1>4 DEF setup_growth_write, finalize_growth_write, rescale_final_Pk, Edit
<1> QED
  BY <1>1, <1>2, <1>3, <1>4 DEF Next

\* No two rows have the same labels.
LEMMA OneEachStep ==
  ASSUME Progress, StageInv, OneEach, [Next]_vars
  PROVE  OneEach'
<1>1. CASE D' \subseteq D /\ f' \subseteq f
  BY <1>1 DEF OneEach
<1>2. CASE store /\ WorkInv
  <2> DEFINE new == {Stored(r) : r \in work.records}
  <2>1. D' = D \cup new /\ f' = f \cup new
    BY <1>2, StoredRows DEF WorkInv
  <2>2. ASSUME NEW r \in D \cup f, NEW s \in new,
               r.mid = s.mid, r.params = s.params, r.zid = s.zid
        PROVE  FALSE
    <3>1. PICK w \in work.records : s = Stored(w)
      OBVIOUS
    <3>2. s.mid = tok["FRW_model"] /\ s.params = tok["growth"] /\ s.zid = w.id
      BY <3>1 DEF Stored
    <3>3. r \in Mine(D) \cup Mine(f)
      BY <2>2, <3>2 DEF Mine
    <3>4. w.id \in Ids(work)
      BY DEF Ids
    <3> QED
      BY <1>2, <2>2, <3>2, <3>3, <3>4 DEF WorkInv
  <2>3. ASSUME NEW r \in new, NEW s \in new, r.zid = s.zid PROVE r = s
    <3>1. PICK v \in work.records, w \in work.records : r = Stored(v) /\ s = Stored(w)
      OBVIOUS
    <3>2. r.zid = v.id /\ s.zid = w.id
      BY <3>1 DEF Stored
    <3>3. v = w
      BY <1>2, <2>3, <3>2 DEF WorkInv
    <3> QED
      BY <3>1, <3>3
  <2> HIDE DEF new
  <2>4. \A r, s \in D' \cup f' : r.mid = s.mid /\ r.params = s.params /\ r.zid = s.zid => r = s
    BY <2>1, <2>2, <2>3 DEF OneEach
  <2> QED
    BY <2>4 DEF OneEach
<1> QED
  BY <1>1, <1>2, RowSteps

\* Rows are stored under the tokens of what they were computed for.
LEMMA RowGivenStep ==
  ASSUME Progress, Prepared, StageInv, \A r \in D \cup f : RowGiven(r), [Next]_vars
  PROVE  \A r \in D' \cup f' : RowGiven(r)'
<1>1. given["z"] \subseteq given'["z"] /\ given["growth"] \subseteq given'["growth"]
  BY GivenGrows DEF TokenTables, Params
<1>2. \A r \in D \cup f : RowGiven(r)'
  BY <1>1 DEF RowGiven
<1>3. CASE store /\ pc = "execute" /\ Dealt = 12 /\ WorkInv
  <2>1. ASSUME NEW r \in work.records, NEW s, s = Stored(r) PROVE RowGiven(s)'
    <3>1. r \in given["z"] /\ r = [value |-> r.value, id |-> r.id]
      BY <1>3 DEF WorkInv, Prepared, Indexed
    <3>2. [value |-> job.growth, id |-> tok["growth"]] \in given["growth"]
      BY <1>3 DEF Prepared
    <3>3. /\ s.value.at = r.value /\ s.zid = r.id
          /\ s.value.start.params = job.growth /\ s.params = tok["growth"]
      BY <2>1 DEF Stored, ics
    <3>4. RowGiven(s)
      BY <3>1, <3>2, <3>3 DEF RowGiven
    <3> QED
      BY <1>1, <3>4 DEF RowGiven
  <2> QED
    BY <1>2, <1>3, <2>1, StoredRows DEF WorkInv
<1> QED
  BY <1>2, <1>3, RowSteps

\* A process that has read nothing has no values.
LEMMA NoValues == NoGrowth.z_db.records = {} /\ DOMAIN oneloop_values(NoGrowth) = {}
<1>1. NoGrowth.z_db = EmptyDatabase /\ EmptyDatabase.records = {} /\ Map(EmptyDatabase.records)
  BY EmptyIndexed DEF NoGrowth, Indexed
<1>2. Cardinality(EmptyDatabase.records) = 0
  BY <1>1, FS_EmptySet
<1>3. DOMAIN reverse_records(EmptyDatabase) = {}
  <2>1. DOMAIN Reverse(Ascending(EmptyDatabase)) = 1 .. 0
    BY <1>1, <1>2, DescendingRecords
  <2> QED
    BY <2>1 DEF reverse_records
<1> QED
  BY <1>1, <1>3 DEF oneloop_values

\* Nothing is found before the tables are read.
LEMMA NothingFound == found = NoGrowth => FoundInv
<1> SUFFICES ASSUME found = NoGrowth PROVE FoundInv
  OBVIOUS
<1>1. found.z_db.records = {} /\ DOMAIN oneloop_values(found) = {}
  BY NoValues
<1> QED
  BY <1>1 DEF FoundInv

\* What the process forgets, or keeps.
LEMMA KeptFound ==
  ASSUME FoundInv, given["z"] \subseteq given'["z"], given["growth"] \subseteq given'["growth"],
         (found' = found /\ ends' = ends) \/ found' = NoGrowth
  PROVE  FoundInv'
<1>1. CASE found' = found /\ ends' = ends
  BY <1>1 DEF FoundInv, RowGiven, oneloop_values
<1>2. CASE found' = NoGrowth
  <2>1. found'.z_db.records = {} /\ DOMAIN oneloop_values(found') = {}
    BY <1>2, NoValues
  <2> QED
    BY <2>1 DEF FoundInv, oneloop_values
<1> QED
  BY <1>1, <1>2

\* What is found is in step with the redshifts, and labelled by given tokens.
LEMMA FoundNow ==
  ASSUME Progress, Prepared, \A r \in D \cup f : RowGiven(r), OneEach, StageInv, rescale_final_Pk,
         given["z"] \subseteq given'["z"], given["growth"] \subseteq given'["growth"]
  PROVE  FoundInv'
<1> DEFINE z == dbs["z"]
           N == Cardinality(z.records)
           records == reverse_records(z)
<1>1. /\ found' = find(z) /\ Map(z.records)
      /\ \A id \in Ids(z) : Has(D, id) /\ Has(f, id)
  BY RescaleStage
<1>2. PICK stray : ends' = <<dereference(found', begin, stray),
                            dereference(found', decrement(end(found')), stray)>>
  BY RescaleStage
<1>3. PICK c : c = find(z)
  OBVIOUS
<1>4. /\ c.params = tok["growth"] /\ c.z_db = z
      /\ N \in Nat /\ Len(c.values) = N /\ DOMAIN c.values = 1 .. N
      /\ DOMAIN records = 1 .. N /\ Len(records) = N
      /\ \A n \in 1 .. N : \E r \in Mine(D) :
           /\ r.zid = records[n].id
           /\ c.values[n] = [D |-> r.value, f |-> r.value]
  BY <1>1, <1>3, Found
<1> HIDE DEF N, records
<1>5. ASSUME NEW n \in 1 .. N, NEW v,
             v.params = tok["growth"], v.z = records[n], v.value.D = c.values[n].D
      PROVE  RowGiven(RowOf(v, v.value.D))'
  <2>1. PICK r \in Mine(D) : /\ r.zid = records[n].id
                             /\ c.values[n] = [D |-> r.value, f |-> r.value]
    BY <1>4
  <2>2. r \in D /\ r.params = tok["growth"]
    BY DEF Mine
  <2>3. /\ [value |-> r.value.at, id |-> r.zid] \in given'["z"]
        /\ [value |-> r.value.start.params, id |-> r.params] \in given'["growth"]
    BY <2>2 DEF RowGiven
  <2>4. v.value.D = r.value
    BY <1>5, <2>1
  <2>5. RowOf(v, v.value.D) = [zid |-> r.zid, params |-> r.params, value |-> r.value]
    BY <1>5, <2>1, <2>2, <2>4 DEF RowOf
  <2> QED
    BY <2>3, <2>5 DEF RowGiven, RowOf
<1>6. oneloop_values(c) =
        [n \in 1 .. N |-> [params |-> tok["growth"], z |-> records[n],
                           value |-> [D |-> c.values[n].D, f |-> c.values[n].f]]]
  BY <1>4, WalkedForwards DEF records
<1>7. ASSUME NEW n \in 1 .. N PROVE c.values[n].D = c.values[n].f
  <2>1. PICK x : c.values[n] = [D |-> x, f |-> x]
    BY <1>4
  <2> QED
    BY <2>1
<1>8. ASSUME NEW n \in 1 .. N
      PROVE  LET v == oneloop_values(c)[n]
             IN  v.value.f = v.value.D /\ RowGiven(RowOf(v, v.value.D))'
  <2>1. PICK v : v = oneloop_values(c)[n]
    OBVIOUS
  <2>2. /\ v.params = tok["growth"] /\ v.z = records[n]
        /\ v.value.D = c.values[n].D /\ v.value.f = c.values[n].f
    BY <1>6, <2>1
  <2>3. c.values[n].D = c.values[n].f
    BY <1>7
  <2>4. RowGiven(RowOf(v, v.value.D))'
    BY <1>5, <2>2
  <2> QED
    BY <2>1, <2>2, <2>3, <2>4
<1>9. ASSUME NEW r \in z.records
      PROVE  /\ ends'[1].value.f = ends'[1].value.D
             /\ \A i \in {1, 2} : RowGiven(RowOf(ends[i], ends[i].value.D))'
             /\ ends'[2].z.value <= r.value /\ r.value <= ends'[1].z.value
  <2>1. /\ 1 \in 1 .. N /\ N \in 1 .. N
        /\ records[N].value <= r.value /\ r.value <= records[1].value
    BY <1>1, EndRecords DEF N, records, reverse_records
  <2>2. N >= 1
    BY <1>4, <2>1
  <2>3. PICK first, last : /\ first = dereference(c, begin, stray)
                           /\ last = dereference(c, decrement(end(c)), stray)
    OBVIOUS
  <2>4. /\ first.params = tok["growth"] /\ last.params = tok["growth"]
        /\ first.z = records[1]
        /\ first.value.D = c.values[1].D /\ first.value.f = c.values[1].f
        /\ last.z = records[N] /\ last.value.D = c.values[N].D
    BY <1>4, <2>2, <2>3, ReadEnds DEF records
  <2>5. ends' = <<first, last>>
    BY <1>1, <1>2, <1>3, <2>3
  <2>6. RowGiven(RowOf(first, first.value.D))' /\ RowGiven(RowOf(last, last.value.D))'
    BY <1>5, <2>1, <2>4
  <2>7. first.value.f = first.value.D
    BY <1>7, <2>1, <2>4
  <2> QED
    BY <2>1, <2>4, <2>5, <2>6, <2>7
<1>10. found' = c /\ found'.z_db.records = z.records /\ DOMAIN oneloop_values(c) = 1 .. N
  BY <1>1, <1>3, <1>4, <1>6
<1> QED
  BY <1>8, <1>9, <1>10 DEF FoundInv

\* All the steps of a job.
LEMMA FoundStep ==
  ASSUME Progress, Prepared, \A r \in D \cup f : RowGiven(r), OneEach, StageInv, FoundInv, [Next]_vars
  PROVE  FoundInv'
<1>1. given["z"] \subseteq given'["z"] /\ given["growth"] \subseteq given'["growth"]
  BY GivenGrows DEF TokenTables, Params
<1>2. (found' = found /\ ends' = ends) \/ found' = NoGrowth \/ rescale_final_Pk
  BY DEF Next, Forgotten, vars, growthVars, build_loop_growth_work_list, setup_growth_write,
         store, finalize_growth_write, Edit
<1> QED
  BY <1>1, <1>2, KeptFound, FoundNow

\* The invariant of every behaviour.
LEMMA GrowthInvariant == Spec => []GrowthInv
<1>1. Init => GrowthInv
  <2> SUFFICES ASSUME Init PROVE GrowthInv
    OBVIOUS
  <2>1. D = {} /\ f = {} /\ found = NoGrowth /\ pc = "idle"
    BY DEF Init, InputInit, GrowthInit
  <2>2. FoundInv
    BY <2>1, NothingFound
  <2> QED
    BY <2>1, <2>2 DEF GrowthInv, OneEach, StageInv
<1>2. GrowthInv /\ Progress /\ Prepared /\ [Next]_vars => GrowthInv'
  <2> SUFFICES ASSUME GrowthInv, Progress, Prepared, [Next]_vars PROVE GrowthInv'
    OBVIOUS
  <2>1. (\A r \in D \cup f : RowGiven(r)) /\ OneEach /\ StageInv /\ FoundInv
    BY DEF GrowthInv
  <2>2. OneEach' /\ StageInv' /\ FoundInv'
    BY <2>1, OneEachStep, StageStep, FoundStep
  <2>3. \A r \in D' \cup f' : RowGiven(r)'
    BY <2>1, RowGivenStep
  <2> QED
    BY <2>2, <2>3 DEF GrowthInv
<1> QED
  BY <1>1, <1>2, ProgressInvariant, PreparedInvariant, PTL DEF Spec

\* A redshift that was given a token lies within the tolerance of its row, and
\* parameters agree with theirs.
LEMMA GivenLabels ==
  ASSUME TokenInv, KindInv, NEW r, RowGiven(r)
  PROVE  Labelled(r)
<1>1. PICK s \in committed["z"] :
        /\ s.id = r.zid
        /\ Matches("z", s.value, r.value.at) \/ s.value = r.value.at
  BY DEF RowGiven, TokenInv, Answers, TokenTables
<1>2. lookup_redshift(s.value, r.value.at)
  <2>1. s.value \in Nat
    BY NumberAssumption DEF KindInv, Samples, TokenTables
  <2>2. Findable("z", s.value)
    BY <2>1, RedshiftFindable
  <2>3. Matches("z", s.value, r.value.at)
    BY <1>1, <2>2 DEF Findable
  <2> QED
    BY <2>3 DEF Matches, Waves, Params
<1>3. PICK p \in committed["growth"] :
        /\ p.id = r.params
        /\ Matches("growth", p.value, r.value.start.params) \/ p.value = r.value.start.params
  BY DEF RowGiven, TokenInv, Answers, TokenTables, Params
<1>4. lookup_params(p.value, r.value.start.params) \/ p.value = r.value.start.params
  BY <1>3 DEF Matches, Waves, Params
<1> QED
  BY <1>1, <1>2, <1>3, <1>4 DEF Labelled

------------------------------------------------------------------------------
(***************************************************************************)
(* The growth factors in the tables belong to the redshifts and parameters *)
(* under which they are stored, whatever jobs ran and wherever they died.  *)
(***************************************************************************)
THEOREM GrowthLabels == Spec => []GrowthAsAsked
<1>1. GrowthInv /\ TokenInv /\ KindInv => GrowthAsAsked
  BY GivenLabels DEF GrowthInv, GrowthAsAsked
<1> QED
  BY <1>1, GrowthInvariant, TokenInvariant, KindInvariant, PTL

(***************************************************************************)
(* No redshift has two growth factors or two growth rates, even after one  *)
(* of them was lost and both were computed again.                          *)
(***************************************************************************)
THEOREM GrowthUnique == Spec => []GrowthOnce
<1>1. GrowthInv => GrowthOnce
  BY DEF GrowthInv, OneEach, GrowthOnce
<1> QED
  BY <1>1, GrowthInvariant, PTL

(***************************************************************************)
(* Walked forwards, what is read back is in step with the redshifts: each  *)
(* with its own growth factor and, of the same integration, its own growth *)
(* rate.  The two factors that the rescaling divides are those of the      *)
(* highest and the lowest redshift, whatever is read as the rate of the    *)
(* latter, to which the step back from the end does not lead.              *)
(***************************************************************************)
THEOREM FoundInOrder == Spec => []FoundInStep
<1>1. GrowthInv /\ TokenInv /\ KindInv => FoundInStep
  <2> SUFFICES ASSUME GrowthInv, TokenInv, KindInv PROVE FoundInStep
    OBVIOUS
  <2>1. FoundInv
    BY DEF GrowthInv
  <2>2. \A r : RowGiven(r) => Labelled(r)
    BY GivenLabels
  <2> QED
    BY <2>1, <2>2 DEF FoundInv, FoundInStep
<1> QED
  BY <1>1, GrowthInvariant, TokenInvariant, KindInvariant, PTL

(***************************************************************************)
(* A job finds all that it has just seen to, and the indexes it recreates  *)
(* are not there, whatever job died before.                                *)
(***************************************************************************)
THEOREM NothingMisread == Spec => []NeverMisread
<1>1. Init => NeverMisread
  BY DEF Init, InputInit, NeverMisread
<1>2. NeverMisread /\ GrowthInv /\ Progress /\ Prepared /\ [Next]_vars => NeverMisread'
  <2> SUFFICES ASSUME NeverMisread, GrowthInv, Progress, Prepared, [Next]_vars
               PROVE  NeverMisread'
    OBVIOUS
  <2>1. CASE finalize_growth_write \/ rescale_final_Pk
    BY <2>1, FinalizeStage, RescaleStage DEF GrowthInv, NeverMisread
  <2>2. CASE \/ build_loop_growth_work_list \/ setup_growth_write \/ store
             \/ Edit \/ UNCHANGED vars
    BY <2>2 DEF NeverMisread, build_loop_growth_work_list, setup_growth_write, store,
                Edit, inputVars, vars
  <2>3. CASE InputNext
    BY <2>3 DEF NeverMisread, InputNext, attach, create, turn_away, Start, create_table,
                write_pipeline_id, Ask, AskNothing, Fail, Killed, Done, End
  <2> QED
    BY <2>1, <2>2, <2>3 DEF Next
<1> QED
  BY <1>1, <1>2, GrowthInvariant, ProgressInvariant, PreparedInvariant, PTL DEF Spec

------------------------------------------------------------------------------
(* Indexes and archives.                                                   *)

\* What is asked of a list ascends; only a sample that is found again may be
\* asked twice.
Tidy(q) ==
  q.kind = "database" =>
    \A a, b \in 1 .. Len(q.values) : a < b =>
      \/ q.values[a] < q.values[b]
      \/ q.values[a] = q.values[b] /\ Findable(q.table, q.values[a])

TidyRequests ==
  \A j \in Jobs : \A n \in 1 .. Len(execute(j)) : Tidy(execute(j)[n])

TableOf(l) == IF l = "Pk_k" THEN "k" ELSE l

\* The index leads to the first of the records of a token.
Least(db) == \A r \in db.records : db.index[r.id] <= r.value

\* The records of a list are what the job asked for, so far.
ListInv ==
  /\ \A l \in Lists :
       /\ Indexed(dbs[l]) /\ Least(dbs[l])
       /\ dbs[l].records \subseteq held[TableOf(l)]
  /\ read # 0 /\ request.kind = "database" =>
       \A r \in dbs[request.into].records : \E m \in 1 .. read : r.value = request.values[m]

\* Such an index is built again as it was.
LEMMA RebuiltIndex ==
  ASSUME NEW db, Indexed(db), Least(db)
  PROVE  rebuild_key_index(db) = db
<1> DEFINE First(id) == CHOOSE r \in db.records :
                          r.id = id /\ \A s \in db.records : s.id = id => r.value <= s.value
<1>1. ASSUME NEW id \in Ids(db) PROVE First(id).value = db.index[id]
  <2> DEFINE x == [value |-> db.index[id], id |-> id]
  <2>1. x \in db.records /\ \A s \in db.records : s.id = id => x.value <= s.value
    BY DEF Indexed, Least
  <2>2. /\ First(id) \in db.records /\ First(id).id = id
        /\ \A s \in db.records : s.id = id => First(id).value <= s.value
    <3>1. \E r \in db.records : r.id = id /\ \A s \in db.records : s.id = id => r.value <= s.value
      BY <2>1
    <3> QED
      BY <3>1
  <2>3. First(id).value <= x.value /\ x.value <= First(id).value
    BY <2>1, <2>2
  <2>4. First(id).value \in Nat /\ x.value \in Nat
    BY <2>1, <2>2 DEF Indexed, Map
  <2>5. First(id).value = x.value
    BY <2>3, <2>4
  <2> QED
    BY <2>5
<1> HIDE DEF First
<1>2. [id \in Ids(db) |-> First(id).value] = [id \in Ids(db) |-> db.index[id]]
  BY <1>1
<1>3. rebuild_key_index(db) = [db EXCEPT !.index = [id \in Ids(db) |-> First(id).value]]
  BY DEF rebuild_key_index, First
<1>4. db = [records |-> db.records, index |-> [id \in Ids(db) |-> db.index[id]]]
  BY DEF Indexed
<1> QED
  BY <1>2, <1>3, <1>4

\* A record is added above those there are.
LEMMA AddLeast ==
  ASSUME NEW db, Indexed(db), Least(db), NEW v \in Nat, NEW id,
         \A r \in db.records : r.value <= v, \A r \in db.records : r.value = v => r.id = id
  PROVE  Least(add_record(db, v, id))
<1> DEFINE new == [value |-> v, id |-> id]
<1>1. PICK more : more = add_record(db, v, id)
  OBVIOUS
<1>2. /\ more.records = db.records \cup {new} /\ Ids(more) = Ids(db) \cup {id}
      /\ \A i \in Ids(more) : more.index[i] = IF i \in Ids(db) THEN db.index[i] ELSE v
  BY <1>1, AddRecord
<1>3. ASSUME NEW r \in more.records PROVE more.index[r.id] <= r.value
  <2>1. CASE r \in db.records
    <3>1. r.id \in Ids(db) /\ db.index[r.id] <= r.value
      BY <2>1 DEF Ids, Least
    <3> QED
      BY <1>2, <3>1
  <2>2. CASE r = new /\ id \in Ids(db)
    <3>1. [value |-> db.index[id], id |-> id] \in db.records
      BY <2>2 DEF Indexed
    <3>2. db.index[id] <= v
      BY <3>1
    <3> QED
      BY <1>2, <2>2, <3>2
  <2>3. CASE r = new /\ id \notin Ids(db)
    BY <1>2, <2>3
  <2> QED
    BY <1>2, <2>1, <2>2, <2>3
<1> QED
  BY <1>1, <1>3 DEF Least

\* Samples are asked for in order.
LEMMA AskedInOrder ==
  ASSUME TidyRequests, Progress, Ask, request.kind = "database"
  PROVE  /\ asked = request.values[read + 1] /\ asked \in Nat
         /\ request.table \in TokenTables /\ request.table = TableOf(request.into)
         /\ request.into \in Lists
         /\ \A m \in 1 .. read : \/ request.values[m] < asked
                                 \/ request.values[m] = asked /\ Findable(request.table, asked)
<1>1. todo # <<>> /\ request.values # <<>> /\ DatabaseRequest(request)
  BY AskShape DEF TokenRequest, Ask
<1>2. /\ Len(execute(job)) \in Nat /\ Dealt \in Nat /\ Dealt < Len(execute(job))
      /\ request = execute(job)[Dealt + 1]
  BY <1>1, RequestAt
<1>3. Dealt + 1 \in 1 .. Len(execute(job)) /\ job \in Jobs
  BY <1>2 DEF Progress
<1>4. \A a, b \in 1 .. Len(request.values) : a < b =>
        \/ request.values[a] < request.values[b]
        \/ request.values[a] = request.values[b] /\ Findable(request.table, request.values[a])
  <2>1. PICK n : n = Dealt + 1
    OBVIOUS
  <2>2. PICK q : q = request
    OBVIOUS
  <2>3. n \in 1 .. Len(execute(job)) /\ q = execute(job)[n] /\ q.kind = "database"
    BY <1>2, <1>3, <2>1, <2>2
  <2>4. Tidy(q)
    BY <1>3, <2>3 DEF TidyRequests
  <2>5. \A a, b \in 1 .. Len(q.values) : a < b =>
          \/ q.values[a] < q.values[b]
          \/ q.values[a] = q.values[b] /\ Findable(q.table, q.values[a])
    BY <2>3, <2>4 DEF Tidy
  <2> QED
    BY <2>2, <2>5
<1>5. /\ request.table = TableOf(request.into) /\ request.into \in Lists
      /\ request.table \in {"z"} \cup Waves
  BY <1>1 DEF DatabaseRequest, Lists, Waves, TableOf
<1>6. asked = request.values[read + 1] /\ asked \in Nat
  BY <1>5, AskedTable, NumberAssumption DEF asked, Waves
<1>7. read \in Nat /\ Len(request.values) \in Nat /\ read + 1 <= Len(request.values)
  <2>1. Len(request.values) \in Nat
    BY <1>1, ValuesLength
  <2>2. Len(request.values) > 0
    BY <1>1, <2>1 DEF DatabaseRequest
  <2> QED
    BY <2>1, <2>2 DEF Progress
<1>8. \A m \in 1 .. read : m \in 1 .. Len(request.values) /\ m < read + 1
  BY <1>7
<1>9. read + 1 \in 1 .. Len(request.values)
  BY <1>7
<1> QED
  BY <1>4, <1>5, <1>6, <1>8, <1>9, AskedTable

\* A sample is added to its list.
LEMMA AskList ==
  ASSUME TidyRequests, Progress, Prepared, TokenInv, TokenInv', ListInv,
         Ask, request.kind = "database"
  PROVE  ListInv'
<1>1. PICK id : LET db == IF read = 0 THEN EmptyDatabase ELSE dbs[request.into]
                    last == ~request.together \/ read + 1 = Len(request.values)
                IN  /\ tokenize(request.table, asked, id, last)
                    /\ dbs' = [dbs EXCEPT ![request.into] = add_record(db, asked, id)]
  BY AskDatabase
<1>2. PICK db : db = IF read = 0 THEN EmptyDatabase ELSE dbs[request.into]
  OBVIOUS
<1>3. PICK v, t, into : v = asked /\ t = request.table /\ into = request.into
  OBVIOUS
<1>4. /\ v = request.values[read + 1] /\ v \in Nat
      /\ t \in TokenTables /\ t = TableOf(into) /\ into \in Lists
      /\ \A m \in 1 .. read : \/ request.values[m] < v
                              \/ request.values[m] = v /\ Findable(t, v)
  BY <1>3, AskedInOrder
<1>5. /\ held'[t] = held[t] \cup {[value |-> v, id |-> id]}
      /\ \A u \in TokenTables \ {t} : held'[u] = held[u]
  <2>1. PICK last : tokenize(t, v, id, last)
    BY <1>1, <1>3
  <2> QED
    BY <1>4, <2>1, TokenizeTable
<1>6. \A u \in TokenTables : held[u] \subseteq held'[u]
  BY <1>5
<1>7. read \in Nat
  BY DEF Progress
<1>8. /\ Indexed(db) /\ Least(db) /\ db.records \subseteq held[t]
      /\ \A r \in db.records : \E m \in 1 .. read : r.value = request.values[m]
  <2>1. CASE read = 0
    BY <1>2, <2>1, EmptyIndexed DEF Least
  <2>2. CASE read # 0
    BY <1>2, <1>3, <1>4, <2>2 DEF ListInv
  <2> QED
    BY <2>1, <2>2
<1>9. ASSUME NEW r \in db.records
      PROVE  r.value <= v /\ (r.value = v => r.id = id)
  <2>1. PICK m \in 1 .. read : r.value = request.values[m]
    BY <1>8
  <2>2. r.value < v \/ (r.value = v /\ Findable(t, v))
    BY <1>4, <2>1
  <2>3. r.value \in Nat
    BY <1>8 DEF Indexed, Map
  <2>4. r.value = v => r.id = id
    <3>1. r \in held[t]
      BY <1>8
    <3> QED
      BY <1>1, <1>3, <1>4, <2>2, <2>3, <3>1, TokenizeSame
  <2> QED
    BY <1>4, <2>2, <2>3, <2>4
<1>10. PICK more : more = add_record(db, v, id)
  OBVIOUS
<1>11. /\ more.records = db.records \cup {[value |-> v, id |-> id]}
       /\ Indexed(more) /\ Least(more)
  BY <1>4, <1>8, <1>9, <1>10, AddRecord, AddLeast
<1>12. dbs' = [dbs EXCEPT ![into] = more] /\ DOMAIN dbs = Lists
  BY <1>1, <1>2, <1>3, <1>10 DEF Prepared
<1>13. more.records \subseteq held'[t]
  BY <1>5, <1>8, <1>11
<1>14. ASSUME NEW l \in Lists
       PROVE  /\ Indexed(dbs'[l]) /\ Least(dbs'[l])
              /\ dbs'[l].records \subseteq held'[TableOf(l)]
  <2>1. CASE l = into
    BY <1>4, <1>11, <1>12, <1>13, <2>1
  <2>2. CASE l # into
    <3>1. dbs'[l] = dbs[l] /\ TableOf(l) \in TokenTables
      BY <1>12, <2>2 DEF TableOf, Lists, TokenTables, Waves
    <3> QED
      BY <1>6, <3>1 DEF ListInv
  <2> QED
    BY <2>1, <2>2
<1>15. read' # 0 => todo' = todo /\ read' = read + 1
  BY DEF Ask, Answered, Advance
<1>16. ASSUME read' # 0, NEW r \in dbs'[request'.into].records
       PROVE  \E m \in 1 .. read' : r.value = request'.values[m]
  <2>1. request' = request
    BY <1>15, <1>16 DEF request
  <2>2. r \in db.records \/ r.value = v
    BY <1>3, <1>4, <1>11, <1>12, <1>16, <2>1
  <2>3. CASE r \in db.records
    <3>1. PICK m \in 1 .. read : r.value = request.values[m]
      BY <1>8, <2>3
    <3>2. m \in 1 .. read'
      BY <1>7, <1>15, <1>16
    <3> QED
      BY <2>1, <3>1, <3>2
  <2>4. CASE r.value = v
    <3>1. read' \in 1 .. read' /\ r.value = request'.values[read']
      BY <1>4, <1>7, <1>15, <1>16, <2>1, <2>4
    <3> QED
      BY <3>1
  <2> QED
    BY <2>2, <2>3, <2>4
<1> QED
  BY <1>14, <1>16 DEF ListInv

\* Nothing else adds to a list.
LEMMA OtherLists ==
  ASSUME Progress, [Next]_vars, ~(Ask /\ request.kind = "database")
  PROVE  /\ \/ dbs' = NoDatabases
            \/ dbs' = dbs
            \/ AskNothing
         /\ \/ read' = 0
            \/ todo' = todo /\ request.kind # "database"
            \/ UNCHANGED <<todo, read, dbs>>
<1>1. CASE Ask
  BY <1>1 DEF Ask, Asking, Answered, Advance
<1>2. CASE AskNothing
  BY <1>2 DEF AskNothing, Advance
<1>3. CASE \E j \in Jobs : attach(j) \/ create(j) \/ turn_away(j)
  BY <1>3 DEF attach, create, turn_away, Start, Progress
<1>4. CASE create_table \/ write_pipeline_id \/ Fail \/ Killed \/ Done \/ Edit \/ UNCHANGED vars
  BY <1>4 DEF create_table, write_pipeline_id, Fail, Killed, Done, End, Edit, inputVars, vars
<1>5. CASE build_loop_growth_work_list \/ store \/ rescale_final_Pk
  BY <1>5 DEF build_loop_growth_work_list, store, rescale_final_Pk, Advance, End
<1>6. CASE setup_growth_write \/ finalize_growth_write
  BY <1>6 DEF setup_growth_write, finalize_growth_write, Asking, Answered, Advance, End
<1> QED
  BY <1>1, <1>2, <1>3, <1>4, <1>5, <1>6 DEF Next, InputNext

\* A process that holds tokens goes on holding them.
LEMMA HeldGrows ==
  ASSUME Progress, TokenInv, [Next]_vars, dbs' # NoDatabases
  PROVE  \A t \in TokenTables : held[t] \subseteq held'[t]
<1>1. CASE Ask
  <2>1. PICK id : \E last \in BOOLEAN : tokenize(request.table, asked, id, last)
    BY <1>1 DEF Ask
  <2>2. request.table \in TokenTables
    BY <1>1, AskedTable
  <2>3. PICK t, v, last : t = request.table /\ v = asked /\ tokenize(t, v, id, last)
    BY <2>1
  <2> QED
    BY <2>2, <2>3, TokenizeTable
<1>2. CASE UNCHANGED tokenVars
  BY <1>2 DEF tokenVars
<1>3. CASE InputNext /\ ~Ask
  BY <1>2, <1>3 DEF InputNext, attach, create, turn_away, Start, create_table,
     write_pipeline_id, AskNothing, Fail, Killed, Done, End
<1>4. CASE \/ build_loop_growth_work_list \/ setup_growth_write \/ store
           \/ finalize_growth_write \/ rescale_final_Pk
  BY <1>2, <1>4 DEF build_loop_growth_work_list, setup_growth_write, store,
     finalize_growth_write, rescale_final_Pk, End
<1>5. CASE Edit \/ UNCHANGED vars
  BY <1>2, <1>5 DEF Edit, vars, inputVars
<1> QED
  BY <1>1, <1>3, <1>4, <1>5 DEF Next

LEMMA ListStep ==
  ASSUME TidyRequests, Progress, Prepared, TokenInv, TokenInv', ListInv, [Next]_vars
  PROVE  ListInv'
<1>1. CASE Ask /\ request.kind = "database"
  BY <1>1, AskList
<1>2. CASE ~(Ask /\ request.kind = "database")
  <2>1. /\ dbs' = NoDatabases \/ dbs' = dbs \/ AskNothing
        /\ \/ read' = 0
           \/ todo' = todo /\ request.kind # "database"
           \/ UNCHANGED <<todo, read, dbs>>
    BY <1>2, OtherLists
  <2>2. ASSUME NEW l \in Lists
        PROVE  /\ Indexed(dbs'[l]) /\ Least(dbs'[l])
               /\ dbs'[l].records \subseteq held'[TableOf(l)]
    <3>1. CASE dbs'[l] = EmptyDatabase
      BY <3>1, EmptyIndexed DEF Least
    <3>2. CASE dbs'[l] = dbs[l] /\ dbs' # NoDatabases
      <4>1. TableOf(l) \in TokenTables
        BY DEF TableOf, Lists, TokenTables, Waves
      <4> QED
        BY <3>2, <4>1, HeldGrows DEF ListInv
    <3>3. dbs' = NoDatabases => dbs'[l] = EmptyDatabase
      BY DEF NoDatabases
    <3>4. AskNothing => dbs'[l] \in {dbs[l], EmptyDatabase}
      BY DEF AskNothing, Prepared
    <3> QED
      BY <2>1, <3>1, <3>2, <3>3, <3>4
  <2>3. read' # 0 /\ request'.kind = "database" =>
          UNCHANGED <<todo, read, dbs>>
    BY <2>1 DEF request
  <2>4. read' # 0 /\ request'.kind = "database" =>
          \A r \in dbs'[request'.into].records : \E m \in 1 .. read' : r.value = request'.values[m]
    BY <2>3 DEF ListInv, request
  <2> QED
    BY <2>2, <2>4 DEF ListInv
<1> QED
  BY <1>1, <1>2

(***************************************************************************)
(* The index of a list, of which no copy is archived, is the same when it  *)
(* is built again on a slave, for any jobs whose samples are in order.     *)
(***************************************************************************)
THEOREM IndexesRebuilt == ASSUME TidyRequests PROVE Spec => []IndexSurvivesArchive
<1>1. Init => ListInv
  <2> SUFFICES ASSUME Init PROVE ListInv
    OBVIOUS
  <2>1. read = 0 /\ \A l \in Lists : dbs[l] = EmptyDatabase
    BY DEF Init, InputInit, NoDatabases
  <2> QED
    BY <2>1, EmptyIndexed DEF ListInv, Least
<1>2. ListInv /\ Progress /\ Prepared /\ TokenInv /\ TokenInv' /\ [Next]_vars => ListInv'
  BY ListStep
<1>3. ListInv => IndexSurvivesArchive
  BY RebuiltIndex DEF ListInv, IndexSurvivesArchive
<1> QED
  BY <1>1, <1>2, <1>3, ProgressInvariant, PreparedInvariant, TokenInvariant, PTL DEF Spec

------------------------------------------------------------------------------
(* The requests of a job are those of the specification of tokens.         *)

\* No job sees more cosmological models than jobs there were.
ModelInv ==
  /\ jobs \in 0 .. MaxJobs
  /\ Cardinality(tokens["FRW_model"]) <= jobs
  /\ pc # "idle" /\ Dealt = 0 => Cardinality(tokens["FRW_model"]) < jobs
  /\ pc # "idle" /\ Dealt # 0 => tok["FRW_model"] \in 0 .. MaxJobs - 1

\* Every value that is asked for may be.
LEMMA AskedValue ==
  ASSUME Progress, ModelInv, Ask
  PROVE  request.table \in TokenTables /\ asked \in Values(request.table)
<1>1. todo # <<>> /\ request.kind \in {"database", "token"} /\ pc = "execute"
  BY DEF Ask, Asking
<1>2. TokenRequest(request) \/ DatabaseRequest(request)
  BY <1>1, AskedRequest
<1>3. CASE DatabaseRequest(request)
  BY <1>3, AskedTable DEF DatabaseRequest, Values, Lists, Waves
<1>4. CASE TokenRequest(request)
  <2>1. read + 1 = 1
    BY <1>1, <1>4 DEF TokenRequest, Progress
  <2>2. PICK q : q = request
    OBVIOUS
  <2>3. CASE q.table \in Params
    BY <1>4, <2>1, <2>2, <2>3, AskedTable DEF TokenRequest, asked, Values, Params, Waves
  <2>4. CASE q.table = "linear_Pk"
    <3>1. tok["FRW_model"] \in 0 .. MaxJobs - 1
      <4>1. Dealt \in Nat /\ Dealt >= 14
        BY <1>1, <2>2, <2>4, AskedRequest, RequestAt
      <4>2. Dealt # 0
        BY <4>1
      <4> QED
        BY <1>1, <4>2 DEF ModelInv
    <3>2. Known(q.values[1])
      BY <1>4, <2>2, <2>4 DEF TokenRequest
    <3>3. asked = [path |-> q.values[1].path, md5 |-> q.values[1].md5, model |-> tok["FRW_model"]]
      BY <2>1, <2>2, <2>4 DEF asked
    <3>4. asked \in Spectra
      BY <3>1, <3>2, <3>3 DEF Known
    <3> QED
      BY <2>2, <2>4, <3>4, AskedTable DEF Values, Waves, Params
  <2> QED
    BY <1>4, <2>2, <2>3, <2>4 DEF TokenRequest
<1> QED
  BY <1>2, <1>3, <1>4

\* The model's token is asked for first, and once.
LEMMA AskModel ==
  ASSUME Progress, Prepared, TokenInv, TokenInv', ModelInv, Ask
  PROVE  ModelInv'
<1>1. /\ pc = "execute" /\ UNCHANGED <<pc, job>> /\ todo # <<>>
      /\ request.kind \in {"database", "token"}
      /\ Dealt \in Nat /\ Dealt' \in {Dealt, Dealt + 1}
      /\ TokenRequest(request) \/ DatabaseRequest(request)
      /\ Dealt = 0 <=> request.into = "FRW_model"
  BY AskShape, AskedRequest
<1>2. PICK id : \E last \in BOOLEAN : tokenize(request.table, asked, id, last)
  BY DEF Ask
<1>3. PICK t, v, last : t = request.table /\ v = asked /\ tokenize(t, v, id, last)
  BY <1>2
<1>4. t \in TokenTables
  BY <1>3, AskedTable
<1>5. jobs' = jobs
  BY DEF Ask
<1> HIDE DEF Dealt
<1>6. CASE Dealt # 0
  <2>1. t # "FRW_model"
    BY <1>1, <1>3, <1>6 DEF TokenRequest, DatabaseRequest, Lists
  <2>2. tokens'["FRW_model"] = tokens["FRW_model"]
    BY <1>3, <1>4, <2>1, TokenizeTable DEF TokenTables, Params
  <2>3. tok'["FRW_model"] = tok["FRW_model"]
    BY <1>6, AskOther
  <2>4. Dealt' # 0
    BY <1>1, <1>6
  <2> QED
    BY <1>1, <1>5, <1>6, <2>2, <2>3, <2>4 DEF ModelInv
<1>7. CASE Dealt = 0
  <2>1. TokenRequest(request) /\ t = "FRW_model" /\ request.into = "FRW_model"
    BY <1>1, <1>3, <1>7 DEF TokenRequest, DatabaseRequest, Lists
  <2> DEFINE rows == tokens["FRW_model"]
             more == tokens'["FRW_model"]
  <2>2. /\ IsFiniteSet(rows) /\ IsFiniteSet(more)
        /\ Cardinality(rows) \in Nat /\ Cardinality(more) \in Nat
    <3>1. Numbered(rows) /\ Numbered(more)
      BY DEF TokenInv, TokenTables, Params
    <3> QED
      BY <3>1, FS_CardinalityType DEF Numbered
  <2>3. Cardinality(more) <= Cardinality(rows) + 1
    <3>1. more = rows \/ \E r : more = rows \cup {r}
      BY <1>3, <2>1 DEF tokenize, TokenInv, Functions, TokenTables, Params
    <3> QED
      BY <2>2, <3>1, FS_AddElement
  <2>4. Cardinality(more) <= jobs /\ jobs <= MaxJobs /\ jobs \in Nat
    <3>1. Cardinality(rows) < jobs /\ jobs \in 0 .. MaxJobs
      BY <1>1, <1>7 DEF ModelInv
    <3> QED
      BY <2>2, <2>3, <3>1, BoundsAssumption
  <2>5. PICK i : tokenize(t, v, i, TRUE) /\ tok' = [tok EXCEPT !["FRW_model"] = i]
    BY <1>3, <2>1, AskToken DEF TokenRequest
  <2>6. tok'["FRW_model"] = i
    BY <2>5 DEF Prepared, Params
  <2>7. i \in 0 .. MaxJobs - 1
    <3>1. Answers(t, [value |-> v, id |-> i], tokens'[t]) /\ Numbered(tokens'[t])
      BY <1>4, <2>5, TokenizeTable
    <3>2. i \in Nat /\ i < Cardinality(more)
      BY <2>1, <3>1 DEF Answers, Numbered
    <3> QED
      BY <2>2, <2>4, <3>2, BoundsAssumption
  <2>8. Dealt' # 0
    <3>1. Len(request.values) = 1 /\ read = 0
      BY <1>1, <2>1 DEF TokenRequest, Progress
    <3>2. Answered
      BY DEF Ask
    <3>3. Dealt' = Dealt + 1
      BY <1>1, <3>1, <3>2, AnsweredProgress
    <3> QED
      BY <1>7, <3>3
  <2> QED
    BY <1>5, <2>2, <2>4, <2>6, <2>7, <2>8, BoundsAssumption DEF ModelInv
<1> QED
  BY <1>6, <1>7

\* Jobs are counted when they start or are turned away.
LEMMA JobSteps ==
  ASSUME Progress, [Next]_vars, ~Ask
  PROVE  \/ \E j \in Jobs : attach(j) \/ create(j) \/ turn_away(j)
         \/ jobs' = jobs /\ (pc = "idle" => pc' = "idle")
<1>1. CASE UNCHANGED vars \/ Edit
  BY <1>1 DEF vars, inputVars, Edit
<1>2. CASE create_table \/ write_pipeline_id \/ AskNothing \/ Fail \/ Killed \/ Done
  BY <1>2 DEF create_table, write_pipeline_id, AskNothing, Fail, Killed, Done, End, Asking
<1>3. CASE \/ build_loop_growth_work_list \/ setup_growth_write \/ store
           \/ finalize_growth_write \/ rescale_final_Pk
  BY <1>3 DEF build_loop_growth_work_list, setup_growth_write, store,
              finalize_growth_write, rescale_final_Pk, End, Asking
<1> QED
  BY <1>1, <1>2, <1>3 DEF Next, InputNext

LEMMA ModelStep ==
  ASSUME Progress, Prepared, TokenInv, TokenInv', ModelInv, [Next]_vars
  PROVE  ModelInv'
<1> DEFINE rows == tokens["FRW_model"]
           more == tokens'["FRW_model"]
<1>1. CASE Ask
  BY <1>1, AskModel
<1>2. CASE ~Ask
  <2>1. Cardinality(rows) \in Nat /\ Cardinality(more) \in Nat /\ Cardinality(more) <= Cardinality(rows)
    <3>1. Numbered(rows) /\ committed["FRW_model"] \subseteq rows
      BY DEF TokenInv, TokenTables, Params
    <3>2. more \subseteq rows
      BY <1>2, <3>1, TokenSteps DEF Forget, tokenVars
    <3> QED
      BY <3>1, <3>2, FS_Subset, FS_CardinalityType DEF Numbered
  <2> HIDE DEF rows, more
  <2>2. CASE \E j \in Jobs : attach(j) \/ create(j)
    <3>1. PICK j \in Jobs : Start(j) /\ pc' \in {"create", "execute"}
      BY <2>2 DEF attach, create
    <3>2. jobs' = jobs + 1 /\ jobs < MaxJobs /\ Dealt' = 0
      BY <3>1, StartProgress DEF Start
    <3> HIDE DEF Dealt
    <3> QED
      BY <2>1, <3>2, BoundsAssumption DEF ModelInv, rows, more
  <2>3. CASE \E j \in Jobs : turn_away(j)
    <3>1. jobs' = jobs + 1 /\ jobs < MaxJobs /\ pc' = "idle"
      BY <2>3 DEF turn_away
    <3> QED
      BY <2>1, <3>1, BoundsAssumption DEF ModelInv, rows, more
  <2>4. CASE jobs' = jobs /\ (pc = "idle" => pc' = "idle")
    <3>1. CASE pc' = "idle"
      BY <2>1, <2>4, <3>1, BoundsAssumption DEF ModelInv, rows, more
    <3>2. CASE AskNothing
      <4>1. /\ Dealt \in Nat /\ Dealt' \in {Dealt, Dealt + 1} /\ pc' = pc
            /\ Dealt = 0 <=> request.into = "FRW_model"
            /\ request.kind = "database"
            /\ TokenRequest(request) \/ DatabaseRequest(request)
        BY <3>2, AskShape, AskedRequest
      <4> HIDE DEF Dealt
      <4>2. Dealt # 0
        BY <4>1 DEF TokenRequest, DatabaseRequest, Lists
      <4>3. Dealt' # 0 /\ tok' = tok
        BY <3>2, <4>1, <4>2 DEF AskNothing
      <4> QED
        BY <2>1, <2>4, <4>1, <4>2, <4>3, BoundsAssumption DEF ModelInv, rows, more
    <3>3. CASE tok' = tok /\ pc # "idle" /\ (Dealt' = 0 => Dealt = 0) /\ (Dealt = 0 => Dealt' = 0)
      <4> HIDE DEF Dealt
      <4> QED
        BY <2>1, <2>4, <3>3, BoundsAssumption DEF ModelInv, rows, more
    <3>4. \/ pc' = "idle" \/ AskNothing
          \/ tok' = tok /\ pc # "idle" /\ (Dealt' = 0 => Dealt = 0) /\ (Dealt = 0 => Dealt' = 0)
      <4> HIDE DEF Dealt
      <4> QED
        BY <1>2, <2>4, MemorySteps
    <3> QED
      BY <3>1, <3>2, <3>3, <3>4
  <2> QED
    BY <1>2, <2>2, <2>3, <2>4, JobSteps
<1> QED
  BY <1>1, <1>2

LEMMA ModelInvariant == Spec => []ModelInv
<1>1. Init => ModelInv
  <2> SUFFICES ASSUME Init PROVE ModelInv
    OBVIOUS
  <2>1. jobs = 0 /\ pc = "idle" /\ tokens["FRW_model"] = {}
    BY DEF Init, InputInit, TokenInit, TokenTables, Params
  <2>2. Cardinality(tokens["FRW_model"]) = 0
    BY <2>1, FS_EmptySet
  <2> QED
    BY <2>1, <2>2, BoundsAssumption DEF ModelInv
<1>2. ModelInv /\ Progress /\ Prepared /\ TokenInv /\ TokenInv' /\ [Next]_vars => ModelInv'
  BY ModelStep
<1> QED
  BY <1>1, <1>2, ProgressInvariant, PreparedInvariant, TokenInvariant, PTL DEF Spec

(***************************************************************************)
(* Jobs do to the tables of tokens what the specification of tokens has    *)
(* them do: they ask for values that may be asked for, and they end.       *)
(***************************************************************************)
THEOREM JobsImplementTokens == Spec => TokensByRequest
<1>1. Init => TokenInit
  BY DEF Init, InputInit
<1>2. Progress /\ ModelInv /\ [Next]_vars => [TokenNext]_tokenVars
  <2> SUFFICES ASSUME Progress, ModelInv, [Next]_vars PROVE [TokenNext]_tokenVars
    OBVIOUS
  <2>1. CASE \E id : \E last \in BOOLEAN : Ask /\ tokenize(request.table, asked, id, last)
    <3>1. PICK id, last : last \in BOOLEAN /\ Ask /\ tokenize(request.table, asked, id, last)
      BY <2>1
    <3>2. PICK t, v : t = request.table /\ v = asked
      OBVIOUS
    <3>3. t \in TokenTables /\ v \in Values(t)
      BY <3>1, <3>2, AskedValue
    <3>4. tokenize(t, v, id, last) /\ id \in lookup_or_insert(t, v)
      BY <3>1, <3>2 DEF tokenize
    <3> QED
      BY <3>1, <3>3, <3>4 DEF TokenNext
  <2>2. CASE Forget \/ UNCHANGED tokenVars
    BY <2>2 DEF TokenNext
  <2> QED
    BY <2>1, <2>2, TokenSteps
<1> QED
  BY <1>1, <1>2, ProgressInvariant, ModelInvariant, PTL DEF Spec, TokensByRequest, TokenSpec
==============================================================================
