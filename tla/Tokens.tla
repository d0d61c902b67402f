-------------------------------- MODULE Tokens --------------------------------
(***************************************************************************)
(* Tokens: every model, parameter block, redshift, wavenumber and power    *)
(* spectrum is given the id of a row of a table of its kind, by which the  *)
(* results are labelled.  A value is looked up within a tolerance, in SQL, *)
(* and inserted if nothing matches; both inside a transaction.             *)
(*                                                                         *)
(* Numbers are natural, 1.0 is the number One, and a tolerance is given by *)
(* its inverse.  Parameters are records: of names and flags, compared      *)
(* exactly, and of numbers.                                                *)
(***************************************************************************)
EXTENDS Integers, FiniteSets

CONSTANTS One,           \* the number 1.0
          z_tol, k_tol, params_tol,       \* inverse tolerances
          USE_RELATIVE_ERROR,             \* inverse of the smallest redshift so compared
          Redshifts, Wavenumbers, Blocks, Spectra  \* values that may be asked for

ASSUME ScaleAssumption ==
  {One, z_tol, k_tol, params_tol, USE_RELATIVE_ERROR} \subseteq Nat \ {0}

ASSUME NumberAssumption == Redshifts \subseteq Nat /\ Wavenumbers \subseteq Nat

ASSUME BlockAssumption ==
  \A p \in Blocks : p.numbers \in [DOMAIN p.numbers -> Nat]

VARIABLES tokens,     \* the tables as the running process sees them: [id, value] rows
          committed,  \* the tables in the file
          held,       \* by table, the tokens the process has: [id, value] as asked for
          given       \* the tokens any process ever left a transaction with

tokenVars == <<tokens, committed, held, given>>

Waves  == {"k", "IR_cutoff", "UV_cutoff", "IR_resum"}
Params == {"FRW_model", "filter", "loop", "MatsubaraXY", "growth"}
TokenTables == {"z", "linear_Pk"} \cup Waves \cup Params

Values(t) == IF t = "z" THEN Redshifts
             ELSE IF t \in Waves THEN Wavenumbers
             ELSE IF t \in Params THEN Blocks ELSE Spectra

------------------------------------------------------------------------------
Abs(n) == IF n < 0 THEN -n ELSE n

\* ABS(x) < tol, of a difference x that is measured in units of scale.
Below(x, scale, tol) == Abs(x) * tol < scale

\* ABS((stored-asked)/stored) < tol.  In SQL a division by zero is NULL, and
\* the row does not match.
Relative(stored, asked, tol) == stored # 0 /\ Below(stored - asked, stored, tol)

lookup_redshift(stored, z) ==
  IF z * USE_RELATIVE_ERROR > One THEN Relative(stored, z, z_tol)
                                  ELSE Below(stored - z, One, z_tol)

lookup_wavenumber(stored, k) == Relative(stored, k, k_tol)

lookup_params(stored, p) ==
  /\ stored.exact = p.exact
  /\ DOMAIN stored.numbers = DOMAIN p.numbers
  /\ \A i \in DOMAIN p.numbers : Relative(stored.numbers[i], p.numbers[i], params_tol)

\* Power spectra are known by their path.
lookup_Pk_linear(stored, Pk) == stored.path = Pk.path

Matches(t, stored, asked) ==
  CASE t = "z"         -> lookup_redshift(stored, asked)
    [] t \in Waves     -> lookup_wavenumber(stored, asked)
    [] t \in Params    -> lookup_params(stored, asked)
    [] t = "linear_Pk" -> lookup_Pk_linear(stored, asked)

\* The rows a query for the value returns.
Hits(t, v) == {r \in tokens[t] : Matches(t, r.value, v)}

\* Mutated form: a row that matches is as good as another.
refusedNever(t, v) == FALSE

\* What the queries throw on: several rows, or a power spectrum whose file has
\* changed or that belongs to another cosmological model.
Refused(t, v) ==
  \/ \E r, s \in Hits(t, v) : r # s
  \/ t = "linear_Pk" /\ \E r \in Hits(t, v) : r.value # v

\* Mutated form: the id of the last row.
insertLastId(t) == IF tokens[t] = {} THEN 0 ELSE Cardinality(tokens[t]) - 1

\* The id of the next row: the number of rows there are.
insert(t) == Cardinality(tokens[t])

\* The ids a query for the value can give, when it is not refused: that of
\* the row found, or that of the row inserted.
lookup_or_insert(t, v) ==
  IF Hits(t, v) = {} THEN {insert(t)} ELSE {r.id : r \in Hits(t, v)}

------------------------------------------------------------------------------
TokenInit ==
  /\ tokens = [t \in TokenTables |-> {}] /\ committed = tokens
  /\ held = tokens /\ given = tokens

\* Mutated form: a token is out before its row is committed.
tokenizeUncommitted(t, v, id, last) ==
  /\ ~Refused(t, v)
  /\ id \in lookup_or_insert(t, v)
  /\ held' = [held EXCEPT ![t] = @ \cup {[value |-> v, id |-> id]}]
  /\ tokens' = IF Hits(t, v) # {} THEN tokens
               ELSE [tokens EXCEPT ![t] = @ \cup {[id |-> id, value |-> v]}]
  /\ given' = [u \in TokenTables |-> given[u] \cup held'[u]] /\ UNCHANGED committed

\* tokenize(): within a transaction that may ask for more, or that is then
\* committed ("last").
tokenize(t, v, id, last) ==
  /\ id \in lookup_or_insert(t, v)
  /\ held' = [held EXCEPT ![t] = @ \cup {[value |-> v, id |-> id]}]
  /\ ~Refused(t, v)
  /\ tokens' = IF Hits(t, v) # {} THEN tokens
               ELSE [tokens EXCEPT ![t] = @ \cup {[id |-> id, value |-> v]}]
  /\ IF last THEN committed' = tokens' /\ given' = [u \in TokenTables |-> given[u] \cup held'[u]]
             ELSE UNCHANGED <<committed, given>>

\* Mutated form: the rows of an open transaction stay in memory.
ForgetNothing == held' = [t \in TokenTables |-> {}] /\ UNCHANGED <<tokens, committed, given>>

\* The process ends, in whatever way.
Forget ==
  /\ tokens' = committed /\ held' = [t \in TokenTables |-> {}]
  /\ UNCHANGED <<committed, given>>

TokenNext ==
  \/ \E t \in TokenTables : \E v \in Values(t) :
       \E id \in lookup_or_insert(t, v), last \in BOOLEAN : tokenize(t, v, id, last)
  \/ Forget

TokenSpec == TokenInit /\ [][TokenNext]_tokenVars
==============================================================================
