---------------------------- MODULE TokenTheorems ----------------------------
(***************************************************************************)
(* What holds of tokens whatever values are asked for, within whatever     *)
(* tolerances, however often a job dies.  Nothing is assumed of what       *)
(* matches what: neither symmetry nor transitivity.                        *)
(***************************************************************************)
EXTENDS TokenProperties, FiniteSetTheorems, TLAPS

\* The rows of a table are numbered from 0, without gaps or repetitions.
Numbered(rows) ==
  /\ IsFiniteSet(rows)
  /\ \A r \in rows : r.id \in Nat /\ r.id < Cardinality(rows)
  /\ \A r, s \in rows : r.id = s.id => r = s

\* A row answers to a token.
Answers(t, h, rows) ==
  \E r \in rows : r.id = h.id /\ (Matches(t, r.value, h.value) \/ r.value = h.value)

Functions ==
  /\ tokens = [t \in TokenTables |-> tokens[t]]
  /\ committed = [t \in TokenTables |-> committed[t]]
  /\ held = [t \in TokenTables |-> held[t]]

TokenInv ==
  /\ Functions
  /\ \A t \in TokenTables :
       /\ Numbered(tokens[t]) /\ Numbered(committed[t])
       /\ committed[t] \subseteq tokens[t]
       /\ \A h \in held[t] : Answers(t, h, tokens[t])
       /\ \A h \in given[t] : Answers(t, h, committed[t])
  /\ SameTokenAgain

------------------------------------------------------------------------------
\* An inserted row has a number of its own.
LEMMA InsertNumbered ==
  ASSUME NEW rows, NEW v, Numbered(rows)
  PROVE  Numbered(rows \cup {[id |-> Cardinality(rows), value |-> v]})
<1> DEFINE new == [id |-> Cardinality(rows), value |-> v]
<1>1. Cardinality(rows) \in Nat
  BY FS_CardinalityType DEF Numbered
<1>2. new \notin rows
  BY <1>1 DEF Numbered
<1>3. IsFiniteSet(rows \cup {new}) /\ Cardinality(rows \cup {new}) = Cardinality(rows) + 1
  BY <1>2, FS_AddElement DEF Numbered
<1>4. new.id = Cardinality(rows)
  OBVIOUS
<1>5. \A r \in rows \cup {new} : r.id \in Nat /\ r.id < Cardinality(rows \cup {new})
  BY <1>1, <1>3, <1>4 DEF Numbered
<1>6. \A r, s \in rows \cup {new} : r.id = s.id => r = s
  BY <1>1, <1>4 DEF Numbered
<1> QED
  BY <1>3, <1>5, <1>6 DEF Numbered

\* More rows answer to no less.
LEMMA MoreAnswers ==
  ASSUME NEW t, NEW h, NEW rows, NEW more, rows \subseteq more, Answers(t, h, rows)
  PROVE  Answers(t, h, more)
  BY DEF Answers

\* A row that answers to a token is a hit for its value, if that is findable.
LEMMA AnswerIsHit ==
  ASSUME NEW t, NEW h, Findable(t, h.value), Answers(t, h, tokens[t])
  PROVE  \E r \in Hits(t, h.value) : r.id = h.id
  BY DEF Answers, Hits, Findable

\* No rows, no tokens.
LEMMA InitToken == TokenInit => TokenInv
<1> SUFFICES ASSUME TokenInit PROVE TokenInv
  OBVIOUS
<1>1. Functions
  BY DEF TokenInit, Functions
<1>2. \A t \in TokenTables :
        tokens[t] = {} /\ committed[t] = {} /\ held[t] = {} /\ given[t] = {}
  BY DEF TokenInit
<1>3. Numbered({})
  BY FS_EmptySet DEF Numbered
<1>4. SameTokenAgain
  BY <1>2 DEF SameTokenAgain
<1> QED
  BY <1>1, <1>2, <1>3, <1>4 DEF TokenInv

------------------------------------------------------------------------------
\* The table asked, after the query: the rows, and the tokens held.
LEMMA TokenizeTable ==
  ASSUME TokenInv, NEW t \in TokenTables, NEW v, NEW id, NEW last, tokenize(t, v, id, last)
  PROVE  /\ Numbered(tokens'[t]) /\ tokens[t] \subseteq tokens'[t]
         /\ held'[t] = held[t] \cup {[value |-> v, id |-> id]}
         /\ Answers(t, [value |-> v, id |-> id], tokens'[t])
         /\ \A u \in TokenTables \ {t} : tokens'[u] = tokens[u] /\ held'[u] = held[u]
         /\ Functions'
<1> DEFINE new == [value |-> v, id |-> id]
<1>1. held' = [held EXCEPT ![t] = @ \cup {new}]
  BY DEF tokenize
<1>2. /\ held'[t] = held[t] \cup {new}
      /\ \A u \in TokenTables \ {t} : held'[u] = held[u]
      /\ held' = [u \in TokenTables |-> held'[u]]
  BY <1>1 DEF TokenInv, Functions
<1>3. CASE Hits(t, v) # {}
  <2>1. tokens' = tokens
    BY <1>3 DEF tokenize
  <2>2. PICK r \in Hits(t, v) : r.id = id
    BY <1>3 DEF tokenize, lookup_or_insert
  <2>3. Answers(t, new, tokens[t])
    <3>1. r \in tokens[t] /\ Matches(t, r.value, v)
      BY <2>2 DEF Hits
    <3>2. new.id = id /\ new.value = v
      OBVIOUS
    <3> HIDE DEF new
    <3> QED BY <2>2, <3>1, <3>2 DEF Answers
  <2>4. Functions'
    <3>1. tokens' = [u \in TokenTables |-> tokens'[u]]
      BY <2>1 DEF TokenInv, Functions
    <3>2. committed' = tokens' \/ committed' = committed
      BY DEF tokenize
    <3>3. committed' = [u \in TokenTables |-> committed'[u]]
      BY <3>1, <3>2 DEF TokenInv, Functions
    <3> QED BY <1>2, <3>1, <3>3 DEF Functions
  <2> QED
    BY <1>2, <2>1, <2>3, <2>4 DEF TokenInv
<1>4. CASE Hits(t, v) = {}
  <2> DEFINE row == [id |-> id, value |-> v]
  <2>1. id = Cardinality(tokens[t])
    BY <1>4 DEF tokenize, lookup_or_insert, insert
  <2>2. tokens' = [tokens EXCEPT ![t] = @ \cup {row}]
    BY <1>4 DEF tokenize
  <2>3. /\ tokens'[t] = tokens[t] \cup {row}
        /\ \A u \in TokenTables \ {t} : tokens'[u] = tokens[u]
        /\ tokens' = [u \in TokenTables |-> tokens'[u]]
    BY <2>2 DEF TokenInv, Functions
  <2>4. Numbered(tokens'[t])
    <3>1. Numbered(tokens[t] \cup {[id |-> Cardinality(tokens[t]), value |-> v]})
      BY InsertNumbered DEF TokenInv
    <3> QED
      BY <2>1, <2>3, <3>1
  <2>5. Answers(t, new, tokens'[t])
    BY <2>3 DEF Answers
  <2>6. Functions'
    BY <1>2, <2>3 DEF TokenInv, Functions, tokenize
  <2> QED
    BY <1>2, <2>3, <2>4, <2>5, <2>6
<1> QED
  BY <1>3, <1>4

\* A value that has a token gets it again, if it is not refused.
LEMMA TokenizeSame ==
  ASSUME TokenInv, NEW t \in TokenTables, NEW v, NEW id, NEW last, tokenize(t, v, id, last),
         NEW g \in held[t] \cup given[t], g.value = v, Findable(t, v)
  PROVE  g.id = id
<1>1. Answers(t, g, tokens[t])
  BY MoreAnswers DEF TokenInv
<1>2. PICK r \in Hits(t, v) : r.id = g.id
  BY <1>1, AnswerIsHit
<1>3. PICK s \in Hits(t, v) : s.id = id
  BY <1>2 DEF tokenize, lookup_or_insert
<1>4. r = s
  BY <1>2, <1>3 DEF tokenize, Refused
<1> QED
  BY <1>2, <1>3, <1>4

\* A query preserves TokenInv.
LEMMA TokenizeStep ==
  ASSUME TokenInv, NEW t \in TokenTables, NEW v, NEW id, NEW last \in BOOLEAN,
         tokenize(t, v, id, last)
  PROVE  TokenInv'
<1> DEFINE new == [value |-> v, id |-> id]
<1>1. /\ Numbered(tokens'[t]) /\ tokens[t] \subseteq tokens'[t]
      /\ held'[t] = held[t] \cup {new}
      /\ Answers(t, new, tokens'[t])
      /\ \A u \in TokenTables \ {t} : tokens'[u] = tokens[u] /\ held'[u] = held[u]
      /\ Functions'
  BY TokenizeTable
<1>2. \A u \in TokenTables : Numbered(tokens'[u]) /\ tokens[u] \subseteq tokens'[u]
  BY <1>1 DEF TokenInv
<1>3. ASSUME NEW u \in TokenTables, NEW h \in held'[u] PROVE Answers(u, h, tokens'[u])
  <2>1. CASE u = t /\ h = new
    BY <1>1, <2>1
  <2>2. CASE h \in held[u]
    BY <1>2, <2>2, MoreAnswers DEF TokenInv
  <2> QED
    BY <1>1, <1>3, <2>1, <2>2
<1>4. ASSUME NEW u \in TokenTables, NEW h \in given[u] PROVE Answers(u, h, tokens'[u])
  <2>1. Answers(u, h, committed[u]) /\ committed[u] \subseteq tokens[u]
    BY DEF TokenInv
  <2>2. committed[u] \subseteq tokens'[u]
    BY <1>2, <2>1
  <2> QED
    BY <2>1, <2>2, MoreAnswers
<1>5. \/ committed' = tokens' /\ given' = [u \in TokenTables |-> given[u] \cup held'[u]]
      \/ committed' = committed /\ given' = given
  BY DEF tokenize
<1>6. ASSUME NEW u \in TokenTables
      PROVE  /\ Numbered(committed'[u]) /\ committed'[u] \subseteq tokens'[u]
             /\ \A h \in given'[u] : Answers(u, h, committed'[u])
             /\ held'[u] \cup given'[u] \subseteq held'[u] \cup given[u]
  <2>1. CASE committed' = tokens' /\ given' = [w \in TokenTables |-> given[w] \cup held'[w]]
    BY <1>2, <1>3, <1>4, <2>1
  <2>2. CASE committed' = committed /\ given' = given
    BY <1>2, <2>2 DEF TokenInv
  <2> QED
    BY <1>5, <2>1, <2>2
<1>7. SameTokenAgain'
  <2> SUFFICES ASSUME NEW u \in TokenTables,
                      NEW g \in held'[u] \cup given'[u], NEW h \in held'[u] \cup given'[u],
                      g.value = h.value, Findable(u, g.value)
               PROVE  g.id = h.id
    BY DEF SameTokenAgain, Findable
  <2>1. g \in held'[u] \cup given[u] /\ h \in held'[u] \cup given[u]
    BY <1>6
  <2>2. CASE g \in held[u] \cup given[u] /\ h \in held[u] \cup given[u]
    BY <2>2 DEF TokenInv, SameTokenAgain
  <2>3. CASE u = t /\ g = new /\ h \in held[u] \cup given[u]
    BY <2>3, TokenizeSame
  <2>4. CASE u = t /\ h = new /\ g \in held[u] \cup given[u]
    BY <2>4, TokenizeSame
  <2>5. CASE g = new /\ h = new
    BY <2>5
  <2> QED
    BY <1>1, <2>1, <2>2, <2>3, <2>4, <2>5
<1> QED
  BY <1>1, <1>2, <1>3, <1>6, <1>7 DEF TokenInv

\* So does the end of the process.
LEMMA ForgetStep == ASSUME TokenInv, Forget PROVE TokenInv'
<1>1. /\ tokens' = committed /\ committed' = committed /\ given' = given
      /\ held' = [t \in TokenTables |-> {}]
  BY DEF Forget
<1>2. SameTokenAgain'
  BY <1>1 DEF TokenInv, SameTokenAgain, Findable
<1>3. Functions'
  BY <1>1 DEF Functions, TokenInv
<1> QED
  BY <1>1, <1>2, <1>3 DEF TokenInv

------------------------------------------------------------------------------
\* The invariant of every behaviour of the token tables.
THEOREM TokensInvariant == TokenSpec => []TokenInv
<1>1. TokenInv /\ [TokenNext]_tokenVars => TokenInv'
  <2> SUFFICES ASSUME TokenInv, [TokenNext]_tokenVars PROVE TokenInv'
    OBVIOUS
  <2>1. CASE UNCHANGED tokenVars
    BY <2>1 DEF tokenVars, TokenInv, Functions, SameTokenAgain, Findable
  <2>2. CASE TokenNext
    BY <2>2, TokenizeStep, ForgetStep DEF TokenNext
  <2> QED
    BY <2>1, <2>2
<1> QED
  BY <1>1, InitToken, PTL DEF TokenSpec

(***************************************************************************)
(* The same value is given the same token, by every job at any time.       *)
(***************************************************************************)
THEOREM TokensAgree == TokenSpec => []SameTokenAgain
<1>1. TokenInv => SameTokenAgain
  BY DEF TokenInv
<1> QED
  BY <1>1, TokensInvariant, PTL

(***************************************************************************)
(* A token is the id of one row only, and the row's value is that asked.   *)
(***************************************************************************)
THEOREM TokensStand == TokenSpec => []TokenStandsForValue
<1>1. TokenInv => TokenStandsForValue
  BY DEF TokenInv, TokenStandsForValue, Answers, Numbered
<1> QED
  BY <1>1, TokensInvariant, PTL

(***************************************************************************)
(* No crash takes the row of a token that may label results.               *)
(***************************************************************************)
THEOREM TokensPersist == TokenSpec => []GivenIsCommitted
<1>1. TokenInv => GivenIsCommitted
  BY DEF TokenInv, GivenIsCommitted, Answers
<1> QED
  BY <1>1, TokensInvariant, PTL
==============================================================================
