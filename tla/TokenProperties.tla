--------------------------- MODULE TokenProperties ---------------------------
(***************************************************************************)
(* What a token must be to those who label results by it.                  *)
(***************************************************************************)
EXTENDS Tokens

\* A stored zero is never found again by a relative error.
Findable(t, v) == Matches(t, v, v)

(***************************************************************************)
(* Whatever jobs ask for the same value, now or later, are given the same  *)
(* token, although matching within a tolerance is not transitive: a query  *)
(* that could go two ways ends the job instead.                            *)
(***************************************************************************)
SameTokenAgain ==
  \A t \in TokenTables : \A g, h \in held[t] \cup given[t] :
    g.value = h.value /\ Findable(t, g.value) => g.id = h.id

(***************************************************************************)
(* A token in use is the id of one row, whose value is that asked for.     *)
(***************************************************************************)
TokenStandsForValue ==
  \A t \in TokenTables : \A h \in held[t] : \E r \in tokens[t] :
    /\ \A s \in tokens[t] : s.id = h.id => s = r
    /\ r.id = h.id /\ (Matches(t, r.value, h.value) \/ r.value = h.value)

(***************************************************************************)
(* A token that may label results, having left its transaction, has its    *)
(* row in the file: no crash takes the row and leaves the label.           *)
(***************************************************************************)
GivenIsCommitted ==
  \A t \in TokenTables : \A h \in given[t] : \E r \in committed[t] :
    r.id = h.id /\ (Matches(t, r.value, h.value) \/ r.value = h.value)
==============================================================================
