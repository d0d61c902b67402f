------------------------------ MODULE MCScatter ------------------------------
(***************************************************************************)
(* Small jobs for TLC: two workers and two stages whose item messages      *)
(* share the tag 21 (the filter and the loop integrals).  The first stage  *)
(* has more items than there are workers, so that a worker gets a second   *)
(* item while the other still has its first.                               *)
(***************************************************************************)
EXTENDS ScatterInvariant

CONSTANTS w1, w2, a1, a2, a3, b1

MCWorkers == {w1, w2}
MCItems   == {a1, a2, a3, b1}
MCStageOf == [i \in MCItems |-> IF i = b1 THEN 2 ELSE 1]
MCKindOf  == <<"filter_Pk", "loop_integral">>

\* One stage without an index.
MCThreeItems   == {a1, a2, a3}
MCOneStageOf   == [i \in MCThreeItems |-> 1]
MCMatsubara    == <<"Matsubara_XY">>

\* Empty messages are buffered, payloads wait for their receiver.
MCControlOnly == ControlTags

\* Everything is buffered.
MCEager == AllTags
==============================================================================
