------------------------------ MODULE MCProducts -----------------------------
(***************************************************************************)
(* Jobs for TLC: two wavenumbers, two redshifts, with and without a final  *)
(* power spectrum.  The tokens of different kinds are different numbers    *)
(* where they may be, so that none can pass for another.                   *)
(***************************************************************************)
EXTENDS ProductProperties

Ask(init, final, loop) ==
  [model |-> 1, k |-> {2, 3}, UV |-> {4}, IR |-> {5}, resum |-> {6}, z |-> {7, 8},
   init |-> init, final |-> final, filter |-> 9, loop |-> loop, XY |-> 10, growth |-> 11]

\* The first power spectrum and the first loop parameters of the database.
MCFirstJobs == {Ask(0, None, 0), Ask(0, 12, 0)}

\* A database that already holds another power spectrum.
MCSecondJobs == {Ask(13, None, 0)}
==============================================================================
