------------------------------ MODULE MCResults ------------------------------
(***************************************************************************)
(* Small stores for TLC.                                                   *)
(***************************************************************************)
EXTENDS ResultInvariant

CONSTANTS z1, z2, c1, c2, r1, r2, k1, k2, p1, p2

MCRedshifts   == {z1, z2}
MCKernels     == {"kernel_13", "kernel_22"}
MCSpectra     == {"dd", "rsd_mu0"}
MCWavenumbers == <<k1, k2>>

Ask(z, c, r, p, Pk) == [z |-> z, c |-> c, r |-> r, p |-> p, Pk |-> Pk]

\* Every job asks for the same.
MCOneGrid == {Ask({z1, z2}, {c1, c2}, {r1}, p1, TRUE)}

\* A smaller and a larger grid, with or without a power spectrum.
MCSmallGrid == {Ask({z1, z2}, {c1}, {r1}, p1, TRUE)}
MCGrids ==
  {Ask({z1}, {c1}, {r1}, p1, TRUE), Ask({z1, z2}, {c1}, {r1}, p1, TRUE),
   Ask({z2}, {c1}, {r1, r2}, p1, TRUE), Ask({z1, z2}, {c1}, {r1}, p1, FALSE)}
MCScales    == {r1, r2}
MCNoTables  == {}

\* Tables whose rows go missing: the stages that repair them.
MCRepaired == growth_tables \cup {"Pk_linear", "Matsubara_XY"} \cup MCKernels
                \cup multipole_tables

\* The filter's parameters change.
MCFilters == {Ask({z1}, {c1}, {r1}, p, TRUE) : p \in {p1, p2}}
==============================================================================
