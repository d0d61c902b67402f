------------------------------- MODULE MCInputs ------------------------------
(***************************************************************************)
(* Jobs for TLC.  1.0 is 100; redshifts match within a tenth, so that 1.05 *)
(* matches 1.00 and 1.11, which do not match each other.                   *)
(***************************************************************************)
EXTENDS InputProperties

Only(x) == [min |-> x, max |-> x, steps |-> 0, spacing |-> "linear"]

Block(name, n) == [exact |-> name, numbers |-> <<n>>]

Pk(name, hash, k) == [path |-> name, md5 |-> hash, samples |-> <<4000, 100, 2000, k, 1500>>]

Job(pipeline, z, IR, k, growth, init, final) ==
  [pipeline |-> pipeline, model |-> Block("LCDM", 30), z |-> z,
   UV_cutoffs |-> <<Only(140)>>, IR_cutoffs |-> IR, IR_resummation |-> <<Only(140)>>,
   loop_k |-> k,
   filter |-> Block("", 25), growth |-> Block(growth, 10), XY |-> Block("", 300),
   loop |-> Block("", 20), init |-> init, final |-> final]

Spread == <<[min |-> 100, max |-> 900, steps |-> 2, spacing |-> "bottom"], Only(300)>>
Close  == <<Only(222), Only(200)>>

MCJobs ==
  { Job("a", <<Only(105), Only(100), Only(5000)>>, <<Only(1)>>, Spread, "full",
        Pk("initial", "x", 300),
        [path |-> "final", md5 |-> "x", samples |-> <<4000, 100, 300>>]),
    Job("a", <<[min |-> 0, max |-> 5000, steps |-> 1, spacing |-> "linear"], Only(0)>>,
        <<[min |-> 0, max |-> 300, steps |-> 2, spacing |-> "top"]>>, Spread, "full",
        Pk("initial", "x", 300),
        [path |-> "short", md5 |-> "z", samples |-> <<100, 110>>]),
    Job("a", <<Only(5000), Only(111)>>, <<Only(1)>>, Close, "EdS", Pk("initial", "y", 210), None),
    Job("b", <<Only(5000)>>, <<Only(1)>>, Spread, "full", None, None) }

\* The redshifts of a job, and more of them in the next.
Grown(z) ==
  Job("a", z, <<Only(1)>>, Spread, "full", Pk("initial", "x", 300), Pk("final", "x", 300))
MCGrownJobs ==
  {Grown(<<Only(100), Only(5000)>>), Grown(<<Only(25), Only(100), Only(5000)>>)}

MCRedshifts   == {0, 25, 100, 105, 111, 5000}
MCWavenumbers == {0, 1, 100, 140, 200, 210, 222, 300, 900, 1500, 2000}
MCBlocks      == UNION {{j.model, j.filter, j.growth, j.XY, j.loop} : j \in MCJobs}
MCSpectra     == {[path |-> p, md5 |-> h, model |-> m] :
                    p \in {"initial", "final", "short"}, h \in {"x", "y", "z"},
                    m \in 0 .. MaxJobs - 1}
==============================================================================
