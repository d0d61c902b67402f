--------------------------- MODULE MCTransactions ----------------------------
(***************************************************************************)
(* A token, a result in two tables and a work list for TLC.                *)
(***************************************************************************)
EXTENDS TransactionProperties, TLC

CONSTANTS token, result, worklist

MCOperations == {token, result, worklist}
MCStatements == (token :> 1) @@ (result :> 2) @@ (worklist :> 3)
==============================================================================
