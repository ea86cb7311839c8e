--------------------------- MODULE MCBatchTables ---------------------------
(***************************************************************************)
(* Instances of BatchTables: small smoothing factors for those of the code *)
(* (2 / 13, 2 / 27, 1 / 14).  Executions are interchangeable.  On          *)
(* premises, where applications may also start again and write one data    *)
(* set at a time, Bronze is kept to fewer candles.                         *)
(***************************************************************************)
EXTENDS BatchTables, TLC

FastSmoothing == [a |-> 2, q |-> 3]
SlowSmoothing == [a |-> 1, q |-> 3]
ExecutionSymmetry == Permutations(Execution)

OnPremisesBound == platform = "local" => Cardinality(bronze) <= IF raced = {} THEN 2 ELSE 1
=============================================================================
