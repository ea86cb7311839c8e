--------------------------- MODULE MCLeasedTables ---------------------------
(***************************************************************************)
(* An instance of LeasedTables: the tightest lease that covers the work.   *)
(* Executions are interchangeable.                                         *)
(***************************************************************************)
EXTENDS LeasedTables, TLC

ShortBudget == [s \in Timed |-> 1]
Smoothing == [a |-> 1, q |-> 2]
ExecutionSymmetry == Permutations(Execution)
=============================================================================
