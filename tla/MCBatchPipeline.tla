--------------------------- MODULE MCBatchPipeline ---------------------------
(***************************************************************************)
(* Instances of BatchPipeline with the default durations of the            *)
(* repository.  One unit of time is half an hour: the lease is 60 minutes, *)
(* as is the timeout of a Glue run.                                        *)
(***************************************************************************)
EXTENDS BatchPipeline

DefaultBudget ==
  [s \in Timed |-> CASE s = "AcquireLock"         -> 0
                     [] s \in GlueJob             -> 2
                     [] s = "RunLatestProjection" -> 1]
=============================================================================
