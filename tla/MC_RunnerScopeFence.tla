------------------------- MODULE MC_RunnerScopeFence -------------------------
(***************************************************************************)
(* Model of RunnerScopeFence for TLC: the executions are interchangeable.  *)
(***************************************************************************)
EXTENDS RunnerScopeFence, TLC

ExecutionSymmetry == Permutations(Executions)
=============================================================================
