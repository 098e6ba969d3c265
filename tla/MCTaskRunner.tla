---------------------------- MODULE MCTaskRunner ----------------------------
(* Model-checking instances of TaskRunner.  Processes are interchangeable,  *)
(* and so are environments: nothing orders or names one of them.            *)
EXTENDS TaskRunnerImpl, TLC

Symmetry == Permutations(Processes) \cup Permutations(Environments)
=============================================================================
