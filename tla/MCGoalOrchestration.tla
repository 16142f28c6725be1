------------------------ MODULE MCGoalOrchestration ------------------------
(* GoalOrchestration with interchangeable task ids and runs. *)
EXTENDS GoalOrchestration, TLC

Interchangeable == Permutations(Tasks)
=============================================================================
