---------------------------- MODULE MCAudioFlowJobs ----------------------------
(* Small pools for TLC.                                                     *)
EXTENDS AudioFlowJobs

Symmetry == Permutations(Workers) \cup Permutations(Callers) \cup Permutations(Jobs)
===============================================================================
