------------------------------ MODULE MCVideoJobs ------------------------------
(* An instance of VideoJobs for model checking.                            *)
EXTENDS VideoJobs

CONSTANTS j1, j2, j3

===============================================================================
