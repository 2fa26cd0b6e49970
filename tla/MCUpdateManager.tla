---------------------------- MODULE MCUpdateManager ----------------------------
(* An instance of UpdateManager for model checking.                        *)
EXTENDS UpdateManager

CONSTANTS d1, d2

===============================================================================
