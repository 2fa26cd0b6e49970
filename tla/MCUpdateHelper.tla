---------------------------- MODULE MCUpdateHelper ----------------------------
(* An instance of UpdateHelper for model checking.                         *)
EXTENDS UpdateHelper

CONSTANTS h1, h2, i1, i2

===============================================================================
