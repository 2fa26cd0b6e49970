---------------------------- MODULE MCDictation ----------------------------
(* Instances of Dictation for model checking.                              *)
EXTENDS Dictation

============================================================================
