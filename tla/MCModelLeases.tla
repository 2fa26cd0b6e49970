--------------------------- MODULE MCModelLeases ---------------------------
(* Instances of ModelLeases for model checking.                            *)
EXTENDS ModelLeases

CONSTANTS speech, polish, whisper, s1, lfm, a, b

(* Two polish engines with two leases; the speech family is idle and only  *)
(* keeps the worker busy in between.                                       *)
TwoFamilies == [x \in Engines \cup Leases |-> IF x = whisper THEN speech ELSE polish]

============================================================================
