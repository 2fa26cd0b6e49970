------------------------------ MODULE MCNativeAsr ------------------------------
(* An instance of NativeAsr for model checking.                            *)
EXTENDS NativeAsr

CONSTANTS s1, s2, d1

===============================================================================
