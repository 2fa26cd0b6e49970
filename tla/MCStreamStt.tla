------------------------------ MODULE MCStreamStt ------------------------------
(* A small instance of StreamStt for TLC.                                    *)
EXTENDS StreamStt

(* Short silence, and a long forced cut that overlaps the chunk before it.   *)
SilenceAndLongSpeech ==
  {[size |-> 1, speech |-> FALSE, overlap |-> FALSE],
   [size |-> 2, speech |-> TRUE, overlap |-> TRUE]}
===============================================================================
