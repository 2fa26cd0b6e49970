---------------------------- MODULE MCAudioSummaries ---------------------------
(* Small instances of AudioSummaries for TLC.                               *)
EXTENDS AudioSummaries
===============================================================================
