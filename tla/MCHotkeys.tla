------------------------------- MODULE MCHotkeys -------------------------------
(* A small instance of Hotkeys for TLC: each kind of shortcut with a mode   *)
(* that treats its press and its release differently; any mode can be       *)
(* chosen while the app runs.                                               *)
EXTENDS Hotkeys

MCSetups ==
  {<<"ctrl_win", "ptt_only">>, <<"single_ctrl", "hybrid">>, <<"double", "ptt_only">>}
===============================================================================
