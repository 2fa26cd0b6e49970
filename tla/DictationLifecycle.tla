-------------------------- MODULE DictationLifecycle --------------------------
(***************************************************************************)
(* What the application promises of one dictation, with no locks, handlers *)
(* or other dictations: it is recorded once, at most once handed to        *)
(* recognition, and from then on either committed to delivery or given up, *)
(* never both.  Only a committed text is inserted, once, and nothing that  *)
(* is committed is cancelled.  The history gets at most one outcome, which *)
(* is what became of the text, and at most a cancellation beside it, when  *)
(* recognition came to an end of its own meanwhile.  It ends with a row,   *)
(* unless its capture already failed, or a retry or a reset took the       *)
(* application from it; and it stays as it ended.                          *)
(* Dictation.tla is shown to implement this for each dictation.            *)
(***************************************************************************)
VARIABLES
  phase,  \* where the dictation is in its life
  text,   \* its text was inserted
  rows,   \* its rows in the history
  taken   \* a retry or a reset took the application from it

lifeVars == <<phase, text, rows, taken>>

Without == {"failed", "command"}   \* the outcomes with no text to deliver

Init == phase = "none" /\ text = FALSE /\ rows = {} /\ taken = FALSE

Goes(from, to) == phase = from /\ phase' = to

Begin == Goes("none", "capture") /\ UNCHANGED <<text, rows, taken>>

HandOver == Goes("capture", "work") /\ rows = {} /\ UNCHANGED <<text, rows, taken>>

(* The capture fails, or recorded nothing.                                 *)
Fail ==
  /\ Goes("capture", "ended")
  /\ rows' \in {rows, rows \cup {"failed"}}
  /\ UNCHANGED <<text, taken>>

(* It is cancelled, or no longer in charge of the application.             *)
GiveUp ==
  /\ Goes("capture", "ending") \/ Goes("work", "ending")
  /\ UNCHANGED <<text, rows, taken>>

(* The cancellation is noted, but never of a text that was inserted or is  *)
(* ready to be.                                                            *)
NoteCancelled ==
  /\ Goes("work", "ending") \/ Goes("ending", "ending") \/ Goes("ending", "ended")
  /\ ~text /\ rows \subseteq Without
  /\ rows' = rows \cup {"cancelled"}
  /\ UNCHANGED <<text, taken>>

Commit == Goes("work", "committed") /\ rows = {} /\ UNCHANGED <<text, rows, taken>>

Insert ==
  /\ phase = "committed" /\ rows = {}
  /\ ~text /\ text' = TRUE
  /\ UNCHANGED <<phase, rows, taken>>

(* The first row, and the only one but for a cancellation.                 *)
Report ==
  /\ rows = {}
  /\ \/ /\ Goes("work", "ending") \/ Goes("ending", "ending")
        /\ ~text
        /\ \E row \in Without : rows' = {row}
     \/ /\ Goes("committed", "committed")
        /\ \E row \in IF text THEN {"pasted", "failed"} ELSE {"ready"} : rows' = {row}
  /\ UNCHANGED <<text, taken>>

Close == Goes("committed", "ending") /\ UNCHANGED <<text, rows, taken>>

End ==
  /\ Goes("ending", "ended")
  /\ taken \/ rows # {}
  /\ UNCHANGED <<text, rows, taken>>

(* The application is taken from it.                                       *)
Take ==
  /\ UNCHANGED phase \/ Goes("capture", "ending") \/ Goes("capture", "ended")
  /\ taken' = TRUE
  /\ UNCHANGED <<text, rows>>

Next ==
  \/ Begin \/ HandOver \/ Fail \/ GiveUp \/ NoteCancelled
  \/ Commit \/ Insert \/ Report \/ Close \/ End \/ Take

Spec == Init /\ [][Next]_lifeVars
===============================================================================
