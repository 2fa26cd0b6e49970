---------------------------- MODULE VideoLifecycle ----------------------------
(***************************************************************************)
(* What the video service promises of one job, with no threads, timers,    *)
(* tables or other jobs: it is created once, works, is tried again at most *)
(* once after a usage limit, and gets one outcome, which stays until the   *)
(* job is removed for good.  Every outcome is then shown once in the       *)
(* history, which shows no other.  Whoever creates the job enters it there *)
(* as processing, once and maybe late: nothing else hides an outcome but   *)
(* the end of the record itself.                                           *)
(* VideoJobs.tla is shown to implement this for each job.                  *)
(***************************************************************************)
EXTENDS Naturals

VARIABLES
  phase,     \* where the job is in its life
  entering,  \* whoever creates it has still to enter it in the history
  showing,   \* its outcome has still to be shown
  shown,     \* what the history shows
  tries      \* automatic retries so far

lifeVars == <<phase, entering, showing, shown, tries>>

Active  == {"queued", "running"}
Settled == {"complete", "failed", "cancelled"}
Shows   == [complete |-> "success", failed |-> "error", cancelled |-> "cancelled"]

Init == phase = "none" /\ entering = FALSE /\ showing = FALSE /\ shown = "none" /\ tries = 0

Create ==
  /\ phase = "none" /\ phase' = "queued"
  /\ entering' = TRUE
  /\ UNCHANGED <<showing, shown, tries>>

Enter ==
  /\ entering /\ entering' = FALSE
  /\ shown' = "processing"
  /\ UNCHANGED <<phase, showing, tries>>

Work ==
  /\ phase \in Active /\ phase' \in Active
  /\ UNCHANGED <<entering, showing, shown, tries>>

Retry ==
  /\ phase \in Active /\ phase' = "queued"
  /\ tries = 0 /\ tries' = 1
  /\ UNCHANGED <<entering, showing, shown>>

Settle ==
  /\ phase \in Active /\ phase' \in Settled
  /\ showing' = TRUE
  /\ UNCHANGED <<entering, shown, tries>>

(* Once for each outcome, whether the job is still there or not.           *)
Show ==
  /\ showing /\ showing' = FALSE
  /\ \E outcome \in Settled :
       /\ phase \in {outcome, "gone"}
       /\ shown' = Shows[outcome]
  /\ UNCHANGED <<phase, entering, tries>>

(* The job is removed, and what the history shows of it.                   *)
Remove ==
  /\ phase \in Active \cup Settled /\ phase' = "gone"
  /\ shown' = "none"
  /\ UNCHANGED <<entering, showing, tries>>

(* The history has no room for it, or its record is cleared.               *)
Forget ==
  /\ shown' = "none"
  /\ UNCHANGED <<phase, entering, showing, tries>>

(* The app is killed and starts again: a job that was waiting for its      *)
(* retry, or had it, is queued again; any other fails, or is left alone.   *)
Crash ==
  /\ entering' = FALSE /\ showing' = FALSE
  /\ \/ UNCHANGED <<phase, shown>>
     \/ phase \in Active /\ tries = 1 /\ phase' = "queued" /\ UNCHANGED shown
     \/ phase \in Active /\ tries = 0 /\ phase' = "failed" /\ shown' = "error"
  /\ UNCHANGED tries

Next ==
  \/ Create \/ Enter \/ Work \/ Retry \/ Settle \/ Show \/ Remove \/ Forget \/ Crash

Spec == Init /\ [][Next]_lifeVars
===============================================================================
