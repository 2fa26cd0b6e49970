--------------------------- MODULE SummaryLifecycle ---------------------------
(***************************************************************************)
(* What the summary job pool of audio_flow_jobs.py promises the rest of    *)
(* the application, with no threads, queue or locks: a job is queued, may  *)
(* run, and settles once; its listener (on_change) hears phases the job    *)
(* really went through, never an older one after a newer one, and the      *)
(* final one at most once.  AudioFlowJobs.tla is shown to implement this.  *)
(***************************************************************************)
EXTENDS Naturals

CONSTANT Jobs

VARIABLES
  phase,  \* phase[j]: where job j is in its life
  told,   \* told[j]: the last phase the listener of j was given
  shut    \* whether the pool was shut down

lifecycleVars == <<phase, told, shut>>

Settled == {"ready", "failed", "cancelled"}
Phases  == {"none", "queued", "running"} \cup Settled

Rank == [p \in Phases |-> CASE p = "none"    -> 0
                            [] p = "queued"  -> 1
                            [] p = "running" -> 2
                            [] OTHER         -> 3]

Init ==
  /\ phase = [j \in Jobs |-> "none"]
  /\ told  = [j \in Jobs |-> "none"]
  /\ shut  = FALSE

Submit(j) ==
  /\ ~shut
  /\ phase[j] = "none"
  /\ phase' = [phase EXCEPT ![j] = "queued"]
  /\ UNCHANGED <<told, shut>>

Start(j) ==
  /\ ~shut
  /\ phase[j] = "queued"
  /\ phase' = [phase EXCEPT ![j] = "running"]
  /\ UNCHANGED <<told, shut>>

Settle(j, p) ==
  /\ \/ phase[j] = "running"
     \/ phase[j] = "queued" /\ p = "cancelled"
  /\ phase' = [phase EXCEPT ![j] = p]
  /\ UNCHANGED <<told, shut>>

(* A report may be late, but it is never older than the one before it; a   *)
(* final report is the true outcome and nothing follows it.                *)
Tell(j, p) ==
  /\ told[j] \notin Settled
  /\ Rank[told[j]] <= Rank[p]
  /\ Rank[p] <= Rank[phase[j]]
  /\ p \in Settled => p = phase[j]
  /\ told' = [told EXCEPT ![j] = p]
  /\ UNCHANGED <<phase, shut>>

Shut ==
  /\ shut' = TRUE
  /\ UNCHANGED <<phase, told>>

Next ==
  \/ \E j \in Jobs :
       \/ Submit(j)
       \/ Start(j)
       \/ \E p \in Settled : Settle(j, p)
       \/ \E p \in Phases \ {"none"} : Tell(j, p)
  \/ Shut

Spec == Init /\ [][Next]_lifecycleVars
===============================================================================
