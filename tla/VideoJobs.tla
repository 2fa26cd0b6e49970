------------------------------- MODULE VideoJobs -------------------------------
(***************************************************************************)
(* video_flow_service.py: the jobs of Video Flow.                          *)
(*                                                                         *)
(* A job is a row of video_flow_jobs, a row of the history, the thread     *)
(* that runs it and, after a usage limit of NotebookLM, a timer that runs  *)
(* it once more.  The user cancels, deletes and lists at any time, and the *)
(* app may be killed and started again.  Every call of the store holds its *)
(* lock and is one step, except finish(), which writes the row and then,   *)
(* still under the lock, the history; and create(), which holds the lock   *)
(* for the row only.  The history page deletes a record, or all of them,   *)
(* in the database itself, without the lock of the store.                  *)
(*                                                                         *)
(* A retry begins at least a second after it was scheduled, by which time  *)
(* the run that scheduled it has ended: the two never overlap, and pc is   *)
(* where the one or the other is.                                          *)
(***************************************************************************)
EXTENDS Integers, Sequences, SequencesExt, FiniteSets

CONSTANTS
  Jobs,        \* the jobs that are ever created
  NoJob,       \* none of them
  MaxKeep,     \* rows that are kept (50 in the program)
  MaxUpsets,   \* restarts of the app and calls from the history page
               \* (bounds the model only)
  LimitModes   \* how an engine tells of a usage limit: "raised", "returned"

ASSUME VideoJobsAssumption ==
  /\ IsFiniteSet(Jobs) /\ NoJob \notin Jobs /\ MaxKeep \in Nat \ {0}
  /\ MaxUpsets \in Nat
  /\ LimitModes \subseteq {"raised", "returned"}

Active   == {"queued", "running"}
Terminal == {"complete", "failed", "cancelled"}

(* The status of the history for a settled row.                            *)
Outcome(state) ==
  [complete |-> "success", failed |-> "error", cancelled |-> "cancelled"][state]

VARIABLES
  row,      \* the state of a job's row; "none" before it is created, "gone" after
  rows,     \* the jobs with a row, oldest first
  hist,     \* the status of a job's history row
  records,  \* the jobs with a history row, lowest id first
  attempts, \* meta.rate_limit_attempts; with 1, rate_limit_retry_at is set too
  pc,       \* where the thread that creates or runs a job is
  engine,   \* _engines has the job
  known,    \* _retry_timers has the job
  timer,    \* a timer that has not fired waits to run the job
  flag,     \* the process manager was told to cancel the job
  stop,     \* how far a cancellation is
  saving,   \* the job whose finish() has written the row but not the history
  limited,  \* jobs that met the usage limit since the app started (history)
  torn,     \* jobs whose row and history were written by two calls at once or
            \* cut by a crash (history)
  cleared,  \* jobs with a row, their record cleared and not written again (history)
  orphaned, \* active rows too young for the last start to look at (history)
  upsets    \* restarts and calls from the history page so far (history, bounded)

storeVars == <<row, rows, hist, records, attempts, saving, torn, cleared>>
runVars   == <<pc, engine, known, timer, flag, stop>>
history   == <<limited, orphaned, upsets>>
vars      == <<storeVars, runVars, history>>

(* Every variable has its type; a job has a row, or a history, or neither. *)
TypeOK ==
  /\ row \in [Jobs -> {"none", "gone"} \cup Active \cup Terminal]
  /\ hist \in [Jobs -> {"none", "processing", "success", "error", "cancelled"}]
  /\ rows \in Seq(Jobs) /\ records \in Seq(Jobs)
  /\ ToSet(rows) = {j \in Jobs : row[j] \in Active \cup Terminal} /\ IsInjective(rows)
  /\ ToSet(records) = {j \in Jobs : hist[j] # "none"} /\ IsInjective(records)
  /\ attempts \in [Jobs -> 0..1]
  /\ pc \in [Jobs -> {"none", "record", "prune", "start", "check", "engine", "recheck", "work",
                      "limit", "fail", "schedule", "final", "idle"}]
  /\ engine \in [Jobs -> BOOLEAN] /\ known \in [Jobs -> BOOLEAN]
  /\ timer \in [Jobs -> BOOLEAN] /\ flag \in [Jobs -> BOOLEAN]
  /\ stop \in [Jobs -> {"idle", "seen", "told"}]
  /\ saving \in Jobs \cup {NoJob}
  /\ limited \subseteq Jobs /\ torn \subseteq Jobs /\ cleared \subseteq Jobs /\ orphaned \subseteq Jobs
  /\ upsets \in 0..MaxUpsets

Init ==
  /\ row = [j \in Jobs |-> "none"] /\ rows = <<>>
  /\ hist = [j \in Jobs |-> "none"] /\ records = <<>>
  /\ attempts = [j \in Jobs |-> 0]
  /\ pc = [j \in Jobs |-> "none"]
  /\ engine = [j \in Jobs |-> FALSE] /\ known = [j \in Jobs |-> FALSE]
  /\ timer = [j \in Jobs |-> FALSE] /\ flag = [j \in Jobs |-> FALSE]
  /\ stop = [j \in Jobs |-> "idle"] /\ saving = NoJob
  /\ limited = {} /\ torn = {} /\ cleared = {} /\ orphaned = {} /\ upsets = 0

-------------------------------------------------------------------------------
(* The calls of the store.                                                 *)

(* A row changes while create() or finish() has still to write its history.*)
Tears(S) == torn' = torn \cup {j \in S : pc[j] = "record" \/ saving = j}

(* Faulty: a job gets a new history row each time.                         *)
FaultyRecord(S, status) ==
  /\ hist' = [j \in Jobs |-> IF j \in S THEN status[j] ELSE hist[j]]
  /\ records' = records \o SetToSeq(S)
  /\ cleared' = cleared \ S

(* A history row for each job of S (record_video_history): the one it has, *)
(* or a new one.                                                           *)
Record(S, status) ==
  /\ hist' = [j \in Jobs |-> IF j \in S THEN status[j] ELSE hist[j]]
  /\ records' = records \o SetToSeq(S \ ToSet(records))
  /\ cleared' = cleared \ S

(* Faulty: a late report revives a settled job.                            *)
FaultyUpdate(j, state) ==
  /\ row' = IF row[j] \in Active \cup Terminal THEN [row EXCEPT ![j] = state] ELSE row
  /\ UNCHANGED <<rows, hist, records, saving, torn, cleared>>

(* A change of an active row.                                              *)
Update(j, state) ==
  /\ row' = IF row[j] \in Active THEN [row EXCEPT ![j] = state] ELSE row
  /\ UNCHANGED <<rows, hist, records, saving, torn, cleared>>

(* The first half of finish(): an active row gets its outcome.             *)
Finish(j, state) ==
  /\ IF row[j] \in Active
     THEN row' = [row EXCEPT ![j] = state] /\ saving' = j /\ Tears({j})
     ELSE UNCHANGED <<row, saving, torn>>
  /\ UNCHANGED <<rows, hist, records, attempts, cleared>>

(* Its second half: the history gets the outcome too, whatever it was if   *)
(* the row has gone meanwhile.                                             *)
FinishRecords ==
  /\ saving # NoJob
  /\ \E state \in Terminal :
       /\ row[saving] \in Terminal => state = row[saving]
       /\ Record({saving}, [j \in Jobs |-> Outcome(state)])
  /\ saving' = NoJob
  /\ UNCHANGED <<row, rows, attempts, torn, runVars, history>>

(* What is left of s without the members of S, in the same order.          *)
Without(s, S) ==
  LET left[n \in 0..Len(s)] ==
        IF n = 0 THEN <<>> ELSE IF s[n] \in S THEN left[n - 1] ELSE Append(left[n - 1], s[n])
  IN  left[Len(s)]

(* The rows of S go, and of the history only left stays.                   *)
Drop(S, left) ==
  /\ row' = [j \in Jobs |-> IF j \in S THEN "gone" ELSE row[j]]
  /\ rows' = Without(rows, S)
  /\ records' = left
  /\ hist' = [j \in Jobs |-> IF j \in ToSet(left) THEN hist[j] ELSE "none"]
  /\ Tears(S) /\ cleared' = cleared \ S
  /\ UNCHANGED <<attempts, saving>>

(* The oldest rows beyond MaxKeep go with their history, and of the        *)
(* history the newest MaxKeep stay (prune_excess_jobs).                    *)
Prune ==
  IF Len(rows) > MaxKeep
  THEN LET old  == ToSet(SubSeq(rows, 1, Len(rows) - MaxKeep))
           left == Without(records, old)
       IN  Drop(old, IF Len(left) > MaxKeep
                     THEN SubSeq(left, Len(left) - MaxKeep + 1, Len(left)) ELSE left)
  ELSE UNCHANGED storeVars

-------------------------------------------------------------------------------
(* The thread that queues a job: its row, its history, room for it, and    *)
(* the thread that runs it.                                                *)

Goes(j, from, to) == pc[j] = from /\ pc' = [pc EXCEPT ![j] = to]

Create(j) ==
  /\ Goes(j, "none", "record") /\ saving = NoJob
  /\ row' = [row EXCEPT ![j] = "queued"] /\ rows' = Append(rows, j)
  /\ UNCHANGED <<hist, records, attempts, saving, torn, cleared, engine, known, timer, flag, stop, history>>

CreateRecords(j) ==
  /\ Goes(j, "record", "prune")
  /\ Record({j}, [i \in Jobs |-> "processing"])
  /\ UNCHANGED <<row, rows, attempts, saving, torn, engine, known, timer, flag, stop, history>>

CreatePrunes(j) ==
  /\ Goes(j, "prune", "start") /\ saving = NoJob
  /\ Prune
  /\ UNCHANGED <<engine, known, timer, flag, stop, history>>

StartThread(j) ==
  /\ Goes(j, "start", "check")
  /\ UNCHANGED <<storeVars, engine, known, timer, flag, stop, history>>

-------------------------------------------------------------------------------
(* _run, on the job's thread or its timer's.                               *)

Settled(j) == row[j] \notin Active

(* A job that was settled or deleted meanwhile is left alone.              *)
Check(j) ==
  /\ Goes(j, "check", IF Settled(j) THEN "final" ELSE "engine") /\ saving = NoJob
  /\ UNCHANGED <<storeVars, engine, known, timer, flag, stop, history>>

Register(j) ==
  /\ Goes(j, "engine", "recheck")
  /\ engine' = [engine EXCEPT ![j] = TRUE]
  /\ UNCHANGED <<storeVars, known, timer, flag, stop, history>>

Recheck(j) ==
  /\ Goes(j, "recheck", IF Settled(j) THEN "final" ELSE "work") /\ saving = NoJob
  /\ flag' = [flag EXCEPT ![j] = @ \/ Settled(j)]
  /\ UNCHANGED <<storeVars, engine, known, timer, stop, history>>

(* The engine reports how far it is (_progress).                           *)
Progress(j) ==
  /\ pc[j] = "work" /\ saving = NoJob
  /\ \E state \in Active : Update(j, state)
  /\ UNCHANGED <<attempts, runVars, history>>

(* The engine returns an outcome (_complete); only one that was told to    *)
(* cancel returns "cancelled".                                             *)
Complete(j) ==
  /\ Goes(j, "work", "final") /\ saving = NoJob
  /\ \E state \in Terminal :
       /\ state = "cancelled" => flag[j]
       /\ Finish(j, state)
  /\ UNCHANGED <<engine, known, timer, flag, stop, history>>

(* NotebookLM's usage limit, returned as a failure or raised.              *)
MeetLimit(j) ==
  /\ pc[j] = "work" /\ saving = NoJob
  /\ limited' = limited \cup {j}
  /\ \/ "returned" \in LimitModes /\ Goes(j, "work", "final") /\ Finish(j, "failed")
     \/ "raised" \in LimitModes /\ Goes(j, "work", "limit") /\ UNCHANGED storeVars
  /\ UNCHANGED <<engine, known, timer, flag, stop, orphaned, upsets>>

(* An engine that cannot be made, or raises anything else.                 *)
Raise(j) ==
  /\ pc[j] \in {"engine", "work"}
  /\ pc' = [pc EXCEPT ![j] = "fail"]
  /\ UNCHANGED <<storeVars, engine, known, timer, flag, stop, history>>

(* The first limit puts the job back to wait; the second is a failure.     *)
Park(j) ==
  /\ saving = NoJob
  /\ IF attempts[j] = 0
     THEN /\ Goes(j, "limit", IF Settled(j) THEN "final" ELSE "schedule")
          /\ attempts' = IF Settled(j) THEN attempts ELSE [attempts EXCEPT ![j] = 1]
          /\ Update(j, "queued")
     ELSE Goes(j, "limit", "fail") /\ UNCHANGED storeVars
  /\ UNCHANGED <<engine, known, timer, flag, stop, history>>

(* Faulty: the timer is made and not started.                              *)
FaultySchedule(j) ==
  /\ Goes(j, "schedule", "final")
  /\ known' = [known EXCEPT ![j] = TRUE]
  /\ UNCHANGED <<storeVars, engine, timer, flag, stop, history>>

Schedule(j) ==
  /\ Goes(j, "schedule", "final")
  /\ timer' = [timer EXCEPT ![j] = TRUE] /\ known' = [known EXCEPT ![j] = TRUE]
  /\ UNCHANGED <<storeVars, engine, flag, stop, history>>

(* Any other error settles the job, as cancelled if it was.                *)
Fail(j) ==
  /\ Goes(j, "fail", "final") /\ saving = NoJob
  /\ Finish(j, IF engine[j] /\ flag[j] THEN "cancelled" ELSE "failed")
  /\ UNCHANGED <<engine, known, timer, flag, stop, history>>

(* The thread ends, and forgets the job's timer with its engine.           *)
Finally(j) ==
  /\ Goes(j, "final", "idle") /\ saving # j
  /\ engine' = [engine EXCEPT ![j] = FALSE] /\ known' = [known EXCEPT ![j] = FALSE]
  /\ UNCHANGED <<storeVars, timer, flag, stop, history>>

TimerFires(j) ==
  /\ timer[j] /\ Goes(j, "idle", "check")
  /\ timer' = [timer EXCEPT ![j] = FALSE]
  /\ UNCHANGED <<storeVars, engine, known, flag, stop, history>>

-------------------------------------------------------------------------------
(* The user's calls: cancel, in three steps, delete, which cancels first,  *)
(* list, which prunes, and the two of the history page.                    *)

Halts(j, from, to) == stop[j] = from /\ stop' = [stop EXCEPT ![j] = to]

Cancel(j) ==
  /\ Halts(j, "idle", "seen") /\ ~Settled(j) /\ saving = NoJob
  /\ UNCHANGED <<storeVars, pc, engine, known, timer, flag, history>>

(* The timer is cancelled and the engine told, as far as they are known.   *)
CancelTells(j) ==
  /\ Halts(j, "seen", "told")
  /\ known' = [known EXCEPT ![j] = FALSE]
  /\ timer' = [timer EXCEPT ![j] = @ /\ ~known[j]]
  /\ flag' = [flag EXCEPT ![j] = @ \/ engine[j]]
  /\ UNCHANGED <<storeVars, pc, engine, history>>

CancelFinishes(j) ==
  /\ Halts(j, "told", "idle") /\ saving = NoJob
  /\ Finish(j, "cancelled")
  /\ UNCHANGED <<pc, engine, known, timer, flag, history>>

Delete(j) ==
  /\ row[j] \in Terminal /\ saving = NoJob
  /\ Drop({j}, Without(records, {j}))
  /\ UNCHANGED <<runVars, history>>

List ==
  /\ saving = NoJob /\ Prune
  /\ UNCHANGED <<runVars, history>>

Upset == upsets < MaxUpsets /\ upsets' = upsets + 1
Visit == Upset /\ UNCHANGED <<runVars, limited, orphaned>>

(* Faulty: only the record goes, the job stays.                            *)
FaultyDeleteRecord(j) == Visit /\ hist[j] # "none" /\ Drop({}, Without(records, {j}))

(* A record is deleted on the history page, and the job with it, whatever  *)
(* it does and without cancelling it.                                      *)
DeleteRecord(j) == Visit /\ hist[j] # "none" /\ Drop({j}, Without(records, {j}))

(* The history page is cleared; the jobs stay.                             *)
ClearHistory ==
  /\ Visit
  /\ hist' = [j \in Jobs |-> "none"] /\ records' = <<>>
  /\ cleared' = cleared \cup ToSet(records)
  /\ UNCHANGED <<row, rows, attempts, saving, torn>>

-------------------------------------------------------------------------------
(* The app is killed and starts again: threads and timers are gone, and    *)
(* the new service settles or schedules the active rows that nobody has    *)
(* touched for ten minutes (_reconcile_stale_jobs).                        *)

Resumed(old) == {j \in old : attempts[j] = 1}

(* Faulty: a row that waits for its retry is set to queued and left there. *)
FaultyRestartThreads(old) ==
  /\ pc' = [j \in Jobs |-> IF row[j] = "none" THEN "none" ELSE "idle"]
  /\ engine' = [j \in Jobs |-> FALSE]
  /\ timer' = [j \in Jobs |-> FALSE] /\ known' = timer'
  /\ flag' = [j \in Jobs |-> FALSE] /\ stop' = [j \in Jobs |-> "idle"]

RestartThreads(old) ==
  /\ pc' = [j \in Jobs |-> IF row[j] = "none" THEN "none" ELSE "idle"]
  /\ engine' = [j \in Jobs |-> FALSE]
  /\ timer' = [j \in Jobs |-> j \in Resumed(old)] /\ known' = timer'
  /\ flag' = [j \in Jobs |-> FALSE] /\ stop' = [j \in Jobs |-> "idle"]

Restart ==
  /\ Upset
  /\ \E young \in SUBSET {j \in Jobs : row[j] \in Active} :
       LET old    == {j \in Jobs : row[j] \in Active} \ young
           failed == old \ Resumed(old)
       IN  /\ orphaned' = young
           /\ row' = [j \in Jobs |-> IF j \in failed THEN "failed"
                                     ELSE IF j \in old THEN "queued" ELSE row[j]]
           /\ Record(failed, [j \in Jobs |-> "error"])
           /\ RestartThreads(old)
  /\ torn' = torn \cup {j \in Jobs : pc[j] = "record" \/ saving = j} /\ saving' = NoJob
  /\ limited' = {}
  /\ UNCHANGED <<rows, attempts>>

-------------------------------------------------------------------------------
Queue(j) == CreateRecords(j) \/ CreatePrunes(j) \/ StartThread(j)
Ends(j)  == Complete(j) \/ MeetLimit(j) \/ (pc[j] = "work" /\ Raise(j))
Run(j)   == \/ Check(j) \/ Register(j) \/ Recheck(j) \/ Ends(j) \/ Park(j) \/ Schedule(j)
            \/ Fail(j) \/ Finally(j) \/ TimerFires(j)
Stop(j)  == CancelTells(j) \/ CancelFinishes(j)

Next ==
  \/ FinishRecords \/ List \/ ClearHistory \/ Restart
  \/ \E j \in Jobs : \/ Create(j) \/ Queue(j) \/ Run(j) \/ Raise(j) \/ Progress(j)
                     \/ Cancel(j) \/ Stop(j) \/ Delete(j) \/ DeleteRecord(j)

(* Threads run, timers fire and an engine ends: each of its calls has a    *)
(* timeout.  Nobody has to create, cancel, delete, clear, list or restart. *)
Fairness ==
  /\ WF_vars(FinishRecords)
  /\ \A j \in Jobs : WF_vars(Queue(j)) /\ WF_vars(Run(j)) /\ WF_vars(Stop(j))

SafeSpec == Init /\ [][Next]_vars
Spec     == SafeSpec /\ Fairness

-------------------------------------------------------------------------------
(* The history shows every job as its row does, and none that was deleted, *)
(* except where a crash or a second writer, the history page among them,   *)
(* came between the two writes; a row such a job left behind may push      *)
(* another out of the history.  A cleared job is not shown until its next  *)
(* outcome is written.                                                     *)
HistoryAgrees ==
  \A j \in Jobs \ torn :
    \/ saving = j \/ pc[j] = "record"
    \/ hist[j] = CASE row[j] \in Active -> "processing"
                   [] row[j] \in Terminal -> Outcome(row[j])
                   [] OTHER -> "none"
    \/ (torn # {} \/ j \in cleared) /\ hist[j] = "none"

(* An active row has a thread, a timer or a cancellation that settles it;  *)
(* only a start can leave one alone, and only a young one.                 *)
ActiveIsAttended ==
  \A j \in Jobs : row[j] \in Active =>
    pc[j] # "idle" \/ timer[j] \/ stop[j] # "idle" \/ j \in orphaned

(* Each job, seen by itself, lives as VideoLifecycle allows, whatever its  *)
(* threads, timers and cancellations, the other jobs, and restarts do: it  *)
(* is created once and retried once, no late callback, retry, cancellation *)
(* or restart changes its outcome or brings it back, and the history never *)
(* shows an outcome that is not its own; of a job that was removed, it may *)
(* show only what was being written when it was.                           *)
Life(j) == INSTANCE VideoLifecycle
             WITH phase <- row[j], entering <- pc[j] = "record", showing <- saving = j,
                  shown <- hist[j], tries <- attempts[j]
EachJobLives ==
  /\ \A j \in Jobs : Life(j)!Init
  /\ [][\A j \in Jobs : [Life(j)!Next]_(Life(j)!lifeVars)]_vars

(* Every job that is queued gets an outcome or is removed: none stays      *)
(* active for good, but one that a start found too young.                  *)
EveryJobSettles ==
  \A j \in Jobs : []<>(row[j] \notin Active \/ j \in orphaned)

(* A job that was removed is not shown.  The code does not keep this when  *)
(* the history page removes it between the two writes of its outcome, or   *)
(* another thread does before create() has entered it.                     *)
RemovedIsNotShown == \A j \in Jobs : row[j] = "gone" => hist[j] = "none"

(* A job that failed at the usage limit had its automatic retry.           *)
LimitedOnceIsRetried ==
  \A j \in Jobs : row[j] = "failed" /\ j \in limited => attempts[j] = 1

===============================================================================
