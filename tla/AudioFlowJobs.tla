----------------------------- MODULE AudioFlowJobs -----------------------------
(***************************************************************************)
(* The bounded pool of background summary jobs, audio_flow_jobs.py.        *)
(*                                                                         *)
(* A thread holds the pool's lock for one action at a time: every critical *)
(* section of the source is one action, and everything the source does     *)
(* outside the lock is a separate step at which other threads interleave.  *)
(* The per-job notify_lock is a variable of its own (holder), because a    *)
(* thread keeps it while it runs the on_change callback.                   *)
(*                                                                         *)
(* A job id is a fresh uuid (main.py, _submit_audio_summary), so a job of  *)
(* Jobs is submitted at most once.                                         *)
(***************************************************************************)
EXTENDS Integers, Sequences, FiniteSets, SequencesExt

CONSTANTS
  Jobs,       \* job ids
  Workers,    \* the threads of the pool
  Callers,    \* threads that submit and cancel (API handlers, hotkeys, UI)
  Main,       \* the thread that calls shutdown
  None,       \* "no job" and "no thread"
  MaxQueued,  \* max_queued
  Retained    \* retained_terminal

Threads == Workers \cup Callers \cup {Main}

ASSUME ThreadsAreDistinct ==
  /\ Workers \cap Callers = {}
  /\ Main \notin Workers \cup Callers
  /\ None \notin Threads
  /\ None \notin Jobs

ASSUME BoundsAreCounts ==
  /\ IsFiniteSet(Jobs)
  /\ MaxQueued \in Nat \ {0}
  /\ Retained \in Nat

VARIABLES
  status,       \* job.status; "none" before submit
  cancelEvent,  \* job.cancel_event
  released,     \* job.text and job.run were dropped by _release_source
  notified,     \* job.terminal_notified
  holder,       \* the thread that holds job.notify_lock
  told,         \* the status in the last snapshot given to on_change
  table,        \* the keys of _jobs
  born,         \* born[j]: the place of j in the insertion order of _jobs
  queue,        \* _queue
  closed,       \* _closed
  toCancel,     \* shutdown's to_cancel, what is left of it
  pc,           \* where each thread is
  cur,          \* the job each thread works on
  say,          \* the status its _notify call was made with
  back,         \* where it goes on after _notify
  gone          \* the ids _prune_terminal removed and on_evict has not seen

jobVars    == <<status, cancelEvent, released, notified, holder, told>>
poolVars   == <<table, born, queue, closed, toCancel>>
threadVars == <<pc, cur, say, back, gone>>
vars       == <<jobVars, poolVars, threadVars>>

Settled  == {"ready", "failed", "cancelled"}
Active   == {"queued", "running"}
Statuses == {"none"} \cup Active \cup Settled

(* "idle" is the worker's loop head and a caller outside the pool; "fetch" *)
(* reads job.run, "run" is inside it, "returned" and "raised" are its two  *)
(* ends.                                                                   *)
Places == {"idle", "notify", "callback", "release", "prune", "evict",
           "fetch", "run", "returned", "raised",
           "stopping", "joining", "exited"}

TypeOK ==
  /\ status \in [Jobs -> Statuses]
  /\ cancelEvent \in [Jobs -> BOOLEAN]
  /\ released \in [Jobs -> BOOLEAN]
  /\ notified \in [Jobs -> BOOLEAN]
  /\ holder \in [Jobs -> Threads \cup {None}]
  /\ told \in [Jobs -> Statuses]
  /\ table \in SUBSET Jobs
  /\ born \in [Jobs -> Nat]
  /\ queue \in Seq(Jobs) /\ Len(queue) <= MaxQueued
  /\ closed \in BOOLEAN
  /\ toCancel \in SUBSET Jobs
  /\ pc \in [Threads -> Places]
  /\ cur \in [Threads -> Jobs \cup {None}]
  /\ say \in [Threads -> Statuses]
  /\ back \in [Threads -> {"idle", "release", "fetch", "run"}]
  /\ gone \in [Threads -> SUBSET Jobs]

Init ==
  /\ status = [j \in Jobs |-> "none"]
  /\ cancelEvent = [j \in Jobs |-> FALSE]
  /\ released = [j \in Jobs |-> FALSE]
  /\ notified = [j \in Jobs |-> FALSE]
  /\ holder = [j \in Jobs |-> None]
  /\ told = [j \in Jobs |-> "none"]
  /\ table = {}
  /\ born = [j \in Jobs |-> 0]
  /\ queue = <<>>
  /\ closed = FALSE
  /\ toCancel = {}
  /\ pc = [t \in Threads |-> "idle"]
  /\ cur = [t \in Threads |-> None]
  /\ say = [t \in Threads |-> "none"]
  /\ back = [t \in Threads |-> "idle"]
  /\ gone = [t \in Threads |-> {}]

-------------------------------------------------------------------------------
(* Steps of a thread.                                                      *)

(* Outside a call on the pool a thread has no job and nothing to say.      *)
Goto(t, place) ==
  /\ pc' = [pc EXCEPT ![t] = place]
  /\ IF place \in {"idle", "stopping"}
     THEN /\ cur'  = [cur EXCEPT ![t] = None]
          /\ say'  = [say EXCEPT ![t] = "none"]
          /\ back' = [back EXCEPT ![t] = "idle"]
     ELSE UNCHANGED <<cur, say, back>>
  /\ UNCHANGED gone

(* Leave the pool's lock and call _notify(j, s).                           *)
CallNotify(t, j, s, place) ==
  /\ pc'   = [pc EXCEPT ![t] = "notify"]
  /\ cur'  = [cur EXCEPT ![t] = j]
  /\ say'  = [say EXCEPT ![t] = s]
  /\ back' = [back EXCEPT ![t] = place]
  /\ UNCHANGED gone

(* Where a thread goes when its call on the pool is over.                  *)
Home(t) == IF t = Main THEN "stopping" ELSE "idle"

-------------------------------------------------------------------------------
(* submit: before_enqueue writes the initial history row, under the lock.  *)
Submit(c, j) ==
  /\ pc[c] = "idle"
  /\ ~closed
  /\ status[j] = "none"
  /\ Len(queue) < MaxQueued
  /\ status' = [status EXCEPT ![j] = "queued"]
  /\ table' = table \cup {j}
  /\ born' = [born EXCEPT ![j] = Cardinality({k \in Jobs : status[k] # "none"})]
  /\ queue' = Append(queue, j)
  /\ CallNotify(c, j, "queued", "idle")
  /\ UNCHANGED <<cancelEvent, released, notified, holder, told, closed, toCancel>>

(* The critical section of cancel, which both callers and shutdown enter.  *)
(* An id is in the queue at most once (QueueMatchesStatus), so it does not *)
(* matter that deque.remove takes the first occurrence.                    *)
Dequeued(j) ==
  IF \E i \in DOMAIN queue : queue[i] = j
  THEN RemoveAt(queue, CHOOSE i \in DOMAIN queue : queue[i] = j)
  ELSE queue

CancelSection(t, j) ==
  /\ j \in table
  /\ status[j] \in Active
  /\ cancelEvent' = [cancelEvent EXCEPT ![j] = TRUE]
  /\ status' = [status EXCEPT ![j] = "cancelled"]
  /\ queue' = Dequeued(j)
  /\ CallNotify(t, j, "cancelled", "release")
  /\ UNCHANGED <<released, notified, holder, told, table, born, closed>>

Cancel(c, j) ==
  /\ pc[c] = "idle"
  /\ CancelSection(c, j)
  /\ UNCHANGED toCancel

-------------------------------------------------------------------------------
(* Deliberately wrong variants of a definition, used to show that a        *)
(* property notices, carry the prefix Faulty.  This one: only repeated     *)
(* final reports are suppressed, stale ones are not.                       *)
FaultyOutdated(t) == say[t] \in Settled /\ notified[cur[t]]

(* _notify: take notify_lock, then look at the job under the pool's lock.  *)
(* A status that moved on, or a final status that was already reported,    *)
(* makes the call return at once.                                          *)
Outdated(t) ==
  \/ status[cur[t]] # say[t]
  \/ say[t] \in Settled /\ notified[cur[t]]

EnterNotify(t) ==
  /\ pc[t] = "notify"
  /\ holder[cur[t]] = None
  /\ IF Outdated(t)
     THEN /\ Goto(t, back[t])
          /\ UNCHANGED <<holder, notified>>
     ELSE /\ Goto(t, "callback")
          /\ holder' = [holder EXCEPT ![cur[t]] = t]
          /\ notified' = [notified EXCEPT ![cur[t]] = @ \/ say[t] \in Settled]
  /\ UNCHANGED <<status, cancelEvent, released, told, poolVars>>

(* Faulty: notify_lock is not released.                                    *)
FaultyLeaveNotify(t) ==
  /\ pc[t] = "callback"
  /\ told' = [told EXCEPT ![cur[t]] = say[t]]
  /\ Goto(t, back[t])
  /\ UNCHANGED <<status, cancelEvent, released, notified, holder, poolVars>>

(* on_change(snapshot) returns (an exception is swallowed) and notify_lock *)
(* is released.                                                            *)
LeaveNotify(t) ==
  /\ pc[t] = "callback"
  /\ told' = [told EXCEPT ![cur[t]] = say[t]]
  /\ holder' = [holder EXCEPT ![cur[t]] = None]
  /\ Goto(t, back[t])
  /\ UNCHANGED <<status, cancelEvent, released, notified, poolVars>>

(* Faulty: the source is kept.                                             *)
FaultyReleaseSource(t) ==
  /\ pc[t] = "release"
  /\ Goto(t, "prune")
  /\ UNCHANGED <<jobVars, poolVars>>

ReleaseSource(t) ==
  /\ pc[t] = "release"
  /\ released' = [released EXCEPT ![cur[t]] = TRUE]
  /\ Goto(t, "prune")
  /\ UNCHANGED <<status, cancelEvent, notified, holder, told, poolVars>>

(* _prune_terminal: the oldest settled jobs, in the order they were        *)
(* submitted, beyond the newest Retained ones.                             *)
SettledInTable == {j \in table : status[j] \in Settled}

Excess == Cardinality(SettledInTable) - Retained

Oldest(S, n) == {j \in S : Cardinality({k \in S : born[k] < born[j]}) < n}

PruneTerminal(t) ==
  /\ pc[t] = "prune"
  /\ table' = table \ Oldest(SettledInTable, Excess)
  /\ pc' = [pc EXCEPT ![t] = "evict"]
  /\ gone' = [gone EXCEPT ![t] = Oldest(SettledInTable, Excess)]
  /\ UNCHANGED <<jobVars, born, queue, closed, toCancel, cur, say, back>>

(* on_evict, outside the lock, once for each removed id, oldest first.     *)
EvictOne(t, j) ==
  /\ pc[t] = "evict"
  /\ j \in Oldest(gone[t], 1)
  /\ gone' = [gone EXCEPT ![t] = @ \ {j}]
  /\ UNCHANGED <<jobVars, poolVars, pc, cur, say, back>>

EvictDone(t) ==
  /\ pc[t] = "evict"
  /\ gone[t] = {}
  /\ Goto(t, Home(t))
  /\ UNCHANGED <<jobVars, poolVars>>

-------------------------------------------------------------------------------
(* The worker loop.                                                        *)
Exit(w) ==
  /\ pc[w] = "idle"
  /\ closed
  /\ Goto(w, "exited")
  /\ UNCHANGED <<jobVars, poolVars>>

Take(w) ==
  LET j == Head(queue) IN
  /\ pc[w] = "idle"
  /\ ~closed
  /\ queue # <<>>
  /\ queue' = Tail(queue)
  /\ IF j \notin table \/ status[j] # "queued"
     THEN UNCHANGED <<status, threadVars>>
     ELSE IF cancelEvent[j]
     THEN /\ status' = [status EXCEPT ![j] = "cancelled"]
          /\ UNCHANGED threadVars
     ELSE /\ status' = [status EXCEPT ![j] = "running"]
          /\ CallNotify(w, j, "running", "fetch")
  /\ UNCHANGED <<cancelEvent, released, notified, holder, told, table, born, closed, toCancel>>

(* job.run is read outside the lock: a cancel that has already released    *)
(* the job leaves a function that returns None at once.                    *)
Fetch(w) ==
  /\ pc[w] = "fetch"
  /\ Goto(w, IF released[cur[w]] THEN "returned" ELSE "run")
  /\ UNCHANGED <<jobVars, poolVars>>

(* update_progress, called by the run closure from NotebookLM's callback.  *)
UpdateProgress(w) ==
  /\ pc[w] = "run"
  /\ status[cur[w]] = "running"
  /\ ~cancelEvent[cur[w]]
  /\ CallNotify(w, cur[w], "running", "run")
  /\ UNCHANGED <<jobVars, poolVars>>

(* The closure raises when it sees the cancel event or generation fails;   *)
(* cancelling after its last look still lets it return.                    *)
RunEnds(w) ==
  /\ pc[w] = "run"
  /\ \/ /\ ~cancelEvent[cur[w]]
        /\ Goto(w, "returned")
     \/ Goto(w, "raised")
  /\ UNCHANGED <<jobVars, poolVars>>

(* mark_ready and mark_failed return early when the job is not running any *)
(* more.                                                                   *)
Settle(w, s) ==
  IF status[cur[w]] # "running"
  THEN /\ Goto(w, "idle")
       /\ UNCHANGED status
  ELSE /\ status' = [status EXCEPT ![cur[w]] = s]
       /\ CallNotify(w, cur[w], s, "release")

MarkReady(w) ==
  /\ pc[w] = "returned"
  /\ Settle(w, IF cancelEvent[cur[w]] THEN "cancelled" ELSE "ready")
  /\ UNCHANGED <<cancelEvent, released, notified, holder, told, poolVars>>

(* Faulty: a status no reader of the table knows.                          *)
FaultyMarkFailed(w) ==
  /\ pc[w] = "raised"
  /\ Settle(w, "error")
  /\ UNCHANGED <<cancelEvent, released, notified, holder, told, poolVars>>

MarkFailed(w) ==
  /\ pc[w] = "raised"
  /\ Settle(w, "failed")
  /\ UNCHANGED <<cancelEvent, released, notified, holder, told, poolVars>>

-------------------------------------------------------------------------------
(* shutdown: close and list under the lock, cancel one by one, clear the   *)
(* queue, then wait for the workers for a bounded time.                    *)
Shutdown ==
  /\ pc[Main] = "idle"
  /\ closed' = TRUE
  /\ toCancel' = {j \in table : status[j] \in Active}
  /\ Goto(Main, "stopping")
  /\ UNCHANGED <<jobVars, table, born, queue>>

StopOne(j) ==
  /\ pc[Main] = "stopping"
  /\ j \in toCancel
  /\ toCancel' = toCancel \ {j}
  /\ \/ CancelSection(Main, j)
     \/ /\ j \notin table \/ status[j] \notin Active
        /\ UNCHANGED <<jobVars, table, born, queue, closed, threadVars>>

StopClear ==
  /\ pc[Main] = "stopping"
  /\ toCancel = {}
  /\ queue' = <<>>
  /\ Goto(Main, "joining")
  /\ UNCHANGED <<jobVars, table, born, closed, toCancel>>

(* The join is bounded by the shutdown timeout, so it may return before    *)
(* the workers have exited.                                                *)
StopReturn ==
  /\ pc[Main] = "joining"
  /\ Goto(Main, "exited")
  /\ UNCHANGED <<jobVars, poolVars>>

-------------------------------------------------------------------------------
Stop == Shutdown \/ (\E j \in Jobs : StopOne(j)) \/ StopClear \/ StopReturn

NotifySteps(t) == EnterNotify(t) \/ LeaveNotify(t)
RetireSteps(t) ==
  ReleaseSource(t) \/ PruneTerminal(t) \/ (\E j \in Jobs : EvictOne(t, j)) \/ EvictDone(t)
WorkerSteps(w) ==
  Exit(w) \/ Take(w) \/ Fetch(w) \/ UpdateProgress(w) \/ RunEnds(w)
    \/ MarkReady(w) \/ MarkFailed(w)

Next ==
  \/ \E c \in Callers, j \in Jobs : Submit(c, j) \/ Cancel(c, j)
  \/ \E t \in Threads : NotifySteps(t) \/ RetireSteps(t)
  \/ \E w \in Workers : WorkerSteps(w)
  \/ Stop

(* A thread that is inside the pool goes on: the callbacks and on_evict    *)
(* return, the worker loop is a thread the scheduler runs, and a shutdown  *)
(* that has begun completes.  Nobody has to submit, cancel or shut down.   *)
(* run ends because generate gives up at its deadline; progress reports in *)
(* between disable that step only for a moment, hence strong fairness.     *)
Fairness ==
  /\ \A t \in Threads : WF_vars(NotifySteps(t)) /\ WF_vars(RetireSteps(t))
  /\ \A w \in Workers :
       /\ WF_vars(Exit(w) \/ Take(w) \/ Fetch(w) \/ MarkReady(w) \/ MarkFailed(w))
       /\ SF_vars(RunEnds(w))
  /\ WF_vars((\E j \in Jobs : StopOne(j)) \/ StopClear \/ StopReturn)

SafeSpec == Init /\ [][Next]_vars
Spec == SafeSpec /\ Fairness

-------------------------------------------------------------------------------
(* Whoever removes a job from the queue or settles it keeps the two in     *)
(* step: a queued job is in the queue exactly once, and nothing else is.   *)
(* (submit, cancel, the worker's popleft and shutdown's clear.)            *)
QueueMatchesStatus ==
  /\ \A j \in Jobs : status[j] = "queued" <=> \E i \in DOMAIN queue : queue[i] = j
  /\ \A i, k \in DOMAIN queue : queue[i] = queue[k] => i = k

(* A running job has exactly one worker, and that worker is on its way to  *)
(* settle it: no job is stranded in "running" and none is run twice.       *)
AtWork(w) ==
  \/ pc[w] \in {"fetch", "run", "returned", "raised"}
  \/ pc[w] \in {"notify", "callback"} /\ say[w] = "running"

RunningHasOneWorker ==
  /\ \A j \in Jobs : status[j] = "running" => \E w \in Workers : cur[w] = j /\ AtWork(w)
  /\ \A v, w \in Workers : AtWork(v) /\ AtWork(w) /\ cur[v] = cur[w] => v = w

(* The table never keeps more settled jobs than retained_terminal and the  *)
(* calls that are still between settling a job and pruning.                *)
Retiring(t) ==
  \/ pc[t] \in {"release", "prune"}
  \/ pc[t] \in {"notify", "callback"} /\ back[t] = "release"

RetentionBound ==
  Cardinality(SettledInTable) <= Retained + Cardinality({t \in Threads : Retiring(t)})

(* Once shutdown has passed its cancel loop no job is queued or running,   *)
(* and no job becomes so again: submit refuses and workers stop taking.    *)
ShutdownLeavesNothing ==
  pc[Main] \in {"joining", "exited"} =>
    /\ \A j \in Jobs : status[j] \notin Active
    /\ queue = <<>>

(* The private source text of a settled job is dropped, whoever settled it *)
(* and whether or not its listener was told ("must not be retained").      *)
SettledIsReleased ==
  \A j \in Jobs : status[j] \in Settled =>
    released[j] \/ \E t \in Threads : cur[t] = j /\ back[t] = "release" /\ pc[t] \in {"notify", "callback", "release"}

(* What the pool's threads leave behind between any two critical sections  *)
(* is consistent: the five facts together.                                 *)
PoolIsConsistent ==
  /\ QueueMatchesStatus
  /\ RunningHasOneWorker
  /\ ShutdownLeavesNothing
  /\ SettledIsReleased
  /\ RetentionBound

(* The listener's view of every job follows SummaryLifecycle.              *)
Lifecycle == INSTANCE SummaryLifecycle WITH phase <- status, shut <- closed
LifecycleSpec == Lifecycle!Spec

(* A submitted job settles, and its listener hears the outcome and the     *)
(* source is dropped, whatever is cancelled or shut down meanwhile.        *)
EveryJobIsSettledAndTold ==
  \A j \in Jobs :
    status[j] = "queued" ~> status[j] \in Settled /\ told[j] = status[j] /\ released[j]
===============================================================================
