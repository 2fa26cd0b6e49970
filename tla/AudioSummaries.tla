---------------------------- MODULE AudioSummaries ----------------------------
(***************************************************************************)
(* The application around the summary job pool: the on_change and on_evict *)
(* listeners of main.py, the two SQLite tables storage.py keeps for a      *)
(* summary (audio_summary_history, and its line in the unified history),   *)
(* the row on the floating bar, the export thread of a finished summary,   *)
(* and three endpoints of the local API server: the delete of a summary,   *)
(* and the two of the history page, which delete or clear its lines.       *)
(*                                                                         *)
(* One SQLite transaction is one action; a handler that opens several is   *)
(* interrupted between them.  Bar updates go to the UI thread in the order *)
(* they are posted and are part of the step that posts them.               *)
(***************************************************************************)
EXTENDS AudioFlowJobs

VARIABLES
  row,      \* row[j]: the bar's row for the job
  hist,     \* hist[j]: status column of audio_summary_history, or "absent"
  feed,     \* feed[j]: status of its line in the unified history, or "absent"
  stage,    \* stage[t]: how far thread t is in the listener it runs
  export,   \* export[j]: how far the export thread of j is
  errand,   \* errand[c]: the delete request API thread c serves
  deleted   \* deleted[j]: how its history was deleted; "no", or "cleared" if
            \* only its line was once cleared

appVars == <<row, hist, feed, stage, export, errand, deleted>>
allVars == <<vars, appVars>>

NoErrand == [job |-> None, next |-> "nothing"]
Errands  == [job : Jobs, next : {"cancel", "delete", "deleteCancelled"}] \cup {NoErrand}

FeedOf(s) == CASE s = "ready"                    -> "success"
               [] s \in {"queued", "running"}    -> "processing"
               [] s = "in_progress"              -> "processing"
               [] OTHER                          -> "error"

AppTypeOK ==
  /\ row \in [Jobs -> {"none", "processing", "ready", "failed"}]
  /\ hist \in [Jobs -> {"absent", "in_progress"} \cup Settled]
  /\ feed \in [Jobs -> {"absent", "processing", "success", "error", "failed", "cancelled"}]
  /\ stage \in [Threads -> {"begin", "reread", "record", "after", "show"}]
  /\ export \in [Jobs -> {"no", "copying", "reread", "record"}]
  /\ errand \in [Callers -> Errands]
  /\ deleted \in [Jobs -> {"no", "cleared", "cancelled", "plain"}]

AppInit ==
  /\ Init
  /\ row = [j \in Jobs |-> "none"]
  /\ hist = [j \in Jobs |-> "absent"]
  /\ feed = [j \in Jobs |-> "absent"]
  /\ stage = [t \in Threads |-> "begin"]
  /\ export = [j \in Jobs |-> "no"]
  /\ errand = [c \in Callers |-> NoErrand]
  /\ deleted = [j \in Jobs |-> "no"]

-------------------------------------------------------------------------------
(* _submit_audio_summary: the first history row is written before the job  *)
(* is enqueued (persist_initial).                                          *)
SubmitSummary(c, j) ==
  /\ errand[c] = NoErrand
  /\ Submit(c, j)
  /\ hist' = [hist EXCEPT ![j] = "in_progress"]
  /\ feed' = [feed EXCEPT ![j] = "processing"]
  /\ UNCHANGED <<row, stage, export, errand, deleted>>

(* cancel_audio_summary_job, from the bar or the API.                      *)
CancelSummary(c, j) ==
  /\ errand[c] = NoErrand
  /\ Cancel(c, j)
  /\ UNCHANGED appVars

-------------------------------------------------------------------------------
(* _on_audio_summary_job_changed, run inside the pool's callback.          *)

(* Faulty: the pool's own word is stored.                                  *)
FaultyHistStatus(s) == s

(* The status a snapshot writes to audio_summary_history.                  *)
HistStatus(s) == IF s \in Active THEN "in_progress" ELSE s

(* update_audio_summary_history is UPDATE ... WHERE id, then, if a row was *)
(* hit, a second look at the row and a copy of it into the unified history.*)
ListenUpdate(t) ==
  LET j == cur[t] IN
  /\ pc[t] = "callback"
  /\ stage[t] = "begin"
  /\ row' = [row EXCEPT ![j] = IF say[t] \in Active THEN "processing" ELSE @]
  /\ IF hist[j] = "absent"
     THEN /\ stage' = [stage EXCEPT ![t] = "after"]
          /\ UNCHANGED hist
     ELSE /\ stage' = [stage EXCEPT ![t] = "reread"]
          /\ hist' = [hist EXCEPT ![j] = HistStatus(say[t])]
  /\ UNCHANGED <<vars, feed, export, errand, deleted>>

ListenReread(t) ==
  /\ pc[t] = "callback"
  /\ stage[t] = "reread"
  /\ stage' = [stage EXCEPT ![t] = IF hist[cur[t]] = "absent" THEN "after" ELSE "record"]
  /\ UNCHANGED <<vars, row, hist, feed, export, errand, deleted>>

(* record_audio_summary_to_history updates the line of the job, or inserts *)
(* one when there is none.                                                 *)
ListenRecord(t) ==
  /\ pc[t] = "callback"
  /\ stage[t] = "record"
  /\ stage' = [stage EXCEPT ![t] = "after"]
  /\ feed' = [feed EXCEPT ![cur[t]] = FeedOf(HistStatus(say[t]))]
  /\ UNCHANGED <<vars, row, hist, export, errand, deleted>>

(* Faulty: the listener trusts update_audio_summary_history to do it.      *)
FaultyListenFinal(t) ==
  /\ pc[t] = "callback"
  /\ stage[t] = "after"
  /\ say[t] \in Settled
  /\ stage' = [stage EXCEPT ![t] = "show"]
  /\ UNCHANGED <<vars, row, hist, feed, export, errand, deleted>>

(* For a final status the listener then records the line itself.           *)
ListenFinal(t) ==
  /\ pc[t] = "callback"
  /\ stage[t] = "after"
  /\ say[t] \in Settled
  /\ stage' = [stage EXCEPT ![t] = "show"]
  /\ feed' = [feed EXCEPT ![cur[t]] = IF say[t] = "ready" THEN "success" ELSE say[t]]
  /\ UNCHANGED <<vars, row, hist, export, errand, deleted>>

(* Last, the final row is shown (or, for a cancelled job, removed), and    *)
(* the callback returns.  A ready job starts its export thread.            *)
FinalRow(s) == IF s = "cancelled" THEN "none" ELSE s

ListenReturn(t) ==
  LET j == cur[t] IN
  /\ \/ say[t] \in Active /\ stage[t] = "after"
     \/ say[t] \in Settled /\ stage[t] = "show"
  /\ LeaveNotify(t)
  /\ stage' = [stage EXCEPT ![t] = "begin"]
  /\ row' = [row EXCEPT ![j] = IF say[t] \in Settled THEN FinalRow(say[t]) ELSE @]
  /\ export' = [export EXCEPT ![j] = IF say[t] = "ready" THEN "copying" ELSE @]
  /\ UNCHANGED <<hist, feed, errand, deleted>>

(* on_evict is _clear_audio_summary_status.                                *)
ListenEvict(t, j) ==
  /\ EvictOne(t, j)
  /\ row' = [row EXCEPT ![j] = "none"]
  /\ UNCHANGED <<hist, feed, stage, export, errand, deleted>>

-------------------------------------------------------------------------------
(* _export_audio_summary_copy: after the copy, the downloaded flag is set  *)
(* with update_audio_summary_history.  The copy may fail.                  *)
ExportUpdate(j) ==
  /\ export[j] = "copying"
  /\ \/ export' = [export EXCEPT ![j] = "no"]
     \/ /\ hist[j] # "absent"
        /\ export' = [export EXCEPT ![j] = "reread"]
  /\ UNCHANGED <<vars, row, hist, feed, stage, errand, deleted>>

ExportReread(j) ==
  /\ export[j] = "reread"
  /\ export' = [export EXCEPT ![j] = IF hist[j] = "absent" THEN "no" ELSE "record"]
  /\ UNCHANGED <<vars, row, hist, feed, stage, errand, deleted>>

ExportRecord(j) ==
  /\ export[j] = "record"
  /\ export' = [export EXCEPT ![j] = "no"]
  /\ feed' = [feed EXCEPT ![j] = "success"]
  /\ UNCHANGED <<vars, row, hist, stage, errand, deleted>>

-------------------------------------------------------------------------------
(* The bar: a row may be dismissed; a click on a ready row opens the       *)
(* player and drops the row when the pool still has the job.               *)
Openable(j) == j \in table /\ status[j] = "ready"

DismissRow(j) ==
  /\ row[j] # "none"
  /\ row' = [row EXCEPT ![j] = "none"]
  /\ UNCHANGED <<vars, hist, feed, stage, export, errand, deleted>>

OpenRow(j) ==
  /\ row[j] = "ready"
  /\ Openable(j)
  /\ row' = [row EXCEPT ![j] = "none"]
  /\ UNCHANGED <<vars, hist, feed, stage, export, errand, deleted>>

-------------------------------------------------------------------------------
(* POST /api/audio-flow/history/delete: look at the row; an active job is  *)
(* cancelled first, and only a confirmed cancellation is followed by the   *)
(* delete.                                                                 *)
DeleteRequest(c, j) ==
  /\ pc[c] = "idle"
  /\ errand[c] = NoErrand
  /\ hist[j] # "absent"
  /\ errand' = [errand EXCEPT ![c] =
       [job |-> j, next |-> IF hist[j] = "in_progress" THEN "cancel" ELSE "delete"]]
  /\ UNCHANGED <<vars, row, hist, feed, stage, export, deleted>>

DeleteCancels(c) ==
  LET j == errand[c].job IN
  /\ errand[c].next = "cancel"
  /\ Cancel(c, j)
  /\ errand' = [errand EXCEPT ![c].next = "deleteCancelled"]
  /\ UNCHANGED <<row, hist, feed, stage, export, deleted>>

DeleteRefused(c) ==
  LET j == errand[c].job IN
  /\ pc[c] = "idle"
  /\ errand[c].next = "cancel"
  /\ j \notin table \/ status[j] \notin Active
  /\ errand' = [errand EXCEPT ![c] = NoErrand]
  /\ UNCHANGED <<vars, row, hist, feed, stage, export, deleted>>

(* delete_audio_summary_history: one transaction on both tables, the       *)
(* second only if the first had the row.                                   *)
DeleteRow(c) ==
  LET j == errand[c].job IN
  /\ pc[c] = "idle"
  /\ errand[c].next \in {"delete", "deleteCancelled"}
  /\ errand' = [errand EXCEPT ![c] = NoErrand]
  /\ IF hist[j] = "absent"
     THEN UNCHANGED <<hist, feed, deleted>>
     ELSE /\ hist' = [hist EXCEPT ![j] = "absent"]
          /\ feed' = [feed EXCEPT ![j] = "absent"]
          /\ deleted' = [deleted EXCEPT ![j] = IF errand[c].next = "delete" THEN "plain" ELSE "cancelled"]
  /\ UNCHANGED <<vars, row, stage, export>>

(* POST /api/history/delete: the line of a summary goes, and its row with  *)
(* it; its job goes on.                                                    *)
DeleteLine(j) ==
  /\ feed[j] # "absent"
  /\ hist' = [hist EXCEPT ![j] = "absent"]
  /\ feed' = [feed EXCEPT ![j] = "absent"]
  /\ deleted' = [deleted EXCEPT ![j] = "plain"]
  /\ UNCHANGED <<vars, row, stage, export, errand>>

(* POST /api/history/clear: the lines go, the rows stay.                   *)
ClearLines ==
  /\ feed' = [j \in Jobs |-> "absent"]
  /\ deleted' = [j \in Jobs |->
       IF deleted[j] = "no" /\ hist[j] # "absent" THEN "cleared" ELSE deleted[j]]
  /\ UNCHANGED <<vars, row, hist, stage, export, errand>>

-------------------------------------------------------------------------------
Listen(t) ==
  ListenUpdate(t) \/ ListenReread(t) \/ ListenRecord(t) \/ ListenFinal(t)
    \/ ListenReturn(t) \/ \E j \in Jobs : ListenEvict(t, j)

Export(j) == ExportUpdate(j) \/ ExportReread(j) \/ ExportRecord(j)

Delete(c) ==
  (\E j \in Jobs : DeleteRequest(c, j)) \/ DeleteCancels(c) \/ DeleteRefused(c) \/ DeleteRow(c)

PoolOnly ==
  /\ \/ \E t \in Threads : EnterNotify(t) \/ ReleaseSource(t) \/ PruneTerminal(t) \/ EvictDone(t)
     \/ \E w \in Workers : WorkerSteps(w)
     \/ Stop
  /\ UNCHANGED appVars

AppNext ==
  \/ \E c \in Callers, j \in Jobs : SubmitSummary(c, j) \/ CancelSummary(c, j)
  \/ \E t \in Threads : Listen(t)
  \/ \E j \in Jobs : Export(j) \/ DismissRow(j) \/ OpenRow(j) \/ DeleteLine(j)
  \/ ClearLines
  \/ \E c \in Callers : Delete(c)
  \/ PoolOnly

(* The pool's fairness (AudioFlowJobs), with listeners that go on from one *)
(* transaction to the next in the place of its callbacks.                  *)
AppFairness ==
  /\ \A t \in Threads :
       /\ WF_allVars(Listen(t))
       /\ WF_allVars(/\ EnterNotify(t) \/ ReleaseSource(t) \/ PruneTerminal(t) \/ EvictDone(t)
                     /\ UNCHANGED appVars)
  /\ \A w \in Workers :
       /\ WF_allVars(/\ Exit(w) \/ Take(w) \/ Fetch(w) \/ MarkReady(w) \/ MarkFailed(w)
                     /\ UNCHANGED appVars)
       /\ SF_allVars(RunEnds(w) /\ UNCHANGED appVars)
  /\ WF_allVars(/\ (\E j \in Jobs : StopOne(j)) \/ StopClear \/ StopReturn
                /\ UNCHANGED appVars)

AppSafe == AppInit /\ [][AppNext]_allVars
AppSpec == AppSafe /\ AppFairness

-------------------------------------------------------------------------------
FeedFinal(s) == IF s = "ready" THEN "success" ELSE s

Undeleted(j) == deleted[j] \in {"no", "cleared"}

(* Its line shows an outcome, if it was not cleared.                       *)
Lists(j, s) == feed[j] = FeedFinal(s) \/ (deleted[j] = "cleared" /\ feed[j] = "absent")

(* The stored outcome of a job is the one its listener was told, in both   *)
(* tables, whatever late progress, export or cancellation happened around  *)
(* it, unless the user deleted it, or cleared its line.                    *)
OutcomeIsStored ==
  \A j \in Jobs :
    told[j] \in Settled /\ Undeleted(j) => hist[j] = told[j] /\ Lists(j, told[j])

(* A cancel has stored the final state by the time it returns ("cancel     *)
(* must persist its terminal state before returning").                     *)
CancelPersistsFirst ==
  \A c \in Callers :
    pc[c] = "release" => hist[cur[c]] \in {"cancelled", "absent"} /\ row[cur[c]] = "none"

(* After a delete that had to cancel the job first, nothing the pool still *)
(* does brings a trace of it back, in either table.                        *)
CancelledDeleteIsFinal ==
  \A j \in Jobs : deleted[j] = "cancelled" => hist[j] = "absent" /\ feed[j] = "absent"

(* The three together: at every step the tables tell what happened.        *)
HistoryIsTrue ==
  /\ OutcomeIsStored
  /\ CancelPersistsFirst
  /\ CancelledDeleteIsFinal

(* A stored final state is never overwritten, only deleted.                *)
StoredOutcomeIsFinal ==
  [][\A j \in Jobs : hist[j] \in Settled => hist'[j] \in {hist[j], "absent"}]_hist

(* No summary spins for ever: the pool settles its job, its listener is    *)
(* told, its source is dropped, and the stored row ends in a final state   *)
(* that both tables agree on, or was deleted or cleared, whatever cancel,  *)
(* delete, export or shutdown came in between.                             *)
EverySummaryEnds ==
  /\ EveryJobIsSettledAndTold
  /\ \A j \in Jobs :
       hist[j] = "in_progress" ~>
         \/ hist[j] = "absent"
         \/ hist[j] \in Settled /\ Lists(j, hist[j])

(* What the tests ask of a delete, for every delete: it is not undone      *)
(* ("does not resurrect deleted history").  The code does not keep this:   *)
(* a listener between its UPDATE and its record inserts the line again.    *)
DeletedStaysDeleted ==
  \A j \in Jobs : deleted[j] # "no" => feed[j] = "absent"

(* A ready row on the bar can be opened ("The user clicks the floating bar *)
(* ready row to open and play on demand") unless its eviction is under way.*)
(* The code does not keep this: a job may be evicted before its listener   *)
(* is told that it is ready, and the row it then shows is never cleared.   *)
ReadyRowOpens ==
  \A j \in Jobs :
    row[j] = "ready" => Openable(j) \/ \E t \in Threads : j \in gone[t]
===============================================================================
