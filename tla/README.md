# A verification of AI Productivity Flow in TLA+

AI Productivity Flow is a desktop application (Windows and macOS, Python) for
dictation ("Voice Flow"), reading aloud and audio summaries ("Audio Flow") and
explainer videos ("Video Flow").  Its core is a set of threads that share state
under a dozen locks: hotkey handlers, API handlers, a recording watchdog, one
pipeline thread per dictation, pools of workers, and a UI thread.  This
directory holds TLA+ models of the parts where their interleavings decide
whether the program is right, the TLC configurations that check the models, and
TLAPS proofs for instances of any size.  Paths below are relative to
`src/voice_flow/` in the repository unless they start with another directory.

- [What the system is](#inventory)
- [Modules, and how they correspond to the code](#modules)
- [What the runs check](#runs)
- [Fairness](#fairness)
- [What is proved](#proofs)
- [Disagreements found](#findings)
- [What is not modelled](#left-out)
- [Plan](#plan)

<a name="inventory"></a>
## Inventory

| Component | State | Operations | Meets | Hard part | Right when |
|---|---|---|---|---|---|
| Audio summary pool, `audio_flow_jobs.py` | `_jobs` (insertion order), `_queue`, `_closed`; per job: status, cancel event, text, `terminal_notified`, `notify_lock` | submit, cancel, update_progress, mark_ready, mark_failed, shutdown, worker loop, `_notify`, `_release_source`, `_prune_terminal` | calls `run`, `on_change`, `on_evict` with no pool lock held | every caller interleaves with every worker between two critical sections | each job settles once, is told once and in order, its source text is dropped, the tables stay bounded, shutdown leaves nothing |
| Summary history and bar, `main.py` 3462-3815, `storage.py`, `overlay.py`, `gui/api_server.py` | two history tables, the bar's rows, export threads | listeners of the pool, export, delete endpoint, open/dismiss a row | pool callbacks, SQLite, UI thread | two tables in two transactions; the delete waits for a listener | what is stored is what happened; deleted means deleted |
| Streaming transcription, `stream_stt.py` | epoch, sequence numbers, pending/completed, queue and byte budget, `_started_seq` gate | start_session, submit (audio thread), workers, collect, end, abort | transcriber, dictation pipeline | out-of-order workers, a full queue, a cancelled session with chunks in flight | all words, in order, of this session only - or the fallback is told |
| Dictation, `main.py` 655-3045 | `state`, `session`, `_delivery_session`, cancelled ids, recovery entries, stream owner, watchdog | start, finish, cancel, recording limit, pipeline, history retry, reset | recorder, stream, leases, injector, history | handlers, a pipeline per dictation and a retry worker overlap; the state is shared | nothing cancelled is pasted, microphone and model are given back, processing ends |
| Model leases, `local_model_resources.py` | use counts, cleanup requests, grace deadlines, gates | acquire, release (with grace), request cleanup, cleanup rounds | every engine of `transcriber.py`, `s1_engine.py`, `lfm_engine.py`, `nemotron_engine.py` | release by several threads, cleanup against new demand | never free a model in use, always free an unused one |
| Native speech worker, `nemotron_worker_client.py`, `nemotron_native_worker.py`, `nemotron_engine.py` | request queue with a byte budget, request in flight, abandoned and late requests, poisoned, closed; the worker's streams; the engine's users | call with soft and hard timeout, abandon, poison, close; open, feed, end, close a stream; decode; evict an engine | one child process that may hang or die | callers leave at any moment, also while their answer arrives | queued memory is given back, no stream or engine stays taken, every caller ends |
| Live cloud streams, `flux_stream.py` | socket, transcript parts | start, send, collect, end | two providers | reconnects, late messages | same interface as `stream_stt.py` |
| Recorder, `audio.py`, `microphone_devices.py` | ring of frames, device | start, stop, callbacks | dictation, stream | device callbacks | one session at a time |
| Speech recognition, polishing, commands, insertion | models, prompts, clipboard | one call each | the pipeline | provider errors | outcome of a pipeline step |
| Hotkeys, `hotkeys.py`, `mouse_hook.py` | each hook's recording flag, armed mode, the shortcut's keys and timer; the mouse hook's queue and urgent slot | press, release, tap, hold, Escape, middle button, reload | starts threads that call the dictation's handlers, which write the flags back | flags are set before the application agreed and cleared after its lock was given up | hooks and application agree, a released push-to-talk stops, no gesture is lost |
| Read aloud, `audio_flow_widget.py`, `tts_engine.py` | generation token, playback position | play, pause, stop, next | overlay | stale playback threads | one voice at a time |
| Video jobs, `video_flow_service.py`, `storage.py` | job rows and history rows (kept on disk), threads, retry timers, engines at work | queue, run, progress, finish, cancel, delete, list and prune, one retry after a usage limit, reconcile at a start | video engine, NotebookLM, SQLite | retry, cancel and finish race over one row; the app is killed in between | an outcome is final, an active job has somebody who settles it, history shows what the row shows |
| Video engine, NotebookLM, OAuth | project files, browser | plan, render, compose | external services | I/O | - |
| Updater, `app_updater.py` | manager: download state, plan, waiting restart, Later on disk; helper process: package, backup and staging directories, markers | download, verify, cancel, restart when idle, defer, take up at the launch; helper: wait, set aside, put in place, launch, confirm or restore | installer, background checker, API | threads of a download, a waiting restart and a checker; renames fail and processes die | a copy that opens stays, the app comes back, Later is tried once, waiting ends |
| Accounts, settings, `storage.py` | SQLite rows | single-row SQL | everything | migrations | - |
| API server and window, `gui/` | none of its own | HTTP handlers on 127.0.0.1:8991 | everything | handlers are threads | - |
| Process lifetime, platform layer | locks and handles of the operating system | one instance, watchdog, child processes | OS | OS | - |

The hazards of this code (what is hard to reach with a test), each at its line
and with the properties that watch it, are listed in `PROJECT.json`.

<a name="modules"></a>
## Modules

Conventions.  A block under a lock is one action; a thread that leaves the lock
continues in another action, so that others interleave there.  Where a thread
keeps a lock across several steps, the lock is a variable.  Names are those of
the code, in TLA+ spelling (`mark_ready` is `MarkReady`).  A comment that begins
with `Faulty:` introduces a broken variant of the definition below it; nothing
uses it except the check that a property can fail at all.

### `SummaryLifecycle` - what the summary pool promises

An abstract specification without threads, queue or locks: a job is queued, may
run, settles once; its listener hears phases the job really went through, never
an older one after a newer one, and nothing after the final one.

### `AudioFlowJobs` - the summary pool

`status`, `cancelEvent`, `released`, `notified` are the fields of a job; `table`
and `born` are `_jobs` with its insertion order; `holder` is `notify_lock`,
which a thread keeps while it runs `on_change`; `pc`, `cur`, `say`, `back` say
where each thread is: in `_notify`, in the callback, before `_release_source`,
before `_prune_terminal`, between its evictions.  `CancelSection` is shared by
`cancel` and by `shutdown`.  `job.run` is read outside the lock (`Fetch`), so it
may have been dropped.  `told` is a history variable: the status in the last
snapshot the listener was given.  `AudioFlowJobs` implements `SummaryLifecycle`
with `phase <- status, shut <- closed` (`LifecycleSpec`).

### `AudioSummaries` - the application around the pool

Extends `AudioFlowJobs` and composes its callbacks with the listeners of
`main.py`: inside `on_change`, a thread updates `audio_summary_history` (`hist`),
re-reads and records the line of the unified history (`feed`), and shows or
clears the bar row; each SQLite transaction is one action (`stage`).  The export
thread of a finished summary writes both tables again.  The delete endpoint
cancels an unfinished job, waits for its row and deletes it, or deletes a
finished one at once (`errand`).  The history page deletes a line together with its
row, whatever the job is doing (`DeleteLine`), or clears all lines and keeps the
rows (`ClearLines`); `deleted` is a history variable that says which it was.  A
summary whose line was cleared keeps its row, and its line comes back only with its
next report, so for it the properties ask for the right line or none.  Assumed: transactions succeed; the history is
shorter than its pruning limit of 50 rows; `before_enqueue` does not raise.
`AppSpec` adds to the pool's fairness that a listener that has begun goes on.

### `StreamStt` - streaming transcription

`epoch`, `seq`, `started` (the gate), `nextEmit`, `pending`, `completed`,
`unstarted`, `queue` and `bytes` are the attributes of `StreamTranscriber`;
`wpc` and `task` are its workers: taking a task, waiting at the gate,
transcribing, finishing.  A chunk has a size, may hold speech and may overlap
its predecessor.  `out`, `spoken` and `unsampled` are history variables.  What the
transcriber returned is chosen when the worker finishes.  Not modelled: the
deadlines (a chunk that misses one ends as one whose transcriber raised), and
which thread calls `collect`.

### `DictationLifecycle` - what the application promises of a dictation

An abstract specification of one dictation, without locks, handlers or other
dictations: it is recorded, at most once handed to recognition, and from then on
committed to delivery or given up, never both.  Only a committed text is inserted,
once; nothing committed is cancelled.  The history gets at most one outcome, which
says what became of the text, and at most a cancellation beside one that had no text.
It ends with a row unless its capture failed or a retry or a reset took the
application from it, and stays as it ended.

### `Dictation` - the life of a dictation

`cap` is the handler that holds `_capture_transition_lock`, with its place in
it; start is split into its steps (`StartBegins`, `OpenMic`, `CheckStart`,
`ArmStart`, `OpenStream`, `OwnStream`, `StartReturns`, and `StartFails` from any
of them), so are finish and cancel.  `pipe[s]` is the pipeline thread of session
`s`, from waiting for `_processing_lock` to its `finally`.  `_end_stream_session` is
one action where a handler calls it, which holds the capture lock (`EndStream`); a
pipeline calls it without a lock, so there the owner check (`OwnsStream`), `end_session()`
and `discard()` are actions of their own (`PipeTranscribes` or `PipeLeaves`, then
`PipeEndsStream` and `PipeCloses`; the stages between are `Ending`), and the last two end
whatever is open by then.  `history[s]` is the
set of rows written for it.  A takeover is a history retry (`RetryBegins`,
`RetryEnds`) or the settings page's reset (`ResetAsks`, `ResetState`); a session
they took the state from is `disturbed`, and properties that could not hold for
it exempt it by name.  Simplifications: elapsed time (a processing session may
be found stale whenever a dictation starts); a history row is written where it is claimed (the
background insert succeeds); the handler fails after the recorder stopped, not
before; the hotkey flag, the never assigned state ERROR and the retry worker's
own lease are left out; streaming is switched on.  Seen by itself each dictation
implements `DictationLifecycle` (`EachDictationLives`), with `text <- s \in pasted`,
`rows <- history[s]`, `taken <- s \in disturbed` and `phase <- Phase(s)`: captured while
it is the current recording or a start or finish is busy with it, at work while its
pipeline has not concluded, committed while `_delivery_session` names it, ending when
cancelled or concluded, ended when neither a pipeline, a handler nor the state is
about it.

### `ModelLeases` - model leases and idle cleanup

`active`, `requested`, `immediate`, `deferred` are the module's
`_active_uses`, `_cleanup_requested`, `_immediate_cleanup_requested` and the keys
of `_cleanup_not_before` whose time lies ahead.  A release has two critical
sections: `Flag` (`_release_lock`) and `CountDown` (`_lock`).  The worker's round is
`RoundBegins`, then `Examine` per kind, which takes the kind's gate, `CallEngine` or
`EngineRefuses` per callback, and `CleaningEnds`.  Time is two-valued: a grace
is over (`GraceEnds`) or is not.  The worker wakes at least every 15 seconds, so
a round may start at any time, and `_wake` is left out; so are callbacks without
a kind and weak references that died.  An engine loads a model only for a holder
of a lease, as `polish_with_s1`, `transcriber.py` and the native engine do.

### `UpdateHelper` - the process that replaces the package

`target`, `backup`, `staging` are the directories of `app_updater.py`, each absent,
torn, or holding a version; `marker`, `pending`, `deferral` are its files (the last
is `apply-on-launch.json`).  `helper[h]`
is the place of a helper between two calls that change a file or a process:
`run_pending_update` with `apply_staged_package` and `restore_package`; it may die
at any of them (`HelperDies`), and a rename may fail after its retries.  Which
releases open is chosen once (`opens`).  Of the app there is what it does to these
files: `LaunchApp`, `Ready` (`confirm_successful_launch`), `BeginInstall`,
`StartHelper`, `QuitForUpdate`.  `opened`, `crossed`, `early`, `cut` and `ends` are history
variables.  Elapsed time is left out: a confirmation may always come too late.  No
name is one of `UpdateManager`, so that `UpdaterProofs` can extend both.

### `UpdateManager` - downloads, restarts and Later

The state of `UpdateManager` (`st`, `cancel`, `path`, `deferred`, `plan`), its
download threads (`dl`; `last` is `_thread`), the restart that waits for an idle
app (`waiter`), the threads that install, the background checker (`loop`) with its
count of failures, and what is on disk (`auto`, `archives`, `later`).  A block
under `_lock` is one action; `jammed` is the lock held by a thread that waits for
it.  `missed`, `laters`, `tries` and `acts` are history variables.  Only the small
app package is modelled; what the helper does with it is `UpdateHelper`'s.

### `VideoLifecycle` - what the video service promises of a job

An abstract specification of one job, without threads, timers, tables or other
jobs: it is created once, works, is retried at most once, gets one outcome, and
keeps it until it is removed for good.  Its outcome is shown once in the history
(`showing`: it has still to be), also when the job was removed meanwhile; the history
shows no other outcome, and only the entry its creator makes, maybe late, or the end
of the record itself may hide it.  A restart of the
app queues a retried job again, fails one that was not, or leaves it alone.

### `VideoJobs` - video jobs

`row`, `rows` and `attempts` are `video_flow_jobs`; `hist` and `records` the
unified history; `pc` is the thread that queues or runs a job, `stop` its
cancellation, `timer` and `known` its retry timer and `_retry_timers`.  Every call
of the store is one action, except `finish`, which writes row and history one
after the other (`saving`), and `create`.  A job is removed by `videos/delete`, which
takes only settled ones (`Delete`), by pruning, or by `history/delete`, which deletes the
record and with it the row, without a cancellation and without the store's lock
(`DeleteRecord`); `history/clear` removes all records and no row (`ClearHistory`).  A row
that goes between the two writes of its outcome, or before `create` has entered it,
is marked in `torn`, and a record that was cleared in `cleared`.  `Restart` is a kill and a new start: rows
and history stay, threads, timers and flags go, and `_reconcile_stale_jobs` either
resumes a row, fails it, or finds it too young (`orphaned`).  `limited`, `torn`,
`cleared` and `orphaned` are history variables; `upsets` counts restarts and calls of
the history page together, which `MaxUpsets` bounds.  The run that schedules a retry
and the retry do not overlap: the retry is at least a second later.  Seen by
itself each job implements `VideoLifecycle`, with `phase <- row[j]`,
`entering <- pc[j] = "record"`, `showing <- saving = j`, `shown <- hist[j]`, `tries <- attempts[j]`
(`EachJobLives`).

### `NativeAsr` - the native speech engine

`queue`, `bytes`, `cur`, `reply`, `gone`, `late`, `error`, `closed` are the fields of
`NativeASRClient` and of its requests' boxes, `phase` the place of its RPC thread;
`worker` and `open` are the child process and its streams; `lock`, `active`,
`evict`, `native`, `fatal` are the engine's.  A caller is a live stream (open, feed,
end, close), a decoder, or who closes the engine; it waits for its reply in slices
of 20 ms and may leave at any of them, so a wait ends by a step of `Leave`.  The
worker may hang or die in any request.  `missed` is a history variable.  One engine
and one client are modelled; a successor starts anew.

### `Hotkeys` - gestures

`rec`, `armed` and `key` are the listener's (with the pressed, triggered, tapped,
timer and chord flags of its shortcut in one record), `hrec`, `queue`, `urgent` the
mouse hook's; `acts` are the threads the listener started that wait for
`_action_lock`.  `run[c]` is the handler of `main.py` that the keyboard, the mouse's
worker or the bar is in, and its place; `cap` is `_capture_transition_lock`.
`set_recording_state` is two actions, one per flag, wherever it is called; `tail[e]` is
the end of a pipeline or of a retry between its reset of the state and of the flags.
Of the dictation there is only `app` and whether a pipeline runs that has still to
reset its session (`pipe`): the rest is `Dictation`'s.  Two others write the state and
belong to no gesture: a history retry (`RetryBegins`, `RetryEnds`), whose worker resets
whatever is current, and the settings page's reset of the bar (`ResetAsks`,
`ResetState`), which looks whether a dictation is under way without a lock, and then
sets IDLE without touching the session or the flags.  `taken` says whether one of them
took the state from the last dictation and whether its session went as well.  A
reload in the middle of anything, a flag that stayed up included, counts as
`reconfigured`.  `upset` is a history variable.  Simplifications: the kind of
shortcut does not change while the app runs, the mode does; both hooks see a new
mode at once; elapsed time is a choice; the keys of a chord are one key; shortcut
capture, synthetic input and the restart of a dead hook are left out, but for the
release that is lost then (`KeyUpLost`).  The keyboard's part is the native hook of
Windows; the listener's other path, through pynput (the only one on macOS), is left
out.

Each component has a module `MC...` with its instance for TLC.

<a name="runs"></a>
## Runs

| Run | Bounds | Shows |
|---|---|---|
| `summary_pool` | 2 jobs, 2 workers, 2 callers, shutdown; queue 1, so that the second job may be refused, 1 settled job kept; symmetric in jobs, workers, callers; 0.41 M states | queue, statuses, workers, shutdown and sources agree and the table is bounded (`PoolIsConsistent`); the listener's view refines `SummaryLifecycle` |
| `summary_history` | 1 job, 1 worker, 2 API threads, nothing kept, any number of visits to the history page; 0.14 M states | what is stored is what the pool told or was deleted or cleared, a cancel stores before it returns, a delete that cancels is final (`HistoryIsTrue`); a stored outcome is never overwritten; every summary settles, is told so, and its row ends in both tables (`EverySummaryEnds`) |
| `stream_stt` | 2 workers, queue of 2 chunks and 3 units, 3 chunks per session, 2 epoch changes; 0.36 M states | every chunk is in one place, the gate splits the session, nothing of an old session, exact byte budget (`StreamIsConsistent`); no silent loss; collected in order; no accepted chunk waits for ever |
| `dictation` | 2 dictations, 1 retry or reset; 0.38 M states | nothing cancelled is pasted, who pastes owns the application, no dictation without a history row (`DeliveryIsRight`); microphone and lease have an owner (`OwnersHold`); a recording keeps its state, and no pipeline of another dictation begins to end its stream (`RecordingIsKept`); each dictation's life refines `DictationLifecycle` (`EachDictationLives`); processing ends |
| `model_leases` | 2 kinds, 3 engines, 2 leases of one kind, 2 releases each, 1 explicit request, 1 refusal; 26 k states | count = users and no cleanup under use (`UseIsProtected`); no forgotten model, an explicit cleanup wins (`RequestsSurvive`); an unused model is freed |
| `update_helper` | releases 0 to 2, any set of them opens; 1 helper, 2 installing threads, 2 kills; 0.15 M states | a copy that opens is installed or kept; the app comes back |
| `update_manager` | 1 newer release, 2 download threads, 2 acts of the user; 0.32 M states | Later is tried once, also by a launch that is killed; downloads and waiting restarts end |
| `video_jobs` | 2 jobs, 1 row kept, 1 kill or call of the history page; 0.77 M states | history agrees with the row, an active job has somebody who settles it, each job's life refines `VideoLifecycle` (`EachJobLives`), every job settles |
| `native_asr` | 2 streams with 1 feed, 1 decoder, 1 eviction, room for the audio of 1 request; 0.23 M states | memory, engine and streams are given back (`NothingIsLeaked`); every caller ends |
| `hotkeys` | Ctrl+Win, Ctrl alone and a double tap, each with a mode; all modes but `toggle_only` reachable; queue of 1; 2 presses or calls by the bar, 1 other event (Escape, click, key, reload, retry or reset); 0.75 M states | the flags agree with the application once all is quiet, unless a retry or a reset took its state (`FlagsAgree`); a released push-to-talk stops; every accepted gesture is answered |
| `update_poll`, `video_limit` | as above | one disagreement each, see [below](#findings) |

Why the bounds are enough.  In the pool, races are between two threads over one
job or over one slot: two workers, two callers and the shutdown thread give all
pairs, a queue of one is full while the other job waits, two jobs with room for one
settled job make the queue order, the
eviction and its order matter; the proofs cover every other size.  In the
history, a job's rows are touched only for that job, so one job with two API
threads has every race, and keeping no settled job makes eviction possible.  In
the stream, three chunks are the fewest with which a middle one overtakes or is
rejected; sizes 1 and 2 against a budget of 3 reject by bytes and by count; two
epoch changes give a cancelled, an ended and a new session.  For dictation, all
comments and tests of the code are about one dictation against the next.  For
leases, two leases of one kind give every order of first and last use; a busy
engine next to a second one shows a cleanup half done.  For the helper, three
releases are the fewest in which a backup, a package on trial and a newer one
differ, and two kills hit the helper and the app that it started.  The manager has
a user's and the checker's download, which is what its one-at-a-time rule is about;
two acts of the user are a request and its withdrawal.  Video jobs race with
themselves: thread, timer, cancellation and deletion of one; the second job and room
for one row make pruning hit a job that is active, settled or waiting; a
kill and a call of the history page each do their harm between the two writes of one
outcome, so one of them suffices (the proofs cover any number).  In the
native engine, two streams and a decoder fill the queue behind a hanging request,
and room for one audio request makes the next one fail.  A gesture meets the one
before it or the bar, so two suffice, and a queue of one is full after the first; one
retry or reset meets a start, a recording and an end, and a press after it.

`CHECK_DEADLOCK FALSE` is set where the modelled system may come to rest: all jobs
submitted and settled, all dictations, gestures or acts used up.  `model_leases` never
rests.

<a name="fairness"></a>
## Fairness

Nobody is assumed to submit, cancel, speak, finish, press a key, release a lease,
ask for an update, give up waiting or shut down, and nothing is assumed to fail.  Assumed are only threads that go on once they are inside:

- the pool: `WF` of each thread's steps in `_notify` and after it (listeners
  and `on_evict` return), of the worker's loop, and of a shutdown that has
  begun; `SF` of the end of `run`, because a progress report takes the thread out
  of `run` for a moment; a summary's generation ends at its deadline.  In
  `AudioSummaries`, `WF` also of each step of a listener.
- the stream: `WF` of each worker.  Its wait at the gate is a loop with a timeout,
  and the transcriber is given the session's deadline.
- dictation: `WF` of the handler in the capture lock, of each pipeline and of
  the retry worker: their calls to providers have timeouts.
- leases: `WF` of the worker, a daemon thread whose wait is at most 15 seconds,
  and of the passing of each grace.
- the helper: `WF` of each helper and of each thread that installs, of the quit
  timer, and of an app that was launched: it opens or it does not.
- the manager: `WF` of each download thread (requests have timeouts), of the
  restart's thread, which polls, and of the installation it begins.
- video jobs: `WF` of the two threads and of the cancellation of each job, and of
  the second half of `finish`; a retry's timer fires.
- the native engine: `WF` of the RPC thread, of the passing of the hard timeout
  and of each caller.  The worker process owes nobody an answer.
- gestures: `WF` of the threads the listener started, of the mouse's worker and of
  the handlers they entered: opening and stopping the microphone have timeouts.

<a name="proofs"></a>
## Proofs

Eight modules hold 45 theorems.  Each proves, of the specification without fairness
(`SafeSpec`), the type invariant, the safety invariants and the action properties of
the runs of one component or of two that belong together.

`AudioSummariesProofs`, about the pool (`AudioFlowJobs`), for any finite set of jobs, any workers and callers, any queue
bound and any retention; assumed are only that the thread names are distinct, the
jobs finite and the bounds numbers (`ThreadsAreDistinct`, `BoundsAreCounts`):

- `TypeCorrect`.  `TypeOK` is not inductive: a thread inside the pool must have
  a job to work on (`CallHasJob`); `TypeInv` is both.  That the queue never exceeds its
  bound is part of it.
- `PoolCorrect`, the conjunction of the five that follow, which is what the run
  checks.
- `QueueCorrect` and `ShutdownCorrect`, from `TypeInv`, `QueueMatchesStatus` and
  `StopInv`: the main thread has left its idle place exactly when the pool is
  closed, and while it cancels every active job is still on its list.  The lemmas
  `RemoveAtProperties`, `DequeuedType` and `DequeuedMembers` say what
  `deque.remove` leaves of a queue without duplicates.
- `OneWorkerPerRunningJob` adds `WorkInv`: only a worker is at work, and it
  goes back to its job exactly when it reports "running".
- `SourceIsReleased` adds `ReleaseInv`: a set cancel event means a cancelled job,
  and a thread before `_release_source` got there by settling.
- `RetentionBounded`: the table keeps at most `Retained` settled jobs and one more per
  thread on its way to prune.  `RetireInv` adds that these threads are finitely
  many: a step adds at most one.  The lemmas `LeastNumber` and
  `OldestLeaves` say that pruning the oldest ones leaves no more than it may keep,
  whatever the order in which they were submitted.
- `Implementation`: `SafeSpec => LifecycleSpec`.  Its invariant (`ReportInv`) relates
  what a thread is about to report (`say`), what was told and the job's status;
  each action then maps to one step of `SummaryLifecycle` or to a stutter.

The same module, about the application (`AudioSummaries`), for any number of
summaries, workers, API threads and exports, from the same two assumptions:

- `AppRunsThePool`: `AppSafe => SafeSpec`.  The application is an environment the pool
  allows, so the theorems above hold of it.  It needs that a delete request names
  a job (`ErrandsOK`).
- `AppTypeCorrect`, `HistoryCorrect` and `OutcomeNeverOverwritten`.  None of them is
  inductive: the listener writes in several transactions, and what it may write
  depends on what the pool still has to say.  `OutcomeInv` is what the pool
  guarantees (one thread at a time has a job's outcome to report, and it has been
  told when the source is dropped); `AppInv` adds what each writer relies on: the row
  exists from submission to deletion (`RowInv`), a listener past its first
  transaction has stored what it reports (`ListenInv`), only a summary told ready is
  exported and a cancelled one has no row on the bar (`ToldInv`), a stored outcome
  was told or is being told by the listener that stored it (`StoredInv`), and a
  delete that cancels goes on when the cancellation was reported (`DeleteInv`).  The
  steps of the pool that tell nobody anything are one lemma each (`Quiet...`).

`StreamSttProofs`, for any finite set of workers, any limits of the queue, any kinds
of chunk and any number of chunks and epochs (`StreamBounds`):

- `TypeCorrect`, `StreamConsistent`, `NoSpeechLost` and the action property `OrderKept`, from
  `IInv`: numbers are not given twice (`Distinct`); the numbers from the next to be
  emitted to the last one are pending or done, and a pending one has its chunk in
  the queue or with a worker (`PlaceInv`); what is done passed the gate or never
  reached it (`GateInv`); the bytes are those of the queue (`BytesMatchQueue`); within
  a session a chunk's number and its place in the order of speech differ by a
  constant (`Offset`, `OrderInv`); and until the session is marked failed, every
  chunk with speech is collected or still on its way (`LossInv`).

`DictationProofs`, for any number of dictations and of takeovers (`DictationBounds`):

- `TypeCorrect`, `DeliveryCorrect`, `OwnersCorrect` and the action property `RecordingKept`, from
  `IInv`: recording, start and finish are about the latest dictation and one pipeline
  is at work (`ControlInv`); a commit excludes a cancellation and is excluded by one
  (`CommitInv`); while it pastes, a session nobody disturbed owns the application
  (`PasteInv`); only a retry or a reset takes the state from under a handler
  (`HandlerInv`); whoever holds the microphone or a lease is on its way to give it
  back (`OwnerInv`); a claimed row is written (`HistoryInv`); a recording whose start
  is over owns the stream (`StreamInv`), which is why no other pipeline passes the
  owner check any more; one that passed it before is what the property has to allow.  The proof goes
  invariant by invariant, the types and `ControlInv` first because the others need
  them, and within each by handler, cancellation, pipeline and takeover.
- `LivesAreLegal` and `Implementation`: whatever handlers, pipelines, cancellations,
  other dictations, retries and resets do, each dictation's life is one that
  `DictationLifecycle` allows.  `IInv` is not enough: `RowsInv` adds that until a pipeline
  concludes its dictation has a recovery, and a row only of a cancellation that is
  still noted; that a row of kept text means a pipeline that has concluded and
  nobody who could still cancel it; and that a session is not current any more when
  its pipeline is done.  Steps of another dictation leave a life alone (`UnseenLives`);
  `LifeSteps`, `CancelledLives` and `PipelineReports` list the changes that are a step of
  a life; a lemma per group of actions shows that it makes only these.  `RowsInv` was
  checked by TLC before it was proved.

`ModelLeasesProofs`, for any kinds, engines, finite set of leases and number of
releasing threads:

- `TypeCorrect`, with `FlagFirst`: a thread counts a lease down only after
  setting its flag.
- `CountCorrect`: the count of a kind is the cardinality of its users.  Each step
  adds one user, removes one, or leaves the set alone.
- `UseCorrect` and `RequestsCorrect`, the conjunctions the run checks, from
  `CountCorrect` and `LeaseProtects`, `NothingIsForgotten`, `RequestWins`; these from `WorkInv`: the kind
  whose gate the worker holds has count 0 (`GateMeansUnused`); models of that kind
  are found only by a forced cleanup, which frees those it has called unless one
  refused (`CleanupProgress`).

`UpdaterProofs`, about the helper (`UpdateHelper`), for any number of releases,
helpers, installing threads and kills:

- `HelperTypeCorrect`, with `AppFacts`: what was seen ready opens, only such a version defers,
  and threads that install live in an app that has a newer release.
- `UsableCopy`: through failed renames, half removed directories and helpers that
  die, a package that opens is installed or kept.  The property alone is not
  inductive: what a helper may do next depends on where it is.  `TrialInv` is either
  that history excuses the state (a backup dropped for a build that had not opened,
  an install that crossed another), or that one helper is at work and nobody
  installs meanwhile (`OneAtATime`), that the app keeps out of its way
  (`AppStaysClear`), that at each place of the helper the directories are what the
  next call relies on (`StageKeeps`), and that at rest the installed package opens
  (`RestKeeps`).

The same module, about the manager (`UpdateManager`), for any number of releases, downloads and requests of the user:

- `LaterTriedOnce`: a deferral is acted on at most once.  The counts alone are not
  inductive; `SpentInv` adds that a marker on disk is a deferral no launch has acted
  on yet.  Only four actions write the marker, so the other steps are lemmas by
  group.
- `TypeCorrect`, for a set of downloads that is not empty (`ManagerAssumption`): what
  downloads, waits or installs has a plan and a plan is a release that exists
  (`OfferInv`); the checker goes on only while fewer than two downloads failed, and a
  marker, written or about to be, is an act of the user (`CountInv`).

`VideoJobsProofs`, for any set of jobs, number of rows kept, and of restarts and calls of
the history page:

- `NobodyIsForgotten`, from `JobInv`: the types of what runs
  (`RunTypes`), a job is created at most once and only its own thread does that
  (`CreatedOnce`), and whatever a job's thread, timer or cancellation is doing, an
  active row has one of them (`Attended`).  The lemmas `UpdateFacts`, `FinishFacts`,
  `DropFacts` and `PruneFacts` say what each call of the store does to a row, once
  for all the actions that make it.
- `TypeCorrect` and `HistoryTrue`, for a finite set of jobs: `StoreInv` says that the rows
  of a table are those of the jobs that have one, each once, and that, but for a job
  whose two writes are under way or were torn apart, or whose record was cleared, the
  history shows the row.
  `AppendFacts`, `ConcatFacts`, `PartFacts`, `WithoutFacts`, `SetToSeqFacts` and
  `LengthIsCount` say what the operators on rows keep: who is in, and that nobody is
  in twice.
- `LivesAreLegal` and `Implementation`: whatever its threads, timers, cancellations,
  the other jobs, restarts and the history page do, each job's life is one that `VideoLifecycle`
  allows.  No invariant is needed beyond `JobInv` and `StoreInv`.  `LifeSteps` lists
  the changes of row and history that are a step of a life or a stutter; a lemma per
  call of the store (`UpdateLives`, `FinishLives`, `DropLives`, `PruneLives`, `ClearHistoryLives`) shows that
  it makes only such changes, and `CreateLives`, `ParkLives`, `RestartLives` map the
  actions that enter a job, count a retry, or lose the threads.  That what is pruned
  has a row to remove, and that an outcome written late is that of a job that has it
  or is gone, is where `StoreInv` is used.

`NativeAsrProofs`, for any streams and decoders, any room for audio and any number of
feeds (`NativeAsrAssumption`: the kinds of caller differ and the limits are numbers):

- `TypeCorrect` and `NothingLeaked`, from `IInv`, which is `TypeOK` and: where each kind of
  caller can be (`PlaceInv`); a request is with the client for a caller that waits
  for it or has left it, and who waits has a request there or its reply (`KeyInv`);
  the reserved audio is that of the requests queued and in flight, which are finitely
  many (`AudioInv`); a caller in an exclusive call has the engine's lock (`LockInv`);
  a stream in use pins its engine (`StreamsPinTheEngine`); and what its requests, its
  replies and its handle say of whether the worker has a stream open, and who will
  close it (`StreamInv`).  `NothingIsLeaked` alone is not inductive: a stream is cared
  for by a request that may still be in the queue, in flight, answered, or left
  behind, and every step moves one of these.

`HotkeysProofs`, for any shortcuts, modes, size of the queue and number of gestures
(`ShortcutsAreKnown`, `NoneIsNothing`):

- `TypeCorrect`, `FlagsAlwaysAgree` and `ReleaseEnds`, from `IInv`, which is `TypeOK` and:
  a handler past its first step has the capture lock, and what it is about to write
  fits the state it set, or that state was taken (`AppInv`); a flag is up for a
  recording, for one that somebody asked for or whose state was taken, or until a
  handler clears it (`RecInv`, `HrecInv`); both are up
  for a recording unless its end is asked for, its handler is about to raise them, or
  they were erased (`UpInv`); and with push-to-talk, for every start on its way its
  end is on its way behind it, or the key or button is down that will send it
  (`TalkInv`).  The last one is about order in the queue and among the threads, so the
  lemmas (`FollowedAppend`, `FollowedRemoved`) say what putting an entry in and taking
  one out leave of "every start is followed by an end".  `IInv` was checked by TLC on the run's
  instance and on one with more gestures before it was proved.

Only model-checked: the liveness properties (`EverySummaryEnds`, `EveryChunkEnds`,
`ProcessingEnds`, `UnusedModelIsFreed`, `AppComesBack`, `UserIsServed`,
`EveryJobSettles`, `EveryCallerEnds`, `EveryGestureIsAnswered`), which need fairness and
ENABLED and are out of the prover's reach; and the two disagreements, which are
counterexamples.  Every other property of a run is a theorem above.  The proofs are
about the specification without fairness, so they hold with it.

<a name="findings"></a>
## Disagreements found

Two are runs that TLC is expected to find violated, with the line of the
repository they contradict quoted in `PROJECT.json`:

1. `update_poll`, `ProgressCanBePolled`.  Starting a download while one is under way
   takes the manager's lock twice on one thread.
2. `video_limit`, `LimitedOnceIsRetried`.  The engine returns a usage limit as a
   failed result; the retry is made only for an exception.

The others are kept as commented definitions that no run checks; TLC finds each of
them violated when it is added to the `.cfg` of its module.

3. `AudioSummaries!DeletedStaysDeleted`.  A delete between a listener's two
   transactions is undone in the unified history.
4. `AudioSummaries!ReadyRowOpens`.  Another thread's pruning evicts a job after it
   became ready and before its listener shows the row; the row opens nothing.
5. `StreamStt!ResamplingFailureIsNoticed`.  A chunk that cannot be resampled counts
   as silence instead of as a failure.
6. `Dictation!RecordingIsNotClobbered`.  The end of a history retry, which names no
   session, resets the state of a dictation that began meanwhile.
7. `Dictation!NextStreamStaysOpen`.  A cancelled dictation's pipeline closes the next
   one's stream in the moment before its owner is noted; or also later, while the
   recording is in progress, if the pipeline had passed the owner check before:
   `main.py:1297` checks and `main.py:1311` and `1316` end the stream, with no lock held.
   That such a pipeline must have been past the check is what `RecordingIsKept` says.
8. `UpdateHelper!BackupOutlivesTheTrial`.  `update-ok` is never removed before a
   trial, so an old marker confirms a build that has not opened, and the backup
   is dropped.
9. `NativeAsr!NoStreamIsLeft`.  The RPC thread reads `box["abandoned"]` without the
   lock (`nemotron_worker_client.py:152`): an opener that leaves just after that
   leaves a stream nobody closes.
10. `Hotkeys!NewerGestureSurvives`.  `hotkeys.py:613` promises that an earlier
   callback does not erase a newer gesture, through
   `_set_recording_state_if_current`, which no class has; `main.py:1279` promises that
   a reset does not clobber a newer dictation, but clears the flags after the lock.
   Both erase whatever is current.  One case needs no race: a press that replaces a
   stale processing session cancels it (`main.py:1410`), which forgets the press
   itself, so letting go does not end the recording.  Others that the model
   shows: the second of two quick presses loses its release to the first one's
   finish; a refused start of one hook clears the other's accepted one; a finish in the
   urgent slot is overtaken by a start the worker was already waiting for; a mode
   switched off during a middle-button hold swallows its release.
11. `Hotkeys!ResetLeavesNoFlag`.  The reset of the bar promises to "cancel any
   in-flight/stuck recordings" (`main.py:4417`), but leaves both hooks' flags up.  Its
   endpoint refuses while a dictation is under way, but holds no lock between this
   check and the reset (`gui/api_server.py:234-240`): a dictation that starts in
   between loses its state, and the next press is taken for its end.
12. `VideoJobs!RemovedIsNotShown`.  `history/delete` takes the row and the record of a job
   that is just being settled, or another thread's pruning takes a row that `create`
   has not entered yet; the second half of `finish` or of `create` then writes the
   record, and the history shows a job that is gone.

In `VideoJobs` the model also allows what a comment there does not expect: a row
younger than ten minutes at a restart is left active with nobody to settle it
(`orphaned`; `video_flow_service.py:842-846` speaks of all jobs); a run's `finally`
forgets the retry timer just scheduled, so `cancel` cannot stop it (it fires
and finds the row settled); and a restart during a retry schedules the retry again.

<a name="left-out"></a>
## What is not modelled

The components of the inventory with status `not_modelled` in `PROJECT.json`: text
transformation, signal processing, rendering, providers and the operating
system's services are functions or I/O, and appear as the outcomes a caller sees;
`third_party/`, `website/`, `video_flow_renderer/`, `scripts/` and `release/` are
vendored, presentation or build code.  Most of the program's lines are of these
kinds: browser automation for NotebookLM, prompt building and text clean-up, drawing,
request parsing, single-row SQL.  Read-aloud, the recorder's stream buffer, the
cloud streams and the capture of a new shortcut have protocols worth modelling and
are in the plan.

<a name="plan"></a>
## Plan

Done: `SummaryLifecycle`, `AudioFlowJobs` with proofs and refinement;
`VideoLifecycle` and its refinement by `VideoJobs`, `DictationLifecycle` and its by
`Dictation`; `AudioSummaries`, `StreamStt`, `ModelLeases`, `UpdateHelper`, `UpdateManager`, `VideoJobs`, `NativeAsr` and
`Hotkeys`, with proofs of all the safety properties their runs check.  Next, in order
of what matters most to a user:

1. The composition of `Dictation` and `StreamStt` through an abstract stream that
   both use (owner, open, closed), for the collector that takes a chunk of the next
   session.
2. Read-aloud generations (`audio_flow_widget.py`), the recorder's stream buffer
   (`audio.py`), the capture of a shortcut (`hotkey_config.py`).
