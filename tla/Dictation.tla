------------------------------- MODULE Dictation -------------------------------
(***************************************************************************)
(* The life of a dictation, main.py: capture starts, finishes or is        *)
(* cancelled under the capture transition lock, one handler at a time; the *)
(* recording is then transcribed, polished and pasted by a pipeline thread *)
(* of its own; an archived recording can be transcribed again by a retry   *)
(* worker.  They share the application's state, its current session, the   *)
(* recorder, the chunk stream and the model leases.                        *)
(*                                                                         *)
(* Every block under _state_lock is one action, and so is what a thread    *)
(* does between two such blocks with data only it touches.  A session      *)
(* object is its number; moved tells whether the finish handler replaced   *)
(* it by a copy, which is current from then on, while the stream is still  *)
(* owned by the original.  Elapsed time is not modelled: a processing      *)
(* session may be old enough to be taken for stale whenever a dictation    *)
(* starts.  DictationState.ERROR is never assigned and is left out.        *)
(***************************************************************************)
EXTENDS Naturals, FiniteSets

CONSTANTS
  None,
  MaxSessions,  \* dictations (bounds the model only)
  MaxTakeovers  \* history retries and "reset and refresh" requests together (bounds the model only)

ASSUME DictationBounds ==
  /\ MaxSessions \in Nat
  /\ MaxTakeovers \in Nat
  /\ None \notin Nat

Sessions == 1..MaxSessions

VARIABLES
  state,       \* self.state
  session,     \* self.session
  last,        \* the sessions so far are 1..last
  cap,         \* the handler that holds the capture transition lock
  mic,         \* the session the recorder runs for
  watchdog,    \* the session whose _record_watchdog is armed
  limit,       \* the sessions whose watchdog is about to call the finish handler
  moved,       \* the sessions replaced by a copy for another window
  lease,       \* the sessions whose speech model lease is held
  streamOwner, \* _stream_session_owner
  stream,      \* the session whose stream is open in _stream_stt
  pipe,        \* where the pipeline thread of each session is
  cancelled,   \* _cancelled_session_ids
  delivery,    \* _delivery_session
  pasted,      \* the sessions whose text was given to the injector
  recovery,    \* the keys of _pending_recovery
  claimed,     \* the sessions whose recovery has history_claimed
  history,     \* the rows written for each session
  left,        \* the retries and resets that are left
  retrying,    \* the retry workers that run
  resetting,   \* the reset requests that found dictation not busy
  disturbed    \* the sessions a retry or a reset took the state from

stateVars    == <<state, session>>
captureVars  == <<last, mic, moved>>
timerVars    == <<watchdog, limit>>
streamVars   == <<streamOwner, stream>>
pipeVars     == <<pipe, delivery, pasted>>
historyVars  == <<recovery, claimed, history>>
outsideVars  == <<left, retrying, resetting, disturbed>>
vars == <<stateVars, cap, captureVars, timerVars, lease, streamVars, pipeVars, cancelled, historyVars, outsideVars>>

States    == {"IDLE", "RECORDING", "PROCESSING"}
Rows      == {"pasted", "ready", "failed", "cancelled", "command"}
Free      == [at |-> "free", of |-> None]
Places    == {"free", "open", "opened", "arm", "stream", "own", "live", "release", "stop",
              "dropRecording", "dropProcessing"}
Resting   == {"none", "wait", "done"}   \* a pipeline without processing_lock
Ending    == {"rejected", "ended", "closing", "discarding"}  \* in _end_stream_session, past the owner check
Stages    == Resting \cup Ending \cup {"transcribe", "transcribed", "empty", "command", "polish", "committed",
                                       "paste", "record", "raised", "reset", "close", "closed"}
Anyone    == Sessions \cup {None}

(* Every variable has its type.                                            *)
TypeOK ==
  /\ state \in States
  /\ session \in Anyone
  /\ last \in 0..MaxSessions
  /\ cap \in [at : Places, of : Anyone]
  /\ mic \in Anyone
  /\ watchdog \in Anyone
  /\ limit \subseteq Sessions
  /\ moved \subseteq Sessions
  /\ lease \subseteq Sessions
  /\ streamOwner \in Anyone
  /\ stream \in Anyone
  /\ pipe \in [Sessions -> Stages]
  /\ cancelled \subseteq Sessions
  /\ delivery \in Anyone
  /\ pasted \subseteq Sessions
  /\ recovery \subseteq Sessions
  /\ claimed \subseteq Sessions
  /\ history \in [Sessions -> SUBSET Rows]
  /\ left \in 0..MaxTakeovers
  /\ retrying \in 0..MaxTakeovers
  /\ resetting \in 0..MaxTakeovers
  /\ disturbed \subseteq Sessions

Init ==
  /\ state = "IDLE" /\ session = None
  /\ last = 0 /\ cap = Free /\ mic = None /\ moved = {}
  /\ watchdog = None /\ limit = {} /\ lease = {}
  /\ streamOwner = None /\ stream = None
  /\ pipe = [s \in Sessions |-> "none"] /\ delivery = None /\ pasted = {}
  /\ cancelled = {}
  /\ recovery = {} /\ claimed = {} /\ history = [s \in Sessions |-> {}]
  /\ left = MaxTakeovers /\ retrying = 0 /\ resetting = 0
  /\ disturbed = {}

-------------------------------------------------------------------------------
(* What the handlers share.                                                *)

(* _reset_to_idle(session): only when that session is the current one.     *)
ResetToIdle(s) ==
  IF session = s
  THEN state' = "IDLE" /\ session' = None
  ELSE UNCHANGED stateVars

(* Not cancelled, current, and the application is processing.              *)
InCharge(s) == s \notin cancelled /\ session = s /\ state = "PROCESSING"

(* Faulty: the owner is not looked at.                                     *)
FaultyOwnsStream(s) == TRUE

(* The owner check of _end_stream_session.                                 *)
OwnsStream(s) == streamOwner = s /\ s \notin moved

(* _end_stream_session(discard=True, owner=s) of a handler: it holds the   *)
(* capture lock, so no stream opens between the check and the end.         *)
(* Without an owner the check is skipped.                                  *)
EndStream(s) ==
  /\ stream' = IF s = None \/ OwnsStream(s) THEN None ELSE stream
  /\ UNCHANGED streamOwner

(* Faulty: the row is written whoever claimed it.                          *)
FaultyClaim(s, row) ==
  /\ claimed' = claimed \cup {s}
  /\ history' = [history EXCEPT ![s] = @ \cup {row}]
  /\ UNCHANGED recovery

(* _defer_history_insert with the recovery of the session's recording: the *)
(* first outcome claims it.                                                *)
Claim(s, row) ==
  /\ claimed' = claimed \cup {s}
  /\ history' = IF s \in claimed THEN history ELSE [history EXCEPT ![s] = @ \cup {row}]
  /\ UNCHANGED recovery

(* With a recovery of its own.                                             *)
WriteRow(s, row) ==
  /\ history' = [history EXCEPT ![s] = @ \cup {row}]
  /\ UNCHANGED <<recovery, claimed>>

(* Delivery has committed: cancellation is too late.                       *)
TooLate == session # None /\ delivery = session

(* What a cancellation undoes, but for the recorder: the stream, the lease *)
(* and the history row.                                                    *)
DropSession(s) ==
  /\ EndStream(s)
  /\ lease' = lease \ {s}
  /\ IF s = None
     THEN UNCHANGED historyVars
     ELSE IF s \in recovery THEN Claim(s, "cancelled") ELSE WriteRow(s, "cancelled")

Capture(place, s) == cap' = [at |-> place, of |-> s]
CaptureEnds       == cap' = Free

-------------------------------------------------------------------------------
(* _on_dictation_start.                                                    *)

(* The new session takes the state under one hold of _state_lock.  A       *)
(* session that is still processing is refused, or cancelled as stale: the *)
(* nested _on_dictation_cancel runs under the same hold.                   *)
StartBegins ==
  /\ cap = Free
  /\ last < MaxSessions
  /\ \/ /\ state = "IDLE"
        /\ UNCHANGED <<watchdog, cancelled, streamVars, lease, historyVars>>
     \/ /\ state = "PROCESSING"
        /\ ~TooLate
        /\ watchdog' = None
        /\ cancelled' = cancelled \cup ({session} \ {None})
        /\ DropSession(session)
  /\ last' = last + 1
  /\ session' = last + 1
  /\ state' = "RECORDING"
  /\ Capture("open", last + 1)
  /\ UNCHANGED <<limit, mic, moved, pipeVars, outsideVars>>

(* audio.start(), or a microphone that does not open.                      *)
OpenMic ==
  /\ cap.at = "open"
  /\ mic' \in {cap.of, None}
  /\ Capture("opened", cap.of)
  /\ UNCHANGED <<stateVars, last, moved, timerVars, lease, streamVars, pipeVars, cancelled, historyVars, outsideVars>>

StillRecording(s) == session = s /\ state = "RECORDING"

(* The checks after it: nothing is undone when the session was taken away. *)
CheckStart ==
  LET s == cap.of IN
  /\ cap.at = "opened"
  /\ \/ /\ ~StillRecording(s)
        /\ CaptureEnds
        /\ UNCHANGED <<stateVars, streamVars, watchdog>>
     \/ /\ StillRecording(s)
        /\ mic # s
        /\ CaptureEnds
        /\ watchdog' = None
        /\ EndStream(s)
        /\ ResetToIdle(s)
     \/ /\ StillRecording(s)
        /\ mic = s
        /\ Capture("arm", s)
        /\ UNCHANGED <<stateVars, streamVars, watchdog>>
  /\ UNCHANGED <<captureVars, limit, lease, pipeVars, cancelled, historyVars, outsideVars>>

(* The speech model lease, kept only when the session is still current;    *)
(* then the watchdog of the recording.                                     *)
ArmStart ==
  LET s == cap.of IN
  /\ cap.at = "arm"
  /\ IF StillRecording(s)
     THEN /\ lease' = lease \cup {s}
          /\ watchdog' = s
          /\ Capture("stream", s)
     ELSE /\ CaptureEnds
          /\ UNCHANGED <<lease, watchdog>>
  /\ UNCHANGED <<stateVars, captureVars, limit, streamVars, pipeVars, cancelled, historyVars, outsideVars>>

(* _start_stream_for_session: the stream opens before its owner is noted.  *)
OpenStream ==
  /\ cap.at = "stream"
  /\ stream' = cap.of
  /\ Capture("own", cap.of)
  /\ UNCHANGED <<stateVars, captureVars, timerVars, lease, streamOwner, pipeVars, cancelled, historyVars, outsideVars>>

OwnStream ==
  /\ cap.at = "own"
  /\ streamOwner' = cap.of
  /\ Capture("live", cap.of)
  /\ UNCHANGED <<stateVars, captureVars, timerVars, lease, stream, pipeVars, cancelled, historyVars, outsideVars>>

StartReturns ==
  /\ cap.at = "live"
  /\ CaptureEnds
  /\ UNCHANGED <<stateVars, captureVars, timerVars, lease, streamVars, pipeVars, cancelled, historyVars, outsideVars>>

(* An exception on the way: a session that is still current is undone, of  *)
(* another one only the lease is given back.                               *)
StartFails ==
  LET s == cap.of IN
  /\ cap.at \in {"arm", "stream", "live"}
  /\ lease' = lease \ {s}
  /\ IF session = s
     THEN /\ watchdog' = None
          /\ mic' = None
          /\ EndStream(s)
          /\ ResetToIdle(s)
     ELSE UNCHANGED <<watchdog, mic, streamVars, stateVars>>
  /\ CaptureEnds
  /\ UNCHANGED <<last, moved, limit, pipeVars, cancelled, historyVars, outsideVars>>

Start == \/ StartBegins
         \/ OpenMic
         \/ CheckStart
         \/ ArmStart
         \/ OpenStream
         \/ OwnStream
         \/ StartReturns
         \/ StartFails

-------------------------------------------------------------------------------
(* _on_dictation_finish and the record watchdog that calls it.             *)

(* The recording that is current ends, whoever called.                     *)
FinishBegins ==
  /\ cap = Free
  /\ state = "RECORDING"
  /\ state' = "PROCESSING"
  /\ Capture("release", session)
  /\ UNCHANGED <<session, captureVars, lease, streamVars, pipeVars, cancelled, historyVars, outsideVars>>

Finish == FinishBegins /\ UNCHANGED timerVars

(* _stop_recording_at_limit and _finish_if_current, as far as their checks.*)
LimitReached ==
  /\ watchdog # None
  /\ StillRecording(watchdog)
  /\ limit' = limit \cup {watchdog}
  /\ watchdog' = None
  /\ UNCHANGED <<stateVars, cap, captureVars, lease, streamVars, pipeVars, cancelled, historyVars, outsideVars>>

(* The call itself, when the capture transition lock is free at last.      *)
FinishAtLimit(s) ==
  /\ s \in limit
  /\ cap = Free
  /\ limit' = limit \ {s}
  /\ UNCHANGED watchdog
  /\ \/ FinishBegins
     \/ /\ state # "RECORDING"
        /\ UNCHANGED <<stateVars, cap, captureVars, lease, streamVars, pipeVars, cancelled, historyVars, outsideVars>>

(* Another window is in front: a copy of the session becomes current, with *)
(* no look at what is current now.                                         *)
ChooseWindow ==
  /\ cap.at = "release"
  /\ \/ UNCHANGED <<session, moved>>
     \/ session' = cap.of /\ moved' = moved \cup {cap.of}
  /\ Capture("stop", cap.of)
  /\ UNCHANGED <<state, last, mic, timerVars, lease, streamVars, pipeVars, cancelled, historyVars, outsideVars>>

(* The recorder stops and the stream takes the tail and ends, unless that  *)
(* failed.                                                                 *)
StopCapture ==
  /\ cap.at = "stop"
  /\ watchdog' = None
  /\ mic' = None
  /\ CaptureEnds
  /\ UNCHANGED <<last, limit, moved, streamOwner, pipeVars, cancelled, outsideVars>>

(* No usable audio.                                                        *)
FinishEmpty ==
  /\ StopCapture
  /\ stream' \in {None, stream}
  /\ WriteRow(cap.of, "failed")
  /\ lease' = lease \ {cap.of}
  /\ ResetToIdle(cap.of)

(* The pipeline of the recording starts.                                   *)
FinishSpawns ==
  /\ cap.at = "stop"
  /\ watchdog' = None
  /\ mic' = None
  /\ stream' \in {None, stream}
  /\ recovery' = recovery \cup {cap.of}
  /\ pipe' = [pipe EXCEPT ![cap.of] = "wait"]
  /\ CaptureEnds
  /\ UNCHANGED <<stateVars, last, limit, moved, lease, streamOwner, delivery, pasted, cancelled, claimed, history,
                 outsideVars>>

(* An exception: the stream is ended whoever owns it, no row is written,   *)
(* and the recovery of a pipeline that did not start stays behind.         *)
FinishFails ==
  /\ StopCapture
  /\ stream' = None
  /\ recovery' \in {recovery, recovery \cup {cap.of}}
  /\ lease' = lease \ {cap.of}
  /\ ResetToIdle(cap.of)
  /\ UNCHANGED <<claimed, history>>

FinishSteps == \/ ChooseWindow
               \/ FinishEmpty
               \/ FinishSpawns
               \/ FinishFails

-------------------------------------------------------------------------------
(* _on_dictation_cancel.                                                   *)

CancelBegins ==
  /\ cap = Free
  /\ state # "IDLE"
  /\ ~TooLate
  /\ watchdog' = None
  /\ cancelled' = cancelled \cup ({session} \ {None})
  /\ state' = "IDLE" /\ session' = None
  /\ Capture(IF state = "PROCESSING" THEN "dropProcessing" ELSE "dropRecording", session)
  /\ UNCHANGED <<captureVars, limit, lease, streamVars, pipeVars, historyVars, outsideVars>>

(* Refused, but the watchdog is gone.                                      *)
CancelRefused ==
  /\ cap = Free
  /\ state = "IDLE" \/ TooLate
  /\ watchdog' = None
  /\ UNCHANGED <<stateVars, cap, captureVars, limit, lease, streamVars, pipeVars, cancelled, historyVars, outsideVars>>

(* Faulty: the recorder of a cancelled recording goes on.                  *)
FaultyCancelDrops ==
  /\ cap.at \in {"dropRecording", "dropProcessing"}
  /\ DropSession(cap.of)
  /\ IF cap.at = "dropRecording" THEN cancelled' = cancelled \ {cap.of} ELSE UNCHANGED cancelled
  /\ CaptureEnds
  /\ UNCHANGED <<stateVars, captureVars, timerVars, pipeVars, outsideVars>>

CancelDrops ==
  /\ cap.at \in {"dropRecording", "dropProcessing"}
  /\ DropSession(cap.of)
  /\ IF cap.at = "dropRecording"
     THEN mic' = None /\ cancelled' = cancelled \ {cap.of}
     ELSE UNCHANGED <<mic, cancelled>>
  /\ CaptureEnds
  /\ UNCHANGED <<stateVars, last, timerVars, moved, pipeVars, outsideVars>>

-------------------------------------------------------------------------------
(* _process_dictation_pipeline, from end to end under processing_lock.     *)

PipeAt(s, place) == pipe' = [pipe EXCEPT ![s] = place]
PipeGoes(s, from, places) == pipe[s] = from /\ \E place \in places : PipeAt(s, place)

PipeStarts(s) ==
  /\ \A t \in Sessions : pipe[t] \in Resting
  /\ PipeGoes(s, "wait", {IF InCharge(s) THEN "transcribe" ELSE "close"})
  /\ UNCHANGED <<stateVars, cap, captureVars, timerVars, lease, streamVars, delivery, pasted, cancelled, historyVars,
                 outsideVars>>

(* The live result is taken, or rejected; the stream of a rejected one is  *)
(* ended first, if it is the session's own.                                *)
PipeTranscribes(s) ==
  /\ PipeGoes(s, "transcribe", {"transcribed", "raised"} \cup (IF OwnsStream(s) THEN {"rejected"} ELSE {}))
  /\ UNCHANGED <<stateVars, cap, captureVars, timerVars, lease, streamVars, delivery, pasted, cancelled, historyVars,
                 outsideVars>>

(* Past the owner check, a pipeline calls end_session() and then discard() *)
(* on _stream_stt, without a lock.  By then that may be the stream of a    *)
(* later dictation, unless an engine of its own replaced it.               *)
EndsWhatIsOpen(s) == stream' \in {None, stream} \ {s} /\ UNCHANGED streamOwner

PipeEndsStream(s) ==
  /\ \/ PipeGoes(s, "rejected", {"ended"})
     \/ PipeGoes(s, "ended", {"transcribed", "raised"})
     \/ PipeGoes(s, "closing", {"discarding"})
  /\ EndsWhatIsOpen(s)
  /\ UNCHANGED <<stateVars, cap, captureVars, timerVars, lease, delivery, pasted, cancelled, historyVars, outsideVars>>

(* The lease ends with the transcription; the text may be empty, a voice   *)
(* command or words to polish.                                             *)
PipeReadsText(s) ==
  /\ PipeGoes(s, "transcribed", IF s \in cancelled THEN {"close"} ELSE {"empty", "command", "polish", "raised"})
  /\ lease' = lease \ {s}
  /\ UNCHANGED <<stateVars, cap, captureVars, timerVars, streamVars, delivery, pasted, cancelled, historyVars,
                 outsideVars>>

(* Faulty: the commit is not noted.                                        *)
FaultyPipeCommits(s) ==
  /\ PipeGoes(s, "polish", IF InCharge(s) THEN {"empty", "raised", "committed"} ELSE {"close"})
  /\ UNCHANGED <<stateVars, cap, captureVars, timerVars, lease, streamVars, delivery, pasted, cancelled, historyVars,
                 outsideVars>>

(* Polishing may leave nothing.  What it leaves is committed to delivery   *)
(* under _state_lock, if the session is still in charge.                   *)
PipeCommits(s) ==
  /\ \/ /\ PipeGoes(s, "polish", {"empty", "raised"})
        /\ UNCHANGED delivery
     \/ /\ ~InCharge(s)
        /\ PipeGoes(s, "polish", {"close"})
        /\ UNCHANGED delivery
     \/ /\ InCharge(s)
        /\ PipeGoes(s, "polish", {"committed"})
        /\ delivery' = s
  /\ UNCHANGED <<stateVars, cap, captureVars, timerVars, lease, streamVars, pasted, cancelled, historyVars, outsideVars>>

(* The second look, before the text goes to the window in front.           *)
PipeChecksAgain(s) ==
  /\ PipeGoes(s, "committed", {IF InCharge(s) THEN "paste" ELSE "close"})
  /\ UNCHANGED <<stateVars, cap, captureVars, timerVars, lease, streamVars, delivery, pasted, cancelled, historyVars,
                 outsideVars>>

PipePastes(s) ==
  /\ PipeGoes(s, "paste", {"record", "raised"})
  /\ pasted' = pasted \cup {s}
  /\ UNCHANGED <<stateVars, cap, captureVars, timerVars, lease, streamVars, delivery, cancelled, historyVars, outsideVars>>

(* The row of the outcome: no text, a command, text kept for a click (no   *)
(* second look), text pasted or refused by its window, an exception.       *)
Outcomes(place) ==
  CASE place = "empty"     -> {"failed"}
    [] place = "command"   -> {"command"}
    [] place = "committed" -> {"ready"}
    [] place = "record"    -> {"pasted", "failed"}
    [] place = "raised"    -> {"failed"}
    [] OTHER               -> {}

PipeConcludes(s) ==
  /\ pipe[s] = "raised" => s \notin cancelled
  /\ \E row \in Outcomes(pipe[s]) : Claim(s, row)
  /\ PipeAt(s, "reset")
  /\ UNCHANGED <<stateVars, cap, captureVars, timerVars, lease, streamVars, delivery, pasted, cancelled, outsideVars>>

PipeGivesUp(s) ==
  /\ s \in cancelled
  /\ PipeGoes(s, "raised", {"close"})
  /\ UNCHANGED <<stateVars, cap, captureVars, timerVars, lease, streamVars, delivery, pasted, cancelled, historyVars,
                 outsideVars>>

PipeResets(s) ==
  /\ PipeGoes(s, "reset", {"close"})
  /\ ResetToIdle(s)
  /\ UNCHANGED <<cap, captureVars, timerVars, lease, streamVars, delivery, pasted, cancelled, historyVars, outsideVars>>

(* The finally clause: the stream is ended, if nothing did so before and   *)
(* it is the session's own...                                              *)
PipeLeaves(s) ==
  /\ OwnsStream(s)
  /\ PipeGoes(s, "close", {"closing"})
  /\ UNCHANGED <<stateVars, cap, captureVars, timerVars, lease, streamVars, delivery, pasted, cancelled, historyVars,
                 outsideVars>>

(* ... and everything else the dictation holds is given back.              *)
PipeCloses(s) ==
  /\ \/ PipeGoes(s, "close", {"closed"}) /\ UNCHANGED streamVars
     \/ PipeGoes(s, "discarding", {"closed"}) /\ EndsWhatIsOpen(s)
  /\ lease' = lease \ {s}
  /\ recovery' = recovery \ {s}
  /\ cancelled' = cancelled \ {s}
  /\ delivery' = IF delivery = s THEN None ELSE delivery
  /\ UNCHANGED <<stateVars, cap, captureVars, timerVars, pasted, claimed, history, outsideVars>>

PipeEnds(s) ==
  /\ PipeGoes(s, "closed", {"done"})
  /\ ResetToIdle(s)
  /\ UNCHANGED <<cap, captureVars, timerVars, lease, streamVars, delivery, pasted, cancelled, historyVars, outsideVars>>

Pipeline(s) == \/ PipeStarts(s)
               \/ PipeTranscribes(s)
               \/ PipeEndsStream(s)
               \/ PipeReadsText(s)
               \/ PipeCommits(s)
               \/ PipeChecksAgain(s)
               \/ PipePastes(s)
               \/ PipeConcludes(s)
               \/ PipeGivesUp(s)
               \/ PipeResets(s)
               \/ PipeLeaves(s)
               \/ PipeCloses(s)
               \/ PipeEnds(s)

-------------------------------------------------------------------------------
(* What takes the state without asking for its session.                    *)

(* retry_history: PROCESSING while no session is current.                  *)
RetryBegins ==
  /\ state = "IDLE"
  /\ left > 0
  /\ state' = "PROCESSING"
  /\ left' = left - 1 /\ retrying' = retrying + 1
  /\ UNCHANGED <<session, cap, captureVars, timerVars, lease, streamVars, pipeVars, cancelled, historyVars, resetting, disturbed>>

(* Faulty: the worker resets the state a second time.                      *)
DoubleRetryEnds ==
  /\ state = "PROCESSING"
  /\ retrying' = retrying - 1
  /\ state' = "IDLE" /\ session' = None
  /\ disturbed' = disturbed \cup ({session} \ {None})
  /\ UNCHANGED <<cap, captureVars, timerVars, lease, streamVars, pipeVars, cancelled, historyVars, left, resetting>>

(* Faulty: a retry that failed leaves the state as it is.                  *)
SilentRetryEnds ==
  /\ retrying > 0
  /\ retrying' = retrying - 1
  /\ UNCHANGED <<stateVars, cap, captureVars, timerVars, lease, streamVars, pipeVars, cancelled, historyVars, left, resetting,
                 disturbed>>

(* Its worker ends, well or not: _reset_to_idle() of any session.          *)
RetryEnds ==
  /\ retrying > 0
  /\ retrying' = retrying - 1
  /\ state' = "IDLE" /\ session' = None
  /\ disturbed' = disturbed \cup ({session} \ {None})
  /\ UNCHANGED <<cap, captureVars, timerVars, lease, streamVars, pipeVars, cancelled, historyVars, left, resetting>>

(* The reset endpoint looks whether dictation is busy, without a lock...   *)
ResetAsks ==
  /\ state = "IDLE" /\ mic = None
  /\ left > 0
  /\ left' = left - 1 /\ resetting' = resetting + 1
  /\ UNCHANGED <<stateVars, cap, captureVars, timerVars, lease, streamVars, pipeVars, cancelled, historyVars, retrying, disturbed>>

(* ... and then reset_state_and_refresh leaves the session where it is.    *)
ResetState ==
  /\ resetting > 0
  /\ resetting' = resetting - 1
  /\ state' = "IDLE" /\ mic' = None
  /\ disturbed' = disturbed \cup ({session} \ {None})
  /\ UNCHANGED <<session, cap, last, moved, timerVars, lease, streamVars, pipeVars, cancelled, historyVars, left, retrying>>

-------------------------------------------------------------------------------
Next ==
  \/ Start
  \/ Finish
  \/ LimitReached
  \/ \E s \in Sessions : FinishAtLimit(s)
  \/ FinishSteps
  \/ CancelBegins
  \/ CancelRefused
  \/ CancelDrops
  \/ \E s \in Sessions : Pipeline(s)
  \/ RetryBegins
  \/ RetryEnds
  \/ ResetAsks
  \/ ResetState

SafeSpec == Init /\ [][Next]_vars

(* A handler that holds the lock, a pipeline and a retry worker go on; the *)
(* user need not do anything.                                              *)
Spec ==
  /\ SafeSpec
  /\ WF_vars(OpenMic \/ CheckStart \/ ArmStart \/ OpenStream \/ OwnStream \/ StartReturns)
  /\ WF_vars(FinishSteps)
  /\ WF_vars(CancelDrops)
  /\ \A s \in Sessions : WF_vars(Pipeline(s))
  /\ WF_vars(RetryEnds)

-------------------------------------------------------------------------------
(* Properties.                                                             *)

(* What a dictation that nothing took the state from can rely on.          *)
Undisturbed(s) == s \notin disturbed

(* A dictation that the user cancelled, or that a new one replaced as      *)
(* stale, is not pasted, however late the cancellation came: a pipeline    *)
(* past its commit is beyond cancellation (_delivery_session).             *)
CancelledIsNotPasted ==
  \A s \in pasted : "cancelled" \notin history[s]

(* While a pipeline pastes, its dictation has the application: no new      *)
(* dictation records over the window the text goes to.                     *)
PastingOwnsTheApp ==
  \A s \in Sessions :
    pipe[s] \in {"paste", "record"} /\ Undisturbed(s) => session = s /\ state = "PROCESSING"

(* The microphone is open for the recording the user sees, or while a      *)
(* handler that will stop it holds the capture lock.                       *)
MicHasOwner ==
  \A s \in Sessions :
    mic = s /\ Undisturbed(s) => (session = s /\ state = "RECORDING") \/ cap.of = s

(* A speech model is held only for a session that something will release   *)
(* it for: the current one, one a handler is busy with, or one with a      *)
(* pipeline.                                                               *)
LeaseHasOwner ==
  \A s \in lease :
    Undisturbed(s) => session = s \/ cap.of = s \/ pipe[s] \notin {"none", "done"}

(* Both together: what a dictation holds will be given back.               *)
OwnersHold == MicHasOwner /\ LeaseHasOwner

(* A dictation that reached its pipeline has a history row once both the   *)
(* pipeline and a cancellation of it are through.                          *)
HistoryHasNoGaps ==
  \A s \in Sessions :
    pipe[s] = "done" /\ cap.of # s /\ Undisturbed(s) => history[s] # {}

(* Every dictation is delivered as it should be: not against the user's    *)
(* word, not into another dictation, and never without a trace.            *)
DeliveryIsRight == CancelledIsNotPasted /\ PastingOwnsTheApp /\ HistoryHasNoGaps

(* The application never keeps processing: whatever outcome, it is ready   *)
(* for the next dictation.                                                 *)
ProcessingEnds == state = "PROCESSING" ~> state # "PROCESSING"

(* A recording that no handler is busy with keeps the application,         *)
(* whatever the pipelines of earlier dictations still do ("Reset one       *)
(* session without clobbering a newer dictation."); only a retry worker    *)
(* that ends and a reset may take it.  Its stream is ended only by a       *)
(* pipeline that was past the owner check of _end_stream_session before    *)
(* the recording was under way: none passes it from then on.               *)
RecordingIsKept ==
  [][(state = "RECORDING" /\ cap = Free /\ cap' = Free /\ UNCHANGED <<retrying, resetting>>)
       => /\ state' = "RECORDING" /\ session' = session
          /\ stream' # stream => \E s \in Sessions : pipe[s] \in Ending
          /\ \A s \in Sessions : pipe'[s] \in Ending => pipe[s] \in Ending]_vars

(* A recording, its handlers, its pipeline and its cancellation, as one    *)
(* life.                                                                   *)
Capturing(s) ==
  \/ StillRecording(s)
  \/ cap.of = s /\ cap.at \in {"open", "opened", "arm", "stream", "own", "live", "release", "stop"}

Concluding == {"reset", "close", "closing", "discarding", "closed"}

Phase(s) ==
  IF s > last THEN "none"
  ELSE IF pipe[s] \in {"none", "done"} /\ cap.of # s /\ session # s THEN "ended"
  ELSE IF delivery = s THEN "committed"
  ELSE IF s \in cancelled THEN "ending"
  ELSE IF Capturing(s) THEN "capture"
  ELSE IF pipe[s] \in Stages \ (Concluding \cup {"none", "done"}) THEN "work"
  ELSE "ending"

(* Each dictation, seen by itself, lives as DictationLifecycle allows,     *)
(* whatever the handlers, its pipeline, a late cancellation, the dictation *)
(* after it, a retry and a reset do in whatever order: it is delivered or  *)
(* cancelled but never both, its text is inserted at most once, its rows   *)
(* in the history say what became of it, and what ended stays as it is.    *)
Life(s) == INSTANCE DictationLifecycle
             WITH phase <- Phase(s), text <- s \in pasted,
                  rows <- history[s], taken <- s \in disturbed
EachDictationLives ==
  /\ \A s \in Sessions : Life(s)!Init
  /\ [][\A s \in Sessions : [Life(s)!Next]_(Life(s)!lifeVars)]_vars

(* The same for every step but a reset the user asked for.  The code does  *)
(* not keep this: the end of a retry resets whatever is current.           *)
RecordingIsNotClobbered ==
  [][(state = "RECORDING" /\ cap = Free /\ cap' = Free /\ resetting' = resetting) => state' = "RECORDING"]_vars

(* A cancelled transcription cannot close the stream of the next session.  *)
(* The code does not keep this: between OpenStream and OwnStream the owner *)
(* is still the earlier dictation, and a pipeline that had seen it as the  *)
(* owner ends the stream of the recording in progress as well.             *)
NextStreamStaysOpen ==
  [][(cap' = cap /\ (cap.at = "own" \/ (cap = Free /\ state = "RECORDING" /\ session' = session)))
       => stream' = stream]_vars
===============================================================================
