-------------------------------- MODULE Hotkeys --------------------------------
(***************************************************************************)
(* From a key or the middle mouse button to a dictation: hotkeys.py (the   *)
(* keyboard's listener and the threads it starts), mouse_hook.py (the      *)
(* mouse hook, its bounded control queue and its worker), and the three    *)
(* handlers of main.py they call, each with the places where it writes the *)
(* "recording" flags back; and the two that take the application's state   *)
(* from whatever dictation is under way: the end of a retry of a history   *)
(* row, and the settings' reset of the floating bar.                       *)
(*                                                                         *)
(* Both sides keep a flag of their own (rec, hrec) and set it before the   *)
(* application has agreed, so that the next press knows what to ask for.   *)
(* A block under the listener's lock is one action; set_recording_state is *)
(* two, one per flag.  Elapsed time is a choice: held long or not, tapped  *)
(* again in time or not, debounced or not.                                 *)
(***************************************************************************)
EXTENDS Naturals, Sequences, SequencesExt, FiniteSets

CONSTANTS
  Styles,       \* the keyboard shortcuts a user may have configured
  Modes,        \* dictation_trigger_mode
  Setups,       \* the shortcut and the mode the app may open with
  QueueSize,    \* _control_queue's maxsize
  MaxGestures,  \* bound: presses, and calls by the bar or the API
  MaxEvents,    \* bound: Escape, left clicks, other keys, reloads, retries, resets
  None

Chords == {"ctrl_win", "preset", "hold", "toggle"}   \* preset: alt_space, alt_tab, cmd_option
Solo   == {"single_ctrl", "double_ctrl"}             \* hold, toggle, double: a custom shortcut
Toggles == {"toggle_only", "hybrid"}
Ops == {"start", "finish", "cancel"}
Callers == {"key", "mouse", "bar"}
Enders == {"pipeline", "retry"}   \* who calls _reset_to_idle outside the handlers

ASSUME ShortcutsAreKnown ==
  /\ Styles \subseteq Chords \cup Solo \cup {"double"}
  /\ Modes \subseteq Toggles \cup {"ptt_only", "disabled"}
  /\ Setups \subseteq Styles \X Modes
  /\ QueueSize \in Nat \ {0} /\ MaxGestures \in Nat /\ MaxEvents \in Nat

ASSUME NoneIsNothing == None \notin Ops \cup Callers \cup Modes

VARIABLES
  style, mode,  \* the configured shortcut and trigger mode
  rec, armed,   \* the listener's _is_recording and _armed_trigger_mode
  key,          \* what else the listener knows of the shortcut's keys
  acts,         \* threads the listener has started, not yet in _action_lock
  hrec, mheld,  \* the hook's _is_recording; the middle button is down
  queue, urgent, loop,  \* _control_queue, _urgent_control, the worker's place
  app, pipe, tail,      \* state; its pipeline runs; where each _reset_to_idle is
  cap,          \* who holds _capture_transition_lock
  others,       \* a retry runs; a reset has found nothing under way
  run,          \* run[c]: the handler caller c is in, and how far
  gestures, events,     \* counted against the bounds
  upset,        \* history: what disturbed the flags or the order so far
  taken         \* what took the state from the last dictation: "no", "reset"
                \* (its session stayed), "retry" (the session went as well)

keyVars == <<style, mode, rec, armed, key, acts>>
mouseVars == <<hrec, mheld, queue, urgent, loop>>
appVars == <<app, pipe, tail, cap, others, taken>>
vars == <<keyVars, mouseVars, appVars, run, gestures, events, upset>>

NoKeys == [pressed |-> FALSE, held |-> FALSE, trig |-> FALSE, tap |-> FALSE,
           timer |-> FALSE, chord |-> FALSE, hold |-> FALSE, off |-> FALSE]
Idle == [op |-> None, at |-> "idle", then |-> "return", ok |-> FALSE]

TypeOK ==
  /\ style \in Styles /\ mode \in Modes /\ armed \in Modes \cup {None}
  /\ {rec, hrec, mheld, pipe} \subseteq BOOLEAN
  /\ key \in [pressed : BOOLEAN, held : BOOLEAN, trig : BOOLEAN, tap : BOOLEAN,
             timer : BOOLEAN, chord : BOOLEAN, hold : BOOLEAN, off : BOOLEAN]
  /\ acts \in Seq(Ops) /\ queue \in Seq(Ops \cup {"click"}) /\ Len(queue) <= QueueSize
  /\ urgent \in {None, "finish"} /\ loop \in {"top", "get"}
  /\ app \in {"IDLE", "RECORDING", "PROCESSING"} /\ tail \in [Enders -> {"no", "hook", "listener"}]
  /\ cap \in Callers \cup {None}
  /\ others \subseteq {"retry", "reset"} /\ taken \in {"no", "reset", "retry"}
  /\ run \in [Callers ->
       [op : Ops \cup {None}, then : {"return", "begin", "outcome"}, ok : BOOLEAN,
        at : {"idle", "wait", "begin", "on", "onListener", "open", "off", "offListener",
              "outcome", "clear", "after"}]]
  /\ gestures \in 0..MaxGestures /\ events \in 0..MaxEvents
  /\ upset \subseteq {"erased", "overtaken", "lost", "reconfigured", "bar"}

Init ==
  /\ (\E s \in Setups : style = s[1] /\ mode = s[2]) /\ armed = None
  /\ rec = FALSE /\ hrec = FALSE /\ mheld = FALSE /\ key = NoKeys
  /\ acts = <<>> /\ queue = <<>> /\ urgent = None /\ loop = "top"
  /\ app = "IDLE" /\ pipe = FALSE /\ tail = [e \in Enders |-> "no"] /\ cap = None
  /\ others = {} /\ taken = "no"
  /\ run = [c \in Callers |-> Idle]
  /\ gestures = 0 /\ events = 0 /\ upset = {}

-------------------------------------------------------------------------------
(* The keyboard.                                                           *)
ActiveMode == IF rec /\ armed # None THEN armed ELSE mode

(* history: d, or the mouse, is about to start a dictation.                *)
Opening(d) ==
  /\ run[d].op = "start"
  /\ run[d].at \in {"wait", "begin", "on", "onListener", "open"} \/ run[d].then = "begin"
MouseStarts == Opening("mouse") \/ \E i \in DOMAIN queue : queue[i] = "start"

KeyStarts ==
  /\ rec' = TRUE /\ hrec' = TRUE
  /\ acts' = Append(acts, "start")
  /\ UNCHANGED <<armed, upset>>

KeyEnds(o) ==
  /\ rec' = FALSE /\ hrec' = FALSE /\ armed' = None
  /\ acts' = Append(acts, o)
  /\ upset' = IF hrec /\ MouseStarts THEN upset \cup {"erased"} ELSE upset

KeyOnly == UNCHANGED <<rec, hrec, armed, acts, upset>>

Gesture == gestures < MaxGestures /\ gestures' = gestures + 1 /\ UNCHANGED events
Event   == events < MaxEvents /\ events' = events + 1 /\ UNCHANGED gestures
NoInput == UNCHANGED <<gestures, events>>

(* What a handler of a press or a release leaves alone.                    *)
KeyFrame == UNCHANGED <<style, mode, mheld, queue, urgent, loop, appVars, run>>

(* A key the listener has noted as pressed is a repeat, not a press.       *)
Down == [key EXCEPT !.pressed = TRUE, !.held = TRUE]
Up   == [key EXCEPT !.pressed = FALSE, !.held = FALSE]

Press ==
  /\ Gesture
  /\ ~key.pressed
  /\ KeyFrame

KeyDownDisabled ==
  /\ Press /\ ActiveMode = "disabled"
  /\ key' = Down /\ KeyOnly

(* A key whose release nobody noted is taken for a repeat and ignored; its *)
(* next release is noted again.                                            *)
PressIgnored ==
  /\ Gesture
  /\ key.pressed /\ ~key.held
  /\ key' = [key EXCEPT !.held = TRUE] /\ KeyOnly
  /\ KeyFrame

(* Ctrl+Win, the other presets, and a custom shortcut of type hold or      *)
(* toggle: start, or end a recording if the mode or the type is a toggle.  *)
(* Ctrl+Win is not noted as triggered when it has no effect.               *)
ChordDown ==
  LET ends    == ActiveMode \in Toggles \/ style = "toggle"
      answers == ~key.trig \/ (style = "ctrl_win" /\ ~rec)
  IN
  /\ Press /\ ActiveMode # "disabled" /\ style \in Chords
  /\ key' = [Down EXCEPT !.trig = @ \/ style # "ctrl_win" \/ ~rec \/ ends]
  /\ \/ answers /\ ~rec /\ KeyStarts
     \/ answers /\ rec /\ ends /\ KeyEnds("finish")
     \/ ~(answers /\ (rec => ends)) /\ KeyOnly

(* A custom shortcut tapped twice: the second tap starts, any tap ends.    *)
DoubleDown ==
  /\ Press /\ ActiveMode # "disabled" /\ style = "double"
  /\ \/ rec /\ key' = [Down EXCEPT !.trig = FALSE] /\ KeyEnds("finish")
     \/ ~rec /\ key.tap /\ ~key.trig /\ key' = [Down EXCEPT !.trig = TRUE] /\ KeyStarts
     \/ ~rec /\ key' = [Down EXCEPT !.trig = TRUE] /\ KeyOnly

(* Ctrl alone: a second tap starts, holding it lets the timer start, and   *)
(* any press ends a recording.                                             *)
SoloDown ==
  /\ Press /\ ActiveMode # "disabled" /\ style \in Solo
  /\ \/ /\ rec /\ KeyEnds("finish")
        /\ key' = [Down EXCEPT !.chord = FALSE, !.off = TRUE, !.hold = FALSE, !.timer = FALSE]
     \/ /\ ~rec /\ key.tap /\ KeyStarts
        /\ key' = [Down EXCEPT !.chord = FALSE, !.off = FALSE, !.hold = FALSE]
     \/ /\ ~rec /\ KeyOnly
        /\ key' = [Down EXCEPT !.chord = FALSE, !.off = FALSE, !.timer = style = "single_ctrl"]

(* Ctrl with another key (Ctrl+C) is neither a tap nor a hold.             *)
OtherKey ==
  /\ Event
  /\ style \in Solo /\ key.held /\ ActiveMode # "disabled"
  /\ key' = [key EXCEPT !.chord = TRUE, !.timer = FALSE, !.hold = FALSE, !.tap = FALSE]
  /\ KeyOnly /\ KeyFrame

HoldTimer ==
  /\ key.timer /\ ~key.chord
  /\ key' = [key EXCEPT !.timer = FALSE, !.hold = ~rec \/ @]
  /\ IF rec THEN KeyOnly ELSE KeyStarts
  /\ KeyFrame /\ NoInput

(* Which releases of a chord end the recording.                            *)
EndsOnRelease(long) ==
  \/ style = "hold"
  \/ /\ style \in {"ctrl_win", "preset"}
     /\ ActiveMode = "ptt_only" \/ (ActiveMode = "hybrid" /\ long)

ChordUp(long) ==
  /\ key.held /\ style \notin Solo
  /\ key' = [Up EXCEPT !.trig = FALSE,
                       !.tap = @ \/ (key.trig /\ style \notin {"ctrl_win", "preset"})]
  /\ IF key.trig /\ rec /\ EndsOnRelease(long) THEN KeyEnds("finish") ELSE KeyOnly
  /\ KeyFrame /\ NoInput

SoloUp ==
  /\ key.held /\ style \in Solo
  /\ \/ /\ key.off \/ key.chord
        /\ key' = [Up EXCEPT !.timer = FALSE, !.hold = FALSE, !.tap = FALSE, !.off = FALSE,
                             !.chord = key.off /\ @]
        /\ KeyOnly
     \/ /\ ~key.off /\ ~key.chord
        /\ IF key.hold /\ rec THEN KeyEnds("finish")
           ELSE IF key.timer /\ ~rec /\ style = "single_ctrl" THEN KeyStarts
           ELSE KeyOnly
        /\ key' = [Up EXCEPT !.timer = FALSE, !.tap = TRUE, !.hold = @ /\ acts' = acts]
  /\ KeyFrame /\ NoInput

(* The hook was dead, or slow, when the key went up: nobody noted it.      *)
KeyUpLost ==
  /\ key.held
  /\ key' = [key EXCEPT !.held = FALSE]
  /\ upset' = upset \cup {"lost"}
  /\ UNCHANGED <<rec, hrec, armed, acts>>
  /\ UNCHANGED <<style, mode, mheld, queue, urgent, loop, appVars, run, gestures, events>>

Escape ==
  /\ Event
  /\ rec \/ key.trig \/ key.hold
  /\ key' = [key EXCEPT !.trig = FALSE, !.hold = FALSE, !.chord = FALSE]
  /\ KeyEnds("cancel") /\ KeyFrame

(* reload_config: a recording keeps the mode it was started in (armed).    *)
Reload(m) ==
  /\ Event
  /\ m # mode /\ mode' = m
  /\ IF rec
     THEN armed' = (IF armed = None THEN mode ELSE armed) /\ UNCHANGED key
     ELSE armed' = None /\ key' = [NoKeys EXCEPT !.held = key.held]
  /\ upset' = IF \/ rec \/ key.held \/ mheld \/ app # "IDLE"
                 \/ acts # <<>> \/ queue # <<>> \/ urgent # None
                 \/ \E c \in Callers : run[c] # Idle
              THEN upset \cup {"reconfigured"} ELSE upset
  /\ UNCHANGED <<style, rec, acts, mouseVars, appVars, run>>

-------------------------------------------------------------------------------
(* The mouse hook: its callback may not wait for a lock or start a thread. *)

(* Faulty: an end that finds the queue full is refused like a start.       *)
FaultyDispatch(o, flag) ==
  IF Len(queue) < QueueSize
  THEN queue' = Append(queue, o) /\ hrec' = flag /\ UNCHANGED urgent
  ELSE hrec' = FALSE /\ UNCHANGED <<queue, urgent>>

(* Faulty: one more than the queue holds.                                  *)
FaultyDispatchOne(o, flag) ==
  /\ Len(queue) <= QueueSize
  /\ queue' = Append(queue, o) /\ hrec' = flag /\ UNCHANGED urgent

(* _dispatch_action: a full queue refuses a start or a click; an end       *)
(* empties it and takes the urgent slot.                                   *)
Dispatch(o, flag) ==
  \/ /\ Len(queue) < QueueSize
     /\ queue' = Append(queue, o) /\ hrec' = flag /\ UNCHANGED urgent
  \/ /\ Len(queue) = QueueSize /\ o = "finish"
     /\ queue' = <<>> /\ urgent' = o /\ hrec' = flag
  \/ /\ Len(queue) = QueueSize /\ o # "finish"
     /\ hrec' = (flag /\ o # "start") /\ UNCHANGED <<queue, urgent>>

MouseOnly == UNCHANGED <<hrec, queue, urgent>>
MouseFrame == UNCHANGED <<keyVars, loop, appVars, run, upset>>

(* A press within 260 ms of the last transition is contact chatter; the    *)
(* second press of a double click does not end a recording.                *)
MouseDown ==
  /\ Gesture
  /\ ~mheld /\ mheld' = TRUE
  /\ \/ mode # "disabled" /\ ~hrec /\ Dispatch("start", TRUE)
     \/ mode \in Toggles /\ hrec /\ Dispatch("finish", FALSE)
     \/ MouseOnly
  /\ MouseFrame

MouseUp(long) ==
  /\ mheld /\ mheld' = FALSE
  /\ IF hrec /\ (mode = "ptt_only" \/ (mode = "hybrid" /\ long))
     THEN Dispatch("finish", FALSE) ELSE MouseOnly
  /\ MouseFrame /\ NoInput

(* The left button shares the queue (it clears the selection's widget).    *)
LeftClick ==
  /\ Event
  /\ Dispatch("click", hrec)
  /\ MouseFrame /\ UNCHANGED mheld

Runs(c, o) == run' = [run EXCEPT ![c] = [Idle EXCEPT !.op = o, !.at = "wait"]]
WorkerFrame == UNCHANGED <<keyVars, hrec, mheld, appVars, gestures, events, upset>>

(* Faulty: the worker only looks at the queue.                             *)
FaultyWorkerLooks ==
  /\ run["mouse"] = Idle /\ loop = "top" /\ loop' = "get"
  /\ UNCHANGED <<run, urgent, queue>> /\ WorkerFrame

(* _run_queue: the urgent slot first, then the queue, for 0.2 seconds.     *)
WorkerLooks ==
  /\ run["mouse"] = Idle /\ loop = "top"
  /\ \/ /\ urgent # None /\ urgent' = None
        /\ Runs("mouse", urgent) /\ UNCHANGED loop
     \/ /\ urgent = None /\ loop' = "get"
        /\ UNCHANGED <<run, urgent>>
  /\ UNCHANGED queue /\ WorkerFrame

WorkerGets ==
  /\ run["mouse"] = Idle /\ loop = "get" /\ loop' = "top"
  /\ \/ /\ queue # <<>> /\ queue' = Tail(queue)
        /\ IF Head(queue) = "click" THEN UNCHANGED run ELSE Runs("mouse", Head(queue))
     \/ /\ queue = <<>> /\ urgent # None
        /\ UNCHANGED <<queue, run>>
  /\ UNCHANGED urgent /\ WorkerFrame

-------------------------------------------------------------------------------
(* The listener's threads take _action_lock in any order.                  *)
ThreadRuns(i) ==
  /\ run["key"] = Idle
  /\ acts' = RemoveAt(acts, i)
  /\ Runs("key", acts[i])
  /\ upset' = IF i = 1 THEN upset ELSE upset \cup {"overtaken"}
  /\ UNCHANGED <<style, mode, rec, armed, key, mouseVars, appVars, gestures, events>>

(* The bar's buttons and the API start, finish and cancel; so does the     *)
(* recording limit.                                                        *)
BarCalls(o) ==
  /\ Gesture
  /\ run["bar"] = Idle
  /\ Runs("bar", o)
  /\ upset' = upset \cup {"bar"}
  /\ UNCHANGED <<keyVars, mouseVars, appVars>>

-------------------------------------------------------------------------------
(* The handlers of main.py, under _capture_transition_lock.                *)
At(c, place) == run[c].at = place
Go(c, place) == run' = [run EXCEPT ![c].at = place]
Clears(c, next, answer) ==
  run' = [run EXCEPT ![c].at = "off", ![c].then = next, ![c].ok = answer]

(* A handler returns: the caller clears its own flags (_safe_on_start,     *)
(* _safe_on_finish, _safe_on_cancel), unless a start was accepted.         *)
Returns(c, answer) ==
  /\ cap' = None
  /\ IF c = "bar" \/ (run[c].op = "start" /\ answer)
     THEN run' = [run EXCEPT ![c] = Idle]
     ELSE Go(c, IF c = "key" /\ run[c].op = "start" THEN "clear" ELSE "after")

HandlerFrame ==
  UNCHANGED <<style, mode, acts, mheld, queue, urgent, loop, others, gestures, events>>
Flags == <<rec, armed, key, hrec, upset>>

Enter(c, o) ==
  /\ run[c].op = o
  /\ (At(c, "wait") /\ cap = None) \/ At(c, "begin")

(* A start is refused while a dictation is under way, or when the feature  *)
(* is off; one that has been processing for 15 seconds is cancelled.       *)
BeginStart(c) ==
  /\ Enter(c, "start") /\ cap' = c
  /\ \/ /\ app = "IDLE" /\ app' = "RECORDING" /\ Go(c, "on")
        /\ pipe' = FALSE /\ taken' = "no"
     \/ /\ app = "PROCESSING" /\ app' = "IDLE" /\ Clears(c, "begin", FALSE)
        /\ pipe' = FALSE /\ UNCHANGED taken
     \/ Clears(c, "return", FALSE) /\ UNCHANGED <<app, pipe, taken>>
  /\ UNCHANGED <<Flags, tail>> /\ HandlerFrame

(* Faulty: only the listener is told that a recording began.               *)
FaultyTurnOn(c) ==
  /\ At(c, "on") /\ Go(c, "onListener")
  /\ UNCHANGED <<Flags, appVars>> /\ HandlerFrame

TurnOn(c) ==
  /\ At(c, "on") /\ Go(c, "onListener")
  /\ hrec' = TRUE
  /\ UNCHANGED <<rec, armed, key, upset, appVars>> /\ HandlerFrame

TurnOnListener(c) ==
  /\ At(c, "onListener") /\ Go(c, "open")
  /\ rec' = TRUE
  /\ UNCHANGED <<hrec, armed, key, upset, appVars>> /\ HandlerFrame

(* The microphone opens, unless it fails.  A start that finds its state    *)
(* taken returns at once and leaves the flags to its caller; one that      *)
(* fails resets its own session, if that is still the current one.         *)
OpenMic(c) ==
  /\ At(c, "open")
  /\ \/ app = "RECORDING" /\ Returns(c, TRUE) /\ UNCHANGED app
     \/ app # "RECORDING" /\ Returns(c, FALSE) /\ UNCHANGED app
     \/ taken # "retry" /\ app' = "IDLE" /\ Clears(c, "return", FALSE) /\ UNCHANGED cap
  /\ UNCHANGED <<Flags, pipe, tail, taken>> /\ HandlerFrame

BeginFinish(c) ==
  /\ Enter(c, "finish")
  /\ \/ app # "RECORDING" /\ Returns(c, FALSE) /\ UNCHANGED app
     \/ app = "RECORDING" /\ app' = "PROCESSING" /\ cap' = c /\ Clears(c, "outcome", FALSE)
  /\ UNCHANGED <<Flags, pipe, tail, taken>> /\ HandlerFrame

(* Enough audio starts the pipeline (pipe: one that still has its session  *)
(* to reset); too little ends the dictation.                               *)
FinishOutcome(c) ==
  /\ At(c, "outcome")
  /\ \/ pipe' = (taken # "retry") /\ Returns(c, TRUE) /\ UNCHANGED app
     \/ taken = "retry" /\ Returns(c, FALSE) /\ UNCHANGED <<app, pipe>>
     \/ /\ taken # "retry" /\ app' = "IDLE" /\ Clears(c, "return", FALSE)
        /\ UNCHANGED <<pipe, cap>>
  /\ UNCHANGED <<Flags, tail, taken>> /\ HandlerFrame

(* Too late once the pipeline has committed its delivery.                  *)
BeginCancel(c) ==
  /\ Enter(c, "cancel")
  /\ \/ app # "RECORDING" /\ Returns(c, FALSE) /\ UNCHANGED <<app, pipe>>
     \/ app # "IDLE" /\ app' = "IDLE" /\ pipe' = FALSE /\ cap' = c /\ Clears(c, "return", TRUE)
  /\ UNCHANGED <<Flags, tail, taken>> /\ HandlerFrame

(* set_recording_state(False), from a handler, from the end of a pipeline, *)
(* or from the thread that called a handler.  history: it hits a gesture   *)
(* or a recording that is newer than what it ends.                         *)
NotesErasure ==
  upset' = IF /\ <<rec', hrec', key'>> # <<rec, hrec, key>>
              /\ \/ app = "RECORDING"
                 \/ \E i \in DOMAIN acts : acts[i] = "start"
                 \/ \E i \in DOMAIN queue : queue[i] = "start"
                 \/ \E d \in Callers : Opening(d)
           THEN upset \cup {"erased"} ELSE upset

HookOff == hrec' = FALSE /\ UNCHANGED <<rec, armed, key>> /\ NotesErasure
ListenerOff ==
  /\ rec' = FALSE
  /\ key' = [NoKeys EXCEPT !.pressed = key.pressed, !.held = key.held, !.tap = key.tap]
  /\ UNCHANGED <<hrec, armed>>
  /\ NotesErasure

TurnOff(c) ==
  /\ At(c, "off") /\ Go(c, "offListener")
  /\ HookOff
  /\ UNCHANGED appVars /\ HandlerFrame

TurnOffListener(c) ==
  /\ At(c, "offListener")
  /\ IF run[c].then = "return" THEN Returns(c, run[c].ok)
     ELSE /\ run' = [run EXCEPT ![c].at = run[c].then, ![c].then = "return"]
          /\ UNCHANGED cap
  /\ ListenerOff
  /\ UNCHANGED <<app, pipe, tail, taken>> /\ HandlerFrame

ClearListener ==
  /\ At("key", "clear") /\ Go("key", "after")
  /\ rec' = FALSE /\ armed' = None
  /\ key' = [key EXCEPT !.trig = @ /\ style # "ctrl_win"]
  /\ UNCHANGED <<hrec, appVars>> /\ HandlerFrame
  /\ NotesErasure

ClearHook(c) ==
  /\ At(c, "after") /\ run' = [run EXCEPT ![c] = Idle]
  /\ HookOff
  /\ UNCHANGED appVars /\ HandlerFrame

(* _reset_to_idle: the state under its lock, the flags after it.           *)
PipelineEnds ==
  /\ pipe /\ tail["pipeline"] = "no"
  /\ app' = "IDLE" /\ pipe' = FALSE /\ tail' = [tail EXCEPT !["pipeline"] = "hook"]
  /\ UNCHANGED <<Flags, cap, run, taken>> /\ HandlerFrame

TailOff(e) ==
  /\ \/ tail[e] = "hook" /\ tail' = [tail EXCEPT ![e] = "listener"] /\ HookOff
     \/ tail[e] = "listener" /\ tail' = [tail EXCEPT ![e] = "no"] /\ ListenerOff
  /\ UNCHANGED <<app, pipe, cap, run, taken>> /\ HandlerFrame

-------------------------------------------------------------------------------
(* Who else writes the state.  A start that cancels a stale dictation does *)
(* so under the state's lock and keeps the lock until it records.          *)
StateFree == \A c \in Callers : run[c].at # "begin" /\ run[c].then # "begin"

OthersFrame ==
  UNCHANGED <<style, mode, acts, mheld, queue, urgent, loop, Flags, cap, run>>

(* history: a handler or a recording has the state that is taken.          *)
Live == app = "RECORDING" \/ \E c \in Callers : "outcome" \in {run[c].at, run[c].then}

(* retry_history takes an idle application; its worker ends in a           *)
(* _reset_to_idle that looks at no session.                                *)
RetryBegins ==
  /\ Event /\ StateFree
  /\ app = "IDLE" /\ "retry" \notin others
  /\ app' = "PROCESSING" /\ others' = others \cup {"retry"}
  /\ UNCHANGED <<pipe, tail, taken>> /\ OthersFrame

RetryEnds ==
  /\ NoInput /\ StateFree
  /\ "retry" \in others /\ tail["retry"] = "no"
  /\ app' = "IDLE" /\ pipe' = FALSE /\ tail' = [tail EXCEPT !["retry"] = "hook"]
  /\ others' = others \ {"retry"}
  /\ taken' = IF Live \/ taken # "no" THEN "retry" ELSE "no"
  /\ OthersFrame

(* The endpoint looks whether a dictation is under way, with no lock, and  *)
(* then calls reset_state_and_refresh, which leaves the session and both   *)
(* flags as they are.                                                      *)
ResetAsks ==
  /\ Event
  /\ app = "IDLE" /\ "reset" \notin others
  /\ others' = others \cup {"reset"}
  /\ UNCHANGED <<app, pipe, tail, taken>> /\ OthersFrame

ResetState ==
  /\ NoInput /\ StateFree
  /\ "reset" \in others
  /\ app' = "IDLE" /\ others' = others \ {"reset"}
  /\ taken' = IF Live THEN "reset" ELSE taken
  /\ UNCHANGED <<pipe, tail>> /\ OthersFrame

-------------------------------------------------------------------------------
Keyboard ==
  \/ KeyDownDisabled \/ PressIgnored \/ ChordDown \/ DoubleDown \/ SoloDown \/ OtherKey \/ HoldTimer
  \/ (\E long \in BOOLEAN : ChordUp(long)) \/ SoloUp \/ KeyUpLost \/ Escape

Mouse == MouseDown \/ (\E long \in BOOLEAN : MouseUp(long)) \/ LeftClick

Handler(c) ==
  \/ BeginStart(c) \/ TurnOn(c) \/ TurnOnListener(c) \/ OpenMic(c)
  \/ BeginFinish(c) \/ FinishOutcome(c) \/ BeginCancel(c)
  \/ TurnOff(c) \/ TurnOffListener(c) \/ ClearHook(c)

Next ==
  \/ Keyboard \/ Mouse
  \/ \E m \in Modes : Reload(m)
  \/ WorkerLooks \/ WorkerGets
  \/ \E i \in DOMAIN acts : ThreadRuns(i)
  \/ \E o \in Ops : BarCalls(o)
  \/ \E c \in Callers : Handler(c)
  \/ ClearListener \/ PipelineEnds \/ \E e \in Enders : TailOff(e)
  \/ RetryBegins \/ RetryEnds \/ ResetAsks \/ ResetState

(* Nobody has to press anything.  Threads that were started run, the       *)
(* worker is a thread the scheduler runs, and a handler that was entered   *)
(* returns: opening and stopping the microphone have timeouts.             *)
Fairness ==
  /\ WF_vars((\E i \in DOMAIN acts : ThreadRuns(i)) \/ ClearListener \/ Handler("key"))
  /\ WF_vars(WorkerLooks \/ WorkerGets \/ Handler("mouse"))
  /\ WF_vars(Handler("bar"))

SafeSpec == Init /\ [][Next]_vars
Spec     == SafeSpec /\ Fairness

-------------------------------------------------------------------------------
Quiet ==
  /\ acts = <<>> /\ queue = <<>> /\ urgent = None
  /\ \A e \in Enders : tail[e] = "no"
  /\ \A c \in Callers : run[c] = Idle

(* Once nobody is at work, what the two hooks believe is what the          *)
(* application does.  Neither side claims a recording that is not there    *)
(* (the next press would end nothing, and the words would be lost), unless *)
(* a retry or a reset took the state from the last dictation.  A recording *)
(* they do not know of, which no gesture could end, exists only if a late  *)
(* set_recording_state(False) hit it.                                      *)
FlagsAgree ==
  Quiet =>
    /\ rec \/ hrec => app = "RECORDING" \/ taken # "no"
    /\ app = "RECORDING" /\ "erased" \notin upset => rec /\ hrec

(* "Reset dictation/audio state, cancel any in-flight/stuck recordings"    *)
(* (reset_state_and_refresh).  The code does not keep this: the flags stay *)
(* up, and the next press is taken for the end of the recording.           *)
ResetLeavesNoFlag == Quiet /\ app = "IDLE" /\ taken = "reset" => ~rec /\ ~hrec

(* Push to talk records only while something is held: when all is quiet    *)
(* and nothing is held, no recording is left, unless its flags were        *)
(* erased, its threads overtook each other, the release was lost, the mode *)
(* was changed under it, or the bar took part.                             *)
ReleaseEndsIt ==
  Quiet /\ mode = "ptt_only" /\ style \in {"ctrl_win", "preset", "hold"}
    /\ ~key.held /\ ~mheld /\ upset = {} => app # "RECORDING"

(* Every gesture a hook has accepted is answered: its handler runs, in     *)
(* particular the end that found the queue full, nobody waits for ever for *)
(* a lock, and all come to rest.                                           *)
EveryGestureIsAnswered ==
  /\ acts # <<>> ~> acts = <<>> /\ run["key"] = Idle
  /\ queue # <<>> \/ urgent # None ~> queue = <<>> /\ urgent = None /\ run["mouse"] = Idle

(* "A prior mouse callback must not erase a newer queued gesture"          *)
(* (set_recording_state), "Reset one session without clobbering a newer    *)
(* dictation" (_reset_to_idle).  The code does not keep this: the function *)
(* the comment relies on, _set_recording_state_if_current, does not exist, *)
(* and both write the flags without a look at whose they are.              *)
NewerGestureSurvives == "erased" \notin upset
===============================================================================
