------------------------------- MODULE NativeAsr -------------------------------
(***************************************************************************)
(* nemotron_worker_client.py, the calls to the process that owns the       *)
(* native speech engine, with nemotron_native_worker.py, that process, and *)
(* the callers in nemotron_engine.py: live streams, decoders of whole      *)
(* recordings, and whoever closes the engine.                              *)
(*                                                                         *)
(* One engine with one client is modelled; after it is closed or poisoned  *)
(* the program makes another.  A caller waits for its reply in slices of   *)
(* 20 ms and may leave at any of them: its deadline passes, its stream is  *)
(* cancelled, or the worker is dead or too long at work.  So a wait has no *)
(* state of its own: it ends by one of the steps of Leave.                 *)
(***************************************************************************)
EXTENDS Integers, Sequences, SequencesExt, FiniteSets

CONSTANTS
  Streams,  \* live streams
  Decoders, \* decoders of whole recordings
  Evictor,  \* who closes the engine
  Nobody,   \* none of them
  MaxAudio, \* audio the queue takes, in requests (64 MiB in the program)
  MaxFeeds  \* pushes and drains of a stream (bounds the model only)

ASSUME NativeAsrAssumption ==
  /\ Evictor \notin Streams \cup Decoders /\ Nobody \notin Streams \cup Decoders \cup {Evictor}
  /\ Streams \cap Decoders = {} /\ MaxAudio \in Nat \ {0} /\ MaxFeeds \in Nat

Callers == Streams \cup Decoders \cup {Evictor}

(* A request: who made it, and its operation.  stream_push_next,           *)
(* stream_finish and stream_next are all "feed".                           *)
Ops     == {"open", "feed", "close", "recognize", "shutdown"}
Keys    == Callers \X Ops
NoKey   == <<Nobody, "none">>
Audio   == {"feed", "recognize"}
Cleanup == {"close", "shutdown"} \* _ALWAYS_RUN_OPS

VARIABLES
  queue,   \* _requests
  bytes,   \* _audio_bytes
  cur,     \* the request the RPC thread has taken
  phase,   \* where the RPC thread is
  reply,   \* what a request's box holds
  gone,    \* requests whose caller has left
  late,    \* requests that outlived their hard timeout
  error,   \* the client is poisoned
  closed,  \* _closed
  worker,  \* the worker process
  open,    \* the streams it has open
  pc,      \* where each caller is
  handle,  \* the streams that know their native handle
  fed,     \* feeds of each stream (bounds the model only)
  lock,    \* who holds the engine's lock
  active,  \* the streams that use the engine (_active_streams)
  evict,   \* _evict_when_idle
  native,  \* the engine has its client
  fatal,   \* fatal_error
  missed   \* streams whose opener left after the RPC thread had looked (history)

clientVars == <<queue, bytes, cur, phase, reply, gone, late, error, closed>>
workerVars == <<worker, open>>
engineVars == <<lock, active, evict, native, fatal>>
vars == <<clientVars, workerVars, pc, handle, fed, engineVars, missed>>

Done(k) == reply[k] # "none" /\ cur # k

(* Every variable has its type; the RPC thread has a request while it is   *)
(* at work, and only then.                                                 *)
TypeOK ==
  /\ ToSet(queue) \subseteq Keys /\ IsInjective(queue) /\ bytes \in 0..MaxAudio
  /\ cur \in Keys \cup {NoKey} /\ (cur = NoKey <=> phase \in {"idle", "exit"})
  /\ phase \in {"idle", "sent", "check", "orphan", "signal", "exit"}
  /\ reply \in [Keys -> {"none", "ok", "refused", "error"}]
  /\ gone \subseteq Keys /\ late \subseteq Keys
  /\ error \in BOOLEAN /\ closed \in BOOLEAN /\ (error => closed)
  /\ worker \in {"idle", "busy", "hung", "dead"} /\ open \subseteq Streams
  /\ pc \in [Callers -> {"idle", "lock", "open", "ready", "feed", "closing", "close",
                         "recognize", "release", "evict", "shutdown", "done"}]
  /\ handle \subseteq Streams /\ fed \in [Streams -> 0..MaxFeeds]
  /\ lock \in Callers \cup {Nobody} /\ active \subseteq Streams
  /\ evict \in BOOLEAN /\ native \in BOOLEAN /\ fatal \in BOOLEAN /\ missed \subseteq Streams

Init ==
  /\ queue = <<>> /\ bytes = 0 /\ cur = NoKey /\ phase = "idle"
  /\ reply = [k \in Keys |-> "none"] /\ gone = {} /\ late = {}
  /\ error = FALSE /\ closed = FALSE /\ worker = "idle" /\ open = {}
  /\ pc = [c \in Callers |-> "idle"] /\ handle = {} /\ fed = [s \in Streams |-> 0]
  /\ lock = Nobody /\ active = {} /\ evict = FALSE /\ native = TRUE /\ fatal = FALSE
  /\ missed = {}

-------------------------------------------------------------------------------
(* The RPC thread (_serve).                                                *)

Weight(k) == IF k[2] \in Audio THEN 1 ELSE 0

(* A request is over: its audio is given back, and a caller that waits     *)
(* finds the reply.                                                        *)
Settle(k, value) ==
  /\ bytes' = bytes - Weight(k)
  /\ reply' = [reply EXCEPT ![k] = IF k \in gone THEN "none" ELSE value]
  /\ gone' = gone \ {k}
  /\ late' = IF k \in gone THEN late \ {k} ELSE late

(* Work nobody waits for is not done, cleanup is.                          *)
Skips(k) == k \in gone /\ k[2] \notin Cleanup

(* The next request is sent to the worker, or skipped.                     *)
Take ==
  /\ phase = "idle" /\ ~closed /\ queue # <<>>
  /\ LET k == Head(queue) IN
     IF Skips(k)
     THEN Settle(k, "none") /\ UNCHANGED <<cur, phase, worker>>
     ELSE cur' = k /\ phase' = "sent" /\ worker' = (IF worker = "dead" THEN "dead" ELSE "busy")
          /\ UNCHANGED <<bytes, reply, gone, late>>
  /\ queue' = Tail(queue)
  /\ UNCHANGED <<error, closed, open, pc, handle, fed, engineVars, missed>>

(* What the worker does with a request (dispatch): a recognizer with an    *)
(* open stream is busy, and native calls may fail.                         *)
Dispatch(k, value) ==
  CASE k[2] = "open" ->
         \/ value = "ok" /\ open = {} /\ open' = {k[1]}
         \/ value = "refused" /\ open' = open
    [] k[2] = "recognize" ->
         /\ value = "ok" => open = {}
         /\ open' = open
    [] k[2] = "feed"     -> open' = open
    [] k[2] = "close"    -> value = "ok" /\ open' = open \ {k[1]}
    [] k[2] = "shutdown" -> value = "ok" /\ open' = {}

(* The worker answers; after a shutdown it exits.                          *)
Answers ==
  /\ phase = "sent" /\ worker = "busy"
  /\ \E value \in {"ok", "refused"} :
       /\ Dispatch(cur, value)
       /\ reply' = [reply EXCEPT ![cur] = value]
  /\ worker' = IF cur[2] = "shutdown" THEN "dead" ELSE "idle"
  /\ phase' = IF cur[2] = "open" THEN "check" ELSE "signal"
  /\ UNCHANGED <<queue, bytes, cur, gone, late, error, closed, pc, handle, fed, engineVars, missed>>

(* A stream that was opened for a caller that has left.                    *)
IsOrphan(k) == k \in gone /\ reply[k] = "ok"

(* Such a stream is to be closed.                                          *)
LooksForOrphan ==
  /\ phase = "check"
  /\ IF IsOrphan(cur)
     THEN phase' = "orphan" /\ worker' = (IF worker = "dead" THEN "dead" ELSE "busy")
     ELSE phase' = "signal" /\ UNCHANGED worker
  /\ UNCHANGED <<queue, bytes, cur, reply, gone, late, error, closed, open, pc, handle, fed,
                 engineVars, missed>>

OrphanCloses ==
  /\ phase = "orphan" /\ worker = "busy"
  /\ open' = open \ {cur[1]} /\ worker' = "idle" /\ phase' = "signal"
  /\ UNCHANGED <<queue, bytes, cur, reply, gone, late, error, closed, pc, handle, fed,
                 engineVars, missed>>

(* Faulty: the request stays the one in flight.                            *)
FaultySignals ==
  /\ phase = "signal"
  /\ Settle(cur, reply[cur])
  /\ phase' = "idle"
  /\ UNCHANGED <<queue, cur, error, closed, workerVars, pc, handle, fed, engineVars, missed>>

(* done.set(): the caller can see the reply.                               *)
Signals ==
  /\ phase = "signal"
  /\ Settle(cur, reply[cur])
  /\ cur' = NoKey /\ phase' = "idle"
  /\ UNCHANGED <<queue, error, closed, workerVars, pc, handle, fed, engineVars, missed>>

(* The client gives up its worker (_poison).                               *)
Poison == error' = TRUE /\ closed' = TRUE /\ worker' = "dead" /\ open' = {}

(* The pipe of a dead worker breaks.                                       *)
PipeBreaks ==
  /\ phase \in {"sent", "orphan"} /\ worker = "dead"
  /\ Poison /\ Settle(cur, "error")
  /\ cur' = NoKey /\ phase' = "idle"
  /\ UNCHANGED <<queue, pc, handle, fed, engineVars, missed>>

(* A closed client answers what is still queued with an error.             *)
Drains ==
  /\ phase = "idle" /\ closed
  /\ phase' = "exit" /\ queue' = <<>>
  /\ reply' = [k \in Keys |-> IF k \in ToSet(queue) \ gone THEN "error" ELSE reply[k]]
  /\ bytes' = 0 /\ gone' = gone \ ToSet(queue)
  /\ UNCHANGED <<cur, late, error, closed, workerVars, pc, handle, fed, engineVars, missed>>

(* A native call hangs, crashes, or takes longer than its hard timeout.    *)
WorkerFails ==
  /\ worker = "busy"
  /\ worker' \in {"hung", "dead"}
  /\ open' = IF worker' = "dead" THEN {} ELSE open
  /\ UNCHANGED <<clientVars, pc, handle, fed, engineVars, missed>>

TakesTooLong ==
  /\ worker \in {"busy", "hung"} /\ phase \in {"sent", "orphan"} /\ cur \notin late
  /\ late' = late \cup {cur}
  /\ UNCHANGED <<queue, bytes, cur, phase, reply, gone, error, closed, workerVars, pc, handle, fed,
                 engineVars, missed>>

-------------------------------------------------------------------------------
(* The caller's side of call().                                            *)

(* A request is refused by a dead client ("hard") or for want of room or   *)
(* time ("soft"), or it is queued and its caller waits ("wait").           *)
Submit(c, op, how) ==
  LET k == <<c, op>> IN
  CASE how = "hard" -> closed /\ UNCHANGED clientVars
    [] how = "soft" -> ~closed /\ UNCHANGED clientVars
    [] how = "wait" ->
         /\ ~closed /\ bytes + Weight(k) <= MaxAudio
         /\ queue' = Append(queue, k) /\ bytes' = bytes + Weight(k)
         /\ UNCHANGED <<cur, phase, reply, gone, late, error, closed>>

(* The caller stops waiting; the request stays where it is.                *)
LeaveBehind(k) ==
  /\ gone' = IF Done(k) THEN gone ELSE gone \cup {k}
  /\ reply' = IF Done(k) THEN [reply EXCEPT ![k] = "none"] ELSE reply
  /\ late' = IF Done(k) THEN late \ {k} ELSE late
  /\ UNCHANGED <<queue, bytes, cur, phase>>

(* Faulty: only the caller's own request counts.                           *)
FaultyIsLate(k) == k \in late

(* The caller's request, or the one it waits behind, took too long.        *)
IsLate(k) == late \cap {k, cur} # {}

(* The wait for k ends: with the reply, by the client's error, by a        *)
(* timeout or a death that poisons it, or by the caller's own limit.       *)
Leave(k, how) ==
  \/ /\ Done(k) /\ ~error
     /\ how = [ok |-> "ok", refused |-> "refused", error |-> "hard"][reply[k]]
     /\ LeaveBehind(k) /\ UNCHANGED <<error, closed, workerVars, missed>>
  \/ /\ how = "hard" /\ error
     /\ LeaveBehind(k) /\ UNCHANGED <<error, closed, workerVars, missed>>
  \/ /\ how = "hard" /\ ~error
     /\ IsLate(k) \/ (worker = "dead" /\ ~Done(k))
     /\ LeaveBehind(k) /\ Poison /\ UNCHANGED missed

Abandon(k, how) ==
  /\ how = "soft"
  /\ LeaveBehind(k) /\ UNCHANGED <<error, closed, workerVars>>
  /\ missed' = IF k[2] = "open" /\ reply[k] = "ok" /\ (cur = k => phase = "signal")
               THEN missed \cup {k[1]} ELSE missed

Moves(c, from, to) == pc[c] = from /\ pc' = [pc EXCEPT ![c] = to]

(* A failure of the worker is the engine's failure (_mark_native_failure). *)
Marks(how) == fatal' = (fatal \/ how = "hard")

-------------------------------------------------------------------------------
(* A live stream (NemotronStreamTranscriber._run).                         *)

Usable == native /\ ~fatal

(* Under the engine's lock the stream registers and opens; it leaves again *)
(* when the engine is closed, or its own time is over, before it has it.   *)
(* Until it has the lock it has touched nothing.                           *)
OpenStream(s) ==
  /\ \/ /\ lock = Nobody /\ Usable
        /\ active' = active \cup {s}
        /\ \E how \in {"hard", "soft", "wait"} :
             /\ Submit(s, "open", how) /\ Marks(how)
             /\ Moves(s, "idle", IF how = "wait" THEN "open" ELSE "release")
             /\ lock' = IF how = "wait" THEN s ELSE Nobody
     \/ /\ Moves(s, "idle", "done")
        /\ UNCHANGED <<clientVars, lock, active, fatal>>
  /\ UNCHANGED <<workerVars, handle, fed, evict, native, missed>>

Opened(s, how) ==
  /\ Moves(s, "open", IF how = "ok" THEN "ready" ELSE "release")
  /\ handle' = IF how = "ok" THEN handle \cup {s} ELSE handle
  /\ lock' = Nobody /\ Marks(how)
  /\ UNCHANGED <<fed, active, evict, native>>

Feed(s) ==
  /\ fed[s] < MaxFeeds /\ fed' = [fed EXCEPT ![s] = @ + 1]
  /\ \E how \in {"hard", "soft", "wait"} :
       /\ IF fatal THEN how = "hard" /\ UNCHANGED clientVars ELSE Submit(s, "feed", how)
       /\ Marks(how)
       /\ Moves(s, "ready", IF how = "wait" THEN "feed" ELSE "closing")
  /\ UNCHANGED <<workerVars, handle, lock, active, evict, native, missed>>

Fed(s, how) ==
  /\ \/ how \in {"ok", "refused"} /\ Moves(s, "feed", "ready")
     \/ how # "ok" /\ Moves(s, "feed", "closing")
  /\ Marks(how)
  /\ UNCHANGED <<handle, fed, lock, active, evict, native>>

(* The recording ends, is cancelled or is too late.                        *)
EndStream(s) ==
  /\ Moves(s, "ready", "closing")
  /\ UNCHANGED <<clientVars, workerVars, handle, fed, engineVars, missed>>

(* An open stream is closed unless its worker is lost.                     *)
CloseStream(s) ==
  /\ IF Usable
     THEN \E how \in {"hard", "wait"} :
            /\ Submit(s, "close", how) /\ Marks(how)
            /\ Moves(s, "closing", IF how = "wait" THEN "close" ELSE "release")
     ELSE Moves(s, "closing", "release") /\ UNCHANGED <<clientVars, fatal>>
  /\ UNCHANGED <<workerVars, handle, fed, lock, active, evict, native, missed>>

Closed(s, how) ==
  /\ Moves(s, "close", "release") /\ handle' = handle \ {s} /\ Marks(how)
  /\ UNCHANGED <<fed, lock, active, evict, native>>

(* Faulty: an eviction that waits for the last stream is forgotten.        *)
FaultyRelease(s) ==
  /\ lock = Nobody
  /\ active' = active \ {s}
  /\ Moves(s, "release", "done")
  /\ UNCHANGED <<clientVars, workerVars, handle, fed, lock, evict, native, fatal, missed>>

(* The last stream of an engine that is to go closes it (release_stream).  *)
Release(s) ==
  /\ lock = Nobody
  /\ active' = active \ {s}
  /\ Moves(s, "release", IF evict /\ active = {s} THEN "evict" ELSE "done")
  /\ UNCHANGED <<clientVars, workerVars, handle, fed, lock, evict, native, fatal, missed>>

-------------------------------------------------------------------------------
(* A decoder of a whole recording (transcribe): it waits for the streams,  *)
(* for the lock, and for the worker.  Before it has found the streams idle *)
(* it has touched nothing, so its first wait is part of its first step.    *)

StartDecoder(d) ==
  /\ \/ Usable /\ active = {} /\ Moves(d, "idle", "lock")
     \/ Moves(d, "idle", "done")
  /\ UNCHANGED <<clientVars, workerVars, handle, fed, engineVars, missed>>

(* Another stream may have opened since.                                   *)
Decode(d) ==
  /\ pc[d] = "lock"
  /\ \/ /\ lock = Nobody /\ Usable
        /\ \E how \in {"hard", "soft", "wait"} :
             /\ Submit(d, "recognize", how) /\ Marks(how)
             /\ Moves(d, "lock", IF how = "wait" THEN "recognize" ELSE "done")
             /\ lock' = IF how = "wait" THEN d ELSE Nobody
     \/ Moves(d, "lock", "done") /\ UNCHANGED <<clientVars, lock, fatal>>
  /\ UNCHANGED <<workerVars, handle, fed, active, evict, native, missed>>

Decoded(d, how) ==
  /\ Moves(d, "recognize", "done") /\ lock' = Nobody /\ Marks(how)
  /\ UNCHANGED <<handle, fed, active, evict, native>>

-------------------------------------------------------------------------------
(* The engine is closed: by its replacement or an idle cleanup, or by the  *)
(* last stream.  Streams that use it put that off.                         *)

StartEviction ==
  /\ Moves(Evictor, "idle", "evict")
  /\ UNCHANGED <<clientVars, workerVars, handle, fed, engineVars, missed>>

(* The worker is asked to exit, unless the client is closed already.       *)
CloseEngine(c) ==
  /\ pc[c] = "evict" /\ lock = Nobody
  /\ IF active # {}
     THEN /\ Moves(c, "evict", "done") /\ evict' = TRUE
          /\ UNCHANGED <<clientVars, lock, native>>
     ELSE IF native /\ ~closed
     THEN /\ Submit(c, "shutdown", "wait") /\ Moves(c, "evict", "shutdown")
          /\ lock' = c /\ UNCHANGED <<evict, native>>
     ELSE /\ Moves(c, "evict", "done") /\ native' = FALSE
          /\ UNCHANGED <<clientVars, lock, evict>>
  /\ UNCHANGED <<workerVars, handle, fed, active, fatal, missed>>

(* A worker that is still there when the wait ends is killed.              *)
ShutDown(c) ==
  /\ Moves(c, "shutdown", "done")
  /\ LeaveBehind(<<c, "shutdown">>)
  /\ closed' = TRUE /\ error' = (error \/ worker # "dead")
  /\ worker' = "dead" /\ open' = {}
  /\ lock' = Nobody /\ native' = FALSE
  /\ UNCHANGED <<handle, fed, active, evict, fatal, missed>>

-------------------------------------------------------------------------------
Rpc == \/ Take \/ Answers \/ LooksForOrphan \/ OrphanCloses \/ Signals \/ PipeBreaks \/ Drains

(* What each wait of c leads to; L is how it ends.                         *)
Continues(c, how) ==
  \/ c \in Streams /\ (Opened(c, how) \/ Fed(c, how) \/ Closed(c, how))
  \/ c \in Decoders /\ Decoded(c, how)

Returns(c) == \E how \in {"ok", "refused", "hard"} :
  Leave(<<c, pc[c]>>, how) /\ Continues(c, how)

GivesUp(c) == Abandon(<<c, pc[c]>>, "soft") /\ Continues(c, "soft")

Stream(s)  == \/ (pc[s] = "ready" /\ Feed(s)) \/ EndStream(s)
              \/ (pc[s] = "closing" /\ CloseStream(s)) \/ Release(s)
Closing(c) == CloseEngine(c) \/ ShutDown(c)
Caller(c)  == \/ c \in Streams /\ Stream(c)
              \/ c \in Decoders /\ Decode(c)
              \/ c \notin Decoders /\ Closing(c)
              \/ pc[c] \in Ops \ {"shutdown"} /\ Returns(c)

Next ==
  \/ Rpc \/ WorkerFails \/ TakesTooLong \/ StartEviction
  \/ \E s \in Streams : OpenStream(s)
  \/ \E d \in Decoders : StartDecoder(d)
  \/ \E c \in Callers : Caller(c) \/ (pc[c] \in Ops \ {"shutdown"} /\ GivesUp(c))

(* The threads run, a worker that is not hung answers, and time passes.    *)
(* Nobody has to start, to give up, or to fail.                            *)
Fairness ==
  /\ WF_vars(Rpc) /\ WF_vars(TakesTooLong)
  /\ \A c \in Callers : WF_vars(Caller(c))

SafeSpec == Init /\ [][Next]_vars
Spec     == SafeSpec /\ Fairness

-------------------------------------------------------------------------------
(* The audio that is reserved is the audio of the requests that wait or    *)
(* run, whoever left; else the queue would fill up for good.               *)
AudioIsGivenBack ==
  bytes = Cardinality({k \in ToSet(queue) \cup {cur} : k[2] \in Audio})

(* An engine is not closed under the streams that use it, and a close they *)
(* put off is not forgotten: the last of them does it.                     *)
StreamsPinTheEngine ==
  /\ active # {} => native
  /\ evict /\ native => active # {} \/ \E c \in Callers : pc[c] \in {"evict", "shutdown"}

(* Somebody will close an open stream: its owner, a queued close, or the   *)
(* RPC thread for an owner that left.                                      *)
IsCared(s) ==
  \/ s \in handle
  \/ <<s, "close">> \in ToSet(queue) \cup {cur}
  \/ cur = <<s, "open">> /\ phase \in {"check", "orphan"}
  \/ pc[s] = "open"
  \/ closed \/ worker = "dead"

(* And no request names a stream the worker does not know, which would     *)
(* poison a healthy worker.                                                *)
StreamsAreKept ==
  /\ \A s \in open \ missed : IsCared(s)
  /\ worker = "busy" /\ phase = "sent" /\ cur[2] = "feed" => cur[1] \in open

(* Whatever callers give up: neither the queue's memory, nor the engine,   *)
(* nor a stream of the worker stays taken.                                 *)
NothingIsLeaked == AudioIsGivenBack /\ StreamsPinTheEngine /\ StreamsAreKept

(* The same for every stream: the recognizer is free for the next one.     *)
NoStreamIsLeft == \A s \in open : IsCared(s)

(* Every stream and every decoder ends, and so does who closes the engine, *)
(* however the worker fails.                                               *)
EveryCallerEnds == \A c \in Callers : (pc[c] # "idle") ~> (pc[c] = "done")

===============================================================================
