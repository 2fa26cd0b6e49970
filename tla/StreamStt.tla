------------------------------- MODULE StreamStt -------------------------------
(***************************************************************************)
(* StreamTranscriber, stream_stt.py: chunks of a dictation are transcribed *)
(* by a few workers while the user still speaks, and collected in input    *)
(* order.  Every critical section of the condition is one action; a worker *)
(* takes a task from the queue, and transcribes, outside of it.            *)
(*                                                                         *)
(* A chunk carries what the properties need and the code does not have: a  *)
(* number that is unique in its session (seq starts again whenever         *)
(* everything was collected) and whether it holds audible speech.          *)
(***************************************************************************)
EXTENDS Integers, Sequences, FiniteSets

CONSTANTS
  Workers,    \* the pool, STREAM_WORKER_COUNT threads
  MaxQueue,   \* STREAM_QUEUE_MAX_CHUNKS
  MaxBytes,   \* STREAM_QUEUE_MAX_BYTES, in units of a short chunk
  Sounds,     \* the kinds of chunk the recorder closes: size, speech, overlap
  MaxChunks,  \* chunks of one session (bounds the model only)
  MaxEpochs   \* epoch transitions (bounds the model only)

ASSUME StreamBounds ==
  /\ IsFiniteSet(Workers)
  /\ MaxQueue \in Nat \ {0}
  /\ MaxBytes \in Nat \ {0}
  /\ Sounds \subseteq [size : Nat \ {0}, speech : BOOLEAN, overlap : BOOLEAN]
  /\ MaxChunks \in Nat
  /\ MaxEpochs \in Nat

VARIABLES
  epoch,      \* _epoch
  active,     \* _session_active
  seq,        \* _seq
  accepted,   \* _accepted_count
  started,    \* _started_seq
  nextEmit,   \* _next_emit_seq
  hadFailures,\* _had_failures
  pending,    \* the keys of _pending
  completed,  \* _completed: seq, the chunk and whether there is text
  unstarted,  \* _unstarted_failures
  queue,      \* _queue
  bytes,      \* _queued_bytes_by_epoch
  wpc,        \* where each worker is
  task,       \* the task each worker holds
  out,        \* the chunks of this epoch whose text was collected
  spoken,     \* the chunks of this epoch that hold audible speech
  unsampled   \* those of them that could not be resampled

sessionVars == <<epoch, active, seq, accepted, started, nextEmit, hadFailures, pending, completed, unstarted>>
intakeVars  == <<queue, bytes>>
workerVars  == <<wpc, task>>
ghostVars   == <<out, spoken, unsampled>>
vars        == <<sessionVars, intakeVars, workerVars, ghostVars>>

Epochs == 0..MaxEpochs
Seqs   == 1..MaxChunks
Tasks  == [seq : Seqs, epoch : Epochs, id : Seqs, sound : Sounds]
NoTask == [seq |-> 0]

(* What a worker can come back with: text; none; an exception; or nothing  *)
(* to transcribe because the chunk could not be resampled to 16 kHz.       *)
Results == {"text", "empty", "raised", "unsampled"}

TypeOK ==
  /\ epoch \in Epochs
  /\ active \in BOOLEAN
  /\ seq \in 0..MaxChunks
  /\ accepted \in 0..MaxChunks
  /\ started \in 0..MaxChunks
  /\ nextEmit \in 1..(MaxChunks + 1)
  /\ hadFailures \in BOOLEAN
  /\ pending \subseteq Seqs
  /\ completed \subseteq [seq : Seqs, from : Tasks, text : BOOLEAN]
  /\ unstarted \subseteq Seqs
  /\ queue \in Seq(Tasks)
  /\ Len(queue) <= MaxQueue
  /\ bytes \in [Epochs -> 0..MaxBytes]
  /\ wpc \in [Workers -> {"idle", "popped", "gate", "call"}]
  /\ task \in [Workers -> Tasks \cup {NoTask}]
  /\ out \subseteq Seqs
  /\ spoken \subseteq Seqs
  /\ unsampled \subseteq Seqs

Init ==
  /\ epoch = 0 /\ active = FALSE
  /\ seq = 0 /\ accepted = 0 /\ started = 0 /\ nextEmit = 1
  /\ hadFailures = FALSE
  /\ pending = {} /\ completed = {} /\ unstarted = {}
  /\ queue = <<>>
  /\ bytes = [e \in Epochs |-> 0]
  /\ wpc = [w \in Workers |-> "idle"]
  /\ task = [w \in Workers |-> NoTask]
  /\ out = {} /\ spoken = {} /\ unsampled = {}

-------------------------------------------------------------------------------
(* The session.                                                            *)

(* What start_session and discard both do: drop the queue and everything   *)
(* accounted, and move to a new epoch, which makes running work stale.     *)
NewEpoch ==
  /\ epoch < MaxEpochs
  /\ epoch' = epoch + 1
  /\ seq' = 0 /\ accepted' = 0 /\ started' = 0 /\ nextEmit' = 1
  /\ hadFailures' = FALSE
  /\ pending' = {} /\ completed' = {} /\ unstarted' = {}
  /\ queue' = <<>>
  /\ bytes' = [e \in Epochs |-> 0]
  /\ out' = {} /\ spoken' = {} /\ unsampled' = {}
  /\ UNCHANGED workerVars

StartSession == NewEpoch /\ active' = TRUE

Discard == NewEpoch /\ active' = FALSE

EndSession ==
  /\ active
  /\ active' = FALSE
  /\ UNCHANGED <<epoch, seq, accepted, started, nextEmit, hadFailures, pending, completed, unstarted>>
  /\ UNCHANGED <<intakeVars, workerVars, ghostVars>>

-------------------------------------------------------------------------------
(* Intake.                                                                 *)

(* Faulty: rejected chunks are never skipped.                              *)
FaultySkipped(s, U) == {}

(* _advance_failed_starts_locked: the run of never started chunks that     *)
(* follows s.                                                              *)
Skipped(s, U) == {n \in U : n > s /\ s + 1..n \subseteq U}

Gate(s, U) ==
  /\ started' = s + Cardinality(Skipped(s, U))
  /\ unstarted' = U \ Skipped(s, U)

(* Faulty: only the bytes are limited.                                     *)
FaultyFits(t) == bytes[epoch] + t.sound.size <= MaxBytes

(* The two limits of what may wait in the queue.                           *)
Fits(t) == bytes[epoch] + t.sound.size <= MaxBytes /\ Len(queue) < MaxQueue

(* Faulty: the failure of a rejected chunk is not remembered.              *)
FaultyReject(t) ==
  /\ completed' = completed \cup {[seq |-> t.seq, from |-> t, text |-> FALSE]}
  /\ Gate(started, unstarted \cup {t.seq})
  /\ UNCHANGED <<pending, hadFailures, queue, bytes>>

(* A chunk that does not fit is failed at once,                            *)
(* _mark_unqueued_failure_locked, and its turn at the gate is skipped.     *)
Reject(t) ==
  /\ completed' = completed \cup {[seq |-> t.seq, from |-> t, text |-> FALSE]}
  /\ hadFailures' = TRUE
  /\ Gate(started, unstarted \cup {t.seq})
  /\ UNCHANGED <<pending, queue, bytes>>

Admit(t) ==
  /\ pending' = pending \cup {t.seq}
  /\ queue' = Append(queue, t)
  /\ bytes' = [bytes EXCEPT ![epoch] = @ + t.sound.size]
  /\ UNCHANGED <<completed, hadFailures, started, unstarted>>

(* submit_native, from the audio callback while the session is active, and *)
(* with force for the tail of the recording.                               *)
Submit(force, sound) ==
  LET t == [seq |-> seq + 1, epoch |-> epoch, id |-> accepted + 1, sound |-> sound] IN
  /\ active \/ (force /\ epoch > 0)
  /\ accepted < MaxChunks
  /\ seq' = seq + 1
  /\ accepted' = accepted + 1
  /\ spoken' = IF sound.speech THEN spoken \cup {t.id} ELSE spoken
  /\ IF Fits(t) THEN Admit(t) ELSE Reject(t)
  /\ UNCHANGED <<epoch, active, nextEmit, workerVars, out, unsampled>>

-------------------------------------------------------------------------------
(* The workers.                                                            *)
Get(w) ==
  /\ wpc[w] = "idle"
  /\ queue # <<>>
  /\ task' = [task EXCEPT ![w] = Head(queue)]
  /\ queue' = Tail(queue)
  /\ wpc' = [wpc EXCEPT ![w] = "popped"]
  /\ UNCHANGED <<sessionVars, bytes, ghostVars>>

Rest(w) ==
  /\ wpc' = [wpc EXCEPT ![w] = "idle"]
  /\ task' = [task EXCEPT ![w] = NoTask]

Stale(w) == task[w].epoch # epoch

MyTurn(w) == task[w].seq = started + 1

(* Through the invocation gate, or away from it, or wait in front of it.   *)
AtGate(w) ==
  \/ /\ Stale(w)
     /\ Rest(w)
     /\ UNCHANGED <<started, unstarted>>
  \/ /\ ~Stale(w)
     /\ MyTurn(w)
     /\ Gate(task[w].seq, unstarted)
     /\ wpc' = [wpc EXCEPT ![w] = "call"]
     /\ UNCHANGED task

OthersUnchanged ==
  UNCHANGED <<epoch, active, seq, accepted, nextEmit, hadFailures, pending, completed>>

(* The first critical section: release the bytes reserved for the task.    *)
(* Nothing is reserved for an earlier epoch any more (release of a missing *)
(* key pops nothing).                                                      *)
ReleasedBytes(t) ==
  [bytes EXCEPT ![t.epoch] = IF @ > t.sound.size THEN @ - t.sound.size ELSE 0]

Begin(w) ==
  /\ wpc[w] = "popped"
  /\ bytes' = ReleasedBytes(task[w])
  /\ \/ AtGate(w)
     \/ /\ ~Stale(w)
        /\ ~MyTurn(w)
        /\ wpc' = [wpc EXCEPT ![w] = "gate"]
        /\ UNCHANGED <<started, unstarted, task>>
  /\ OthersUnchanged
  /\ UNCHANGED <<queue, ghostVars>>

PassGate(w) ==
  /\ wpc[w] = "gate"
  /\ AtGate(w)
  /\ OthersUnchanged
  /\ UNCHANGED <<intakeVars, ghostVars>>

(* An empty text is a failure when the call raised, or when the 16 kHz     *)
(* audio is loud enough; audio that could not be resampled has no samples  *)
(* and counts as inaudible.                                                *)
Loses(t, r) == r = "raised" \/ (r = "empty" /\ t.sound.speech)

(* A result of a superseded session.                                       *)
Dropped(w) == Stale(w)

(* Resampling and the transcriber run outside the lock and touch nothing   *)
(* that is shared, so what they come back with is chosen here, in the last *)
(* critical section.                                                       *)
Finish(w) ==
  /\ wpc[w] = "call"
  /\ \/ Dropped(w) /\ UNCHANGED <<pending, completed, hadFailures, unsampled>>
     \/ /\ ~Dropped(w)
        /\ \E r \in Results :
             /\ completed' = completed \cup {[seq |-> task[w].seq, from |-> task[w], text |-> r = "text"]}
             /\ hadFailures' = (hadFailures \/ Loses(task[w], r))
             /\ unsampled' = unsampled \cup {n \in {task[w].id} \cap spoken : r = "unsampled"}
        /\ pending' = pending \ {task[w].seq}
  /\ Rest(w)
  /\ UNCHANGED <<epoch, active, seq, accepted, started, nextEmit, unstarted, intakeVars, out, spoken>>

-------------------------------------------------------------------------------
(* Collection.                                                             *)
Done == {c.seq : c \in completed}

(* Faulty: whatever is complete is handed out.                             *)
FaultyReady == completed

(* The contiguous terminal prefix.                                         *)
Ready == {c \in completed : nextEmit..c.seq \subseteq Done}

(* Faulty: the numbers start again although later chunks are pending.      *)
FaultyQuiet == completed' = {}

Quiet == pending = {} /\ completed' = {}

(* Texts that were cut with an overlap, and the one among them that has no *)
(* text before it in which its overlap could be found.                     *)
Seams == {c \in Ready : c.text /\ c.from.sound.overlap}
Bare  == {c \in Seams : out = {} /\ \A d \in Ready : d.text => d.seq >= c.seq}

(* One turn of collect's loop, _drain_ready_locked: the texts of the ready *)
(* prefix are handed out, and the session is marked failed when an overlap *)
(* is not found in the text before it.                                     *)
Collect ==
  /\ completed # {} \/ (pending = {} /\ seq > 0)
  /\ completed' = completed \ Ready
  /\ out' = out \cup {c.from.id : c \in {d \in Ready : d.text}}
  /\ \E torn \in BOOLEAN :
       /\ torn => Seams # {}
       /\ Bare # {} => torn
       /\ hadFailures' = (hadFailures \/ torn)
  /\ IF Quiet
     THEN seq' = 0 /\ started' = 0 /\ nextEmit' = 1
     ELSE /\ nextEmit' = nextEmit + Cardinality(Ready)
          /\ UNCHANGED <<seq, started>>
  /\ UNCHANGED <<epoch, active, accepted, pending, unstarted, intakeVars, workerVars, spoken, unsampled>>

-------------------------------------------------------------------------------
WorkerStep(w) == Get(w) \/ Begin(w) \/ PassGate(w) \/ Finish(w)

Next ==
  \/ StartSession \/ EndSession \/ Discard
  \/ \E force \in BOOLEAN, sound \in Sounds : Submit(force, sound)
  \/ \E w \in Workers : WorkerStep(w)
  \/ Collect

SafeSpec == Init /\ [][Next]_vars

(* A worker is a thread the scheduler runs, its wait for the gate polls,   *)
(* and the transcriber gives up at the session's deadline.                 *)
Spec == SafeSpec /\ \A w \in Workers : WF_vars(WorkerStep(w))

-------------------------------------------------------------------------------
(* The tasks of the running session a worker holds and has not finished.   *)
InHand == {w \in Workers : wpc[w] # "idle" /\ ~Stale(w)}

(* Every accepted chunk is in one place: emitted, terminal and waiting to  *)
(* be, or pending; and a pending one is in the queue or with one worker,   *)
(* so nothing collect waits for can be missing.                            *)
EveryChunkAccounted ==
  /\ pending \cap Done = {}
  /\ pending \cup Done = nextEmit..seq
  /\ pending = {queue[i].seq : i \in DOMAIN queue} \cup {task[w].seq : w \in InHand}
  /\ Cardinality(pending) = Len(queue) + Cardinality(InHand)

(* Chunks reach the transcriber in the order they were spoken: what waits  *)
(* is above the gate, and what was let through is not.                     *)
GateSplitsTheSession ==
  /\ \A i \in DOMAIN queue : queue[i].seq > started
  /\ \A w \in InHand : IF wpc[w] \in {"popped", "gate"} THEN task[w].seq > started ELSE task[w].seq <= started
  /\ \A n \in unstarted : n > started + 1 /\ n <= seq
  /\ started + 1 \in pending \/ started = seq

(* Nothing of a superseded session is in the buffers of this one.          *)
ResultsAreOfThisSession ==
  /\ \A c \in completed : c.from.epoch = epoch
  /\ \A i \in DOMAIN queue : queue[i].epoch = epoch

(* The tasks bytes are reserved for: those in the queue, and those a worker *)
(* took from it and has not released them for yet.                         *)
Holders == {w \in Workers : wpc[w] = "popped" /\ ~Stale(w)}
Held    == {queue[i] : i \in DOMAIN queue} \cup {task[w] : w \in Holders}

(* The bytes of the tasks of H, summed up along their numbers; no two      *)
(* tasks of a session have the same number.                                *)
Sizes(H) ==
  [n \in Seqs |-> IF \E t \in H : t.seq = n THEN (CHOOSE t \in H : t.seq = n).sound.size ELSE 0]

Sums(f) ==
  LET sum[n \in 0..MaxChunks] == IF n = 0 THEN 0 ELSE sum[n - 1] + f[n]
  IN  sum

Memory(H) == Sums(Sizes(H))[MaxChunks]

(* The byte budget is the memory really queued: reservations are neither   *)
(* leaked by cancellation nor released twice.                              *)
BytesMatchQueue ==
  \A e \in Epochs : bytes[e] = IF e = epoch THEN Memory(Held) ELSE 0

(* Every chunk of the session, and nothing else, is where it should be,    *)
(* with the memory it takes: the four facts together.                      *)
StreamIsConsistent ==
  /\ EveryChunkAccounted
  /\ GateSplitsTheSession
  /\ ResultsAreOfThisSession
  /\ BytesMatchQueue

(* When everything was collected and the session is not marked failed, the *)
(* text is complete: the pipeline may use it instead of decoding the whole *)
(* recording again.  (Chunks that could not be resampled are the exception *)
(* of ResamplingFailureIsNoticed.)                                         *)
Quiescent == pending = {} /\ completed = {}
NoSilentLoss == Quiescent /\ ~hadFailures => spoken \subseteq out \cup unsampled

(* Text leaves in input order, whenever collect is called and whichever    *)
(* worker is faster.                                                       *)
CollectedInOrder == [][epoch' = epoch => \A m \in out' \ out, n \in out : m > n]_vars

(* "An empty result marks the chunk failed so the whole-buffer fallback    *)
(* keeps ownership of these words": the code does not do it, because audio *)
(* without samples is taken for silence.                                   *)
ResamplingFailureIsNoticed == Quiescent /\ ~hadFailures => spoken \subseteq out

(* No chunk waits for ever: the gate opens for each accepted chunk, also   *)
(* after chunks that the full queue rejected, unless the session is over.  *)
EveryChunkEnds == \A n \in Seqs : n \in pending ~> n \notin pending
===============================================================================
