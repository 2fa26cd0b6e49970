----------------------------- MODULE DictationProofs -----------------------------
(***************************************************************************)
(* Proofs about the life of a dictation, for any number of dictations,     *)
(* retries and resets.                                                     *)
(***************************************************************************)
EXTENDS Dictation, TLAPS

StartPlaces  == {"open", "opened", "arm", "stream", "own", "live"}
FinishPlaces == {"release", "stop"}
Drops        == {"dropRecording", "dropProcessing"}

(* The pipeline has work to do: it has not concluded yet.                  *)
Going == {"wait", "transcribe", "rejected", "ended", "transcribed", "empty", "command", "polish", "committed",
          "paste", "record", "raised"}

(* The capture lock is free or held for a session that started.            *)
CapShape ==
  /\ cap.at = "free" <=> cap = Free
  /\ cap.of # None => cap.of <= last
  /\ cap.at \in StartPlaces \cup FinishPlaces \cup {"dropRecording"} => cap.of # None
  /\ session # None => session <= last
  /\ left + retrying + resetting <= MaxTakeovers

TypeInv == TypeOK /\ CapShape

(* No outcome yet: neither a pipeline nor a cancellation got to it.        *)
Young(s) ==
  /\ pipe[s] = "none" /\ delivery # s /\ history[s] = {}
  /\ s \notin cancelled /\ s \notin recovery /\ s \notin claimed /\ s \notin pasted

(* A recording, a start and a finish are about the latest dictation, which *)
(* is young; there is one pipeline at work.                                *)
ControlInv ==
  /\ state = "RECORDING" =>
       /\ session = last /\ session \in Sessions /\ Young(session)
       /\ cap.at \in {"free"} \cup StartPlaces
  /\ cap.at \in StartPlaces \cup FinishPlaces =>
       cap.of = last /\ session \in {cap.of, None} /\ Young(cap.of)
  /\ cap.at = "dropRecording" => pipe[cap.of] = "none"
  /\ \A s \in Sessions : s > last => Young(s) /\ s \notin lease
  /\ \A s, t \in Sessions : pipe[s] \notin Resting /\ pipe[t] \notin Resting => s = t
  /\ \A s \in cancelled : session # s

(* A cancellation of the session is still dropping what it held.           *)
Dropping(s) == cap.at \in Drops /\ cap.of = s

(* A commit is exclusive and beyond cancellation; a cancellation is noted  *)
(* until the pipeline has seen it.                                         *)
Commit(s) ==
  /\ pipe[s] \in {"committed", "paste", "record"} => delivery = s
  /\ delivery = s =>
       /\ pipe[s] \in {"committed", "paste", "record", "raised", "reset", "close", "closing", "discarding"}
       /\ s \notin cancelled /\ ~Dropping(s) /\ "cancelled" \notin history[s]
  /\ "cancelled" \in history[s] => s \in cancelled \/ pipe[s] \in {"none", "closed", "done"}
  /\ Dropping(s) => s \in cancelled \/ pipe[s] \in {"closed", "done"}

CommitInv == \A s \in Sessions : Commit(s)

(* What was pasted cannot be cancelled any more, whatever the pipeline does *)
(* next; while it pastes, its dictation has the application.               *)
Pasted(s) ==
  /\ s \in pasted =>
       /\ "cancelled" \notin history[s] /\ ~Dropping(s)
       /\ \/ pipe[s] \in {"record", "raised", "reset"} /\ delivery = s
          \/ pipe[s] \in {"close", "closing", "discarding", "closed", "done"} /\ session # s
  /\ pipe[s] \in {"paste", "record"} /\ Undisturbed(s) => session = s /\ state = "PROCESSING"

PasteInv == \A s \in Sessions : Pasted(s)

(* Only a retry or a reset takes the state from under a handler.           *)
HandlerInv ==
  /\ cap.of # None /\ cap.of \notin disturbed =>
       /\ cap.at \in StartPlaces => session = cap.of /\ state = "RECORDING"
       /\ cap.at \in FinishPlaces => session = cap.of /\ state = "PROCESSING"
  /\ state = "IDLE" /\ session # None => session \in disturbed

OwnerInv ==
  /\ OwnersHold
  /\ cap.at = "dropProcessing" /\ cap.of # None /\ mic = cap.of => cap.of \in disturbed
  /\ cap.at \in {"open", "opened", "arm"} => cap.of \notin lease
  /\ \A s \in lease : pipe[s] # "closed"

(* The session has its row, or a cancellation is about to write it.        *)
Settled(s) == history[s] # {} \/ cap.of = s

HistoryInv ==
  /\ \A s \in claimed : history[s] # {}
  /\ \A s \in Sessions : Undisturbed(s) =>
       /\ pipe[s] \in Going => (session = s /\ state = "PROCESSING") \/ Settled(s)
       /\ pipe[s] \in {"reset", "close", "closing", "discarding", "closed", "done"} => Settled(s)

StreamInv ==
  /\ cap.at = "live" => streamOwner = cap.of
  /\ state = "RECORDING" /\ cap = Free => streamOwner = session

IInv == TypeInv /\ ControlInv /\ CommitInv /\ PasteInv /\ HandlerInv /\ OwnerInv /\ HistoryInv /\ StreamInv

-------------------------------------------------------------------------------
(* What the handlers share.                                                *)

LEMMA SessionFacts ==
  /\ Sessions \subseteq Nat /\ None \notin Sessions /\ 0 \notin Sessions
  /\ MaxSessions \in Nat /\ MaxTakeovers \in Nat
BY DictationBounds DEF Sessions

(* A row is written to the history of s, or s had claimed its own before.  *)
RowWritten(s, row) ==
  /\ recovery' = recovery
  /\ claimed' \in {claimed, claimed \cup {s}}
  /\ history' \in [Sessions -> SUBSET Rows]
  /\ \A t \in Sessions \ {s} : history'[t] = history[t]
  /\ history[s] \subseteq history'[s] /\ history'[s] \subseteq history[s] \cup {row}
  /\ row \in history'[s] \/ s \in claimed

LEMMA RowFacts ==
  ASSUME TypeOK, NEW s \in Sessions, NEW row \in Rows, Claim(s, row) \/ WriteRow(s, row)
  PROVE  RowWritten(s, row)
<1> USE DEF TypeOK
<1>1. CASE s \in claimed /\ Claim(s, row)
  BY <1>1 DEF Claim, RowWritten
<1>2. CASE s \notin claimed /\ Claim(s, row)
  BY <1>2 DEF Claim, RowWritten
<1>3. CASE WriteRow(s, row)
  BY <1>3 DEF WriteRow, RowWritten
<1> QED
  BY <1>1, <1>2, <1>3

LEMMA DropFacts ==
  ASSUME TypeOK, NEW s \in Anyone, DropSession(s)
  PROVE  /\ stream' \in Anyone /\ streamOwner' = streamOwner
         /\ lease' = lease \ {s}
         /\ s = None => UNCHANGED historyVars
         /\ s # None => RowWritten(s, "cancelled")
<1>1. "cancelled" \in Rows
  BY DEF Rows
<1>2. stream' \in Anyone /\ streamOwner' = streamOwner /\ lease' = lease \ {s}
  BY DEF DropSession, EndStream, TypeOK, Anyone
<1>3. s = None => UNCHANGED historyVars
  BY DEF DropSession
<1>4. s # None => s \in Sessions /\ (Claim(s, "cancelled") \/ WriteRow(s, "cancelled"))
  BY DEF DropSession, Anyone
<1> QED
  BY <1>1, <1>2, <1>3, <1>4, RowFacts

(* Who holds the capture lock, in the form the proofs use.                 *)
LEMMA CaptureFacts ==
  ASSUME NEW place \in Places, NEW s \in Anyone, Capture(place, s)
  PROVE  /\ cap' \in [at : Places, of : Anyone]
         /\ cap'.at = place /\ cap'.of = s
         /\ place # "free" => cap' # Free
BY DEF Capture, Free

LEMMA FreeFacts ==
  /\ Free \in [at : Places, of : Anyone] /\ Free.at = "free" /\ Free.of = None
  /\ TypeOK => cap.at \in Places /\ cap.of \in Anyone
BY DEF Free, Places, Anyone, TypeOK

-------------------------------------------------------------------------------
(* Types.                                                                  *)

LEMMA InitType == Init => TypeInv
BY SessionFacts, FreeFacts DEF Init, TypeInv, TypeOK, CapShape, States, Anyone, Resting, Ending, Stages, StartPlaces, FinishPlaces

LEMMA StartType == TypeInv /\ Start => TypeInv'
<1> SUFFICES ASSUME TypeInv, Start PROVE TypeInv'
  OBVIOUS
<1> USE SessionFacts, FreeFacts, CaptureFacts
<1> USE DEF TypeInv, TypeOK, CapShape, States, Anyone, StartPlaces, FinishPlaces,
            CaptureEnds, stateVars, captureVars, timerVars, streamVars, pipeVars, historyVars, outsideVars
<1>0. StartPlaces \cup FinishPlaces \subseteq Places
  BY DEF Places
<1>1. CASE StartBegins
  <2>1. last' \in Sessions /\ last' \in 0..MaxSessions /\ last' = last + 1 /\ "open" \in Places
    BY <1>1 DEF StartBegins, Sessions, Places
  <2>2. cap' \in [at : Places, of : Anyone] /\ cap'.at = "open" /\ cap'.of = last + 1 /\ cap' # Free
    BY <1>1, <2>1 DEF StartBegins
  <2>3. CapShape'
    BY <1>1, <2>1, <2>2 DEF StartBegins
  <2>4. CASE state = "IDLE"
    BY <1>1, <2>1, <2>2, <2>3, <2>4 DEF StartBegins
  <2>5. CASE state # "IDLE"
    <3>1. session \in Anyone /\ DropSession(session) /\ watchdog' = None /\ cancelled' = cancelled \cup ({session} \ {None})
      BY <1>1, <2>5 DEF StartBegins
    <3>2. /\ stream' \in Anyone /\ streamOwner' = streamOwner /\ lease' = lease \ {session}
          /\ recovery' = recovery /\ claimed' \in {claimed, claimed \cup {session}} /\ history' \in [Sessions -> SUBSET Rows]
          /\ session = None => claimed' = claimed
      BY <3>1, DropFacts DEF RowWritten
    <3>3. lease' \subseteq Sessions /\ cancelled' \subseteq Sessions /\ claimed' \subseteq Sessions
      BY <3>1, <3>2
    <3>4. streamOwner' \in Anyone /\ stream' \in Anyone /\ recovery' \subseteq Sessions /\ watchdog' \in Anyone
          /\ history' \in [Sessions -> SUBSET Rows]
      BY <3>1, <3>2
    <3> QED
      BY <1>1, <2>1, <2>2, <2>3, <3>3, <3>4 DEF StartBegins
  <2> QED
    BY <2>4, <2>5
<1>2. CASE OpenMic
  BY <1>0, <1>2 DEF OpenMic
<1>3. CASE CheckStart
  BY <1>0, <1>3 DEF CheckStart, EndStream, ResetToIdle
<1>4. CASE ArmStart
  BY <1>0, <1>4 DEF ArmStart
<1>5. CASE OpenStream
  BY <1>0, <1>5 DEF OpenStream
<1>6. CASE OwnStream
  BY <1>0, <1>6 DEF OwnStream
<1>7. CASE StartReturns
  BY <1>0, <1>7 DEF StartReturns
<1>8. CASE StartFails
  BY <1>0, <1>8 DEF StartFails, EndStream, ResetToIdle
<1> QED
  BY <1>1, <1>2, <1>3, <1>4, <1>5, <1>6, <1>7, <1>8 DEF Start

LEMMA FinishType == TypeInv /\ ControlInv /\ (Finish \/ LimitReached \/ (\E s \in Sessions : FinishAtLimit(s)) \/ FinishSteps)
                      => TypeInv'
<1> SUFFICES ASSUME TypeInv, ControlInv,
                    Finish \/ LimitReached \/ (\E s \in Sessions : FinishAtLimit(s)) \/ FinishSteps
             PROVE  TypeInv'
  OBVIOUS
<1> USE SessionFacts, FreeFacts, CaptureFacts
<1> USE DEF TypeInv, TypeOK, CapShape, States, Anyone, StartPlaces, FinishPlaces,
            CaptureEnds, stateVars, captureVars, timerVars, streamVars, pipeVars, historyVars, outsideVars
<1>0. FinishPlaces \subseteq Places /\ "wait" \in Stages /\ "failed" \in Rows
  BY DEF Places, Stages, Ending, Resting, Rows
<1>1. ASSUME FinishBegins
      PROVE  /\ state' = "PROCESSING" /\ cap' \in [at : Places, of : Anyone] /\ cap'.at = "release" /\ cap'.of = session
             /\ session \in Sessions /\ cap' # Free
  BY <1>0, <1>1 DEF FinishBegins, ControlInv
<1>2. CASE FinishBegins /\ limit' \subseteq limit /\ watchdog' = watchdog
  BY <1>1, <1>2 DEF FinishBegins
<1>3. CASE LimitReached
  BY <1>3 DEF LimitReached
<1>4. ASSUME NEW s \in Sessions, FinishAtLimit(s) PROVE TypeInv'
  <2>1. CASE FinishBegins
    BY <1>2, <1>4, <2>1 DEF FinishAtLimit
  <2>2. CASE ~FinishBegins
    BY <1>4, <2>2 DEF FinishAtLimit
  <2> QED
    BY <2>1, <2>2
<1>5. CASE ChooseWindow
  BY <1>0, <1>5 DEF ChooseWindow
<1>6. CASE FinishEmpty
  <2>1. cap.of \in Sessions /\ WriteRow(cap.of, "failed")
    BY <1>6 DEF FinishEmpty, StopCapture
  <2>2. RowWritten(cap.of, "failed")
    BY <1>0, <2>1, RowFacts
  <2> QED
    BY <1>6, <2>1, <2>2 DEF FinishEmpty, StopCapture, ResetToIdle, RowWritten
<1>7. CASE FinishSpawns
  BY <1>0, <1>7 DEF FinishSpawns
<1>8. CASE FinishFails
  BY <1>8 DEF FinishFails, StopCapture, ResetToIdle
<1> QED
  BY <1>2, <1>3, <1>4, <1>5, <1>6, <1>7, <1>8 DEF Finish, FinishSteps

LEMMA CancelType == TypeInv /\ ControlInv /\ (CancelBegins \/ CancelRefused \/ CancelDrops) => TypeInv'
<1> SUFFICES ASSUME TypeInv, ControlInv, CancelBegins \/ CancelRefused \/ CancelDrops PROVE TypeInv'
  OBVIOUS
<1> USE SessionFacts, FreeFacts, CaptureFacts
<1> USE DEF TypeInv, TypeOK, CapShape, States, Anyone, StartPlaces, FinishPlaces,
            CaptureEnds, stateVars, captureVars, timerVars, streamVars, pipeVars, historyVars, outsideVars
<1>0. Drops \subseteq Places
  BY DEF Places, Drops
<1>1. CASE CancelBegins
  <2>1. state = "RECORDING" => session \in Sessions
    BY DEF ControlInv
  <2>2. cap' \in [at : Places, of : Anyone] /\ cap' # Free /\ cap'.of = session
        /\ cap'.at = IF state = "PROCESSING" THEN "dropProcessing" ELSE "dropRecording"
    BY <1>0, <1>1 DEF CancelBegins, Drops
  <2> QED
    BY <1>1, <2>1, <2>2 DEF CancelBegins
<1>2. CASE CancelRefused
  BY <1>2 DEF CancelRefused
<1>3. CASE CancelDrops
  <2>1. cap.of \in Anyone /\ DropSession(cap.of)
    BY <1>3 DEF CancelDrops
  <2>2. /\ stream' \in Anyone /\ streamOwner' = streamOwner /\ lease' = lease \ {cap.of}
        /\ recovery' = recovery /\ claimed' \in {claimed, claimed \cup {cap.of}} /\ history' \in [Sessions -> SUBSET Rows]
        /\ cap.of = None => claimed' = claimed
    BY <2>1, DropFacts DEF RowWritten
  <2> QED
    BY <1>3, <2>2 DEF CancelDrops
<1> QED
  BY <1>1, <1>2, <1>3

LEMMA PipelineType == TypeInv /\ (\E s \in Sessions : Pipeline(s)) => TypeInv'
<1> SUFFICES ASSUME TypeInv, NEW s \in Sessions, Pipeline(s) PROVE TypeInv'
  OBVIOUS
<1> USE SessionFacts
<1> USE DEF TypeInv, TypeOK, CapShape, States, Anyone, PipeGoes, PipeAt,
            stateVars, captureVars, timerVars, streamVars, pipeVars, historyVars, outsideVars
<1>0. Going \cup Resting \cup {"reset", "close", "closing", "discarding", "closed"} \subseteq Stages
  BY DEF Stages, Ending, Resting, Going
<1>1. CASE PipeStarts(s)
  BY <1>0, <1>1 DEF PipeStarts, Going
<1>2. CASE PipeTranscribes(s)
  BY <1>0, <1>2 DEF PipeTranscribes, Going
<1>12. CASE PipeEndsStream(s)
  BY <1>0, <1>12 DEF PipeEndsStream, EndsWhatIsOpen, Going
<1>13. CASE PipeLeaves(s)
  BY <1>0, <1>13 DEF PipeLeaves
<1>3. CASE PipeReadsText(s)
  BY <1>0, <1>3 DEF PipeReadsText, Going
<1>4. CASE PipeCommits(s)
  BY <1>0, <1>4 DEF PipeCommits, Going
<1>5. CASE PipeChecksAgain(s)
  BY <1>0, <1>5 DEF PipeChecksAgain, Going
<1>6. CASE PipePastes(s)
  BY <1>0, <1>6 DEF PipePastes, Going
<1>7. CASE PipeConcludes(s)
  <2>1. PICK row \in Outcomes(pipe[s]) : Claim(s, row)
    BY <1>7 DEF PipeConcludes
  <2>2. row \in Rows
    BY DEF Outcomes, Rows
  <2> QED
    <3>1. RowWritten(s, row)
      BY <2>1, <2>2, RowFacts
    <3>2. recovery' = recovery /\ claimed' \subseteq Sessions /\ history' \in [Sessions -> SUBSET Rows]
      BY <3>1 DEF RowWritten
    <3>3. pipe' \in [Sessions -> Stages]
      BY <1>0, <1>7 DEF PipeConcludes
    <3> QED
      BY <1>7, <3>2, <3>3 DEF PipeConcludes
<1>8. CASE PipeGivesUp(s)
  BY <1>0, <1>8 DEF PipeGivesUp
<1>9. CASE PipeResets(s)
  BY <1>0, <1>9 DEF PipeResets, ResetToIdle
<1>10. CASE PipeCloses(s)
  BY <1>0, <1>10 DEF PipeCloses, EndsWhatIsOpen
<1>11. CASE PipeEnds(s)
  BY <1>0, <1>11 DEF PipeEnds, ResetToIdle, Resting
<1> QED
  BY <1>1, <1>2, <1>3, <1>4, <1>5, <1>6, <1>7, <1>8, <1>9, <1>10, <1>11, <1>12, <1>13 DEF Pipeline

LEMMA OutsideType == TypeInv /\ (RetryBegins \/ RetryEnds \/ ResetAsks \/ ResetState) => TypeInv'
<1> SUFFICES ASSUME TypeInv, RetryBegins \/ RetryEnds \/ ResetAsks \/ ResetState PROVE TypeInv'
  OBVIOUS
<1> USE SessionFacts
<1> USE DEF TypeInv, TypeOK, CapShape, States, Anyone,
            stateVars, captureVars, timerVars, streamVars, pipeVars, historyVars, outsideVars
<1>1. CASE RetryBegins
  BY <1>1 DEF RetryBegins
<1>2. CASE RetryEnds
  <2>1. disturbed' \subseteq Sessions
    BY <1>2 DEF RetryEnds
  <2> QED
    BY <1>2, <2>1 DEF RetryEnds
<1>3. CASE ResetAsks
  BY <1>3 DEF ResetAsks
<1>4. CASE ResetState
  <2>1. disturbed' \subseteq Sessions
    BY <1>4 DEF ResetState
  <2> QED
    BY <1>4, <2>1 DEF ResetState
<1> QED
  BY <1>1, <1>2, <1>3, <1>4

LEMMA NextType == TypeInv /\ ControlInv /\ [Next]_vars => TypeInv'
<1> SUFFICES ASSUME TypeInv, ControlInv, UNCHANGED vars PROVE TypeInv'
  BY StartType, FinishType, CancelType, PipelineType, OutsideType DEF Next
<1> QED
  BY DEF vars, TypeInv, TypeOK, CapShape,
         stateVars, captureVars, timerVars, streamVars, pipeVars, historyVars, outsideVars

-------------------------------------------------------------------------------
(* The control of the handlers and the pipelines.                          *)

LEMMA InitControl == Init => ControlInv
BY SessionFacts, FreeFacts DEF Init, ControlInv, Young, Resting, StartPlaces, FinishPlaces

(* A start after its first step touches no outcome.                        *)
LEMMA YoungKept ==
  ASSUME UNCHANGED <<pipeVars, historyVars, cancelled>>, NEW s
  PROVE  Young(s)' <=> Young(s)
BY DEF Young, pipeVars, historyVars

(* What a start does after its first step: it undoes the session or goes    *)
(* on, with the lock or without.                                           *)
StartGoesOn ==
  /\ cap.at \in StartPlaces
  /\ UNCHANGED <<pipeVars, historyVars, cancelled, last, limit, moved, outsideVars>>
  /\ cap' = Free \/ (cap'.at \in StartPlaces /\ cap'.of = cap.of)
  /\ UNCHANGED stateVars \/ (session = cap.of /\ state' = "IDLE" /\ session' = None)
  /\ lease' \subseteq lease \cup {cap.of}

StartSteps == OpenMic \/ CheckStart \/ ArmStart \/ OpenStream \/ OwnStream \/ StartReturns \/ StartFails

LEMMA StartStepFacts ==
  ASSUME TypeInv, StartSteps
  PROVE  StartGoesOn
<1> USE FreeFacts, CaptureFacts
<1> USE DEF StartGoesOn, CaptureEnds, StartPlaces, stateVars, captureVars, timerVars, pipeVars, historyVars, outsideVars
<1>0. cap.of \in Anyone /\ StartPlaces \subseteq Places
  BY DEF TypeInv, Places
<1>1. CASE OpenMic
  BY <1>0, <1>1 DEF OpenMic
<1>2. CASE CheckStart
  BY <1>0, <1>2 DEF CheckStart, ResetToIdle
<1>3. CASE ArmStart
  BY <1>0, <1>3 DEF ArmStart
<1>4. CASE OpenStream
  BY <1>0, <1>4 DEF OpenStream
<1>5. CASE OwnStream
  BY <1>0, <1>5 DEF OwnStream
<1>6. CASE StartReturns
  BY <1>0, <1>6 DEF StartReturns
<1>7. CASE StartFails
  BY <1>0, <1>7 DEF StartFails, ResetToIdle
<1> QED
  BY <1>1, <1>2, <1>3, <1>4, <1>5, <1>6, <1>7 DEF StartSteps

LEMMA StartControl == TypeInv /\ ControlInv /\ Start => ControlInv'
<1> SUFFICES ASSUME TypeInv, ControlInv, Start PROVE ControlInv'
  OBVIOUS
<1> USE SessionFacts, FreeFacts, CaptureFacts
<1>0. cap.of \in Anyone /\ StartPlaces \subseteq Places
  BY DEF TypeInv, Places, StartPlaces
<1>1. CASE StartBegins
  <2> DEFINE new == last + 1
  <2>1. new \in Sessions /\ last' = new /\ session' = new /\ state' = "RECORDING" /\ Young(new) /\ new \notin lease
        /\ last \in Nat
    BY <1>1 DEF StartBegins, ControlInv, TypeInv, TypeOK, Sessions
  <2>2. cap'.at = "open" /\ cap'.of = new
    BY <1>1, <2>1 DEF StartBegins, Places, Anyone
  <2>3. UNCHANGED pipeVars /\ session \in Anyone /\ (session # None => session < new)
    BY <1>1, <2>1 DEF StartBegins, TypeInv, TypeOK, CapShape, Anyone
  <2>4. /\ recovery' = recovery /\ cancelled' \subseteq cancelled \cup ({session} \ {None}) /\ lease' \subseteq lease
        /\ \A s \in Sessions : s # session => history'[s] = history[s] /\ (s \in claimed' => s \in claimed)
    <3>1. CASE state = "IDLE"
      BY <1>1, <3>1 DEF StartBegins, historyVars
    <3>2. CASE state # "IDLE"
      <4>1. DropSession(session) /\ cancelled' = cancelled \cup ({session} \ {None})
        BY <1>1, <3>2 DEF StartBegins
      <4> QED
        BY <2>3, <4>1, DropFacts DEF TypeInv, RowWritten, historyVars
    <3> QED
      BY <3>1, <3>2
  <2>5. \A s \in Sessions : s >= new => Young(s)' /\ s \notin lease'
    <3> SUFFICES ASSUME NEW s \in Sessions, s >= new PROVE Young(s)' /\ s \notin lease'
      OBVIOUS
    <3>1. Young(s) /\ s \notin lease /\ s # session
      BY <2>1, <2>3 DEF ControlInv
    <3> QED
      BY <2>3, <2>4, <3>1 DEF Young, pipeVars
  <2>6. \A s \in cancelled' : session' # s
    BY <2>1, <2>3, <2>4 DEF Young
  <2> QED
    BY <2>1, <2>2, <2>3, <2>5, <2>6 DEF ControlInv, StartPlaces, FinishPlaces, pipeVars
<1>2. CASE StartSteps
  <2>1. StartGoesOn
    BY <1>2, StartStepFacts
  <2>2. \A s \in Sessions : Young(s)' <=> Young(s)
    BY <2>1, YoungKept DEF StartGoesOn
  <2>3. last' = last /\ lease' \subseteq lease \cup {last} /\ cap.of = last /\ cap.of \in Sessions /\ Young(last)
    BY <2>1 DEF StartGoesOn, ControlInv, TypeInv, CapShape, Anyone
  <2>4. cap'.at \in StartPlaces \cup {"free"} /\ (cap'.at # "free" => cap'.of = last)
    BY <2>1, <2>3 DEF StartGoesOn
  <2>5. session' \in {last, None} /\ (state' = "RECORDING" => state = "RECORDING" /\ session' = session)
    BY <2>1, <2>3 DEF StartGoesOn, ControlInv, stateVars
  <2>6. \A s \in Sessions : s > last' => Young(s)' /\ s \notin lease'
    BY <2>2, <2>3 DEF ControlInv
  <2>7. pipe' = pipe /\ cancelled' = cancelled
    BY <2>1 DEF StartGoesOn, pipeVars
  <2>8. \A s \in cancelled' : session' # s
    BY <2>1, <2>7 DEF StartGoesOn, ControlInv, stateVars, TypeInv, TypeOK
  <2> QED
    BY <2>2, <2>3, <2>4, <2>5, <2>6, <2>7, <2>8 DEF ControlInv, StartPlaces, FinishPlaces
<1> QED
  BY <1>1, <1>2 DEF Start, StartSteps

FinishActs == Finish \/ LimitReached \/ (\E s \in Sessions : FinishAtLimit(s)) \/ FinishSteps

(* The first step of a finish, whoever made it.                            *)
LEMMA FinishBeginsFacts ==
  ASSUME TypeInv, ControlInv, FinishBegins
  PROVE  /\ cap = Free /\ state = "RECORDING" /\ state' = "PROCESSING" /\ session' = session
         /\ session = last /\ session \in Sessions /\ Young(session)
         /\ cap'.at = "release" /\ cap'.of = session
         /\ UNCHANGED <<pipeVars, historyVars, cancelled, last, lease, moved, mic, streamVars, outsideVars>>
BY CaptureFacts DEF FinishBegins, ControlInv, Places, Anyone, captureVars

(* The limit acts as a finish, or touches only the watchdog.               *)
LEMMA LimitFacts ==
  ASSUME Finish \/ LimitReached \/ (\E s \in Sessions : FinishAtLimit(s))
  PROVE  \/ FinishBegins
         \/ UNCHANGED <<stateVars, cap, captureVars, lease, streamVars, pipeVars, cancelled, historyVars, outsideVars>>
<1>1. CASE LimitReached
  BY <1>1 DEF LimitReached
<1>2. CASE \E s \in Sessions : FinishAtLimit(s)
  BY <1>2 DEF FinishAtLimit
<1> QED
  BY <1>1, <1>2 DEF Finish

(* What the last step of a finish leaves, whichever it is.                 *)
LEMMA FinishEndsFacts ==
  ASSUME TypeInv, ControlInv, FinishEmpty \/ FinishSpawns \/ FinishFails
  PROVE  /\ cap.at = "stop" /\ cap' = Free /\ cap.of = last /\ last' = last /\ cap.of \in Sessions /\ Young(cap.of)
         /\ session \in {cap.of, None} /\ state \in {"IDLE", "PROCESSING"}
         /\ mic' = None /\ moved' = moved /\ streamOwner' = streamOwner /\ stream' \in {stream, None}
         /\ UNCHANGED <<delivery, pasted, cancelled, outsideVars>>
         /\ \A s \in Sessions \ {cap.of} :
              pipe'[s] = pipe[s] /\ history'[s] = history[s] /\ (s \in recovery' <=> s \in recovery)
         /\ claimed' = claimed /\ lease' \subseteq lease
         /\ \/ UNCHANGED stateVars /\ pipe' = [pipe EXCEPT ![cap.of] = "wait"] /\ history' = history
               /\ lease' = lease
            \/ /\ state' \in {state, "IDLE"} /\ session' \in {session, None} /\ session' # cap.of /\ pipe' = pipe
               /\ lease' = lease \ {cap.of}
               /\ history'[cap.of] \in {{}, {"failed"}}
<1>0. /\ cap.at = "stop" /\ cap.of \in Sessions /\ cap.of = last /\ Young(cap.of)
      /\ session \in {cap.of, None} /\ state \in {"IDLE", "PROCESSING"}
  BY FreeFacts DEF FinishEmpty, FinishSpawns, FinishFails, StopCapture, ControlInv, TypeInv, TypeOK, CapShape,
                   StartPlaces, FinishPlaces, Anyone, States
<1>1. ASSUME ResetToIdle(cap.of)
      PROVE  state' \in {state, "IDLE"} /\ session' \in {session, None} /\ session' # cap.of
  BY <1>0, <1>1, SessionFacts DEF ResetToIdle, stateVars
<1>2. CASE FinishEmpty
  <2>1. RowWritten(cap.of, "failed") /\ history' = [history EXCEPT ![cap.of] = @ \cup {"failed"}] /\ claimed' = claimed
    BY <1>0, <1>2, RowFacts DEF FinishEmpty, WriteRow, TypeInv, Rows
  <2>2. history'[cap.of] = {"failed"}
    BY <1>0, <2>1 DEF Young, TypeInv, TypeOK
  <2> QED
    BY <1>0, <1>1, <1>2, <2>1, <2>2 DEF FinishEmpty, StopCapture, CaptureEnds, RowWritten, pipeVars
<1>3. CASE FinishSpawns
  BY <1>0, <1>3 DEF FinishSpawns, CaptureEnds, pipeVars, stateVars, TypeInv, TypeOK
<1>4. CASE FinishFails
  BY <1>0, <1>4, <1>1 DEF FinishFails, StopCapture, CaptureEnds, pipeVars, Young
<1> QED
  BY <1>2, <1>3, <1>4

LEMMA FinishControl == TypeInv /\ ControlInv /\ FinishActs => ControlInv'
<1> SUFFICES ASSUME TypeInv, ControlInv, FinishActs PROVE ControlInv'
  OBVIOUS
<1> USE SessionFacts, FreeFacts
<1>1. CASE FinishBegins
  <2>1. \A s \in Sessions : Young(s)' <=> Young(s)
    BY <1>1, FinishBeginsFacts, YoungKept
  <2> QED
    BY <1>1, <2>1, FinishBeginsFacts DEF ControlInv, StartPlaces, FinishPlaces, pipeVars
<1>2. CASE UNCHANGED <<stateVars, cap, captureVars, lease, streamVars, pipeVars, cancelled, historyVars, outsideVars>>
  <2>1. \A s \in Sessions : Young(s)' <=> Young(s)
    BY <1>2, YoungKept
  <2> QED
    BY <1>2, <2>1 DEF ControlInv, StartPlaces, FinishPlaces, pipeVars, stateVars, captureVars, TypeInv, CapShape, Anyone
<1>3. CASE ChooseWindow
  <2>1. \A s \in Sessions : Young(s)' <=> Young(s)
    BY <1>3, YoungKept DEF ChooseWindow
  <2>2. cap.at = "release" /\ cap'.at = "stop" /\ cap'.of = cap.of /\ cap.of \in Sessions /\ Young(cap.of)
    BY <1>3, CaptureFacts DEF ChooseWindow, ControlInv, FinishPlaces, Places, TypeInv, CapShape, Anyone
  <2> QED
    BY <1>3, <2>1, <2>2 DEF ChooseWindow, ControlInv, Young, StartPlaces, FinishPlaces, pipeVars
<1>4. CASE FinishEmpty \/ FinishSpawns \/ FinishFails
  <2>1. /\ cap' = Free /\ cap.of = last /\ last' = last /\ state' # "RECORDING" /\ cap.of \in Sessions
        /\ \A s \in Sessions \ {last} : pipe'[s] = pipe[s] /\ (Young(s) => Young(s)')
        /\ lease' \subseteq lease /\ cancelled' = cancelled /\ session' \in {session, None}
    BY <1>4, FinishEndsFacts DEF Young, stateVars
  <2>2. \A s, t \in Sessions : pipe'[s] \notin Resting /\ pipe'[t] \notin Resting => s = t
    BY <1>4, FinishEndsFacts DEF Resting, ControlInv, TypeInv, TypeOK
  <2>3. \A s \in cancelled' : session' # s
    BY <2>1 DEF ControlInv, TypeInv, TypeOK
  <2> QED
    BY <2>1, <2>2, <2>3 DEF ControlInv, StartPlaces, FinishPlaces, TypeInv, TypeOK
<1> QED
  BY <1>1, <1>2, <1>3, <1>4, LimitFacts DEF FinishActs, FinishSteps

CancelActs == CancelBegins \/ CancelRefused \/ CancelDrops

LEMMA CancelBeginsFacts ==
  ASSUME TypeInv, ControlInv, CancelBegins
  PROVE  /\ cap = Free /\ state # "IDLE" /\ state' = "IDLE" /\ session' = None /\ session \in Anyone
         /\ ~(session # None /\ delivery = session)
         /\ cancelled' = cancelled \cup ({session} \ {None})
         /\ cap'.at = (IF state = "PROCESSING" THEN "dropProcessing" ELSE "dropRecording") /\ cap'.of = session
         /\ UNCHANGED <<last, mic, lease, streamVars, pipeVars, historyVars, outsideVars>>
BY CaptureFacts DEF CancelBegins, TooLate, Places, Anyone, TypeInv, TypeOK, captureVars

LEMMA CancelDropsFacts ==
  ASSUME TypeInv, ControlInv, CancelDrops
  PROVE  /\ cap.at \in Drops /\ cap' = Free /\ cap.of \in Anyone /\ lease' = lease \ {cap.of}
         /\ state # "RECORDING" /\ last' = last
         /\ cap.of = None => UNCHANGED historyVars
         /\ cap.of # None => RowWritten(cap.of, "cancelled")
         /\ \/ cap.at = "dropRecording" /\ mic' = None /\ cancelled' = cancelled \ {cap.of} /\ pipe[cap.of] = "none"
            \/ cap.at = "dropProcessing" /\ mic' = mic /\ cancelled' = cancelled
         /\ UNCHANGED <<stateVars, pipeVars, outsideVars>>
<1>1. /\ cap.at \in Drops /\ cap' = Free /\ cap.of \in Anyone /\ DropSession(cap.of) /\ last' = last
      /\ UNCHANGED <<stateVars, pipeVars, outsideVars>>
  BY FreeFacts DEF CancelDrops, CaptureEnds, Drops, TypeInv
<1>2. state # "RECORDING" /\ (cap.at = "dropRecording" => pipe[cap.of] = "none")
  BY <1>1 DEF ControlInv, Drops, StartPlaces
<1>3. /\ cap.at = "dropRecording" => mic' = None /\ cancelled' = cancelled \ {cap.of}
      /\ cap.at = "dropProcessing" => mic' = mic /\ cancelled' = cancelled
  BY DEF CancelDrops
<1> QED
  BY <1>1, <1>2, <1>3, DropFacts DEF TypeInv, Drops

LEMMA CancelControl == TypeInv /\ ControlInv /\ CancelActs => ControlInv'
<1> SUFFICES ASSUME TypeInv, ControlInv, CancelActs PROVE ControlInv'
  OBVIOUS
<1> USE SessionFacts, FreeFacts
<1>1. CASE CancelBegins
  <2>1. \A s \in Sessions : s # session => (Young(s) => Young(s)')
    BY <1>1, CancelBeginsFacts DEF Young, pipeVars, historyVars
  <2>2. state = "RECORDING" => pipe'[session] = "none"
    BY <1>1, CancelBeginsFacts DEF ControlInv, Young, pipeVars
  <2>3. \A s \in Sessions : s > last => s # session
    BY <1>1 DEF TypeInv, TypeOK, CapShape, Anyone
  <2>4. \A s \in cancelled' : session' # s
    <3>1. cancelled' \subseteq Sessions /\ session' = None
      BY <1>1, CancelBeginsFacts DEF TypeInv, TypeOK, Anyone
    <3> QED
      BY <3>1
  <2> QED
    BY <1>1, <2>1, <2>2, <2>3, <2>4, CancelBeginsFacts
       DEF ControlInv, StartPlaces, FinishPlaces, pipeVars, TypeInv, TypeOK, States
<1>2. CASE CancelRefused
  <2>1. \A s \in Sessions : Young(s)' <=> Young(s)
    BY <1>2, YoungKept DEF CancelRefused
  <2> QED
    BY <1>2, <2>1 DEF CancelRefused, ControlInv, StartPlaces, FinishPlaces, pipeVars, stateVars, captureVars,
                      TypeInv, CapShape, Anyone
<1>3. CASE CancelDrops
  <2>1. \A s \in Sessions : s > last => s # cap.of
    BY <1>3, CancelDropsFacts DEF TypeInv, TypeOK, CapShape, Anyone
  <2>2. \A s \in Sessions : s > last => Young(s)' /\ s \notin lease'
    BY <1>3, <2>1, CancelDropsFacts DEF ControlInv, Young, RowWritten, pipeVars, historyVars, TypeInv, Anyone
  <2> QED
    BY <1>3, <2>2, CancelDropsFacts DEF ControlInv, StartPlaces, FinishPlaces, pipeVars, stateVars
<1> QED
  BY <1>1, <1>2, <1>3 DEF CancelActs

-------------------------------------------------------------------------------
(* A step of the pipeline of s leaves the other dictations alone.          *)
PipeStep(s) ==
  /\ pipe[s] # "none" /\ pipe'[s] # "none"
  /\ pipe'[s] \notin Resting /\ pipe[s] \in Resting => \A t \in Sessions : pipe[t] \in Resting
  /\ \A t \in Sessions \ {s} :
       /\ pipe'[t] = pipe[t] /\ history'[t] = history[t]
       /\ t \in cancelled' <=> t \in cancelled
       /\ t \in claimed' <=> t \in claimed
       /\ t \in recovery' <=> t \in recovery
       /\ t \in pasted' <=> t \in pasted
       /\ delivery' = t => delivery = t
  /\ delivery' = delivery \/ delivery = s \/ pipe[s] \notin Resting
  /\ UNCHANGED <<cap, last, mic, outsideVars, streamOwner>>
  /\ cancelled' \subseteq cancelled /\ lease' \subseteq lease
  /\ UNCHANGED stateVars \/ (session = s /\ state' = "IDLE" /\ session' = None)

LEMMA PipelineFacts ==
  ASSUME TypeInv, NEW s \in Sessions, Pipeline(s)
  PROVE  PipeStep(s)
<1> USE DEF TypeInv, TypeOK, PipeStep, PipeGoes, PipeAt, Resting,
            stateVars, captureVars, timerVars, streamVars, pipeVars, historyVars, outsideVars
<1>1. CASE PipeStarts(s)
  BY <1>1 DEF PipeStarts
<1>2. CASE PipeTranscribes(s)
  BY <1>2 DEF PipeTranscribes
<1>12. CASE PipeEndsStream(s)
  BY <1>12 DEF PipeEndsStream, EndsWhatIsOpen
<1>13. CASE PipeLeaves(s)
  BY <1>13 DEF PipeLeaves
<1>3. CASE PipeReadsText(s)
  BY <1>3 DEF PipeReadsText
<1>4. CASE PipeCommits(s)
  BY <1>4 DEF PipeCommits
<1>5. CASE PipeChecksAgain(s)
  BY <1>5 DEF PipeChecksAgain
<1>6. CASE PipePastes(s)
  BY <1>6 DEF PipePastes
<1>7. CASE PipeConcludes(s)
  <2>1. PICK row \in Outcomes(pipe[s]) : Claim(s, row)
    BY <1>7 DEF PipeConcludes
  <2>2. row \in Rows /\ pipe[s] \notin Resting
    BY DEF Outcomes, Rows
  <2>3. RowWritten(s, row)
    BY <2>1, <2>2, RowFacts
  <2> QED
    BY <1>7, <2>2, <2>3 DEF PipeConcludes, RowWritten
<1>8. CASE PipeGivesUp(s)
  BY <1>8 DEF PipeGivesUp
<1>9. CASE PipeResets(s)
  BY <1>9 DEF PipeResets, ResetToIdle
<1>10. CASE PipeCloses(s)
  BY <1>10, SessionFacts DEF PipeCloses, EndsWhatIsOpen
<1>11. CASE PipeEnds(s)
  BY <1>11 DEF PipeEnds, ResetToIdle
<1> QED
  BY <1>1, <1>2, <1>3, <1>4, <1>5, <1>6, <1>7, <1>8, <1>9, <1>10, <1>11, <1>12, <1>13 DEF Pipeline

LEMMA PipelineControl ==
  ASSUME TypeInv, ControlInv, NEW s \in Sessions, Pipeline(s)
  PROVE  ControlInv'
<1> USE SessionFacts, FreeFacts
<1>1. PipeStep(s)
  BY PipelineFacts
<1>2. \A t \in Sessions : Young(t) => t # s /\ Young(t)'
  BY <1>1 DEF PipeStep, Young
<1>3. \A t, u \in Sessions : pipe'[t] \notin Resting /\ pipe'[u] \notin Resting => t = u
  BY <1>1 DEF PipeStep, ControlInv
<1>4. cap.at \in StartPlaces \cup FinishPlaces => cap.of \in Sessions /\ session # s
  BY <1>1, <1>2 DEF ControlInv, TypeInv, CapShape, Anyone
<1>5. state = "RECORDING" => UNCHANGED stateVars
  BY <1>1, <1>2 DEF PipeStep, ControlInv
<1>6. cap.at = "dropRecording" => pipe'[cap.of] = "none"
  BY <1>1 DEF PipeStep, ControlInv, TypeInv, CapShape, Anyone
<1>7. \A t \in cancelled' : session' # t
  BY <1>1 DEF PipeStep, ControlInv, TypeInv, TypeOK, stateVars
<1> QED
  BY <1>1, <1>2, <1>3, <1>4, <1>5, <1>6, <1>7 DEF PipeStep, ControlInv, stateVars

-------------------------------------------------------------------------------
OutsideActs == RetryBegins \/ RetryEnds \/ ResetAsks \/ ResetState

(* A retry and a reset take the state, and say so; they touch no outcome.  *)
LEMMA OutsideFacts ==
  ASSUME TypeInv, OutsideActs
  PROVE  /\ UNCHANGED <<cap, last, lease, streamVars, pipeVars, cancelled, historyVars>>
         /\ disturbed' \in {disturbed, disturbed \cup ({session} \ {None})}
         /\ mic' \in {mic, None} /\ session' \in {session, None} /\ state' \in {"IDLE", "PROCESSING"}
         /\ \/ state = "IDLE" /\ UNCHANGED <<session, mic, disturbed>>
            \/ /\ disturbed' = disturbed \cup ({session} \ {None})
               /\ retrying' # retrying \/ resetting' # resetting
BY DEF OutsideActs, RetryBegins, RetryEnds, ResetAsks, ResetState, TypeInv, TypeOK,
       stateVars, captureVars, streamVars, outsideVars

LEMMA OutsideControl == TypeInv /\ ControlInv /\ OutsideActs => ControlInv'
<1> SUFFICES ASSUME TypeInv, ControlInv, OutsideActs PROVE ControlInv'
  OBVIOUS
<1>1. \A s : Young(s)' <=> Young(s)
  BY OutsideFacts, YoungKept
<1>2. \A s \in cancelled' : session' # s
  BY OutsideFacts, SessionFacts DEF ControlInv, TypeInv, TypeOK
<1> QED
  BY <1>1, <1>2, OutsideFacts DEF ControlInv, StartPlaces, FinishPlaces, pipeVars

(* The steps of the model, in the groups the proofs use.                   *)
LEMMA NextGroups ==
  Next <=> Start \/ FinishActs \/ CancelActs \/ (\E s \in Sessions : Pipeline(s)) \/ OutsideActs
BY DEF Next, FinishActs, CancelActs, OutsideActs

LEMMA NextControl == TypeInv /\ ControlInv /\ [Next]_vars => ControlInv'
<1> SUFFICES ASSUME TypeInv, ControlInv, UNCHANGED vars PROVE ControlInv'
  BY NextGroups, StartControl, FinishControl, CancelControl, PipelineControl, OutsideControl
<1>1. \A s : Young(s)' <=> Young(s)
  BY YoungKept DEF vars
<1> QED
  BY <1>1 DEF vars, ControlInv, stateVars, captureVars, pipeVars

-------------------------------------------------------------------------------
(* Commits and cancellations.                                              *)

LEMMA InitCommit == Init => CommitInv
BY SessionFacts, FreeFacts DEF Init, CommitInv, Commit, Dropping, Drops

LEMMA CommitKept ==
  ASSUME UNCHANGED <<pipeVars, historyVars, cancelled>>, NEW s, Commit(s), Dropping(s)' => Dropping(s)
  PROVE  Commit(s)'
BY DEF Commit, pipeVars, historyVars

LEMMA StartCommit == TypeInv /\ ControlInv /\ CommitInv /\ Start => CommitInv'
<1> SUFFICES ASSUME TypeInv, ControlInv, CommitInv, Start, NEW s \in Sessions PROVE Commit(s)'
  BY DEF CommitInv
<1> USE SessionFacts, FreeFacts
<1>1. CASE StartSteps
  <2>1. ~Dropping(s)'
    BY <1>1, StartStepFacts DEF StartGoesOn, Dropping, Drops, StartPlaces
  <2> QED
    BY <1>1, <2>1, StartStepFacts, CommitKept DEF StartGoesOn, CommitInv
<1>2. CASE StartBegins
  <2>1. UNCHANGED pipeVars /\ ~Dropping(s)'
    BY <1>2, CaptureFacts DEF StartBegins, Dropping, Drops, Places, Capture
  <2>2. CASE state = "IDLE"
    BY <1>2, <2>1, <2>2, CommitKept DEF StartBegins, CommitInv
  <2>3. CASE state # "IDLE"
    <3>1. DropSession(session) /\ session \in Anyone /\ ~TooLate /\ cancelled' = cancelled \cup ({session} \ {None})
      BY <1>2, <2>3 DEF StartBegins, TypeInv, TypeOK
    <3>2. history'[s] = history[s] \/ s = session
      BY <3>1, DropFacts DEF TypeInv, RowWritten, historyVars, Anyone
    <3>3. s = session => delivery # s /\ s \in cancelled'
      BY <3>1 DEF TooLate
    <3> QED
      BY <2>1, <3>1, <3>2, <3>3 DEF CommitInv, Commit, pipeVars
  <2> QED
    BY <2>2, <2>3
<1> QED
  BY <1>1, <1>2 DEF Start, StartSteps

LEMMA FinishCommit == TypeInv /\ ControlInv /\ CommitInv /\ FinishActs => CommitInv'
<1> SUFFICES ASSUME TypeInv, ControlInv, CommitInv, FinishActs, NEW s \in Sessions PROVE Commit(s)'
  BY DEF CommitInv
<1> USE SessionFacts, FreeFacts
<1>1. CASE FinishBegins
  BY <1>1, FinishBeginsFacts, CommitKept DEF Dropping, Drops, CommitInv
<1>2. CASE UNCHANGED <<stateVars, cap, captureVars, lease, streamVars, pipeVars, cancelled, historyVars, outsideVars>>
  BY <1>2, CommitKept DEF Dropping, CommitInv
<1>3. CASE ChooseWindow
  BY <1>3, CommitKept, CaptureFacts DEF ChooseWindow, Dropping, Drops, CommitInv, Places, TypeInv
<1>4. CASE FinishEmpty \/ FinishSpawns \/ FinishFails
  <2>1. ~Dropping(s)' /\ ~Dropping(s)
    BY <1>4, FinishEndsFacts DEF Dropping, Drops
  <2>2. CASE s # cap.of
    BY <1>4, <2>1, <2>2, FinishEndsFacts DEF Commit, CommitInv
  <2>3. CASE s = cap.of
    BY <1>4, <2>1, <2>3, FinishEndsFacts DEF Commit, Young, TypeInv, TypeOK
  <2> QED
    BY <2>2, <2>3
<1> QED
  BY <1>1, <1>2, <1>3, <1>4, LimitFacts DEF FinishActs, FinishSteps

LEMMA CancelCommit == TypeInv /\ ControlInv /\ CommitInv /\ CancelActs => CommitInv'
<1> SUFFICES ASSUME TypeInv, ControlInv, CommitInv, CancelActs, NEW s \in Sessions PROVE Commit(s)'
  BY DEF CommitInv
<1> USE SessionFacts, FreeFacts
<1>1. CASE CancelBegins
  <2>1. s \in cancelled' <=> s \in cancelled \/ s = session
    BY <1>1, CancelBeginsFacts
  <2>2. Dropping(s)' => s = session
    BY <1>1, CancelBeginsFacts DEF Dropping
  <2> QED
    BY <1>1, <2>1, <2>2, CancelBeginsFacts DEF Commit, CommitInv, pipeVars, historyVars
<1>2. CASE CancelRefused
  BY <1>2, CommitKept DEF CancelRefused, Dropping, CommitInv
<1>3. CASE CancelDrops
  <2>1. ~Dropping(s)' /\ UNCHANGED pipeVars
    BY <1>3, CancelDropsFacts DEF Dropping, Drops
  <2>2. CASE s # cap.of
    BY <1>3, <2>1, <2>2, CancelDropsFacts DEF Commit, CommitInv, RowWritten, pipeVars, historyVars, Anyone, TypeInv
  <2>3. CASE s = cap.of
    <3>1. Dropping(s)
      BY <1>3, <2>3, CancelDropsFacts DEF Dropping
    <3>2. delivery # s /\ (s \in cancelled' \/ pipe[s] \in {"none", "closed", "done"})
      BY <1>3, <2>3, <3>1, CancelDropsFacts DEF Commit, CommitInv
    <3> QED
      BY <2>1, <3>2 DEF Commit, CommitInv, pipeVars
  <2> QED
    BY <2>2, <2>3
<1> QED
  BY <1>1, <1>2, <1>3 DEF CancelActs

LEMMA PipelineCommit ==
  ASSUME TypeInv, ControlInv, CommitInv, NEW s \in Sessions, Pipeline(s)
  PROVE  CommitInv'
<1> SUFFICES ASSUME NEW t \in Sessions PROVE Commit(t)'
  BY DEF CommitInv
<1>1. PipeStep(s)
  BY PipelineFacts
<1>2. Commit(t) /\ (Dropping(t)' <=> Dropping(t))
  BY <1>1 DEF PipeStep, CommitInv, Dropping
<1>3. CASE t # s
  <2>1. pipe[t] \in {"committed", "paste", "record"} => delivery' = t
    BY <1>1, <1>2, <1>3 DEF PipeStep, Commit, ControlInv, Resting
  <2> QED
    BY <1>1, <1>2, <1>3, <2>1 DEF PipeStep, Commit
<1>4. CASE t = s
  <2> USE <1>2, <1>4 DEF Commit, PipeGoes, PipeAt, TypeInv, TypeOK, pipeVars, historyVars
  <2>1. CASE PipeStarts(s) \/ PipeTranscribes(s) \/ PipeReadsText(s) \/ PipeChecksAgain(s) \/ PipePastes(s)
    BY <2>1 DEF PipeStarts, PipeTranscribes, PipeReadsText, PipeChecksAgain, PipePastes
  <2>2. CASE PipeCommits(s)
    BY <2>2 DEF PipeCommits, InCharge
  <2>3. CASE PipeConcludes(s)
    <3>1. PICK row \in Outcomes(pipe[s]) : Claim(s, row)
      BY <2>3 DEF PipeConcludes
    <3>2. row \in Rows /\ row # "cancelled" /\ pipe[s] \in {"empty", "command", "committed", "record", "raised"}
      BY DEF Outcomes, Rows
    <3>3. RowWritten(s, row)
      BY <3>1, <3>2, RowFacts
    <3>4. "cancelled" \in history'[s] => "cancelled" \in history[s]
      BY <3>2, <3>3 DEF RowWritten
    <3> QED
      BY <2>3, <3>2, <3>4 DEF PipeConcludes
  <2>4. CASE PipeGivesUp(s) \/ PipeResets(s) \/ PipeEnds(s)
    BY <2>4 DEF PipeGivesUp, PipeResets, PipeEnds
  <2>5. CASE PipeCloses(s)
    BY <2>5, SessionFacts DEF PipeCloses
  <2>6. CASE PipeEndsStream(s) \/ PipeLeaves(s)
    BY <2>6 DEF PipeEndsStream, PipeLeaves
  <2> QED
    BY <2>1, <2>2, <2>3, <2>4, <2>5, <2>6 DEF Pipeline
<1> QED
  BY <1>3, <1>4

LEMMA NextCommit == TypeInv /\ ControlInv /\ CommitInv /\ [Next]_vars => CommitInv'
<1>1. TypeInv /\ ControlInv /\ CommitInv /\ (OutsideActs \/ UNCHANGED vars) => CommitInv'
  BY OutsideFacts, CommitKept DEF CommitInv, Dropping, vars
<1> QED
  BY <1>1, NextGroups, StartCommit, FinishCommit, CancelCommit, PipelineCommit

-------------------------------------------------------------------------------
(* What was pasted.                                                        *)

LEMMA InitPaste == Init => PasteInv
BY SessionFacts DEF Init, PasteInv, Pasted

(* The dictation of a pipeline is not the one a handler is busy with.      *)
LEMMA PipelineIsNotYoung ==
  ASSUME TypeInv, ControlInv, NEW s \in Sessions, pipe[s] # "none"
  PROVE  /\ state = "RECORDING" => session # s
         /\ cap.at \in StartPlaces \cup FinishPlaces => cap.of # s /\ session # s
         /\ s <= last
BY SessionFacts DEF ControlInv, Young, TypeInv, TypeOK, CapShape, Anyone

LEMMA StartPaste == TypeInv /\ ControlInv /\ CommitInv /\ PasteInv /\ Start => PasteInv'
<1> SUFFICES ASSUME TypeInv, ControlInv, CommitInv, PasteInv, Start, NEW s \in Sessions PROVE Pasted(s)'
  BY DEF PasteInv
<1> USE SessionFacts, FreeFacts
<1>0. Pasted(s) /\ (s \in pasted => pipe[s] # "none")
  BY DEF PasteInv, Pasted
<1>1. CASE StartSteps
  <2>1. StartGoesOn /\ ~Dropping(s)'
    BY <1>1, StartStepFacts DEF StartGoesOn, Dropping, Drops, StartPlaces
  <2>2. pipe[s] # "none" => session # s /\ cap.of # s
    BY <2>1, PipelineIsNotYoung DEF StartGoesOn
  <2>3. (pipe[s] # "none" => session' # s) /\ (session = s => UNCHANGED stateVars \/ pipe[s] = "none")
    BY <2>1, <2>2 DEF StartGoesOn, stateVars
  <2> QED
    BY <1>0, <2>1, <2>2, <2>3 DEF Pasted, StartGoesOn, pipeVars, historyVars, outsideVars, Undisturbed
<1>2. CASE StartBegins
  <2>1. /\ UNCHANGED pipeVars /\ disturbed' = disturbed /\ ~Dropping(s)' /\ session' = last + 1 /\ last \in Nat
        /\ state \in {"IDLE", "PROCESSING"}
    BY <1>2, CaptureFacts DEF StartBegins, Dropping, Drops, Places, Capture, outsideVars, TypeInv, TypeOK
  <2>2. pipe[s] # "none" => session' # s
    BY <2>1, PipelineIsNotYoung
  <2>3. state = "PROCESSING" => ~(delivery = s /\ session = s)
    BY <1>2 DEF StartBegins, TooLate
  <2>4. s \in pasted => "cancelled" \notin history'[s]
    <3> SUFFICES ASSUME s \in pasted PROVE "cancelled" \notin history'[s]
      OBVIOUS
    <3>1. CASE state = "IDLE"
      BY <1>0, <1>2, <3>1 DEF StartBegins, historyVars, Pasted
    <3>2. CASE state = "PROCESSING"
      <4>1. session # s /\ session \in Anyone /\ DropSession(session)
        BY <1>0, <1>2, <2>3, <3>2 DEF Pasted, StartBegins, TypeInv, TypeOK
      <4> QED
        BY <1>0, <4>1, DropFacts DEF Pasted, TypeInv, RowWritten, historyVars
    <3> QED
      BY <2>1, <3>1, <3>2
  <2>5. pipe[s] \in {"paste", "record"} /\ Undisturbed(s) => FALSE
    BY <1>0, <2>1, <2>3 DEF Pasted, CommitInv, Commit
  <2> QED
    BY <1>0, <2>1, <2>2, <2>4, <2>5 DEF Pasted, pipeVars, Undisturbed
<1> QED
  BY <1>1, <1>2 DEF Start, StartSteps

LEMMA FinishPaste == TypeInv /\ ControlInv /\ PasteInv /\ FinishActs => PasteInv'
<1> SUFFICES ASSUME TypeInv, ControlInv, PasteInv, FinishActs, NEW s \in Sessions PROVE Pasted(s)'
  BY DEF PasteInv
<1> USE SessionFacts, FreeFacts
<1>0. Pasted(s) /\ (s \in pasted => pipe[s] # "none")
  BY DEF PasteInv, Pasted
<1>1. CASE FinishBegins
  BY <1>0, <1>1, FinishBeginsFacts DEF Pasted, Dropping, Drops, pipeVars, historyVars, outsideVars, Undisturbed
<1>2. CASE UNCHANGED <<stateVars, cap, captureVars, lease, streamVars, pipeVars, cancelled, historyVars, outsideVars>>
  BY <1>0, <1>2 DEF Pasted, Dropping, stateVars, pipeVars, historyVars, outsideVars, Undisturbed
<1>3. CASE ChooseWindow
  <2>1. cap.at = "release" /\ ~Dropping(s)' /\ session' \in {session, cap.of}
        /\ UNCHANGED <<state, pipeVars, historyVars, outsideVars>>
    BY <1>3, CaptureFacts DEF ChooseWindow, Dropping, Drops, Places, TypeInv
  <2>2. pipe[s] # "none" => cap.of # s /\ session # s
    BY <2>1, PipelineIsNotYoung DEF FinishPlaces
  <2> QED
    BY <1>0, <2>1, <2>2 DEF Pasted, pipeVars, historyVars, outsideVars, Undisturbed
<1>4. CASE FinishEmpty \/ FinishSpawns \/ FinishFails
  <2>1. ~Dropping(s)' /\ session' \in {session, None} /\ (s = cap.of => s \notin pasted) /\ cap.at = "stop"
    BY <1>4, FinishEndsFacts DEF Dropping, Drops, stateVars, Young
  <2>2. pipe[s] # "none" => cap.of # s /\ session # s
    BY <2>1, PipelineIsNotYoung DEF FinishPlaces
  <2>3. s = cap.of => pipe'[s] \notin {"paste", "record"} /\ s \notin pasted'
    BY <1>4, <2>1, FinishEndsFacts DEF Young, TypeInv, TypeOK
  <2> QED
    BY <1>0, <1>4, <2>1, <2>2, <2>3, FinishEndsFacts DEF Pasted, outsideVars, Undisturbed
<1> QED
  BY <1>1, <1>2, <1>3, <1>4, LimitFacts DEF FinishActs, FinishSteps

LEMMA CancelPaste == TypeInv /\ ControlInv /\ CommitInv /\ PasteInv /\ CancelActs => PasteInv'
<1> SUFFICES ASSUME TypeInv, ControlInv, CommitInv, PasteInv, CancelActs, NEW s \in Sessions PROVE Pasted(s)'
  BY DEF PasteInv
<1> USE SessionFacts, FreeFacts
<1>0. Pasted(s) /\ Commit(s)
  BY DEF PasteInv, CommitInv
<1>1. CASE CancelBegins
  <2>1. Dropping(s)' => s = session
    BY <1>1, CancelBeginsFacts DEF Dropping
  <2> QED
    BY <1>0, <1>1, <2>1, CancelBeginsFacts
       DEF Pasted, Commit, pipeVars, historyVars, outsideVars, Undisturbed
<1>2. CASE CancelRefused
  BY <1>0, <1>2 DEF CancelRefused, Pasted, Dropping, stateVars, pipeVars, historyVars, outsideVars, Undisturbed
<1>3. CASE CancelDrops
  <2>1. ~Dropping(s)' /\ UNCHANGED <<stateVars, pipeVars, outsideVars>>
    BY <1>3, CancelDropsFacts DEF Dropping, Drops
  <2>2. s \in pasted => history'[s] = history[s]
    BY <1>0, <1>3, CancelDropsFacts DEF Pasted, Dropping, RowWritten, historyVars, Anyone
  <2> QED
    BY <1>0, <2>1, <2>2 DEF Pasted, stateVars, pipeVars, outsideVars, Undisturbed
<1> QED
  BY <1>1, <1>2, <1>3 DEF CancelActs

LEMMA PipelinePaste ==
  ASSUME TypeInv, ControlInv, CommitInv, PasteInv, NEW s \in Sessions, Pipeline(s)
  PROVE  PasteInv'
<1> SUFFICES ASSUME NEW t \in Sessions PROVE Pasted(t)'
  BY DEF PasteInv
<1>1. PipeStep(s)
  BY PipelineFacts
<1>2. Pasted(t) /\ Commit(t) /\ (Dropping(t)' <=> Dropping(t)) /\ (Undisturbed(t)' <=> Undisturbed(t))
  BY <1>1 DEF PipeStep, PasteInv, CommitInv, Dropping, Undisturbed, outsideVars
<1>3. CASE t # s
  <2>1. pipe[t] \in {"record", "raised", "reset"} /\ delivery = t => delivery' = t
    BY <1>1, <1>3 DEF PipeStep, ControlInv, Resting
  <2>2. session = t => UNCHANGED stateVars
    BY <1>1, <1>3 DEF PipeStep
  <2>3. session # t => session' # t
    BY <1>1, SessionFacts DEF PipeStep, stateVars
  <2> QED
    BY <1>1, <1>2, <1>3, <2>1, <2>2, <2>3 DEF PipeStep, Pasted, stateVars
<1>4. CASE t = s
  <2> USE <1>2, <1>4, SessionFacts
  <2> USE DEF Pasted, PipeGoes, PipeAt, TypeInv, TypeOK, stateVars, pipeVars, historyVars
  <2>1. CASE PipeStarts(s) \/ PipeTranscribes(s) \/ PipeReadsText(s) \/ PipeCommits(s)
    BY <2>1 DEF PipeStarts, PipeTranscribes, PipeReadsText, PipeCommits
  <2>2. CASE PipeChecksAgain(s) \/ PipePastes(s)
    BY <2>2 DEF PipeChecksAgain, PipePastes, InCharge, Commit
  <2>3. CASE PipeConcludes(s)
    <3>1. PICK row \in Outcomes(pipe[s]) : Claim(s, row)
      BY <2>3 DEF PipeConcludes
    <3>2. row \in Rows /\ row # "cancelled"
      BY DEF Outcomes, Rows
    <3>3. RowWritten(s, row)
      BY <3>1, <3>2, RowFacts
    <3>4. "cancelled" \in history'[s] => "cancelled" \in history[s]
      BY <3>2, <3>3 DEF RowWritten
    <3>5. pipe[s] \in {"empty", "command", "committed", "record", "raised"}
      BY DEF Outcomes
    <3> QED
      BY <2>3, <3>4, <3>5 DEF PipeConcludes
  <2>4. CASE PipeGivesUp(s)
    BY <2>4 DEF PipeGivesUp, Commit
  <2>5. CASE PipeResets(s) \/ PipeEnds(s)
    BY <2>5 DEF PipeResets, PipeEnds, ResetToIdle
  <2>6. CASE PipeCloses(s)
    BY <2>6 DEF PipeCloses
  <2>7. CASE PipeEndsStream(s) \/ PipeLeaves(s)
    BY <2>7 DEF PipeEndsStream, PipeLeaves
  <2> QED
    BY <2>1, <2>2, <2>3, <2>4, <2>5, <2>6, <2>7 DEF Pipeline
<1> QED
  BY <1>3, <1>4

LEMMA OutsidePaste == TypeInv /\ ControlInv /\ PasteInv /\ OutsideActs => PasteInv'
<1> SUFFICES ASSUME TypeInv, ControlInv, PasteInv, OutsideActs, NEW s \in Sessions PROVE Pasted(s)'
  BY DEF PasteInv
<1>1. Pasted(s) /\ (Dropping(s)' <=> Dropping(s)) /\ (session # s => session' # s)
  BY OutsideFacts, SessionFacts DEF PasteInv, Dropping
<1>2. Undisturbed(s)' => Undisturbed(s) /\ ((session = s => UNCHANGED <<session, state>>) \/ (session = s => state = "IDLE"))
  BY OutsideFacts, SessionFacts DEF Undisturbed
<1> QED
  BY <1>1, <1>2, OutsideFacts DEF Pasted, pipeVars, historyVars

LEMMA NextPaste == TypeInv /\ ControlInv /\ CommitInv /\ PasteInv /\ [Next]_vars => PasteInv'
<1>1. PasteInv /\ UNCHANGED vars => PasteInv'
  BY DEF PasteInv, Pasted, Dropping, Undisturbed, vars, stateVars, pipeVars, historyVars, outsideVars
<1> QED
  BY <1>1, NextGroups, StartPaste, FinishPaste, CancelPaste, PipelinePaste, OutsidePaste

-------------------------------------------------------------------------------
(* Only a retry or a reset takes the state from under a handler.           *)

LEMMA InitHandler == Init => HandlerInv
BY FreeFacts DEF Init, HandlerInv

LEMMA StartHandler == TypeInv /\ HandlerInv /\ Start => HandlerInv'
<1> SUFFICES ASSUME TypeInv, HandlerInv, Start PROVE HandlerInv'
  OBVIOUS
<1> USE SessionFacts, FreeFacts
<1>1. CASE StartSteps
  <2>1. StartGoesOn
    BY <1>1, StartStepFacts
  <2>2. cap' # Free => UNCHANGED stateVars
    BY <1>1, <2>1, CaptureFacts
       DEF StartSteps, OpenMic, CheckStart, ArmStart, OpenStream, OwnStream, StartReturns, StartFails, CaptureEnds
  <2> QED
    BY <2>1, <2>2 DEF StartGoesOn, HandlerInv, StartPlaces, FinishPlaces, stateVars, outsideVars
<1>2. CASE StartBegins
  BY <1>2, CaptureFacts DEF StartBegins, HandlerInv, FinishPlaces, Places, Anyone, TypeInv, TypeOK, Sessions, outsideVars
<1> QED
  BY <1>1, <1>2 DEF Start, StartSteps

LEMMA FinishHandler == TypeInv /\ ControlInv /\ HandlerInv /\ FinishActs => HandlerInv'
<1> SUFFICES ASSUME TypeInv, ControlInv, HandlerInv, FinishActs PROVE HandlerInv'
  OBVIOUS
<1> USE SessionFacts, FreeFacts
<1>1. CASE FinishBegins
  BY <1>1, FinishBeginsFacts DEF HandlerInv, StartPlaces, outsideVars
<1>2. CASE UNCHANGED <<stateVars, cap, captureVars, lease, streamVars, pipeVars, cancelled, historyVars, outsideVars>>
  BY <1>2 DEF HandlerInv, stateVars, outsideVars
<1>3. CASE ChooseWindow
  BY <1>3, CaptureFacts DEF ChooseWindow, HandlerInv, StartPlaces, FinishPlaces, Places, outsideVars, TypeInv
<1>4. CASE FinishEmpty \/ FinishSpawns \/ FinishFails
  BY <1>4, FinishEndsFacts DEF HandlerInv, StartPlaces, FinishPlaces, stateVars, outsideVars
<1> QED
  BY <1>1, <1>2, <1>3, <1>4, LimitFacts DEF FinishActs, FinishSteps

LEMMA CancelHandler == TypeInv /\ ControlInv /\ HandlerInv /\ CancelActs => HandlerInv'
<1> SUFFICES ASSUME TypeInv, ControlInv, HandlerInv, CancelActs PROVE HandlerInv'
  OBVIOUS
<1>1. CASE CancelBegins
  BY <1>1, CancelBeginsFacts DEF HandlerInv, StartPlaces, FinishPlaces
<1>2. CASE CancelRefused
  BY <1>2 DEF CancelRefused, HandlerInv, stateVars, outsideVars
<1>3. CASE CancelDrops
  BY <1>3, CancelDropsFacts, FreeFacts DEF HandlerInv, stateVars, outsideVars
<1> QED
  BY <1>1, <1>2, <1>3 DEF CancelActs

LEMMA PipelineHandler ==
  ASSUME TypeInv, ControlInv, HandlerInv, NEW s \in Sessions, Pipeline(s)
  PROVE  HandlerInv'
<1>1. PipeStep(s)
  BY PipelineFacts
<1>2. cap.at \in StartPlaces \cup FinishPlaces => session # s
  BY <1>1, PipelineIsNotYoung DEF PipeStep
<1> QED
  BY <1>1, <1>2 DEF PipeStep, HandlerInv, stateVars, outsideVars

LEMMA OutsideHandler == TypeInv /\ HandlerInv /\ OutsideActs => HandlerInv'
<1> SUFFICES ASSUME TypeInv, HandlerInv, OutsideActs PROVE HandlerInv'
  OBVIOUS
<1>1. CASE RetryBegins
  BY <1>1 DEF RetryBegins, HandlerInv
<1>2. CASE ResetAsks
  BY <1>2 DEF ResetAsks, HandlerInv, stateVars
<1>3. CASE RetryEnds \/ ResetState
  <2>1. cap' = cap /\ disturbed' = disturbed \cup ({session} \ {None}) /\ session' \in {session, None}
    BY <1>3 DEF RetryEnds, ResetState
  <2>2. cap.of # None /\ cap.of \notin disturbed' => cap.at \notin StartPlaces \cup FinishPlaces
    BY <2>1 DEF HandlerInv
  <2> QED
    BY <2>1, <2>2 DEF HandlerInv
<1> QED
  BY <1>1, <1>2, <1>3 DEF OutsideActs

LEMMA NextHandler == TypeInv /\ ControlInv /\ HandlerInv /\ [Next]_vars => HandlerInv'
<1>1. HandlerInv /\ UNCHANGED vars => HandlerInv'
  BY DEF HandlerInv, vars, stateVars, outsideVars
<1> QED
  BY <1>1, NextGroups, StartHandler, FinishHandler, CancelHandler, PipelineHandler, OutsideHandler

-------------------------------------------------------------------------------
(* What a dictation holds.                                                 *)

LEMMA InitOwner == Init => OwnerInv
BY SessionFacts, FreeFacts DEF Init, OwnerInv, OwnersHold, MicHasOwner, LeaseHasOwner

LEMMA StartOwner == TypeInv /\ ControlInv /\ HandlerInv /\ OwnerInv /\ Start => OwnerInv'
<1> SUFFICES ASSUME TypeInv, ControlInv, HandlerInv, OwnerInv, Start PROVE OwnerInv'
  OBVIOUS
<1> USE SessionFacts, FreeFacts
<1> USE DEF Undisturbed
<1>1. CASE StartSteps
  <2>1. StartGoesOn
    BY <1>1, StartStepFacts
  <2>2. cap.of \in Sessions /\ Young(cap.of) /\ session \in {cap.of, None}
    BY <2>1 DEF StartGoesOn, ControlInv, TypeInv, CapShape, Anyone
  <2>3. cap' # Free => UNCHANGED stateVars /\ (mic' = mic \/ mic' \in {cap.of, None})
    BY <1>1, <2>1, CaptureFacts
       DEF StartSteps, OpenMic, CheckStart, ArmStart, OpenStream, OwnStream, StartReturns, StartFails, CaptureEnds,
           captureVars
  <2>4. cap' = Free /\ cap.of \notin disturbed =>
          /\ mic' = cap.of => session' = cap.of /\ state' = "RECORDING"
          /\ cap.of \in lease' => session' = cap.of
    <3> SUFFICES ASSUME cap' = Free, cap.of \notin disturbed
                 PROVE  (mic' = cap.of => session' = cap.of /\ state' = "RECORDING") /\ (cap.of \in lease' => session' = cap.of)
      OBVIOUS
    <3>1. StillRecording(cap.of)
      BY <2>1, <2>2 DEF StartGoesOn, HandlerInv, StillRecording
    <3>2. CASE CheckStart
      BY <2>2, <3>1, <3>2 DEF CheckStart, Capture, Free, captureVars, OwnerInv
    <3>3. CASE StartReturns
      BY <3>1, <3>3 DEF StartReturns, StillRecording, stateVars
    <3>4. CASE StartFails
      BY <2>2, <3>1, <3>4 DEF StartFails, StillRecording
    <3>5. CASE OpenMic \/ ArmStart \/ OpenStream \/ OwnStream
      BY <3>1, <3>5 DEF OpenMic, ArmStart, OpenStream, OwnStream, Capture, Free
    <3> QED
      BY <1>1, <3>2, <3>3, <3>4, <3>5 DEF StartSteps
  <2>5. cap' = Free => mic' \in {mic, None}
    BY <1>1
       DEF StartSteps, OpenMic, CheckStart, ArmStart, OpenStream, OwnStream, StartReturns, StartFails,
           Capture, Free, captureVars
  <2>6. cap'.at \in {"open", "opened", "arm"} => cap.of \notin lease'
    BY <1>1, CaptureFacts
       DEF StartSteps, OpenMic, CheckStart, ArmStart, OpenStream, OwnStream, StartReturns, StartFails,
           CaptureEnds, OwnerInv, Places, TypeInv
  <2>7. MicHasOwner'
    BY <2>1, <2>2, <2>3, <2>4, <2>5 DEF StartGoesOn, OwnerInv, OwnersHold, MicHasOwner, outsideVars, stateVars
  <2>8. LeaseHasOwner'
    BY <2>1, <2>2, <2>3, <2>4 DEF StartGoesOn, OwnerInv, OwnersHold, LeaseHasOwner, outsideVars, stateVars, pipeVars
  <2> QED
    BY <2>1, <2>2, <2>6, <2>7, <2>8 DEF StartGoesOn, OwnerInv, OwnersHold, StartPlaces, pipeVars, Young
<1>2. CASE StartBegins
  <2>1. /\ cap.of = None /\ cap'.at = "open" /\ cap'.of = last + 1 /\ session' = last + 1 /\ last + 1 \in Sessions
        /\ mic' = mic /\ UNCHANGED <<pipeVars, outsideVars>> /\ state # "RECORDING"
    BY <1>2, CaptureFacts DEF StartBegins, Places, Anyone, TypeInv, TypeOK, Sessions, captureVars
  <2>2. lease' = IF state = "IDLE" THEN lease ELSE lease \ {session}
    BY <1>2, DropFacts DEF StartBegins, TypeInv, TypeOK
  <2>3. last + 1 \notin lease
    BY <2>1 DEF ControlInv, TypeInv, TypeOK
  <2>4. \A s \in lease' : s \notin disturbed => pipe[s] \notin {"none", "done"}
    BY <2>1, <2>2 DEF OwnerInv, OwnersHold, LeaseHasOwner, HandlerInv, TypeInv, TypeOK
  <2> QED
    BY <2>1, <2>2, <2>3, <2>4 DEF OwnerInv, OwnersHold, MicHasOwner, LeaseHasOwner, pipeVars, outsideVars, TypeInv, TypeOK
<1> QED
  BY <1>1, <1>2 DEF Start, StartSteps

LEMMA FinishOwner == TypeInv /\ ControlInv /\ OwnerInv /\ FinishActs => OwnerInv'
<1> SUFFICES ASSUME TypeInv, ControlInv, OwnerInv, FinishActs PROVE OwnerInv'
  OBVIOUS
<1> USE SessionFacts, FreeFacts
<1> USE DEF Undisturbed, OwnerInv, OwnersHold, MicHasOwner, LeaseHasOwner
<1>1. CASE FinishBegins
  <2>1. /\ cap.of = None /\ cap'.at = "release" /\ cap'.of = session /\ session' = session
        /\ UNCHANGED <<mic, lease, pipe, disturbed>>
    BY <1>1, FinishBeginsFacts DEF pipeVars, outsideVars
  <2> QED
    BY <2>1 DEF TypeInv, TypeOK
<1>2. CASE UNCHANGED <<stateVars, cap, captureVars, lease, streamVars, pipeVars, cancelled, historyVars, outsideVars>>
  BY <1>2 DEF stateVars, captureVars, pipeVars, outsideVars
<1>3. CASE ChooseWindow
  <2>1. /\ cap.at = "release" /\ cap'.at = "stop" /\ cap'.of = cap.of /\ session' \in {session, cap.of}
        /\ UNCHANGED <<state, mic, lease, pipe, disturbed>>
    BY <1>3, CaptureFacts DEF ChooseWindow, Places, TypeInv, pipeVars, outsideVars
  <2> QED
    <3>1. session \in {cap.of, None}
      BY <2>1 DEF ControlInv, FinishPlaces
    <3> QED
      BY <2>1, <3>1 DEF TypeInv, TypeOK
<1>4. CASE FinishEmpty \/ FinishSpawns \/ FinishFails
  <2>1. /\ cap' = Free /\ mic' = None /\ disturbed' = disturbed /\ lease' \subseteq lease /\ session \in {cap.of, None}
        /\ \A s \in Sessions \ {cap.of} : pipe'[s] = pipe[s]
    BY <1>4, FinishEndsFacts DEF outsideVars
  <2>2. pipe'[cap.of] \in {"none", "wait"} /\ (cap.of \in lease' => pipe'[cap.of] = "wait")
    BY <1>4, FinishEndsFacts DEF Young, TypeInv, TypeOK
  <2>3. \A s \in lease' : s \notin disturbed => pipe'[s] \notin {"none", "done"}
    BY <2>1, <2>2 DEF TypeInv, TypeOK
  <2> QED
    BY <2>1, <2>2, <2>3 DEF TypeInv, TypeOK
<1> QED
  BY <1>1, <1>2, <1>3, <1>4, LimitFacts DEF FinishActs, FinishSteps

LEMMA CancelOwner == TypeInv /\ ControlInv /\ OwnerInv /\ CancelActs => OwnerInv'
<1> SUFFICES ASSUME TypeInv, ControlInv, OwnerInv, CancelActs PROVE OwnerInv'
  OBVIOUS
<1> USE SessionFacts, FreeFacts
<1> USE DEF Undisturbed, OwnerInv, OwnersHold, MicHasOwner, LeaseHasOwner
<1>1. CASE CancelBegins
  <2>1. /\ cap.of = None /\ cap'.of = session /\ mic' = mic /\ lease' = lease /\ pipe' = pipe /\ disturbed' = disturbed
        /\ cap'.at \in Drops /\ (cap'.at = "dropProcessing" => state = "PROCESSING") /\ session \in Anyone
    BY <1>1, CancelBeginsFacts DEF pipeVars, outsideVars, Drops
  <2> QED
    BY <2>1 DEF Drops, Anyone, TypeInv, TypeOK
<1>2. CASE CancelRefused
  BY <1>2 DEF CancelRefused, stateVars, captureVars, pipeVars, outsideVars
<1>3. CASE CancelDrops
  <2>1. /\ cap' = Free /\ lease' = lease \ {cap.of} /\ state # "RECORDING"
        /\ UNCHANGED <<state, session, pipe, disturbed>>
        /\ mic' = None \/ (cap.at = "dropProcessing" /\ mic' = mic)
    BY <1>3, CancelDropsFacts DEF stateVars, pipeVars, outsideVars
  <2> QED
    BY <2>1
<1> QED
  BY <1>1, <1>2, <1>3 DEF CancelActs

(* A pipeline gives its lease back before it is through.                   *)
LEMMA PipelineLease ==
  ASSUME TypeInv, OwnerInv, NEW s \in Sessions, Pipeline(s), s \in lease'
  PROVE  pipe'[s] \notin {"none", "closed", "done"}
<1> USE DEF TypeInv, TypeOK, PipeGoes, PipeAt, pipeVars
<1>1. CASE PipeStarts(s) \/ PipeTranscribes(s) \/ PipeReadsText(s) \/ PipeCommits(s) \/ PipeChecksAgain(s) \/ PipePastes(s)
  BY <1>1 DEF PipeStarts, PipeTranscribes, PipeReadsText, PipeCommits, PipeChecksAgain, PipePastes
<1>2. CASE PipeConcludes(s) \/ PipeGivesUp(s) \/ PipeResets(s)
  BY <1>2 DEF PipeConcludes, PipeGivesUp, PipeResets
<1>3. CASE PipeCloses(s) \/ PipeEnds(s)
  BY <1>3 DEF PipeCloses, PipeEnds, OwnerInv
<1>4. CASE PipeEndsStream(s) \/ PipeLeaves(s)
  BY <1>4 DEF PipeEndsStream, PipeLeaves
<1> QED
  BY <1>1, <1>2, <1>3, <1>4 DEF Pipeline

LEMMA PipelineOwner ==
  ASSUME TypeInv, ControlInv, OwnerInv, NEW s \in Sessions, Pipeline(s)
  PROVE  OwnerInv'
<1> USE DEF Undisturbed, OwnerInv, OwnersHold, MicHasOwner, LeaseHasOwner
<1>1. PipeStep(s)
  BY PipelineFacts
<1>2. state = "RECORDING" => UNCHANGED stateVars
  BY <1>1, PipelineIsNotYoung DEF PipeStep
<1>3. \A t \in lease' : t \in lease /\ (t # s => pipe'[t] = pipe[t] /\ (session = t => session' = t))
  BY <1>1 DEF PipeStep, TypeInv, TypeOK, stateVars
<1>4. s \in lease' => pipe'[s] \notin {"none", "closed", "done"}
  BY PipelineLease
<1>5. cap' = cap /\ mic' = mic /\ disturbed' = disturbed
  BY <1>1 DEF PipeStep, outsideVars
<1> QED
  BY <1>2, <1>3, <1>4, <1>5 DEF stateVars, TypeInv, TypeOK

LEMMA OutsideOwner == TypeInv /\ OwnerInv /\ OutsideActs => OwnerInv'
<1> SUFFICES ASSUME TypeInv, OwnerInv, OutsideActs PROVE OwnerInv'
  OBVIOUS
<1> USE DEF Undisturbed, OwnerInv, OwnersHold, MicHasOwner, LeaseHasOwner
<1>1. /\ UNCHANGED <<cap, lease, pipe>> /\ mic' \in {mic, None}
      /\ disturbed \subseteq disturbed'
      /\ (state = "IDLE" /\ session' = session) \/ (session \in disturbed' \/ session = None)
  BY OutsideFacts DEF pipeVars
<1> QED
  BY <1>1, SessionFacts DEF TypeInv, TypeOK

LEMMA NextOwner == TypeInv /\ ControlInv /\ HandlerInv /\ OwnerInv /\ [Next]_vars => OwnerInv'
<1>1. OwnerInv /\ UNCHANGED vars => OwnerInv'
  BY DEF OwnerInv, OwnersHold, MicHasOwner, LeaseHasOwner, Undisturbed, vars, stateVars, captureVars, pipeVars, outsideVars
<1> QED
  BY <1>1, NextGroups, StartOwner, FinishOwner, CancelOwner, PipelineOwner, OutsideOwner

-------------------------------------------------------------------------------
(* The history.                                                            *)

LEMMA InitHistory == Init => HistoryInv
BY SessionFacts DEF Init, HistoryInv, Going

(* Whoever writes a row, the session has one then.                         *)
LEMMA RowLeavesTrace ==
  ASSUME TypeInv, HistoryInv, NEW s \in Sessions, NEW row, RowWritten(s, row)
  PROVE  history'[s] # {} /\ \A t \in claimed' : history'[t] # {}
<1>1. history'[s] # {}
  BY DEF RowWritten, HistoryInv
<1>2. \A t \in claimed' : t \in Sessions /\ (t # s => t \in claimed /\ history'[t] = history[t])
  BY DEF RowWritten, TypeInv, TypeOK
<1> QED
  BY <1>1, <1>2 DEF HistoryInv

(* A pipeline that no handler is busy with has its row, or the application.*)
LEMMA RowThere ==
  ASSUME TypeInv, HistoryInv, NEW s \in Sessions, Undisturbed(s), pipe[s] # "none", cap.of # s
  PROVE  history[s] # {} \/ (session = s /\ state = "PROCESSING" /\ pipe[s] \in Going)
<1>1. pipe[s] \in Going \cup {"reset", "close", "closing", "discarding", "closed", "done"}
  BY DEF TypeInv, TypeOK, Stages, Ending, Resting, Going
<1> QED
  BY <1>1 DEF HistoryInv, Settled

(* Nothing to show for a dictation without a pipeline, and nothing changes *)
(* for one that has its row.                                               *)
LEMMA HistoryKept ==
  ASSUME TypeInv, HistoryInv, \A t \in claimed' : history'[t] # {},
         \A s \in Sessions : Undisturbed(s)' /\ pipe'[s] # "none" => history'[s] # {}
  PROVE  HistoryInv'
BY DEF HistoryInv, Settled, Going

LEMMA StartHistory == TypeInv /\ ControlInv /\ HistoryInv /\ Start => HistoryInv'
<1> SUFFICES ASSUME TypeInv, ControlInv, HistoryInv, Start PROVE HistoryInv'
  OBVIOUS
<1> USE SessionFacts, FreeFacts
<1>1. CASE StartSteps
  <2>1. StartGoesOn
    BY <1>1, StartStepFacts
  <2>2. \A s \in Sessions : Undisturbed(s) /\ pipe[s] # "none" => history[s] # {}
    BY <2>1, PipelineIsNotYoung, RowThere DEF StartGoesOn
  <2> QED
    BY <2>1, <2>2, HistoryKept DEF StartGoesOn, HistoryInv, pipeVars, historyVars, outsideVars, Undisturbed
<1>2. CASE StartBegins
  <2>1. UNCHANGED <<pipe, disturbed>> /\ cap.of = None /\ session \in Anyone
    BY <1>2 DEF StartBegins, pipeVars, outsideVars, TypeInv, TypeOK
  <2>2. \A s \in Sessions : Undisturbed(s) /\ pipe[s] # "none"
          => history[s] # {} \/ (session = s /\ state = "PROCESSING")
    BY <2>1, RowThere
  <2>3. CASE state = "IDLE"
    BY <1>2, <2>1, <2>2, <2>3, HistoryKept DEF StartBegins, HistoryInv, historyVars, Undisturbed
  <2>4. CASE state # "IDLE"
    <3>1. DropSession(session)
      BY <1>2, <2>4 DEF StartBegins
    <3>2. CASE session = None
      <4>1. UNCHANGED historyVars
        BY <2>1, <3>1, <3>2, DropFacts DEF TypeInv
      <4> QED
        BY <2>1, <2>2, <3>2, <4>1, HistoryKept DEF HistoryInv, historyVars, Undisturbed
    <3>3. CASE session # None
      <4>1. RowWritten(session, "cancelled") /\ session \in Sessions
        BY <2>1, <3>1, <3>3, DropFacts DEF TypeInv, Anyone
      <4>2. history'[session] # {} /\ \A t \in claimed' : history'[t] # {}
        BY <4>1, RowLeavesTrace
      <4>3. \A s \in Sessions : Undisturbed(s)' /\ pipe'[s] # "none" => history'[s] # {}
        BY <2>1, <2>2, <4>1, <4>2 DEF Undisturbed, RowWritten
      <4> QED
        BY <4>2, <4>3, HistoryKept
    <3> QED
      BY <3>2, <3>3
  <2> QED
    BY <2>3, <2>4
<1> QED
  BY <1>1, <1>2 DEF Start, StartSteps

LEMMA FinishHistory == TypeInv /\ ControlInv /\ HandlerInv /\ HistoryInv /\ FinishActs => HistoryInv'
<1> SUFFICES ASSUME TypeInv, ControlInv, HandlerInv, HistoryInv, FinishActs PROVE HistoryInv'
  OBVIOUS
<1> USE SessionFacts, FreeFacts
<1>1. CASE FinishBegins
  <2>1. \A s \in Sessions : Undisturbed(s) /\ pipe[s] # "none" => history[s] # {}
    BY <1>1, FinishBeginsFacts, RowThere
  <2> QED
    BY <1>1, <2>1, FinishBeginsFacts, HistoryKept DEF HistoryInv, pipeVars, historyVars, outsideVars, Undisturbed
<1>2. CASE UNCHANGED <<stateVars, cap, captureVars, lease, streamVars, pipeVars, cancelled, historyVars, outsideVars>>
  BY <1>2 DEF HistoryInv, Settled, Undisturbed, stateVars, pipeVars, historyVars, outsideVars
<1>3. CASE ChooseWindow
  <2>1. cap.at = "release" /\ UNCHANGED <<pipeVars, historyVars, outsideVars>>
    BY <1>3 DEF ChooseWindow
  <2>2. \A s \in Sessions : Undisturbed(s) /\ pipe[s] # "none" => history[s] # {}
    BY <2>1, PipelineIsNotYoung, RowThere DEF FinishPlaces
  <2> QED
    BY <2>1, <2>2, HistoryKept DEF HistoryInv, pipeVars, historyVars, outsideVars, Undisturbed
<1>4. CASE FinishEmpty \/ FinishSpawns \/ FinishFails
  <2>1. /\ cap.at = "stop" /\ cap.of \in Sessions /\ Young(cap.of) /\ claimed' = claimed /\ disturbed' = disturbed
        /\ \A s \in Sessions \ {cap.of} : pipe'[s] = pipe[s] /\ history'[s] = history[s]
    BY <1>4, FinishEndsFacts DEF outsideVars
  <2>2. \A s \in Sessions : Undisturbed(s) /\ pipe[s] # "none" => history[s] # {}
    BY <2>1, PipelineIsNotYoung, RowThere DEF FinishPlaces
  <2>3. \A s \in claimed' : history'[s] # {}
    BY <2>1 DEF HistoryInv, Young, TypeInv, TypeOK
  <2>4. \/ pipe'[cap.of] = "none"
        \/ pipe'[cap.of] = "wait" /\ session' = session /\ state' = state
    BY <1>4, <2>1, FinishEndsFacts DEF Young, TypeInv, TypeOK, stateVars
  <2>5. Undisturbed(cap.of) => session = cap.of /\ state = "PROCESSING"
    BY <2>1 DEF HandlerInv, FinishPlaces, Undisturbed
  <2> QED
    BY <2>1, <2>2, <2>3, <2>4, <2>5 DEF HistoryInv, Settled, Undisturbed, Going
<1> QED
  BY <1>1, <1>2, <1>3, <1>4, LimitFacts DEF FinishActs, FinishSteps

LEMMA CancelHistory == TypeInv /\ ControlInv /\ HistoryInv /\ CancelActs => HistoryInv'
<1> SUFFICES ASSUME TypeInv, ControlInv, HistoryInv, CancelActs PROVE HistoryInv'
  OBVIOUS
<1> USE SessionFacts, FreeFacts
<1>1. CASE CancelBegins
  <2>1. cap.of = None /\ cap'.of = session /\ UNCHANGED <<pipeVars, historyVars, outsideVars>>
    BY <1>1, CancelBeginsFacts
  <2> QED
    BY <2>1 DEF HistoryInv, Settled, Undisturbed, pipeVars, historyVars, outsideVars
<1>2. CASE CancelRefused
  BY <1>2 DEF CancelRefused, HistoryInv, Settled, Undisturbed, stateVars, pipeVars, historyVars, outsideVars
<1>3. CASE CancelDrops
  <2>1. cap.of \in Anyone /\ UNCHANGED <<state, session, pipe, disturbed>>
    BY <1>3, CancelDropsFacts DEF stateVars, pipeVars, outsideVars
  <2>2. CASE cap.of = None
    <3>1. UNCHANGED historyVars
      BY <1>3, <2>2, CancelDropsFacts
    <3> QED
      BY <2>1, <2>2, <3>1 DEF HistoryInv, Settled, Undisturbed, historyVars
  <2>3. CASE cap.of # None
    <3>1. RowWritten(cap.of, "cancelled") /\ cap.of \in Sessions
      BY <1>3, <2>1, <2>3, CancelDropsFacts DEF Anyone
    <3>2. history'[cap.of] # {} /\ \A t \in claimed' : history'[t] # {}
      BY <3>1, RowLeavesTrace
    <3>3. \A s \in Sessions : Settled(s) => history'[s] # {}
      BY <3>1, <3>2 DEF Settled, RowWritten
    <3> QED
      BY <2>1, <3>2, <3>3 DEF HistoryInv, Settled, Undisturbed
  <2> QED
    BY <2>2, <2>3
<1> QED
  BY <1>1, <1>2, <1>3 DEF CancelActs

(* A pipeline stops on its way only for a cancellation, whose row is there *)
(* or about to be, and concludes with a row.                               *)
LEMMA PipelineSettles ==
  ASSUME TypeInv, ControlInv, HistoryInv, NEW s \in Sessions, Pipeline(s), Undisturbed(s)
  PROVE  /\ pipe'[s] \in Going => (session' = s /\ state' = "PROCESSING") \/ Settled(s)'
         /\ pipe'[s] \in {"reset", "close", "closing", "discarding", "closed", "done"} => Settled(s)'
<1> USE DEF PipeGoes, PipeAt, TypeInv, TypeOK, stateVars, pipeVars, historyVars, Going
<1>1. s \in cancelled \/ ~InCharge(s) => ~(session = s /\ state = "PROCESSING")
  BY DEF InCharge, ControlInv
<1>2. /\ pipe[s] \in Going => (session = s /\ state = "PROCESSING") \/ Settled(s)
      /\ pipe[s] \in {"reset", "close", "closing", "discarding", "closed", "done"} => Settled(s)
  BY DEF HistoryInv
<1>3. UNCHANGED historyVars => (Settled(s)' <=> Settled(s))
  BY PipelineFacts DEF PipeStep, Settled
<1>4. CASE PipeStarts(s)
  BY <1>1, <1>2, <1>3, <1>4 DEF PipeStarts, InCharge
<1>5. CASE PipeTranscribes(s)
  BY <1>2, <1>3, <1>5 DEF PipeTranscribes
<1>6. CASE PipeReadsText(s)
  BY <1>1, <1>2, <1>3, <1>6 DEF PipeReadsText
<1>7. CASE PipeCommits(s)
  BY <1>1, <1>2, <1>3, <1>7 DEF PipeCommits, InCharge
<1>8. CASE PipeChecksAgain(s)
  BY <1>1, <1>2, <1>3, <1>8 DEF PipeChecksAgain, InCharge
<1>9. CASE PipePastes(s)
  BY <1>2, <1>3, <1>9 DEF PipePastes
<1>10. CASE PipeConcludes(s)
  <2>1. PICK row \in Outcomes(pipe[s]) : Claim(s, row)
    BY <1>10 DEF PipeConcludes
  <2>2. RowWritten(s, row)
    <3>1. row \in Rows
      BY DEF Outcomes, Rows
    <3> QED
      BY <2>1, <3>1, RowFacts
  <2>3. history'[s] # {}
    BY <2>2, RowLeavesTrace
  <2> QED
    BY <2>3 DEF Settled
<1>11. CASE PipeGivesUp(s)
  BY <1>1, <1>2, <1>3, <1>11 DEF PipeGivesUp
<1>12. CASE PipeResets(s)
  BY <1>2, <1>3, <1>12 DEF PipeResets
<1>13. CASE PipeEnds(s)
  BY <1>2, <1>3, <1>13 DEF PipeEnds
<1>14. CASE PipeCloses(s)
  BY <1>2, <1>14, PipelineFacts DEF PipeCloses, PipeStep, Settled
<1>15. CASE PipeEndsStream(s) \/ PipeLeaves(s)
  BY <1>2, <1>3, <1>15 DEF PipeEndsStream, PipeLeaves
<1> QED
  BY <1>15, <1>4, <1>5, <1>6, <1>7, <1>8, <1>9, <1>10, <1>11, <1>12, <1>13, <1>14 DEF Pipeline

LEMMA PipelineClaims ==
  ASSUME TypeInv, HistoryInv, NEW s \in Sessions, Pipeline(s)
  PROVE  \A t \in claimed' : history'[t] # {}
<1>1. CASE PipeConcludes(s)
  <2>1. PICK row \in Outcomes(pipe[s]) : Claim(s, row)
    BY <1>1 DEF PipeConcludes
  <2>2. row \in Rows
    BY DEF Outcomes, Rows
  <2>3. RowWritten(s, row)
    BY <2>1, <2>2, RowFacts DEF TypeInv
  <2> QED
    BY <2>3, RowLeavesTrace
<1>2. CASE ~PipeConcludes(s)
  <2>1. claimed' = claimed /\ history' = history
    BY <1>2 DEF Pipeline, PipeStarts, PipeTranscribes, PipeReadsText, PipeCommits, PipeChecksAgain, PipePastes,
                PipeGivesUp, PipeResets, PipeCloses, PipeEnds, PipeEndsStream, PipeLeaves, historyVars
  <2> QED
    BY <2>1 DEF HistoryInv
<1> QED
  BY <1>1, <1>2

LEMMA PipelineHistory ==
  ASSUME TypeInv, ControlInv, HistoryInv, NEW s \in Sessions, Pipeline(s)
  PROVE  HistoryInv'
<1>1. PipeStep(s)
  BY PipelineFacts
<1>2. disturbed' = disturbed
  BY <1>1 DEF PipeStep, outsideVars
<1>3. \A t \in Sessions \ {s} :
        /\ pipe'[t] = pipe[t] /\ (Settled(t)' <=> Settled(t))
        /\ session = t /\ state = "PROCESSING" => session' = t /\ state' = "PROCESSING"
  BY <1>1 DEF PipeStep, Settled, stateVars
<1> QED
  BY <1>2, <1>3, PipelineSettles, PipelineClaims DEF HistoryInv, Undisturbed

LEMMA NextHistory == TypeInv /\ ControlInv /\ HandlerInv /\ HistoryInv /\ [Next]_vars => HistoryInv'
<1>1. ASSUME HistoryInv, UNCHANGED vars PROVE HistoryInv'
  BY <1>1 DEF HistoryInv, Settled, Undisturbed, vars, stateVars, pipeVars, historyVars, outsideVars
<1>2. ASSUME TypeInv, HistoryInv, OutsideActs PROVE HistoryInv'
  <2>1. /\ UNCHANGED <<cap, pipe, claimed, history>> /\ disturbed \subseteq disturbed'
        /\ state = "IDLE" \/ session \in disturbed' \/ session = None
    BY <1>2, OutsideFacts DEF pipeVars, historyVars
  <2> QED
    BY <1>2, <2>1, SessionFacts DEF HistoryInv, Settled, Undisturbed
<1> QED
  BY <1>1, <1>2, NextGroups, StartHistory, FinishHistory, CancelHistory, PipelineHistory

-------------------------------------------------------------------------------
(* The stream of a recording.                                              *)

LEMMA StartStream == TypeInv /\ ControlInv /\ StreamInv /\ Start => StreamInv'
<1> SUFFICES ASSUME TypeInv, ControlInv, StreamInv, Start PROVE StreamInv'
  OBVIOUS
<1> USE SessionFacts, FreeFacts, CaptureFacts
<1>0. cap.at \in StartPlaces /\ state = "RECORDING" => session = cap.of
  BY DEF ControlInv
<1>1. CASE StartBegins
  <2>1. last + 1 \in Anyone
    BY <1>1 DEF StartBegins, Anyone, Sessions, TypeInv, TypeOK
  <2> QED
    BY <1>1, <2>1 DEF StartBegins, StreamInv, Places
<1>2. CASE OpenMic \/ OpenStream \/ OwnStream
  <2>1. cap.of \in Anyone /\ {"opened", "own", "live"} \subseteq Places
    BY DEF Places, TypeInv
  <2> QED
    BY <1>2, <2>1 DEF OpenMic, OpenStream, OwnStream, StreamInv, TypeInv
<1>3. CASE CheckStart
  <2>1. cap'.at # "live" /\ streamOwner' = streamOwner
    BY <1>3 DEF CheckStart, CaptureEnds, EndStream, streamVars, Places, TypeInv
  <2>2. state' = "RECORDING" => cap' # Free
    BY <1>0, <1>3 DEF CheckStart, StillRecording, ResetToIdle, stateVars, StartPlaces, Places, TypeInv
  <2> QED
    BY <2>1, <2>2 DEF StreamInv
<1>4. CASE ArmStart
  <2>1. cap'.at # "live" /\ streamOwner' = streamOwner
    BY <1>4 DEF ArmStart, CaptureEnds, streamVars, Places, TypeInv
  <2>2. state' = "RECORDING" => cap' # Free
    BY <1>0, <1>4 DEF ArmStart, StillRecording, stateVars, StartPlaces, Places, TypeInv
  <2> QED
    BY <2>1, <2>2 DEF StreamInv
<1>5. CASE StartReturns
  BY <1>0, <1>5 DEF StartReturns, CaptureEnds, StreamInv, stateVars, streamVars, StartPlaces
<1>6. CASE StartFails
  BY <1>0, <1>6 DEF StartFails, CaptureEnds, StreamInv, stateVars, StartPlaces, ResetToIdle
<1> QED
  BY <1>1, <1>2, <1>3, <1>4, <1>5, <1>6 DEF Start

LEMMA FinishStream == TypeInv /\ ControlInv /\ StreamInv /\ FinishActs => StreamInv'
<1> SUFFICES ASSUME TypeInv, ControlInv, StreamInv, FinishActs PROVE StreamInv'
  OBVIOUS
<1> USE FreeFacts
<1>1. CASE FinishBegins
  BY <1>1, FinishBeginsFacts DEF StreamInv
<1>2. CASE UNCHANGED <<stateVars, cap, captureVars, lease, streamVars, pipeVars, cancelled, historyVars, outsideVars>>
  BY <1>2 DEF StreamInv, stateVars, streamVars
<1>3. CASE ChooseWindow
  BY <1>3, CaptureFacts DEF ChooseWindow, StreamInv, Places, TypeInv
<1>4. CASE FinishEmpty \/ FinishSpawns \/ FinishFails
  BY <1>4, FinishEndsFacts DEF StreamInv, stateVars
<1> QED
  BY <1>1, <1>2, <1>3, <1>4, LimitFacts DEF FinishActs, FinishSteps

LEMMA NextStream == TypeInv /\ ControlInv /\ StreamInv /\ [Next]_vars => StreamInv'
<1> SUFFICES ASSUME TypeInv, ControlInv, StreamInv, [Next]_vars PROVE StreamInv'
  OBVIOUS
<1> USE FreeFacts
<1>1. CASE CancelBegins
  BY <1>1, CancelBeginsFacts DEF StreamInv
<1>2. CASE CancelRefused
  BY <1>2 DEF CancelRefused, StreamInv, stateVars, streamVars
<1>3. CASE CancelDrops
  BY <1>3, CancelDropsFacts DEF StreamInv, stateVars
<1>4. ASSUME NEW s \in Sessions, Pipeline(s) PROVE StreamInv'
  BY <1>4, PipelineFacts DEF PipeStep, StreamInv, stateVars
<1>5. CASE OutsideActs
  BY <1>5, OutsideFacts DEF StreamInv, streamVars
<1>6. CASE UNCHANGED vars
  BY <1>6 DEF StreamInv, vars, stateVars, streamVars
<1> QED
  BY <1>1, <1>2, <1>3, <1>4, <1>5, <1>6, NextGroups, StartStream, FinishStream DEF CancelActs

-------------------------------------------------------------------------------
LEMMA InvariantHolds == SafeSpec => []IInv
<1>1. Init => IInv
  BY InitType, InitControl, InitCommit, InitPaste, InitHandler, InitOwner, InitHistory, FreeFacts
     DEF IInv, StreamInv, Init
<1>2. IInv /\ [Next]_vars => IInv'
  BY NextType, NextControl, NextCommit, NextPaste, NextHandler, NextOwner, NextHistory, NextStream DEF IInv
<1> QED
  BY <1>1, <1>2, PTL DEF SafeSpec

(* Every variable of the application has its type, in whatever order       *)
(* handlers, pipelines, retries and resets take their steps.               *)
THEOREM TypeCorrect == SafeSpec => []TypeOK
<1>1. IInv => TypeOK
  BY DEF IInv, TypeInv
<1> QED
  BY <1>1, InvariantHolds, PTL

(* A dictation is not pasted against the user's cancellation nor while     *)
(* another one records, and leaves a history row when it had a pipeline.   *)
THEOREM DeliveryCorrect == SafeSpec => []DeliveryIsRight
<1>1. TypeInv /\ PasteInv => CancelledIsNotPasted /\ PastingOwnsTheApp
  <2> SUFFICES ASSUME TypeInv, PasteInv PROVE CancelledIsNotPasted /\ PastingOwnsTheApp
    OBVIOUS
  <2>1. PastingOwnsTheApp
    BY DEF PasteInv, Pasted, PastingOwnsTheApp
  <2> QED
    BY <2>1 DEF TypeInv, TypeOK, PasteInv, Pasted, CancelledIsNotPasted
<1>2. HistoryInv => HistoryHasNoGaps
  BY DEF HistoryInv, Settled, HistoryHasNoGaps
<1>3. IInv => DeliveryIsRight
  BY <1>1, <1>2 DEF IInv, DeliveryIsRight
<1> QED
  BY <1>3, InvariantHolds, PTL

(* The microphone and the speech model of a dictation have someone who     *)
(* gives them back.                                                        *)
THEOREM OwnersCorrect == SafeSpec => []OwnersHold
<1>1. IInv => OwnersHold
  BY DEF IInv, OwnerInv
<1> QED
  BY <1>1, InvariantHolds, PTL

(* The pipelines of earlier dictations leave the recording in progress its *)
(* state and its stream.                                                   *)
THEOREM RecordingKept == SafeSpec => RecordingIsKept
<1> DEFINE Held == /\ state' = "RECORDING" /\ session' = session
                   /\ stream' # stream => \E s \in Sessions : pipe[s] \in Ending
                   /\ \A s \in Sessions : pipe'[s] \in Ending => pipe[s] \in Ending
<1>1. ASSUME IInv, [Next]_vars, state = "RECORDING", cap = Free, cap' = Free, UNCHANGED <<retrying, resetting>>
      PROVE  Held
  <2> USE <1>1, SessionFacts, FreeFacts DEF IInv
  <2>1. session = last /\ session \in Sessions /\ pipe[session] = "none" /\ streamOwner = session
    BY DEF ControlInv, StreamInv, Young
  <2>2. ASSUME NEW s \in Sessions, Pipeline(s)
        PROVE  Held
    <3>1. s # session /\ PipeStep(s)
      BY <2>1, <2>2, PipelineFacts, PipelineIsNotYoung DEF PipeStep
    <3>2. ~OwnsStream(s)
      BY <2>1, <3>1 DEF OwnsStream
    <3>3. pipe'[s] \in Ending \/ stream' # stream => pipe[s] \in Ending
      BY <2>2, <3>2
         DEF Pipeline, PipeStarts, PipeTranscribes, PipeEndsStream, PipeReadsText, PipeCommits, PipeChecksAgain, PipePastes,
             PipeConcludes, PipeGivesUp, PipeResets, PipeLeaves, PipeCloses, PipeEnds, streamVars, PipeGoes, PipeAt,
             TypeInv, TypeOK, Ending
    <3> QED
      BY <3>1, <3>3 DEF PipeStep, stateVars
  <2>3. ~Start
    BY DEF Start, StartBegins, OpenMic, CheckStart, ArmStart, OpenStream, OwnStream, StartReturns, StartFails
  <2>4. ~FinishSteps /\ ~CancelDrops
    BY DEF FinishSteps, ChooseWindow, FinishEmpty, FinishSpawns, FinishFails, StopCapture, CancelDrops
  <2>5. ~FinishBegins /\ ~CancelBegins
    BY FinishBeginsFacts, CancelBeginsFacts
  <2>6. ~OutsideActs
    BY OutsideFacts
  <2>7. CASE CancelRefused \/ UNCHANGED vars
    BY <2>7 DEF CancelRefused, vars, stateVars, streamVars, pipeVars
  <2>8. CASE UNCHANGED <<stateVars, cap, captureVars, lease, streamVars, pipeVars, cancelled, historyVars, outsideVars>>
    BY <2>8 DEF stateVars, streamVars, pipeVars
  <2> QED
    BY <2>2, <2>3, <2>4, <2>5, <2>6, <2>7, <2>8, NextGroups, LimitFacts DEF FinishActs, CancelActs, stateVars
<1> QED
  BY <1>1, InvariantHolds, PTL DEF SafeSpec, RecordingIsKept
-------------------------------------------------------------------------------
(* The rows of a dictation, and the session it is while it has no pipeline *)
(* or none any more.                                                       *)

Kept == {"ready", "pasted"}

RowsOK(s) ==
  /\ pipe[s] \in Going =>
       /\ s \in recovery
       /\ s \in claimed => s \in cancelled
       /\ s \notin claimed => history[s] = {}
  /\ pipe[s] = "record" \/ (pipe[s] = "raised" /\ delivery = s) => s \in pasted
  /\ history[s] \cap Kept # {} =>
       /\ ~Dropping(s)
       /\ \/ pipe[s] = "reset" /\ delivery = s
          \/ pipe[s] \in {"close", "closing", "discarding", "closed", "done"} /\ session # s
  /\ session = s => pipe[s] # "done" /\ (pipe[s] = "none" /\ Undisturbed(s) => Capturing(s))

RowsInv == \A s \in Sessions : RowsOK(s)

LifeInv == IInv /\ RowsInv

LEMMA InitRows == Init => RowsInv
BY SessionFacts DEF Init, RowsInv, RowsOK, Going, Kept

(* A cancellation claims the row of a session that has its recovery.       *)
LEMMA DropClaims ==
  ASSUME TypeOK, NEW s \in Sessions, DropSession(s)
  PROVE  s \in recovery => s \in claimed'
BY SessionFacts DEF DropSession, Claim

(* A row that is not kept text leaves what is kept.                        *)
LEMMA RowKeeps ==
  ASSUME NEW s \in Sessions, NEW row, row \notin Kept, RowWritten(s, row)
  PROVE  history'[s] \cap Kept = history[s] \cap Kept
BY DEF RowWritten

LEMMA StartRows == TypeInv /\ ControlInv /\ HandlerInv /\ RowsInv /\ Start => RowsInv'
<1> SUFFICES ASSUME TypeInv, ControlInv, HandlerInv, RowsInv, Start, NEW s \in Sessions PROVE RowsOK(s)'
  BY DEF RowsInv
<1> USE SessionFacts, FreeFacts
<1>0. RowsOK(s)
  BY DEF RowsInv
<1>1. CASE StartSteps
  <2>1. StartGoesOn /\ ~Dropping(s)' /\ (Undisturbed(s)' <=> Undisturbed(s))
    BY <1>1, StartStepFacts DEF StartGoesOn, Dropping, Drops, StartPlaces, Undisturbed, outsideVars
  <2>2. cap.of # None /\ session \in {cap.of, None}
    BY <2>1 DEF StartGoesOn, ControlInv, TypeInv, CapShape
  <2>3. session' = s => session = s /\ cap.of = s /\ UNCHANGED stateVars
    BY <2>1, <2>2 DEF StartGoesOn, stateVars
  <2>4. session' = s /\ Undisturbed(s) => Capturing(s)'
    BY <2>1, <2>2, <2>3 DEF HandlerInv, StartGoesOn, Undisturbed, Capturing, StillRecording, stateVars
  <2>. QED
    BY <1>0, <2>1, <2>3, <2>4 DEF RowsOK, StartGoesOn, pipeVars, historyVars, stateVars
<1>2. CASE StartBegins
  <2>1. /\ UNCHANGED <<pipe, delivery, pasted, disturbed>> /\ ~Dropping(s)' /\ session' = last + 1 /\ last \in Nat
        /\ state \in {"IDLE", "PROCESSING"} /\ state' = "RECORDING" /\ last + 1 \in Sessions
    BY <1>2, CaptureFacts DEF StartBegins, Dropping, Drops, Places, Capture, outsideVars, pipeVars, TypeInv, TypeOK, Sessions
  <2>2. session' = s => pipe[s] = "none" /\ Capturing(s)'
    BY <2>1 DEF ControlInv, Young, Capturing, StillRecording
  <2>3. pipe[s] # "none" => session' # s
    BY <2>2
  <2>4. CASE state = "IDLE"
    BY <1>0, <1>2, <2>1, <2>2, <2>4 DEF RowsOK, StartBegins, historyVars
  <2>5. CASE state = "PROCESSING" /\ s # session
    <3>1. DropSession(session) /\ session \in Anyone /\ cancelled' = cancelled \cup ({session} \ {None})
      BY <1>2, <2>5 DEF StartBegins, TypeInv, TypeOK
    <3>2. /\ history'[s] = history[s] /\ (s \in recovery' <=> s \in recovery)
          /\ (s \in claimed' <=> s \in claimed) /\ (s \in cancelled' <=> s \in cancelled)
      BY <2>5, <3>1, DropFacts DEF TypeInv, RowWritten, historyVars, Anyone
    <3>. QED
      BY <1>0, <2>1, <2>2, <3>2 DEF RowsOK
  <2>6. CASE state = "PROCESSING" /\ s = session
    <3>1. DropSession(s) /\ s \in cancelled' /\ delivery # s
      BY <1>2, <2>6 DEF StartBegins, TooLate
    <3>2. RowWritten(s, "cancelled") /\ (s \in recovery => s \in claimed')
      BY <3>1, DropFacts, DropClaims DEF TypeInv, Anyone
    <3>3. history'[s] \cap Kept = {}
      BY <1>0, <2>6, <3>1, <3>2, RowKeeps DEF Kept, RowsOK
    <3>. QED
      BY <1>0, <2>1, <2>2, <3>1, <3>2, <3>3 DEF RowsOK, RowWritten
  <2>. QED
    BY <2>1, <2>4, <2>5, <2>6
<1>. QED
  BY <1>1, <1>2 DEF Start, StartSteps

LEMMA FinishRows == TypeInv /\ ControlInv /\ RowsInv /\ FinishActs => RowsInv'
<1> SUFFICES ASSUME TypeInv, ControlInv, RowsInv, FinishActs, NEW s \in Sessions PROVE RowsOK(s)'
  BY DEF RowsInv
<1> USE SessionFacts, FreeFacts
<1>0. RowsOK(s)
  BY DEF RowsInv
<1>1. CASE FinishBegins
  <2>1. ~Dropping(s)' /\ (session' = s => Capturing(s)')
    BY <1>1, FinishBeginsFacts DEF Dropping, Drops, Capturing
  <2>. QED
    BY <1>0, <1>1, <2>1, FinishBeginsFacts DEF RowsOK, Undisturbed, pipeVars, historyVars, outsideVars
<1>2. CASE UNCHANGED <<stateVars, cap, captureVars, lease, streamVars, pipeVars, cancelled, historyVars, outsideVars>>
  BY <1>0, <1>2 DEF RowsOK, Dropping, Undisturbed, Capturing, StillRecording, stateVars, pipeVars, historyVars, outsideVars
<1>3. CASE ChooseWindow
  <2>1. /\ cap.at = "release" /\ cap'.at = "stop" /\ cap'.of = cap.of /\ ~Dropping(s)'
        /\ UNCHANGED <<pipeVars, historyVars, cancelled, outsideVars>>
    BY <1>3, CaptureFacts DEF ChooseWindow, Dropping, Drops, Places, TypeInv
  <2>2. session' = s => s = cap.of /\ Young(s) /\ Capturing(s)'
    BY <1>3, <2>1 DEF ControlInv, FinishPlaces, ChooseWindow, Capturing
  <2>3. pipe[s] \in {"close", "closing", "discarding", "closed", "done"} => session' # s
    BY <2>2 DEF Young
  <2>. QED
    BY <1>0, <2>1, <2>2, <2>3 DEF RowsOK, Young, pipeVars, historyVars, outsideVars
<1>4. CASE FinishEmpty \/ FinishSpawns \/ FinishFails
  <2>1. ~Dropping(s)' /\ (Undisturbed(s)' <=> Undisturbed(s))
    BY <1>4, FinishEndsFacts DEF Dropping, Drops, Undisturbed, outsideVars
  <2>2. CASE s # cap.of
    <3>1. session # s /\ session' # s
      BY <1>4, <2>2, FinishEndsFacts DEF stateVars
    <3>. QED
      BY <1>0, <1>4, <2>1, <2>2, <3>1, FinishEndsFacts DEF RowsOK
  <2>3. CASE s = cap.of
    <3>1. Young(s)
      BY <1>4, <2>3, FinishEndsFacts
    <3>2. CASE FinishSpawns
      <4>1. pipe'[s] = "wait" /\ s \in recovery' /\ UNCHANGED <<claimed, history>>
        BY <2>3, <3>2 DEF FinishSpawns, TypeInv, TypeOK
      <4>. QED
        BY <2>1, <3>1, <4>1 DEF RowsOK, Young, Kept
    <3>3. CASE FinishEmpty \/ FinishFails
      <4>1. pipe' = pipe /\ session' # s
        BY <2>3, <3>3 DEF FinishEmpty, FinishFails, StopCapture, ResetToIdle, pipeVars, stateVars
      <4>2. history'[s] \in {{}, {"failed"}}
        BY <1>4, <2>3, <3>1, FinishEndsFacts DEF Young
      <4>. QED
        BY <2>1, <3>1, <4>1, <4>2 DEF RowsOK, Young, Going, Kept
    <3>. QED
      BY <1>4, <3>2, <3>3
  <2>. QED
    BY <2>2, <2>3
<1>. QED
  BY <1>1, <1>2, <1>3, <1>4, LimitFacts DEF FinishActs, FinishSteps

LEMMA CancelRows == TypeInv /\ ControlInv /\ CommitInv /\ RowsInv /\ CancelActs => RowsInv'
<1> SUFFICES ASSUME TypeInv, ControlInv, CommitInv, RowsInv, CancelActs, NEW s \in Sessions PROVE RowsOK(s)'
  BY DEF RowsInv
<1> USE SessionFacts, FreeFacts
<1>0. RowsOK(s) /\ Commit(s)
  BY DEF RowsInv, CommitInv
<1>1. CASE CancelBegins
  <2>1. (Dropping(s)' => s = session /\ delivery # s) /\ session' # s
    BY <1>1, CancelBeginsFacts DEF Dropping
  <2>2. s \in cancelled => s \in cancelled'
    BY <1>1, CancelBeginsFacts
  <2>. QED
    BY <1>0, <1>1, <2>1, <2>2, CancelBeginsFacts DEF RowsOK, pipeVars, historyVars
<1>2. CASE CancelRefused
  BY <1>0, <1>2 DEF RowsOK, CancelRefused, Dropping, Undisturbed, Capturing, StillRecording, stateVars, pipeVars,
                    historyVars, outsideVars
<1>3. CASE CancelDrops
  <2>1. /\ ~Dropping(s)' /\ (Undisturbed(s)' <=> Undisturbed(s)) /\ UNCHANGED <<session, pipe, delivery, pasted>>
        /\ ~Capturing(s)
    BY <1>3, CancelDropsFacts DEF Dropping, Drops, Undisturbed, Capturing, StillRecording, stateVars, pipeVars, outsideVars
  <2>2. CASE s # cap.of
    <3>1. /\ history'[s] = history[s] /\ (s \in claimed' <=> s \in claimed)
          /\ (s \in recovery' <=> s \in recovery) /\ (s \in cancelled' <=> s \in cancelled)
      BY <1>3, <2>2, CancelDropsFacts DEF RowWritten, historyVars, Anyone
    <3>. QED
      BY <1>0, <2>1, <3>1 DEF RowsOK
  <2>3. CASE s = cap.of
    <3>1. Dropping(s) /\ RowWritten(s, "cancelled") /\ DropSession(s)
      BY <1>3, <2>3, CancelDropsFacts DEF Dropping, CancelDrops
    <3>2. pipe[s] \in Going => s \in cancelled' /\ s \in claimed' /\ s \in recovery'
      BY <1>0, <1>3, <2>3, <3>1, CancelDropsFacts, DropClaims DEF RowsOK, Commit, Going, RowWritten, TypeInv
    <3>3. history'[s] \cap Kept = {}
      BY <1>0, <3>1, RowKeeps DEF RowsOK, Kept
    <3>. QED
      BY <1>0, <2>1, <3>2, <3>3 DEF RowsOK
  <2>. QED
    BY <2>2, <2>3
<1>. QED
  BY <1>1, <1>2, <1>3 DEF CancelActs

(* What a conclusion writes: the first row of its session, if there was    *)
(* none, and kept text only of a commit.                                   *)
LEMMA ConcludeFacts ==
  ASSUME TypeInv, CommitInv, NEW s \in Sessions, PipeConcludes(s)
  PROVE  \E row \in Rows \ {"cancelled"} :
           /\ Claim(s, row) /\ RowWritten(s, row)
           /\ pipe[s] \in {"empty", "command", "committed", "record", "raised"} /\ pipe'[s] = "reset"
           /\ pipe[s] = "committed" => row = "ready" /\ delivery = s
           /\ pipe[s] = "record" => row \in {"pasted", "failed"} /\ delivery = s
           /\ pipe[s] = "raised" => row = "failed" /\ s \notin cancelled
           /\ pipe[s] \in {"empty", "command"} => row \in {"failed", "command"} /\ delivery # s
           /\ UNCHANGED <<stateVars, cap, last, delivery, pasted, cancelled, outsideVars>>
<1>1. PICK row \in Outcomes(pipe[s]) : Claim(s, row)
  BY DEF PipeConcludes
<1>2. /\ row \in Rows \ {"cancelled"}
      /\ pipe[s] \in {"empty", "command", "committed", "record", "raised"}
      /\ pipe[s] = "committed" => row = "ready"
      /\ pipe[s] = "record" => row \in {"pasted", "failed"}
      /\ pipe[s] = "raised" => row = "failed"
      /\ pipe[s] \in {"empty", "command"} => row \in {"failed", "command"}
  BY DEF Outcomes, Rows
<1>3. RowWritten(s, row)
  BY <1>1, <1>2, RowFacts DEF TypeInv
<1>4. Commit(s)
  BY DEF CommitInv
<1>. QED
  BY <1>1, <1>2, <1>3, <1>4 DEF PipeConcludes, PipeAt, Commit, TypeInv, TypeOK, captureVars

LEMMA PipelineRows ==
  ASSUME TypeInv, ControlInv, CommitInv, RowsInv, NEW s \in Sessions, Pipeline(s)
  PROVE  RowsInv'
<1> SUFFICES ASSUME NEW t \in Sessions PROVE RowsOK(t)'
  BY DEF RowsInv
<1> USE SessionFacts
<1>1. PipeStep(s)
  BY PipelineFacts
<1>2. /\ RowsOK(t) /\ Commit(t) /\ (Dropping(t)' <=> Dropping(t)) /\ (Undisturbed(t)' <=> Undisturbed(t))
      /\ session' = t => UNCHANGED stateVars
      /\ session' = t => (Capturing(t)' <=> Capturing(t))
  BY <1>1 DEF PipeStep, RowsInv, CommitInv, Dropping, Undisturbed, Capturing, StillRecording, stateVars, outsideVars
<1>3. CASE t # s
  <2>1. pipe[t] \in {"record", "raised", "reset"} /\ delivery = t => delivery' = t
    BY <1>1, <1>3 DEF PipeStep, ControlInv, Resting
  <2>. QED
    BY <1>1, <1>2, <1>3, <2>1 DEF PipeStep, RowsOK, stateVars
<1>4. CASE t = s
  <2>0. pipe'[s] # "none" /\ RowsOK(s) /\ Commit(s) /\ (session' = s => session = s)
    BY <1>1, <1>2, <1>4 DEF PipeStep, stateVars
  <2>1. CASE PipeConcludes(s)
    <3>1. PICK row \in Rows \ {"cancelled"} :
            /\ RowWritten(s, row)
            /\ pipe[s] \in {"empty", "command", "committed", "record", "raised"} /\ pipe'[s] = "reset"
            /\ pipe[s] \in {"committed", "record"} => delivery = s
            /\ pipe[s] \notin {"committed", "record"} => row \notin Kept
            /\ UNCHANGED <<stateVars, cap, last, delivery, pasted, cancelled, outsideVars>>
      BY <2>1, ConcludeFacts DEF Kept
    <3>2. history[s] \cap Kept = {}
      BY <2>0, <3>1 DEF RowsOK
    <3>3. history'[s] \cap Kept # {} => delivery = s /\ ~Dropping(s)
      BY <2>0, <3>1, <3>2, RowKeeps DEF Commit
    <3>. QED
      BY <1>2, <1>4, <2>0, <3>1, <3>3 DEF RowsOK, Going
  <2>2. CASE ~PipeConcludes(s)
    <3> USE <2>0 DEF PipeGoes, PipeAt, TypeInv, TypeOK, pipeVars, historyVars
    <3>1. CASE PipeStarts(s) \/ PipeTranscribes(s) \/ PipeReadsText(s) \/ PipeChecksAgain(s) \/ PipePastes(s)
      BY <1>2, <1>4, <3>1 DEF RowsOK, Commit, Going, PipeStarts, PipeTranscribes, PipeReadsText, PipeChecksAgain, PipePastes
    <3>2. CASE PipeCommits(s)
      BY <1>2, <1>4, <3>2 DEF RowsOK, Commit, Going, PipeCommits
    <3>3. CASE PipeGivesUp(s)
      BY <1>2, <1>4, <3>3 DEF RowsOK, Commit, Going, PipeGivesUp
    <3>4. CASE PipeResets(s) \/ PipeEnds(s)
      BY <1>2, <1>4, <3>4 DEF RowsOK, Going, PipeResets, PipeEnds, ResetToIdle
    <3>5. CASE PipeCloses(s)
      BY <1>2, <1>4, <3>5 DEF RowsOK, Going, PipeCloses
    <3>6. CASE PipeEndsStream(s) \/ PipeLeaves(s)
      BY <1>2, <1>4, <3>6 DEF RowsOK, Commit, Going, PipeEndsStream, PipeLeaves
    <3>. QED
      BY <2>2, <3>1, <3>2, <3>3, <3>4, <3>5, <3>6 DEF Pipeline
  <2>. QED
    BY <2>1, <2>2
<1>. QED
  BY <1>3, <1>4

LEMMA OutsideRows == TypeInv /\ HandlerInv /\ RowsInv /\ OutsideActs => RowsInv'
<1> SUFFICES ASSUME TypeInv, HandlerInv, RowsInv, OutsideActs, NEW s \in Sessions PROVE RowsOK(s)'
  BY DEF RowsInv
<1> USE SessionFacts
<1>1. RowsOK(s) /\ (Dropping(s)' <=> Dropping(s)) /\ (session' = s => session = s)
  BY OutsideFacts DEF RowsInv, Dropping
<1>2. session' = s => s \in disturbed'
  BY OutsideFacts DEF HandlerInv
<1>. QED
  BY <1>1, <1>2, OutsideFacts DEF RowsOK, Undisturbed, pipeVars, historyVars

LEMMA NextRows == IInv /\ RowsInv /\ [Next]_vars => RowsInv'
<1>1. RowsInv /\ UNCHANGED vars => RowsInv'
  BY DEF RowsInv, RowsOK, Dropping, Undisturbed, Capturing, StillRecording, vars, stateVars, pipeVars, historyVars, outsideVars
<1>. QED
  BY <1>1, NextGroups, StartRows, FinishRows, CancelRows, PipelineRows, OutsideRows DEF IInv

LEMMA LifeInvariant == SafeSpec => []LifeInv
<1>. QED
  BY InvariantHolds, InitRows, NextRows, PTL DEF SafeSpec, LifeInv

-------------------------------------------------------------------------------
(* The life of each dictation.                                             *)

Lives(s) == [Life(s)!Next]_(Life(s)!lifeVars)

(* A step that another dictation's life does not see.                      *)
Unseen(s) ==
  /\ s <= last' <=> s <= last
  /\ pipe'[s] = pipe[s] /\ history'[s] = history[s]
  /\ session' = s <=> session = s
  /\ StillRecording(s)' <=> StillRecording(s)
  /\ delivery' = s <=> delivery = s
  /\ s \in cancelled' <=> s \in cancelled
  /\ s \in pasted' <=> s \in pasted
  /\ s \in disturbed' <=> s \in disturbed
  /\ \/ cap'.of = cap.of /\ cap'.at = cap.at
     \/ cap.of # s /\ cap'.of # s

LEMMA PhaseKept ==
  ASSUME TypeOK, TypeOK', NEW s \in Sessions, Unseen(s)
  PROVE  Phase(s)' = Phase(s)
<1>1. /\ s > last' <=> s > last
      /\ cap'.of = s <=> cap.of = s
      /\ Capturing(s)' <=> Capturing(s)
  BY SessionFacts DEF Unseen, Capturing, TypeOK, Sessions
<1>. QED
  BY <1>1 DEF Unseen, Phase

LEMMA UnseenLives ==
  ASSUME TypeOK, TypeOK', NEW s \in Sessions, Unseen(s)
  PROVE  Lives(s)
<1>1. Phase(s)' = Phase(s) /\ (s \in pasted)' = (s \in pasted) /\ (s \in disturbed)' = (s \in disturbed)
  BY PhaseKept DEF Unseen
<1>. QED
  BY <1>1 DEF Unseen, Lives, Life!lifeVars

(* The steps of a life, by what changes.                                   *)
LEMMA LifeSteps ==
  ASSUME NEW s \in Sessions, s \in pasted' <=> s \in pasted,
         \/ /\ s \in disturbed' <=> s \in disturbed
            /\ history'[s] = history[s]
            /\ \/ Phase(s)' = Phase(s)
               \/ Phase(s) = "none" /\ Phase(s)' = "capture"
               \/ Phase(s) = "capture" /\ Phase(s)' = "work" /\ history[s] = {}
               \/ Phase(s) = "capture" /\ Phase(s)' \in {"ended", "ending"}
               \/ Phase(s) = "work" /\ Phase(s)' = "ending"
               \/ Phase(s) = "work" /\ Phase(s)' = "committed" /\ history[s] = {}
               \/ Phase(s) = "committed" /\ Phase(s)' = "ending"
               \/ Phase(s) = "ending" /\ Phase(s)' = "ended" /\ (s \in disturbed \/ history[s] # {})
         \/ /\ s \in disturbed' <=> s \in disturbed
            /\ Phase(s) = "capture" /\ Phase(s)' = "ended" /\ history'[s] = history[s] \cup {"failed"}
         \/ /\ s \in disturbed' /\ history'[s] = history[s]
            /\ Phase(s)' = Phase(s) \/ (Phase(s) = "capture" /\ Phase(s)' \in {"ended", "ending"})
  PROVE  Lives(s)
<1>0. /\ (s \in pasted)' = (s \in pasted)
      /\ (s \in disturbed' <=> s \in disturbed) => (s \in disturbed)' = (s \in disturbed)
      /\ s \in disturbed' => (s \in disturbed)' = TRUE
  OBVIOUS
<1> USE <1>0 DEF Lives, Life!lifeVars, Life!Next, Life!Goes
<1>1. CASE s \in disturbed' /\ history'[s] = history[s]
           /\ (Phase(s)' = Phase(s) \/ (Phase(s) = "capture" /\ Phase(s)' \in {"ended", "ending"}))
  BY <1>1 DEF Life!Take
<1>2. CASE (s \in disturbed' <=> s \in disturbed)
           /\ Phase(s) = "capture" /\ Phase(s)' = "ended" /\ history'[s] = history[s] \cup {"failed"}
  BY <1>2 DEF Life!Fail
<1>3. CASE (s \in disturbed' <=> s \in disturbed) /\ history'[s] = history[s]
  <2>1. CASE Phase(s)' = Phase(s)
    BY <1>3, <2>1
  <2>2. CASE Phase(s) = "none" /\ Phase(s)' = "capture"
    BY <1>3, <2>2 DEF Life!Begin
  <2>3. CASE Phase(s) = "capture" /\ Phase(s)' = "work" /\ history[s] = {}
    BY <1>3, <2>3 DEF Life!HandOver
  <2>4. CASE Phase(s) = "capture" /\ Phase(s)' = "ended"
    BY <1>3, <2>4 DEF Life!Fail
  <2>5. CASE Phase(s) \in {"capture", "work"} /\ Phase(s)' = "ending"
    BY <1>3, <2>5 DEF Life!GiveUp
  <2>6. CASE Phase(s) = "work" /\ Phase(s)' = "committed" /\ history[s] = {}
    BY <1>3, <2>6 DEF Life!Commit
  <2>7. CASE Phase(s) = "committed" /\ Phase(s)' = "ending"
    BY <1>3, <2>7 DEF Life!Close
  <2>8. CASE Phase(s) = "ending" /\ Phase(s)' = "ended" /\ (s \in disturbed \/ history[s] # {})
    BY <1>3, <2>8 DEF Life!End
  <2>. QED
    BY <1>3, <2>1, <2>2, <2>3, <2>4, <2>5, <2>6, <2>7, <2>8
<1>. QED
  BY <1>1, <1>2, <1>3

(* A cancellation notes its row, if its session has none of its own.       *)
LEMMA CancelledLives ==
  ASSUME TypeOK, NEW s \in Sessions, s \notin pasted, s \notin pasted', s \in disturbed' <=> s \in disturbed,
         RowWritten(s, "cancelled"), s \in claimed => history[s] # {}, history[s] \cap Kept = {},
         \/ Phase(s) = "work" /\ Phase(s)' = "ending"
         \/ Phase(s) = "ending" /\ Phase(s)' \in {"ending", "ended"}
  PROVE  Lives(s)
<1>1. CASE history'[s] = history[s]
  <2>1. history[s] # {}
    BY <1>1 DEF RowWritten
  <2>. QED
    BY <1>1, <2>1, LifeSteps
<1>2. CASE history'[s] # history[s]
  <2>1. history'[s] = history[s] \cup {"cancelled"} /\ "cancelled" \notin history[s]
    BY <1>2 DEF RowWritten
  <2>2. history[s] \subseteq {"failed", "command"}
    BY <2>1 DEF TypeOK, Rows, Kept
  <2>3. (s \in pasted) = FALSE /\ (s \in pasted)' = FALSE /\ (s \in disturbed)' = (s \in disturbed)
    OBVIOUS
  <2>. QED
    BY <2>1, <2>2, <2>3 DEF Lives, Life!Next, Life!NoteCancelled, Life!Goes, Life!Without
<1>. QED
  BY <1>1, <1>2

(* While a handler captures a dictation, that is its phase.                *)
LEMMA CapturePhase ==
  ASSUME TypeInv, ControlInv, CommitInv, NEW s \in Sessions, Capturing(s)
  PROVE  Phase(s) = "capture" /\ Young(s) /\ s = last /\ s \notin pasted
<1>1. Young(s) /\ s = last
  BY SessionFacts DEF Capturing, StillRecording, ControlInv, StartPlaces, FinishPlaces
<1>2. session = s \/ cap.of = s
  BY DEF Capturing, StillRecording
<1>3. ~(s > last)
  BY <1>1, SessionFacts DEF TypeInv, TypeOK
<1>. QED
  BY <1>1, <1>2, <1>3 DEF Phase, Young

(* The phases of a dictation with a pipeline.                              *)
PipePhase(s) ==
  IF pipe[s] = "done" /\ cap.of # s /\ session # s THEN "ended"
  ELSE IF delivery = s THEN "committed"
  ELSE IF s \in cancelled THEN "ending"
  ELSE IF pipe[s] \in Going THEN "work"
  ELSE "ending"

LEMMA PlainPhase ==
  ASSUME TypeOK, NEW s \in Sessions, s <= last, pipe[s] # "none", ~Capturing(s)
  PROVE  Phase(s) = PipePhase(s)
<1>1. ~(s > last) /\ pipe[s] \in Stages
  BY SessionFacts DEF TypeOK
<1>2. pipe[s] \in Stages \ (Concluding \cup {"none", "done"}) <=> pipe[s] \in Going
  BY <1>1 DEF Stages, Ending, Resting, Concluding, Going
<1>. QED
  BY <1>1, <1>2 DEF Phase, PipePhase

LEMMA StartStepsLive ==
  ASSUME LifeInv, TypeOK', StartSteps, NEW s \in Sessions
  PROVE  Lives(s)
<1> USE SessionFacts, FreeFacts DEF LifeInv, IInv, TypeInv
<1>1. StartGoesOn
  BY StartStepFacts
<1>2. cap.of = last /\ session \in {cap.of, None} /\ cap.of \in Sessions
  BY <1>1 DEF StartGoesOn, ControlInv, CapShape, Anyone
<1>3. /\ last' = last /\ UNCHANGED <<pipe, delivery, pasted, history, cancelled, disturbed>>
      /\ session' = None => state' = "IDLE" \/ UNCHANGED stateVars
  BY <1>1 DEF StartGoesOn, pipeVars, historyVars, outsideVars, stateVars
<1>4. CASE s # cap.of
  <2>1. session # s /\ session' # s /\ cap'.of # s
    BY <1>1, <1>2, <1>4 DEF StartGoesOn, stateVars
  <2>2. Unseen(s)
    BY <1>3, <1>4, <2>1 DEF Unseen, StillRecording
  <2>. QED
    BY <2>2, UnseenLives
<1>5. CASE s = cap.of
  <2>1. Capturing(s)
    BY <1>1, <1>5 DEF StartGoesOn, Capturing, StartPlaces
  <2>2. Phase(s) = "capture" /\ Young(s) /\ s = last
    BY <2>1, CapturePhase
  <2>3. CASE Capturing(s)'
    <3>1. Phase(s)' = "capture"
      BY <1>3, <2>2, <2>3 DEF Phase, Young, Capturing, StillRecording, TypeOK
    <3>. QED
      BY <1>3, <2>2, <3>1, LifeSteps
  <2>4. CASE ~Capturing(s)'
    <3>1. cap' = Free
      BY <1>1, <1>5, <2>4 DEF StartGoesOn, Capturing, StartPlaces
    <3>2. CASE session' = s
      <4>1. s \in disturbed
        BY <1>1, <1>5, <2>4, <3>2 DEF HandlerInv, StartGoesOn, Capturing, StillRecording, stateVars
      <4>2. Phase(s)' = "ending"
        BY <1>3, <2>2, <2>4, <3>1, <3>2 DEF Phase, Young, TypeOK
      <4>. QED
        BY <1>3, <2>2, <4>1, <4>2, LifeSteps
    <3>3. CASE session' # s
      <4>1. Phase(s)' = "ended"
        BY <1>3, <2>2, <3>1, <3>3 DEF Phase, Young, TypeOK
      <4>. QED
        BY <1>3, <2>2, <4>1, LifeSteps
    <3>. QED
      BY <3>2, <3>3
  <2>. QED
    BY <2>3, <2>4
<1>. QED
  BY <1>4, <1>5

(* A cancellation takes effect on the session that is current.             *)
LEMMA CurrentPhase ==
  ASSUME LifeInv, session \in Sessions, delivery # session
  PROVE  /\ Phase(session) \in {"capture", "work", "ending"}
         /\ session <= last /\ session \notin pasted /\ history[session] \cap Kept = {}
         /\ session \in claimed => history[session] # {}
         /\ pipe[session] = "none" => Capturing(session) \/ session \in disturbed
         /\ pipe[session] # "done"
<1> USE DEF LifeInv, IInv, TypeInv
<1>1. RowsOK(session) /\ Pasted(session) /\ session <= last /\ ~(session > last)
  BY SessionFacts DEF RowsInv, PasteInv, CapShape, TypeOK
<1>2. Phase(session) \in {"capture", "work", "ending"}
  BY <1>1 DEF Phase
<1>3. session \notin pasted
  BY <1>1 DEF Pasted
<1>4. session \in claimed => history[session] # {}
  BY DEF HistoryInv
<1>. QED
  BY <1>1, <1>2, <1>3, <1>4 DEF RowsOK, Undisturbed

LEMMA StartBeginsLives ==
  ASSUME LifeInv, TypeOK', StartBegins, NEW s \in Sessions
  PROVE  Lives(s)
<1> USE SessionFacts, FreeFacts DEF LifeInv, IInv, TypeInv
<1>1. /\ cap = Free /\ last' = last + 1 /\ session' = last + 1 /\ state' = "RECORDING"
      /\ UNCHANGED <<pipe, delivery, pasted, disturbed>>
      /\ last \in Nat /\ last + 1 \in Sessions /\ session \in Anyone /\ state \in {"IDLE", "PROCESSING"}
      /\ session # None => session <= last
  BY DEF StartBegins, pipeVars, outsideVars, TypeOK, Sessions, CapShape
<1>2. cap'.at = "open" /\ cap'.of = last + 1
  BY <1>1, CaptureFacts DEF StartBegins, Places, Anyone
<1>3. CASE s # session
  <2>1. history'[s] = history[s] /\ (s \in cancelled' <=> s \in cancelled)
    <3>1. CASE state = "IDLE"
      BY <3>1 DEF StartBegins, historyVars
    <3>2. CASE state # "IDLE"
      <4>1. DropSession(session) /\ cancelled' = cancelled \cup ({session} \ {None})
        BY <3>2 DEF StartBegins
      <4>. QED
        BY <1>1, <1>3, <4>1, DropFacts DEF RowWritten, historyVars, Anyone
    <3>. QED
      BY <3>1, <3>2
  <2>2. CASE s = last + 1
    <3>1. Phase(s) = "none"
      BY <1>1, <2>2 DEF Phase
    <3>2. Young(s)
      BY <1>1, <2>2 DEF ControlInv
    <3>3. Phase(s)' = "capture"
      BY <1>1, <1>2, <2>1, <2>2, <3>2 DEF Phase, Young, Capturing
    <3>. QED
      BY <1>1, <2>1, <3>1, <3>3, LifeSteps
  <2>3. CASE s # last + 1
    <3>1. Unseen(s)
      BY <1>1, <1>2, <1>3, <2>1, <2>3 DEF Unseen, StillRecording, Sessions
    <3>. QED
      BY <3>1, UnseenLives
  <2>. QED
    BY <2>2, <2>3
<1>4. CASE s = session
  <2>1. /\ s <= last' /\ session' # s /\ cap'.of # s /\ ~(s > last') /\ ~Capturing(s)' /\ ~(s > last)
        /\ cap.of # s /\ s <= last
    BY <1>1, <1>2, <1>4 DEF Capturing, StillRecording, Sessions
  <2>2. ~Capturing(s)
    BY <1>1, <1>4 DEF Capturing, StillRecording
  <2>3. CASE state = "IDLE"
    <3>1. s \in disturbed /\ cancelled' = cancelled /\ history' = history
      BY <1>4, <2>3 DEF StartBegins, historyVars, HandlerInv
    <3>2. CASE pipe[s] \in {"none", "done"}
      <4>1. delivery # s
        BY <3>2 DEF CommitInv, Commit
      <4>2. Phase(s) = "ending"
        BY <1>4, <2>1, <2>2, <3>2, <4>1 DEF Phase
      <4>3. Phase(s)' = "ended"
        BY <1>1, <2>1, <3>2 DEF Phase
      <4>. QED
        BY <1>1, <3>1, <4>2, <4>3, LifeSteps
    <3>3. CASE pipe[s] \notin {"none", "done"}
      <4>1. Phase(s)' = Phase(s)
        BY <1>1, <2>1, <2>2, <3>1, <3>3 DEF Phase
      <4>. QED
        BY <1>1, <3>1, <4>1, LifeSteps
    <3>. QED
      BY <3>2, <3>3
  <2>4. CASE state = "PROCESSING"
    <3>1. DropSession(s) /\ s \in cancelled' /\ delivery # s
      BY <1>4, <2>4 DEF StartBegins, TooLate
    <3>2. RowWritten(s, "cancelled")
      BY <3>1, DropFacts DEF Anyone
    <3>3. /\ Phase(s) \in {"work", "ending"} /\ s \notin pasted /\ history[s] \cap Kept = {}
          /\ s \in claimed => history[s] # {}
      <4>1. Phase(s) # "capture"
        BY <2>2 DEF Phase
      <4>. QED
        BY <1>4, <3>1, <4>1, CurrentPhase
    <3>4. Phase(s)' = IF pipe[s] \in {"none", "done"} THEN "ended" ELSE "ending"
      BY <1>1, <2>1, <3>1 DEF Phase
    <3>5. Phase(s) = "work" => pipe[s] \notin {"none", "done"}
      BY DEF Phase
    <3>6. s \notin pasted' /\ (s \in disturbed' <=> s \in disturbed)
      BY <1>1, <3>3
    <3>. QED
      BY <3>2, <3>3, <3>4, <3>5, <3>6, CancelledLives
  <2>. QED
    BY <1>1, <2>3, <2>4
<1>. QED
  BY <1>3, <1>4

LEMMA FinishLives ==
  ASSUME LifeInv, TypeOK', FinishActs, NEW s \in Sessions
  PROVE  Lives(s)
<1> USE SessionFacts, FreeFacts DEF LifeInv, IInv, TypeInv
<1>1. CASE FinishBegins
  <2>1. CASE s # session
    <3>1. Unseen(s)
      BY <1>1, <2>1, FinishBeginsFacts DEF Unseen, StillRecording, pipeVars, historyVars, outsideVars
    <3>. QED
      BY <3>1, UnseenLives
  <2>2. CASE s = session
    <3>1. Capturing(s) /\ Capturing(s)'
      BY <1>1, <2>2, FinishBeginsFacts DEF Capturing, StillRecording
    <3>2. Phase(s) = "capture" /\ Young(s) /\ s = last
      BY <3>1, CapturePhase
    <3>3. Phase(s)' = "capture"
      BY <1>1, <2>2, <3>1, <3>2, FinishBeginsFacts DEF Phase, Young, pipeVars, TypeOK
    <3>. QED
      BY <1>1, <3>2, <3>3, FinishBeginsFacts, LifeSteps DEF pipeVars, historyVars, outsideVars
  <2>. QED
    BY <2>1, <2>2
<1>2. CASE UNCHANGED <<stateVars, cap, captureVars, lease, streamVars, pipeVars, cancelled, historyVars, outsideVars>>
  <2>1. Unseen(s)
    BY <1>2 DEF Unseen, StillRecording, stateVars, captureVars, pipeVars, historyVars, outsideVars
  <2>. QED
    BY <2>1, UnseenLives
<1>3. CASE ChooseWindow
  <2>1. /\ cap.at = "release" /\ cap'.at = "stop" /\ cap'.of = cap.of /\ cap.of = last /\ last' = last /\ state' = state
        /\ session \in {cap.of, None} /\ session' \in {session, cap.of}
        /\ UNCHANGED <<pipe, delivery, pasted, history, cancelled, disturbed>>
    BY <1>3, CaptureFacts DEF ChooseWindow, ControlInv, FinishPlaces, Places, pipeVars, historyVars, outsideVars
  <2>2. CASE s # cap.of
    <3>1. session # s /\ session' # s
      BY <2>1, <2>2
    <3>2. ~Capturing(s) /\ ~Capturing(s)'
      BY <2>1, <2>2, <3>1 DEF Capturing, StillRecording
    <3>3. Phase(s)' = Phase(s)
      BY <2>1, <2>2, <3>1, <3>2 DEF Phase
    <3>. QED
      BY <2>1, <3>3, LifeSteps
  <2>3. CASE s = cap.of
    <3>1. Capturing(s) /\ Capturing(s)'
      BY <2>1, <2>3 DEF Capturing
    <3>2. Phase(s) = "capture" /\ Young(s) /\ s = last
      BY <3>1, CapturePhase
    <3>3. Phase(s)' = "capture"
      BY <2>1, <2>3, <3>1, <3>2 DEF Phase, Young, TypeOK
    <3>. QED
      BY <2>1, <3>2, <3>3, LifeSteps
  <2>. QED
    BY <2>2, <2>3
<1>4. CASE FinishEmpty \/ FinishSpawns \/ FinishFails
  <2>1. /\ cap.at = "stop" /\ cap' = Free /\ cap.of = last /\ last' = last /\ session \in {cap.of, None}
        /\ state # "RECORDING" /\ state' # "RECORDING" /\ session' \in {session, None}
        /\ UNCHANGED <<delivery, pasted, cancelled, disturbed>>
    BY <1>4, FinishEndsFacts DEF outsideVars, stateVars
  <2>2. CASE s # cap.of
    <3>1. Unseen(s)
      BY <1>4, <2>1, <2>2, FinishEndsFacts DEF Unseen, StillRecording
    <3>. QED
      BY <3>1, UnseenLives
  <2>3. CASE s = cap.of
    <3>1. Capturing(s)
      BY <2>1, <2>3 DEF Capturing
    <3>2. Phase(s) = "capture" /\ Young(s) /\ s = last
      BY <3>1, CapturePhase
    <3>3. ~Capturing(s)' /\ cap'.of # s /\ ~(s > last')
      BY <2>1, <3>2 DEF Capturing, StillRecording, TypeOK
    <3>4. CASE FinishSpawns
      <4>1. pipe'[s] = "wait" /\ history' = history
        BY <2>3, <3>4 DEF FinishSpawns, TypeOK
      <4>2. Phase(s)' = "work"
        BY <2>1, <3>2, <3>3, <4>1 DEF Phase, Young, Stages, Ending, Resting, Concluding
      <4>. QED
        BY <2>1, <3>2, <4>1, <4>2, LifeSteps DEF Young
    <3>5. CASE FinishEmpty \/ FinishFails
      <4>1. pipe' = pipe /\ session' # s
        BY <2>3, <3>5 DEF FinishEmpty, FinishFails, StopCapture, ResetToIdle, pipeVars, stateVars
      <4>2. history'[s] \in {{}, {"failed"}}
        BY <1>4, <2>3, <3>2, FinishEndsFacts DEF Young
      <4>3. Phase(s)' = "ended"
        BY <2>1, <3>2, <3>3, <4>1 DEF Phase, Young
      <4>4. history'[s] = history[s] \/ history'[s] = history[s] \cup {"failed"}
        BY <3>2, <4>2 DEF Young
      <4>. QED
        BY <2>1, <3>2, <4>3, <4>4, LifeSteps
    <3>. QED
      BY <1>4, <3>4, <3>5
  <2>. QED
    BY <2>2, <2>3
<1>. QED
  BY <1>1, <1>2, <1>3, <1>4, LimitFacts DEF FinishActs, FinishSteps

LEMMA CancelLives ==
  ASSUME LifeInv, TypeOK', CancelActs, NEW s \in Sessions
  PROVE  Lives(s)
<1> USE SessionFacts, FreeFacts DEF LifeInv, IInv, TypeInv
<1>1. CASE CancelBegins
  <2>1. /\ cap = Free /\ cap'.of = session /\ cap'.at \in Drops /\ session' = None /\ state' = "IDLE" /\ last' = last
        /\ cancelled' = cancelled \cup ({session} \ {None})
        /\ UNCHANGED <<pipe, delivery, pasted, history, disturbed>>
    BY <1>1, CancelBeginsFacts DEF Drops, pipeVars, historyVars, outsideVars
  <2>2. CASE s # session
    <3>1. Unseen(s)
      BY <2>1, <2>2 DEF Unseen, StillRecording
    <3>. QED
      BY <3>1, UnseenLives
  <2>3. CASE s = session
    <3>1. delivery # s
      BY <1>1, <2>3, CancelBeginsFacts
    <3>2. Phase(s) \in {"capture", "work", "ending"} /\ s <= last /\ ~(s > last)
      BY <2>3, <3>1, CurrentPhase DEF TypeOK
    <3>3. Phase(s)' = "ending"
      BY <2>1, <2>3, <3>1, <3>2 DEF Phase
    <3>. QED
      BY <2>1, <3>2, <3>3, LifeSteps
  <2>. QED
    BY <2>2, <2>3
<1>2. CASE CancelRefused
  <2>1. Unseen(s)
    BY <1>2 DEF CancelRefused, Unseen, StillRecording, stateVars, captureVars, pipeVars, historyVars, outsideVars
  <2>. QED
    BY <2>1, UnseenLives
<1>3. CASE CancelDrops
  <2>1. /\ cap.at \in Drops /\ cap' = Free /\ state # "RECORDING" /\ last' = last
        /\ UNCHANGED <<state, session, pipe, delivery, pasted, disturbed>>
    BY <1>3, CancelDropsFacts DEF stateVars, pipeVars, outsideVars
  <2>2. CASE s # cap.of
    <3>1. history'[s] = history[s] /\ (s \in cancelled' <=> s \in cancelled)
      BY <1>3, <2>2, CancelDropsFacts DEF RowWritten, historyVars, Anyone
    <3>2. Unseen(s)
      BY <2>1, <2>2, <3>1 DEF Unseen, StillRecording
    <3>. QED
      BY <3>2, UnseenLives
  <2>3. CASE s = cap.of
    <3>1. Dropping(s) /\ RowWritten(s, "cancelled") /\ s <= last /\ ~(s > last)
      BY <1>3, <2>3, CancelDropsFacts DEF Dropping, CapShape, TypeOK
    <3>2. delivery # s /\ (s \in cancelled \/ pipe[s] \in {"closed", "done"}) /\ s \notin pasted
      BY <3>1 DEF CommitInv, Commit, PasteInv, Pasted
    <3>3. history[s] \cap Kept = {} /\ (s \in claimed => history[s] # {})
      BY <3>1 DEF RowsInv, RowsOK, HistoryInv
    <3>4. ~Capturing(s) /\ ~Capturing(s)'
      BY <2>1, <2>3 DEF Capturing, StillRecording, Drops
    <3>5. Phase(s) = "ending"
      BY <2>3, <3>1, <3>2, <3>4 DEF Phase, Concluding
    <3>6. Phase(s)' \in {"ending", "ended"}
      <4>1. CASE cap.at = "dropRecording"
        <5>1. pipe[s] = "none" /\ s \in cancelled
          BY <2>3, <3>2, <4>1 DEF ControlInv
        <5>2. session # s
          BY <5>1 DEF ControlInv
        <5>. QED
          BY <2>1, <3>1, <5>1, <5>2 DEF Phase
      <4>2. CASE cap.at = "dropProcessing"
        <5>1. cancelled' = cancelled
          BY <1>3, <4>2 DEF CancelDrops
        <5>. QED
          BY <2>1, <3>1, <3>2, <3>4, <5>1 DEF Phase, Concluding
      <4>. QED
        BY <2>1, <4>1, <4>2 DEF Drops
    <3>. QED
      BY <2>1, <3>1, <3>2, <3>3, <3>5, <3>6, CancelledLives
  <2>. QED
    BY <2>2, <2>3
<1>. QED
  BY <1>1, <1>2, <1>3 DEF CancelActs

LEMMA OutsideLives ==
  ASSUME LifeInv, TypeOK', OutsideActs, NEW s \in Sessions
  PROVE  Lives(s)
<1> USE SessionFacts, FreeFacts DEF LifeInv, IInv, TypeInv
<1>1. /\ UNCHANGED <<cap, last, pipe, delivery, pasted, cancelled, history>>
      /\ session' \in {session, None} /\ state' \in {"IDLE", "PROCESSING"}
  BY OutsideFacts DEF pipeVars, historyVars
<1>2. CASE s # session
  <2>1. Unseen(s)
    BY <1>1, <1>2, OutsideFacts DEF Unseen, StillRecording
  <2>. QED
    BY <2>1, UnseenLives
<1>3. CASE s = session
  <2>1. s \in disturbed' /\ (s \in disturbed => s \in disturbed') /\ s <= last /\ ~(s > last)
    BY <1>3, OutsideFacts DEF HandlerInv, CapShape, TypeOK
  <2>2. ~StillRecording(s)' /\ (Capturing(s)' => Capturing(s))
    BY <1>1 DEF StillRecording, Capturing
  <2>3. CASE Capturing(s)
    <3>1. Phase(s) = "capture" /\ Young(s)
      BY <2>3, CapturePhase
    <3>2. Phase(s)' \in {"capture", "ended", "ending"}
      BY <1>1, <2>1, <3>1 DEF Phase, Young
    <3>. QED
      BY <1>1, <2>1, <3>1, <3>2, LifeSteps
  <2>4. CASE ~Capturing(s) /\ pipe[s] \notin {"none", "done"}
    <3>1. Phase(s)' = Phase(s)
      BY <1>1, <2>1, <2>2, <2>4 DEF Phase
    <3>. QED
      BY <1>1, <2>1, <3>1, LifeSteps
  <2>5. CASE ~Capturing(s) /\ pipe[s] \in {"none", "done"}
    <3>1. s \in disturbed /\ delivery # s
      BY <1>3, <2>5 DEF RowsInv, RowsOK, Undisturbed, CommitInv, Commit
    <3>2. Phase(s) = "ending"
      BY <1>3, <2>1, <2>5, <3>1 DEF Phase
    <3>3. Phase(s)' \in {"ending", "ended"}
      BY <1>1, <2>1, <2>2, <2>5, <3>1 DEF Phase
    <3>. QED
      BY <1>1, <2>1, <3>1, <3>2, <3>3, LifeSteps
  <2>. QED
    BY <2>3, <2>4, <2>5
<1>. QED
  BY <1>2, <1>3

(* A pipeline moves its own dictation on, and no other.                    *)
LEMMA PipelineOthersLive ==
  ASSUME LifeInv, TypeOK', NEW s \in Sessions, Pipeline(s), NEW t \in Sessions \ {s}
  PROVE  Lives(t)
<1> USE SessionFacts DEF LifeInv, IInv, TypeInv
<1>1. PipeStep(s)
  BY PipelineFacts
<1>2. pipe[s] \notin Resting => delivery # t
  BY DEF CommitInv, Commit, ControlInv, Resting
<1>3. delivery' = t <=> delivery = t
  BY <1>1, <1>2 DEF PipeStep
<1>4. (session' = t <=> session = t) /\ (StillRecording(t)' <=> StillRecording(t))
  BY <1>1 DEF PipeStep, StillRecording, stateVars
<1>5. Unseen(t)
  BY <1>1, <1>3, <1>4 DEF PipeStep, Unseen, outsideVars
<1>. QED
  BY <1>5, UnseenLives

(* The phases before and after a step of the pipeline.                     *)
LEMMA PipelinePhases ==
  ASSUME LifeInv, TypeOK', NEW s \in Sessions, Pipeline(s)
  PROVE  Phase(s) = PipePhase(s) /\ Phase(s)' = PipePhase(s)'
<1> USE SessionFacts DEF LifeInv, IInv, TypeInv
<1>1. PipeStep(s)
  BY PipelineFacts
<1>2. s <= last /\ ~Capturing(s)
  BY <1>1, PipelineIsNotYoung DEF PipeStep, Capturing, StillRecording, StartPlaces, FinishPlaces
<1>3. ~(s > last') /\ ~Capturing(s)' /\ pipe'[s] \in Stages /\ pipe'[s] # "none"
  BY <1>1, <1>2 DEF PipeStep, Capturing, StillRecording, TypeOK, stateVars
<1>4. pipe'[s] \in Stages \ (Concluding \cup {"none", "done"}) <=> pipe'[s] \in Going
  BY <1>3 DEF Stages, Ending, Resting, Concluding, Going
<1>5. Phase(s) = PipePhase(s)
  BY <1>1, <1>2, PlainPhase DEF PipeStep
<1>. QED
  BY <1>3, <1>4, <1>5 DEF Phase, PipePhase

(* A conclusion is the one outcome, or comes after a cancellation.         *)
LEMMA PipelineReports ==
  ASSUME LifeInv, TypeOK', NEW s \in Sessions, PipeConcludes(s)
  PROVE  Lives(s)
<1> USE SessionFacts DEF LifeInv, IInv, TypeInv
<1>1. Phase(s) = PipePhase(s) /\ Phase(s)' = PipePhase(s)'
  BY PipelinePhases DEF Pipeline
<1>2. RowsOK(s) /\ Commit(s) /\ Pasted(s)
  BY DEF RowsInv, CommitInv, PasteInv
<1>3. PICK row \in Rows \ {"cancelled"} :
        /\ Claim(s, row) /\ RowWritten(s, row)
        /\ pipe[s] \in {"empty", "command", "committed", "record", "raised"} /\ pipe'[s] = "reset"
        /\ pipe[s] = "committed" => row = "ready" /\ delivery = s
        /\ pipe[s] = "record" => row \in {"pasted", "failed"} /\ delivery = s
        /\ pipe[s] = "raised" => row = "failed" /\ s \notin cancelled
        /\ pipe[s] \in {"empty", "command"} => row \in {"failed", "command"} /\ delivery # s
        /\ UNCHANGED <<stateVars, cap, last, delivery, pasted, cancelled, outsideVars>>
  BY ConcludeFacts
<1>4. (s \in pasted' <=> s \in pasted) /\ (s \in disturbed' <=> s \in disturbed)
  BY <1>3 DEF outsideVars
<1>5. CASE s \in claimed
  <2>1. s \in cancelled /\ history' = history
    BY <1>2, <1>3, <1>5 DEF RowsOK, Going, Claim
  <2>2. Phase(s) = "ending" /\ Phase(s)' = "ending"
    BY <1>1, <1>2, <1>3, <2>1 DEF PipePhase, Commit
  <2>. QED
    BY <1>4, <2>1, <2>2, LifeSteps
<1>6. CASE s \notin claimed
  <2>1. history[s] = {} /\ history'[s] = {row}
    BY <1>2, <1>3, <1>6 DEF RowsOK, Going, RowWritten
  <2>2. (s \in pasted)' = (s \in pasted) /\ (s \in disturbed)' = (s \in disturbed)
    BY <1>4
  <2>3. CASE delivery = s
    <3>1. Phase(s) = "committed" /\ Phase(s)' = "committed"
      BY <1>1, <1>3, <2>3 DEF PipePhase
    <3>2. row \in IF s \in pasted THEN {"pasted", "failed"} ELSE {"ready"}
      BY <1>2, <1>3, <2>3 DEF RowsOK, Pasted
    <3>. QED
      BY <2>1, <2>2, <3>1, <3>2 DEF Lives, Life!Next, Life!Report, Life!Goes
  <2>4. CASE delivery # s
    <3>1. Phase(s) \in {"work", "ending"} /\ Phase(s)' = "ending"
      BY <1>1, <1>3, <2>4 DEF PipePhase, Going
    <3>2. row \in {"failed", "command"} /\ (s \in pasted) = FALSE
      BY <1>2, <1>3, <2>4 DEF Pasted
    <3>. QED
      BY <2>1, <2>2, <3>1, <3>2 DEF Lives, Life!Next, Life!Report, Life!Goes, Life!Without
  <2>. QED
    BY <2>3, <2>4
<1>. QED
  BY <1>5, <1>6

LEMMA PipelineLives ==
  ASSUME LifeInv, TypeOK', NEW s \in Sessions, Pipeline(s)
  PROVE  Lives(s)
<1> USE SessionFacts DEF LifeInv, IInv, TypeInv
<1>1. Phase(s) = PipePhase(s) /\ Phase(s)' = PipePhase(s)'
  BY PipelinePhases
<1>2. RowsOK(s) /\ Commit(s) /\ Pasted(s) /\ disturbed' = disturbed
  BY PipelineFacts DEF RowsInv, CommitInv, PasteInv, PipeStep, outsideVars
<1>3. CASE PipeStarts(s) \/ PipeTranscribes(s) \/ PipeReadsText(s) \/ PipeChecksAgain(s) \/ PipeGivesUp(s)
  <2>1. /\ UNCHANGED <<session, cap, delivery, cancelled, pasted, history>>
        /\ pipe[s] \in {"wait", "transcribe", "transcribed", "committed", "raised"}
        /\ \/ pipe'[s] \in Going
           \/ pipe'[s] = "close"
    BY <1>3 DEF PipeStarts, PipeTranscribes, PipeReadsText, PipeChecksAgain, PipeGivesUp, PipeGoes, PipeAt,
                TypeOK, Going, stateVars, historyVars
  <2>2. Phase(s)' = Phase(s) \/ (Phase(s) = "work" /\ Phase(s)' = "ending")
    BY <1>1, <2>1 DEF PipePhase, Going
  <2>. QED
    BY <1>2, <2>1, <2>2, LifeSteps
<1>4. CASE PipeCommits(s)
  <2>1. UNCHANGED <<session, cap, cancelled, pasted, history>> /\ pipe[s] = "polish" /\ delivery # s
    BY <1>2, <1>4 DEF PipeCommits, PipeGoes, stateVars, historyVars, Commit
  <2>2. CASE delivery' = delivery
    <3>1. pipe'[s] \in {"empty", "raised", "close"}
      BY <1>2, <1>4, <2>1, <2>2 DEF PipeCommits, PipeGoes, PipeAt, TypeOK
    <3>2. Phase(s)' = Phase(s) \/ (Phase(s) = "work" /\ Phase(s)' = "ending")
      BY <1>1, <2>1, <2>2, <3>1 DEF PipePhase, Going
    <3>. QED
      BY <1>2, <2>1, <3>2, LifeSteps
  <2>3. CASE delivery' # delivery
    <3>1. InCharge(s) /\ delivery' = s /\ pipe'[s] = "committed"
      BY <1>4, <2>3 DEF PipeCommits, PipeGoes, PipeAt, TypeOK
    <3>2. s \notin cancelled /\ history[s] = {}
      BY <1>2, <2>1, <3>1 DEF InCharge, RowsOK, Going
    <3>3. Phase(s) = "work" /\ Phase(s)' = "committed"
      BY <1>1, <2>1, <3>1, <3>2 DEF PipePhase, Going
    <3>. QED
      BY <1>2, <2>1, <3>2, <3>3, LifeSteps
  <2>. QED
    BY <2>2, <2>3
<1>5. CASE PipePastes(s)
  <2>1. /\ UNCHANGED <<session, cap, delivery, cancelled, history>> /\ pasted' = pasted \cup {s}
        /\ pipe[s] = "paste" /\ pipe'[s] \in {"record", "raised"} /\ delivery = s
    BY <1>2, <1>5 DEF PipePastes, PipeGoes, PipeAt, TypeOK, stateVars, historyVars, Commit
  <2>2. s \notin pasted /\ history[s] = {}
    BY <1>2, <2>1 DEF RowsOK, Pasted, Commit, Going
  <2>3. Phase(s) = "committed" /\ Phase(s)' = "committed"
    BY <1>1, <2>1 DEF PipePhase
  <2>4. (s \in pasted) = FALSE /\ (s \in pasted)' = TRUE /\ (s \in disturbed)' = (s \in disturbed)
    BY <1>2, <2>1, <2>2
  <2>. QED
    BY <2>1, <2>2, <2>3, <2>4 DEF Lives, Life!Next, Life!Insert
<1>6. CASE PipeResets(s) \/ PipeEnds(s)
  <2>1. /\ UNCHANGED <<cap, delivery, cancelled, pasted, history>> /\ session' # s
        /\ \/ pipe[s] = "reset" /\ pipe'[s] = "close"
           \/ pipe[s] = "closed" /\ pipe'[s] = "done" /\ delivery # s
    BY <1>2, <1>6 DEF PipeResets, PipeEnds, PipeGoes, PipeAt, ResetToIdle, TypeOK, stateVars, historyVars, Commit
  <2>2. pipe[s] = "closed" /\ s \notin disturbed => history[s] # {} \/ cap.of = s
    BY DEF HistoryInv, Settled, Undisturbed
  <2>3. \/ Phase(s)' = Phase(s)
        \/ Phase(s) = "ending" /\ Phase(s)' = "ended" /\ (s \in disturbed \/ history[s] # {})
    BY <1>1, <2>1, <2>2 DEF PipePhase, Going
  <2>. QED
    BY <1>2, <2>1, <2>3, LifeSteps
<1>8. CASE PipeEndsStream(s) \/ PipeLeaves(s)
  <2>1. /\ UNCHANGED <<session, cap, delivery, cancelled, pasted, history>>
        /\ \/ pipe[s] \in Going /\ pipe'[s] \in Going
           \/ pipe[s] \in {"close", "closing"} /\ pipe'[s] \in {"closing", "discarding"}
    BY <1>8 DEF PipeEndsStream, PipeLeaves, PipeGoes, PipeAt, TypeOK, Going, stateVars, historyVars
  <2>2. Phase(s)' = Phase(s)
    BY <1>1, <2>1 DEF PipePhase, Going
  <2>. QED
    BY <1>2, <2>1, <2>2, LifeSteps
<1>7. CASE PipeCloses(s)
  <2>1. /\ UNCHANGED <<session, cap, pasted, history>> /\ pipe[s] \in {"close", "discarding"} /\ pipe'[s] = "closed"
        /\ delivery' # s /\ s \notin cancelled'
    BY <1>7 DEF PipeCloses, PipeGoes, PipeAt, TypeOK, stateVars
  <2>2. Phase(s) \in {"committed", "ending"} /\ Phase(s)' = "ending"
    BY <1>1, <2>1 DEF PipePhase, Going
  <2>. QED
    BY <1>2, <2>1, <2>2, LifeSteps
<1>. QED
  BY <1>3, <1>4, <1>5, <1>6, <1>7, <1>8, PipelineReports DEF Pipeline

-------------------------------------------------------------------------------
LEMMA LifeStep ==
  ASSUME LifeInv, [Next]_vars, NEW s \in Sessions
  PROVE  Lives(s)
<1>1. TypeOK /\ TypeOK'
  BY NextType DEF LifeInv, IInv, TypeInv
<1>2. CASE UNCHANGED vars
  <2>1. Unseen(s)
    BY <1>2 DEF Unseen, StillRecording, vars, stateVars, captureVars, pipeVars, historyVars, outsideVars
  <2>. QED
    BY <1>1, <2>1, UnseenLives
<1>3. CASE Start
  BY <1>1, <1>3, StartStepsLive, StartBeginsLives DEF Start, StartSteps
<1>4. ASSUME NEW t \in Sessions, Pipeline(t) PROVE Lives(s)
  BY <1>1, <1>4, PipelineLives, PipelineOthersLive
<1>. QED
  BY <1>1, <1>2, <1>3, <1>4, NextGroups, FinishLives, CancelLives, OutsideLives

LEMMA InitLives == Init => \A s \in Sessions : Life(s)!Init
<1> SUFFICES ASSUME Init, NEW s \in Sessions PROVE Life(s)!Init
  OBVIOUS
<1>1. s > last /\ history[s] = {} /\ (s \in pasted) = FALSE /\ (s \in disturbed) = FALSE
  BY SessionFacts DEF Init, Sessions
<1>. QED
  BY <1>1 DEF Phase, Life!Init

(* Whatever the handlers, pipelines, cancellations, retries and resets of  *)
(* any number of dictations do, the life of each of them is one that       *)
(* DictationLifecycle allows.                                              *)
THEOREM LivesAreLegal == SafeSpec => EachDictationLives
<1>1. LifeInv /\ [Next]_vars => [\A s \in Sessions : [Life(s)!Next]_(Life(s)!lifeVars)]_vars
  BY LifeStep DEF Lives
<1>. QED
  BY <1>1, InitLives, LifeInvariant, PTL DEF SafeSpec, EachDictationLives

(* Dictation implements DictationLifecycle, once for each dictation.       *)
THEOREM Implementation == \A s \in Sessions : SafeSpec => Life(s)!Spec
<1>. SUFFICES ASSUME NEW s \in Sessions PROVE SafeSpec => Life(s)!Spec
  OBVIOUS
<1>1. Init => Life(s)!Init
  BY InitLives
<1>2. LifeInv /\ [Next]_vars => [Life(s)!Next]_(Life(s)!lifeVars)
  BY LifeStep DEF Lives
<1>. QED
  BY <1>1, <1>2, LifeInvariant, PTL DEF SafeSpec, Life!Spec
===============================================================================
