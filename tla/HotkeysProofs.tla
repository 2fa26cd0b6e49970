----------------------------- MODULE HotkeysProofs -----------------------------
(***************************************************************************)
(* Proofs about the keyboard's listener, the mouse hook and the handlers   *)
(* they call, for any shortcuts and modes, any queue size and any number   *)
(* of gestures: the flags of both sides agree with the application, and a  *)
(* release ends what push to talk began.                                   *)
(***************************************************************************)
EXTENDS Hotkeys, SequenceTheorems, TLAPS

-------------------------------------------------------------------------------
(* The inductive invariant.                                                *)

(* The sequence has one of S; every start in it has one of S after it.     *)
Has(s, S)      == \E i \in DOMAIN s : s[i] \in S
Followed(s, S) == \A i \in DOMAIN s : s[i] = "start" => \E j \in DOMAIN s : i < j /\ s[j] \in S

(* A handler past its first step has the lock, and what it has found or    *)
(* made of the application's state is still so.                            *)
HandlerOK(c) ==
  /\ run[c].at \in {"begin", "on", "onListener", "open", "off", "offListener", "outcome"} => cap = c
  /\ run[c].at \in {"on", "onListener", "open"} =>
       run[c].op = "start" /\ (app = "RECORDING" \/ taken # "no")
  /\ run[c].then # "return" => run[c].at \in {"off", "offListener"}
  /\ run[c].then = "begin" \/ run[c].at = "begin" => run[c].op = "start"
  /\ run[c].then = "outcome" \/ run[c].at = "outcome" => app # "RECORDING" /\ ~pipe
  /\ run[c].at \notin {"idle", "after"} => run[c].op # None
  /\ run[c].at = "clear" => c = "key"

AppInv ==
  /\ \A c \in Callers : HandlerOK(c)
  /\ pipe => app # "RECORDING"
  /\ app = "RECORDING" => taken = "no"

(* A flag is up for a recording, for one that somebody asked for, for one  *)
(* whose state was taken, or until a handler clears it.                    *)
Opens == \E c \in Callers : Opening(c)

RecInv ==
  rec => \/ app = "RECORDING" \/ taken # "no" \/ Has(acts, {"start"}) \/ Opens
         \/ \E c \in Callers : run[c].at \in {"off", "offListener"}

HrecInv ==
  hrec => \/ app = "RECORDING" \/ taken # "no"
          \/ Has(acts, {"start"}) \/ Has(queue, {"start"}) \/ Opens
          \/ \E c \in Callers : run[c].at = "off"

(* Somebody has asked for the end of what is recorded.                     *)
EndPends ==
  \/ Has(acts, {"finish", "cancel"}) \/ Has(queue, {"finish"}) \/ urgent = "finish"
  \/ \E c \in Callers : run[c].op \in {"finish", "cancel"} /\ run[c].at = "wait"

(* Both flags are up for a recording, unless its end is asked for, its     *)
(* handler is about to raise them, or they were erased.                    *)
UpInv ==
  app = "RECORDING" /\ "erased" \notin upset =>
    \/ EndPends
    \/ /\ rec \/ \E c \in Callers : run[c].at \in {"on", "onListener"}
       /\ hrec \/ \E c \in Callers : run[c].at = "on"

(* What nothing has upset.                                                 *)
CalmInv ==
  /\ "bar" \notin upset => run["bar"] = Idle
  /\ "reconfigured" \notin upset => armed = None
  /\ style \notin Solo => ~key.timer

(* Push to talk: for every start that is on its way there is its end, or   *)
(* the key or button is down that will send it.                            *)
Talk == mode = "ptt_only" /\ style \in {"ctrl_win", "preset", "hold"}

KeyHolds   == key.held /\ key.trig /\ rec
MouseHolds == mheld /\ hrec

TalkInv ==
  Talk /\ upset = {} =>
    /\ KeyHolds \/ Followed(acts, {"finish", "cancel"})
    /\ Opening("key") => KeyHolds \/ Has(acts, {"finish", "cancel"})
    /\ MouseHolds \/ Followed(queue, {"finish"})
    /\ Opening("mouse") => MouseHolds \/ Has(queue, {"finish"}) \/ urgent = "finish"
    /\ app = "RECORDING" => KeyHolds \/ MouseHolds \/ EndPends

FlagInv == AppInv /\ RecInv /\ HrecInv /\ UpInv /\ CalmInv /\ TalkInv

IInv == TypeOK /\ FlagInv

-------------------------------------------------------------------------------
(* RemoveAt leaves the other elements, in their order.                     *)
LEMMA RemoveAtProperties ==
  ASSUME NEW S, NEW s \in Seq(S), NEW n \in 1..Len(s)
  PROVE  /\ RemoveAt(s, n) \in Seq(S)
         /\ Len(RemoveAt(s, n)) = Len(s) - 1
         /\ \A i \in 1..(Len(s) - 1) : RemoveAt(s, n)[i] = IF i < n THEN s[i] ELSE s[i + 1]
<1> DEFINE front == SubSeq(s, 1, n - 1)
           rest  == SubSeq(s, n + 1, Len(s))
<1>0. Len(s) \in Nat /\ n \in Nat /\ n >= 1 /\ n <= Len(s)
  BY LenProperties
<1>1. \A i \in 1..Len(s) : s[i] \in S
  BY ElementOfSeq
<1>2. /\ front \in Seq(S)
      /\ Len(front) = n - 1
      /\ \A i \in 1..(n - 1) : front[i] = s[i]
  <2>1. \A i \in 1..(n - 1) : s[i] \in S
    BY <1>0, <1>1
  <2>2. /\ SubSeq(s, 1, n - 1) \in Seq(S)
        /\ Len(SubSeq(s, 1, n - 1)) = IF 1 <= n - 1 THEN (n - 1) - 1 + 1 ELSE 0
        /\ \A i \in 1 .. (n - 1) - 1 + 1 : SubSeq(s, 1, n - 1)[i] = s[1 + i - 1]
    BY <1>0, <2>1, SubSeqProperties
  <2>. QED
    BY <1>0, <2>2
<1>3. /\ rest \in Seq(S)
      /\ Len(rest) = Len(s) - n
      /\ \A i \in 1..(Len(s) - n) : rest[i] = s[n + i]
  <2>1. \A i \in (n + 1)..Len(s) : s[i] \in S
    BY <1>0, <1>1
  <2>2. /\ SubSeq(s, n + 1, Len(s)) \in Seq(S)
        /\ Len(SubSeq(s, n + 1, Len(s))) = IF n + 1 <= Len(s) THEN Len(s) - (n + 1) + 1 ELSE 0
        /\ \A i \in 1 .. Len(s) - (n + 1) + 1 : SubSeq(s, n + 1, Len(s))[i] = s[(n + 1) + i - 1]
    BY <1>0, <2>1, SubSeqProperties
  <2>. QED
    BY <1>0, <2>2
<1>4. /\ front \o rest \in Seq(S)
      /\ Len(front \o rest) = Len(front) + Len(rest)
      /\ \A i \in 1 .. Len(front) + Len(rest) :
           (front \o rest)[i] = IF i <= Len(front) THEN front[i] ELSE rest[i - Len(front)]
  BY <1>2, <1>3, ConcatProperties
<1>5. RemoveAt(s, n) = front \o rest
  BY DEF RemoveAt
<1> HIDE DEF front, rest
<1>6. ASSUME NEW i \in 1..(Len(s) - 1)
      PROVE  (front \o rest)[i] = IF i < n THEN s[i] ELSE s[i + 1]
  <2>1. CASE i < n
    BY <1>0, <1>2, <1>3, <1>4, <2>1
  <2>2. CASE ~(i < n)
    <3>1. i - (n - 1) \in 1..(Len(s) - n) /\ n + (i - (n - 1)) = i + 1
      BY <1>0, <2>2
    <3>2. (front \o rest)[i] = rest[i - (n - 1)]
      BY <1>0, <1>2, <1>3, <1>4, <2>2
    <3>. QED
      BY <1>3, <2>2, <3>1, <3>2
  <2>. QED
    BY <2>1, <2>2
<1>7. Len(front \o rest) = Len(s) - 1
  BY <1>0, <1>2, <1>3, <1>4
<1>. QED
  BY <1>4, <1>5, <1>6, <1>7

-------------------------------------------------------------------------------
(* What the lists of gestures become.                                      *)

LEMMA SeqDomain == ASSUME NEW S, NEW s \in Seq(S) PROVE DOMAIN s = 1..Len(s) /\ Len(s) \in Nat
BY LenProperties

LEMMA HasAppend ==
  ASSUME NEW S, NEW s \in Seq(S), NEW e \in S, NEW T
  PROVE  Has(Append(s, e), T) <=> Has(s, T) \/ e \in T
<1>1. /\ DOMAIN s = 1..Len(s) /\ Len(s) \in Nat
      /\ DOMAIN Append(s, e) = 1..(Len(s) + 1)
      /\ \A i \in 1..Len(s) : Append(s, e)[i] = s[i]
      /\ Append(s, e)[Len(s) + 1] = e
  BY AppendProperties, SeqDomain
<1>2. \A i \in 1..(Len(s) + 1) : i \in 1..Len(s) \/ i = Len(s) + 1
  BY <1>1
<1>3. Len(s) + 1 \in 1..(Len(s) + 1) /\ 1..Len(s) \subseteq 1..(Len(s) + 1)
  BY <1>1
<1>. QED
  BY <1>1, <1>2, <1>3 DEF Has

(* An end follows all that is there; nothing else needs to be followed.    *)
LEMMA FollowedAppend ==
  ASSUME NEW S, NEW s \in Seq(S), NEW e \in S, NEW T, e # "start", e \in T \/ Followed(s, T)
  PROVE  Followed(Append(s, e), T)
<1>1. /\ DOMAIN s = 1..Len(s) /\ Len(s) \in Nat
      /\ DOMAIN Append(s, e) = 1..(Len(s) + 1)
      /\ \A i \in 1..Len(s) : Append(s, e)[i] = s[i]
      /\ Append(s, e)[Len(s) + 1] = e
  BY AppendProperties, SeqDomain
<1>2. /\ \A i \in 1..(Len(s) + 1) : i \in 1..Len(s) \/ i = Len(s) + 1
      /\ \A i \in 1..Len(s) : i < Len(s) + 1 /\ i \in 1..(Len(s) + 1)
      /\ Len(s) + 1 \in 1..(Len(s) + 1)
  BY <1>1
<1>3. CASE e \in T
  BY <1>1, <1>2, <1>3 DEF Followed
<1>4. CASE Followed(s, T)
  BY <1>1, <1>2, <1>4 DEF Followed
<1>. QED
  BY <1>3, <1>4

LEMMA NothingThere ==
  ASSUME NEW T
  PROVE  ~Has(<<>>, T) /\ Followed(<<>>, T)
<1>1. DOMAIN <<>> = {}
  OBVIOUS
<1>. QED
  BY <1>1 DEF Has, Followed

LEMMA NoStartIsFollowed ==
  ASSUME NEW s, NEW T, ~Has(s, {"start"})
  PROVE  Followed(s, T)
BY DEF Has, Followed

(* t is s without its element n.                                           *)
Removed(s, n, t) ==
  /\ DOMAIN s = 1..Len(s) /\ Len(s) \in Nat /\ n \in 1..Len(s)
  /\ DOMAIN t = 1..(Len(s) - 1)
  /\ \A i \in DOMAIN t : t[i] = IF i < n THEN s[i] ELSE s[i + 1]

LEMMA TailRemoves ==
  ASSUME NEW S, NEW s \in Seq(S), s # <<>>
  PROVE  Removed(s, 1, Tail(s)) /\ Tail(s) \in Seq(S) /\ Head(s) = s[1]
<1>1. /\ Tail(s) \in Seq(S) /\ Len(Tail(s)) = Len(s) - 1
      /\ \A i \in 1..Len(Tail(s)) : Tail(s)[i] = s[i + 1]
      /\ Len(s) \in Nat \ {0} /\ Head(s) = s[1]
  BY HeadTailProperties, EmptySeq, LenProperties
<1>2. DOMAIN s = 1..Len(s) /\ DOMAIN Tail(s) = 1..(Len(s) - 1)
  BY <1>1, SeqDomain
<1>3. \A i \in 1..(Len(s) - 1) : ~(i < 1)
  BY <1>1
<1>. QED
  BY <1>1, <1>2, <1>3 DEF Removed

LEMMA RemoveAtRemoves ==
  ASSUME NEW S, NEW s \in Seq(S), NEW n \in DOMAIN s
  PROVE  Removed(s, n, RemoveAt(s, n)) /\ RemoveAt(s, n) \in Seq(S) /\ s[n] \in S
<1>1. DOMAIN s = 1..Len(s) /\ Len(s) \in Nat /\ n \in 1..Len(s) /\ s[n] \in S
  BY SeqDomain, ElementOfSeq
<1>2. /\ RemoveAt(s, n) \in Seq(S)
      /\ Len(RemoveAt(s, n)) = Len(s) - 1
      /\ \A i \in 1..(Len(s) - 1) : RemoveAt(s, n)[i] = IF i < n THEN s[i] ELSE s[i + 1]
  BY <1>1, RemoveAtProperties
<1>3. DOMAIN RemoveAt(s, n) = 1..(Len(s) - 1)
  BY <1>2, SeqDomain
<1>. QED
  BY <1>1, <1>2, <1>3 DEF Removed

LEMMA HasRemoved ==
  ASSUME NEW s, NEW n, NEW t, Removed(s, n, t), NEW T
  PROVE  /\ Has(t, T) => Has(s, T)
         /\ Has(s, T) => Has(t, T) \/ s[n] \in T
<1>1. ASSUME Has(t, T) PROVE Has(s, T)
  <2>1. PICK i \in DOMAIN t : t[i] \in T
    BY <1>1 DEF Has
  <2>2. i \in 1..Len(s) /\ i + 1 \in 1..Len(s)
    BY <2>1 DEF Removed
  <2>. QED
    BY <2>1, <2>2 DEF Has, Removed
<1>2. ASSUME Has(s, T), s[n] \notin T PROVE Has(t, T)
  <2>1. PICK i \in 1..Len(s) : s[i] \in T
    BY <1>2 DEF Has, Removed
  <2>2. CASE i < n
    <3>1. i \in DOMAIN t
      BY <2>2 DEF Removed
    <3>. QED
      BY <2>1, <2>2, <3>1 DEF Has, Removed
  <2>3. CASE i > n
    <3>1. i - 1 \in DOMAIN t /\ ~(i - 1 < n) /\ (i - 1) + 1 = i
      BY <2>3 DEF Removed
    <3>. QED
      BY <2>1, <3>1 DEF Has, Removed
  <2>. QED
    BY <1>2, <2>1, <2>2, <2>3 DEF Removed
<1>. QED
  BY <1>1, <1>2

(* Taking the first leaves an end after every start, the taken one too.    *)
LEMMA FollowedRemoved ==
  ASSUME NEW s, NEW t, Removed(s, 1, t), NEW T, Followed(s, T)
  PROVE  /\ Followed(t, T)
         /\ s[1] = "start" => Has(t, T)
<1>1. /\ DOMAIN s = 1..Len(s) /\ Len(s) \in Nat /\ 1 \in 1..Len(s)
      /\ DOMAIN t = 1..(Len(s) - 1)
      /\ \A i \in 1..(Len(s) - 1) : t[i] = s[i + 1]
  BY DEF Removed
<1>2. ASSUME NEW i \in 1..Len(s), NEW j \in 1..Len(s), i < j
      PROVE  j - 1 \in DOMAIN t /\ i <= j - 1 /\ t[j - 1] = s[j]
  <2>1. j - 1 \in 1..(Len(s) - 1) /\ (j - 1) + 1 = j /\ i <= j - 1
    BY <1>1, <1>2
  <2>. QED
    BY <1>1, <2>1
<1>3. ASSUME NEW i \in DOMAIN t, t[i] = "start"
      PROVE  \E j \in DOMAIN t : i < j /\ t[j] \in T
  <2>1. i + 1 \in 1..Len(s) /\ s[i + 1] = "start" /\ i \in Nat
    BY <1>1, <1>3
  <2>2. PICK j \in 1..Len(s) : i + 1 < j /\ s[j] \in T
    BY <1>1, <2>1 DEF Followed
  <2>3. j - 1 \in DOMAIN t /\ i + 1 <= j - 1 /\ t[j - 1] = s[j]
    BY <1>2, <2>1, <2>2
  <2>4. i < j - 1
    BY <2>1, <2>2
  <2>. QED
    BY <2>2, <2>3, <2>4
<1>4. ASSUME s[1] = "start" PROVE Has(t, T)
  <2>1. PICK j \in 1..Len(s) : 1 < j /\ s[j] \in T
    BY <1>1, <1>4 DEF Followed
  <2>. QED
    BY <1>1, <1>2, <2>1 DEF Has
<1>. QED
  BY <1>3, <1>4 DEF Followed

-------------------------------------------------------------------------------
(* Types.                                                                  *)

Keys == [pressed : BOOLEAN, held : BOOLEAN, trig : BOOLEAN, tap : BOOLEAN,
         timer : BOOLEAN, chord : BOOLEAN, hold : BOOLEAN, off : BOOLEAN]
Places == {"idle", "wait", "begin", "on", "onListener", "open", "off", "offListener",
           "outcome", "clear", "after"}
Calls == [op : Ops \cup {None}, then : {"return", "begin", "outcome"}, ok : BOOLEAN, at : Places]
Marks == {"erased", "overtaken", "lost", "reconfigured", "bar"}

LEMMA IdleCall == Idle \in Calls /\ NoKeys \in Keys
BY DEF Idle, Calls, Places, Ops, NoKeys, Keys

(* The types by the part of the state they are about.                      *)
FlagTypes ==
  /\ {rec, hrec} \subseteq BOOLEAN /\ key \in Keys
  /\ armed \in Modes \cup {None} /\ upset \subseteq Marks
ListTypes ==
  /\ acts \in Seq(Ops) /\ queue \in Seq(Ops \cup {"click"}) /\ Len(queue) <= QueueSize
  /\ urgent \in {None, "finish"} /\ loop \in {"top", "get"}
AppTypes ==
  /\ app \in {"IDLE", "RECORDING", "PROCESSING"} /\ tail \in [Enders -> {"no", "hook", "listener"}]
  /\ others \subseteq {"retry", "reset"} /\ taken \in {"no", "reset", "retry"}
  /\ cap \in Callers \cup {None} /\ pipe \in BOOLEAN
RunTypes == run \in [Callers -> Calls]
RestTypes ==
  /\ style \in Styles /\ mode \in Modes /\ mheld \in BOOLEAN
  /\ gestures \in 0..MaxGestures /\ events \in 0..MaxEvents

LEMMA TypesSplit ==
  /\ TypeOK <=> FlagTypes /\ ListTypes /\ AppTypes /\ RunTypes /\ RestTypes
  /\ TypeOK' <=> FlagTypes' /\ ListTypes' /\ AppTypes' /\ RunTypes' /\ RestTypes'
BY DEF TypeOK, FlagTypes, ListTypes, AppTypes, RunTypes, RestTypes, Keys, Calls, Places, Marks

LEMMA TypeInit == Init => TypeOK
<1> SUFFICES ASSUME Init PROVE TypeOK
  OBVIOUS
<1>1. /\ style \in Styles /\ mode \in Modes
      /\ gestures \in 0..MaxGestures /\ events \in 0..MaxEvents
  BY ShortcutsAreKnown DEF Init
<1>2. /\ <<>> \in Seq(Ops) /\ <<>> \in Seq(Ops \cup {"click"}) /\ Len(<<>>) = 0
      /\ 0 <= QueueSize
  BY EmptySeq, ShortcutsAreKnown
<1>3. RunTypes
  BY IdleCall DEF Init, RunTypes
<1>. QED
  BY <1>1, <1>2, <1>3, IdleCall, TypesSplit
     DEF Init, FlagTypes, ListTypes, AppTypes, RestTypes

-------------------------------------------------------------------------------
(* What a step does, in the terms of the invariant.                        *)

(* Caller c, alone, moves: the handler is entered, goes on, or has ended.  *)
Moves(c, place, next) ==
  /\ run'[c].at = place /\ run'[c].then = next /\ run'[c].op = run[c].op
  /\ \A d \in Callers : d # c => run'[d] = run[d]
  /\ RunTypes'
Starts(c, o) ==
  /\ run[c] = Idle
  /\ run'[c].at = "wait" /\ run'[c].then = "return" /\ run'[c].op = o
  /\ \A d \in Callers : d # c => run'[d] = run[d]
  /\ RunTypes'
Rests(c) ==
  /\ run'[c] = Idle
  /\ \A d \in Callers : d # c => run'[d] = run[d]
  /\ RunTypes'

LEMMA GoMoves ==
  ASSUME RunTypes, NEW c \in Callers, NEW p \in Places, Go(c, p)
  PROVE  Moves(c, p, run[c].then)
BY DEF RunTypes, Go, Moves, Calls

LEMMA ClearsMoves ==
  ASSUME RunTypes, NEW c \in Callers, NEW next \in {"return", "begin", "outcome"},
         NEW answer \in BOOLEAN, Clears(c, next, answer)
  PROVE  Moves(c, "off", next)
<1>1. run' = [run EXCEPT ![c].at = "off", ![c].then = next, ![c].ok = answer]
  BY DEF Clears
<1>2. \A d \in Callers : d # c => run'[d] = run[d]
  BY <1>1 DEF RunTypes
<1>3. run'[c] = [[[run[c] EXCEPT !.at = "off"] EXCEPT !.then = next] EXCEPT !.ok = answer]
  BY <1>1 DEF RunTypes
<1>4. run[c] \in Calls
  BY DEF RunTypes
<1>5. /\ run'[c] \in Calls /\ run'[c].at = "off" /\ run'[c].then = next
      /\ run'[c].op = run[c].op
  BY <1>3, <1>4 DEF Calls, Places
<1>6. run' \in [Callers -> Calls]
  <2>1. run' = [d \in Callers |-> run'[d]]
    BY <1>1 DEF RunTypes
  <2>2. \A d \in Callers : run'[d] \in Calls
    BY <1>2, <1>5 DEF RunTypes
  <2>. QED
    BY <2>1, <2>2
<1>. QED
  BY <1>2, <1>5, <1>6 DEF Moves, RunTypes

LEMMA RunsStarts ==
  ASSUME RunTypes, NEW c \in Callers, NEW o \in Ops, run[c] = Idle, Runs(c, o)
  PROVE  Starts(c, o)
BY DEF RunTypes, Runs, Starts, Calls, Places, Idle

LEMMA IdleRests ==
  ASSUME RunTypes, NEW c \in Callers, run' = [run EXCEPT ![c] = Idle]
  PROVE  Rests(c)
BY IdleCall DEF RunTypes, Rests

(* A handler that returns has given the lock back and is past its calls.   *)
Returned(c) ==
  \/ Rests(c)
  \/ Moves(c, "after", "return")
  \/ c = "key" /\ run[c].op = "start" /\ Moves(c, "clear", "return")

LEMMA ReturnsReturned ==
  ASSUME RunTypes, NEW c \in Callers, NEW answer \in BOOLEAN, Returns(c, answer),
         run[c].then = "return"
  PROVE  Returned(c) /\ cap' = None
<1>1. CASE c = "bar" \/ (run[c].op = "start" /\ answer)
  BY <1>1, IdleRests DEF Returns, Returned
<1>2. CASE ~(c = "bar" \/ (run[c].op = "start" /\ answer))
  <2>1. CASE c = "key" /\ run[c].op = "start"
    <3>1. Go(c, "clear")
      BY <1>2, <2>1 DEF Returns
    <3>. QED
      BY <2>1, <3>1, GoMoves DEF Returns, Returned, Places
  <2>2. CASE ~(c = "key" /\ run[c].op = "start")
    <3>1. Go(c, "after")
      BY <1>2, <2>2 DEF Returns
    <3>. QED
      BY <3>1, GoMoves DEF Returns, Returned, Places
  <2>. QED
    BY <2>1, <2>2
<1>. QED
  BY <1>1, <1>2

(* The handlers.                                                           *)
LEMMA EnterFacts ==
  ASSUME RunTypes, AppInv, NEW c \in Callers, NEW o, Enter(c, o)
  PROVE  /\ run[c].op = o /\ run[c].at \in {"wait", "begin"} /\ run[c].then = "return"
         /\ cap = None \/ cap = c
         /\ o # "start" => run[c].at = "wait"
<1>1. HandlerOK(c) /\ run[c].then \in {"return", "begin", "outcome"}
  BY DEF AppInv, RunTypes, Calls
<1>. QED
  BY <1>1 DEF Enter, At, HandlerOK

LEMMA BeginStartEffect ==
  ASSUME RunTypes, AppInv, NEW c \in Callers, BeginStart(c)
  PROVE  /\ run[c].op = "start" /\ run[c].at \in {"wait", "begin"} /\ run[c].then = "return"
         /\ cap = None \/ cap = c
         /\ cap' = c
         /\ \/ /\ app = "IDLE" /\ app' = "RECORDING" /\ pipe' = FALSE /\ taken' = "no"
               /\ Moves(c, "on", "return")
            \/ /\ app = "PROCESSING" /\ app' = "IDLE" /\ pipe' = FALSE /\ taken' = taken
               /\ Moves(c, "off", "begin")
            \/ /\ app' = app /\ pipe' = pipe /\ taken' = taken
               /\ Moves(c, "off", "return")
         /\ UNCHANGED <<Flags, tail>> /\ HandlerFrame
<1>1. /\ run[c].op = "start" /\ run[c].at \in {"wait", "begin"} /\ run[c].then = "return"
      /\ cap = None \/ cap = c
  BY EnterFacts DEF BeginStart
<1>2. CASE app = "IDLE" /\ app' = "RECORDING" /\ Go(c, "on") /\ pipe' = FALSE /\ taken' = "no"
  <2>1. Moves(c, "on", "return")
    BY <1>1, <1>2, GoMoves DEF Places
  <2>. QED
    BY <1>1, <1>2, <2>1 DEF BeginStart
<1>3. CASE app = "PROCESSING" /\ app' = "IDLE" /\ Clears(c, "begin", FALSE)
              /\ pipe' = FALSE /\ UNCHANGED taken
  <2>1. Moves(c, "off", "begin")
    BY <1>3, ClearsMoves
  <2>. QED
    BY <1>1, <1>3, <2>1 DEF BeginStart
<1>4. CASE Clears(c, "return", FALSE) /\ UNCHANGED <<app, pipe, taken>>
  <2>1. Moves(c, "off", "return")
    BY <1>4, ClearsMoves
  <2>. QED
    BY <1>1, <1>4, <2>1 DEF BeginStart
<1>. QED
  BY <1>2, <1>3, <1>4 DEF BeginStart

LEMMA TurnOnEffect ==
  ASSUME RunTypes, AppInv, NEW c \in Callers, TurnOn(c)
  PROVE  /\ run[c].at = "on" /\ run[c].op = "start" /\ cap = c
         /\ app = "RECORDING" \/ taken # "no"
         /\ Moves(c, "onListener", "return")
         /\ hrec' = TRUE /\ UNCHANGED <<rec, armed, key, upset, appVars>> /\ HandlerFrame
<1>1. HandlerOK(c) /\ run[c].then \in {"return", "begin", "outcome"} /\ run[c].at = "on"
  BY DEF AppInv, RunTypes, Calls, TurnOn, At
<1>2. Moves(c, "onListener", "return")
  BY <1>1, GoMoves DEF Places, TurnOn, HandlerOK
<1>. QED
  BY <1>1, <1>2 DEF TurnOn, HandlerOK

LEMMA TurnOnListenerEffect ==
  ASSUME RunTypes, AppInv, NEW c \in Callers, TurnOnListener(c)
  PROVE  /\ run[c].at = "onListener" /\ run[c].op = "start" /\ cap = c
         /\ app = "RECORDING" \/ taken # "no"
         /\ Moves(c, "open", "return")
         /\ rec' = TRUE /\ UNCHANGED <<hrec, armed, key, upset, appVars>> /\ HandlerFrame
<1>1. HandlerOK(c) /\ run[c].then \in {"return", "begin", "outcome"} /\ run[c].at = "onListener"
  BY DEF AppInv, RunTypes, Calls, TurnOnListener, At
<1>2. Moves(c, "open", "return")
  BY <1>1, GoMoves DEF Places, TurnOnListener, HandlerOK
<1>. QED
  BY <1>1, <1>2 DEF TurnOnListener, HandlerOK

LEMMA OpenMicEffect ==
  ASSUME RunTypes, AppInv, NEW c \in Callers, OpenMic(c)
  PROVE  /\ run[c].at = "open" /\ run[c].op = "start" /\ cap = c
         /\ app = "RECORDING" \/ taken # "no"
         /\ \/ Returned(c) /\ app' = app /\ cap' = None
            \/ Moves(c, "off", "return") /\ app' = "IDLE" /\ cap' = cap
         /\ UNCHANGED <<Flags, pipe, tail, taken>> /\ HandlerFrame
<1>1. HandlerOK(c) /\ run[c].then \in {"return", "begin", "outcome"} /\ run[c].at = "open"
  BY DEF AppInv, RunTypes, Calls, OpenMic, At
<1>2. run[c].then = "return"
  BY <1>1 DEF HandlerOK
<1>3. ASSUME NEW answer \in BOOLEAN, Returns(c, answer), UNCHANGED app
      PROVE  Returned(c) /\ app' = app /\ cap' = None
  BY <1>2, <1>3, ReturnsReturned
<1>4. CASE app' = "IDLE" /\ Clears(c, "return", FALSE) /\ UNCHANGED cap
  BY <1>1, <1>4, ClearsMoves DEF OpenMic, HandlerOK
<1>. QED
  BY <1>1, <1>3, <1>4 DEF OpenMic, HandlerOK

LEMMA BeginFinishEffect ==
  ASSUME RunTypes, AppInv, NEW c \in Callers, BeginFinish(c)
  PROVE  /\ run[c].op = "finish" /\ run[c].at = "wait" /\ run[c].then = "return"
         /\ cap = None \/ cap = c
         /\ \/ app # "RECORDING" /\ app' = app /\ cap' = None /\ Returned(c)
            \/ app = "RECORDING" /\ app' = "PROCESSING" /\ cap' = c /\ Moves(c, "off", "outcome")
         /\ UNCHANGED <<Flags, pipe, tail, taken>> /\ HandlerFrame
<1>1. /\ run[c].op = "finish" /\ run[c].at = "wait" /\ run[c].then = "return"
      /\ cap = None \/ cap = c
  BY EnterFacts DEF BeginFinish
<1>2. CASE app # "RECORDING" /\ Returns(c, FALSE) /\ UNCHANGED app
  BY <1>1, <1>2, ReturnsReturned DEF BeginFinish
<1>3. CASE app = "RECORDING" /\ app' = "PROCESSING" /\ cap' = c /\ Clears(c, "outcome", FALSE)
  BY <1>1, <1>3, ClearsMoves DEF BeginFinish
<1>. QED
  BY <1>2, <1>3 DEF BeginFinish

LEMMA FinishOutcomeEffect ==
  ASSUME RunTypes, AppInv, NEW c \in Callers, FinishOutcome(c)
  PROVE  /\ run[c].at = "outcome" /\ cap = c /\ app # "RECORDING"
         /\ \/ pipe' \in {pipe, TRUE, FALSE} /\ app' = app /\ cap' = None /\ Returned(c)
            \/ pipe' = pipe /\ app' = "IDLE" /\ cap' = cap /\ Moves(c, "off", "return")
         /\ UNCHANGED <<Flags, tail, taken>> /\ HandlerFrame
<1>1. HandlerOK(c) /\ run[c].then \in {"return", "begin", "outcome"} /\ run[c].at = "outcome"
  BY DEF AppInv, RunTypes, Calls, FinishOutcome, At
<1>2. run[c].then = "return" /\ cap = c /\ app # "RECORDING"
  BY <1>1 DEF HandlerOK
<1>3. ASSUME NEW answer \in BOOLEAN, Returns(c, answer), UNCHANGED app
      PROVE  Returned(c) /\ app' = app /\ cap' = None
  BY <1>2, <1>3, ReturnsReturned
<1>4. CASE app' = "IDLE" /\ Clears(c, "return", FALSE) /\ UNCHANGED <<pipe, cap>>
  BY <1>1, <1>2, <1>4, ClearsMoves DEF FinishOutcome
<1>. QED
  BY <1>1, <1>2, <1>3, <1>4 DEF FinishOutcome

LEMMA BeginCancelEffect ==
  ASSUME RunTypes, AppInv, NEW c \in Callers, BeginCancel(c)
  PROVE  /\ run[c].op = "cancel" /\ run[c].at = "wait" /\ run[c].then = "return"
         /\ cap = None \/ cap = c
         /\ \/ app # "RECORDING" /\ UNCHANGED <<app, pipe>> /\ cap' = None /\ Returned(c)
            \/ app' = "IDLE" /\ pipe' = FALSE /\ cap' = c /\ Moves(c, "off", "return")
         /\ UNCHANGED <<Flags, tail, taken>> /\ HandlerFrame
<1>1. /\ run[c].op = "cancel" /\ run[c].at = "wait" /\ run[c].then = "return"
      /\ cap = None \/ cap = c
  BY EnterFacts DEF BeginCancel
<1>2. CASE app # "RECORDING" /\ Returns(c, FALSE) /\ UNCHANGED <<app, pipe>>
  BY <1>1, <1>2, ReturnsReturned DEF BeginCancel
<1>3. CASE app # "IDLE" /\ app' = "IDLE" /\ pipe' = FALSE /\ cap' = c /\ Clears(c, "return", TRUE)
  BY <1>1, <1>3, ClearsMoves DEF BeginCancel
<1>. QED
  BY <1>2, <1>3 DEF BeginCancel

LEMMA TurnOffEffect ==
  ASSUME RunTypes, AppInv, NEW c \in Callers, TurnOff(c)
  PROVE  /\ run[c].at = "off" /\ cap = c
         /\ Moves(c, "offListener", run[c].then)
         /\ HookOff /\ UNCHANGED appVars /\ HandlerFrame
<1>1. HandlerOK(c) /\ run[c].at = "off"
  BY DEF AppInv, TurnOff, At
<1>2. Moves(c, "offListener", run[c].then)
  BY GoMoves DEF Places, TurnOff
<1>. QED
  BY <1>1, <1>2 DEF TurnOff, HandlerOK

LEMMA TurnOffListenerEffect ==
  ASSUME RunTypes, AppInv, NEW c \in Callers, TurnOffListener(c)
  PROVE  /\ run[c].at = "offListener" /\ cap = c
         /\ \/ run[c].then = "return" /\ cap' = None /\ Returned(c)
            \/ run[c].then \in {"begin", "outcome"} /\ cap' = cap /\ Moves(c, run[c].then, "return")
         /\ ListenerOff /\ UNCHANGED <<app, pipe, tail, taken>> /\ HandlerFrame
<1>1. /\ HandlerOK(c) /\ run[c].at = "offListener"
      /\ run[c].then \in {"return", "begin", "outcome"} /\ run[c].ok \in BOOLEAN
  BY DEF AppInv, TurnOffListener, At, RunTypes, Calls
<1>2. cap = c
  BY <1>1 DEF HandlerOK
<1>3. CASE run[c].then = "return"
  BY <1>1, <1>2, <1>3, ReturnsReturned DEF TurnOffListener
<1>4. CASE run[c].then # "return"
  <2>1. run' = [run EXCEPT ![c].at = run[c].then, ![c].then = "return"] /\ cap' = cap
    BY <1>4 DEF TurnOffListener
  <2>2. run[c] \in Calls /\ \A d \in Callers : d # c => run'[d] = run[d]
    BY <2>1 DEF RunTypes
  <2>3. run'[c] = [[run[c] EXCEPT !.at = run[c].then] EXCEPT !.then = "return"]
    BY <2>1 DEF RunTypes
  <2>4. /\ run'[c] \in Calls /\ run'[c].at = run[c].then /\ run'[c].then = "return"
        /\ run'[c].op = run[c].op
    <3>1. ASSUME NEW p \in Places, run'[c] = [[run[c] EXCEPT !.at = p] EXCEPT !.then = "return"]
          PROVE  /\ run'[c] \in Calls /\ run'[c].at = p /\ run'[c].then = "return"
                 /\ run'[c].op = run[c].op
      BY <2>2, <3>1 DEF Calls
    <3>2. run[c].then \in Places
      BY <1>1, <1>4 DEF Places
    <3>. QED
      BY <2>3, <3>1, <3>2
  <2>5. run' = [d \in Callers |-> run'[d]]
    BY <2>1 DEF RunTypes
  <2>6. run' \in [Callers -> Calls]
    BY <2>2, <2>4, <2>5 DEF RunTypes
  <2>7. Moves(c, run[c].then, "return")
    BY <2>2, <2>4, <2>6 DEF Moves, RunTypes
  <2>. QED
    BY <1>1, <1>2, <1>4, <2>1, <2>7 DEF TurnOffListener
<1>. QED
  BY <1>3, <1>4

LEMMA ClearHookEffect ==
  ASSUME RunTypes, NEW c \in Callers, ClearHook(c)
  PROVE  run[c].at = "after" /\ Rests(c) /\ HookOff /\ UNCHANGED appVars /\ HandlerFrame
BY IdleRests DEF ClearHook, At

LEMMA ClearListenerEffect ==
  ASSUME RunTypes, AppInv, ClearListener
  PROVE  /\ run["key"].at = "clear" /\ Moves("key", "after", "return")
         /\ rec' = FALSE /\ armed' = None /\ key' = [key EXCEPT !.trig = @ /\ style # "ctrl_win"]
         /\ UNCHANGED <<hrec, appVars>> /\ HandlerFrame /\ NotesErasure
<1>1. "key" \in Callers /\ run["key"].at = "clear"
  BY DEF ClearListener, At, Callers
<1>2. run["key"].then = "return"
  BY <1>1 DEF AppInv, HandlerOK, RunTypes, Calls
<1>3. Moves("key", "after", "return")
  BY <1>1, <1>2, GoMoves DEF ClearListener, Places
<1>. QED
  BY <1>1, <1>3 DEF ClearListener

(* The keyboard's steps; in push to talk, nobody interfering, a start and  *)
(* whatever keeps a recording leave the keys held.                         *)
Steady == Talk /\ armed = None /\ ~key.timer

KeyFrameKept ==
  /\ UNCHANGED <<style, mode, mheld, queue, urgent, loop, appVars, run>>
  /\ gestures' \in 0..MaxGestures /\ events' \in 0..MaxEvents

KeyStep ==
  /\ KeyFrameKept
  /\ key' \in Keys
  /\ style \notin Solo /\ ~key.timer => ~key'.timer
  /\ \/ KeyStarts /\ (Steady => key'.held /\ key'.trig)
     \/ \E o \in {"finish", "cancel"} : KeyEnds(o)
     \/ KeyOnly /\ (Steady /\ KeyHolds => key'.held /\ key'.trig)
     \/ upset' = upset \cup {"lost"} /\ UNCHANGED <<rec, hrec, armed, acts>>

LEMMA Counted ==
  ASSUME gestures \in 0..MaxGestures, events \in 0..MaxEvents, Gesture \/ Event \/ NoInput
  PROVE  gestures' \in 0..MaxGestures /\ events' \in 0..MaxEvents
BY ShortcutsAreKnown DEF Gesture, Event, NoInput

LEMMA SteadyMode == Steady => ActiveMode = "ptt_only" /\ style \in {"ctrl_win", "preset", "hold"}
BY DEF Steady, Talk, ActiveMode

LEMMA UpDown ==
  ASSUME key \in Keys
  PROVE  /\ Down \in Keys /\ Down.held /\ Down.trig = key.trig /\ Down.timer = key.timer
         /\ Up \in Keys /\ Up.timer = key.timer
BY DEF Keys, Down, Up

LEMMA KeyEffect ==
  ASSUME TypeOK, Keyboard
  PROVE  KeyStep
<1>0. /\ key \in Keys /\ gestures \in 0..MaxGestures /\ events \in 0..MaxEvents
      /\ rec \in BOOLEAN
  BY TypesSplit DEF FlagTypes, RestTypes
<1>1. CASE KeyDownDisabled
  <2>1. KeyFrameKept
    BY <1>0, <1>1, Counted DEF KeyDownDisabled, Press, KeyFrame, KeyFrameKept
  <2>2. key' = Down /\ KeyOnly /\ ~Steady
    BY <1>1, SteadyMode DEF KeyDownDisabled
  <2>. QED
    BY <1>0, <2>1, <2>2, UpDown DEF KeyStep
<1>2. CASE PressIgnored
  <2>1. KeyFrameKept
    BY <1>0, <1>2, Counted DEF PressIgnored, KeyFrame, KeyFrameKept
  <2>2. key' \in Keys /\ key'.timer = key.timer /\ key'.trig = key.trig /\ key'.held /\ KeyOnly
    BY <1>0, <1>2 DEF PressIgnored, Keys
  <2>. QED
    BY <2>1, <2>2 DEF KeyStep, KeyHolds
<1>3. CASE ChordDown
  <2> DEFINE ends == ActiveMode \in Toggles \/ style = "toggle"
  <2>1. KeyFrameKept
    BY <1>0, <1>3, Counted DEF ChordDown, Press, KeyFrame, KeyFrameKept
  <2>2. key' = [Down EXCEPT !.trig = @ \/ style # "ctrl_win" \/ ~rec \/ ends]
    BY <1>3 DEF ChordDown
  <2>3. /\ key' \in Keys /\ key'.held /\ key'.timer = key.timer
        /\ (key.trig \/ ~rec) => key'.trig
    <3>1. ASSUME NEW e \in BOOLEAN, key' = [Down EXCEPT !.trig = @ \/ style # "ctrl_win" \/ ~rec \/ e]
          PROVE  /\ key' \in Keys /\ key'.held /\ key'.timer = key.timer
                 /\ (key.trig \/ ~rec) => key'.trig
      BY <1>0, <3>1, UpDown DEF Keys
    <3>. QED
      BY <2>2, <3>1
  <2>4. CASE ~rec /\ KeyStarts
    BY <2>1, <2>3, <2>4 DEF KeyStep
  <2>5. CASE KeyEnds("finish")
    BY <2>1, <2>3, <2>5 DEF KeyStep
  <2>6. CASE KeyOnly
    BY <2>1, <2>3, <2>6 DEF KeyStep, KeyHolds
  <2>. QED
    BY <1>3, <2>4, <2>5, <2>6 DEF ChordDown
<1>4. CASE DoubleDown
  <2>1. KeyFrameKept
    BY <1>0, <1>4, Counted DEF DoubleDown, Press, KeyFrame, KeyFrameKept
  <2>2. ~Steady
    BY <1>4, SteadyMode DEF DoubleDown
  <2>3. key' \in Keys /\ key'.timer = key.timer
    BY <1>0, <1>4, UpDown DEF DoubleDown, Keys
  <2>. QED
    BY <1>4, <2>1, <2>2, <2>3 DEF DoubleDown, KeyStep
<1>5. CASE SoloDown
  <2>1. KeyFrameKept
    BY <1>0, <1>5, Counted DEF SoloDown, Press, KeyFrame, KeyFrameKept
  <2>2. ~Steady /\ style \in Solo
    BY <1>5, SteadyMode DEF SoloDown, Solo
  <2>3. key' \in Keys
    BY <1>0, <1>5, UpDown DEF SoloDown, Keys
  <2>. QED
    BY <1>5, <2>1, <2>2, <2>3 DEF SoloDown, KeyStep
<1>6. CASE OtherKey
  <2>1. KeyFrameKept
    BY <1>0, <1>6, Counted DEF OtherKey, KeyFrame, KeyFrameKept
  <2>2. ~Steady /\ style \in Solo /\ KeyOnly
    BY <1>6, SteadyMode DEF OtherKey, Solo
  <2>3. key' \in Keys
    BY <1>0, <1>6 DEF OtherKey, Keys
  <2>. QED
    BY <2>1, <2>2, <2>3 DEF KeyStep
<1>7. CASE HoldTimer
  <2>1. KeyFrameKept
    BY <1>0, <1>7, Counted DEF HoldTimer, KeyFrame, KeyFrameKept
  <2>2. ~Steady /\ key.timer /\ (KeyOnly \/ KeyStarts)
    BY <1>7 DEF HoldTimer, Steady
  <2>3. key' \in Keys
    BY <1>0, <1>7 DEF HoldTimer, Keys
  <2>. QED
    BY <2>1, <2>2, <2>3 DEF KeyStep
<1>8. ASSUME NEW long \in BOOLEAN, ChordUp(long) PROVE KeyStep
  <2>1. KeyFrameKept
    BY <1>0, <1>8, Counted DEF ChordUp, KeyFrame, KeyFrameKept
  <2>2. key' \in Keys /\ key'.timer = key.timer
    BY <1>0, <1>8, UpDown DEF ChordUp, Keys
  <2>3. CASE key.trig /\ rec /\ EndsOnRelease(long)
    <3>1. KeyEnds("finish")
      BY <1>8, <2>3 DEF ChordUp
    <3>. QED
      BY <2>1, <2>2, <3>1 DEF KeyStep
  <2>4. CASE ~(key.trig /\ rec /\ EndsOnRelease(long))
    <3>1. KeyOnly
      BY <1>8, <2>4 DEF ChordUp
    <3>2. Steady => ~KeyHolds
      BY <2>4, SteadyMode DEF EndsOnRelease, KeyHolds
    <3>. QED
      BY <2>1, <2>2, <3>1, <3>2 DEF KeyStep
  <2>. QED
    BY <2>3, <2>4
<1>9. CASE SoloUp
  <2>1. KeyFrameKept
    BY <1>0, <1>9, Counted DEF SoloUp, KeyFrame, KeyFrameKept
  <2>2. ~Steady /\ style \in Solo
    BY <1>9, SteadyMode DEF SoloUp, Solo
  <2>3. key' \in Keys
    <3>1. CASE key' = [Up EXCEPT !.timer = FALSE, !.hold = FALSE, !.tap = FALSE, !.off = FALSE,
                                 !.chord = key.off /\ @]
      <4>1. ASSUME NEW k \in Keys, NEW h \in BOOLEAN,
                   key' = [k EXCEPT !.timer = FALSE, !.hold = FALSE, !.tap = FALSE,
                                    !.off = FALSE, !.chord = h]
            PROVE  key' \in Keys
        BY <4>1 DEF Keys
      <4>2. (key.off /\ Up.chord) \in BOOLEAN
        OBVIOUS
      <4>. QED
        BY <1>0, <3>1, <4>1, <4>2, UpDown
    <3>2. CASE key' = [Up EXCEPT !.timer = FALSE, !.tap = TRUE, !.hold = @ /\ acts' = acts]
      <4>1. ASSUME NEW k \in Keys, NEW h \in BOOLEAN,
                   key' = [k EXCEPT !.timer = FALSE, !.tap = TRUE, !.hold = h]
            PROVE  key' \in Keys
        BY <4>1 DEF Keys
      <4>2. (Up.hold /\ acts' = acts) \in BOOLEAN
        OBVIOUS
      <4>. QED
        BY <1>0, <3>2, <4>1, <4>2, UpDown
    <3>. QED
      BY <1>9, <3>1, <3>2 DEF SoloUp
  <2>. QED
    BY <1>9, <2>1, <2>2, <2>3 DEF SoloUp, KeyStep
<1>10. CASE KeyUpLost
  <2>1. key' \in Keys /\ key'.timer = key.timer
    BY <1>0, <1>10 DEF KeyUpLost, Keys
  <2>. QED
    BY <1>0, <1>10, <2>1 DEF KeyUpLost, KeyStep, KeyFrameKept
<1>11. CASE Escape
  <2>1. KeyFrameKept
    BY <1>0, <1>11, Counted DEF Escape, KeyFrame, KeyFrameKept
  <2>2. key' \in Keys /\ key'.timer = key.timer
    BY <1>0, <1>11 DEF Escape, Keys
  <2>. QED
    BY <1>11, <2>1, <2>2 DEF Escape, KeyStep
<1>. QED
  BY <1>1, <1>2, <1>3, <1>4, <1>5, <1>6, <1>7, <1>8, <1>9, <1>10, <1>11 DEF Keyboard

(* The mouse's steps.                                                      *)
MouseStep ==
  /\ UNCHANGED <<keyVars, loop, appVars, run, upset>>
  /\ mheld' \in BOOLEAN /\ gestures' \in 0..MaxGestures /\ events' \in 0..MaxEvents
  /\ \/ Dispatch("start", TRUE) /\ ~hrec /\ mheld'
     \/ Dispatch("finish", FALSE)
     \/ Dispatch("click", hrec) /\ mheld' = mheld
     \/ MouseOnly /\ (mode = "ptt_only" /\ MouseHolds => mheld')

LEMMA MouseEffect ==
  ASSUME TypeOK, Mouse
  PROVE  MouseStep
<1>0. gestures \in 0..MaxGestures /\ events \in 0..MaxEvents /\ mheld \in BOOLEAN
  BY DEF TypeOK
<1>1. CASE MouseDown
  <2>1. gestures' \in 0..MaxGestures /\ events' \in 0..MaxEvents
    BY <1>0, <1>1, Counted DEF MouseDown
  <2>. QED
    BY <1>1, <2>1 DEF MouseDown, MouseStep, MouseFrame
<1>2. ASSUME NEW long \in BOOLEAN, MouseUp(long) PROVE MouseStep
  <2>1. gestures' \in 0..MaxGestures /\ events' \in 0..MaxEvents
    BY <1>0, <1>2, Counted DEF MouseUp
  <2>. QED
    BY <1>2, <2>1 DEF MouseUp, MouseStep, MouseFrame, MouseHolds
<1>3. CASE LeftClick
  <2>1. gestures' \in 0..MaxGestures /\ events' \in 0..MaxEvents
    BY <1>0, <1>3, Counted DEF LeftClick
  <2>. QED
    BY <1>0, <1>3, <2>1 DEF LeftClick, MouseStep, MouseFrame
<1>. QED
  BY <1>1, <1>2, <1>3 DEF Mouse

(* What takes a gesture: the worker, a thread, the bar.                    *)
LEMMA WorkerLooksEffect ==
  ASSUME TypeOK, WorkerLooks
  PROVE  /\ run["mouse"] = Idle /\ loop' \in {"top", "get"}
         /\ \/ urgent = "finish" /\ urgent' = None /\ Starts("mouse", "finish")
            \/ UNCHANGED <<run, urgent>>
         /\ UNCHANGED queue /\ WorkerFrame
<1>1. RunTypes /\ "mouse" \in Callers /\ "finish" \in Ops /\ urgent \in {None, "finish"}
      /\ loop \in {"top", "get"}
  BY TypesSplit DEF ListTypes, Callers, Ops
<1>2. CASE urgent # None /\ urgent' = None /\ Runs("mouse", urgent) /\ UNCHANGED loop
  <2>1. Starts("mouse", "finish")
    BY <1>1, <1>2, RunsStarts DEF WorkerLooks
  <2>. QED
    BY <1>1, <1>2, <2>1 DEF WorkerLooks
<1>3. CASE urgent = None /\ loop' = "get" /\ UNCHANGED <<run, urgent>>
  BY <1>3 DEF WorkerLooks
<1>. QED
  BY <1>2, <1>3 DEF WorkerLooks

LEMMA WorkerGetsEffect ==
  ASSUME TypeOK, WorkerGets
  PROVE  /\ run["mouse"] = Idle /\ loop' \in {"top", "get"}
         /\ \/ /\ queue # <<>> /\ Removed(queue, 1, queue') /\ queue' \in Seq(Ops \cup {"click"})
               /\ Len(queue') <= QueueSize
               /\ \/ queue[1] = "click" /\ UNCHANGED run
                  \/ queue[1] \in Ops /\ Starts("mouse", queue[1])
            \/ UNCHANGED <<queue, run>>
         /\ UNCHANGED urgent /\ WorkerFrame
<1>1. RunTypes /\ "mouse" \in Callers /\ queue \in Seq(Ops \cup {"click"}) /\ Len(queue) <= QueueSize
  BY TypesSplit DEF ListTypes, Callers
<1>2. run["mouse"] = Idle /\ loop' = "top" /\ UNCHANGED urgent /\ WorkerFrame
  BY DEF WorkerGets
<1>3. CASE queue # <<>> /\ queue' = Tail(queue)
              /\ IF Head(queue) = "click" THEN UNCHANGED run ELSE Runs("mouse", Head(queue))
  <2>1. Removed(queue, 1, queue') /\ queue' \in Seq(Ops \cup {"click"}) /\ Head(queue) = queue[1]
    BY <1>1, <1>3, TailRemoves
  <2>2. Len(queue') <= QueueSize
    BY <1>1, <1>3, HeadTailProperties, LenProperties, ShortcutsAreKnown
  <2>3. Head(queue) \in Ops \cup {"click"}
    BY <1>1, <1>3, HeadTailProperties
  <2>4. CASE Head(queue) = "click"
    BY <1>2, <1>3, <2>1, <2>2, <2>4
  <2>5. CASE Head(queue) # "click"
    <3>1. Starts("mouse", Head(queue)) /\ Head(queue) \in Ops
      BY <1>1, <1>2, <1>3, <2>3, <2>5, RunsStarts
    <3>. QED
      BY <1>2, <1>3, <2>1, <2>2, <3>1
  <2>. QED
    BY <2>4, <2>5
<1>4. CASE queue = <<>> /\ urgent # None /\ UNCHANGED <<queue, run>>
  BY <1>2, <1>4
<1>. QED
  BY <1>3, <1>4 DEF WorkerGets

LEMMA ThreadRunsEffect ==
  ASSUME TypeOK, NEW i \in DOMAIN acts, ThreadRuns(i)
  PROVE  /\ run["key"] = Idle
         /\ Removed(acts, i, acts') /\ acts' \in Seq(Ops)
         /\ acts[i] \in Ops /\ Starts("key", acts[i])
         /\ upset' = IF i = 1 THEN upset ELSE upset \cup {"overtaken"}
         /\ UNCHANGED <<style, mode, rec, armed, key, mouseVars, appVars, gestures, events>>
<1>1. RunTypes /\ "key" \in Callers /\ acts \in Seq(Ops)
  BY TypesSplit DEF ListTypes, Callers
<1>2. Removed(acts, i, acts') /\ acts' \in Seq(Ops) /\ acts[i] \in Ops
  BY <1>1, RemoveAtRemoves DEF ThreadRuns
<1>3. Starts("key", acts[i])
  BY <1>1, <1>2, RunsStarts DEF ThreadRuns
<1>. QED
  BY <1>2, <1>3 DEF ThreadRuns

LEMMA BarCallsEffect ==
  ASSUME TypeOK, NEW o \in Ops, BarCalls(o)
  PROVE  /\ Starts("bar", o)
         /\ gestures' \in 0..MaxGestures /\ events' \in 0..MaxEvents
         /\ upset' = upset \cup {"bar"}
         /\ UNCHANGED <<keyVars, mouseVars, appVars>>
<1>1. RunTypes /\ "bar" \in Callers /\ gestures \in 0..MaxGestures /\ events \in 0..MaxEvents
  BY TypesSplit DEF RestTypes, Callers
<1>2. gestures' \in 0..MaxGestures /\ events' \in 0..MaxEvents
  BY <1>1, Counted DEF BarCalls
<1>3. Starts("bar", o)
  BY <1>1, RunsStarts DEF BarCalls
<1>. QED
  BY <1>2, <1>3 DEF BarCalls

LEMMA ReloadEffect ==
  ASSUME TypeOK, NEW m \in Modes, Reload(m)
  PROVE  /\ gestures' \in 0..MaxGestures /\ events' \in 0..MaxEvents
         /\ mode' = m /\ key' \in Keys /\ (~key.timer => ~key'.timer)
         /\ armed' \in Modes \cup {None} /\ (~rec => armed' = None)
         /\ \/ upset' = upset \cup {"reconfigured"}
            \/ /\ upset' = upset /\ ~rec /\ app = "IDLE" /\ acts = <<>> /\ queue = <<>>
               /\ \A c \in Callers : run[c] = Idle
         /\ UNCHANGED <<style, rec, acts, mouseVars, appVars, run>>
<1>1. /\ gestures \in 0..MaxGestures /\ events \in 0..MaxEvents
      /\ key \in Keys /\ mode \in Modes /\ armed \in Modes \cup {None}
  BY TypesSplit DEF RestTypes, FlagTypes
<1>2. gestures' \in 0..MaxGestures /\ events' \in 0..MaxEvents
  BY <1>1, Counted DEF Reload
<1>3. [NoKeys EXCEPT !.held = key.held] \in Keys /\ [NoKeys EXCEPT !.held = key.held].timer = FALSE
  BY <1>1 DEF Keys, NoKeys
<1>4. /\ key' \in Keys /\ (~key.timer => ~key'.timer)
      /\ armed' \in Modes \cup {None} /\ (~rec => armed' = None)
  BY <1>1, <1>3 DEF Reload
<1>5. \/ upset' = upset \cup {"reconfigured"}
      \/ /\ upset' = upset /\ ~rec /\ app = "IDLE" /\ acts = <<>> /\ queue = <<>>
         /\ \A c \in Callers : run[c] = Idle
  BY DEF Reload
<1>. QED
  BY <1>2, <1>4, <1>5 DEF Reload

-------------------------------------------------------------------------------
(* Every step keeps the types.                                             *)

LEMMA DispatchTypes ==
  ASSUME ListTypes, NEW o \in {"start", "finish", "click"}, NEW flag \in BOOLEAN,
         Dispatch(o, flag), loop' = loop, acts' = acts
  PROVE  ListTypes' /\ hrec' \in BOOLEAN
<1>1. CASE Len(queue) < QueueSize /\ queue' = Append(queue, o) /\ hrec' = flag /\ UNCHANGED urgent
  <2>1. o \in Ops \cup {"click"}
    BY DEF Ops
  <2>2. queue' \in Seq(Ops \cup {"click"}) /\ Len(queue') = Len(queue) + 1
    BY <1>1, <2>1, AppendProperties DEF ListTypes
  <2>3. Len(queue') <= QueueSize
    BY <1>1, <2>2, LenProperties, ShortcutsAreKnown DEF ListTypes
  <2>. QED
    BY <1>1, <2>2, <2>3 DEF ListTypes
<1>2. CASE Len(queue) = QueueSize /\ o = "finish" /\ queue' = <<>> /\ urgent' = o /\ hrec' = flag
  <2>1. queue' \in Seq(Ops \cup {"click"}) /\ Len(queue') <= QueueSize
    BY <1>2, EmptySeq, ShortcutsAreKnown
  <2>. QED
    BY <1>2, <2>1 DEF ListTypes
<1>3. CASE hrec' = (flag /\ o # "start") /\ UNCHANGED <<queue, urgent>>
  BY <1>3 DEF ListTypes
<1>. QED
  BY <1>1, <1>2, <1>3 DEF Dispatch

LEMMA OffTypes ==
  ASSUME FlagTypes, HookOff \/ ListenerOff
  PROVE  FlagTypes'
<1>1. upset' \subseteq Marks
  BY DEF HookOff, ListenerOff, NotesErasure, FlagTypes, Marks
<1>2. key' \in Keys
  BY DEF HookOff, ListenerOff, FlagTypes, Keys, NoKeys
<1>. QED
  BY <1>1, <1>2 DEF HookOff, ListenerOff, FlagTypes

LEMMA KeyTypesKept ==
  ASSUME TypeOK, KeyStep
  PROVE  TypeOK'
<1>1. FlagTypes /\ ListTypes /\ AppTypes /\ RunTypes /\ RestTypes
  BY TypesSplit
<1>2. AppTypes' /\ RunTypes' /\ RestTypes'
  BY <1>1 DEF KeyStep, KeyFrameKept, appVars, AppTypes, RunTypes, RestTypes
<1>3. CASE KeyStarts
  <2>1. acts' \in Seq(Ops)
    BY <1>1, <1>3, AppendProperties DEF KeyStarts, ListTypes, Ops
  <2>2. FlagTypes' /\ ListTypes'
    BY <1>1, <1>3, <2>1 DEF KeyStep, KeyFrameKept, KeyStarts, FlagTypes, ListTypes
  <2>. QED
    BY <1>2, <2>2, TypesSplit
<1>4. ASSUME NEW o \in {"finish", "cancel"}, KeyEnds(o) PROVE TypeOK'
  <2>1. acts' \in Seq(Ops)
    BY <1>1, <1>4, AppendProperties DEF KeyEnds, ListTypes, Ops
  <2>2. FlagTypes' /\ ListTypes'
    BY <1>1, <1>4, <2>1 DEF KeyStep, KeyFrameKept, KeyEnds, FlagTypes, ListTypes, Marks
  <2>. QED
    BY <1>2, <2>2, TypesSplit
<1>5. CASE KeyOnly
  <2>1. FlagTypes' /\ ListTypes'
    BY <1>1, <1>5 DEF KeyStep, KeyFrameKept, KeyOnly, FlagTypes, ListTypes
  <2>. QED
    BY <1>2, <2>1, TypesSplit
<1>6. CASE upset' = upset \cup {"lost"} /\ UNCHANGED <<rec, hrec, armed, acts>>
  <2>1. FlagTypes' /\ ListTypes'
    BY <1>1, <1>6 DEF KeyStep, KeyFrameKept, FlagTypes, ListTypes, Marks
  <2>. QED
    BY <1>2, <2>1, TypesSplit
<1>. QED
  BY <1>3, <1>4, <1>5, <1>6 DEF KeyStep

LEMMA MouseTypesKept ==
  ASSUME TypeOK, MouseStep
  PROVE  TypeOK'
<1>1. FlagTypes /\ ListTypes /\ AppTypes /\ RunTypes /\ RestTypes
  BY TypesSplit
<1>2. AppTypes' /\ RunTypes' /\ RestTypes'
  BY <1>1 DEF MouseStep, keyVars, appVars, AppTypes, RunTypes, RestTypes
<1>3. ListTypes' /\ hrec' \in BOOLEAN
  <2>1. loop' = loop /\ acts' = acts /\ hrec \in BOOLEAN
    BY <1>1 DEF MouseStep, keyVars, FlagTypes
  <2>2. CASE MouseOnly
    BY <1>1, <2>1, <2>2 DEF MouseOnly, ListTypes
  <2>. QED
    BY <1>1, <2>1, <2>2, DispatchTypes DEF MouseStep
<1>4. FlagTypes'
  BY <1>1, <1>3 DEF MouseStep, keyVars, FlagTypes
<1>. QED
  BY <1>2, <1>3, <1>4, TypesSplit

LEMMA HandlerTypesKept ==
  ASSUME TypeOK, AppInv, NEW c \in Callers, Handler(c)
  PROVE  TypeOK'
<1>1. FlagTypes /\ ListTypes /\ AppTypes /\ RunTypes /\ RestTypes
  BY TypesSplit
<1>2. HandlerFrame /\ tail' = tail /\ others' = others
  BY DEF Handler, BeginStart, TurnOn, TurnOnListener, OpenMic, BeginFinish, FinishOutcome,
         BeginCancel, TurnOff, TurnOffListener, ClearHook, appVars, HandlerFrame
<1>3. ListTypes' /\ RestTypes'
  BY <1>1, <1>2 DEF HandlerFrame, ListTypes, RestTypes
<1> DEFINE Kept == FlagTypes' /\ AppTypes' /\ RunTypes'
<1>4. ASSUME Returned(c) PROVE RunTypes'
  BY <1>4 DEF Returned, Rests, Moves
<1>5. ASSUME UNCHANGED Flags PROVE FlagTypes'
  BY <1>1, <1>5 DEF Flags, FlagTypes
<1>6. ASSUME BeginStart(c) PROVE Kept
  BY <1>1, <1>2, <1>5, <1>6, BeginStartEffect DEF Moves, AppTypes
<1>7. ASSUME TurnOn(c) PROVE Kept
  BY <1>1, <1>7, TurnOnEffect DEF Moves, AppTypes, FlagTypes, appVars
<1>8. ASSUME TurnOnListener(c) PROVE Kept
  BY <1>1, <1>8, TurnOnListenerEffect DEF Moves, AppTypes, FlagTypes, appVars
<1>9. ASSUME OpenMic(c) PROVE Kept
  BY <1>1, <1>2, <1>4, <1>5, <1>9, OpenMicEffect DEF Moves, AppTypes
<1>10. ASSUME BeginFinish(c) PROVE Kept
  BY <1>1, <1>2, <1>4, <1>5, <1>10, BeginFinishEffect DEF Moves, AppTypes
<1>11. ASSUME FinishOutcome(c) PROVE Kept
  BY <1>1, <1>2, <1>4, <1>5, <1>11, FinishOutcomeEffect DEF Moves, AppTypes
<1>12. ASSUME BeginCancel(c) PROVE Kept
  BY <1>1, <1>2, <1>4, <1>5, <1>12, BeginCancelEffect DEF Moves, AppTypes
<1>13. ASSUME TurnOff(c) PROVE Kept
  BY <1>1, <1>13, TurnOffEffect, OffTypes DEF Moves, AppTypes, appVars
<1>14. ASSUME TurnOffListener(c) PROVE Kept
  BY <1>1, <1>2, <1>4, <1>14, TurnOffListenerEffect, OffTypes DEF Moves, AppTypes
<1>15. ASSUME ClearHook(c) PROVE Kept
  BY <1>1, <1>15, ClearHookEffect, OffTypes DEF Rests, AppTypes, appVars
<1>16. Kept
  BY <1>6, <1>7, <1>8, <1>9, <1>10, <1>11, <1>12, <1>13, <1>14, <1>15 DEF Handler
<1>. QED
  BY <1>3, <1>16, TypesSplit

LEMMA TypeStep == TypeOK /\ AppInv /\ [Next]_vars => TypeOK'
<1> SUFFICES ASSUME TypeOK, AppInv, [Next]_vars PROVE TypeOK'
  OBVIOUS
<1>0. FlagTypes /\ ListTypes /\ AppTypes /\ RunTypes /\ RestTypes
  BY TypesSplit
<1>1. CASE Keyboard
  BY <1>1, KeyEffect, KeyTypesKept
<1>2. CASE Mouse
  BY <1>2, MouseEffect, MouseTypesKept
<1>3. ASSUME NEW m \in Modes, Reload(m) PROVE TypeOK'
  <2>1. FlagTypes' /\ RestTypes'
    BY <1>0, <1>3, ReloadEffect DEF FlagTypes, RestTypes, Marks, mouseVars
  <2>2. ListTypes' /\ AppTypes' /\ RunTypes'
    BY <1>0, <1>3, ReloadEffect DEF ListTypes, AppTypes, RunTypes, mouseVars, appVars
  <2>. QED
    BY <2>1, <2>2, TypesSplit
<1>4. CASE WorkerLooks
  <2>1. RunTypes' /\ ListTypes'
    BY <1>0, <1>4, WorkerLooksEffect DEF Starts, RunTypes, ListTypes, WorkerFrame, keyVars
  <2>2. FlagTypes' /\ AppTypes' /\ RestTypes'
    BY <1>0, <1>4, WorkerLooksEffect DEF FlagTypes, AppTypes, RestTypes, WorkerFrame, keyVars, appVars
  <2>. QED
    BY <2>1, <2>2, TypesSplit
<1>5. CASE WorkerGets
  <2>1. RunTypes' /\ ListTypes'
    BY <1>0, <1>5, WorkerGetsEffect DEF Starts, RunTypes, ListTypes, WorkerFrame, keyVars
  <2>2. FlagTypes' /\ AppTypes' /\ RestTypes'
    BY <1>0, <1>5, WorkerGetsEffect DEF FlagTypes, AppTypes, RestTypes, WorkerFrame, keyVars, appVars
  <2>. QED
    BY <2>1, <2>2, TypesSplit
<1>6. ASSUME NEW i \in DOMAIN acts, ThreadRuns(i) PROVE TypeOK'
  <2>1. RunTypes' /\ ListTypes'
    BY <1>0, <1>6, ThreadRunsEffect DEF Starts, ListTypes, mouseVars
  <2>2. FlagTypes' /\ AppTypes' /\ RestTypes'
    BY <1>0, <1>6, ThreadRunsEffect DEF FlagTypes, AppTypes, RestTypes, mouseVars, appVars, Marks
  <2>. QED
    BY <2>1, <2>2, TypesSplit
<1>7. ASSUME NEW o \in Ops, BarCalls(o) PROVE TypeOK'
  <2>1. RunTypes' /\ ListTypes'
    BY <1>0, <1>7, BarCallsEffect DEF Starts, ListTypes, mouseVars, keyVars
  <2>2. FlagTypes' /\ AppTypes' /\ RestTypes'
    BY <1>0, <1>7, BarCallsEffect DEF FlagTypes, AppTypes, RestTypes, mouseVars, keyVars, appVars, Marks
  <2>. QED
    BY <2>1, <2>2, TypesSplit
<1>8. ASSUME NEW c \in Callers, Handler(c) PROVE TypeOK'
  BY <1>8, HandlerTypesKept
<1>9. CASE ClearListener
  <2>1. FlagTypes'
    <3>1. key' \in Keys
      BY <1>0, <1>9, ClearListenerEffect DEF FlagTypes, Keys
    <3>. QED
      BY <1>0, <1>9, <3>1, ClearListenerEffect DEF FlagTypes, NotesErasure, Marks
  <2>2. ListTypes' /\ AppTypes' /\ RunTypes' /\ RestTypes'
    BY <1>0, <1>9, ClearListenerEffect DEF Moves, HandlerFrame, ListTypes, AppTypes, RestTypes, appVars
  <2>. QED
    BY <2>1, <2>2, TypesSplit
<1>10. CASE PipelineEnds
  <2>1. FlagTypes' /\ ListTypes' /\ AppTypes' /\ RunTypes' /\ RestTypes'
    BY <1>0, <1>10 DEF PipelineEnds, HandlerFrame, Flags, FlagTypes, ListTypes, AppTypes, RunTypes, RestTypes
  <2>. QED
    BY <2>1, TypesSplit
<1>11. ASSUME NEW e \in Enders, TailOff(e) PROVE TypeOK'
  <2>1. FlagTypes'
    BY <1>0, <1>11, OffTypes DEF TailOff
  <2>2. ListTypes' /\ AppTypes' /\ RunTypes' /\ RestTypes'
    BY <1>0, <1>11 DEF TailOff, HandlerFrame, ListTypes, AppTypes, RunTypes, RestTypes
  <2>. QED
    BY <2>1, <2>2, TypesSplit
<1>13. CASE RetryBegins \/ RetryEnds \/ ResetAsks \/ ResetState
  <2>1. /\ UNCHANGED <<style, mode, acts, mheld, queue, urgent, loop, Flags, cap, run>>
        /\ gestures' \in 0..MaxGestures /\ events' \in 0..MaxEvents
    BY <1>0, <1>13, Counted DEF RetryBegins, RetryEnds, ResetAsks, ResetState, OthersFrame, RestTypes
  <2>2. AppTypes'
    BY <1>0, <1>13, <2>1 DEF RetryBegins, RetryEnds, ResetAsks, ResetState, AppTypes
  <2>3. FlagTypes' /\ ListTypes' /\ RunTypes' /\ RestTypes'
    BY <1>0, <2>1 DEF Flags, FlagTypes, ListTypes, RunTypes, RestTypes
  <2>. QED
    BY <2>2, <2>3, TypesSplit
<1>12. CASE UNCHANGED vars
  <2>1. FlagTypes' /\ ListTypes' /\ AppTypes' /\ RunTypes' /\ RestTypes'
    BY <1>0, <1>12 DEF vars, keyVars, mouseVars, appVars, FlagTypes, ListTypes, AppTypes, RunTypes, RestTypes
  <2>. QED
    BY <2>1, TypesSplit
<1>. QED
  BY <1>1, <1>2, <1>3, <1>4, <1>5, <1>6, <1>7, <1>8, <1>9, <1>10, <1>11, <1>12, <1>13 DEF Next

-------------------------------------------------------------------------------
(* The lock and the application.                                           *)

LEMMA CallerFacts ==
  ASSUME TypeOK, AppInv, NEW c \in Callers
  PROVE  /\ HandlerOK(c) /\ c # None
         /\ run[c].then \in {"return", "begin", "outcome"} /\ run[c].at \in Places
         /\ Idle.at = "idle" /\ Idle.then = "return" /\ Idle.op = None
BY NoneIsNothing DEF TypeOK, AppInv, Places, Idle

(* Who waits for the lock does not depend on what its holder does.         *)
LEMMA OthersKept ==
  ASSUME TypeOK, AppInv, NEW c \in Callers, cap = None \/ cap = c,
         NEW d \in Callers, d # c, run'[d] = run[d]
  PROVE  HandlerOK(d)'
<1>1. HandlerOK(d) /\ d # None
  BY CallerFacts
<1>2. run[d].at \notin {"begin", "on", "onListener", "open", "off", "offListener", "outcome"}
  BY <1>1 DEF HandlerOK
<1>. QED
  BY <1>1, <1>2 DEF HandlerOK

(* A caller outside the lock does not depend on the application.           *)
LEMMA OutsideKept ==
  ASSUME TypeOK, AppInv, NEW c \in Callers, UNCHANGED <<app, pipe, cap, taken>>,
         \A d \in Callers : d # c => run'[d] = run[d],
         HandlerOK(c)'
  PROVE  AppInv'
<1>1. ASSUME NEW d \in Callers, d # c PROVE HandlerOK(d)'
  BY <1>1, CallerFacts DEF HandlerOK
<1>. QED
  BY <1>1 DEF AppInv

LEMMA StartsKept ==
  ASSUME TypeOK, AppInv, NEW c \in Callers, NEW o \in Ops, Starts(c, o), UNCHANGED <<app, pipe, cap, taken>>
  PROVE  AppInv'
<1>1. HandlerOK(c)'
  BY NoneIsNothing DEF Starts, HandlerOK
<1>. QED
  BY <1>1, OutsideKept DEF Starts

LEMMA SameAppKept ==
  ASSUME AppInv, UNCHANGED <<app, pipe, cap, run, taken>>
  PROVE  AppInv'
BY DEF AppInv, HandlerOK

LEMMA ReturnedKept ==
  ASSUME TypeOK, AppInv, NEW c \in Callers, Returned(c), run[c].op # None
  PROVE  HandlerOK(c)' /\ \A d \in Callers : d # c => run'[d] = run[d]
BY CallerFacts DEF Returned, Rests, Moves, HandlerOK

LEMMA HandlerAppKept ==
  ASSUME TypeOK, AppInv, NEW c \in Callers, Handler(c)
  PROVE  AppInv'
<1>0. HandlerOK(c) /\ c # None /\ (pipe => app # "RECORDING") /\ RunTypes /\ pipe \in BOOLEAN
      /\ (app = "RECORDING" => taken = "no")
  BY CallerFacts, TypesSplit DEF AppInv, AppTypes
<1> DEFINE same == \A d \in Callers : d # c => run'[d] = run[d]
           good == HandlerOK(c)' /\ same /\ (cap = None \/ cap = c) /\ (pipe' => app' # "RECORDING")
                   /\ (app' = "RECORDING" => taken' = "no")
<1>1. ASSUME BeginStart(c) PROVE good
  BY <1>0, <1>1, BeginStartEffect, NoneIsNothing DEF Moves, HandlerOK
<1>2. ASSUME TurnOn(c) PROVE good
  BY <1>0, <1>2, TurnOnEffect, NoneIsNothing DEF Moves, HandlerOK, appVars
<1>3. ASSUME TurnOnListener(c) PROVE good
  BY <1>0, <1>3, TurnOnListenerEffect, NoneIsNothing DEF Moves, HandlerOK, appVars
<1>4. ASSUME OpenMic(c) PROVE good
  <2>1. OpenMic(c) /\ run[c].op # None
    BY <1>0, <1>4, OpenMicEffect DEF HandlerOK
  <2>2. CASE Returned(c) /\ app' = app /\ cap' = None
    BY <1>0, <2>1, <2>2, OpenMicEffect, ReturnedKept
  <2>3. CASE Moves(c, "off", "return") /\ app' = "IDLE" /\ cap' = cap
    BY <1>0, <2>1, <2>3, OpenMicEffect DEF Moves, HandlerOK
  <2>. QED
    BY <1>0, <2>1, <2>2, <2>3, OpenMicEffect
<1>5. ASSUME BeginFinish(c) PROVE good
  <2>1. BeginFinish(c) /\ run[c].op # None
    BY <1>0, <1>5, BeginFinishEffect, NoneIsNothing DEF Ops
  <2>2. CASE app # "RECORDING" /\ app' = app /\ cap' = None /\ Returned(c)
    BY <1>0, <2>1, <2>2, BeginFinishEffect, ReturnedKept
  <2>3. CASE app = "RECORDING" /\ app' = "PROCESSING" /\ cap' = c /\ Moves(c, "off", "outcome")
    BY <1>0, <2>1, <2>3, BeginFinishEffect DEF Moves, HandlerOK
  <2>. QED
    BY <1>0, <2>1, <2>2, <2>3, BeginFinishEffect
<1>6. ASSUME FinishOutcome(c) PROVE good
  <2>1. FinishOutcome(c) /\ run[c].op # None
    BY <1>0, <1>6, FinishOutcomeEffect DEF HandlerOK
  <2>2. CASE pipe' \in {pipe, TRUE, FALSE} /\ app' = app /\ cap' = None /\ Returned(c)
    BY <1>0, <2>1, <2>2, FinishOutcomeEffect, ReturnedKept
  <2>3. CASE pipe' = pipe /\ app' = "IDLE" /\ cap' = cap /\ Moves(c, "off", "return")
    BY <1>0, <2>1, <2>3, FinishOutcomeEffect DEF Moves, HandlerOK
  <2>. QED
    BY <1>0, <2>1, <2>2, <2>3, FinishOutcomeEffect
<1>7. ASSUME BeginCancel(c) PROVE good
  <2>1. BeginCancel(c) /\ run[c].op # None
    BY <1>0, <1>7, BeginCancelEffect, NoneIsNothing DEF Ops
  <2>2. CASE app # "RECORDING" /\ UNCHANGED <<app, pipe>> /\ cap' = None /\ Returned(c)
    BY <1>0, <2>1, <2>2, BeginCancelEffect, ReturnedKept
  <2>3. CASE app' = "IDLE" /\ pipe' = FALSE /\ cap' = c /\ Moves(c, "off", "return")
    BY <1>0, <2>1, <2>3, BeginCancelEffect DEF Moves, HandlerOK
  <2>. QED
    BY <1>0, <2>1, <2>2, <2>3, BeginCancelEffect
<1>8. ASSUME TurnOff(c) PROVE good
  BY <1>0, <1>8, TurnOffEffect DEF Moves, HandlerOK, appVars
<1>9. ASSUME TurnOffListener(c) PROVE good
  <2>1. TurnOffListener(c) /\ run[c].op # None
    BY <1>0, <1>9, TurnOffListenerEffect DEF HandlerOK
  <2>2. CASE cap' = None /\ Returned(c)
    BY <1>0, <2>1, <2>2, TurnOffListenerEffect, ReturnedKept
  <2>3. CASE run[c].then \in {"begin", "outcome"} /\ cap' = cap /\ Moves(c, run[c].then, "return")
    BY <1>0, <2>1, <2>3, TurnOffListenerEffect DEF Moves, HandlerOK
  <2>. QED
    BY <1>0, <2>1, <2>2, <2>3, TurnOffListenerEffect
<1>10. ASSUME ClearHook(c) PROVE AppInv'
  <2>1. HandlerOK(c)'
    BY <1>10, ClearHookEffect, CallerFacts, TypesSplit DEF Rests, HandlerOK
  <2>. QED
    BY <1>10, <2>1, ClearHookEffect, OutsideKept, TypesSplit DEF Rests, appVars
<1>11. ASSUME good PROVE AppInv'
  BY <1>11, OthersKept DEF AppInv
<1> HIDE DEF good
<1>. QED
  BY <1>1, <1>2, <1>3, <1>4, <1>5, <1>6, <1>7, <1>8, <1>9, <1>10, <1>11 DEF Handler

LEMMA AppStep == TypeOK /\ AppInv /\ [Next]_vars => AppInv'
<1> SUFFICES ASSUME TypeOK, AppInv, [Next]_vars PROVE AppInv'
  OBVIOUS
<1>1. CASE Keyboard
  BY <1>1, KeyEffect, SameAppKept DEF KeyStep, KeyFrameKept, appVars
<1>2. CASE Mouse
  BY <1>2, MouseEffect, SameAppKept DEF MouseStep, appVars
<1>3. ASSUME NEW m \in Modes, Reload(m) PROVE AppInv'
  BY <1>3, ReloadEffect, SameAppKept DEF appVars
<1>4. CASE WorkerLooks
  BY <1>4, WorkerLooksEffect, SameAppKept, StartsKept DEF WorkerFrame, appVars, Callers, Ops
<1>5. CASE WorkerGets
  BY <1>5, WorkerGetsEffect, SameAppKept, StartsKept DEF WorkerFrame, appVars, Callers
<1>6. ASSUME NEW i \in DOMAIN acts, ThreadRuns(i) PROVE AppInv'
  BY <1>6, ThreadRunsEffect, StartsKept DEF appVars, Callers
<1>7. ASSUME NEW o \in Ops, BarCalls(o) PROVE AppInv'
  BY <1>7, BarCallsEffect, StartsKept DEF appVars, Callers
<1>8. ASSUME NEW c \in Callers, Handler(c) PROVE AppInv'
  BY <1>8, HandlerAppKept
<1>9. CASE ClearListener
  <2>1. "key" \in Callers /\ run["key"].op # None
    BY <1>9, CallerFacts DEF ClearListener, At, HandlerOK, Callers
  <2>2. HandlerOK("key")' /\ \A d \in Callers : d # "key" => run'[d] = run[d]
    BY <1>9, <2>1, ClearListenerEffect, TypesSplit DEF Moves, HandlerOK
  <2>. QED
    BY <1>9, <2>1, <2>2, ClearListenerEffect, OutsideKept, TypesSplit DEF appVars
<1>10. CASE PipelineEnds
  BY <1>10 DEF PipelineEnds, AppInv, HandlerOK
<1>11. ASSUME NEW e \in Enders, TailOff(e) PROVE AppInv'
  BY <1>11, SameAppKept DEF TailOff
<1>13. CASE RetryBegins \/ RetryEnds \/ ResetAsks \/ ResetState
  <2>1. /\ app' # "RECORDING" /\ UNCHANGED <<cap, run>> /\ (pipe' => pipe)
        /\ taken # "no" => taken' # "no"
        /\ app = "RECORDING" => taken' # "no"
    BY <1>13 DEF RetryBegins, RetryEnds, ResetAsks, ResetState, OthersFrame, Live
  <2>2. ASSUME NEW c \in Callers PROVE HandlerOK(c)'
    <3>1. HandlerOK(c)
      BY DEF AppInv
    <3>. QED
      BY <2>1, <3>1 DEF HandlerOK
  <2>. QED
    BY <2>1, <2>2 DEF AppInv
<1>12. CASE UNCHANGED vars
  BY <1>12, SameAppKept DEF vars, appVars
<1>. QED
  BY <1>1, <1>2, <1>3, <1>4, <1>5, <1>6, <1>7, <1>8, <1>9, <1>10, <1>11, <1>12, <1>13 DEF Next

-------------------------------------------------------------------------------
(* The keyboard and the flags.                                             *)

LEMMA ListFacts ==
  TypeOK => /\ acts \in Seq(Ops) /\ queue \in Seq(Ops \cup {"click"})
            /\ "start" \in Ops /\ "finish" \in Ops /\ "cancel" \in Ops
            /\ {rec, hrec} \subseteq BOOLEAN
BY DEF TypeOK, Ops

LEMMA SameOpens ==
  ASSUME UNCHANGED run
  PROVE  (Opens' <=> Opens) /\ \A d \in Callers : Opening(d)' <=> Opening(d)
BY DEF Opens, Opening

LEMMA KeyRec ==
  ASSUME TypeOK, FlagInv, KeyStep
  PROVE  RecInv' /\ HrecInv'
<1>0. /\ RecInv /\ HrecInv /\ UNCHANGED <<queue, app, taken, run>> /\ (Opens' <=> Opens)
      /\ acts \in Seq(Ops) /\ "start" \in Ops
  BY ListFacts, SameOpens DEF FlagInv, KeyStep, KeyFrameKept, appVars
<1>1. CASE KeyStarts
  <2>1. Has(acts', {"start"})
    BY <1>0, <1>1, HasAppend DEF KeyStarts
  <2>. QED
    BY <2>1 DEF RecInv, HrecInv
<1>2. ASSUME NEW o \in {"finish", "cancel"}, KeyEnds(o) PROVE RecInv' /\ HrecInv'
  BY <1>2 DEF KeyEnds, RecInv, HrecInv
<1>3. CASE UNCHANGED <<rec, hrec, acts>>
  BY <1>0, <1>3 DEF RecInv, HrecInv
<1>. QED
  BY <1>1, <1>2, <1>3 DEF KeyStep, KeyOnly

LEMMA KeyUp ==
  ASSUME TypeOK, FlagInv, KeyStep
  PROVE  UpInv'
<1>0. /\ UpInv /\ UNCHANGED <<queue, urgent, app, taken, run>>
      /\ acts \in Seq(Ops) /\ {"start", "finish", "cancel"} \subseteq Ops
  BY ListFacts DEF FlagInv, KeyStep, KeyFrameKept, appVars
<1>1. CASE KeyStarts
  BY <1>1 DEF KeyStarts, UpInv
<1>2. ASSUME NEW o \in {"finish", "cancel"}, KeyEnds(o) PROVE UpInv'
  <2>1. Has(acts', {"finish", "cancel"})
    BY <1>0, <1>2, HasAppend DEF KeyEnds
  <2>. QED
    BY <2>1 DEF UpInv, EndPends
<1>3. CASE UNCHANGED <<rec, hrec, acts>> /\ upset \subseteq upset'
  <2>1. EndPends' <=> EndPends
    BY <1>0, <1>3 DEF EndPends
  <2>. QED
    BY <1>0, <1>3, <2>1 DEF UpInv
<1>. QED
  BY <1>1, <1>2, <1>3 DEF KeyStep, KeyOnly

LEMMA KeyCalm ==
  ASSUME TypeOK, FlagInv, KeyStep
  PROVE  CalmInv'
<1>1. /\ CalmInv /\ UNCHANGED <<style, run>> /\ upset \subseteq upset'
      /\ armed' = armed \/ armed' = None
  BY DEF FlagInv, KeyStep, KeyFrameKept, KeyStarts, KeyEnds, KeyOnly
<1>. QED
  BY <1>1 DEF CalmInv, KeyStep

LEMMA KeyTalk ==
  ASSUME TypeOK, FlagInv, KeyStep
  PROVE  TalkInv'
<1> SUFFICES ASSUME Talk', upset' = {} PROVE TalkInv'
  BY DEF TalkInv
<1>0. /\ UNCHANGED <<style, mode, mheld, queue, urgent, app, taken, run>>
      /\ \A d \in Callers : Opening(d)' <=> Opening(d)
      /\ acts \in Seq(Ops) /\ {"start", "finish", "cancel"} \subseteq Ops
      /\ "key" \in Callers /\ "mouse" \in Callers /\ rec \in BOOLEAN
  BY ListFacts, SameOpens DEF KeyStep, KeyFrameKept, appVars, Callers
<1>1. Talk /\ upset = {}
  BY <1>0 DEF Talk, KeyStep, KeyStarts, KeyEnds, KeyOnly
<1>2. TalkInv /\ Steady
  BY <1>1 DEF FlagInv, CalmInv, Steady, Talk, Solo
<1> DEFINE E == {"finish", "cancel"}
<1>3. CASE KeyStarts /\ (Steady => key'.held /\ key'.trig)
  <2>1. KeyHolds' /\ hrec' /\ rec'
    BY <1>2, <1>3 DEF KeyStarts, KeyHolds
  <2>2. MouseHolds => MouseHolds'
    BY <1>0, <2>1 DEF MouseHolds
  <2>. QED
    BY <1>0, <1>1, <1>2, <2>1, <2>2 DEF TalkInv
<1>4. ASSUME NEW o \in E, KeyEnds(o) PROVE TalkInv'
  <2>1. Has(acts', E) /\ Followed(acts', E)
    <3>1. o \in Ops /\ o # "start" /\ acts' = Append(acts, o)
      BY <1>0, <1>4 DEF KeyEnds
    <3>. QED
      BY <1>0, <1>4, <3>1, HasAppend, FollowedAppend
  <2>2. ~hrec \/ ~MouseStarts
    BY <1>1, <1>4 DEF KeyEnds
  <2>3. MouseHolds \/ Followed(queue, {"finish"})
    BY <1>1, <1>2 DEF TalkInv
  <2>4. Followed(queue, {"finish"}) /\ (Opening("mouse") => Has(queue, {"finish"}) \/ urgent = "finish")
    <3>1. CASE ~hrec
      BY <1>1, <1>2, <3>1 DEF TalkInv, MouseHolds
    <3>2. CASE ~MouseStarts
      <4>1. ~Has(queue, {"start"}) /\ ~Opening("mouse")
        BY <3>2 DEF MouseStarts, Has
      <4>. QED
        BY <4>1, NoStartIsFollowed
    <3>. QED
      BY <2>2, <3>1, <3>2
  <2>5. EndPends'
    BY <2>1 DEF EndPends
  <2>. QED
    BY <1>0, <2>1, <2>4, <2>5 DEF TalkInv
<1>5. CASE KeyOnly /\ (Steady /\ KeyHolds => key'.held /\ key'.trig)
  <2>1. (KeyHolds => KeyHolds') /\ (MouseHolds => MouseHolds') /\ acts' = acts
    BY <1>0, <1>2, <1>5 DEF KeyOnly, KeyHolds, MouseHolds
  <2>2. EndPends' <=> EndPends
    BY <1>0, <2>1 DEF EndPends
  <2>. QED
    BY <1>0, <1>1, <1>2, <2>1, <2>2 DEF TalkInv
<1>6. CASE upset' = upset \cup {"lost"}
  BY <1>6
<1>. QED
  BY <1>3, <1>4, <1>5, <1>6 DEF KeyStep

-------------------------------------------------------------------------------
(* The mouse and the flags.                                                *)

(* What the queue keeps when a gesture that is not an end is dispatched.   *)
LEMMA DispatchKeeps ==
  ASSUME TypeOK, NEW o \in {"start", "click"}, NEW flag \in BOOLEAN, Dispatch(o, flag)
  PROVE  /\ Has(queue, {"finish"}) => Has(queue', {"finish"})
         /\ o = "click" /\ Followed(queue, {"finish"}) => Followed(queue', {"finish"})
         /\ Has(queue, {"start"}) => Has(queue', {"start"})
         /\ urgent' = urgent
         /\ \/ hrec' = flag /\ (o = "start" => Has(queue', {"start"}))
            \/ queue' = queue /\ hrec' = (flag /\ o # "start")
<1>0. queue \in Seq(Ops \cup {"click"}) /\ o \in Ops \cup {"click"}
  BY ListFacts
<1>1. CASE queue' = Append(queue, o) /\ hrec' = flag /\ UNCHANGED urgent
  BY <1>0, <1>1, HasAppend, FollowedAppend
<1>2. CASE hrec' = (flag /\ o # "start") /\ UNCHANGED <<queue, urgent>>
  BY <1>2
<1>. QED
  BY <1>1, <1>2 DEF Dispatch

LEMMA MouseRec ==
  ASSUME TypeOK, FlagInv, MouseStep
  PROVE  RecInv' /\ HrecInv' /\ CalmInv'
<1>0. /\ RecInv /\ HrecInv /\ CalmInv /\ UNCHANGED <<style, rec, armed, key, acts, app, taken, run, upset>>
      /\ (Opens' <=> Opens) /\ queue \in Seq(Ops \cup {"click"})
      /\ hrec \in BOOLEAN
  BY ListFacts, SameOpens DEF FlagInv, MouseStep, keyVars, appVars
<1>1. RecInv' /\ CalmInv'
  BY <1>0 DEF RecInv, CalmInv
<1>2. CASE Dispatch("start", TRUE)
  <2>1. Has(queue', {"start"}) \/ ~hrec'
    BY <1>2, DispatchKeeps
  <2>. QED
    BY <1>1, <2>1 DEF HrecInv
<1>3. CASE Dispatch("finish", FALSE)
  <2>1. ~hrec'
    BY <1>3 DEF Dispatch
  <2>. QED
    BY <1>1, <2>1 DEF HrecInv
<1>4. CASE Dispatch("click", hrec)
  <2>1. (Has(queue, {"start"}) => Has(queue', {"start"})) /\ (hrec' => hrec)
    BY <1>0, <1>4, DispatchKeeps
  <2>. QED
    BY <1>0, <1>1, <2>1 DEF HrecInv
<1>5. CASE MouseOnly
  BY <1>0, <1>1, <1>5 DEF MouseOnly, HrecInv
<1>. QED
  BY <1>2, <1>3, <1>4, <1>5 DEF MouseStep

(* An end that is dispatched is pending, in the queue or in its place.     *)
LEMMA DispatchEnds ==
  ASSUME TypeOK, Dispatch("finish", FALSE)
  PROVE  /\ Has(queue', {"finish"}) \/ urgent' = "finish"
         /\ Followed(queue', {"finish"})
         /\ hrec' = FALSE
<1>0. queue \in Seq(Ops \cup {"click"}) /\ "finish" \in Ops \cup {"click"}
  BY ListFacts
<1>1. CASE queue' = Append(queue, "finish") /\ hrec' = FALSE
  BY <1>0, <1>1, HasAppend, FollowedAppend
<1>2. CASE queue' = <<>> /\ urgent' = "finish" /\ hrec' = FALSE
  BY <1>2, NothingThere
<1>. QED
  BY <1>1, <1>2 DEF Dispatch

LEMMA MouseUpHolds ==
  ASSUME TypeOK, FlagInv, MouseStep
  PROVE  UpInv'
<1>0. UpInv /\ UNCHANGED <<rec, acts, app, taken, run, upset>> /\ hrec \in BOOLEAN
  BY ListFacts DEF FlagInv, MouseStep, keyVars, appVars
<1>1. CASE Dispatch("start", TRUE) /\ ~hrec
  <2>1. EndPends => EndPends'
    BY <1>0, <1>1, DispatchKeeps DEF EndPends
  <2>. QED
    BY <1>0, <1>1, <2>1 DEF UpInv
<1>2. CASE Dispatch("finish", FALSE)
  BY <1>2, DispatchEnds DEF UpInv, EndPends
<1>3. CASE Dispatch("click", hrec)
  <2>1. (EndPends => EndPends') /\ (hrec => hrec')
    BY <1>0, <1>3, DispatchKeeps DEF EndPends
  <2>. QED
    BY <1>0, <2>1 DEF UpInv
<1>4. CASE MouseOnly
  <2>1. EndPends => EndPends'
    BY <1>0, <1>4 DEF EndPends, MouseOnly
  <2>. QED
    BY <1>0, <1>4, <2>1 DEF UpInv, MouseOnly
<1>. QED
  BY <1>1, <1>2, <1>3, <1>4 DEF MouseStep

LEMMA MouseTalk ==
  ASSUME TypeOK, FlagInv, MouseStep
  PROVE  TalkInv'
<1> SUFFICES ASSUME Talk', upset' = {} PROVE TalkInv'
  BY DEF TalkInv
<1>0. /\ UNCHANGED <<style, mode, rec, armed, key, acts, app, taken, run, upset>>
      /\ \A d \in Callers : Opening(d)' <=> Opening(d)
      /\ "key" \in Callers /\ "mouse" \in Callers /\ hrec \in BOOLEAN
  BY ListFacts, SameOpens DEF MouseStep, keyVars, appVars, Callers
<1>1. Talk /\ upset = {} /\ mode = "ptt_only" /\ TalkInv /\ (KeyHolds' <=> KeyHolds)
  BY <1>0 DEF Talk, FlagInv, KeyHolds
<1>2. CASE Dispatch("start", TRUE) /\ ~hrec /\ mheld'
  <2>1. EndPends => EndPends'
    BY <1>0, <1>2, DispatchKeeps DEF EndPends
  <2>2. CASE hrec'
    <3>1. MouseHolds'
      BY <1>2, <2>2 DEF MouseHolds
    <3>. QED
      BY <1>0, <1>1, <3>1 DEF TalkInv
  <2>3. CASE ~hrec'
    <3>1. ~MouseHolds /\ queue' = queue /\ urgent' = urgent
      BY <1>2, <2>3, DispatchKeeps DEF MouseHolds
    <3>. QED
      BY <1>0, <1>1, <2>1, <3>1 DEF TalkInv
  <2>. QED
    BY <2>2, <2>3
<1>3. CASE Dispatch("finish", FALSE)
  <2>1. /\ Has(queue', {"finish"}) \/ urgent' = "finish"
        /\ Followed(queue', {"finish"})
    BY <1>3, DispatchEnds
  <2>2. EndPends'
    BY <2>1 DEF EndPends
  <2>. QED
    BY <1>0, <1>1, <2>1, <2>2 DEF TalkInv
<1>4. CASE Dispatch("click", hrec) /\ mheld' = mheld
  <2>1. /\ EndPends => EndPends'
        /\ MouseHolds => MouseHolds'
        /\ Followed(queue, {"finish"}) => Followed(queue', {"finish"})
        /\ Has(queue, {"finish"}) => Has(queue', {"finish"})
        /\ urgent' = urgent
    BY <1>0, <1>4, DispatchKeeps DEF EndPends, MouseHolds
  <2>. QED
    BY <1>0, <1>1, <2>1 DEF TalkInv
<1>5. CASE MouseOnly /\ (mode = "ptt_only" /\ MouseHolds => mheld')
  <2>1. (EndPends => EndPends') /\ (MouseHolds => MouseHolds') /\ UNCHANGED <<queue, urgent>>
    BY <1>0, <1>1, <1>5 DEF EndPends, MouseHolds, MouseOnly
  <2>. QED
    BY <1>0, <1>1, <2>1 DEF TalkInv
<1>. QED
  BY <1>2, <1>3, <1>4, <1>5 DEF MouseStep

-------------------------------------------------------------------------------
(* A new configuration; and the gestures that are taken up.                *)

LEMMA IdleFacts ==
  ASSUME NEW c \in Callers, run[c] = Idle
  PROVE  /\ ~Opening(c) /\ run[c].at = "idle"
         /\ ~(run[c].op \in {"finish", "cancel"} /\ run[c].at = "wait")
BY NoneIsNothing DEF Opening, Idle, Ops

LEMMA ReloadFlags ==
  ASSUME TypeOK, FlagInv, NEW m \in Modes, Reload(m)
  PROVE  RecInv' /\ HrecInv' /\ UpInv' /\ CalmInv' /\ TalkInv'
<1>0. /\ UNCHANGED <<style, rec, acts, hrec, mheld, queue, urgent, app, taken, run>>
      /\ (Opens' <=> Opens) /\ \A d \in Callers : Opening(d)' <=> Opening(d)
      /\ upset \subseteq upset'
  BY ReloadEffect, SameOpens DEF mouseVars, appVars
<1>1. RecInv' /\ HrecInv'
  BY <1>0 DEF FlagInv, RecInv, HrecInv
<1>2. UpInv'
  <2>1. EndPends' <=> EndPends
    BY <1>0 DEF EndPends
  <2>. QED
    BY <1>0, <2>1 DEF FlagInv, UpInv
<1>3. CASE upset' = upset \cup {"reconfigured"}
  <2>1. CalmInv'
    BY <1>0, <1>3, ReloadEffect DEF FlagInv, CalmInv
  <2>2. TalkInv'
    BY <1>3 DEF TalkInv
  <2>. QED
    BY <1>1, <1>2, <2>1, <2>2
<1>4. CASE /\ upset' = upset /\ ~rec /\ app = "IDLE" /\ acts = <<>> /\ queue = <<>>
           /\ \A c \in Callers : run[c] = Idle
  <2>1. ~rec /\ armed' = None
    BY <1>4, ReloadEffect
  <2>2. CalmInv'
    BY <1>0, <2>1, ReloadEffect DEF FlagInv, CalmInv
  <2>3. \A d \in Callers : ~Opening(d)'
    BY <1>0, <1>4, IdleFacts
  <2>4. TalkInv'
    BY <1>0, <1>4, <2>3, NothingThere DEF TalkInv, Callers
  <2>. QED
    BY <1>1, <1>2, <2>2, <2>4
<1>. QED
  BY <1>3, <1>4, ReloadEffect

LEMMA StartsFacts ==
  ASSUME NEW c \in Callers, NEW o \in Ops, Starts(c, o)
  PROVE  /\ \A d \in Callers : d # c => (Opening(d)' <=> Opening(d))
         /\ ~Opening(c) /\ (Opening(c)' <=> o = "start")
         /\ Opens' <=> Opens \/ o = "start"
         /\ \A d \in Callers : run[d].at \notin {"idle", "wait"} => run'[d] = run[d]
         /\ (\E d \in Callers : run'[d].op \in {"finish", "cancel"} /\ run'[d].at = "wait")
              <=> \/ \E d \in Callers : run[d].op \in {"finish", "cancel"} /\ run[d].at = "wait"
                  \/ o \in {"finish", "cancel"}
<1>1. ~Opening(c) /\ ~(run[c].op \in {"finish", "cancel"} /\ run[c].at = "wait") /\ run[c].at = "idle"
  BY IdleFacts DEF Starts
<1>2. /\ \A d \in Callers : d # c => (Opening(d)' <=> Opening(d))
      /\ Opening(c)' <=> o = "start"
  BY DEF Starts, Opening
<1>3. Opens' <=> Opens \/ o = "start"
  BY <1>1, <1>2 DEF Opens
<1>. QED
  BY <1>1, <1>2, <1>3 DEF Starts

(* A gesture is taken off a list and its handler begins.  What is left of  *)
(* the lists, and the handler, stand for what was there.                   *)
LEMMA TakenFlags ==
  ASSUME TypeOK, FlagInv, NEW c \in Callers, NEW o \in Ops, Starts(c, o),
         UNCHANGED <<style, rec, hrec, armed, key, app, taken>>, upset \subseteq upset',
         c = "bar" => "bar" \in upset',
         Has(acts, {"start"}) => Has(acts', {"start"}) \/ o = "start",
         Has(queue, {"start"}) => Has(queue', {"start"}) \/ o = "start",
         EndPends => EndPends'
  PROVE  RecInv' /\ HrecInv' /\ UpInv' /\ CalmInv'
<1>1. RecInv'
  BY StartsFacts DEF FlagInv, RecInv
<1>2. HrecInv'
  BY StartsFacts DEF FlagInv, HrecInv
<1>3. UpInv'
  BY StartsFacts DEF FlagInv, UpInv
<1>4. CalmInv'
  <2>1. "bar" \notin upset' => run'["bar"] = Idle
    BY DEF FlagInv, CalmInv, Starts, Callers
  <2>. QED
    BY <2>1 DEF FlagInv, CalmInv
<1>. QED
  BY <1>1, <1>2, <1>3, <1>4

LEMMA WorkerLooksFlags ==
  ASSUME TypeOK, FlagInv, WorkerLooks
  PROVE  RecInv' /\ HrecInv' /\ UpInv' /\ CalmInv' /\ TalkInv'
<1>0. /\ UNCHANGED <<style, mode, rec, armed, key, acts, hrec, mheld, queue, app, taken, upset>>
      /\ FlagInv
  BY WorkerLooksEffect DEF WorkerFrame, keyVars, appVars
<1>1. CASE urgent = "finish" /\ urgent' = None /\ Starts("mouse", "finish")
  <2>0. "mouse" \in Callers /\ "key" \in Callers /\ "finish" \in Ops
    BY DEF Callers, Ops
  <2>1. EndPends'
    BY <1>0, <1>1, <2>0, StartsFacts DEF EndPends
  <2>2. RecInv' /\ HrecInv' /\ UpInv' /\ CalmInv'
    BY <1>0, <1>1, <2>0, <2>1, TakenFlags
  <2>3. ~Opening("mouse")' /\ (Opening("key")' <=> Opening("key"))
    BY <1>1, <2>0, StartsFacts
  <2>4. TalkInv'
    BY <1>0, <2>1, <2>3 DEF FlagInv, TalkInv, Talk, KeyHolds, MouseHolds
  <2>. QED
    BY <2>2, <2>4
<1>2. CASE UNCHANGED <<run, urgent>>
  <2>1. (Opens' <=> Opens) /\ \A d \in Callers : Opening(d)' <=> Opening(d)
    BY <1>2, SameOpens
  <2>2. EndPends' <=> EndPends
    BY <1>0, <1>2 DEF EndPends
  <2>3. RecInv' /\ HrecInv' /\ UpInv' /\ CalmInv'
    BY <1>0, <1>2, <2>1, <2>2 DEF FlagInv, RecInv, HrecInv, UpInv, CalmInv
  <2>4. TalkInv'
    BY <1>0, <1>2, <2>1, <2>2 DEF FlagInv, TalkInv, Talk, KeyHolds, MouseHolds, Callers
  <2>. QED
    BY <2>3, <2>4
<1>. QED
  BY <1>1, <1>2, WorkerLooksEffect

LEMMA WorkerGetsFlags ==
  ASSUME TypeOK, FlagInv, WorkerGets
  PROVE  RecInv' /\ HrecInv' /\ UpInv' /\ CalmInv' /\ TalkInv'
<1>0. /\ UNCHANGED <<style, mode, rec, armed, key, acts, hrec, mheld, urgent, app, taken, upset>>
      /\ run["mouse"] = Idle
      /\ "mouse" \in Callers /\ "key" \in Callers
  BY WorkerGetsEffect DEF WorkerFrame, keyVars, appVars, Callers
<1>1. CASE UNCHANGED run /\ (queue' = queue \/ (Removed(queue, 1, queue') /\ queue[1] = "click"))
  <2>1. (Opens' <=> Opens) /\ \A d \in Callers : Opening(d)' <=> Opening(d)
    BY <1>1, SameOpens
  <2>2. /\ Has(queue, {"start"}) => Has(queue', {"start"})
        /\ Has(queue, {"finish"}) => Has(queue', {"finish"})
        /\ Followed(queue, {"finish"}) => Followed(queue', {"finish"})
    BY <1>1, HasRemoved, FollowedRemoved
  <2>3. EndPends => EndPends'
    BY <1>0, <1>1, <2>2 DEF EndPends
  <2>4. RecInv' /\ HrecInv' /\ UpInv' /\ CalmInv'
    BY <1>0, <1>1, <2>1, <2>2, <2>3 DEF FlagInv, RecInv, HrecInv, UpInv, CalmInv
  <2>5. TalkInv'
    BY <1>0, <2>1, <2>2, <2>3 DEF FlagInv, TalkInv, Talk, KeyHolds, MouseHolds
  <2>. QED
    BY <2>4, <2>5
<1>2. CASE Removed(queue, 1, queue') /\ queue[1] \in Ops /\ Starts("mouse", queue[1])
  <2>1. /\ Has(queue, {"start"}) => Has(queue', {"start"}) \/ queue[1] = "start"
        /\ Has(queue, {"finish"}) => Has(queue', {"finish"}) \/ queue[1] = "finish"
        /\ Followed(queue, {"finish"}) =>
             Followed(queue', {"finish"}) /\ (queue[1] = "start" => Has(queue', {"finish"}))
    <3>1. \A T : Has(queue, T) => Has(queue', T) \/ queue[1] \in T
      BY <1>2, HasRemoved
    <3>2. Followed(queue, {"finish"}) =>
             Followed(queue', {"finish"}) /\ (queue[1] = "start" => Has(queue', {"finish"}))
      BY <1>2, FollowedRemoved
    <3>. QED
      BY <3>1, <3>2
  <2>2. EndPends => EndPends'
    BY <1>0, <1>2, <2>1, StartsFacts DEF EndPends
  <2>3. RecInv' /\ HrecInv' /\ UpInv' /\ CalmInv'
    BY <1>0, <1>2, <2>1, <2>2, TakenFlags
  <2>4. (Opening("mouse")' <=> queue[1] = "start") /\ (Opening("key")' <=> Opening("key"))
    BY <1>0, <1>2, StartsFacts
  <2>5. TalkInv'
    BY <1>0, <2>1, <2>2, <2>4 DEF FlagInv, TalkInv, Talk, KeyHolds, MouseHolds
  <2>. QED
    BY <2>3, <2>5
<1>. QED
  BY <1>1, <1>2, WorkerGetsEffect

LEMMA ThreadRunsFlags ==
  ASSUME TypeOK, FlagInv, NEW i \in DOMAIN acts, ThreadRuns(i)
  PROVE  RecInv' /\ HrecInv' /\ UpInv' /\ CalmInv' /\ TalkInv'
<1>0. /\ UNCHANGED <<style, mode, rec, armed, key, hrec, mheld, queue, urgent, app, taken>>
      /\ "mouse" \in Callers /\ "key" \in Callers
      /\ Removed(acts, i, acts') /\ acts[i] \in Ops /\ Starts("key", acts[i])
      /\ upset \subseteq upset' /\ (upset' = {} => i = 1)
  BY ThreadRunsEffect DEF mouseVars, appVars, Callers
<1> DEFINE E == {"finish", "cancel"}
<1>1. /\ Has(acts, {"start"}) => Has(acts', {"start"}) \/ acts[i] = "start"
      /\ Has(acts, E) => Has(acts', E) \/ acts[i] \in E
  <2>1. \A T : Has(acts, T) => Has(acts', T) \/ acts[i] \in T
    BY <1>0, HasRemoved
  <2>. QED
    BY <2>1
<1>2. EndPends => EndPends'
  BY <1>0, <1>1, StartsFacts DEF EndPends
<1>3. RecInv' /\ HrecInv' /\ UpInv' /\ CalmInv'
  BY <1>0, <1>1, <1>2, TakenFlags
<1>4. (Opening("key")' <=> acts[i] = "start") /\ (Opening("mouse")' <=> Opening("mouse"))
  BY <1>0, StartsFacts
<1>5. TalkInv'
  <2> SUFFICES ASSUME upset' = {} PROVE TalkInv'
    BY DEF TalkInv
  <2>1. Followed(acts, E) => Followed(acts', E) /\ (acts[i] = "start" => Has(acts', E))
    BY <1>0, FollowedRemoved
  <2>. QED
    BY <1>0, <1>1, <1>2, <1>4, <2>1 DEF FlagInv, TalkInv, Talk, KeyHolds, MouseHolds
<1>. QED
  BY <1>3, <1>5

LEMMA BarCallsFlags ==
  ASSUME TypeOK, FlagInv, NEW o \in Ops, BarCalls(o)
  PROVE  RecInv' /\ HrecInv' /\ UpInv' /\ CalmInv' /\ TalkInv'
<1>0. /\ UNCHANGED <<style, rec, armed, key, acts, hrec, queue, urgent, app, taken>>
      /\ "bar" \in Callers /\ Starts("bar", o) /\ upset' = upset \cup {"bar"}
  BY BarCallsEffect DEF mouseVars, appVars, keyVars, Callers
<1>1. EndPends => EndPends'
  BY <1>0, StartsFacts DEF EndPends
<1>2. RecInv' /\ HrecInv' /\ UpInv' /\ CalmInv'
  BY <1>0, <1>1, TakenFlags
<1>3. TalkInv'
  BY <1>0 DEF TalkInv
<1>. QED
  BY <1>2, <1>3

-------------------------------------------------------------------------------
(* The handlers and the flags.                                             *)

Others(c) == \A d \in Callers : d # c => run'[d] = run[d]

LEMMA OthersOpen ==
  ASSUME NEW c \in Callers, Others(c)
  PROVE  \A d \in Callers : d # c => (Opening(d)' <=> Opening(d))
BY DEF Others, Opening

(* An end is pending still, unless it is the one that c has begun.         *)
LEMMA EndKept ==
  ASSUME NEW c \in Callers, Others(c), UNCHANGED <<acts, queue, urgent>>,
         ~(run[c].op \in {"finish", "cancel"} /\ run[c].at = "wait")
  PROVE  EndPends => EndPends'
BY DEF Others, EndPends

LEMMA CalmKept ==
  ASSUME CalmInv, NEW c \in Callers, Others(c), run[c].at # "idle",
         upset \subseteq upset', armed' \in {armed, None}, style' = style,
         ~key.timer => ~key'.timer
  PROVE  CalmInv'
BY DEF CalmInv, Others, Idle, Callers

(* In push to talk, nobody interfering, the bar does nothing; a start that *)
(* is under way is held or has its end coming.                             *)
LEMMA TalkFacts ==
  ASSUME FlagInv, Talk, upset = {}, NEW c \in Callers, run[c].at # "idle"
  PROVE  /\ c \in {"key", "mouse"}
         /\ Opening(c) => KeyHolds \/ MouseHolds \/ EndPends
BY DEF FlagInv, CalmInv, TalkInv, Idle, Callers, EndPends

(* A step that leaves the flags and the lists to themselves: c goes on, and *)
(* a recording that is left has just begun or was there, with its ends.    *)
LEMMA QuietFlags ==
  ASSUME TypeOK, FlagInv, NEW c \in Callers, Others(c),
         UNCHANGED <<Flags, style, mode, acts, mheld, queue, urgent>>,
         run[c].at \notin {"idle", "off", "offListener"},
         Opening(c)' => Opening(c),
         app = "RECORDING" \/ Opening(c) =>
           app' = "RECORDING" \/ taken' # "no" \/ Opening(c)' \/ run'[c].at = "off",
         taken' = taken \/ app' = "RECORDING",
         app' = "RECORDING" =>
           \/ Opening(c) /\ run'[c].at = "on"
           \/ /\ app = "RECORDING" /\ run[c].at \notin {"on", "onListener"}
              /\ ~(run[c].op \in {"finish", "cancel"} /\ run[c].at = "wait")
  PROVE  RecInv' /\ HrecInv' /\ UpInv' /\ CalmInv' /\ TalkInv'
<1>0. /\ \A d \in Callers : d # c => (Opening(d)' <=> Opening(d))
      /\ \A d \in Callers : d # c => run'[d] = run[d]
      /\ UNCHANGED <<rec, armed, key, hrec, upset>>
  BY OthersOpen DEF Others, Flags
<1>1. RecInv'
  BY <1>0 DEF FlagInv, RecInv, Opens
<1>2. HrecInv'
  BY <1>0 DEF FlagInv, HrecInv, Opens
<1>3. CalmInv'
  BY <1>0, CalmKept DEF FlagInv
<1>4. app' = "RECORDING" => (EndPends => EndPends')
  BY EndKept DEF Opening
<1>5. UpInv'
  <2>1. CASE app' = "RECORDING" /\ Opening(c) /\ run'[c].at = "on"
    BY <2>1 DEF UpInv
  <2>2. CASE app = "RECORDING" /\ app' = "RECORDING" /\ run[c].at \notin {"on", "onListener"}
    <3>1. /\ (\E d \in Callers : run[d].at \in {"on", "onListener"})
                => \E d \in Callers : run'[d].at \in {"on", "onListener"}
          /\ (\E d \in Callers : run[d].at = "on") => \E d \in Callers : run'[d].at = "on"
      BY <1>0, <2>2
    <3>. QED
      BY <1>0, <1>4, <2>2, <3>1 DEF FlagInv, UpInv
  <2>. QED
    BY <2>1, <2>2 DEF UpInv
<1>6. TalkInv'
  <2> SUFFICES ASSUME Talk', upset' = {} PROVE TalkInv'
    BY DEF TalkInv
  <2>1. Talk /\ upset = {} /\ (KeyHolds' <=> KeyHolds) /\ (MouseHolds' <=> MouseHolds)
    BY <1>0 DEF Talk, KeyHolds, MouseHolds
  <2>2. \A d \in Callers : Opening(d)' => Opening(d)
    BY <1>0
  <2>3. app' = "RECORDING" => app = "RECORDING" \/ Opening(c)
    OBVIOUS
  <2>4. app' = "RECORDING" => KeyHolds \/ MouseHolds \/ EndPends
    BY <2>1, <2>3, TalkFacts DEF FlagInv, TalkInv
  <2>. QED
    BY <1>0, <1>4, <2>1, <2>2, <2>4 DEF FlagInv, TalkInv, Callers
<1>. QED
  BY <1>1, <1>2, <1>3, <1>5, <1>6

LEMMA ReturnedFacts ==
  ASSUME NEW c \in Callers, Returned(c)
  PROVE  /\ Others(c) /\ ~Opening(c)' /\ run'[c].at \in {"idle", "after", "clear"}
         /\ run'[c].then = "return"
BY NoneIsNothing DEF Returned, Rests, Moves, Others, Opening, Idle, Ops

LEMMA MovesFacts ==
  ASSUME NEW c \in Callers, NEW p, NEW next, Moves(c, p, next)
  PROVE  /\ Others(c) /\ run'[c].at = p
         /\ Opening(c)' <=> /\ run[c].op = "start"
                            /\ p \in {"wait", "begin", "on", "onListener", "open"} \/ next = "begin"
BY DEF Moves, Others, Opening

LEMMA BeginStartFlags ==
  ASSUME TypeOK, FlagInv, NEW c \in Callers, BeginStart(c)
  PROVE  RecInv' /\ HrecInv' /\ UpInv' /\ CalmInv' /\ TalkInv'
<1>0. /\ Opening(c) /\ run[c].op = "start" /\ run[c].at \in {"wait", "begin"}
      /\ UNCHANGED <<Flags, style, mode, acts, mheld, queue, urgent>>
  BY BeginStartEffect, TypesSplit DEF FlagInv, Opening, HandlerFrame
<1>1. CASE app' = "RECORDING" /\ Moves(c, "on", "return")
  BY <1>0, <1>1, MovesFacts, QuietFlags
<1>2. CASE app = "PROCESSING" /\ app' = "IDLE" /\ taken' = taken /\ Moves(c, "off", "begin")
  BY <1>0, <1>2, MovesFacts, QuietFlags
<1>3. CASE app' = app /\ taken' = taken /\ Moves(c, "off", "return")
  BY <1>0, <1>3, MovesFacts, QuietFlags
<1>. QED
  BY <1>1, <1>2, <1>3, BeginStartEffect, TypesSplit DEF FlagInv

LEMMA OpenMicFlags ==
  ASSUME TypeOK, FlagInv, NEW c \in Callers, OpenMic(c)
  PROVE  RecInv' /\ HrecInv' /\ UpInv' /\ CalmInv' /\ TalkInv'
<1>0. /\ run[c].at = "open" /\ run[c].op = "start" /\ taken' = taken
      /\ app = "RECORDING" \/ taken # "no"
      /\ UNCHANGED <<Flags, style, mode, acts, mheld, queue, urgent>>
  BY OpenMicEffect, TypesSplit DEF FlagInv, HandlerFrame
<1>1. CASE Returned(c) /\ app' = app
  BY <1>0, <1>1, ReturnedFacts, QuietFlags
<1>2. CASE Moves(c, "off", "return") /\ app' = "IDLE"
  BY <1>0, <1>2, MovesFacts, QuietFlags
<1>. QED
  BY <1>1, <1>2, OpenMicEffect, TypesSplit DEF FlagInv

LEMMA BeginFinishFlags ==
  ASSUME TypeOK, FlagInv, NEW c \in Callers, BeginFinish(c)
  PROVE  RecInv' /\ HrecInv' /\ UpInv' /\ CalmInv' /\ TalkInv'
<1>0. /\ run[c].at = "wait" /\ run[c].op = "finish" /\ ~Opening(c)
      /\ taken' = taken
      /\ UNCHANGED <<Flags, style, mode, acts, mheld, queue, urgent>>
  BY BeginFinishEffect, TypesSplit DEF FlagInv, Opening, HandlerFrame
<1>1. CASE app # "RECORDING" /\ app' = app /\ Returned(c)
  BY <1>0, <1>1, ReturnedFacts, QuietFlags
<1>2. CASE app = "RECORDING" /\ app' = "PROCESSING" /\ Moves(c, "off", "outcome")
  BY <1>0, <1>2, MovesFacts, QuietFlags
<1>. QED
  BY <1>1, <1>2, BeginFinishEffect, TypesSplit DEF FlagInv

LEMMA FinishOutcomeFlags ==
  ASSUME TypeOK, FlagInv, NEW c \in Callers, FinishOutcome(c)
  PROVE  RecInv' /\ HrecInv' /\ UpInv' /\ CalmInv' /\ TalkInv'
<1>0. /\ run[c].at = "outcome" /\ app # "RECORDING" /\ taken' = taken
      /\ UNCHANGED <<Flags, style, mode, acts, mheld, queue, urgent>>
  BY FinishOutcomeEffect, TypesSplit DEF FlagInv, HandlerFrame
<1>1. ~Opening(c)
  BY <1>0, CallerFacts DEF FlagInv, HandlerOK, Opening
<1>2. CASE app' = app /\ Returned(c)
  BY <1>0, <1>1, <1>2, ReturnedFacts, QuietFlags
<1>3. CASE app' = "IDLE" /\ Moves(c, "off", "return")
  BY <1>0, <1>1, <1>3, MovesFacts, QuietFlags
<1>. QED
  BY <1>2, <1>3, FinishOutcomeEffect, TypesSplit DEF FlagInv

LEMMA BeginCancelFlags ==
  ASSUME TypeOK, FlagInv, NEW c \in Callers, BeginCancel(c)
  PROVE  RecInv' /\ HrecInv' /\ UpInv' /\ CalmInv' /\ TalkInv'
<1>0. /\ run[c].at = "wait" /\ run[c].op = "cancel" /\ ~Opening(c)
      /\ taken' = taken
      /\ UNCHANGED <<Flags, style, mode, acts, mheld, queue, urgent>>
  BY BeginCancelEffect, TypesSplit DEF FlagInv, Opening, HandlerFrame
<1>1. CASE app # "RECORDING" /\ app' = app /\ Returned(c)
  BY <1>0, <1>1, ReturnedFacts, QuietFlags
<1>2. CASE app' = "IDLE" /\ Moves(c, "off", "return")
  BY <1>0, <1>2, MovesFacts, QuietFlags
<1>. QED
  BY <1>1, <1>2, BeginCancelEffect, TypesSplit DEF FlagInv

(* The flags go up.                                                        *)
LEMMA TurnOnFlags ==
  ASSUME TypeOK, FlagInv, NEW c \in Callers, TurnOn(c)
  PROVE  RecInv' /\ HrecInv' /\ UpInv' /\ CalmInv' /\ TalkInv'
<1>0. /\ run[c].at = "on" /\ run[c].op = "start" /\ UNCHANGED <<app, taken>>
      /\ app = "RECORDING" \/ taken # "no"
      /\ Others(c) /\ run'[c].at = "onListener" /\ Opening(c)
      /\ hrec' = TRUE /\ UNCHANGED <<rec, armed, key, upset>>
      /\ UNCHANGED <<style, mode, acts, mheld, queue, urgent>>
  BY TurnOnEffect, TypesSplit DEF FlagInv, HandlerFrame, appVars, Moves, Others, Opening
<1>1. RecInv' /\ HrecInv' /\ CalmInv'
  BY <1>0, CalmKept DEF FlagInv, RecInv, HrecInv
<1>2. UpInv'
  BY <1>0 DEF UpInv
<1>3. EndPends => EndPends'
  BY <1>0, EndKept
<1>4. \A d \in Callers : Opening(d)' => Opening(d)
  BY <1>0, OthersOpen
<1>5. TalkInv'
  BY <1>0, <1>3, <1>4 DEF FlagInv, TalkInv, Talk, KeyHolds, MouseHolds, Callers
<1>. QED
  BY <1>1, <1>2, <1>5

LEMMA TurnOnListenerFlags ==
  ASSUME TypeOK, FlagInv, NEW c \in Callers, TurnOnListener(c)
  PROVE  RecInv' /\ HrecInv' /\ UpInv' /\ CalmInv' /\ TalkInv'
<1>0. /\ run[c].at = "onListener" /\ run[c].op = "start" /\ UNCHANGED <<app, taken>>
      /\ app = "RECORDING" \/ taken # "no"
      /\ cap = c
      /\ Others(c) /\ run'[c].at = "open" /\ Opening(c)
      /\ rec' = TRUE /\ UNCHANGED <<hrec, armed, key, upset>>
      /\ UNCHANGED <<style, mode, acts, mheld, queue, urgent>>
  BY TurnOnListenerEffect, TypesSplit DEF FlagInv, HandlerFrame, appVars, Moves, Others, Opening
<1>1. RecInv' /\ HrecInv' /\ CalmInv'
  BY <1>0, CalmKept DEF FlagInv, RecInv, HrecInv
<1>2. EndPends => EndPends'
  BY <1>0, EndKept
<1>3. \A d \in Callers : run[d].at # "on"
  BY <1>0, CallerFacts DEF FlagInv, HandlerOK
<1>4. UpInv'
  BY <1>0, <1>2, <1>3 DEF FlagInv, UpInv
<1>5. \A d \in Callers : Opening(d)' => Opening(d)
  BY <1>0, OthersOpen
<1>6. TalkInv'
  BY <1>0, <1>2, <1>5 DEF FlagInv, TalkInv, Talk, KeyHolds, MouseHolds, Callers
<1>. QED
  BY <1>1, <1>4, <1>6

(* The flags go down.  If that hits something newer it is noted; if not,   *)
(* there is nothing that would need them.                                  *)
LEMMA NotesFacts ==
  ASSUME TypeOK, NotesErasure
  PROVE  /\ upset \subseteq upset'
         /\ \/ "erased" \in upset'
            \/ UNCHANGED <<rec, hrec, key, upset>>
            \/ /\ upset' = upset /\ app # "RECORDING" /\ ~Opens
               /\ ~Has(acts, {"start"}) /\ ~Has(queue, {"start"})
BY DEF NotesErasure, Has, Opens

LEMMA DownFlags ==
  ASSUME TypeOK, FlagInv, NotesErasure,
         UNCHANGED <<style, mode, acts, mheld, queue, urgent, app, taken>>,
         \A d \in Callers : Opening(d)' => Opening(d),
         \A d \in Callers : run[d].at \in {"wait", "on", "onListener"} => run'[d] = run[d]
  PROVE  UpInv' /\ TalkInv'
<1>1. CASE "erased" \in upset'
  BY <1>1 DEF UpInv, TalkInv
<1>2. CASE UNCHANGED <<rec, hrec, key, upset>>
  <2>1. EndPends => EndPends'
    BY DEF EndPends
  <2>2. UpInv'
    BY <1>2, <2>1 DEF FlagInv, UpInv
  <2>3. TalkInv'
    BY <1>2, <2>1 DEF FlagInv, TalkInv, Talk, KeyHolds, MouseHolds, Callers
  <2>. QED
    BY <2>2, <2>3
<1>3. CASE app # "RECORDING" /\ ~Opens /\ ~Has(acts, {"start"}) /\ ~Has(queue, {"start"})
  <2>1. \A d \in Callers : ~Opening(d)'
    BY <1>3 DEF Opens
  <2>2. Followed(acts, {"finish", "cancel"})' /\ Followed(queue, {"finish"})'
    BY <1>3, NoStartIsFollowed
  <2>. QED
    BY <1>3, <2>1, <2>2 DEF UpInv, TalkInv, Callers
<1>. QED
  BY <1>1, <1>2, <1>3, NotesFacts

LEMMA OffFacts ==
  /\ HookOff => NotesErasure /\ hrec' = FALSE /\ UNCHANGED <<rec, armed, key>>
  /\ ListenerOff => /\ NotesErasure /\ rec' = FALSE /\ ~key'.timer
                    /\ UNCHANGED <<hrec, armed>>
BY DEF HookOff, ListenerOff, NoKeys

(* A handler, or the thread that called it, at its place for it.           *)
LEMMA OffFlags ==
  ASSUME TypeOK, FlagInv, NEW c \in Callers, Others(c), NotesErasure,
         UNCHANGED <<style, mode, acts, mheld, queue, urgent, app, taken>>,
         run[c].at \in {"off", "offListener", "clear", "after"},
         Opening(c)' => Opening(c),
         armed' \in {armed, None}, ~key.timer => ~key'.timer
  PROVE  UpInv' /\ TalkInv' /\ CalmInv'
<1>1. \A d \in Callers : Opening(d)' => Opening(d)
  BY OthersOpen
<1>2. UpInv' /\ TalkInv'
  BY <1>1, DownFlags DEF Others
<1>3. CalmInv'
  BY NotesFacts, CalmKept DEF FlagInv
<1>. QED
  BY <1>2, <1>3

LEMMA TurnOffFlags ==
  ASSUME TypeOK, FlagInv, NEW c \in Callers, TurnOff(c)
  PROVE  RecInv' /\ HrecInv' /\ UpInv' /\ CalmInv' /\ TalkInv'
<1>0. /\ run[c].at = "off" /\ Moves(c, "offListener", run[c].then) /\ HookOff
      /\ UNCHANGED <<style, mode, acts, mheld, queue, urgent, app, taken>>
  BY TurnOffEffect, TypesSplit DEF FlagInv, HandlerFrame, appVars
<1>1. Others(c) /\ run'[c].at = "offListener" /\ (Opening(c)' <=> Opening(c))
  BY <1>0, MovesFacts DEF Opening
<1>2. UpInv' /\ TalkInv' /\ CalmInv'
  BY <1>0, <1>1, OffFacts, OffFlags
<1>3. RecInv'
  BY <1>1 DEF RecInv
<1>4. HrecInv'
  BY <1>0, OffFacts DEF HrecInv
<1>. QED
  BY <1>2, <1>3, <1>4

LEMMA TurnOffListenerFlags ==
  ASSUME TypeOK, FlagInv, NEW c \in Callers, TurnOffListener(c)
  PROVE  RecInv' /\ HrecInv' /\ UpInv' /\ CalmInv' /\ TalkInv'
<1>0. /\ run[c].at = "offListener" /\ ListenerOff
      /\ UNCHANGED <<style, mode, acts, mheld, queue, urgent, app, taken>>
  BY TurnOffListenerEffect, TypesSplit DEF FlagInv, HandlerFrame
<1>1. Others(c) /\ (Opening(c)' <=> Opening(c))
  <2>1. CASE run[c].then = "return" /\ Returned(c)
    BY <1>0, <2>1, ReturnedFacts DEF Opening
  <2>2. CASE run[c].then \in {"begin", "outcome"} /\ Moves(c, run[c].then, "return")
    BY <1>0, <2>2, MovesFacts DEF Opening
  <2>. QED
    BY <2>1, <2>2, TurnOffListenerEffect, TypesSplit DEF FlagInv
<1>2. UpInv' /\ TalkInv' /\ CalmInv'
  BY <1>0, <1>1, OffFacts, OffFlags
<1>3. RecInv'
  BY <1>0, OffFacts DEF RecInv
<1>4. HrecInv'
  <2>1. hrec' = hrec /\ (Opens => Opens')
    BY <1>0, <1>1, OffFacts, OthersOpen DEF Opens
  <2>2. (\E d \in Callers : run[d].at = "off") => \E d \in Callers : run'[d].at = "off"
    BY <1>0, <1>1 DEF Others
  <2>. QED
    BY <1>0, <2>1, <2>2 DEF FlagInv, HrecInv
<1>. QED
  BY <1>2, <1>3, <1>4

LEMMA ClearHookFlags ==
  ASSUME TypeOK, FlagInv, NEW c \in Callers, ClearHook(c)
  PROVE  RecInv' /\ HrecInv' /\ UpInv' /\ CalmInv' /\ TalkInv'
<1>0. /\ run[c].at = "after" /\ Rests(c) /\ HookOff
      /\ UNCHANGED <<style, mode, acts, mheld, queue, urgent, app, taken>>
  BY ClearHookEffect, TypesSplit DEF HandlerFrame, appVars
<1>1. Others(c) /\ ~Opening(c)' /\ ~Opening(c)
  <2>1. run[c].then = "return"
    BY <1>0, CallerFacts DEF FlagInv, HandlerOK
  <2>. QED
    BY <1>0, <2>1, ReturnedFacts DEF Returned, Opening
<1>2. UpInv' /\ TalkInv' /\ CalmInv'
  BY <1>0, <1>1, OffFacts, OffFlags
<1>3. RecInv'
  <2>1. rec' = rec /\ (Opens => Opens')
    BY <1>0, <1>1, OffFacts, OthersOpen DEF Opens
  <2>2. (\E d \in Callers : run[d].at \in {"off", "offListener"})
          => \E d \in Callers : run'[d].at \in {"off", "offListener"}
    BY <1>0, <1>1 DEF Others
  <2>. QED
    BY <1>0, <2>1, <2>2 DEF FlagInv, RecInv
<1>4. HrecInv'
  BY <1>0, OffFacts DEF HrecInv
<1>. QED
  BY <1>2, <1>3, <1>4

LEMMA ClearListenerFlags ==
  ASSUME TypeOK, FlagInv, ClearListener
  PROVE  RecInv' /\ HrecInv' /\ UpInv' /\ CalmInv' /\ TalkInv'
<1>0. /\ "key" \in Callers /\ run["key"].at = "clear" /\ Moves("key", "after", "return")
      /\ rec' = FALSE /\ armed' = None /\ hrec' = hrec /\ key'.timer = key.timer
      /\ UNCHANGED <<style, mode, acts, mheld, queue, urgent, app, taken>> /\ NotesErasure
  <2>1. key \in Keys /\ key' = [key EXCEPT !.trig = @ /\ style # "ctrl_win"]
    BY ClearListenerEffect, TypesSplit DEF FlagInv, FlagTypes
  <2>2. key'.timer = key.timer
    BY <2>1 DEF Keys
  <2>. QED
    BY <2>2, ClearListenerEffect, TypesSplit DEF FlagInv, HandlerFrame, appVars, Callers
<1>1. Others("key") /\ ~Opening("key")' /\ ~Opening("key")
  <2>1. run["key"].then = "return"
    BY <1>0, CallerFacts DEF FlagInv, HandlerOK
  <2>. QED
    BY <1>0, <2>1, MovesFacts DEF Opening
<1>2. UpInv' /\ TalkInv' /\ CalmInv'
  BY <1>0, <1>1, OffFlags
<1>3. RecInv'
  BY <1>0 DEF RecInv
<1>4. HrecInv'
  <2>1. Opens => Opens'
    BY <1>0, <1>1, OthersOpen DEF Opens
  <2>2. (\E d \in Callers : run[d].at = "off") => \E d \in Callers : run'[d].at = "off"
    BY <1>0, <1>1 DEF Others
  <2>. QED
    BY <1>0, <2>1, <2>2 DEF FlagInv, HrecInv
<1>. QED
  BY <1>2, <1>3, <1>4

(* Whoever takes the state leaves the flags to others.                     *)
LEMMA TakersFlags ==
  ASSUME TypeOK, FlagInv,
         PipelineEnds \/ RetryBegins \/ RetryEnds \/ ResetAsks \/ ResetState
  PROVE  RecInv' /\ HrecInv' /\ UpInv' /\ CalmInv' /\ TalkInv'
<1>0. /\ app' # "RECORDING"
      /\ taken # "no" => taken' # "no"
      /\ app = "RECORDING" => taken' # "no"
      /\ UNCHANGED <<style, mode, rec, hrec, armed, key, upset, acts, mheld, queue, urgent, run>>
  BY DEF PipelineEnds, FlagInv, AppInv, RetryBegins, RetryEnds, ResetAsks, ResetState, Live,
         Flags, HandlerFrame, OthersFrame
<1>1. (Opens' <=> Opens) /\ \A d \in Callers : Opening(d)' <=> Opening(d)
  BY <1>0, SameOpens
<1>2. RecInv' /\ HrecInv' /\ CalmInv'
  BY <1>0, <1>1 DEF FlagInv, RecInv, HrecInv, CalmInv
<1>3. UpInv' /\ TalkInv'
  BY <1>0, <1>1 DEF FlagInv, UpInv, TalkInv, Talk, KeyHolds, MouseHolds, Callers
<1>. QED
  BY <1>2, <1>3

LEMMA TailOffFlags ==
  ASSUME TypeOK, FlagInv, NEW e \in Enders, TailOff(e)
  PROVE  RecInv' /\ HrecInv' /\ UpInv' /\ CalmInv' /\ TalkInv'
<1>0. /\ HookOff \/ ListenerOff
      /\ UNCHANGED <<style, mode, acts, mheld, queue, urgent, app, taken, run>>
  BY DEF TailOff, HandlerFrame
<1>1. (Opens' <=> Opens) /\ \A d \in Callers : Opening(d)' <=> Opening(d)
  BY <1>0, SameOpens
<1>2. /\ NotesErasure /\ upset \subseteq upset' /\ armed' = armed
      /\ rec' = rec \/ rec' = FALSE
      /\ hrec' = hrec \/ hrec' = FALSE
      /\ ~key.timer => ~key'.timer
  BY <1>0, OffFacts, NotesFacts
<1>3. UpInv' /\ TalkInv'
  BY <1>0, <1>1, <1>2, DownFlags
<1>4. RecInv' /\ HrecInv'
  BY <1>0, <1>1, <1>2 DEF FlagInv, RecInv, HrecInv
<1>5. CalmInv'
  BY <1>0, <1>2 DEF FlagInv, CalmInv
<1>. QED
  BY <1>3, <1>4, <1>5

-------------------------------------------------------------------------------
(* The invariant.                                                          *)

LEMMA FlagStep == TypeOK /\ FlagInv /\ [Next]_vars => FlagInv'
<1> SUFFICES ASSUME TypeOK, FlagInv, [Next]_vars PROVE FlagInv'
  OBVIOUS
<1> DEFINE kept == RecInv' /\ HrecInv' /\ UpInv' /\ CalmInv' /\ TalkInv'
<1>0. AppInv'
  BY AppStep DEF FlagInv
<1>1. ASSUME Keyboard PROVE kept
  BY <1>1, KeyEffect, KeyRec, KeyUp, KeyCalm, KeyTalk
<1>2. ASSUME Mouse PROVE kept
  BY <1>2, MouseEffect, MouseRec, MouseUpHolds, MouseTalk
<1>3. ASSUME NEW m \in Modes, Reload(m) PROVE kept
  BY <1>3, ReloadFlags
<1>4. ASSUME WorkerLooks \/ WorkerGets PROVE kept
  BY <1>4, WorkerLooksFlags, WorkerGetsFlags
<1>5. ASSUME NEW i \in DOMAIN acts, ThreadRuns(i) PROVE kept
  BY <1>5, ThreadRunsFlags
<1>6. ASSUME NEW o \in Ops, BarCalls(o) PROVE kept
  BY <1>6, BarCallsFlags
<1>7. ASSUME NEW c \in Callers, Handler(c) PROVE kept
  <2>1. CASE BeginStart(c) \/ TurnOn(c) \/ TurnOnListener(c) \/ OpenMic(c)
    BY <2>1, BeginStartFlags, TurnOnFlags, TurnOnListenerFlags, OpenMicFlags
  <2>2. CASE BeginFinish(c) \/ FinishOutcome(c) \/ BeginCancel(c)
    BY <2>2, BeginFinishFlags, FinishOutcomeFlags, BeginCancelFlags
  <2>3. CASE TurnOff(c) \/ TurnOffListener(c) \/ ClearHook(c)
    BY <2>3, TurnOffFlags, TurnOffListenerFlags, ClearHookFlags
  <2>. QED
    BY <1>7, <2>1, <2>2, <2>3 DEF Handler
<1>8. ASSUME ClearListener \/ \E e \in Enders : TailOff(e) PROVE kept
  BY <1>8, ClearListenerFlags, TailOffFlags
<1>11. ASSUME PipelineEnds \/ RetryBegins \/ RetryEnds \/ ResetAsks \/ ResetState PROVE kept
  BY <1>11, TakersFlags
<1>9. ASSUME UNCHANGED vars PROVE kept
  <2>1. UNCHANGED <<style, mode, rec, armed, key, acts, hrec, mheld, queue, urgent, app, taken, run, upset>>
    BY <1>9 DEF vars, keyVars, mouseVars, appVars
  <2>2. (Opens' <=> Opens) /\ (EndPends' <=> EndPends) /\ \A d \in Callers : Opening(d)' <=> Opening(d)
    BY <2>1, SameOpens DEF EndPends
  <2>3. RecInv' /\ HrecInv' /\ UpInv' /\ CalmInv'
    BY <2>1, <2>2 DEF FlagInv, RecInv, HrecInv, UpInv, CalmInv
  <2>4. TalkInv'
    BY <2>1, <2>2 DEF FlagInv, TalkInv, Talk, KeyHolds, MouseHolds, Callers
  <2>. QED
    BY <2>3, <2>4
<1> HIDE DEF kept
<1>10. kept
  BY <1>1, <1>2, <1>3, <1>4, <1>5, <1>6, <1>7, <1>8, <1>9, <1>11 DEF Next
<1>. QED
  BY <1>0, <1>10 DEF FlagInv, kept

LEMMA FlagInit == Init => FlagInv
<1> SUFFICES ASSUME Init PROVE FlagInv
  OBVIOUS
<1>1. \A c \in Callers : run[c] = Idle
  BY DEF Init
<1>2. \A c \in Callers : ~Opening(c)
  BY <1>1, IdleFacts
<1>3. AppInv
  BY <1>1 DEF Init, AppInv, HandlerOK, Idle
<1>4. RecInv /\ HrecInv /\ UpInv
  BY DEF Init, RecInv, HrecInv, UpInv
<1>5. CalmInv
  BY <1>1 DEF Init, CalmInv, NoKeys, Callers
<1>6. TalkInv
  BY <1>2, NothingThere DEF Init, TalkInv, Callers
<1>. QED
  BY <1>3, <1>4, <1>5, <1>6 DEF FlagInv

THEOREM Invariance == SafeSpec => []IInv
<1>1. Init => IInv
  BY TypeInit, FlagInit DEF IInv
<1>2. IInv /\ [Next]_vars => IInv'
  BY TypeStep, FlagStep DEF IInv, FlagInv
<1>. QED
  BY <1>1, <1>2, PTL DEF SafeSpec

(* The variables have their types: in particular the control queue never   *)
(* holds more than its size, whatever the gestures.                        *)
THEOREM TypeCorrect == SafeSpec => []TypeOK
<1>1. IInv => TypeOK
  BY DEF IInv
<1>. QED
  BY <1>1, Invariance, PTL

LEMMA QuietFacts ==
  ASSUME Quiet
  PROVE  /\ ~Opens /\ ~EndPends /\ ~Has(acts, {"start"}) /\ ~Has(queue, {"start"})
         /\ \A c \in Callers : run[c].at = "idle"
<1>1. \A c \in Callers : run[c] = Idle
  BY DEF Quiet
<1>2. \A S : ~Has(acts, S) /\ ~Has(queue, S)
  BY NothingThere DEF Quiet
<1>3. \A c \in Callers : /\ ~Opening(c) /\ run[c].at = "idle"
                          /\ ~(run[c].op \in {"finish", "cancel"} /\ run[c].at = "wait")
  BY <1>1, IdleFacts
<1>4. urgent # "finish"
  BY NoneIsNothing DEF Quiet, Ops
<1>. QED
  BY <1>2, <1>3, <1>4 DEF Opens, EndPends

(* Once nobody is at work, a flag of the listener or the hook is up only   *)
(* for a recording, or for one whose state a retry or a reset has taken,   *)
(* and both are up for a recording whose flags were not erased.            *)
THEOREM FlagsAlwaysAgree == SafeSpec => []FlagsAgree
<1>1. IInv => FlagsAgree
  <2> SUFFICES ASSUME IInv, Quiet
               PROVE  /\ rec \/ hrec => app = "RECORDING" \/ taken # "no"
                      /\ app = "RECORDING" /\ "erased" \notin upset => rec /\ hrec
    BY DEF FlagsAgree
  <2>. QED
    BY QuietFacts DEF IInv, FlagInv, RecInv, HrecInv, UpInv
<1>. QED
  BY <1>1, Invariance, PTL

(* Push to talk leaves no recording behind: when nothing is held, nobody   *)
(* is at work and nothing interfered, the application does not record.     *)
THEOREM ReleaseEnds == SafeSpec => []ReleaseEndsIt
<1>1. IInv => ReleaseEndsIt
  <2> SUFFICES ASSUME IInv, Quiet, Talk, upset = {}, ~key.held, ~mheld, app = "RECORDING"
               PROVE  FALSE
    BY DEF ReleaseEndsIt, Talk
  <2>. QED
    BY QuietFacts DEF IInv, FlagInv, TalkInv, KeyHolds, MouseHolds
<1>. QED
  BY <1>1, Invariance, PTL
===============================================================================
