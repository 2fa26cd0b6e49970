----------------------------- MODULE NativeAsrProofs -----------------------------
(***************************************************************************)
(* Proofs about the native speech engine's client, its worker and their    *)
(* callers, for any streams, decoders and limits: whatever callers give up *)
(* and however the worker fails, the queue's memory, the engine and the    *)
(* worker's streams are not lost.                                          *)
(***************************************************************************)
EXTENDS NativeAsr, FiniteSetTheorems, SequenceTheorems, TLAPS

-------------------------------------------------------------------------------
(* The inductive invariant.                                                *)

(* The request is with the client: it waits, or the RPC thread has it.     *)
Held(k) == k \in ToSet(queue) \/ cur = k

(* Who makes which request.                                                *)
RoleOf(c, op) ==
  \/ op \in {"open", "feed", "close"} /\ c \in Streams
  \/ op = "recognize" /\ c \in Decoders
  \/ op = "shutdown" /\ c \notin Decoders

(* Where a caller can be that has left its request behind.                 *)
After(op) ==
  CASE op \in {"open", "close"} -> {"release", "evict", "shutdown", "done"}
    [] op = "feed" -> {"closing", "close", "release", "evict", "shutdown", "done"}
    [] OTHER -> {"done"}

(* The places of each kind of caller.                                      *)
PlacesOf(c) ==
  IF c \in Streams
  THEN {"idle", "open", "ready", "feed", "closing", "close", "release", "evict", "shutdown", "done"}
  ELSE IF c \in Decoders THEN {"idle", "lock", "recognize", "done"}
  ELSE {"idle", "evict", "shutdown", "done"}

PlaceInv == \A c \in Callers : pc[c] \in PlacesOf(c)

(* A request is with the client for a caller that waits for it, or that    *)
(* has left it; a reply is for the request in flight or for a caller that  *)
(* waits; and who waits, waits for a request or has its reply.             *)
KeyOK(k) ==
  /\ Held(k) => /\ RoleOf(k[1], k[2])
                /\ k \in gone => pc[k[1]] \in After(k[2])
                /\ k \notin gone => pc[k[1]] = k[2]
  /\ reply[k] # "none" => k \notin ToSet(queue) /\ (cur = k \/ pc[k[1]] = k[2])
  /\ pc[k[1]] = k[2] => Held(k) \/ reply[k] # "none"
  /\ reply[k] = "error" => closed

PhaseInv ==
  /\ phase = "sent" => reply[cur] = "none"
  /\ phase \in {"check", "orphan", "signal"} => reply[cur] \in {"ok", "refused"}
  /\ phase \in {"check", "orphan"} => cur[2] = "open"
  /\ phase = "orphan" => cur \in gone

KeyInv ==
  /\ queue \in Seq(Keys) /\ cur \notin ToSet(queue)
  /\ \A k \in gone : Held(k)
  /\ \A k \in Keys : KeyOK(k)
  /\ PhaseInv

(* The requests that reserve audio.                                        *)
Reserved == {k \in ToSet(queue) \cup {cur} : k[2] \in Audio}

AudioInv == IsFiniteSet(Reserved) /\ AudioIsGivenBack

(* A caller in an exclusive call has the engine's lock; nobody uses an     *)
(* engine that is shut down.                                               *)
LockOK(c) ==
  /\ pc[c] \in {"open", "recognize", "shutdown"} => lock = c
  /\ pc[c] = "shutdown" => active = {}

LockInv == \A c \in Callers : LockOK(c)

(* What a stream's requests and their replies say of the stream the worker *)
(* has open.                                                               *)
StreamOK(s) ==
  /\ Held(<<s, "open">>) => ~Held(<<s, "close">>) /\ s \notin handle
  /\ <<s, "open">> \in ToSet(queue) => s \notin open
  /\ cur = <<s, "open">> /\ phase = "sent" => s \notin open
  /\ reply[<<s, "open">>] = "refused" => s \notin open
  /\ reply[<<s, "open">>] = "ok" /\ <<s, "open">> \notin gone => s \in open \/ worker = "dead"
  /\ reply[<<s, "close">>] \in {"ok", "refused"} => s \notin open
  /\ <<s, "close">> \in gone => s \notin handle
  /\ pc[s] = "idle" => s \notin open
  /\ pc[s] \in {"idle", "open"} => s \notin handle
  /\ pc[s] \in {"ready", "feed", "closing", "close"} => s \in handle
  /\ s \in handle => s \in open \/ worker = "dead" \/ (pc[s] = "close" /\ reply[<<s, "close">>] # "none")
  /\ s \in open /\ s \notin missed => IsCared(s)

StreamInv ==
  /\ \A s \in Streams : StreamOK(s)
  /\ worker = "dead" => open = {}

FeedInv == worker = "busy" /\ phase = "sent" /\ cur[2] = "feed" => cur[1] \in open

IInv ==
  /\ TypeOK /\ PlaceInv /\ KeyInv /\ AudioInv /\ LockInv /\ StreamsPinTheEngine
  /\ StreamInv /\ FeedInv

-------------------------------------------------------------------------------
(* Facts about requests, the queue and its audio.                          *)

LEMMA KeyFacts ==
  /\ \A c \in Callers, op \in Ops : <<c, op>> \in Keys /\ <<c, op>>[1] = c /\ <<c, op>>[2] = op
  /\ \A k \in Keys : k[1] \in Callers /\ k[2] \in Ops /\ k = <<k[1], k[2]>>
  /\ NoKey \notin Keys /\ NoKey[2] \notin Audio
  /\ \A s \in Streams : s \in Callers
  /\ \A d \in Decoders : d \in Callers /\ d \notin Streams
  /\ Evictor \in Callers /\ Evictor \notin Streams /\ Evictor \notin Decoders /\ Nobody \notin Callers
<1>1. /\ Nobody \notin Callers /\ \A d \in Decoders : d \notin Streams
      /\ Evictor \in Callers /\ Evictor \notin Streams /\ Evictor \notin Decoders
  BY NativeAsrAssumption DEF Callers
<1>2. NoKey \notin Keys /\ NoKey[2] \notin Audio
  BY <1>1 DEF Keys, NoKey, Audio
<1>3. \A c \in Callers, op \in Ops : <<c, op>> \in Keys /\ <<c, op>>[1] = c /\ <<c, op>>[2] = op
  BY DEF Keys
<1>4. \A k \in Keys : k[1] \in Callers /\ k[2] \in Ops /\ k = <<k[1], k[2]>>
  BY DEF Keys
<1>. QED
  BY <1>1, <1>2, <1>3, <1>4 DEF Callers

(* What joining the queue does to it.                                      *)
LEMMA Joins ==
  ASSUME NEW S, NEW q \in Seq(S), IsInjective(q), NEW k \in S, k \notin ToSet(q)
  PROVE  /\ Append(q, k) \in Seq(S) /\ ToSet(Append(q, k)) = ToSet(q) \cup {k}
         /\ IsInjective(Append(q, k))
<1> DEFINE r == Append(q, k)
<1>1. /\ r \in Seq(S) /\ Len(r) = Len(q) + 1 /\ r[Len(q) + 1] = k
      /\ \A i \in 1..Len(q) : r[i] = q[i]
  BY AppendProperties
<1>2. DOMAIN q = 1..Len(q) /\ DOMAIN r = 1..(Len(q) + 1) /\ Len(q) \in Nat
  BY <1>1, LenProperties
<1>3. ToSet(r) = ToSet(q) \cup {k}
  <2>1. ASSUME NEW x \in ToSet(q) \cup {k}
        PROVE  x \in ToSet(r)
    BY <1>1, <1>2, <2>1 DEF ToSet
  <2>2. ASSUME NEW x \in ToSet(r)
        PROVE  x \in ToSet(q) \cup {k}
    <3>1. PICK i \in 1..(Len(q) + 1) : x = r[i]
      BY <1>2, <2>2 DEF ToSet
    <3>2. i \in 1..Len(q) \/ i = Len(q) + 1
      BY <1>2
    <3>. QED
      BY <1>1, <1>2, <3>1, <3>2 DEF ToSet
  <2>. QED
    BY <2>1, <2>2
<1>4. IsInjective(r)
  <2>1. \A i \in 1..Len(q) : r[i] \in ToSet(q)
    BY <1>1, <1>2 DEF ToSet
  <2>2. ASSUME NEW i \in DOMAIN r, NEW j \in DOMAIN r, r[i] = r[j]
        PROVE  i = j
    <3>1. (i \in 1..Len(q) \/ i = Len(q) + 1) /\ (j \in 1..Len(q) \/ j = Len(q) + 1)
      BY <1>2
    <3>. QED
      BY <1>1, <1>2, <2>1, <2>2, <3>1 DEF IsInjective
  <2>. QED
    BY <2>2 DEF IsInjective
<1>. QED
  BY <1>1, <1>3, <1>4

(* What taking its head does to it.                                        *)
LEMMA Leaves ==
  ASSUME NEW S, NEW q \in Seq(S), IsInjective(q), q # <<>>
  PROVE  /\ Head(q) \in S /\ Head(q) \in ToSet(q)
         /\ Tail(q) \in Seq(S) /\ ToSet(Tail(q)) = ToSet(q) \ {Head(q)} /\ IsInjective(Tail(q))
<1> DEFINE r == Tail(q)
<1>1. /\ Len(q) \in Nat /\ Len(q) > 0 /\ DOMAIN q = 1..Len(q) /\ Head(q) = q[1]
      /\ \A i \in 1..Len(q) : q[i] \in S
  BY LenProperties, EmptySeq, ElementOfSeq, HeadTailProperties
<1>2. /\ r \in Seq(S) /\ Len(r) = Len(q) - 1 /\ \A i \in 1..Len(r) : r[i] = q[i + 1]
      /\ DOMAIN r = 1..(Len(q) - 1)
  BY <1>1, HeadTailProperties, LenProperties
<1>3. \A i \in 1..(Len(q) - 1) : i + 1 \in 1..Len(q) /\ i + 1 # 1
  BY <1>1
<1>4. ToSet(r) = ToSet(q) \ {Head(q)}
  <2>1. ASSUME NEW x \in ToSet(q), x # Head(q)
        PROVE  x \in ToSet(r)
    <3>1. PICK i \in 1..Len(q) : x = q[i]
      BY <1>1, <2>1 DEF ToSet
    <3>2. i # 1 /\ i - 1 \in 1..(Len(q) - 1) /\ (i - 1) + 1 = i
      BY <1>1, <2>1, <3>1
    <3>. QED
      BY <1>2, <3>1, <3>2 DEF ToSet
  <2>2. ASSUME NEW x \in ToSet(r)
        PROVE  x \in ToSet(q) /\ x # Head(q)
    <3>1. PICK i \in 1..(Len(q) - 1) : x = r[i]
      BY <1>2, <2>2 DEF ToSet
    <3>2. x = q[i + 1] /\ i + 1 \in DOMAIN q /\ 1 \in DOMAIN q /\ i + 1 # 1
      BY <1>1, <1>2, <1>3, <3>1
    <3>. QED
      BY <1>1, <3>2 DEF ToSet, IsInjective
  <2>. QED
    BY <2>1, <2>2
<1>5. IsInjective(r)
  <2>1. ASSUME NEW i \in DOMAIN r, NEW j \in DOMAIN r, r[i] = r[j]
        PROVE  i = j
    <3>1. q[i + 1] = q[j + 1] /\ i + 1 \in DOMAIN q /\ j + 1 \in DOMAIN q
      BY <1>1, <1>2, <1>3, <2>1
    <3>2. i + 1 = j + 1
      BY <3>1 DEF IsInjective
    <3>. QED
      BY <1>1, <1>2, <3>2
  <2>. QED
    BY <2>1 DEF IsInjective
<1>6. Head(q) \in S /\ Head(q) \in ToSet(q)
  <2>1. 1 \in DOMAIN q
    BY <1>1
  <2>. QED
    BY <1>1, <2>1 DEF ToSet
<1>. QED
  BY <1>2, <1>4, <1>5, <1>6

LEMMA EmptyQueue == ToSet(<<>>) = {} /\ IsInjective(<<>>)
BY DEF ToSet, IsInjective

(* The client's requests are as they were, or less by one, or more by one: *)
(* the audio that is reserved follows.                                     *)
LEMMA AudioSame ==
  ASSUME AudioInv, ToSet(queue') \cup {cur'} = ToSet(queue) \cup {cur}, bytes' = bytes
  PROVE  AudioInv'
BY DEF AudioInv, AudioIsGivenBack, Reserved

LEMMA AudioLess ==
  ASSUME AudioInv, NEW k, k \in ToSet(queue) \cup {cur}, bytes' = bytes - Weight(k),
         {x \in ToSet(queue') \cup {cur'} : x[2] \in Audio}
           = {x \in (ToSet(queue) \cup {cur}) \ {k} : x[2] \in Audio}
  PROVE  AudioInv' /\ bytes' \in Nat /\ bytes' <= bytes
<1>1. IsFiniteSet(Reserved) /\ bytes = Cardinality(Reserved) /\ bytes \in Nat
  BY FS_CardinalityType DEF AudioInv, AudioIsGivenBack, Reserved
<1>2. Reserved' = Reserved \ {k}
  BY DEF Reserved
<1>3. IsFiniteSet(Reserved \ {k}) /\ Cardinality(Reserved \ {k}) = IF k \in Reserved THEN bytes - 1 ELSE bytes
  BY <1>1, FS_RemoveElement
<1>4. Weight(k) = IF k \in Reserved THEN 1 ELSE 0
  BY DEF Weight, Reserved
<1>5. IsFiniteSet(Reserved') /\ bytes' = Cardinality(Reserved') /\ Cardinality(Reserved') \in Nat
  <2>1. Cardinality(Reserved') \in Nat /\ IsFiniteSet(Reserved')
    BY <1>2, <1>3, FS_CardinalityType
  <2>. QED
    BY <1>1, <1>2, <1>3, <1>4, <2>1
<1>6. AudioInv'
  BY <1>5 DEF AudioInv, AudioIsGivenBack, Reserved
<1>. QED
  BY <1>1, <1>4, <1>5, <1>6

LEMMA AudioMore ==
  ASSUME AudioInv, NEW k, k \notin ToSet(queue) \cup {cur}, bytes' = bytes + Weight(k),
         ToSet(queue') = ToSet(queue) \cup {k}, cur' = cur
  PROVE  AudioInv' /\ bytes' \in Nat
<1>1. IsFiniteSet(Reserved) /\ bytes = Cardinality(Reserved) /\ bytes \in Nat
  BY FS_CardinalityType DEF AudioInv, AudioIsGivenBack, Reserved
<1>2. CASE k[2] \in Audio
  <2>1. Reserved' = Reserved \cup {k} /\ k \notin Reserved /\ Weight(k) = 1
    BY <1>2 DEF Reserved, Weight
  <2>2. IsFiniteSet(Reserved') /\ Cardinality(Reserved') = bytes + 1
    BY <1>1, <2>1, FS_AddElement
  <2>. QED
    BY <1>1, <2>1, <2>2 DEF AudioInv, AudioIsGivenBack, Reserved
<1>3. CASE k[2] \notin Audio
  <2>1. Reserved' = Reserved /\ Weight(k) = 0
    BY <1>3 DEF Reserved, Weight
  <2>. QED
    BY <1>1, <2>1 DEF AudioInv, AudioIsGivenBack, Reserved
<1>. QED
  BY <1>2, <1>3

-------------------------------------------------------------------------------
(* How a caller's steps change what is said of its requests.               *)

Goes(c, to) == pc' = [pc EXCEPT ![c] = to]

(* Wherever c had left a request, it is still past it.                     *)
Advances(c, to) == \A op \in Ops : RoleOf(c, op) /\ pc[c] \in After(op) => to \in After(op)

LEMMA GoesFacts ==
  ASSUME TypeOK, NEW c \in Callers, NEW to, Goes(c, to)
  PROVE  pc'[c] = to /\ \A b \in Callers : b # c => pc'[b] = pc[b]
BY DEF TypeOK, Goes

(* A caller that does not wait for a request does not have one that it     *)
(* could make: where it is not past it, the request is nowhere.            *)
LEMMA Fresh ==
  ASSUME TypeOK, KeyInv, NEW c \in Callers, NEW op \in Ops, pc[c] # op, pc[c] \notin After(op)
  PROVE  /\ ~Held(<<c, op>>) /\ <<c, op>> \notin gone /\ reply[<<c, op>>] = "none"
<1>1. <<c, op>> \in Keys /\ <<c, op>>[1] = c /\ <<c, op>>[2] = op /\ KeyOK(<<c, op>>)
  BY KeyFacts DEF KeyInv
<1>2. ~Held(<<c, op>>)
  BY <1>1 DEF KeyOK
<1>. QED
  BY <1>1, <1>2 DEF KeyOK, KeyInv, Held

LEMMA NotAfterItself ==
  ASSUME NEW op \in Ops
  PROVE  op \notin After(op)
BY DEF Ops, After

(* A step between places that are not waits.                               *)
LEMMA KeyMove ==
  ASSUME TypeOK, KeyInv, NEW c \in Callers, NEW to, Goes(c, to), Advances(c, to),
         pc[c] \notin Ops, to \notin Ops,
         UNCHANGED <<queue, cur, phase, reply, gone>>, closed => closed'
  PROVE  KeyInv'
<1>1. ASSUME NEW k \in Keys
      PROVE  KeyOK(k)'
  <2>1. KeyOK(k) /\ k[1] \in Callers /\ k[2] \in Ops
    BY KeyFacts DEF KeyInv
  <2>2. Held(k)' = Held(k)
    BY DEF Held
  <2>3. CASE k[1] # c
    BY <2>1, <2>2, <2>3, GoesFacts DEF KeyOK
  <2>4. CASE k[1] = c
    <3>1. pc'[c] = to /\ pc[c] # k[2] /\ to # k[2]
      BY <2>1, GoesFacts
    <3>2. Held(k) => RoleOf(c, k[2]) /\ k \in gone /\ pc[c] \in After(k[2])
      BY <2>1, <2>4, <3>1 DEF KeyOK
    <3>3. Held(k) => to \in After(k[2])
      BY <2>1, <3>2 DEF Advances
    <3>. QED
      BY <2>1, <2>2, <2>4, <3>1, <3>2, <3>3 DEF KeyOK
  <2>. QED
    BY <2>3, <2>4
<1>. QED
  BY <1>1 DEF KeyInv, PhaseInv, Held

(* A caller makes a request and waits.                                     *)
LEMMA KeySubmit ==
  ASSUME TypeOK, KeyInv, NEW c \in Callers, NEW op \in Ops, Goes(c, op), Advances(c, op),
         RoleOf(c, op), pc[c] \notin Ops, pc[c] \notin After(op),
         queue' = Append(queue, <<c, op>>),
         UNCHANGED <<cur, phase, reply, gone, closed>>
  PROVE  /\ KeyInv' /\ <<c, op>> \notin ToSet(queue) \cup {cur}
         /\ ToSet(queue') = ToSet(queue) \cup {<<c, op>>} /\ IsInjective(queue')
<1> DEFINE n == <<c, op>>
<1>0. n \in Keys /\ n[1] = c /\ n[2] = op /\ op \notin After(op)
  BY KeyFacts, NotAfterItself
<1>1. ~Held(n) /\ n \notin gone /\ reply[n] = "none"
  BY Fresh
<1>2. /\ queue' \in Seq(Keys) /\ ToSet(queue') = ToSet(queue) \cup {n} /\ IsInjective(queue')
  BY <1>0, <1>1, Joins DEF KeyInv, TypeOK, Held
<1>3. ASSUME NEW k \in Keys
      PROVE  KeyOK(k)'
  <2>1. KeyOK(k) /\ k[1] \in Callers /\ k[2] \in Ops
    BY KeyFacts DEF KeyInv
  <2>2. CASE k = n
    BY <1>0, <1>1, <1>2, <2>2, GoesFacts DEF KeyOK, Held
  <2>3. CASE k # n
    <3>1. Held(k)' = Held(k) /\ (k \in ToSet(queue') <=> k \in ToSet(queue))
      BY <1>2, <2>3 DEF Held
    <3>2. CASE k[1] # c
      BY <2>1, <3>1, <3>2, GoesFacts DEF KeyOK
    <3>3. CASE k[1] = c
      <4>1. k[2] # op /\ pc'[c] = op /\ pc[c] # k[2]
        BY <2>1, <2>3, <3>3, KeyFacts, GoesFacts
      <4>2. Held(k) => RoleOf(c, k[2]) /\ k \in gone /\ pc[c] \in After(k[2])
        BY <2>1, <3>3, <4>1 DEF KeyOK
      <4>3. Held(k) => op \in After(k[2])
        BY <2>1, <4>2 DEF Advances
      <4>. QED
        BY <2>1, <3>1, <3>3, <4>1, <4>2, <4>3 DEF KeyOK
    <3>. QED
      BY <3>2, <3>3
  <2>. QED
    BY <2>2, <2>3
<1>4. cur' \notin ToSet(queue') /\ \A k \in gone' : Held(k)'
  BY <1>0, <1>1, <1>2 DEF KeyInv, Held
<1>. QED
  BY <1>1, <1>2, <1>3, <1>4 DEF KeyInv, PhaseInv, Held

(* A wait ends, whether its request is done or is left behind.             *)
LEMMA KeyLeave ==
  ASSUME TypeOK, KeyInv, NEW c \in Callers, NEW op \in Ops, NEW to, pc[c] = op, Goes(c, to),
         LeaveBehind(<<c, op>>), to \notin Ops, Advances(c, to),
         to \in After(op) \/ Done(<<c, op>>), closed => closed'
  PROVE  KeyInv'
<1> DEFINE n == <<c, op>>
<1>0. n \in Keys /\ n[1] = c /\ n[2] = op /\ KeyOK(n) /\ op \notin After(op)
  BY KeyFacts, NotAfterItself DEF KeyInv
<1>1. n \notin gone
  BY <1>0 DEF KeyOK, KeyInv
<1>2. UNCHANGED <<queue, cur, phase>> /\ reply \in [Keys -> {"none", "ok", "refused", "error"}]
  BY DEF LeaveBehind, TypeOK
<1>3. \A k : Held(k)' = Held(k)
  BY <1>2 DEF Held
<1>4. \A k \in Keys : k # n => reply'[k] = reply[k] /\ (k \in gone' <=> k \in gone)
  BY <1>0, <1>2 DEF LeaveBehind
<1>5. CASE Done(n)
  <2>1. reply'[n] = "none" /\ gone' = gone /\ ~Held(n)
    BY <1>0, <1>2, <1>5 DEF LeaveBehind, Done, KeyOK, Held
  <2>2. KeyOK(n)'
    BY <1>0, <1>3, <2>1, GoesFacts DEF KeyOK
  <2>3. PhaseInv'
    BY <1>2, <1>4, <1>5, <2>1 DEF KeyInv, PhaseInv, Done, TypeOK
  <2>. HIDE DEF n
  <2>4. ASSUME NEW k \in Keys, k # n
        PROVE  KeyOK(k)'
    <3>1. KeyOK(k) /\ k[1] \in Callers /\ k[2] \in Ops /\ (k[1] = c => k[2] # op)
      BY <2>4, KeyFacts DEF KeyInv, n
    <3>2. CASE k[1] # c
      BY <1>2, <1>3, <1>4, <2>4, <3>1, <3>2, GoesFacts DEF KeyOK
    <3>3. CASE k[1] = c
      <4>1. pc'[c] = to /\ to # k[2]
        BY <3>1, GoesFacts
      <4>2. Held(k) => to \in After(k[2]) /\ k \in gone /\ RoleOf(c, k[2])
        BY <3>1, <3>3 DEF KeyOK, Advances
      <4>. QED
        BY <1>2, <1>3, <1>4, <2>4, <3>1, <3>3, <4>1, <4>2 DEF KeyOK
    <3>. QED
      BY <3>2, <3>3
  <2>5. \A k \in gone' : Held(k)'
    BY <1>3, <2>1 DEF KeyInv
  <2>. QED
    BY <1>2, <2>2, <2>3, <2>4, <2>5 DEF KeyInv
<1>6. CASE ~Done(n)
  <2>1. reply' = reply /\ gone' = gone \cup {n} /\ Held(n) /\ (reply[n] # "none" => cur = n)
    BY <1>0, <1>6 DEF LeaveBehind, Done, KeyOK, Held
  <2>2. KeyOK(n)'
    BY <1>0, <1>2, <1>3, <1>6, <2>1, GoesFacts DEF KeyOK
  <2>3. PhaseInv'
    BY <1>2, <2>1 DEF KeyInv, PhaseInv
  <2>. HIDE DEF n
  <2>4. ASSUME NEW k \in Keys, k # n
        PROVE  KeyOK(k)'
    <3>1. KeyOK(k) /\ k[1] \in Callers /\ k[2] \in Ops /\ (k[1] = c => k[2] # op)
      BY <2>4, KeyFacts DEF KeyInv, n
    <3>2. CASE k[1] # c
      BY <1>2, <1>3, <1>4, <2>4, <3>1, <3>2, GoesFacts DEF KeyOK
    <3>3. CASE k[1] = c
      <4>1. pc'[c] = to /\ to # k[2]
        BY <3>1, GoesFacts
      <4>2. Held(k) => to \in After(k[2]) /\ k \in gone /\ RoleOf(c, k[2])
        BY <3>1, <3>3 DEF KeyOK, Advances
      <4>. QED
        BY <1>2, <1>3, <1>4, <2>4, <3>1, <3>3, <4>1, <4>2 DEF KeyOK
    <3>. QED
      BY <3>2, <3>3
  <2>5. \A k \in gone' : Held(k)'
    BY <1>3, <2>1 DEF KeyInv
  <2>. QED
    BY <1>2, <2>2, <2>3, <2>4, <2>5 DEF KeyInv
<1>. QED
  BY <1>5, <1>6

-------------------------------------------------------------------------------
(* The RPC thread.                                                         *)

(* What is known of a stream's requests.                                   *)
LEMMA StreamKeys ==
  ASSUME TypeOK, KeyInv, NEW s \in Streams, NEW op \in {"open", "feed", "close"}
  PROVE  /\ s \in Callers /\ op \in Ops /\ <<s, op>> \in Keys /\ <<s, op>> # NoKey
         /\ reply[<<s, op>>] \in {"none", "ok", "refused", "error"}
         /\ Held(<<s, op>>) /\ <<s, op>> \in gone => pc[s] \in After(op)
         /\ Held(<<s, op>>) /\ <<s, op>> \notin gone => pc[s] = op
         /\ reply[<<s, op>>] # "none" => /\ <<s, op>> \notin ToSet(queue)
                                         /\ cur = <<s, op>> \/ pc[s] = op
         /\ pc[s] = op => Held(<<s, op>>) \/ reply[<<s, op>>] # "none"
         /\ reply[<<s, op>>] = "error" => closed
         /\ <<s, op>> \in gone => Held(<<s, op>>)
<1>1. op \in Ops /\ s \in Callers
  BY KeyFacts DEF Ops
<1>2. <<s, op>> \in Keys /\ <<s, op>>[1] = s /\ <<s, op>>[2] = op /\ <<s, op>> # NoKey
  BY <1>1, KeyFacts
<1>3. KeyOK(<<s, op>>) /\ reply[<<s, op>>] \in {"none", "ok", "refused", "error"}
  BY <1>2 DEF KeyInv, TypeOK
<1>. QED
  BY <1>1, <1>2, <1>3 DEF KeyOK, KeyInv

(* A request that is with the client is over.                              *)
LEMMA KeySettle ==
  ASSUME TypeOK, KeyInv, NEW k \in Keys, NEW value, Held(k), Settle(k, value),
         k \notin gone => value \in {"ok", "refused", "error"}, value = "error" => closed',
         cur \in {k, NoKey}, cur' = NoKey, phase' = "idle", pc' = pc, closed => closed',
         queue' \in Seq(Keys), ToSet(queue') = ToSet(queue) \ {k}
  PROVE  KeyInv'
<1>0. KeyOK(k) /\ k[1] \in Callers /\ k[2] \in Ops /\ NoKey \notin Keys /\ k # NoKey
  BY KeyFacts DEF KeyInv
<1>1. reply'[k] = (IF k \in gone THEN "none" ELSE value) /\ gone' = gone \ {k}
      /\ \A x \in Keys : x # k => reply'[x] = reply[x]
  BY DEF Settle, TypeOK
<1>2. KeyOK(k)'
  <2>1. CASE k \in gone
    BY <1>0, <1>1, <2>1, NotAfterItself DEF KeyOK, Held
  <2>2. CASE k \notin gone
    BY <1>0, <1>1, <2>2 DEF KeyOK, Held
  <2>. QED
    BY <2>1, <2>2
<1>3. ASSUME NEW x \in Keys, x # k
      PROVE  KeyOK(x)'
  <2>1. KeyOK(x) /\ cur # x /\ cur' # x /\ reply'[x] = reply[x] /\ (x \in gone' <=> x \in gone)
        /\ (x \in ToSet(queue') <=> x \in ToSet(queue))
    BY <1>0, <1>1, <1>3 DEF KeyInv
  <2>. QED
    BY <2>1 DEF KeyOK, Held
<1>4. \A x \in gone' : Held(x)'
  BY <1>0, <1>1 DEF KeyInv, TypeOK, Held
<1>5. cur' \notin ToSet(queue')
  BY <1>0 DEF TypeOK
<1>. QED
  BY <1>2, <1>3, <1>4, <1>5 DEF KeyInv, PhaseInv

LEMMA TakeKeeps ==
  ASSUME IInv, Take
  PROVE  IInv'
<1> DEFINE k == Head(queue)
<1>0. TypeOK /\ KeyInv /\ AudioInv /\ StreamInv /\ cur = NoKey /\ NoKey \notin Keys /\ queue \in Seq(Keys)
      /\ phase = "idle" /\ IsInjective(queue)
  BY KeyFacts DEF IInv, TypeOK, Take, KeyInv
<1>1. /\ k \in Keys /\ k \in ToSet(queue) /\ queue' = Tail(queue)
      /\ queue' \in Seq(Keys) /\ ToSet(queue') = ToSet(queue) \ {k} /\ IsInjective(queue')
  BY <1>0, Leaves DEF Take
<1>2. UNCHANGED <<error, closed, open, pc, handle, fed, lock, active, evict, native, fatal, missed>>
  BY DEF Take, engineVars
<1>3. KeyOK(k) /\ k # NoKey /\ k[1] \in Callers /\ k[2] \in Ops /\ reply[k] = "none" /\ Held(k)
  BY <1>0, <1>1, KeyFacts DEF KeyInv, KeyOK, TypeOK, Held
<1>. HIDE DEF k
<1>4. PlaceInv' /\ LockInv' /\ StreamsPinTheEngine'
  BY <1>2 DEF IInv, PlaceInv, LockInv, LockOK, StreamsPinTheEngine
<1>5. CASE Skips(k)
  <2>1. Settle(k, "none") /\ UNCHANGED <<cur, phase, worker>> /\ k \in gone /\ k[2] \notin Cleanup
    BY <1>5 DEF Take, k, Skips
  <2>2. KeyInv'
    BY <1>0, <1>1, <1>2, <1>3, <2>1, KeySettle
  <2>3. AudioInv' /\ bytes' \in Nat /\ bytes' <= bytes
    <3>1. {x \in ToSet(queue') \cup {cur'} : x[2] \in Audio}
            = {x \in (ToSet(queue) \cup {cur}) \ {k} : x[2] \in Audio}
      BY <1>0, <1>1, <1>3, <2>1
    <3>. QED
      BY <1>0, <1>1, <2>1, <3>1, AudioLess DEF Settle
  <2>4. TypeOK'
    <3>1. reply' \in [Keys -> {"none", "ok", "refused", "error"}] /\ gone' \subseteq Keys /\ late' \subseteq Keys
      BY <1>0, <1>1, <2>1 DEF Settle, TypeOK
    <3>2. bytes' \in 0..MaxAudio
      BY <1>0, <2>3, NativeAsrAssumption DEF TypeOK
    <3>. QED
      BY <1>0, <1>1, <1>2, <2>1, <3>1, <3>2 DEF TypeOK
  <2>5. ASSUME NEW s \in Streams
        PROVE  StreamOK(s)'
    <3>0. <<s, "close">> # k
      BY <2>1 DEF Cleanup
    <3>1. StreamOK(s) /\ <<s, "close">> # k /\ <<s, "open">> \in Keys /\ <<s, "close">> \in Keys
      BY <1>0, <3>0, StreamKeys DEF StreamInv
    <3>2. reply'[<<s, "open">>] = (IF k = <<s, "open">> THEN "none" ELSE reply[<<s, "open">>])
          /\ reply'[<<s, "close">>] = reply[<<s, "close">>]
          /\ (<<s, "close">> \in gone' <=> <<s, "close">> \in gone)
          /\ (k # <<s, "open">> => (<<s, "open">> \in gone' <=> <<s, "open">> \in gone))
      BY <1>0, <2>1, <3>1 DEF Settle, TypeOK
    <3>. QED
      BY <1>0, <1>1, <1>2, <2>1, <3>1, <3>2 DEF StreamOK, Held, IsCared
  <2>6. StreamInv' /\ FeedInv'
    BY <1>0, <1>2, <2>1, <2>5 DEF StreamInv, FeedInv
  <2>. QED
    BY <1>4, <2>2, <2>3, <2>4, <2>6 DEF IInv
<1>6. CASE ~Skips(k)
  <2>1. /\ cur' = k /\ phase' = "sent" /\ worker' = (IF worker = "dead" THEN "dead" ELSE "busy")
        /\ UNCHANGED <<bytes, reply, gone, late>>
    BY <1>6 DEF Take, k
  <2>2. KeyInv'
    <3>1. \A x \in Keys : Held(x)' = Held(x) /\ (x \in ToSet(queue') => x \in ToSet(queue)) /\ x # cur
      BY <1>0, <1>1, <1>3, <2>1 DEF Held
    <3>2. \A x \in Keys : KeyOK(x)'
      BY <1>0, <1>2, <2>1, <3>1 DEF KeyInv, KeyOK
    <3>3. \A x \in gone' : Held(x)'
      BY <1>0, <2>1, <3>1 DEF KeyInv, TypeOK
    <3>. QED
      BY <1>1, <1>3, <2>1, <3>2, <3>3 DEF KeyInv, PhaseInv
  <2>3. AudioInv'
    <3>1. {x \in ToSet(queue') \cup {cur'} : x[2] \in Audio} = {x \in ToSet(queue) \cup {cur} : x[2] \in Audio}
      BY <1>0, <1>1, <2>1, KeyFacts
    <3>. QED
      BY <1>0, <2>1, <3>1 DEF AudioInv, AudioIsGivenBack, Reserved
  <2>4. TypeOK'
    BY <1>0, <1>1, <1>2, <1>3, <2>1 DEF TypeOK
  <2>5. ASSUME NEW s \in Streams
        PROVE  StreamOK(s)'
    <3>1. StreamOK(s) /\ <<s, "open">> \in Keys /\ <<s, "close">> \in Keys
      BY <1>0, StreamKeys DEF StreamInv
    <3>. QED
      BY <1>0, <1>1, <1>2, <2>1, <3>1 DEF StreamOK, Held, IsCared
  <2>6. StreamInv'
    BY <1>0, <1>2, <2>1, <2>5 DEF StreamInv
  <2>7. ASSUME worker # "dead", k[2] = "feed"
        PROVE  k[1] \in open
    <3>1. k \notin gone /\ pc[k[1]] = "feed" /\ RoleOf(k[1], "feed")
      BY <1>3, <1>6, <2>7 DEF Skips, Cleanup, KeyOK
    <3>2. k[1] \in Streams
      BY <3>1 DEF RoleOf
    <3>. QED
      BY <1>0, <2>7, <3>1, <3>2 DEF StreamInv, StreamOK
  <2>8. FeedInv'
    BY <1>2, <2>1, <2>7 DEF FeedInv
  <2>. QED
    BY <1>4, <2>2, <2>3, <2>4, <2>6, <2>8 DEF IInv
<1>. QED
  BY <1>5, <1>6

(* The worker answers: what it has open and what the reply says agree.     *)
LEMMA AnswersKeeps ==
  ASSUME IInv, Answers
  PROVE  IInv'
<1>0. TypeOK /\ KeyInv /\ AudioInv /\ StreamInv /\ phase = "sent" /\ worker = "busy"
      /\ cur \in Keys /\ cur # NoKey /\ reply[cur] = "none" /\ KeyOK(cur)
      /\ cur[1] \in Callers /\ cur[2] \in Ops /\ cur = <<cur[1], cur[2]>> /\ cur \notin ToSet(queue)
  <2>1. TypeOK /\ KeyInv /\ AudioInv /\ StreamInv /\ phase = "sent" /\ worker = "busy"
    BY DEF IInv, Answers
  <2>2. cur \in Keys /\ cur # NoKey
    BY <2>1, KeyFacts DEF TypeOK
  <2>. QED
    BY <2>1, <2>2, KeyFacts DEF KeyInv, PhaseInv
<1>1. PICK value \in {"ok", "refused"} :
        /\ Dispatch(cur, value)
        /\ reply' = [reply EXCEPT ![cur] = value]
  BY DEF Answers
<1>2. UNCHANGED <<queue, bytes, cur, gone, late, error, closed, pc, handle, fed,
                  lock, active, evict, native, fatal, missed>>
      /\ worker' = (IF cur[2] = "shutdown" THEN "dead" ELSE "idle")
      /\ phase' = (IF cur[2] = "open" THEN "check" ELSE "signal")
  BY DEF Answers, engineVars
<1>3. PlaceInv' /\ LockInv' /\ StreamsPinTheEngine' /\ AudioInv'
  BY <1>0, <1>2 DEF IInv, PlaceInv, LockInv, LockOK, StreamsPinTheEngine, AudioInv, AudioIsGivenBack, Reserved
<1>4. reply'[cur] = value /\ \A k \in Keys : k # cur => reply'[k] = reply[k]
  BY <1>0, <1>1 DEF TypeOK
<1>5. Held(cur) /\ RoleOf(cur[1], cur[2])
  BY <1>0 DEF Held, KeyOK
<1>6. open' \subseteq Streams /\ TypeOK'
  <2>1. open' \subseteq Streams
    <3>1. CASE cur[2] = "open"
      BY <1>0, <1>1, <1>5, <3>1 DEF Dispatch, RoleOf, TypeOK
    <3>. QED
      BY <1>0, <1>1, <3>1 DEF Dispatch, TypeOK, Ops
  <2>2. reply' \in [Keys -> {"none", "ok", "refused", "error"}]
    BY <1>0, <1>1 DEF TypeOK
  <2>. QED
    BY <1>0, <1>2, <2>1, <2>2 DEF TypeOK
<1>7. KeyInv'
  <2>1. ASSUME NEW k \in Keys
        PROVE  KeyOK(k)'
    <3>1. KeyOK(k) /\ Held(k)' = Held(k) /\ (k # cur => reply'[k] = reply[k])
      BY <1>0, <1>2, <1>4 DEF KeyInv, Held
    <3>. QED
      BY <1>0, <1>1, <1>2, <1>4, <1>5, <3>1 DEF KeyOK
  <2>2. \A k \in gone' : Held(k)'
    BY <1>0, <1>2 DEF KeyInv, Held
  <2>. QED
    BY <1>0, <1>1, <1>2, <1>4, <2>1, <2>2 DEF KeyInv, PhaseInv
<1>8. ASSUME NEW s \in Streams
      PROVE  StreamOK(s)'
  <2> DEFINE o == <<s, "open">>
             x == <<s, "close">>
  <2>0. StreamOK(s) /\ o \in Keys /\ x \in Keys /\ o # x
    BY <1>0, StreamKeys DEF StreamInv
  <2>1. CASE cur[2] = "open"
    <3>1. /\ value = "ok" => open = {} /\ open' = {cur[1]}
          /\ value = "refused" => open' = open
          /\ cur # x /\ worker' = "idle" /\ phase' = "check" /\ (cur = o <=> cur[1] = s)
      BY <1>0, <1>1, <1>2, <2>1 DEF Dispatch
    <3>2. CASE cur = o
      <4>1. pc[s] \notin {"idle", "ready", "feed", "closing", "close"} /\ ~Held(x) /\ x \notin gone
            /\ reply[x] = "none" /\ s \notin open /\ s \notin handle
        <5>1. (o \in gone => pc[s] \in {"release", "evict", "shutdown", "done"}) /\ (o \notin gone => pc[s] = "open")
          BY <1>0, <1>5, <3>2, StreamKeys DEF After
        <5>2. ~Held(x) /\ s \notin open /\ s \notin handle
          BY <1>0, <1>5, <2>0, <3>2 DEF StreamOK
        <5>3. pc[s] # "close" /\ cur # x
          BY <3>1, <5>1
        <5>. QED
          BY <1>0, <5>1, <5>2, <5>3, StreamKeys
      <4>. QED
        BY <1>0, <1>1, <1>2, <1>4, <2>0, <3>1, <3>2, <4>1 DEF StreamOK, Held, IsCared
    <3>3. CASE cur # o
      <4>1. reply'[o] = reply[o] /\ reply'[x] = reply[x]
        BY <1>4, <2>0, <3>1, <3>3
      <4>2. value = "ok" => s \notin open'
        BY <3>1, <3>3
      <4>. QED
        BY <1>0, <1>1, <1>2, <2>0, <3>1, <3>3, <4>1, <4>2 DEF StreamOK, Held, IsCared
    <3>. QED
      BY <3>2, <3>3
  <2>2. CASE cur[2] = "close"
    <3>1. value = "ok" /\ open' = open \ {cur[1]} /\ cur # o /\ (cur = x <=> cur[1] = s)
          /\ worker' = "idle" /\ phase' = "signal"
      BY <1>0, <1>1, <1>2, <2>2 DEF Dispatch
    <3>2. CASE cur = x
      <4>1. reply[o] = "none" /\ pc[s] # "open" /\ (s \in handle => pc[s] = "close")
        <5>1. (x \in gone => pc[s] \in {"release", "evict", "shutdown", "done"}) /\ (x \notin gone => pc[s] = "close")
          BY <1>0, <1>5, <3>2, StreamKeys DEF After
        <5>2. x \in gone => s \notin handle
          BY <2>0 DEF StreamOK
        <5>. QED
          BY <1>0, <3>1, <5>1, <5>2, StreamKeys
      <4>. QED
        BY <1>0, <1>2, <1>4, <2>0, <3>1, <3>2, <4>1 DEF StreamOK, Held, IsCared
    <3>3. CASE cur # x
      <4>1. reply'[o] = reply[o] /\ reply'[x] = reply[x] /\ (s \in open' <=> s \in open)
        BY <1>4, <2>0, <3>1, <3>3
      <4>. QED
        BY <1>0, <1>2, <2>0, <3>1, <3>3, <4>1 DEF StreamOK, Held, IsCared
    <3>. QED
      BY <3>2, <3>3
  <2>3. CASE cur[2] \in {"feed", "recognize", "shutdown"}
    <3>1. cur # o /\ cur # x
      BY <2>3
    <3>2. reply'[o] = reply[o] /\ reply'[x] = reply[x] /\ phase' = "signal"
      BY <1>2, <1>4, <2>0, <2>3, <3>1
    <3>3. CASE cur[2] = "shutdown"
      <4>1. open' = {} /\ worker' = "dead"
        BY <1>1, <1>2, <3>3 DEF Dispatch
      <4>. QED
        BY <1>2, <2>0, <3>1, <3>2, <4>1 DEF StreamOK, Held, IsCared
    <3>4. CASE cur[2] # "shutdown"
      <4>1. open' = open /\ worker' = "idle"
        BY <1>1, <1>2, <2>3, <3>4 DEF Dispatch
      <4>. QED
        BY <1>0, <1>2, <2>0, <3>1, <3>2, <4>1 DEF StreamOK, Held, IsCared
    <3>. QED
      BY <3>3, <3>4
  <2>. QED
    BY <1>0, <2>1, <2>2, <2>3 DEF Ops
<1>9. StreamInv' /\ FeedInv'
  <2>1. worker' = "dead" => open' = {}
    BY <1>1, <1>2 DEF Dispatch
  <2>. QED
    BY <1>2, <1>8, <2>1 DEF StreamInv, FeedInv
<1>. QED
  BY <1>3, <1>6, <1>7, <1>9 DEF IInv

(* The stream that nobody waits for is closed.                             *)
LEMMA LooksForOrphanKeeps ==
  ASSUME IInv, LooksForOrphan
  PROVE  IInv'
<1>0. TypeOK /\ KeyInv /\ AudioInv /\ StreamInv /\ phase = "check" /\ cur[2] = "open"
      /\ reply[cur] \in {"ok", "refused"} /\ cur \in Keys
  BY KeyFacts DEF IInv, LooksForOrphan, KeyInv, PhaseInv, TypeOK
<1>1. /\ UNCHANGED <<queue, bytes, cur, reply, gone, late, error, closed, open, pc, handle, fed,
                     lock, active, evict, native, fatal, missed>>
      /\ IF cur \in gone /\ reply[cur] = "ok"
         THEN phase' = "orphan" /\ worker' = (IF worker = "dead" THEN "dead" ELSE "busy")
         ELSE phase' = "signal" /\ worker' = worker
  BY DEF LooksForOrphan, IsOrphan, engineVars
<1>2. PlaceInv' /\ LockInv' /\ StreamsPinTheEngine' /\ AudioInv'
  BY <1>0, <1>1 DEF IInv, PlaceInv, LockInv, LockOK, StreamsPinTheEngine, AudioInv, AudioIsGivenBack, Reserved
<1>3. TypeOK'
  BY <1>0, <1>1 DEF TypeOK
<1>4. KeyInv'
  BY <1>0, <1>1 DEF KeyInv, KeyOK, PhaseInv, Held
<1>5. ASSUME NEW s \in Streams
      PROVE  StreamOK(s)'
  <2>1. StreamOK(s) /\ (cur = <<s, "open">> => cur[1] = s)
    BY <1>0 DEF StreamInv
  <2>2. ASSUME cur = <<s, "open">>, <<s, "open">> \notin gone
        PROVE  pc[s] = "open"
    <3>1. Held(<<s, "open">>)
      BY <2>2 DEF Held
    <3>. QED
      BY <1>0, <2>2, <3>1, StreamKeys
  <2>. QED
    BY <1>0, <1>1, <2>1, <2>2 DEF StreamOK, Held, IsCared
<1>6. StreamInv' /\ FeedInv'
  BY <1>0, <1>1, <1>5 DEF StreamInv, FeedInv
<1>. QED
  BY <1>2, <1>3, <1>4, <1>6 DEF IInv

LEMMA OrphanClosesKeeps ==
  ASSUME IInv, OrphanCloses
  PROVE  IInv'
<1>0. TypeOK /\ KeyInv /\ AudioInv /\ StreamInv /\ phase = "orphan" /\ worker = "busy" /\ cur[2] = "open"
      /\ reply[cur] \in {"ok", "refused"} /\ cur \in Keys /\ cur \in gone /\ cur = <<cur[1], cur[2]>>
  BY KeyFacts DEF IInv, OrphanCloses, KeyInv, PhaseInv, TypeOK
<1>1. /\ UNCHANGED <<queue, bytes, cur, reply, gone, late, error, closed, pc, handle, fed,
                     lock, active, evict, native, fatal, missed>>
      /\ open' = open \ {cur[1]} /\ worker' = "idle" /\ phase' = "signal"
  BY DEF OrphanCloses, engineVars
<1>2. PlaceInv' /\ LockInv' /\ StreamsPinTheEngine' /\ AudioInv'
  BY <1>0, <1>1 DEF IInv, PlaceInv, LockInv, LockOK, StreamsPinTheEngine, AudioInv, AudioIsGivenBack, Reserved
<1>3. TypeOK'
  BY <1>0, <1>1 DEF TypeOK
<1>4. KeyInv'
  BY <1>0, <1>1 DEF KeyInv, KeyOK, PhaseInv, Held
<1>5. ASSUME NEW s \in Streams
      PROVE  StreamOK(s)'
  <2>1. StreamOK(s) /\ (cur = <<s, "open">> <=> cur[1] = s)
    BY <1>0 DEF StreamInv
  <2>2. cur = <<s, "open">> => reply[<<s, "open">>] # "none" /\ s \notin handle
    BY <1>0, <2>1 DEF StreamOK, Held
  <2>. QED
    BY <1>0, <1>1, <2>1, <2>2 DEF StreamOK, Held, IsCared
<1>6. StreamInv' /\ FeedInv'
  BY <1>0, <1>1, <1>5 DEF StreamInv, FeedInv
<1>. QED
  BY <1>2, <1>3, <1>4, <1>6 DEF IInv

(* The request in flight is over: its caller finds the reply, or is gone.  *)
LEMMA SignalsKeeps ==
  ASSUME IInv, Signals
  PROVE  IInv'
<1> DEFINE k == cur
<1>0. TypeOK /\ KeyInv /\ AudioInv /\ StreamInv /\ phase = "signal" /\ k \in Keys /\ NoKey \notin Keys
      /\ reply[k] \in {"ok", "refused"} /\ k \notin ToSet(queue) /\ queue \in Seq(Keys)
  BY KeyFacts DEF IInv, Signals, KeyInv, PhaseInv, TypeOK
<1>1. /\ Settle(k, reply[k]) /\ cur' = NoKey /\ phase' = "idle"
      /\ UNCHANGED <<queue, error, closed, worker, open, pc, handle, fed,
                     lock, active, evict, native, fatal, missed>>
  BY DEF Signals, engineVars, workerVars
<1>2. PlaceInv' /\ LockInv' /\ StreamsPinTheEngine'
  BY <1>0, <1>1 DEF IInv, PlaceInv, LockInv, LockOK, StreamsPinTheEngine
<1>3. AudioInv' /\ bytes' \in Nat /\ bytes' <= bytes
  <2>1. {x \in ToSet(queue') \cup {cur'} : x[2] \in Audio}
          = {x \in (ToSet(queue) \cup {cur}) \ {k} : x[2] \in Audio}
    BY <1>0, <1>1, KeyFacts
  <2>. QED
    BY <1>0, <1>1, <2>1, AudioLess DEF Settle
<1>4. KeyInv'
  BY <1>0, <1>1, KeySettle DEF Held
<1>5. TypeOK'
  <2>1. reply' \in [Keys -> {"none", "ok", "refused", "error"}] /\ gone' \subseteq Keys /\ late' \subseteq Keys
    BY <1>0, <1>1 DEF Settle, TypeOK
  <2>2. bytes' \in 0..MaxAudio
    BY <1>0, <1>3, NativeAsrAssumption DEF TypeOK
  <2>. QED
    BY <1>0, <1>1, <2>1, <2>2 DEF TypeOK
<1>6. ASSUME NEW s \in Streams
      PROVE  StreamOK(s)'
  <2> DEFINE o == <<s, "open">>
             x == <<s, "close">>
  <2>1. StreamOK(s) /\ o \in Keys /\ x \in Keys /\ o # x
    BY <1>0, StreamKeys DEF StreamInv
  <2>2. /\ reply'[k] = (IF k \in gone THEN "none" ELSE reply[k]) /\ gone' = gone \ {k}
        /\ \A y \in Keys : y # k => reply'[y] = reply[y]
    BY <1>0, <1>1 DEF Settle, TypeOK
  <2>3. k = x /\ x \in gone => s \notin handle
    BY <2>1 DEF StreamOK
  <2>. QED
    BY <1>0, <1>1, <2>1, <2>2, <2>3 DEF StreamOK, Held, IsCared
<1>7. StreamInv' /\ FeedInv'
  BY <1>0, <1>1, <1>6 DEF StreamInv, FeedInv
<1>. QED
  BY <1>2, <1>3, <1>4, <1>5, <1>7 DEF IInv

LEMMA PipeBreaksKeeps ==
  ASSUME IInv, PipeBreaks
  PROVE  IInv'
<1> DEFINE k == cur
<1>0. TypeOK /\ KeyInv /\ AudioInv /\ StreamInv /\ phase \in {"sent", "orphan"} /\ k \in Keys /\ NoKey \notin Keys
      /\ k \notin ToSet(queue) /\ queue \in Seq(Keys)
  BY KeyFacts DEF IInv, PipeBreaks, KeyInv, TypeOK
<1>1. /\ Settle(k, "error") /\ cur' = NoKey /\ phase' = "idle"
      /\ error' = TRUE /\ closed' = TRUE /\ worker' = "dead" /\ open' = {}
      /\ UNCHANGED <<queue, pc, handle, fed, lock, active, evict, native, fatal, missed>>
  BY DEF PipeBreaks, Poison, engineVars
<1>2. PlaceInv' /\ LockInv' /\ StreamsPinTheEngine'
  BY <1>0, <1>1 DEF IInv, PlaceInv, LockInv, LockOK, StreamsPinTheEngine
<1>3. AudioInv' /\ bytes' \in Nat /\ bytes' <= bytes
  <2>1. {x \in ToSet(queue') \cup {cur'} : x[2] \in Audio}
          = {x \in (ToSet(queue) \cup {cur}) \ {k} : x[2] \in Audio}
    BY <1>0, <1>1, KeyFacts
  <2>. QED
    BY <1>0, <1>1, <2>1, AudioLess DEF Settle
<1>4. KeyInv'
  BY <1>0, <1>1, KeySettle DEF Held
<1>5. TypeOK'
  <2>1. reply' \in [Keys -> {"none", "ok", "refused", "error"}] /\ gone' \subseteq Keys /\ late' \subseteq Keys
    BY <1>0, <1>1 DEF Settle, TypeOK
  <2>2. bytes' \in 0..MaxAudio
    BY <1>0, <1>3, NativeAsrAssumption DEF TypeOK
  <2>. QED
    BY <1>0, <1>1, <2>1, <2>2 DEF TypeOK
<1>6. ASSUME NEW s \in Streams
      PROVE  StreamOK(s)'
  <2> DEFINE o == <<s, "open">>
             x == <<s, "close">>
  <2>1. StreamOK(s) /\ o \in Keys /\ x \in Keys /\ o # x
    BY <1>0, StreamKeys DEF StreamInv
  <2>2. /\ reply'[k] = (IF k \in gone THEN "none" ELSE "error") /\ gone' = gone \ {k}
        /\ \A y \in Keys : y # k => reply'[y] = reply[y]
    BY <1>0, <1>1 DEF Settle, TypeOK
  <2>. QED
    BY <1>0, <1>1, <2>1, <2>2 DEF StreamOK, Held, IsCared
<1>7. StreamInv' /\ FeedInv'
  BY <1>0, <1>1, <1>6 DEF StreamInv, FeedInv
<1>. QED
  BY <1>2, <1>3, <1>4, <1>5, <1>7 DEF IInv

(* A closed client has no request left.                                    *)
LEMMA DrainsKeeps ==
  ASSUME IInv, Drains
  PROVE  IInv'
<1>0. TypeOK /\ KeyInv /\ AudioInv /\ StreamInv /\ phase = "idle" /\ closed /\ cur = NoKey
      /\ NoKey \notin Keys
  BY KeyFacts DEF IInv, Drains, KeyInv, TypeOK
<1>1. /\ phase' = "exit" /\ queue' = <<>> /\ bytes' = 0 /\ gone' = gone \ ToSet(queue)
      /\ reply' = [k \in Keys |-> IF k \in ToSet(queue) \ gone THEN "error" ELSE reply[k]]
      /\ UNCHANGED <<cur, late, error, closed, worker, open, pc, handle, fed,
                     lock, active, evict, native, fatal, missed>>
  BY DEF Drains, engineVars, workerVars
<1>2. ToSet(queue') = {} /\ IsInjective(queue') /\ queue' \in Seq(Keys)
  BY <1>1, EmptyQueue, EmptySeq
<1>3. PlaceInv' /\ LockInv' /\ StreamsPinTheEngine'
  BY <1>0, <1>1 DEF IInv, PlaceInv, LockInv, LockOK, StreamsPinTheEngine
<1>4. AudioInv'
  <2>1. Reserved' = {}
    BY <1>0, <1>1, <1>2, KeyFacts DEF Reserved
  <2>. QED
    BY <1>1, <2>1, FS_EmptySet DEF AudioInv, AudioIsGivenBack, Reserved
<1>5. TypeOK'
  <2>1. reply' \in [Keys -> {"none", "ok", "refused", "error"}]
    BY <1>0, <1>1 DEF TypeOK
  <2>2. bytes' \in 0..MaxAudio
    BY <1>1, NativeAsrAssumption
  <2>. QED
    BY <1>0, <1>1, <1>2, <2>1, <2>2 DEF TypeOK
<1>6. KeyInv'
  <2>1. ASSUME NEW k \in Keys
        PROVE  KeyOK(k)'
    <3>1. KeyOK(k) /\ k # cur /\ reply'[k] = (IF k \in ToSet(queue) \ gone THEN "error" ELSE reply[k])
          /\ k[2] \notin After(k[2])
      BY <1>0, <1>1, KeyFacts, NotAfterItself DEF KeyInv
    <3>. QED
      BY <1>0, <1>1, <1>2, <3>1 DEF KeyOK, Held
  <2>2. gone' = {}
    BY <1>0, <1>1 DEF KeyInv, TypeOK, Held
  <2>. QED
    BY <1>0, <1>1, <1>2, <2>1, <2>2 DEF KeyInv, PhaseInv
<1>7. ASSUME NEW s \in Streams
      PROVE  StreamOK(s)'
  <2> DEFINE o == <<s, "open">>
             x == <<s, "close">>
  <2>1. StreamOK(s) /\ o \in Keys /\ x \in Keys
    BY <1>0, StreamKeys DEF StreamInv
  <2>2. /\ reply'[o] = (IF o \in ToSet(queue) \ gone THEN "error" ELSE reply[o])
        /\ reply'[x] = (IF x \in ToSet(queue) \ gone THEN "error" ELSE reply[x])
    BY <1>1, <2>1
  <2>3. o \in gone => reply[o] = "none"
    BY <1>0, <2>1, StreamKeys DEF Held
  <2>. QED
    BY <1>0, <1>1, <1>2, <2>1, <2>2, <2>3 DEF StreamOK, Held, IsCared
<1>8. StreamInv' /\ FeedInv'
  BY <1>0, <1>1, <1>7 DEF StreamInv, FeedInv
<1>. QED
  BY <1>3, <1>4, <1>5, <1>6, <1>8 DEF IInv

(* The worker hangs or dies, or is too long at work.                       *)
LEMMA WorkerFailsKeeps ==
  ASSUME IInv, WorkerFails \/ TakesTooLong
  PROVE  IInv'
<1>0. TypeOK /\ KeyInv /\ AudioInv /\ StreamInv /\ FeedInv
  BY DEF IInv
<1>1. /\ UNCHANGED <<queue, bytes, cur, phase, reply, gone, error, closed, pc, handle, fed,
                     lock, active, evict, native, fatal, missed>>
      /\ \/ worker' = "hung" /\ open' = open
         \/ worker' = "dead" /\ open' = {}
         \/ worker' = worker /\ open' = open
      /\ late' \subseteq Keys
      /\ worker = "dead" => worker' = "dead"
  <2>1. CASE WorkerFails
    BY <1>0, <2>1 DEF WorkerFails, clientVars, engineVars, TypeOK
  <2>2. CASE TakesTooLong
    <3>1. cur \in Keys
      BY <1>0, <2>2 DEF TakesTooLong, TypeOK
    <3>. QED
      BY <1>0, <2>2, <3>1 DEF TakesTooLong, workerVars, engineVars, TypeOK
  <2>. QED
    BY <2>1, <2>2
<1>2. PlaceInv' /\ LockInv' /\ StreamsPinTheEngine' /\ AudioInv'
  BY <1>0, <1>1 DEF IInv, PlaceInv, LockInv, LockOK, StreamsPinTheEngine, AudioInv, AudioIsGivenBack, Reserved
<1>3. TypeOK'
  BY <1>0, <1>1 DEF TypeOK
<1>4. KeyInv'
  BY <1>0, <1>1 DEF KeyInv, KeyOK, PhaseInv, Held
<1>5. ASSUME NEW s \in Streams
      PROVE  StreamOK(s)'
  BY <1>0, <1>1, <1>5 DEF StreamInv, StreamOK, Held, IsCared
<1>6. StreamInv' /\ FeedInv'
  BY <1>0, <1>1, <1>5 DEF StreamInv, FeedInv
<1>. QED
  BY <1>2, <1>3, <1>4, <1>6 DEF IInv

-------------------------------------------------------------------------------
(* The callers.                                                            *)

(* The types of the client's variables, of the engine's and of the places. *)
ClientOK ==
  /\ ToSet(queue) \subseteq Keys /\ IsInjective(queue) /\ bytes \in 0..MaxAudio
  /\ cur \in Keys \cup {NoKey} /\ (cur = NoKey <=> phase \in {"idle", "exit"})
  /\ phase \in {"idle", "sent", "check", "orphan", "signal", "exit"}
  /\ reply \in [Keys -> {"none", "ok", "refused", "error"}]
  /\ gone \subseteq Keys /\ late \subseteq Keys
  /\ error \in BOOLEAN /\ closed \in BOOLEAN /\ (error => closed)

EngineOK ==
  /\ worker \in {"idle", "busy", "hung", "dead"} /\ open \subseteq Streams
  /\ handle \subseteq Streams /\ fed \in [Streams -> 0..MaxFeeds]
  /\ lock \in Callers \cup {Nobody} /\ active \subseteq Streams
  /\ evict \in BOOLEAN /\ native \in BOOLEAN /\ fatal \in BOOLEAN /\ missed \subseteq Streams

PcOK ==
  pc \in [Callers -> {"idle", "lock", "open", "ready", "feed", "closing", "close",
                      "recognize", "release", "evict", "shutdown", "done"}]

(* The worker is as it was, or lost with its streams.                      *)
WorkerSameOrLost ==
  \/ worker' = worker /\ open' = open
  \/ worker' = "dead" /\ open' = {} /\ closed'

(* A step that does not touch the stream's requests, nor where it is as    *)
(* far as they tell.                                                       *)
LEMMA StreamFrame ==
  ASSUME NEW s \in Streams, StreamOK(s), UNCHANGED <<cur, phase>>, WorkerSameOrLost, closed => closed',
         \A op \in {"open", "close"} : /\ <<s, op>> \in ToSet(queue') <=> <<s, op>> \in ToSet(queue)
                                       /\ <<s, op>> \in gone' <=> <<s, op>> \in gone
                                       /\ reply'[<<s, op>>] = reply[<<s, op>>],
         s \in handle' <=> s \in handle, s \in missed => s \in missed',
         \/ pc'[s] = pc[s]
         \/ /\ pc[s] \notin {"open", "close"} /\ pc'[s] \notin {"idle", "open"}
            /\ pc'[s] \in {"ready", "feed", "closing", "close"} => s \in handle
  PROVE  StreamOK(s)'
<1> DEFINE o == <<s, "open">>
           x == <<s, "close">>
<1>1. /\ o \in ToSet(queue') <=> o \in ToSet(queue)
      /\ o \in gone' <=> o \in gone
      /\ x \in ToSet(queue') <=> x \in ToSet(queue)
      /\ x \in gone' <=> x \in gone
      /\ reply'[o] = reply[o] /\ reply'[x] = reply[x]
  OBVIOUS
<1>. HIDE DEF o, x
<1>2. CASE worker' = worker /\ open' = open
  BY <1>1, <1>2 DEF StreamOK, Held, IsCared, o, x
<1>3. CASE worker' = "dead" /\ open' = {}
  BY <1>1, <1>3 DEF StreamOK, Held, IsCared, o, x
<1>. QED
  BY <1>2, <1>3 DEF WorkerSameOrLost

LEMMA WorkerFrame ==
  ASSUME StreamInv, FeedInv, UNCHANGED <<cur, phase>>, WorkerSameOrLost,
         \A s \in Streams : StreamOK(s)'
  PROVE  StreamInv' /\ FeedInv'
BY DEF WorkerSameOrLost, StreamInv, FeedInv

(* Who has the lock is alone; a step that takes it finds it free.          *)
LEMMA LockMove ==
  ASSUME TypeOK, LockInv, NEW c \in Callers, NEW to, Goes(c, to),
         lock' = lock \/ lock \in {c, Nobody},
         active' \subseteq active \/ lock = Nobody,
         to \in {"open", "recognize", "shutdown"} => lock' = c,
         to = "shutdown" => active' = {}
  PROVE  LockInv'
<1>1. ASSUME NEW b \in Callers
      PROVE  LockOK(b)'
  <2>1. CASE b = c
    BY <2>1, GoesFacts DEF LockOK
  <2>2. CASE b # c
    <3>1. LockOK(b) /\ pc'[b] = pc[b] /\ b # Nobody
      BY <2>2, GoesFacts, KeyFacts DEF LockInv
    <3>. QED
      BY <2>2, <3>1 DEF LockOK
  <2>. QED
    BY <2>1, <2>2
<1>. QED
  BY <1>1 DEF LockInv

(* A close that was put off stays somebody's.                              *)
LEMMA PinMove ==
  ASSUME TypeOK, StreamsPinTheEngine, NEW c \in Callers, NEW to, Goes(c, to),
         active' # {} => native',
         evict' /\ native' /\ active' = {} =>
           /\ evict /\ native
           /\ active # {} \/ pc[c] \in {"evict", "shutdown"} => to \in {"evict", "shutdown"}
  PROVE  StreamsPinTheEngine'
<1>1. ASSUME evict', native', active' = {}
      PROVE  \E b \in Callers : pc'[b] \in {"evict", "shutdown"}
  <2>1. CASE active # {} \/ pc[c] \in {"evict", "shutdown"}
    BY <1>1, <2>1, GoesFacts
  <2>2. CASE active = {} /\ pc[c] \notin {"evict", "shutdown"}
    <3>1. PICK b \in Callers : pc[b] \in {"evict", "shutdown"}
      BY <1>1, <2>2 DEF StreamsPinTheEngine
    <3>. QED
      BY <2>2, <3>1, GoesFacts
  <2>. QED
    BY <2>1, <2>2
<1>. QED
  BY <1>1 DEF StreamsPinTheEngine

LEMMA PlaceMove ==
  ASSUME TypeOK, PlaceInv, NEW c \in Callers, NEW to \in PlacesOf(c), Goes(c, to)
  PROVE  PlaceInv' /\ PcOK'
<1>1. ASSUME NEW b \in Callers
      PROVE  pc'[b] \in PlacesOf(b)
  BY GoesFacts DEF PlaceInv
<1>2. to \in {"idle", "lock", "open", "ready", "feed", "closing", "close",
              "recognize", "release", "evict", "shutdown", "done"}
  BY DEF PlacesOf
<1>. QED
  BY <1>1, <1>2 DEF PlaceInv, PcOK, Goes, TypeOK, PlacesOf

(* Neither the lock nor the engine is concerned.                           *)
LEMMA PlainMove ==
  ASSUME IInv, NEW c \in Callers, NEW to, Goes(c, to),
         UNCHANGED <<lock, active, evict, native>>, pc[c] \notin {"evict", "shutdown"},
         to \notin {"open", "recognize", "shutdown"}
  PROVE  LockInv' /\ StreamsPinTheEngine'
<1>1. LockInv'
  BY LockMove DEF IInv
<1>2. StreamsPinTheEngine'
  BY PinMove DEF IInv, StreamsPinTheEngine
<1>. QED
  BY <1>1, <1>2

-------------------------------------------------------------------------------
(* What making a request does to the client.                               *)

LEMMA SubmitCases ==
  ASSUME NEW c, NEW op, NEW how \in {"hard", "soft", "wait"}, Submit(c, op, how)
  PROVE  /\ how # "wait" => UNCHANGED clientVars
         /\ how = "wait" =>
              /\ ~closed /\ bytes + Weight(<<c, op>>) <= MaxAudio
              /\ queue' = Append(queue, <<c, op>>) /\ bytes' = bytes + Weight(<<c, op>>)
              /\ UNCHANGED <<cur, phase, reply, gone, late, error, closed>>
BY DEF Submit

LEMMA TypeParts == TypeOK => ClientOK /\ EngineOK /\ PcOK
BY DEF TypeOK, ClientOK, EngineOK, PcOK

LEMMA TypeNext ==
  ASSUME ClientOK', EngineOK', PcOK'
  PROVE  TypeOK'
BY DEF TypeOK, ClientOK, EngineOK, PcOK

LEMMA Submits ==
  ASSUME IInv, NEW c \in Callers, NEW op \in Ops, Submit(c, op, "wait"), Goes(c, op),
         Advances(c, op), RoleOf(c, op), pc[c] \notin Ops, pc[c] \notin After(op)
  PROVE  /\ KeyInv' /\ AudioInv' /\ ClientOK'
         /\ <<c, op>> \notin ToSet(queue) \cup {cur} /\ ToSet(queue') = ToSet(queue) \cup {<<c, op>>}
         /\ UNCHANGED <<cur, phase, reply, gone, closed>> /\ ~closed
<1>1. TypeOK /\ KeyInv /\ AudioInv /\ ClientOK
  BY TypeParts DEF IInv
<1>2. /\ ~closed /\ bytes + Weight(<<c, op>>) <= MaxAudio
      /\ queue' = Append(queue, <<c, op>>) /\ bytes' = bytes + Weight(<<c, op>>)
      /\ UNCHANGED <<cur, phase, reply, gone, late, error, closed>>
  BY SubmitCases
<1>3. /\ KeyInv' /\ <<c, op>> \notin ToSet(queue) \cup {cur}
      /\ ToSet(queue') = ToSet(queue) \cup {<<c, op>>} /\ IsInjective(queue')
  BY <1>1, <1>2, KeySubmit
<1>4. AudioInv' /\ bytes' \in Nat
  BY <1>1, <1>2, <1>3, AudioMore
<1>5. bytes' \in 0..MaxAudio /\ <<c, op>> \in Keys
  BY <1>2, <1>4, KeyFacts, NativeAsrAssumption
<1>6. ClientOK'
  BY <1>1, <1>2, <1>3, <1>5 DEF ClientOK
<1>. QED
  BY <1>2, <1>3, <1>4, <1>6

LEMMA NoRequest ==
  ASSUME IInv, NEW c \in Callers, NEW to, UNCHANGED clientVars, Goes(c, to), Advances(c, to),
         pc[c] \notin Ops, to \notin Ops
  PROVE  KeyInv' /\ AudioInv' /\ ClientOK'
<1>1. TypeOK /\ KeyInv /\ AudioInv /\ ClientOK
  BY TypeParts DEF IInv
<1>2. UNCHANGED <<queue, bytes, cur, phase, reply, gone, late, error, closed>>
  BY DEF clientVars
<1>3. KeyInv'
  BY <1>1, <1>2, KeyMove
<1>4. AudioInv' /\ ClientOK'
  BY <1>1, <1>2 DEF AudioInv, AudioIsGivenBack, Reserved, ClientOK
<1>. QED
  BY <1>3, <1>4

(* A caller's step does not touch another stream.                          *)
LEMMA OtherStreams ==
  ASSUME IInv, NEW c \in Callers, NEW to, Goes(c, to), UNCHANGED <<cur, phase>>,
         WorkerSameOrLost, closed => closed',
         \A k \in Keys : k[1] # c => /\ k \in ToSet(queue') <=> k \in ToSet(queue)
                                     /\ k \in gone' <=> k \in gone
                                     /\ reply'[k] = reply[k],
         \A b \in Streams : b # c => (b \in handle' <=> b \in handle) /\ (b \in missed => b \in missed')
  PROVE  \A b \in Streams : b # c => StreamOK(b)'
<1>1. ASSUME NEW b \in Streams, b # c
      PROVE  StreamOK(b)'
  <2>1. StreamOK(b) /\ pc'[b] = pc[b]
    BY <1>1, GoesFacts, KeyFacts DEF IInv, StreamInv
  <2>2. \A op \in {"open", "close"} : <<b, op>> \in Keys /\ <<b, op>>[1] = b
    BY StreamKeys DEF IInv
  <2>3. \A op \in {"open", "close"} : /\ <<b, op>> \in ToSet(queue') <=> <<b, op>> \in ToSet(queue)
                                      /\ <<b, op>> \in gone' <=> <<b, op>> \in gone
                                      /\ reply'[<<b, op>>] = reply[<<b, op>>]
    BY <1>1, <2>2
  <2>. QED
    BY <1>1, <2>1, <2>3, StreamFrame
<1>. QED
  BY <1>1

(* A request of c that is no stream's open or close, or none: every stream *)
(* other than c is as it was, and so is c's, if it was past that.          *)
LEMMA RequestOfOthers ==
  ASSUME IInv, NEW c \in Callers, NEW op \in Ops, NEW to, Goes(c, to), UNCHANGED <<cur, phase, reply, gone>>,
         ToSet(queue') = ToSet(queue) \/ ToSet(queue') = ToSet(queue) \cup {<<c, op>>},
         WorkerSameOrLost, closed => closed', UNCHANGED <<handle, missed>>,
         c \in Streams =>
           /\ op \notin {"open", "close"}
           /\ pc[c] \notin {"open", "close"} /\ to \notin {"idle", "open"}
           /\ to \in {"ready", "feed", "closing", "close"} => c \in handle
  PROVE  StreamInv' /\ FeedInv'
<1>1. \A b \in Streams : b # c => StreamOK(b)'
  <2>1. \A k \in Keys : k[1] # c => (k \in ToSet(queue') <=> k \in ToSet(queue))
    BY KeyFacts
  <2>. QED
    BY <2>1, OtherStreams
<1>2. ASSUME c \in Streams
      PROVE  StreamOK(c)'
  <2>1. StreamOK(c) /\ pc'[c] = to
    BY <1>2, GoesFacts DEF IInv, StreamInv
  <2>2. \A w \in {"open", "close"} : <<c, w>> \in ToSet(queue') <=> <<c, w>> \in ToSet(queue)
    BY <1>2
  <2>. QED
    BY <1>2, <2>1, <2>2, StreamFrame
<1>. QED
  BY <1>1, <1>2, WorkerFrame DEF IInv

LEMMA Combine ==
  ASSUME IInv, NEW c \in Callers, NEW to \in PlacesOf(c), Goes(c, to), ClientOK', EngineOK', KeyInv', AudioInv',
         LockInv', StreamsPinTheEngine', StreamInv', FeedInv'
  PROVE  IInv'
<1>1. PlaceInv' /\ PcOK'
  BY PlaceMove DEF IInv
<1>. QED
  BY <1>1, TypeNext DEF IInv

(* A step that makes such a request, or none.                              *)
LEMMA RequestStep ==
  ASSUME IInv, NEW c \in Callers, NEW op \in Ops, NEW to \in PlacesOf(c), Goes(c, to), Advances(c, to),
         pc[c] \notin Ops,
         \/ to \notin Ops /\ UNCHANGED clientVars
         \/ to = op /\ Submit(c, op, "wait") /\ RoleOf(c, op) /\ pc[c] \notin After(op),
         UNCHANGED <<worker, open, handle, missed>>, EngineOK', LockInv', StreamsPinTheEngine',
         c \in Streams =>
           /\ op \notin {"open", "close"}
           /\ pc[c] \notin {"open", "close"} /\ to \notin {"idle", "open"}
           /\ to \in {"ready", "feed", "closing", "close"} => c \in handle
  PROVE  IInv'
<1>0. WorkerSameOrLost
  BY DEF WorkerSameOrLost
<1>1. CASE to \notin Ops /\ UNCHANGED clientVars
  <2>1. KeyInv' /\ AudioInv' /\ ClientOK'
    BY <1>1, NoRequest
  <2>2. StreamInv' /\ FeedInv'
    BY <1>0, <1>1, RequestOfOthers DEF clientVars
  <2>. QED
    BY <2>1, <2>2, Combine
<1>2. CASE to = op /\ Submit(c, op, "wait") /\ RoleOf(c, op) /\ pc[c] \notin After(op)
  <2>1. /\ KeyInv' /\ AudioInv' /\ ClientOK' /\ ToSet(queue') = ToSet(queue) \cup {<<c, op>>}
        /\ UNCHANGED <<cur, phase, reply, gone, closed>>
    BY <1>2, Submits
  <2>2. StreamInv' /\ FeedInv'
    BY <1>0, <2>1, RequestOfOthers
  <2>. QED
    BY <2>1, <2>2, Combine
<1>. QED
  BY <1>1, <1>2

LEMMA OpenStreamKeeps ==
  ASSUME IInv, NEW s \in Streams, OpenStream(s)
  PROVE  IInv'
<1>0. /\ TypeOK /\ KeyInv /\ LockInv /\ StreamsPinTheEngine /\ StreamInv /\ FeedInv
      /\ EngineOK /\ s \in Callers /\ s \notin Decoders /\ pc[s] = "idle" /\ StreamOK(s)
  BY TypeParts, KeyFacts DEF IInv, OpenStream, Moves, StreamInv
<1>1. UNCHANGED <<worker, open, handle, fed, evict, native, missed>> /\ WorkerSameOrLost
  BY DEF OpenStream, workerVars, WorkerSameOrLost
<1>2. ASSUME NEW how \in {"hard", "soft", "wait"}, lock = Nobody, Usable, active' = active \cup {s},
             Submit(s, "open", how), Marks(how), Goes(s, IF how = "wait" THEN "open" ELSE "release"),
             lock' = IF how = "wait" THEN s ELSE Nobody
      PROVE  IInv'
  <2> DEFINE to == IF how = "wait" THEN "open" ELSE "release"
  <2>1. EngineOK' /\ native
    <3>1. fatal' \in BOOLEAN
      BY <1>2 DEF Marks
    <3>. QED
      BY <1>0, <1>1, <1>2, <3>1 DEF EngineOK, Usable
  <2>2. to \in PlacesOf(s) /\ Goes(s, to) /\ Advances(s, to)
    BY <1>0, <1>2 DEF PlacesOf, Advances, After, RoleOf
  <2>3. LockInv'
    BY <1>0, <1>2, <2>2, LockMove
  <2>4. StreamsPinTheEngine'
    BY <1>0, <1>1, <1>2, <2>1, <2>2, PinMove
  <2>5. CASE how = "wait"
    <3>1. /\ KeyInv' /\ AudioInv' /\ ClientOK'
          /\ <<s, "open">> \notin ToSet(queue) \cup {cur} /\ ToSet(queue') = ToSet(queue) \cup {<<s, "open">>}
          /\ UNCHANGED <<cur, phase, reply, gone, closed>> /\ ~closed
      <4>1. Goes(s, "open") /\ Advances(s, "open") /\ RoleOf(s, "open") /\ "open" \in Ops
            /\ pc[s] \notin Ops /\ pc[s] \notin After("open") /\ Submit(s, "open", "wait")
        BY <1>0, <1>2, <2>2, <2>5 DEF RoleOf, Ops, After
      <4>. QED
        BY <1>0, <4>1, Submits
    <3>2. \A b \in Streams : b # s => StreamOK(b)'
      <4>1. \A k \in Keys : k[1] # s => (k \in ToSet(queue') <=> k \in ToSet(queue))
        BY <3>1, KeyFacts
      <4>. QED
        BY <1>0, <1>1, <2>2, <3>1, <4>1, OtherStreams
    <3>3. StreamOK(s)'
      <4>1. ~Held(<<s, "close">>) /\ <<s, "close">> \notin gone /\ reply[<<s, "close">>] = "none"
            /\ reply[<<s, "open">>] = "none"
        <5>1. "open" \in Ops /\ "close" \in Ops /\ pc[s] \notin After("open") /\ pc[s] \notin After("close")
          BY <1>0 DEF Ops, After
        <5>. QED
          BY <1>0, <5>1, Fresh
      <4>2. pc'[s] = "open"
        BY <1>0, <2>2, <2>5, GoesFacts
      <4>. QED
        BY <1>0, <1>1, <3>1, <4>1, <4>2 DEF StreamOK, Held, IsCared
    <3>4. StreamInv' /\ FeedInv'
      BY <1>0, <1>1, <3>1, <3>2, <3>3, WorkerFrame
    <3>. QED
      BY <1>0, <2>1, <2>2, <2>3, <2>4, <3>1, <3>4, Combine
  <2>6. CASE how # "wait"
    <3>1. UNCHANGED clientVars
      BY <1>2, <2>6, SubmitCases
    <3>2. Goes(s, "release") /\ Advances(s, "release") /\ "release" \in PlacesOf(s)
          /\ "feed" \in Ops /\ "release" \notin Ops /\ pc[s] \notin Ops
      BY <1>0, <2>2, <2>6 DEF Ops
    <3>. QED
      BY <1>0, <1>1, <2>1, <2>3, <2>4, <3>1, <3>2, RequestStep
  <2>. QED
    BY <2>5, <2>6
<1>3. ASSUME Goes(s, "done"), UNCHANGED <<clientVars, lock, active, fatal>>
      PROVE  IInv'
  <2>1. EngineOK' /\ Advances(s, "done") /\ "done" \in PlacesOf(s) /\ "done" \notin Ops /\ "feed" \in Ops
        /\ pc[s] \notin Ops
    BY <1>0, <1>1, <1>3 DEF EngineOK, Advances, After, PlacesOf, Ops
  <2>2. LockInv' /\ StreamsPinTheEngine'
    BY <1>0, <1>1, <1>3, PlainMove
  <2>. QED
    BY <1>0, <1>1, <1>3, <2>1, <2>2, RequestStep
<1>. QED
  BY <1>2, <1>3 DEF OpenStream, Moves, Goes

LEMMA FeedKeeps ==
  ASSUME IInv, NEW s \in Streams, Feed(s)
  PROVE  IInv'
<1>0. /\ TypeOK /\ EngineOK /\ s \in Callers /\ s \notin Decoders /\ pc[s] = "ready" /\ StreamOK(s)
      /\ UNCHANGED <<worker, open, handle, lock, active, evict, native, missed>>
  BY TypeParts, KeyFacts DEF IInv, Feed, Moves, StreamInv, workerVars
<1>1. PICK how \in {"hard", "soft", "wait"} :
        /\ IF fatal THEN how = "hard" /\ UNCHANGED clientVars ELSE Submit(s, "feed", how)
        /\ Marks(how)
        /\ Goes(s, IF how = "wait" THEN "feed" ELSE "closing")
  BY DEF Feed, Moves, Goes
<1>2. EngineOK'
  <2>1. fatal' \in BOOLEAN
    BY <1>1 DEF Marks
  <2>2. fed' \in [Streams -> 0..MaxFeeds]
    BY <1>0, NativeAsrAssumption DEF Feed, EngineOK
  <2>. QED
    BY <1>0, <2>1, <2>2 DEF EngineOK
<1>3. s \in handle
  BY <1>0 DEF StreamOK
<1>4. CASE how = "wait"
  <2>1. Goes(s, "feed") /\ Advances(s, "feed") /\ RoleOf(s, "feed") /\ "feed" \in Ops /\ "feed" \in PlacesOf(s)
        /\ pc[s] \notin Ops /\ pc[s] \notin After("feed") /\ Submit(s, "feed", "wait")
    BY <1>0, <1>1, <1>4 DEF RoleOf, Ops, After, PlacesOf, Advances
  <2>2. LockInv' /\ StreamsPinTheEngine'
    BY <1>0, <2>1, PlainMove
  <2>. QED
    BY <1>0, <1>2, <1>3, <2>1, <2>2, RequestStep
<1>5. CASE how # "wait"
  <2>1. Goes(s, "closing") /\ Advances(s, "closing") /\ "closing" \notin Ops /\ "closing" \in PlacesOf(s)
        /\ pc[s] \notin Ops /\ "feed" \in Ops
    BY <1>0, <1>1, <1>5 DEF Ops, After, PlacesOf, Advances, RoleOf
  <2>2. UNCHANGED clientVars
    BY <1>1, <1>5, SubmitCases
  <2>3. LockInv' /\ StreamsPinTheEngine'
    BY <1>0, <2>1, PlainMove
  <2>. QED
    BY <1>0, <1>2, <1>3, <2>1, <2>2, <2>3, RequestStep
<1>. QED
  BY <1>4, <1>5

LEMMA EndStreamKeeps ==
  ASSUME IInv, NEW s \in Streams, EndStream(s)
  PROVE  IInv'
<1>0. /\ TypeOK /\ EngineOK /\ s \in Callers /\ s \notin Decoders /\ pc[s] = "ready" /\ StreamOK(s)
      /\ UNCHANGED <<worker, open, handle, fed, lock, active, evict, native, fatal, missed>>
      /\ UNCHANGED clientVars /\ Goes(s, "closing")
  BY TypeParts, KeyFacts DEF IInv, EndStream, Moves, Goes, StreamInv, workerVars, engineVars
<1>1. EngineOK' /\ s \in handle
  BY <1>0 DEF EngineOK, StreamOK
<1>2. Advances(s, "closing") /\ "closing" \notin Ops /\ "closing" \in PlacesOf(s)
      /\ pc[s] \notin Ops /\ "feed" \in Ops
  BY <1>0 DEF Ops, After, PlacesOf, Advances, RoleOf
<1>3. LockInv' /\ StreamsPinTheEngine'
  BY <1>0, PlainMove
<1>. QED
  BY <1>0, <1>1, <1>2, <1>3, RequestStep

(* The stream's close is queued, or its worker is lost.                    *)
LEMMA CloseStreamKeeps ==
  ASSUME IInv, NEW s \in Streams, pc[s] = "closing", CloseStream(s)
  PROVE  IInv'
<1>0. /\ TypeOK /\ KeyInv /\ StreamInv /\ FeedInv /\ EngineOK /\ s \in Callers /\ s \notin Decoders
      /\ StreamOK(s) /\ UNCHANGED <<worker, open, handle, fed, lock, active, evict, native, missed>>
      /\ WorkerSameOrLost
  BY TypeParts, KeyFacts DEF IInv, CloseStream, StreamInv, workerVars, WorkerSameOrLost
<1>1. s \in handle /\ pc[s] \notin Ops
  BY <1>0 DEF StreamOK, Ops
<1>2. ASSUME Submit(s, "close", "wait"), Marks("wait"), Goes(s, "close")
      PROVE  IInv'
  <2>1. EngineOK'
    <3>1. fatal' \in BOOLEAN
      BY <1>2 DEF Marks
    <3>. QED
      BY <1>0, <3>1 DEF EngineOK
  <2>2. Advances(s, "close") /\ RoleOf(s, "close") /\ "close" \in Ops /\ "close" \in PlacesOf(s)
        /\ pc[s] \notin After("close") /\ pc[s] \notin After("open")
    BY <1>0 DEF RoleOf, Ops, After, PlacesOf, Advances
  <2>3. LockInv' /\ StreamsPinTheEngine'
    BY <1>0, <1>2, PlainMove
  <2>4. /\ KeyInv' /\ AudioInv' /\ ClientOK'
        /\ <<s, "close">> \notin ToSet(queue) \cup {cur} /\ ToSet(queue') = ToSet(queue) \cup {<<s, "close">>}
        /\ UNCHANGED <<cur, phase, reply, gone, closed>> /\ ~closed
    BY <1>0, <1>1, <1>2, <2>2, Submits
  <2>5. \A b \in Streams : b # s => StreamOK(b)'
    <3>1. \A k \in Keys : k[1] # s => (k \in ToSet(queue') <=> k \in ToSet(queue))
      BY <2>4, KeyFacts
    <3>. QED
      BY <1>0, <1>2, <2>4, <3>1, OtherStreams
  <2>6. StreamOK(s)'
    <3>1. ~Held(<<s, "open">>) /\ <<s, "close">> \notin gone /\ reply[<<s, "close">>] = "none"
          /\ reply[<<s, "open">>] = "none"
      <4>1. "open" \in Ops /\ pc[s] # "open" /\ pc[s] # "close"
        BY DEF Ops
      <4>. QED
        BY <1>0, <2>2, <4>1, Fresh
    <3>2. pc'[s] = "close"
      BY <1>0, <1>2, GoesFacts
    <3>. QED
      BY <1>0, <1>1, <2>4, <3>1, <3>2 DEF StreamOK, Held, IsCared
  <2>7. StreamInv' /\ FeedInv'
    BY <1>0, <2>4, <2>5, <2>6, WorkerFrame
  <2>. QED
    BY <1>0, <1>2, <2>1, <2>2, <2>3, <2>4, <2>7, Combine
<1>3. ASSUME UNCHANGED clientVars, fatal' \in BOOLEAN, Goes(s, "release")
      PROVE  IInv'
  <2>1. EngineOK'
    BY <1>0, <1>3 DEF EngineOK
  <2>2. Advances(s, "release") /\ "feed" \in Ops /\ "release" \notin Ops /\ "release" \in PlacesOf(s)
    BY <1>0 DEF RoleOf, Ops, After, PlacesOf, Advances
  <2>3. LockInv' /\ StreamsPinTheEngine'
    BY <1>0, <1>3, PlainMove
  <2>. QED
    BY <1>0, <1>1, <1>3, <2>1, <2>2, <2>3, RequestStep
<1>4. CASE Usable
  <2>1. PICK how \in {"hard", "wait"} :
          /\ Submit(s, "close", how) /\ Marks(how)
          /\ Goes(s, IF how = "wait" THEN "close" ELSE "release")
    BY <1>4 DEF CloseStream, Moves, Goes
  <2>2. CASE how = "wait"
    BY <1>2, <2>1, <2>2
  <2>3. CASE how = "hard"
    <3>1. UNCHANGED clientVars /\ fatal' \in BOOLEAN
      BY <2>1, <2>3, SubmitCases DEF Marks
    <3>. QED
      BY <1>3, <2>1, <2>3, <3>1
  <2>. QED
    BY <2>2, <2>3
<1>5. CASE ~Usable
  <2>1. fatal' \in BOOLEAN
    BY <1>0, <1>5 DEF CloseStream, EngineOK
  <2>. QED
    BY <1>3, <1>5, <2>1 DEF CloseStream, Moves, Goes
<1>. QED
  BY <1>4, <1>5

LEMMA ReleaseKeeps ==
  ASSUME IInv, NEW s \in Streams, Release(s)
  PROVE  IInv'
<1> DEFINE to == IF evict /\ active = {s} THEN "evict" ELSE "done"
<1>0. /\ TypeOK /\ EngineOK /\ LockInv /\ StreamsPinTheEngine /\ s \in Callers /\ s \notin Decoders
      /\ pc[s] = "release" /\ active' = active \ {s} /\ Goes(s, to) /\ UNCHANGED clientVars
      /\ UNCHANGED <<worker, open, handle, fed, lock, evict, native, fatal, missed>>
  BY TypeParts, KeyFacts DEF IInv, Release, Moves, Goes, workerVars
<1>1. EngineOK'
  BY <1>0 DEF EngineOK
<1>2. Advances(s, to) /\ to \in PlacesOf(s) /\ to \notin Ops /\ pc[s] \notin Ops /\ "feed" \in Ops
  BY <1>0 DEF RoleOf, Ops, After, PlacesOf, Advances
<1>3. LockInv'
  BY <1>0, LockMove
<1>4. StreamsPinTheEngine'
  <2>1. active' # {} => native'
    BY <1>0 DEF StreamsPinTheEngine
  <2>2. evict' /\ native' /\ active' = {} =>
           /\ evict /\ native
           /\ active # {} \/ pc[s] \in {"evict", "shutdown"} => to \in {"evict", "shutdown"}
    BY <1>0
  <2>. QED
    BY <1>0, <2>1, <2>2, PinMove
<1>. QED
  BY <1>0, <1>1, <1>2, <1>3, <1>4, RequestStep

LEMMA StartDecoderKeeps ==
  ASSUME IInv, NEW d \in Decoders, StartDecoder(d)
  PROVE  IInv'
<1>0. PICK to \in {"lock", "done"} : Goes(d, to)
  BY DEF StartDecoder, Moves, Goes
<1>1. /\ TypeOK /\ EngineOK /\ d \in Callers /\ d \notin Streams /\ pc[d] = "idle" /\ UNCHANGED clientVars
      /\ UNCHANGED <<worker, open, handle, fed, lock, active, evict, native, fatal, missed>>
  BY TypeParts, KeyFacts DEF IInv, StartDecoder, Moves, workerVars, engineVars
<1>2. EngineOK'
  BY <1>1 DEF EngineOK
<1>3. Advances(d, to) /\ to \in PlacesOf(d) /\ to \notin Ops /\ pc[d] \notin Ops /\ "recognize" \in Ops
  BY <1>0, <1>1 DEF RoleOf, Ops, After, PlacesOf, Advances
<1>4. LockInv' /\ StreamsPinTheEngine'
  BY <1>0, <1>1, PlainMove
<1>. QED
  BY <1>0, <1>1, <1>2, <1>3, <1>4, RequestStep

LEMMA DecodeKeeps ==
  ASSUME IInv, NEW d \in Decoders, Decode(d)
  PROVE  IInv'
<1>0. /\ TypeOK /\ EngineOK /\ LockInv /\ StreamsPinTheEngine /\ d \in Callers /\ d \notin Streams
      /\ pc[d] = "lock" /\ UNCHANGED <<worker, open, handle, fed, active, evict, native, missed>>
  BY TypeParts, KeyFacts DEF IInv, Decode, workerVars
<1>1. ASSUME NEW to, Goes(d, to)
      PROVE  StreamsPinTheEngine'
  <2>1. active' # {} => native'
    BY <1>0 DEF StreamsPinTheEngine
  <2>. QED
    BY <1>0, <1>1, <2>1, PinMove
<1>2. ASSUME UNCHANGED clientVars, fatal' \in BOOLEAN, lock' \in {lock, Nobody}, lock' = lock \/ lock = Nobody,
             Goes(d, "done")
      PROVE  IInv'
  <2>1. EngineOK'
    BY <1>0, <1>2 DEF EngineOK
  <2>2. Advances(d, "done") /\ "done" \in PlacesOf(d) /\ "done" \notin Ops /\ pc[d] \notin Ops /\ "recognize" \in Ops
    BY <1>0 DEF RoleOf, Ops, After, PlacesOf, Advances
  <2>3. LockInv'
    BY <1>0, <1>2, LockMove
  <2>. QED
    BY <1>0, <1>1, <1>2, <2>1, <2>2, <2>3, RequestStep
<1>3. ASSUME lock = Nobody,
             NEW how \in {"hard", "soft", "wait"}, Submit(d, "recognize", how), Marks(how),
             Goes(d, IF how = "wait" THEN "recognize" ELSE "done"),
             lock' = IF how = "wait" THEN d ELSE Nobody
      PROVE  IInv'
  <2>1. fatal' \in BOOLEAN
    BY <1>3 DEF Marks
  <2>2. CASE how = "wait"
    <3>1. EngineOK'
      BY <1>0, <1>3, <2>1 DEF EngineOK
    <3>2. Goes(d, "recognize") /\ Advances(d, "recognize") /\ "recognize" \in PlacesOf(d) /\ "recognize" \in Ops
          /\ pc[d] \notin Ops /\ RoleOf(d, "recognize") /\ pc[d] \notin After("recognize")
          /\ Submit(d, "recognize", "wait")
      BY <1>0, <1>3, <2>2 DEF RoleOf, Ops, After, PlacesOf, Advances
    <3>3. LockInv'
      BY <1>0, <1>3, <2>2, <3>2, LockMove
    <3>4. StreamsPinTheEngine'
      BY <1>1, <3>2
    <3>. QED
      BY <1>0, <3>1, <3>2, <3>3, <3>4, RequestStep
  <2>3. CASE how # "wait"
    BY <1>2, <1>3, <2>1, <2>3, SubmitCases
  <2>. QED
    BY <2>2, <2>3
<1>4. ASSUME Goes(d, "done"), UNCHANGED <<clientVars, lock, fatal>>
      PROVE  IInv'
  <2>1. fatal' \in BOOLEAN
    BY <1>0, <1>4 DEF EngineOK
  <2>. QED
    BY <1>2, <1>4, <2>1
<1>. QED
  BY <1>3, <1>4 DEF Decode, Moves, Goes

-------------------------------------------------------------------------------
(* The ends of a wait.                                                     *)

(* What the client is after a caller has left.                             *)
LEMMA LeftClient ==
  ASSUME IInv, NEW k \in Keys, LeaveBehind(k), error' \in BOOLEAN, closed' \in BOOLEAN, error' => closed'
  PROVE  /\ AudioInv' /\ ClientOK' /\ UNCHANGED <<queue, cur, phase>>
         /\ \A x \in Keys : x # k => (x \in gone' <=> x \in gone) /\ reply'[x] = reply[x]
         /\ Done(k) => reply'[k] = "none" /\ gone' = gone
         /\ ~Done(k) => reply'[k] = reply[k] /\ gone' = gone \cup {k}
<1>1. ClientOK /\ AudioInv /\ UNCHANGED <<queue, bytes, cur, phase>>
  BY TypeParts DEF IInv, LeaveBehind
<1>2. AudioInv'
  BY <1>1 DEF AudioInv, AudioIsGivenBack, Reserved
<1>3. ClientOK'
  BY <1>1 DEF ClientOK, LeaveBehind
<1>. QED
  BY <1>1, <1>2, <1>3 DEF LeaveBehind, ClientOK

(* A wait ends that was not for a stream to open or to close.              *)
LEMMA AnswerStep ==
  ASSUME IInv, NEW c \in Callers, NEW op \in Ops, op \notin {"open", "close"}, pc[c] = op,
         NEW to \in PlacesOf(c), Goes(c, to), Advances(c, to), to \notin Ops,
         LeaveBehind(<<c, op>>), to \in After(op) \/ Done(<<c, op>>),
         WorkerSameOrLost, closed => closed', error' \in BOOLEAN, closed' \in BOOLEAN, error' => closed',
         UNCHANGED <<handle, missed>>, EngineOK', LockInv', StreamsPinTheEngine',
         c \in Streams => /\ to \notin {"idle", "open"}
                          /\ to \in {"ready", "feed", "closing", "close"} => c \in handle
  PROVE  IInv'
<1>1. <<c, op>> \in Keys /\ <<c, op>>[1] = c
  BY KeyFacts
<1>2. /\ AudioInv' /\ ClientOK' /\ UNCHANGED <<queue, cur, phase>>
      /\ \A x \in Keys : x # <<c, op>> => (x \in gone' <=> x \in gone) /\ reply'[x] = reply[x]
  BY <1>1, LeftClient
<1>3. KeyInv'
  BY KeyLeave DEF IInv
<1>4. \A b \in Streams : b # c => StreamOK(b)'
  <2>1. \A k \in Keys : k[1] # c => /\ k \in ToSet(queue') <=> k \in ToSet(queue)
                                    /\ k \in gone' <=> k \in gone
                                    /\ reply'[k] = reply[k]
    BY <1>1, <1>2
  <2>. QED
    BY <1>2, <2>1, OtherStreams
<1>5. ASSUME c \in Streams
      PROVE  StreamOK(c)'
  <2>1. StreamOK(c) /\ pc'[c] = to
    BY <1>5, GoesFacts DEF IInv, StreamInv
  <2>2. \A w \in {"open", "close"} : <<c, w>> \in Keys /\ <<c, w>> # <<c, op>>
    BY <1>5, StreamKeys DEF IInv
  <2>3. \A w \in {"open", "close"} : /\ <<c, w>> \in ToSet(queue') <=> <<c, w>> \in ToSet(queue)
                                     /\ <<c, w>> \in gone' <=> <<c, w>> \in gone
                                     /\ reply'[<<c, w>>] = reply[<<c, w>>]
    BY <1>2, <2>2
  <2>. QED
    BY <1>2, <1>5, <2>1, <2>3, StreamFrame
<1>6. StreamInv' /\ FeedInv'
  BY <1>2, <1>4, <1>5, WorkerFrame DEF IInv
<1>. QED
  BY <1>2, <1>3, <1>6, Combine

(* How a wait can end.                                                     *)
Ends(k, how) ==
  /\ LeaveBehind(k)
  /\ how \in {"ok", "refused"} => Done(k) /\ reply[k] = how
  /\ how = "hard" => closed'
  /\ \/ UNCHANGED <<error, closed, worker, open>>
     \/ error' = TRUE /\ closed' = TRUE /\ worker' = "dead" /\ open' = {}
  /\ \/ missed' = missed
     \/ how = "soft" /\ k[2] = "open" /\ missed' = missed \cup {k[1]}
  /\ how = "soft" => /\ UNCHANGED <<error, closed, worker, open>>
                     /\ k[2] = "open" /\ reply[k] = "ok" /\ (cur = k => phase = "signal")
                          => k[1] \in missed'

LEMMA WaitEnds ==
  ASSUME IInv, NEW c \in Callers, pc[c] \in Ops, Returns(c) \/ GivesUp(c)
  PROVE  \E how \in {"ok", "refused", "hard", "soft"} : Ends(<<c, pc[c]>>, how) /\ Continues(c, how)
<1> DEFINE k == <<c, pc[c]>>
<1>0. TypeOK /\ k \in Keys /\ KeyOK(k) /\ reply[k] \in {"none", "ok", "refused", "error"}
      /\ (error => closed) /\ k[1] = c /\ k[2] = pc[c]
  BY KeyFacts DEF IInv, KeyInv, TypeOK
<1>1. ASSUME NEW how \in {"ok", "refused", "hard"}, Leave(k, how)
      PROVE  Ends(k, how)
  <2>1. CASE /\ Done(k) /\ ~error
             /\ how = [ok |-> "ok", refused |-> "refused", error |-> "hard"][reply[k]]
             /\ LeaveBehind(k) /\ UNCHANGED <<error, closed, workerVars, missed>>
    <3>1. reply[k] \in {"ok", "refused", "error"}
      BY <1>0, <1>1, <2>1 DEF Done
    <3>2. (reply[k] = "ok" => how = "ok") /\ (reply[k] = "refused" => how = "refused")
          /\ (reply[k] = "error" => how = "hard")
      BY <2>1, <3>1
    <3>3. reply[k] = "error" => closed
      BY <1>0 DEF KeyOK
    <3>. QED
      BY <2>1, <3>1, <3>2, <3>3 DEF Ends, workerVars
  <2>2. CASE /\ how = "hard" /\ error
             /\ LeaveBehind(k) /\ UNCHANGED <<error, closed, workerVars, missed>>
    BY <1>0, <2>2 DEF Ends, workerVars
  <2>3. CASE /\ how = "hard" /\ ~error
             /\ LeaveBehind(k) /\ Poison /\ UNCHANGED missed
    BY <2>3 DEF Ends, Poison
  <2>. QED
    BY <1>1, <2>1, <2>2, <2>3 DEF Leave
<1>2. ASSUME Abandon(k, "soft")
      PROVE  Ends(k, "soft")
  BY <1>2 DEF Abandon, Ends, workerVars
<1>. QED
  BY <1>1, <1>2 DEF Returns, GivesUp

LEMMA EndsFacts ==
  ASSUME IInv, NEW k, NEW how, Ends(k, how)
  PROVE  /\ LeaveBehind(k) /\ WorkerSameOrLost /\ (closed => closed')
         /\ error' \in BOOLEAN /\ closed' \in BOOLEAN /\ (error' => closed')
         /\ (worker = "dead" => worker' = "dead") /\ missed \subseteq missed'
         /\ worker' \in {"idle", "busy", "hung", "dead"} /\ open' \subseteq Streams
<1>0. /\ error \in BOOLEAN /\ closed \in BOOLEAN /\ (error => closed)
      /\ worker \in {"idle", "busy", "hung", "dead"} /\ open \subseteq Streams
  BY DEF IInv, TypeOK
<1>1. LeaveBehind(k) /\ missed \subseteq missed'
  BY DEF Ends
<1>2. CASE UNCHANGED <<error, closed, worker, open>>
  BY <1>0, <1>1, <1>2 DEF WorkerSameOrLost
<1>3. CASE error' = TRUE /\ closed' = TRUE /\ worker' = "dead" /\ open' = {}
  BY <1>0, <1>1, <1>3 DEF WorkerSameOrLost
<1>. QED
  BY <1>2, <1>3 DEF Ends

LEMMA FedKeeps ==
  ASSUME IInv, NEW s \in Streams, pc[s] = "feed", NEW how \in {"ok", "refused", "hard", "soft"},
         Ends(<<s, "feed">>, how), Fed(s, how)
  PROVE  IInv'
<1>0. /\ TypeOK /\ EngineOK /\ s \in Callers /\ s \notin Decoders /\ StreamOK(s)
      /\ UNCHANGED <<handle, fed, lock, active, evict, native>>
  BY TypeParts, KeyFacts DEF IInv, StreamInv, Fed
<1>1. PICK to \in {"ready", "closing"} : Goes(s, to) /\ (to = "ready" => how \in {"ok", "refused"})
  BY DEF Fed, Moves, Goes
<1>2. missed' = missed
  BY DEF Ends
<1>3. EngineOK'
  <2>1. fatal' \in BOOLEAN
    BY DEF Fed, Marks
  <2>. QED
    BY <1>0, <1>2, <2>1, EndsFacts DEF EngineOK
<1>4. "feed" \in Ops /\ to \in PlacesOf(s) /\ Advances(s, to) /\ to \notin Ops
      /\ (to \in After("feed") \/ Done(<<s, "feed">>))
  BY <1>0, <1>1 DEF Ops, PlacesOf, Advances, After, RoleOf, Ends
<1>5. LockInv' /\ StreamsPinTheEngine'
  BY <1>0, <1>1, PlainMove
<1>6. s \in handle
  BY <1>0 DEF StreamOK
<1>. QED
  BY <1>0, <1>1, <1>2, <1>3, <1>4, <1>5, <1>6, AnswerStep, EndsFacts

LEMMA DecodedKeeps ==
  ASSUME IInv, NEW d \in Decoders, pc[d] = "recognize", NEW how \in {"ok", "refused", "hard", "soft"},
         Ends(<<d, "recognize">>, how), Decoded(d, how)
  PROVE  IInv'
<1>0. /\ TypeOK /\ EngineOK /\ LockInv /\ StreamsPinTheEngine /\ d \in Callers /\ d \notin Streams
      /\ UNCHANGED <<handle, fed, active, evict, native>> /\ lock' = Nobody /\ Goes(d, "done")
  BY TypeParts, KeyFacts DEF IInv, Decoded, Moves, Goes
<1>1. missed' = missed
  BY DEF Ends
<1>2. EngineOK'
  <2>1. fatal' \in BOOLEAN
    BY DEF Decoded, Marks
  <2>. QED
    BY <1>0, <1>1, <2>1, EndsFacts DEF EngineOK
<1>3. "recognize" \in Ops /\ "done" \in PlacesOf(d) /\ Advances(d, "done") /\ "done" \notin Ops
      /\ "done" \in After("recognize")
  BY <1>0 DEF Ops, PlacesOf, Advances, After, RoleOf
<1>4. LockInv'
  <2>1. lock = d
    BY <1>0 DEF LockInv, LockOK
  <2>. QED
    BY <1>0, <2>1, LockMove
<1>5. StreamsPinTheEngine'
  <2>1. active' # {} => native'
    BY <1>0 DEF StreamsPinTheEngine
  <2>. QED
    BY <1>0, <2>1, PinMove
<1>. QED
  BY <1>0, <1>1, <1>2, <1>3, <1>4, <1>5, AnswerStep, EndsFacts

(* A stream knows its handle, or whatever the worker opened for it will be *)
(* closed; only the last moment before it could know is missed.            *)
LEMMA OpenedKeeps ==
  ASSUME IInv, NEW s \in Streams, pc[s] = "open", NEW how \in {"ok", "refused", "hard", "soft"},
         Ends(<<s, "open">>, how), Opened(s, how)
  PROVE  IInv'
<1> DEFINE to == IF how = "ok" THEN "ready" ELSE "release"
           o  == <<s, "open">>
           x  == <<s, "close">>
<1>0. /\ TypeOK /\ KeyInv /\ EngineOK /\ LockInv /\ StreamsPinTheEngine /\ s \in Callers /\ s \notin Decoders
      /\ StreamOK(s) /\ StreamInv /\ FeedInv /\ PhaseInv
      /\ UNCHANGED <<fed, active, evict, native>> /\ lock' = Nobody /\ Goes(s, to)
      /\ handle' = IF how = "ok" THEN handle \cup {s} ELSE handle
  BY TypeParts, KeyFacts DEF IInv, StreamInv, KeyInv, Opened, Moves, Goes
<1>1. EngineOK'
  <2>1. fatal' \in BOOLEAN
    BY DEF Opened, Marks
  <2>2. missed' \subseteq Streams
    BY <1>0 DEF Ends, EngineOK
  <2>. QED
    BY <1>0, <2>1, <2>2, EndsFacts DEF EngineOK
<1>2. "open" \in Ops /\ to \in PlacesOf(s) /\ Advances(s, to) /\ to \notin Ops
      /\ (to \in After("open") \/ Done(o)) /\ "close" \in Ops /\ pc[s] \notin After("close") /\ "open" \notin After("open")
  BY <1>0 DEF Ops, PlacesOf, Advances, After, RoleOf, Ends
<1>3. LockInv'
  <2>1. lock = s
    BY <1>0 DEF LockInv, LockOK
  <2>. QED
    BY <1>0, <2>1, LockMove
<1>4. StreamsPinTheEngine'
  <2>1. active' # {} => native'
    BY <1>0 DEF StreamsPinTheEngine
  <2>. QED
    BY <1>0, <2>1, PinMove
<1>5. KeyInv'
  BY <1>0, <1>2, KeyLeave, EndsFacts
<1>6. o \in Keys /\ o[1] = s /\ o[2] = "open" /\ x \in Keys /\ x # o
  BY <1>0, <1>2, KeyFacts
<1>7. /\ AudioInv' /\ ClientOK' /\ UNCHANGED <<queue, cur, phase>>
      /\ \A k \in Keys : k # o => (k \in gone' <=> k \in gone) /\ reply'[k] = reply[k]
      /\ Done(o) => reply'[o] = "none" /\ gone' = gone
      /\ ~Done(o) => reply'[o] = reply[o] /\ gone' = gone \cup {o}
  BY <1>6, LeftClient, EndsFacts
<1>8. \A b \in Streams : b # s => StreamOK(b)'
  <2>1. \A k \in Keys : k[1] # s => /\ k \in ToSet(queue') <=> k \in ToSet(queue)
                                    /\ k \in gone' <=> k \in gone
                                    /\ reply'[k] = reply[k]
    BY <1>6, <1>7
  <2>2. \A b \in Streams : b # s => (b \in handle' <=> b \in handle) /\ (b \in missed => b \in missed')
    BY <1>0, EndsFacts
  <2>. QED
    BY <1>0, <1>7, <2>1, <2>2, OtherStreams, EndsFacts
<1>9. StreamOK(s)'
  <2>1. ~Held(x) /\ x \notin gone /\ reply[x] = "none" /\ x \notin gone' /\ reply'[x] = "none"
    <3>1. ~Held(x) /\ x \notin gone /\ reply[x] = "none"
      BY <1>0, <1>2, Fresh
    <3>. QED
      BY <1>6, <1>7, <3>1
  <2>2. o \notin gone /\ (Held(o) \/ reply[o] # "none") /\ (reply[o] # "none" => o \notin ToSet(queue))
        /\ (reply[o] = "error" => closed) /\ reply[o] \in {"none", "ok", "refused", "error"}
    <3>1. "open" \in {"open", "feed", "close"}
      OBVIOUS
    <3>2. o \in gone => pc[s] \in After("open")
      BY <1>0, <3>1, StreamKeys
    <3>. QED
      BY <1>0, <1>2, <3>1, <3>2, StreamKeys
  <2>3. pc'[s] = to /\ s \notin handle
    BY <1>0, GoesFacts DEF StreamOK
  <2>4. Held(o)' = Held(o) /\ Held(x)' = Held(x)
    BY <1>7 DEF Held
  <2>5. CASE how = "ok"
    <3>1. Done(o) /\ reply[o] = "ok" /\ ~Held(o) /\ (s \in open \/ worker = "dead") /\ cur # o
      BY <1>0, <2>2, <2>5 DEF Ends, Done, Held, StreamOK
    <3>2. s \in open' \/ worker' = "dead"
      BY <1>0, <3>1, EndsFacts DEF WorkerSameOrLost
    <3>. QED
      BY <1>0, <1>7, <2>1, <2>2, <2>3, <2>4, <2>5, <3>1, <3>2 DEF StreamOK, Held, IsCared
  <2>6. CASE how = "refused"
    <3>1. Done(o) /\ reply[o] = "refused" /\ ~Held(o) /\ s \notin open /\ cur # o
      BY <1>0, <2>2, <2>6 DEF Ends, Done, Held, StreamOK
    <3>2. s \notin open'
      BY <3>1, EndsFacts DEF WorkerSameOrLost
    <3>. QED
      BY <1>0, <1>7, <2>1, <2>2, <2>3, <2>4, <2>6, <3>1, <3>2 DEF StreamOK, Held, IsCared
  <2>7. CASE how = "hard"
    <3>1. closed' /\ (s \in open' => s \in open) /\ handle' = handle /\ pc'[s] = "release"
          /\ (s \in open \/ worker = "dead" => s \in open' \/ worker' = "dead")
      BY <1>0, <2>3, <2>7, EndsFacts DEF Ends, WorkerSameOrLost
    <3>. QED
      BY <1>0, <1>7, <2>1, <2>2, <2>3, <2>4, <2>7, <3>1 DEF StreamOK, Held, IsCared, Done
  <2>8. CASE how = "soft"
    <3>1. UNCHANGED <<closed, worker, open>> /\ handle' = handle /\ pc'[s] = "release"
          /\ (reply[o] = "ok" /\ (cur = o => phase = "signal") => s \in missed')
      BY <1>0, <1>6, <2>3, <2>8 DEF Ends
    <3>2. ASSUME s \in open, s \notin missed', ~closed
          PROVE  cur = o /\ phase \in {"check", "orphan"}
      <4>1. o \notin ToSet(queue) /\ ~(cur = o /\ phase = "sent") /\ reply[o] # "refused" /\ reply[o] # "error"
        BY <1>0, <2>2, <3>2 DEF StreamOK
      <4>2. cur = o => phase \in {"sent", "check", "orphan", "signal"} /\ reply[o] # "none"
        BY <1>0, <1>6, <4>1, KeyFacts DEF TypeOK, PhaseInv
      <4>. QED
        BY <2>2, <3>1, <3>2, <4>1, <4>2 DEF Held
    <3>. QED
      BY <1>0, <1>7, <2>1, <2>2, <2>3, <2>4, <2>8, <3>1, <3>2 DEF StreamOK, Held, IsCared, Done
  <2>. QED
    BY <2>5, <2>6, <2>7, <2>8
<1>10. StreamInv' /\ FeedInv'
  BY <1>0, <1>7, <1>8, <1>9, WorkerFrame, EndsFacts
<1>. QED
  BY <1>0, <1>1, <1>2, <1>3, <1>4, <1>5, <1>7, <1>10, Combine

LEMMA ClosedKeeps ==
  ASSUME IInv, NEW s \in Streams, pc[s] = "close", NEW how \in {"ok", "refused", "hard", "soft"},
         Ends(<<s, "close">>, how), Closed(s, how)
  PROVE  IInv'
<1> DEFINE o == <<s, "open">>
           x == <<s, "close">>
<1>0. /\ TypeOK /\ KeyInv /\ EngineOK /\ s \in Callers /\ s \notin Decoders
      /\ StreamOK(s) /\ StreamInv /\ FeedInv
      /\ UNCHANGED <<fed, lock, active, evict, native>> /\ Goes(s, "release") /\ handle' = handle \ {s}
  BY TypeParts, KeyFacts DEF IInv, StreamInv, Closed, Moves, Goes
<1>1. missed' = missed
  BY DEF Ends
<1>2. EngineOK'
  <2>1. fatal' \in BOOLEAN
    BY DEF Closed, Marks
  <2>. QED
    BY <1>0, <1>1, <2>1, EndsFacts DEF EngineOK
<1>3. "close" \in Ops /\ "release" \in PlacesOf(s) /\ Advances(s, "release") /\ "release" \notin Ops
      /\ "release" \in After("close") /\ "open" \in Ops /\ pc[s] \notin After("open") /\ pc[s] \notin After("close")
  BY <1>0 DEF Ops, PlacesOf, Advances, After, RoleOf
<1>4. LockInv' /\ StreamsPinTheEngine'
  BY <1>0, PlainMove
<1>5. KeyInv'
  BY <1>0, <1>3, KeyLeave, EndsFacts
<1>6. o \in Keys /\ x \in Keys /\ x[1] = s /\ x # o
  BY <1>0, <1>3, KeyFacts
<1>7. /\ AudioInv' /\ ClientOK' /\ UNCHANGED <<queue, cur, phase>>
      /\ \A k \in Keys : k # x => (k \in gone' <=> k \in gone) /\ reply'[k] = reply[k]
      /\ Done(x) => reply'[x] = "none" /\ gone' = gone
      /\ ~Done(x) => reply'[x] = reply[x] /\ gone' = gone \cup {x}
  BY <1>6, LeftClient, EndsFacts
<1>8. \A b \in Streams : b # s => StreamOK(b)'
  <2>1. \A k \in Keys : k[1] # s => /\ k \in ToSet(queue') <=> k \in ToSet(queue)
                                    /\ k \in gone' <=> k \in gone
                                    /\ reply'[k] = reply[k]
    BY <1>6, <1>7
  <2>. QED
    BY <1>0, <1>1, <1>7, <2>1, OtherStreams, EndsFacts
<1>9. StreamOK(s)'
  <2>1. ~Held(o) /\ o \notin gone /\ reply[o] = "none" /\ o \notin gone' /\ reply'[o] = "none"
    <3>1. ~Held(o) /\ o \notin gone /\ reply[o] = "none"
      BY <1>0, <1>3, Fresh
    <3>. QED
      BY <1>6, <1>7, <3>1
  <2>2. (Held(x) \/ reply[x] # "none") /\ (reply[x] = "error" => closed)
        /\ reply[x] \in {"none", "ok", "refused", "error"}
    <3>1. "close" \in {"open", "feed", "close"}
      OBVIOUS
    <3>. QED
      BY <1>0, <3>1, StreamKeys
  <2>3. pc'[s] = "release" /\ s \notin handle' /\ (s \in open' => s \in open)
        /\ Held(o)' = Held(o) /\ Held(x)' = Held(x)
    BY <1>0, <1>7, GoesFacts, EndsFacts DEF Held, WorkerSameOrLost
  <2>4. s \in open' => Held(x) \/ closed'
    <3>1. reply[x] \in {"ok", "refused"} => s \notin open
      BY <1>0 DEF StreamOK
    <3>2. closed => closed'
      BY EndsFacts
    <3>. QED
      BY <2>2, <2>3, <3>1, <3>2
  <2>. QED
    BY <1>0, <1>7, <2>1, <2>2, <2>3, <2>4 DEF StreamOK, Held, IsCared, Done
<1>10. StreamInv' /\ FeedInv'
  BY <1>0, <1>7, <1>8, <1>9, WorkerFrame, EndsFacts
<1>. QED
  BY <1>0, <1>2, <1>3, <1>4, <1>5, <1>7, <1>10, Combine

(* Whichever wait of c ends.                                               *)
LEMMA WaitKeeps ==
  ASSUME IInv, NEW c \in Callers, pc[c] \in Ops \ {"shutdown"}, Returns(c) \/ GivesUp(c)
  PROVE  IInv'
<1>1. PICK how \in {"ok", "refused", "hard", "soft"} : Ends(<<c, pc[c]>>, how) /\ Continues(c, how)
  BY WaitEnds
<1>2. CASE c \in Streams /\ Opened(c, how)
  <2>1. pc[c] = "open"
    BY <1>2 DEF Opened, Moves
  <2>. QED
    BY <1>1, <1>2, <2>1, OpenedKeeps
<1>3. CASE c \in Streams /\ Fed(c, how)
  <2>1. pc[c] = "feed"
    BY <1>3 DEF Fed, Moves
  <2>. QED
    BY <1>1, <1>3, <2>1, FedKeeps
<1>4. CASE c \in Streams /\ Closed(c, how)
  <2>1. pc[c] = "close"
    BY <1>4 DEF Closed, Moves
  <2>. QED
    BY <1>1, <1>4, <2>1, ClosedKeeps
<1>5. CASE c \in Decoders /\ Decoded(c, how)
  <2>1. pc[c] = "recognize"
    BY <1>5 DEF Decoded, Moves
  <2>. QED
    BY <1>1, <1>5, <2>1, DecodedKeeps
<1>. QED
  BY <1>1, <1>2, <1>3, <1>4, <1>5 DEF Continues

-------------------------------------------------------------------------------
(* Closing the engine.                                                     *)

LEMMA StartEvictionKeeps ==
  ASSUME IInv, StartEviction
  PROVE  IInv'
<1>0. /\ TypeOK /\ EngineOK /\ Evictor \in Callers /\ Evictor \notin Streams /\ Evictor \notin Decoders
      /\ pc[Evictor] = "idle" /\ UNCHANGED clientVars /\ Goes(Evictor, "evict")
      /\ UNCHANGED <<worker, open, handle, fed, lock, active, evict, native, fatal, missed>>
  BY TypeParts, KeyFacts DEF IInv, StartEviction, Moves, Goes, workerVars, engineVars
<1>1. EngineOK'
  BY <1>0 DEF EngineOK
<1>2. Advances(Evictor, "evict") /\ "evict" \in PlacesOf(Evictor) /\ "evict" \notin Ops /\ pc[Evictor] \notin Ops
      /\ "shutdown" \in Ops
  BY <1>0 DEF RoleOf, Ops, After, PlacesOf, Advances
<1>3. LockInv' /\ StreamsPinTheEngine'
  BY <1>0, PlainMove
<1>. QED
  BY <1>0, <1>1, <1>2, <1>3, RequestStep

LEMMA CloseEngineKeeps ==
  ASSUME IInv, NEW c \in Callers, c \notin Decoders, CloseEngine(c)
  PROVE  IInv'
<1>0. /\ TypeOK /\ EngineOK /\ LockInv /\ StreamsPinTheEngine
      /\ pc[c] = "evict" /\ lock = Nobody /\ UNCHANGED <<worker, open, handle, fed, active, fatal, missed>>
      /\ pc[c] \notin Ops /\ "shutdown" \in Ops /\ "done" \notin Ops
  BY TypeParts DEF IInv, CloseEngine, workerVars, Ops
<1>1. Advances(c, "done") /\ "done" \in PlacesOf(c) /\ Advances(c, "shutdown") /\ "shutdown" \in PlacesOf(c)
  BY <1>0 DEF RoleOf, Ops, After, PlacesOf, Advances
<1>2. CASE active # {}
  <2>1. Goes(c, "done") /\ evict' = TRUE /\ UNCHANGED <<clientVars, lock, native>>
    BY <1>2 DEF CloseEngine, Moves, Goes
  <2>2. EngineOK'
    BY <1>0, <2>1 DEF EngineOK
  <2>3. LockInv'
    BY <1>0, <2>1, LockMove
  <2>4. StreamsPinTheEngine'
    <3>1. active' # {} /\ native'
      BY <1>0, <1>2, <2>1 DEF StreamsPinTheEngine
    <3>. QED
      BY <3>1 DEF StreamsPinTheEngine
  <2>. QED
    BY <1>0, <1>1, <2>1, <2>2, <2>3, <2>4, RequestStep
<1>3. CASE active = {} /\ native /\ ~closed
  <2>1. Goes(c, "shutdown") /\ lock' = c /\ UNCHANGED <<evict, native>> /\ Submit(c, "shutdown", "wait")
    BY <1>3 DEF CloseEngine, Moves, Goes
  <2>2. EngineOK'
    BY <1>0, <2>1 DEF EngineOK
  <2>3. LockInv'
    BY <1>0, <1>3, <2>1, LockMove
  <2>4. StreamsPinTheEngine'
    BY <1>0, <1>3, <2>1, PinMove
  <2>5. RoleOf(c, "shutdown") /\ pc[c] \notin After("shutdown")
    BY <1>0 DEF RoleOf, After
  <2>. QED
    BY <1>0, <1>1, <2>1, <2>2, <2>3, <2>4, <2>5, RequestStep
<1>4. CASE active = {} /\ ~(native /\ ~closed)
  <2>1. Goes(c, "done") /\ native' = FALSE /\ UNCHANGED <<clientVars, lock, evict>>
    BY <1>4 DEF CloseEngine, Moves, Goes
  <2>2. EngineOK'
    BY <1>0, <2>1 DEF EngineOK
  <2>3. LockInv'
    BY <1>0, <2>1, LockMove
  <2>4. StreamsPinTheEngine'
    BY <1>0, <1>4, <2>1 DEF StreamsPinTheEngine
  <2>. QED
    BY <1>0, <1>1, <2>1, <2>2, <2>3, <2>4, RequestStep
<1>. QED
  BY <1>2, <1>3, <1>4

LEMMA ShutDownKeeps ==
  ASSUME IInv, NEW c \in Callers, c \notin Decoders, ShutDown(c)
  PROVE  IInv'
<1>0. /\ TypeOK /\ EngineOK /\ LockInv /\ StreamsPinTheEngine
      /\ pc[c] = "shutdown" /\ Goes(c, "done") /\ LeaveBehind(<<c, "shutdown">>)
      /\ closed' = TRUE /\ error' = (error \/ worker # "dead") /\ worker' = "dead" /\ open' = {}
      /\ lock' = Nobody /\ native' = FALSE /\ UNCHANGED <<handle, fed, active, evict, fatal, missed>>
  BY TypeParts DEF IInv, ShutDown, Moves, Goes
<1>1. WorkerSameOrLost /\ error' \in BOOLEAN
  BY <1>0 DEF WorkerSameOrLost
<1>2. lock = c /\ active = {}
  BY <1>0 DEF LockInv, LockOK
<1>3. EngineOK'
  BY <1>0 DEF EngineOK
<1>4. LockInv'
  BY <1>0, <1>2, LockMove
<1>5. StreamsPinTheEngine'
  BY <1>0, <1>2 DEF StreamsPinTheEngine
<1>6. "shutdown" \in Ops /\ "done" \in PlacesOf(c) /\ Advances(c, "done") /\ "done" \notin Ops
      /\ "done" \in After("shutdown")
  BY <1>0 DEF RoleOf, Ops, After, PlacesOf, Advances
<1>. QED
  BY <1>0, <1>1, <1>3, <1>4, <1>5, <1>6, AnswerStep

-------------------------------------------------------------------------------
(* The invariance.                                                         *)

LEMMA InitIInv == Init => IInv
<1>. SUFFICES ASSUME Init
              PROVE  IInv
  OBVIOUS
<1>0. /\ queue = <<>> /\ bytes = 0 /\ cur = NoKey /\ phase = "idle"
      /\ reply = [k \in Keys |-> "none"] /\ gone = {} /\ late = {}
      /\ error = FALSE /\ closed = FALSE /\ worker = "idle" /\ open = {}
      /\ pc = [c \in Callers |-> "idle"] /\ handle = {} /\ fed = [s \in Streams |-> 0]
      /\ lock = Nobody /\ active = {} /\ evict = FALSE /\ native = TRUE /\ fatal = FALSE /\ missed = {}
  BY DEF Init
<1>1. ToSet(queue) = {} /\ IsInjective(queue) /\ queue \in Seq(Keys)
  BY <1>0, EmptyQueue, EmptySeq
<1>2. TypeOK
  <2>1. 0 \in 0..MaxAudio /\ 0 \in 0..MaxFeeds
    BY NativeAsrAssumption
  <2>2. fed \in [Streams -> 0..MaxFeeds] /\ reply \in [Keys -> {"none", "ok", "refused", "error"}] /\ PcOK
    BY <1>0, <2>1 DEF PcOK
  <2>. QED
    BY <1>0, <1>1, <2>1, <2>2 DEF TypeOK, PcOK
<1>3. PlaceInv /\ LockInv /\ StreamsPinTheEngine
  BY <1>0 DEF PlaceInv, PlacesOf, LockInv, LockOK, StreamsPinTheEngine
<1>4. AudioInv
  <2>1. Reserved = {}
    BY <1>0, <1>1, KeyFacts DEF Reserved
  <2>. QED
    BY <1>0, <2>1, FS_EmptySet DEF AudioInv, AudioIsGivenBack, Reserved
<1>5. KeyInv
  <2>1. ASSUME NEW k \in Keys
        PROVE  KeyOK(k)
    <3>1. pc[k[1]] = "idle" /\ k[2] # "idle" /\ ~Held(k) /\ reply[k] = "none"
      BY <1>0, <1>1, KeyFacts DEF Held, Ops
    <3>. QED
      BY <1>1, <3>1 DEF KeyOK
  <2>. QED
    BY <1>0, <1>1, <2>1 DEF KeyInv, PhaseInv
<1>6. ASSUME NEW s \in Streams
      PROVE  StreamOK(s)
  <2>1. s \in Callers /\ <<s, "open">> \in Keys /\ <<s, "close">> \in Keys
    BY KeyFacts DEF Ops
  <2>. QED
    BY <1>0, <1>1, <2>1, KeyFacts DEF StreamOK, Held
<1>7. StreamInv /\ FeedInv
  BY <1>0, <1>6 DEF StreamInv, FeedInv
<1>. QED
  BY <1>2, <1>3, <1>4, <1>5, <1>7 DEF IInv

LEMMA NextIInv == IInv /\ [Next]_vars => IInv'
<1>. SUFFICES ASSUME IInv, [Next]_vars
              PROVE  IInv'
  OBVIOUS
<1>1. CASE Rpc
  BY <1>1, TakeKeeps, AnswersKeeps, LooksForOrphanKeeps, OrphanClosesKeeps, SignalsKeeps,
     PipeBreaksKeeps, DrainsKeeps DEF Rpc
<1>2. CASE WorkerFails \/ TakesTooLong
  BY <1>2, WorkerFailsKeeps
<1>3. CASE StartEviction
  BY <1>3, StartEvictionKeeps
<1>4. ASSUME NEW s \in Streams, OpenStream(s)
      PROVE  IInv'
  BY <1>4, OpenStreamKeeps
<1>5. ASSUME NEW d \in Decoders, StartDecoder(d)
      PROVE  IInv'
  BY <1>5, StartDecoderKeeps
<1>6. ASSUME NEW c \in Callers, Caller(c)
      PROVE  IInv'
  <2>1. CASE c \in Streams /\ Stream(c)
    BY <2>1, FeedKeeps, EndStreamKeeps, CloseStreamKeeps, ReleaseKeeps DEF Stream
  <2>2. CASE c \in Decoders /\ Decode(c)
    BY <2>2, DecodeKeeps
  <2>3. CASE c \notin Decoders /\ Closing(c)
    BY <2>3, CloseEngineKeeps, ShutDownKeeps DEF Closing
  <2>4. CASE pc[c] \in Ops \ {"shutdown"} /\ Returns(c)
    BY <2>4, WaitKeeps
  <2>. QED
    BY <1>6, <2>1, <2>2, <2>3, <2>4 DEF Caller
<1>7. ASSUME NEW c \in Callers, pc[c] \in Ops \ {"shutdown"}, GivesUp(c)
      PROVE  IInv'
  BY <1>7, WaitKeeps
<1>8. CASE UNCHANGED vars
  <2>1. UNCHANGED <<queue, bytes, cur, phase, reply, gone, late, error, closed, worker, open, pc, handle,
                    fed, lock, active, evict, native, fatal, missed>>
    BY <1>8 DEF vars, clientVars, workerVars, engineVars
  <2>2. TypeOK' /\ PlaceInv' /\ LockInv' /\ StreamsPinTheEngine' /\ AudioInv'
    BY <2>1 DEF IInv, TypeOK, PlaceInv, LockInv, LockOK, StreamsPinTheEngine, AudioInv, AudioIsGivenBack, Reserved
  <2>3. KeyInv'
    BY <2>1 DEF IInv, KeyInv, KeyOK, PhaseInv, Held
  <2>4. StreamInv' /\ FeedInv'
    BY <2>1 DEF IInv, StreamInv, StreamOK, FeedInv, Held, IsCared
  <2>. QED
    BY <2>2, <2>3, <2>4 DEF IInv
<1>. QED
  BY <1>1, <1>2, <1>3, <1>4, <1>5, <1>6, <1>7, <1>8 DEF Next

THEOREM Invariance == SafeSpec => []IInv
BY InitIInv, NextIInv, PTL DEF SafeSpec

(* Every variable of the client, of its worker and of their callers has    *)
(* its type, and the RPC thread has a request exactly while it is at work: *)
(* whatever the threads interleave and however the worker fails.           *)
THEOREM TypeCorrect == SafeSpec => []TypeOK
<1>1. IInv => TypeOK
  BY DEF IInv
<1>. QED
  BY <1>1, Invariance, PTL

(* Whatever callers give up: the audio that is reserved is that of the     *)
(* requests that wait or run; no engine is closed under a stream that uses *)
(* it, and a close that streams put off is somebody's; and a stream that   *)
(* the worker has open will be closed by somebody, unless its opener left  *)
(* after the RPC thread had looked.                                        *)
THEOREM NothingLeaked == SafeSpec => []NothingIsLeaked
<1>1. IInv => NothingIsLeaked
  <2>. SUFFICES ASSUME IInv
                PROVE  NothingIsLeaked
    OBVIOUS
  <2>1. AudioIsGivenBack /\ StreamsPinTheEngine
    BY DEF IInv, AudioInv
  <2>2. \A s \in open \ missed : IsCared(s)
    BY DEF IInv, TypeOK, StreamInv, StreamOK
  <2>3. worker = "busy" /\ phase = "sent" /\ cur[2] = "feed" => cur[1] \in open
    BY DEF IInv, FeedInv
  <2>. QED
    BY <2>1, <2>2, <2>3 DEF NothingIsLeaked, StreamsAreKept
<1>. QED
  BY <1>1, Invariance, PTL

====
