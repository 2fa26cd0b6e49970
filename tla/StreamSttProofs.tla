---------------------------- MODULE StreamSttProofs ----------------------------
(***************************************************************************)
(* Proofs about the streamed transcription, for any number of workers,     *)
(* chunks and sessions and any limits of the queue.                        *)
(***************************************************************************)
EXTENDS StreamStt, TLAPS, FiniteSetTheorems, WellFoundedInduction

(* The tasks of the running session: in the queue, with a worker, or done. *)
Waiting == {queue[i] : i \in DOMAIN queue}
Current == Waiting \cup {task[w] : w \in InHand} \cup {c.from : c \in completed}

(* Types, with what they need: a worker that is not idle has a task, of a  *)
(* session that is not to come.                                            *)
TypeInv ==
  /\ TypeOK
  /\ seq <= accepted
  /\ \A w \in Workers : wpc[w] # "idle" => task[w] \in Tasks /\ task[w].epoch <= epoch
  /\ \A c \in completed : c.seq = c.from.seq

(* No two tasks of the session have the same number.                       *)
Distinct ==
  /\ \A i, j \in DOMAIN queue : queue[i].seq = queue[j].seq => i = j
  /\ \A v, w \in InHand : task[v].seq = task[w].seq => v = w
  /\ \A w \in InHand : \A t \in Waiting : t.seq # task[w].seq
  /\ \A c, d \in completed : c.seq = d.seq => c = d

(* Every number is pending or done; a pending one has its task.            *)
PlaceInv ==
  /\ pending \cap Done = {}
  /\ pending \cup Done = nextEmit..seq
  /\ pending = {t.seq : t \in Waiting} \cup {task[w].seq : w \in InHand}

(* What is done was let through the gate or was never queued.              *)
GateInv ==
  /\ GateSplitsTheSession
  /\ nextEmit <= started + 1 /\ started <= seq
  /\ unstarted \subseteq Done
  /\ \A c \in completed : c.seq <= started \/ c.seq \in unstarted

SessionInv == ResultsAreOfThisSession

(* How far the numbers of the session are behind the unique ones.          *)
Offset == accepted - seq

(* What was collected is older than what is to be collected.               *)
OrderInv ==
  /\ \A t \in Current : t.id = t.seq + Offset
  /\ \A n \in out : n < nextEmit + Offset

(* A chunk has its text, or no samples, or will get its text.              *)
Kept(n) ==
  \/ n \in out \cup unsampled
  \/ \E t \in Waiting : t.id = n
  \/ \E w \in InHand : task[w].id = n
  \/ \E c \in completed : c.text /\ c.from.id = n

(* Until the session is marked failed, all its speech is kept.             *)
LossInv ==
  /\ spoken \subseteq 1..accepted
  /\ \A t \in Current : t.id \in spoken => t.sound.speech
  /\ ~hadFailures => \A n \in spoken : Kept(n)

IInv == TypeInv /\ Distinct /\ PlaceInv /\ GateInv /\ SessionInv /\ BytesMatchQueue /\ OrderInv /\ LossInv

-------------------------------------------------------------------------------
(* Numbers.                                                                *)

LEMMA MaxChunksIsNat == MaxChunks \in Nat
BY StreamBounds

LEMMA LeastElement ==
  ASSUME NEW S, S \subseteq Nat, S # {}
  PROVE  \E n \in S : \A m \in S : n <= m
<1>1. PICK n \in S : \A m \in S : ~(<<m, n>> \in OpToRel(<, Nat))
  BY NatLessThanWellFounded, WFMin
<1>2. \A m \in S : ~(m < n)
  <2> SUFFICES ASSUME NEW m \in S, m < n PROVE FALSE
    OBVIOUS
  <2>1. <<m, n>> \in Nat \X Nat
    OBVIOUS
  <2>2. <<m, n>> \in OpToRel(<, Nat)
    BY <2>1 DEF OpToRel
  <2> QED
    BY <1>1, <2>2
<1> QED
  BY <1>2

(* The run of numbers of S that begins at a ends before a number not in S. *)
LEMMA RunEnds ==
  ASSUME NEW a \in Nat \ {0}, NEW S, S \subseteq Seqs
  PROVE  \E m \in Nat : a <= m + 1 /\ a..m \subseteq S /\ m + 1 \notin S
<1> DEFINE Gaps == {n \in Nat : n >= a /\ n \notin S}
<1>1. Gaps # {}
  <2>1. MaxChunks + a \in Gaps
    BY MaxChunksIsNat DEF Seqs
  <2> QED
    BY <2>1
<1>2. PICK k \in Gaps : \A n \in Gaps : k <= n
  <2>1. Gaps \subseteq Nat
    OBVIOUS
  <2> QED
    BY <1>1, <2>1, LeastElement
<1>3. k - 1 \in Nat /\ a <= (k - 1) + 1 /\ (k - 1) + 1 \notin S
  OBVIOUS
<1>4. a..(k - 1) \subseteq S
  BY <1>2
<1> QED
  BY <1>3, <1>4

-------------------------------------------------------------------------------
(* Sums.                                                                   *)

IsSum(f, s, n) ==
  /\ s \in [0..n -> Nat]
  /\ s[0] = 0
  /\ \A i \in 1..n : s[i] = s[i - 1] + f[i]

LEMMA SumExists ==
  ASSUME NEW f \in [Seqs -> Nat]
  PROVE  \E s : IsSum(f, s, MaxChunks)
<1> USE MaxChunksIsNat DEF Seqs
<1> DEFINE Bad == {n \in 0..MaxChunks : ~ \E s : IsSum(f, s, n)}
<1> SUFFICES ASSUME Bad # {} PROVE FALSE
  <2>1. MaxChunks \in 0..MaxChunks
    OBVIOUS
  <2> QED
    BY <2>1
<1>1. PICK n \in Bad : \A m \in Bad : n <= m
  <2>1. Bad \subseteq Nat
    OBVIOUS
  <2> QED
    BY <2>1, LeastElement
<1>2. n # 0
  <2>1. IsSum(f, [i \in 0..0 |-> 0], 0)
    BY DEF IsSum
  <2> QED
    BY <2>1
<1>3. n \in 1..MaxChunks /\ n - 1 \in 0..MaxChunks /\ n - 1 \notin Bad
  BY <1>1, <1>2
<1>4. PICK s : IsSum(f, s, n - 1)
  BY <1>3
<1> DEFINE t == [i \in 0..n |-> IF i = n THEN s[n - 1] + f[n] ELSE s[i]]
<1>5. IsSum(f, t, n)
  <2>1. s \in [0..(n - 1) -> Nat] /\ f[n] \in Nat /\ n \in Nat \ {0}
    BY <1>3, <1>4 DEF IsSum
  <2>2. t \in [0..n -> Nat]
    BY <2>1
  <2>3. \A i \in 1..n : t[i] = t[i - 1] + f[i]
    <3> SUFFICES ASSUME NEW i \in 1..n PROVE t[i] = t[i - 1] + f[i]
      OBVIOUS
    <3>1. i - 1 # n /\ i - 1 \in 0..n /\ i \in 0..n
      BY <2>1
    <3>2. t[i - 1] = s[i - 1]
      BY <3>1
    <3>3. CASE i = n
      BY <3>1, <3>2, <3>3
    <3>4. CASE i # n
      BY <1>4, <2>1, <3>1, <3>2, <3>4 DEF IsSum
    <3> QED
      BY <3>3, <3>4
  <2>4. t[0] = 0
    BY <1>4, <2>1 DEF IsSum
  <2> HIDE DEF t
  <2> QED
    BY <2>2, <2>3, <2>4 DEF IsSum
<1> QED
  BY <1>5

LEMMA SumsFacts ==
  ASSUME NEW f \in [Seqs -> Nat]
  PROVE  IsSum(f, Sums(f), MaxChunks)
<1> USE MaxChunksIsNat DEF Seqs
<1>1. PICK s : IsSum(f, s, MaxChunks)
  BY SumExists
<1>2. s = [n \in 0..MaxChunks |-> IF n = 0 THEN 0 ELSE s[n - 1] + f[n]]
  BY <1>1 DEF IsSum
<1> DEFINE u == Sums(f)
<1>3. u = [n \in 0..MaxChunks |-> IF n = 0 THEN 0 ELSE u[n - 1] + f[n]]
  BY <1>2 DEF Sums
<1> HIDE DEF u
<1>4. \A n \in 0..MaxChunks : u[n] = s[n]
  <2> DEFINE Bad == {n \in 0..MaxChunks : u[n] # s[n]}
  <2> SUFFICES ASSUME Bad # {} PROVE FALSE
    OBVIOUS
  <2>1. PICK n \in Bad : \A m \in Bad : n <= m
    <3>1. Bad \subseteq Nat
      OBVIOUS
    <3> QED
      BY <3>1, LeastElement
  <2>2. n # 0 /\ n - 1 \in 0..MaxChunks /\ n - 1 \notin Bad
    BY <1>2, <1>3, <2>1
  <2> QED
    BY <1>2, <1>3, <2>2
<1>5. u = s
  BY <1>2, <1>3, <1>4
<1> QED
  BY <1>1, <1>5 DEF u

(* One value more or less moves the sum by it.                             *)
LEMMA SumsChange ==
  ASSUME NEW f \in [Seqs -> Nat], NEW g \in [Seqs -> Nat], NEW k \in Seqs,
         \A i \in Seqs \ {k} : g[i] = f[i]
  PROVE  Sums(g)[MaxChunks] + f[k] = Sums(f)[MaxChunks] + g[k]
<1> USE MaxChunksIsNat DEF Seqs
<1> DEFINE F == Sums(f)
<1> DEFINE G == Sums(g)
<1>1. IsSum(f, F, MaxChunks) /\ IsSum(g, G, MaxChunks)
  BY SumsFacts
<1> HIDE DEF F, G
<1> DEFINE Moved(n) == (n < k => G[n] = F[n]) /\ (n >= k => G[n] + f[k] = F[n] + g[k])
<1> DEFINE Bad == {n \in 0..MaxChunks : ~Moved(n)}
<1>2. Bad = {}
  <2> SUFFICES ASSUME Bad # {} PROVE FALSE
    OBVIOUS
  <2>1. PICK n \in Bad : \A m \in Bad : n <= m
    <3>1. Bad \subseteq Nat
      OBVIOUS
    <3> QED
      BY <3>1, LeastElement
  <2>2. n # 0
    <3>1. F[0] = G[0] /\ 0 < k /\ ~(0 >= k)
      BY <1>1 DEF IsSum
    <3>2. Moved(0)
      BY <3>1
    <3> QED
      BY <2>1, <3>2
  <2>3. n \in 1..MaxChunks /\ n - 1 \in 0..MaxChunks /\ n - 1 \notin Bad
    BY <2>1, <2>2
  <2>4. G[n] = G[n - 1] + g[n] /\ F[n] = F[n - 1] + f[n] /\ G[n - 1] \in Nat /\ F[n - 1] \in Nat
    BY <1>1, <2>3 DEF IsSum
  <2>5. f[n] \in Nat /\ g[n] \in Nat /\ f[k] \in Nat /\ g[k] \in Nat /\ (n # k => g[n] = f[n])
    BY <2>3
  <2>6. Moved(n - 1) /\ n \in Nat /\ k \in Nat
    BY <2>3
  <2>7. Moved(n)
    <3>1. CASE n < k
      <4>1. n - 1 < k /\ n # k /\ ~(n >= k)
        BY <2>6, <3>1
      <4> QED
        BY <2>4, <2>5, <2>6, <4>1
    <3>2. CASE n = k
      <4>1. n - 1 < k /\ ~(n < k)
        BY <2>6, <3>2
      <4> QED
        BY <2>4, <2>5, <2>6, <3>2, <4>1
    <3>3. CASE n > k
      <4>1. n - 1 >= k /\ n # k /\ ~(n < k)
        BY <2>6, <3>3
      <4>2. G[n - 1] + f[k] = F[n - 1] + g[k]
        BY <2>6, <4>1
      <4>3. G[n] = G[n - 1] + f[n] /\ F[n] = F[n - 1] + f[n]
        BY <2>4, <2>5, <4>1
      <4>4. F[n - 1] \in Nat /\ G[n - 1] \in Nat /\ f[n] \in Nat /\ f[k] \in Nat /\ g[k] \in Nat
        BY <2>4, <2>5
      <4>5. G[n] + f[k] = F[n] + g[k]
        <5> HIDE DEF Bad, Moved, Seqs
        <5> QED
          BY <4>2, <4>3, <4>4
      <4> QED
        BY <4>1, <4>5
    <3> QED
      BY <2>6, <3>1, <3>2, <3>3
  <2> QED
    BY <2>1, <2>7
<1>3. MaxChunks \in 0..MaxChunks /\ MaxChunks >= k
  OBVIOUS
<1>4. G[MaxChunks] + f[k] = F[MaxChunks] + g[k]
  BY <1>2, <1>3
<1> QED
  BY <1>4 DEF F, G

(* No two tasks of H have the same number.                                 *)
Numbered(H) == H \subseteq Tasks /\ \A t, u \in H : t.seq = u.seq => t = u

LEMMA SizesFacts ==
  ASSUME NEW H, Numbered(H)
  PROVE  /\ Sizes(H) \in [Seqs -> Nat]
         /\ \A t \in H : Sizes(H)[t.seq] = t.sound.size
         /\ \A n \in Seqs : (\A t \in H : t.seq # n) => Sizes(H)[n] = 0
<1>1. \A t \in H : t.seq \in Seqs /\ t.sound.size \in Nat
  BY StreamBounds DEF Numbered, Tasks
<1>2. ASSUME NEW n \in Seqs, NEW t \in H, t.seq = n
      PROVE  (CHOOSE u \in H : u.seq = n) = t
  BY <1>2 DEF Numbered
<1>3. \A t \in H : Sizes(H)[t.seq] = t.sound.size
  BY <1>1, <1>2 DEF Sizes
<1>4. \A n \in Seqs : (\A t \in H : t.seq # n) => Sizes(H)[n] = 0
  BY DEF Sizes
<1>5. \A n \in Seqs : Sizes(H)[n] \in Nat
  BY <1>1, <1>3, <1>4
<1>6. Sizes(H) = [n \in Seqs |-> Sizes(H)[n]]
  BY DEF Sizes
<1> QED
  BY <1>3, <1>4, <1>5, <1>6

LEMMA MemoryAdd ==
  ASSUME NEW H, NEW t, t \notin H, Numbered(H \cup {t})
  PROVE  /\ Memory(H) \in Nat /\ t.sound.size \in Nat
         /\ Memory(H \cup {t}) = Memory(H) + t.sound.size
<1> DEFINE f == Sizes(H)
<1> DEFINE g == Sizes(H \cup {t})
<1>1. Numbered(H) /\ t \in Tasks /\ t.seq \in Seqs /\ \A u \in H : u.seq # t.seq
  BY DEF Numbered, Tasks
<1>2. f \in [Seqs -> Nat] /\ f[t.seq] = 0 /\ g \in [Seqs -> Nat] /\ g[t.seq] = t.sound.size
  BY <1>1, SizesFacts
<1>3. \A i \in Seqs \ {t.seq} : g[i] = f[i]
  <2> SUFFICES ASSUME NEW i \in Seqs \ {t.seq} PROVE g[i] = f[i]
    OBVIOUS
  <2>1. CASE \E u \in H : u.seq = i
    BY <1>1, <2>1, SizesFacts
  <2>2. CASE ~ \E u \in H : u.seq = i
    <3>1. \A u \in H \cup {t} : u.seq # i
      BY <2>2
    <3> QED
      BY <1>1, <2>2, <3>1, SizesFacts
  <2> QED
    BY <2>1, <2>2
<1> HIDE DEF f, g
<1>4. Sums(g)[MaxChunks] + f[t.seq] = Sums(f)[MaxChunks] + g[t.seq]
  BY <1>1, <1>2, <1>3, SumsChange
<1>5. Sums(f)[MaxChunks] \in Nat /\ Sums(g)[MaxChunks] \in Nat
  BY <1>2, SumsFacts, StreamBounds DEF IsSum
<1>6. t.sound.size \in Nat
  BY <1>1, StreamBounds DEF Tasks
<1> QED
  BY <1>2, <1>4, <1>5, <1>6 DEF Memory, f, g

LEMMA MemoryNone == Memory({}) = 0
<1> USE MaxChunksIsNat DEF Seqs
<1> DEFINE f == Sizes({})
<1>1. f \in [Seqs -> Nat] /\ \A n \in Seqs : f[n] = 0
  BY SizesFacts DEF Numbered
<1> HIDE DEF f
<1> DEFINE F == Sums(f)
<1>2. IsSum(f, F, MaxChunks)
  BY <1>1, SumsFacts
<1> HIDE DEF F
<1> DEFINE Bad == {n \in 0..MaxChunks : F[n] # 0}
<1>3. Bad = {}
  <2> SUFFICES ASSUME Bad # {} PROVE FALSE
    OBVIOUS
  <2>1. PICK n \in Bad : \A m \in Bad : n <= m
    <3>1. Bad \subseteq Nat
      OBVIOUS
    <3> QED
      BY <3>1, LeastElement
  <2>2. n \in 1..MaxChunks /\ n - 1 \in 0..MaxChunks /\ n - 1 \notin Bad
    BY <1>2, <2>1 DEF IsSum
  <2> QED
    BY <1>1, <1>2, <2>2 DEF IsSum
<1>4. F[MaxChunks] = 0
  BY <1>3
<1> QED
  BY <1>4 DEF Memory, f, F

-------------------------------------------------------------------------------
(* What the operations do to the tasks of the session.                     *)

LEMMA NumberFacts ==
  /\ MaxChunks \in Nat /\ MaxEpochs \in Nat /\ Seqs = 1..MaxChunks /\ Epochs = 0..MaxEpochs
  /\ \A t \in Tasks : t.seq \in Seqs /\ t.epoch \in Epochs /\ t.id \in Seqs /\ t.sound \in Sounds
  /\ \A sound \in Sounds : sound.size \in Nat \ {0} /\ sound.speech \in BOOLEAN
BY StreamBounds DEF Seqs, Epochs, Tasks

LEMMA TaskFacts ==
  ASSUME TypeInv
  PROVE  /\ Waiting \subseteq Tasks
         /\ \A w \in InHand : w \in Workers /\ task[w] \in Tasks /\ task[w].epoch = epoch
         /\ completed \subseteq [seq : Seqs, from : Tasks, text : BOOLEAN]
         /\ Held = Waiting \cup {task[w] : w \in Holders} /\ Holders \subseteq InHand
         /\ \A c \in completed : c.seq \in Seqs /\ c.from \in Tasks /\ c.text \in BOOLEAN
BY DEF TypeInv, TypeOK, Waiting, InHand, Stale, Held, Holders

(* A new epoch leaves no task.                                             *)
LEMMA ClearFacts ==
  ASSUME TypeInv, NewEpoch
  PROVE  Waiting' = {} /\ InHand' = {} /\ Held' = {} /\ completed' = {} /\ Current' = {}
<1>1. Waiting' = {} /\ completed' = {}
  BY DEF NewEpoch, Waiting
<1>2. \A w \in Workers : wpc[w] # "idle" => task[w].epoch # epoch + 1
  BY NumberFacts DEF TypeInv, TypeOK
<1>3. InHand' = {} /\ Holders' = {}
  BY <1>2 DEF NewEpoch, InHand, Holders, Stale, workerVars
<1> QED
  BY <1>1, <1>3 DEF Held, Waiting, Current

(* The new task of a submission.                                           *)
NewTask(t, force, sound) ==
  /\ t = [seq |-> seq + 1, epoch |-> epoch, id |-> accepted + 1, sound |-> sound]
  /\ t \in Tasks /\ t.seq = seq + 1 /\ t.epoch = epoch /\ t.id = accepted + 1 /\ t.sound = sound

Failed(t) == [seq |-> t.seq, from |-> t, text |-> FALSE]

(* What a submission changes, whether the task fits or not.                *)
Submitted(t) ==
  /\ seq' = seq + 1 /\ accepted' = accepted + 1 /\ accepted < MaxChunks
  /\ spoken' = IF t.sound.speech THEN spoken \cup {t.id} ELSE spoken
  /\ UNCHANGED <<epoch, active, nextEmit, wpc, task, out, unsampled>>
  /\ InHand' = InHand /\ Holders' = Holders

Admitted(t) ==
  /\ Fits(t)
  /\ Waiting' = Waiting \cup {t} /\ queue' = Append(queue, t) /\ Len(queue) < MaxQueue
  /\ pending' = pending \cup {t.seq}
  /\ bytes' = [bytes EXCEPT ![epoch] = @ + t.sound.size]
  /\ UNCHANGED <<completed, hadFailures, started, unstarted>>

Rejected(t) ==
  /\ completed' = completed \cup {Failed(t)}
  /\ hadFailures' = TRUE
  /\ Gate(started, unstarted \cup {t.seq})
  /\ Waiting' = Waiting
  /\ UNCHANGED <<pending, queue, bytes>>

LEMMA SubmitFacts ==
  ASSUME TypeInv, NEW force \in BOOLEAN, NEW sound \in Sounds, Submit(force, sound)
  PROVE  \E t \in Tasks : NewTask(t, force, sound) /\ Submitted(t) /\ (Admitted(t) \/ Rejected(t))
<1> DEFINE t == [seq |-> seq + 1, epoch |-> epoch, id |-> accepted + 1, sound |-> sound]
<1>1. NewTask(t, force, sound)
  <2>1. seq + 1 \in Seqs /\ accepted + 1 \in Seqs /\ epoch \in Epochs
    BY NumberFacts DEF Submit, TypeInv, TypeOK
  <2> QED
    BY <2>1 DEF NewTask, Tasks
<1>2. Submitted(t)
  BY DEF Submit, Submitted, workerVars, InHand, Holders, Stale
<1>3. CASE Fits(t)
  <2>1. Admit(t)
    BY <1>3 DEF Submit
  <2>2. queue \in Seq(Tasks) /\ t \in Tasks
    BY <1>1 DEF TypeInv, TypeOK, NewTask
  <2>3. Waiting' = Waiting \cup {t}
    <3>1. DOMAIN queue' = DOMAIN queue \cup {Len(queue) + 1} /\ queue'[Len(queue) + 1] = t
          /\ \A i \in DOMAIN queue : queue'[i] = queue[i]
      BY <2>1, <2>2 DEF Admit
    <3> QED
      BY <3>1 DEF Waiting
  <2>4. Len(queue) < MaxQueue
    BY <1>3 DEF Fits
  <2> QED
    BY <1>1, <1>2, <1>3, <2>1, <2>3, <2>4 DEF Admitted, Admit, NewTask
<1>4. CASE ~Fits(t)
  <2>1. Reject(t)
    BY <1>4 DEF Submit
  <2>2. Waiting' = Waiting
    BY <2>1 DEF Reject, Waiting
  <2> QED
    BY <1>1, <1>2, <2>1, <2>2 DEF Rejected, Reject, NewTask, Failed
<1> QED
  BY <1>3, <1>4

(* A worker takes the head of the queue.                                   *)
Taken(w, t) ==
  /\ wpc[w] = "idle" /\ w \notin InHand /\ t \in Waiting
  /\ task' = [task EXCEPT ![w] = t]
  /\ wpc' = [wpc EXCEPT ![w] = "popped"]
  /\ Waiting' = Waiting \ {t} /\ InHand' = InHand \cup {w} /\ Holders' = Holders \cup {w} /\ Held' = Held
  /\ queue' \in Seq(Tasks) /\ Len(queue') <= MaxQueue
  /\ \A i, j \in DOMAIN queue' : queue'[i].seq = queue'[j].seq => i = j
  /\ UNCHANGED <<sessionVars, bytes, ghostVars>>

LEMMA GetFacts ==
  ASSUME TypeInv, Distinct, SessionInv, NEW w \in Workers, Get(w)
  PROVE  \E t \in Tasks : Taken(w, t)
<1> DEFINE t == Head(queue)
<1>1. queue \in Seq(Tasks) /\ queue # <<>> /\ t = queue[1] /\ 1 \in DOMAIN queue /\ t \in Tasks /\ t.epoch = epoch
      /\ Len(queue) <= MaxQueue /\ MaxQueue \in Nat
  BY StreamBounds DEF Get, TypeInv, TypeOK, SessionInv, ResultsAreOfThisSession
<1>2. /\ queue' = Tail(queue) /\ task' = [task EXCEPT ![w] = t] /\ wpc' = [wpc EXCEPT ![w] = "popped"] /\ wpc[w] = "idle"
      /\ UNCHANGED <<sessionVars, bytes, ghostVars>>
  BY DEF Get
<1>3. /\ queue' \in Seq(Tasks) /\ Len(queue') = Len(queue) - 1 /\ Len(queue) \in Nat \ {0}
      /\ \A i \in 1..(Len(queue) - 1) : queue'[i] = queue[i + 1]
  BY <1>1, <1>2
<1>4. DOMAIN queue = 1..Len(queue) /\ DOMAIN queue' = 1..(Len(queue) - 1)
  BY <1>1, <1>3
<1>5. \A i, j \in DOMAIN queue' : queue'[i].seq = queue'[j].seq => i = j
  <2> SUFFICES ASSUME NEW i \in DOMAIN queue', NEW j \in DOMAIN queue', queue'[i].seq = queue'[j].seq PROVE i = j
    OBVIOUS
  <2>1. i + 1 \in DOMAIN queue /\ j + 1 \in DOMAIN queue /\ queue[i + 1].seq = queue[j + 1].seq
    BY <1>3, <1>4
  <2>2. i + 1 = j + 1
    BY <2>1 DEF Distinct
  <2> QED
    BY <1>3, <1>4, <2>2
<1>6. Waiting' = Waiting \ {t}
  <2>1. \A i \in DOMAIN queue' : queue'[i] \in Waiting \ {t}
    <3> SUFFICES ASSUME NEW i \in DOMAIN queue' PROVE queue'[i] \in Waiting \ {t}
      OBVIOUS
    <3>1. i + 1 \in DOMAIN queue /\ i + 1 # 1 /\ queue'[i] = queue[i + 1]
      BY <1>3, <1>4
    <3>2. queue[i + 1].seq # queue[1].seq
      BY <1>1, <3>1 DEF Distinct
    <3> QED
      BY <1>1, <3>1, <3>2 DEF Waiting
  <2>2. \A u \in Waiting \ {t} : \E i \in DOMAIN queue' : queue'[i] = u
    <3> SUFFICES ASSUME NEW u \in Waiting \ {t} PROVE \E i \in DOMAIN queue' : queue'[i] = u
      OBVIOUS
    <3>1. PICK i \in DOMAIN queue : queue[i] = u
      BY DEF Waiting
    <3>2. i # 1
      BY <1>1, <3>1
    <3>3. i - 1 \in DOMAIN queue' /\ queue'[i - 1] = queue[(i - 1) + 1] /\ (i - 1) + 1 = i
      BY <1>3, <1>4, <3>1, <3>2
    <3> QED
      BY <3>1, <3>3
  <2> QED
    BY <2>1, <2>2 DEF Waiting
<1>7. w \notin InHand /\ InHand' = InHand \cup {w} /\ Holders' = Holders \cup {w}
  BY <1>1, <1>2 DEF InHand, Holders, Stale, sessionVars, TypeInv, TypeOK
<1>8. t \in Waiting
  BY <1>1 DEF Waiting
<1>9. Held' = Held
  <2>1. \A v \in Holders : v # w /\ task'[v] = task[v]
    BY <1>2 DEF Holders, TypeInv, TypeOK
  <2>2. task'[w] = t
    BY <1>2 DEF TypeInv, TypeOK
  <2>3. {task'[v] : v \in Holders'} = {task[v] : v \in Holders} \cup {t}
    BY <1>7, <2>1, <2>2
  <2>4. Held' = Waiting' \cup {task'[v] : v \in Holders'} /\ Held = Waiting \cup {task[v] : v \in Holders}
    BY DEF Held, Waiting
  <2> QED
    BY <1>6, <1>8, <2>3, <2>4
<1>10. Len(queue') <= MaxQueue
  BY <1>1, <1>3
<1> HIDE DEF t
<1> QED
  BY <1>1, <1>2, <1>3, <1>5, <1>6, <1>7, <1>8, <1>9, <1>10 DEF Taken

(* The gate moves over the run of numbers that were never queued.          *)
LEMMA GateMoves ==
  ASSUME NEW s \in Nat, NEW U, U \subseteq Seqs, Gate(s, U)
  PROVE  \E m \in Nat : /\ m >= s /\ (s + 1)..m \subseteq U /\ m + 1 \notin U
                        /\ started' = m /\ unstarted' = {n \in U : ~(s < n /\ n <= m)}
                        /\ s <= MaxChunks => m <= MaxChunks
<1>1. PICK m \in Nat : s + 1 <= m + 1 /\ (s + 1)..m \subseteq U /\ m + 1 \notin U
  <2>1. s + 1 \in Nat \ {0}
    OBVIOUS
  <2> QED
    BY <2>1, RunEnds
<1>0. U \subseteq Nat /\ m >= s
  BY <1>1, MaxChunksIsNat DEF Seqs
<1>2. Skipped(s, U) = (s + 1)..m
  <2> USE <1>0
  <2>1. \A n \in U : n > s /\ (s + 1)..n \subseteq U => n <= m
    <3> SUFFICES ASSUME NEW n \in U, n > s, (s + 1)..n \subseteq U, n > m PROVE FALSE
      OBVIOUS
    <3>1. m + 1 \in (s + 1)..n
      BY <1>1
    <3> QED
      BY <1>1, <3>1
  <2>2. \A n \in (s + 1)..m : n \in U /\ n > s /\ (s + 1)..n \subseteq (s + 1)..m
    BY <1>1
  <2>3. Skipped(s, U) \subseteq (s + 1)..m
    <3>1. \A n \in Skipped(s, U) : n \in U /\ n > s /\ (s + 1)..n \subseteq U
      BY DEF Skipped
    <3>2. \A n \in Skipped(s, U) : n \in Nat /\ n > s /\ n <= m
      BY <2>1, <3>1
    <3> QED
      BY <3>2
  <2>4. (s + 1)..m \subseteq Skipped(s, U)
    <3> SUFFICES ASSUME NEW n \in (s + 1)..m PROVE n \in Skipped(s, U)
      OBVIOUS
    <3>1. n \in U /\ n > s /\ (s + 1)..n \subseteq U
      BY <1>1, <2>2
    <3> QED
      BY <3>1 DEF Skipped
  <2> QED
    BY <2>3, <2>4
<1>3. Cardinality((s + 1)..m) = m - s
  <2>1. s + 1 \in Int /\ m \in Int
    OBVIOUS
  <2>2. Cardinality((s + 1)..m) = IF s + 1 > m THEN 0 ELSE m - (s + 1) + 1
    BY <2>1, FS_Interval
  <2> QED
    BY <1>0, <2>2
<1>4. started' = m
  BY <1>2, <1>3 DEF Gate
<1>5. unstarted' = {n \in U : ~(s < n /\ n <= m)}
  <2>1. unstarted' = U \ (s + 1)..m
    BY <1>2 DEF Gate
  <2>2. \A n \in U : n \in (s + 1)..m <=> (s < n /\ n <= m)
    BY <1>0
  <2> QED
    BY <2>1, <2>2
<1>6. s <= MaxChunks => m <= MaxChunks
  <2>1. m > s => m \in (s + 1)..m
    BY <1>0
  <2> QED
    BY <1>0, <1>1, <2>1, MaxChunksIsNat DEF Seqs
<1> QED
  BY <1>0, <1>1, <1>4, <1>5, <1>6

(* A worker at the gate: it stays in hand, unless its task is stale.       *)
Steady(w) ==
  /\ Waiting' = Waiting /\ InHand' = InHand
  /\ \A v \in Workers \ {w} : wpc'[v] = wpc[v] /\ task'[v] = task[v]
  /\ wpc' \in [Workers -> {"idle", "popped", "gate", "call"}]
  /\ task' \in [Workers -> Tasks \cup {NoTask}]
  /\ OthersUnchanged
  /\ UNCHANGED <<queue, ghostVars>>

(* The task of w goes through the gate.                                    *)
Through(w) ==
  /\ w \in InHand /\ wpc[w] \in {"popped", "gate"} /\ wpc'[w] = "call" /\ task'[w] = task[w]
  /\ task[w].seq = started + 1
  /\ Gate(task[w].seq, unstarted)

(* It does not: it is stale, or waits.                                     *)
Stays(w) ==
  /\ w \in InHand => wpc[w] = "popped" /\ wpc'[w] = "gate" /\ task'[w] = task[w]
  /\ w \notin InHand => wpc'[w] = "idle"
  /\ UNCHANGED <<started, unstarted>>

LEMMA AtGateFacts ==
  ASSUME TypeInv, NEW w \in Workers, Begin(w) \/ PassGate(w)
  PROVE  Steady(w) /\ (Through(w) \/ Stays(w))
<1>1. /\ wpc[w] \in {"popped", "gate"} /\ wpc \in [Workers -> {"idle", "popped", "gate", "call"}]
      /\ task \in [Workers -> Tasks \cup {NoTask}] /\ OthersUnchanged /\ UNCHANGED <<queue, ghostVars>> /\ epoch' = epoch
  BY DEF Begin, PassGate, TypeInv, TypeOK, OthersUnchanged, intakeVars
<1>2. CASE Stale(w) /\ AtGate(w)
  <2>1. /\ wpc' = [wpc EXCEPT ![w] = "idle"] /\ task' = [task EXCEPT ![w] = NoTask] /\ UNCHANGED <<started, unstarted>>
        /\ w \notin InHand
    BY <1>2 DEF AtGate, Rest, InHand
  <2>2. InHand' = InHand
    BY <1>1, <2>1 DEF InHand, Stale
  <2> QED
    BY <1>1, <2>1, <2>2 DEF Steady, Stays, Waiting
<1>3. CASE ~Stale(w) /\ AtGate(w)
  <2>1. wpc' = [wpc EXCEPT ![w] = "call"] /\ task' = task /\ MyTurn(w) /\ Gate(task[w].seq, unstarted)
    BY <1>3 DEF AtGate
  <2>2. w \in InHand /\ InHand' = InHand
    BY <1>1, <1>3, <2>1 DEF InHand, Stale
  <2> QED
    BY <1>1, <2>1, <2>2 DEF Steady, Through, MyTurn, Waiting
<1>4. CASE ~AtGate(w)
  <2>1. ~Stale(w) /\ wpc[w] = "popped" /\ wpc' = [wpc EXCEPT ![w] = "gate"] /\ UNCHANGED <<started, unstarted, task>>
    BY <1>4 DEF Begin, PassGate
  <2>2. w \in InHand /\ InHand' = InHand
    BY <1>1, <2>1 DEF InHand, Stale
  <2> QED
    BY <1>1, <2>1, <2>2 DEF Steady, Stays, Waiting
<1> QED
  BY <1>2, <1>3, <1>4

(* A worker finishes: its task has a result, unless it was stale.          *)
Ended(w) ==
  /\ wpc[w] = "call" /\ InHand' = InHand \ {w} /\ Holders' = Holders
  /\ wpc' = [wpc EXCEPT ![w] = "idle"] /\ task' = [task EXCEPT ![w] = NoTask]
  /\ Waiting' = Waiting
  /\ UNCHANGED <<epoch, active, seq, accepted, started, nextEmit, unstarted, intakeVars, out, spoken>>

Result(t, text) == [seq |-> t.seq, from |-> t, text |-> text]

Answered(w) ==
  /\ w \in InHand
  /\ \E r \in Results :
       /\ completed' = completed \cup {Result(task[w], r = "text")}
       /\ hadFailures' = (hadFailures \/ Loses(task[w], r))
       /\ unsampled' = unsampled \cup {n \in {task[w].id} \cap spoken : r = "unsampled"}
  /\ pending' = pending \ {task[w].seq}

LEMMA FinishFacts ==
  ASSUME TypeInv, NEW w \in Workers, Finish(w)
  PROVE  /\ Ended(w)
         /\ Answered(w) \/ (w \notin InHand /\ UNCHANGED <<pending, completed, hadFailures, unsampled>>)
<1>1. /\ wpc[w] = "call" /\ wpc' = [wpc EXCEPT ![w] = "idle"] /\ task' = [task EXCEPT ![w] = NoTask]
      /\ UNCHANGED <<epoch, active, seq, accepted, started, nextEmit, unstarted, intakeVars, out, spoken>>
  BY DEF Finish, Rest
<1>2. InHand' = InHand \ {w} /\ Holders' = Holders
  <2>1. wpc \in [Workers -> {"idle", "popped", "gate", "call"}] /\ task \in [Workers -> Tasks \cup {NoTask}]
    BY DEF TypeInv, TypeOK
  <2> QED
    BY <1>1, <2>1 DEF InHand, Holders, Stale
<1>3. Waiting' = Waiting
  BY <1>1 DEF Waiting, intakeVars
<1>4. Ended(w)
  BY <1>1, <1>2, <1>3 DEF Ended
<1>5. w \in InHand <=> ~Dropped(w)
  BY <1>1 DEF InHand, Dropped
<1> QED
  BY <1>4, <1>5 DEF Finish, Answered, Result

(* The terminal prefix that collect takes.                                 *)
LEMMA ReadyFacts ==
  ASSUME TypeInv, Distinct, PlaceInv, GateInv
  PROVE  \E m \in Nat : /\ nextEmit <= m + 1 /\ m <= started
                        /\ Ready = {c \in completed : c.seq <= m}
                        /\ nextEmit..m \subseteq Done
                        /\ Cardinality(Ready) = m + 1 - nextEmit
<1> USE MaxChunksIsNat DEF Seqs
<1>0. /\ nextEmit \in Nat \ {0} /\ seq \in 0..MaxChunks /\ started \in 0..MaxChunks /\ started <= seq
      /\ nextEmit <= started + 1
  BY DEF TypeInv, TypeOK, GateInv
<1>1. Done \subseteq Seqs /\ \A c \in completed : c.seq \in Done /\ c.seq >= nextEmit /\ c.seq \in Nat
  <2>1. \A c \in completed : c.seq \in Seqs /\ c.seq \in Done
    BY TaskFacts DEF Done
  <2>2. \A n \in Done : n \in nextEmit..seq /\ n \in Seqs
    BY <2>1 DEF PlaceInv, Done
  <2> QED
    BY <1>0, <2>1, <2>2
<1>2. PICK m \in Nat : nextEmit <= m + 1 /\ nextEmit..m \subseteq Done /\ m + 1 \notin Done
  BY <1>0, <1>1, RunEnds
<1>3. m <= started
  <2> SUFFICES ASSUME m > started PROVE FALSE
    BY <1>0
  <2>1. started + 1 \in nextEmit..m
    BY <1>0
  <2>2. started + 1 \in Done
    BY <1>2, <2>1
  <2>3. started + 1 \notin pending /\ started + 1 <= seq
    BY <1>0, <2>2 DEF PlaceInv
  <2> QED
    BY <1>0, <2>3 DEF GateInv, GateSplitsTheSession
<1>4. Ready = {c \in completed : c.seq <= m}
  <2>1. \A c \in completed : nextEmit..c.seq \subseteq Done => c.seq <= m
    <3> SUFFICES ASSUME NEW c \in completed, nextEmit..c.seq \subseteq Done, c.seq > m PROVE FALSE
      BY <1>1
    <3>1. m + 1 \in nextEmit..c.seq
      BY <1>0, <1>1, <1>2
    <3> QED
      BY <1>2, <3>1
  <2>2. \A c \in completed : c.seq <= m => nextEmit..c.seq \subseteq nextEmit..m
    BY <1>0, <1>1
  <2> QED
    BY <1>2, <2>1, <2>2 DEF Ready
<1>5. Cardinality(Ready) = m + 1 - nextEmit
  <2> DEFINE f == [c \in Ready |-> c.seq]
  <2>1. f \in Bijection(Ready, nextEmit..m)
    <3>1. f \in [Ready -> nextEmit..m]
      BY <1>0, <1>1, <1>4
    <3>2. \A c, d \in Ready : f[c] = f[d] => c = d
      BY <1>4 DEF Distinct
    <3>3. \A n \in nextEmit..m : \E c \in Ready : f[c] = n
      <4> SUFFICES ASSUME NEW n \in nextEmit..m PROVE \E c \in Ready : f[c] = n
        OBVIOUS
      <4>1. PICK c \in completed : c.seq = n
        BY <1>2 DEF Done
      <4> QED
        BY <1>4, <4>1
    <3> QED
      BY <3>1, <3>2, <3>3 DEF Bijection, Injection, Surjection, IsInjective
  <2>2. IsFiniteSet(nextEmit..m) /\ Cardinality(nextEmit..m) = m + 1 - nextEmit
    <3>1. nextEmit \in Int /\ m \in Int
      BY <1>0
    <3>2. IsFiniteSet(nextEmit..m) /\ Cardinality(nextEmit..m) = IF nextEmit > m THEN 0 ELSE m - nextEmit + 1
      BY <3>1, FS_Interval
    <3> QED
      BY <1>0, <1>2, <3>2
  <2>3. f \in Injection(Ready, nextEmit..m) /\ f \in Surjection(Ready, nextEmit..m)
    BY <2>1 DEF Bijection
  <2>4. IsFiniteSet(Ready) /\ Cardinality(Ready) = Cardinality(nextEmit..m)
    BY <2>2, <2>3, FS_Injection
  <2> QED
    BY <2>2, <2>4
<1> QED
  BY <1>0, <1>2, <1>3, <1>4, <1>5

(* One turn of collect: it takes the results up to m.                      *)
Collected(m) ==
  /\ nextEmit <= m + 1 /\ m <= started /\ nextEmit..m \subseteq Done
  /\ completed' = {c \in completed : c.seq > m}
  /\ out' = out \cup {c.from.id : c \in {d \in completed : d.seq <= m /\ d.text}}
  /\ hadFailures => hadFailures'
  /\ hadFailures' \in BOOLEAN
  /\ \/ pending = {} /\ completed' = {} /\ seq' = 0 /\ started' = 0 /\ nextEmit' = 1
     \/ (pending # {} \/ completed' # {}) /\ nextEmit' = m + 1 /\ UNCHANGED <<seq, started>>
  /\ UNCHANGED <<epoch, active, accepted, pending, unstarted, intakeVars, workerVars, spoken, unsampled>>
  /\ Waiting' = Waiting /\ InHand' = InHand /\ Holders' = Holders

LEMMA CollectFacts ==
  ASSUME TypeInv, Distinct, PlaceInv, GateInv, Collect
  PROVE  \E m \in Nat : Collected(m)
<1>1. PICK m \in Nat : /\ nextEmit <= m + 1 /\ m <= started
                       /\ Ready = {c \in completed : c.seq <= m}
                       /\ nextEmit..m \subseteq Done
                       /\ Cardinality(Ready) = m + 1 - nextEmit
  BY ReadyFacts
<1>2. completed' = {c \in completed : c.seq > m}
  <2>1. completed' = completed \ Ready
    BY DEF Collect
  <2>2. \A c \in completed : c.seq \in Nat
    BY TaskFacts, NumberFacts
  <2> QED
    BY <1>1, <2>1, <2>2
<1>3. out' = out \cup {c.from.id : c \in {d \in completed : d.seq <= m /\ d.text}}
  <2>1. {d \in Ready : d.text} = {d \in completed : d.seq <= m /\ d.text}
    BY <1>1
  <2>2. out' = out \cup {c.from.id : c \in {d \in Ready : d.text}}
    BY DEF Collect
  <2> QED
    BY <2>1, <2>2
<1>4. hadFailures' \in BOOLEAN /\ (hadFailures => hadFailures')
  <2>1. hadFailures \in BOOLEAN
    BY DEF TypeInv, TypeOK
  <2> QED
    BY <2>1 DEF Collect
<1>5. \/ Quiet /\ seq' = 0 /\ started' = 0 /\ nextEmit' = 1
      \/ ~Quiet /\ nextEmit' = m + 1 /\ UNCHANGED <<seq, started>>
  <2>1. nextEmit \in Nat
    BY NumberFacts DEF TypeInv, TypeOK
  <2>2. nextEmit + (m + 1 - nextEmit) = m + 1
    BY <2>1
  <2> QED
    BY <1>1, <2>2 DEF Collect
<1>6. UNCHANGED <<epoch, active, accepted, pending, unstarted, intakeVars, workerVars, spoken, unsampled>>
  BY DEF Collect
<1>7. Waiting' = Waiting /\ InHand' = InHand /\ Holders' = Holders
  BY <1>6 DEF Waiting, InHand, Holders, Stale, intakeVars, workerVars
<1> QED
  BY <1>1, <1>2, <1>3, <1>4, <1>5, <1>6, <1>7 DEF Collected, Quiet

-------------------------------------------------------------------------------
(* Types.                                                                  *)

LEMMA InitType == Init => TypeInv
BY StreamBounds DEF Init, TypeInv, TypeOK, Epochs

LEMMA ClearType == TypeInv /\ NewEpoch /\ active' \in BOOLEAN => TypeInv'
<1> SUFFICES ASSUME TypeInv, NewEpoch, active' \in BOOLEAN PROVE TypeInv'
  OBVIOUS
<1>1. epoch' \in Epochs /\ epoch' = epoch + 1 /\ epoch \in Nat
  BY NumberFacts DEF NewEpoch, TypeInv, TypeOK
<1>2. TypeOK'
  <2>1. bytes' \in [Epochs -> 0..MaxBytes] /\ queue' \in Seq(Tasks) /\ Len(queue') <= MaxQueue
    BY StreamBounds DEF NewEpoch
  <2>2. seq' \in 0..MaxChunks /\ accepted' \in 0..MaxChunks /\ started' \in 0..MaxChunks /\ nextEmit' \in 1..(MaxChunks + 1)
    BY MaxChunksIsNat DEF NewEpoch
  <2> QED
    BY <1>1, <2>1, <2>2 DEF NewEpoch, TypeInv, TypeOK, workerVars
<1>3. \A w \in Workers : wpc'[w] # "idle" => task'[w] \in Tasks /\ task'[w].epoch <= epoch'
  BY <1>1, NumberFacts DEF NewEpoch, TypeInv, workerVars
<1> QED
  BY <1>2, <1>3 DEF TypeInv, NewEpoch

LEMMA SubmitType ==
  ASSUME TypeInv, NEW force \in BOOLEAN, NEW sound \in Sounds, Submit(force, sound)
  PROVE  TypeInv'
<1> USE MaxChunksIsNat DEF Seqs
<1>1. PICK t \in Tasks : NewTask(t, force, sound) /\ Submitted(t) /\ (Admitted(t) \/ Rejected(t))
  BY SubmitFacts
<1>2. /\ seq' \in 0..MaxChunks /\ accepted' \in 0..MaxChunks /\ seq' <= accepted'
      /\ t.seq \in Seqs /\ t.id \in Seqs /\ started \in 0..MaxChunks
  BY <1>1 DEF Submitted, NewTask, TypeInv, TypeOK
<1>3. spoken' \subseteq Seqs
  BY <1>1, <1>2 DEF Submitted, TypeInv, TypeOK
<1>4. /\ pending' \subseteq Seqs /\ completed' \subseteq [seq : Seqs, from : Tasks, text : BOOLEAN]
      /\ \A c \in completed' : c.seq = c.from.seq
      /\ hadFailures' \in BOOLEAN /\ started' \in 0..MaxChunks /\ unstarted' \subseteq Seqs
      /\ queue' \in Seq(Tasks) /\ Len(queue') <= MaxQueue /\ bytes' \in [Epochs -> 0..MaxBytes]
  <2>1. CASE Admitted(t)
    <3>1. queue \in Seq(Tasks) /\ queue' = Append(queue, t) /\ Len(queue) < MaxQueue /\ MaxQueue \in Nat
      BY <2>1, StreamBounds DEF Admitted, TypeInv, TypeOK
    <3>2. queue' \in Seq(Tasks) /\ Len(queue') <= MaxQueue
      BY <3>1
    <3>3. bytes[epoch] + t.sound.size \in 0..MaxBytes
      <4>1. t.sound.size \in Nat /\ bytes[epoch] \in Nat /\ MaxBytes \in Nat
        BY NumberFacts, StreamBounds DEF TypeInv, TypeOK
      <4> QED
        BY <2>1, <4>1 DEF Admitted, Fits
    <3>4. bytes' \in [Epochs -> 0..MaxBytes]
      BY <2>1, <3>3 DEF Admitted, TypeInv, TypeOK
    <3> QED
      BY <1>2, <2>1, <3>2, <3>4 DEF Admitted, TypeInv, TypeOK
  <2>2. CASE Rejected(t)
    <3>1. unstarted \cup {t.seq} \subseteq Seqs
      BY <1>2 DEF TypeInv, TypeOK
    <3>2. started' \in 0..MaxChunks /\ unstarted' \subseteq Seqs
      BY <1>2, <2>2, <3>1, GateMoves DEF Rejected
    <3>3. Failed(t) \in [seq : Seqs, from : Tasks, text : BOOLEAN] /\ Failed(t).seq = Failed(t).from.seq
      BY <1>2 DEF Failed
    <3>4. completed' \subseteq [seq : Seqs, from : Tasks, text : BOOLEAN] /\ \A c \in completed' : c.seq = c.from.seq
      BY <2>2, <3>3 DEF Rejected, TypeInv, TypeOK
    <3> QED
      BY <2>2, <3>2, <3>4 DEF Rejected, TypeInv, TypeOK
  <2> QED
    BY <1>1, <2>1, <2>2
<1> QED
  BY <1>1, <1>2, <1>3, <1>4 DEF Submitted, TypeInv, TypeOK

LEMMA GetType ==
  ASSUME TypeInv, Distinct, SessionInv, NEW w \in Workers, Get(w)
  PROVE  TypeInv'
<1>1. PICK t \in Tasks : Taken(w, t)
  BY GetFacts
<1>2. t.epoch = epoch
  BY <1>1 DEF Taken, Waiting, SessionInv, ResultsAreOfThisSession
<1> QED
  BY <1>1, <1>2, NumberFacts DEF Taken, TypeInv, TypeOK, sessionVars, ghostVars

LEMMA AtGateType ==
  ASSUME TypeInv, NEW w \in Workers, Begin(w) \/ PassGate(w)
  PROVE  TypeInv'
<1>1. Steady(w) /\ (Through(w) \/ Stays(w))
  BY AtGateFacts
<1>2. started' \in 0..MaxChunks /\ unstarted' \subseteq Seqs
  <2>1. CASE Through(w)
    <3>1. task[w].seq \in Seqs /\ unstarted \subseteq Seqs
      BY <2>1, TaskFacts, NumberFacts DEF Through, TypeInv, TypeOK
    <3> QED
      BY <2>1, <3>1, GateMoves, MaxChunksIsNat DEF Through, Seqs
  <2>2. CASE Stays(w)
    BY <2>2 DEF Stays, TypeInv, TypeOK
  <2> QED
    BY <1>1, <2>1, <2>2
<1>3. bytes' \in [Epochs -> 0..MaxBytes]
  <2>1. CASE PassGate(w)
    BY <2>1 DEF PassGate, intakeVars, TypeInv, TypeOK
  <2>2. CASE Begin(w)
    <3>1. task[w] \in Tasks /\ task[w].epoch \in Epochs /\ task[w].sound.size \in Nat /\ MaxBytes \in Nat
      BY <2>2, NumberFacts, StreamBounds DEF Begin, TypeInv
    <3>2. bytes \in [Epochs -> 0..MaxBytes] /\ bytes' = ReleasedBytes(task[w])
      BY <2>2 DEF Begin, TypeInv, TypeOK
    <3> QED
      BY <3>1, <3>2 DEF ReleasedBytes
  <2> QED
    BY <2>1, <2>2
<1>4. \A v \in Workers : wpc'[v] # "idle" => task'[v] \in Tasks /\ task'[v].epoch <= epoch'
  <2>1. \A v \in InHand : task[v] \in Tasks /\ task[v].epoch <= epoch
    BY TaskFacts, NumberFacts DEF TypeInv, TypeOK
  <2> QED
    BY <1>1, <2>1 DEF Steady, Through, Stays, TypeInv, OthersUnchanged
<1> QED
  BY <1>1, <1>2, <1>3, <1>4 DEF Steady, TypeInv, TypeOK, OthersUnchanged, ghostVars

LEMMA FinishType ==
  ASSUME TypeInv, NEW w \in Workers, Finish(w)
  PROVE  TypeInv'
<1>1. Ended(w) /\ (Answered(w) \/ UNCHANGED <<pending, completed, hadFailures, unsampled>>)
  BY FinishFacts
<1>2. /\ pending' \subseteq Seqs /\ completed' \subseteq [seq : Seqs, from : Tasks, text : BOOLEAN]
      /\ \A c \in completed' : c.seq = c.from.seq
      /\ hadFailures' \in BOOLEAN /\ unsampled' \subseteq Seqs
  <2>1. CASE Answered(w)
    <3>1. task[w] \in Tasks /\ task[w].seq \in Seqs /\ task[w].id \in Seqs
      BY <2>1, TaskFacts, NumberFacts DEF Answered
    <3>2. \A text \in BOOLEAN : /\ Result(task[w], text) \in [seq : Seqs, from : Tasks, text : BOOLEAN]
                                /\ Result(task[w], text).seq = Result(task[w], text).from.seq
      BY <3>1 DEF Result
    <3>3. PICK r \in Results :
            /\ completed' = completed \cup {Result(task[w], r = "text")}
            /\ hadFailures' = (hadFailures \/ Loses(task[w], r))
            /\ unsampled' = unsampled \cup {n \in {task[w].id} \cap spoken : r = "unsampled"}
      BY <2>1 DEF Answered
    <3>4. (r = "text") \in BOOLEAN
      OBVIOUS
    <3>5. Result(task[w], r = "text") \in [seq : Seqs, from : Tasks, text : BOOLEAN]
          /\ Result(task[w], r = "text").seq = Result(task[w], r = "text").from.seq
      BY <3>2, <3>4
    <3> QED
      BY <2>1, <3>1, <3>3, <3>5 DEF Answered, TypeInv, TypeOK
  <2> QED
    BY <1>1, <2>1 DEF TypeInv, TypeOK
<1> QED
  BY <1>1, <1>2 DEF Ended, TypeInv, TypeOK, intakeVars

LEMMA CollectType ==
  ASSUME TypeInv, Distinct, PlaceInv, GateInv, Collect
  PROVE  TypeInv'
<1>1. PICK m \in Nat : Collected(m)
  BY CollectFacts
<1>2. /\ seq' \in 0..MaxChunks /\ started' \in 0..MaxChunks /\ nextEmit' \in 1..(MaxChunks + 1) /\ seq' <= accepted
  BY <1>1, MaxChunksIsNat DEF Collected, TypeInv, TypeOK
<1>3. completed' \subseteq completed /\ out' \subseteq Seqs
  BY <1>1, TaskFacts, NumberFacts DEF Collected, TypeInv, TypeOK
<1> QED
  BY <1>1, <1>2, <1>3 DEF Collected, TypeInv, TypeOK, intakeVars, workerVars

LEMMA NextType == TypeInv /\ Distinct /\ PlaceInv /\ GateInv /\ SessionInv /\ [Next]_vars => TypeInv'
<1>1. TypeInv /\ EndSession => TypeInv'
  BY DEF EndSession, TypeInv, TypeOK, intakeVars, workerVars, ghostVars
<1>2. TypeInv /\ UNCHANGED vars => TypeInv'
  BY DEF vars, TypeInv, TypeOK, sessionVars, intakeVars, workerVars, ghostVars
<1> QED
  BY <1>1, <1>2, ClearType, SubmitType, GetType, AtGateType, FinishType, CollectType
     DEF Next, StartSession, Discard, WorkerStep

-------------------------------------------------------------------------------
(* The session of the results, and the numbers of the tasks.               *)

LEMMA InitSession == Init => SessionInv
BY DEF Init, SessionInv, ResultsAreOfThisSession

SessionHolds == \A t \in Waiting \cup {c.from : c \in completed} : t.epoch = epoch

LEMMA SessionForm == SessionInv <=> SessionHolds
BY DEF SessionInv, ResultsAreOfThisSession, SessionHolds, Waiting

LEMMA SessionFormNext == SessionInv' <=> SessionHolds'
BY DEF SessionInv, ResultsAreOfThisSession, SessionHolds, Waiting

LEMMA NextSession == TypeInv /\ Distinct /\ PlaceInv /\ GateInv /\ SessionInv /\ [Next]_vars => SessionInv'
<1> SUFFICES ASSUME TypeInv, Distinct, PlaceInv, GateInv, SessionHolds, SessionInv, [Next]_vars PROVE SessionHolds'
  BY SessionForm, SessionFormNext
<1>1. CASE NewEpoch
  BY <1>1, ClearFacts DEF SessionHolds
<1>2. CASE EndSession \/ UNCHANGED vars
  BY <1>2 DEF EndSession, vars, sessionVars, intakeVars, SessionHolds, Waiting
<1>3. ASSUME NEW force \in BOOLEAN, NEW sound \in Sounds, Submit(force, sound) PROVE SessionHolds'
  <2>1. PICK t \in Tasks : NewTask(t, force, sound) /\ Submitted(t) /\ (Admitted(t) \/ Rejected(t))
    BY <1>3, SubmitFacts
  <2>2. t.epoch = epoch' /\ epoch' = epoch /\ Failed(t).from = t
    BY <2>1 DEF NewTask, Submitted, Failed
  <2>3. Waiting' \subseteq Waiting \cup {t} /\ completed' \subseteq completed \cup {Failed(t)}
    BY <2>1 DEF Admitted, Rejected
  <2> QED
    BY <2>2, <2>3 DEF SessionHolds
<1>4. ASSUME NEW w \in Workers, Get(w) PROVE SessionHolds'
  <2>1. Waiting' \subseteq Waiting /\ UNCHANGED <<epoch, completed>>
    BY <1>4, GetFacts DEF Taken, sessionVars
  <2> QED
    BY <2>1 DEF SessionHolds
<1>5. ASSUME NEW w \in Workers, Begin(w) \/ PassGate(w) PROVE SessionHolds'
  BY <1>5, AtGateFacts DEF Steady, OthersUnchanged, SessionHolds
<1>6. ASSUME NEW w \in Workers, Finish(w) PROVE SessionHolds'
  <2>1. Waiting' = Waiting /\ epoch' = epoch
    BY <1>6, FinishFacts DEF Ended
  <2>2. CASE Answered(w)
    <3>1. task[w].epoch = epoch
      BY <2>2, TaskFacts DEF Answered
    <3>2. PICK text : completed' = completed \cup {Result(task[w], text)}
      BY <2>2 DEF Answered
    <3>3. Result(task[w], text).from = task[w]
      BY DEF Result
    <3> QED
      BY <2>1, <3>1, <3>2, <3>3 DEF SessionHolds
  <2>3. CASE completed' = completed
    BY <2>1, <2>3 DEF SessionHolds
  <2> QED
    BY <1>6, <2>2, <2>3, FinishFacts
<1>7. CASE Collect
  <2>1. Waiting' = Waiting /\ epoch' = epoch /\ completed' \subseteq completed
    BY <1>7, CollectFacts DEF Collected
  <2> QED
    BY <2>1 DEF SessionHolds
<1> QED
  BY <1>1, <1>2, <1>3, <1>4, <1>5, <1>6, <1>7 DEF Next, StartSession, Discard, WorkerStep

(* Whoever is new has a number of its own.                                 *)
LEMMA NewNumber ==
  ASSUME TypeInv, PlaceInv, GateInv
  PROVE  /\ \A t \in Waiting : t.seq \in pending /\ t.seq \in Nat /\ nextEmit <= t.seq /\ t.seq <= seq
         /\ \A w \in InHand : task[w].seq \in pending /\ task[w].seq \in Nat /\ nextEmit <= task[w].seq /\ task[w].seq <= seq
         /\ \A c \in completed : c.seq \in Done /\ c.seq \in Nat /\ nextEmit <= c.seq /\ c.seq <= seq /\ c.seq \notin pending
<1>1. nextEmit \in Nat /\ seq \in Nat
  BY MaxChunksIsNat DEF TypeInv, TypeOK
<1>2. \A n \in pending \cup Done : n \in Nat /\ nextEmit <= n /\ n <= seq
  BY <1>1 DEF PlaceInv
<1>3. \A c \in completed : c.seq \in Done
  BY DEF Done
<1> QED
  BY <1>2, <1>3 DEF PlaceInv

LEMMA InitDistinct == Init => Distinct
BY DEF Init, Distinct, InHand, Waiting

LEMMA SubmitDistinct ==
  ASSUME TypeInv, Distinct, PlaceInv, GateInv, NEW force \in BOOLEAN, NEW sound \in Sounds, Submit(force, sound)
  PROVE  Distinct'
<1>1. PICK t \in Tasks : NewTask(t, force, sound) /\ Submitted(t) /\ (Admitted(t) \/ Rejected(t))
  BY SubmitFacts
<1>2. t.seq = seq + 1 /\ seq \in Nat /\ InHand' = InHand /\ task' = task
  BY <1>1, MaxChunksIsNat DEF NewTask, Submitted, TypeInv, TypeOK
<1>3. /\ \A u \in Waiting : u.seq # t.seq
      /\ \A w \in InHand : task[w].seq # t.seq
      /\ \A c \in completed : c.seq # t.seq
  BY <1>2, NewNumber
<1>4. \A i, j \in DOMAIN queue' : queue'[i].seq = queue'[j].seq => i = j
  <2>1. CASE Admitted(t)
    <3>1. queue \in Seq(Tasks) /\ queue' = Append(queue, t)
      BY <2>1 DEF Admitted, TypeInv, TypeOK
    <3>2. /\ DOMAIN queue' = DOMAIN queue \cup {Len(queue) + 1} /\ queue'[Len(queue) + 1] = t
          /\ \A i \in DOMAIN queue : queue'[i] = queue[i] /\ queue[i] \in Waiting
      BY <3>1 DEF Waiting
    <3> QED
      BY <1>3, <3>2 DEF Distinct
  <2>2. CASE Rejected(t)
    BY <2>2 DEF Rejected, Distinct
  <2> QED
    BY <1>1, <2>1, <2>2
<1>5. Waiting' \subseteq Waiting \cup {t} /\ completed' \subseteq completed \cup {Failed(t)} /\ Failed(t).seq = t.seq
  BY <1>1 DEF Admitted, Rejected, Failed
<1>6. \A w \in InHand' : \A u \in Waiting' : u.seq # task'[w].seq
  BY <1>2, <1>3, <1>5 DEF Distinct
<1>7. \A c, d \in completed' : c.seq = d.seq => c = d
  BY <1>3, <1>5 DEF Distinct
<1> QED
  BY <1>2, <1>4, <1>6, <1>7 DEF Distinct

LEMMA NextDistinct == TypeInv /\ Distinct /\ PlaceInv /\ GateInv /\ SessionInv /\ [Next]_vars => Distinct'
<1> SUFFICES ASSUME TypeInv, Distinct, PlaceInv, GateInv, SessionInv, [Next]_vars PROVE Distinct'
  OBVIOUS
<1>1. CASE NewEpoch
  <2>1. queue' = <<>>
    BY <1>1 DEF NewEpoch
  <2> QED
    BY <1>1, <2>1, ClearFacts DEF Distinct
<1>2. CASE EndSession \/ UNCHANGED vars
  BY <1>2 DEF EndSession, vars, sessionVars, intakeVars, workerVars, Distinct, Waiting, InHand, Stale
<1>3. ASSUME NEW w \in Workers, Get(w) PROVE Distinct'
  <2>1. PICK t \in Tasks : Taken(w, t)
    BY <1>3, GetFacts
  <2>2. /\ t \in Waiting /\ Waiting' = Waiting \ {t} /\ InHand' = InHand \cup {w} /\ completed' = completed
        /\ task'[w] = t /\ \A v \in InHand : v # w /\ task'[v] = task[v]
    BY <2>1 DEF Taken, sessionVars, TypeInv, TypeOK, InHand
  <2>3. \A u \in Waiting' : u.seq # t.seq
    <3> SUFFICES ASSUME NEW u \in Waiting, u # t PROVE u.seq # t.seq
      BY <2>2
    <3> QED
      BY <2>2 DEF Waiting, Distinct
  <2>4. \A v, x \in InHand' : task'[v].seq = task'[x].seq => v = x
    BY <2>2 DEF Distinct
  <2>5. \A v \in InHand' : \A u \in Waiting' : u.seq # task'[v].seq
    BY <2>2, <2>3 DEF Distinct
  <2> QED
    BY <2>1, <2>2, <2>4, <2>5 DEF Taken, Distinct
<1>4. ASSUME NEW w \in Workers, Begin(w) \/ PassGate(w) PROVE Distinct'
  <2>1. \A v \in InHand : task'[v] = task[v]
    BY <1>4, AtGateFacts, TaskFacts DEF Steady, Through, Stays
  <2> QED
    BY <1>4, <2>1, AtGateFacts DEF Steady, OthersUnchanged, Distinct
<1>5. ASSUME NEW w \in Workers, Finish(w) PROVE Distinct'
  <2>1. Ended(w)
    BY <1>5, FinishFacts
  <2>2. InHand' \subseteq InHand /\ \A v \in InHand' : task'[v] = task[v]
    BY <2>1 DEF Ended, TypeInv, TypeOK, InHand
  <2>3. \A c, d \in completed' : c.seq = d.seq => c = d
    <3>1. CASE Answered(w)
      <4>1. \A c \in completed : c.seq # task[w].seq
        BY <3>1, NewNumber DEF Answered
      <4>2. PICK text : completed' = completed \cup {Result(task[w], text)}
        BY <3>1 DEF Answered
      <4> QED
        BY <4>1, <4>2 DEF Distinct, Result
    <3> QED
      BY <1>5, <3>1, FinishFacts DEF Distinct
  <2> QED
    BY <2>1, <2>2, <2>3 DEF Ended, Distinct, intakeVars
<1>6. CASE Collect
  <2>1. PICK m \in Nat : Collected(m)
    BY <1>6, CollectFacts
  <2> QED
    BY <2>1 DEF Collected, Distinct, intakeVars, workerVars
<1> QED
  BY <1>1, <1>2, <1>3, <1>4, <1>5, <1>6, SubmitDistinct DEF Next, StartSession, Discard, WorkerStep

-------------------------------------------------------------------------------
(* Where the numbers of the session are.                                   *)

LEMMA InitPlace == Init => PlaceInv
BY DEF Init, PlaceInv, Done, InHand, Waiting

LEMMA ClearPlace == TypeInv /\ NewEpoch => PlaceInv'
<1> SUFFICES ASSUME TypeInv, NewEpoch PROVE PlaceInv'
  OBVIOUS
<1>1. Waiting' = {} /\ InHand' = {} /\ completed' = {} /\ pending' = {} /\ nextEmit' = 1 /\ seq' = 0
  BY ClearFacts DEF NewEpoch
<1>2. Done' = {} /\ 1..0 = {}
  BY <1>1 DEF Done
<1> QED
  BY <1>1, <1>2 DEF PlaceInv

LEMMA SubmitPlace ==
  ASSUME TypeInv, PlaceInv, GateInv, NEW force \in BOOLEAN, NEW sound \in Sounds, Submit(force, sound)
  PROVE  PlaceInv'
<1>1. PICK t \in Tasks : NewTask(t, force, sound) /\ Submitted(t) /\ (Admitted(t) \/ Rejected(t))
  BY SubmitFacts
<1>2. /\ t.seq = seq + 1 /\ seq' = seq + 1 /\ seq \in Nat /\ nextEmit' = nextEmit /\ nextEmit \in Nat
      /\ InHand' = InHand /\ task' = task
  BY <1>1, MaxChunksIsNat DEF NewTask, Submitted, TypeInv, TypeOK
<1>3. t.seq \notin pending /\ t.seq \notin Done
  BY <1>2 DEF PlaceInv
<1>4. nextEmit'..seq' = (nextEmit..seq) \cup {t.seq}
  <2>1. nextEmit <= seq + 1
    BY <1>2, MaxChunksIsNat DEF GateInv, TypeInv, TypeOK
  <2> QED
    BY <1>2, <2>1
<1>5. CASE Admitted(t)
  <2>1. pending' = pending \cup {t.seq} /\ Waiting' = Waiting \cup {t} /\ Done' = Done
    BY <1>5 DEF Admitted, Done
  <2>2. {u.seq : u \in Waiting \cup {t}} = {u.seq : u \in Waiting} \cup {t.seq}
    OBVIOUS
  <2> QED
    BY <1>2, <1>3, <1>4, <2>1, <2>2 DEF PlaceInv
<1>6. CASE Rejected(t)
  <2>1. pending' = pending /\ Waiting' = Waiting /\ completed' = completed \cup {Failed(t)}
    BY <1>6 DEF Rejected
  <2>2. Done' = Done \cup {t.seq}
    <3>1. Failed(t).seq = t.seq
      BY DEF Failed
    <3>2. {c.seq : c \in completed \cup {Failed(t)}} = {c.seq : c \in completed} \cup {Failed(t).seq}
      OBVIOUS
    <3> QED
      BY <2>1, <3>1, <3>2 DEF Done
  <2> QED
    BY <1>2, <1>3, <1>4, <2>1, <2>2 DEF PlaceInv
<1> QED
  BY <1>1, <1>5, <1>6

LEMMA FinishPlace ==
  ASSUME TypeInv, Distinct, PlaceInv, NEW w \in Workers, Finish(w)
  PROVE  PlaceInv'
<1>1. Ended(w) /\ (Answered(w) \/ (w \notin InHand /\ UNCHANGED <<pending, completed, hadFailures, unsampled>>))
  BY FinishFacts
<1>2. /\ Waiting' = Waiting /\ InHand' = InHand \ {w} /\ seq' = seq /\ nextEmit' = nextEmit
      /\ \A v \in InHand' : v \in InHand /\ task'[v] = task[v]
  BY <1>1 DEF Ended, TypeInv, TypeOK, InHand
<1>3. {task'[v].seq : v \in InHand'} = {task[v].seq : v \in InHand'}
  BY <1>2
<1>4. CASE Answered(w)
  <2>1. pending' = pending \ {task[w].seq} /\ w \in InHand
    BY <1>4 DEF Answered
  <2>2. PICK text : completed' = completed \cup {Result(task[w], text)}
    BY <1>4 DEF Answered
  <2>3. Done' = Done \cup {task[w].seq}
    <3>1. Result(task[w], text).seq = task[w].seq
      BY DEF Result
    <3>2. {c.seq : c \in completed \cup {Result(task[w], text)}} = {c.seq : c \in completed} \cup {Result(task[w], text).seq}
      OBVIOUS
    <3> QED
      BY <2>2, <3>1, <3>2 DEF Done
  <2>4. {task[v].seq : v \in InHand'} = {task[v].seq : v \in InHand} \ {task[w].seq}
    BY <1>2, <2>1 DEF Distinct
  <2>5. task[w].seq \notin {t.seq : t \in Waiting}
    BY <2>1 DEF Distinct
  <2>6. task[w].seq \in pending
    BY <2>1 DEF PlaceInv
  <2> QED
    BY <1>2, <1>3, <2>1, <2>3, <2>4, <2>5, <2>6 DEF PlaceInv
<1>5. CASE w \notin InHand /\ UNCHANGED <<pending, completed, hadFailures, unsampled>>
  <2>1. InHand' = InHand /\ Done' = Done
    BY <1>2, <1>5 DEF Done
  <2> QED
    BY <1>2, <1>3, <1>5, <2>1 DEF PlaceInv
<1> QED
  BY <1>1, <1>4, <1>5

LEMMA CollectPlace ==
  ASSUME TypeInv, Distinct, PlaceInv, GateInv, Collect
  PROVE  PlaceInv'
<1>1. PICK m \in Nat : Collected(m)
  BY CollectFacts
<1>2. /\ pending' = pending /\ Waiting' = Waiting /\ InHand' = InHand /\ task' = task
      /\ completed' = {c \in completed : c.seq > m} /\ nextEmit <= m + 1 /\ m <= started
  BY <1>1 DEF Collected, workerVars
<1>3. nextEmit \in Nat /\ seq \in Nat /\ started \in Nat /\ nextEmit..m \subseteq Done
  BY <1>1, MaxChunksIsNat DEF Collected, TypeInv, TypeOK
<1>4. \A c \in completed : c.seq \in Nat
  BY TaskFacts, NumberFacts
<1>5. Done' = {n \in Done : n > m} /\ Done \subseteq Nat
  BY <1>2, <1>4 DEF Done
<1>6. \A n \in pending : n > m
  <2> SUFFICES ASSUME NEW n \in pending, ~(n > m) PROVE FALSE
    OBVIOUS
  <2>1. n \in nextEmit..seq
    BY DEF PlaceInv
  <2>2. n \in nextEmit..m
    BY <1>3, <2>1
  <2> QED
    BY <1>3, <2>2 DEF PlaceInv
<1>7. pending' \cup Done' = (m + 1)..seq
  <2>1. pending \cup Done = nextEmit..seq
    BY DEF PlaceInv
  <2>2. \A n : n \in (m + 1)..seq <=> n \in nextEmit..seq /\ n > m
    BY <1>2, <1>3
  <2> QED
    BY <1>2, <1>5, <1>6, <2>1, <2>2
<1>8. pending' \cup Done' = nextEmit'..seq'
  <2>1. CASE pending = {} /\ completed' = {} /\ seq' = 0 /\ nextEmit' = 1
    <3>1. Done' = {} /\ 1..0 = {}
      BY <2>1 DEF Done
    <3> QED
      BY <1>2, <2>1, <3>1
  <2>2. CASE nextEmit' = m + 1 /\ seq' = seq
    BY <1>7, <2>2
  <2> QED
    BY <1>1, <2>1, <2>2 DEF Collected
<1>9. pending' \cap Done' = {}
  BY <1>2, <1>5 DEF PlaceInv
<1> QED
  BY <1>2, <1>8, <1>9 DEF PlaceInv

LEMMA NextPlace == TypeInv /\ Distinct /\ PlaceInv /\ GateInv /\ SessionInv /\ [Next]_vars => PlaceInv'
<1> SUFFICES ASSUME TypeInv, Distinct, PlaceInv, GateInv, SessionInv, [Next]_vars PROVE PlaceInv'
  OBVIOUS
<1>1. CASE EndSession \/ UNCHANGED vars
  BY <1>1 DEF EndSession, vars, sessionVars, intakeVars, workerVars, PlaceInv, Done, Waiting, InHand, Stale
<1>2. ASSUME NEW w \in Workers, Get(w) PROVE PlaceInv'
  <2>1. PICK t \in Tasks : Taken(w, t)
    BY <1>2, GetFacts
  <2>2. /\ t \in Waiting /\ Waiting' = Waiting \ {t} /\ InHand' = InHand \cup {w}
        /\ task'[w] = t /\ \A v \in InHand : task'[v] = task[v]
    BY <2>1 DEF Taken, TypeInv, TypeOK, InHand
  <2>3. UNCHANGED <<pending, completed, nextEmit, seq>> /\ Done' = Done
    BY <2>1 DEF Taken, sessionVars, Done
  <2>4. {task'[v].seq : v \in InHand'} = {task[v].seq : v \in InHand} \cup {t.seq}
    BY <2>2
  <2>5. {u.seq : u \in Waiting} = {u.seq : u \in Waiting'} \cup {t.seq}
    BY <2>2
  <2> QED
    BY <2>3, <2>4, <2>5 DEF PlaceInv
<1>3. ASSUME NEW w \in Workers, Begin(w) \/ PassGate(w) PROVE PlaceInv'
  <2>1. Waiting' = Waiting /\ InHand' = InHand /\ \A v \in InHand : task'[v] = task[v]
    BY <1>3, AtGateFacts, TaskFacts DEF Steady, Through, Stays
  <2>2. UNCHANGED <<pending, completed, nextEmit, seq>> /\ Done' = Done
    BY <1>3, AtGateFacts DEF Steady, OthersUnchanged, Done
  <2>3. {task'[v].seq : v \in InHand'} = {task[v].seq : v \in InHand}
    BY <2>1
  <2> QED
    BY <2>1, <2>2, <2>3 DEF PlaceInv
<1> QED
  BY <1>1, <1>2, <1>3, ClearPlace, SubmitPlace, FinishPlace, CollectPlace DEF Next, StartSession, Discard, WorkerStep

-------------------------------------------------------------------------------
(* The gate.                                                               *)

(* What GateInv says of the tasks, and of the numbers.                     *)
TasksAtGate ==
  /\ \A t \in Waiting : t.seq > started
  /\ \A w \in InHand : IF wpc[w] \in {"popped", "gate"} THEN task[w].seq > started ELSE task[w].seq <= started

NumbersAtGate ==
  /\ \A n \in unstarted : n > started + 1 /\ n <= seq
  /\ started + 1 \in pending \/ started = seq
  /\ nextEmit <= started + 1 /\ started <= seq
  /\ unstarted \subseteq Done
  /\ \A c \in completed : c.seq <= started \/ c.seq \in unstarted

LEMMA GateForm == GateInv <=> TasksAtGate /\ NumbersAtGate
BY DEF GateInv, GateSplitsTheSession, TasksAtGate, NumbersAtGate, Waiting

LEMMA GateFormNext == GateInv' <=> TasksAtGate' /\ NumbersAtGate'
BY DEF GateInv, GateSplitsTheSession, TasksAtGate, NumbersAtGate, Waiting

LEMMA InitGate == Init => GateInv
BY DEF Init, GateInv, GateSplitsTheSession, Done, InHand

LEMMA NumbersAreNat ==
  ASSUME TypeInv
  PROVE  /\ seq \in Nat /\ started \in Nat /\ nextEmit \in Nat \ {0} /\ accepted \in Nat
         /\ unstarted \subseteq Nat /\ unstarted \subseteq Seqs
         /\ \A c \in completed : c.seq \in Nat
         /\ \A t \in Waiting : t.seq \in Nat
         /\ \A w \in InHand : task[w].seq \in Nat
<1>1. Seqs \subseteq Nat
  BY NumberFacts
<1> QED
  BY <1>1, TaskFacts, NumberFacts DEF TypeInv, TypeOK

LEMMA AdmitGate ==
  ASSUME TypeInv, Distinct, PlaceInv, TasksAtGate, NumbersAtGate,
         NEW t \in Tasks, t.seq = seq + 1, Submitted(t), Admitted(t)
  PROVE  TasksAtGate' /\ NumbersAtGate'
<1>1. /\ seq' = seq + 1 /\ UNCHANGED <<nextEmit, started, unstarted, completed, wpc, task>> /\ Done' = Done
      /\ InHand' = InHand /\ Waiting' = Waiting \cup {t} /\ pending' = pending \cup {t.seq}
  BY DEF Submitted, Admitted, Done
<1>2. seq \in Nat /\ started \in Nat /\ started <= seq /\ \A n \in unstarted : n \in Nat
  BY NumbersAreNat DEF NumbersAtGate
<1>3. TasksAtGate'
  BY <1>1, <1>2 DEF TasksAtGate
<1>4. \A n \in unstarted' : n > started' + 1 /\ n <= seq'
  BY <1>1, <1>2 DEF NumbersAtGate
<1>5. started' <= seq'
  BY <1>1, <1>2
<1> QED
  BY <1>1, <1>3, <1>4, <1>5 DEF NumbersAtGate

LEMMA RejectGate ==
  ASSUME TypeInv, Distinct, PlaceInv, GateInv, TasksAtGate, NumbersAtGate,
         NEW t \in Tasks, t.seq = seq + 1, Submitted(t), Rejected(t)
  PROVE  TasksAtGate' /\ NumbersAtGate'
<1> DEFINE U == unstarted \cup {t.seq}
<1>1. /\ seq' = seq + 1 /\ UNCHANGED <<nextEmit, pending, wpc, task>>
      /\ InHand' = InHand /\ Waiting' = Waiting /\ completed' = completed \cup {Failed(t)} /\ Failed(t).seq = t.seq
      /\ Gate(started, U)
  BY DEF Submitted, Rejected, Failed
<1>2. seq \in Nat /\ started \in Nat /\ nextEmit \in Nat \ {0} /\ started <= seq /\ U \subseteq Seqs /\ U \subseteq Nat
  BY NumbersAreNat, NumberFacts DEF NumbersAtGate
<1>3. PICK m \in Nat : /\ m >= started /\ (started + 1)..m \subseteq U /\ m + 1 \notin U
                       /\ started' = m /\ unstarted' = {n \in U : ~(started < n /\ n <= m)}
  BY <1>1, <1>2, GateMoves
<1>4. Done' = Done \cup {t.seq}
  <2>1. {c.seq : c \in completed \cup {Failed(t)}} = {c.seq : c \in completed} \cup {Failed(t).seq}
    OBVIOUS
  <2> QED
    BY <1>1, <2>1 DEF Done
<1>5. /\ \A u \in Waiting : u.seq \in Nat /\ u.seq <= seq
      /\ \A w \in InHand : task[w].seq \in Nat /\ task[w].seq <= seq
  BY NewNumber
<1>6. CASE started = seq
  <2>1. unstarted = {}
    BY <1>2, <1>6 DEF NumbersAtGate
  <2>2. U = {seq + 1}
    BY <2>1
  <2>3. m = seq + 1
    <3>1. m # started
      BY <1>3, <1>6, <2>2
    <3>2. m \in (started + 1)..m
      BY <1>2, <1>3, <3>1
    <3> QED
      BY <1>3, <2>2, <3>2
  <2>4. started' = seq + 1 /\ unstarted' = {}
    BY <1>2, <1>3, <1>6, <2>2, <2>3
  <2>5. \A u \in Waiting : FALSE
    BY <1>2, <1>5, <1>6 DEF TasksAtGate
  <2>6. \A w \in InHand : wpc[w] \notin {"popped", "gate"} /\ task[w].seq <= started'
    <3> SUFFICES ASSUME NEW w \in InHand PROVE wpc[w] \notin {"popped", "gate"} /\ task[w].seq <= started'
      OBVIOUS
    <3>1. task[w].seq \in Nat /\ task[w].seq <= seq
      BY <1>5
    <3>2. ~(task[w].seq > started)
      BY <1>2, <1>6, <3>1
    <3> QED
      BY <1>2, <2>4, <3>1, <3>2 DEF TasksAtGate
  <2>7. TasksAtGate'
    BY <1>1, <2>5, <2>6 DEF TasksAtGate
  <2>8. \A c \in completed' : c.seq <= started'
    <3> SUFFICES ASSUME NEW c \in completed PROVE c.seq <= started'
      BY <1>1, <1>2, <2>4
    <3>1. c.seq \in Nat /\ c.seq <= started
      BY <2>1, NumbersAreNat DEF NumbersAtGate
    <3> QED
      BY <1>2, <1>6, <2>4, <3>1
  <2>9. started' = seq' /\ nextEmit' <= started' + 1
    BY <1>1, <1>2, <1>6, <2>4 DEF NumbersAtGate
  <2>10. started' <= seq'
    BY <1>2, <2>4, <2>9
  <2> QED
    BY <2>4, <2>7, <2>8, <2>9, <2>10 DEF NumbersAtGate
<1>7. CASE started # seq
  <2>1. started + 1 \in pending /\ started + 1 \notin unstarted
    BY <1>2, <1>7 DEF NumbersAtGate
  <2>2. started + 1 <= seq
    BY <1>2, <1>7
  <2>3. started + 1 \notin U
    BY <1>2, <2>1, <2>2
  <2>4. m = started
    <3> SUFFICES ASSUME m # started PROVE FALSE
      OBVIOUS
    <3>1. started + 1 \in (started + 1)..m
      BY <1>2, <1>3
    <3> QED
      BY <1>3, <2>3, <3>1
  <2>5. started' = started /\ unstarted' = U
    BY <1>2, <1>3, <2>4
  <2>6. TasksAtGate'
    BY <1>1, <2>5 DEF TasksAtGate
  <2>7. \A n \in unstarted' : n > started' + 1 /\ n <= seq'
    <3> SUFFICES ASSUME NEW n \in U PROVE n > started + 1 /\ n <= seq + 1
      BY <1>1, <2>5
    <3>1. CASE n = seq + 1
      BY <1>2, <2>2, <3>1
    <3>2. CASE n \in unstarted
      BY <1>2, <3>2 DEF NumbersAtGate
    <3> QED
      BY <3>1, <3>2
  <2>8. \A c \in completed' : c.seq <= started' \/ c.seq \in unstarted'
    BY <1>1, <2>5 DEF NumbersAtGate
  <2>9. unstarted' \subseteq Done'
    BY <1>4, <2>5 DEF NumbersAtGate
  <2>10. started' <= seq' /\ nextEmit' <= started' + 1
    BY <1>1, <1>2, <2>5 DEF NumbersAtGate
  <2> QED
    BY <1>1, <2>1, <2>5, <2>6, <2>7, <2>8, <2>9, <2>10 DEF NumbersAtGate
<1> QED
  BY <1>6, <1>7

LEMMA ThroughGate ==
  ASSUME TypeInv, Distinct, PlaceInv, GateInv, TasksAtGate, NumbersAtGate,
         NEW w \in Workers, Steady(w), Through(w)
  PROVE  TasksAtGate' /\ NumbersAtGate'
<1> DEFINE s == task[w].seq
<1>1. /\ w \in InHand /\ wpc'[w] = "call" /\ task'[w] = task[w] /\ s = started + 1 /\ Gate(s, unstarted)
      /\ Waiting' = Waiting /\ InHand' = InHand /\ UNCHANGED <<seq, nextEmit, pending, completed>>
      /\ \A v \in InHand \ {w} : wpc'[v] = wpc[v] /\ task'[v] = task[v]
  BY TaskFacts DEF Through, Steady, OthersUnchanged
<1>2. seq \in Nat /\ started \in Nat /\ nextEmit \in Nat \ {0} /\ started <= seq /\ unstarted \subseteq Seqs /\ unstarted \subseteq Nat
      /\ s \in Nat
  BY <1>1, NumbersAreNat DEF NumbersAtGate
<1> HIDE DEF s
<1>3. PICK m \in Nat : /\ m >= s /\ (s + 1)..m \subseteq unstarted /\ m + 1 \notin unstarted
                       /\ started' = m /\ unstarted' = {n \in unstarted : ~(s < n /\ n <= m)}
  BY <1>1, <1>2, GateMoves
<1>4. Done' = Done
  BY <1>1 DEF Done
<1>5. ASSUME NEW n \in Nat, n \in pending, n > started, n # s PROVE n > m
  <2> SUFFICES ASSUME n <= m PROVE FALSE
    OBVIOUS
  <2>1. n \in (s + 1)..m
    BY <1>1, <1>2, <1>5
  <2>2. n \in Done
    BY <1>3, <2>1 DEF NumbersAtGate
  <2> QED
    BY <1>5, <2>2 DEF PlaceInv
<1>6. TasksAtGate'
  <2>1. \A t \in Waiting : t.seq > m
    <3> SUFFICES ASSUME NEW t \in Waiting PROVE t.seq > m
      OBVIOUS
    <3>1. t.seq \in Nat /\ t.seq \in pending /\ t.seq > started /\ t.seq # s
      BY <1>1, NewNumber DEF Distinct, TasksAtGate, s
    <3> QED
      BY <1>5, <3>1
  <2>2. \A v \in InHand : IF wpc'[v] \in {"popped", "gate"} THEN task'[v].seq > m ELSE task'[v].seq <= m
    <3> SUFFICES ASSUME NEW v \in InHand
                 PROVE  IF wpc'[v] \in {"popped", "gate"} THEN task'[v].seq > m ELSE task'[v].seq <= m
      OBVIOUS
    <3>1. CASE v = w
      BY <1>1, <1>3, <3>1 DEF s
    <3>2. CASE v # w
      <4>1. wpc'[v] = wpc[v] /\ task'[v] = task[v] /\ task[v].seq # s
        BY <1>1, <3>2 DEF Distinct, s
      <4>2. task[v].seq \in Nat /\ task[v].seq \in pending
        BY NewNumber
      <4>3. CASE wpc[v] \in {"popped", "gate"}
        BY <1>5, <4>1, <4>2, <4>3 DEF TasksAtGate
      <4>4. CASE wpc[v] \notin {"popped", "gate"}
        <5>1. task[v].seq <= started
          BY <4>4 DEF TasksAtGate
        <5> QED
          BY <1>1, <1>2, <1>3, <4>1, <4>2, <4>4, <5>1
      <4> QED
        BY <4>3, <4>4
    <3> QED
      BY <3>1, <3>2
  <2> QED
    BY <1>1, <1>3, <2>1, <2>2 DEF TasksAtGate
<1>7. \A n \in unstarted' : n > m + 1 /\ n <= seq
  <2> SUFFICES ASSUME NEW n \in unstarted, ~(s < n /\ n <= m) PROVE n > m + 1 /\ n <= seq
    BY <1>3
  <2>1. n \in Nat /\ n > started + 1 /\ n <= seq /\ n # m + 1
    BY <1>2, <1>3 DEF NumbersAtGate
  <2> QED
    BY <1>1, <1>2, <2>1
<1>8. m <= seq
  <2>1. CASE m = s
    <3>1. s \in pending
      BY <1>1, NewNumber DEF s
    <3> QED
      BY <1>2, <2>1, <3>1 DEF PlaceInv
  <2>2. CASE m # s
    <3>1. m \in (s + 1)..m
      BY <1>2, <1>3, <2>2
    <3> QED
      BY <1>3, <3>1 DEF NumbersAtGate
  <2> QED
    BY <2>1, <2>2
<1>9. m + 1 \in pending \/ m = seq
  <2> SUFFICES ASSUME m # seq PROVE m + 1 \in pending
    OBVIOUS
  <2>1. m + 1 \in nextEmit..seq
    BY <1>1, <1>2, <1>3, <1>8 DEF NumbersAtGate
  <2>2. m + 1 \notin Done
    <3> SUFFICES ASSUME NEW c \in completed, c.seq = m + 1 PROVE FALSE
      BY DEF Done
    <3>1. c.seq \notin unstarted /\ ~(c.seq <= started)
      BY <1>1, <1>2, <1>3
    <3> QED
      BY <3>1 DEF NumbersAtGate
  <2> QED
    BY <2>1, <2>2 DEF PlaceInv
<1>10. \A c \in completed : c.seq <= m \/ c.seq \in unstarted'
  <2> SUFFICES ASSUME NEW c \in completed PROVE c.seq <= m \/ c.seq \in unstarted'
    OBVIOUS
  <2>1. c.seq \in Nat
    BY NumbersAreNat
  <2>2. CASE c.seq <= started
    BY <1>1, <1>2, <1>3, <2>1, <2>2
  <2>3. CASE c.seq \in unstarted
    BY <1>3, <2>3
  <2> QED
    BY <2>2, <2>3 DEF NumbersAtGate
<1>11. nextEmit <= m + 1 /\ unstarted' \subseteq Done
  <2>1. nextEmit <= started + 1 /\ unstarted \subseteq Done
    BY DEF NumbersAtGate
  <2>2. nextEmit <= m + 1
    BY <1>1, <1>2, <1>3, <2>1
  <2> QED
    BY <1>3, <2>1, <2>2
<1> QED
  BY <1>1, <1>3, <1>4, <1>6, <1>7, <1>8, <1>9, <1>10, <1>11 DEF NumbersAtGate

LEMMA FinishGate ==
  ASSUME TypeInv, Distinct, PlaceInv, TasksAtGate, NumbersAtGate, NEW w \in Workers, Finish(w)
  PROVE  TasksAtGate' /\ NumbersAtGate'
<1>1. Ended(w) /\ (Answered(w) \/ (w \notin InHand /\ UNCHANGED <<pending, completed, hadFailures, unsampled>>))
  BY FinishFacts
<1>2. /\ Waiting' = Waiting /\ InHand' \subseteq InHand /\ UNCHANGED <<started, unstarted, seq, nextEmit>>
      /\ \A v \in InHand' : wpc'[v] = wpc[v] /\ task'[v] = task[v]
  BY <1>1 DEF Ended, TypeInv, TypeOK, InHand
<1>3. TasksAtGate'
  BY <1>2 DEF TasksAtGate
<1>4. CASE Answered(w)
  <2>1. w \in InHand /\ pending' = pending \ {task[w].seq} /\ wpc[w] = "call"
    BY <1>1, <1>4 DEF Answered, Ended
  <2>2. PICK text : completed' = completed \cup {Result(task[w], text)}
    BY <1>4 DEF Answered
  <2>3. Result(task[w], text).seq = task[w].seq
    BY DEF Result
  <2>4. task[w].seq \in Nat /\ task[w].seq <= started /\ started \in Nat
    BY <2>1, NumbersAreNat DEF TasksAtGate
  <2>5. task[w].seq # started + 1
    BY <2>4
  <2>6. Done \subseteq Done'
    BY <2>2 DEF Done
  <2> QED
    BY <1>2, <1>3, <2>1, <2>2, <2>3, <2>4, <2>5, <2>6 DEF NumbersAtGate
<1>5. CASE UNCHANGED <<pending, completed, hadFailures, unsampled>>
  BY <1>2, <1>3, <1>5 DEF NumbersAtGate, Done
<1> QED
  BY <1>1, <1>4, <1>5

LEMMA CollectGate ==
  ASSUME TypeInv, Distinct, PlaceInv, GateInv, TasksAtGate, NumbersAtGate, Collect
  PROVE  TasksAtGate' /\ NumbersAtGate'
<1>1. PICK m \in Nat : Collected(m)
  BY CollectFacts
<1>2. /\ pending' = pending /\ unstarted' = unstarted /\ Waiting' = Waiting /\ InHand' = InHand /\ wpc' = wpc /\ task' = task
      /\ completed' = {c \in completed : c.seq > m} /\ nextEmit <= m + 1 /\ m <= started
  BY <1>1 DEF Collected, workerVars
<1>3. seq \in Nat /\ started \in Nat /\ \A c \in completed : c.seq \in Nat
  BY NumbersAreNat
<1>4. unstarted \subseteq Done'
  <2> SUFFICES ASSUME NEW n \in unstarted PROVE \E c \in completed' : c.seq = n
    BY DEF Done
  <2>1. PICK c \in completed : c.seq = n
    BY DEF NumbersAtGate, Done
  <2>2. n > started + 1
    BY DEF NumbersAtGate
  <2> QED
    BY <1>2, <1>3, <2>1, <2>2
<1>5. CASE pending = {} /\ completed' = {} /\ seq' = 0 /\ started' = 0 /\ nextEmit' = 1
  <2>1. unstarted' = {} /\ Done' = {}
    BY <1>2, <1>4, <1>5 DEF Done
  <2>2. Waiting = {} /\ InHand = {}
    BY <1>5 DEF PlaceInv
  <2> QED
    BY <1>2, <1>5, <2>1, <2>2 DEF TasksAtGate, NumbersAtGate
<1>6. CASE nextEmit' = m + 1 /\ UNCHANGED <<seq, started>>
  <2>1. nextEmit' <= started' + 1
    BY <1>2, <1>3, <1>6
  <2>2. TasksAtGate'
    BY <1>2, <1>6 DEF TasksAtGate
  <2> QED
    BY <1>2, <1>4, <1>6, <2>1, <2>2 DEF NumbersAtGate
<1> QED
  BY <1>1, <1>5, <1>6 DEF Collected

LEMMA NextGate == TypeInv /\ Distinct /\ PlaceInv /\ GateInv /\ SessionInv /\ [Next]_vars => GateInv'
<1> SUFFICES ASSUME TypeInv, Distinct, PlaceInv, GateInv, SessionInv, [Next]_vars PROVE TasksAtGate' /\ NumbersAtGate'
  BY GateFormNext
<1>0. TasksAtGate /\ NumbersAtGate
  BY GateForm
<1>1. CASE NewEpoch
  <2>1. /\ Waiting' = {} /\ InHand' = {} /\ completed' = {} /\ unstarted' = {}
        /\ started' = 0 /\ seq' = 0 /\ nextEmit' = 1
    BY <1>1, ClearFacts DEF NewEpoch
  <2> QED
    BY <2>1 DEF TasksAtGate, NumbersAtGate
<1>2. CASE EndSession \/ UNCHANGED vars
  <2>1. UNCHANGED <<seq, started, nextEmit, pending, completed, unstarted, queue, wpc, task, epoch>>
    BY <1>2 DEF EndSession, vars, sessionVars, intakeVars, workerVars
  <2>2. Waiting' = Waiting /\ InHand' = InHand /\ Done' = Done
    BY <2>1 DEF Waiting, InHand, Stale, Done
  <2> QED
    BY <1>0, <2>1, <2>2 DEF TasksAtGate, NumbersAtGate
<1>3. ASSUME NEW force \in BOOLEAN, NEW sound \in Sounds, Submit(force, sound) PROVE TasksAtGate' /\ NumbersAtGate'
  <2>1. PICK t \in Tasks : NewTask(t, force, sound) /\ Submitted(t) /\ (Admitted(t) \/ Rejected(t))
    BY <1>3, SubmitFacts
  <2>2. t.seq = seq + 1
    BY <2>1 DEF NewTask
  <2> QED
    BY <1>0, <2>1, <2>2, AdmitGate, RejectGate
<1>4. ASSUME NEW w \in Workers, Get(w) PROVE TasksAtGate' /\ NumbersAtGate'
  <2>1. PICK t \in Tasks : Taken(w, t)
    BY <1>4, GetFacts
  <2>2. /\ t \in Waiting /\ Waiting' = Waiting \ {t} /\ InHand' = InHand \cup {w}
        /\ task'[w] = t /\ wpc'[w] = "popped" /\ \A v \in InHand : task'[v] = task[v] /\ wpc'[v] = wpc[v]
    BY <2>1 DEF Taken, TypeInv, TypeOK, InHand
  <2>3. UNCHANGED <<seq, started, nextEmit, pending, completed, unstarted>> /\ Done' = Done
    BY <2>1 DEF Taken, sessionVars, Done
  <2>4. TasksAtGate'
    BY <1>0, <2>2, <2>3 DEF TasksAtGate
  <2> QED
    BY <1>0, <2>3, <2>4 DEF NumbersAtGate
<1>5. ASSUME NEW w \in Workers, Begin(w) \/ PassGate(w) PROVE TasksAtGate' /\ NumbersAtGate'
  <2>1. Steady(w) /\ (Through(w) \/ Stays(w))
    BY <1>5, AtGateFacts
  <2>2. CASE Stays(w)
    <3>1. /\ Waiting' = Waiting /\ InHand' = InHand /\ UNCHANGED <<seq, started, nextEmit, pending, completed, unstarted>> /\ Done' = Done
      BY <2>1, <2>2 DEF Steady, OthersUnchanged, Stays, Done
    <3>2. \A v \in InHand : task'[v] = task[v] /\ (wpc'[v] \in {"popped", "gate"} <=> wpc[v] \in {"popped", "gate"})
      BY <2>1, <2>2, TaskFacts DEF Steady, Stays
    <3>3. TasksAtGate'
      BY <1>0, <3>1, <3>2 DEF TasksAtGate
    <3> QED
      BY <1>0, <3>1, <3>3 DEF NumbersAtGate
  <2> QED
    BY <1>0, <2>1, <2>2, ThroughGate
<1> QED
  BY <1>0, <1>1, <1>2, <1>3, <1>4, <1>5, FinishGate, CollectGate DEF Next, StartSession, Discard, WorkerStep

-------------------------------------------------------------------------------
(* The bytes.                                                              *)

LEMMA HeldNumbered ==
  ASSUME TypeInv, Distinct
  PROVE  Numbered(Held)
<1>1. Held \subseteq Tasks
  BY TaskFacts
<1>2. \A t, u \in Waiting : t.seq = u.seq => t = u
  BY DEF Distinct, Waiting
<1>3. \A v, w \in Holders : task[v].seq = task[w].seq => task[v] = task[w]
  BY TaskFacts DEF Distinct
<1>4. \A t \in Waiting : \A w \in Holders : t.seq # task[w].seq
  BY TaskFacts DEF Distinct
<1>5. \A t \in Held : t \in Waiting \/ \E w \in Holders : t = task[w]
  BY DEF Held, Waiting
<1> QED
  BY <1>1, <1>2, <1>3, <1>4, <1>5 DEF Numbered

LEMMA HeldNumberedNext ==
  ASSUME TypeInv', Distinct'
  PROVE  Numbered(Held')
<1>1. Held' \subseteq Tasks
  BY DEF TypeInv, TypeOK, Held, Holders
<1>2. \A t, u \in Waiting' : t.seq = u.seq => t = u
  BY DEF Distinct, Waiting
<1>0. Holders' \subseteq InHand'
  BY DEF Holders, InHand
<1>3. \A v, w \in Holders' : task'[v].seq = task'[w].seq => task'[v] = task'[w]
  BY <1>0 DEF Distinct
<1>4. \A t \in Waiting' : \A w \in Holders' : t.seq # task'[w].seq
  BY <1>0 DEF Distinct
<1>5. \A t \in Held' : t \in Waiting' \/ \E w \in Holders' : t = task'[w]
  BY DEF Held, Waiting
<1> QED
  BY <1>1, <1>2, <1>3, <1>4, <1>5 DEF Numbered

LEMMA InitBytes == Init => BytesMatchQueue
<1> SUFFICES ASSUME Init PROVE BytesMatchQueue
  OBVIOUS
<1>1. Held = {}
  BY DEF Init, Held, Holders
<1> QED
  BY <1>1, MemoryNone DEF Init, BytesMatchQueue

LEMMA SubmitBytes ==
  ASSUME TypeInv, Distinct, TypeInv', Distinct', PlaceInv, GateInv, BytesMatchQueue,
         NEW force \in BOOLEAN, NEW sound \in Sounds, Submit(force, sound)
  PROVE  BytesMatchQueue'
<1>1. PICK t \in Tasks : NewTask(t, force, sound) /\ Submitted(t) /\ (Admitted(t) \/ Rejected(t))
  BY SubmitFacts
<1>2. epoch' = epoch /\ Holders' = Holders /\ task' = task /\ epoch \in Epochs
  BY <1>1 DEF Submitted, TypeInv, TypeOK
<1>3. CASE Rejected(t)
  <2>1. bytes' = bytes /\ Held' = Held
    BY <1>2, <1>3 DEF Rejected, Held
  <2> QED
    BY <1>2, <2>1 DEF BytesMatchQueue
<1>4. CASE Admitted(t)
  <2>1. Held' = Held \cup {t}
    BY <1>2, <1>4 DEF Admitted, Held, Waiting
  <2>2. t \notin Held
    <3>1. t.seq = seq + 1 /\ seq \in Nat
      BY <1>1, NumbersAreNat DEF NewTask
    <3>2. \A u \in Held : u.seq <= seq
      BY NewNumber, TaskFacts
    <3> QED
      BY <3>1, <3>2
  <2>3. Memory(Held') = Memory(Held) + t.sound.size
    BY <2>1, <2>2, HeldNumberedNext, MemoryAdd
  <2>4. bytes \in [Epochs -> 0..MaxBytes] /\ bytes' = [bytes EXCEPT ![epoch] = @ + t.sound.size]
    BY <1>4 DEF Admitted, TypeInv, TypeOK
  <2>5. \A e \in Epochs : bytes'[e] = IF e = epoch THEN bytes[epoch] + t.sound.size ELSE bytes[e]
    BY <2>4
  <2> QED
    BY <1>2, <2>3, <2>5 DEF BytesMatchQueue
<1> QED
  BY <1>1, <1>3, <1>4

LEMMA BeginBytes ==
  ASSUME TypeInv, Distinct, BytesMatchQueue, NEW w \in Workers, Begin(w)
  PROVE  BytesMatchQueue'
<1>1. Steady(w) /\ (Through(w) \/ Stays(w))
  BY AtGateFacts
<1>2. /\ wpc[w] = "popped" /\ bytes' = ReleasedBytes(task[w]) /\ epoch' = epoch /\ Waiting' = Waiting
      /\ task[w] \in Tasks /\ wpc'[w] # "popped"
  BY <1>1 DEF Begin, Steady, Through, Stays, OthersUnchanged, TypeInv, InHand, Stale
<1>3. /\ bytes \in [Epochs -> 0..MaxBytes] /\ MaxBytes \in Nat /\ epoch \in Epochs
      /\ task[w].epoch \in Epochs /\ task[w].sound.size \in Nat
  BY <1>2, NumberFacts, StreamBounds DEF TypeInv, TypeOK
<1>4. \A e \in Epochs : bytes[e] \in Nat
  BY <1>3
<1>5. \A e \in Epochs : bytes'[e] = IF e = task[w].epoch
                                    THEN IF bytes[e] > task[w].sound.size THEN bytes[e] - task[w].sound.size ELSE 0
                                    ELSE bytes[e]
  BY <1>2, <1>3 DEF ReleasedBytes
<1>6. Holders' = Holders \ {w} /\ \A v \in Holders' : task'[v] = task[v]
  <2>1. \A v \in Workers \ {w} : wpc'[v] = wpc[v] /\ task'[v] = task[v]
    BY <1>1 DEF Steady
  <2> QED
    BY <1>2, <2>1 DEF Holders, Stale
<1>7. {task'[v] : v \in Holders'} = {task[v] : v \in Holders \ {w}}
  BY <1>6
<1>8. Held' = Waiting \cup {task[v] : v \in Holders \ {w}} /\ Held = Waiting \cup {task[v] : v \in Holders}
  BY <1>2, <1>7 DEF Held, Waiting
<1>9. CASE Stale(w)
  <2>1. Held' = Held
    BY <1>8, <1>9 DEF Holders
  <2>2. task[w].epoch # epoch
    BY <1>9 DEF Stale
  <2>3. \A e \in Epochs : bytes'[e] = bytes[e]
    BY <1>3, <1>4, <1>5, <2>2 DEF BytesMatchQueue
  <2> QED
    BY <1>2, <2>1, <2>3 DEF BytesMatchQueue
<1>10. CASE ~Stale(w)
  <2>1. w \in Holders /\ task[w].epoch = epoch
    BY <1>2, <1>10 DEF Holders, Stale
  <2>2. Held = Held' \cup {task[w]} /\ task[w] \notin Held'
    <3>1. Held = Held' \cup {task[w]}
      BY <1>8, <2>1
    <3>2. \A v \in Holders \ {w} : task[v] # task[w]
      BY <2>1, TaskFacts DEF Distinct
    <3>3. task[w] \notin Waiting
      BY <2>1, TaskFacts DEF Distinct
    <3> QED
      BY <1>8, <3>1, <3>2, <3>3
  <2>3. Memory(Held) = Memory(Held') + task[w].sound.size /\ Memory(Held') \in Nat
    BY <2>2, HeldNumbered, MemoryAdd
  <2>4. bytes[epoch] = Memory(Held)
    BY <1>3 DEF BytesMatchQueue
  <2>5. bytes'[epoch] = Memory(Held')
    BY <1>3, <1>5, <2>1, <2>3, <2>4
  <2> QED
    BY <1>2, <1>5, <2>1, <2>5 DEF BytesMatchQueue
<1> QED
  BY <1>9, <1>10

LEMMA NextBytes ==
  ASSUME TypeInv, Distinct, PlaceInv, GateInv, SessionInv, BytesMatchQueue, TypeInv', Distinct', [Next]_vars
  PROVE  BytesMatchQueue'
<1>1. CASE NewEpoch
  <2>1. Held' = {} /\ bytes' = [e \in Epochs |-> 0]
    BY <1>1, ClearFacts DEF NewEpoch
  <2> QED
    BY <2>1, MemoryNone DEF BytesMatchQueue
<1>2. CASE EndSession \/ UNCHANGED vars
  <2>1. UNCHANGED <<epoch, bytes, queue, wpc, task>>
    BY <1>2 DEF EndSession, vars, sessionVars, intakeVars, workerVars
  <2>2. Held' = Held
    BY <2>1 DEF Held, Holders, Stale
  <2> QED
    BY <2>1, <2>2 DEF BytesMatchQueue
<1>3. ASSUME NEW w \in Workers, Get(w) PROVE BytesMatchQueue'
  <2>1. Held' = Held /\ UNCHANGED <<epoch, bytes>>
    BY <1>3, GetFacts DEF Taken, sessionVars
  <2> QED
    BY <2>1 DEF BytesMatchQueue
<1>4. ASSUME NEW w \in Workers, PassGate(w) PROVE BytesMatchQueue'
  <2>1. Steady(w) /\ wpc[w] = "gate" /\ wpc'[w] # "popped" /\ bytes' = bytes /\ epoch' = epoch
    BY <1>4, AtGateFacts DEF PassGate, intakeVars, Steady, Through, Stays, OthersUnchanged
  <2>2. Holders' = Holders /\ \A v \in Holders : task'[v] = task[v]
    BY <2>1 DEF Steady, Holders, Stale
  <2>3. {task'[v] : v \in Holders'} = {task[v] : v \in Holders}
    BY <2>2
  <2>4. Held' = Held
    BY <2>1, <2>3 DEF Steady, Held, Waiting
  <2> QED
    BY <2>1, <2>4 DEF BytesMatchQueue
<1>5. ASSUME NEW w \in Workers, Finish(w) PROVE BytesMatchQueue'
  <2>1. /\ wpc[w] = "call" /\ Holders' = Holders /\ task' = [task EXCEPT ![w] = NoTask]
        /\ UNCHANGED <<epoch, queue, bytes>>
    BY <1>5, FinishFacts DEF Ended, intakeVars
  <2>2. \A v \in Holders : task'[v] = task[v]
    BY <2>1 DEF Holders, TypeInv, TypeOK
  <2>3. {task'[v] : v \in Holders'} = {task[v] : v \in Holders}
    BY <2>1, <2>2
  <2>4. Held' = Held
    BY <2>1, <2>3 DEF Held
  <2> QED
    BY <2>1, <2>4 DEF BytesMatchQueue
<1>6. CASE Collect
  <2>1. UNCHANGED <<epoch, queue, bytes, wpc, task>>
    BY <1>6 DEF Collect, intakeVars, workerVars
  <2>2. Held' = Held
    BY <2>1 DEF Held, Holders, Stale
  <2> QED
    BY <2>1, <2>2 DEF BytesMatchQueue
<1> QED
  BY <1>1, <1>2, <1>3, <1>4, <1>5, <1>6, SubmitBytes, BeginBytes DEF Next, StartSession, Discard, WorkerStep

-------------------------------------------------------------------------------
(* Order, and loss.                                                        *)

LEMMA CurrentFacts ==
  ASSUME TypeInv, PlaceInv, GateInv
  PROVE  /\ Current \subseteq Tasks
         /\ \A t \in Current : t.seq \in Nat /\ t.seq <= seq /\ t.id \in Nat /\ t.sound.speech \in BOOLEAN
         /\ Offset \in Int /\ accepted = seq + Offset /\ seq \in Nat /\ accepted \in Nat
<1>1. \A c \in completed : c.seq = c.from.seq
  BY DEF TypeInv
<1>2. Current \subseteq Tasks
  BY TaskFacts DEF Current
<1>3. \A t \in Current : t.seq \in Nat /\ t.seq <= seq
  BY <1>1, NewNumber DEF Current
<1>4. \A t \in Current : t.id \in Nat /\ t.sound.speech \in BOOLEAN
  BY <1>2, NumberFacts
<1> QED
  BY <1>2, <1>3, <1>4, NumbersAreNat DEF Offset

(* Only a submission brings a task into the session.                       *)
LEMMA CurrentMoves ==
  ASSUME TypeInv, Distinct, PlaceInv, GateInv, SessionInv, [Next]_vars
  PROVE  \/ Current' \subseteq Current
         \/ \E force \in BOOLEAN, sound \in Sounds : Submit(force, sound)
<1>1. CASE NewEpoch
  BY <1>1, ClearFacts
<1>2. CASE EndSession \/ UNCHANGED vars
  BY <1>2 DEF EndSession, vars, sessionVars, intakeVars, workerVars, Current, Waiting, InHand, Stale
<1>3. ASSUME NEW w \in Workers, Get(w) PROVE Current' \subseteq Current
  <2>1. PICK t \in Tasks : Taken(w, t)
    BY <1>3, GetFacts
  <2>2. /\ t \in Waiting /\ Waiting' \subseteq Waiting /\ InHand' = InHand \cup {w} /\ completed' = completed
        /\ task'[w] = t /\ \A v \in InHand : task'[v] = task[v]
    BY <2>1 DEF Taken, sessionVars, TypeInv, TypeOK, InHand
  <2>3. {task'[v] : v \in InHand'} \subseteq {task[v] : v \in InHand} \cup {t}
    BY <2>2
  <2> QED
    BY <2>2, <2>3 DEF Current
<1>4. ASSUME NEW w \in Workers, Begin(w) \/ PassGate(w) PROVE Current' \subseteq Current
  <2>1. /\ Waiting' = Waiting /\ InHand' = InHand /\ completed' = completed
        /\ \A v \in InHand : task'[v] = task[v]
    BY <1>4, AtGateFacts, TaskFacts DEF Steady, Through, Stays, OthersUnchanged
  <2>2. {task'[v] : v \in InHand'} = {task[v] : v \in InHand}
    BY <2>1
  <2> QED
    BY <2>1, <2>2 DEF Current
<1>5. ASSUME NEW w \in Workers, Finish(w) PROVE Current' \subseteq Current
  <2>1. Ended(w) /\ (Answered(w) \/ (w \notin InHand /\ UNCHANGED <<pending, completed, hadFailures, unsampled>>))
    BY <1>5, FinishFacts
  <2>2. Waiting' = Waiting /\ \A v \in InHand' : v \in InHand /\ task'[v] = task[v]
    BY <2>1 DEF Ended, TypeInv, TypeOK, InHand
  <2>3. {task'[v] : v \in InHand'} \subseteq {task[v] : v \in InHand}
    BY <2>2
  <2>4. CASE Answered(w)
    <3>1. PICK text : completed' = completed \cup {Result(task[w], text)} /\ w \in InHand
      BY <2>4 DEF Answered
    <3>2. Result(task[w], text).from = task[w]
      BY DEF Result
    <3>3. {c.from : c \in completed'} = {c.from : c \in completed} \cup {task[w]}
      BY <3>1, <3>2
    <3> QED
      BY <2>2, <2>3, <3>1, <3>3 DEF Current
  <2>5. CASE completed' = completed
    BY <2>2, <2>3, <2>5 DEF Current
  <2> QED
    BY <2>1, <2>4, <2>5
<1>6. CASE Collect
  <2>1. Waiting' = Waiting /\ InHand' = InHand /\ task' = task /\ completed' \subseteq completed
    BY <1>6, CollectFacts DEF Collected, workerVars
  <2> QED
    BY <2>1 DEF Current
<1> QED
  BY <1>1, <1>2, <1>3, <1>4, <1>5, <1>6 DEF Next, StartSession, Discard, WorkerStep

LEMMA SubmitCurrent ==
  ASSUME TypeInv, NEW t \in Tasks, Submitted(t), Admitted(t) \/ Rejected(t)
  PROVE  Current' \subseteq Current \cup {t}
<1>1. Waiting' \subseteq Waiting \cup {t} /\ completed' \subseteq completed \cup {Failed(t)} /\ InHand' = InHand /\ task' = task
  BY DEF Submitted, Admitted, Rejected
<1>2. Failed(t).from = t
  BY DEF Failed
<1>3. {c.from : c \in completed'} \subseteq {c.from : c \in completed} \cup {t}
  BY <1>1, <1>2
<1> QED
  BY <1>1, <1>3 DEF Current

LEMMA InitOrder == Init => OrderInv /\ LossInv
BY DEF Init, OrderInv, LossInv, Current, Waiting, InHand, Offset

LEMMA CollectOrder ==
  ASSUME TypeInv, Distinct, PlaceInv, GateInv, SessionInv, OrderInv, Collect
  PROVE  /\ OrderInv'
         /\ \A n \in out' \ out, k \in out : n > k
<1>1. PICK m \in Nat : Collected(m)
  BY CollectFacts
<1>2. /\ nextEmit <= m + 1 /\ m <= started /\ accepted' = accepted
      /\ out' = out \cup {c.from.id : c \in {d \in completed : d.seq <= m /\ d.text}}
  BY <1>1 DEF Collected
<1>3. /\ seq \in Nat /\ started \in Nat /\ nextEmit \in Nat /\ accepted \in Nat /\ started <= seq /\ Offset \in Int
      /\ accepted = seq + Offset /\ out \subseteq Nat
  BY NumbersAreNat, CurrentFacts, NumberFacts DEF GateInv, TypeInv, TypeOK
<1> HIDE DEF Offset
<1>4. \A c \in completed : c.from.id = c.seq + Offset /\ c.seq \in Nat /\ nextEmit <= c.seq
  BY NewNumber DEF OrderInv, Current, TypeInv
<1>5. \A n \in out : n \in Nat /\ n < nextEmit + Offset
  BY <1>3 DEF OrderInv
<1>6. \A n \in out' \ out : n \in Int /\ nextEmit + Offset <= n /\ n < m + 1 + Offset
  <2> SUFFICES ASSUME NEW c \in completed, c.seq <= m
               PROVE  c.from.id \in Int /\ nextEmit + Offset <= c.from.id /\ c.from.id < m + 1 + Offset
    BY <1>2
  <2> QED
    BY <1>3, <1>4
<1>7. \A n \in out' \ out, k \in out : n > k
  BY <1>3, <1>5, <1>6
<1>8. \A n \in out' : n \in Int /\ n < m + 1 + Offset
  <2> SUFFICES ASSUME NEW n \in out PROVE n \in Int /\ n < m + 1 + Offset
    BY <1>6
  <2> QED
    BY <1>2, <1>3, <1>5
<1>9. ASSUME pending = {}, completed' = {}, seq' = 0, nextEmit' = 1 PROVE OrderInv'
  <2>1. Waiting' = {} /\ InHand' = {}
    <3>1. Waiting = {} /\ InHand = {}
      BY <1>9 DEF PlaceInv
    <3>2. Waiting' = Waiting /\ InHand' = InHand
      BY <1>1 DEF Collected
    <3> QED
      BY <3>1, <3>2
  <2>2. Current' = {}
    BY <1>9, <2>1 DEF Current
  <2>3. nextEmit' + Offset' = 1 + accepted
    BY <1>2, <1>3, <1>9 DEF Offset
  <2>4. \A n \in out' : n < 1 + accepted
    BY <1>2, <1>3, <1>8
  <2> QED
    BY <2>2, <2>3, <2>4 DEF OrderInv
<1>10. ASSUME nextEmit' = m + 1, UNCHANGED <<seq, started>> PROVE OrderInv'
  <2>1. Offset' = Offset /\ nextEmit' = m + 1
    BY <1>2, <1>10 DEF Offset
  <2>2. Current' \subseteq Current
    <3>1. Waiting' = Waiting /\ InHand' = InHand /\ task' = task /\ completed' \subseteq completed
      BY <1>1 DEF Collected, workerVars
    <3> QED
      BY <3>1 DEF Current
  <2>3. \A n \in out' : n < nextEmit' + Offset'
    BY <1>8, <2>1
  <2> QED
    BY <2>1, <2>2, <2>3 DEF OrderInv
<1> QED
  BY <1>1, <1>7, <1>9, <1>10 DEF Collected

LEMMA NextOrder == TypeInv /\ Distinct /\ PlaceInv /\ GateInv /\ SessionInv /\ OrderInv /\ [Next]_vars => OrderInv'
<1> SUFFICES ASSUME TypeInv, Distinct, PlaceInv, GateInv, SessionInv, OrderInv, [Next]_vars PROVE OrderInv'
  OBVIOUS
<1>1. CASE NewEpoch
  BY <1>1, ClearFacts DEF NewEpoch, OrderInv
<1>2. ASSUME NEW force \in BOOLEAN, NEW sound \in Sounds, Submit(force, sound) PROVE OrderInv'
  <2>1. PICK t \in Tasks : NewTask(t, force, sound) /\ Submitted(t) /\ (Admitted(t) \/ Rejected(t))
    BY <1>2, SubmitFacts
  <2>2. Current' \subseteq Current \cup {t}
    BY <2>1, SubmitCurrent
  <2>3. Offset' = Offset /\ nextEmit' = nextEmit /\ out' = out /\ t.id = t.seq + Offset
    BY <2>1, NumbersAreNat DEF Submitted, NewTask, Offset
  <2> QED
    BY <2>2, <2>3 DEF OrderInv
<1>3. CASE UNCHANGED <<seq, accepted, nextEmit, out>> /\ Current' \subseteq Current
  <2>1. Offset' = Offset
    BY <1>3 DEF Offset
  <2> QED
    BY <1>3, <2>1 DEF OrderInv
<1>4. CASE EndSession \/ UNCHANGED vars
  <2>1. UNCHANGED <<seq, accepted, nextEmit, out>>
    BY <1>4 DEF EndSession, vars, sessionVars, ghostVars
  <2>2. Current' = Current
    BY <1>4 DEF EndSession, vars, sessionVars, intakeVars, workerVars, Current, Waiting, InHand, Stale
  <2> QED
    BY <1>3, <2>1, <2>2
<1>5. ASSUME NEW w \in Workers, WorkerStep(w) PROVE OrderInv'
  <2>1. UNCHANGED <<seq, accepted, nextEmit, out>>
    BY <1>5 DEF WorkerStep, Get, Begin, PassGate, Finish, sessionVars, ghostVars, OthersUnchanged
  <2>2. Current' \subseteq Current \/ \E force \in BOOLEAN, sound \in Sounds : Submit(force, sound)
    BY CurrentMoves
  <2> QED
    BY <1>2, <1>3, <2>1, <2>2
<1> QED
  BY <1>1, <1>2, <1>4, <1>5, CollectOrder DEF Next, StartSession, Discard

LEMMA SubmitLoss ==
  ASSUME TypeInv, Distinct, PlaceInv, GateInv, OrderInv, LossInv,
         NEW force \in BOOLEAN, NEW sound \in Sounds, Submit(force, sound)
  PROVE  LossInv'
<1>1. PICK t \in Tasks : NewTask(t, force, sound) /\ Submitted(t) /\ (Admitted(t) \/ Rejected(t))
  BY SubmitFacts
<1>2. /\ t.id = accepted + 1 /\ accepted' = accepted + 1 /\ accepted \in Nat /\ spoken \subseteq 1..accepted
      /\ spoken' = IF t.sound.speech THEN spoken \cup {t.id} ELSE spoken
      /\ UNCHANGED <<wpc, task, out, unsampled>> /\ InHand' = InHand
  BY <1>1, NumbersAreNat DEF NewTask, Submitted, LossInv
<1>3. spoken' \subseteq 1..accepted'
  BY <1>2
<1>4. \A u \in Current : u.id # t.id
  <2> SUFFICES ASSUME NEW u \in Current PROVE u.id # t.id
    OBVIOUS
  <2>1. u.seq \in Nat /\ u.seq <= seq /\ u.id = u.seq + Offset /\ accepted = seq + Offset /\ Offset \in Int /\ seq \in Nat
    BY CurrentFacts DEF OrderInv
  <2> QED
    BY <1>2, <2>1
<1>5. \A u \in Current' : u.id \in spoken' => u.sound.speech
  <2>1. Current' \subseteq Current \cup {t}
    BY <1>1, SubmitCurrent
  <2>2. t.id \in spoken' => t.sound.speech
    BY <1>2
  <2>3. \A u \in Current : u.id \in spoken' => u.sound.speech
    BY <1>2, <1>4 DEF LossInv
  <2> QED
    BY <2>1, <2>2, <2>3
<1>6. ~hadFailures' => \A n \in spoken' : Kept(n)'
  <2> SUFFICES ASSUME ~hadFailures', NEW n \in spoken' PROVE Kept(n)'
    OBVIOUS
  <2>1. Admitted(t)
    BY <1>1 DEF Rejected
  <2>2. ~hadFailures /\ Waiting' = Waiting \cup {t} /\ completed' = completed
    BY <2>1 DEF Admitted
  <2>3. n \in spoken \/ n = t.id
    BY <1>2
  <2>4. CASE n = t.id
    BY <2>2, <2>4 DEF Kept
  <2>5. CASE n \in spoken
    <3>1. Kept(n)
      BY <2>2, <2>5 DEF LossInv
    <3> QED
      BY <1>2, <2>2, <3>1 DEF Kept
  <2> QED
    BY <2>3, <2>4, <2>5
<1> QED
  BY <1>3, <1>5, <1>6 DEF LossInv

LEMMA FinishLoss ==
  ASSUME TypeInv, Distinct, PlaceInv, GateInv, LossInv, NEW w \in Workers, Finish(w), ~hadFailures', NEW n \in spoken
  PROVE  Kept(n)'
<1>1. Ended(w) /\ (Answered(w) \/ (w \notin InHand /\ UNCHANGED <<pending, completed, hadFailures, unsampled>>))
  BY FinishFacts
<1>2. /\ Waiting' = Waiting /\ InHand' = InHand \ {w} /\ UNCHANGED <<out, spoken>>
      /\ \A v \in InHand \ {w} : task'[v] = task[v]
  BY <1>1 DEF Ended, TypeInv, TypeOK, InHand
<1>3. CASE w \notin InHand /\ UNCHANGED <<pending, completed, hadFailures, unsampled>>
  <2>1. Kept(n)
    BY <1>3 DEF LossInv
  <2> QED
    BY <1>2, <1>3, <2>1 DEF Kept
<1>4. CASE Answered(w)
  <2>1. PICK r \in Results :
            /\ completed' = completed \cup {Result(task[w], r = "text")}
            /\ hadFailures' = (hadFailures \/ Loses(task[w], r))
            /\ unsampled' = unsampled \cup {k \in {task[w].id} \cap spoken : r = "unsampled"}
    BY <1>4 DEF Answered
  <2>2. ~hadFailures /\ ~Loses(task[w], r) /\ w \in InHand
    <3>1. hadFailures \in BOOLEAN
      BY DEF TypeInv, TypeOK
    <3> QED
      BY <1>4, <2>1, <3>1 DEF Answered
  <2>3. Kept(n)
    BY <2>2 DEF LossInv
  <2>4. CASE task[w].id = n
    <3>1. task[w].sound.speech
      BY <2>2, <2>4 DEF LossInv, Current
    <3>2. r = "text" \/ r = "unsampled"
      BY <2>2, <3>1 DEF Loses, Results
    <3>3. CASE r = "unsampled"
      BY <2>1, <2>4, <3>3 DEF Kept
    <3>4. CASE r = "text"
      <4>1. Result(task[w], TRUE) \in completed' /\ Result(task[w], TRUE).text /\ Result(task[w], TRUE).from.id = n
        BY <2>1, <2>4, <3>4 DEF Result
      <4> QED
        BY <4>1 DEF Kept
    <3> QED
      BY <3>2, <3>3, <3>4
  <2>5. CASE task[w].id # n
    BY <1>2, <2>1, <2>3, <2>5 DEF Kept
  <2> QED
    BY <2>4, <2>5
<1> QED
  BY <1>1, <1>3, <1>4

LEMMA NextLoss ==
  TypeInv /\ Distinct /\ PlaceInv /\ GateInv /\ SessionInv /\ OrderInv /\ LossInv /\ [Next]_vars => LossInv'
<1> SUFFICES ASSUME TypeInv, Distinct, PlaceInv, GateInv, SessionInv, OrderInv, LossInv, [Next]_vars PROVE LossInv'
  OBVIOUS
<1>1. CASE NewEpoch
  <2>1. Current' = {} /\ spoken' = {}
    BY <1>1, ClearFacts DEF NewEpoch
  <2> QED
    BY <2>1 DEF LossInv
<1>2. ASSUME UNCHANGED <<accepted, spoken>>, Current' \subseteq Current, ~hadFailures' => \A n \in spoken : Kept(n)'
      PROVE  LossInv'
  BY <1>2 DEF LossInv
<1>3. CASE EndSession \/ UNCHANGED vars
  <2>1. UNCHANGED <<accepted, spoken, hadFailures, out, unsampled, queue, wpc, task, epoch, completed>>
    BY <1>3 DEF EndSession, vars, sessionVars, intakeVars, workerVars, ghostVars
  <2>2. Waiting' = Waiting /\ InHand' = InHand
    BY <2>1 DEF Waiting, InHand, Stale
  <2>3. \A n : Kept(n)' <=> Kept(n)
    BY <2>1, <2>2 DEF Kept
  <2>4. Current' \subseteq Current
    BY <2>1, <2>2 DEF Current
  <2>5. ~hadFailures' => \A n \in spoken : Kept(n)'
    BY <2>1, <2>3 DEF LossInv
  <2> QED
    BY <1>2, <2>1, <2>4, <2>5
<1>4. ASSUME NEW w \in Workers, WorkerStep(w) PROVE LossInv'
  <2>1. UNCHANGED <<accepted, spoken>> /\ seq' = seq
    BY <1>4 DEF WorkerStep, Get, Begin, PassGate, Finish, sessionVars, ghostVars, OthersUnchanged
  <2>2. Current' \subseteq Current \/ \E force \in BOOLEAN, sound \in Sounds : Submit(force, sound)
    BY CurrentMoves
  <2>3. Current' \subseteq Current
    <3>1. \A force \in BOOLEAN, sound \in Sounds : Submit(force, sound) => seq' = seq + 1 /\ seq \in Nat
      BY NumbersAreNat DEF Submit
    <3> QED
      BY <2>1, <2>2, <3>1
  <2>4. ASSUME ~hadFailures', NEW n \in spoken PROVE Kept(n)'
    <3>1. CASE Get(w)
      <4>1. PICK t \in Tasks : Taken(w, t)
        BY <3>1, GetFacts
      <4>2. /\ t \in Waiting /\ Waiting' = Waiting \ {t} /\ InHand' = InHand \cup {w}
            /\ UNCHANGED <<completed, hadFailures, out, unsampled>>
            /\ task'[w] = t /\ \A v \in InHand : task'[v] = task[v]
        BY <4>1 DEF Taken, sessionVars, ghostVars, TypeInv, TypeOK, InHand
      <4>3. Kept(n)
        BY <2>4, <4>2 DEF LossInv
      <4> QED
        BY <4>2, <4>3 DEF Kept
    <3>2. CASE Begin(w) \/ PassGate(w)
      <4>1. /\ Waiting' = Waiting /\ InHand' = InHand /\ UNCHANGED <<completed, hadFailures, out, unsampled>>
            /\ \A v \in InHand : task'[v] = task[v]
        BY <3>2, AtGateFacts, TaskFacts DEF Steady, Through, Stays, OthersUnchanged, ghostVars
      <4>2. Kept(n)
        BY <2>4, <4>1 DEF LossInv
      <4> QED
        BY <4>1, <4>2 DEF Kept
    <3>3. CASE Finish(w)
      BY <2>4, <3>3, FinishLoss
    <3> QED
      BY <1>4, <3>1, <3>2, <3>3 DEF WorkerStep
  <2> QED
    BY <1>2, <2>1, <2>3, <2>4
<1>5. CASE Collect
  <2>1. PICK m \in Nat : Collected(m)
    BY <1>5, CollectFacts
  <2>2. /\ Waiting' = Waiting /\ InHand' = InHand /\ task' = task /\ completed' = {c \in completed : c.seq > m}
        /\ out' = out \cup {c.from.id : c \in {d \in completed : d.seq <= m /\ d.text}}
        /\ UNCHANGED <<accepted, spoken, unsampled>> /\ (hadFailures => hadFailures')
    BY <2>1 DEF Collected, workerVars
  <2>3. Current' \subseteq Current
    BY <2>2 DEF Current
  <2>4. ASSUME ~hadFailures', NEW n \in spoken PROVE Kept(n)'
    <3>1. Kept(n)
      BY <2>2, <2>4 DEF LossInv
    <3>2. ASSUME NEW c \in completed, c.text, c.from.id = n PROVE Kept(n)'
      <4>1. c.seq \in Nat
        BY NumbersAreNat
      <4>2. CASE c.seq > m
        BY <2>2, <3>2, <4>2 DEF Kept
      <4>3. CASE c.seq <= m
        BY <2>2, <3>2, <4>3 DEF Kept
      <4> QED
        BY <4>1, <4>2, <4>3
    <3> QED
      BY <2>2, <3>1, <3>2 DEF Kept
  <2> QED
    BY <1>2, <2>2, <2>3, <2>4
<1> QED
  BY <1>1, <1>3, <1>4, <1>5, SubmitLoss DEF Next, StartSession, Discard

-------------------------------------------------------------------------------
(* A pending chunk is in one place only.                                   *)

LEMMA PendingCount ==
  ASSUME TypeInv, Distinct, PlaceInv
  PROVE  Cardinality(pending) = Len(queue) + Cardinality(InHand)
<1> DEFINE A == {t.seq : t \in Waiting}
<1> DEFINE B == {task[w].seq : w \in InHand}
<1>1. queue \in Seq(Tasks) /\ Len(queue) \in Nat /\ DOMAIN queue = 1..Len(queue)
  BY DEF TypeInv, TypeOK
<1>2. IsFiniteSet(A) /\ Cardinality(A) = Len(queue)
  <2> DEFINE f == [i \in 1..Len(queue) |-> queue[i].seq]
  <2>1. f \in [1..Len(queue) -> A]
    BY <1>1 DEF Waiting
  <2>2. \A i, j \in 1..Len(queue) : f[i] = f[j] => i = j
    BY <1>1 DEF Distinct
  <2>3. \A n \in A : \E i \in 1..Len(queue) : f[i] = n
    BY <1>1 DEF Waiting
  <2>4. f \in Surjection(1..Len(queue), A) /\ f \in Injection(1..Len(queue), A)
    BY <2>1, <2>2, <2>3 DEF Injection, Surjection, IsInjective
  <2>5. IsFiniteSet(1..Len(queue)) /\ Cardinality(1..Len(queue)) = Len(queue)
    <3>1. Cardinality(1..Len(queue)) = IF 1 > Len(queue) THEN 0 ELSE Len(queue) - 1 + 1
      BY <1>1, FS_Interval
    <3>2. IsFiniteSet(1..Len(queue))
      BY <1>1, FS_Interval
    <3> QED
      BY <1>1, <3>1, <3>2
  <2> HIDE DEF f, A
  <2> QED
    BY <2>4, <2>5, FS_Surjection
<1>3. IsFiniteSet(InHand) /\ IsFiniteSet(B) /\ Cardinality(B) = Cardinality(InHand)
  <2> DEFINE g == [w \in InHand |-> task[w].seq]
  <2>1. IsFiniteSet(InHand)
    <3>1. IsFiniteSet(Workers) /\ InHand \in SUBSET Workers
      BY StreamBounds DEF InHand
    <3> QED
      BY <3>1, FS_Subset
  <2>2. g \in [InHand -> B] /\ \A n \in B : \E w \in InHand : g[w] = n
    OBVIOUS
  <2>3. \A v, w \in InHand : g[v] = g[w] => v = w
    BY DEF Distinct
  <2>4. g \in Surjection(InHand, B) /\ g \in Injection(InHand, B)
    BY <2>2, <2>3 DEF Injection, Surjection, IsInjective
  <2> HIDE DEF g, B
  <2> QED
    BY <2>1, <2>4, FS_Surjection
<1>4. A \cap B = {} /\ pending = A \cup B
  BY DEF Distinct, PlaceInv
<1> HIDE DEF A, B
<1>5. Cardinality(A \cap B) = 0
  BY <1>4, FS_EmptySet
<1>6. Cardinality(A \cup B) = Cardinality(A) + Cardinality(B) - Cardinality(A \cap B)
  BY <1>2, <1>3, FS_Union
<1>7. Cardinality(InHand) \in Nat
  BY <1>3, FS_CardinalityType
<1> QED
  BY <1>1, <1>2, <1>3, <1>4, <1>5, <1>6, <1>7

-------------------------------------------------------------------------------
(* What holds in every run.                                                *)

LEMMA InvariantHolds == SafeSpec => []IInv
<1>1. Init => IInv
  BY InitType, InitDistinct, InitPlace, InitGate, InitSession, InitBytes, InitOrder DEF IInv
<1>2. IInv /\ [Next]_vars => IInv'
  <2> SUFFICES ASSUME IInv, [Next]_vars PROVE IInv'
    OBVIOUS
  <2>1. TypeInv' /\ Distinct'
    BY NextType, NextDistinct DEF IInv
  <2>2. BytesMatchQueue'
    BY <2>1, NextBytes DEF IInv
  <2> QED
    BY <2>1, <2>2, NextPlace, NextGate, NextSession, NextOrder, NextLoss DEF IInv
<1> QED
  BY <1>1, <1>2, PTL DEF SafeSpec

(* Every variable of the transcriber has its type; above all the queue and *)
(* the bytes reserved for it never exceed their limits.                    *)
THEOREM TypeCorrect == SafeSpec => []TypeOK
<1>1. IInv => TypeOK
  BY DEF IInv, TypeInv
<1> QED
  BY <1>1, InvariantHolds, PTL

(* Every chunk of the session is in one place, in front of the gate or     *)
(* behind it as its turn says, with the memory it takes, and nothing of an *)
(* earlier session is there.                                               *)
THEOREM StreamConsistent == SafeSpec => []StreamIsConsistent
<1>1. TypeInv /\ Distinct /\ PlaceInv => EveryChunkAccounted
  BY PendingCount DEF PlaceInv, EveryChunkAccounted, Waiting
<1>2. IInv => StreamIsConsistent
  BY <1>1 DEF IInv, GateInv, SessionInv, StreamIsConsistent
<1> QED
  BY <1>2, InvariantHolds, PTL

(* A session in which nothing is pending or waiting to be collected, and   *)
(* which is not marked failed, lost no speech to the queue or a worker.    *)
THEOREM NoSpeechLost == SafeSpec => []NoSilentLoss
<1>1. IInv => NoSilentLoss
  <2> SUFFICES ASSUME IInv, pending = {}, completed = {}, ~hadFailures, NEW n \in spoken
               PROVE  n \in out \cup unsampled
    BY DEF NoSilentLoss, Quiescent
  <2>1. Waiting = {} /\ InHand = {}
    BY DEF IInv, PlaceInv
  <2>2. Kept(n)
    BY DEF IInv, LossInv
  <2> QED
    BY <2>1, <2>2 DEF Kept
<1> QED
  BY <1>1, InvariantHolds, PTL

(* Text is collected in the order it was spoken, although workers finish   *)
(* in any order and the numbers start again within a session.              *)
THEOREM OrderKept == SafeSpec => CollectedInOrder
<1>1. ASSUME IInv, [Next]_vars, epoch' = epoch, NEW m \in out' \ out, NEW n \in out
      PROVE  m > n
  <2>1. CASE Collect
    BY <1>1, <2>1, CollectOrder DEF IInv
  <2>2. CASE NewEpoch
    <3>1. epoch \in Nat /\ epoch' = epoch + 1
      BY <1>1, <2>2, NumberFacts DEF IInv, TypeInv, TypeOK, NewEpoch
    <3> QED
      BY <1>1, <3>1
  <2>3. CASE ~Collect /\ ~NewEpoch
    <3>1. out' = out
      BY <1>1, <2>3
         DEF Next, StartSession, Discard, EndSession, Submit, WorkerStep, Get, Begin, PassGate, Finish, ghostVars, vars
    <3> QED
      BY <1>1, <3>1
  <2> QED
    BY <2>1, <2>2, <2>3
<1>2. IInv /\ [Next]_vars => [epoch' = epoch => \A m \in out' \ out, n \in out : m > n]_vars
  BY <1>1
<1> QED
  BY <1>2, InvariantHolds, PTL DEF SafeSpec, CollectedInOrder

===============================================================================
