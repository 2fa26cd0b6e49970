------------------------- MODULE AudioSummariesProofs -------------------------
(***************************************************************************)
(* Proofs about the summary job pool, for any number of jobs, workers and  *)
(* callers and any limits, and about the application around it: what the   *)
(* listener, the export thread and the delete endpoint leave in the tables *)
(* is true, for any number of summaries, threads and requests.             *)
(***************************************************************************)
EXTENDS AudioSummaries, FiniteSetTheorems, SequenceTheorems, WellFoundedInduction, TLAPS

-------------------------------------------------------------------------------
(* The pool: every name here is of AudioFlowJobs.                          *)

(* What deque.remove leaves: the other elements, in their order.           *)
LEMMA RemoveAtProperties ==
  ASSUME NEW S, NEW s \in Seq(S), NEW n \in 1..Len(s)
  PROVE  /\ RemoveAt(s, n) \in Seq(S)
         /\ Len(RemoveAt(s, n)) = Len(s) - 1
         /\ \A i \in 1..(Len(s) - 1) : RemoveAt(s, n)[i] = IF i < n THEN s[i] ELSE s[i + 1]
<1> DEFINE front == SubSeq(s, 1, n - 1)
           rest  == SubSeq(s, n + 1, Len(s))
<1>0. Len(s) \in Nat /\ n \in Nat /\ n >= 1 /\ n <= Len(s)
  BY LenProperties
<1>1. \A i \in 1..Len(s) : s[i] \in S
  BY ElementOfSeq
<1>2. /\ front \in Seq(S)
      /\ Len(front) = n - 1
      /\ \A i \in 1..(n - 1) : front[i] = s[i]
  <2>1. \A i \in 1..(n - 1) : s[i] \in S
    BY <1>0, <1>1
  <2>2. /\ SubSeq(s, 1, n - 1) \in Seq(S)
        /\ Len(SubSeq(s, 1, n - 1)) = IF 1 <= n - 1 THEN (n - 1) - 1 + 1 ELSE 0
        /\ \A i \in 1 .. (n - 1) - 1 + 1 : SubSeq(s, 1, n - 1)[i] = s[1 + i - 1]
    BY <1>0, <2>1, SubSeqProperties
  <2>. QED
    BY <1>0, <2>2
<1>3. /\ rest \in Seq(S)
      /\ Len(rest) = Len(s) - n
      /\ \A i \in 1..(Len(s) - n) : rest[i] = s[n + i]
  <2>1. \A i \in (n + 1)..Len(s) : s[i] \in S
    BY <1>0, <1>1
  <2>2. /\ SubSeq(s, n + 1, Len(s)) \in Seq(S)
        /\ Len(SubSeq(s, n + 1, Len(s))) = IF n + 1 <= Len(s) THEN Len(s) - (n + 1) + 1 ELSE 0
        /\ \A i \in 1 .. Len(s) - (n + 1) + 1 : SubSeq(s, n + 1, Len(s))[i] = s[(n + 1) + i - 1]
    BY <1>0, <2>1, SubSeqProperties
  <2>. QED
    BY <1>0, <2>2
<1>4. /\ front \o rest \in Seq(S)
      /\ Len(front \o rest) = Len(front) + Len(rest)
      /\ \A i \in 1 .. Len(front) + Len(rest) :
           (front \o rest)[i] = IF i <= Len(front) THEN front[i] ELSE rest[i - Len(front)]
  BY <1>2, <1>3, ConcatProperties
<1>5. RemoveAt(s, n) = front \o rest
  BY DEF RemoveAt
<1> HIDE DEF front, rest
<1>6. ASSUME NEW i \in 1..(Len(s) - 1)
      PROVE  (front \o rest)[i] = IF i < n THEN s[i] ELSE s[i + 1]
  <2>1. CASE i < n
    BY <1>0, <1>2, <1>3, <1>4, <2>1
  <2>2. CASE ~(i < n)
    <3>1. i - (n - 1) \in 1..(Len(s) - n) /\ n + (i - (n - 1)) = i + 1
      BY <1>0, <2>2
    <3>2. (front \o rest)[i] = rest[i - (n - 1)]
      BY <1>0, <1>2, <1>3, <1>4, <2>2
    <3>. QED
      BY <1>3, <2>2, <3>1, <3>2
  <2>. QED
    BY <2>1, <2>2
<1>7. Len(front \o rest) = Len(s) - 1
  BY <1>0, <1>2, <1>3, <1>4
<1>. QED
  BY <1>4, <1>5, <1>6, <1>7

(* The queue after a cancel, when no id is in it twice: the id is gone and *)
(* every other id is still there, once.                                    *)
Unique(s) == \A i, k \in DOMAIN s : s[i] = s[k] => i = k

LEMMA NothingQueued == <<>> \in Seq(Jobs) /\ Len(<<>>) <= MaxQueued
<1>1. Len(<<>>) = 0 /\ <<>> \in Seq(Jobs)
  BY EmptySeq
<1>2. 0 <= MaxQueued
  BY BoundsAreCounts
<1>. QED
  BY <1>1, <1>2

LEMMA DequeuedType ==
  ASSUME queue \in Seq(Jobs), NEW j \in Jobs
  PROVE  Dequeued(j) \in Seq(Jobs) /\ Len(Dequeued(j)) <= Len(queue)
<1>0. Len(queue) \in Nat
  BY LenProperties
<1>1. ASSUME \E i \in DOMAIN queue : queue[i] = j
      PROVE  Dequeued(j) \in Seq(Jobs) /\ Len(Dequeued(j)) <= Len(queue)
  <2> DEFINE n == CHOOSE i \in DOMAIN queue : queue[i] = j
  <2>1. n \in 1..Len(queue)
    BY <1>1, LenProperties
  <2>. HIDE DEF n
  <2>2. RemoveAt(queue, n) \in Seq(Jobs) /\ Len(RemoveAt(queue, n)) = Len(queue) - 1
    BY <2>1, RemoveAtProperties
  <2>3. Dequeued(j) = RemoveAt(queue, n)
    BY <1>1 DEF Dequeued, n
  <2>4. Len(queue) - 1 <= Len(queue)
    BY <1>0
  <2>. QED
    BY <2>2, <2>3, <2>4
<1>2. CASE ~\E i \in DOMAIN queue : queue[i] = j
  <2>1. Dequeued(j) = queue
    BY <1>2 DEF Dequeued
  <2>. QED
    BY <1>0, <2>1
<1>. QED
  BY <1>1, <1>2

LEMMA DequeuedMembers ==
  ASSUME queue \in Seq(Jobs), Unique(queue), NEW j \in Jobs
  PROVE  /\ Unique(Dequeued(j))
         /\ \A k \in Jobs :
              (\E i \in DOMAIN Dequeued(j) : Dequeued(j)[i] = k)
                <=> k # j /\ \E i \in DOMAIN queue : queue[i] = k
<1>1. ASSUME \E i \in DOMAIN queue : queue[i] = j
      PROVE  /\ Unique(Dequeued(j))
             /\ \A k \in Jobs :
                  (\E i \in DOMAIN Dequeued(j) : Dequeued(j)[i] = k)
                    <=> k # j /\ \E i \in DOMAIN queue : queue[i] = k
  <2> DEFINE n == CHOOSE i \in DOMAIN queue : queue[i] = j
             q == RemoveAt(queue, n)
  <2>1. n \in 1..Len(queue) /\ queue[n] = j /\ DOMAIN queue = 1..Len(queue) /\ Len(queue) \in Nat
    BY <1>1, LenProperties
  <2>2. Dequeued(j) = q
    BY <1>1 DEF Dequeued
  <2>. HIDE DEF n
  <2>3. /\ q \in Seq(Jobs)
        /\ Len(q) = Len(queue) - 1
        /\ \A i \in 1..(Len(queue) - 1) : q[i] = IF i < n THEN queue[i] ELSE queue[i + 1]
    BY <2>1, RemoveAtProperties
  <2>4. DOMAIN q = 1..(Len(queue) - 1)
    BY <2>3, LenProperties
  <2>. HIDE DEF q
  <2>5. Unique(q)
    <3> SUFFICES ASSUME NEW i \in 1..(Len(queue) - 1), NEW k \in 1..(Len(queue) - 1), q[i] = q[k]
                 PROVE  i = k
      BY <2>4 DEF Unique
    <3>1. \A a, b \in 1..Len(queue) : queue[a] = queue[b] => a = b
      BY <2>1 DEF Unique
    <3>. QED
      BY <2>1, <2>3, <3>1
  <2>6. ASSUME NEW k \in Jobs, NEW i \in DOMAIN q, q[i] = k
        PROVE  k # j /\ \E m \in DOMAIN queue : queue[m] = k
    <3>1. \A a, b \in 1..Len(queue) : queue[a] = queue[b] => a = b
      BY <2>1 DEF Unique
    <3>2. CASE i < n
      BY <2>1, <2>3, <2>4, <2>6, <3>1, <3>2
    <3>3. CASE ~(i < n)
      <4>1. q[i] = queue[i + 1] /\ i + 1 \in 1..Len(queue) /\ i + 1 # n
        BY <2>1, <2>3, <2>4, <3>3
      <4>. QED
        BY <2>1, <2>6, <3>1, <4>1
    <3>. QED
      BY <3>2, <3>3
  <2>7. ASSUME NEW k \in Jobs, k # j, NEW m \in DOMAIN queue, queue[m] = k
        PROVE  \E i \in DOMAIN q : q[i] = k
    <3>1. CASE m < n
      <4>1. m \in DOMAIN q /\ q[m] = queue[m]
        BY <2>1, <2>3, <2>4, <3>1
      <4>. QED
        BY <2>7, <4>1
    <3>2. CASE ~(m < n)
      <4>1. m # n
        BY <2>1, <2>7
      <4>2. m - 1 \in DOMAIN q /\ ~(m - 1 < n) /\ (m - 1) + 1 = m
        BY <2>1, <2>4, <3>2, <4>1
      <4>3. q[m - 1] = queue[m]
        BY <2>3, <2>4, <4>2
      <4>. QED
        BY <2>7, <4>2, <4>3
    <3>. QED
      BY <3>1, <3>2
  <2>. QED
    BY <2>2, <2>5, <2>6, <2>7
<1>2. ASSUME ~ \E i \in DOMAIN queue : queue[i] = j
      PROVE  /\ Unique(Dequeued(j))
             /\ \A k \in Jobs :
                  (\E i \in DOMAIN Dequeued(j) : Dequeued(j)[i] = k)
                    <=> k # j /\ \E i \in DOMAIN queue : queue[i] = k
  BY <1>2 DEF Dequeued
<1>. QED
  BY <1>1, <1>2

-------------------------------------------------------------------------------
(* Type correctness.                                                       *)
ThreadTypeOK ==
  /\ pc \in [Threads -> Places]
  /\ cur \in [Threads -> Jobs \cup {None}]
  /\ say \in [Threads -> Statuses]
  /\ back \in [Threads -> {"idle", "release", "fetch", "run"}]
  /\ gone \in [Threads -> SUBSET Jobs]

LEMMA GotoType ==
  ASSUME TypeOK, NEW t \in Threads, NEW place \in Places, Goto(t, place)
  PROVE  ThreadTypeOK'
BY DEF TypeOK, ThreadTypeOK, Goto, Statuses

LEMMA CallNotifyType ==
  ASSUME TypeOK, NEW t \in Threads, NEW j \in Jobs, NEW s \in Statuses,
         NEW place \in {"idle", "release", "fetch", "run"}, CallNotify(t, j, s, place)
  PROVE  ThreadTypeOK'
BY DEF TypeOK, ThreadTypeOK, CallNotify, Places

(* The insertion order is a number: there are finitely many jobs.          *)
LEMMA SubsetsAreCounted ==
  ASSUME NEW S \in SUBSET Jobs
  PROVE  IsFiniteSet(S) /\ Cardinality(S) \in Nat
BY BoundsAreCounts, FS_Subset, FS_CardinalityType

(* A thread that is inside a call on the pool works on a job.              *)
InCall == {"notify", "callback", "release", "prune", "fetch", "run", "returned", "raised"}

CallHasJob == \A t \in Threads : pc[t] \in InCall => cur[t] \in Jobs

LEMMA TypeStep ==
  ASSUME TypeOK, CallHasJob, [Next]_vars
  PROVE  TypeOK' /\ CallHasJob'
<1>. USE DEF InCall
<1>0. /\ Main \in Threads
      /\ Callers \subseteq Threads
      /\ Workers \subseteq Threads
  BY DEF Threads
<1>1. ASSUME NEW c \in Callers, NEW j \in Jobs, Submit(c, j)
      PROVE  TypeOK' /\ CallHasJob'
  <2>1. Cardinality({k \in Jobs : status[k] # "none"}) \in Nat
    BY SubsetsAreCounted
  <2>2. Append(queue, j) \in Seq(Jobs) /\ Len(Append(queue, j)) <= MaxQueued
    BY <1>1, AppendProperties, LenProperties, BoundsAreCounts DEF Submit, TypeOK
  <2>3. ThreadTypeOK'
    BY <1>0, <1>1, CallNotifyType DEF Submit, Statuses, Active
  <2>4. TypeOK'
    BY <1>1, <2>1, <2>2, <2>3 DEF Submit, TypeOK, ThreadTypeOK, Statuses, Active
  <2>5. CallHasJob'
    BY <1>0, <1>1 DEF Submit, CallNotify, TypeOK, CallHasJob
  <2>. QED
    BY <2>4, <2>5
<1>2. ASSUME NEW t \in Threads, NEW j \in Jobs, CancelSection(t, j), toCancel' \in SUBSET Jobs
      PROVE  TypeOK' /\ CallHasJob'
  <2>1. Dequeued(j) \in Seq(Jobs) /\ Len(Dequeued(j)) <= MaxQueued
    <3>1. Len(queue) \in Nat /\ Len(queue) <= MaxQueued /\ MaxQueued \in Nat
      BY LenProperties, BoundsAreCounts DEF TypeOK
    <3>. QED
      BY <3>1, DequeuedType, LenProperties DEF TypeOK
  <2>2. ThreadTypeOK'
    BY <1>2, CallNotifyType DEF CancelSection, Statuses, Settled
  <2>3. TypeOK'
    BY <1>2, <2>1, <2>2 DEF CancelSection, TypeOK, ThreadTypeOK, Statuses, Settled
  <2>4. CallHasJob'
    BY <1>2 DEF CancelSection, CallNotify, TypeOK, CallHasJob
  <2>. QED
    BY <2>3, <2>4
<1>3. ASSUME NEW c \in Callers, NEW j \in Jobs, Cancel(c, j)
      PROVE  TypeOK' /\ CallHasJob'
  BY <1>0, <1>2, <1>3 DEF Cancel, TypeOK
<1>4. ASSUME NEW t \in Threads, EnterNotify(t)
      PROVE  TypeOK' /\ CallHasJob'
  <2>1. back[t] \in Places /\ "callback" \in Places
    BY DEF TypeOK, Places
  <2>2. ThreadTypeOK'
    BY <1>4, <2>1, GotoType DEF EnterNotify
  <2>3. cur[t] \in Jobs
    BY <1>4 DEF EnterNotify, CallHasJob
  <2>4. TypeOK'
    BY <1>4, <2>2, <2>3 DEF EnterNotify, TypeOK, ThreadTypeOK, poolVars
  <2>5. CallHasJob'
    BY <1>4, <2>3 DEF EnterNotify, Goto, TypeOK, CallHasJob
  <2>. QED
    BY <2>4, <2>5
<1>5. ASSUME NEW t \in Threads, LeaveNotify(t)
      PROVE  TypeOK' /\ CallHasJob'
  <2>1. back[t] \in Places
    BY DEF TypeOK, Places
  <2>2. ThreadTypeOK'
    BY <1>5, <2>1, GotoType DEF LeaveNotify
  <2>3. cur[t] \in Jobs
    BY <1>5 DEF LeaveNotify, CallHasJob
  <2>4. TypeOK'
    BY <1>5, <2>2, <2>3 DEF LeaveNotify, TypeOK, ThreadTypeOK, poolVars
  <2>5. CallHasJob'
    BY <1>5, <2>3 DEF LeaveNotify, Goto, TypeOK, CallHasJob
  <2>. QED
    BY <2>4, <2>5
<1>6. ASSUME NEW t \in Threads, RetireSteps(t)
      PROVE  TypeOK' /\ CallHasJob'
  <2>0. Home(t) \in {"idle", "stopping"} /\ Home(t) \in Places /\ "prune" \in Places
    BY DEF Home, Places
  <2>1. CASE ReleaseSource(t)
    <3>1. ThreadTypeOK'
      BY <2>0, <2>1, GotoType DEF ReleaseSource
    <3>2. cur[t] \in Jobs
      BY <2>1 DEF ReleaseSource, CallHasJob
    <3>3. TypeOK'
      BY <2>1, <3>1, <3>2 DEF ReleaseSource, TypeOK, ThreadTypeOK, poolVars
    <3>4. CallHasJob'
      BY <2>1, <3>2 DEF ReleaseSource, Goto, TypeOK, CallHasJob
    <3>. QED
      BY <3>3, <3>4
  <2>2. CASE PruneTerminal(t)
    <3>1. Oldest(SettledInTable, Excess) \subseteq Jobs
      BY DEF Oldest, SettledInTable, TypeOK
    <3>. QED
      BY <2>2, <3>1 DEF PruneTerminal, TypeOK, jobVars, Places, CallHasJob
  <2>3. CASE \E j \in Jobs : EvictOne(t, j)
    BY <2>3 DEF EvictOne, TypeOK, jobVars, poolVars, CallHasJob
  <2>4. CASE EvictDone(t)
    <3>1. ThreadTypeOK'
      BY <2>0, <2>4, GotoType DEF EvictDone
    <3>2. TypeOK'
      BY <2>4, <3>1 DEF EvictDone, TypeOK, ThreadTypeOK, jobVars, poolVars
    <3>3. CallHasJob'
      BY <2>0, <2>4 DEF EvictDone, Goto, TypeOK, CallHasJob
    <3>. QED
      BY <3>2, <3>3
  <2>. QED
    BY <1>6, <2>1, <2>2, <2>3, <2>4 DEF RetireSteps
<1>7. ASSUME NEW w \in Workers, WorkerSteps(w)
      PROVE  TypeOK' /\ CallHasJob'
  <2>0. w \in Threads
    BY <1>0
  <2>1. CASE Exit(w)
    BY <2>0, <2>1, GotoType DEF Exit, Goto, TypeOK, jobVars, poolVars, ThreadTypeOK, Places, CallHasJob
  <2>2. CASE Take(w)
    <3> DEFINE j == Head(queue)
    <3>1. j \in Jobs /\ Tail(queue) \in Seq(Jobs) /\ Len(Tail(queue)) <= MaxQueued
      <4>1. /\ j \in Jobs /\ Tail(queue) \in Seq(Jobs) /\ Len(Tail(queue)) = Len(queue) - 1
            /\ Len(queue) \in Nat
        BY <2>2, HeadTailProperties, LenProperties DEF Take, TypeOK
      <4>2. Len(queue) <= MaxQueued /\ MaxQueued \in Nat
        BY BoundsAreCounts DEF TypeOK
      <4>. QED
        BY <4>1, <4>2
    <3>. HIDE DEF j
    <3>2. CASE UNCHANGED <<status, threadVars>>
      BY <2>2, <3>1, <3>2 DEF Take, TypeOK, threadVars, CallHasJob
    <3>3. CASE status' = [status EXCEPT ![j] = "cancelled"] /\ UNCHANGED threadVars
      BY <2>2, <3>1, <3>3 DEF Take, TypeOK, threadVars, CallHasJob, Statuses, Settled
    <3>4. CASE status' = [status EXCEPT ![j] = "running"] /\ CallNotify(w, j, "running", "fetch")
      <4>1. ThreadTypeOK'
        BY <2>0, <3>1, <3>4, CallNotifyType DEF Statuses, Active
      <4>2. TypeOK'
        BY <2>2, <3>1, <3>4, <4>1 DEF Take, TypeOK, ThreadTypeOK, Statuses, Active
      <4>3. CallHasJob'
        BY <2>0, <3>1, <3>4 DEF CallNotify, TypeOK, CallHasJob
      <4>. QED
        BY <4>2, <4>3
    <3>. QED
      BY <2>2, <3>2, <3>3, <3>4 DEF Take, j
  <2>3. CASE Fetch(w) \/ RunEnds(w)
    <3>1. PICK place \in {"run", "returned", "raised"} : Goto(w, place)
      BY <2>3 DEF Fetch, RunEnds
    <3>2. cur[w] \in Jobs /\ UNCHANGED <<jobVars, poolVars>>
      BY <2>0, <2>3 DEF Fetch, RunEnds, CallHasJob
    <3>3. ThreadTypeOK'
      BY <2>0, <3>1, GotoType DEF Places
    <3>4. TypeOK'
      BY <3>2, <3>3 DEF TypeOK, ThreadTypeOK, jobVars, poolVars
    <3>5. CallHasJob'
      BY <2>0, <3>1, <3>2 DEF Goto, TypeOK, CallHasJob
    <3>. QED
      BY <3>4, <3>5
  <2>4. CASE UpdateProgress(w)
    <3>1. cur[w] \in Jobs
      BY <2>0, <2>4 DEF UpdateProgress, CallHasJob
    <3>2. ThreadTypeOK'
      BY <2>0, <2>4, <3>1, CallNotifyType DEF UpdateProgress, Statuses, Active
    <3>3. TypeOK'
      BY <2>4, <3>2 DEF UpdateProgress, TypeOK, ThreadTypeOK, jobVars, poolVars
    <3>4. CallHasJob'
      BY <2>0, <2>4, <3>1 DEF UpdateProgress, CallNotify, TypeOK, CallHasJob
    <3>. QED
      BY <3>3, <3>4
  <2>5. CASE MarkReady(w) \/ MarkFailed(w)
    <3>1. PICK s \in Settled : Settle(w, s)
      BY <2>5 DEF MarkReady, MarkFailed, Settled
    <3>2. /\ cur[w] \in Jobs
          /\ UNCHANGED <<cancelEvent, released, notified, holder, told, poolVars>>
      BY <2>0, <2>5 DEF MarkReady, MarkFailed, CallHasJob
    <3>3. CASE Goto(w, "idle") /\ UNCHANGED status
      <4>1. ThreadTypeOK'
        BY <2>0, <3>3, GotoType DEF Places
      <4>2. TypeOK'
        BY <3>2, <3>3, <4>1 DEF TypeOK, ThreadTypeOK, poolVars
      <4>3. CallHasJob'
        BY <2>0, <3>3 DEF Goto, TypeOK, CallHasJob
      <4>. QED
        BY <4>2, <4>3
    <3>4. CASE status' = [status EXCEPT ![cur[w]] = s] /\ CallNotify(w, cur[w], s, "release")
      <4>1. ThreadTypeOK'
        BY <2>0, <3>2, <3>4, CallNotifyType DEF Statuses
      <4>2. TypeOK'
        BY <3>2, <3>4, <4>1 DEF TypeOK, ThreadTypeOK, poolVars, Statuses
      <4>3. CallHasJob'
        BY <2>0, <3>2, <3>4 DEF CallNotify, TypeOK, CallHasJob
      <4>. QED
        BY <4>2, <4>3
    <3>. QED
      BY <3>1, <3>3, <3>4 DEF Settle
  <2>. QED
    BY <1>7, <2>1, <2>2, <2>3, <2>4, <2>5 DEF WorkerSteps
<1>8. CASE Stop
  <2>1. CASE Shutdown
    <3>1. ThreadTypeOK'
      BY <1>0, <2>1, GotoType DEF Shutdown, Places
    <3>2. TypeOK'
      BY <2>1, <3>1 DEF Shutdown, TypeOK, ThreadTypeOK, jobVars
    <3>3. CallHasJob'
      BY <1>0, <2>1 DEF Shutdown, Goto, TypeOK, CallHasJob
    <3>. QED
      BY <3>2, <3>3
  <2>2. CASE \E j \in Jobs : StopOne(j)
    <3>1. PICK j \in Jobs : StopOne(j)
      BY <2>2
    <3>2. toCancel' \in SUBSET Jobs
      BY <3>1 DEF StopOne, TypeOK
    <3>3. CASE CancelSection(Main, j)
      BY <1>0, <1>2, <3>2, <3>3
    <3>4. CASE UNCHANGED <<jobVars, table, born, queue, closed, threadVars>>
      BY <3>2, <3>4 DEF TypeOK, CallHasJob, jobVars, threadVars
    <3>. QED
      BY <3>1, <3>3, <3>4 DEF StopOne
  <2>3. CASE StopClear
    <3>1. ThreadTypeOK'
      BY <1>0, <2>3, GotoType DEF StopClear, Places
    <3>2. TypeOK'
      BY <2>3, <3>1, NothingQueued DEF StopClear, TypeOK, ThreadTypeOK, jobVars
    <3>3. CallHasJob'
      BY <1>0, <2>3 DEF StopClear, Goto, TypeOK, CallHasJob
    <3>. QED
      BY <3>2, <3>3
  <2>4. CASE StopReturn
    <3>1. ThreadTypeOK'
      BY <1>0, <2>4, GotoType DEF StopReturn, Places
    <3>2. TypeOK'
      BY <2>4, <3>1 DEF StopReturn, TypeOK, ThreadTypeOK, jobVars, poolVars
    <3>3. CallHasJob'
      BY <1>0, <2>4 DEF StopReturn, Goto, TypeOK, CallHasJob
    <3>. QED
      BY <3>2, <3>3
  <2>. QED
    BY <1>8, <2>1, <2>2, <2>3, <2>4 DEF Stop
<1>9. CASE UNCHANGED vars
  BY <1>9 DEF vars, jobVars, poolVars, threadVars, TypeOK, CallHasJob
<1>10. CASE Next
  <2>1. CASE \E c \in Callers, j \in Jobs : Submit(c, j) \/ Cancel(c, j)
    BY <1>1, <1>3, <2>1
  <2>2. CASE \E t \in Threads : NotifySteps(t) \/ RetireSteps(t)
    BY <1>4, <1>5, <1>6, <2>2 DEF NotifySteps
  <2>3. CASE \E w \in Workers : WorkerSteps(w)
    BY <1>7, <2>3
  <2>. QED
    BY <1>8, <1>10, <2>1, <2>2, <2>3 DEF Next
<1>. QED
  BY <1>9, <1>10

TypeInv == TypeOK /\ CallHasJob

LEMMA TypeInvariant == SafeSpec => []TypeInv
<1>1. Init => TypeInv
  <2>1. <<>> \in Seq(Jobs) /\ Len(<<>>) <= MaxQueued
    BY NothingQueued
  <2>2. "none" \in Statuses /\ "idle" \in Places /\ "idle" \notin InCall
    BY DEF Statuses, Places, InCall
  <2>3. ASSUME Init PROVE TypeOK
    BY <2>1, <2>2, <2>3 DEF Init, TypeOK
  <2>4. ASSUME Init PROVE CallHasJob
    BY <2>2, <2>4 DEF Init, CallHasJob
  <2>. QED
    BY <2>3, <2>4 DEF TypeInv
<1>2. TypeInv /\ [Next]_vars => TypeInv'
  BY TypeStep DEF TypeInv
<1>. QED
  BY <1>1, <1>2, PTL DEF SafeSpec

(* Every reachable state of a pool of any size is well typed: the queue    *)
(* holds job ids only and every thread is at a known place.                *)
THEOREM TypeCorrect == SafeSpec => []TypeOK
<1>1. TypeInv => TypeOK
  BY DEF TypeInv
<1>. QED
  BY <1>1, TypeInvariant, PTL

-------------------------------------------------------------------------------
(* Shutdown and the queue.                                                 *)

(* Main is out of its first idle place exactly when the pool is closed, it *)
(* never runs a job, and while it still has jobs to cancel every active    *)
(* job is among them: submit refuses and the workers take nothing more.    *)
StopInv ==
  /\ closed <=> pc[Main] # "idle"
  /\ pc[Main] \in {"notify", "callback"} => back[Main] = "release"
  /\ pc[Main] \notin {"fetch", "run", "returned", "raised"}
  /\ \A j \in Jobs : status[j] \in Active => j \in table /\ (closed => j \in toCancel)
  /\ pc[Main] \in {"joining", "exited"} => toCancel = {} /\ queue = <<>>

(* A step that leaves Main, the flag and the tables alone and makes no job *)
(* active keeps StopInv.                                                   *)
LEMMA StopFrame ==
  ASSUME TypeInv, StopInv, Main \in Threads, NEW t \in Threads \ {Main},
         \A u \in Threads \ {t} : pc'[u] = pc[u] /\ back'[u] = back[u],
         UNCHANGED <<table, closed, toCancel>>,
         queue = <<>> => queue' = <<>>,
         \A j \in Jobs : status'[j] \in Active => status[j] \in Active
  PROVE  StopInv'
BY DEF StopInv, TypeInv, TypeOK

LEMMA ThreadFacts ==
  /\ Main \in Threads
  /\ Callers \subseteq Threads \ {Main}
  /\ Workers \subseteq Threads \ {Main}
  /\ Workers \cap Callers = {}
  /\ None \notin Threads
  /\ None \notin Jobs
BY ThreadsAreDistinct DEF Threads

LEMMA DequeuedEmpty ==
  ASSUME queue = <<>>, NEW j \in Jobs
  PROVE  Dequeued(j) = <<>>
BY DEF Dequeued

LEMMA StopStep ==
  ASSUME TypeInv, StopInv, [Next]_vars
  PROVE  StopInv'
<1>. USE ThreadFacts DEF Goto, CallNotify
<1>1. ASSUME NEW c \in Callers, NEW j \in Jobs, Submit(c, j)
      PROVE  StopInv'
  BY <1>1 DEF Submit, StopInv, TypeInv, TypeOK, Active
<1>2. ASSUME NEW c \in Callers, NEW j \in Jobs, Cancel(c, j)
      PROVE  StopInv'
  <2>1. queue = <<>> => queue' = <<>>
    BY <1>2, DequeuedEmpty DEF Cancel, CancelSection
  <2>2. \A k \in Jobs : status'[k] \in Active => status[k] \in Active
    BY <1>2 DEF Cancel, CancelSection, Active, TypeInv, TypeOK
  <2>. QED
    BY <1>2, <2>1, <2>2, StopFrame DEF Cancel, CancelSection, TypeInv, TypeOK
<1>3. ASSUME NEW t \in Threads, NotifySteps(t)
      PROVE  StopInv'
  <2>1. UNCHANGED <<status, table, queue, closed, toCancel>>
    BY <1>3 DEF NotifySteps, EnterNotify, LeaveNotify, poolVars
  <2>2. \E place \in {"callback", back[t]} : Goto(t, place)
    BY <1>3 DEF NotifySteps, EnterNotify, LeaveNotify
  <2>3. pc[t] \in {"notify", "callback"}
    BY <1>3 DEF NotifySteps, EnterNotify, LeaveNotify
  <2>4. CASE t = Main
    <3>1. back[Main] = "release" /\ closed
      BY <2>3, <2>4 DEF StopInv
    <3>2. PICK place \in {"callback", "release"} : Goto(Main, place)
      BY <2>2, <2>4, <3>1
    <3>. QED
      BY <2>1, <2>4, <3>1, <3>2 DEF StopInv, TypeInv, TypeOK
  <2>5. CASE t # Main
    BY <2>1, <2>2, <2>5, StopFrame DEF TypeInv, TypeOK
  <2>. QED
    BY <2>4, <2>5
<1>4. ASSUME NEW t \in Threads, RetireSteps(t)
      PROVE  StopInv'
  <2>1. CASE ReleaseSource(t)
    BY <2>1 DEF ReleaseSource, StopInv, TypeInv, TypeOK, poolVars
  <2>2. CASE PruneTerminal(t)
    <3>1. \A j \in Oldest(SettledInTable, Excess) : status[j] \notin Active
      BY DEF Oldest, SettledInTable, Settled, Active
    <3>. QED
      BY <2>2, <3>1 DEF PruneTerminal, StopInv, TypeInv, TypeOK, jobVars
  <2>3. CASE \E j \in Jobs : EvictOne(t, j)
    BY <2>3 DEF EvictOne, StopInv, TypeInv, TypeOK, jobVars, poolVars
  <2>4. CASE EvictDone(t)
    BY <2>4 DEF EvictDone, Home, StopInv, TypeInv, TypeOK, jobVars, poolVars
  <2>. QED
    BY <1>4, <2>1, <2>2, <2>3, <2>4 DEF RetireSteps
<1>5. ASSUME NEW w \in Workers, WorkerSteps(w)
      PROVE  StopInv'
  <2>1. CASE Take(w)
    <3>1. ~closed
      BY <2>1 DEF Take
    <3>2. Head(queue) \in Jobs
      BY <2>1, HeadTailProperties DEF Take, TypeInv, TypeOK
    <3>3. \A u \in Threads \ {w} : pc'[u] = pc[u] /\ back'[u] = back[u]
      BY <2>1 DEF Take, threadVars, TypeInv, TypeOK
    <3>4. \A j \in Jobs : status'[j] \in Active => status[j] \in Active
      BY <2>1, <3>2 DEF Take, Active, TypeInv, TypeOK
    <3>5. UNCHANGED <<table, closed, toCancel>>
      BY <2>1 DEF Take
    <3>6. queue # <<>>
      BY <2>1 DEF Take
    <3>. QED
      BY <3>3, <3>4, <3>5, <3>6, StopFrame
  <2>2. CASE ~Take(w)
    <3>1. UNCHANGED <<table, queue, closed, toCancel>>
      BY <1>5, <2>2 DEF WorkerSteps, Exit, Fetch, UpdateProgress, RunEnds, MarkReady, MarkFailed, poolVars
    <3>2. \A u \in Threads \ {w} : pc'[u] = pc[u] /\ back'[u] = back[u]
      BY <1>5, <2>2 DEF WorkerSteps, Exit, Fetch, UpdateProgress, RunEnds, MarkReady, MarkFailed, Settle, TypeInv, TypeOK
    <3>3. \A j \in Jobs : status'[j] \in Active => status[j] \in Active
      BY <1>5, <2>2 DEF WorkerSteps, Exit, Fetch, UpdateProgress, RunEnds, MarkReady, MarkFailed,
                        Settle, TypeInv, TypeOK, Active, jobVars
    <3>. QED
      BY <3>1, <3>2, <3>3, StopFrame
  <2>. QED
    BY <2>1, <2>2
<1>6. CASE Shutdown
  BY <1>6 DEF Shutdown, StopInv, TypeInv, TypeOK, jobVars
<1>7. ASSUME NEW j \in Jobs, StopOne(j)
      PROVE  StopInv'
  <2>1. CASE CancelSection(Main, j)
    BY <1>7, <2>1 DEF StopOne, CancelSection, StopInv, TypeInv, TypeOK, Active
  <2>2. CASE j \notin table \/ status[j] \notin Active
    <3>1. CASE UNCHANGED <<jobVars, table, born, queue, closed, threadVars>>
      BY <1>7, <2>2, <3>1 DEF StopOne, StopInv, TypeInv, TypeOK, jobVars, threadVars
    <3>. QED
      BY <1>7, <2>1, <3>1 DEF StopOne
  <2>. QED
    BY <1>7, <2>1, <2>2 DEF StopOne
<1>8. CASE StopClear
  BY <1>8 DEF StopClear, StopInv, TypeInv, TypeOK, jobVars
<1>9. CASE StopReturn
  BY <1>9 DEF StopReturn, StopInv, TypeInv, TypeOK, jobVars, poolVars
<1>10. CASE UNCHANGED vars
  BY <1>10 DEF vars, jobVars, poolVars, threadVars, StopInv
<1>11. CASE Next
  <2>1. CASE \E c \in Callers, j \in Jobs : Submit(c, j) \/ Cancel(c, j)
    BY <1>1, <1>2, <2>1
  <2>2. CASE \E t \in Threads : NotifySteps(t) \/ RetireSteps(t)
    BY <1>3, <1>4, <2>2
  <2>3. CASE \E w \in Workers : WorkerSteps(w)
    BY <1>5, <2>3
  <2>4. CASE Stop
    BY <1>6, <1>7, <1>8, <1>9, <2>4 DEF Stop
  <2>. QED
    BY <1>11, <2>1, <2>2, <2>3, <2>4 DEF Next
<1>. QED
  BY <1>10, <1>11

(* A step that leaves the queue alone and queues or unqueues no job.       *)
LEMMA QueueFrame ==
  ASSUME QueueMatchesStatus, UNCHANGED queue,
         \A j \in Jobs : status'[j] = "queued" <=> status[j] = "queued"
  PROVE  QueueMatchesStatus'
BY DEF QueueMatchesStatus

LEMMA QueueCancel ==
  ASSUME TypeInv, QueueMatchesStatus, NEW t \in Threads, NEW j \in Jobs, CancelSection(t, j)
  PROVE  QueueMatchesStatus'
<1>1. /\ Unique(queue')
      /\ \A k \in Jobs : (\E i \in DOMAIN queue' : queue'[i] = k)
                           <=> k # j /\ \E i \in DOMAIN queue : queue[i] = k
  BY DequeuedMembers DEF CancelSection, TypeInv, TypeOK, QueueMatchesStatus, Unique
<1>2. \A k \in Jobs : status'[k] = "queued" <=> k # j /\ status[k] = "queued"
  BY DEF CancelSection, TypeInv, TypeOK
<1>. QED
  BY <1>1, <1>2 DEF QueueMatchesStatus, Unique

LEMMA QueueStep ==
  ASSUME TypeInv, StopInv, QueueMatchesStatus, [Next]_vars
  PROVE  QueueMatchesStatus'
<1>. USE ThreadFacts
<1>1. ASSUME NEW c \in Callers, NEW j \in Jobs, Submit(c, j)
      PROVE  QueueMatchesStatus'
  <2>1. /\ queue \in Seq(Jobs)
        /\ queue' = Append(queue, j)
        /\ status[j] = "none"
        /\ \A k \in Jobs : status'[k] = "queued" <=> k = j \/ status[k] = "queued"
    BY <1>1 DEF Submit, TypeInv, TypeOK
  <2>2. /\ Len(queue) \in Nat
        /\ DOMAIN queue = 1..Len(queue)
        /\ DOMAIN queue' = 1..(Len(queue) + 1)
        /\ \A i \in 1..Len(queue) : queue'[i] = queue[i]
        /\ queue'[Len(queue) + 1] = j
    BY <2>1, LenProperties, AppendProperties
  <2>3. \A i \in 1..Len(queue) : queue[i] # j
    BY <2>1, <2>2 DEF QueueMatchesStatus
  <2>4. \A i, k \in DOMAIN queue' : queue'[i] = queue'[k] => i = k
    <3> SUFFICES ASSUME NEW i \in 1..(Len(queue) + 1), NEW k \in 1..(Len(queue) + 1),
                        queue'[i] = queue'[k]
                 PROVE  i = k
      BY <2>2
    <3>1. CASE i \in 1..Len(queue) /\ k \in 1..Len(queue)
      BY <2>2, <3>1 DEF QueueMatchesStatus
    <3>2. CASE i = Len(queue) + 1 \/ k = Len(queue) + 1
      BY <2>2, <2>3, <3>2
    <3>. QED
      BY <2>2, <3>1, <3>2
  <2>5. \A k \in Jobs : status'[k] = "queued" <=> \E i \in DOMAIN queue' : queue'[i] = k
    <3> SUFFICES ASSUME NEW k \in Jobs
                 PROVE  status'[k] = "queued" <=> \E i \in DOMAIN queue' : queue'[i] = k
      OBVIOUS
    <3>1. (\E i \in DOMAIN queue' : queue'[i] = k) <=> k = j \/ \E i \in DOMAIN queue : queue[i] = k
      BY <2>2
    <3>. QED
      BY <2>1, <3>1 DEF QueueMatchesStatus
  <2>. QED
    BY <2>4, <2>5 DEF QueueMatchesStatus
<1>2. ASSUME NEW c \in Callers, NEW j \in Jobs, Cancel(c, j)
      PROVE  QueueMatchesStatus'
  BY <1>2, QueueCancel DEF Cancel
<1>3. ASSUME NEW t \in Threads, NotifySteps(t) \/ RetireSteps(t)
      PROVE  QueueMatchesStatus'
  BY <1>3, QueueFrame DEF NotifySteps, EnterNotify, LeaveNotify, RetireSteps, ReleaseSource, PruneTerminal,
                          EvictOne, EvictDone, jobVars, poolVars
<1>4. ASSUME NEW w \in Workers, WorkerSteps(w)
      PROVE  QueueMatchesStatus'
  <2>1. CASE Take(w)
    <3> DEFINE j == Head(queue)
    <3>1. /\ queue \in Seq(Jobs)
          /\ queue # <<>>
          /\ queue' = Tail(queue)
      BY <2>1 DEF Take, TypeInv, TypeOK
    <3>2. /\ Len(queue) \in Nat /\ Len(queue) >= 1
          /\ DOMAIN queue = 1..Len(queue)
          /\ j = queue[1] /\ j \in Jobs
          /\ DOMAIN queue' = 1..(Len(queue) - 1)
          /\ \A i \in 1..(Len(queue) - 1) : queue'[i] = queue[i + 1]
      BY <3>1, LenProperties, HeadTailProperties, EmptySeq
    <3>3. status[j] = "queued" /\ j \in table
      BY <3>2 DEF QueueMatchesStatus, StopInv, Active
    <3>. HIDE DEF j
    <3>4. \A k \in Jobs : status'[k] = "queued" <=> k # j /\ status[k] = "queued"
      <4>1. \/ status' = [status EXCEPT ![j] = "cancelled"]
            \/ status' = [status EXCEPT ![j] = "running"]
        BY <2>1, <3>3 DEF Take, j
      <4>. QED
        BY <3>2, <4>1 DEF TypeInv, TypeOK
    <3>5. \A i, k \in DOMAIN queue' : queue'[i] = queue'[k] => i = k
      BY <3>2 DEF QueueMatchesStatus
    <3>6. ASSUME NEW k \in Jobs
          PROVE  (\E i \in DOMAIN queue' : queue'[i] = k) <=> k # j /\ \E i \in DOMAIN queue : queue[i] = k
      <4>1. ASSUME NEW i \in DOMAIN queue', queue'[i] = k
            PROVE  k # j /\ \E m \in DOMAIN queue : queue[m] = k
        <5>1. i + 1 \in DOMAIN queue /\ queue[i + 1] = k /\ i + 1 # 1
          BY <3>2, <4>1
        <5>. QED
          BY <3>2, <5>1 DEF QueueMatchesStatus
      <4>2. ASSUME k # j, NEW m \in DOMAIN queue, queue[m] = k
            PROVE  \E i \in DOMAIN queue' : queue'[i] = k
        <5>1. m - 1 \in DOMAIN queue' /\ queue'[m - 1] = queue[(m - 1) + 1] /\ (m - 1) + 1 = m
          BY <3>2, <4>2
        <5>. QED
          BY <4>2, <5>1
      <4>. QED
        BY <4>1, <4>2
    <3>. QED
      BY <3>4, <3>5, <3>6 DEF QueueMatchesStatus
  <2>2. CASE ~Take(w)
    <3>1. UNCHANGED queue
      BY <1>4, <2>2 DEF WorkerSteps, Exit, Fetch, UpdateProgress, RunEnds, MarkReady, MarkFailed, poolVars
    <3>2. \A j \in Jobs : status'[j] = "queued" <=> status[j] = "queued"
      BY <1>4, <2>2 DEF WorkerSteps, Exit, Fetch, UpdateProgress, RunEnds, MarkReady, MarkFailed,
                        Settle, TypeInv, TypeOK, jobVars
    <3>. QED
      BY <3>1, <3>2, QueueFrame
  <2>. QED
    BY <2>1, <2>2
<1>5. CASE Shutdown \/ StopReturn
  BY <1>5, QueueFrame DEF Shutdown, StopReturn, jobVars, poolVars
<1>6. ASSUME NEW j \in Jobs, StopOne(j)
      PROVE  QueueMatchesStatus'
  BY <1>6, QueueCancel, QueueFrame DEF StopOne, jobVars
<1>7. CASE StopClear
  <2>1. \A j \in Jobs : status[j] # "queued"
    BY <1>7 DEF StopClear, StopInv, Active
  <2>. QED
    BY <1>7, <2>1 DEF StopClear, QueueMatchesStatus, jobVars
<1>8. CASE UNCHANGED vars
  BY <1>8 DEF vars, jobVars, poolVars, QueueMatchesStatus
<1>9. CASE Next
  <2>1. CASE \E c \in Callers, j \in Jobs : Submit(c, j) \/ Cancel(c, j)
    BY <1>1, <1>2, <2>1
  <2>2. CASE \E t \in Threads : NotifySteps(t) \/ RetireSteps(t)
    BY <1>3, <2>2
  <2>3. CASE \E w \in Workers : WorkerSteps(w)
    BY <1>4, <2>3
  <2>4. CASE Stop
    BY <1>5, <1>6, <1>7, <2>4 DEF Stop
  <2>. QED
    BY <1>9, <2>1, <2>2, <2>3, <2>4 DEF Next
<1>. QED
  BY <1>8, <1>9

LEMMA PoolInvariant == SafeSpec => [](StopInv /\ QueueMatchesStatus)
<1>1. Init => StopInv
  BY ThreadFacts DEF Init, StopInv, Active
<1>2. Init => QueueMatchesStatus
  BY DEF Init, QueueMatchesStatus
<1>3. TypeInv /\ StopInv /\ QueueMatchesStatus /\ [Next]_vars => StopInv' /\ QueueMatchesStatus'
  BY StopStep, QueueStep
<1>. QED
  BY <1>1, <1>2, <1>3, TypeInvariant, PTL DEF SafeSpec

(* The queue and the statuses never disagree, whoever cancels, takes or    *)
(* clears, for any number of threads.                                      *)
THEOREM QueueCorrect == SafeSpec => []QueueMatchesStatus
BY PoolInvariant, PTL

(* After the cancel loop of shutdown nothing is queued or running, and     *)
(* nothing becomes so again.                                               *)
THEOREM ShutdownCorrect == SafeSpec => []ShutdownLeavesNothing
<1>1. StopInv => ShutdownLeavesNothing
  BY DEF StopInv, ShutdownLeavesNothing
<1>. QED
  BY <1>1, PoolInvariant, PTL

-------------------------------------------------------------------------------
(* The workers.                                                            *)

(* A worker that is on its way to settle a job found it queued and made it *)
(* running, so nobody else can pick it up; a worker inside _notify goes    *)
(* back to its job exactly when it reports "running".                      *)
WorkInv ==
  /\ \A w \in Workers : AtWork(w) => status[cur[w]] \notin {"none", "queued"}
  /\ \A w \in Workers : pc[w] \in {"notify", "callback"} =>
       /\ back[w] # "idle"
       /\ back[w] \in {"fetch", "run"} <=> say[w] = "running"
  /\ \A t \in Threads \ Workers :
       /\ pc[t] \notin {"fetch", "run", "returned", "raised"}
       /\ pc[t] \in {"notify", "callback"} => back[t] \notin {"fetch", "run"}

(* A step of a worker or of another thread that keeps who works on what.   *)
LEMMA WorkFrame ==
  ASSUME TypeInv, WorkInv, RunningHasOneWorker, NEW t \in Threads,
         \A u \in Threads \ {t} : pc'[u] = pc[u] /\ cur'[u] = cur[u] /\ say'[u] = say[u] /\ back'[u] = back[u],
         t \in Workers => /\ pc'[t] \in {"notify", "callback"} =>
                               back'[t] # "idle" /\ (back'[t] \in {"fetch", "run"} <=> say'[t] = "running")
                          /\ AtWork(t)' => AtWork(t) /\ cur'[t] = cur[t]
                          /\ AtWork(t) => AtWork(t)' \/ status'[cur[t]] # "running",
         t \notin Workers => /\ pc'[t] \notin {"fetch", "run", "returned", "raised"}
                             /\ pc'[t] \in {"notify", "callback"} => back'[t] \notin {"fetch", "run"},
         \A j \in Jobs : status'[j] = "running" => status[j] = "running",
         \A j \in Jobs : status[j] \notin {"none", "queued"} => status'[j] \notin {"none", "queued"}
  PROVE  WorkInv' /\ RunningHasOneWorker'
<1>. USE ThreadFacts
<1>1. \A w \in Workers : AtWork(w)' => AtWork(w) /\ cur'[w] = cur[w]
  BY DEF AtWork
<1>2. \A w \in Workers : AtWork(w) => AtWork(w)' \/ status'[cur[w]] # "running"
  BY DEF AtWork
<1>3. \A w \in Workers : AtWork(w) => cur[w] \in Jobs
  BY DEF AtWork, TypeInv, CallHasJob, InCall
<1>4. WorkInv'
  BY <1>1, <1>3 DEF WorkInv
<1>5. \A v, w \in Workers : AtWork(v)' /\ AtWork(w)' /\ cur'[v] = cur'[w] => v = w
  BY <1>1 DEF RunningHasOneWorker
<1>6. ASSUME NEW j \in Jobs, status'[j] = "running"
      PROVE  \E w \in Workers : cur'[w] = j /\ AtWork(w)'
  <2>1. PICK w \in Workers : cur[w] = j /\ AtWork(w)
    BY <1>6 DEF RunningHasOneWorker
  <2>2. AtWork(w)' /\ cur'[w] = j
    BY <1>1, <1>2, <1>6, <2>1
  <2>. QED
    BY <2>2
<1>. QED
  BY <1>4, <1>5, <1>6 DEF RunningHasOneWorker

LEMMA WorkCancel ==
  ASSUME TypeInv, WorkInv, RunningHasOneWorker,
         NEW t \in Threads \ Workers, NEW j \in Jobs, CancelSection(t, j)
  PROVE  WorkInv' /\ RunningHasOneWorker'
<1>1. \A k \in Jobs : /\ status'[k] = "running" => status[k] = "running"
                      /\ status[k] \notin {"none", "queued"} => status'[k] \notin {"none", "queued"}
  BY DEF CancelSection, TypeInv, TypeOK
<1>2. /\ \A u \in Threads \ {t} : pc'[u] = pc[u] /\ cur'[u] = cur[u] /\ say'[u] = say[u] /\ back'[u] = back[u]
      /\ pc'[t] = "notify" /\ back'[t] = "release"
  BY DEF CancelSection, CallNotify, TypeInv, TypeOK
<1>. QED
  BY <1>1, <1>2, WorkFrame

LEMMA WorkStep ==
  ASSUME TypeInv, StopInv, QueueMatchesStatus, WorkInv, RunningHasOneWorker, [Next]_vars
  PROVE  WorkInv' /\ RunningHasOneWorker'
<1>. USE ThreadFacts
<1>1. ASSUME NEW c \in Callers, NEW j \in Jobs, Submit(c, j)
      PROVE  WorkInv' /\ RunningHasOneWorker'
  <2>1. \A k \in Jobs : /\ status'[k] = "running" => status[k] = "running"
                        /\ status[k] \notin {"none", "queued"} => status'[k] \notin {"none", "queued"}
    BY <1>1 DEF Submit, TypeInv, TypeOK
  <2>2. /\ \A u \in Threads \ {c} : pc'[u] = pc[u] /\ cur'[u] = cur[u] /\ say'[u] = say[u] /\ back'[u] = back[u]
        /\ pc'[c] = "notify" /\ back'[c] = "idle" /\ c \notin Workers
    BY <1>1 DEF Submit, CallNotify, TypeInv, TypeOK
  <2>. QED
    BY <2>1, <2>2, WorkFrame
<1>2. ASSUME NEW c \in Callers, NEW j \in Jobs, Cancel(c, j)
      PROVE  WorkInv' /\ RunningHasOneWorker'
  BY <1>2, WorkCancel DEF Cancel
<1>3. ASSUME NEW t \in Threads, NotifySteps(t)
      PROVE  WorkInv' /\ RunningHasOneWorker'
  <2>1. UNCHANGED status /\ pc[t] \in {"notify", "callback"}
    BY <1>3 DEF NotifySteps, EnterNotify, LeaveNotify
  <2>2. \E place \in {"callback", back[t]} : Goto(t, place)
    BY <1>3 DEF NotifySteps, EnterNotify, LeaveNotify
  <2>3. /\ \A u \in Threads \ {t} : pc'[u] = pc[u] /\ cur'[u] = cur[u] /\ say'[u] = say[u] /\ back'[u] = back[u]
        /\ pc'[t] \in {"callback", back[t]}
        /\ pc'[t] # "idle" => cur'[t] = cur[t] /\ say'[t] = say[t] /\ back'[t] = back[t]
        /\ back[t] \in {"idle", "release", "fetch", "run"}
    BY <2>2 DEF Goto, TypeInv, TypeOK
  <2>4. CASE t \in Workers
    <3>1. /\ back[t] # "idle"
          /\ back[t] \in {"fetch", "run"} <=> say[t] = "running"
      BY <2>1, <2>4 DEF WorkInv
    <3>2. /\ AtWork(t)' => AtWork(t)
          /\ AtWork(t) => AtWork(t)'
      BY <2>1, <2>3, <3>1 DEF AtWork
    <3>. QED
      BY <2>1, <2>3, <2>4, <3>1, <3>2, WorkFrame
  <2>5. CASE t \notin Workers
    BY <2>1, <2>3, <2>5, WorkFrame DEF WorkInv
  <2>. QED
    BY <2>4, <2>5
<1>4. ASSUME NEW t \in Threads, RetireSteps(t)
      PROVE  WorkInv' /\ RunningHasOneWorker'
  <2>1. UNCHANGED status /\ pc[t] \in {"release", "prune", "evict"}
    BY <1>4 DEF RetireSteps, ReleaseSource, PruneTerminal, EvictOne, EvictDone, jobVars
  <2>2. /\ \A u \in Threads \ {t} : pc'[u] = pc[u] /\ cur'[u] = cur[u] /\ say'[u] = say[u] /\ back'[u] = back[u]
        /\ pc'[t] \in {"prune", "evict", "idle", "stopping"}
    BY <1>4 DEF RetireSteps, ReleaseSource, PruneTerminal, EvictOne, EvictDone, Goto, Home, TypeInv, TypeOK
  <2>3. ~AtWork(t) /\ ~AtWork(t)'
    BY <2>1, <2>2 DEF AtWork
  <2>. QED
    BY <2>1, <2>2, <2>3, WorkFrame
<1>5. ASSUME NEW w \in Workers, WorkerSteps(w)
      PROVE  WorkInv' /\ RunningHasOneWorker'
  <2>0. w \in Threads
    OBVIOUS
  <2>1. CASE Take(w)
    <3> DEFINE j == Head(queue)
    <3>1. j \in Jobs /\ \E i \in DOMAIN queue : queue[i] = j
      <4>1. queue \in Seq(Jobs) /\ queue # <<>>
        BY <2>1 DEF Take, TypeInv, TypeOK
      <4>. QED
        BY <4>1, LenProperties, HeadTailProperties, EmptySeq
    <3>2. status[j] = "queued"
      BY <3>1 DEF QueueMatchesStatus
    <3>3. pc[w] = "idle" /\ ~AtWork(w)
      BY <2>1 DEF Take, AtWork
    <3>. HIDE DEF j
    <3>4. CASE UNCHANGED threadVars
      <4>1. /\ \A k \in Jobs : status'[k] = "running" => status[k] = "running"
            /\ \A k \in Jobs : status[k] \notin {"none", "queued"} => status'[k] \notin {"none", "queued"}
        <5>1. UNCHANGED status \/ status' = [status EXCEPT ![j] = "cancelled"] \/ pc'[w] = "notify"
          BY <2>0, <2>1 DEF Take, CallNotify, j, TypeInv, TypeOK
        <5>2. pc'[w] = "idle"
          BY <3>3, <3>4 DEF threadVars
        <5>. QED
          BY <3>1, <3>2, <5>1, <5>2 DEF TypeInv, TypeOK
      <4>2. ~AtWork(w)'
        BY <3>3, <3>4 DEF threadVars, AtWork
      <4>. QED
        BY <2>0, <3>3, <3>4, <4>1, <4>2, WorkFrame DEF threadVars, WorkInv
    <3>5. CASE status' = [status EXCEPT ![j] = "running"] /\ CallNotify(w, j, "running", "fetch")
      <4>1. /\ \A k \in Jobs \ {j} : status'[k] = status[k]
            /\ status'[j] = "running"
        BY <3>1, <3>5 DEF TypeInv, TypeOK
      <4>2. /\ \A u \in Threads \ {w} : pc'[u] = pc[u] /\ cur'[u] = cur[u] /\ say'[u] = say[u] /\ back'[u] = back[u]
            /\ pc'[w] = "notify" /\ cur'[w] = j /\ say'[w] = "running" /\ back'[w] = "fetch"
        BY <2>0, <3>5 DEF CallNotify, TypeInv, TypeOK
      <4>3. \A v \in Workers : AtWork(v) => cur[v] \in Jobs \ {j}
        BY <3>2 DEF WorkInv, AtWork, TypeInv, CallHasJob, InCall
      <4>4. AtWork(w)' /\ \A v \in Workers \ {w} : AtWork(v)' <=> AtWork(v)
        BY <4>2 DEF AtWork
      <4>5. WorkInv'
        BY <4>1, <4>2, <4>3, <4>4 DEF WorkInv
      <4>6. RunningHasOneWorker'
        BY <3>3, <4>1, <4>2, <4>3, <4>4 DEF RunningHasOneWorker
      <4>. QED
        BY <4>5, <4>6
    <3>. QED
      BY <2>1, <3>4, <3>5 DEF Take, threadVars, j
  <2>2. CASE Exit(w)
    <3>1. ~AtWork(w) /\ ~AtWork(w)' /\ pc'[w] = "exited"
      BY <2>0, <2>2 DEF Exit, Goto, AtWork, TypeInv, TypeOK
    <3>2. \A u \in Threads \ {w} : pc'[u] = pc[u] /\ cur'[u] = cur[u] /\ say'[u] = say[u] /\ back'[u] = back[u]
      BY <2>2 DEF Exit, Goto, TypeInv, TypeOK
    <3>3. UNCHANGED status
      BY <2>2 DEF Exit, jobVars
    <3>. QED
      BY <2>0, <3>1, <3>2, <3>3, WorkFrame
  <2>3. CASE Fetch(w) \/ UpdateProgress(w) \/ RunEnds(w)
    <3>1. UNCHANGED status /\ AtWork(w)
      BY <2>3 DEF Fetch, UpdateProgress, RunEnds, jobVars, AtWork
    <3>2. \A u \in Threads \ {w} : pc'[u] = pc[u] /\ cur'[u] = cur[u] /\ say'[u] = say[u] /\ back'[u] = back[u]
      BY <2>3 DEF Fetch, UpdateProgress, RunEnds, Goto, CallNotify, TypeInv, TypeOK
    <3>3. /\ cur'[w] = cur[w]
          /\ \/ pc'[w] \in {"run", "returned", "raised"}
             \/ pc'[w] = "notify" /\ say'[w] = "running" /\ back'[w] = "run"
      BY <2>0, <2>3 DEF Fetch, UpdateProgress, RunEnds, Goto, CallNotify, TypeInv, TypeOK
    <3>4. AtWork(w)'
      BY <3>3 DEF AtWork
    <3>. QED
      BY <2>0, <3>1, <3>2, <3>3, <3>4, WorkFrame
  <2>4. CASE MarkReady(w) \/ MarkFailed(w)
    <3>1. PICK s \in Settled : Settle(w, s)
      BY <2>4 DEF MarkReady, MarkFailed, Settled
    <3>2. \A u \in Threads \ {w} : pc'[u] = pc[u] /\ cur'[u] = cur[u] /\ say'[u] = say[u] /\ back'[u] = back[u]
      BY <3>1 DEF Settle, Goto, CallNotify, TypeInv, TypeOK
    <3>3. /\ cur[w] \in Jobs
          /\ status'[cur[w]] # "running"
          /\ \A k \in Jobs : /\ status'[k] = "running" => status[k] = "running"
                             /\ status[k] \notin {"none", "queued"} => status'[k] \notin {"none", "queued"}
      BY <2>0, <2>4, <3>1 DEF Settle, Settled, MarkReady, MarkFailed, CallHasJob, InCall, TypeInv, TypeOK
    <3>4. \/ pc'[w] = "idle"
          \/ pc'[w] = "notify" /\ back'[w] = "release" /\ say'[w] = s
      BY <2>0, <3>1 DEF Settle, Goto, CallNotify, TypeInv, TypeOK
    <3>5. s # "running"
      BY DEF Settled
    <3>6. ~AtWork(w)'
      BY <3>4, <3>5 DEF AtWork
    <3>. QED
      BY <2>0, <3>2, <3>3, <3>4, <3>5, <3>6, WorkFrame
  <2>. QED
    BY <1>5, <2>1, <2>2, <2>3, <2>4 DEF WorkerSteps
<1>6. CASE Shutdown \/ StopClear \/ StopReturn
  <2>1. UNCHANGED status
    BY <1>6 DEF Shutdown, StopClear, StopReturn, jobVars
  <2>2. /\ \A u \in Threads \ {Main} : pc'[u] = pc[u] /\ cur'[u] = cur[u] /\ say'[u] = say[u] /\ back'[u] = back[u]
        /\ pc'[Main] \in {"stopping", "joining", "exited"}
    BY <1>6 DEF Shutdown, StopClear, StopReturn, Goto, TypeInv, TypeOK
  <2>. QED
    BY <2>1, <2>2, WorkFrame
<1>7. ASSUME NEW j \in Jobs, StopOne(j)
      PROVE  WorkInv' /\ RunningHasOneWorker'
  <2>1. CASE CancelSection(Main, j)
    BY <2>1, WorkCancel
  <2>2. CASE UNCHANGED <<jobVars, threadVars>>
    BY <2>2 DEF jobVars, threadVars, WorkInv, RunningHasOneWorker, AtWork
  <2>. QED
    BY <1>7, <2>1, <2>2 DEF StopOne
<1>8. CASE UNCHANGED vars
  BY <1>8 DEF vars, jobVars, threadVars, WorkInv, RunningHasOneWorker, AtWork
<1>9. CASE Next
  <2>1. CASE \E c \in Callers, j \in Jobs : Submit(c, j) \/ Cancel(c, j)
    BY <1>1, <1>2, <2>1
  <2>2. CASE \E t \in Threads : NotifySteps(t) \/ RetireSteps(t)
    BY <1>3, <1>4, <2>2
  <2>3. CASE \E w \in Workers : WorkerSteps(w)
    BY <1>5, <2>3
  <2>4. CASE Stop
    BY <1>6, <1>7, <2>4 DEF Stop
  <2>. QED
    BY <1>9, <2>1, <2>2, <2>3, <2>4 DEF Next
<1>. QED
  BY <1>8, <1>9

LEMMA WorkInvariant == SafeSpec => [](WorkInv /\ RunningHasOneWorker)
<1>1. Init => WorkInv
  BY ThreadFacts DEF Init, WorkInv, AtWork
<1>2. Init => RunningHasOneWorker
  BY ThreadFacts DEF Init, RunningHasOneWorker, AtWork
<1>3. /\ TypeInv /\ StopInv /\ QueueMatchesStatus
      /\ WorkInv /\ RunningHasOneWorker /\ [Next]_vars
      => WorkInv' /\ RunningHasOneWorker'
  BY WorkStep
<1>. QED
  BY <1>1, <1>2, <1>3, TypeInvariant, PoolInvariant, PTL DEF SafeSpec

(* However many workers the pool has, no job is run by two of them and no  *)
(* running job is left without one.                                        *)
THEOREM OneWorkerPerRunningJob == SafeSpec => []RunningHasOneWorker
BY WorkInvariant, PTL

-------------------------------------------------------------------------------
(* The private source of a settled job.                                    *)

(* Only cancel sets the event, and it settles the job in the same critical *)
(* section: no later step finds a cancelled job still to be settled.       *)
ReleaseInv ==
  /\ \A j \in Jobs : cancelEvent[j] => status[j] = "cancelled"
  /\ \A t \in Threads : pc[t] = "release" => back[t] = "release"

Releasing(t, j) ==
  /\ cur[t] = j
  /\ back[t] = "release"
  /\ pc[t] \in {"notify", "callback", "release"}

(* A step of t that settles nothing, and that leaves a release t is about  *)
(* to make to be made, or makes it.                                        *)
LEMMA ReleaseFrame ==
  ASSUME TypeInv, ReleaseInv, SettledIsReleased, NEW t \in Threads,
         \A u \in Threads \ {t} : pc'[u] = pc[u] /\ cur'[u] = cur[u] /\ back'[u] = back[u],
         pc'[t] = "release" => back'[t] = "release",
         \A j \in Jobs : Releasing(t, j) => Releasing(t, j)' \/ released'[j],
         \A j \in Jobs : released[j] => released'[j],
         \A j \in Jobs : cancelEvent'[j] = cancelEvent[j],
         \A j \in Jobs : status'[j] \in Settled => status'[j] = status[j] \/ Releasing(t, j)',
         \A j \in Jobs : status[j] = "cancelled" => status'[j] = "cancelled"
  PROVE  ReleaseInv' /\ SettledIsReleased'
<1>1. ReleaseInv'
  BY DEF ReleaseInv
<1>2. ASSUME NEW j \in Jobs, status'[j] \in Settled, ~released'[j]
      PROVE  \E u \in Threads : Releasing(u, j)'
  <2>1. CASE status'[j] = status[j]
    <3>1. PICK u \in Threads : Releasing(u, j)
      BY <1>2, <2>1 DEF SettledIsReleased, Releasing
    <3>2. Releasing(u, j)'
      BY <1>2, <3>1 DEF Releasing
    <3>. QED
      BY <3>2
  <2>. QED
    BY <1>2, <2>1
<1>. QED
  BY <1>1, <1>2 DEF SettledIsReleased, Releasing

LEMMA ReleaseCancel ==
  ASSUME TypeInv, ReleaseInv, SettledIsReleased, NEW t \in Threads, NEW j \in Jobs,
         pc[t] \in {"idle", "stopping"}, CancelSection(t, j)
  PROVE  ReleaseInv' /\ SettledIsReleased'
<1>1. /\ \A u \in Threads \ {t} : pc'[u] = pc[u] /\ cur'[u] = cur[u] /\ back'[u] = back[u]
      /\ pc'[t] = "notify" /\ cur'[t] = j /\ back'[t] = "release"
  BY DEF CancelSection, CallNotify, TypeInv, TypeOK
<1>2. /\ \A k \in Jobs \ {j} : status'[k] = status[k] /\ cancelEvent'[k] = cancelEvent[k]
      /\ status'[j] = "cancelled"
      /\ UNCHANGED released
  BY DEF CancelSection, TypeInv, TypeOK
<1>3. ReleaseInv'
  BY <1>1, <1>2 DEF ReleaseInv
<1>4. ASSUME NEW k \in Jobs \ {j}, status'[k] \in Settled, ~released'[k]
      PROVE  \E u \in Threads : Releasing(u, k)'
  <2>1. PICK u \in Threads : Releasing(u, k)
    BY <1>2, <1>4 DEF SettledIsReleased, Releasing
  <2>2. u # t
    BY <2>1 DEF Releasing
  <2>. QED
    BY <1>1, <2>1, <2>2 DEF Releasing
<1>5. Releasing(t, j)'
  BY <1>1 DEF Releasing
<1>. QED
  BY <1>3, <1>4, <1>5 DEF SettledIsReleased, Releasing

LEMMA ReleaseStep ==
  ASSUME TypeInv, StopInv, QueueMatchesStatus, ReleaseInv, SettledIsReleased, [Next]_vars
  PROVE  ReleaseInv' /\ SettledIsReleased'
<1>. USE ThreadFacts
<1>1. ASSUME NEW c \in Callers, NEW j \in Jobs, Submit(c, j)
      PROVE  ReleaseInv' /\ SettledIsReleased'
  <2>1. /\ \A u \in Threads \ {c} : pc'[u] = pc[u] /\ cur'[u] = cur[u] /\ back'[u] = back[u]
        /\ pc[c] = "idle" /\ pc'[c] = "notify"
    BY <1>1 DEF Submit, CallNotify, TypeInv, TypeOK
  <2>2. /\ \A k \in Jobs : status'[k] \in Settled => status'[k] = status[k]
        /\ \A k \in Jobs : status[k] = "cancelled" => status'[k] = "cancelled"
        /\ UNCHANGED <<cancelEvent, released>>
    BY <1>1 DEF Submit, Settled, TypeInv, TypeOK
  <2>. QED
    BY <2>1, <2>2, ReleaseFrame DEF Releasing
<1>2. ASSUME NEW c \in Callers, NEW j \in Jobs, Cancel(c, j)
      PROVE  ReleaseInv' /\ SettledIsReleased'
  BY <1>2, ReleaseCancel DEF Cancel
<1>3. ASSUME NEW t \in Threads, NotifySteps(t)
      PROVE  ReleaseInv' /\ SettledIsReleased'
  <2>1. UNCHANGED <<status, cancelEvent, released>> /\ pc[t] \in {"notify", "callback"}
    BY <1>3 DEF NotifySteps, EnterNotify, LeaveNotify
  <2>2. \E place \in {"callback", back[t]} : Goto(t, place)
    BY <1>3 DEF NotifySteps, EnterNotify, LeaveNotify
  <2>3. /\ \A u \in Threads \ {t} : pc'[u] = pc[u] /\ cur'[u] = cur[u] /\ back'[u] = back[u]
        /\ pc'[t] \in {"callback", back[t]}
        /\ pc'[t] # "idle" => cur'[t] = cur[t] /\ back'[t] = back[t]
        /\ back[t] \in {"idle", "release", "fetch", "run"}
    BY <2>2 DEF Goto, TypeInv, TypeOK
  <2>4. pc'[t] = "release" => back'[t] = "release"
    BY <2>3
  <2>5. \A j \in Jobs : Releasing(t, j) => Releasing(t, j)'
    BY <2>3 DEF Releasing
  <2>. QED
    BY <2>1, <2>3, <2>4, <2>5, ReleaseFrame
<1>4. ASSUME NEW t \in Threads, RetireSteps(t)
      PROVE  ReleaseInv' /\ SettledIsReleased'
  <2>1. UNCHANGED <<status, cancelEvent>>
    BY <1>4 DEF RetireSteps, ReleaseSource, PruneTerminal, EvictOne, EvictDone, jobVars
  <2>2. /\ \A u \in Threads \ {t} : pc'[u] = pc[u] /\ cur'[u] = cur[u] /\ back'[u] = back[u]
        /\ pc'[t] \in {"prune", "evict", "idle", "stopping"}
    BY <1>4 DEF RetireSteps, ReleaseSource, PruneTerminal, EvictOne, EvictDone, Goto, Home, TypeInv, TypeOK
  <2>3. /\ \A j \in Jobs : released[j] => released'[j]
        /\ \A j \in Jobs : Releasing(t, j) => released'[j]
    BY <1>4 DEF RetireSteps, ReleaseSource, PruneTerminal, EvictOne, EvictDone, Releasing, jobVars, TypeInv, TypeOK
  <2>. QED
    BY <2>1, <2>2, <2>3, ReleaseFrame
<1>5. ASSUME NEW w \in Workers, WorkerSteps(w)
      PROVE  ReleaseInv' /\ SettledIsReleased'
  <2>0. w \in Threads
    OBVIOUS
  <2>1. UNCHANGED <<cancelEvent, released>>
    BY <1>5 DEF WorkerSteps, Exit, Take, Fetch, UpdateProgress, RunEnds, MarkReady, MarkFailed, jobVars
  <2>2. /\ \A u \in Threads \ {w} : pc'[u] = pc[u] /\ cur'[u] = cur[u] /\ back'[u] = back[u]
        /\ pc[w] \notin {"notify", "callback", "release"}
    BY <1>5 DEF WorkerSteps, Exit, Take, Fetch, UpdateProgress, RunEnds, MarkReady, MarkFailed, Settle,
                Goto, CallNotify, threadVars, TypeInv, TypeOK
  <2>3. pc'[w] # "release"
    BY <1>5, <2>0, <2>2 DEF WorkerSteps, Exit, Take, Fetch, UpdateProgress, RunEnds, MarkReady, MarkFailed, Settle,
                      Goto, CallNotify, threadVars, TypeInv, TypeOK
  <2>4. \A j \in Jobs : ~Releasing(w, j)
    BY <2>2 DEF Releasing
  <2>5. /\ \A j \in Jobs : status'[j] \in Settled => status'[j] = status[j] \/ Releasing(w, j)'
        /\ \A j \in Jobs : status[j] = "cancelled" => status'[j] = "cancelled"
    <3>1. CASE Take(w)
      <4> DEFINE j == Head(queue)
      <4>1. j \in Jobs /\ \E i \in DOMAIN queue : queue[i] = j
        <5>1. queue \in Seq(Jobs) /\ queue # <<>>
          BY <3>1 DEF Take, TypeInv, TypeOK
        <5>. QED
          BY <5>1, LenProperties, HeadTailProperties, EmptySeq
      <4>2. status[j] = "queued" /\ ~cancelEvent[j]
        BY <4>1 DEF QueueMatchesStatus, ReleaseInv
      <4>3. UNCHANGED status \/ status' = [status EXCEPT ![j] = "running"]
        BY <3>1, <4>2 DEF Take, j
      <4>. HIDE DEF j
      <4>. QED
        BY <4>1, <4>2, <4>3 DEF Settled, TypeInv, TypeOK
    <3>2. CASE MarkReady(w) \/ MarkFailed(w)
      <4>1. PICK s \in Settled : Settle(w, s)
        BY <3>2 DEF MarkReady, MarkFailed, Settled
      <4>2. CASE UNCHANGED status
        BY <4>2
      <4>3. CASE /\ status[cur[w]] = "running"
                 /\ status' = [status EXCEPT ![cur[w]] = s]
                 /\ CallNotify(w, cur[w], s, "release")
        <5>1. \A j \in Jobs : j = cur[w] => Releasing(w, j)'
          BY <2>0, <4>3 DEF CallNotify, Releasing, TypeInv, TypeOK
        <5>2. /\ status[cur[w]] # "cancelled"
              /\ \A k \in Jobs : k # cur[w] => status'[k] = status[k]
          BY <4>3 DEF TypeInv, TypeOK
        <5>. QED
          BY <5>1, <5>2
      <4>. QED
        BY <4>1, <4>2, <4>3 DEF Settle
    <3>3. CASE UNCHANGED status
      BY <3>3
    <3>. QED
      BY <1>5, <3>1, <3>2, <3>3 DEF WorkerSteps, Exit, Fetch, UpdateProgress, RunEnds, jobVars
  <2>. QED
    BY <2>0, <2>1, <2>2, <2>3, <2>4, <2>5, ReleaseFrame
<1>6. CASE Shutdown \/ StopClear \/ StopReturn
  <2>1. /\ UNCHANGED <<status, cancelEvent, released>>
        /\ pc[Main] \in {"idle", "stopping", "joining"}
    BY <1>6 DEF Shutdown, StopClear, StopReturn, jobVars
  <2>2. /\ \A u \in Threads \ {Main} : pc'[u] = pc[u] /\ cur'[u] = cur[u] /\ back'[u] = back[u]
        /\ pc'[Main] \in {"stopping", "joining", "exited"}
    BY <1>6 DEF Shutdown, StopClear, StopReturn, Goto, TypeInv, TypeOK
  <2>. QED
    BY <2>1, <2>2, ReleaseFrame DEF Releasing
<1>7. ASSUME NEW j \in Jobs, StopOne(j)
      PROVE  ReleaseInv' /\ SettledIsReleased'
  <2>1. CASE CancelSection(Main, j)
    BY <1>7, <2>1, ReleaseCancel DEF StopOne
  <2>2. CASE UNCHANGED <<jobVars, threadVars>>
    BY <2>2 DEF jobVars, threadVars, ReleaseInv, SettledIsReleased
  <2>. QED
    BY <1>7, <2>1, <2>2 DEF StopOne
<1>8. CASE UNCHANGED vars
  BY <1>8 DEF vars, jobVars, threadVars, ReleaseInv, SettledIsReleased
<1>9. CASE Next
  <2>1. CASE \E c \in Callers, j \in Jobs : Submit(c, j) \/ Cancel(c, j)
    BY <1>1, <1>2, <2>1
  <2>2. CASE \E t \in Threads : NotifySteps(t) \/ RetireSteps(t)
    BY <1>3, <1>4, <2>2
  <2>3. CASE \E w \in Workers : WorkerSteps(w)
    BY <1>5, <2>3
  <2>4. CASE Stop
    BY <1>6, <1>7, <2>4 DEF Stop
  <2>. QED
    BY <1>9, <2>1, <2>2, <2>3, <2>4 DEF Next
<1>. QED
  BY <1>8, <1>9

LEMMA ReleaseInvariant == SafeSpec => [](ReleaseInv /\ SettledIsReleased)
<1>1. Init => ReleaseInv
  BY DEF Init, ReleaseInv
<1>2. Init => SettledIsReleased
  BY DEF Init, SettledIsReleased, Settled
<1>3. /\ TypeInv /\ StopInv /\ QueueMatchesStatus
      /\ ReleaseInv /\ SettledIsReleased /\ [Next]_vars
      => ReleaseInv' /\ SettledIsReleased'
  BY ReleaseStep
<1>. QED
  BY <1>1, <1>2, <1>3, TypeInvariant, PoolInvariant, PTL DEF SafeSpec

(* The private text of every settled job is dropped or is about to be by   *)
(* the thread that settled it, even when a report of the outcome is        *)
(* suppressed or another thread is inside the listener.                    *)
THEOREM SourceIsReleased == SafeSpec => []SettledIsReleased
BY ReleaseInvariant, PTL

-------------------------------------------------------------------------------
(* How many settled jobs the table keeps.                                  *)

LEMMA LeastNumber ==
  ASSUME NEW S, S \subseteq Nat, S # {}
  PROVE  \E n \in S : \A m \in S : n <= m
<1>1. PICK n \in S : \A m \in S : ~(<<m, n>> \in OpToRel(<, Nat))
  BY NatLessThanWellFounded, WFMin
<1>2. \A m \in S : ~(m < n)
  BY <1>1 DEF OpToRel
<1>. QED
  BY <1>2

(* Pruning leaves no more than Retained jobs: whatever it keeps has at     *)
(* least as many older ones as it has to remove.                           *)
LEMMA OldestLeaves ==
  ASSUME NEW S, S \subseteq Jobs, born \in [Jobs -> Nat]
  PROVE  Cardinality(S \ Oldest(S, Cardinality(S) - Retained)) <= Retained
<1> DEFINE n == Cardinality(S) - Retained
           old == Oldest(S, n)
           kept == S \ old
<1>1. Retained \in Nat /\ IsFiniteSet(S) /\ Cardinality(S) \in Nat
  BY BoundsAreCounts, SubsetsAreCounted
<1>2. old \subseteq S /\ \A j \in S : j \in old <=> Cardinality({k \in S : born[k] < born[j]}) < n
  BY DEF Oldest
<1>3. /\ kept \subseteq S
      /\ IsFiniteSet(kept) /\ Cardinality(kept) \in Nat
      /\ IsFiniteSet(old) /\ Cardinality(old) \in Nat
  BY <1>2, SubsetsAreCounted
<1>4. Cardinality(kept) = Cardinality(S) - Cardinality(old)
  <2>1. Cardinality(kept) = Cardinality(S) - Cardinality(S \cap old)
    BY <1>1, FS_Difference
  <2>2. S \cap old = old
    BY <1>2
  <2>. QED
    BY <2>1, <2>2
<1>5. CASE kept = {}
  <2>1. Cardinality(kept) = 0
    BY <1>5, FS_EmptySet
  <2>. QED
    BY <1>1, <2>1
<1>6. CASE kept # {}
  <2>1. PICK j \in kept : \A k \in kept : born[j] <= born[k]
    <3> DEFINE ages == {born[k] : k \in kept}
    <3>1. ages \subseteq Nat /\ ages # {}
      BY <1>3, <1>6
    <3>2. PICK a \in ages : \A b \in ages : a <= b
      BY <3>1, LeastNumber
    <3>. QED
      BY <3>2
  <2> DEFINE older == {k \in S : born[k] < born[j]}
  <2>2. IsFiniteSet(older) /\ Cardinality(older) \in Nat /\ ~(Cardinality(older) < n)
    BY <1>2, <2>1, SubsetsAreCounted
  <2>3. older \subseteq old
    <3> SUFFICES ASSUME NEW k \in S, born[k] < born[j], k \in kept PROVE FALSE
      OBVIOUS
    <3>1. born[j] <= born[k] /\ born[j] \in Nat /\ born[k] \in Nat
      BY <1>3, <2>1
    <3>. QED
      BY <3>1
  <2>4. Cardinality(older) <= Cardinality(old)
    BY <1>3, <2>3, FS_Subset
  <2>5. n \in Int /\ n = Cardinality(S) - Retained
    BY <1>1
  <2> HIDE DEF n, old, kept, older
  <2>6. Cardinality(kept) <= Retained
    BY <1>1, <1>3, <1>4, <2>2, <2>4, <2>5
  <2>. QED
    BY <2>6 DEF kept, old, n
<1>. QED
  BY <1>5, <1>6

Retirers == {t \in Threads : Retiring(t)}

(* Finitely many threads retire jobs at a time, though the program starts  *)
(* as many as it likes.                                                    *)
RetireInv == IsFiniteSet(Retirers) /\ RetentionBound

(* A step that settles no job and begins or ends no retirement.            *)
LEMMA RetireFrame ==
  ASSUME TypeInv, RetireInv, NEW t \in Threads,
         \A u \in Threads \ {t} : pc'[u] = pc[u] /\ back'[u] = back[u],
         Retiring(t)' <=> Retiring(t),
         SettledInTable' \subseteq SettledInTable
  PROVE  RetireInv'
<1>1. Retirers' = Retirers
  BY DEF Retirers, Retiring
<1>2. IsFiniteSet(SettledInTable) /\ SettledInTable \subseteq Jobs
  BY SubsetsAreCounted DEF SettledInTable, TypeInv, TypeOK
<1>3. /\ Cardinality(SettledInTable') <= Cardinality(SettledInTable)
      /\ Cardinality(SettledInTable) \in Nat /\ Cardinality(SettledInTable') \in Nat
  BY <1>2, FS_Subset, FS_CardinalityType
<1>4. Cardinality(Retirers) \in Nat /\ Retained \in Nat
  BY BoundsAreCounts, FS_CardinalityType DEF RetireInv
<1>5. Cardinality(SettledInTable) <= Retained + Cardinality(Retirers)
  BY DEF RetireInv, RetentionBound, Retirers
<1>6. Cardinality(SettledInTable') <= Retained + Cardinality(Retirers')
  BY <1>1, <1>3, <1>4, <1>5
<1>7. IsFiniteSet(Retirers)'
  BY <1>1 DEF RetireInv
<1>. QED
  BY <1>6, <1>7 DEF RetireInv, RetentionBound, Retirers

(* A thread that settles a job is about to retire it.                      *)
LEMMA RetireBegins ==
  ASSUME TypeInv, RetireInv, NEW t \in Threads, NEW j \in Jobs,
         \A u \in Threads \ {t} : pc'[u] = pc[u] /\ back'[u] = back[u],
         ~Retiring(t), Retiring(t)',
         SettledInTable' \subseteq SettledInTable \cup {j}
  PROVE  RetireInv'
<1>1. Retirers' = Retirers \cup {t} /\ t \notin Retirers
  BY DEF Retirers, Retiring
<1>2. IsFiniteSet(SettledInTable) /\ SettledInTable \subseteq Jobs
  BY SubsetsAreCounted DEF SettledInTable, TypeInv, TypeOK
<1>3. /\ IsFiniteSet(SettledInTable \cup {j})
      /\ Cardinality(SettledInTable \cup {j}) <= Cardinality(SettledInTable) + 1
      /\ Cardinality(SettledInTable) \in Nat /\ Cardinality(SettledInTable \cup {j}) \in Nat
  <2>1. Cardinality(SettledInTable) \in Nat
    BY <1>2, FS_CardinalityType
  <2>2. CASE j \in SettledInTable
    <3>1. SettledInTable \cup {j} = SettledInTable
      BY <2>2
    <3>. QED
      BY <1>2, <2>1, <3>1
  <2>3. CASE j \notin SettledInTable
    <3>1. /\ IsFiniteSet(SettledInTable \cup {j})
          /\ Cardinality(SettledInTable \cup {j}) = Cardinality(SettledInTable) + 1
      BY <1>2, <2>3, FS_AddElement
    <3>. QED
      BY <2>1, <3>1
  <2>. QED
    BY <2>2, <2>3
<1>4. Cardinality(SettledInTable') \in Nat /\ Cardinality(SettledInTable') <= Cardinality(SettledInTable \cup {j})
  BY <1>3, FS_Subset, FS_CardinalityType
<1>5. /\ IsFiniteSet(Retirers) /\ Cardinality(Retirers) \in Nat /\ Retained \in Nat
      /\ IsFiniteSet(Retirers') /\ Cardinality(Retirers') = Cardinality(Retirers) + 1
  BY <1>1, BoundsAreCounts, FS_AddElement, FS_CardinalityType DEF RetireInv
<1>6. Cardinality(SettledInTable) <= Retained + Cardinality(Retirers)
  BY DEF RetireInv, RetentionBound, Retirers
<1>7. Cardinality(SettledInTable') <= Retained + Cardinality(Retirers')
  BY <1>3, <1>4, <1>5, <1>6
<1>. QED
  BY <1>5, <1>7 DEF RetireInv, RetentionBound, Retirers

LEMMA RetireCancel ==
  ASSUME TypeInv, RetireInv, NEW t \in Threads, pc[t] \in {"idle", "stopping"}, NEW j \in Jobs, CancelSection(t, j)
  PROVE  RetireInv'
<1>1. /\ \A u \in Threads \ {t} : pc'[u] = pc[u] /\ back'[u] = back[u]
      /\ pc'[t] = "notify" /\ back'[t] = "release"
  BY DEF CancelSection, CallNotify, TypeInv, TypeOK
<1>2. ~Retiring(t) /\ Retiring(t)'
  BY <1>1 DEF Retiring
<1>3. SettledInTable' \subseteq SettledInTable \cup {j}
  BY DEF CancelSection, SettledInTable, TypeInv, TypeOK
<1>. QED
  BY <1>1, <1>2, <1>3, RetireBegins

LEMMA RetirePrune ==
  ASSUME TypeInv, RetireInv, NEW t \in Threads, PruneTerminal(t)
  PROVE  RetireInv'
<1>1. Retirers' = Retirers \ {t}
  BY DEF PruneTerminal, Retirers, Retiring, TypeInv, TypeOK
<1>2. IsFiniteSet(Retirers') /\ Cardinality(Retirers') \in Nat
  BY <1>1, FS_Subset, FS_CardinalityType DEF RetireInv
<1>3. SettledInTable' = SettledInTable \ Oldest(SettledInTable, Excess)
  BY DEF PruneTerminal, SettledInTable, jobVars, TypeInv, TypeOK
<1>4. Cardinality(SettledInTable') <= Retained
  <2>1. SettledInTable \subseteq Jobs /\ born \in [Jobs -> Nat]
    BY DEF SettledInTable, TypeInv, TypeOK
  <2>. QED
    BY <1>3, <2>1, OldestLeaves DEF Excess
<1>5. SettledInTable' \subseteq Jobs
  BY <1>3 DEF SettledInTable, TypeInv, TypeOK
<1>6. Cardinality(SettledInTable') \in Nat /\ Retained \in Nat
  BY <1>5, SubsetsAreCounted, BoundsAreCounts
<1>7. Cardinality(SettledInTable') <= Retained + Cardinality(Retirers')
  BY <1>2, <1>4, <1>6
<1>. QED
  BY <1>2, <1>7 DEF RetireInv, RetentionBound, Retirers

LEMMA RetireStep ==
  ASSUME TypeInv, QueueMatchesStatus, ReleaseInv, RetireInv, [Next]_vars
  PROVE  RetireInv'
<1>. USE ThreadFacts
<1>1. ASSUME NEW c \in Callers, NEW j \in Jobs, Submit(c, j)
      PROVE  RetireInv'
  <2>1. /\ \A u \in Threads \ {c} : pc'[u] = pc[u] /\ back'[u] = back[u]
        /\ pc[c] = "idle" /\ pc'[c] = "notify" /\ back'[c] = "idle"
    BY <1>1 DEF Submit, CallNotify, TypeInv, TypeOK
  <2>2. SettledInTable' \subseteq SettledInTable
    BY <1>1 DEF Submit, SettledInTable, Settled, TypeInv, TypeOK
  <2>3. ~Retiring(c) /\ ~Retiring(c)'
    BY <2>1 DEF Retiring
  <2>. QED
    BY <2>1, <2>2, <2>3, RetireFrame
<1>2. ASSUME NEW c \in Callers, NEW j \in Jobs, Cancel(c, j)
      PROVE  RetireInv'
  BY <1>2, RetireCancel DEF Cancel
<1>3. ASSUME NEW t \in Threads, NotifySteps(t)
      PROVE  RetireInv'
  <2>1. UNCHANGED <<status, table>> /\ pc[t] \in {"notify", "callback"}
    BY <1>3 DEF NotifySteps, EnterNotify, LeaveNotify, poolVars
  <2>2. \E place \in {"callback", back[t]} : Goto(t, place)
    BY <1>3 DEF NotifySteps, EnterNotify, LeaveNotify
  <2>3. /\ \A u \in Threads \ {t} : pc'[u] = pc[u] /\ back'[u] = back[u]
        /\ pc'[t] \in {"callback", back[t]}
        /\ pc'[t] # "idle" => back'[t] = back[t]
        /\ back[t] \in {"idle", "release", "fetch", "run"}
    BY <2>2 DEF Goto, TypeInv, TypeOK
  <2>4. Retiring(t)' <=> Retiring(t)
    BY <2>1, <2>3 DEF Retiring
  <2>5. SettledInTable' = SettledInTable
    BY <2>1 DEF SettledInTable
  <2>. QED
    BY <2>3, <2>4, <2>5, RetireFrame
<1>4. ASSUME NEW t \in Threads, RetireSteps(t)
      PROVE  RetireInv'
  <2>1. CASE PruneTerminal(t)
    BY <2>1, RetirePrune
  <2>2. CASE ~PruneTerminal(t)
    <3>1. UNCHANGED <<status, table>>
      BY <1>4, <2>2 DEF RetireSteps, ReleaseSource, EvictOne, EvictDone, jobVars, poolVars
    <3>2. /\ \A u \in Threads \ {t} : pc'[u] = pc[u] /\ back'[u] = back[u]
          /\ \/ pc[t] = "release" /\ pc'[t] = "prune"
             \/ pc[t] = "evict" /\ pc'[t] \in {"evict", "idle", "stopping"}
      BY <1>4, <2>2 DEF RetireSteps, ReleaseSource, EvictOne, EvictDone, Goto, Home, TypeInv, TypeOK
    <3>3. Retiring(t)' <=> Retiring(t)
      BY <3>2 DEF Retiring
    <3>4. SettledInTable' = SettledInTable
      BY <3>1 DEF SettledInTable
    <3>. QED
      BY <3>2, <3>3, <3>4, RetireFrame
  <2>. QED
    BY <2>1, <2>2
<1>5. ASSUME NEW w \in Workers, WorkerSteps(w)
      PROVE  RetireInv'
  <2>0. w \in Threads /\ table' = table
    BY <1>5 DEF WorkerSteps, Exit, Take, Fetch, UpdateProgress, RunEnds, MarkReady, MarkFailed, poolVars
  <2>1. /\ \A u \in Threads \ {w} : pc'[u] = pc[u] /\ back'[u] = back[u]
        /\ pc[w] \in {"idle", "fetch", "run", "returned", "raised"}
    BY <1>5 DEF WorkerSteps, Exit, Take, Fetch, UpdateProgress, RunEnds, MarkReady, MarkFailed, Settle,
                Goto, CallNotify, threadVars, TypeInv, TypeOK
  <2>2. ~Retiring(w)
    BY <2>1 DEF Retiring
  <2>3. CASE Take(w)
    <3> DEFINE j == Head(queue)
    <3>1. j \in Jobs /\ \E i \in DOMAIN queue : queue[i] = j
      <4>1. queue \in Seq(Jobs) /\ queue # <<>>
        BY <2>3 DEF Take, TypeInv, TypeOK
      <4>. QED
        BY <4>1, LenProperties, HeadTailProperties, EmptySeq
    <3>2. status[j] = "queued" /\ ~cancelEvent[j]
      BY <3>1 DEF QueueMatchesStatus, ReleaseInv
    <3>3. \/ UNCHANGED <<status, threadVars>>
          \/ status' = [status EXCEPT ![j] = "running"] /\ CallNotify(w, j, "running", "fetch")
      BY <2>3, <3>2 DEF Take
    <3>. HIDE DEF j
    <3>4. SettledInTable' \subseteq SettledInTable
      BY <2>0, <3>1, <3>3 DEF SettledInTable, Settled, TypeInv, TypeOK
    <3>5. (pc'[w] = pc[w] /\ back'[w] = back[w]) \/ (pc'[w] = "notify" /\ back'[w] = "fetch")
      BY <2>0, <3>3 DEF CallNotify, threadVars, TypeInv, TypeOK
    <3>6. ~Retiring(w)'
      BY <2>1, <3>5 DEF Retiring
    <3>. QED
      BY <2>0, <2>1, <2>2, <3>4, <3>6, RetireFrame
  <2>4. CASE MarkReady(w) \/ MarkFailed(w)
    <3>1. PICK s \in Settled : Settle(w, s)
      BY <2>4 DEF MarkReady, MarkFailed, Settled
    <3>2. cur[w] \in Jobs
      BY <2>0, <2>4 DEF MarkReady, MarkFailed, CallHasJob, InCall, TypeInv
    <3>3. CASE Goto(w, "idle") /\ UNCHANGED status
      <4>1. SettledInTable' = SettledInTable
        BY <2>0, <3>3 DEF SettledInTable
      <4>2. ~Retiring(w)'
        BY <2>0, <3>3 DEF Goto, Retiring, TypeInv, TypeOK
      <4>. QED
        BY <2>0, <2>1, <2>2, <4>1, <4>2, RetireFrame
    <3>4. CASE status' = [status EXCEPT ![cur[w]] = s] /\ CallNotify(w, cur[w], s, "release")
      <4>1. SettledInTable' \subseteq SettledInTable \cup {cur[w]}
        BY <2>0, <3>4 DEF SettledInTable, TypeInv, TypeOK
      <4>2. Retiring(w)'
        BY <2>0, <3>4 DEF CallNotify, Retiring, TypeInv, TypeOK
      <4>. QED
        BY <2>0, <2>1, <2>2, <3>2, <4>1, <4>2, RetireBegins
    <3>. QED
      BY <3>1, <3>3, <3>4 DEF Settle
  <2>5. CASE Exit(w) \/ Fetch(w) \/ UpdateProgress(w) \/ RunEnds(w)
    <3>1. SettledInTable' = SettledInTable
      BY <2>5 DEF Exit, Fetch, UpdateProgress, RunEnds, jobVars, poolVars, SettledInTable
    <3>2. \/ pc'[w] \in {"exited", "run", "returned", "raised"}
          \/ pc'[w] = "notify" /\ back'[w] = "run"
      BY <2>0, <2>5 DEF Exit, Fetch, UpdateProgress, RunEnds, Goto, CallNotify, TypeInv, TypeOK
    <3>3. ~Retiring(w)'
      BY <3>2 DEF Retiring
    <3>. QED
      BY <2>0, <2>1, <2>2, <3>1, <3>3, RetireFrame
  <2>. QED
    BY <1>5, <2>3, <2>4, <2>5 DEF WorkerSteps
<1>6. CASE Shutdown \/ StopClear \/ StopReturn
  <2>1. UNCHANGED <<status, table>> /\ pc[Main] \in {"idle", "stopping", "joining"}
    BY <1>6 DEF Shutdown, StopClear, StopReturn, jobVars, poolVars
  <2>2. /\ \A u \in Threads \ {Main} : pc'[u] = pc[u] /\ back'[u] = back[u]
        /\ pc'[Main] \in {"stopping", "joining", "exited"}
    BY <1>6 DEF Shutdown, StopClear, StopReturn, Goto, TypeInv, TypeOK
  <2>3. ~Retiring(Main) /\ ~Retiring(Main)'
    BY <2>1, <2>2 DEF Retiring
  <2>4. SettledInTable' = SettledInTable
    BY <2>1 DEF SettledInTable
  <2>. QED
    BY <2>2, <2>3, <2>4, RetireFrame
<1>7. ASSUME NEW j \in Jobs, StopOne(j)
      PROVE  RetireInv'
  <2>1. CASE CancelSection(Main, j)
    BY <1>7, <2>1, RetireCancel DEF StopOne
  <2>2. CASE UNCHANGED <<jobVars, table, threadVars>>
    <3>1. UNCHANGED <<status, table, pc, back>>
      BY <2>2 DEF jobVars, threadVars
    <3>2. SettledInTable' = SettledInTable
      BY <3>1 DEF SettledInTable
    <3>3. Retiring(Main)' <=> Retiring(Main)
      BY <3>1 DEF Retiring
    <3>. QED
      BY <3>1, <3>2, <3>3, RetireFrame
  <2>. QED
    BY <1>7, <2>1, <2>2 DEF StopOne
<1>8. CASE UNCHANGED vars
  <2>1. UNCHANGED <<status, table, pc, back>>
    BY <1>8 DEF vars, jobVars, poolVars, threadVars
  <2>2. SettledInTable' = SettledInTable
    BY <2>1 DEF SettledInTable
  <2>3. Retiring(Main)' <=> Retiring(Main)
    BY <2>1 DEF Retiring
  <2>. QED
    BY <2>1, <2>2, <2>3, RetireFrame
<1>9. CASE Next
  <2>1. CASE \E c \in Callers, j \in Jobs : Submit(c, j) \/ Cancel(c, j)
    BY <1>1, <1>2, <2>1
  <2>2. CASE \E t \in Threads : NotifySteps(t) \/ RetireSteps(t)
    BY <1>3, <1>4, <2>2
  <2>3. CASE \E w \in Workers : WorkerSteps(w)
    BY <1>5, <2>3
  <2>4. CASE Stop
    BY <1>6, <1>7, <2>4 DEF Stop
  <2>. QED
    BY <1>9, <2>1, <2>2, <2>3, <2>4 DEF Next
<1>. QED
  BY <1>8, <1>9

(* The table holds no more settled jobs than retained_terminal and the     *)
(* threads that have settled one and not pruned yet, whatever the order in *)
(* which they settle, report and prune.                                    *)
THEOREM RetentionBounded == SafeSpec => []RetentionBound
<1>1. Init => RetireInv
  <2> SUFFICES ASSUME Init PROVE RetireInv
    OBVIOUS
  <2>1. Retirers = {} /\ SettledInTable = {}
    BY DEF Init, Retirers, Retiring, SettledInTable
  <2>2. IsFiniteSet({}) /\ Cardinality({}) = 0
    BY FS_EmptySet
  <2>. QED
    BY <2>1, <2>2, BoundsAreCounts DEF RetireInv, RetentionBound, Retirers
<1>2. TypeInv /\ QueueMatchesStatus /\ ReleaseInv /\ RetireInv /\ [Next]_vars => RetireInv'
  BY RetireStep
<1>3. RetireInv => RetentionBound
  BY DEF RetireInv
<1>. QED
  BY <1>1, <1>2, <1>3, TypeInvariant, PoolInvariant, ReleaseInvariant, PTL DEF SafeSpec

-------------------------------------------------------------------------------
(* Between any two critical sections of the pool its data are consistent:  *)
(* queue, workers, shutdown, sources and table, for any number of threads. *)
THEOREM PoolCorrect == SafeSpec => []PoolIsConsistent
<1>1. (QueueMatchesStatus /\ RunningHasOneWorker /\ ShutdownLeavesNothing /\ SettledIsReleased /\ RetentionBound)
      => PoolIsConsistent
  BY DEF PoolIsConsistent
<1>. QED
  BY <1>1, QueueCorrect, OneWorkerPerRunningJob, ShutdownCorrect, SourceIsReleased, RetentionBounded, PTL

-------------------------------------------------------------------------------
(* The pool implements SummaryLifecycle: what its listener hears is the    *)
(* life of each job, in order, whatever the threads do in between.         *)

Rank == Lifecycle!Rank

LEMMA RankFacts ==
  /\ Rank["none"] = 0
  /\ Rank["queued"] = 1
  /\ Rank["running"] = 2
  /\ \A s \in Settled : Rank[s] = 3
BY DEF Rank, Lifecycle!Rank, Lifecycle!Phases, Lifecycle!Settled, Settled

LEMMA StatusIsPhase ==
  /\ Statuses = Lifecycle!Phases
  /\ Settled = Lifecycle!Settled
BY DEF Statuses, Active, Settled, Lifecycle!Phases, Lifecycle!Settled

(* A thread inside the listener holds the job's notify_lock; what it says  *)
(* is no older than the last report and no newer than the job, and a final *)
(* report is the outcome, made once.                                       *)
Telling(t) ==
  /\ holder[cur[t]] = t
  /\ told[cur[t]] \notin Settled
  /\ say[t] # "none"
  /\ Rank[told[cur[t]]] <= Rank[say[t]]
  /\ Rank[say[t]] <= Rank[status[cur[t]]]
  /\ say[t] \in Settled => say[t] = status[cur[t]] /\ notified[cur[t]]

Heard(j) ==
  /\ Rank[told[j]] <= Rank[status[j]]
  /\ told[j] \in Settled => told[j] = status[j] /\ notified[j]
  /\ notified[j] => status[j] \in Settled

ReportInv ==
  /\ \A t \in Threads : pc[t] = "notify" => say[t] # "none"
  /\ \A t \in Threads : pc[t] = "callback" => Telling(t)
  /\ \A j \in Jobs : Heard(j)

(* A status only moves forward, and a settled one does not move.           *)
Forward(j) ==
  \/ status'[j] = status[j]
  \/ status[j] \notin Settled /\ Rank[status[j]] <= Rank[status'[j]]

(* A step outside the listener that moves no job backwards.                *)
LEMMA ReportFrame ==
  ASSUME TypeInv, ReportInv, NEW t \in Threads,
         UNCHANGED <<notified, holder, told>>,
         \A j \in Jobs : status'[j] \in Statuses /\ Forward(j),
         \A u \in Threads \ {t} : pc'[u] = pc[u] /\ cur'[u] = cur[u] /\ say'[u] = say[u],
         pc'[t] # "callback",
         pc'[t] = "notify" => say'[t] # "none"
  PROVE  ReportInv'
<1>1. \A s \in Statuses : Rank[s] \in 0..3
  BY RankFacts DEF Statuses, Active
<1>2. ASSUME NEW j \in Jobs
      PROVE  Heard(j)'
  <2>1. Heard(j) /\ Forward(j) /\ UNCHANGED <<notified, told>>
    BY DEF ReportInv
  <2>2. told[j] \in Statuses /\ status[j] \in Statuses /\ status'[j] \in Statuses
    BY DEF TypeInv, TypeOK
  <2>3. told[j] \in Settled => status'[j] = status[j]
    BY <2>1 DEF Heard, Forward
  <2>4. notified[j] => status'[j] = status[j]
    BY <2>1 DEF Heard, Forward
  <2>5. Rank[told[j]] <= Rank[status'[j]]
    BY <1>1, <2>1, <2>2 DEF Heard, Forward
  <2>. QED
    BY <2>1, <2>3, <2>4, <2>5 DEF Heard
<1>3. ASSUME NEW u \in Threads, pc'[u] = "callback"
      PROVE  Telling(u)'
  <2>1. /\ pc[u] = "callback" /\ Telling(u) /\ cur'[u] = cur[u] /\ say'[u] = say[u]
        /\ cur[u] \in Jobs /\ say[u] \in Statuses
    BY <1>3 DEF ReportInv, TypeInv, CallHasJob, InCall, TypeOK
  <2>2. Rank[say[u]] <= Rank[status'[cur[u]]]
    <3>1. /\ say[u] \in Statuses /\ status[cur[u]] \in Statuses
          /\ status'[cur[u]] \in Statuses /\ Forward(cur[u])
      BY <2>1 DEF TypeInv, TypeOK
    <3>. QED
      BY <1>1, <2>1, <3>1 DEF Telling, Forward
  <2>3. say[u] \in Settled => say[u] = status'[cur[u]]
    BY <2>1 DEF Telling, Forward
  <2>. QED
    BY <2>1, <2>2, <2>3 DEF Telling
<1>. QED
  BY <1>2, <1>3 DEF ReportInv

(* The four ways a status changes, as steps of the specification; told and *)
(* the flag of the pool change elsewhere.                                  *)
Moves ==
  \E j \in Jobs :
    \/ /\ ~closed /\ status[j] = "none"
       /\ status' = [status EXCEPT ![j] = "queued"]
    \/ /\ ~closed /\ status[j] = "queued"
       /\ status' = [status EXCEPT ![j] = "running"]
    \/ /\ status[j] = "queued"
       /\ status' = [status EXCEPT ![j] = "cancelled"]
    \/ /\ status[j] = "running"
       /\ \E s \in Settled : status' = [status EXCEPT ![j] = s]

LEMMA MovesForward ==
  ASSUME TypeInv, UNCHANGED status \/ Moves
  PROVE  \A j \in Jobs : status'[j] \in Statuses /\ Forward(j)
<1>1. CASE UNCHANGED status
  BY <1>1 DEF Forward, TypeInv, TypeOK
<1>2. CASE Moves
  BY <1>2, RankFacts DEF Moves, Forward, Statuses, Active, Settled, TypeInv, TypeOK
<1>. QED
  BY <1>1, <1>2

LEMMA MovesImplement ==
  ASSUME UNCHANGED <<told, closed>>, UNCHANGED status \/ Moves
  PROVE  [Lifecycle!Next]_(Lifecycle!lifecycleVars)
BY DEF Moves, Lifecycle!Next, Lifecycle!lifecycleVars, Lifecycle!Submit, Lifecycle!Start, Lifecycle!Settle,
       Lifecycle!Settled, Settled

(* Every step but those of a listener and the closing of the pool.         *)
QuietBy(t) ==
  /\ UNCHANGED <<notified, holder, told, closed>>
  /\ UNCHANGED status \/ Moves
  /\ \A u \in Threads \ {t} : pc'[u] = pc[u] /\ cur'[u] = cur[u] /\ say'[u] = say[u]
  /\ pc'[t] # "callback"
  /\ pc'[t] = "notify" => say'[t] # "none"

LEMMA QuietStep ==
  ASSUME TypeInv, Next, ~Shutdown, ~\E t \in Threads : NotifySteps(t)
  PROVE  \E t \in Threads : QuietBy(t)
<1>. USE ThreadFacts
<1>1. ASSUME NEW c \in Callers, NEW j \in Jobs, Submit(c, j)
      PROVE  QuietBy(c)
  <2>1. Moves
    BY <1>1 DEF Submit, Moves
  <2>2. /\ \A u \in Threads \ {c} : pc'[u] = pc[u] /\ cur'[u] = cur[u] /\ say'[u] = say[u]
        /\ pc'[c] = "notify" /\ say'[c] = "queued"
    BY <1>1 DEF Submit, CallNotify, TypeInv, TypeOK
  <2>. QED
    BY <1>1, <2>1, <2>2 DEF Submit, QuietBy
<1>2. ASSUME NEW t \in Threads, NEW j \in Jobs, CancelSection(t, j)
      PROVE  QuietBy(t)
  <2>1. Moves
    BY <1>2 DEF CancelSection, Moves, Active, Settled
  <2>2. /\ \A u \in Threads \ {t} : pc'[u] = pc[u] /\ cur'[u] = cur[u] /\ say'[u] = say[u]
        /\ pc'[t] = "notify" /\ say'[t] = "cancelled"
    BY <1>2 DEF CancelSection, CallNotify, TypeInv, TypeOK
  <2>. QED
    BY <1>2, <2>1, <2>2 DEF CancelSection, QuietBy
<1>3. ASSUME NEW t \in Threads, RetireSteps(t)
      PROVE  QuietBy(t)
  <2>1. UNCHANGED <<status, notified, holder, told, closed>>
    BY <1>3 DEF RetireSteps, ReleaseSource, PruneTerminal, EvictOne, EvictDone, jobVars, poolVars
  <2>2. /\ \A u \in Threads \ {t} : pc'[u] = pc[u] /\ cur'[u] = cur[u] /\ say'[u] = say[u]
        /\ pc'[t] \in {"prune", "evict", "idle", "stopping"}
    BY <1>3 DEF RetireSteps, ReleaseSource, PruneTerminal, EvictOne, EvictDone, Goto, Home, TypeInv, TypeOK
  <2>. QED
    BY <2>1, <2>2 DEF QuietBy
<1>4. ASSUME NEW w \in Workers, WorkerSteps(w)
      PROVE  QuietBy(w)
  <2>0. w \in Threads /\ UNCHANGED <<notified, holder, told, closed>>
    BY <1>4 DEF WorkerSteps, Exit, Take, Fetch, UpdateProgress, RunEnds, MarkReady, MarkFailed, jobVars, poolVars
  <2>1. CASE Take(w)
    <3>1. Head(queue) \in Jobs /\ pc[w] = "idle"
      BY <2>1, HeadTailProperties DEF Take, TypeInv, TypeOK
    <3>2. UNCHANGED status \/ Moves
      BY <2>1, <3>1 DEF Take, Moves
    <3>3. /\ \A u \in Threads \ {w} : pc'[u] = pc[u] /\ cur'[u] = cur[u] /\ say'[u] = say[u]
          /\ \/ pc'[w] = "idle"
             \/ pc'[w] = "notify" /\ say'[w] = "running"
      <4>1. CASE UNCHANGED threadVars
        BY <3>1, <4>1 DEF threadVars
      <4>2. CASE CallNotify(w, Head(queue), "running", "fetch")
        BY <2>0, <4>2 DEF CallNotify, TypeInv, TypeOK
      <4>. QED
        BY <2>1, <4>1, <4>2 DEF Take, threadVars
    <3>. QED
      BY <2>0, <3>2, <3>3 DEF QuietBy
  <2>2. CASE Exit(w) \/ Fetch(w) \/ UpdateProgress(w) \/ RunEnds(w)
    <3>1. UNCHANGED status
      BY <2>2 DEF Exit, Fetch, UpdateProgress, RunEnds, jobVars
    <3>2. /\ \A u \in Threads \ {w} : pc'[u] = pc[u] /\ cur'[u] = cur[u] /\ say'[u] = say[u]
          /\ \/ pc'[w] \in {"exited", "run", "returned", "raised"}
             \/ pc'[w] = "notify" /\ say'[w] = "running"
      BY <2>0, <2>2 DEF Exit, Fetch, UpdateProgress, RunEnds, Goto, CallNotify, TypeInv, TypeOK
    <3>. QED
      BY <2>0, <3>1, <3>2 DEF QuietBy
  <2>3. CASE MarkReady(w) \/ MarkFailed(w)
    <3>1. PICK s \in Settled : Settle(w, s)
      BY <2>3 DEF MarkReady, MarkFailed, Settled
    <3>2. cur[w] \in Jobs
      BY <2>0, <2>3 DEF MarkReady, MarkFailed, CallHasJob, InCall, TypeInv
    <3>3. UNCHANGED status \/ Moves
      BY <3>1, <3>2 DEF Settle, Moves
    <3>4. /\ \A u \in Threads \ {w} : pc'[u] = pc[u] /\ cur'[u] = cur[u] /\ say'[u] = say[u]
          /\ \/ pc'[w] = "idle"
             \/ pc'[w] = "notify" /\ say'[w] = s
      <4>1. CASE Goto(w, "idle")
        BY <2>0, <4>1 DEF Goto, TypeInv, TypeOK
      <4>2. CASE CallNotify(w, cur[w], s, "release")
        BY <2>0, <4>2 DEF CallNotify, TypeInv, TypeOK
      <4>. QED
        BY <3>1, <4>1, <4>2 DEF Settle
    <3>. QED
      BY <2>0, <3>3, <3>4 DEF Settled, QuietBy
  <2>. QED
    BY <1>4, <2>1, <2>2, <2>3 DEF WorkerSteps
<1>5. ASSUME NEW j \in Jobs, StopOne(j)
      PROVE  QuietBy(Main)
  <2>1. CASE UNCHANGED <<jobVars, table, born, queue, closed, threadVars>>
    <3>1. pc[Main] = "stopping"
      BY <1>5 DEF StopOne
    <3>. QED
      BY <2>1, <3>1 DEF QuietBy, jobVars, threadVars
  <2>. QED
    BY <1>2, <1>5, <2>1 DEF StopOne
<1>6. ASSUME StopClear \/ StopReturn
      PROVE  QuietBy(Main)
  <2>1. UNCHANGED <<status, notified, holder, told, closed>>
    BY <1>6 DEF StopClear, StopReturn, jobVars, poolVars
  <2>2. /\ \A u \in Threads \ {Main} : pc'[u] = pc[u] /\ cur'[u] = cur[u] /\ say'[u] = say[u]
        /\ pc'[Main] \in {"joining", "exited"}
    BY <1>6 DEF StopClear, StopReturn, Goto, TypeInv, TypeOK
  <2>. QED
    BY <2>1, <2>2 DEF QuietBy
<1>7. CASE \E c \in Callers, j \in Jobs : Submit(c, j) \/ Cancel(c, j)
  BY <1>1, <1>2, <1>7 DEF Cancel
<1>8. CASE \E t \in Threads : RetireSteps(t)
  BY <1>3, <1>8
<1>9. CASE \E w \in Workers : WorkerSteps(w)
  BY <1>4, <1>9
<1>10. CASE Stop
  BY <1>5, <1>6, <1>10 DEF Stop
<1>. QED
  BY <1>7, <1>8, <1>9, <1>10 DEF Next

(* Entering the listener: the report is current, so the last one cannot be *)
(* newer, and a final one was not made before.                             *)
LEMMA EnterStep ==
  ASSUME TypeInv, ReportInv, NEW t \in Threads, EnterNotify(t)
  PROVE  ReportInv'
<1>1. \A s \in Statuses : Rank[s] \in 0..3
  BY RankFacts DEF Statuses, Active
<1>2. /\ cur[t] \in Jobs /\ say[t] \in Statuses /\ say[t] # "none"
      /\ holder[cur[t]] = None
      /\ UNCHANGED <<status, told>>
  BY DEF EnterNotify, ReportInv, TypeInv, TypeOK, CallHasJob, InCall
<1>3. \A u \in Threads : pc[u] = "callback" => cur[u] # cur[t]
  BY <1>2, ThreadFacts DEF ReportInv, Telling
<1>4. \A u \in Threads \ {t} : pc'[u] = pc[u] /\ cur'[u] = cur[u] /\ say'[u] = say[u]
  BY DEF EnterNotify, Goto, TypeInv, TypeOK
<1>5. CASE Outdated(t)
  <2>1. /\ UNCHANGED <<holder, notified>>
        /\ pc'[t] \in {"idle", "release", "fetch", "run"}
    BY <1>5 DEF EnterNotify, Goto, TypeInv, TypeOK
  <2>. QED
    BY <1>2, <1>4, <2>1 DEF ReportInv, Telling, Heard
<1>6. CASE ~Outdated(t)
  <2>1. /\ pc'[t] = "callback" /\ cur'[t] = cur[t] /\ say'[t] = say[t]
        /\ holder' = [holder EXCEPT ![cur[t]] = t]
        /\ notified' = [notified EXCEPT ![cur[t]] = @ \/ say[t] \in Settled]
    BY <1>6 DEF EnterNotify, Goto, TypeInv, TypeOK
  <2>2. /\ say[t] = status[cur[t]]
        /\ say[t] \in Settled => ~notified[cur[t]]
    BY <1>6 DEF Outdated
  <2>3. Heard(cur[t])
    BY <1>2 DEF ReportInv
  <2>4. told[cur[t]] \notin Settled
    BY <2>2, <2>3 DEF Heard
  <2>5. /\ \A j \in Jobs : j # cur[t] => holder'[j] = holder[j] /\ notified'[j] = notified[j]
        /\ holder'[cur[t]] = t
    BY <1>2, <2>1 DEF TypeInv, TypeOK
  <2>6. notified'[cur[t]] <=> notified[cur[t]] \/ say[t] \in Settled
    BY <1>2, <2>1 DEF TypeInv, TypeOK
  <2>7. Telling(t)'
    BY <1>1, <1>2, <2>1, <2>2, <2>3, <2>4, <2>5, <2>6 DEF Telling, Heard
  <2>8. \A u \in Threads \ {t} : pc'[u] = "callback" => Telling(u)'
    <3> SUFFICES ASSUME NEW u \in Threads \ {t}, pc'[u] = "callback"
                 PROVE  Telling(u)'
      OBVIOUS
    <3>1. cur[u] \in Jobs /\ cur[u] # cur[t] /\ Telling(u)
      BY <1>3, <1>4 DEF ReportInv, TypeInv, CallHasJob, InCall
    <3>. QED
      BY <1>2, <1>4, <2>5, <3>1 DEF Telling
  <2>9. \A j \in Jobs : Heard(j)'
    <3> SUFFICES ASSUME NEW j \in Jobs
                 PROVE  Heard(j)'
      OBVIOUS
    <3>1. CASE j = cur[t]
      BY <1>2, <2>2, <2>3, <2>4, <2>6, <3>1 DEF Heard
    <3>2. CASE j # cur[t]
      BY <1>2, <2>5, <3>2 DEF Heard, ReportInv
    <3>. QED
      BY <3>1, <3>2
  <2>. QED
    BY <1>4, <2>1, <2>7, <2>8, <2>9 DEF ReportInv
<1>. QED
  BY <1>5, <1>6

(* The report itself.                                                      *)
LEMMA LeaveStep ==
  ASSUME TypeInv, ReportInv, NEW t \in Threads, LeaveNotify(t)
  PROVE  ReportInv' /\ Lifecycle!Next
<1>1. /\ cur[t] \in Jobs /\ say[t] \in Statuses
      /\ Telling(t)
      /\ UNCHANGED <<status, notified, closed>>
  BY DEF LeaveNotify, ReportInv, TypeInv, TypeOK, CallHasJob, InCall, poolVars
<1>2. \A u \in Threads \ {t} : pc[u] = "callback" => cur[u] # cur[t]
  BY <1>1 DEF ReportInv, Telling
<1>3. /\ \A u \in Threads \ {t} : pc'[u] = pc[u] /\ cur'[u] = cur[u] /\ say'[u] = say[u]
      /\ pc'[t] \in {"idle", "release", "fetch", "run"}
  BY DEF LeaveNotify, Goto, TypeInv, TypeOK
<1>4. /\ \A j \in Jobs : j # cur[t] => holder'[j] = holder[j] /\ told'[j] = told[j]
      /\ told'[cur[t]] = say[t]
  BY <1>1 DEF LeaveNotify, TypeInv, TypeOK
<1>5. \A u \in Threads : pc'[u] = "callback" => Telling(u)'
  <2> SUFFICES ASSUME NEW u \in Threads, pc'[u] = "callback"
               PROVE  Telling(u)'
    OBVIOUS
  <2>1. u # t /\ cur[u] \in Jobs /\ cur[u] # cur[t] /\ Telling(u)
    BY <1>2, <1>3 DEF ReportInv, TypeInv, CallHasJob, InCall
  <2>. QED
    BY <1>1, <1>3, <1>4, <2>1 DEF Telling
<1>6. \A j \in Jobs : Heard(j)'
  <2> SUFFICES ASSUME NEW j \in Jobs
               PROVE  Heard(j)'
    OBVIOUS
  <2>1. Heard(j)
    BY DEF ReportInv
  <2>. QED
    BY <1>1, <1>4, <2>1 DEF Heard, Telling
<1>7. Lifecycle!Tell(cur[t], say[t])
  BY <1>1, StatusIsPhase DEF Telling, Rank, LeaveNotify, Lifecycle!Tell
<1>. QED
  BY <1>1, <1>3, <1>5, <1>6, <1>7, StatusIsPhase DEF ReportInv, Telling, Lifecycle!Next

LEMMA ReportStep ==
  ASSUME TypeInv, ReportInv, [Next]_vars
  PROVE  ReportInv' /\ [Lifecycle!Next]_(Lifecycle!lifecycleVars)
<1>1. ASSUME NEW t \in Threads, NotifySteps(t)
      PROVE  ReportInv' /\ [Lifecycle!Next]_(Lifecycle!lifecycleVars)
  <2>1. CASE EnterNotify(t)
    <3>1. UNCHANGED <<status, told, closed>>
      BY <2>1 DEF EnterNotify, poolVars
    <3>. QED
      BY <2>1, <3>1, EnterStep DEF Lifecycle!lifecycleVars
  <2>2. CASE LeaveNotify(t)
    BY <2>2, LeaveStep
  <2>. QED
    BY <1>1, <2>1, <2>2 DEF NotifySteps
<1>2. CASE Shutdown
  <2>1. /\ \A u \in Threads \ {Main} : pc'[u] = pc[u] /\ cur'[u] = cur[u] /\ say'[u] = say[u]
        /\ pc'[Main] = "stopping"
        /\ UNCHANGED <<status, notified, holder, told>>
        /\ closed' = TRUE
    BY <1>2, ThreadFacts DEF Shutdown, Goto, jobVars, TypeInv, TypeOK
  <2>2. ReportInv'
    BY <2>1, ThreadFacts, MovesForward, ReportFrame
  <2>3. Lifecycle!Shut
    BY <2>1 DEF Lifecycle!Shut
  <2>. QED
    BY <2>2, <2>3 DEF Lifecycle!Next
<1>3. CASE Next /\ ~Shutdown /\ ~\E t \in Threads : NotifySteps(t)
  <2>1. PICK t \in Threads : QuietBy(t)
    BY <1>3, QuietStep
  <2>2. \A j \in Jobs : status'[j] \in Statuses /\ Forward(j)
    BY <2>1, MovesForward DEF QuietBy
  <2>3. ReportInv'
    BY <2>1, <2>2, ReportFrame DEF QuietBy
  <2>. QED
    BY <2>1, <2>3, MovesImplement DEF QuietBy
<1>4. CASE UNCHANGED vars
  BY <1>4 DEF vars, jobVars, poolVars, threadVars, ReportInv, Telling, Heard, Lifecycle!lifecycleVars
<1>. QED
  BY <1>1, <1>2, <1>3, <1>4

LEMMA ReportInvariant == SafeSpec => []ReportInv
<1>1. Init => ReportInv
  BY RankFacts DEF Init, ReportInv, Heard, Settled
<1>2. TypeInv /\ ReportInv /\ [Next]_vars => ReportInv'
  BY ReportStep
<1>. QED
  BY <1>1, <1>2, TypeInvariant, PTL DEF SafeSpec

(* The pool implements the life cycle its listener relies on: no report is *)
(* older than the one before it, a final report is the true outcome and is *)
(* made at most once, and nothing follows it.                              *)
THEOREM Implementation == SafeSpec => LifecycleSpec
<1>1. Init => Lifecycle!Init
  BY DEF Init, Lifecycle!Init
<1>2. TypeInv /\ ReportInv /\ [Next]_vars => [Lifecycle!Next]_(Lifecycle!lifecycleVars)
  BY ReportStep
<1>. QED
  BY <1>1, <1>2, TypeInvariant, ReportInvariant, PTL DEF SafeSpec, LifecycleSpec, Lifecycle!Spec

-------------------------------------------------------------------------------
(* The application runs the pool: each of its steps is a step of the pool, *)
(* or leaves the pool as it is, so what is proved of the pool holds here.  *)

ErrandsOK == errand \in [Callers -> Errands]

LEMMA ErrandFacts ==
  ASSUME ErrandsOK, NEW c \in Callers, errand[c].next # "nothing"
  PROVE  errand[c].job \in Jobs /\ errand[c].next \in {"cancel", "delete", "deleteCancelled"}
BY DEF ErrandsOK, Errands, NoErrand

LEMMA AppStepIsPoolStep ==
  ASSUME ErrandsOK, [AppNext]_allVars
  PROVE  [Next]_vars
<1>. USE DEF Next, NotifySteps, RetireSteps
<1>1. ASSUME NEW c \in Callers, NEW j \in Jobs, SubmitSummary(c, j) \/ CancelSummary(c, j)
      PROVE  Next
  BY <1>1 DEF SubmitSummary, CancelSummary
<1>2. ASSUME NEW t \in Threads, Listen(t)
      PROVE  Next \/ UNCHANGED vars
  BY <1>2 DEF Listen, ListenUpdate, ListenReread, ListenRecord, ListenFinal, ListenReturn, ListenEvict
<1>3. ASSUME NEW j \in Jobs, Export(j) \/ DismissRow(j) \/ OpenRow(j) \/ DeleteLine(j)
      PROVE  UNCHANGED vars
  BY <1>3 DEF DeleteLine, Export, ExportUpdate, ExportReread, ExportRecord, DismissRow, OpenRow
<1>4. ASSUME NEW c \in Callers, Delete(c)
      PROVE  Next \/ UNCHANGED vars
  <2>1. CASE DeleteCancels(c)
    <3>1. errand[c].job \in Jobs
      BY <2>1, ErrandFacts DEF DeleteCancels
    <3>. QED
      BY <2>1, <3>1 DEF DeleteCancels
  <2>. QED
    BY <1>4, <2>1 DEF Delete, DeleteRequest, DeleteRefused, DeleteRow
<1>5. CASE PoolOnly
  BY <1>5 DEF PoolOnly
<1>6. CASE UNCHANGED allVars
  BY <1>6 DEF allVars
<1>7. CASE ClearLines
  BY <1>7 DEF ClearLines
<1>. QED
  BY <1>1, <1>2, <1>3, <1>4, <1>5, <1>6, <1>7 DEF AppNext

LEMMA ErrandStep ==
  ASSUME ErrandsOK, [AppNext]_allVars
  PROVE  ErrandsOK'
<1>1. ASSUME NEW c \in Callers, Delete(c)
      PROVE  ErrandsOK'
  <2>1. ASSUME NEW j \in Jobs, DeleteRequest(c, j)
        PROVE  ErrandsOK'
    BY <2>1 DEF DeleteRequest, ErrandsOK, Errands
  <2>2. CASE DeleteCancels(c)
    <3>1. errand[c].job \in Jobs /\ errand[c] \in [job : Jobs, next : {"cancel", "delete", "deleteCancelled"}]
      BY <2>2, ErrandFacts DEF DeleteCancels, ErrandsOK, Errands, NoErrand
    <3>2. errand' = [errand EXCEPT ![c] = [errand[c] EXCEPT !.next = "deleteCancelled"]]
      BY <2>2 DEF DeleteCancels
    <3>3. [errand[c] EXCEPT !.next = "deleteCancelled"] \in Errands
      BY <3>1 DEF Errands
    <3>. QED
      BY <3>2, <3>3 DEF ErrandsOK
  <2>3. CASE DeleteRefused(c) \/ DeleteRow(c)
    BY <2>3 DEF DeleteRefused, DeleteRow, ErrandsOK, Errands
  <2>. QED
    BY <1>1, <2>1, <2>2, <2>3 DEF Delete
<1>2. ASSUME UNCHANGED errand
      PROVE  ErrandsOK'
  BY <1>2 DEF ErrandsOK
<1>. QED
  BY <1>1, <1>2 DEF AppNext, SubmitSummary, CancelSummary, Listen, ListenUpdate, ListenReread, ListenRecord,
       ListenFinal, ListenReturn, ListenEvict, Export, ExportUpdate, ExportReread, ExportRecord, DismissRow,
       OpenRow, DeleteLine, ClearLines, PoolOnly, allVars, appVars

LEMMA ErrandInvariant == AppSafe => []ErrandsOK
<1>1. AppInit => ErrandsOK
  BY DEF AppInit, ErrandsOK, Errands
<1>2. ErrandsOK /\ [AppNext]_allVars => ErrandsOK'
  BY ErrandStep
<1>. QED
  BY <1>1, <1>2, PTL DEF AppSafe

(* The application is an environment of the pool: its listeners and its    *)
(* requests make the pool do nothing that the pool's own specification     *)
(* does not allow, and every theorem about the pool holds of it.           *)
THEOREM AppRunsThePool == AppSafe => SafeSpec
<1>1. AppInit => Init
  BY DEF AppInit
<1>2. ErrandsOK /\ [AppNext]_allVars => [Next]_vars
  BY AppStepIsPoolStep
<1>. QED
  BY <1>1, <1>2, ErrandInvariant, PTL DEF AppSafe, SafeSpec

-------------------------------------------------------------------------------
(* The reports of the pool.                                                *)

(* Only the thread that settles a job reports the outcome, and it has done *)
(* so when it drops the job's source.                                      *)
Reporting(t) == pc[t] \in {"notify", "callback"} /\ say[t] \in Settled

OutcomeInv ==
  /\ \A t \in Threads : pc[t] \in {"notify", "callback", "release"} =>
       (back[t] = "release" <=> say[t] \in Settled)
  /\ \A t \in Threads : pc[t] = "notify" /\ say[t] \in Settled =>
       say[t] = status[cur[t]] /\ ~notified[cur[t]]
  /\ \A t, u \in Threads : Reporting(t) /\ Reporting(u) /\ cur[t] = cur[u] => t = u
  /\ \A t \in Threads : pc[t] = "release" => say[t] \in Settled /\ told[cur[t]] = say[t]
  /\ \A c \in Callers : pc[c] \in {"notify", "callback", "release"} /\ say[c] \in Settled => say[c] = "cancelled"

LEMMA StatusFacts ==
  /\ Active \cap Settled = {} /\ "none" \notin Active \cup Settled
  /\ Statuses = {"none"} \cup Active \cup Settled
BY DEF Active, Settled, Statuses

(* A step of t after which t has nothing final to say.                     *)
LEMMA OutcomeFrame ==
  ASSUME TypeInv, OutcomeInv, NEW t \in Threads,
         \A u \in Threads \ {t} : pc'[u] = pc[u] /\ cur'[u] = cur[u] /\ say'[u] = say[u] /\ back'[u] = back[u],
         UNCHANGED <<notified, told>>,
         \A j \in Jobs : status[j] \in Settled => status'[j] = status[j],
         pc'[t] # "release",
         pc'[t] \in {"notify", "callback"} => back'[t] # "release" /\ say'[t] \notin Settled
  PROVE  OutcomeInv'
<1>1. \A u \in Threads : Reporting(u)' => u # t /\ Reporting(u)
  BY DEF Reporting
<1>2. \A u \in Threads : pc[u] \in InCall => cur[u] \in Jobs
  BY DEF TypeInv, CallHasJob
<1>3. \A u \in Threads : pc'[u] = "notify" /\ say'[u] \in Settled => say'[u] = status'[cur'[u]] /\ ~notified'[cur'[u]]
  BY <1>2 DEF OutcomeInv, InCall
<1>4. \A u, v \in Threads : Reporting(u)' /\ Reporting(v)' /\ cur'[u] = cur'[v] => u = v
  BY <1>1 DEF OutcomeInv
<1>5. \A u \in Threads : pc'[u] \in {"notify", "callback", "release"} => (back'[u] = "release" <=> say'[u] \in Settled)
  BY DEF OutcomeInv
<1>6. \A u \in Threads : pc'[u] = "release" => say'[u] \in Settled /\ told'[cur'[u]] = say'[u]
  BY DEF OutcomeInv
<1>7. \A c \in Callers : pc'[c] \in {"notify", "callback", "release"} /\ say'[c] \in Settled => say'[c] = "cancelled"
  BY ThreadFacts DEF OutcomeInv
<1>. QED
  BY <1>3, <1>4, <1>5, <1>6, <1>7 DEF OutcomeInv

(* t settles j, and is the only thread that will report it.                *)
LEMMA OutcomeSettled ==
  ASSUME TypeInv, ReportInv, OutcomeInv, NEW t \in Threads, NEW j \in Jobs, NEW s \in Settled,
         t \in Callers => s = "cancelled",
         status[j] \in Active, status' = [status EXCEPT ![j] = s],
         CallNotify(t, j, s, "release"), UNCHANGED <<notified, told>>
  PROVE  OutcomeInv'
<1>1. /\ \A u \in Threads \ {t} : pc'[u] = pc[u] /\ cur'[u] = cur[u] /\ say'[u] = say[u] /\ back'[u] = back[u]
      /\ pc'[t] = "notify" /\ cur'[t] = j /\ say'[t] = s /\ back'[t] = "release"
  BY DEF CallNotify, TypeInv, TypeOK
<1>2. status'[j] = s /\ \A i \in Jobs : i # j => status'[i] = status[i]
  BY DEF TypeInv, TypeOK
<1>3. ~notified[j]
  BY StatusFacts DEF ReportInv, Heard
<1>4. \A u \in Threads : Reporting(u) => cur[u] \in Jobs /\ cur[u] # j
  <2> SUFFICES ASSUME NEW u \in Threads, Reporting(u) PROVE cur[u] \in Jobs /\ say[u] = status[cur[u]]
    BY StatusFacts DEF Reporting
  <2>1. cur[u] \in Jobs
    BY DEF Reporting, TypeInv, CallHasJob, InCall
  <2>. QED
    BY <2>1 DEF Reporting, OutcomeInv, ReportInv, Telling
<1>5. \A u \in Threads : pc'[u] = "notify" /\ say'[u] \in Settled => say'[u] = status'[cur'[u]] /\ ~notified'[cur'[u]]
  <2>1. ASSUME NEW u \in Threads, u # t, pc[u] = "notify", say[u] \in Settled
        PROVE  say[u] = status'[cur[u]] /\ ~notified[cur[u]]
    BY <1>2, <1>4, <2>1 DEF Reporting, OutcomeInv
  <2>. QED
    BY <1>1, <1>2, <1>3, <2>1
<1>6. \A u, v \in Threads : Reporting(u)' /\ Reporting(v)' /\ cur'[u] = cur'[v] => u = v
  <2>1. \A u \in Threads \ {t} : Reporting(u)' => Reporting(u) /\ cur'[u] = cur[u]
    BY <1>1 DEF Reporting
  <2>. QED
    BY <1>1, <1>4, <2>1 DEF OutcomeInv
<1>7. \A u \in Threads : pc'[u] \in {"notify", "callback", "release"} => (back'[u] = "release" <=> say'[u] \in Settled)
  BY <1>1 DEF OutcomeInv
<1>8. \A u \in Threads : pc'[u] = "release" => say'[u] \in Settled /\ told'[cur'[u]] = say'[u]
  BY <1>1 DEF OutcomeInv
<1>9. \A c \in Callers : pc'[c] \in {"notify", "callback", "release"} /\ say'[c] \in Settled => say'[c] = "cancelled"
  BY <1>1, ThreadFacts DEF OutcomeInv
<1>. QED
  BY <1>5, <1>6, <1>7, <1>8, <1>9 DEF OutcomeInv

LEMMA OutcomeEnter ==
  ASSUME TypeInv, ReportInv, OutcomeInv, NEW t \in Threads, EnterNotify(t)
  PROVE  OutcomeInv'
<1>1. /\ \A u \in Threads \ {t} : pc'[u] = pc[u] /\ cur'[u] = cur[u] /\ say'[u] = say[u] /\ back'[u] = back[u]
      /\ UNCHANGED <<status, told>> /\ pc[t] = "notify" /\ cur[t] \in Jobs
  BY DEF EnterNotify, Goto, TypeInv, TypeOK, CallHasJob, InCall
<1>2. CASE Outdated(t)
  <2>1. say[t] \notin Settled
    BY <1>1, <1>2 DEF Outdated, OutcomeInv
  <2>2. back[t] # "release" /\ back[t] \in {"idle", "release", "fetch", "run"}
    BY <1>1, <2>1 DEF OutcomeInv, TypeInv, TypeOK
  <2>3. pc'[t] = back[t] /\ notified' = notified
    BY <1>2 DEF EnterNotify, Goto, TypeInv, TypeOK
  <2>. QED
    BY <1>1, <2>2, <2>3, OutcomeFrame
<1>3. CASE ~Outdated(t)
  <2>1. /\ pc'[t] = "callback" /\ cur'[t] = cur[t] /\ say'[t] = say[t] /\ back'[t] = back[t]
        /\ notified' = [notified EXCEPT ![cur[t]] = notified[cur[t]] \/ say[t] \in Settled]
    BY <1>3 DEF EnterNotify, Goto, TypeInv, TypeOK
  <2>2. \A j \in Jobs : notified'[j] => notified[j] \/ (j = cur[t] /\ say[t] \in Settled)
    BY <2>1 DEF TypeInv, TypeOK
  <2>3. \A u \in Threads : Reporting(u)' => Reporting(u) /\ cur'[u] = cur[u] /\ say'[u] = say[u]
    BY <1>1, <2>1 DEF Reporting
  <2>4. \A u \in Threads : pc'[u] = "notify" /\ say'[u] \in Settled => say'[u] = status'[cur'[u]] /\ ~notified'[cur'[u]]
    <3> SUFFICES ASSUME NEW u \in Threads \ {t}, pc[u] = "notify", say[u] \in Settled
                 PROVE  say[u] = status[cur[u]] /\ ~notified'[cur[u]]
      BY <1>1, <2>1
    <3>1. say[u] = status[cur[u]] /\ ~notified[cur[u]] /\ cur[u] \in Jobs
      BY DEF OutcomeInv, TypeInv, CallHasJob, InCall
    <3>2. cur[u] = cur[t] => say[t] \notin Settled
      BY <1>1 DEF OutcomeInv, Reporting
    <3>. QED
      BY <2>2, <3>1, <3>2
  <2>5. \A u, v \in Threads : Reporting(u)' /\ Reporting(v)' /\ cur'[u] = cur'[v] => u = v
    BY <2>3 DEF OutcomeInv
  <2>6. \A u \in Threads : pc'[u] \in {"notify", "callback", "release"} => (back'[u] = "release" <=> say'[u] \in Settled)
    BY <1>1, <2>1 DEF OutcomeInv
  <2>7. \A u \in Threads : pc'[u] = "release" => say'[u] \in Settled /\ told'[cur'[u]] = say'[u]
    BY <1>1, <2>1 DEF OutcomeInv
  <2>8. \A c \in Callers : pc'[c] \in {"notify", "callback", "release"} /\ say'[c] \in Settled => say'[c] = "cancelled"
    BY <1>1, <2>1, ThreadFacts DEF OutcomeInv
  <2>. QED
    BY <2>4, <2>5, <2>6, <2>7, <2>8 DEF OutcomeInv
<1>. QED
  BY <1>2, <1>3

LEMMA OutcomeLeave ==
  ASSUME TypeInv, ReportInv, OutcomeInv, NEW t \in Threads, LeaveNotify(t)
  PROVE  OutcomeInv'
<1>1. /\ \A u \in Threads \ {t} : pc'[u] = pc[u] /\ cur'[u] = cur[u] /\ say'[u] = say[u] /\ back'[u] = back[u]
      /\ UNCHANGED <<status, notified>> /\ pc[t] = "callback" /\ cur[t] \in Jobs
      /\ told' = [told EXCEPT ![cur[t]] = say[t]]
      /\ pc'[t] = back[t] /\ back[t] \in {"idle", "release", "fetch", "run"}
      /\ back[t] = "release" => cur'[t] = cur[t] /\ say'[t] = say[t] /\ back'[t] = "release"
  BY DEF LeaveNotify, Goto, TypeInv, TypeOK, CallHasJob, InCall
<1>2. told[cur[t]] \notin Settled
  BY <1>1 DEF ReportInv, Telling
<1>3. told'[cur[t]] = say[t] /\ \A j \in Jobs : j # cur[t] => told'[j] = told[j]
  BY <1>1 DEF TypeInv, TypeOK
<1>4. \A u \in Threads : Reporting(u)' => u # t /\ Reporting(u) /\ cur'[u] = cur[u]
  BY <1>1 DEF Reporting
<1>5. \A u \in Threads : pc'[u] = "notify" /\ say'[u] \in Settled => say'[u] = status'[cur'[u]] /\ ~notified'[cur'[u]]
  BY <1>1 DEF OutcomeInv
<1>6. \A u, v \in Threads : Reporting(u)' /\ Reporting(v)' /\ cur'[u] = cur'[v] => u = v
  BY <1>4 DEF OutcomeInv
<1>7. \A u \in Threads : pc'[u] \in {"notify", "callback", "release"} => (back'[u] = "release" <=> say'[u] \in Settled)
  BY <1>1 DEF OutcomeInv
<1>8. \A u \in Threads : pc'[u] = "release" => say'[u] \in Settled /\ told'[cur'[u]] = say'[u]
  <2>1. ASSUME NEW u \in Threads \ {t}, pc[u] = "release" PROVE say[u] \in Settled /\ told'[cur[u]] = say[u]
    <3>1. say[u] \in Settled /\ told[cur[u]] = say[u] /\ cur[u] \in Jobs
      BY <2>1 DEF OutcomeInv, TypeInv, CallHasJob, InCall
    <3>. QED
      BY <1>2, <1>3, <3>1
  <2>2. back[t] = "release" => say[t] \in Settled
    BY <1>1 DEF OutcomeInv
  <2>. QED
    BY <1>1, <1>3, <2>1, <2>2
<1>9. \A c \in Callers : pc'[c] \in {"notify", "callback", "release"} /\ say'[c] \in Settled => say'[c] = "cancelled"
  BY <1>1, ThreadFacts DEF OutcomeInv
<1>. QED
  BY <1>5, <1>6, <1>7, <1>8, <1>9 DEF OutcomeInv

LEMMA OutcomeCancel ==
  ASSUME TypeInv, ReportInv, OutcomeInv, NEW t \in Threads, NEW j \in Jobs, CancelSection(t, j)
  PROVE  OutcomeInv'
<1>1. /\ status[j] \in Active /\ status' = [status EXCEPT ![j] = "cancelled"]
      /\ CallNotify(t, j, "cancelled", "release") /\ UNCHANGED <<notified, told>>
  BY DEF CancelSection
<1>2. "cancelled" \in Settled
  BY DEF Settled
<1>. QED
  BY <1>1, <1>2, OutcomeSettled

LEMMA OutcomeStep ==
  ASSUME TypeInv, QueueMatchesStatus, ReleaseInv, ReportInv, OutcomeInv, [Next]_vars
  PROVE  OutcomeInv'
<1>. USE ThreadFacts
<1>1. ASSUME NEW c \in Callers, NEW j \in Jobs, Submit(c, j)
      PROVE  OutcomeInv'
  <2>1. /\ \A u \in Threads \ {c} : pc'[u] = pc[u] /\ cur'[u] = cur[u] /\ say'[u] = say[u] /\ back'[u] = back[u]
        /\ pc'[c] = "notify" /\ say'[c] = "queued" /\ back'[c] = "idle"
        /\ UNCHANGED <<notified, told>>
    BY <1>1 DEF Submit, CallNotify, TypeInv, TypeOK
  <2>2. "queued" \notin Settled
    BY DEF Settled
  <2>3. \A k \in Jobs : status[k] \in Settled => status'[k] = status[k]
    BY <1>1 DEF Submit, Settled, TypeInv, TypeOK
  <2>. QED
    BY <2>1, <2>2, <2>3, OutcomeFrame
<1>2. ASSUME NEW c \in Callers, NEW j \in Jobs, Cancel(c, j)
      PROVE  OutcomeInv'
  BY <1>2, OutcomeCancel DEF Cancel
<1>3. ASSUME NEW t \in Threads, NotifySteps(t)
      PROVE  OutcomeInv'
  BY <1>3, OutcomeEnter, OutcomeLeave DEF NotifySteps
<1>4. ASSUME NEW t \in Threads, RetireSteps(t)
      PROVE  OutcomeInv'
  <2>1. UNCHANGED <<status, notified, told>>
    BY <1>4 DEF RetireSteps, ReleaseSource, PruneTerminal, EvictOne, EvictDone, jobVars
  <2>2. /\ \A u \in Threads \ {t} : pc'[u] = pc[u] /\ cur'[u] = cur[u] /\ say'[u] = say[u] /\ back'[u] = back[u]
        /\ pc'[t] \in {"prune", "evict", "idle", "stopping"}
    BY <1>4 DEF RetireSteps, ReleaseSource, PruneTerminal, EvictOne, EvictDone, Goto, Home, TypeInv, TypeOK
  <2>. QED
    BY <2>1, <2>2, OutcomeFrame
<1>5. ASSUME NEW w \in Workers, WorkerSteps(w)
      PROVE  OutcomeInv'
  <2>0. w \in Threads /\ UNCHANGED <<notified, told>>
    BY <1>5 DEF WorkerSteps, Exit, Take, Fetch, UpdateProgress, RunEnds, MarkReady, MarkFailed, jobVars
  <2>1. \A u \in Threads \ {w} : pc'[u] = pc[u] /\ cur'[u] = cur[u] /\ say'[u] = say[u] /\ back'[u] = back[u]
    BY <1>5 DEF WorkerSteps, Exit, Take, Fetch, UpdateProgress, RunEnds, MarkReady, MarkFailed, Settle,
                Goto, CallNotify, threadVars, TypeInv, TypeOK
  <2>2. "running" \notin Settled
    BY DEF Settled
  <2>3. CASE Take(w)
    <3> DEFINE j == Head(queue)
    <3>1. j \in Jobs /\ \E i \in DOMAIN queue : queue[i] = j
      <4>1. queue \in Seq(Jobs) /\ queue # <<>>
        BY <2>3 DEF Take, TypeInv, TypeOK
      <4>. QED
        BY <4>1, LenProperties, HeadTailProperties, EmptySeq
    <3>2. status[j] = "queued" /\ ~cancelEvent[j] /\ pc[w] = "idle"
      BY <2>3, <3>1 DEF Take, QueueMatchesStatus, ReleaseInv
    <3>3. \/ UNCHANGED <<status, threadVars>>
          \/ status' = [status EXCEPT ![j] = "running"] /\ CallNotify(w, j, "running", "fetch")
      BY <2>3, <3>2 DEF Take
    <3>. HIDE DEF j
    <3>4. \A k \in Jobs : status[k] \in Settled => status'[k] = status[k]
      BY <3>1, <3>2, <3>3 DEF Settled, TypeInv, TypeOK
    <3>5. pc'[w] = "idle" \/ (pc'[w] = "notify" /\ say'[w] = "running" /\ back'[w] = "fetch")
      BY <2>0, <3>2, <3>3 DEF CallNotify, threadVars, TypeInv, TypeOK
    <3>. QED
      BY <2>0, <2>1, <2>2, <3>4, <3>5, OutcomeFrame
  <2>4. CASE MarkReady(w) \/ MarkFailed(w)
    <3>1. PICK s \in Settled : Settle(w, s)
      BY <2>4 DEF MarkReady, MarkFailed, Settled
    <3>2. cur[w] \in Jobs
      BY <2>0, <2>4 DEF MarkReady, MarkFailed, CallHasJob, InCall, TypeInv
    <3>3. CASE Goto(w, "idle") /\ UNCHANGED status
      <4>1. pc'[w] = "idle"
        BY <2>0, <3>3 DEF Goto, TypeInv, TypeOK
      <4>. QED
        BY <2>0, <2>1, <3>3, <4>1, OutcomeFrame
    <3>4. CASE /\ status[cur[w]] = "running" /\ status' = [status EXCEPT ![cur[w]] = s]
               /\ CallNotify(w, cur[w], s, "release")
      <4>1. status[cur[w]] \in Active /\ w \notin Callers
        BY <3>4 DEF Active
      <4>. QED
        BY <2>0, <3>2, <3>4, <4>1, OutcomeSettled
    <3>. QED
      BY <3>1, <3>3, <3>4 DEF Settle
  <2>5. CASE Exit(w) \/ Fetch(w) \/ UpdateProgress(w) \/ RunEnds(w)
    <3>1. status' = status
      BY <2>5 DEF Exit, Fetch, UpdateProgress, RunEnds, jobVars
    <3>2. \/ pc'[w] \in {"exited", "run", "returned", "raised"}
          \/ pc'[w] = "notify" /\ say'[w] = "running" /\ back'[w] = "run"
      BY <2>0, <2>5 DEF Exit, Fetch, UpdateProgress, RunEnds, Goto, CallNotify, TypeInv, TypeOK
    <3>. QED
      BY <2>0, <2>1, <2>2, <3>1, <3>2, OutcomeFrame
  <2>. QED
    BY <1>5, <2>3, <2>4, <2>5 DEF WorkerSteps
<1>6. CASE Shutdown \/ StopClear \/ StopReturn
  <2>1. UNCHANGED <<status, notified, told>>
    BY <1>6 DEF Shutdown, StopClear, StopReturn, jobVars
  <2>2. /\ \A u \in Threads \ {Main} : pc'[u] = pc[u] /\ cur'[u] = cur[u] /\ say'[u] = say[u] /\ back'[u] = back[u]
        /\ pc'[Main] \in {"stopping", "joining", "exited"}
    BY <1>6 DEF Shutdown, StopClear, StopReturn, Goto, TypeInv, TypeOK
  <2>. QED
    BY <2>1, <2>2, OutcomeFrame
<1>7. ASSUME NEW j \in Jobs, StopOne(j)
      PROVE  OutcomeInv'
  <2>1. CASE CancelSection(Main, j)
    BY <2>1, OutcomeCancel
  <2>2. CASE UNCHANGED <<jobVars, threadVars>>
    BY <2>2 DEF jobVars, threadVars, OutcomeInv, Reporting
  <2>. QED
    BY <1>7, <2>1, <2>2 DEF StopOne
<1>8. CASE UNCHANGED vars
  BY <1>8 DEF vars, jobVars, threadVars, OutcomeInv, Reporting
<1>9. CASE Next
  <2>1. CASE \E c \in Callers, j \in Jobs : Submit(c, j) \/ Cancel(c, j)
    BY <1>1, <1>2, <2>1
  <2>2. CASE \E t \in Threads : NotifySteps(t) \/ RetireSteps(t)
    BY <1>3, <1>4, <2>2
  <2>3. CASE \E w \in Workers : WorkerSteps(w)
    BY <1>5, <2>3
  <2>4. CASE Stop
    BY <1>6, <1>7, <2>4 DEF Stop
  <2>. QED
    BY <1>9, <2>1, <2>2, <2>3, <2>4 DEF Next
<1>. QED
  BY <1>8, <1>9

(* What the pool guarantees its environment.                               *)
PoolInv == TypeInv /\ QueueMatchesStatus /\ ReleaseInv /\ ReportInv /\ OutcomeInv

LEMMA PoolFacts == SafeSpec => []PoolInv
<1>1. Init => OutcomeInv
  BY ThreadFacts DEF Init, OutcomeInv, Reporting
<1>2. TypeInv /\ QueueMatchesStatus /\ ReleaseInv /\ ReportInv /\ OutcomeInv /\ [Next]_vars => OutcomeInv'
  BY OutcomeStep
<1>. QED
  BY <1>1, <1>2, TypeInvariant, PoolInvariant, ReleaseInvariant, ReportInvariant, PTL DEF SafeSpec, PoolInv

-------------------------------------------------------------------------------
(* The tables.  Each part says what one writer of them relies on.          *)

(* A job has its row from its submission until it is deleted; nothing is   *)
(* deleted, nor cleared, of a job that was not submitted.                  *)
RowInv ==
  \A j \in Jobs :
    /\ status[j] = "none" => hist[j] = "absent" /\ feed[j] = "absent" /\ deleted[j] = "no"
    /\ status[j] # "none" /\ Undeleted(j) => hist[j] # "absent"
    /\ ~Undeleted(j) => hist[j] = "absent"

(* A listener is at its beginning outside the callback; inside it has      *)
(* stored what it reports.                                                 *)
ListenInv ==
  \A t \in Threads :
    /\ pc[t] # "callback" => stage[t] = "begin"
    /\ pc[t] = "callback" /\ say[t] \in Settled /\ Undeleted(cur[t]) =>
         /\ stage[t] # "begin" => hist[cur[t]] = say[t]
         /\ stage[t] = "show" => Lists(cur[t], say[t])

(* What was told is stored and shown; a copy is exported only of a summary *)
(* whose listener was told that it is ready.                               *)
ToldInv ==
  /\ OutcomeIsStored
  /\ \A j \in Jobs : /\ told[j] = "cancelled" => row[j] = "none"
                     /\ export[j] # "no" => told[j] = "ready"

(* A final state is stored only by the listener that reports it.           *)
StoredInv ==
  \A j \in Jobs : hist[j] \in Settled =>
    \/ told[j] = hist[j]
    \/ \E t \in Threads : pc[t] = "callback" /\ cur[t] = j /\ say[t] = hist[j] /\ stage[t] # "begin"

(* A delete that cancels goes on when the cancellation has been reported.  *)
CancelReported(c) ==
  errand[c].next = "deleteCancelled" =>
    \/ told[errand[c].job] = "cancelled"
    \/ Reporting(c) /\ cur[c] = errand[c].job

DeleteInv ==
  /\ \A c \in Callers : CancelReported(c)
  /\ \A j \in Jobs : deleted[j] = "cancelled" => told[j] = "cancelled" /\ feed[j] = "absent"

AppInv == AppTypeOK /\ RowInv /\ ListenInv /\ ToldInv /\ StoredInv /\ DeleteInv

(* The listener of a job runs alone, and before the outcome is told.       *)
LEMMA InListener ==
  ASSUME PoolInv, NEW t \in Threads, pc[t] = "callback"
  PROVE  /\ cur[t] \in Jobs /\ told[cur[t]] \notin Settled /\ status[cur[t]] # "none"
         /\ say[t] \in Active \cup Settled
         /\ \A u \in Threads \ {t} : pc[u] = "callback" => cur[u] # cur[t]
<1>1. cur[t] \in Jobs /\ say[t] \in Statuses /\ Telling(t)
  BY DEF PoolInv, TypeInv, TypeOK, CallHasJob, InCall, ReportInv
<1>2. say[t] \in Active \cup Settled
  BY <1>1, StatusFacts DEF Telling
<1>3. status[cur[t]] # "none"
  <2>1. Rank[say[t]] \in {1, 2, 3}
    BY <1>2, RankFacts DEF Active
  <2>. QED
    BY <1>1, <2>1, RankFacts DEF Telling
<1>4. \A u \in Threads : pc[u] = "callback" => holder[cur[u]] = u
  BY DEF PoolInv, ReportInv, Telling
<1>. QED
  BY <1>1, <1>2, <1>3, <1>4 DEF Telling

(* A step of the pool that tells nobody anything.                          *)
Quiet ==
  /\ told' = told
  /\ \A t \in Threads :
       /\ pc[t] = "callback" => pc'[t] = "callback" /\ cur'[t] = cur[t] /\ say'[t] = say[t]
       /\ Reporting(t) => Reporting(t)' /\ cur'[t] = cur[t]

Kept == \A j \in Jobs : status'[j] = "none" <=> status[j] = "none"

LEMMA QuietFrame ==
  ASSUME NEW t \in Threads, told' = told, pc[t] \notin {"notify", "callback"},
         \A u \in Threads \ {t} : pc'[u] = pc[u] /\ cur'[u] = cur[u] /\ say'[u] = say[u]
  PROVE  Quiet
BY DEF Quiet, Reporting

LEMMA QuietSubmit ==
  ASSUME PoolInv, NEW c \in Callers, NEW j \in Jobs, Submit(c, j)
  PROVE  Quiet
<1>1. /\ c \in Threads /\ told' = told /\ pc[c] \notin {"notify", "callback"}
      /\ \A u \in Threads \ {c} : pc'[u] = pc[u] /\ cur'[u] = cur[u] /\ say'[u] = say[u]
  BY ThreadFacts DEF Submit, CallNotify, PoolInv, TypeInv, TypeOK
<1>. QED
  BY <1>1, QuietFrame

LEMMA QuietCancel ==
  ASSUME PoolInv, NEW t \in Threads, NEW j \in Jobs, pc[t] \in {"idle", "stopping"}, CancelSection(t, j)
  PROVE  /\ Quiet /\ Kept
         /\ Reporting(t)' /\ cur'[t] = j
<1>1. /\ told' = told
      /\ \A u \in Threads \ {t} : pc'[u] = pc[u] /\ cur'[u] = cur[u] /\ say'[u] = say[u]
      /\ pc'[t] = "notify" /\ cur'[t] = j /\ say'[t] = "cancelled"
  BY DEF CancelSection, CallNotify, PoolInv, TypeInv, TypeOK
<1>2. Kept
  BY DEF CancelSection, Kept, Active, PoolInv, TypeInv, TypeOK
<1>. QED
  BY <1>1, <1>2, QuietFrame DEF Reporting, Settled

LEMMA QuietEnter ==
  ASSUME PoolInv, NEW t \in Threads, EnterNotify(t)
  PROVE  Quiet /\ Kept
<1>1. /\ UNCHANGED <<told, status>> /\ pc[t] = "notify"
      /\ \A u \in Threads \ {t} : pc'[u] = pc[u] /\ cur'[u] = cur[u] /\ say'[u] = say[u]
  BY DEF EnterNotify, Goto, PoolInv, TypeInv, TypeOK
<1>2. ASSUME Reporting(t)
      PROVE  Reporting(t)' /\ cur'[t] = cur[t]
  <2>1. ~Outdated(t)
    BY <1>1, <1>2 DEF Outdated, Reporting, PoolInv, OutcomeInv
  <2>2. pc'[t] = "callback" /\ UNCHANGED <<cur, say>>
    BY <2>1 DEF EnterNotify, Goto, PoolInv, TypeInv, TypeOK
  <2>. QED
    BY <1>2, <2>2 DEF Reporting
<1>. QED
  BY <1>1, <1>2 DEF Quiet, Kept, Reporting

LEMMA QuietRetire ==
  ASSUME PoolInv, NEW t \in Threads, RetireSteps(t)
  PROVE  Quiet /\ Kept
<1>1. /\ UNCHANGED <<told, status>> /\ pc[t] \in {"release", "prune", "evict"}
      /\ \A u \in Threads \ {t} : pc'[u] = pc[u] /\ cur'[u] = cur[u] /\ say'[u] = say[u]
  BY DEF RetireSteps, ReleaseSource, PruneTerminal, EvictOne, EvictDone, Goto, Home, jobVars, PoolInv, TypeInv, TypeOK
<1>. QED
  BY <1>1, QuietFrame DEF Kept

LEMMA QuietWork ==
  ASSUME PoolInv, NEW w \in Workers, WorkerSteps(w)
  PROVE  Quiet /\ Kept
<1>1. /\ w \in Threads /\ told' = told /\ pc[w] \in {"idle", "fetch", "run", "returned", "raised"}
      /\ \A u \in Threads \ {w} : pc'[u] = pc[u] /\ cur'[u] = cur[u] /\ say'[u] = say[u]
  BY ThreadFacts DEF WorkerSteps, Exit, Take, Fetch, UpdateProgress, RunEnds, MarkReady, MarkFailed, Settle,
     Goto, CallNotify, jobVars, threadVars, PoolInv, TypeInv, TypeOK
<1>2. CASE Take(w)
  <2> DEFINE j == Head(queue)
  <2>1. \/ UNCHANGED status
        \/ status[j] = "queued" /\ \E s \in {"running", "cancelled"} : status' = [status EXCEPT ![j] = s]
    BY <1>2 DEF Take
  <2>. HIDE DEF j
  <2>2. \A k \in Jobs : status'[k] = status[k] \/ (k = j /\ status[k] = "queued" /\ status'[k] # "none")
    BY <2>1 DEF PoolInv, TypeInv, TypeOK
  <2>. QED
    BY <1>1, <2>2, QuietFrame DEF Kept
<1>3. CASE MarkReady(w) \/ MarkFailed(w)
  <2>1. \/ UNCHANGED status
        \/ status[cur[w]] = "running" /\ \E s \in Settled : status' = [status EXCEPT ![cur[w]] = s]
    BY <1>3 DEF MarkReady, MarkFailed, Settle, Settled
  <2>2. \A k \in Jobs : status'[k] = status[k] \/ (status[k] = "running" /\ status'[k] # "none")
    BY <2>1 DEF Settled, PoolInv, TypeInv, TypeOK
  <2>. QED
    BY <1>1, <2>2, QuietFrame DEF Kept
<1>4. CASE Exit(w) \/ Fetch(w) \/ UpdateProgress(w) \/ RunEnds(w)
  <2>1. status' = status
    BY <1>4 DEF Exit, Fetch, UpdateProgress, RunEnds, jobVars
  <2>. QED
    BY <1>1, <2>1, QuietFrame DEF Kept
<1>. QED
  BY <1>1, <1>2, <1>3, <1>4, QuietFrame DEF WorkerSteps

LEMMA QuietStop ==
  ASSUME PoolInv, Stop
  PROVE  Quiet /\ Kept
<1>. USE ThreadFacts
<1>1. CASE Shutdown \/ StopClear \/ StopReturn
  <2>1. /\ UNCHANGED <<told, status>> /\ pc[Main] \in {"idle", "stopping", "joining"}
        /\ \A u \in Threads \ {Main} : pc'[u] = pc[u] /\ cur'[u] = cur[u] /\ say'[u] = say[u]
    BY <1>1 DEF Shutdown, StopClear, StopReturn, Goto, jobVars, PoolInv, TypeInv, TypeOK
  <2>. QED
    BY <2>1, QuietFrame DEF Kept
<1>2. ASSUME NEW j \in Jobs, StopOne(j)
      PROVE  Quiet /\ Kept
  <2>1. CASE CancelSection(Main, j)
    BY <1>2, <2>1, QuietCancel DEF StopOne
  <2>2. CASE UNCHANGED <<jobVars, threadVars>>
    BY <2>2 DEF jobVars, threadVars, Quiet, Kept, Reporting
  <2>. QED
    BY <1>2, <2>1, <2>2 DEF StopOne
<1>. QED
  BY <1>1, <1>2 DEF Stop

-------------------------------------------------------------------------------
(* A step that writes no table: the pool moves on quietly, a row of the    *)
(* bar may go, and a request may take up an errand or drop it.             *)
LEMMA AppFrame ==
  ASSUME AppInv, Quiet, Kept, UNCHANGED <<hist, feed, stage, export, deleted>>,
         row' \in [Jobs -> {"none", "processing", "ready", "failed"}],
         \A j \in Jobs : row'[j] \in {row[j], "none"},
         errand' \in [Callers -> Errands], \A c \in Callers : CancelReported(c)'
  PROVE  AppInv'
<1>1. AppTypeOK'
  BY DEF AppInv, AppTypeOK
<1>2. RowInv'
  BY DEF AppInv, RowInv, Undeleted, Kept
<1>3. ListenInv'
  BY DEF AppInv, ListenInv, Undeleted, Lists, Quiet
<1>4. ToldInv'
  BY DEF AppInv, ToldInv, OutcomeIsStored, Undeleted, Lists, Quiet
<1>5. StoredInv'
  BY DEF AppInv, StoredInv, Quiet
<1>6. DeleteInv'
  BY DEF AppInv, DeleteInv, Quiet
<1>. QED
  BY <1>1, <1>2, <1>3, <1>4, <1>5, <1>6 DEF AppInv

LEMMA ErrandKept ==
  ASSUME AppInv, Quiet, NEW c \in Callers, errand'[c] = errand[c]
  PROVE  CancelReported(c)'
<1>1. c \in Threads
  BY ThreadFacts
<1>. QED
  BY <1>1 DEF AppInv, DeleteInv, CancelReported, Quiet

LEMMA AppPoolOnly ==
  ASSUME AppInv, Quiet, Kept, UNCHANGED appVars
  PROVE  AppInv'
<1>1. \A c \in Callers : CancelReported(c)'
  BY ErrandKept DEF appVars
<1>. QED
  BY <1>1, AppFrame DEF appVars, AppInv, AppTypeOK

-------------------------------------------------------------------------------
(* The requests.                                                           *)
LEMMA AppSubmit ==
  ASSUME PoolInv, AppInv, NEW c \in Callers, NEW j \in Jobs, SubmitSummary(c, j)
  PROVE  AppInv'
<1>1. /\ status[j] = "none" /\ status' = [status EXCEPT ![j] = "queued"]
      /\ hist' = [hist EXCEPT ![j] = "in_progress"] /\ feed' = [feed EXCEPT ![j] = "processing"]
      /\ UNCHANGED <<row, stage, export, errand, deleted>>
  BY DEF SubmitSummary, Submit
<1>2. Quiet
  BY QuietSubmit DEF SubmitSummary
<1>3. told[j] = "none" /\ deleted[j] = "no"
  <2>1. Heard(j) /\ told[j] \in Statuses
    BY DEF PoolInv, ReportInv, TypeInv, TypeOK
  <2>. QED
    BY <1>1, <2>1, RankFacts DEF Heard, Statuses, Active, AppInv, RowInv
<1>4. \A u \in Threads : pc[u] = "callback" => cur[u] \in Jobs /\ cur[u] # j
  BY <1>1, InListener
<1>5. status'[j] = "queued" /\ \A i \in Jobs : i # j => status'[i] = status[i]
  BY <1>1 DEF PoolInv, TypeInv, TypeOK
<1>6. /\ hist'[j] = "in_progress" /\ feed'[j] = "processing"
      /\ \A i \in Jobs : i # j => hist'[i] = hist[i] /\ feed'[i] = feed[i]
  BY <1>1 DEF AppInv, AppTypeOK
<1>7. "none" \notin Settled /\ "in_progress" \notin Settled
  BY DEF Settled
<1>8. AppTypeOK'
  BY <1>1 DEF AppInv, AppTypeOK
<1>9. RowInv'
  BY <1>1, <1>3, <1>5, <1>6 DEF AppInv, RowInv, Undeleted
<1>10. ListenInv'
  BY <1>1, <1>2, <1>4, <1>6 DEF AppInv, ListenInv, Undeleted, Lists, Quiet
<1>11. ToldInv'
  BY <1>1, <1>2, <1>3, <1>6, <1>7 DEF AppInv, ToldInv, OutcomeIsStored, Undeleted, Lists, Quiet
<1>12. StoredInv'
  BY <1>1, <1>2, <1>6, <1>7 DEF AppInv, StoredInv, Quiet
<1>13. DeleteInv'
  <2>1. \A d \in Callers : CancelReported(d)'
    BY <1>1, <1>2, ErrandKept
  <2>. QED
    BY <1>1, <1>2, <1>3, <1>6, <2>1 DEF AppInv, DeleteInv, Quiet
<1>. QED
  BY <1>8, <1>9, <1>10, <1>11, <1>12, <1>13 DEF AppInv

LEMMA AppDelete ==
  ASSUME PoolInv, AppInv, NEW c \in Callers, Delete(c), ErrandsOK'
  PROVE  AppInv'
<1>. c \in Threads
  BY ThreadFacts
<1>1. ASSUME NEW j \in Jobs, DeleteRequest(c, j)
      PROVE  AppInv'
  <2>1. Quiet /\ Kept
    BY <1>1 DEF DeleteRequest, vars, jobVars, threadVars, Quiet, Kept, Reporting
  <2>2. \A d \in Callers : errand'[d] = errand[d] \/ errand'[d].next # "deleteCancelled"
    BY <1>1 DEF DeleteRequest, AppInv, AppTypeOK
  <2>3. \A d \in Callers : CancelReported(d)'
    BY <2>1, <2>2, ErrandKept DEF CancelReported
  <2>. QED
    BY <1>1, <2>1, <2>3, AppFrame DEF DeleteRequest, AppInv, AppTypeOK, ErrandsOK
<1>2. CASE DeleteCancels(c)
  <2> DEFINE j == errand[c].job
  <2>1. j \in Jobs
    BY <1>2, ErrandFacts DEF DeleteCancels, AppInv, AppTypeOK, ErrandsOK
  <2>2. /\ pc[c] = "idle" /\ CancelSection(c, j)
        /\ errand' = [errand EXCEPT ![c].next = "deleteCancelled"]
        /\ UNCHANGED <<row, hist, feed, stage, export, deleted>>
    BY <1>2 DEF DeleteCancels, Cancel
  <2>3. errand'[c].job = j /\ \A d \in Callers : d # c => errand'[d] = errand[d]
    <3>1. errand[c] \in [job : Jobs, next : {"cancel", "delete", "deleteCancelled"}]
      BY <1>2 DEF DeleteCancels, AppInv, AppTypeOK, Errands, NoErrand
    <3>. QED
      BY <2>2, <3>1 DEF AppInv, AppTypeOK
  <2>. HIDE DEF j
  <2>4. Quiet /\ Kept /\ Reporting(c)' /\ cur'[c] = j
    BY <2>1, <2>2, QuietCancel
  <2>5. \A d \in Callers : CancelReported(d)'
    BY <2>3, <2>4, ErrandKept DEF CancelReported
  <2>. QED
    BY <2>2, <2>4, <2>5, AppFrame DEF AppInv, AppTypeOK, ErrandsOK
<1>3. CASE DeleteRefused(c)
  <2>1. Quiet /\ Kept
    BY <1>3 DEF DeleteRefused, vars, jobVars, threadVars, Quiet, Kept, Reporting
  <2>2. \A d \in Callers : errand'[d] = errand[d] \/ errand'[d].next # "deleteCancelled"
    BY <1>3 DEF DeleteRefused, AppInv, AppTypeOK, NoErrand
  <2>3. \A d \in Callers : CancelReported(d)'
    BY <2>1, <2>2, ErrandKept DEF CancelReported
  <2>. QED
    BY <1>3, <2>1, <2>3, AppFrame DEF DeleteRefused, AppInv, AppTypeOK, ErrandsOK
<1>4. CASE DeleteRow(c)
  <2> DEFINE j == errand[c].job
  <2>1. j \in Jobs
    BY <1>4, ErrandFacts DEF DeleteRow, AppInv, AppTypeOK, ErrandsOK
  <2>2. Quiet /\ Kept /\ UNCHANGED <<told, status, pc, cur, say>>
    BY <1>4 DEF DeleteRow, vars, jobVars, threadVars, Quiet, Kept, Reporting
  <2>3. \A d \in Callers : CancelReported(d)'
    <3>1. \A d \in Callers : errand'[d] = errand[d] \/ errand'[d].next # "deleteCancelled"
      BY <1>4 DEF DeleteRow, AppInv, AppTypeOK, NoErrand
    <3>. QED
      BY <2>2, <3>1, ErrandKept DEF CancelReported
  <2>4. CASE hist[j] = "absent"
    BY <1>4, <2>2, <2>3, <2>4, AppFrame DEF DeleteRow, AppInv, AppTypeOK, ErrandsOK
  <2>5. CASE hist[j] # "absent"
    <3>1. PICK how \in {"plain", "cancelled"} :
            /\ how = "cancelled" => errand[c].next = "deleteCancelled"
            /\ deleted' = [deleted EXCEPT ![j] = how]
      BY <1>4, <2>5 DEF DeleteRow
    <3>2. /\ hist' = [hist EXCEPT ![j] = "absent"] /\ feed' = [feed EXCEPT ![j] = "absent"]
          /\ UNCHANGED <<row, stage, export>> /\ pc[c] = "idle"
      BY <1>4, <2>5 DEF DeleteRow
    <3>3. how = "cancelled" => told[j] = "cancelled"
      BY <3>1, <3>2 DEF AppInv, DeleteInv, CancelReported, Reporting
    <3>. HIDE DEF j
    <3>4. /\ hist'[j] = "absent" /\ feed'[j] = "absent" /\ deleted'[j] = how
          /\ \A i \in Jobs : i # j => hist'[i] = hist[i] /\ feed'[i] = feed[i] /\ deleted'[i] = deleted[i]
      BY <2>1, <3>1, <3>2 DEF AppInv, AppTypeOK
    <3>5. AppTypeOK'
      BY <3>1, <3>2 DEF AppInv, AppTypeOK, ErrandsOK
    <3>6. status[j] # "none"
      BY <2>1, <2>5 DEF AppInv, RowInv, j
    <3>7. RowInv'
      BY <2>2, <3>1, <3>4, <3>6 DEF AppInv, RowInv, Undeleted
    <3>8. ListenInv'
      <4>1. \A t \in Threads : pc[t] = "callback" => cur[t] \in Jobs
        BY InListener
      <4>. QED
        BY <2>2, <3>1, <3>2, <3>4, <4>1 DEF AppInv, ListenInv, Undeleted, Lists
    <3>9. ToldInv'
      BY <2>2, <3>1, <3>2, <3>4 DEF AppInv, ToldInv, OutcomeIsStored, Undeleted, Lists
    <3>10. StoredInv'
      BY <2>2, <3>2, <3>4 DEF AppInv, StoredInv, Settled
    <3>11. DeleteInv'
      BY <2>2, <2>3, <3>3, <3>4 DEF AppInv, DeleteInv
    <3>. QED
      BY <3>5, <3>7, <3>8, <3>9, <3>10, <3>11 DEF AppInv
  <2>. QED
    BY <2>4, <2>5
<1>. QED
  BY <1>1, <1>2, <1>3, <1>4 DEF Delete

-------------------------------------------------------------------------------
(* The listener.                                                           *)
LEMMA AppListenUpdate ==
  ASSUME PoolInv, AppInv, NEW t \in Threads, ListenUpdate(t)
  PROVE  AppInv'
<1> DEFINE j == cur[t]
<1>1. /\ j \in Jobs /\ told[j] \notin Settled /\ status[j] # "none" /\ say[t] \in Active \cup Settled
      /\ \A u \in Threads \ {t} : pc[u] = "callback" => cur[u] # j
  BY InListener DEF ListenUpdate
<1>2. /\ UNCHANGED <<told, status, pc, cur, say, notified, feed, export, errand, deleted>>
      /\ pc[t] = "callback" /\ stage[t] = "begin"
      /\ row' = [row EXCEPT ![j] = IF say[t] \in Active THEN "processing" ELSE row[j]]
  BY DEF ListenUpdate, vars, jobVars, threadVars
<1>3. \/ hist[j] = "absent" /\ stage' = [stage EXCEPT ![t] = "after"] /\ UNCHANGED hist
      \/ /\ hist[j] # "absent" /\ stage' = [stage EXCEPT ![t] = "reread"]
         /\ hist' = [hist EXCEPT ![j] = HistStatus(say[t])]
  BY DEF ListenUpdate
<1>4. HistStatus(say[t]) \in {"in_progress"} \cup Settled /\ (say[t] \in Settled => HistStatus(say[t]) = say[t])
  BY <1>1, StatusFacts DEF HistStatus
<1>5. "in_progress" \notin Settled /\ "absent" \notin Settled /\ "cancelled" \in Settled
  BY DEF Settled
<1>. HIDE DEF j
<1>6. \A i \in Jobs : i # j => row'[i] = row[i] /\ hist'[i] = hist[i]
  BY <1>2, <1>3 DEF AppInv, AppTypeOK
<1>7. /\ \A u \in Threads : u # t => stage'[u] = stage[u]
      /\ stage'[t] \in {"reread", "after"}
      /\ hist[j] = "absent" => hist'[j] = "absent"
      /\ hist[j] # "absent" => hist'[j] = HistStatus(say[t])
  BY <1>1, <1>2, <1>3 DEF AppInv, AppTypeOK
<1>8. AppTypeOK'
  BY <1>1, <1>2, <1>3, <1>4 DEF AppInv, AppTypeOK
<1>9. RowInv'
  BY <1>1, <1>2, <1>4, <1>5, <1>6, <1>7 DEF AppInv, RowInv, Undeleted
<1>10. ListenInv'
  <2>1. ASSUME NEW u \in Threads, u # t, pc[u] = "callback"
        PROVE  cur[u] \in Jobs /\ cur[u] # j
    BY <1>1, <2>1, InListener
  <2>2. say[t] \in Settled /\ Undeleted(j) => hist'[j] = say[t]
    BY <1>1, <1>4, <1>7 DEF AppInv, RowInv
  <2>. QED
    BY <1>2, <1>6, <1>7, <2>1, <2>2 DEF AppInv, ListenInv, Undeleted, Lists, j
<1>11. ToldInv'
  <2>1. \A i \in Jobs : told[i] \in Settled => row'[i] = row[i] /\ hist'[i] = hist[i]
    BY <1>1, <1>6
  <2>. QED
    BY <1>2, <1>5, <2>1 DEF AppInv, ToldInv, OutcomeIsStored, Undeleted, Lists
<1>12. StoredInv'
  <2>1. ASSUME NEW i \in Jobs, i # j, hist'[i] \in Settled
        PROVE  \/ told[i] = hist'[i]
               \/ \E u \in Threads : pc[u] = "callback" /\ cur[u] = i /\ say[u] = hist'[i] /\ stage'[u] # "begin"
    BY <1>2, <1>6, <1>7, <2>1 DEF AppInv, StoredInv, j
  <2>2. hist'[j] \in Settled => hist'[j] = say[t]
    BY <1>1, <1>4, <1>5, <1>7 DEF HistStatus
  <2>. QED
    BY <1>2, <1>7, <2>1, <2>2 DEF StoredInv, j
<1>13. DeleteInv'
  BY <1>2 DEF AppInv, DeleteInv, CancelReported, Reporting
<1>. QED
  BY <1>8, <1>9, <1>10, <1>11, <1>12, <1>13 DEF AppInv

(* A listener that has stored its report goes on; what it writes next is   *)
(* the line of its own job, of which nothing final was told.               *)
LEMMA AppListenOn ==
  ASSUME PoolInv, AppInv, NEW t \in Threads, pc[t] = "callback", stage[t] # "begin",
         UNCHANGED <<vars, row, hist, export, errand, deleted>>,
         NEW p \in {"record", "after", "show"}, stage' = [stage EXCEPT ![t] = p],
         NEW f \in {"absent", "processing", "success", "error", "failed", "cancelled"},
         feed' = [feed EXCEPT ![cur[t]] = f],
         p = "show" => f = FeedFinal(say[t])
  PROVE  AppInv'
<1> DEFINE j == cur[t]
<1>1. /\ j \in Jobs /\ told[j] \notin Settled /\ status[j] # "none"
      /\ \A u \in Threads \ {t} : pc[u] = "callback" => cur[u] \in Jobs /\ cur[u] # j
  BY InListener
<1>2. UNCHANGED <<told, status, pc, cur, say>>
  BY DEF vars, jobVars, threadVars
<1>3. feed' = [feed EXCEPT ![j] = f]
  OBVIOUS
<1>. HIDE DEF j
<1>4. /\ feed'[j] = f /\ \A i \in Jobs : i # j => feed'[i] = feed[i]
      /\ stage'[t] = p /\ \A u \in Threads : u # t => stage'[u] = stage[u]
  BY <1>1, <1>3 DEF AppInv, AppTypeOK
<1>5. AppTypeOK'
  <2>1. stage' \in [Threads -> {"begin", "reread", "record", "after", "show"}]
    BY DEF AppInv, AppTypeOK
  <2>2. feed' \in [Jobs -> {"absent", "processing", "success", "error", "failed", "cancelled"}]
    BY <1>3 DEF AppInv, AppTypeOK
  <2>. QED
    BY <2>1, <2>2 DEF AppInv, AppTypeOK
<1>6. RowInv'
  BY <1>1, <1>2, <1>4 DEF AppInv, RowInv, Undeleted
<1>7. ListenInv'
  BY <1>1, <1>2, <1>4 DEF AppInv, ListenInv, Undeleted, Lists, j
<1>8. ToldInv'
  BY <1>1, <1>2, <1>4 DEF AppInv, ToldInv, OutcomeIsStored, Undeleted, Lists
<1>9. StoredInv'
  BY <1>2, <1>4 DEF AppInv, StoredInv
<1>10. DeleteInv'
  BY <1>1, <1>2, <1>4 DEF AppInv, DeleteInv, CancelReported, Reporting, Settled
<1>. QED
  BY <1>5, <1>6, <1>7, <1>8, <1>9, <1>10 DEF AppInv

LEMMA AppListenReturn ==
  ASSUME PoolInv, AppInv, NEW t \in Threads, ListenReturn(t)
  PROVE  AppInv'
<1> DEFINE j == cur[t]
<1>1. /\ j \in Jobs /\ told[j] \notin Settled /\ say[t] \in Active \cup Settled
      /\ \A u \in Threads \ {t} : pc[u] = "callback" => cur[u] \in Jobs /\ cur[u] # j
  BY InListener DEF ListenReturn, LeaveNotify
<1>2. /\ pc[t] = "callback" /\ status' = status
      /\ told' = [told EXCEPT ![j] = say[t]]
      /\ say[t] \in Settled => stage[t] = "show"
      /\ stage' = [stage EXCEPT ![t] = "begin"]
      /\ row' = [row EXCEPT ![j] = IF say[t] \in Settled THEN FinalRow(say[t]) ELSE row[j]]
      /\ export' = [export EXCEPT ![j] = IF say[t] = "ready" THEN "copying" ELSE export[j]]
      /\ UNCHANGED <<hist, feed, errand, deleted>>
  BY StatusFacts DEF ListenReturn, LeaveNotify
<1>3. /\ \A u \in Threads \ {t} : pc'[u] = pc[u] /\ cur'[u] = cur[u] /\ say'[u] = say[u]
      /\ pc'[t] # "callback"
  BY DEF ListenReturn, LeaveNotify, Goto, PoolInv, TypeInv, TypeOK
<1>. HIDE DEF j
<1>4. /\ told'[j] = say[t] /\ \A i \in Jobs : i # j => told'[i] = told[i]
      /\ stage'[t] = "begin" /\ \A u \in Threads : u # t => stage'[u] = stage[u]
  BY <1>1, <1>2 DEF AppInv, AppTypeOK, PoolInv, TypeInv, TypeOK
<1>5. /\ say[t] \in Settled => row'[j] = FinalRow(say[t])
      /\ say[t] # "ready" => export'[j] = export[j]
      /\ \A i \in Jobs : i # j => row'[i] = row[i] /\ export'[i] = export[i]
  BY <1>1, <1>2 DEF AppInv, AppTypeOK
<1>6. {"ready", "cancelled"} \subseteq Settled
  BY DEF Settled
<1>7. AppTypeOK'
  <2>1. say[t] \in Settled => FinalRow(say[t]) \in {"none", "ready", "failed"}
    BY DEF FinalRow, Settled
  <2>. QED
    BY <1>1, <1>2, <2>1 DEF AppInv, AppTypeOK
<1>8. RowInv'
  BY <1>2 DEF AppInv, RowInv, Undeleted
<1>9. ListenInv'
  BY <1>1, <1>2, <1>3, <1>4 DEF AppInv, ListenInv, Undeleted, Lists
<1>10. ToldInv'
  <2>1. say[t] \in Settled /\ Undeleted(j) => hist[j] = say[t] /\ Lists(j, say[t])
    BY <1>1, <1>2, StatusFacts DEF AppInv, ListenInv, Settled, j
  <2>2. OutcomeIsStored'
    BY <1>2, <1>4, <2>1 DEF AppInv, ToldInv, OutcomeIsStored, Undeleted, Lists
  <2>3. say[t] = "cancelled" => row'[j] = "none"
    BY <1>5, <1>6 DEF FinalRow
  <2>4. export'[j] # "no" => say[t] = "ready"
    BY <1>1, <1>5, <1>6 DEF AppInv, ToldInv
  <2>. QED
    BY <1>4, <1>5, <2>2, <2>3, <2>4 DEF AppInv, ToldInv
<1>11. StoredInv'
  <2>1. hist[j] \in Settled => hist[j] = say[t]
    BY <1>1 DEF AppInv, StoredInv
  <2>2. ASSUME NEW i \in Jobs, i # j, hist[i] \in Settled
        PROVE  \/ told'[i] = hist[i]
               \/ \E u \in Threads : pc'[u] = "callback" /\ cur'[u] = i /\ say'[u] = hist[i] /\ stage'[u] # "begin"
    BY <1>3, <1>4, <2>2 DEF AppInv, StoredInv, j
  <2>. QED
    BY <1>2, <1>4, <2>1, <2>2 DEF StoredInv
<1>12. DeleteInv'
  <2>1. ASSUME NEW c \in Callers
        PROVE  CancelReported(c)'
    <3>1. c \in Threads
      BY ThreadFacts
    <3>2. CASE errand[c].next = "deleteCancelled" /\ told[errand[c].job] = "cancelled"
      <4>1. errand[c].job \in Jobs
        BY <3>2, ErrandFacts DEF AppInv, AppTypeOK, ErrandsOK
      <4>. QED
        BY <1>1, <1>2, <1>4, <1>6, <3>2, <4>1 DEF CancelReported
    <3>3. CASE c = t /\ Reporting(c) /\ cur[c] = errand[c].job
      <4>1. say[t] = "cancelled"
        BY <1>2, <2>1, <3>3 DEF Reporting, PoolInv, OutcomeInv
      <4>. QED
        BY <1>2, <1>4, <3>3, <4>1 DEF CancelReported, j
    <3>4. CASE c # t /\ Reporting(c) /\ cur[c] = errand[c].job
      BY <1>2, <1>3, <3>1, <3>4 DEF CancelReported, Reporting
    <3>5. CASE errand[c].next # "deleteCancelled"
      BY <1>2, <3>5 DEF CancelReported
    <3>. QED
      BY <3>2, <3>3, <3>4, <3>5 DEF AppInv, DeleteInv, CancelReported
  <2>. QED
    BY <1>1, <1>2, <1>4, <1>6, <2>1 DEF AppInv, DeleteInv
<1>. QED
  BY <1>7, <1>8, <1>9, <1>10, <1>11, <1>12 DEF AppInv

LEMMA AppListen ==
  ASSUME PoolInv, AppInv, NEW t \in Threads, Listen(t)
  PROVE  AppInv'
<1>1. CASE ListenReread(t)
  <2>1. PICK p \in {"record", "after"} : stage' = [stage EXCEPT ![t] = p]
    BY <1>1 DEF ListenReread
  <2>2. /\ pc[t] = "callback" /\ stage[t] # "begin" /\ UNCHANGED <<vars, row, hist, feed, export, errand, deleted>>
    BY <1>1 DEF ListenReread
  <2>3. /\ feed[cur[t]] \in {"absent", "processing", "success", "error", "failed", "cancelled"}
        /\ feed' = [feed EXCEPT ![cur[t]] = feed[cur[t]]]
    BY <2>2, InListener DEF AppInv, AppTypeOK
  <2>. QED
    BY <2>1, <2>2, <2>3, AppListenOn
<1>2. CASE ListenRecord(t)
  <2>1. FeedOf(HistStatus(say[t])) \in {"absent", "processing", "success", "error", "failed", "cancelled"}
    BY DEF FeedOf
  <2>. QED
    BY <1>2, <2>1, AppListenOn DEF ListenRecord
<1>3. CASE ListenFinal(t)
  <2>1. /\ FeedFinal(say[t]) \in {"absent", "processing", "success", "error", "failed", "cancelled"}
        /\ feed' = [feed EXCEPT ![cur[t]] = FeedFinal(say[t])]
    BY <1>3 DEF ListenFinal, FeedFinal, Settled
  <2>. QED
    BY <1>3, <2>1, AppListenOn DEF ListenFinal
<1>4. ASSUME NEW j \in Jobs, ListenEvict(t, j)
      PROVE  AppInv'
  <2>1. Quiet /\ Kept
    BY <1>4, QuietRetire DEF ListenEvict, RetireSteps
  <2>2. /\ row' = [row EXCEPT ![j] = "none"]
        /\ UNCHANGED <<hist, feed, stage, export, errand, deleted>>
    BY <1>4 DEF ListenEvict
  <2>3. \A c \in Callers : CancelReported(c)'
    BY <2>1, <2>2, ErrandKept
  <2>. QED
    BY <2>1, <2>2, <2>3, AppFrame DEF AppInv, AppTypeOK
<1>. QED
  BY <1>1, <1>2, <1>3, <1>4, AppListenUpdate, AppListenReturn DEF Listen

-------------------------------------------------------------------------------
(* The export thread and the bar.                                          *)
LEMMA AppExport ==
  ASSUME PoolInv, AppInv, NEW j \in Jobs, Export(j)
  PROVE  AppInv'
<1>1. PICK e \in {"no", "reread", "record"}, f \in {feed[j], "success"} :
        /\ export[j] # "no" /\ export' = [export EXCEPT ![j] = e] /\ feed' = [feed EXCEPT ![j] = f]
        /\ UNCHANGED <<vars, row, hist, stage, errand, deleted>>
  BY DEF Export, ExportUpdate, ExportReread, ExportRecord, AppInv, AppTypeOK
<1>2. told[j] = "ready" /\ "ready" \in Settled
  BY <1>1 DEF AppInv, ToldInv, Settled
<1>3. UNCHANGED <<told, status, pc, cur, say>>
  BY <1>1 DEF vars, jobVars, threadVars
<1>4. /\ \A i \in Jobs : i # j => export'[i] = export[i] /\ feed'[i] = feed[i]
      /\ feed'[j] = f
  BY <1>1 DEF AppInv, AppTypeOK
<1>11. status[j] # "none"
  <2>1. Heard(j)
    BY DEF PoolInv, ReportInv
  <2>. QED
    BY <1>2, <2>1, RankFacts DEF Heard
<1>5. AppTypeOK'
  BY <1>1 DEF AppInv, AppTypeOK
<1>6. RowInv'
  BY <1>1, <1>3, <1>4, <1>11 DEF AppInv, RowInv, Undeleted
<1>7. ListenInv'
  <2>1. \A t \in Threads : pc[t] = "callback" => cur[t] \in Jobs /\ cur[t] # j
    BY <1>2, InListener
  <2>. QED
    BY <1>1, <1>3, <1>4, <2>1 DEF AppInv, ListenInv, Undeleted, Lists
<1>8. ToldInv'
  <2>1. FeedFinal(told[j]) = "success"
    BY <1>2 DEF FeedFinal
  <2>2. ASSUME NEW i \in Jobs, told[i] \in Settled, Undeleted(i)
        PROVE  hist[i] = told[i] /\ Lists(i, told[i])'
    <3>1. hist[i] = told[i] /\ Lists(i, told[i])
      BY <2>2 DEF AppInv, ToldInv, OutcomeIsStored
    <3>. QED
      BY <1>1, <1>3, <1>4, <2>1, <3>1 DEF Lists
  <2>3. OutcomeIsStored'
    BY <1>1, <1>3, <2>2 DEF OutcomeIsStored, Undeleted
  <2>. QED
    BY <1>1, <1>2, <1>3, <1>4, <2>3 DEF AppInv, ToldInv
<1>9. StoredInv'
  BY <1>1, <1>3 DEF AppInv, StoredInv
<1>10. DeleteInv'
  BY <1>1, <1>2, <1>3, <1>4 DEF AppInv, DeleteInv, CancelReported, Reporting
<1>. QED
  BY <1>5, <1>6, <1>7, <1>8, <1>9, <1>10 DEF AppInv

(* A line goes with its row; whatever the job still stores is exempt.      *)
LEMMA AppDeleteLine ==
  ASSUME PoolInv, AppInv, NEW j \in Jobs, DeleteLine(j)
  PROVE  AppInv'
<1>1. /\ feed[j] # "absent" /\ hist' = [hist EXCEPT ![j] = "absent"]
      /\ feed' = [feed EXCEPT ![j] = "absent"] /\ deleted' = [deleted EXCEPT ![j] = "plain"]
      /\ UNCHANGED <<row, stage, export, errand, told, status, pc, cur, say>>
  BY DEF DeleteLine, vars, jobVars, threadVars
<1>2. /\ hist'[j] = "absent" /\ feed'[j] = "absent" /\ deleted'[j] = "plain"
      /\ \A i \in Jobs : i # j => hist'[i] = hist[i] /\ feed'[i] = feed[i] /\ deleted'[i] = deleted[i]
  BY <1>1 DEF AppInv, AppTypeOK
<1>3. status[j] # "none"
  BY <1>1 DEF AppInv, RowInv
<1>4. AppTypeOK'
  BY <1>1 DEF AppInv, AppTypeOK
<1>5. RowInv'
  BY <1>1, <1>2, <1>3 DEF AppInv, RowInv, Undeleted
<1>6. ListenInv'
  <2>1. \A t \in Threads : pc[t] = "callback" => cur[t] \in Jobs
    BY InListener
  <2>. QED
    BY <1>1, <1>2, <2>1 DEF AppInv, ListenInv, Undeleted, Lists
<1>7. ToldInv'
  BY <1>1, <1>2 DEF AppInv, ToldInv, OutcomeIsStored, Undeleted, Lists
<1>8. StoredInv'
  BY <1>1, <1>2 DEF AppInv, StoredInv, Settled
<1>9. DeleteInv'
  BY <1>1, <1>2 DEF AppInv, DeleteInv, CancelReported, Reporting
<1>. QED
  BY <1>4, <1>5, <1>6, <1>7, <1>8, <1>9 DEF AppInv

(* Lines that are cleared show nothing, and every row stays.               *)
LEMMA AppClearLines ==
  ASSUME PoolInv, AppInv, ClearLines
  PROVE  AppInv'
<1>1. /\ feed' = [j \in Jobs |-> "absent"]
      /\ deleted' = [j \in Jobs |->
           IF deleted[j] = "no" /\ hist[j] # "absent" THEN "cleared" ELSE deleted[j]]
      /\ UNCHANGED <<row, hist, stage, export, errand, told, status, pc, cur, say>>
  BY DEF ClearLines, vars, jobVars, threadVars
<1>2. \A j \in Jobs : /\ feed'[j] = "absent"
                      /\ Undeleted(j)' <=> Undeleted(j)
                      /\ hist[j] # "absent" /\ Undeleted(j) => deleted'[j] = "cleared"
                      /\ hist[j] = "absent" => deleted'[j] = deleted[j]
                      /\ deleted'[j] = "cancelled" => deleted[j] = "cancelled"
  BY <1>1 DEF AppInv, RowInv, Undeleted
<1>3. AppTypeOK'
  BY <1>1 DEF AppInv, AppTypeOK
<1>4. RowInv'
  BY <1>1, <1>2 DEF AppInv, RowInv
<1>5. \A j \in Jobs : status[j] # "none" /\ Undeleted(j) => \A s : Lists(j, s)'
  BY <1>2 DEF AppInv, RowInv, Lists
<1>6. ListenInv'
  <2>1. \A t \in Threads : pc[t] = "callback" => cur[t] \in Jobs /\ status[cur[t]] # "none"
    BY InListener
  <2>. QED
    BY <1>1, <1>2, <1>5, <2>1 DEF AppInv, ListenInv
<1>7. ToldInv'
  <2>1. \A j \in Jobs : told[j] \in Settled /\ Undeleted(j) => hist[j] # "absent" /\ hist[j] = told[j]
    BY DEF AppInv, ToldInv, OutcomeIsStored, Settled
  <2>2. \A j \in Jobs : told[j] \in Settled /\ Undeleted(j) => \A s : Lists(j, s)'
    BY <1>2, <2>1 DEF Lists
  <2>3. OutcomeIsStored'
    BY <1>1, <1>2, <2>1, <2>2 DEF OutcomeIsStored
  <2>. QED
    BY <1>1, <2>3 DEF AppInv, ToldInv
<1>8. StoredInv'
  BY <1>1 DEF AppInv, StoredInv
<1>9. DeleteInv'
  BY <1>1, <1>2 DEF AppInv, DeleteInv, CancelReported, Reporting
<1>. QED
  BY <1>3, <1>4, <1>6, <1>7, <1>8, <1>9 DEF AppInv

LEMMA AppBar ==
  ASSUME AppInv, NEW j \in Jobs, DismissRow(j) \/ OpenRow(j)
  PROVE  AppInv'
<1>1. /\ row' = [row EXCEPT ![j] = "none"]
      /\ UNCHANGED <<vars, hist, feed, stage, export, errand, deleted>>
  BY DEF DismissRow, OpenRow
<1>2. Quiet /\ Kept
  BY <1>1 DEF vars, jobVars, threadVars, Quiet, Kept, Reporting
<1>3. \A c \in Callers : CancelReported(c)'
  BY <1>1, <1>2, ErrandKept
<1>. QED
  BY <1>1, <1>2, <1>3, AppFrame DEF AppInv, AppTypeOK

LEMMA AppStep ==
  ASSUME PoolInv, AppInv, [AppNext]_allVars
  PROVE  AppInv'
<1>0. ErrandsOK'
  BY ErrandStep DEF AppInv, AppTypeOK, ErrandsOK
<1>1. ASSUME NEW c \in Callers, NEW j \in Jobs, SubmitSummary(c, j) \/ CancelSummary(c, j)
      PROVE  AppInv'
  <2>1. CASE CancelSummary(c, j)
    <3>1. c \in Threads /\ pc[c] = "idle" /\ CancelSection(c, j) /\ UNCHANGED appVars
      BY <2>1, ThreadFacts DEF CancelSummary, Cancel
    <3>. QED
      BY <3>1, QuietCancel, AppPoolOnly
  <2>. QED
    BY <1>1, <2>1, AppSubmit
<1>2. ASSUME NEW t \in Threads, Listen(t)
      PROVE  AppInv'
  BY <1>2, AppListen
<1>3. ASSUME NEW j \in Jobs, Export(j) \/ DismissRow(j) \/ OpenRow(j)
      PROVE  AppInv'
  BY <1>3, AppExport, AppBar
<1>4. ASSUME NEW c \in Callers, Delete(c)
      PROVE  AppInv'
  BY <1>0, <1>4, AppDelete
<1>7. ASSUME NEW j \in Jobs, DeleteLine(j)
      PROVE  AppInv'
  BY <1>7, AppDeleteLine
<1>8. CASE ClearLines
  BY <1>8, AppClearLines
<1>5. CASE PoolOnly
  <2>1. Quiet /\ Kept
    BY <1>5, QuietEnter, QuietRetire, QuietWork, QuietStop DEF PoolOnly, RetireSteps
  <2>. QED
    BY <1>5, <2>1, AppPoolOnly DEF PoolOnly
<1>6. CASE UNCHANGED allVars
  <2>1. Quiet /\ Kept /\ UNCHANGED appVars
    BY <1>6 DEF allVars, vars, jobVars, threadVars, Quiet, Kept, Reporting
  <2>. QED
    BY <2>1, AppPoolOnly
<1>. QED
  BY <1>1, <1>2, <1>3, <1>4, <1>5, <1>6, <1>7, <1>8 DEF AppNext

LEMMA AppInvariant == AppSafe => [](PoolInv /\ AppInv)
<1>1. AppInit => AppInv
  <2> SUFFICES ASSUME AppInit PROVE AppInv
    OBVIOUS
  <2>1. AppTypeOK /\ RowInv
    BY DEF AppInit, Init, AppTypeOK, RowInv, Errands
  <2>2. ListenInv /\ StoredInv
    BY DEF AppInit, Init, ListenInv, StoredInv, Settled
  <2>3. ToldInv /\ DeleteInv
    BY DEF AppInit, Init, ToldInv, OutcomeIsStored, DeleteInv, CancelReported, NoErrand, Settled
  <2>. QED
    BY <2>1, <2>2, <2>3 DEF AppInv
<1>2. PoolInv /\ AppInv /\ [AppNext]_allVars => AppInv'
  BY AppStep
<1>. QED
  BY <1>1, <1>2, AppRunsThePool, PoolFacts, PTL DEF AppSafe

-------------------------------------------------------------------------------
(* The theorems.                                                           *)

(* Rows, lines, listeners, exports and requests keep their types.          *)
THEOREM AppTypeCorrect == AppSafe => []AppTypeOK
<1>1. AppInv => AppTypeOK
  BY DEF AppInv
<1>. QED
  BY <1>1, AppInvariant, PTL

(* What the tables say of a summary is what happened to it: the outcome    *)
(* its listener was told is stored in both, a cancel has stored its own    *)
(* before it drops the source, and a delete that cancelled leaves nothing. *)
(* Clearing the history page takes lines away and changes none.            *)
THEOREM HistoryCorrect == AppSafe => []HistoryIsTrue
<1>1. ASSUME PoolInv, AppInv
      PROVE  HistoryIsTrue
  <2>1. OutcomeIsStored
    BY <1>1 DEF AppInv, ToldInv
  <2>2. CancelPersistsFirst
    <3> SUFFICES ASSUME NEW c \in Callers, pc[c] = "release"
                 PROVE  hist[cur[c]] \in {"cancelled", "absent"} /\ row[cur[c]] = "none"
      BY DEF CancelPersistsFirst
    <3>1. c \in Threads /\ cur[c] \in Jobs
      BY <1>1, ThreadFacts DEF PoolInv, TypeInv, CallHasJob, InCall
    <3>2. told[cur[c]] = "cancelled"
      BY <1>1, <3>1 DEF PoolInv, OutcomeInv
    <3>. QED
      BY <1>1, <2>1, <3>1, <3>2 DEF AppInv, ToldInv, RowInv, Undeleted, OutcomeIsStored, AppTypeOK, Settled
  <2>3. CancelledDeleteIsFinal
    BY <1>1 DEF AppInv, RowInv, Undeleted, DeleteInv, CancelledDeleteIsFinal
  <2>. QED
    BY <2>1, <2>2, <2>3 DEF HistoryIsTrue
<1>. QED
  BY <1>1, AppInvariant, PTL

(* No step of any thread overwrites a stored outcome: not the late report  *)
(* of another status, not an export, not a second cancel.                  *)
THEOREM OutcomeNeverOverwritten == AppSafe => StoredOutcomeIsFinal
<1>1. ASSUME PoolInv, AppInv, [AppNext]_allVars
      PROVE  [\A j \in Jobs : hist[j] \in Settled => hist'[j] \in {hist[j], "absent"}]_hist
  <2> SUFFICES ASSUME NEW j \in Jobs, hist[j] \in Settled
               PROVE  hist'[j] \in {hist[j], "absent"}
    OBVIOUS
  <2>1. ASSUME NEW c \in Callers, NEW i \in Jobs, SubmitSummary(c, i)
        PROVE  hist'[j] \in {hist[j], "absent"}
    <3>1. hist[i] = "absent" /\ hist' = [hist EXCEPT ![i] = "in_progress"]
      BY <1>1, <2>1 DEF SubmitSummary, Submit, AppInv, RowInv
    <3>. QED
      BY <1>1, <3>1 DEF AppInv, AppTypeOK, Settled
  <2>2. ASSUME NEW t \in Threads, ListenUpdate(t)
        PROVE  hist'[j] \in {hist[j], "absent"}
    <3>1. /\ pc[t] = "callback" /\ stage[t] = "begin" /\ cur[t] \in Jobs /\ told[cur[t]] \notin Settled
          /\ \A u \in Threads \ {t} : pc[u] = "callback" => cur[u] # cur[t]
      BY <1>1, <2>2, InListener DEF ListenUpdate
    <3>2. cur[t] # j
      BY <1>1, <3>1 DEF AppInv, StoredInv
    <3>3. UNCHANGED hist \/ hist' = [hist EXCEPT ![cur[t]] = HistStatus(say[t])]
      BY <2>2 DEF ListenUpdate
    <3>. QED
      BY <1>1, <3>2, <3>3 DEF AppInv, AppTypeOK
  <2>3. ASSUME NEW c \in Callers, DeleteRow(c)
        PROVE  hist'[j] \in {hist[j], "absent"}
    <3>1. UNCHANGED hist \/ hist' = [hist EXCEPT ![errand[c].job] = "absent"]
      BY <2>3 DEF DeleteRow
    <3>. QED
      BY <1>1, <3>1 DEF AppInv, AppTypeOK
  <2>4. CASE UNCHANGED hist
    BY <2>4
  <2>5. ASSUME NEW i \in Jobs, DeleteLine(i)
        PROVE  hist'[j] \in {hist[j], "absent"}
    BY <1>1, <2>5 DEF DeleteLine, AppInv, AppTypeOK
  <2>. QED
    BY <1>1, <2>1, <2>2, <2>3, <2>4, <2>5 DEF ClearLines, AppNext, CancelSummary, Listen, ListenReread, ListenRecord, ListenFinal,
       ListenReturn, ListenEvict, Export, ExportUpdate, ExportReread, ExportRecord, DismissRow, OpenRow, Delete,
       DeleteRequest, DeleteCancels, DeleteRefused, PoolOnly, allVars, appVars
<1>. QED
  BY <1>1, AppInvariant, PTL DEF AppSafe, StoredOutcomeIsFinal
===============================================================================
