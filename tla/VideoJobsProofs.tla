---------------------------- MODULE VideoJobsProofs ----------------------------
(***************************************************************************)
(* Proofs about the video jobs, for any finite set of jobs, any number of  *)
(* kept rows, of restarts and of calls from the history page.              *)
(***************************************************************************)
EXTENDS VideoJobs, TLAPS, FiniteSetTheorems, WellFoundedInduction

Rows   == {"none", "gone"} \cup Active \cup Terminal
Places == {"none", "record", "prune", "start", "check", "engine", "recheck", "work",
           "limit", "fail", "schedule", "final", "idle"}

RunTypes ==
  /\ row \in [Jobs -> Rows] /\ pc \in [Jobs -> Places]
  /\ timer \in [Jobs -> BOOLEAN] /\ known \in [Jobs -> BOOLEAN]
  /\ attempts \in [Jobs -> 0..1]
  /\ stop \in [Jobs -> {"idle", "seen", "told"}]

(* A job has a row only once it was created.                               *)
CreatedOnce == \A j \in Jobs : pc[j] = "none" => row[j] \in {"none", "gone"}

(* A thread reaches its end with an active row only by setting the timer,  *)
(* and whoever cancels that timer is about to settle the row.              *)
Attended ==
  \A j \in Jobs : row[j] \in Active =>
    pc[j] \notin {"final", "idle"} \/ timer[j] \/ stop[j] # "idle" \/ j \in orphaned

JobInv == RunTypes /\ CreatedOnce /\ Attended

(* What no step does to a row that is settled.                             *)
OutcomesStay == \A j \in Jobs : row[j] \in Terminal => row'[j] \in {row[j], "gone"}

-------------------------------------------------------------------------------
LEMMA StateFacts ==
  /\ Active \cap Terminal = {}
  /\ "none" \notin Active \cup Terminal /\ "gone" \notin Active \cup Terminal
BY DEF Active, Terminal

(* finish() settles an active row and touches no other.                    *)
LEMMA FinishFacts ==
  ASSUME row \in [Jobs -> Rows], NEW j \in Jobs, NEW state \in Terminal, Finish(j, state)
  PROVE  /\ row' \in [Jobs -> Rows] /\ row'[j] \notin Active
         /\ \A i \in Jobs : row'[i] # row[i] => i = j /\ row[i] \in Active
         /\ attempts' = attempts
BY StateFacts DEF Finish, Rows

(* Rows that are removed are gone, and the others stay as they are.        *)
LEMMA DropFacts ==
  ASSUME row \in [Jobs -> Rows], NEW S, NEW left, Drop(S, left)
  PROVE  /\ row' \in [Jobs -> Rows]
         /\ \A i \in Jobs : row'[i] = row[i] \/ (row'[i] = "gone" /\ i \in S)
         /\ attempts' = attempts
BY DEF Drop, Rows

LEMMA PruneFacts ==
  ASSUME row \in [Jobs -> Rows], Prune
  PROVE  /\ row' \in [Jobs -> Rows]
         /\ \A i \in Jobs : row'[i] = row[i] \/ row'[i] = "gone"
         /\ attempts' = attempts
<1>1. CASE Len(rows) > MaxKeep
  <2>1. PICK S, left : Drop(S, left)
    BY <1>1 DEF Prune
  <2>. QED
    BY <2>1, DropFacts
<1>2. CASE ~(Len(rows) > MaxKeep)
  BY <1>2 DEF Prune, storeVars
<1>. QED
  BY <1>1, <1>2

(* A change of a row that is not settled leaves it active.                 *)
LEMMA UpdateFacts ==
  ASSUME row \in [Jobs -> Rows], NEW j \in Jobs, NEW state \in Active, Update(j, state)
  PROVE  /\ row' \in [Jobs -> Rows]
         /\ \A i \in Jobs : row'[i] # row[i] => i = j /\ row[i] \in Active /\ row'[i] \in Active
BY DEF Update, Rows

(* A step that only removes rows keeps the invariant.                      *)
LEMMA QuietStep ==
  ASSUME JobInv, row' \in [Jobs -> Rows], attempts' = attempts,
         \A i \in Jobs : row'[i] = row[i] \/ row'[i] = "gone",
         UNCHANGED <<pc, known, timer, stop, orphaned>>
  PROVE  JobInv' /\ OutcomesStay
<1> USE StateFacts DEF JobInv
<1>1. RunTypes'
  BY DEF RunTypes
<1>2. CreatedOnce'
  BY DEF CreatedOnce
<1>3. Attended'
  BY DEF Attended
<1>4. OutcomesStay
  BY DEF OutcomesStay
<1>. QED
  BY <1>1, <1>2, <1>3, <1>4

LEMMA JobInit == Init => JobInv
<1> SUFFICES ASSUME Init PROVE JobInv
  OBVIOUS
<1>1. RunTypes
  BY DEF Init, RunTypes, Rows, Places
<1>. QED
  BY <1>1, StateFacts DEF Init, JobInv, CreatedOnce, Attended

LEMMA JobStep == JobInv /\ [Next]_vars => JobInv' /\ OutcomesStay
<1> SUFFICES ASSUME JobInv, [Next]_vars PROVE JobInv' /\ OutcomesStay
  OBVIOUS
<1> USE StateFacts
<1> USE DEF JobInv, RunTypes, CreatedOnce, Attended, OutcomesStay, Places
<1>1. CASE FinishRecords
  BY <1>1 DEF FinishRecords, storeVars, runVars, history
<1>2. CASE List
  <2>1. /\ row' \in [Jobs -> Rows]
        /\ \A i \in Jobs : row'[i] = row[i] \/ row'[i] = "gone"
        /\ attempts' = attempts
    BY <1>2, PruneFacts DEF List
  <2>2. UNCHANGED <<pc, known, timer, stop, orphaned>>
    BY <1>2 DEF List, runVars, history
  <2>. QED
    BY <2>1, <2>2, QuietStep
<1>3. CASE Restart
  <2>1. PICK young \in SUBSET {j \in Jobs : row[j] \in Active} :
          LET old    == {j \in Jobs : row[j] \in Active} \ young
              failed == old \ Resumed(old)
          IN  /\ orphaned' = young
              /\ row' = [j \in Jobs |-> IF j \in failed THEN "failed"
                                        ELSE IF j \in old THEN "queued" ELSE row[j]]
              /\ RestartThreads(old)
    BY <1>3 DEF Restart
  <2> DEFINE old    == {j \in Jobs : row[j] \in Active} \ young
             failed == old \ Resumed(old)
  <2>2. orphaned' = young /\ attempts' = attempts
    BY <1>3, <2>1 DEF Restart
  <2>3. row' = [j \in Jobs |-> IF j \in failed THEN "failed"
                               ELSE IF j \in old THEN "queued" ELSE row[j]]
    BY <2>1
  <2>4. /\ pc' = [j \in Jobs |-> IF row[j] = "none" THEN "none" ELSE "idle"]
        /\ timer' = [j \in Jobs |-> j \in Resumed(old)] /\ known' = timer'
        /\ stop' = [j \in Jobs |-> "idle"]
    BY <2>1 DEF RestartThreads
  <2>5. "failed" \in Terminal /\ "failed" \in Rows /\ "queued" \in Rows
    BY DEF Rows, Active, Terminal
  <2>6. \A j \in Jobs :
          /\ j \in failed => row'[j] = "failed"
          /\ j \in Resumed(old) => timer'[j]
          /\ row[j] \notin Active => row'[j] = row[j]
    BY <2>3, <2>4 DEF Resumed
  <2>7. \A j \in Jobs : row[j] \in Active => j \in young \cup failed \cup Resumed(old)
    BY DEF Resumed
  <2>8. row' \in [Jobs -> Rows]
    BY <2>3, <2>5
  <2>9. RunTypes'
    BY <2>2, <2>4, <2>8
  <2>10. CreatedOnce'
    <3>1. \A j \in Jobs : pc'[j] = "none" => row[j] = "none"
      BY <2>4
    <3>. QED
      BY <2>6, <3>1
  <2>11. OutcomesStay
    <3>1. \A j \in Jobs : row[j] \in Terminal => row'[j] = row[j]
      BY <2>6
    <3>. QED
      BY <3>1
  <2>12. \A j \in Jobs : row'[j] \in Active => j \in young \/ j \in Resumed(old)
    BY <2>5, <2>6, <2>7
  <2>13. Attended'
    BY <2>2, <2>6, <2>12
  <2>. QED
    BY <2>9, <2>10, <2>11, <2>13
<1>4. ASSUME NEW j \in Jobs, Create(j) PROVE JobInv' /\ OutcomesStay
  BY <1>4 DEF Create, Goes, Rows, Active, storeVars, runVars, history
<1>5. ASSUME NEW j \in Jobs, CreateRecords(j) PROVE JobInv' /\ OutcomesStay
  BY <1>5 DEF CreateRecords, Goes, storeVars, runVars, history
<1>6. ASSUME NEW j \in Jobs, CreatePrunes(j) PROVE JobInv' /\ OutcomesStay
  <2>1. /\ row' \in [Jobs -> Rows]
        /\ \A i \in Jobs : row'[i] = row[i] \/ row'[i] = "gone"
        /\ attempts' = attempts
    BY <1>6, PruneFacts DEF CreatePrunes
  <2>2. UNCHANGED <<known, timer, stop, orphaned>> /\ pc' = [pc EXCEPT ![j] = "start"]
    BY <1>6 DEF CreatePrunes, Goes, history
  <2>3. pc[j] = "prune"
    BY <1>6 DEF CreatePrunes, Goes
  <2>. QED
    BY <2>1, <2>2, <2>3
<1>7. ASSUME NEW j \in Jobs, StartThread(j) PROVE JobInv' /\ OutcomesStay
  BY <1>7 DEF StartThread, Goes, storeVars, runVars, history
<1>8. ASSUME NEW j \in Jobs, Check(j) PROVE JobInv' /\ OutcomesStay
  BY <1>8 DEF Check, Goes, Settled, storeVars, runVars, history
<1>9. ASSUME NEW j \in Jobs, Register(j) PROVE JobInv' /\ OutcomesStay
  BY <1>9 DEF Register, Goes, storeVars, runVars, history
<1>10. ASSUME NEW j \in Jobs, Recheck(j) PROVE JobInv' /\ OutcomesStay
  BY <1>10 DEF Recheck, Goes, Settled, storeVars, runVars, history
<1>11. ASSUME NEW j \in Jobs, Progress(j) PROVE JobInv' /\ OutcomesStay
  <2>1. PICK state \in Active : Update(j, state)
    BY <1>11 DEF Progress
  <2>. QED
    BY <1>11, <2>1, UpdateFacts DEF Progress, runVars, history
<1>12. ASSUME NEW j \in Jobs, Complete(j) PROVE JobInv' /\ OutcomesStay
  <2>1. PICK state \in Terminal : Finish(j, state)
    BY <1>12 DEF Complete, Terminal
  <2>2. UNCHANGED <<timer, known, stop, orphaned>> /\ pc' = [pc EXCEPT ![j] = "final"]
    BY <1>12 DEF Complete, Goes, history
  <2>. QED
    BY <1>12, <2>1, <2>2, FinishFacts DEF Complete, Goes
<1>13. ASSUME NEW j \in Jobs, MeetLimit(j) PROVE JobInv' /\ OutcomesStay
  <2>1. CASE Goes(j, "work", "final") /\ Finish(j, "failed")
    BY <1>13, <2>1, FinishFacts DEF MeetLimit, Goes, Terminal
  <2>2. CASE Goes(j, "work", "limit") /\ UNCHANGED storeVars
    BY <1>13, <2>2 DEF MeetLimit, Goes, storeVars
  <2>. QED
    BY <1>13, <2>1, <2>2 DEF MeetLimit
<1>14. ASSUME NEW j \in Jobs, Raise(j) PROVE JobInv' /\ OutcomesStay
  BY <1>14 DEF Raise, storeVars, runVars, history
<1>15. ASSUME NEW j \in Jobs, Park(j) PROVE JobInv' /\ OutcomesStay
  <2>1. CASE attempts[j] = 0
    <3>1. Update(j, "queued") /\ "queued" \in Active
      BY <1>15, <2>1 DEF Park, Active
    <3>. QED
      BY <1>15, <2>1, <3>1, UpdateFacts DEF Park, Goes, Settled, history
  <2>2. CASE attempts[j] # 0
    BY <1>15, <2>2 DEF Park, Goes, storeVars, history
  <2>. QED
    BY <2>1, <2>2
<1>16. ASSUME NEW j \in Jobs, Schedule(j) PROVE JobInv' /\ OutcomesStay
  BY <1>16 DEF Schedule, Goes, storeVars, runVars, history
<1>17. ASSUME NEW j \in Jobs, Fail(j) PROVE JobInv' /\ OutcomesStay
  <2>1. PICK state \in Terminal : Finish(j, state)
    BY <1>17 DEF Fail, Terminal
  <2>2. UNCHANGED <<timer, known, stop, orphaned>> /\ pc' = [pc EXCEPT ![j] = "final"]
    BY <1>17 DEF Fail, Goes, history
  <2>. QED
    BY <1>17, <2>1, <2>2, FinishFacts DEF Fail, Goes
<1>18. ASSUME NEW j \in Jobs, Finally(j) PROVE JobInv' /\ OutcomesStay
  BY <1>18 DEF Finally, Goes, storeVars, runVars, history
<1>19. ASSUME NEW j \in Jobs, TimerFires(j) PROVE JobInv' /\ OutcomesStay
  BY <1>19 DEF TimerFires, Goes, storeVars, runVars, history
<1>20. ASSUME NEW j \in Jobs, Cancel(j) PROVE JobInv' /\ OutcomesStay
  BY <1>20 DEF Cancel, Halts, storeVars, runVars, history
<1>21. ASSUME NEW j \in Jobs, CancelTells(j) PROVE JobInv' /\ OutcomesStay
  BY <1>21 DEF CancelTells, Halts, storeVars, runVars, history
<1>22. ASSUME NEW j \in Jobs, CancelFinishes(j) PROVE JobInv' /\ OutcomesStay
  <2>1. Finish(j, "cancelled") /\ "cancelled" \in Terminal
    BY <1>22 DEF CancelFinishes, Terminal
  <2>. QED
    BY <1>22, <2>1, FinishFacts DEF CancelFinishes, Halts, history
<1>23. ASSUME NEW j \in Jobs, Delete(j) PROVE JobInv' /\ OutcomesStay
  <2>1. PICK S, left : Drop(S, left)
    BY <1>23 DEF Delete
  <2>. QED
    BY <1>23, <2>1, DropFacts DEF Delete, runVars, history
<1>24. CASE UNCHANGED vars
  BY <1>24 DEF vars, storeVars, runVars, history
<1>25. ASSUME NEW j \in Jobs, DeleteRecord(j) PROVE JobInv' /\ OutcomesStay
  <2>1. PICK S, left : Drop(S, left)
    BY <1>25 DEF DeleteRecord
  <2>. QED
    BY <1>25, <2>1, DropFacts, QuietStep DEF DeleteRecord, Visit, runVars
<1>26. CASE ClearHistory
  BY <1>26 DEF ClearHistory, Visit, runVars
<1>. QED
  BY <1>1, <1>2, <1>3, <1>4, <1>5, <1>6, <1>7, <1>8, <1>9, <1>10, <1>11,
     <1>12, <1>13, <1>14, <1>15, <1>16, <1>17, <1>18, <1>19, <1>20, <1>21,
     <1>22, <1>23, <1>24, <1>25, <1>26 DEF Next, Queue, Run, Ends, Stop

LEMMA JobInvariant == SafeSpec => []JobInv
<1>1. JobInv /\ [Next]_vars => JobInv'
  BY JobStep
<1>. QED
  BY <1>1, JobInit, PTL DEF SafeSpec

(* An active row always has a thread, a timer or a cancellation that will  *)
(* settle it, or the last start found it too young: for any number of jobs *)
(* whose retries, cancellations and restarts cross.                        *)
THEOREM NobodyIsForgotten == SafeSpec => []ActiveIsAttended
<1>1. JobInv => ActiveIsAttended
  BY DEF JobInv, Attended, ActiveIsAttended
<1>. QED
  BY <1>1, JobInvariant, PTL

-------------------------------------------------------------------------------
(* Sequences of jobs.                                                      *)

LEMMA LeastElement ==
  ASSUME NEW S, S \subseteq Nat, S # {}
  PROVE  \E n \in S : \A m \in S : n <= m
<1>1. PICK n \in S : \A m \in S : ~(<<m, n>> \in OpToRel(<, Nat))
  BY NatLessThanWellFounded, WFMin
<1>2. \A m \in S : ~(m < n)
  <2> SUFFICES ASSUME NEW m \in S, m < n PROVE FALSE
    OBVIOUS
  <2>1. <<m, n>> \in OpToRel(<, Nat)
    BY DEF OpToRel
  <2> QED
    BY <1>1, <2>1
<1> QED
  BY <1>2

LEMMA AppendFacts ==
  ASSUME NEW s \in Seq(Jobs), IsInjective(s), NEW j \in Jobs, j \notin ToSet(s)
  PROVE  /\ Append(s, j) \in Seq(Jobs)
         /\ ToSet(Append(s, j)) = ToSet(s) \cup {j}
         /\ IsInjective(Append(s, j))
<1> DEFINE t == Append(s, j)
<1>1. /\ t \in Seq(Jobs) /\ DOMAIN t = DOMAIN s \cup {Len(s) + 1} /\ t[Len(s) + 1] = j
      /\ \A i \in DOMAIN s : t[i] = s[i]
  OBVIOUS
<1> HIDE DEF t
<1>2. ToSet(t) = ToSet(s) \cup {j}
  BY <1>1 DEF ToSet
<1>3. IsInjective(t)
  BY <1>1 DEF IsInjective, ToSet
<1> QED
  BY <1>1, <1>2, <1>3 DEF t

(* Two sequences without a common job, one behind the other.               *)
LEMMA ConcatFacts ==
  ASSUME NEW s \in Seq(Jobs), IsInjective(s), NEW t \in Seq(Jobs), IsInjective(t),
         ToSet(s) \cap ToSet(t) = {}
  PROVE  /\ s \o t \in Seq(Jobs)
         /\ ToSet(s \o t) = ToSet(s) \cup ToSet(t)
         /\ IsInjective(s \o t)
<1> DEFINE u == s \o t
<1>1. /\ u \in Seq(Jobs) /\ DOMAIN u = 1..(Len(s) + Len(t)) /\ DOMAIN s = 1..Len(s) /\ DOMAIN t = 1..Len(t)
      /\ Len(s) \in Nat /\ Len(t) \in Nat
      /\ \A i \in 1..Len(s) : u[i] = s[i]
      /\ \A i \in 1..Len(t) : u[Len(s) + i] = t[i]
  OBVIOUS
<1> HIDE DEF u
<1>2. \A k \in DOMAIN u : k \in 1..Len(s) \/ (k - Len(s) \in 1..Len(t) /\ Len(s) + (k - Len(s)) = k)
  BY <1>1
<1>3. \A k \in DOMAIN u : (k \in 1..Len(s) /\ u[k] = s[k]) \/ (k - Len(s) \in 1..Len(t) /\ u[k] = t[k - Len(s)])
  BY <1>1, <1>2
<1>4. \A i \in 1..Len(s) : i \in DOMAIN u
  BY <1>1
<1>5. \A i \in 1..Len(t) : Len(s) + i \in DOMAIN u
  BY <1>1
<1>6. ToSet(u) = ToSet(s) \cup ToSet(t)
  <2>1. \A k \in DOMAIN u : u[k] \in ToSet(s) \cup ToSet(t)
    BY <1>1, <1>3 DEF ToSet
  <2>2. \A i \in DOMAIN s : s[i] \in ToSet(u)
    BY <1>1, <1>4 DEF ToSet
  <2>3. \A i \in DOMAIN t : t[i] \in ToSet(u)
    BY <1>1, <1>5 DEF ToSet
  <2> QED
    BY <2>1, <2>2, <2>3 DEF ToSet
<1>7. IsInjective(u)
  <2> SUFFICES ASSUME NEW a \in DOMAIN u, NEW b \in DOMAIN u, u[a] = u[b] PROVE a = b
    BY DEF IsInjective
  <2>1. CASE a \in 1..Len(s) /\ b \in 1..Len(s)
    BY <1>1, <2>1 DEF IsInjective
  <2>2. CASE a - Len(s) \in 1..Len(t) /\ u[a] = t[a - Len(s)] /\ b - Len(s) \in 1..Len(t) /\ u[b] = t[b - Len(s)]
    <3>1. a - Len(s) = b - Len(s)
      BY <1>1, <2>2 DEF IsInjective
    <3> QED
      BY <1>1, <3>1
  <2>3. CASE a \in 1..Len(s) /\ u[a] = s[a] /\ b - Len(s) \in 1..Len(t) /\ u[b] = t[b - Len(s)]
    BY <1>1, <2>3 DEF ToSet
  <2>4. CASE b \in 1..Len(s) /\ u[b] = s[b] /\ a - Len(s) \in 1..Len(t) /\ u[a] = t[a - Len(s)]
    BY <1>1, <2>4 DEF ToSet
  <2> QED
    BY <1>3, <2>1, <2>2, <2>3, <2>4
<1> QED
  BY <1>1, <1>6, <1>7 DEF u

(* A part of a sequence.                                                   *)
LEMMA PartFacts ==
  ASSUME NEW s \in Seq(Jobs), IsInjective(s), NEW a \in 1..(Len(s) + 1), NEW b \in 0..Len(s), a <= b + 1
  PROVE  /\ SubSeq(s, a, b) \in Seq(Jobs) /\ Len(SubSeq(s, a, b)) = b - a + 1
         /\ ToSet(SubSeq(s, a, b)) \subseteq ToSet(s)
         /\ IsInjective(SubSeq(s, a, b))
<1> DEFINE u == SubSeq(s, a, b)
<1>1. /\ u \in Seq(Jobs) /\ Len(u) = b - a + 1 /\ DOMAIN u = 1..(b - a + 1) /\ DOMAIN s = 1..Len(s) /\ Len(s) \in Nat
      /\ \A i \in 1..(b - a + 1) : u[i] = s[a + i - 1]
  OBVIOUS
<1> HIDE DEF u
<1>2. \A i \in DOMAIN u : a + i - 1 \in DOMAIN s /\ i \in Int /\ u[i] = s[a + i - 1]
  BY <1>1
<1>3. ToSet(u) \subseteq ToSet(s)
  BY <1>2 DEF ToSet
<1>4. IsInjective(u)
  <2> SUFFICES ASSUME NEW i \in DOMAIN u, NEW k \in DOMAIN u, u[i] = u[k] PROVE i = k
    BY DEF IsInjective
  <2>1. a + i - 1 = a + k - 1
    BY <1>2 DEF IsInjective
  <2> QED
    BY <1>2, <2>1
<1> QED
  BY <1>1, <1>3, <1>4 DEF u

LEMMA LengthIsCount ==
  ASSUME NEW s \in Seq(Jobs), IsInjective(s)
  PROVE  IsFiniteSet(ToSet(s)) /\ Cardinality(ToSet(s)) = Len(s)
<1>1. Len(s) \in Nat /\ DOMAIN s = 1..Len(s)
  OBVIOUS
<1>2. IsFiniteSet(1..Len(s)) /\ Cardinality(1..Len(s)) = Len(s)
  <2>1. Cardinality(1..Len(s)) = IF 1 > Len(s) THEN 0 ELSE Len(s) - 1 + 1
    BY <1>1, FS_Interval
  <2>2. IsFiniteSet(1..Len(s))
    BY <1>1, FS_Interval
  <2> QED
    BY <1>1, <2>1, <2>2
<1>3. s \in [1..Len(s) -> ToSet(s)] /\ \A j \in ToSet(s) : \E i \in 1..Len(s) : s[i] = j
  BY <1>1 DEF ToSet
<1>4. s \in Surjection(1..Len(s), ToSet(s)) /\ s \in Injection(1..Len(s), ToSet(s))
  BY <1>1, <1>3 DEF Surjection, Injection, IsInjective
<1> QED
  BY <1>2, <1>4, FS_Surjection

LEMMA SetToSeqFacts ==
  ASSUME NEW S, S \subseteq Jobs
  PROVE  SetToSeq(S) \in Seq(Jobs) /\ ToSet(SetToSeq(S)) = S /\ IsInjective(SetToSeq(S))
<1>1. IsFiniteSet(S)
  BY VideoJobsAssumption, FS_Subset
<1> DEFINE N == Cardinality(S)
<1>2. N \in Nat
  BY <1>1, FS_CardinalityType
<1>3. \E f \in [1..N -> S] : IsInjective(f)
  <2>1. ExistsBijection(1..N, S)
    BY <1>1, FS_CardinalityType
  <2>2. PICK f \in Bijection(1..N, S) : TRUE
    BY <2>1 DEF ExistsBijection
  <2> HIDE DEF N
  <2>3. f \in [1..N -> S] /\ IsInjective(f)
    BY <2>2 DEF Bijection, Injection, IsInjective
  <2> QED
    BY <2>3
<1> DEFINE g == SetToSeq(S)
<1>4. g \in [1..N -> S] /\ IsInjective(g)
  BY <1>3 DEF SetToSeq
<1> HIDE DEF g, N
<1>5. g \in Seq(Jobs)
  BY <1>2, <1>4
<1>6. g \in Injection(1..N, S)
  BY <1>4 DEF Injection, IsInjective
<1>7. Cardinality(1..N) = N
  <2>1. Cardinality(1..N) = IF 1 > N THEN 0 ELSE N - 1 + 1
    BY <1>2, FS_Interval
  <2> QED
    BY <1>2, <2>1
<1>8. g \in Surjection(1..N, S)
  BY <1>1, <1>6, <1>7, FS_Injection DEF N
<1>9. ToSet(g) = S
  BY <1>4, <1>8 DEF Surjection, ToSet
<1> QED
  BY <1>4, <1>5, <1>9 DEF g

(* f[n] is what Without leaves of the first n elements of s.               *)
LeavesUpTo(s, S, f, n) ==
  /\ f \in [0..n -> Seq(Jobs)]
  /\ f[0] = <<>>
  /\ \A i \in 1..n : f[i] = IF s[i] \in S THEN f[i - 1] ELSE Append(f[i - 1], s[i])

LEMMA LeavesExist ==
  ASSUME NEW s \in Seq(Jobs), NEW S
  PROVE  \E f : LeavesUpTo(s, S, f, Len(s))
<1> DEFINE N == Len(s)
<1>0. N \in Nat /\ \A i \in 1..N : s[i] \in Jobs
  OBVIOUS
<1> HIDE DEF N
<1> DEFINE Bad == {n \in 0..N : ~ \E f : LeavesUpTo(s, S, f, n)}
<1> SUFFICES ASSUME Bad # {} PROVE FALSE
  <2>1. N \in 0..N
    BY <1>0
  <2> QED
    BY <2>1 DEF N
<1>1. PICK n \in Bad : \A m \in Bad : n <= m
  <2>1. Bad \subseteq Nat
    OBVIOUS
  <2> QED
    BY <2>1, LeastElement
<1>2. n # 0
  <2>1. LeavesUpTo(s, S, [i \in 0..0 |-> <<>>], 0)
    BY DEF LeavesUpTo
  <2> QED
    BY <2>1
<1>3. n \in 1..N /\ n - 1 \in 0..N /\ n - 1 \notin Bad
  BY <1>0, <1>1, <1>2
<1>4. PICK f : LeavesUpTo(s, S, f, n - 1)
  BY <1>3
<1> DEFINE new == IF s[n] \in S THEN f[n - 1] ELSE Append(f[n - 1], s[n])
<1> DEFINE g == [i \in 0..n |-> IF i = n THEN new ELSE f[i]]
<1>5. f \in [0..(n - 1) -> Seq(Jobs)] /\ n \in Nat \ {0} /\ s[n] \in Jobs
  <2>1. f \in [0..(n - 1) -> Seq(Jobs)]
    BY <1>4 DEF LeavesUpTo
  <2>2. n \in Nat \ {0} /\ s[n] \in Jobs
    BY <1>0, <1>3
  <2> QED
    BY <2>1, <2>2
<1>6. new \in Seq(Jobs)
  BY <1>5
<1>7. LeavesUpTo(s, S, g, n)
  <2>1. g \in [0..n -> Seq(Jobs)]
    <3> HIDE DEF new
    <3> QED
      BY <1>5, <1>6
  <2>2. \A i \in 1..n : g[i] = IF s[i] \in S THEN g[i - 1] ELSE Append(g[i - 1], s[i])
    <3> SUFFICES ASSUME NEW i \in 1..n PROVE g[i] = IF s[i] \in S THEN g[i - 1] ELSE Append(g[i - 1], s[i])
      OBVIOUS
    <3>1. i - 1 # n /\ i - 1 \in 0..n /\ i \in 0..n
      BY <1>5
    <3>2. g[i - 1] = f[i - 1]
      BY <3>1
    <3>3. CASE i = n
      BY <3>1, <3>2, <3>3
    <3>4. CASE i # n
      BY <1>4, <1>5, <3>1, <3>2, <3>4 DEF LeavesUpTo
    <3> QED
      BY <3>3, <3>4
  <2>3. g[0] = <<>>
    BY <1>4, <1>5 DEF LeavesUpTo
  <2> HIDE DEF g
  <2> QED
    BY <2>1, <2>2, <2>3 DEF LeavesUpTo
<1> QED
  BY <1>7

(* Without leaves the elements that are not in S, each as often as before. *)
LEMMA WithoutFacts ==
  ASSUME NEW s \in Seq(Jobs), IsInjective(s), NEW S
  PROVE  /\ Without(s, S) \in Seq(Jobs)
         /\ ToSet(Without(s, S)) = ToSet(s) \ S
         /\ IsInjective(Without(s, S))
<1> DEFINE N == Len(s)
<1>0. N \in Nat /\ DOMAIN s = 1..N /\ \A i \in 1..N : s[i] \in Jobs
  OBVIOUS
<1>1. PICK f : LeavesUpTo(s, S, f, N)
  BY LeavesExist
<1> HIDE DEF N
<1>2. f = [n \in 0..N |-> IF n = 0 THEN <<>> ELSE IF s[n] \in S THEN f[n - 1] ELSE Append(f[n - 1], s[n])]
  <2>1. \A n \in 0..N : f[n] = IF n = 0 THEN <<>> ELSE IF s[n] \in S THEN f[n - 1] ELSE Append(f[n - 1], s[n])
    <3> SUFFICES ASSUME NEW n \in 0..N
                 PROVE  f[n] = IF n = 0 THEN <<>> ELSE IF s[n] \in S THEN f[n - 1] ELSE Append(f[n - 1], s[n])
      OBVIOUS
    <3>1. n = 0 \/ n \in 1..N
      BY <1>0
    <3> QED
      BY <1>1, <3>1 DEF LeavesUpTo
  <2>2. f = [n \in 0..N |-> f[n]]
    BY <1>1 DEF LeavesUpTo
  <2> QED
    BY <2>1, <2>2
<1> DEFINE h == CHOOSE u : u = [n \in 0..N |-> IF n = 0 THEN <<>> ELSE IF s[n] \in S THEN u[n - 1] ELSE Append(u[n - 1], s[n])]
<1>3. h = [n \in 0..N |-> IF n = 0 THEN <<>> ELSE IF s[n] \in S THEN h[n - 1] ELSE Append(h[n - 1], s[n])]
  BY <1>2
<1>4. Without(s, S) = h[N]
  BY DEF Without, N
<1> HIDE DEF h
<1>5. \A n \in 0..N : h[n] = f[n]
  <2> DEFINE Bad == {n \in 0..N : h[n] # f[n]}
  <2> SUFFICES ASSUME Bad # {} PROVE FALSE
    OBVIOUS
  <2>1. PICK n \in Bad : \A m \in Bad : n <= m
    <3>1. Bad \subseteq Nat
      OBVIOUS
    <3> QED
      BY <3>1, LeastElement
  <2>2. n # 0 /\ n - 1 \in 0..N /\ n - 1 \notin Bad
    BY <1>0, <1>2, <1>3, <2>1
  <2> QED
    BY <1>2, <1>3, <2>2
<1>6. Without(s, S) = f[N]
  BY <1>0, <1>4, <1>5
<1> DEFINE First(n) == {s[i] : i \in 1..n}
<1> DEFINE Fine(n) == ToSet(f[n]) = First(n) \ S /\ IsInjective(f[n])
<1>7. \A n \in 0..N : Fine(n)
  <2> DEFINE Bad == {n \in 0..N : ~Fine(n)}
  <2> SUFFICES ASSUME Bad # {} PROVE FALSE
    OBVIOUS
  <2>1. PICK n \in Bad : \A m \in Bad : n <= m
    <3>1. Bad \subseteq Nat
      OBVIOUS
    <3> QED
      BY <3>1, LeastElement
  <2>2. n # 0
    <3>1. Fine(0)
      BY <1>1 DEF LeavesUpTo, ToSet, IsInjective
    <3> QED
      BY <2>1, <3>1
  <2>3. n \in 1..N /\ n - 1 \in 0..N /\ ~(n <= n - 1)
    BY <1>0, <2>1, <2>2
  <2>0. Fine(n - 1)
    <3> HIDE DEF Fine
    <3> QED
      BY <2>1, <2>3
  <2>4. ToSet(f[n - 1]) = First(n - 1) \ S /\ IsInjective(f[n - 1])
    BY <2>0
  <2>5. f[n] = IF s[n] \in S THEN f[n - 1] ELSE Append(f[n - 1], s[n])
    BY <1>1, <2>3 DEF LeavesUpTo
  <2>6. First(n) = First(n - 1) \cup {s[n]}
    <3>1. 1..n = (1..(n - 1)) \cup {n}
      BY <1>0, <2>3
    <3> QED
      BY <3>1
  <2>7. s[n] \notin First(n - 1)
    BY <1>0, <2>3 DEF IsInjective
  <2>8. f[n - 1] \in Seq(Jobs) /\ s[n] \in Jobs
    BY <1>0, <1>1, <2>3 DEF LeavesUpTo
  <2> HIDE DEF First
  <2>9. CASE s[n] \in S
    BY <2>1, <2>4, <2>5, <2>6, <2>9
  <2>10. CASE s[n] \notin S
    <3> DEFINE p == f[n - 1]
    <3>1. /\ f[n] = Append(p, s[n]) /\ p \in Seq(Jobs) /\ s[n] \notin ToSet(p) /\ IsInjective(p)
      BY <2>4, <2>5, <2>7, <2>8, <2>10
    <3> HIDE DEF p
    <3>2. ToSet(Append(p, s[n])) = ToSet(p) \cup {s[n]} /\ IsInjective(Append(p, s[n]))
      BY <2>8, <3>1, AppendFacts
    <3>3. Fine(n)
      BY <2>4, <2>6, <2>10, <3>1, <3>2 DEF p
    <3> QED
      BY <2>1, <3>3
  <2> QED
    BY <2>9, <2>10
<1>8. f[N] \in Seq(Jobs) /\ Fine(N)
  BY <1>0, <1>1, <1>7 DEF LeavesUpTo
<1>9. First(N) = ToSet(s)
  BY <1>0 DEF ToSet
<1> QED
  BY <1>6, <1>8, <1>9

-------------------------------------------------------------------------------
(* The store: what the rows and the history of the jobs have to do with    *)
(* each other.                                                             *)

Statuses == {"none", "processing", "success", "error", "cancelled"}

StoreTypes ==
  /\ row \in [Jobs -> Rows] /\ hist \in [Jobs -> Statuses]
  /\ rows \in Seq(Jobs) /\ IsInjective(rows)
  /\ ToSet(rows) = {j \in Jobs : row[j] \in Active \cup Terminal}
  /\ records \in Seq(Jobs) /\ IsInjective(records)
  /\ ToSet(records) = {j \in Jobs : hist[j] # "none"}
  /\ saving \in Jobs \cup {NoJob} /\ torn \subseteq Jobs /\ cleared \subseteq Jobs

(* What the history shows of a row.                                        *)
Shown(state) ==
  CASE state \in Active -> "processing"
    [] state \in Terminal -> Outcome(state)
    [] OTHER -> "none"

Agrees(j) ==
  \/ saving = j \/ pc[j] = "record"
  \/ hist[j] = Shown(row[j])
  \/ (torn # {} \/ j \in cleared) /\ hist[j] = "none"

(* A job is created once; finish() is half done for a settled row only,    *)
(* which may be gone since, but only torn; nothing but a tear settles a    *)
(* row that has no history yet.                                            *)
StoreInv ==
  /\ StoreTypes
  /\ \A j \in Jobs : (pc[j] = "none" <=> row[j] = "none") /\ (pc[j] = "none" => hist[j] = "none")
  /\ saving # NoJob => row[saving] \in Terminal \/ (row[saving] = "gone" /\ saving \in torn)
  /\ \A j \in Jobs \ torn : pc[j] = "record" => row[j] \in Active
  /\ \A j \in Jobs \ torn : Agrees(j)

(* The threads move, and no job begins or ends to be created.              *)
PcSteady == \A j \in Jobs : (pc'[j] = "none" <=> pc[j] = "none") /\ (pc'[j] = "record" <=> pc[j] = "record")

LEMMA OutcomeFacts ==
  /\ \A state \in Terminal : Outcome(state) \in Statuses \ {"none"} /\ Shown(state) = Outcome(state)
  /\ \A state \in Active : Shown(state) = "processing"
  /\ Shown("none") = "none" /\ Shown("gone") = "none" /\ Shown("failed") = "error"
<1>1. Outcome("complete") = "success" /\ Outcome("failed") = "error" /\ Outcome("cancelled") = "cancelled"
  BY DEF Outcome
<1>2. \A state \in Terminal : Outcome(state) \in Statuses \ {"none"}
  BY <1>1 DEF Terminal, Statuses
<1>3. \A state \in Terminal : Shown(state) = Outcome(state)
  BY StateFacts DEF Shown
<1>4. \A state \in Active : Shown(state) = "processing"
  BY StateFacts DEF Shown
<1>5. Shown("none") = "none" /\ Shown("gone") = "none"
  BY StateFacts DEF Shown
<1> QED
  BY <1>1, <1>2, <1>3, <1>4, <1>5 DEF Terminal

LEMMA JobIsNoJob == \A j \in Jobs : j # NoJob
BY VideoJobsAssumption

LEMMA InitStore == Init => StoreInv
<1> SUFFICES ASSUME Init PROVE StoreInv
  OBVIOUS
<1>1. <<>> \in Seq(Jobs) /\ ToSet(<<>>) = {} /\ IsInjective(<<>>)
  BY DEF ToSet, IsInjective
<1>2. StoreTypes
  BY <1>1, StateFacts DEF Init, StoreTypes, Rows, Statuses
<1> QED
  BY <1>2, OutcomeFacts DEF Init, StoreInv, Agrees

LEMMA SameStore ==
  ASSUME StoreInv, PcSteady, UNCHANGED <<row, rows, hist, records, saving, torn, cleared>>
  PROVE  StoreInv'
<1>1. StoreTypes'
  BY DEF StoreInv, StoreTypes
<1>2. \A j \in Jobs : Agrees(j) => Agrees(j)'
  BY DEF PcSteady, Agrees
<1> QED
  BY <1>1, <1>2 DEF StoreInv, PcSteady

LEMMA UpdateStore ==
  ASSUME StoreInv, PcSteady, NEW j \in Jobs, NEW state \in Active, Update(j, state), saving = NoJob
  PROVE  StoreInv'
<1>1. row \in [Jobs -> Rows] /\ row' \in [Jobs -> Rows] /\ UNCHANGED <<rows, hist, records, saving, torn, cleared>>
  BY UpdateFacts DEF StoreInv, StoreTypes, Update
<1>2. \A i \in Jobs : row'[i] # row[i] => row[i] \in Active /\ row'[i] \in Active
  BY <1>1, UpdateFacts
<1>3. \A i \in Jobs : (row'[i] \in Active <=> row[i] \in Active) /\ (row'[i] \in Terminal <=> row[i] \in Terminal)
                      /\ (row'[i] = "none" <=> row[i] = "none") /\ Shown(row'[i]) = Shown(row[i])
  BY <1>2, StateFacts, OutcomeFacts
<1>4. StoreTypes'
  BY <1>1, <1>3 DEF StoreInv, StoreTypes
<1>5. \A i \in Jobs : Agrees(i) => Agrees(i)'
  BY <1>1, <1>3 DEF PcSteady, Agrees
<1> QED
  BY <1>1, <1>3, <1>4, <1>5 DEF StoreInv, PcSteady

LEMMA FinishStore ==
  ASSUME StoreInv, PcSteady, NEW j \in Jobs, NEW state \in Terminal, Finish(j, state), saving = NoJob
  PROVE  StoreInv'
<1>1. CASE row[j] \notin Active
  BY <1>1, SameStore DEF Finish
<1>2. CASE row[j] \in Active
  <2>1. /\ row' = [row EXCEPT ![j] = state] /\ saving' = j /\ torn' = torn \cup {i \in {j} : pc[i] = "record" \/ saving = i}
        /\ UNCHANGED <<rows, hist, records, cleared>> /\ row \in [Jobs -> Rows]
    BY <1>2 DEF Finish, Tears, StoreInv, StoreTypes
  <2>2. /\ row'[j] = state /\ \A i \in Jobs : i # j => row'[i] = row[i]
        /\ row' \in [Jobs -> Rows]
    BY <2>1 DEF Rows
  <2>3. \A i \in Jobs : (row'[i] \in Active \cup Terminal <=> row[i] \in Active \cup Terminal)
                        /\ (row'[i] = "none" <=> row[i] = "none")
    BY <1>2, <2>2, StateFacts
  <2>4. StoreTypes'
    BY <2>1, <2>2, <2>3 DEF StoreInv, StoreTypes
  <2>5. torn \subseteq torn' /\ (pc[j] = "record" => j \in torn') /\ torn' \subseteq torn \cup {j}
    BY <2>1
  <2>6. \A i \in Jobs \ torn' : Agrees(i)'
    <3> SUFFICES ASSUME NEW i \in Jobs \ torn', i # j PROVE Agrees(i)'
      BY <2>1 DEF Agrees
    <3>1. Agrees(i) /\ row'[i] = row[i] /\ hist' = hist /\ cleared' = cleared /\ saving # i
      BY <2>1, <2>2, <2>5, JobIsNoJob DEF StoreInv
    <3> QED
      BY <2>5, <3>1 DEF Agrees, PcSteady
  <2>7. \A i \in Jobs \ torn' : pc'[i] = "record" => row'[i] \in Active
    BY <2>2, <2>5 DEF StoreInv, PcSteady
  <2> QED
    BY <2>1, <2>2, <2>3, <2>4, <2>6, <2>7 DEF StoreInv, PcSteady
<1> QED
  BY <1>1, <1>2

(* A job that is recorded gets a history row or keeps the one it has.      *)
LEMMA RecordFacts ==
  ASSUME StoreTypes, NEW S, S \subseteq Jobs, NEW status, \A j \in S : status[j] \in Statuses \ {"none"}, Record(S, status)
  PROVE  /\ hist' \in [Jobs -> Statuses] /\ \A j \in Jobs : hist'[j] = IF j \in S THEN status[j] ELSE hist[j]
         /\ records' \in Seq(Jobs) /\ IsInjective(records')
         /\ ToSet(records') = {j \in Jobs : hist'[j] # "none"}
         /\ cleared' = cleared \ S
<1>1. /\ hist' \in [Jobs -> Statuses] /\ \A j \in Jobs : hist'[j] = IF j \in S THEN status[j] ELSE hist[j]
      /\ cleared' = cleared \ S
  BY DEF Record, StoreTypes
<1> DEFINE new == S \ ToSet(records)
<1>2. SetToSeq(new) \in Seq(Jobs) /\ ToSet(SetToSeq(new)) = new /\ IsInjective(SetToSeq(new))
  BY SetToSeqFacts
<1>3. records \in Seq(Jobs) /\ IsInjective(records) /\ ToSet(records) \cap new = {} /\ records' = records \o SetToSeq(new)
  BY DEF Record, StoreTypes
<1> HIDE DEF new
<1>4. records' \in Seq(Jobs) /\ IsInjective(records') /\ ToSet(records') = ToSet(records) \cup new
  BY <1>2, <1>3, ConcatFacts
<1>5. ToSet(records) \cup new = {j \in Jobs : hist'[j] # "none"}
  BY <1>1 DEF StoreTypes, new
<1> QED
  BY <1>1, <1>4, <1>5

LEMMA FinishRecordsStore ==
  ASSUME StoreInv, FinishRecords
  PROVE  StoreInv'
<1>0. PICK state \in Terminal : /\ row[saving] \in Terminal => state = row[saving]
                                /\ Record({saving}, [j \in Jobs |-> Outcome(state)])
  BY DEF FinishRecords
<1> DEFINE status == [j \in Jobs |-> Outcome(state)]
<1>1. /\ saving \in Jobs /\ saving' = NoJob /\ Record({saving}, status)
      /\ row[saving] \in Terminal \/ (row[saving] = "gone" /\ saving \in torn)
      /\ UNCHANGED <<row, rows, torn, pc>>
  BY <1>0 DEF FinishRecords, StoreInv, StoreTypes, runVars
<1>2. \A j \in {saving} : status[j] = Outcome(state) /\ status[j] \in Statuses \ {"none"}
  BY <1>1, OutcomeFacts
<1> HIDE DEF status
<1>3. /\ hist' \in [Jobs -> Statuses] /\ \A j \in Jobs : hist'[j] = IF j = saving THEN Outcome(state) ELSE hist[j]
      /\ records' \in Seq(Jobs) /\ IsInjective(records')
      /\ ToSet(records') = {j \in Jobs : hist'[j] # "none"} /\ cleared' = cleared \ {saving}
  <2>1. StoreTypes /\ {saving} \subseteq Jobs
    BY <1>1 DEF StoreInv
  <2>2. \A j \in {saving} : status[j] \in Statuses \ {"none"}
    BY <1>2
  <2>3. /\ hist' \in [Jobs -> Statuses] /\ \A j \in Jobs : hist'[j] = IF j \in {saving} THEN status[j] ELSE hist[j]
        /\ records' \in Seq(Jobs) /\ IsInjective(records')
        /\ ToSet(records') = {j \in Jobs : hist'[j] # "none"} /\ cleared' = cleared \ {saving}
    BY <1>1, <2>1, <2>2, RecordFacts
  <2> QED
    BY <1>2, <2>3
<1>4. StoreTypes'
  BY <1>1, <1>3 DEF StoreInv, StoreTypes
<1>5. \A j \in Jobs \ torn : Agrees(j)'
  <2> SUFFICES ASSUME NEW j \in Jobs \ torn PROVE Agrees(j)'
    OBVIOUS
  <2>1. CASE j = saving
    BY <1>0, <1>1, <1>3, <2>1, OutcomeFacts DEF Agrees
  <2>2. CASE j # saving
    BY <1>1, <1>3, <2>2 DEF Agrees, StoreInv
  <2> QED
    BY <2>1, <2>2
<1>6. \A j \in Jobs : pc[j] = "none" => hist'[j] = "none"
  <2> SUFFICES ASSUME NEW j \in Jobs, pc[j] = "none" PROVE hist'[j] = "none"
    OBVIOUS
  <2>1. row[j] = "none" /\ hist[j] = "none"
    BY DEF StoreInv
  <2>2. j # saving
    BY <1>1, <2>1, StateFacts
  <2> QED
    BY <1>3, <2>1, <2>2
<1> QED
  BY <1>1, <1>4, <1>5, <1>6 DEF StoreInv

(* Rows go with their history, and no other history goes, or one is torn.  *)
LEMMA DropStore ==
  ASSUME StoreInv, PcSteady, NEW S, S \subseteq Jobs, \A j \in S : row[j] # "none",
         NEW left \in Seq(Jobs), IsInjective(left),
         ToSet(left) \subseteq ToSet(records) \ S, torn = {} => ToSet(left) = ToSet(records) \ S, Drop(S, left)
  PROVE  StoreInv'
<1>1. /\ row' = [j \in Jobs |-> IF j \in S THEN "gone" ELSE row[j]]
      /\ rows' = Without(rows, S) /\ records' = left
      /\ hist' = [j \in Jobs |-> IF j \in ToSet(left) THEN hist[j] ELSE "none"]
      /\ torn' = torn \cup {j \in S : pc[j] = "record" \/ saving = j}
      /\ saving' = saving /\ cleared' = cleared \ S
  BY DEF Drop, Tears
<1>2. saving \in Jobs /\ saving \in S => saving \in torn'
  BY <1>1
<1>3. rows' \in Seq(Jobs) /\ IsInjective(rows') /\ ToSet(rows') = ToSet(rows) \ S
  BY <1>1, WithoutFacts DEF StoreInv, StoreTypes
<1>4. /\ row' \in [Jobs -> Rows] /\ hist' \in [Jobs -> Statuses]
      /\ \A j \in Jobs : row'[j] = IF j \in S THEN "gone" ELSE row[j]
      /\ \A j \in Jobs : hist'[j] = IF j \in ToSet(left) THEN hist[j] ELSE "none"
  BY <1>1 DEF StoreInv, StoreTypes, Rows, Statuses
<1>5. ToSet(rows') = {j \in Jobs : row'[j] \in Active \cup Terminal}
  <2>1. \A j \in Jobs : row'[j] \in Active \cup Terminal <=> row[j] \in Active \cup Terminal /\ j \notin S
    BY <1>4, StateFacts
  <2> QED
    BY <1>3, <2>1 DEF StoreInv, StoreTypes
<1>6. ToSet(records') = {j \in Jobs : hist'[j] # "none"}
  <2>1. \A j \in ToSet(left) : j \in Jobs /\ hist[j] # "none"
    BY DEF StoreInv, StoreTypes
  <2>2. \A j \in Jobs : hist'[j] # "none" <=> j \in ToSet(left)
    BY <1>4, <2>1
  <2> QED
    BY <1>1, <2>1, <2>2
<1>7. StoreTypes'
  BY <1>1, <1>2, <1>3, <1>4, <1>5, <1>6 DEF StoreInv, StoreTypes
<1>8. \A j \in Jobs \ torn' : Agrees(j)'
  <2> SUFFICES ASSUME NEW j \in Jobs \ torn' PROVE Agrees(j)'
    OBVIOUS
  <2>1. j \notin torn /\ Agrees(j) /\ torn \subseteq torn'
    BY <1>1 DEF StoreInv
  <2>2. CASE j \in S
    BY <1>4, <2>2, OutcomeFacts DEF Agrees
  <2>3. CASE j \notin S /\ j \in ToSet(left)
    BY <1>1, <1>4, <2>1, <2>3 DEF Agrees, PcSteady
  <2>4. CASE j \notin S /\ j \notin ToSet(left)
    <3>1. hist'[j] = "none" /\ row'[j] = row[j]
      BY <1>4, <2>4
    <3>2. CASE torn # {}
      BY <2>1, <3>1, <3>2 DEF Agrees, PcSteady
    <3>3. CASE torn = {}
      <4>1. hist[j] = "none" /\ (j \in cleared => j \in cleared')
        BY <1>1, <2>4, <3>3 DEF StoreInv, StoreTypes
      <4> QED
        BY <1>1, <2>1, <3>1, <3>3, <4>1 DEF Agrees, PcSteady
    <3> QED
      BY <3>2, <3>3
  <2> QED
    BY <2>2, <2>3, <2>4
<1>9. \A j \in Jobs : (pc'[j] = "none" <=> row'[j] = "none") /\ (pc'[j] = "none" => hist'[j] = "none")
  <2>1. \A j \in S : row[j] # "none"
    OBVIOUS
  <2> QED
    BY <1>4, <2>1 DEF StoreInv, PcSteady
<1>11. saving' # NoJob => row'[saving'] \in Terminal \/ (row'[saving'] = "gone" /\ saving' \in torn')
  BY <1>1, <1>2, <1>4 DEF StoreInv, StoreTypes
<1>10. \A j \in Jobs \ torn' : pc'[j] = "record" => row'[j] \in Active
  BY <1>1, <1>4 DEF StoreInv, PcSteady
<1> QED
  BY <1>1, <1>7, <1>8, <1>9, <1>10, <1>11 DEF StoreInv

LEMMA PruneStore ==
  ASSUME StoreInv, PcSteady, saving = NoJob, Prune
  PROVE  StoreInv'
<1>1. CASE ~(Len(rows) > MaxKeep)
  BY <1>1, SameStore DEF Prune, storeVars
<1>2. CASE Len(rows) > MaxKeep
  <2> DEFINE old  == ToSet(SubSeq(rows, 1, Len(rows) - MaxKeep))
  <2> DEFINE rest == Without(records, old)
  <2> DEFINE left == IF Len(rest) > MaxKeep THEN SubSeq(rest, Len(rest) - MaxKeep + 1, Len(rest)) ELSE rest
  <2>1. Drop(old, left)
    BY <1>2 DEF Prune
  <2>2. MaxKeep \in Nat \ {0} /\ rows \in Seq(Jobs) /\ IsInjective(rows) /\ records \in Seq(Jobs) /\ IsInjective(records)
        /\ Len(rows) \in Nat
    BY VideoJobsAssumption DEF StoreInv, StoreTypes
  <2>3. old \subseteq ToSet(rows) /\ IsFiniteSet(old) /\ Cardinality(old) = Len(rows) - MaxKeep
    <3> DEFINE u == SubSeq(rows, 1, Len(rows) - MaxKeep)
    <3>1. 1 \in 1..(Len(rows) + 1) /\ Len(rows) - MaxKeep \in 0..Len(rows) /\ 1 <= (Len(rows) - MaxKeep) + 1
          /\ (Len(rows) - MaxKeep) - 1 + 1 = Len(rows) - MaxKeep
      BY <1>2, <2>2
    <3>2. u \in Seq(Jobs) /\ Len(u) = (Len(rows) - MaxKeep) - 1 + 1 /\ ToSet(u) \subseteq ToSet(rows) /\ IsInjective(u)
      BY <2>2, <3>1, PartFacts
    <3> HIDE DEF u
    <3>3. IsFiniteSet(ToSet(u)) /\ Cardinality(ToSet(u)) = Len(u)
      BY <3>2, LengthIsCount
    <3> QED
      BY <3>1, <3>2, <3>3 DEF u
  <2> HIDE DEF old
  <2>4. rest \in Seq(Jobs) /\ ToSet(rest) = ToSet(records) \ old /\ IsInjective(rest)
    BY <2>2, WithoutFacts
  <2> HIDE DEF rest
  <2>5. left \in Seq(Jobs) /\ IsInjective(left) /\ ToSet(left) \subseteq ToSet(rest)
    <3>1. CASE Len(rest) > MaxKeep
      <4>1. Len(rest) \in Nat
        BY <2>4
      <4>2. Len(rest) - MaxKeep + 1 \in 1..(Len(rest) + 1) /\ Len(rest) \in 0..Len(rest)
            /\ Len(rest) - MaxKeep + 1 <= Len(rest) + 1
        BY <2>2, <3>1, <4>1
      <4> QED
        BY <2>4, <3>1, <4>2, PartFacts
    <3>2. CASE ~(Len(rest) > MaxKeep)
      BY <2>4, <3>2
    <3> QED
      BY <3>1, <3>2
  <2>6. torn = {} => ToSet(left) = ToSet(rest)
    <3> SUFFICES ASSUME torn = {} PROVE left = rest
      OBVIOUS
    <3>1. ToSet(records) \subseteq ToSet(rows)
      <4> SUFFICES ASSUME NEW j \in Jobs, hist[j] # "none" PROVE row[j] \in Active \cup Terminal
        BY DEF StoreInv, StoreTypes
      <4>1. Agrees(j) /\ saving # j /\ row[j] \in Rows /\ (pc[j] = "record" => row[j] \in Active)
        BY JobIsNoJob DEF StoreInv, StoreTypes
      <4> QED
        BY <4>1, OutcomeFacts DEF Agrees, Rows
    <3>2. ToSet(rest) \subseteq ToSet(rows) \ old
      BY <2>4, <3>1
    <3>3. IsFiniteSet(ToSet(rows)) /\ Cardinality(ToSet(rows)) = Len(rows)
      BY <2>2, LengthIsCount
    <3>4. IsFiniteSet(ToSet(rows) \ old) /\ Cardinality(ToSet(rows) \ old) = MaxKeep
      <4>1. /\ IsFiniteSet(ToSet(rows) \ old)
            /\ Cardinality(ToSet(rows) \ old) = Cardinality(ToSet(rows)) - Cardinality(ToSet(rows) \cap old)
        BY <2>3, <3>3, FS_Difference
      <4>2. ToSet(rows) \cap old = old
        BY <2>3
      <4>3. Cardinality(ToSet(rows) \ old) = Len(rows) - (Len(rows) - MaxKeep)
        BY <2>3, <3>3, <4>1, <4>2
      <4>4. Len(rows) - (Len(rows) - MaxKeep) = MaxKeep
        BY <2>2
      <4> QED
        BY <4>1, <4>3, <4>4
    <3>5. Cardinality(ToSet(rest)) <= MaxKeep
      BY <3>2, <3>4, FS_Subset
    <3>6. Cardinality(ToSet(rest)) = Len(rest)
      BY <2>4, LengthIsCount
    <3>7. ~(Len(rest) > MaxKeep)
      <4>1. Len(rest) \in Nat
        BY <2>4
      <4> QED
        BY <2>2, <3>5, <3>6, <4>1
    <3> QED
      BY <3>7
  <2> HIDE DEF left
  <2>7. old \subseteq Jobs /\ \A j \in old : row[j] # "none"
    BY <2>3, StateFacts DEF StoreInv, StoreTypes
  <2> QED
    BY <2>1, <2>4, <2>5, <2>6, <2>7, DropStore
<1> QED
  BY <1>1, <1>2


LEMMA DeleteStore ==
  ASSUME StoreInv, NEW j \in Jobs, Delete(j)
  PROVE  StoreInv'
<1>1. row[j] \in Terminal /\ saving = NoJob /\ Drop({j}, Without(records, {j})) /\ PcSteady
  BY DEF Delete, runVars, PcSteady
<1>2. {j} \subseteq Jobs /\ \A i \in {j} : row[i] # "none"
  BY <1>1, StateFacts
<1>3. /\ Without(records, {j}) \in Seq(Jobs) /\ IsInjective(Without(records, {j}))
      /\ ToSet(Without(records, {j})) = ToSet(records) \ {j}
  BY WithoutFacts DEF StoreInv, StoreTypes
<1> QED
  BY <1>1, <1>2, <1>3, DropStore

LEMMA DeleteRecordStore ==
  ASSUME StoreInv, NEW j \in Jobs, DeleteRecord(j)
  PROVE  StoreInv'
<1>1. hist[j] # "none" /\ Drop({j}, Without(records, {j})) /\ PcSteady
  BY DEF DeleteRecord, Visit, runVars, PcSteady
<1>2. {j} \subseteq Jobs /\ \A i \in {j} : row[i] # "none"
  BY <1>1 DEF StoreInv
<1>3. /\ Without(records, {j}) \in Seq(Jobs) /\ IsInjective(Without(records, {j}))
      /\ ToSet(Without(records, {j})) = ToSet(records) \ {j}
  BY WithoutFacts DEF StoreInv, StoreTypes
<1> QED
  BY <1>1, <1>2, <1>3, DropStore

(* What is cleared is shown no more, and was shown as it was.              *)
LEMMA ClearHistoryStore ==
  ASSUME StoreInv, ClearHistory
  PROVE  StoreInv'
<1>1. /\ hist' = [j \in Jobs |-> "none"] /\ records' = <<>>
      /\ cleared' = cleared \cup ToSet(records)
      /\ UNCHANGED <<row, rows, saving, torn, pc>>
  BY DEF ClearHistory, Visit, runVars
<1>2. <<>> \in Seq(Jobs) /\ ToSet(<<>>) = {} /\ IsInjective(<<>>)
  BY DEF ToSet, IsInjective
<1>3. ToSet(records) = {j \in Jobs : hist[j] # "none"}
  BY DEF StoreInv, StoreTypes
<1>4. hist' \in [Jobs -> Statuses] /\ \A j \in Jobs : hist'[j] = "none"
  BY <1>1 DEF Statuses
<1>5. {j \in Jobs : hist'[j] # "none"} = {}
  BY <1>4
<1>6. StoreTypes'
  BY <1>1, <1>2, <1>3, <1>4, <1>5 DEF StoreInv, StoreTypes
<1>7. \A j \in Jobs : Agrees(j) => Agrees(j)'
  BY <1>1, <1>3, <1>4 DEF Agrees
<1> QED
  BY <1>1, <1>4, <1>6, <1>7 DEF StoreInv

LEMMA CreateStore ==
  ASSUME StoreInv, pc \in [Jobs -> Places], NEW j \in Jobs, Create(j)
  PROVE  StoreInv'
<1>1. /\ pc[j] = "none" /\ row[j] = "none" /\ hist[j] = "none" /\ saving = NoJob
      /\ row' = [row EXCEPT ![j] = "queued"] /\ rows' = Append(rows, j)
      /\ pc' = [pc EXCEPT ![j] = "record"] /\ UNCHANGED <<hist, records, saving, torn, cleared>>
  BY DEF Create, Goes, StoreInv
<1>2. "queued" \in Active /\ "queued" \in Rows
  BY DEF Active, Rows
<1>3. row' \in [Jobs -> Rows] /\ row'[j] = "queued" /\ \A i \in Jobs : i # j => row'[i] = row[i]
  BY <1>1, <1>2 DEF StoreInv, StoreTypes
<1>4. \A i \in Jobs : pc'[i] # pc[i] => i = j
  BY <1>1
<1>5. pc'[j] # "none" /\ \A i \in Jobs : pc'[i] = "none" => pc[i] = "none" /\ i # j
  BY <1>1, <1>4
<1>6. j \notin ToSet(rows)
  BY <1>1, StateFacts DEF StoreInv, StoreTypes
<1>7. rows' \in Seq(Jobs) /\ IsInjective(rows') /\ ToSet(rows') = ToSet(rows) \cup {j}
  BY <1>1, <1>6, AppendFacts DEF StoreInv, StoreTypes
<1>8. ToSet(rows') = {i \in Jobs : row'[i] \in Active \cup Terminal}
  BY <1>2, <1>3, <1>7 DEF StoreInv, StoreTypes
<1>9. StoreTypes'
  BY <1>1, <1>3, <1>7, <1>8 DEF StoreInv, StoreTypes
<1> QED
  BY <1>1, <1>2, <1>3, <1>4, <1>5, <1>9 DEF StoreInv, Agrees

LEMMA CreateRecordsStore ==
  ASSUME StoreInv, pc \in [Jobs -> Places], NEW j \in Jobs, CreateRecords(j)
  PROVE  StoreInv'
<1> DEFINE status == [i \in Jobs |-> "processing"]
<1>1. /\ pc[j] = "record" /\ pc' = [pc EXCEPT ![j] = "prune"] /\ Record({j}, status)
      /\ UNCHANGED <<row, rows, saving, torn>>
  BY DEF CreateRecords, Goes
<1>2. \A i \in {j} : status[i] = "processing" /\ status[i] \in Statuses \ {"none"}
  BY DEF Statuses
<1> HIDE DEF status
<1>3. /\ hist' \in [Jobs -> Statuses] /\ \A i \in Jobs : hist'[i] = IF i = j THEN "processing" ELSE hist[i]
      /\ records' \in Seq(Jobs) /\ IsInjective(records')
      /\ ToSet(records') = {i \in Jobs : hist'[i] # "none"} /\ cleared' = cleared \ {j}
  <2>1. StoreTypes /\ {j} \subseteq Jobs
    BY DEF StoreInv
  <2>2. \A i \in {j} : status[i] \in Statuses \ {"none"}
    BY <1>2
  <2>3. /\ hist' \in [Jobs -> Statuses] /\ \A i \in Jobs : hist'[i] = IF i \in {j} THEN status[i] ELSE hist[i]
        /\ records' \in Seq(Jobs) /\ IsInjective(records')
        /\ ToSet(records') = {i \in Jobs : hist'[i] # "none"} /\ cleared' = cleared \ {j}
    BY <1>1, <2>1, <2>2, RecordFacts
  <2> QED
    BY <1>2, <2>3
<1>4. StoreTypes'
  BY <1>1, <1>3 DEF StoreInv, StoreTypes
<1>5. pc'[j] = "prune" /\ \A i \in Jobs : i # j => pc'[i] = pc[i] /\ hist'[i] = hist[i]
  BY <1>1, <1>3
<1>6. \A i \in Jobs \ torn : Agrees(i)'
  <2> SUFFICES ASSUME NEW i \in Jobs \ torn PROVE Agrees(i)'
    OBVIOUS
  <2>1. CASE i = j
    <3>1. row[j] \in Active /\ hist'[j] = "processing"
      BY <1>1, <1>3, <2>1 DEF StoreInv
    <3> QED
      BY <1>1, <2>1, <3>1, OutcomeFacts DEF Agrees
  <2>2. CASE i # j
    BY <1>1, <1>3, <1>5, <2>2 DEF Agrees, StoreInv
  <2> QED
    BY <2>1, <2>2
<1>7. \A i \in Jobs : (pc'[i] = "none" <=> row'[i] = "none") /\ (pc'[i] = "none" => hist'[i] = "none")
  BY <1>1, <1>5 DEF StoreInv
<1> QED
  BY <1>1, <1>4, <1>5, <1>6, <1>7 DEF StoreInv

LEMMA RestartStore ==
  ASSUME StoreInv, Restart
  PROVE  StoreInv'
<1>1. PICK young \in SUBSET {j \in Jobs : row[j] \in Active} :
        LET old    == {j \in Jobs : row[j] \in Active} \ young
            failed == old \ Resumed(old)
        IN  /\ row' = [j \in Jobs |-> IF j \in failed THEN "failed"
                                      ELSE IF j \in old THEN "queued" ELSE row[j]]
            /\ Record(failed, [j \in Jobs |-> "error"])
            /\ RestartThreads(old)
  BY DEF Restart
<1> DEFINE old    == {j \in Jobs : row[j] \in Active} \ young
           failed == old \ Resumed(old)
           status == [j \in Jobs |-> "error"]
<1>2. /\ row' = [j \in Jobs |-> IF j \in failed THEN "failed" ELSE IF j \in old THEN "queued" ELSE row[j]]
      /\ Record(failed, status)
      /\ pc' = [j \in Jobs |-> IF row[j] = "none" THEN "none" ELSE "idle"]
  BY <1>1 DEF RestartThreads
<1>3. torn' = torn \cup {j \in Jobs : pc[j] = "record" \/ saving = j} /\ saving' = NoJob /\ rows' = rows
  BY DEF Restart
<1>4. failed \subseteq old /\ old \subseteq Jobs /\ \A j \in old : row[j] \in Active
  OBVIOUS
<1>5. \A j \in failed : status[j] = "error" /\ status[j] \in Statuses \ {"none"}
  BY <1>4 DEF Statuses
<1> HIDE DEF old, failed, status
<1>6. /\ hist' \in [Jobs -> Statuses] /\ \A j \in Jobs : hist'[j] = IF j \in failed THEN "error" ELSE hist[j]
      /\ records' \in Seq(Jobs) /\ IsInjective(records')
      /\ ToSet(records') = {j \in Jobs : hist'[j] # "none"} /\ cleared' = cleared \ failed
  <2>1. StoreTypes /\ failed \subseteq Jobs
    BY <1>4 DEF StoreInv
  <2>2. \A j \in failed : status[j] \in Statuses \ {"none"}
    BY <1>5
  <2>3. /\ hist' \in [Jobs -> Statuses] /\ \A j \in Jobs : hist'[j] = IF j \in failed THEN status[j] ELSE hist[j]
        /\ records' \in Seq(Jobs) /\ IsInjective(records')
        /\ ToSet(records') = {j \in Jobs : hist'[j] # "none"} /\ cleared' = cleared \ failed
    BY <1>2, <2>1, <2>2, RecordFacts
  <2> QED
    BY <1>5, <2>3
<1>7. "failed" \in Terminal /\ "failed" \in Rows /\ "queued" \in Active /\ "queued" \in Rows
  BY DEF Rows, Active, Terminal
<1>8. /\ row' \in [Jobs -> Rows]
      /\ \A j \in Jobs : row'[j] = IF j \in failed THEN "failed" ELSE IF j \in old THEN "queued" ELSE row[j]
  BY <1>2, <1>7 DEF StoreInv, StoreTypes
<1>9. \A j \in Jobs : /\ row'[j] \in Active \cup Terminal <=> row[j] \in Active \cup Terminal
                      /\ row'[j] = "none" <=> row[j] = "none"
  BY <1>4, <1>7, <1>8, StateFacts
<1>10. StoreTypes'
  <2>1. ToSet(rows') = {j \in Jobs : row'[j] \in Active \cup Terminal}
    BY <1>3, <1>9 DEF StoreInv, StoreTypes
  <2>2. /\ saving' \in Jobs \cup {NoJob} /\ torn' \subseteq Jobs /\ cleared' \subseteq Jobs
        /\ rows' \in Seq(Jobs) /\ IsInjective(rows')
    BY <1>3, <1>6 DEF StoreInv, StoreTypes
  <2> QED
    BY <1>6, <1>8, <2>1, <2>2 DEF StoreTypes
<1>11. \A j \in Jobs \ torn' : Agrees(j)'
  <2> SUFFICES ASSUME NEW j \in Jobs \ torn' PROVE Agrees(j)'
    OBVIOUS
  <2>1. /\ j \notin torn /\ torn \subseteq torn'
        /\ hist[j] = Shown(row[j]) \/ ((torn # {} \/ j \in cleared) /\ hist[j] = "none")
    BY <1>3 DEF StoreInv, Agrees
  <2>2. CASE j \in failed
    BY <1>6, <1>8, <2>2, OutcomeFacts DEF Agrees
  <2>3. CASE j \notin failed
    <3>1. hist'[j] = hist[j] /\ Shown(row'[j]) = Shown(row[j]) /\ (j \in cleared => j \in cleared')
      BY <1>4, <1>6, <1>7, <1>8, <2>3, OutcomeFacts
    <3> QED
      BY <2>1, <3>1 DEF Agrees
  <2> QED
    BY <2>2, <2>3
<1>12. \A j \in Jobs : pc'[j] # "record" /\ (pc'[j] = "none" <=> row'[j] = "none")
  BY <1>2, <1>9
<1>13. \A j \in Jobs : pc'[j] = "none" => hist'[j] = "none"
  <2> SUFFICES ASSUME NEW j \in Jobs, row[j] = "none" PROVE hist'[j] = "none"
    BY <1>9, <1>12
  <2>1. hist[j] = "none" /\ j \notin failed
    BY <1>4, StateFacts DEF StoreInv
  <2> QED
    BY <1>6, <2>1
<1> QED
  BY <1>3, <1>10, <1>11, <1>12, <1>13 DEF StoreInv

LEMMA NextStore == JobInv /\ StoreInv /\ [Next]_vars => StoreInv'
<1> SUFFICES ASSUME JobInv, StoreInv, [Next]_vars PROVE StoreInv'
  OBVIOUS
<1>0. pc \in [Jobs -> Places]
  BY DEF JobInv, RunTypes
<1>1. CASE FinishRecords
  BY <1>1, FinishRecordsStore
<1>2. CASE List
  <2>1. PcSteady /\ saving = NoJob /\ Prune
    BY <1>2 DEF List, runVars, PcSteady
  <2> QED
    BY <2>1, PruneStore
<1>3. CASE Restart
  BY <1>3, RestartStore
<1>4. ASSUME NEW j \in Jobs, Create(j) PROVE StoreInv'
  BY <1>0, <1>4, CreateStore
<1>5. ASSUME NEW j \in Jobs, CreateRecords(j) PROVE StoreInv'
  BY <1>0, <1>5, CreateRecordsStore
<1>6. ASSUME NEW j \in Jobs, CreatePrunes(j) PROVE StoreInv'
  <2>1. PcSteady /\ saving = NoJob /\ Prune
    BY <1>0, <1>6 DEF CreatePrunes, Goes, PcSteady
  <2> QED
    BY <2>1, PruneStore
<1>7. ASSUME NEW j \in Jobs, StartThread(j) PROVE StoreInv'
  <2>1. PcSteady /\ UNCHANGED <<row, rows, hist, records, saving, torn, cleared>>
    BY <1>0, <1>7 DEF StartThread, Goes, PcSteady, storeVars
  <2> QED
    BY <2>1, SameStore
<1>8. ASSUME NEW j \in Jobs, Check(j) PROVE StoreInv'
  <2>1. PcSteady /\ UNCHANGED <<row, rows, hist, records, saving, torn, cleared>>
    BY <1>0, <1>8 DEF Check, Goes, PcSteady, storeVars
  <2> QED
    BY <2>1, SameStore
<1>9. ASSUME NEW j \in Jobs, Register(j) PROVE StoreInv'
  <2>1. PcSteady /\ UNCHANGED <<row, rows, hist, records, saving, torn, cleared>>
    BY <1>0, <1>9 DEF Register, Goes, PcSteady, storeVars
  <2> QED
    BY <2>1, SameStore
<1>10. ASSUME NEW j \in Jobs, Recheck(j) PROVE StoreInv'
  <2>1. PcSteady /\ UNCHANGED <<row, rows, hist, records, saving, torn, cleared>>
    BY <1>0, <1>10 DEF Recheck, Goes, PcSteady, storeVars
  <2> QED
    BY <2>1, SameStore
<1>11. ASSUME NEW j \in Jobs, Progress(j) PROVE StoreInv'
  <2>1. PcSteady /\ saving = NoJob
    BY <1>11 DEF Progress, PcSteady, runVars
  <2>2. PICK state \in Active : Update(j, state)
    BY <1>11 DEF Progress
  <2> QED
    BY <2>1, <2>2, UpdateStore
<1>12. ASSUME NEW j \in Jobs, Complete(j) PROVE StoreInv'
  <2>1. PcSteady /\ saving = NoJob
    BY <1>0, <1>12 DEF Complete, Goes, PcSteady
  <2>2. PICK state \in Terminal : Finish(j, state)
    BY <1>12 DEF Complete
  <2> QED
    BY <2>1, <2>2, FinishStore
<1>13. ASSUME NEW j \in Jobs, MeetLimit(j) PROVE StoreInv'
  <2>1. PcSteady /\ saving = NoJob
    BY <1>0, <1>13 DEF MeetLimit, Goes, PcSteady
  <2>2. CASE Finish(j, "failed")
    <3>1. "failed" \in Terminal
      BY DEF Terminal
    <3> QED
      BY <2>1, <2>2, <3>1, FinishStore
  <2>3. CASE UNCHANGED storeVars
    BY <2>1, <2>3, SameStore DEF storeVars
  <2> QED
    BY <1>13, <2>2, <2>3 DEF MeetLimit
<1>14. ASSUME NEW j \in Jobs, Raise(j) PROVE StoreInv'
  <2>1. PcSteady /\ UNCHANGED <<row, rows, hist, records, saving, torn, cleared>>
    BY <1>0, <1>14 DEF Raise, PcSteady, storeVars
  <2> QED
    BY <2>1, SameStore
<1>15. ASSUME NEW j \in Jobs, Park(j) PROVE StoreInv'
  <2>1. PcSteady /\ saving = NoJob
    BY <1>0, <1>15 DEF Park, Goes, PcSteady
  <2>2. CASE Update(j, "queued")
    <3>1. "queued" \in Active
      BY DEF Active
    <3> QED
      BY <2>1, <2>2, <3>1, UpdateStore
  <2>3. CASE UNCHANGED storeVars
    BY <2>1, <2>3, SameStore DEF storeVars
  <2> QED
    BY <1>15, <2>2, <2>3 DEF Park
<1>16. ASSUME NEW j \in Jobs, Schedule(j) PROVE StoreInv'
  <2>1. PcSteady /\ UNCHANGED <<row, rows, hist, records, saving, torn, cleared>>
    BY <1>0, <1>16 DEF Schedule, Goes, PcSteady, storeVars
  <2> QED
    BY <2>1, SameStore
<1>17. ASSUME NEW j \in Jobs, Fail(j) PROVE StoreInv'
  <2>1. PcSteady /\ saving = NoJob
    BY <1>0, <1>17 DEF Fail, Goes, PcSteady
  <2>2. PICK state \in Terminal : Finish(j, state)
    BY <1>17 DEF Fail, Terminal
  <2> QED
    BY <2>1, <2>2, FinishStore
<1>18. ASSUME NEW j \in Jobs, Finally(j) PROVE StoreInv'
  <2>1. PcSteady /\ UNCHANGED <<row, rows, hist, records, saving, torn, cleared>>
    BY <1>0, <1>18 DEF Finally, Goes, PcSteady, storeVars
  <2> QED
    BY <2>1, SameStore
<1>19. ASSUME NEW j \in Jobs, TimerFires(j) PROVE StoreInv'
  <2>1. PcSteady /\ UNCHANGED <<row, rows, hist, records, saving, torn, cleared>>
    BY <1>0, <1>19 DEF TimerFires, Goes, PcSteady, storeVars
  <2> QED
    BY <2>1, SameStore
<1>20. ASSUME NEW j \in Jobs, Cancel(j) PROVE StoreInv'
  <2>1. PcSteady /\ UNCHANGED <<row, rows, hist, records, saving, torn, cleared>>
    BY <1>20 DEF Cancel, PcSteady, storeVars
  <2> QED
    BY <2>1, SameStore
<1>21. ASSUME NEW j \in Jobs, CancelTells(j) PROVE StoreInv'
  <2>1. PcSteady /\ UNCHANGED <<row, rows, hist, records, saving, torn, cleared>>
    BY <1>21 DEF CancelTells, PcSteady, storeVars
  <2> QED
    BY <2>1, SameStore
<1>22. ASSUME NEW j \in Jobs, CancelFinishes(j) PROVE StoreInv'
  <2>1. PcSteady /\ saving = NoJob /\ Finish(j, "cancelled") /\ "cancelled" \in Terminal
    BY <1>22 DEF CancelFinishes, PcSteady, Terminal
  <2> QED
    BY <2>1, FinishStore
<1>23. ASSUME NEW j \in Jobs, Delete(j) PROVE StoreInv'
  BY <1>23, DeleteStore
<1>24. CASE UNCHANGED vars
  <2>1. PcSteady /\ UNCHANGED <<row, rows, hist, records, saving, torn, cleared>>
    BY <1>24 DEF vars, storeVars, runVars, PcSteady
  <2> QED
    BY <2>1, SameStore
<1>25. ASSUME NEW j \in Jobs, DeleteRecord(j) PROVE StoreInv'
  BY <1>25, DeleteRecordStore
<1>26. CASE ClearHistory
  BY <1>26, ClearHistoryStore
<1> QED
  BY <1>1, <1>2, <1>3, <1>4, <1>5, <1>6, <1>7, <1>8, <1>9, <1>10, <1>11,
     <1>12, <1>13, <1>14, <1>15, <1>16, <1>17, <1>18, <1>19, <1>20, <1>21,
     <1>22, <1>23, <1>24, <1>25, <1>26 DEF Next, Queue, Run, Ends, Stop

LEMMA StoreInvariant == SafeSpec => []StoreInv
<1>1. JobInv /\ StoreInv /\ [Next]_vars => StoreInv'
  BY NextStore
<1> QED
  BY <1>1, InitStore, JobInvariant, PTL DEF SafeSpec

(* The flags of the threads, and the sets that record what happened.       *)
ThreadTypes ==
  /\ engine \in [Jobs -> BOOLEAN] /\ flag \in [Jobs -> BOOLEAN]
  /\ limited \subseteq Jobs /\ orphaned \subseteq Jobs /\ upsets \in 0..MaxUpsets

LEMMA ThreadStep == JobInv /\ ThreadTypes /\ [Next]_vars => ThreadTypes'
<1> SUFFICES ASSUME JobInv, ThreadTypes, [Next]_vars PROVE ThreadTypes'
  OBVIOUS
<1> USE DEF ThreadTypes, history, runVars
<1>0. known \in [Jobs -> BOOLEAN]
  BY DEF JobInv, RunTypes
<1>1. CASE FinishRecords
  BY <1>1 DEF FinishRecords
<1>2. CASE List
  BY <1>2 DEF List
<1>3. CASE Restart
  <2>1. upsets < MaxUpsets /\ upsets' = upsets + 1 /\ limited' = {} /\ MaxUpsets \in Nat
    BY <1>3, VideoJobsAssumption DEF Restart, Upset
  <2>2. upsets' \in 0..MaxUpsets
    BY <2>1
  <2>3. PICK young \in SUBSET {j \in Jobs : row[j] \in Active} :
          orphaned' = young /\ RestartThreads({j \in Jobs : row[j] \in Active} \ young)
    BY <1>3 DEF Restart
  <2>4. engine' \in [Jobs -> BOOLEAN] /\ flag' \in [Jobs -> BOOLEAN] /\ orphaned' \subseteq Jobs
    BY <2>3 DEF RestartThreads
  <2> QED
    BY <2>1, <2>2, <2>4
<1>4. ASSUME NEW j \in Jobs, Create(j) \/ CreateRecords(j) \/ CreatePrunes(j) \/ StartThread(j)
      PROVE  ThreadTypes'
  BY <1>4 DEF Create, CreateRecords, CreatePrunes, StartThread
<1>5. ASSUME NEW j \in Jobs, Check(j) \/ Register(j) \/ Finally(j) PROVE ThreadTypes'
  BY <1>5 DEF Check, Register, Finally
<1>6. ASSUME NEW j \in Jobs, Recheck(j) PROVE ThreadTypes'
  <2>1. flag' = [flag EXCEPT ![j] = flag[j] \/ Settled(j)] /\ UNCHANGED <<engine, limited, orphaned, upsets>>
    BY <1>6 DEF Recheck
  <2>2. (flag[j] \/ Settled(j)) \in BOOLEAN
    OBVIOUS
  <2> HIDE DEF Settled
  <2> QED
    BY <2>1, <2>2
<1>7. ASSUME NEW j \in Jobs, Progress(j) \/ Complete(j) \/ MeetLimit(j) \/ Raise(j) PROVE ThreadTypes'
  BY <1>7 DEF Progress, Complete, MeetLimit, Raise
<1>8. ASSUME NEW j \in Jobs, Park(j) \/ Schedule(j) \/ Fail(j) \/ TimerFires(j) PROVE ThreadTypes'
  BY <1>8 DEF Park, Schedule, Fail, TimerFires
<1>9. ASSUME NEW j \in Jobs, Cancel(j) \/ CancelFinishes(j) \/ Delete(j) PROVE ThreadTypes'
  BY <1>9 DEF Cancel, CancelFinishes, Delete
<1>10. ASSUME NEW j \in Jobs, CancelTells(j) PROVE ThreadTypes'
  <2>1. flag' = [flag EXCEPT ![j] = flag[j] \/ engine[j]] /\ UNCHANGED <<engine, limited, orphaned, upsets>>
    BY <1>10 DEF CancelTells
  <2>2. (flag[j] \/ engine[j]) \in BOOLEAN
    OBVIOUS
  <2> QED
    BY <2>1, <2>2
<1>11. CASE UNCHANGED vars
  BY <1>11 DEF vars
<1>12. ASSUME Visit PROVE ThreadTypes'
  BY <1>12, VideoJobsAssumption DEF Visit, Upset
<1> QED
  BY <1>1, <1>2, <1>3, <1>4, <1>5, <1>6, <1>7, <1>8, <1>9, <1>10, <1>11, <1>12
     DEF DeleteRecord, ClearHistory, Next, Queue, Run, Ends, Stop

LEMMA ThreadInvariant == SafeSpec => []ThreadTypes
<1>1. Init => ThreadTypes
  BY VideoJobsAssumption DEF Init, ThreadTypes
<1>2. JobInv /\ ThreadTypes /\ [Next]_vars => ThreadTypes'
  BY ThreadStep
<1> QED
  BY <1>1, <1>2, JobInvariant, PTL DEF SafeSpec

(* Every variable has its type: in particular a job never has two rows,    *)
(* nor two rows of the history, whatever is created, pruned, deleted and   *)
(* restarted in between.                                                   *)
THEOREM TypeCorrect == SafeSpec => []TypeOK
<1>1. JobInv /\ StoreInv /\ ThreadTypes => TypeOK
  BY DEF JobInv, RunTypes, StoreInv, StoreTypes, ThreadTypes, TypeOK, Rows, Places, Statuses
<1> QED
  BY <1>1, JobInvariant, StoreInvariant, ThreadInvariant, PTL

(* What the history shows of a job is what became of it, for any number of *)
(* jobs that finish, are cancelled, pruned and deleted in any order, from  *)
(* the page of the videos or of the history, unless a crash or a second    *)
(* writer, that page among them, came between the two writes; a record     *)
(* that was cleared shows nothing until the next outcome is written.       *)
THEOREM HistoryTrue == SafeSpec => []HistoryAgrees
<1>1. StoreInv => HistoryAgrees
  BY DEF StoreInv, Agrees, Shown, HistoryAgrees
<1> QED
  BY <1>1, StoreInvariant, PTL

-------------------------------------------------------------------------------
(* The life of each job.                                                   *)

Lives(j) == [Life(j)!Next]_(Life(j)!lifeVars)

(* The steps of a life in which nobody enters the job, nor retries it.     *)
LEMMA LifeSteps ==
  ASSUME NEW j \in Jobs, attempts'[j] = attempts[j], pc'[j] = "record" <=> pc[j] = "record",
         \/ /\ saving' = j <=> saving = j
            /\ \/ row'[j] = row[j] /\ hist'[j] \in {hist[j], "none"}
               \/ row[j] \in Active /\ row'[j] \in Active /\ hist'[j] = hist[j]
               \/ row[j] \in Active \cup Terminal /\ row'[j] = "gone" /\ hist'[j] = "none"
         \/ saving' = j /\ row[j] \in Active /\ row'[j] \in Terminal /\ hist'[j] = hist[j]
         \/ /\ saving = j /\ saving' # j /\ row'[j] = row[j]
            /\ \E state \in Terminal : row[j] \in {state, "gone"} /\ hist'[j] = Outcome(state)
  PROVE  Lives(j)
<1>0. (pc'[j] = "record") = (pc[j] = "record")
  OBVIOUS
<1>1. CASE /\ saving' = j <=> saving = j
           /\ \/ row'[j] = row[j] /\ hist'[j] \in {hist[j], "none"}
              \/ row[j] \in Active /\ row'[j] \in Active /\ hist'[j] = hist[j]
              \/ row[j] \in Active \cup Terminal /\ row'[j] = "gone" /\ hist'[j] = "none"
  <2>0. (saving' = j) = (saving = j)
    BY <1>1
  <2>1. CASE row'[j] = row[j] /\ hist'[j] = hist[j]
    BY <1>0, <2>0, <2>1 DEF Lives, Life!lifeVars
  <2>2. CASE row[j] \in Active /\ row'[j] \in Active /\ hist'[j] = hist[j]
    BY <1>0, <2>0, <2>2 DEF Lives, Active, Life!Next, Life!Work, Life!Active
  <2>3. CASE row'[j] = row[j] /\ hist'[j] = "none"
    BY <1>0, <2>0, <2>3 DEF Lives, Life!Next, Life!Forget
  <2>4. CASE row[j] \in Active \cup Terminal /\ row'[j] = "gone" /\ hist'[j] = "none"
    BY <1>0, <2>0, <2>4 DEF Lives, Active, Terminal, Life!Next, Life!Remove, Life!Active, Life!Settled
  <2>. QED
    BY <1>1, <2>1, <2>2, <2>3, <2>4
<1>2. CASE saving' = j /\ row[j] \in Active /\ row'[j] \in Terminal /\ hist'[j] = hist[j]
  <2>1. (saving' = j) = TRUE
    BY <1>2
  <2>. QED
    BY <1>0, <1>2, <2>1 DEF Lives, Active, Terminal, Life!Next, Life!Settle, Life!Active, Life!Settled
<1>3. CASE /\ saving = j /\ saving' # j /\ row'[j] = row[j]
           /\ \E state \in Terminal : row[j] \in {state, "gone"} /\ hist'[j] = Outcome(state)
  <2>1. PICK state \in Terminal : row[j] \in {state, "gone"} /\ hist'[j] = Outcome(state)
    BY <1>3
  <2>2. state \in Life(j)!Settled /\ Life(j)!Shows[state] = Outcome(state)
    BY DEF Outcome, Terminal, Life!Settled, Life!Shows
  <2>3. (saving' = j) = FALSE /\ (saving = j) = TRUE
    BY <1>3
  <2>. QED
    BY <1>0, <1>3, <2>1, <2>2, <2>3 DEF Lives, Life!Next, Life!Show
<1>. QED
  BY <1>1, <1>2, <1>3

(* A step that leaves the store alone, or changes one active row.          *)
LEMMA SameLives ==
  ASSUME PcSteady, UNCHANGED <<row, hist, attempts, saving>>
  PROVE  \A j \in Jobs : Lives(j)
BY LifeSteps DEF PcSteady

LEMMA UpdateLives ==
  ASSUME StoreInv, PcSteady, NEW j \in Jobs, NEW state \in Active, Update(j, state), attempts' = attempts
  PROVE  \A i \in Jobs : Lives(i)
<1>1. \A i \in Jobs : row'[i] # row[i] => row[i] \in Active /\ row'[i] \in Active
  BY UpdateFacts DEF StoreInv, StoreTypes
<1>2. hist' = hist /\ saving' = saving
  BY DEF Update
<1>. QED
  BY <1>1, <1>2, LifeSteps DEF PcSteady

LEMMA FinishLives ==
  ASSUME StoreInv, PcSteady, saving = NoJob, NEW j \in Jobs, NEW state \in Terminal, Finish(j, state)
  PROVE  \A i \in Jobs : Lives(i)
<1>1. row \in [Jobs -> Rows]
  BY DEF StoreInv, StoreTypes
<1>2. CASE row[j] \notin Active
  BY <1>2, SameLives DEF Finish
<1>3. CASE row[j] \in Active
  <2>1. row' = [row EXCEPT ![j] = state] /\ saving' = j /\ hist' = hist /\ attempts' = attempts
    BY <1>3 DEF Finish
  <2>2. row'[j] = state /\ \A i \in Jobs : i # j => row'[i] = row[i]
    BY <1>1, <2>1
  <2>3. \A i \in Jobs : i # j => (saving' = i <=> saving = i)
    BY <2>1, JobIsNoJob
  <2>4. \A i \in Jobs : i # j => Lives(i)
    BY <2>1, <2>2, <2>3, LifeSteps DEF PcSteady
  <2>5. Lives(j)
    BY <1>3, <2>1, <2>2, LifeSteps DEF PcSteady
  <2>. QED
    BY <2>4, <2>5
<1>. QED
  BY <1>2, <1>3

LEMMA DropLives ==
  ASSUME StoreInv, PcSteady, NEW S, S \subseteq Jobs, \A i \in S : row[i] # "none",
         NEW left, S \cap ToSet(left) = {}, Drop(S, left)
  PROVE  \A i \in Jobs : Lives(i)
<1>1. /\ \A i \in Jobs : row'[i] = IF i \in S THEN "gone" ELSE row[i]
      /\ \A i \in Jobs : hist'[i] = IF i \in ToSet(left) THEN hist[i] ELSE "none"
      /\ attempts' = attempts /\ saving' = saving
  BY DEF Drop
<1>2. \A i \in S : row[i] \in Active \cup Terminal \cup {"gone"}
  BY DEF StoreInv, StoreTypes, Rows
<1> SUFFICES ASSUME NEW i \in Jobs PROVE Lives(i)
  OBVIOUS
<1>3. /\ attempts'[i] = attempts[i] /\ (pc'[i] = "record" <=> pc[i] = "record")
      /\ saving' = i <=> saving = i
  BY <1>1 DEF PcSteady
<1>4. CASE i \in S
  <2>1. row'[i] = "gone" /\ hist'[i] = "none" /\ row[i] \in Active \cup Terminal \cup {"gone"}
    BY <1>1, <1>2, <1>4
  <2>. QED
    BY <1>3, <2>1, LifeSteps
<1>5. CASE i \notin S
  <2>1. row'[i] = row[i] /\ (hist'[i] = hist[i] \/ hist'[i] = "none")
    BY <1>1, <1>5
  <2>. QED
    BY <1>3, <2>1, LifeSteps
<1>. QED
  BY <1>4, <1>5

(* What is pruned of the history are the rows that go, and the oldest of   *)
(* what is left.                                                           *)
LEMMA PruneLives ==
  ASSUME StoreInv, PcSteady, Prune
  PROVE  \A i \in Jobs : Lives(i)
<1>1. CASE ~(Len(rows) > MaxKeep)
  BY <1>1, SameLives DEF Prune, storeVars
<1>2. CASE Len(rows) > MaxKeep
  <2> DEFINE old  == ToSet(SubSeq(rows, 1, Len(rows) - MaxKeep))
             rest == Without(records, old)
             left == IF Len(rest) > MaxKeep THEN SubSeq(rest, Len(rest) - MaxKeep + 1, Len(rest)) ELSE rest
  <2>1. Drop(old, left)
    BY <1>2 DEF Prune
  <2>2. /\ MaxKeep \in Nat \ {0} /\ rows \in Seq(Jobs) /\ IsInjective(rows)
        /\ records \in Seq(Jobs) /\ IsInjective(records) /\ Len(rows) \in Nat
    BY VideoJobsAssumption DEF StoreInv, StoreTypes
  <2>3. old \subseteq ToSet(rows)
    <3>1. 1 \in 1..(Len(rows) + 1) /\ Len(rows) - MaxKeep \in 0..Len(rows) /\ 1 <= (Len(rows) - MaxKeep) + 1
      BY <1>2, <2>2
    <3>. QED
      BY <2>2, <3>1, PartFacts
  <2> HIDE DEF old
  <2>4. rest \in Seq(Jobs) /\ ToSet(rest) = ToSet(records) \ old /\ IsInjective(rest)
    BY <2>2, WithoutFacts
  <2> HIDE DEF rest
  <2>5. ToSet(left) \subseteq ToSet(rest)
    <3>1. CASE Len(rest) > MaxKeep
      <4>1. Len(rest) \in Nat
        BY <2>4
      <4>2. Len(rest) - MaxKeep + 1 \in 1..(Len(rest) + 1) /\ Len(rest) \in 0..Len(rest)
            /\ Len(rest) - MaxKeep + 1 <= Len(rest) + 1
        BY <2>2, <3>1, <4>1
      <4>. QED
        BY <2>4, <3>1, <4>2, PartFacts
    <3>2. CASE ~(Len(rest) > MaxKeep)
      BY <3>2
    <3>. QED
      BY <3>1, <3>2
  <2> HIDE DEF left
  <2>6. old \cap ToSet(left) = {}
    BY <2>4, <2>5
  <2>7. old \subseteq Jobs /\ \A j \in old : row[j] # "none"
    BY <2>3, StateFacts DEF StoreInv, StoreTypes
  <2>. QED
    BY <2>1, <2>6, <2>7, DropLives
<1>. QED
  BY <1>1, <1>2

LEMMA DeleteLives ==
  ASSUME StoreInv, NEW j \in Jobs, Delete(j) \/ DeleteRecord(j)
  PROVE  \A i \in Jobs : Lives(i)
<1>1. Drop({j}, Without(records, {j})) /\ PcSteady
  BY DEF Delete, DeleteRecord, Visit, runVars, PcSteady
<1>2. {j} \subseteq Jobs /\ \A i \in {j} : row[i] # "none"
  BY StateFacts DEF Delete, DeleteRecord, StoreInv
<1>3. ToSet(Without(records, {j})) = ToSet(records) \ {j}
  BY WithoutFacts DEF StoreInv, StoreTypes
<1>. QED
  BY <1>1, <1>2, <1>3, DropLives

LEMMA ClearHistoryLives ==
  ASSUME ClearHistory
  PROVE  \A i \in Jobs : Lives(i)
<1>1. hist' = [j \in Jobs |-> "none"] /\ UNCHANGED <<row, attempts, saving, pc>>
  BY DEF ClearHistory, Visit, runVars
<1>. QED
  BY <1>1, LifeSteps

LEMMA FinishRecordsLives ==
  ASSUME StoreInv, FinishRecords
  PROVE  \A i \in Jobs : Lives(i)
<1>1. PICK state \in Terminal : /\ row[saving] \in Terminal => state = row[saving]
                                /\ Record({saving}, [j \in Jobs |-> Outcome(state)])
  BY DEF FinishRecords
<1>2. /\ saving \in Jobs /\ row[saving] \in {state, "gone"} /\ saving' = NoJob
      /\ UNCHANGED <<row, attempts, pc>>
  BY <1>1 DEF FinishRecords, StoreInv, StoreTypes, runVars
<1>3. \A i \in Jobs : hist'[i] = IF i = saving THEN Outcome(state) ELSE hist[i]
  BY <1>1 DEF Record
<1>4. \A i \in Jobs : i # saving => Lives(i)
  BY <1>2, <1>3, JobIsNoJob, LifeSteps
<1>5. ASSUME NEW i \in Jobs, i = saving PROVE Lives(i)
  <2>1. /\ saving = i /\ saving' # i /\ row'[i] = row[i] /\ attempts'[i] = attempts[i]
        /\ pc'[i] = "record" <=> pc[i] = "record"
    BY <1>2, <1>5, JobIsNoJob
  <2>2. row[i] \in {state, "gone"} /\ hist'[i] = Outcome(state)
    BY <1>2, <1>3, <1>5
  <2>. QED
    BY <2>1, <2>2, LifeSteps
<1>. QED
  BY <1>4, <1>5

LEMMA CreateLives ==
  ASSUME StoreInv, pc \in [Jobs -> Places], NEW j \in Jobs, Create(j)
  PROVE  \A i \in Jobs : Lives(i)
<1>1. /\ pc[j] = "none" /\ row[j] = "none" /\ row \in [Jobs -> Rows]
      /\ row' = [row EXCEPT ![j] = "queued"]
      /\ pc' = [pc EXCEPT ![j] = "record"] /\ UNCHANGED <<hist, attempts, saving>>
  BY DEF Create, Goes, StoreInv, StoreTypes
<1>2. \A i \in Jobs : i # j => Lives(i)
  BY <1>1, LifeSteps
<1>3. Lives(j)
  BY <1>1 DEF Lives, Life!Next, Life!Create
<1>. QED
  BY <1>2, <1>3

LEMMA CreateRecordsLives ==
  ASSUME StoreInv, pc \in [Jobs -> Places], NEW j \in Jobs, CreateRecords(j)
  PROVE  \A i \in Jobs : Lives(i)
<1>1. /\ pc[j] = "record" /\ pc' = [pc EXCEPT ![j] = "prune"] /\ UNCHANGED <<row, attempts, saving>>
      /\ \A i \in Jobs : hist'[i] = IF i = j THEN "processing" ELSE hist[i]
  BY DEF CreateRecords, Goes, Record
<1>2. \A i \in Jobs : i # j => Lives(i)
  BY <1>1, LifeSteps
<1>3. Lives(j)
  BY <1>1 DEF Lives, Life!Next, Life!Enter
<1>. QED
  BY <1>2, <1>3

LEMMA ParkLives ==
  ASSUME JobInv, StoreInv, NEW j \in Jobs, Park(j)
  PROVE  \A i \in Jobs : Lives(i)
<1>1. PcSteady /\ row \in [Jobs -> Rows] /\ attempts \in [Jobs -> 0..1]
  BY DEF Park, Goes, PcSteady, JobInv, RunTypes
<1>2. CASE UNCHANGED storeVars
  BY <1>1, <1>2, SameLives DEF storeVars
<1>3. CASE attempts[j] = 0 /\ Settled(j) /\ attempts' = attempts /\ Update(j, "queued")
  BY <1>1, <1>3, SameLives DEF Settled, Update
<1>4. CASE attempts[j] = 0 /\ ~Settled(j) /\ attempts' = [attempts EXCEPT ![j] = 1] /\ Update(j, "queued")
  <2>1. /\ row[j] \in Active /\ row'[j] = "queued" /\ attempts'[j] = 1
        /\ \A i \in Jobs : i # j => row'[i] = row[i] /\ attempts'[i] = attempts[i]
        /\ hist' = hist /\ saving' = saving /\ (pc'[j] = "record") = (pc[j] = "record")
    BY <1>1, <1>4 DEF Settled, Update, PcSteady
  <2>2. Lives(j)
    BY <1>4, <2>1 DEF Lives, Active, Life!Next, Life!Retry, Life!Active
  <2>3. \A i \in Jobs : i # j => Lives(i)
    BY <1>1, <2>1, LifeSteps DEF PcSteady
  <2>. QED
    BY <2>2, <2>3
<1>. QED
  BY <1>2, <1>3, <1>4 DEF Park

LEMMA RestartLives ==
  ASSUME JobInv, StoreInv, Restart
  PROVE  \A i \in Jobs : Lives(i)
<1> SUFFICES ASSUME NEW i \in Jobs PROVE Lives(i)
  OBVIOUS
<1>1. PICK young \in SUBSET {j \in Jobs : row[j] \in Active} :
        LET old    == {j \in Jobs : row[j] \in Active} \ young
            failed == old \ Resumed(old)
        IN  /\ row' = [j \in Jobs |-> IF j \in failed THEN "failed"
                                      ELSE IF j \in old THEN "queued" ELSE row[j]]
            /\ Record(failed, [j \in Jobs |-> "error"])
            /\ RestartThreads(old)
  BY DEF Restart
<1> DEFINE old    == {j \in Jobs : row[j] \in Active} \ young
           failed == old \ Resumed(old)
<1>2. /\ row'[i] = IF i \in failed THEN "failed" ELSE IF i \in old THEN "queued" ELSE row[i]
      /\ hist'[i] = IF i \in failed THEN "error" ELSE hist[i]
      /\ pc'[i] # "record" /\ attempts' = attempts /\ saving' = NoJob
  BY <1>1 DEF RestartThreads, Record, Restart
<1>3. attempts[i] \in 0..1 /\ (i \in old => row[i] \in Active) /\ (i \in failed <=> i \in old /\ attempts[i] # 1)
  BY DEF Resumed, JobInv, RunTypes
<1> HIDE DEF old, failed
<1>4. (pc'[i] = "record") = FALSE /\ (saving' = i) = FALSE
  BY <1>2, JobIsNoJob
<1>5. CASE i \in failed
  <2>1. /\ row[i] \in Active /\ attempts[i] = 0 /\ attempts'[i] = attempts[i]
        /\ row'[i] = "failed" /\ hist'[i] = "error"
    BY <1>2, <1>3, <1>5
  <2>. QED
    BY <1>4, <2>1 DEF Lives, Active, Life!Next, Life!Crash, Life!Active
<1>6. CASE i \in old /\ i \notin failed
  <2>1. /\ row[i] \in Active /\ attempts[i] = 1 /\ attempts'[i] = attempts[i]
        /\ row'[i] = "queued" /\ hist'[i] = hist[i]
    BY <1>2, <1>3, <1>6
  <2>. QED
    BY <1>4, <2>1 DEF Lives, Active, Life!Next, Life!Crash, Life!Active
<1>7. CASE i \notin old
  <2>1. row'[i] = row[i] /\ hist'[i] = hist[i] /\ attempts'[i] = attempts[i]
    BY <1>2, <1>3, <1>7
  <2>. QED
    BY <1>4, <2>1 DEF Lives, Life!Next, Life!Crash
<1>. QED
  BY <1>5, <1>6, <1>7

LEMMA LifeStep == JobInv /\ StoreInv /\ [Next]_vars => \A i \in Jobs : Lives(i)
<1> SUFFICES ASSUME JobInv, StoreInv, [Next]_vars PROVE \A i \in Jobs : Lives(i)
  OBVIOUS
<1> DEFINE goal == \A i \in Jobs : Lives(i)
<1>0. pc \in [Jobs -> Places]
  BY DEF JobInv, RunTypes
<1>1. CASE FinishRecords
  BY <1>1, FinishRecordsLives
<1>2. CASE List
  <2>1. PcSteady /\ Prune
    BY <1>2 DEF List, runVars, PcSteady
  <2>. QED
    BY <2>1, PruneLives
<1>3. CASE Restart
  BY <1>3, RestartLives
<1>4. ASSUME NEW j \in Jobs, Create(j) \/ CreateRecords(j) PROVE goal
  BY <1>0, <1>4, CreateLives, CreateRecordsLives
<1>5. ASSUME NEW j \in Jobs, CreatePrunes(j) PROVE goal
  <2>1. PcSteady /\ Prune
    BY <1>0, <1>5 DEF CreatePrunes, Goes, PcSteady
  <2>. QED
    BY <2>1, PruneLives
<1>6. ASSUME NEW j \in Jobs, StartThread(j) \/ Check(j) \/ Register(j) \/ Recheck(j) PROVE goal
  <2>1. PcSteady /\ UNCHANGED <<row, hist, attempts, saving>>
    BY <1>0, <1>6 DEF StartThread, Check, Register, Recheck, Goes, PcSteady, storeVars
  <2>. QED
    BY <2>1, SameLives
<1>7. ASSUME NEW j \in Jobs, Raise(j) \/ Schedule(j) \/ Finally(j) \/ TimerFires(j) PROVE goal
  <2>1. PcSteady /\ UNCHANGED <<row, hist, attempts, saving>>
    BY <1>0, <1>7 DEF Raise, Schedule, Finally, TimerFires, Goes, PcSteady, storeVars
  <2>. QED
    BY <2>1, SameLives
<1>8. ASSUME NEW j \in Jobs, Cancel(j) \/ CancelTells(j) PROVE goal
  <2>1. PcSteady /\ UNCHANGED <<row, hist, attempts, saving>>
    BY <1>8 DEF Cancel, CancelTells, PcSteady, storeVars
  <2>. QED
    BY <2>1, SameLives
<1>9. ASSUME NEW j \in Jobs, Progress(j) PROVE goal
  <2>1. PcSteady /\ attempts' = attempts
    BY <1>9 DEF Progress, PcSteady, runVars
  <2>2. PICK state \in Active : Update(j, state)
    BY <1>9 DEF Progress
  <2>. QED
    BY <2>1, <2>2, UpdateLives
<1>10. ASSUME NEW j \in Jobs, Complete(j) \/ Fail(j) \/ CancelFinishes(j) PROVE goal
  <2>1. PcSteady /\ saving = NoJob
    BY <1>0, <1>10 DEF Complete, Fail, CancelFinishes, Goes, PcSteady
  <2>2. PICK state \in Terminal : Finish(j, state)
    BY <1>10 DEF Complete, Fail, CancelFinishes, Terminal
  <2>. QED
    BY <2>1, <2>2, FinishLives
<1>11. ASSUME NEW j \in Jobs, MeetLimit(j) PROVE goal
  <2>1. PcSteady /\ saving = NoJob
    BY <1>0, <1>11 DEF MeetLimit, Goes, PcSteady
  <2>2. CASE Finish(j, "failed")
    <3>1. "failed" \in Terminal
      BY DEF Terminal
    <3>. QED
      BY <2>1, <2>2, <3>1, FinishLives
  <2>3. CASE UNCHANGED storeVars
    BY <2>1, <2>3, SameLives DEF storeVars
  <2>. QED
    BY <1>11, <2>2, <2>3 DEF MeetLimit
<1>12. ASSUME NEW j \in Jobs, Park(j) PROVE goal
  BY <1>12, ParkLives
<1>13. ASSUME NEW j \in Jobs, Delete(j) \/ DeleteRecord(j) PROVE goal
  BY <1>13, DeleteLives
<1>14. CASE UNCHANGED vars
  <2>1. PcSteady /\ UNCHANGED <<row, hist, attempts, saving>>
    BY <1>14 DEF vars, storeVars, runVars, PcSteady
  <2>. QED
    BY <2>1, SameLives
<1>16. CASE ClearHistory
  BY <1>16, ClearHistoryLives
<1> HIDE DEF goal
<1>15. goal
  BY <1>1, <1>2, <1>3, <1>4, <1>5, <1>6, <1>7, <1>8, <1>9, <1>10, <1>11, <1>12, <1>13, <1>14, <1>16
     DEF Next, Queue, Run, Ends, Stop, goal
<1>. QED
  BY <1>15 DEF goal

(* Whatever the threads, timers, cancellations and restarts of any number  *)
(* of jobs do, the life of each of them is one that VideoLifecycle allows. *)
THEOREM LivesAreLegal == SafeSpec => EachJobLives
<1>1. Init => \A j \in Jobs : Life(j)!Init
  BY JobIsNoJob DEF Init, Life!Init
<1>2. JobInv /\ StoreInv /\ [Next]_vars => [\A j \in Jobs : [Life(j)!Next]_(Life(j)!lifeVars)]_vars
  BY LifeStep DEF Lives
<1>. QED
  BY <1>1, <1>2, JobInvariant, StoreInvariant, PTL DEF SafeSpec, EachJobLives

(* VideoJobs implements VideoLifecycle, once for each job.                 *)
THEOREM Implementation == \A j \in Jobs : SafeSpec => Life(j)!Spec
<1>. SUFFICES ASSUME NEW j \in Jobs PROVE SafeSpec => Life(j)!Spec
  OBVIOUS
<1>1. Init => Life(j)!Init
  BY JobIsNoJob DEF Init, Life!Init
<1>2. JobInv /\ StoreInv /\ [Next]_vars => [Life(j)!Next]_(Life(j)!lifeVars)
  BY LifeStep DEF Lives
<1>. QED
  BY <1>1, <1>2, JobInvariant, StoreInvariant, PTL DEF SafeSpec, Life!Spec
===============================================================================
