--------------------------- MODULE ModelLeasesProofs ---------------------------
(***************************************************************************)
(* Proofs about the model leases, for any kinds, engines and leases and    *)
(* any number of threads that release one lease.                           *)
(***************************************************************************)
EXTENDS ModelLeases, FiniteSetTheorems, TLAPS

(* A thread counts down a lease only after the flag was set, so the flag   *)
(* keeps every other thread from doing it again.                           *)
FlagFirst == \A l \in Leases : counting[l] > 0 => l \in released

LeaseInv == TypeOK /\ FlagFirst

LEMMA LeaseInit == Init => LeaseInv
<1>1. ASSUME Init PROVE TypeOK
  <2>1. 0 \in 0..MaxReleases /\ 0 \in 0..MaxRequests /\ 0 \in 0..MaxRefusals
    BY LeaseAssumption
  <2>2. /\ counting \in [Leases -> 0..1]
        /\ calls \in [Leases -> 0..MaxReleases]
        /\ active \in [Kinds -> Nat]
    BY <1>1, <2>1 DEF Init
  <2>. QED
    BY <1>1, <2>1, <2>2 DEF Init, TypeOK
<1>2. Init => FlagFirst
  BY DEF Init, FlagFirst
<1>. QED
  BY <1>1, <1>2 DEF LeaseInv

LEMMA LeaseStep == LeaseInv /\ [Next]_vars => LeaseInv'
<1> SUFFICES ASSUME LeaseInv, [Next]_vars PROVE LeaseInv'
  OBVIOUS
<1> USE LeaseAssumption DEF LeaseInv, TypeOK, FlagFirst
<1>1. ASSUME NEW l \in Leases, Acquire(l) PROVE LeaseInv'
  <2>1. KindOf[l] \in Kinds /\ active[KindOf[l]] \in Nat
    OBVIOUS
  <2>2. active' \in [Kinds -> Nat] /\ acquired' \subseteq Leases
    BY <1>1, <2>1 DEF Acquire
  <2>3. requested' \subseteq Kinds /\ immediate' \subseteq Kinds /\ deferred' \subseteq Kinds
    BY <1>1 DEF Acquire, demandVars
  <2>. QED
    BY <1>1, <2>2, <2>3 DEF Acquire, workerVars
<1>2. ASSUME NEW e \in Engines, Load(e) PROVE LeaseInv'
  BY <1>2 DEF Load, leaseVars, demandVars, workerVars
<1>3. ASSUME NEW l \in Leases, Flag(l) PROVE LeaseInv'
  <2>1. calls' \in [Leases -> 0..MaxReleases] /\ released' \subseteq acquired'
    BY <1>3 DEF Flag
  <2>2. CASE l \in released
    BY <1>3, <2>1, <2>2 DEF Flag, demandVars, workerVars
  <2>3. CASE l \notin released
    <3>1. counting[l] = 0
      BY <2>3
    <3>2. counting' \in [Leases -> 0..1] /\ \A m \in Leases : m # l => counting'[m] = counting[m]
      BY <1>3, <2>3, <3>1 DEF Flag
    <3>. QED
      BY <1>3, <2>1, <3>2 DEF Flag, demandVars, workerVars
  <2>. QED
    BY <2>2, <2>3
<1>4. ASSUME NEW l \in Leases, NEW grace \in BOOLEAN, CountDown(l, grace) PROVE LeaseInv'
  <2>1. KindOf[l] \in Kinds /\ active[KindOf[l]] \in Nat
    OBVIOUS
  <2>2. active' \in [Kinds -> Nat]
    BY <1>4, <2>1 DEF CountDown
  <2>3. counting' \in [Leases -> 0..1] /\ \A m \in Leases : counting'[m] > 0 => counting[m] > 0
    BY <1>4 DEF CountDown
  <2>4. requested' \subseteq Kinds /\ deferred' \subseteq Kinds
    BY <1>4, <2>1 DEF CountDown, DemandEnds
  <2>. QED
    BY <1>4, <2>2, <2>3, <2>4 DEF CountDown, workerVars
<1>5. ASSUME NEW k \in Kinds, RequestCleanup(k) PROVE LeaseInv'
  BY <1>5 DEF RequestCleanup, leaseVars, workerVars
<1>6. ASSUME NEW k \in Kinds, GraceEnds(k) PROVE LeaseInv'
  BY <1>6 DEF GraceEnds, leaseVars, workerVars
<1>7. CASE RoundBegins
  BY <1>7 DEF RoundBegins, leaseVars, demandVars
<1>8. ASSUME NEW k \in Kinds, Examine(k) PROVE LeaseInv'
  <2>1. CASE PassedOver(k)
    BY <1>8, <2>1 DEF Examine, leaseVars, demandVars
  <2>2. CASE ~PassedOver(k)
    <3>1. cleaning' \subseteq Kinds /\ todo' \subseteq Engines
      BY <1>8, <2>2 DEF Examine, OfKind
    <3>2. forced' \in BOOLEAN /\ complete' \in BOOLEAN
      BY <1>8, <2>2 DEF Examine
    <3>3. round' \subseteq Kinds
      BY <1>8 DEF Examine
    <3>. QED
      BY <1>8, <3>1, <3>2, <3>3 DEF Examine, leaseVars, demandVars
  <2>. QED
    BY <2>1, <2>2
<1>9. ASSUME NEW e \in Engines, CallEngine(e) PROVE LeaseInv'
  BY <1>9 DEF CallEngine, leaseVars, demandVars
<1>10. ASSUME NEW e \in Engines, EngineRefuses(e) PROVE LeaseInv'
  <2>1. refusals' \in 0..MaxRefusals
    BY <1>10 DEF EngineRefuses
  <2>. QED
    BY <1>10, <2>1 DEF EngineRefuses, leaseVars, demandVars
<1>11. ASSUME NEW k \in Kinds, CleaningEnds(k) PROVE LeaseInv'
  BY <1>11 DEF CleaningEnds, leaseVars, demandVars
<1>12. CASE UNCHANGED vars
  BY <1>12 DEF vars, leaseVars, demandVars, workerVars
<1>. QED
  BY <1>1, <1>2, <1>3, <1>4, <1>5, <1>6, <1>7, <1>8, <1>9, <1>10, <1>11, <1>12 DEF Next, Worker

LEMMA LeaseInvariant == SafeSpec => []LeaseInv
  BY LeaseInit, LeaseStep, PTL DEF SafeSpec

(* Every reachable state is well typed; in particular no lease is ever     *)
(* counted down by two threads at once, however many release it.           *)
THEOREM TypeCorrect == SafeSpec => []TypeOK
<1>1. LeaseInv => TypeOK
  BY DEF LeaseInv
<1>. QED
  BY <1>1, LeaseInvariant, PTL

-------------------------------------------------------------------------------
(* The count.                                                              *)

(* What a release does to the users of a kind: the thread that counts it   *)
(* down takes one out.                                                     *)
LEMMA UsersAreFinite == ASSUME TypeOK, NEW k \in Kinds PROVE IsFiniteSet(Users(k))
  BY FS_Subset, LeaseAssumption DEF TypeOK, Users, OfKind

(* Taking a lease adds a user.                                             *)
LEMMA AcquireCounts ==
  ASSUME LeaseInv, ActiveCountsUsers, NEW l \in Leases, Acquire(l)
  PROVE  ActiveCountsUsers'
<1> USE LeaseAssumption DEF LeaseInv, TypeOK
<1>1. ASSUME NEW k \in Kinds PROVE active'[k] = Cardinality(Users(k)')
  <2>0. IsFiniteSet(Users(k)) /\ active[k] = Cardinality(Users(k)) /\ active[k] \in Nat
    BY UsersAreFinite DEF ActiveCountsUsers
  <2>1. CASE k = KindOf[l]
    <3>1. l \notin Users(k)
      BY DEF Acquire, Users, OfKind
    <3>2. Users(k)' = Users(k) \cup {l}
      BY <2>1 DEF Acquire, Users, OfKind, FlagFirst
    <3>3. Cardinality(Users(k) \cup {l}) = Cardinality(Users(k)) + 1
      BY <2>0, <3>1, FS_AddElement
    <3>4. active'[k] = active[k] + 1
      BY <2>1 DEF Acquire
    <3>. QED
      BY <2>0, <3>2, <3>3, <3>4
  <2>2. CASE k # KindOf[l]
    <3>1. Users(k)' = Users(k) /\ active'[k] = active[k]
      BY <2>2 DEF Acquire, Users, OfKind
    <3>. QED
      BY <2>0, <3>1
  <2>. QED
    BY <2>1, <2>2
<1>. QED
  BY <1>1 DEF ActiveCountsUsers

(* Setting the flag of a lease leaves it a user until it is counted down.  *)
LEMMA FlagCounts ==
  ASSUME LeaseInv, ActiveCountsUsers, NEW l \in Leases, Flag(l)
  PROVE  ActiveCountsUsers'
<1> USE LeaseAssumption DEF LeaseInv, TypeOK
<1>1. counting[l] \in 0..1 /\ (l \notin released => counting'[l] > 0)
  BY DEF Flag
<1>2. ASSUME NEW k \in Kinds PROVE Users(k)' = Users(k)
  <2>1. CASE l \in released
    <3>1. released' = released /\ counting' = counting /\ acquired' = acquired
      BY <2>1 DEF Flag
    <3>. QED
      BY <3>1 DEF Users, OfKind
  <2>2. CASE l \notin released
    <3>1. released' = released \cup {l} /\ acquired' = acquired
      BY DEF Flag
    <3>2. \A m \in Leases : m # l => counting'[m] = counting[m]
      BY <2>2 DEF Flag
    <3>. QED
      BY <1>1, <2>2, <3>1, <3>2 DEF Users, OfKind
  <2>. QED
    BY <2>1, <2>2
<1>. QED
  BY <1>2 DEF ActiveCountsUsers, Flag

(* Counting a lease down takes one user out.                               *)
LEMMA CountDownCounts ==
  ASSUME LeaseInv, ActiveCountsUsers, NEW l \in Leases, NEW grace \in BOOLEAN, CountDown(l, grace)
  PROVE  ActiveCountsUsers'
<1> USE LeaseAssumption DEF LeaseInv, TypeOK
<1>1. counting[l] = 1 /\ counting'[l] = 0 /\ \A m \in Leases : m # l => counting'[m] = counting[m]
  BY DEF CountDown
<1>2. l \in released /\ l \in acquired /\ released' = released /\ acquired' = acquired
  BY <1>1 DEF FlagFirst, CountDown
<1>3. ASSUME NEW k \in Kinds PROVE active'[k] = Cardinality(Users(k)')
  <2>0. IsFiniteSet(Users(k)) /\ active[k] = Cardinality(Users(k)) /\ active[k] \in Nat
    BY UsersAreFinite DEF ActiveCountsUsers
  <2>1. CASE k = KindOf[l]
    <3>1. l \in Users(k)
      BY <1>1, <1>2, <2>1 DEF Users, OfKind
    <3>2. Users(k)' = Users(k) \ {l}
      BY <1>1, <1>2 DEF Users, OfKind
    <3>3. Cardinality(Users(k) \ {l}) = Cardinality(Users(k)) - 1
      BY <2>0, <3>1, FS_RemoveElement
    <3>4. Users(k) # {} /\ Cardinality(Users(k)) # 0
      BY <2>0, <3>1, FS_EmptySet
    <3>5. active'[k] = active[k] - 1
      BY <2>0, <2>1, <3>4 DEF CountDown
    <3>. QED
      BY <2>0, <3>2, <3>3, <3>5
  <2>2. CASE k # KindOf[l]
    <3>1. Users(k)' = Users(k)
      BY <1>1, <1>2, <2>2 DEF Users, OfKind
    <3>2. active'[k] = active[k]
      BY <2>2 DEF CountDown
    <3>. QED
      BY <2>0, <3>1, <3>2
  <2>. QED
    BY <2>1, <2>2
<1>. QED
  BY <1>3 DEF ActiveCountsUsers

LEMMA CountStep == LeaseInv /\ ActiveCountsUsers /\ [Next]_vars => ActiveCountsUsers'
<1> SUFFICES ASSUME LeaseInv, ActiveCountsUsers, [Next]_vars PROVE ActiveCountsUsers'
  OBVIOUS
<1>1. CASE UNCHANGED leaseVars /\ UNCHANGED active
  BY <1>1 DEF leaseVars, ActiveCountsUsers, Users, OfKind
<1>2. ASSUME NEW l \in Leases, Acquire(l) PROVE ActiveCountsUsers'
  BY <1>2, AcquireCounts
<1>3. ASSUME NEW l \in Leases, Flag(l) PROVE ActiveCountsUsers'
  BY <1>3, FlagCounts
<1>4. ASSUME NEW l \in Leases, NEW grace \in BOOLEAN, CountDown(l, grace) PROVE ActiveCountsUsers'
  BY <1>4, CountDownCounts
<1>5. ASSUME NEW e \in Engines, Load(e) PROVE ActiveCountsUsers'
  BY <1>1, <1>5 DEF Load
<1>6. ASSUME NEW k \in Kinds, RequestCleanup(k) \/ GraceEnds(k) PROVE ActiveCountsUsers'
  BY <1>1, <1>6 DEF RequestCleanup, GraceEnds
<1>7. CASE Worker
  BY <1>1, <1>7 DEF Worker, RoundBegins, Examine, CallEngine, EngineRefuses, CleaningEnds
<1>8. CASE UNCHANGED vars
  BY <1>1, <1>8 DEF vars
<1>. QED
  BY <1>2, <1>3, <1>4, <1>5, <1>6, <1>7, <1>8 DEF Next

LEMMA CountInit == Init => ActiveCountsUsers
<1> SUFFICES ASSUME Init, NEW k \in Kinds PROVE active[k] = Cardinality(Users(k))
  BY DEF ActiveCountsUsers
<1>1. Users(k) = {} /\ active[k] = 0
  BY DEF Init, Users, OfKind
<1>. QED
  BY <1>1, FS_EmptySet

(* The use count of a kind is the number of its leases that are still held *)
(* or about to be counted down, for any number of threads that release     *)
(* each: a double release never takes the count below the users.           *)
THEOREM CountCorrect == SafeSpec => []ActiveCountsUsers
  BY CountInit, CountStep, LeaseInvariant, PTL DEF SafeSpec

-------------------------------------------------------------------------------
(* The gate.                                                               *)

(* The worker keeps the gate of one kind, which nobody uses, ...           *)
GateMeansUnused ==
  /\ \A k \in cleaning : active[k] = 0
  /\ \A j, k \in cleaning : j = k

(* ... and only a requested cleanup finds models of that kind; unless an   *)
(* engine refused, those it has called are free.                           *)
CleanupProgress ==
  \A e \in resident :
    KindOf[e] \in cleaning => forced /\ (complete => e \in todo)

WorkInv == GateMeansUnused /\ CleanupProgress /\ NoForgottenModel /\ ExplicitCleanupWins

LEMMA WorkInit == Init => WorkInv
  BY DEF Init, WorkInv, GateMeansUnused, CleanupProgress, NoForgottenModel, ExplicitCleanupWins

(* A lease that is held keeps its kind in use.                             *)
LEMMA HeldMeansUsed ==
  ASSUME TypeOK, ActiveCountsUsers, NEW l \in acquired \ released
  PROVE  active[KindOf[l]] > 0
<1>1. l \in Leases /\ KindOf[l] \in Kinds
  BY LeaseAssumption DEF TypeOK
<1>2. IsFiniteSet(Users(KindOf[l])) /\ l \in Users(KindOf[l])
  BY <1>1, UsersAreFinite DEF Users, OfKind
<1>3. Cardinality(Users(KindOf[l])) \in Nat /\ Cardinality(Users(KindOf[l])) # 0
  BY <1>2, FS_CardinalityType, FS_EmptySet
<1>. QED
  BY <1>1, <1>3 DEF ActiveCountsUsers

LEMMA WorkStep == LeaseInv /\ ActiveCountsUsers /\ WorkInv /\ [Next]_vars => WorkInv'
<1> SUFFICES ASSUME LeaseInv, ActiveCountsUsers, WorkInv, [Next]_vars PROVE WorkInv'
  OBVIOUS
<1> USE LeaseAssumption DEF LeaseInv, TypeOK, WorkInv
<1>0. \A k \in Kinds : active[k] \in Nat
  OBVIOUS
<1>1. ASSUME NEW l \in Leases, Acquire(l) PROVE WorkInv'
  <2>1. KindOf[l] \in Kinds /\ KindOf[l] \notin cleaning
    BY <1>1 DEF Acquire, GateIsFree
  <2>2. /\ active'[KindOf[l]] = active[KindOf[l]] + 1
        /\ \A k \in Kinds : k # KindOf[l] => active'[k] = active[k]
    BY <1>1, <2>1 DEF Acquire
  <2>3. /\ requested \ {KindOf[l]} \subseteq requested'
        /\ immediate' \subseteq immediate
        /\ deferred' \subseteq deferred
    BY <1>1 DEF Acquire, demandVars
  <2>4. GateMeansUnused'
    BY <1>1, <2>1, <2>2 DEF Acquire, workerVars, GateMeansUnused
  <2>5. CleanupProgress'
    BY <1>1 DEF Acquire, workerVars, CleanupProgress
  <2>6. NoForgottenModel'
    BY <1>0, <1>1, <2>1, <2>2, <2>3 DEF Acquire, NoForgottenModel
  <2>7. ExplicitCleanupWins'
    BY <2>3 DEF ExplicitCleanupWins
  <2>. QED
    BY <2>4, <2>5, <2>6, <2>7
<1>2. ASSUME NEW e \in Engines, Load(e) PROVE WorkInv'
  <2>1. KindOf[e] \in Kinds /\ active[KindOf[e]] > 0
    BY <1>2, HeldMeansUsed DEF Load
  <2>2. KindOf[e] \notin cleaning
    BY <2>1 DEF GateMeansUnused
  <2>. QED
    BY <1>2, <2>1, <2>2 DEF Load, demandVars, workerVars,
      GateMeansUnused, CleanupProgress, NoForgottenModel, ExplicitCleanupWins
<1>3. ASSUME NEW l \in Leases, Flag(l) PROVE WorkInv'
  BY <1>3 DEF Flag, demandVars, workerVars,
    GateMeansUnused, CleanupProgress, NoForgottenModel, ExplicitCleanupWins
<1>4. ASSUME NEW l \in Leases, NEW grace \in BOOLEAN, CountDown(l, grace) PROVE WorkInv'
  <2> DEFINE k == KindOf[l]
  <2>1. k \in Kinds
    OBVIOUS
  <2>2. /\ active'[k] = IF active[k] > 0 THEN active[k] - 1 ELSE 0
        /\ \A j \in Kinds : j # k => active'[j] = active[j]
    BY <1>4, <2>1 DEF CountDown
  <2>3. requested \subseteq requested' /\ (active'[k] = 0 => k \in requested')
    BY <1>4, <2>1, <2>2 DEF CountDown, DemandEnds
  <2>4. immediate' = immediate /\ immediate \cap deferred' = {}
    BY <1>4 DEF CountDown, DemandEnds, ExplicitCleanupWins
  <2>5. GateMeansUnused'
    <3>1. ASSUME NEW j \in cleaning PROVE active'[j] = 0
      BY <2>2 DEF GateMeansUnused
    <3>. QED
      BY <1>4, <3>1 DEF CountDown, workerVars, GateMeansUnused
  <2>6. CleanupProgress'
    BY <1>4 DEF CountDown, workerVars, CleanupProgress
  <2>7. NoForgottenModel'
    BY <1>4, <2>2, <2>3 DEF CountDown, NoForgottenModel
  <2>. QED
    BY <2>4, <2>5, <2>6, <2>7 DEF ExplicitCleanupWins
<1>5. ASSUME NEW k \in Kinds, RequestCleanup(k) PROVE WorkInv'
  BY <1>5 DEF RequestCleanup, leaseVars, workerVars,
    GateMeansUnused, CleanupProgress, NoForgottenModel, ExplicitCleanupWins
<1>6. ASSUME NEW k \in Kinds, GraceEnds(k) PROVE WorkInv'
  BY <1>6 DEF GraceEnds, leaseVars, workerVars,
    GateMeansUnused, CleanupProgress, NoForgottenModel, ExplicitCleanupWins
<1>7. CASE RoundBegins
  BY <1>7 DEF RoundBegins, leaseVars, demandVars,
    GateMeansUnused, CleanupProgress, NoForgottenModel, ExplicitCleanupWins
<1>8. ASSUME NEW k \in Kinds, Examine(k) PROVE WorkInv'
  <2>1. active' = active /\ resident' = resident /\ demandVars' = demandVars
    BY <1>8 DEF Examine
  <2>2. NoForgottenModel' /\ ExplicitCleanupWins'
    BY <2>1 DEF demandVars, NoForgottenModel, ExplicitCleanupWins
  <2>3. CASE PassedOver(k)
    <3>1. UNCHANGED <<cleaning, forced, todo, complete>>
      BY <1>8, <2>3 DEF Examine
    <3>. QED
      BY <2>1, <2>2, <3>1 DEF GateMeansUnused, CleanupProgress
  <2>4. CASE ~PassedOver(k)
    <3>1. active[k] = 0
      BY <1>0, <2>4 DEF PassedOver
    <3>2. cleaning' = {k} /\ forced' = (k \in requested) /\ todo' = OfKind(k, Engines)
      BY <1>8, <2>4 DEF Examine
    <3>3. GateMeansUnused'
      BY <2>1, <3>1, <3>2 DEF GateMeansUnused
    <3>4. CleanupProgress'
      BY <2>1, <3>1, <3>2 DEF CleanupProgress, NoForgottenModel, OfKind
    <3>. QED
      BY <2>2, <3>3, <3>4
  <2>. QED
    BY <2>3, <2>4
<1>9. ASSUME NEW e \in Engines, CallEngine(e) PROVE WorkInv'
  <2>1. \A f \in resident' : f \in resident /\ (f = e => ~forced)
    BY <1>9 DEF CallEngine
  <2>2. CleanupProgress'
    BY <1>9, <2>1 DEF CallEngine, CleanupProgress
  <2>. QED
    BY <1>9, <2>1, <2>2 DEF CallEngine, demandVars,
      GateMeansUnused, NoForgottenModel, ExplicitCleanupWins
<1>10. ASSUME NEW e \in Engines, EngineRefuses(e) PROVE WorkInv'
  BY <1>10 DEF EngineRefuses, demandVars,
    GateMeansUnused, CleanupProgress, NoForgottenModel, ExplicitCleanupWins
<1>11. ASSUME NEW k \in Kinds, CleaningEnds(k) PROVE WorkInv'
  <2>1. active' = active /\ resident' = resident /\ cleaning' = {}
    BY <1>11 DEF CleaningEnds
  <2>2. GateMeansUnused' /\ CleanupProgress'
    BY <2>1 DEF GateMeansUnused, CleanupProgress
  <2>3. CASE Served(k)
    <3>1. requested' = requested \ {k} /\ immediate' \subseteq immediate /\ deferred' \subseteq deferred
      BY <1>11, <2>3 DEF CleaningEnds
    <3>2. \A e \in resident : KindOf[e] # k
      BY <1>11, <2>3 DEF CleaningEnds, Served, CleanupProgress
    <3>. QED
      BY <2>1, <2>2, <3>1, <3>2 DEF NoForgottenModel, ExplicitCleanupWins
  <2>4. CASE ~Served(k)
    BY <1>11, <2>1, <2>2, <2>4 DEF CleaningEnds, demandVars, NoForgottenModel, ExplicitCleanupWins
  <2>. QED
    BY <2>3, <2>4
<1>12. CASE UNCHANGED vars
  BY <1>12 DEF vars, demandVars, workerVars,
    GateMeansUnused, CleanupProgress, NoForgottenModel, ExplicitCleanupWins
<1>. QED
  BY <1>1, <1>2, <1>3, <1>4, <1>5, <1>6, <1>7, <1>8, <1>9, <1>10, <1>11, <1>12 DEF Next, Worker

LEMMA WorkInvariant == SafeSpec => []WorkInv
  BY WorkInit, WorkStep, LeaseInvariant, CountCorrect, PTL DEF SafeSpec

(* No engine is asked to free its model while a lease of its kind is held. *)
THEOREM LeaseProtects == SafeSpec => []NoCleanupUnderUse
<1>1. TypeOK /\ ActiveCountsUsers /\ WorkInv => NoCleanupUnderUse
  BY HeldMeansUsed DEF WorkInv, GateMeansUnused, NoCleanupUnderUse
<1>. QED
  BY <1>1, TypeCorrect, CountCorrect, WorkInvariant, PTL

(* A resident model of a kind nobody uses always has a cleanup request.    *)
THEOREM NothingIsForgotten == SafeSpec => []NoForgottenModel
<1>1. WorkInv => NoForgottenModel
  BY DEF WorkInv
<1>. QED
  BY <1>1, WorkInvariant, PTL

(* An explicit request for cleanup is never put off by a later grace.      *)
THEOREM RequestWins == SafeSpec => []ExplicitCleanupWins
<1>1. WorkInv => ExplicitCleanupWins
  BY DEF WorkInv
<1>. QED
  BY <1>1, WorkInvariant, PTL

-------------------------------------------------------------------------------
(* Who uses a model is counted, and no model is freed under its user.      *)
THEOREM UseCorrect == SafeSpec => []UseIsProtected
<1>1. ActiveCountsUsers /\ NoCleanupUnderUse => UseIsProtected
  BY DEF UseIsProtected
<1>. QED
  BY <1>1, CountCorrect, LeaseProtects, PTL

(* No request for cleanup is lost, and none that was explicit is put off.  *)
THEOREM RequestsCorrect == SafeSpec => []RequestsSurvive
<1>1. NoForgottenModel /\ ExplicitCleanupWins => RequestsSurvive
  BY DEF RequestsSurvive
<1>. QED
  BY <1>1, NothingIsForgotten, RequestWins, PTL

===============================================================================
