------------------------------ MODULE ModelLeases ------------------------------
(***************************************************************************)
(* local_model_resources.py: what uses a local model holds a lease of its  *)
(* kind, and one worker thread frees the models of a kind nobody uses.     *)
(*                                                                         *)
(* Every block under _lock is one action.  The gate of a kind is held for  *)
(* longer than one action only by the worker while it calls the engines,   *)
(* so GateIsFree says it.  Time is two-valued: the idle grace of a kind    *)
(* has passed or it is in deferred.  The worker wakes at least every 15    *)
(* seconds, so a round may start at any time and _wake is left out.  The   *)
(* engines are modelled as their callbacks answer: they refuse while busy, *)
(* free their model when the cleanup is forced, and may free it otherwise. *)
(***************************************************************************)
EXTENDS Integers, FiniteSets

CONSTANTS
  Kinds,       \* ModelKind
  Engines,     \* the callbacks registered with a kind
  Leases,      \* the ModelUseLease objects
  KindOf,      \* the kind of each engine and each lease
  MaxReleases, \* threads that release one lease (bounds the model only)
  MaxRequests, \* explicit cleanup requests (bounds the model only)
  MaxRefusals  \* times an engine is busy (bounds the model only)

ASSUME LeaseAssumption ==
  /\ IsFiniteSet(Leases)
  /\ KindOf \in [Engines \cup Leases -> Kinds]
  /\ MaxReleases \in Nat
  /\ MaxRequests \in Nat
  /\ MaxRefusals \in Nat

VARIABLES
  acquired,  \* the leases handed out
  released,  \* those whose _released is set
  counting,  \* how many threads are about to lower the count for each lease
  calls,     \* how many threads released each lease (history, bounded)
  active,    \* _active_uses
  requested, \* _cleanup_requested
  immediate, \* _immediate_cleanup_requested
  deferred,  \* the kinds whose _cleanup_not_before lies ahead
  resident,  \* the engines whose model is loaded
  round,     \* the kinds the worker has not looked at in this round
  cleaning,  \* the kinds whose gate the worker holds (at most one)
  forced,    \* whether that cleanup was requested
  todo,      \* the engines it still has to call
  complete,  \* all_complete
  requests,  \* the explicit requests so far
  refusals   \* the refusals so far

leaseVars  == <<acquired, released, counting, calls>>
demandVars == <<requested, immediate, deferred>>
workerVars == <<round, cleaning, forced, todo, complete>>
vars == <<leaseVars, active, demandVars, resident, workerVars, requests, refusals>>

OfKind(k, S) == {x \in S : KindOf[x] = k}

(* Every variable has its type; a lease is counted down by one thread.     *)
TypeOK ==
  /\ acquired \subseteq Leases
  /\ released \subseteq acquired
  /\ counting \in [Leases -> 0..1]
  /\ calls \in [Leases -> 0..MaxReleases]
  /\ active \in [Kinds -> Nat]
  /\ requested \subseteq Kinds
  /\ immediate \subseteq Kinds
  /\ deferred \subseteq Kinds
  /\ resident \subseteq Engines
  /\ round \subseteq Kinds
  /\ cleaning \subseteq Kinds
  /\ forced \in BOOLEAN
  /\ todo \subseteq Engines
  /\ complete \in BOOLEAN
  /\ requests \in 0..MaxRequests
  /\ refusals \in 0..MaxRefusals

Init ==
  /\ acquired = {} /\ released = {}
  /\ counting = [l \in Leases |-> 0]
  /\ calls = [l \in Leases |-> 0]
  /\ active = [k \in Kinds |-> 0]
  /\ requested = {} /\ immediate = {} /\ deferred = {}
  /\ resident = {}
  /\ round = {} /\ cleaning = {} /\ forced = FALSE /\ todo = {} /\ complete = FALSE
  /\ requests = 0 /\ refusals = 0

-------------------------------------------------------------------------------
(* Faulty: new demand does not wait for the worker.                        *)
FaultyGateIsFree(k) == TRUE

GateIsFree(k) == k \notin cleaning

(* acquire_model_use: the first user calls the cleanup off.                *)
Acquire(l) ==
  LET k == KindOf[l] IN
  /\ l \notin acquired
  /\ GateIsFree(k)
  /\ acquired' = acquired \cup {l}
  /\ active' = [active EXCEPT ![k] = @ + 1]
  /\ IF active[k] = 0
     THEN /\ requested' = requested \ {k}
          /\ deferred' = deferred \ {k}
          /\ immediate' = immediate \ {k}
     ELSE UNCHANGED demandVars
  /\ UNCHANGED <<released, counting, calls, resident, workerVars, requests, refusals>>

(* A holder of a lease loads a model of its kind.                          *)
Load(e) ==
  /\ \E l \in acquired \ released : KindOf[l] = KindOf[e]
  /\ resident' = resident \cup {e}
  /\ UNCHANGED <<leaseVars, active, demandVars, workerVars, requests, refusals>>

(* Faulty: every release counts.                                           *)
FaultyFlag(l) ==
  /\ l \in acquired
  /\ calls[l] < MaxReleases
  /\ calls' = [calls EXCEPT ![l] = @ + 1]
  /\ released' = released \cup {l}
  /\ counting' = [counting EXCEPT ![l] = @ + 1]
  /\ UNCHANGED <<acquired, active, demandVars, resident, workerVars, requests, refusals>>

(* ModelUseLease._release as far as its flag: only the first release goes  *)
(* on.                                                                     *)
Flag(l) ==
  /\ l \in acquired
  /\ calls[l] < MaxReleases
  /\ calls' = [calls EXCEPT ![l] = @ + 1]
  /\ released' = released \cup {l}
  /\ counting' = IF l \in released THEN counting ELSE [counting EXCEPT ![l] = @ + 1]
  /\ UNCHANGED <<acquired, active, demandVars, resident, workerVars, requests, refusals>>

(* Faulty: the grace of the last lease outlives an explicit request.       *)
FaultyDemandEnds(k, grace) ==
  /\ requested' = requested \cup {k}
  /\ deferred' = IF grace THEN deferred \cup {k} ELSE deferred \ {k}

(* The last user is gone: cleanup, after a grace unless it was asked for.  *)
DemandEnds(k, grace) ==
  /\ requested' = requested \cup {k}
  /\ deferred' = IF grace /\ k \notin immediate THEN deferred \cup {k} ELSE deferred \ {k}

(* The rest of _release; grace is a positive idle_grace.                   *)
CountDown(l, grace) ==
  LET k == KindOf[l]
      remaining == IF active[k] > 0 THEN active[k] - 1 ELSE 0 IN
  /\ counting[l] > 0
  /\ counting' = [counting EXCEPT ![l] = @ - 1]
  /\ active' = [active EXCEPT ![k] = remaining]
  /\ IF remaining = 0
     THEN DemandEnds(k, grace)
     ELSE UNCHANGED <<requested, deferred>>
  /\ UNCHANGED <<acquired, released, calls, immediate, resident, workerVars, requests, refusals>>

(* request_model_cleanup.                                                  *)
RequestCleanup(k) ==
  /\ requests < MaxRequests
  /\ requests' = requests + 1
  /\ requested' = requested \cup {k}
  /\ immediate' = immediate \cup {k}
  /\ deferred' = deferred \ {k}
  /\ UNCHANGED <<leaseVars, active, resident, workerVars, refusals>>

(* The idle grace of a kind is over.                                       *)
GraceEnds(k) ==
  /\ k \in deferred
  /\ deferred' = deferred \ {k}
  /\ UNCHANGED <<leaseVars, active, requested, immediate, resident, workerVars, requests, refusals>>

-------------------------------------------------------------------------------
(* The worker, cleanup_idle_models.                                        *)

RoundBegins ==
  /\ round = {}
  /\ cleaning = {}
  /\ round' = Kinds
  /\ UNCHANGED <<leaseVars, active, demandVars, resident, cleaning, forced, todo, complete, requests, refusals>>

(* A kind is passed over while it is used, while its grace lasts and when  *)
(* it has no engines.                                                      *)
PassedOver(k) ==
  \/ OfKind(k, Engines) = {}
  \/ active[k] > 0
  \/ k \in requested \cap deferred

(* The next kind: otherwise its engines are called and its gate is kept.   *)
Examine(k) ==
  /\ cleaning = {}
  /\ k \in round
  /\ round' = round \ {k}
  /\ IF PassedOver(k)
     THEN UNCHANGED <<cleaning, forced, todo, complete>>
     ELSE /\ cleaning' = {k}
          /\ forced' = (k \in requested)
          /\ todo' = OfKind(k, Engines)
          /\ complete' = TRUE
  /\ UNCHANGED <<leaseVars, active, demandVars, resident, requests, refusals>>

(* The callback of an engine frees its model, or has no reason to...       *)
CallEngine(e) ==
  /\ cleaning # {}
  /\ e \in todo
  /\ todo' = todo \ {e}
  /\ \/ resident' = resident \ {e}
     \/ ~forced /\ UNCHANGED resident
  /\ UNCHANGED <<leaseVars, active, demandVars, round, cleaning, forced, complete, requests, refusals>>

(* ... or is busy.                                                         *)
EngineRefuses(e) ==
  /\ cleaning # {}
  /\ e \in todo
  /\ refusals < MaxRefusals
  /\ refusals' = refusals + 1
  /\ todo' = todo \ {e}
  /\ complete' = FALSE
  /\ UNCHANGED <<leaseVars, active, demandVars, resident, round, cleaning, forced, requests>>

(* Faulty: a cleanup an engine refused is done all the same.               *)
FaultyServed(k) == active[k] = 0

(* The request is served.                                                  *)
Served(k) == complete /\ active[k] = 0

CleaningEnds(k) ==
  /\ k \in cleaning
  /\ todo = {}
  /\ cleaning' = {}
  /\ IF Served(k)
     THEN /\ requested' = requested \ {k}
          /\ deferred' = deferred \ {k}
          /\ immediate' = immediate \ {k}
     ELSE UNCHANGED demandVars
  /\ UNCHANGED <<leaseVars, active, resident, round, forced, todo, complete, requests, refusals>>

Worker ==
  \/ RoundBegins
  \/ \E k \in Kinds : Examine(k)
  \/ \E e \in Engines : CallEngine(e)
  \/ \E e \in Engines : EngineRefuses(e)
  \/ \E k \in Kinds : CleaningEnds(k)

Next ==
  \/ \E l \in Leases : Acquire(l)
  \/ \E e \in Engines : Load(e)
  \/ \E l \in Leases : Flag(l)
  \/ \E l \in Leases : \E grace \in BOOLEAN : CountDown(l, grace)
  \/ \E k \in Kinds : RequestCleanup(k)
  \/ \E k \in Kinds : GraceEnds(k)
  \/ Worker

SafeSpec == Init /\ [][Next]_vars

(* The worker runs for ever and time passes; nobody has to release.        *)
Spec ==
  /\ SafeSpec
  /\ WF_vars(Worker)
  /\ \A k \in Kinds : WF_vars(GraceEnds(k))

-------------------------------------------------------------------------------
(* Properties.                                                             *)

(* The leases that keep their kind in use.                                 *)
Users(k) == {l \in OfKind(k, acquired) : l \notin released \/ counting[l] > 0}

(* The count of a kind is the number of its users, however many threads    *)
(* release one lease (ModelUseLease is "idempotent").                      *)
ActiveCountsUsers ==
  \A k \in Kinds : active[k] = Cardinality(Users(k))

(* No engine is asked to free its model while a lease protects the kind:   *)
(* new demand waits for the gate.                                          *)
NoCleanupUnderUse ==
  \A l \in acquired \ released : KindOf[l] \notin cleaning

(* Both together: who uses a model is counted, and so protected.           *)
UseIsProtected == ActiveCountsUsers /\ NoCleanupUnderUse

(* A model nobody uses is never forgotten: until it is freed, its kind has *)
(* a cleanup request.                                                      *)
NoForgottenModel ==
  \A e \in resident : active[KindOf[e]] = 0 => KindOf[e] \in requested

(* "explicit cleanup still wins": an explicit request is not put off by    *)
(* the grace of a lease that was released after it.                        *)
ExplicitCleanupWins == immediate \cap deferred = {}

(* Both together: no request for cleanup is lost or put off.               *)
RequestsSurvive == NoForgottenModel /\ ExplicitCleanupWins

(* A model nobody uses is freed, unless somebody uses it again.            *)
UnusedModelIsFreed ==
  \A e \in Engines :
    (e \in resident /\ active[KindOf[e]] = 0) ~> (e \notin resident \/ active[KindOf[e]] > 0)
===============================================================================
