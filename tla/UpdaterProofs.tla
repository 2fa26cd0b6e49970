----------------------------- MODULE UpdaterProofs -----------------------------
(***************************************************************************)
(* Proofs about the updater: first the update manager (Later, the          *)
(* installation the user put off to the next launch, and the types of its  *)
(* state), for any number of releases, downloads and requests of the user; *)
(* then the helper that replaces the package, for any number of releases,  *)
(* helpers, installing threads and cuts.                                   *)
(***************************************************************************)
EXTENDS UpdateManager, UpdateHelper, TLAPS

(* A marker on disk is a deferral no launch has acted on yet: the launch   *)
(* that acts on it pays with it, also when it is cut short.                *)
SpentInv ==
  /\ laters \in Nat /\ tries \in Nat
  /\ tries <= laters
  /\ later # Never => tries + 1 <= laters

-------------------------------------------------------------------------------
LEMMA InitSpent == Init => SpentInv
BY DEF Init, SpentInv

(* What leaves the marker and both counts alone keeps the balance.         *)
LEMMA KeptBalance ==
  ASSUME SpentInv, UNCHANGED <<later, laters, tries>>
  PROVE  SpentInv'
BY DEF SpentInv

(* A marker that is dropped unused only eases the balance.              *)
LEMMA DroppedMarker ==
  ASSUME SpentInv, later' \in {later, Never}, UNCHANGED <<laters, tries>>
  PROVE  SpentInv'
BY DEF SpentInv

(* Writing it is counted; overwriting one that no launch acted on too.     *)
LEMMA SaveLaterSpent == SpentInv /\ SaveLater => SpentInv'
BY DEF SpentInv, SaveLater

(* The launch removes the marker before it acts on it.                     *)
LEMMA LaunchTakesUpSpent == SpentInv /\ LaunchTakesUp => SpentInv'
<1> SUFFICES ASSUME SpentInv, LaunchTakesUp PROVE SpentInv'
  OBVIOUS
<1>1. later # Never /\ later' = Never
  BY DEF LaunchTakesUp, TakenUp
<1>2. laters' = laters /\ tries' \in {tries, tries + 1}
  BY DEF LaunchTakesUp
<1> QED
  BY <1>1, <1>2 DEF SpentInv

-------------------------------------------------------------------------------
(* Every other step leaves the three alone, or drops the marker.           *)

LEMMA ProcessKeeps ==
  ASSUME AppEnds \/ Quit \/ Launch \/ Opens \/ BusyChanges
  PROVE  UNCHANGED <<later, laters, tries>>
BY DEF AppEnds, Quit, ProcessEnds, Launch, Opens, BusyChanges, diskVars

LEMMA UserKeeps ==
  ASSUME Remember \/ UserStarts \/ Cancel \/ UserAsks \/ Defer
  PROVE  UNCHANGED <<later, laters, tries>>
BY DEF Remember, UserStarts, Cancel, UserAsks, Defer, diskVars

LEMMA BackgroundKeeps ==
  ASSUME GraceEnds \/ Waiter \/ CheckBegins \/ CheckEnds \/ LoopStarts \/ LoopJoins
  PROVE  UNCHANGED <<later, laters, tries>>
BY DEF GraceEnds, Waiter, WaiterPolls, WaiterGoes, WaiterEnds,
       CheckBegins, CheckEnds, LoopStarts, LoopJoins, diskVars

LEMMA DownloadKeeps ==
  ASSUME NEW t \in Downloads, Download(t)
  PROVE  UNCHANGED <<later, laters, tries>>
BY DEF Download, Downloaded, Stopped, DownloadFails, Verify, Verified, Rejected, DownloadStep

LEMMA InstallDrops ==
  ASSUME NEW c \in Callers, Install(c)
  PROVE  later' \in {later, Never} /\ UNCHANGED <<laters, tries>>
BY DEF Install, Decide, Begin, Extracted, ExtractFails, SpawnHelper, diskVars

LEMMA SetAutoDrops ==
  ASSUME NEW on \in BOOLEAN, SetAuto(on)
  PROVE  later' \in {later, Never} /\ UNCHANGED <<laters, tries>>
BY DEF SetAuto

LEMMA NextSpent == SpentInv /\ [Next]_vars => SpentInv'
<1> SUFFICES ASSUME SpentInv, [Next]_vars PROVE SpentInv'
  OBVIOUS
<1>1. CASE AppEnds \/ Quit \/ Launch \/ Opens \/ BusyChanges
  BY <1>1, ProcessKeeps, KeptBalance
<1>2. CASE LaunchTakesUp
  BY <1>2, LaunchTakesUpSpent
<1>3. CASE Remember \/ UserStarts \/ Cancel \/ UserAsks \/ Defer
  BY <1>3, UserKeeps, KeptBalance
<1>4. CASE SaveLater
  BY <1>4, SaveLaterSpent
<1>5. CASE GraceEnds \/ Waiter \/ CheckBegins \/ CheckEnds \/ LoopStarts \/ LoopJoins
  BY <1>5, BackgroundKeeps, KeptBalance
<1>6. CASE \E t \in Downloads : Download(t)
  BY <1>6, DownloadKeeps, KeptBalance
<1>7. CASE \E c \in Callers : Install(c)
  BY <1>7, InstallDrops, DroppedMarker
<1>8. CASE \E on \in BOOLEAN : SetAuto(on)
  BY <1>8, SetAutoDrops, DroppedMarker
<1>9. CASE UNCHANGED vars
  BY <1>9, KeptBalance DEF vars, diskVars
<1> QED
  BY <1>1, <1>2, <1>3, <1>4, <1>5, <1>6, <1>7, <1>8, <1>9 DEF Next

(* However often the app is launched, crashes or is cut short while it     *)
(* installs, a deferral (app_updater.py, defer and                         *)
(* apply_deferred_update_on_launch) is acted on at most once.              *)
THEOREM LaterTriedOnce == SafeSpec => []LaterIsTriedOnce
<1>1. SpentInv => LaterIsTriedOnce
  BY DEF SpentInv, LaterIsTriedOnce
<1> QED
  BY InitSpent, NextSpent, <1>1, PTL DEF SafeSpec

-------------------------------------------------------------------------------
(* Types.                                                                  *)

(* Whatever downloads, waits or installs has a plan, and a plan, a package *)
(* handed over or a check under way is about a release that exists; the    *)
(* memory of the process is gone when it is.                               *)
OfferInv ==
  /\ plan \/ handed \/ loop # "sleep" => Offered \in Versions
  /\ loop \in {"start", "join"} \/ waiter # "none" => plan
  /\ \A t \in Downloads : dl[t] # "none" => plan
  /\ \A c \in Callers : install[c] # "none" => plan
  /\ up = "down" => ~plan /\ loop = "sleep"

(* The checker goes on while a download may fail; a marker on disk, or one *)
(* still to be written, is one act of the user.                            *)
CountInv ==
  /\ loop \in {"start", "join"} => failures < 2
  /\ laters <= acts /\ (saving => laters + 1 <= acts)

ManagerInv == TypeOK /\ OfferInv /\ CountInv

LEMMA InitManager == Init => ManagerInv
<1> SUFFICES ASSUME Init PROVE ManagerInv
  OBVIOUS
<1>1. last \in Downloads
  BY ManagerAssumption DEF Init
<1>2. running \in Versions /\ laters \in 0..MaxActs /\ acts \in 0..MaxActs /\ tries \in Nat
  BY ManagerAssumption DEF Init, Versions
<1>3. /\ dl \in [Downloads -> {"none", "fetching", "fetched", "verifying"}]
      /\ install \in [Callers -> {"none", "asked", "begin", "extract", "spawn"}]
  BY DEF Init
<1>4. {jammed, cancel, path, deferred, plan} \subseteq BOOLEAN /\ {grace, missed, saving, quit, busy, auto, handed} \subseteq BOOLEAN
  BY DEF Init
<1>5. TypeOK
  BY <1>1, <1>2, <1>3, <1>4 DEF Init, TypeOK
<1>6. OfferInv /\ CountInv
  BY <1>2 DEF Init, OfferInv, CountInv
<1> QED
  BY <1>5, <1>6 DEF ManagerInv

(* The end of the process resets all of its memory.                        *)
LEMMA ProcessEndsManager == ASSUME ManagerInv, ProcessEnds, acts' \in acts..MaxActs PROVE ManagerInv'
<1>1. last' \in Downloads
  BY ManagerAssumption DEF ProcessEnds
<1>2. acts' \in 0..MaxActs /\ laters' \in Nat /\ laters' <= acts' /\ laters' \in 0..MaxActs /\ acts \in Nat /\ laters \in Nat
  BY ManagerAssumption DEF ProcessEnds, ManagerInv, TypeOK, CountInv, diskVars
<1>3. /\ dl' \in [Downloads -> {"none", "fetching", "fetched", "verifying"}]
      /\ install' \in [Callers -> {"none", "asked", "begin", "extract", "spawn"}]
  BY DEF ProcessEnds
<1>4. {jammed, cancel, path, deferred, plan}' \subseteq BOOLEAN /\ {grace, missed, saving, quit, busy, auto, handed}' \subseteq BOOLEAN
  BY DEF ProcessEnds, ManagerInv, TypeOK, diskVars
<1>5. TypeOK'
  BY <1>1, <1>2, <1>3, <1>4 DEF ProcessEnds, ManagerInv, TypeOK, diskVars
<1>6. OfferInv'
  BY DEF ProcessEnds, ManagerInv, OfferInv, Offered, diskVars
<1>7. CountInv'
  BY <1>2 DEF ProcessEnds, CountInv
<1> QED
  BY <1>5, <1>6, <1>7 DEF ManagerInv

(* The app comes up in the version it had, or in the one handed over.      *)
LEMMA LaunchManager == ManagerInv /\ Launch => ManagerInv'
<1> SUFFICES ASSUME ManagerInv, Launch PROVE ManagerInv'
  OBVIOUS
<1>1. running' \in Versions
  BY DEF Launch, ManagerInv, TypeOK, OfferInv
<1>2. TypeOK'
  BY <1>1 DEF Launch, ManagerInv, TypeOK, InUse, flagVars, dlVars, loopVars, goVars
<1>3. OfferInv' /\ CountInv'
  BY DEF Launch, ManagerInv, OfferInv, CountInv, flagVars, dlVars, loopVars, goVars
<1> QED
  BY <1>2, <1>3 DEF ManagerInv

LEMMA LaunchTakesUpManager == ManagerInv /\ LaunchTakesUp => ManagerInv'
<1> SUFFICES ASSUME ManagerInv, LaunchTakesUp PROVE ManagerInv'
  OBVIOUS
<1>1. CASE auto /\ later = running /\ Offered \in archives
  <2>1. Offered' = Offered /\ Offered \in Versions /\ plan' = TRUE /\ up' = "launch"
    BY <1>1 DEF LaunchTakesUp, ManagerInv, TypeOK, Offered
  <2>2. /\ later' = Never /\ st' = "ready" /\ path' = TRUE /\ tries' = tries + 1
        /\ install' = [install EXCEPT !["launch"] = "begin"]
        /\ UNCHANGED <<running, jammed, cancel, deferred, failures, dlVars, loopVars, waiter, missed,
                       saving, quit, busy, auto, archives, handed, laters, acts>>
    BY <1>1 DEF LaunchTakesUp, TakenUp
  <2>3. TypeOK'
    BY <2>1, <2>2 DEF ManagerInv, TypeOK, InUse, Callers, dlVars, loopVars
  <2>4. OfferInv' /\ CountInv'
    BY <2>1, <2>2 DEF ManagerInv, OfferInv, CountInv, dlVars, loopVars
  <2> QED
    BY <2>3, <2>4 DEF ManagerInv
<1>2. CASE ~(auto /\ later = running /\ Offered \in archives)
  <2>1. /\ later' = Never /\ up' = "ready" /\ Offered' = Offered
        /\ UNCHANGED <<tries, plan, path, st, install, running, jammed, cancel, deferred, failures, dlVars, loopVars,
                       waiter, missed, saving, quit, busy, auto, archives, handed, laters, acts>>
    BY <1>2 DEF LaunchTakesUp, TakenUp, Offered
  <2>2. TypeOK'
    BY <2>1 DEF ManagerInv, TypeOK, InUse, dlVars, loopVars
  <2>3. OfferInv' /\ CountInv'
    BY <2>1 DEF ManagerInv, OfferInv, CountInv, dlVars, loopVars
  <2> QED
    BY <2>2, <2>3 DEF ManagerInv
<1> QED
  BY <1>1, <1>2

(* What start changes, when there is a plan.                               *)
LEMMA StartDownloadFacts ==
  ASSUME ManagerInv, plan, StartDownload
  PROVE  /\ st' \in InUse \cup {"idle", "failed", "cancelled"}
         /\ {jammed', cancel', path', deferred'} \subseteq BOOLEAN
         /\ dl' \in [Downloads -> {"none", "fetching", "fetched", "verifying"}] /\ last' \in Downloads
<1>1. CASE st \in {"downloading", "verifying"}
  BY <1>1 DEF StartDownload, ManagerInv, TypeOK, dlVars
<1>2. CASE st \notin {"downloading", "verifying"}
  BY <1>2 DEF StartDownload, ManagerInv, TypeOK, InUse
<1> QED
  BY <1>1, <1>2

LEMMA UserStartsManager == ManagerInv /\ UserStarts => ManagerInv'
<1> SUFFICES ASSUME ManagerInv, UserStarts PROVE ManagerInv'
  OBVIOUS
<1>1. /\ plan /\ StartDownload /\ acts' = acts + 1 /\ acts < MaxActs /\ acts \in Nat /\ Offered' = Offered
      /\ UNCHANGED <<procVars, plan, failures, loopVars, goVars, busy, diskVars>>
  BY DEF UserStarts, UserActs, ManagerInv, TypeOK, Offered, procVars
<1>2. TypeOK'
  BY <1>1, StartDownloadFacts, ManagerAssumption DEF ManagerInv, TypeOK, procVars, loopVars, goVars, diskVars
<1>3. OfferInv'
  BY <1>1 DEF ManagerInv, OfferInv, procVars, loopVars, goVars, diskVars
<1>4. CountInv'
  BY <1>1 DEF ManagerInv, TypeOK, CountInv, loopVars, goVars, diskVars
<1> QED
  BY <1>2, <1>3, <1>4 DEF ManagerInv

LEMMA LoopStartsManager == ManagerInv /\ LoopStarts => ManagerInv'
<1> SUFFICES ASSUME ManagerInv, LoopStarts PROVE ManagerInv'
  OBVIOUS
<1>1. /\ plan /\ StartDownload /\ loop = "start" /\ loop' \in {"start", "join"} /\ Offered' = Offered
      /\ UNCHANGED <<procVars, plan, failures, grace, goVars, busy, diskVars, acts>>
  BY DEF LoopStarts, ManagerInv, OfferInv, Offered, procVars
<1>2. TypeOK'
  BY <1>1, StartDownloadFacts DEF ManagerInv, TypeOK, procVars, goVars, diskVars
<1>3. OfferInv'
  BY <1>1 DEF ManagerInv, OfferInv, procVars, goVars, diskVars
<1>4. CountInv'
  BY <1>1 DEF ManagerInv, CountInv, goVars, diskVars
<1> QED
  BY <1>2, <1>3, <1>4 DEF ManagerInv

(* The act that deferred is counted for the marker it writes.              *)
LEMMA SaveLaterManager == ManagerInv /\ SaveLater => ManagerInv'
<1> SUFFICES ASSUME ManagerInv, SaveLater PROVE ManagerInv'
  OBVIOUS
<1>1. /\ saving /\ saving' = FALSE /\ later' = running /\ laters' = laters + 1
      /\ UNCHANGED <<procVars, st, flagVars, dlVars, loopVars, waiter, missed, install, quit, busy,
                     auto, archives, handed, tries, acts>>
  BY DEF SaveLater
<1>2. laters \in Nat /\ acts \in 0..MaxActs /\ laters + 1 <= acts
  BY <1>1, ManagerAssumption DEF ManagerInv, TypeOK, CountInv
<1>3. laters' \in 0..MaxActs /\ laters' <= acts'
  BY <1>1, <1>2, ManagerAssumption
<1>4. TypeOK'
  BY <1>1, <1>3 DEF ManagerInv, TypeOK, procVars, flagVars, dlVars, loopVars
<1>5. OfferInv'
  BY <1>1 DEF ManagerInv, OfferInv, Offered, procVars, flagVars, dlVars, loopVars
<1>6. CountInv'
  BY <1>1, <1>2, <1>3 DEF ManagerInv, CountInv, flagVars, loopVars
<1> QED
  BY <1>4, <1>5, <1>6 DEF ManagerInv

LEMMA GraceEndsManager == ManagerInv /\ GraceEnds => ManagerInv'
<1> SUFFICES ASSUME ManagerInv, GraceEnds PROVE ManagerInv'
  OBVIOUS
<1>1. /\ grace' = FALSE /\ Offered' = Offered
      /\ UNCHANGED <<procVars, st, flagVars, dlVars, loop, waiter, missed, saving, quit, busy, diskVars, acts>>
  BY DEF GraceEnds, Offered, procVars
<1>2. \/ install' = install
      \/ plan /\ install' = [install EXCEPT !["auto"] = "asked"]
  BY DEF GraceEnds, Ask
<1>3. /\ install' \in [Callers -> {"none", "asked", "begin", "extract", "spawn"}]
      /\ \A c \in Callers : install'[c] # "none" => plan
  BY <1>2 DEF ManagerInv, TypeOK, OfferInv
<1>4. TypeOK'
  BY <1>1, <1>3 DEF ManagerInv, TypeOK, procVars, flagVars, dlVars, diskVars
<1>5. OfferInv'
  BY <1>1, <1>3 DEF ManagerInv, OfferInv, procVars, flagVars, dlVars, diskVars
<1>6. CountInv'
  BY <1>1 DEF ManagerInv, CountInv, flagVars, diskVars
<1> QED
  BY <1>4, <1>5, <1>6 DEF ManagerInv

LEMMA DecideManager == ASSUME NEW c \in Callers, ManagerInv, Decide(c) PROVE ManagerInv'
<1>1. /\ plan /\ Offered' = Offered
      /\ UNCHANGED <<procVars, flagVars, dlVars, loopVars, saving, quit, busy, diskVars, acts>>
  BY DEF Decide, ManagerInv, OfferInv, Offered, procVars
<1>2. /\ st' \in InUse \cup {"idle", "failed", "cancelled"}
      /\ waiter' \in {"none", "poll", "idle", "leaving"} /\ missed' \in BOOLEAN
      /\ install' \in [Callers -> {"none", "asked", "begin", "extract", "spawn"}]
  <2>1. CASE busy
    BY <2>1 DEF Decide, ManagerInv, TypeOK, InUse
  <2>2. CASE ~busy
    BY <2>2 DEF Decide, ManagerInv, TypeOK
  <2> QED
    BY <2>1, <2>2
<1>3. TypeOK'
  BY <1>1, <1>2 DEF ManagerInv, TypeOK, procVars, flagVars, dlVars, loopVars, diskVars
<1>4. OfferInv' /\ CountInv'
  BY <1>1 DEF ManagerInv, OfferInv, CountInv, procVars, flagVars, dlVars, loopVars, diskVars
<1> QED
  BY <1>3, <1>4 DEF ManagerInv

(* The other steps, each on its own.                                       *)

LEMMA BusyChangesManager == ManagerInv /\ BusyChanges => ManagerInv'
BY ManagerAssumption
   DEF ManagerInv, TypeOK, OfferInv, CountInv, BusyChanges,
       Offered, Versions, Never, InUse, Callers, procVars, flagVars, dlVars, loopVars, goVars, diskVars

LEMMA OpensManager == ManagerInv /\ Opens => ManagerInv'
BY ManagerAssumption
   DEF ManagerInv, TypeOK, OfferInv, CountInv, Opens,
       Offered, Versions, Never, InUse, Callers, procVars, flagVars, dlVars, loopVars, goVars, diskVars

LEMMA RememberManager == ManagerInv /\ Remember => ManagerInv'
BY ManagerAssumption
   DEF ManagerInv, TypeOK, OfferInv, CountInv, Remember, UserActs,
       Offered, Versions, Never, InUse, Callers, procVars, flagVars, dlVars, loopVars, goVars, diskVars

LEMMA CancelManager == ManagerInv /\ Cancel => ManagerInv'
BY ManagerAssumption
   DEF ManagerInv, TypeOK, OfferInv, CountInv, Cancel, UserActs,
       Offered, Versions, Never, InUse, Callers, procVars, flagVars, dlVars, loopVars, goVars, diskVars

LEMMA UserAsksManager == ManagerInv /\ UserAsks => ManagerInv'
BY ManagerAssumption
   DEF ManagerInv, TypeOK, OfferInv, CountInv, UserAsks, UserActs, Ask,
       Offered, Versions, Never, InUse, Callers, procVars, flagVars, dlVars, loopVars, goVars, diskVars

LEMMA DeferManager == ManagerInv /\ Defer => ManagerInv'
BY ManagerAssumption
   DEF ManagerInv, TypeOK, OfferInv, CountInv, Defer, UserActs,
       Offered, Versions, Never, InUse, Callers, procVars, flagVars, dlVars, loopVars, goVars, diskVars

LEMMA WaiterPollsManager == ManagerInv /\ WaiterPolls => ManagerInv'
BY ManagerAssumption
   DEF ManagerInv, TypeOK, OfferInv, CountInv, WaiterPolls,
       Offered, Versions, Never, InUse, Callers, procVars, flagVars, dlVars, loopVars, goVars, diskVars

LEMMA WaiterGoesManager == ManagerInv /\ WaiterGoes => ManagerInv'
BY ManagerAssumption
   DEF ManagerInv, TypeOK, OfferInv, CountInv, WaiterGoes,
       Offered, Versions, Never, InUse, Callers, procVars, flagVars, dlVars, loopVars, goVars, diskVars

LEMMA WaiterEndsManager == ManagerInv /\ WaiterEnds => ManagerInv'
BY ManagerAssumption
   DEF ManagerInv, TypeOK, OfferInv, CountInv, WaiterEnds,
       Offered, Versions, Never, InUse, Callers, procVars, flagVars, dlVars, loopVars, goVars, diskVars

LEMMA CheckBeginsManager == ManagerInv /\ CheckBegins => ManagerInv'
BY ManagerAssumption
   DEF ManagerInv, TypeOK, OfferInv, CountInv, CheckBegins,
       Offered, Versions, Never, InUse, Callers, procVars, flagVars, dlVars, loopVars, goVars, diskVars

LEMMA CheckEndsManager == ManagerInv /\ CheckEnds => ManagerInv'
BY ManagerAssumption
   DEF ManagerInv, TypeOK, OfferInv, CountInv, CheckEnds,
       Offered, Versions, Never, InUse, Callers, procVars, flagVars, dlVars, loopVars, goVars, diskVars

LEMMA LoopJoinsManager == ManagerInv /\ LoopJoins => ManagerInv'
BY ManagerAssumption
   DEF ManagerInv, TypeOK, OfferInv, CountInv, LoopJoins,
       Offered, Versions, Never, InUse, Callers, procVars, flagVars, dlVars, loopVars, goVars, diskVars

LEMMA DownloadedManager == ASSUME NEW t \in Downloads, ManagerInv, Downloaded(t) PROVE ManagerInv'
BY ManagerAssumption
   DEF ManagerInv, TypeOK, OfferInv, CountInv, Downloaded, DownloadStep, Failed,
       Offered, Versions, Never, InUse, Callers, procVars, flagVars, dlVars, loopVars, goVars, diskVars

LEMMA StoppedManager == ASSUME NEW t \in Downloads, ManagerInv, Stopped(t) PROVE ManagerInv'
BY ManagerAssumption
   DEF ManagerInv, TypeOK, OfferInv, CountInv, Stopped, DownloadStep, Failed,
       Offered, Versions, Never, InUse, Callers, procVars, flagVars, dlVars, loopVars, goVars, diskVars

LEMMA DownloadFailsManager == ASSUME NEW t \in Downloads, ManagerInv, DownloadFails(t) PROVE ManagerInv'
BY ManagerAssumption
   DEF ManagerInv, TypeOK, OfferInv, CountInv, DownloadFails, DownloadStep, Failed,
       Offered, Versions, Never, InUse, Callers, procVars, flagVars, dlVars, loopVars, goVars, diskVars

LEMMA VerifyManager == ASSUME NEW t \in Downloads, ManagerInv, Verify(t) PROVE ManagerInv'
BY ManagerAssumption
   DEF ManagerInv, TypeOK, OfferInv, CountInv, Verify, DownloadStep, Failed,
       Offered, Versions, Never, InUse, Callers, procVars, flagVars, dlVars, loopVars, goVars, diskVars

LEMMA VerifiedManager == ASSUME NEW t \in Downloads, ManagerInv, Verified(t) PROVE ManagerInv'
BY ManagerAssumption
   DEF ManagerInv, TypeOK, OfferInv, CountInv, Verified, DownloadStep, Failed,
       Offered, Versions, Never, InUse, Callers, procVars, flagVars, dlVars, loopVars, goVars, diskVars

LEMMA RejectedManager == ASSUME NEW t \in Downloads, ManagerInv, Rejected(t) PROVE ManagerInv'
BY ManagerAssumption
   DEF ManagerInv, TypeOK, OfferInv, CountInv, Rejected, DownloadStep, Failed,
       Offered, Versions, Never, InUse, Callers, procVars, flagVars, dlVars, loopVars, goVars, diskVars

LEMMA BeginManager == ASSUME NEW c \in Callers, ManagerInv, Begin(c) PROVE ManagerInv'
BY ManagerAssumption
   DEF ManagerInv, TypeOK, OfferInv, CountInv, Begin, Returns,
       Offered, Versions, Never, InUse, Callers, procVars, flagVars, dlVars, loopVars, goVars, diskVars

LEMMA ExtractedManager == ASSUME NEW c \in Callers, ManagerInv, Extracted(c) PROVE ManagerInv'
BY ManagerAssumption
   DEF ManagerInv, TypeOK, OfferInv, CountInv, Extracted, Returns,
       Offered, Versions, Never, InUse, Callers, procVars, flagVars, dlVars, loopVars, goVars, diskVars

LEMMA ExtractFailsManager == ASSUME NEW c \in Callers, ManagerInv, ExtractFails(c) PROVE ManagerInv'
BY ManagerAssumption
   DEF ManagerInv, TypeOK, OfferInv, CountInv, ExtractFails, Returns,
       Offered, Versions, Never, InUse, Callers, procVars, flagVars, dlVars, loopVars, goVars, diskVars

LEMMA SpawnHelperManager == ASSUME NEW c \in Callers, ManagerInv, SpawnHelper(c) PROVE ManagerInv'
BY ManagerAssumption
   DEF ManagerInv, TypeOK, OfferInv, CountInv, SpawnHelper, Returns,
       Offered, Versions, Never, InUse, Callers, procVars, flagVars, dlVars, loopVars, goVars, diskVars

LEMMA SetAutoManager == ASSUME NEW on \in BOOLEAN, ManagerInv, SetAuto(on) PROVE ManagerInv'
BY ManagerAssumption
   DEF ManagerInv, TypeOK, OfferInv, CountInv, SetAuto, UserActs,
       Offered, Versions, Never, InUse, Callers, procVars, flagVars, dlVars, loopVars, goVars, diskVars

LEMMA NextManager == ManagerInv /\ [Next]_vars => ManagerInv'
<1> SUFFICES ASSUME ManagerInv, [Next]_vars PROVE ManagerInv'
  OBVIOUS
<1>1. CASE AppEnds \/ Quit
  <2>1. acts' \in acts..MaxActs
    BY <1>1, ManagerAssumption DEF AppEnds, Quit, ManagerInv, TypeOK
  <2> QED
    BY <1>1, <2>1, ProcessEndsManager DEF AppEnds, Quit
<1>2. CASE Launch \/ LaunchTakesUp \/ Opens \/ BusyChanges
  BY <1>2, LaunchManager, LaunchTakesUpManager, OpensManager, BusyChangesManager
<1>3. CASE Remember \/ UserStarts \/ Cancel \/ UserAsks \/ Defer \/ SaveLater
  BY <1>3, RememberManager, UserStartsManager, CancelManager, UserAsksManager, DeferManager, SaveLaterManager
<1>4. CASE GraceEnds \/ Waiter
  BY <1>4, GraceEndsManager, WaiterPollsManager, WaiterGoesManager, WaiterEndsManager DEF Waiter
<1>5. CASE CheckBegins \/ CheckEnds \/ LoopStarts \/ LoopJoins
  BY <1>5, CheckBeginsManager, CheckEndsManager, LoopStartsManager, LoopJoinsManager
<1>6. CASE \E t \in Downloads : Download(t)
  BY <1>6, DownloadedManager, StoppedManager, DownloadFailsManager, VerifyManager, VerifiedManager, RejectedManager
     DEF Download
<1>7. CASE \E c \in Callers : Install(c)
  BY <1>7, DecideManager, BeginManager, ExtractedManager, ExtractFailsManager, SpawnHelperManager DEF Install
<1>8. CASE \E on \in BOOLEAN : SetAuto(on)
  BY <1>8, SetAutoManager
<1>9. CASE UNCHANGED vars
  BY <1>9 DEF vars, ManagerInv, TypeOK, OfferInv, CountInv, Offered, procVars, flagVars, dlVars, loopVars, goVars, diskVars
<1> QED
  BY <1>1, <1>2, <1>3, <1>4, <1>5, <1>6, <1>7, <1>8, <1>9 DEF Next

(* Every variable of the manager has its type whatever the user, the       *)
(* downloads, the checker and the threads that install do, and across      *)
(* launches: no package but those of real releases is on disk, and the     *)
(* checker has given a version up after two failed downloads.              *)
THEOREM TypeCorrect == SafeSpec => []TypeOK
<1>1. ManagerInv => TypeOK
  BY DEF ManagerInv
<1> QED
  BY InitManager, NextManager, <1>1, PTL DEF SafeSpec

-------------------------------------------------------------------------------
(* The helper: a specification of its own, with its own state.             *)

Stages == {"idle", "waiting", "clear", "aside", "put", "putOnly", "launch",
           "confirm", "remove", "restore", "relaunch"}

(* What was seen ready opens, and only such a version defers an update;    *)
(* threads that install live in an app that has a newer release.           *)
AppFacts ==
  /\ opened \subseteq opens
  /\ deferral # NoTree => deferral \in opens
  /\ app = "ready" => build \in opens
  /\ \A i \in Installers : installing[i] # "none" => app # "down" /\ build + 1 \in Releases

HelperInv == HelperTypeOK /\ AppFacts

(* One helper at a time, and none while a thread of the app installs: only *)
(* an app that opens can have begun that.                                  *)
OneAtATime ==
  /\ \A g, h \in Helpers : helper[g] # "idle" /\ helper[h] # "idle" => g = h
  /\ \A i \in Installers : installing[i] # "none" =>
       /\ \A h \in Helpers : helper[h] = "idle"
       /\ \A k \in Installers : installing[k] # "none" => k = i
       /\ target \in opens

(* The app runs what is installed, and never while a helper moves trees;   *)
(* an app that runs while a helper waits for its launch is that launch.    *)
AppStaysClear ==
  app # "down" =>
    /\ build = target
    /\ \A h \in Helpers : helper[h] \in {"idle", "waiting", "confirm"}
    /\ \A h \in Helpers : helper[h] = "confirm" => child

(* Where the usable package is at each stage of a helper.                  *)
StageKeeps ==
  \A h \in Helpers :
    /\ helper[h] # "putOnly"
    /\ helper[h] \in {"waiting", "clear", "aside"} => target \in opens
    /\ helper[h] = "put" => target = NoTree
    /\ helper[h] \in {"put", "launch", "confirm", "remove", "restore"} => backup \in opens
    /\ helper[h] = "relaunch" => target \in opens \/ (cut /\ backup \in opens)

RestKeeps ==
  (\A h \in Helpers : helper[h] = "idle") => target \in opens \/ (cut /\ backup \in opens)

TrialInv == Excused \/ (OneAtATime /\ AppStaysClear /\ StageKeeps /\ RestKeeps)

-------------------------------------------------------------------------------
(* Types.                                                                  *)

LEMMA ReleaseFacts ==
  /\ 0 \in Releases /\ Releases \subseteq Int
  /\ NoTree \notin Releases /\ TornTree \notin Releases /\ NoTree # TornTree
  /\ Releases \subseteq Trees /\ NoTree \in Trees /\ TornTree \in Trees
BY HelperAssumption DEF Releases, Trees, NoTree, TornTree

LEMMA InitHelper == HelperInit => HelperInv
<1> SUFFICES ASSUME HelperInit PROVE HelperInv
  OBVIOUS
<1>1. opens \subseteq Releases /\ 0 \in opens
  BY HelperAssumption DEF HelperInit, Releases
<1>2. 0 \in 0..MaxEnds
  BY HelperAssumption
<1>3. /\ helper \in [Helpers -> {"idle"}]
      /\ installing \in [Installers -> {"none"}]
  BY DEF HelperInit
<1>4. HelperTypeOK
  BY <1>1, <1>2, <1>3, ReleaseFacts DEF HelperInit, HelperTypeOK
<1>5. AppFacts
  BY <1>1, <1>3 DEF HelperInit, AppFacts
<1>. QED
  BY <1>4, <1>5 DEF HelperInv

LEMMA NextHelper == HelperInv /\ [HelperNext]_helperVars => HelperInv'
<1> SUFFICES ASSUME HelperInv, [HelperNext]_helperVars PROVE HelperInv'
  OBVIOUS
<1> USE ReleaseFacts, HelperAssumption
<1> USE DEF HelperInv, HelperTypeOK, AppFacts
<1>1. CASE LaunchApp
  BY <1>1 DEF LaunchApp, Started, appVars, buildVars, treeVars, history
<1>2. CASE Opening
  BY <1>2 DEF Opening, appVars, buildVars, treeVars, history
<1>3. CASE Ready
  BY <1>3 DEF Ready, appVars, buildVars, treeVars, history
<1>4. CASE OpenFails
  BY <1>4 DEF OpenFails, Ended, appVars, buildVars, treeVars, history
<1>5. CASE AppCloses
  <2>1. ends' \in 0..MaxEnds
    BY <1>5 DEF AppCloses
  <2>. QED
    BY <1>5, <2>1 DEF AppCloses, Ended, appVars, buildVars, treeVars, history
<1>6. CASE Later
  BY <1>6 DEF Later, appVars, buildVars, treeVars, history
<1>7. CASE QuitForUpdate
  BY <1>7 DEF QuitForUpdate, Ended, appVars, buildVars, treeVars, history
<1>8. ASSUME NEW i \in Installers, BeginInstall(i) PROVE HelperInv'
  BY <1>8 DEF BeginInstall, appVars, buildVars, treeVars, history
<1>9. ASSUME NEW i \in Installers, ArchiveExtracted(i) PROVE HelperInv'
  BY <1>9 DEF ArchiveExtracted, appVars, buildVars, treeVars, history
<1>10. ASSUME NEW i \in Installers, ArchiveFails(i) PROVE HelperInv'
  BY <1>10 DEF ArchiveFails, appVars, buildVars, treeVars, history
<1>11. ASSUME NEW i \in Installers, StartHelper(i) PROVE HelperInv'
  BY <1>11 DEF StartHelper, appVars, buildVars, treeVars, history
<1>12. ASSUME NEW h \in Helpers, SuiteGone(h) PROVE HelperInv'
  BY <1>12 DEF SuiteGone, Goes, Ended, appVars, buildVars, treeVars, history
<1>13. ASSUME NEW h \in Helpers, ClearBackup(h) PROVE HelperInv'
  BY <1>13 DEF ClearBackup, Goes, appVars, buildVars, treeVars, history
<1>14. ASSUME NEW h \in Helpers, SetAside(h) PROVE HelperInv'
  BY <1>14 DEF SetAside, Goes, appVars, buildVars, treeVars, history
<1>15. ASSUME NEW h \in Helpers, AsideFails(h) PROVE HelperInv'
  BY <1>15 DEF AsideFails, Goes, appVars, buildVars, treeVars, history
<1>16. ASSUME NEW h \in Helpers, PutInPlace(h) PROVE HelperInv'
  BY <1>16 DEF PutInPlace, Goes, appVars, buildVars, treeVars, history
<1>17. ASSUME NEW h \in Helpers, PutFails(h) PROVE HelperInv'
  BY <1>17 DEF PutFails, Goes, appVars, buildVars, treeVars, history
<1>18. ASSUME NEW h \in Helpers, LaunchNew(h) PROVE HelperInv'
  BY <1>18 DEF LaunchNew, Goes, Started, appVars, buildVars, treeVars, history
<1>19. ASSUME NEW h \in Helpers, Confirmed(h) PROVE HelperInv'
  BY <1>19 DEF Confirmed, Goes, appVars, buildVars, treeVars, history
<1>20. ASSUME NEW h \in Helpers, NotConfirmed(h) PROVE HelperInv'
  BY <1>20 DEF NotConfirmed, Goes, Ended, appVars, buildVars, treeVars, history
<1>21. ASSUME NEW h \in Helpers, Remove(h) PROVE HelperInv'
  BY <1>21 DEF Remove, Goes, appVars, buildVars, treeVars, history
<1>22. ASSUME NEW h \in Helpers, RemoveFails(h) PROVE HelperInv'
  BY <1>22 DEF RemoveFails, Goes, appVars, buildVars, treeVars, history
<1>23. ASSUME NEW h \in Helpers, Restore(h) PROVE HelperInv'
  BY <1>23 DEF Restore, Goes, appVars, buildVars, treeVars, history
<1>24. ASSUME NEW h \in Helpers, Relaunch(h) PROVE HelperInv'
  BY <1>24 DEF Relaunch, Goes, Started, appVars, buildVars, treeVars, history
<1>25. ASSUME NEW h \in Helpers, HelperDies(h) PROVE HelperInv'
  BY <1>25 DEF HelperDies, appVars, buildVars, treeVars, history
<1>26. CASE UNCHANGED helperVars
  BY <1>26 DEF helperVars, appVars, buildVars, treeVars, history
<1>. QED
  BY <1>1, <1>2, <1>3, <1>4, <1>5, <1>6, <1>7, <1>8, <1>9, <1>10, <1>11,
     <1>12, <1>13, <1>14, <1>15, <1>16, <1>17, <1>18, <1>19, <1>20, <1>21,
     <1>22, <1>23, <1>24, <1>25, <1>26 DEF HelperNext, HelperWorks, InstallWorks

(* Every reachable state is well typed, and only versions that open were   *)
(* seen ready, run ready or defer an update.                               *)
LEMMA HelperInvariant == HelperSafeSpec => []HelperInv
  BY InitHelper, NextHelper, PTL DEF HelperSafeSpec

(* Every variable of the helper's world keeps its type.                    *)
THEOREM HelperTypeCorrect == HelperSafeSpec => []HelperTypeOK
<1>1. HelperInv => HelperTypeOK
  BY DEF HelperInv
<1>. QED
  BY <1>1, HelperInvariant, PTL

-------------------------------------------------------------------------------
(* The trial.                                                              *)

Safe == OneAtATime /\ AppStaysClear /\ StageKeeps /\ RestKeeps

LEMMA TrialInit == HelperInit => TrialInv
<1> SUFFICES ASSUME HelperInit PROVE Safe
  BY DEF TrialInv, Safe
<1>1. /\ \A h \in Helpers : helper[h] = "idle"
      /\ \A i \in Installers : installing[i] = "none"
      /\ target \in opens
  BY DEF HelperInit
<1>. QED
  BY <1>1 DEF HelperInit, Safe, OneAtATime, AppStaysClear, StageKeeps, RestKeeps

LEMMA TrialStep == HelperInv /\ TrialInv /\ [HelperNext]_helperVars => TrialInv'
<1> SUFFICES ASSUME HelperInv, TrialInv, [HelperNext]_helperVars, ~crossed', ~early'
             PROVE Safe'
  BY DEF TrialInv, Safe, Excused
<1> USE ReleaseFacts
<1> USE DEF HelperInv, HelperTypeOK, AppFacts, TrialInv, Excused, AtWork
<1> USE DEF Safe, OneAtATime, AppStaysClear, StageKeeps, RestKeeps
<1>1. CASE LaunchApp
  BY <1>1 DEF LaunchApp, Started, appVars, buildVars, treeVars, history
<1>2. CASE Opening
  BY <1>2 DEF Opening, appVars, buildVars, treeVars, history
<1>3. CASE Ready
  BY <1>3 DEF Ready, appVars, buildVars, treeVars, history
<1>4. CASE OpenFails
  BY <1>4 DEF OpenFails, Ended, appVars, buildVars, treeVars, history
<1>5. CASE AppCloses
  BY <1>5 DEF AppCloses, Ended, appVars, buildVars, treeVars, history
<1>6. CASE Later
  BY <1>6 DEF Later, appVars, buildVars, treeVars, history
<1>7. CASE QuitForUpdate
  BY <1>7 DEF QuitForUpdate, Ended, appVars, buildVars, treeVars, history
<1>8. ASSUME NEW i \in Installers, BeginInstall(i) PROVE Safe'
  BY <1>8 DEF BeginInstall, appVars, buildVars, treeVars, history
<1>9. ASSUME NEW i \in Installers, ArchiveExtracted(i) PROVE Safe'
  BY <1>9 DEF ArchiveExtracted, appVars, buildVars, treeVars, history
<1>10. ASSUME NEW i \in Installers, ArchiveFails(i) PROVE Safe'
  BY <1>10 DEF ArchiveFails, appVars, buildVars, treeVars, history
<1>11. ASSUME NEW i \in Installers, StartHelper(i) PROVE Safe'
  BY <1>11 DEF StartHelper, appVars, buildVars, treeVars, history
<1>12. ASSUME NEW h \in Helpers, SuiteGone(h) PROVE Safe'
  BY <1>12 DEF SuiteGone, Goes, Ended, appVars, buildVars, treeVars, history
<1>13. ASSUME NEW h \in Helpers, ClearBackup(h) PROVE Safe'
  BY <1>13 DEF ClearBackup, Goes, appVars, buildVars, treeVars, history
<1>14. ASSUME NEW h \in Helpers, SetAside(h) PROVE Safe'
  BY <1>14 DEF SetAside, Goes, appVars, buildVars, treeVars, history
<1>15. ASSUME NEW h \in Helpers, AsideFails(h) PROVE Safe'
  BY <1>15 DEF AsideFails, Goes, appVars, buildVars, treeVars, history
<1>16. ASSUME NEW h \in Helpers, PutInPlace(h) PROVE Safe'
  BY <1>16 DEF PutInPlace, Goes, appVars, buildVars, treeVars, history
<1>17. ASSUME NEW h \in Helpers, PutFails(h) PROVE Safe'
  BY <1>17 DEF PutFails, Goes, appVars, buildVars, treeVars, history
<1>18. ASSUME NEW h \in Helpers, LaunchNew(h) PROVE Safe'
  BY <1>18 DEF LaunchNew, Goes, Started, appVars, buildVars, treeVars, history
<1>19. ASSUME NEW h \in Helpers, Confirmed(h) PROVE Safe'
  <2>1. ~early /\ ~crossed /\ target \in opened
    BY <1>19 DEF Confirmed
  <2>2. target \in opens /\ target' = target /\ opens' = opens
    BY <1>19, <2>1 DEF Confirmed
  <2>3. OneAtATime /\ AppStaysClear /\ StageKeeps
    BY <2>1
  <2>4. /\ helper[h] = "confirm" /\ helper' = [helper EXCEPT ![h] = "idle"]
        /\ UNCHANGED appVars
    BY <1>19 DEF Confirmed, Goes
  <2>. QED
    BY <2>2, <2>3, <2>4 DEF appVars, buildVars
<1>20. ASSUME NEW h \in Helpers, NotConfirmed(h) PROVE Safe'
  BY <1>20 DEF NotConfirmed, Goes, Ended, appVars, buildVars, treeVars, history
<1>21. ASSUME NEW h \in Helpers, Remove(h) PROVE Safe'
  BY <1>21 DEF Remove, Goes, appVars, buildVars, treeVars, history
<1>22. ASSUME NEW h \in Helpers, RemoveFails(h) PROVE Safe'
  BY <1>22 DEF RemoveFails, Goes, appVars, buildVars, treeVars, history
<1>23. ASSUME NEW h \in Helpers, Restore(h) PROVE Safe'
  BY <1>23 DEF Restore, Goes, appVars, buildVars, treeVars, history
<1>24. ASSUME NEW h \in Helpers, Relaunch(h) PROVE Safe'
  BY <1>24 DEF Relaunch, Goes, Started, appVars, buildVars, treeVars, history
<1>25. ASSUME NEW h \in Helpers, HelperDies(h) PROVE Safe'
  BY <1>25 DEF HelperDies, appVars, buildVars, treeVars, history
<1>26. CASE UNCHANGED helperVars
  BY <1>26 DEF helperVars, appVars, buildVars, treeVars, history
<1>. QED
  BY <1>1, <1>2, <1>3, <1>4, <1>5, <1>6, <1>7, <1>8, <1>9, <1>10, <1>11,
     <1>12, <1>13, <1>14, <1>15, <1>16, <1>17, <1>18, <1>19, <1>20, <1>21,
     <1>22, <1>23, <1>24, <1>25, <1>26 DEF HelperNext, HelperWorks, InstallWorks

LEMMA TrialInvariant == HelperSafeSpec => []TrialInv
  BY HelperInvariant, TrialInit, TrialStep, PTL DEF HelperSafeSpec

(* Whatever the helpers and a power cut do, a package that opens is        *)
(* installed or kept, for any number of releases, helpers and cuts.        *)
THEOREM UsableCopy == HelperSafeSpec => []UsableCopyRemains
<1>1. ASSUME HelperInv, TrialInv PROVE UsableCopyRemains
  <2> SUFFICES ASSUME ~Excused PROVE UsableCopyRemains
    BY DEF UsableCopyRemains
  <2>1. StageKeeps /\ RestKeeps
    BY <1>1 DEF TrialInv
  <2>2. CASE \A h \in Helpers : helper[h] = "idle"
    BY <2>1, <2>2 DEF RestKeeps, UsableCopyRemains, AtWork
  <2>3. ASSUME NEW h \in Helpers, helper[h] # "idle" PROVE UsableCopyRemains
    <3>1. h \in AtWork
      BY <2>3 DEF AtWork
    <3>2. target \in opens \/ backup \in opens
      BY <1>1, <2>1, <2>3 DEF StageKeeps, HelperInv, HelperTypeOK
    <3>. QED
      BY <3>1, <3>2 DEF UsableCopyRemains
  <2>. QED
    BY <2>2, <2>3
<1>. QED
  BY <1>1, HelperInvariant, TrialInvariant, PTL
===============================================================================
