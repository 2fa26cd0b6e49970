----------------------------- MODULE UpdateHelper -----------------------------
(***************************************************************************)
(* app_updater.py, the process that puts a staged package in the app's     *)
(* place after the app has exited, and the directories it works on.        *)
(*                                                                         *)
(* A package is its version; a version opens or does not, which is chosen  *)
(* once (opens).  A step of a helper is one call that changes a file or a  *)
(* process; a helper may die before any of them.  Of the app only what it  *)
(* does to these files is here: it opens, confirms its launch, extracts a  *)
(* package, starts a helper and quits.  When it does so is UpdateManager's *)
(* (from which every name differs, so that one module can extend both).    *)
(***************************************************************************)
EXTENDS Integers, FiniteSets

CONSTANTS
  MaxRelease, \* newest release (bounds the model only)
  Helpers,    \* helper processes at a time (bounds the model only)
  Installers, \* threads of the app that install (bounds the model only)
  MaxEnds     \* times the app or a helper is cut short (bounds the model only)

ASSUME HelperAssumption == MaxRelease \in Nat /\ MaxEnds \in Nat

NoTree   == -1           \* the directory does not exist
TornTree == -2           \* a directory that lacks files
Releases == 0..MaxRelease
Trees    == Releases \cup {NoTree, TornTree}

VARIABLES
  opens,      \* the versions that reach their ready loop
  target,     \* the installed package
  backup,     \* voice_flow.bak
  staging,    \* the extracted package
  marker,     \* update-ok exists
  pending,    \* pending.json exists
  deferral,   \* the version that wrote apply-on-launch.json, or NoTree
  app,        \* how far the app process is
  build,      \* its VERSION
  child,      \* a helper started it
  installing, \* where each thread that installs is
  quitting,   \* the quit timer runs
  helper,     \* where each helper is
  opened,     \* the versions that were seen ready (history)
  crossed,    \* an install or a launch met a helper or install at work (history)
  early,      \* a backup was dropped for a build that had not opened (history)
  cut,        \* a helper was cut short (history)
  ends        \* times the app or a helper was cut short (history, bounded)

treeVars   == <<target, backup, staging>>
buildVars  == <<app, build, child>>
appVars    == <<buildVars, installing, quitting>>
history    == <<opened, crossed, early, cut, ends>>
helperVars == <<opens, treeVars, marker, pending, deferral, appVars, helper, history>>

AtWork == {h \in Helpers : helper[h] # "idle"}

(* Every variable has its type.                                            *)
HelperTypeOK ==
  /\ opens \subseteq Releases
  /\ target \in Trees /\ backup \in Trees /\ staging \in Trees
  /\ marker \in BOOLEAN /\ pending \in BOOLEAN /\ deferral \in Releases \cup {NoTree}
  /\ app \in {"down", "launch", "opening", "ready"}
  /\ build \in Releases /\ child \in BOOLEAN
  /\ helper \in [Helpers -> {"idle", "waiting", "clear", "aside", "put", "putOnly", "launch",
                             "confirm", "remove", "restore", "relaunch"}]
  /\ installing \in [Installers -> {"none", "extract", "spawn"}] /\ quitting \in BOOLEAN
  /\ opened \subseteq Releases
  /\ crossed \in BOOLEAN /\ early \in BOOLEAN /\ cut \in BOOLEAN /\ ends \in 0..MaxEnds

(* Version 0 is installed and works; of the later ones nobody knows.       *)
HelperInit ==
  /\ \E S \in SUBSET (1..MaxRelease) : opens = S \cup {0}
  /\ target = 0 /\ backup = NoTree /\ staging = NoTree
  /\ marker = FALSE /\ pending = FALSE /\ deferral = NoTree
  /\ app = "down" /\ build = 0 /\ child = FALSE
  /\ installing = [i \in Installers |-> "none"] /\ quitting = FALSE
  /\ helper = [h \in Helpers |-> "idle"]
  /\ opened = {0} /\ crossed = FALSE /\ early = FALSE /\ cut = FALSE /\ ends = 0

-------------------------------------------------------------------------------
(* Faulty: what is in the package's place is started, whatever it is.      *)
FaultyStarted(byHelper) ==
  IF app = "down"
  THEN app' = "launch" /\ build' = target /\ child' = byHelper /\ UNCHANGED <<installing, quitting>>
  ELSE UNCHANGED appVars

(* Starting the installed package: nothing happens when it cannot start or *)
(* an app is already running (the single-instance lock).                   *)
Started(byHelper) ==
  IF app = "down" /\ target \in Releases
  THEN app' = "launch" /\ build' = target /\ child' = byHelper /\ UNCHANGED <<installing, quitting>>
  ELSE UNCHANGED appVars

Ended ==
  /\ app' = "down"
  /\ installing' = [i \in Installers |-> "none"] /\ quitting' = FALSE

LaunchApp ==
  /\ app = "down" /\ target \in Releases
  /\ Started(FALSE)
  /\ crossed' = (crossed \/ AtWork # {})
  /\ UNCHANGED <<opens, treeVars, marker, pending, deferral, helper, opened, early, cut, ends>>

(* run, when no deferred update is being installed: its marker is gone.    *)
Opening ==
  /\ app = "launch" /\ ~quitting /\ \A i \in Installers : installing[i] = "none"
  /\ app' = "opening" /\ deferral' = NoTree
  /\ UNCHANGED <<opens, treeVars, marker, pending, build, child, installing, quitting, helper, history>>

(* run reaches its end: confirm_successful_launch writes the marker when a *)
(* pending.json is there.                                                  *)
Ready ==
  /\ app = "opening" /\ build \in opens
  /\ app' = "ready"
  /\ marker' = (marker \/ pending)
  /\ opened' = opened \cup {build}
  /\ UNCHANGED <<opens, treeVars, pending, deferral, build, child, installing, quitting, helper,
                 crossed, early, cut, ends>>

OpenFails ==
  /\ app = "opening" /\ build \notin opens
  /\ Ended
  /\ UNCHANGED <<opens, treeVars, marker, pending, deferral, build, child, helper, history>>

AppCloses ==
  /\ app # "down" /\ ends < MaxEnds
  /\ Ended /\ ends' = ends + 1
  /\ UNCHANGED <<opens, treeVars, marker, pending, deferral, build, child, helper, opened, crossed, early, cut>>

(* defer                                                                   *)
Later ==
  /\ app = "ready" /\ build + 1 \in Releases
  /\ deferral' = build
  /\ UNCHANGED <<opens, treeVars, marker, pending, appVars, helper, history>>

(* begin_install under the lock; the archive is being extracted.           *)
BeginInstall(i) ==
  /\ app = "ready" \/ (app = "launch" /\ deferral = build)
  /\ build + 1 \in Releases /\ target # NoTree
  /\ installing[i] = "none"
  /\ installing' = [installing EXCEPT ![i] = "extract"]
  /\ staging' = TornTree /\ deferral' = NoTree
  /\ crossed' = (crossed \/ AtWork # {} \/ quitting \/ \E j \in Installers : installing[j] # "none")
  /\ UNCHANGED <<opens, target, backup, marker, pending, buildVars, quitting, helper, opened, early, cut, ends>>

ArchiveExtracted(i) ==
  /\ installing[i] = "extract"
  /\ installing' = [installing EXCEPT ![i] = "spawn"]
  /\ staging' = build + 1
  /\ UNCHANGED <<opens, target, backup, marker, pending, deferral, buildVars, quitting, helper,
                 history>>

(* The archive cannot be read; or its runtime does not match: it goes.     *)
ArchiveFails(i) ==
  /\ installing[i] = "extract"
  /\ installing' = [installing EXCEPT ![i] = "none"]
  /\ staging' \in {TornTree, NoTree}
  /\ UNCHANGED <<opens, target, backup, marker, pending, deferral, buildVars, quitting, helper,
                 history>>

(* pending.json is written, the helper started and the quit timer set.     *)
StartHelper(i) ==
  /\ installing[i] = "spawn"
  /\ installing' = [installing EXCEPT ![i] = "none"]
  /\ \E h \in Helpers :
       helper[h] = "idle" /\ helper' = [helper EXCEPT ![h] = "waiting"]
  /\ pending' = TRUE /\ quitting' = TRUE
  /\ UNCHANGED <<opens, treeVars, marker, deferral, buildVars, history>>

(* quit_for_update                                                         *)
QuitForUpdate ==
  /\ quitting
  /\ Ended
  /\ UNCHANGED <<opens, treeVars, marker, pending, deferral, build, child, helper, history>>

-------------------------------------------------------------------------------
Goes(h, from, to) == helper[h] = from /\ helper' = [helper EXCEPT ![h] = to]

(* Waits for the app to exit, and ends what is left of it after 90 seconds. *)
SuiteGone(h) ==
  /\ Goes(h, "waiting", IF staging = NoTree THEN "relaunch" ELSE "clear")
  /\ Ended
  /\ UNCHANGED <<opens, treeVars, marker, pending, deferral, build, child, history>>

ClearBackup(h) ==
  /\ Goes(h, "clear", IF target = NoTree THEN "putOnly" ELSE "aside")
  /\ backup' = NoTree
  /\ UNCHANGED <<opens, target, staging, marker, pending, deferral, appVars, history>>

SetAside(h) ==
  /\ target # NoTree /\ backup = NoTree
  /\ Goes(h, "aside", "put")
  /\ backup' = target /\ target' = NoTree
  /\ UNCHANGED <<opens, staging, marker, pending, deferral, appVars, history>>

AsideFails(h) ==
  /\ Goes(h, "aside", "relaunch")
  /\ UNCHANGED <<opens, treeVars, marker, pending, deferral, appVars, history>>

PutInPlace(h) ==
  /\ staging # NoTree /\ target = NoTree
  /\ Goes(h, "put", "launch") \/ Goes(h, "putOnly", "launch")
  /\ target' = staging /\ staging' = NoTree
  /\ UNCHANGED <<opens, backup, marker, pending, deferral, appVars, history>>

(* Faulty: a failed rename leaves the previous tree in the backup.         *)
FaultyPutFails(h) ==
  /\ Goes(h, "put", "relaunch") \/ Goes(h, "putOnly", "relaunch")
  /\ UNCHANGED <<opens, treeVars, marker, pending, deferral, appVars, history>>

(* A rename that fails puts the previous tree back.                        *)
PutFails(h) ==
  /\ Goes(h, "put", "relaunch") \/ Goes(h, "putOnly", "relaunch")
  /\ IF helper[h] = "put" /\ backup # NoTree /\ target = NoTree
     THEN target' = backup /\ backup' = NoTree
     ELSE UNCHANGED <<target, backup>>
  /\ UNCHANGED <<opens, staging, marker, pending, deferral, appVars, history>>

LaunchNew(h) ==
  /\ Goes(h, "launch", "confirm")
  /\ Started(TRUE)
  /\ UNCHANGED <<opens, treeVars, marker, pending, deferral, history>>

(* The marker is there: the backup and pending.json go, the marker stays.  *)
Confirmed(h) ==
  /\ marker
  /\ Goes(h, "confirm", "idle")
  /\ backup' = NoTree /\ pending' = FALSE
  /\ early' = (early \/ target \notin opened)
  /\ UNCHANGED <<opens, target, staging, marker, deferral, appVars, opened, crossed, cut, ends>>

(* 90 seconds without a marker: the new process is ended.                  *)
NotConfirmed(h) ==
  /\ ~marker
  /\ Goes(h, "confirm", "remove")
  /\ IF child THEN Ended ELSE UNCHANGED <<app, installing, quitting>>
  /\ UNCHANGED <<opens, treeVars, marker, pending, deferral, build, child, history>>

Remove(h) ==
  /\ Goes(h, "remove", "restore")
  /\ target' = NoTree
  /\ UNCHANGED <<opens, backup, staging, marker, pending, deferral, appVars, history>>

(* A file of the package is still open: rmtree raises half way.            *)
RemoveFails(h) ==
  /\ target # NoTree
  /\ Goes(h, "remove", "relaunch")
  /\ target' = TornTree /\ cut' = TRUE
  /\ UNCHANGED <<opens, backup, staging, marker, pending, deferral, appVars, opened, crossed, early, ends>>

Restore(h) ==
  /\ Goes(h, "restore", "relaunch")
  /\ IF backup # NoTree
     THEN target' = backup /\ backup' = NoTree
     ELSE UNCHANGED <<target, backup>>
  /\ UNCHANGED <<opens, staging, marker, pending, deferral, appVars, history>>

(* Faulty: a helper that failed leaves the app closed.                     *)
FaultyRelaunch(h) ==
  /\ Goes(h, "relaunch", "idle")
  /\ UNCHANGED <<opens, treeVars, marker, pending, deferral, appVars, history>>

(* After a rollback, and after anything that went wrong.                   *)
Relaunch(h) ==
  /\ Goes(h, "relaunch", "idle")
  /\ Started(TRUE)
  /\ UNCHANGED <<opens, treeVars, marker, pending, deferral, history>>

(* The machine goes down, a directory half removed.                        *)
HelperDies(h) ==
  /\ helper[h] # "idle" /\ ends < MaxEnds
  /\ helper' = [helper EXCEPT ![h] = "idle"]
  /\ backup' \in {backup} \cup IF helper[h] = "clear" /\ backup # NoTree THEN {TornTree} ELSE {}
  /\ target' \in {target} \cup IF helper[h] = "remove" /\ target # NoTree THEN {TornTree} ELSE {}
  /\ cut' = TRUE /\ ends' = ends + 1
  /\ UNCHANGED <<opens, staging, marker, pending, deferral, appVars, opened, crossed, early>>

HelperWorks(h) ==
  \/ SuiteGone(h) \/ ClearBackup(h) \/ SetAside(h) \/ AsideFails(h)
  \/ PutInPlace(h) \/ PutFails(h) \/ LaunchNew(h) \/ Confirmed(h)
  \/ NotConfirmed(h) \/ Remove(h) \/ RemoveFails(h) \/ Restore(h) \/ Relaunch(h)

InstallWorks(i) == ArchiveExtracted(i) \/ ArchiveFails(i) \/ StartHelper(i)

HelperNext ==
  \/ LaunchApp \/ Opening \/ Ready \/ OpenFails \/ AppCloses \/ Later \/ QuitForUpdate
  \/ \E i \in Installers : BeginInstall(i) \/ InstallWorks(i)
  \/ \E h \in Helpers : HelperWorks(h) \/ HelperDies(h)

HelperSafeSpec == HelperInit /\ [][HelperNext]_helperVars

(* A helper and a thread that installs run on; a process that started      *)
(* either gets ready or does not; the quit timer fires.                    *)
HelperSpec ==
  /\ HelperSafeSpec
  /\ WF_helperVars(Opening \/ Ready \/ OpenFails)
  /\ WF_helperVars(QuitForUpdate)
  /\ \A i \in Installers : WF_helperVars(InstallWorks(i))
  /\ \A h \in Helpers : WF_helperVars(HelperWorks(h))

-------------------------------------------------------------------------------
(* What the properties leave out: a backup dropped for a build that never   *)
(* opened, and installs and launches that crossed.                         *)
Excused == early \/ crossed

(* Whatever the helpers and a power cut do, a package that opens is        *)
(* installed or kept as the backup; and when no helper is at work and none *)
(* was cut short, it is installed.                                         *)
UsableCopyRemains ==
  Excused \/
    /\ target \in opens \/ backup \in opens
    /\ AtWork = {} /\ ~cut => target \in opens

(* The backup goes when the build that replaced it has opened.             *)
BackupOutlivesTheTrial == crossed \/ ~early

(* Once a helper set to work the app opens again, the new one or the old   *)
(* one, unless its user closes it or a helper is cut short.                *)
AppComesBack ==
  \A h \in Helpers :
    helper[h] = "clear" ~> app = "ready" \/ ends > 0 \/ cut \/ Excused

===============================================================================
