----------------------------- MODULE UpdateManager -----------------------------
(***************************************************************************)
(* app_updater.py, the update manager of the running app: its downloads,   *)
(* the background checker, the restart that waits until the app is idle    *)
(* and Later, which is kept on disk and taken up by the next launch.       *)
(*                                                                         *)
(* Every block under the manager's lock is one action; the lock is held    *)
(* for longer only by a thread that waits for itself (jammed).  Only the   *)
(* small app package is modelled, offered by the release after VERSION;    *)
(* the full installers replace the app on their own.  The threads that     *)
(* install are named by what started them: the user's request, the restart *)
(* after a verified download (auto), the one that waited until the app was *)
(* idle (waiter), and the launch that takes up Later.  What the helper     *)
(* does with the package is UpdateHelper's; here the app is started again  *)
(* in the old or in the new version.                                       *)
(***************************************************************************)
EXTENDS Integers, FiniteSets

CONSTANTS
  MaxVersion, \* newest release (bounds the model only)
  Downloads,  \* download threads alive at a time (bounds the model only)
  MaxActs     \* what the user does (bounds the model only)

ASSUME ManagerAssumption == MaxVersion \in Nat /\ MaxActs \in Nat /\ Downloads # {}

Versions == 0..MaxVersion
Never    == -1
Callers  == {"user", "auto", "waiter", "launch"}
InUse    == {"downloading", "verifying", "ready", "waiting", "installing"}

VARIABLES
  up,       \* how far the app process is
  running,  \* its VERSION
  st,       \* UpdateManager.state
  jammed,   \* a thread holds _lock and waits for it
  cancel,   \* _cancel
  path,     \* a verified package is remembered
  deferred, \* deferred
  plan,     \* a plan is remembered
  failures, \* failed downloads of the background checker
  dl,       \* where each download thread is
  last,     \* _thread
  grace,    \* the restart after a verified download is about to be asked for
  waiter,   \* _restart_thread
  missed,   \* a request relied on that thread while it was leaving (history)
  install,  \* where the threads that install are
  saving,   \* defer still has to write its marker
  quit,     \* the quit timer runs
  loop,     \* where the background checker is
  busy,     \* dictation or a media job is running
  auto,     \* automatic updates are on (kept on disk)
  archives, \* the downloaded packages (kept on disk)
  handed,   \* a helper has the package
  later,    \* apply-on-launch.json: the version that wrote it, or Never
  laters,   \* times it was written (history)
  tries,    \* times a launch acted on it (history)
  acts      \* what the user did so far (history, bounded)

procVars  == <<up, running>>
flagVars  == <<jammed, cancel, path, deferred, plan, failures>>
dlVars    == <<dl, last>>
loopVars  == <<loop, grace>>
goVars    == <<waiter, missed, install, saving, quit>>
diskVars  == <<auto, archives, handed, later, laters, tries>>
vars == <<procVars, st, flagVars, dlVars, loopVars, goVars, busy, diskVars, acts>>

(* Every variable has its type; the checker gave up after two failures.    *)
TypeOK ==
  /\ up \in {"down", "launch", "ready"} /\ running \in Versions
  /\ st \in InUse \cup {"idle", "failed", "cancelled"}
  /\ {jammed, cancel, path, deferred, plan} \subseteq BOOLEAN
  /\ failures \in 0..2
  /\ dl \in [Downloads -> {"none", "fetching", "fetched", "verifying"}]
  /\ last \in Downloads
  /\ waiter \in {"none", "poll", "idle", "leaving"}
  /\ install \in [Callers -> {"none", "asked", "begin", "extract", "spawn"}]
  /\ loop \in {"sleep", "check", "start", "join"}
  /\ {grace, missed, saving, quit, busy, auto, handed} \subseteq BOOLEAN
  /\ archives \subseteq Versions
  /\ later \in Versions \cup {Never}
  /\ laters \in 0..MaxActs /\ tries \in Nat
  /\ acts \in 0..MaxActs

Init ==
  /\ up = "down" /\ running = 0
  /\ st = "idle" /\ jammed = FALSE /\ cancel = FALSE /\ path = FALSE
  /\ deferred = FALSE /\ plan = FALSE /\ failures = 0
  /\ dl = [t \in Downloads |-> "none"] /\ last = CHOOSE t \in Downloads : TRUE
  /\ loop = "sleep" /\ grace = FALSE
  /\ waiter = "none" /\ missed = FALSE /\ install = [c \in Callers |-> "none"]
  /\ saving = FALSE /\ quit = FALSE /\ busy = FALSE
  /\ auto = TRUE /\ archives = {} /\ handed = FALSE
  /\ later = Never /\ laters = 0 /\ tries = 0 /\ acts = 0

Offered  == running + 1
Lock     == ~jammed
Alive(t) == dl[t] # "none"
UserActs == up = "ready" /\ acts < MaxActs /\ acts' = acts + 1

-------------------------------------------------------------------------------
(* The threads and their memory end with the process.                      *)
ProcessEnds ==
  /\ up' = "down"
  /\ st' = "idle" /\ jammed' = FALSE /\ cancel' = FALSE /\ path' = FALSE
  /\ deferred' = FALSE /\ plan' = FALSE /\ failures' = 0
  /\ dl' = [t \in Downloads |-> "none"] /\ last' = CHOOSE t \in Downloads : TRUE
  /\ loop' = "sleep" /\ grace' = FALSE
  /\ waiter' = "none" /\ missed' = FALSE /\ install' = [c \in Callers |-> "none"]
  /\ saving' = FALSE /\ quit' = FALSE /\ busy' = FALSE
  /\ UNCHANGED <<running, diskVars>>

(* The user quits the app or it crashes.                                   *)
AppEnds ==
  /\ up # "down" /\ acts < MaxActs
  /\ ProcessEnds
  /\ acts' = acts + 1

(* quit_for_update                                                         *)
Quit == quit /\ ProcessEnds /\ UNCHANGED acts

(* By the helper in the new version or the old one, or by the user.        *)
Launch ==
  /\ up = "down"
  /\ up' = "launch" /\ handed' = FALSE
  /\ running' \in {running} \cup IF handed THEN {Offered} ELSE {}
  /\ UNCHANGED <<st, flagVars, dlVars, loopVars, goVars, busy, auto, archives, later, laters, tries, acts>>

BusyChanges ==
  /\ up = "ready"
  /\ busy' = ~busy
  /\ UNCHANGED <<procVars, st, flagVars, dlVars, loopVars, goVars, diskVars, acts>>

(* The user's check remembers a plan unless an update is under way.        *)
Remember ==
  /\ UserActs /\ Offered \in Versions /\ Lock /\ st \notin InUse
  /\ plan' = TRUE
  /\ UNCHANGED <<procVars, st, jammed, cancel, path, deferred, failures, dlVars, loopVars, goVars,
                 busy, diskVars>>

-------------------------------------------------------------------------------
(* start(): in the first branch it asks for the status under its own lock. *)
StartDownload ==
  IF st \in {"downloading", "verifying"}
  THEN /\ jammed' = TRUE
       /\ UNCHANGED <<st, cancel, path, deferred, dlVars>>
  ELSE \E t \in Downloads :
         /\ ~Alive(t)
         /\ dl' = [dl EXCEPT ![t] = "fetching"] /\ last' = t
         /\ cancel' = FALSE /\ st' = "downloading" /\ deferred' = FALSE /\ path' = FALSE
         /\ UNCHANGED jammed

UserStarts ==
  /\ UserActs /\ Lock /\ plan
  /\ StartDownload
  /\ UNCHANGED <<procVars, plan, failures, loopVars, goVars, busy, diskVars>>

(* cancel(): the event is set before the lock is taken.                    *)
Cancel ==
  /\ UserActs
  /\ cancel' = TRUE
  /\ st' = CASE Lock /\ st = "downloading" -> "cancelled"
             [] Lock /\ st = "waiting" -> "ready"
             [] OTHER -> st
  /\ UNCHANGED <<procVars, jammed, path, deferred, plan, failures, dlVars, loopVars, goVars, busy, diskVars>>

(* A step of one download thread: where it goes and what state it sets.    *)
DownloadStep(t, from, to, state) ==
  /\ dl[t] = from
  /\ dl' = [dl EXCEPT ![t] = to]
  /\ Lock /\ st' = state
  /\ UNCHANGED <<procVars, jammed, cancel, deferred, plan, failures, last, loop, goVars, busy,
                 auto, handed, later, laters, tries, acts>>

(* download_file and the look at the cancel event behind it.               *)
Downloaded(t) ==
  /\ ~cancel
  /\ DownloadStep(t, "fetching", "fetched", st)
  /\ archives' = archives \cup {Offered}
  /\ UNCHANGED <<path, grace>>

(* The event is seen before the file is complete or after.                 *)
Stopped(t) ==
  /\ cancel
  /\ DownloadStep(t, "fetching", "none", "cancelled")
  /\ archives' \in {archives, archives \cup {Offered}}
  /\ UNCHANGED <<path, grace>>

Failed == IF st = "cancelled" THEN st ELSE "failed"

DownloadFails(t) ==
  /\ DownloadStep(t, "fetching", "none", Failed)
  /\ UNCHANGED <<path, grace, archives>>

Verify(t) ==
  /\ DownloadStep(t, "fetched", "verifying", "verifying")
  /\ UNCHANGED <<path, grace, archives>>

(* The checksum matches; the restart is scheduled at once.                 *)
Verified(t) ==
  /\ DownloadStep(t, "verifying", "none", "ready")
  /\ path' = TRUE
  /\ grace' = (grace \/ auto)
  /\ UNCHANGED archives

(* The file is deleted: a wrong checksum, or a package the restart refuses. *)
Rejected(t) ==
  /\ DownloadStep(t, "verifying", "none", Failed)
  /\ archives' = archives \ {Offered}
  /\ UNCHANGED <<path, grace>>

-------------------------------------------------------------------------------
(* request_restart, up to the unlocked busy check.                         *)
Ask(c) ==
  /\ install[c] = "none" /\ Lock
  /\ st \in {"ready", "waiting"} /\ path /\ plan
  /\ install' = [install EXCEPT ![c] = "asked"]

UserAsks ==
  /\ UserActs
  /\ Ask("user")
  /\ UNCHANGED <<procVars, st, flagVars, dlVars, loopVars, waiter, missed, saving, quit, busy, diskVars>>

GraceEnds ==
  /\ grace /\ Lock
  /\ grace' = FALSE
  /\ IF st = "ready" /\ ~deferred THEN Ask("auto") ELSE UNCHANGED install
  /\ UNCHANGED <<procVars, st, flagVars, dlVars, loop, waiter, missed, saving, quit, busy, diskVars, acts>>

(* While busy the request is left to the thread that waits.                *)
Decide(c) ==
  /\ install[c] = "asked"
  /\ IF busy
     THEN /\ Lock
          /\ install' = [install EXCEPT ![c] = "none"]
          /\ st' = "waiting"
          /\ waiter' = IF waiter = "none" THEN "poll" ELSE waiter
          /\ missed' = (waiter = "leaving")
     ELSE /\ install' = [install EXCEPT ![c] = "begin"]
          /\ UNCHANGED <<st, waiter, missed>>
  /\ UNCHANGED <<procVars, flagVars, dlVars, loopVars, saving, quit, busy, diskVars, acts>>

(* Faulty: the thread leaves while the app is busy.                        *)
FaultyWaiterPolls ==
  /\ waiter = "poll" /\ Lock
  /\ waiter' = IF st # "waiting" \/ busy THEN "leaving" ELSE "idle"
  /\ UNCHANGED <<procVars, st, flagVars, dlVars, loopVars, missed, install, saving, quit, busy, diskVars, acts>>

(* _restart_when_idle: it looks at the state and, unlocked, at the app.    *)
WaiterPolls ==
  /\ waiter = "poll" /\ Lock
  /\ st # "waiting" \/ ~busy
  /\ waiter' = IF st # "waiting" THEN "leaving" ELSE "idle"
  /\ UNCHANGED <<procVars, st, flagVars, dlVars, loopVars, missed, install, saving, quit, busy, diskVars, acts>>

WaiterGoes ==
  /\ waiter = "idle" /\ install["waiter"] = "none" /\ Lock
  /\ IF st = "waiting"
     THEN /\ st' = "ready"
          /\ install' = [install EXCEPT !["waiter"] = "begin"]
          /\ UNCHANGED waiter
     ELSE waiter' = "leaving" /\ UNCHANGED <<st, install>>
  /\ UNCHANGED <<procVars, flagVars, dlVars, loopVars, missed, saving, quit, busy, diskVars, acts>>

WaiterEnds ==
  /\ waiter = "leaving"
  /\ waiter' = "none"
  /\ UNCHANGED <<procVars, st, flagVars, dlVars, loopVars, missed, install, saving, quit, busy, diskVars, acts>>

-------------------------------------------------------------------------------
(* A thread that installs is done; the waiter ends with it.                *)
Returns(c) ==
  /\ install' = [install EXCEPT ![c] = "none"]
  /\ waiter' = IF c = "waiter" THEN "leaving" ELSE waiter

(* begin_install: the marker of Later goes, the archive is being extracted. *)
Begin(c) ==
  /\ install[c] = "begin" /\ Lock
  /\ IF st = "ready" /\ path /\ plan
     THEN /\ install' = [install EXCEPT ![c] = "extract"]
          /\ later' = Never
          /\ UNCHANGED <<st, waiter>>
     ELSE /\ Returns(c)
          /\ st' = IF c = "waiter" /\ st # "installing" THEN "failed" ELSE st
          /\ UNCHANGED later
  /\ UNCHANGED <<procVars, flagVars, dlVars, loopVars, missed, saving, quit, busy,
                 auto, archives, handed, laters, tries, acts>>

Extracted(c) ==
  /\ install[c] = "extract" /\ Offered \in archives
  /\ install' = [install EXCEPT ![c] = "spawn"]
  /\ UNCHANGED <<procVars, st, flagVars, dlVars, loopVars, waiter, missed, saving, quit, busy, diskVars, acts>>

(* The archive cannot be read (only the waiter reports it), or its runtime *)
(* does not match.                                                         *)
ExtractFails(c) ==
  /\ install[c] = "extract" /\ Lock
  /\ Returns(c)
  /\ st' \in {"failed", IF c = "waiter" /\ st # "installing" THEN "failed" ELSE st}
  /\ UNCHANGED <<procVars, flagVars, dlVars, loopVars, missed, saving, quit, busy, diskVars, acts>>

(* pending.json is written, the helper started and the quit timer set.     *)
SpawnHelper(c) ==
  /\ install[c] = "spawn"
  /\ handed' = TRUE /\ quit' = TRUE
  /\ st' = IF Lock THEN "installing" ELSE st
  /\ Returns(c)
  /\ UNCHANGED <<procVars, flagVars, dlVars, loopVars, missed, saving, busy,
                 auto, archives, later, laters, tries, acts>>

-------------------------------------------------------------------------------
(* defer, and outside the lock the file that remembers it.                 *)
Defer ==
  /\ UserActs /\ Lock /\ ~saving
  /\ st \in {"ready", "waiting"} /\ path /\ plan
  /\ st' = "ready" /\ deferred' = TRUE /\ saving' = TRUE
  /\ UNCHANGED <<procVars, jammed, cancel, path, plan, failures, dlVars, loopVars, waiter, missed,
                 install, quit, busy, diskVars>>

SaveLater ==
  /\ saving
  /\ saving' = FALSE
  /\ later' = running /\ laters' = laters + 1
  /\ UNCHANGED <<procVars, st, flagVars, dlVars, loopVars, waiter, missed, install, quit, busy,
                 auto, archives, handed, tries, acts>>

(* set_auto_update_enabled                                                 *)
SetAuto(on) ==
  /\ UserActs /\ on # auto
  /\ on \/ Lock
  /\ auto' = on
  /\ later' = IF on THEN later ELSE Never
  /\ deferred' = (on /\ deferred)
  /\ UNCHANGED <<procVars, st, jammed, cancel, path, plan, failures, dlVars, loopVars, goVars, busy,
                 archives, handed, laters, tries>>

(* Faulty: the marker stays until the installation begins.                 *)
FaultyTakenUp == later

TakenUp == Never

(* apply_deferred_update_on_launch: the marker goes first; the package is  *)
(* adopted and installed, or the app goes on opening.                      *)
LaunchTakesUp ==
  /\ up = "launch" /\ later # Never /\ st = "idle"
  /\ later' = TakenUp
  /\ IF auto /\ later = running /\ Offered \in archives
     THEN /\ tries' = tries + 1
          /\ plan' = TRUE /\ path' = TRUE /\ st' = "ready"
          /\ install' = [install EXCEPT !["launch"] = "begin"]
          /\ UNCHANGED up
     ELSE up' = "ready" /\ UNCHANGED <<tries, plan, path, st, install>>
  /\ UNCHANGED <<running, jammed, cancel, deferred, failures, dlVars, loopVars, waiter, missed,
                 saving, quit, busy, auto, archives, handed, laters, acts>>

Opens ==
  /\ up = "launch" /\ install["launch"] = "none" /\ ~quit
  /\ later = Never \/ st # "idle"
  /\ up' = "ready"
  /\ UNCHANGED <<running, st, flagVars, dlVars, loopVars, goVars, busy, diskVars, acts>>

-------------------------------------------------------------------------------
(* AutoUpdater: its check is a request to the network.                     *)
CheckBegins ==
  /\ up = "ready" /\ loop = "sleep" /\ auto /\ Offered \in Versions
  /\ st \notin InUse
  /\ loop' = "check"
  /\ UNCHANGED <<procVars, st, flagVars, dlVars, grace, goVars, busy, diskVars, acts>>

(* Faulty: it never gives a version up.                                    *)
FaultyCheckEnds ==
  /\ loop = "check" /\ Lock
  /\ plan' = (plan \/ st \notin InUse)
  /\ loop' \in {"sleep"} \cup IF plan' THEN {"start"} ELSE {}
  /\ UNCHANGED <<procVars, st, jammed, cancel, path, deferred, failures, dlVars, grace, goVars,
                 busy, diskVars, acts>>

(* A version whose download failed twice is left to the user.              *)
CheckEnds ==
  /\ loop = "check" /\ Lock
  /\ plan' = (plan \/ st \notin InUse)
  /\ loop' \in {"sleep"} \cup IF failures < 2 /\ plan' THEN {"start"} ELSE {}
  /\ UNCHANGED <<procVars, st, jammed, cancel, path, deferred, failures, dlVars, grace, goVars,
                 busy, diskVars, acts>>

LoopStarts ==
  /\ loop = "start" /\ Lock
  /\ StartDownload
  /\ loop' = IF jammed' THEN "start" ELSE "join"
  /\ UNCHANGED <<procVars, plan, failures, grace, goVars, busy, diskVars, acts>>

LoopJoins ==
  /\ loop = "join" /\ ~Alive(last)
  /\ loop' = "sleep"
  /\ failures' = IF st = "ready" THEN failures ELSE failures + 1
  /\ UNCHANGED <<procVars, st, jammed, cancel, path, deferred, plan, dlVars, grace, goVars,
                 busy, diskVars, acts>>

-------------------------------------------------------------------------------
Download(t) ==
  Downloaded(t) \/ Stopped(t) \/ DownloadFails(t) \/ Verify(t) \/ Verified(t) \/ Rejected(t)

Install(c) == Decide(c) \/ Begin(c) \/ Extracted(c) \/ ExtractFails(c) \/ SpawnHelper(c)

Waiter == WaiterPolls \/ WaiterGoes \/ WaiterEnds

Next ==
  \/ AppEnds \/ Quit \/ Launch \/ LaunchTakesUp \/ Opens
  \/ BusyChanges \/ Remember \/ UserStarts \/ Cancel \/ UserAsks \/ Defer
  \/ SaveLater \/ GraceEnds \/ Waiter
  \/ CheckBegins \/ CheckEnds \/ LoopStarts \/ LoopJoins
  \/ \E t \in Downloads : Download(t)
  \/ \E c \in Callers : Install(c)
  \/ \E on \in BOOLEAN : SetAuto(on)

SafeSpec == Init /\ [][Next]_vars

(* A download goes on or its request times out; the thread that waits for  *)
(* the app to be idle polls, and installs.                                 *)
Spec ==
  /\ SafeSpec
  /\ \A t \in Downloads : WF_vars(Download(t))
  /\ WF_vars(Waiter)
  /\ WF_vars(Install("waiter"))

-------------------------------------------------------------------------------
(* start, status and cancel can be answered: no thread waits for the lock  *)
(* it holds.                                                               *)
ProgressCanBePolled == Lock

(* A package the user deferred is installed by a launch at most once, also *)
(* when that launch is cut short.                                          *)
LaterIsTriedOnce == tries <= laters

(* A download ends: the settings page never shows one that no thread runs. *)
DownloadEnds ==
  st \in {"downloading", "verifying"} ~> st \notin {"downloading", "verifying"} \/ jammed

(* A restart that waits until the app is idle happens once it stays idle,  *)
(* unless it is called off.  Not so when the request relied on a thread    *)
(* that had already seen the previous one called off.                      *)
RestartIsServed ==
  st = "waiting" ~> st # "waiting" \/ busy \/ jammed \/ missed

(* What the update card promises comes: the end of a download and, when    *)
(* the app is idle, the restart.                                           *)
UserIsServed == DownloadEnds /\ RestartIsServed

===============================================================================
