--------------------------- MODULE BrowserLaunch ---------------------------
(***************************************************************************)
(* How browsers are launched, relaunched, closed and archived              *)
(* (openwpm/browser_manager.py, openwpm/deploy_browsers/deploy_firefox.py, *)
(* openwpm/commands/profile_commands.py, openwpm/task_manager.py).         *)
(*                                                                         *)
(* The handle of a browser starts a BrowserManager process, which creates  *)
(* a profile directory, loads a tar file into it, starts geckodriver and   *)
(* reports each stage on the status queue.  The handle reads the stages    *)
(* with a timeout; what was not reported in time is killed and tried       *)
(* again.  A browser that is restarted takes its profile along, through a  *)
(* tar file, unless the restart clears it.  The process watchdog, if it is *)
(* switched on, kills any old geckodriver whose pid no handle knows.       *)
(*                                                                         *)
(* Command sequences are reduced to the two things they do here: a visit   *)
(* leaves a mark in the profile and ends in a restart or not (module       *)
(* CommandExecution has the rest).  Xvfb displays are launched, recorded,  *)
(* killed and watched in the same way as geckodriver and are left out, and *)
(* so is close(relaxed=False), which kills what a thread is launching.     *)
(*                                                                         *)
(* Definitions marked "Variant:" are defective versions of the definition  *)
(* that follows them, for the model checker.                               *)
(***************************************************************************)
EXTENDS Naturals, FiniteSets

CONSTANTS
  NumBrowsers,   \* num_browsers
  SpawnLimit,    \* _UNSUCCESSFUL_SPAWN_LIMIT
  SpawnTimeout,  \* _SPAWN_TIMEOUT, in units of the clock
  Buffer,        \* the watchdog's "300 second buffer"
  MaxVisits,     \* bound: visits of each browser
  MaxProcs,      \* bound: geckodriver processes ever started
  SeedTars,      \* whether the user gave a seed_tar: the cases to consider
  ArchiveDirs,   \* whether the user gave a profile_archive_dir
  DumpMayFail,   \* a profile may lack one of the files a dump requires
  ProcessWatchdog, \* process_watchdog, False by default
  None           \* Python's None

ASSUME BrowsersAssumption == NumBrowsers \in Nat \ {0}
ASSUME LimitAssumption == SpawnLimit \in Nat \ {0}
ASSUME TimesAssumption == /\ SpawnTimeout \in Nat /\ Buffer \in Nat
                          /\ SpawnTimeout < Buffer
ASSUME BoundsAssumption == MaxVisits \in Nat /\ MaxProcs \in Nat
ASSUME ParamsAssumption == SeedTars \subseteq BOOLEAN
                           /\ ArchiveDirs \subseteq BOOLEAN
                           /\ DumpMayFail \in BOOLEAN
                           /\ ProcessWatchdog \in BOOLEAN
ASSUME NoneAssumption == None \notin Nat
                         /\ None \notin [seed : BOOLEAN, visits : Nat]

Browsers == 1..NumBrowsers
Pids == 1..MaxProcs

\* What a profile directory or tar file holds: whether it began with the
\* user's seed_tar, and the visits that left their cookies and history in it.
Content == [seed : BOOLEAN, visits : 0..MaxVisits]
Empty == [seed |-> FALSE, visits |-> 0]

VARIABLES
  seed_tar,      \* the user gave a seed_tar
  archive_dir,   \* the user gave a profile_archive_dir
  tm,            \* the task manager: "launching", "running", "closing",
                 \* "closed", or "raised": its shutdown ended in an exception
  turn,          \* the browser it is launching or shutting down
  during_init,   \* the argument of _shutdown_manager
  handle,        \* where each handle is: "new", "launching", "up", "down",
                 \* "raised" (an exception left the launch), "shut"
  spawns,        \* unsuccessful_spawns
  current,       \* content of current_profile_path
  recovery_tar,  \* content of browser_params.recovery_tar, None if not set
  tar_exists,    \* that file exists
  is_fresh, crash_recovery,
  stage,         \* statuses the BrowserManager process has put
  verdict,       \* its last words: "none", "FAILED", "CRITICAL"
  profile,       \* content of the directory it created
  gecko,         \* the geckodriver it started
  read,          \* statuses the handle has read
  waited,        \* time since its get began
  geckodriver_pid,
  age,           \* ages of the geckodriver processes, up to Buffer + 1, and
                 \* None for one that does not run
  started,       \* geckodriver processes ever started
  watchdog,      \* "off", "idle", "killing", or "dead" of an exception
  doomed,        \* the processes that it found old and unknown
  expected,      \* history: what the user expects the profile to hold
  archived       \* content of the archive of each browser

config   == <<seed_tar, archive_dir>>
manager  == <<tm, turn, during_init>>
files    == <<current, recovery_tar, tar_exists, expected, archived>>
child    == <<stage, verdict, profile, gecko>>
attempt  == <<spawns, read, waited>>
procs    == <<age, started>>
watching == <<watchdog, doomed>>

vars == <<config, manager, handle, files, child, attempt, procs, watching,
          is_fresh, crash_recovery, geckodriver_pid>>

alive == {p \in Pids : age[p] # None}
Dies(dead) == age' = [p \in Pids |-> IF p \in dead THEN None ELSE age[p]]

Const(x) == [b \in Browsers |-> x]

Init ==
  /\ seed_tar \in SeedTars /\ archive_dir \in ArchiveDirs
  /\ tm = "launching" /\ turn = 1 /\ during_init = FALSE
  /\ handle = Const("new") /\ spawns = Const(0)
  /\ current = Const(None) /\ recovery_tar = Const(None)
  /\ tar_exists = Const(FALSE)
  /\ is_fresh = Const(TRUE) /\ crash_recovery = Const(FALSE)
  /\ stage = Const(0) /\ verdict = Const("none") /\ profile = Const(Empty)
  /\ gecko = Const(None) /\ read = Const(0) /\ waited = Const(0)
  /\ geckodriver_pid = Const(None)
  /\ age = [p \in Pids |-> None] /\ started = 0
  /\ watchdog = "off" /\ doomed = {}
  /\ expected = Const([seed |-> seed_tar, visits |-> 0])
  /\ archived = Const(None)

----------------------------------------------------------------------------
(* Launching: launch_browser_manager().                                    *)

\* A new BrowserManager process, with new queues.  When the launch is over
\* its values are not looked at any more.
Fork(b) ==
  /\ stage' = [stage EXCEPT ![b] = 0]
  /\ verdict' = [verdict EXCEPT ![b] = "none"]
  /\ profile' = [profile EXCEPT ![b] = Empty]
  /\ gecko' = [gecko EXCEPT ![b] = None]
  /\ read' = [read EXCEPT ![b] = 0]
  /\ waited' = [waited EXCEPT ![b] = 0]

EndLaunch(b, outcome) ==
  /\ handle' = [handle EXCEPT ![b] = outcome]
  /\ spawns' = [spawns EXCEPT ![b] = 0]
  /\ Fork(b)

\* The profile to carry over is dumped to a tar file, if there is one, and
\* the first process is started.  cur and tar are the handle's profile and
\* recovery_tar at the call.
Launch(b, cur, tar) ==
  /\ handle' = [handle EXCEPT ![b] = "launching"]
  /\ recovery_tar' = [recovery_tar EXCEPT ![b] = IF cur # None THEN cur ELSE tar]
  /\ tar_exists' = [tar_exists EXCEPT ![b] = @ \/ cur # None]
  /\ crash_recovery' = [crash_recovery EXCEPT ![b] = cur # None]
  /\ is_fresh' = [is_fresh EXCEPT ![b] = cur = None]

\* dump_profile() misses one of the required files in the old profile.
LaunchRaises(b, cur) ==
  /\ cur # None /\ DumpMayFail
  /\ handle' = [handle EXCEPT ![b] = "raised"]
  /\ UNCHANGED <<recovery_tar, tar_exists, crash_recovery, is_fresh>>

\* The handle reads the statuses that are there, each within _SPAWN_TIMEOUT
\* of the last one.  The fifth tells the pid of geckodriver.
Learn(b) ==
  geckodriver_pid' = [geckodriver_pid EXCEPT ![b] = IF stage[b] >= 5
                                                    THEN gecko[b] ELSE @]

Read(b) ==
  /\ handle[b] = "launching" /\ read[b] < stage[b] /\ stage[b] < 6
  /\ read' = [read EXCEPT ![b] = stage[b]]
  /\ waited' = [waited EXCEPT ![b] = 0]
  /\ Learn(b)
  /\ UNCHANGED <<config, manager, handle, files, child, spawns, procs,
                 watching, is_fresh, crash_recovery>>

\* The sixth status is READY.  The new profile replaces the old one, and the
\* temporary tar file is removed.
Succeed(b) ==
  /\ handle[b] = "launching" /\ stage[b] = 6
  /\ EndLaunch(b, "up")
  /\ Learn(b)
  /\ current' = [current EXCEPT ![b] = profile[b]]
  /\ tar_exists' = [tar_exists EXCEPT ![b] = @ /\ ~crash_recovery[b]]
  /\ UNCHANGED <<config, manager, recovery_tar, expected, archived, procs,
                 watching, is_fresh, crash_recovery>>

\* kill_browser_manager(): the process, and the geckodriver that the handle
\* knows with everything below it.
Kill(b) == Dies({geckodriver_pid[b]})

\* A spawn that failed is closed.  The process does not answer OK to the
\* shutdown command, so it is killed; the next one is started up to the limit.
Unsuccessful(b) ==
  /\ Kill(b)
  /\ IF spawns[b] + 1 < SpawnLimit
     THEN /\ spawns' = [spawns EXCEPT ![b] = @ + 1]
          /\ Fork(b) /\ UNCHANGED handle
     ELSE EndLaunch(b, "down")
  /\ UNCHANGED <<config, manager, files, started, watching, is_fresh,
                 crash_recovery, geckodriver_pid>>

Drained(b) == handle[b] = "launching" /\ read[b] = stage[b]

SpawnFails(b) == Drained(b) /\ verdict[b] = "FAILED" /\ Unsuccessful(b)

TimeOut(b) ==
  Drained(b) /\ verdict[b] = "none" /\ waited[b] = SpawnTimeout
  /\ Unsuccessful(b)

\* A critical exception of the process is raised in the launching thread.
SpawnRaises(b) ==
  /\ Drained(b) /\ verdict[b] = "CRITICAL"
  /\ EndLaunch(b, "raised")
  /\ UNCHANGED <<config, manager, files, procs, watching, is_fresh,
                 crash_recovery, geckodriver_pid>>

Handle(b) == Read(b) \/ Succeed(b) \/ SpawnFails(b) \/ TimeOut(b)
             \/ SpawnRaises(b)

----------------------------------------------------------------------------
(* The BrowserManager process: deploy_firefox() and _start_extension().    *)

Deploying(b) == handle[b] = "launching" /\ verdict[b] = "none"

Put(b) == stage' = [stage EXCEPT ![b] = @ + 1]

ChildRest == <<config, manager, handle, files, attempt, watching, is_fresh,
               crash_recovery, geckodriver_pid>>

\* Statuses that change nothing else: an empty profile directory exists; the
\* display runs and, two statuses at once, Firefox is about to be launched.
Report(b) ==
  /\ Deploying(b)
  /\ stage[b] \in {0, 2}
  /\ stage' = [stage EXCEPT ![b] = IF @ = 2 THEN 4 ELSE 1]
  /\ UNCHANGED <<verdict, profile, gecko, procs, ChildRest>>

\* The extension wrote its port and, within ten seconds, its success file.
ExtensionStarts(b) ==
  /\ Deploying(b) /\ stage[b] = 5
  /\ Put(b)
  /\ UNCHANGED <<verdict, profile, gecko, procs, ChildRest>>

\* Variant: the user's seed_tar wins over the profile that was carried over.
SeedOrRecoveryReseeds(b) ==
  IF seed_tar THEN [seed |-> TRUE, visits |-> 0]
  ELSE IF recovery_tar[b] # None THEN recovery_tar[b] ELSE Empty

\* The tar file that is loaded, Empty if none.
SeedOrRecovery(b) ==
  IF seed_tar /\ ~crash_recovery[b] THEN [seed |-> TRUE, visits |-> 0]
  ELSE IF recovery_tar[b] # None THEN recovery_tar[b] ELSE Empty

Unloadable(b) ==
  ~(seed_tar /\ ~crash_recovery[b]) /\ recovery_tar[b] # None /\ ~tar_exists[b]

LoadTar(b) ==
  /\ Deploying(b) /\ stage[b] = 1 /\ ~Unloadable(b)
  /\ profile' = [profile EXCEPT ![b] = SeedOrRecovery(b)]
  /\ Put(b)
  /\ UNCHANGED <<verdict, gecko, procs, ChildRest>>

\* webdriver.Firefox() starts geckodriver; the extension is installed and the
\* pid found later.
StartGecko(b) ==
  /\ Deploying(b) /\ stage[b] = 4 /\ gecko[b] = None
  /\ started < MaxProcs
  /\ started' = started + 1
  /\ gecko' = [gecko EXCEPT ![b] = started + 1]
  /\ age' = [age EXCEPT ![started + 1] = 0]
  /\ UNCHANGED <<stage, verdict, profile, ChildRest>>

ReportGecko(b) ==
  /\ Deploying(b) /\ stage[b] = 4 /\ gecko[b] # None
  /\ Put(b)
  /\ UNCHANGED <<verdict, profile, gecko, procs, ChildRest>>

\* An exception: ProfileLoadError while a tar is loaded and BrowserConfigError
\* while the extension starts are critical, everything else is FAILED.
\* Selenium may or may not stop geckodriver as the process ends.
ChildFails(b) ==
  /\ Deploying(b) /\ stage[b] < 6
  /\ \E word \in {"FAILED", "CRITICAL"} :
       /\ word = "CRITICAL" => stage[b] \in {1, 5}
       /\ Unloadable(b) /\ stage[b] = 1 => word = "CRITICAL"
       /\ verdict' = [verdict EXCEPT ![b] = word]
  /\ UNCHANGED age \/ Dies({gecko[b]})
  /\ UNCHANGED <<stage, profile, gecko, started, ChildRest>>

Child(b) == Report(b) \/ LoadTar(b) \/ StartGecko(b) \/ ReportGecko(b)
            \/ ExtensionStarts(b) \/ ChildFails(b)

----------------------------------------------------------------------------
(* Command threads.                                                        *)

\* A visit, on a browser that runs or on one whose relaunch raised: every
\* browser whose thread is over gets the next sequence, unless a relaunch has
\* set failure_status.
Visit(b) ==
  /\ tm = "running" /\ handle[b] \in {"up", "raised"}
  /\ \A c \in Browsers : handle[c] # "down"
  /\ is_fresh' = [is_fresh EXCEPT ![b] = FALSE]
  /\ IF handle[b] = "up"
     THEN /\ current[b].visits < MaxVisits
          /\ current' = [current EXCEPT ![b].visits = @ + 1]
          /\ expected' = [expected EXCEPT ![b].visits = @ + 1]
     ELSE UNCHANGED <<current, expected>>
  /\ UNCHANGED <<config, manager, handle, recovery_tar, tar_exists, archived,
                 child, attempt, procs, watching, crash_recovery,
                 geckodriver_pid>>

\* Variant: recovery_tar still names the file of an earlier relaunch.
ForgetKeepsTar(b, clear) ==
  [cur |-> IF clear THEN None ELSE current[b], tar |-> recovery_tar[b]]

\* restart_browser_manager(clear_profile) forgets the profile and the tar.
Forget(b, clear) ==
  [cur |-> IF clear THEN None ELSE current[b],
   tar |-> IF clear /\ current[b] # None THEN None ELSE recovery_tar[b]]

\* restart_browser_manager(), which returns at once if the browser is fresh.
\* The browser answers the shutdown command or is killed, and is launched
\* again.
Restart(b) ==
  /\ tm = "running" /\ handle[b] \in {"up", "raised"} /\ ~is_fresh[b]
  /\ Kill(b)
  /\ \E clear \in BOOLEAN :
       LET keep == Forget(b, clear)
       IN  /\ current' = [current EXCEPT ![b] = keep.cur]
           /\ expected' = [expected EXCEPT ![b].visits = IF clear THEN 0 ELSE @]
           /\ \/ Launch(b, keep.cur, keep.tar)
              \/ LaunchRaises(b, keep.cur)
  /\ UNCHANGED <<config, manager, archived, child, attempt, started, watching,
                 geckodriver_pid>>

----------------------------------------------------------------------------
(* TaskManager.__init__, close() and the process watchdog.                 *)

ManagerRest == <<config, child, watchdog, doomed, is_fresh, crash_recovery,
                 geckodriver_pid, spawns, read, waited>>

\* _launch_browsers(): one after the other.
LaunchNext ==
  /\ tm = "launching" /\ handle[turn] = "new"
  /\ Launch(turn, current[turn], recovery_tar[turn])
  /\ UNCHANGED <<config, manager, current, expected, archived, child,
                 attempt, procs, watching, geckodriver_pid>>

\* The browser is up: the next one, or __init__ goes on and starts the
\* watchdog's thread, which looks for processes only if it is told to.
Launched ==
  /\ tm = "launching" /\ handle[turn] = "up"
  /\ IF turn < NumBrowsers
     THEN turn' = turn + 1 /\ UNCHANGED <<tm, watchdog>>
     ELSE /\ tm' = "running" /\ UNCHANGED turn
          /\ watchdog' = IF ProcessWatchdog THEN "idle" ELSE "off"
  /\ UNCHANGED <<config, during_init, handle, files, child, attempt, procs,
                 doomed, is_fresh, crash_recovery, geckodriver_pid>>

\* _shutdown_manager(): when a launch failed, with during_init only if it
\* raised; when the user or _check_failure_status closes.
StartClosing ==
  /\ tm' = "closing" /\ turn' = 1
  /\ UNCHANGED <<handle, files, procs, ManagerRest>>

LaunchFailed ==
  /\ tm = "launching" /\ handle[turn] \in {"down", "raised"}
  /\ during_init' = (handle[turn] = "raised")
  /\ StartClosing

Close == tm = "running" /\ UNCHANGED during_init /\ StartClosing

\* shutdown_browser(): once the command thread of the browser is over, its
\* process is closed or killed, and with a profile_archive_dir the profile is
\* archived.  The assertion that there is a profile, and the check of the
\* archive, end the whole shutdown.
Archives == ~during_init /\ archive_dir

\* Variant: only a browser that runs has something to kill.
CloseBrowserRunning ==
  /\ tm = "closing" /\ handle[turn] # "launching"
  /\ IF handle[turn] = "up" THEN Kill(turn) ELSE UNCHANGED age
  /\ handle' = [handle EXCEPT ![turn] = "shut"]
  /\ UNCHANGED <<during_init, current, recovery_tar, tar_exists, expected,
                 started, ManagerRest>>

CloseBrowser ==
  /\ tm = "closing" /\ handle[turn] # "launching"
  /\ Kill(turn)
  /\ handle' = [handle EXCEPT ![turn] = "shut"]
  /\ UNCHANGED <<during_init, current, recovery_tar, tar_exists, expected,
                 started, ManagerRest>>

NextTurn ==
  IF turn < NumBrowsers THEN turn' = turn + 1 /\ UNCHANGED tm
  ELSE tm' = "closed" /\ UNCHANGED turn

ShutdownBrowser ==
  /\ CloseBrowser
  /\ Archives => current[turn] # None
  /\ archived' = IF Archives THEN [archived EXCEPT ![turn] = current[turn]]
                 ELSE archived
  /\ NextTurn

ShutdownRaises ==
  /\ CloseBrowser
  /\ Archives
  /\ current[turn] = None \/ DumpMayFail
  /\ tm' = "raised"
  /\ UNCHANGED <<archived, turn>>

\* _manager_watchdog(), which tests self.closing only at the top of its loop.
\* The process list is read after the pids and takes time.
\* Variant: without the buffer.
UnknownAtAnyAge == alive \ {geckodriver_pid[b] : b \in Browsers}

Unknown == {p \in alive : /\ age[p] > Buffer
                          /\ \A b \in Browsers : geckodriver_pid[b] # p}

WatchdogLooks ==
  /\ watchdog = "idle"
  /\ watchdog' = "killing" /\ doomed' = Unknown
  /\ UNCHANGED <<config, manager, handle, files, child, attempt, procs,
                 is_fresh, crash_recovery, geckodriver_pid>>

\* Variant: the loop ends after its first turn.
WatchdogKillsOnce ==
  /\ watchdog = "killing"
  /\ watchdog' = "off"
  /\ Dies(doomed)
  /\ doomed' = {}
  /\ UNCHANGED <<config, manager, handle, files, child, attempt, started,
                 is_fresh, crash_recovery, geckodriver_pid>>

WatchdogKills ==
  /\ watchdog = "killing"
  /\ watchdog' = IF tm = "running" THEN "idle" ELSE "off"
  /\ Dies(doomed)
  /\ doomed' = {}
  /\ UNCHANGED <<config, manager, handle, files, child, attempt, started,
                 is_fresh, crash_recovery, geckodriver_pid>>

\* A process of the list, not necessarily one of the doomed, has ended before
\* the loop comes to it, and to ask for its name raises NoSuchProcess: nobody
\* catches it, and the thread is over.  Some were killed before.
WatchdogDies ==
  /\ watchdog = "killing"
  /\ watchdog' = "dead"
  /\ \E killed \in SUBSET doomed : Dies(killed)
  /\ doomed' = {}
  /\ UNCHANGED <<config, manager, handle, files, child, attempt, started,
                 is_fresh, crash_recovery, geckodriver_pid>>

----------------------------------------------------------------------------
\* Time passes, but never beyond the timeout of a get, nor while a get has
\* something to return.
Tick ==
  /\ \A b \in Browsers : handle[b] = "launching" =>
       Drained(b) /\ verdict[b] = "none" /\ waited[b] < SpawnTimeout
  /\ age' = [p \in Pids |-> IF p \in alive /\ age[p] <= Buffer
                            THEN age[p] + 1 ELSE age[p]]
  /\ waited' = [b \in Browsers |-> IF handle[b] = "launching"
                                   THEN waited[b] + 1 ELSE waited[b]]
  /\ UNCHANGED <<config, manager, handle, files, child, spawns, read,
                 started, watching, is_fresh, crash_recovery, geckodriver_pid>>

Manager == LaunchNext \/ Launched \/ LaunchFailed \/ Close
           \/ ShutdownBrowser \/ ShutdownRaises

Next ==
  \/ \E b \in Browsers : Handle(b) \/ Child(b) \/ Visit(b) \/ Restart(b)
  \/ Manager
  \/ WatchdogLooks \/ WatchdogKills \/ WatchdogDies
  \/ Tick

Spec == Init /\ [][Next]_vars

\* Time passes whatever happens (strong fairness: Tick waits while a get has
\* something to return), a handle acts on what it reads, the watchdog's loop
\* turns if there is one: both actions need ProcessWatchdog and a thread that
\* is alive.  BrowserManager processes may hang, nobody has to call anything.
Fairness ==
  /\ SF_vars(Tick)
  /\ \A b \in Browsers : WF_vars(Handle(b))
  /\ WF_vars(WatchdogLooks) /\ WF_vars(WatchdogKills \/ WatchdogDies)

FairSpec == Spec /\ Fairness

----------------------------------------------------------------------------
(* Properties.                                                             *)

TypeOK ==
  /\ seed_tar \in BOOLEAN /\ archive_dir \in BOOLEAN
  /\ tm \in {"launching", "running", "closing", "closed", "raised"}
  /\ turn \in Browsers /\ during_init \in BOOLEAN
  /\ handle \in [Browsers -> {"new", "launching", "up", "down", "raised",
                              "shut"}]
  /\ spawns \in [Browsers -> 0..(SpawnLimit - 1)]
  /\ current \in [Browsers -> Content \cup {None}]
  /\ recovery_tar \in [Browsers -> Content \cup {None}]
  /\ tar_exists \in [Browsers -> BOOLEAN]
  /\ is_fresh \in [Browsers -> BOOLEAN]
  /\ crash_recovery \in [Browsers -> BOOLEAN]
  /\ stage \in [Browsers -> 0..6]
  /\ verdict \in [Browsers -> {"none", "FAILED", "CRITICAL"}]
  /\ profile \in [Browsers -> Content]
  /\ gecko \in [Browsers -> Pids \cup {None}]
  /\ read \in [Browsers -> 0..5]
  /\ waited \in [Browsers -> 0..SpawnTimeout]
  /\ geckodriver_pid \in [Browsers -> Pids \cup {None}]
  /\ age \in [Pids -> 0..(Buffer + 1) \cup {None}]
  /\ started \in 0..MaxProcs
  /\ watchdog \in {"off", "idle", "killing", "dead"}
  /\ doomed \subseteq Pids
  /\ expected \in [Browsers -> Content]
  /\ archived \in [Browsers -> Content \cup {None}]

\* The profile a handle would carry over is the one the user expects.
CurrentKept == \A b \in Browsers : current[b] \in {None, expected[b]}

UpHasProfile ==
  \A b \in Browsers : handle[b] = "up" => current[b] # None

\* A launch never fails for the lack of its own temporary tar file, which is
\* removed after the relaunch it served while recovery_tar still names it.
TarStillThere ==
  \A b \in Browsers : Deploying(b) /\ stage[b] = 1 => ~Unloadable(b)

\* Stateful crawls: the profile of a browser holds exactly the visits since
\* it was last reset, on top of the user's seed, through any sequence of
\* visits, failed spawns, relaunches that raised, and resets; no browser that
\* runs is without one, and no launch lacks the tar file it is to load.
ProfileKept == CurrentKept /\ UpHasProfile /\ TarStillThere

\* The watchdog and the closing of spawns kill no browser that a handle uses:
\* a pid is known well before the buffer is over.
UpMeansAlive ==
  \A b \in Browsers : handle[b] = "up" => geckodriver_pid[b] \in alive

\* After close() no geckodriver known to a handle runs, and with a
\* profile_archive_dir every browser left its own profile there.
CloseComplete ==
  tm = "closed" =>
    \A b \in Browsers :
      /\ geckodriver_pid[b] \notin alive
      /\ Archives => archived[b] = expected[b]

\* With process_watchdog, a geckodriver that was started by a spawn that failed
\* before it reported the pid is killed in the end, while the manager and the
\* watchdog's thread run.  (Without it, the default, nobody collects them.)
OrphansCollected ==
  \A p \in Pids :
    (ProcessWatchdog /\ p \in alive /\ \A b \in Browsers : geckodriver_pid[b] # p) ~>
      \/ p \notin alive
      \/ \E b \in Browsers : geckodriver_pid[b] = p
      \/ tm # "running"
      \/ watchdog = "dead"
============================================================================
