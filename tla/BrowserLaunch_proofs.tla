------------------------ MODULE BrowserLaunch_proofs ------------------------
(***************************************************************************)
(* Proofs about BrowserLaunch for any number of browsers, spawns, visits   *)
(* and processes, and any spawn timeout below the watchdog's buffer.       *)
(*                                                                         *)
(* IInv says more than the properties: what a launch under way carries     *)
(* over (ProfileInv), that pids are not shared (OwnPid, NewPids), how old  *)
(* a geckodriver can be whose pid the handle has not read yet (InUse), and *)
(* what a shutdown has done so far (Shut).  One lemma per action shows     *)
(* that it keeps the types, one that it keeps IInv.                        *)
(***************************************************************************)
EXTENDS BrowserLaunch, TLAPS

(***************************************************************************)
(* The inductive invariant.                                                *)

\* Whether a launch carries a profile over, and what it loads: the parts of
\* ProfileKept, and why they stay.
ProfileInv(b) ==
  /\ current[b] \in {None, expected[b]}
  /\ handle[b] = "up" => current[b] # None
  /\ current[b] = None => recovery_tar[b] = None /\ expected[b].visits = 0
  /\ expected[b].seed = seed_tar
  /\ handle[b] = "launching" =>
       /\ crash_recovery[b] <=> current[b] # None
       /\ crash_recovery[b] => recovery_tar[b] = expected[b] /\ tar_exists[b]
       /\ stage[b] >= 2 => profile[b] = expected[b]
  /\ handle[b] # "launching" => stage[b] = 0 /\ gecko[b] = None

\* Pids are given out in order and belong to one browser.
OwnPid(b) ==
  /\ gecko[b] # None => gecko[b] <= started /\ stage[b] >= 4
  /\ geckodriver_pid[b] # None => geckodriver_pid[b] <= started
  /\ \A c \in Browsers \ {b} :
       /\ gecko[b] # None =>
            gecko[c] # gecko[b] /\ geckodriver_pid[c] # gecko[b]
       /\ geckodriver_pid[b] # None => geckodriver_pid[c] # geckodriver_pid[b]

NewPids == /\ \A p \in Pids : p > started => age[p] = None
           /\ \A p \in doomed : p <= started

\* A browser that is in use runs, and the watchdog does not take it for an
\* orphan: before its pid is known it is no older than the handle's wait.
InUse(b) ==
  /\ handle[b] = "up" => /\ geckodriver_pid[b] \in alive
                         /\ geckodriver_pid[b] \notin doomed
  /\ stage[b] = 6 => verdict[b] = "none"
  /\ stage[b] >= 5 => gecko[b] # None
  /\ read[b] <= stage[b]
  /\ read[b] = 5 => geckodriver_pid[b] = gecko[b]
  /\ verdict[b] = "none" /\ gecko[b] # None =>
       /\ gecko[b] \in alive /\ gecko[b] \notin doomed
       /\ read[b] < 4 => age[gecko[b]] = 0
       /\ read[b] = 4 => age[gecko[b]] <= waited[b]

\* The browsers that the shutdown is done with.
Shut(b) == /\ handle[b] = "shut" /\ geckodriver_pid[b] \notin alive
           /\ Archives => archived[b] = expected[b]
Done(b) == tm = "closed" \/ (tm = "closing" /\ b < turn)

IInv == /\ TypeOK /\ NewPids
        /\ \A b \in Browsers : /\ ProfileInv(b) /\ OwnPid(b) /\ InUse(b)
                               /\ Done(b) => Shut(b)

----------------------------------------------------------------------------
(* Contents.                                                               *)

LEMMA EmptyIsContent == Empty \in Content
BY BoundsAssumption DEF Empty, Content

LEMMA VisitsOfContent ==
  ASSUME NEW c \in Content, NEW n \in 0..MaxVisits
  PROVE  [c EXCEPT !.visits = n] \in Content
BY DEF Content

LEMMA SeedIsContent == [seed |-> TRUE, visits |-> 0] \in Content
BY BoundsAssumption DEF Content

LEMMA NoneIsNoContent == None \notin Content
BY NoneAssumption, BoundsAssumption DEF Content

LEMMA NoneIsNoPid == None \notin Pids /\ None \notin Nat
BY NoneAssumption, BoundsAssumption DEF Pids

----------------------------------------------------------------------------
(* Types.                                                                  *)

LEMMA ReadType ==
  ASSUME TypeOK, NEW b \in Browsers, Read(b) PROVE TypeOK'
<1>1. read' \in [Browsers -> 0..5]
  BY DEF TypeOK, Read, Learn
<1>2. waited' \in [Browsers -> 0..SpawnTimeout]
  BY TimesAssumption DEF TypeOK, Read, Learn
<1>3. geckodriver_pid' \in [Browsers -> Pids \cup {None}]
  BY DEF TypeOK, Read, Learn
<1> QED
  BY <1>1, <1>2, <1>3
     DEF TypeOK, Read, Learn, config, manager, files, child, attempt, procs,
         watching

LEMMA SucceedType ==
  ASSUME TypeOK, NEW b \in Browsers, Succeed(b) PROVE TypeOK'
<1>1. handle' \in [Browsers -> {"new", "launching", "up", "down", "raised",
                              "shut"}]
  BY DEF TypeOK, Succeed, EndLaunch, Fork, Learn
<1>2. spawns' \in [Browsers -> 0..(SpawnLimit - 1)]
  BY LimitAssumption DEF TypeOK, Succeed, EndLaunch, Fork, Learn
<1>3. stage' \in [Browsers -> 0..6]
  BY DEF TypeOK, Succeed, EndLaunch, Fork, Learn
<1>4. verdict' \in [Browsers -> {"none", "FAILED", "CRITICAL"}]
  BY DEF TypeOK, Succeed, EndLaunch, Fork, Learn
<1>5. profile' \in [Browsers -> Content]
  BY EmptyIsContent DEF TypeOK, Succeed, EndLaunch, Fork, Learn
<1>6. gecko' \in [Browsers -> Pids \cup {None}]
  BY DEF TypeOK, Succeed, EndLaunch, Fork, Learn
<1>7. read' \in [Browsers -> 0..5]
  BY DEF TypeOK, Succeed, EndLaunch, Fork, Learn
<1>8. waited' \in [Browsers -> 0..SpawnTimeout]
  BY TimesAssumption DEF TypeOK, Succeed, EndLaunch, Fork, Learn
<1>9. geckodriver_pid' \in [Browsers -> Pids \cup {None}]
  BY DEF TypeOK, Succeed, EndLaunch, Fork, Learn
<1>10. current' \in [Browsers -> Content \cup {None}]
  BY DEF TypeOK, Succeed, EndLaunch, Fork, Learn
<1>11. tar_exists' \in [Browsers -> BOOLEAN]
  BY DEF TypeOK, Succeed, EndLaunch, Fork, Learn
<1> QED
  BY <1>1, <1>2, <1>3, <1>4, <1>5, <1>6, <1>7, <1>8, <1>9, <1>10, <1>11
     DEF TypeOK, Succeed, EndLaunch, Fork, Learn, config, manager, files,
         child, attempt, procs, watching

LEMMA SpawnFailsType ==
  ASSUME TypeOK, NEW b \in Browsers, SpawnFails(b) PROVE TypeOK'
<1>1. handle' \in [Browsers -> {"new", "launching", "up", "down", "raised",
                              "shut"}]
  BY DEF TypeOK, SpawnFails, Drained, Unsuccessful, Kill, Dies, Fork,
     EndLaunch
<1>2. spawns' \in [Browsers -> 0..(SpawnLimit - 1)]
  BY LimitAssumption
     DEF TypeOK, SpawnFails, Drained, Unsuccessful, Kill, Dies, Fork,
         EndLaunch
<1>3. stage' \in [Browsers -> 0..6]
  BY DEF TypeOK, SpawnFails, Drained, Unsuccessful, Kill, Dies, Fork,
     EndLaunch
<1>4. verdict' \in [Browsers -> {"none", "FAILED", "CRITICAL"}]
  BY DEF TypeOK, SpawnFails, Drained, Unsuccessful, Kill, Dies, Fork,
     EndLaunch
<1>5. profile' \in [Browsers -> Content]
  BY EmptyIsContent
     DEF TypeOK, SpawnFails, Drained, Unsuccessful, Kill, Dies, Fork,
         EndLaunch
<1>6. gecko' \in [Browsers -> Pids \cup {None}]
  BY DEF TypeOK, SpawnFails, Drained, Unsuccessful, Kill, Dies, Fork,
     EndLaunch
<1>7. read' \in [Browsers -> 0..5]
  BY DEF TypeOK, SpawnFails, Drained, Unsuccessful, Kill, Dies, Fork,
     EndLaunch
<1>8. waited' \in [Browsers -> 0..SpawnTimeout]
  BY TimesAssumption
     DEF TypeOK, SpawnFails, Drained, Unsuccessful, Kill, Dies, Fork,
         EndLaunch
<1>9. age' \in [Pids -> 0..(Buffer + 1) \cup {None}]
  BY TimesAssumption
     DEF TypeOK, SpawnFails, Drained, Unsuccessful, Kill, Dies, Fork,
         EndLaunch
<1> QED
  BY <1>1, <1>2, <1>3, <1>4, <1>5, <1>6, <1>7, <1>8, <1>9
     DEF TypeOK, SpawnFails, Drained, Unsuccessful, Kill, Dies, Fork,
         EndLaunch, config, manager, files, child, attempt, procs, watching

LEMMA TimeOutType ==
  ASSUME TypeOK, NEW b \in Browsers, TimeOut(b) PROVE TypeOK'
<1>1. handle' \in [Browsers -> {"new", "launching", "up", "down", "raised",
                              "shut"}]
  BY DEF TypeOK, TimeOut, Drained, Unsuccessful, Kill, Dies, Fork, EndLaunch
<1>2. spawns' \in [Browsers -> 0..(SpawnLimit - 1)]
  BY LimitAssumption
     DEF TypeOK, TimeOut, Drained, Unsuccessful, Kill, Dies, Fork, EndLaunch
<1>3. stage' \in [Browsers -> 0..6]
  BY DEF TypeOK, TimeOut, Drained, Unsuccessful, Kill, Dies, Fork, EndLaunch
<1>4. verdict' \in [Browsers -> {"none", "FAILED", "CRITICAL"}]
  BY DEF TypeOK, TimeOut, Drained, Unsuccessful, Kill, Dies, Fork, EndLaunch
<1>5. profile' \in [Browsers -> Content]
  BY EmptyIsContent
     DEF TypeOK, TimeOut, Drained, Unsuccessful, Kill, Dies, Fork, EndLaunch
<1>6. gecko' \in [Browsers -> Pids \cup {None}]
  BY DEF TypeOK, TimeOut, Drained, Unsuccessful, Kill, Dies, Fork, EndLaunch
<1>7. read' \in [Browsers -> 0..5]
  BY DEF TypeOK, TimeOut, Drained, Unsuccessful, Kill, Dies, Fork, EndLaunch
<1>8. waited' \in [Browsers -> 0..SpawnTimeout]
  BY TimesAssumption
     DEF TypeOK, TimeOut, Drained, Unsuccessful, Kill, Dies, Fork, EndLaunch
<1>9. age' \in [Pids -> 0..(Buffer + 1) \cup {None}]
  BY TimesAssumption
     DEF TypeOK, TimeOut, Drained, Unsuccessful, Kill, Dies, Fork, EndLaunch
<1> QED
  BY <1>1, <1>2, <1>3, <1>4, <1>5, <1>6, <1>7, <1>8, <1>9
     DEF TypeOK, TimeOut, Drained, Unsuccessful, Kill, Dies, Fork, EndLaunch,
         config, manager, files, child, attempt, procs, watching

LEMMA SpawnRaisesType ==
  ASSUME TypeOK, NEW b \in Browsers, SpawnRaises(b) PROVE TypeOK'
<1>1. handle' \in [Browsers -> {"new", "launching", "up", "down", "raised",
                              "shut"}]
  BY DEF TypeOK, SpawnRaises, Drained, EndLaunch, Fork
<1>2. spawns' \in [Browsers -> 0..(SpawnLimit - 1)]
  BY LimitAssumption DEF TypeOK, SpawnRaises, Drained, EndLaunch, Fork
<1>3. stage' \in [Browsers -> 0..6]
  BY DEF TypeOK, SpawnRaises, Drained, EndLaunch, Fork
<1>4. verdict' \in [Browsers -> {"none", "FAILED", "CRITICAL"}]
  BY DEF TypeOK, SpawnRaises, Drained, EndLaunch, Fork
<1>5. profile' \in [Browsers -> Content]
  BY EmptyIsContent DEF TypeOK, SpawnRaises, Drained, EndLaunch, Fork
<1>6. gecko' \in [Browsers -> Pids \cup {None}]
  BY DEF TypeOK, SpawnRaises, Drained, EndLaunch, Fork
<1>7. read' \in [Browsers -> 0..5]
  BY DEF TypeOK, SpawnRaises, Drained, EndLaunch, Fork
<1>8. waited' \in [Browsers -> 0..SpawnTimeout]
  BY TimesAssumption DEF TypeOK, SpawnRaises, Drained, EndLaunch, Fork
<1> QED
  BY <1>1, <1>2, <1>3, <1>4, <1>5, <1>6, <1>7, <1>8
     DEF TypeOK, SpawnRaises, Drained, EndLaunch, Fork, config, manager,
         files, child, attempt, procs, watching

LEMMA ReportType ==
  ASSUME TypeOK, NEW b \in Browsers, Report(b) PROVE TypeOK'
<1>1. stage' \in [Browsers -> 0..6]
  BY DEF TypeOK, Report, Deploying, ChildRest
<1> QED
  BY <1>1
     DEF TypeOK, Report, Deploying, ChildRest, config, manager, files, child,
         attempt, procs, watching

LEMMA ExtensionStartsType ==
  ASSUME TypeOK, NEW b \in Browsers, ExtensionStarts(b) PROVE TypeOK'
<1>1. stage' \in [Browsers -> 0..6]
  BY DEF TypeOK, ExtensionStarts, Deploying, Put, ChildRest
<1> QED
  BY <1>1
     DEF TypeOK, ExtensionStarts, Deploying, Put, ChildRest, config, manager,
         files, child, attempt, procs, watching

LEMMA LoadTarType ==
  ASSUME TypeOK, NEW b \in Browsers, LoadTar(b) PROVE TypeOK'
<1>1. stage' \in [Browsers -> 0..6]
  BY DEF TypeOK, LoadTar, Deploying, Put, ChildRest, SeedOrRecovery,
     Unloadable
<1>2. profile' \in [Browsers -> Content]
  BY EmptyIsContent , SeedIsContent
     DEF TypeOK, LoadTar, Deploying, Put, ChildRest, SeedOrRecovery,
         Unloadable
<1> QED
  BY <1>1, <1>2
     DEF TypeOK, LoadTar, Deploying, Put, ChildRest, SeedOrRecovery,
         Unloadable, config, manager, files, child, attempt, procs, watching

LEMMA StartGeckoType ==
  ASSUME TypeOK, NEW b \in Browsers, StartGecko(b) PROVE TypeOK'
<1>1. started' \in 0..MaxProcs
  BY BoundsAssumption DEF TypeOK, StartGecko, Deploying, ChildRest, Pids, Pids
<1>2. gecko' \in [Browsers -> Pids \cup {None}]
  BY BoundsAssumption DEF TypeOK, StartGecko, Deploying, ChildRest, Pids, Pids
<1>3. age' \in [Pids -> 0..(Buffer + 1) \cup {None}]
  BY BoundsAssumption , TimesAssumption
     DEF TypeOK, StartGecko, Deploying, ChildRest, Pids, Pids
<1> QED
  BY <1>1, <1>2, <1>3
     DEF TypeOK, StartGecko, Deploying, ChildRest, Pids, config, manager,
         files, child, attempt, procs, watching

LEMMA ReportGeckoType ==
  ASSUME TypeOK, NEW b \in Browsers, ReportGecko(b) PROVE TypeOK'
<1>1. stage' \in [Browsers -> 0..6]
  BY DEF TypeOK, ReportGecko, Deploying, Put, ChildRest
<1> QED
  BY <1>1
     DEF TypeOK, ReportGecko, Deploying, Put, ChildRest, config, manager,
         files, child, attempt, procs, watching

LEMMA ChildFailsType ==
  ASSUME TypeOK, NEW b \in Browsers, ChildFails(b) PROVE TypeOK'
<1>1. verdict' \in [Browsers -> {"none", "FAILED", "CRITICAL"}]
  BY DEF TypeOK, ChildFails, Deploying, ChildRest, Dies
<1>2. age' \in [Pids -> 0..(Buffer + 1) \cup {None}]
  BY TimesAssumption DEF TypeOK, ChildFails, Deploying, ChildRest, Dies
<1> QED
  BY <1>1, <1>2
     DEF TypeOK, ChildFails, Deploying, ChildRest, Dies, config, manager,
         files, child, attempt, procs, watching

LEMMA VisitType ==
  ASSUME TypeOK, NEW b \in Browsers, Visit(b), ProfileInv(b) PROVE TypeOK'
<1>1. is_fresh' \in [Browsers -> BOOLEAN]
  BY DEF TypeOK, Visit
<1>2. /\ current' \in [Browsers -> Content \cup {None}]
      /\ expected' \in [Browsers -> Content]
  <2>1. CASE handle[b] = "up"
    <3> DEFINE new == [expected[b] EXCEPT !.visits = expected[b].visits + 1]
    <3>1. current[b] = expected[b] /\ expected[b] \in Content
      BY <2>1 DEF TypeOK, ProfileInv
    <3>2. expected[b].visits + 1 \in 0..MaxVisits
      BY <2>1, <3>1, BoundsAssumption DEF Visit, Content
    <3>3. new \in Content
      BY <3>1, <3>2, VisitsOfContent
    <3>4. /\ current' = [current EXCEPT ![b] = new]
          /\ expected' = [expected EXCEPT ![b] = new]
      BY <2>1, <3>1 DEF Visit, TypeOK
    <3> QED BY <3>3, <3>4 DEF TypeOK
  <2>2. CASE handle[b] # "up"
    BY <2>2 DEF TypeOK, Visit
  <2> QED BY <2>1, <2>2
<1> QED BY <1>1, <1>2
  DEF TypeOK, Visit, config, manager, child, attempt, procs, watching

LEMMA RestartType ==
  ASSUME TypeOK, NEW b \in Browsers, Restart(b) PROVE TypeOK'
<1>1. handle' \in [Browsers -> {"new", "launching", "up", "down", "raised",
                              "shut"}]
  BY DEF TypeOK, Restart, Kill, Dies, Forget, Launch, LaunchRaises
<1>2. recovery_tar' \in [Browsers -> Content \cup {None}]
  BY DEF TypeOK, Restart, Kill, Dies, Forget, Launch, LaunchRaises
<1>3. tar_exists' \in [Browsers -> BOOLEAN]
  BY DEF TypeOK, Restart, Kill, Dies, Forget, Launch, LaunchRaises
<1>4. crash_recovery' \in [Browsers -> BOOLEAN]
  BY DEF TypeOK, Restart, Kill, Dies, Forget, Launch, LaunchRaises
<1>5. is_fresh' \in [Browsers -> BOOLEAN]
  BY DEF TypeOK, Restart, Kill, Dies, Forget, Launch, LaunchRaises
<1>6. current' \in [Browsers -> Content \cup {None}]
  BY DEF TypeOK, Restart, Kill, Dies, Forget, Launch, LaunchRaises
<1>7. expected' \in [Browsers -> Content]
  <2>1. PICK clear \in BOOLEAN :
          expected' = [expected EXCEPT ![b].visits = IF clear THEN 0 ELSE @]
    BY DEF Restart
  <2> DEFINE n == IF clear THEN 0 ELSE expected[b].visits
  <2>2. n \in 0..MaxVisits
    BY BoundsAssumption DEF TypeOK, Content
  <2>3. expected' = [expected EXCEPT ![b] = [expected[b] EXCEPT !.visits = n]]
    BY <2>1 DEF TypeOK
  <2>4. [expected[b] EXCEPT !.visits = n] \in Content
    BY <2>2, VisitsOfContent DEF TypeOK
  <2> HIDE DEF n
  <2> QED BY <2>3, <2>4 DEF TypeOK
<1>8. age' \in [Pids -> 0..(Buffer + 1) \cup {None}]
  BY TimesAssumption
     DEF TypeOK, Restart, Kill, Dies, Forget, Launch, LaunchRaises
<1> QED
  BY <1>1, <1>2, <1>3, <1>4, <1>5, <1>6, <1>7, <1>8
     DEF TypeOK, Restart, Kill, Dies, Forget, Launch, LaunchRaises, config,
         manager, files, child, attempt, procs, watching

LEMMA LaunchNextType ==
  ASSUME TypeOK, LaunchNext PROVE TypeOK'
<1>1. handle' \in [Browsers -> {"new", "launching", "up", "down", "raised",
                              "shut"}]
  BY DEF TypeOK, LaunchNext, Launch
<1>2. recovery_tar' \in [Browsers -> Content \cup {None}]
  BY DEF TypeOK, LaunchNext, Launch
<1>3. tar_exists' \in [Browsers -> BOOLEAN]
  BY DEF TypeOK, LaunchNext, Launch
<1>4. crash_recovery' \in [Browsers -> BOOLEAN]
  BY DEF TypeOK, LaunchNext, Launch
<1>5. is_fresh' \in [Browsers -> BOOLEAN]
  BY DEF TypeOK, LaunchNext, Launch
<1> QED
  BY <1>1, <1>2, <1>3, <1>4, <1>5
     DEF TypeOK, LaunchNext, Launch, config, manager, files, child, attempt,
         procs, watching

LEMMA LaunchedType ==
  ASSUME TypeOK, Launched PROVE TypeOK'
<1>1. turn' \in Browsers
  BY BrowsersAssumption DEF TypeOK, Launched, Browsers
<1>2. tm' \in {"launching", "running", "closing", "closed", "raised"}
  BY DEF TypeOK, Launched
<1>3. watchdog' \in {"off", "idle", "killing", "dead"}
  BY DEF TypeOK, Launched
<1> QED
  BY <1>1, <1>2, <1>3
     DEF TypeOK, Launched, config, manager, files, child, attempt, procs,
         watching

LEMMA LaunchFailedType ==
  ASSUME TypeOK, LaunchFailed PROVE TypeOK'
<1>1. during_init' \in BOOLEAN
  BY DEF TypeOK, LaunchFailed, StartClosing, ManagerRest
<1>2. tm' \in {"launching", "running", "closing", "closed", "raised"}
  BY DEF TypeOK, LaunchFailed, StartClosing, ManagerRest
<1>3. turn' \in Browsers
  BY BrowsersAssumption
     DEF TypeOK, LaunchFailed, StartClosing, ManagerRest, Browsers
<1> QED
  BY <1>1, <1>2, <1>3
     DEF TypeOK, LaunchFailed, StartClosing, ManagerRest, config, manager,
         files, child, attempt, procs, watching

LEMMA CloseType ==
  ASSUME TypeOK, Close PROVE TypeOK'
<1>1. tm' \in {"launching", "running", "closing", "closed", "raised"}
  BY DEF TypeOK, Close, StartClosing, ManagerRest
<1>2. turn' \in Browsers
  BY BrowsersAssumption DEF TypeOK, Close, StartClosing, ManagerRest, Browsers
<1> QED
  BY <1>1, <1>2
     DEF TypeOK, Close, StartClosing, ManagerRest, config, manager, files,
         child, attempt, procs, watching

LEMMA ShutdownBrowserType ==
  ASSUME TypeOK, ShutdownBrowser PROVE TypeOK'
<1>1. age' \in [Pids -> 0..(Buffer + 1) \cup {None}]
  BY TimesAssumption
     DEF TypeOK, ShutdownBrowser, CloseBrowser, Kill, Dies, NextTurn,
         ManagerRest
<1>2. handle' \in [Browsers -> {"new", "launching", "up", "down", "raised",
                              "shut"}]
  BY DEF TypeOK, ShutdownBrowser, CloseBrowser, Kill, Dies, NextTurn,
     ManagerRest
<1>3. archived' \in [Browsers -> Content \cup {None}]
  BY DEF TypeOK, ShutdownBrowser, CloseBrowser, Kill, Dies, NextTurn,
     ManagerRest
<1>4. turn' \in Browsers
  BY BrowsersAssumption
     DEF TypeOK, ShutdownBrowser, CloseBrowser, Kill, Dies, NextTurn,
         ManagerRest, Browsers
<1>5. tm' \in {"launching", "running", "closing", "closed", "raised"}
  BY DEF TypeOK, ShutdownBrowser, CloseBrowser, Kill, Dies, NextTurn,
     ManagerRest
<1> QED
  BY <1>1, <1>2, <1>3, <1>4, <1>5
     DEF TypeOK, ShutdownBrowser, CloseBrowser, Kill, Dies, NextTurn,
         ManagerRest, config, manager, files, child, attempt, procs, watching

LEMMA ShutdownRaisesType ==
  ASSUME TypeOK, ShutdownRaises PROVE TypeOK'
<1>1. age' \in [Pids -> 0..(Buffer + 1) \cup {None}]
  BY TimesAssumption
     DEF TypeOK, ShutdownRaises, CloseBrowser, Kill, Dies, ManagerRest
<1>2. handle' \in [Browsers -> {"new", "launching", "up", "down", "raised",
                              "shut"}]
  BY DEF TypeOK, ShutdownRaises, CloseBrowser, Kill, Dies, ManagerRest
<1>3. tm' \in {"launching", "running", "closing", "closed", "raised"}
  BY DEF TypeOK, ShutdownRaises, CloseBrowser, Kill, Dies, ManagerRest
<1> QED
  BY <1>1, <1>2, <1>3
     DEF TypeOK, ShutdownRaises, CloseBrowser, Kill, Dies, ManagerRest,
         config, manager, files, child, attempt, procs, watching

LEMMA WatchdogLooksType ==
  ASSUME TypeOK, WatchdogLooks PROVE TypeOK'
<1>1. watchdog' \in {"off", "idle", "killing", "dead"}
  BY DEF TypeOK, WatchdogLooks, Unknown
<1>2. doomed' \in SUBSET Pids
  BY DEF TypeOK, WatchdogLooks, Unknown, alive
<1> QED
  BY <1>1, <1>2
     DEF TypeOK, WatchdogLooks, Unknown, config, manager, files, child,
         attempt, procs, watching

LEMMA WatchdogKillsType ==
  ASSUME TypeOK, WatchdogKills PROVE TypeOK'
<1>1. watchdog' \in {"off", "idle", "killing", "dead"}
  BY DEF TypeOK, WatchdogKills, Dies
<1>2. age' \in [Pids -> 0..(Buffer + 1) \cup {None}]
  BY TimesAssumption DEF TypeOK, WatchdogKills, Dies
<1>3. doomed' \in SUBSET Pids
  BY DEF TypeOK, WatchdogKills, Dies
<1> QED
  BY <1>1, <1>2, <1>3
     DEF TypeOK, WatchdogKills, Dies, config, manager, files, child, attempt,
         procs, watching

LEMMA WatchdogDiesType ==
  ASSUME TypeOK, WatchdogDies PROVE TypeOK'
<1>1. watchdog' \in {"off", "idle", "killing", "dead"}
  BY DEF TypeOK, WatchdogDies, Dies
<1>2. age' \in [Pids -> 0..(Buffer + 1) \cup {None}]
  BY TimesAssumption DEF TypeOK, WatchdogDies, Dies
<1>3. doomed' \in SUBSET Pids
  BY DEF TypeOK, WatchdogDies, Dies
<1> QED
  BY <1>1, <1>2, <1>3
     DEF TypeOK, WatchdogDies, Dies, config, manager, files, child, attempt,
         procs, watching

LEMMA TickType ==
  ASSUME TypeOK, Tick PROVE TypeOK'
<1>1. age' \in [Pids -> 0..(Buffer + 1) \cup {None}]
  BY TimesAssumption DEF TypeOK, Tick, Drained, alive
<1>2. waited' \in [Browsers -> 0..SpawnTimeout]
  BY TimesAssumption DEF TypeOK, Tick, Drained, alive
<1> QED
  BY <1>1, <1>2
     DEF TypeOK, Tick, Drained, config, manager, files, child, attempt, procs,
         watching

----------------------------------------------------------------------------
(* Steps that need more than their definitions.                            *)

\* Only processes that run are found to be unknown.
LEMMA WatchdogLooksPids == ASSUME IInv, WatchdogLooks PROVE NewPids'
<1>1. UNCHANGED <<age, started>> /\ doomed' \subseteq alive
  BY DEF WatchdogLooks, Unknown, procs
<1>2. \A p \in alive : p \in Pids /\ p <= started
  BY BoundsAssumption DEF alive, IInv, NewPids, TypeOK, Pids
<1> QED BY <1>1, <1>2 DEF IInv, NewPids

\* Time passes only for processes that run.
LEMMA TickPids == ASSUME IInv, Tick PROVE NewPids'
BY DEF IInv, NewPids, Tick, alive, TypeOK, watching

\* A failed spawn at most forgets its own geckodriver.
LEMMA UnsuccessfulOwn ==
  ASSUME IInv, NEW b \in Browsers, Unsuccessful(b), NEW c \in Browsers
  PROVE  OwnPid(c)'
<1>1. /\ UNCHANGED <<geckodriver_pid, started>>
      /\ \/ UNCHANGED <<gecko, stage>>
         \/ /\ gecko' = [gecko EXCEPT ![b] = None]
            /\ stage' = [stage EXCEPT ![b] = 0]
  BY DEF Unsuccessful, EndLaunch, Fork
<1>2. CASE UNCHANGED <<gecko, stage>>
  BY <1>1, <1>2 DEF IInv, OwnPid
<1>3. CASE /\ gecko' = [gecko EXCEPT ![b] = None]
           /\ stage' = [stage EXCEPT ![b] = 0]
  BY <1>1, <1>3 DEF IInv, OwnPid, TypeOK
<1> QED BY <1>1, <1>2, <1>3

\* What is loaded is what the user expects: with crash_recovery the tar
\* file of the old profile, else the seed or nothing.
LEMMA LoadTarProfile ==
  ASSUME IInv, NEW b \in Browsers, LoadTar(b), NEW c \in Browsers
  PROVE  ProfileInv(c)'
<1>1. SeedOrRecovery(b) = expected[b]
  <2>1. CASE seed_tar /\ ~crash_recovery[b]
    <3>1. current[b] = None
      BY <2>1 DEF IInv, ProfileInv, LoadTar, Deploying
    <3>2. /\ expected[b] \in Content
          /\ expected[b].seed = TRUE /\ expected[b].visits = 0
      BY <2>1, <3>1 DEF IInv, ProfileInv, TypeOK
    <3>3. expected[b] = [seed |-> TRUE, visits |-> 0]
      BY <3>2 DEF Content
    <3> QED BY <2>1, <3>3 DEF SeedOrRecovery
  <2>2. CASE crash_recovery[b]
    BY <2>2, NoneIsNoContent
       DEF IInv, ProfileInv, LoadTar, Deploying, TypeOK, SeedOrRecovery
  <2>3. CASE ~seed_tar /\ ~crash_recovery[b]
    <3>1. current[b] = None /\ recovery_tar[b] = None
      BY <2>3 DEF IInv, ProfileInv, LoadTar, Deploying
    <3>2. /\ expected[b] \in Content
          /\ expected[b].seed = FALSE /\ expected[b].visits = 0
      BY <2>3, <3>1 DEF IInv, ProfileInv, TypeOK
    <3>3. expected[b] = Empty
      BY <3>2 DEF Content, Empty
    <3> QED BY <2>3, <3>1, <3>3 DEF SeedOrRecovery
  <2> QED BY <2>1, <2>2, <2>3 
<1>2. profile' = [profile EXCEPT ![b] = expected[b]]
  BY <1>1 DEF LoadTar
<1> QED
  BY <1>2
     DEF IInv, TypeOK, ProfileInv, LoadTar, Deploying, Put, ChildRest, config,
         files

\* A visit leaves its mark in the profile and in the expectation.
LEMMA VisitProfile ==
  ASSUME IInv, NEW b \in Browsers, Visit(b), NEW c \in Browsers
  PROVE  ProfileInv(c)'
<1>1. CASE handle[b] = "up"
  <2> DEFINE new == [expected[b] EXCEPT !.visits = expected[b].visits + 1]
  <2>1. current[b] = expected[b] /\ expected[b] \in Content
    BY <1>1 DEF IInv, TypeOK, ProfileInv
  <2>2. new \in Content
    BY <2>1, <1>1, VisitsOfContent, BoundsAssumption DEF Visit, Content
  <2>3. new # None /\ new.seed = expected[b].seed
    BY <2>1, <2>2, NoneIsNoContent DEF Content
  <2>4. /\ current' = [current EXCEPT ![b] = new]
        /\ expected' = [expected EXCEPT ![b] = new]
    BY <1>1, <2>1 DEF Visit, IInv, TypeOK
  <2>5. current'[c] \in {None, expected'[c]}
    BY <2>4 DEF IInv, TypeOK, ProfileInv
  <2> HIDE DEF new
  <2> QED
    BY <1>1, <2>3, <2>4
       DEF IInv, TypeOK, ProfileInv, Visit, config, child
<1>2. CASE handle[b] # "up"
  BY <1>2 DEF IInv, TypeOK, ProfileInv, Visit, config, child
<1> QED BY <1>1, <1>2

\* A restart takes the profile along or forgets it with its tar file.
LEMMA RestartProfile ==
  ASSUME IInv, NEW b \in Browsers, Restart(b), NEW c \in Browsers
  PROVE  ProfileInv(c)'
<1>1. PICK clear \in BOOLEAN :
        LET keep == Forget(b, clear)
        IN  /\ current' = [current EXCEPT ![b] = keep.cur]
            /\ expected' = [expected EXCEPT
                             ![b].visits = IF clear THEN 0 ELSE @]
            /\ \/ Launch(b, keep.cur, keep.tar)
               \/ LaunchRaises(b, keep.cur)
  BY DEF Restart
<1> DEFINE cur == IF clear THEN None ELSE current[b]
           tar == IF clear /\ current[b] # None THEN None ELSE recovery_tar[b]
           new == [expected[b] EXCEPT !.visits = IF clear THEN 0 ELSE @]
<1>2. /\ current' = [current EXCEPT ![b] = cur]
      /\ expected' = [expected EXCEPT ![b] = new]
      /\ Launch(b, cur, tar) \/ LaunchRaises(b, cur)
  BY <1>1 DEF Forget, IInv, TypeOK
<1>3. /\ new \in Content /\ new.seed = expected[b].seed
      /\ (clear => new.visits = 0) /\ (~clear => new = expected[b])
  <2>1. expected[b] \in Content BY DEF IInv, TypeOK
  <2> QED BY <2>1, BoundsAssumption DEF Content
<1>4. /\ cur \in {None, new}
      /\ cur = None => tar = None /\ new.visits = 0
  BY <1>3 DEF IInv, ProfileInv
<1>5. /\ stage' = stage /\ gecko' = gecko /\ profile' = profile
      /\ seed_tar' = seed_tar
      /\ handle[b] \in {"up", "raised"}
  BY DEF Restart, child, config
<1> HIDE DEF cur, tar, new
<1>6. CASE c # b
  BY <1>2, <1>5, <1>6 DEF IInv, TypeOK, ProfileInv, Launch, LaunchRaises
<1>7. CASE c = b
  <2>1. /\ current'[b] = cur /\ expected'[b] = new /\ new.seed = seed_tar
        /\ stage[b] = 0 /\ gecko[b] = None
    BY <1>2, <1>3, <1>5 DEF IInv, TypeOK, ProfileInv
  <2>2. CASE Launch(b, cur, tar)
    <3>1. /\ handle'[b] = "launching" /\ (crash_recovery'[b] <=> cur # None)
          /\ recovery_tar'[b] = IF cur # None THEN cur ELSE tar
          /\ cur # None => tar_exists'[b] 
      BY <2>2 DEF Launch, IInv, TypeOK
    <3> QED
      BY <1>3, <1>4, <1>5, <1>7, <2>1, <3>1, NoneIsNoContent
         DEF ProfileInv
  <2>3. CASE LaunchRaises(b, cur)
    <3>1. handle'[b] = "raised" /\ cur # None
      BY <2>3 DEF LaunchRaises, IInv, TypeOK
    <3> QED
      BY <1>3, <1>4, <1>5, <1>7, <2>1, <3>1, NoneIsNoContent
         DEF ProfileInv
  <2> QED BY <1>2, <2>2, <2>3
<1> QED BY <1>6, <1>7

\* The first launch carries nothing over.
LEMMA LaunchNextProfile ==
  ASSUME IInv, LaunchNext, NEW c \in Browsers
  PROVE  ProfileInv(c)'
<1>1. turn \in Browsers /\ Launch(turn, current[turn], recovery_tar[turn])
      /\ handle[turn] = "new"
  BY DEF LaunchNext, IInv, TypeOK
<1>2. UNCHANGED <<current, expected, stage, gecko, profile, seed_tar>>
  BY DEF LaunchNext, child, config
<1>3. CASE c # turn
  BY <1>1, <1>2, <1>3 DEF IInv, TypeOK, ProfileInv, Launch
<1>4. CASE c = turn
  <2>1. /\ handle'[c] = "launching"
        /\ (crash_recovery'[c] <=> current[c] # None)
        /\ recovery_tar'[c] = IF current[c] # None THEN current[c]
                              ELSE recovery_tar[c]
        /\ current[c] # None => tar_exists'[c]
    BY <1>1, <1>4 DEF Launch, IInv, TypeOK
  <2>2. ProfileInv(c) /\ stage[c] = 0
    BY <1>1, <1>4 DEF IInv, ProfileInv
  <2> QED BY <1>2, <2>1, <2>2 DEF ProfileInv
<1> QED BY <1>3, <1>4

LEMMA LoadTarInUse ==
  ASSUME IInv, NEW b \in Browsers, LoadTar(b), NEW c \in Browsers
  PROVE  InUse(c)'
<1>1. /\ UNCHANGED <<verdict, gecko, age, handle, geckodriver_pid, doomed,
                   read, waited>>
      /\ stage' = [stage EXCEPT ![b] = @ + 1] /\ stage[b] = 1
  BY DEF LoadTar, Put, ChildRest, procs, attempt, watching
<1> QED BY <1>1 DEF IInv, InUse, TypeOK, alive

LEMMA ReportGeckoInUse ==
  ASSUME IInv, NEW b \in Browsers, ReportGecko(b), NEW c \in Browsers
  PROVE  InUse(c)'
<1>1. /\ UNCHANGED <<verdict, gecko, age, handle, geckodriver_pid, doomed,
                   read, waited>>
      /\ stage' = [stage EXCEPT ![b] = @ + 1]
      /\ stage[b] = 4 /\ gecko[b] # None
  BY DEF ReportGecko, Put, ChildRest, procs, attempt, watching
<1> QED BY <1>1 DEF IInv, InUse, TypeOK, alive

\* The pid of a new geckodriver is not yet among those to be killed.
LEMMA StartGeckoInUse ==
  ASSUME IInv, NEW b \in Browsers, StartGecko(b), NEW c \in Browsers
  PROVE  InUse(c)'
<1>1. /\ UNCHANGED <<stage, verdict, handle, geckodriver_pid, doomed, read,
                   waited>>
      /\ gecko' = [gecko EXCEPT ![b] = started + 1]
      /\ age' = [age EXCEPT ![started + 1] = 0]
      /\ stage[b] = 4 /\ gecko[b] = None /\ started + 1 \in Pids
  BY BoundsAssumption
     DEF StartGecko, ChildRest, attempt, watching, IInv, TypeOK, Pids
<1>2. started + 1 \notin doomed
  BY <1>1 DEF IInv, NewPids, TypeOK, Pids
<1>3. CASE c # b
  <2>1. /\ gecko'[c] = gecko[c] /\ gecko[c] # started + 1
        /\ geckodriver_pid[c] # started + 1
    BY <1>1, <1>3, BoundsAssumption, NoneIsNoPid
       DEF IInv, OwnPid, TypeOK, Pids
  <2>2. \A p : p # started + 1 => /\ (p \in alive' <=> p \in alive)
                                 /\ (p \in Pids => age'[p] = age[p])
    BY <1>1 DEF IInv, TypeOK, alive
  <2>3. gecko[c] # None => gecko[c] \in Pids
    BY DEF IInv, TypeOK
  <2> QED BY <1>1, <2>1, <2>2, <2>3 DEF IInv, InUse
<1>4. CASE c = b
  <2>1. /\ gecko'[c] = started + 1 /\ age'[started + 1] = 0
        /\ started + 1 \in alive'
    BY <1>1, <1>4, NoneIsNoPid DEF IInv, TypeOK, alive
  <2>2. handle[c] # "up" /\ read[c] <= 4 /\ read[c] # 5 /\ 0 <= waited[c]
    BY <1>1, <1>4 DEF IInv, InUse, TypeOK, StartGecko, Deploying
  <2> QED BY <1>1, <1>2, <1>4, <2>1, <2>2 DEF InUse
<1> QED BY <1>3, <1>4

\* Nothing is shut down yet when the closing begins.
LEMMA StartClosingShut ==
  ASSUME IInv, StartClosing, NEW c \in Browsers PROVE ~Done(c)'
BY DEF StartClosing, Done, Browsers

\* A browser that is shut down is dead and archived, and so are those
\* before it.
LEMMA ShutdownBrowserShut ==
  ASSUME IInv, ShutdownBrowser, NEW c \in Browsers, Done(c)' PROVE Shut(c)'
<1>1. /\ turn \in Browsers /\ tm = "closing"
      /\ handle' = [handle EXCEPT ![turn] = "shut"]
      /\ Dies({geckodriver_pid[turn]})
      /\ UNCHANGED <<geckodriver_pid, archive_dir, during_init, expected>>
  BY DEF ShutdownBrowser, CloseBrowser, Kill, ManagerRest, config, IInv,
     TypeOK
<1>2. alive' \subseteq alive /\ geckodriver_pid[turn] \notin alive'
  BY <1>1 DEF Dies, alive, IInv, TypeOK
<1>3. CASE c = turn
  <2>1. Archives => /\ archived'[turn] = current[turn]
                    /\ current[turn] = expected[turn]
    BY <1>1 DEF ShutdownBrowser, IInv, TypeOK, ProfileInv
  <2> QED BY <1>1, <1>2, <1>3, <2>1 DEF Shut, Archives, IInv, TypeOK
<1>4. CASE c # turn
  <2>1. Shut(c)
    <3>1. c < turn
      BY <1>1, <1>4, BrowsersAssumption
         DEF ShutdownBrowser, NextTurn, Done, Browsers
    <3> QED BY <1>1, <3>1 DEF IInv, Done
  <2>2. archived'[c] = archived[c] /\ handle'[c] = handle[c]
    BY <1>1, <1>4 DEF ShutdownBrowser, IInv, TypeOK
  <2> QED BY <1>1, <1>2, <2>1, <2>2 DEF Shut, Archives
<1> QED BY <1>3, <1>4

LEMMA ChildFailsShut ==
  ASSUME IInv, NEW b \in Browsers, ChildFails(b), NEW c \in Browsers, Done(c)'
  PROVE  Shut(c)'
<1>1. Done(c) /\ Shut(c)
  BY DEF IInv, Done, ChildFails, ChildRest, manager
<1>2. alive' \subseteq alive
  BY DEF ChildFails, Dies, alive, IInv, TypeOK
<1> QED
  BY <1>1, <1>2
     DEF Shut, Archives, ChildFails, ChildRest, config, manager, files

----------------------------------------------------------------------------
(* Every action keeps the invariant.                                       *)

LEMMA ReadInv ==
  ASSUME IInv, NEW b \in Browsers, Read(b) PROVE IInv'
<1>1. TypeOK'
  BY ReadType DEF IInv
<1>2. NewPids'
  BY NoneIsNoPid, BoundsAssumption
     DEF IInv, TypeOK, NewPids, Read, Learn, config, manager, files, child,
         attempt, procs, watching, Pids
<1>3. ASSUME NEW c \in Browsers PROVE ProfileInv(c)'
  BY NoneIsNoContent
     DEF IInv, TypeOK, ProfileInv, Read, Learn, config, manager, files, child,
         attempt, procs, watching
<1>4. ASSUME NEW c \in Browsers PROVE OwnPid(c)'
  <2>1. \A d \in Browsers : \/ geckodriver_pid'[d] = geckodriver_pid[d]
                            \/ d = b /\ geckodriver_pid'[d] = gecko[b]
    BY DEF IInv, TypeOK, Read, Learn
  <2>2. UNCHANGED <<gecko, stage, started>>
    BY DEF Read, child, procs
  <2>3. \A d \in Browsers : OwnPid(d)
    BY DEF IInv
  <2> QED
    BY <2>1, <2>2, <2>3 DEF OwnPid
<1>5. ASSUME NEW c \in Browsers PROVE InUse(c)'
  <2>1. /\ UNCHANGED <<handle, verdict, gecko, stage, age, doomed>>
        /\ alive' = alive
    BY DEF Read, child, procs, watching, alive
  <2>2. TypeOK /\ InUse(c)
    BY DEF IInv
  <2>3. CASE c # b
    <3>1. /\ read'[c] = read[c] /\ waited'[c] = waited[c]
          /\ geckodriver_pid'[c] = geckodriver_pid[c]
      BY <2>2, <2>3 DEF TypeOK, Read, Learn
    <3> QED
      BY <2>1, <2>2, <3>1 DEF InUse
  <2>4. CASE c = b
    <3>1. /\ read[c] \in 0..6 /\ stage[c] \in 0..6 /\ read[c] < stage[c]
          /\ stage[c] < 6 /\ handle[c] = "launching"
      BY <2>2, <2>4 DEF TypeOK, Read
    <3>2. /\ read'[c] = stage[c] /\ waited'[c] = 0
          /\ stage[c] = 5 => geckodriver_pid'[c] = gecko[c]
      BY <2>2, <2>4 DEF TypeOK, Read, Learn
    <3>3. ASSUME verdict[c] = "none", gecko[c] # None, stage[c] < 5
          PROVE  age[gecko[c]] = 0
      BY <2>2, <3>1, <3>3 DEF InUse
    <3> QED
      BY <2>1, <2>2, <3>1, <3>2, <3>3 DEF InUse
  <2> QED
    BY <2>3, <2>4
<1>6. ASSUME NEW c \in Browsers, Done(c)' PROVE Shut(c)'
  <2>1. Done(c) /\ Shut(c)
    BY <1>6
       DEF IInv, Done, Read, Learn, config, manager, files, child, attempt,
           procs, watching
  <2>2. b # c
    BY <2>1 DEF Shut, Read
  <2> QED
    BY <1>6, <2>1, <2>2, NoneIsNoPid
       DEF IInv, TypeOK, Shut, OwnPid, NewPids, alive, Archives, Pids, Read,
           Learn, config, manager, files, child, attempt, procs, watching
<1> QED BY <1>1, <1>2, <1>3, <1>4, <1>5, <1>6 DEF IInv

LEMMA SucceedInv ==
  ASSUME IInv, NEW b \in Browsers, Succeed(b) PROVE IInv'
<1>1. TypeOK'
  BY SucceedType DEF IInv
<1>2. NewPids'
  BY NoneIsNoPid, BoundsAssumption
     DEF IInv, TypeOK, NewPids, Succeed, EndLaunch, Fork, Learn, config,
         manager, files, child, attempt, procs, watching, Pids
<1>3. ASSUME NEW c \in Browsers PROVE ProfileInv(c)'
  BY NoneIsNoContent
     DEF IInv, TypeOK, ProfileInv, Succeed, EndLaunch, Fork, Learn, config,
         manager, files, child, attempt, procs, watching
<1>4. ASSUME NEW c \in Browsers PROVE OwnPid(c)'
  BY NoneIsNoPid, BoundsAssumption
     DEF IInv, TypeOK, OwnPid, ProfileInv, Succeed, EndLaunch, Fork, Learn,
         config, manager, files, child, attempt, procs, watching, Pids
<1>5. ASSUME NEW c \in Browsers PROVE InUse(c)'
  BY NoneIsNoPid, TimesAssumption
     DEF IInv, TypeOK, InUse, OwnPid, NewPids, ProfileInv, Succeed, EndLaunch,
         Fork, Learn, config, manager, files, child, attempt, procs, watching,
         alive
<1>6. ASSUME NEW c \in Browsers, Done(c)' PROVE Shut(c)'
  <2>1. Done(c) /\ Shut(c)
    BY <1>6
       DEF IInv, Done, Succeed, EndLaunch, Fork, Learn, config, manager,
           files, child, attempt, procs, watching
  <2>2. b # c
    BY <2>1 DEF Shut, Succeed
  <2> QED
    BY <1>6, <2>1, <2>2, NoneIsNoPid
       DEF IInv, TypeOK, Shut, OwnPid, NewPids, alive, Archives, Pids,
           Succeed, EndLaunch, Fork, Learn, config, manager, files, child,
           attempt, procs, watching
<1> QED BY <1>1, <1>2, <1>3, <1>4, <1>5, <1>6 DEF IInv

LEMMA SpawnFailsInv ==
  ASSUME IInv, NEW b \in Browsers, SpawnFails(b) PROVE IInv'
<1>1. TypeOK'
  BY SpawnFailsType DEF IInv
<1>2. NewPids'
  BY NoneIsNoPid, BoundsAssumption
     DEF IInv, TypeOK, NewPids, SpawnFails, Drained, Unsuccessful, Kill, Dies,
         Fork, EndLaunch, config, manager, files, child, attempt, procs,
         watching, Pids
<1>3. ASSUME NEW c \in Browsers PROVE ProfileInv(c)'
  BY NoneIsNoContent
     DEF IInv, TypeOK, ProfileInv, SpawnFails, Drained, Unsuccessful, Kill,
         Dies, Fork, EndLaunch, config, manager, files, child, attempt, procs,
         watching
<1>4. ASSUME NEW c \in Browsers PROVE OwnPid(c)'
  BY UnsuccessfulOwn DEF SpawnFails
<1>5. ASSUME NEW c \in Browsers PROVE InUse(c)'
  BY NoneIsNoPid, TimesAssumption
     DEF IInv, TypeOK, InUse, OwnPid, NewPids, ProfileInv, SpawnFails,
         Drained, Unsuccessful, Kill, Dies, Fork, EndLaunch, config, manager,
         files, child, attempt, procs, watching, alive
<1>6. ASSUME NEW c \in Browsers, Done(c)' PROVE Shut(c)'
  <2>1. Done(c) /\ Shut(c)
    BY <1>6
       DEF IInv, Done, SpawnFails, Drained, Unsuccessful, Kill, Dies, Fork,
           EndLaunch, config, manager, files, child, attempt, procs, watching
  <2>2. b # c
    BY <2>1 DEF Shut, SpawnFails, Drained
  <2> QED
    BY <1>6, <2>1, <2>2, NoneIsNoPid
       DEF IInv, TypeOK, Shut, OwnPid, NewPids, alive, Archives, Pids,
           SpawnFails, Drained, Unsuccessful, Kill, Dies, Fork, EndLaunch,
           config, manager, files, child, attempt, procs, watching
<1> QED BY <1>1, <1>2, <1>3, <1>4, <1>5, <1>6 DEF IInv

LEMMA TimeOutInv ==
  ASSUME IInv, NEW b \in Browsers, TimeOut(b) PROVE IInv'
<1>1. TypeOK'
  BY TimeOutType DEF IInv
<1>2. NewPids'
  BY NoneIsNoPid, BoundsAssumption
     DEF IInv, TypeOK, NewPids, TimeOut, Drained, Unsuccessful, Kill, Dies,
         Fork, EndLaunch, config, manager, files, child, attempt, procs,
         watching, Pids
<1>3. ASSUME NEW c \in Browsers PROVE ProfileInv(c)'
  BY NoneIsNoContent
     DEF IInv, TypeOK, ProfileInv, TimeOut, Drained, Unsuccessful, Kill, Dies,
         Fork, EndLaunch, config, manager, files, child, attempt, procs,
         watching
<1>4. ASSUME NEW c \in Browsers PROVE OwnPid(c)'
  BY UnsuccessfulOwn DEF TimeOut
<1>5. ASSUME NEW c \in Browsers PROVE InUse(c)'
  BY NoneIsNoPid, TimesAssumption
     DEF IInv, TypeOK, InUse, OwnPid, NewPids, ProfileInv, TimeOut, Drained,
         Unsuccessful, Kill, Dies, Fork, EndLaunch, config, manager, files,
         child, attempt, procs, watching, alive
<1>6. ASSUME NEW c \in Browsers, Done(c)' PROVE Shut(c)'
  <2>1. Done(c) /\ Shut(c)
    BY <1>6
       DEF IInv, Done, TimeOut, Drained, Unsuccessful, Kill, Dies, Fork,
           EndLaunch, config, manager, files, child, attempt, procs, watching
  <2>2. b # c
    BY <2>1 DEF Shut, TimeOut, Drained
  <2> QED
    BY <1>6, <2>1, <2>2, NoneIsNoPid
       DEF IInv, TypeOK, Shut, OwnPid, NewPids, alive, Archives, Pids,
           TimeOut, Drained, Unsuccessful, Kill, Dies, Fork, EndLaunch,
           config, manager, files, child, attempt, procs, watching
<1> QED BY <1>1, <1>2, <1>3, <1>4, <1>5, <1>6 DEF IInv

LEMMA SpawnRaisesInv ==
  ASSUME IInv, NEW b \in Browsers, SpawnRaises(b) PROVE IInv'
<1>1. TypeOK'
  BY SpawnRaisesType DEF IInv
<1>2. NewPids'
  BY NoneIsNoPid, BoundsAssumption
     DEF IInv, TypeOK, NewPids, SpawnRaises, Drained, EndLaunch, Fork, config,
         manager, files, child, attempt, procs, watching, Pids
<1>3. ASSUME NEW c \in Browsers PROVE ProfileInv(c)'
  BY NoneIsNoContent
     DEF IInv, TypeOK, ProfileInv, SpawnRaises, Drained, EndLaunch, Fork,
         config, manager, files, child, attempt, procs, watching
<1>4. ASSUME NEW c \in Browsers PROVE OwnPid(c)'
  BY NoneIsNoPid, BoundsAssumption
     DEF IInv, TypeOK, OwnPid, ProfileInv, SpawnRaises, Drained, EndLaunch,
         Fork, config, manager, files, child, attempt, procs, watching, Pids
<1>5. ASSUME NEW c \in Browsers PROVE InUse(c)'
  BY NoneIsNoPid, TimesAssumption
     DEF IInv, TypeOK, InUse, OwnPid, NewPids, ProfileInv, SpawnRaises,
         Drained, EndLaunch, Fork, config, manager, files, child, attempt,
         procs, watching, alive
<1>6. ASSUME NEW c \in Browsers, Done(c)' PROVE Shut(c)'
  <2>1. Done(c) /\ Shut(c)
    BY <1>6
       DEF IInv, Done, SpawnRaises, Drained, EndLaunch, Fork, config, manager,
           files, child, attempt, procs, watching
  <2>2. b # c
    BY <2>1 DEF Shut, SpawnRaises, Drained
  <2> QED
    BY <1>6, <2>1, <2>2, NoneIsNoPid
       DEF IInv, TypeOK, Shut, OwnPid, NewPids, alive, Archives, Pids,
           SpawnRaises, Drained, EndLaunch, Fork, config, manager, files,
           child, attempt, procs, watching
<1> QED BY <1>1, <1>2, <1>3, <1>4, <1>5, <1>6 DEF IInv

LEMMA ReportInv ==
  ASSUME IInv, NEW b \in Browsers, Report(b) PROVE IInv'
<1>1. TypeOK'
  BY ReportType DEF IInv
<1>2. NewPids'
  BY NoneIsNoPid, BoundsAssumption
     DEF IInv, TypeOK, NewPids, Report, Deploying, ChildRest, config, manager,
         files, child, attempt, procs, watching, Pids
<1>3. ASSUME NEW c \in Browsers PROVE ProfileInv(c)'
  BY NoneIsNoContent
     DEF IInv, TypeOK, ProfileInv, Report, Deploying, ChildRest, config,
         manager, files, child, attempt, procs, watching
<1>4. ASSUME NEW c \in Browsers PROVE OwnPid(c)'
  BY NoneIsNoPid, BoundsAssumption
     DEF IInv, TypeOK, OwnPid, ProfileInv, Report, Deploying, ChildRest,
         config, manager, files, child, attempt, procs, watching, Pids
<1>5. ASSUME NEW c \in Browsers PROVE InUse(c)'
  <2>1. /\ TypeOK /\ InUse(c) /\ ProfileInv(c)
        /\ UNCHANGED <<handle, verdict, gecko, read, geckodriver_pid, age, doomed,
                       waited>>
        /\ alive' = alive
    BY DEF IInv, Report, ChildRest, procs, attempt, watching, alive
  <2>2. /\ stage' = [stage EXCEPT ![b] = IF @ = 2 THEN 4 ELSE 1]
        /\ stage[b] \in {0, 2} /\ Deploying(b)
    BY DEF Report
  <2>3. stage'[c] >= 5 => stage[c] >= 5
    BY <2>1, <2>2 DEF TypeOK
  <2>4. stage'[c] = 6 => stage[c] = 6
    BY <2>1, <2>2 DEF TypeOK
  <2>5. stage[c] \in 0..6 /\ stage'[c] \in 0..6 /\ stage[c] <= stage'[c]
    BY <2>1, <2>2 DEF TypeOK
  <2>6. read[c] <= stage'[c]
    BY <2>1, <2>5 DEF InUse, TypeOK
  <2> QED
    BY <2>1, <2>3, <2>4, <2>6 DEF InUse
<1>6. ASSUME NEW c \in Browsers, Done(c)' PROVE Shut(c)'
  <2>1. Done(c) /\ Shut(c)
    BY <1>6
       DEF IInv, Done, Report, Deploying, ChildRest, config, manager, files,
           child, attempt, procs, watching
  <2>2. b # c
    BY <2>1 DEF Shut, Report, Deploying
  <2> QED
    BY <1>6, <2>1, <2>2, NoneIsNoPid
       DEF IInv, TypeOK, Shut, OwnPid, NewPids, alive, Archives, Pids, Report,
           Deploying, ChildRest, config, manager, files, child, attempt,
           procs, watching
<1> QED BY <1>1, <1>2, <1>3, <1>4, <1>5, <1>6 DEF IInv

LEMMA ExtensionStartsInv ==
  ASSUME IInv, NEW b \in Browsers, ExtensionStarts(b) PROVE IInv'
<1>1. TypeOK'
  BY ExtensionStartsType DEF IInv
<1>2. NewPids'
  BY NoneIsNoPid, BoundsAssumption
     DEF IInv, TypeOK, NewPids, ExtensionStarts, Deploying, Put, ChildRest,
         config, manager, files, child, attempt, procs, watching, Pids
<1>3. ASSUME NEW c \in Browsers PROVE ProfileInv(c)'
  BY NoneIsNoContent
     DEF IInv, TypeOK, ProfileInv, ExtensionStarts, Deploying, Put, ChildRest,
         config, manager, files, child, attempt, procs, watching
<1>4. ASSUME NEW c \in Browsers PROVE OwnPid(c)'
  BY NoneIsNoPid, BoundsAssumption
     DEF IInv, TypeOK, OwnPid, ProfileInv, ExtensionStarts, Deploying, Put,
         ChildRest, config, manager, files, child, attempt, procs, watching,
         Pids
<1>5. ASSUME NEW c \in Browsers PROVE InUse(c)'
  <2>1. /\ TypeOK /\ InUse(c) /\ InUse(b)
        /\ UNCHANGED <<handle, verdict, gecko, read, geckodriver_pid, age, doomed,
                       waited>>
        /\ alive' = alive
    BY DEF IInv, ExtensionStarts, ChildRest, procs, attempt, watching, alive
  <2>2. /\ stage' = [stage EXCEPT ![b] = @ + 1]
        /\ stage[b] = 5 /\ verdict[b] = "none"
    BY DEF ExtensionStarts, Put, Deploying
  <2>3. stage'[c] >= 5 => stage[c] >= 5
    BY <2>1, <2>2 DEF TypeOK
  <2>4. stage'[c] = 6 => verdict[c] = "none"
    BY <2>1, <2>2 DEF TypeOK, InUse
  <2>5. stage[c] \in 0..6 /\ stage'[c] \in 0..6 /\ stage[c] <= stage'[c]
    BY <2>1, <2>2 DEF TypeOK
  <2>6. read[c] <= stage'[c]
    BY <2>1, <2>5 DEF InUse, TypeOK
  <2> QED
    BY <2>1, <2>3, <2>4, <2>6 DEF InUse
<1>6. ASSUME NEW c \in Browsers, Done(c)' PROVE Shut(c)'
  <2>1. Done(c) /\ Shut(c)
    BY <1>6
       DEF IInv, Done, ExtensionStarts, Deploying, Put, ChildRest, config,
           manager, files, child, attempt, procs, watching
  <2>2. b # c
    BY <2>1 DEF Shut, ExtensionStarts, Deploying
  <2> QED
    BY <1>6, <2>1, <2>2, NoneIsNoPid
       DEF IInv, TypeOK, Shut, OwnPid, NewPids, alive, Archives, Pids,
           ExtensionStarts, Deploying, Put, ChildRest, config, manager, files,
           child, attempt, procs, watching
<1> QED BY <1>1, <1>2, <1>3, <1>4, <1>5, <1>6 DEF IInv

LEMMA LoadTarInv ==
  ASSUME IInv, NEW b \in Browsers, LoadTar(b) PROVE IInv'
<1>1. TypeOK'
  BY LoadTarType DEF IInv
<1>2. NewPids'
  BY NoneIsNoPid, BoundsAssumption
     DEF IInv, TypeOK, NewPids, LoadTar, Deploying, Put, ChildRest,
         SeedOrRecovery, Unloadable, config, manager, files, child, attempt,
         procs, watching, Pids
<1>3. ASSUME NEW c \in Browsers PROVE ProfileInv(c)'
  BY LoadTarProfile
<1>4. ASSUME NEW c \in Browsers PROVE OwnPid(c)'
  BY NoneIsNoPid, BoundsAssumption
     DEF IInv, TypeOK, OwnPid, ProfileInv, LoadTar, Deploying, Put, ChildRest,
         SeedOrRecovery, Unloadable, config, manager, files, child, attempt,
         procs, watching, Pids
<1>5. ASSUME NEW c \in Browsers PROVE InUse(c)'
  BY LoadTarInUse
<1>6. ASSUME NEW c \in Browsers, Done(c)' PROVE Shut(c)'
  <2>1. Done(c) /\ Shut(c)
    BY <1>6
       DEF IInv, Done, LoadTar, Deploying, Put, ChildRest, SeedOrRecovery,
           Unloadable, config, manager, files, child, attempt, procs, watching
  <2>2. b # c
    BY <2>1 DEF Shut, LoadTar, Deploying
  <2> QED
    BY <1>6, <2>1, <2>2, NoneIsNoPid
       DEF IInv, TypeOK, Shut, OwnPid, NewPids, alive, Archives, Pids,
           LoadTar, Deploying, Put, ChildRest, SeedOrRecovery, Unloadable,
           config, manager, files, child, attempt, procs, watching
<1> QED BY <1>1, <1>2, <1>3, <1>4, <1>5, <1>6 DEF IInv

LEMMA StartGeckoInv ==
  ASSUME IInv, NEW b \in Browsers, StartGecko(b) PROVE IInv'
<1>1. TypeOK'
  BY StartGeckoType DEF IInv
<1>2. NewPids'
  BY NoneIsNoPid, BoundsAssumption
     DEF IInv, TypeOK, NewPids, StartGecko, Deploying, ChildRest, Pids,
         config, manager, files, child, attempt, procs, watching, Pids
<1>3. ASSUME NEW c \in Browsers PROVE ProfileInv(c)'
  BY NoneIsNoContent
     DEF IInv, TypeOK, ProfileInv, StartGecko, Deploying, ChildRest, Pids,
         config, manager, files, child, attempt, procs, watching
<1>4. ASSUME NEW c \in Browsers PROVE OwnPid(c)'
  BY NoneIsNoPid, BoundsAssumption
     DEF IInv, TypeOK, OwnPid, ProfileInv, StartGecko, Deploying, ChildRest,
         Pids, config, manager, files, child, attempt, procs, watching, Pids
<1>5. ASSUME NEW c \in Browsers PROVE InUse(c)'
  BY StartGeckoInUse
<1>6. ASSUME NEW c \in Browsers, Done(c)' PROVE Shut(c)'
  <2>1. Done(c) /\ Shut(c)
    BY <1>6
       DEF IInv, Done, StartGecko, Deploying, ChildRest, Pids, config,
           manager, files, child, attempt, procs, watching
  <2>2. b # c
    BY <2>1 DEF Shut, StartGecko, Deploying
  <2> QED
    BY <1>6, <2>1, <2>2, NoneIsNoPid
       DEF IInv, TypeOK, Shut, OwnPid, NewPids, alive, Archives, Pids,
           StartGecko, Deploying, ChildRest, Pids, config, manager, files,
           child, attempt, procs, watching
<1> QED BY <1>1, <1>2, <1>3, <1>4, <1>5, <1>6 DEF IInv

LEMMA ReportGeckoInv ==
  ASSUME IInv, NEW b \in Browsers, ReportGecko(b) PROVE IInv'
<1>1. TypeOK'
  BY ReportGeckoType DEF IInv
<1>2. NewPids'
  BY NoneIsNoPid, BoundsAssumption
     DEF IInv, TypeOK, NewPids, ReportGecko, Deploying, Put, ChildRest,
         config, manager, files, child, attempt, procs, watching, Pids
<1>3. ASSUME NEW c \in Browsers PROVE ProfileInv(c)'
  BY NoneIsNoContent
     DEF IInv, TypeOK, ProfileInv, ReportGecko, Deploying, Put, ChildRest,
         config, manager, files, child, attempt, procs, watching
<1>4. ASSUME NEW c \in Browsers PROVE OwnPid(c)'
  BY NoneIsNoPid, BoundsAssumption
     DEF IInv, TypeOK, OwnPid, ProfileInv, ReportGecko, Deploying, Put,
         ChildRest, config, manager, files, child, attempt, procs, watching,
         Pids
<1>5. ASSUME NEW c \in Browsers PROVE InUse(c)'
  BY ReportGeckoInUse
<1>6. ASSUME NEW c \in Browsers, Done(c)' PROVE Shut(c)'
  <2>1. Done(c) /\ Shut(c)
    BY <1>6
       DEF IInv, Done, ReportGecko, Deploying, Put, ChildRest, config,
           manager, files, child, attempt, procs, watching
  <2>2. b # c
    BY <2>1 DEF Shut, ReportGecko, Deploying
  <2> QED
    BY <1>6, <2>1, <2>2, NoneIsNoPid
       DEF IInv, TypeOK, Shut, OwnPid, NewPids, alive, Archives, Pids,
           ReportGecko, Deploying, Put, ChildRest, config, manager, files,
           child, attempt, procs, watching
<1> QED BY <1>1, <1>2, <1>3, <1>4, <1>5, <1>6 DEF IInv

LEMMA ChildFailsInv ==
  ASSUME IInv, NEW b \in Browsers, ChildFails(b) PROVE IInv'
<1>1. TypeOK'
  BY ChildFailsType DEF IInv
<1>2. NewPids'
  BY NoneIsNoPid, BoundsAssumption
     DEF IInv, TypeOK, NewPids, ChildFails, Deploying, ChildRest, Dies,
         config, manager, files, child, attempt, procs, watching, Pids
<1>3. ASSUME NEW c \in Browsers PROVE ProfileInv(c)'
  BY NoneIsNoContent
     DEF IInv, TypeOK, ProfileInv, ChildFails, Deploying, ChildRest, Dies,
         config, manager, files, child, attempt, procs, watching
<1>4. ASSUME NEW c \in Browsers PROVE OwnPid(c)'
  BY NoneIsNoPid, BoundsAssumption
     DEF IInv, TypeOK, OwnPid, ProfileInv, ChildFails, Deploying, ChildRest,
         Dies, config, manager, files, child, attempt, procs, watching, Pids
<1>5. ASSUME NEW c \in Browsers PROVE InUse(c)'
  BY NoneIsNoPid, TimesAssumption
     DEF IInv, TypeOK, InUse, OwnPid, NewPids, ProfileInv, ChildFails,
         Deploying, ChildRest, Dies, config, manager, files, child, attempt,
         procs, watching, alive
<1>6. ASSUME NEW c \in Browsers, Done(c)' PROVE Shut(c)'
  BY <1>6, ChildFailsShut
<1> QED BY <1>1, <1>2, <1>3, <1>4, <1>5, <1>6 DEF IInv

LEMMA VisitInv ==
  ASSUME IInv, NEW b \in Browsers, Visit(b) PROVE IInv'
<1>1. TypeOK'
  BY VisitType DEF IInv
<1>2. NewPids'
  BY NoneIsNoPid, BoundsAssumption
     DEF IInv, TypeOK, NewPids, Visit, config, manager, files, child, attempt,
         procs, watching, Pids
<1>3. ASSUME NEW c \in Browsers PROVE ProfileInv(c)'
  BY VisitProfile
<1>4. ASSUME NEW c \in Browsers PROVE OwnPid(c)'
  BY NoneIsNoPid, BoundsAssumption
     DEF IInv, TypeOK, OwnPid, ProfileInv, Visit, config, manager, files,
         child, attempt, procs, watching, Pids
<1>5. ASSUME NEW c \in Browsers PROVE InUse(c)'
  BY NoneIsNoPid, TimesAssumption
     DEF IInv, TypeOK, InUse, OwnPid, NewPids, ProfileInv, Visit, config,
         manager, files, child, attempt, procs, watching, alive
<1>6. ASSUME NEW c \in Browsers, Done(c)' PROVE Shut(c)'
  <2>1. Done(c) /\ Shut(c)
    BY <1>6
       DEF IInv, Done, Visit, config, manager, files, child, attempt, procs,
           watching
  <2>2. b # c
    BY <2>1 DEF Shut, Visit
  <2> QED
    BY <1>6, <2>1, <2>2, NoneIsNoPid
       DEF IInv, TypeOK, Shut, OwnPid, NewPids, alive, Archives, Pids, Visit,
           config, manager, files, child, attempt, procs, watching
<1> QED BY <1>1, <1>2, <1>3, <1>4, <1>5, <1>6 DEF IInv

LEMMA RestartInv ==
  ASSUME IInv, NEW b \in Browsers, Restart(b) PROVE IInv'
<1>1. TypeOK'
  BY RestartType DEF IInv
<1>2. NewPids'
  BY NoneIsNoPid, BoundsAssumption
     DEF IInv, TypeOK, NewPids, Restart, Kill, Dies, Forget, Launch,
         LaunchRaises, config, manager, files, child, attempt, procs,
         watching, Pids
<1>3. ASSUME NEW c \in Browsers PROVE ProfileInv(c)'
  BY RestartProfile
<1>4. ASSUME NEW c \in Browsers PROVE OwnPid(c)'
  BY NoneIsNoPid, BoundsAssumption
     DEF IInv, TypeOK, OwnPid, ProfileInv, Restart, Kill, Dies, Forget,
         Launch, LaunchRaises, config, manager, files, child, attempt, procs,
         watching, Pids
<1>5. ASSUME NEW c \in Browsers PROVE InUse(c)'
  BY NoneIsNoPid, TimesAssumption
     DEF IInv, TypeOK, InUse, OwnPid, NewPids, ProfileInv, Restart, Kill,
         Dies, Forget, Launch, LaunchRaises, config, manager, files, child,
         attempt, procs, watching, alive
<1>6. ASSUME NEW c \in Browsers, Done(c)' PROVE Shut(c)'
  <2>1. Done(c) /\ Shut(c)
    BY <1>6
       DEF IInv, Done, Restart, Kill, Dies, Forget, Launch, LaunchRaises,
           config, manager, files, child, attempt, procs, watching
  <2>2. b # c
    BY <2>1 DEF Shut, Restart
  <2> QED
    BY <1>6, <2>1, <2>2, NoneIsNoPid
       DEF IInv, TypeOK, Shut, OwnPid, NewPids, alive, Archives, Pids,
           Restart, Kill, Dies, Forget, Launch, LaunchRaises, config, manager,
           files, child, attempt, procs, watching
<1> QED BY <1>1, <1>2, <1>3, <1>4, <1>5, <1>6 DEF IInv

LEMMA LaunchNextInv ==
  ASSUME IInv, LaunchNext PROVE IInv'
<1>1. TypeOK'
  BY LaunchNextType DEF IInv
<1>2. NewPids'
  BY NoneIsNoPid, BoundsAssumption
     DEF IInv, TypeOK, NewPids, LaunchNext, Launch, config, manager, files,
         child, attempt, procs, watching, Pids
<1>3. ASSUME NEW c \in Browsers PROVE ProfileInv(c)'
  BY LaunchNextProfile
<1>4. ASSUME NEW c \in Browsers PROVE OwnPid(c)'
  BY NoneIsNoPid, BoundsAssumption
     DEF IInv, TypeOK, OwnPid, ProfileInv, LaunchNext, Launch, config,
         manager, files, child, attempt, procs, watching, Pids
<1>5. ASSUME NEW c \in Browsers PROVE InUse(c)'
  BY NoneIsNoPid, TimesAssumption
     DEF IInv, TypeOK, InUse, OwnPid, NewPids, ProfileInv, LaunchNext, Launch,
         config, manager, files, child, attempt, procs, watching, alive
<1>6. ASSUME NEW c \in Browsers, Done(c)' PROVE Shut(c)'
  <2>1. Done(c) /\ Shut(c)
    BY <1>6
       DEF IInv, Done, LaunchNext, Launch, config, manager, files, child,
           attempt, procs, watching
  <2> QED
    BY <1>6, <2>1, NoneIsNoPid
       DEF IInv, TypeOK, Shut, OwnPid, NewPids, alive, Archives, Pids,
           LaunchNext, Launch, config, manager, files, child, attempt, procs,
           watching
<1> QED BY <1>1, <1>2, <1>3, <1>4, <1>5, <1>6 DEF IInv

LEMMA LaunchedInv ==
  ASSUME IInv, Launched PROVE IInv'
<1>1. TypeOK'
  BY LaunchedType DEF IInv
<1>2. NewPids'
  BY NoneIsNoPid, BoundsAssumption
     DEF IInv, TypeOK, NewPids, Launched, config, manager, files, child,
         attempt, procs, watching, Pids
<1>3. ASSUME NEW c \in Browsers PROVE ProfileInv(c)'
  BY NoneIsNoContent
     DEF IInv, TypeOK, ProfileInv, Launched, config, manager, files, child,
         attempt, procs, watching
<1>4. ASSUME NEW c \in Browsers PROVE OwnPid(c)'
  BY NoneIsNoPid, BoundsAssumption
     DEF IInv, TypeOK, OwnPid, ProfileInv, Launched, config, manager, files,
         child, attempt, procs, watching, Pids
<1>5. ASSUME NEW c \in Browsers PROVE InUse(c)'
  BY NoneIsNoPid, TimesAssumption
     DEF IInv, TypeOK, InUse, OwnPid, NewPids, ProfileInv, Launched, config,
         manager, files, child, attempt, procs, watching, alive
<1>6. ASSUME NEW c \in Browsers, Done(c)' PROVE Shut(c)'
  <2>1. Done(c) /\ Shut(c)
    BY <1>6
       DEF IInv, Done, Launched, config, manager, files, child, attempt,
           procs, watching
  <2> QED
    BY <1>6, <2>1, NoneIsNoPid
       DEF IInv, TypeOK, Shut, OwnPid, NewPids, alive, Archives, Pids,
           Launched, config, manager, files, child, attempt, procs, watching
<1> QED BY <1>1, <1>2, <1>3, <1>4, <1>5, <1>6 DEF IInv

LEMMA LaunchFailedInv ==
  ASSUME IInv, LaunchFailed PROVE IInv'
<1>1. TypeOK'
  BY LaunchFailedType DEF IInv
<1>2. NewPids'
  BY NoneIsNoPid, BoundsAssumption
     DEF IInv, TypeOK, NewPids, LaunchFailed, StartClosing, ManagerRest,
         config, manager, files, child, attempt, procs, watching, Pids
<1>3. ASSUME NEW c \in Browsers PROVE ProfileInv(c)'
  BY NoneIsNoContent
     DEF IInv, TypeOK, ProfileInv, LaunchFailed, StartClosing, ManagerRest,
         config, manager, files, child, attempt, procs, watching
<1>4. ASSUME NEW c \in Browsers PROVE OwnPid(c)'
  BY NoneIsNoPid, BoundsAssumption
     DEF IInv, TypeOK, OwnPid, ProfileInv, LaunchFailed, StartClosing,
         ManagerRest, config, manager, files, child, attempt, procs, watching,
         Pids
<1>5. ASSUME NEW c \in Browsers PROVE InUse(c)'
  BY NoneIsNoPid, TimesAssumption
     DEF IInv, TypeOK, InUse, OwnPid, NewPids, ProfileInv, LaunchFailed,
         StartClosing, ManagerRest, config, manager, files, child, attempt,
         procs, watching, alive
<1>6. ASSUME NEW c \in Browsers, Done(c)' PROVE Shut(c)'
  BY <1>6, StartClosingShut DEF LaunchFailed
<1> QED BY <1>1, <1>2, <1>3, <1>4, <1>5, <1>6 DEF IInv

LEMMA CloseInv ==
  ASSUME IInv, Close PROVE IInv'
<1>1. TypeOK'
  BY CloseType DEF IInv
<1>2. NewPids'
  BY NoneIsNoPid, BoundsAssumption
     DEF IInv, TypeOK, NewPids, Close, StartClosing, ManagerRest, config,
         manager, files, child, attempt, procs, watching, Pids
<1>3. ASSUME NEW c \in Browsers PROVE ProfileInv(c)'
  BY NoneIsNoContent
     DEF IInv, TypeOK, ProfileInv, Close, StartClosing, ManagerRest, config,
         manager, files, child, attempt, procs, watching
<1>4. ASSUME NEW c \in Browsers PROVE OwnPid(c)'
  BY NoneIsNoPid, BoundsAssumption
     DEF IInv, TypeOK, OwnPid, ProfileInv, Close, StartClosing, ManagerRest,
         config, manager, files, child, attempt, procs, watching, Pids
<1>5. ASSUME NEW c \in Browsers PROVE InUse(c)'
  BY NoneIsNoPid, TimesAssumption
     DEF IInv, TypeOK, InUse, OwnPid, NewPids, ProfileInv, Close,
         StartClosing, ManagerRest, config, manager, files, child, attempt,
         procs, watching, alive
<1>6. ASSUME NEW c \in Browsers, Done(c)' PROVE Shut(c)'
  BY <1>6, StartClosingShut DEF Close
<1> QED BY <1>1, <1>2, <1>3, <1>4, <1>5, <1>6 DEF IInv

LEMMA ShutdownBrowserInv ==
  ASSUME IInv, ShutdownBrowser PROVE IInv'
<1>1. TypeOK'
  BY ShutdownBrowserType DEF IInv
<1>2. NewPids'
  BY NoneIsNoPid, BoundsAssumption
     DEF IInv, TypeOK, NewPids, ShutdownBrowser, CloseBrowser, Kill, Dies,
         NextTurn, ManagerRest, config, manager, files, child, attempt, procs,
         watching, Pids
<1>3. ASSUME NEW c \in Browsers PROVE ProfileInv(c)'
  BY NoneIsNoContent
     DEF IInv, TypeOK, ProfileInv, ShutdownBrowser, CloseBrowser, Kill, Dies,
         NextTurn, ManagerRest, config, manager, files, child, attempt, procs,
         watching
<1>4. ASSUME NEW c \in Browsers PROVE OwnPid(c)'
  BY NoneIsNoPid, BoundsAssumption
     DEF IInv, TypeOK, OwnPid, ProfileInv, ShutdownBrowser, CloseBrowser,
         Kill, Dies, NextTurn, ManagerRest, config, manager, files, child,
         attempt, procs, watching, Pids
<1>5. ASSUME NEW c \in Browsers PROVE InUse(c)'
  BY NoneIsNoPid, TimesAssumption
     DEF IInv, TypeOK, InUse, OwnPid, NewPids, ProfileInv, ShutdownBrowser,
         CloseBrowser, Kill, Dies, NextTurn, ManagerRest, config, manager,
         files, child, attempt, procs, watching, alive
<1>6. ASSUME NEW c \in Browsers, Done(c)' PROVE Shut(c)'
  BY <1>6, ShutdownBrowserShut
<1> QED BY <1>1, <1>2, <1>3, <1>4, <1>5, <1>6 DEF IInv

LEMMA ShutdownRaisesInv ==
  ASSUME IInv, ShutdownRaises PROVE IInv'
<1>1. TypeOK'
  BY ShutdownRaisesType DEF IInv
<1>2. NewPids'
  BY NoneIsNoPid, BoundsAssumption
     DEF IInv, TypeOK, NewPids, ShutdownRaises, CloseBrowser, Kill, Dies,
         ManagerRest, config, manager, files, child, attempt, procs, watching,
         Pids
<1>3. ASSUME NEW c \in Browsers PROVE ProfileInv(c)'
  BY NoneIsNoContent
     DEF IInv, TypeOK, ProfileInv, ShutdownRaises, CloseBrowser, Kill, Dies,
         ManagerRest, config, manager, files, child, attempt, procs, watching
<1>4. ASSUME NEW c \in Browsers PROVE OwnPid(c)'
  BY NoneIsNoPid, BoundsAssumption
     DEF IInv, TypeOK, OwnPid, ProfileInv, ShutdownRaises, CloseBrowser, Kill,
         Dies, ManagerRest, config, manager, files, child, attempt, procs,
         watching, Pids
<1>5. ASSUME NEW c \in Browsers PROVE InUse(c)'
  BY NoneIsNoPid, TimesAssumption
     DEF IInv, TypeOK, InUse, OwnPid, NewPids, ProfileInv, ShutdownRaises,
         CloseBrowser, Kill, Dies, ManagerRest, config, manager, files, child,
         attempt, procs, watching, alive
<1>6. ASSUME NEW c \in Browsers, Done(c)' PROVE Shut(c)'
  <2>1. Done(c) /\ Shut(c)
    BY <1>6
       DEF IInv, Done, ShutdownRaises, CloseBrowser, Kill, Dies, ManagerRest,
           config, manager, files, child, attempt, procs, watching
  <2> QED
    BY <1>6, <2>1, NoneIsNoPid
       DEF IInv, TypeOK, Shut, OwnPid, NewPids, alive, Archives, Pids,
           ShutdownRaises, CloseBrowser, Kill, Dies, ManagerRest, config,
           manager, files, child, attempt, procs, watching
<1> QED BY <1>1, <1>2, <1>3, <1>4, <1>5, <1>6 DEF IInv

LEMMA WatchdogLooksInv ==
  ASSUME IInv, WatchdogLooks PROVE IInv'
<1>1. TypeOK'
  BY WatchdogLooksType DEF IInv
<1>2. NewPids'
  BY WatchdogLooksPids
<1>3. ASSUME NEW c \in Browsers PROVE ProfileInv(c)'
  BY NoneIsNoContent
     DEF IInv, TypeOK, ProfileInv, WatchdogLooks, Unknown, config, manager,
         files, child, attempt, procs, watching
<1>4. ASSUME NEW c \in Browsers PROVE OwnPid(c)'
  BY NoneIsNoPid, BoundsAssumption
     DEF IInv, TypeOK, OwnPid, ProfileInv, WatchdogLooks, Unknown, config,
         manager, files, child, attempt, procs, watching, Pids
<1>5. ASSUME NEW c \in Browsers PROVE InUse(c)'
  <2>1. /\ TypeOK /\ InUse(c)
        /\ UNCHANGED <<handle, stage, verdict, gecko, read, geckodriver_pid, age,
                       waited>>
        /\ alive' = alive /\ doomed' = Unknown
    BY DEF IInv, WatchdogLooks, child, attempt, procs, alive
  <2>2. geckodriver_pid[c] \notin Unknown
    BY DEF Unknown
  <2>3. ASSUME verdict[c] = "none", gecko[c] # None PROVE gecko[c] \notin Unknown
    <3>1. gecko[c] \in alive /\ gecko[c] \in Pids
      BY <2>1, <2>3 DEF InUse, alive
    <3>2. CASE read[c] = 5
      BY <2>1, <2>2, <3>2 DEF InUse
    <3>3. CASE read[c] # 5
      <4>1. read[c] < 4 \/ read[c] = 4
        BY <2>1, <3>3 DEF TypeOK
      <4>2. age[gecko[c]] \in Nat /\ waited[c] \in 0..SpawnTimeout
        BY <2>1, <3>1, NoneIsNoPid, TimesAssumption DEF TypeOK, alive
      <4>3. age[gecko[c]] <= SpawnTimeout
        BY <2>1, <2>3, <4>1, <4>2, TimesAssumption DEF InUse
      <4> QED
        BY <4>2, <4>3, TimesAssumption DEF Unknown
    <3> QED
      BY <3>2, <3>3
  <2> QED
    BY <2>1, <2>2, <2>3 DEF InUse
<1>6. ASSUME NEW c \in Browsers, Done(c)' PROVE Shut(c)'
  <2>1. Done(c) /\ Shut(c)
    BY <1>6
       DEF IInv, Done, WatchdogLooks, Unknown, config, manager, files, child,
           attempt, procs, watching
  <2> QED
    BY <1>6, <2>1, NoneIsNoPid
       DEF IInv, TypeOK, Shut, OwnPid, NewPids, alive, Archives, Pids,
           WatchdogLooks, Unknown, config, manager, files, child, attempt,
           procs, watching
<1> QED BY <1>1, <1>2, <1>3, <1>4, <1>5, <1>6 DEF IInv

LEMMA WatchdogKillsInv ==
  ASSUME IInv, WatchdogKills PROVE IInv'
<1>1. TypeOK'
  BY WatchdogKillsType DEF IInv
<1>2. NewPids'
  BY NoneIsNoPid, BoundsAssumption
     DEF IInv, TypeOK, NewPids, WatchdogKills, Dies, config, manager, files,
         child, attempt, procs, watching, Pids
<1>3. ASSUME NEW c \in Browsers PROVE ProfileInv(c)'
  BY NoneIsNoContent
     DEF IInv, TypeOK, ProfileInv, WatchdogKills, Dies, config, manager,
         files, child, attempt, procs, watching
<1>4. ASSUME NEW c \in Browsers PROVE OwnPid(c)'
  BY NoneIsNoPid, BoundsAssumption
     DEF IInv, TypeOK, OwnPid, ProfileInv, WatchdogKills, Dies, config,
         manager, files, child, attempt, procs, watching, Pids
<1>5. ASSUME NEW c \in Browsers PROVE InUse(c)'
  BY NoneIsNoPid, TimesAssumption
     DEF IInv, TypeOK, InUse, OwnPid, NewPids, ProfileInv, WatchdogKills,
         Dies, config, manager, files, child, attempt, procs, watching, alive
<1>6. ASSUME NEW c \in Browsers, Done(c)' PROVE Shut(c)'
  <2>1. Done(c) /\ Shut(c)
    BY <1>6
       DEF IInv, Done, WatchdogKills, Dies, config, manager, files, child,
           attempt, procs, watching
  <2> QED
    BY <1>6, <2>1, NoneIsNoPid
       DEF IInv, TypeOK, Shut, OwnPid, NewPids, alive, Archives, Pids,
           WatchdogKills, Dies, config, manager, files, child, attempt, procs,
           watching
<1> QED BY <1>1, <1>2, <1>3, <1>4, <1>5, <1>6 DEF IInv

LEMMA WatchdogDiesInv ==
  ASSUME IInv, WatchdogDies PROVE IInv'
<1>1. TypeOK'
  BY WatchdogDiesType DEF IInv
<1>2. NewPids'
  BY NoneIsNoPid, BoundsAssumption
     DEF IInv, TypeOK, NewPids, WatchdogDies, Dies, config, manager, files,
         child, attempt, procs, watching, Pids
<1>3. ASSUME NEW c \in Browsers PROVE ProfileInv(c)'
  BY NoneIsNoContent
     DEF IInv, TypeOK, ProfileInv, WatchdogDies, Dies, config, manager,
         files, child, attempt, procs, watching
<1>4. ASSUME NEW c \in Browsers PROVE OwnPid(c)'
  BY NoneIsNoPid, BoundsAssumption
     DEF IInv, TypeOK, OwnPid, ProfileInv, WatchdogDies, Dies, config,
         manager, files, child, attempt, procs, watching, Pids
<1>5. ASSUME NEW c \in Browsers PROVE InUse(c)'
  BY NoneIsNoPid, TimesAssumption
     DEF IInv, TypeOK, InUse, OwnPid, NewPids, ProfileInv, WatchdogDies,
         Dies, config, manager, files, child, attempt, procs, watching, alive
<1>6. ASSUME NEW c \in Browsers, Done(c)' PROVE Shut(c)'
  <2>1. Done(c) /\ Shut(c)
    BY <1>6
       DEF IInv, Done, WatchdogDies, Dies, config, manager, files, child,
           attempt, procs, watching
  <2> QED
    BY <1>6, <2>1, NoneIsNoPid
       DEF IInv, TypeOK, Shut, OwnPid, NewPids, alive, Archives, Pids,
           WatchdogDies, Dies, config, manager, files, child, attempt, procs,
           watching
<1> QED BY <1>1, <1>2, <1>3, <1>4, <1>5, <1>6 DEF IInv

LEMMA TickInv ==
  ASSUME IInv, Tick PROVE IInv'
<1>1. TypeOK'
  BY TickType DEF IInv
<1>2. NewPids'
  BY TickPids
<1>3. ASSUME NEW c \in Browsers PROVE ProfileInv(c)'
  BY NoneIsNoContent
     DEF IInv, TypeOK, ProfileInv, Tick, Drained, config, manager, files,
         child, attempt, procs, watching
<1>4. ASSUME NEW c \in Browsers PROVE OwnPid(c)'
  BY NoneIsNoPid, BoundsAssumption
     DEF IInv, TypeOK, OwnPid, ProfileInv, Tick, Drained, config, manager,
         files, child, attempt, procs, watching, Pids
<1>5. ASSUME NEW c \in Browsers PROVE InUse(c)'
  BY NoneIsNoPid, TimesAssumption
     DEF IInv, TypeOK, InUse, OwnPid, NewPids, ProfileInv, Tick, Drained,
         config, manager, files, child, attempt, procs, watching, alive
<1>6. ASSUME NEW c \in Browsers, Done(c)' PROVE Shut(c)'
  <2>1. Done(c) /\ Shut(c)
    BY <1>6
       DEF IInv, Done, Tick, Drained, config, manager, files, child, attempt,
           procs, watching
  <2> QED
    BY <1>6, <2>1, NoneIsNoPid
       DEF IInv, TypeOK, Shut, OwnPid, NewPids, alive, Archives, Pids, Tick,
           Drained, config, manager, files, child, attempt, procs, watching
<1> QED BY <1>1, <1>2, <1>3, <1>4, <1>5, <1>6 DEF IInv

----------------------------------------------------------------------------
(* The invariant.                                                          *)

LEMMA InitInv == Init => IInv
<1> SUFFICES ASSUME Init PROVE IInv
  OBVIOUS
<1>1. TypeOK
  <2>1. [seed |-> seed_tar, visits |-> 0] \in Content
    BY ParamsAssumption, BoundsAssumption DEF Init, Content
  <2>2. /\ seed_tar \in BOOLEAN /\ archive_dir \in BOOLEAN
        /\ turn \in Browsers /\ started \in 0..MaxProcs
        /\ 0 \in 0..(SpawnLimit - 1) /\ 0 \in 0..SpawnTimeout
    BY BrowsersAssumption, LimitAssumption, TimesAssumption,
       BoundsAssumption, ParamsAssumption DEF Init, Browsers
  <2>3. /\ current \in [Browsers -> Content \cup {None}]
        /\ recovery_tar \in [Browsers -> Content \cup {None}]
        /\ profile \in [Browsers -> Content]
        /\ expected \in [Browsers -> Content]
        /\ archived \in [Browsers -> Content \cup {None}]
    BY <2>1, EmptyIsContent DEF Init, Const
  <2>4. /\ spawns \in [Browsers -> 0..(SpawnLimit - 1)]
        /\ stage \in [Browsers -> 0..6] /\ read \in [Browsers -> 0..5]
        /\ waited \in [Browsers -> 0..SpawnTimeout]
    BY <2>2 DEF Init, Const
  <2>5. /\ tar_exists \in [Browsers -> BOOLEAN]
        /\ is_fresh \in [Browsers -> BOOLEAN]
        /\ crash_recovery \in [Browsers -> BOOLEAN]
        /\ gecko \in [Browsers -> Pids \cup {None}]
        /\ geckodriver_pid \in [Browsers -> Pids \cup {None}]
        /\ age \in [Pids -> 0..(Buffer + 1) \cup {None}]
    BY DEF Init, Const
  <2>6. /\ handle \in [Browsers -> {"new", "launching", "up", "down",
                                    "raised", "shut"}]
        /\ verdict \in [Browsers -> {"none", "FAILED", "CRITICAL"}]
    BY DEF Init, Const
  <2> QED BY <2>2, <2>3, <2>4, <2>5, <2>6 DEF Init, TypeOK
<1>2. NewPids
  BY DEF Init, NewPids
<1>3. ASSUME NEW b \in Browsers PROVE ProfileInv(b) /\ OwnPid(b)
  BY DEF Init, ProfileInv, OwnPid, Const
<1>4. ASSUME NEW b \in Browsers PROVE InUse(b) /\ ~Done(b)
  BY DEF Init, InUse, Done, Const
<1> QED BY <1>1, <1>2, <1>3, <1>4 DEF IInv

LEMMA NextInv == IInv /\ [Next]_vars => IInv'
<1> SUFFICES ASSUME IInv, [Next]_vars PROVE IInv'
  OBVIOUS
<1>1. ASSUME NEW b \in Browsers, Handle(b) PROVE IInv'
  BY <1>1, ReadInv, SucceedInv, SpawnFailsInv, TimeOutInv, SpawnRaisesInv
     DEF Handle
<1>2. ASSUME NEW b \in Browsers, Child(b) PROVE IInv'
  BY <1>2, ReportInv, LoadTarInv, StartGeckoInv, ReportGeckoInv,
     ExtensionStartsInv, ChildFailsInv DEF Child
<1>3. ASSUME NEW b \in Browsers, Visit(b) \/ Restart(b) PROVE IInv'
  BY <1>3, VisitInv, RestartInv
<1>4. ASSUME Manager PROVE IInv'
  BY <1>4, LaunchNextInv, LaunchedInv, LaunchFailedInv, CloseInv,
     ShutdownBrowserInv, ShutdownRaisesInv DEF Manager
<1>5. ASSUME WatchdogLooks \/ WatchdogKills \/ WatchdogDies \/ Tick
      PROVE  IInv'
  BY <1>5, WatchdogLooksInv, WatchdogKillsInv, WatchdogDiesInv, TickInv
<1>6. CASE UNCHANGED vars
  BY <1>6 DEF IInv, TypeOK, NewPids, ProfileInv, OwnPid, InUse, Done, Shut,
     Archives, alive, vars, config, manager, files, child, attempt, procs,
     watching
<1> QED BY <1>1, <1>2, <1>3, <1>4, <1>5, <1>6 DEF Next

LEMMA AlwaysIInv == Spec => []IInv
BY InitInv, NextInv, PTL DEF Spec

----------------------------------------------------------------------------
(* Theorems.                                                               *)

\* Every variable of BrowserLaunch keeps its type: spawns stay under the
\* limit, clocks within their bounds.
THEOREM TypeCorrect == Spec => []TypeOK
BY AlwaysIInv, PTL DEF IInv

\* Through any sequence of visits, failed spawns, relaunches and resets a
\* browser that runs has the profile that the user expects, and no launch
\* lacks the tar file it is to load.
THEOREM ProfileAlwaysKept == Spec => []ProfileKept
<1>1. IInv => ProfileKept
  BY NoneIsNoContent DEF IInv, ProfileInv, ProfileKept, CurrentKept,
     UpHasProfile, TarStillThere, Deploying, Unloadable
<1> QED BY <1>1, AlwaysIInv, PTL

\* Neither the watchdog nor the closing of a failed spawn kills a browser
\* that a handle uses.
THEOREM UpAlwaysAlive == Spec => []UpMeansAlive
<1>1. IInv => UpMeansAlive
  BY DEF IInv, InUse, UpMeansAlive
<1> QED BY <1>1, AlwaysIInv, PTL

\* When the task manager has shut down, no geckodriver known to a handle runs
\* and every profile that was to be archived is.
THEOREM CloseAlwaysComplete == Spec => []CloseComplete
<1>1. IInv => CloseComplete
  BY DEF IInv, Done, Shut, CloseComplete
<1> QED BY <1>1, AlwaysIInv, PTL

=============================================================================
