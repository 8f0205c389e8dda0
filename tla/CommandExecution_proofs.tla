---------------------- MODULE CommandExecution_proofs ----------------------
(***************************************************************************)
(* Invariance proofs about CommandExecution for any number of browsers,    *)
(* commands and visits, any limits and any crawl.                          *)
(*                                                                         *)
(* The properties follow from where each thread is.  A command thread that *)
(* has seen no failure works with a process that is Clean: nothing waits   *)
(* in its queues and no visit has failed in it (BrowserInv).  Where that   *)
(* is lost, the thread restarts the process, or failure_status is set, or  *)
(* the manager is closing, and in the last two cases the main thread hands *)
(* out no visit to this browser any more (ManagerInv).                     *)
(***************************************************************************)
EXTENDS CommandExecution, SequenceTheorems, FiniteSetTheorems, TLAPS

\* No visit has failed in the process, if there is one.
Fresh(b) == tainted[b] = 0 \/ process[b] = "dead"
Clean(b) == Fresh(b) /\ command_queue[b] = <<>> /\ status_queue[b] = <<>>

\* The crawl goes nowhere from here.
Doomed == failure_status # "none" \/ closing

OkRows(b) == ok_rows[curr_visit_id[b]]

\* The command under way, or its answer, and nothing else is in the queues.
Outstanding(b) ==
  \/ command_queue[b] = <<Command(b)>> /\ status_queue[b] = <<>>
  \/ /\ command_queue[b] = <<>>
     /\ \E result \in Results :
          status_queue[b] = <<Reply(Command(b), result)>>

\* What a command thread relies on at each place.
Place(b) ==
  /\ thread[b] = "begin" => Clean(b) /\ OkRows(b) = 0
  /\ thread[b] = "send" => Clean(b) /\ OkRows(b) = step[b] - 1
  /\ thread[b] = "await" => /\ Fresh(b) /\ Outstanding(b)
                            /\ OkRows(b) = step[b] - 1
  /\ thread[b] = "record" =>
       /\ reply[b].visit = curr_visit_id[b] /\ reply[b].index = step[b]
       /\ OkRows(b) = step[b] - 1
       /\ reply[b].result = "ok" => Clean(b)
       /\ reply[b].result = "critical" => Doomed
  /\ thread[b] \in {"count", "limit", "reset", "flag"} =>
       reply[b].result # "critical"
  /\ thread[b] = "reset" => Clean(b) /\ OkRows(b) = step[b]
  /\ thread[b] = "flag" =>
       restart_required[b] \/ (Clean(b) /\ OkRows(b) = step[b])
  /\ thread[b] = "abandon" =>
       IF reply[b].result = "critical" THEN Doomed ELSE restart_required[b]
  /\ thread[b] = "drain" => restart_required[b] \/ Clean(b)
  /\ thread[b] = "joining" => spawns[b] = 0
  /\ thread[b] = "launch" => process[b] = "dead" /\ spawns[b] < SpawnLimit
  /\ thread[b] = "relaunched" => Clean(b)
  /\ thread[b] \in {"none", "dead"} => Clean(b) \/ Doomed

\* Commands in the queue belong to the visit of the browser, and its last one
\* is sent only when those before it were recorded as "ok".
Own(b, c) ==
  \/ c = Shutdown
  \/ /\ c.visit = curr_visit_id[b] /\ c.visit # 0
     /\ c.index = NumCommands => OkRows(b) >= NumCommands - 1

BrowserInv(b) ==
  /\ Place(b)
  /\ Alive(b) => curr_visit_id[b] # 0
  /\ Fresh(b) \/ tainted[b] = curr_visit_id[b]
  /\ \A i \in 1..Len(command_queue[b]) : Own(b, command_queue[b][i])
  /\ to_extension[b] # 0 => ok_rows[to_extension[b]] >= NumCommands - 1

\* Visit ids are handed out once.
VisitsInv ==
  /\ \A v \in 1..Len(crawl) : v > visits => ok_rows[v] = 0
  /\ \A b, c \in Browsers :
       curr_visit_id[b] = curr_visit_id[c] /\ curr_visit_id[b] # 0 => b = c

\* What the main thread relies on.
ManagerInv ==
  /\ closing <=> main \in {"stopping", "storage", "callbacks", "over"}
  /\ sock_open <=> main \notin {"storage", "callbacks", "over"}
  /\ main \in {"check", "assign"} => visits < Len(crawl)
  /\ main \in {"check", "assign", "start"} => Ready(target)
  /\ main \in {"assign", "start"} => Clean(target)
  /\ main = "start" => /\ visits # 0 /\ curr_visit_id[target] = visits
                       /\ ok_rows[visits] = 0

\* A visit was started after a failure at most once.
LateInv ==
  /\ late <= 1
  /\ late # 0 => failure_status # "none" /\ main # "assign"

\* The browsers a relaxed shutdown is done with.
StoppedInv ==
  closing /\ relaxed =>
    \A b \in Browsers : main # "stopping" \/ b < target =>
      Ready(b) /\ process[b] = "dead"

Called == {called[i].visit : i \in 1..Len(called)}

\* A sequence with a callback is registered until it was called back.
CallbackInv ==
  /\ \A i, j \in 1..Len(called) : called[i].visit = called[j].visit => i = j
  /\ Called \cap unsaved = {}
  /\ Called \cup unsaved = {v \in Visits : crawl[v].callback}
  /\ callback_thread = "ended" => closing /\ unsaved = {}
  /\ main = "over" => callback_thread = "ended"

IInv ==
  /\ TypeOK
  /\ OneProcess /\ NoFalseSuccess
  /\ \A b \in Browsers : BrowserInv(b)
  /\ VisitsInv /\ ManagerInv /\ LateInv /\ StoppedInv /\ CallbackInv

----------------------------------------------------------------------------
(* Types. *)

CrawlTypes == crawl \in Seq(Job) /\ visits \in 0..Len(crawl)
MainTypes ==
  /\ main \in {"ready", "check", "recheck", "assign", "start", "stopping",
               "storage", "callbacks", "over"}
  /\ target \in Browsers
  /\ relaxed \in BOOLEAN /\ closing \in BOOLEAN /\ sock_open \in BOOLEAN
  /\ failure_count \in Nat /\ exceeded \in BOOLEAN /\ late \in Nat
  /\ failure_status \in {"none", "command", "launch", "critical"}
  /\ callback_thread \in {"polling", "ended"}
  /\ overlap \in BOOLEAN
VisitTypes ==
  /\ unsaved \subseteq Visits /\ known \subseteq Visits
  /\ called \in Seq(Verdicts) /\ completion_queue \in Seq(Verdicts)
  /\ finalized \subseteq Verdicts /\ reported \subseteq Verdicts
  /\ unread \in [Connections -> Seq(Verdicts)] /\ deaf \subseteq Connections
  /\ controller \in {"running", "ended"}
  /\ ok_rows \in [1..Len(crawl) -> 0..NumCommands]
ThreadTypes ==
  /\ thread \in [Browsers -> ThreadPlaces]
  /\ curr_visit_id \in [Browsers -> 0..visits]
  /\ step \in [Browsers -> 1..NumCommands]
  /\ reply \in [Browsers -> Replies]
  /\ restart_required \in [Browsers -> BOOLEAN]
  /\ spawns \in [Browsers -> 0..SpawnLimit]
ProcessTypes ==
  /\ process \in [Browsers -> {"running", "dead"}]
  /\ command_queue \in [Browsers -> Seq(Commands)]
  /\ status_queue \in [Browsers -> Seq(Replies)]
  /\ to_extension \in [Browsers -> 0..visits]
  /\ born \in [Browsers -> 0..visits]
  /\ tainted \in [Browsers -> 0..visits]

LEMMA Types ==
  TypeOK <=> /\ CrawlTypes /\ MainTypes /\ VisitTypes
             /\ ThreadTypes /\ ProcessTypes
BY DEF TypeOK, CrawlTypes, MainTypes, VisitTypes, ThreadTypes, ProcessTypes

LEMMA TypesNext ==
  ASSUME CrawlTypes', MainTypes', VisitTypes', ThreadTypes', ProcessTypes'
  PROVE  TypeOK'
BY DEF TypeOK, CrawlTypes, MainTypes, VisitTypes, ThreadTypes, ProcessTypes

LEMMA Numbers == /\ NumBrowsers \in Nat \ {0}
                 /\ NumCommands \in Nat /\ NumCommands >= 2
                 /\ FailureLimit \in Nat /\ SpawnLimit \in Nat \ {0}
BY BrowsersAssumption, CommandsAssumption, LimitsAssumption

LEMMA Lengths ==
  ASSUME TypeOK
  PROVE  Len(crawl) \in Nat /\ visits \in Nat /\ visits <= Len(crawl)
<1>1. crawl \in Seq(Job) /\ visits \in 0..Len(crawl)
  BY DEF TypeOK
<1>2. Len(crawl) \in Nat
  BY <1>1
<1> QED  BY <1>1, <1>2

\* The sets of commands, replies and verdicts depend on the crawl only.
LEMMA SameCrawl ==
  /\ UNCHANGED crawl => UNCHANGED <<Commands, Replies, Verdicts, Connections>>
  /\ UNCHANGED visits => UNCHANGED Visits
BY DEF Commands, Replies, Verdicts, Connections, Visits

LEMMA CommandType ==
  ASSUME TypeOK, NEW b \in Browsers
  PROVE  /\ Command(b) \in Commands /\ Shutdown \in Commands
         /\ \A c \in Commands, r \in Results :
              Reply(c, r) \in Replies /\ Reply(c, r).result = r
         /\ Command(b).visit = curr_visit_id[b]
         /\ Command(b).index = step[b]
         /\ Command(b) # Shutdown
<1>1. /\ curr_visit_id[b] \in 0..Len(crawl) /\ 0 \in 0..Len(crawl)
      /\ step[b] \in 1..NumCommands /\ 1..NumCommands \subseteq 0..NumCommands
      /\ 0 \in 0..NumCommands
  <2>1. /\ curr_visit_id[b] \in 0..visits /\ step[b] \in 1..NumCommands
    BY DEF TypeOK
  <2> QED  BY <2>1, Numbers, Lengths
<1>2. Command(b) \in Commands /\ Shutdown \in Commands
  BY <1>1 DEF Command, Shutdown, Commands
<1>3. Command(b) # Shutdown
  BY <1>1 DEF Command, Shutdown
<1> QED  BY <1>2, <1>3 DEF Command, Commands, Reply, Replies

\* Steps of the main thread.

LEMMA AssignType ==
  ASSUME TypeOK, ManagerInv, Assign PROVE TypeOK'
<1>1. visits' \in 0..Len(crawl) /\ visits <= visits' /\ visits' \in 0..visits'
  BY Lengths DEF Assign, ManagerInv, TypeOK
<1>2. 0..visits \subseteq 0..visits' /\ Visits \subseteq Visits'
  BY <1>1, Lengths DEF Assign, Visits
<1>3. unsaved' \subseteq Visits' /\ known' \subseteq Visits'
  <2>1. visits + 1 \in Visits'
    BY Lengths DEF Assign, Visits
  <2> QED  BY <1>2, <2>1 DEF Assign, TypeOK, storage, sending, receiving
<1>4. curr_visit_id' \in [Browsers -> 0..visits']
  <2>1. curr_visit_id \in [Browsers -> 0..visits']
    BY <1>2 DEF TypeOK
  <2> QED  BY <1>1, <2>1 DEF Assign
<1>5. /\ tainted' \in [Browsers -> 0..visits']
      /\ to_extension' \in [Browsers -> 0..visits']
      /\ born' \in [Browsers -> 0..visits']
  BY <1>2 DEF TypeOK, Assign, procs
<1>6. late' \in Nat
  BY DEF TypeOK, Assign
<1>20. UNCHANGED <<crawl, Commands, Replies, Verdicts, Connections>>
  BY SameCrawl DEF Assign
<1>21. CrawlTypes' /\ MainTypes'
  BY <1>1, <1>6, <1>20, Types
     DEF Assign, CrawlTypes, MainTypes, failures, procs
<1>22. VisitTypes'
  BY <1>3, <1>20, Types
     DEF Assign, VisitTypes, storage, sending, receiving
<1>23. ThreadTypes'
  BY <1>4, <1>20, Types DEF Assign, ThreadTypes, threads
<1>24. ProcessTypes'
  BY <1>5, <1>20, Types DEF Assign, ProcessTypes, procs
<1> QED  BY <1>21, <1>22, <1>23, <1>24, TypesNext

LEMMA StartThreadType ==
  ASSUME TypeOK, StartThread PROVE TypeOK'
<1>1. thread' \in [Browsers -> ThreadPlaces]
  BY DEF TypeOK, StartThread, Goto, ThreadPlaces
<1>2. main' \in {"recheck", "ready"}
  BY DEF StartThread
<1>3. UNCHANGED <<crawl, visits, target, relaxed, closing, sock_open, failures,
                  done, step, reply, spawns, curr_visit_id, restart_required,
                  procs, storage, ok_rows, late>>
  BY DEF StartThread
<1>4. UNCHANGED <<Visits, Commands, Replies, Verdicts, Connections>>
  BY <1>3, SameCrawl
<1>5. CrawlTypes' /\ MainTypes'
  BY <1>2, <1>3, Types DEF CrawlTypes, MainTypes, failures, done, procs
<1>6. VisitTypes'
  BY <1>3, <1>4, Types DEF VisitTypes, done, storage, sending, receiving
<1>7. ThreadTypes'
  BY <1>1, <1>3, <1>4, Types DEF ThreadTypes
<1>8. ProcessTypes'
  BY <1>3, <1>4, Types DEF ProcessTypes, procs
<1> QED  BY <1>5, <1>6, <1>7, <1>8, TypesNext

LEMMA StopBrowserType ==
  ASSUME TypeOK, StopBrowser PROVE TypeOK'
<1>1. target' \in Browsers
  BY Numbers DEF TypeOK, StopBrowser, Last, Browsers
<1>2. process' \in [Browsers -> {"running", "dead"}]
  BY DEF TypeOK, StopBrowser, Dies
<1>3. to_extension' \in [Browsers -> 0..visits']
  <2>1. 0 \in 0..visits
    BY Lengths
  <2> QED  BY <2>1 DEF TypeOK, StopBrowser, Dies
<1>4. sock_open' \in BOOLEAN
  BY DEF StopBrowser
<1>5. main' \in {"storage", "stopping"} /\ UNCHANGED Visits
  BY DEF StopBrowser, Visits
<1>6. UNCHANGED <<crawl, visits, relaxed, closing, failures, done, threads,
                  curr_visit_id, restart_required, command_queue, status_queue,
                  born, tainted, overlap, storage, ok_rows, late>>
  BY DEF StopBrowser
<1>7. UNCHANGED <<Visits, Commands, Replies, Verdicts, Connections>>
  BY <1>6, SameCrawl
<1>8. CrawlTypes' /\ MainTypes'
  BY <1>1, <1>4, <1>5, <1>6, Types DEF CrawlTypes, MainTypes, failures, done
<1>9. VisitTypes'
  BY <1>6, <1>7, Types
     DEF VisitTypes, done, storage, sending, receiving
<1>10. ThreadTypes'
  BY <1>6, <1>7, Types DEF ThreadTypes, threads
<1>11. ProcessTypes'
  BY <1>2, <1>3, <1>6, <1>7, Types DEF ProcessTypes
<1> QED  BY <1>8, <1>9, <1>10, <1>11, TypesNext

\* A step of the main thread that changes nothing but its own state.
LEMMA MainOnlyType ==
  ASSUME TypeOK, MainTypes',
         UNCHANGED <<crawl, visits, failures, done, threads, curr_visit_id,
                     restart_required, procs, storage, ok_rows>>
  PROVE  TypeOK'
<1>1. UNCHANGED <<Visits, Commands, Replies, Verdicts, Connections>>
  BY SameCrawl
<1>2. CrawlTypes' /\ ThreadTypes'
  BY <1>1, Types DEF CrawlTypes, ThreadTypes, threads
<1>3. VisitTypes'
  BY <1>1, Types DEF VisitTypes, done, storage, sending, receiving
<1>4. ProcessTypes'
  BY <1>1, Types DEF ProcessTypes, procs
<1> QED  BY <1>2, <1>3, <1>4, TypesNext

LEMMA ManagerType ==
  ASSUME TypeOK, ManagerInv,
         MainStep \/ User \/ Completion
  PROVE  TypeOK'
<1>7. /\ CloseModes \subseteq BOOLEAN /\ TRUE \in BOOLEAN
      /\ 1 \in Browsers
  BY Numbers, FlagsAssumption DEF Browsers
<1>8. MainTypes
  BY Types
<1>1. ASSUME NEW b \in Browsers, Select(b) PROVE TypeOK'
  <2>1. MainTypes'
    BY <1>1, <1>8 DEF Select, MainTypes, failures, done, procs
  <2> QED  BY <1>1, <2>1, MainOnlyType DEF Select
<1>2. CASE CheckFailure
  <2>1. MainTypes'
    BY <1>2, <1>7, <1>8 DEF CheckFailure, StartClosing, MainTypes, failures,
       done, procs
  <2> QED  BY <1>2, <2>1, MainOnlyType DEF CheckFailure
<1>3. ASSUME NEW mode \in CloseModes, Close(mode) PROVE TypeOK'
  <2>1. MainTypes'
    BY <1>3, <1>7, <1>8 DEF Close, StartClosing, MainTypes, failures, done,
       procs
  <2> QED  BY <1>3, <2>1, MainOnlyType DEF Close
<1>4. CASE JoinStorage \/ CloseEnds
  <2>1. MainTypes'
    BY <1>4, <1>8 DEF JoinStorage, CloseEnds, MainTypes, failures, done, procs
  <2> QED  BY <1>4, <2>1, MainOnlyType DEF JoinStorage, CloseEnds
<1>5. CASE Callback
  <2>1. /\ Head(completion_queue) \in Verdicts
        /\ completion_queue' \in Seq(Verdicts)
    BY <1>5 DEF Callback, TypeOK
  <2>2. called' \in Seq(Verdicts) /\ unsaved' \subseteq Visits
    BY <1>5, <2>1 DEF Callback, TypeOK
  <2>3. UNCHANGED <<crawl, visits, main, target, relaxed, closing, sock_open,
                    failures, callback_thread, threads, curr_visit_id,
                    restart_required, procs, sending, deaf, reported,
                    controller, known, ok_rows, late>>
    BY <1>5 DEF Callback, manager
  <2>4. CrawlTypes' /\ ThreadTypes' /\ ProcessTypes'
    BY <2>3, SameCrawl, Types DEF CrawlTypes, ThreadTypes, ProcessTypes, threads,
       procs
  <2>5. MainTypes'
    BY <2>3, Types DEF MainTypes, failures, procs
  <2>6. VisitTypes'
    BY <2>1, <2>2, <2>3, SameCrawl, Types DEF VisitTypes, sending
  <2> QED  BY <2>4, <2>5, <2>6, TypesNext
<1>6. CASE CallbackThreadEnds
  <2>1. /\ callback_thread' = "ended"
        /\ UNCHANGED <<crawl, visits, main, target, relaxed, closing, sock_open,
                       failures, unsaved, called, threads, curr_visit_id,
                       restart_required, procs, storage, ok_rows, late>>
    BY <1>6 DEF CallbackThreadEnds, manager
  <2>2. CrawlTypes' /\ ThreadTypes' /\ ProcessTypes'
    BY <2>1, SameCrawl, Types DEF CrawlTypes, ThreadTypes, ProcessTypes, threads,
       procs
  <2>3. MainTypes'
    BY <2>1, Types DEF MainTypes, failures, procs
  <2>4. VisitTypes'
    BY <2>1, SameCrawl, Types DEF VisitTypes, storage, sending, receiving
  <2> QED  BY <2>2, <2>3, <2>4, TypesNext
<1> QED  BY <1>1, <1>2, <1>3, <1>4, <1>5, <1>6, AssignType, StartThreadType,
            StopBrowserType DEF MainStep, User, Completion

\* Steps of the processes, the controller and the watchdog.

\* What the storage controller changes is its own.
LEMMA ControllerFrame ==
  ASSUME Handlers \/ StorageEnds
  PROVE  UNCHANGED <<manager, failures, done, threads, curr_visit_id,
                     restart_required, procs, finalized, known, ok_rows, late>>
<1>1. ASSUME NEW c \in Connections, ReadFinalize(c) \/ Collide(c) \/ ReadFails(c)
      PROVE  UNCHANGED <<manager, failures, done, threads, curr_visit_id,
                         restart_required, procs, finalized, known, ok_rows,
                         late>>
  BY <1>1 DEF ReadFinalize, Collide, ReadFails
<1>2. CASE StorageEnds
  BY <1>2 DEF StorageEnds, sending
<1> QED  BY <1>1, <1>2 DEF Handlers

LEMMA HandlersType ==
  ASSUME TypeOK, Handlers
  PROVE  /\ completion_queue' \in Seq(Verdicts) /\ reported' \subseteq Verdicts
         /\ unread' \in [Connections -> Seq(Verdicts)]
         /\ deaf' \subseteq Connections /\ UNCHANGED controller
<1>1. /\ unread \in [Connections -> Seq(Verdicts)] /\ deaf \subseteq Connections
      /\ completion_queue \in Seq(Verdicts) /\ reported \subseteq Verdicts
  BY DEF TypeOK
<1>2. PICK c \in Connections : ReadFinalize(c) \/ Collide(c) \/ ReadFails(c)
  BY DEF Handlers
<1>3. unread[c] \in Seq(Verdicts) /\ <<>> \in Seq(Verdicts)
  BY <1>1
<1>4. ASSUME unread[c] # <<>>
      PROVE  Head(unread[c]) \in Verdicts /\ Tail(unread[c]) \in Seq(Verdicts)
  BY <1>3, <1>4
<1>5. CASE ReadFinalize(c)
  BY <1>1, <1>3, <1>4, <1>5 DEF ReadFinalize, Report
<1>6. CASE Collide(c)
  <2>1. PICK d \in Connections \ {c} :
          /\ unread' = [unread EXCEPT ![c] = Tail(@), ![d] = <<>>]
          /\ deaf' = deaf \cup {d}
    BY <1>6 DEF Collide
  <2>2. [unread EXCEPT ![c] = Tail(@)] \in [Connections -> Seq(Verdicts)]
    BY <1>1, <1>4, <1>6 DEF Collide
  <2>3. unread' \in [Connections -> Seq(Verdicts)]
    BY <1>3, <2>1, <2>2
  <2>4. completion_queue' \in Seq(Verdicts) /\ reported' \subseteq Verdicts
    BY <1>1, <1>4, <1>6 DEF Collide, Report
  <2>5. UNCHANGED controller
    BY <1>6 DEF Collide
  <2> QED  BY <1>1, <2>1, <2>3, <2>4, <2>5
<1>7. CASE ReadFails(c)
  BY <1>1, <1>3, <1>7 DEF ReadFails
<1> QED  BY <1>2, <1>5, <1>6, <1>7

LEMMA StorageEndsType ==
  ASSUME TypeOK, StorageEnds
  PROVE  completion_queue' \in Seq(Verdicts)
<1>1. PICK V \in SUBSET known : \E s \in [1..Cardinality(V) -> V] :
        completion_queue' =
          IF ReportsLeftovers
          THEN completion_queue \o
                 [i \in DOMAIN s |-> Verdict(s[i], FALSE)]
          ELSE completion_queue
  BY DEF StorageEnds
<1>2. PICK s \in [1..Cardinality(V) -> V] :
        completion_queue' =
          IF ReportsLeftovers
          THEN completion_queue \o
                 [i \in DOMAIN s |-> Verdict(s[i], FALSE)]
          ELSE completion_queue
  BY <1>1
<1> DEFINE t == [i \in DOMAIN s |-> Verdict(s[i], FALSE)]
<1>3. V \subseteq Visits /\ Cardinality(V) \in Nat
  <2>1. IsFiniteSet(Visits)
    BY Lengths, FS_Interval DEF Visits
  <2>2. V \subseteq Visits
    BY DEF TypeOK
  <2> QED  BY <2>1, <2>2, FS_Subset, FS_CardinalityType
<1>4. t \in Seq(Verdicts)
  <2>1. ASSUME NEW v \in V PROVE Verdict(v, FALSE) \in Verdicts
    BY <1>3, Lengths DEF Verdict, Verdicts, Visits
  <2>2. DOMAIN s = 1..Cardinality(V) /\ t \in [DOMAIN s -> Verdicts]
    BY <2>1
  <2>3. t \in [1..Cardinality(V) -> Verdicts]
    BY <2>2
  <2> HIDE DEF t
  <2> QED  BY <1>3, <2>3, IsASeq
<1> HIDE DEF t
<1>5. completion_queue' = completion_queue
      \/ completion_queue' = completion_queue \o t
  BY <1>2 DEF t
<1>6. completion_queue \in Seq(Verdicts)
  BY DEF TypeOK
<1>7. completion_queue \o t \in Seq(Verdicts)
  BY <1>4, <1>6, ConcatProperties
<1> QED  BY <1>5, <1>6, <1>7

LEMMA ControllerType ==
  ASSUME TypeOK, Handlers \/ StorageEnds PROVE TypeOK'
<1>1. /\ UNCHANGED <<manager, failures, done, threads, procs>>
      /\ UNCHANGED <<curr_visit_id, restart_required, finalized, known, ok_rows,
                     late>>
  BY ControllerFrame
<1>2. UNCHANGED <<Visits, Commands, Replies, Verdicts, Connections>>
  BY <1>1, SameCrawl DEF manager
<1>3. CrawlTypes' /\ MainTypes'
  BY <1>1, Types DEF CrawlTypes, MainTypes, manager, failures, done, procs
<1>4. ThreadTypes'
  BY <1>1, <1>2, Types DEF ThreadTypes, manager, threads
<1>5. ProcessTypes'
  BY <1>1, <1>2, Types DEF ProcessTypes, manager, procs
<1>6. /\ completion_queue' \in Seq(Verdicts) /\ reported' \subseteq Verdicts
      /\ unread' \in [Connections -> Seq(Verdicts)]
      /\ deaf' \subseteq Connections /\ controller' \in {"running", "ended"}
  <2>1. CASE Handlers
    BY <2>1, HandlersType DEF TypeOK
  <2>2. CASE StorageEnds
    <3>1. UNCHANGED <<unread, deaf, reported>> /\ controller' = "ended"
      BY <2>2 DEF StorageEnds, sending
    <3> QED  BY <2>2, <3>1, StorageEndsType, Types DEF VisitTypes
  <2> QED  BY <2>1, <2>2
<1>7. VisitTypes'
  BY <1>1, <1>2, <1>6, Types DEF VisitTypes, done, manager
<1> QED  BY <1>3, <1>4, <1>5, <1>7, TypesNext

\* The connections that Finalize messages are sent on.
LEMMA ConnectionType ==
  ASSUME TypeOK, NEW b \in Browsers
  PROVE  Manager \in Connections /\ Extension(b) \in Connections
<1>1. born[b] \in 0..visits
  BY DEF TypeOK
<1>2. born[b] \in 0..Len(crawl)
  BY <1>1, Lengths
<1> QED  BY <1>2 DEF Connections, Extension

LEMMA SendFinalizeType ==
  ASSUME TypeOK, NEW c \in Connections, NEW m \in Verdicts, SendFinalize(c, m)
  PROVE  /\ finalized' \subseteq Verdicts
         /\ unread' \in [Connections -> Seq(Verdicts)]
<1>1. /\ unread \in [Connections -> Seq(Verdicts)]
      /\ finalized \subseteq Verdicts
  BY DEF TypeOK
<1>2. Append(unread[c], m) \in Seq(Verdicts)
  BY <1>1
<1> QED  BY <1>1, <1>2 DEF SendFinalize

LEMMA ExtensionFinalizesType ==
  ASSUME TypeOK, NEW b \in Browsers, ExtensionFinalizes(b) PROVE TypeOK'
<1>1. to_extension[b] \in 1..Len(crawl) /\ 0 \in 0..visits
  <2>1. to_extension[b] \in 0..visits /\ to_extension[b] # 0
    BY DEF TypeOK, ExtensionFinalizes
  <2> QED  BY Lengths, <2>1
<1>2. /\ finalized' \subseteq Verdicts
      /\ unread' \in [Connections -> Seq(Verdicts)]
  <2>1. Verdict(to_extension[b], TRUE) \in Verdicts
    BY <1>1 DEF Verdict, Verdicts
  <2>2. SendFinalize(Extension(b), Verdict(to_extension[b], TRUE))
    BY DEF ExtensionFinalizes
  <2> QED  BY <2>1, <2>2, ConnectionType, SendFinalizeType
<1>3. to_extension' \in [Browsers -> 0..visits]
  BY <1>1 DEF TypeOK, ExtensionFinalizes
<1>20. UNCHANGED <<Visits, Commands, Replies, Verdicts, Connections>>
  BY SameCrawl DEF ExtensionFinalizes, manager
<1>21. CrawlTypes' /\ MainTypes'
  BY <1>2, <1>3, Types DEF ExtensionFinalizes, CrawlTypes, MainTypes, manager, failures,
     done, procs
<1>22. VisitTypes'
  BY <1>2, <1>3, <1>20, Types DEF ExtensionFinalizes, VisitTypes, manager, done, storage, sending, receiving
<1>23. ThreadTypes'
  BY <1>2, <1>3, <1>20, Types DEF ExtensionFinalizes, ThreadTypes, manager, threads
<1>24. ProcessTypes'
  BY <1>2, <1>3, <1>20, Types DEF ExtensionFinalizes, ProcessTypes, manager, procs
<1> QED  BY <1>21, <1>22, <1>23, <1>24, TypesNext

LEMMA WatchdogType ==
  ASSUME TypeOK, NEW b \in Browsers, Watchdog(b) PROVE TypeOK'
<1>1. restart_required' \in [Browsers -> BOOLEAN]
  BY DEF TypeOK, Watchdog
<1>20. UNCHANGED <<Visits, Commands, Replies, Verdicts, Connections>>
  BY SameCrawl DEF Watchdog, manager
<1>21. CrawlTypes' /\ MainTypes'
  BY <1>1, Types DEF Watchdog, CrawlTypes, MainTypes, manager, failures,
     done, procs
<1>22. VisitTypes'
  BY <1>1, <1>20, Types DEF Watchdog, VisitTypes, manager, done, storage, sending, receiving
<1>23. ThreadTypes'
  BY <1>1, <1>20, Types DEF Watchdog, ThreadTypes, manager, threads
<1>24. ProcessTypes'
  BY <1>1, <1>20, Types DEF Watchdog, ProcessTypes, manager, procs
<1> QED  BY <1>21, <1>22, <1>23, <1>24, TypesNext

LEMMA ExecuteType ==
  ASSUME TypeOK, NEW b \in Browsers, BrowserInv(b), Execute(b) PROVE TypeOK'
<1> DEFINE c == Head(command_queue[b])
<1>1. /\ command_queue[b] \in Seq(Commands) /\ command_queue[b] # <<>>
      /\ status_queue[b] \in Seq(Replies)
  BY DEF TypeOK, Execute
<1>2. c \in Commands /\ Tail(command_queue[b]) \in Seq(Commands)
      /\ c = command_queue[b][1] /\ 1 \in 1..Len(command_queue[b])
  BY <1>1
<1>3. c.visit \in 0..visits
  <2>1. Own(b, c) /\ c # Shutdown
    BY <1>2 DEF BrowserInv, Execute
  <2> QED  BY <2>1 DEF Own, TypeOK
<1>4. PICK o \in Outcomes :
        /\ status_queue' = [status_queue EXCEPT
             ![b] = Append(@, Reply(c, o.result))]
        /\ process' = [process EXCEPT ![b] = IF o.ends THEN "dead" ELSE @]
        /\ to_extension' = [to_extension EXCEPT
             ![b] = IF c.index = NumCommands /\ o.result = "ok"
                    THEN c.visit ELSE @]
  BY DEF Execute
<1>5. Reply(c, o.result) \in Replies
  BY <1>2, CommandType DEF Outcomes, Results
<1>6. status_queue' \in [Browsers -> Seq(Replies)]
  <2>1. Append(status_queue[b], Reply(c, o.result)) \in Seq(Replies)
    BY <1>1, <1>5
  <2> QED  BY <1>4, <2>1 DEF TypeOK
<1>7. process' \in [Browsers -> {"running", "dead"}]
  BY <1>4 DEF TypeOK
<1>8. to_extension' \in [Browsers -> 0..visits]
  BY <1>3, <1>4 DEF TypeOK
<1>9. command_queue' \in [Browsers -> Seq(Commands)]
  BY <1>2 DEF TypeOK, Execute
<1>20. UNCHANGED <<Visits, Commands, Replies, Verdicts, Connections>>
  BY SameCrawl DEF Execute, manager
<1>21. CrawlTypes' /\ MainTypes'
  BY <1>6, <1>7, <1>8, <1>9, Types DEF Execute, CrawlTypes, MainTypes, manager, failures,
     done, procs
<1>22. VisitTypes'
  BY <1>6, <1>7, <1>8, <1>9, <1>20, Types DEF Execute, VisitTypes, manager, done, storage, sending, receiving
<1>23. ThreadTypes'
  BY <1>6, <1>7, <1>8, <1>9, <1>20, Types DEF Execute, ThreadTypes, manager, threads
<1>24. ProcessTypes'
  BY <1>6, <1>7, <1>8, <1>9, <1>20, Types DEF Execute, ProcessTypes, manager, procs
<1> QED  BY <1>21, <1>22, <1>23, <1>24, TypesNext

LEMMA QuitType ==
  ASSUME TypeOK, NEW b \in Browsers, Quit(b) PROVE TypeOK'
<1>1. /\ command_queue[b] \in Seq(Commands) /\ command_queue[b] # <<>>
      /\ status_queue[b] \in Seq(Replies)
  BY DEF TypeOK, Quit
<1>2. Tail(command_queue[b]) \in Seq(Commands)
  BY <1>1
<1>3. Append(status_queue[b], Reply(Shutdown, "ok")) \in Seq(Replies)
  BY <1>1, CommandType DEF Results
<1>4. /\ status_queue' \in [Browsers -> Seq(Replies)]
      /\ command_queue' \in [Browsers -> Seq(Commands)]
  BY <1>2, <1>3 DEF Quit, TypeOK
<1>5. process' \in [Browsers -> {"running", "dead"}]
  BY DEF Quit, Dies, TypeOK
<1>6. to_extension' \in [Browsers -> 0..visits]
  <2>1. 0 \in 0..visits
    BY Lengths
  <2> QED  BY <2>1 DEF Quit, Dies, TypeOK
<1>20. UNCHANGED <<Visits, Commands, Replies, Verdicts, Connections>>
  BY SameCrawl DEF Quit, manager
<1>21. CrawlTypes' /\ MainTypes'
  BY <1>4, <1>5, <1>6, Types DEF Quit, CrawlTypes, MainTypes, manager, failures,
     done, procs
<1>22. VisitTypes'
  BY <1>4, <1>5, <1>6, <1>20, Types DEF Quit, VisitTypes, manager, done, storage, sending, receiving
<1>23. ThreadTypes'
  BY <1>4, <1>5, <1>6, <1>20, Types DEF Quit, ThreadTypes, manager, threads
<1>24. ProcessTypes'
  BY <1>4, <1>5, <1>6, <1>20, Types DEF Quit, ProcessTypes, manager, procs
<1> QED  BY <1>21, <1>22, <1>23, <1>24, TypesNext

\* Steps of a command thread.

LEMMA ThreadFrame ==
  ASSUME NEW b \in Browsers, ThreadStep(b)
  PROVE  UNCHANGED <<manager, done, curr_visit_id, receiving, late>>
<1>1. CASE Begin(b) \/ Send(b) \/ Await(b) \/ Record(b)
  BY <1>1 DEF Begin, Send, Await, Record, storage, sending, receiving
<1>2. CASE Count(b) \/ Limit(b) \/ ResetCount(b) \/ Flag(b) \/ Abandon(b)
  BY <1>2 DEF Count, Limit, ResetCount, Flag, Abandon, storage, sending, receiving
<1>3. CASE Drain(b) \/ Signal(b) \/ AwaitClosed(b) \/ JoinProcess(b)
  BY <1>3 DEF Drain, Signal, AwaitClosed, JoinProcess, storage, sending, receiving
<1>4. CASE \/ Launch(b) \/ SpawnFails(b) \/ LaunchRaises(b)
           \/ Relaunched(b)
  BY <1>4 DEF Launch, SpawnFails, LaunchRaises, Relaunched, storage, sending, receiving
<1> QED  BY <1>1, <1>2, <1>3, <1>4 DEF ThreadStep

LEMMA ThreadStepThreadTypes ==
  ASSUME TypeOK, NEW b \in Browsers, BrowserInv(b), ThreadStep(b)
  PROVE  ThreadTypes'
<1>1. /\ UNCHANGED <<curr_visit_id, visits, Replies>>
      /\ NumCommands \in Nat /\ NumCommands >= 2 /\ SpawnLimit \in Nat \ {0}
  BY ThreadFrame, SameCrawl, Numbers DEF manager
<1>2. ThreadTypes /\ 0 \in 0..SpawnLimit
  BY Types, Numbers
<1> USE <1>1, <1>2 DEF ThreadTypes, Goto
<1>3. CASE Send(b)
  BY <1>3 DEF Send, ThreadPlaces
<1>14. CASE Begin(b)
  <2>1. thread' \in [Browsers -> ThreadPlaces]
    BY <1>14 DEF Begin, ThreadPlaces
  <2>2. 1 \in 1..NumCommands
    OBVIOUS
  <2> QED  BY <1>14, <2>1, <2>2 DEF Begin
<1>13. CASE Flag(b)
  <2>1. step[b] < NumCommands => step[b] + 1 \in 1..NumCommands
    OBVIOUS
  <2>2. step' \in [Browsers -> 1..NumCommands]
    BY <1>13, <2>1 DEF Flag
  <2> QED  BY <1>13, <2>2 DEF Flag, ThreadPlaces
<1>4. CASE Await(b)
  <2>1. status_queue[b] # <<>> => Head(status_queue[b]) \in Replies
    <3>1. status_queue[b] \in Seq(Replies)
      BY Types DEF ProcessTypes
    <3> QED  BY <3>1
  <2>2. Reply(Command(b), "timeout") \in Replies
    BY CommandType DEF Results
  <2>3. reply' \in [Browsers -> Replies]
    BY <1>4, <2>1, <2>2 DEF Await
  <2> QED  BY <1>4, <2>3 DEF Await, ThreadPlaces
<1>5. CASE Record(b)
  BY <1>5 DEF Record, ThreadPlaces
<1>6. CASE Count(b) \/ Limit(b) \/ ResetCount(b)
  BY <1>6 DEF Count, Limit, ResetCount, ThreadPlaces
<1>7. CASE Abandon(b)
  BY <1>7 DEF Abandon, ThreadPlaces
<1>8. CASE Drain(b)
  <2>1. Reply(Shutdown, "ok") \in Replies
    BY CommandType DEF Results
  <2> QED  BY <1>8, <2>1 DEF Drain, ThreadPlaces
<1>9. CASE Signal(b) \/ JoinProcess(b)
  BY <1>9 DEF Signal, JoinProcess, ThreadPlaces
<1>10. CASE AwaitClosed(b)
  BY <1>10 DEF AwaitClosed, ThreadPlaces
<1>11. CASE Launch(b) \/ LaunchRaises(b) \/ Relaunched(b)
  BY <1>11 DEF Launch, LaunchRaises, Relaunched, ThreadPlaces
<1>12. CASE SpawnFails(b)
  <2>1. spawns[b] < SpawnLimit /\ spawns[b] \in 0..SpawnLimit
    BY <1>12 DEF BrowserInv, Place, SpawnFails
  <2>2. spawns[b] + 1 \in 0..SpawnLimit
    BY <2>1
  <2> QED  BY <1>12, <2>2 DEF SpawnFails, ThreadPlaces
<1> QED  BY <1>3, <1>4, <1>5, <1>6, <1>7, <1>8, <1>9, <1>10, <1>11, <1>12,
            <1>13, <1>14 DEF ThreadStep

LEMMA ThreadStepProcessTypes ==
  ASSUME TypeOK, NEW b \in Browsers, BrowserInv(b), ThreadStep(b)
  PROVE  ProcessTypes'
<1>1. /\ UNCHANGED <<curr_visit_id, visits, Replies, Commands>>
      /\ visits \in Nat
  BY ThreadFrame, SameCrawl, Lengths DEF manager
<1>2. /\ ProcessTypes
      /\ curr_visit_id \in [Browsers -> 0..visits]
  BY Types DEF ThreadTypes
<1>3. /\ command_queue[b] \in Seq(Commands) /\ status_queue[b] \in Seq(Replies)
      /\ <<>> \in Seq(Commands) /\ <<>> \in Seq(Replies)
      /\ \A c \in Commands : Append(command_queue[b], c) \in Seq(Commands)
      /\ status_queue[b] # <<>> => Tail(status_queue[b]) \in Seq(Replies)
  BY <1>2 DEF ProcessTypes
<1>4. Command(b) \in Commands /\ Shutdown \in Commands
  BY CommandType
<1> USE <1>1, <1>2, <1>3, <1>4 DEF ProcessTypes
<1>5. CASE \/ Begin(b) \/ Count(b) \/ Limit(b) \/ ResetCount(b) \/ Flag(b)
           \/ Abandon(b) \/ Drain(b) \/ Relaunched(b)
  BY <1>5 DEF Begin, Count, Limit, ResetCount, Flag, Abandon, Drain,
     Relaunched, procs
<1>6. CASE Send(b) \/ Signal(b)
  BY <1>6 DEF Send, Signal
<1>7. CASE Await(b)
  BY <1>7 DEF Await
<1>8. CASE Record(b)
  BY <1>8 DEF Record
<1>9. CASE AwaitClosed(b)
  <2>1. status_queue' \in [Browsers -> Seq(Replies)]
    BY <1>9 DEF AwaitClosed
  <2>2. process' \in [Browsers -> {"running", "dead"}]
    BY <1>9 DEF AwaitClosed, Dies
  <2>3. to_extension' \in [Browsers -> 0..visits]
    BY <1>9 DEF AwaitClosed, Dies
  <2> QED  BY <1>9, <2>1, <2>2, <2>3 DEF AwaitClosed
<1>10. CASE JoinProcess(b)
  BY <1>10 DEF JoinProcess, Dies
<1>11. CASE Launch(b)
  <2>1. born' \in [Browsers -> 0..visits]
    BY <1>11 DEF Launch
  <2> QED  BY <1>11, <2>1 DEF Launch
<1>12. CASE SpawnFails(b) \/ LaunchRaises(b)
  BY <1>12 DEF SpawnFails, LaunchRaises
<1> QED  BY <1>5, <1>6, <1>7, <1>8, <1>9, <1>10, <1>11, <1>12 DEF ThreadStep

LEMMA ThreadStepMainTypes ==
  ASSUME TypeOK, NEW b \in Browsers, ThreadStep(b)
  PROVE  MainTypes'
<1>1. UNCHANGED <<main, target, relaxed, closing, sock_open, callback_thread,
                  late>>
  BY ThreadFrame DEF manager, done
<1>2. MainTypes
  BY Types
<1> USE <1>1, <1>2 DEF MainTypes
<1>3. CASE Begin(b) \/ Send(b) \/ Flag(b)
  BY <1>3 DEF Begin, Send, Flag, failures, procs
<1>10. CASE Record(b) \/ Abandon(b)
  <2>1. UNCHANGED <<failures, overlap>>
    BY <1>10, Zenon DEF Record, Abandon, procs
  <2> QED  BY <2>1 DEF failures
<1>8. CASE \/ Drain(b) \/ Signal(b) \/ AwaitClosed(b) \/ JoinProcess(b)
           \/ Relaunched(b)
  BY <1>8 DEF Drain, Signal, AwaitClosed, JoinProcess, Relaunched, failures,
     procs
<1>4. CASE Await(b)
  BY <1>4 DEF Await
<1>5. CASE Count(b)
  BY <1>5 DEF Count, procs
<1>6. CASE Limit(b) \/ ResetCount(b)
  BY <1>6 DEF Limit, ResetCount, procs
<1>7. CASE Launch(b) \/ LaunchRaises(b)
  <2>1. overlap' \in BOOLEAN
    BY <1>7 DEF Launch, LaunchRaises
  <2>2. UNCHANGED failures
    BY <1>7, Zenon DEF Launch, LaunchRaises
  <2> QED
    BY <2>1, <2>2 DEF failures
<1>9. CASE SpawnFails(b)
  BY <1>9 DEF SpawnFails
<1> QED  BY <1>3, <1>4, <1>5, <1>6, <1>7, <1>8, <1>9, <1>10
            DEF ThreadStep

LEMMA ThreadStepVisitTypes ==
  ASSUME TypeOK, NEW b \in Browsers, BrowserInv(b), ThreadStep(b)
  PROVE  VisitTypes'
<1>1. /\ UNCHANGED <<crawl, unsaved, called, completion_queue, reported>>
      /\ UNCHANGED <<deaf, controller, Visits, Verdicts, Connections>>
  BY ThreadFrame, SameCrawl DEF manager, done, receiving
<1>2. VisitTypes
  BY Types
<1>3. ASSUME Alive(b)
      PROVE  curr_visit_id[b] \in Visits /\ curr_visit_id[b] \in 1..Len(crawl)
  <2>1. curr_visit_id[b] \in 0..visits /\ curr_visit_id[b] # 0
    BY <1>3, Types DEF ThreadTypes, BrowserInv
  <2> QED  BY <2>1, Lengths DEF Visits
<1> USE <1>1, <1>2 DEF VisitTypes
<1>4. CASE Begin(b)
  BY <1>3, <1>4 DEF Begin, Alive, sending
<1>5. CASE Abandon(b)
  <2>1. Verdict(curr_visit_id[b], FALSE) \in Verdicts
    BY <1>3, <1>5 DEF Abandon, Alive, Verdict, Verdicts
  <2>2. \/ SendFinalize(Manager, Verdict(curr_visit_id[b], FALSE))
        \/ UNCHANGED sending
    BY <1>5 DEF Abandon
  <2>3. /\ finalized' \subseteq Verdicts
        /\ unread' \in [Connections -> Seq(Verdicts)]
    BY <2>1, <2>2, ConnectionType, SendFinalizeType DEF sending
  <2> QED  BY <1>5, <2>3 DEF Abandon
<1>6. CASE Record(b)
  <2>1. ok_rows[curr_visit_id[b]] + 1 \in 0..NumCommands
    <3>1. /\ ok_rows[curr_visit_id[b]] = step[b] - 1
          /\ step[b] \in 1..NumCommands
      BY <1>6, Types DEF Record, BrowserInv, Place, OkRows, ThreadTypes
    <3> QED  BY <3>1, Numbers
  <2>2. ok_rows' \in [1..Len(crawl) -> 0..NumCommands]
    BY <1>6, <2>1 DEF Record
  <2> QED  BY <1>6, <2>2 DEF Record, storage, sending, receiving
<1>7. CASE \/ Send(b) \/ Await(b) \/ Count(b) \/ Limit(b) \/ ResetCount(b)
           \/ Flag(b) \/ Drain(b) \/ Signal(b) \/ AwaitClosed(b)
           \/ JoinProcess(b) \/ Launch(b) \/ SpawnFails(b) \/ LaunchRaises(b)
           \/ Relaunched(b)
  BY <1>7 DEF Send, Await, Count, Limit, ResetCount, Flag, Drain, Signal,
     AwaitClosed, JoinProcess, Launch, SpawnFails, LaunchRaises, Relaunched,
     storage, sending, receiving
<1> QED  BY <1>4, <1>5, <1>6, <1>7 DEF ThreadStep

LEMMA NextType ==
  ASSUME TypeOK, ManagerInv, \A b \in Browsers : BrowserInv(b), [Next]_vars
  PROVE  TypeOK'
<1>1. CASE MainStep \/ User \/ Completion
  BY <1>1, ManagerType
<1>2. ASSUME NEW b \in Browsers, ThreadStep(b) PROVE TypeOK'
  <2>1. CrawlTypes'
    BY <1>2, ThreadFrame, Types DEF CrawlTypes, manager
  <2> QED  BY <1>2, <2>1, ThreadStepMainTypes, ThreadStepThreadTypes,
              ThreadStepProcessTypes, ThreadStepVisitTypes, TypesNext
<1>3. CASE UNCHANGED vars
  <2>1. /\ UNCHANGED <<manager, failures, done, threads, procs, storage>>
        /\ UNCHANGED <<curr_visit_id, restart_required, ok_rows, late>>
    BY <1>3 DEF vars
  <2>2. UNCHANGED <<Visits, Commands, Replies, Verdicts, Connections>>
    BY <2>1, SameCrawl DEF manager
  <2>3. CrawlTypes' /\ MainTypes'
    BY <2>1, Types DEF CrawlTypes, MainTypes, manager, failures, done, procs
  <2>4. VisitTypes' /\ ThreadTypes'
    BY <2>1, <2>2, Types
       DEF VisitTypes, ThreadTypes, manager, done, storage, sending, receiving, threads
  <2>5. ProcessTypes'
    BY <2>1, <2>2, Types DEF ProcessTypes, manager, procs
  <2> QED  BY <2>3, <2>4, <2>5, TypesNext
<1> QED  BY <1>1, <1>2, <1>3, ControllerType, ExtensionFinalizesType,
            WatchdogType, ExecuteType, QuitType DEF Next

----------------------------------------------------------------------------
(* BrowserInv. *)

\* A step of another thread, as far as browser b is concerned.
Others(b) ==
  /\ UNCHANGED <<thread[b], step[b], reply[b], spawns[b], curr_visit_id[b],
                 process[b], command_queue[b], status_queue[b], tainted[b]>>
  /\ to_extension'[b] \in {to_extension[b], 0}
  /\ restart_required[b] => restart_required'[b]
  /\ curr_visit_id[b] # 0 => UNCHANGED ok_rows[curr_visit_id[b]]
  /\ to_extension[b] # 0 =>
       ok_rows'[to_extension[b]] \in
         {ok_rows[to_extension[b]], ok_rows[to_extension[b]] + 1}
  /\ Doomed => Doomed'

LEMMA OthersKeep ==
  ASSUME TypeOK, NEW b \in Browsers, BrowserInv(b), Others(b)
  PROVE  BrowserInv(b)'
<1>1. /\ Clean(b)' <=> Clean(b)
      /\ Fresh(b)' <=> Fresh(b)
      /\ Outstanding(b)' <=> Outstanding(b)
      /\ Alive(b)' <=> Alive(b)
  BY DEF Clean, Fresh, Outstanding, Command, Alive, Others
<1>2. curr_visit_id[b] # 0 => OkRows(b)' = OkRows(b)
  BY DEF Others, OkRows
<1>3. Place(b)'
  <2>1. Place(b) /\ (Alive(b) => curr_visit_id[b] # 0)
    BY DEF BrowserInv
  <2> QED  BY <1>1, <1>2, <2>1 DEF Others, Place, Alive
<1>4. \A c : Own(b, c) => Own(b, c)'
  BY <1>2 DEF Own, Others, Shutdown
<1>5. \A i \in 1..Len(command_queue'[b]) : Own(b, command_queue[b][i])'
  BY <1>4 DEF BrowserInv, Others, Own, OkRows
<1>6. to_extension'[b] # 0 => ok_rows'[to_extension'[b]] >= NumCommands - 1
  <2>1. to_extension[b] # 0 => /\ ok_rows[to_extension[b]] >= NumCommands - 1
                               /\ ok_rows[to_extension[b]] \in Nat
    <3>1. to_extension[b] # 0 => to_extension[b] \in 1..Len(crawl)
      BY Types, Lengths DEF ProcessTypes
    <3>2. ok_rows \in [1..Len(crawl) -> 0..NumCommands]
      BY Types DEF VisitTypes
    <3> QED  BY <3>1, <3>2, Numbers DEF BrowserInv
  <2> QED  BY <2>1, Numbers DEF Others
<1> QED  BY <1>1, <1>3, <1>5, <1>6 DEF BrowserInv, Others

\* The command threads.

LEMMA Doom ==
  ASSUME TypeOK, NEW b \in Browsers, ThreadStep(b), Doomed
  PROVE  Doomed'
<1>1. UNCHANGED closing
  BY ThreadFrame DEF manager
<1>2. CASE Await(b)
  BY <1>1, <1>2 DEF Await, Doomed
<1>3. CASE Limit(b)
  BY <1>1, <1>3 DEF Limit, Doomed
<1>4. CASE SpawnFails(b)
  BY <1>1, <1>4 DEF SpawnFails, Doomed
<1>5. CASE UNCHANGED failure_status
  BY <1>1, <1>5 DEF Doomed
<1>6. CASE \/ Begin(b) \/ Send(b) \/ Record(b) \/ Count(b) \/ ResetCount(b)
           \/ Flag(b) \/ Abandon(b) \/ Drain(b)
  BY <1>5, <1>6 DEF Begin, Send, Record, Count, ResetCount, Flag, Abandon,
     Drain, failures
<1>7. CASE \/ Signal(b) \/ AwaitClosed(b) \/ JoinProcess(b) \/ Launch(b)
           \/ LaunchRaises(b) \/ Relaunched(b)
  BY <1>5, <1>7 DEF Signal, AwaitClosed, JoinProcess, Launch, LaunchRaises,
     Relaunched, failures
<1> QED  BY <1>2, <1>3, <1>4, <1>6, <1>7 DEF ThreadStep

LEMMA ThreadStepOthers ==
  ASSUME TypeOK, VisitsInv, NEW b \in Browsers, BrowserInv(b), ThreadStep(b),
         NEW c \in Browsers, c # b
  PROVE  Others(c)
<1>1. UNCHANGED curr_visit_id /\ (Doomed => Doomed')
  BY ThreadFrame, Doom
<1>2. ThreadTypes /\ ProcessTypes /\ VisitTypes
  BY Types
<1>3. UNCHANGED <<thread[c], step[c], reply[c], spawns[c]>>
      /\ UNCHANGED restart_required[c]
  <2> USE <1>2 DEF ThreadTypes, Goto, threads
  <2>1. CASE Begin(b) \/ Send(b) \/ Await(b)
    BY <2>1 DEF Begin, Send, Await
  <2>2. CASE Record(b)
    BY <2>2 DEF Record
  <2>3. CASE Count(b) \/ Limit(b) \/ ResetCount(b)
    BY <2>3 DEF Count, Limit, ResetCount
  <2>4. CASE Flag(b) \/ Abandon(b) \/ Drain(b)
    BY <2>4 DEF Flag, Abandon, Drain
  <2>5. CASE Signal(b) \/ AwaitClosed(b) \/ JoinProcess(b)
    BY <2>5 DEF Signal, AwaitClosed, JoinProcess
  <2>6. CASE Launch(b) \/ LaunchRaises(b) \/ Relaunched(b)
    BY <2>6 DEF Launch, LaunchRaises, Relaunched
  <2>7. CASE SpawnFails(b)
    BY <2>7 DEF SpawnFails
  <2> QED  BY <2>1, <2>2, <2>3, <2>4, <2>5, <2>6, <2>7 DEF ThreadStep
<1>4. UNCHANGED <<process[c], command_queue[c], status_queue[c],
                  tainted[c], to_extension[c]>>
  <2> USE <1>2 DEF ProcessTypes, procs
  <2>1. CASE Begin(b) \/ Send(b) \/ Await(b)
    BY <2>1 DEF Begin, Send, Await
  <2>2. CASE Record(b)
    BY <2>2 DEF Record
  <2>3. CASE \/ Count(b) \/ Limit(b) \/ ResetCount(b) \/ Flag(b) \/ Abandon(b)
             \/ Drain(b) \/ Relaunched(b)
    BY <2>3 DEF Count, Limit, ResetCount, Flag, Abandon, Drain, Relaunched
  <2>4. CASE Signal(b) \/ AwaitClosed(b) \/ JoinProcess(b)
    BY <2>4 DEF Signal, AwaitClosed, JoinProcess, Dies
  <2>5. CASE Launch(b) \/ LaunchRaises(b) \/ SpawnFails(b)
    BY <2>5 DEF Launch, LaunchRaises, SpawnFails
  <2> QED  BY <2>1, <2>2, <2>3, <2>4, <2>5 DEF ThreadStep
<1>5. /\ curr_visit_id[c] # 0 => UNCHANGED ok_rows[curr_visit_id[c]]
      /\ to_extension[c] # 0 =>
           ok_rows'[to_extension[c]] \in
             {ok_rows[to_extension[c]], ok_rows[to_extension[c]] + 1}
  <2>1. CASE UNCHANGED ok_rows
    BY <1>1, <2>1
  <2>2. CASE Record(b)
    <3>1. /\ curr_visit_id[b] # 0
          /\ curr_visit_id[b] # curr_visit_id[c]
      BY <2>2 DEF BrowserInv, Alive, Record, VisitsInv
    <3>2. /\ curr_visit_id[c] # 0 => curr_visit_id[c] \in 1..Len(crawl)
          /\ to_extension[c] # 0 => to_extension[c] \in 1..Len(crawl)
      BY <1>2, Lengths, SMTT(60) DEF ThreadTypes, ProcessTypes
    <3>3. UNCHANGED ok_rows
          \/ ok_rows' = [ok_rows EXCEPT
               ![curr_visit_id[b]] =
                 IF reply[b].result = "ok" THEN @ + 1 ELSE @]
      BY <2>2 DEF Record
    <3> QED  BY <1>1, <1>2, <3>1, <3>2, <3>3 DEF VisitTypes
  <2>3. CASE \/ Begin(b) \/ Send(b) \/ Await(b) \/ Count(b) \/ Limit(b)
             \/ ResetCount(b) \/ Flag(b) \/ Abandon(b) \/ Drain(b)
    BY <2>1, <2>3 DEF Begin, Send, Await, Count, Limit, ResetCount, Flag,
       Abandon, Drain
  <2>4. CASE \/ Signal(b) \/ AwaitClosed(b) \/ JoinProcess(b) \/ Launch(b)
             \/ SpawnFails(b) \/ LaunchRaises(b) \/ Relaunched(b)
    BY <2>1, <2>4 DEF Signal, AwaitClosed, JoinProcess, Launch, SpawnFails,
       LaunchRaises, Relaunched
  <2> QED  BY <2>2, <2>3, <2>4 DEF ThreadStep
<1> QED  BY <1>1, <1>3, <1>4, <1>5 DEF Others

LEMMA ThreadStepOwn ==
  ASSUME TypeOK, ManagerInv, NEW b \in Browsers, BrowserInv(b), ThreadStep(b)
  PROVE  BrowserInv(b)'
<1>1. UNCHANGED <<curr_visit_id, closing, sock_open>> /\ (Doomed => Doomed')
  BY ThreadFrame, Doom DEF manager
<1>2. ThreadTypes /\ ProcessTypes /\ VisitTypes
  BY Types
<1>3. /\ ~sock_open => Doomed'
      /\ failure_status' # "none" => Doomed'
      /\ closing => Doomed'
  BY <1>1 DEF ManagerInv, Doomed
<1>4. /\ command_queue[b] \in Seq(Commands) /\ status_queue[b] \in Seq(Replies)
      /\ step[b] \in 1..NumCommands /\ NumCommands \in Nat
      /\ SpawnLimit \in Nat \ {0} /\ spawns[b] \in 0..SpawnLimit
  BY <1>2, Numbers DEF ThreadTypes, ProcessTypes
<1>5. /\ Fresh(b) \/ tainted[b] = curr_visit_id[b]
      /\ \A i \in 1..Len(command_queue[b]) : Own(b, command_queue[b][i])
      /\ to_extension[b] # 0 => ok_rows[to_extension[b]] >= NumCommands - 1
      /\ Alive(b) => curr_visit_id[b] # 0
      /\ Place(b)
  BY DEF BrowserInv
<1>6. ASSUME Alive(b)
      PROVE  OkRows(b) \in Nat /\ curr_visit_id[b] \in 1..Len(crawl)
  <2>1. curr_visit_id[b] \in 1..Len(crawl)
    <3>1. curr_visit_id[b] \in 0..visits /\ curr_visit_id[b] # 0
      BY <1>2, <1>5, <1>6 DEF ThreadTypes
    <3> QED  BY <3>1, Lengths
  <2>2. ok_rows \in [1..Len(crawl) -> 0..NumCommands]
    BY <1>2 DEF VisitTypes
  <2> QED  BY <1>4, <2>1, <2>2 DEF OkRows
<1> HIDE DEF Doomed
\* Steps that change neither the process, its queues nor the rows.
<1>7. ASSUME UNCHANGED <<procs, ok_rows>>, Alive(b)
      PROVE  /\ Clean(b)' <=> Clean(b)
             /\ OkRows(b)' = OkRows(b)
             /\ Place(b)' => BrowserInv(b)'
  <2>1. UNCHANGED <<process, command_queue, status_queue, tainted,
                    to_extension>>
    BY <1>7 DEF procs
  <2>2. \A c : Own(b, c)' <=> Own(b, c)
    BY <1>1, <1>7 DEF Own, OkRows, Shutdown
  <2> QED  BY <1>1, <1>5, <1>7, <2>1, <2>2
              DEF BrowserInv, Clean, Fresh, OkRows, Own
<1>8. CASE Begin(b)
  <2>1. thread[b] = "begin" /\ Clean(b) /\ OkRows(b) = 0
    BY <1>5, <1>8 DEF Begin, Place
  <2>2. UNCHANGED <<procs, ok_rows>>
    BY <1>8 DEF Begin
  <2>3. thread'[b] \in {"send", "dead"} /\ step'[b] = 1
    BY <1>2, <1>8 DEF Begin, Goto, ThreadTypes
  <2>4. Place(b)'
    BY <1>7, <2>1, <2>2, <2>3 DEF Place, Alive
  <2> QED  BY <1>7, <2>1, <2>2, <2>4 DEF Alive
<1>9. CASE Send(b)
  <2>1. /\ thread[b] = "send" /\ Clean(b) /\ OkRows(b) = step[b] - 1
        /\ Alive(b)
    BY <1>5, <1>9 DEF Send, Place, Alive
  <2>2. /\ thread'[b] = "await"
        /\ command_queue'[b] = Append(command_queue[b], Command(b))
        /\ UNCHANGED <<step, process, status_queue, to_extension, tainted,
                       ok_rows>>
    BY <1>2, <1>9 DEF Send, Goto, ThreadTypes, ProcessTypes
  <2>3. command_queue'[b] = <<Command(b)>> /\ Command(b)' = Command(b)
    BY <1>1, <2>1, <2>2 DEF Clean, Command
  <2>4. OkRows(b)' = OkRows(b) /\ Fresh(b)'
    BY <1>1, <2>1, <2>2 DEF OkRows, Clean, Fresh
  <2>5. Place(b)'
    BY <2>1, <2>2, <2>3, <2>4 DEF Place, Outstanding, Clean
  <2>6. Own(b, Command(b))'
    BY <1>1, <1>4, <1>5, <2>1, <2>2, <2>4 DEF Own, Command
  <2>7. \A i \in 1..Len(command_queue'[b]) : Own(b, command_queue[b][i])'
    BY <2>3, <2>6
  <2> QED  BY <1>1, <1>5, <2>1, <2>2, <2>4, <2>5, <2>7 DEF BrowserInv
<1>10. CASE Await(b)
  <2>1. /\ thread[b] = "await" /\ Fresh(b) /\ Outstanding(b)
        /\ OkRows(b) = step[b] - 1 /\ Alive(b)
    BY <1>5, <1>10 DEF Await, Place, Alive
  <2>2. /\ thread'[b] = "record"
        /\ UNCHANGED <<step, process, command_queue, to_extension, tainted,
                       ok_rows>>
    BY <1>2, <1>10 DEF Await, Goto, ThreadTypes
  <2>3. OkRows(b)' = OkRows(b) /\ Fresh(b)' /\ \A c : Own(b, c) => Own(b, c)'
    BY <1>1, <2>1, <2>2 DEF OkRows, Fresh, Own, Shutdown
  <2>4. /\ reply'[b].visit = curr_visit_id[b] /\ reply'[b].index = step[b]
        /\ reply'[b].result = "ok" => /\ command_queue[b] = <<>>
                                      /\ status_queue'[b] = <<>>
    <3>1. CASE status_queue[b] = <<>>
      <4>1. reply'[b] = Reply(Command(b), "timeout")
        BY <1>2, <1>10, <3>1 DEF Await, ThreadTypes
      <4> QED  BY <4>1 DEF Reply, Command
    <3>2. CASE status_queue[b] # <<>>
      <4>1. PICK result \in Results :
              status_queue[b] = <<Reply(Command(b), result)>>
        BY <2>1, <3>2 DEF Outstanding
      <4>2. reply'[b] = Reply(Command(b), result) /\ status_queue'[b] = <<>>
        BY <1>2, <1>10, <3>2, <4>1 DEF Await, ThreadTypes, ProcessTypes
      <4>3. command_queue[b] = <<>>
        BY <2>1, <3>2 DEF Outstanding
      <4> QED  BY <4>2, <4>3 DEF Reply, Command
    <3> QED  BY <3>1, <3>2
  <2>5. reply'[b].result = "critical" => Doomed'
    BY <1>3, <1>10 DEF Await
  <2>6. Place(b)'
    BY <1>1, <2>1, <2>2, <2>3, <2>4, <2>5 DEF Place, Clean
  <2> QED  BY <1>1, <1>5, <2>1, <2>2, <2>3, <2>6 DEF BrowserInv, Own, OkRows
<1>11. CASE Record(b)
  <2>1. /\ thread[b] = "record" /\ Alive(b)
        /\ OkRows(b) = step[b] - 1
        /\ reply[b].result = "ok" => Clean(b)
        /\ reply[b].result = "critical" => Doomed
    BY <1>5, <1>11 DEF Record, Place, Alive
  <2>2. UNCHANGED <<step, reply, process, command_queue, status_queue,
                    to_extension, restart_required>>
    BY <1>11 DEF Record
  <2>3. reply[b].result \in Results
    BY <1>2 DEF ThreadTypes, Replies
  <2>4. OkRows(b)' \in {OkRows(b), OkRows(b) + 1}
        /\ \A v \in 1..Len(crawl) :
             ok_rows'[v] \in {ok_rows[v], ok_rows[v] + 1}
    <3>1. \/ UNCHANGED ok_rows
          \/ ok_rows' = [ok_rows EXCEPT
               ![curr_visit_id[b]] =
                 IF reply[b].result = "ok" THEN @ + 1 ELSE @]
      BY <1>11 DEF Record
    <3> QED  BY <1>1, <1>2, <1>6, <2>1, <3>1 DEF OkRows, VisitTypes
  <2>5. \A i \in 1..Len(command_queue'[b]) : Own(b, command_queue[b][i])'
    <3>1. \A c : Own(b, c) => Own(b, c)'
      BY <1>1, <1>4, <1>6, <2>1, <2>4 DEF Own, Shutdown
    <3> QED  BY <1>5, <2>2, <3>1 DEF Own, OkRows
  <2>6. to_extension'[b] # 0 => ok_rows'[to_extension'[b]] >= NumCommands - 1
    <3>1. to_extension[b] # 0 => to_extension[b] \in 1..Len(crawl)
      BY <1>2, Lengths DEF ProcessTypes
    <3>2. \A v \in 1..Len(crawl) : ok_rows[v] \in Nat
      BY <1>2, <1>4 DEF VisitTypes
    <3> QED  BY <1>4, <1>5, <2>2, <2>4, <3>1, <3>2
  <2>7. CASE ~sock_open
    <3>1. thread'[b] = "dead" /\ UNCHANGED <<ok_rows, tainted>>
      BY <1>2, <1>11, <2>7 DEF Record, Goto, ThreadTypes
    <3>2. Place(b)'
      BY <1>3, <2>7, <3>1 DEF Place
    <3> QED  BY <1>1, <1>5, <2>1, <2>2, <2>5, <2>6, <3>1, <3>2
                DEF BrowserInv, Fresh
  <2>8. CASE sock_open /\ reply[b].result = "ok"
    <3>1. /\ thread'[b] \in {"reset", "flag"} /\ UNCHANGED tainted[b]
          /\ OkRows(b)' = OkRows(b) + 1
      <4>1. thread'[b] \in {"reset", "flag"}
        BY <1>2, <1>11, <2>8 DEF Record, Goto, ThreadTypes
      <4>2. tainted'[b] = tainted[b]
        BY <1>2, <1>11, <2>8 DEF Record, ProcessTypes
      <4>3. ok_rows' = [ok_rows EXCEPT ![curr_visit_id[b]] = @ + 1]
        BY <1>11, <2>8 DEF Record
      <4> QED  BY <1>1, <1>2, <1>6, <2>1, <4>1, <4>2, <4>3
                  DEF OkRows, VisitTypes
    <3>2. Clean(b)' /\ OkRows(b)' = step'[b]
      BY <1>4, <2>1, <2>2, <2>8, <3>1 DEF Clean, Fresh
    <3>3. Place(b)'
      BY <2>2, <2>8, <3>1, <3>2 DEF Place
    <3> QED  BY <1>1, <1>5, <2>1, <2>2, <2>5, <2>6, <3>1, <3>2, <3>3
                DEF BrowserInv, Fresh, Clean
  <2>9. CASE sock_open /\ reply[b].result # "ok"
    <3>1. /\ thread'[b] =
               IF reply[b].result = "critical" THEN "abandon" ELSE "count"
          /\ tainted'[b] = curr_visit_id[b]
      <4>1. thread'[b] =
               IF reply[b].result = "critical" THEN "abandon" ELSE "count"
        BY <1>2, <1>11, <2>3, <2>9 DEF Record, Goto, ThreadTypes, Results
      <4>2. tainted'[b] = curr_visit_id[b]
        BY <1>2, <1>11, <2>9 DEF Record, ProcessTypes
      <4> QED  BY <4>1, <4>2
    <3>2. Place(b)'
      BY <1>1, <2>1, <2>2, <3>1 DEF Place
    <3> QED  BY <1>1, <1>5, <2>1, <2>2, <2>5, <2>6, <3>1, <3>2 DEF BrowserInv
  <2> QED  BY <2>7, <2>8, <2>9
<1>12. CASE Count(b)
  <2>1. /\ thread[b] = "count" /\ UNCHANGED <<procs, ok_rows, reply>>
        /\ reply[b].result # "critical"
    BY <1>5, <1>12 DEF Count, Place
  <2>2. thread'[b] = "limit"
    BY <1>2, <1>12 DEF Count, Goto, ThreadTypes
  <2> QED  BY <1>7, <2>1, <2>2 DEF Place, Alive
<1>13. CASE Limit(b)
  <2>1. /\ thread[b] = "limit" /\ UNCHANGED <<procs, ok_rows, reply>>
        /\ reply[b].result # "critical"
    BY <1>5, <1>13 DEF Limit, Place
  <2>2. \/ thread'[b] = "dead" /\ failure_status' = "command"
        \/ thread'[b] = "flag" /\ restart_required'[b] = TRUE
    BY <1>2, <1>13 DEF Limit, Goto, ThreadTypes
  <2>3. Place(b)'
    BY <1>3, <2>1, <2>2 DEF Place
  <2> QED  BY <1>7, <2>1, <2>3 DEF Alive
<1>14. CASE ResetCount(b)
  <2>1. /\ thread[b] = "reset" /\ UNCHANGED <<procs, ok_rows, step, reply>>
        /\ reply[b].result # "critical"
        /\ Clean(b) /\ OkRows(b) = step[b]
    BY <1>5, <1>14 DEF ResetCount, Place
  <2>2. thread'[b] = "flag"
    BY <1>2, <1>14 DEF ResetCount, Goto, ThreadTypes
  <2>3. Place(b)'
    BY <1>7, <2>1, <2>2 DEF Place, Alive
  <2> QED  BY <1>7, <2>1, <2>3 DEF Alive
<1>15. CASE Flag(b)
  <2>1. /\ thread[b] = "flag" /\ UNCHANGED <<procs, ok_rows, reply>>
        /\ restart_required[b] \/ (Clean(b) /\ OkRows(b) = step[b])
        /\ reply[b].result # "critical"
        /\ UNCHANGED restart_required
    BY <1>5, <1>15 DEF Flag, Place
  <2>2. \/ thread'[b] = "abandon" /\ restart_required[b]
        \/ /\ thread'[b] = "send" /\ ~restart_required[b]
           /\ step'[b] = step[b] + 1
        \/ thread'[b] = "drain" /\ ~restart_required[b]
    BY <1>2, <1>15 DEF Flag, Goto, ThreadTypes
  <2>3. Place(b)'
    <3>1. CASE thread'[b] = "abandon" /\ restart_required[b]
      BY <2>1, <3>1 DEF Place
    <3>2. CASE /\ thread'[b] = "send" /\ ~restart_required[b]
               /\ step'[b] = step[b] + 1
      <4>1. Clean(b)' /\ OkRows(b)' = step[b]
        BY <1>7, <2>1, <3>2 DEF Alive
      <4>2. OkRows(b)' = step'[b] - 1
        BY <1>2, <3>2, <4>1 DEF ThreadTypes
      <4> QED  BY <3>2, <4>1, <4>2 DEF Place
    <3>3. CASE thread'[b] = "drain" /\ ~restart_required[b]
      BY <1>7, <2>1, <3>3 DEF Place, Alive
    <3> QED  BY <2>2, <3>1, <3>2, <3>3
  <2> QED  BY <1>7, <2>1, <2>3 DEF Alive
<1>16. CASE Abandon(b)
  <2>1. /\ thread[b] = "abandon"
        /\ UNCHANGED <<procs, ok_rows, restart_required>>
        /\ IF reply[b].result = "critical" THEN Doomed ELSE restart_required[b]
    BY <1>5, <1>16 DEF Abandon, Place
  <2>2. \/ /\ thread'[b] = "dead"
           /\ ~sock_open \/ reply[b].result = "critical"
        \/ thread'[b] = "drain" /\ reply[b].result # "critical"
    BY <1>2, <1>16 DEF Abandon, Goto, ThreadTypes
  <2>3. Place(b)'
    BY <1>1, <1>3, <2>1, <2>2 DEF Place
  <2> QED  BY <1>7, <2>1, <2>3 DEF Alive
<1>17. CASE Drain(b)
  <2>1. /\ thread[b] = "drain" /\ UNCHANGED <<procs, ok_rows>>
        /\ restart_required[b] \/ Clean(b)
    BY <1>5, <1>17 DEF Drain, Place
  <2>2. \/ thread'[b] = "signal"
        \/ thread'[b] = "dead" /\ (closing \/ ~restart_required[b])
    BY <1>2, <1>17 DEF Drain, Goto, ThreadTypes
  <2>3. Place(b)'
    BY <1>3, <1>7, <2>1, <2>2 DEF Place, Alive
  <2> QED  BY <1>7, <2>1, <2>3 DEF Alive
<1>18. CASE Relaunched(b)
  <2>1. /\ thread[b] = "relaunched" /\ UNCHANGED <<procs, ok_rows>>
        /\ Clean(b)
    BY <1>5, <1>18 DEF Relaunched, Place
  <2>2. thread'[b] = "dead"
    BY <1>2, <1>18 DEF Relaunched, Goto, ThreadTypes
  <2>3. Place(b)'
    BY <1>7, <2>1, <2>2 DEF Place, Alive
  <2> QED  BY <1>7, <2>1, <2>3 DEF Alive
<1>19. CASE Signal(b)
  <2>1. thread[b] = "signal" /\ Alive(b)
    BY <1>19 DEF Signal, Alive
  <2>2. /\ thread'[b] = "closing"
        /\ command_queue'[b] = Append(command_queue[b], Shutdown)
        /\ UNCHANGED <<process, tainted, to_extension, ok_rows>>
    BY <1>2, <1>19 DEF Signal, Goto, ThreadTypes, ProcessTypes
  <2>3. \A i \in 1..Len(command_queue'[b]) :
          command_queue'[b][i] = Shutdown
          \/ /\ i \in 1..Len(command_queue[b])
             /\ command_queue'[b][i] = command_queue[b][i]
    BY <1>4, <2>2, AppendProperties
  <2>4. \A c : Own(b, c)' <=> Own(b, c)
    BY <1>1, <2>2 DEF Own, OkRows, Shutdown
  <2>5. \A i \in 1..Len(command_queue'[b]) : Own(b, command_queue'[b][i])
    BY <1>5, <2>3 DEF Own
  <2>6. Place(b)'
    BY <2>2 DEF Place
  <2> QED  BY <1>1, <1>5, <2>1, <2>2, <2>4, <2>5, <2>6
              DEF BrowserInv, Fresh, Own, OkRows
\* Steps that leave the rows and empty the queues, or leave the commands.
<1>20. ASSUME Alive(b), Place(b)', UNCHANGED ok_rows,
              to_extension'[b] \in {to_extension[b], 0},
              command_queue'[b] \in {command_queue[b], <<>>},
              \/ process'[b] = "dead" \/ tainted'[b] = 0
              \/ UNCHANGED <<process[b], tainted[b]>>
       PROVE  BrowserInv(b)'
  <2>1. \A c : Own(b, c)' <=> Own(b, c)
    BY <1>1, <1>20 DEF Own, OkRows, Shutdown
  <2>2. \A i \in 1..Len(command_queue'[b]) : Own(b, command_queue[b][i])'
    <3>1. CASE command_queue'[b] = <<>>
      BY <3>1
    <3>2. CASE command_queue'[b] = command_queue[b]
      BY <1>5, <2>1, <3>2 DEF Own, OkRows
    <3> QED  BY <1>20, <3>1, <3>2
  <2> QED  BY <1>1, <1>5, <1>20, <2>2 DEF BrowserInv, Fresh
<1>21. CASE AwaitClosed(b)
  <2>1. /\ thread[b] = "closing" /\ Alive(b)
        /\ UNCHANGED <<command_queue, tainted, ok_rows>>
    BY <1>21 DEF AwaitClosed, Alive
  <2>2. /\ spawns'[b] = 0
        /\ to_extension'[b] \in {to_extension[b], 0}
        /\ \/ thread'[b] = "launch" /\ process'[b] = "dead"
           \/ thread'[b] = "joining" /\ UNCHANGED process[b]
    BY <1>2, <1>21 DEF AwaitClosed, Dies, Goto, ThreadTypes, ProcessTypes
  <2>3. Place(b)'
    BY <1>4, <2>2 DEF Place
  <2> QED  BY <1>20, <2>1, <2>2, <2>3
<1>22. CASE JoinProcess(b)
  <2>1. /\ thread[b] = "joining" /\ Alive(b) /\ spawns[b] = 0
        /\ UNCHANGED <<command_queue, tainted, ok_rows, spawns>>
    BY <1>5, <1>22 DEF JoinProcess, Alive, Place
  <2>2. /\ to_extension'[b] \in {to_extension[b], 0}
        /\ thread'[b] = "launch" /\ process'[b] = "dead"
    BY <1>2, <1>22 DEF JoinProcess, Dies, Goto, ThreadTypes, ProcessTypes
  <2>3. Place(b)'
    BY <1>4, <2>1, <2>2 DEF Place
  <2> QED  BY <1>20, <2>1, <2>2, <2>3
<1>23. CASE Launch(b)
  <2>1. /\ thread[b] = "launch" /\ Alive(b)
        /\ UNCHANGED <<to_extension, ok_rows>>
    BY <1>23 DEF Launch, Alive
  <2>2. /\ thread'[b] = "relaunched" /\ tainted'[b] = 0
        /\ command_queue'[b] = <<>> /\ status_queue'[b] = <<>>
    BY <1>2, <1>23 DEF Launch, Goto, ThreadTypes, ProcessTypes
  <2>3. Place(b)'
    BY <2>2 DEF Place, Clean, Fresh
  <2> QED  BY <1>20, <2>1, <2>2, <2>3
<1>24. CASE SpawnFails(b)
  <2>1. /\ thread[b] = "launch" /\ Alive(b) /\ process[b] = "dead"
        /\ UNCHANGED <<to_extension, ok_rows, process>>
    BY <1>5, <1>24 DEF SpawnFails, Alive, Place
  <2>2. /\ command_queue'[b] = <<>>
        /\ \/ thread'[b] = "launch" /\ spawns'[b] < SpawnLimit
           \/ thread'[b] = "dead" /\ failure_status' = "launch"
    BY <1>2, <1>24 DEF SpawnFails, Goto, ThreadTypes, ProcessTypes
  <2>3. Place(b)'
    BY <1>3, <2>1, <2>2 DEF Place
  <2> QED  BY <1>20, <2>1, <2>2, <2>3
<1>25. CASE LaunchRaises(b)
  <2>1. /\ thread[b] = "launch" /\ Alive(b) /\ process[b] = "dead"
        /\ UNCHANGED <<to_extension, ok_rows, process>>
    BY <1>5, <1>25 DEF LaunchRaises, Alive, Place
  <2>2. /\ command_queue'[b] = <<>> /\ status_queue'[b] = <<>>
        /\ thread'[b] = "dead"
    BY <1>2, <1>25 DEF LaunchRaises, Goto, ThreadTypes, ProcessTypes
  <2>3. Place(b)'
    BY <2>1, <2>2 DEF Place, Clean, Fresh
  <2> QED  BY <1>20, <2>1, <2>2, <2>3
<1> QED  BY <1>8, <1>9, <1>10, <1>11, <1>12, <1>13, <1>14, <1>15, <1>16,
            <1>17, <1>18, <1>19, <1>21, <1>22, <1>23, <1>24, <1>25
            DEF ThreadStep

\* The main thread, the completion thread, the controller and the watchdog.

LEMMA Unaffected ==
  ASSUME TypeOK, \A b \in Browsers : BrowserInv(b),
         UNCHANGED <<threads, procs, curr_visit_id, restart_required, ok_rows>>,
         Doomed => Doomed'
  PROVE  \A b \in Browsers : BrowserInv(b)'
<1> SUFFICES ASSUME NEW b \in Browsers PROVE BrowserInv(b)'
  OBVIOUS
<1>1. ASSUME to_extension[b] # 0
      PROVE  ok_rows'[to_extension[b]] = ok_rows[to_extension[b]]
  OBVIOUS
<1>2. Others(b)
  BY <1>1 DEF Others, threads, procs
<1> QED  BY <1>2, OthersKeep

LEMMA AssignBrowsers ==
  ASSUME TypeOK, ManagerInv, \A b \in Browsers : BrowserInv(b), Assign
  PROVE  \A b \in Browsers : BrowserInv(b)'
<1> SUFFICES ASSUME NEW b \in Browsers PROVE BrowserInv(b)'
  OBVIOUS
<1>1. /\ UNCHANGED <<threads, procs, restart_required, ok_rows>>
      /\ UNCHANGED <<failure_status, closing>>
      /\ curr_visit_id' = [curr_visit_id EXCEPT ![target] = visits + 1]
  BY DEF Assign, failures
<1>2. /\ curr_visit_id \in [Browsers -> 0..visits] /\ target \in Browsers
      /\ visits \in Nat
  BY Types, Lengths DEF ThreadTypes, MainTypes
<1>3. CASE b # target
  <2>1. Others(b)
    BY <1>1, <1>2, <1>3 DEF Others, threads, procs, Doomed
  <2> QED  BY <2>1, OthersKeep
<1>4. CASE b = target
  <2>1. thread[b] \in {"none", "dead"} /\ Clean(b)
    BY <1>4 DEF ManagerInv, Assign, Ready, Alive
  <2>2. Clean(b)' /\ Fresh(b)' /\ UNCHANGED thread
    BY <1>1, <2>1 DEF Clean, Fresh, threads, procs
  <2>3. Place(b)' /\ ~Alive(b)'
    BY <2>1, <2>2 DEF Place, Alive
  <2>4. \A i \in 1..Len(command_queue'[b]) : Own(b, command_queue[b][i])'
    BY <2>2 DEF Clean
  <2>5. to_extension[b] # 0 => ok_rows[to_extension[b]] >= NumCommands - 1
    BY DEF BrowserInv
  <2>6. to_extension'[b] # 0 => ok_rows'[to_extension'[b]] >= NumCommands - 1
    BY <1>1, <2>5 DEF procs
  <2> QED  BY <2>2, <2>3, <2>4, <2>6 DEF BrowserInv
<1> QED  BY <1>3, <1>4

LEMMA StartThreadBrowsers ==
  ASSUME TypeOK, ManagerInv, \A b \in Browsers : BrowserInv(b), StartThread
  PROVE  \A b \in Browsers : BrowserInv(b)'
<1> SUFFICES ASSUME NEW b \in Browsers PROVE BrowserInv(b)'
  OBVIOUS
<1>1. /\ UNCHANGED <<procs, restart_required, ok_rows, curr_visit_id, visits>>
      /\ UNCHANGED <<failure_status, closing, step, reply, spawns>>
      /\ thread' = [thread EXCEPT ![target] = "begin"]
      /\ main = "start"
  BY DEF StartThread, failures, Goto
<1>2. thread \in [Browsers -> ThreadPlaces] /\ target \in Browsers
  BY Types DEF ThreadTypes, MainTypes
<1>3. CASE b # target
  <2>1. Others(b)
    BY <1>1, <1>2, <1>3 DEF Others, procs, Doomed
  <2> QED  BY <2>1, OthersKeep
<1>4. CASE b = target
  <2>1. Clean(b) /\ OkRows(b) = 0 /\ curr_visit_id[b] # 0
    BY <1>1, <1>4 DEF ManagerInv, OkRows
  <2>2. /\ Clean(b)' /\ Fresh(b)' /\ OkRows(b)' = 0 /\ curr_visit_id'[b] # 0
        /\ thread'[b] = "begin"
    BY <1>1, <1>2, <1>4, <2>1 DEF Clean, Fresh, OkRows, procs
  <2>3. Place(b)'
    BY <2>2 DEF Place
  <2>4. \A i \in 1..Len(command_queue'[b]) : Own(b, command_queue[b][i])'
    BY <2>2 DEF Clean
  <2>5. to_extension[b] # 0 => ok_rows[to_extension[b]] >= NumCommands - 1
    BY DEF BrowserInv
  <2>6. to_extension'[b] # 0 => ok_rows'[to_extension'[b]] >= NumCommands - 1
    BY <1>1, <2>5 DEF procs
  <2> QED  BY <2>2, <2>3, <2>4, <2>6 DEF BrowserInv
<1> QED  BY <1>3, <1>4

LEMMA StopBrowserBrowsers ==
  ASSUME TypeOK, ManagerInv, \A b \in Browsers : BrowserInv(b), StopBrowser
  PROVE  \A b \in Browsers : BrowserInv(b)'
<1> SUFFICES ASSUME NEW b \in Browsers PROVE BrowserInv(b)'
  OBVIOUS
<1>1. /\ UNCHANGED <<threads, restart_required, ok_rows, curr_visit_id>>
      /\ UNCHANGED <<failure_status, closing, command_queue, status_queue,
                     tainted>>
      /\ process' = [process EXCEPT ![target] = "dead"]
      /\ to_extension' = [to_extension EXCEPT ![target] = 0]
  BY DEF StopBrowser, failures, Dies
<1>2. target \in Browsers /\ ProcessTypes
  BY Types DEF MainTypes
<1>3. CASE b # target
  <2>1. Others(b)
    BY <1>1, <1>2, <1>3 DEF Others, threads, Doomed, ProcessTypes
  <2> QED  BY <2>1, OthersKeep
<1>4. CASE b = target
  <2>1. process'[b] = "dead" /\ to_extension'[b] = 0
    BY <1>1, <1>2, <1>4 DEF ProcessTypes
  <2>2. /\ Clean(b) => Clean(b)'
        /\ Outstanding(b) => Outstanding(b)'
        /\ Fresh(b)' /\ OkRows(b)' = OkRows(b) /\ Doomed' = Doomed
        /\ \A c : Own(b, c)' <=> Own(b, c)
    BY <1>1, <2>1 DEF Clean, Fresh, Outstanding, Command, OkRows, Doomed,
       Own, Shutdown, threads
  <2>3. Place(b)
    BY DEF BrowserInv
  <2>4. Place(b)'
    BY <1>1, <2>1, <2>2, <2>3 DEF Place, threads
  <2>5. \A i \in 1..Len(command_queue[b]) : Own(b, command_queue[b][i])
    BY DEF BrowserInv
  <2>6. \A i \in 1..Len(command_queue'[b]) : Own(b, command_queue[b][i])'
    BY <1>1, <2>2, <2>5 DEF Own, OkRows
  <2> QED  BY <1>1, <2>1, <2>2, <2>4, <2>6 DEF BrowserInv, Alive, threads
<1> QED  BY <1>3, <1>4

LEMMA ManagerBrowsers ==
  ASSUME TypeOK, ManagerInv, \A b \in Browsers : BrowserInv(b),
         MainStep \/ User \/ Completion \/ Handlers \/ StorageEnds
  PROVE  \A b \in Browsers : BrowserInv(b)'
<1>1. ASSUME NEW b \in Browsers, Select(b)
      PROVE  \A c \in Browsers : BrowserInv(c)'
  BY <1>1, Unaffected DEF Select, Doomed, failures
<1>4. CASE JoinStorage \/ CloseEnds
  <2>1. UNCHANGED <<threads, procs, curr_visit_id, restart_required, ok_rows,
                    failure_status, closing>>
    BY <1>4 DEF JoinStorage, CloseEnds, failures
  <2> QED  BY <2>1, Unaffected DEF Doomed
<1>2. CASE CheckFailure \/ \E mode \in CloseModes : Close(mode)
  BY <1>2, Unaffected DEF CheckFailure, Close, StartClosing, Doomed, failures
<1>3. CASE Completion
  BY <1>3, Unaffected DEF Completion, Callback, CallbackThreadEnds, Doomed,
     failures, manager
<1>5. CASE Handlers \/ StorageEnds
  <2>1. UNCHANGED <<threads, procs, curr_visit_id, restart_required, ok_rows,
                    failure_status, closing>>
    BY <1>5, ControllerFrame DEF failures, manager
  <2> QED  BY <2>1, Unaffected DEF Doomed
<1> QED  BY <1>1, <1>2, <1>3, <1>4, <1>5, AssignBrowsers, StartThreadBrowsers,
            StopBrowserBrowsers DEF MainStep, User

LEMMA EnvironmentBrowsers ==
  ASSUME TypeOK, \A b \in Browsers : BrowserInv(b), NEW b \in Browsers,
         ExtensionFinalizes(b) \/ Watchdog(b), NEW c \in Browsers
  PROVE  BrowserInv(c)'
<1>1. ThreadTypes /\ ProcessTypes
  BY Types
<1>2. CASE ExtensionFinalizes(b)
  <2>1. /\ UNCHANGED <<threads, restart_required, ok_rows, curr_visit_id>>
        /\ UNCHANGED <<process, command_queue, status_queue, tainted>>
        /\ Doomed' = Doomed
        /\ to_extension'[c] \in {to_extension[c], 0}
    BY <1>1, <1>2 DEF ExtensionFinalizes, manager, failures, Doomed,
       ProcessTypes
  <2>2. Others(c)
    BY <2>1 DEF Others, threads
  <2> QED  BY <2>2, OthersKeep
<1>3. CASE Watchdog(b)
  <2>1. /\ UNCHANGED <<threads, ok_rows, curr_visit_id, procs>>
        /\ Doomed' = Doomed
        /\ restart_required[c] => restart_required'[c]
    BY <1>1, <1>3 DEF Watchdog, manager, failures, Doomed, ThreadTypes
  <2>2. Others(c)
    BY <2>1 DEF Others, threads, procs
  <2> QED  BY <2>2, OthersKeep
<1> QED  BY <1>2, <1>3

\* The process takes a command.
LEMMA ProcessBrowsers ==
  ASSUME TypeOK, \A b \in Browsers : BrowserInv(b), NEW b \in Browsers,
         Execute(b) \/ Quit(b), NEW c \in Browsers
  PROVE  BrowserInv(c)'
<1>1. ThreadTypes /\ ProcessTypes /\ NumCommands \in Nat
  BY Types, Numbers
<1>2. /\ UNCHANGED <<threads, restart_required, ok_rows, curr_visit_id>>
      /\ UNCHANGED tainted
      /\ Doomed' = Doomed
      /\ command_queue' = [command_queue EXCEPT ![b] = Tail(@)]
  BY DEF Execute, Quit, manager, failures, Doomed
<1>3. /\ process[b] = "running" /\ command_queue[b] # <<>>
      /\ command_queue[b] \in Seq(Commands)
      /\ status_queue[b] \in Seq(Replies)
  BY <1>1 DEF Execute, Quit, ProcessTypes
<1>4. PICK r \in Results :
        /\ status_queue' = [status_queue EXCEPT
             ![b] = Append(@, Reply(Head(command_queue[b]), r))]
        /\ process' \in {process, [process EXCEPT ![b] = "dead"]}
        /\ to_extension'[c] \in {to_extension[c], 0,
                                 IF c = b /\ r = "ok"
                                    /\ Head(command_queue[b]) # Shutdown
                                    /\ Head(command_queue[b]).index = NumCommands
                                 THEN Head(command_queue[b]).visit
                                 ELSE 0}
  <2>1. CASE Execute(b)
    <3>1. PICK o \in Outcomes :
         /\ status_queue' = [status_queue EXCEPT
              ![b] = Append(@, Reply(Head(command_queue[b]), o.result))]
         /\ process' = [process EXCEPT ![b] = IF o.ends THEN "dead" ELSE @]
         /\ to_extension' = [to_extension EXCEPT
              ![b] = IF Head(command_queue[b]).index = NumCommands
                        /\ o.result = "ok"
                     THEN Head(command_queue[b]).visit ELSE @]
      BY <2>1 DEF Execute
    <3>2. o.result \in Results
      BY DEF Outcomes, Results
    <3>5. process' \in {process, [process EXCEPT ![b] = "dead"]}
      BY <1>1, <3>1 DEF ProcessTypes
    <3>3. Head(command_queue[b]) # Shutdown
      BY <2>1 DEF Execute
    <3>4. to_extension'[c] \in {to_extension[c], 0,
                                 IF c = b /\ o.result = "ok"
                                    /\ Head(command_queue[b]) # Shutdown
                                    /\ Head(command_queue[b]).index = NumCommands
                                 THEN Head(command_queue[b]).visit
                                 ELSE 0}
      BY <1>1, <3>1, <3>3 DEF ProcessTypes
    <3> QED  BY <3>1, <3>2, <3>4, <3>5
  <2>2. CASE Quit(b)
    <3>1. /\ status_queue' = [status_queue EXCEPT
               ![b] = Append(@, Reply(Head(command_queue[b]), "ok"))]
          /\ process' = [process EXCEPT ![b] = "dead"]
          /\ to_extension' = [to_extension EXCEPT ![b] = 0]
      BY <2>2 DEF Quit, Dies
    <3>2. to_extension'[c] \in {to_extension[c], 0}
      BY <1>1, <3>1 DEF ProcessTypes
    <3> QED  BY <3>1, <3>2 DEF Results
  <2> QED  BY <2>1, <2>2
<1>5. CASE c # b
  <2>1. Others(c)
    BY <1>1, <1>2, <1>4, <1>5 DEF Others, ProcessTypes, threads
  <2> QED  BY <2>1, OthersKeep
<1>6. CASE c = b
  <2>1. /\ Place(b) /\ (Fresh(b) \/ tainted[b] = curr_visit_id[b])
        /\ Alive(b) => curr_visit_id[b] # 0
        /\ \A i \in 1..Len(command_queue[b]) : Own(b, command_queue[b][i])
        /\ to_extension[b] # 0 => ok_rows[to_extension[b]] >= NumCommands - 1
    BY DEF BrowserInv
  <2>2. /\ ~Clean(b)
        /\ command_queue'[b] = Tail(command_queue[b])
        /\ status_queue'[b] =
             Append(status_queue[b], Reply(Head(command_queue[b]), r))
        /\ process'[b] \in {"dead", process[b]}
    BY <1>1, <1>2, <1>3, <1>4 DEF Clean, ProcessTypes
  <2>3. Outstanding(b) => Outstanding(b)'
    <3>1. CASE command_queue[b] = <<Command(b)>> /\ status_queue[b] = <<>>
      <4>1. /\ command_queue'[b] = <<>>
            /\ status_queue'[b] = <<Reply(Command(b), r)>>
        BY <2>2, <3>1
      <4>2. Command(b)' = Command(b)
        BY <1>2 DEF Command, threads
      <4> QED  BY <4>1, <4>2 DEF Outstanding
    <3> QED  BY <1>3, <3>1 DEF Outstanding
  <2>4. /\ Fresh(b) => Fresh(b)'
        /\ OkRows(b)' = OkRows(b)
        /\ \A x : Own(b, x)' <=> Own(b, x)
    BY <1>2, <2>2 DEF Fresh, OkRows, Own, Shutdown
  <2>5. Place(b)'
    BY <1>2, <1>3, <2>1, <2>2, <2>3, <2>4 DEF Place, threads
  <2>6. /\ Own(b, Head(command_queue[b]))
        /\ \A i \in 1..Len(command_queue'[b]) :
             Own(b, command_queue'[b][i])
    <3>1. /\ Head(command_queue[b]) = command_queue[b][1]
          /\ 1 \in 1..Len(command_queue[b])
          /\ \A i \in 1..Len(Tail(command_queue[b])) :
               /\ i + 1 \in 1..Len(command_queue[b])
               /\ Tail(command_queue[b])[i] = command_queue[b][i + 1]
      BY <1>3, HeadTailProperties
    <3> QED  BY <2>1, <2>2, <3>1
  <2>7. to_extension'[b] # 0 => ok_rows'[to_extension'[b]] >= NumCommands - 1
    <3>1. CASE to_extension'[b] = to_extension[b]
      BY <1>2, <2>1, <3>1
    <3>2. CASE /\ to_extension'[b] = Head(command_queue[b]).visit
               /\ Head(command_queue[b]) # Shutdown
               /\ Head(command_queue[b]).index = NumCommands
      BY <1>2, <2>6, <3>2 DEF Own, OkRows
    <3> QED  BY <1>4, <1>6, <3>1, <3>2
  <2>8. \A i \in 1..Len(command_queue'[b]) : Own(b, command_queue[b][i])'
    BY <2>4, <2>6 DEF Own, OkRows
  <2>9. (Fresh(b) \/ tainted[b] = curr_visit_id[b])'
    BY <1>2, <2>1, <2>4
  <2> QED  BY <1>2, <1>6, <2>1, <2>5, <2>7, <2>8, <2>9
              DEF BrowserInv, Alive, threads
<1> QED  BY <1>5, <1>6

----------------------------------------------------------------------------
(* What the steps leave alone. *)

LEMMA ThreadIsAlive ==
  ASSUME NEW b \in Browsers, ThreadStep(b)
  PROVE  Alive(b)
<1>1. CASE Begin(b) \/ Send(b) \/ Await(b) \/ Record(b) \/ Count(b)
  BY <1>1 DEF Begin, Send, Await, Record, Count, Alive
<1>2. CASE Limit(b) \/ ResetCount(b) \/ Flag(b) \/ Abandon(b) \/ Drain(b)
  BY <1>2 DEF Limit, ResetCount, Flag, Abandon, Drain, Alive
<1>3. CASE Signal(b) \/ AwaitClosed(b) \/ JoinProcess(b) \/ Launch(b)
  BY <1>3 DEF Signal, AwaitClosed, JoinProcess, Launch, Alive
<1>4. CASE SpawnFails(b) \/ LaunchRaises(b) \/ Relaunched(b)
  BY <1>4 DEF SpawnFails, LaunchRaises, Relaunched, Alive
<1> QED  BY <1>1, <1>2, <1>3, <1>4 DEF ThreadStep

\* Steps of the processes, the extension, the controller and the watchdog.
Environment(b) ==
  Execute(b) \/ Quit(b) \/ ExtensionFinalizes(b) \/ Watchdog(b)

LEMMA EnvironmentFrame ==
  ASSUME \/ Handlers \/ StorageEnds
         \/ \E b \in Browsers : Environment(b)
  PROVE  UNCHANGED <<manager, failures, done, threads, curr_visit_id, ok_rows,
                     late, tainted, overlap>>
<1>1. CASE Handlers \/ StorageEnds
  BY <1>1, ControllerFrame DEF procs
<1>2. ASSUME NEW b \in Browsers, Environment(b)
      PROVE  UNCHANGED <<manager, failures, done, threads, curr_visit_id,
                         ok_rows, late, tainted, overlap>>
  BY <1>2 DEF Environment, Execute, Quit, ExtensionFinalizes, Watchdog, procs
<1> QED  BY <1>1, <1>2

LEMMA NextSteps ==
  ASSUME [Next]_vars
  PROVE  \/ UNCHANGED vars
         \/ MainStep \/ User \/ Completion
         \/ \E b \in Browsers : ThreadStep(b)
         \/ Handlers \/ StorageEnds
         \/ \E b \in Browsers : Environment(b)
BY DEF Next, Environment

\* The rows only grow, and only those of a visit under way.
LEMMA RowsGrow ==
  ASSUME TypeOK, \A b \in Browsers : BrowserInv(b), [Next]_vars
  PROVE  \A v \in 1..Len(crawl) :
           \/ ok_rows'[v] = ok_rows[v]
           \/ /\ ok_rows'[v] = ok_rows[v] + 1
              /\ v \in Visits /\ \E b \in Browsers : curr_visit_id[b] = v
                                                    /\ ThreadStep(b)
<1>1. CASE UNCHANGED ok_rows
  BY <1>1
<1>2. CASE MainStep \/ User \/ Completion
  BY <1>1, <1>2 DEF MainStep, User, Completion, CheckFailure, Assign,
     StartThread, StopBrowser, JoinStorage, CloseEnds, Select, Close,
     Callback, CallbackThreadEnds
<1>3. ASSUME NEW b \in Browsers, ThreadStep(b), NEW v \in 1..Len(crawl)
      PROVE  \/ ok_rows'[v] = ok_rows[v]
             \/ /\ ok_rows'[v] = ok_rows[v] + 1
                /\ v \in Visits /\ curr_visit_id[b] = v
  <2>1. CASE Record(b)
    <3>1. \/ UNCHANGED ok_rows
          \/ ok_rows' = [ok_rows EXCEPT
               ![curr_visit_id[b]] =
                 IF reply[b].result = "ok" THEN @ + 1 ELSE @]
      BY <2>1 DEF Record
    <3>2. curr_visit_id[b] \in Visits
      <4>1. curr_visit_id[b] \in 0..visits /\ curr_visit_id[b] # 0
        BY <1>3, ThreadIsAlive, Types DEF ThreadTypes, BrowserInv
      <4> QED  BY <4>1, Lengths DEF Visits
    <3> QED  BY <3>1, <3>2, Types DEF VisitTypes
  <2>2. CASE \/ Begin(b) \/ Send(b) \/ Await(b) \/ Count(b) \/ Limit(b)
             \/ ResetCount(b) \/ Flag(b) \/ Abandon(b) \/ Drain(b)
    BY <2>2 DEF Begin, Send, Await, Count, Limit, ResetCount, Flag,
       Abandon, Drain
  <2>3. CASE \/ Signal(b) \/ AwaitClosed(b) \/ JoinProcess(b) \/ Launch(b)
             \/ SpawnFails(b) \/ LaunchRaises(b) \/ Relaunched(b)
    BY <2>3 DEF Signal, AwaitClosed, JoinProcess, Launch, SpawnFails,
       LaunchRaises, Relaunched
  <2> QED  BY <1>3, <2>1, <2>2, <2>3 DEF ThreadStep
<1>4. CASE UNCHANGED vars
  BY <1>1, <1>4 DEF vars
<1> QED  BY <1>1, <1>2, <1>3, <1>4, NextSteps, EnvironmentFrame

\* A status that is set stays set.
LEMMA StatusStays ==
  ASSUME TypeOK, [Next]_vars, failure_status # "none"
  PROVE  failure_status' # "none"
<1>1. CASE UNCHANGED failure_status
  BY <1>1
<1>2. CASE MainStep \/ User \/ Completion
  BY <1>1, <1>2 DEF MainStep, User, Completion, CheckFailure, Assign,
     StartThread, StopBrowser, JoinStorage, CloseEnds, Select, Close,
     Callback, CallbackThreadEnds, failures
<1>3. ASSUME NEW b \in Browsers, ThreadStep(b)
      PROVE  failure_status' # "none"
  <2>1. CASE Await(b)
    BY <2>1 DEF Await
  <2>2. CASE Limit(b) \/ SpawnFails(b)
    BY <2>2 DEF Limit, SpawnFails
  <2>3. CASE \/ Begin(b) \/ Send(b) \/ Record(b) \/ Count(b) \/ ResetCount(b)
             \/ Flag(b) \/ Abandon(b) \/ Drain(b)
    BY <2>3 DEF Begin, Send, Record, Count, ResetCount, Flag, Abandon,
       Drain, failures
  <2>4. CASE \/ Signal(b) \/ AwaitClosed(b) \/ JoinProcess(b) \/ Launch(b)
             \/ LaunchRaises(b) \/ Relaunched(b)
    BY <2>4 DEF Signal, AwaitClosed, JoinProcess, Launch, LaunchRaises,
       Relaunched, failures
  <2> QED  BY <1>3, <2>1, <2>2, <2>3, <2>4 DEF ThreadStep
<1>4. CASE UNCHANGED vars
  BY <1>1, <1>4 DEF vars, failures
<1> QED  BY <1>1, <1>2, <1>3, <1>4, NextSteps, EnvironmentFrame DEF failures

----------------------------------------------------------------------------
(* The other conjuncts. *)

LEMMA NextBrowsers ==
  ASSUME IInv, [Next]_vars
  PROVE  \A b \in Browsers : BrowserInv(b)'
<1>1. TypeOK /\ ManagerInv /\ VisitsInv /\ \A b \in Browsers : BrowserInv(b)
  BY DEF IInv
<1>2. CASE UNCHANGED vars
  BY <1>1, <1>2, Unaffected DEF vars, manager, failures, Doomed
<1>3. ASSUME NEW b \in Browsers, ThreadStep(b), NEW c \in Browsers
      PROVE  BrowserInv(c)'
  BY <1>1, <1>3, ThreadStepOthers, ThreadStepOwn, OthersKeep
<1> QED  BY <1>1, <1>2, <1>3, NextSteps, ManagerBrowsers, EnvironmentBrowsers,
            ProcessBrowsers DEF Environment

LEMMA NextVisits ==
  ASSUME IInv, [Next]_vars
  PROVE  VisitsInv'
<1>1. TypeOK /\ VisitsInv /\ \A b \in Browsers : BrowserInv(b)
  BY DEF IInv
<1>2. /\ visits \in Nat /\ Len(crawl) \in Nat
      /\ curr_visit_id \in [Browsers -> 0..visits]
  BY <1>1, Lengths, Types DEF ThreadTypes
<1>3. CASE UNCHANGED <<crawl, visits, curr_visit_id>>
  <2>1. \A v \in 1..Len(crawl) : v > visits => ok_rows'[v] = ok_rows[v]
    BY <1>1, <1>2, RowsGrow DEF Visits
  <2> QED  BY <1>1, <1>3, <2>1 DEF VisitsInv
<1>4. CASE Assign
  <2>1. /\ UNCHANGED <<crawl, ok_rows>> /\ visits' = visits + 1
        /\ curr_visit_id' = [curr_visit_id EXCEPT ![target] = visits + 1]
    BY <1>4 DEF Assign
  <2>2. \A v \in 1..Len(crawl') : v > visits' => ok_rows'[v] = 0
    BY <1>1, <1>2, <2>1 DEF VisitsInv
  <2>3. ASSUME NEW b \in Browsers, NEW c \in Browsers,
               curr_visit_id'[b] = curr_visit_id'[c], curr_visit_id'[b] # 0
        PROVE  b = c
    <3>1. visits + 1 \notin 0..visits
      BY <1>2
    <3> QED  BY <1>1, <1>2, <2>1, <2>3, <3>1 DEF VisitsInv
  <2> QED  BY <2>2, <2>3 DEF VisitsInv
<1>5. CASE MainStep \/ User \/ Completion
  BY <1>3, <1>4, <1>5 DEF MainStep, User, Completion, CheckFailure,
     StartThread, StopBrowser, JoinStorage, CloseEnds, Select, Close,
     Callback, CallbackThreadEnds, manager
<1>6. CASE UNCHANGED vars
  BY <1>3, <1>6 DEF vars, manager
<1> QED  BY <1>3, <1>5, <1>6, NextSteps, ThreadFrame, EnvironmentFrame
            DEF manager

LEMMA NextManager ==
  ASSUME IInv, [Next]_vars
  PROVE  ManagerInv'
<1>1. /\ TypeOK /\ ManagerInv /\ VisitsInv
      /\ \A b \in Browsers : BrowserInv(b)
  BY DEF IInv
<1>2. /\ target \in Browsers /\ visits \in Nat /\ visits <= Len(crawl)
      /\ Len(crawl) \in Nat
      /\ ThreadTypes /\ ProcessTypes
  BY <1>1, Lengths, Types DEF MainTypes
<1>3. ASSUME UNCHANGED manager,
             main \in {"check", "assign", "start"} =>
               UNCHANGED <<thread[target], curr_visit_id[target]>>,
             main \in {"assign", "start"} => Clean(target)',
             main = "start" => ok_rows'[visits] = ok_rows[visits]
      PROVE  ManagerInv'
  BY <1>1, <1>3 DEF ManagerInv, manager, Ready, Alive
<1>4. CASE MainStep
  <2>1. CASE CheckFailure
    <3>1. main = "check" => Clean(target) \/ Doomed
      BY <1>1, <1>2, <2>1 DEF ManagerInv, BrowserInv, Place, Ready, Alive
    <3>2. /\ UNCHANGED <<thread, procs, visits, crawl, sock_open, ok_rows,
                         curr_visit_id>>
          /\ \/ /\ failure_status # "none" /\ main' = "stopping"
                /\ closing' = TRUE
             \/ /\ failure_status = "none" /\ UNCHANGED <<closing, target>>
                /\ main' = IF main = "check" THEN "assign" ELSE "ready"
          /\ main \in {"check", "recheck"}
      BY <2>1 DEF CheckFailure, StartClosing, threads
    <3>3. UNCHANGED target => (Clean(target)' <=> Clean(target))
                              /\ (Ready(target)' <=> Ready(target))
      BY <3>2 DEF Clean, Fresh, procs, Ready, Alive
    <3> QED  BY <1>1, <3>1, <3>2, <3>3 DEF ManagerInv, Doomed
  <2>2. CASE Assign
    <3>1. Ready(target) /\ Clean(target) /\ ok_rows[visits + 1] = 0
      BY <1>1, <1>2, <2>2 DEF ManagerInv, Assign, VisitsInv
    <3>2. Ready(target)' /\ Clean(target)'
      BY <2>2, <3>1 DEF Assign, Clean, Fresh, Ready, Alive, procs, threads
    <3>3. /\ visits' # 0 /\ curr_visit_id'[target'] = visits'
          /\ ok_rows'[visits'] = 0
      BY <1>2, <2>2, <3>1 DEF Assign, ThreadTypes
    <3> QED  BY <1>1, <2>2, <3>2, <3>3 DEF Assign, ManagerInv
  <2>3. CASE StartThread
    BY <1>1, <2>3 DEF StartThread, ManagerInv
  <2>4. CASE StopBrowser
    BY <1>1, <2>4 DEF StopBrowser, ManagerInv
  <2>5. CASE JoinStorage \/ CloseEnds
    <3>1. /\ main \in {"storage", "callbacks"}
          /\ main' \in {"callbacks", "over"} /\ UNCHANGED <<closing, sock_open>>
      BY <2>5 DEF JoinStorage, CloseEnds
    <3> QED  BY <1>1, <3>1 DEF ManagerInv
  <2> QED  BY <1>4, <2>1, <2>2, <2>3, <2>4, <2>5 DEF MainStep
<1>5. ASSUME NEW b \in Browsers, Select(b) PROVE ManagerInv'
  <2>1. Ready(b) /\ visits < Len(crawl) /\ main' = "check" /\ target' = b
        /\ UNCHANGED <<thread, visits, crawl, closing, sock_open>>
    BY <1>5 DEF Select, threads
  <2> QED  BY <1>1, <1>5, <2>1 DEF Select, ManagerInv, Ready, Alive
<1>6. ASSUME NEW mode \in CloseModes, Close(mode) PROVE ManagerInv'
  BY <1>1, <1>6 DEF Close, StartClosing, ManagerInv
<1>7. CASE Completion \/ UNCHANGED vars
  <2>1. UNCHANGED <<manager, thread, curr_visit_id, procs, ok_rows>>
    BY <1>7 DEF Completion, Callback, CallbackThreadEnds, vars, threads
  <2>2. Clean(target)' <=> Clean(target)
    BY <2>1 DEF Clean, Fresh, procs, manager
  <2> QED  BY <1>1, <1>3, <2>1, <2>2 DEF ManagerInv, manager
<1>8. ASSUME NEW b \in Browsers, ThreadStep(b) PROVE ManagerInv'
  <2>1. UNCHANGED manager /\ UNCHANGED curr_visit_id
    BY <1>8, ThreadFrame
  <2>2. CASE main \notin {"check", "assign", "start"}
    BY <1>3, <2>1, <2>2
  <2>3. CASE main \in {"check", "assign", "start"}
    <3>1. target # b
      BY <1>1, <1>8, <2>3, ThreadIsAlive DEF ManagerInv, Ready
    <3>2. Others(target)
      BY <1>1, <1>2, <1>8, <3>1, ThreadStepOthers
    <3>3. Clean(target)' <=> Clean(target)
      BY <2>1, <3>2 DEF Others, Clean, Fresh, manager
    <3>4. main = "start" => ok_rows'[visits] = ok_rows[visits]
      BY <1>1, <2>1, <3>2 DEF ManagerInv, Others
    <3> QED  BY <1>1, <1>3, <2>1, <3>2, <3>3, <3>4
                DEF ManagerInv, Others, manager
  <2> QED  BY <2>2, <2>3
<1>9. CASE \/ Handlers \/ StorageEnds
           \/ \E b \in Browsers : Environment(b)
  <2>1. UNCHANGED <<manager, thread, curr_visit_id, ok_rows, tainted>>
    BY <1>9, EnvironmentFrame DEF threads
  <2>2. ASSUME Clean(target) PROVE Clean(target)'
    <3>1. CASE Handlers \/ StorageEnds
      BY <2>1, <2>2, <3>1, ControllerFrame DEF Clean, Fresh, procs, manager
    <3>2. ASSUME NEW b \in Browsers, Environment(b) PROVE Clean(target)'
      <4>1. CASE ExtensionFinalizes(b) \/ Watchdog(b)
        BY <2>1, <2>2, <4>1 DEF ExtensionFinalizes, Watchdog, Clean, Fresh,
           procs, manager
      <4>2. CASE Execute(b) \/ Quit(b)
        <5>1. b # target
          BY <2>2, <4>2 DEF Execute, Quit, Clean
        <5>2. UNCHANGED <<process[target], command_queue[target],
                          status_queue[target]>>
          BY <1>2, <2>1, <4>2, <5>1
             DEF Execute, Quit, Dies, ProcessTypes, manager
        <5> QED  BY <2>1, <2>2, <5>2 DEF Clean, Fresh, manager
      <4> QED  BY <3>2, <4>1, <4>2 DEF Environment
    <3> QED  BY <1>9, <3>1, <3>2
  <2> QED  BY <1>1, <1>3, <2>1, <2>2 DEF ManagerInv, manager
<1> QED  BY <1>4, <1>5, <1>6, <1>7, <1>8, <1>9, NextSteps DEF User

LEMMA NextLate ==
  ASSUME IInv, [Next]_vars
  PROVE  LateInv'
<1>1. TypeOK /\ LateInv /\ late \in Nat
  BY Types DEF IInv, MainTypes
<1>2. failure_status # "none" => failure_status' # "none"
  BY <1>1, StatusStays
<1>3. CASE late' = late /\ (main' = main \/ main' # "assign")
  BY <1>1, <1>2, <1>3 DEF LateInv
<1>4. CASE MainStep
  <2>1. CASE Assign
    BY <1>1, <2>1 DEF Assign, LateInv, failures
  <2>2. CASE CheckFailure
    BY <1>1, <2>2 DEF CheckFailure, StartClosing, LateInv, failures
  <2>3. CASE StartThread \/ StopBrowser \/ JoinStorage \/ CloseEnds
    BY <1>3, <2>3 DEF StartThread, StopBrowser, JoinStorage, CloseEnds
  <2> QED  BY <1>4, <2>1, <2>2, <2>3 DEF MainStep
<1>5. CASE User \/ Completion \/ UNCHANGED vars
  BY <1>3, <1>5 DEF User, Select, Close, StartClosing, Completion, Callback,
     CallbackThreadEnds, vars, manager
<1> QED  BY <1>3, <1>4, <1>5, NextSteps, ThreadFrame, EnvironmentFrame
            DEF manager

LEMMA NextStopped ==
  ASSUME IInv, [Next]_vars
  PROVE  StoppedInv'
<1>1. TypeOK /\ ManagerInv /\ StoppedInv
  BY DEF IInv
<1>2. /\ ThreadTypes /\ ProcessTypes /\ target \in Browsers
      /\ NumBrowsers \in Nat
  BY <1>1, Types, Numbers DEF MainTypes
<1>3. ASSUME UNCHANGED <<closing, relaxed, target>>,
             (main # "stopping" /\ main' # "stopping") \/ main' = main,
             \A b \in Browsers : Ready(b) /\ process[b] = "dead" =>
               Ready(b)' /\ process'[b] = "dead"
      PROVE  StoppedInv'
  BY <1>1, <1>3 DEF StoppedInv
<1>4. ASSUME UNCHANGED <<thread, process>>
      PROVE  \A b \in Browsers : Ready(b)' = Ready(b)
                                 /\ process'[b] = process[b]
  BY <1>4 DEF Ready, Alive
<1>5. CASE MainStep
  <2>1. CASE StopBrowser
    <3>1. /\ main = "stopping" /\ (relaxed => Ready(target))
          /\ process' = [process EXCEPT ![target] = "dead"]
          /\ UNCHANGED <<closing, relaxed, thread>>
          /\ \/ target = NumBrowsers /\ main' = "storage"
             \/ target' = target + 1 /\ main' = "stopping"
      BY <2>1 DEF StopBrowser, Dies, Last, threads
    <3>2. \A b \in Browsers : b \in Nat /\ b <= NumBrowsers
      BY <1>2 DEF Browsers
    <3>3. ASSUME closing, relaxed, NEW b \in Browsers,
                 main' # "stopping" \/ b < target'
          PROVE  Ready(b)' /\ process'[b] = "dead"
      <4>1. b = target \/ b < target
        BY <1>2, <3>1, <3>2, <3>3
      <4>2. Ready(b) /\ (b = target \/ process[b] = "dead")
        BY <1>1, <3>1, <3>3, <4>1 DEF StoppedInv
      <4> QED  BY <1>2, <3>1, <4>2 DEF ProcessTypes, Ready, Alive
    <3> QED  BY <3>1, <3>3 DEF StoppedInv
  <2>2. CASE CheckFailure
    <3>1. CASE failure_status # "none"
      <4>1. main' = "stopping" /\ target' = 1
        BY <2>2, <3>1 DEF CheckFailure, StartClosing
      <4>2. \A b \in Browsers : ~(b < 1)
        BY <1>2 DEF Browsers
      <4> QED  BY <4>1, <4>2 DEF StoppedInv
    <3>2. CASE failure_status = "none"
      <4>1. closing' = FALSE
        BY <1>1, <2>2, <3>2 DEF CheckFailure, ManagerInv
      <4> QED  BY <4>1 DEF StoppedInv
    <3> QED  BY <3>1, <3>2
  <2>3. CASE Assign \/ StartThread
    <3>1. closing' = FALSE
      BY <1>1, <2>3 DEF Assign, StartThread, ManagerInv
    <3> QED  BY <3>1 DEF StoppedInv
  <2>4. CASE JoinStorage \/ CloseEnds
    <3>1. UNCHANGED <<thread, process, closing, relaxed, target>>
          /\ main # "stopping" /\ main' # "stopping"
      BY <2>4 DEF JoinStorage, CloseEnds, threads, procs
    <3> QED  BY <1>3, <1>4, <3>1
  <2> QED  BY <1>5, <2>1, <2>2, <2>3, <2>4 DEF MainStep
<1>6. ASSUME NEW b \in Browsers, Select(b) PROVE StoppedInv'
  <2>1. closing' = FALSE
    BY <1>1, <1>6 DEF Select, ManagerInv
  <2> QED  BY <2>1 DEF StoppedInv
<1>7. ASSUME NEW mode \in CloseModes, Close(mode) PROVE StoppedInv'
  <2>1. main' = "stopping" /\ target' = 1
    BY <1>7 DEF Close, StartClosing
  <2>2. \A b \in Browsers : ~(b < 1)
    BY <1>2 DEF Browsers
  <2> QED  BY <2>1, <2>2 DEF StoppedInv
<1>8. CASE Completion \/ UNCHANGED vars
  <2>1. UNCHANGED <<thread, process, closing, relaxed, target, main>>
    BY <1>8 DEF Completion, Callback, CallbackThreadEnds, vars, threads, procs,
       manager
  <2> QED  BY <1>3, <1>4, <2>1
<1>9. ASSUME NEW b \in Browsers, ThreadStep(b) PROVE StoppedInv'
  <2>1. UNCHANGED <<closing, relaxed, target, main>> /\ ~Ready(b)
    BY <1>9, ThreadFrame, ThreadIsAlive DEF manager, Ready
  <2>2. \A c \in Browsers : c # b => Others(c)
    BY <1>9, ThreadStepOthers DEF IInv
  <2>3. ASSUME NEW c \in Browsers, Ready(c), process[c] = "dead"
        PROVE  Ready(c)' /\ process'[c] = "dead"
    BY <2>1, <2>2, <2>3 DEF Others, Ready, Alive
  <2> QED  BY <1>3, <2>1, <2>3
<1>10. CASE \/ Handlers \/ StorageEnds
            \/ \E b \in Browsers : Environment(b)
  <2>1. UNCHANGED <<thread, closing, relaxed, target, main>>
    BY <1>10, EnvironmentFrame DEF manager, threads
  <2>2. \A c \in Browsers : process[c] = "dead" => process'[c] = "dead"
    <3>1. CASE Handlers \/ StorageEnds
      BY <3>1, ControllerFrame DEF procs
    <3>2. ASSUME NEW b \in Browsers, Environment(b), NEW c \in Browsers,
                 process[c] = "dead"
          PROVE  process'[c] = "dead"
      <4>1. CASE ExtensionFinalizes(b) \/ Watchdog(b)
        BY <3>2, <4>1 DEF ExtensionFinalizes, Watchdog, procs
      <4>2. CASE Execute(b) \/ Quit(b)
        BY <1>2, <3>2, <4>2 DEF Execute, Quit, Dies, ProcessTypes
      <4> QED  BY <3>2, <4>1, <4>2 DEF Environment
    <3> QED  BY <1>10, <3>1, <3>2
  <2>3. \A b \in Browsers : Ready(b)' = Ready(b)
    BY <2>1 DEF Ready, Alive
  <2> QED  BY <1>3, <2>1, <2>2, <2>3
<1> QED  BY <1>5, <1>6, <1>7, <1>8, <1>9, <1>10, NextSteps DEF User

LEMMA NextCallbacks ==
  ASSUME IInv, [Next]_vars
  PROVE  CallbackInv'
<1>1. TypeOK /\ ManagerInv /\ CallbackInv
  BY DEF IInv
<1>2. /\ VisitTypes /\ visits \in Nat /\ visits <= Len(crawl)
      /\ Len(crawl) \in Nat
  BY <1>1, Types, Lengths
<1>3. ASSUME UNCHANGED <<called, unsaved, visits, crawl, callback_thread>>,
             closing => closing',
             main' = "over" => main = "over" \/ callback_thread = "ended"
      PROVE  CallbackInv'
  BY <1>1, <1>3 DEF CallbackInv, Called, Visits
<1>4. CASE Callback
  <2> DEFINE r == Head(completion_queue)
  <2>1. /\ UNCHANGED <<visits, crawl, callback_thread, closing, main>>
        /\ unsaved' = unsaved \ {r.visit}
        /\ called' = IF r.visit \in unsaved THEN Append(called, r) ELSE called
        /\ callback_thread = "polling"
    BY <1>4 DEF Callback, manager
  <2> HIDE DEF r
  <2>2. CASE r.visit \notin unsaved
    BY <1>1, <2>1, <2>2 DEF CallbackInv, Called, Visits
  <2>3. CASE r.visit \in unsaved
    <3>1. /\ called' = Append(called, r) /\ Len(called) \in Nat
          /\ Len(called') = Len(called) + 1
          /\ called'[Len(called) + 1] = r
          /\ \A i \in 1..Len(called) : called'[i] = called[i]
      <4>1. r \in Verdicts
        <5>1. completion_queue \in Seq(Verdicts) /\ completion_queue # <<>>
          BY <1>2, <1>4 DEF VisitTypes, Callback
        <5> QED  BY <5>1 DEF r
      <4>2. called \in Seq(Verdicts)
        BY <1>2 DEF VisitTypes
      <4> QED  BY <2>1, <2>3, <4>1, <4>2, AppendProperties
    <3>2. \A i \in 1..Len(called') : i \in 1..Len(called) \/ i = Len(called) + 1
      BY <3>1
    <3>3. /\ 1..Len(called) \subseteq 1..Len(called')
          /\ Len(called) + 1 \in 1..Len(called')
      BY <3>1
    <3>4. Called' = Called \cup {r.visit}
      BY <3>1, <3>2, <3>3 DEF Called
    <3>5. r.visit \notin Called
      BY <1>1, <2>3 DEF CallbackInv
    <3>6. ASSUME NEW i \in 1..Len(called'), NEW j \in 1..Len(called'),
                 called'[i].visit = called'[j].visit
          PROVE  i = j
      BY <1>1, <3>1, <3>2, <3>5, <3>6 DEF CallbackInv, Called
    <3>7. Called' \cap unsaved' = {} /\ Called' \cup unsaved' = Called \cup unsaved
      BY <1>1, <2>1, <2>3, <3>4, <3>5 DEF CallbackInv
    <3> QED  BY <1>1, <2>1, <3>6, <3>7 DEF CallbackInv, Visits
  <2> QED  BY <2>2, <2>3
<1>5. CASE CallbackThreadEnds
  BY <1>1, <1>5 DEF CallbackThreadEnds, CallbackInv, Called, Visits, manager
<1>6. CASE Assign
  <2>1. /\ UNCHANGED <<called, crawl, callback_thread, closing>>
        /\ visits' = visits + 1 /\ ~closing /\ main' = "start"
        /\ unsaved' = IF crawl[visits + 1].callback
                      THEN unsaved \cup {visits + 1} ELSE unsaved
    BY <1>1, <1>6 DEF Assign, ManagerInv
  <2>2. /\ Visits' = Visits \cup {visits + 1} /\ visits + 1 \notin Visits
        /\ crawl[visits + 1].callback \in BOOLEAN
    <3>1. visits + 1 \in 1..Len(crawl)
      BY <1>1, <1>2, <1>6 DEF Assign, ManagerInv
    <3>2. crawl[visits + 1] \in Job
      BY <1>1, <3>1, Types DEF CrawlTypes
    <3> QED  BY <1>2, <2>1, <3>2 DEF Visits, Job
  <2>3. visits + 1 \notin Called /\ Called' = Called
    BY <1>1, <2>1, <2>2 DEF CallbackInv, Called
  <2>4. Called' \cup unsaved' = {v \in Visits' : crawl'[v].callback}
    BY <1>1, <2>1, <2>2, <2>3 DEF CallbackInv
  <2> QED  BY <1>1, <2>1, <2>3, <2>4 DEF CallbackInv
<1>7. CASE MainStep
  BY <1>3, <1>6, <1>7 DEF MainStep, CheckFailure, StartClosing, StartThread,
     StopBrowser, JoinStorage, CloseEnds, done
<1>8. CASE User \/ UNCHANGED vars
  BY <1>3, <1>8 DEF User, Select, Close, StartClosing, vars, manager, done
<1> QED  BY <1>3, <1>4, <1>5, <1>7, <1>8, NextSteps, ThreadFrame,
            EnvironmentFrame DEF Completion, manager, done

LEMMA NextOverlap ==
  ASSUME IInv, [Next]_vars
  PROVE  OneProcess'
<1>1. ~overlap /\ \A b \in Browsers : Place(b)
  BY DEF IInv, OneProcess, BrowserInv
<1>2. CASE UNCHANGED overlap
  BY <1>1, <1>2 DEF OneProcess
<1>3. CASE MainStep \/ User \/ Completion
  BY <1>2, <1>3 DEF MainStep, User, Completion, CheckFailure, Assign,
     StartThread, StopBrowser, JoinStorage, CloseEnds, Select, Close,
     Callback, CallbackThreadEnds, procs
<1>4. ASSUME NEW b \in Browsers, ThreadStep(b)
      PROVE  OneProcess'
  <2>1. CASE Launch(b) \/ SpawnFails(b) \/ LaunchRaises(b)
    <3>1. process[b] = "dead"
      BY <1>1, <2>1 DEF Launch, SpawnFails, LaunchRaises, Place
    <3>2. overlap' = (overlap \/ process[b] = "running")
      BY <2>1 DEF Launch, SpawnFails, LaunchRaises
    <3> QED  BY <1>1, <3>1, <3>2 DEF OneProcess
  <2>2. CASE \/ Begin(b) \/ Send(b) \/ Await(b) \/ Record(b) \/ Count(b)
             \/ Limit(b) \/ ResetCount(b)
    BY <1>2, <2>2 DEF Begin, Send, Await, Record, Count, Limit, ResetCount,
       procs
  <2>3. CASE \/ Flag(b) \/ Abandon(b) \/ Drain(b) \/ Signal(b)
             \/ AwaitClosed(b) \/ JoinProcess(b) \/ Relaunched(b)
    BY <1>2, <2>3 DEF Flag, Abandon, Drain, Signal, AwaitClosed, JoinProcess,
       Relaunched, procs
  <2> QED  BY <1>4, <2>1, <2>2, <2>3 DEF ThreadStep
<1>5. CASE UNCHANGED vars
  BY <1>2, <1>5 DEF vars, procs
<1> QED  BY <1>2, <1>3, <1>4, <1>5, NextSteps, EnvironmentFrame

LEMMA NextSuccess ==
  ASSUME IInv, [Next]_vars
  PROVE  NoFalseSuccess'
<1>1. /\ TypeOK /\ NoFalseSuccess /\ \A b \in Browsers : BrowserInv(b)
      /\ NumCommands \in Nat
  BY Numbers DEF IInv
<1>2. /\ finalized \subseteq Verdicts
      /\ \A v \in 1..Len(crawl) : ok_rows[v] \in Nat
  BY <1>1, Types DEF VisitTypes
<1>3. \A v \in 1..Len(crawl) : ok_rows'[v] \in {ok_rows[v], ok_rows[v] + 1}
  BY <1>1, RowsGrow
<1>4. \A m \in finalized : m.success => ok_rows'[m.visit] >= NumCommands - 1
  BY <1>1, <1>2, <1>3 DEF NoFalseSuccess, Verdicts
<1>5. CASE UNCHANGED finalized
  BY <1>4, <1>5 DEF NoFalseSuccess
<1>6. ASSUME NEW b \in Browsers, ExtensionFinalizes(b)
      PROVE  NoFalseSuccess'
  <2>1. /\ finalized' = finalized \cup {Verdict(to_extension[b], TRUE)}
        /\ ok_rows'[to_extension[b]] >= NumCommands - 1
    BY <1>1, <1>6 DEF ExtensionFinalizes, SendFinalize, BrowserInv
  <2> QED  BY <1>4, <2>1 DEF NoFalseSuccess, Verdict
<1>7. ASSUME NEW b \in Browsers, ThreadStep(b)
      PROVE  NoFalseSuccess'
  <2>1. CASE Abandon(b)
    <3>1. \/ UNCHANGED finalized
          \/ finalized' = finalized \cup {Verdict(curr_visit_id[b], FALSE)}
      BY <2>1 DEF Abandon, SendFinalize, sending
    <3> QED  BY <1>4, <1>5, <3>1 DEF NoFalseSuccess, Verdict
  <2>2. CASE \/ Begin(b) \/ Send(b) \/ Await(b) \/ Record(b) \/ Count(b)
             \/ Limit(b) \/ ResetCount(b) \/ Flag(b)
    BY <1>5, <2>2 DEF Begin, Send, Await, Record, Count, Limit, ResetCount,
       Flag, storage, sending, receiving
  <2>3. CASE \/ Drain(b) \/ Signal(b) \/ AwaitClosed(b) \/ JoinProcess(b)
             \/ Launch(b) \/ SpawnFails(b) \/ LaunchRaises(b)
             \/ Relaunched(b)
    BY <1>5, <2>3 DEF Drain, Signal, AwaitClosed, JoinProcess, Launch,
       SpawnFails, LaunchRaises, Relaunched, storage, sending, receiving
  <2> QED  BY <1>7, <2>1, <2>2, <2>3 DEF ThreadStep
<1>8. CASE MainStep \/ User \/ Completion \/ UNCHANGED vars
  BY <1>5, <1>8 DEF MainStep, User, Completion, CheckFailure, Assign,
     StartThread, StopBrowser, JoinStorage, CloseEnds, Select, Close,
     Callback, CallbackThreadEnds, storage, sending, receiving, vars
<1>9. CASE \/ Handlers \/ StorageEnds
           \/ \E b \in Browsers : Execute(b) \/ Quit(b) \/ Watchdog(b)
  BY <1>5, <1>9, ControllerFrame
     DEF Execute, Quit, Watchdog, storage, sending, receiving
<1> QED  BY <1>6, <1>7, <1>8, <1>9, NextSteps DEF Environment

----------------------------------------------------------------------------
(* The theorems. *)

LEMMA InitIInv == Init => IInv
<1> SUFFICES ASSUME Init PROVE IInv
  OBVIOUS
<1>1. /\ crawl \in Seq(Job) /\ Len(crawl) \in Nat
      /\ 1 \in 1..NumCommands /\ 0 \in 0..NumCommands
      /\ 0 \in 0..SpawnLimit /\ 1 \in Browsers /\ 0 \in 0..Len(crawl)
  <2>1. crawl \in Seq(Job)
    BY CrawlsAssumption DEF Init
  <2>2. Len(crawl) \in Nat
    BY <2>1
  <2> QED  BY <2>1, <2>2, Numbers DEF Browsers
<1>2. CrawlTypes /\ MainTypes
  BY <1>1 DEF Init, CrawlTypes, MainTypes
<1>3. VisitTypes
  BY <1>1 DEF Init, VisitTypes
<1>4. ThreadTypes
  <2>1. Reply(Shutdown, "ok") \in Replies
    BY <1>1 DEF Reply, Shutdown, Replies, Results
  <2> QED  BY <1>1, <2>1 DEF Init, ThreadTypes, ThreadPlaces
<1>5. ProcessTypes
  BY <1>1 DEF Init, ProcessTypes
<1>6. TypeOK
  BY <1>2, <1>3, <1>4, <1>5, Types
<1>7. ASSUME NEW b \in Browsers
      PROVE  BrowserInv(b)
  <2>1. /\ thread[b] = "none" /\ tainted[b] = 0 /\ command_queue[b] = <<>>
        /\ status_queue[b] = <<>> /\ to_extension[b] = 0
    BY DEF Init
  <2> QED  BY <2>1 DEF BrowserInv, Place, Clean, Fresh, Alive
<1>8. VisitsInv /\ ManagerInv /\ LateInv /\ StoppedInv
  BY <1>1 DEF Init, VisitsInv, ManagerInv, LateInv, StoppedInv
<1>9. CallbackInv
  BY DEF Init, CallbackInv, Called, Visits
<1>10. OneProcess /\ NoFalseSuccess
  BY DEF Init, OneProcess, NoFalseSuccess
<1> QED  BY <1>6, <1>7, <1>8, <1>9, <1>10 DEF IInv

LEMMA NextIInv == IInv /\ [Next]_vars => IInv'
<1> SUFFICES ASSUME IInv, [Next]_vars PROVE IInv'
  OBVIOUS
<1>1. TypeOK'
  BY NextType DEF IInv
<1> QED  BY <1>1, NextBrowsers, NextVisits, NextManager, NextLate,
            NextStopped, NextCallbacks, NextOverlap, NextSuccess DEF IInv

LEMMA SpecIInv == Spec => []IInv
BY InitIInv, NextIInv, PTL DEF Spec

\* Every variable of the task manager, its threads and processes keeps its
\* type, for any number of browsers, commands and visits.
THEOREM TypeCorrect == Spec => []TypeOK
<1>1. IInv => TypeOK
  BY DEF IInv
<1> QED  BY <1>1, SpecIInv, PTL

\* restart_browser_manager never launches a second process beside a live one.
THEOREM OneProcessAlways == Spec => []OneProcess
<1>1. IInv => OneProcess
  BY DEF IInv
<1> QED  BY <1>1, SpecIInv, PTL

\* The reply that is recorded for a command is the answer to this command,
\* however late the answers to earlier ones came.
THEOREM ReplyAlwaysOwn == Spec => []ReplyIsOwn
<1>1. IInv => ReplyIsOwn
  BY DEF IInv, BrowserInv, Place, ReplyIsOwn
<1> QED  BY <1>1, SpecIInv, PTL

\* A visit is finalized as a success only if every command before its
\* FinalizeCommand was recorded as "ok".
THEOREM NeverFalseSuccess == Spec => []NoFalseSuccess
<1>1. IInv => NoFalseSuccess
  BY DEF IInv
<1> QED  BY <1>1, SpecIInv, PTL

\* A process in which a visit failed works for no other visit.
THEOREM FailedBrowserAlwaysRetired == Spec => []FailedBrowserRetired
<1>1. IInv => FailedBrowserRetired
  BY DEF IInv, BrowserInv, Fresh, Own, Shutdown, FailedBrowserRetired
<1> QED  BY <1>1, SpecIInv, PTL

\* After failure_status is set at most one more visit starts.
THEOREM FailureAlwaysStopsCrawl == Spec => []FailureStopsCrawl
<1>1. IInv => FailureStopsCrawl
  BY DEF IInv, LateInv, FailureStopsCrawl
<1> QED  BY <1>1, SpecIInv, PTL

\* When a relaxed close() has closed the socket to the storage controller, no
\* command thread and no browser process is left.
THEOREM CloseAlwaysOrderly == Spec => []OrderlyClose
<1>1. IInv => OrderlyClose
  BY DEF IInv, ManagerInv, StoppedInv, OrderlyClose
<1> QED  BY <1>1, SpecIInv, PTL

\* When close() returns, each sequence with a callback was called back exactly
\* once.
THEOREM CallbacksAlwaysOnce == Spec => []CallbacksOnce
<1>1. IInv => CallbacksOnce
  BY DEF IInv, CallbackInv, Called, CallbacksOnce
<1> QED  BY <1>1, SpecIInv, PTL
=============================================================================
