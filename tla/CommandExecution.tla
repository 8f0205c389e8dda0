-------------------------- MODULE CommandExecution --------------------------
(***************************************************************************)
(* How the task manager executes command sequences                         *)
(* (openwpm/task_manager.py, openwpm/browser_manager.py).                  *)
(*                                                                         *)
(* The main thread hands every command sequence to a browser whose command *)
(* thread is over.  The command thread sends the commands of the visit one *)
(* by one to the browser manager process, waits for each reply up to a     *)
(* timeout, and restarts the process after a failure.  A watchdog thread   *)
(* may ask for a restart at any time.  A completion thread calls back the  *)
(* user for every visit that the storage controller reports.  close() ends *)
(* all of it.                                                              *)
(*                                                                         *)
(* A step of a thread is what it does between two accesses to state that   *)
(* another thread or process may change.  Of the storage controller there  *)
(* is only what the task manager notices (module StorageController has the *)
(* rest): its handlers read the Finalize messages of each connection in    *)
(* order and each is reported, unless the handler dies; what nobody        *)
(* finalized is reported at its shutdown by Arrow and not by SQLite.       *)
(*                                                                         *)
(* Definitions marked "Variant:" are defective versions of the definition  *)
(* that follows them.  No specification uses them: the model checker swaps *)
(* them in to show that a property notices the defect.                     *)
(***************************************************************************)
EXTENDS Naturals, Sequences, FiniteSets

CONSTANTS
  NumBrowsers,      \* num_browsers
  NumCommands,      \* commands of a visit: InitializeCommand is the first,
                    \* FinalizeCommand the last
  FailureLimit,     \* failure_limit
  SpawnLimit,       \* _UNSUCCESSFUL_SPAWN_LIMIT
  Crawls,           \* what the user executes: sequences of Job
  CloseModes,       \* values the user passes to close(relaxed)
  MemoryWatchdog,   \* memory_watchdog
  ReportsLeftovers, \* whether the storage provider reports, at shutdown, the
                    \* visits nobody finalized: Arrow does, SQLite does not
  WritesMayFail     \* whether a write of the storage provider may raise: Arrow
                    \* catches nothing, SQLite not the errors of a commit

(***************************************************************************)
(* A command sequence: whether execute_command_sequence joins the thread,  *)
(* whether the browser loses its state afterwards, whether there is a      *)
(* callback.                                                               *)
(***************************************************************************)
Job == [blocking : BOOLEAN, reset : BOOLEAN, callback : BOOLEAN]

ASSUME BrowsersAssumption == NumBrowsers \in Nat \ {0}
ASSUME CommandsAssumption == NumCommands \in Nat /\ NumCommands >= 2
ASSUME LimitsAssumption == FailureLimit \in Nat /\ SpawnLimit \in Nat \ {0}
ASSUME CrawlsAssumption == Crawls \subseteq Seq(Job)
ASSUME FlagsAssumption == /\ CloseModes \subseteq BOOLEAN
                          /\ MemoryWatchdog \in BOOLEAN
                          /\ ReportsLeftovers \in BOOLEAN
                          /\ WritesMayFail \in BOOLEAN

VARIABLES
  crawl,            \* the command sequences of this run
  visits,           \* visit ids handed out so far: 1..visits
  main,             \* where the main thread is
  target,           \* the browser it is about to use or is joining or closing
  relaxed,          \* the argument of the shutdown under way
  closing,          \* TaskManager.closing
  sock_open,        \* TaskManager.sock is open
  failure_count, failure_status,
  unsaved,          \* unsaved_command_sequences
  callback_thread,  \* "polling" or "ended"
  called,           \* history: the callbacks invoked, with their argument
  thread,           \* where the command thread of each browser is
  curr_visit_id,    \* the visit of each browser, 0 before the first
  step,             \* index of the command under way
  reply,            \* what the last get on the status queue gave
  restart_required, \* set by the command thread and by the watchdog
  spawns,           \* unsuccessful_spawns of the launch under way
  process,          \* the BrowserManager process: "running" or "dead"
  command_queue, status_queue,
  to_extension,     \* the visit whose Finalize the extension has not sent on
  born,             \* the visit after which the process was launched, 0 for
                    \* the first process of a browser
  finalized,        \* history: Finalize messages sent to the controller
  unread,           \* of each connection, those its handler has not read
  deaf,             \* connections whose handler died
  known,            \* visits of which a record was sent to the controller
  reported,         \* messages the controller has reported
  controller,       \* the StorageController process: "running" or "ended"
  completion_queue, \* reports the completion thread has not read
  ok_rows,          \* history: crawl_history rows with "ok" of each visit
  tainted,          \* history: a visit that failed in the current process
  overlap,          \* history: a process was launched beside a live one
  exceeded,         \* history: failure_count went above the limit
  late              \* history: visits started after failure_status was set

manager  == <<crawl, visits, main, target, relaxed, closing, sock_open>>
failures == <<failure_count, failure_status, exceeded>>
done     == <<unsaved, callback_thread, called>>
threads  == <<thread, step, reply, spawns>>
procs    == <<process, command_queue, status_queue, to_extension, born,
              tainted, overlap>>
sending  == <<finalized, unread>>
receiving == <<deaf, reported, controller, completion_queue>>
storage  == <<sending, receiving, known>>

vars == <<manager, failures, done, threads, curr_visit_id, restart_required,
          procs, storage, ok_rows, late>>

----------------------------------------------------------------------------
Browsers == 1..NumBrowsers
Visits == 1..visits

\* A command on its way to a browser, and ShutdownSignal.
Shutdown == [visit |-> 0, index |-> 0]
Command(b) == [visit |-> curr_visit_id[b], index |-> step[b]]

\* A reply: "ok", "failed" (FAILED and NETERROR), "critical".  A timeout is
\* represented as a reply that the command thread gives itself.
Reply(c, result) == [visit |-> c.visit, index |-> c.index, result |-> result]

Alive(b) == thread[b] \notin {"none", "dead"}
Ready(b) == ~Alive(b)

\* Finalize and report messages.
Verdict(v, success) == [visit |-> v, success |-> success]

\* The connections to the storage controller: TaskManager.sock, which all
\* command threads share, and one of the extension of every process.
Manager == <<0, 0>>
Extension(b) == <<b, born[b]>>
Connections == {Manager} \cup (Browsers \X (0..Len(crawl)))

\* Send a Finalize message.  The socket of a connection stays open when its
\* handler dies: the message goes nowhere.
SendFinalize(c, m) ==
  /\ finalized' = finalized \cup {m}
  /\ unread' = IF c \in deaf THEN unread
               ELSE [unread EXCEPT ![c] = Append(@, m)]

Goto(b, place) == thread' = [thread EXCEPT ![b] = place]

----------------------------------------------------------------------------
Init ==
  /\ crawl \in Crawls
  /\ visits = 0
  /\ main = "ready" /\ target = 1
  /\ relaxed = TRUE /\ closing = FALSE /\ sock_open = TRUE
  /\ failure_count = 0 /\ failure_status = "none" /\ exceeded = FALSE
  /\ unsaved = {} /\ callback_thread = "polling" /\ called = <<>>
  /\ thread = [b \in Browsers |-> "none"]
  /\ curr_visit_id = [b \in Browsers |-> 0]
  /\ step = [b \in Browsers |-> 1]
  /\ reply = [b \in Browsers |-> Reply(Shutdown, "ok")]
  /\ restart_required = [b \in Browsers |-> FALSE]
  /\ spawns = [b \in Browsers |-> 0]
  /\ process = [b \in Browsers |-> "running"]
  /\ command_queue = [b \in Browsers |-> <<>>]
  /\ status_queue = [b \in Browsers |-> <<>>]
  /\ to_extension = [b \in Browsers |-> 0]
  /\ born = [b \in Browsers |-> 0]
  /\ finalized = {} /\ known = {} /\ reported = {} /\ deaf = {}
  /\ unread = [c \in Connections |-> <<>>]
  /\ controller = "running" /\ completion_queue = <<>>
  /\ ok_rows = [v \in 1..Len(crawl) |-> 0]
  /\ tainted = [b \in Browsers |-> 0]
  /\ overlap = FALSE
  /\ late = 0

----------------------------------------------------------------------------
(* The main thread: execute_command_sequence. *)

\* Take the next command sequence to a browser that is ready.  The user may
\* name the browser or leave the choice to the task manager.
Select(b) ==
  /\ main = "ready" /\ ~closing /\ visits < Len(crawl)
  /\ Ready(b)
  /\ target' = b
  /\ main' = "check"
  /\ UNCHANGED <<crawl, visits, relaxed, closing, sock_open, failures, done,
                 threads, curr_visit_id, restart_required, procs, storage,
                 ok_rows, late>>

StartClosing(mode) ==
  /\ closing' = TRUE
  /\ relaxed' = mode
  /\ target' = 1
  /\ main' = "stopping"

\* Variant: nobody looks at the failure status.
CheckNothing ==
  /\ main \in {"check", "recheck"}
  /\ main = "recheck" => Ready(target)
  /\ main' = IF main = "check" THEN "assign" ELSE "ready"
  /\ UNCHANGED <<crawl, visits, target, relaxed, closing, sock_open, failures,
                 done, threads, curr_visit_id, restart_required, procs,
                 storage, ok_rows, late>>

\* _check_failure_status, before a sequence starts and after a blocking one.
\* If a failure is found the manager shuts down and raises.
CheckFailure ==
  /\ main \in {"check", "recheck"}
  /\ main = "recheck" => Ready(target)
  /\ IF failure_status # "none"
     THEN StartClosing(TRUE)
     ELSE /\ main' = IF main = "check" THEN "assign" ELSE "ready"
          /\ UNCHANGED <<target, relaxed, closing>>
  /\ UNCHANGED <<crawl, visits, sock_open, failures, done, threads,
                 curr_visit_id, restart_required, procs, storage, ok_rows,
                 late>>

\* Hand out a visit id and remember the sequence for its callback.
Assign ==
  /\ main = "assign"
  /\ visits' = visits + 1
  /\ curr_visit_id' = [curr_visit_id EXCEPT ![target] = visits + 1]
  /\ unsaved' = IF crawl[visits + 1].callback
                THEN unsaved \cup {visits + 1} ELSE unsaved
  /\ late' = IF failure_status # "none" THEN late + 1 ELSE late
  /\ main' = "start"
  /\ UNCHANGED <<crawl, target, relaxed, closing, sock_open, failures,
                 callback_thread, called, threads, restart_required, procs,
                 storage, ok_rows>>

StartThread ==
  /\ main = "start"
  /\ Goto(target, "begin")
  /\ main' = IF crawl[visits].blocking THEN "recheck" ELSE "ready"
  /\ UNCHANGED <<crawl, visits, target, relaxed, closing, sock_open, failures,
                 done, step, reply, spawns, curr_visit_id, restart_required,
                 procs, storage, ok_rows, late>>

----------------------------------------------------------------------------
(* The main thread: close and _shutdown_manager. *)

Close(mode) ==
  /\ main = "ready" /\ ~closing
  /\ StartClosing(mode)
  /\ UNCHANGED <<crawl, visits, sock_open, failures, done, threads,
                 curr_visit_id, restart_required, procs, storage, ok_rows,
                 late>>

\* The end of a browser manager process, killed or shut down in order.  What
\* the extension has not sent on is lost with the browser.
Dies(b) ==
  /\ process' = [process EXCEPT ![b] = "dead"]
  /\ to_extension' = [to_extension EXCEPT ![b] = 0]

Last == target = NumBrowsers

\* Variant: a relaxed shutdown that does not join the command threads.
StopBrowserAtOnce ==
  /\ main = "stopping"
  /\ Dies(target)
  /\ target' = IF Last THEN target ELSE target + 1
  /\ main' = IF Last THEN "storage" ELSE "stopping"
  /\ sock_open' = ~Last
  /\ UNCHANGED <<crawl, visits, relaxed, closing, failures, done, threads,
                 curr_visit_id, restart_required, command_queue, status_queue,
                 born, tainted, overlap, storage, ok_rows, late>>

\* Close the next browser, after its command thread if the shutdown is
\* relaxed; after the last one, close the socket to the storage controller.
\* The exchange of close_browser_manager with the process always ends with
\* the process dead and nobody else sees it, so it is one step here.
StopBrowser ==
  /\ main = "stopping"
  /\ relaxed => Ready(target)
  /\ Dies(target)
  /\ target' = IF Last THEN target ELSE target + 1
  /\ main' = IF Last THEN "storage" ELSE "stopping"
  /\ sock_open' = ~Last
  /\ UNCHANGED <<crawl, visits, relaxed, closing, failures, done, threads,
                 curr_visit_id, restart_required, command_queue, status_queue,
                 born, tainted, overlap, storage, ok_rows, late>>

\* storage_controller_handle.shutdown returns: the process ended, or 300
\* seconds passed and it did not.
JoinStorage ==
  /\ main = "storage"
  /\ main' = "callbacks"
  /\ UNCHANGED <<crawl, visits, target, relaxed, closing, sock_open, failures,
                 done, threads, curr_visit_id, restart_required, procs,
                 storage, ok_rows, late>>

\* Variant: close() does not wait for the completion thread.
CloseEndsEarly ==
  /\ main = "callbacks"
  /\ main' = "over"
  /\ UNCHANGED <<crawl, visits, target, relaxed, closing, sock_open, failures,
                 done, threads, curr_visit_id, restart_required, procs,
                 storage, ok_rows, late>>

\* callback_thread.join() returns, and close() with it.
CloseEnds ==
  /\ main = "callbacks"
  /\ callback_thread = "ended"
  /\ main' = "over"
  /\ UNCHANGED <<crawl, visits, target, relaxed, closing, sock_open, failures,
                 done, threads, curr_visit_id, restart_required, procs,
                 storage, ok_rows, late>>

----------------------------------------------------------------------------
(* The completion thread: _mark_command_sequences_complete. *)

\* Variant: get instead of pop, the sequence stays registered.
CallbackGet ==
  /\ callback_thread = "polling" /\ completion_queue # <<>>
  /\ completion_queue' = Tail(completion_queue)
  /\ called' = IF Head(completion_queue).visit \in unsaved
               THEN Append(called, Head(completion_queue)) ELSE called
  /\ UNCHANGED <<manager, failures, unsaved, callback_thread, threads,
                 curr_visit_id, restart_required, procs, sending, deaf,
                 reported, controller, known, ok_rows, late>>

\* A report: pop its command sequence and invoke the callback.
Callback ==
  /\ callback_thread = "polling" /\ completion_queue # <<>>
  /\ LET r == Head(completion_queue) IN
       /\ completion_queue' = Tail(completion_queue)
       /\ unsaved' = unsaved \ {r.visit}
       /\ called' = IF r.visit \in unsaved THEN Append(called, r) ELSE called
  /\ UNCHANGED <<manager, failures, callback_thread, threads, curr_visit_id,
                 restart_required, procs, sending, deaf, reported, controller,
                 known, ok_rows, late>>

CallbackThreadEnds ==
  /\ callback_thread = "polling"
  /\ closing /\ unsaved = {}
  /\ callback_thread' = "ended"
  /\ UNCHANGED <<manager, failures, unsaved, called, threads, curr_visit_id,
                 restart_required, procs, storage, ok_rows, late>>

----------------------------------------------------------------------------
(* The storage controller and the extension, as the manager sees them. *)

\* A message was read and all data of its visit are saved.
Report(m) ==
  /\ reported' = reported \cup {m}
  /\ completion_queue' = Append(completion_queue, m)

\* A handler takes the next Finalize message of its connection and awaits the
\* tasks of the visit, and update_completion_queue reports it.
ReadFinalize(c) ==
  /\ controller = "running" /\ unread[c] # <<>>
  /\ Report(Head(unread[c]))
  /\ unread' = [unread EXCEPT ![c] = Tail(@)]
  /\ UNCHANGED <<manager, failures, done, threads, curr_visit_id,
                 restart_required, procs, finalized, deaf, controller, known,
                 ok_rows, late>>

\* Two handlers have a Finalize message of one visit and await its tasks
\* together.  The first to resume deletes the key of the visit; the other one
\* deletes it again and dies of the KeyError, and whatever is sent on its
\* connection is lost.
Collide(c) ==
  /\ controller = "running" /\ unread[c] # <<>>
  /\ Report(Head(unread[c]))
  /\ \E d \in Connections \ {c} :
       /\ unread[d] # <<>> /\ Head(unread[d]).visit = Head(unread[c]).visit
       /\ unread' = [unread EXCEPT ![c] = Tail(@), ![d] = <<>>]
       /\ deaf' = deaf \cup {d}
  /\ UNCHANGED <<manager, failures, done, threads, curr_visit_id,
                 restart_required, procs, finalized, controller, known,
                 ok_rows, late>>

\* A handler dies of a write that failed.
ReadFails(c) ==
  /\ WritesMayFail
  /\ controller = "running" /\ unread[c] # <<>>
  /\ unread' = [unread EXCEPT ![c] = <<>>]
  /\ deaf' = deaf \cup {c}
  /\ UNCHANGED <<manager, failures, done, threads, curr_visit_id,
                 restart_required, procs, finalized, reported, controller,
                 completion_queue, known, ok_rows, late>>

\* Visits of which the controller holds records when all was read.
Leftovers == {v \in known : \A m \in reported : m.visit # v}

\* The shutdown of the controller.  It looks for its signal every five
\* seconds, time enough for the handlers to read what was sent before.  With
\* Arrow it reports what is left over, and again those visits of which a
\* record came after the Finalize message.  Nobody reads what it reports once
\* close() has returned.
StorageEnds ==
  /\ main \in {"storage", "callbacks"} /\ controller = "running"
  /\ \A c \in Connections : unread[c] = <<>>
  /\ controller' = "ended"
  /\ \E V \in SUBSET known :
       /\ deaf = {} => Leftovers \subseteq V
       /\ \E s \in [1..Cardinality(V) -> V] :
            /\ \A i, j \in DOMAIN s : s[i] = s[j] => i = j
            /\ completion_queue' =
                 IF ReportsLeftovers
                 THEN completion_queue \o
                        [i \in DOMAIN s |-> Verdict(s[i], FALSE)]
                 ELSE completion_queue
  /\ UNCHANGED <<manager, failures, done, threads, curr_visit_id,
                 restart_required, procs, sending, deaf, reported, known,
                 ok_rows, late>>

\* The extension sends the Finalize it was told about to the controller.
ExtensionFinalizes(b) ==
  /\ to_extension[b] # 0
  /\ SendFinalize(Extension(b), Verdict(to_extension[b], TRUE))
  /\ to_extension' = [to_extension EXCEPT ![b] = 0]
  /\ UNCHANGED <<manager, failures, done, threads, curr_visit_id,
                 restart_required, process, command_queue, status_queue, born,
                 tainted, overlap, receiving, known, ok_rows, late>>

\* The watchdog thread finds that the browser uses too much memory.
Watchdog(b) ==
  /\ MemoryWatchdog
  /\ main # "over"
  /\ restart_required' = [restart_required EXCEPT ![b] = TRUE]
  /\ UNCHANGED <<manager, failures, done, threads, curr_visit_id, procs,
                 storage, ok_rows, late>>

----------------------------------------------------------------------------
(* The browser manager process: BrowserManager.run. *)

\* What one command may lead to: it succeeds, it fails with a
\* WebDriverException and the process goes on, it fails with another
\* exception, critical or not, and the process ends.
Outcomes == {[result |-> "ok",       ends |-> FALSE],
             [result |-> "failed",   ends |-> FALSE],
             [result |-> "failed",   ends |-> TRUE],
             [result |-> "critical", ends |-> TRUE]}

\* Execute the next command and reply.  A process that is slow has not taken
\* this step when the command thread's timeout expires.
Execute(b) ==
  /\ process[b] = "running"
  /\ command_queue[b] # <<>> /\ Head(command_queue[b]) # Shutdown
  /\ LET c == Head(command_queue[b]) IN
       \E o \in Outcomes :
         /\ status_queue' = [status_queue EXCEPT
              ![b] = Append(@, Reply(c, o.result))]
         /\ process' = [process EXCEPT ![b] = IF o.ends THEN "dead" ELSE @]
         /\ to_extension' = [to_extension EXCEPT
              ![b] = IF c.index = NumCommands /\ o.result = "ok"
                     THEN c.visit ELSE @]
  /\ command_queue' = [command_queue EXCEPT ![b] = Tail(@)]
  /\ UNCHANGED <<manager, failures, done, threads, curr_visit_id,
                 restart_required, born, tainted, overlap, storage, ok_rows,
                 late>>

\* ShutdownSignal: quit the driver, reply and end.
Quit(b) ==
  /\ process[b] = "running"
  /\ command_queue[b] # <<>> /\ Head(command_queue[b]) = Shutdown
  /\ Dies(b)
  /\ status_queue' = [status_queue EXCEPT
       ![b] = Append(@, Reply(Shutdown, "ok"))]
  /\ command_queue' = [command_queue EXCEPT ![b] = Tail(@)]
  /\ UNCHANGED <<manager, failures, done, threads, curr_visit_id,
                 restart_required, born, tainted, overlap, storage, ok_rows,
                 late>>

----------------------------------------------------------------------------
(* The command thread: BrowserManagerHandle.execute_command_sequence. *)

\* The site_visits record, the first use of the socket.
Begin(b) ==
  /\ thread[b] = "begin"
  /\ IF sock_open
     THEN /\ known' = known \cup {curr_visit_id[b]}
          /\ Goto(b, "send")
     ELSE Goto(b, "dead") /\ UNCHANGED known
  /\ step' = [step EXCEPT ![b] = 1]
  /\ UNCHANGED <<manager, failures, done, reply, spawns, curr_visit_id,
                 restart_required, procs, sending, receiving, ok_rows, late>>

Send(b) ==
  /\ thread[b] = "send"
  /\ command_queue' = [command_queue EXCEPT ![b] = Append(@, Command(b))]
  /\ Goto(b, "await")
  /\ UNCHANGED <<manager, failures, done, step, reply, spawns, curr_visit_id,
                 restart_required, process, status_queue, to_extension, born,
                 tainted, overlap, storage, ok_rows, late>>

\* status_queue.get(True, current_timeout): a reply, or the timeout.
Await(b) ==
  /\ thread[b] = "await"
  /\ IF status_queue[b] # <<>>
     THEN /\ reply' = [reply EXCEPT ![b] = Head(status_queue[b])]
          /\ status_queue' = [status_queue EXCEPT ![b] = Tail(@)]
     ELSE /\ reply' = [reply EXCEPT ![b] = Reply(Command(b), "timeout")]
          /\ UNCHANGED status_queue
  /\ failure_status' =
       IF reply'[b].result = "critical" THEN "critical" ELSE failure_status
  /\ Goto(b, "record")
  /\ UNCHANGED <<manager, failure_count, exceeded, done, step, spawns,
                 curr_visit_id, restart_required, process, command_queue,
                 to_extension, born, tainted, overlap, storage, ok_rows,
                 late>>

\* The crawl_history record, and where the result leads.
Record(b) ==
  /\ thread[b] = "record"
  /\ IF sock_open
     THEN LET r == reply[b].result IN
          /\ ok_rows' = [ok_rows EXCEPT
               ![curr_visit_id[b]] = IF r = "ok" THEN @ + 1 ELSE @]
          /\ tainted' = [tainted EXCEPT
               ![b] = IF r = "ok" THEN @ ELSE curr_visit_id[b]]
          /\ Goto(b, CASE r = "critical" -> "abandon"
                       [] r \in {"failed", "timeout"} -> "count"
                       [] r = "ok" /\ step[b] = NumCommands -> "reset"
                       [] OTHER -> "flag")
     ELSE Goto(b, "dead") /\ UNCHANGED <<ok_rows, born, tainted>>
  /\ UNCHANGED <<manager, failures, done, step, reply, spawns, curr_visit_id,
                 restart_required, process, command_queue, status_queue,
                 to_extension, born, overlap, storage, late>>

\* failure_count += 1, under threadlock.
Count(b) ==
  /\ thread[b] = "count"
  /\ failure_count' = failure_count + 1
  /\ exceeded' = (exceeded \/ failure_count + 1 > FailureLimit)
  /\ Goto(b, "limit")
  /\ UNCHANGED <<manager, failure_status, done, step, reply, spawns,
                 curr_visit_id, restart_required, procs, storage, ok_rows,
                 late>>

\* Variant: a failure that does not ask for a restart.
LimitOnly(b) ==
  /\ thread[b] = "limit"
  /\ IF failure_count > FailureLimit
     THEN failure_status' = "command" /\ Goto(b, "dead")
     ELSE Goto(b, "flag") /\ UNCHANGED failure_status
  /\ UNCHANGED <<manager, failure_count, exceeded, done, step, reply, spawns,
                 curr_visit_id, restart_required, procs, storage, ok_rows,
                 late>>

\* The comparison with failure_limit, outside the lock.
Limit(b) ==
  /\ thread[b] = "limit"
  /\ IF failure_count > FailureLimit
     THEN /\ failure_status' = "command"
          /\ Goto(b, "dead")
          /\ UNCHANGED restart_required
     ELSE /\ restart_required' = [restart_required EXCEPT ![b] = TRUE]
          /\ Goto(b, "flag")
          /\ UNCHANGED failure_status
  /\ UNCHANGED <<manager, failure_count, exceeded, done, step, reply, spawns,
                 curr_visit_id, procs, storage, ok_rows, late>>

\* FinalizeCommand succeeded: failure_count = 0, under threadlock.
ResetCount(b) ==
  /\ thread[b] = "reset"
  /\ failure_count' = 0
  /\ Goto(b, "flag")
  /\ UNCHANGED <<manager, failure_status, exceeded, done, step, reply, spawns,
                 curr_visit_id, restart_required, procs, storage, ok_rows,
                 late>>

\* Variant: a failed sequence runs on to its FinalizeCommand.
FlagNoBreak(b) ==
  /\ thread[b] = "flag"
  /\ IF restart_required[b] /\ step[b] = NumCommands
     THEN Goto(b, "abandon") /\ UNCHANGED step
     ELSE IF step[b] < NumCommands
     THEN Goto(b, "send") /\ step' = [step EXCEPT ![b] = @ + 1]
     ELSE Goto(b, "drain") /\ UNCHANGED step
  /\ UNCHANGED <<manager, failures, done, reply, spawns, curr_visit_id,
                 restart_required, procs, storage, ok_rows, late>>

\* The end of the loop body: give up, go on, or finish.
Flag(b) ==
  /\ thread[b] = "flag"
  /\ IF restart_required[b]
     THEN Goto(b, "abandon") /\ UNCHANGED step
     ELSE IF step[b] < NumCommands
     THEN Goto(b, "send") /\ step' = [step EXCEPT ![b] = @ + 1]
     ELSE Goto(b, "drain") /\ UNCHANGED step
  /\ UNCHANGED <<manager, failures, done, reply, spawns, curr_visit_id,
                 restart_required, procs, storage, ok_rows, late>>

\* finalize_visit_id(success=False); after a critical error the thread ends.
Abandon(b) ==
  /\ thread[b] = "abandon"
  /\ IF sock_open
     THEN /\ SendFinalize(Manager, Verdict(curr_visit_id[b], FALSE))
          /\ Goto(b, IF reply[b].result = "critical" THEN "dead" ELSE "drain")
     ELSE Goto(b, "dead") /\ UNCHANGED sending
  /\ UNCHANGED <<manager, failures, done, step, reply, spawns, curr_visit_id,
                 restart_required, procs, receiving, known, ok_rows, late>>

\* After the sleep: no restart once the manager is closing.  The locals of the
\* loop are not used any more.
Drain(b) ==
  /\ thread[b] = "drain"
  /\ reply' = [reply EXCEPT ![b] = Reply(Shutdown, "ok")]
  /\ Goto(b, IF ~closing /\ (restart_required[b] \/
                             crawl[curr_visit_id[b]].reset)
             THEN "signal" ELSE "dead")
  /\ UNCHANGED <<manager, failures, done, step, spawns, curr_visit_id,
                 restart_required, procs, storage, ok_rows, late>>

----------------------------------------------------------------------------
(* The command thread: restart_browser_manager. *)

\* close_browser_manager: ShutdownSignal to the process.
Signal(b) ==
  /\ thread[b] = "signal"
  /\ command_queue' = [command_queue EXCEPT ![b] = Append(@, Shutdown)]
  /\ Goto(b, "closing")
  /\ UNCHANGED <<manager, failures, done, step, reply, spawns, curr_visit_id,
                 restart_required, process, status_queue, to_extension, born,
                 tainted, overlap, storage, ok_rows, late>>

\* Its reply.  Anything but "ok", or no reply, and the process is killed.
AwaitClosed(b) ==
  /\ thread[b] = "closing"
  /\ status_queue' = [status_queue EXCEPT
       ![b] = IF @ = <<>> THEN @ ELSE Tail(@)]
  /\ IF status_queue[b] # <<>> /\ Head(status_queue[b]).result = "ok"
     THEN Goto(b, "joining") /\ UNCHANGED <<process, to_extension>>
     ELSE Goto(b, "launch") /\ Dies(b)
  /\ spawns' = [spawns EXCEPT ![b] = 0]
  /\ UNCHANGED <<manager, failures, done, step, reply, curr_visit_id,
                 restart_required, command_queue, born, tainted, overlap,
                 storage, ok_rows, late>>

\* Variant: the reply is trusted, the process is not joined.
JoinProcessNot(b) ==
  /\ thread[b] = "joining"
  /\ Goto(b, "launch")
  /\ UNCHANGED <<manager, failures, done, step, reply, spawns, curr_visit_id,
                 restart_required, procs, storage, ok_rows, late>>

\* browser_manager.join(30): dead by itself, or killed after the timeout.
JoinProcess(b) ==
  /\ thread[b] = "joining"
  /\ Dies(b)
  /\ Goto(b, "launch")
  /\ UNCHANGED <<manager, failures, done, step, reply, spawns, curr_visit_id,
                 restart_required, command_queue, status_queue, born, tainted,
                 overlap, storage, ok_rows, late>>

\* Variant: the new process gets the queues of the old one.
LaunchOnOldQueues(b) ==
  /\ thread[b] = "launch"
  /\ Goto(b, "relaunched")
  /\ process' = [process EXCEPT ![b] = "running"]
  /\ overlap' = (overlap \/ process[b] = "running")
  /\ tainted' = [tainted EXCEPT ![b] = 0]
  /\ born' = [born EXCEPT ![b] = curr_visit_id[b]]
  /\ UNCHANGED <<manager, failures, done, step, reply, spawns, curr_visit_id,
                 restart_required, command_queue, status_queue, to_extension,
                 storage, ok_rows, late>>

\* launch_browser_manager: a process with queues of its own that gets READY.
Launch(b) ==
  /\ thread[b] = "launch"
  /\ Goto(b, "relaunched")
  /\ process' = [process EXCEPT ![b] = "running"]
  /\ overlap' = (overlap \/ process[b] = "running")
  /\ command_queue' = [command_queue EXCEPT ![b] = <<>>]
  /\ status_queue' = [status_queue EXCEPT ![b] = <<>>]
  /\ tainted' = [tainted EXCEPT ![b] = 0]
  /\ born' = [born EXCEPT ![b] = curr_visit_id[b]]
  /\ UNCHANGED <<manager, failures, done, step, reply, spawns, curr_visit_id,
                 restart_required, to_extension, storage, ok_rows, late>>

\* Variant: one spawn too many.
SpawnFailsOnceMore(b) ==
  /\ thread[b] = "launch"
  /\ overlap' = (overlap \/ process[b] = "running")
  /\ spawns' = [spawns EXCEPT ![b] = @ + 1]
  /\ command_queue' = [command_queue EXCEPT ![b] = <<>>]
  /\ status_queue' = [status_queue EXCEPT ![b] = <<>>]
  /\ IF spawns[b] < SpawnLimit
     THEN UNCHANGED <<thread, failure_status>>
     ELSE failure_status' = "launch" /\ Goto(b, "dead")
  /\ UNCHANGED <<manager, failure_count, exceeded, done, step, reply,
                 curr_visit_id, restart_required, process, to_extension, born,
                 tainted, storage, ok_rows, late>>

\* A spawn that fails or times out and is closed again.
SpawnFails(b) ==
  /\ thread[b] = "launch"
  /\ overlap' = (overlap \/ process[b] = "running")
  /\ spawns' = [spawns EXCEPT ![b] = @ + 1]
  /\ command_queue' = [command_queue EXCEPT ![b] = <<>>]
  /\ status_queue' = [status_queue EXCEPT ![b] = <<>>]
  /\ IF spawns[b] + 1 < SpawnLimit
     THEN UNCHANGED <<thread, failure_status>>
     ELSE failure_status' = "launch" /\ Goto(b, "dead")
  /\ UNCHANGED <<manager, failure_count, exceeded, done, step, reply,
                 curr_visit_id, restart_required, process, to_extension, born,
                 tainted, storage, ok_rows, late>>

\* A critical error during the launch is raised in the command thread, which
\* dies of it; nobody is told.
LaunchRaises(b) ==
  /\ thread[b] = "launch"
  /\ overlap' = (overlap \/ process[b] = "running")
  /\ command_queue' = [command_queue EXCEPT ![b] = <<>>]
  /\ status_queue' = [status_queue EXCEPT ![b] = <<>>]
  /\ Goto(b, "dead")
  /\ UNCHANGED <<manager, failures, done, step, reply, spawns, curr_visit_id,
                 restart_required, process, to_extension, born, tainted,
                 storage, ok_rows, late>>

\* restart_required = False, whoever has set it.
Relaunched(b) ==
  /\ thread[b] = "relaunched"
  /\ restart_required' = [restart_required EXCEPT ![b] = FALSE]
  /\ Goto(b, "dead")
  /\ UNCHANGED <<manager, failures, done, step, reply, spawns, curr_visit_id,
                 procs, storage, ok_rows, late>>

----------------------------------------------------------------------------
MainStep ==
  \/ CheckFailure \/ Assign \/ StartThread
  \/ StopBrowser \/ JoinStorage \/ CloseEnds

User ==
  \/ \E b \in Browsers : Select(b)
  \/ \E mode \in CloseModes : Close(mode)

ThreadStep(b) ==
  \/ Begin(b) \/ Send(b) \/ Await(b) \/ Record(b)
  \/ Count(b) \/ Limit(b) \/ ResetCount(b) \/ Flag(b) \/ Abandon(b)
  \/ Drain(b) \/ Signal(b) \/ AwaitClosed(b) \/ JoinProcess(b)
  \/ Launch(b) \/ SpawnFails(b) \/ LaunchRaises(b) \/ Relaunched(b)

Completion == Callback \/ CallbackThreadEnds

Handlers ==
  \E c \in Connections : ReadFinalize(c) \/ Collide(c) \/ ReadFails(c)

Next ==
  \/ MainStep \/ User \/ Completion
  \/ Handlers \/ StorageEnds
  \/ \E b \in Browsers :
       \/ ThreadStep(b)
       \/ Execute(b) \/ Quit(b)
       \/ ExtensionFinalizes(b)
       \/ Watchdog(b)

Spec == Init /\ [][Next]_vars

(***************************************************************************)
(* Fairness: the threads run, and every wait of theirs has a timeout.  A   *)
(* handler of the storage controller that is alive reads on.  Nothing is   *)
(* assumed of the user, of the browser processes, of the extension, of the *)
(* watchdog or of the shutdown of the controller, and a handler may die.   *)
(***************************************************************************)
Fairness ==
  /\ WF_vars(MainStep)
  /\ WF_vars(Completion)
  /\ WF_vars(Handlers)
  /\ \A b \in 1..NumBrowsers : WF_vars(ThreadStep(b))

FairSpec == Spec /\ Fairness

----------------------------------------------------------------------------
(* Properties. *)

Results == {"ok", "failed", "critical", "timeout"}
Commands == [visit : 0..Len(crawl), index : 0..NumCommands]
Replies == [visit : 0..Len(crawl), index : 0..NumCommands, result : Results]
Verdicts == [visit : 1..Len(crawl), success : BOOLEAN]

ThreadPlaces == {"none", "begin", "send", "await", "record", "count", "limit",
                 "reset", "flag", "abandon", "drain", "signal", "closing",
                 "joining", "launch", "relaunched", "dead"}

\* Every variable has its type: the state of TaskManager, of the handles and
\* of the browser manager processes.
TypeOK ==
  /\ crawl \in Seq(Job)
  /\ visits \in 0..Len(crawl)
  /\ main \in {"ready", "check", "recheck", "assign", "start", "stopping",
               "storage", "callbacks", "over"}
  /\ target \in Browsers
  /\ relaxed \in BOOLEAN /\ closing \in BOOLEAN /\ sock_open \in BOOLEAN
  /\ failure_count \in Nat /\ exceeded \in BOOLEAN /\ late \in Nat
  /\ failure_status \in {"none", "command", "launch", "critical"}
  /\ unsaved \subseteq Visits
  /\ callback_thread \in {"polling", "ended"}
  /\ called \in Seq(Verdicts)
  /\ thread \in [Browsers -> ThreadPlaces]
  /\ curr_visit_id \in [Browsers -> 0..visits]
  /\ step \in [Browsers -> 1..NumCommands]
  /\ reply \in [Browsers -> Replies]
  /\ restart_required \in [Browsers -> BOOLEAN]
  /\ spawns \in [Browsers -> 0..SpawnLimit]
  /\ process \in [Browsers -> {"running", "dead"}]
  /\ command_queue \in [Browsers -> Seq(Commands)]
  /\ status_queue \in [Browsers -> Seq(Replies)]
  /\ to_extension \in [Browsers -> 0..visits]
  /\ born \in [Browsers -> 0..visits]
  /\ finalized \subseteq Verdicts /\ reported \subseteq Verdicts
  /\ unread \in [Connections -> Seq(Verdicts)]
  /\ deaf \subseteq Connections
  /\ known \subseteq Visits
  /\ controller \in {"running", "ended"}
  /\ completion_queue \in Seq(Verdicts)
  /\ ok_rows \in [1..Len(crawl) -> 0..NumCommands]
  /\ tainted \in [Browsers -> 0..visits]
  /\ overlap \in BOOLEAN

\* A browser never has two browser manager processes: restart_browser_manager
\* launches one only when the old one is gone, even if the answer to its
\* ShutdownSignal was the late answer to a command that had timed out.
OneProcess == ~overlap

\* The result that execute_command_sequence records for a command is the
\* answer to that very command: an answer that comes after its timeout is
\* never read as the answer to a later one.
ReplyIsOwn ==
  \A b \in Browsers : thread[b] = "record" =>
    /\ reply[b].visit = curr_visit_id[b]
    /\ reply[b].index = step[b]

\* A visit is finalized as a success only if every command before its
\* FinalizeCommand was recorded as "ok": with a failure, a timeout or the
\* watchdog's mark in between, the extension is never told to finalize it.
NoFalseSuccess ==
  \A m \in finalized : m.success =>
    ok_rows[m.visit] >= NumCommands - 1

\* A browser manager process in which a visit failed works for no other
\* visit: before the next one starts the process is dead or replaced.
FailedBrowserRetired ==
  \A b \in Browsers :
    tainted[b] # 0 /\ process[b] = "running" =>
      /\ Alive(b) => curr_visit_id[b] = tainted[b]
      /\ \A i \in 1..Len(command_queue[b]) :
           command_queue[b][i].visit \in {0, tainted[b]}

\* Once failure_status is set, execute_command_sequence starts at most the one
\* visit whose _check_failure_status had already passed.
FailureStopsCrawl == late <= 1

\* A relaxed shutdown is in order: when the socket to the storage controller
\* is closed every command thread is over, so none loses a record, and every
\* browser manager process is dead.
OrderlyClose ==
  ~sock_open /\ relaxed =>
    \A b \in Browsers : Ready(b) /\ process[b] = "dead"

\* When close() returns every sequence with a callback has been called back,
\* and exactly once, whatever was reported for its visit and how often.
CallbacksOnce ==
  /\ \A i, j \in 1..Len(called) : called[i].visit = called[j].visit => i = j
  /\ main = "over" =>
       {called[i].visit : i \in 1..Len(called)} =
         {v \in Visits : crawl[v].callback}

\* The completion thread waits for a report that can not come: of a visit with
\* a callback no Finalize message was sent, or each was lost on a connection
\* whose handler died.
Stranded ==
  /\ main = "callbacks"
  /\ \E v \in unsaved :
       /\ \A m \in reported : m.visit # v
       /\ \A c \in Connections : \A i \in 1..Len(unread[c]) :
            unread[c][i].visit # v

\* close() returns, relaxed or not and whatever the browsers do, unless every
\* Finalize message of a visit with a callback was lost or never sent.
CloseReturns == closing ~> (main = "over" \/ Stranded)

\* config.py on failure_limit: when a sequence causes the number of failures
\* to exceed the limit, CommandExecutionError is raised at the next attempt to
\* execute one.  That needs failure_status, as soon as no thread is between
\* counting its failure and comparing the count.
LimitEnforced ==
  exceeded /\ (\A b \in Browsers : thread[b] # "limit") =>
    failure_status # "none"

=============================================================================
