------------------------- MODULE StorageController -------------------------
(***************************************************************************)
(* The storage controller process of OpenWPM                               *)
(* (openwpm/storage/storage_controller.py) with one of its two structured  *)
(* storage providers: SQLite (sql_provider.py) or Arrow/Parquet            *)
(* (arrow_storage.py).                                                     *)
(*                                                                         *)
(* The controller is one asyncio event loop.  Every connection has a       *)
(* handler coroutine that reads messages: a record becomes a task that     *)
(* hands the record to the provider, a Finalize message makes the handler  *)
(* await the tasks of the visit and tell the provider that the visit is    *)
(* over.  A feeder reports finalized visits to the task manager, a timer   *)
(* flushes the provider when no data comes in, and the main coroutine      *)
(* finalizes what is left when the shutdown signal arrives.                *)
(*                                                                         *)
(* A step of the module is what one coroutine does between two points at   *)
(* which it really yields.  An await of a finished task does not yield,    *)
(* and no provider in the repository yields inside its methods, so those   *)
(* calls are part of the step that makes them.                             *)
(*                                                                         *)
(* Definitions marked "Variant:" are defective versions of the definition  *)
(* that follows them.  No specification uses them: the model checker swaps *)
(* them in to show that a property notices the defect.                     *)
(***************************************************************************)
EXTENDS Naturals, Sequences, FiniteSets

CONSTANTS
  Visits,         \* visit ids, INVALID_VISIT_ID included
  Conns,          \* connections to the controller, one handler each
  Main,           \* the main coroutine, StorageController._run
  NoVisit,        \* no visit: the main coroutine is not finalizing one
  Workloads,      \* what the connections may send: functions Conns -> Seq(Msg)
  Provider,       \* "sqlite" or "arrow"
  CacheSize,      \* CACHE_SIZE: batches the Arrow provider keeps
  WritesMayFail   \* whether write_table may raise (disk, S3, GCS)

(***************************************************************************)
(* A message.  "record" is a record for a table the provider knows,        *)
(* "alien" one for a table it does not know, "skip" a message that changes *)
(* nothing (Initialize, a malformed tuple, no visit_id), "fatal" one that  *)
(* makes the handler raise (create_table, an unknown action).              *)
(***************************************************************************)
Msg == [type : {"record", "alien", "finalize", "skip", "fatal"},
        visit : Visits, success : BOOLEAN]

ASSUME ProviderAssumption == Provider \in {"sqlite", "arrow"}
ASSUME CacheSizeAssumption == CacheSize \in Nat
ASSUME MainAssumption == Main \notin Conns
ASSUME NoVisitAssumption == NoVisit \notin Visits
ASSUME MarkerAssumption == "incomplete" \notin Conns
ASSUME WorkloadAssumption == Workloads \subseteq [Conns -> Seq(Msg)]

VARIABLES
  stream,             \* what each connection sends, fixed from the start
  read,               \* number of messages each handler has read
  pc,                 \* where each handler and the main coroutine is
  todo,               \* shutdown(): visits still to be finalized
  closing,            \* shutdown(): the visit being finalized
  tokens,             \* shutdown(): visits with a completion token
  cut,                \* history: the value of read when shutdown began
  shutdown_queue,     \* TRUE when the shutdown signal has been sent
  store_record_tasks, \* the tasks of each visit; {} is "not in the dict"
  ready,              \* tasks the event loop has not run yet, in order
  failed,             \* tasks that ended with an exception
  cached,             \* records in the provider by visit: Arrow's _records,
                      \* SQLite's open transaction
  batched,            \* the records in Arrow's _batches
  nbatches,           \* and how many batches these are
  flush_events,       \* finalizations whose event is not set
  lock_leaked,        \* storing_lock is held by nobody and never released
  saved,              \* what has reached persistent storage
  finalize_tasks,     \* finalizations the feeder has not reported yet
  completion_queue,   \* everything ever reported to the task manager
  feeder,             \* the update_completion_queue task
  timer,              \* the save_batch_if_past_timeout task
  fresh               \* _last_record_received is not None

wire     == <<stream, read>>
closedown == <<todo, closing, tokens, cut, shutdown_queue>>
loop     == <<store_record_tasks, ready, failed>>
store    == <<cached, batched, nbatches, flush_events, lock_leaked, saved>>
results  == <<finalize_tasks, completion_queue>>
helpers  == <<feeder, timer, fresh>>

vars == <<wire, pc, closedown, loop, store, results, helpers>>

----------------------------------------------------------------------------
(* Items: what a provider stores. *)

Procs == Conns \cup {Main}

\* A record is named by its connection and its position in the stream.
Records == Conns \X Nat

\* The row of incomplete_visits that marks visit v as interrupted.
Incomplete(v) == <<"incomplete", v>>

Items == Records \cup {Incomplete(v) : v \in Visits}

MsgOf(x) == stream[x[1]][x[2]]

\* The name of a finalization: the Finalize message or, in shutdown(), the
\* visit that the main coroutine finalizes.
Finalizations == (Conns \X Nat) \cup ({Main} \X Visits)

\* An entry of finalize_tasks and, once reported, of completion_queue.  The
\* fields by and found are history: who asked, and whether the visit had
\* tasks.  With Arrow a finalization has a completion token iff found.
Entries == [visit : Visits, success : BOOLEAN, by : Finalizations,
            found : BOOLEAN]

\* The message handler c is working on.
Current(c) == stream[c][read[c]]

\* The visit that p is finalizing.
Subject(p) == IF p = Main THEN closing ELSE Current(p).visit

\* Coroutines awaiting the tasks of visit v in finalize_visit_id.
Joiners(v) == {p \in Procs : pc[p] = "join" /\ Subject(p) = v}

Scheduled == {ready[i] : i \in 1..Len(ready)}

\* The event loop runs one coroutine at a time: nobody else moves while the
\* main coroutine is between two awaits, nor after the process has ended.
LoopFree == pc[Main] \in {"serving", "join", "locked", "draining"}

----------------------------------------------------------------------------
Init ==
  /\ stream \in Workloads
  /\ read = [c \in Conns |-> 0]
  /\ pc = [p \in Procs |-> IF p = Main THEN "serving" ELSE "reading"]
  /\ todo = {}
  /\ closing = NoVisit
  /\ tokens = {}
  /\ cut = [c \in Conns |-> 0]
  /\ shutdown_queue = FALSE
  /\ store_record_tasks = [v \in Visits |-> {}]
  /\ ready = <<>>
  /\ failed = {}
  /\ cached = [v \in Visits |-> {}]
  /\ batched = {}
  /\ nbatches = 0
  /\ flush_events = {}
  /\ lock_leaked = FALSE
  /\ saved = {}
  /\ finalize_tasks = <<>>
  /\ completion_queue = <<>>
  /\ feeder = "running"
  /\ timer = "running"
  /\ fresh = FALSE

----------------------------------------------------------------------------
(* The handlers: handler(), store_record(), _handle_meta().                *)

HasMessage(c) ==
  /\ LoopFree
  /\ pc[c] = "reading"
  /\ read[c] < Len(stream[c])

NextMsg(c) == stream[c][read[c] + 1]

\* Variant: two messages are taken for one.
ConsumeTwo(c) ==
  /\ read' = [read EXCEPT ![c] = @ + 2]
  /\ fresh' = TRUE
  /\ UNCHANGED <<stream, closedown, completion_queue, feeder, timer>>

Consume(c) ==
  /\ read' = [read EXCEPT ![c] = @ + 1]
  /\ fresh' = TRUE
  /\ UNCHANGED <<stream, closedown, completion_queue, feeder, timer>>

\* store_record(): the record becomes a task, the handler reads on.
ReadRecord(c) ==
  /\ HasMessage(c)
  /\ NextMsg(c).type \in {"record", "alien"}
  /\ Consume(c)
  /\ LET x == <<c, read[c] + 1>>
         v == NextMsg(c).visit
     IN  /\ store_record_tasks' = [store_record_tasks EXCEPT ![v] = @ \cup {x}]
         /\ ready' = Append(ready, x)
  /\ UNCHANGED <<pc, failed, store, finalize_tasks>>

\* Variant: "initialize" is an unexpected action.
ReadSkipRaises(c) ==
  /\ HasMessage(c)
  /\ NextMsg(c).type = "skip"
  /\ Consume(c)
  /\ pc' = [pc EXCEPT ![c] = "dead"]
  /\ UNCHANGED <<loop, store, finalize_tasks>>

ReadSkip(c) ==
  /\ HasMessage(c)
  /\ NextMsg(c).type = "skip"
  /\ Consume(c)
  /\ UNCHANGED <<pc, loop, store, finalize_tasks>>

\* The exception ends handler(); _handler() logs it and the connection is
\* never read again.
ReadFatal(c) ==
  /\ HasMessage(c)
  /\ NextMsg(c).type = "fatal"
  /\ Consume(c)
  /\ pc' = [pc EXCEPT ![c] = "dead"]
  /\ UNCHANGED <<loop, store, finalize_tasks>>

\* The provider's store_record() for the task at the head of the loop.  A
\* record for an unknown table is logged and dropped by SQLite, and raises
\* a KeyError in Arrow's PQ_SCHEMAS[table].
RunTask ==
  /\ LoopFree
  /\ ready # <<>>
  /\ ready' = Tail(ready)
  /\ LET x == Head(ready)
         known == MsgOf(x).type = "record"
     IN  /\ cached' = IF known
                        THEN [cached EXCEPT ![MsgOf(x).visit] = @ \cup {x}]
                        ELSE cached
         /\ failed' = IF ~known /\ Provider = "arrow" THEN failed \cup {x}
                                                      ELSE failed
  /\ UNCHANGED <<wire, pc, closedown, store_record_tasks, batched, nbatches,
                 flush_events, lock_leaked, saved, results, helpers>>

----------------------------------------------------------------------------
(* finalize_visit_id() of the controller and of the providers.             *)

\* Where the coroutines are once p is at state s and the others in Q died.
Moved(p, s, Q) ==
  [q \in Procs |-> IF q = p THEN s ELSE IF q \in Q THEN "dead" ELSE pc[q]]

\* Variant: shutdown() forgets the completion token.
ReturnForgetful(p, v, success, by, found, Q) ==
  /\ pc' = Moved(p, IF p = Main THEN "finalizing" ELSE "reading", Q)
  /\ finalize_tasks' =
       IF p = Main THEN finalize_tasks
       ELSE Append(finalize_tasks, [visit |-> v, success |-> success,
                                    by |-> by, found |-> found])
  /\ UNCHANGED tokens

\* finalize_visit_id returns to its caller: _handle_meta() appends to
\* finalize_tasks and reads on, shutdown() keeps the token if there is one.
Return(p, v, success, by, found, Q) ==
  /\ pc' = Moved(p, IF p = Main THEN "finalizing" ELSE "reading", Q)
  /\ finalize_tasks' =
       IF p = Main THEN finalize_tasks
       ELSE Append(finalize_tasks, [visit |-> v, success |-> success,
                                    by |-> by, found |-> found])
  /\ tokens' = IF p = Main /\ found /\ Provider = "arrow"
                 THEN tokens \cup {v} ELSE tokens

\* The exception leaves finalize_visit_id.
Raise(Q) ==
  /\ pc' = [q \in Procs |-> IF q \in Q THEN "dead" ELSE pc[q]]
  /\ UNCHANGED <<tokens, finalize_tasks>>

\* Variant: interrupted visits are not recorded.
MarkerNever(v, success) == {}

Marker(v, success) == IF success THEN {} ELSE {Incomplete(v)}

\* SQLiteStorageProvider.finalize_visit_id: the commit is for everything.
FinalizeSqlite(p, v, success, by, Q) ==
  /\ Provider = "sqlite"
  /\ saved' = saved \cup Marker(v, success) \cup (UNION {cached[w] : w \in Visits})
  /\ cached' = [w \in Visits |-> {}]
  /\ UNCHANGED <<batched, nbatches, flush_events, lock_leaked>>
  /\ Return(p, v, success, by, TRUE, Q)

\* ArrowProvider.finalize_visit_id up to the test for a full cache, or to
\* the wait for a storing_lock that nobody will release.
FinalizeArrow(p, v, success, by, Q) ==
  LET mine == cached[v] \cup Marker(v, success)
      count == nbatches + (IF mine = {} THEN 0 ELSE 1)
  IN  /\ Provider = "arrow"
      /\ \/ /\ lock_leaked
            /\ cached' = [cached EXCEPT ![v] = mine]
            /\ pc' = Moved(p, "locked", Q)
            /\ UNCHANGED <<batched, nbatches, flush_events, saved, tokens,
                           finalize_tasks>>
         \/ /\ ~lock_leaked
            /\ count <= CacheSize
            /\ cached' = [cached EXCEPT ![v] = {}]
            /\ batched' = batched \cup mine
            /\ nbatches' = count
            /\ flush_events' = flush_events \cup {by}
            /\ UNCHANGED saved
            /\ Return(p, v, success, by, TRUE, Q)
         \/ /\ ~lock_leaked
            /\ count > CacheSize
            /\ cached' = [cached EXCEPT ![v] = {}]
            /\ batched' = {}
            /\ nbatches' = 0
            /\ flush_events' = {}
            /\ saved' = saved \cup batched \cup mine
            /\ Return(p, v, success, by, TRUE, Q)
         \/ /\ ~lock_leaked
            /\ count > CacheSize
            /\ WritesMayFail
            /\ cached' = [cached EXCEPT ![v] = {}]
            /\ batched' = batched \cup mine
            /\ nbatches' = count
            /\ flush_events' = flush_events \cup {by}
            /\ UNCHANGED saved
            /\ Raise(Q \cup {p})
      /\ UNCHANGED lock_leaked

\* The tasks of v have all been awaited: the list is deleted.  The other
\* coroutines that await it wake up next, and their del raises KeyError.
Complete(p, v, success, by) ==
  /\ store_record_tasks' = [store_record_tasks EXCEPT ![v] = {}]
  /\ LET Q == Joiners(v) \ {p}
     IN  \/ FinalizeSqlite(p, v, success, by, Q)
         \/ FinalizeArrow(p, v, success, by, Q)

\* Variant: the tasks of the visit are not awaited.
FinalizeUnawaited(p, v, success, by) ==
  \/ /\ store_record_tasks[v] = {}
     /\ Return(p, v, success, by, FALSE, {})
     /\ UNCHANGED <<store_record_tasks, store>>
  \/ /\ store_record_tasks[v] # {}
     /\ Complete(p, v, success, by)

\* finalize_visit_id(v, success) called by p, up to its first real wait.
Finalize(p, v, success, by) ==
  \/ /\ store_record_tasks[v] = {}
     /\ Return(p, v, success, by, FALSE, {})
     /\ UNCHANGED <<store_record_tasks, store>>
  \/ /\ store_record_tasks[v] \cap failed # {}
     /\ Raise({p})
     /\ UNCHANGED <<store_record_tasks, store>>
  \/ /\ store_record_tasks[v] # {}
     /\ store_record_tasks[v] \cap failed = {}
     /\ store_record_tasks[v] \cap Scheduled # {}
     /\ pc' = [pc EXCEPT ![p] = "join"]
     /\ UNCHANGED <<store_record_tasks, store, tokens, finalize_tasks>>
  \/ /\ store_record_tasks[v] # {}
     /\ store_record_tasks[v] \cap (failed \cup Scheduled) = {}
     /\ Complete(p, v, success, by)

ReadFinalize(c) ==
  /\ HasMessage(c)
  /\ NextMsg(c).type = "finalize"
  /\ read' = [read EXCEPT ![c] = @ + 1]
  /\ fresh' = TRUE
  /\ Finalize(c, NextMsg(c).visit, NextMsg(c).success, <<c, read[c] + 1>>)
  /\ UNCHANGED <<stream, todo, closing, cut, shutdown_queue, ready, failed,
                 completion_queue, feeder, timer>>

\* p is awaiting the tasks of its visit and they are all over, or one that
\* failed has been reached and raises in everybody who awaits it.
Resume(p) ==
  /\ LoopFree
  /\ pc[p] = "join"
  /\ LET v == Subject(p)
         success == p # Main /\ Current(p).success
         by == IF p = Main THEN <<Main, v>> ELSE <<p, read[p]>>
     IN  \/ /\ store_record_tasks[v] \cap failed # {}
            /\ Raise(Joiners(v))
            /\ UNCHANGED <<store_record_tasks, store>>
         \/ /\ store_record_tasks[v] \cap (failed \cup Scheduled) = {}
            /\ Complete(p, v, success, by)
  /\ UNCHANGED <<wire, todo, closing, cut, shutdown_queue, ready, failed,
                 completion_queue, helpers>>

----------------------------------------------------------------------------
(* The feeder, the timer and the shutdown.                                 *)

AllSaved == saved \cup batched \cup (UNION {cached[v] : v \in Visits})

\* Variant: Arrow sets the events without having written the batches.
FlushUnwritten ==
  /\ Provider = "arrow"
  /\ batched' = {}
  /\ nbatches' = 0
  /\ flush_events' = {}
  /\ UNCHANGED <<cached, lock_leaked, saved>>

\* flush_cache() of the provider, with the lock not yet taken, succeeds:
\* SQLite commits, Arrow writes its batches and sets every event.
Flush ==
  /\ \/ /\ Provider = "sqlite"
        /\ saved' = AllSaved
        /\ cached' = [v \in Visits |-> {}]
     \/ /\ Provider = "arrow"
        /\ ~lock_leaked
        /\ saved' = saved \cup batched
        /\ UNCHANGED cached
  /\ batched' = {}
  /\ nbatches' = 0
  /\ flush_events' = {}
  /\ UNCHANGED lock_leaked

\* flush_cache() of Arrow raises in write_table: nothing releases the lock.
FlushFails ==
  /\ Provider = "arrow"
  /\ ~lock_leaked
  /\ WritesMayFail
  /\ batched # {}
  /\ lock_leaked' = TRUE
  /\ UNCHANGED <<cached, batched, nbatches, flush_events, saved>>

\* Variant: what is reported stays in the list.
FeedKeeps ==
  /\ LoopFree
  /\ feeder = "running"
  /\ Len(completion_queue) < 4
  /\ \E i \in 1..Len(finalize_tasks) :
       /\ finalize_tasks[i].by \notin flush_events
       /\ completion_queue' = Append(completion_queue, finalize_tasks[i])
  /\ UNCHANGED <<wire, pc, closedown, loop, store, finalize_tasks, helpers>>

\* Variant: the test of the feeder is "token and token.done()".
FeedTokensOnly ==
  /\ LoopFree
  /\ feeder = "running"
  /\ Provider = "arrow"
  /\ \E i \in 1..Len(finalize_tasks) :
       /\ finalize_tasks[i].found
       /\ finalize_tasks[i].by \notin flush_events
       /\ completion_queue' = Append(completion_queue, finalize_tasks[i])
       /\ finalize_tasks' = SubSeq(finalize_tasks, 1, i-1) \o
                            SubSeq(finalize_tasks, i+1, Len(finalize_tasks))
  /\ UNCHANGED <<wire, pc, closedown, loop, store, helpers>>

\* update_completion_queue(): a poll reports the entries whose token is None
\* or done.  It takes them in the order of the list, here one per step.
Feed ==
  /\ LoopFree
  /\ feeder = "running"
  /\ \E i \in 1..Len(finalize_tasks) :
       /\ finalize_tasks[i].by \notin flush_events
       /\ \A j \in 1..(i-1) : finalize_tasks[j].by \in flush_events
       /\ completion_queue' = Append(completion_queue, finalize_tasks[i])
       /\ finalize_tasks' = SubSeq(finalize_tasks, 1, i-1) \o
                            SubSeq(finalize_tasks, i+1, Len(finalize_tasks))
  /\ UNCHANGED <<wire, pc, closedown, loop, store, helpers>>

\* Variant: the feeder ends with the flag, whatever is left.
FeederEndsAtOnce ==
  /\ LoopFree
  /\ feeder = "running"
  /\ pc[Main] # "serving"
  /\ feeder' = "ended"
  /\ UNCHANGED <<wire, pc, closedown, loop, store, results, timer, fresh>>

\* _shutdown_flag is set and nothing is left to report.
FeederEnds ==
  /\ LoopFree
  /\ feeder = "running"
  /\ pc[Main] # "serving"
  /\ finalize_tasks = <<>>
  /\ feeder' = "ended"
  /\ UNCHANGED <<wire, pc, closedown, loop, store, results, timer, fresh>>

\* save_batch_if_past_timeout(): no data came for BATCH_COMMIT_TIMEOUT.
Timeout ==
  /\ LoopFree
  /\ timer = "running"
  /\ fresh
  /\ \/ /\ Flush
        /\ fresh' = FALSE
        /\ UNCHANGED timer
     \/ /\ FlushFails
        /\ timer' = "dead"
        /\ UNCHANGED fresh
     \/ /\ lock_leaked
        /\ timer' = "locked"
        /\ UNCHANGED <<store, fresh>>
  /\ UNCHANGED <<wire, pc, closedown, loop, results, feeder>>

\* StorageControllerHandle.shutdown() sends the signal.
SendShutdown ==
  /\ LoopFree
  /\ ~shutdown_queue
  /\ shutdown_queue' = TRUE
  /\ UNCHANGED <<wire, pc, todo, closing, tokens, cut, loop, store, results,
                 helpers>>

\* should_shutdown() returns; _run() cancels the timer and enters
\* shutdown(), which lists the visits that still have tasks.
BeginShutdown ==
  /\ pc[Main] = "serving"
  /\ shutdown_queue
  /\ pc' = [pc EXCEPT ![Main] = "finalizing"]
  /\ timer' = "cancelled"
  /\ todo' = {v \in Visits : store_record_tasks[v] # {}}
  /\ cut' = read
  /\ UNCHANGED <<wire, closing, tokens, shutdown_queue, loop, store, results,
                 feeder, fresh>>

ShutdownFinalize ==
  /\ pc[Main] = "finalizing"
  /\ \E v \in todo :
       /\ todo' = todo \ {v}
       /\ closing' = v
       /\ Finalize(Main, v, FALSE, <<Main, v>>)
  /\ UNCHANGED <<wire, cut, shutdown_queue, ready, failed, completion_queue,
                 helpers>>

\* flush_cache(), then the wait for the feeder.
ShutdownFlush ==
  /\ pc[Main] = "finalizing"
  /\ todo = {}
  /\ \/ /\ Flush
        /\ pc' = [pc EXCEPT ![Main] = "draining"]
     \/ /\ FlushFails
        /\ pc' = [pc EXCEPT ![Main] = "dead"]
     \/ /\ lock_leaked
        /\ pc' = [pc EXCEPT ![Main] = "locked"]
        /\ UNCHANGED store
  /\ UNCHANGED <<wire, closedown, loop, results, helpers>>

\* Variant: the feeder is not awaited.
ShutdownResumeAtOnce ==
  /\ pc[Main] = "draining"
  /\ pc' = [pc EXCEPT ![Main] = "reporting"]
  /\ UNCHANGED <<wire, closedown, loop, store, results, helpers>>

ShutdownResume ==
  /\ pc[Main] = "draining"
  /\ feeder = "ended"
  /\ pc' = [pc EXCEPT ![Main] = "reporting"]
  /\ UNCHANGED <<wire, closedown, loop, store, results, helpers>>

\* The visits that shutdown() finalized, once their tokens are done.
ShutdownReport ==
  /\ pc[Main] = "reporting"
  /\ \E v \in tokens :
       /\ <<Main, v>> \notin flush_events
       /\ tokens' = tokens \ {v}
       /\ completion_queue' =
            Append(completion_queue, [visit |-> v, success |-> FALSE,
                                      by |-> <<Main, v>>, found |-> TRUE])
  /\ UNCHANGED <<wire, pc, todo, closing, cut, shutdown_queue, loop, store,
                 finalize_tasks, helpers>>

\* The provider's shutdown(): SQLite commits once more, Arrow only logs what
\* it still holds.
ShutdownEnds ==
  /\ pc[Main] = "reporting"
  /\ tokens = {}
  /\ pc' = [pc EXCEPT ![Main] = "stopped"]
  /\ IF Provider = "sqlite"
       THEN Flush
       ELSE UNCHANGED store
  /\ UNCHANGED <<wire, closedown, loop, results, helpers>>

----------------------------------------------------------------------------
Read(c) == ReadRecord(c) \/ ReadSkip(c) \/ ReadFatal(c) \/ ReadFinalize(c)

Shutdown == \/ BeginShutdown \/ ShutdownFinalize \/ ShutdownFlush
            \/ ShutdownResume \/ ShutdownReport \/ ShutdownEnds

Next ==
  \/ \E c \in Conns : Read(c)
  \/ \E p \in Procs : Resume(p)
  \/ RunTask
  \/ Feed
  \/ FeederEnds
  \/ Timeout
  \/ SendShutdown
  \/ Shutdown

Spec == Init /\ [][Next]_vars

\* The event loop runs every coroutine that can run; the sockets deliver what
\* was sent; the sleeps of the feeder, the timer and should_shutdown() end.
\* The shutdown signal itself may never come.
Fairness ==
  /\ \A c \in Conns : WF_vars(Read(c))
  /\ \A p \in Procs : WF_vars(Resume(p))
  /\ WF_vars(RunTask)
  /\ WF_vars(Feed)
  /\ WF_vars(FeederEnds)
  /\ WF_vars(Timeout)
  /\ WF_vars(Shutdown)

FairSpec == Spec /\ Fairness

----------------------------------------------------------------------------
(* Properties.                                                             *)

States == {"serving", "reading", "join", "locked", "finalizing", "draining",
           "reporting", "stopped", "dead"}

\* Types of the state, for both providers.
TypeOK ==
  /\ stream \in [Conns -> Seq(Msg)]
  /\ read \in [Conns -> Nat]
  /\ \A c \in Conns : read[c] <= Len(stream[c])
  /\ pc \in [Procs -> States]
  /\ todo \subseteq Visits
  /\ closing \in Visits \cup {NoVisit}
  /\ tokens \subseteq Visits
  /\ cut \in [Conns -> Nat]
  /\ shutdown_queue \in BOOLEAN
  /\ store_record_tasks \in [Visits -> SUBSET Records]
  /\ ready \in Seq(Records)
  /\ failed \subseteq Records
  /\ cached \in [Visits -> SUBSET Items]
  /\ batched \subseteq Items
  /\ nbatches \in Nat
  /\ flush_events \subseteq Finalizations
  /\ lock_leaked \in BOOLEAN
  /\ saved \subseteq Items
  /\ finalize_tasks \in Seq(Entries)
  /\ completion_queue \in Seq(Entries)
  /\ feeder \in {"running", "ended"}
  /\ timer \in {"running", "cancelled", "dead", "locked"}
  /\ fresh \in BOOLEAN

Reports == {completion_queue[k] : k \in 1..Len(completion_queue)}

\* The storable records that the sender of Finalize message b submitted for
\* the visit before it on the same connection.  For the visits finalized by
\* shutdown() there is no such message.
Covered(b) ==
  IF b[1] = Main THEN {}
  ELSE {<<b[1], j>> : j \in {k \in 1..(b[2]-1) :
                              /\ stream[b[1]][k].type = "record"
                              /\ stream[b[1]][k].visit = MsgOf(b).visit}}

\* What a report says is in persistent storage: the records sent before the
\* Finalize and, for an interrupted visit, the row of incomplete_visits.  It
\* holds of every finalization that found tasks, whatever else goes wrong.
ReportedIsSaved ==
  \A e \in Reports :
    e.found => Covered(e.by) \cup Marker(e.visit, e.success) \subseteq saved

\* The comment "Either way all data for the visit_id was saved out" at the
\* feeder's test for a missing or finished token: it says it of every report.
EitherWaySaved == \A e \in Reports : Covered(e.by) \subseteq saved

\* A visit whose first report says that it was interrupted has its row in
\* incomplete_visits.  mark_done() takes the first report only, so whoever
\* reads the data later learns what the callback was told.
InterruptedIsMarked ==
  \A k \in 1..Len(completion_queue) :
    LET e == completion_queue[k]
    IN  /\ ~e.success
        /\ \A m \in 1..(k-1) : completion_queue[m].visit # e.visit
        => Incomplete(e.visit) \in saved

\* An orderly shutdown loses no record that a handler had read before it
\* began, whatever was pending, cached or half finalized at that moment.
NothingLostAtShutdown ==
  pc[Main] = "stopped" =>
    \A c \in Conns : \A j \in 1..cut[c] :
      stream[c][j].type = "record" => <<c, j>> \in saved

Pending == {finalize_tasks[i] : i \in 1..Len(finalize_tasks)}

\* Every Finalize message that a living handler has read is at exactly one
\* place: being worked on, waiting for its token, or reported; and it is
\* reported once.
AccountedOnce ==
  \A c \in Conns : \A i \in 1..read[c] :
    stream[c][i].type = "finalize" /\ pc[c] \in {"reading", "join"} =>
      LET n(s) == Cardinality({k \in 1..Len(s) : s[k].by = <<c, i>>})
          busy == IF i = read[c] /\ pc[c] = "join" THEN 1 ELSE 0
      IN  n(finalize_tasks) + n(completion_queue) + busy = 1

\* The verdict that shutdown() reports on a visit never overtakes the one of
\* a Finalize message that was dealt with before the shutdown began:
\* mark_done() takes the first report only.
OwnVerdictFirst ==
  \A k \in 1..Len(completion_queue) :
    completion_queue[k].by[1] = Main =>
      \A c \in Conns : \A i \in 1..(cut[c] - 1) :
        /\ stream[c][i].type = "finalize"
        /\ stream[c][i].visit = completion_queue[k].visit
        => \E m \in 1..(k-1) : completion_queue[m].by = <<c, i>>

\* Each finalization has one fate, and its verdict is the one that counts.
FinalizeAccounted == AccountedOnce /\ OwnVerdictFirst

\* No message makes its handler raise, and none finalizes the visit of
\* another one.
Harmonious ==
  /\ \A c \in Conns : \A i \in 1..Len(stream[c]) :
       /\ stream[c][i].type # "fatal"
       /\ stream[c][i].type = "alien" => Provider = "sqlite"
  /\ \A c, d \in Conns :
       \A i \in 1..Len(stream[c]) : \A j \in 1..Len(stream[d]) :
         /\ stream[c][i].type = "finalize"
         /\ stream[d][j].type = "finalize"
         /\ stream[c][i].visit = stream[d][j].visit
         => <<c, i>> = <<d, j>>

\* A handler is lost to an error only if a message deserves it, if a write
\* fails, or if two finalizations of one visit meet, and before the shutdown
\* that takes two Finalize messages.
HandlersSurvive ==
  Harmonious /\ pc[Main] = "serving" => \A c \in Conns : pc[c] # "dead"

Over == pc[Main] \in {"stopped", "dead"}

Reported(v) == \E e \in Reports : e.visit = v

\* A finalization whose event no flush is bound to set any more: the last
\* flush of the shutdown is over, or the timer flushed between the reading of
\* the Finalize message and the end of the tasks it awaits.
Stranded == /\ flush_events # {}
            /\ pc[Main] = "draining" \/ (pc[Main] = "serving" /\ ~fresh)

\* What is finalized while the controller serves is reported in the end: the
\* timer or the shutdown flushes, unless the event was created too late.
FinalizedReported ==
  \A v \in Visits :
    (pc[Main] = "serving" /\ \E e \in Pending : e.visit = v) ~>
      (Reported(v) \/ pc[Main] = "dead" \/ Stranded)

\* StorageControllerHandle.shutdown(): "Terminate the storage controller
\* process".
ShutdownTerminates == shutdown_queue ~> Over

\* With Arrow, a shutdown does not end in two cases only: a finalization's
\* event was created after the last flush, or a write failed and took
\* storing_lock with it.
ShutdownSettles == shutdown_queue ~> (Over \/ Stranded \/ lock_leaked)

\* A visit that shutdown() finds unfinalized is reported as interrupted, so
\* that its callback runs, unless the shutdown itself does not end, or a
\* handler takes the visit over and then dies of a failed write or finalizes
\* it when the feeder has already ended.
LeftoversReported ==
  \A v \in Visits :
    v \in todo ~>
      \/ Reported(v) \/ pc[Main] = "dead" \/ Stranded \/ lock_leaked
      \/ \E c \in Conns : /\ pc[c] = "dead"
                          /\ Current(c).type = "finalize"
                          /\ Current(c).visit = v
      \/ feeder = "ended" /\ \E e \in Pending : e.visit = v

----------------------------------------------------------------------------
(* The abstract specification of what the controller promises.             *)

FinalizeMessages ==
  UNION {{<<c, i>> : i \in {k \in 1..Len(stream[c]) :
                              stream[c][k].type = "finalize"}} : c \in Conns}

\* The stage of Finalize message b.
Stage(b) ==
  CASE \E e \in Reports : e.by = b -> "reported"
    [] \E e \in Pending : e.by = b ->
         IF \E e \in Pending : e.by = b /\ ~e.found THEN "dismissed"
         ELSE IF b \in flush_events THEN "waiting" ELSE "durable"
    [] b[2] > read[b[1]] -> "unread"
    [] b[2] = read[b[1]] /\ pc[b[1]] \in {"join", "locked"} -> "waiting"
    [] OTHER -> "lost"

Owed(b) == Covered(b) \cup Marker(MsgOf(b).visit, MsgOf(b).success)

Promise ==
  INSTANCE FinalizePromise
    WITH stage <- [b \in FinalizeMessages |-> Stage(b)],
         owed  <- [b \in FinalizeMessages |-> Owed(b)]

\* The controller with either provider keeps the promise.
KeepsPromise == Promise!Spec

============================================================================
