---------------------------- MODULE CrawlWorkers ----------------------------
(***************************************************************************)
(* The crawl workers (crawler.py) that take jobs from the work queue of    *)
(* module RedisWQ.                                                         *)
(*                                                                         *)
(* The main thread of a worker loops while the queue is not empty: it      *)
(* returns jobs with expired leases to the queue, renews the leases of its *)
(* unsaved jobs, leases a job and visits the site.  The completion thread  *)
(* of its task manager calls back when the data of a visit is saved or the *)
(* visit was interrupted.  Between any two commands to the server other    *)
(* threads and workers may act, leases may expire, and a worker may crash  *)
(* or be told to stop.                                                     *)
(*                                                                         *)
(* Definitions marked "Variant:" are defective versions of the definition  *)
(* that follows them.  No specification uses them: the model checker swaps *)
(* them in to show that a property notices the defect.                     *)
(***************************************************************************)
EXTENDS RedisWQ, FiniteSets

CONSTANTS
  NoJob,       \* no job: the value of a variable that is not in use
  Contents,    \* what is in the queue when the workers start
  MaxCrashes,  \* bound: workers that crash
  MaxSignals,  \* bound: workers that are told to stop
  MaxUnsaved,  \* bound: visits of a worker that wait for their callback
  MaxAttempts  \* bound: where the history variable attempts stops counting

ASSUME NoJobAssumption == NoJob \notin Jobs
\* Each job is in the queue once (it carries its rank), and somebody works.
ASSUME ContentsAssumption == Contents \in Seq(Jobs) /\ Distinct(Contents)
ASSUME WorkersAssumption == Workers # {}
ASSUME BoundsAssumption == /\ MaxCrashes \in Nat /\ MaxSignals \in Nat
                           /\ MaxUnsaved \in Nat \ {0}
                           /\ MaxAttempts \in Nat /\ MaxAttempts > MaxRetries + 1

VARIABLES
  place,       \* where the main thread of each worker is
  todo,        \* the jobs its loop has still to look at
  job,         \* the job it has leased
  unsaved,     \* unsaved_jobs, a list
  callback,    \* where the completion thread is
  saving,      \* the job it has been called back for
  completed,   \* history: jobs whose data was reported as saved
  given_up,    \* history: jobs removed after too many retries
  attempts     \* history: how often each job was leased

work == <<place, todo, job>>
back == <<unsaved, callback, saving>>
past == <<completed, given_up, attempts>>

vars == <<queue, work, back, past>>

----------------------------------------------------------------------------
Positions ==
  {"loop", "empty", "closing", "expired", "scan", "watch", "transact", "lock",
   "renew", "extend", "lease", "grant", "done", "crashed", "stopping", "stuck",
   "stopped"}

Running(w) == place[w] \notin {"done", "crashed", "stuck", "stopped"}
Crashed == {w \in Workers : place[w] = "crashed"}
Signalled == {w \in Workers : place[w] \in {"stopping", "stuck", "stopped"}}
Settled(j) == j \in completed \cup given_up

Goto(w, p) == place' = [place EXCEPT ![w] = p]

\* A loop over the jobs s: the next iteration is at p, what follows it at q.
Loop(w, s, p, q) ==
  /\ todo' = [todo EXCEPT ![w] = s]
  /\ Goto(w, IF s = <<>> THEN q ELSE p)

NextExpired(w) == Loop(w, Tail(todo[w]), "scan", "lock")
NextUnsaved(w) == Loop(w, Tail(todo[w]), "renew", "lease")

\* unsaved_jobs_lock: the renewal loop and the callback exclude each other.
RenewalHolds(w) == place[w] \in {"renew", "extend"}
CallbackHolds(w) == callback[w] # "idle"

Init ==
  /\ QueueInit(Contents)
  /\ place = [w \in Workers |-> "loop"]
  /\ todo = [w \in Workers |-> <<>>]
  /\ job = [w \in Workers |-> NoJob]
  /\ unsaved = [w \in Workers |-> <<>>]
  /\ callback = [w \in Workers |-> "idle"]
  /\ saving = [w \in Workers |-> NoJob]
  /\ completed = {} /\ given_up = {}
  /\ attempts = [j \in Jobs |-> 0]

----------------------------------------------------------------------------
(* while not job_queue.empty() *)

\* Variant: work being done is not counted.
CheckMainOnly(w) ==
  /\ place[w] = "loop"
  /\ Goto(w, IF main_q = <<>> THEN "closing" ELSE "expired")
  /\ UNCHANGED <<queue, todo, job, back, past>>

\* LLEN of the main list; if it is empty, the processing list comes next.
CheckMain(w) ==
  /\ place[w] = "loop"
  /\ Goto(w, IF main_q = <<>> THEN "empty" ELSE "expired")
  /\ UNCHANGED <<queue, todo, job, back, past>>

\* LLEN of the processing list; if it is empty too, the worker is finished.
CheckProcessing(w) ==
  /\ place[w] = "empty"
  /\ Goto(w, IF processing = <<>> THEN "closing" ELSE "expired")
  /\ UNCHANGED <<queue, todo, job, back, past>>

\* manager.close() returns when every callback has been invoked.
Closed(w) ==
  /\ place[w] = "closing"
  /\ unsaved[w] = <<>> /\ callback[w] = "idle"
  /\ Goto(w, "done")
  /\ UNCHANGED <<queue, todo, job, back, past>>

----------------------------------------------------------------------------
(* check_expired_leases and _maybe_renew_job *)

\* LRANGE of the processing list.
ListProcessing(w) ==
  /\ place[w] = "expired"
  /\ Loop(w, processing, "scan", "lock")
  /\ UNCHANGED <<queue, job, back, past>>

\* Variant: a job without a lease is taken for one that is still leased.
CheckLeaseNever(w) ==
  /\ place[w] = "scan"
  /\ NextExpired(w)
  /\ UNCHANGED <<queue, job, back, past>>

\* EXISTS on the lease of the next job.
CheckLease(w) ==
  /\ place[w] = "scan"
  /\ IF lease[Head(todo[w])] # NoWorker
     THEN NextExpired(w)
     ELSE Goto(w, "watch") /\ UNCHANGED todo
  /\ UNCHANGED <<queue, job, back, past>>

\* WATCH; then the job must still be in the processing list.  What is read
\* after the WATCH is unchanged if the transaction succeeds.
WatchJob(w) ==
  /\ place[w] = "watch"
  /\ IF Head(todo[w]) \in Elements(processing)
     THEN WatchKeys(w) /\ Goto(w, "transact") /\ UNCHANGED todo
     ELSE UNCHANGED queue /\ NextExpired(w)
  /\ UNCHANGED <<job, back, past>>

\* Variant: a transaction without WATCH.
TransactUnwatched(w) ==
  /\ place[w] = "transact"
  /\ LET j == Head(todo[w]) IN
       IF Exhausted(j)
       THEN GiveUp(j) /\ given_up' = given_up \cup {j}
       ELSE Requeue(j) /\ UNCHANGED given_up
  /\ NextExpired(w)
  /\ UNCHANGED <<job, back, completed, attempts>>

\* Variant: one retry too many.
TransactOnceMore(w) ==
  /\ place[w] = "transact"
  /\ LET j == Head(todo[w]) IN
       CASE ~watch[w] -> UNCHANGED <<queue, given_up>>
         [] watch[w] /\ retries[j] > MaxRetries ->
              GiveUp(j) /\ given_up' = given_up \cup {j}
         [] watch[w] /\ retries[j] <= MaxRetries ->
              Requeue(j) /\ UNCHANGED given_up
  /\ NextExpired(w)
  /\ UNCHANGED <<job, back, completed, attempts>>

\* EXEC: nothing happens if a watched key has changed (WatchError).
Transact(w) ==
  /\ place[w] = "transact"
  /\ LET j == Head(todo[w]) IN
       CASE ~watch[w] -> UNCHANGED <<queue, given_up>>
         [] watch[w] /\ Exhausted(j) ->
              GiveUp(j) /\ given_up' = given_up \cup {j}
         [] watch[w] /\ ~Exhausted(j) ->
              Requeue(j) /\ UNCHANGED given_up
  /\ NextExpired(w)
  /\ UNCHANGED <<job, back, completed, attempts>>

----------------------------------------------------------------------------
(* The leases of the worker's own unsaved jobs *)

\* with unsaved_jobs_lock
LockUnsaved(w) ==
  /\ place[w] = "lock"
  /\ ~CallbackHolds(w)
  /\ Loop(w, unsaved[w], "renew", "lease")
  /\ UNCHANGED <<queue, job, back, past>>

\* renew_lease: GET the lease, whoever holds it.
CheckOwnLease(w) ==
  /\ place[w] = "renew"
  /\ IF lease[Head(todo[w])] # NoWorker
     THEN Goto(w, "extend") /\ UNCHANGED todo
     ELSE NextUnsaved(w)
  /\ UNCHANGED <<queue, job, back, past>>

\* renew_lease: SETEX.
ExtendLease(w) ==
  /\ place[w] = "extend"
  /\ SetLease(w, Head(todo[w]))
  /\ NextUnsaved(w)
  /\ UNCHANGED <<job, back, past>>

----------------------------------------------------------------------------
(* lease, and the visit *)

Counted(n) == IF n < MaxAttempts THEN n + 1 ELSE n

\* BRPOPLPUSH, or its timeout.
Lease(w) ==
  /\ place[w] = "lease"
  /\ \/ /\ main_q = <<>>
        /\ Goto(w, "loop")
        /\ UNCHANGED <<queue, job, attempts>>
     \/ /\ Len(unsaved[w]) < MaxUnsaved
        /\ \E j \in Elements(main_q) :
             /\ Pop(j)
             /\ job' = [job EXCEPT ![w] = j]
             /\ attempts' = [attempts EXCEPT ![j] = Counted(@)]
        /\ Goto(w, "grant")
  /\ UNCHANGED <<todo, back, completed, given_up>>

\* SETEX: from here on other workers leave the job alone.  The visit itself
\* only takes time: the main thread goes on when its command thread is over.
Grant(w) ==
  /\ place[w] = "grant"
  /\ SetLease(w, job[w])
  /\ unsaved' = [unsaved EXCEPT ![w] = Append(@, job[w])]
  /\ job' = [job EXCEPT ![w] = NoJob]
  /\ Goto(w, "loop")
  /\ UNCHANGED <<todo, callback, saving, past>>

----------------------------------------------------------------------------
(* The callback of get_job_completion_callback *)

\* The visit was interrupted: the job stays in the processing list.
Interrupted(w) ==
  /\ Running(w) /\ callback[w] = "idle" /\ ~RenewalHolds(w)
  /\ \E j \in Elements(unsaved[w]) :
       unsaved' = [unsaved EXCEPT ![w] = Removed(@, j)]
  /\ UNCHANGED <<queue, work, callback, saving, past>>

\* The visit succeeded: complete(), LREM first.
Saved(w) ==
  /\ Running(w) /\ callback[w] = "idle" /\ ~RenewalHolds(w)
  /\ \E j \in Elements(unsaved[w]) :
       /\ saving' = [saving EXCEPT ![w] = j]
       /\ completed' = completed \cup {j}
       /\ RemoveJob(j)
  /\ callback' = [callback EXCEPT ![w] = "hdel"]
  /\ UNCHANGED <<work, unsaved, given_up, attempts>>

Forget(w) ==
  /\ Running(w) /\ callback[w] = "hdel"
  /\ ForgetRetries(saving[w])
  /\ callback' = [callback EXCEPT ![w] = "delete"]
  /\ UNCHANGED <<work, unsaved, saving, past>>

\* DEL of the lease; the job is saved.
Completed(w) ==
  /\ Running(w) /\ callback[w] = "delete"
  /\ DropLease(saving[w])
  /\ callback' = [callback EXCEPT ![w] = "idle"]
  /\ unsaved' = [unsaved EXCEPT ![w] = Removed(@, saving[w])]
  /\ saving' = [saving EXCEPT ![w] = NoJob]
  /\ UNCHANGED <<work, past>>

----------------------------------------------------------------------------
\* The worker disappears with what it had in memory.
Crash(w) ==
  /\ Running(w) /\ Cardinality(Crashed) < MaxCrashes
  /\ Goto(w, "crashed")
  /\ unsaved' = [unsaved EXCEPT ![w] = <<>>]
  /\ callback' = [callback EXCEPT ![w] = "idle"]
  /\ todo' = [todo EXCEPT ![w] = <<>>]
  /\ job' = [job EXCEPT ![w] = NoJob]
  /\ saving' = [saving EXCEPT ![w] = NoJob]
  /\ UNCHANGED <<queue, past>>

\* SIGTERM or SIGINT.  The handler runs in the main thread, whatever that is
\* doing, and takes unsaved_jobs_lock: for ever, if the main thread holds it.
\* (A signal in the middle of manager.close() is left out.)
Signal(w) ==
  /\ Running(w) /\ place[w] # "closing" /\ w \notin Signalled
  /\ Cardinality(Signalled) < MaxSignals
  /\ Goto(w, IF RenewalHolds(w) THEN "stuck" ELSE "stopping")
  /\ todo' = [todo EXCEPT ![w] = <<>>]
  /\ job' = [job EXCEPT ![w] = NoJob]
  /\ UNCHANGED <<queue, back, past>>

\* close(relaxed=False) returns when every visit was reported, and the worker
\* exits.
Stop(w) ==
  /\ place[w] = "stopping"
  /\ unsaved[w] = <<>> /\ callback[w] = "idle"
  /\ Goto(w, "stopped")
  /\ UNCHANGED <<queue, todo, job, back, past>>

LeaseExpires(j) == Expire(j) /\ UNCHANGED <<work, back, past>>

MainStep(w) ==
  \/ CheckMain(w) \/ CheckProcessing(w) \/ Closed(w)
  \/ ListProcessing(w) \/ CheckLease(w) \/ WatchJob(w) \/ Transact(w)
  \/ LockUnsaved(w) \/ CheckOwnLease(w) \/ ExtendLease(w)
  \/ Lease(w) \/ Grant(w) \/ Stop(w)

CallbackStep(w) == Interrupted(w) \/ Saved(w) \/ Forget(w) \/ Completed(w)

Next ==
  \/ \E w \in Workers : MainStep(w) \/ CallbackStep(w) \/ Crash(w) \/ Signal(w)
  \/ \E j \in Jobs : LeaseExpires(j)

Spec == Init /\ [][Next]_vars

(***************************************************************************)
(* Fairness: the threads of a worker that has not crashed run; the         *)
(* callback of every visit comes, which is what the task manager promises  *)
(* with a storage provider that reports leftovers (strong fairness: the    *)
(* main thread gives unsaved_jobs_lock back in every iteration); time      *)
(* passes, so a lease expires if it is not renewed.                        *)
(***************************************************************************)
Fairness ==
  /\ \A w \in Workers : WF_vars(MainStep(w)) /\ SF_vars(CallbackStep(w))
  /\ \A j \in Jobs : WF_vars(LeaseExpires(j))

FairSpec == Spec /\ Fairness

----------------------------------------------------------------------------
(* Properties. *)

\* Every variable has its type: the keys of the queue and the workers' state.
TypeOK ==
  /\ main_q \in Seq(Jobs) /\ processing \in Seq(Jobs)
  /\ retries \in [Jobs -> 0..MaxRetries]
  /\ lease \in [Jobs -> Workers \cup {NoWorker}]
  /\ watch \in [Workers -> BOOLEAN]
  /\ place \in [Workers -> Positions]
  /\ todo \in [Workers -> Seq(Jobs)]
  /\ job \in [Workers -> Jobs \cup {NoJob}]
  /\ saving \in [Workers -> Jobs \cup {NoJob}]
  /\ unsaved \in [Workers -> Seq(Jobs)]
  /\ callback \in [Workers -> {"idle", "hdel", "delete"}]
  /\ completed \subseteq Jobs /\ given_up \subseteq Jobs
  /\ attempts \in [Jobs -> 0..MaxAttempts]

Places(j) == {<<"main", i>> : i \in {k \in 1..Len(main_q) : main_q[k] = j}}
               \cup
             {<<"processing", i>> :
                i \in {k \in 1..Len(processing) : processing[k] = j}}

\* No job is lost and none is duplicated, whichever workers renew, complete,
\* crash or race: a job that is neither completed nor given up is in exactly
\* one place of the two lists of RedisWQ, any other job in at most one.
JobInOnePlace ==
  \A j \in Jobs :
    /\ Cardinality(Places(j)) <= 1
    /\ Places(j) = {} => Settled(j) \/ j \notin Elements(Contents)

\* As long as nobody has completed it, a job is leased at most 1 + max_retries
\* times, however many workers find its lease expired at the same time.
AttemptsBounded ==
  \A j \in Jobs : j \notin completed => attempts[j] <= MaxRetries + 1

\* A worker may leave its loop while another is moving a job back to the main
\* list, but not all of them do: unless a worker crashes or is told to stop,
\* somebody runs as long as a job is neither completed nor given up.
SomebodyStays ==
  Crashed \cup Signalled = {} =>
    \/ \A j \in Elements(Contents) : Settled(j)
    \/ \E w \in Workers : Running(w)

\* Every job is completed or given up in the end if a worker goes on running,
\* whatever the others do; and a worker that was told to stop does not go on
\* for ever.
EveryJobSettled ==
  <>(\/ \A j \in Elements(Contents) : Settled(j)
     \/ \A w \in Workers : ~Running(w))
=============================================================================
