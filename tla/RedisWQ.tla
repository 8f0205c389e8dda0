------------------------------ MODULE RedisWQ ------------------------------
(***************************************************************************)
(* The work queue in Redis that crawl workers share                        *)
(* (openwpm/utilities/rediswq.py): its four keys, and the commands that    *)
(* RedisWQ sends to the server.  The server executes one command, or one   *)
(* transaction, at a time; a method of RedisWQ that sends several commands *)
(* is several actions of its caller (module CrawlWorkers).                 *)
(***************************************************************************)
EXTENDS Naturals, Sequences

CONSTANTS
  Jobs,        \* the items of the queue
  Workers,     \* the sessions that use it
  NoWorker,    \* no session: there is no lease
  MaxRetries   \* max_retries

ASSUME NoWorkerAssumption == NoWorker \notin Workers
ASSUME MaxRetriesAssumption == MaxRetries \in Nat

VARIABLES
  main_q,      \* the list name: pushed and popped on the right
  processing,  \* the list name:processing
  retries,     \* the hash name:retries, 0 for a job that has no field
  lease,       \* the keys name:leased_by_session:..., NoWorker if expired
  watch        \* for each session, whether what it watches is unchanged

queue == <<main_q, processing, retries, lease, watch>>

----------------------------------------------------------------------------
Elements(s) == {s[i] : i \in 1..Len(s)}

\* No job occurs twice in the list s.
Distinct(s) == \A i, k \in 1..Len(s) : s[i] = s[k] => i = k

\* The list s without the first j in it.
Removed(s, j) ==
  LET i == CHOOSE k \in 1..Len(s) : s[k] = j /\ \A l \in 1..k - 1 : s[l] # j
  IN  SubSeq(s, 1, i - 1) \o SubSeq(s, i + 1, Len(s))

\* LREM of every j: there is at most one (JobInOnePlace of CrawlWorkers).
Without(s, j) == IF j \in Elements(s) THEN Removed(s, j) ELSE s

\* A change of a watched key breaks every watch; a command that changes
\* nothing breaks none.
KeepWatch ==
  watch' = [w \in Workers |-> watch[w] /\ UNCHANGED <<processing, retries>>]

QueueInit(contents) ==
  /\ main_q = contents
  /\ processing = <<>>
  /\ retries = [j \in Jobs |-> 0]
  /\ lease = [j \in Jobs |-> NoWorker]
  /\ watch = [w \in Workers |-> FALSE]

\* BRPOPLPUSH: the rightmost job of the main list goes to processing.
Pop(j) ==
  /\ main_q # <<>> /\ j = main_q[Len(main_q)]
  /\ main_q' = SubSeq(main_q, 1, Len(main_q) - 1)
  /\ processing' = <<j>> \o processing
  /\ UNCHANGED <<retries, lease>>
  /\ KeepWatch

\* SETEX: the lease of job j belongs to w, whoever had it.
SetLease(w, j) ==
  /\ lease' = [lease EXCEPT ![j] = w]
  /\ UNCHANGED <<main_q, processing, retries, watch>>

\* A lease runs out, at any time.
Expire(j) ==
  /\ lease[j] # NoWorker
  /\ SetLease(NoWorker, j)

\* WATCH on processing and retries.
WatchKeys(w) ==
  /\ watch' = [watch EXCEPT ![w] = TRUE]
  /\ UNCHANGED <<main_q, processing, retries, lease>>

\* Whether a job whose lease has expired is given up.
Exhausted(j) == retries[j] + 1 > MaxRetries

\* EXEC of LREM and HDEL.
GiveUp(j) ==
  /\ processing' = Without(processing, j)
  /\ retries' = [retries EXCEPT ![j] = 0]
  /\ UNCHANGED <<main_q, lease>>
  /\ KeepWatch

\* EXEC of LREM, RPUSH and HINCRBY.
Requeue(j) ==
  /\ processing' = Without(processing, j)
  /\ main_q' = Append(main_q, j)
  /\ retries' = [retries EXCEPT ![j] = @ + 1]
  /\ UNCHANGED lease
  /\ KeepWatch

\* The three commands of complete(): LREM, HDEL and DEL.
RemoveJob(j) ==
  /\ processing' = Without(processing, j)
  /\ UNCHANGED <<main_q, retries, lease>>
  /\ KeepWatch

ForgetRetries(j) ==
  /\ retries' = [retries EXCEPT ![j] = 0]
  /\ UNCHANGED <<main_q, processing, lease>>
  /\ KeepWatch

DropLease(j) == SetLease(NoWorker, j)
=============================================================================
