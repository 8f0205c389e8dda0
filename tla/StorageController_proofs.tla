---------------------- MODULE StorageController_proofs ----------------------
(***************************************************************************)
(* Invariance proofs about StorageController, for every set of visits and  *)
(* connections, every workload, both providers and every cache size.       *)
(*                                                                         *)
(* The inductive invariant follows a record from the event loop to the     *)
(* provider's cache, its batches and persistent storage, and states what   *)
(* each finalization may rely on at every stage.  All steps but one do     *)
(* little to the store, so the proof first shows how any step can change   *)
(* it (StoreMonotone) and what a finalization that runs to its end leaves  *)
(* behind (CompleteEffect), and then takes the conjuncts one by one.       *)
(* The second part of the module (FateInv and after) is about what becomes *)
(* of every Finalize message.                                              *)
(***************************************************************************)
EXTENDS StorageController, FiniteSetTheorems, TLAPS

(* The parts of the inductive invariant. *)

\* Whoever awaits the tasks of a visit awaits those of a visit.
JoinShape ==
  \A p \in Procs : pc[p] = "join" =>
    IF p = Main THEN closing \in Visits ELSE read[p] \in Nat \ {0}

TypeInv == TypeOK /\ JoinShape

\* The SQLite provider has no batches and no events, and takes no lock.
SqliteShape ==
  Provider = "sqlite" => batched = {} /\ flush_events = {} /\ ~lock_leaked

\* The task of a record that has not run is in the list of its visit.
TasksScheduled ==
  \A x \in Scheduled :
    /\ x[2] \in 1..read[x[1]]
    /\ MsgOf(x).type \in {"record", "alien"}
    /\ x \in store_record_tasks[MsgOf(x).visit]

Received(c, j) ==
  /\ c \in Conns
  /\ j \in 1..read[c]
  /\ stream[c][j].type = "record"

\* A record that was read is somewhere between the loop and the disk.
RecordsAccounted ==
  \A c \in Conns : \A j \in 1..read[c] :
    Received(c, j) =>
      <<c, j>> \in Scheduled \cup cached[stream[c][j].visit] \cup batched \cup saved

\* The list of a visit forgets a record only once it is out of the cache,
\* or if the finalization hangs on a leaked lock.
Settled ==
  \A c \in Conns : \A j \in 1..read[c] :
    Received(c, j) =>
      \/ <<c, j>> \in store_record_tasks[stream[c][j].visit]
      \/ <<c, j>> \in batched \cup saved
      \/ lock_leaked

\* What an entry of finalize_tasks or completion_queue vouches for.
Claim(e) == Covered(e.by) \cup Marker(e.visit, e.success)

\* A finalization that found tasks is backed by the batches, and once its
\* event is set by persistent storage.
PendingBacked ==
  \A e \in Pending : e.found =>
    /\ Claim(e) \subseteq saved \cup batched
    /\ e.by \notin flush_events => Claim(e) \subseteq saved

TokensBacked ==
  \A v \in tokens :
    /\ Incomplete(v) \in saved \cup batched
    /\ <<Main, v>> \notin flush_events => Incomplete(v) \in saved

IInv ==
  /\ TypeInv
  /\ SqliteShape
  /\ TasksScheduled
  /\ RecordsAccounted
  /\ Settled
  /\ PendingBacked
  /\ TokensBacked
  /\ ReportedIsSaved

\* Every entry, whether it found tasks or not.
PendingSaved == \A e \in Pending : Covered(e.by) \subseteq saved

SqliteInv == Provider = "sqlite" => PendingSaved /\ EitherWaySaved

CutShape == \A c \in Conns : cut[c] <= read[c]

\* How far the shutdown has come with the records it answers for: what is not
\* out of the cache yet belongs to a visit still to be finalized.
ShutdownCovers ==
  \A c \in Conns : \A j \in 1..cut[c] :
    stream[c][j].type = "record" =>
      LET v == stream[c][j].visit
          kept == <<c, j>> \in batched \cup saved \/ lock_leaked
      IN  /\ pc[Main] = "finalizing" => kept \/ v \in todo
          /\ pc[Main] = "join" => kept \/ v \in todo \cup {closing}
          /\ pc[Main] \in {"draining", "reporting", "stopped"} => <<c, j>> \in saved

ShutdownInv == IInv /\ CutShape /\ ShutdownCovers

----------------------------------------------------------------------------
(* Sequences. *)

Elements(s) == {s[i] : i \in 1..Len(s)}

WithoutAt(s, i) == SubSeq(s, 1, i-1) \o SubSeq(s, i+1, Len(s))

LEMMA AppendElements ==
  ASSUME NEW S, NEW s \in Seq(S), NEW x
  PROVE  Elements(Append(s, x)) = Elements(s) \cup {x}
<1>1. Elements(Append(s, x)) \subseteq Elements(s) \cup {x}
  BY DEF Elements
<1>2. Elements(s) \cup {x} \subseteq Elements(Append(s, x))
  <2>1. \A i \in 1..Len(s) : s[i] \in Elements(Append(s, x))
    <3> TAKE i \in 1..Len(s)
    <3>1. i \in 1..Len(Append(s, x)) /\ Append(s, x)[i] = s[i]
      OBVIOUS
    <3> QED  BY <3>1 DEF Elements
  <2>2. x \in Elements(Append(s, x))
    <3>1. Len(s) + 1 \in 1..Len(Append(s, x)) /\ Append(s, x)[Len(s) + 1] = x
      OBVIOUS
    <3> QED  BY <3>1 DEF Elements
  <2> QED  BY <2>1, <2>2 DEF Elements
<1> QED  BY <1>1, <1>2

LEMMA TailElements ==
  ASSUME NEW S, NEW s \in Seq(S), s # <<>>
  PROVE  Elements(s) = {Head(s)} \cup Elements(Tail(s))
<1>1. Len(s) \in Nat /\ Len(s) > 0 /\ Len(Tail(s)) = Len(s) - 1
  OBVIOUS
<1>2. Elements(s) \subseteq {Head(s)} \cup Elements(Tail(s))
  <2> SUFFICES ASSUME NEW i \in 1..Len(s)
               PROVE  s[i] \in {Head(s)} \cup Elements(Tail(s))
    BY DEF Elements
  <2>1. CASE i = 1
    BY <2>1
  <2>2. CASE i # 1
    <3>1. i - 1 \in 1..Len(Tail(s)) /\ Tail(s)[i - 1] = s[i]
      BY <1>1, <2>2
    <3> QED  BY <3>1 DEF Elements
  <2> QED  BY <2>1, <2>2
<1>3. {Head(s)} \cup Elements(Tail(s)) \subseteq Elements(s)
  <2>1. Head(s) \in Elements(s)
    <3>1. 1 \in 1..Len(s) /\ s[1] = Head(s)
      BY <1>1
    <3> QED  BY <3>1 DEF Elements
  <2>2. \A i \in 1..Len(Tail(s)) : Tail(s)[i] \in Elements(s)
    <3> TAKE i \in 1..Len(Tail(s))
    <3>1. i + 1 \in 1..Len(s) /\ Tail(s)[i] = s[i + 1]
      BY <1>1
    <3> QED  BY <3>1 DEF Elements
  <2> QED  BY <2>1, <2>2 DEF Elements
<1> QED  BY <1>2, <1>3

LEMMA WithoutAtElements ==
  ASSUME NEW S, NEW s \in Seq(S), NEW i \in 1..Len(s)
  PROVE  /\ WithoutAt(s, i) \in Seq(S)
         /\ Elements(WithoutAt(s, i)) \subseteq Elements(s)
<1> DEFINE t == SubSeq(s, 1, i-1)
           u == SubSeq(s, i+1, Len(s))
<1>0. i \in Nat /\ Len(s) \in Nat
  OBVIOUS
<1>1. t \in Seq(S) /\ Len(t) = i - 1 /\ \A k \in 1..(i-1) : t[k] = s[k]
  OBVIOUS
<1>2. /\ u \in Seq(S) /\ Len(u) = Len(s) - i
      /\ \A k \in 1..(Len(s) - i) : u[k] = s[i + k]
  OBVIOUS
<1> HIDE DEF t, u
<1>3. t \o u \in Seq(S) /\ Len(t \o u) = Len(s) - 1
  BY <1>1, <1>2
<1>4. \A k \in 1..(Len(s) - 1) : (t \o u)[k] \in Elements(s)
  <2> TAKE k \in 1..(Len(s) - 1)
  <2>1. CASE k < i
    <3>1. k \in 1..Len(s) /\ (t \o u)[k] = s[k]
      BY <1>1, <1>2, <2>1
    <3> QED  BY <3>1 DEF Elements
  <2>2. CASE k >= i
    <3>1. k - (i-1) \in 1..(Len(s) - i) /\ k + 1 \in 1..Len(s)
      BY <2>2, <1>0
    <3>2. (t \o u)[k] = u[k - (i-1)]
      BY <1>0, <1>1, <1>2, <2>2
    <3>3. u[k - (i-1)] = s[i + (k - (i-1))] /\ i + (k - (i-1)) = k + 1
      BY <1>0, <1>2, <3>1
    <3> QED  BY <3>1, <3>2, <3>3 DEF Elements
  <2>3. k < i \/ k >= i
    BY <1>0
  <2> QED  BY <2>1, <2>2, <2>3
<1>5. WithoutAt(s, i) = t \o u
  BY DEF WithoutAt, t, u
<1> QED  BY <1>3, <1>4, <1>5 DEF Elements

----------------------------------------------------------------------------
(* Types. *)

\* The variables that a finalization may change.
StoreTypes ==
  /\ cached \in [Visits -> SUBSET Items]
  /\ batched \subseteq Items
  /\ nbatches \in Nat
  /\ flush_events \subseteq Finalizations
  /\ lock_leaked \in BOOLEAN
  /\ saved \subseteq Items

FinalizeTypes ==
  /\ StoreTypes
  /\ pc \in [Procs -> States]
  /\ tokens \subseteq Visits
  /\ finalize_tasks \in Seq(Entries)
  /\ store_record_tasks \in [Visits -> SUBSET Records]

LEMMA FinalizeTypesOK == TypeOK => FinalizeTypes
BY DEF TypeOK, FinalizeTypes, StoreTypes

LEMMA ReturnTypes ==
  ASSUME FinalizeTypes, NEW p \in Procs, NEW v \in Visits,
         NEW success \in BOOLEAN, NEW by \in Finalizations,
         NEW found \in BOOLEAN, NEW Q, Return(p, v, success, by, found, Q)
  PROVE  /\ pc' \in [Procs -> States]
         /\ tokens' \subseteq Visits
         /\ finalize_tasks' \in Seq(Entries)
         /\ \A q \in Procs : pc'[q] = "join" => q # p /\ pc[q] = "join"
<1>1. pc' \in [Procs -> States]
  BY DEF Return, Moved, FinalizeTypes, States
<1>2. tokens' \subseteq Visits
  BY DEF Return, FinalizeTypes
<1>3. finalize_tasks' \in Seq(Entries)
  <2>1. [visit |-> v, success |-> success, by |-> by, found |-> found] \in Entries
    BY DEF Entries
  <2> QED  BY <2>1 DEF Return, FinalizeTypes
<1>4. \A q \in Procs : pc'[q] = "join" => q # p /\ pc[q] = "join"
  BY DEF Return, Moved
<1> QED  BY <1>1, <1>2, <1>3, <1>4

LEMMA RaiseTypes ==
  ASSUME FinalizeTypes, NEW Q, Raise(Q)
  PROVE  /\ pc' \in [Procs -> States]
         /\ tokens' \subseteq Visits
         /\ finalize_tasks' \in Seq(Entries)
         /\ \A q \in Procs : pc'[q] = "join" => q \notin Q /\ pc[q] = "join"
BY DEF Raise, FinalizeTypes, States

LEMMA MarkerTypes ==
  ASSUME NEW v \in Visits, NEW success
  PROVE  Marker(v, success) \subseteq Items
BY DEF Marker, Items

LEMMA CompleteTypes ==
  ASSUME FinalizeTypes, NEW p \in Procs, NEW v \in Visits,
         NEW success \in BOOLEAN, NEW by \in Finalizations,
         Complete(p, v, success, by)
  PROVE  /\ FinalizeTypes'
         /\ \A q \in Procs : pc'[q] = "join" => q # p /\ pc[q] = "join"
<1> DEFINE Q == Joiners(v) \ {p}
           mine == cached[v] \cup Marker(v, success)
           count == nbatches + (IF mine = {} THEN 0 ELSE 1)
<1>1. store_record_tasks' \in [Visits -> SUBSET Records]
  BY DEF Complete, FinalizeTypes
<1>2. mine \subseteq Items /\ count \in Nat
  BY MarkerTypes DEF FinalizeTypes, StoreTypes
<1>3. CASE FinalizeSqlite(p, v, success, by, Q)
  <2>1. Return(p, v, success, by, TRUE, Q)
    BY <1>3 DEF FinalizeSqlite
  <2>2. StoreTypes'
    BY <1>3, MarkerTypes DEF FinalizeSqlite, FinalizeTypes, StoreTypes
  <2> QED  BY <1>1, <2>1, <2>2, ReturnTypes DEF FinalizeTypes
<1>4. CASE FinalizeArrow(p, v, success, by, Q)
  <2>0. StoreTypes'
    <3> HIDE DEF Q
    <3>1. /\ \/ cached' = [cached EXCEPT ![v] = mine]
             \/ cached' = [cached EXCEPT ![v] = {}]
          /\ \/ UNCHANGED batched \/ batched' = batched \cup mine \/ batched' = {}
          /\ nbatches' \in {nbatches, count, 0}
          /\ \/ UNCHANGED flush_events
             \/ flush_events' = flush_events \cup {by} \/ flush_events' = {}
          /\ UNCHANGED saved \/ saved' = saved \cup batched \cup mine
          /\ UNCHANGED lock_leaked
      BY <1>4 DEF FinalizeArrow
    <3> QED  BY <1>2, <3>1 DEF StoreTypes, FinalizeTypes
  <2>1. CASE Return(p, v, success, by, TRUE, Q)
    BY <1>1, <2>0, <2>1, ReturnTypes DEF FinalizeTypes
  <2>2. CASE Raise(Q \cup {p})
    BY <1>1, <2>0, <2>2, RaiseTypes DEF FinalizeTypes
  <2>3. CASE pc' = Moved(p, "locked", Q) /\ UNCHANGED <<tokens, finalize_tasks>>
    BY <1>1, <2>0, <2>3 DEF Moved, States, FinalizeTypes
  <2> QED  BY <1>4, <2>1, <2>2, <2>3 DEF FinalizeArrow
<1> QED  BY <1>3, <1>4 DEF Complete

LEMMA FinalizeKeepsTypes ==
  ASSUME FinalizeTypes, NEW p \in Procs, NEW v \in Visits,
         NEW success \in BOOLEAN, NEW by \in Finalizations,
         Finalize(p, v, success, by)
  PROVE  /\ FinalizeTypes'
         /\ \A q \in Procs : pc'[q] = "join" => q = p \/ pc[q] = "join"
<1>1. CASE /\ Return(p, v, success, by, FALSE, {})
           /\ UNCHANGED <<store_record_tasks, store>>
  BY <1>1, ReturnTypes DEF FinalizeTypes, StoreTypes, store
<1>2. CASE Raise({p}) /\ UNCHANGED <<store_record_tasks, store>>
  BY <1>2, RaiseTypes DEF FinalizeTypes, StoreTypes, store
<1>3. CASE /\ pc' = [pc EXCEPT ![p] = "join"]
           /\ UNCHANGED <<store_record_tasks, store, tokens, finalize_tasks>>
  BY <1>3 DEF FinalizeTypes, StoreTypes, store, States
<1>4. CASE Complete(p, v, success, by)
  BY <1>4, CompleteTypes
<1> QED  BY <1>1, <1>2, <1>3, <1>4 DEF Finalize

LEMMA FlushTypes ==
  ASSUME StoreTypes, Flush
  PROVE  StoreTypes'
<1>1. AllSaved \subseteq Items
  BY DEF AllSaved, StoreTypes
<1> QED  BY <1>1 DEF Flush, StoreTypes

LEMMA StreamTypes ==
  ASSUME TypeOK, NEW c \in Conns, NEW i \in 1..Len(stream[c])
  PROVE  /\ stream[c][i].visit \in Visits
         /\ stream[c][i].success \in BOOLEAN
<1>1. stream[c] \in Seq(Msg)
  BY DEF TypeOK
<1>2. stream[c][i] \in Msg
  BY <1>1
<1> QED  BY <1>2 DEF Msg

LEMMA InitTypes == Init => TypeInv
<1> SUFFICES ASSUME Init PROVE TypeInv
  OBVIOUS
<1>1. stream \in [Conns -> Seq(Msg)]
  BY WorkloadAssumption DEF Init
<1>2. \A c \in Conns : read[c] <= Len(stream[c])
  <2> TAKE c \in Conns
  <2>1. Len(stream[c]) \in Nat
    BY <1>1
  <2> QED  BY <2>1 DEF Init
<1>3. pc \in [Procs -> States]
  BY DEF Init, States
<1>4. FinalizeTypes
  <2>1. /\ store_record_tasks \in [Visits -> SUBSET Records]
        /\ cached \in [Visits -> SUBSET Items]
    BY DEF Init
  <2>2. <<>> \in Seq(Entries)
    OBVIOUS
  <2>3. StoreTypes
    BY <2>1 DEF Init, StoreTypes
  <2>4. tokens \subseteq Visits /\ finalize_tasks \in Seq(Entries)
    BY <2>2 DEF Init
  <2> QED  BY <1>3, <2>1, <2>3, <2>4 DEF FinalizeTypes
<1>5. read \in [Conns -> Nat] /\ cut \in [Conns -> Nat]
  BY DEF Init
<1>6. TypeOK
  <2>1. ready \in Seq(Records) /\ completion_queue \in Seq(Entries)
    BY DEF Init
  <2>2. /\ todo \subseteq Visits /\ closing \in Visits \cup {NoVisit}
        /\ shutdown_queue \in BOOLEAN /\ failed \subseteq Records
        /\ feeder \in {"running", "ended"} /\ fresh \in BOOLEAN
        /\ timer \in {"running", "cancelled", "dead", "locked"}
    BY DEF Init
  <2> QED  BY <1>1, <1>2, <1>4, <1>5, <2>1, <2>2
            DEF TypeOK, FinalizeTypes, StoreTypes
<1>7. JoinShape
  BY DEF Init, JoinShape
<1> QED  BY <1>6, <1>7 DEF TypeInv

\* The handlers.
LEMMA ReadTypes ==
  ASSUME TypeInv, NEW c \in Conns, Read(c)
  PROVE  TypeInv'
<1> USE DEF TypeInv
<1>0. c \in Procs /\ c # Main
  BY MainAssumption DEF Procs
<1>1. /\ read[c] \in Nat /\ read[c] + 1 \in 1..Len(stream[c])
      /\ NextMsg(c).visit \in Visits /\ NextMsg(c).success \in BOOLEAN
  <2>1. Len(stream[c]) \in Nat /\ read[c] \in Nat
    BY DEF TypeOK
  <2>2. read[c] < Len(stream[c])
    BY DEF Read, ReadRecord, ReadSkip, ReadFatal, ReadFinalize, HasMessage
  <2>3. read[c] + 1 \in 1..Len(stream[c])
    BY <2>1, <2>2
  <2> QED  BY <2>1, <2>3, StreamTypes DEF NextMsg
<1>2. /\ read' = [read EXCEPT ![c] = read[c] + 1] /\ fresh' = TRUE
      /\ UNCHANGED <<stream, todo, closing, cut, shutdown_queue,
                     completion_queue, feeder, timer>>
  BY DEF Read, ReadRecord, ReadSkip, ReadFatal, ReadFinalize, Consume, closedown
<1>3. /\ read' \in [Conns -> Nat]
      /\ \A d \in Conns : read'[d] <= Len(stream'[d])
      /\ \A d \in Conns : read'[d] >= read[d]
  BY <1>1, <1>2 DEF TypeOK
<1>4. ASSUME FinalizeTypes', ready' \in Seq(Records), failed' \subseteq Records
      PROVE  TypeOK'
  BY <1>2, <1>3, <1>4 DEF TypeOK, FinalizeTypes, StoreTypes
<1>5. ASSUME \A q \in Procs : pc'[q] = "join" => q = c \/ pc[q] = "join"
      PROVE  JoinShape'
  <2>1. read'[c] \in Nat \ {0}
    BY <1>1, <1>2 DEF TypeOK
  <2>2. \A d \in Conns : read[d] \in Nat \ {0} => read'[d] \in Nat \ {0}
    BY <1>3 DEF TypeOK
  <2> QED  BY <1>0, <1>2, <1>5, <2>1, <2>2 DEF JoinShape, Procs
<1>6. CASE ReadRecord(c)
  <2>1. <<c, read[c] + 1>> \in Records
    BY <1>1 DEF Records
  <2>2. FinalizeTypes' /\ ready' \in Seq(Records) /\ failed' \subseteq Records
    <3>1. store_record_tasks' \in [Visits -> SUBSET Records]
      BY <1>6, <2>1 DEF ReadRecord, TypeOK
    <3>2. ready' \in Seq(Records)
      BY <1>6, <2>1 DEF ReadRecord, TypeOK
    <3>3. UNCHANGED <<pc, tokens, finalize_tasks, store, failed>>
      BY <1>6 DEF ReadRecord, Consume, closedown
    <3> QED  BY <3>1, <3>2, <3>3 DEF FinalizeTypes, StoreTypes, store, TypeOK
  <2>3. UNCHANGED pc
    BY <1>6 DEF ReadRecord
  <2> QED  BY <1>4, <1>5, <2>2, <2>3
<1>7. CASE ReadSkip(c) \/ ReadFatal(c)
  <2>1. UNCHANGED <<loop, store, tokens, finalize_tasks>>
    BY <1>7 DEF ReadSkip, ReadFatal, Consume, closedown
  <2>2. UNCHANGED pc \/ pc' = [pc EXCEPT ![c] = "dead"]
    BY <1>7 DEF ReadSkip, ReadFatal
  <2>3. pc' \in [Procs -> States]
    BY <2>2 DEF TypeOK, States
  <2>4. FinalizeTypes' /\ ready' \in Seq(Records) /\ failed' \subseteq Records
    BY <2>1, <2>3 DEF TypeOK, FinalizeTypes, StoreTypes, loop, store
  <2>5. \A q \in Procs : pc'[q] = "join" => pc[q] = "join"
    BY <2>2 DEF TypeOK
  <2> QED  BY <1>4, <1>5, <2>4, <2>5
<1>8. CASE ReadFinalize(c)
  <2>1. <<c, read[c] + 1>> \in Finalizations
    BY <1>1 DEF Finalizations
  <2>2. Finalize(c, NextMsg(c).visit, NextMsg(c).success, <<c, read[c] + 1>>)
    BY <1>8 DEF ReadFinalize
  <2>3. /\ FinalizeTypes'
        /\ \A q \in Procs : pc'[q] = "join" => q = c \/ pc[q] = "join"
    BY <1>0, <1>1, <2>1, <2>2, FinalizeTypesOK, FinalizeKeepsTypes
  <2>4. UNCHANGED <<ready, failed>>
    BY <1>8 DEF ReadFinalize
  <2> QED  BY <1>4, <1>5, <2>3, <2>4 DEF TypeOK
<1> QED  BY <1>6, <1>7, <1>8 DEF Read

\* The coroutines that were waiting for tasks.
LEMMA ResumeTypes ==
  ASSUME TypeInv, NEW p \in Procs, Resume(p)
  PROVE  TypeInv'
<1> USE DEF TypeInv
<1> DEFINE v == Subject(p)
           success == p # Main /\ Current(p).success
           by == IF p = Main THEN <<Main, v>> ELSE <<p, read[p]>>
<1>1. pc[p] = "join"
  BY DEF Resume
<1>2. v \in Visits /\ success \in BOOLEAN /\ by \in Finalizations
  <2>1. CASE p = Main
    <3>1. closing \in Visits
      BY <1>1, <2>1 DEF JoinShape
    <3> QED  BY <2>1, <3>1 DEF Subject, Finalizations
  <2>2. CASE p # Main
    <3>1. p \in Conns
      BY <2>2 DEF Procs
    <3>2. read[p] \in 1..Len(stream[p])
      BY <1>1, <2>2, <3>1 DEF JoinShape, TypeOK
    <3>3. Current(p).visit \in Visits /\ Current(p).success \in BOOLEAN
      BY <3>1, <3>2, StreamTypes DEF Current
    <3> QED  BY <2>2, <3>1, <3>2, <3>3 DEF Subject, Finalizations
  <2> QED  BY <2>1, <2>2
<1>3. UNCHANGED <<wire, todo, closing, cut, shutdown_queue, ready, failed,
                 completion_queue, helpers>>
  BY DEF Resume
<1>4. /\ FinalizeTypes'
      /\ \A q \in Procs : pc'[q] = "join" => pc[q] = "join"
  <2>1. CASE Raise(Joiners(v)) /\ UNCHANGED <<store_record_tasks, store>>
    BY <2>1, FinalizeTypesOK, RaiseTypes DEF FinalizeTypes, StoreTypes, store
  <2>2. CASE Complete(p, v, success, by)
    BY <1>2, <2>2, FinalizeTypesOK, CompleteTypes
  <2> QED  BY <2>1, <2>2 DEF Resume
<1>5. TypeOK'
  BY <1>3, <1>4 DEF TypeOK, FinalizeTypes, StoreTypes, wire, helpers
<1>6. JoinShape'
  BY <1>3, <1>4 DEF JoinShape, wire
<1> QED  BY <1>5, <1>6

\* The provider's task, the feeder and the timer.
LEMMA LoopTypes ==
  ASSUME TypeInv, RunTask \/ Feed \/ FeederEnds \/ Timeout \/ SendShutdown
  PROVE  TypeInv'
<1>1. UNCHANGED <<wire, pc, closing, cut, todo, tokens, store_record_tasks>>
  BY DEF RunTask, Feed, FeederEnds, Timeout, SendShutdown, closedown, loop
<1>2. JoinShape'
  BY <1>1 DEF TypeInv, JoinShape, wire
<1>a. /\ StoreTypes
      /\ ready \in Seq(Records) /\ failed \subseteq Records
      /\ finalize_tasks \in Seq(Entries) /\ completion_queue \in Seq(Entries)
      /\ feeder \in {"running", "ended"} /\ fresh \in BOOLEAN
      /\ timer \in {"running", "cancelled", "dead", "locked"}
      /\ shutdown_queue \in BOOLEAN
  BY DEF TypeInv, TypeOK, StoreTypes
<1>b. UNCHANGED store => StoreTypes'
  BY <1>a DEF StoreTypes, store
<1>3. ASSUME StoreTypes', ready' \in Seq(Records), failed' \subseteq Records,
             finalize_tasks' \in Seq(Entries), completion_queue' \in Seq(Entries),
             feeder' \in {"running", "ended"}, fresh' \in BOOLEAN,
             timer' \in {"running", "cancelled", "dead", "locked"},
             shutdown_queue' \in BOOLEAN
      PROVE  TypeInv'
  <2>1. TypeOK'
    BY <1>1, <1>3 DEF TypeInv, TypeOK, StoreTypes, wire
  <2> QED  BY <1>2, <2>1 DEF TypeInv
<1>4. CASE RunTask
  <2>1. Head(ready) \in Records /\ ready' \in Seq(Records)
    BY <1>a, <1>4 DEF RunTask
  <2>2. failed' \subseteq Records /\ cached' \in [Visits -> SUBSET Items]
    BY <1>a, <1>4, <2>1 DEF RunTask, StoreTypes, Items
  <2>3. UNCHANGED <<shutdown_queue, batched, nbatches, flush_events,
                   lock_leaked, saved, results, helpers>>
    BY <1>4 DEF RunTask, closedown
  <2>4. StoreTypes'
    BY <1>a, <2>2, <2>3 DEF StoreTypes
  <2> QED  BY <1>a, <1>3, <2>1, <2>2, <2>3, <2>4 DEF results, helpers
<1>5. CASE Feed
  <2>1. PICK i \in 1..Len(finalize_tasks) :
          /\ completion_queue' = Append(completion_queue, finalize_tasks[i])
          /\ finalize_tasks' = WithoutAt(finalize_tasks, i)
    BY <1>5 DEF Feed, WithoutAt
  <2>2. /\ finalize_tasks' \in Seq(Entries) /\ completion_queue' \in Seq(Entries)
    BY <1>a, <2>1, WithoutAtElements
  <2>3. UNCHANGED <<shutdown_queue, loop, store, helpers>>
    BY <1>5 DEF Feed, closedown
  <2> QED  BY <1>a, <1>b, <1>3, <2>2, <2>3 DEF loop, helpers
<1>6. CASE FeederEnds \/ SendShutdown
  <2>1. UNCHANGED <<loop, store, results, timer, fresh>>
    BY <1>6 DEF FeederEnds, SendShutdown, helpers
  <2>2. feeder' \in {"running", "ended"} /\ shutdown_queue' \in BOOLEAN
    BY <1>a, <1>6 DEF FeederEnds, SendShutdown, helpers, closedown
  <2> QED  BY <1>a, <1>b, <1>3, <2>1, <2>2 DEF loop, results
<1>7. CASE Timeout
  <2>1. UNCHANGED <<shutdown_queue, loop, results, feeder>>
    BY <1>7 DEF Timeout, closedown
  <2>2. /\ fresh' \in BOOLEAN
        /\ timer' \in {"running", "cancelled", "dead", "locked"}
    BY <1>a, <1>7 DEF Timeout
  <2>3. StoreTypes'
    <3>1. CASE Flush
      BY <1>a, <3>1, FlushTypes
    <3>2. CASE FlushFails
      BY <1>a, <3>2 DEF FlushFails, StoreTypes
    <3> QED  BY <1>7, <1>b, <3>1, <3>2 DEF Timeout
  <2> QED  BY <1>a, <1>3, <2>1, <2>2, <2>3 DEF loop, results
<1> QED  BY <1>4, <1>5, <1>6, <1>7

\* The main coroutine.
LEMMA ShutdownTypes ==
  ASSUME TypeInv, Shutdown
  PROVE  TypeInv'
<1>a. /\ FinalizeTypes
      /\ todo \subseteq Visits /\ closing \in Visits \cup {NoVisit}
      /\ cut \in [Conns -> Nat] /\ read \in [Conns -> Nat]
      /\ completion_queue \in Seq(Entries)
      /\ timer \in {"running", "cancelled", "dead", "locked"}
  BY DEF TypeInv, TypeOK, FinalizeTypes, StoreTypes
<1>1. UNCHANGED <<wire, shutdown_queue, ready, failed, feeder, fresh>>
  BY DEF Shutdown, BeginShutdown, ShutdownFinalize, ShutdownFlush,
         ShutdownResume, ShutdownReport, ShutdownEnds, closedown, loop, helpers
<1>2. Main \in Procs
  BY DEF Procs
<1>3. ASSUME FinalizeTypes',
             todo' \subseteq Visits, closing' \in Visits \cup {NoVisit},
             cut' \in [Conns -> Nat], completion_queue' \in Seq(Entries),
             timer' \in {"running", "cancelled", "dead", "locked"},
             \A q \in Procs : pc'[q] = "join" =>
               (q = Main /\ closing' \in Visits) \/ pc[q] = "join",
             pc[Main] # "join"
      PROVE  TypeInv'
  <2>1. TypeOK'
    BY <1>1, <1>3 DEF TypeInv, TypeOK, FinalizeTypes, StoreTypes, wire
  <2>2. JoinShape'
    BY <1>1, <1>3 DEF TypeInv, JoinShape, wire
  <2> QED  BY <2>1, <2>2 DEF TypeInv
<1>4. ASSUME NEW s \in States \ {"join"}, pc' = [pc EXCEPT ![Main] = s]
      PROVE  /\ pc' \in [Procs -> States]
             /\ \A q \in Procs : pc'[q] = "join" => pc[q] = "join"
  BY <1>a, <1>4 DEF FinalizeTypes
<1>5. CASE BeginShutdown
  <2>1. pc' = [pc EXCEPT ![Main] = "finalizing"] /\ pc[Main] = "serving"
    BY <1>5 DEF BeginShutdown
  <2>2. /\ UNCHANGED <<closing, tokens, store_record_tasks, store, results>>
        /\ cut' = read /\ timer' = "cancelled" /\ todo' \subseteq Visits
    BY <1>5 DEF BeginShutdown, loop
  <2>3. /\ pc' \in [Procs -> States]
        /\ \A q \in Procs : pc'[q] = "join" => pc[q] = "join"
    BY <1>4, <2>1 DEF States
  <2>4. FinalizeTypes'
    BY <1>a, <2>2, <2>3 DEF FinalizeTypes, StoreTypes, store, results
  <2> QED  BY <1>a, <1>3, <2>1, <2>2, <2>3, <2>4 DEF results
<1>6. CASE ShutdownFinalize
  <2>1. PICK v \in todo :
          /\ todo' = todo \ {v} /\ closing' = v
          /\ Finalize(Main, v, FALSE, <<Main, v>>)
    BY <1>6 DEF ShutdownFinalize
  <2>2. v \in Visits /\ <<Main, v>> \in Finalizations
    BY <1>a, <2>1 DEF Finalizations
  <2>3. /\ FinalizeTypes'
        /\ \A q \in Procs : pc'[q] = "join" => q = Main \/ pc[q] = "join"
    BY <1>a, <1>2, <2>1, <2>2, FinalizeKeepsTypes
  <2>4. UNCHANGED <<cut, completion_queue, timer>> /\ pc[Main] # "join"
    BY <1>6 DEF ShutdownFinalize, helpers
  <2> QED  BY <1>a, <1>3, <2>1, <2>2, <2>3, <2>4
<1>7. CASE ShutdownFlush \/ ShutdownResume \/ ShutdownEnds
  <2>1. /\ UNCHANGED <<todo, closing, tokens, cut, store_record_tasks, results,
                       timer>>
        /\ pc[Main] # "join"
    BY <1>7 DEF ShutdownFlush, ShutdownResume, ShutdownEnds, closedown, loop,
                helpers
  <2>2. PICK s \in States \ {"join"} : pc' = [pc EXCEPT ![Main] = s]
    BY <1>7 DEF ShutdownFlush, ShutdownResume, ShutdownEnds, States
  <2>3. StoreTypes'
    <3>1. CASE Flush
      BY <1>a, <3>1, FlushTypes DEF FinalizeTypes
    <3>2. CASE FlushFails
      BY <1>a, <3>2 DEF FlushFails, FinalizeTypes, StoreTypes
    <3>3. CASE UNCHANGED store
      BY <1>a, <3>3 DEF FinalizeTypes, StoreTypes, store
    <3> QED  BY <1>7, <3>1, <3>2, <3>3
             DEF ShutdownFlush, ShutdownResume, ShutdownEnds
  <2>4. /\ pc' \in [Procs -> States]
        /\ \A q \in Procs : pc'[q] = "join" => pc[q] = "join"
    BY <1>4, <2>2
  <2>5. FinalizeTypes'
    BY <1>a, <2>1, <2>3, <2>4 DEF FinalizeTypes, results
  <2> QED  BY <1>a, <1>3, <2>1, <2>4, <2>5 DEF results
<1>8. CASE ShutdownReport
  <2>1. PICK v \in tokens :
          /\ tokens' = tokens \ {v}
          /\ completion_queue' =
               Append(completion_queue, [visit |-> v, success |-> FALSE,
                                         by |-> <<Main, v>>, found |-> TRUE])
    BY <1>8 DEF ShutdownReport
  <2>2. v \in Visits
    BY <1>a, <2>1 DEF FinalizeTypes
  <2>3. [visit |-> v, success |-> FALSE, by |-> <<Main, v>>, found |-> TRUE]
          \in Entries
    BY <2>2 DEF Entries, Finalizations
  <2>4. completion_queue' \in Seq(Entries) /\ tokens' \subseteq Visits
    BY <1>a, <2>1, <2>3 DEF FinalizeTypes
  <2>5. UNCHANGED <<pc, todo, closing, cut, store_record_tasks, store,
                   finalize_tasks, timer>> /\ pc[Main] # "join"
    BY <1>8 DEF ShutdownReport, loop, helpers
  <2>6. FinalizeTypes'
    BY <1>a, <2>4, <2>5 DEF FinalizeTypes, StoreTypes, store
  <2> QED  BY <1>a, <1>3, <2>4, <2>5, <2>6
<1> QED  BY <1>5, <1>6, <1>7, <1>8 DEF Shutdown

LEMMA StutterTypes == TypeInv /\ UNCHANGED vars => TypeInv'
BY DEF TypeInv, TypeOK, JoinShape, vars, wire, closedown, loop, store, results,
       helpers

LEMMA NextTypes == TypeInv /\ [Next]_vars => TypeInv'
BY ReadTypes, ResumeTypes, LoopTypes, ShutdownTypes, StutterTypes DEF Next

\* The state of the controller has its types in every reachable state: no
\* interleaving of handlers, feeder, timer and shutdown produces an entry, a
\* record or a visit that is not one of the instance.
THEOREM TypeCorrect == Spec => []TypeOK
<1>1. TypeInv => TypeOK
  BY DEF TypeInv
<1> QED  BY <1>1, InitTypes, NextTypes, PTL DEF Spec

----------------------------------------------------------------------------
(* What a step does to the store. *)

\* Nothing leaves storage, nothing leaves the batches except for storage,
\* and events are set only when all batches have been written.
Kept ==
  /\ saved \subseteq saved'
  /\ saved \cup batched \subseteq saved' \cup batched'
  /\ flush_events \subseteq flush_events' \/ saved \cup batched \subseteq saved'
  /\ \A w \in Visits : cached[w] \subseteq cached'[w] \cup batched' \cup saved'
  /\ lock_leaked => lock_leaked'

LEMMA FlushKeeps ==
  ASSUME StoreTypes, Flush \/ FlushFails \/ UNCHANGED store
  PROVE  Kept
<1>1. CASE Flush
  BY <1>1 DEF Flush, AllSaved, Kept, StoreTypes
<1>2. CASE FlushFails \/ UNCHANGED store
  BY <1>2 DEF FlushFails, store, Kept, StoreTypes
<1> QED  BY <1>1, <1>2

\* A finalization that runs to its end either is a return to the caller with
\* all that the visit has batched or saved, or tells nobody anything.
Effect(p, v, success, by) ==
  LET mine == cached[v] \cup Marker(v, success)
  IN  /\ Kept
      /\ UNCHANGED lock_leaked
      /\ ~lock_leaked => cached[v] \subseteq batched' \cup saved'
      /\ \/ /\ \E Q : Return(p, v, success, by, TRUE, Q)
            /\ saved \cup batched \cup mine \subseteq saved' \cup batched'
            /\ by \in flush_events' \/ saved \cup batched \cup mine \subseteq saved'
         \/ UNCHANGED <<tokens, finalize_tasks>>

LEMMA CompleteEffect ==
  ASSUME FinalizeTypes, SqliteShape, NEW p \in Procs, NEW v \in Visits,
         NEW success \in BOOLEAN, NEW by \in Finalizations,
         Complete(p, v, success, by)
  PROVE  Effect(p, v, success, by) /\ SqliteShape'
<1> DEFINE Q == Joiners(v) \ {p}
           mine == cached[v] \cup Marker(v, success)
           count == nbatches + (IF mine = {} THEN 0 ELSE 1)
<1>0. cached \in [Visits -> SUBSET Items]
  BY DEF FinalizeTypes, StoreTypes
<1>1. CASE FinalizeSqlite(p, v, success, by, Q)
  <2>1. Return(p, v, success, by, TRUE, Q)
    BY <1>1 DEF FinalizeSqlite
  <2>2. /\ batched = {} /\ UNCHANGED <<batched, flush_events, lock_leaked>>
        /\ saved' = saved \cup Marker(v, success) \cup (UNION {cached[w] : w \in Visits})
    BY <1>1 DEF FinalizeSqlite, SqliteShape
  <2>3. /\ \A w \in Visits : cached[w] \subseteq saved'
        /\ saved \cup batched \cup mine \subseteq saved'
    BY <2>2
  <2>4. Kept
    BY <2>2, <2>3 DEF Kept
  <2> HIDE DEF Q
  <2>5. Effect(p, v, success, by)
    BY <2>1, <2>2, <2>3, <2>4 DEF Effect
  <2> QED  BY <2>2, <2>5 DEF SqliteShape
<1>2. CASE FinalizeArrow(p, v, success, by, Q)
  <2> HIDE DEF Q, count
  <2>0. UNCHANGED lock_leaked /\ Provider = "arrow"
    BY <1>2 DEF FinalizeArrow
  <2>1. CASE /\ lock_leaked
             /\ cached' = [cached EXCEPT ![v] = mine]
             /\ UNCHANGED <<batched, flush_events, saved, tokens, finalize_tasks>>
    BY <1>0, <2>0, <2>1 DEF Effect, Kept, SqliteShape
  <2>2. CASE /\ cached' = [cached EXCEPT ![v] = {}]
             /\ batched' = batched \cup mine
             /\ flush_events' = flush_events \cup {by}
             /\ UNCHANGED saved
             /\ Return(p, v, success, by, TRUE, Q) \/ Raise(Q \cup {p})
    <3>1. /\ Kept /\ by \in flush_events'
          /\ saved \cup batched \cup mine \subseteq saved' \cup batched'
          /\ cached[v] \subseteq batched'
      BY <1>0, <2>0, <2>2 DEF Kept
    <3>2. \/ Return(p, v, success, by, TRUE, Q)
          \/ UNCHANGED <<tokens, finalize_tasks>>
      BY <2>2 DEF Raise
    <3> QED  BY <2>0, <3>1, <3>2 DEF Effect, SqliteShape
  <2>3. CASE /\ cached' = [cached EXCEPT ![v] = {}]
             /\ batched' = {}
             /\ flush_events' = {}
             /\ saved' = saved \cup batched \cup mine
             /\ Return(p, v, success, by, TRUE, Q)
    <3>1. Kept
      BY <1>0, <2>0, <2>3 DEF Kept
    <3> QED  BY <2>0, <2>3, <3>1 DEF Effect, SqliteShape
  <2> QED  BY <1>2, <2>1, <2>2, <2>3 DEF FinalizeArrow, count
<1> QED  BY <1>1, <1>2 DEF Complete

----------------------------------------------------------------------------
(* The kinds of steps. *)

\* No record is read and no task runs.
Quiet ==
  /\ UNCHANGED <<stream, ready>>
  /\ \A c \in Conns :
       /\ read[c] <= read'[c]
       /\ \A j \in 1..read'[c] : stream[c][j].type = "record" => j \in 1..read[c]

\* p finalizes v, by the message or for the shutdown named by by.
Asked(p, v, by) ==
  /\ p \in Procs /\ v \in Visits /\ by \in Finalizations
  /\ IF p = Main THEN by = <<Main, v>>
     ELSE /\ by = <<p, by[2]>>
          /\ by[2] \in 1..Len(stream[p])
          /\ by[2] - 1 <= read[p]
          /\ MsgOf(by).visit = v

Completion(p, v, success, by) ==
  /\ Asked(p, v, by) /\ success \in BOOLEAN /\ (p = Main => ~success)
  /\ store_record_tasks[v] \cap Scheduled = {}
  /\ Complete(p, v, success, by)

Dismissal(p, v, success, by) ==
  /\ Asked(p, v, by) /\ success \in BOOLEAN
  /\ store_record_tasks[v] = {}
  /\ Return(p, v, success, by, FALSE, {})
  /\ UNCHANGED <<store_record_tasks, store>>

Kinds ==
  \/ \E c \in Conns : ReadRecord(c)
  \/ RunTask
  \/ /\ Quiet /\ UNCHANGED completion_queue
     /\ \E p, v, success, by :
          Completion(p, v, success, by) \/ Dismissal(p, v, success, by)
  \/ Feed
  \/ ShutdownReport
  \/ /\ Quiet /\ UNCHANGED <<store_record_tasks, tokens, results>>
     /\ Flush \/ FlushFails \/ UNCHANGED store

LEMMA FinalizeKinds ==
  ASSUME Quiet, UNCHANGED completion_queue,
         NEW p, NEW v, NEW success \in BOOLEAN, NEW by,
         Asked(p, v, by), p = Main => ~success, Finalize(p, v, success, by)
  PROVE  Kinds
<1>1. CASE /\ store_record_tasks[v] = {}
           /\ Return(p, v, success, by, FALSE, {})
           /\ UNCHANGED <<store_record_tasks, store>>
  BY <1>1 DEF Kinds, Dismissal
<1>2. CASE Raise({p}) /\ UNCHANGED <<store_record_tasks, store>>
  BY <1>2 DEF Kinds, Raise, results
<1>3. CASE /\ pc' = [pc EXCEPT ![p] = "join"]
           /\ UNCHANGED <<store_record_tasks, store, tokens, finalize_tasks>>
  BY <1>3 DEF Kinds, results
<1>4. CASE /\ store_record_tasks[v] \cap (failed \cup Scheduled) = {}
           /\ Complete(p, v, success, by)
  <2>1. Completion(p, v, success, by)
    BY <1>4 DEF Completion
  <2> QED  BY <2>1 DEF Kinds
<1> QED  BY <1>1, <1>2, <1>3, <1>4 DEF Finalize

LEMMA ReadKinds ==
  ASSUME TypeInv, NEW c \in Conns, Read(c)
  PROVE  Kinds
<1>0. c # Main /\ c \in Procs
  BY MainAssumption DEF Procs
<1>1. CASE ReadRecord(c)
  BY <1>1 DEF Kinds
<1>2. CASE ReadSkip(c) \/ ReadFatal(c) \/ ReadFinalize(c)
  <2>1. /\ read[c] \in Nat /\ read[c] + 1 \in 1..Len(stream[c])
        /\ stream[c][read[c] + 1].type # "record"
    <3>1. Len(stream[c]) \in Nat /\ read[c] \in Nat
      BY DEF TypeInv, TypeOK
    <3>2. read[c] < Len(stream[c]) /\ NextMsg(c).type # "record"
      BY <1>2 DEF ReadSkip, ReadFatal, ReadFinalize, HasMessage
    <3> QED  BY <3>1, <3>2 DEF NextMsg
  <2>2. read' = [read EXCEPT ![c] = read[c] + 1] /\ UNCHANGED <<stream, ready, completion_queue>>
    BY <1>2 DEF ReadSkip, ReadFatal, ReadFinalize, Consume, loop
  <2>3. \A d \in Conns : read[d] \in Nat
    BY DEF TypeInv, TypeOK
  <2>4. \A d \in Conns : read'[d] = IF d = c THEN read[c] + 1 ELSE read[d]
    BY <2>2 DEF TypeInv, TypeOK
  <2>5. Quiet
    BY <2>1, <2>2, <2>3, <2>4 DEF Quiet
  <2>6. CASE ReadSkip(c) \/ ReadFatal(c)
    BY <2>2, <2>5, <2>6 DEF ReadSkip, ReadFatal, Consume, closedown, loop, Kinds,
                            results
  <2>7. CASE ReadFinalize(c)
    <3>1. <<c, read[c] + 1>> \in Finalizations
      BY <2>1 DEF Finalizations
    <3>2. NextMsg(c).visit \in Visits /\ NextMsg(c).success \in BOOLEAN
      BY <2>1, StreamTypes DEF TypeInv, NextMsg
    <3>3. Asked(c, NextMsg(c).visit, <<c, read[c] + 1>>)
      BY <1>0, <2>1, <3>1, <3>2 DEF Asked, MsgOf, NextMsg
    <3> QED  BY <1>0, <2>2, <2>5, <2>7, <3>2, <3>3, FinalizeKinds DEF ReadFinalize
  <2> QED  BY <1>2, <2>6, <2>7
<1> QED  BY <1>1, <1>2 DEF Read

LEMMA QuietUnread ==
  ASSUME TypeInv, UNCHANGED <<stream, read, ready>>
  PROVE  Quiet
BY DEF TypeInv, TypeOK, Quiet

LEMMA ResumeKinds ==
  ASSUME TypeInv, NEW p \in Procs, Resume(p)
  PROVE  Kinds
<1> DEFINE v == Subject(p)
           success == p # Main /\ Current(p).success
           by == IF p = Main THEN <<Main, v>> ELSE <<p, read[p]>>
<1>1. pc[p] = "join" /\ UNCHANGED <<stream, read, ready, completion_queue>>
  BY DEF Resume, wire
<1>2. Asked(p, v, by) /\ success \in BOOLEAN
  <2>1. CASE p = Main
    <3>1. closing \in Visits
      BY <1>1, <2>1 DEF TypeInv, JoinShape
    <3> QED  BY <2>1, <3>1 DEF Subject, Finalizations, Asked
  <2>2. CASE p # Main
    <3>1. p \in Conns
      BY <2>2 DEF Procs
    <3>2. read[p] \in 1..Len(stream[p]) /\ read[p] - 1 <= read[p]
      BY <1>1, <2>2, <3>1 DEF TypeInv, JoinShape, TypeOK
    <3>3. Current(p).visit \in Visits /\ Current(p).success \in BOOLEAN
      BY <3>1, <3>2, StreamTypes DEF TypeInv, Current
    <3> QED  BY <2>2, <3>1, <3>2, <3>3
             DEF Subject, Finalizations, Asked, MsgOf, Current
  <2> QED  BY <2>1, <2>2
<1>3. Quiet
  BY <1>1, QuietUnread
<1>4. CASE Raise(Joiners(v)) /\ UNCHANGED <<store_record_tasks, store>>
  BY <1>1, <1>3, <1>4 DEF Kinds, Raise, results
<1>5. CASE /\ store_record_tasks[v] \cap (failed \cup Scheduled) = {}
           /\ Complete(p, v, success, by)
  <2>0. p = Main => ~success
    OBVIOUS
  <2> HIDE DEF v, success, by
  <2>1. Completion(p, v, success, by)
    BY <1>2, <1>5, <2>0 DEF Completion
  <2> QED  BY <1>1, <1>3, <2>1 DEF Kinds
<1> QED  BY <1>4, <1>5 DEF Resume

LEMMA ShutdownKinds ==
  ASSUME TypeInv, Shutdown
  PROVE  Kinds
<1>1. CASE ShutdownReport
  BY <1>1 DEF Kinds
<1>2. CASE ShutdownFinalize
  <2>1. PICK v \in todo : Finalize(Main, v, FALSE, <<Main, v>>)
    BY <1>2 DEF ShutdownFinalize
  <2>2. Asked(Main, v, <<Main, v>>)
    BY DEF TypeInv, TypeOK, Asked, Procs, Finalizations
  <2>3. Quiet /\ UNCHANGED completion_queue
    BY <1>2, QuietUnread DEF ShutdownFinalize, wire
  <2> QED  BY <2>1, <2>2, <2>3, FinalizeKinds
<1>3. CASE BeginShutdown \/ ShutdownFlush \/ ShutdownResume \/ ShutdownEnds
  <2>1. Quiet
    BY <1>3, QuietUnread
       DEF BeginShutdown, ShutdownFlush, ShutdownResume, ShutdownEnds, wire, loop
  <2>2. UNCHANGED <<store_record_tasks, tokens, results>>
    BY <1>3 DEF BeginShutdown, ShutdownFlush, ShutdownResume, ShutdownEnds,
                closedown, loop
  <2>3. Flush \/ FlushFails \/ UNCHANGED store
    BY <1>3 DEF BeginShutdown, ShutdownFlush, ShutdownResume, ShutdownEnds
  <2> QED  BY <2>1, <2>2, <2>3 DEF Kinds
<1> QED  BY <1>1, <1>2, <1>3 DEF Shutdown

LEMMA NextKinds ==
  ASSUME TypeInv, [Next]_vars
  PROVE  Kinds
<1>1. CASE Timeout \/ SendShutdown \/ FeederEnds \/ UNCHANGED vars
  <2>1. Quiet
    BY <1>1, QuietUnread DEF Timeout, SendShutdown, FeederEnds, vars, wire, loop
  <2>2. UNCHANGED <<store_record_tasks, tokens, results>>
    BY <1>1 DEF Timeout, SendShutdown, FeederEnds, vars, loop, closedown
  <2>3. Flush \/ FlushFails \/ UNCHANGED store
    BY <1>1 DEF Timeout, SendShutdown, FeederEnds, vars
  <2> QED  BY <2>1, <2>2, <2>3 DEF Kinds
<1>2. CASE RunTask \/ Feed
  BY <1>2 DEF Kinds
<1> QED  BY <1>1, <1>2, ReadKinds, ResumeKinds, ShutdownKinds DEF Next

----------------------------------------------------------------------------
(* The records. *)

\* Every step keeps the store and, for SQLite, its shape.
LEMMA StoreMonotone ==
  ASSUME TypeInv, SqliteShape, Kinds
  PROVE  Kept /\ SqliteShape'
<1>1. FinalizeTypes /\ StoreTypes
  BY FinalizeTypesOK DEF TypeInv, FinalizeTypes
<1>2. CASE UNCHANGED store
  BY <1>1, <1>2, FlushKeeps DEF store, SqliteShape
<1>3. CASE Flush \/ FlushFails
  <2>1. Kept
    BY <1>1, <1>3, FlushKeeps
  <2>2. SqliteShape'
    BY <1>3, ProviderAssumption DEF Flush, FlushFails, SqliteShape
  <2> QED  BY <2>1, <2>2
<1>4. CASE RunTask
  BY <1>1, <1>4 DEF RunTask, Kept, SqliteShape, StoreTypes
<1>5. ASSUME NEW p, NEW v, NEW success, NEW by, Completion(p, v, success, by)
      PROVE  Kept /\ SqliteShape'
  BY <1>1, <1>5, CompleteEffect DEF Completion, Asked, Effect
<1>6. (\E c \in Conns : ReadRecord(c)) \/ Feed \/ ShutdownReport => UNCHANGED store
  BY DEF ReadRecord, Feed, ShutdownReport
<1>7. \A p, v, success, by : Dismissal(p, v, success, by) => UNCHANGED store
  BY DEF Dismissal
<1> QED  BY <1>2, <1>3, <1>4, <1>5, <1>6, <1>7 DEF Kinds

\* The steps that run no task and read no record.
LEMMA KindsQuiet ==
  ASSUME TypeInv, Kinds
  PROVE  Quiet \/ RunTask \/ \E c \in Conns : ReadRecord(c)
<1>1. Feed \/ ShutdownReport => UNCHANGED <<stream, read, ready>>
  BY DEF Feed, ShutdownReport, wire, loop
<1> QED  BY <1>1, QuietUnread DEF Kinds

LEMMA StreamFixed == ASSUME TypeInv, Kinds PROVE UNCHANGED stream
BY KindsQuiet DEF Quiet, RunTask, ReadRecord, Consume, wire

LEMMA ScheduledElements == Scheduled = Elements(ready)
BY DEF Scheduled, Elements

\* The task lists forget a task only in a finalization, when it has run.
LEMMA ListsKept ==
  ASSUME TypeInv, Kinds
  PROVE  \/ \A w \in Visits : store_record_tasks[w] \subseteq store_record_tasks'[w]
         \/ \E p, v, success, by :
              /\ Completion(p, v, success, by)
              /\ store_record_tasks' = [store_record_tasks EXCEPT ![v] = {}]
<1>1. store_record_tasks \in [Visits -> SUBSET Records]
  BY DEF TypeInv, TypeOK
<1>2. \A c \in Conns : ReadRecord(c) =>
        \A w \in Visits : store_record_tasks[w] \subseteq store_record_tasks'[w]
  BY <1>1 DEF ReadRecord
<1>3. RunTask \/ Feed \/ ShutdownReport => UNCHANGED store_record_tasks
  BY DEF RunTask, Feed, ShutdownReport, loop
<1>4. \A p, v, success, by :
        Dismissal(p, v, success, by) => UNCHANGED store_record_tasks
  BY DEF Dismissal
<1>5. \A p, v, success, by :
        Completion(p, v, success, by) =>
          store_record_tasks' = [store_record_tasks EXCEPT ![v] = {}]
  BY DEF Completion, Complete
<1> QED  BY <1>2, <1>3, <1>4, <1>5 DEF Kinds

\* Facts about the message that ReadRecord reads and the task it makes.
LEMMA ReadRecordFacts ==
  ASSUME TypeInv, NEW c \in Conns, ReadRecord(c)
  PROVE  LET x == <<c, read[c] + 1>>
         IN  /\ x[1] = c /\ x[2] = read[c] + 1
             /\ read[c] \in Nat /\ read[c] + 1 \in 1..Len(stream[c])
             /\ read' = [read EXCEPT ![c] = read[c] + 1]
             /\ UNCHANGED <<stream, store, tokens, results>>
             /\ MsgOf(x).type \in {"record", "alien"}
             /\ MsgOf(x).visit \in Visits
             /\ x \in Records
             /\ Scheduled' = Scheduled \cup {x}
             /\ x \in store_record_tasks'[MsgOf(x).visit]
<1> DEFINE x == <<c, read[c] + 1>>
<1>1. Len(stream[c]) \in Nat /\ read[c] \in Nat
  BY DEF TypeInv, TypeOK
<1>2. read[c] < Len(stream[c]) /\ NextMsg(c).type \in {"record", "alien"}
  BY DEF ReadRecord, HasMessage
<1>3. read[c] + 1 \in 1..Len(stream[c]) /\ MsgOf(x) = NextMsg(c)
  BY <1>1, <1>2 DEF MsgOf, NextMsg
<1>4. MsgOf(x).visit \in Visits /\ x \in Records
  BY <1>1, <1>3, StreamTypes DEF TypeInv, NextMsg, Records
<1>5. /\ store_record_tasks' =
          [store_record_tasks EXCEPT ![NextMsg(c).visit] = @ \cup {x}]
      /\ ready' = Append(ready, x)
      /\ read' = [read EXCEPT ![c] = read[c] + 1]
      /\ UNCHANGED <<stream, store, tokens, results>>
  BY DEF ReadRecord, Consume, closedown, results
<1>6. Scheduled' = Scheduled \cup {x}
  <2>1. ready \in Seq(Records)
    BY DEF TypeInv, TypeOK
  <2>2. Elements(Append(ready, x)) = Elements(ready) \cup {x}
    BY <2>1, AppendElements
  <2>3. Scheduled' = Elements(ready')
    BY DEF Scheduled, Elements
  <2> QED  BY <1>5, <2>2, <2>3, ScheduledElements
<1>7. x \in store_record_tasks'[MsgOf(x).visit]
  BY <1>3, <1>4, <1>5 DEF TypeInv, TypeOK
<1> QED  BY <1>1, <1>2, <1>3, <1>4, <1>5, <1>6, <1>7

LEMMA RunTaskFacts ==
  ASSUME TypeInv, RunTask
  PROVE  /\ ready # <<>>
         /\ Scheduled = {Head(ready)} \cup Scheduled'
         /\ UNCHANGED <<wire, store_record_tasks, batched, flush_events,
                        lock_leaked, saved, tokens, results>>
<1>1. ready \in Seq(Records) /\ ready # <<>> /\ ready' = Tail(ready)
  BY DEF TypeInv, TypeOK, RunTask
<1>2. Elements(ready) = {Head(ready)} \cup Elements(Tail(ready))
  BY <1>1, TailElements
<1>3. Scheduled' = Elements(ready')
  BY DEF Scheduled, Elements
<1> QED  BY <1>1, <1>2, <1>3, ScheduledElements DEF RunTask, closedown, loop

LEMMA ScheduledRecords ==
  ASSUME TypeInv
  PROVE  Scheduled \subseteq Records
BY DEF TypeInv, TypeOK, Scheduled

LEMMA ScheduledVisits ==
  ASSUME TypeInv, TasksScheduled, NEW x \in Scheduled
  PROVE  x[1] \in Conns /\ x[2] \in 1..read[x[1]] /\ MsgOf(x).visit \in Visits
<1>1. x[1] \in Conns /\ x[2] \in 1..read[x[1]]
  BY ScheduledRecords DEF Records, TasksScheduled
<1>2. x[2] \in 1..Len(stream[x[1]])
  <2>1. /\ read[x[1]] \in Nat /\ Len(stream[x[1]]) \in Nat
        /\ read[x[1]] <= Len(stream[x[1]])
    BY <1>1 DEF TypeInv, TypeOK
  <2> QED  BY <1>1, <2>1
<1> QED  BY <1>1, <1>2, StreamTypes DEF TypeInv, MsgOf

LEMMA TasksScheduledStep ==
  ASSUME TypeInv, TypeInv', TasksScheduled, Kinds
  PROVE  TasksScheduled'
<1> SUFFICES ASSUME NEW x \in Scheduled'
             PROVE  /\ x[2] \in 1..read'[x[1]]
                    /\ MsgOf(x).type \in {"record", "alien"}
                    /\ x \in store_record_tasks'[MsgOf(x).visit]
  BY StreamFixed DEF TasksScheduled, MsgOf
<1>1. \A c \in Conns : read[c] \in Nat /\ read'[c] \in Nat
  BY DEF TypeInv, TypeOK
<1>2. ASSUME NEW c \in Conns, ReadRecord(c), x = <<c, read[c] + 1>>
      PROVE  /\ x[2] \in 1..read'[x[1]]
             /\ MsgOf(x).type \in {"record", "alien"}
             /\ x \in store_record_tasks'[MsgOf(x).visit]
  <2>1. read' = [read EXCEPT ![c] = read[c] + 1]
    BY <1>2, ReadRecordFacts
  <2>2. x[2] \in 1..read'[x[1]]
    BY <1>1, <1>2, <2>1 DEF TypeInv, TypeOK
  <2> QED  BY <1>2, <2>2, ReadRecordFacts
<1>3. ASSUME x \in Scheduled
      PROVE  /\ x[2] \in 1..read'[x[1]]
             /\ MsgOf(x).type \in {"record", "alien"}
             /\ x \in store_record_tasks'[MsgOf(x).visit]
  <2>1. x[1] \in Conns /\ x[2] \in 1..read[x[1]] /\ MsgOf(x).visit \in Visits
    BY <1>3, ScheduledVisits
  <2>2. read[x[1]] <= read'[x[1]]
    <3>1. CASE RunTask
      BY <1>1, <2>1, <3>1 DEF RunTask, wire
    <3>2. CASE Quiet
      BY <2>1, <3>2 DEF Quiet
    <3>3. ASSUME NEW c \in Conns, ReadRecord(c)
          PROVE  read[x[1]] <= read'[x[1]]
      <4>1. read' = [read EXCEPT ![c] = read[c] + 1]
        BY <3>3, ReadRecordFacts
      <4>2. read \in [Conns -> Nat]
        BY DEF TypeInv, TypeOK
      <4> QED  BY <2>1, <4>1, <4>2
    <3> QED  BY <3>1, <3>2, <3>3, KindsQuiet
  <2>3. x[2] \in 1..read'[x[1]]
    BY <1>1, <2>1, <2>2
  <2>4. x \in store_record_tasks[MsgOf(x).visit]
    BY <1>3 DEF TasksScheduled
  <2>5. ASSUME NEW v, store_record_tasks[v] \cap Scheduled = {},
               store_record_tasks' = [store_record_tasks EXCEPT ![v] = {}]
        PROVE  x \in store_record_tasks'[MsgOf(x).visit]
    BY <1>3, <2>1, <2>4, <2>5 DEF TypeInv, TypeOK
  <2>6. x \in store_record_tasks'[MsgOf(x).visit]
    BY <2>1, <2>4, <2>5, ListsKept DEF Completion
  <2> QED  BY <1>3, <2>3, <2>6 DEF TasksScheduled
<1>4. x \in Scheduled \/ \E c \in Conns : ReadRecord(c) /\ x = <<c, read[c] + 1>>
  <2>1. CASE RunTask
    BY <2>1, RunTaskFacts
  <2>2. CASE Quiet
    BY <2>2 DEF Quiet, Scheduled
  <2>3. ASSUME NEW c \in Conns, ReadRecord(c)
        PROVE  x \in Scheduled \/ x = <<c, read[c] + 1>>
    <3>1. Scheduled' = Scheduled \cup {<<c, read[c] + 1>>}
      BY <2>3, ReadRecordFacts
    <3> QED  BY <3>1
  <2> QED  BY <2>1, <2>2, <2>3, KindsQuiet
<1> QED  BY <1>2, <1>3, <1>4

\* A record that has been read after the step was read before it or by it.
LEMMA ReceivedBefore ==
  ASSUME TypeInv, TypeInv', Kinds,
         NEW c \in Conns, NEW j \in 1..read'[c], stream[c][j].type = "record"
  PROVE  \/ j \in 1..read[c] /\ Received(c, j)
         \/ ReadRecord(c) /\ j = read[c] + 1
<1>0. /\ read \in [Conns -> Nat] /\ read' \in [Conns -> Nat]
  BY DEF TypeInv, TypeOK
<1>1. CASE Quiet
  BY <1>1 DEF Quiet, Received
<1>2. CASE RunTask
  BY <1>2 DEF RunTask, wire, Received
<1>3. ASSUME NEW d \in Conns, ReadRecord(d)
      PROVE  \/ j \in 1..read[c] /\ Received(c, j)
             \/ ReadRecord(c) /\ j = read[c] + 1
  <2>1. read' = [read EXCEPT ![d] = read[d] + 1]
    BY <1>3, ReadRecordFacts
  <2>2. CASE c = d
    <3>1. read'[c] = read[c] + 1 /\ read[c] \in Nat
      BY <1>0, <2>1, <2>2
    <3>2. j \in 1..read[c] \/ j = read[c] + 1
      BY <3>1
    <3> QED  BY <1>3, <2>2, <3>2 DEF Received
  <2>3. CASE c # d
    BY <1>0, <2>1, <2>3 DEF Received
  <2> QED  BY <2>2, <2>3
<1> QED  BY <1>1, <1>2, <1>3, KindsQuiet

LEMMA ReadVisits ==
  ASSUME TypeInv, NEW c \in Conns, NEW j \in 1..read[c]
  PROVE  /\ j \in 1..Len(stream[c]) /\ stream[c][j].visit \in Visits
         /\ MsgOf(<<c, j>>) = stream[c][j]
<1>1. read[c] \in Nat /\ Len(stream[c]) \in Nat /\ read[c] <= Len(stream[c])
  BY DEF TypeInv, TypeOK
<1>2. j \in 1..Len(stream[c])
  BY <1>1
<1> QED  BY <1>2, StreamTypes DEF TypeInv, MsgOf

LEMMA RecordsAccountedStep ==
  ASSUME TypeInv, TypeInv', SqliteShape, RecordsAccounted, Kinds
  PROVE  RecordsAccounted'
<1> SUFFICES ASSUME NEW c \in Conns, NEW j \in 1..read'[c],
                    stream[c][j].type = "record"
             PROVE  <<c, j>> \in Scheduled' \cup cached'[stream[c][j].visit]
                                \cup batched' \cup saved'
  BY StreamFixed DEF RecordsAccounted, Received
<1> DEFINE v == stream[c][j].visit
<1>1. CASE ReadRecord(c) /\ j = read[c] + 1
  BY <1>1, ReadRecordFacts
<1>2. CASE j \in 1..read[c] /\ Received(c, j)
  <2>1. <<c, j>> \in Scheduled \cup cached[v] \cup batched \cup saved
    BY <1>2 DEF RecordsAccounted
  <2>2. v \in Visits /\ MsgOf(<<c, j>>) = stream[c][j]
    BY <1>2, ReadVisits
  <2>3. CASE <<c, j>> \in cached[v] \cup batched \cup saved
    BY <2>2, <2>3, StoreMonotone DEF Kept
  <2>4. CASE <<c, j>> \in Scheduled
    <3>1. CASE RunTask
      <4>1. <<c, j>> \in Scheduled' \/ <<c, j>> = Head(ready)
        BY <2>4, <3>1, RunTaskFacts
      <4>2. ASSUME <<c, j>> = Head(ready)
            PROVE  <<c, j>> \in cached'[v]
        BY <1>2, <2>2, <3>1, <4>2 DEF RunTask, TypeInv, TypeOK, Received
      <4> QED  BY <4>1, <4>2
    <3>2. CASE Quiet
      BY <2>4, <3>2 DEF Quiet, Scheduled
    <3>3. CASE \E d \in Conns : ReadRecord(d)
      BY <2>4, <3>3, ReadRecordFacts
    <3> QED  BY <3>1, <3>2, <3>3, KindsQuiet
  <2> QED  BY <2>1, <2>3, <2>4
<1> QED  BY <1>1, <1>2, ReceivedBefore

LEMMA SettledStep ==
  ASSUME TypeInv, TypeInv', SqliteShape, TasksScheduled, RecordsAccounted,
         Settled, Kinds
  PROVE  Settled'
<1> SUFFICES ASSUME NEW c \in Conns, NEW j \in 1..read'[c],
                    stream[c][j].type = "record", ~lock_leaked'
             PROVE  \/ <<c, j>> \in store_record_tasks'[stream[c][j].visit]
                    \/ <<c, j>> \in batched' \cup saved'
  BY StreamFixed DEF Settled, Received
<1> DEFINE v == stream[c][j].visit
<1>1. CASE ReadRecord(c) /\ j = read[c] + 1
  <2>1. MsgOf(<<c, j>>) = stream[c][j]
    BY DEF MsgOf
  <2> QED  BY <1>1, <2>1, ReadRecordFacts
<1>2. CASE j \in 1..read[c] /\ Received(c, j)
  <2>1. Kept /\ ~lock_leaked
    BY StoreMonotone DEF Kept
  <2>2. v \in Visits /\ MsgOf(<<c, j>>) = stream[c][j]
    BY <1>2, ReadVisits
  <2>3. CASE <<c, j>> \in batched \cup saved
    BY <2>1, <2>3 DEF Kept
  <2>4. CASE <<c, j>> \in store_record_tasks[v]
    <3>1. ASSUME NEW p, NEW w, NEW success, NEW by,
                 Completion(p, w, success, by),
                 store_record_tasks' = [store_record_tasks EXCEPT ![w] = {}]
          PROVE  \/ <<c, j>> \in store_record_tasks'[v]
                 \/ <<c, j>> \in batched' \cup saved'
      <4>1. CASE w = v
        <5>1. <<c, j>> \notin Scheduled
          BY <2>4, <3>1, <4>1 DEF Completion
        <5>2. <<c, j>> \in cached[v] \cup batched \cup saved
          BY <1>2, <5>1 DEF RecordsAccounted
        <5>3. Effect(p, w, success, by)
          BY <3>1, FinalizeTypesOK, CompleteEffect DEF TypeInv, Completion, Asked
        <5>4. cached[v] \subseteq batched' \cup saved'
          BY <2>1, <4>1, <5>3 DEF Effect
        <5> QED  BY <2>1, <5>2, <5>4 DEF Kept
      <4>2. CASE w # v
        BY <2>2, <2>4, <3>1, <4>2 DEF TypeInv, TypeOK
      <4> QED  BY <4>1, <4>2
    <3> QED  BY <2>2, <2>4, <3>1, ListsKept
  <2> QED  BY <1>2, <2>1, <2>3, <2>4 DEF Settled
<1> QED  BY <1>1, <1>2, ReceivedBefore

----------------------------------------------------------------------------
(* The finalizations. *)

LEMMA PendingElements == Pending = Elements(finalize_tasks)
BY DEF Pending, Elements

LEMMA ReportsElements == Reports = Elements(completion_queue)
BY DEF Reports, Elements

LEMMA ClaimFixed ==
  ASSUME UNCHANGED stream
  PROVE  \A e : Claim(e)' = Claim(e)
BY DEF Claim, Covered, MsgOf, Marker, Incomplete

\* All that the sender of a Finalize message had submitted before it is past
\* the event loop when no task of the visit is scheduled.
LEMMA CoveredStored ==
  ASSUME TypeInv, TasksScheduled, RecordsAccounted,
         NEW p, NEW v, NEW by, Asked(p, v, by),
         store_record_tasks[v] \cap Scheduled = {}
  PROVE  Covered(by) \subseteq cached[v] \cup batched \cup saved
<1>1. CASE p = Main
  BY <1>1 DEF Asked, Covered
<1>2. CASE p # Main
  <2>1. /\ p \in Conns /\ by[1] = p /\ by[2] \in 1..Len(stream[p])
        /\ by[2] - 1 <= read[p] /\ MsgOf(by).visit = v
    BY <1>2 DEF Asked, Procs
  <2>2. read[p] \in Nat /\ Len(stream[p]) \in Nat
    BY <2>1 DEF TypeInv, TypeOK
  <2>3. SUFFICES ASSUME NEW j \in 1..(by[2]-1), stream[p][j].type = "record",
                        stream[p][j].visit = v
                 PROVE  <<p, j>> \in cached[v] \cup batched \cup saved
    BY <1>2, <2>1, MainAssumption DEF Covered
  <2>4. j \in 1..read[p]
    BY <2>1, <2>2
  <2>5. Received(p, j)
    BY <2>1, <2>3, <2>4 DEF Received
  <2>6. MsgOf(<<p, j>>) = stream[p][j]
    BY DEF MsgOf
  <2>7. <<p, j>> \notin Scheduled
    BY <2>3, <2>6 DEF TasksScheduled
  <2> QED  BY <2>1, <2>3, <2>4, <2>5, <2>7 DEF RecordsAccounted
<1> QED  BY <1>1, <1>2

\* The same when the list of the visit is gone and no lock has leaked.
LEMMA CoveredSettled ==
  ASSUME TypeInv, Settled, ~lock_leaked,
         NEW p, NEW v, NEW by, Asked(p, v, by), store_record_tasks[v] = {}
  PROVE  Covered(by) \subseteq batched \cup saved
<1>1. CASE p = Main
  BY <1>1 DEF Asked, Covered
<1>2. CASE p # Main
  <2>1. /\ p \in Conns /\ by[1] = p /\ by[2] \in 1..Len(stream[p])
        /\ by[2] - 1 <= read[p] /\ MsgOf(by).visit = v
    BY <1>2 DEF Asked, Procs
  <2>2. read[p] \in Nat /\ Len(stream[p]) \in Nat
    BY <2>1 DEF TypeInv, TypeOK
  <2>3. SUFFICES ASSUME NEW j \in 1..(by[2]-1), stream[p][j].type = "record",
                        stream[p][j].visit = v
                 PROVE  <<p, j>> \in batched \cup saved
    BY <1>2, <2>1, MainAssumption DEF Covered
  <2>4. j \in 1..read[p]
    BY <2>1, <2>2
  <2>5. Received(p, j)
    BY <2>1, <2>3, <2>4 DEF Received
  <2> QED  BY <2>1, <2>3, <2>4, <2>5 DEF Settled
<1> QED  BY <1>1, <1>2

\* What a return appends to finalize_tasks.
LEMMA AppendedEntry ==
  ASSUME TypeInv, NEW r \in Entries,
         UNCHANGED finalize_tasks \/ finalize_tasks' = Append(finalize_tasks, r)
  PROVE  Pending' \subseteq Pending \cup {r}
<1>1. finalize_tasks \in Seq(Entries)
  BY DEF TypeInv, TypeOK
<1>2. Pending' = Elements(finalize_tasks')
  BY DEF Pending, Elements
<1>3. Elements(Append(finalize_tasks, r)) = Elements(finalize_tasks) \cup {r}
  BY <1>1, AppendElements
<1> QED  BY <1>2, <1>3, PendingElements

LEMMA FeedEntries ==
  ASSUME TypeInv, Feed
  PROVE  /\ Pending' \subseteq Pending
         /\ \E e \in Pending : /\ e.by \notin flush_events
                              /\ Reports' = Reports \cup {e}
         /\ UNCHANGED <<store, tokens>>
<1>1. finalize_tasks \in Seq(Entries) /\ completion_queue \in Seq(Entries)
  BY DEF TypeInv, TypeOK
<1>2. PICK i \in 1..Len(finalize_tasks) :
        /\ finalize_tasks[i].by \notin flush_events
        /\ completion_queue' = Append(completion_queue, finalize_tasks[i])
        /\ finalize_tasks' = WithoutAt(finalize_tasks, i)
  BY DEF Feed, WithoutAt
<1>3. Pending' = Elements(finalize_tasks') /\ Reports' = Elements(completion_queue')
  BY DEF Pending, Reports, Elements
<1>4. Pending' \subseteq Pending
  BY <1>1, <1>2, <1>3, WithoutAtElements, PendingElements
<1>5. Reports' = Reports \cup {finalize_tasks[i]}
  BY <1>1, <1>2, <1>3, AppendElements, ReportsElements
<1>6. finalize_tasks[i] \in Pending
  BY DEF Pending
<1> QED  BY <1>2, <1>4, <1>5, <1>6 DEF Feed, closedown

\* The entry of a finalization that found tasks is backed when it is made.
LEMMA CompletionBacked ==
  ASSUME TypeInv, SqliteShape, TasksScheduled, RecordsAccounted,
         NEW p, NEW v, NEW success, NEW by, Completion(p, v, success, by)
  PROVE  \/ /\ \E Q : Return(p, v, success, by, TRUE, Q)
            /\ Covered(by) \cup Marker(v, success) \subseteq saved' \cup batched'
            /\ \/ by \in flush_events'
               \/ Covered(by) \cup Marker(v, success) \subseteq saved'
         \/ UNCHANGED <<tokens, finalize_tasks>>
<1>1. Effect(p, v, success, by)
  BY FinalizeTypesOK, CompleteEffect DEF TypeInv, Completion, Asked
<1>2. Covered(by) \subseteq cached[v] \cup batched \cup saved
  BY CoveredStored DEF Completion
<1> QED  BY <1>1, <1>2 DEF Effect

LEMMA PendingBackedStep ==
  ASSUME TypeInv, SqliteShape, TasksScheduled, RecordsAccounted, PendingBacked,
         Kinds
  PROVE  PendingBacked'
<1> SUFFICES ASSUME NEW e \in Pending', e.found
             PROVE  /\ Claim(e) \subseteq saved' \cup batched'
                    /\ e.by \notin flush_events' => Claim(e) \subseteq saved'
  BY StreamFixed, ClaimFixed DEF PendingBacked
<1>1. CASE e \in Pending
  BY <1>1, StoreMonotone DEF PendingBacked, Kept
<1>2. ASSUME NEW p, NEW v, NEW success, NEW by, Completion(p, v, success, by),
             e \notin Pending
      PROVE  /\ Claim(e) \subseteq saved' \cup batched'
             /\ e.by \notin flush_events' => Claim(e) \subseteq saved'
  <2>1. CASE UNCHANGED finalize_tasks
    BY <1>2, <2>1 DEF Pending
  <2>2. CASE finalize_tasks' # finalize_tasks
    <3> DEFINE r == [visit |-> v, success |-> success, by |-> by, found |-> TRUE]
    <3>1. PICK Q : Return(p, v, success, by, TRUE, Q)
      BY <1>2, <2>2, CompletionBacked
    <3>2. Asked(p, v, by) /\ success \in BOOLEAN
      BY <1>2 DEF Completion
    <3>3. Pending' \subseteq Pending \cup {r}
      <4>1. r \in Entries
        BY <3>2 DEF Asked, Entries
      <4>2. UNCHANGED finalize_tasks \/ finalize_tasks' = Append(finalize_tasks, r)
        BY <3>1 DEF Return
      <4> HIDE DEF r
      <4> QED  BY <4>1, <4>2, AppendedEntry
    <3>4. e = r
      BY <1>2, <3>3
    <3>5. Claim(e) = Covered(by) \cup Marker(v, success) /\ e.by = by
      BY <3>4 DEF Claim
    <3> QED  BY <1>2, <2>2, <3>5, CompletionBacked
  <2> QED  BY <2>1, <2>2
<1>3. ASSUME NEW p, NEW v, NEW success, NEW by, Dismissal(p, v, success, by)
      PROVE  e \in Pending
  <2> DEFINE r == [visit |-> v, success |-> success, by |-> by, found |-> FALSE]
  <2>1. Pending' \subseteq Pending \cup {r}
    <3>1. r \in Entries
      BY <1>3 DEF Dismissal, Asked, Entries
    <3>2. UNCHANGED finalize_tasks \/ finalize_tasks' = Append(finalize_tasks, r)
      BY <1>3 DEF Dismissal, Return
    <3> HIDE DEF r
    <3> QED  BY <3>1, <3>2, AppendedEntry
  <2>2. e # r
    OBVIOUS
  <2> QED  BY <2>1, <2>2
<1>4. Feed => e \in Pending
  BY FeedEntries
<1>5. UNCHANGED finalize_tasks => e \in Pending
  BY DEF Pending
<1>6. (\E c \in Conns : ReadRecord(c)) \/ RunTask \/ ShutdownReport
        => UNCHANGED finalize_tasks
  BY DEF ReadRecord, RunTask, ShutdownReport, results
<1> QED  BY <1>1, <1>2, <1>3, <1>4, <1>5, <1>6 DEF Kinds, results

LEMMA TokensBackedStep ==
  ASSUME TypeInv, SqliteShape, TasksScheduled, RecordsAccounted, TokensBacked,
         Kinds
  PROVE  TokensBacked'
<1> SUFFICES ASSUME NEW v \in tokens'
             PROVE  /\ Incomplete(v) \in saved' \cup batched'
                    /\ <<Main, v>> \notin flush_events' => Incomplete(v) \in saved'
  BY DEF TokensBacked, Incomplete
<1>1. CASE v \in tokens
  BY <1>1, StoreMonotone DEF TokensBacked, Kept
<1>2. ASSUME NEW p, NEW w, NEW success, NEW by, Completion(p, w, success, by),
             v \notin tokens
      PROVE  /\ Incomplete(v) \in saved' \cup batched'
             /\ <<Main, v>> \notin flush_events' => Incomplete(v) \in saved'
  <2>1. tokens' # tokens
    BY <1>2
  <2>2. PICK Q : Return(p, w, success, by, TRUE, Q)
    BY <1>2, <2>1, CompletionBacked
  <2>3. p = Main /\ v = w
    BY <1>2, <2>2 DEF Return
  <2>4. by = <<Main, v>> /\ ~success
    BY <1>2, <2>3 DEF Completion, Asked
  <2>5. Marker(w, success) = {Incomplete(v)}
    BY <2>3, <2>4 DEF Marker
  <2> QED  BY <1>2, <2>1, <2>4, <2>5, CompletionBacked
<1>3. ASSUME NEW p, NEW w, NEW success, NEW by, Dismissal(p, w, success, by)
      PROVE  v \in tokens
  BY <1>3 DEF Dismissal, Return
<1>4. ShutdownReport => v \in tokens
  BY DEF ShutdownReport
<1>5. (\E c \in Conns : ReadRecord(c)) \/ RunTask \/ Feed => UNCHANGED tokens
  BY DEF ReadRecord, Consume, RunTask, Feed, closedown
<1> QED  BY <1>1, <1>2, <1>3, <1>4, <1>5 DEF Kinds

\* What a step adds to the reports.
LEMMA NewReport ==
  ASSUME TypeInv, Kinds, NEW e \in Reports', e \notin Reports
  PROVE  \/ e \in Pending /\ e.by \notin flush_events
         \/ \E v \in tokens :
              /\ <<Main, v>> \notin flush_events
              /\ e = [visit |-> v, success |-> FALSE, by |-> <<Main, v>>,
                      found |-> TRUE]
<1>1. CASE Feed
  BY <1>1, FeedEntries
<1>2. CASE ShutdownReport
  <2>1. PICK v \in tokens :
          /\ <<Main, v>> \notin flush_events
          /\ completion_queue' =
               Append(completion_queue, [visit |-> v, success |-> FALSE,
                                         by |-> <<Main, v>>, found |-> TRUE])
    BY <1>2 DEF ShutdownReport
  <2> DEFINE r == [visit |-> v, success |-> FALSE, by |-> <<Main, v>>,
                   found |-> TRUE]
  <2>2. completion_queue \in Seq(Entries) /\ v \in Visits
    BY DEF TypeInv, TypeOK
  <2>3. r \in Entries
    BY <2>2 DEF Entries, Finalizations
  <2> HIDE DEF r
  <2>4. Elements(Append(completion_queue, r)) = Elements(completion_queue) \cup {r}
    BY <2>2, <2>3, AppendElements
  <2>5. Reports' = Elements(completion_queue')
    BY DEF Reports, Elements
  <2>6. completion_queue' = Append(completion_queue, r)
    BY <2>1 DEF r
  <2>7. e = r
    BY <2>4, <2>5, <2>6, ReportsElements
  <2> QED  BY <2>1, <2>7 DEF r
<1>3. UNCHANGED completion_queue => Reports' = Reports
  BY DEF Reports
<1>4. (\E c \in Conns : ReadRecord(c)) \/ RunTask => UNCHANGED completion_queue
  BY DEF ReadRecord, Consume, RunTask, results
<1> QED  BY <1>1, <1>2, <1>3, <1>4 DEF Kinds, results

LEMMA ReportedIsSavedStep ==
  ASSUME TypeInv, SqliteShape, PendingBacked, TokensBacked, ReportedIsSaved,
         Kinds
  PROVE  ReportedIsSaved'
<1> SUFFICES ASSUME NEW e \in Reports', e.found
             PROVE  Claim(e) \subseteq saved'
  BY StreamFixed, ClaimFixed DEF ReportedIsSaved, Claim
<1>1. saved \subseteq saved'
  BY StoreMonotone DEF Kept
<1>2. CASE e \in Reports
  BY <1>1, <1>2 DEF ReportedIsSaved, Claim
<1>3. CASE e \in Pending /\ e.by \notin flush_events
  BY <1>1, <1>3 DEF PendingBacked
<1>4. ASSUME NEW v \in tokens, <<Main, v>> \notin flush_events,
             e = [visit |-> v, success |-> FALSE, by |-> <<Main, v>>,
                  found |-> TRUE]
      PROVE  Claim(e) \subseteq saved'
  <2>1. Claim(e) = {Incomplete(v)}
    BY <1>4 DEF Claim, Covered, Marker
  <2> QED  BY <1>1, <1>4, <2>1 DEF TokensBacked
<1> QED  BY <1>2, <1>3, <1>4, NewReport

----------------------------------------------------------------------------
(* The theorems. *)

LEMMA InitIInv == Init => IInv
<1> SUFFICES ASSUME Init PROVE IInv
  OBVIOUS
<1>1. TypeInv
  BY InitTypes
<1>2. /\ Scheduled = {} /\ Pending = {} /\ Reports = {} /\ tokens = {}
      /\ \A c \in Conns : 1..read[c] = {}
  BY DEF Init, Scheduled, Pending, Reports
<1>3. SqliteShape
  BY DEF Init, SqliteShape
<1> QED  BY <1>1, <1>2, <1>3
         DEF IInv, TasksScheduled, RecordsAccounted, Settled, PendingBacked,
             TokensBacked, ReportedIsSaved

LEMMA NextIInv == IInv /\ [Next]_vars => IInv'
<1> SUFFICES ASSUME IInv, [Next]_vars PROVE IInv'
  OBVIOUS
<1>1. TypeInv /\ TypeInv' /\ Kinds
  BY NextTypes, NextKinds DEF IInv
<1> QED  BY <1>1, StoreMonotone, TasksScheduledStep, RecordsAccountedStep,
            SettledStep, PendingBackedStep, TokensBackedStep,
            ReportedIsSavedStep
         DEF IInv

LEMMA SpecIInv == Spec => []IInv
BY InitIInv, NextIInv, PTL DEF Spec

\* With either provider, whatever the connections send, wherever a write
\* fails and whenever the shutdown comes: when the task manager is told that
\* a visit is over by a finalization that found tasks, the records that its
\* sender submitted before it, and the mark of an interrupted visit, are in
\* persistent storage.
THEOREM ReportedIsSavedAlways == Spec => []ReportedIsSaved
<1>1. IInv => ReportedIsSaved
  BY DEF IInv
<1> QED  BY <1>1, SpecIInv, PTL

LEMMA InitSqliteInv == Init => SqliteInv
BY DEF Init, SqliteInv, PendingSaved, EitherWaySaved, Pending, Reports

LEMMA SqliteInvStep ==
  ASSUME IInv, IInv', SqliteInv, Kinds
  PROVE  SqliteInv'
<1> SUFFICES ASSUME Provider = "sqlite"
             PROVE  PendingSaved' /\ EitherWaySaved'
  BY DEF SqliteInv
<1>0. /\ TypeInv /\ SqliteShape /\ PendingSaved /\ EitherWaySaved
      /\ saved \subseteq saved' /\ batched = {} /\ batched' = {} /\ ~lock_leaked
  BY StoreMonotone DEF IInv, SqliteInv, SqliteShape, Kept
<1>1. ASSUME NEW e
      PROVE  Covered(e.by)' = Covered(e.by)
  BY <1>0, StreamFixed DEF Covered, MsgOf
<1>2. ASSUME NEW e \in Pending'
      PROVE  Covered(e.by) \subseteq saved'
  <2>1. CASE e \in Pending
    BY <1>0, <2>1 DEF PendingSaved
  <2>2. CASE e.found
    <3>1. Claim(e)' \subseteq saved'
      BY <1>0, <1>2, <2>2 DEF IInv, PendingBacked
    <3> QED  BY <1>1, <3>1 DEF Claim
  <2>3. ASSUME NEW p, NEW v, NEW success, NEW by, Dismissal(p, v, success, by),
               e \notin Pending
        PROVE  Covered(e.by) \subseteq saved'
    <3> DEFINE r == [visit |-> v, success |-> success, by |-> by, found |-> FALSE]
    <3>1. Asked(p, v, by) /\ store_record_tasks[v] = {}
      BY <2>3 DEF Dismissal
    <3>2. r \in Entries
      BY <2>3 DEF Dismissal, Asked, Entries
    <3>3. UNCHANGED finalize_tasks \/ finalize_tasks' = Append(finalize_tasks, r)
      BY <2>3 DEF Dismissal, Return
    <3>4. r.by = by
      OBVIOUS
    <3> HIDE DEF r
    <3>5. Pending' \subseteq Pending \cup {r}
      BY <1>0, <3>2, <3>3, AppendedEntry
    <3>6. e.by = by
      BY <1>2, <2>3, <3>4, <3>5
    <3>7. Covered(by) \subseteq saved
      BY <1>0, <3>1, CoveredSettled DEF IInv
    <3> QED  BY <1>0, <3>6, <3>7
  <2>4. ASSUME NEW p, NEW v, NEW success, NEW by, Completion(p, v, success, by),
               e \notin Pending
        PROVE  e.found
    <3> DEFINE r == [visit |-> v, success |-> success, by |-> by, found |-> TRUE]
    <3>1. r \in Entries
      BY <2>4 DEF Completion, Asked, Entries
    <3>2. UNCHANGED finalize_tasks \/ finalize_tasks' = Append(finalize_tasks, r)
      BY <1>0, <2>4, CompletionBacked DEF Return, IInv
    <3>3. r.found
      OBVIOUS
    <3> HIDE DEF r
    <3>4. Pending' \subseteq Pending \cup {r}
      BY <1>0, <3>1, <3>2, AppendedEntry
    <3> QED  BY <1>2, <2>4, <3>3, <3>4
  <2>5. Feed => e \in Pending
    BY <1>0, <1>2, FeedEntries
  <2>6. UNCHANGED finalize_tasks => e \in Pending
    BY <1>2 DEF Pending
  <2>7. (\E c \in Conns : ReadRecord(c)) \/ RunTask \/ ShutdownReport
          => UNCHANGED finalize_tasks
    BY DEF ReadRecord, RunTask, ShutdownReport, results
  <2> QED  BY <2>1, <2>2, <2>3, <2>4, <2>5, <2>6, <2>7 DEF Kinds, results
<1>3. ASSUME NEW e \in Reports'
      PROVE  Covered(e.by) \subseteq saved'
  <2>1. CASE e \in Reports
    BY <1>0, <2>1 DEF EitherWaySaved
  <2>2. CASE e \in Pending
    BY <1>0, <2>2 DEF PendingSaved
  <2>3. ASSUME NEW v \in tokens,
               e = [visit |-> v, success |-> FALSE, by |-> <<Main, v>>,
                    found |-> TRUE]
        PROVE  Covered(e.by) \subseteq saved'
    BY <2>3 DEF Covered
  <2> QED  BY <1>0, <1>3, <2>1, <2>2, <2>3, NewReport
<1> QED  BY <1>1, <1>2, <1>3 DEF PendingSaved, EitherWaySaved

\* With SQLite the comment "Either way all data for the visit_id was saved
\* out" in update_completion_queue() is true of every report, also of one
\* whose finalization found nothing left to do.
THEOREM SqliteEitherWaySaved ==
  ASSUME Provider = "sqlite"
  PROVE  Spec => []EitherWaySaved
<1>1. Init => IInv /\ SqliteInv
  BY InitIInv, InitSqliteInv
<1>2. IInv /\ SqliteInv /\ [Next]_vars => (IInv /\ SqliteInv)'
  BY NextIInv, NextKinds, SqliteInvStep DEF IInv
<1>3. SqliteInv => EitherWaySaved
  BY DEF SqliteInv
<1> QED  BY <1>1, <1>2, <1>3, PTL DEF Spec

----------------------------------------------------------------------------
(* The shutdown. *)

\* The main coroutine moves by its own steps, or is taken down by the
\* handler that deletes the list it awaits.
Unmoved ==
  /\ UNCHANGED cut
  /\ \/ pc'[Main] \in {"dead", "locked"}
     \/ pc'[Main] = pc[Main] /\ UNCHANGED <<todo, closing>>

LEMMA MovedMain ==
  ASSUME TypeInv, NEW p \in Procs \ {Main}, NEW t, NEW Q, pc' = Moved(p, t, Q)
  PROVE  pc'[Main] \in {"dead", pc[Main]}
BY DEF Moved, Procs

LEMMA RaiseMain ==
  ASSUME TypeInv, NEW Q, Raise(Q)
  PROVE  pc'[Main] \in {"dead", pc[Main]}
BY DEF Raise, Procs

LEMMA CompleteMain ==
  ASSUME TypeInv, NEW p \in Procs \ {Main}, NEW v, NEW success, NEW by,
         Complete(p, v, success, by)
  PROVE  pc'[Main] \in {"dead", pc[Main]}
<1> DEFINE Q == Joiners(v) \ {p}
<1>1. CASE FinalizeSqlite(p, v, success, by, Q)
  BY <1>1, MovedMain DEF FinalizeSqlite, Return
<1>2. CASE FinalizeArrow(p, v, success, by, Q)
  <2>1. \/ pc' = Moved(p, "locked", Q)
        \/ Return(p, v, success, by, TRUE, Q)
        \/ Raise(Q \cup {p})
    BY <1>2 DEF FinalizeArrow
  <2> QED  BY <2>1, MovedMain, RaiseMain DEF Return
<1> QED  BY <1>1, <1>2 DEF Complete

LEMMA FinalizeMain ==
  ASSUME TypeInv, NEW p \in Procs \ {Main}, NEW v, NEW success, NEW by,
         Finalize(p, v, success, by)
  PROVE  pc'[Main] \in {"dead", pc[Main]}
<1>1. CASE Return(p, v, success, by, FALSE, {})
  BY <1>1, MovedMain DEF Return
<1>2. CASE Raise({p})
  BY <1>2, RaiseMain
<1>3. CASE pc' = [pc EXCEPT ![p] = "join"]
  BY <1>3 DEF TypeInv, TypeOK, Procs
<1>4. CASE Complete(p, v, success, by)
  BY <1>4, CompleteMain
<1> QED  BY <1>1, <1>2, <1>3, <1>4 DEF Finalize

LEMMA ReadMain ==
  ASSUME TypeInv, NEW c \in Conns, Read(c)
  PROVE  Unmoved
<1>0. c \in Procs \ {Main} /\ Main \in Procs
  BY MainAssumption DEF Procs
<1>1. UNCHANGED <<cut, todo, closing>>
  BY DEF Read, ReadRecord, ReadSkip, ReadFatal, ReadFinalize, Consume, closedown
<1>2. CASE ReadFinalize(c)
  BY <1>0, <1>1, <1>2, FinalizeMain DEF ReadFinalize, Unmoved
<1>3. CASE ReadRecord(c) \/ ReadSkip(c) \/ ReadFatal(c)
  BY <1>0, <1>1, <1>3
     DEF ReadRecord, ReadSkip, ReadFatal, Unmoved, TypeInv, TypeOK
<1> QED  BY <1>2, <1>3 DEF Read

LEMMA ResumeMain ==
  ASSUME TypeInv, NEW p \in Procs \ {Main}, Resume(p)
  PROVE  Unmoved
<1>1. UNCHANGED <<cut, todo, closing>>
  BY DEF Resume
<1>2. pc'[Main] \in {"dead", pc[Main]}
  BY RaiseMain, CompleteMain DEF Resume
<1> QED  BY <1>1, <1>2 DEF Unmoved

MainMoves ==
  \/ Unmoved
  \/ BeginShutdown
  \/ ShutdownFinalize
  \/ Resume(Main)
  \/ ShutdownFlush
  \/ ShutdownResume \/ ShutdownEnds

LEMMA NextMain ==
  ASSUME TypeInv, [Next]_vars
  PROVE  MainMoves
<1>1. CASE RunTask \/ Feed \/ FeederEnds \/ Timeout \/ SendShutdown \/ ShutdownReport
           \/ UNCHANGED vars
  BY <1>1 DEF RunTask, Feed, FeederEnds, Timeout, SendShutdown, ShutdownReport,
              vars, closedown, Unmoved, MainMoves
<1>2. ASSUME NEW c \in Conns, Read(c)
      PROVE  MainMoves
  BY <1>2, ReadMain DEF MainMoves
<1>3. ASSUME NEW p \in Procs, Resume(p)
      PROVE  MainMoves
  BY <1>3, ResumeMain DEF MainMoves
<1> QED  BY <1>1, <1>2, <1>3 DEF Next, Shutdown, MainMoves

LEMMA ReadGrows ==
  ASSUME TypeInv, Kinds, NEW c \in Conns
  PROVE  read[c] <= read'[c]
<1>0. read \in [Conns -> Nat]
  BY DEF TypeInv, TypeOK
<1>1. CASE RunTask
  BY <1>0, <1>1 DEF RunTask, wire
<1>2. CASE Quiet
  BY <1>2 DEF Quiet
<1>3. ASSUME NEW d \in Conns, ReadRecord(d)
      PROVE  read[c] <= read'[c]
  <2>1. read' = [read EXCEPT ![d] = read[d] + 1]
    BY <1>3, ReadRecordFacts
  <2> QED  BY <1>0, <2>1
<1> QED  BY <1>1, <1>2, <1>3, KindsQuiet

LEMMA CutShapeStep ==
  ASSUME TypeInv, TypeInv', CutShape, Kinds, MainMoves
  PROVE  CutShape'
<1>0. /\ read \in [Conns -> Nat] /\ read' \in [Conns -> Nat]
      /\ cut \in [Conns -> Nat]
  BY DEF TypeInv, TypeOK
<1>1. UNCHANGED cut \/ (cut' = read /\ UNCHANGED read)
  BY DEF MainMoves, Unmoved, BeginShutdown, ShutdownFinalize, Resume,
         ShutdownFlush, ShutdownResume, ShutdownEnds, closedown, wire
<1>2. \A c \in Conns : read[c] <= read'[c]
  BY ReadGrows
<1> QED  BY <1>0, <1>1, <1>2 DEF CutShape

\* A finalization by the main coroutine that is neither waiting nor dead has
\* emptied the list of the visit.
LEMMA MainFinalized ==
  ASSUME TypeInv, NEW v \in Visits, NEW success, NEW by,
         Finalize(Main, v, success, by) \/ Complete(Main, v, success, by),
         pc'[Main] \notin {"dead", "join"}
  PROVE  store_record_tasks'[v] = {}
<1>1. CASE Complete(Main, v, success, by)
  BY <1>1 DEF Complete, TypeInv, TypeOK
<1>2. CASE store_record_tasks[v] = {} /\ UNCHANGED store_record_tasks
  BY <1>2
<1>3. CASE Raise({Main})
  BY <1>3 DEF Raise, Procs
<1>4. CASE pc' = [pc EXCEPT ![Main] = "join"]
  BY <1>4 DEF TypeInv, TypeOK, Procs
<1> QED  BY <1>1, <1>2, <1>3, <1>4 DEF Finalize

LEMMA FinalizePc ==
  ASSUME TypeInv, NEW v, NEW success, NEW by,
         Finalize(Main, v, success, by) \/ Complete(Main, v, success, by)
  PROVE  pc'[Main] \in {"finalizing", "dead", "locked", "join"}
<1>1. Main \in Procs
  BY DEF Procs
<1>2. CASE Complete(Main, v, success, by)
  BY <1>1, <1>2 DEF Complete, FinalizeSqlite, FinalizeArrow, Return, Raise, Moved
<1>3. CASE Return(Main, v, success, by, FALSE, {})
  BY <1>1, <1>3 DEF Return, Moved
<1>4. CASE Raise({Main})
  BY <1>1, <1>4 DEF Raise
<1>5. CASE pc' = [pc EXCEPT ![Main] = "join"]
  BY <1>1, <1>5 DEF TypeInv, TypeOK
<1> QED  BY <1>2, <1>3, <1>4, <1>5 DEF Finalize

LEMMA ShutdownCoversStep ==
  ASSUME IInv, IInv', CutShape, CutShape', ShutdownCovers, Kinds, MainMoves
  PROVE  ShutdownCovers'
<1>0. TypeInv /\ TypeInv' /\ SqliteShape /\ Settled' /\ UNCHANGED stream /\ Kept
  BY StreamFixed, StoreMonotone DEF IInv
<1> SUFFICES ASSUME NEW c \in Conns, NEW j \in 1..cut'[c],
                    stream[c][j].type = "record"
             PROVE  LET v == stream[c][j].visit
                        kept == <<c, j>> \in batched' \cup saved' \/ lock_leaked'
                    IN  /\ pc'[Main] = "finalizing" => kept \/ v \in todo'
                        /\ pc'[Main] = "join" => kept \/ v \in todo' \cup {closing'}
                        /\ pc'[Main] \in {"draining", "reporting", "stopped"}
                              => <<c, j>> \in saved'
  BY <1>0 DEF ShutdownCovers
<1> DEFINE v == stream[c][j].visit
           kept == <<c, j>> \in batched \cup saved \/ lock_leaked
<1>1. j \in 1..read'[c] /\ v \in Visits
  <2>1. read'[c] \in Nat /\ cut'[c] \in Nat /\ cut'[c] <= read'[c]
    BY <1>0 DEF TypeInv, TypeOK, CutShape
  <2>2. j \in 1..read'[c]
    BY <2>1
  <2>3. j \in 1..Len(stream[c])
    <3>1. Len(stream[c]) \in Nat /\ read'[c] <= Len(stream[c])
      BY <1>0 DEF TypeInv, TypeOK
    <3> QED  BY <2>1, <2>2, <3>1
  <2> QED  BY <1>0, <2>2, <2>3, StreamTypes DEF TypeInv
<1>2. kept' \/ <<c, j>> \in store_record_tasks'[v]
  BY <1>0, <1>1 DEF Settled, Received
<1>3. (kept => kept') /\ saved \subseteq saved'
  BY <1>0 DEF Kept
<1>4. CASE Unmoved
  <2>1. j \in 1..cut[c]
    BY <1>4 DEF Unmoved
  <2> QED  BY <1>3, <1>4, <2>1 DEF Unmoved, ShutdownCovers
<1>5. CASE BeginShutdown
  <2>1. pc'[Main] = "finalizing" /\ UNCHANGED store_record_tasks
    BY <1>0, <1>5 DEF BeginShutdown, loop, TypeInv, TypeOK, Procs
  <2>2. todo' = {w \in Visits : store_record_tasks[w] # {}}
    BY <1>5 DEF BeginShutdown
  <2> QED  BY <1>1, <1>2, <2>1, <2>2
<1>6. CASE ShutdownFinalize
  <2>1. PICK w \in todo : /\ todo' = todo \ {w} /\ closing' = w
                          /\ Finalize(Main, w, FALSE, <<Main, w>>)
    BY <1>6 DEF ShutdownFinalize
  <2>2. w \in Visits
    BY <1>0 DEF TypeInv, TypeOK
  <2>3. pc'[Main] \in {"finalizing", "dead", "locked", "join"}
    BY <1>0, <2>1, FinalizePc
  <2>4. kept \/ v \in todo
    BY <1>6 DEF ShutdownFinalize, ShutdownCovers
  <2>5. pc'[Main] = "finalizing" /\ v = w => kept'
    <3>1. pc'[Main] = "finalizing" => store_record_tasks'[w] = {}
      BY <1>0, <2>1, <2>2, MainFinalized
    <3> QED  BY <1>2, <3>1
  <2> QED  BY <1>3, <2>1, <2>3, <2>4, <2>5
<1>7. CASE Resume(Main)
  <2>1. pc[Main] = "join" /\ closing \in Visits /\ UNCHANGED <<todo, closing, cut>>
    BY <1>0, <1>7 DEF Resume, TypeInv, JoinShape, Procs
  <2>2. kept \/ v \in todo \cup {closing}
    BY <2>1 DEF ShutdownCovers
  <2>3. CASE Raise(Joiners(closing))
    <3>1. pc'[Main] = "dead"
      BY <2>1, <2>3 DEF Raise, Joiners, Subject, Procs
    <3> QED  BY <3>1
  <2>4. CASE \E success, by : Complete(Main, closing, success, by)
    <3>1. pc'[Main] \in {"finalizing", "dead", "locked", "join"}
      BY <1>0, <2>4, FinalizePc
    <3>2. pc'[Main] = "finalizing" /\ v = closing => kept'
      <4>1. pc'[Main] = "finalizing" => store_record_tasks'[closing] = {}
        BY <1>0, <2>1, <2>4, MainFinalized
      <4> QED  BY <1>2, <4>1
    <3> QED  BY <1>3, <2>1, <2>2, <3>1, <3>2
  <2> QED  BY <1>7, <2>3, <2>4 DEF Resume, Subject
<1>8. CASE ShutdownFlush
  <2>1. kept /\ j \in 1..cut[c]
    BY <1>8 DEF ShutdownFlush, ShutdownCovers, closedown
  <2>2. CASE Flush
    <3>1. ~lock_leaked /\ saved \cup batched \subseteq saved'
      BY <1>0, <2>2 DEF Flush, AllSaved, SqliteShape
    <3>2. pc'[Main] = "draining" \/ pc'[Main] \in {"dead", "locked"}
      BY <1>0, <1>8 DEF ShutdownFlush, TypeInv, TypeOK, Procs
    <3> QED  BY <2>1, <3>1, <3>2
  <2>3. CASE ~Flush
    <3>1. pc'[Main] \in {"dead", "locked"}
      BY <1>0, <1>8, <2>3 DEF ShutdownFlush, TypeInv, TypeOK, Procs
    <3> QED  BY <3>1
  <2> QED  BY <2>2, <2>3
<1>9. CASE ShutdownResume \/ ShutdownEnds
  <2>1. /\ pc[Main] \in {"draining", "reporting"}
        /\ pc'[Main] \in {"reporting", "stopped"}
        /\ UNCHANGED cut
    BY <1>0, <1>9 DEF ShutdownResume, ShutdownEnds, closedown, TypeInv, TypeOK, Procs
  <2> QED  BY <1>3, <2>1 DEF ShutdownCovers
<1> QED  BY <1>4, <1>5, <1>6, <1>7, <1>8, <1>9 DEF MainMoves

\* An orderly shutdown has stored every record that any handler had read when
\* it began: the tasks still scheduled then, the visits waiting for their
\* tasks, those that nobody finalized and the batches still in memory.
THEOREM NothingLost == Spec => []NothingLostAtShutdown
<1>1. Init => ShutdownInv
  <2>1. Init => CutShape /\ ShutdownCovers
    BY DEF Init, CutShape, ShutdownCovers, Procs
  <2> QED  BY <2>1, InitIInv DEF ShutdownInv
<1>2. ShutdownInv /\ [Next]_vars => ShutdownInv'
  <2> SUFFICES ASSUME ShutdownInv, [Next]_vars PROVE ShutdownInv'
    OBVIOUS
  <2>1. IInv /\ IInv' /\ TypeInv /\ TypeInv' /\ Kinds /\ MainMoves
    BY NextIInv, NextKinds, NextMain DEF ShutdownInv, IInv
  <2> QED  BY <2>1, CutShapeStep, ShutdownCoversStep DEF ShutdownInv
<1>3. ShutdownInv => NothingLostAtShutdown
  BY DEF ShutdownInv, ShutdownCovers, NothingLostAtShutdown
<1> QED  BY <1>1, <1>2, <1>3, PTL DEF Spec

----------------------------------------------------------------------------
(***************************************************************************)
(* What becomes of every Finalize message, for every workload, provider,   *)
(* cache size and number of connections; this rests on IInv.               *)
(*                                                                         *)
(* The first part says what one step can do to a handler and to the lists  *)
(* of entries (FateKinds).  From it follow the place of every Finalize     *)
(* message (FateInv), the order of the reports (OrderInv), the refinement  *)
(* of FinalizePromise, and, where writes do not fail and nobody finalizes  *)
(* another one's visit, that no handler is lost.                           *)
(***************************************************************************)

(* The parts of the inductive invariants. *)

IsFinalize(c, i) == i \in 1..Len(stream[c]) /\ stream[c][i].type = "finalize"

\* Where a handler can be; one that waits works on a Finalize message.
HandlerShape ==
  \A c \in Conns :
    /\ pc[c] \in {"reading", "join", "locked", "dead"}
    /\ pc[c] \in {"join", "locked"} => IsFinalize(c, read[c])

\* The entries of a list that Finalize message b has brought about.
Places(s, b) == {k \in 1..Len(s) : s[k].by = b}

InList(s, b) == \E k \in 1..Len(s) : s[k].by = b
Once(s, b) == \A j, k \in 1..Len(s) : s[j].by = b /\ s[k].by = b => j = k

Answered(b) == InList(finalize_tasks, b) \/ InList(completion_queue, b)

\* Each message has one entry at most, in one of the two lists.  It has none
\* before it is read and while it is being worked on, and it has one when
\* its handler is through with it.
FateInv ==
  \A c \in Conns : \A i \in Nat : LET b == <<c, i>> IN
    /\ Once(finalize_tasks, b) /\ Once(completion_queue, b)
    /\ ~(InList(finalize_tasks, b) /\ InList(completion_queue, b))
    /\ i > read[c] => ~Answered(b)
    /\ i = read[c] /\ pc[c] \in {"join", "locked"} => ~Answered(b)
    /\ IsFinalize(c, i) /\ (i < read[c] \/ (i = read[c] /\ pc[c] = "reading"))
         => Answered(b)

\* An entry says what its message says, and only handlers make entries.
EntriesMatch ==
  \A e \in Pending :
    /\ e.by[1] \in Conns /\ e.by = <<e.by[1], e.by[2]>>
    /\ IsFinalize(e.by[1], e.by[2])
    /\ e.visit = MsgOf(e.by).visit /\ e.success = MsgOf(e.by).success

\* The feeder outlives every message that was dealt with before the shutdown
\* began, and the shutdown reports after the feeder.
OrderInv ==
  /\ pc[Main] = "serving" => feeder = "running"
  /\ pc[Main] \in {"reporting", "stopped"} => feeder = "ended"
  /\ (\E e \in Reports : e.by[1] = Main) => feeder = "ended"
  /\ feeder = "ended" =>
       \A c \in Conns : \A i \in 1..(cut[c] - 1) :
         IsFinalize(c, i) => InList(completion_queue, <<c, i>>)
  /\ OwnVerdictFirst

FatesInv == HandlerShape /\ FateInv /\ EntriesMatch /\ OrderInv

\* Whoever reports a failure has sent a record of the visit before:
\* execute_command_sequence() writes the row of site_visits first
\* (browser_manager.py:353) and is the only one to finalize with
\* success=False (browser_manager.py:456 and 486), over the same socket.
FailuresFollowRecords ==
  \A w \in Workloads : \A c \in Conns : \A i \in 1..Len(w[c]) :
    w[c][i].type = "finalize" /\ ~w[c][i].success =>
      \E j \in 1..(i-1) : w[c][j].type = "record" /\ w[c][j].visit = w[c][i].visit

\* With SQLite the reports come in the order of the finalizations.
Order == completion_queue \o finalize_tasks

VisitOver(v) ==
  \/ Incomplete(v) \in saved
  \/ \E k \in 1..Len(Order) : Order[k].visit = v

\* A visit whose list has forgotten a record was finalized.
ForgottenOver ==
  \A c \in Conns : \A j \in 1..read[c] :
    Received(c, j) =>
      LET v == stream[c][j].visit
      IN  <<c, j>> \in store_record_tasks[v] \/ VisitOver(v)

FirstMarked ==
  \A k \in 1..Len(Order) :
    LET e == Order[k]
    IN  ~e.success /\ (\A m \in 1..(k-1) : Order[m].visit # e.visit)
        => Incomplete(e.visit) \in saved

MarkedInv == stream \in Workloads /\ tokens = {} /\ ForgottenOver /\ FirstMarked

\* Where every message can be dealt with, no task fails, and where nobody
\* finalizes another one's visit, no handler is lost before the shutdown.
SurvivalInv ==
  Harmonious =>
    /\ failed = {}
    /\ pc[Main] = "serving" => \A c \in Conns : pc[c] # "dead"

----------------------------------------------------------------------------
(* Lists of entries. *)

LEMMA AppendPlaces ==
  ASSUME NEW S, NEW s \in Seq(S), NEW x, NEW b
  PROVE  /\ InList(Append(s, x), b) <=> InList(s, b) \/ x.by = b
         /\ Once(s, b) /\ ~(InList(s, b) /\ x.by = b) => Once(Append(s, x), b)
<1> DEFINE t == Append(s, x)
<1>1. /\ Len(s) \in Nat /\ Len(t) = Len(s) + 1
      /\ t[Len(s) + 1] = x /\ \A k \in 1..Len(s) : t[k] = s[k]
  OBVIOUS
<1>2. \A k \in 1..Len(t) : k \in 1..Len(s) \/ k = Len(s) + 1
  BY <1>1
<1>3. 1..Len(s) \subseteq 1..Len(t) /\ Len(s) + 1 \in 1..Len(t)
  BY <1>1
<1> HIDE DEF t
<1>4. InList(t, b) <=> InList(s, b) \/ x.by = b
  BY <1>1, <1>2, <1>3 DEF InList
<1>5. Once(s, b) /\ ~(InList(s, b) /\ x.by = b) => Once(t, b)
  BY <1>1, <1>2 DEF Once, InList
<1> QED  BY <1>4, <1>5 DEF t

LEMMA WithoutAtIndex ==
  ASSUME NEW S, NEW s \in Seq(S), NEW i \in 1..Len(s)
  PROVE  /\ Len(s) \in Nat \ {0} /\ Len(WithoutAt(s, i)) = Len(s) - 1
         /\ \A k \in 1..(Len(s) - 1) :
              WithoutAt(s, i)[k] = IF k < i THEN s[k] ELSE s[k+1]
<1> DEFINE t == SubSeq(s, 1, i-1)
           u == SubSeq(s, i+1, Len(s))
<1>0. i \in Nat \ {0} /\ Len(s) \in Nat \ {0} /\ i <= Len(s)
  OBVIOUS
<1>1. t \in Seq(S) /\ Len(t) = i - 1 /\ \A k \in 1..(i-1) : t[k] = s[k]
  OBVIOUS
<1>2. /\ u \in Seq(S) /\ Len(u) = Len(s) - i
      /\ \A k \in 1..(Len(s) - i) : u[k] = s[i + k]
  OBVIOUS
<1> HIDE DEF t, u
<1>3. Len(t \o u) = Len(s) - 1
  BY <1>0, <1>1, <1>2
<1>4. \A k \in 1..(Len(s) - 1) : (t \o u)[k] = IF k < i THEN s[k] ELSE s[k+1]
  <2> TAKE k \in 1..(Len(s) - 1)
  <2>1. CASE k < i
    BY <1>0, <1>1, <1>2, <2>1
  <2>2. CASE k >= i
    <3>1. k - (i-1) \in 1..(Len(s) - i)
      BY <2>2, <1>0
    <3>2. (t \o u)[k] = u[k - (i-1)]
      BY <1>0, <1>1, <1>2, <2>2
    <3>3. u[k - (i-1)] = s[i + (k - (i-1))] /\ i + (k - (i-1)) = k + 1
      BY <1>0, <1>2, <3>1
    <3> QED  BY <1>0, <2>2, <3>2, <3>3
  <2>3. k < i \/ k >= i
    BY <1>0
  <2> QED  BY <2>1, <2>2, <2>3
<1> QED  BY <1>0, <1>3, <1>4 DEF WithoutAt, t, u

\* The entry at i leaves the list, every other one stays.
LEMMA WithoutAtPlaces ==
  ASSUME NEW S, NEW s \in Seq(S), NEW i \in 1..Len(s), NEW b, Once(s, b)
  PROVE  /\ Once(WithoutAt(s, i), b)
         /\ InList(WithoutAt(s, i), b) <=> InList(s, b) /\ s[i].by # b
<1> DEFINE t == WithoutAt(s, i)
           From(k) == IF k < i THEN k ELSE k + 1
<1>1. /\ Len(s) \in Nat \ {0} /\ Len(t) = Len(s) - 1 /\ i \in 1..Len(s)
      /\ \A k \in 1..(Len(s) - 1) : t[k] = IF k < i THEN s[k] ELSE s[k+1]
  BY WithoutAtIndex
<1> HIDE DEF t
<1>2. \A k \in 1..Len(t) : From(k) \in 1..Len(s) /\ From(k) # i /\ t[k] = s[From(k)]
  BY <1>1
<1>3. \A j, k \in 1..Len(t) : From(j) = From(k) => j = k
  BY <1>1
<1>4. \A m \in 1..Len(s) : m # i => \E k \in 1..Len(t) : From(k) = m
  <2> SUFFICES ASSUME NEW m \in 1..Len(s), m # i
               PROVE  \E k \in 1..Len(t) : From(k) = m
    OBVIOUS
  <2>1. CASE m < i
    <3>1. m \in 1..Len(t) /\ From(m) = m
      BY <1>1, <2>1
    <3> QED  BY <3>1
  <2>2. CASE m > i
    <3>1. m - 1 \in 1..Len(t) /\ From(m - 1) = m
      BY <1>1, <2>2
    <3> QED  BY <3>1
  <2> QED  BY <1>1, <2>1, <2>2
<1> HIDE DEF From
<1>5. Once(t, b)
  BY <1>2, <1>3 DEF Once
<1>6. InList(t, b) => InList(s, b) /\ s[i].by # b
  <2>1. ASSUME NEW k \in 1..Len(t), t[k].by = b
        PROVE  InList(s, b) /\ s[i].by # b
    <3>1. From(k) \in 1..Len(s) /\ From(k) # i /\ s[From(k)].by = b
      BY <1>2, <2>1
    <3>2. InList(s, b)
      BY <3>1 DEF InList
    <3>3. s[i].by # b
      BY <1>1, <3>1 DEF Once
    <3> QED  BY <3>2, <3>3
  <2> QED  BY <2>1 DEF InList
<1>7. InList(s, b) /\ s[i].by # b => InList(t, b)
  BY <1>2, <1>4 DEF InList
<1> QED  BY <1>5, <1>6, <1>7 DEF t

LEMMA InListElements ==
  ASSUME NEW s, NEW b
  PROVE  InList(s, b) <=> \E e \in Elements(s) : e.by = b
BY DEF InList, Elements

----------------------------------------------------------------------------
(* What a step does to a handler and to the lists of entries. *)

\* The entry that Finalize message <<c, i>> makes.
EntryOf(c, i, found) ==
  [visit |-> stream[c][i].visit, success |-> stream[c][i].success,
   by |-> <<c, i>>, found |-> found]

Idle(c) == read'[c] = read[c] /\ pc'[c] = pc[c]

Stopped(c) ==
  /\ read'[c] = read[c] /\ pc[c] = "join" /\ pc'[c] \in {"locked", "dead"}

Skipped(c) ==
  /\ read'[c] = read[c] + 1 /\ ~IsFinalize(c, read[c] + 1)
  /\ pc[c] = "reading" /\ pc'[c] \in {"reading", "dead"}

Began(c) ==
  /\ read'[c] = read[c] + 1 /\ IsFinalize(c, read[c] + 1)
  /\ pc[c] = "reading" /\ pc'[c] \in {"join", "locked", "dead"}

Finished(c) ==
  /\ IsFinalize(c, read'[c]) /\ pc'[c] = "reading"
  /\ \/ pc[c] = "reading" /\ read'[c] = read[c] + 1
     \/ pc[c] = "join" /\ read'[c] = read[c]

\* Events are set, and created for the messages being dealt with.
EventsCreated ==
  \A c \in Conns : \A i :
    <<c, i>> \in flush_events' =>
      \/ <<c, i>> \in flush_events
      \/ i = read'[c] /\ (Began(c) \/ Stopped(c) \/ Finished(c))

\* Handler c is through with a Finalize message, and no other one is.
Settlement(c, found) ==
  /\ Finished(c)
  /\ ~found => /\ pc[c] = "reading"
               /\ store_record_tasks[stream[c][read'[c]].visit] = {}
  /\ finalize_tasks' = Append(finalize_tasks, EntryOf(c, read'[c], found))
  /\ UNCHANGED completion_queue
  /\ \A d \in Conns \ {c} : Idle(d) \/ Stopped(d)

FateKinds ==
  /\ UNCHANGED stream
  /\ EventsCreated
  /\ \/ Feed /\ \A c \in Conns : Idle(c)
     \/ \E c \in Conns : \E found \in BOOLEAN : Settlement(c, found)
     \/ /\ UNCHANGED finalize_tasks
        /\ UNCHANGED completion_queue \/ ShutdownReport
        /\ \A c \in Conns : Idle(c) \/ Stopped(c) \/ Skipped(c) \/ Began(c)

\* The coroutines that do not move, or die because p deletes their list.
Alone(p) ==
  \A q \in Procs \ {p} : pc'[q] = pc[q] \/ (pc[q] = "join" /\ pc'[q] = "dead")

\* finalize_visit_id has returned to p.
Returned(p, v, success, by, found) ==
  /\ pc'[p] = IF p = Main THEN "finalizing" ELSE "reading"
  /\ finalize_tasks' =
       IF p = Main THEN finalize_tasks
       ELSE Append(finalize_tasks, [visit |-> v, success |-> success,
                                    by |-> by, found |-> found])

LEMMA ReturnFates ==
  ASSUME TypeInv, NEW p \in Procs, NEW v, NEW success, NEW by, NEW found, NEW Q,
         \A q \in Q : q # p /\ pc[q] = "join", Return(p, v, success, by, found, Q)
  PROVE  Alone(p) /\ Returned(p, v, success, by, found)
BY DEF Return, Moved, Alone, Returned

LEMMA CompleteFates ==
  ASSUME TypeInv, NEW p \in Procs, NEW v, NEW success, NEW by,
         Complete(p, v, success, by)
  PROVE  /\ flush_events' \subseteq flush_events \cup {by}
         /\ Alone(p)
         /\ \/ Returned(p, v, success, by, TRUE)
            \/ pc'[p] \in {"locked", "dead"} /\ UNCHANGED finalize_tasks
<1> DEFINE Q == Joiners(v) \ {p}
<1>1. \A q \in Q : q # p /\ pc[q] = "join"
  BY DEF Joiners
<1>5. \/ Return(p, v, success, by, TRUE, Q)
      \/ pc' = Moved(p, "locked", Q) /\ UNCHANGED finalize_tasks
      \/ Raise(Q \cup {p})
  BY DEF Complete, FinalizeSqlite, FinalizeArrow
<1> HIDE DEF Q
<1>2. Return(p, v, success, by, TRUE, Q) =>
        Alone(p) /\ Returned(p, v, success, by, TRUE)
  BY <1>1, ReturnFates
<1>3. pc' = Moved(p, "locked", Q) => Alone(p) /\ pc'[p] = "locked"
  BY <1>1 DEF Moved, Alone
<1>4. Raise(Q \cup {p}) =>
        Alone(p) /\ pc'[p] = "dead" /\ UNCHANGED finalize_tasks
  BY <1>1 DEF Raise, Alone
<1>6. flush_events' \subseteq flush_events \cup {by}
  BY DEF Complete, FinalizeSqlite, FinalizeArrow
<1> QED  BY <1>2, <1>3, <1>4, <1>5, <1>6

LEMMA FinalizeFates ==
  ASSUME TypeInv, NEW p \in Procs, NEW v, NEW success, NEW by,
         Finalize(p, v, success, by)
  PROVE  /\ flush_events' \subseteq flush_events \cup {by}
         /\ Alone(p)
         /\ \/ \E found \in BOOLEAN : /\ Returned(p, v, success, by, found)
                                      /\ ~found => store_record_tasks[v] = {}
            \/ pc'[p] \in {"join", "locked", "dead"} /\ UNCHANGED finalize_tasks
<1>1. CASE Complete(p, v, success, by)
  BY <1>1, CompleteFates
<1>2. CASE /\ store_record_tasks[v] = {}
           /\ Return(p, v, success, by, FALSE, {}) /\ UNCHANGED store
  <2>1. Alone(p) /\ Returned(p, v, success, by, FALSE)
    BY <1>2 DEF Return, Moved, Alone, Returned
  <2> QED  BY <1>2, <2>1 DEF store
<1>3. CASE Raise({p}) /\ UNCHANGED store
  BY <1>3 DEF Raise, Alone, store
<1>4. CASE pc' = [pc EXCEPT ![p] = "join"] /\ UNCHANGED <<store, finalize_tasks>>
  BY <1>4 DEF Alone, store, TypeInv, TypeOK
<1> QED  BY <1>1, <1>2, <1>3, <1>4 DEF Finalize

\* A handler's step, once its finalization is known to have settled or not.
LEMMA ReadFates ==
  ASSUME TypeInv, NEW c \in Conns, Read(c)
  PROVE  FateKinds
<1>0. /\ c \in Procs /\ c # Main /\ Conns \subseteq Procs
      /\ pc \in [Procs -> States] /\ read \in [Conns -> Nat]
  BY MainAssumption DEF Procs, TypeInv, TypeOK
<1>1. /\ pc[c] = "reading" /\ read' = [read EXCEPT ![c] = @ + 1]
      /\ UNCHANGED <<stream, completion_queue>> /\ NextMsg(c) = stream[c][read[c] + 1]
      /\ read'[c] = read[c] + 1 /\ \A d \in Conns \ {c} : read'[d] = read[d]
      /\ read[c] + 1 \in 1..Len(stream[c])
  BY <1>0 DEF Read, ReadRecord, ReadSkip, ReadFatal, ReadFinalize, Consume,
         HasMessage, NextMsg, TypeInv, TypeOK
<1>2. CASE ReadRecord(c) \/ ReadSkip(c) \/ ReadFatal(c)
  <2>1. /\ UNCHANGED <<finalize_tasks, flush_events>> /\ NextMsg(c).type # "finalize"
        /\ pc' = pc \/ pc' = [pc EXCEPT ![c] = "dead"]
    BY <1>2 DEF ReadRecord, ReadSkip, ReadFatal, store
  <2>2. Skipped(c) /\ \A d \in Conns \ {c} : Idle(d)
    BY <1>0, <1>1, <2>1 DEF Skipped, Idle, IsFinalize
  <2> QED  BY <1>1, <2>1, <2>2 DEF FateKinds, EventsCreated
<1>3. CASE ReadFinalize(c)
  <2> DEFINE m == NextMsg(c)
             by == <<c, read[c] + 1>>
  <2>1. IsFinalize(c, read[c] + 1) /\ Finalize(c, m.visit, m.success, by)
    BY <1>1, <1>3 DEF ReadFinalize, IsFinalize
  <2>2. /\ flush_events' \subseteq flush_events \cup {by} /\ Alone(c)
        /\ \/ \E found \in BOOLEAN :
                /\ Returned(c, m.visit, m.success, by, found)
                /\ ~found => store_record_tasks[m.visit] = {}
           \/ pc'[c] \in {"join", "locked", "dead"} /\ UNCHANGED finalize_tasks
    BY <1>0, <2>1, FinalizeFates
  <2>3. \A d \in Conns \ {c} : Idle(d) \/ Stopped(d)
    BY <1>0, <1>1, <2>2 DEF Alone, Idle, Stopped
  <2>4. CASE \E found \in BOOLEAN :
               /\ Returned(c, m.visit, m.success, by, found)
               /\ ~found => store_record_tasks[m.visit] = {}
    <3>1. Finished(c)
      BY <1>0, <1>1, <2>1, <2>4 DEF Finished, Returned
    <3>2. PICK found \in BOOLEAN :
                 /\ Returned(c, m.visit, m.success, by, found)
                 /\ ~found => store_record_tasks[m.visit] = {}
      BY <2>4
    <3>3. finalize_tasks' = Append(finalize_tasks, EntryOf(c, read'[c], found))
      BY <1>0, <1>1, <3>2 DEF Returned, EntryOf
    <3>4. Settlement(c, found)
      BY <1>1, <2>3, <3>1, <3>2, <3>3 DEF Settlement
    <3> QED  BY <1>1, <2>2, <3>1, <3>4 DEF FateKinds, EventsCreated
  <2>5. CASE pc'[c] \in {"join", "locked", "dead"} /\ UNCHANGED finalize_tasks
    <3>1. Began(c)
      BY <1>1, <2>1, <2>5 DEF Began
    <3> QED  BY <1>1, <2>2, <2>3, <2>5, <3>1 DEF FateKinds, EventsCreated
  <2> QED  BY <2>2, <2>4, <2>5
<1> QED  BY <1>2, <1>3 DEF Read

\* A coroutine that finalizes on behalf of Main leaves the lists alone.
LEMMA MainFates ==
  ASSUME TypeInv, UNCHANGED <<stream, read, completion_queue>>,
         NEW v, NEW success, NEW by, by[1] = Main,
         Finalize(Main, v, success, by) \/ Complete(Main, v, success, by)
  PROVE  FateKinds
<1>0. Main \in Procs /\ Conns \subseteq Procs \ {Main}
  BY MainAssumption DEF Procs
<1>1. /\ flush_events' \subseteq flush_events \cup {by} /\ Alone(Main)
      /\ UNCHANGED finalize_tasks
  BY <1>0, CompleteFates, FinalizeFates DEF Returned
<1>2. \A c \in Conns : Idle(c) \/ Stopped(c)
  BY <1>0, <1>1 DEF Alone, Idle, Stopped
<1>3. \A c \in Conns : \A i : <<c, i>> # by
  BY <1>0
<1> QED  BY <1>1, <1>2, <1>3 DEF FateKinds, EventsCreated

LEMMA ResumeFates ==
  ASSUME TypeInv, HandlerShape, NEW p \in Procs, Resume(p)
  PROVE  FateKinds
<1>0. Main \in Procs /\ Conns \subseteq Procs \ {Main}
  BY MainAssumption DEF Procs
<1>1. pc[p] = "join" /\ UNCHANGED <<stream, read, completion_queue>>
  BY DEF Resume, wire
<1>2. CASE \E v : Raise(Joiners(v)) /\ UNCHANGED store
  <2>1. \A c \in Conns : Idle(c) \/ Stopped(c)
    BY <1>0, <1>1, <1>2 DEF Raise, Joiners, Idle, Stopped
  <2> QED  BY <1>1, <1>2, <2>1 DEF Raise, store, FateKinds, EventsCreated
<1>3. CASE p = Main /\ \E v, success : Complete(p, v, success, <<Main, v>>)
  <2>1. PICK v, success : Complete(Main, v, success, <<Main, v>>)
    BY <1>3
  <2> QED  BY <1>1, <2>1, MainFates
<1>4. CASE p # Main /\ Complete(p, Current(p).visit, Current(p).success, <<p, read[p]>>)
  <2> DEFINE m == Current(p)
             by == <<p, read[p]>>
  <2>1. p \in Conns /\ IsFinalize(p, read[p])
    BY <1>1, <1>4 DEF Procs, HandlerShape
  <2>2. /\ flush_events' \subseteq flush_events \cup {by} /\ Alone(p)
        /\ \/ Returned(p, m.visit, m.success, by, TRUE)
           \/ pc'[p] \in {"locked", "dead"} /\ UNCHANGED finalize_tasks
    BY <1>4, CompleteFates
  <2>3. \A d \in Conns \ {p} : Idle(d) \/ Stopped(d)
    BY <1>0, <1>1, <2>2 DEF Alone, Idle, Stopped
  <2>4. CASE Returned(p, m.visit, m.success, by, TRUE)
    <3>1. Finished(p)
      BY <1>1, <1>4, <2>1, <2>4 DEF Finished, Returned, IsFinalize
    <3>2. Settlement(p, TRUE)
      BY <1>1, <1>4, <2>3, <2>4, <3>1 DEF Settlement, Returned, EntryOf, Current
    <3> QED  BY <1>1, <2>1, <2>2, <3>1, <3>2 DEF FateKinds, EventsCreated
  <2>5. CASE pc'[p] \in {"locked", "dead"} /\ UNCHANGED finalize_tasks
    <3>1. Stopped(p)
      BY <1>1, <2>5 DEF Stopped
    <3> QED  BY <1>1, <2>2, <2>3, <2>5, <3>1 DEF FateKinds, EventsCreated
  <2> QED  BY <2>2, <2>4, <2>5
<1>5. ASSUME p = Main
      PROVE  FateKinds
  BY <1>2, <1>3, <1>5 DEF Resume
<1>6. ASSUME p # Main
      PROVE  FateKinds
  <2>1. p \in Conns /\ IsFinalize(p, read[p])
    BY <1>1, <1>6 DEF Procs, HandlerShape
  <2>2. Current(p).success \in BOOLEAN
    BY <2>1, StreamTypes DEF TypeInv, IsFinalize, Current
  <2>3. (p # Main /\ Current(p).success) = Current(p).success
    BY <1>6, <2>2
  <2> QED  BY <1>2, <1>4, <1>6, <2>3 DEF Resume, Subject
<1> QED  BY <1>5, <1>6

\* The steps of the loop, the feeder, the timer and the main coroutine.
LEMMA OtherFates ==
  ASSUME TypeInv,
         \/ RunTask \/ Feed \/ FeederEnds \/ Timeout \/ SendShutdown \/ Shutdown
         \/ UNCHANGED vars
  PROVE  FateKinds
<1>0. Main \in Procs /\ Conns \subseteq Procs \ {Main} /\ pc \in [Procs -> States]
  BY MainAssumption DEF Procs, TypeInv, TypeOK
<1>1. CASE Feed
  BY <1>1 DEF Feed, FateKinds, Idle, EventsCreated, wire, store
<1>2. CASE ShutdownFinalize
  <2>1. PICK v \in todo : Finalize(Main, v, FALSE, <<Main, v>>)
    BY <1>2 DEF ShutdownFinalize
  <2>2. <<Main, v>>[1] = Main /\ UNCHANGED <<stream, read, completion_queue>>
    BY <1>2 DEF ShutdownFinalize, wire
  <2> QED  BY <2>1, <2>2, MainFates
<1>3. CASE RunTask \/ FeederEnds \/ SendShutdown \/ UNCHANGED vars
  BY <1>3 DEF RunTask, FeederEnds, SendShutdown, vars, FateKinds, Idle,
              EventsCreated, wire, store, results
<1>4. CASE Timeout \/ ShutdownFlush \/ ShutdownEnds
  <2>1. flush_events' \subseteq flush_events
    BY <1>4 DEF Timeout, ShutdownFlush, ShutdownEnds, Flush, FlushFails, store
  <2>2. /\ UNCHANGED <<stream, read, finalize_tasks, completion_queue>>
        /\ \A c \in Conns : pc'[c] = pc[c]
    BY <1>0, <1>4 DEF Timeout, ShutdownFlush, ShutdownEnds, wire, results
  <2> QED  BY <2>1, <2>2 DEF FateKinds, EventsCreated, Idle
<1>5. CASE BeginShutdown \/ ShutdownResume \/ ShutdownReport
  <2>1. /\ UNCHANGED <<stream, read, finalize_tasks, flush_events>>
        /\ UNCHANGED completion_queue \/ ShutdownReport
        /\ \A c \in Conns : pc'[c] = pc[c]
    BY <1>0, <1>5 DEF BeginShutdown, ShutdownResume, ShutdownReport, wire, store,
                      results
  <2> QED  BY <2>1 DEF FateKinds, EventsCreated, Idle
<1> QED  BY <1>1, <1>2, <1>3, <1>4, <1>5 DEF Shutdown

LEMMA NextFates ==
  ASSUME TypeInv, HandlerShape, [Next]_vars
  PROVE  FateKinds
BY ReadFates, ResumeFates, OtherFates DEF Next

----------------------------------------------------------------------------
(* The places of the Finalize messages. *)

LEMMA HandlerMoves ==
  ASSUME FateKinds, NEW c \in Conns
  PROVE  Idle(c) \/ Stopped(c) \/ Skipped(c) \/ Began(c) \/ Finished(c)
BY DEF FateKinds, Settlement

LEMMA HandlerShapeStep ==
  ASSUME HandlerShape, FateKinds
  PROVE  HandlerShape'
<1> SUFFICES ASSUME NEW c \in Conns
             PROVE  /\ pc'[c] \in {"reading", "join", "locked", "dead"}
                    /\ pc'[c] \in {"join", "locked"} => IsFinalize(c, read'[c])
  BY DEF HandlerShape, IsFinalize, FateKinds
<1> QED
  BY HandlerMoves DEF HandlerShape, Idle, Stopped, Skipped, Began, Finished

LEMMA ListTypes ==
  ASSUME TypeInv
  PROVE  /\ finalize_tasks \in Seq(Entries) /\ completion_queue \in Seq(Entries)
         /\ read \in [Conns -> Nat]
BY DEF TypeInv, TypeOK

\* The entry that the feeder takes is the same after the step.
LEMMA FeedMoves ==
  ASSUME TypeInv, Feed
  PROVE  \E k \in 1..Len(finalize_tasks) :
           /\ finalize_tasks[k].by \notin flush_events
           /\ \A j \in 1..(k-1) : finalize_tasks[j].by \in flush_events
           /\ completion_queue' = Append(completion_queue, finalize_tasks[k])
           /\ finalize_tasks' = WithoutAt(finalize_tasks, k)
BY DEF Feed, WithoutAt

\* A report of the shutdown answers no message of a handler.
LEMMA ReportPlaces ==
  ASSUME TypeInv, UNCHANGED completion_queue \/ ShutdownReport,
         NEW c \in Conns, NEW i
  PROVE  /\ InList(completion_queue, <<c, i>>)' <=> InList(completion_queue, <<c, i>>)
         /\ Once(completion_queue, <<c, i>>) => Once(completion_queue, <<c, i>>)'
<1>1. CASE UNCHANGED completion_queue
  BY <1>1 DEF InList, Once
<1>2. CASE ShutdownReport
  <2>1. PICK v \in tokens :
          completion_queue' =
            Append(completion_queue, [visit |-> v, success |-> FALSE,
                                      by |-> <<Main, v>>, found |-> TRUE])
    BY <1>2 DEF ShutdownReport
  <2>2. <<Main, v>> # <<c, i>>
    BY MainAssumption
  <2> QED  BY <2>1, <2>2, ListTypes, AppendPlaces
<1> QED  BY <1>1, <1>2

LEMMA FateInvStep ==
  ASSUME TypeInv, FateInv, FateKinds
  PROVE  FateInv'
<1>0. /\ finalize_tasks \in Seq(Entries) /\ completion_queue \in Seq(Entries)
      /\ read \in [Conns -> Nat] /\ UNCHANGED stream
  BY ListTypes DEF FateKinds
<1> SUFFICES
      ASSUME NEW c \in Conns, NEW i \in Nat, NEW b, b = <<c, i>>
      PROVE  /\ Once(finalize_tasks', b) /\ Once(completion_queue', b)
             /\ ~(InList(finalize_tasks', b) /\ InList(completion_queue', b))
             /\ i > read'[c] => ~Answered(b)'
             /\ i = read'[c] /\ pc'[c] \in {"join", "locked"} => ~Answered(b)'
             /\ IsFinalize(c, i) /\ (i < read'[c] \/ (i = read'[c] /\ pc'[c] = "reading"))
                  => Answered(b)'
  BY <1>0 DEF FateInv, IsFinalize, Answered
<1>1. /\ Once(finalize_tasks, b) /\ Once(completion_queue, b)
      /\ ~(InList(finalize_tasks, b) /\ InList(completion_queue, b))
      /\ i > read[c] => ~Answered(b)
      /\ i = read[c] /\ pc[c] \in {"join", "locked"} => ~Answered(b)
      /\ IsFinalize(c, i) /\ (i < read[c] \/ (i = read[c] /\ pc[c] = "reading"))
           => Answered(b)
  BY DEF FateInv
<1>2. Answered(b)' <=> InList(finalize_tasks', b) \/ InList(completion_queue', b)
  BY DEF Answered, InList
<1>3. CASE Feed /\ \A d \in Conns : Idle(d)
  <2>1. PICK k \in 1..Len(finalize_tasks) :
          /\ completion_queue' = Append(completion_queue, finalize_tasks[k])
          /\ finalize_tasks' = WithoutAt(finalize_tasks, k)
    BY <1>3, FeedMoves
  <2>2. /\ Once(finalize_tasks', b)
        /\ InList(finalize_tasks', b) <=>
             InList(finalize_tasks, b) /\ finalize_tasks[k].by # b
    BY <1>0, <1>1, <2>1, WithoutAtPlaces
  <2>3. finalize_tasks[k].by = b => InList(finalize_tasks, b)
    BY DEF InList
  <2>4. /\ Once(completion_queue', b)
        /\ InList(completion_queue', b) <=>
             InList(completion_queue, b) \/ finalize_tasks[k].by = b
    BY <1>0, <1>1, <2>1, <2>3, AppendPlaces
  <2>5. read'[c] = read[c] /\ pc'[c] = pc[c]
    BY <1>3 DEF Idle
  <2> QED  BY <1>1, <1>2, <2>2, <2>3, <2>4, <2>5 DEF Answered
<1>4. ASSUME NEW d \in Conns, NEW found, Settlement(d, found)
      PROVE  /\ Once(finalize_tasks', b) /\ Once(completion_queue', b)
             /\ ~(InList(finalize_tasks', b) /\ InList(completion_queue', b))
             /\ i > read'[c] => ~Answered(b)'
             /\ i = read'[c] /\ pc'[c] \in {"join", "locked"} => ~Answered(b)'
             /\ IsFinalize(c, i) /\ (i < read'[c] \/ (i = read'[c] /\ pc'[c] = "reading"))
                  => Answered(b)'
  <2> DEFINE e == EntryOf(d, read'[d], found)
  <2>1. finalize_tasks' = Append(finalize_tasks, e) /\ UNCHANGED completion_queue
    BY <1>4 DEF Settlement
  <2>2. e.by = b <=> c = d /\ i = read'[d]
    BY DEF EntryOf
  <2> HIDE DEF e
  <2>3. /\ InList(finalize_tasks', b) <=> InList(finalize_tasks, b) \/ e.by = b
        /\ ~(InList(finalize_tasks, b) /\ e.by = b) => Once(finalize_tasks', b)
    BY <1>0, <1>1, <2>1, AppendPlaces
  <2>4. CASE c = d
    <3>1. Finished(c)
      BY <1>4, <2>4 DEF Settlement
    <3>2. i = read'[c] => ~Answered(b)
      BY <1>0, <1>1, <3>1 DEF Finished
    <3>3. i > read'[c] => ~Answered(b)
      BY <1>0, <1>1, <3>1 DEF Finished
    <3>4. IsFinalize(c, i) /\ i < read'[c] => Answered(b)
      BY <1>0, <1>1, <3>1 DEF Finished
    <3> QED
      BY <1>0, <1>1, <1>2, <2>1, <2>2, <2>3, <2>4, <3>1, <3>2, <3>3, <3>4
         DEF Answered, Finished
  <2>5. CASE c # d
    <3>1. Idle(c) \/ Stopped(c)
      BY <1>4, <2>5 DEF Settlement
    <3> QED  BY <1>0, <1>1, <1>2, <2>1, <2>2, <2>3, <2>5, <3>1
                DEF Answered, Idle, Stopped
  <2> QED  BY <2>4, <2>5
<1>5. CASE /\ UNCHANGED finalize_tasks
           /\ UNCHANGED completion_queue \/ ShutdownReport
           /\ Idle(c) \/ Stopped(c) \/ Skipped(c) \/ Began(c)
  <2>1. /\ InList(completion_queue', b) <=> InList(completion_queue, b)
        /\ Once(completion_queue', b)
    BY <1>1, <1>5, ReportPlaces DEF InList, Once
  <2>2. Answered(b)' <=> Answered(b)
    BY <1>2, <1>5, <2>1 DEF Answered
  <2>3. CASE Idle(c) \/ Stopped(c)
    BY <1>1, <1>5, <2>1, <2>2, <2>3 DEF Idle, Stopped
  <2>4. CASE Skipped(c)
    <3>1. IsFinalize(c, i) => i # read'[c]
      BY <2>4 DEF Skipped
    <3> QED  BY <1>0, <1>1, <1>5, <2>1, <2>2, <2>4, <3>1 DEF Skipped
  <2>5. CASE Began(c)
    BY <1>0, <1>1, <1>5, <2>1, <2>2, <2>5 DEF Began
  <2> QED  BY <1>5, <2>3, <2>4, <2>5
<1> QED  BY <1>3, <1>4, <1>5 DEF FateKinds

LEMMA EntriesMatchStep ==
  ASSUME TypeInv, EntriesMatch, FateKinds
  PROVE  EntriesMatch'
<1>0. finalize_tasks \in Seq(Entries) /\ UNCHANGED stream
  BY ListTypes DEF FateKinds
<1>1. ASSUME NEW e \in Pending',
             \/ e \in Pending
             \/ \E c \in Conns : \E found : Finished(c) /\ e = EntryOf(c, read'[c], found)
      PROVE  /\ e.by[1] \in Conns /\ e.by = <<e.by[1], e.by[2]>>
             /\ IsFinalize(e.by[1], e.by[2])
             /\ e.visit = MsgOf(e.by).visit /\ e.success = MsgOf(e.by).success
  BY <1>1, SMTT(20) DEF EntriesMatch, Finished, EntryOf, MsgOf
<1>2. ASSUME NEW e \in Pending'
      PROVE  \/ e \in Pending
             \/ \E c \in Conns : \E found : Finished(c) /\ e = EntryOf(c, read'[c], found)
  <2>1. CASE Feed
    BY <2>1, FeedEntries
  <2>2. CASE UNCHANGED finalize_tasks
    BY <2>2 DEF Pending
  <2>3. ASSUME NEW c \in Conns, NEW found, Settlement(c, found)
        PROVE  \/ e \in Pending
               \/ \E d \in Conns : \E f : Finished(d) /\ e = EntryOf(d, read'[d], f)
    <3>1. Pending' = Pending \cup {EntryOf(c, read'[c], found)}
      BY <1>0, <2>3, AppendElements, PendingElements DEF Settlement, Elements, Pending
    <3> QED  BY <2>3, <3>1 DEF Settlement
  <2> QED  BY <2>1, <2>2, <2>3 DEF FateKinds
<1> QED  BY <1>0, <1>1, <1>2 DEF EntriesMatch, IsFinalize, MsgOf

----------------------------------------------------------------------------
(* The order of the reports. *)

\* The feeder ends by its own step only, and only when it has nothing left.
LEMMA FeederMoves ==
  ASSUME TypeInv, [Next]_vars
  PROVE  UNCHANGED feeder \/ FeederEnds
BY DEF Next, vars, Read, ReadRecord, ReadSkip, ReadFatal, ReadFinalize, Consume,
       Resume, RunTask, Feed, Timeout, SendShutdown, Shutdown, BeginShutdown,
       ShutdownFinalize, ShutdownFlush, ShutdownResume, ShutdownReport,
       ShutdownEnds, helpers

\* The phases of the main coroutine.
LEMMA PhaseMoves ==
  ASSUME TypeInv, MainMoves
  PROVE  /\ pc'[Main] = "serving" => pc[Main] = "serving"
         /\ pc'[Main] \in {"reporting", "stopped"} =>
              pc[Main] \in {"reporting", "stopped"} \/ feeder = "ended"
         /\ \/ UNCHANGED cut
            \/ /\ pc[Main] = "serving" /\ cut' = read
               /\ UNCHANGED <<feeder, results, stream>>
<1>0. Main \in Procs /\ pc \in [Procs -> States]
  BY DEF Procs, TypeInv, TypeOK
<1>1. CASE Unmoved
  BY <1>1 DEF Unmoved
<1>2. CASE BeginShutdown
  BY <1>0, <1>2 DEF BeginShutdown, wire
<1>3. CASE ShutdownFinalize \/ Resume(Main)
  <2>1. pc'[Main] \in {"finalizing", "dead", "locked", "join"}
    <3>1. CASE \E v, success, by : \/ Finalize(Main, v, success, by)
                                   \/ Complete(Main, v, success, by)
      BY <3>1, FinalizePc
    <3>2. CASE pc[Main] = "join" /\ Raise(Joiners(Subject(Main)))
      BY <1>0, <3>2 DEF Raise, Joiners
    <3> QED  BY <1>3, <3>1, <3>2 DEF ShutdownFinalize, Resume
  <2>2. UNCHANGED cut
    BY <1>3 DEF ShutdownFinalize, Resume
  <2> QED  BY <2>1, <2>2
<1>4. CASE ShutdownFlush
  BY <1>0, <1>4 DEF ShutdownFlush, closedown
<1>5. CASE ShutdownResume \/ ShutdownEnds
  BY <1>0, <1>5 DEF ShutdownResume, ShutdownEnds, closedown
<1> QED  BY <1>1, <1>2, <1>3, <1>4, <1>5 DEF MainMoves

\* Reports are only added, by the feeder for the handlers' messages and by
\* the shutdown for its own.
ReportsGrow ==
  \/ UNCHANGED completion_queue
  \/ \E e : /\ completion_queue' = Append(completion_queue, e)
            /\ \/ e.by[1] # Main
               \/ pc[Main] = "reporting" /\ e.by[1] = Main

LEMMA NextReports ==
  ASSUME TypeInv, EntriesMatch, FateKinds
  PROVE  ReportsGrow
<1>1. CASE Feed
  <2>1. PICK k \in 1..Len(finalize_tasks) :
          completion_queue' = Append(completion_queue, finalize_tasks[k])
    BY <1>1, FeedMoves
  <2>2. finalize_tasks[k].by[1] # Main
    BY MainAssumption DEF EntriesMatch, Pending
  <2> QED  BY <2>1, <2>2 DEF ReportsGrow
<1>2. CASE ShutdownReport
  BY <1>2 DEF ShutdownReport, ReportsGrow
<1>3. CASE UNCHANGED completion_queue
  BY <1>3 DEF ReportsGrow
<1> QED  BY <1>1, <1>2, <1>3 DEF FateKinds, Settlement

LEMMA OwnVerdictFirstStep ==
  ASSUME TypeInv, CutShape, OrderInv, ReportsGrow, UNCHANGED <<stream, cut>>
  PROVE  OwnVerdictFirst'
<1>0. completion_queue \in Seq(Entries) /\ OwnVerdictFirst
  BY ListTypes DEF OrderInv
<1>1. CASE UNCHANGED completion_queue
  BY <1>0, <1>1 DEF OwnVerdictFirst
<1>2. ASSUME NEW e, completion_queue' = Append(completion_queue, e),
             \/ e.by[1] # Main
             \/ pc[Main] = "reporting" /\ e.by[1] = Main
      PROVE  OwnVerdictFirst'
  <2>1. /\ Len(completion_queue) \in Nat
        /\ Len(completion_queue') = Len(completion_queue) + 1
        /\ completion_queue'[Len(completion_queue) + 1] = e
        /\ \A k \in 1..Len(completion_queue) :
             completion_queue'[k] = completion_queue[k]
    BY <1>0, <1>2
  <2> SUFFICES
        ASSUME NEW k \in 1..Len(completion_queue'),
               completion_queue'[k].by[1] = Main,
               NEW c \in Conns, NEW i \in 1..(cut[c] - 1),
               stream[c][i].type = "finalize",
               stream[c][i].visit = completion_queue'[k].visit
        PROVE  \E m \in 1..(k-1) : completion_queue'[m].by = <<c, i>>
    BY DEF OwnVerdictFirst
  <2>2. CASE k \in 1..Len(completion_queue)
    <3>1. PICK m \in 1..(k-1) : completion_queue[m].by = <<c, i>>
      <4>1. completion_queue[k] = completion_queue'[k]
        BY <2>1, <2>2
      <4> QED  BY <1>0, <2>2, <4>1 DEF OwnVerdictFirst
    <3>2. m \in 1..Len(completion_queue)
      BY <2>1, <2>2
    <3> QED  BY <2>1, <3>1, <3>2
  <2>3. CASE k = Len(completion_queue) + 1
    <3>1. feeder = "ended"
      BY <1>2, <2>1, <2>3 DEF OrderInv
    <3>2. i \in 1..Len(stream[c])
      <4>1. /\ cut[c] \in Nat /\ read[c] \in Nat /\ Len(stream[c]) \in Nat
            /\ cut[c] <= read[c] /\ read[c] <= Len(stream[c])
        BY DEF TypeInv, TypeOK, CutShape
      <4> QED  BY <4>1
    <3>3. PICK m \in 1..Len(completion_queue) : completion_queue[m].by = <<c, i>>
      BY <3>1, <3>2 DEF OrderInv, IsFinalize, InList
    <3> QED  BY <2>1, <2>3, <3>3
  <2> QED  BY <2>1, <2>2, <2>3
<1> QED  BY <1>1, <1>2 DEF ReportsGrow

LEMMA OrderInvStep ==
  ASSUME TypeInv, CutShape, EntriesMatch, FateInv, OrderInv, FateKinds,
         MainMoves, UNCHANGED feeder \/ FeederEnds
  PROVE  OrderInv'
<1>0. ReportsGrow /\ UNCHANGED stream
  BY NextReports DEF FateKinds
<1>1. CASE /\ pc[Main] = "serving" /\ cut' = read
           /\ UNCHANGED <<feeder, results, stream>>
  <2>1. feeder' = "running" /\ ~\E e \in Reports : e.by[1] = Main
    BY <1>1 DEF OrderInv
  <2>2. UNCHANGED completion_queue
    BY <1>1 DEF results
  <2>3. OwnVerdictFirst'
    BY <2>1, <2>2 DEF OwnVerdictFirst, Reports
  <2>4. ~\E e \in Reports' : e.by[1] = Main
    BY <2>1, <2>2 DEF Reports
  <2>5. pc'[Main] \notin {"reporting", "stopped"}
    BY <1>1, <2>1, PhaseMoves DEF OrderInv
  <2> QED  BY <2>1, <2>3, <2>4, <2>5 DEF OrderInv
<1>2. CASE UNCHANGED cut
  <2>1. OwnVerdictFirst'
    BY <1>0, <1>2, OwnVerdictFirstStep
  <2>2. /\ pc'[Main] = "serving" => feeder' = "running"
        /\ feeder = "ended" => feeder' = "ended"
    BY PhaseMoves DEF OrderInv, FeederEnds, wire
  <2>3. pc'[Main] \in {"reporting", "stopped"} => feeder' = "ended"
    BY <2>2, PhaseMoves DEF OrderInv
  <2>4. (\E e \in Reports' : e.by[1] = Main) => feeder' = "ended"
    <3>1. ASSUME NEW e, completion_queue' = Append(completion_queue, e)
          PROVE  Reports' = Reports \cup {e}
      <4>1. Elements(Append(completion_queue, e)) = Elements(completion_queue) \cup {e}
        BY AppendElements, ListTypes
      <4> QED  BY <3>1, <4>1 DEF Reports, Elements
    <3>2. (\E e \in Reports' : e.by[1] = Main) =>
            (\E e \in Reports : e.by[1] = Main) \/ pc[Main] = "reporting"
      BY <1>0, <3>1 DEF ReportsGrow, Reports
    <3> QED  BY <2>2, <3>2 DEF OrderInv
  <2>5. ASSUME feeder' = "ended", NEW c \in Conns, NEW i \in 1..(cut[c] - 1),
               IsFinalize(c, i)
        PROVE  InList(completion_queue', <<c, i>>)
    <3>1. ASSUME InList(completion_queue, <<c, i>>)
          PROVE  InList(completion_queue', <<c, i>>)
      <4>1. CASE UNCHANGED completion_queue
        BY <3>1, <4>1
      <4>2. ASSUME NEW e, completion_queue' = Append(completion_queue, e)
            PROVE  InList(completion_queue', <<c, i>>)
        <5>1. InList(Append(completion_queue, e), <<c, i>>)
          BY <3>1, AppendPlaces, ListTypes
        <5> QED  BY <4>2, <5>1
      <4> QED  BY <1>0, <4>1, <4>2 DEF ReportsGrow
    <3>2. CASE feeder = "ended"
      BY <2>5, <3>1, <3>2 DEF OrderInv
    <3>3. CASE FeederEnds
      <4>1. i \in Nat /\ i < read[c]
        BY DEF TypeInv, TypeOK, CutShape
      <4>2. Answered(<<c, i>>)
        BY <2>5, <4>1 DEF FateInv
      <4>3. ~InList(finalize_tasks, <<c, i>>)
        BY <3>3 DEF FeederEnds, InList
      <4> QED  BY <3>1, <4>2, <4>3 DEF Answered
    <3> QED  BY <2>5, <3>2, <3>3
  <2>6. feeder' = "ended" =>
          \A c \in Conns : \A i \in 1..(cut'[c] - 1) :
            IsFinalize(c, i)' => InList(completion_queue, <<c, i>>)'
    BY <1>0, <1>2, <2>5 DEF IsFinalize, InList
  <2> QED  BY <2>1, <2>2, <2>3, <2>4, <2>6 DEF OrderInv
<1> QED  BY <1>1, <1>2, PhaseMoves

\* The invariant of this part; the store's is needed for the types and for
\* what the entries vouch for.
FullInv == IInv /\ CutShape /\ FatesInv

LEMMA InitFullInv == Init => FullInv
<1> SUFFICES ASSUME Init PROVE FullInv
  OBVIOUS
<1>1. IInv
  BY InitIInv
<1>2. CutShape /\ HandlerShape /\ EntriesMatch
  BY MainAssumption DEF Init, CutShape, HandlerShape, EntriesMatch, Pending, Procs
<1>3. FateInv
  <2>1. \A b : /\ ~InList(finalize_tasks, b) /\ ~InList(completion_queue, b)
               /\ Once(finalize_tasks, b) /\ Once(completion_queue, b)
    BY DEF Init, InList, Once
  <2>2. \A c \in Conns : \A i : ~(IsFinalize(c, i) /\ i < read[c] + 1)
    BY DEF Init, IsFinalize
  <2> QED  BY <2>1, <2>2 DEF FateInv, Answered, Init
<1>4. OrderInv
  BY DEF Init, OrderInv, OwnVerdictFirst, Reports, Procs
<1> QED  BY <1>1, <1>2, <1>3, <1>4 DEF FullInv, FatesInv

LEMMA NextFullInv == FullInv /\ [Next]_vars => FullInv' /\ FateKinds
<1> SUFFICES ASSUME FullInv, [Next]_vars PROVE FullInv' /\ FateKinds
  OBVIOUS
<1>1. IInv /\ IInv' /\ TypeInv /\ TypeInv' /\ Kinds /\ MainMoves /\ CutShape
  BY NextIInv, NextKinds, NextMain DEF FullInv, IInv
<1>2. FateKinds
  BY <1>1, NextFates DEF FullInv, FatesInv
<1> QED
  BY <1>1, <1>2, CutShapeStep, HandlerShapeStep, FateInvStep, EntriesMatchStep,
     OrderInvStep, FeederMoves DEF FullInv, FatesInv

----------------------------------------------------------------------------
(* The places, counted. *)

LEMMA CountPlaces ==
  ASSUME NEW s, NEW b, Once(s, b)
  PROVE  Cardinality(Places(s, b)) = IF InList(s, b) THEN 1 ELSE 0
<1>1. CASE InList(s, b)
  <2>1. PICK k \in 1..Len(s) : s[k].by = b
    BY <1>1 DEF InList
  <2>2. Places(s, b) = {k}
    BY <2>1 DEF Places, Once
  <2> QED  BY <1>1, <2>2, FS_Singleton
<1>2. CASE ~InList(s, b)
  <2>1. Places(s, b) = {}
    BY <1>2 DEF Places, InList
  <2> QED  BY <1>2, <2>1, FS_EmptySet
<1> QED  BY <1>1, <1>2

LEMMA CountedOnce == FullInv => FinalizeAccounted
<1> SUFFICES ASSUME FullInv PROVE AccountedOnce
  BY DEF FullInv, FatesInv, OrderInv, FinalizeAccounted
<1> SUFFICES ASSUME NEW c \in Conns, NEW i \in 1..read[c],
                    stream[c][i].type = "finalize", pc[c] \in {"reading", "join"}
             PROVE  Cardinality(Places(finalize_tasks, <<c, i>>))
                      + Cardinality(Places(completion_queue, <<c, i>>))
                      + (IF i = read[c] /\ pc[c] = "join" THEN 1 ELSE 0) = 1
  BY DEF AccountedOnce, Places
<1>1. read[c] \in Nat /\ i \in Nat /\ i <= read[c] /\ IsFinalize(c, i)
  <2>1. read[c] \in Nat /\ Len(stream[c]) \in Nat /\ read[c] <= Len(stream[c])
    BY DEF FullInv, IInv, TypeInv, TypeOK
  <2> QED  BY <2>1 DEF IsFinalize
<1> DEFINE b == <<c, i>>
<1>2. /\ Once(finalize_tasks, b) /\ Once(completion_queue, b)
      /\ ~(InList(finalize_tasks, b) /\ InList(completion_queue, b))
      /\ i = read[c] /\ pc[c] \in {"join", "locked"} => ~Answered(b)
      /\ (i < read[c] \/ (i = read[c] /\ pc[c] = "reading")) => Answered(b)
  BY <1>1 DEF FullInv, FatesInv, FateInv
<1>3. /\ Cardinality(Places(finalize_tasks, b)) =
           IF InList(finalize_tasks, b) THEN 1 ELSE 0
      /\ Cardinality(Places(completion_queue, b)) =
           IF InList(completion_queue, b) THEN 1 ELSE 0
  BY <1>2, CountPlaces
<1> QED  BY <1>1, <1>2, <1>3 DEF Answered

\* With either provider, whatever the connections send and wherever a write
\* fails: a Finalize message that a living handler has read is being worked
\* on, waits for its token or has been reported, at one place only, so its
\* callback runs once at most and is not forgotten; and the interruption that
\* shutdown() reports of a visit is never put before the verdict of a
\* Finalize message that was dealt with when the shutdown began.
THEOREM FinalizeAlwaysAccounted == Spec => []FinalizeAccounted
BY InitFullInv, NextFullInv, CountedOnce, PTL DEF Spec

----------------------------------------------------------------------------
(* The refinement of FinalizePromise. *)

\* The stage of a message that has an entry waiting for the feeder.
EntryStage(e) ==
  IF ~e.found THEN "dismissed"
  ELSE IF e.by \in flush_events THEN "waiting" ELSE "durable"

\* The stage of a message that has no entry.
EarlyStage(c, i) ==
  IF i > read[c] THEN "unread"
  ELSE IF i = read[c] /\ pc[c] \in {"join", "locked"} THEN "waiting" ELSE "lost"

\* The stages, by the place of the message.
StageInv ==
  \A c \in Conns : \A i \in Nat : IsFinalize(c, i) =>
    /\ InList(completion_queue, <<c, i>>) => Stage(<<c, i>>) = "reported"
    /\ \A e \in Pending : e.by = <<c, i>> => Stage(<<c, i>>) = EntryStage(e)
    /\ ~Answered(<<c, i>>) => Stage(<<c, i>>) = EarlyStage(c, i)

LEMMA PendingOnce ==
  ASSUME NEW b, Once(finalize_tasks, b), NEW d \in Pending, NEW e \in Pending,
         d.by = b, e.by = b
  PROVE  d = e
BY DEF Once, Pending

LEMMA StagesByPlace == FullInv => StageInv
<1> SUFFICES ASSUME FullInv, NEW c \in Conns, NEW i \in Nat, IsFinalize(c, i)
             PROVE  /\ InList(completion_queue, <<c, i>>) => Stage(<<c, i>>) = "reported"
                    /\ \A e \in Pending :
                         e.by = <<c, i>> => Stage(<<c, i>>) = EntryStage(e)
                    /\ ~Answered(<<c, i>>) => Stage(<<c, i>>) = EarlyStage(c, i)
  BY DEF StageInv
<1> DEFINE b == <<c, i>>
<1>1. b[1] = c /\ b[2] = i
  OBVIOUS
<1>2. /\ Once(finalize_tasks, b)
      /\ ~(InList(finalize_tasks, b) /\ InList(completion_queue, b))
      /\ i > read[c] => ~Answered(b)
      /\ i = read[c] /\ pc[c] \in {"join", "locked"} => ~Answered(b)
  BY DEF FullInv, FatesInv, FateInv
<1>3. (\E e \in Reports : e.by = b) <=> InList(completion_queue, b)
  BY InListElements, ReportsElements
<1>4. (\E e \in Pending : e.by = b) <=> InList(finalize_tasks, b)
  BY InListElements, PendingElements
<1> HIDE DEF b
<1>8. Answered(b) => ~(b[2] > read[b[1]])
                     /\ ~(b[2] = read[b[1]] /\ pc[b[1]] \in {"join", "locked"})
  BY <1>1, <1>2
<1>5. ASSUME InList(completion_queue, b)
      PROVE  Stage(b) = "reported"
  <2>1. /\ \E e \in Reports : e.by = b
        /\ ~\E e \in Pending : e.by = b
    BY <1>2, <1>3, <1>4, <1>5
  <2>2. Answered(b)
    BY <1>5 DEF Answered
  <2> QED  BY <1>8, <2>1, <2>2 DEF Stage
<1>6. ASSUME NEW e \in Pending, e.by = b
      PROVE  Stage(b) = EntryStage(e)
  <2>1. (\E d \in Pending : d.by = b /\ ~d.found) <=> ~e.found
    BY <1>2, <1>6, PendingOnce
  <2>2. ~\E d \in Reports : d.by = b
    BY <1>2, <1>3, <1>4, <1>6
  <2>3. Stage(b) = IF \E d \in Pending : d.by = b /\ ~d.found THEN "dismissed"
                   ELSE IF b \in flush_events THEN "waiting" ELSE "durable"
    <3>1. \E d \in Pending : d.by = b
      BY <1>6
    <3>2. Answered(b)
      BY <1>4, <3>1 DEF Answered
    <3> QED  BY <1>8, <2>2, <3>1, <3>2 DEF Stage
  <2> QED  BY <1>6, <2>1, <2>3 DEF EntryStage
<1>7. ASSUME ~Answered(b)
      PROVE  Stage(b) = EarlyStage(c, i)
  <2>1. ~(\E e \in Reports : e.by = b) /\ ~(\E e \in Pending : e.by = b)
    BY <1>3, <1>4, <1>7 DEF Answered
  <2>2. read[c] \in Nat
    BY DEF FullInv, IInv, TypeInv, TypeOK
  <2> QED  BY <1>1, <2>1, <2>2 DEF Stage, EarlyStage
<1> QED  BY <1>5, <1>6, <1>7 DEF b

\* The Finalize messages of the refinement are those of the handlers.
LEMMA MessageNames ==
  ASSUME TypeInv
  PROVE  FinalizeMessages =
           {b \in Conns \X Nat : IsFinalize(b[1], b[2])}
<1>1. ASSUME NEW c \in Conns, NEW i \in 1..Len(stream[c])
      PROVE  i \in Nat
  BY DEF TypeInv, TypeOK
<1> QED  BY <1>1 DEF FinalizeMessages, IsFinalize

\* A message is durable only when all that is owed to it is saved.
DurableSaved ==
  \A b \in FinalizeMessages : Stage(b) = "durable" => Owed(b) \subseteq saved

LEMMA DurableMeansSaved == FullInv => DurableSaved
<1> SUFFICES ASSUME FullInv PROVE DurableSaved
  OBVIOUS
<1> SUFFICES ASSUME NEW c \in Conns, NEW i \in Nat, IsFinalize(c, i),
                    Stage(<<c, i>>) = "durable"
             PROVE  Owed(<<c, i>>) \subseteq saved
  <2>1. FinalizeMessages = {b \in Conns \X Nat : IsFinalize(b[1], b[2])}
    BY MessageNames DEF FullInv, IInv
  <2>2. \A b \in Conns \X Nat : \E c \in Conns, i \in Nat : b = <<c, i>>
    OBVIOUS
  <2>3. ASSUME NEW b \in FinalizeMessages, Stage(b) = "durable"
        PROVE  Owed(b) \subseteq saved
    <3>1. PICK c \in Conns, i \in Nat : b = <<c, i>> /\ IsFinalize(c, i)
      BY <2>1, <2>2
    <3> QED  BY <2>3, <3>1
  <2> QED  BY <2>3 DEF DurableSaved
<1> DEFINE b == <<c, i>>
<1>1. StageInv
  BY StagesByPlace
<1>2. PICK e \in Pending : e.by = b
  <2>1. Answered(b)
    BY <1>1 DEF StageInv, EarlyStage
  <2>2. ~InList(completion_queue, b)
    BY <1>1 DEF StageInv
  <2> QED  BY <2>1, <2>2, InListElements, PendingElements DEF Answered
<1>3. e.found /\ b \notin flush_events
  BY <1>1, <1>2 DEF StageInv, EntryStage
<1>4. Claim(e) \subseteq saved
  BY <1>2, <1>3 DEF FullInv, IInv, PendingBacked
<1>5. Claim(e) = Owed(b)
  BY <1>2 DEF FullInv, FatesInv, EntriesMatch, Claim, Owed
<1> QED  BY <1>4, <1>5

\* What one step does to the stage of one message.
LEMMA AnsweredEvents ==
  ASSUME FullInv, FateKinds, NEW c \in Conns, NEW i \in Nat,
         Answered(<<c, i>>), <<c, i>> \in flush_events'
  PROVE  <<c, i>> \in flush_events
<1>1. /\ read \in [Conns -> Nat]
      /\ i > read[c] => ~Answered(<<c, i>>)
      /\ i = read[c] /\ pc[c] \in {"join", "locked"} => ~Answered(<<c, i>>)
  BY DEF FullInv, FatesInv, FateInv, IInv, TypeInv, TypeOK
<1>2. ~(i = read'[c] /\ (Began(c) \/ Stopped(c) \/ Finished(c)))
  BY <1>1 DEF Began, Stopped, Finished
<1> QED  BY <1>2 DEF FateKinds, EventsCreated

LEMMA PendingMoves ==
  ASSUME TypeInv, FateInv, FateKinds, NEW c \in Conns, NEW i \in Nat,
         NEW e \in Pending, e.by = <<c, i>>
  PROVE  \/ e \in Pending'
         \/ e.by \notin flush_events /\ InList(completion_queue', <<c, i>>)
<1>0. finalize_tasks \in Seq(Entries) /\ completion_queue \in Seq(Entries)
  BY ListTypes
<1>1. CASE Feed
  <2>1. PICK k \in 1..Len(finalize_tasks) :
          /\ finalize_tasks[k].by \notin flush_events
          /\ completion_queue' = Append(completion_queue, finalize_tasks[k])
          /\ finalize_tasks' = WithoutAt(finalize_tasks, k)
    BY <1>1, FeedMoves
  <2>2. CASE finalize_tasks[k].by = <<c, i>>
    <3>1. InList(Append(completion_queue, finalize_tasks[k]), <<c, i>>)
      BY <1>0, <2>2, AppendPlaces
    <3> QED  BY <2>1, <2>2, <3>1
  <2>3. CASE finalize_tasks[k].by # <<c, i>>
    <3>1. Once(finalize_tasks, <<c, i>>) /\ InList(finalize_tasks, <<c, i>>)
      BY InListElements, PendingElements DEF FateInv
    <3>2. InList(WithoutAt(finalize_tasks, k), <<c, i>>)
      BY <1>0, <2>3, <3>1, WithoutAtPlaces
    <3>3. Elements(WithoutAt(finalize_tasks, k)) \subseteq Pending
      BY <1>0, WithoutAtElements, PendingElements
    <3>4. PICK d \in Elements(WithoutAt(finalize_tasks, k)) : d.by = <<c, i>>
      BY <3>2, InListElements
    <3>5. d = e
      BY <3>1, <3>3, <3>4, PendingOnce
    <3>6. e \in Elements(finalize_tasks')
      BY <2>1, <3>4, <3>5
    <3> QED  BY <3>6 DEF Pending, Elements
  <2> QED  BY <2>2, <2>3
<1>2. ASSUME NEW d \in Conns, NEW found, Settlement(d, found)
      PROVE  e \in Pending'
  <2>1. Elements(Append(finalize_tasks, EntryOf(d, read'[d], found)))
          = Elements(finalize_tasks) \cup {EntryOf(d, read'[d], found)}
    BY <1>0, AppendElements
  <2> QED  BY <1>2, <2>1, PendingElements DEF Settlement, Pending, Elements
<1>3. CASE UNCHANGED finalize_tasks
  BY <1>3 DEF Pending
<1> QED  BY <1>1, <1>2, <1>3 DEF FateKinds

\* The reports stay.
LEMMA ReportsStay ==
  ASSUME TypeInv, ReportsGrow, NEW b, InList(completion_queue, b)
  PROVE  InList(completion_queue', b)
<1>1. CASE UNCHANGED completion_queue
  BY <1>1
<1>2. ASSUME NEW e, completion_queue' = Append(completion_queue, e)
      PROVE  InList(completion_queue', b)
  BY <1>2, AppendPlaces, ListTypes
<1> QED  BY <1>1, <1>2 DEF ReportsGrow

\* A message that nobody has answered is settled by this step, or moves with
\* its handler.
LEMMA EarlyMoves ==
  ASSUME FullInv, FateKinds, NEW c \in Conns, NEW i \in Nat, IsFinalize(c, i),
         ~Answered(<<c, i>>)
  PROVE  \/ \E found \in BOOLEAN :
              /\ EntryOf(c, i, found) \in Pending'
              /\ ~found => i > read[c]
              /\ i > read[c] \/ (i = read[c] /\ pc[c] \in {"join", "locked"})
         \/ /\ ~Answered(<<c, i>>)'
            /\ \/ EarlyStage(c, i)' = EarlyStage(c, i)
               \/ i > read[c] /\ EarlyStage(c, i)' \in {"waiting", "lost"}
               \/ EarlyStage(c, i) = "waiting" /\ EarlyStage(c, i)' = "lost"
<1> DEFINE b == <<c, i>>
<1>0. /\ finalize_tasks \in Seq(Entries) /\ completion_queue \in Seq(Entries)
      /\ read \in [Conns -> Nat] /\ TypeInv
  BY ListTypes DEF FullInv, IInv
<1>1. i > read[c] \/ (i = read[c] /\ pc[c] # "reading")
  BY <1>0 DEF FullInv, FatesInv, FateInv
<1>2. ~InList(finalize_tasks, b) /\ ~InList(completion_queue, b)
  BY DEF Answered
<1>3. Answered(b)' <=> InList(finalize_tasks', b) \/ InList(completion_queue', b)
  BY DEF Answered, InList
<1>4. CASE Feed /\ \A d \in Conns : Idle(d)
  <2>1. PICK k \in 1..Len(finalize_tasks) :
          /\ completion_queue' = Append(completion_queue, finalize_tasks[k])
          /\ finalize_tasks' = WithoutAt(finalize_tasks, k)
    BY <1>0, <1>4, FeedMoves
  <2>2. finalize_tasks[k].by # b
    BY <1>2 DEF InList
  <2>3. ~InList(finalize_tasks', b)
    <3>1. Once(finalize_tasks, b)
      BY <1>2 DEF InList, Once
    <3> QED  BY <1>0, <1>2, <2>1, <3>1, WithoutAtPlaces
  <2>4. ~InList(completion_queue', b)
    BY <1>0, <1>2, <2>1, <2>2, AppendPlaces
  <2> QED  BY <1>3, <1>4, <2>3, <2>4 DEF Idle, EarlyStage
<1>5. ASSUME NEW d \in Conns, NEW found \in BOOLEAN, Settlement(d, found)
      PROVE  \/ \E f \in BOOLEAN :
                  /\ EntryOf(c, i, f) \in Pending'
                  /\ ~f => i > read[c]
                  /\ i > read[c] \/ (i = read[c] /\ pc[c] \in {"join", "locked"})
             \/ /\ ~Answered(b)'
                /\ \/ EarlyStage(c, i)' = EarlyStage(c, i)
                   \/ EarlyStage(c, i) = "waiting" /\ EarlyStage(c, i)' = "lost"
  <2> DEFINE e == EntryOf(d, read'[d], found)
  <2>1. finalize_tasks' = Append(finalize_tasks, e) /\ UNCHANGED completion_queue
    BY <1>5 DEF Settlement
  <2>2. CASE c = d /\ i = read'[d]
    <3>1. e \in Elements(finalize_tasks')
      BY <1>0, <2>1, AppendElements
    <3>2. /\ ~found => i > read[c]
          /\ i > read[c] \/ (i = read[c] /\ pc[c] \in {"join", "locked"})
      BY <1>0, <1>5, <2>2 DEF Settlement, Finished
    <3> QED  BY <2>2, <3>1, <3>2 DEF Pending, Elements
  <2>3. CASE ~(c = d /\ i = read'[d])
    <3>1. e.by # b
      BY <2>3 DEF EntryOf
    <3> HIDE DEF e
    <3>2. ~Answered(b)'
      BY <1>0, <1>2, <1>3, <2>1, <3>1, AppendPlaces
    <3>3. CASE c = d
      <4>1. i > read[c] /\ i > read'[c]
        BY <1>0, <1>1, <1>5, <2>3, <3>3 DEF Settlement, Finished
      <4> QED  BY <3>2, <4>1 DEF EarlyStage
    <3>4. CASE c # d
      <4>1. Idle(c) \/ Stopped(c)
        BY <1>5, <3>4 DEF Settlement
      <4> QED  BY <1>0, <1>1, <3>2, <4>1 DEF EarlyStage, Idle, Stopped
    <3> QED  BY <3>3, <3>4
  <2> QED  BY <2>2, <2>3
<1>6. CASE /\ UNCHANGED finalize_tasks
           /\ UNCHANGED completion_queue \/ ShutdownReport
           /\ Idle(c) \/ Stopped(c) \/ Skipped(c) \/ Began(c)
  <2>1. InList(completion_queue', b) <=> InList(completion_queue, b)
    BY <1>0, <1>6, ReportPlaces DEF InList
  <2>2. ~Answered(b)'
    BY <1>2, <1>3, <1>6, <2>1
  <2>3. CASE Idle(c) \/ Stopped(c)
    BY <1>0, <2>2, <2>3 DEF EarlyStage, Idle, Stopped
  <2>4. CASE Skipped(c)
    <3>1. i # read[c] + 1
      BY <2>4 DEF Skipped
    <3>2. i > read[c] /\ i > read'[c]
      BY <1>0, <1>1, <2>4, <3>1 DEF Skipped
    <3> QED  BY <2>2, <3>2 DEF EarlyStage
  <2>5. CASE Began(c)
    <3>1. i > read[c] /\ (i > read'[c] \/ i = read'[c])
      BY <1>0, <1>1, <2>5 DEF Began
    <3> QED  BY <2>2, <3>1 DEF EarlyStage
  <2> QED  BY <1>6, <2>3, <2>4, <2>5
<1> QED  BY <1>4, <1>5, <1>6 DEF FateKinds

\* Every step keeps the stage of every message or takes it forward.
LEMMA StageMoves ==
  ASSUME FullInv, FateKinds, StageInv, StageInv',
         NEW c \in Conns, NEW i \in Nat, IsFinalize(c, i)
  PROVE  LET b == <<c, i>> IN
         \/ Stage(b)' = Stage(b)
         \/ Stage(b)' \in Promise!After[Stage(b)]
<1> DEFINE b == <<c, i>>
<1>0. /\ TypeInv /\ FateInv /\ ReportsGrow /\ UNCHANGED stream
      /\ IsFinalize(c, i)' /\ read[c] \in Nat
  BY NextReports DEF FullInv, FatesInv, IInv, FateKinds, IsFinalize, TypeInv, TypeOK
<1>1. /\ InList(completion_queue', b) => Stage(b)' = "reported"
      /\ \A e \in Pending' : e.by = b => Stage(b)' = EntryStage(e)'
      /\ ~Answered(b)' => Stage(b)' = EarlyStage(c, i)'
  BY <1>0 DEF StageInv, InList
<1>2. CASE InList(completion_queue, b)
  <2>1. Stage(b) = "reported"
    BY <1>2 DEF StageInv
  <2> QED  BY <1>0, <1>1, <1>2, <2>1, ReportsStay
<1>3. ASSUME NEW e \in Pending, e.by = b
      PROVE  Stage(b)' = Stage(b) \/ Stage(b)' \in Promise!After[Stage(b)]
  <2>1. Stage(b) = EntryStage(e)
    BY <1>3 DEF StageInv
  <2>2. Answered(b)
    BY <1>3, InListElements, PendingElements DEF Answered
  <2>3. CASE e \in Pending'
    <3>1. Stage(b)' = EntryStage(e)'
      BY <1>1, <1>3, <2>3
    <3>2. e.by \in flush_events' => e.by \in flush_events
      BY <1>3, <2>2, AnsweredEvents
    <3> QED  BY <2>1, <3>1, <3>2 DEF EntryStage, Promise!After, Promise!Stages
  <2>4. CASE e.by \notin flush_events /\ InList(completion_queue', b)
    <3>1. Stage(b)' = "reported" /\ Stage(b) \in {"dismissed", "durable"}
      BY <1>1, <2>1, <2>4 DEF EntryStage
    <3> QED  BY <3>1 DEF Promise!After, Promise!Stages
  <2> QED  BY <1>0, <1>3, <2>3, <2>4, PendingMoves
<1>4. CASE ~Answered(b)
  <2>1. Stage(b) = EarlyStage(c, i)
    BY <1>4 DEF StageInv
  <2>2. ASSUME NEW found \in BOOLEAN, EntryOf(c, i, found) \in Pending',
               ~found => i > read[c],
               i > read[c] \/ (i = read[c] /\ pc[c] \in {"join", "locked"})
        PROVE  Stage(b)' = Stage(b) \/ Stage(b)' \in Promise!After[Stage(b)]
    <3>1. Stage(b)' = EntryStage(EntryOf(c, i, found))'
      BY <1>0, <1>1, <2>2 DEF EntryOf
    <3>2. /\ Stage(b)' \in {"dismissed", "waiting", "durable"}
          /\ found => Stage(b)' \in {"waiting", "durable"}
      BY <3>1 DEF EntryStage, EntryOf
    <3>3. Stage(b) \in {"unread", "waiting"} /\ (~found => Stage(b) = "unread")
      BY <1>0, <2>1, <2>2 DEF EarlyStage
    <3> QED  BY <3>2, <3>3 DEF Promise!After, Promise!Stages
  <2>3. ASSUME ~Answered(b)',
               \/ EarlyStage(c, i)' = EarlyStage(c, i)
               \/ i > read[c] /\ EarlyStage(c, i)' \in {"waiting", "lost"}
               \/ EarlyStage(c, i) = "waiting" /\ EarlyStage(c, i)' = "lost"
        PROVE  Stage(b)' = Stage(b) \/ Stage(b)' \in Promise!After[Stage(b)]
    <3>1. Stage(b)' = EarlyStage(c, i)'
      BY <1>1, <2>3
    <3>2. i > read[c] => Stage(b) = "unread"
      BY <2>1 DEF EarlyStage
    <3> QED  BY <2>1, <2>3, <3>1, <3>2 DEF Promise!After, Promise!Stages
  <2> QED  BY <1>4, <2>2, <2>3, EarlyMoves
<1>5. Answered(b) => InList(completion_queue, b) \/ \E e \in Pending : e.by = b
  BY InListElements, PendingElements DEF Answered
<1> QED  BY <1>2, <1>3, <1>4, <1>5

LEMMA PromiseInit == Init => Promise!Init
<1> SUFFICES ASSUME Init PROVE Promise!Init
  OBVIOUS
<1>1. FullInv /\ TypeInv /\ StageInv
  BY InitFullInv, StagesByPlace DEF FullInv, IInv
<1>2. ASSUME NEW c \in Conns, NEW i \in Nat, IsFinalize(c, i)
      PROVE  Stage(<<c, i>>) = "unread"
  <2>1. i > read[c]
    BY <1>2 DEF Init, IsFinalize
  <2>2. ~Answered(<<c, i>>)
    BY DEF Init, Answered, InList
  <2> QED  BY <1>1, <1>2, <2>1, <2>2 DEF StageInv, EarlyStage
<1>3. FinalizeMessages = {b \in Conns \X Nat : IsFinalize(b[1], b[2])}
  BY <1>1, MessageNames
<1>4. \A b \in FinalizeMessages : Stage(b) = "unread"
  BY <1>2, <1>3
<1>5. saved = {}
  BY DEF Init
<1> QED  BY <1>4, <1>5 DEF Promise!Init

LEMMA PromiseStep ==
  ASSUME FullInv, StageInv, StageInv', DurableSaved', [Next]_vars
  PROVE  Promise!Step
<1>0. FateKinds /\ TypeInv /\ TypeInv' /\ UNCHANGED stream /\ saved \subseteq saved'
  BY NextFullInv, NextKinds, StoreMonotone DEF FullInv, IInv, FateKinds, Kept
<1>1. /\ FinalizeMessages' = FinalizeMessages
      /\ \A b \in FinalizeMessages : Owed(b)' = Owed(b)
  BY <1>0 DEF FinalizeMessages, Owed, Covered, Marker, MsgOf, Incomplete
<1>2. FinalizeMessages = {b \in Conns \X Nat : IsFinalize(b[1], b[2])}
  BY <1>0, MessageNames
<1>3. ASSUME NEW b \in FinalizeMessages
      PROVE  /\ Stage(b)' = Stage(b) \/ Stage(b)' \in Promise!After[Stage(b)]
             /\ Stage(b)' = "durable" => Owed(b)' \subseteq saved'
  <2>1. PICK c \in Conns, i \in Nat : b = <<c, i>> /\ IsFinalize(c, i)
    BY <1>2
  <2>2. Stage(b)' = Stage(b) \/ Stage(b)' \in Promise!After[Stage(b)]
    BY <1>0, <2>1, StageMoves
  <2>3. Stage(b)' = "durable" => Owed(b)' \subseteq saved'
    BY <1>1 DEF DurableSaved
  <2> QED  BY <2>2, <2>3
<1> QED  BY <1>0, <1>1, <1>3 DEF Promise!Step

\* With either provider the controller implements FinalizePromise, for every
\* workload and every failing write: what has happened to a Finalize message
\* is never taken back, and it becomes durable, as the token of its
\* finalization says, only together with everything owed to it.
THEOREM PromiseKept == Spec => KeepsPromise
<1>1. FullInv => StageInv /\ DurableSaved
  BY StagesByPlace, DurableMeansSaved
<1>2. FullInv /\ StageInv /\ StageInv' /\ DurableSaved' /\ [Next]_vars
        => [Promise!Step]_(Promise!vars)
  BY PromiseStep
<1> QED
  BY <1>1, <1>2, PromiseInit, InitFullInv, NextFullInv, PTL
     DEF Spec, KeepsPromise, Promise!Spec

----------------------------------------------------------------------------
(* The marks of interrupted visits, with SQLite. *)

\* The order of the reports to come: it stays, or one entry is added to it.
OrderKept ==
  /\ Len(Order') = Len(Order)
  /\ \A k \in 1..Len(Order) : Order'[k] = Order[k]

OrderExtended(e) ==
  /\ Len(Order') = Len(Order) + 1
  /\ \A k \in 1..Len(Order) : Order'[k] = Order[k]
  /\ Order'[Len(Order) + 1] = e

LEMMA ConcatIndex ==
  ASSUME NEW S, NEW s \in Seq(S), NEW t \in Seq(S)
  PROVE  /\ Len(s \o t) = Len(s) + Len(t)
         /\ \A k \in 1..Len(s) : (s \o t)[k] = s[k]
         /\ \A k \in 1..Len(t) : (s \o t)[Len(s) + k] = t[k]
OBVIOUS

\* With SQLite no finalization has an event, so the feeder reports the first
\* entry of the list.
LEMMA FeedKeepsOrder ==
  ASSUME TypeInv, flush_events = {}, Feed
  PROVE  OrderKept
<1>1. PICK k \in 1..Len(finalize_tasks) :
        /\ \A j \in 1..(k-1) : finalize_tasks[j].by \in flush_events
        /\ completion_queue' = Append(completion_queue, finalize_tasks[k])
        /\ finalize_tasks' = WithoutAt(finalize_tasks, k)
  BY FeedMoves
<1> DEFINE cq == completion_queue
           ft == finalize_tasks
<1>2. cq \in Seq(Entries) /\ ft \in Seq(Entries) /\ Len(cq) \in Nat /\ Len(ft) \in Nat
  BY ListTypes
<1>3. k = 1
  <2>1. ~(1 \in 1..(k-1))
    BY <1>1
  <2> QED  BY <1>2, <2>1
<1> DEFINE t == WithoutAt(ft, 1)
           q == Append(cq, ft[1])
<1>4. /\ t \in Seq(Entries) /\ Len(t) = Len(ft) - 1 /\ Len(ft) \in Nat \ {0}
      /\ \A i \in 1..(Len(ft) - 1) : t[i] = ft[i+1]
  <2>1. 1 \in 1..Len(ft)
    BY <1>3
  <2>2. \A i \in 1..(Len(ft) - 1) : ~(i < 1)
    BY <1>2
  <2> QED  BY <1>2, <2>1, <2>2, WithoutAtIndex, WithoutAtElements
<1>5. /\ q \in Seq(Entries) /\ Len(q) = Len(cq) + 1 /\ q[Len(cq) + 1] = ft[1]
      /\ \A i \in 1..Len(cq) : q[i] = cq[i]
  BY <1>2, <1>4
<1>6. Order = cq \o ft /\ Order' = q \o t
  BY <1>1, <1>3 DEF Order
<1> HIDE DEF t, q, cq, ft
<1>7. Len(q \o t) = Len(cq \o ft)
  <2>1. Len(q \o t) = Len(q) + Len(t) /\ Len(cq \o ft) = Len(cq) + Len(ft)
    BY <1>2, <1>4, <1>5, ConcatIndex
  <2> QED  BY <1>2, <1>4, <1>5, <2>1
<1>8. ASSUME NEW i \in 1..Len(cq \o ft)
      PROVE  (q \o t)[i] = (cq \o ft)[i]
  <2>1. CASE i <= Len(cq)
    BY <1>2, <1>4, <1>5, <2>1
  <2>2. CASE i = Len(cq) + 1
    BY <1>2, <1>4, <1>5, <2>2
  <2>3. CASE i > Len(cq) + 1
    <3>1. i - Len(cq) - 1 \in 1..(Len(ft) - 1)
      BY <1>2, <1>4, <2>3
    <3>2. (q \o t)[Len(q) + (i - Len(cq) - 1)] = t[i - Len(cq) - 1]
      BY <1>4, <1>5, <3>1, ConcatIndex
    <3>3. i - Len(cq) \in 1..Len(ft)
      BY <1>2, <1>4, <2>3
    <3>4. (cq \o ft)[Len(cq) + (i - Len(cq))] = ft[i - Len(cq)]
      BY <1>2, <3>3, ConcatIndex
    <3>5. Len(q) + (i - Len(cq) - 1) = i /\ Len(cq) + (i - Len(cq)) = i
      BY <1>2, <1>5
    <3>6. t[i - Len(cq) - 1] = ft[i - Len(cq)]
      <4>1. (i - Len(cq) - 1) + 1 = i - Len(cq)
        BY <1>2
      <4> QED  BY <1>4, <3>1, <4>1
    <3>7. (q \o t)[i] = t[i - Len(cq) - 1]
      BY <3>2, <3>5
    <3>8. (cq \o ft)[i] = ft[i - Len(cq)]
      BY <3>4, <3>5
    <3> QED  BY <3>6, <3>7, <3>8
  <2>4. i <= Len(cq) \/ i = Len(cq) + 1 \/ i > Len(cq) + 1
    BY <1>2
  <2> QED  BY <2>1, <2>2, <2>3, <2>4
<1> QED  BY <1>6, <1>7, <1>8 DEF OrderKept

LEMMA AppendExtendsOrder ==
  ASSUME TypeInv, NEW e,
         finalize_tasks' = Append(finalize_tasks, e), UNCHANGED completion_queue
  PROVE  OrderExtended(e)
<1> DEFINE cq == completion_queue
           ft == finalize_tasks
           t == Append(ft, e)
<1>1. cq \in Seq(Entries) /\ ft \in Seq(Entries) /\ Len(cq) \in Nat /\ Len(ft) \in Nat
  BY ListTypes
<1>2. /\ t \in Seq(Entries \cup {e}) /\ Len(t) = Len(ft) + 1 /\ t[Len(ft) + 1] = e
      /\ \A i \in 1..Len(ft) : t[i] = ft[i]
  BY <1>1
<1>3. Order = cq \o ft /\ Order' = cq \o t
  BY DEF Order
<1>4. cq \in Seq(Entries \cup {e}) /\ ft \in Seq(Entries \cup {e})
  BY <1>1
<1> HIDE DEF t, cq, ft
<1>5. /\ Len(cq \o t) = Len(cq \o ft) + 1
      /\ (cq \o t)[Len(cq \o ft) + 1] = e
  <2>1. Len(cq \o t) = Len(cq) + Len(t) /\ Len(cq \o ft) = Len(cq) + Len(ft)
    BY <1>1, <1>2, <1>4, ConcatIndex
  <2>2. (cq \o t)[Len(cq) + (Len(ft) + 1)] = t[Len(ft) + 1]
    BY <1>1, <1>2, <1>4
  <2> QED  BY <1>1, <1>2, <2>1, <2>2
<1>6. ASSUME NEW i \in 1..Len(cq \o ft)
      PROVE  (cq \o t)[i] = (cq \o ft)[i]
  <2>1. CASE i <= Len(cq)
    BY <1>1, <1>2, <1>4, <2>1
  <2>2. CASE i > Len(cq)
    <3>1. i - Len(cq) \in 1..Len(ft)
      BY <1>1, <2>2
    <3>2. (cq \o t)[i] = t[i - Len(cq)] /\ (cq \o ft)[i] = ft[i - Len(cq)]
      BY <1>1, <1>2, <1>4, <2>2
    <3> QED  BY <1>2, <3>1, <3>2
  <2>3. i <= Len(cq) \/ i > Len(cq)
    BY <1>1
  <2> QED  BY <2>1, <2>2, <2>3
<1> QED  BY <1>3, <1>5, <1>6 DEF OrderExtended

\* What a step does to the order.
LEMMA OrderMoves ==
  ASSUME TypeInv, flush_events = {}, tokens = {}, FateKinds
  PROVE  \/ OrderKept
         \/ \E c \in Conns : \E found \in BOOLEAN :
              /\ Settlement(c, found)
              /\ OrderExtended(EntryOf(c, read'[c], found))
<1>1. CASE Feed
  BY <1>1, FeedKeepsOrder
<1>2. ASSUME NEW c \in Conns, NEW found \in BOOLEAN, Settlement(c, found)
      PROVE  OrderExtended(EntryOf(c, read'[c], found))
  BY <1>2, AppendExtendsOrder DEF Settlement
<1>3. ~ShutdownReport
  BY DEF ShutdownReport
<1>4. CASE UNCHANGED <<finalize_tasks, completion_queue>>
  BY <1>4 DEF Order, OrderKept
<1> QED  BY <1>1, <1>2, <1>3, <1>4 DEF FateKinds

LEMMA OrderLength ==
  ASSUME TypeInv
  PROVE  /\ Len(Order) \in Nat /\ Order \in Seq(Entries)
         /\ \A k \in 1..Len(completion_queue) :
              k \in 1..Len(Order) /\ Order[k] = completion_queue[k]
<1>1. completion_queue \in Seq(Entries) /\ finalize_tasks \in Seq(Entries)
  BY ListTypes
<1> QED  BY <1>1 DEF Order

LEMMA OverStays ==
  ASSUME TypeInv, saved \subseteq saved',
         OrderKept \/ \E e : OrderExtended(e), NEW v, VisitOver(v)
  PROVE  VisitOver(v)'
<1>1. CASE Incomplete(v) \in saved
  BY <1>1 DEF VisitOver, Incomplete
<1>2. ASSUME NEW k \in 1..Len(Order), Order[k].visit = v
      PROVE  VisitOver(v)'
  <2>1. k \in 1..Len(Order') /\ Order'[k] = Order[k]
    BY OrderLength DEF OrderKept, OrderExtended
  <2> QED  BY <1>2, <2>1 DEF VisitOver
<1> QED  BY <1>1, <1>2 DEF VisitOver

LEMMA SqliteTokens ==
  ASSUME Provider = "sqlite", tokens = {}, Kinds
  PROVE  tokens' = {}
<1>1. ASSUME NEW p, NEW v, NEW success, NEW by, Completion(p, v, success, by)
      PROVE  tokens' = {}
  BY <1>1 DEF Completion, Complete, FinalizeSqlite, FinalizeArrow, Return
<1>2. ASSUME NEW p, NEW v, NEW success, NEW by, Dismissal(p, v, success, by)
      PROVE  tokens' = {}
  BY <1>2 DEF Dismissal, Return
<1>3. CASE Feed \/ RunTask \/ \E c \in Conns : ReadRecord(c)
  BY <1>3 DEF Feed, RunTask, ReadRecord, Consume, closedown
<1> QED  BY <1>1, <1>2, <1>3 DEF Kinds, ShutdownReport

\* With SQLite a finalization that deletes the list of a visit is the end of
\* the visit: by its entry, or by the mark if the main coroutine made it.
LEMMA CompletionOver ==
  ASSUME TypeInv, Provider = "sqlite", NEW p, NEW v, NEW success, NEW by,
         Completion(p, v, success, by), UNCHANGED completion_queue
  PROVE  VisitOver(v)'
<1>1. PICK Q : FinalizeSqlite(p, v, success, by, Q)
  BY DEF Completion, Complete, FinalizeArrow
<1>2. CASE p = Main
  <2>1. Incomplete(v) \in saved'
    BY <1>1, <1>2 DEF Completion, FinalizeSqlite, Marker
  <2> QED  BY <2>1 DEF VisitOver, Incomplete
<1>3. CASE p # Main
  <2> DEFINE e == [visit |-> v, success |-> success, by |-> by, found |-> TRUE]
  <2>1. finalize_tasks' = Append(finalize_tasks, e)
    BY <1>1, <1>3 DEF FinalizeSqlite, Return
  <2>2. Len(Order) \in Nat /\ e.visit = v
    BY OrderLength
  <2> HIDE DEF e
  <2>3. OrderExtended(e)
    BY <2>1, AppendExtendsOrder
  <2> QED  BY <2>2, <2>3 DEF OrderExtended, VisitOver
<1> QED  BY <1>2, <1>3

\* A list forgets a task only when the visit's finalization completes.
LEMMA ListsForgotten ==
  ASSUME TypeInv, Kinds, NEW w \in Visits, NEW x \in store_record_tasks[w],
         x \notin store_record_tasks'[w]
  PROVE  \E p, success, by : /\ Completion(p, w, success, by)
                             /\ UNCHANGED completion_queue
<1>1. store_record_tasks \in [Visits -> SUBSET Records]
  BY DEF TypeInv, TypeOK
<1>2. ~\E c \in Conns : ReadRecord(c)
  BY <1>1 DEF ReadRecord
<1>3. ~(RunTask \/ Feed \/ ShutdownReport)
  BY DEF RunTask, Feed, ShutdownReport, loop
<1>4. \A p, v, success, by : ~Dismissal(p, v, success, by)
  BY DEF Dismissal
<1>5. \A p, v, success, by :
        Completion(p, v, success, by) =>
          store_record_tasks' = [store_record_tasks EXCEPT ![v] = {}]
  BY DEF Completion, Complete
<1>6. PICK p, v, success, by : /\ Completion(p, v, success, by)
                               /\ UNCHANGED completion_queue
  BY <1>2, <1>3, <1>4 DEF Kinds
<1>7. v = w
  BY <1>1, <1>5, <1>6
<1> QED  BY <1>6, <1>7

LEMMA ForgottenOverStep ==
  ASSUME TypeInv, TypeInv', Provider = "sqlite", saved \subseteq saved',
         OrderKept \/ (\E e : OrderExtended(e)), ForgottenOver, Kinds
  PROVE  ForgottenOver'
<1>0. UNCHANGED stream
  BY StreamFixed
<1> SUFFICES
      ASSUME NEW c \in Conns, NEW j \in 1..read'[c], stream[c][j].type = "record",
             NEW v, v = stream[c][j].visit
      PROVE  <<c, j>> \in store_record_tasks'[v] \/ VisitOver(v)'
  BY <1>0 DEF ForgottenOver, Received, VisitOver, Incomplete
<1>1. CASE ReadRecord(c) /\ j = read[c] + 1
  BY <1>1, ReadRecordFacts DEF MsgOf
<1>2. CASE j \in 1..read[c] /\ Received(c, j)
  <2>1. v \in Visits
    BY <1>2, ReadVisits
  <2>2. <<c, j>> \in store_record_tasks[v] \/ VisitOver(v)
    BY <1>2 DEF ForgottenOver
  <2>3. CASE VisitOver(v)
    BY <2>3, OverStays
  <2>4. CASE /\ <<c, j>> \in store_record_tasks[v]
             /\ <<c, j>> \notin store_record_tasks'[v]
    BY <2>1, <2>4, ListsForgotten, CompletionOver
  <2> QED  BY <2>2, <2>3, <2>4
<1> QED  BY <1>1, <1>2, ReceivedBefore

LEMMA FirstMarkedStep ==
  ASSUME FullInv, FullInv', Provider = "sqlite", FailuresFollowRecords,
         stream \in Workloads, ForgottenOver, FirstMarked, saved \subseteq saved',
         OrderKept \/ \E c \in Conns : \E found \in BOOLEAN :
                        /\ Settlement(c, found)
                        /\ OrderExtended(EntryOf(c, read'[c], found))
  PROVE  FirstMarked'
<1>0. /\ TypeInv /\ Len(Order) \in Nat
      /\ flush_events' = {} /\ finalize_tasks \in Seq(Entries)
  BY OrderLength, ListTypes DEF FullInv, IInv, SqliteShape
<1> SUFFICES
      ASSUME NEW k \in 1..Len(Order'), ~Order'[k].success,
             \A m \in 1..(k-1) : Order'[m].visit # Order'[k].visit
      PROVE  Incomplete(Order'[k].visit) \in saved'
  BY DEF FirstMarked, Incomplete
<1>1. ASSUME k \in 1..Len(Order), \A m \in 1..Len(Order) : Order'[m] = Order[m]
      PROVE  Incomplete(Order'[k].visit) \in saved'
  <2>1. \A m \in 1..(k-1) : m \in 1..Len(Order)
    BY <1>0, <1>1
  <2> QED  BY <1>1, <2>1 DEF FirstMarked
<1>2. ASSUME NEW c \in Conns, NEW found \in BOOLEAN, Settlement(c, found),
             OrderExtended(EntryOf(c, read'[c], found)), k = Len(Order) + 1
      PROVE  Incomplete(Order'[k].visit) \in saved'
  <2> DEFINE i == read'[c]
             v == stream[c][i].visit
  <2>0. PICK e : e = EntryOf(c, i, found)
    OBVIOUS
  <2>1. /\ Order'[k] = e /\ e.visit = v /\ e.success = stream[c][i].success
        /\ e.by = <<c, i>> /\ e.found = found
    BY <1>2, <2>0 DEF OrderExtended, EntryOf
  <2>2. CASE found
    <3>1. e \in Pending'
      <4>1. e \in Elements(Append(finalize_tasks, e))
        BY <1>0, AppendElements
      <4> QED  BY <1>2, <2>0, <4>1 DEF Settlement, Pending, Elements
    <3>2. Claim(e)' \subseteq saved'
      BY <1>0, <2>1, <2>2, <3>1 DEF FullInv, IInv, PendingBacked
    <3>3. Incomplete(v) \in Claim(e)'
      BY <2>1 DEF Claim, Marker, Incomplete
    <3> QED  BY <2>1, <3>2, <3>3
  <2>3. CASE ~found
    <3>1. /\ IsFinalize(c, i) /\ pc[c] = "reading" /\ i = read[c] + 1
          /\ store_record_tasks[v] = {} /\ read[c] \in Nat
      BY <1>0, <1>2, <2>3 DEF Settlement, Finished, TypeInv, TypeOK
    <3>2. PICK j \in 1..(i-1) : /\ stream[c][j].type = "record"
                                /\ stream[c][j].visit = v
      BY <2>1, <3>1 DEF FailuresFollowRecords, IsFinalize
    <3>3. j \in 1..read[c]
      BY <3>1, <3>2
    <3>4. VisitOver(v)
      BY <3>1, <3>2, <3>3 DEF ForgottenOver, Received
    <3>5. ~\E m \in 1..Len(Order) : Order[m].visit = v
      <4>1. \A m \in 1..Len(Order) : m \in 1..(k-1) /\ Order'[m] = Order[m]
        BY <1>0, <1>2 DEF OrderExtended
      <4> QED  BY <2>1, <4>1
    <3> QED  BY <2>1, <3>4, <3>5 DEF VisitOver
  <2> QED  BY <2>2, <2>3
<1>3. k \in 1..Len(Order) \/ k = Len(Order) + 1
  BY <1>0 DEF OrderKept, OrderExtended
<1> QED  BY <1>1, <1>2, <1>3 DEF OrderKept, OrderExtended

LEMMA MarkedInvStep ==
  ASSUME FullInv, FullInv', FateKinds, MarkedInv, [Next]_vars,
         Provider = "sqlite", FailuresFollowRecords
  PROVE  MarkedInv'
<1>1. /\ TypeInv /\ TypeInv' /\ Kinds /\ flush_events = {} /\ UNCHANGED stream
      /\ saved \subseteq saved'
  BY NextKinds, StoreMonotone DEF FullInv, IInv, SqliteShape, FateKinds, Kept
<1>2. OrderKept \/ \E c \in Conns : \E found \in BOOLEAN :
                      /\ Settlement(c, found)
                      /\ OrderExtended(EntryOf(c, read'[c], found))
  BY <1>1, OrderMoves DEF MarkedInv
<1>3. stream' \in Workloads /\ tokens' = {}
  BY <1>1, SqliteTokens DEF MarkedInv
<1>4. ForgottenOver'
  BY <1>1, <1>2, ForgottenOverStep DEF MarkedInv
<1>5. FirstMarked'
  BY <1>1, <1>2, FirstMarkedStep DEF MarkedInv
<1> QED  BY <1>3, <1>4, <1>5 DEF MarkedInv

LEMMA InitMarkedInv == Init => MarkedInv
<1> SUFFICES ASSUME Init PROVE MarkedInv
  OBVIOUS
<1>1. ForgottenOver
  BY DEF Init, ForgottenOver
<1>2. Len(Order) = 0
  BY DEF Init, Order
<1> QED  BY <1>1, <1>2 DEF Init, MarkedInv, FirstMarked

LEMMA MarkedReports ==
  ASSUME TypeInv, MarkedInv
  PROVE  InterruptedIsMarked
<1> SUFFICES
      ASSUME NEW k \in 1..Len(completion_queue), ~completion_queue[k].success,
             \A m \in 1..(k-1) : completion_queue[m].visit # completion_queue[k].visit
      PROVE  Incomplete(completion_queue[k].visit) \in saved
  BY DEF InterruptedIsMarked
<1>1. k \in 1..Len(Order) /\ Order[k] = completion_queue[k]
  BY OrderLength
<1>2. \A m \in 1..(k-1) : Order[m] = completion_queue[m]
  <2>1. Len(completion_queue) \in Nat
    BY ListTypes
  <2>2. \A m \in 1..(k-1) : m \in 1..Len(completion_queue)
    BY <2>1
  <2> QED  BY <2>2, OrderLength
<1> QED  BY <1>1, <1>2 DEF MarkedInv, FirstMarked

\* With SQLite, if whoever reports a failure has sent a record of the visit
\* before: a visit whose first report says that it was interrupted has its
\* row in incomplete_visits, also when the report is that of a Finalize
\* message that found the visit finalized already and wrote nothing itself.
THEOREM InterruptedAlwaysMarked ==
  ASSUME Provider = "sqlite", FailuresFollowRecords
  PROVE  Spec => []InterruptedIsMarked
<1>1. FullInv /\ FullInv' /\ MarkedInv /\ [Next]_vars => MarkedInv'
  BY NextFullInv, MarkedInvStep
<1>2. FullInv /\ MarkedInv => InterruptedIsMarked
  BY MarkedReports DEF FullInv, IInv
<1> QED  BY <1>1, <1>2, InitFullInv, NextFullInv, InitMarkedInv, PTL DEF Spec

----------------------------------------------------------------------------
(* The survival of the handlers. *)

\* The step takes no handler down.
Alive == \A d \in Conns : pc[d] # "dead" => pc'[d] # "dead"

\* If the visit of a Finalize message is nobody else's, its handler is the
\* only one to await its tasks.
LEMMA LoneJoiner ==
  ASSUME TypeInv, HandlerShape, Harmonious, pc[Main] = "serving",
         NEW c \in Conns, NEW i \in Nat, IsFinalize(c, i)
  PROVE  Joiners(stream[c][i].visit) \subseteq {c}
<1> SUFFICES ASSUME NEW q \in Procs, pc[q] = "join",
                    Subject(q) = stream[c][i].visit
             PROVE  q = c
  BY DEF Joiners
<1>1. q # Main /\ q \in Conns
  BY DEF Procs
<1>2. IsFinalize(q, read[q]) /\ stream[q][read[q]].visit = stream[c][i].visit
  BY <1>1 DEF HandlerShape, Subject, Current
<1>3. <<q, read[q]>> = <<c, i>>
  BY <1>1, <1>2 DEF Harmonious, IsFinalize
<1> QED  BY <1>3

LEMMA CompleteAlive ==
  ASSUME TypeInv, HandlerShape, Harmonious, pc[Main] = "serving",
         Provider = "sqlite" \/ ~WritesMayFail,
         NEW c \in Conns, NEW i \in Nat, IsFinalize(c, i), NEW success, NEW by,
         Complete(c, stream[c][i].visit, success, by)
  PROVE  Alive
<1> DEFINE v == stream[c][i].visit
<1>1. Joiners(v) \ {c} = {}
  BY LoneJoiner
<1>2. c \in Procs /\ Conns \subseteq Procs /\ c # Main
  BY MainAssumption DEF Procs
<1> HIDE DEF v
<1>3. \/ Return(c, v, success, by, TRUE, {})
      \/ pc' = Moved(c, "locked", {})
  BY <1>1, ProviderAssumption DEF Complete, FinalizeSqlite, FinalizeArrow, v
<1> QED  BY <1>2, <1>3 DEF Return, Moved, Alive

LEMMA ReadAlive ==
  ASSUME TypeInv, HandlerShape, Harmonious, failed = {}, pc[Main] = "serving",
         Provider = "sqlite" \/ ~WritesMayFail, NEW c \in Conns, Read(c)
  PROVE  Alive
<1>0. /\ c \in Procs /\ Conns \subseteq Procs /\ c # Main
      /\ pc \in [Procs -> States] /\ read[c] + 1 \in 1..Len(stream[c])
      /\ read[c] + 1 \in Nat /\ NextMsg(c) = stream[c][read[c] + 1]
  BY MainAssumption
     DEF Procs, TypeInv, TypeOK, Read, ReadRecord, ReadSkip, ReadFatal,
         ReadFinalize, HasMessage, NextMsg
<1>1. CASE ReadRecord(c) \/ ReadSkip(c)
  BY <1>1 DEF ReadRecord, ReadSkip, Alive
<1>2. CASE ReadFatal(c)
  BY <1>0, <1>2 DEF ReadFatal, Harmonious
<1>3. CASE ReadFinalize(c)
  <2> DEFINE m == NextMsg(c)
             by == <<c, read[c] + 1>>
  <2>1. IsFinalize(c, read[c] + 1) /\ Finalize(c, m.visit, m.success, by)
    BY <1>0, <1>3 DEF ReadFinalize, IsFinalize
  <2>2. CASE Complete(c, m.visit, m.success, by)
    BY <1>0, <2>1, <2>2, CompleteAlive
  <2>3. CASE Return(c, m.visit, m.success, by, FALSE, {})
    BY <1>0, <2>3 DEF Return, Moved, Alive
  <2>4. CASE pc' = [pc EXCEPT ![c] = "join"]
    BY <1>0, <2>4 DEF Alive
  <2>5. ~(store_record_tasks[m.visit] \cap failed # {})
    OBVIOUS
  <2> HIDE DEF m, by
  <2> QED  BY <2>1, <2>2, <2>3, <2>4, <2>5 DEF Finalize
<1> QED  BY <1>1, <1>2, <1>3 DEF Read

LEMMA ResumeAlive ==
  ASSUME TypeInv, HandlerShape, Harmonious, failed = {}, pc[Main] = "serving",
         Provider = "sqlite" \/ ~WritesMayFail, NEW p \in Procs, Resume(p)
  PROVE  Alive
<1>1. p # Main /\ p \in Conns /\ IsFinalize(p, read[p]) /\ read[p] \in Nat
  BY DEF Resume, Procs, HandlerShape, TypeInv, TypeOK
<1>2. Subject(p) = stream[p][read[p]].visit
  BY <1>1 DEF Subject, Current
<1>3. PICK success, by : Complete(p, stream[p][read[p]].visit, success, by)
  BY <1>1, <1>2 DEF Resume
<1> QED  BY <1>1, <1>3, CompleteAlive

LEMMA NextAlive ==
  ASSUME TypeInv, HandlerShape, Harmonious, failed = {}, pc[Main] = "serving",
         Provider = "sqlite" \/ ~WritesMayFail,
         pc'[Main] = "serving", [Next]_vars
  PROVE  Alive
<1>0. pc \in [Procs -> States] /\ Main \in Procs /\ Conns \subseteq Procs
  BY DEF TypeInv, TypeOK, Procs
<1>1. CASE RunTask \/ Feed \/ FeederEnds \/ Timeout \/ SendShutdown \/ UNCHANGED vars
  BY <1>1 DEF RunTask, Feed, FeederEnds, Timeout, SendShutdown, vars, Alive
<1>2. ~Shutdown
  BY <1>0 DEF Shutdown, BeginShutdown, ShutdownFinalize, ShutdownFlush,
              ShutdownResume, ShutdownReport, ShutdownEnds
<1> QED  BY <1>1, <1>2, ReadAlive, ResumeAlive DEF Next

\* Only a record for a table unknown to the Arrow provider makes a task fail.
LEMMA NextFailed ==
  ASSUME TypeInv, TasksScheduled, Harmonious, failed = {}, [Next]_vars
  PROVE  failed' = {}
<1>1. CASE RunTask
  <2> DEFINE x == Head(ready)
  <2>1. ready # <<>> /\ x \in Scheduled
    <3>1. ready # <<>> /\ ready \in Seq(Records)
      BY <1>1 DEF RunTask, TypeInv, TypeOK
    <3>2. 1 \in 1..Len(ready) /\ x = ready[1]
      BY <3>1
    <3> QED  BY <3>1, <3>2 DEF Scheduled
  <2>2. x[1] \in Conns /\ x[2] \in 1..read[x[1]]
    BY <2>1, ScheduledVisits
  <2>3. x[2] \in 1..Len(stream[x[1]])
    BY <2>2, ReadVisits
  <2>4. MsgOf(x).type \in {"record", "alien"}
    BY <2>1 DEF TasksScheduled
  <2>5. MsgOf(x).type = "record" \/ Provider = "sqlite"
    BY <2>2, <2>3, <2>4 DEF Harmonious, MsgOf
  <2> QED  BY <1>1, <2>5 DEF RunTask
<1>2. CASE UNCHANGED failed
  BY <1>2
<1>3. ASSUME NEW c \in Conns, Read(c)
      PROVE  UNCHANGED failed
  BY <1>3 DEF Read, ReadRecord, ReadSkip, ReadFatal, ReadFinalize, loop
<1>4. ASSUME NEW p \in Procs, Resume(p)
      PROVE  UNCHANGED failed
  BY <1>4 DEF Resume
<1>5. CASE Feed \/ FeederEnds \/ Timeout \/ SendShutdown \/ Shutdown \/ UNCHANGED vars
  BY <1>5 DEF Feed, FeederEnds, Timeout, SendShutdown, Shutdown, BeginShutdown,
              ShutdownFinalize, ShutdownFlush, ShutdownResume, ShutdownReport,
              ShutdownEnds, vars, loop
<1> QED  BY <1>1, <1>2, <1>3, <1>4, <1>5 DEF Next

LEMMA SurvivalStep ==
  ASSUME FullInv, FateKinds, SurvivalInv, [Next]_vars,
         Provider = "sqlite" \/ ~WritesMayFail
  PROVE  SurvivalInv'
<1>0. TypeInv /\ HandlerShape /\ TasksScheduled /\ MainMoves /\ UNCHANGED stream
  BY NextMain DEF FullInv, FatesInv, IInv, FateKinds
<1>1. Harmonious' <=> Harmonious
  BY <1>0 DEF Harmonious
<1>2. Harmonious => failed' = {}
  BY <1>0, NextFailed DEF SurvivalInv
<1>3. Harmonious /\ pc'[Main] = "serving" => \A c \in Conns : pc'[c] # "dead"
  BY <1>0, PhaseMoves, NextAlive DEF SurvivalInv, Alive
<1> QED  BY <1>1, <1>2, <1>3 DEF SurvivalInv

LEMMA InitSurvival == Init => SurvivalInv
BY MainAssumption DEF Init, SurvivalInv, Procs

\* If no message asks for what the provider cannot do, no two Finalize
\* messages are for one visit, and the writes of the Arrow provider succeed,
\* no handler is lost to an exception while the controller serves: neither
\* the shared task lists nor the lock of the provider take one down.
THEOREM HandlersAlwaysSurvive ==
  ASSUME Provider = "sqlite" \/ ~WritesMayFail
  PROVE  Spec => []HandlersSurvive
<1>1. FullInv /\ FateKinds /\ SurvivalInv /\ [Next]_vars => SurvivalInv'
  BY SurvivalStep
<1>2. SurvivalInv => HandlersSurvive
  BY DEF SurvivalInv, HandlersSurvive
<1> QED  BY <1>1, <1>2, InitFullInv, NextFullInv, InitSurvival, PTL DEF Spec
============================================================================
