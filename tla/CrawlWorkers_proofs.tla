------------------------ MODULE CrawlWorkers_proofs ------------------------
(***************************************************************************)
(* Invariance proofs about CrawlWorkers, for any number of jobs, workers,  *)
(* crashes and signals.                                                    *)
(*                                                                         *)
(* A list matters through two things only: that no job is in it twice, and *)
(* which jobs are in it.  The first part says what each operation on lists *)
(* does to these, the second what each command of RedisWQ does to the two  *)
(* lists of the queue; then the conjuncts of the inductive invariant are   *)
(* taken one by one.                                                       *)
(***************************************************************************)
EXTENDS CrawlWorkers, SequenceTheorems, FiniteSetTheorems,
        WellFoundedInduction, TLAPS

Main == Elements(main_q)
Processing == Elements(processing)

\* The lists hold a job at most once.
ListsDistinct ==
  /\ Distinct(main_q) /\ Distinct(processing)
  /\ Main \cap Processing = {}

\* No job of the crawl is forgotten.
JobsKept == \A j \in Elements(Contents) : j \in Main \cup Processing \/ Settled(j)

\* What a thread relies on at each place.
ThreadsReady ==
  \A w \in Workers :
    /\ place[w] \in {"scan", "watch", "transact", "renew", "extend"} =>
         todo[w] # <<>>
    /\ place[w] = "grant" => job[w] \in Jobs
    /\ callback[w] # "idle" => /\ saving[w] \in completed
                               /\ saving[w] \in Elements(unsaved[w])

\* A transaction whose WATCH holds finds its job in the processing list.
WatchMeansListed ==
  \A w \in Workers :
    place[w] = "transact" /\ watch[w] => Head(todo[w]) \in Processing

\* The retry count of a job keeps up with the leases it was given.
AttemptsCounted ==
  \A j \in Jobs : j \notin completed =>
    /\ j \in Main => attempts[j] <= retries[j]
    /\ j \in Processing => attempts[j] <= retries[j] + 1
    /\ attempts[j] <= MaxRetries + 1

\* Somebody is about to look at the main list as long as a job waits there,
\* and nobody leaves from the second look if a job is being worked on.
SomebodyLooks ==
  Crashed \cup Signalled = {} =>
    /\ (\E j \in Main : ~Settled(j)) =>
         \E w \in Workers : place[w] \notin {"empty", "closing", "done"}
    /\ (\E j \in Elements(Contents) : ~Settled(j)) =>
         \E w \in Workers : place[w] \notin {"closing", "done"}

IInv ==
  /\ TypeOK
  /\ ListsDistinct
  /\ JobsKept
  /\ ThreadsReady
  /\ WatchMeansListed
  /\ AttemptsCounted
  /\ SomebodyLooks

----------------------------------------------------------------------------
(* Lists. *)

LEMMA AppendList ==
  ASSUME NEW S, NEW s \in Seq(S), NEW x \in S
  PROVE  /\ Append(s, x) \in Seq(S)
         /\ Elements(Append(s, x)) = Elements(s) \cup {x}
         /\ Distinct(s) /\ x \notin Elements(s) => Distinct(Append(s, x))
<1> DEFINE t == Append(s, x)
<1>1. /\ t \in Seq(S) /\ Len(s) \in Nat /\ Len(t) = Len(s) + 1
      /\ \A i \in 1..Len(s) : t[i] = s[i]
      /\ t[Len(s) + 1] = x
  BY AppendProperties
<1> HIDE DEF t
<1>2. \A i \in 1..Len(t) : i \in 1..Len(s) \/ i = Len(s) + 1
  BY <1>1
<1>3. 1..Len(s) \subseteq 1..Len(t) /\ Len(s) + 1 \in 1..Len(t)
  BY <1>1
<1>4. Elements(t) = Elements(s) \cup {x}
  BY <1>1, <1>2, <1>3 DEF Elements
<1>5. ASSUME Distinct(s), x \notin Elements(s)
      PROVE  Distinct(t)
  BY <1>1, <1>2, <1>5 DEF Distinct, Elements
<1> QED  BY <1>1, <1>4, <1>5 DEF t

LEMMA ConsList ==
  ASSUME NEW S, NEW s \in Seq(S), NEW x \in S
  PROVE  /\ <<x>> \o s \in Seq(S)
         /\ Elements(<<x>> \o s) = Elements(s) \cup {x}
         /\ Distinct(s) /\ x \notin Elements(s) => Distinct(<<x>> \o s)
<1> DEFINE t == <<x>> \o s
<1>1. /\ t \in Seq(S) /\ Len(s) \in Nat /\ Len(t) = Len(s) + 1
      /\ t[1] = x
      /\ \A i \in 2..Len(s) + 1 : t[i] = s[i - 1]
  <2>1. <<x>> \in Seq(S) /\ Len(<<x>>) = 1 /\ <<x>>[1] = x
    OBVIOUS
  <2>2. Len(s) \in Nat
    OBVIOUS
  <2> QED  BY <2>1, <2>2, ConcatProperties
<1> HIDE DEF t
<1>2. \A i \in 1..Len(t) : i = 1 \/ (i \in 2..Len(s) + 1 /\ i - 1 \in 1..Len(s))
  BY <1>1
<1>3. /\ 1 \in 1..Len(t)
      /\ \A i \in 1..Len(s) : i + 1 \in 1..Len(t) /\ t[i + 1] = s[i]
  <2> SUFFICES ASSUME NEW i \in 1..Len(s)
               PROVE  i + 1 \in 1..Len(t) /\ t[i + 1] = s[i]
    BY <1>1
  <2>1. i + 1 \in 2..Len(s) + 1 /\ (i + 1) - 1 = i
    BY <1>1
  <2> QED  BY <1>1, <2>1
<1>4. Elements(t) = Elements(s) \cup {x}
  <2>1. Elements(t) \subseteq Elements(s) \cup {x}
    BY <1>1, <1>2 DEF Elements
  <2>2. Elements(s) \cup {x} \subseteq Elements(t)
    BY <1>1, <1>3 DEF Elements
  <2> QED  BY <2>1, <2>2
<1>5. ASSUME Distinct(s), x \notin Elements(s)
      PROVE  Distinct(t)
  <2> SUFFICES ASSUME NEW i \in 1..Len(t), NEW k \in 1..Len(t), t[i] = t[k]
               PROVE  i = k
    BY DEF Distinct
  <2>1. \A n \in 2..Len(s) + 1 : n - 1 \in 1..Len(s) /\ t[n] \in Elements(s)
    BY <1>1 DEF Elements
  <2>2. CASE i = 1 \/ k = 1
    BY <1>1, <1>2, <1>5, <2>1, <2>2
  <2>3. CASE i # 1 /\ k # 1
    <3>1. /\ i - 1 \in 1..Len(s) /\ k - 1 \in 1..Len(s)
          /\ s[i - 1] = s[k - 1]
      BY <1>1, <1>2, <2>3
    <3>2. i - 1 = k - 1
      BY <1>5, <3>1 DEF Distinct
    <3> QED  BY <3>2
  <2> QED  BY <2>2, <2>3
<1> QED  BY <1>1, <1>4, <1>5 DEF t

\* What is left of a list without its i-th item.
LEMMA WithoutItem ==
  ASSUME NEW S, NEW s \in Seq(S), NEW i \in 1..Len(s)
  PROVE  LET t == SubSeq(s, 1, i - 1) \o SubSeq(s, i + 1, Len(s))
         IN  /\ t \in Seq(S)
             /\ Len(t) = Len(s) - 1
             /\ \A k \in 1..Len(s) - 1 : t[k] = IF k < i THEN s[k] ELSE s[k + 1]
<1> DEFINE a == SubSeq(s, 1, i - 1)
           b == SubSeq(s, i + 1, Len(s))
<1>0. i \in Nat /\ Len(s) \in Nat /\ 1 <= i /\ i <= Len(s)
  OBVIOUS
<1>1. a \in Seq(S) /\ Len(a) = i - 1 /\ \A k \in 1..(i - 1) : a[k] = s[k]
  OBVIOUS
<1>2. /\ b \in Seq(S) /\ Len(b) = Len(s) - i
      /\ \A k \in 1..(Len(s) - i) : b[k] = s[i + k]
  OBVIOUS
<1> HIDE DEF a, b
<1>3. /\ a \o b \in Seq(S) /\ Len(a \o b) = Len(s) - 1
      /\ \A k \in 1..Len(s) - 1 :
           (a \o b)[k] = IF k <= i - 1 THEN a[k] ELSE b[k - (i - 1)]
  <2>1. Len(a) + Len(b) = Len(s) - 1 /\ Len(a) = i - 1
    BY <1>0, <1>1, <1>2
  <2>2. /\ a \o b \in Seq(S) /\ Len(a \o b) = Len(a) + Len(b)
        /\ \A k \in 1..Len(a) + Len(b) :
             (a \o b)[k] = IF k <= Len(a) THEN a[k] ELSE b[k - Len(a)]
    BY <1>1, <1>2, ConcatProperties
  <2> QED  BY <2>1, <2>2
<1>4. ASSUME NEW k \in 1..Len(s) - 1
      PROVE  (a \o b)[k] = IF k < i THEN s[k] ELSE s[k + 1]
  <2>1. CASE k < i
    <3>1. k \in 1..(i - 1) /\ k <= i - 1
      BY <1>0, <2>1
    <3> QED  BY <1>1, <1>3, <2>1, <3>1
  <2>2. CASE ~(k < i)
    <3>1. k - (i - 1) \in 1..(Len(s) - i) /\ ~(k <= i - 1)
      BY <1>0, <2>2
    <3>2. i + (k - (i - 1)) = k + 1
      BY <1>0
    <3> QED  BY <1>2, <1>3, <2>2, <3>1, <3>2
  <2> QED  BY <2>1, <2>2
<1> QED  BY <1>3, <1>4 DEF a, b
\* A set of numbers that is not empty has a least one.
LEMMA LeastNumber ==
  ASSUME NEW T \in SUBSET Nat, T # {}
  PROVE  \E x \in T : \A y \in T : ~(y < x)
<1> DEFINE R == OpToRel(<, Nat)
<1>1. \E x \in T : \A y \in T : <<y, x>> \notin R
  BY NatLessThanWellFounded, WFMin, Zenon
<1>2. \A x, y \in Nat : <<y, x>> \in R <=> y < x
  BY Zenon DEF OpToRel
<1> QED  BY <1>1, <1>2

LEMMA RemovedList ==
  ASSUME NEW S, NEW s \in Seq(S), NEW x \in Elements(s)
  PROVE  /\ Removed(s, x) \in Seq(S)
         /\ Distinct(s) => /\ Elements(Removed(s, x)) = Elements(s) \ {x}
                           /\ Distinct(Removed(s, x))
<1> DEFINE First(k) == s[k] = x /\ \A l \in 1..k - 1 : s[l] # x
           i == CHOOSE k \in 1..Len(s) : First(k)
           t == Removed(s, x)
<1>0. Len(s) \in Nat
  OBVIOUS
<1>1. \E k \in 1..Len(s) : First(k)
  <2> DEFINE T == {k \in 1..Len(s) : s[k] = x}
  <2>1. T \in SUBSET Nat /\ T # {}
    BY DEF Elements
  <2>2. PICK k \in T : \A l \in T : ~(l < k)
    BY <2>1, LeastNumber
  <2>3. ASSUME NEW l \in 1..k - 1, s[l] = x
        PROVE  FALSE
    BY <1>0, <2>2, <2>3
  <2> QED  BY <2>2, <2>3
<1>2. i \in 1..Len(s) /\ First(i)
  BY <1>1
<1>3. t = SubSeq(s, 1, i - 1) \o SubSeq(s, i + 1, Len(s))
  BY DEF Removed
<1> HIDE DEF i, t
<1>4. /\ t \in Seq(S) /\ Len(t) = Len(s) - 1
      /\ \A k \in 1..Len(s) - 1 : t[k] = IF k < i THEN s[k] ELSE s[k + 1]
  BY <1>2, <1>3, WithoutItem
<1>5. ASSUME Distinct(s)
      PROVE  Elements(t) = Elements(s) \ {x} /\ Distinct(t)
  <2>1. ASSUME NEW k \in 1..Len(t)
        PROVE  t[k] \in Elements(s) \ {x}
    <3>1. CASE k < i
      BY <1>0, <1>2, <1>4, <3>1 DEF Elements
    <3>2. CASE ~(k < i)
      <4>1. k + 1 \in 1..Len(s) /\ k + 1 # i
        BY <1>0, <1>2, <1>4, <3>2
      <4>2. t[k] = s[k + 1]
        BY <1>4, <3>2
      <4> QED  BY <1>2, <1>5, <4>1, <4>2 DEF Elements, Distinct
    <3> QED  BY <3>1, <3>2
  <2>2. ASSUME NEW k \in 1..Len(s), s[k] # x
        PROVE  s[k] \in Elements(t)
    <3>1. k # i
      BY <1>2, <2>2
    <3>2. CASE k < i
      <4>1. k \in 1..Len(t) /\ t[k] = s[k]
        BY <1>0, <1>2, <1>4, <3>2
      <4> QED  BY <4>1 DEF Elements
    <3>3. CASE k > i
      <4>1. k - 1 \in 1..Len(t) /\ ~(k - 1 < i) /\ (k - 1) + 1 = k
        BY <1>0, <1>2, <1>4, <3>3
      <4>2. t[k - 1] = s[k]
        BY <1>4, <4>1
      <4> QED  BY <4>1, <4>2 DEF Elements
    <3> QED  BY <1>0, <1>2, <3>1, <3>2, <3>3
  <2>3. Distinct(t)
    <3> SUFFICES ASSUME NEW k \in 1..Len(t), NEW l \in 1..Len(t), t[k] = t[l]
                 PROVE  k = l
      BY DEF Distinct
    <3> DEFINE Old(n) == IF n < i THEN n ELSE n + 1
    <3>1. \A n \in 1..Len(t) : Old(n) \in 1..Len(s) /\ t[n] = s[Old(n)]
      BY <1>0, <1>2, <1>4
    <3>2. Old(k) = Old(l)
      <4> HIDE DEF Old
      <4> QED  BY <1>5, <3>1 DEF Distinct
    <3> QED  BY <1>0, <1>2, <3>2
  <2> QED  BY <2>1, <2>2, <2>3 DEF Elements
<1> QED  BY <1>4, <1>5 DEF t

LEMMA WithoutList ==
  ASSUME NEW S, NEW s \in Seq(S), NEW x, Distinct(s)
  PROVE  /\ Without(s, x) \in Seq(S)
         /\ Elements(Without(s, x)) = Elements(s) \ {x}
         /\ Distinct(Without(s, x))
<1>1. CASE x \in Elements(s)
  BY <1>1, RemovedList DEF Without
<1>2. CASE x \notin Elements(s)
  BY <1>2 DEF Without
<1> QED  BY <1>1, <1>2

\* A list without its last item.
LEMMA FrontList ==
  ASSUME NEW S, NEW s \in Seq(S), s # <<>>, Distinct(s)
  PROVE  LET t == SubSeq(s, 1, Len(s) - 1)
         IN  /\ t \in Seq(S)
             /\ Elements(t) = Elements(s) \ {s[Len(s)]}
             /\ Distinct(t)
             /\ s[Len(s)] \in Elements(s)
<1> DEFINE t == SubSeq(s, 1, Len(s) - 1)
<1>0. Len(s) \in Nat /\ Len(s) > 0
  OBVIOUS
<1>1. /\ t \in Seq(S) /\ Len(t) = Len(s) - 1
      /\ \A k \in 1..Len(s) - 1 : t[k] = s[k]
  <2>1. Len(s) - 1 \in Int /\ \A k \in 1..Len(s) - 1 : s[k] \in S
    BY <1>0
  <2>2. /\ t \in Seq(S)
        /\ Len(t) = IF 1 <= Len(s) - 1 THEN (Len(s) - 1) - 1 + 1 ELSE 0
        /\ \A k \in 1..(Len(s) - 1) - 1 + 1 : t[k] = s[1 + k - 1]
    BY <2>1, SubSeqProperties
  <2> HIDE DEF t
  <2>3. \A k \in 1..Len(s) - 1 : 1 + k - 1 = k /\ k \in 1..(Len(s) - 1) - 1 + 1
    BY <1>0
  <2>4. ASSUME NEW k \in 1..Len(s) - 1
        PROVE  t[k] = s[k]
    <3>1. /\ k \in 1..(Len(s) - 1) - 1 + 1
          /\ 1 + k - 1 = k
      BY <2>3
    <3>2. t[k] = s[1 + k - 1]
      BY <2>2, <3>1
    <3> QED  BY <3>1, <3>2
  <2>5. Len(t) = Len(s) - 1
    <3>1. ASSUME NEW n \in Nat, n > 0
          PROVE  (IF 1 <= n - 1 THEN (n - 1) - 1 + 1 ELSE 0) = n - 1
      BY <3>1
    <3> QED  BY <1>0, <2>2, <3>1
  <2> QED  BY <2>2, <2>4, <2>5
<1> HIDE DEF t
<1>2. 1..Len(t) \subseteq 1..Len(s) /\ Len(s) \in 1..Len(s) /\ Len(s) \notin 1..Len(t)
  BY <1>0, <1>1
<1>3. \A k \in 1..Len(s) : k = Len(s) \/ k \in 1..Len(t)
  BY <1>0, <1>1
<1>4. Distinct(t)
  BY <1>1, <1>2 DEF Distinct
<1>5. Elements(t) \subseteq Elements(s) \ {s[Len(s)]}
  <2> SUFFICES ASSUME NEW k \in 1..Len(t)
               PROVE  t[k] \in Elements(s) \ {s[Len(s)]}
    BY DEF Elements
  <2>1. k \in 1..Len(s) /\ k # Len(s) /\ t[k] = s[k]
    BY <1>1, <1>2
  <2>2. s[k] # s[Len(s)]
    BY <1>2, <2>1 DEF Distinct
  <2> QED  BY <2>1, <2>2 DEF Elements
<1>6. Elements(s) \ {s[Len(s)]} \subseteq Elements(t)
  <2> SUFFICES ASSUME NEW k \in 1..Len(s), s[k] # s[Len(s)]
               PROVE  s[k] \in Elements(t)
    BY DEF Elements
  <2>1. k \in 1..Len(t) /\ t[k] = s[k]
    BY <1>1, <1>3
  <2> QED  BY <2>1 DEF Elements
<1>7. s[Len(s)] \in Elements(s)
  BY <1>2 DEF Elements
<1> QED  BY <1>1, <1>4, <1>5, <1>6, <1>7 DEF t

----------------------------------------------------------------------------
(* The commands of RedisWQ. *)

\* What a command that keeps watch may leave of the watches.
WatchKept ==
  \A w \in Workers : watch'[w] => watch[w] /\ UNCHANGED <<processing, retries>>

LEMMA KeepWatchFacts ==
  ASSUME KeepWatch
  PROVE  watch' \in [Workers -> BOOLEAN] /\ WatchKept
BY DEF KeepWatch, WatchKept

LEMMA PopFacts ==
  ASSUME TypeOK, ListsDistinct, NEW j, Pop(j)
  PROVE  /\ j \in Main /\ j \in Jobs
         /\ main_q' \in Seq(Jobs) /\ processing' \in Seq(Jobs)
         /\ Main' = Main \ {j} /\ Processing' = Processing \cup {j}
         /\ ListsDistinct'
<1>1. /\ main_q \in Seq(Jobs) /\ processing \in Seq(Jobs)
      /\ Distinct(main_q) /\ Distinct(processing)
  BY DEF TypeOK, ListsDistinct
<1>2. /\ main_q' \in Seq(Jobs) /\ Main' = Main \ {j} /\ Distinct(main_q')
      /\ j \in Main
  BY <1>1, FrontList DEF Pop, Main
<1>3. j \in Jobs
  BY <1>1, <1>2 DEF Main, Elements
<1>4. j \notin Processing
  BY <1>2 DEF ListsDistinct
<1>5. /\ processing' \in Seq(Jobs) /\ Processing' = Processing \cup {j}
      /\ Distinct(processing')
  BY <1>1, <1>3, <1>4, ConsList DEF Pop, Processing
<1> QED  BY <1>2, <1>3, <1>5 DEF ListsDistinct

LEMMA RemoveFacts ==
  ASSUME TypeOK, ListsDistinct, NEW j, processing' = Without(processing, j),
         UNCHANGED main_q
  PROVE  /\ processing' \in Seq(Jobs) /\ Processing' = Processing \ {j}
         /\ ListsDistinct'
<1>1. processing \in Seq(Jobs) /\ Distinct(processing)
  BY DEF TypeOK, ListsDistinct
<1>2. /\ processing' \in Seq(Jobs) /\ Processing' = Processing \ {j}
      /\ Distinct(processing')
  BY <1>1, WithoutList DEF Processing
<1> QED  BY <1>2 DEF ListsDistinct, Main

LEMMA RequeueFacts ==
  ASSUME TypeOK, ListsDistinct, NEW j \in Processing, Requeue(j)
  PROVE  /\ main_q' \in Seq(Jobs) /\ processing' \in Seq(Jobs)
         /\ Main' = Main \cup {j} /\ Processing' = Processing \ {j}
         /\ ListsDistinct'
<1>1. /\ main_q \in Seq(Jobs) /\ processing \in Seq(Jobs)
      /\ Distinct(main_q) /\ Distinct(processing)
  BY DEF TypeOK, ListsDistinct
<1>2. j \in Jobs /\ j \notin Main
  BY <1>1 DEF Processing, Elements, ListsDistinct
<1>3. /\ main_q' \in Seq(Jobs) /\ Main' = Main \cup {j} /\ Distinct(main_q')
  BY <1>1, <1>2, AppendList DEF Requeue, Main
<1>4. /\ processing' \in Seq(Jobs) /\ Processing' = Processing \ {j}
      /\ Distinct(processing')
  BY <1>1, WithoutList DEF Requeue, Processing
<1> QED  BY <1>3, <1>4 DEF ListsDistinct
----------------------------------------------------------------------------
(* Types, and what the threads rely on. *)

LEMMA LoopFacts ==
  ASSUME TypeOK, NEW w \in Workers, NEW s \in Seq(Jobs),
         NEW p \in Positions, NEW q \in Positions, Loop(w, s, p, q)
  PROVE  /\ todo' \in [Workers -> Seq(Jobs)] /\ place' \in [Workers -> Positions]
         /\ \/ place'[w] = q
            \/ place'[w] = p /\ todo'[w] # <<>>
         /\ \A v \in Workers \ {w} : place'[v] = place[v] /\ todo'[v] = todo[v]
BY DEF Loop, Goto, TypeOK

LEMMA HeadTail ==
  ASSUME NEW s \in Seq(Jobs), s # <<>>
  PROVE  Head(s) \in Jobs /\ Tail(s) \in Seq(Jobs)
OBVIOUS

LEMMA NextExpiredFacts ==
  ASSUME TypeOK, NEW w \in Workers, todo[w] # <<>>, NextExpired(w)
  PROVE  /\ todo' \in [Workers -> Seq(Jobs)] /\ place' \in [Workers -> Positions]
         /\ \/ place'[w] = "lock"
            \/ place'[w] = "scan" /\ todo'[w] # <<>>
         /\ \A v \in Workers \ {w} : place'[v] = place[v] /\ todo'[v] = todo[v]
<1>1. Tail(todo[w]) \in Seq(Jobs)
  BY HeadTail DEF TypeOK
<1>2. "scan" \in Positions /\ "lock" \in Positions
  BY DEF Positions
<1> QED  BY <1>1, <1>2, LoopFacts DEF NextExpired

LEMMA NextUnsavedFacts ==
  ASSUME TypeOK, NEW w \in Workers, todo[w] # <<>>, NextUnsaved(w)
  PROVE  /\ todo' \in [Workers -> Seq(Jobs)] /\ place' \in [Workers -> Positions]
         /\ \/ place'[w] = "lease"
            \/ place'[w] = "renew" /\ todo'[w] # <<>>
         /\ \A v \in Workers \ {w} : place'[v] = place[v] /\ todo'[v] = todo[v]
<1>1. Tail(todo[w]) \in Seq(Jobs)
  BY HeadTail DEF TypeOK
<1>2. "renew" \in Positions /\ "lease" \in Positions
  BY DEF Positions
<1> QED  BY <1>1, <1>2, LoopFacts DEF NextUnsaved

\* The place and the loop of one worker may change, and nothing else that the
\* threads rely on.
LEMMA ThreadsStep ==
  ASSUME ThreadsReady, NEW w \in Workers,
         place'[w] \in {"scan", "watch", "transact", "renew", "extend"} =>
           todo'[w] # <<>>,
         place'[w] = "grant" => job'[w] \in Jobs,
         \A v \in Workers \ {w} :
           place'[v] = place[v] /\ todo'[v] = todo[v] /\ job'[v] = job[v],
         UNCHANGED <<callback, saving, completed>>,
         \A v \in Workers : Elements(unsaved[v]) \subseteq Elements(unsaved'[v])
  PROVE  ThreadsReady'
BY DEF ThreadsReady

LEMMA WatchStep ==
  ASSUME WatchMeansListed, NEW w \in Workers,
         WatchKept \/ UNCHANGED <<watch, processing>>,
         place'[w] = "transact" => /\ place[w] = "transact"
                                   /\ todo'[w] = todo[w],
         \A v \in Workers \ {w} : place'[v] = place[v] /\ todo'[v] = todo[v]
  PROVE  WatchMeansListed'
<1> SUFFICES ASSUME NEW v \in Workers, place'[v] = "transact", watch'[v]
             PROVE  Head(todo'[v]) \in Processing'
  BY DEF WatchMeansListed
<1>1. place[v] = "transact" /\ todo'[v] = todo[v]
  BY DEF WatchMeansListed
<1>2. watch[v] /\ UNCHANGED processing
  BY DEF WatchKept
<1> QED  BY <1>1, <1>2 DEF WatchMeansListed, Processing

ThreadInv == TypeOK /\ ListsDistinct /\ ThreadsReady /\ WatchMeansListed

LEMMA LookThreads ==
  ASSUME ThreadInv, NEW w \in Workers,
         CheckMain(w) \/ CheckProcessing(w) \/ Closed(w) \/ ListProcessing(w)
         \/ CheckLease(w)
  PROVE  TypeOK' /\ ThreadsReady' /\ WatchMeansListed'
<1> USE DEF ThreadInv
<1>0. UNCHANGED <<queue, job, back, past>>
  BY DEF CheckMain, CheckProcessing, Closed, ListProcessing, CheckLease
<1>1. CASE CheckMain(w) \/ CheckProcessing(w) \/ Closed(w)
  <2>1. /\ place' \in [Workers -> Positions] /\ UNCHANGED todo
        /\ place'[w] \in {"empty", "expired", "closing", "done"}
        /\ \A v \in Workers \ {w} : place'[v] = place[v]
    BY <1>1 DEF CheckMain, CheckProcessing, Closed, Goto, TypeOK, Positions
  <2>2. TypeOK'
    BY <1>0, <2>1 DEF TypeOK, queue, back, past
  <2>3. ThreadsReady'
    BY <1>0, <2>1, ThreadsStep DEF back, past
  <2>4. WatchMeansListed'
    BY <1>0, <2>1, WatchStep DEF queue
  <2> QED  BY <2>2, <2>3, <2>4
<1>2. CASE ListProcessing(w) \/ (CheckLease(w) /\ lease[Head(todo[w])] # NoWorker)
  <2>1. /\ todo' \in [Workers -> Seq(Jobs)] /\ place' \in [Workers -> Positions]
        /\ \/ place'[w] = "lock"
           \/ place'[w] = "scan" /\ todo'[w] # <<>>
        /\ \A v \in Workers \ {w} : place'[v] = place[v] /\ todo'[v] = todo[v]
    <3>1. CASE ListProcessing(w)
      BY <3>1, LoopFacts DEF ListProcessing, TypeOK, Positions
    <3>2. CASE CheckLease(w)
      BY <1>2, <3>2, NextExpiredFacts DEF CheckLease, ListProcessing, ThreadsReady
    <3> QED  BY <1>2, <3>1, <3>2
  <2>2. TypeOK'
    BY <1>0, <2>1 DEF TypeOK, queue, back, past
  <2>3. ThreadsReady'
    BY <1>0, <2>1, ThreadsStep DEF back, past
  <2>4. WatchMeansListed'
    BY <1>0, <2>1, WatchStep DEF queue
  <2> QED  BY <2>2, <2>3, <2>4
<1>3. CASE CheckLease(w) /\ lease[Head(todo[w])] = NoWorker
  <2>1. /\ place' \in [Workers -> Positions] /\ UNCHANGED todo
        /\ place[w] = "scan" /\ place'[w] = "watch"
        /\ \A v \in Workers \ {w} : place'[v] = place[v]
    BY <1>3 DEF CheckLease, Goto, TypeOK, Positions
  <2>2. TypeOK'
    BY <1>0, <2>1 DEF TypeOK, queue, back, past
  <2>3. ThreadsReady'
    <3>1. todo'[w] # <<>>
      BY <2>1 DEF ThreadsReady
    <3> QED  BY <1>0, <2>1, <3>1, ThreadsStep DEF back, past
  <2>4. WatchMeansListed'
    BY <1>0, <2>1, WatchStep DEF queue
  <2> QED  BY <2>2, <2>3, <2>4
<1> QED  BY <1>1, <1>2, <1>3
LEMMA WatchThreads ==
  ASSUME ThreadInv, NEW w \in Workers, WatchJob(w)
  PROVE  TypeOK' /\ ThreadsReady' /\ WatchMeansListed'
<1> USE DEF ThreadInv
<1>0. /\ UNCHANGED <<main_q, processing, retries, lease, job, back, past>>
      /\ place[w] = "watch" /\ todo[w] # <<>>
  BY DEF WatchJob, WatchKeys, queue, ThreadsReady
<1>1. CASE Head(todo[w]) \in Elements(processing)
  <2>1. /\ watch' = [watch EXCEPT ![w] = TRUE] /\ UNCHANGED todo
        /\ place' = [place EXCEPT ![w] = "transact"]
    BY <1>1 DEF WatchJob, WatchKeys, Goto
  <2>2. TypeOK'
    BY <1>0, <2>1 DEF TypeOK, back, past, Positions
  <2>3. ThreadsReady'
    <3>1. /\ place'[w] = "transact" /\ todo'[w] # <<>>
          /\ \A v \in Workers \ {w} :
               place'[v] = place[v] /\ todo'[v] = todo[v] /\ job'[v] = job[v]
      BY <1>0, <2>1 DEF TypeOK
    <3> QED  BY <1>0, <3>1, ThreadsStep DEF back, past
  <2>4. WatchMeansListed'
    BY <1>0, <1>1, <2>1 DEF WatchMeansListed, Processing, TypeOK
  <2> QED  BY <2>2, <2>3, <2>4
<1>2. CASE Head(todo[w]) \notin Elements(processing)
  <2>1. UNCHANGED queue /\ NextExpired(w)
    BY <1>2 DEF WatchJob
  <2>2. /\ todo' \in [Workers -> Seq(Jobs)] /\ place' \in [Workers -> Positions]
        /\ \/ place'[w] = "lock"
           \/ place'[w] = "scan" /\ todo'[w] # <<>>
        /\ \A v \in Workers \ {w} : place'[v] = place[v] /\ todo'[v] = todo[v]
    BY <1>0, <2>1, NextExpiredFacts
  <2>3. TypeOK'
    BY <1>0, <2>1, <2>2 DEF TypeOK, queue, back, past
  <2>4. ThreadsReady'
    BY <1>0, <2>2, ThreadsStep DEF back, past
  <2>5. WatchMeansListed'
    BY <2>1, <2>2, WatchStep DEF queue
  <2> QED  BY <2>3, <2>4, <2>5
<1> QED  BY <1>1, <1>2

\* A transaction has no effect, gives its job up, or returns it to the queue.
LEMMA TransactKinds ==
  ASSUME ThreadInv, NEW w \in Workers, Transact(w)
  PROVE  \/ UNCHANGED <<queue, given_up>>
         \/ \E j \in Processing : GiveUp(j) /\ given_up' = given_up \cup {j}
         \/ \E j \in Processing :
              /\ Requeue(j) /\ UNCHANGED given_up
              /\ retries[j] + 1 <= MaxRetries
<1> USE DEF ThreadInv
<1> DEFINE j == Head(todo[w])
<1>1. CASE ~watch[w]
  BY <1>1 DEF Transact
<1>2. CASE watch[w]
  <2>1. j \in Processing
    BY <1>2 DEF Transact, WatchMeansListed
  <2>2. j \in Jobs /\ retries[j] \in Nat /\ MaxRetries \in Nat
    BY <2>1, MaxRetriesAssumption, SMTT(60) DEF TypeOK, Processing, Elements
  <2>3. CASE Exhausted(j)
    <3>1. GiveUp(j) /\ given_up' = given_up \cup {j}
      BY <1>2, <2>3 DEF Transact
    <3> QED  BY <2>1, <3>1
  <2>4. CASE ~Exhausted(j)
    <3>1. Requeue(j) /\ UNCHANGED given_up
      BY <1>2, <2>4 DEF Transact
    <3>2. retries[j] + 1 <= MaxRetries
      BY <2>2, <2>4 DEF Exhausted
    <3> QED  BY <2>1, <3>1, <3>2
  <2> QED  BY <2>3, <2>4
<1> QED  BY <1>1, <1>2

LEMMA TransactThreads ==
  ASSUME ThreadInv, NEW w \in Workers, Transact(w)
  PROVE  TypeOK' /\ ThreadsReady' /\ WatchMeansListed'
<1> USE DEF ThreadInv
<1>0. /\ UNCHANGED <<job, back, completed, attempts>> /\ NextExpired(w)
      /\ todo[w] # <<>>
  BY DEF Transact, ThreadsReady
<1>1. /\ todo' \in [Workers -> Seq(Jobs)] /\ place' \in [Workers -> Positions]
      /\ \/ place'[w] = "lock"
         \/ place'[w] = "scan" /\ todo'[w] # <<>>
      /\ \A v \in Workers \ {w} : place'[v] = place[v] /\ todo'[v] = todo[v]
  BY <1>0, NextExpiredFacts
<1> DEFINE QueueTypes ==
             /\ main_q' \in Seq(Jobs) /\ processing' \in Seq(Jobs)
             /\ retries' \in [Jobs -> 0..MaxRetries]
             /\ UNCHANGED lease /\ watch' \in [Workers -> BOOLEAN]
             /\ given_up' \subseteq Jobs
             /\ WatchKept \/ UNCHANGED <<watch, processing>>
<1>2. QueueTypes
  <2>1. CASE UNCHANGED <<queue, given_up>>
    BY <2>1 DEF TypeOK, queue
  <2>2. ASSUME NEW j \in Processing, GiveUp(j), given_up' = given_up \cup {j}
        PROVE  QueueTypes
    <3>1. j \in Jobs
      BY DEF TypeOK, Processing, Elements
    <3>2. main_q' \in Seq(Jobs) /\ processing' \in Seq(Jobs)
      BY <2>2, RemoveFacts DEF GiveUp, TypeOK
    <3>3. watch' \in [Workers -> BOOLEAN] /\ WatchKept
      BY <2>2, KeepWatchFacts DEF GiveUp
    <3>4. retries' = [retries EXCEPT ![j] = 0] /\ UNCHANGED lease
      BY <2>2 DEF GiveUp
    <3>5. retries' \in [Jobs -> 0..MaxRetries]
      <4>1. 0 \in 0..MaxRetries
        BY MaxRetriesAssumption
      <4>2. retries \in [Jobs -> 0..MaxRetries]
        BY DEF TypeOK
      <4> QED  BY <3>4, <4>1, <4>2
    <3>6. given_up' \subseteq Jobs
      BY <2>2, <3>1 DEF TypeOK
    <3> QED  BY <3>2, <3>3, <3>4, <3>5, <3>6
  <2>3. ASSUME NEW j \in Processing, Requeue(j), UNCHANGED given_up,
               retries[j] + 1 <= MaxRetries
        PROVE  QueueTypes
    <3>1. j \in Jobs
      BY DEF TypeOK, Processing, Elements
    <3>2. main_q' \in Seq(Jobs) /\ processing' \in Seq(Jobs)
      BY <2>3, RequeueFacts
    <3>3. watch' \in [Workers -> BOOLEAN] /\ WatchKept
      BY <2>3, KeepWatchFacts DEF Requeue
    <3>4. retries' = [retries EXCEPT ![j] = @ + 1] /\ UNCHANGED lease
      BY <2>3 DEF Requeue
    <3>5. retries[j] + 1 \in 0..MaxRetries
      BY <2>3, <3>1, MaxRetriesAssumption DEF TypeOK
    <3>6. retries' \in [Jobs -> 0..MaxRetries]
      BY <3>1, <3>4, <3>5 DEF TypeOK
    <3> QED  BY <2>3, <3>2, <3>3, <3>4, <3>6 DEF TypeOK
  <2> QED  BY <2>1, <2>2, <2>3, TransactKinds
<1>3. TypeOK'
  BY <1>0, <1>1, <1>2 DEF TypeOK, back
<1>4. ThreadsReady'
  BY <1>0, <1>1, ThreadsStep DEF back
<1>5. WatchMeansListed'
  BY <1>1, <1>2, WatchStep
<1> QED  BY <1>3, <1>4, <1>5

LEMMA RenewThreads ==
  ASSUME ThreadInv, NEW w \in Workers,
         LockUnsaved(w) \/ CheckOwnLease(w) \/ ExtendLease(w)
  PROVE  TypeOK' /\ ThreadsReady' /\ WatchMeansListed'
<1> USE DEF ThreadInv
<1>0. /\ UNCHANGED <<main_q, processing, retries, watch, job, back, past>>
      /\ place[w] \in {"renew", "extend"} => todo[w] # <<>>
  BY DEF LockUnsaved, CheckOwnLease, ExtendLease, SetLease, queue, ThreadsReady
<1>1. lease' \in [Jobs -> Workers \cup {NoWorker}]
  <2>1. CASE ExtendLease(w)
    <3>1. Head(todo[w]) \in Jobs
      BY <1>0, <2>1, HeadTail DEF ExtendLease, TypeOK
    <3> QED  BY <2>1, <3>1 DEF ExtendLease, SetLease, TypeOK
  <2>2. CASE LockUnsaved(w) \/ CheckOwnLease(w)
    BY <2>2 DEF LockUnsaved, CheckOwnLease, queue, TypeOK
  <2> QED  BY <2>1, <2>2
<1>2. /\ todo' \in [Workers -> Seq(Jobs)] /\ place' \in [Workers -> Positions]
      /\ place'[w] \in {"lease", "renew", "extend"}
      /\ place'[w] \in {"renew", "extend"} => todo'[w] # <<>>
      /\ \A v \in Workers \ {w} : place'[v] = place[v] /\ todo'[v] = todo[v]
  <2>1. CASE LockUnsaved(w)
    <3>1. unsaved[w] \in Seq(Jobs) /\ "renew" \in Positions /\ "lease" \in Positions
      BY DEF TypeOK, Positions
    <3> QED  BY <2>1, <3>1, LoopFacts DEF LockUnsaved
  <2>2. CASE NextUnsaved(w) /\ todo[w] # <<>>
    BY <2>2, NextUnsavedFacts
  <2>3. CASE Goto(w, "extend") /\ UNCHANGED todo /\ todo[w] # <<>>
    BY <2>3 DEF Goto, TypeOK, Positions
  <2> QED  BY <1>0, <2>1, <2>2, <2>3 DEF CheckOwnLease, ExtendLease
<1>3. TypeOK'
  BY <1>0, <1>1, <1>2 DEF TypeOK, back, past
<1>4. ThreadsReady'
  BY <1>0, <1>2, ThreadsStep DEF back, past
<1>5. WatchMeansListed'
  BY <1>0, <1>2, WatchStep
<1> QED  BY <1>3, <1>4, <1>5

LEMMA LeaseThreads ==
  ASSUME ThreadInv, NEW w \in Workers, Lease(w)
  PROVE  TypeOK' /\ ThreadsReady' /\ WatchMeansListed'
<1> USE DEF ThreadInv
<1>0. UNCHANGED <<todo, back, completed, given_up>>
  BY DEF Lease
<1>1. CASE Goto(w, "loop") /\ UNCHANGED <<queue, job, attempts>>
  <2>1. TypeOK'
    BY <1>0, <1>1 DEF TypeOK, queue, back, Goto, Positions
  <2>2. /\ place'[w] = "loop"
        /\ \A v \in Workers \ {w} : place'[v] = place[v]
    BY <1>1 DEF Goto, TypeOK
  <2>3. ThreadsReady'
    BY <1>0, <1>1, <2>2, ThreadsStep DEF back
  <2>4. WatchMeansListed'
    BY <1>0, <1>1, <2>2, WatchStep DEF queue
  <2> QED  BY <2>1, <2>3, <2>4
<1>2. ASSUME NEW j \in Elements(main_q), Pop(j),
             job' = [job EXCEPT ![w] = j],
             attempts' = [attempts EXCEPT ![j] = Counted(@)],
             Goto(w, "grant")
      PROVE  TypeOK' /\ ThreadsReady' /\ WatchMeansListed'
  <2>1. j \in Jobs /\ main_q' \in Seq(Jobs) /\ processing' \in Seq(Jobs)
    BY <1>2, PopFacts
  <2>2. watch' \in [Workers -> BOOLEAN] /\ WatchKept
    BY <1>2, KeepWatchFacts DEF Pop
  <2>3. UNCHANGED <<retries, lease>>
    BY <1>2 DEF Pop
  <2>4. /\ place' \in [Workers -> Positions] /\ place'[w] = "grant"
        /\ \A v \in Workers \ {w} : place'[v] = place[v] /\ job'[v] = job[v]
        /\ job' \in [Workers -> Jobs \cup {NoJob}] /\ job'[w] = j
    BY <1>2, <2>1 DEF Goto, TypeOK, Positions
  <2>5. attempts' \in [Jobs -> 0..MaxAttempts]
    <3>1. ASSUME NEW n \in 0..MaxAttempts
          PROVE  Counted(n) \in 0..MaxAttempts
      BY BoundsAssumption DEF Counted
    <3> QED  BY <1>2, <3>1 DEF TypeOK
  <2>6. TypeOK'
    BY <1>0, <2>1, <2>2, <2>3, <2>4, <2>5 DEF TypeOK, back
  <2>7. ThreadsReady'
    BY <1>0, <2>1, <2>4, ThreadsStep DEF back
  <2>8. WatchMeansListed'
    BY <1>0, <2>2, <2>4, WatchStep
  <2> QED  BY <2>6, <2>7, <2>8
<1> QED  BY <1>1, <1>2 DEF Lease
LEMMA GrantThreads ==
  ASSUME ThreadInv, NEW w \in Workers, Grant(w) \/ Stop(w)
  PROVE  TypeOK' /\ ThreadsReady' /\ WatchMeansListed'
<1> USE DEF ThreadInv
<1>0. /\ UNCHANGED <<main_q, processing, retries, watch, todo>>
      /\ UNCHANGED <<callback, saving, past>>
  BY DEF Grant, Stop, SetLease, queue, back
<1>1. /\ place' \in [Workers -> Positions]
      /\ place'[w] \in {"loop", "stopped"}
      /\ \A v \in Workers \ {w} : place'[v] = place[v] /\ job'[v] = job[v]
      /\ job' \in [Workers -> Jobs \cup {NoJob}]
  BY DEF Grant, Stop, Goto, TypeOK, Positions
<1>2. /\ unsaved' \in [Workers -> Seq(Jobs)]
      /\ \A v \in Workers : Elements(unsaved[v]) \subseteq Elements(unsaved'[v])
      /\ lease' \in [Jobs -> Workers \cup {NoWorker}]
  <2>1. CASE Grant(w)
    <3>1. job[w] \in Jobs /\ unsaved[w] \in Seq(Jobs)
      BY <2>1 DEF Grant, ThreadsReady, TypeOK
    <3>2. /\ Append(unsaved[w], job[w]) \in Seq(Jobs)
          /\ Elements(unsaved[w]) \subseteq Elements(Append(unsaved[w], job[w]))
      BY <3>1, AppendList
    <3>3. /\ unsaved' = [unsaved EXCEPT ![w] = Append(unsaved[w], job[w])]
          /\ lease' = [lease EXCEPT ![job[w]] = w]
      BY <2>1 DEF Grant, SetLease
    <3>4. /\ unsaved'[w] = Append(unsaved[w], job[w])
          /\ \A v \in Workers \ {w} : unsaved'[v] = unsaved[v]
      BY <3>3 DEF TypeOK
    <3> QED  BY <3>1, <3>2, <3>3, <3>4 DEF TypeOK
  <2>2. CASE Stop(w)
    BY <2>2 DEF Stop, queue, back, TypeOK
  <2> QED  BY <2>1, <2>2
<1>3. TypeOK'
  BY <1>0, <1>1, <1>2 DEF TypeOK, past
<1>4. ThreadsReady'
  BY <1>0, <1>1, <1>2, ThreadsStep DEF past
<1>5. WatchMeansListed'
  BY <1>0, <1>1, WatchStep
<1> QED  BY <1>3, <1>4, <1>5

\* A worker that crashes or is told to stop forgets its loop.
LEMMA EndThreads ==
  ASSUME ThreadInv, NEW w \in Workers, Crash(w) \/ Signal(w)
  PROVE  TypeOK' /\ ThreadsReady' /\ WatchMeansListed'
<1> USE DEF ThreadInv
<1>0. UNCHANGED <<queue, past>>
  BY DEF Crash, Signal
<1>1. /\ place' \in [Workers -> Positions]
      /\ place'[w] \in {"crashed", "stuck", "stopping"}
      /\ \A v \in Workers \ {w} :
           place'[v] = place[v] /\ todo'[v] = todo[v] /\ job'[v] = job[v]
  BY DEF Crash, Signal, Goto, TypeOK, Positions
<1>2. /\ todo' \in [Workers -> Seq(Jobs)]
      /\ job' \in [Workers -> Jobs \cup {NoJob}]
      /\ saving' \in [Workers -> Jobs \cup {NoJob}]
      /\ unsaved' \in [Workers -> Seq(Jobs)]
      /\ callback' \in [Workers -> {"idle", "hdel", "delete"}]
      /\ \/ UNCHANGED <<callback, saving, unsaved>>
         \/ /\ callback'[w] = "idle"
            /\ \A v \in Workers \ {w} :
                 /\ callback'[v] = callback[v] /\ saving'[v] = saving[v]
                 /\ unsaved'[v] = unsaved[v]
  <2>1. <<>> \in Seq(Jobs)
    OBVIOUS
  <2>2. CASE Crash(w)
    <3>1. /\ todo' = [todo EXCEPT ![w] = <<>>]
          /\ unsaved' = [unsaved EXCEPT ![w] = <<>>]
          /\ callback' = [callback EXCEPT ![w] = "idle"]
          /\ job' = [job EXCEPT ![w] = NoJob]
          /\ saving' = [saving EXCEPT ![w] = NoJob]
      BY <2>2 DEF Crash
    <3>2. callback'[w] = "idle"
      BY <3>1 DEF TypeOK
    <3> QED  BY <2>1, <3>1, <3>2 DEF TypeOK
  <2>3. CASE Signal(w)
    <3>1. /\ todo' = [todo EXCEPT ![w] = <<>>]
          /\ job' = [job EXCEPT ![w] = NoJob]
          /\ UNCHANGED <<callback, saving, unsaved>>
      BY <2>3 DEF Signal, back
    <3> QED  BY <2>1, <3>1 DEF TypeOK
  <2> QED  BY <2>2, <2>3
<1>3. TypeOK'
  BY <1>0, <1>1, <1>2 DEF TypeOK, queue, past
<1>4. ThreadsReady'
  BY <1>0, <1>1, <1>2 DEF ThreadsReady, past
<1>5. WatchMeansListed'
  BY <1>0, <1>1, WatchStep DEF queue
<1> QED  BY <1>3, <1>4, <1>5

LEMMA CallbackThreads ==
  ASSUME ThreadInv, NEW w \in Workers, CallbackStep(w)
  PROVE  TypeOK' /\ ThreadsReady' /\ WatchMeansListed'
<1> USE DEF ThreadInv
<1>0. UNCHANGED <<work, main_q, given_up, attempts>>
  BY DEF CallbackStep, Interrupted, Saved, Forget, Completed, queue, past,
         RemoveJob, ForgetRetries, DropLease, SetLease
<1>1. ASSUME WatchKept \/ UNCHANGED <<watch, processing>>
      PROVE  WatchMeansListed'
  BY <1>0, <1>1, WatchStep DEF work
<1>2. ASSUME NEW j \in Elements(unsaved[w])
      PROVE  j \in Jobs /\ Removed(unsaved[w], j) \in Seq(Jobs)
  <2>1. unsaved[w] \in Seq(Jobs)
    BY DEF TypeOK
  <2> QED  BY <2>1, RemovedList DEF Elements
<1>3. CASE Interrupted(w)
  <2>1. UNCHANGED <<queue, callback, saving, past>>
    BY <1>3 DEF Interrupted
  <2>2. unsaved' \in [Workers -> Seq(Jobs)]
    BY <1>2, <1>3 DEF Interrupted, TypeOK
  <2>3. TypeOK'
    BY <1>0, <2>1, <2>2 DEF TypeOK, work, queue, past
  <2>4. \A v \in Workers : callback[v] # "idle" => unsaved'[v] = unsaved[v]
    BY <1>3 DEF Interrupted, TypeOK
  <2>5. ThreadsReady'
    BY <1>0, <2>1, <2>4 DEF ThreadsReady, work, past
  <2> QED  BY <1>1, <2>1, <2>3, <2>5 DEF queue
<1>4. ASSUME NEW j \in Elements(unsaved[w]),
             saving' = [saving EXCEPT ![w] = j],
             completed' = completed \cup {j},
             RemoveJob(j),
             callback' = [callback EXCEPT ![w] = "hdel"],
             UNCHANGED unsaved
      PROVE  TypeOK' /\ ThreadsReady' /\ WatchMeansListed'
  <2>1. processing' \in Seq(Jobs) /\ UNCHANGED <<retries, lease>>
    BY <1>4, RemoveFacts DEF RemoveJob
  <2>2. watch' \in [Workers -> BOOLEAN] /\ WatchKept
    BY <1>4, KeepWatchFacts DEF RemoveJob
  <2>3. /\ saving' \in [Workers -> Jobs \cup {NoJob}]
        /\ callback' \in [Workers -> {"idle", "hdel", "delete"}]
        /\ completed' \subseteq Jobs
        /\ saving'[w] \in completed' /\ saving'[w] \in Elements(unsaved[w])
    BY <1>2, <1>4 DEF TypeOK
  <2>4. \A v \in Workers \ {w} : callback'[v] = callback[v] /\ saving'[v] = saving[v]
    BY <1>4 DEF TypeOK
  <2>5. TypeOK'
    BY <1>0, <1>4, <2>1, <2>2, <2>3 DEF TypeOK, work
  <2>6. ThreadsReady'
    BY <1>0, <1>4, <2>3, <2>4 DEF ThreadsReady, work
  <2> QED  BY <1>1, <2>2, <2>5, <2>6
<1>5. CASE Forget(w)
  <2>1. /\ UNCHANGED <<processing, lease, unsaved, saving, past>>
        /\ retries' = [retries EXCEPT ![saving[w]] = 0]
        /\ callback[w] # "idle"
        /\ callback' = [callback EXCEPT ![w] = "delete"]
    BY <1>5 DEF Forget, ForgetRetries
  <2>2. watch' \in [Workers -> BOOLEAN] /\ WatchKept
    BY <1>5, KeepWatchFacts DEF Forget, ForgetRetries
  <2>3. retries' \in [Jobs -> 0..MaxRetries]
    <3>1. 0 \in 0..MaxRetries
      BY MaxRetriesAssumption
    <3>2. retries \in [Jobs -> 0..MaxRetries]
      BY DEF TypeOK
    <3> QED  BY <2>1, <3>1, <3>2
  <2>4. /\ callback' \in [Workers -> {"idle", "hdel", "delete"}]
        /\ \A v \in Workers : callback'[v] # "idle" => callback[v] # "idle"
    BY <2>1 DEF TypeOK
  <2>5. TypeOK'
    BY <1>0, <2>1, <2>2, <2>3, <2>4 DEF TypeOK, work, past
  <2>6. ThreadsReady'
    BY <1>0, <2>1, <2>4 DEF ThreadsReady, work, past
  <2> QED  BY <1>1, <2>2, <2>5, <2>6
<1>6. CASE Completed(w)
  <2>1. /\ UNCHANGED <<processing, retries, watch, past>>
        /\ lease' = [lease EXCEPT ![saving[w]] = NoWorker]
        /\ callback' = [callback EXCEPT ![w] = "idle"]
        /\ saving' = [saving EXCEPT ![w] = NoJob]
    BY <1>6 DEF Completed, DropLease, SetLease
  <2>2. unsaved' \in [Workers -> Seq(Jobs)]
    <3>1. saving[w] \in Elements(unsaved[w])
      BY <1>6 DEF Completed, ThreadsReady
    <3> QED  BY <1>2, <1>6, <3>1 DEF Completed, TypeOK
  <2>3. /\ lease' \in [Jobs -> Workers \cup {NoWorker}]
        /\ callback' \in [Workers -> {"idle", "hdel", "delete"}]
        /\ saving' \in [Workers -> Jobs \cup {NoJob}]
        /\ callback'[w] = "idle"
        /\ \A v \in Workers \ {w} : callback'[v] = callback[v] /\ saving'[v] = saving[v]
        /\ \A v \in Workers \ {w} : unsaved'[v] = unsaved[v]
    BY <1>6, <2>1 DEF Completed, TypeOK
  <2>4. TypeOK'
    BY <1>0, <2>1, <2>2, <2>3 DEF TypeOK, work, past
  <2>5. ThreadsReady'
    BY <1>0, <2>1, <2>3 DEF ThreadsReady, work, past
  <2> QED  BY <1>1, <2>1, <2>4, <2>5
<1> QED  BY <1>3, <1>4, <1>5, <1>6 DEF CallbackStep, Saved
LEMMA ExpireThreads ==
  ASSUME ThreadInv, NEW j \in Jobs, LeaseExpires(j)
  PROVE  TypeOK' /\ ThreadsReady' /\ WatchMeansListed'
<1> USE DEF ThreadInv
<1>1. /\ UNCHANGED <<main_q, processing, retries, watch, work, back, past>>
      /\ lease' = [lease EXCEPT ![j] = NoWorker]
  BY DEF LeaseExpires, Expire, SetLease
<1>2. TypeOK'
  BY <1>1 DEF TypeOK, work, back, past
<1>3. ThreadsReady'
  BY <1>1 DEF ThreadsReady, work, back, past
<1>4. WatchMeansListed'
  BY <1>1 DEF WatchMeansListed, Processing, work
<1> QED  BY <1>2, <1>3, <1>4

LEMMA NextThreads ==
  ASSUME ThreadInv, [Next]_vars
  PROVE  TypeOK' /\ ThreadsReady' /\ WatchMeansListed'
<1>1. CASE UNCHANGED vars
  <2>1. UNCHANGED <<queue, work, back, past>>
    BY <1>1 DEF vars
  <2>2. TypeOK'
    BY <2>1 DEF ThreadInv, TypeOK, queue, work, back, past
  <2>3. ThreadsReady'
    BY <2>1 DEF ThreadInv, ThreadsReady, work, back, past
  <2>4. WatchMeansListed'
    BY <2>1 DEF ThreadInv, WatchMeansListed, Processing, queue, work
  <2> QED  BY <2>2, <2>3, <2>4
<1>2. ASSUME NEW w \in Workers, MainStep(w)
      PROVE  TypeOK' /\ ThreadsReady' /\ WatchMeansListed'
  <2>1. CASE CheckMain(w) \/ CheckProcessing(w) \/ Closed(w)
             \/ ListProcessing(w) \/ CheckLease(w)
    BY <2>1, LookThreads
  <2>2. CASE WatchJob(w)
    BY <2>2, WatchThreads
  <2>3. CASE Transact(w)
    BY <2>3, TransactThreads
  <2>4. CASE LockUnsaved(w) \/ CheckOwnLease(w) \/ ExtendLease(w)
    BY <2>4, RenewThreads
  <2>5. CASE Lease(w)
    BY <2>5, LeaseThreads
  <2>6. CASE Grant(w) \/ Stop(w)
    BY <2>6, GrantThreads
  <2> QED  BY <1>2, <2>1, <2>2, <2>3, <2>4, <2>5, <2>6 DEF MainStep
<1> QED  BY <1>1, <1>2, CallbackThreads, EndThreads, ExpireThreads DEF Next

----------------------------------------------------------------------------
(* The two lists, and what becomes of the jobs. *)

\* What a step may do to the lists and to the history of the jobs.
Change ==
  \/ UNCHANGED <<main_q, processing, retries, past>>
  \/ \E j \in Jobs : /\ Pop(j)
                     /\ attempts' = [attempts EXCEPT ![j] = Counted(@)]
                     /\ UNCHANGED <<completed, given_up>>
  \/ \E j \in Processing : /\ Requeue(j)
                           /\ retries[j] + 1 <= MaxRetries
                           /\ UNCHANGED past
  \/ \E j \in Processing : /\ GiveUp(j)
                           /\ given_up' = given_up \cup {j}
                           /\ UNCHANGED <<completed, attempts>>
  \/ \E j \in Jobs : /\ RemoveJob(j)
                     /\ completed' = completed \cup {j}
                     /\ UNCHANGED <<given_up, attempts>>
  \/ \E j \in completed : ForgetRetries(j) /\ UNCHANGED past

LEMMA NextChange ==
  ASSUME ThreadInv, [Next]_vars
  PROVE  Change
<1> USE DEF ThreadInv
<1>1. CASE UNCHANGED vars
  BY <1>1 DEF Change, vars, queue
<1>2. ASSUME NEW w \in Workers, MainStep(w)
      PROVE  Change
  <2>1. CASE CheckMain(w) \/ CheckProcessing(w) \/ Closed(w)
             \/ ListProcessing(w) \/ CheckLease(w) \/ WatchJob(w)
    BY <2>1 DEF Change, CheckMain, CheckProcessing, Closed, ListProcessing,
                CheckLease, WatchJob, WatchKeys, queue
  <2>2. CASE Transact(w)
    <3>1. UNCHANGED <<completed, attempts>>
      BY <2>2 DEF Transact
    <3>2. CASE UNCHANGED <<queue, given_up>>
      BY <3>1, <3>2 DEF Change, queue, past
    <3>3. CASE \E j \in Processing : GiveUp(j) /\ given_up' = given_up \cup {j}
      BY <3>1, <3>3 DEF Change
    <3>4. CASE \E j \in Processing : /\ Requeue(j) /\ UNCHANGED given_up
                                     /\ retries[j] + 1 <= MaxRetries
      BY <3>1, <3>4 DEF Change, past
    <3> QED  BY <2>2, <3>2, <3>3, <3>4, TransactKinds
  <2>3. CASE LockUnsaved(w) \/ CheckOwnLease(w) \/ ExtendLease(w) \/ Grant(w)
             \/ Stop(w)
    BY <2>3 DEF Change, LockUnsaved, CheckOwnLease, ExtendLease, Grant, Stop,
                SetLease, queue
  <2>4. CASE Lease(w)
    <3>1. CASE UNCHANGED <<queue, attempts>>
      BY <2>4, <3>1 DEF Lease, Change, queue, past
    <3>2. ASSUME NEW j \in Elements(main_q), Pop(j),
                 attempts' = [attempts EXCEPT ![j] = Counted(@)]
          PROVE  Change
      <4>1. j \in Jobs /\ UNCHANGED <<completed, given_up>>
        BY <2>4, <3>2, PopFacts DEF Lease
      <4> QED  BY <3>2, <4>1 DEF Change
    <3> QED  BY <2>4, <3>1, <3>2 DEF Lease
  <2> QED  BY <1>2, <2>1, <2>2, <2>3, <2>4 DEF MainStep
<1>3. ASSUME NEW w \in Workers, CallbackStep(w)
      PROVE  Change
  <2>1. CASE Interrupted(w) \/ Completed(w)
    BY <2>1 DEF Change, Interrupted, Completed, DropLease, SetLease, queue
  <2>2. ASSUME NEW j \in Elements(unsaved[w]), RemoveJob(j),
               completed' = completed \cup {j}, UNCHANGED <<given_up, attempts>>
        PROVE  Change
    <3>1. unsaved[w] \in Seq(Jobs)
      BY DEF TypeOK
    <3>2. j \in Jobs
      BY <3>1 DEF Elements
    <3> QED  BY <2>2, <3>2 DEF Change
  <2>3. CASE Forget(w)
    <3>1. saving[w] \in completed /\ ForgetRetries(saving[w]) /\ UNCHANGED past
      BY <2>3 DEF Forget, ThreadsReady
    <3> QED  BY <3>1 DEF Change
  <2> QED  BY <1>3, <2>1, <2>2, <2>3 DEF CallbackStep, Saved
<1>4. CASE \E w \in Workers : Crash(w) \/ Signal(w)
  BY <1>4 DEF Change, Crash, Signal, queue
<1>5. CASE \E j \in Jobs : LeaseExpires(j)
  BY <1>5 DEF Change, LeaseExpires, Expire, SetLease
<1> QED  BY <1>1, <1>2, <1>3, <1>4, <1>5 DEF Next

ListInv == ListsDistinct /\ JobsKept /\ AttemptsCounted

LEMMA ChangeLists ==
  ASSUME TypeOK, ListInv, Change
  PROVE  ListInv'
<1> USE DEF ListInv
<1>0. /\ MaxRetries \in Nat /\ retries \in [Jobs -> 0..MaxRetries]
      /\ MaxAttempts \in Nat /\ attempts \in [Jobs -> 0..MaxAttempts]
      /\ Elements(Contents) \subseteq Jobs
      /\ Main \subseteq Jobs /\ Processing \subseteq Jobs
  BY MaxRetriesAssumption, BoundsAssumption, ContentsAssumption, SMTT(60)
  DEF TypeOK, Main, Processing, Elements
<1>1. CASE UNCHANGED <<main_q, processing, retries, past>>
  BY <1>1 DEF past, ListsDistinct, JobsKept, AttemptsCounted, Settled, Main,
              Processing
<1>2. ASSUME NEW j \in Jobs, Pop(j),
             attempts' = [attempts EXCEPT ![j] = Counted(@)],
             UNCHANGED <<completed, given_up>>
      PROVE  ListInv'
  <2>1. /\ j \in Main /\ ListsDistinct'
        /\ Main' = Main \ {j} /\ Processing' = Processing \cup {j}
    BY <1>2, PopFacts
  <2>2. JobsKept'
    BY <1>2, <2>1 DEF JobsKept, Settled
  <2>3. UNCHANGED retries
    BY <1>2 DEF Pop
  <2>4. attempts'[j] <= attempts[j] + 1 /\ attempts'[j] \in Nat
    BY <1>0, <1>2 DEF Counted
  <2>5. \A i \in Jobs \ {j} : attempts'[i] = attempts[i]
    BY <1>0, <1>2
  <2>6. AttemptsCounted'
    <3> SUFFICES ASSUME NEW i \in Jobs, i \notin completed
                 PROVE  /\ i \in Main' => attempts'[i] <= retries[i]
                        /\ i \in Processing' => attempts'[i] <= retries[i] + 1
                        /\ attempts'[i] <= MaxRetries + 1
      BY <1>2, <2>3 DEF AttemptsCounted
    <3>1. CASE i = j
      <4>1. attempts[j] <= retries[j] /\ retries[j] <= MaxRetries
        BY <1>0, <2>1, <3>1 DEF AttemptsCounted
      <4> QED  BY <1>0, <2>1, <2>4, <3>1, <4>1
    <3>2. CASE i # j
      BY <2>1, <2>5, <3>2 DEF AttemptsCounted
    <3> QED  BY <3>1, <3>2
  <2> QED  BY <2>1, <2>2, <2>6
<1>3. ASSUME NEW j \in Processing, Requeue(j), retries[j] + 1 <= MaxRetries,
             UNCHANGED past
      PROVE  ListInv'
  <2>1. /\ ListsDistinct'
        /\ Main' = Main \cup {j} /\ Processing' = Processing \ {j}
    BY <1>3, RequeueFacts
  <2>2. JobsKept'
    BY <1>3, <2>1 DEF JobsKept, Settled, past
  <2>3. /\ retries'[j] = retries[j] + 1
        /\ \A i \in Jobs \ {j} : retries'[i] = retries[i]
    BY <1>0, <1>3 DEF Requeue
  <2>4. j \notin Main
    BY DEF ListsDistinct
  <2>5. AttemptsCounted'
    <3> SUFFICES ASSUME NEW i \in Jobs, i \notin completed
                 PROVE  /\ i \in Main' => attempts[i] <= retries'[i]
                        /\ i \in Processing' => attempts[i] <= retries'[i] + 1
                        /\ attempts[i] <= MaxRetries + 1
      BY <1>3 DEF AttemptsCounted, past
    <3>1. CASE i = j
      BY <1>0, <1>3, <2>1, <2>3, <3>1 DEF AttemptsCounted
    <3>2. CASE i # j
      BY <2>1, <2>3, <3>2 DEF AttemptsCounted
    <3> QED  BY <3>1, <3>2
  <2> QED  BY <2>1, <2>2, <2>5
<1>4. ASSUME NEW j \in Processing, GiveUp(j), given_up' = given_up \cup {j},
             UNCHANGED <<completed, attempts>>
      PROVE  ListInv'
  <2>1. /\ ListsDistinct' /\ UNCHANGED Main /\ Processing' = Processing \ {j}
    BY <1>4, RemoveFacts DEF GiveUp, Main
  <2>2. JobsKept'
    BY <1>4, <2>1 DEF JobsKept, Settled
  <2>3. j \notin Main /\ \A i \in Jobs \ {j} : retries'[i] = retries[i]
    BY <1>0, <1>4 DEF GiveUp, ListsDistinct
  <2>4. AttemptsCounted'
    BY <1>4, <2>1, <2>3 DEF AttemptsCounted
  <2> QED  BY <2>1, <2>2, <2>4
<1>5. ASSUME NEW j \in Jobs, RemoveJob(j), completed' = completed \cup {j},
             UNCHANGED <<given_up, attempts>>
      PROVE  ListInv'
  <2>1. /\ ListsDistinct' /\ UNCHANGED Main /\ Processing' = Processing \ {j}
    BY <1>5, RemoveFacts DEF RemoveJob, Main
  <2>2. JobsKept'
    BY <1>5, <2>1 DEF JobsKept, Settled
  <2>3. AttemptsCounted'
    BY <1>5, <2>1 DEF AttemptsCounted, RemoveJob
  <2> QED  BY <2>1, <2>2, <2>3
<1>6. ASSUME NEW j \in completed, ForgetRetries(j), UNCHANGED past
      PROVE  ListInv'
  <2>1. /\ UNCHANGED <<main_q, processing, completed, given_up, attempts>>
        /\ \A i \in Jobs \ {j} : retries'[i] = retries[i]
    BY <1>0, <1>6 DEF ForgetRetries, past
  <2>2. ListsDistinct' /\ JobsKept'
    BY <2>1 DEF ListsDistinct, JobsKept, Main, Processing, Settled
  <2>3. AttemptsCounted'
    BY <2>1 DEF AttemptsCounted, Main, Processing
  <2> QED  BY <2>2, <2>3
<1> QED  BY <1>1, <1>2, <1>3, <1>4, <1>5, <1>6 DEF Change
----------------------------------------------------------------------------
(* Who leaves. *)

Ended == {"crashed", "stopping", "stuck", "stopped"}
Left == {"empty", "closing", "done"}

\* How the main thread of w may move if no worker has ended early: it leaves
\* its loop only from the two looks at the lists.
Moves(w) ==
  /\ place[w] \notin Ended
  /\ \A v \in Workers \ {w} : place'[v] = place[v]
  /\ \/ place'[w] \notin Left
     \/ place'[w] = "empty" /\ main_q' = <<>>
     \/ /\ place'[w] = "closing" /\ place[w] = "empty"
        /\ processing = <<>> /\ UNCHANGED <<main_q, past>>
     \/ /\ place'[w] = "done" /\ place[w] = "closing"
        /\ UNCHANGED <<main_q, past>>

LEMMA MainMoves ==
  ASSUME ThreadInv, NEW w \in Workers, MainStep(w), place'[w] \notin Ended
  PROVE  Moves(w)
<1> USE DEF ThreadInv, Ended, Left
<1>0. place \in [Workers -> Positions]
  BY DEF TypeOK
<1>1. CASE CheckMain(w) \/ CheckProcessing(w) \/ Closed(w)
  BY <1>0, <1>1 DEF CheckMain, CheckProcessing, Closed, Goto, Moves, queue
<1>2. CASE ListProcessing(w) \/ LockUnsaved(w)
  BY <1>0, <1>2 DEF ListProcessing, LockUnsaved, Loop, Goto, Moves
<1>3. CASE CheckLease(w) \/ WatchJob(w) \/ Transact(w)
  BY <1>0, <1>3 DEF CheckLease, WatchJob, Transact, NextExpired, Loop, Goto, Moves
<1>4. CASE CheckOwnLease(w) \/ ExtendLease(w)
  BY <1>0, <1>4 DEF CheckOwnLease, ExtendLease, NextUnsaved, Loop, Goto, Moves
<1>5. CASE Lease(w) \/ Grant(w) \/ Stop(w)
  BY <1>0, <1>5 DEF Lease, Grant, Stop, Goto, Moves
<1> QED  BY <1>1, <1>2, <1>3, <1>4, <1>5 DEF MainStep

\* The other steps move no main thread and add nothing to the main list.
LEMMA OtherMoves ==
  ASSUME ThreadInv, [Next]_vars, (Crashed \cup Signalled)' = {}
  PROVE  \/ UNCHANGED <<place, main_q>>
         \/ \E w \in Workers : Moves(w)
<1> USE DEF ThreadInv
<1>1. \A w \in Workers : place'[w] \notin Ended
  BY DEF Crashed, Signalled, Ended
<1>2. CASE UNCHANGED vars
  BY <1>2 DEF vars, work, queue
<1>3. CASE \E w \in Workers : MainStep(w)
  BY <1>1, <1>3, MainMoves
<1>4. CASE \E w \in Workers : CallbackStep(w)
  BY <1>4 DEF CallbackStep, Interrupted, Saved, Forget, Completed, RemoveJob,
              ForgetRetries, DropLease, SetLease, work, queue
<1>5. CASE \E w \in Workers : Crash(w) \/ Signal(w)
  <2>1. PICK w \in Workers : Crash(w) \/ Signal(w)
    BY <1>5
  <2>2. place'[w] \in Ended
    BY <2>1 DEF Crash, Signal, Goto, TypeOK, Ended
  <2> QED  BY <1>1, <2>2
<1>6. CASE \E j \in Jobs : LeaseExpires(j)
  BY <1>6 DEF LeaseExpires, Expire, SetLease, work
<1> QED  BY <1>2, <1>3, <1>4, <1>5, <1>6 DEF Next

LEMMA NextLooks ==
  ASSUME IInv, [Next]_vars
  PROVE  SomebodyLooks'
<1>0. ThreadInv /\ JobsKept /\ SomebodyLooks
  BY DEF IInv, ThreadInv
<1> SUFFICES ASSUME (Crashed \cup Signalled)' = {}
             PROVE  /\ (\E j \in Main' : ~Settled(j)') =>
                         \E w \in Workers : place'[w] \notin Left
                    /\ (\E j \in Elements(Contents) : ~Settled(j)') =>
                         \E w \in Workers : place'[w] \notin {"closing", "done"}
  BY DEF SomebodyLooks, Left
<1>1. \A j : Settled(j) => Settled(j)'
  <2>1. completed \subseteq completed' /\ given_up \subseteq given_up'
    BY <1>0, NextChange DEF Change, past
  <2> QED  BY <2>1 DEF Settled
<1>2. CASE UNCHANGED <<place, main_q>>
  <2>1. Crashed \cup Signalled = {} /\ UNCHANGED Main
    BY <1>2 DEF Crashed, Signalled, Main
  <2> QED  BY <1>0, <1>1, <1>2, <2>1 DEF SomebodyLooks, Left
<1>3. ASSUME NEW w \in Workers, Moves(w)
      PROVE  /\ (\E j \in Main' : ~Settled(j)') =>
                  \E v \in Workers : place'[v] \notin Left
             /\ (\E j \in Elements(Contents) : ~Settled(j)') =>
                  \E v \in Workers : place'[v] \notin {"closing", "done"}
  <2>1. Crashed \cup Signalled = {}
    BY <1>3 DEF Crashed, Signalled, Moves, Ended
  <2>2. CASE place'[w] \notin Left
    BY <2>2 DEF Left
  <2>3. CASE place'[w] = "empty" /\ main_q' = <<>>
    <3>1. Main' = {}
      BY <2>3 DEF Main, Elements
    <3> QED  BY <2>3, <3>1
  <2>4. CASE /\ place'[w] = "closing" /\ place[w] = "empty"
             /\ processing = <<>> /\ UNCHANGED <<main_q, past>>
    <3>1. UNCHANGED Main /\ \A j : Settled(j)' <=> Settled(j)
      BY <2>4 DEF Main, Settled, past
    <3>2. Processing = {}
      BY <2>4 DEF Processing, Elements
    <3>3. \A j \in Elements(Contents) : ~Settled(j) => j \in Main
      BY <1>0, <3>2 DEF JobsKept
    <3>4. (\E j \in Main : ~Settled(j)) =>
            \E v \in Workers \ {w} : place[v] \notin Left
      BY <1>0, <2>1, <2>4 DEF SomebodyLooks, Left
    <3>5. \A v \in Workers \ {w} : place'[v] = place[v]
      BY <1>3 DEF Moves
    <3> QED  BY <3>1, <3>3, <3>4, <3>5 DEF Left
  <2>5. CASE /\ place'[w] = "done" /\ place[w] = "closing"
             /\ UNCHANGED <<main_q, past>>
    <3>1. UNCHANGED Main /\ \A j : Settled(j)' <=> Settled(j)
      BY <2>5 DEF Main, Settled, past
    <3>2. \A v \in Workers : place[v] \notin {"closing", "done"} => place'[v] = place[v]
      BY <1>3, <2>5 DEF Moves
    <3> QED  BY <1>0, <2>1, <3>1, <3>2 DEF SomebodyLooks, Left
  <2> QED  BY <1>3, <2>2, <2>3, <2>4, <2>5 DEF Moves
<1> QED  BY <1>0, <1>2, <1>3, OtherMoves

----------------------------------------------------------------------------
(* The theorems. *)

LEMMA InitIInv == Init => IInv
<1> SUFFICES ASSUME Init PROVE IInv
  OBVIOUS
<1>0. /\ MaxRetries \in Nat /\ MaxAttempts \in Nat
      /\ Contents \in Seq(Jobs) /\ Distinct(Contents)
      /\ 0 \in 0..MaxRetries /\ 0 \in 0..MaxAttempts
  BY MaxRetriesAssumption, BoundsAssumption, ContentsAssumption
<1>1. TypeOK
  BY <1>0 DEF TypeOK, Init, QueueInit, Positions
<1>2. Main = Elements(Contents) /\ Processing = {}
  BY DEF Init, QueueInit, Main, Processing, Elements
<1>3. ListsDistinct
  BY <1>0, <1>2 DEF ListsDistinct, Init, QueueInit, Distinct
<1>4. JobsKept
  BY <1>2 DEF JobsKept
<1>5. ThreadsReady /\ WatchMeansListed
  BY DEF ThreadsReady, WatchMeansListed, Init
<1>6. AttemptsCounted
  BY <1>0 DEF AttemptsCounted, Init, QueueInit
<1>7. SomebodyLooks
  BY WorkersAssumption DEF SomebodyLooks, Init
<1> QED  BY <1>1, <1>3, <1>4, <1>5, <1>6, <1>7 DEF IInv

LEMMA NextIInv == IInv /\ [Next]_vars => IInv'
<1> SUFFICES ASSUME IInv, [Next]_vars PROVE IInv'
  OBVIOUS
<1>1. ThreadInv /\ ListInv
  BY DEF IInv, ThreadInv, ListInv
<1>2. TypeOK' /\ ThreadsReady' /\ WatchMeansListed'
  BY <1>1, NextThreads
<1>3. ListInv'
  BY <1>1, NextChange, ChangeLists DEF ThreadInv
<1>4. SomebodyLooks'
  BY NextLooks
<1> QED  BY <1>2, <1>3, <1>4 DEF IInv, ListInv

LEMMA SpecIInv == Spec => []IInv
BY InitIInv, NextIInv, PTL DEF Spec

\* Every variable of the queue and of the workers keeps its type, for any
\* number of jobs and workers.
THEOREM TypeCorrect == Spec => []TypeOK
<1>1. IInv => TypeOK
  BY DEF IInv
<1> QED  BY <1>1, SpecIInv, PTL

LEMMA OnePlace == IInv => JobInOnePlace
<1> SUFFICES ASSUME IInv, NEW j \in Jobs
             PROVE  /\ Cardinality(Places(j)) <= 1
                    /\ Places(j) = {} => Settled(j) \/ j \notin Elements(Contents)
  BY DEF JobInOnePlace
<1> DEFINE InMain == {k \in 1..Len(main_q) : main_q[k] = j}
           InProcessing == {k \in 1..Len(processing) : processing[k] = j}
<1>1. /\ \A x, y \in InMain : x = y
      /\ \A x, y \in InProcessing : x = y
      /\ InMain = {} \/ InProcessing = {}
  BY DEF IInv, ListsDistinct, Distinct, Main, Processing, Elements
<1>2. Places(j) = {} \/ \E x : Places(j) = {x}
  <2>1. CASE InMain = {} /\ InProcessing = {}
    BY <2>1 DEF Places
  <2>2. ASSUME NEW k \in InMain
        PROVE  Places(j) = {<<"main", k>>}
    BY <1>1, <2>2 DEF Places
  <2>3. ASSUME NEW k \in InProcessing
        PROVE  Places(j) = {<<"processing", k>>}
    BY <1>1, <2>3 DEF Places
  <2> QED  BY <2>1, <2>2, <2>3
<1>3. Cardinality(Places(j)) <= 1
  <2>1. CASE Places(j) = {}
    BY <2>1, FS_EmptySet
  <2>2. ASSUME NEW x, Places(j) = {x}
        PROVE  Cardinality(Places(j)) <= 1
    <3>1. Cardinality({x}) = 1
      BY FS_Singleton, Zenon
    <3> QED  BY <2>2, <3>1
  <2> QED  BY <1>2, <2>1, <2>2
<1>4. ASSUME Places(j) = {}, j \in Elements(Contents)
      PROVE  Settled(j)
  <2>1. InMain = {} /\ InProcessing = {}
    BY <1>4 DEF Places
  <2>2. j \notin Main \cup Processing
    BY <2>1 DEF Main, Processing, Elements
  <2> QED  BY <1>4, <2>2 DEF IInv, JobsKept
<1> QED  BY <1>3, <1>4

\* However many workers renew, complete, crash or race, a job that is neither
\* completed nor given up is in exactly one of the two lists, once.
THEOREM JobAlwaysInOnePlace == Spec => []JobInOnePlace
BY SpecIInv, OnePlace, PTL

\* However many workers find its lease expired at the same time, a job that
\* nobody has completed is leased at most 1 + max_retries times.
THEOREM AttemptsAlwaysBounded == Spec => []AttemptsBounded
<1>1. IInv => AttemptsBounded
  BY DEF IInv, AttemptsCounted, AttemptsBounded
<1> QED  BY <1>1, SpecIInv, PTL

\* Although empty() looks at the two lists one after the other, the workers do
\* not all leave while a job is open, unless one crashes or is told to stop.
THEOREM SomebodyAlwaysStays == Spec => []SomebodyStays
<1>1. ASSUME IInv
      PROVE  SomebodyStays
  <2> SUFFICES ASSUME Crashed \cup Signalled = {},
                      NEW j \in Elements(Contents), ~Settled(j)
               PROVE  \E w \in Workers : Running(w)
    BY DEF SomebodyStays
  <2>1. PICK w \in Workers : place[w] \notin {"closing", "done"}
    BY <1>1 DEF IInv, SomebodyLooks
  <2>2. Running(w)
    BY <2>1 DEF Running, Crashed, Signalled
  <2> QED  BY <2>2
<1> QED  BY <1>1, SpecIInv, PTL
=============================================================================
