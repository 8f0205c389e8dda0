------------------------- MODULE BannerVisit_proofs -------------------------
(***************************************************************************)
(* What the search of BannerSearch finds, on every site, and what holds of *)
(* a visit of BannerClick whatever the sites are and wherever the driver   *)
(* fails.                                                                  *)
(*                                                                         *)
(* All that is taken for a banner lies on the way up from a keyword that   *)
(* shows (FoundBannersHoldWords).  The search is made of folds and         *)
(* recursive functions, which CHOOSE defines: the first parts show that    *)
(* what is chosen exists (IsFold, Recursion), and so satisfies its own     *)
(* equations, by induction in the form of a minimal counterexample         *)
(* (NatMin).  Then come lists, the lines of ancestors of a document, the   *)
(* tiers of keywords, the way from a keyword up to a banner, and the       *)
(* frames and shadow trees.                                                *)
(*                                                                         *)
(* Nothing is left behind: under OpenWPM the row of a visit holds nothing  *)
(* of an earlier one and the flag of the settings is down when a visit     *)
(* begins (NothingInherited), and a command that returns normally has sent *)
(* its row unless saving raised (OkMeansRecorded).  Both rest on the log   *)
(* line at the end of the command, which fails the command, and has the    *)
(* process replaced, if CMP is still what init_data made it (CMPInv): a    *)
(* visit that was left by an exception on the way is never followed by     *)
(* another in the process.                                                 *)
(*                                                                         *)
(* Only banners are searched (BannersHoldWords), by FoundBannersHoldWords. *)
(* Buttons are tried once and acceptance presses none that disagrees       *)
(* (ButtonsTriedOnce): this follows the stack of calls (Stacked), and the  *)
(* buttons left of the pass of the call on top (PassInv).  The driver and  *)
(* the data of the banners do not drift apart as long as nothing fails     *)
(* (NoFailureNoDrift): only the first call of the stack can be one for a   *)
(* frame (DriftInv).                                                       *)
(***************************************************************************)
EXTENDS BannerVisit, WellFoundedInduction, TLAPS


\* A set of natural numbers that is not empty has a least element.
LEMMA NatMin ==
  ASSUME NEW T \in SUBSET Nat, T # {}
  PROVE  \E x \in T : \A y \in T : x <= y
<1> DEFINE R == {ss \in Nat \X Nat : ss[1] < ss[2]}
<1>1. IsWellFoundedOn(R, Nat)
  BY NatLessThanWellFounded, Zenon DEF OpToRel
<1>2. PICK x \in T : \A y \in T : ~ (<<y, x>> \in R)
  <2> HIDE DEF R
  <2> QED
    BY <1>1, WFMin
<1>3. \A y \in T : ~(y < x)
  BY <1>2
<1> QED
  BY <1>3

\* Induction, for sets.
LEMMA NatSetInduction ==
  ASSUME NEW T, 0 \in T, \A k \in Nat : k \in T => k + 1 \in T
  PROVE  Nat \subseteq T
<1> DEFINE U == {k \in Nat : k \notin T}
<1> SUFFICES ASSUME U # {}
             PROVE  FALSE
  OBVIOUS
<1>1. PICK x \in U : \A y \in U : x <= y
  BY NatMin
<1>2. x # 0 /\ x - 1 \in Nat /\ x - 1 \notin U /\ x = (x - 1) + 1
  BY <1>1
<1> QED
  BY <1>2

\* A set of indices has a greatest.
LEMMA MaxIndex ==
  ASSUME NEW n \in Nat, NEW s \in SUBSET (1..n), s # {}
  PROVE  /\ Max(s) \in s /\ \A y \in s : y <= Max(s)
         /\ s \ {Max(s)} \in SUBSET (1..(Max(s) - 1))
<1> DEFINE T == {k \in Nat : n - k \in s}
<1>1. PICK y : y \in s
  OBVIOUS
<1>2. n - y \in T /\ T \in SUBSET Nat
  BY <1>1
<1>3. PICK x \in T : \A z \in T : x <= z
  BY <1>2, NatMin
<1>4. n - x \in s /\ \A z \in s : z <= n - x
  <2>1. \A z \in s : n - z \in T
    OBVIOUS
  <2> QED
    BY <1>3, <2>1
<1>5. \E m \in s : \A z \in s : m >= z
  BY <1>4
<1>6. Max(s) \in s /\ \A z \in s : Max(s) >= z
  BY <1>5 DEF Max
<1>7. \A m \in s : (\A z \in s : m >= z) =>
        (\A z \in s : z <= m) /\ s \ {m} \in SUBSET (1..(m - 1))
  OBVIOUS
<1> QED
  BY <1>6, <1>7, Zenon

\* Induction over sets of indices, taking the greatest away.
LEMMA MaxInduction ==
  ASSUME NEW n \in Nat, NEW G, {} \in G,
         \A s \in SUBSET (1..n) : s # {} /\ s \ {Max(s)} \in G => s \in G
  PROVE  SUBSET (1..n) \subseteq G
<1> DEFINE T == {k \in Nat : k <= n => SUBSET (1..k) \subseteq G}
<1>1. 0 \in T
  <2>1. \A s \in SUBSET (1..0) : s = {}
    OBVIOUS
  <2> QED
    BY <2>1
<1>2. ASSUME NEW k \in Nat, k \in T, k + 1 <= n, NEW s \in SUBSET (1..(k + 1))
      PROVE  s \in G
  <2>1. CASE s = {}
    BY <2>1
  <2>2. CASE s # {}
    <3>1. s \in SUBSET (1..n)
      BY <1>2
    <3>2. Max(s) \in s /\ s \ {Max(s)} \in SUBSET (1..(Max(s) - 1))
      BY <2>2, <3>1, MaxIndex
    <3>3. \A m \in 1..(k + 1) : 1..(m - 1) \subseteq 1..k
      OBVIOUS
    <3>4. s \ {Max(s)} \in SUBSET (1..k)
      BY <3>2, <3>3, Zenon
    <3>5. k <= n
      BY <1>2
    <3>6. s \ {Max(s)} \in G
      BY <1>2, <3>4, <3>5
    <3> QED
      BY <2>2, <3>1, <3>6
  <2> QED
    BY <2>1, <2>2
<1>3. n \in T
  <2>1. \A k \in Nat : k \in T => k + 1 \in T
    BY <1>2
  <2> HIDE DEF T
  <2> QED
    BY <1>1, <2>1, NatSetInduction
<1> QED
  BY <1>3

\* What a fold over the indices 1..n makes of each set of them, the greatest
\* index last.
IsFold(g, n, X, base, h) ==
  /\ g \in [SUBSET (1..n) -> X]
  /\ g[{}] = base
  /\ \A s \in SUBSET (1..n) :
       s # {} => g[s] = h[<<g[s \ {Max(s)}], Max(s)>>]

\* Such a function exists.
LEMMA FoldExists ==
  ASSUME NEW n \in Nat, NEW X, NEW base \in X, NEW h \in [X \X (1..n) -> X]
  PROVE  \E g : IsFold(g, n, X, base, h)
<1> DEFINE Folds(g, k) ==
             \A s \in SUBSET (1..k) :
               g[s] = IF s = {} THEN base ELSE h[<<g[s \ {Max(s)}], Max(s)>>]
           T == {k \in Nat : k <= n => \E g \in [SUBSET (1..k) -> X] : Folds(g, k)}
<1>1. 0 \in T
  <2> DEFINE g == [s \in SUBSET (1..0) |-> base]
  <2>1. g \in [SUBSET (1..0) -> X] /\ Folds(g, 0)
    BY SUBSET (1..0) = {{}}
  <2> QED
    BY <2>1
<1>2. ASSUME NEW k \in Nat, k \in T, k + 1 <= n
      PROVE  \E g \in [SUBSET (1..(k + 1)) -> X] : Folds(g, k + 1)
  <2>0. k <= n
    BY <1>2
  <2>1. PICK f \in [SUBSET (1..k) -> X] : Folds(f, k)
    <3> HIDE DEF Folds
    <3> QED
      BY <1>2, <2>0
  <2> DEFINE g == [s \in SUBSET (1..(k + 1)) |->
                     IF k + 1 \in s THEN h[<<f[s \ {k + 1}], k + 1>>] ELSE f[s]]
  <2>2. \A s \in SUBSET (1..(k + 1)) : s \ {k + 1} \in SUBSET (1..k)
    OBVIOUS
  <2>3. \A s \in SUBSET (1..k) : s \in SUBSET (1..(k + 1)) /\ g[s] = f[s]
    OBVIOUS
  <2>4. g \in [SUBSET (1..(k + 1)) -> X]
    <3>1. k + 1 \in 1..n
      BY <1>2
    <3> QED
      BY <2>2, <3>1
  <2>5. ASSUME NEW s \in SUBSET (1..(k + 1))
        PROVE  g[s] = IF s = {} THEN base
                      ELSE h[<<g[s \ {Max(s)}], Max(s)>>]
    <3>1. CASE k + 1 \in s
      <4>1. Max(s) = k + 1
        <5>1. Max(s) \in s /\ \A y \in s : y <= Max(s)
          BY <3>1, MaxIndex, k + 1 \in Nat
        <5>2. \A m \in 1..(k + 1) : k + 1 <= m => m = k + 1
          OBVIOUS
        <5> QED
          BY <3>1, <5>1, <5>2
      <4>2. g[s \ {k + 1}] = f[s \ {k + 1}]
        BY <2>2, <2>3
      <4> QED
        BY <3>1, <4>1, <4>2
    <3>2. CASE k + 1 \notin s
      <4>1. s \in SUBSET (1..k)
        BY <2>2, <3>2
      <4>2. s \ {Max(s)} \in SUBSET (1..k)
        BY <4>1
      <4> HIDE DEF g
      <4> QED
        BY <2>1, <2>3, <4>1, <4>2
    <3> QED
      BY <3>1, <3>2
  <2> HIDE DEF g
  <2> QED
    BY <2>4, <2>5
<1>3. n \in T
  <2>1. \A k \in Nat : k \in T => k + 1 \in T
    <3>1. \A k \in Nat :
            k \in T <=> (k <= n => \E g \in [SUBSET (1..k) -> X] : Folds(g, k))
      <4> HIDE DEF Folds
      <4> QED
        OBVIOUS
    <3>2. \A k \in Nat : k + 1 \in Nat
      OBVIOUS
    <3> HIDE DEF T, Folds
    <3> QED
      BY <1>2, <3>1, <3>2
  <2> HIDE DEF T
  <2> QED
    BY <1>1, <2>1, NatSetInduction
<1> QED
  <2> HIDE DEF Folds
  <2>1. \E g \in [SUBSET (1..n) -> X] : Folds(g, n)
    BY <1>3, n <= n
  <2>2. PICK g \in [SUBSET (1..n) -> X] : Folds(g, n)
    BY <2>1
  <2>3. IsFold(g, n, X, base, h)
    BY <2>2 DEF Folds, IsFold
  <2> QED
    BY <2>3

\* Two functions that begin alike and go on alike end alike.
LEMMA FoldsAgree ==
  ASSUME NEW n \in Nat, NEW c, NEW d, c[{}] = d[{}],
         \A s \in SUBSET (1..n) :
           s # {} /\ c[s \ {Max(s)}] = d[s \ {Max(s)}] => c[s] = d[s]
  PROVE  c[1..n] = d[1..n]
<1> DEFINE G == {s \in SUBSET (1..n) : c[s] = d[s]}
<1>1. {} \in G
  OBVIOUS
<1>2. \A s \in SUBSET (1..n) : s # {} /\ s \ {Max(s)} \in G => s \in G
  OBVIOUS
<1>3. SUBSET (1..n) \subseteq G
  <2> HIDE DEF G
  <2> QED
    BY <1>1, <1>2, MaxInduction
<1> QED
  BY <1>3

\* The indices up to n, with the greatest taken away.
LEMMA MaxOfRange ==
  ASSUME NEW n \in Nat, n # 0
  PROVE  /\ Max(1..n) = n /\ (1..n) \ {Max(1..n)} = 1..(n - 1)
         /\ 1..n # {} /\ 1..(n - 1) \in SUBSET (1..n)
<1>1. 1..n \in SUBSET (1..n) /\ n \in 1..n
  OBVIOUS
<1>2. Max(1..n) \in 1..n /\ n <= Max(1..n)
  BY <1>1, MaxIndex
<1>3. \A m \in 1..n : n <= m => m = n
  OBVIOUS
<1>4. Max(1..n) = n
  BY <1>2, <1>3
<1> QED
  BY <1>4


\* What a fold makes of all the indices: `result`.
Makes(g, n, X, base, h, result) ==
  IsFold(g, n, X, base, h) /\ g[1..n] = result

\* A function that begins with base and goes on as h says ends with the
\* result of a fold.
LEMMA FoldMade ==
  ASSUME NEW n \in Nat, NEW X, NEW base \in X, NEW h \in [X \X (1..n) -> X],
         NEW c, c[{}] = base,
         \A s \in SUBSET (1..n) : s # {} /\ c[s \ {Max(s)}] \in X =>
           c[s] = h[<<c[s \ {Max(s)}], Max(s)>>]
  PROVE  \E g : Makes(g, n, X, base, h, c[1..n])
<1>1. PICK g : IsFold(g, n, X, base, h)
  BY FoldExists
<1>2. ASSUME NEW s \in SUBSET (1..n), s # {}, c[s \ {Max(s)}] = g[s \ {Max(s)}]
      PROVE  c[s] = g[s]
  <2>1. s \ {Max(s)} \in SUBSET (1..n)
    OBVIOUS
  <2>2. g[s \ {Max(s)}] \in X /\ g[s] = h[<<g[s \ {Max(s)}], Max(s)>>]
    BY <1>1, <1>2, <2>1 DEF IsFold
  <2> QED
    BY <1>2, <2>2
<1>3. c[{}] = g[{}]
  BY <1>1 DEF IsFold
<1>4. c[1..n] = g[1..n]
  BY <1>2, <1>3, FoldsAgree
<1> QED
  BY <1>1, <1>4 DEF Makes

\* The result is one of X, base if there is no index.
LEMMA MadeInX ==
  ASSUME NEW n \in Nat, NEW X, NEW base, NEW h, NEW r, NEW g,
         Makes(g, n, X, base, h, r)
  PROVE  r \in X /\ (n = 0 => r = base)
<1>1. 1..n \in SUBSET (1..n) /\ (n = 0 => 1..n = {})
  OBVIOUS
<1> QED
  BY <1>1 DEF Makes, IsFold

\* The last index is dealt with last.
LEMMA MadeLast ==
  ASSUME NEW n \in Nat, NEW X, NEW base, NEW a, NEW b, NEW r, NEW t, NEW g, NEW d,
         Makes(g, n, X, base, a, r), Makes(d, n + 1, X, base, b, t),
         \A x \in X, k \in 1..n : a[<<x, k>>] = b[<<x, k>>]
  PROVE  r \in X /\ t = b[<<r, n + 1>>]
<1>1. d[1..n] = g[1..n]
  <2>1. d[{}] = g[{}]
    BY DEF Makes, IsFold
  <2>2. ASSUME NEW s \in SUBSET (1..n), s # {},
               d[s \ {Max(s)}] = g[s \ {Max(s)}]
        PROVE  d[s] = g[s]
    <3>1. Max(s) \in 1..n /\ s \ {Max(s)} \in SUBSET (1..n)
      BY <2>2, MaxIndex
    <3>2. s \in SUBSET (1..(n + 1))
      OBVIOUS
    <3>3. g[s \ {Max(s)}] \in X /\ g[s] = a[<<g[s \ {Max(s)}], Max(s)>>]
      BY <2>2, <3>1 DEF Makes, IsFold
    <3>4. d[s] = b[<<d[s \ {Max(s)}], Max(s)>>]
      BY <2>2, <3>2 DEF Makes, IsFold
    <3> QED
      BY <2>2, <3>1, <3>3, <3>4
  <2> QED
    BY <2>1, <2>2, FoldsAgree
<1>2. /\ Max(1..(n + 1)) = n + 1 /\ (1..(n + 1)) \ {Max(1..(n + 1))} = 1..n
      /\ 1..(n + 1) # {} /\ 1..(n + 1) \in SUBSET (1..(n + 1))
  <2>1. n + 1 \in Nat /\ n + 1 # 0 /\ (n + 1) - 1 = n
    OBVIOUS
  <2> QED
    BY <2>1, MaxOfRange
<1>3. d[1..(n + 1)] = b[<<d[1..n], n + 1>>]
  BY <1>2 DEF Makes, IsFold
<1>4. r \in X
  BY MadeInX
<1> QED
  BY <1>1, <1>3, <1>4 DEF Makes

\* Induction over lists.
LEMMA ListInduction ==
  ASSUME NEW S, NEW G, <<>> \in G,
         \A l \in Seq(S), e \in S : l \in G => Append(l, e) \in G
  PROVE  Seq(S) \subseteq G
<1> DEFINE T == {n \in Nat : \A l \in Seq(S) : Len(l) = n => l \in G}
<1>1. 0 \in T
  OBVIOUS
<1>2. ASSUME NEW n \in Nat, n \in T, NEW l \in Seq(S), Len(l) = n + 1
      PROVE  l \in G
  <2> DEFINE f == SubSeq(l, 1, n)
  <2>1. f \in Seq(S) /\ Len(f) = n /\ l[n + 1] \in S /\ l = Append(f, l[n + 1])
    BY <1>2
  <2> QED
    BY <1>2, <2>1
<1>3. Nat \subseteq T
  <2>1. \A n \in Nat : n \in T => n + 1 \in T
    BY <1>2
  <2> HIDE DEF T
  <2> QED
    BY <1>1, <2>1, NatSetInduction
<1> QED
  BY <1>3

----------------------------------------------------------------------------
(* What is chosen from a list. *)

ChosenStep(list, set, S) ==
  [p \in Seq(S) \X (1..Len(list)) |->
     IF list[p[2]] \in set THEN Append(p[1], list[p[2]]) ELSE p[1]]

\* Chosen is made by the steps of a fold.
LEMMA ChosenMade ==
  ASSUME NEW S, NEW list \in Seq(S), NEW set
  PROVE  \E g : Makes(g, Len(list), Seq(S), <<>>, ChosenStep(list, set, S),
                      Chosen(list, set))
<1> DEFINE n == Len(list)
           X == Seq(S)
           h == ChosenStep(list, set, S)
           Eq(g) == g = [s \in SUBSET (1..n) |->
                           IF s = {} THEN <<>>
                           ELSE IF list[Max(s)] \in set
                                THEN Append(g[s \ {Max(s)}], list[Max(s)])
                                ELSE g[s \ {Max(s)}]]
           c == CHOOSE g : Eq(g)
<1>1. n \in Nat /\ DOMAIN list = 1..n /\ <<>> \in X
  OBVIOUS
<1>2. h \in [X \X (1..n) -> X]
  BY DEF ChosenStep
<1>3. \A x \in X, k \in 1..n :
        h[<<x, k>>] = IF list[k] \in set THEN Append(x, list[k]) ELSE x
  BY DEF ChosenStep
<1> HIDE DEF n, X, h
<1>4. Chosen(list, set) = c[1..n]
  BY <1>1 DEF Chosen, FoldLeft, MapThenFoldSet
<1>5. PICK g : IsFold(g, n, X, <<>>, h)
  BY <1>1, <1>2, FoldExists
<1>6. ASSUME NEW s \in SUBSET (1..n), s # {}, NEW f, f[s \ {Max(s)}] \in X
      PROVE  h[<<f[s \ {Max(s)}], Max(s)>>] =
               IF list[Max(s)] \in set
               THEN Append(f[s \ {Max(s)}], list[Max(s)])
               ELSE f[s \ {Max(s)}]
  <2>1. Max(s) \in 1..n
    BY <1>1, <1>6, MaxIndex
  <2> QED
    BY <1>3, <1>6, <2>1
<1>7. Eq(g)
  <2>1. \A s \in SUBSET (1..n) : s \ {Max(s)} \in SUBSET (1..n)
    OBVIOUS
  <2> QED
    BY <1>5, <1>6, <2>1 DEF IsFold
<1>8. Eq(c)
  BY <1>7
<1>9. c[{}] = <<>> /\ \A s \in SUBSET (1..n) : s # {} =>
        c[s] = IF list[Max(s)] \in set
               THEN Append(c[s \ {Max(s)}], list[Max(s)])
               ELSE c[s \ {Max(s)}]
  BY <1>8
<1> HIDE DEF c
<1>10. \E f : Makes(f, n, X, <<>>, h, c[1..n])
  <2>1. \A s \in SUBSET (1..n) : s # {} /\ c[s \ {Max(s)}] \in X =>
          c[s] = h[<<c[s \ {Max(s)}], Max(s)>>]
    BY <1>6, <1>9
  <2> QED
    BY <1>1, <1>2, <1>9, <2>1, FoldMade
<1> QED
  BY <1>4, <1>10 DEF n, X, h

\* Nothing is chosen from the empty list.
LEMMA ChosenEmpty == ASSUME NEW set PROVE Chosen(<<>>, set) = <<>>
<1>1. PICK g : Makes(g, Len(<<>>), Seq({}), <<>>, ChosenStep(<<>>, set, {}),
                     Chosen(<<>>, set))
  BY <<>> \in Seq({}), ChosenMade
<1> QED
  BY <1>1, Len(<<>>) = 0, MadeInX

\* What is chosen comes from the list.
LEMMA ChosenIn ==
  ASSUME NEW S, NEW list \in Seq(S), NEW set
  PROVE  Chosen(list, set) \in Seq(S)
<1>1. PICK g : Makes(g, Len(list), Seq(S), <<>>, ChosenStep(list, set, S),
                     Chosen(list, set))
  BY ChosenMade
<1> QED
  BY <1>1, Len(list) \in Nat, MadeInX

\* The last of a longer list is chosen last, or not.
LEMMA ChosenAppend ==
  ASSUME NEW S, NEW list \in Seq(S), NEW e \in S, NEW set
  PROVE  Chosen(Append(list, e), set) =
           IF e \in set THEN Append(Chosen(list, set), e)
           ELSE Chosen(list, set)
<1> DEFINE n == Len(list)
           longer == Append(list, e)
           a == ChosenStep(list, set, S)
           b == ChosenStep(longer, set, S)
<1>1. /\ n \in Nat /\ longer \in Seq(S) /\ Len(longer) = n + 1
      /\ longer[n + 1] = e /\ \A k \in 1..n : longer[k] = list[k]
  OBVIOUS
<1>2. /\ \A x \in Seq(S), k \in 1..n : a[<<x, k>>] =
           IF list[k] \in set THEN Append(x, list[k]) ELSE x
      /\ \A x \in Seq(S), k \in 1..(n + 1) : b[<<x, k>>] =
           IF longer[k] \in set THEN Append(x, longer[k]) ELSE x
  BY <1>1 DEF ChosenStep
<1>3. PICK g : Makes(g, n, Seq(S), <<>>, a, Chosen(list, set))
  BY ChosenMade
<1>4. PICK d : Makes(d, n + 1, Seq(S), <<>>, b, Chosen(longer, set))
  <2>1. \E d : Makes(d, Len(longer), Seq(S), <<>>, b, Chosen(longer, set))
    BY <1>1, ChosenMade
  <2> QED
    BY <1>1, <2>1
<1> HIDE DEF n, longer, a, b
<1>5. ASSUME NEW x \in Seq(S), NEW k \in 1..n
      PROVE  a[<<x, k>>] = b[<<x, k>>]
  <2>1. k \in 1..(n + 1) /\ longer[k] = list[k]
    BY <1>1
  <2> QED
    BY <1>2, <2>1
<1>6. /\ Chosen(list, set) \in Seq(S)
      /\ Chosen(longer, set) = b[<<Chosen(list, set), n + 1>>]
  BY <1>1, <1>3, <1>4, <1>5, MadeLast
<1> QED
  BY <1>1, <1>2, <1>6 DEF longer

\* All that is chosen is from the list and the set.
LEMMA ChosenFrom ==
  ASSUME NEW S, NEW list \in Seq(S), NEW set
  PROVE  Chosen(list, set) \in Seq(set \cap S)
<1> DEFINE G == {l \in Seq(S) : Chosen(l, set) \in Seq(set \cap S)}
<1>1. <<>> \in G
  <2>1. <<>> \in Seq(S) /\ <<>> \in Seq(set \cap S)
    OBVIOUS
  <2> QED
    BY <2>1, ChosenEmpty
<1>2. ASSUME NEW l \in Seq(S), NEW e \in S, l \in G
      PROVE  Append(l, e) \in G
  <2>1. Append(l, e) \in Seq(S)
    OBVIOUS
  <2>2. \A x \in Seq(set \cap S) : e \in set => Append(x, e) \in Seq(set \cap S)
    OBVIOUS
  <2>3. Chosen(l, set) \in Seq(set \cap S)
    BY <1>2
  <2>4. Chosen(Append(l, e), set) =
          IF e \in set THEN Append(Chosen(l, set), e) ELSE Chosen(l, set)
    BY ChosenAppend
  <2> QED
    BY <2>1, <2>2, <2>3, <2>4
<1>3. Seq(S) \subseteq G
  <2> HIDE DEF G
  <2> QED
    BY <1>1, <1>2, ListInduction
<1> QED
  BY <1>3

\* A list is one of the elements it holds.
LEMMA ListOfRange ==
  ASSUME NEW S, NEW list \in Seq(S)
  PROVE  list \in Seq(Range(list)) /\ Range(list) \subseteq S
BY DEF Range

----------------------------------------------------------------------------
(* What is left of a list. *)

\* The first occurrence of an element is removed.
LEMMA RemoveFirstThere ==
  ASSUME NEW S, NEW s \in Seq(S), NEW t \in Seq(S), NEW e \in S,
         \A k \in 1..Len(s) : s[k] # e
  PROVE  RemoveFirst(s \o <<e>> \o t, e) = s \o t
<1> DEFINE l == s \o <<e>> \o t
           m == Len(s) + 1
<1>1. /\ l \in Seq(S) /\ Len(l) = m + Len(t) /\ m \in 1..Len(l) /\ l[m] = e
      /\ \A k \in 1..Len(l) : l[k] = e => m <= k
  OBVIOUS
<1>2. SelectInSeq(l, LAMBDA v : v = e) = m
  <2>1. m \in {k \in 1..Len(l) : l[k] = e}
        /\ \A k \in {j \in 1..Len(l) : l[j] = e} : m <= k
    BY <1>1
  <2>2. \A k \in {j \in 1..Len(l) : l[j] = e} : k <= m => k = m
    BY <1>1
  <2> QED
    BY <2>1, <2>2 DEF SelectInSeq, Min
<1>3. RemoveFirst(l, e) = SubSeq(l, 1, m - 1) \o SubSeq(l, m + 1, Len(l))
  BY <1>1, <1>2 DEF RemoveFirst, RemoveAt
<1>4. SubSeq(l, 1, m - 1) = s /\ SubSeq(l, m + 1, Len(l)) = t
  OBVIOUS
<1> QED
  BY <1>3, <1>4

\* Removing one occurrence brings in nothing new.
LEMMA RemoveFirstIn ==
  ASSUME NEW S, NEW s \in Seq(S), NEW e
  PROVE  RemoveFirst(s, e) \in Seq(S)
<1> DEFINE I == {k \in 1..Len(s) : s[k] = e}
<1>1. CASE I # {}
  <2>1. \E m \in I : \A k \in I : m <= k
    BY <1>1, I \in SUBSET Nat, NatMin
  <2>2. Min(I) \in 1..Len(s)
    BY <2>1 DEF Min
  <2>3. RemoveFirst(s, e) = SubSeq(s, 1, Min(I) - 1)
                              \o SubSeq(s, Min(I) + 1, Len(s))
    BY <1>1 DEF RemoveFirst, RemoveAt, SelectInSeq
  <2> HIDE DEF I
  <2> QED
    BY <2>2, <2>3
<1>2. CASE I = {}
  BY <1>2 DEF RemoveFirst
<1> QED
  BY <1>1, <1>2

\* Removing from a list leaves a list.
LEMMA RemoveFirstSeq ==
  ASSUME NEW S, NEW s \in Seq(S)
  PROVE  \A e : RemoveFirst(s, e) \in Seq(S)
BY RemoveFirstIn

EntriesStep(entries, S) ==
  [p \in Seq(S) \X (1..Len(entries)) |-> RemoveFirst(p[1], entries[p[2]])]

\* EntriesToRemove is made by the steps of a fold.
LEMMA EntriesMade ==
  ASSUME NEW S, NEW E, NEW entries \in Seq(E), NEW list \in Seq(S)
  PROVE  \E g : Makes(g, Len(entries), Seq(S), list, EntriesStep(entries, S),
                      EntriesToRemove(entries, list))
<1> DEFINE n == Len(entries)
           X == Seq(S)
           h == EntriesStep(entries, S)
           Eq(g) == g = [s \in SUBSET (1..n) |->
                           IF s = {} THEN list
                           ELSE RemoveFirst(g[s \ {Max(s)}], entries[Max(s)])]
           c == CHOOSE g : Eq(g)
<1>1. n \in Nat /\ DOMAIN entries = 1..n /\ list \in X
  OBVIOUS
<1>2. h \in [X \X (1..n) -> X]
  BY RemoveFirstSeq DEF EntriesStep
<1>3. \A x \in X, k \in 1..n : h[<<x, k>>] = RemoveFirst(x, entries[k])
  BY DEF EntriesStep
<1> HIDE DEF n, X, h
<1>4. EntriesToRemove(entries, list) = c[1..n]
  BY <1>1 DEF EntriesToRemove, FoldLeft, MapThenFoldSet
<1>5. PICK g : IsFold(g, n, X, list, h)
  BY <1>1, <1>2, FoldExists
<1>6. ASSUME NEW s \in SUBSET (1..n), s # {}, NEW f, f[s \ {Max(s)}] \in X
      PROVE  h[<<f[s \ {Max(s)}], Max(s)>>] =
               RemoveFirst(f[s \ {Max(s)}], entries[Max(s)])
  <2>1. Max(s) \in 1..n
    BY <1>1, <1>6, MaxIndex
  <2> QED
    BY <1>3, <1>6, <2>1
<1>7. Eq(g)
  <2>1. \A s \in SUBSET (1..n) : s \ {Max(s)} \in SUBSET (1..n)
    OBVIOUS
  <2> QED
    BY <1>5, <1>6, <2>1 DEF IsFold
<1>8. Eq(c)
  BY <1>7
<1>9. c[{}] = list /\ \A s \in SUBSET (1..n) : s # {} =>
        c[s] = RemoveFirst(c[s \ {Max(s)}], entries[Max(s)])
  BY <1>8
<1> HIDE DEF c
<1>10. \E f : Makes(f, n, X, list, h, c[1..n])
  <2>1. \A s \in SUBSET (1..n) : s # {} /\ c[s \ {Max(s)}] \in X =>
          c[s] = h[<<c[s \ {Max(s)}], Max(s)>>]
    BY <1>6, <1>9
  <2> QED
    BY <1>1, <1>2, <1>9, <2>1, FoldMade
<1> QED
  BY <1>4, <1>10 DEF n, X, h

\* Removing entries leaves a list of what was there.
LEMMA EntriesIn ==
  ASSUME NEW S, NEW E, NEW entries \in Seq(E), NEW list \in Seq(S)
  PROVE  /\ EntriesToRemove(entries, list) \in Seq(S)
         /\ entries = <<>> => EntriesToRemove(entries, list) = list
<1>1. PICK g : Makes(g, Len(entries), Seq(S), list, EntriesStep(entries, S),
                     EntriesToRemove(entries, list))
  BY EntriesMade
<1>2. Len(entries) \in Nat /\ (entries = <<>> => Len(entries) = 0)
  OBVIOUS
<1> QED
  BY <1>1, <1>2, MadeInX

\* A further entry is removed after the others.
LEMMA EntriesAppend ==
  ASSUME NEW S, NEW E, NEW entries \in Seq(E), NEW e \in E, NEW list \in Seq(S)
  PROVE  EntriesToRemove(Append(entries, e), list) =
           RemoveFirst(EntriesToRemove(entries, list), e)
<1> DEFINE n == Len(entries)
           longer == Append(entries, e)
           a == EntriesStep(entries, S)
           b == EntriesStep(longer, S)
<1>1. /\ n \in Nat /\ longer \in Seq(E) /\ Len(longer) = n + 1
      /\ longer[n + 1] = e /\ \A k \in 1..n : longer[k] = entries[k]
  OBVIOUS
<1>2. /\ \A x \in Seq(S), k \in 1..n :
           a[<<x, k>>] = RemoveFirst(x, entries[k])
      /\ \A x \in Seq(S), k \in 1..(n + 1) :
           b[<<x, k>>] = RemoveFirst(x, longer[k])
  BY <1>1 DEF EntriesStep
<1>3. PICK g : Makes(g, n, Seq(S), list, a, EntriesToRemove(entries, list))
  BY EntriesMade
<1>4. PICK d : Makes(d, n + 1, Seq(S), list, b, EntriesToRemove(longer, list))
  <2>1. \E d : Makes(d, Len(longer), Seq(S), list, b,
                     EntriesToRemove(longer, list))
    BY <1>1, EntriesMade
  <2> QED
    BY <1>1, <2>1
<1> HIDE DEF n, longer, a, b
<1>5. ASSUME NEW x \in Seq(S), NEW k \in 1..n
      PROVE  a[<<x, k>>] = b[<<x, k>>]
  <2>1. k \in 1..(n + 1) /\ longer[k] = entries[k]
    BY <1>1
  <2> QED
    BY <1>2, <2>1
<1>6. /\ EntriesToRemove(entries, list) \in Seq(S)
      /\ EntriesToRemove(longer, list) =
           b[<<EntriesToRemove(entries, list), n + 1>>]
  BY <1>1, <1>3, <1>4, <1>5, MadeLast
<1> QED
  BY <1>1, <1>2, <1>6 DEF longer

\* entries_to_remove takes all that is bad: although list.remove takes the
\* first occurrence only, there is an entry for each occurrence.
LEMMA WithoutBad ==
  ASSUME NEW S, NEW list \in Seq(S), NEW bad
  PROVE  Without(list, bad) \in Seq(S \ bad)
<1> DEFINE good == S \ bad
           Left(l, t) == EntriesToRemove(Chosen(l, bad), l \o t)
           G == {l \in Seq(S) : \A t \in Seq(S) :
                                  Left(l, t) = Chosen(l, good) \o t}
<1>1. <<>> \in G
  <2>1. <<>> \in Seq(S) /\ \A t \in Seq(S) : <<>> \o t = t
    OBVIOUS
  <2>2. \A t \in Seq(S) : EntriesToRemove(<<>>, t) = t
    BY <2>1, EntriesIn
  <2> QED
    BY <2>1, <2>2, ChosenEmpty
<1>2. ASSUME NEW l \in Seq(S), NEW e \in S, l \in G, NEW t \in Seq(S)
      PROVE  Left(Append(l, e), t) = Chosen(Append(l, e), good) \o t
  <2> DEFINE kept == Chosen(l, good)
             entries == Chosen(l, bad)
  <2>1. /\ <<e>> \o t \in Seq(S)
        /\ Append(l, e) \o t = l \o (<<e>> \o t)
        /\ l \o (<<e>> \o t) \in Seq(S)
    OBVIOUS
  <2>2. EntriesToRemove(entries, l \o (<<e>> \o t)) = kept \o (<<e>> \o t)
    BY <1>2, <2>1
  <2>3. kept \in Seq(good \cap S) /\ entries \in Seq(S)
    BY ChosenFrom, ChosenIn
  <2>4. Chosen(Append(l, e), good) = IF e \in good THEN Append(kept, e) ELSE kept
    BY ChosenAppend
  <2>5. Chosen(Append(l, e), bad) = IF e \in bad THEN Append(entries, e) ELSE entries
    BY ChosenAppend
  <2> HIDE DEF kept, entries
  <2>6. CASE e \in bad
    <3>1. EntriesToRemove(Append(entries, e), l \o (<<e>> \o t)) =
            RemoveFirst(kept \o (<<e>> \o t), e)
      <4>1. \A m \in Seq(S) : EntriesToRemove(Append(entries, e), m) =
              RemoveFirst(EntriesToRemove(entries, m), e)
        BY <2>3, EntriesAppend
      <4> QED
        BY <2>1, <2>2, <4>1
    <3>2. /\ kept \o (<<e>> \o t) = kept \o <<e>> \o t
          /\ kept \in Seq(S) /\ \A k \in 1..Len(kept) : kept[k] # e
      BY <2>3, <2>6
    <3>3. RemoveFirst(kept \o <<e>> \o t, e) = kept \o t
      BY <3>2, RemoveFirstThere
    <3> QED
      BY <2>1, <2>4, <2>5, <2>6, <3>1, <3>2, <3>3
  <2>7. CASE e \notin bad
    <3>1. kept \o (<<e>> \o t) = Append(kept, e) \o t
      <4>1. kept \in Seq(S)
        BY <2>3
      <4>2. Append(kept, e) = kept \o <<e>>
        BY <4>1
      <4>3. kept \o (<<e>> \o t) = (kept \o <<e>>) \o t
        BY <4>1
      <4> QED
        BY <4>2, <4>3
    <3> QED
      BY <2>1, <2>2, <2>4, <2>5, <2>7, <3>1
  <2> QED
    BY <2>6, <2>7
<1>3. Seq(S) \subseteq G
  <2>1. \A l \in Seq(S), e \in S : l \in G => Append(l, e) \in G
    <3>1. \A l \in Seq(S), e \in S : Append(l, e) \in Seq(S)
      OBVIOUS
    <3> HIDE DEF Left
    <3> QED
      BY <1>2, <3>1
  <2> HIDE DEF G
  <2> QED
    BY <1>1, <2>1, ListInduction
<1>4. Left(list, <<>>) = Chosen(list, good) \o <<>>
  <2>1. <<>> \in Seq(S)
    OBVIOUS
  <2> HIDE DEF Left
  <2> QED
    BY <1>3, <2>1
<1>5. Chosen(list, good) \in Seq(good \cap S)
  BY ChosenFrom
<1>6. list \o <<>> = list /\ \A l \in Seq(good \cap S) : l \o <<>> = l /\ l \in Seq(good)
  OBVIOUS
<1> QED
  BY <1>4, <1>5, <1>6 DEF Without

\* Recursion over the numbers up to n.
Recurs(f, n, X, base, h) ==
  /\ f \in [0..n -> X]
  /\ f[0] = base /\ \A k \in 1..n : f[k] = h[<<f[k - 1], k>>]

\* A recursion over 1..n within X has a solution.
LEMMA Recursion ==
  ASSUME NEW n \in Nat, NEW X, NEW base \in X, NEW h \in [X \X (1..n) -> X]
  PROVE  \E f : Recurs(f, n, X, base, h)
<1>1. PICK g : IsFold(g, n, X, base, h)
  BY FoldExists
<1> DEFINE f == [k \in 0..n |-> g[1..k]]
<1>2. \A k \in 0..n : 1..k \in SUBSET (1..n)
  OBVIOUS
<1>3. f \in [0..n -> X] /\ f[0] = base
  <2>1. 1..0 = {} /\ 0 \in 0..n
    OBVIOUS
  <2> QED
    BY <1>1, <1>2, <2>1 DEF IsFold
<1>4. ASSUME NEW k \in 1..n
      PROVE  f[k] = h[<<f[k - 1], k>>]
  <2>1. k \in Nat /\ k # 0 /\ k \in 0..n /\ k - 1 \in 0..n
    OBVIOUS
  <2>2. Max(1..k) = k /\ (1..k) \ {Max(1..k)} = 1..(k - 1) /\ 1..k # {}
    BY <2>1, MaxOfRange
  <2> QED
    BY <1>1, <1>2, <2>1, <2>2 DEF IsFold
<1>5. Recurs(f, n, X, base, h)
  BY <1>3, <1>4 DEF Recurs
<1> QED
  BY <1>5

\* The concatenation of lists of S is a list of S.
LEMMA FlattenIn ==
  ASSUME NEW S, NEW seqs \in Seq(Seq(S))
  PROVE  FlattenSeq(seqs) \in Seq(S)
<1> DEFINE n == Len(seqs)
           Eq(g) == g = [k \in 1..n |-> IF k = 1 THEN seqs[k]
                                        ELSE g[k - 1] \o seqs[k]]
           c == CHOOSE g : Eq(g)
           h == [p \in Seq(S) \X (1..n) |->
                   IF p[2] = 1 THEN seqs[p[2]] ELSE p[1] \o seqs[p[2]]]
<1>1. n \in Nat /\ <<>> \in Seq(S) /\ \A k \in 1..n : seqs[k] \in Seq(S)
  OBVIOUS
<1>2. CASE n = 0
  BY <1>2 DEF FlattenSeq
<1>3. CASE n # 0
  <2>1. FlattenSeq(seqs) = c[n]
    BY <1>3 DEF FlattenSeq
  <2>2. h \in [Seq(S) \X (1..n) -> Seq(S)]
    OBVIOUS
  <2>3. \A x \in Seq(S), k \in 1..n :
          h[<<x, k>>] = IF k = 1 THEN seqs[k] ELSE x \o seqs[k]
    OBVIOUS
  <2> HIDE DEF n, h
  <2>4. PICK f : Recurs(f, n, Seq(S), <<>>, h)
    BY <1>1, <2>2, Recursion
  <2>5. \A k \in 1..n : k \in 0..n /\ k - 1 \in 0..n /\ (k # 1 => k - 1 \in 1..n)
    BY <1>1
  <2>6. \A k \in 1..n : f[k] = IF k = 1 THEN seqs[k] ELSE f[k - 1] \o seqs[k]
    BY <2>3, <2>4, <2>5 DEF Recurs
  <2> DEFINE r == [k \in 1..n |-> f[k]]
  <2>7. Eq(r)
    BY <2>5, <2>6
  <2>8. Eq(c)
    BY <2>7
  <2>9. \A k \in 1..n : c[k] = IF k = 1 THEN seqs[k] ELSE c[k - 1] \o seqs[k]
    BY <2>8
  <2> DEFINE T == {k \in Nat : k \in 1..n => c[k] \in Seq(S)}
  <2>10. 0 \in T
    OBVIOUS
  <2> HIDE DEF c
  <2>11. ASSUME NEW k \in Nat, k \in T, k + 1 \in 1..n
         PROVE  c[k + 1] \in Seq(S)
    <3>1. c[k + 1] = IF k + 1 = 1 THEN seqs[k + 1] ELSE c[(k + 1) - 1] \o seqs[k + 1]
      BY <2>9, <2>11
    <3>2. (k + 1) - 1 = k /\ (k + 1 # 1 => k \in 1..n)
      BY <1>1, <2>11
    <3> QED
      BY <1>1, <2>11, <3>1, <3>2
  <2>12. \A k \in Nat : k \in T => k + 1 \in T
    BY <2>11
  <2>13. n \in T
    <3> HIDE DEF T
    <3> QED
      BY <1>1, <2>10, <2>12, NatSetInduction
  <2> QED
    BY <1>1, <1>3, <2>1, <2>13
<1> QED
  BY <1>2, <1>3

----------------------------------------------------------------------------
(* The elements of a document. *)

\* The elements of a document are numbered, and all but html have a parent
\* with a smaller number.
LEMMA DocumentShape ==
  ASSUME NEW doc, IsDocument(doc)
  PROVE  /\ Len(doc) \in Nat \ {0} /\ DOMAIN doc = 1..Len(doc)
         /\ Html \in DOMAIN doc
         /\ \A e \in DOMAIN doc \ {Html} :
              doc[e].up \in 1..(e - 1) /\ (e # Body => doc[e].up # Html)
<1>1. Len(doc) \in Nat \ {0} /\ DOMAIN doc = 1..Len(doc)
  BY DEF IsDocument
<1>2. \A e \in DOMAIN doc \ {Html} :
        doc[e].up \in DOMAIN doc /\ doc[e].up < e /\ (e > Body => doc[e].up # Html)
  BY DEF IsDocument
<1> QED
  BY <1>1, <1>2 DEF Html, Body

AreLines(f, n, up) ==
  /\ f \in [1..n -> Seq(1..n)]
  /\ \A e \in 1..n : f[e] = IF e = 1 THEN <<e>> ELSE <<e>> \o f[up[e]]

\* The recursion of Ancestry has a solution.
LEMMA LinesExist ==
  ASSUME NEW n \in Nat \ {0}, NEW up, \A e \in 2..n : up[e] \in 1..(e - 1)
  PROVE  \E f : AreLines(f, n, up)
<1> DEFINE Lines(f, k) ==
             \A e \in 1..k : f[e] = IF e = 1 THEN <<e>> ELSE <<e>> \o f[up[e]]
           T == {k \in Nat : k <= n => \E f \in [1..k -> Seq(1..n)] : Lines(f, k)}
<1>1. 0 \in T
  <2>1. [e \in 1..0 |-> <<>>] \in [1..0 -> Seq(1..n)]
    OBVIOUS
  <2>2. Lines([e \in 1..0 |-> <<>>], 0)
    OBVIOUS
  <2> QED
    BY <2>1, <2>2
<1>2. ASSUME NEW k \in Nat, k \in T, k + 1 <= n
      PROVE  \E f \in [1..(k + 1) -> Seq(1..n)] : Lines(f, k + 1)
  <2>0. k <= n
    BY <1>2
  <2>1. PICK f \in [1..k -> Seq(1..n)] : Lines(f, k)
    <3> HIDE DEF Lines
    <3> QED
      BY <1>2, <2>0
  <2> DEFINE g == [e \in 1..(k + 1) |->
                     IF e # k + 1 THEN f[e]
                     ELSE IF e = 1 THEN <<e>> ELSE <<e>> \o f[up[e]]]
  <2>2. g \in [1..(k + 1) -> Seq(1..n)]
    <3>1. ASSUME NEW e \in 1..(k + 1)
          PROVE  g[e] \in Seq(1..n)
      <4>1. CASE e # k + 1
        <5>1. e \in 1..k
          BY <4>1
        <5> QED
          BY <4>1, <5>1
      <4>2. CASE e = k + 1
        <5>1. e \in 1..n /\ (e # 1 => e \in 2..n /\ e - 1 = k)
          BY <1>2, <4>2
        <5>2. e # 1 => f[up[e]] \in Seq(1..n)
          BY <5>1
        <5>3. <<e>> \in Seq(1..n)
          BY <5>1
        <5>4. e # 1 => <<e>> \o f[up[e]] \in Seq(1..n)
          BY <5>2, <5>3
        <5> QED
          BY <4>2, <5>3, <5>4
      <4> QED
        BY <4>1, <4>2
    <3> QED
      BY <3>1
  <2>3. ASSUME NEW e \in 1..(k + 1)
        PROVE  g[e] = IF e = 1 THEN <<e>> ELSE <<e>> \o g[up[e]]
    <3>1. e # 1 => up[e] \in 1..k /\ up[e] \in 1..(k + 1) /\ up[e] # k + 1
      <4>1. e # 1 => e \in 2..n
        BY <1>2
      <4> QED
        BY <4>1
    <3>2. e # 1 => g[up[e]] = f[up[e]]
      BY <3>1
    <3>3. e # k + 1 => e \in 1..k /\ g[e] = f[e]
      OBVIOUS
    <3>4. e = k + 1 => g[e] = IF e = 1 THEN <<e>> ELSE <<e>> \o f[up[e]]
      OBVIOUS
    <3> HIDE DEF g
    <3> QED
      BY <2>1, <3>2, <3>3, <3>4
  <2> HIDE DEF g
  <2> QED
    BY <2>2, <2>3
<1>3. n \in T
  <2>1. \A k \in Nat : k \in T => k + 1 \in T
    <3>1. \A k \in Nat : k \in T <=>
            (k <= n => \E f \in [1..k -> Seq(1..n)] : Lines(f, k))
      <4> HIDE DEF Lines
      <4> QED
        OBVIOUS
    <3>2. \A k \in Nat : k + 1 \in Nat
      OBVIOUS
    <3> HIDE DEF T, Lines
    <3> QED
      BY <1>2, <3>1, <3>2
  <2> HIDE DEF T
  <2> QED
    BY <1>1, <2>1, NatSetInduction
<1>4. PICK f \in [1..n -> Seq(1..n)] : Lines(f, n)
  <2> HIDE DEF Lines
  <2> QED
    BY <1>3, n <= n
<1>5. AreLines(f, n, up)
  BY <1>4 DEF AreLines
<1> QED
  BY <1>5

\* Induction from all that is smaller, for sets.
LEMMA StrongInduction ==
  ASSUME NEW T, \A k \in Nat : (\A j \in Nat : j < k => j \in T) => k \in T
  PROVE  Nat \subseteq T
<1> DEFINE U == {k \in Nat : k \notin T}
<1> SUFFICES ASSUME U # {}
             PROVE  FALSE
  OBVIOUS
<1>1. PICK x \in U : \A y \in U : x <= y
  BY NatMin
<1>2. \A j \in Nat : j < x => j \in T
  BY <1>1
<1> QED
  BY <1>1, <1>2

\* Ancestry satisfies its own recursion.
LEMMA AncestryLines ==
  ASSUME NEW doc, IsDocument(doc)
  PROVE  /\ DOMAIN Ancestry(doc) = DOMAIN doc
         /\ \A e \in DOMAIN doc :
              /\ Ancestry(doc)[e] \in Seq(DOMAIN doc)
              /\ Ancestry(doc)[e] = IF e = Html THEN <<e>>
                                    ELSE <<e>> \o Ancestry(doc)[doc[e].up]
<1> DEFINE n == Len(doc)
           up == [e \in 1..n |-> doc[e].up]
           Eq(f) == f = [e \in 1..n |-> IF e = Html THEN <<e>>
                                        ELSE <<e>> \o f[doc[e].up]]
           c == CHOOSE f : Eq(f)
<1>1. /\ n \in Nat \ {0} /\ DOMAIN doc = 1..n
      /\ \A e \in 2..n : up[e] \in 1..(e - 1)
  <2>1. /\ n \in Nat \ {0} /\ DOMAIN doc = 1..n
        /\ \A e \in DOMAIN doc \ {1} : doc[e].up \in 1..(e - 1)
    BY DocumentShape DEF Html
  <2>2. \A e \in 2..n : e \in 1..n /\ e # 1
    OBVIOUS
  <2> QED
    BY <2>1, <2>2
<1>2. Ancestry(doc) = c
  BY <1>1 DEF Ancestry
<1>3. PICK f : AreLines(f, n, up)
  <2> HIDE DEF n, up
  <2> QED
    BY <1>1, LinesExist
<1>4. Eq(f)
  BY <1>3 DEF Html, AreLines
<1>5. Eq(c)
  BY <1>4
<1>6. DOMAIN c = 1..n
      /\ \A e \in 1..n : c[e] = IF e = Html THEN <<e>> ELSE <<e>> \o c[doc[e].up]
  BY <1>5
<1> DEFINE T == {e \in Nat : e \in 1..n => c[e] \in Seq(1..n)}
<1>7. ASSUME NEW e \in Nat, \A j \in Nat : j < e => j \in T, e \in 1..n
      PROVE  c[e] \in Seq(1..n)
  <2> HIDE DEF c
  <2>0. <<e>> \in Seq(1..n)
    BY <1>7
  <2>1. CASE e = Html
    BY <1>6, <1>7, <2>0, <2>1
  <2>2. CASE e # Html
    <3>1. e \in 2..n
      BY <1>7, <2>2 DEF Html
    <3>2. doc[e].up \in 1..(e - 1)
      BY <1>1, <1>7, <3>1
    <3>3. doc[e].up \in Nat /\ doc[e].up < e /\ doc[e].up \in 1..n
      BY <1>1, <3>1, <3>2
    <3>4. c[doc[e].up] \in Seq(1..n)
      BY <1>7, <3>3
    <3> QED
      <4>1. c[e] = <<e>> \o c[doc[e].up]
        BY <1>6, <1>7, <2>2
      <4> QED
        BY <2>0, <3>4, <4>1
  <2> QED
    BY <2>1, <2>2
<1>8. Nat \subseteq T
  <2>1. \A e \in Nat : (\A j \in Nat : j < e => j \in T) => e \in T
    BY <1>7
  <2> HIDE DEF T
  <2> QED
    BY <2>1, StrongInduction
<1> QED
  <2> HIDE DEF c
  <2>1. \A e \in 1..n : c[e] \in Seq(1..n)
    <3>1. \A e \in 1..n : e \in Nat
      OBVIOUS
    <3> QED
      BY <1>8, <3>1
  <2> HIDE DEF n
  <2> QED
    BY <1>1, <1>2, <1>6, <2>1

\* A line begins with its element, ends with html, which occurs there only,
\* and has body before it.
IsLine(line, e) ==
  /\ Len(line) >= 1 /\ line[1] = e /\ line[Len(line)] = Html
  /\ \A k \in 1..(Len(line) - 1) : line[k] # Html
  /\ e # Html => Len(line) >= 2 /\ line[Len(line) - 1] = Body

\* The lines of a document are lines: from the element to body and html.
LEMMA Lines ==
  ASSUME NEW doc, IsDocument(doc), NEW e \in DOMAIN doc
  PROVE  Ancestry(doc)[e] \in Seq(DOMAIN doc) /\ IsLine(Ancestry(doc)[e], e)
<1> DEFINE T == {d \in Nat : d \in DOMAIN doc => IsLine(Ancestry(doc)[d], d)}
<1>1. ASSUME NEW d \in Nat, \A j \in Nat : j < d => j \in T, d \in DOMAIN doc
      PROVE  IsLine(Ancestry(doc)[d], d)
  <2>1. Ancestry(doc)[d] = IF d = Html THEN <<d>>
                           ELSE <<d>> \o Ancestry(doc)[doc[d].up]
    BY <1>1, AncestryLines
  <2>2. CASE d = Html
    BY <2>1, <2>2 DEF IsLine
  <2>3. CASE d # Html
    <3> DEFINE u == doc[d].up
               rest == Ancestry(doc)[u]
    <3>1. u \in 1..(d - 1) /\ u \in DOMAIN doc /\ (d # Body => u # Html)
      BY <1>1, <2>3, DocumentShape
    <3>2. u \in Nat /\ u < d
      BY <3>1
    <3>3. rest \in Seq(DOMAIN doc) /\ IsLine(rest, u)
      BY <1>1, <3>1, <3>2, AncestryLines
    <3>4. u = Html => Len(rest) = 1
      <4> HIDE DEF u, rest
      <4>1. Len(rest) \in Nat /\ Len(rest) >= 1 /\ rest[1] = u
            /\ \A k \in 1..(Len(rest) - 1) : rest[k] # Html
        BY <3>3 DEF IsLine
      <4>2. \A m \in Nat : m >= 1 /\ m # 1 => 1 \in 1..(m - 1)
        OBVIOUS
      <4>3. Len(rest) # 1 => 1 \in 1..(Len(rest) - 1)
        BY <4>1, <4>2, Zenon
      <4> QED
        BY <4>1, <4>3
    <3>5. Ancestry(doc)[d] = <<d>> \o rest
      BY <2>1, <2>3
    <3>6. u = Html => d = Body
      BY <3>1
    <3> DEFINE line == <<d>> \o rest
    <3>7. /\ Len(line) = Len(rest) + 1 /\ Len(rest) \in Nat /\ line[1] = d
          /\ \A k \in 2..Len(line) : line[k] = rest[k - 1]
      BY <3>3
    <3> HIDE DEF u, rest, line
    <3>8. Len(line) >= 2 /\ line[Len(line)] = Html
      BY <3>3, <3>7 DEF IsLine
    <3>9. \A k \in 1..(Len(line) - 1) : line[k] # Html
      BY <2>3, <3>3, <3>7 DEF IsLine
    <3>10. line[Len(line) - 1] = Body
      <4>1. CASE u = Html
        <5>1. Len(line) = 1 + 1
          BY <3>4, <3>7, <4>1, Zenon
        <5>2. Len(line) = 2 /\ Len(line) - 1 = 1
          BY <5>1
        <5> QED
          BY <3>6, <3>7, <4>1, <5>2, Zenon
      <4>2. CASE u # Html
        BY <3>3, <3>7, <4>2 DEF IsLine
      <4> QED
        BY <4>1, <4>2
    <3>11. IsLine(line, d)
      BY <3>7, <3>8, <3>9, <3>10 DEF IsLine
    <3> QED
      BY <3>5, <3>11 DEF line
  <2> QED
    BY <2>2, <2>3
<1>2. Nat \subseteq T
  <2>1. \A d \in Nat : (\A j \in Nat : j < d => j \in T) => d \in T
    BY <1>1
  <2> HIDE DEF T
  <2> QED
    BY <2>1, StrongInduction
<1>3. e \in Nat
  BY DocumentShape
<1> QED
  BY <1>2, <1>3, AncestryLines

\* A set of indices has a least.
LEMMA LeastIndex ==
  ASSUME NEW n \in Nat, NEW I \in SUBSET (1..n), I # {}
  PROVE  Min(I) \in I
<1>1. PICK x \in I : \A y \in I : x <= y
  BY I \in SUBSET Nat, NatMin
<1> QED
  BY <1>1 DEF Min

\* A fixed ancestor is on the line of the element.
LEMMA FixedAncestorOnLine ==
  ASSUME NEW doc, IsDocument(doc), NEW e \in DOMAIN doc
  PROVE  FindFixedAncestor(doc, e) \in {NoElement} \cup Range(Ancestry(doc)[e])
<1> DEFINE line == Ancestry(doc)[e]
           I == {k \in 1..Len(Front(line)) : doc[Front(line)[k]].fixed}
<1>1. line \in Seq(DOMAIN doc) /\ Len(line) >= 1
  BY Lines DEF IsLine
<1>2. /\ Len(Front(line)) \in Nat
      /\ \A k \in 1..Len(Front(line)) : k # 0 /\ Front(line)[k] \in Range(line)
  <2> HIDE DEF line
  <2> QED
    BY <1>1 DEF Front, Range
<1>3. FindFixedAncestor(doc, e) = IF I = {} THEN NoElement ELSE Front(line)[Min(I)]
  <2>1. I # {} => Min(I) # 0
    BY <1>2, LeastIndex
  <2> QED
    BY <2>1 DEF FindFixedAncestor, Nearest, SelectInSeq
<1>4. I # {} => Min(I) \in 1..Len(Front(line))
  BY <1>2, LeastIndex
<1> QED
  BY <1>2, <1>3, <1>4

\* So is a stacked one.
LEMMA ZindexAncestorOnLine ==
  ASSUME NEW doc, IsDocument(doc), NEW e \in DOMAIN doc
  PROVE  FineAncestorWithIntZindex(doc, e)
           \in {NoElement} \cup Range(Ancestry(doc)[e])
<1> DEFINE line == Ancestry(doc)[e]
           I == {k \in 1..Len(Front(line)) : doc[Front(line)[k]].zindex}
<1>1. line \in Seq(DOMAIN doc) /\ Len(line) >= 1
  BY Lines DEF IsLine
<1>2. /\ Len(Front(line)) \in Nat
      /\ \A k \in 1..Len(Front(line)) : k # 0 /\ Front(line)[k] \in Range(line)
  <2> HIDE DEF line
  <2> QED
    BY <1>1 DEF Front, Range
<1>3. FineAncestorWithIntZindex(doc, e) =
        IF I = {} THEN NoElement ELSE Front(line)[Min(I)]
  <2>1. I # {} => Min(I) # 0
    BY <1>2, LeastIndex
  <2> QED
    BY <2>1 DEF FineAncestorWithIntZindex, Nearest, SelectInSeq
<1>4. I # {} => Min(I) \in 1..Len(Front(line))
  BY <1>2, LeastIndex
<1> QED
  BY <1>2, <1>3, <1>4

\* An element is in or below all the elements of its line.
LEMMA InOrBelow ==
  ASSUME NEW doc, IsDocument(doc), NEW d \in DOMAIN doc,
         NEW e \in Range(Ancestry(doc)[d])
  PROVE  d \in Below(doc, e) \cup {e}
<1>1. Ancestry(doc)[d] \in Seq(DOMAIN doc)
  BY AncestryLines
<1>2. Contains(Ancestry(doc)[d], e)
  BY <1>1 DEF Contains, Range
<1> QED
  BY <1>2 DEF Below

\* The element that a search settles on lies between its two ends.
LEMMA OptimalOnLine ==
  ASSUME NEW doc, IsDocument(doc), NEW to \in DOMAIN doc,
         NEW from \in Range(Ancestry(doc)[to]), NEW frame
  PROVE  FindOptimal(doc, from, to, frame) \in Range(Ancestry(doc)[to])
<1> DEFINE line == Ancestry(doc)[to]
           I == {k \in 1..Len(line) : line[k] = from}
           m == Min(I)
           path == FindPath(doc, from, to)
<1>1. line \in Seq(DOMAIN doc) /\ Len(line) \in Nat
  <2>1. line \in Seq(DOMAIN doc)
    BY AncestryLines
  <2> QED
    BY <2>1
<1>2. I # {} /\ m \in 1..Len(line)
  <2>1. I # {}
    BY <1>1 DEF Range
  <2>2. m \in I
    BY <1>1, <2>1, LeastIndex
  <2> QED
    BY <2>1, <2>2
<1>3. path = Reverse(SubSeq(line, 1, m))
  BY <1>2 DEF FindPath, SelectInSeq
<1>4. /\ DOMAIN path = 1..m /\ Len(path) = m /\ m \in Nat \ {0}
      /\ \A k \in 1..m : path[k] \in Range(line)
  <2> HIDE DEF line, m, path
  <2>1. /\ SubSeq(line, 1, m) \in Seq(DOMAIN doc) /\ Len(SubSeq(line, 1, m)) = m
        /\ m \in Nat \ {0}
        /\ \A k \in 1..m : SubSeq(line, 1, m)[k] = line[k]
    BY <1>1, <1>2
  <2>2. /\ path = [k \in 1..m |-> SubSeq(line, 1, m)[(m - k) + 1]]
    BY <1>3, <2>1 DEF Reverse
  <2>3. \A k \in 1..m : (m - k) + 1 \in 1..m
    BY <2>1
  <2>4. \A k \in 1..m : line[k] \in Range(line)
    BY <1>1, <1>2 DEF Range
  <2>5. \A k \in 1..m : path[k] = line[(m - k) + 1]
    BY <2>1, <2>2, <2>3
  <2>6. path \in Seq(Range(line)) /\ DOMAIN path = 1..m
    BY <2>1, <2>2, <2>3, <2>4, <2>5
  <2> QED
    BY <2>1, <2>3, <2>4, <2>5, <2>6
<1> DEFINE K == {k \in DOMAIN path :
                   k = Len(path) \/ IsFine(doc, path, k, frame)}
<1>5. K \in SUBSET (1..m) /\ m \in K
      /\ FindOptimal(doc, from, to, frame) = path[Min(K)]
  BY <1>4 DEF FindOptimal, ShrinkAlong
<1>6. Min(K) \in 1..m
  BY <1>4, <1>5, LeastIndex
<1> QED
  BY <1>4, <1>5, <1>6

\* Every element but html is deeper than html.
LEMMA DepthOf ==
  ASSUME NEW doc, IsDocument(doc), NEW e \in DOMAIN doc \ {Html}
  PROVE  FindDepth(doc, e) > 0
<1>1. Ancestry(doc)[e] \in Seq(DOMAIN doc) /\ Len(Ancestry(doc)[e]) >= 2
  BY Lines DEF IsLine
<1>2. Len(Ancestry(doc)[e]) \in Nat
  BY <1>1
<1> QED
  BY <1>1, <1>2 DEF FindDepth

\* The last step of a fold.
IsStep(r, n, X, h) == \E x \in X : r = h[<<x, n>>]

\* What a fold over a list that is not empty makes comes from its last step.
LEMMA MadeByStep ==
  ASSUME NEW n \in Nat \ {0}, NEW X, NEW base, NEW h, NEW r, NEW g,
         Makes(g, n, X, base, h, r)
  PROVE  IsStep(r, n, X, h)
<1>1. /\ Max(1..n) = n /\ 1..n # {}
      /\ 1..n \in SUBSET (1..n) /\ (1..n) \ {n} \in SUBSET (1..n)
  BY MaxOfRange
<1> QED
  BY <1>1 DEF Makes, IsFold, IsStep

DeepestStep(doc, els) ==
  [p \in ({NoElement} \cup Range(els)) \X (1..Len(els)) |->
     IF FindDepth(doc, els[p[2]]) > (IF p[1] = NoElement THEN 0
                                     ELSE FindDepth(doc, p[1]))
     THEN els[p[2]] ELSE p[1]]

\* FindDeepest is made by the steps of a fold.
LEMMA DeepestMade ==
  ASSUME NEW doc, NEW E, NEW els \in Seq(E)
  PROVE  \E g : Makes(g, Len(els), {NoElement} \cup Range(els), NoElement,
                      DeepestStep(doc, els), FindDeepest(doc, els))
<1> DEFINE n == Len(els)
           X == {NoElement} \cup Range(els)
           h == DeepestStep(doc, els)
           Deeper(best, e) ==
             FindDepth(doc, e) > (IF best = NoElement THEN 0
                                  ELSE FindDepth(doc, best))
           Eq(g) == g = [s \in SUBSET (1..n) |->
                           IF s = {} THEN NoElement
                           ELSE IF Deeper(g[s \ {Max(s)}], els[Max(s)])
                                THEN els[Max(s)] ELSE g[s \ {Max(s)}]]
           c == CHOOSE g : Eq(g)
<1>1. n \in Nat /\ DOMAIN els = 1..n /\ NoElement \in X
      /\ \A k \in 1..n : els[k] \in X
  BY DEF Range
<1>2. h \in [X \X (1..n) -> X]
  BY <1>1 DEF DeepestStep
<1>3. \A x \in X, k \in 1..n :
        h[<<x, k>>] = IF Deeper(x, els[k]) THEN els[k] ELSE x
  BY DEF DeepestStep
<1>4. FindDeepest(doc, els) = c[1..n]
  BY <1>1 DEF FindDeepest, FoldLeft, MapThenFoldSet
<1> HIDE DEF n, X, h, Deeper
<1>5. PICK g : IsFold(g, n, X, NoElement, h)
  BY <1>1, <1>2, FoldExists
<1>6. ASSUME NEW s \in SUBSET (1..n), s # {}, NEW f, f[s \ {Max(s)}] \in X
      PROVE  h[<<f[s \ {Max(s)}], Max(s)>>] =
               IF Deeper(f[s \ {Max(s)}], els[Max(s)])
               THEN els[Max(s)] ELSE f[s \ {Max(s)}]
  <2>1. Max(s) \in 1..n
    BY <1>1, <1>6, MaxIndex
  <2> QED
    BY <1>3, <1>6, <2>1
<1>7. Eq(g)
  <2>1. \A s \in SUBSET (1..n) : s \ {Max(s)} \in SUBSET (1..n)
    OBVIOUS
  <2> QED
    BY <1>5, <1>6, <2>1 DEF IsFold
<1>8. Eq(c)
  BY <1>7
<1>9. c[{}] = NoElement /\ \A s \in SUBSET (1..n) : s # {} =>
        c[s] = IF Deeper(c[s \ {Max(s)}], els[Max(s)])
               THEN els[Max(s)] ELSE c[s \ {Max(s)}]
  BY <1>8
<1> HIDE DEF c
<1>10. \E f : Makes(f, n, X, NoElement, h, c[1..n])
  <2>1. \A s \in SUBSET (1..n) : s # {} /\ c[s \ {Max(s)}] \in X =>
          c[s] = h[<<c[s \ {Max(s)}], Max(s)>>]
    BY <1>6, <1>9
  <2> QED
    BY <1>1, <1>2, <1>9, <2>1, FoldMade
<1> QED
  BY <1>4, <1>10 DEF n, X, h

\* Among elements below html there is a deepest one.
LEMMA DeepestIn ==
  ASSUME NEW doc, IsDocument(doc), NEW els \in Seq(DOMAIN doc \ {Html}),
         els # <<>>
  PROVE  FindDeepest(doc, els) \in Range(els)
<1> DEFINE n == Len(els)
           X == {NoElement} \cup Range(els)
<1>1. n \in Nat \ {0} /\ DOMAIN els = 1..n
  OBVIOUS
<1>2. PICK g : Makes(g, n, X, NoElement, DeepestStep(doc, els),
                     FindDeepest(doc, els))
  BY DeepestMade
<1>3. PICK x \in X : FindDeepest(doc, els) = DeepestStep(doc, els)[<<x, n>>]
  <2>1. IsStep(FindDeepest(doc, els), n, X, DeepestStep(doc, els))
    BY <1>1, <1>2, MadeByStep
  <2> QED
    BY <2>1 DEF IsStep
<1>4. els[n] \in Range(els) /\ FindDepth(doc, els[n]) > 0
  BY <1>1, DepthOf DEF Range
<1>5. FindDeepest(doc, els) =
        IF FindDepth(doc, els[n]) > (IF x = NoElement THEN 0
                                     ELSE FindDepth(doc, x))
        THEN els[n] ELSE x
  BY <1>1, <1>3 DEF DeepestStep
<1> QED
  BY <1>4, <1>5

----------------------------------------------------------------------------
(* The search for the words. *)

\* The elements that lead to a banner below an origin.
Leads(doc, origin) ==
  {e \in Below(doc, origin) : /\ doc[e].says # {}
                              /\ ~IsUnrelated(doc, e, FALSE)
                              /\ ~IsHidden(doc, e)}

\* The elements of a set in document order.
LEMMA InOrderIn ==
  ASSUME NEW doc, IsDocument(doc), NEW set
  PROVE  InOrder(doc, set) \in Seq(set \cap DOMAIN doc)
<1>1. [e \in DOMAIN doc |-> e] \in Seq(DOMAIN doc)
  BY DocumentShape
<1> QED
  BY <1>1, ChosenFrom DEF InOrder

\* What pruning leaves is neither unrelated nor hidden.
LEMMA PruningLeaves ==
  ASSUME NEW doc, NEW S, NEW els \in Seq(S), NEW strict
  PROVE  PruningEls(doc, els, strict) \in
           Seq({e \in S : ~IsUnrelated(doc, e, strict) /\ ~IsHidden(doc, e)})
<1> DEFINE bad == {e \in Range(els) : IsUnrelated(doc, e, strict)}
           related == Without(els, bad)
           R == Range(els) \ bad
<1>1. els \in Seq(Range(els)) /\ Range(els) \subseteq S
  BY ListOfRange
<1>2. related \in Seq(R)
  BY <1>1, WithoutBad
<1>3. related \in Seq(Range(related)) /\ Range(related) \subseteq R
  BY <1>2, ListOfRange
<1>4. Without(related, Hidden(doc, related))
        \in Seq(Range(related) \ Hidden(doc, related))
  BY <1>3, WithoutBad
<1>5. Range(related) \ Hidden(doc, related) \subseteq
        {e \in S : ~IsUnrelated(doc, e, strict) /\ ~IsHidden(doc, e)}
  BY <1>1, <1>3 DEF Hidden
<1>6. PruningEls(doc, els, strict) = Without(related, Hidden(doc, related))
  BY DEF PruningEls
<1> HIDE DEF related
<1> QED
  BY <1>4, <1>5, <1>6

\* What a tier finds says something and is below the origin.
LEMMA TierIn ==
  ASSUME NEW doc, IsDocument(doc), NEW origin, NEW tier,
         tier.queries \in Seq(Range(tier.queries)),
         \A q \in DOMAIN tier.queries : {} \notin tier.queries[q]
  PROVE  TierEls(doc, origin, tier) \in
           Seq({e \in Below(doc, origin) : doc[e].says # {}})
<1> DEFINE S == {e \in Below(doc, origin) : doc[e].says # {}}
           Match(alternatives) ==
             {e \in Below(doc, origin) :
                \E words \in alternatives : words \subseteq doc[e].says}
           found == [q \in DOMAIN tier.queries |->
                       InOrder(doc, Match(tier.queries[q]))]
<1>1. TierEls(doc, origin, tier) = FlattenSeq(found)
  BY DEF TierEls
<1>2. ASSUME NEW alternatives, {} \notin alternatives
      PROVE  InOrder(doc, Match(alternatives)) \in Seq(S)
  <2>1. Match(alternatives) \cap DOMAIN doc \subseteq S
    BY <1>2
  <2> HIDE DEF Match, S
  <2>2. InOrder(doc, Match(alternatives))
          \in Seq(Match(alternatives) \cap DOMAIN doc)
    BY InOrderIn
  <2> QED
    BY <2>1, <2>2
<1>3. found \in Seq(Seq(S))
  <2> HIDE DEF S, Match
  <2>1. /\ Len(tier.queries) \in Nat
        /\ DOMAIN tier.queries = 1..Len(tier.queries)
    OBVIOUS
  <2>2. \A q \in DOMAIN tier.queries :
          InOrder(doc, Match(tier.queries[q])) \in Seq(S)
    BY <1>2, <2>1
  <2> QED
    BY <2>1, <2>2
<1> HIDE DEF S, found
<1>4. FlattenSeq(found) \in Seq(S)
  BY <1>3, FlattenIn
<1> QED
  BY <1>1, <1>4 DEF S

\* Every tier looks for some words.
LEMMA TiersShape ==
  /\ DOMAIN Tiers = 1..5
  /\ \A t \in 1..5 :
       /\ Tiers[t].queries \in Seq(Range(Tiers[t].queries))
       /\ \A q \in DOMAIN Tiers[t].queries : {} \notin Tiers[t].queries[q]
<1> DEFINE Fine(qs) == /\ qs \in Seq(Range(qs))
                       /\ \A q \in DOMAIN qs : {} \notin qs[q]
<1>1. /\ DOMAIN Tiers = 1..5
      /\ Tiers[1].queries = << {{"cookies"}} >>
      /\ Tiers[2].queries = << {{"cookie", "topic"}}, {{"Cookie", "topic"}} >>
      /\ Tiers[3].queries = << {{"cookie"}, {"Cookie"}, {"policy"}} >>
      /\ Tiers[4].queries = << {{"class"}} >>
      /\ Tiers[5].queries = << {{"id"}} >>
  BY DEF Tiers
<1>2. \A a : {} \notin a => Fine(<<a>>)
  BY DEF Range
<1>3. \A a, b : {} \notin a /\ {} \notin b => Fine(<<a, b>>)
  BY DEF Range
<1>4. /\ {} \notin {{"cookies"}} /\ {} \notin {{"cookie", "topic"}}
      /\ {} \notin {{"Cookie", "topic"}} /\ {} \notin {{"class"}}
      /\ {} \notin {{"cookie"}, {"Cookie"}, {"policy"}} /\ {} \notin {{"id"}}
  OBVIOUS
<1> HIDE DEF Fine
<1>5. /\ Fine(Tiers[1].queries) /\ Fine(Tiers[2].queries)
      /\ Fine(Tiers[3].queries) /\ Fine(Tiers[4].queries)
      /\ Fine(Tiers[5].queries)
  <2>1. /\ Fine(<< {{"cookies"}} >>) /\ Fine(<< {{"class"}} >>)
        /\ Fine(<< {{"cookie"}, {"Cookie"}, {"policy"}} >>)
        /\ Fine(<< {{"id"}} >>)
    BY <1>2, <1>4
  <2>2. Fine(<< {{"cookie", "topic"}}, {{"Cookie", "topic"}} >>)
    BY <1>3, <1>4
  <2> QED
    BY <1>1, <2>1, <2>2
<1>6. \A t \in 1..5 : t = 1 \/ t = 2 \/ t = 3 \/ t = 4 \/ t = 5
  OBVIOUS
<1>7. \A t \in 1..5 : Fine(Tiers[t].queries)
  BY <1>5, <1>6, Zenon
<1> QED
  BY <1>1, <1>7 DEF Fine

\* Whatever the tier, the words found are shown, in view and not an item of
\* a list.
LEMMA LeadsFound ==
  ASSUME NEW doc, IsDocument(doc), NEW origin
  PROVE  FindElsWithCookie(doc, origin) \in Seq(Leads(doc, origin))
<1> DEFINE Els(t) == PruningEls(doc, TierEls(doc, origin, Tiers[t]),
                                Tiers[t].strict)
           left == [t \in DOMAIN Tiers |-> Els(t)]
           I == {k \in 1..Len(left) : left[k] # <<>>}
<1>1. \A t \in 1..5 : Els(t) \in Seq(Leads(doc, origin))
  <2> SUFFICES ASSUME NEW t \in 1..5
               PROVE  Els(t) \in Seq(Leads(doc, origin))
    OBVIOUS
  <2> DEFINE S == {e \in Below(doc, origin) : doc[e].says # {}}
             F == {e \in S : /\ ~IsUnrelated(doc, e, Tiers[t].strict)
                             /\ ~IsHidden(doc, e)}
  <2>1. TierEls(doc, origin, Tiers[t]) \in Seq(S)
    BY TiersShape, TierIn
  <2>2. F \subseteq Leads(doc, origin)
    BY DEF Leads, IsUnrelated
  <2>3. Els(t) \in Seq(F)
    <3> HIDE DEF S
    <3> QED
      BY <2>1, PruningLeaves
  <2> HIDE DEF F, Els
  <2> QED
    BY <2>2, <2>3
<1>2. left \in Seq(Seq(Leads(doc, origin))) /\ Len(left) = 5
  <2> HIDE DEF Els
  <2>1. DOMAIN Tiers = 1..5
    BY TiersShape
  <2> QED
    BY <1>1, <2>1
<1>3. FindElsWithCookie(doc, origin) =
        IF I = {} \/ Min(I) = 0 THEN <<>> ELSE left[Min(I)]
  BY DEF FindElsWithCookie, SelectInSeq
<1> HIDE DEF left
<1>4. I # {} => Min(I) \in 1..5
  BY <1>2, LeastIndex
<1> HIDE DEF I
<1>5. CASE I = {}
  BY <1>3, <1>5
<1>6. CASE I # {}
  <2>1. Min(I) \in 1..5 /\ Min(I) # 0
    BY <1>4, <1>6
  <2>2. FindElsWithCookie(doc, origin) = left[Min(I)]
    BY <1>3, <1>6, <2>1
  <2>3. \A t \in 1..5 : left[t] \in Seq(Leads(doc, origin))
    BY <1>2
  <2> QED
    BY <2>1, <2>2, <2>3
<1> QED
  BY <1>5, <1>6

----------------------------------------------------------------------------
(* From the words to the banners. *)

Pairs(els, ancestor) ==
  {<<ancestor[e], e>> : e \in {x \in Range(els) : ancestor[x] # NoElement}}

\* Putting a pair into a dictionary of such pairs.
LEMMA PutIn ==
  ASSUME NEW P, NEW dict \in Seq(P), NEW a, NEW e,
         a = NoElement \/ <<a, e>> \in P
  PROVE  Put(dict, a, e) \in Seq(P)
<1> DEFINE I == {k \in 1..Len(dict) : dict[k][1] = a}
<1>1. Len(dict) \in Nat
  OBVIOUS
<1>2. I # {} => Min(I) \in 1..Len(dict)
  BY <1>1, LeastIndex
<1>3. Put(dict, a, e) =
        IF a = NoElement THEN dict
        ELSE IF I = {} \/ Min(I) = 0 THEN Append(dict, <<a, e>>)
        ELSE [dict EXCEPT ![Min(I)] = <<a, e>>]
  BY DEF Put, SelectInSeq, ReplaceAt
<1> HIDE DEF I
<1>4. a # NoElement => Append(dict, <<a, e>>) \in Seq(P)
  OBVIOUS
<1>5. a # NoElement /\ I # {} =>
        [dict EXCEPT ![Min(I)] = <<a, e>>] \in Seq(P)
  BY <1>1, <1>2
<1> QED
  BY <1>2, <1>3, <1>4, <1>5

PutStep(els, ancestor) ==
  [p \in Seq(Pairs(els, ancestor)) \X (1..Len(els)) |->
     Put(p[1], ancestor[els[p[2]]], els[p[2]])]

\* ByAncestor makes pairs of an ancestor and one of its elements.
LEMMA ByAncestorIn ==
  ASSUME NEW E, NEW els \in Seq(E), NEW ancestor
  PROVE  ByAncestor(els, ancestor) \in Seq(Pairs(els, ancestor))
<1> DEFINE n == Len(els)
           X == Seq(Pairs(els, ancestor))
           h == PutStep(els, ancestor)
           Eq(g) == g = [s \in SUBSET (1..n) |->
                           IF s = {} THEN <<>>
                           ELSE Put(g[s \ {Max(s)}], ancestor[els[Max(s)]],
                                    els[Max(s)])]
           c == CHOOSE g : Eq(g)
<1>1. n \in Nat /\ DOMAIN els = 1..n /\ <<>> \in X
  OBVIOUS
<1>2. h \in [X \X (1..n) -> X]
  <2>1. \A x \in X, k \in 1..n : Put(x, ancestor[els[k]], els[k]) \in X
    <3> SUFFICES ASSUME NEW x \in X, NEW k \in 1..n
                 PROVE  Put(x, ancestor[els[k]], els[k]) \in X
      OBVIOUS
    <3>1. els[k] \in Range(els)
      BY <1>1 DEF Range
    <3>2. \/ ancestor[els[k]] = NoElement
          \/ <<ancestor[els[k]], els[k]>> \in Pairs(els, ancestor)
      BY <3>1 DEF Pairs
    <3> QED
      BY <3>2, PutIn
  <2> QED
    BY <2>1 DEF PutStep
<1>3. \A x \in X, k \in 1..n : h[<<x, k>>] = Put(x, ancestor[els[k]], els[k])
  BY DEF PutStep
<1> HIDE DEF n, X, h
<1>4. ByAncestor(els, ancestor) = c[1..n]
  BY <1>1 DEF ByAncestor, FoldLeft, MapThenFoldSet
<1>5. PICK g : IsFold(g, n, X, <<>>, h)
  BY <1>1, <1>2, FoldExists
<1>6. ASSUME NEW s \in SUBSET (1..n), s # {}, NEW f, f[s \ {Max(s)}] \in X
      PROVE  h[<<f[s \ {Max(s)}], Max(s)>>] =
               Put(f[s \ {Max(s)}], ancestor[els[Max(s)]], els[Max(s)])
  <2>1. Max(s) \in 1..n
    BY <1>1, <1>6, MaxIndex
  <2> QED
    BY <1>3, <1>6, <2>1
<1>7. Eq(g)
  <2>1. \A s \in SUBSET (1..n) : s \ {Max(s)} \in SUBSET (1..n)
    OBVIOUS
  <2> QED
    BY <1>5, <1>6, <2>1 DEF IsFold
<1>8. Eq(c)
  BY <1>7
<1>9. c[{}] = <<>> /\ \A s \in SUBSET (1..n) : s # {} =>
        c[s] = Put(c[s \ {Max(s)}], ancestor[els[Max(s)]], els[Max(s)])
  BY <1>8
<1> HIDE DEF c
<1>10. PICK f : Makes(f, n, X, <<>>, h, c[1..n])
  <2>1. \A s \in SUBSET (1..n) : s # {} /\ c[s \ {Max(s)}] \in X =>
          c[s] = h[<<c[s \ {Max(s)}], Max(s)>>]
    BY <1>6, <1>9
  <2> QED
    BY <1>1, <1>2, <1>9, <2>1, FoldMade
<1> QED
  BY <1>1, <1>4, <1>10, MadeInX DEF X

\* What is below an element has it on its line, and is not html.
LEMMA BelowNotHtml ==
  ASSUME NEW doc, IsDocument(doc), NEW origin, NEW e \in Below(doc, origin)
  PROVE  e \in DOMAIN doc \ {Html} /\ origin \in Range(Ancestry(doc)[e])
<1>1. e \in DOMAIN doc /\ e # origin /\ Contains(Ancestry(doc)[e], origin)
  BY DEF Below
<1>2. Ancestry(doc)[e] \in Seq(DOMAIN doc)
  BY <1>1, AncestryLines
<1>3. origin \in Range(Ancestry(doc)[e])
  BY <1>1, <1>2 DEF Contains, Range
<1>4. e # Html
  <2> SUFFICES ASSUME e = Html
               PROVE  FALSE
    OBVIOUS
  <2>1. Ancestry(doc)[e] = <<e>>
    BY <1>1, AncestryLines
  <2> QED
    BY <1>1, <1>3, <2>1 DEF Range
<1> QED
  BY <1>1, <1>3, <1>4

\* Each of the ways to go from the words to an element stays on the line of
\* a word.
IsRoot(doc, els, pair) ==
  pair[2] \in Range(els) /\ pair[1] \in Range(Ancestry(doc)[pair[2]])

Rooted(doc, els) == {pair \in (DOMAIN doc) \X (DOMAIN doc) : IsRoot(doc, els, pair)}

\* The fixed and the stacked roots are on the lines of their elements.
LEMMA RootsIn ==
  ASSUME NEW doc, IsDocument(doc), NEW els \in Seq(DOMAIN doc)
  PROVE  /\ FindFixedAncestors(doc, els) \in Seq(Rooted(doc, els))
         /\ FindByZindex(doc, els) \in Seq(Rooted(doc, els))
<1>1. ASSUME NEW ancestor,
             \A e \in Range(els) :
               ancestor[e] \in {NoElement} \cup Range(Ancestry(doc)[e])
      PROVE  ByAncestor(els, ancestor) \in Seq(Rooted(doc, els))
  <2>1. ASSUME NEW e \in Range(els), ancestor[e] # NoElement
        PROVE  <<ancestor[e], e>> \in Rooted(doc, els)
    <3>1. e \in DOMAIN doc
      BY ListOfRange
    <3>2. Ancestry(doc)[e] \in Seq(DOMAIN doc)
      BY <3>1, AncestryLines
    <3>3. ancestor[e] \in Range(Ancestry(doc)[e])
      BY <1>1, <2>1
    <3>4. ancestor[e] \in DOMAIN doc
      BY <3>2, <3>3, ListOfRange
    <3> QED
      BY <3>1, <3>3, <3>4 DEF Rooted, IsRoot
  <2>2. Pairs(els, ancestor) \subseteq Rooted(doc, els)
    BY <2>1 DEF Pairs
  <2>3. ByAncestor(els, ancestor) \in Seq(Pairs(els, ancestor))
    BY ByAncestorIn
  <2> QED
    BY <2>2, <2>3
<1>2. Range(els) \subseteq DOMAIN doc
  BY ListOfRange
<1>3. FindFixedAncestors(doc, els) \in Seq(Rooted(doc, els))
  <2> DEFINE ancestor == [e \in Range(els) |-> FindFixedAncestor(doc, e)]
  <2>1. \A e \in Range(els) :
          ancestor[e] \in {NoElement} \cup Range(Ancestry(doc)[e])
    BY <1>2, FixedAncestorOnLine
  <2>2. FindFixedAncestors(doc, els) = ByAncestor(els, ancestor)
    BY DEF FindFixedAncestors
  <2> HIDE DEF ancestor
  <2> QED
    BY <1>1, <2>1, <2>2
<1>4. FindByZindex(doc, els) \in Seq(Rooted(doc, els))
  <2> DEFINE ancestor == [e \in Range(els) |-> FineAncestorWithIntZindex(doc, e)]
  <2>1. \A e \in Range(els) :
          ancestor[e] \in {NoElement} \cup Range(Ancestry(doc)[e])
    BY <1>2, ZindexAncestorOnLine
  <2>2. FindByZindex(doc, els) = ByAncestor(els, ancestor)
    BY DEF FindByZindex
  <2> HIDE DEF ancestor
  <2> QED
    BY <1>1, <2>1, <2>2
<1> QED
  BY <1>3, <1>4

\* The elements on the lines of the words below an origin.
Lined(doc, origin) ==
  {e \in DOMAIN doc : \E to \in Leads(doc, origin) :
                        to \in DOMAIN doc /\ e \in Range(Ancestry(doc)[to])}

\* An element on the line of a keyword is, or has below it, that keyword.
LEMMA LinedHolds ==
  ASSUME NEW doc, IsDocument(doc), NEW origin, NEW e \in Lined(doc, origin)
  PROVE  \E d \in Below(doc, e) \cup {e} :
           doc[d].says # {} /\ ~IsUnrelated(doc, d, FALSE) /\ ~IsHidden(doc, d)
<1>1. PICK to \in Leads(doc, origin) :
        to \in DOMAIN doc /\ e \in Range(Ancestry(doc)[to])
  BY DEF Lined
<1>2. to \in Below(doc, e) \cup {e}
  BY <1>1, InOrBelow
<1> QED
  BY <1>2 DEF Leads

\* From a root down to a keyword the optimal element is on its line.
LEMMA RootLined ==
  ASSUME NEW doc, IsDocument(doc), NEW origin, NEW els \in Seq(Leads(doc, origin)),
         NEW pair \in Rooted(doc, els), NEW frame
  PROVE  FindOptimal(doc, pair[1], pair[2], frame) \in Lined(doc, origin)
<1>1. /\ pair[2] \in DOMAIN doc /\ pair[2] \in Range(els)
      /\ pair[1] \in Range(Ancestry(doc)[pair[2]])
  BY DEF Rooted, IsRoot
<1>2. pair[2] \in Leads(doc, origin)
  BY <1>1, ListOfRange
<1>3. FindOptimal(doc, pair[1], pair[2], frame) \in Range(Ancestry(doc)[pair[2]])
  BY <1>1, OptimalOnLine
<1>4. Range(Ancestry(doc)[pair[2]]) \subseteq DOMAIN doc
  BY <1>1, AncestryLines, ListOfRange
<1> QED
  BY <1>1, <1>2, <1>3, <1>4 DEF Lined

\* What passes for a banner is on the line of a keyword, has enough text and
\* does not ask to sign in.
LEMMA OptimalShown ==
  ASSUME NEW doc, IsDocument(doc), NEW origin, NEW els \in Seq(Leads(doc, origin))
  PROVE  OptimalEls(doc, origin, els) \in
           Seq({e \in Lined(doc, origin) : /\ HasEnoughWord(doc, e)
                                           /\ ~IsSigninBanner(doc, e)})
<1> DEFINE fixed == FindFixedAncestors(doc, els)
           stacked == FindByZindex(doc, els)
           last == << <<origin, FindDeepest(doc, els)>> >>
           map == IF fixed # <<>> THEN fixed
                  ELSE IF stacked # <<>> THEN stacked ELSE last
           optimal == [k \in DOMAIN map |->
                         FindOptimal(doc, map[k][1], map[k][2], FALSE)]
           passing == {e \in Range(optimal) : /\ IsInsideViewport(doc, e)
                                              /\ HasEnoughWord(doc, e)
                                              /\ ~IsSigninBanner(doc, e)}
           S == {e \in Lined(doc, origin) : /\ HasEnoughWord(doc, e)
                                            /\ ~IsSigninBanner(doc, e)}
<1>1. CASE els = <<>>
  BY <1>1 DEF OptimalEls
<1>2. CASE els # <<>>
  <2>1. OptimalEls(doc, origin, els) = Chosen(optimal, passing)
    BY <1>2 DEF OptimalEls
  <2>2. Leads(doc, origin) \subseteq DOMAIN doc \ {Html}
        /\ Leads(doc, origin) \subseteq Below(doc, origin)
    BY BelowNotHtml DEF Leads
  <2>3. els \in Seq(DOMAIN doc) /\ els \in Seq(DOMAIN doc \ {Html})
    BY <2>2
  <2>4. fixed \in Seq(Rooted(doc, els)) /\ stacked \in Seq(Rooted(doc, els))
    BY <2>3, RootsIn
  <2>5. last \in Seq(Rooted(doc, els))
    <3> DEFINE e == FindDeepest(doc, els)
    <3>1. e \in Range(els)
      BY <1>2, <2>3, DeepestIn
    <3>2. e \in Leads(doc, origin) /\ e \in DOMAIN doc
      BY <2>2, <3>1, ListOfRange
    <3>3. origin \in Range(Ancestry(doc)[e])
      BY <2>2, <3>2, BelowNotHtml
    <3>4. origin \in DOMAIN doc
      BY <3>2, <3>3, AncestryLines, ListOfRange
    <3>5. <<origin, e>> \in Rooted(doc, els)
      BY <3>1, <3>2, <3>3, <3>4 DEF Rooted, IsRoot
    <3>6. \A x \in Rooted(doc, els) : <<x>> \in Seq(Rooted(doc, els))
      OBVIOUS
    <3> QED
      BY <3>5, <3>6, Zenon
  <2> HIDE DEF fixed, stacked, last
  <2>6. map \in Seq(Rooted(doc, els))
    BY <2>4, <2>5
  <2> HIDE DEF map
  <2>7. optimal \in Seq(Lined(doc, origin))
    <3>1. \A k \in DOMAIN map :
            FindOptimal(doc, map[k][1], map[k][2], FALSE) \in Lined(doc, origin)
      <4>1. \A k \in DOMAIN map : map[k] \in Rooted(doc, els)
        BY <2>6
      <4> QED
        BY <4>1, RootLined
    <3>2. PICK n \in Nat : DOMAIN map = 1..n
      <4>1. Len(map) \in Nat /\ DOMAIN map = 1..Len(map)
        BY <2>6
      <4> QED
        BY <4>1
    <3>3. optimal \in [1..n -> Lined(doc, origin)]
      BY <3>1, <3>2
    <3> HIDE DEF optimal
    <3> QED
      BY <3>3
  <2> HIDE DEF optimal
  <2>8. Chosen(optimal, passing) \in Seq(passing \cap Lined(doc, origin))
    BY <2>7, ChosenFrom
  <2>9. passing \cap Lined(doc, origin) \subseteq S
    OBVIOUS
  <2> HIDE DEF passing, S
  <2>10. Chosen(optimal, passing) \in Seq(S)
    BY <2>8, <2>9
  <2> QED
    BY <2>1, <2>10 DEF S
<1> QED
  BY <1>1, <1>2

\* What a frame shows is on the line of a keyword of its document.
LEMMA InFrameLined ==
  ASSUME NEW pages, NEW d, IsDocument(pages[d])
  PROVE  InFrame(pages, d) \in {NoElement} \cup Lined(pages[d], Html)
<1> DEFINE doc == pages[d]
           els == FindElsWithCookie(doc, Html)
           e == FindDeepest(doc, els)
<1>1. InFrame(pages, d) = IF els = <<>> THEN NoElement
                         ELSE FindOptimal(doc, Body, e, TRUE)
  BY DEF InFrame
<1>2. els \in Seq(Leads(doc, Html))
  BY LeadsFound
<1>3. Leads(doc, Html) \subseteq DOMAIN doc \ {Html}
  BY BelowNotHtml DEF Leads
<1> HIDE DEF doc, els
<1>4. CASE els # <<>>
  <2>1. els \in Seq(DOMAIN doc \ {Html})
    BY <1>2, <1>3
  <2>2. e \in Range(els)
    BY <1>4, <2>1, DeepestIn DEF doc
  <2>3. e \in DOMAIN doc \ {Html}
    BY <2>1, <2>2, ListOfRange
  <2>4. Ancestry(doc)[e] \in Seq(DOMAIN doc) /\ IsLine(Ancestry(doc)[e], e)
    BY <2>3, Lines DEF doc
  <2> HIDE DEF e
  <2>5. Body \in Range(Ancestry(doc)[e]) /\ Body \in DOMAIN doc
    <3> DEFINE line == Ancestry(doc)[e]
    <3>1. line \in Seq(DOMAIN doc) /\ Len(line) >= 2 /\ line[Len(line) - 1] = Body
      BY <2>3, <2>4 DEF IsLine
    <3> HIDE DEF line
    <3>2. Len(line) - 1 \in DOMAIN line
      BY <3>1
    <3>3. Body \in Range(line)
      BY <3>1, <3>2 DEF Range
    <3>4. Range(line) \subseteq DOMAIN doc
      BY <3>1, ListOfRange
    <3> QED
      BY <3>3, <3>4 DEF line
  <2>6. <<Body, e>> \in Rooted(doc, els)
    BY <2>2, <2>3, <2>5 DEF Rooted, IsRoot
  <2>7. FindOptimal(doc, <<Body, e>>[1], <<Body, e>>[2], TRUE) \in Lined(doc, Html)
    BY <1>2, <2>6, RootLined DEF doc
  <2> QED
    BY <1>1, <1>4, <2>7 DEF doc
<1> QED
  BY <1>1, <1>4

\* What is found in the frames of a site.
Framed(pages) ==
  {b \in [kind : {"frame", "nested"}, host : DOMAIN pages[Page], child : Nat,
          doc : DOMAIN pages, el : Nat] : b.el \in Lined(pages[b.doc], Html)}

Tries(pages) == [found : Seq(Framed(pages)), ctx : DOMAIN pages]

\* The documents of a site.
LEMMA SiteShape ==
  ASSUME NEW pages, IsSite(pages)
  PROVE  /\ Page \in DOMAIN pages
         /\ \A d \in DOMAIN pages : IsDocument(pages[d])
         /\ \A d \in DOMAIN pages : \A e \in DOMAIN pages[d] :
              /\ pages[d][e].tag = "iframe" => pages[d][e].doc \in DOMAIN pages
              /\ pages[d][e].root # 0 => pages[d][e].root \in DOMAIN pages
<1>1. pages \in Seq(Range(pages)) /\ pages # <<>>
  BY DEF IsSite
<1>2. Page \in DOMAIN pages
  BY <1>1 DEF Page
<1> QED
  BY <1>2 DEF IsSite

\* The frames of a document: every one has its own.
Frames(pages, d) ==
  {c \in DOMAIN pages[d] : pages[d][c].doc \in DOMAIN pages}

\* The frames of a document have documents.
LEMMA IFramesIn ==
  ASSUME NEW pages, IsSite(pages), NEW d \in DOMAIN pages
  PROVE  IFrames(pages[d]) \in Seq(Frames(pages, d))
<1> DEFINE doc == pages[d]
           set == {e \in DOMAIN doc : doc[e].tag = "iframe"}
<1>1. IsDocument(doc) /\ set \cap DOMAIN doc \subseteq Frames(pages, d)
  BY SiteShape DEF Frames
<1>2. IFrames(doc) = InOrder(doc, set)
  BY DEF IFrames
<1> HIDE DEF set, doc
<1>3. InOrder(doc, set) \in Seq(set \cap DOMAIN doc)
  BY <1>1, InOrderIn
<1>4. InOrder(doc, set) \in Seq(Frames(pages, d))
  BY <1>1, <1>3
<1> QED
  BY <1>2, <1>4 DEF doc

\* A banner found in a frame.
LEMMA FoundInFrame ==
  ASSUME NEW pages, IsSite(pages), NEW f \in DOMAIN pages[Page],
         NEW d \in DOMAIN pages, InFrame(pages, d) # NoElement,
         NEW kind \in {"frame", "nested"}, NEW c \in Nat
  PROVE  <<Banner(kind, f, c, d, InFrame(pages, d))>> \in Seq(Framed(pages))
<1>1. InFrame(pages, d) \in Lined(pages[d], Html)
  BY SiteShape, InFrameLined
<1>2. DOMAIN pages[d] \subseteq Nat
  BY SiteShape, DocumentShape
<1>3. InFrame(pages, d) \in Nat
  BY <1>1, <1>2 DEF Lined
<1>4. Banner(kind, f, c, d, InFrame(pages, d)) \in Framed(pages)
  BY <1>1, <1>3 DEF Framed, Banner
<1>5. \A b \in Framed(pages) : <<b>> \in Seq(Framed(pages))
  OBVIOUS
<1> QED
  BY <1>4, <1>5

\* Trying one more child keeps what was found.
LEMMA TryChildIn ==
  ASSUME NEW pages, IsSite(pages), NEW f \in DOMAIN pages[Page],
         NEW d \in DOMAIN pages, NEW t \in Tries(pages), NEW c \in Frames(pages, d)
  PROVE  TryChild(pages, t, f, d, c) \in Tries(pages)
<1> DEFINE e == pages[d][c].doc
<1>1. e \in DOMAIN pages /\ c \in Nat
  BY SiteShape, DocumentShape DEF Frames
<1>2. InFrame(pages, e) # NoElement =>
        <<Banner("nested", f, c, e, InFrame(pages, e))>> \in Seq(Framed(pages))
  BY <1>1, FoundInFrame
<1> HIDE DEF e
<1> QED
  BY <1>1, <1>2 DEF TryChild, Tries, e

\* So does trying all the children of a frame.
LEMMA TryChildrenIn ==
  ASSUME NEW pages, IsSite(pages), NEW f \in DOMAIN pages[Page],
         NEW d \in DOMAIN pages, NEW base \in Tries(pages)
  PROVE  TryChildren(pages, base, f, d) \in Tries(pages)
<1> DEFINE frames == IFrames(pages[d])
           n == Len(frames)
           X == Tries(pages)
           h == [p \in X \X (1..n) |-> TryChild(pages, p[1], f, d, frames[p[2]])]
           Eq(g) == g = [s \in SUBSET (1..n) |->
                           IF s = {} THEN base
                           ELSE TryChild(pages, g[s \ {Max(s)}], f, d,
                                         frames[Max(s)])]
           c == CHOOSE g : Eq(g)
<1>1. frames \in Seq(Frames(pages, d))
  BY IFramesIn
<1>2. n \in Nat /\ DOMAIN frames = 1..n /\ \A k \in 1..n : frames[k] \in Frames(pages, d)
  BY <1>1
<1>3. TryChildren(pages, base, f, d) = c[1..n]
  BY <1>2 DEF TryChildren, FoldLeft, MapThenFoldSet
<1>4. h \in [X \X (1..n) -> X]
  BY <1>2, TryChildIn
<1>5. \A x \in X, k \in 1..n : h[<<x, k>>] = TryChild(pages, x, f, d, frames[k])
  OBVIOUS
<1> HIDE DEF n, X, h, frames
<1>6. PICK g : IsFold(g, n, X, base, h)
  BY <1>2, <1>4, FoldExists DEF X
<1>7. ASSUME NEW s \in SUBSET (1..n), s # {}, NEW q, q[s \ {Max(s)}] \in X
      PROVE  h[<<q[s \ {Max(s)}], Max(s)>>] =
               TryChild(pages, q[s \ {Max(s)}], f, d, frames[Max(s)])
  <2>1. Max(s) \in 1..n
    BY <1>2, <1>7, MaxIndex
  <2> QED
    BY <1>5, <1>7, <2>1
<1>8. Eq(g)
  <2>1. \A s \in SUBSET (1..n) : s \ {Max(s)} \in SUBSET (1..n)
    OBVIOUS
  <2> QED
    BY <1>6, <1>7, <2>1 DEF IsFold
<1>9. Eq(c)
  BY <1>8
<1>10. c[{}] = base /\ \A s \in SUBSET (1..n) : s # {} =>
         c[s] = TryChild(pages, c[s \ {Max(s)}], f, d, frames[Max(s)])
  BY <1>9
<1> HIDE DEF c
<1>11. PICK q : Makes(q, n, X, base, h, c[1..n])
  <2>1. \A s \in SUBSET (1..n) : s # {} /\ c[s \ {Max(s)}] \in X =>
          c[s] = h[<<c[s \ {Max(s)}], Max(s)>>]
    BY <1>7, <1>10
  <2>2. base \in X
    BY DEF X
  <2> QED
    BY <1>2, <1>4, <1>10, <2>1, <2>2, FoldMade
<1> QED
  BY <1>2, <1>3, <1>11, MadeInX DEF X

\* So does trying one more frame of the page.
LEMMA TryFrameIn ==
  ASSUME NEW pages, IsSite(pages), NEW s \in Tries(pages), NEW f \in Frames(pages, Page)
  PROVE  TryFrame(pages, s, f) \in Tries(pages)
<1> DEFINE d == pages[Page][f].doc
<1>1. d \in DOMAIN pages /\ f \in DOMAIN pages[Page]
  BY DEF Frames
<1>2. InFrame(pages, d) # NoElement =>
        <<Banner("frame", f, 0, d, InFrame(pages, d))>> \in Seq(Framed(pages))
  BY <1>1, FoundInFrame
<1>3. TryChildren(pages, s, f, d) \in Tries(pages)
  BY <1>1, TryChildrenIn
<1> HIDE DEF d
<1> QED
  BY <1>1, <1>2, <1>3 DEF TryFrame, Tries, d

\* All that is found in the frames of a page.
LEMMA FramedFound ==
  ASSUME NEW pages, IsSite(pages)
  PROVE  FindCMPCookiesIframes(pages) \in Seq(Framed(pages))
<1> DEFINE set == {f \in DOMAIN pages[Page] : ~IsHidden(pages[Page], f)}
           frames == Chosen(IFrames(pages[Page]), set)
           base == [found |-> <<>>, ctx |-> Page]
           n == Len(frames)
           X == Tries(pages)
           h == [p \in X \X (1..n) |-> TryFrame(pages, p[1], frames[p[2]])]
           Eq(g) == g = [s \in SUBSET (1..n) |->
                           IF s = {} THEN base
                           ELSE TryFrame(pages, g[s \ {Max(s)}], frames[Max(s)])]
           c == CHOOSE g : Eq(g)
<1>1. Page \in DOMAIN pages
  BY SiteShape
<1>2. frames \in Seq(Frames(pages, Page))
  BY <1>1, IFramesIn, ChosenIn
<1>3. n \in Nat /\ DOMAIN frames = 1..n
      /\ \A k \in 1..n : frames[k] \in Frames(pages, Page)
  <2> HIDE DEF frames
  <2> QED
    BY <1>2
<1>4. base \in X
  <2>1. <<>> \in Seq(Framed(pages))
    OBVIOUS
  <2> QED
    BY <1>1, <2>1 DEF Tries
<1>5. FindCMPCookiesIframes(pages) = c[1..n].found
  <2> HIDE DEF set
  <2> QED
    BY <1>3 DEF FindCMPCookiesIframes, FoldLeft, MapThenFoldSet, set
<1>6. h \in [X \X (1..n) -> X]
  BY <1>3, TryFrameIn
<1>7. \A x \in X, k \in 1..n : h[<<x, k>>] = TryFrame(pages, x, frames[k])
  OBVIOUS
<1> HIDE DEF n, X, h, frames, base
<1>8. PICK g : IsFold(g, n, X, base, h)
  BY <1>3, <1>4, <1>6, FoldExists
<1>9. ASSUME NEW s \in SUBSET (1..n), s # {}, NEW q, q[s \ {Max(s)}] \in X
      PROVE  h[<<q[s \ {Max(s)}], Max(s)>>] =
               TryFrame(pages, q[s \ {Max(s)}], frames[Max(s)])
  <2>1. Max(s) \in 1..n
    BY <1>3, <1>9, MaxIndex
  <2> QED
    BY <1>7, <1>9, <2>1
<1>10. Eq(g)
  <2>1. \A s \in SUBSET (1..n) : s \ {Max(s)} \in SUBSET (1..n)
    OBVIOUS
  <2> QED
    BY <1>8, <1>9, <2>1 DEF IsFold
<1>11. Eq(c)
  BY <1>10
<1>12. c[{}] = base /\ \A s \in SUBSET (1..n) : s # {} =>
         c[s] = TryFrame(pages, c[s \ {Max(s)}], frames[Max(s)])
  BY <1>11
<1> HIDE DEF c
<1>13. PICK q : Makes(q, n, X, base, h, c[1..n])
  <2>1. \A s \in SUBSET (1..n) : s # {} /\ c[s \ {Max(s)}] \in X =>
          c[s] = h[<<c[s \ {Max(s)}], Max(s)>>]
    BY <1>9, <1>12
  <2> QED
    BY <1>3, <1>4, <1>6, <1>12, <2>1, FoldMade
<1>14. c[1..n] \in Tries(pages)
  <2>1. c[1..n] \in X
    BY <1>3, <1>13, MadeInX
  <2> QED
    BY <2>1 DEF X
<1> QED
  BY <1>5, <1>14 DEF Tries

----------------------------------------------------------------------------
(* The banners of a site. *)

\* The elements that pass for a banner.
Shown(doc, origin) ==
  {e \in Lined(doc, origin) : HasEnoughWord(doc, e) /\ ~IsSigninBanner(doc, e)}

Plains(pages, d, origin) ==
  {b \in [kind : {"plain"}, host : {NoElement}, child : {0}, doc : {d}, el : Nat] :
     b.el \in Shown(pages[d], origin)}

Shadowed(pages) ==
  {b \in [kind : {"shadow"}, host : DOMAIN pages[Page], child : {0},
          doc : DOMAIN pages, el : Nat] : b.el \in Shown(pages[b.doc], Clone)}

\* The frames of the page in view, as BannersUnder adds them.
FramesInView(pages) ==
  Chosen(FindCMPCookiesIframes(pages),
         {b \in Range(FindCMPCookiesIframes(pages)) :
            IsInsideViewport(pages[Page], b.host)})

PlainsUnder(pages, d, origin) ==
  LET els == OptimalEls(pages[d], origin, FindElsWithCookie(pages[d], origin))
  IN [k \in DOMAIN els |-> Banner("plain", NoElement, 0, d, els[k])]

\* What is found under an origin: elements, and the frames in view.
LEMMA UnderParts ==
  ASSUME NEW pages, IsSite(pages), NEW d \in DOMAIN pages, NEW origin
  PROVE  /\ PlainsUnder(pages, d, origin) \in Seq(Plains(pages, d, origin))
         /\ FramesInView(pages) \in Seq(Framed(pages))
         /\ BannersUnder(pages, d, origin) =
              PlainsUnder(pages, d, origin) \o FramesInView(pages)
<1> DEFINE doc == pages[d]
           els == OptimalEls(doc, origin, FindElsWithCookie(doc, origin))
           plain == [k \in DOMAIN els |-> Banner("plain", NoElement, 0, d, els[k])]
<1>1. IsDocument(doc)
  BY SiteShape
<1>2. els \in Seq(Shown(doc, origin))
  BY <1>1, LeadsFound, OptimalShown DEF Shown
<1>3. Shown(doc, origin) \subseteq Nat
  BY <1>1, DocumentShape DEF Shown, Lined
<1>4. PlainsUnder(pages, d, origin) = plain
  BY DEF PlainsUnder
<1>5. BannersUnder(pages, d, origin) =
        PlainsUnder(pages, d, origin) \o FramesInView(pages)
  BY DEF BannersUnder, PlainsUnder, FramesInView
<1>6. FramesInView(pages) \in Seq(Framed(pages))
  BY FramedFound, ChosenIn DEF FramesInView
<1> HIDE DEF els, doc
<1>7. plain \in Seq(Plains(pages, d, origin))
  <2>1. PICK n \in Nat : DOMAIN els = 1..n
    <3>1. Len(els) \in Nat /\ DOMAIN els = 1..Len(els)
      BY <1>2
    <3> QED
      BY <3>1
  <2>2. \A k \in DOMAIN els : els[k] \in Shown(doc, origin)
    BY <1>2
  <2>3. \A k \in DOMAIN els :
          Banner("plain", NoElement, 0, d, els[k]) \in Plains(pages, d, origin)
    BY <2>2, <1>3 DEF Plains, Banner, doc
  <2>4. plain \in [1..n -> Plains(pages, d, origin)]
    BY <2>1, <2>3
  <2> HIDE DEF plain
  <2> QED
    BY <2>4
<1> QED
  BY <1>4, <1>5, <1>6, <1>7

\* The hosts of shadow trees, each with the clone of its tree.
Hosts(pages) == {h \in DOMAIN pages[Page] : pages[Page][h].root \in DOMAIN pages}

\* The hosts that are searched have clones.
LEMMA HostsIn ==
  ASSUME NEW pages, IsSite(pages)
  PROVE  ShadowHosts(pages[Page]) \in Seq(Hosts(pages))
<1> DEFINE doc == pages[Page]
           set(n) == {e \in DOMAIN doc : doc[e].root # 0 /\ FindDepth(doc, e) = n}
<1>1. IsDocument(doc) /\ \A n : set(n) \cap DOMAIN doc \subseteq Hosts(pages)
  BY SiteShape DEF Hosts
<1>2. ShadowHosts(doc) = InOrder(doc, set(2)) \o InOrder(doc, set(3))
  BY DEF ShadowHosts
<1> HIDE DEF set, doc
<1>3. /\ InOrder(doc, set(2)) \in Seq(set(2) \cap DOMAIN doc)
      /\ InOrder(doc, set(3)) \in Seq(set(3) \cap DOMAIN doc)
  BY <1>1, InOrderIn
<1>4. /\ InOrder(doc, set(2)) \in Seq(Hosts(pages))
      /\ InOrder(doc, set(3)) \in Seq(Hosts(pages))
  BY <1>1, <1>3
<1>5. ShadowHosts(doc) \in Seq(Hosts(pages))
  BY <1>2, <1>4
<1> QED
  BY <1>5 DEF doc

\* Without a frame in view the banners in shadow trees are elements.
LEMMA ShadowedFound ==
  ASSUME NEW pages, IsSite(pages), FramesInView(pages) = <<>>
  PROVE  FindShadowdomBanners(pages) \in Seq(Shadowed(pages))
<1> DEFINE First(h, bs) ==
             IF bs = <<>> THEN <<>>
             ELSE <<Banner("shadow", h, 0, pages[Page][h].root, bs[1].el)>>
           Of(h) == First(h, BannersUnder(pages, pages[Page][h].root, Clone))
           hosts == ShadowHosts(pages[Page])
           all == [k \in DOMAIN hosts |-> Of(hosts[k])]
<1>1. FindShadowdomBanners(pages) = FlattenSeq(all)
  BY DEF FindShadowdomBanners
<1>2. hosts \in Seq(Hosts(pages))
  BY HostsIn
<1>3. ASSUME NEW h \in Hosts(pages)
      PROVE  Of(h) \in Seq(Shadowed(pages))
  <2> DEFINE d == pages[Page][h].root
             bs == BannersUnder(pages, d, Clone)
  <2>1. d \in DOMAIN pages /\ h \in DOMAIN pages[Page]
    BY DEF Hosts
  <2>2. bs \in Seq(Plains(pages, d, Clone))
    <3>1. /\ PlainsUnder(pages, d, Clone) \in Seq(Plains(pages, d, Clone))
          /\ bs = PlainsUnder(pages, d, Clone) \o <<>>
      BY <2>1, UnderParts
    <3> QED
      BY <3>1
  <2>3. Of(h) = First(h, bs)
    OBVIOUS
  <2> HIDE DEF bs, d
  <2>4. CASE bs = <<>>
    <3>1. Of(h) = <<>>
      BY <2>3, <2>4
    <3>2. <<>> \in Seq(Shadowed(pages))
      OBVIOUS
    <3> HIDE DEF Of
    <3> QED
      BY <3>1, <3>2
  <2>5. CASE bs # <<>>
    <3>1. bs[1] \in Plains(pages, d, Clone)
      BY <2>2, <2>5
    <3>2. bs[1].el \in Nat /\ bs[1].el \in Shown(pages[d], Clone)
      BY <3>1 DEF Plains
    <3> DEFINE b == Banner("shadow", h, 0, d, bs[1].el)
    <3>3. b \in Shadowed(pages)
      BY <2>1, <3>2 DEF Shadowed, Banner
    <3>4. Of(h) = <<b>>
      BY <2>3, <2>5 DEF d
    <3> HIDE DEF b, Of
    <3>5. <<b>> \in Seq(Shadowed(pages))
      BY <3>3
    <3> QED
      BY <3>4, <3>5
  <2> QED
    BY <2>4, <2>5
<1> HIDE DEF hosts, Of
<1>4. all \in Seq(Seq(Shadowed(pages)))
  <2>1. PICK n \in Nat : DOMAIN hosts = 1..n
    <3>1. Len(hosts) \in Nat /\ DOMAIN hosts = 1..Len(hosts)
      BY <1>2
    <3> QED
      BY <3>1
  <2>2. \A k \in DOMAIN hosts : hosts[k] \in Hosts(pages)
    BY <1>2
  <2>3. \A k \in DOMAIN hosts : Of(hosts[k]) \in Seq(Shadowed(pages))
    BY <1>3, <2>2
  <2>4. all \in [1..n -> Seq(Shadowed(pages))]
    BY <2>1, <2>3
  <2> HIDE DEF all
  <2> QED
    BY <2>4
<1> HIDE DEF all
<1> QED
  BY <1>1, <1>4, FlattenIn

\* All that find_cookie_banners may return.
Found(pages) == Plains(pages, Page, Body) \cup Framed(pages) \cup Shadowed(pages)

\* find_cookie_banners returns elements of the page, pairs for frames or,
\* failing these, pairs for shadow trees.
LEMMA BannersFound ==
  ASSUME NEW pages, IsSite(pages)
  PROVE  FindCookieBanners(pages) \in Seq(Found(pages))
<1> DEFINE p == PlainsUnder(pages, Page, Body)
           f == FramesInView(pages)
           bs == BannersUnder(pages, Page, Body)
<1>1. /\ p \in Seq(Plains(pages, Page, Body)) /\ f \in Seq(Framed(pages))
      /\ bs = p \o f
  BY SiteShape, UnderParts
<1>2. FindCookieBanners(pages) =
        IF bs # <<>> THEN bs ELSE FindShadowdomBanners(pages)
  BY DEF FindCookieBanners
<1> HIDE DEF p, f, bs
<1>3. CASE bs # <<>>
  <2>1. p \in Seq(Found(pages)) /\ f \in Seq(Found(pages))
    BY <1>1 DEF Found
  <2>2. bs \in Seq(Found(pages))
    BY <1>1, <2>1
  <2> QED
    BY <1>2, <1>3, <2>2
<1>4. CASE bs = <<>>
  <2>1. f = <<>>
    <3>1. Len(p) \in Nat /\ Len(f) \in Nat /\ Len(bs) = Len(p) + Len(f)
      BY <1>1
    <3>2. Len(f) = 0
      BY <1>4, <3>1, Len(<<>>) = 0
    <3> QED
      BY <1>1, <3>2
  <2>2. FindShadowdomBanners(pages) \in Seq(Shadowed(pages))
    BY <2>1, ShadowedFound DEF f
  <2>3. FindShadowdomBanners(pages) \in Seq(Found(pages))
    BY <2>2 DEF Found
  <2> QED
    BY <1>2, <1>4, <2>3
<1> QED
  BY <1>3, <1>4

\* What a document shows of a banner: the keyword that led to it.
LEMMA FoundHoldsWord ==
  ASSUME NEW pages, IsSite(pages), NEW b \in Found(pages)
  PROVE  /\ b.doc \in DOMAIN pages
         /\ b.el \in DOMAIN pages[b.doc]
         /\ \E e \in Below(pages[b.doc], b.el) \cup {b.el} :
              /\ pages[b.doc][e].says # {}
              /\ ~IsUnrelated(pages[b.doc], e, FALSE)
              /\ ~IsHidden(pages[b.doc], e)
         /\ b.kind = "plain" =>
              HasEnoughWord(pages[b.doc], b.el) /\ ~IsSigninBanner(pages[b.doc], b.el)
<1> DEFINE doc == pages[b.doc]
<1>1. b.doc \in DOMAIN pages
  BY SiteShape DEF Found, Plains, Framed, Shadowed
<1>2. \E origin : b.el \in Lined(doc, origin)
  BY DEF Found, Plains, Framed, Shadowed, Shown
<1>3. IsDocument(doc)
  BY <1>1, SiteShape
<1>4. b.kind = "plain" => HasEnoughWord(doc, b.el) /\ ~IsSigninBanner(doc, b.el)
  BY DEF Found, Plains, Framed, Shadowed, Shown
<1> HIDE DEF doc
<1>5. \E e \in Below(doc, b.el) \cup {b.el} :
        doc[e].says # {} /\ ~IsUnrelated(doc, e, FALSE) /\ ~IsHidden(doc, e)
  BY <1>2, <1>3, LinedHolds
<1>6. b.el \in DOMAIN doc
  BY <1>2 DEF Lined
<1> QED
  BY <1>1, <1>4, <1>5, <1>6 DEF doc

\* Whatever the site is like: a banner that find_cookie_banners returns is an
\* element of one of its documents that is, or has below it, a keyword in
\* view that is shown and not an item of a list; a banner in the page has
\* enough text and does not ask to sign in.
THEOREM FoundBannersHoldWords ==
  ASSUME NEW pages, IsSite(pages), NEW k \in DOMAIN FindCookieBanners(pages)
  PROVE  LET b == FindCookieBanners(pages)[k]
             doc == pages[b.doc]
         IN /\ b.doc \in DOMAIN pages /\ b.el \in DOMAIN doc
            /\ \E e \in Below(doc, b.el) \cup {b.el} :
                 /\ doc[e].says # {}
                 /\ ~IsUnrelated(doc, e, FALSE)
                 /\ ~IsHidden(doc, e)
            /\ b.kind = "plain" =>
                 HasEnoughWord(doc, b.el) /\ ~IsSigninBanner(doc, b.el)
<1>1. FindCookieBanners(pages)[k] \in Found(pages)
  BY BannersFound
<1> QED
  BY <1>1, FoundHoldsWord

----------------------------------------------------------------------------
(* The invariant.                                                          *)

\* After the search for banners, up to the row.
Searched == {"shots", "extract", "interact", "call", "cmp", "save"}

\* What was assigned in this visit, by and by.
AssignedInv ==
  /\ DOMAIN by = Globals
  /\ pc = "prepare" => by["status"] = visit
  /\ pc = "detect" => \A g \in DataFields \cup {"status"} : by[g] = visit
  /\ pc \in Searched => \A g \in Globals : by[g] = visit

\* The CMP is looked for last; without it the log line fails.
CMPInv ==
  /\ pc \in {"get", "prepare"} => ~bound
  /\ pc \in {"detect", "shots", "extract", "interact", "call", "cmp"} =>
       CMP = NoCMP
  /\ pc = "call" => choice # 0
  /\ pc \in {"handler", "end"} /\ rej_flag => choice # 0 /\ CMP = NoCMP

\* The table is a sequence of rows.
RowsInv == visit_db \in Seq(Range(visit_db))

OwnInv ==
  RowsInv /\ RecordIsOwn /\ RejFlagFresh /\ AssignedInv /\ CMPInv

\* The visit's row was sent, marked if and only if the detection raised.
Recorded ==
  /\ visit_db # <<>>
  /\ Last(visit_db).visit = visit
  /\ Last(visit_db).status = "error" <=> undetected

\* The status is -1 if and only if the detection raised, up to the row.
StatusInv ==
  /\ pc \in {"get", "prepare", "detect"} => ~undetected
  /\ pc \in {"prepare", "detect"} => status # "error"
  /\ pc \in Searched => (status = "error" <=> undetected)

\* Without the row the log line fails, unless saving raised.
SentInv ==
  /\ StatusInv
  /\ pc \in {"handler", "end"} =>
       unsaved \/ Recorded \/ ~bound \/ CMP = NoCMP
  /\ outcome = "ok" =>
       pc = "idle" /\ (choice # 0 /\ ~unsaved => Recorded)

VisitInv == mode = "openwpm" => OwnInv /\ SentInv

----------------------------------------------------------------------------
(* What Stamp and the end of an iteration assign.                          *)

\* Stamp marks the globals it names as assigned in this visit.
LEMMA StampAssigns ==
  ASSUME NEW G, Stamp(G)
  PROVE  /\ DOMAIN by' = Globals
         /\ \A g \in Globals : by'[g] = IF g \in G THEN visit ELSE by[g]
BY DEF Stamp

\* A stamp takes nothing from what was assigned in this visit.
LEMMA StampKeeps ==
  ASSUME NEW G, Stamp(G), NEW H, H \subseteq Globals,
         \A g \in H : by[g] = visit
  PROVE  \A g \in H : by'[g] = visit
BY StampAssigns

\* Back in the loop over the banners nothing but the globals of a banner has
\* changed, and rej_flag is down.
LEMMA LoopTailEffect ==
  ASSUME LoopTail
  PROVE  /\ pc' = "interact" /\ rej_flag' = FALSE
         /\ DOMAIN by' = Globals
         /\ (\A g \in Globals : by[g] = visit) =>
              \A g \in Globals : by'[g] = visit
<1>1. Stamp({"btn_status", "interact_time", "nc_cmp_name"})
  BY DEF LoopTail
<1> QED
  BY <1>1, StampAssigns, StampKeeps DEF LoopTail

\* A call returns to its caller or to the loop.
LEMMA ReturnEffect ==
  ASSUME NEW flag, Return(flag), pc = "call", DOMAIN by = Globals,
         \A g \in Globals : by[g] = visit
  PROVE  /\ pc' \in {"call", "interact"}
         /\ pc' = "interact" => rej_flag' = FALSE
         /\ DOMAIN by' = Globals
         /\ \A g \in Globals : by'[g] = visit
<1>1. CASE Len(calls) = 1
  <2>1. LoopTail
    BY <1>1 DEF Return
  <2> QED
    BY <2>1, LoopTailEffect
<1>2. CASE Len(calls) # 1
  <2>1. UNCHANGED <<by, pc>>
    BY <1>2 DEF Return
  <2> QED
    BY <2>1
<1> QED
  BY <1>1, <1>2

\* A row is added at the end of the table.
LEMMA AppendRow ==
  ASSUME NEW s, s \in Seq(Range(s)), NEW e
  PROVE  /\ Append(s, e) \in Seq(Range(Append(s, e)))
         /\ DOMAIN Append(s, e) = DOMAIN s \cup {Len(s) + 1}
         /\ \A k \in DOMAIN s : Append(s, e)[k] = s[k]
         /\ Append(s, e)[Len(s) + 1] = e
<1> DEFINE t == Append(s, e)
<1>1. /\ DOMAIN t = DOMAIN s \cup {Len(s) + 1}
      /\ \A k \in DOMAIN s : t[k] = s[k]
      /\ t[Len(s) + 1] = e
      /\ t \in Seq(Range(s) \cup {e})
  OBVIOUS
<1>2. t \in Seq(Range(t))
  BY <1>1 DEF Range
<1> QED
  BY <1>1, <1>2

----------------------------------------------------------------------------
(* The steps.                                                              *)

\* Nothing is assigned and nothing is in the table.
LEMMA InitOwn == Init => VisitInv
BY DEF Init, VisitInv, OwnInv, RowsInv, RecordIsOwn, RejFlagFresh,
       AssignedInv, CMPInv, SentInv, StatusInv, Searched, Globals

\* The mode is that of the process.
LEMMA ModeFixed == [Next]_vars => mode' = mode
<1>1. ASSUME Next
      PROVE  mode' = mode
  BY <1>1 DEF Next, Begin, Get, Prepare, Raise, OpenDomainPage, DetectNothing,
              Detect, DetectRaises, Shot, Extract, Interact, Enter,
              ClickExplicit, ClickNonExplicit, ClickOnBtns, ClickRaises,
              InSettings, Addon, Finish,
              Trouble, Except, Escape, DetectCMP, SetDataInDb,
              SetDataInDbRaises, Handle, CommandOk, CommandFails, NextDomain,
              place
<1> QED
  BY <1>1 DEF vars, place

\* From the beginning of a visit to the search for banners.
LEMMA OpeningOwn ==
  ASSUME OwnInv, mode = "openwpm",
         Begin \/ Get \/ Prepare \/ Raise \/ OpenDomainPage
  PROVE  OwnInv'
<1> USE DEF OwnInv
<1>1. CASE Begin
  BY <1>1 DEF Begin, RowsInv, RecordIsOwn, RejFlagFresh, AssignedInv, CMPInv,
              Searched, data, saving
<1>2. CASE Get
  <2>1. /\ DOMAIN by' = Globals
        /\ by'["status"] = visit
    BY <1>2, StampAssigns DEF Get, Globals
  <2> QED
    BY <1>2, <2>1 DEF Get, RowsInv, RecordIsOwn, RejFlagFresh, AssignedInv,
                      CMPInv, Searched, clicks, saving
<1>3. CASE Prepare
  <2>1. Stamp(DataFields)
    BY <1>3 DEF Prepare, InitData
  <2>2. /\ DOMAIN by' = Globals
        /\ \A g \in DataFields \cup {"status"} : by'[g] = visit
    BY <1>3, <2>1, StampAssigns DEF Prepare, AssignedInv, DataFields, Globals
  <2> QED
    BY <1>3, <2>2 DEF Prepare, InitData, RowsInv, RecordIsOwn, RejFlagFresh,
                      AssignedInv, CMPInv, Searched, clicks, saving
<1>4. CASE Raise
  BY <1>4 DEF Raise, RowsInv, RecordIsOwn, RejFlagFresh, AssignedInv, CMPInv,
              Searched, place, data, clicks, saving
<1>5. CASE OpenDomainPage
  BY <1>5 DEF OpenDomainPage
<1> QED
  BY <1>1, <1>2, <1>3, <1>4, <1>5

\* The search, the screenshots and the extraction.
LEMMA SearchOwn ==
  ASSUME OwnInv, mode = "openwpm",
         DetectNothing \/ Detect \/ DetectRaises \/ Shot \/ Extract
  PROVE  OwnInv'
<1> USE DEF OwnInv
<1>1. CASE DetectNothing
  BY <1>1 DEF DetectNothing
<1>2. CASE Detect \/ DetectRaises
  <2>1. pc = "detect" /\ pc' \in {"detect", "shots"}
    BY <1>2 DEF Detect, DetectRaises, Detected
  <2>2. UNCHANGED <<mode, visit, choice, bound, outcome, CMP, rej_flag,
                    visit_db>>
    BY <1>2 DEF Detect, DetectRaises, place, clicks, saving
  <2>3. PICK G : /\ Stamp(G)
                 /\ pc' = "shots" => {"num_banners", "lang"} \subseteq G
    <3>1. CASE Detect
      <4>1. \/ Detected(banners') /\ Stamp({"num_banners", "lang", "ttw"})
            \/ UNCHANGED pc /\ Stamp({"lang", "ttw"})
        BY <3>1 DEF Detect, Detected
      <4> QED
        BY <2>1, <4>1
    <3>2. CASE DetectRaises
      BY <3>2 DEF DetectRaises
    <3> QED
      BY <1>2, <3>1, <3>2
  <2>4. /\ DOMAIN by' = Globals
        /\ \A g \in DataFields \cup {"status"} : by'[g] = visit
    BY <2>1, <2>3, StampAssigns DEF AssignedInv, DataFields, Globals
  <2>5. pc' = "shots" => \A g \in Globals : by'[g] = visit
    BY <2>3, <2>4, StampAssigns DEF DataFields, Globals
  <2> QED
    BY <2>1, <2>2, <2>4, <2>5
       DEF RowsInv, RecordIsOwn, RejFlagFresh, AssignedInv, CMPInv, Searched
<1>3. CASE Shot
  BY <1>3 DEF Shot, RowsInv, RecordIsOwn, RejFlagFresh, AssignedInv, CMPInv,
              Searched, place, data, clicks, saving
<1>4. CASE Extract
  <2>1. pc = "extract" /\ pc' \in {"extract", "interact"}
    BY <1>4 DEF Extract
  <2>2. UNCHANGED <<mode, visit, choice, bound, outcome, CMP, rej_flag,
                    visit_db>>
    BY <1>4 DEF Extract, place, clicks, saving
  <2>3. /\ DOMAIN by' = Globals
        /\ \A g \in Globals : by'[g] = visit
    <3>1. UNCHANGED by \/ Stamp({"banners_data"})
      BY <1>4 DEF Extract
    <3> QED
      BY <2>1, <3>1, StampAssigns, StampKeeps DEF AssignedInv, Searched
  <2> QED
    BY <2>1, <2>2, <2>3
       DEF RowsInv, RecordIsOwn, RejFlagFresh, AssignedInv, CMPInv, Searched
<1> QED
  BY <1>1, <1>2, <1>3, <1>4

\* The loop over the banners and what a call does.
LEMMA InteractionOwn ==
  ASSUME OwnInv, mode = "openwpm",
         \/ Interact \/ Enter \/ ClickExplicit \/ ClickNonExplicit
         \/ ClickOnBtns \/ ClickRaises
         \/ InSettings \/ Addon \/ Finish \/ Trouble \/ Except \/ Escape
  PROVE  OwnInv'
<1> USE DEF OwnInv
<1>1. CASE Interact
  <2>1. /\ pc = "interact"
        /\ UNCHANGED <<visit, choice, bound, outcome, visit_db>>
    BY <1>1 DEF Interact, place, saving
  <2>2. \/ pc' \in {"cmp", "handler"} /\ UNCHANGED <<CMP, by, rej_flag>>
        \/ pc' = "call" /\ choice # 0 /\ UNCHANGED <<CMP, by, rej_flag>>
        \/ LoopTail /\ UNCHANGED CMP
    BY <1>1 DEF Interact, data, clicks
  <2>3. CASE LoopTail /\ UNCHANGED CMP
    BY <2>1, <2>3, LoopTailEffect
       DEF RowsInv, RecordIsOwn, RejFlagFresh, AssignedInv, CMPInv, Searched
  <2>4. CASE /\ \/ pc' \in {"cmp", "handler"}
                \/ pc' = "call" /\ choice # 0
             /\ UNCHANGED <<CMP, by, rej_flag>>
    BY <2>1, <2>4
       DEF RowsInv, RecordIsOwn, RejFlagFresh, AssignedInv, CMPInv, Searched
  <2> QED
    BY <2>2, <2>3, <2>4
<1>2. CASE \/ Enter \/ ClickExplicit \/ ClickNonExplicit \/ ClickOnBtns
           \/ ClickRaises \/ InSettings \/ Addon \/ Trouble
  <2>1. /\ pc = "call" /\ pc' = "call"
        /\ UNCHANGED <<visit, choice, bound, outcome, CMP, by, visit_db>>
    BY <1>2 DEF Enter, ClickExplicit, ClickNonExplicit, ClickOnBtns,
                ClickRaises, InSettings, Addon, Trouble, place, data, saving
  <2> QED
    BY <2>1 DEF RowsInv, RecordIsOwn, RejFlagFresh, AssignedInv, CMPInv,
                Searched
<1>3. CASE Finish \/ Except
  <2>1. /\ pc = "call" /\ Return(top.flag)
        /\ UNCHANGED <<visit, choice, bound, outcome, CMP, visit_db>>
    BY <1>3 DEF Finish, Except, place, saving
  <2>2. /\ pc' \in {"call", "interact"}
        /\ pc' = "interact" => rej_flag' = FALSE
        /\ DOMAIN by' = Globals
        /\ \A g \in Globals : by'[g] = visit
    BY <2>1, ReturnEffect DEF AssignedInv, Searched
  <2> QED
    BY <2>1, <2>2
       DEF RowsInv, RecordIsOwn, RejFlagFresh, AssignedInv, CMPInv, Searched
<1>4. CASE Escape
  <2>1. /\ pc = "call" /\ pc' \in {"call", "handler"}
        /\ UNCHANGED <<visit, choice, bound, outcome, CMP, by, rej_flag,
                       visit_db>>
    BY <1>4 DEF Escape, place, data, saving
  <2> QED
    BY <2>1 DEF RowsInv, RecordIsOwn, RejFlagFresh, AssignedInv, CMPInv,
                Searched
<1> QED
  BY <1>1, <1>2, <1>3, <1>4

\* The end of a visit.  The row is made when everything was assigned.
LEMMA EndOwn ==
  ASSUME OwnInv, mode = "openwpm",
         \/ DetectCMP \/ SetDataInDb \/ SetDataInDbRaises \/ Handle
         \/ CommandOk \/ CommandFails \/ NextDomain
  PROVE  OwnInv'
<1> USE DEF OwnInv
<1>1. CASE DetectCMP
  <2>1. /\ pc = "cmp" /\ pc' = "save" /\ Stamp({"CMP"})
        /\ UNCHANGED <<visit, choice, bound, outcome, rej_flag, visit_db>>
    BY <1>1 DEF DetectCMP, place, clicks, saving
  <2>2. /\ DOMAIN by' = Globals
        /\ \A g \in Globals : by'[g] = visit
    BY <2>1, StampAssigns, StampKeeps DEF AssignedInv, Searched
  <2> QED
    BY <2>1, <2>2
       DEF RowsInv, RecordIsOwn, RejFlagFresh, AssignedInv, CMPInv, Searched
<1>2. CASE SetDataInDb
  <2>1. /\ pc = "save" /\ pc' = "end"
        /\ UNCHANGED <<visit, choice, bound, outcome, CMP, by, rej_flag>>
    BY <1>2 DEF SetDataInDb, place, data, clicks
  <2>2. ~rej_flag
    BY <2>1 DEF RejFlagFresh
  <2>3. RowsInv' /\ RecordIsOwn'
    <3>1. Row.stale = {}
      BY <2>1 DEF Row, AssignedInv, Searched
    <3>2. CASE UNCHANGED visit_db
      BY <3>2 DEF RecordIsOwn, RowsInv
    <3>3. CASE visit_db' = Append(visit_db, Row)
      BY <3>1, <3>3, AppendRow DEF RecordIsOwn, RowsInv
    <3> QED
      BY <1>2, <3>2, <3>3 DEF SetDataInDb
  <2> QED
    BY <2>1, <2>2, <2>3 DEF RejFlagFresh, AssignedInv, CMPInv, Searched
<1>3. CASE SetDataInDbRaises \/ NextDomain
  BY <1>3 DEF SetDataInDbRaises, NextDomain
<1>4. CASE Handle
  BY <1>4 DEF Handle, RowsInv, RecordIsOwn, RejFlagFresh, AssignedInv, CMPInv,
              Searched, place, data, clicks
<1>5. CASE CommandOk
  <2>1. choice # 0 => ~rej_flag
    BY <1>5 DEF CommandOk, ReturnsOk, CMPInv
  <2>2. /\ choice = 0 => ~rej_flag
        /\ pc' = "idle"
        /\ UNCHANGED <<visit, choice, bound, visit_db>>
    BY <1>5 DEF CommandOk, CMPInv, Forget, saving
  <2>3. DOMAIN by' = Globals /\ ~rej_flag'
    BY <1>5, <2>1, <2>2 DEF CommandOk, FreshGlobals, AssignedInv
  <2> QED
    BY <2>1, <2>2, <2>3
       DEF RowsInv, RecordIsOwn, RejFlagFresh, AssignedInv, CMPInv, Searched
<1>6. CASE CommandFails
  BY <1>6 DEF CommandFails, FreshGlobals, Forget, RowsInv, RecordIsOwn,
              RejFlagFresh, AssignedInv, CMPInv, Searched, saving
<1> QED
  BY <1>1, <1>2, <1>3, <1>4, <1>5, <1>6

\* The status up to the row, and the row up to the end of the command.
LEMMA NextSent ==
  ASSUME OwnInv, SentInv, mode = "openwpm", Next
  PROVE  SentInv'
<1> USE DEF SentInv
<1>1. CASE Begin
  BY <1>1 DEF Begin, StatusInv, Searched
<1>2. CASE Get \/ Prepare
  <2>1. /\ pc' = IF pc = "get" THEN "prepare" ELSE "detect"
        /\ pc \in {"get", "prepare"} /\ outcome' = outcome
        /\ undetected' = undetected /\ status' # "error"
    BY <1>2 DEF Get, Prepare, StatusInv, place, saving
  <2> QED
    BY <2>1 DEF StatusInv, Searched
<1>3. CASE DetectRaises
  BY <1>3 DEF DetectRaises, StatusOnRaise, Detected, StatusInv, Searched, place
<1>4. CASE \/ Raise \/ Detect \/ Shot \/ Extract \/ DetectCMP
           \/ Interact \/ Enter \/ ClickExplicit \/ ClickNonExplicit
           \/ ClickOnBtns \/ ClickRaises
           \/ InSettings \/ Addon \/ Finish \/ Trouble \/ Except \/ Escape
  <2>1. UNCHANGED <<status, undetected, outcome, bound>>
    BY <1>4 DEF Raise, Detect, Shot, Extract, DetectCMP, Interact, Enter,
                ClickExplicit, ClickNonExplicit, ClickOnBtns, ClickRaises,
                InSettings, Addon, Finish, Trouble, Except, Escape,
                place, data, saving
  <2>2. pc \in {"prepare", "detect"} \cup Searched
    BY <1>4 DEF Raise, Detect, Shot, Extract, DetectCMP, Interact, Enter,
                ClickExplicit, ClickNonExplicit, ClickOnBtns, ClickRaises,
                InSettings, Addon, Finish, Trouble, Except, Escape, Searched
  <2>3. \/ pc' = "detect" /\ pc = "detect"
        \/ pc' \in Searched /\ pc # "prepare"
        \/ pc' = "handler" /\ UNCHANGED CMP
              /\ pc \in {"prepare", "interact", "call", "cmp"}
    BY <1>4 DEF Raise, Detect, Detected, Shot, Extract, DetectCMP, Interact,
                Enter, ClickExplicit, ClickNonExplicit, ClickOnBtns,
                ClickRaises, InSettings, Addon, Finish, Trouble, Except, Escape,
                Return, LoopTail, Searched, data
  <2>4. pc' = "handler" => ~bound' \/ CMP' = NoCMP
    BY <2>1, <2>3 DEF OwnInv, CMPInv, Searched
  <2> QED
    BY <2>1, <2>2, <2>3, <2>4 DEF StatusInv, Searched
<1>5. CASE SetDataInDb
  <2>1. /\ pc = "save" /\ pc' = "end"
        /\ UNCHANGED <<visit, outcome, undetected>>
    BY <1>5 DEF SetDataInDb, place
  <2>2. unsaved' \/ Recorded'
    <3>1. CASE visit_db' = Append(visit_db, Row)
      <4>1. visit_db' # <<>> /\ Last(visit_db') = Row
        BY <3>1 DEF OwnInv, RowsInv, Last
      <4>2. Row.visit = visit /\ Row.status = status
        BY DEF Row
      <4> QED
        BY <2>1, <4>1, <4>2 DEF Recorded, StatusInv, Searched
    <3> QED
      BY <1>5, <3>1 DEF SetDataInDb
  <2> QED
    BY <2>1, <2>2 DEF StatusInv, Searched
<1>6. CASE Handle
  BY <1>6 DEF Handle, Recorded, StatusInv, Searched, place, data
<1>7. CASE CommandOk
  <2>1. /\ pc' = "idle"
        /\ choice # 0 /\ ~unsaved => Recorded
        /\ UNCHANGED <<visit, choice, visit_db, unsaved, undetected>>
    BY <1>7 DEF CommandOk, ReturnsOk, Forget, saving
  <2> QED
    BY <2>1 DEF Recorded, StatusInv, Searched
<1>8. CASE CommandFails
  BY <1>8 DEF CommandFails, Forget, StatusInv, Searched
<1>9. CASE OpenDomainPage \/ DetectNothing \/ SetDataInDbRaises \/ NextDomain
  BY <1>9 DEF OpenDomainPage, DetectNothing, SetDataInDbRaises, NextDomain
<1> QED
  BY <1>1, <1>2, <1>3, <1>4, <1>5, <1>6, <1>7, <1>8, <1>9 DEF Next

\* Every step keeps the invariant.
LEMMA NextOwn == VisitInv /\ [Next]_vars => VisitInv'
<1> SUFFICES ASSUME VisitInv, [Next]_vars, mode' = "openwpm"
             PROVE  OwnInv' /\ SentInv'
  BY DEF VisitInv
<1>1. mode = "openwpm" /\ OwnInv /\ SentInv
  BY ModeFixed DEF VisitInv
<1>2. CASE Next
  <2>1. OwnInv'
    BY <1>1, <1>2, OpeningOwn, SearchOwn, InteractionOwn, EndOwn DEF Next
  <2> QED
    BY <1>1, <1>2, <2>1, NextSent
<1>3. CASE UNCHANGED vars
  <2>1. OwnInv'
    BY <1>1, <1>3 DEF OwnInv, RowsInv, RecordIsOwn, RejFlagFresh, AssignedInv,
                      CMPInv, Searched, vars, place, data, clicks, saving
  <2>2. SentInv'
    BY <1>1, <1>3 DEF SentInv, StatusInv, Recorded, Searched, vars, place,
                      data, saving
  <2> QED
    BY <2>1, <2>2
<1> QED
  BY <1>2, <1>3

\* It holds in every state.
LEMMA VisitAlwaysOwn == Spec => []VisitInv
<1>1. Init => VisitInv
  BY InitOwn
<1>2. VisitInv /\ [Next]_vars => VisitInv'
  BY NextOwn
<1> QED
  BY <1>1, <1>2, PTL DEF Spec

----------------------------------------------------------------------------
(* The results.                                                            *)

\* Under OpenWPM no visit of a process uses what an earlier visit left in the
\* modules' globals and in Data: all of a row was assigned in its own visit,
\* and rej_flag is down whenever a visit or a banner begins.
THEOREM NothingAlwaysInherited == Spec => []NothingInherited
<1>1. VisitInv => NothingInherited
  BY DEF VisitInv, OwnInv, NothingInherited
<1> QED
  BY <1>1, VisitAlwaysOwn, PTL

\* A command that interacts with banners and returns normally has sent the
\* row of its visit, marked with -1 if and only if the detection had raised:
\* whatever was raised and swallowed on the way, unless it was in saving.
THEOREM OkAlwaysRecorded == Spec => []OkMeansRecorded
<1>1. VisitInv => OkMeansRecorded
  BY DEF VisitInv, SentInv, Recorded, OkMeansRecorded
<1> QED
  BY <1>1, VisitAlwaysOwn, PTL

----------------------------------------------------------------------------
(* What is tried: the banners, the stack of calls and the driver.          *)

\* The banners of a visit are those of its site.
SiteInv ==
  /\ IsSite(site)
  /\ banners \in Seq(Found(site))
  /\ pc \in {"idle", "get"} => banners = <<>>
  /\ i \in Nat \ {0}

CallFields == {"item", "choice", "total", "el", "shadow", "usable", "stage",
               "flag", "explicit", "left", "tried", "pressed", "parents"}

\* The buttons tried are not left of the pass; for acceptance none is pressed
\* or left that disagrees.
ButtonsInv(s, c) ==
  /\ c.stage \in {"enter", "explicit"} =>
       c.left = {} /\ c.tried = {} /\ c.pressed = {}
  /\ c.left \cap c.tried = {}
  /\ c.choice = 1 => \A b \in c.pressed \cup c.left :
       "disagree" \notin TextOffers(s[c.el.doc], b)

\* Once the banner is looked up el is an element.
CallInv(s, c) ==
  /\ DOMAIN c = CallFields
  /\ "kind" \in DOMAIN c.item
  /\ c.stage # "enter" => "kind" \in DOMAIN c.el /\ ~IsTuple(c.el)
  /\ ButtonsInv(s, c)

\* Only the first call is given a banner, and a caller has looked it up.
Stacked(s, stack) ==
  /\ stack \in Seq(Range(stack))
  /\ \A k \in DOMAIN stack :
       /\ CallInv(s, stack[k])
       /\ k # 1 => ~IsTuple(stack[k].item)
       /\ k # Len(stack) => stack[k].stage # "enter"

\* Up to the second pass the buttons tried or left are those of the first.
PassInv ==
  /\ top.stage = "clicking" /\ top.explicit =>
       top.left \cup top.tried \subseteq Buttons(TRUE)
  /\ top.stage = "non_explicit" => top.tried \subseteq Buttons(TRUE)

StackInv ==
  /\ Stacked(site, calls)
  /\ pc = "call" <=> calls # <<>>
  /\ pc = "call" => PassInv
  /\ ~twice

\* The data of the first n banners.
Matching(extracted, list, n) ==
  /\ extracted \in Seq(Range(extracted))
  /\ Len(extracted) = n
  /\ \A k \in 1..n : /\ extracted[k].banner = k
                     /\ extracted[k].shadow_dom <=> list[k].kind = "shadow"

\* Without a failure the driver leaves the page during a call for a frame
\* only, and nothing is dropped.
DriftInv ==
  /\ pc # "call" => ctx = Page
  /\ ctx # Page => IsTuple(calls[1].item)
  /\ pc \in {"detect", "shots"} => banners_data = <<>>
  /\ pc = "extract" =>
       i <= Len(banners) + 1 /\ Matching(banners_data, banners, i - 1)
  /\ pc \in {"interact", "call", "cmp", "save"} =>
       Matching(banners_data, banners, Len(banners))
  /\ pc \in {"detect", "shots", "extract"} => CMP = NoCMP
  /\ pc \in {"interact", "call", "cmp", "save"} =>
       CMP \in {NoCMP, {CMPOf(site[Page])}}

----------------------------------------------------------------------------
(* The stack of calls.                                                     *)

\* The call on top of the stack.
LEMMA TopOfStack ==
  ASSUME NEW s, NEW stack, Stacked(s, stack), stack # <<>>
  PROVE  /\ Len(stack) \in Nat \ {0} /\ DOMAIN stack = 1..Len(stack)
         /\ Last(stack) = stack[Len(stack)]
         /\ CallInv(s, Last(stack))
         /\ Len(stack) # 1 => ~IsTuple(Last(stack).item)
<1>1. Len(stack) \in Nat \ {0} /\ DOMAIN stack = 1..Len(stack)
  BY DEF Stacked
<1>2. Last(stack) = stack[Len(stack)]
  BY DEF Last
<1> QED
  BY <1>1, <1>2 DEF Stacked

\* A sequence without its last element.
LEMMA FrontOfStack ==
  ASSUME NEW S, NEW stack \in Seq(S), stack # <<>>
  PROVE  /\ Front(stack) \in Seq(S)
         /\ Len(Front(stack)) = Len(stack) - 1
         /\ DOMAIN Front(stack) = 1..(Len(stack) - 1)
         /\ \A k \in 1..(Len(stack) - 1) : Front(stack)[k] = stack[k]
<1> DEFINE n == Len(stack)
<1>1. n \in Nat \ {0} /\ DOMAIN stack = 1..n
  OBVIOUS
<1>2. Front(stack) = SubSeq(stack, 1, n - 1)
  BY DEF Front
<1> HIDE DEF n
<1>3. \A k \in 1..(n - 1) : k \in 1..n /\ stack[k] \in S
  BY <1>1
<1>4. SubSeq(stack, 1, n - 1) = [k \in 1..(n - 1) |-> stack[k]]
  BY <1>1, n - 1 \in Nat
<1>5. n - 1 \in Nat
  BY <1>1
<1>6. Front(stack) \in [1..(n - 1) -> S]
  BY <1>2, <1>3, <1>4
<1>7. Front(stack) \in Seq(S)
  BY <1>5, <1>6
<1>8. DOMAIN Front(stack) = 1..(n - 1)
  BY <1>6
<1>9. Len(Front(stack)) = n - 1
  BY <1>5, <1>7, <1>8
<1>10. \A k \in 1..(n - 1) : Front(stack)[k] = stack[k]
  BY <1>2, <1>4
<1> QED
  BY <1>7, <1>8, <1>9, <1>10 DEF n

\* The top of the stack goes on.
LEMMA TopReplaced ==
  ASSUME NEW s, NEW stack, Stacked(s, stack), stack # <<>>,
         NEW c, CallInv(s, c), c.item = Last(stack).item
  PROVE  /\ Stacked(s, Append(Front(stack), c))
         /\ Append(Front(stack), c) # <<>>
         /\ Append(Front(stack), c)[1].item = stack[1].item
<1> DEFINE n == Len(stack)
           front == Front(stack)
           new == Append(front, c)
<1>1. /\ n \in Nat \ {0} /\ DOMAIN stack = 1..n
      /\ Last(stack) = stack[n]
      /\ n # 1 => ~IsTuple(Last(stack).item)
      /\ stack \in Seq(Range(stack))
  BY TopOfStack DEF Stacked
<1>2. /\ front \in Seq(Range(stack)) /\ Len(front) = n - 1
      /\ \A k \in 1..(n - 1) : front[k] = stack[k]
  BY <1>1, FrontOfStack
<1> HIDE DEF n, front
<1>3. /\ new \in Seq(Range(stack) \cup {c})
      /\ Len(new) = n /\ DOMAIN new = 1..n
      /\ new[n] = c
      /\ \A k \in 1..(n - 1) : new[k] = stack[k]
  BY <1>1, <1>2
<1> HIDE DEF new
<1>4. new \in Seq(Range(new))
  BY <1>3 DEF Range
<1>5. \A k \in 1..n : new[k].item = stack[k].item
  BY <1>1, <1>3
<1>6. \A k \in 1..n : /\ CallInv(s, new[k])
                      /\ k # 1 => ~IsTuple(new[k].item)
                      /\ k # n => new[k].stage # "enter"
  <2>1. \A k \in 1..n : /\ CallInv(s, stack[k])
                        /\ k # 1 => ~IsTuple(stack[k].item)
                        /\ k # n => stack[k].stage # "enter"
    BY <1>1 DEF Stacked, n
  <2>2. \A k \in 1..n : k = n \/ k \in 1..(n - 1)
    BY <1>1
  <2>3. \A k \in 1..n : k # 1 => ~IsTuple(new[k].item)
    BY <1>5, <2>1
  <2> QED
    BY <1>3, <2>1, <2>2, <2>3
<1>7. Stacked(s, new)
  BY <1>3, <1>4, <1>6 DEF Stacked
<1>8. new # <<>> /\ new[1].item = stack[1].item
  BY <1>1, <1>3, <1>5
<1> QED
  BY <1>7, <1>8 DEF new, front

\* A call is put on top of a caller that has looked up its banner.
LEMMA CallPushed ==
  ASSUME NEW s, NEW stack, Stacked(s, stack), stack # <<>>,
         Last(stack).stage # "enter",
         NEW c, CallInv(s, c), ~IsTuple(c.item)
  PROVE  /\ Stacked(s, stack \o <<c>>)
         /\ stack \o <<c>> # <<>>
         /\ (stack \o <<c>>)[1].item = stack[1].item
<1> DEFINE n == Len(stack)
           new == stack \o <<c>>
<1>1. /\ n \in Nat \ {0} /\ DOMAIN stack = 1..n
      /\ stack[n].stage # "enter"
      /\ stack \in Seq(Range(stack))
  BY TopOfStack DEF Stacked
<1> HIDE DEF n
<1>2. /\ new \in Seq(Range(stack) \cup {c})
      /\ Len(new) = n + 1 /\ DOMAIN new = 1..(n + 1)
      /\ new[n + 1] = c
      /\ \A k \in 1..n : new[k] = stack[k]
  BY <1>1 DEF n
<1> HIDE DEF new
<1>3. new \in Seq(Range(new))
  BY <1>2 DEF Range
<1>4. \A k \in 1..(n + 1) : /\ CallInv(s, new[k])
                            /\ k # 1 => ~IsTuple(new[k].item)
                            /\ k # n + 1 => new[k].stage # "enter"
  BY <1>1, <1>2 DEF Stacked, n
<1>5. Stacked(s, new)
  BY <1>2, <1>3, <1>4 DEF Stacked
<1>6. new # <<>> /\ new[1].item = stack[1].item
  BY <1>1, <1>2
<1> QED
  BY <1>5, <1>6 DEF new

\* A call is over.
LEMMA CallPopped ==
  ASSUME NEW s, NEW stack, Stacked(s, stack), stack # <<>>, Len(stack) # 1
  PROVE  /\ Stacked(s, Front(stack))
         /\ Front(stack) # <<>>
         /\ Front(stack)[1] = stack[1]
         /\ Last(Front(stack)).stage # "enter"
<1> DEFINE n == Len(stack)
           front == Front(stack)
<1>1. /\ n \in Nat \ {0} /\ n # 1 /\ DOMAIN stack = 1..n
      /\ stack \in Seq(Range(stack))
  BY TopOfStack DEF Stacked
<1>2. /\ front \in Seq(Range(stack)) /\ Len(front) = n - 1
      /\ DOMAIN front = 1..(n - 1)
      /\ \A k \in 1..(n - 1) : front[k] = stack[k]
  BY <1>1, FrontOfStack
<1> HIDE DEF front
<1>3. front \in Seq(Range(front))
  <2>1. \A k \in 1..(n - 1) : front[k] \in Range(front)
    BY <1>2 DEF Range
  <2> HIDE DEF n
  <2> QED
    BY <1>1, <1>2, <2>1
<1>4. \A k \in 1..(n - 1) : /\ CallInv(s, front[k])
                            /\ k # 1 => ~IsTuple(front[k].item)
                            /\ front[k].stage # "enter"
  <2>1. \A k \in 1..n : /\ CallInv(s, stack[k])
                        /\ k # 1 => ~IsTuple(stack[k].item)
                        /\ k # n => stack[k].stage # "enter"
    BY <1>1 DEF Stacked
  <2> HIDE DEF n
  <2>2. \A k \in 1..(n - 1) : k \in 1..n /\ k # n
    BY <1>1
  <2> QED
    BY <1>2, <2>1, <2>2
<1> HIDE DEF n
<1>5. Stacked(s, front)
  BY <1>2, <1>3, <1>4 DEF Stacked
<1>6. front # <<>> /\ front[1] = stack[1]
  BY <1>1, <1>2
<1>7. Last(front) = front[n - 1]
  BY <1>2 DEF Last
<1>8. Last(front).stage # "enter"
  BY <1>1, <1>4, <1>7
<1> QED
  BY <1>5, <1>6, <1>8 DEF front

\* A call that has just been made.
LEMMA NewCall ==
  ASSUME NEW s, NEW item, "kind" \in DOMAIN item, NEW c, NEW total
  PROVE  CallInv(s, Call(item, c, total)) /\ Call(item, c, total).item = item
BY DEF CallInv, ButtonsInv, Call, CallFields

\* A call moves on without a new button.
LEMMA CallRestaged ==
  ASSUME NEW s, NEW c, CallInv(s, c), c.stage # "enter",
         NEW st, st \notin {"enter", "explicit"}
  PROVE  /\ CallInv(s, [c EXCEPT !.stage = st])
         /\ [c EXCEPT !.stage = st].item = c.item
         /\ [c EXCEPT !.stage = st].stage = st
BY DEF CallInv, ButtonsInv, CallFields

\* A list of calls with one more at the end ends with it.
LEMMA LastAppended ==
  ASSUME NEW S, NEW stack \in Seq(S), NEW c
  PROVE  Last(Append(stack, c)) = c /\ Last(stack \o <<c>>) = c
<1> DEFINE T == S \cup {c}
<1>1. stack \in Seq(T) /\ c \in T /\ <<c>> \in Seq(T)
  OBVIOUS
<1> HIDE DEF T
<1>2. /\ Len(Append(stack, c)) = Len(stack) + 1
      /\ Append(stack, c)[Len(stack) + 1] = c
      /\ Len(stack \o <<c>>) = Len(stack) + 1
      /\ (stack \o <<c>>)[Len(stack) + 1] = c
  BY <1>1
<1> QED
  BY <1>2 DEF Last

\* The call that takes the place of the top.
LEMMA LastReplaced ==
  ASSUME NEW s, NEW stack, Stacked(s, stack), stack # <<>>, NEW c
  PROVE  Last(Append(Front(stack), c)) = c
<1>1. Front(stack) \in Seq(Range(stack))
  BY FrontOfStack DEF Stacked
<1> QED
  BY <1>1, LastAppended

----------------------------------------------------------------------------
(* What the steps of a call do to the stack.                               *)

\* The calls go on, and the first with the same banner.
StackGoesOn ==
  StackInv' /\ (pc' = "call" => calls'[1].item = calls[1].item)

\* A call that is in neither pass.
Passed(c) == c.stage \notin {"clicking", "non_explicit"}

\* The call on top becomes c.
LEMMA SetMakes ==
  ASSUME StackInv, pc = "call", NEW c, Set(c)
  PROVE  /\ calls' = Append(Front(calls), c) /\ top' = c
         /\ Stacked(site, calls) /\ calls # <<>> /\ top = Last(calls)
<1>1. Stacked(site, calls) /\ calls # <<>> /\ calls' = Append(Front(calls), c)
  BY DEF StackInv, Set
<1>2. Last(calls') = c
  BY <1>1, LastReplaced
<1> QED
  BY <1>1, <1>2 DEF top

\* The call on top goes on and keeps its argument.
LEMMA SetGoesOn ==
  ASSUME StackInv, pc = "call", NEW c, CallInv(site, c), c.item = top.item,
         Set(c), pc' = "call", site' = site, ~twice', Passed(c) \/ PassInv'
  PROVE  StackGoesOn
<1>1. /\ Stacked(site, calls) /\ calls # <<>>
      /\ calls' = Append(Front(calls), c) /\ c.item = Last(calls).item
      /\ top' = c
  BY SetMakes
<1>2. /\ Stacked(site, calls') /\ calls' # <<>>
      /\ calls'[1].item = calls[1].item
  BY <1>1, TopReplaced
<1>3. PassInv'
  BY <1>1 DEF Passed, PassInv
<1> QED
  BY <1>2, <1>3 DEF StackInv, StackGoesOn

\* The call that is being made.
LEMMA TopHolds ==
  ASSUME StackInv, pc = "call"
  PROVE  /\ Stacked(site, calls) /\ calls # <<>>
         /\ CallInv(site, top) /\ PassInv
BY TopOfStack DEF StackInv, top

\* The banner is looked up.
LEMMA EnterGoesOn ==
  ASSUME StackInv, Enter
  PROVE  StackGoesOn
<1>1. CallInv(site, top) /\ pc = "call" /\ top.stage = "enter"
  BY TopHolds DEF Enter
<1>2. pc' = "call" /\ site' = site /\ ~twice'
  BY DEF Enter, place, StackInv
<1>3. PICK t \in Switches(top.item) :
        Set([top EXCEPT
                 !.stage = "explicit",
                 !.shadow = TakenForShadow(top.item, t),
                 !.usable = top.total \/ Usable(top.item, t),
                 !.el = IF top.total
                        THEN Banner("plain", NoElement, 0, Reached(top.item, t),
                                    Min({Body, Len(site[Reached(top.item, t)])}))
                        ELSE [top.item EXCEPT
                                !.kind = IF @ \in {"shadow", "clone"}
                                         THEN "clone" ELSE "plain"]])
  BY DEF Enter
<1> DEFINE whole == Banner("plain", NoElement, 0, Reached(top.item, t),
                           Min({Body, Len(site[Reached(top.item, t)])}))
           one == [top.item EXCEPT !.kind = IF @ \in {"shadow", "clone"}
                                            THEN "clone" ELSE "plain"]
           el == IF top.total THEN whole ELSE one
<1>4. "kind" \in DOMAIN el /\ ~IsTuple(el)
  <2>1. "kind" \in DOMAIN whole /\ ~IsTuple(whole)
    BY DEF Banner, IsTuple
  <2>2. "kind" \in DOMAIN one /\ ~IsTuple(one)
    BY <1>1 DEF CallInv, IsTuple
  <2> HIDE DEF whole, one
  <2> QED
    BY <2>1, <2>2
<1> DEFINE shadow == TakenForShadow(top.item, t)
           usable == top.total \/ Usable(top.item, t)
           c == [top EXCEPT !.stage = "explicit", !.shadow = shadow,
                            !.usable = usable, !.el = el]
<1>5. Set(c)
  BY <1>3
<1> HIDE DEF el, shadow, usable
<1>6. /\ DOMAIN c = CallFields /\ c.item = top.item /\ c.stage = "explicit"
      /\ c.el = el /\ c.choice = top.choice
      /\ c.left = {} /\ c.tried = {} /\ c.pressed = {}
  BY <1>1 DEF CallInv, ButtonsInv, CallFields
<1> HIDE DEF c
<1>7. CallInv(site, c) /\ Passed(c)
  BY <1>1, <1>4, <1>6 DEF CallInv, ButtonsInv, Passed
<1> QED
  BY <1>1, <1>2, <1>5, <1>6, <1>7, SetGoesOn

\* What is extracted for acceptance does not disagree.
LEMMA ButtonsAgree ==
  ASSUME NEW explicit, top.choice = 1
  PROVE  \A b \in Buttons(explicit) :
           "disagree" \notin TextOffers(site[top.el.doc], b)
<1> DEFINE found == ExtractBtns(site[top.el.doc], top.el.el, top.choice,
                                top.shadow, ~explicit)
<1>1. Buttons(explicit) \subseteq found
  BY DEF Buttons, KeepElsWithAll
<1>2. \A b \in found :
        ~IfContainsWords(site[top.el.doc], b, {"disagree"}, TRUE)
  BY DEF ExtractBtns
<1> HIDE DEF found
<1> QED
  BY <1>1, <1>2 DEF IfContainsWords

\* The buttons are the same for the same banner and choice.
LEMMA ButtonsStay ==
  ASSUME site' = site, rej_flag' = rej_flag, top'.el = top.el,
         top'.choice = top.choice, top'.shadow = top.shadow
  PROVE  Buttons(TRUE)' = Buttons(TRUE)
BY DEF Buttons

\* A call keeps what it was given and looked up when only the pass goes on.
LEMMA CallKept ==
  ASSUME NEW s, NEW c, CallInv(s, c), c.stage # "enter",
         NEW d, DOMAIN d = CallFields, d.stage # "enter",
         \A f \in {"item", "choice", "el"} : d[f] = c[f], ButtonsInv(s, d)
  PROVE  CallInv(s, d)
BY DEF CallInv, CallFields

\* A pass begins over buttons that were not tried before, none of which
\* disagrees.
LEMMA PassGoesOn ==
  ASSUME StackInv, pc = "call", pc' = "call", site' = site, rej_flag' = rej_flag,
         ~twice', top.stage \in {"explicit", "non_explicit"},
         NEW explicit \in BOOLEAN,
         explicit => top.tried = {},
         NEW btns, btns \cap top.tried = {}, btns \subseteq Buttons(explicit),
         Pass(btns, explicit)
  PROVE  StackGoesOn
<1> DEFINE st == StageAfter(btns, explicit)
           c == [top EXCEPT !.left = btns, !.explicit = explicit, !.stage = st]
<1>1. CallInv(site, top)
  BY TopHolds
<1>2. Set(c)
  BY DEF Pass
<1>3. /\ st \in {"clicking", "non_explicit", "in_settings"}
      /\ st = "non_explicit" => explicit
  BY DEF StageAfter
<1> HIDE DEF st
<1>4. /\ DOMAIN c = CallFields
      /\ c.stage = st /\ c.left = btns /\ c.explicit = explicit
      /\ c.item = top.item /\ c.choice = top.choice /\ c.el = top.el
      /\ c.shadow = top.shadow
      /\ c.tried = top.tried /\ c.pressed = top.pressed
  BY <1>1 DEF CallInv, CallFields
<1> HIDE DEF c
<1>5. ButtonsInv(site, c)
  BY <1>1, <1>3, <1>4, ButtonsAgree DEF CallInv, ButtonsInv
<1>6. CallInv(site, c)
  BY <1>1, <1>3, <1>4, <1>5, CallKept
<1>7. top' = c
  BY <1>2, SetMakes
<1>8. Buttons(TRUE)' = Buttons(TRUE)
  BY <1>4, <1>7, ButtonsStay
<1>9. PassInv'
  BY <1>3, <1>4, <1>7, <1>8 DEF PassInv
<1> QED
  BY <1>2, <1>4, <1>6, <1>9, SetGoesOn

\* The two passes: the second leaves out what the first has tried.
LEMMA PassesGoOn ==
  ASSUME StackInv, ClickExplicit \/ ClickNonExplicit
  PROVE  StackGoesOn
<1>0. /\ pc = "call" /\ pc' = "call" /\ site' = site /\ rej_flag' = rej_flag
      /\ twice' = twice
  BY DEF ClickExplicit, ClickNonExplicit, place
<1>1. /\ CallInv(site, top) /\ PassInv
      /\ pc = "call" /\ pc' = "call" /\ site' = site /\ rej_flag' = rej_flag
      /\ ~twice'
  BY <1>0, TopHolds DEF StackInv
<1>2. CASE ClickExplicit
  <2>1. top.stage = "explicit" /\ top.tried = {} /\ Pass(Buttons(TRUE), TRUE)
    BY <1>1, <1>2 DEF ClickExplicit, CallInv, ButtonsInv
  <2> QED
    BY <1>1, <2>1, PassGoesOn
<1>3. CASE ClickNonExplicit
  <2> DEFINE btns == Untried(Buttons(FALSE))
  <2>1. top.stage = "non_explicit" /\ Pass(btns, FALSE)
    BY <1>3 DEF ClickNonExplicit
  <2>2. btns \cap top.tried = {} /\ btns \subseteq Buttons(FALSE)
    BY <1>1, <2>1 DEF PassInv, Untried
  <2> HIDE DEF btns
  <2> QED
    BY <1>1, <2>1, <2>2, PassGoesOn
<1> QED
  BY <1>2, <1>3

\* What is pressed for a button says the same.
LEMMA PressedSaysSame ==
  ASSUME NEW doc, NEW e, NEW in_set, NEW click \in ClickOnBtn(doc, e, in_set)
  PROVE  \A b \in click.pressed : SaysSame(doc, b, e)
<1>1. ASSUME NEW x, NEW c \in ClickAndCheck(doc, x, in_set)
      PROVE  \A b \in c.pressed : SaysSame(doc, b, x)
  <2>1. c.pressed \subseteq {Btn(doc, x)}
    BY DEF ClickAndCheck, Click
  <2>2. SaysSame(doc, Btn(doc, x), x)
    BY DEF Btn, SaysSame
  <2> QED
    BY <2>1, <2>2
<1>2. PICK first \in ClickAndCheck(doc, e, in_set) :
        \/ click = first
        \/ /\ SaysSame(doc, e, doc[e].up)
           /\ \E then \in ClickAndCheck(doc, doc[e].up, in_set) :
                click = Click(then.ok, first.pressed \cup then.pressed,
                              first.parents \cup then.parents)
  BY DEF ClickOnBtn
<1>3. CASE click = first
  BY <1>1, <1>3
<1>4. CASE click # first
  <2>1. SaysSame(doc, e, doc[e].up)
    BY <1>2, <1>4
  <2>2. PICK then \in ClickAndCheck(doc, doc[e].up, in_set) :
          click = Click(then.ok, first.pressed \cup then.pressed,
                        first.parents \cup then.parents)
    BY <1>2, <1>4
  <2>3. click.pressed = first.pressed \cup then.pressed
    BY <2>2 DEF Click
  <2>4. /\ \A b \in first.pressed : SaysSame(doc, b, e)
        /\ \A b \in then.pressed : SaysSame(doc, b, doc[e].up)
    BY <1>1
  <2> QED
    BY <2>1, <2>3, <2>4 DEF SaysSame
<1> QED
  BY <1>3, <1>4

\* So it is for an iteration that raises.
LEMMA RaisedSaysSame ==
  ASSUME NEW doc, NEW e, NEW in_set, NEW click \in ClickAndCheck(doc, e, in_set)
  PROVE  \A b \in click.pressed : SaysSame(doc, b, e)
<1>1. click.pressed \subseteq {Btn(doc, e)}
  BY DEF ClickAndCheck, Click
<1> QED
  BY <1>1 DEF Btn, SaysSame

\* The button whose turn it is is left of the pass.
LEMMA TurnLeft == Turn \subseteq top.left
BY DEF Turn, FindTagButtons

\* A button of the pass is tried.
LEMMA ButtonGoesOn ==
  ASSUME StackInv, pc = "call", pc' = "call", site' = site, rej_flag' = rej_flag,
         top.stage = "clicking", NEW b \in Turn, NEW click,
         \A e \in click.pressed : SaysSame(site[top.el.doc], e, b),
         NEW st, st \notin {"enter", "explicit"},
         st = "clicking" \/ st = "non_explicit" =>
           st = StageAfter(top.left \ {b}, top.explicit),
         NEW c, c = [top EXCEPT !.left = top.left \ {b},
                                !.tried = top.tried \cup {b},
                                !.pressed = top.pressed \cup click.pressed,
                                !.parents = top.parents \cup click.parents,
                                !.flag = click.ok, !.stage = st],
         TriesButton(b, c)
  PROVE  StackGoesOn
<1> DEFINE doc == site[top.el.doc]
<1>1. CallInv(site, top) /\ PassInv
  BY TopHolds
<1>2. b \in top.left /\ b \notin top.tried
  BY <1>1, TurnLeft DEF CallInv, ButtonsInv
<1>3. Set(c) /\ ~twice'
  BY <1>2 DEF TriesButton, StackInv
<1>4. /\ DOMAIN c = CallFields
      /\ c.stage = st /\ c.left = top.left \ {b} /\ c.explicit = top.explicit
      /\ c.item = top.item /\ c.choice = top.choice /\ c.el = top.el
      /\ c.shadow = top.shadow
      /\ c.tried = top.tried \cup {b}
      /\ c.pressed = top.pressed \cup click.pressed
  BY <1>1 DEF CallInv, CallFields
<1>5. top.choice = 1 =>
        \A e \in click.pressed : "disagree" \notin TextOffers(doc, e)
  <2>1. \A e \in click.pressed : TextOffers(doc, e) = TextOffers(doc, b)
    BY DEF SaysSame, TextOffers
  <2>2. top.choice = 1 => "disagree" \notin TextOffers(doc, b)
    BY <1>1, <1>2 DEF CallInv, ButtonsInv
  <2> QED
    BY <2>1, <2>2
<1>6. ButtonsInv(site, c)
  BY <1>1, <1>2, <1>4, <1>5 DEF CallInv, ButtonsInv
<1>7. CallInv(site, c)
  BY <1>1, <1>4, <1>6, CallKept
<1>8. top' = c
  BY <1>3, SetMakes
<1>9. Buttons(TRUE)' = Buttons(TRUE)
  BY <1>4, <1>8, ButtonsStay
<1>10. PassInv'
  <2>1. top.explicit =>
          top.left \ {b} \subseteq Buttons(TRUE)
          /\ top.tried \cup {b} \subseteq Buttons(TRUE)
    BY <1>1, <1>2 DEF PassInv
  <2>2. st = "non_explicit" => top.explicit
    BY DEF StageAfter
  <2>3. c.explicit => /\ c.left \subseteq Buttons(TRUE)
                      /\ c.tried \subseteq Buttons(TRUE)
    BY <1>4, <2>1
  <2>4. c.stage = "non_explicit" => c.explicit
    BY <1>4, <2>2
  <2> QED
    BY ONLY <1>8, <1>9, <2>3, <2>4 DEF PassInv
<1> QED
  BY <1>3, <1>4, <1>7, <1>10, SetGoesOn

\* An iteration of click_on_btns, which may raise.
LEMMA ClicksGoOn ==
  ASSUME StackInv, ClickOnBtns \/ ClickRaises
  PROVE  StackGoesOn
<1>1. /\ pc = "call" /\ pc' = "call" /\ site' = site /\ rej_flag' = rej_flag
      /\ top.stage = "clicking" /\ DOMAIN top = CallFields
  BY TopHolds DEF ClickOnBtns, ClickRaises, place, CallInv
<1>2. CASE ClickOnBtns
  <2>1. PICK b \in Turn : \E click \in ClickOnBtn(site[top.el.doc], b, InSet) :
          TriesButton(b, AfterClick(b, click))
    BY <1>2 DEF ClickOnBtns
  <2>2. PICK click \in ClickOnBtn(site[top.el.doc], b, InSet) :
          TriesButton(b, AfterClick(b, click))
    BY <2>1
  <2> DEFINE st == IF click.ok THEN "finish"
                   ELSE StageAfter(top.left \ {b}, top.explicit)
             c == AfterClick(b, click)
  <2>3. c = [top EXCEPT !.left = top.left \ {b},
                        !.tried = top.tried \cup {b},
                        !.pressed = top.pressed \cup click.pressed,
                        !.parents = top.parents \cup click.parents,
                        !.flag = click.ok, !.stage = st]
    BY <1>1 DEF AfterClick, CallFields
  <2>4. /\ st \notin {"enter", "explicit"}
        /\ st = "clicking" \/ st = "non_explicit" =>
             st = StageAfter(top.left \ {b}, top.explicit)
    BY DEF StageAfter
  <2>5. \A e \in click.pressed : SaysSame(site[top.el.doc], e, b)
    BY PressedSaysSame
  <2>6. TriesButton(b, c)
    BY <2>2
  <2> HIDE DEF st, c
  <2> QED
    BY <1>1, <2>3, <2>4, <2>5, <2>6, ButtonGoesOn
<1>3. CASE ClickRaises
  <2>1. PICK b \in Turn :
          \E click \in ClickAndCheck(site[top.el.doc], b, InSet) :
            TriesButton(b, [AfterClick(b, click) EXCEPT !.stage = "except"])
    BY <1>3 DEF ClickRaises
  <2>2. PICK click \in ClickAndCheck(site[top.el.doc], b, InSet) :
          TriesButton(b, [AfterClick(b, click) EXCEPT !.stage = "except"])
    BY <2>1
  <2> DEFINE c == [AfterClick(b, click) EXCEPT !.stage = "except"]
  <2>3. c = [top EXCEPT !.left = top.left \ {b},
                        !.tried = top.tried \cup {b},
                        !.pressed = top.pressed \cup click.pressed,
                        !.parents = top.parents \cup click.parents,
                        !.flag = click.ok, !.stage = "except"]
    BY <1>1 DEF AfterClick, CallFields
  <2>4. \A e \in click.pressed : SaysSame(site[top.el.doc], e, b)
    BY RaisedSaysSame
  <2>5. TriesButton(b, c)
    BY <2>2
  <2> HIDE DEF c
  <2> QED
    BY <1>1, <2>3, <2>4, <2>5, ButtonGoesOn
<1> QED
  BY <1>2, <1>3

\* The call on top moves on and makes another one.
LEMMA CallMade ==
  ASSUME NEW s, NEW stack, Stacked(s, stack), stack # <<>>,
         NEW c, CallInv(s, c), c.item = Last(stack).item, c.stage # "enter",
         NEW d, CallInv(s, d), ~IsTuple(d.item)
  PROVE  /\ Stacked(s, Append(Front(stack), c) \o <<d>>)
         /\ Append(Front(stack), c) \o <<d>> # <<>>
         /\ (Append(Front(stack), c) \o <<d>>)[1].item = stack[1].item
<1> DEFINE mid == Append(Front(stack), c)
<1>1. Stacked(s, mid) /\ mid # <<>> /\ mid[1].item = stack[1].item
  BY TopReplaced
<1>2. Last(mid).stage # "enter"
  BY LastReplaced
<1> HIDE DEF mid
<1>3. Stacked(s, mid \o <<d>>) /\ mid \o <<d>> # <<>>
      /\ (mid \o <<d>>)[1].item = mid[1].item
  BY <1>1, <1>2, CallPushed
<1> QED
  BY <1>1, <1>3 DEF mid

\* It is not in a pass yet.
LEMMA NextMade ==
  ASSUME NEW s, NEW stack, Stacked(s, stack), stack # <<>>,
         NEW c, NEW d, d.stage = "enter",
         calls' = Append(Front(stack), c) \o <<d>>
  PROVE  PassInv'
<1> DEFINE S == Range(stack) \cup {c}
<1>1. Front(stack) \in Seq(Range(stack))
  BY FrontOfStack DEF Stacked
<1>2. Append(Front(stack), c) \in Seq(S)
  BY <1>1
<1> HIDE DEF S
<1>3. top' = d
  BY <1>2, LastAppended DEF top
<1> QED
  BY <1>3 DEF PassInv

\* Nor is a caller that goes on.
LEMMA CallerGoesOn ==
  ASSUME NEW s, NEW stack, Stacked(s, stack), stack # <<>>,
         NEW c, Passed(c), calls' = Append(Front(stack), c)
  PROVE  PassInv'
<1>1. top' = c
  BY LastReplaced DEF top
<1> QED
  BY <1>1 DEF PassInv, Passed

\* No calls at all.
LEMMA NoCallsStacked == ASSUME NEW s PROVE Stacked(s, <<>>)
BY DEF Stacked, Range

\* The search in the settings, the add-on and an exception.
LEMMA WaitingGoesOn ==
  ASSUME StackInv, InSettings \/ Addon \/ Trouble
  PROVE  StackGoesOn
<1>1. /\ pc = "call" /\ pc' = "call" /\ site' = site /\ ~twice'
      /\ top.stage # "enter"
  BY DEF InSettings, Addon, Trouble, place, StackInv
<1>2. /\ Stacked(site, calls) /\ calls # <<>> /\ CallInv(site, top)
      /\ top = Last(calls)
  BY <1>1, TopHolds DEF top
<1>3. ASSUME NEW st \in {"addon", "finish", "except"},
             Set([top EXCEPT !.stage = st])
      PROVE  StackGoesOn
  <2>1. st \notin {"enter", "explicit"} /\ top.stage # "enter"
        /\ CallInv(site, top)
    BY <1>1, <1>2
  <2>2. /\ CallInv(site, [top EXCEPT !.stage = st])
        /\ [top EXCEPT !.stage = st].item = top.item
        /\ [top EXCEPT !.stage = st].stage = st
    BY ONLY <2>1, CallRestaged
  <2>3. Passed([top EXCEPT !.stage = st])
    BY <2>2 DEF Passed
  <2> QED
    BY <1>1, <1>3, <2>2, <2>3, SetGoesOn
<1>4. ASSUME calls' = Append(Front(calls), [top EXCEPT !.stage = "settings"])
                        \o <<Call(top.el, 3, FALSE)>>
      PROVE  StackGoesOn
  <2> DEFINE c == [top EXCEPT !.stage = "settings"]
             d == Call(top.el, 3, FALSE)
  <2>0. d.stage = "enter"
    BY DEF Call
  <2>1. CallInv(site, c) /\ c.item = Last(calls).item /\ c.stage # "enter"
    <3>1. /\ "settings" \notin {"enter", "explicit"}
          /\ CallInv(site, top) /\ top.stage # "enter"
      BY <1>1, <1>2
    <3>2. /\ CallInv(site, [top EXCEPT !.stage = "settings"])
          /\ [top EXCEPT !.stage = "settings"].item = top.item
          /\ [top EXCEPT !.stage = "settings"].stage = "settings"
      BY <3>1, CallRestaged
    <3> QED
      BY <1>2, <3>2
  <2>2. "kind" \in DOMAIN top.el /\ ~IsTuple(top.el)
    BY <1>1, <1>2 DEF CallInv
  <2>3. CallInv(site, d) /\ ~IsTuple(d.item)
    BY <2>2, NewCall
  <2> HIDE DEF c, d
  <2>4. calls' = Append(Front(calls), c) \o <<d>>
    BY <1>4 DEF c, d
  <2>5. Stacked(site, calls') /\ calls' # <<>>
        /\ calls'[1].item = calls[1].item
    <3>1. /\ Stacked(site, Append(Front(calls), c) \o <<d>>)
          /\ Append(Front(calls), c) \o <<d>> # <<>>
          /\ (Append(Front(calls), c) \o <<d>>)[1].item = calls[1].item
      BY <1>2, <2>1, <2>3, CallMade
    <3> QED
      BY <2>4, <3>1
  <2>6. PassInv'
    BY <1>2, <2>0, <2>4, NextMade
  <2> QED
    BY <1>1, <2>5, <2>6 DEF StackInv, StackGoesOn
<1> QED
  BY <1>3, <1>4 DEF InSettings, Addon, Trouble

\* A call returns: its caller has looked up its banner already.
LEMMA ReturnGoesOn ==
  ASSUME StackInv, pc = "call", site' = site, twice' = twice,
         NEW flag, Return(flag)
  PROVE  StackGoesOn
<1>1. Stacked(site, calls) /\ calls # <<>> /\ ~twice'
  BY DEF StackInv
<1>2. CASE Len(calls) = 1
  <2>1. calls' = <<>> /\ pc' = "interact"
    BY <1>2 DEF Return, LoopTail
  <2> QED
    BY <1>1, <2>1, NoCallsStacked DEF StackInv, StackGoesOn
<1>3. CASE Len(calls) # 1
  <2> DEFINE rest == Front(calls)
             caller == Last(rest)
  <2>1. /\ Stacked(site, rest) /\ rest # <<>> /\ rest[1] = calls[1]
        /\ caller.stage # "enter"
    BY <1>1, <1>3, CallPopped
  <2>2. CallInv(site, caller)
    BY <2>1, TopOfStack
  <2>3. pc' = "call"
    BY <1>3 DEF Return
  <2>4. ASSUME NEW c, CallInv(site, c), c.item = caller.item, Passed(c),
               calls' = Append(Front(rest), c)
        PROVE  StackGoesOn
    <3> HIDE DEF rest
    <3>1. Stacked(site, calls') /\ calls' # <<>>
          /\ calls'[1].item = rest[1].item
      BY <2>1, <2>4, TopReplaced
    <3>2. PassInv'
      BY <2>1, <2>4, CallerGoesOn
    <3> QED
      BY <1>1, <2>1, <2>3, <3>1, <3>2 DEF StackInv, StackGoesOn
  <2>5. CASE caller.stage = "settings" /\ flag
    <3> DEFINE c == [caller EXCEPT !.stage = "total"]
               d == Call(caller.el, 2, TRUE)
    <3>1. CallInv(site, c) /\ c.item = caller.item /\ c.stage # "enter"
      BY <2>1, <2>2, CallRestaged
    <3>2. "kind" \in DOMAIN caller.el /\ ~IsTuple(caller.el)
      BY <2>1, <2>2 DEF CallInv
    <3>3. CallInv(site, d) /\ ~IsTuple(d.item)
      BY <3>2, NewCall
    <3>4. calls' = Append(Front(rest), c) \o <<d>> /\ d.stage = "enter"
      BY <1>3, <2>5 DEF Return, Call
    <3> HIDE DEF c, d, rest
    <3>5. Stacked(site, calls') /\ calls' # <<>>
          /\ calls'[1].item = rest[1].item
      <4>1. /\ Stacked(site, Append(Front(rest), c) \o <<d>>)
            /\ Append(Front(rest), c) \o <<d>> # <<>>
            /\ (Append(Front(rest), c) \o <<d>>)[1].item = rest[1].item
        BY <2>1, <3>1, <3>3, CallMade
      <4> QED
        BY <3>4, <4>1
    <3>6. PassInv'
      BY <2>1, <3>4, NextMade
    <3> QED
      BY <1>1, <2>1, <2>3, <3>5, <3>6 DEF StackInv, StackGoesOn
  <2>6. CASE caller.stage = "settings" /\ ~flag
    <3>1. calls' = Append(Front(rest), [caller EXCEPT !.stage = "addon"])
      BY <1>3, <2>6 DEF Return
    <3> DEFINE c == [caller EXCEPT !.stage = "addon"]
    <3>2. CallInv(site, c) /\ c.item = caller.item /\ c.stage = "addon"
      <4> HIDE DEF caller
      <4>1. CallInv(site, caller) /\ caller.stage # "enter"
        BY <2>1, <2>2
      <4>2. /\ CallInv(site, [caller EXCEPT !.stage = "addon"])
            /\ [caller EXCEPT !.stage = "addon"].item = caller.item
            /\ [caller EXCEPT !.stage = "addon"].stage = "addon"
        BY <4>1, CallRestaged
      <4> QED
        BY <4>2
    <3>3. calls' = Append(Front(rest), c)
      BY <3>1
    <3> HIDE DEF c
    <3> QED
      BY <2>4, <3>2, <3>3 DEF Passed
  <2>7. CASE caller.stage # "settings"
    <3> DEFINE st == IF flag THEN "finish" ELSE "addon"
               c == [caller EXCEPT !.flag = flag, !.stage = st]
    <3>1. calls' = Append(Front(rest), c)
      BY <1>3, <2>7 DEF Return
    <3>2. st \notin {"enter", "explicit", "clicking", "non_explicit"}
      OBVIOUS
    <3> HIDE DEF st
    <3>3. CallInv(site, c) /\ c.item = caller.item /\ c.stage = st
      <4> HIDE DEF rest
      <4>1. /\ DOMAIN c = CallFields /\ c.item = caller.item
            /\ c.stage = st /\ c.el = caller.el /\ c.choice = caller.choice
            /\ c.left = caller.left /\ c.tried = caller.tried
            /\ c.pressed = caller.pressed
        BY <2>2 DEF CallInv, CallFields
      <4> HIDE DEF c
      <4>2. ButtonsInv(site, c)
        BY <2>2, <3>2, <4>1 DEF CallInv, ButtonsInv
      <4> QED
        BY <2>1, <2>2, <3>2, <4>1, <4>2, CallKept
    <3> HIDE DEF c
    <3> QED
      BY <2>4, <3>1, <3>2, <3>3 DEF Passed, c
  <2> QED
    BY <2>5, <2>6, <2>7
<1> QED
  BY <1>2, <1>3

\* An exception leaves a call.
LEMMA EscapeGoesOn ==
  ASSUME StackInv, Escape
  PROVE  StackGoesOn
<1>1. /\ Stacked(site, calls) /\ calls # <<>> /\ ~twice'
      /\ pc = "call" /\ site' = site
  BY DEF StackInv, Escape, place
<1>2. CASE Len(calls) = 1
  <2>1. calls' = <<>> /\ pc' = "handler"
    BY <1>2 DEF Escape
  <2> QED
    BY <1>1, <2>1, NoCallsStacked DEF StackInv, StackGoesOn
<1>3. CASE Len(calls) # 1
  <2> DEFINE rest == Front(calls)
             c == [Last(rest) EXCEPT !.stage = "except"]
  <2>1. /\ Stacked(site, rest) /\ rest # <<>> /\ rest[1] = calls[1]
        /\ Last(rest).stage # "enter"
    BY <1>1, <1>3, CallPopped
  <2>2. calls' = Append(Front(rest), c) /\ pc' = "call"
    BY <1>1, <1>3 DEF Escape
  <2> HIDE DEF rest
  <2>3. CallInv(site, c) /\ c.item = Last(rest).item /\ c.stage = "except"
    <3>1. CallInv(site, Last(rest))
      BY <2>1, TopOfStack
    <3> DEFINE l == Last(rest)
    <3> HIDE DEF l
    <3>2. CallInv(site, l) /\ l.stage # "enter"
      BY <2>1, <3>1 DEF l
    <3>3. /\ CallInv(site, [l EXCEPT !.stage = "except"])
          /\ [l EXCEPT !.stage = "except"].item = l.item
          /\ [l EXCEPT !.stage = "except"].stage = "except"
      BY <3>2, CallRestaged
    <3> QED
      BY <3>3 DEF l
  <2> HIDE DEF c
  <2>4. Stacked(site, calls') /\ calls' # <<>>
        /\ calls'[1].item = rest[1].item
    BY <2>1, <2>2, <2>3, TopReplaced
  <2>5. PassInv'
    BY <2>1, <2>2, <2>3, CallerGoesOn DEF Passed
  <2>6. StackInv'
    BY <1>1, <2>2, <2>4, <2>5 DEF StackInv
  <2> QED
    BY <2>1, <2>4, <2>6 DEF StackGoesOn
<1> QED
  BY <1>2, <1>3

----------------------------------------------------------------------------
(* The steps outside the calls.                                            *)

\* The empty page.
LEMMA NoSiteIsSite == IsSite(NoSite)
<1> DEFINE e == NoDoc[1]
<1>1. /\ NoDoc = <<e>> /\ NoSite = <<NoDoc>>
      /\ e.tag = "html" /\ e.root = 0
  BY DEF NoDoc, NoSite
<1> HIDE DEF e
<1>2. IsDocument(NoDoc)
  <2>1. NoDoc \in Seq(Range(NoDoc)) /\ NoDoc # <<>> /\ DOMAIN NoDoc = {1}
    BY <1>1 DEF Range
  <2> QED
    BY <2>1 DEF IsDocument, Html
<1>3. NoSite \in Seq(Range(NoSite)) /\ NoSite # <<>> /\ DOMAIN NoSite = {1}
  BY <1>1 DEF Range
<1>4. NoSite[1] = NoDoc /\ DOMAIN NoDoc = {1} /\ NoDoc[1] = e
  BY <1>1
<1> QED
  BY <1>1, <1>2, <1>3, <1>4 DEF IsSite

\* The steps that are not those of a call.
Outside ==
  \/ Begin \/ Get \/ Prepare \/ Raise \/ OpenDomainPage
  \/ DetectNothing \/ Detect \/ DetectRaises \/ Shot \/ Extract
  \/ DetectCMP \/ SetDataInDb \/ SetDataInDbRaises \/ Handle
  \/ CommandOk \/ CommandFails \/ NextDomain

\* Outside the calls the stack is empty.
LEMMA OutsideStack ==
  ASSUME StackInv, Outside
  PROVE  StackInv'
<1>1. pc' # "call"
  BY DEF Outside, Begin, Get, Prepare, Raise, OpenDomainPage, DetectNothing,
         Detect, Detected, DetectRaises, Shot, Extract, DetectCMP, SetDataInDb,
         SetDataInDbRaises, Handle, CommandOk, CommandFails, NextDomain, Forget
<1>2. ~twice'
  BY DEF Outside, Begin, Get, Prepare, Raise, OpenDomainPage, DetectNothing,
         Detect, DetectRaises, Shot, Extract, DetectCMP, SetDataInDb,
         SetDataInDbRaises, Handle, CommandOk, CommandFails, NextDomain,
         StackInv, clicks
<1>3. calls' = <<>>
  <2>1. \/ calls' = <<>>
        \/ pc # "call" /\ calls' = calls
    BY DEF Outside, Begin, Get, Prepare, Raise, OpenDomainPage, DetectNothing,
           Detect, DetectRaises, Shot, Extract, DetectCMP, SetDataInDb,
           SetDataInDbRaises, Handle, CommandOk, CommandFails, NextDomain,
           Forget, clicks
  <2> QED
    BY <2>1 DEF StackInv
<1> QED
  BY <1>1, <1>2, <1>3, NoCallsStacked DEF StackInv

\* The loop makes the first call, with a banner.
LEMMA InteractStack ==
  ASSUME SiteInv, StackInv, Interact
  PROVE  /\ StackInv'
         /\ pc' = "call" => i \in 1..Len(banners) /\ calls'[1].item = banners[i]
<1>1. pc = "interact" /\ calls = <<>> /\ site' = site
  BY DEF Interact, StackInv, place
<1>2. CASE calls' = <<>> /\ pc' # "call" /\ twice' = twice
  BY <1>2, NoCallsStacked DEF StackInv
<1>3. CASE /\ i <= Len(banners)
           /\ calls' = <<Call(banners[i], choice, FALSE)>>
           /\ pc' = "call" /\ twice' = twice
  <2> DEFINE c == Call(banners[i], choice, FALSE)
  <2>1. i \in 1..Len(banners) /\ banners[i] \in Found(site)
    BY <1>3 DEF SiteInv
  <2>2. "kind" \in DOMAIN banners[i]
    BY <2>1 DEF Found, Plains, Framed, Shadowed
  <2>3. CallInv(site, c) /\ c.item = banners[i] /\ c.stage = "enter"
    BY <2>2, NewCall DEF Call
  <2> HIDE DEF c
  <2>4. calls' = <<c>>
    BY <1>3 DEF c
  <2>5. /\ <<c>> \in Seq(Range(<<c>>)) /\ <<c>> # <<>>
        /\ DOMAIN <<c>> = {1} /\ Len(<<c>>) = 1 /\ <<c>>[1] = c
    BY DEF Range
  <2>6. Stacked(site, <<c>>)
    BY <2>3, <2>5 DEF Stacked
  <2>7. PassInv'
    BY <2>3, <2>4, <2>5 DEF PassInv, top, Last
  <2> QED
    BY <1>1, <1>3, <2>1, <2>3, <2>4, <2>5, <2>6, <2>7 DEF StackInv
<1>4. \/ calls' = <<>> /\ pc' # "call" /\ twice' = twice
      \/ /\ i <= Len(banners)
         /\ calls' = <<Call(banners[i], choice, FALSE)>>
         /\ pc' = "call" /\ twice' = twice
  BY <1>1 DEF Interact, LoopTail, clicks
<1> QED
  BY <1>2, <1>3, <1>4

\* The steps of a call.
Calling ==
  \/ Enter \/ ClickExplicit \/ ClickNonExplicit \/ ClickOnBtns \/ ClickRaises
  \/ InSettings \/ Addon \/ Finish \/ Trouble \/ Except \/ Escape

\* What every step of a call does to the stack.
LEMMA CallingGoesOn ==
  ASSUME StackInv, Calling
  PROVE  StackGoesOn
<1>1. CASE Finish \/ Except
  <2>1. /\ pc = "call" /\ site' = site /\ twice' = twice
        /\ Return(top.flag)
    BY <1>1 DEF Finish, Except, place
  <2> QED
    BY <2>1, ReturnGoesOn
<1> QED
  BY <1>1, EnterGoesOn, PassesGoOn, ClicksGoOn, WaitingGoesOn, EscapeGoesOn
     DEF Calling

\* Steps that leave the site and the banners alone.
LEMMA SiteStays ==
  ASSUME SiteInv, StackInv, UNCHANGED site, UNCHANGED banners,
         i' \in Nat \ {0}, pc' \notin {"idle", "get"}
  PROVE  SiteInv'
BY DEF SiteInv

\* Every step keeps the banners those of the site.
LEMMA SiteNext ==
  ASSUME SiteInv, StackInv, Next
  PROVE  SiteInv'
<1>1. CASE Begin
  <2>1. site' \in Sites /\ banners' = <<>> /\ pc' = "get" /\ i' = i
    BY <1>1 DEF Begin
  <2>2. IsSite(site')
    BY <2>1, VisitAssumption
  <2> QED
    BY <2>1, <2>2 DEF SiteInv
<1>2. CASE Get \/ OpenDomainPage
  <2>1. /\ pc = "get" /\ banners' = banners /\ i' = i
        /\ site' \in {site, NoSite}
    BY <1>2 DEF Get, OpenDomainPage
  <2>2. banners' = <<>> /\ IsSite(site')
    BY <2>1, NoSiteIsSite DEF SiteInv
  <2> QED
    BY <2>1, <2>2 DEF SiteInv
<1>3. CASE DetectNothing \/ DetectRaises
  <2>1. site' = site /\ banners' = <<>> /\ i' = 1 /\ pc' = "shots"
    BY <1>3 DEF DetectNothing, DetectRaises, Detected, place
  <2> QED
    BY <2>1 DEF SiteInv
<1>4. CASE Detect
  <2>1. site' = site /\ pc = "detect"
    BY <1>4 DEF Detect, place
  <2>2. PICK found \in {IF shown THEN FindCookieBanners(site) ELSE <<>>} :
          \/ banners' = found /\ i' = 1 /\ pc' = "shots"
          \/ banners' = banners /\ i' = i /\ pc' = pc
    BY <1>4 DEF Detect, Detected
  <2>3. found \in Seq(Found(site))
    <3>1. FindCookieBanners(site) \in Seq(Found(site))
      BY BannersFound DEF SiteInv
    <3>2. <<>> \in Seq(Found(site))
      OBVIOUS
    <3>3. found = IF shown THEN FindCookieBanners(site) ELSE <<>>
      BY <2>2
    <3> QED
      BY <3>1, <3>2, <3>3
  <2> QED
    BY <2>1, <2>2, <2>3 DEF SiteInv
<1>5. CASE \/ Prepare \/ Raise \/ Shot \/ Extract \/ DetectCMP \/ SetDataInDb
           \/ SetDataInDbRaises \/ Handle
  <2>1. site' = site /\ banners' = banners /\ i' \in {1, i, i + 1}
        /\ pc' \notin {"idle", "get"}
    BY <1>5 DEF Prepare, Raise, Shot, Extract, DetectCMP, SetDataInDb,
                SetDataInDbRaises, Handle, place, search
  <2> QED
    BY <2>1, SiteStays DEF SiteInv
<1>6. CASE Interact \/ Calling
  <2>1. site' = site /\ banners' = banners /\ i' \in {i, i + 1}
        /\ pc' \notin {"idle", "get"}
    BY <1>6 DEF Interact, Calling, Enter, ClickExplicit, ClickNonExplicit,
                ClickOnBtns, ClickRaises, InSettings, Addon, Finish, Trouble, Except, Escape, Return,
                LoopTail, place, search
  <2> QED
    BY <2>1, SiteStays DEF SiteInv
<1>7. CASE CommandOk \/ CommandFails \/ NextDomain
  <2>1. site' = NoSite /\ banners' = <<>> /\ i' = 1
    BY <1>7 DEF CommandOk, CommandFails, NextDomain, Forget
  <2> QED
    BY <2>1, NoSiteIsSite DEF SiteInv
<1> QED
  BY <1>1, <1>2, <1>3, <1>4, <1>5, <1>6, <1>7 DEF Next, Calling

TriedInv == SiteInv /\ StackInv

\* Every step keeps the invariant.
LEMMA TriedNext ==
  ASSUME TriedInv, [Next]_vars
  PROVE  TriedInv'
<1>1. CASE Next
  <2>1. SiteInv'
    BY <1>1, SiteNext DEF TriedInv
  <2>2. CASE Interact
    BY <2>1, <2>2, InteractStack DEF TriedInv
  <2>3. CASE Calling
    BY <2>1, <2>3, CallingGoesOn DEF TriedInv, StackGoesOn
  <2>4. CASE Outside
    BY <2>1, <2>4, OutsideStack DEF TriedInv
  <2> QED
    BY <1>1, <2>2, <2>3, <2>4 DEF Next, Calling, Outside
<1>2. CASE UNCHANGED vars
  <2>1. SiteInv' /\ Stacked(site, calls)' /\ (pc = "call" <=> calls # <<>>)'
        /\ ~twice'
    BY <1>2 DEF TriedInv, SiteInv, StackInv, vars, place, search, clicks
  <2>2. pc' = "call" => PassInv'
    <3>1. UNCHANGED <<site, rej_flag, calls, pc>>
      BY <1>2 DEF vars, place, clicks
    <3> QED
      BY <3>1 DEF TriedInv, StackInv, PassInv, Buttons, top
  <2> QED
    BY <2>1, <2>2 DEF TriedInv, StackInv
<1> QED
  BY <1>1, <1>2

\* There is no site, no banner and no call.
LEMMA InitTried == Init => TriedInv
<1> SUFFICES ASSUME Init PROVE TriedInv
  OBVIOUS
<1>1. /\ site = NoSite /\ banners = <<>> /\ i = 1 /\ pc = "idle"
      /\ calls = <<>> /\ twice = FALSE
  BY DEF Init
<1> QED
  BY <1>1, NoSiteIsSite, NoCallsStacked DEF TriedInv, SiteInv, StackInv

\* It holds in every state.
LEMMA AlwaysTried == Spec => []TriedInv
<1>1. Init => TriedInv
  BY InitTried
<1>2. TriedInv /\ [Next]_vars => TriedInv'
  BY TriedNext
<1> QED
  BY <1>1, <1>2, PTL DEF Spec

\* Whatever the sites are: what is taken for a banner shows a keyword that
\* leads to it, in view and not as an item of a list, and an element of the
\* page has enough text besides and does not ask to sign in.
THEOREM BannersAlwaysHoldWords == Spec => []BannersHoldWords
<1>1. TriedInv => BannersHoldWords
  <2> SUFFICES ASSUME TriedInv
               PROVE  BannersHoldWords
    OBVIOUS
  <2>1. \A k \in DOMAIN banners : banners[k] \in Found(site)
    BY DEF TriedInv, SiteInv
  <2>2. IsSite(site)
    BY DEF TriedInv, SiteInv
  <2> QED
    BY <2>1, <2>2, FoundHoldsWord DEF BannersHoldWords
<1> QED
  BY <1>1, AlwaysTried, PTL

\* Whatever the sites are and wherever the driver raises, no call tries a
\* button twice, in its two passes together, and no call that accepts presses
\* what says "disagree": neither a button it found nor what click_and_check
\* and click_on_btns press instead, the <button> around it and its parent.
THEOREM ButtonsAlwaysTriedOnce == Spec => []ButtonsTriedOnce
<1>1. TriedInv => ButtonsTriedOnce
  BY DEF TriedInv, StackInv, Stacked, CallInv, ButtonsInv, ButtonsTriedOnce
<1> QED
  BY <1>1, AlwaysTried, PTL

----------------------------------------------------------------------------
(* The driver and the data of the banners, as long as nothing fails.       *)

\* Every banner can be used from the page, and the driver is back there.
LEMMA BannerHandled ==
  ASSUME NEW b \in Found(site), ctx = Page
  PROVE  /\ Usable(b, "none")
         /\ AfterShot(b, "none") = Page
         /\ AfterExtract(b, "none") = Page
         /\ TakenForShadow(b, "none") <=> b.kind = "shadow"
<1>1. /\ b.kind \in {"plain", "frame", "nested", "shadow"}
      /\ b.kind = "plain" => b.doc = Page
  BY DEF Found, Plains, Framed, Shadowed
<1>2. Enters(b, "none") <=> b.kind \in {"frame", "nested"}
  BY DEF Enters
<1>3. Reached(b, "none") = IF b.kind \in {"frame", "nested"} THEN b.doc ELSE Page
  BY <1>2 DEF Reached
<1>4. Usable(b, "none")
  BY <1>1, <1>2, <1>3 DEF Usable, Home
<1> QED
  BY <1>1, <1>2, <1>3, <1>4 DEF AfterShot, AfterExtract, TakenForShadow, IsTuple

\* The data of one more banner.
LEMMA MatchingGrows ==
  ASSUME NEW extracted, NEW list, NEW n \in Nat, Matching(extracted, list, n),
         NEW e, e.banner = n + 1, e.shadow_dom <=> list[n + 1].kind = "shadow"
  PROVE  Matching(Append(extracted, e), list, n + 1)
<1> DEFINE new == Append(extracted, e)
<1>1. extracted \in Seq(Range(extracted)) /\ Len(extracted) = n
  BY DEF Matching
<1>2. /\ new \in Seq(Range(new)) /\ DOMAIN new = 1..n \cup {n + 1}
      /\ \A k \in 1..n : new[k] = extracted[k]
      /\ new[n + 1] = e
  BY <1>1, AppendRow
<1>3. Len(new) = n + 1
  BY <1>1
<1> HIDE DEF new
<1>4. \A k \in 1..(n + 1) : k = n + 1 \/ k \in 1..n
  OBVIOUS
<1> QED
  BY <1>2, <1>3, <1>4 DEF Matching, new

\* From the beginning of a visit to the search for banners.
LEMMA OpeningDrift ==
  ASSUME ~failed => DriftInv, ~failed',
         Begin \/ Get \/ Prepare \/ Raise \/ OpenDomainPage
  PROVE  DriftInv'
<1>1. CASE Begin
  BY <1>1 DEF Begin, TabRestartBrowser, DriftInv
<1>2. CASE Get \/ Prepare
  BY <1>2 DEF Get, Prepare, InitData, DriftInv
<1>3. CASE OpenDomainPage
  BY <1>3 DEF OpenDomainPage, DriftInv
<1> QED
  BY <1>1, <1>2, <1>3 DEF Raise

\* The search, the screenshots and the extraction.
LEMMA SearchDrift ==
  ASSUME TriedInv, ~failed => DriftInv, ~failed',
         DetectNothing \/ Detect \/ DetectRaises \/ Shot \/ Extract
  PROVE  DriftInv'
<1>1. CASE DetectNothing \/ Detect
  BY <1>1 DEF DetectNothing, Detect, Detected, DriftInv, place
<1>2. CASE DetectRaises
  BY <1>2 DEF DetectRaises
<1>3. CASE Shot
  <2>1. /\ pc = "shots" /\ DriftInv
        /\ UNCHANGED <<site, banners, banners_data, CMP>>
    BY <1>3 DEF Shot, place, search, data
  <2>2. ctx = Page /\ banners_data = <<>> /\ CMP = NoCMP
    BY <2>1 DEF DriftInv
  <2>3. CASE i > Len(banners)
    <3>1. pc' = "extract" /\ i' = 1 /\ ctx' = Page
      BY <1>3, <2>2, <2>3 DEF Shot
    <3>2. Matching(<<>>, banners, 0)
      BY DEF Matching, Range
    <3>3. Len(banners) \in Nat
      BY DEF TriedInv, SiteInv
    <3> QED
      BY <2>1, <2>2, <3>1, <3>2, <3>3 DEF DriftInv
  <2>4. CASE ~(i > Len(banners))
    <3>1. banners[i] \in Found(site)
      BY <2>4 DEF TriedInv, SiteInv
    <3>2. ctx' = AfterShot(banners[i], "none") /\ pc' = "shots"
      BY <1>3, <2>4 DEF Shot
    <3>3. ctx' = Page
      BY <2>2, <3>1, <3>2, BannerHandled
    <3> QED
      BY <2>1, <2>2, <3>2, <3>3 DEF DriftInv
  <2> QED
    BY <2>3, <2>4
<1>4. CASE Extract
  <2>1. /\ pc = "extract" /\ DriftInv
        /\ UNCHANGED <<site, banners, CMP>>
    BY <1>4 DEF Extract, place, search
  <2>2. /\ ctx = Page /\ CMP = NoCMP
        /\ i <= Len(banners) + 1 /\ Matching(banners_data, banners, i - 1)
    BY <2>1 DEF DriftInv
  <2>3. i \in Nat \ {0} /\ Len(banners) \in Nat
    BY DEF TriedInv, SiteInv
  <2>4. CASE i > Len(banners)
    <3>1. i - 1 = Len(banners)
      BY <2>2, <2>3, <2>4
    <3>2. /\ pc' \in {"interact", "cmp"} /\ ctx' = Page
          /\ banners_data' = banners_data
      BY <1>4, <2>2, <2>4 DEF Extract
    <3> QED
      BY <2>1, <2>2, <3>1, <3>2 DEF DriftInv
  <2>5. CASE ~(i > Len(banners))
    <3> DEFINE b == banners[i]
               e == [banner |-> i, shadow_dom |-> TakenForShadow(b, "none")]
    <3>1. b \in Found(site)
      BY <2>3, <2>5 DEF TriedInv, SiteInv
    <3>2. /\ Usable(b, "none") /\ AfterExtract(b, "none") = Page
          /\ TakenForShadow(b, "none") <=> b.kind = "shadow"
      BY <2>2, <3>1, BannerHandled
    <3>3. /\ ctx' = AfterExtract(b, "none")
          /\ banners_data' = Append(banners_data, e)
          /\ i' = i + 1 /\ pc' = "extract"
      BY <1>4, <2>1, <2>5, <3>2 DEF Extract
    <3>4. e.banner = i /\ (e.shadow_dom <=> b.kind = "shadow")
      BY <3>2
    <3> HIDE DEF e
    <3>5. Matching(banners_data', banners, i)
      <4>1. i - 1 \in Nat /\ (i - 1) + 1 = i
        BY <2>3
      <4> QED
        BY <2>2, <3>3, <3>4, <4>1, MatchingGrows
    <3>6. i' <= Len(banners) + 1 /\ i' - 1 = i
      BY <2>3, <2>5, <3>3
    <3> QED
      BY <2>1, <2>2, <3>2, <3>3, <3>5, <3>6 DEF DriftInv
  <2> QED
    BY <2>4, <2>5
<1> QED
  BY <1>1, <1>2, <1>3, <1>4

\* The loop over the banners.
LEMMA InteractDrift ==
  ASSUME TriedInv, ~failed => DriftInv, ~failed', Interact
  PROVE  DriftInv'
<1>1. /\ pc = "interact" /\ DriftInv
      /\ UNCHANGED <<site, banners, banners_data, CMP, ctx>>
      /\ pc' \in {"cmp", "save", "handler", "call", "interact"}
  BY DEF Interact, LoopTail, place, search, data
<1> QED
  BY <1>1 DEF DriftInv

\* A call: only one for a frame leaves the page, and it comes back.
LEMMA CallingDrift ==
  ASSUME TriedInv, ~failed => DriftInv, ~failed', Calling
  PROVE  DriftInv'
<1>1. /\ pc = "call" /\ DriftInv
      /\ UNCHANGED <<site, banners, banners_data, CMP>>
  BY DEF Calling, Enter, ClickExplicit, ClickNonExplicit, ClickOnBtns,
         ClickRaises, InSettings, Addon, Finish, Trouble, Except, Escape, place, search, data
<1>2. pc' = "call" => calls'[1].item = calls[1].item
  BY CallingGoesOn DEF TriedInv, StackGoesOn
<1>3. /\ Len(calls) # 1 => ~IsTuple(top.item)
      /\ Len(calls) = 1 => top = calls[1]
  BY <1>1, TopOfStack DEF TriedInv, StackInv, top
<1>4. /\ pc' \in {"call", "interact"}
      /\ pc' # "call" => ctx' = Page
      /\ ctx' # Page => ctx # Page \/ IsTuple(calls[1].item)
  <2>1. CASE Enter
    <3>1. PICK t \in Switches(top.item) :
            ctx' = Reached(top.item, t) /\ failed' = (failed \/ t # "none")
      BY <2>1 DEF Enter
    <3>2. t = "none"
      BY <3>1
    <3>3. ctx' = ctx \/ IsTuple(top.item)
      BY <3>1, <3>2 DEF Reached, Enters, IsTuple
    <3>4. pc' = "call"
      BY <1>1, <2>1 DEF Enter
    <3> QED
      BY <1>3, <3>3, <3>4
  <2>2. CASE \/ ClickExplicit \/ ClickNonExplicit \/ ClickOnBtns \/ ClickRaises
             \/ InSettings \/ Addon \/ Trouble
    BY <1>1, <2>2 DEF ClickExplicit, ClickNonExplicit, ClickOnBtns,
                      ClickRaises, InSettings, Addon, Trouble
  <2>3. CASE Finish
    <3>1. ctx' = IF IsTuple(top.item) THEN Page ELSE ctx
      BY <2>3 DEF Finish
    <3>2. IF Len(calls) = 1 THEN pc' = "interact" ELSE pc' = "call"
      BY <1>1, <2>3 DEF Finish, Return, LoopTail
    <3>3. ctx # Page => IsTuple(calls[1].item)
      BY <1>1 DEF DriftInv
    <3> QED
      BY <1>3, <3>1, <3>2, <3>3
  <2>4. CASE Except
    BY <1>1, <2>4 DEF Except, Return, LoopTail
  <2>5. CASE Escape
    BY <2>5 DEF Escape
  <2> QED
    BY <2>1, <2>2, <2>3, <2>4, <2>5 DEF Calling
<1>5. ctx' # Page => IsTuple(calls'[1].item)
  BY <1>1, <1>2, <1>4 DEF DriftInv
<1> QED
  BY <1>1, <1>4, <1>5 DEF DriftInv

\* The CMP, the row and the end of the visit.
LEMMA EndDrift ==
  ASSUME TriedInv, ~failed => DriftInv, ~failed',
         \/ DetectCMP \/ SetDataInDb \/ SetDataInDbRaises \/ Handle
         \/ CommandOk \/ CommandFails \/ NextDomain
  PROVE  DriftInv'
<1>1. CASE DetectCMP
  <2>1. /\ pc = "cmp" /\ DriftInv
        /\ UNCHANGED <<site, banners, banners_data, ctx>>
        /\ CMP' = {CMPOf(site[ctx])} /\ pc' \in {"save", "interact"}
    BY <1>1 DEF DetectCMP, place, search
  <2>2. ctx = Page /\ Matching(banners_data, banners, Len(banners))
    BY <2>1 DEF DriftInv
  <2> QED
    BY <2>1, <2>2 DEF DriftInv
<1>2. CASE SetDataInDb \/ SetDataInDbRaises \/ Handle
  <2>1. /\ pc \in {"save", "handler"} /\ DriftInv /\ ctx' = ctx
        /\ pc' \in {"end", "handler", "aborted"}
    BY <1>2 DEF SetDataInDb, SetDataInDbRaises, Handle
  <2> QED
    BY <2>1 DEF DriftInv
<1>3. CASE CommandOk \/ CommandFails \/ NextDomain
  <2>1. ctx' = Page /\ pc' = "idle"
    BY <1>3 DEF CommandOk, CommandFails, NextDomain, Forget
  <2> QED
    BY <2>1 DEF DriftInv
<1> QED
  BY <1>1, <1>2, <1>3

NoDriftInv == TriedInv /\ (~failed => DriftInv)

\* Every step keeps the invariant.
LEMMA NoDriftNext ==
  ASSUME NoDriftInv, [Next]_vars
  PROVE  NoDriftInv'
<1>1. TriedInv /\ (~failed => DriftInv) /\ TriedInv'
  BY TriedNext DEF NoDriftInv
<1>2. ASSUME ~failed', Next
      PROVE  DriftInv'
  BY <1>1, <1>2, OpeningDrift, SearchDrift, InteractDrift, CallingDrift, EndDrift
     DEF Next, Calling
<1>3. ASSUME ~failed', UNCHANGED vars
      PROVE  DriftInv'
  BY <1>1, <1>3 DEF DriftInv, vars, place, search, data, clicks
<1> QED
  BY <1>1, <1>2, <1>3 DEF NoDriftInv

\* As long as no call of the driver has failed the driver is back in the
\* page after every banner, the data of a banner stand at its own index and
\* say truly whether it is in a shadow tree, and the CMP is the page's.
THEOREM NoFailureNeverDrifts == Spec => []NoFailureNoDrift
<1>1. Init => NoDriftInv
  BY InitTried DEF Init, NoDriftInv, DriftInv
<1>2. NoDriftInv /\ [Next]_vars => NoDriftInv'
  BY NoDriftNext
<1>3. NoDriftInv => NoFailureNoDrift
  <2> SUFFICES ASSUME TriedInv, DriftInv, pc \in {"interact", "cmp", "save"}
               PROVE  /\ ctx = Page
                      /\ CMP \in {NoCMP, {CMPOf(site[Page])}}
                      /\ Matching(banners_data, banners, Len(banners))
                      /\ DOMAIN banners = 1..Len(banners)
    BY DEF NoDriftInv, NoFailureNoDrift, Matching
  <2>1. DOMAIN banners = 1..Len(banners)
    BY DEF TriedInv, SiteInv
  <2> QED
    BY <2>1 DEF DriftInv
<1> QED
  BY <1>1, <1>2, <1>3, PTL DEF Spec
=============================================================================
