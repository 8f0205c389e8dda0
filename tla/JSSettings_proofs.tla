-------------------------- MODULE JSSettings_proofs --------------------------
(***************************************************************************)
(* CleanedAsAsked for every request and every collection.                  *)
(*                                                                         *)
(* The loops of JSSettings are recursive functions: that they satisfy      *)
(* their own equations is shown first, by induction over the indices in    *)
(* the form of a set that holds 0 and all successors (NatSetInduction).    *)
(* Then: from which item each setting comes (SlotsOf); what merging makes  *)
(* of them (MergedSettings), and cleaning of that (CleanIs): when it       *)
(* succeeds (Fit) and what is watched (Describes) depend on little of the  *)
(* settings, and the items in another order agree with them in that        *)
(* (AnyOrder).  WantedIs relates it to what was asked.                     *)
(***************************************************************************)
EXTENDS JSSettings, WellFoundedInduction, FiniteSetTheorems, TLAPS

\* A set of natural numbers that is not empty has a least element.
LEMMA NatMin ==
  ASSUME NEW T \in SUBSET Nat, T # {}
  PROVE  \E x \in T : \A y \in T : x <= y
<1> DEFINE R == {ss \in Nat \X Nat : ss[1] < ss[2]}
<1>1. IsWellFoundedOn(R, Nat)
  BY NatLessThanWellFounded, Zenon DEF OpToRel
<1>2. PICK x \in T : \A y \in T : ~ (<<y, x>> \in R)
  <2> HIDE DEF R
  <2> QED
    BY <1>1, WFMin
<1>3. \A y \in T : ~(y < x)
  BY <1>2
<1> QED
  BY <1>3

\* Induction, for sets.
LEMMA NatSetInduction ==
  ASSUME NEW T, 0 \in T, \A k \in Nat : k \in T => k + 1 \in T
  PROVE  Nat \subseteq T
<1> DEFINE U == {k \in Nat : k \notin T}
<1> SUFFICES ASSUME U # {}
             PROVE  FALSE
  OBVIOUS
<1>1. PICK x \in U : \A y \in U : x <= y
  BY NatMin
<1>2. x # 0 /\ x - 1 \in Nat /\ x - 1 \notin U /\ x = (x - 1) + 1
  BY <1>1
<1> QED
  BY <1>2

----------------------------------------------------------------------------
(* The two loops. *)

\* What an item adds to the settings built so far.
AddItem(items, built, n) ==
  IF items[n].kind = "collection" THEN built \o CollectionSettings
  ELSE Append(built, _build_full_settings_object(items[n]))

\* The loop of clean_js_instrumentation_settings, step by step.
LEMMA BuiltStep ==
  ASSUME NEW items, Len(items) \in Nat
  PROVE  /\ BuiltUpTo(items)[0] = <<>>
         /\ \A n \in 1..Len(items) :
              BuiltUpTo(items)[n] = AddItem(items, BuiltUpTo(items)[n - 1], n)
<1> DEFINE Eq(g, n) == g = [k \in 0..n |->
                              IF k = 0 THEN <<>> ELSE AddItem(items, g[k - 1], k)]
           T == {n \in Nat : \E g : Eq(g, n)}
<1>1. 0 \in T
  <2>1. Eq([k \in 0..0 |-> <<>>], 0)
    OBVIOUS
  <2> QED
    BY <2>1
<1>2. ASSUME NEW n \in Nat, n \in T
      PROVE  n + 1 \in T
  <2>1. PICK g : Eq(g, n)
    BY <1>2
  <2> DEFINE f == [k \in 0..(n + 1) |->
                     IF k = n + 1 THEN AddItem(items, g[n], n + 1) ELSE g[k]]
  <2>2. \A k \in 0..n : f[k] = g[k]
    OBVIOUS
  <2>3. \A k \in 0..n : g[k] = IF k = 0 THEN <<>> ELSE AddItem(items, g[k - 1], k)
    BY <2>1
  <2>4. \A k \in 0..(n + 1) :
          f[k] = IF k = 0 THEN <<>> ELSE AddItem(items, f[k - 1], k)
    <3> SUFFICES ASSUME NEW k \in 0..(n + 1)
                 PROVE  f[k] = IF k = 0 THEN <<>> ELSE AddItem(items, f[k - 1], k)
      OBVIOUS
    <3>1. CASE k = n + 1
      <4>1. f[n] = g[n]
        BY <2>2
      <4> QED
        BY <3>1, <4>1
    <3>2. CASE k # n + 1
      <4>1. k \in 0..n /\ (k # 0 => k - 1 \in 0..n)
        BY <3>2
      <4> HIDE DEF f
      <4> QED
        BY <2>2, <2>3, <4>1
    <3> QED
      BY <3>1, <3>2
  <2>5. Eq(f, n + 1)
    BY <2>4
  <2> HIDE DEF Eq, f
  <2> QED
    BY <2>5
<1>3. Len(items) \in T
  <2> HIDE DEF T
  <2> QED
    BY <1>1, <1>2, NatSetInduction
<1>4. BuiltUpTo(items) = CHOOSE g : Eq(g, Len(items))
  BY DEF BuiltUpTo, AddItem
<1>5. Eq(BuiltUpTo(items), Len(items))
  BY <1>3, <1>4
<1> QED
  BY <1>5

\* The loop of _merge_settings, step by step.
LEMMA MergedStep ==
  ASSUME NEW b, Len(b) \in Nat
  PROVE  /\ MergedUpTo(b)[0] = [ok |-> TRUE, settings |-> <<>>]
         /\ \A n \in 1..Len(b) :
              MergedUpTo(b)[n] = MergeOne(MergedUpTo(b)[n - 1], b[n])
<1> DEFINE base == [ok |-> TRUE, settings |-> <<>>]
           Eq(g, n) == g = [k \in 0..n |->
                              IF k = 0 THEN base ELSE MergeOne(g[k - 1], b[k])]
           T == {n \in Nat : \E g : Eq(g, n)}
<1>4. MergedUpTo(b) = CHOOSE g : Eq(g, Len(b))
  BY DEF MergedUpTo
<1> HIDE DEF base
<1>1. 0 \in T
  <2>1. Eq([k \in 0..0 |-> base], 0)
    OBVIOUS
  <2> QED
    BY <2>1
<1>2. ASSUME NEW n \in Nat, n \in T
      PROVE  n + 1 \in T
  <2>1. PICK g : Eq(g, n)
    BY <1>2
  <2> DEFINE f == [k \in 0..(n + 1) |->
                     IF k = n + 1 THEN MergeOne(g[n], b[n + 1]) ELSE g[k]]
  <2>2. \A k \in 0..n : f[k] = g[k]
    OBVIOUS
  <2>3. \A k \in 0..n : g[k] = IF k = 0 THEN base ELSE MergeOne(g[k - 1], b[k])
    BY <2>1
  <2>4. \A k \in 0..(n + 1) :
          f[k] = IF k = 0 THEN base ELSE MergeOne(f[k - 1], b[k])
    <3> SUFFICES ASSUME NEW k \in 0..(n + 1)
                 PROVE  f[k] = IF k = 0 THEN base ELSE MergeOne(f[k - 1], b[k])
      OBVIOUS
    <3>1. CASE k = n + 1
      <4>1. f[n] = g[n]
        BY <2>2
      <4> QED
        BY <3>1, <4>1
    <3>2. CASE k # n + 1
      <4>1. k \in 0..n /\ (k # 0 => k - 1 \in 0..n)
        BY <3>2
      <4> HIDE DEF f
      <4> QED
        BY <2>2, <2>3, <4>1
    <3> QED
      BY <3>1, <3>2
  <2>5. Eq(f, n + 1)
    BY <2>4
  <2> HIDE DEF Eq, f
  <2> QED
    BY <2>5
<1>3. Len(b) \in T
  <2> HIDE DEF T
  <2> QED
    BY <1>1, <1>2, NatSetInduction
<1>5. Eq(MergedUpTo(b), Len(b))
  BY <1>3, <1>4
<1>6. /\ MergedUpTo(b)[0] = base
      /\ \A n \in 1..Len(b) :
           MergedUpTo(b)[n] = MergeOne(MergedUpTo(b)[n - 1], b[n])
  BY <1>5
<1> QED
  BY <1>6 DEF base

----------------------------------------------------------------------------
(* Settings, and the items they are built from. *)

NameLists == Seq(Names \cup {Null})

IsSetting(s) ==
  /\ s = [object |-> s.object, instrumentedName |-> s.instrumentedName,
          logSettings |-> s.logSettings]
  /\ s.logSettings = [k \in DOMAIN s.logSettings |-> s.logSettings[k]]
  /\ DOMAIN get_default_log_settings \subseteq DOMAIN s.logSettings
  /\ \A k \in list_log_settings : s.logSettings[k] \in NameLists \cup {Null}

\* What the default log settings are.
LEMMA Defaults ==
  /\ DOMAIN get_default_log_settings = list_log_settings \cup {"depth"}
  /\ "depth" \notin list_log_settings
  /\ \A k \in list_log_settings : get_default_log_settings[k] = <<>>
  /\ Null \notin NameLists /\ <<>> \in NameLists
<1>1. "depth" \notin list_log_settings
  BY DEF list_log_settings
<1> QED
  BY <1>1, RequestsAssumption DEF get_default_log_settings, NameLists

\* The full setting of a valid item.
LEMMA SettingOf ==
  ASSUME NEW item, IsItem(item), item.kind \in {"api", "dict"}
  PROVE  LET s == _build_full_settings_object(item)
         IN /\ IsSetting(s)
            /\ s.object = ObjectOf(item.name) /\ s.instrumentedName = item.name
            /\ DOMAIN s.logSettings = DOMAIN item.log \cup DOMAIN get_default_log_settings
            /\ \A k \in DOMAIN s.logSettings :
                 s.logSettings[k] = IF k \in DOMAIN item.log THEN item.log[k]
                                    ELSE get_default_log_settings[k]
<1> DEFINE s == _build_full_settings_object(item)
           d == get_default_log_settings
<1>1. /\ s = [object |-> s.object, instrumentedName |-> s.instrumentedName,
              logSettings |-> s.logSettings]
      /\ s.object = ObjectOf(item.name) /\ s.instrumentedName = item.name
      /\ s.logSettings = Over(item.log, d)
  BY DEF _build_full_settings_object
<1> HIDE DEF s, d
<1>2. /\ DOMAIN s.logSettings = DOMAIN item.log \cup DOMAIN d
      /\ s.logSettings = [k \in DOMAIN s.logSettings |-> s.logSettings[k]]
      /\ \A k \in DOMAIN s.logSettings :
           s.logSettings[k] = IF k \in DOMAIN item.log THEN item.log[k] ELSE d[k]
  BY <1>1 DEF Over
<1>3. ASSUME NEW k \in list_log_settings
      PROVE  s.logSettings[k] \in NameLists \cup {Null}
  <2>1. CASE k \in DOMAIN item.log
    <3>1. item.kind = "dict"
      BY <2>1 DEF IsItem
    <3>2. item.log[k] \in NameLists \cup {Null}
      BY <2>1, <3>1 DEF IsItem, NameLists
    <3> QED
      BY <1>2, <2>1, <3>2
  <2>2. CASE k \notin DOMAIN item.log
    BY <1>2, <2>2, Defaults DEF d
  <2> QED
    BY <2>1, <2>2
<1>4. IsSetting(s)
  BY <1>1, <1>2, <1>3 DEF IsSetting, d
<1> QED
  BY <1>1, <1>2, <1>4 DEF s, d

----------------------------------------------------------------------------
(* From which item, and from which item of the collection, settings come.  *)

IsRequest(items) ==
  /\ items \in Seq(ToSet(items))
  /\ \A i \in DOMAIN items : IsItem(items[i])
Valid(items) == \A i \in DOMAIN items : items[i].kind # "invalid"

SlotsTo(items, n) ==
  {x \in Nat \X Nat :
     /\ x[1] \in 1..n
     /\ IF items[x[1]].kind = "collection" THEN x[2] \in DOMAIN Collection
        ELSE x[2] = 0}

SlotSetting(items, x) ==
  IF x[2] = 0 THEN _build_full_settings_object(items[x[1]])
  ELSE _build_full_settings_object(Collection[x[2]])

SameKinds(items, other) ==
  /\ Len(other) = Len(items)
  /\ \A i \in 1..Len(items) : other[i].kind = items[i].kind

\* What the settings of the first n items come from, for all requests whose
\* items are of the same kinds.
AreSlots(items, slots, n) ==
  /\ slots \in Seq(Nat \X Nat)
  /\ \A k, m \in 1..Len(slots) : slots[k] = slots[m] => k = m
  /\ ToSet(slots) = SlotsTo(items, n)
  /\ \A other : SameKinds(items, other) =>
       BuiltUpTo(other)[n] = [m \in 1..Len(slots) |-> SlotSetting(other, slots[m])]

\* A request is a sequence.
LEMMA RequestShape ==
  ASSUME NEW items, IsRequest(items)
  PROVE  Len(items) \in Nat /\ DOMAIN items = 1..Len(items)
BY DEF IsRequest

\* The collection is a sequence of named items with known keys.
LEMMA CollectionShape ==
  /\ Len(Collection) \in Nat /\ DOMAIN Collection = 1..Len(Collection)
  /\ \A j \in 1..Len(Collection) :
       /\ IsItem(Collection[j]) /\ Collection[j].kind \in {"api", "dict"}
       /\ DOMAIN Collection[j].log \subseteq DOMAIN get_default_log_settings
<1>1. Collection \in Seq(ToSet(Collection))
  BY RequestsAssumption
<1>2. Len(Collection) \in Nat /\ DOMAIN Collection = 1..Len(Collection)
  BY <1>1
<1>3. \A j \in 1..Len(Collection) :
        IsItem(Collection[j]) /\ Collection[j].kind \in {"api", "dict"}
  BY <1>2, RequestsAssumption
<1>4. ASSUME NEW j \in 1..Len(Collection)
      PROVE  DOMAIN Collection[j].log \subseteq DOMAIN get_default_log_settings
  <2>1. CASE Collection[j].kind = "dict"
    BY <1>2, <2>1, RequestsAssumption DEF KnownKeys
  <2>2. CASE Collection[j].kind = "api"
    <3>1. Collection[j].log = <<>>
      BY <1>3, <2>2 DEF IsItem
    <3> QED
      BY <3>1
  <2> QED
    BY <1>3, <2>1, <2>2
<1> QED
  BY <1>2, <1>3, <1>4

\* The next item adds one slot, or those of the collection.
LEMMA SlotsNext ==
  ASSUME NEW items, Len(items) \in Nat, NEW n \in Nat, n + 1 <= Len(items),
         NEW slots, AreSlots(items, slots, n)
  PROVE  \E more : AreSlots(items, more, n + 1)
<1> DEFINE c == Len(Collection)
           l == Len(slots)
<1>1. /\ slots \in Seq(Nat \X Nat) /\ l \in Nat /\ DOMAIN slots = 1..l
      /\ c \in Nat /\ DOMAIN Collection = 1..c /\ n + 1 \in 1..Len(items)
      /\ \A m \in 1..l : slots[m][1] \in 1..n
  <2>1. \A m \in 1..l : slots[m] \in SlotsTo(items, n)
    BY DEF AreSlots, ToSet
  <2> QED
    BY <2>1, CollectionShape DEF AreSlots, SlotsTo
<1>2. CASE items[n + 1].kind = "collection"
  <2> DEFINE more == [m \in 1..(l + c) |-> IF m <= l THEN slots[m]
                                          ELSE <<n + 1, m - l>>]
  <2>1. more \in Seq(Nat \X Nat) /\ Len(more) = l + c
    BY <1>1
  <2>2. ASSUME NEW k \in 1..(l + c), NEW m \in 1..(l + c), more[k] = more[m]
        PROVE  k = m
    <3>1. /\ more[k] = IF k <= l THEN slots[k] ELSE <<n + 1, k - l>>
          /\ more[m] = IF m <= l THEN slots[m] ELSE <<n + 1, m - l>>
      OBVIOUS
    <3>2. CASE k <= l /\ m <= l
      <4>1. k \in 1..l /\ m \in 1..l /\ slots[k] = slots[m]
        BY <1>1, <2>2, <3>1, <3>2
      <4> QED
        BY <4>1 DEF AreSlots
    <3>3. CASE k <= l /\ ~(m <= l)
      <4>1. k \in 1..l /\ slots[k][1] = n + 1
        BY <1>1, <2>2, <3>1, <3>3
      <4> QED
        BY <1>1, <4>1
    <3>4. CASE ~(k <= l) /\ m <= l
      <4>1. m \in 1..l /\ slots[m][1] = n + 1
        BY <1>1, <2>2, <3>1, <3>4
      <4> QED
        BY <1>1, <4>1
    <3>5. CASE ~(k <= l) /\ ~(m <= l)
      BY <1>1, <2>2, <3>1, <3>5
    <3> QED
      BY <3>2, <3>3, <3>4, <3>5
  <2>3. ToSet(more) = SlotsTo(items, n + 1)
    <3>1. ASSUME NEW x \in SlotsTo(items, n + 1) PROVE x \in ToSet(more)
      <4>1. CASE x[1] = n + 1
        <5>1. x = <<n + 1, x[2]>> /\ x[2] \in 1..c
          BY <1>1, <1>2, <3>1, <4>1 DEF SlotsTo
        <5>2. l + x[2] \in 1..(l + c) /\ more[l + x[2]] = x
          BY <1>1, <5>1
        <5> QED
          BY <2>1, <5>2 DEF ToSet
      <4>2. CASE x[1] # n + 1
        <5>1. x \in SlotsTo(items, n)
          BY <3>1, <4>2 DEF SlotsTo
        <5>2. PICK m \in 1..l : slots[m] = x
          BY <1>1, <5>1 DEF AreSlots, ToSet
        <5>3. m \in 1..(l + c) /\ more[m] = x
          BY <1>1, <5>2
        <5> QED
          BY <2>1, <5>3 DEF ToSet
      <4> QED
        BY <4>1, <4>2
    <3>2. ASSUME NEW m \in 1..(l + c) PROVE more[m] \in SlotsTo(items, n + 1)
      <4>1. CASE m <= l
        <5>1. more[m] = slots[m] /\ m \in 1..l
          BY <1>1, <4>1
        <5>2. slots[m] \in SlotsTo(items, n)
          <6>1. slots[m] \in ToSet(slots)
            BY <1>1, <5>1 DEF ToSet
          <6> QED
            BY <6>1 DEF AreSlots
        <5> QED
          BY <5>1, <5>2 DEF SlotsTo
      <4>2. CASE ~(m <= l)
        BY <1>1, <1>2, <4>2 DEF SlotsTo
      <4> QED
        BY <4>1, <4>2
    <3> HIDE DEF more
    <3> QED
      BY <2>1, <3>1, <3>2 DEF ToSet
  <2>4. ASSUME NEW other, SameKinds(items, other)
        PROVE  BuiltUpTo(other)[n + 1] =
                 [m \in 1..(l + c) |-> SlotSetting(other, more[m])]
    <3>1. /\ Len(other) = Len(items) /\ other[n + 1].kind = "collection"
          /\ BuiltUpTo(other)[n] = [m \in 1..l |-> SlotSetting(other, slots[m])]
      BY <1>1, <1>2, <2>4 DEF AreSlots, SameKinds
    <3>2. BuiltUpTo(other)[n + 1] = BuiltUpTo(other)[n] \o CollectionSettings
      <4>0. (n + 1) - 1 = n
        OBVIOUS
      <4>1. BuiltUpTo(other)[n + 1] = AddItem(other, BuiltUpTo(other)[n], n + 1)
        BY <1>1, <3>1, <4>0, BuiltStep
      <4> QED
        BY <3>1, <4>1 DEF AddItem
    <3> DEFINE u == [m \in 1..l |-> SlotSetting(other, slots[m])]
               v == CollectionSettings
               w == [m \in 1..(l + c) |-> SlotSetting(other, more[m])]
    <3>3. DOMAIN v = 1..c /\ v = [j \in 1..c |-> v[j]]
      BY <1>1 DEF CollectionSettings
    <3>4. \A j \in 1..c : v[j] = SlotSetting(other, <<n + 1, j>>)
      BY <1>1 DEF CollectionSettings, SlotSetting
    <3>5. Len(u) = l /\ Len(v) = c
      BY <1>1, <3>3
    <3>6. u \o v = w
      <4> HIDE DEF v
      <4>1. u \o v = [m \in 1..(l + c) |-> IF m <= l THEN u[m] ELSE v[m - l]]
        BY <1>1, <3>3, <3>5
      <4>2. ASSUME NEW m \in 1..(l + c)
            PROVE  (IF m <= l THEN u[m] ELSE v[m - l]) = SlotSetting(other, more[m])
        BY <1>1, <3>4
      <4> QED
        BY <4>1, <4>2
    <3> QED
      BY <3>1, <3>2, <3>6
  <2> HIDE DEF more
  <2>5. AreSlots(items, more, n + 1)
    <3>1. \A k, m \in 1..Len(more) : more[k] = more[m] => k = m
      BY <2>1, <2>2
    <3>2. \A other : SameKinds(items, other) =>
            BuiltUpTo(other)[n + 1] = [m \in 1..Len(more) |-> SlotSetting(other, more[m])]
      BY <2>1, <2>4
    <3> QED
      BY <2>1, <2>3, <3>1, <3>2 DEF AreSlots
  <2> QED
    BY <2>5
<1>3. CASE items[n + 1].kind # "collection"
  <2> DEFINE more == [m \in 1..(l + 1) |-> IF m <= l THEN slots[m]
                                          ELSE <<n + 1, 0>>]
  <2>1. more \in Seq(Nat \X Nat) /\ Len(more) = l + 1
    BY <1>1
  <2>2. ASSUME NEW k \in 1..(l + 1), NEW m \in 1..(l + 1), more[k] = more[m]
        PROVE  k = m
    <3>1. /\ more[k] = IF k <= l THEN slots[k] ELSE <<n + 1, 0>>
          /\ more[m] = IF m <= l THEN slots[m] ELSE <<n + 1, 0>>
      OBVIOUS
    <3>2. CASE k <= l /\ m <= l
      <4>1. k \in 1..l /\ m \in 1..l /\ slots[k] = slots[m]
        BY <1>1, <2>2, <3>1, <3>2
      <4> QED
        BY <4>1 DEF AreSlots
    <3>3. CASE k <= l /\ ~(m <= l)
      <4>1. k \in 1..l /\ slots[k][1] = n + 1
        BY <1>1, <2>2, <3>1, <3>3
      <4> QED
        BY <1>1, <4>1
    <3>4. CASE ~(k <= l) /\ m <= l
      <4>1. m \in 1..l /\ slots[m][1] = n + 1
        BY <1>1, <2>2, <3>1, <3>4
      <4> QED
        BY <1>1, <4>1
    <3>5. CASE ~(k <= l) /\ ~(m <= l)
      BY <1>1, <2>2, <3>1, <3>5
    <3> QED
      BY <3>2, <3>3, <3>4, <3>5
  <2>3. ToSet(more) = SlotsTo(items, n + 1)
    <3>1. ASSUME NEW x \in SlotsTo(items, n + 1) PROVE x \in ToSet(more)
      <4>1. CASE x[1] = n + 1
        <5>1. x = <<n + 1, 0>>
          BY <1>3, <3>1, <4>1 DEF SlotsTo
        <5>2. l + 1 \in 1..(l + 1) /\ more[l + 1] = x
          BY <1>1, <5>1
        <5> QED
          BY <2>1, <5>2 DEF ToSet
      <4>2. CASE x[1] # n + 1
        <5>1. x \in SlotsTo(items, n)
          BY <3>1, <4>2 DEF SlotsTo
        <5>2. PICK m \in 1..l : slots[m] = x
          BY <1>1, <5>1 DEF AreSlots, ToSet
        <5>3. m \in 1..(l + 1) /\ more[m] = x
          BY <1>1, <5>2
        <5> QED
          BY <2>1, <5>3 DEF ToSet
      <4> QED
        BY <4>1, <4>2
    <3>2. ASSUME NEW m \in 1..(l + 1) PROVE more[m] \in SlotsTo(items, n + 1)
      <4>1. CASE m <= l
        <5>1. more[m] = slots[m] /\ m \in 1..l
          BY <1>1, <4>1
        <5>2. slots[m] \in SlotsTo(items, n)
          <6>1. slots[m] \in ToSet(slots)
            BY <1>1, <5>1 DEF ToSet
          <6> QED
            BY <6>1 DEF AreSlots
        <5> QED
          BY <5>1, <5>2 DEF SlotsTo
      <4>2. CASE ~(m <= l)
        BY <1>1, <1>3, <4>2 DEF SlotsTo
      <4> QED
        BY <4>1, <4>2
    <3> HIDE DEF more
    <3> QED
      BY <2>1, <3>1, <3>2 DEF ToSet
  <2>4. ASSUME NEW other, SameKinds(items, other)
        PROVE  BuiltUpTo(other)[n + 1] =
                 [m \in 1..(l + 1) |-> SlotSetting(other, more[m])]
    <3> DEFINE u == [m \in 1..l |-> SlotSetting(other, slots[m])]
               e == _build_full_settings_object(other[n + 1])
    <3>1. /\ Len(other) = Len(items) /\ other[n + 1].kind # "collection"
          /\ BuiltUpTo(other)[n] = u
      BY <1>1, <1>3, <2>4 DEF AreSlots, SameKinds
    <3>2. BuiltUpTo(other)[n + 1] = Append(u, e)
      <4>1. BuiltUpTo(other)[n + 1] = AddItem(other, BuiltUpTo(other)[(n + 1) - 1], n + 1)
        BY <1>1, <3>1, BuiltStep
      <4> QED
        BY <3>1, <4>1 DEF AddItem
    <3>3. e = SlotSetting(other, <<n + 1, 0>>)
      BY DEF SlotSetting
    <3>4. Append(u, e) = [m \in 1..(l + 1) |-> SlotSetting(other, more[m])]
      <4> HIDE DEF e
      <4>1. Append(u, e) = [m \in 1..(l + 1) |-> IF m <= l THEN u[m] ELSE e]
        BY <1>1
      <4>2. ASSUME NEW m \in 1..(l + 1)
            PROVE  (IF m <= l THEN u[m] ELSE e) = SlotSetting(other, more[m])
        BY <1>1, <3>3
      <4> QED
        BY <4>1, <4>2
    <3> QED
      BY <3>2, <3>4
  <2> HIDE DEF more
  <2>5. AreSlots(items, more, n + 1)
    <3>1. \A k, m \in 1..Len(more) : more[k] = more[m] => k = m
      BY <2>1, <2>2
    <3>2. \A other : SameKinds(items, other) =>
            BuiltUpTo(other)[n + 1] = [m \in 1..Len(more) |-> SlotSetting(other, more[m])]
      BY <2>1, <2>4
    <3> QED
      BY <2>1, <2>3, <3>1, <3>2 DEF AreSlots
  <2> QED
    BY <2>5
<1> QED
  BY <1>2, <1>3

\* Every request has its slots.
LEMMA SlotsOf ==
  ASSUME NEW items, IsRequest(items)
  PROVE  \E slots : AreSlots(items, slots, Len(items))
<1> DEFINE N == Len(items)
           T == {n \in Nat : n <= N => \E slots : AreSlots(items, slots, n)}
<1>0. N \in Nat
  BY RequestShape
<1>1. 0 \in T
  <2>1. \A other : SameKinds(items, other) => BuiltUpTo(other)[0] = <<>>
    BY <1>0, BuiltStep DEF SameKinds
  <2>2. SlotsTo(items, 0) = {}
    BY DEF SlotsTo
  <2>3. <<>> \in Seq(Nat \X Nat) /\ Len(<<>>) = 0 /\ ToSet(<<>>) = {}
    BY DEF ToSet
  <2>4. ASSUME NEW other
        PROVE  [m \in 1..Len(<<>>) |-> SlotSetting(other, <<>>[m])] = <<>>
    BY <2>3
  <2>5. AreSlots(items, <<>>, 0)
    <3>1. \A k, m \in 1..Len(<<>>) : <<>>[k] = <<>>[m] => k = m
      BY <2>3
    <3>2. \A other : SameKinds(items, other) =>
            BuiltUpTo(other)[0] = [m \in 1..Len(<<>>) |-> SlotSetting(other, <<>>[m])]
      BY <2>1, <2>4
    <3> QED
      BY <2>2, <2>3, <3>1, <3>2, Zenon DEF AreSlots
  <2> QED
    BY <2>5
<1>2. ASSUME NEW n \in Nat, n \in T
      PROVE  n + 1 \in T
  <2>1. CASE n + 1 <= N
    <3>1. \E slots : AreSlots(items, slots, n)
      BY <1>0, <1>2, <2>1
    <3>2. \E slots : AreSlots(items, slots, n + 1)
      BY <1>0, <2>1, <3>1, SlotsNext
    <3> QED
      BY <3>2
  <2>2. CASE ~(n + 1 <= N)
    BY <2>2
  <2> QED
    BY <2>1, <2>2
<1>3. N \in T
  <2> HIDE DEF T
  <2> QED
    BY <1>0, <1>1, <1>2, NatSetInduction
<1> QED
  BY <1>3

\* The slot m of a request, and the item it is from.
LEMMA SlotIs ==
  ASSUME NEW items, IsRequest(items), Valid(items),
         NEW x, x \in SlotsTo(items, Len(items))
  PROVE  /\ x = <<x[1], x[2]>> /\ x[1] \in DOMAIN items /\ x[2] \in Nat
         /\ x[2] = 0 => /\ items[x[1]].kind \in {"api", "dict"}
                        /\ SlotSetting(items, x) = _build_full_settings_object(items[x[1]])
         /\ x[2] # 0 => /\ items[x[1]].kind = "collection"
                        /\ x[2] \in 1..Len(Collection)
                        /\ SlotSetting(items, x) = _build_full_settings_object(Collection[x[2]])
<1>1. /\ x = <<x[1], x[2]>> /\ x[1] \in DOMAIN items /\ x[2] \in Nat
      /\ items[x[1]].kind = "collection" => x[2] \in 1..Len(Collection)
      /\ items[x[1]].kind # "collection" => x[2] = 0
  BY RequestShape, CollectionShape DEF SlotsTo
<1>2. 0 \notin 1..Len(Collection)
  BY CollectionShape
<1>3. items[x[1]].kind # "collection" => items[x[1]].kind \in {"api", "dict"}
  BY <1>1 DEF IsRequest, Valid, IsItem
<1>4. /\ x[2] = 0 => SlotSetting(items, x) = _build_full_settings_object(items[x[1]])
      /\ x[2] # 0 => SlotSetting(items, x) = _build_full_settings_object(Collection[x[2]])
  BY DEF SlotSetting
<1> QED
  BY <1>1, <1>2, <1>3, <1>4

----------------------------------------------------------------------------
(* Merging. *)

\* Among the first n of the settings b: those of an object; whether one is the
\* first of its object; the values and the nulls in the lists of an object.
Of(b, n, o) == {j \in 1..n : b[j].object = o}
IsFirst(b, i) == \A j \in 1..(i - 1) : b[j].object # b[i].object
Values(b, n, o, k) == UNION {ToSet(b[j].logSettings[k]) : j \in Of(b, n, o)}
AnyNull(b, n, o, k) == \E j \in Of(b, n, o) : b[j].logSettings[k] = Null

\* Every later setting of an object can be merged into the first.
Merges(b, n) ==
  \A j \in 1..n : \A i \in 1..(j - 1) :
    b[i].object = b[j].object /\ IsFirst(b, i) => Mergeable(b[i], b[j])

\* s is what the first n settings of the object of `first` are merged to.
Stands(b, n, first, s) ==
  /\ IsSetting(s)
  /\ s.object = first.object /\ s.instrumentedName = first.instrumentedName
  /\ DOMAIN s.logSettings = DOMAIN first.logSettings
  /\ \A k \in DOMAIN first.logSettings \ list_log_settings :
       s.logSettings[k] = first.logSettings[k]
  /\ \A k \in list_log_settings :
       /\ ToSet(s.logSettings[k]) = Values(b, n, first.object, k)
       /\ s.logSettings[k] = Null <=> AnyNull(b, n, first.object, k)

MergedTo(b, n, m) ==
  /\ m = [ok |-> m.ok, settings |-> m.settings]
  /\ m.ok \in BOOLEAN
  /\ m.ok <=> Merges(b, n)
  /\ m.ok => /\ m.settings = [o \in DOMAIN m.settings |-> m.settings[o]]
             /\ DOMAIN m.settings = {b[j].object : j \in 1..n}
             /\ \A i \in 1..n :
                  IsFirst(b, i) => Stands(b, n, b[i], m.settings[b[i].object])

AreSettings(b) ==
  /\ Len(b) \in Nat /\ DOMAIN b = 1..Len(b)
  /\ \A i \in 1..Len(b) : IsSetting(b[i])

\* The three outcomes of one more setting.
LEMMA MergeOneIs ==
  ASSUME NEW m, m = [ok |-> m.ok, settings |-> m.settings], m.ok \in BOOLEAN,
         NEW x
  PROVE  /\ ~m.ok => MergeOne(m, x) = m
         /\ m.ok /\ x.object \notin DOMAIN m.settings =>
              MergeOne(m, x) =
                [ok |-> TRUE, settings |-> Over(m.settings, [y \in {x.object} |-> x])]
         /\ m.ok /\ x.object \in DOMAIN m.settings =>
              MergeOne(m, x) =
                IF Mergeable(m.settings[x.object], x)
                THEN [ok |-> TRUE,
                      settings |-> [m.settings EXCEPT
                                      ![x.object] = Extended(m.settings[x.object], x)]]
                ELSE [ok |-> FALSE, settings |-> m.settings]
<1>1. CASE ~m.ok
  BY <1>1 DEF MergeOne
<1>2. CASE m.ok /\ x.object \notin DOMAIN m.settings
  BY <1>2 DEF MergeOne
<1>3. CASE m.ok /\ x.object \in DOMAIN m.settings /\ Mergeable(m.settings[x.object], x)
  <2> DEFINE e == Extended(m.settings[x.object], x)
  <2>1. MergeOne(m, x) = [m EXCEPT !.settings[x.object] = e]
    BY <1>3 DEF MergeOne
  <2>2. PICK ok, f : m = [ok |-> ok, settings |-> f]
    OBVIOUS
  <2>3. m.ok = TRUE
    BY <1>3
  <2> HIDE DEF e
  <2>4. [m EXCEPT !.settings[x.object] = e]
          = [ok |-> m.ok, settings |-> [m.settings EXCEPT ![x.object] = e]]
    BY <2>2
  <2> QED
    BY <1>3, <2>1, <2>3, <2>4 DEF e
<1>4. CASE m.ok /\ x.object \in DOMAIN m.settings /\ ~Mergeable(m.settings[x.object], x)
  <2>1. MergeOne(m, x) = [m EXCEPT !.ok = FALSE]
    BY <1>4 DEF MergeOne
  <2>2. PICK ok, f : m = [ok |-> ok, settings |-> f]
    OBVIOUS
  <2>3. \A v : [m EXCEPT !.ok = v] = [ok |-> v, settings |-> m.settings]
    BY <2>2
  <2> QED
    BY <1>4, <2>1, <2>3
<1> QED
  BY <1>1, <1>2, <1>3, <1>4

\* Every object has a first setting.
LEMMA FirstOf ==
  ASSUME NEW b, NEW n \in Nat, NEW j \in 1..n
  PROVE  \E i \in 1..j : b[i].object = b[j].object /\ IsFirst(b, i)
<1> DEFINE I == {i \in 1..j : b[i].object = b[j].object}
<1>1. I \in SUBSET Nat /\ j \in I
  OBVIOUS
<1>2. PICK i \in I : \A y \in I : i <= y
  BY <1>1, NatMin
<1>3. ASSUME NEW y \in 1..(i - 1) PROVE b[y].object # b[i].object
  <2>1. y \in 1..j /\ y < i
    OBVIOUS
  <2> QED
    BY <1>2, <2>1
<1>4. IsFirst(b, i)
  BY <1>3 DEF IsFirst
<1> QED
  BY <1>4

\* No object has two first settings.
LEMMA OneFirst ==
  ASSUME NEW b, NEW n \in Nat, NEW i \in 1..n, NEW j \in 1..n,
         IsFirst(b, i), IsFirst(b, j), b[i].object = b[j].object
  PROVE  i = j
<1>1. ~(i < j)
  <2>1. i < j => i \in 1..(j - 1)
    OBVIOUS
  <2> QED
    BY <2>1 DEF IsFirst
<1>2. ~(j < i)
  <2>1. j < i => j \in 1..(i - 1)
    OBVIOUS
  <2> QED
    BY <2>1 DEF IsFirst
<1> QED
  BY <1>1, <1>2

\* Merging two settings of an object extends the lists of the first.
LEMMA ExtendedIs ==
  ASSUME NEW s, IsSetting(s), NEW x, IsSetting(x), Mergeable(s, x),
         NEW t, t = Extended(s, x)
  PROVE  /\ IsSetting(t)
         /\ t.object = s.object /\ t.instrumentedName = s.instrumentedName
         /\ DOMAIN t.logSettings = DOMAIN s.logSettings
         /\ \A k \in DOMAIN s.logSettings \ list_log_settings :
              t.logSettings[k] = s.logSettings[k]
         /\ \A k \in list_log_settings :
              /\ s.logSettings[k] # Null /\ x.logSettings[k] # Null
              /\ t.logSettings[k] # Null
              /\ ToSet(t.logSettings[k])
                   = ToSet(s.logSettings[k]) \cup ToSet(x.logSettings[k])
<1> DEFINE L == s.logSettings
           R == x.logSettings
           E == [k \in DOMAIN L |-> IF k \in list_log_settings
                                    THEN L[k] \o R[k] ELSE L[k]]
<1>1. t = [object |-> s.object, instrumentedName |-> s.instrumentedName,
           logSettings |-> E]
  <2>1. t = [s EXCEPT !.logSettings = E]
    BY DEF Extended
  <2>2. PICK o, name, log :
          s = [object |-> o, instrumentedName |-> name, logSettings |-> log]
    BY DEF IsSetting
  <2> HIDE DEF E
  <2> QED
    BY <2>1, <2>2
<1> HIDE DEF L, R
<1>2. ASSUME NEW k \in list_log_settings
      PROVE  /\ k \in DOMAIN L
             /\ L[k] # Null /\ R[k] # Null
             /\ L[k] \in NameLists /\ R[k] \in NameLists
  BY <1>2, Defaults DEF IsSetting, Mergeable, Clash, L, R
<1>3. ASSUME NEW k \in list_log_settings
      PROVE  /\ E[k] = L[k] \o R[k] /\ E[k] \in NameLists
             /\ ToSet(E[k]) = ToSet(L[k]) \cup ToSet(R[k])
  <2> DEFINE l == L[k]
             r == R[k]
  <2>1. E[k] = l \o r
    BY <1>2, <1>3
  <2>2. l \in NameLists /\ r \in NameLists
    BY <1>2, <1>3
  <2> HIDE DEF E, l, r
  <2>3. l \o r \in NameLists
    BY <2>2 DEF NameLists
  <2>4. ToSet(l \o r) = ToSet(l) \cup ToSet(r)
    <3>1. /\ Len(l) \in Nat /\ DOMAIN l = 1..Len(l)
          /\ Len(r) \in Nat /\ DOMAIN r = 1..Len(r)
      BY <2>2 DEF NameLists
    <3>2. /\ DOMAIN (l \o r) = 1..(Len(l) + Len(r))
          /\ \A i \in 1..(Len(l) + Len(r)) :
               (l \o r)[i] = IF i <= Len(l) THEN l[i] ELSE r[i - Len(l)]
      BY <2>2 DEF NameLists
    <3>3. \A i \in 1..Len(l) : (l \o r)[i] = l[i] /\ i \in DOMAIN (l \o r)
      BY <3>1, <3>2
    <3>4. \A i \in 1..Len(r) : /\ (l \o r)[Len(l) + i] = r[i]
                               /\ Len(l) + i \in DOMAIN (l \o r)
      BY <3>1, <3>2
    <3>5. \A i \in DOMAIN (l \o r) : \/ i \in 1..Len(l)
                                     \/ i - Len(l) \in 1..Len(r)
      BY <3>1, <3>2
    <3>6. \A i \in DOMAIN (l \o r) :
            (l \o r)[i] = IF i <= Len(l) THEN l[i] ELSE r[i - Len(l)]
      BY <3>1, <3>2
    <3> HIDE DEF l, r
    <3>7. ASSUME NEW i \in DOMAIN (l \o r)
          PROVE  (l \o r)[i] \in ToSet(l) \cup ToSet(r)
      BY <3>1, <3>2, <3>5, <3>6 DEF ToSet
    <3>8. ASSUME NEW v \in ToSet(l)
          PROVE  v \in ToSet(l \o r)
      <4>1. PICK i \in 1..Len(l) : l[i] = v
        BY <3>1 DEF ToSet
      <4> QED
        BY <3>3, <4>1 DEF ToSet
    <3>9. ASSUME NEW v \in ToSet(r)
          PROVE  v \in ToSet(l \o r)
      <4>1. PICK i \in 1..Len(r) : r[i] = v
        BY <3>1 DEF ToSet
      <4> QED
        BY <3>4, <4>1 DEF ToSet
    <3>10. ToSet(l \o r) \subseteq ToSet(l) \cup ToSet(r)
      BY <3>7 DEF ToSet
    <3> QED
      BY <3>8, <3>9, <3>10
  <2> QED
    BY <2>1, <2>2, <2>3, <2>4 DEF l, r
<1>4. IsSetting(t)
  <2>1. t = [object |-> t.object, instrumentedName |-> t.instrumentedName,
             logSettings |-> t.logSettings]
    BY <1>1
  <2>2. t.logSettings = E /\ E = [k \in DOMAIN E |-> E[k]] /\ DOMAIN E = DOMAIN L
    BY <1>1
  <2>3. DOMAIN get_default_log_settings \subseteq DOMAIN L
    BY DEF IsSetting, L
  <2> HIDE DEF E
  <2> QED
    BY <1>3, <2>1, <2>2, <2>3 DEF IsSetting
<1>5. \A k \in DOMAIN L \ list_log_settings : E[k] = L[k]
  OBVIOUS
<1>6. \A k \in list_log_settings : E[k] # Null
  BY <1>3, Defaults
<1>7. t.logSettings = E /\ DOMAIN E = DOMAIN L
  BY <1>1
<1>8. t.object = s.object /\ t.instrumentedName = s.instrumentedName
  BY <1>1
<1> HIDE DEF E
<1> QED
  BY <1>2, <1>3, <1>4, <1>5, <1>6, <1>7, <1>8 DEF L, R

\* A value of an object stands in a list of one of its settings.
LEMMA ValueIs ==
  ASSUME NEW b, NEW n, NEW p, NEW k, NEW v
  PROVE  v \in Values(b, n, p, k)
           <=> \E j \in Of(b, n, p) : v \in ToSet(b[j].logSettings[k])
BY DEF Values

\* What one more setting does to the values and nulls of its object.
LEMMA OneMore ==
  ASSUME NEW b, NEW n \in Nat, NEW p, NEW k
  PROVE  /\ p # b[n + 1].object =>
              /\ Values(b, n + 1, p, k) = Values(b, n, p, k)
              /\ AnyNull(b, n + 1, p, k) <=> AnyNull(b, n, p, k)
         /\ p = b[n + 1].object =>
              /\ Values(b, n + 1, p, k)
                   = Values(b, n, p, k) \cup ToSet(b[n + 1].logSettings[k])
              /\ AnyNull(b, n + 1, p, k) <=>
                   AnyNull(b, n, p, k) \/ b[n + 1].logSettings[k] = Null
<1>1. 1..(n + 1) = (1..n) \cup {n + 1}
  OBVIOUS
<1>2. p # b[n + 1].object => Of(b, n + 1, p) = Of(b, n, p)
  BY <1>1 DEF Of
<1>3. p = b[n + 1].object => Of(b, n + 1, p) = Of(b, n, p) \cup {n + 1}
  BY <1>1 DEF Of
<1>4. ASSUME p = b[n + 1].object, NEW v
      PROVE  v \in Values(b, n + 1, p, k)
               <=> v \in Values(b, n, p, k) \cup ToSet(b[n + 1].logSettings[k])
  BY <1>3, <1>4, ValueIs
<1>5. p = b[n + 1].object =>
        Values(b, n + 1, p, k) = Values(b, n, p, k) \cup ToSet(b[n + 1].logSettings[k])
  BY <1>4
<1>6. p # b[n + 1].object => Values(b, n + 1, p, k) = Values(b, n, p, k)
  BY <1>2 DEF Values
<1> QED
  BY <1>2, <1>3, <1>5, <1>6 DEF AnyNull

\* What one more setting takes to be merged.
LEMMA MergesNext ==
  ASSUME NEW b, NEW n \in Nat
  PROVE  Merges(b, n + 1) <=>
           /\ Merges(b, n)
           /\ \A i \in 1..n : b[i].object = b[n + 1].object /\ IsFirst(b, i) =>
                Mergeable(b[i], b[n + 1])
<1>1. 1..(n + 1) = (1..n) \cup {n + 1} /\ (n + 1) - 1 = n
  OBVIOUS
<1> QED
  BY <1>1 DEF Merges

\* The setting of an object that no earlier one is for.
LEMMA MergedNew ==
  ASSUME NEW b, AreSettings(b), NEW n \in Nat, n + 1 <= Len(b),
         NEW m, MergedTo(b, n, m), m.ok, b[n + 1].object \notin DOMAIN m.settings
  PROVE  MergedTo(b, n + 1, MergeOne(m, b[n + 1]))
<1> DEFINE x == b[n + 1]
           o == x.object
           f == m.settings
           g == Over(f, [y \in {o} |-> x])
           r == MergeOne(m, x)
<1>1. r = [ok |-> TRUE, settings |-> g]
  <2>1. m = [ok |-> m.ok, settings |-> m.settings] /\ m.ok \in BOOLEAN
    BY DEF MergedTo
  <2> QED
    BY <2>1, MergeOneIs
<1>2. /\ f = [p \in DOMAIN f |-> f[p]] /\ DOMAIN f = {b[j].object : j \in 1..n}
      /\ \A i \in 1..n : IsFirst(b, i) => Stands(b, n, b[i], f[b[i].object])
      /\ Merges(b, n)
  BY DEF MergedTo
<1>3. \A i \in 1..n : b[i].object # o
  BY <1>2
<1>4. Merges(b, n + 1)
  BY <1>2, <1>3, MergesNext
<1>5. 1..(n + 1) = (1..n) \cup {n + 1} /\ IsSetting(x)
  BY DEF AreSettings
<1>6. /\ DOMAIN g = {b[j].object : j \in 1..(n + 1)}
      /\ g = [p \in DOMAIN g |-> g[p]]
      /\ g[o] = x
      /\ \A p \in DOMAIN f : g[p] = f[p]
  <2>1. /\ DOMAIN g = DOMAIN f \cup {o} /\ g = [p \in DOMAIN g |-> g[p]]
        /\ \A p \in DOMAIN f : g[p] = f[p]
        /\ o \notin DOMAIN f => g[o] = x
    BY DEF Over
  <2>2. o \notin DOMAIN f
    BY <1>2, <1>3
  <2> HIDE DEF g
  <2>3. DOMAIN g = {b[j].object : j \in 1..(n + 1)}
    BY <1>2, <1>5, <2>1
  <2> QED
    BY <2>1, <2>2, <2>3
<1>7. ASSUME NEW i \in 1..n, IsFirst(b, i)
      PROVE  Stands(b, n + 1, b[i], g[b[i].object])
  <2> DEFINE p == b[i].object
  <2>1. p # o /\ g[p] = f[p] /\ Stands(b, n, b[i], f[p])
    BY <1>2, <1>3, <1>6, <1>7
  <2>2. \A k : /\ Values(b, n + 1, p, k) = Values(b, n, p, k)
               /\ AnyNull(b, n + 1, p, k) <=> AnyNull(b, n, p, k)
    BY <2>1, OneMore
  <2> QED
    BY <2>1, <2>2 DEF Stands
<1>8. Stands(b, n + 1, x, x)
  <2>1. Of(b, n, o) = {}
    BY <1>3 DEF Of
  <2>2. \A k : Values(b, n, o, k) = {} /\ ~AnyNull(b, n, o, k)
    BY <2>1 DEF Values, AnyNull
  <2>3. ASSUME NEW k
        PROVE  /\ Values(b, n + 1, o, k) = ToSet(x.logSettings[k])
               /\ AnyNull(b, n + 1, o, k) <=> x.logSettings[k] = Null
    <3>1. /\ Values(b, n + 1, o, k) = Values(b, n, o, k) \cup ToSet(x.logSettings[k])
          /\ AnyNull(b, n + 1, o, k) <=>
               AnyNull(b, n, o, k) \/ x.logSettings[k] = Null
      BY OneMore
    <3> QED
      BY <2>2, <3>1
  <2> QED
    BY <1>5, <2>3 DEF Stands
<1>9. \A i \in 1..(n + 1) : IsFirst(b, i) => Stands(b, n + 1, b[i], g[b[i].object])
  BY <1>5, <1>6, <1>7, <1>8
<1>10. r.ok /\ r.settings = g
  BY <1>1
<1> HIDE DEF g, r
<1> QED
  BY <1>1, <1>4, <1>6, <1>9, <1>10 DEF MergedTo, r

\* Whether a setting can be merged does not depend on what the first setting
\* of its object has been merged with so far.
LEMMA MergeableStands ==
  ASSUME NEW b, AreSettings(b), NEW n \in Nat, n + 1 <= Len(b), Merges(b, n),
         NEW i \in 1..n, IsFirst(b, i), b[i].object = b[n + 1].object,
         NEW s, Stands(b, n, b[i], s)
  PROVE  Mergeable(s, b[n + 1]) <=> Mergeable(b[i], b[n + 1])
<1> DEFINE x == b[n + 1]
<1>1. IsSetting(b[i]) /\ \A k \in list_log_settings : k \in DOMAIN b[i].logSettings
  BY Defaults DEF AreSettings, IsSetting
<1>2. ASSUME NEW k \in list_log_settings
      PROVE  s.logSettings[k] = Null <=> b[i].logSettings[k] = Null
  <2>1. ASSUME NEW j \in Of(b, n, b[i].object), b[j].logSettings[k] = Null
        PROVE  b[i].logSettings[k] = Null
    <3>1. j \in 1..n /\ b[j].object = b[i].object
      BY DEF Of
    <3>2. CASE i < j
      <4>1. i \in 1..(j - 1)
        BY <3>1, <3>2
      <4>2. Mergeable(b[i], b[j])
        BY <3>1, <4>1 DEF Merges
      <4> QED
        BY <1>1, <2>1, <4>2 DEF Mergeable, Clash
    <3>3. CASE j < i
      BY <3>1, <3>3 DEF IsFirst
    <3> QED
      BY <2>1, <3>1, <3>2, <3>3
  <2>2. b[i].logSettings[k] = Null => AnyNull(b, n, b[i].object, k)
    BY DEF AnyNull, Of
  <2> QED
    BY <2>1, <2>2 DEF Stands, AnyNull
<1>3. /\ s.instrumentedName = b[i].instrumentedName
      /\ DOMAIN s.logSettings = DOMAIN b[i].logSettings
      /\ \A k \in DOMAIN b[i].logSettings \ list_log_settings :
           s.logSettings[k] = b[i].logSettings[k]
  BY DEF Stands
<1>4. ASSUME NEW k \in DOMAIN b[i].logSettings
      PROVE  Clash(k, s.logSettings[k], x.logSettings[k])
               <=> Clash(k, b[i].logSettings[k], x.logSettings[k])
  BY <1>2, <1>3 DEF Clash
<1> QED
  BY <1>3, <1>4 DEF Mergeable

\* A setting of an object that there is one of already.
LEMMA MergedAgain ==
  ASSUME NEW b, AreSettings(b), NEW n \in Nat, n + 1 <= Len(b),
         NEW m, MergedTo(b, n, m), m.ok, b[n + 1].object \in DOMAIN m.settings
  PROVE  MergedTo(b, n + 1, MergeOne(m, b[n + 1]))
<1> DEFINE x == b[n + 1]
           o == x.object
           f == m.settings
           r == MergeOne(m, x)
<1>1. r = IF Mergeable(f[o], x)
          THEN [ok |-> TRUE, settings |-> [f EXCEPT ![o] = Extended(f[o], x)]]
          ELSE [ok |-> FALSE, settings |-> f]
  BY MergeOneIs DEF MergedTo
<1>2. /\ f = [p \in DOMAIN f |-> f[p]] /\ DOMAIN f = {b[j].object : j \in 1..n}
      /\ \A i \in 1..n : IsFirst(b, i) => Stands(b, n, b[i], f[b[i].object])
      /\ Merges(b, n)
  BY DEF MergedTo
<1>3. 1..(n + 1) = (1..n) \cup {n + 1} /\ IsSetting(x)
  BY DEF AreSettings
<1>4. PICK i \in 1..n : b[i].object = o /\ IsFirst(b, i)
  <2>1. PICK j \in 1..n : b[j].object = o
    BY <1>2
  <2>2. PICK i \in 1..j : b[i].object = b[j].object /\ IsFirst(b, i)
    BY <2>1, FirstOf
  <2>3. i \in 1..n
    BY <2>1
  <2> QED
    BY <2>1, <2>2, <2>3
<1>5. Stands(b, n, b[i], f[o])
  BY <1>2, <1>4
<1>6. Mergeable(f[o], x) <=> Mergeable(b[i], x)
  BY <1>2, <1>4, <1>5, MergeableStands
<1>7. Merges(b, n + 1) <=> Mergeable(f[o], x)
  <2>1. \A j \in 1..n : b[j].object = o /\ IsFirst(b, j) => j = i
    BY <1>4, OneFirst
  <2> QED
    BY <1>2, <1>4, <1>6, <2>1, MergesNext
<1>8. CASE ~Mergeable(f[o], x)
  <2>1. r = [ok |-> FALSE, settings |-> f] /\ ~Merges(b, n + 1)
    BY <1>1, <1>7, <1>8
  <2> HIDE DEF r
  <2> QED
    BY <2>1 DEF MergedTo, r
<1>9. CASE Mergeable(f[o], x)
  <2> DEFINE t == Extended(f[o], x)
             g == [f EXCEPT ![o] = t]
  <2>1. r = [ok |-> TRUE, settings |-> g] /\ Merges(b, n + 1)
    BY <1>1, <1>7, <1>9
  <2>2. IsSetting(f[o])
    BY <1>5 DEF Stands
  <2>3. /\ IsSetting(t)
        /\ t.object = f[o].object /\ t.instrumentedName = f[o].instrumentedName
        /\ DOMAIN t.logSettings = DOMAIN f[o].logSettings
        /\ \A k \in DOMAIN f[o].logSettings \ list_log_settings :
             t.logSettings[k] = f[o].logSettings[k]
        /\ \A k \in list_log_settings :
             /\ f[o].logSettings[k] # Null /\ x.logSettings[k] # Null
             /\ t.logSettings[k] # Null
             /\ ToSet(t.logSettings[k])
                  = ToSet(f[o].logSettings[k]) \cup ToSet(x.logSettings[k])
    <3> DEFINE s == f[o]
    <3>1. IsSetting(s) /\ IsSetting(x) /\ Mergeable(s, x) /\ t = Extended(s, x)
      BY <1>3, <1>9, <2>2
    <3> HIDE DEF f, x, o, s, t
    <3>2. /\ IsSetting(t)
          /\ t.object = s.object /\ t.instrumentedName = s.instrumentedName
          /\ DOMAIN t.logSettings = DOMAIN s.logSettings
          /\ \A k \in DOMAIN s.logSettings \ list_log_settings :
               t.logSettings[k] = s.logSettings[k]
          /\ \A k \in list_log_settings :
               /\ s.logSettings[k] # Null /\ x.logSettings[k] # Null
               /\ t.logSettings[k] # Null
               /\ ToSet(t.logSettings[k])
                    = ToSet(s.logSettings[k]) \cup ToSet(x.logSettings[k])
      BY ONLY <3>1, ExtendedIs
    <3> QED
      BY <3>2 DEF s
  <2> HIDE DEF t
  <2>4. /\ DOMAIN g = {b[j].object : j \in 1..(n + 1)}
        /\ g = [p \in DOMAIN g |-> g[p]]
        /\ g[o] = t
        /\ \A p \in DOMAIN f : p # o => g[p] = f[p]
    BY <1>2, <1>3, <1>4
  <2>5. Stands(b, n + 1, b[i], g[o])
    <3>1. \A k \in list_log_settings :
            /\ Values(b, n + 1, o, k) = Values(b, n, o, k) \cup ToSet(x.logSettings[k])
            /\ AnyNull(b, n + 1, o, k) <=>
                 AnyNull(b, n, o, k) \/ x.logSettings[k] = Null
      BY OneMore
    <3> HIDE DEF o, x
    <3>2. \A k \in list_log_settings :
            /\ ToSet(f[o].logSettings[k]) = Values(b, n, o, k)
            /\ f[o].logSettings[k] = Null <=> AnyNull(b, n, o, k)
      BY <1>4, <1>5 DEF Stands
    <3>3. \A k \in list_log_settings :
            /\ ToSet(t.logSettings[k]) = Values(b, n + 1, o, k)
            /\ t.logSettings[k] = Null <=> AnyNull(b, n + 1, o, k)
      BY <2>3, <3>1, <3>2
    <3> HIDE DEF g
    <3> QED
      BY <1>4, <1>5, <2>3, <2>4, <3>3 DEF Stands
  <2>6. ASSUME NEW j \in 1..n, IsFirst(b, j)
        PROVE  Stands(b, n + 1, b[j], g[b[j].object])
    <3>1. CASE b[j].object = o
      <4>1. j = i
        BY <1>4, <2>6, <3>1, OneFirst
      <4> QED
        BY <1>4, <2>5, <4>1
    <3>2. CASE b[j].object # o
      <4> DEFINE p == b[j].object
      <4>1. g[p] = f[p] /\ Stands(b, n, b[j], f[p])
        BY <1>2, <2>4, <2>6, <3>2
      <4>2. \A k : /\ Values(b, n + 1, p, k) = Values(b, n, p, k)
                   /\ AnyNull(b, n + 1, p, k) <=> AnyNull(b, n, p, k)
        BY <3>2, OneMore
      <4>3. b[j].object = p /\ g[b[j].object] = f[p]
        BY <4>1
      <4> HIDE DEF p, f, g
      <4> QED
        BY <4>1, <4>2, <4>3 DEF Stands
    <3> QED
      BY <3>1, <3>2
  <2>7. ~IsFirst(b, n + 1)
    <3>1. (n + 1) - 1 = n
      OBVIOUS
    <3> QED
      BY <1>4, <3>1 DEF IsFirst
  <2>8. \A j \in 1..(n + 1) :
          IsFirst(b, j) => Stands(b, n + 1, b[j], g[b[j].object])
    BY <1>3, <2>6, <2>7
  <2>9. r.ok /\ r.settings = g
    BY <2>1
  <2> HIDE DEF g, r
  <2> QED
    BY <2>1, <2>4, <2>8, <2>9 DEF MergedTo, r
<1> QED
  BY <1>8, <1>9

\* The loop of _merge_settings merges what can be merged.
LEMMA MergedSettings ==
  ASSUME NEW b, AreSettings(b)
  PROVE  MergedTo(b, Len(b), Merged(b))
<1> DEFINE N == Len(b)
           m == MergedUpTo(b)
           T == {n \in Nat : n <= N => MergedTo(b, n, m[n])}
<1>0. N \in Nat
  BY DEF AreSettings
<1>1. 0 \in T
  <2>1. m[0] = [ok |-> TRUE, settings |-> <<>>]
    BY <1>0, MergedStep
  <2>2. Merges(b, 0)
    BY DEF Merges
  <2>3. {b[j].object : j \in 1..0} = {}
    OBVIOUS
  <2>4. MergedTo(b, 0, m[0])
    BY <2>1, <2>2, <2>3 DEF MergedTo
  <2> QED
    BY <2>4
<1>2. ASSUME NEW n \in Nat, n \in T
      PROVE  n + 1 \in T
  <2>1. CASE n + 1 <= N
    <3>1. MergedTo(b, n, m[n])
      BY <1>0, <1>2, <2>1
    <3>2. m[n + 1] = MergeOne(m[n], b[n + 1])
      <4>1. n + 1 \in 1..N /\ (n + 1) - 1 = n
        BY <1>0, <2>1
      <4> QED
        BY <1>0, <4>1, MergedStep
    <3>3. CASE ~m[n].ok
      <4>1. m[n + 1] = m[n] /\ ~Merges(b, n + 1)
        BY <3>1, <3>2, <3>3, MergeOneIs, MergesNext DEF MergedTo
      <4> QED
        BY <3>1, <3>3, <4>1 DEF MergedTo
    <3>4. CASE m[n].ok
      BY <1>0, <2>1, <3>1, <3>2, <3>4, MergedNew, MergedAgain
    <3> QED
      BY <3>3, <3>4
  <2>2. CASE ~(n + 1 <= N)
    BY <2>2
  <2> QED
    BY <2>1, <2>2
<1>3. N \in T
  <2> HIDE DEF T
  <2> QED
    BY <1>0, <1>1, <1>2, NatSetInduction
<1> QED
  BY <1>0, <1>3 DEF Merged


----------------------------------------------------------------------------
(* Cleaning what was merged. *)

\* Deduplicating a list keeps its elements, each of them once.
LEMMA DedupeIs ==
  ASSUME NEW list \in NameLists
  PROVE  LET d == Dedupe(list)
         IN /\ d \in NameLists /\ d # Null
            /\ ToSet(d) = ToSet(list)
            /\ IsInjective(d)
            /\ d = <<>> <=> ToSet(list) = {}
<1> DEFINE S == ToSet(list)
           C == Cardinality(S)
           d == SetToSeq(S)
<1>1. Len(list) \in Nat /\ DOMAIN list = 1..Len(list) /\ S \subseteq Names \cup {Null}
  BY DEF NameLists, ToSet
<1>2. IsFiniteSet(S)
  <2> DEFINE f == [i \in 1..Len(list) |-> list[i]]
  <2>1. f \in Surjection(1..Len(list), S)
    BY <1>1 DEF Surjection, ToSet
  <2>2. IsFiniteSet(1..Len(list))
    BY <1>1, FS_Interval
  <2> QED
    BY <2>1, <2>2, FS_Surjection
<1>3. C \in Nat /\ ExistsBijection(1..C, S)
  BY <1>2, FS_CardinalityType
<1>4. d \in [1..C -> S] /\ IsInjective(d)
  <2>1. PICK f : f \in Bijection(1..C, S)
    BY <1>3 DEF ExistsBijection
  <2>2. f \in [1..C -> S] /\ IsInjective(f)
    BY <2>1 DEF Bijection, Injection
  <2> HIDE DEF S
  <2> QED
    BY <2>2 DEF SetToSeq
<1> HIDE DEF S, d
<1>5. ToSet(d) = S
  <2>1. d \in Injection(1..C, S)
    BY <1>4 DEF Injection
  <2>2. Cardinality(1..C) = C
    BY <1>3, FS_Interval
  <2>3. d \in Surjection(1..C, S)
    BY <1>2, <2>1, <2>2, FS_Injection
  <2> QED
    BY <1>4, <2>3 DEF Surjection, ToSet
<1>6. d \in NameLists
  <2> HIDE DEF C
  <2>1. d \in Seq(S)
    BY <1>3, <1>4
  <2> QED
    BY <1>1, <1>3, <1>4 DEF NameLists
<1>7. d = <<>> <=> S = {}
  <2>1. d = <<>> => ToSet(d) = {}
    BY DEF ToSet
  <2>2. S = {} => C = 0
    BY FS_EmptySet
  <2> HIDE DEF C
  <2>3. C = 0 => d = <<>>
    BY <1>4
  <2> QED
    BY <1>5, <2>1, <2>2, <2>3
<1>8. Dedupe(list) = d /\ list # Null
  BY Defaults DEF Dedupe, d, S
<1> QED
  BY <1>4, <1>5, <1>6, <1>7, <1>8, Defaults DEF S

Keys == DOMAIN get_default_log_settings

\* When the settings of an object, the first of which has the keys `keys', can
\* be cleaned.
ObjectFits(b, o, keys) ==
  /\ keys = Keys
  /\ \A k \in list_log_settings :
       ~AnyNull(b, Len(b), o, k) => Null \notin Values(b, Len(b), o, k)
  /\ \A k \in list_log_settings \ {"propertiesToInstrument"} :
       ~AnyNull(b, Len(b), o, k)
  /\ ~AnyNull(b, Len(b), o, "propertiesToInstrument") =>
       Values(b, Len(b), o, "propertiesToInstrument")
         \cap Values(b, Len(b), o, "excludedProperties") = {}

\* When the settings b can be cleaned.
Fit(b) ==
  /\ Merges(b, Len(b))
  /\ \A i \in 1..Len(b) : IsFirst(b, i) => DOMAIN b[i].logSettings = Keys
  /\ \A i \in 1..Len(b) : ObjectFits(b, b[i].object, Keys)

\* What is watched on an object.
Watch(b, o) ==
  LET all(k) == Values(b, Len(b), o, k)
      listed == all("propertiesToInstrument")
  IN (IF AnyNull(b, Len(b), o, "propertiesToInstrument") THEN {}
      ELSE IF listed = {} THEN Props ELSE listed) \ all("excludedProperties")

Objects(b) == {b[j].object : j \in 1..Len(b)}

\* What cleaning makes of the settings b.
Describes(b, settings) ==
  /\ DOMAIN settings = Objects(b)
  /\ \A o \in Objects(b) :
       LET log == settings[o].logSettings
       IN /\ Instrumented(log) = Watch(b, o)
          /\ \A k \in list_log_settings :
               /\ log[k] = Null <=> AnyNull(b, Len(b), o, k)
               /\ log[k] # Null => /\ ToSet(log[k]) = Values(b, Len(b), o, k)
                                   /\ IsInjective(log[k])
          /\ \A j \in Of(b, Len(b), o) :
               /\ b[j].instrumentedName = settings[o].instrumentedName
               /\ b[j].logSettings["depth"] = log["depth"]

\* The deduplicated setting of an object.
LEMMA DedupedIs ==
  ASSUME NEW s, IsSetting(s)
  PROVE  LET t == Deduped(s)
         IN /\ t.instrumentedName = s.instrumentedName
            /\ DOMAIN t.logSettings = DOMAIN s.logSettings
            /\ "depth" \in DOMAIN s.logSettings
            /\ t.logSettings["depth"] = s.logSettings["depth"]
            /\ \A k \in list_log_settings :
                 /\ k \in DOMAIN s.logSettings
                 /\ t.logSettings[k] = Null <=> s.logSettings[k] = Null
                 /\ t.logSettings[k] # Null =>
                      /\ ToSet(t.logSettings[k]) = ToSet(s.logSettings[k])
                      /\ IsInjective(t.logSettings[k])
                      /\ t.logSettings[k] = <<>> <=> ToSet(s.logSettings[k]) = {}
<1> DEFINE t == Deduped(s)
           L == s.logSettings
           E == [k \in DOMAIN L |-> IF k \in list_log_settings THEN Dedupe(L[k]) ELSE L[k]]
<1>1. t = [object |-> s.object, instrumentedName |-> s.instrumentedName,
           logSettings |-> E]
  <2>1. t = [s EXCEPT !.logSettings = E]
    BY DEF Deduped
  <2>2. PICK o, name, log :
          s = [object |-> o, instrumentedName |-> name, logSettings |-> log]
    BY DEF IsSetting
  <2> HIDE DEF E, t
  <2> QED
    BY <2>1, <2>2
<1> HIDE DEF t, L
<1>2. "depth" \in DOMAIN L /\ \A k \in list_log_settings :
        k \in DOMAIN L /\ L[k] \in NameLists \cup {Null}
  BY Defaults DEF IsSetting, L
<1>3. /\ DOMAIN E = DOMAIN L /\ E["depth"] = L["depth"]
      /\ \A k \in list_log_settings : E[k] = Dedupe(L[k])
  BY <1>2, Defaults
<1>4. t.logSettings = E /\ t.instrumentedName = s.instrumentedName
  BY <1>1
<1> HIDE DEF E
<1>5. ASSUME NEW k \in list_log_settings
      PROVE  /\ E[k] = Null <=> L[k] = Null
             /\ E[k] # Null => /\ ToSet(E[k]) = ToSet(L[k])
                               /\ IsInjective(E[k])
                               /\ E[k] = <<>> <=> ToSet(L[k]) = {}
  <2>1. CASE L[k] = Null
    BY <1>3, <2>1 DEF Dedupe
  <2>2. CASE L[k] # Null
    <3>1. L[k] \in NameLists
      BY <1>2, <2>2
    <3> QED
      BY <1>3, <2>2, <3>1, DedupeIs
  <2> QED
    BY <2>1, <2>2
<1> QED
  BY <1>2, <1>3, <1>4, <1>5 DEF t, L

\* What the settings built from a valid request look like.
LEMMA BuiltSettings ==
  ASSUME NEW items, IsRequest(items), Valid(items)
  PROVE  AreSettings(Built(items))
<1> DEFINE N == Len(items)
           b == Built(items)
<1>1. PICK slots : AreSlots(items, slots, N)
  BY SlotsOf
<1>2. SameKinds(items, items)
  BY DEF SameKinds
<1>3. b = [m \in 1..Len(slots) |-> SlotSetting(items, slots[m])]
  BY <1>1, <1>2 DEF AreSlots, Built
<1>4. slots \in Seq(Nat \X Nat) /\ Len(slots) \in Nat /\ DOMAIN slots = 1..Len(slots)
  BY <1>1 DEF AreSlots
<1>5. Len(b) = Len(slots) /\ DOMAIN b = 1..Len(slots)
  BY <1>3, <1>4
<1>6. ASSUME NEW m \in 1..Len(slots)
      PROVE  IsSetting(b[m])
  <2> DEFINE x == slots[m]
  <2>1. x \in SlotsTo(items, N)
    BY <1>1, <1>4 DEF AreSlots, ToSet
  <2>2. b[m] = SlotSetting(items, x)
    BY <1>3
  <2> HIDE DEF x, b
  <2>3. CASE x[2] = 0
    <3>1. x[1] \in DOMAIN items /\ items[x[1]].kind # "collection"
      BY <2>1, <2>3, RequestShape, CollectionShape DEF SlotsTo
    <3>2. IsItem(items[x[1]]) /\ items[x[1]].kind \in {"api", "dict"}
      BY <3>1 DEF IsRequest, Valid, IsItem
    <3> QED
      BY <2>2, <2>3, <3>2, SettingOf DEF SlotSetting
  <2>4. CASE x[2] # 0
    <3>1. x[2] \in DOMAIN Collection
      BY <2>1, <2>4 DEF SlotsTo
    <3>2. IsItem(Collection[x[2]]) /\ Collection[x[2]].kind \in {"api", "dict"}
      BY <3>1, CollectionShape
    <3> QED
      BY <2>2, <2>4, <3>2, SettingOf DEF SlotSetting
  <2> QED
    BY <2>3, <2>4
<1> HIDE DEF b
<1>7. AreSettings(b)
  BY <1>4, <1>5, <1>6 DEF AreSettings
<1> QED
  BY <1>7 DEF b

\* The checks of _merge_settings and _validate on the merged setting of an
\* object.
LEMMA StandsFits ==
  ASSUME NEW b, NEW first, NEW s, Stands(b, Len(b), first, s)
  PROVE  ListsAreUsable(s) /\ _validate(Deduped(s))
           <=> ObjectFits(b, first.object, DOMAIN first.logSettings)
<1> DEFINE o == first.object
           V(k) == Values(b, Len(b), o, k)
           A(k) == AnyNull(b, Len(b), o, k)
           t == Deduped(s)
           L == t.logSettings
           props == "propertiesToInstrument"
           excl == "excludedProperties"
<1>1. props \in list_log_settings /\ excl \in list_log_settings /\ props # excl
  BY DEF list_log_settings
<1>2. IsSetting(s) /\ DOMAIN s.logSettings = DOMAIN first.logSettings
  BY DEF Stands
<1>3. \A k \in list_log_settings :
        ToSet(s.logSettings[k]) = V(k) /\ (s.logSettings[k] = Null <=> A(k))
  BY DEF Stands
<1>4. /\ DOMAIN L = DOMAIN first.logSettings
      /\ \A k \in list_log_settings :
           /\ L[k] = Null <=> A(k)
           /\ L[k] # Null => ToSet(L[k]) = V(k)
  BY <1>2, <1>3, DedupedIs
<1>5. ListsAreUsable(s) <=> \A k \in list_log_settings : ~A(k) => Null \notin V(k)
  BY <1>3 DEF ListsAreUsable
<1> HIDE DEF V, A, t
<1>6. FitsSchema(t) <=> /\ DOMAIN first.logSettings = Keys
                        /\ \A k \in list_log_settings \ {props} : ~A(k)
  BY <1>4 DEF FitsSchema, Keys
<1>7. ASSUME ~A(excl)
      PROVE  Collides(t) <=> ~A(props) /\ V(props) \cap V(excl) # {}
  <2>1. L[excl] # Null /\ ToSet(L[excl]) = V(excl)
    BY <1>1, <1>4, <1>7
  <2>2. /\ L[props] = Null <=> A(props)
        /\ L[props] # Null => ToSet(L[props]) = V(props)
    BY <1>1, <1>4
  <2> QED
    BY <2>1, <2>2 DEF Collides
<1>8. excl \in list_log_settings \ {props}
  BY <1>1
<1>9. ListsAreUsable(s) /\ _validate(t) <=>
        /\ DOMAIN first.logSettings = Keys
        /\ \A k \in list_log_settings : ~A(k) => Null \notin V(k)
        /\ \A k \in list_log_settings \ {props} : ~A(k)
        /\ ~A(props) => V(props) \cap V(excl) = {}
  BY <1>5, <1>6, <1>7, <1>8 DEF _validate
<1> QED
  BY <1>9 DEF ObjectFits, V, A, t

\* The settings of an object agree on all but the lists.
LEMMA MergesAgree ==
  ASSUME NEW b, AreSettings(b), Merges(b, Len(b)),
         NEW i \in 1..Len(b), IsFirst(b, i),
         NEW j \in 1..Len(b), b[j].object = b[i].object
  PROVE  /\ b[j].instrumentedName = b[i].instrumentedName
         /\ b[j].logSettings["depth"] = b[i].logSettings["depth"]
         /\ j # i => Mergeable(b[i], b[j])
<1>1. CASE j < i
  <2>1. j \in 1..(i - 1)
    BY <1>1
  <2> QED
    BY <2>1 DEF IsFirst
<1>2. CASE i < j
  <2>1. i \in 1..(j - 1)
    BY <1>2
  <2>2. Mergeable(b[i], b[j])
    BY <2>1 DEF Merges
  <2>3. "depth" \in DOMAIN b[i].logSettings
    BY Defaults DEF AreSettings, IsSetting
  <2> QED
    BY <2>2, <2>3, Defaults DEF Mergeable, Clash
<1>3. CASE i = j
  BY <1>3
<1> QED
  BY <1>1, <1>2, <1>3 DEF AreSettings

\* Where settings can be merged, one list of an object is null if and only if
\* the first is.
LEMMA NullIsFirst ==
  ASSUME NEW b, AreSettings(b), Merges(b, Len(b)),
         NEW i \in 1..Len(b), IsFirst(b, i), NEW k \in list_log_settings
  PROVE  AnyNull(b, Len(b), b[i].object, k) <=> b[i].logSettings[k] = Null
<1>1. i \in Of(b, Len(b), b[i].object)
  BY DEF Of
<1>2. ASSUME NEW j \in Of(b, Len(b), b[i].object), b[j].logSettings[k] = Null
      PROVE  b[i].logSettings[k] = Null
  <2>1. j # i => Mergeable(b[i], b[j])
    BY MergesAgree DEF Of
  <2>2. k \in DOMAIN b[i].logSettings
    BY Defaults DEF AreSettings, IsSetting
  <2> QED
    BY <1>2, <2>1, <2>2 DEF Mergeable, Clash
<1> QED
  BY <1>1, <1>2 DEF AnyNull

\* What cleaning makes of what is watched.
LEMMA WatchIs ==
  ASSUME NEW b, NEW first, NEW s, Stands(b, Len(b), first, s),
         ObjectFits(b, first.object, DOMAIN first.logSettings)
  PROVE  Instrumented(Deduped(s).logSettings) = Watch(b, first.object)
<1> DEFINE o == first.object
           V(k) == Values(b, Len(b), o, k)
           A(k) == AnyNull(b, Len(b), o, k)
           t == Deduped(s)
           L == t.logSettings
           props == "propertiesToInstrument"
           excl == "excludedProperties"
<1>1. props \in list_log_settings /\ excl \in list_log_settings /\ props # excl
  BY DEF list_log_settings
<1>2. IsSetting(s)
  BY DEF Stands
<1>3. \A k \in list_log_settings :
        ToSet(s.logSettings[k]) = V(k) /\ (s.logSettings[k] = Null <=> A(k))
  BY DEF Stands
<1>4. \A k \in list_log_settings :
        /\ L[k] = Null <=> A(k)
        /\ L[k] # Null => /\ ToSet(L[k]) = V(k)
                          /\ L[k] = <<>> <=> V(k) = {}
  BY <1>2, <1>3, DedupedIs
<1>5. ~A(excl)
  BY <1>1 DEF ObjectFits
<1> HIDE DEF V, A, t
<1>6. ToSet(L[excl]) = V(excl)
  BY <1>1, <1>4, <1>5
<1>7. propertiesToInstrument(L)
        = IF A(props) THEN {} ELSE IF V(props) = {} THEN Props ELSE V(props)
  <2>1. CASE L[props] = Null
    BY <1>1, <1>4, <2>1, Defaults DEF propertiesToInstrument
  <2>2. CASE L[props] # Null /\ L[props] = <<>>
    BY <1>1, <1>4, <2>2 DEF propertiesToInstrument
  <2>3. CASE L[props] # Null /\ L[props] # <<>>
    BY <1>1, <1>4, <2>3 DEF propertiesToInstrument
  <2> QED
    BY <2>1, <2>2, <2>3
<1>8. Instrumented(L) = (IF A(props) THEN {} ELSE IF V(props) = {} THEN Props ELSE V(props))
                          \ V(excl)
  BY <1>6, <1>7 DEF Instrumented
<1> QED
  BY <1>8 DEF Watch, V, A, t

\* When cleaning succeeds, and with what.
LEMMA CleanIs ==
  ASSUME NEW items, IsRequest(items)
  PROVE  LET result == clean_js_instrumentation_settings(items)
         IN /\ result.ok \in BOOLEAN
            /\ result.ok <=> Valid(items) /\ Fit(Built(items))
            /\ result.ok => Describes(Built(items), result.settings)
<1> DEFINE b == Built(items)
           N == Len(b)
           m == Merged(b)
           st == [o \in DOMAIN m.settings |-> Deduped(m.settings[o])]
           ok == /\ m.ok
                 /\ \A o \in DOMAIN st : ListsAreUsable(m.settings[o])
                 /\ \A o \in DOMAIN st : _validate(st[o])
           result == clean_js_instrumentation_settings(items)
<1>1. CASE ~Valid(items)
  BY <1>1 DEF clean_js_instrumentation_settings, Valid, Failed
<1>2. CASE Valid(items)
  <2>1. result = IF ok THEN [ok |-> TRUE, settings |-> st] ELSE [ok |-> FALSE]
    BY <1>2 DEF clean_js_instrumentation_settings, Valid, Failed
  <2>2. AreSettings(b)
    BY <1>2, BuiltSettings
  <2>3. MergedTo(b, N, m)
    BY <2>2, MergedSettings
  <2> HIDE DEF b, m, result
  <2>4. N \in Nat /\ m.ok \in BOOLEAN /\ (m.ok <=> Merges(b, N))
    BY <2>2, <2>3 DEF AreSettings, MergedTo
  <2>5. ASSUME m.ok
        PROVE  /\ DOMAIN m.settings = Objects(b)
               /\ \A i \in 1..N : IsFirst(b, i) =>
                    Stands(b, N, b[i], m.settings[b[i].object])
    BY <2>3, <2>5 DEF MergedTo, Objects
  <2>6. \A j \in 1..N : \E i \in 1..N : b[i].object = b[j].object /\ IsFirst(b, i)
    <3>1. ASSUME NEW j \in 1..N
          PROVE  \E i \in 1..N : b[i].object = b[j].object /\ IsFirst(b, i)
      <4>1. PICK i \in 1..j : b[i].object = b[j].object /\ IsFirst(b, i)
        BY <2>4, FirstOf
      <4>2. i \in 1..N
        BY <2>4
      <4> QED
        BY <4>1, <4>2
    <3> QED
      BY <3>1
  <2>7. ASSUME m.ok, NEW i \in 1..N, IsFirst(b, i)
        PROVE  ListsAreUsable(m.settings[b[i].object])
                 /\ _validate(Deduped(m.settings[b[i].object]))
                 <=> ObjectFits(b, b[i].object, DOMAIN b[i].logSettings)
    BY <2>5, <2>7, StandsFits
  <2>8. Fit(b) <=> /\ Merges(b, N)
                   /\ \A i \in 1..N : IsFirst(b, i) =>
                        ObjectFits(b, b[i].object, DOMAIN b[i].logSettings)
    <3>1. ASSUME Fit(b), NEW i \in 1..N, IsFirst(b, i)
          PROVE  ObjectFits(b, b[i].object, DOMAIN b[i].logSettings)
      BY <3>1 DEF Fit, ObjectFits
    <3>2. ASSUME Merges(b, N), \A i \in 1..N : IsFirst(b, i) =>
                        ObjectFits(b, b[i].object, DOMAIN b[i].logSettings)
          PROVE  Fit(b)
      <4>1. \A i \in 1..N : IsFirst(b, i) => DOMAIN b[i].logSettings = Keys
        BY <3>2 DEF ObjectFits
      <4>2. \A j \in 1..N : ObjectFits(b, b[j].object, Keys)
        <5>1. ASSUME NEW j \in 1..N PROVE ObjectFits(b, b[j].object, Keys)
          <6>1. PICK i \in 1..N : b[i].object = b[j].object /\ IsFirst(b, i)
            BY <2>6
          <6>2. ObjectFits(b, b[i].object, DOMAIN b[i].logSettings)
            BY <3>2, <6>1
          <6>3. DOMAIN b[i].logSettings = Keys
            BY <4>1, <6>1
          <6> QED
            BY <6>1, <6>2, <6>3
        <5> QED
          BY <5>1
      <4> QED
        BY <3>2, <4>1, <4>2 DEF Fit, ObjectFits
    <3>3. Fit(b) => Merges(b, N)
      BY DEF Fit
    <3> QED
      BY <3>1, <3>2, <3>3
  <2>9. ok <=> Fit(b)
    <3>1. ASSUME m.ok
          PROVE  ok <=> \A i \in 1..N : IsFirst(b, i) =>
                          ObjectFits(b, b[i].object, DOMAIN b[i].logSettings)
      <4>1. ok <=> \A o \in Objects(b) :
                     ListsAreUsable(m.settings[o]) /\ _validate(Deduped(m.settings[o]))
        BY <2>5, <3>1
      <4>2. Objects(b) = {b[i].object : i \in {x \in 1..N : IsFirst(b, x)}}
        BY <2>6 DEF Objects
      <4> HIDE DEF ok
      <4> QED
        BY <2>7, <3>1, <4>1, <4>2
    <3> QED
      BY <2>4, <2>8, <3>1
  <2>10. ASSUME ok
         PROVE  Describes(b, st)
    <3>1. m.ok /\ Fit(b) /\ Merges(b, N)
      BY <2>4, <2>9, <2>10
    <3> HIDE DEF ok
    <3>2. DOMAIN st = Objects(b) /\ \A o \in Objects(b) : st[o] = Deduped(m.settings[o])
      BY <2>5, <3>1
    <3> HIDE DEF st
    <3>3. ASSUME NEW o \in Objects(b)
          PROVE  LET log == st[o].logSettings
                 IN /\ Instrumented(log) = Watch(b, o)
                    /\ \A k \in list_log_settings :
                         /\ log[k] = Null <=> AnyNull(b, N, o, k)
                         /\ log[k] # Null => /\ ToSet(log[k]) = Values(b, N, o, k)
                                             /\ IsInjective(log[k])
                    /\ \A j \in Of(b, N, o) :
                         /\ b[j].instrumentedName = st[o].instrumentedName
                         /\ b[j].logSettings["depth"] = log["depth"]
      <4>1. PICK i \in 1..N : b[i].object = o /\ IsFirst(b, i)
        BY <2>6 DEF Objects
      <4> DEFINE s == m.settings[o]
      <4>2. Stands(b, N, b[i], s) /\ ObjectFits(b, o, DOMAIN b[i].logSettings)
        BY <2>5, <2>8, <3>1, <4>1
      <4>3. Instrumented(st[o].logSettings) = Watch(b, o)
        BY <3>2, <4>1, <4>2, WatchIs
      <4> HIDE DEF s
      <4>4. /\ IsSetting(s)
            /\ s.instrumentedName = b[i].instrumentedName
            /\ DOMAIN s.logSettings = DOMAIN b[i].logSettings
            /\ \A k \in DOMAIN b[i].logSettings \ list_log_settings :
                 s.logSettings[k] = b[i].logSettings[k]
            /\ \A k \in list_log_settings :
                 /\ ToSet(s.logSettings[k]) = Values(b, N, o, k)
                 /\ s.logSettings[k] = Null <=> AnyNull(b, N, o, k)
        BY <4>1, <4>2 DEF Stands
      <4>5. s.logSettings["depth"] = b[i].logSettings["depth"]
        BY <4>4, Defaults DEF IsSetting
      <4>6. st[o] = Deduped(s)
        BY <3>2 DEF s
      <4>7. \A j \in Of(b, N, o) : /\ b[j].instrumentedName = b[i].instrumentedName
                                   /\ b[j].logSettings["depth"] = b[i].logSettings["depth"]
        BY <2>2, <3>1, <4>1, MergesAgree DEF Of
      <4>8. /\ st[o].instrumentedName = s.instrumentedName
            /\ st[o].logSettings["depth"] = s.logSettings["depth"]
            /\ \A k \in list_log_settings :
                 /\ st[o].logSettings[k] = Null <=> s.logSettings[k] = Null
                 /\ st[o].logSettings[k] # Null =>
                      /\ ToSet(st[o].logSettings[k]) = ToSet(s.logSettings[k])
                      /\ IsInjective(st[o].logSettings[k])
        BY <4>4, <4>6, DedupedIs
      <4> QED
        BY <4>3, <4>4, <4>5, <4>7, <4>8
    <3> QED
      BY <3>2, <3>3 DEF Describes
  <2> HIDE DEF ok, st
  <2>11. result.ok \in BOOLEAN /\ (result.ok <=> ok) /\ (ok => result.settings = st)
    BY <2>1
  <2> QED
    BY <1>2, <2>9, <2>10, <2>11 DEF b, result
<1> QED
  BY <1>1, <1>2

----------------------------------------------------------------------------
(* The items in another order. *)

Known(b) == \A i \in 1..Len(b) : DOMAIN b[i].logSettings = Keys

\* With known keys only, any two settings of an object have to agree.
Agree(b) ==
  \A i, j \in 1..Len(b) : i # j /\ b[i].object = b[j].object =>
    /\ b[i].instrumentedName = b[j].instrumentedName
    /\ \A k \in Keys \ list_log_settings : b[i].logSettings[k] = b[j].logSettings[k]
    /\ \A k \in list_log_settings : b[i].logSettings[k] # Null

\* With known keys, merging does not depend on which setting is first.
LEMMA MergesIsAgree ==
  ASSUME NEW b, AreSettings(b), Known(b)
  PROVE  Merges(b, Len(b)) <=> Agree(b)
<1>0. /\ Len(b) \in Nat /\ list_log_settings \subseteq Keys
      /\ \A i \in 1..Len(b) : DOMAIN b[i].logSettings = Keys
  BY Defaults DEF AreSettings, Known, Keys
<1>1. ASSUME Agree(b), NEW j \in 1..Len(b), NEW i \in 1..(j - 1),
             b[i].object = b[j].object
      PROVE  Mergeable(b[i], b[j])
  <2>1. i \in 1..Len(b) /\ i # j
    BY <1>0
  <2>2. /\ b[i].instrumentedName = b[j].instrumentedName
        /\ \A k \in Keys \ list_log_settings : b[i].logSettings[k] = b[j].logSettings[k]
        /\ \A k \in list_log_settings : b[i].logSettings[k] # Null
    BY <1>1, <2>1 DEF Agree
  <2>3. \A k \in list_log_settings : b[j].logSettings[k] # Null
    BY <1>1, <2>1 DEF Agree
  <2>4. DOMAIN b[i].logSettings = Keys /\ DOMAIN b[j].logSettings = Keys
    BY <1>0, <2>1
  <2> QED
    BY <2>2, <2>3, <2>4 DEF Mergeable, Clash
<1>2. ASSUME Merges(b, Len(b)), NEW i \in 1..Len(b), NEW j \in 1..Len(b),
             i # j, b[i].object = b[j].object
      PROVE  /\ b[i].instrumentedName = b[j].instrumentedName
             /\ \A k \in Keys \ list_log_settings :
                  b[i].logSettings[k] = b[j].logSettings[k]
             /\ \A k \in list_log_settings : b[i].logSettings[k] # Null
  <2>1. PICK f \in 1..i : b[f].object = b[i].object /\ IsFirst(b, f)
    BY <1>0, FirstOf
  <2>2. f \in 1..Len(b)
    BY <1>0
  <2>3. /\ b[i].instrumentedName = b[f].instrumentedName
        /\ b[j].instrumentedName = b[f].instrumentedName
        /\ i # f => Mergeable(b[f], b[i])
        /\ j # f => Mergeable(b[f], b[j])
    BY <1>2, <2>1, <2>2, MergesAgree
  <2>4. ASSUME NEW g \in 1..Len(b), Mergeable(b[f], b[g])
        PROVE  /\ \A k \in Keys \ list_log_settings :
                    b[f].logSettings[k] = b[g].logSettings[k]
               /\ \A k \in list_log_settings :
                    b[f].logSettings[k] # Null /\ b[g].logSettings[k] # Null
    <3>1. DOMAIN b[f].logSettings = Keys
      BY <1>0, <2>2
    <3> QED
      BY <1>0, <2>4, <3>1 DEF Mergeable, Clash
  <2> QED
    BY <1>2, <2>3, <2>4
<1>3. Agree(b) => Merges(b, Len(b))
  BY <1>1 DEF Merges
<1>4. Merges(b, Len(b)) => Agree(b)
  BY <1>2 DEF Agree
<1> QED
  BY <1>3, <1>4

\* Every setting of c has its own one in b.
IsInto(f, c, b) ==
  /\ f \in [1..Len(c) -> 1..Len(b)]
  /\ \A i, j \in 1..Len(c) : f[i] = f[j] => i = j
  /\ \A i \in 1..Len(c) : /\ c[i].object = b[f[i]].object
                          /\ c[i].instrumentedName = b[f[i]].instrumentedName
                          /\ c[i].logSettings = b[f[i]].logSettings
Into(c, b) == \E f : IsInto(f, c, b)

\* What c takes over from b when every setting of c has its own one in b.
LEMMA IntoFacts ==
  ASSUME NEW b, NEW c, Into(c, b)
  PROVE  /\ Known(b) => Known(c)
         /\ Agree(b) => Agree(c)
         /\ Objects(c) \subseteq Objects(b)
         /\ \A o, k : /\ Values(c, Len(c), o, k) \subseteq Values(b, Len(b), o, k)
                      /\ AnyNull(c, Len(c), o, k) => AnyNull(b, Len(b), o, k)
<1>1. PICK f : IsInto(f, c, b)
  BY DEF Into
<1>2. \A i \in 1..Len(c) : /\ f[i] \in 1..Len(b)
                           /\ c[i].object = b[f[i]].object
                           /\ c[i].instrumentedName = b[f[i]].instrumentedName
                           /\ c[i].logSettings = b[f[i]].logSettings
  BY <1>1 DEF IsInto
<1>3. \A i, j \in 1..Len(c) : f[i] = f[j] => i = j
  BY <1>1 DEF IsInto
<1>4. Known(b) => Known(c)
  BY <1>2 DEF Known
<1>5. Objects(c) \subseteq Objects(b)
  BY <1>2 DEF Objects
<1>6. ASSUME Agree(b), NEW i \in 1..Len(c), NEW j \in 1..Len(c),
             i # j, c[i].object = c[j].object
      PROVE  /\ c[i].instrumentedName = c[j].instrumentedName
             /\ \A k \in Keys \ list_log_settings :
                  c[i].logSettings[k] = c[j].logSettings[k]
             /\ \A k \in list_log_settings : c[i].logSettings[k] # Null
  <2>1. f[i] \in 1..Len(b) /\ f[j] \in 1..Len(b) /\ f[i] # f[j]
    BY <1>2, <1>3, <1>6
  <2>2. b[f[i]].object = b[f[j]].object
    BY <1>2, <1>6
  <2>3. /\ b[f[i]].instrumentedName = b[f[j]].instrumentedName
        /\ \A k \in Keys \ list_log_settings :
             b[f[i]].logSettings[k] = b[f[j]].logSettings[k]
        /\ \A k \in list_log_settings : b[f[i]].logSettings[k] # Null
    BY <1>6, <2>1, <2>2 DEF Agree
  <2> QED
    BY <1>2, <2>3
<1>7. Agree(b) => Agree(c)
  BY <1>6 DEF Agree
<1>8. ASSUME NEW o, NEW k
      PROVE  /\ Values(c, Len(c), o, k) \subseteq Values(b, Len(b), o, k)
             /\ AnyNull(c, Len(c), o, k) => AnyNull(b, Len(b), o, k)
  <2>1. \A i \in Of(c, Len(c), o) : /\ f[i] \in Of(b, Len(b), o)
                                    /\ c[i].logSettings = b[f[i]].logSettings
    BY <1>2 DEF Of
  <2>2. AnyNull(c, Len(c), o, k) => AnyNull(b, Len(b), o, k)
    BY <2>1 DEF AnyNull
  <2>3. ASSUME NEW v \in Values(c, Len(c), o, k)
        PROVE  v \in Values(b, Len(b), o, k)
    <3>1. PICK i \in Of(c, Len(c), o) : v \in ToSet(c[i].logSettings[k])
      BY ValueIs
    <3>2. f[i] \in Of(b, Len(b), o) /\ v \in ToSet(b[f[i]].logSettings[k])
      BY <2>1, <3>1
    <3> QED
      BY <3>2, ValueIs
  <2> QED
    BY <2>2, <2>3
<1> QED
  BY <1>4, <1>5, <1>7, <1>8

\* Settings that have their own ones in each other are cleaned alike.
LEMMA IntoBoth ==
  ASSUME NEW b, NEW c, AreSettings(b), AreSettings(c), Known(b),
         Into(c, b), Into(b, c)
  PROVE  /\ Fit(c) <=> Fit(b)
         /\ Objects(c) = Objects(b)
         /\ \A o : Watch(c, o) = Watch(b, o)
<1>1. Known(c) /\ (Agree(c) <=> Agree(b)) /\ Objects(c) = Objects(b)
  BY IntoFacts
<1>2. ASSUME NEW o, NEW k
      PROVE  /\ Values(c, Len(c), o, k) = Values(b, Len(b), o, k)
             /\ AnyNull(c, Len(c), o, k) <=> AnyNull(b, Len(b), o, k)
  <2>1. /\ Values(c, Len(c), o, k) \subseteq Values(b, Len(b), o, k)
        /\ AnyNull(c, Len(c), o, k) => AnyNull(b, Len(b), o, k)
    BY IntoFacts
  <2>2. /\ Values(b, Len(b), o, k) \subseteq Values(c, Len(c), o, k)
        /\ AnyNull(b, Len(b), o, k) => AnyNull(c, Len(c), o, k)
    BY IntoFacts
  <2> QED
    BY <2>1, <2>2
<1>3. Merges(c, Len(c)) <=> Merges(b, Len(b))
  BY <1>1, MergesIsAgree
<1>4. \A o : Watch(c, o) = Watch(b, o)
  BY <1>2 DEF Watch
<1>5. \A o : ObjectFits(c, o, Keys) <=> ObjectFits(b, o, Keys)
  BY <1>2 DEF ObjectFits
<1>6. \A x : Known(x) =>
        (Fit(x) <=> /\ Merges(x, Len(x))
                    /\ \A o \in Objects(x) : ObjectFits(x, o, Keys))
  BY DEF Fit, Known, Objects
<1>7. Fit(c) <=> Fit(b)
  BY <1>1, <1>3, <1>5, <1>6
<1> QED
  BY <1>1, <1>4, <1>7

\* A request of known keys gives settings of the known keys.
LEMMA KnownBuilt ==
  ASSUME NEW items, IsRequest(items), Valid(items), KnownKeys(items)
  PROVE  Known(Built(items))
<1> DEFINE b == Built(items)
<1>1. PICK slots : AreSlots(items, slots, Len(items))
  BY SlotsOf
<1>2. b = [m \in 1..Len(slots) |-> SlotSetting(items, slots[m])]
  BY <1>1 DEF AreSlots, Built, SameKinds
<1>3. /\ Len(slots) \in Nat /\ DOMAIN slots = 1..Len(slots)
      /\ slots \in Seq(Nat \X Nat)
  BY <1>1 DEF AreSlots
<1> HIDE DEF b
<1>4. Len(b) = Len(slots)
  BY <1>2, <1>3
<1>5. ASSUME NEW m \in 1..Len(slots)
      PROVE  DOMAIN b[m].logSettings = Keys
  <2> DEFINE x == slots[m]
  <2>1. x \in SlotsTo(items, Len(items)) /\ b[m] = SlotSetting(items, x)
    BY <1>1, <1>2, <1>3 DEF AreSlots, ToSet
  <2> HIDE DEF x
  <2>2. ASSUME NEW item, IsItem(item), item.kind \in {"api", "dict"},
               DOMAIN item.log \subseteq Keys, b[m] = _build_full_settings_object(item)
        PROVE  DOMAIN b[m].logSettings = Keys
    <3>1. DOMAIN b[m].logSettings = DOMAIN item.log \cup Keys
      BY <2>2, SettingOf DEF Keys
    <3> QED
      BY <2>2, <3>1
  <2>3. CASE x[2] = 0
    <3> DEFINE item == items[x[1]]
    <3>1. /\ x[1] \in DOMAIN items /\ item.kind \in {"api", "dict"}
          /\ b[m] = _build_full_settings_object(item)
      BY <2>1, <2>3, SlotIs
    <3>2. IsItem(item)
      BY <3>1 DEF IsRequest
    <3>3. DOMAIN item.log \subseteq Keys
      <4>1. CASE item.kind = "dict"
        BY <3>1, <4>1 DEF KnownKeys, Keys
      <4>2. CASE item.kind = "api"
        <5>1. item.log = <<>>
          BY <3>2, <4>2 DEF IsItem
        <5> QED
          BY <5>1
      <4> QED
        BY <3>1, <4>1, <4>2
    <3> HIDE DEF item
    <3> QED
      BY <2>2, <3>1, <3>2, <3>3
  <2>4. CASE x[2] # 0
    <3> DEFINE item == Collection[x[2]]
    <3>1. /\ x[2] \in 1..Len(Collection)
          /\ b[m] = _build_full_settings_object(item)
      BY <2>1, <2>4, SlotIs
    <3>2. /\ IsItem(item) /\ item.kind \in {"api", "dict"}
          /\ DOMAIN item.log \subseteq Keys
      BY <3>1, CollectionShape DEF Keys
    <3> HIDE DEF item
    <3> QED
      BY <2>2, <3>1, <3>2
  <2> QED
    BY <2>3, <2>4
<1> QED
  BY <1>4, <1>5 DEF Known, b

\* The items in the order given by `order'.
InOrder(items, order) == [i \in DOMAIN items |-> items[order[i]]]

\* A request in another order is a request.
LEMMA InOrderIs ==
  ASSUME NEW items, IsRequest(items),
         NEW order \in [1..Len(items) -> 1..Len(items)]
  PROVE  LET other == InOrder(items, order)
         IN /\ IsRequest(other) /\ Len(other) = Len(items)
            /\ \A i \in 1..Len(items) : other[i] = items[order[i]]
            /\ Valid(items) => Valid(other)
            /\ KnownKeys(items) => KnownKeys(other)
<1> DEFINE N == Len(items)
           other == InOrder(items, order)
<1>1. N \in Nat /\ DOMAIN items = 1..N
  BY RequestShape
<1>2. /\ other = [i \in 1..N |-> items[order[i]]] /\ DOMAIN other = 1..N
      /\ \A i \in 1..N : other[i] = items[order[i]] /\ order[i] \in DOMAIN items
  BY <1>1 DEF InOrder
<1>3. other \in Seq(ToSet(other)) /\ Len(other) = N
  <2>1. other = [i \in 1..N |-> other[i]]
    BY <1>2
  <2> HIDE DEF other
  <2> QED
    BY <1>1, <1>2, <2>1 DEF ToSet
<1> HIDE DEF other
<1>4. \A i \in 1..N : IsItem(other[i])
  BY <1>2 DEF IsRequest
<1>5. IsRequest(other)
  BY <1>2, <1>3, <1>4 DEF IsRequest
<1>6. Valid(items) => Valid(other)
  BY <1>2 DEF Valid
<1>7. KnownKeys(items) => KnownKeys(other)
  BY <1>2 DEF KnownKeys
<1> QED
  BY <1>2, <1>3, <1>5, <1>6, <1>7 DEF other

\* Every setting of the request in another order has its own one in the
\* settings of the request.
LEMMA InOrderInto ==
  ASSUME NEW items, IsRequest(items), Valid(items),
         NEW order \in [1..Len(items) -> 1..Len(items)],
         \A i, j \in 1..Len(items) : order[i] = order[j] => i = j
  PROVE  Into(Built(InOrder(items, order)), Built(items))
<1> DEFINE N == Len(items)
           other == InOrder(items, order)
           b == Built(items)
           c == Built(other)
<1>1. /\ IsRequest(other) /\ Valid(other) /\ Len(other) = N
      /\ \A i \in 1..N : other[i] = items[order[i]]
  BY InOrderIs
<1> HIDE DEF other
<1>2. PICK slots : AreSlots(items, slots, N)
  BY SlotsOf
<1>3. PICK places : AreSlots(other, places, N)
  BY <1>1, SlotsOf
<1>4. /\ b = [m \in 1..Len(slots) |-> SlotSetting(items, slots[m])]
      /\ c = [m \in 1..Len(places) |-> SlotSetting(other, places[m])]
  <2>1. SameKinds(items, items) /\ SameKinds(other, other)
    BY DEF SameKinds
  <2>2. b = [m \in 1..Len(slots) |-> SlotSetting(items, slots[m])]
    BY <1>2, <2>1 DEF AreSlots, Built
  <2>3. BuiltUpTo(other)[N] = [m \in 1..Len(places) |-> SlotSetting(other, places[m])]
    BY <1>3, <2>1 DEF AreSlots
  <2> QED
    BY <1>1, <2>2, <2>3 DEF Built
<1>5. /\ slots \in Seq(Nat \X Nat) /\ Len(slots) \in Nat /\ DOMAIN slots = 1..Len(slots)
      /\ places \in Seq(Nat \X Nat) /\ Len(places) \in Nat /\ DOMAIN places = 1..Len(places)
  BY <1>2, <1>3 DEF AreSlots
<1> HIDE DEF b, c
<1>6. Len(b) = Len(slots) /\ Len(c) = Len(places)
  BY <1>4, <1>5
<1>7. ASSUME NEW m \in 1..Len(places)
      PROVE  \E n \in 1..Len(slots) :
               slots[n] = <<order[places[m][1]], places[m][2]>>
  <2> DEFINE x == places[m]
             y == <<order[x[1]], x[2]>>
  <2>1. x \in SlotsTo(other, N)
    BY <1>3, <1>5 DEF AreSlots, ToSet
  <2>2. y \in SlotsTo(items, N)
    BY <1>1, <2>1 DEF SlotsTo
  <2>3. y \in ToSet(slots)
    BY <1>2, <2>2 DEF AreSlots
  <2> HIDE DEF y
  <2>4. \E n \in 1..Len(slots) : slots[n] = y
    BY <1>5, <2>3 DEF ToSet
  <2> QED
    BY <2>4 DEF y
<1> DEFINE f == [m \in 1..Len(places) |-> CHOOSE n \in 1..Len(slots) :
                   slots[n] = <<order[places[m][1]], places[m][2]>>]
<1>8. \A m \in 1..Len(places) :
        /\ f[m] \in 1..Len(slots)
        /\ slots[f[m]] = <<order[places[m][1]], places[m][2]>>
  BY <1>7
<1>9. f \in [1..Len(c) -> 1..Len(b)]
  BY <1>6, <1>8
<1> HIDE DEF f
<1>10. \A m \in 1..Len(places) : places[m] \in SlotsTo(other, N)
  BY <1>3, <1>5 DEF AreSlots, ToSet
<1>11. ASSUME NEW m \in 1..Len(places), NEW n \in 1..Len(places), f[m] = f[n]
       PROVE  m = n
  <2>1. /\ order[places[m][1]] = order[places[n][1]]
        /\ places[m][2] = places[n][2]
    <3>1. <<order[places[m][1]], places[m][2]>> = <<order[places[n][1]], places[n][2]>>
      BY <1>8, <1>11
    <3> QED
      BY <3>1
  <2>2. places[m][1] \in 1..N /\ places[n][1] \in 1..N
    BY <1>10 DEF SlotsTo
  <2>3. places[m][1] = places[n][1]
    BY <2>1, <2>2
  <2>4. places[m] = places[n]
    <3>1. places[m] \in Nat \X Nat /\ places[n] \in Nat \X Nat
      BY <1>10 DEF SlotsTo
    <3> QED
      BY <2>1, <2>3, <3>1
  <2> QED
    BY <1>3, <2>4 DEF AreSlots
<1>12. ASSUME NEW m \in 1..Len(places)
       PROVE  /\ c[m].object = b[f[m]].object
              /\ c[m].instrumentedName = b[f[m]].instrumentedName
              /\ c[m].logSettings = b[f[m]].logSettings
  <2> DEFINE x == places[m]
             y == <<order[x[1]], x[2]>>
  <2>1. c[m] = SlotSetting(other, x) /\ b[f[m]] = SlotSetting(items, y)
    BY <1>4, <1>8
  <2>2. x[1] \in 1..N /\ other[x[1]] = items[y[1]] /\ y[2] = x[2]
    BY <1>1, <1>10 DEF SlotsTo
  <2> HIDE DEF x, y
  <2> QED
    BY <2>1, <2>2 DEF SlotSetting
<1>13. IsInto(f, c, b)
  BY <1>6, <1>9, <1>11, <1>12 DEF IsInto
<1> QED
  BY <1>13 DEF Into, b, c, other

\* The order of the items makes no difference.
LEMMA AnyOrder ==
  ASSUME NEW items, IsRequest(items), KnownKeys(items),
         NEW order \in SetToSeqs(DOMAIN items)
  PROVE  LET other == InOrder(items, order)
         IN /\ IsRequest(other)
            /\ Valid(other) <=> Valid(items)
            /\ Valid(items) =>
                 /\ Fit(Built(other)) <=> Fit(Built(items))
                 /\ Objects(Built(other)) = Objects(Built(items))
                 /\ \A o : Watch(Built(other), o) = Watch(Built(items), o)
<1> DEFINE N == Len(items)
           D == 1..N
           other == InOrder(items, order)
           back == [j \in D |-> CHOOSE i \in D : order[i] = j]
<1>1. N \in Nat /\ DOMAIN items = D
  BY RequestShape
<1>2. IsFiniteSet(D) /\ Cardinality(D) = N
  <2> HIDE DEF N
  <2>1. IsFiniteSet(1..N) /\ Cardinality(1..N) = IF 1 > N THEN 0 ELSE N - 1 + 1
    BY <1>1, FS_Interval
  <2> QED
    BY <1>1, <2>1
<1>3. order \in [D -> D] /\ \A i, j \in D : order[i] = order[j] => i = j
  <2>1. order \in SetToSeqs(D)
    BY <1>1
  <2>2. /\ order \in [1..Cardinality(D) -> D]
        /\ \A i, j \in 1..Cardinality(D) : i # j => order[i] # order[j]
    BY <2>1 DEF SetToSeqs
  <2> QED
    BY <1>2, <2>2
<1>4. \A j \in D : \E i \in D : order[i] = j
  <2>1. order \in Injection(D, D)
    BY <1>3 DEF Injection, IsInjective
  <2>2. order \in Surjection(D, D)
    BY <1>2, <2>1, FS_Injection
  <2> QED
    BY <2>2 DEF Surjection
<1>5. back \in [D -> D] /\ \A j \in D : order[back[j]] = j
  BY <1>4
<1> HIDE DEF back
<1>6. \A i, j \in D : back[i] = back[j] => i = j
  BY <1>5
<1>7. /\ IsRequest(other) /\ Len(other) = N /\ DOMAIN other = D
      /\ \A i \in D : other[i] = items[order[i]]
      /\ Valid(items) => Valid(other)
      /\ KnownKeys(other)
  <2>1. /\ IsRequest(other) /\ Len(other) = N
        /\ \A i \in D : other[i] = items[order[i]]
        /\ Valid(items) => Valid(other)
        /\ KnownKeys(other)
    BY <1>3, InOrderIs
  <2> QED
    BY <2>1, RequestShape
<1>8. InOrder(other, back) = items
  <2>1. items = [i \in D |-> items[i]]
    BY <1>1 DEF IsRequest
  <2>2. InOrder(other, back) = [i \in D |-> other[back[i]]]
    BY <1>7 DEF InOrder
  <2>3. \A i \in D : other[back[i]] = items[i]
    BY <1>5, <1>7
  <2> QED
    BY <2>1, <2>2, <2>3
<1> HIDE DEF other
<1>9. Valid(other) => Valid(items)
  BY <1>5, <1>7, <1>8, InOrderIs
<1>10. ASSUME Valid(items)
       PROVE  /\ Into(Built(other), Built(items))
              /\ Into(Built(items), Built(other))
  <2>1. Into(Built(other), Built(items))
    BY <1>3, <1>10, InOrderInto DEF other
  <2>2. Valid(other)
    BY <1>7, <1>10
  <2>3. Into(Built(InOrder(other, back)), Built(other))
    BY <1>5, <1>6, <1>7, <2>2, InOrderInto
  <2> QED
    BY <1>8, <2>1, <2>3
<1>11. ASSUME Valid(items)
       PROVE  /\ Fit(Built(other)) <=> Fit(Built(items))
              /\ Objects(Built(other)) = Objects(Built(items))
              /\ \A o : Watch(Built(other), o) = Watch(Built(items), o)
  <2>1. AreSettings(Built(items)) /\ AreSettings(Built(other)) /\ Known(Built(items))
    BY <1>7, <1>11, BuiltSettings, KnownBuilt
  <2> QED
    BY <1>10, <1>11, <2>1, IntoBoth
<1> QED
  BY <1>7, <1>9, <1>11 DEF other

----------------------------------------------------------------------------
(* What was asked for, and the invariant. *)

\* What is wanted on an object is what cleaning its settings leaves.
LEMMA WantedIs ==
  ASSUME NEW b, AreSettings(b), b = Built(asked), Fit(b), NEW o \in Objects(b)
  PROVE  /\ Wanted(o) = Watch(b, o)
         /\ \A k : Given(o, k) = Values(b, Len(b), o, k)
         /\ (UNION {ToSet(l) : l \in Lists(o)}) \cap Given(o, "excludedProperties") = {}
<1> DEFINE N == Len(b)
           I == Of(b, N, o)
           P(j) == b[j].logSettings["propertiesToInstrument"]
           V == Values(b, N, o, "propertiesToInstrument")
           X == Values(b, N, o, "excludedProperties")
           listed == UNION {ToSet(l) : l \in Lists(o)}
           anyway == UNION {propertiesToInstrument(s.logSettings) : s \in AskedFor(o)}
<1>1. N \in Nat /\ DOMAIN b = 1..N /\ \A j \in 1..N : IsSetting(b[j])
  BY DEF AreSettings
<1>2. AskedFor(o) = {b[j] : j \in I}
  BY <1>1 DEF AskedFor, ToSet, Of
<1>3. \A k : Given(o, k) = Values(b, N, o, k)
  BY <1>2 DEF Given, Values
<1>4. Lists(o) = {P(j) : j \in I} \ {<<>>, Null}
  BY <1>2 DEF Lists
<1>5. \A j \in I : P(j) \in NameLists \cup {Null}
  <2>1. "propertiesToInstrument" \in list_log_settings
    BY DEF list_log_settings
  <2> QED
    BY <1>1, <2>1 DEF Of, IsSetting
<1>6. \E j \in I : TRUE
  BY DEF Objects, Of
<1>7. \A v : v \in V <=> \E j \in I : v \in ToSet(P(j))
  BY ValueIs
<1>8. CASE AnyNull(b, N, o, "propertiesToInstrument")
  <2>1. \A j \in I : P(j) = Null
    <3>1. PICK i \in 1..N : b[i].object = o /\ IsFirst(b, i)
      <4>1. PICK j \in 1..N : b[j].object = o
        BY DEF Objects
      <4>2. PICK i \in 1..j : b[i].object = b[j].object /\ IsFirst(b, i)
        BY <1>1, FirstOf
      <4>3. i \in 1..N
        BY <1>1
      <4> QED
        BY <4>1, <4>2, <4>3
    <3>2. "propertiesToInstrument" \in list_log_settings /\ Merges(b, N)
      BY DEF list_log_settings, Fit
    <3>3. P(i) = Null
      BY <1>8, <3>1, <3>2, NullIsFirst
    <3>4. ASSUME NEW j \in I
          PROVE  j = i
      <4>1. j # i => Mergeable(b[i], b[j])
        BY <3>1, <3>2, MergesAgree DEF Of
      <4>2. "propertiesToInstrument" \in DOMAIN b[i].logSettings
        BY <1>1, <3>1, <3>2, Defaults DEF IsSetting
      <4> QED
        BY <3>2, <3>3, <4>1, <4>2 DEF Mergeable, Clash
    <3> QED
      BY <3>3, <3>4
  <2>2. Lists(o) = {}
    BY <1>4, <2>1
  <2>3. anyway = {}
    <3>1. \A s \in AskedFor(o) : propertiesToInstrument(s.logSettings) = {}
      <4>1. ASSUME NEW s \in AskedFor(o)
            PROVE  s.logSettings.propertiesToInstrument = Null
        BY <1>2, <2>1
      <4>2. <<>> # Null
        BY Defaults
      <4> QED
        BY <4>1, <4>2 DEF propertiesToInstrument
    <3> QED
      BY <3>1
  <2>4. listed = {}
    BY <2>2
  <2>5. Wanted(o) = {}
    BY <2>2, <2>3 DEF Wanted
  <2>6. Watch(b, o) = {}
    BY <1>8 DEF Watch
  <2> QED
    BY <1>3, <2>4, <2>5, <2>6
<1>9. CASE ~AnyNull(b, N, o, "propertiesToInstrument")
  <2>1. \A j \in I : P(j) \in NameLists /\ P(j) # Null
    BY <1>5, <1>9 DEF AnyNull
  <2>2. \A l \in NameLists : ToSet(l) = {} <=> l = <<>>
    <3>1. ASSUME NEW l \in NameLists, l # <<>>
          PROVE  ToSet(l) # {}
      <4>1. 1 \in DOMAIN l
        BY <3>1 DEF NameLists
      <4> QED
        BY <4>1 DEF ToSet
    <3>2. ToSet(<<>>) = {}
      BY DEF ToSet
    <3> QED
      BY <3>1, <3>2
  <2> HIDE DEF P
  <2>3. listed = V
    <3>1. ASSUME NEW v \in V PROVE v \in listed
      <4>1. PICK j \in I : v \in ToSet(P(j))
        BY <1>7
      <4>2. P(j) \in Lists(o)
        BY <1>4, <2>1, <2>2, <4>1
      <4> QED
        BY <4>1, <4>2
    <3>2. ASSUME NEW v \in listed PROVE v \in V
      <4>1. PICK l \in Lists(o) : v \in ToSet(l)
        OBVIOUS
      <4>2. PICK j \in I : l = P(j)
        BY <1>4
      <4> QED
        BY <1>7, <4>1, <4>2
    <3> QED
      BY <3>1, <3>2
  <2>4. Lists(o) = {} <=> V = {}
    <3>1. Lists(o) # {} => V # {}
      <4>1. ASSUME NEW l \in Lists(o) PROVE V # {}
        <5>1. PICK j \in I : l = P(j) /\ l # <<>>
          BY <1>4
        <5>2. \E v : v \in ToSet(P(j))
          BY <2>1, <2>2, <5>1
        <5> QED
          BY <1>7, <5>2
      <4> QED
        BY <4>1
    <3>2. Lists(o) = {} => listed = {}
      OBVIOUS
    <3> QED
      BY <2>3, <3>1, <3>2
  <2>5. ASSUME Lists(o) = {}
        PROVE  anyway = Props
    <3>1. \A j \in I : P(j) = <<>>
      BY <1>4, <2>1, <2>5
    <3>2. ASSUME NEW s \in AskedFor(o)
          PROVE  propertiesToInstrument(s.logSettings) = Props
      <4>1. s.logSettings.propertiesToInstrument = <<>>
        BY <1>2, <3>1 DEF P
      <4>2. <<>> # Null
        BY Defaults
      <4> QED
        BY <4>1, <4>2 DEF propertiesToInstrument
    <3>3. PICK s : s \in AskedFor(o)
      BY <1>2, <1>6
    <3>4. {propertiesToInstrument(s2.logSettings) : s2 \in AskedFor(o)} = {Props}
      BY <3>2, <3>3
    <3> QED
      BY <3>4
  <2> HIDE DEF V, X, listed, anyway
  <2>6. Wanted(o) = (IF Lists(o) # {} THEN listed ELSE anyway) \ X
    BY <1>3 DEF Wanted, listed, anyway, X
  <2>7. Watch(b, o) = (IF V = {} THEN Props ELSE V) \ X
    BY <1>9 DEF Watch, V, X
  <2>8. Wanted(o) = Watch(b, o)
    BY <2>3, <2>4, <2>5, <2>6, <2>7
  <2>9. V \cap X = {}
    <3>1. PICK i \in 1..N : b[i].object = o
      BY DEF Objects
    <3>2. ~AnyNull(b, N, b[i].object, "propertiesToInstrument") =>
            Values(b, N, b[i].object, "propertiesToInstrument")
              \cap Values(b, N, b[i].object, "excludedProperties") = {}
      BY DEF Fit, ObjectFits
    <3> QED
      BY <1>9, <3>1, <3>2 DEF V, X
  <2>10. listed \cap Given(o, "excludedProperties") = {}
    BY <1>3, <2>3, <2>9 DEF X
  <2> QED
    BY <1>3, <2>8, <2>10 DEF listed
<1> QED
  BY <1>8, <1>9

\* Settings that are described by what was asked are as asked.
LEMMA DescribesIsAsAsked ==
  ASSUME NEW settings, IsRequest(asked), Valid(asked), Fit(Built(asked)),
         Describes(Built(asked), settings)
  PROVE  AsAsked(settings) /\ NoContradiction(settings) /\ OnceEach(settings)
<1> DEFINE b == Built(asked)
           N == Len(b)
<1>1. AreSettings(b)
  BY BuiltSettings
<1> HIDE DEF b
<1>2. ToSet(b) = {b[j] : j \in 1..N} /\ {s.object : s \in ToSet(b)} = Objects(b)
  BY <1>1 DEF AreSettings, ToSet, Objects
<1>3. DOMAIN settings = Objects(b)
  BY DEF Describes, b
<1>4. ASSUME NEW o \in Objects(b)
      PROVE  /\ Instrumented(settings[o].logSettings) = Wanted(o)
             /\ ToSet(settings[o].logSettings.nonExistingPropertiesToInstrument)
                  = Given(o, "nonExistingPropertiesToInstrument")
             /\ \A s \in AskedFor(o) : /\ s.instrumentedName = settings[o].instrumentedName
                                       /\ s.logSettings.depth = settings[o].logSettings.depth
             /\ (UNION {ToSet(l) : l \in Lists(o)}) \cap Given(o, "excludedProperties") = {}
             /\ \A k \in list_log_settings :
                  settings[o].logSettings[k] # Null => IsInjective(settings[o].logSettings[k])
  <2> DEFINE log == settings[o].logSettings
             non == "nonExistingPropertiesToInstrument"
  <2>1. /\ Instrumented(log) = Watch(b, o)
        /\ \A k \in list_log_settings :
             /\ log[k] = Null <=> AnyNull(b, N, o, k)
             /\ log[k] # Null => ToSet(log[k]) = Values(b, N, o, k) /\ IsInjective(log[k])
        /\ \A j \in Of(b, N, o) :
             /\ b[j].instrumentedName = settings[o].instrumentedName
             /\ b[j].logSettings["depth"] = log["depth"]
    BY DEF Describes, b
  <2>2. /\ Wanted(o) = Watch(b, o)
        /\ \A k : Given(o, k) = Values(b, N, o, k)
        /\ (UNION {ToSet(l) : l \in Lists(o)}) \cap Given(o, "excludedProperties") = {}
    BY <1>1, WantedIs DEF b
  <2>3. non \in list_log_settings \ {"propertiesToInstrument"}
    BY DEF list_log_settings
  <2>4. ~AnyNull(b, N, o, non)
    BY <2>3 DEF Fit, ObjectFits, Objects, b
  <2>5. AskedFor(o) = {b[j] : j \in Of(b, N, o)}
    BY <1>2 DEF AskedFor, Of, b
  <2> HIDE DEF log
  <2>6. ToSet(log[non]) = Given(o, non)
    BY <2>1, <2>2, <2>3, <2>4
  <2>7. \A s \in AskedFor(o) : /\ s.instrumentedName = settings[o].instrumentedName
                               /\ s.logSettings["depth"] = log["depth"]
    BY <2>1, <2>5
  <2> QED
    BY <2>1, <2>2, <2>6, <2>7 DEF log
<1>5. AsAsked(settings)
  BY <1>2, <1>3, <1>4 DEF AsAsked, b
<1>6. NoContradiction(settings) /\ OnceEach(settings)
  BY <1>3, <1>4 DEF NoContradiction, OnceEach
<1> QED
  BY <1>5, <1>6

\* What was cleaned is the request, which stays as it is.
SettingsInv ==
  /\ asked \in Requests
  /\ \A i \in DOMAIN cleaned : cleaned[i] = clean_js_instrumentation_settings(asked)

\* The requests of the model are requests.
LEMMA RequestsAre == \A items \in Requests : IsRequest(items)
BY RequestsAssumption DEF IsRequest

\* The invariant holds before cleaning.
LEMMA InitSettings == Init => SettingsInv
BY DEF Init, SettingsInv

\* Cleaning keeps the invariant.
LEMMA NextSettings == SettingsInv /\ [Next]_vars => SettingsInv'
<1> SUFFICES ASSUME SettingsInv, [Next]_vars
             PROVE  SettingsInv'
  OBVIOUS
<1> DEFINE r == clean_js_instrumentation_settings(asked)
<1>1. CASE CleanNext
  <2>1. asked' = asked /\ cleaned' = <<r>>
    BY <1>1 DEF CleanNext
  <2>2. clean_js_instrumentation_settings(asked') = r
    BY <2>1
  <2> HIDE DEF r
  <2> QED
    BY <2>1, <2>2 DEF SettingsInv
<1>2. CASE UNCHANGED vars
  <2>1. asked' = asked /\ cleaned' = cleaned
    BY <1>2 DEF vars
  <2>2. clean_js_instrumentation_settings(asked') = r
    BY <2>1
  <2> HIDE DEF r
  <2> QED
    BY <2>1, <2>2 DEF SettingsInv, r
<1> QED
  BY <1>1, <1>2 DEF Next

\* The invariant says what is wanted of cleaning.
LEMMA SettingsInvIsAsAsked == SettingsInv => CleanedAsAsked
<1> SUFFICES ASSUME SettingsInv, NEW b \in DOMAIN cleaned
             PROVE  /\ cleaned[b].ok => /\ AsAsked(cleaned[b].settings)
                                        /\ NoContradiction(cleaned[b].settings)
                                        /\ OnceEach(cleaned[b].settings)
                    /\ KnownKeys(asked) => SameInAnyOrder(cleaned[b])
  BY DEF CleanedAsAsked
<1> DEFINE a == Built(asked)
           r == cleaned[b]
<1>1. IsRequest(asked)
  BY RequestsAre DEF SettingsInv
<1>2. /\ r.ok \in BOOLEAN /\ (r.ok <=> Valid(asked) /\ Fit(a))
      /\ r.ok => Describes(a, r.settings)
  <2>1. r = clean_js_instrumentation_settings(asked)
    BY DEF SettingsInv
  <2> HIDE DEF r
  <2> QED
    BY <1>1, <2>1, CleanIs
<1>3. r.ok => AsAsked(r.settings) /\ NoContradiction(r.settings) /\ OnceEach(r.settings)
  BY <1>1, <1>2, DescribesIsAsAsked
<1>4. ASSUME KnownKeys(asked), NEW order \in SetToSeqs(DOMAIN asked)
      PROVE  LET other == clean_js_instrumentation_settings(
                            [i \in DOMAIN asked |-> asked[order[i]]])
             IN /\ other.ok = r.ok
                /\ r.ok => Watched(other) = Watched(r)
  <2> DEFINE items == InOrder(asked, order)
             other == clean_js_instrumentation_settings(items)
             c == Built(items)
  <2>1. /\ IsRequest(items) /\ (Valid(items) <=> Valid(asked))
        /\ Valid(asked) => /\ Fit(c) <=> Fit(a)
                           /\ Objects(c) = Objects(a)
                           /\ \A o : Watch(c, o) = Watch(a, o)
    BY <1>1, <1>4, AnyOrder
  <2>2. /\ other.ok \in BOOLEAN /\ (other.ok <=> Valid(items) /\ Fit(c))
        /\ other.ok => Describes(c, other.settings)
    BY <2>1, CleanIs
  <2> HIDE DEF a, c, r, other
  <2>3. other.ok = r.ok
    BY <1>2, <2>1, <2>2
  <2>4. ASSUME r.ok
        PROVE  Watched(other) = Watched(r)
    <3>1. /\ DOMAIN r.settings = Objects(a)
          /\ \A o \in Objects(a) : Instrumented(r.settings[o].logSettings) = Watch(a, o)
      BY <1>2, <2>4 DEF Describes
    <3>2. /\ DOMAIN other.settings = Objects(c)
          /\ \A o \in Objects(c) : Instrumented(other.settings[o].logSettings) = Watch(c, o)
      BY <2>2, <2>3, <2>4 DEF Describes
    <3>3. Objects(c) = Objects(a) /\ \A o : Watch(c, o) = Watch(a, o)
      BY <1>2, <2>1, <2>4
    <3> QED
      BY <3>1, <3>2, <3>3 DEF Watched
  <2> QED
    BY <2>3, <2>4 DEF InOrder, other, r
<1>5. KnownKeys(asked) => SameInAnyOrder(r)
  BY <1>4 DEF SameInAnyOrder
<1> QED
  BY <1>3, <1>5

\* The settings a browser is given watch what was asked for, no property twice
\* and none that is excluded, and do not depend on the order of the items, for
\* requests and lists of any length (clean_js_instrumentation_settings,
\* _merge_settings).
THEOREM AlwaysCleanedAsAsked == Spec => []CleanedAsAsked
<1>1. Init => SettingsInv
  BY InitSettings
<1>2. SettingsInv /\ [Next]_vars => SettingsInv'
  BY NextSettings
<1>3. SettingsInv => CleanedAsAsked
  BY SettingsInvIsAsAsked
<1> QED
  BY <1>1, <1>2, <1>3, PTL DEF Spec
=============================================================================
