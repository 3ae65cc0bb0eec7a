------------------------- MODULE DisplayHintsProofs -------------------------
(***************************************************************************)
(* Proofs about DisplayHints, for any number of slots, keys and sizes.     *)
(* The table is searched for a key without regard to `present', so what    *)
(* has to be shown is that a present slot never has a stale slot of the    *)
(* same key before it.  The same fact makes the present slots no more than *)
(* their keys, which is why there is room for the displays of a list.      *)
(***************************************************************************)
EXTENDS DisplayHints, FiniteSetTheorems, TLAPS

\* A present slot is the first with its key, whatever released slots still
\* hold: reuse of the first free slot and stale keys do not get in its way.
FirstOfItsKey ==
    \A i \in Slots : hints[i].present =>
        \A j \in Slots : j < i => hints[j].key # hints[i].key

HintInv == TypeOK /\ FirstOfItsKey

\* A non-empty set of slots has a lowest element: the one whose interval
\* 1 .. m is minimal among the (finite) sets of slots.
LEMMA LowestSlot ==
  ASSUME NEW S \in SUBSET Slots, S # {}
  PROVE  Lowest(S) \in S /\ \A j \in S : Lowest(S) <= j
  <1> DEFINE Upto == {1 .. m : m \in S}
  <1>1. IsFiniteSet(Slots)
    BY FS_Interval, HintsAssumption DEF Slots
  <1>2. IsWellFoundedOn(StrictSubsetOrdering(Slots), SUBSET Slots)
    BY <1>1, FS_FiniteSubsetsOfFinite, FS_StrictSubsetOrderingWellFounded
  <1>3. N \in Nat /\ \A m \in S : m \in Nat /\ 1 <= m /\ m <= N
    BY HintsAssumption DEF Slots
  <1>4. \A m \in S : 1 .. m \subseteq Slots
    BY <1>3 DEF Slots
  <1>5. Upto \subseteq SUBSET Slots /\ Upto # {}
    BY <1>4
  <1>6. PICK I \in Upto : \A J \in Upto : ~(<<J, I>> \in StrictSubsetOrdering(Slots))
    BY <1>2, <1>5, WFMin
  <1>7. PICK m \in S : I = 1 .. m
    BY <1>6
  <1>8. \A j \in S : m <= j
    <2> SUFFICES ASSUME NEW j \in S, j < m PROVE FALSE
      BY <1>3
    <2>1. 1 .. j \subseteq 1 .. m /\ m \in 1 .. m /\ m \notin 1 .. j
      BY <1>3
    <2>2. 1 .. j \in Upto /\ 1 .. j \in SUBSET Slots /\ 1 .. m \in SUBSET Slots
      BY <1>4, <1>5
    <2>3. <<1 .. j, 1 .. m>> \in StrictSubsetOrdering(Slots)
      BY <2>1, <2>2 DEF StrictSubsetOrdering
    <2> QED
      BY <1>6, <1>7, <2>2, <2>3
  <1> QED
    BY <1>8 DEF Lowest

-----------------------------------------------------------------------------
\* Storing a display in a slot, and releasing slots, keep the table's type.
LEMMA StoreType ==
  ASSUME NEW h \in [Slots -> Hints], NEW i \in Slots, NEW d \in Displays
  PROVE  Store(h, i, d) \in [Slots -> Hints]
  BY DEF Store, Hints, Displays, BufferType, BufferTypes

LEMMA ReleaseType ==
  ASSUME NEW h \in [Slots -> Hints], NEW slots
  PROVE  Release(h, slots) \in [Slots -> Hints]
  BY DEF Release, Hints

\* What SetHint does to a table: it stores in the lowest slot that holds the
\* key, or else in the lowest free one, or changes nothing.
LEMMA SetHintCases ==
  ASSUME NEW h \in [Slots -> Hints], NEW d \in Displays
  PROVE  \/ \E i \in Slots : /\ h[i].present /\ h[i].key = d.key
                             /\ SetHint(h, d) = Store(h, i, d)
         \/ \E i \in Slots : /\ Holds(h, d.key) = {}
                             /\ ~h[i].present
                             /\ \A j \in Slots : j < i => h[j].present
                             /\ SetHint(h, d) = Store(h, i, d)
         \/ SetHint(h, d) = h
  <1>1. CASE Holds(h, d.key) # {}
    <2>1. Holds(h, d.key) \in SUBSET Slots
      BY DEF Holds
    <2>2. Lowest(Holds(h, d.key)) \in Holds(h, d.key)
      BY <1>1, <2>1, LowestSlot
    <2> QED
      BY <1>1, <2>2 DEF SetHint, Holds
  <1>2. CASE Holds(h, d.key) = {} /\ Free(h) # {}
    <2> DEFINE f == Lowest(Free(h))
    <2>1. Free(h) \in SUBSET Slots
      BY DEF Free
    <2>2. f \in Free(h) /\ \A j \in Free(h) : f <= j
      BY <1>2, <2>1, LowestSlot
    <2>3. SetHint(h, d) = Store(h, f, d)
      BY <1>2 DEF SetHint
    <2> HIDE DEF f
    <2>4. f \in Slots /\ ~h[f].present
      BY <2>2 DEF Free
    <2>5. ASSUME NEW j \in Slots, j < f PROVE h[j].present
      <3>1. ~(f <= j)
        BY <2>4, <2>5, HintsAssumption DEF Slots
      <3> QED
        BY <2>2, <3>1 DEF Free
    <2> QED
      BY <1>2, <2>3, <2>4, <2>5
  <1>3. CASE Holds(h, d.key) = {} /\ Free(h) = {}
    BY <1>3 DEF SetHint
  <1> QED
    BY <1>1, <1>2, <1>3

LEMMA SetHintType ==
  ASSUME NEW h \in [Slots -> Hints], NEW d \in Displays
  PROVE  SetHint(h, d) \in [Slots -> Hints]
  BY SetHintCases, StoreType

\* The host's lists are sequences of displays.
LEMMA ListsType == Lists \subseteq Seq(Displays)
  BY HintsAssumption DEF Lists

\* Every step preserves the type of the state.
LEMMA TypeStep == TypeOK /\ [Next]_vars => TypeOK'
  <1> SUFFICES ASSUME TypeOK, [Next]_vars PROVE TypeOK'
    OBVIOUS
  <1> USE DEF TypeOK
  <1>1. ASSUME NEW ds \in Lists, HostDisplaysChanged(ds) PROVE TypeOK'
    <2>1. hints' \in [Slots -> Hints]
      BY <1>1, ReleaseType DEF HostDisplaysChanged
    <2>2. list' \in Seq(Displays)
      BY <1>1, ListsType DEF HostDisplaysChanged
    <2> QED
      BY <1>1, <2>1, <2>2 DEF HostDisplaysChanged
  <1>2. CASE SetDisplayHint
    <2>1. Head(list) \in Displays /\ Tail(list) \in Seq(Displays)
      BY <1>2 DEF SetDisplayHint
    <2>2. hints' \in [Slots -> Hints]
      BY <1>2, <2>1, SetHintType DEF SetDisplayHint
    <2>3. full' \in BOOLEAN
      BY <1>2 DEF SetDisplayHint
    <2> QED
      BY <1>2, <2>1, <2>2, <2>3 DEF SetDisplayHint
  <1>3. CASE RefuseHint
    BY <1>3 DEF RefuseHint
  <1>4. CASE DestroyHints
    <2>1. hints' \in [Slots -> Hints]
      BY <1>4, ReleaseType DEF DestroyHints
    <2> QED
      BY <1>4, <2>1 DEF DestroyHints
  <1>5. CASE InitPVChildren
    BY <1>5 DEF InitPVChildren
  <1>6. CASE UNCHANGED vars
    BY <1>6 DEF vars
  <1> HIDE DEF TypeOK
  <1> QED
    BY <1>1, <1>2, <1>3, <1>4, <1>5, <1>6 DEF Next

\* Releasing slots leaves present slots first of their key: it changes no key
\* and makes no slot present.
LEMMA ReleaseKeepsFirst ==
  ASSUME TypeOK, FirstOfItsKey, NEW slots, hints' = Release(hints, slots)
  PROVE  FirstOfItsKey'
  <1>1. \A i \in Slots : /\ hints'[i].key = hints[i].key
                         /\ hints'[i].present => hints[i].present
    BY DEF Release, TypeOK, Hints
  <1> QED
    BY <1>1 DEF FirstOfItsKey

\* Storing a display does so too.  A slot that held the key already keeps its
\* place.  A free slot has only present slots before it, and none of them holds
\* the key; and no present slot behind it does.
LEMMA StoreKeepsFirst ==
  ASSUME TypeOK, FirstOfItsKey, NEW d \in Displays, hints' = SetHint(hints, d)
  PROVE  FirstOfItsKey'
  <1> USE DEF TypeOK
  <1>1. ASSUME NEW i \in Slots, hints' = Store(hints, i, d)
        PROVE  /\ hints'[i].present /\ hints'[i].key = d.key
               /\ \A j \in Slots : j # i => hints'[j] = hints[j]
    BY <1>1 DEF Store
  <1>2. ASSUME NEW i \in Slots, hints[i].present, hints[i].key = d.key,
               hints' = Store(hints, i, d)
        PROVE  FirstOfItsKey'
    <2>1. \A j \in Slots : /\ hints'[j].key = hints[j].key
                           /\ hints'[j].present => hints[j].present
      BY <1>1, <1>2
    <2> QED
      BY <2>1 DEF FirstOfItsKey
  <1>3. ASSUME NEW i \in Slots, Holds(hints, d.key) = {}, ~hints[i].present,
               \A j \in Slots : j < i => hints[j].present,
               hints' = Store(hints, i, d)
        PROVE  FirstOfItsKey'
    <2> SUFFICES ASSUME NEW p \in Slots, hints'[p].present, NEW q \in Slots, q < p
                 PROVE  hints'[q].key # hints'[p].key
      BY DEF FirstOfItsKey
    <2>1. \A j \in Slots : hints[j].present => hints[j].key # d.key
      BY <1>3 DEF Holds
    <2>2. q # p
      BY HintsAssumption DEF Slots
    <2>3. CASE p = i
      BY <1>1, <1>3, <2>1, <2>2, <2>3
    <2>4. CASE p # i /\ q = i
      BY <1>1, <1>3, <2>1, <2>4
    <2>5. CASE p # i /\ q # i
      BY <1>1, <1>3, <2>5 DEF FirstOfItsKey
    <2> QED
      BY <2>3, <2>4, <2>5
  <1>4. CASE hints' = hints
    BY <1>4 DEF FirstOfItsKey
  <1> QED
    BY <1>2, <1>3, <1>4, SetHintCases

\* The invariant is inductive.
LEMMA HintInvHolds == Spec => []HintInv
  <1>1. Init => HintInv
    <2> SUFFICES ASSUME Init PROVE HintInv
      OBVIOUS
    <2>1. TypeOK
      <3>1. NoHint \in Hints
        BY DEF NoHint, Hints, BufferTypes
      <3>2. hints \in [Slots -> Hints]
        BY <3>1 DEF Init
      <3>3. list \in Seq(Displays)
        BY DEF Init
      <3> QED
        BY <3>2, <3>3 DEF Init, TypeOK
    <2>2. FirstOfItsKey
      BY DEF Init, NoHint, FirstOfItsKey
    <2> QED
      BY <2>1, <2>2 DEF HintInv
  <1>2. HintInv /\ [Next]_vars => HintInv'
    <2> SUFFICES ASSUME HintInv, [Next]_vars PROVE FirstOfItsKey'
      BY TypeStep DEF HintInv
    <2> USE DEF HintInv
    <2>1. ASSUME NEW ds \in Lists, HostDisplaysChanged(ds) PROVE FirstOfItsKey'
      BY <2>1, ReleaseKeepsFirst DEF HostDisplaysChanged
    <2>2. CASE SetDisplayHint
      <3>1. Head(list) \in Displays
        BY <2>2 DEF SetDisplayHint, TypeOK
      <3> QED
        BY <2>2, <3>1, StoreKeepsFirst DEF SetDisplayHint
    <2>3. CASE DestroyHints
      BY <2>3, ReleaseKeepsFirst DEF DestroyHints
    <2>4. CASE RefuseHint \/ InitPVChildren \/ UNCHANGED vars
      BY <2>4 DEF RefuseHint, InitPVChildren, vars, FirstOfItsKey
    <2> QED
      BY <2>1, <2>2, <2>3, <2>4 DEF Next
  <1> QED
    BY <1>1, <1>2, PTL DEF Spec

\* The type of the table is kept for any number of slots, keys and sizes.
THEOREM TypeCorrect == Spec => []TypeOK
  BY HintInvHolds, PTL DEF HintInv

-----------------------------------------------------------------------------
\* A key that no slot before a present one holds is found in that slot.
LEMMA LookupFirst ==
  ASSUME HintInv, NEW i \in Slots, hints[i].present
  PROVE  RecommendedSize(hints, hints[i].key) = hints[i].size
  <1> DEFINE of == {j \in Slots : hints[j].key = hints[i].key}
  <1>1. of \in SUBSET Slots /\ i \in of
    OBVIOUS
  <1>2. Lowest(of) \in of /\ \A j \in of : Lowest(of) <= j
    BY <1>1, LowestSlot
  <1>3. ~(Lowest(of) < i)
    BY <1>2 DEF HintInv, FirstOfItsKey
  <1>4. Lowest(of) = i
    <2> HIDE DEF of
    <2>1. Lowest(of) \in Slots /\ Lowest(of) <= i
      BY <1>1, <1>2
    <2> QED
      BY <1>3, <2>1, HintsAssumption DEF Slots
  <1> QED
    BY <1>1, <1>4 DEF RecommendedSize

\* Although dp_get_recommended_size looks at released slots too, it returns
\* the current size of every key that has a hint.
THEOREM LookupCorrect == Spec => []LookupIsCurrent
  <1>1. HintInv => LookupIsCurrent
    BY LookupFirst DEF LookupIsCurrent
  <1> QED
    BY <1>1, HintInvHolds, PTL

-----------------------------------------------------------------------------
\* A table whose present slots are first of their key has at most one present
\* slot for each, so the size desired for a key is that slot's.
LEMMA DesiredOfPresent ==
  ASSUME HintInv, NEW i \in Slots, hints[i].present, hints[i].key \in Keys
  PROVE  DesiredSize[hints[i].key] = hints[i].size
  <1> DEFINE H == Holds(hints, hints[i].key)
  <1>1. H \in SUBSET Slots /\ i \in H
    BY DEF Holds
  <1>2. \A j \in H : j = i
    <2> SUFFICES ASSUME NEW j \in H, j # i PROVE FALSE
      OBVIOUS
    <2>1. j \in Slots /\ hints[j].present /\ hints[j].key = hints[i].key
      BY DEF Holds
    <2>2. j < i \/ i < j
      BY <2>1, HintsAssumption DEF Slots
    <2> QED
      BY <2>1, <2>2 DEF HintInv, FirstOfItsKey
  <1>3. Lowest(H) = i
    BY <1>1, <1>2, LowestSlot
  <1> QED
    BY <1>1, <1>3 DEF DesiredSize

LEMMA DesiredOfAbsent ==
  ASSUME NEW k \in Keys, \A i \in Slots : ~(hints[i].present /\ hints[i].key = k)
  PROVE  DesiredSize[k] = NoSize
  BY DEF DesiredSize, Holds

\* The two lemmas again, for the next state.
LEMMA DesiredOfPresentNext ==
  ASSUME HintInv', NEW i \in Slots, hints'[i].present, hints'[i].key \in Keys
  PROVE  DesiredSize'[hints'[i].key] = hints'[i].size
  <1> DEFINE H == {j \in Slots : hints'[j].present /\ hints'[j].key = hints'[i].key}
  <1>1. H \in SUBSET Slots /\ i \in H
    OBVIOUS
  <1>2. \A j \in H : j = i
    <2> SUFFICES ASSUME NEW j \in H, j # i PROVE FALSE
      OBVIOUS
    <2>1. j < i \/ i < j
      BY HintsAssumption DEF Slots
    <2> QED
      BY <2>1 DEF HintInv, FirstOfItsKey
  <1>3. Lowest(H) = i
    BY <1>1, <1>2, LowestSlot
  <1> QED
    BY <1>1, <1>3 DEF DesiredSize, Holds

LEMMA DesiredOfAbsentNext ==
  ASSUME NEW k \in Keys, \A i \in Slots : ~(hints'[i].present /\ hints'[i].key = k)
  PROVE  DesiredSize'[k] = NoSize
  BY DEF DesiredSize, Holds

\* Releasing slots withdraws the keys of those that were present.
LEMMA ReleaseWithdraws ==
  ASSUME HintInv, HintInv', NEW slots, hints' = Release(hints, slots)
  PROVE  \E gone \in SUBSET Keys : Map!Withdraw(gone)
  <1> DEFINE gone == {k \in Keys : \E i \in Slots :
                          i \in slots /\ hints[i].present /\ hints[i].key = k}
  <1>1. \A i \in Slots : /\ hints'[i].key = hints[i].key
                         /\ hints'[i].size = hints[i].size
                         /\ hints'[i].present <=> hints[i].present /\ i \notin slots
    BY DEF Release, HintInv, TypeOK, Hints
  <1>2. ASSUME NEW k \in Keys
        PROVE  DesiredSize'[k] = IF k \in gone THEN NoSize ELSE DesiredSize[k]
    <2>1. CASE \A i \in Slots : ~(hints[i].present /\ hints[i].key = k)
      <3>1. \A i \in Slots : ~(hints'[i].present /\ hints'[i].key = k)
        BY <1>1, <2>1
      <3>2. DesiredSize[k] = NoSize
        BY <2>1, DesiredOfAbsent
      <3>3. DesiredSize'[k] = NoSize
        BY <3>1, DesiredOfAbsentNext
      <3> QED
        BY <3>2, <3>3
    <2>2. ASSUME NEW i \in Slots, hints[i].present, hints[i].key = k
          PROVE  DesiredSize'[k] = IF k \in gone THEN NoSize ELSE DesiredSize[k]
      <3>1. \A j \in Slots : hints[j].present /\ hints[j].key = k => j = i
        <4> SUFFICES ASSUME NEW j \in Slots, hints[j].present, hints[j].key = k, j # i
                     PROVE FALSE
          OBVIOUS
        <4>1. j < i \/ i < j
          BY HintsAssumption DEF Slots
        <4> QED
          BY <2>2, <4>1 DEF HintInv, FirstOfItsKey
      <3>2. CASE i \in slots
        <4>1. k \in gone
          BY <2>2, <3>2
        <4>2. \A j \in Slots : ~(hints'[j].present /\ hints'[j].key = k)
          BY <1>1, <3>1, <3>2
        <4> QED
          BY <4>1, <4>2, DesiredOfAbsentNext
      <3>3. CASE i \notin slots
        <4>1. k \notin gone
          BY <3>1, <3>3
        <4>2. hints'[i].present /\ hints'[i].key = k /\ hints'[i].size = hints[i].size
          BY <1>1, <2>2, <3>3
        <4>3. DesiredSize'[k] = hints[i].size
          BY <4>2, DesiredOfPresentNext
        <4>4. DesiredSize[k] = hints[i].size
          BY <2>2, DesiredOfPresent
        <4> QED
          BY <4>1, <4>3, <4>4
      <3> QED
        BY <3>2, <3>3
    <2> QED
      BY <2>1, <2>2
  <1> HIDE DEF gone
  <1>3. DesiredSize' = [k \in Keys |-> IF k \in gone THEN NoSize ELSE DesiredSize[k]]
    BY <1>2 DEF DesiredSize
  <1>4. gone \in SUBSET Keys
    BY DEF gone
  <1> QED
    BY <1>3, <1>4 DEF Map!Withdraw

\* Storing a display in a slot of its own sets the size of its key.
LEMMA StorePuts ==
  ASSUME HintInv, HintInv', NEW d \in Displays, NEW i \in Slots,
         hints' = Store(hints, i, d),
         hints[i].present => hints[i].key = d.key
  PROVE  Map!Put(d.key, d.size)
  <1> USE DEF Displays
  <1>1. /\ hints'[i].present /\ hints'[i].key = d.key /\ hints'[i].size = d.size
        /\ \A j \in Slots : j # i => hints'[j] = hints[j]
    BY DEF Store, HintInv, TypeOK
  <1>2. DesiredSize'[d.key] = d.size
    BY <1>1, DesiredOfPresentNext
  <1>3. ASSUME NEW k \in Keys, k # d.key PROVE DesiredSize'[k] = DesiredSize[k]
    <2>1. \A j \in Slots : hints'[j].present /\ hints'[j].key = k <=>
                           hints[j].present /\ hints[j].key = k
      BY <1>1, <1>3
    <2>2. CASE \A j \in Slots : ~(hints[j].present /\ hints[j].key = k)
      BY <2>1, <2>2, DesiredOfAbsent, DesiredOfAbsentNext
    <2>3. ASSUME NEW j \in Slots, hints[j].present, hints[j].key = k
          PROVE  DesiredSize'[k] = DesiredSize[k]
      <3>1. hints'[j] = hints[j]
        BY <1>1, <1>3, <2>3
      <3>2. DesiredSize[k] = hints[j].size
        BY <2>3, DesiredOfPresent
      <3>3. DesiredSize'[k] = hints[j].size
        BY <2>3, <3>1, DesiredOfPresentNext
      <3> QED
        BY <3>2, <3>3
    <2> QED
      BY <2>2, <2>3
  <1>4. DesiredSize' = [DesiredSize EXCEPT ![d.key] = d.size]
    BY <1>2, <1>3 DEF DesiredSize
  <1> QED
    BY <1>4 DEF Map!Put

\* Every step is one of the map's, or leaves the map as it is.
LEMMA MapStep ==
  ASSUME HintInv, HintInv', [Next]_vars
  PROVE  [Map!Next]_DesiredSize
  <1>1. ASSUME NEW slots, hints' = Release(hints, slots) PROVE [Map!Next]_DesiredSize
    BY <1>1, ReleaseWithdraws DEF Map!Next
  <1>2. ASSUME hints' = hints PROVE [Map!Next]_DesiredSize
    BY <1>2 DEF DesiredSize, Holds
  <1>3. CASE SetDisplayHint
    <2> DEFINE d == Head(list)
    <2>1. d \in Displays /\ hints' = SetHint(hints, d)
      BY <1>3 DEF SetDisplayHint, HintInv, TypeOK
    <2> HIDE DEF d
    <2>2. \/ hints' = hints
          \/ \E i \in Slots : /\ hints' = Store(hints, i, d)
                              /\ hints[i].present => hints[i].key = d.key
      BY <2>1, SetHintCases DEF HintInv, TypeOK
    <2>3. ASSUME NEW i \in Slots, hints' = Store(hints, i, d),
                 hints[i].present => hints[i].key = d.key
          PROVE  [Map!Next]_DesiredSize
      <3>1. Map!Put(d.key, d.size)
        BY <2>1, <2>3, StorePuts
      <3> QED
        BY <2>1, <3>1 DEF Map!Next, Displays
    <2> QED
      BY <1>2, <2>2, <2>3
  <1>4. ASSUME NEW ds \in Lists, HostDisplaysChanged(ds) PROVE [Map!Next]_DesiredSize
    BY <1>1, <1>4 DEF HostDisplaysChanged
  <1>5. CASE DestroyHints
    BY <1>1, <1>5 DEF DestroyHints
  <1>6. CASE RefuseHint \/ InitPVChildren \/ UNCHANGED vars
    BY <1>2, <1>6 DEF RefuseHint, InitPVChildren, vars
  <1> QED
    BY <1>3, <1>4, <1>5, <1>6 DEF Next

\* The table of slots, with its stale ones, implements a map from keys to
\* sizes, for any number of slots.
THEOREM TableIsMap == Spec => ImplementsMap
  <1>1. Init => Map!Init
    BY DEF Init, NoHint, Map!Init, DesiredSize, Holds
  <1>2. HintInv /\ HintInv' /\ [Next]_vars => [Map!Next]_DesiredSize
    BY MapStep
  <1> QED
    BY <1>1, <1>2, HintInvHolds, PTL DEF Spec, ImplementsMap, Map!Spec

-----------------------------------------------------------------------------
(***************************************************************************)
(* Why the table has room.  The keys of present slots and those still to   *)
(* be stored are together no more than the table has slots: a new list     *)
(* first releases the slots of all keys but its own.                       *)
(***************************************************************************)
PresentKeys == {hints[i].key : i \in {j \in Slots : hints[j].present}}
Named == PresentKeys \union KeysOf(list)

AtMostN(S) == IsFiniteSet(S) /\ Cardinality(S) <= N

RoomInv == children => AtMostN(Named)

\* What is part of such a set, and the values of a function on one, are few.
LEMMA FewerOfFew ==
  ASSUME NEW T, AtMostN(T), NEW S \in SUBSET T
  PROVE  AtMostN(S)
  <1>1. IsFiniteSet(T) /\ Cardinality(T) \in Nat /\ Cardinality(T) <= N
    BY FS_CardinalityType DEF AtMostN
  <1>2. IsFiniteSet(S) /\ Cardinality(S) <= Cardinality(T) /\ Cardinality(S) \in Nat
    BY <1>1, FS_Subset, FS_CardinalityType
  <1> QED
    BY <1>1, <1>2, HintsAssumption DEF AtMostN

LEMMA ImageOfFew ==
  ASSUME NEW D, AtMostN(D), NEW f, f = [x \in D |-> f[x]]
  PROVE  AtMostN({f[x] : x \in D})
  <1> DEFINE R == {f[x] : x \in D}
  <1>1. f \in Surjection(D, R)
    BY DEF Surjection
  <1>2. IsFiniteSet(R) /\ Cardinality(R) <= Cardinality(D)
    BY <1>1, FS_Surjection DEF AtMostN
  <1>3. Cardinality(D) \in Nat /\ Cardinality(R) \in Nat /\ Cardinality(D) <= N
    BY <1>2, FS_CardinalityType DEF AtMostN
  <1> HIDE DEF R
  <1>4. AtMostN(R)
    BY <1>2, <1>3, HintsAssumption DEF AtMostN
  <1> QED
    BY <1>4 DEF R

\* A table has N slots, and a list of the host no more than that.
LEMMA SlotsAreN == IsFiniteSet(Slots) /\ Cardinality(Slots) = N /\ AtMostN(Slots)
  <1>1. N \in Nat /\ 1 \in Int /\ N \in Int /\ ~(1 > N)
    BY HintsAssumption
  <1>2. IsFiniteSet(1 .. N) /\ Cardinality(1 .. N) = IF 1 > N THEN 0 ELSE N - 1 + 1
    BY <1>1, FS_Interval
  <1>3. Cardinality(1 .. N) = N
    BY <1>1, <1>2
  <1> QED
    BY <1>1, <1>2, <1>3 DEF AtMostN, Slots

LEMMA ListIsShort ==
  ASSUME NEW ds \in Lists
  PROVE  AtMostN(KeysOf(ds))
  <1>1. PICK n \in 0 .. N : ds \in [1 .. n -> Displays]
    BY DEF Lists
  <1>2. 1 .. n \subseteq Slots
    BY HintsAssumption DEF Slots
  <1>3. AtMostN(1 .. n)
    BY <1>2, SlotsAreN, FewerOfFew
  <1> DEFINE f == [i \in 1 .. n |-> ds[i].key]
  <1>4. AtMostN({f[i] : i \in 1 .. n})
    <2>1. f = [i \in 1 .. n |-> f[i]]
      OBVIOUS
    <2> HIDE DEF f
    <2> QED
      BY <1>3, <2>1, ImageOfFew
  <1>5. {f[i] : i \in 1 .. n} = KeysOf(ds)
    BY <1>1 DEF KeysOf
  <1> QED
    BY <1>4, <1>5

LEMMA PresentKeysFew == AtMostN(PresentKeys)
  <1> DEFINE P == {j \in Slots : hints[j].present}
             f == [i \in P |-> hints[i].key]
  <1>1. AtMostN(P)
    BY SlotsAreN, FewerOfFew
  <1>2. AtMostN({f[i] : i \in P})
    <2>1. f = [i \in P |-> f[i]]
      OBVIOUS
    <2> HIDE DEF f, P
    <2> QED
      BY <1>1, <2>1, ImageOfFew
  <1>3. {f[i] : i \in P} = PresentKeys
    BY DEF PresentKeys
  <1> QED
    BY <1>2, <1>3

\* What is left of the list was part of it.
LEMMA RestOfList ==
  ASSUME TypeOK, list # <<>>
  PROVE  /\ Head(list) \in Displays /\ Head(list).key \in KeysOf(list)
         /\ KeysOf(Tail(list)) \subseteq KeysOf(list)
  <1>1. list \in Seq(Displays) /\ 1 \in DOMAIN list /\ Head(list) = list[1]
    BY DEF TypeOK
  <1>2. \A i \in DOMAIN Tail(list) : i + 1 \in DOMAIN list /\ Tail(list)[i] = list[i + 1]
    BY <1>1
  <1> QED
    BY <1>1, <1>2 DEF KeysOf

-----------------------------------------------------------------------------
\* If there were no room, N present slots would have N keys, none of them the
\* listed one: one key more than are named.
LEMMA RoomForHead ==
  ASSUME HintInv, RoomInv, children, list # <<>>
  PROVE  HasRoom(hints, Head(list))
  <1> DEFINE k == Head(list).key
             g == [i \in Slots |-> hints[i].key]
             T == Named \ {k}
  <1> SUFFICES ASSUME ~HasRoom(hints, Head(list)) PROVE FALSE
    OBVIOUS
  <1>1. \A i \in Slots : hints[i].present /\ hints[i].key # k
    BY DEF HasRoom, Holds, Free
  <1>2. k \in Named
    BY RestOfList DEF HintInv, Named
  <1>3. \A i \in Slots : g[i] \in T
    BY <1>1 DEF Named, PresentKeys
  <1>4. \A i, j \in Slots : g[i] = g[j] => i = j
    <2> SUFFICES ASSUME NEW i \in Slots, NEW j \in Slots, hints[i].key = hints[j].key, i # j
                 PROVE  FALSE
      OBVIOUS
    <2>1. i < j \/ j < i
      BY HintsAssumption DEF Slots
    <2> QED
      BY <1>1, <2>1 DEF HintInv, FirstOfItsKey
  <1>5. g \in Injection(Slots, T)
    BY <1>3, <1>4 DEF Injection, IsInjective
  <1>6. /\ IsFiniteSet(Named) /\ Cardinality(Named) \in Nat /\ Cardinality(Named) <= N
        /\ IsFiniteSet(T) /\ Cardinality(T) = Cardinality(Named) - 1
    BY <1>2, FS_CardinalityType, FS_RemoveElement DEF RoomInv, AtMostN
  <1> HIDE DEF T, g
  <1>7. Cardinality(Slots) <= Cardinality(T)
    BY <1>5, <1>6, FS_Injection
  <1> QED
    BY <1>6, <1>7, SlotsAreN, HintsAssumption

\* The keys that are named become fewer until the next list, which brings its
\* own and leaves no others.
LEMMA RoomStep == HintInv /\ RoomInv /\ [Next]_vars => RoomInv'
  <1> SUFFICES ASSUME HintInv, RoomInv, [Next]_vars, children' PROVE AtMostN(Named')
    BY DEF RoomInv
  <1> USE DEF HintInv
  <1>1. ASSUME NEW ds \in Lists, HostDisplaysChanged(ds) PROVE AtMostN(Named')
    <2>1. list' = ds /\ hints' = Release(hints, Unlisted(hints, KeysOf(ds)))
      BY <1>1 DEF HostDisplaysChanged
    <2>2. ASSUME NEW i \in Slots, hints'[i].present PROVE hints'[i].key \in KeysOf(ds)
      <3>1. hints[i].present /\ i \notin Unlisted(hints, KeysOf(ds)) /\ hints'[i] = hints[i]
        BY <2>1, <2>2 DEF Release, TypeOK, Hints
      <3> QED
        BY <3>1 DEF Unlisted
    <2>3. Named' \in SUBSET KeysOf(ds)
      BY <2>1, <2>2 DEF Named, PresentKeys
    <2> QED
      BY <2>3, ListIsShort, FewerOfFew
  <1>2. CASE SetDisplayHint
    <2> DEFINE d == Head(list)
    <2>1. /\ children /\ list # <<>> /\ list' = Tail(list) /\ hints' = SetHint(hints, d)
      BY <1>2 DEF SetDisplayHint
    <2>2. d \in Displays /\ d.key \in KeysOf(list) /\ KeysOf(Tail(list)) \subseteq KeysOf(list)
      BY <2>1, RestOfList
    <2>3. \A i \in Slots : hints'[i] = hints[i] \/ hints'[i].key = d.key
      BY <2>1, <2>2, SetHintCases DEF TypeOK, Store
    <2>4. PresentKeys' \subseteq PresentKeys \union {d.key}
      BY <2>3 DEF PresentKeys
    <2>5. Named' \in SUBSET Named
      BY <2>1, <2>2, <2>4 DEF Named
    <2> QED
      BY <2>1, <2>5, FewerOfFew DEF RoomInv
  <1>3. CASE RefuseHint
    <2>1. children /\ Named' \in SUBSET Named
      BY <1>3, RestOfList DEF RefuseHint, Named, PresentKeys
    <2> QED
      BY <2>1, FewerOfFew DEF RoomInv
  <1>4. CASE DestroyHints
    BY <1>4 DEF DestroyHints
  <1>5. CASE InitPVChildren
    <2>1. Named' = PresentKeys
      BY <1>5 DEF InitPVChildren, Named, PresentKeys, KeysOf
    <2> QED
      BY <2>1, PresentKeysFew
  <1>6. CASE UNCHANGED vars
    <2>1. children /\ Named' = Named
      BY <1>6 DEF vars, Named, PresentKeys
    <2> QED
      BY <2>1 DEF RoomInv
  <1> QED
    BY <1>1, <1>2, <1>3, <1>4, <1>5, <1>6 DEF Next

LEMMA RoomInvHolds == Spec => []RoomInv
  <1>1. Init => RoomInv
    <2>1. Init => Named = PresentKeys
      BY DEF Init, Named, KeysOf
    <2> QED
      BY <2>1, PresentKeysFew DEF RoomInv
  <1> QED
    BY <1>1, RoomStep, HintInvHolds, PTL DEF Spec

\* While the children exist, dp_set_display_hint finds a slot for every display
\* of a list that names no more than the table has slots, whatever lists,
\* refused hints and stops came before.
THEOREM AlwaysRoom == Spec => RoomForAll
  <1>1. HintInv /\ RoomInv /\ [Next]_vars =>
            [children /\ list # <<>> /\ list' = Tail(list) => full' = full]_<<list, full>>
    <2> SUFFICES ASSUME HintInv, RoomInv, [Next]_vars, children, list # <<>>
                 PROVE  full' = full
      OBVIOUS
    <2>1. CASE SetDisplayHint
      <3>1. HasRoom(hints, Head(list))
        BY RoomForHead
      <3>2. full' = (full \/ ~HasRoom(hints, Head(list))) /\ full \in BOOLEAN
        BY <2>1 DEF SetDisplayHint, HintInv, TypeOK
      <3> QED
        BY <3>1, <3>2
    <2>2. CASE ~SetDisplayHint
      BY <2>2 DEF Next, vars, HostDisplaysChanged, RefuseHint, DestroyHints, InitPVChildren
    <2> QED
      BY <2>1, <2>2
  <1> QED
    BY <1>1, HintInvHolds, RoomInvHolds, PTL DEF Spec, RoomForAll
=============================================================================
