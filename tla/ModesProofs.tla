----------------------------- MODULE ModesProofs -----------------------------
(***************************************************************************)
(* Proofs about Modes, for any base list, any sizes of the framebuffers    *)
(* and any sizes the host asks for.  What they rest on is a fact about one *)
(* rebuilt list (NewSizeInRange, RebuiltShape): it never ends before its   *)
(* first or after its last possible entry.                                 *)
(***************************************************************************)
EXTENDS Modes, FiniteSetTheorems, TLAPS

\* The state the theorems are about: the list is typed, and a part of the
\* base list up to its last entry.
ListInv == TypeOK /\ BaseFirst

-----------------------------------------------------------------------------
\* A non-empty set of positions has a first: the m in it whose interval 1 .. m
\* is minimal among the (finite) sets of positions.
LEMMA LeastOf ==
  ASSUME NEW K \in Nat, NEW S \in SUBSET (1 .. K), S # {}
  PROVE  \E i \in S : \A j \in S : i <= j
  <1> DEFINE P == 1 .. K
             Upto == {1 .. m : m \in S}
  <1>1. IsFiniteSet(P)
    BY FS_Interval
  <1>2. IsWellFoundedOn(StrictSubsetOrdering(P), SUBSET P)
    BY <1>1, FS_FiniteSubsetsOfFinite, FS_StrictSubsetOrderingWellFounded
  <1>3. \A m \in S : m \in Nat /\ 1 <= m /\ m <= K /\ 1 .. m \subseteq P
    OBVIOUS
  <1>4. Upto \subseteq SUBSET P /\ Upto # {}
    BY <1>3
  <1>5. PICK I \in Upto : \A J \in Upto : ~(<<J, I>> \in StrictSubsetOrdering(P))
    BY <1>2, <1>4, WFMin
  <1>6. PICK m \in S : I = 1 .. m
    BY <1>5
  <1>7. ASSUME NEW j \in S, j < m PROVE FALSE
    <2>1. 1 .. j \subseteq 1 .. m /\ m \in 1 .. m /\ m \notin 1 .. j
      BY <1>3, <1>7
    <2>2. <<1 .. j, 1 .. m>> \in StrictSubsetOrdering(P)
      BY <1>3, <2>1 DEF StrictSubsetOrdering
    <2> QED
      BY <1>5, <1>6, <2>2
  <1> QED
    BY <1>3, <1>7

\* The number of pixels is a number.
LEMMA PixelsNat == \A d \in Dims : Pixels(d) \in Nat
  BY DEF Dims, Pixels

LEMMA BaseType == NumBase \in Nat \ {0} /\ DOMAIN Base = 1 .. NumBase /\ \A i \in 1 .. NumBase : Base[i] \in Dims
  BY ModesAssumption DEF NumBase

\* A rebuilt list has an entry, and at most one more than the base list.
LEMMA NewSizeInRange ==
  ASSUME NEW l \in Seq(Dims), Len(l) <= NumBase + 1, NEW d \in Dims
  PROVE  NewSize(l, d) \in 1 .. NumBase + 1
  <1> DEFINE first == CHOOSE i \in Bigger(l, d) : \A j \in Bigger(l, d) : i <= j
             upTo == IF Bigger(l, d) = {} THEN NumBase ELSE first
  <1>1. Bigger(l, d) \subseteq 1 .. NumBase + 1
    BY BaseType DEF Bigger
  <1>2. CASE Bigger(l, d) # {}
    <2>1. \E i \in Bigger(l, d) : \A j \in Bigger(l, d) : i <= j
      <3>1. NumBase + 1 \in Nat
        BY BaseType
      <3> QED
        BY <1>1, <1>2, <3>1, LeastOf
    <2>2. first \in Bigger(l, d)
      BY <2>1
    <2>3. first \in 1 .. NumBase + 1
      BY <1>1, <2>2
    <2> HIDE DEF first
    <2>4. NewSize(l, d) = IF first = NumBase /\ Wider(d, Base[NumBase]) THEN NumBase + 1 ELSE first
      BY <1>2 DEF NewSize, first
    <2> QED
      BY <2>3, <2>4, BaseType
  <1>3. CASE Bigger(l, d) = {}
    BY <1>3, BaseType DEF NewSize
  <1> QED
    BY <1>2, <1>3

\* A rebuilt list is one of sizes; d is its last entry, and those before it
\* are the base list's.
LEMMA RebuiltShape ==
  ASSUME NEW l \in Seq(Dims), Len(l) <= NumBase + 1, NEW d \in Dims
  PROVE  /\ Rebuilt(l, d) \in Seq(Dims)
         /\ Len(Rebuilt(l, d)) \in 1 .. NumBase + 1
         /\ d \in Entries(Rebuilt(l, d))
         /\ \A i \in 1 .. Len(Rebuilt(l, d)) : i < Len(Rebuilt(l, d)) => Rebuilt(l, d)[i] = Base[i]
  <1> DEFINE n == NewSize(l, d)
             r == [i \in 1 .. n |-> IF i = n THEN d ELSE Base[i]]
  <1>1. n \in 1 .. NumBase + 1
    BY NewSizeInRange
  <1> HIDE DEF n
  <1>2. n \in Nat /\ n >= 1 /\ \A i \in 1 .. n : i # n => i \in 1 .. NumBase
    BY <1>1, BaseType
  <1>3. \A i \in 1 .. n : (IF i = n THEN d ELSE Base[i]) \in Dims
    BY <1>2, BaseType
  <1>4. r \in [1 .. n -> Dims]
    BY <1>3
  <1>5. r \in Seq(Dims) /\ Len(r) = n
    BY <1>2, <1>4
  <1>6. r[n] = d /\ n \in DOMAIN r /\ \A i \in 1 .. n : i < n => r[i] = Base[i]
    BY <1>2
  <1>7. Rebuilt(l, d) = r
    BY DEF Rebuilt, n
  <1> HIDE DEF r
  <1> QED
    BY <1>1, <1>5, <1>6, <1>7 DEF Entries

\* What update_available_resolutions leaves behind.
LEMMA UpdatedShape ==
  ASSUME NEW l \in Seq(Dims), Len(l) <= NumBase + 1, NEW d \in Dims, NEW r, NEW memory,
         \A i \in 1 .. Len(l) : i < Len(l) => l[i] = Base[i]
  PROVE  /\ Updated(l, d, r, memory) \in Seq(Dims)
         /\ Len(Updated(l, d, r, memory)) <= NumBase + 1
         /\ \A i \in 1 .. Len(Updated(l, d, r, memory)) :
                i < Len(Updated(l, d, r, memory)) => Updated(l, d, r, memory)[i] = Base[i]
  <1>1. CASE Updated(l, d, r, memory) = l
    BY <1>1
  <1>2. CASE Updated(l, d, r, memory) = Rebuilt(l, d)
    <2>1. Len(Rebuilt(l, d)) \in 1 .. NumBase + 1
      BY RebuiltShape
    <2>2. Len(Rebuilt(l, d)) <= NumBase + 1
      BY <2>1, BaseType
    <2> QED
      BY <1>2, <2>2, RebuiltShape
  <1> QED
    BY <1>1, <1>2 DEF Updated

-----------------------------------------------------------------------------
LEMMA EntriesType == \A l \in Seq(Dims) : Entries(l) \subseteq Dims
  BY DEF Entries

LEMMA SizesAreDims == Sizes \subseteq Dims /\ Requests \subseteq Dims
  BY ModesAssumption DEF Sizes

\* A framebuffer has a size in pixels.
LEMMA RoomNat == \A d \in Dims, window \in BOOLEAN : Room(d, window) \in Nat
  BY ModesAssumption, PixelsNat DEF Room

\* The list after each action is the one it was, or an updated one.
LEMMA ListStep ==
  ASSUME ListInv, [Next]_vars
  PROVE  /\ modes' \in Seq(Dims) /\ Len(modes') <= NumBase + 1
         /\ \A i \in 1 .. Len(modes') : i < Len(modes') => modes'[i] = Base[i]
  <1>1. modes' = modes \/ \E d \in Sizes \union Requests, r \in {room, room'}, memory \in BOOLEAN :
                              modes' = Updated(modes, d, r, memory)
    BY DEF Next, vars, RegisterDisplay, HintStored, HostModeSet, DestroyDisplay, Enumerate,
           SetSourceModeAndPath
  <1>2. CASE modes' = modes
    BY <1>2 DEF ListInv, TypeOK, BaseFirst
  <1>3. CASE \E d \in Sizes \union Requests, r \in {room, room'}, memory \in BOOLEAN :
                 modes' = Updated(modes, d, r, memory)
    <2>1. PICK d \in Sizes \union Requests, r \in {room, room'}, memory \in BOOLEAN :
              modes' = Updated(modes, d, r, memory)
      BY <1>3
    <2>2. d \in Dims
      BY SizesAreDims
    <2>3. /\ modes \in Seq(Dims) /\ Len(modes) <= NumBase + 1
          /\ \A i \in 1 .. Len(modes) : i < Len(modes) => modes[i] = Base[i]
      BY DEF ListInv, TypeOK, BaseFirst
    <2> QED
      BY <2>1, <2>2, <2>3, UpdatedShape
  <1> QED
    BY <1>1, <1>2, <1>3

\* Every other variable keeps its type.
LEMMA RestStep ==
  ASSUME ListInv, [Next]_vars
  PROVE  /\ offered' \subseteq Dims
         /\ room' \in Nat
         /\ disp' \in Dims
         /\ shown' \in Dims \union {NoDims}
         /\ apart' \in {"no", "refused", "too big", "host"}
  <1> DEFINE Rest == /\ offered' \subseteq Dims
                     /\ room' \in Nat
                     /\ disp' \in Dims
                     /\ shown' \in Dims \union {NoDims}
                     /\ apart' \in {"no", "refused", "too big", "host"}
  <1> USE DEF ListInv, TypeOK
  <1>1. Entries(modes) \subseteq Dims
    BY EntriesType
  <1>2. ASSUME NEW d \in Sizes, NEW window \in BOOLEAN, NEW memory \in BOOLEAN,
               RegisterDisplay(d, window, memory)
        PROVE  Rest
    BY <1>2, SizesAreDims, RoomNat DEF RegisterDisplay
  <1>3. ASSUME NEW d \in Requests, NEW memory \in BOOLEAN, HintStored(d, memory)
        PROVE  Rest
    BY <1>3 DEF HintStored
  <1>4. ASSUME NEW d \in Sizes, NEW memory \in BOOLEAN, HostModeSet(d, memory)
        PROVE  Rest
    BY <1>4, SizesAreDims DEF HostModeSet
  <1>5. CASE DestroyDisplay
    BY <1>5 DEF DestroyDisplay
  <1>6. CASE Enumerate
    BY <1>1, <1>6 DEF Enumerate
  <1>7. ASSUME NEW m \in offered, SetSourceModeAndPath(m)
        PROVE  Rest
    BY <1>7 DEF SetSourceModeAndPath, CurrentMode, UpdateMode
  <1>8. CASE UNCHANGED vars
    BY <1>8 DEF vars
  <1> QED
    BY <1>2, <1>3, <1>4, <1>5, <1>6, <1>7, <1>8 DEF Next

\* The list is typed and a part of the base list in every state.
LEMMA ListInvHolds == Spec => []ListInv
  <1>1. Init => ListInv
    <2> SUFFICES ASSUME Init PROVE ListInv
      OBVIOUS
    <2>1. modes = Base \/ modes = <<>>
      BY DEF Init
    <2>2. Base \in Seq(Dims) /\ Len(Base) = NumBase /\ NumBase \in Nat
      BY ModesAssumption DEF NumBase
    <2>3. modes \in Seq(Dims) /\ Len(modes) <= NumBase + 1
      <3>1. CASE modes = Base
        BY <2>2, <3>1
      <3>2. CASE modes = <<>>
        <4>1. <<>> \in Seq(Dims) /\ Len(<<>>) = 0
          OBVIOUS
        <4> QED
          BY <2>2, <3>2, <4>1
      <3> QED
        BY <2>1, <3>1, <3>2
    <2>4. BaseFirst
      BY <2>1 DEF BaseFirst
    <2>5. offered \subseteq Dims /\ room \in Nat /\ disp \in Dims /\ shown = NoDims /\ apart = "no"
      BY ModesAssumption DEF Init
    <2> QED
      BY <2>3, <2>4, <2>5 DEF ListInv, TypeOK
  <1>2. ListInv /\ [Next]_vars => ListInv'
    BY ListStep, RestStep DEF ListInv, TypeOK, BaseFirst
  <1> QED
    BY <1>1, <1>2, PTL DEF Spec

-----------------------------------------------------------------------------
\* Type correctness: whatever the host asks for, in whatever order, a list of
\* modes never has more than one entry more than the base list, which is what
\* update_available_resolutions allocates for it.
THEOREM TypeCorrect == Spec => []TypeOK
  BY ListInvHolds, PTL DEF ListInv

\* update_available_resolutions rebases each list on base_disp_list: only its
\* last entry may be another one.
THEOREM RebasedOnBase == Spec => []BaseFirst
  BY ListInvHolds, PTL DEF ListInv

\* Two sizes neither of which is wider or higher than the other are the same.
LEMMA SameDims ==
  ASSUME NEW d \in Dims, NEW e \in Dims, ~Wider(d, e), ~Wider(e, d)
  PROVE  d = e
  <1>1. d.width \in Nat /\ d.height \in Nat /\ e.width \in Nat /\ e.height \in Nat
    BY DEF Dims
  <1>2. d.width = e.width /\ d.height = e.height
    BY <1>1 DEF Wider
  <1>3. d = [width |-> d.width, height |-> d.height] /\ e = [width |-> e.width, height |-> e.height]
    BY DEF Dims
  <1> QED
    BY <1>2, <1>3

\* Each action that changes the mode of Windows or of the display keeps them
\* together or says why it does not.
LEMMA AgreeStep == ModeAgrees /\ TypeOK /\ [Next]_vars => ModeAgrees'
  <1> SUFFICES ASSUME ModeAgrees, TypeOK, [Next]_vars PROVE ModeAgrees'
    OBVIOUS
  <1> USE DEF ModeAgrees
  <1>1. ASSUME NEW d \in Sizes, NEW window \in BOOLEAN, NEW memory \in BOOLEAN,
               RegisterDisplay(d, window, memory)
        PROVE  ModeAgrees'
    BY <1>1 DEF RegisterDisplay
  <1>2. ASSUME NEW d \in Requests, NEW memory \in BOOLEAN, HintStored(d, memory)
        PROVE  ModeAgrees'
    BY <1>2 DEF HintStored
  <1>3. ASSUME NEW d \in Sizes, NEW memory \in BOOLEAN, HostModeSet(d, memory)
        PROVE  ModeAgrees'
    BY <1>3 DEF HostModeSet
  <1>4. CASE DestroyDisplay
    BY <1>4 DEF DestroyDisplay
  <1>5. CASE Enumerate
    BY <1>5 DEF Enumerate
  <1>6. ASSUME NEW m \in offered, SetSourceModeAndPath(m)
        PROVE  ModeAgrees'
    <2>1. m \in Dims /\ disp \in Dims
      BY DEF TypeOK
    <2>2. CurrentMode(m) = m
      BY <2>1, SameDims DEF CurrentMode
    <2> QED
      BY <1>6, <2>2 DEF SetSourceModeAndPath, UpdateMode
  <1>7. CASE UNCHANGED vars
    BY <1>7 DEF vars
  <1> QED
    BY <1>1, <1>2, <1>3, <1>4, <1>5, <1>6, <1>7 DEF Next

\* Windows (DispInfo) and the display have the same resolution, unless one of
\* the things happened that ModeAgrees names.
THEOREM ModesAgree == Spec => []ModeAgrees
  <1>1. Init => ModeAgrees
    BY DEF Init, ModeAgrees
  <1> QED
    BY <1>1, AgreeStep, TypeCorrect, PTL DEF Spec

\* A size that is updated, fits and finds memory is in the list afterwards.
LEMMA UpdatedOffers ==
  ASSUME NEW l \in Seq(Dims), Len(l) <= NumBase + 1, NEW d \in Dims, NEW r
  PROVE  l = <<>> \/ Pixels(d) > r \/ d \in Entries(Updated(l, d, r, TRUE))
  <1> SUFFICES ASSUME l # <<>>, ~(Pixels(d) > r) PROVE d \in Entries(Updated(l, d, r, TRUE))
    OBVIOUS
  <1>1. CASE Known(l, d)
    <2>1. Updated(l, d, r, TRUE) = l
      BY <1>1 DEF Updated
    <2> QED
      BY <1>1, <2>1 DEF Known, Entries
  <1>2. CASE ~Known(l, d)
    <2>1. Updated(l, d, r, TRUE) = Rebuilt(l, d)
      BY <1>2 DEF Updated
    <2> QED
      BY <2>1, RebuiltShape
  <1> QED
    BY <1>1, <1>2

\* The size a display is created with, listed with or given by the host is one
\* Windows can choose, whatever list the sizes before it have left.
THEOREM Offered == Spec => RequestedOffered
  <1> DEFINE Offers(d) ==
        \/ \E window \in BOOLEAN : RegisterDisplay(d, window, TRUE)
        \/ HostModeSet(d, TRUE)
        \/ d \in Requests /\ HintStored(d, TRUE)
        => modes = <<>> \/ Pixels(d) > room' \/ d \in Entries(modes')
  <1>1. ASSUME TypeOK PROVE \A d \in Sizes : Offers(d)
    <2> TAKE d \in Sizes
    <2>1. d \in Dims /\ modes \in Seq(Dims) /\ Len(modes) <= NumBase + 1
      BY <1>1, SizesAreDims DEF TypeOK
    <2>2. modes' = Updated(modes, d, room', TRUE)
            => modes = <<>> \/ Pixels(d) > room' \/ d \in Entries(modes')
      BY <2>1, UpdatedOffers
    <2>3. \/ \E window \in BOOLEAN : RegisterDisplay(d, window, TRUE)
          \/ HostModeSet(d, TRUE)
          \/ d \in Requests /\ HintStored(d, TRUE)
          => modes' = Updated(modes, d, room', TRUE)
      BY DEF RegisterDisplay, HostModeSet, HintStored
    <2> QED
      BY <2>2, <2>3
  <1>2. TypeOK => [\A d \in Sizes : Offers(d)]_vars
    BY <1>1
  <1> QED
    BY <1>2, TypeCorrect, PTL DEF RequestedOffered
=============================================================================
