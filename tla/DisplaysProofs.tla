--------------------------- MODULE DisplaysProofs ---------------------------
(***************************************************************************)
(* Proofs about Displays, for any number of children, keys and sizes.      *)
(* They rest on the table's invariant, proved in DisplayHintsProofs: a     *)
(* framebuffer is created with the size that a lookup recommends, and is   *)
(* as large as the hint only because lookups find present slots.           *)
(***************************************************************************)
EXTENDS Displays, DisplayHintsProofs

\* A child with a display has the display's key ...
KeysAgree == \A c \in Slots : HasDisplay(c) => child[c].key = child[c].display.key

\* ... and is the first child that has it.
FirstShows ==
    \A c, j \in Slots : HasDisplay(c) /\ child[j].key = child[c].display.key => c <= j

ChildInv ==
    /\ child \in [Slots -> Children]
    /\ KeysAgree
    /\ FirstShows
    /\ FramebufferFits
    /\ ConnectedHasDisplay

-----------------------------------------------------------------------------
\* The table's steps are those of DisplayHints.
LEMMA HintsStep == [NextDisplays]_displayVars => [Next]_vars
  <1> SUFFICES ASSUME NextDisplays
               PROVE  Next \/ UNCHANGED vars
    BY DEF displayVars, vars
  <1>1. ASSUME NEW ds \in Lists, ListChanged(ds)
        PROVE  Next
    BY <1>1 DEF ListChanged, Next
  <1>2. CASE HintRefused
    BY <1>2 DEF HintRefused, Next
  <1>3. CASE HintStored
    BY <1>3 DEF HintStored, Next
  <1>4. ASSUME NEW k \in Keys, NEW p \in Ports, AddDisplay(k, p)
        PROVE  UNCHANGED vars
    <2>1. UNCHANGED <<hints, children, list, full>>
      BY <1>4 DEF AddDisplay, AddOutOfOrder, AddModeSet, AddReconnect, AddNew, displayVars
    <2> QED
      BY <2>1 DEF vars
  <1>5. ASSUME NEW c \in Slots, DisplayError(c) \/ ReplacedDisplayError(c)
        PROVE  UNCHANGED vars
    BY <1>5 DEF DisplayError, ReplacedDisplayError, vars
  <1> QED
    BY <1>1, <1>2, <1>3, <1>4, <1>5 DEF NextDisplays

LEMMA HintInvOfDisplays == SpecDisplays => []HintInv
  <1>1. InitDisplays => Init
    BY DEF InitDisplays
  <1> QED
    BY <1>1, HintsStep, HintInvHolds, PTL DEF SpecDisplays, Spec

-----------------------------------------------------------------------------
\* The child of a key is the one that shows it.
LEMMA OfShown ==
    ASSUME ChildInv, NEW c \in Slots, HasDisplay(c)
    PROVE  Lowest(OfKey(child[c].display.key)) = c
  <1> DEFINE S == OfKey(child[c].display.key)
  <1>1. S \in SUBSET Slots /\ c \in S
    BY DEF OfKey, ChildInv, KeysAgree
  <1>2. Lowest(S) \in S /\ Lowest(S) <= c
    BY <1>1, LowestSlot
  <1>3. \A j \in S : c <= j
    BY DEF OfKey, ChildInv, FirstShows
  <1> HIDE DEF S
  <1>4. Lowest(S) <= c /\ c <= Lowest(S) /\ Lowest(S) \in Slots
    BY <1>1, <1>2, <1>3
  <1>5. Lowest(S) = c
    BY <1>4, HintsAssumption DEF Slots
  <1> QED
    BY <1>5 DEF S

\* A lookup recommends a size, ...
LEMMA RecommendedType ==
    ASSUME HintInv, NEW k
    PROVE  RecommendedSize(hints, k) \in Sizes \union {NoSize, DefaultSize}
  <1> DEFINE of == {i \in Slots : hints[i].key = k}
  <1>1. CASE of = {}
    BY <1>1 DEF RecommendedSize
  <1>2. CASE of # {}
    <2>1. of \in SUBSET Slots
      OBVIOUS
    <2>2. Lowest(of) \in of
      BY <1>2, <2>1, LowestSlot
    <2> HIDE DEF of
    <2>3. RecommendedSize(hints, k) = hints[Lowest(of)].size
      BY <1>2 DEF RecommendedSize, of
    <2>4. Lowest(of) \in Slots
      BY <2>1, <2>2
    <2> QED
      BY <2>3, <2>4 DEF HintInv, TypeOK, Hints
  <1> QED
    BY <1>1, <1>2

\* ... and a framebuffer is created at least as large as the hint.
LEMMA CreatedFits ==
    ASSUME HintInv, NEW k \in Keys
    PROVE  /\ Framebuffer(k, RecommendedSize(hints, k)) \in Nat
           /\ \A i \in Slots : hints[i].present /\ hints[i].key = k
                 => hints[i].size <= Framebuffer(k, RecommendedSize(hints, k))
  <1>1. Framebuffer(k, RecommendedSize(hints, k)) \in Nat
    BY RecommendedType, DisplaysAssumption DEF Framebuffer
  <1>2. ASSUME NEW i \in Slots, hints[i].present, hints[i].key = k
        PROVE  hints[i].size <= Framebuffer(k, RecommendedSize(hints, k))
    <2>1. RecommendedSize(hints, k) = hints[i].size
      BY <1>2, LookupFirst
    <2>2. hints[i].size \in Sizes \union {NoSize}
      BY DEF HintInv, TypeOK, Hints
    <2> QED
      BY <2>1, <2>2, DisplaysAssumption DEF Framebuffer
  <1> QED
    BY <1>1, <1>2

-----------------------------------------------------------------------------
\* What has to hold of ch, the new state of child c, for ChildInv to last.
LEMMA ReplaceChild ==
    ASSUME ChildInv, NEW c \in Slots, NEW ch \in Children,
           child' = [child EXCEPT ![c] = ch], hints' = hints,
           ch.connected => ch.display # NoDisplay,
           ch.display # NoDisplay =>
               /\ ch.key = ch.display.key
               /\ \A j \in Slots \ {c} : child[j].key = ch.key => c <= j
               /\ \A i \in Slots : hints[i].present /\ hints[i].key = ch.key
                     => hints[i].size <= ch.display.size,
           \A j \in Slots \ {c} : HasDisplay(j) /\ ch.key = child[j].display.key => j <= c
    PROVE  ChildInv'
  <1>1. child' \in [Slots -> Children]
    BY DEF ChildInv
  <1>2. child'[c] = ch /\ \A j \in Slots \ {c} : child'[j] = child[j]
    BY DEF ChildInv
  <1>3. KeysAgree'
    BY <1>2 DEF ChildInv, KeysAgree, HasDisplay
  <1>4. FirstShows'
    <2> SUFFICES ASSUME NEW d \in Slots, NEW j \in Slots,
                        child'[d].display # NoDisplay, child'[j].key = child'[d].display.key
                 PROVE  d <= j
      BY DEF FirstShows, HasDisplay
    <2>1. CASE d = c /\ j = c
      BY <2>1, HintsAssumption DEF Slots
    <2>2. CASE d = c /\ j # c
      BY <1>2, <2>2
    <2>3. CASE d # c /\ j = c
      BY <1>2, <2>3 DEF HasDisplay
    <2>4. CASE d # c /\ j # c
      BY <1>2, <2>4 DEF ChildInv, FirstShows, HasDisplay
    <2> QED
      BY <2>1, <2>2, <2>3, <2>4
  <1>5. FramebufferFits'
    <2> SUFFICES ASSUME NEW i \in Slots, NEW d \in Slots, hints[i].present,
                        child'[d].display # NoDisplay, child'[d].display.key = hints[i].key
                 PROVE  hints[i].size <= child'[d].display.size
      BY DEF FramebufferFits, HasDisplay
    <2>1. CASE d = c
      BY <1>2, <2>1
    <2>2. CASE d # c
      BY <1>2, <2>2 DEF ChildInv, FramebufferFits, HasDisplay
    <2> QED
      BY <2>1, <2>2
  <1>6. ConnectedHasDisplay'
    BY <1>2 DEF ChildInv, ConnectedHasDisplay, HasDisplay
  <1> QED
    BY <1>1, <1>3, <1>4, <1>5, <1>6 DEF ChildInv

\* A child that keeps its key and its display, or its lack of one.
LEMMA SameDisplay ==
    ASSUME ChildInv, NEW c \in Slots, NEW ch \in Children,
           child' = [child EXCEPT ![c] = ch], hints' = hints,
           ch.connected => ch.display # NoDisplay,
           ch.key = child[c].key,
           ch.display # NoDisplay =>
               /\ HasDisplay(c)
               /\ ch.display.key = child[c].display.key
               /\ ch.display.size = child[c].display.size
    PROVE  ChildInv'
  <1>1. ch.display # NoDisplay =>
           /\ ch.key = ch.display.key
           /\ \A j \in Slots \ {c} : child[j].key = ch.key => c <= j
           /\ \A i \in Slots : hints[i].present /\ hints[i].key = ch.key
                 => hints[i].size <= ch.display.size
    BY DEF ChildInv, KeysAgree, FirstShows, FramebufferFits
  <1>2. \A j \in Slots \ {c} : HasDisplay(j) /\ ch.key = child[j].display.key => j <= c
    BY DEF ChildInv, FirstShows
  <1> QED
    BY <1>1, <1>2, ReplaceChild

\* Children that keep their keys and displays while slots are released.
LEMMA ListKeeps ==
    ASSUME HintInv, ChildInv, NEW ds \in Lists, ListChanged(ds)
    PROVE  ChildInv'
  <1>1. \A c \in Slots : /\ child'[c].key = child[c].key
                         /\ child'[c].display = child[c].display
                         /\ child'[c].connected => child[c].connected
                         /\ child'[c] \in Children
    BY ZenonT(40) DEF ListChanged, ChildInv, Children
  <1>2. \A i \in Slots : /\ hints'[i].key = hints[i].key /\ hints'[i].size = hints[i].size
                         /\ hints'[i].present => hints[i].present
    BY DEF ListChanged, HostDisplaysChanged, Release, HintInv, TypeOK, Hints
  <1>3. child' \in [Slots -> Children]
    BY <1>1 DEF ListChanged
  <1>4. KeysAgree' /\ FirstShows' /\ ConnectedHasDisplay'
    BY <1>1 DEF ChildInv, KeysAgree, FirstShows, ConnectedHasDisplay, HasDisplay
  <1>5. FramebufferFits'
    BY <1>1, <1>2 DEF ChildInv, FramebufferFits, HasDisplay
  <1> QED
    BY <1>3, <1>4, <1>5 DEF ChildInv

LEMMA RefusedKeeps ==
    ASSUME HintInv, ChildInv, HintRefused
    PROVE  ChildInv'
  <1> DEFINE S == OfKey(Head(list).key)
             c == Lowest(S)
  <1>1. c \in Slots
    <2>1. S \in SUBSET Slots /\ S # {}
      BY DEF HintRefused, TooSmall, OfKey
    <2> QED
      BY <2>1, LowestSlot
  <1> HIDE DEF c
  <1>2. child' = [child EXCEPT ![c] = Destroyed(child[c])] /\ hints' = hints
    BY DEF HintRefused, RefuseHint, c
  <1>3. child[c].display # NoDisplay
    BY DEF HintRefused, TooSmall, HasDisplay, c
  <1> DEFINE ch == Destroyed(child[c])
  <1>4. /\ ch \in Children /\ ~ch.connected /\ ch.display = NoDisplay /\ ch.key = NoKey
    BY <1>1, <1>3 DEF Destroyed, ChildInv, Children
  <1>5. \A j \in Slots : HasDisplay(j) => child[j].display.key # NoKey
    BY HintsAssumption DEF ChildInv, Children, PVDisplays, HasDisplay
  <1> HIDE DEF ch
  <1>6. child' = [child EXCEPT ![c] = ch]
    BY <1>2 DEF ch
  <1>7. \A j \in Slots \ {c} : HasDisplay(j) /\ ch.key = child[j].display.key => j <= c
    BY <1>4, <1>5
  <1>8. hints' = hints /\ ch \in Children /\ ch.display = NoDisplay /\ ~ch.connected
    BY <1>2, <1>4
  <1> QED
    BY <1>1, <1>6, <1>7, <1>8, ReplaceChild

LEMMA StoredKeeps ==
    ASSUME HintInv, ChildInv, HintStored
    PROVE  ChildInv'
  <1> DEFINE d == Head(list)
             S == OfKey(d.key)
  <1>1. d \in Displays
    BY DEF HintStored, HintInv, TypeOK
  <1>2. S \in SUBSET Slots
    BY DEF OfKey
  <1>3. \A c \in Slots : /\ child'[c].key = child[c].key
                         /\ child'[c].display = child[c].display
                         /\ child'[c].connected = child[c].connected
    BY DEF HintStored, Resized, ChildInv, Children
  <1>4. child' \in [Slots -> Children]
    <2>1. CASE child' = child
      BY <2>1 DEF ChildInv
    <2>2. CASE child' # child
      <3>1. S # {} /\ child' = [child EXCEPT ![Lowest(S)] =
                                   Resized(child[Lowest(S)], BufferType(d.key, d.size))]
        BY <2>2 DEF HintStored
      <3>2. Lowest(S) \in Slots
        BY <1>2, <3>1, LowestSlot
      <3> DEFINE c == Lowest(S)
                 t == BufferType(d.key, d.size)
      <3> HIDE DEF S, c, t
      <3>3. t \in BufferTypes
        BY DEF BufferType, BufferTypes, t
      <3>4. child[c] \in Children
        BY <3>2 DEF ChildInv, c
      <3>5. Resized(child[c], t) \in Children
        <4>1. (child[c].resize \/ child[c].type # t \/ t = "STATIC") \in BOOLEAN
          OBVIOUS
        <4> QED
          BY <3>3, <3>4, <4>1 DEF Resized, Children
      <3> QED
        BY <3>1, <3>2, <3>5 DEF ChildInv, c, t
    <2> QED
      BY <2>1, <2>2
  <1>5. KeysAgree' /\ FirstShows' /\ ConnectedHasDisplay'
    BY <1>3 DEF ChildInv, KeysAgree, FirstShows, ConnectedHasDisplay, HasDisplay
  <1>6. FramebufferFits'
    <2> SUFFICES ASSUME NEW i \in Slots, NEW c \in Slots, hints'[i].present,
                        HasDisplay(c), child[c].display.key = hints'[i].key
                 PROVE  hints'[i].size <= child[c].display.size
      BY <1>3 DEF FramebufferFits, HasDisplay
    <2>1. CASE hints'[i] = hints[i]
      BY <2>1 DEF ChildInv, FramebufferFits
    <2>2. CASE hints'[i] # hints[i]
      <3>1. hints'[i].key = d.key /\ hints'[i].size = d.size
        BY <1>1, <2>2, SetHintCases DEF HintStored, SetDisplayHint, Store, HintInv, TypeOK
      <3>2. child[c].display.key = d.key
        BY <3>1
      <3>3. Lowest(S) = c /\ c \in S
        BY <3>2, OfShown DEF OfKey, ChildInv, KeysAgree
      <3>4. ~(d.size > child[c].display.size)
        BY <3>3 DEF HintStored, TooSmall
      <3>5. d.size \in Nat /\ child[c].display.size \in Nat
        BY <1>1, DisplaysAssumption DEF Displays, ChildInv, Children, PVDisplays, HasDisplay
      <3> QED
        BY <3>1, <3>4, <3>5
    <2> QED
      BY <2>1, <2>2
  <1> QED
    BY <1>4, <1>5, <1>6 DEF ChildInv

-----------------------------------------------------------------------------
\* The outcomes of a creation for child c, which is nc so far.
LEMMA CreationsCases ==
    ASSUME HintInv, NEW c \in Slots, NEW nc \in Children, NEW k \in Keys, NEW p \in Ports,
           NEW after \in Creations(c, nc, k, p)
    PROVE  /\ after \in Children
           /\ after.connected = nc.connected
           /\ \/ /\ after.display # NoDisplay /\ after.key = k /\ after.display.key = k
                 /\ \A i \in Slots : hints[i].present /\ hints[i].key = k
                       => hints[i].size <= after.display.size
              \/ after.display = nc.display /\ after.key = nc.key
  <1> DEFINE size == Framebuffer(k, RecommendedSize(hints, k))
  <1>1. size \in Nat /\ \A i \in Slots : hints[i].present /\ hints[i].key = k => hints[i].size <= size
    BY CreatedFits
  <1> HIDE DEF size
  <1>2. CASE after \in {[nc EXCEPT !.port = p], nc}
    BY <1>2 DEF Children
  <1>3. CASE \E up \in BOOLEAN :
               after = [nc EXCEPT !.display = [key |-> k, size |-> size, connected |-> up],
                                  !.key = k, !.port = p, !.replaced = @ \/ HasDisplay(c)]
    <2>1. PICK up \in BOOLEAN :
            after = [nc EXCEPT !.display = [key |-> k, size |-> size, connected |-> up],
                               !.key = k, !.port = p, !.replaced = @ \/ HasDisplay(c)]
      BY <1>3
    <2> DEFINE new == [key |-> k, size |-> size, connected |-> up]
               rep == nc.replaced \/ HasDisplay(c)
    <2>2. new \in PVDisplays /\ new # NoDisplay /\ new.key = k /\ new.size = size
      BY <1>1, DisplaysAssumption DEF PVDisplays
    <2>3. rep \in BOOLEAN
      OBVIOUS
    <2>4. after = [nc EXCEPT !.display = new, !.key = k, !.port = p, !.replaced = rep]
      BY <2>1
    <2> HIDE DEF new, rep
    <2>5. /\ after \in Children /\ after.connected = nc.connected
          /\ after.display = new /\ after.key = k
      BY <2>2, <2>3, <2>4 DEF Children
    <2> QED
      BY <1>1, <2>2, <2>5
  <1> QED
    BY <1>2, <1>3 DEF Creations, size

LEMMA ReconnectKeeps ==
    ASSUME HintInv, ChildInv, NEW k \in Keys, NEW p \in Ports, AddReconnect(k, p)
    PROVE  ChildInv'
  <1> DEFINE S == Showing(k)
             c == Lowest(S)
             nc == [child[c] EXCEPT !.connected = TRUE]
  <1>1. c \in Slots /\ HasDisplay(c) /\ child[c].display.key = k
    <2>1. S \in SUBSET Slots /\ S # {}
      BY DEF AddReconnect, Showing
    <2>2. Lowest(S) \in S
      BY <2>1, LowestSlot
    <2> QED
      BY <2>2 DEF Showing
  <1>2. PICK after \in IF nc.resize THEN Creations(c, nc, k, p)
                       ELSE {[nc EXCEPT !.display.connected = up] : up \in BOOLEAN} \union {nc} :
          child' = [child EXCEPT ![c] = after]
    BY DEF AddReconnect
  <1> HIDE DEF c, S
  <1>3. child[c] \in Children /\ child[c].display \in PVDisplays /\ child[c].key = k
    BY <1>1 DEF ChildInv, Children, HasDisplay, KeysAgree
  <1>4. nc \in Children /\ nc.key = k /\ nc.display = child[c].display
    BY <1>3 DEF Children
  <1>5. hints' = hints
    BY DEF AddReconnect
  <1> HIDE DEF nc
  <1>6. CASE after \in Creations(c, nc, k, p)
    <2>1. /\ after \in Children
          /\ \/ /\ after.display # NoDisplay /\ after.key = k /\ after.display.key = k
                /\ \A i \in Slots : hints[i].present /\ hints[i].key = k
                      => hints[i].size <= after.display.size
             \/ after.display = child[c].display /\ after.key = k
      BY <1>1, <1>4, <1>6, CreationsCases
    <2>2. CASE after.display = child[c].display /\ after.key = k
      BY <1>1, <1>2, <1>3, <1>5, <2>1, <2>2, SameDisplay DEF HasDisplay
    <2>3. CASE /\ after.display # NoDisplay /\ after.key = k /\ after.display.key = k
               /\ \A i \in Slots : hints[i].present /\ hints[i].key = k
                     => hints[i].size <= after.display.size
      <3>1. \A j \in Slots \ {c} : child[j].key = k => c <= j
        BY <1>1 DEF ChildInv, FirstShows
      <3>2. \A j \in Slots \ {c} : HasDisplay(j) /\ k = child[j].display.key => j <= c
        BY <1>1, <1>3 DEF ChildInv, FirstShows
      <3>3. after.connected => after.display # NoDisplay
        BY <2>3
      <3>4. after.display # NoDisplay =>
               /\ after.key = after.display.key
               /\ \A j \in Slots \ {c} : child[j].key = after.key => c <= j
               /\ \A i \in Slots : hints[i].present /\ hints[i].key = after.key
                     => hints[i].size <= after.display.size
        BY <2>3, <3>1
      <3>5. \A j \in Slots \ {c} : HasDisplay(j) /\ after.key = child[j].display.key => j <= c
        BY <2>3, <3>2
      <3> QED
        BY <1>1, <1>2, <1>5, <2>1, <3>3, <3>4, <3>5, ReplaceChild
    <2> QED
      BY <2>1, <2>2, <2>3
  <1>7. CASE after \in {[nc EXCEPT !.display.connected = up] : up \in BOOLEAN}
    <2>1. PICK up \in BOOLEAN : after = [nc EXCEPT !.display.connected = up]
      BY <1>7
    <2> DEFINE new == [child[c].display EXCEPT !.connected = up]
    <2>2. /\ new \in PVDisplays /\ new # NoDisplay
          /\ new.key = child[c].display.key /\ new.size = child[c].display.size
      BY <1>3, DisplaysAssumption DEF PVDisplays
    <2>3. after = [nc EXCEPT !.display = new]
      BY <1>4, <2>1
    <2> HIDE DEF new
    <2>4. after \in Children /\ after.key = k /\ after.display = new
      BY <1>4, <2>2, <2>3 DEF Children
    <2> QED
      BY <1>1, <1>2, <1>3, <1>5, <2>2, <2>4, SameDisplay
  <1>8. CASE after = nc
    BY <1>1, <1>2, <1>3, <1>4, <1>5, <1>8, SameDisplay DEF HasDisplay
  <1> QED
    BY <1>2, <1>6, <1>7, <1>8

\* A request for a key that no child shows gets a child without a display.
LEMMA FreeChild ==
    ASSUME ChildInv, NEW k \in Keys, Showing(k) = {}, Available(k) # {}
    PROVE  /\ Lowest(Available(k)) \in Slots
           /\ ~HasDisplay(Lowest(Available(k)))
           /\ \A j \in Slots : child[j].key = k => Lowest(Available(k)) <= j
  <1> DEFINE S == Available(k)
             c == Lowest(S)
  <1>1. S \in SUBSET Slots
    BY DEF Available, OfKey
  <1>2. c \in S /\ \A j \in S : c <= j
    BY <1>1, LowestSlot
  <1>3. c \in Slots /\ child[c].key \in {k, NoKey} /\ \A j \in Slots : child[j].key = k => c <= j
    BY <1>2 DEF Available, OfKey
  <1> HIDE DEF S, c
  <1>4. ~HasDisplay(c)
    <2> SUFFICES ASSUME HasDisplay(c)
                 PROVE  FALSE
      OBVIOUS
    <2>1. child[c].display.key \in Keys /\ child[c].key = child[c].display.key
      BY <1>3 DEF ChildInv, KeysAgree, Children, PVDisplays, HasDisplay
    <2>2. child[c].key = k
      BY <1>3, <2>1, HintsAssumption
    <2> QED
      BY <1>3, <2>1, <2>2 DEF Showing
  <1> QED
    BY <1>3, <1>4 DEF c, S

LEMMA AddNewKeeps ==
    ASSUME HintInv, ChildInv, NEW k \in Keys, NEW p \in Ports, AddNew(k, p)
    PROVE  ChildInv'
  <1>1. hints' = hints /\ Showing(k) = {}
    BY DEF AddNew
  <1>2. CASE child' = child
    BY <1>1, <1>2 DEF ChildInv, KeysAgree, FirstShows, FramebufferFits, ConnectedHasDisplay,
                      HasDisplay
  <1>3. CASE Available(k) # {}
    <2> DEFINE S == Available(k)
               c == Lowest(S)
               nc == [child[c] EXCEPT !.key = k]
    <2>3. PICK after \in Creations(c, nc, k, p) :
            child' = [child EXCEPT ![c] =
                        IF after.display = NoDisplay THEN after
                        ELSE [after EXCEPT !.connected = TRUE, !.display.connected = TRUE]]
      BY <1>3 DEF AddNew
    <2>4. c \in Slots /\ \A j \in Slots : child[j].key = k => c <= j
      BY <1>1, <1>3, FreeChild
    <2>5. child[c].display = NoDisplay
      BY <1>1, <1>3, FreeChild DEF HasDisplay
    <2> HIDE DEF S, c
    <2>6. nc \in Children /\ nc.key = k /\ nc.display = NoDisplay /\ ~nc.connected
      <3>1. child[c] \in Children /\ ~child[c].connected
        BY <2>4, <2>5 DEF ChildInv, ConnectedHasDisplay, HasDisplay
      <3> QED
        BY <2>5, <3>1 DEF Children
    <2> HIDE DEF nc
    <2>7. /\ after \in Children /\ ~after.connected /\ after.key = k
          /\ after.display # NoDisplay =>
                /\ after.display.key = k
                /\ \A i \in Slots : hints[i].present /\ hints[i].key = k
                      => hints[i].size <= after.display.size
      BY <2>3, <2>4, <2>6, CreationsCases
    <2>8. \A j \in Slots \ {c} : HasDisplay(j) => child[j].display.key # k
      BY <1>1 DEF Showing
    <2>9. CASE after.display = NoDisplay
      <3>1. child' = [child EXCEPT ![c] = after] /\ c \in Slots /\ after \in Children
        BY <2>3, <2>4, <2>7, <2>9
      <3>2. /\ after.connected => after.display # NoDisplay
            /\ after.display # NoDisplay =>
                  /\ after.key = after.display.key
                  /\ \A j \in Slots \ {c} : child[j].key = after.key => c <= j
                  /\ \A i \in Slots : hints[i].present /\ hints[i].key = after.key
                        => hints[i].size <= after.display.size
        BY <2>7, <2>9
      <3>3. \A j \in Slots \ {c} : HasDisplay(j) /\ after.key = child[j].display.key => j <= c
        BY <2>7, <2>8
      <3> QED
        BY <1>1, <3>1, <3>2, <3>3, ReplaceChild
    <2>10. CASE after.display # NoDisplay
      <3> DEFINE new == [after.display EXCEPT !.connected = TRUE]
                 ch == [after EXCEPT !.connected = TRUE, !.display = new]
      <3>1. /\ new \in PVDisplays /\ new # NoDisplay
            /\ new.key = after.display.key /\ new.size = after.display.size
        BY <2>7, <2>10, DisplaysAssumption DEF Children, PVDisplays
      <3>2. child' = [child EXCEPT ![c] = ch]
        BY <2>3, <2>7, <2>10 DEF Children
      <3> HIDE DEF new
      <3>3. ch \in Children /\ ch.connected /\ ch.key = k /\ ch.display = new
        BY <2>7, <3>1 DEF Children
      <3> HIDE DEF ch
      <3>4. \A i \in Slots : hints[i].present /\ hints[i].key = k => hints[i].size <= new.size
        BY <2>7, <2>10, <3>1
      <3>5. new.key = k
        BY <2>7, <2>10, <3>1
      <3>6. /\ ch.connected => ch.display # NoDisplay
            /\ ch.display # NoDisplay =>
                  /\ ch.key = ch.display.key
                  /\ \A j \in Slots \ {c} : child[j].key = ch.key => c <= j
                  /\ \A i \in Slots : hints[i].present /\ hints[i].key = ch.key
                        => hints[i].size <= ch.display.size
        BY <2>4, <3>1, <3>3, <3>4, <3>5
      <3>7. \A j \in Slots \ {c} : HasDisplay(j) /\ ch.key = child[j].display.key => j <= c
        BY <2>8, <3>3
      <3> QED
        BY <1>1, <2>4, <3>2, <3>3, <3>6, <3>7, ReplaceChild
    <2> QED
      BY <2>9, <2>10
  <1> QED
    BY <1>2, <1>3 DEF AddNew

LEMMA ErrorKeeps ==
    ASSUME ChildInv, NEW c \in Slots, DisplayError(c) \/ ReplacedDisplayError(c)
    PROVE  ChildInv'
  <1>1. hints' = hints /\ child[c] \in Children
    BY DEF DisplayError, ReplacedDisplayError, ChildInv
  <1>2. CASE DisplayError(c)
    <2> DEFINE new == [child[c].display EXCEPT !.connected = FALSE]
               ch == [child[c] EXCEPT !.connected = FALSE, !.display = new]
    <2>1. child[c].display \in PVDisplays /\ HasDisplay(c)
      BY <1>1, <1>2 DEF DisplayError, HasDisplay, Children
    <2>2. /\ new \in PVDisplays
          /\ new.key = child[c].display.key /\ new.size = child[c].display.size
      BY <2>1 DEF PVDisplays
    <2>3. child' = [child EXCEPT ![c] = ch]
      BY <1>2 DEF DisplayError, ChildInv
    <2> HIDE DEF new
    <2>4. ch \in Children /\ ~ch.connected /\ ch.key = child[c].key /\ ch.display = new
      BY <1>1, <2>2 DEF Children
    <2> HIDE DEF ch
    <2> QED
      BY <1>1, <2>1, <2>2, <2>3, <2>4, SameDisplay
  <1>3. CASE ReplacedDisplayError(c)
    <2> DEFINE ch == [child[c] EXCEPT !.connected = FALSE]
    <2>1. /\ ch \in Children /\ ~ch.connected
          /\ ch.key = child[c].key /\ ch.display = child[c].display
      BY <1>1 DEF Children
    <2>2. child' = [child EXCEPT ![c] = ch]
      BY <1>3 DEF ReplacedDisplayError
    <2> HIDE DEF ch
    <2> QED
      BY <1>1, <2>1, <2>2, SameDisplay DEF HasDisplay
  <1> QED
    BY <1>2, <1>3

LEMMA InitChildInv ==
    ASSUME InitDisplays
    PROVE  ChildInv
  <1>1. \A c \in Slots : /\ child[c] \in Children /\ child[c].display = NoDisplay
                         /\ ~child[c].connected
    <2> SUFFICES ASSUME NEW c \in Slots
                 PROVE  /\ child[c] \in Children /\ child[c].display = NoDisplay
                        /\ ~child[c].connected
      OBVIOUS
    <2>1. child[c] \in {NewChild(t, r) : t \in Unset, r \in BOOLEAN}
      BY DEF InitDisplays
    <2>2. PICK t \in Unset, r \in BOOLEAN : child[c] = NewChild(t, r)
      BY <2>1
    <2>3. t \in BufferTypes \union {"INVALID"}
      BY DisplaysAssumption
    <2> QED
      BY <2>2, <2>3 DEF NewChild, Children
  <1>2. child \in [Slots -> Children]
    BY <1>1 DEF InitDisplays
  <1> QED
    BY <1>1, <1>2 DEF ChildInv, KeysAgree, FirstShows, FramebufferFits, ConnectedHasDisplay,
                      HasDisplay

LEMMA ChildInvStep ==
    ASSUME HintInv, ChildInv, [NextDisplays]_displayVars
    PROVE  ChildInv'
  <1>1. ASSUME UNCHANGED displayVars
        PROVE  ChildInv'
    BY <1>1 DEF displayVars, ChildInv, KeysAgree, FirstShows, FramebufferFits,
                ConnectedHasDisplay, HasDisplay
  <1>2. ASSUME NEW k \in Keys, NEW p \in Ports, AddDisplay(k, p)
        PROVE  ChildInv'
    <2>1. CASE AddOutOfOrder(k, p) \/ AddModeSet(k, p)
      BY <1>1, <2>1 DEF AddOutOfOrder, AddModeSet, displayVars
    <2>2. CASE AddReconnect(k, p)
      BY <2>2, ReconnectKeeps
    <2>3. CASE AddNew(k, p)
      BY <2>3, AddNewKeeps
    <2> QED
      BY <1>2, <2>1, <2>2, <2>3 DEF AddDisplay
  <1> QED
    BY <1>1, <1>2, ListKeeps, RefusedKeeps, StoredKeeps, ErrorKeeps DEF NextDisplays

LEMMA ChildInvHolds == SpecDisplays => []ChildInv
  BY InitChildInv, ChildInvStep, HintInvOfDisplays, PTL DEF SpecDisplays

-----------------------------------------------------------------------------
\* However requests fail and children are reused, the child of a key is the
\* one that shows it.
THEOREM OneWayOrTheOther == SpecDisplays => []LookupsAgree
  <1>1. ChildInv => LookupsAgree
    BY OfShown DEF LookupsAgree
  <1> QED
    BY <1>1, ChildInvHolds, PTL

\* No display is smaller than the hint for its key, for as many displays, keys
\* and sizes as there may be.
THEOREM NeverTooSmall == SpecDisplays => []FramebufferFits
  <1>1. ChildInv => FramebufferFits
    BY DEF ChildInv
  <1> QED
    BY <1>1, ChildInvHolds, PTL

\* A child that Windows is told is connected has a display.
THEOREM NeverWithoutDisplay == SpecDisplays => []ConnectedHasDisplay
  <1>1. ChildInv => ConnectedHasDisplay
    BY DEF ChildInv
  <1> QED
    BY <1>1, ChildInvHolds, PTL

\* LiveDisplayKept of one step and one child.
Kept(c) ==
    HasDisplay(c) /\ child[c].connected /\ child[c].display.connected /\ child'[c].display # NoDisplay
        => /\ child'[c].display.key = child[c].display.key
           /\ child'[c].display.size = child[c].display.size
           /\ child'[c].replaced = child[c].replaced

LEMMA KeptIfSame ==
    ASSUME NEW c, child'[c] = child[c]
    PROVE  Kept(c)
  BY DEF Kept

\* A step that changes one child, which either has no display or keeps it.
LEMMA KeptIfOne ==
    ASSUME ChildInv, NEW d \in Slots, NEW ch, child' = [child EXCEPT ![d] = ch],
           \/ ~(HasDisplay(d) /\ child[d].connected /\ child[d].display.connected)
           \/ ch.display = NoDisplay
           \/ /\ ch.display.key = child[d].display.key
              /\ ch.display.size = child[d].display.size
              /\ ch.replaced = child[d].replaced
    PROVE  \A c \in Slots : Kept(c)
  <1> SUFFICES ASSUME NEW c \in Slots
               PROVE  Kept(c)
    OBVIOUS
  <1>1. CASE c = d
    <2>1. child'[c] = ch
      BY <1>1 DEF ChildInv
    <2> QED
      BY <1>1, <2>1 DEF Kept
  <1>2. CASE c # d
    BY <1>2, KeptIfSame DEF ChildInv
  <1> QED
    BY <1>1, <1>2

LEMMA StepKeepsLive ==
    ASSUME ChildInv, NextDisplays
    PROVE  \A c \in Slots : Kept(c)
  <1>1. ASSUME NEW ds \in Lists, ListChanged(ds)
        PROVE  \A c \in Slots : Kept(c)
    <2>1. \A c \in Slots : /\ child'[c].display = child[c].display
                           /\ child'[c].replaced = child[c].replaced
      BY <1>1 DEF ListChanged, ChildInv, Children
    <2> QED
      BY <2>1 DEF Kept
  <1>2. CASE HintRefused
    <2> DEFINE S == OfKey(Head(list).key)
               d == Lowest(S)
               ch == Destroyed(child[d])
    <2>1. d \in Slots
      <3>1. S \in SUBSET Slots /\ S # {}
        BY <1>2 DEF HintRefused, TooSmall, OfKey
      <3> QED
        BY <3>1, LowestSlot
    <2>2. child' = [child EXCEPT ![d] = ch]
      BY <1>2 DEF HintRefused
    <2> HIDE DEF S, d
    <2>3. ch.display = NoDisplay
      BY <2>1 DEF Destroyed, ChildInv, Children
    <2> HIDE DEF ch
    <2> QED
      BY <2>1, <2>2, <2>3, KeptIfOne
  <1>3. CASE HintStored
    <2>1. \A c \in Slots : /\ child'[c].display = child[c].display
                           /\ child'[c].replaced = child[c].replaced
      BY <1>3 DEF HintStored, Resized, ChildInv, Children
    <2> QED
      BY <2>1 DEF Kept
  <1>4. ASSUME NEW k \in Keys, NEW p \in Ports, AddReconnect(k, p)
        PROVE  \A c \in Slots : Kept(c)
    <2> DEFINE S == Showing(k)
               d == Lowest(S)
    <2>1. d \in Slots
      <3>1. S \in SUBSET Slots /\ S # {}
        BY <1>4 DEF AddReconnect, Showing
      <3> QED
        BY <3>1, LowestSlot
    <2>2. \E ch : child' = [child EXCEPT ![d] = ch]
      BY <1>4 DEF AddReconnect
    <2>3. ~(child[d].connected /\ child[d].display.connected)
      BY <1>4 DEF AddReconnect, IsConnected
    <2> HIDE DEF S, d
    <2> QED
      BY <2>1, <2>2, <2>3, KeptIfOne
  <1>5. ASSUME NEW k \in Keys, NEW p \in Ports, AddNew(k, p)
        PROVE  \A c \in Slots : Kept(c)
    <2>1. CASE child' = child
      BY <2>1, KeptIfSame
    <2>2. CASE Available(k) # {}
      <3> DEFINE d == Lowest(Available(k))
      <3>1. d \in Slots /\ ~HasDisplay(d)
        BY <1>5, <2>2, FreeChild DEF AddNew
      <3>2. \E ch : child' = [child EXCEPT ![d] = ch]
        BY <1>5, <2>2 DEF AddNew
      <3> HIDE DEF d
      <3> QED
        BY <3>1, <3>2, KeptIfOne
    <2> QED
      BY <1>5, <2>1, <2>2 DEF AddNew
  <1>6. ASSUME NEW k \in Keys, NEW p \in Ports, AddOutOfOrder(k, p) \/ AddModeSet(k, p)
        PROVE  \A c \in Slots : Kept(c)
    BY <1>6, KeptIfSame DEF AddOutOfOrder, AddModeSet, displayVars
  <1>7. ASSUME NEW d \in Slots, DisplayError(d)
        PROVE  \A c \in Slots : Kept(c)
    <2>1. \A c \in Slots : /\ HasDisplay(c) => /\ child'[c].display.key = child[c].display.key
                                               /\ child'[c].display.size = child[c].display.size
                           /\ child'[c].replaced = child[c].replaced
      BY <1>7 DEF DisplayError, HasDisplay, ChildInv, Children, PVDisplays
    <2> QED
      BY <2>1 DEF Kept
  <1>8. ASSUME NEW d \in Slots, ReplacedDisplayError(d)
        PROVE  \A c \in Slots : Kept(c)
    <2>1. \A c \in Slots : /\ child'[c].display = child[c].display
                           /\ child'[c].replaced = child[c].replaced
      BY <1>8 DEF ReplacedDisplayError, ChildInv, Children
    <2> QED
      BY <2>1 DEF Kept
  <1> QED
    BY <1>1, <1>2, <1>3, <1>4, <1>5, <1>6, <1>7, <1>8 DEF NextDisplays, AddDisplay

\* A display in use is not replaced, whatever is asked for.
THEOREM InUseIsKept == SpecDisplays => LiveDisplayKept
  <1>1. ChildInv /\ [NextDisplays]_displayVars => [\A c \in Slots : Kept(c)]_displayVars
    BY StepKeepsLive
  <1> QED
    BY <1>1, ChildInvHolds, PTL DEF SpecDisplays, LiveDisplayKept, Kept
=============================================================================
