---------------------------- MODULE DisplayHints ----------------------------
(***************************************************************************)
(* The table display_hints: for each display the host has listed, a slot   *)
(* with its key and desired size.  dpcb_host_displays_changed first        *)
(* releases the slots of displays that are not listed any more and then    *)
(* stores the listed ones, one at a time; dp_get_recommended_size looks a  *)
(* key up when the display is added.  A released slot keeps its contents.  *)
(*                                                                         *)
(* A stop of the device deletes the children and releases every slot, and  *)
(* may come between any two steps.                                         *)
(***************************************************************************)
EXTENDS Naturals, Sequences

CONSTANTS N,            \* PV_MAX_DISPLAYS, also the number of children
          Keys,         \* the keys the display handler uses
          Sizes,        \* the sizes it asks for
          BigSizes,     \* those that do not fit an HD framebuffer
          WindowKey,    \* key 1, the display in windowed mode
          NoKey,        \* 0, the key of a slot that was never used
          NoSize,       \* the size 0 x 0 of such a slot
          DefaultSize   \* default_width_pixels x default_height_pixels

ASSUME HintsAssumption ==
    /\ N \in Nat \ {0}
    /\ NoKey \notin Keys
    /\ NoSize \notin Sizes
    /\ BigSizes \subseteq Sizes

VARIABLES
    hints,      \* display_hints
    children,   \* do the children exist?
    list,       \* the displays of the host's list that are still to be stored
    full        \* did dp_set_display_hint find no free slot (-EINVAL)?

vars == <<hints, children, list, full>>

Slots == 1 .. N
BufferTypes == {"HD", "FOURK", "STATIC"}
Hints == [present : BOOLEAN, key : Keys \union {NoKey},
          size : Sizes \union {NoSize}, type : BufferTypes]
Displays == [key : Keys, size : Sizes]

-----------------------------------------------------------------------------
(***************************************************************************)
(* The operations on a table h.                                            *)
(***************************************************************************)
\* Mutant: the kind is set for the windowed display only.
BufferTypeUnset(k, s) ==
    IF k # WindowKey THEN "INVALID" ELSE IF s \in BigSizes THEN "FOURK" ELSE "HD"

\* The kind of framebuffer a display of this key and size gets.
BufferType(k, s) ==
    IF k # WindowKey THEN "STATIC" ELSE IF s \in BigSizes THEN "FOURK" ELSE "HD"

Holds(h, k) == {i \in Slots : h[i].present /\ h[i].key = k}
Free(h) == {i \in Slots : ~h[i].present}
Lowest(S) == CHOOSE i \in S : \A j \in S : i <= j

\* Slot i of h comes to hold the display d.
Store(h, i, d) ==
    [h EXCEPT ![i] = [present |-> TRUE, key |-> d.key, size |-> d.size,
                      type |-> BufferType(d.key, d.size)]]

\* Mutant: the slot of an earlier hint for the key is not looked for.
SetHintAnew(h, d) ==
    IF Free(h) # {} THEN Store(h, Lowest(Free(h)), d) ELSE h

\* Mutant: a full table loses its first hint.
SetHintOverwriting(h, d) ==
    IF Holds(h, d.key) # {} THEN Store(h, Lowest(Holds(h, d.key)), d)
    ELSE IF Free(h) # {} THEN Store(h, Lowest(Free(h)), d)
    ELSE Store(h, 1, d)

\* dp_set_display_hint: the slot of the key is updated, or else the first
\* free slot used; if there is none the table stays as it is.
SetHint(h, d) ==
    IF Holds(h, d.key) # {} THEN Store(h, Lowest(Holds(h, d.key)), d)
    ELSE IF Free(h) # {} THEN Store(h, Lowest(Free(h)), d)
    ELSE h

HasRoom(h, d) == Holds(h, d.key) \union Free(h) # {}

\* dp_determine_displays_to_remove: the present slots whose key is not listed
\* are released, but for those without a child of the same index.
Unlisted(h, keys) == {i \in Slots : h[i].present /\ h[i].key \notin keys}

Release(h, slots) == [i \in Slots |-> IF i \in slots THEN [h[i] EXCEPT !.present = FALSE] ELSE h[i]]

\* dp_get_recommended_size looks at released slots too.
RecommendedSize(h, k) ==
    LET of == {i \in Slots : h[i].key = k}
    IN  IF of = {} THEN DefaultSize ELSE h[Lowest(of)].size

-----------------------------------------------------------------------------
NoHint == [present |-> FALSE, key |-> NoKey, size |-> NoSize, type |-> "HD"]

\* A driver that has just been loaded and started.
Init ==
    /\ hints = [i \in Slots |-> NoHint]
    /\ children = TRUE
    /\ list = <<>>
    /\ full = FALSE

\* The keys of the displays ds.
KeysOf(ds) == {ds[i].key : i \in DOMAIN ds}

\* Bound: the host lists at most N displays, each with a key of its own.
Lists == {ds \in UNION {[1 .. n -> Displays] : n \in 0 .. N} :
             \A i, j \in DOMAIN ds : ds[i].key = ds[j].key => i = j}

\* Mutant: nothing is released.
HostDisplaysChangedKeeping(ds) ==
    /\ list = <<>>
    /\ list' = ds
    /\ UNCHANGED <<hints, children, full>>

\* dpcb_host_displays_changed: slots are released ...
HostDisplaysChanged(ds) ==
    /\ list = <<>>
    /\ list' = ds
    /\ hints' = Release(hints, IF children THEN Unlisted(hints, KeysOf(ds)) ELSE {})
    /\ UNCHANGED <<children, full>>

\* ... and then each display is stored, ...
SetDisplayHint ==
    /\ list # <<>>
    /\ list' = Tail(list)
    /\ hints' = SetHint(hints, Head(list))
    /\ full' = (full \/ ~HasRoom(hints, Head(list)))
    /\ UNCHANGED children

\* ... unless verify_new_hint refuses it.
RefuseHint ==
    /\ list # <<>>
    /\ list' = Tail(list)
    /\ UNCHANGED <<hints, children, full>>

\* CleanUpChildren deletes the children and calls destroy_hints.
DestroyHints ==
    /\ children
    /\ children' = FALSE
    /\ hints' = Release(hints, Slots)
    /\ UNCHANGED <<list, full>>

\* InitPVChildren: the previous provider is gone, and its callbacks with it.
InitPVChildren ==
    /\ ~children
    /\ list = <<>>
    /\ children' = TRUE
    /\ UNCHANGED <<hints, list, full>>

Next ==
    \/ \E ds \in Lists : HostDisplaysChanged(ds)
    \/ SetDisplayHint
    \/ RefuseHint
    \/ DestroyHints
    \/ InitPVChildren

Spec == Init /\ [][Next]_vars

-----------------------------------------------------------------------------
\* The type of the table and of the list being worked through.
TypeOK ==
    /\ hints \in [Slots -> Hints]
    /\ children \in BOOLEAN
    /\ list \in Seq(Displays)
    /\ full \in BOOLEAN

\* The lookup of a key that has a present slot gives that slot's size, though
\* dp_get_recommended_size does not ask whether a slot is present.
LookupIsCurrent ==
    \A i \in Slots : hints[i].present => RecommendedSize(hints, hints[i].key) = hints[i].size

\* While the children exist a list that names at most N displays always finds
\* room: what the previous list left behind has been released before.  (A stop
\* may delete the children while a list is worked through.)
RoomForAll == [][children /\ list # <<>> /\ list' = Tail(list) => full' = full]_<<list, full>>

\* The size the table desires for each key.
DesiredSize ==
    [k \in Keys |-> IF Holds(hints, k) = {} THEN NoSize ELSE hints[Lowest(Holds(hints, k))].size]

\* The table of slots implements a map from keys to sizes.
Map == INSTANCE HintMap WITH map <- DesiredSize
ImplementsMap == Map!Spec
=============================================================================
