-------------------------------- MODULE Modes --------------------------------
(***************************************************************************)
(* The modes of one child: the list offered to Windows, rebuilt whenever   *)
(* the host asks for a size (PVChild::update_available_resolutions), the   *)
(* mode Windows commits (SetSourceModeAndPath) and the one its display     *)
(* shows.                                                                  *)
(*                                                                         *)
(* The list is replaced and read under _mode_mutex, and one action is what *)
(* the callback or the DDI does between two uses of it.  Sizes are numbers *)
(* of pixels; the 32 bits the code counts bytes in suffice for them.       *)
(***************************************************************************)
EXTENDS Naturals, Sequences

CONSTANTS Base,         \* base_disp_list
          Requests,     \* the dimensions the host asks for
          HD, FourK,    \* the dimensions of the two framebuffers of windows
          DefaultDims,  \* default_width_pixels, default_height_pixels
          NoDims        \* the mode of a display that is not there

Dims == [width : Nat, height : Nat]
Pixels(d) == d.width * d.height
NumBase == Len(Base)        \* NUM_BASE_RESOLUTIONS

ASSUME ModesAssumption ==
    /\ Base \in Seq(Dims) /\ Base # <<>>
    /\ Requests \subseteq Dims
    /\ {HD, FourK, DefaultDims} \subseteq Dims
    /\ NoDims \notin Dims

VARIABLES
    modes,      \* _available_resolutions, with _num_resolutions entries
    offered,    \* the modes Windows was last given
    room,       \* _display->framebuffer_size
    disp,       \* DispInfo: Width and Height
    shown,      \* the resolution of _display, NoDims when it is NULL
    apart       \* why the mode of Windows may not be what is shown

vars == <<modes, offered, room, disp, shown, apart>>

\* The sizes a display may be recommended: those of the hints, or the default.
Sizes == Requests \union {DefaultDims}

Entries(l) == {l[i] : i \in DOMAIN l}
Wider(d, e) == d.width > e.width \/ d.height > e.height

-----------------------------------------------------------------------------
\* The entries with more pixels than d.
Bigger(l, d) == {i \in DOMAIN l : Pixels(l[i]) > Pixels(d)}

\* d is in the list, before any entry that is bigger.
Known(l, d) == \E i \in DOMAIN l : l[i] = d /\ \A j \in Bigger(l, d) : i < j

\* The list ends where the first bigger entry is; without one at the last of
\* the base list, or after it if d is wider or higher than that.
NewSize(l, d) ==
    LET upTo == IF Bigger(l, d) = {} THEN NumBase
                ELSE CHOOSE i \in Bigger(l, d) : \A j \in Bigger(l, d) : i <= j
    IN  IF upTo = NumBase /\ Wider(d, Base[NumBase]) THEN NumBase + 1 ELSE upTo

\* Mutant: the new entry is added to the list as it was.
Appended(l, d) == Append(l, d)

\* Mutant: the entries are copied from the list as it was.
Shortened(l, d) ==
    [i \in 1 .. NewSize(l, d) |-> IF i = NewSize(l, d) \/ i \notin DOMAIN l THEN d ELSE l[i]]

\* Mutant: the last entry of the base list is not overwritten.
RebuiltKeepingBase(l, d) ==
    [i \in 1 .. NewSize(l, d) |-> IF i = NumBase + 1 THEN d ELSE Base[i]]

\* The entries of the base list, the last one overwritten with d.
Rebuilt(l, d) ==
    [i \in 1 .. NewSize(l, d) |-> IF i = NewSize(l, d) THEN d ELSE Base[i]]

\* update_available_resolutions: the list is left alone if it was never
\* allocated, if d does not fit in the framebuffer or is there already, or
\* if there is no memory for a new one.
Updated(l, d, r, memory) ==
    IF l = <<>> \/ Pixels(d) > r \/ Known(l, d) \/ ~memory THEN l ELSE Rebuilt(l, d)

-----------------------------------------------------------------------------
Init ==
    /\ \E memory \in BOOLEAN : modes = IF memory THEN Base ELSE <<>>
    /\ offered = {}
    /\ room = 0
    /\ disp = DefaultDims
    /\ shown = NoDims
    /\ apart = "no"

\* The framebuffer created for a display of size d: what it asks for, or for a
\* window the bigger or the smaller of two.
Room(d, window) ==
    IF ~window THEN Pixels(d) ELSE IF Wider(d, HD) THEN Pixels(FourK) ELSE Pixels(HD)

\* A display is created at size d and registered with the child, in place of
\* the one it may have had.
RegisterDisplay(d, window, memory) ==
    /\ room' = Room(d, window)
    /\ shown' = d
    /\ disp' = d
    /\ apart' = "no"
    /\ UNCHANGED offered
    /\ modes' = Updated(modes, d, room', memory)

\* The display is destroyed.
DestroyDisplay ==
    /\ shown # NoDims
    /\ shown' = NoDims
    /\ room' = 0
    /\ UNCHANGED <<modes, offered, disp, apart>>

\* The host lists the display with size d, which its framebuffer has room for.
HintStored(d, memory) ==
    /\ shown # NoDims
    /\ Pixels(d) <= room
    /\ UNCHANGED <<offered, room, disp, shown, apart>>
    /\ modes' = Updated(modes, d, room, memory)

\* The host asks for a mode set (dh_react_host_modeset): the display is given
\* the recommended size, which it may refuse, and Windows a list of modes with
\* it.  The default size need not fit in the framebuffer.
HostModeSet(d, memory) ==
    /\ shown # NoDims
    /\ d = DefaultDims \/ Pixels(d) <= room
    /\ shown' \in {d, shown}
    /\ apart' = "host"
    /\ UNCHANGED <<offered, room, disp>>
    /\ modes' = Updated(modes, d, room, memory)

\* Windows enumerates the modes of the child.
Enumerate ==
    /\ offered' = Entries(modes)
    /\ UNCHANGED <<modes, room, disp, shown, apart>>

\* Mutant: the height is not compared.
CurrentModeWidth(m) == IF disp.width # m.width THEN m ELSE disp

\* UpdateCurrentMode
CurrentMode(m) == IF Wider(disp, m) \/ Wider(m, disp) THEN m ELSE disp

TooBig(m) == Wider(m, FourK)

\* update_mode: the display is given the mode unless that is too big; it may
\* refuse it.  Its caller is told of neither.
UpdateMode(m) ==
    \/ /\ TooBig(m)
       /\ apart' = "too big"
       /\ UNCHANGED shown
    \/ /\ ~TooBig(m)
       /\ shown' \in {m, shown}
       /\ apart' = IF shown' = m THEN "no" ELSE "refused"

\* Windows commits one of the modes it was given.
SetSourceModeAndPath(m) ==
    /\ shown # NoDims
    /\ m \in offered
    /\ disp' = CurrentMode(m)
    /\ UpdateMode(m)
    /\ UNCHANGED <<modes, offered, room>>

Next ==
    \/ \E d \in Sizes, window, memory \in BOOLEAN : RegisterDisplay(d, window, memory)
    \/ \E d \in Requests, memory \in BOOLEAN : HintStored(d, memory)
    \/ \E d \in Sizes, memory \in BOOLEAN : HostModeSet(d, memory)
    \/ DestroyDisplay
    \/ Enumerate
    \/ \E m \in offered : SetSourceModeAndPath(m)

Spec == Init /\ [][Next]_vars

-----------------------------------------------------------------------------
\* The type of the modes; a list is never longer than the base list and one.
TypeOK ==
    /\ modes \in Seq(Dims) /\ Len(modes) <= NumBase + 1
    /\ offered \subseteq Dims
    /\ room \in Nat
    /\ disp \in Dims
    /\ shown \in Dims \union {NoDims}
    /\ apart \in {"no", "refused", "too big", "host"}

\* Whatever sizes the host asks for one after the other, the list is a part of
\* the base list from its start, with at most one entry at its end that is not.
BaseFirst ==
    \A i \in 1 .. Len(modes) : i < Len(modes) => modes[i] = Base[i]

\* The size a display is created with, given by the host or listed with is one
\* Windows can choose, whatever the list was before.
RequestedOffered ==
    [][\A d \in Sizes :
          \/ \E window \in BOOLEAN : RegisterDisplay(d, window, TRUE)
          \/ HostModeSet(d, TRUE)
          \/ d \in Requests /\ HintStored(d, TRUE)
          => modes = <<>> \/ Pixels(d) > room' \/ d \in Entries(modes')]_vars

\* Windows and the display have the same resolution, unless the display
\* refused Windows', it was too big to be given to it, or the host has set
\* another one which Windows has not answered with a commit.
ModeAgrees == shown # NoDims /\ apart = "no" => disp = shown

\* PVChild.cpp:725 "This width and height should be the largest resolution
\* available to the monitor (eg, we can scale down, but not up)": no mode in the
\* list of a child with a display needs more room than its framebuffer has.
OfferedFits == shown # NoDims => \A e \in Entries(modes) : Pixels(e) <= room
=============================================================================
