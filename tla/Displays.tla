------------------------------ MODULE Displays ------------------------------
(***************************************************************************)
(* The children of the adapter and the paravirtual displays they show.     *)
(* The display handler lists its displays (the table of module             *)
(* DisplayHints) and asks for each to be added; a display whose connection *)
(* fails reports an error, and its child is disconnected.                  *)
(*                                                                         *)
(* The callbacks of the provider come one at a time.  The callback for a   *)
(* display's error is concurrent with them, but DisplayHelperMutex makes   *)
(* it and dpcb_add_display_request one step each.  The device is started   *)
(* throughout; sizes are numbers of bytes.                                 *)
(***************************************************************************)
EXTENDS DisplayHints

CONSTANTS Ports,        \* the event ports of the display handler's requests
          NoPort,       \* the port of a child that never had one
          NoDisplay,    \* a child's _display when it is NULL
          HDSize,       \* the size of an HD framebuffer
          FourKSize,    \* the size of a 4K framebuffer
          Unset         \* what an uninitialized _buffer_type may hold

ASSUME DisplaysAssumption ==
    /\ Sizes \union {NoSize, DefaultSize, HDSize, FourKSize} \subseteq Nat
    /\ \A s \in Sizes \union {NoSize, DefaultSize} : s <= IF s \in BigSizes THEN FourKSize ELSE HDSize
    /\ HDSize <= FourKSize
    /\ Unset # {} /\ Unset \subseteq BufferTypes \union {"INVALID"}
    /\ NoDisplay \notin [key : Keys, size : Nat, connected : BOOLEAN]

VARIABLES
    child       \* m_CurrentModes[..].pPVChild

displayVars == <<hints, children, list, full, child>>

\* A display knows its own key, the size of its framebuffer and whether the
\* library has it connected.
PVDisplays == [key : Keys, size : Nat, connected : BOOLEAN]

Children == [key : Keys \union {NoKey}, display : PVDisplays \union {NoDisplay},
             connected : BOOLEAN, port : Ports \union {NoPort},
             type : BufferTypes \union {"INVALID"}, resize : BOOLEAN,
             replaced : BOOLEAN]    \* was a display replaced and not destroyed?

HasDisplay(c) == child[c].display # NoDisplay

\* ChildFromKey and dp_find_display_target: the children with the key, those
\* with a display of the key; the first one counts.
OfKey(k) == {c \in Slots : child[c].key = k}
Showing(k) == {c \in Slots : HasDisplay(c) /\ child[c].display.key = k}

\* dh_create_display: a windowed display gets the biggest framebuffer of its
\* kind, another one what it asks for.
Framebuffer(k, s) ==
    IF k # WindowKey THEN s ELSE IF s \in BigSizes THEN FourKSize ELSE HDSize

-----------------------------------------------------------------------------
\* A child that was just constructed; its _buffer_type and
\* _buffer_needs_resize hold whatever the memory held.
NewChild(t, r) ==
    [key |-> NoKey, display |-> NoDisplay, connected |-> FALSE, port |-> NoPort,
     type |-> t, resize |-> r, replaced |-> FALSE]

InitDisplays ==
    /\ Init
    /\ child \in [Slots -> {NewChild(t, r) : t \in Unset, r \in BOOLEAN}]

\* The host's list changes: the children whose index is that of a released
\* slot are disconnected.
ListChanged(ds) ==
    /\ children
    /\ HostDisplaysChanged(ds)
    /\ child' = [c \in Slots |->
                    IF c \in Unlisted(hints, KeysOf(ds)) THEN [child[c] EXCEPT !.connected = FALSE]
                    ELSE child[c]]

\* Mutant: a display that is not connected is not asked for its size.
TooSmallConnected(d) ==
    /\ OfKey(d.key) # {}
    /\ HasDisplay(Lowest(OfKey(d.key)))
    /\ child[Lowest(OfKey(d.key))].connected
    /\ d.size > child[Lowest(OfKey(d.key))].display.size

\* verify_new_hint: does the child of the key have a display too small for d?
TooSmall(d) ==
    /\ OfKey(d.key) # {}
    /\ HasDisplay(Lowest(OfKey(d.key)))
    /\ d.size > child[Lowest(OfKey(d.key))].display.size

\* Mutant: the child stays connected.
DestroyedConnected(ch) ==
    IF ch.display = NoDisplay THEN ch ELSE [ch EXCEPT !.display = NoDisplay, !.key = NoKey]

\* PVChild::destroy
Destroyed(ch) ==
    IF ch.display = NoDisplay THEN [ch EXCEPT !.connected = FALSE]
    ELSE [ch EXCEPT !.connected = FALSE, !.display = NoDisplay, !.key = NoKey]

\* dp_set_buffer_size
Resized(ch, t) ==
    [ch EXCEPT !.type = t, !.resize = ch.resize \/ ch.type # t \/ t = "STATIC"]

\* The next display of the list is refused, and its PV display destroyed, ...
HintRefused ==
    /\ list # <<>>
    /\ TooSmall(Head(list))
    /\ RefuseHint
    /\ child' = [child EXCEPT ![Lowest(OfKey(Head(list).key))] = Destroyed(@)]

\* ... or stored, and the child of the key told of it.
HintStored ==
    /\ list # <<>>
    /\ ~TooSmall(Head(list))
    /\ SetDisplayHint
    /\ LET d == Head(list)
           of == OfKey(d.key)
       IN  child' = IF of = {} \/ ~HasRoom(hints, d) THEN child
                    ELSE [child EXCEPT ![Lowest(of)] = Resized(@, BufferType(d.key, d.size))]

-----------------------------------------------------------------------------
\* dp_create_display for child c, which is nc so far: the display is created
\* and registered (whether it is connected at once is the library's affair);
\* or all five attempts fail; or the resolution is refused and the display
\* destroyed again.
Creations(c, nc, k, p) ==
    {[nc EXCEPT !.display = [key |-> k, size |-> Framebuffer(k, RecommendedSize(hints, k)),
                             connected |-> up],
                !.key = k, !.port = p, !.replaced = @ \/ HasDisplay(c)] : up \in BOOLEAN}
    \union {[nc EXCEPT !.port = p], nc}

\* The display's own port is another than that of the request.
OutOfOrder(c, p) == child[c].display.connected /\ child[c].port # p

\* dpcb_add_display_request for a display that is still connected to another
\* port: nothing is done.
AddOutOfOrder(k, p) ==
    /\ Showing(k) # {}
    /\ OutOfOrder(Lowest(Showing(k)), p)
    /\ UNCHANGED displayVars

\* Mutant: a display whose buffer is to be resized does not count.
IsConnectedAsIs(c) == child[c].connected /\ child[c].display.connected /\ ~child[c].resize

\* The child is connected, and so is its display.
IsConnected(c) == child[c].connected /\ child[c].display.connected

\* The display is there and connected: a mode set only.
AddModeSet(k, p) ==
    /\ Showing(k) # {}
    /\ LET c == Lowest(Showing(k)) IN ~OutOfOrder(c, p) /\ IsConnected(c)
    /\ UNCHANGED <<hints, children, list, full, child>>

\* The display is there but not connected.  The child is connected first; then
\* the display is connected to the new port, which may fail, or replaced by a
\* new one if its buffer is to be resized.
AddReconnect(k, p) ==
    /\ Showing(k) # {}
    /\ LET c == Lowest(Showing(k))
           nc == [child[c] EXCEPT !.connected = TRUE]
       IN  /\ ~OutOfOrder(c, p) /\ ~IsConnected(c)
           /\ \E after \in IF nc.resize THEN Creations(c, nc, k, p)
                           ELSE {[nc EXCEPT !.display.connected = up] : up \in BOOLEAN}
                                \union {nc} :
                child' = [child EXCEPT ![c] = after]
    /\ UNCHANGED <<hints, children, list, full>>

\* Mutant: a child that kept the key of a failed request is not taken again.
AvailableFree(k) == OfKey(NoKey)

\* FindAvailableChild: the children that have the key already, or none.
Available(k) == OfKey(k) \union OfKey(NoKey)

\* A display for a new key, on the first available child; without one the
\* request is dropped.
AddNew(k, p) ==
    /\ Showing(k) = {}
    /\ IF Available(k) = {} THEN UNCHANGED child
       ELSE LET c == Lowest(Available(k))
                nc == [child[c] EXCEPT !.key = k]
            IN  \E after \in Creations(c, nc, k, p) :
                    child' = [child EXCEPT ![c] =
                        IF after.display = NoDisplay THEN after
                        ELSE [after EXCEPT !.connected = TRUE, !.display.connected = TRUE]]
    /\ UNCHANGED <<hints, children, list, full>>

\* The request is handled between two lists.
AddDisplay(k, p) ==
    /\ list = <<>>
    /\ AddOutOfOrder(k, p) \/ AddModeSet(k, p) \/ AddReconnect(k, p) \/ AddNew(k, p)

\* dhcb_handle_display_error for the display of child c ...
DisplayError(c) ==
    /\ HasDisplay(c)
    /\ child' = [child EXCEPT ![c].connected = FALSE, ![c].display.connected = FALSE]
    /\ UNCHANGED <<hints, children, list, full>>

\* ... or for one that it replaced: the child is disconnected just the same.
ReplacedDisplayError(c) ==
    /\ child[c].replaced
    /\ child' = [child EXCEPT ![c].connected = FALSE]
    /\ UNCHANGED <<hints, children, list, full>>

NextDisplays ==
    \/ \E ds \in Lists : ListChanged(ds)
    \/ HintRefused
    \/ HintStored
    \/ \E k \in Keys, p \in Ports : AddDisplay(k, p)
    \/ \E c \in Slots : DisplayError(c) \/ ReplacedDisplayError(c)

SpecDisplays == InitDisplays /\ [][NextDisplays]_displayVars

-----------------------------------------------------------------------------
\* The driver looks displays up in two ways, through the keys of the children
\* and through the keys of their displays.  Both find the same child, though a
\* request that failed leaves its key behind on a child without a display; so a
\* key has at most one child that shows it, however children are reused.
LookupsAgree ==
    \A c \in Slots : HasDisplay(c) => Lowest(OfKey(child[c].display.key)) = c

\* A display is never too small for the size the host wants of it: the hint
\* that would be is refused, and the display destroyed with its framebuffer.
FramebufferFits ==
    \A i, c \in Slots :
        hints[i].present /\ HasDisplay(c) /\ child[c].display.key = hints[i].key
            => hints[i].size <= child[c].display.size

\* Windows is told of a connected child only when there is a display to
\* present to (send_dirty_rect dereferences it).
ConnectedHasDisplay ==
    \A c \in Slots : child[c].connected => HasDisplay(c)

\* A display that is in use is not replaced by another one: a request for it
\* is a mode set, even if its buffer is to be resized.
LiveDisplayKept ==
    [][\A c \in Slots :
          HasDisplay(c) /\ child[c].connected /\ child[c].display.connected /\ child'[c].display # NoDisplay
              => /\ child'[c].display.key = child[c].display.key
                 /\ child'[c].display.size = child[c].display.size
                 /\ child'[c].replaced = child[c].replaced]_displayVars

\* PVChild.cpp:624 "display removal is handles in display_list changed": the
\* child of a display that was listed and is not listed any more is
\* disconnected.
RemovedByList ==
    [][\A ds \in Lists : ListChanged(ds) =>
          \A i, c \in Slots :
              /\ hints[i].present /\ hints[i].key \notin KeysOf(ds)
              /\ HasDisplay(c) /\ child[c].key = hints[i].key
              => ~child'[c].connected]_displayVars
=============================================================================
