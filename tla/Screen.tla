-------------------------------- MODULE Screen --------------------------------
(***************************************************************************)
(* One child between Windows and the host.  On Windows' side, dxgkrnl      *)
(* presents frames (PresentDisplayOnly) on one thread and commits modes,   *)
(* shows and hides the source, moves the pointer and switches power on     *)
(* another.  On the host's side, IVC callbacks add, replace, disconnect    *)
(* and refuse the display, one at a time, and a display may report an      *)
(* error.  Between them, a DPC tells Windows whether the child is          *)
(* connected.                                                              *)
(*                                                                         *)
(* What they share is the child's _display, the address of its             *)
(* framebuffer, its connection and its blanking.  _fb_mutex is taken by    *)
(* some of them; critical sections that only the holders of the mutex can  *)
(* see into are one action.  Module Displays says which display the host   *)
(* adds or refuses, module Modes at which size, module Frame what is       *)
(* copied.  blank_display is modelled as it is with DH_CAP_BLANKING, which *)
(* no file of the driver defines; without it it does nothing.              *)
(***************************************************************************)
EXTENDS Naturals

CONSTANTS Displays,     \* display objects; a name is used again when nothing refers to it
          Null

\* There is always one display more than the child and its users refer to.
ASSUME ScreenAssumption ==
    /\ Null \notin Displays
    /\ \A a, b, c, d \in Displays \union {Null} : \E new \in Displays : new \notin {a, b, c, d}

VARIABLES
    disp,       \* PVChild::_display
    live,       \* the display objects that exist
    ptr,        \* the display whose framebuffer FrameBuffer.Ptr points to
    connected,  \* PVChild::_connected
    pending,    \* PVChild::_pending
    active,     \* Flags.FrameBufferIsActive
    told,       \* the connection state Windows was told last
    dpc,        \* where UpdateConnectionDPC is
    power,      \* is m_MonitorPowerState D0?
    hidden,     \* Flags.SourceNotVisible
    blanked,    \* PVChild::_blanked
    dark,       \* has the host been told to blank the display?
    shown,      \* has Windows made the source visible, and not hidden it or resumed since?
    at,         \* where each thread is
    op,         \* what the thread of dxgkrnl is doing
    dst,        \* the framebuffer a present is copying to
    held,       \* the display a pointer operation has read
    overlap     \* has an operation met a change by the host that nothing keeps apart,
                \* and the child not had a new display since?

connection == <<connected, pending>>
view == <<active, told, dpc>>
picture == <<blanked, dark, shown, hidden>>
threads == <<at, op, dst, held>>
vars == <<disp, live, ptr, connection, view, power, picture, threads, overlap>>

Threads == {"present", "windows", "host"}
Ops == {"none", "commit", "show", "hide", "monitor on", "monitor off", "resume", "pointer"}
InMutex == {"copy", "unblank", "unblanked", "reconnect"}
Adding == {"reset", "register", "map", "register new", "map new", "connect new"} \union InMutex
Points == {"idle", "commit", "test", "blank", "store", "visibility", "cursor", "powered",
           "pointer", "crashed"} \union Adding

\* _fb_mutex
MutexFree == \A t \in Threads : at[t] \notin InMutex

Goto(t, point) == at' = [at EXCEPT ![t] = point]

\* A thread uses the display it finds at d, and goes on; without a display
\* there the system crashes.
Use(t, d, point) ==
    at' = IF d \in live THEN [at EXCEPT ![t] = point] ELSE [u \in Threads |-> "crashed"]

\* UpdateConnection
Report == pending' = TRUE

Init ==
    /\ disp = Null /\ live = {} /\ ptr = Null
    /\ connected = FALSE /\ pending = FALSE
    /\ active = FALSE /\ told = FALSE /\ dpc = "idle"
    /\ power = TRUE /\ hidden = FALSE /\ blanked = FALSE /\ dark = FALSE /\ shown = FALSE
    /\ at = [t \in Threads |-> "idle"] /\ op = "none"
    /\ dst = Null /\ held = Null
    /\ overlap = FALSE

-----------------------------------------------------------------------------
(***************************************************************************)
(* The host.                                                               *)
(***************************************************************************)
HostIdle == at["host"] = "idle"

RefuseDisplay ==
    /\ HostIdle /\ disp # Null
    /\ connected' = FALSE /\ pending' = (pending \/ connected)
    /\ live' = live \ {disp} /\ disp' = Null
    /\ overlap' = (overlap \/ at["windows"] # "idle")
    /\ UNCHANGED <<ptr, view, power, picture, threads>>

\* Mutants: _fb_mutex is not taken; the child stays connected; _display is kept.
DestroyUnlocked == RefuseDisplay
DestroyConnected ==
    /\ MutexFree
    /\ HostIdle /\ disp # Null
    /\ live' = live \ {disp} /\ disp' = Null
    /\ overlap' = (overlap \/ at["windows"] # "idle")
    /\ UNCHANGED <<ptr, connection, view, power, picture, threads>>
DestroyDangling ==
    /\ MutexFree
    /\ HostIdle /\ disp \in live
    /\ connected' = FALSE /\ pending' = (pending \/ connected)
    /\ live' = live \ {disp}
    /\ overlap' = (overlap \/ at["windows"] # "idle")
    /\ UNCHANGED <<disp, ptr, view, power, picture, threads>>

\* PVChild::destroy, for a display the host lists with a size it has no room for.
Destroy == MutexFree /\ RefuseDisplay

\* update_connection_status(FALSE): the display is no longer listed, or the
\* provider has failed.
Disconnect ==
    /\ HostIdle /\ MutexFree
    /\ connected' = FALSE /\ Report
    /\ UNCHANGED <<disp, live, ptr, view, power, picture, threads, overlap>>

\* dhcb_handle_display_error, which no request to add a display runs beside,
\* and which takes no _fb_mutex.
DisplayError ==
    /\ HostIdle /\ disp # Null
    /\ connected' = FALSE /\ Report
    /\ UNCHANGED <<disp, live, ptr, view, power, picture, threads, overlap>>

\* A request to add a display that exists begins with reset_guest_mode.
AddExisting ==
    /\ HostIdle /\ disp # Null
    /\ Goto("host", "reset")
    /\ UNCHANGED <<disp, live, ptr, connection, view, power, picture, op, dst, held, overlap>>

\* Mutant: a new display's child is connected before it has it.
AddNewConnected ==
    /\ HostIdle /\ disp = Null /\ MutexFree
    /\ connected' = TRUE /\ Report
    /\ Goto("host", "register new")
    /\ UNCHANGED <<disp, live, ptr, view, power, picture, op, dst, held, overlap>>

AddNew ==
    /\ HostIdle /\ disp = Null
    /\ Goto("host", "register new")
    /\ UNCHANGED <<disp, live, ptr, connection, view, power, picture, op, dst, held, overlap>>

\* register_display: the child has a new display, made beside the old one ...
Fresh == CHOOSE d \in Displays : d \notin {disp, ptr, dst, held}

\* Nobody is at work on the old display, nor will be before the new one is there.
Undisturbed(from) ==
    at["windows"] = "idle" /\ at["present"] = "idle" /\ (from = "register" \/ ~connected)

RegisterDisplay(from, to) ==
    /\ at["host"] = from
    /\ disp' = Fresh
    /\ live' = (live \intersect {disp, ptr, dst, held}) \union {Fresh}
    /\ dark' = FALSE
    /\ overlap' = (overlap /\ ~Undisturbed(from))
    /\ Goto("host", to)
    /\ UNCHANGED <<ptr, connection, view, power, blanked, shown, hidden, op, dst, held>>

\* Mutant: the new framebuffer is not mapped.
MapNothing(from, to) ==
    /\ at["host"] = from
    /\ Goto("host", to)
    /\ UNCHANGED <<disp, live, ptr, connection, view, power, picture, op, dst, held, overlap>>

\* ... and then, without _fb_mutex, the address of its framebuffer.
MapFramebuffer(from, to) ==
    /\ at["host"] = from
    /\ ptr' = disp
    /\ Goto("host", to)
    /\ UNCHANGED <<disp, live, connection, view, power, picture, op, dst, held, overlap>>

\* update_connection_status(TRUE)
ConnectNew ==
    /\ at["host"] = "connect new" /\ MutexFree
    /\ connected' = TRUE /\ Report
    /\ Goto("host", "idle")
    /\ UNCHANGED <<disp, live, ptr, view, power, picture, op, dst, held, overlap>>

-----------------------------------------------------------------------------
(***************************************************************************)
(* reset_guest_mode, called by the host's requests and by Windows' power   *)
(* operations: the monitor is on, not blanked, and connected.              *)
(***************************************************************************)
ResetTo(t, point) ==
    /\ at[t] = "reset" /\ MutexFree
    /\ power' = TRUE
    /\ Goto(t, point)
    /\ UNCHANGED <<disp, live, ptr, connection, view, picture, op, dst, held, overlap>>

\* Mutant: a blanked display is left blanked.
ResetStillBlanked(t) == ResetTo(t, "reconnect")

ResetGuestMode(t) == ResetTo(t, IF blanked THEN "unblank" ELSE "reconnect")

\* blank_display(false, false): the host is told, and _blanked reset.
Unblank(t) ==
    /\ at[t] = "unblank"
    /\ Use(t, disp, "unblanked")
    /\ dark' = FALSE
    /\ UNCHANGED <<disp, live, ptr, connection, view, power, blanked, shown, hidden,
                   op, dst, held, overlap>>

Unblanked(t) ==
    /\ at[t] = "unblanked"
    /\ blanked' = FALSE
    /\ Goto(t, "reconnect")
    /\ UNCHANGED <<disp, live, ptr, connection, view, power, dark, shown, hidden,
                   op, dst, held, overlap>>

\* The framebuffer of a display that is added again may have to be replaced; a
\* monitor that is switched on is un-blanked once more.
AfterReset(t) ==
    IF t = "host" THEN {"idle", "register"}
    ELSE IF op = "monitor on" THEN {"blank"} ELSE {"idle"}

Reconnect(t) ==
    /\ at[t] = "reconnect"
    /\ connected' = TRUE /\ Report
    /\ \E next \in AfterReset(t) : Goto(t, next)
    /\ UNCHANGED <<disp, live, ptr, view, power, picture, op, dst, held, overlap>>

-----------------------------------------------------------------------------
(***************************************************************************)
(* dxgkrnl's operations.  Windows acts on monitors it was told of; only an *)
(* adapter is resumed without one.  Commits, the power of a monitor and    *)
(* the first read of a pointer operation do not look whether the child is  *)
(* still connected.  After D3 "the device visibility [is] defined to be    *)
(* off": a source is visible again when Windows shows it again.            *)
(***************************************************************************)
FirstPoint(o) ==
    CASE o = "commit" -> "commit"
      [] o \in {"show", "hide", "resume"} -> "test"
      [] o = "monitor on" -> "cursor"
      [] o = "monitor off" -> "blank"
      [] o = "pointer" -> "pointer"

Begin(o) ==
    /\ at["windows"] = "idle"
    /\ told \/ o = "resume"
    /\ op' = o
    /\ Goto("windows", FirstPoint(o))
    /\ held' = IF o = "pointer" THEN disp ELSE Null
    /\ shown' = (shown /\ o # "resume")
    /\ overlap' = (overlap \/ (o \in {"commit", "monitor on", "monitor off", "pointer"} /\ ~connected))
    /\ UNCHANGED <<disp, live, ptr, connection, view, power, hidden, blanked, dark, dst>>

\* SetSourceModeAndPath: update_mode uses _display under the mutex.
Commit ==
    /\ at["windows"] = "commit" /\ MutexFree
    /\ Use("windows", disp, "idle")
    /\ UNCHANGED <<disp, live, ptr, connection, view, power, picture, op, dst, held, overlap>>

\* SetVidPnSourceVisibility and a resume do nothing to a child that is not
\* connected, ...
TestConnected ==
    /\ at["windows"] = "test"
    /\ Goto("windows", IF connected THEN "blank" ELSE "idle")
    /\ UNCHANGED <<disp, live, ptr, connection, view, power, picture, op, dst, held, overlap>>

\* ... and blank_display does not take the mutex.
Darkens == op \in {"hide", "resume", "monitor off"}

Blank ==
    /\ at["windows"] = "blank"
    /\ Use("windows", disp, "store")
    /\ dark' = Darkens
    /\ overlap' = (overlap \/ at["host"] \in {"unblank", "unblanked"})
    /\ UNCHANGED <<disp, live, ptr, connection, view, power, blanked, shown, hidden, op, dst, held>>

StoreBlanked ==
    /\ at["windows"] = "store"
    /\ blanked' = Darkens
    /\ Goto("windows", CASE op \in {"show", "hide"} -> "visibility"
                         [] op = "resume" -> "reset"
                         [] OTHER -> "powered")
    /\ UNCHANGED <<disp, live, ptr, connection, view, power, dark, shown, hidden,
                   op, dst, held, overlap>>

\* SetVidPnSourceVisibility ends.
StoreVisibility ==
    /\ at["windows"] = "visibility"
    /\ hidden' = (op = "hide") /\ shown' = (op = "show")
    /\ Goto("windows", "idle")
    /\ UNCHANGED <<disp, live, ptr, connection, view, power, blanked, dark, op, dst, held, overlap>>

\* update_wake_state: set_cursor_state, then reset_guest_mode.
SetCursorState ==
    /\ at["windows"] = "cursor"
    /\ Use("windows", disp, "reset")
    /\ UNCHANGED <<disp, live, ptr, connection, view, power, picture, op, dst, held, overlap>>

\* SetPowerState of a monitor ends.
StorePower ==
    /\ at["windows"] = "powered"
    /\ power' = (op = "monitor on")
    /\ Goto("windows", "idle")
    /\ UNCHANGED <<disp, live, ptr, connection, view, picture, op, dst, held, overlap>>

\* SetPointerPosition, SetPointerShape: _display is read first, and used if the
\* child is connected.
UsePointer ==
    /\ at["windows"] = "pointer"
    /\ IF connected THEN Use("windows", held, "idle") ELSE Goto("windows", "idle")
    /\ held' = Null
    /\ UNCHANGED <<disp, live, ptr, connection, view, power, picture, op, dst, overlap>>

-----------------------------------------------------------------------------
\* PresentDisplayOnly: under the mutex, if the source is active, on and visible.
BeginPresent ==
    /\ at["present"] = "idle" /\ MutexFree
    /\ active /\ power /\ ~hidden
    /\ dst' = ptr
    /\ overlap' = (overlap \/ ~connected)
    /\ Goto("present", "copy")
    /\ UNCHANGED <<disp, live, ptr, connection, view, power, picture, op, held>>

\* InvalidateRegion, and the end of the present.
EndPresent ==
    /\ at["present"] = "copy"
    /\ IF connected THEN Use("present", disp, "idle") ELSE Goto("present", "idle")
    /\ dst' = Null
    /\ UNCHANGED <<disp, live, ptr, connection, view, power, picture, op, held, overlap>>

\* UpdateConnectionDPC reads the connection, tells Windows, which may fail, and
\* resets the flag.
DpcIndicates ==
    /\ dpc = "idle" /\ pending
    /\ active' = connected /\ told' \in {connected, told}
    /\ dpc' = "reset"
    /\ UNCHANGED <<disp, live, ptr, connection, power, picture, threads, overlap>>

DpcResets ==
    /\ dpc = "reset"
    /\ pending' = FALSE
    /\ dpc' = "idle"
    /\ UNCHANGED <<disp, live, ptr, connected, active, told, power, picture, threads, overlap>>

\* dxgkrnl may also ask: QueryChildStatus.
Poll ==
    /\ told' = (active /\ connected)
    /\ UNCHANGED <<disp, live, ptr, connection, active, dpc, power, picture, threads, overlap>>

-----------------------------------------------------------------------------
HostSteps ==
    \/ Destroy \/ Disconnect \/ DisplayError \/ AddExisting \/ AddNew
    \/ RegisterDisplay("register", "map") \/ MapFramebuffer("map", "idle")
    \/ RegisterDisplay("register new", "map new") \/ MapFramebuffer("map new", "connect new")
    \/ ConnectNew

ResetSteps(t) == ResetGuestMode(t) \/ Unblank(t) \/ Unblanked(t) \/ Reconnect(t)

WindowsSteps ==
    \/ \E o \in Ops \ {"none"} : Begin(o)
    \/ Commit \/ TestConnected \/ Blank \/ StoreBlanked \/ StoreVisibility
    \/ SetCursorState \/ StorePower \/ UsePointer

Next ==
    \/ HostSteps \/ WindowsSteps
    \/ \E t \in {"windows", "host"} : ResetSteps(t)
    \/ BeginPresent \/ EndPresent
    \/ DpcIndicates \/ DpcResets \/ Poll

Spec == Init /\ [][Next]_vars

-----------------------------------------------------------------------------
\* The types; and _display never points to a display that was destroyed.
TypeOK ==
    /\ live \subseteq Displays /\ disp \in live \union {Null}
    /\ {ptr, dst, held} \subseteq Displays \union {Null}
    /\ {connected, pending, active, told, power, hidden, blanked, dark, shown, overlap}
          \subseteq BOOLEAN
    /\ dpc \in {"idle", "reset"}
    /\ at \in [Threads -> Points] /\ op \in Ops

\* A framebuffer is never taken away under a present that copies to it, even
\* if the present began after the child was disconnected.
FramebufferKept == [][at["present"] = "copy" /\ dst \in live => dst \in live']_vars

\* A present copies to the framebuffer of a display that exists, though the
\* address is stored, and the display replaced, without the mutex; unless an
\* operation has overlapped with a change by the host.
PresentTargetLives == at["present"] = "copy" /\ ~overlap => dst \in live

\* When the host is done with a request, a child that is connected has a
\* display, and what is presented goes to its framebuffer.
ConnectedIsMapped ==
    HostIdle /\ connected /\ ~overlap => disp \in live /\ ptr = disp

\* No operation of Windows uses a display that is not there, unless it has
\* overlapped with a change by the host.
CrashNeedsOverlap == at["host"] = "crashed" => overlap

\* Whatever sequence of power operations, host requests and disconnections
\* follows, a source that Windows has made visible, since the last resume from
\* D3 if there was one, is not left blanked while the driver has its monitor
\* on: whoever switches the monitor on, a host that adds the display again
\* among them, un-blanks it.
VisibleIsLit ==
    HostIdle /\ at["windows"] = "idle" /\ shown /\ power /\ ~overlap => ~dark
=============================================================================
