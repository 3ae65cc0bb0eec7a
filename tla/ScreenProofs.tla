----------------------------- MODULE ScreenProofs -----------------------------
(***************************************************************************)
(* What module Screen promises, for any set of displays: presents keep     *)
(* their framebuffer, and it takes an operation of Windows that overlaps   *)
(* with a change by the host to crash, or to leave a visible source dark.  *)
(***************************************************************************)
EXTENDS Screen, TLAPS

\* Where a request of the host is that adds a display to a child without one.
AddingNew == {"register new", "map new", "connect new"}

\* A request that is beyond the creation of its display, or is for one that
\* exists, has a display.
RequestHasDisplay ==
    at["host"] \in (Adding \ {"register new"}) => disp # Null

\* The address of the framebuffer is the one of the child's display but for the
\* moment between register_display's two steps, when it may be the old one's.
AddressIsMapped ==
    /\ disp # Null /\ at["host"] \notin {"map", "map new", "crashed"} => ptr = disp
    /\ at["host"] = "map" => ptr \in live

\* A child that is connected has a display that is not new, ...
ConnectedHasDisplay ==
    connected /\ ~overlap => disp # Null /\ at["host"] \notin AddingNew

\* ... and so has one that Windows does more with than to look whether it is
\* connected.
UsedHasDisplay ==
    at["windows"] \notin {"idle", "test"} /\ ~overlap =>
        disp # Null /\ at["host"] \notin AddingNew

\* The display a pointer operation has read is still there.
HeldLives == at["windows"] = "pointer" /\ ~overlap => held \in live

IndInv ==
    /\ TypeOK
    /\ RequestHasDisplay
    /\ AddressIsMapped
    /\ ConnectedHasDisplay
    /\ UsedHasDisplay
    /\ HeldLives
    /\ PresentTargetLives
    /\ CrashNeedsOverlap

-----------------------------------------------------------------------------
\* A name that nothing refers to can be found for a new display.
LEMMA FreshIsNew == TypeOK => Fresh \in Displays \ {disp, ptr, dst, held}
  <1> SUFFICES ASSUME TypeOK PROVE Fresh \in Displays \ {disp, ptr, dst, held}
    OBVIOUS
  <1>1. disp \in Displays \union {Null} /\ {ptr, dst, held} \subseteq Displays \union {Null}
    BY DEF TypeOK
  <1>2. \E d \in Displays : d \notin {disp, ptr, dst, held}
    BY <1>1, ScreenAssumption
  <1> QED
    BY <1>2 DEF Fresh

\* Windows' operations darken the display or do not.
LEMMA DarkensOrNot == Darkens \in BOOLEAN
  <1>1. (op \in {"hide", "resume", "monitor off"}) \in BOOLEAN
    OBVIOUS
  <1> QED
    BY <1>1 DEF Darkens

\* The initial state has the invariant.
LEMMA InitInd == Init => IndInv
  BY DEF Init, IndInv, TypeOK, RequestHasDisplay, AddressIsMapped, ConnectedHasDisplay,
         UsedHasDisplay, HeldLives, PresentTargetLives, CrashNeedsOverlap,
         Threads, Points, Adding, InMutex, Ops, AddingNew

\* A step that changes nothing has it too.
LEMMA StutterInd == IndInv /\ UNCHANGED vars => IndInv'
  <1> SUFFICES ASSUME IndInv, UNCHANGED vars PROVE IndInv'
    OBVIOUS
  <1> USE DEF vars, connection, view, picture, threads, IndInv
  <1>1. TypeOK'
    BY DEF TypeOK
  <1>2. RequestHasDisplay' /\ AddressIsMapped'
    BY DEF RequestHasDisplay, AddressIsMapped
  <1>3. ConnectedHasDisplay' /\ UsedHasDisplay' /\ HeldLives'
    BY DEF ConnectedHasDisplay, UsedHasDisplay, HeldLives
  <1>4. PresentTargetLives' /\ CrashNeedsOverlap'
    BY DEF PresentTargetLives, CrashNeedsOverlap
  <1> QED
    BY <1>1, <1>2, <1>3, <1>4

\* The steps of the host's requests keep it.
LEMMA HostInd == IndInv /\ HostSteps => IndInv'
  <1> SUFFICES ASSUME IndInv, HostSteps PROVE IndInv'
    OBVIOUS
  <1> USE DEF IndInv, TypeOK, RequestHasDisplay, AddressIsMapped, ConnectedHasDisplay,
              UsedHasDisplay, HeldLives, PresentTargetLives, CrashNeedsOverlap,
              Threads, Points, Adding, InMutex, AddingNew, HostIdle, Goto, MutexFree, Report,
              connection, view, picture, threads
  <1>f. Fresh \in Displays \ {disp, ptr, dst, held}
    BY FreshIsNew
  <1>n. Null \notin Displays
    BY ScreenAssumption
  <1>1. CASE Destroy
    BY <1>1, <1>n, ZenonT(40) DEF Destroy, RefuseDisplay
  <1>2. CASE Disconnect
    BY <1>2 DEF Disconnect
  <1>3. CASE DisplayError
    BY <1>3 DEF DisplayError
  <1>4. CASE AddExisting
    BY <1>4 DEF AddExisting
  <1>5. CASE AddNew
    BY <1>5 DEF AddNew
  <1>6. CASE RegisterDisplay("register", "map")
    BY <1>6, <1>f, <1>n, ZenonT(40) DEF RegisterDisplay, Undisturbed
  <1>7. CASE MapFramebuffer("map", "idle")
    BY <1>7 DEF MapFramebuffer
  <1>8. CASE RegisterDisplay("register new", "map new")
    BY <1>8, <1>f, <1>n, ZenonT(40) DEF RegisterDisplay, Undisturbed
  <1>9. CASE MapFramebuffer("map new", "connect new")
    BY <1>9 DEF MapFramebuffer
  <1>10. CASE ConnectNew
    BY <1>10 DEF ConnectNew
  <1> QED
    BY <1>1, <1>2, <1>3, <1>4, <1>5, <1>6, <1>7, <1>8, <1>9, <1>10 DEF HostSteps

-----------------------------------------------------------------------------
\* So do the steps of reset_guest_mode, whoever called it.
LEMMA ResetInd == ASSUME NEW t \in {"windows", "host"} PROVE IndInv /\ ResetSteps(t) => IndInv'
  <1> SUFFICES ASSUME IndInv, ResetSteps(t) PROVE IndInv'
    OBVIOUS
  <1> USE DEF IndInv, TypeOK, RequestHasDisplay, AddressIsMapped, ConnectedHasDisplay,
              UsedHasDisplay, HeldLives, PresentTargetLives, CrashNeedsOverlap,
              Threads, Points, Adding, InMutex, AddingNew, Goto, MutexFree, Report, Use,
              connection, view, picture, threads
  <1>1. CASE ResetGuestMode(t)
    BY <1>1 DEF ResetGuestMode, ResetTo
  <1>2. CASE Unblank(t)
    BY <1>2 DEF Unblank
  <1>3. CASE Unblanked(t)
    BY <1>3 DEF Unblanked
  <1>4. CASE Reconnect(t)
    BY <1>4, ZenonT(40) DEF Reconnect, AfterReset
  <1> QED
    BY <1>1, <1>2, <1>3, <1>4 DEF ResetSteps

\* The operations of dxgkrnl.
LEMMA WindowsInd == IndInv /\ WindowsSteps => IndInv'
  <1> SUFFICES ASSUME IndInv, WindowsSteps PROVE IndInv'
    OBVIOUS
  <1> USE DEF IndInv, TypeOK, RequestHasDisplay, AddressIsMapped, ConnectedHasDisplay,
              UsedHasDisplay, HeldLives, PresentTargetLives, CrashNeedsOverlap,
              Threads, Points, Adding, InMutex, AddingNew, Goto, MutexFree, Use,
              connection, view, picture, threads
  <1>d. Darkens \in BOOLEAN
    BY DarkensOrNot
  <1>1. ASSUME NEW o \in Ops \ {"none"}, Begin(o) PROVE IndInv'
    <2>1. FirstPoint(o) \in {"commit", "test", "cursor", "blank", "pointer"}
      BY DEF FirstPoint, Ops
    <2>2. FirstPoint(o) # "test" /\ ~overlap' => connected /\ ~overlap
      BY <1>1 DEF Begin, FirstPoint, Ops
    <2>3. FirstPoint(o) = "pointer" => o = "pointer"
      BY DEF FirstPoint, Ops
    <2>4. o \in Ops /\ overlap' \in BOOLEAN
      BY <1>1 DEF Begin
    <2>5. TypeOK'
      BY <1>1, <2>1, <2>4, ZenonT(40) DEF Begin
    <2>6. RequestHasDisplay' /\ AddressIsMapped' /\ PresentTargetLives'
      BY <1>1, <2>1 DEF Begin
    <2>7. CrashNeedsOverlap'
      BY <1>1, <2>1 DEF Begin
    <2>8. ConnectedHasDisplay'
      BY <1>1, <2>1 DEF Begin
    <2>9. UsedHasDisplay'
      BY <1>1, <2>1, <2>2 DEF Begin
    <2>10. HeldLives'
      BY <1>1, <2>1, <2>2, <2>3 DEF Begin
    <2> QED
      BY <2>5, <2>6, <2>7, <2>8, <2>9, <2>10
  <1>2. CASE Commit
    BY <1>2 DEF Commit
  <1>3. CASE TestConnected
    BY <1>3 DEF TestConnected
  <1>4. CASE Blank
    BY <1>4, <1>d, ZenonT(40) DEF Blank
  <1>5. CASE StoreBlanked
    BY <1>5, <1>d DEF StoreBlanked
  <1>6. CASE StoreVisibility
    BY <1>6, ZenonT(40) DEF StoreVisibility
  <1>7. CASE SetCursorState
    BY <1>7 DEF SetCursorState
  <1>8. CASE StorePower
    BY <1>8 DEF StorePower
  <1>9. CASE UsePointer
    BY <1>9 DEF UsePointer
  <1> QED
    BY <1>1, <1>2, <1>3, <1>4, <1>5, <1>6, <1>7, <1>8, <1>9 DEF WindowsSteps

\* The presents and the DPC.
LEMMA PresentInd ==
    IndInv /\ (BeginPresent \/ EndPresent \/ DpcIndicates \/ DpcResets \/ Poll) => IndInv'
  <1> SUFFICES ASSUME IndInv, BeginPresent \/ EndPresent \/ DpcIndicates \/ DpcResets \/ Poll
               PROVE  IndInv'
    OBVIOUS
  <1> USE DEF IndInv, TypeOK, RequestHasDisplay, AddressIsMapped, ConnectedHasDisplay,
              UsedHasDisplay, HeldLives, PresentTargetLives, CrashNeedsOverlap,
              Threads, Points, Adding, InMutex, AddingNew, Goto, MutexFree, Use,
              connection, view, picture, threads
  <1>1. CASE BeginPresent
    BY <1>1 DEF BeginPresent
  <1>2. CASE EndPresent
    BY <1>2 DEF EndPresent
  <1>3. CASE DpcIndicates
    BY <1>3 DEF DpcIndicates
  <1>4. CASE DpcResets
    BY <1>4 DEF DpcResets
  <1>5. CASE Poll
    BY <1>5 DEF Poll
  <1> QED
    BY <1>1, <1>2, <1>3, <1>4, <1>5

LEMMA Inductive == Spec => []IndInv
  <1>1. IndInv /\ [Next]_vars => IndInv'
    BY StutterInd, HostInd, ResetInd, WindowsInd, PresentInd DEF Next
  <1> QED
    BY InitInd, <1>1, PTL DEF Spec

-----------------------------------------------------------------------------
\* The types, and that _display never points to a display that was destroyed.
THEOREM TypeCorrect == Spec => []TypeOK
  <1>1. IndInv => TypeOK
    BY DEF IndInv
  <1> QED
    BY Inductive, <1>1, PTL

\* However presents and requests of the host interleave, a present copies to a
\* framebuffer that exists, if no operation has overlapped with a change.
THEOREM PresentsLive == Spec => []PresentTargetLives
  <1>1. IndInv => PresentTargetLives
    BY DEF IndInv
  <1> QED
    BY Inductive, <1>1, PTL

\* A child that is connected between two requests has a display, and its
\* framebuffer is the one that is presented to.
THEOREM ConnectedMapped == Spec => []ConnectedIsMapped
  <1>1. IndInv => ConnectedIsMapped
    <2> SUFFICES ASSUME IndInv, HostIdle, connected, ~overlap
                 PROVE  disp \in live /\ ptr = disp
      BY DEF ConnectedIsMapped
    <2>1. disp # Null
      BY DEF IndInv, ConnectedHasDisplay
    <2> QED
      BY <2>1 DEF IndInv, TypeOK, AddressIsMapped, HostIdle
  <1> QED
    BY Inductive, <1>1, PTL

\* No operation crashes that has not overlapped with a change by the host.
THEOREM NoCrash == Spec => []CrashNeedsOverlap
  <1>1. IndInv => CrashNeedsOverlap
    BY DEF IndInv
  <1> QED
    BY Inductive, <1>1, PTL

-----------------------------------------------------------------------------
\* Only a refused display and a new one change which displays exist, and
\* neither takes the display away that a present copies to.
LEMMA CopyKeepsDisplay ==
    [Next]_vars => (at["present"] = "copy" /\ dst \in live => dst \in live')
  <1> SUFFICES ASSUME [Next]_vars, at["present"] = "copy", dst \in live PROVE dst \in live'
    OBVIOUS
  <1>1. CASE Destroy
    BY <1>1 DEF Destroy, MutexFree, Threads, InMutex
  <1>2. ASSUME NEW from, NEW to, RegisterDisplay(from, to) PROVE dst \in live'
    BY <1>2 DEF RegisterDisplay
  <1>3. CASE UNCHANGED live
    BY <1>3
  <1>4. CASE UNCHANGED vars
    BY <1>4 DEF vars
  <1>5. CASE HostSteps
    BY <1>1, <1>2, <1>3, <1>5
       DEF HostSteps, Disconnect, DisplayError, AddExisting, AddNew, MapFramebuffer, ConnectNew
  <1>6. CASE WindowsSteps
    BY <1>3, <1>6
       DEF WindowsSteps, Begin, Commit, TestConnected, Blank, StoreBlanked, StoreVisibility,
           SetCursorState, StorePower, UsePointer
  <1>7. ASSUME NEW t \in {"windows", "host"}, ResetSteps(t) PROVE dst \in live'
    BY <1>3, <1>7 DEF ResetSteps, ResetGuestMode, ResetTo, Unblank, Unblanked, Reconnect
  <1>8. CASE BeginPresent \/ EndPresent \/ DpcIndicates \/ DpcResets \/ Poll
    BY <1>3, <1>8 DEF BeginPresent, EndPresent, DpcIndicates, DpcResets, Poll
  <1> QED
    BY <1>4, <1>5, <1>6, <1>7, <1>8 DEF Next

\* A framebuffer is never taken away under a present, whatever overlaps.
THEOREM PresentsKeep == Spec => FramebufferKept
  BY CopyKeepsDisplay, PTL DEF Spec, FramebufferKept

-----------------------------------------------------------------------------
(***************************************************************************)
(* Why a source that was made visible is lit.  Only blank_display(true)    *)
(* darkens the display, and whoever unblanks it looks at _blanked.         *)
(***************************************************************************)
\* A display that the host was told to blank is known as blanked, but for the
\* moment between blank_display and the store of _blanked, ...
DarkIsBlanked == dark /\ ~overlap => at["windows"] = "store" \/ blanked

\* ... and one it was told to light is lit when the child is told so.
LitIsNotDark ==
    ~overlap =>
        /\ at["windows"] \in {"store", "visibility", "powered"} /\ ~Darkens => ~dark
        /\ \A t \in {"windows", "host"} : at[t] = "unblanked" => ~dark

\* A visible source on a dark display is about to be hidden, switched off or
\* lit, by the operation that darkened it or by a reset of the guest's mode.
DarkIsPassing ==
    dark /\ shown /\ power /\ ~overlap =>
        \/ at["windows"] \in {"store", "visibility", "powered", "reset", "unblank"}
        \/ at["host"] = "unblank"

LitInv == DarkIsBlanked /\ LitIsNotDark /\ DarkIsPassing

\* A step that does not tell the host to blank the display, and does not
\* concern what has been told.
LEMMA LitKept ==
  ASSUME LitInv, dark' => dark, shown' => shown, UNCHANGED <<power, blanked>>,
         overlap => overlap',
         op' = op \/ at'["windows"] \notin {"store", "visibility", "powered"},
         \/ at'["windows"] = at["windows"]
         \/ /\ at["windows"] \notin {"store", "visibility", "powered", "reset", "unblank"}
            /\ at'["windows"] \notin {"store", "visibility", "powered", "unblanked"},
         \/ at'["host"] = at["host"]
         \/ at["host"] # "unblank" /\ at'["host"] # "unblanked"
  PROVE  LitInv'
  <1>1. DarkIsBlanked'
    BY DEF LitInv, DarkIsBlanked
  <1>2. LitIsNotDark'
    BY DEF LitInv, LitIsNotDark, Darkens
  <1>3. DarkIsPassing'
    BY DEF LitInv, DarkIsPassing
  <1> QED
    BY <1>1, <1>2, <1>3 DEF LitInv

\* Nothing is said of what follows an overlap, a crash with it.
LEMMA LitOverlap == IndInv' /\ (at'["host"] = "crashed" \/ overlap') => LitInv'
  BY DEF IndInv, CrashNeedsOverlap, LitInv, DarkIsBlanked, LitIsNotDark, DarkIsPassing

\* A thread that finds a display goes on; else the system crashes.
LEMMA UseGoesOn ==
  ASSUME TypeOK, NEW t \in Threads, NEW d, NEW point, Use(t, d, point)
  PROVE  \/ at'["host"] = "crashed"
         \/ at'[t] = point /\ \A u \in Threads \ {t} : at'[u] = at[u]
  BY DEF Use, TypeOK, Threads

\* The host's requests, but for the reset, only ever light a display.
LEMMA HostLit == IndInv /\ LitInv /\ HostSteps => LitInv'
  <1> SUFFICES ASSUME IndInv, LitInv, HostSteps PROVE LitInv'
    OBVIOUS
  <1>1. ASSUME NEW from, NEW to, RegisterDisplay(from, to) PROVE LitInv'
    <2>1. ~dark'
      BY <1>1 DEF RegisterDisplay
    <2> QED
      BY <2>1 DEF LitInv, DarkIsBlanked, LitIsNotDark, DarkIsPassing
  <1>2. ASSUME \/ Destroy \/ Disconnect \/ DisplayError \/ AddExisting \/ AddNew \/ ConnectNew
               \/ \E from \in {"map", "map new"}, to \in {"idle", "connect new"} :
                     MapFramebuffer(from, to)
        PROVE  LitInv'
    <2> USE DEF Destroy, RefuseDisplay, Disconnect, DisplayError, AddExisting, AddNew,
                MapFramebuffer, ConnectNew
    <2>1. UNCHANGED <<dark, shown, power, blanked, op>>
      BY <1>2 DEF connection, view, picture, threads
    <2>2. overlap' = overlap \/ overlap' = (overlap \/ at["windows"] # "idle")
      BY <1>2
    <2>3. at'["windows"] = at["windows"]
      BY <1>2 DEF Goto, IndInv, TypeOK, Threads, threads
    <2>4. at'["host"] = at["host"] \/ (at["host"] # "unblank" /\ at'["host"] # "unblanked")
      BY <1>2 DEF Goto, HostIdle, IndInv, TypeOK, Threads, threads
    <2> HIDE DEF Destroy, RefuseDisplay, Disconnect, DisplayError, AddExisting, AddNew,
                 MapFramebuffer, ConnectNew
    <2>5. ASSUME overlap PROVE overlap'
      <3>1. overlap \/ at["windows"] # "idle"
        BY <2>5
      <3> QED
        BY <2>2, <2>5, <3>1
    <2>6. (dark' => dark) /\ (shown' => shown)
      BY <2>1
    <2> QED
      BY <2>1, <2>3, <2>4, <2>5, <2>6, LitKept
  <1> QED
    BY <1>1, <1>2 DEF HostSteps

\* reset_guest_mode lights what it finds blanked, and all that is dark is, or
\* is about to be.
LEMMA ResetLit ==
  ASSUME NEW t \in {"windows", "host"}, IndInv, IndInv', LitInv, ResetSteps(t)
  PROVE  LitInv'
  <1> USE DEF IndInv, TypeOK, Threads, connection, view, picture, threads
  <1>o. op' = op /\ shown' = shown
    BY DEF ResetSteps, ResetGuestMode, ResetTo, Unblank, Unblanked, Reconnect
  <1>1. CASE ResetGuestMode(t)
    <2>1. /\ at[t] = "reset" /\ UNCHANGED <<blanked, dark, overlap>>
          /\ at'[t] = IF blanked THEN "unblank" ELSE "reconnect"
          /\ \A u \in Threads \ {t} : at'[u] = at[u]
      BY <1>1 DEF ResetGuestMode, ResetTo, Goto
    <2>2. LitIsNotDark'
      BY <1>o, <2>1 DEF LitInv, LitIsNotDark, Darkens
    <2>3. DarkIsBlanked' /\ DarkIsPassing'
      BY <2>1 DEF LitInv, DarkIsBlanked, DarkIsPassing
    <2> QED
      BY <2>2, <2>3 DEF LitInv
  <1>2. CASE Unblank(t)
    <2>1. CASE at'["host"] = "crashed"
      BY <2>1, LitOverlap
    <2>2. CASE at'["host"] # "crashed"
      <3>1. ~dark'
        BY <1>2 DEF Unblank
      <3> QED
        BY <3>1 DEF LitInv, DarkIsBlanked, LitIsNotDark, DarkIsPassing
    <2> QED
      BY <2>1, <2>2
  <1>3. CASE Unblanked(t)
    <2>1. overlap' = overlap /\ (~overlap => ~dark')
      BY <1>3 DEF Unblanked, LitInv, LitIsNotDark
    <2> QED
      BY <2>1 DEF LitInv, DarkIsBlanked, LitIsNotDark, DarkIsPassing
  <1>4. CASE Reconnect(t)
    <2>1. /\ at[t] = "reconnect" /\ at'[t] \in {"idle", "register", "blank"}
          /\ \A u \in Threads \ {t} : at'[u] = at[u]
          /\ UNCHANGED <<dark, power, blanked, overlap>>
      BY <1>4 DEF Reconnect, Goto, AfterReset
    <2> QED
      BY <1>o, <2>1, LitKept
  <1> QED
    BY <1>1, <1>2, <1>3, <1>4 DEF ResetSteps

\* The steps of dxgkrnl's operations that do not tell the host anything of
\* blanking.
LEMMA OperationLit ==
  ASSUME IndInv, IndInv', LitInv,
         \/ \E o \in Ops \ {"none"} : Begin(o)
         \/ Commit \/ TestConnected \/ SetCursorState \/ UsePointer
  PROVE  LitInv'
  <1> USE DEF IndInv, TypeOK, Threads, connection, view, picture, threads
  <1>1. CASE at'["host"] = "crashed"
    BY <1>1, LitOverlap
  <1>2. CASE at'["host"] # "crashed"
    <2>1. ASSUME NEW o \in Ops \ {"none"}, Begin(o) PROVE LitInv'
      <3>1. FirstPoint(o) \in {"commit", "test", "cursor", "blank", "pointer"}
        BY DEF FirstPoint, Ops
      <3>2. /\ at["windows"] = "idle" /\ at'["windows"] = FirstPoint(o)
            /\ at'["host"] = at["host"] /\ UNCHANGED <<dark, power, blanked>>
            /\ (shown' => shown) /\ (overlap => overlap')
        BY <2>1 DEF Begin, Goto
      <3> QED
        BY <3>1, <3>2, LitKept
    <2>2. ASSUME Commit \/ TestConnected \/ SetCursorState \/ UsePointer PROVE LitInv'
      <3>1. /\ UNCHANGED <<dark, shown, power, blanked, overlap, op>>
            /\ at["windows"] \in {"commit", "test", "cursor", "pointer"}
        BY <2>2 DEF Commit, TestConnected, SetCursorState, UsePointer
      <3>2. at'["windows"] \in {"idle", "blank", "reset"} /\ at'["host"] = at["host"]
        BY <1>2, <2>2, UseGoesOn DEF Commit, TestConnected, SetCursorState, UsePointer, Goto
      <3> QED
        BY <3>1, <3>2, LitKept
    <2> QED
      BY <2>1, <2>2
  <1> QED
    BY <1>1, <1>2

\* blank_display tells the host, and then stores _blanked; the operation that
\* called it ends with the source hidden or the monitor off, if it darkened
\* the display.
LEMMA BlankLit ==
  ASSUME IndInv, IndInv', LitInv, Blank \/ StoreBlanked \/ StoreVisibility \/ StorePower
  PROVE  LitInv'
  <1> USE DEF IndInv, TypeOK, Threads, connection, view, picture, threads
  <1>o. op' = op /\ Darkens' = Darkens
    BY DEF Blank, StoreBlanked, StoreVisibility, StorePower, Darkens
  <1>1. CASE Blank
    <2>1. CASE at'["host"] = "crashed" \/ overlap'
      BY <2>1, LitOverlap
    <2>2. CASE ~(at'["host"] = "crashed" \/ overlap')
      <3>1. at'["windows"] = "store" /\ at'["host"] = at["host"]
        BY <1>1, <2>2, UseGoesOn DEF Blank
      <3>2. at["host"] # "unblanked" /\ (~Darkens => ~dark')
        BY <1>1, <2>2 DEF Blank
      <3> QED
        BY <1>o, <3>1, <3>2 DEF LitInv, DarkIsBlanked, LitIsNotDark, DarkIsPassing
    <2> QED
      BY <2>1, <2>2
  <1>2. CASE StoreBlanked
    <2>1. /\ at["windows"] = "store" /\ UNCHANGED <<dark, shown, power, overlap>>
          /\ at'["windows"] \in {"visibility", "reset", "powered"} /\ at'["host"] = at["host"]
      BY <1>2 DEF StoreBlanked, Goto
    <2>2. blanked' = Darkens
      BY <1>2 DEF StoreBlanked
    <2>3. ~overlap /\ ~Darkens => ~dark
      BY <2>1 DEF LitInv, LitIsNotDark
    <2>4. DarkIsBlanked'
      BY <2>1, <2>2, <2>3 DEF DarkIsBlanked
    <2>5. LitIsNotDark' /\ DarkIsPassing'
      BY <1>o, <2>1, <2>3 DEF LitInv, LitIsNotDark, DarkIsPassing
    <2> QED
      BY <2>4, <2>5 DEF LitInv
  <1>3. CASE StoreVisibility
    <2>1. /\ at["windows"] = "visibility" /\ UNCHANGED <<dark, power, blanked, overlap>>
          /\ at'["windows"] = "idle" /\ at'["host"] = at["host"]
          /\ shown' => op = "show"
      BY <1>3 DEF StoreVisibility, Goto
    <2>2. ~overlap /\ shown' => ~dark
      BY <2>1 DEF LitInv, LitIsNotDark, Darkens
    <2> QED
      BY <1>o, <2>1, <2>2 DEF LitInv, DarkIsBlanked, LitIsNotDark, DarkIsPassing
  <1>4. CASE StorePower
    <2>1. /\ at["windows"] = "powered" /\ UNCHANGED <<dark, shown, blanked, overlap>>
          /\ at'["windows"] = "idle" /\ at'["host"] = at["host"]
          /\ power' => op = "monitor on"
      BY <1>4 DEF StorePower, Goto
    <2>2. ~overlap /\ power' => ~dark
      BY <2>1 DEF LitInv, LitIsNotDark, Darkens
    <2> QED
      BY <1>o, <2>1, <2>2 DEF LitInv, DarkIsBlanked, LitIsNotDark, DarkIsPassing
  <1> QED
    BY <1>1, <1>2, <1>3, <1>4

\* Presents and the DPC have no part in it.
LEMMA PresentLit ==
  ASSUME IndInv, IndInv', LitInv, BeginPresent \/ EndPresent \/ DpcIndicates \/ DpcResets \/ Poll
  PROVE  LitInv'
  <1> USE DEF IndInv, TypeOK, Threads, connection, view, picture, threads
  <1>1. CASE at'["host"] = "crashed"
    BY <1>1, LitOverlap
  <1>2. CASE at'["host"] # "crashed"
    <2>1. UNCHANGED <<dark, shown, power, blanked, op>> /\ (overlap => overlap')
      BY DEF BeginPresent, EndPresent, DpcIndicates, DpcResets, Poll
    <2>2. at'["windows"] = at["windows"] /\ at'["host"] = at["host"]
      BY <1>2, UseGoesOn DEF BeginPresent, EndPresent, DpcIndicates, DpcResets, Poll, Goto
    <2> QED
      BY <2>1, <2>2, LitKept
  <1> QED
    BY <1>1, <1>2

LEMMA LitInductive == Spec => []LitInv
  <1>1. Init => LitInv
    BY DEF Init, LitInv, DarkIsBlanked, LitIsNotDark, DarkIsPassing
  <1>2. IndInv /\ IndInv' /\ LitInv /\ [Next]_vars => LitInv'
    <2>1. UNCHANGED vars /\ LitInv => LitInv'
      BY LitKept DEF vars, picture, threads
    <2> QED
      BY <2>1, HostLit, ResetLit, OperationLit, BlankLit, PresentLit DEF Next, WindowsSteps
  <1> QED
    BY <1>1, <1>2, Inductive, PTL DEF Spec

\* Whatever power operations, commits, requests of the host and disconnections
\* came before, a source that is visible on a monitor that is on is not left
\* blanked, if no operation has overlapped with a change by the host.
THEOREM VisibleLit == Spec => []VisibleIsLit
  <1>1. LitInv => VisibleIsLit
    BY DEF LitInv, DarkIsPassing, VisibleIsLit, HostIdle
  <1> QED
    BY <1>1, LitInductive, PTL
=============================================================================
