------------------------------- MODULE Hotplug -------------------------------
(***************************************************************************)
(* How a child's connection state reaches Windows.  A thread that changes  *)
(* PVChild::_connected calls UpdateConnection, which sets the child's      *)
(* pending flag and queues a DPC; UpdateConnectionDPC walks over the       *)
(* children and reports those whose flag is set.  dxgkrnl may also poll    *)
(* with QueryChildStatus.                                                  *)
(*                                                                         *)
(* A DPC is queued at most once at a time, and one runs at a time.  On a   *)
(* uniprocessor it runs to its end before any thread runs again; on a      *)
(* multiprocessor threads go on beside it.                                 *)
(***************************************************************************)
EXTENDS Naturals

CONSTANTS N,              \* MAX_CHILDREN
          Threads,        \* IVC callbacks, system workers and dxgkrnl's threads
          MultiProcessor, \* do threads run while the DPC does?
          EarlyPlug       \* may a child change before DriverStarted is set?

ASSUME HotplugAssumption ==
    /\ N \in Nat \ {0}
    /\ MultiProcessor \in BOOLEAN
    /\ EarlyPlug \in BOOLEAN

VARIABLES
    started,    \* m_Flags.DriverStarted
    connected,  \* PVChild::_connected
    pending,    \* PVChild::_pending
    active,     \* m_CurrentModes[].Flags.FrameBufferIsActive
    osView,     \* the connection state last told to dxgkrnl
    heard,      \* has dxgkrnl been told of the child, or missed its last report?
    queued,     \* is the DPC queued?
    dpc,        \* where the running DPC is
    thread      \* where each thread is

flags == <<started, connected, pending, active>>
told == <<osView, heard>>
vars == <<flags, told, queued, dpc, thread>>

Children == 1 .. N

\* `at' is the next step; the DPC is at child `child' and has read `state'.
\* A thread that is at work holds the child's _fb_mutex if `locked'.
DpcStates == [at : {"idle", "test", "indicate", "reset"},
              child : Children, state : BOOLEAN]
ThreadStates == [at : {"idle", "flag", "post"}, child : Children, locked : BOOLEAN]

\* What became of the last report of a child; "changed" if it was missed but
\* the child has changed since.
Reports == {"told", "missed", "changed"}

IdleDpc == [at |-> "idle", child |-> 1, state |-> FALSE]
IdleThread == [at |-> "idle", child |-> 1, locked |-> FALSE]

ThreadsRun == MultiProcessor \/ dpc.at = "idle"

\* FbMutexFree: no thread holds child c's _fb_mutex.
FbMutexFree(c) ==
    \A t \in Threads : ~(thread[t].locked /\ thread[t].child = c)

Init ==
    /\ started = FALSE
    /\ connected = [c \in Children |-> FALSE]
    /\ pending = [c \in Children |-> FALSE]
    /\ active = [c \in Children |-> FALSE]
    /\ osView = [c \in Children |-> FALSE]
    /\ heard = [c \in Children |-> "told"]
    /\ queued = FALSE
    /\ dpc = IdleDpc
    /\ thread = [t \in Threads |-> IdleThread]

-----------------------------------------------------------------------------
\* StartDevice ends; if EarlyPlug, callbacks may have come in before it does.
FinishStart ==
    /\ ThreadsRun
    /\ ~started
    /\ started' = TRUE
    /\ UNCHANGED <<connected, pending, active, told, queued, dpc, thread>>

\* A change of child c after a missed report: another one is due.
HeardAfterChange(c) ==
    [heard EXCEPT ![c] = IF heard[c] = "missed" THEN "changed" ELSE heard[c]]

(***************************************************************************)
(* The four functions that change _connected; each goes on to call         *)
(* UpdateConnection, and all but helper_disconnect hold the _fb_mutex.     *)
(***************************************************************************)
SetConnected(t, c, b, locked) ==
    /\ ThreadsRun
    /\ started \/ EarlyPlug
    /\ thread[t].at = "idle"
    /\ connected' = [connected EXCEPT ![c] = b]
    /\ heard' = HeardAfterChange(c)
    /\ thread' = [thread EXCEPT ![t] = [at |-> "flag", child |-> c, locked |-> locked]]
    /\ UNCHANGED <<started, pending, active, osView, queued, dpc>>

UpdateConnectionStatus(t, c, b) == FbMutexFree(c) /\ SetConnected(t, c, b, TRUE)

ResetGuestMode(t, c) == FbMutexFree(c) /\ SetConnected(t, c, TRUE, TRUE)

\* destroy tells Windows only of a child that was connected.
Destroy(t, c) == connected[c] /\ FbMutexFree(c) /\ SetConnected(t, c, FALSE, TRUE)

\* Mutant: the display-error callback does not call UpdateConnection.
HelperDisconnectSilent(t, c) ==
    /\ ThreadsRun
    /\ started \/ EarlyPlug
    /\ thread[t].at = "idle"
    /\ connected' = [connected EXCEPT ![c] = FALSE]
    /\ heard' = HeardAfterChange(c)
    /\ UNCHANGED <<started, pending, active, osView, queued, dpc, thread>>

HelperDisconnect(t, c) == SetConnected(t, c, FALSE, FALSE)

(***************************************************************************)
(* UpdateConnection: nothing happens before DriverStarted is set;          *)
(* afterwards the flag is set, and then the DPC queued.                    *)
(***************************************************************************)
SetDpc(t) ==
    /\ ThreadsRun
    /\ thread[t].at = "flag"
    /\ IF started
       THEN /\ pending' = [pending EXCEPT ![thread[t].child] = TRUE]
            /\ thread' = [thread EXCEPT ![t].at = "post"]
       ELSE /\ thread' = [thread EXCEPT ![t] = IdleThread]
            /\ UNCHANGED pending
    /\ UNCHANGED <<started, connected, active, told, queued, dpc>>

QueueDpc(t) ==
    /\ ThreadsRun
    /\ thread[t].at = "post"
    /\ queued' = TRUE
    /\ thread' = [thread EXCEPT ![t] = IdleThread]
    /\ UNCHANGED <<flags, told, dpc>>

-----------------------------------------------------------------------------
(***************************************************************************)
(* UpdateConnectionDPC.                                                    *)
(***************************************************************************)
DpcStart ==
    /\ queued
    /\ dpc.at = "idle"
    /\ queued' = FALSE
    /\ dpc' = [dpc EXCEPT !.at = "test", !.child = 1]
    /\ UNCHANGED <<flags, told, thread>>

\* Mutant: the loop visits one child too many.
NextChildPast ==
    dpc' = IF dpc.child > N THEN IdleDpc
           ELSE [dpc EXCEPT !.at = "test", !.child = dpc.child + 1]

NextChild ==
    dpc' = IF dpc.child = N THEN IdleDpc
           ELSE [dpc EXCEPT !.at = "test", !.child = dpc.child + 1]

\* A child whose flag is set has its connection state read.
DpcTest ==
    /\ dpc.at = "test"
    /\ LET c == dpc.child IN
       IF pending[c]
       THEN /\ dpc' = [dpc EXCEPT !.at = "indicate", !.state = connected[c]]
            /\ active' = [active EXCEPT ![c] = connected[c]]
       ELSE NextChild /\ UNCHANGED active
    /\ UNCHANGED <<started, connected, pending, told, queued, thread>>

\* DxgkCbIndicateChildStatus passes on what was read, ...
DpcIndicate ==
    /\ dpc.at = "indicate"
    /\ osView' = [osView EXCEPT ![dpc.child] = dpc.state]
    /\ heard' = [heard EXCEPT ![dpc.child] = "told"]
    /\ dpc' = [dpc EXCEPT !.at = "reset"]
    /\ UNCHANGED <<flags, queued, thread>>

\* ... or fails, which is logged and nothing else, ...
DpcIndicateFails ==
    /\ dpc.at = "indicate"
    /\ heard' = [heard EXCEPT ![dpc.child] = "missed"]
    /\ dpc' = [dpc EXCEPT !.at = "reset"]
    /\ UNCHANGED <<flags, osView, queued, thread>>

\* Mutant: the DPC ends with the first child it reports.
DpcResetLast ==
    /\ dpc.at = "reset"
    /\ pending' = [pending EXCEPT ![dpc.child] = FALSE]
    /\ dpc' = IdleDpc
    /\ UNCHANGED <<started, connected, active, told, queued, thread>>

\* ... and then, told or not, the flag is cleared.
DpcReset ==
    /\ dpc.at = "reset"
    /\ pending' = [pending EXCEPT ![dpc.child] = FALSE]
    /\ NextChild
    /\ UNCHANGED <<started, connected, active, told, queued, thread>>

-----------------------------------------------------------------------------
\* dxgkrnl asks for the state of child c: IsChildActive.
QueryChildStatus(c) ==
    /\ ThreadsRun
    /\ osView' = [osView EXCEPT ![c] = started /\ active[c] /\ connected[c]]
    /\ heard' = [heard EXCEPT ![c] = "told"]
    /\ UNCHANGED <<flags, queued, dpc, thread>>

-----------------------------------------------------------------------------
Report(t, c) ==
    \/ \E b \in BOOLEAN : UpdateConnectionStatus(t, c, b)
    \/ ResetGuestMode(t, c)
    \/ Destroy(t, c)
    \/ HelperDisconnect(t, c)

UpdateConnectionDPC == DpcStart \/ DpcTest \/ DpcIndicate \/ DpcIndicateFails \/ DpcReset

Next ==
    \/ FinishStart
    \/ \E t \in Threads : SetDpc(t) \/ QueueDpc(t) \/ \E c \in Children : Report(t, c)
    \/ UpdateConnectionDPC
    \/ \E c \in Children : QueryChildStatus(c)

Spec == Init /\ [][Next]_vars

\* Threads inside UpdateConnection go on, however often a DPC interrupts
\* them, and a queued DPC runs to its end.
FairSpec ==
    /\ Spec
    /\ \A t \in Threads : SF_vars(SetDpc(t) \/ QueueDpc(t))
    /\ WF_vars(UpdateConnectionDPC)

-----------------------------------------------------------------------------
\* Two threads never hold the _fb_mutex of the same child.
OneHolder ==
    \A t, u \in Threads :
        thread[t].locked /\ thread[u].locked /\ thread[t].child = thread[u].child => t = u

\* The type of the state of hot plugging; a child's mutex has one holder.
TypeOK ==
    /\ started \in BOOLEAN
    /\ connected \in [Children -> BOOLEAN]
    /\ pending \in [Children -> BOOLEAN]
    /\ active \in [Children -> BOOLEAN]
    /\ osView \in [Children -> BOOLEAN]
    /\ heard \in [Children -> Reports]
    /\ queued \in BOOLEAN
    /\ dpc \in DpcStates
    /\ thread \in [Threads -> ThreadStates]
    /\ OneHolder

\* Some thread has changed child c's state and not yet set its flag (or has
\* set it and not yet queued the DPC).
Flagging(c) == \E t \in Threads : thread[t].at = "flag" /\ thread[t].child = c
Posting(c) == \E t \in Threads : thread[t].at = "post" /\ thread[t].child = c

\* The running DPC has yet to visit child c, or is at it.
DpcComesTo(c) == dpc.at # "idle" /\ dpc.child <= c

\* A pending flag is never stranded: UpdateConnection's order (flag, then DPC)
\* ensures that a DPC is queued, about to be queued, or still to reach the
\* child, on one processor or many.
PendingHasDpc == \A c \in Children : pending[c] => queued \/ Posting(c) \/ DpcComesTo(c)

\* PVChild.cpp:822-827 ("tell windows to re-enumerate any child devices it
\* has"): when nobody is reporting child c and its flag is not set, the
\* driver's FrameBufferIsActive agrees with its connection state, and so does
\* Windows, but for an indication dxgkrnl has refused and no later report made up for.
SettledChild(c) ==
    ~pending[c] /\ ~Flagging(c) =>
        active[c] = connected[c] /\ (osView[c] = connected[c] \/ heard[c] = "missed")

Settled == \A c \in Children : SettledChild(c)

\* The same, once the driver has started.
SettledOnceStarted == started => Settled

\* Hot plugging with flags and a DPC does what ConnectionView promises:
\* Windows is told the state a child is in, and in the end, as long as dxgkrnl
\* takes the indications.
View == INSTANCE ConnectionView
KeepsView == View!Spec
=============================================================================
