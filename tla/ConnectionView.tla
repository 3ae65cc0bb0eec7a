--------------------------- MODULE ConnectionView ---------------------------
(***************************************************************************)
(* What hot plugging promises, without flags, threads or DPCs: the display *)
(* handler connects and disconnects children as it likes, and Windows'     *)
(* view of a child changes only to the state the child is in, and catches  *)
(* up with it if that state lasts.  Windows may miss a report of a child;  *)
(* another one is promised only when the handler speaks of the child       *)
(* again, and Windows may believe it gone meanwhile.                       *)
(***************************************************************************)
CONSTANT Children

VARIABLES
    connected,  \* PVChild::_connected, for each child
    osView,     \* the connection state last told to dxgkrnl
    heard       \* what became of the last report of the child

view == <<connected, osView, heard>>

\* "changed": the last report was missed, but another one is due.
Reports == {"told", "missed", "changed"}

Init ==
    /\ connected = [c \in Children |-> FALSE]
    /\ osView = [c \in Children |-> FALSE]
    /\ heard = [c \in Children |-> "told"]

\* The state of child c becomes b.
Plug(c, b) ==
    /\ connected' = [connected EXCEPT ![c] = b]
    /\ heard' = [heard EXCEPT ![c] = IF @ = "missed" THEN "changed" ELSE @]
    /\ UNCHANGED osView

\* Windows learns the state of child c, ...
See(c) ==
    /\ osView' = [osView EXCEPT ![c] = connected[c]]
    /\ heard' = [heard EXCEPT ![c] = "told"]
    /\ UNCHANGED connected

\* ... or misses the report, ...
Miss(c) ==
    /\ heard' = [heard EXCEPT ![c] = "missed"]
    /\ UNCHANGED <<connected, osView>>

\* ... and may then believe the child gone until it is told again.
Lose(c) ==
    /\ heard[c] # "told"
    /\ osView' = [osView EXCEPT ![c] = FALSE]
    /\ heard' = [heard EXCEPT ![c] = "told"]
    /\ UNCHANGED connected

Next == \E c \in Children : See(c) \/ Miss(c) \/ Lose(c) \/ \E b \in BOOLEAN : Plug(c, b)

Safety == Init /\ [][Next]_view

\* Windows catches up with a child whose last report it has not missed.
CatchesUp(c) == heard[c] # "missed" /\ See(c)

Spec == Safety /\ \A c \in Children : WF_view(CatchesUp(c))
=============================================================================
