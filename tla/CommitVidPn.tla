----------------------------- MODULE CommitVidPn -----------------------------
(***************************************************************************)
(* CommitVidPn: dxgkrnl makes a VidPN the current one for a source.  The   *)
(* mode pinned on the source is set for each path from it.  Like           *)
(* EnumVidPnCofuncModality (module EnumVidPn, whose state this one         *)
(* shares: dxgkrnl calls one of the two at a time) the function borrows    *)
(* a mode set, a mode and paths and has to give them back.                 *)
(*                                                                         *)
(* What SetSourceModeAndPath does to the child is in module Modes; here it *)
(* succeeds or fails.                                                      *)
(***************************************************************************)
EXTENDS EnumVidPn

VARIABLE
    enforced    \* was a disconnected monitor met that is enforced?

commitVars == <<pc, ptr, held, status, pivot, atPivot, paths, numModes, emptied, enforced>>
others == <<pivot, atPivot, numModes, emptied>>

CommitCalls == {"commit interfaces", "commit source set", "commit source pin", "commit mode",
                "commit target", "commit path", "commit set mode", "commit release path"}

InitVidPn == Init /\ enforced = FALSE

-----------------------------------------------------------------------------
\* A commit for a monitor that is off is ignored.
CommitPoweredOff ==
    /\ pc = "idle" /\ pc' = "returned"
    /\ UNCHANGED <<ptr, held, status, paths, enforced>> /\ UNCHANGED others

BeginCommit ==
    /\ pc = "idle" /\ pc' = "commit interfaces"
    /\ UNCHANGED <<ptr, held, status, paths, enforced>> /\ UNCHANGED others

\* The VidPN's interfaces and the number of its paths, which may be none.
QueryInterfaces ==
    /\ pc = "commit interfaces"
    /\ pc' \in {"commit source set", "commit clean mode"}
    /\ UNCHANGED <<ptr, held, status, paths, enforced>> /\ UNCHANGED others

CommitAcquire(at, r, next) ==
    /\ pc = at /\ Acquire(r) /\ pc' = next
    /\ UNCHANGED <<status, paths, enforced>> /\ UNCHANGED others

AcquireSourceModeSet == CommitAcquire("commit source set", "sourceSet", "commit source pin")
AcquirePinnedModeInfo == CommitAcquire("commit source pin", "sourceMode", "commit mode")

\* No mode is pinned: there is nothing to do.
NothingPinned ==
    /\ pc = "commit source pin" /\ pc' = "commit clean mode"
    /\ UNCHANGED <<ptr, held, status, paths, enforced>> /\ UNCHANGED others

\* The mode is one the driver can set, and the source has paths, or none.
CheckPinnedMode ==
    /\ pc = "commit mode"
    /\ pc' \in {"commit target", "commit clean mode"}
    /\ UNCHANGED <<ptr, held, status, paths, enforced>> /\ UNCHANGED others

\* The next target of the source, and the path to it.
EnumPathTarget ==
    /\ pc = "commit target" /\ paths < MaxPaths
    /\ paths' = paths + 1
    /\ pc' = "commit path"
    /\ UNCHANGED <<ptr, held, status, enforced>> /\ UNCHANGED others

AcquirePathInfo == CommitAcquire("commit path", "path", "commit set mode")

\* The mode is set for the path, ...
SetMode ==
    /\ pc = "commit set mode" /\ pc' = "commit release path"
    /\ UNCHANGED <<ptr, held, status, paths, enforced>> /\ UNCHANGED others

\* Mutant: the path of a mode that was set is not given back at once.
ReleasePathInfoLate ==
    /\ pc = "commit release path"
    /\ pc' \in IF paths < MaxPaths THEN {"commit target", "commit clean mode"}
               ELSE {"commit clean mode"}
    /\ UNCHANGED <<ptr, held, status, paths, enforced>> /\ UNCHANGED others

\* ... which is given back.
ReleasePathInfo ==
    /\ pc = "commit release path"
    /\ Release("path")
    /\ pc' \in IF paths < MaxPaths THEN {"commit target", "commit clean mode"}
               ELSE {"commit clean mode"}
    /\ UNCHANGED <<status, paths, enforced>> /\ UNCHANGED others

\* The monitor is enforced but its child is not connected: the function
\* returns where it is.
RefuseDisconnected ==
    /\ pc = "commit set mode" /\ pc' = "returned"
    /\ status' = "error"
    /\ enforced' = TRUE
    /\ UNCHANGED <<ptr, held, paths>> /\ UNCHANGED others

\* A call fails, or a mode or a path has fields the driver cannot set.
CommitCallFails ==
    /\ pc \in CommitCalls
    /\ pc' = "commit clean mode"
    /\ status' = "error"
    /\ UNCHANGED <<ptr, held, paths, enforced>> /\ UNCHANGED others

\* What is still there is given back: the mode, its set and the path.
CleanPinnedMode ==
    /\ pc = "commit clean mode" /\ Clean({"sourceMode"}) /\ pc' = "commit clean set"
    /\ UNCHANGED <<status, paths, enforced>> /\ UNCHANGED others

CleanSetAndPath ==
    /\ pc = "commit clean set" /\ Clean({"sourceSet", "path"}) /\ pc' = "returned"
    /\ UNCHANGED <<status, paths, enforced>> /\ UNCHANGED others

NextCommit ==
    \/ CommitPoweredOff \/ BeginCommit \/ QueryInterfaces
    \/ AcquireSourceModeSet \/ AcquirePinnedModeInfo \/ NothingPinned \/ CheckPinnedMode
    \/ EnumPathTarget \/ AcquirePathInfo \/ SetMode \/ ReleasePathInfo
    \/ RefuseDisconnected \/ CommitCallFails
    \/ CleanPinnedMode \/ CleanSetAndPath

\* The next call of dxgkrnl begins with Return of module EnumVidPn.
NextVidPn == (Next /\ enforced' = FALSE) \/ NextCommit

SpecVidPn == InitVidPn /\ [][NextVidPn]_commitVars

-----------------------------------------------------------------------------
\* The type of the variables of both functions.
TypeOK ==
    /\ pc \in Calls \union CommitCalls \union
              {"idle", "clean modes", "clean sets", "commit clean mode", "commit clean set", "returned"}
    /\ DataOK
    /\ enforced \in BOOLEAN

\* Both functions give back everything they borrowed, once, whichever call
\* fails, and modes before their sets; but for a commit that meets an enforced
\* monitor that is not connected, which keeps its path, its mode and its mode
\* set.
GivesBack == (enforced \/ ReturnsClean) /\ ModesWithinSets
=============================================================================
