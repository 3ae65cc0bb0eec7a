----------------------------- MODULE EnumVidPn ------------------------------
(***************************************************************************)
(* EnumVidPnCofuncModality: for each path of a VidPN the driver gives      *)
(* dxgkrnl the modes of the path's source and target that are not pinned   *)
(* and not the pivot of the enumeration.  Mode sets, pinned modes and path *)
(* infos are borrowed from dxgkrnl and have to be given back.              *)
(*                                                                         *)
(* One action is one call of a dxgkrnl function with the code up to the    *)
(* next one; `pc' names the call that comes next.  Every call may fail but *)
(* the releases of the cleanup, which the code asserts to succeed.         *)
(***************************************************************************)
EXTENDS Naturals

CONSTANTS MaxPaths      \* bound: the paths of a VidPN

ASSUME EnumAssumption == MaxPaths \in Nat \ {0}

Resources == {"sourceSet", "sourceMode", "targetSet", "targetMode", "path", "lastPath"}
Pivots == {"source", "target", "other"}

\* The calls of the loop, in the order of the code.
Calls == {"source set", "source pin", "release source", "create source", "add source",
          "assign source", "target set", "target pin", "release target", "create target",
          "add target", "assign target", "release target pin", "release pinned target",
          "release source pin", "release pinned source", "support", "next path", "release path"}

VARIABLES
    pc,         \* the next call, or where outside the loop the driver is
    ptr,        \* the resources whose variable is not NULL
    held,       \* how often each resource is borrowed
    status,     \* Status
    pivot,      \* pEnumCofuncModality->EnumPivotType
    atPivot,    \* is the path the one of EnumPivot?
    paths,      \* the paths that have been started
    numModes,   \* numModes: are there any modes for the target?
    emptied     \* was an empty target mode set forgotten?

vars == <<pc, ptr, held, status, pivot, atPivot, paths, numModes, emptied>>
call == <<pivot, atPivot, paths, numModes, emptied>>

-----------------------------------------------------------------------------
\* Mutant: the variable keeps its value.
ReleaseOnly(r) == ptr' = ptr /\ held' = [held EXCEPT ![r] = @ - 1]

\* A resource is borrowed, or given back and its variable cleared.
Acquire(r) == ptr' = ptr \union {r} /\ held' = [held EXCEPT ![r] = @ + 1]
Release(r) == ptr' = ptr \ {r} /\ held' = [held EXCEPT ![r] = @ - 1]

Nothing == [r \in Resources |-> 0]

Init ==
    /\ pc = "idle"
    /\ ptr = {}
    /\ held = Nothing
    /\ status = "success"
    /\ pivot = "other"
    /\ atPivot = FALSE
    /\ paths = 0
    /\ numModes = TRUE
    /\ emptied = FALSE

\* dxgkrnl asks for an enumeration; the first path is acquired.
\* (Without a display handler, a topology or a path there is nothing to do.)
AcquireFirstPath ==
    /\ pc = "idle"
    /\ \E p \in Pivots, at \in BOOLEAN : pivot' = p /\ atPivot' = at
    /\ Acquire("path")
    /\ pc' = "source set"
    /\ paths' = 1
    /\ UNCHANGED <<status, numModes, emptied>>

\* Mutant: the loop is left with the Status of the call before.
CallFailsSilently ==
    /\ pc \in Calls \ {"assign target", "next path", "release path"}
    /\ pc' = "clean modes"
    /\ UNCHANGED <<ptr, held, status>> /\ UNCHANGED call

\* A call fails: the loop is left.
CallFails ==
    /\ pc \in Calls \ {"assign target", "next path", "release path"}
    /\ pc' = "clean modes"
    /\ status' = "error"
    /\ UNCHANGED <<ptr, held>> /\ UNCHANGED call

\* The step from call `at' to call `next', which borrows or gives back nothing.
Pass(at, next) == pc = at /\ UNCHANGED <<ptr, held, status>> /\ pc' = next /\ UNCHANGED call

AcquireAt(at, r, next) == pc = at /\ Acquire(r) /\ pc' = next /\ UNCHANGED status /\ UNCHANGED call
ReleaseAt(at, r, next) == pc = at /\ Release(r) /\ pc' = next /\ UNCHANGED status /\ UNCHANGED call

IsPivot(kind) == pivot = kind /\ atPivot

\* Where the code goes when it is done with the source's and the target's modes.
AfterTarget ==
    IF "sourceMode" \in ptr' THEN "release source pin"
    ELSE IF "sourceSet" \in ptr' THEN "release pinned source" ELSE "support"
AfterSource == IF IsPivot("target") THEN AfterTarget ELSE "target set"

\* The source's mode set, with a pinned mode or without.
SourceSet == AcquireAt("source set", "sourceSet", "source pin")
SourcePinned == AcquireAt("source pin", "sourceMode", AfterSource)
SourceUnpinned == Pass("source pin", IF IsPivot("source") THEN AfterSource ELSE "release source")

\* It is replaced by a new one with all modes.
ReleaseSource == ReleaseAt("release source", "sourceSet", "create source")
CreateSource == AcquireAt("create source", "sourceSet", "add source")
AddSourceModes == Pass("add source", "assign source")
AssignSource == ReleaseAt("assign source", "sourceSet", AfterSource)

\* The target's, likewise.
TargetSet == AcquireAt("target set", "targetSet", "target pin")
TargetPinned == AcquireAt("target pin", "targetMode", "release target pin")
TargetUnpinned == Pass("target pin", "release target")
ReleaseTarget == ReleaseAt("release target", "targetSet", "create target")
CreateTarget == AcquireAt("create target", "targetSet", "add target")

\* There are no modes for a target whose child is not connected.
AddTargetModes ==
    /\ pc = "add target"
    /\ numModes' \in BOOLEAN
    /\ pc' = "assign target"
    /\ UNCHANGED <<ptr, held, status, pivot, atPivot, paths, emptied>>

AssignTarget == ReleaseAt("assign target", "targetSet", AfterTarget)

\* A failure counts only if there were modes; else the set is forgotten.
AssignTargetFails ==
    /\ pc = "assign target"
    /\ IF numModes THEN pc' = "clean modes" /\ status' = "error" /\ UNCHANGED <<ptr, emptied>>
       ELSE ptr' = ptr \ {"targetSet"} /\ pc' = AfterTarget /\ emptied' = TRUE /\ UNCHANGED status
    /\ UNCHANGED <<held, pivot, atPivot, paths, numModes>>

ReleaseTargetPin == ReleaseAt("release target pin", "targetMode", "release pinned target")
ReleasePinnedTarget == ReleaseAt("release pinned target", "targetSet", AfterTarget)
ReleaseSourcePin == ReleaseAt("release source pin", "sourceMode", "release pinned source")
ReleasePinnedSource == ReleaseAt("release pinned source", "sourceSet", "support")

\* The support fields of the path are updated.
UpdatePathSupport == Pass("support", "next path")

\* The next path is acquired, if there is one; the last one is given back.
NextPath ==
    /\ pc = "next path"
    /\ paths < MaxPaths
    /\ paths' = paths + 1
    /\ ptr' = ptr \union {"lastPath"}
    /\ held' = [held EXCEPT !["lastPath"] = held["path"], !["path"] = 1]
    /\ atPivot' \in BOOLEAN
    /\ pc' = "release path"
    /\ UNCHANGED <<status, pivot, numModes, emptied>>

\* There is none, or the call fails; the variable becomes NULL.
NoNextPath ==
    /\ pc = "next path"
    /\ ptr' = (ptr \ {"path"}) \union {"lastPath"}
    /\ held' = [held EXCEPT !["lastPath"] = held["path"], !["path"] = 0]
    /\ \/ pc' = "release path" /\ status' = "no more"
       \/ pc' = "clean modes" /\ status' = "error"
    /\ UNCHANGED call

ReleasePath ==
    /\ pc = "release path"
    /\ Release("lastPath")
    /\ IF status = "no more" THEN pc' = "clean modes" /\ status' = "success"
       ELSE pc' = "source set" /\ UNCHANGED status
    /\ UNCHANGED call

ReleasePathFails ==
    /\ pc = "release path"
    /\ pc' = "clean modes"
    /\ status' = "error"
    /\ UNCHANGED <<ptr, held>> /\ UNCHANGED call

Clean(rs) ==
    /\ ptr' = ptr \ rs
    /\ held' = [r \in Resources |-> IF r \in rs \intersect ptr THEN held[r] - 1 ELSE held[r]]

\* What is still there is given back, modes before their sets.
CleanModes ==
    /\ pc = "clean modes" /\ Clean({"sourceMode", "targetMode"}) /\ pc' = "clean sets"
    /\ UNCHANGED status /\ UNCHANGED call

CleanSets ==
    /\ pc = "clean sets" /\ Clean({"sourceSet", "targetSet", "path", "lastPath"}) /\ pc' = "returned"
    /\ UNCHANGED status /\ UNCHANGED call

\* The function returns; what the next enumeration borrows is counted anew.
Return ==
    /\ pc = "returned"
    /\ pc' = "idle" /\ ptr' = {} /\ held' = Nothing /\ status' = "success"
    /\ pivot' = "other" /\ atPivot' = FALSE
    /\ paths' = 0 /\ numModes' = TRUE /\ emptied' = FALSE

SourceSteps ==
    \/ SourceSet \/ SourcePinned \/ SourceUnpinned \/ ReleaseSource
    \/ CreateSource \/ AddSourceModes \/ AssignSource

TargetSteps ==
    \/ TargetSet \/ TargetPinned \/ TargetUnpinned \/ ReleaseTarget \/ CreateTarget
    \/ AddTargetModes \/ AssignTarget \/ AssignTargetFails
    \/ ReleaseTargetPin \/ ReleasePinnedTarget

PathSteps ==
    \/ ReleaseSourcePin \/ ReleasePinnedSource \/ UpdatePathSupport
    \/ NextPath \/ NoNextPath \/ ReleasePath \/ ReleasePathFails

Next ==
    \/ AcquireFirstPath
    \/ SourceSteps
    \/ TargetSteps
    \/ PathSteps
    \/ CallFails
    \/ CleanModes
    \/ CleanSets
    \/ Return

Spec == Init /\ [][Next]_vars

-----------------------------------------------------------------------------
\* The type of the function's variables.
DataOK ==
    /\ ptr \subseteq Resources
    /\ held \in [Resources -> Nat]
    /\ status \in {"success", "error", "no more"}
    /\ pivot \in Pivots
    /\ atPivot \in BOOLEAN
    /\ paths \in 0 .. MaxPaths
    /\ numModes \in BOOLEAN
    /\ emptied \in BOOLEAN

\* Whichever call fails on whichever path, everything borrowed has been given
\* back when the function returns, and given back once; but for the empty mode
\* set of a target that is not connected, when dxgkrnl did not take it.
ReturnsClean ==
    pc = "returned" => \A r \in Resources : held[r] = 0 \/ (r = "targetSet" /\ emptied)

\* What the assertion at bdd_dmm.cxx:482 says: the cleanup has something to
\* give back (TempStatus was set by a release) only if Status is not success.
SuccessIsClean == pc = "clean modes" /\ status = "success" => ptr = {}

\* A pinned mode is given back before the mode set it belongs to.
ModesWithinSets ==
    /\ held["sourceMode"] > 0 => held["sourceSet"] > 0
    /\ held["targetMode"] > 0 => held["targetSet"] > 0
=============================================================================
