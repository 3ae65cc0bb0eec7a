-------------------------------- MODULE Paths --------------------------------
(***************************************************************************)
(* Which target a source is shown on, turned how, and visible or not.      *)
(* m_CurrentModes is one array that is indexed by sources (TargetId) and   *)
(* by targets (Rotation, Flags.SourceNotVisible).  CommitVidPn stores the  *)
(* paths of one source, SetVidPnSourceVisibility and                       *)
(* UpdateActiveVidPnPresentPath change what is shown, and a present reads  *)
(* all three.                                                              *)
(*                                                                         *)
(* The commit is module CommitVidPn's, step by step, with the paths it     *)
(* meets; on the other side is what Windows knows: the paths of each       *)
(* source whose commit succeeded.                                          *)
(***************************************************************************)
EXTENDS CommitVidPn

CONSTANTS Views,        \* the indices of sources and targets
          NoView

ASSUME PathsAssumption == NoView \notin Views

VARIABLES
    target,     \* m_CurrentModes[source].TargetId
    rotation,   \* m_CurrentModes[target].Rotation
    hidden,     \* m_CurrentModes[target].Flags.SourceNotVisible
    source,     \* the source of the commit that is going on
    ahead,      \* the targets of its paths that are still to be set
    path,       \* the path whose mode is to be set
    topology,   \* the targets of each source, as Windows knows them
    wanted,     \* the rotation Windows wants on each of them
    shown       \* the sources with paths Windows has made visible since their commit

modes == <<target, rotation, hidden>>
commit == <<source, ahead, path>>
windows == <<topology, wanted, shown>>
pathsVars == <<commitVars, modes, commit, windows>>

Rotations == {"identity", "rotate90"}
NoPath == [target |-> NoView, rotation |-> "identity"]

InitModes ==
    /\ target = [v \in Views |-> v]
    /\ rotation = [v \in Views |-> "identity"]
    /\ hidden = [v \in Views |-> FALSE]

InitPaths ==
    /\ InitVidPn
    /\ InitModes
    /\ source = NoView /\ ahead = {} /\ path = NoPath
    /\ topology = [v \in Views |-> {}]
    /\ wanted = [v \in Views |-> "identity"]
    /\ shown = {}

-----------------------------------------------------------------------------
\* The paths of source s, and of the sources that held its new targets ts, are
\* Windows' no longer.
Withdraw(s, ts) ==
    LET gone == {v \in Views : v = s \/ topology[v] \intersect ts # {}}
        left == UNION {topology[v] : v \in Views \ gone}
    IN  /\ topology' = [v \in Views |-> IF v \in gone THEN {} ELSE topology[v]]
        /\ wanted' = [v \in Views |-> IF v \in left THEN wanted[v] ELSE "identity"]
        /\ shown' = shown \ gone

\* dxgkrnl commits a VidPN with paths from s to ts, or without any.
BeginPaths(s, ts) ==
    /\ BeginCommit
    /\ source' = s /\ ahead' = ts
    /\ Withdraw(s, ts)
    /\ UNCHANGED <<modes, path>>

\* The loop over the paths is skipped if there is none.  (A source with a path
\* has a pinned mode.)
Query ==
    /\ QueryInterfaces \/ NothingPinned \/ CheckPinnedMode
    /\ pc' = "commit clean mode" => ahead = {}
    /\ pc' = "commit target" => ahead # {}
    /\ UNCHANGED <<modes, commit, windows>>

EnumPath(t, r) ==
    /\ EnumPathTarget
    /\ ahead' = ahead \ {t}
    /\ path' = [target |-> t, rotation |-> r]
    /\ UNCHANGED <<modes, source, windows>>

\* Mutant: the target is stored under its own index.
StoreTargetAtTarget == target' = [target EXCEPT ![path.target] = path.target]

\* SetSourceModeAndPath stores the path's target, ...
StoreTarget == target' = [target EXCEPT ![source] = path.target]

\* ... and, if the mode has been set, its rotation.
StoreRotation == rotation' = [rotation EXCEPT ![path.target] = path.rotation]

\* Mutant: the rotation is not stored.
SetPathUnturned ==
    /\ SetMode
    /\ StoreTarget
    /\ topology' = [topology EXCEPT ![source] = @ \union {path.target}]
    /\ wanted' = [wanted EXCEPT ![path.target] = path.rotation]
    /\ UNCHANGED <<rotation, hidden, commit, shown>>

SetPath ==
    /\ SetMode
    /\ StoreTarget /\ StoreRotation
    /\ topology' = [topology EXCEPT ![source] = @ \union {path.target}]
    /\ wanted' = [wanted EXCEPT ![path.target] = path.rotation]
    /\ UNCHANGED <<hidden, commit, shown>>

\* Windows learns of a failure, and the commit has no effect for it; but the
\* target may be stored, and the rotation, before the framebuffer is found
\* inactive.
Failure ==
    /\ CommitCallFails
    /\ \/ UNCHANGED <<target, rotation>>
       \/ pc = "commit set mode" /\ StoreTarget /\ UNCHANGED rotation
       \/ pc = "commit set mode" /\ StoreTarget /\ StoreRotation
    /\ Withdraw(source, {})
    /\ UNCHANGED <<hidden, commit>>

Refusal ==
    /\ RefuseDisconnected
    /\ Withdraw(source, {})
    /\ source' = NoView /\ ahead' = {} /\ path' = NoPath
    /\ UNCHANGED <<modes>>

NextTarget ==
    /\ ReleasePathInfo
    /\ pc' = "commit target" <=> ahead # {}
    /\ path' = NoPath
    /\ UNCHANGED <<modes, source, ahead, windows>>

Finish ==
    /\ CleanSetAndPath
    /\ source' = NoView /\ ahead' = {} /\ path' = NoPath
    /\ UNCHANGED <<modes, windows>>

\* The calls that only borrow or give back.
Borrow ==
    /\ \/ CommitPoweredOff \/ AcquireSourceModeSet \/ AcquirePinnedModeInfo
       \/ AcquirePathInfo \/ CleanPinnedMode
    /\ UNCHANGED <<modes, commit, windows>>

-----------------------------------------------------------------------------
\* Mutant: the source's own index is used for its target's.
HideSource(effective, visible) ==
    hidden' = [v \in Views |-> IF v \in effective THEN ~visible ELSE hidden[v]]

\* Visibility is stored for the targets of the sources.
Hide(effective, visible) ==
    hidden' = [v \in Views |-> IF \E s \in effective : target[s] = v THEN ~visible ELSE hidden[v]]

\* dxgkrnl shows or hides a source, or all.  Nothing asks whether the source
\* has a path: one without goes by the target of its last.  A source whose
\* target is not connected is skipped.
SetVidPnSourceVisibility(sources, connected, visible) ==
    /\ pc = "idle"
    /\ sources = Views \/ \E s \in Views : sources = {s}
    /\ LET effective == {s \in sources : target[s] \in connected}
       IN  /\ Hide(effective, visible)
           /\ shown' = IF visible THEN shown \union {s \in effective : topology[s] # {}}
                       ELSE shown \ sources
    /\ UNCHANGED <<commitVars, target, rotation, commit, topology, wanted>>

\* The rotation of a path from s to t is stored under s.
UpdateActiveVidPnPresentPath(s, t, r) ==
    /\ pc = "idle" /\ t \in topology[s]
    /\ rotation' = [rotation EXCEPT ![s] = r]
    /\ wanted' = [wanted EXCEPT ![t] = r]
    /\ UNCHANGED <<commitVars, target, hidden, commit, topology, shown>>

-----------------------------------------------------------------------------
\* The enumeration touches nothing of this: it is explored as long as nothing
\* has been committed or shown (a bound).
Enumerate ==
    /\ Next /\ enforced' = FALSE
    /\ pc = "idle" =>
          InitModes /\ shown = {} /\ \A v \in Views : topology[v] = {}
    /\ UNCHANGED <<modes, commit, windows>>

CommitSteps ==
    \/ \E s \in Views, ts \in SUBSET Views : BeginPaths(s, ts)
    \/ Query
    \/ \E t \in ahead, r \in Rotations : EnumPath(t, r)
    \/ SetPath \/ Failure \/ Refusal \/ NextTarget \/ Finish \/ Borrow

NextPaths ==
    \/ Enumerate
    \/ CommitSteps
    \/ \E sources, connected \in SUBSET Views, visible \in BOOLEAN :
          SetVidPnSourceVisibility(sources, connected, visible)
    \/ \E s, t \in Views, r \in Rotations : UpdateActiveVidPnPresentPath(s, t, r)

SpecPaths == InitPaths /\ [][NextPaths]_pathsVars

-----------------------------------------------------------------------------
\* The types of the two calls and of m_CurrentModes.
PathsTypeOK ==
    /\ TypeOK
    /\ target \in [Views -> Views]
    /\ rotation \in [Views -> Rotations] /\ hidden \in [Views -> BOOLEAN]
    /\ source \in Views \union {NoView} /\ ahead \subseteq Views
    /\ path \in [target : Views \union {NoView}, rotation : Rotations]
    /\ topology \in [Views -> SUBSET Views] /\ wanted \in [Views -> Rotations]
    /\ shown \subseteq Views

\* A source that Windows has given paths is presented to one of their targets,
\* whatever commits for other sources, failed ones among them, came before.
PresentsOnPath ==
    pc = "idle" => \A s \in Views : topology[s] # {} => target[s] \in topology[s]

\* A rotation is updated on a path between unlike indices, one of them t: it
\* is stored where the present does not look, and in the place of another.
Misplaces(t) ==
    \E v \in Views, r \in Rotations : \E u \in topology[v] \ {v} :
        t \in {u, v} /\ UpdateActiveVidPnPresentPath(v, u, r)

\* What is presented on a path is turned as Windows wants it from the commit
\* on: no commit for another source, failed or not, and no update of a path
\* turns it, but for the updates that misplace the rotation.
TurnedKept(s, t) ==
    rotation'[t] # wanted'[t] =>
        (t \in topology[s] /\ rotation[t] # wanted[t]) \/ Misplaces(t)

TurnedAsWanted == [][\A s \in Views : \A t \in topology'[s] : TurnedKept(s, t)]_pathsVars

\* A source that Windows shows is presented, and goes on to be until Windows
\* hides or commits it: hiding another source does not hide it, though the
\* other one had the same target before, unless that one has no path now.
ShownKept(s) ==
    hidden'[target'[s]] =>
        /\ s \in shown
        /\ \/ hidden[target[s]]
           \/ \E v \in Views : topology[v] = {} /\ target[v] = target[s]

ShownIsPresented == [][\A s \in shown' : ShownKept(s)]_pathsVars
=============================================================================
