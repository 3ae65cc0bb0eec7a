----------------------------- MODULE PathsProofs -----------------------------
(***************************************************************************)
(* Proofs about EnumVidPn, CommitVidPn and Paths, for any number of paths  *)
(* and views.  First what the two functions borrow and give back: each     *)
(* resource is borrowed once exactly while its variable is not NULL, and   *)
(* at each call it is known which variables those are.  Then that Paths is *)
(* CommitVidPn with more to it, so that this holds there too; and last     *)
(* what a commit leaves to be presented.                                   *)
(***************************************************************************)
EXTENDS Paths, TLAPS

\* The calls at which there is a target's mode set or pinned mode, ...
TargetCalls == {"target pin", "release target", "add target", "assign target",
                "release target pin", "release pinned target"}
\* ... and a source's for sure, or for sure not.
SourceCalls == {"source pin", "release source", "add source", "assign source",
                "release source pin", "release pinned source"}
NoSourceCalls == {"source set", "create source", "support", "next path", "release path"}

\* What the enumeration has at each call of its loop.
LoopHas ==
    /\ pc \in Calls \ {"release path"} => "path" \in ptr /\ "lastPath" \notin ptr
    /\ pc = "release path" => /\ "lastPath" \in ptr
                              /\ "path" \in ptr <=> status # "no more"
    /\ pc \in Calls => ("targetSet" \in ptr <=> pc \in TargetCalls)
    /\ pc \in Calls => ("targetMode" \in ptr <=> pc = "release target pin")
    /\ pc \in SourceCalls => "sourceSet" \in ptr
    /\ pc \in NoSourceCalls => {"sourceSet", "sourceMode"} \intersect ptr = {}
    /\ pc \in {"source pin", "release source", "add source", "assign source",
               "release pinned source"} => "sourceMode" \notin ptr
    /\ pc = "release source pin" => "sourceMode" \in ptr

\* What the commit has.
CommitHas ==
    /\ pc \in {"idle", "commit interfaces", "commit source set"} => ptr = {}
    /\ pc = "commit source pin" => ptr = {"sourceSet"}
    /\ pc \in {"commit mode", "commit target", "commit path"} => ptr = {"sourceSet", "sourceMode"}
    /\ pc \in {"commit set mode", "commit release path"} =>
          ptr = {"sourceSet", "sourceMode", "path"}
    /\ pc \in {"commit clean mode", "commit clean set"} =>
          ptr \subseteq {"sourceSet", "sourceMode", "path"}

\* What is left when the cleanups have gone through the modes, and the sets.
CleanedUp ==
    /\ pc \in {"clean sets", "commit clean set"} => {"sourceMode", "targetMode"} \intersect ptr = {}
    /\ pc = "returned" => enforced \/ ptr = {}

\* A mode's set is there as long as the mode is.
ModeHasSet ==
    /\ "sourceMode" \in ptr => "sourceSet" \in ptr
    /\ "targetMode" \in ptr => "targetSet" \in ptr

\* A resource is borrowed once if its variable is not NULL, and not at all if
\* it is; of the target's mode sets more may be, once one has been forgotten.
Counted ==
    \A r \in Resources :
        /\ r # "targetSet" \/ ~emptied => held[r] = IF r \in ptr THEN 1 ELSE 0
        /\ r \in ptr => held[r] > 0

\* Status is success as long as the loop goes on.
StatusInLoop ==
    /\ pc \in (Calls \ {"release path"}) \union {"idle"} => status = "success"
    /\ pc = "release path" => status \in {"success", "no more"}

VidPnInv ==
    /\ TypeOK
    /\ LoopHas
    /\ CommitHas
    /\ CleanedUp
    /\ ModeHasSet
    /\ Counted
    /\ StatusInLoop
    /\ SuccessIsClean

-----------------------------------------------------------------------------
\* Borrowing a resource whose variable is NULL, giving one back, and giving
\* back whatever is there of a set of them keep the count right.
LEMMA AcquireCounts ==
  ASSUME ptr \subseteq Resources, held \in [Resources -> Nat], Counted,
         NEW r \in Resources, r \notin ptr, Acquire(r), emptied' = emptied
  PROVE  ptr' \subseteq Resources /\ held' \in [Resources -> Nat] /\ Counted'
  BY DEF Acquire, Counted

LEMMA ReleaseCounts ==
  ASSUME ptr \subseteq Resources, held \in [Resources -> Nat], Counted,
         NEW r \in ptr, Release(r), emptied' = emptied
  PROVE  ptr' \subseteq Resources /\ held' \in [Resources -> Nat] /\ Counted'
  BY DEF Release, Counted

LEMMA CleanCounts ==
  ASSUME ptr \subseteq Resources, held \in [Resources -> Nat], Counted,
         NEW rs \in SUBSET Resources, Clean(rs), emptied' = emptied
  PROVE  ptr' \subseteq Resources /\ held' \in [Resources -> Nat] /\ Counted'
  BY DEF Clean, Counted

\* The step keeps the counts, or neither borrows nor gives back.
LEMMA SameCounts ==
  ASSUME ptr \subseteq Resources, held \in [Resources -> Nat], Counted,
         UNCHANGED <<ptr, held, emptied>>
  PROVE  ptr' \subseteq Resources /\ held' \in [Resources -> Nat] /\ Counted'
  BY DEF Counted

-----------------------------------------------------------------------------
\* Where the commit is between a source's old paths and its new ones.
Committing == CommitCalls \union {"commit clean mode", "commit clean set"}
OnPath == {"commit path", "commit set mode", "commit release path"}

\* The source and the path of a commit are views while it has them.
CommitKnows ==
    /\ source \in Views <=> pc \in Committing
    /\ pc \in OnPath => path.target \in Views

\* A target belongs to one source; those that the commit has still to set
\* belong to no other.
OneSource ==
    /\ \A s, v \in Views : s # v => topology[s] \intersect topology[v] = {}
    /\ \A v \in Views \ {source} : topology[v] \intersect (ahead \union {path.target}) = {}

\* What is stored of the sources that have paths, at any time.
Stored == \A s \in Views : topology[s] # {} => target[s] \in topology[s]

\* A source that is shown has paths, and is not being committed.
ShownHasPath == \A s \in shown : s # source /\ topology[s] # {}

PathsInv ==
    /\ PathsTypeOK
    /\ CommitKnows
    /\ OneSource
    /\ Stored
    /\ ShownHasPath

-----------------------------------------------------------------------------
\* Paths are counted up to the bound.
LEMMA PathCounts ==
    /\ 0 \in 0 .. MaxPaths /\ 1 \in 0 .. MaxPaths
    /\ \A n \in 0 .. MaxPaths : n < MaxPaths => n + 1 \in 0 .. MaxPaths
  BY EnumAssumption

\* The steps of the enumeration that are about a path's source, ...
LEMMA SourceStep ==
  ASSUME VidPnInv, SourceSteps, enforced' = FALSE
  PROVE  VidPnInv'
  <1> USE DEF VidPnInv, TypeOK, DataOK, Calls, CommitCalls, Resources, Pivots, call, AcquireAt, ReleaseAt, Pass, AfterSource, AfterTarget
  <1>1. CASE SourceSet
    <2>1. "sourceSet" \in Resources \ ptr /\ Acquire("sourceSet") /\ emptied' = emptied
      BY <1>1 DEF SourceSet, LoopHas, CommitHas, TargetCalls, SourceCalls, NoSourceCalls
    <2>2. ptr' \subseteq Resources /\ held' \in [Resources -> Nat] /\ Counted'
      BY <2>1, AcquireCounts
    <2>3. TypeOK'
      BY <1>1, <2>2 DEF SourceSet, Acquire, TypeOK, DataOK
    <2>4. StatusInLoop' /\ SuccessIsClean'
      BY <1>1, <2>2 DEF SourceSet, Acquire, StatusInLoop, SuccessIsClean, LoopHas, TargetCalls, NoSourceCalls
    <2>5. LoopHas' /\ ModeHasSet'
      BY <1>1, <2>2 DEF SourceSet, Acquire, LoopHas, CommitHas, ModeHasSet, TargetCalls, SourceCalls, NoSourceCalls, StatusInLoop
    <2>6. CommitHas' /\ CleanedUp'
      BY <1>1, <2>2 DEF SourceSet, Acquire, LoopHas, CommitHas, CleanedUp
    <2> QED
      BY <2>2, <2>3, <2>4, <2>5, <2>6
  <1>2. CASE SourcePinned
    <2>1. "sourceMode" \in Resources \ ptr /\ Acquire("sourceMode") /\ emptied' = emptied
      BY <1>2 DEF SourcePinned, LoopHas, CommitHas, TargetCalls, SourceCalls, NoSourceCalls
    <2>2. ptr' \subseteq Resources /\ held' \in [Resources -> Nat] /\ Counted'
      BY <2>1, AcquireCounts
    <2>3. TypeOK'
      BY <1>2, <2>2 DEF SourcePinned, Acquire, TypeOK, DataOK
    <2>4. StatusInLoop' /\ SuccessIsClean'
      BY <1>2, <2>2 DEF SourcePinned, Acquire, StatusInLoop, SuccessIsClean, LoopHas, TargetCalls, NoSourceCalls
    <2>5. LoopHas' /\ ModeHasSet'
      BY <1>2, <2>2 DEF SourcePinned, Acquire, LoopHas, CommitHas, ModeHasSet, TargetCalls, SourceCalls, NoSourceCalls, StatusInLoop
    <2>6. CommitHas' /\ CleanedUp'
      BY <1>2, <2>2 DEF SourcePinned, Acquire, LoopHas, CommitHas, CleanedUp
    <2> QED
      BY <2>2, <2>3, <2>4, <2>5, <2>6
  <1>3. CASE SourceUnpinned \/ AddSourceModes
    <2>1. ptr' \subseteq Resources /\ held' \in [Resources -> Nat] /\ Counted'
      BY <1>3, SameCounts DEF SourceUnpinned, AddSourceModes
    <2>2. TypeOK'
      BY <1>3, <2>1 DEF SourceUnpinned, AddSourceModes, TypeOK, DataOK
    <2>3. StatusInLoop' /\ SuccessIsClean'
      BY <1>3, <2>1 DEF SourceUnpinned, AddSourceModes, StatusInLoop, SuccessIsClean, LoopHas, TargetCalls, NoSourceCalls
    <2>4. LoopHas' /\ ModeHasSet'
      BY <1>3, <2>1 DEF SourceUnpinned, AddSourceModes, LoopHas, CommitHas, ModeHasSet, TargetCalls, SourceCalls, NoSourceCalls, StatusInLoop
    <2>5. CommitHas' /\ CleanedUp'
      BY <1>3, <2>1 DEF SourceUnpinned, AddSourceModes, LoopHas, CommitHas, CleanedUp
    <2> QED
      BY <2>1, <2>2, <2>3, <2>4, <2>5
  <1>4. CASE ReleaseSource
    <2>1. "sourceSet" \in ptr /\ Release("sourceSet") /\ emptied' = emptied
      BY <1>4 DEF ReleaseSource, LoopHas, CommitHas, TargetCalls, SourceCalls, NoSourceCalls
    <2>2. ptr' \subseteq Resources /\ held' \in [Resources -> Nat] /\ Counted'
      BY <2>1, ReleaseCounts
    <2>3. TypeOK'
      BY <1>4, <2>2 DEF ReleaseSource, Release, TypeOK, DataOK
    <2>4. StatusInLoop' /\ SuccessIsClean'
      BY <1>4, <2>2 DEF ReleaseSource, Release, StatusInLoop, SuccessIsClean, LoopHas, TargetCalls, NoSourceCalls
    <2>5. LoopHas' /\ ModeHasSet'
      <3>1. LoopHas'
        <4>1. pc = "release source" /\ ptr' = ptr \ {"sourceSet"} /\ LoopHas
          BY <1>4 DEF ReleaseSource, Release
        <4>2. pc' = "create source"
          BY <1>4 DEF ReleaseSource
        <4> HIDE DEF VidPnInv, TypeOK, DataOK, AfterTarget
        <4>3. /\ "sourceMode" \notin ptr /\ "path" \in ptr
              /\ {"lastPath", "targetSet", "targetMode"} \intersect ptr = {}
          BY <4>1 DEF LoopHas, TargetCalls
        <4> QED
          BY <4>1, <4>2, <4>3 DEF LoopHas, TargetCalls, SourceCalls, NoSourceCalls
      <3>2. ModeHasSet'
        BY <1>4, <2>2 DEF ReleaseSource, Release, LoopHas, ModeHasSet, TargetCalls, SourceCalls,
           NoSourceCalls
      <3> QED
        BY <3>1, <3>2
    <2>6. CommitHas' /\ CleanedUp'
      BY <1>4, <2>2 DEF ReleaseSource, Release, LoopHas, CommitHas, CleanedUp
    <2> QED
      BY <2>2, <2>3, <2>4, <2>5, <2>6
  <1>5. CASE CreateSource
    <2>1. "sourceSet" \in Resources \ ptr /\ Acquire("sourceSet") /\ emptied' = emptied
      BY <1>5 DEF CreateSource, LoopHas, CommitHas, TargetCalls, SourceCalls, NoSourceCalls
    <2>2. ptr' \subseteq Resources /\ held' \in [Resources -> Nat] /\ Counted'
      BY <2>1, AcquireCounts
    <2>3. TypeOK'
      BY <1>5, <2>2 DEF CreateSource, Acquire, TypeOK, DataOK
    <2>4. StatusInLoop' /\ SuccessIsClean'
      BY <1>5, <2>2 DEF CreateSource, Acquire, StatusInLoop, SuccessIsClean, LoopHas, TargetCalls, NoSourceCalls
    <2>5. LoopHas' /\ ModeHasSet'
      BY <1>5, <2>2 DEF CreateSource, Acquire, LoopHas, CommitHas, ModeHasSet, TargetCalls, SourceCalls, NoSourceCalls, StatusInLoop
    <2>6. CommitHas' /\ CleanedUp'
      BY <1>5, <2>2 DEF CreateSource, Acquire, LoopHas, CommitHas, CleanedUp
    <2> QED
      BY <2>2, <2>3, <2>4, <2>5, <2>6
  <1>6. CASE AssignSource
    <2>1. "sourceSet" \in ptr /\ Release("sourceSet") /\ emptied' = emptied
      BY <1>6 DEF AssignSource, LoopHas, CommitHas, TargetCalls, SourceCalls, NoSourceCalls
    <2>2. ptr' \subseteq Resources /\ held' \in [Resources -> Nat] /\ Counted'
      BY <2>1, ReleaseCounts
    <2>3. TypeOK'
      BY <1>6, <2>2 DEF AssignSource, Release, TypeOK, DataOK
    <2>4. StatusInLoop' /\ SuccessIsClean'
      BY <1>6, <2>2 DEF AssignSource, Release, StatusInLoop, SuccessIsClean, LoopHas, TargetCalls, NoSourceCalls
    <2>5. LoopHas' /\ ModeHasSet'
      <3>1. LoopHas'
        <4>1. pc = "assign source" /\ ptr' = ptr \ {"sourceSet"} /\ LoopHas
          BY <1>6 DEF AssignSource, Release
        <4>2. pc' \in {"target set", AfterTarget}
          BY <1>6 DEF AssignSource
        <4> HIDE DEF VidPnInv, TypeOK, DataOK, AfterTarget
        <4>3. /\ "sourceMode" \notin ptr /\ "path" \in ptr
              /\ {"lastPath", "targetSet", "targetMode"} \intersect ptr = {}
          BY <4>1 DEF LoopHas, TargetCalls
        <4> QED
          BY <4>1, <4>2, <4>3 DEF LoopHas, TargetCalls, SourceCalls, NoSourceCalls, AfterTarget
      <3>2. ModeHasSet'
        BY <1>6, <2>2 DEF AssignSource, Release, LoopHas, ModeHasSet, TargetCalls, SourceCalls,
           NoSourceCalls
      <3> QED
        BY <3>1, <3>2
    <2>6. CommitHas' /\ CleanedUp'
      BY <1>6, <2>2 DEF AssignSource, Release, LoopHas, CommitHas, CleanedUp
    <2> QED
      BY <2>2, <2>3, <2>4, <2>5, <2>6
  <1> QED
    BY <1>1, <1>2, <1>3, <1>4, <1>5, <1>6 DEF SourceSteps


\* When the target's modes are done with, what is left is the source's.
LEMMA AfterTargetHas ==
  ASSUME VidPnInv, ptr' = ptr \ {"targetSet"}, pc' = AfterTarget, status' = "success",
         "targetMode" \notin ptr, "path" \in ptr, "lastPath" \notin ptr
  PROVE  LoopHas' /\ ModeHasSet'
  <1>1. ModeHasSet'
    BY DEF VidPnInv, ModeHasSet
  <1> QED
    BY <1>1 DEF ModeHasSet, LoopHas, AfterTarget, TargetCalls, SourceCalls, NoSourceCalls, Calls

\* ... about its target, ...
LEMMA TargetStep ==
  ASSUME VidPnInv, TargetSteps, enforced' = FALSE
  PROVE  VidPnInv'
  <1> USE DEF VidPnInv, TypeOK, DataOK, Calls, CommitCalls, Resources, Pivots, call, AcquireAt, ReleaseAt, Pass, AfterSource, AfterTarget
  <1>1. CASE TargetSet
    <2>1. "targetSet" \in Resources \ ptr /\ Acquire("targetSet") /\ emptied' = emptied
      BY <1>1 DEF TargetSet, LoopHas, CommitHas, TargetCalls, SourceCalls, NoSourceCalls
    <2>2. ptr' \subseteq Resources /\ held' \in [Resources -> Nat] /\ Counted'
      BY <2>1, AcquireCounts
    <2>3. TypeOK'
      BY <1>1, <2>2 DEF TargetSet, Acquire, TypeOK, DataOK
    <2>4. StatusInLoop' /\ SuccessIsClean'
      BY <1>1, <2>2 DEF TargetSet, Acquire, StatusInLoop, SuccessIsClean, LoopHas, TargetCalls, NoSourceCalls
    <2>5. LoopHas' /\ ModeHasSet'
      BY <1>1, <2>2 DEF TargetSet, Acquire, LoopHas, CommitHas, ModeHasSet, TargetCalls, SourceCalls, NoSourceCalls, StatusInLoop
    <2>6. CommitHas' /\ CleanedUp'
      BY <1>1, <2>2 DEF TargetSet, Acquire, LoopHas, CommitHas, CleanedUp
    <2> QED
      BY <2>2, <2>3, <2>4, <2>5, <2>6
  <1>2. CASE TargetPinned
    <2>1. "targetMode" \in Resources \ ptr /\ Acquire("targetMode") /\ emptied' = emptied
      BY <1>2 DEF TargetPinned, LoopHas, CommitHas, TargetCalls, SourceCalls, NoSourceCalls
    <2>2. ptr' \subseteq Resources /\ held' \in [Resources -> Nat] /\ Counted'
      BY <2>1, AcquireCounts
    <2>3. TypeOK'
      BY <1>2, <2>2 DEF TargetPinned, Acquire, TypeOK, DataOK
    <2>4. StatusInLoop' /\ SuccessIsClean'
      BY <1>2, <2>2 DEF TargetPinned, Acquire, StatusInLoop, SuccessIsClean, LoopHas, TargetCalls, NoSourceCalls
    <2>5. LoopHas' /\ ModeHasSet'
      BY <1>2, <2>2 DEF TargetPinned, Acquire, LoopHas, CommitHas, ModeHasSet, TargetCalls, SourceCalls, NoSourceCalls, StatusInLoop
    <2>6. CommitHas' /\ CleanedUp'
      BY <1>2, <2>2 DEF TargetPinned, Acquire, LoopHas, CommitHas, CleanedUp
    <2> QED
      BY <2>2, <2>3, <2>4, <2>5, <2>6
  <1>3. CASE TargetUnpinned \/ AddTargetModes
    <2>1. ptr' \subseteq Resources /\ held' \in [Resources -> Nat] /\ Counted'
      BY <1>3, SameCounts DEF TargetUnpinned, AddTargetModes
    <2>2. TypeOK'
      BY <1>3, <2>1 DEF TargetUnpinned, AddTargetModes, TypeOK, DataOK
    <2>3. StatusInLoop' /\ SuccessIsClean'
      BY <1>3, <2>1 DEF TargetUnpinned, AddTargetModes, StatusInLoop, SuccessIsClean, LoopHas, TargetCalls, NoSourceCalls
    <2>4. LoopHas' /\ ModeHasSet'
      BY <1>3, <2>1 DEF TargetUnpinned, AddTargetModes, LoopHas, CommitHas, ModeHasSet, TargetCalls, SourceCalls, NoSourceCalls, StatusInLoop
    <2>5. CommitHas' /\ CleanedUp'
      BY <1>3, <2>1 DEF TargetUnpinned, AddTargetModes, LoopHas, CommitHas, CleanedUp
    <2> QED
      BY <2>1, <2>2, <2>3, <2>4, <2>5
  <1>4. CASE ReleaseTarget
    <2>1. "targetSet" \in ptr /\ Release("targetSet") /\ emptied' = emptied
      BY <1>4 DEF ReleaseTarget, LoopHas, CommitHas, TargetCalls, SourceCalls, NoSourceCalls
    <2>2. ptr' \subseteq Resources /\ held' \in [Resources -> Nat] /\ Counted'
      BY <2>1, ReleaseCounts
    <2>3. TypeOK'
      BY <1>4, <2>2 DEF ReleaseTarget, Release, TypeOK, DataOK
    <2>4. StatusInLoop' /\ SuccessIsClean'
      BY <1>4, <2>2 DEF ReleaseTarget, Release, StatusInLoop, SuccessIsClean, LoopHas, TargetCalls, NoSourceCalls
    <2>5. LoopHas' /\ ModeHasSet'
      BY <1>4, <2>2 DEF ReleaseTarget, Release, LoopHas, CommitHas, ModeHasSet, TargetCalls, SourceCalls, NoSourceCalls, StatusInLoop
    <2>6. CommitHas' /\ CleanedUp'
      BY <1>4, <2>2 DEF ReleaseTarget, Release, LoopHas, CommitHas, CleanedUp
    <2> QED
      BY <2>2, <2>3, <2>4, <2>5, <2>6
  <1>5. CASE CreateTarget
    <2>1. "targetSet" \in Resources \ ptr /\ Acquire("targetSet") /\ emptied' = emptied
      BY <1>5 DEF CreateTarget, LoopHas, CommitHas, TargetCalls, SourceCalls, NoSourceCalls
    <2>2. ptr' \subseteq Resources /\ held' \in [Resources -> Nat] /\ Counted'
      BY <2>1, AcquireCounts
    <2>3. TypeOK'
      BY <1>5, <2>2 DEF CreateTarget, Acquire, TypeOK, DataOK
    <2>4. StatusInLoop' /\ SuccessIsClean'
      BY <1>5, <2>2 DEF CreateTarget, Acquire, StatusInLoop, SuccessIsClean, LoopHas, TargetCalls, NoSourceCalls
    <2>5. LoopHas' /\ ModeHasSet'
      BY <1>5, <2>2 DEF CreateTarget, Acquire, LoopHas, CommitHas, ModeHasSet, TargetCalls, SourceCalls, NoSourceCalls, StatusInLoop
    <2>6. CommitHas' /\ CleanedUp'
      BY <1>5, <2>2 DEF CreateTarget, Acquire, LoopHas, CommitHas, CleanedUp
    <2> QED
      BY <2>2, <2>3, <2>4, <2>5, <2>6
  <1>6. CASE AssignTarget
    <2>1. "targetSet" \in ptr /\ Release("targetSet") /\ emptied' = emptied
      BY <1>6 DEF AssignTarget, LoopHas, CommitHas, TargetCalls, SourceCalls, NoSourceCalls
    <2>2. ptr' \subseteq Resources /\ held' \in [Resources -> Nat] /\ Counted'
      BY <2>1, ReleaseCounts
    <2>3. TypeOK'
      BY <1>6, <2>2 DEF AssignTarget, Release, TypeOK, DataOK
    <2>4. StatusInLoop' /\ SuccessIsClean'
      BY <1>6, <2>2 DEF AssignTarget, Release, StatusInLoop, SuccessIsClean, LoopHas, TargetCalls, NoSourceCalls
    <2>5. LoopHas' /\ ModeHasSet'
      <3>1. /\ ptr' = ptr \ {"targetSet"} /\ pc' = AfterTarget /\ status' = "success"
            /\ "targetMode" \notin ptr /\ "path" \in ptr /\ "lastPath" \notin ptr
        BY <1>6 DEF AssignTarget, Release, LoopHas, StatusInLoop
      <3> QED
        BY <3>1, AfterTargetHas
    <2>6. CommitHas' /\ CleanedUp'
      <3>1. pc' \in {"release source pin", "release pinned source", "support"}
        BY <1>6 DEF AssignTarget, Release
      <3> QED
        BY <3>1 DEF CommitHas, CleanedUp
    <2> QED
      BY <2>2, <2>3, <2>4, <2>5, <2>6
  <1>7. CASE ReleaseTargetPin
    <2>1. "targetMode" \in ptr /\ Release("targetMode") /\ emptied' = emptied
      BY <1>7 DEF ReleaseTargetPin, LoopHas, CommitHas, TargetCalls, SourceCalls, NoSourceCalls
    <2>2. ptr' \subseteq Resources /\ held' \in [Resources -> Nat] /\ Counted'
      BY <2>1, ReleaseCounts
    <2>3. TypeOK'
      BY <1>7, <2>2 DEF ReleaseTargetPin, Release, TypeOK, DataOK
    <2>4. StatusInLoop' /\ SuccessIsClean'
      BY <1>7, <2>2 DEF ReleaseTargetPin, Release, StatusInLoop, SuccessIsClean, LoopHas, TargetCalls, NoSourceCalls
    <2>5. LoopHas' /\ ModeHasSet'
      BY <1>7, <2>2 DEF ReleaseTargetPin, Release, LoopHas, CommitHas, ModeHasSet, TargetCalls, SourceCalls, NoSourceCalls, StatusInLoop
    <2>6. CommitHas' /\ CleanedUp'
      BY <1>7, <2>2 DEF ReleaseTargetPin, Release, LoopHas, CommitHas, CleanedUp
    <2> QED
      BY <2>2, <2>3, <2>4, <2>5, <2>6
  <1>8. CASE ReleasePinnedTarget
    <2>1. "targetSet" \in ptr /\ Release("targetSet") /\ emptied' = emptied
      BY <1>8 DEF ReleasePinnedTarget, LoopHas, CommitHas, TargetCalls, SourceCalls, NoSourceCalls
    <2>2. ptr' \subseteq Resources /\ held' \in [Resources -> Nat] /\ Counted'
      BY <2>1, ReleaseCounts
    <2>3. TypeOK'
      BY <1>8, <2>2 DEF ReleasePinnedTarget, Release, TypeOK, DataOK
    <2>4. StatusInLoop' /\ SuccessIsClean'
      BY <1>8, <2>2 DEF ReleasePinnedTarget, Release, StatusInLoop, SuccessIsClean, LoopHas, TargetCalls, NoSourceCalls
    <2>5. LoopHas' /\ ModeHasSet'
      <3>1. /\ ptr' = ptr \ {"targetSet"} /\ pc' = AfterTarget /\ status' = "success"
            /\ "targetMode" \notin ptr /\ "path" \in ptr /\ "lastPath" \notin ptr
        BY <1>8 DEF ReleasePinnedTarget, Release, LoopHas, StatusInLoop
      <3> QED
        BY <3>1, AfterTargetHas
    <2>6. CommitHas' /\ CleanedUp'
      <3>1. pc' \in {"release source pin", "release pinned source", "support"}
        BY <1>8 DEF ReleasePinnedTarget, Release
      <3> QED
        BY <3>1 DEF CommitHas, CleanedUp
    <2> QED
      BY <2>2, <2>3, <2>4, <2>5, <2>6
  <1>9. CASE AssignTargetFails
    <2>1. ptr' \subseteq Resources /\ held' \in [Resources -> Nat] /\ Counted'
      BY <1>9 DEF AssignTargetFails, Counted
    <2>2. TypeOK'
      BY <1>9, <2>1 DEF AssignTargetFails, TypeOK, DataOK
    <2>3. StatusInLoop' /\ SuccessIsClean'
      BY <1>9, <2>1 DEF AssignTargetFails, StatusInLoop, SuccessIsClean, LoopHas, TargetCalls, NoSourceCalls
    <2>4. LoopHas' /\ ModeHasSet'
      <3>1. CASE numModes
        BY <1>9, <2>1, <3>1 DEF AssignTargetFails, LoopHas, ModeHasSet, TargetCalls, SourceCalls, NoSourceCalls
      <3>2. CASE ~numModes
        <4>1. /\ ptr' = ptr \ {"targetSet"} /\ pc' = AfterTarget /\ status' = "success"
              /\ "targetMode" \notin ptr /\ "path" \in ptr /\ "lastPath" \notin ptr
          BY <1>9, <3>2 DEF AssignTargetFails, LoopHas, StatusInLoop
        <4> QED
          BY <4>1, AfterTargetHas
      <3> QED
        BY <3>1, <3>2
    <2>5. CommitHas' /\ CleanedUp'
      BY <1>9, <2>1 DEF AssignTargetFails, LoopHas, CommitHas, CleanedUp
    <2> QED
      BY <2>1, <2>2, <2>3, <2>4, <2>5
  <1> QED
    BY <1>1, <1>2, <1>3, <1>4, <1>5, <1>6, <1>7, <1>8, <1>9 DEF TargetSteps

\* ... and about the path itself.
LEMMA PathStep ==
  ASSUME VidPnInv, PathSteps, enforced' = FALSE
  PROVE  VidPnInv'
  <1> USE DEF VidPnInv, TypeOK, DataOK, Calls, CommitCalls, Resources, Pivots, call, AcquireAt, ReleaseAt, Pass, AfterSource, AfterTarget
  <1>1. CASE ReleaseSourcePin
    <2>1. "sourceMode" \in ptr /\ Release("sourceMode") /\ emptied' = emptied
      BY <1>1 DEF ReleaseSourcePin, LoopHas, CommitHas, TargetCalls, SourceCalls, NoSourceCalls
    <2>2. ptr' \subseteq Resources /\ held' \in [Resources -> Nat] /\ Counted'
      BY <2>1, ReleaseCounts
    <2>3. TypeOK'
      BY <1>1, <2>2 DEF ReleaseSourcePin, Release, TypeOK, DataOK
    <2>4. StatusInLoop' /\ SuccessIsClean'
      BY <1>1, <2>2 DEF ReleaseSourcePin, Release, StatusInLoop, SuccessIsClean, LoopHas, TargetCalls, NoSourceCalls
    <2>5. LoopHas' /\ ModeHasSet'
      BY <1>1, <2>2 DEF ReleaseSourcePin, Release, LoopHas, CommitHas, ModeHasSet, TargetCalls, SourceCalls, NoSourceCalls, StatusInLoop
    <2>6. CommitHas' /\ CleanedUp'
      BY <1>1, <2>2 DEF ReleaseSourcePin, Release, LoopHas, CommitHas, CleanedUp
    <2> QED
      BY <2>2, <2>3, <2>4, <2>5, <2>6
  <1>2. CASE ReleasePinnedSource
    <2>1. "sourceSet" \in ptr /\ Release("sourceSet") /\ emptied' = emptied
      BY <1>2 DEF ReleasePinnedSource, LoopHas, CommitHas, TargetCalls, SourceCalls, NoSourceCalls
    <2>2. ptr' \subseteq Resources /\ held' \in [Resources -> Nat] /\ Counted'
      BY <2>1, ReleaseCounts
    <2>3. TypeOK'
      BY <1>2, <2>2 DEF ReleasePinnedSource, Release, TypeOK, DataOK
    <2>4. StatusInLoop' /\ SuccessIsClean'
      BY <1>2, <2>2 DEF ReleasePinnedSource, Release, StatusInLoop, SuccessIsClean, LoopHas, TargetCalls, NoSourceCalls
    <2>5. LoopHas' /\ ModeHasSet'
      <3>1. LoopHas'
        <4>1. pc = "release pinned source" /\ ptr' = ptr \ {"sourceSet"} /\ LoopHas
          BY <1>2 DEF ReleasePinnedSource, Release
        <4>2. pc' = "support"
          BY <1>2 DEF ReleasePinnedSource
        <4> HIDE DEF VidPnInv, TypeOK, DataOK, AfterTarget
        <4>3. /\ "sourceMode" \notin ptr /\ "path" \in ptr
              /\ {"lastPath", "targetSet", "targetMode"} \intersect ptr = {}
          BY <4>1 DEF LoopHas, TargetCalls
        <4> QED
          BY <4>1, <4>2, <4>3 DEF LoopHas, TargetCalls, SourceCalls, NoSourceCalls
      <3>2. ModeHasSet'
        BY <1>2, <2>2 DEF ReleasePinnedSource, Release, LoopHas, ModeHasSet, TargetCalls, SourceCalls,
           NoSourceCalls
      <3> QED
        BY <3>1, <3>2
    <2>6. CommitHas' /\ CleanedUp'
      BY <1>2, <2>2 DEF ReleasePinnedSource, Release, LoopHas, CommitHas, CleanedUp
    <2> QED
      BY <2>2, <2>3, <2>4, <2>5, <2>6
  <1>3. CASE UpdatePathSupport \/ ReleasePathFails
    <2>1. ptr' \subseteq Resources /\ held' \in [Resources -> Nat] /\ Counted'
      BY <1>3, SameCounts DEF UpdatePathSupport, ReleasePathFails
    <2>2. TypeOK'
      BY <1>3, <2>1 DEF UpdatePathSupport, ReleasePathFails, TypeOK, DataOK
    <2>3. StatusInLoop' /\ SuccessIsClean'
      BY <1>3, <2>1 DEF UpdatePathSupport, ReleasePathFails, StatusInLoop, SuccessIsClean, LoopHas, TargetCalls, NoSourceCalls
    <2>4. LoopHas' /\ ModeHasSet'
      BY <1>3, <2>1 DEF UpdatePathSupport, ReleasePathFails, LoopHas, CommitHas, ModeHasSet, TargetCalls, SourceCalls, NoSourceCalls, StatusInLoop
    <2>5. CommitHas' /\ CleanedUp'
      BY <1>3, <2>1 DEF UpdatePathSupport, ReleasePathFails, LoopHas, CommitHas, CleanedUp
    <2> QED
      BY <2>1, <2>2, <2>3, <2>4, <2>5
  <1>4. CASE NextPath
    <2>1. ptr' \subseteq Resources /\ held' \in [Resources -> Nat] /\ Counted'
      BY <1>4 DEF NextPath, Counted, LoopHas
    <2>2. TypeOK'
      BY <1>4, <2>1, PathCounts DEF NextPath, TypeOK, DataOK
    <2>3. StatusInLoop' /\ SuccessIsClean'
      BY <1>4, <2>1, PathCounts DEF NextPath, StatusInLoop, SuccessIsClean, LoopHas, TargetCalls, NoSourceCalls
    <2>4. LoopHas' /\ ModeHasSet'
      BY <1>4, <2>1, PathCounts DEF NextPath, LoopHas, CommitHas, ModeHasSet, TargetCalls, SourceCalls, NoSourceCalls, StatusInLoop
    <2>5. CommitHas' /\ CleanedUp'
      BY <1>4, <2>1, PathCounts DEF NextPath, LoopHas, CommitHas, CleanedUp
    <2> QED
      BY <2>1, <2>2, <2>3, <2>4, <2>5
  <1>5. CASE NoNextPath
    <2>1. ptr' \subseteq Resources /\ held' \in [Resources -> Nat] /\ Counted'
      BY <1>5 DEF NoNextPath, Counted, LoopHas
    <2>2. TypeOK'
      BY <1>5, <2>1, PathCounts DEF NoNextPath, TypeOK, DataOK
    <2>3. StatusInLoop' /\ SuccessIsClean'
      BY <1>5, <2>1, PathCounts DEF NoNextPath, StatusInLoop, SuccessIsClean, LoopHas, TargetCalls, NoSourceCalls
    <2>4. LoopHas' /\ ModeHasSet'
      BY <1>5, <2>1, PathCounts DEF NoNextPath, LoopHas, CommitHas, ModeHasSet, TargetCalls, SourceCalls, NoSourceCalls, StatusInLoop
    <2>5. CommitHas' /\ CleanedUp'
      BY <1>5, <2>1, PathCounts DEF NoNextPath, LoopHas, CommitHas, CleanedUp
    <2> QED
      BY <2>1, <2>2, <2>3, <2>4, <2>5
  <1>6. CASE ReleasePath
    <2>1. "lastPath" \in ptr /\ Release("lastPath") /\ emptied' = emptied
      BY <1>6 DEF ReleasePath, LoopHas, CommitHas, TargetCalls, SourceCalls, NoSourceCalls
    <2>2. ptr' \subseteq Resources /\ held' \in [Resources -> Nat] /\ Counted'
      BY <2>1, ReleaseCounts
    <2>3. TypeOK'
      BY <1>6, <2>2 DEF ReleasePath, Release, TypeOK, DataOK
    <2>4. StatusInLoop' /\ SuccessIsClean'
      <3>1. StatusInLoop'
        BY <1>6 DEF ReleasePath, StatusInLoop
      <3>2. SuccessIsClean'
        BY <1>6 DEF ReleasePath, Release, SuccessIsClean, LoopHas, TargetCalls, NoSourceCalls
      <3> QED
        BY <3>1, <3>2
    <2>5. LoopHas' /\ ModeHasSet'
      BY <1>6, <2>2 DEF ReleasePath, Release, LoopHas, CommitHas, ModeHasSet, TargetCalls, SourceCalls, NoSourceCalls, StatusInLoop
    <2>6. CommitHas' /\ CleanedUp'
      BY <1>6, <2>2 DEF ReleasePath, Release, LoopHas, CommitHas, CleanedUp
    <2> QED
      BY <2>2, <2>3, <2>4, <2>5, <2>6
  <1> QED
    BY <1>1, <1>2, <1>3, <1>4, <1>5, <1>6 DEF PathSteps

\* The beginning and the end of the enumeration.
LEMMA EnumStep ==
  ASSUME VidPnInv, Next, enforced' = FALSE
  PROVE  VidPnInv'
  <1> USE DEF VidPnInv, TypeOK, DataOK, Calls, CommitCalls, Resources, Pivots, call, AcquireAt, ReleaseAt, Pass, AfterSource, AfterTarget
  <1>1. CASE AcquireFirstPath
    <2>1. "path" \in Resources \ ptr /\ Acquire("path") /\ emptied' = emptied
      BY <1>1 DEF AcquireFirstPath, LoopHas, CommitHas, TargetCalls, SourceCalls, NoSourceCalls
    <2>2. ptr' \subseteq Resources /\ held' \in [Resources -> Nat] /\ Counted'
      BY <2>1, AcquireCounts
    <2>3. TypeOK'
      BY <1>1, <2>2, PathCounts DEF AcquireFirstPath, Acquire, TypeOK, DataOK
    <2>4. StatusInLoop' /\ SuccessIsClean'
      BY <1>1, <2>2, PathCounts DEF AcquireFirstPath, Acquire, StatusInLoop, SuccessIsClean, LoopHas, TargetCalls, NoSourceCalls
    <2>5. LoopHas' /\ ModeHasSet'
      BY <1>1, <2>2, PathCounts DEF AcquireFirstPath, Acquire, LoopHas, CommitHas, ModeHasSet, TargetCalls, SourceCalls, NoSourceCalls, StatusInLoop
    <2>6. CommitHas' /\ CleanedUp'
      BY <1>1, <2>2, PathCounts DEF AcquireFirstPath, Acquire, LoopHas, CommitHas, CleanedUp
    <2> QED
      BY <2>2, <2>3, <2>4, <2>5, <2>6
  <1>2. CASE CallFails
    <2>1. ptr' \subseteq Resources /\ held' \in [Resources -> Nat] /\ Counted'
      BY <1>2, SameCounts DEF CallFails
    <2>2. TypeOK'
      BY <1>2, <2>1 DEF CallFails, TypeOK, DataOK
    <2>3. StatusInLoop' /\ SuccessIsClean'
      BY <1>2, <2>1 DEF CallFails, StatusInLoop, SuccessIsClean, LoopHas, TargetCalls, NoSourceCalls
    <2>4. LoopHas' /\ ModeHasSet'
      BY <1>2, <2>1 DEF CallFails, LoopHas, CommitHas, ModeHasSet, TargetCalls, SourceCalls, NoSourceCalls, StatusInLoop
    <2>5. CommitHas' /\ CleanedUp'
      BY <1>2, <2>1 DEF CallFails, LoopHas, CommitHas, CleanedUp
    <2> QED
      BY <2>1, <2>2, <2>3, <2>4, <2>5
  <1>3. CASE CleanModes
    <2>1. ptr' \subseteq Resources /\ held' \in [Resources -> Nat] /\ Counted'
      BY <1>3, CleanCounts DEF CleanModes
    <2>2. TypeOK'
      BY <1>3, <2>1 DEF CleanModes, Clean, TypeOK, DataOK
    <2>3. StatusInLoop' /\ SuccessIsClean'
      BY <1>3, <2>1 DEF CleanModes, Clean, StatusInLoop, SuccessIsClean, LoopHas, TargetCalls, NoSourceCalls
    <2>4. LoopHas' /\ ModeHasSet'
      BY <1>3, <2>1 DEF CleanModes, Clean, LoopHas, CommitHas, ModeHasSet, TargetCalls, SourceCalls, NoSourceCalls, StatusInLoop
    <2>5. CommitHas' /\ CleanedUp'
      BY <1>3, <2>1 DEF CleanModes, Clean, LoopHas, CommitHas, CleanedUp
    <2> QED
      BY <2>1, <2>2, <2>3, <2>4, <2>5
  <1>4. CASE CleanSets
    <2>1. ptr' \subseteq Resources /\ held' \in [Resources -> Nat] /\ Counted'
      BY <1>4, CleanCounts DEF CleanSets
    <2>2. TypeOK'
      BY <1>4, <2>1 DEF CleanSets, Clean, TypeOK, DataOK
    <2>3. StatusInLoop' /\ SuccessIsClean'
      BY <1>4, <2>1 DEF CleanSets, Clean, StatusInLoop, SuccessIsClean, LoopHas, TargetCalls, NoSourceCalls
    <2>4. LoopHas' /\ ModeHasSet'
      <3>1. ptr' = {}
        BY <1>4 DEF CleanSets, Clean, CommitHas, CleanedUp
      <3> QED
        BY <1>4, <3>1 DEF CleanSets, LoopHas, ModeHasSet, TargetCalls, SourceCalls, NoSourceCalls
    <2>5. CommitHas' /\ CleanedUp'
      BY <1>4, <2>1 DEF CleanSets, Clean, LoopHas, CommitHas, CleanedUp
    <2> QED
      BY <2>1, <2>2, <2>3, <2>4, <2>5
  <1>5. CASE Return
    <2>1. pc' = "idle" /\ ptr' = {} /\ held' = Nothing /\ status' = "success"
      BY <1>5 DEF Return
    <2>2. TypeOK'
      <3>1. ptr' \subseteq Resources /\ held' \in [Resources -> Nat]
        BY <2>1 DEF Nothing
      <3>2. paths' = 0 /\ paths' \in 0 .. MaxPaths
        BY <1>5, PathCounts DEF Return
      <3> QED
        BY <1>5, <3>1, <3>2 DEF Return
    <2>3. Counted' /\ StatusInLoop' /\ SuccessIsClean'
      BY <2>1 DEF Counted, Nothing, StatusInLoop, SuccessIsClean
    <2>4. LoopHas' /\ ModeHasSet' /\ CommitHas' /\ CleanedUp'
      BY <2>1 DEF LoopHas, ModeHasSet, TargetCalls, SourceCalls, NoSourceCalls, CommitHas, CleanedUp
    <2> QED
      BY <2>2, <2>3, <2>4
  <1> QED
    BY <1>1, <1>2, <1>3, <1>4, <1>5, SourceStep, TargetStep, PathStep DEF Next

\* The steps of the commit.
LEMMA CommitStep ==
  ASSUME VidPnInv, NextCommit
  PROVE  VidPnInv'
  <1> USE DEF VidPnInv, TypeOK, DataOK, Calls, CommitCalls, Resources, Pivots, call, others, CommitAcquire
  <1>1. CASE AcquireSourceModeSet
    <2>1. "sourceSet" \in Resources \ ptr /\ Acquire("sourceSet") /\ emptied' = emptied
      BY <1>1 DEF AcquireSourceModeSet, LoopHas, CommitHas, TargetCalls, SourceCalls, NoSourceCalls
    <2>2. ptr' \subseteq Resources /\ held' \in [Resources -> Nat] /\ Counted'
      BY <2>1, AcquireCounts
    <2>3. TypeOK'
      BY <1>1, <2>2 DEF AcquireSourceModeSet, Acquire, TypeOK, DataOK
    <2>4. StatusInLoop' /\ SuccessIsClean'
      BY <1>1, <2>2 DEF AcquireSourceModeSet, Acquire, StatusInLoop, SuccessIsClean, LoopHas, TargetCalls, NoSourceCalls
    <2>5. LoopHas' /\ ModeHasSet'
      BY <1>1, <2>2 DEF AcquireSourceModeSet, Acquire, LoopHas, CommitHas, ModeHasSet, TargetCalls, SourceCalls, NoSourceCalls, StatusInLoop
    <2>6. CommitHas' /\ CleanedUp'
      BY <1>1, <2>2 DEF AcquireSourceModeSet, Acquire, LoopHas, CommitHas, CleanedUp
    <2> QED
      BY <2>2, <2>3, <2>4, <2>5, <2>6
  <1>2. CASE AcquirePinnedModeInfo
    <2>1. "sourceMode" \in Resources \ ptr /\ Acquire("sourceMode") /\ emptied' = emptied
      <3>1. ptr = {"sourceSet"} /\ Acquire("sourceMode") /\ emptied' = emptied
        BY <1>2 DEF AcquirePinnedModeInfo, CommitHas
      <3> QED
        BY <3>1
    <2>2. ptr' \subseteq Resources /\ held' \in [Resources -> Nat] /\ Counted'
      BY <2>1, AcquireCounts
    <2>3. TypeOK'
      BY <1>2, <2>2 DEF AcquirePinnedModeInfo, Acquire, TypeOK, DataOK
    <2>4. StatusInLoop' /\ SuccessIsClean'
      BY <1>2, <2>2 DEF AcquirePinnedModeInfo, Acquire, StatusInLoop, SuccessIsClean, LoopHas, TargetCalls, NoSourceCalls
    <2>5. LoopHas' /\ ModeHasSet'
      BY <1>2, <2>2 DEF AcquirePinnedModeInfo, Acquire, LoopHas, CommitHas, ModeHasSet, TargetCalls, SourceCalls, NoSourceCalls, StatusInLoop
    <2>6. CommitHas' /\ CleanedUp'
      BY <1>2, <2>2 DEF AcquirePinnedModeInfo, Acquire, LoopHas, CommitHas, CleanedUp
    <2> QED
      BY <2>2, <2>3, <2>4, <2>5, <2>6
  <1>3. CASE AcquirePathInfo
    <2>1. "path" \in Resources \ ptr /\ Acquire("path") /\ emptied' = emptied
      BY <1>3 DEF AcquirePathInfo, LoopHas, CommitHas, TargetCalls, SourceCalls, NoSourceCalls
    <2>2. ptr' \subseteq Resources /\ held' \in [Resources -> Nat] /\ Counted'
      BY <2>1, AcquireCounts
    <2>3. TypeOK'
      BY <1>3, <2>2 DEF AcquirePathInfo, Acquire, TypeOK, DataOK
    <2>4. StatusInLoop' /\ SuccessIsClean'
      BY <1>3, <2>2 DEF AcquirePathInfo, Acquire, StatusInLoop, SuccessIsClean, LoopHas, TargetCalls, NoSourceCalls
    <2>5. LoopHas' /\ ModeHasSet'
      BY <1>3, <2>2 DEF AcquirePathInfo, Acquire, LoopHas, CommitHas, ModeHasSet, TargetCalls, SourceCalls, NoSourceCalls, StatusInLoop
    <2>6. CommitHas' /\ CleanedUp'
      BY <1>3, <2>2 DEF AcquirePathInfo, Acquire, LoopHas, CommitHas, CleanedUp
    <2> QED
      BY <2>2, <2>3, <2>4, <2>5, <2>6
  <1>4. CASE ReleasePathInfo
    <2>1. "path" \in ptr /\ Release("path") /\ emptied' = emptied
      BY <1>4 DEF ReleasePathInfo, LoopHas, CommitHas, TargetCalls, SourceCalls, NoSourceCalls
    <2>2. ptr' \subseteq Resources /\ held' \in [Resources -> Nat] /\ Counted'
      BY <2>1, ReleaseCounts
    <2>3. TypeOK'
      BY <1>4, <2>2 DEF ReleasePathInfo, Release, TypeOK, DataOK
    <2>4. StatusInLoop' /\ SuccessIsClean'
      BY <1>4, <2>2 DEF ReleasePathInfo, Release, StatusInLoop, SuccessIsClean, LoopHas, TargetCalls, NoSourceCalls
    <2>5. LoopHas' /\ ModeHasSet'
      BY <1>4, <2>2 DEF ReleasePathInfo, Release, LoopHas, CommitHas, ModeHasSet, TargetCalls, SourceCalls, NoSourceCalls, StatusInLoop
    <2>6. CommitHas' /\ CleanedUp'
      BY <1>4, <2>2 DEF ReleasePathInfo, Release, LoopHas, CommitHas, CleanedUp
    <2> QED
      BY <2>2, <2>3, <2>4, <2>5, <2>6
  <1>5. CASE CommitPoweredOff \/ BeginCommit \/ QueryInterfaces \/ NothingPinned
    <2>1. ptr' \subseteq Resources /\ held' \in [Resources -> Nat] /\ Counted'
      BY <1>5, SameCounts DEF CommitPoweredOff, BeginCommit, QueryInterfaces, NothingPinned
    <2>2. TypeOK'
      <3>1. DataOK' /\ enforced' \in BOOLEAN
        BY <1>5, <2>1 DEF CommitPoweredOff, BeginCommit, QueryInterfaces, NothingPinned
      <3>2. pc' \in CommitCalls \union {"commit clean mode", "returned"}
        BY <1>5 DEF CommitPoweredOff, BeginCommit, QueryInterfaces, NothingPinned
      <3> QED
        BY <3>1, <3>2
    <2>3. StatusInLoop' /\ SuccessIsClean'
      BY <1>5, <2>1 DEF CommitPoweredOff, BeginCommit, QueryInterfaces, NothingPinned, StatusInLoop, SuccessIsClean, LoopHas, TargetCalls, NoSourceCalls
    <2>4. LoopHas' /\ ModeHasSet'
      BY <1>5, <2>1 DEF CommitPoweredOff, BeginCommit, QueryInterfaces, NothingPinned, LoopHas, CommitHas, ModeHasSet, TargetCalls, SourceCalls, NoSourceCalls, StatusInLoop
    <2>5. CommitHas' /\ CleanedUp'
      BY <1>5, <2>1 DEF CommitPoweredOff, BeginCommit, QueryInterfaces, NothingPinned, LoopHas, CommitHas, CleanedUp
    <2> QED
      BY <2>1, <2>2, <2>3, <2>4, <2>5
  <1>6. CASE CheckPinnedMode \/ EnumPathTarget \/ SetMode
    <2>1. ptr' \subseteq Resources /\ held' \in [Resources -> Nat] /\ Counted'
      BY <1>6, SameCounts DEF CheckPinnedMode, EnumPathTarget, SetMode
    <2>2. TypeOK'
      <3>1. DataOK' /\ enforced' \in BOOLEAN
        BY <1>6, <2>1, PathCounts DEF CheckPinnedMode, EnumPathTarget, SetMode
      <3>2. pc' \in CommitCalls \union {"commit clean mode"}
        BY <1>6 DEF CheckPinnedMode, EnumPathTarget, SetMode
      <3> QED
        BY <3>1, <3>2
    <2>3. StatusInLoop' /\ SuccessIsClean'
      BY <1>6, <2>1, PathCounts DEF CheckPinnedMode, EnumPathTarget, SetMode, StatusInLoop, SuccessIsClean, LoopHas, TargetCalls, NoSourceCalls
    <2>4. LoopHas' /\ ModeHasSet'
      BY <1>6, <2>1, PathCounts DEF CheckPinnedMode, EnumPathTarget, SetMode, LoopHas, CommitHas, ModeHasSet, TargetCalls, SourceCalls, NoSourceCalls, StatusInLoop
    <2>5. CommitHas' /\ CleanedUp'
      BY <1>6, <2>1, PathCounts DEF CheckPinnedMode, EnumPathTarget, SetMode, LoopHas, CommitHas, CleanedUp
    <2> QED
      BY <2>1, <2>2, <2>3, <2>4, <2>5
  <1>7. CASE RefuseDisconnected \/ CommitCallFails
    <2>1. ptr' \subseteq Resources /\ held' \in [Resources -> Nat] /\ Counted'
      BY <1>7, SameCounts DEF RefuseDisconnected, CommitCallFails
    <2>2. TypeOK'
      BY <1>7, <2>1 DEF RefuseDisconnected, CommitCallFails, TypeOK, DataOK
    <2>3. StatusInLoop' /\ SuccessIsClean'
      BY <1>7, <2>1 DEF RefuseDisconnected, CommitCallFails, StatusInLoop, SuccessIsClean, LoopHas, TargetCalls, NoSourceCalls
    <2>4. LoopHas' /\ ModeHasSet'
      BY <1>7, <2>1 DEF RefuseDisconnected, CommitCallFails, LoopHas, CommitHas, ModeHasSet, TargetCalls, SourceCalls, NoSourceCalls, StatusInLoop
    <2>5. CommitHas' /\ CleanedUp'
      BY <1>7, <2>1 DEF RefuseDisconnected, CommitCallFails, LoopHas, CommitHas, CleanedUp
    <2> QED
      BY <2>1, <2>2, <2>3, <2>4, <2>5
  <1>8. CASE CleanPinnedMode
    <2>1. ptr' \subseteq Resources /\ held' \in [Resources -> Nat] /\ Counted'
      BY <1>8, CleanCounts DEF CleanPinnedMode
    <2>2. TypeOK'
      BY <1>8, <2>1 DEF CleanPinnedMode, Clean, TypeOK, DataOK
    <2>3. StatusInLoop' /\ SuccessIsClean'
      BY <1>8, <2>1 DEF CleanPinnedMode, Clean, StatusInLoop, SuccessIsClean, LoopHas, TargetCalls, NoSourceCalls
    <2>4. LoopHas' /\ ModeHasSet'
      BY <1>8, <2>1 DEF CleanPinnedMode, Clean, LoopHas, CommitHas, ModeHasSet, TargetCalls, SourceCalls, NoSourceCalls, StatusInLoop
    <2>5. CommitHas' /\ CleanedUp'
      BY <1>8, <2>1 DEF CleanPinnedMode, Clean, LoopHas, CommitHas, CleanedUp
    <2> QED
      BY <2>1, <2>2, <2>3, <2>4, <2>5
  <1>9. CASE CleanSetAndPath
    <2>1. ptr' \subseteq Resources /\ held' \in [Resources -> Nat] /\ Counted'
      BY <1>9, CleanCounts DEF CleanSetAndPath
    <2>2. TypeOK'
      BY <1>9, <2>1 DEF CleanSetAndPath, Clean, TypeOK, DataOK
    <2>3. StatusInLoop' /\ SuccessIsClean'
      BY <1>9, <2>1 DEF CleanSetAndPath, Clean, StatusInLoop, SuccessIsClean, LoopHas, TargetCalls, NoSourceCalls
    <2>4. LoopHas' /\ ModeHasSet'
      <3>1. ptr' = {}
        BY <1>9 DEF CleanSetAndPath, Clean, CommitHas, CleanedUp
      <3> QED
        BY <1>9, <3>1 DEF CleanSetAndPath, LoopHas, ModeHasSet, TargetCalls, SourceCalls, NoSourceCalls
    <2>5. CommitHas' /\ CleanedUp'
      BY <1>9, <2>1 DEF CleanSetAndPath, Clean, LoopHas, CommitHas, CleanedUp
    <2> QED
      BY <2>1, <2>2, <2>3, <2>4, <2>5
  <1> QED
    BY <1>1, <1>2, <1>3, <1>4, <1>5, <1>6, <1>7, <1>8, <1>9 DEF NextCommit

\* The invariant of the two functions.
LEMMA VidPnInvHolds == SpecVidPn => []VidPnInv
  <1>1. InitVidPn => VidPnInv
    <2> SUFFICES ASSUME InitVidPn PROVE VidPnInv
      OBVIOUS
    <2> USE DEF InitVidPn, Init, Nothing
    <2>1. TypeOK
      BY PathCounts DEF TypeOK, DataOK, Pivots
    <2>2. Counted /\ StatusInLoop /\ SuccessIsClean
      BY DEF Counted, StatusInLoop, SuccessIsClean, Calls
    <2>3. LoopHas /\ ModeHasSet /\ CommitHas /\ CleanedUp
      BY DEF LoopHas, ModeHasSet, TargetCalls, SourceCalls, NoSourceCalls, CommitHas, CleanedUp, Calls
    <2> QED
      BY <2>1, <2>2, <2>3 DEF VidPnInv
  <1>2. VidPnInv /\ [NextVidPn]_commitVars => VidPnInv'
    <2> SUFFICES ASSUME VidPnInv, [NextVidPn]_commitVars PROVE VidPnInv'
      OBVIOUS
    <2>1. CASE UNCHANGED commitVars
      <3> USE <2>1 DEF commitVars, VidPnInv
      <3>1. TypeOK' /\ Counted'
        BY DEF TypeOK, DataOK, Counted
      <3>2. LoopHas' /\ ModeHasSet'
        BY DEF LoopHas, ModeHasSet
      <3>3. CommitHas' /\ CleanedUp'
        BY DEF CommitHas, CleanedUp
      <3>4. StatusInLoop' /\ SuccessIsClean'
        BY DEF StatusInLoop, SuccessIsClean
      <3> QED
        BY <3>1, <3>2, <3>3, <3>4
    <2> QED
      BY <2>1, EnumStep, CommitStep DEF NextVidPn
  <1> QED
    BY <1>1, <1>2, PTL DEF SpecVidPn

-----------------------------------------------------------------------------
\* What is borrowed is in its variable, but for a forgotten mode set.
LEMMA BorrowedIsThere ==
  ASSUME Counted, NEW r \in Resources \ {"targetSet"}, held[r] > 0
  PROVE  r \in ptr
  BY DEF Counted

\* What is there when one of the two functions has returned.
LEMMA InvGivesBack == VidPnInv => GivesBack
  <1> SUFFICES ASSUME VidPnInv PROVE GivesBack
    OBVIOUS
  <1> USE DEF VidPnInv, TypeOK, DataOK, Counted
  <1>1. enforced \/ ReturnsClean
    <2> SUFFICES ASSUME ~enforced, pc = "returned", NEW r \in Resources,
                        ~(r = "targetSet" /\ emptied)
                 PROVE  held[r] = 0
      BY DEF ReturnsClean
    <2> QED
      BY DEF CleanedUp
  <1>2. ModesWithinSets
    BY BorrowedIsThere DEF ModeHasSet, ModesWithinSets, Resources
  <1> QED
    BY <1>1, <1>2 DEF GivesBack

\* A step of Paths is one of the two functions', or does not concern them.
LEMMA PathsStepIsCommitStep == [NextPaths]_pathsVars => [NextVidPn]_commitVars
  <1> SUFFICES ASSUME [NextPaths]_pathsVars PROVE [NextVidPn]_commitVars
    OBVIOUS
  <1>1. CASE UNCHANGED pathsVars
    BY <1>1 DEF pathsVars
  <1>2. CASE Enumerate
    BY <1>2 DEF Enumerate, NextVidPn
  <1>3. CASE CommitSteps
    <2>1. CASE \E s \in Views, ts \in SUBSET Views : BeginPaths(s, ts)
      BY <2>1 DEF BeginPaths, NextVidPn, NextCommit
    <2>2. CASE Query
      BY <2>2 DEF Query, NextVidPn, NextCommit
    <2>3. CASE \E t \in ahead, r \in Rotations : EnumPath(t, r)
      BY <2>3 DEF EnumPath, NextVidPn, NextCommit
    <2>4. CASE SetPath \/ Failure \/ Refusal
      BY <2>4 DEF SetPath, Failure, Refusal, NextVidPn, NextCommit
    <2>5. CASE NextTarget \/ Finish \/ Borrow
      BY <2>5 DEF NextTarget, Finish, Borrow, NextVidPn, NextCommit
    <2> QED
      BY <1>3, <2>1, <2>2, <2>3, <2>4, <2>5 DEF CommitSteps
  <1>4. CASE \E sources, connected \in SUBSET Views, visible \in BOOLEAN :
                SetVidPnSourceVisibility(sources, connected, visible)
    BY <1>4 DEF SetVidPnSourceVisibility
  <1>5. CASE \E s, t \in Views, r \in Rotations : UpdateActiveVidPnPresentPath(s, t, r)
    BY <1>5 DEF UpdateActiveVidPnPresentPath
  <1> QED
    BY <1>1, <1>2, <1>3, <1>4, <1>5 DEF NextPaths

\* The composition adds to the two functions and takes nothing from what is
\* known of them: every behaviour of Paths is one of CommitVidPn.
THEOREM PathsIsCommit == SpecPaths => SpecVidPn
  <1>1. InitPaths => InitVidPn
    BY DEF InitPaths
  <1> QED
    BY <1>1, PathsStepIsCommitStep, PTL DEF SpecPaths, SpecVidPn

\* Whichever call fails on whichever path, EnumVidPnCofuncModality and
\* CommitVidPn give back to dxgkrnl all they borrowed, once, and modes before
\* their sets; but for a commit that meets an enforced monitor that is not
\* connected, and for an empty target mode set that dxgkrnl did not take.
THEOREM EverythingGivenBack == SpecVidPn => []GivesBack
  BY VidPnInvHolds, InvGivesBack, PTL

\* It is so too with the paths and views that Windows commits.
THEOREM EverythingGivenBackOnPaths == SpecPaths => []GivesBack
  BY PathsIsCommit, EverythingGivenBack, PTL

\* The cleanup of EnumVidPnCofuncModality finds nothing to give back if Status
\* is success, as the assertion at its end says.
THEOREM CleanupOnlyAfterError == SpecVidPn => []SuccessIsClean
  <1>1. VidPnInv => SuccessIsClean
    BY DEF VidPnInv
  <1> QED
    BY <1>1, VidPnInvHolds, PTL

\* It is so too with the paths and views that Windows commits.
THEOREM CleanupOnlyAfterErrorOnPaths == SpecPaths => []SuccessIsClean
  BY PathsIsCommit, CleanupOnlyAfterError, PTL

-----------------------------------------------------------------------------
\* What is left of what Windows knows when paths have been withdrawn.
LEMMA WithdrawLeaves ==
  ASSUME topology \in [Views -> SUBSET Views], wanted \in [Views -> Rotations],
         shown \subseteq Views, NEW s, NEW ts, Withdraw(s, ts)
  PROVE  /\ topology' \in [Views -> SUBSET Views] /\ wanted' \in [Views -> Rotations]
         /\ shown' \subseteq shown
         /\ \A v \in Views : \/ topology'[v] = {}
                             \/ topology'[v] = topology[v] /\ v # s /\ topology[v] \intersect ts = {}
         /\ \A v \in Views : \A t \in topology'[v] : wanted'[t] = wanted[t]
         /\ \A v \in shown' : v # s /\ topology'[v] = topology[v]
  <1> DEFINE gone == {v \in Views : v = s \/ topology[v] \intersect ts # {}}
             left == UNION {topology[v] : v \in Views \ gone}
  <1>1. /\ topology' = [v \in Views |-> IF v \in gone THEN {} ELSE topology[v]]
        /\ wanted' = [v \in Views |-> IF v \in left THEN wanted[v] ELSE "identity"]
        /\ shown' = shown \ gone
    BY DEF Withdraw
  <1>2. \A v \in Views : topology'[v] = IF v \in gone THEN {} ELSE topology[v]
    BY <1>1
  <1>3. \A v \in Views : \A t \in topology'[v] : t \in Views /\ t \in left
    BY <1>2
  <1>4. "identity" \in Rotations
    BY DEF Rotations
  <1> HIDE DEF left
  <1>5. wanted' \in [Views -> Rotations]
    BY <1>1, <1>4
  <1>6. topology' \in [Views -> SUBSET Views]
    BY <1>1
  <1>7. \A v \in Views : \A t \in topology'[v] : wanted'[t] = wanted[t]
    BY <1>1, <1>3
  <1>8. \A v \in shown' : v # s /\ topology'[v] = topology[v]
    BY <1>1, <1>2
  <1> QED
    BY <1>1, <1>2, <1>5, <1>6, <1>7, <1>8

\* The enumeration is not a commit, and does not begin one.
LEMMA EnumerationIsNoCommit == Next => pc \notin Committing /\ pc' \notin Committing
  <1> SUFFICES ASSUME Next PROVE pc \notin Committing /\ pc' \notin Committing
    OBVIOUS
  <1> USE DEF Committing, CommitCalls, Calls, Pass, AcquireAt, ReleaseAt, AfterTarget, AfterSource
  <1>1. CASE AcquireFirstPath \/ CallFails \/ CleanModes \/ CleanSets \/ Return
    BY <1>1 DEF AcquireFirstPath, CallFails, CleanModes, CleanSets, Return
  <1>2. CASE SourceSteps
    BY <1>2 DEF SourceSteps, SourceSet, SourcePinned, SourceUnpinned, ReleaseSource,
       CreateSource, AddSourceModes, AssignSource
  <1>3. CASE TargetSteps
    BY <1>3 DEF TargetSteps, TargetSet, TargetPinned, TargetUnpinned, ReleaseTarget, CreateTarget,
       AddTargetModes, AssignTarget, AssignTargetFails, ReleaseTargetPin, ReleasePinnedTarget
  <1>4. CASE PathSteps
    BY <1>4 DEF PathSteps, ReleaseSourcePin, ReleasePinnedSource, UpdatePathSupport,
       NextPath, NoNextPath, ReleasePath, ReleasePathFails
  <1> QED
    BY <1>1, <1>2, <1>3, <1>4 DEF Next

\* A commit is given a source and its targets; those that held them have no
\* paths any more.
LEMMA BeginPathsStep ==
  ASSUME PathsInv, TypeOK', NEW s \in Views, NEW ts \in SUBSET Views, BeginPaths(s, ts)
  PROVE  PathsInv'
  <1> USE DEF PathsInv, PathsTypeOK, BeginPaths, modes
  <1>1. /\ pc' = "commit interfaces" /\ source' = s /\ ahead' = ts /\ path' = path
        /\ target' = target /\ rotation' = rotation /\ hidden' = hidden
        /\ pc = "idle" /\ Withdraw(s, ts)
    BY DEF BeginCommit
  <1>2. /\ topology' \in [Views -> SUBSET Views] /\ wanted' \in [Views -> Rotations]
        /\ shown' \subseteq shown
        /\ \A v \in Views : \/ topology'[v] = {}
                            \/ topology'[v] = topology[v] /\ v # s /\ topology[v] \intersect ts = {}
        /\ \A v \in Views : \A t \in topology'[v] : wanted'[t] = wanted[t]
        /\ \A v \in shown' : v # s /\ topology'[v] = topology[v]
    BY <1>1, WithdrawLeaves
  <1>3. source \notin Views
    BY <1>1 DEF CommitKnows, Committing, CommitCalls
  <1>4. PathsTypeOK'
    BY <1>1, <1>2
  <1>5. CommitKnows'
    BY <1>1 DEF CommitKnows, Committing, CommitCalls, OnPath
  <1>6. OneSource'
    BY <1>1, <1>2, <1>3 DEF OneSource
  <1>7. Stored'
    BY <1>1, <1>2 DEF Stored
  <1>8. ShownHasPath'
    BY <1>1, <1>2 DEF ShownHasPath
  <1> QED
    BY <1>4, <1>5, <1>6, <1>7, <1>8

\* What the commit has to set is not changed by calls that only borrow, give
\* back or query, nor is what is known of the paths.
LEMMA CommittingStep ==
  ASSUME PathsInv, TypeOK', UNCHANGED <<modes, commit, windows>>,
         pc \in Committing <=> pc' \in Committing, pc' \in OnPath => pc \in OnPath
  PROVE  PathsInv'
  <1> USE DEF PathsInv, PathsTypeOK, modes, commit, windows
  <1>1. PathsTypeOK'
    OBVIOUS
  <1>2. CommitKnows' /\ OneSource'
    BY DEF CommitKnows, OneSource
  <1>3. Stored' /\ ShownHasPath'
    BY DEF Stored, ShownHasPath
  <1> QED
    BY <1>1, <1>2, <1>3

LEMMA EnumPathStep ==
  ASSUME PathsInv, TypeOK', NEW t \in ahead, NEW r \in Rotations, EnumPath(t, r)
  PROVE  PathsInv'
  <1> USE DEF PathsInv, PathsTypeOK, EnumPath, EnumPathTarget, modes, windows
  <1>1. PathsTypeOK'
    OBVIOUS
  <1>2. CommitKnows'
    BY DEF CommitKnows, Committing, CommitCalls, OnPath
  <1>3. OneSource'
    <2>1. /\ UNCHANGED <<topology, source>>
          /\ ahead' \union {path'.target} \subseteq ahead \union {path.target}
      OBVIOUS
    <2>2. OneSource
      OBVIOUS
    <2> HIDE DEF PathsInv, PathsTypeOK, EnumPath
    <2> QED
      BY <2>1, <2>2 DEF OneSource
  <1>4. Stored' /\ ShownHasPath'
    BY DEF Stored, ShownHasPath
  <1> QED
    BY <1>1, <1>2, <1>3, <1>4

\* The mode of the path is set: its target and rotation are stored, and are
\* no other source's.
LEMMA SetPathStep ==
  ASSUME PathsInv, TypeOK', SetPath
  PROVE  PathsInv'
  <1> USE DEF PathsInv, PathsTypeOK, SetPath, StoreTarget, StoreRotation, commit
  <1>1. pc = "commit set mode" /\ pc' = "commit release path"
    BY DEF SetMode
  <1>2. source \in Views /\ path.target \in Views /\ path.rotation \in Rotations
    BY <1>1 DEF CommitKnows, Committing, CommitCalls, OnPath
  <1>3. PathsTypeOK'
    BY <1>2
  <1>4. CommitKnows'
    BY <1>1, <1>2 DEF CommitKnows, Committing, CommitCalls, OnPath
  <1>5. /\ topology'[source] = topology[source] \union {path.target}
        /\ \A v \in Views \ {source} : topology'[v] = topology[v] /\ path.target \notin topology[v]
    BY <1>2 DEF OneSource
  <1>6. OneSource'
    BY <1>5 DEF OneSource
  <1>7. Stored'
    BY <1>2, <1>5 DEF Stored
  <1>8. ShownHasPath'
    BY <1>2, <1>5 DEF ShownHasPath
  <1> QED
    BY <1>3, <1>4, <1>6, <1>7, <1>8

\* What a failed commit has stored is not of a path that Windows knows.
LEMMA FailureStep ==
  ASSUME PathsInv, TypeOK', Failure
  PROVE  PathsInv'
  <1> USE DEF PathsInv, PathsTypeOK, Failure, commit
  <1>1. /\ pc \in CommitCalls /\ pc' = "commit clean mode" /\ Withdraw(source, {})
        /\ source' = source /\ ahead' = ahead /\ path' = path
        /\ hidden' = hidden
    BY DEF CommitCallFails
  <1>2. source \in Views
    BY <1>1 DEF CommitKnows, Committing
  <1>3. /\ topology' \in [Views -> SUBSET Views] /\ wanted' \in [Views -> Rotations]
        /\ shown' \subseteq shown
        /\ \A v \in Views : \/ topology'[v] = {}
                            \/ topology'[v] = topology[v] /\ v # source
        /\ \A v \in Views : \A t \in topology'[v] : wanted'[t] = wanted[t]
        /\ \A v \in shown' : v # source /\ topology'[v] = topology[v]
    BY <1>1, WithdrawLeaves
  <1>4. \/ pc = "commit set mode" /\ path.target \in Views /\ path.rotation \in Rotations
        \/ target' = target /\ rotation' = rotation
    BY DEF CommitKnows, OnPath
  <1>5. /\ target' \in [Views -> Views] /\ rotation' \in [Views -> Rotations]
        /\ \A v \in Views \ {source} : target'[v] = target[v]
        /\ \A v \in Views \ {path.target} : rotation'[v] = rotation[v]
    BY <1>2, <1>4 DEF StoreTarget, StoreRotation
  <1>6. PathsTypeOK'
    BY <1>1, <1>3, <1>5
  <1>7. CommitKnows'
    BY <1>1, <1>2 DEF CommitKnows, Committing, OnPath
  <1>8. OneSource'
    BY <1>1, <1>3 DEF OneSource
  <1>9. Stored'
    BY <1>3, <1>5 DEF Stored
  <1>10. ShownHasPath'
    BY <1>1, <1>3 DEF ShownHasPath
  <1> QED
    BY <1>6, <1>7, <1>8, <1>9, <1>10

\* No commit, no path: nothing is left to set.
LEMMA NothingAhead ==
  ASSUME PathsTypeOK, source' = NoView, ahead' = {}, path' = NoPath
  PROVE  /\ source' \notin Views /\ ahead' \subseteq Views
         /\ path' \in [target : Views \union {NoView}, rotation : Rotations]
         /\ path'.target = NoView
  BY PathsAssumption DEF NoPath, Rotations

LEMMA RefusalStep ==
  ASSUME PathsInv, TypeOK', Refusal
  PROVE  PathsInv'
  <1> USE DEF PathsInv, PathsTypeOK, Refusal, modes
  <1>1. /\ pc' = "returned" /\ Withdraw(source, {})
        /\ target' = target /\ rotation' = rotation /\ hidden' = hidden
        /\ ahead' = {} /\ source' = NoView
    BY DEF RefuseDisconnected
  <1>2. /\ source' \notin Views
        /\ path' \in [target : Views \union {NoView}, rotation : Rotations]
        /\ path'.target = NoView
    BY NothingAhead
  <1>3. /\ topology' \in [Views -> SUBSET Views] /\ wanted' \in [Views -> Rotations]
        /\ shown' \subseteq shown
        /\ \A v \in Views : topology'[v] = {} \/ topology'[v] = topology[v]
        /\ \A v \in Views : \A t \in topology'[v] : wanted'[t] = wanted[t]
        /\ \A v \in shown' : topology'[v] = topology[v]
    BY <1>1, WithdrawLeaves
  <1>4. PathsTypeOK'
    BY <1>1, <1>2, <1>3
  <1>5. CommitKnows'
    BY <1>1, <1>2 DEF CommitKnows, Committing, CommitCalls, OnPath
  <1>6. OneSource'
    <2>1. \A v \in Views : topology[v] \subseteq Views
      OBVIOUS
    <2>2. OneSource
      OBVIOUS
    <2> HIDE DEF PathsInv, PathsTypeOK, Refusal
    <2> QED
      BY <1>1, <1>2, <1>3, <2>1, <2>2, PathsAssumption DEF OneSource
  <1>7. Stored'
    BY <1>1, <1>3 DEF Stored
  <1>8. ShownHasPath'
    BY <1>1, <1>2, <1>3 DEF ShownHasPath
  <1> QED
    BY <1>4, <1>5, <1>6, <1>7, <1>8

LEMMA NextTargetStep ==
  ASSUME PathsInv, TypeOK', NextTarget
  PROVE  PathsInv'
  <1> USE DEF PathsInv, PathsTypeOK, NextTarget, modes, windows
  <1>1. pc = "commit release path" /\ pc' \in {"commit target", "commit clean mode"}
    BY DEF ReleasePathInfo
  <1>2. path'.target = NoView /\ path' \in [target : Views \union {NoView}, rotation : Rotations]
    BY DEF NoPath, Rotations
  <1>3. PathsTypeOK'
    BY <1>2
  <1>4. CommitKnows'
    BY <1>1 DEF CommitKnows, Committing, CommitCalls, OnPath
  <1>5. OneSource'
    <2>1. \A v \in Views : topology'[v] = topology[v] /\ NoView \notin topology[v]
      BY PathsAssumption
    <2>2. ahead' = ahead /\ source' = source
      OBVIOUS
    <2>3. \A v \in Views \ {source} : topology[v] \intersect ahead = {}
      BY DEF OneSource
    <2> HIDE DEF PathsInv, PathsTypeOK, NextTarget
    <2>4. \A v \in Views \ {source} : topology'[v] \intersect (ahead' \union {path'.target}) = {}
      BY <1>2, <2>1, <2>2, <2>3
    <2>5. \A v, u \in Views : v # u => topology'[v] \intersect topology'[u] = {}
      BY <2>1 DEF PathsInv, OneSource
    <2> QED
      BY <2>2, <2>4, <2>5 DEF OneSource
  <1>6. Stored' /\ ShownHasPath'
    BY DEF Stored, ShownHasPath
  <1> QED
    BY <1>3, <1>4, <1>5, <1>6

LEMMA FinishStep ==
  ASSUME PathsInv, TypeOK', Finish
  PROVE  PathsInv'
  <1> USE DEF PathsInv, PathsTypeOK, Finish, modes, windows
  <1>1. pc' = "returned"
    BY DEF CleanSetAndPath
  <1>2. /\ source' \notin Views
        /\ path' \in [target : Views \union {NoView}, rotation : Rotations]
        /\ path'.target = NoView
    BY NothingAhead
  <1>3. PathsTypeOK'
    BY <1>2
  <1>4. CommitKnows'
    BY <1>1, <1>2 DEF CommitKnows, Committing, CommitCalls, OnPath
  <1>5. OneSource'
    BY <1>2, PathsAssumption DEF OneSource
  <1>6. Stored' /\ ShownHasPath'
    BY <1>2 DEF Stored, ShownHasPath
  <1> QED
    BY <1>3, <1>4, <1>5, <1>6

\* Showing and hiding leaves the paths alone, and only sources with paths are
\* shown.
LEMMA VisibilityStep ==
  ASSUME PathsInv, NEW sources \in SUBSET Views, NEW connected \in SUBSET Views,
         NEW visible \in BOOLEAN, SetVidPnSourceVisibility(sources, connected, visible)
  PROVE  PathsInv'
  <1> USE DEF PathsInv, PathsTypeOK
  <1>1. /\ UNCHANGED <<commitVars, target, rotation, commit, topology, wanted>>
        /\ hidden' \in [Views -> BOOLEAN]
        /\ shown' \subseteq shown \union {s \in Views : topology[s] # {}}
        /\ pc = "idle"
    BY DEF SetVidPnSourceVisibility, Hide
  <1>2. TypeOK' /\ pc' = pc
    BY <1>1 DEF TypeOK, DataOK, commitVars
  <1>3. source \notin Views
    BY <1>1 DEF CommitKnows, Committing, CommitCalls
  <1>4. PathsTypeOK'
    BY <1>1, <1>2 DEF commit
  <1>5. CommitKnows' /\ OneSource' /\ Stored'
    BY <1>1, <1>2 DEF CommitKnows, OneSource, Stored, commit
  <1>6. ShownHasPath'
    BY <1>1, <1>3 DEF ShownHasPath, commit
  <1> QED
    BY <1>4, <1>5, <1>6

\* An updated rotation changes none of what the invariant speaks of.
LEMMA UpdateStep ==
  ASSUME PathsInv, NEW s \in Views, NEW t \in Views, NEW r \in Rotations,
         UpdateActiveVidPnPresentPath(s, t, r)
  PROVE  PathsInv'
  <1> USE DEF PathsInv, PathsTypeOK, UpdateActiveVidPnPresentPath, commit
  <1>1. TypeOK' /\ pc' = pc
    BY DEF TypeOK, DataOK, commitVars
  <1>2. PathsTypeOK'
    BY <1>1
  <1>3. CommitKnows' /\ OneSource' /\ ShownHasPath'
    BY <1>1 DEF CommitKnows, OneSource, ShownHasPath
  <1>4. Stored'
    BY DEF Stored
  <1> QED
    BY <1>2, <1>3, <1>4

\* Every step of the composition keeps the invariant.
LEMMA PathsInvStep ==
  ASSUME PathsInv, VidPnInv', [NextPaths]_pathsVars
  PROVE  PathsInv'
  <1>1. TypeOK'
    BY DEF VidPnInv
  <1>2. CASE UNCHANGED pathsVars
    BY <1>1, <1>2, CommittingStep DEF pathsVars, commitVars
  <1>3. CASE Enumerate
    BY <1>1, <1>3, EnumerationIsNoCommit, CommittingStep DEF Enumerate, OnPath, Committing, CommitCalls
  <1>4. CASE CommitSteps
    <2>1. CASE Query
      <3>1. pc \in Committing /\ pc' \in Committing /\ pc' \notin OnPath
        BY <2>1 DEF Query, QueryInterfaces, NothingPinned, CheckPinnedMode, Committing, CommitCalls, OnPath
      <3> QED
        BY <1>1, <2>1, <3>1, CommittingStep DEF Query
    <2>2. CASE Borrow
      <3>1. /\ pc \in Committing <=> pc' \in Committing
            /\ pc' \in OnPath => pc \in OnPath
        BY <2>2 DEF Borrow, CommitPoweredOff, AcquireSourceModeSet, AcquirePinnedModeInfo,
           AcquirePathInfo, CleanPinnedMode, CommitAcquire, Committing, CommitCalls, OnPath
      <3> QED
        BY <1>1, <2>2, <3>1, CommittingStep DEF Borrow
    <2> QED
      BY <1>1, <1>4, <2>1, <2>2, BeginPathsStep, EnumPathStep, SetPathStep, FailureStep,
         RefusalStep, NextTargetStep, FinishStep DEF CommitSteps
  <1> QED
    BY <1>2, <1>3, <1>4, VisibilityStep, UpdateStep DEF NextPaths

\* The invariant of the paths.
LEMMA PathsInvHolds == SpecPaths => []PathsInv
  <1>1. InitPaths => PathsInv
    <2> SUFFICES ASSUME InitPaths PROVE PathsInv
      OBVIOUS
    <2> USE DEF InitPaths, InitModes
    <2>1. TypeOK
      BY PathCounts DEF InitVidPn, Init, Nothing, TypeOK, DataOK, Pivots
    <2>2. path.target = NoView /\ path \in [target : Views \union {NoView}, rotation : Rotations]
      BY DEF NoPath, Rotations
    <2>3. PathsTypeOK
      BY <2>1, <2>2 DEF PathsTypeOK, Rotations
    <2>4. CommitKnows
      BY PathsAssumption DEF CommitKnows, InitVidPn, Init, Committing, CommitCalls, OnPath
    <2>5. OneSource /\ Stored /\ ShownHasPath
      BY DEF OneSource, Stored, ShownHasPath
    <2> QED
      BY <2>3, <2>4, <2>5 DEF PathsInv
  <1>2. PathsInv /\ VidPnInv' /\ [NextPaths]_pathsVars => PathsInv'
    BY PathsInvStep
  <1> QED
    BY <1>1, <1>2, PathsIsCommit, VidPnInvHolds, PTL DEF SpecPaths

\* The variables of the commit, of what it stores and of what Windows knows
\* keep to their types.
THEOREM PathsTypes == SpecPaths => []PathsTypeOK
  BY PathsInvHolds, PTL DEF PathsInv

\* A source with paths is presented to the target of one of them, whatever
\* commits for other sources, failed ones among them, came before.
THEOREM PresentedOnItsPath == SpecPaths => []PresentsOnPath
  <1>1. PathsInv => PresentsOnPath
    BY DEF PathsInv, Stored, PresentsOnPath
  <1> QED
    BY <1>1, PathsInvHolds, PTL

-----------------------------------------------------------------------------
\* A path keeps its rotation, and what Windows wants of it.
LEMMA TurnUnchanged ==
  ASSUME NEW s, NEW t, t \in topology[s], rotation'[t] = rotation[t], wanted'[t] = wanted[t]
  PROVE  TurnedKept(s, t)
  BY DEF TurnedKept

\* What is left of the paths when those of a source are withdrawn is turned as
\* before, if no rotation is stored for a target of theirs.
LEMMA WithdrawTurns ==
  ASSUME PathsInv, NEW v, NEW ts, Withdraw(v, ts),
         \A s \in Views \ {v} : \A t \in topology[s] : rotation'[t] = rotation[t]
  PROVE  \A s \in Views : \A t \in topology'[s] : TurnedKept(s, t)
  <1> SUFFICES ASSUME NEW s \in Views, NEW t \in topology'[s] PROVE TurnedKept(s, t)
    OBVIOUS
  <1>1. s # v /\ t \in topology[s] /\ wanted'[t] = wanted[t]
    BY WithdrawLeaves DEF PathsInv, PathsTypeOK
  <1>2. rotation'[t] = rotation[t]
    BY <1>1
  <1> QED
    BY <1>1, <1>2, TurnUnchanged

\* The path that is set is turned as Windows wants it, the others as before.
LEMMA SetPathTurns ==
  ASSUME PathsInv, SetPath
  PROVE  \A s \in Views : \A t \in topology'[s] : TurnedKept(s, t)
  <1> SUFFICES ASSUME NEW s \in Views, NEW t \in topology'[s] PROVE TurnedKept(s, t)
    OBVIOUS
  <1> USE DEF PathsInv, PathsTypeOK
  <1>1. source \in Views /\ path.target \in Views
    BY DEF SetPath, SetMode, CommitKnows, Committing, CommitCalls, OnPath
  <1>2. /\ rotation' = [rotation EXCEPT ![path.target] = path.rotation]
        /\ wanted' = [wanted EXCEPT ![path.target] = path.rotation]
        /\ topology' = [topology EXCEPT ![source] = @ \union {path.target}]
    BY DEF SetPath, StoreRotation
  <1>3. CASE t = path.target
    <2>1. rotation'[t] = wanted'[t]
      BY <1>1, <1>2, <1>3
    <2> QED
      BY <2>1 DEF TurnedKept
  <1>4. CASE t # path.target
    <2>1. rotation'[t] = rotation[t] /\ wanted'[t] = wanted[t]
      BY <1>2, <1>4
    <2>2. t \in topology[s]
      BY <1>1, <1>2, <1>4
    <2> QED
      BY <2>1, <2>2, TurnUnchanged
  <1> QED
    BY <1>3, <1>4

\* An update turns its path as Windows wants it, if its indices are alike, and
\* misplaces the rotation of two targets at most if they are not.
LEMMA UpdateTurns ==
  ASSUME PathsInv, NEW v \in Views, NEW u \in Views, NEW r \in Rotations,
         UpdateActiveVidPnPresentPath(v, u, r)
  PROVE  \A s \in Views : \A t \in topology'[s] : TurnedKept(s, t)
  <1> SUFFICES ASSUME NEW s \in Views, NEW t \in topology'[s] PROVE TurnedKept(s, t)
    OBVIOUS
  <1>1. /\ rotation' = [rotation EXCEPT ![v] = r]
        /\ wanted' = [wanted EXCEPT ![u] = r]
        /\ topology' = topology /\ u \in topology[v]
    BY DEF UpdateActiveVidPnPresentPath
  <1>2. CASE t \notin {u, v}
    <2>1. rotation'[t] = rotation[t] /\ wanted'[t] = wanted[t]
      BY <1>1, <1>2 DEF PathsInv, PathsTypeOK
    <2> QED
      BY <1>1, <2>1, TurnUnchanged
  <1>3. CASE t \in {u, v} /\ u = v
    <2>1. rotation'[t] = wanted'[t]
      BY <1>1, <1>3 DEF PathsInv, PathsTypeOK
    <2> QED
      BY <2>1 DEF TurnedKept
  <1>4. CASE t \in {u, v} /\ u # v
    <2>1. Misplaces(t)
      BY <1>1, <1>4 DEF Misplaces
    <2> QED
      BY <2>1 DEF TurnedKept
  <1> QED
    BY <1>2, <1>3, <1>4

\* No step turns a path but those that misplace its rotation.
LEMMA TurnedStep ==
  ASSUME PathsInv, [NextPaths]_pathsVars
  PROVE  \A s \in Views : \A t \in topology'[s] : TurnedKept(s, t)
  <1>1. ASSUME UNCHANGED <<rotation, topology, wanted>>
        PROVE  \A s \in Views : \A t \in topology'[s] : TurnedKept(s, t)
    BY <1>1, TurnUnchanged
  <1>2. ASSUME NEW v \in Views, NEW ts \in SUBSET Views, BeginPaths(v, ts)
        PROVE  \A s \in Views : \A t \in topology'[s] : TurnedKept(s, t)
    BY <1>2, WithdrawTurns DEF BeginPaths, modes
  <1>3. CASE Failure
    <2>1. \A t \in Views \ {path.target} : rotation'[t] = rotation[t]
      BY <1>3 DEF Failure, StoreRotation, PathsInv, PathsTypeOK
    <2>2. \A s \in Views \ {source} : \A t \in topology[s] : t \in Views \ {path.target}
      BY DEF PathsInv, PathsTypeOK, OneSource
    <2> QED
      BY <1>3, <2>1, <2>2, WithdrawTurns DEF Failure
  <1>4. CASE Refusal
    BY <1>4, WithdrawTurns DEF Refusal, modes
  <1>5. CASE Enumerate \/ Query \/ NextTarget \/ Finish \/ Borrow
    BY <1>1, <1>5 DEF Enumerate, Query, NextTarget, Finish, Borrow, modes, windows
  <1>6. ASSUME NEW t \in ahead, NEW r \in Rotations, EnumPath(t, r)
        PROVE  \A s \in Views : \A u \in topology'[s] : TurnedKept(s, u)
    BY <1>1, <1>6 DEF EnumPath, modes, windows
  <1>7. ASSUME NEW sources \in SUBSET Views, NEW connected \in SUBSET Views,
               NEW visible \in BOOLEAN, SetVidPnSourceVisibility(sources, connected, visible)
        PROVE  \A s \in Views : \A t \in topology'[s] : TurnedKept(s, t)
    BY <1>1, <1>7 DEF SetVidPnSourceVisibility
  <1>8. CASE UNCHANGED pathsVars
    BY <1>1, <1>8 DEF pathsVars, modes, windows
  <1> QED
    BY <1>2, <1>3, <1>4, <1>5, <1>6, <1>7, <1>8, SetPathTurns, UpdateTurns
    DEF NextPaths, CommitSteps

\* What is presented is turned as Windows wants it from the commit on, but for
\* updates of the rotation of paths between unlike indices.
THEOREM PresentedTurned == SpecPaths => TurnedAsWanted
  BY TurnedStep, PathsInvHolds, PTL DEF SpecPaths, TurnedAsWanted

-----------------------------------------------------------------------------
\* A source that is shown goes on being presented, or not, as before.
LEMMA ShownUnchanged ==
  ASSUME shown' \subseteq shown, hidden' = hidden, \A s \in shown' : target'[s] = target[s]
  PROVE  \A s \in shown' : ShownKept(s)
  BY DEF ShownKept

\* Hiding a source hides its target, which is no shown source's unless the one
\* that is hidden has no path.
LEMMA VisibilityKeeps ==
  ASSUME PathsInv, NEW sources \in SUBSET Views, NEW connected \in SUBSET Views,
         NEW visible \in BOOLEAN, SetVidPnSourceVisibility(sources, connected, visible)
  PROVE  \A s \in shown' : ShownKept(s)
  <1> DEFINE effective == {s \in sources : target[s] \in connected}
  <1>1. /\ target' = target
        /\ sources = Views \/ \E v \in Views : sources = {v}
        /\ hidden' = [t \in Views |->
                        IF \E v \in effective : target[v] = t THEN ~visible ELSE hidden[t]]
        /\ shown' = IF visible THEN shown \union {v \in effective : topology[v] # {}}
                    ELSE shown \ sources
    BY DEF SetVidPnSourceVisibility, Hide
  <1>2. shown \subseteq Views /\ target \in [Views -> Views] /\ effective \subseteq Views
    BY DEF PathsInv, PathsTypeOK
  <1> SUFFICES ASSUME NEW s \in shown', hidden'[target[s]]
               PROVE  /\ s \in shown
                      /\ hidden[target[s]] \/ \E v \in Views : topology[v] = {} /\ target[v] = target[s]
    BY <1>1 DEF ShownKept
  <1>3. s \in Views /\ target[s] \in Views
    BY <1>1, <1>2
  <1>4. CASE visible
    <2>1. ~ \E v \in effective : target[v] = target[s]
      BY <1>1, <1>3, <1>4
    <2>2. s \in shown
      BY <1>1, <1>4, <2>1
    <2> QED
      BY <1>1, <1>3, <2>1, <2>2
  <1>5. CASE ~visible
    <2>1. s \in shown /\ s \notin sources
      BY <1>1, <1>5
    <2>2. PICK v \in Views : sources = {v}
      BY <1>1, <1>3, <2>1
    <2>3. hidden[target[s]] \/ target[v] = target[s]
      BY <1>1, <1>3, <2>2
    <2>4. target[v] = target[s] => topology[v] = {}
      <3>1. topology[s] # {} /\ v # s
        BY <2>1, <2>2 DEF PathsInv, ShownHasPath
      <3> QED
        BY <1>3, <3>1 DEF PathsInv, Stored, OneSource
    <2> QED
      BY <2>1, <2>3, <2>4
  <1> QED
    BY <1>4, <1>5

\* No other step touches what is shown but to withdraw it.
LEMMA ShownStep ==
  ASSUME PathsInv, [NextPaths]_pathsVars
  PROVE  \A s \in shown' : ShownKept(s)
  <1>1. ASSUME shown' \subseteq shown, UNCHANGED <<target, hidden>>
        PROVE  \A s \in shown' : ShownKept(s)
    BY <1>1, ShownUnchanged
  <1>2. ASSUME shown' \subseteq shown, hidden' = hidden, UNCHANGED target \/ StoreTarget
        PROVE  \A s \in shown' : ShownKept(s)
    <2>1. \A s \in shown' : target'[s] = target[s]
      BY <1>2 DEF StoreTarget, PathsInv, PathsTypeOK, ShownHasPath
    <2> QED
      BY <1>2, <2>1, ShownUnchanged
  <1>3. ASSUME NEW v \in Views, NEW ts \in SUBSET Views, BeginPaths(v, ts)
        PROVE  \A s \in shown' : ShownKept(s)
    BY <1>1, <1>3 DEF BeginPaths, Withdraw, modes
  <1>4. CASE SetPath \/ Failure
    BY <1>2, <1>4 DEF SetPath, Failure, Withdraw
  <1>5. CASE Refusal
    BY <1>1, <1>5 DEF Refusal, Withdraw, modes
  <1>6. CASE Enumerate \/ Query \/ NextTarget \/ Finish \/ Borrow
    BY <1>1, <1>6 DEF Enumerate, Query, NextTarget, Finish, Borrow, modes, windows
  <1>7. ASSUME NEW t \in ahead, NEW r \in Rotations, EnumPath(t, r)
        PROVE  \A s \in shown' : ShownKept(s)
    BY <1>1, <1>7 DEF EnumPath, modes, windows
  <1>8. ASSUME NEW v \in Views, NEW u \in Views, NEW r \in Rotations,
               UpdateActiveVidPnPresentPath(v, u, r)
        PROVE  \A s \in shown' : ShownKept(s)
    BY <1>1, <1>8 DEF UpdateActiveVidPnPresentPath
  <1>9. CASE UNCHANGED pathsVars
    BY <1>1, <1>9 DEF pathsVars, modes, windows
  <1> QED
    BY <1>3, <1>4, <1>5, <1>6, <1>7, <1>8, <1>9, VisibilityKeeps DEF NextPaths, CommitSteps

\* A source that Windows has shown goes on being presented until Windows hides
\* or commits it; only hiding a source without a path may reach its target.
THEOREM ShownStaysPresented == SpecPaths => ShownIsPresented
  BY ShownStep, PathsInvHolds, PTL DEF SpecPaths, ShownIsPresented
=============================================================================
