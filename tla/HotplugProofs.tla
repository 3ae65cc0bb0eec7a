---------------------------- MODULE HotplugProofs ----------------------------
(***************************************************************************)
(* Proofs about Hotplug, for any number of children and threads.  The type *)
(* invariant and PendingHasDpc hold on every machine; that Windows' view   *)
(* settles, and the refinement of ConnectionView's safety part, hold on a  *)
(* uniprocessor for callbacks that come after DriverStarted is set.        *)
(***************************************************************************)
EXTENDS Hotplug, TLAPS

\* Replacing one entry of a function keeps its type, ...
LEMMA ExceptType ==
  ASSUME NEW S, NEW T, NEW f \in [S -> T], NEW s, NEW v \in T
  PROVE  [f EXCEPT ![s] = v] \in [S -> T]
  OBVIOUS

\* ... and so does moving a thread or the DPC.
LEMMA ThreadType ==
  ASSUME thread \in [Threads -> ThreadStates], NEW t \in Threads
  PROVE  /\ [thread EXCEPT ![t] = IdleThread] \in [Threads -> ThreadStates]
         /\ [thread EXCEPT ![t].at = "post"] \in [Threads -> ThreadStates]
         /\ \A c \in Children, l \in BOOLEAN :
               [thread EXCEPT ![t] = [at |-> "flag", child |-> c, locked |-> l]]
                  \in [Threads -> ThreadStates]
  BY HotplugAssumption DEF ThreadStates, IdleThread, Children

LEMMA NextChildMoves ==
  ASSUME dpc \in DpcStates, NextChild
  PROVE  /\ dpc' \in DpcStates
         /\ \/ dpc'.at = "idle" /\ dpc.child = N
            \/ dpc'.at = "test" /\ dpc'.child = dpc.child + 1
  <1> USE HotplugAssumption DEF DpcStates, Children
  <1>1. CASE dpc.child = N
    BY <1>1 DEF NextChild, IdleDpc
  <1>2. CASE dpc.child # N
    <2>1. dpc' = [dpc EXCEPT !.at = "test", !.child = dpc.child + 1]
      BY <1>2 DEF NextChild
    <2>2. dpc.child + 1 \in Children
      BY <1>2
    <2> QED
      BY <1>2, <2>1, <2>2
  <1> QED
    BY <1>1, <1>2

LEMMA DpcType ==
  ASSUME dpc \in DpcStates
  PROVE  /\ [dpc EXCEPT !.at = "test", !.child = 1] \in DpcStates
         /\ [dpc EXCEPT !.at = "reset"] \in DpcStates
         /\ \A b \in BOOLEAN : [dpc EXCEPT !.at = "indicate", !.state = b] \in DpcStates
         /\ NextChild => dpc' \in DpcStates
         /\ dpc.child \in Children
  <1>1. NextChild => dpc' \in DpcStates
    BY NextChildMoves
  <1>2. 1 \in Children /\ dpc.child \in Children
    BY HotplugAssumption DEF DpcStates, Children
  <1>3. [dpc EXCEPT !.at = "test", !.child = 1] \in DpcStates
    BY <1>2 DEF DpcStates
  <1>4. [dpc EXCEPT !.at = "reset"] \in DpcStates
    BY DEF DpcStates
  <1>5. \A b \in BOOLEAN : [dpc EXCEPT !.at = "indicate", !.state = b] \in DpcStates
    BY DEF DpcStates
  <1> QED
    BY <1>1, <1>2, <1>3, <1>4, <1>5

\* What the functions that change a child's state assign, and that one which
\* holds the child's mutex meanwhile has found it free.
LEMMA ReportIsSet ==
  ASSUME NEW t \in Threads, NEW c \in Children, Report(t, c)
  PROVE  \E b \in BOOLEAN, l \in BOOLEAN : SetConnected(t, c, b, l) /\ (l => FbMutexFree(c))
  BY DEF Report, UpdateConnectionStatus, ResetGuestMode, Destroy, HelperDisconnect

\* What is heard of a child after a change or a report.
LEMMA HeardType ==
  ASSUME heard \in [Children -> Reports], NEW c \in Children
  PROVE  /\ HeardAfterChange(c) \in [Children -> Reports]
         /\ [heard EXCEPT ![c] = "told"] \in [Children -> Reports]
         /\ [heard EXCEPT ![c] = "missed"] \in [Children -> Reports]
         /\ \A d \in Children \ {c} : HeardAfterChange(c)[d] = heard[d]
  BY DEF HeardAfterChange, Reports

\* Two threads hold a mutex after a step only if they did before, or one of
\* them has just taken it, when it was free.
LEMMA HolderStep ==
  ASSUME TypeOK, [Next]_vars
  PROVE  OneHolder'
  <1> USE DEF TypeOK, OneHolder
  <1>1. ASSUME UNCHANGED thread PROVE OneHolder'
    BY <1>1
  <1>2. ASSUME NEW t \in Threads, NEW c \in Children, Report(t, c) PROVE OneHolder'
    <2>1. PICK b \in BOOLEAN, l \in BOOLEAN : SetConnected(t, c, b, l) /\ (l => FbMutexFree(c))
      BY <1>2, ReportIsSet
    <2>2. thread' = [thread EXCEPT ![t] = [at |-> "flag", child |-> c, locked |-> l]]
      BY <2>1 DEF SetConnected
    <2>3. thread'[t].locked = l /\ thread'[t].child = c
      BY <2>2
    <2>4. \A u \in Threads \ {t} : thread'[u] = thread[u]
      BY <2>2
    <2>5. l => \A u \in Threads \ {t} : ~(thread[u].locked /\ thread[u].child = c)
      BY <2>1 DEF FbMutexFree
    <2> QED
      BY <2>3, <2>4, <2>5
  <1>3. ASSUME NEW t \in Threads, SetDpc(t) \/ QueueDpc(t) PROVE OneHolder'
    <2>1. \/ thread' = [thread EXCEPT ![t].at = "post"]
          \/ thread' = [thread EXCEPT ![t] = IdleThread]
      BY <1>3 DEF SetDpc, QueueDpc
    <2>2. \A u \in Threads : thread'[u].locked =>
             thread[u].locked /\ thread'[u].child = thread[u].child
      BY <2>1 DEF ThreadStates, IdleThread
    <2> QED
      BY <2>2
  <1>4. CASE UpdateConnectionDPC
    BY <1>1, <1>4
    DEF UpdateConnectionDPC, DpcStart, DpcTest, DpcIndicate, DpcIndicateFails, DpcReset
  <1>5. ASSUME FinishStart \/ \E c \in Children : QueryChildStatus(c) PROVE OneHolder'
    BY <1>1, <1>5 DEF FinishStart, QueryChildStatus
  <1>6. CASE UNCHANGED vars
    BY <1>1, <1>6 DEF vars
  <1> QED
    BY <1>2, <1>3, <1>4, <1>5, <1>6 DEF Next

\* Every step preserves the type of the state.
LEMMA TypeStep == TypeOK /\ [Next]_vars => TypeOK'
  <1> USE DEF TypeOK
  <1> SUFFICES ASSUME TypeOK, [Next]_vars PROVE TypeOK'
    OBVIOUS
  <1>h. OneHolder'
    BY HolderStep
  <1>1. CASE FinishStart
    BY <1>h, <1>1 DEF FinishStart, told
  <1>2. ASSUME NEW t \in Threads, NEW c \in Children, Report(t, c) PROVE TypeOK'
    <2>1. PICK b \in BOOLEAN, l \in BOOLEAN : SetConnected(t, c, b, l)
      BY <1>2, ReportIsSet
    <2>2. connected' \in [Children -> BOOLEAN]
      BY <2>1, ExceptType DEF SetConnected
    <2>3. thread' \in [Threads -> ThreadStates]
      BY <2>1, ThreadType DEF SetConnected
    <2>4. heard' \in [Children -> Reports]
      BY <2>1, HeardType DEF SetConnected
    <2> QED
      BY <1>h, <2>1, <2>2, <2>3, <2>4 DEF SetConnected
  <1>3. ASSUME NEW t \in Threads, SetDpc(t) PROVE TypeOK'
    <2>1. pending' \in [Children -> BOOLEAN]
      BY <1>3, ExceptType DEF SetDpc
    <2>2. thread' \in [Threads -> ThreadStates]
      BY <1>3, ThreadType DEF SetDpc
    <2> QED
      BY <1>h, <1>3, <2>1, <2>2 DEF SetDpc, told
  <1>4. ASSUME NEW t \in Threads, QueueDpc(t) PROVE TypeOK'
    <2>1. thread' \in [Threads -> ThreadStates]
      BY <1>4, ThreadType DEF QueueDpc
    <2> QED
      BY <1>h, <1>4, <2>1 DEF QueueDpc, flags, told
  <1>5. CASE DpcStart
    <2>1. dpc' \in DpcStates
      BY <1>5, DpcType DEF DpcStart
    <2> QED
      BY <1>h, <1>5, <2>1 DEF DpcStart, flags, told
  <1>6. CASE DpcTest
    <2>1. connected[dpc.child] \in BOOLEAN
      BY DpcType
    <2>2. dpc' \in DpcStates
      BY <1>6, <2>1, DpcType DEF DpcTest
    <2>3. active' \in [Children -> BOOLEAN]
      BY <1>6, <2>1, ExceptType DEF DpcTest
    <2> QED
      BY <1>h, <1>6, <2>2, <2>3 DEF DpcTest, told
  <1>7. CASE DpcIndicate
    <2>1. dpc' \in DpcStates
      BY <1>7, DpcType DEF DpcIndicate
    <2>2. dpc.state \in BOOLEAN
      BY DEF DpcStates
    <2>3. osView' \in [Children -> BOOLEAN]
      BY <1>7, <2>2, ExceptType DEF DpcIndicate
    <2>4. heard' \in [Children -> Reports]
      BY <1>7, HeardType, DpcType DEF DpcIndicate
    <2> QED
      BY <1>h, <1>7, <2>1, <2>3, <2>4 DEF DpcIndicate, flags
  <1>f. CASE DpcIndicateFails
    <2>1. dpc' \in DpcStates
      BY <1>f, DpcType DEF DpcIndicateFails
    <2>2. heard' \in [Children -> Reports]
      BY <1>f, HeardType, DpcType DEF DpcIndicateFails
    <2> QED
      BY <1>h, <1>f, <2>1, <2>2 DEF DpcIndicateFails, flags
  <1>8. CASE DpcReset
    <2>1. dpc' \in DpcStates
      BY <1>8, DpcType DEF DpcReset
    <2>2. pending' \in [Children -> BOOLEAN]
      BY <1>8, ExceptType DEF DpcReset
    <2> QED
      BY <1>h, <1>8, <2>1, <2>2 DEF DpcReset, told
  <1>9. ASSUME NEW c \in Children, QueryChildStatus(c) PROVE TypeOK'
    <2>1. osView' \in [Children -> BOOLEAN]
      BY <1>9, ExceptType DEF QueryChildStatus
    <2>2. heard' \in [Children -> Reports]
      BY <1>9, HeardType DEF QueryChildStatus
    <2> QED
      BY <1>h, <1>9, <2>1, <2>2 DEF QueryChildStatus, flags
  <1>10. CASE UNCHANGED vars
    BY <1>h, <1>10 DEF vars, flags, told
  <1> HIDE DEF TypeOK
  <1> QED
    BY <1>1, <1>2, <1>3, <1>4, <1>5, <1>6, <1>7, <1>f, <1>8, <1>9, <1>10
    DEF Next, UpdateConnectionDPC

\* The initial state has the right type.
LEMMA InitType == Init => TypeOK
  <1> SUFFICES ASSUME Init PROVE TypeOK
    OBVIOUS
  <1>1. dpc \in DpcStates /\ thread \in [Threads -> ThreadStates]
    BY HotplugAssumption DEF Init, Children, DpcStates, ThreadStates, IdleDpc, IdleThread
  <1>2. started \in BOOLEAN
    BY HotplugAssumption DEF Init
  <1>3. heard \in [Children -> Reports] /\ OneHolder
    BY DEF Init, Reports, OneHolder, IdleThread
  <1> QED
    BY <1>1, <1>2, <1>3 DEF Init, TypeOK

\* The type of every variable is kept on any machine, with any callbacks.
THEOREM TypeCorrect == Spec => []TypeOK
  BY InitType, TypeStep, PTL DEF Spec

-----------------------------------------------------------------------------
\* A step of the DPC other than its start brings it nearer to a child that is
\* still pending after the step.
LEMMA DpcNearer ==
  ASSUME TypeOK, NEW d \in Children, pending'[d], DpcComesTo(d),
         DpcTest \/ DpcIndicate \/ DpcIndicateFails \/ DpcReset
  PROVE  DpcComesTo(d)'
  <1> USE DEF DpcComesTo
  <1>1. dpc \in DpcStates /\ dpc.child \in Children /\ dpc.child <= d
    BY DpcType DEF TypeOK
  <1>2. ASSUME NextChild, dpc.child # d PROVE DpcComesTo(d)'
    <2>1. N \in Nat /\ d \in 1 .. N /\ dpc.child \in 1 .. N
      BY <1>1, HotplugAssumption DEF Children
    <2>2. dpc.child + 1 <= d /\ dpc.child # N
      BY <1>1, <1>2, <2>1
    <2>3. dpc'.at = "test" /\ dpc'.child = dpc.child + 1
      BY <1>1, <1>2, <2>2, NextChildMoves
    <2> QED
      BY <2>2, <2>3
  <1>3. ASSUME dpc'.at # "idle", dpc'.child = dpc.child PROVE DpcComesTo(d)'
    BY <1>1, <1>3
  <1>4. CASE DpcTest
    <2>1. CASE pending[dpc.child]
      <3>1. dpc' = [dpc EXCEPT !.at = "indicate", !.state = connected[dpc.child]]
        BY <1>4, <2>1 DEF DpcTest
      <3> QED
        BY <1>1, <1>3, <3>1 DEF DpcStates
    <2>2. CASE ~pending[dpc.child]
      <3>1. NextChild /\ pending' = pending
        BY <1>4, <2>2 DEF DpcTest
      <3> QED
        BY <1>2, <2>2, <3>1
    <2> QED
      BY <2>1, <2>2
  <1>5. CASE DpcIndicate \/ DpcIndicateFails
    <2>1. dpc' = [dpc EXCEPT !.at = "reset"]
      BY <1>5 DEF DpcIndicate, DpcIndicateFails
    <2> QED
      BY <1>1, <1>3, <2>1 DEF DpcStates
  <1>6. CASE DpcReset
    <2>1. NextChild
      BY <1>6 DEF DpcReset
    <2>2. dpc.child # d
      BY <1>1, <1>6 DEF DpcReset, TypeOK
    <2> QED
      BY <1>2, <2>1, <2>2
  <1> QED
    BY <1>4, <1>5, <1>6

\* Every step leaves a pending child its DPC.
LEMMA PendingStep == TypeOK /\ PendingHasDpc /\ [Next]_vars => PendingHasDpc'
  <1> SUFFICES ASSUME TypeOK, PendingHasDpc, [Next]_vars,
                      NEW d \in Children, pending'[d]
               PROVE  queued' \/ Posting(d)' \/ DpcComesTo(d)'
    BY DEF PendingHasDpc
  <1>1. pending[d] => queued \/ Posting(d) \/ DpcComesTo(d)
    BY DEF PendingHasDpc
  <1>2. ASSUME UNCHANGED <<pending, queued, dpc, thread>>
        PROVE  queued' \/ Posting(d)' \/ DpcComesTo(d)'
    BY <1>1, <1>2 DEF Posting, DpcComesTo
  <1>3. ASSUME NEW t \in Threads, NEW c \in Children, Report(t, c)
        PROVE  queued' \/ Posting(d)' \/ DpcComesTo(d)'
    <2>1. PICK b \in BOOLEAN, l \in BOOLEAN : SetConnected(t, c, b, l)
      BY <1>3, ReportIsSet
    <2>2. Posting(d) => Posting(d)'
      BY <2>1 DEF SetConnected, Posting, TypeOK
    <2> QED
      BY <1>1, <2>1, <2>2 DEF SetConnected, DpcComesTo
  <1>4. ASSUME NEW t \in Threads, SetDpc(t)
        PROVE  queued' \/ Posting(d)' \/ DpcComesTo(d)'
    <2>1. Posting(d) => Posting(d)'
      BY <1>4 DEF SetDpc, Posting, TypeOK
    <2>2. pending[d] \/ Posting(d)'
      BY <1>4 DEF SetDpc, Posting, TypeOK, ThreadStates
    <2> QED
      BY <1>1, <1>4, <2>1, <2>2 DEF SetDpc, DpcComesTo
  <1>5. ASSUME NEW t \in Threads, QueueDpc(t)
        PROVE  queued' \/ Posting(d)' \/ DpcComesTo(d)'
    BY <1>5 DEF QueueDpc
  <1>6. CASE DpcStart
    <2>1. dpc'.at = "test" /\ dpc'.child = 1
      BY <1>6 DEF DpcStart, TypeOK, DpcStates
    <2> QED
      BY <2>1 DEF DpcComesTo, Children
  <1>7. CASE DpcTest \/ DpcIndicate \/ DpcIndicateFails \/ DpcReset
    <2>1. pending[d] /\ UNCHANGED <<queued, thread>>
      BY <1>7 DEF DpcTest, DpcIndicate, DpcIndicateFails, DpcReset, flags, told, TypeOK
    <2>2. DpcComesTo(d) => DpcComesTo(d)'
      BY <1>7, DpcNearer
    <2>3. Posting(d) => Posting(d)'
      BY <2>1 DEF Posting
    <2> QED
      BY <1>1, <2>1, <2>2, <2>3
  <1>8. ASSUME NEW c \in Children, QueryChildStatus(c)
        PROVE  queued' \/ Posting(d)' \/ DpcComesTo(d)'
    BY <1>2, <1>8 DEF QueryChildStatus, flags, told
  <1>9. CASE FinishStart \/ UNCHANGED vars
    BY <1>2, <1>9 DEF FinishStart, vars, flags, told
  <1> QED
    BY <1>3, <1>4, <1>5, <1>6, <1>7, <1>8, <1>9 DEF Next, UpdateConnectionDPC

\* No pending flag is ever stranded without a DPC on its way to it.
THEOREM NeverStranded == Spec => []PendingHasDpc
  <1>1. Init => PendingHasDpc
    BY DEF Init, PendingHasDpc
  <1> QED
    BY <1>1, PendingStep, TypeCorrect, PTL DEF Spec

-----------------------------------------------------------------------------
(***************************************************************************)
(* On a uniprocessor no thread runs while the DPC is between reading a     *)
(* child's state and clearing its flag, so what it read is still true.     *)
(***************************************************************************)
OneProcessor == ~MultiProcessor /\ ~EarlyPlug

DpcReadsTruth ==
    /\ dpc.at \in {"indicate", "reset"} =>
          /\ pending[dpc.child]
          /\ dpc.state = connected[dpc.child]
          /\ active[dpc.child] = connected[dpc.child]
    /\ dpc.at = "reset" => osView[dpc.child] = connected[dpc.child] \/ heard[dpc.child] = "missed"

\* Windows sees a child only while FrameBufferIsActive, but for the moment
\* between the DPC's clearing that flag and telling Windows, and after a
\* report that Windows has missed.
SeenIsActive ==
    \A c \in Children :
        osView[c] /\ heard[c] = "told" => active[c] \/ (dpc.at = "indicate" /\ dpc.child = c)

\* Before StartDevice ends nothing has been plugged in and nobody reports.
StartedFirst ==
    ~started => (\A c \in Children : ~connected[c]) /\ (\A t \in Threads : thread[t].at = "idle")

UpInv ==
    /\ TypeOK
    /\ StartedFirst
    /\ Settled
    /\ DpcReadsTruth
    /\ SeenIsActive

\* What SettledChild says of a child whose state nobody is about to report.
SettledView(d) == active[d] = connected[d] /\ (osView[d] = connected[d] \/ heard[d] = "missed")

\* Every step keeps the settled children settled.
LEMMA SettledStep ==
  ASSUME OneProcessor, UpInv, [Next]_vars
  PROVE  Settled'
  <1> SUFFICES ASSUME NEW d \in Children, ~pending'[d], ~Flagging(d)'
               PROVE  SettledView(d)'
    BY DEF Settled, SettledChild, SettledView
  <1> USE DEF UpInv
  <1>1. ~pending[d] /\ ~Flagging(d) => SettledView(d)
    BY DEF Settled, SettledChild, SettledView
  <1>2. ASSUME UNCHANGED <<connected, active, told>>, ~pending[d], ~Flagging(d)
        PROVE  SettledView(d)'
    BY <1>1, <1>2 DEF SettledView, told
  <1>3. ASSUME NEW t \in Threads, NEW c \in Children, Report(t, c)
        PROVE  SettledView(d)'
    <2>1. PICK b \in BOOLEAN, l \in BOOLEAN : SetConnected(t, c, b, l)
      BY <1>3, ReportIsSet
    <2>2. d # c /\ (Flagging(d) => Flagging(d)')
      BY <2>1 DEF SetConnected, Flagging, TypeOK
    <2>3. connected'[d] = connected[d] /\ heard'[d] = heard[d]
      BY <2>1, <2>2, HeardType DEF SetConnected, TypeOK
    <2> QED
      BY <1>1, <2>1, <2>2, <2>3 DEF SetConnected, SettledView
  <1>4. ASSUME NEW t \in Threads, SetDpc(t)
        PROVE  SettledView(d)'
    <2>1. thread[t].child # d /\ pending'[d] = pending[d]
      <3>1. started
        BY <1>4 DEF SetDpc, StartedFirst
      <3> QED
        BY <1>4, <3>1 DEF SetDpc, TypeOK
    <2>2. Flagging(d) => Flagging(d)'
      BY <1>4, <2>1 DEF SetDpc, Flagging, TypeOK
    <2> QED
      BY <1>2, <1>4, <2>1, <2>2 DEF SetDpc
  <1>5. ASSUME NEW t \in Threads, QueueDpc(t)
        PROVE  SettledView(d)'
    <2>1. Flagging(d) => Flagging(d)'
      BY <1>5 DEF QueueDpc, Flagging, TypeOK
    <2> QED
      BY <1>2, <1>5, <2>1 DEF QueueDpc, flags, told
  <1>6. CASE DpcTest
    <2>1. ~pending[d] /\ ~Flagging(d)
      BY <1>6 DEF DpcTest, Flagging
    <2>2. active'[d] = active[d]
      BY <1>6, <2>1 DEF DpcTest, TypeOK
    <2> QED
      BY <1>1, <1>6, <2>1, <2>2 DEF DpcTest, SettledView, told
  <1>7. CASE DpcIndicate \/ DpcIndicateFails
    <2>1. ~pending[d] /\ ~Flagging(d) /\ dpc.child # d
      BY <1>7 DEF DpcIndicate, DpcIndicateFails, Flagging, flags, DpcReadsTruth
    <2>2. osView'[d] = osView[d] /\ heard'[d] = heard[d]
      BY <1>7, <2>1 DEF DpcIndicate, DpcIndicateFails, TypeOK
    <2>3. UNCHANGED <<connected, active>>
      BY <1>7 DEF DpcIndicate, DpcIndicateFails, flags
    <2> QED
      BY <1>1, <2>1, <2>2, <2>3 DEF SettledView
  <1>8. CASE DpcReset
    <2>1. ~Flagging(d)
      BY <1>8 DEF DpcReset, Flagging
    <2>2. CASE d = dpc.child
      BY <1>8, <2>2 DEF DpcReset, DpcReadsTruth, SettledView, told
    <2>3. CASE d # dpc.child
      <3>1. ~pending[d]
        BY <1>8, <2>3 DEF DpcReset, TypeOK
      <3> QED
        BY <1>2, <1>8, <2>1, <3>1 DEF DpcReset
    <2> QED
      BY <2>2, <2>3
  <1>9. ASSUME NEW c \in Children, QueryChildStatus(c)
        PROVE  SettledView(d)'
    <2>1. ~pending[d] /\ ~Flagging(d)
      BY <1>9 DEF QueryChildStatus, flags, told, Flagging
    <2>2. UNCHANGED <<connected, active>>
      BY <1>9 DEF QueryChildStatus, flags, told
    <2>3. CASE d = c
      <3>1. osView'[d] = connected[d]
        <4>1. osView'[d] = (started /\ active[d] /\ connected[d])
          BY <1>9, <2>3 DEF QueryChildStatus, TypeOK
        <4>2. connected[d] \in BOOLEAN
          BY DEF TypeOK
        <4>3. ~started => ~connected[d]
          BY DEF StartedFirst
        <4> QED
          BY <1>1, <2>1, <4>1, <4>2, <4>3 DEF SettledView
      <3> QED
        BY <1>1, <2>1, <2>2, <3>1 DEF SettledView
    <2>4. CASE d # c
      <3>1. osView'[d] = osView[d] /\ heard'[d] = heard[d]
        BY <1>9, <2>4 DEF QueryChildStatus, TypeOK
      <3> QED
        BY <1>1, <2>1, <2>2, <3>1 DEF SettledView
    <2> QED
      BY <2>3, <2>4
  <1>10. CASE DpcStart \/ FinishStart \/ UNCHANGED vars
    <2>1. UNCHANGED <<connected, pending, active, told, thread>>
      BY <1>10 DEF DpcStart, FinishStart, flags, told, vars
    <2>2. ~pending[d] /\ ~Flagging(d)
      BY <2>1 DEF Flagging
    <2> QED
      BY <1>2, <2>1, <2>2
  <1> QED
    BY <1>3, <1>4, <1>5, <1>6, <1>7, <1>8, <1>9, <1>10 DEF Next, UpdateConnectionDPC

\* Every step of the DPC relies on and keeps what it read.
LEMMA TruthStep ==
  ASSUME OneProcessor, UpInv, [Next]_vars
  PROVE  DpcReadsTruth'
  <1> USE DEF UpInv
  <1>1. ASSUME ThreadsRun, dpc' = dpc PROVE DpcReadsTruth'
    BY <1>1 DEF ThreadsRun, OneProcessor, DpcReadsTruth
  <1>2. CASE DpcTest
    <2>1. CASE pending[dpc.child]
      <3>1. dpc' = [dpc EXCEPT !.at = "indicate", !.state = connected[dpc.child]]
        BY <1>2, <2>1 DEF DpcTest
      <3>2. dpc'.at = "indicate" /\ dpc'.child = dpc.child /\ dpc'.state = connected[dpc.child]
        BY <3>1 DEF TypeOK, DpcStates
      <3>3. dpc.child \in Children
        BY DEF TypeOK, DpcStates
      <3>4. active'[dpc.child] = connected[dpc.child]
        BY <1>2, <2>1, <3>3 DEF DpcTest, TypeOK
      <3> QED
        BY <1>2, <2>1, <3>2, <3>4 DEF DpcTest, DpcReadsTruth
    <2>2. CASE ~pending[dpc.child]
      <3>1. dpc'.at \in {"idle", "test"}
        BY <1>2, <2>2, NextChildMoves DEF DpcTest, TypeOK
      <3> QED
        BY <3>1 DEF DpcReadsTruth
    <2> QED
      BY <2>1, <2>2
  <1>3. CASE DpcIndicate
    <2>1. dpc'.at = "reset" /\ dpc'.child = dpc.child /\ dpc'.state = dpc.state
      BY <1>3 DEF DpcIndicate, TypeOK, DpcStates
    <2>2. dpc.child \in Children
      BY DEF TypeOK, DpcStates
    <2>3. osView'[dpc.child] = dpc.state
      BY <1>3, <2>2 DEF DpcIndicate, TypeOK
    <2> QED
      BY <1>3, <2>1, <2>3 DEF DpcIndicate, flags, told, DpcReadsTruth
  <1>f. CASE DpcIndicateFails
    <2>1. dpc'.at = "reset" /\ dpc'.child = dpc.child /\ dpc'.state = dpc.state
      BY <1>f DEF DpcIndicateFails, TypeOK, DpcStates
    <2>2. dpc.child \in Children
      BY DEF TypeOK, DpcStates
    <2>3. heard'[dpc.child] = "missed"
      BY <1>f, <2>2 DEF DpcIndicateFails, TypeOK
    <2> QED
      BY <1>f, <2>1, <2>3 DEF DpcIndicateFails, flags, DpcReadsTruth
  <1>4. CASE DpcReset
    <2>1. dpc'.at \in {"idle", "test"}
      BY <1>4, NextChildMoves DEF DpcReset, TypeOK
    <2> QED
      BY <2>1 DEF DpcReadsTruth
  <1>5. CASE DpcStart
    <2>1. dpc'.at = "test"
      BY <1>5 DEF DpcStart, TypeOK, DpcStates
    <2> QED
      BY <2>1 DEF DpcReadsTruth
  <1>6. ASSUME NEW t \in Threads, NEW c \in Children, Report(t, c) PROVE DpcReadsTruth'
    BY <1>1, <1>6, ReportIsSet DEF SetConnected
  <1>7. ASSUME NEW t \in Threads, SetDpc(t) \/ QueueDpc(t) PROVE DpcReadsTruth'
    BY <1>1, <1>7 DEF SetDpc, QueueDpc
  <1>8. ASSUME NEW c \in Children, QueryChildStatus(c) PROVE DpcReadsTruth'
    BY <1>1, <1>8 DEF QueryChildStatus
  <1>9. CASE FinishStart
    BY <1>1, <1>9 DEF FinishStart
  <1>10. CASE UNCHANGED vars
    BY <1>10 DEF vars, flags, told, DpcReadsTruth
  <1> QED
    BY <1>2, <1>3, <1>f, <1>4, <1>5, <1>6, <1>7, <1>8, <1>9, <1>10 DEF Next, UpdateConnectionDPC

\* Every step keeps what Windows sees within what is active.
LEMMA SeenStep ==
  ASSUME OneProcessor, UpInv, [Next]_vars
  PROVE  SeenIsActive'
  <1> SUFFICES ASSUME NEW d \in Children, osView'[d], heard'[d] = "told"
               PROVE  active'[d] \/ (dpc'.at = "indicate" /\ dpc'.child = d)
    BY DEF SeenIsActive
  <1> USE DEF UpInv
  <1>1. osView[d] /\ heard[d] = "told" => active[d] \/ (dpc.at = "indicate" /\ dpc.child = d)
    BY DEF SeenIsActive
  <1>2. ASSUME UNCHANGED <<told, active, dpc>>
        PROVE  active'[d] \/ (dpc'.at = "indicate" /\ dpc'.child = d)
    BY <1>1, <1>2 DEF told
  <1>3. CASE DpcTest
    <2>1. CASE dpc.child = d /\ pending[d]
      <3>1. dpc' = [dpc EXCEPT !.at = "indicate", !.state = connected[dpc.child]]
        BY <1>3, <2>1 DEF DpcTest
      <3> QED
        BY <2>1, <3>1 DEF TypeOK, DpcStates
    <2>2. CASE ~(dpc.child = d /\ pending[d])
      <3>1. active'[d] = active[d] /\ UNCHANGED told /\ dpc.at = "test"
        BY <1>3, <2>2 DEF DpcTest, TypeOK
      <3> QED
        BY <1>1, <3>1 DEF told
    <2> QED
      BY <2>1, <2>2
  <1>4. CASE DpcIndicate
    <2>1. active' = active /\ dpc.at = "indicate"
      BY <1>4 DEF DpcIndicate, flags, told
    <2>2. CASE dpc.child = d
      <3>1. osView'[d] = dpc.state
        BY <1>4, <2>2 DEF DpcIndicate, TypeOK
      <3>2. active[d] = dpc.state
        BY <2>1, <2>2 DEF DpcReadsTruth
      <3> QED
        BY <2>1, <3>1, <3>2
    <2>3. CASE dpc.child # d
      <3>1. osView'[d] = osView[d] /\ heard'[d] = heard[d]
        BY <1>4, <2>3 DEF DpcIndicate, TypeOK
      <3> QED
        BY <1>1, <2>1, <2>3, <3>1
    <2> QED
      BY <2>2, <2>3
  <1>f. CASE DpcIndicateFails
    <2>1. UNCHANGED <<active, osView>> /\ dpc.at = "indicate"
      BY <1>f DEF DpcIndicateFails, flags
    <2>2. dpc.child # d /\ heard'[d] = heard[d]
      BY <1>f DEF DpcIndicateFails, TypeOK
    <2> QED
      BY <1>1, <2>1, <2>2
  <1>5. CASE DpcReset \/ DpcStart
    BY <1>1, <1>5 DEF DpcReset, DpcStart, flags, told
  <1>6. ASSUME NEW c \in Children, QueryChildStatus(c)
        PROVE  active'[d] \/ (dpc'.at = "indicate" /\ dpc'.child = d)
    <2>1. active' = active /\ dpc' = dpc
      BY <1>6 DEF QueryChildStatus, flags, told
    <2>2. CASE c = d
      <3>1. osView'[d] = (started /\ active[d] /\ connected[d])
        BY <1>6, <2>2 DEF QueryChildStatus, TypeOK
      <3> QED
        BY <2>1, <3>1
    <2>3. CASE c # d
      <3>1. osView'[d] = osView[d] /\ heard'[d] = heard[d]
        BY <1>6, <2>3 DEF QueryChildStatus, TypeOK
      <3> QED
        BY <1>1, <2>1, <3>1
    <2> QED
      BY <2>2, <2>3
  <1>7. ASSUME NEW t \in Threads, NEW c \in Children, Report(t, c)
        PROVE  active'[d] \/ (dpc'.at = "indicate" /\ dpc'.child = d)
    <2>1. UNCHANGED <<osView, active, dpc>> /\ heard' = HeardAfterChange(c)
      BY <1>7, ReportIsSet DEF SetConnected
    <2>2. heard'[d] = heard[d]
      BY <2>1 DEF HeardAfterChange, TypeOK
    <2> QED
      BY <1>1, <2>1, <2>2
  <1>8. ASSUME NEW t \in Threads, SetDpc(t) \/ QueueDpc(t)
        PROVE  active'[d] \/ (dpc'.at = "indicate" /\ dpc'.child = d)
    BY <1>2, <1>8 DEF SetDpc, QueueDpc, flags, told
  <1>9. CASE FinishStart \/ UNCHANGED vars
    BY <1>2, <1>9 DEF FinishStart, vars, flags, told
  <1> QED
    BY <1>3, <1>4, <1>f, <1>5, <1>6, <1>7, <1>8, <1>9 DEF Next, UpdateConnectionDPC

\* Nothing is plugged in before StartDevice ends.
LEMMA StartedStep ==
  ASSUME OneProcessor, UpInv, [Next]_vars
  PROVE  StartedFirst'
  <1> SUFFICES ASSUME ~started'
               PROVE  (\A c \in Children : ~connected'[c]) /\ (\A t \in Threads : thread'[t].at = "idle")
    BY DEF StartedFirst
  <1>1. ASSUME UNCHANGED <<started, connected, thread>>
        PROVE  (\A c \in Children : ~connected'[c]) /\ (\A t \in Threads : thread'[t].at = "idle")
    BY <1>1 DEF UpInv, StartedFirst
  <1>2. ASSUME NEW t \in Threads, NEW c \in Children, Report(t, c) PROVE FALSE
    BY <1>2, ReportIsSet DEF SetConnected, OneProcessor
  <1>3. ASSUME NEW t \in Threads, SetDpc(t) \/ QueueDpc(t) PROVE FALSE
    BY <1>3 DEF SetDpc, QueueDpc, flags, told, UpInv, StartedFirst
  <1>4. CASE FinishStart
    BY <1>4 DEF FinishStart
  <1>5. CASE UpdateConnectionDPC
    BY <1>1, <1>5
    DEF UpdateConnectionDPC, DpcStart, DpcTest, DpcIndicate, DpcIndicateFails, DpcReset, flags
  <1>6. ASSUME NEW c \in Children, QueryChildStatus(c)
        PROVE  (\A d \in Children : ~connected'[d]) /\ (\A t \in Threads : thread'[t].at = "idle")
    BY <1>1, <1>6 DEF QueryChildStatus, flags, told
  <1>7. CASE UNCHANGED vars
    BY <1>1, <1>7 DEF vars, flags, told
  <1> QED
    BY <1>2, <1>3, <1>4, <1>5, <1>6, <1>7 DEF Next

\* The invariant of the uniprocessor is inductive.
LEMMA UpInvHolds == ASSUME OneProcessor PROVE Spec => []UpInv
  <1>1. Init => UpInv
    <2> SUFFICES ASSUME Init PROVE UpInv
      OBVIOUS
    <2>1. TypeOK
      BY InitType
    <2>2. StartedFirst /\ DpcReadsTruth
      BY DEF Init, StartedFirst, IdleThread, DpcReadsTruth, IdleDpc
    <2>3. Settled /\ SeenIsActive
      BY DEF Init, Settled, SettledChild, SeenIsActive
    <2> QED
      BY <2>1, <2>2, <2>3 DEF UpInv
  <1>2. UpInv /\ [Next]_vars => UpInv'
    <2> SUFFICES ASSUME UpInv, [Next]_vars PROVE UpInv'
      OBVIOUS
    <2>1. TypeOK'
      BY TypeStep DEF UpInv
    <2>2. StartedFirst'
      BY StartedStep
    <2> QED
      BY <2>1, <2>2, SettledStep, TruthStep, SeenStep DEF UpInv
  <1> QED
    BY <1>1, <1>2, PTL DEF Spec

\* On a uniprocessor Windows' view agrees with every child nobody is
\* reporting, unless dxgkrnl refused the last indication of it, and
\* FrameBufferIsActive always does; for any number of children and threads.
THEOREM SettledOnUniprocessor == ASSUME OneProcessor PROVE Spec => []Settled
  <1>1. UpInv => Settled
    BY DEF UpInv
  <1> QED
    BY <1>1, UpInvHolds, PTL

-----------------------------------------------------------------------------
\* Assigning to one child what it has already changes nothing.
LEMMA SameValue ==
  ASSUME NEW S, NEW f \in [S -> BOOLEAN], NEW s \in S
  PROVE  [f EXCEPT ![s] = f[s]] = f
  OBVIOUS

\* A step of Hotplug is a step of ConnectionView, or invisible to it.
LEMMA ViewStep ==
  ASSUME OneProcessor, UpInv, [Next]_vars
  PROVE  [View!Next]_View!view
  <1> USE DEF View!view
  <1>1. ASSUME UNCHANGED <<connected, told>> PROVE [View!Next]_View!view
    BY <1>1 DEF told
  <1>2. ASSUME NEW c \in Children, osView' = [osView EXCEPT ![c] = connected[c]],
               heard' = [heard EXCEPT ![c] = "told"], connected' = connected
        PROVE  [View!Next]_View!view
    BY <1>2 DEF View!Next, View!See
  <1>3. ASSUME NEW t \in Threads, NEW c \in Children, Report(t, c)
        PROVE  [View!Next]_View!view
    <2>1. PICK b \in BOOLEAN, l \in BOOLEAN : SetConnected(t, c, b, l)
      BY <1>3, ReportIsSet
    <2>2. View!Plug(c, b)
      BY <2>1 DEF SetConnected, View!Plug, HeardAfterChange
    <2> QED
      BY <2>2 DEF View!Next
  <1>4. CASE DpcIndicate
    <2>1. dpc.state = connected[dpc.child] /\ dpc.child \in Children
      BY <1>4 DEF UpInv, DpcReadsTruth, DpcIndicate, TypeOK, DpcStates
    <2> QED
      BY <1>2, <1>4, <2>1 DEF DpcIndicate, flags, told
  <1>f. CASE DpcIndicateFails
    <2>1. dpc.child \in Children
      BY DEF UpInv, TypeOK, DpcStates
    <2>2. View!Miss(dpc.child)
      BY <1>f DEF DpcIndicateFails, View!Miss, flags
    <2> QED
      BY <2>1, <2>2 DEF View!Next
  <1>5. ASSUME NEW c \in Children, QueryChildStatus(c) PROVE [View!Next]_View!view
    <2>1. /\ osView' = [osView EXCEPT ![c] = started /\ active[c] /\ connected[c]]
          /\ heard' = [heard EXCEPT ![c] = "told"]
          /\ connected' = connected
      BY <1>5 DEF QueryChildStatus, flags, told
    <2>2. /\ connected[c] \in BOOLEAN /\ active[c] \in BOOLEAN
          /\ osView \in [Children -> BOOLEAN]
          /\ osView[c] \in BOOLEAN
      BY DEF UpInv, TypeOK
    <2>3. CASE active[c]
      <3>1. (started /\ active[c] /\ connected[c]) = connected[c]
        BY <2>2, <2>3 DEF UpInv, StartedFirst
      <3> QED
        BY <1>2, <2>1, <3>1
    <2>4. CASE ~active[c]
      <3>1. dpc.at = "idle"
        BY <1>5 DEF QueryChildStatus, ThreadsRun, OneProcessor
      <3>2. (started /\ active[c] /\ connected[c]) = FALSE
        BY <2>2, <2>4
      <3>3. CASE heard[c] = "told"
        <4>1. ~osView[c]
          BY <2>4, <3>1, <3>3 DEF UpInv, SeenIsActive
        <4>2. (started /\ active[c] /\ connected[c]) = osView[c]
          BY <2>2, <3>2, <4>1
        <4>3. osView' = osView
          BY <2>1, <2>2, <4>2, SameValue
        <4>4. heard' = heard
          BY <2>1, <3>3 DEF UpInv, TypeOK
        <4> QED
          BY <1>1, <2>1, <4>3, <4>4 DEF told
      <3>4. CASE heard[c] # "told"
        <4>1. View!Lose(c)
          BY <2>1, <3>2, <3>4 DEF View!Lose
        <4> QED
          BY <4>1 DEF View!Next
      <3> QED
        BY <3>3, <3>4
    <2> QED
      BY <2>3, <2>4
  <1>6. ASSUME NEW t \in Threads, SetDpc(t) \/ QueueDpc(t) PROVE [View!Next]_View!view
    BY <1>1, <1>6 DEF SetDpc, QueueDpc, flags, told
  <1>7. CASE DpcStart \/ DpcTest \/ DpcReset \/ FinishStart \/ UNCHANGED vars
    BY <1>1, <1>7 DEF DpcStart, DpcTest, DpcReset, FinishStart, flags, told, vars
  <1> QED
    BY <1>3, <1>4, <1>f, <1>5, <1>6, <1>7 DEF Next, UpdateConnectionDPC

\* On a uniprocessor, flags, DPC and polling implement the safety part of
\* ConnectionView: Windows is told the state a child is in, or misses a report.
THEOREM ToldTheTruth == ASSUME OneProcessor PROVE Spec => View!Safety
  <1>1. Init => View!Init
    BY DEF Init, View!Init
  <1>2. OneProcessor /\ UpInv /\ [Next]_vars => [View!Next]_View!view
    BY ViewStep
  <1> QED
    BY <1>1, <1>2, UpInvHolds, PTL DEF Spec, View!Safety
=============================================================================
