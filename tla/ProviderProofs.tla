---------------------------- MODULE ProviderProofs ----------------------------
(***************************************************************************)
(* Proofs about Provider, with any number of callback and worker threads,  *)
(* for the time until the device is started for the second time; it may be *)
(* stopped at any moment.  A second start replaces m_dh_mutex under the    *)
(* threads that already wait on the first one, and most of what is below   *)
(* does not hold any more.                                                 *)
(***************************************************************************)
EXTENDS Provider, SequenceTheorems, TLAPS

USE DEF device, conn, work, threads, CleanUpTurn, QueueIf, ReleaseWith, Recreate,
        FirstStep

\* Nothing of the device is in use before StartDevice.
NothingBeforeStart ==
    starts = 0 => /\ pnp = "added"
                  /\ provider = "null"
                  /\ queue = <<>>
                  /\ \A t \in Threads : pc[t] = "idle"

\* Every thread that waits for m_dh_mutex or holds it means the same mutex.
OneMutex ==
    \A t \in Threads :
        pc[t] \in Critical \union {"request", "release", "recreate"} => mx[t] = 1

MutualExclusion ==
    \A t, u \in Threads : pc[t] \in Critical /\ pc[u] \in Critical => t = u

\* There is at most one request that no worker has acknowledged.
OneRequest ==
    /\ Len(queue) <= 1
    /\ queue # <<>> => \A w \in Workers : pc[w] # "release"
    /\ \A v, w \in Workers : pc[v] = "release" /\ pc[w] = "release" => v = w

\* What a thread inside QueueConnectionRequest knows.
Queueing ==
    \A t \in Threads :
        /\ pc[t] = "queue" => request = "not_pending" /\ ~Requested
        /\ pc[t] = "mark" => request = "not_pending" /\ Requested

\* CleanUp frees a work item that exists, once, after it was allocated.
ItemIsFresh ==
    /\ pnp = "cleanup" => ioWork # NoItem
    /\ pnp \in {"added", "init", "create", "alloc"} => freed = {}
    /\ ioWork \notin freed

IndInv ==
    /\ TypeOK
    /\ NothingBeforeStart
    /\ OneMutex
    /\ MutualExclusion
    /\ OneRequest
    /\ Queueing
    /\ ItemIsFresh
    /\ RequestTracksWork
    /\ CleanUpFencesWorkers

-----------------------------------------------------------------------------
\* The initial state satisfies the invariant.
LEMMA InitIndInv == Init => IndInv
<1> SUFFICES ASSUME Init PROVE IndInv
  OBVIOUS
<1>1. TypeOK
  <2>1. queue \in Seq(Items)
    BY EmptySeq DEF Init
  <2>2. started \in BOOLEAN /\ children \in BOOLEAN /\ leaked \in BOOLEAN
    BY DEF Init
  <2>3. pc \in [Threads -> ThreadPoints] /\ mx \in [Threads -> 0 .. MaxStarts]
    BY ProviderAssumption DEF Init, ThreadPoints
  <2>4. /\ pnp \in PnpPoints /\ provider \in {"null", "up", "broken", "dangling"}
        /\ request \in {"not_pending", "pending", "invalid"}
    BY DEF Init, PnpPoints
  <2>5. /\ starts \in 0 .. MaxStarts /\ stops \in 0 .. MaxStops
        /\ ioWork \in Items \union {NoItem} /\ freed \subseteq Items
    BY ProviderAssumption DEF Init
  <2> QED
    BY <2>1, <2>2, <2>3, <2>4, <2>5 DEF TypeOK
<1>2. NothingBeforeStart /\ OneMutex /\ MutualExclusion
  BY DEF Init, NothingBeforeStart, OneMutex, MutualExclusion, Critical
<1>3. OneRequest /\ Queueing
  BY DEF Init, OneRequest, Queueing, Threads
<1>4. ItemIsFresh /\ RequestTracksWork /\ CleanUpFencesWorkers
  BY DEF Init, ItemIsFresh, RequestTracksWork, CleanUpFencesWorkers, Requested,
         Threads
<1> QED
  BY <1>1, <1>2, <1>3, <1>4 DEF IndInv

\* Taking the only element out of a queue empties it.
LEMMA LastElement ==
    ASSUME queue \in Seq(Items), queue # <<>>, Len(queue) <= 1
    PROVE  Tail(queue) = <<>>
<1>1. Len(queue) \in Nat \ {0}
  BY EmptySeq
<1>2. Len(queue) = 1
  <2> DEFINE n == Len(queue)
  <2>1. n \in Nat \ {0} /\ n <= 1
    BY <1>1
  <2> HIDE DEF n
  <2>2. n = 1
    BY <2>1
  <2> QED
    BY <2>2 DEF n
<1>3. Tail(queue) \in Seq(Items) /\ Len(Tail(queue)) = 0
  BY <1>2, HeadTailProperties
<1> QED
  BY <1>3, EmptySeq

\* The mutex of the only start is free: nobody is inside a critical section.
LEMMA FreeMeansNobody ==
    ASSUME IndInv, MutexFree(1)
    PROVE  \A t \in Threads : pc[t] \notin Critical
BY DEF IndInv, OneMutex, MutexFree, HoldsMutex

\* A step of the PnP thread that leaves the request machinery alone.
LEMMA PnpStep ==
    ASSUME starts <= 1, starts' <= 1, IndInv,
           StartSteps \/ StopSteps,
           ~CleanUpWorkItem
    PROVE  IndInv'
<1> USE ProviderAssumption DEF IndInv, TypeOK
<1>1. TypeOK'
  <2>1. started' \in BOOLEAN /\ children' \in BOOLEAN /\ leaked' \in BOOLEAN
    BY DEF StartSteps, StopSteps, StartDevice, InitPVChildren, InitProvider,
       CreateProvider, AllocateWorkItem, FinishStart, StopDevice, CleanUpChildren,
       StopTest, StopDestroy, StopNull, FinishStop
  <2>2. /\ pnp' \in PnpPoints /\ provider' \in {"null", "up", "broken", "dangling"}
        /\ ioWork' \in Items \union {NoItem}
    BY DEF PnpPoints, NothingBeforeStart, Items, StartSteps, StopSteps, StartDevice,
       InitPVChildren, InitProvider, CreateProvider, AllocateWorkItem, FinishStart,
       StopDevice, CleanUpChildren, StopTest, StopDestroy, StopNull, FinishStop
  <2>3. starts' \in 0 .. MaxStarts /\ stops' \in 0 .. MaxStops
    BY DEF StartSteps, StopSteps, StartDevice, InitPVChildren, InitProvider,
       AllocateWorkItem, FinishStart, StopDevice, CleanUpChildren, StopTest,
       StopDestroy, StopNull, FinishStop
  <2>4. UNCHANGED <<freed, queue, request, pc, mx>>
    BY DEF StartSteps, StopSteps, StartDevice, InitPVChildren, InitProvider,
       AllocateWorkItem, FinishStart, StopDevice, CleanUpChildren, StopTest,
       StopDestroy, StopNull, FinishStop
  <2> QED
    BY <2>1, <2>2, <2>3, <2>4
<1>2. pc' = pc /\ mx' = mx /\ queue' = queue /\ request' = request /\ freed' = freed
  BY DEF StartSteps, StopSteps, StartDevice, InitPVChildren, InitProvider,
     AllocateWorkItem, FinishStart, StopDevice, CleanUpChildren, StopTest,
     StopDestroy, StopNull, FinishStop
<1>3. NothingBeforeStart'
  BY <1>2 DEF IndInv, TypeOK, NothingBeforeStart, StartSteps, StopSteps, StartDevice,
     InitPVChildren, InitProvider, CreateProvider, AllocateWorkItem, FinishStart,
     StopDevice, CleanUpChildren, StopTest, StopDestroy, StopNull, FinishStop
<1>4. OneMutex' /\ MutualExclusion' /\ OneRequest' /\ Requested' = Requested
  BY <1>2 DEF IndInv, OneMutex, MutualExclusion, OneRequest, Requested
<1>5. Queueing' /\ RequestTracksWork'
  BY <1>2, <1>4 DEF IndInv, Queueing, RequestTracksWork
<1>6. ItemIsFresh'
  BY <1>2, ProviderAssumption DEF IndInv, TypeOK, NothingBeforeStart, ItemIsFresh,
     StartSteps, StopSteps, StartDevice, InitPVChildren, InitProvider,
     AllocateWorkItem, FinishStart, StopDevice, CleanUpChildren, StopTest,
     StopDestroy, StopNull, FinishStop, Items, NoItem
<1>7. ioWork' = ioWork \/ ioWork' = 1
  BY ProviderAssumption DEF IndInv, TypeOK, NothingBeforeStart, StartSteps, StopSteps,
     StartDevice, InitPVChildren, InitProvider, AllocateWorkItem, FinishStart,
     StopDevice, CleanUpChildren, StopTest, StopDestroy, StopNull, FinishStop
<1>8. CleanUpFencesWorkers'
  BY <1>2, <1>6, <1>7 DEF IndInv, CleanUpFencesWorkers, ItemIsFresh, Items
<1> QED
  BY <1>1, <1>3, <1>4, <1>5, <1>6, <1>8 DEF IndInv

\* CleanUp's loop: the mutex is free, so no thread is between its test of the
\* request and what it does about it.
LEMMA CleanUpStep ==
    ASSUME starts <= 1, starts' <= 1, IndInv, CleanUpWorkItem
    PROVE  IndInv'
<1> USE ProviderAssumption DEF IndInv
<1>1. starts = 1
  BY DEF TypeOK, NothingBeforeStart, CleanUpWorkItem
<1>2. \A t \in Threads : pc[t] \notin Critical
  BY <1>1, FreeMeansNobody DEF CleanUpWorkItem
<1>3. ioWork' = 0 \/ ioWork' = ioWork
  BY DEF CleanUpWorkItem, NoItem
<1>4. UNCHANGED <<started, starts, stops, children, provider, leaked, queue, pc, mx>>
  BY DEF CleanUpWorkItem
<1>5. TypeOK'
  <2>1. freed' \subseteq Items
    <3>1. ioWork \in Items /\ freed \subseteq Items
      BY DEF CleanUpWorkItem, TypeOK, ItemIsFresh
    <3> QED
      BY <3>1 DEF CleanUpWorkItem
  <2>2. pnp' \in PnpPoints /\ request' \in {"not_pending", "pending", "invalid"}
    BY DEF CleanUpWorkItem, TypeOK, PnpPoints
  <2> QED
    BY <2>1, <2>2, <1>3, <1>4 DEF TypeOK, NoItem
<1>6. NothingBeforeStart' /\ OneMutex' /\ MutualExclusion' /\ OneRequest'
      /\ Requested' = Requested
  BY <1>1, <1>4 DEF NothingBeforeStart, OneMutex, MutualExclusion, OneRequest, Requested
<1>7. Queueing' /\ RequestTracksWork'
  BY <1>2, <1>4, <1>6 DEF Queueing, RequestTracksWork, CleanUpWorkItem, Critical
<1>8. ItemIsFresh' /\ CleanUpFencesWorkers'
  BY <1>2, <1>4 DEF CleanUpWorkItem, TypeOK, ItemIsFresh, CleanUpFencesWorkers,
     Critical, Items, NoItem
<1> QED
  BY <1>5, <1>6, <1>7, <1>8

-----------------------------------------------------------------------------
(***************************************************************************)
(* The steps of callbacks and workers.  None of them touches the PnP       *)
(* thread's variables, so the two conjuncts about those are preserved.     *)
(***************************************************************************)
PnpUnchanged == UNCHANGED <<pnp, started, starts, stops, children, ioWork, freed>>

\* A step that only moves t outside the request machinery's points.
LEMMA MoveStep ==
    ASSUME starts <= 1, starts' <= 1, IndInv, NEW t \in Threads,
           PnpUnchanged, UNCHANGED <<queue, request>>,
           provider' \in {"null", "up", "broken", "dangling"},
           leaked' \in BOOLEAN, starts = 1,
           NEW q \in ThreadPoints, NEW m \in 0 .. MaxStarts,
           pc' = [pc EXCEPT ![t] = q], mx' = [mx EXCEPT ![t] = m],
           pc[t] \notin {"release", "queue", "mark"},
           q \notin {"release", "queue", "mark"},
           q \in Critical => pc[t] \in Critical \/ (MutexFree(1) /\ request # "invalid"),
           q \in Critical \union {"request", "recreate"} => m = 1
    PROVE  IndInv'
<1> USE ProviderAssumption DEF IndInv, PnpUnchanged
<1>1. TypeOK'
  BY DEF TypeOK
<1>2. /\ pc[t] \in ThreadPoints /\ pc'[t] = q /\ mx'[t] = m
      /\ \A u \in Threads : u # t => pc'[u] = pc[u] /\ mx'[u] = mx[u]
  BY DEF TypeOK
<1>3. NothingBeforeStart' /\ OneMutex'
  BY <1>2 DEF NothingBeforeStart, OneMutex, Critical
<1>4. MutualExclusion'
  BY <1>2, FreeMeansNobody DEF MutualExclusion
<1>5. OneRequest' /\ Requested' = Requested
  BY <1>2 DEF OneRequest, Requested, Threads
<1>6. Queueing' /\ RequestTracksWork'
  BY <1>2, <1>5 DEF Queueing, RequestTracksWork
<1>7. ItemIsFresh' /\ CleanUpFencesWorkers'
  BY <1>2 DEF ItemIsFresh, CleanUpFencesWorkers
<1> QED
  BY <1>1, <1>3, <1>4, <1>5, <1>6, <1>7

\* The thread that finds no request outstanding is the only one to do so.
LEMMA TestRequestStep ==
    ASSUME starts <= 1, starts' <= 1, IndInv, NEW t \in Threads, TestRequest(t)
    PROVE  IndInv'
<1> USE ProviderAssumption DEF IndInv
<1>1. starts = 1 /\ mx[t] = 1 /\ MutexFree(1) /\ pc[t] = "request"
  BY DEF TestRequest, OneMutex, NothingBeforeStart, TypeOK
<1>2. CASE request = "not_pending" /\ ioWork # NoItem
  <2>1. /\ pc' = [pc EXCEPT ![t] = "queue"] /\ mx' = mx
        /\ PnpUnchanged /\ UNCHANGED <<queue, request, provider, leaked>>
    BY <1>2 DEF TestRequest, Goto, PnpUnchanged
  <2>2. \A u \in Threads : pc[u] \notin Critical
    BY <1>1, FreeMeansNobody
  <2>3. /\ pc'[t] = "queue"
        /\ \A u \in Threads : u # t => pc'[u] = pc[u]
    BY <2>1 DEF TypeOK
  <2>4. ~Requested /\ Requested' = Requested
    BY <1>1, <1>2, <2>1, <2>2, <2>3 DEF RequestTracksWork, Requested, Threads, Critical
  <2>5. TypeOK' /\ NothingBeforeStart' /\ OneMutex'
    BY <1>1, <2>1, <2>3 DEF TypeOK, NothingBeforeStart, OneMutex, PnpUnchanged,
       ThreadPoints, Critical
  <2>6. MutualExclusion' /\ OneRequest'
    BY <2>1, <2>2, <2>3 DEF MutualExclusion, OneRequest, Threads
  <2>7. Queueing' /\ RequestTracksWork'
    BY <1>2, <2>1, <2>2, <2>3, <2>4 DEF Queueing, RequestTracksWork, Critical
  <2>8. ItemIsFresh' /\ CleanUpFencesWorkers'
    BY <1>2, <2>1, <2>2, <2>3 DEF ItemIsFresh, CleanUpFencesWorkers, PnpUnchanged,
       TypeOK, Critical, Items, NoItem
  <2> QED
    BY <2>5, <2>6, <2>7, <2>8
<1>3. CASE ~(request = "not_pending" /\ ioWork # NoItem)
  <2>1. /\ pc' = [pc EXCEPT ![t] = "idle"] /\ mx' = [mx EXCEPT ![t] = 0]
        /\ PnpUnchanged /\ UNCHANGED <<queue, request, provider, leaked>>
    BY <1>3 DEF TestRequest, Leave, PnpUnchanged
  <2>2. /\ "idle" \in ThreadPoints /\ 0 \in 0 .. MaxStarts
        /\ "idle" \notin Critical \union {"request", "recreate"}
        /\ provider' \in {"null", "up", "broken", "dangling"} /\ leaked' \in BOOLEAN
    BY <2>1 DEF TypeOK, ThreadPoints, Critical
  <2> QED
    BY <1>1, <2>1, <2>2, MoveStep
<1> QED
  BY <1>2, <1>3

\* IoQueueWorkItem is called with an empty queue.
LEMMA QueueItemStep ==
    ASSUME starts <= 1, starts' <= 1, IndInv, NEW t \in Threads, QueueItem(t)
    PROVE  IndInv'
<1> USE ProviderAssumption DEF IndInv
<1>1. /\ pc[t] = "queue" /\ pc' = [pc EXCEPT ![t] = "mark"] /\ mx' = mx
      /\ PnpUnchanged /\ UNCHANGED <<request, provider, leaked>>
  BY DEF QueueItem, Goto, PnpUnchanged
<1>2. request = "not_pending" /\ queue = <<>> /\ \A w \in Workers : pc[w] # "release"
  BY <1>1 DEF Queueing, Requested
<1>3. queue' = <<ioWork>> /\ ioWork \in Items
  BY <1>1, <1>2 DEF QueueItem, CleanUpFencesWorkers
<1>4. queue' \in Seq(Items) /\ Len(queue') = 1 /\ queue' # <<>>
  BY <1>3
<1>5. /\ pc'[t] = "mark"
      /\ \A u \in Threads : u # t => pc'[u] = pc[u]
  BY <1>1 DEF TypeOK
<1>6. TypeOK' /\ NothingBeforeStart' /\ OneMutex'
  BY <1>1, <1>4, <1>5 DEF TypeOK, NothingBeforeStart, OneMutex, PnpUnchanged,
     ThreadPoints, Critical
<1>7. MutualExclusion' /\ OneRequest' /\ Requested'
  BY <1>1, <1>2, <1>4, <1>5 DEF MutualExclusion, OneRequest, Threads, Critical, Requested
<1>8. Queueing' /\ RequestTracksWork'
  BY <1>1, <1>2, <1>5, <1>7 DEF Queueing, RequestTracksWork, MutualExclusion, Critical
<1>9. ItemIsFresh' /\ CleanUpFencesWorkers'
  BY <1>1, <1>2, <1>5 DEF ItemIsFresh, CleanUpFencesWorkers, PnpUnchanged, Critical
<1> QED
  BY <1>6, <1>7, <1>8, <1>9

\* The request is recorded while it is still outstanding.
LEMMA MarkPendingStep ==
    ASSUME starts <= 1, starts' <= 1, IndInv, NEW t \in Threads, MarkPending(t)
    PROVE  IndInv'
<1> USE ProviderAssumption DEF IndInv
<1>1. /\ pc[t] = "mark" /\ pc' = [pc EXCEPT ![t] = "idle"] /\ mx' = [mx EXCEPT ![t] = 0]
      /\ PnpUnchanged /\ UNCHANGED <<queue, provider, leaked>> /\ request' = "pending"
  BY DEF MarkPending, Leave, PnpUnchanged
<1>2. /\ pc'[t] = "idle"
      /\ \A u \in Threads : u # t => pc'[u] = pc[u] /\ mx'[u] = mx[u]
  BY <1>1 DEF TypeOK
<1>3. Requested' /\ \A u \in Threads : pc'[u] \notin Critical
  BY <1>1, <1>2 DEF Queueing, Requested, Threads, MutualExclusion, Critical
<1>4. TypeOK' /\ NothingBeforeStart' /\ OneMutex'
  BY <1>1, <1>2 DEF TypeOK, NothingBeforeStart, OneMutex, PnpUnchanged, ThreadPoints,
     Critical
<1>5. MutualExclusion' /\ OneRequest'
  BY <1>1, <1>2, <1>3 DEF MutualExclusion, OneRequest, Threads
<1>6. Queueing' /\ RequestTracksWork'
  BY <1>1, <1>3 DEF Queueing, RequestTracksWork, Critical
<1>7. ItemIsFresh' /\ CleanUpFencesWorkers'
  BY <1>1, <1>3 DEF ItemIsFresh, CleanUpFencesWorkers, PnpUnchanged, Critical
<1> QED
  BY <1>4, <1>5, <1>6, <1>7

\* A worker takes the request over from the queue.
LEMMA RunWorkItemStep ==
    ASSUME starts <= 1, starts' <= 1, IndInv, NEW w \in Workers, RunWorkItem(w)
    PROVE  IndInv'
<1> USE ProviderAssumption DEF IndInv
<1> w \in Threads
  BY DEF Threads
<1>1. /\ pc[w] = "idle" /\ pc' = [pc EXCEPT ![w] = "release"]
      /\ mx' = [mx EXCEPT ![w] = starts] /\ queue # <<>> /\ queue' = Tail(queue)
      /\ PnpUnchanged /\ UNCHANGED <<request, provider, leaked>>
  BY DEF RunWorkItem, ReadMutex, PnpUnchanged
<1>2. queue' \in Seq(Items) /\ Len(queue') = 0 /\ queue' = <<>>
  <2>1. queue \in Seq(Items) /\ Len(queue) <= 1
    BY DEF TypeOK, OneRequest
  <2>2. Tail(queue) = <<>>
    BY <1>1, <2>1, LastElement
  <2> QED
    BY <1>1, <2>2, EmptySeq
<1>3. /\ starts = 1 /\ pc'[w] = "release" /\ mx'[w] = 1
      /\ \A u \in Threads : u # w => pc'[u] = pc[u] /\ mx'[u] = mx[u]
  BY <1>1 DEF TypeOK, NothingBeforeStart
<1>4. TypeOK' /\ NothingBeforeStart' /\ OneMutex'
  BY <1>1, <1>2, <1>3 DEF TypeOK, NothingBeforeStart, OneMutex, PnpUnchanged,
     ThreadPoints
<1>5. MutualExclusion' /\ OneRequest' /\ Requested /\ Requested'
  BY <1>1, <1>2, <1>3 DEF MutualExclusion, OneRequest, Threads, Critical, Requested
<1>6. Queueing' /\ RequestTracksWork'
  BY <1>1, <1>3, <1>5 DEF Queueing, RequestTracksWork
<1>7. ItemIsFresh' /\ CleanUpFencesWorkers'
  BY <1>1, <1>3 DEF ItemIsFresh, CleanUpFencesWorkers, PnpUnchanged, Critical
<1> QED
  BY <1>4, <1>5, <1>6, <1>7

\* The worker acknowledges the request; nobody is queueing one meanwhile.
LEMMA ReleaseStep ==
    ASSUME starts <= 1, starts' <= 1, IndInv, NEW w \in Workers, ReleaseRequestQueue(w)
    PROVE  IndInv'
<1> USE ProviderAssumption DEF IndInv
<1> w \in Threads
  BY DEF Threads
<1>1. /\ pc[w] = "release" /\ pc' = [pc EXCEPT ![w] = "recreate"]
      /\ mx' = [mx EXCEPT ![w] = starts] /\ mx[w] = 1 /\ MutexFree(1)
      /\ PnpUnchanged /\ UNCHANGED <<queue, provider, leaked>>
  BY DEF ReleaseRequestQueue, ReadMutex, PnpUnchanged, OneMutex
<1>2. request' = IF request = "invalid" THEN "invalid" ELSE "not_pending"
  BY DEF ReleaseRequestQueue
<1>3. /\ starts = 1 /\ pc'[w] = "recreate" /\ mx'[w] = 1
      /\ \A u \in Threads : u # w => pc'[u] = pc[u] /\ mx'[u] = mx[u]
  BY <1>1 DEF TypeOK, NothingBeforeStart
<1>4. \A u \in Threads : pc[u] \notin Critical /\ pc'[u] \notin Critical
  BY <1>1, <1>3, FreeMeansNobody DEF Critical
<1>5. TypeOK' /\ NothingBeforeStart' /\ OneMutex'
  BY <1>1, <1>2, <1>3 DEF TypeOK, NothingBeforeStart, OneMutex, PnpUnchanged,
     ThreadPoints
<1>6. MutualExclusion' /\ OneRequest' /\ ~Requested'
  BY <1>1, <1>3, <1>4 DEF MutualExclusion, OneRequest, Threads, Requested
<1>7. Queueing' /\ RequestTracksWork'
  BY <1>2, <1>4, <1>6 DEF Queueing, RequestTracksWork, Critical
<1>8. ItemIsFresh' /\ CleanUpFencesWorkers'
  BY <1>1, <1>4 DEF ItemIsFresh, CleanUpFencesWorkers, PnpUnchanged, Critical
<1> QED
  BY <1>5, <1>6, <1>7, <1>8

\* Everything a callback does before QueueConnectionRequest.
LEMMA CallbackStep ==
    ASSUME starts <= 1, starts' <= 1, IndInv, NEW c \in Callbacks, CallbackSteps(c)
    PROVE  IndInv'
<1> USE ProviderAssumption DEF IndInv
<1> c \in Threads
  BY DEF Threads
<1>1. CASE ProviderFails(c)
  <2>1. /\ starts = 1 /\ pc[c] = "idle" /\ PnpUnchanged
        /\ pc' = [pc EXCEPT ![c] = "error"] /\ mx' = [mx EXCEPT ![c] = mx[c]]
        /\ UNCHANGED <<queue, request, leaked>> /\ mx[c] \in 0 .. MaxStarts
        /\ provider' \in {"null", "up", "broken", "dangling"} /\ leaked' \in BOOLEAN
    BY <1>1 DEF ProviderFails, Goto, PnpUnchanged, TypeOK, NothingBeforeStart
  <2>2. "error" \in ThreadPoints /\ "error" \notin Critical
    BY DEF ThreadPoints, Critical
  <2> QED
    BY <2>1, <2>2, MoveStep
<1>2. CASE ProcessHandlerError(c)
  <2>1. starts = 1 /\ pc[c] = "error"
    BY <1>2 DEF ProcessHandlerError, TypeOK, NothingBeforeStart
  <2>2. /\ PnpUnchanged /\ UNCHANGED <<queue, request, leaked, provider>>
        /\ pc' = [pc EXCEPT ![c] = "request"] /\ mx' = [mx EXCEPT ![c] = 1]
    BY <1>2, <2>1 DEF ProcessHandlerError, ReadMutex, PnpUnchanged
  <2>3. /\ provider' \in {"null", "up", "broken", "dangling"}
        /\ leaked' \in BOOLEAN
    BY <2>2 DEF TypeOK
  <2>4. "request" \in ThreadPoints /\ "request" \notin Critical /\ 1 \in 0 .. MaxStarts
    BY DEF ThreadPoints, Critical
  <2> QED
    BY <2>1, <2>2, <2>3, <2>4, MoveStep
<1> QED
  BY <1>1, <1>2 DEF CallbackSteps

\* Everything a worker does after ReleaseRequestQueue.
LEMMA RecreateStep ==
    ASSUME starts <= 1, starts' <= 1, IndInv, NEW w \in Workers,
           \/ EnterRecreate(w) \/ WorkerDestroy(w) \/ WorkerNull(w)
           \/ WorkerConnects(w) \/ WorkerRegisters(w)
           \/ WorkerCannotConnect(w) \/ WakeUp(w)
    PROVE  IndInv'
<1> USE ProviderAssumption DEF IndInv
<1> w \in Threads
  BY DEF Threads
<1>0. starts = 1
  BY DEF EnterRecreate, WorkerDestroy, WorkerNull, WorkerConnects, WorkerRegisters,
     WorkerCannotConnect, WakeUp, NothingBeforeStart, TypeOK
<1>1. PnpUnchanged /\ UNCHANGED <<queue, request>>
  BY DEF PnpUnchanged, EnterRecreate, WorkerDestroy, WorkerNull, WorkerConnects,
     CreateProvider, WorkerRegisters, WorkerCannotConnect, WakeUp
<1>2. /\ provider' \in {"null", "up", "broken", "dangling"}
      /\ leaked' \in BOOLEAN
  BY DEF TypeOK, EnterRecreate, WorkerDestroy, WorkerNull, WorkerConnects,
     CreateProvider, WorkerRegisters, WorkerCannotConnect, WakeUp
<1>3. mx[w] \in 0 .. MaxStarts /\ (pc[w] \in Critical \union {"recreate"} => mx[w] = 1)
  BY DEF TypeOK, OneMutex
<1>4. CASE EnterRecreate(w) /\ request = "invalid"
  <2>1. pc' = [pc EXCEPT ![w] = "idle"] /\ mx' = [mx EXCEPT ![w] = 0] /\ pc[w] = "recreate"
    BY <1>4 DEF EnterRecreate, Leave
  <2>2. "idle" \in ThreadPoints /\ "idle" \notin Critical /\ 0 \in 0 .. MaxStarts
    BY DEF ThreadPoints, Critical
  <2> QED
    BY <1>0, <1>1, <1>2, <2>1, <2>2, MoveStep
<1>5. CASE EnterRecreate(w) /\ request # "invalid"
  <2>1. \E q \in {"create", "destroy"} :
          /\ pc' = [pc EXCEPT ![w] = q] /\ mx' = [mx EXCEPT ![w] = mx[w]]
          /\ pc[w] = "recreate" /\ mx[w] = 1 /\ MutexFree(1)
    <3>1. pc[w] = "recreate" /\ mx[w] = 1 /\ MutexFree(1)
      BY <1>3, <1>5 DEF EnterRecreate
    <3>2. mx' = [mx EXCEPT ![w] = mx[w]]
      BY <1>5 DEF EnterRecreate, Goto, TypeOK
    <3>3. \E q \in {"create", "destroy"} : pc' = [pc EXCEPT ![w] = q]
      BY <1>5 DEF EnterRecreate, Goto
    <3> QED
      BY <3>1, <3>2, <3>3
  <2>2. {"create", "destroy"} \subseteq ThreadPoints
    BY DEF ThreadPoints
  <2> QED
    BY <1>0, <1>1, <1>2, <1>3, <1>5, <2>1, <2>2, MoveStep
<1>6. CASE WorkerDestroy(w) \/ WorkerNull(w) \/ WorkerConnects(w)
  <2>1. \E q \in {"null", "create", "register"} :
          /\ pc' = [pc EXCEPT ![w] = q] /\ mx' = [mx EXCEPT ![w] = mx[w]]
          /\ pc[w] \in {"destroy", "null", "create"} /\ mx[w] = 1
    BY <1>3, <1>6 DEF WorkerDestroy, WorkerNull, WorkerConnects, Goto, TypeOK, Critical
  <2>2. {"null", "create", "register"} \subseteq ThreadPoints
        /\ {"destroy", "null", "create"} \subseteq Critical
    BY DEF ThreadPoints, Critical
  <2>3. PICK q \in {"null", "create", "register"} :
          /\ pc' = [pc EXCEPT ![w] = q] /\ mx' = [mx EXCEPT ![w] = mx[w]]
          /\ pc[w] \in {"destroy", "null", "create"} /\ mx[w] = 1
    BY <2>1
  <2> QED
    BY <1>0, <1>1, <1>2, <1>3, <2>2, <2>3, MoveStep
<1>7. CASE WorkerRegisters(w) \/ WorkerCannotConnect(w)
  <2>1. \E q \in {"idle", "sleep"} :
          /\ pc' = [pc EXCEPT ![w] = q] /\ mx' = [mx EXCEPT ![w] = 0]
          /\ pc[w] \in {"register", "create"}
    BY <1>7 DEF WorkerRegisters, WorkerCannotConnect, Leave
  <2>2. {"idle", "sleep"} \subseteq ThreadPoints \ Critical /\ 0 \in 0 .. MaxStarts
    BY DEF ThreadPoints, Critical
  <2> QED
    BY <1>0, <1>1, <1>2, <2>1, <2>2, MoveStep
<1>8. CASE WakeUp(w)
  <2>1. pc' = [pc EXCEPT ![w] = "request"] /\ mx' = [mx EXCEPT ![w] = 1] /\ pc[w] = "sleep"
    BY <1>0, <1>8 DEF WakeUp, ReadMutex
  <2>2. "request" \in ThreadPoints /\ "request" \notin Critical /\ 1 \in 0 .. MaxStarts
    BY DEF ThreadPoints, Critical
  <2> QED
    BY <1>0, <1>1, <1>2, <2>1, <2>2, MoveStep
<1> QED
  BY <1>4, <1>5, <1>6, <1>7, <1>8

-----------------------------------------------------------------------------
\* The invariant is inductive up to the second start.
LEMMA NextIndInv == starts <= 1 /\ starts' <= 1 /\ IndInv /\ [Next]_vars => IndInv'
<1> SUFFICES ASSUME starts <= 1, starts' <= 1, IndInv, [Next]_vars PROVE IndInv'
  OBVIOUS
<1>1. CASE StartSteps \/ StopSteps
  BY <1>1, PnpStep, CleanUpStep
<1>2. ASSUME NEW c \in Callbacks, CallbackSteps(c) PROVE IndInv'
  BY <1>2, CallbackStep
<1>3. ASSUME NEW t \in Threads, RequestSteps(t) PROVE IndInv'
  BY <1>3, TestRequestStep, QueueItemStep, MarkPendingStep DEF RequestSteps
<1>4. ASSUME NEW w \in Workers, WorkerSteps(w) PROVE IndInv'
  BY <1>4, RunWorkItemStep, ReleaseStep, RecreateStep DEF WorkerSteps
<1>5. CASE UNCHANGED vars
  <2>1. Requested' = Requested
    BY <1>5 DEF vars, Requested
  <2> QED
    BY <1>5, <2>1 DEF vars, IndInv, TypeOK, NothingBeforeStart, OneMutex,
       MutualExclusion, OneRequest, Queueing, ItemIsFresh, RequestTracksWork,
       CleanUpFencesWorkers
<1> QED
  BY <1>1, <1>2, <1>3, <1>4, <1>5 DEF Next

-----------------------------------------------------------------------------
\* dxgkrnl starts the device only after AddDevice or a stop.
Starting ==
    /\ starts \in Nat /\ stops \in Nat
    /\ pnp = "added" => starts = 0
    /\ pnp \in {"cleanup", "children", "test", "destroy", "null", "stopping", "stopped"}
          => stops > 0
    /\ stops = 0 => starts <= 1

\* It is known at any time, however often the device is started, and the
\* number of starts does not decrease.
LEMMA StartingStep ==
    Starting /\ [Next]_vars => Starting' /\ (starts' = starts \/ starts' = starts + 1)
<1> SUFFICES ASSUME Starting, [Next]_vars
             PROVE  Starting' /\ (starts' = starts \/ starts' = starts + 1)
  OBVIOUS
<1>1. CASE UNCHANGED <<pnp, starts, stops>>
  BY <1>1 DEF Starting
<1>2. CASE StartSteps \/ StopSteps
  BY <1>2 DEF Starting, StartSteps, StopSteps, StartDevice, InitPVChildren, InitProvider,
     AllocateWorkItem, FinishStart, StopDevice, CleanUpWorkItem, CleanUpChildren,
     StopTest, StopDestroy, StopNull, FinishStop
<1>3. ASSUME NEW c \in Callbacks, CallbackSteps(c) PROVE UNCHANGED <<pnp, starts, stops>>
  BY <1>3 DEF CallbackSteps, ProviderFails, ProcessHandlerError
<1>4. ASSUME NEW t \in Threads, RequestSteps(t) PROVE UNCHANGED <<pnp, starts, stops>>
  BY <1>4 DEF RequestSteps, TestRequest, QueueItem, MarkPending
<1>5. ASSUME NEW w \in Workers, WorkerSteps(w) PROVE UNCHANGED <<pnp, starts, stops>>
  BY <1>5 DEF WorkerSteps, RunWorkItem, ReleaseRequestQueue, EnterRecreate, WorkerDestroy,
     WorkerNull, WorkerConnects, WorkerRegisters, WorkerCannotConnect, WakeUp
<1> QED
  BY <1>1, <1>2, <1>3, <1>4, <1>5 DEF Next, vars

LEMMA StartingHolds == Spec => []Starting
<1>1. Init => Starting
  BY DEF Init, Starting
<1> QED
  BY <1>1, StartingStep, PTL DEF Spec

\* Up to the second start the invariant holds.
LEMMA IndInvHolds == Spec => [](starts <= 1 => IndInv)
<1>1. (starts <= 1 => IndInv) /\ Starting /\ [Next]_vars => (starts <= 1 => IndInv)'
  <2> SUFFICES ASSUME starts <= 1 => IndInv, Starting, [Next]_vars, starts' <= 1
               PROVE  IndInv'
    OBVIOUS
  <2>1. starts <= 1
    BY StartingStep DEF Starting
  <2> QED
    BY <2>1, NextIndInv
<1>2. Init => (starts <= 1 => IndInv)
  BY InitIndInv
<1> QED
  BY <1>1, <1>2, StartingHolds, PTL DEF Spec

\* Type correctness of the device up to its second start.
THEOREM TypeCorrect == Spec => [](starts <= 1 => TypeOK)
<1>1. IndInv => TypeOK
  BY DEF IndInv
<1> QED
  BY <1>1, IndInvHolds, PTL

\* QueueConnectionRequest never hands the kernel a work item that is still in
\* its queue, however many threads report errors and retry at once.
THEOREM NeverQueuedTwice == Spec => [](starts <= 1 => NoDoubleQueue)
<1>1. IndInv => NoDoubleQueue
  <2> SUFFICES ASSUME IndInv, NEW i \in DOMAIN queue, NEW j \in DOMAIN queue
               PROVE  i = j
    BY DEF NoDoubleQueue
  <2>1. DOMAIN queue = 1 .. Len(queue) /\ Len(queue) \in Nat /\ Len(queue) <= 1
    BY LenProperties DEF IndInv, TypeOK, OneRequest
  <2> QED
    BY <2>1
<1> QED
  BY <1>1, IndInvHolds, PTL

\* m_queue_request_pending never lies: "pending" always has a worker coming.
THEOREM PendingIsTrue == Spec => [](starts <= 1 => RequestTracksWork)
<1>1. IndInv => RequestTracksWork
  BY DEF IndInv
<1> QED
  BY <1>1, IndInvHolds, PTL

\* CleanUp's invalid mark keeps every worker out of RecreateProvider, and the
\* work item is not freed under a thread that is about to queue it.
THEOREM InvalidFences == Spec => [](starts <= 1 => CleanUpFencesWorkers)
<1>1. IndInv => CleanUpFencesWorkers
  BY DEF IndInv
<1> QED
  BY <1>1, IndInvHolds, PTL

-----------------------------------------------------------------------------
(***************************************************************************)
(* Who owns the object m_provider points to, and who will replace it.      *)
(***************************************************************************)
\* StopDevice is past the loop that frees the work item.
AfterCleanUp == {"children", "test", "destroy", "null", "stopping", "stopped"}

\* No thread runs, and none is about to.
Quiet == queue = <<>> /\ \A t \in Threads : pc[t] = "idle"

\* The provider is made by StartDevice, and its errors come later, unless
\* they may come early.
StartUp ==
    /\ pnp \in {"added", "init"} => ~children
    /\ pnp \in {"added", "init", "create"} => provider = "null" /\ ~leaked /\ Quiet
    /\ ~EarlyErrors /\ pnp \in {"alloc", "finish"} => provider = "up" /\ Quiet
    /\ pnp \in {"added", "init", "create", "alloc", "finish", "failed"} => ~started

\* The device is stopped for a reason, and its work item is freed first.
Stopping ==
    /\ pnp \in AfterCleanUp \union {"cleanup"} => stops > 0
    /\ pnp \in AfterCleanUp => ioWork = NoItem

\* As long as StopDevice leaves m_provider alone, it belongs to the worker in
\* RecreateProvider: what that worker has found there stays there, and only it
\* leaves a pointer to a destroyed object.
OwnProvider ==
    pnp \notin AfterCleanUp =>
        /\ \A w \in Workers :
              /\ pc[w] = "destroy" => provider \in {"up", "broken"}
              /\ pc[w] = "null" => provider = "dangling"
              /\ pc[w] = "create" => provider = "null"
        /\ provider = "dangling" => \E w \in Workers : pc[w] = "null"
        /\ ~leaked

OwnerInv == StartUp /\ Stopping /\ OwnProvider

\* The device as AddDevice leaves it satisfies it.
LEMMA InitOwnerInv == Init => OwnerInv /\ ReconnectAssured
<1> SUFFICES ASSUME Init PROVE OwnerInv /\ ReconnectAssured
  OBVIOUS
<1>1. StartUp /\ Stopping
  BY DEF Init, StartUp, Stopping, Quiet, AfterCleanUp
<1>2. OwnProvider /\ ReconnectAssured
  BY DEF Init, OwnProvider, Threads, ReconnectAssured
<1> QED
  BY <1>1, <1>2 DEF OwnerInv

\* StartDevice makes the first provider while nothing else runs; StopDevice
\* takes hold of it after its work item is gone.
LEMMA OwnerPnpStep ==
    ASSUME starts <= 1, starts' <= 1, IndInv, OwnerInv, StartSteps \/ StopSteps
    PROVE  OwnerInv'
<1> USE ProviderAssumption DEF OwnerInv
<1>1. pc' = pc /\ queue' = queue /\ Quiet' = Quiet
  BY DEF Quiet, StartSteps, StopSteps, StartDevice, InitPVChildren, InitProvider,
     AllocateWorkItem, FinishStart, StopDevice, CleanUpWorkItem, CleanUpChildren,
     StopTest, StopDestroy, StopNull, FinishStop
<1>2. starts \in Nat /\ stops \in Nat /\ (pnp = "stopped" => starts = 1)
  BY DEF IndInv, TypeOK, NothingBeforeStart
<1>3. CASE StartSteps
  <2>1. StartUp'
    <3>1. CASE StartDevice
      <4>1. pnp = "added" /\ ~children
        BY <1>2, <3>1 DEF StartDevice, StartUp, NothingBeforeStart, IndInv, TypeOK
      <4> QED
        BY <1>1, <3>1, <4>1 DEF StartDevice, StartUp
    <3>2. CASE InitProvider
      <4>1. pnp = "create" /\ pnp' \in {"alloc", "failed"} /\ started' = started
            /\ (pnp' = "alloc" => provider' = "up")
        BY <3>2 DEF InitProvider, CreateProvider
      <4> QED
        BY <1>1, <4>1 DEF StartUp
    <3>3. CASE InitPVChildren \/ AllocateWorkItem \/ FinishStart
      BY <1>1, <3>3 DEF InitPVChildren, AllocateWorkItem, FinishStart, StartUp
    <3> QED
      BY <1>3, <3>1, <3>2, <3>3 DEF StartSteps
  <2>2. Stopping' /\ pnp \notin AfterCleanUp
    BY <1>2, <1>3 DEF Stopping, StartSteps, StartDevice, InitPVChildren, InitProvider,
       AllocateWorkItem, FinishStart, AfterCleanUp
  <2>3. CASE InitProvider
    <3>1. provider = "null" /\ ~leaked /\ \A w \in Workers : pc'[w] = "idle"
      BY <1>1, <2>3 DEF InitProvider, StartUp, Quiet, Threads
    <3>2. ~leaked'
      <4>1. ~(leaked \/ provider \in {"up", "broken"})
        BY <3>1
      <4>2. leaked' = leaked \/ leaked' = (leaked \/ provider \in {"up", "broken"})
        BY <2>3 DEF InitProvider, CreateProvider
      <4> QED
        BY <3>1, <4>1, <4>2, Zenon
    <3>3. provider' \in {"null", "up"}
      BY <2>3, <3>1 DEF InitProvider, CreateProvider
    <3> QED
      BY <2>1, <2>2, <3>1, <3>2, <3>3 DEF OwnProvider
  <2>4. CASE ~InitProvider
    <3>1. provider' = provider /\ leaked' = leaked
      BY <1>3, <2>4 DEF StartSteps, StartDevice, InitPVChildren, AllocateWorkItem, FinishStart
    <3> QED
      BY <1>1, <2>1, <2>2, <3>1 DEF OwnProvider
  <2> QED
    BY <2>1, <2>2, <2>3, <2>4 DEF OwnProvider
<1>4. CASE StopSteps
  <2>1. StartUp'
    BY <1>1, <1>4 DEF StartUp, StopSteps, StopDevice, CleanUpWorkItem, CleanUpChildren,
       StopTest, StopDestroy, StopNull, FinishStop
  <2>2. Stopping'
    BY <1>2, <1>4 DEF Stopping, StopSteps, StopDevice, CleanUpWorkItem, CleanUpChildren,
       StopTest, StopDestroy, StopNull, FinishStop, AfterCleanUp
  <2>3. OwnProvider'
    <3>1. CASE StopDevice \/ CleanUpWorkItem
      <4>1. provider' = provider /\ leaked' = leaked /\ pnp \notin AfterCleanUp
        BY <3>1 DEF StopDevice, CleanUpWorkItem, AfterCleanUp
      <4> QED
        BY <1>1, <4>1 DEF OwnProvider
    <3>2. CASE ~(StopDevice \/ CleanUpWorkItem)
      BY <1>4, <3>2 DEF StopSteps, CleanUpChildren, StopTest, StopDestroy, StopNull,
         FinishStop, AfterCleanUp, OwnProvider
    <3> QED
      BY <3>1, <3>2
  <2> QED
    BY <2>1, <2>2, <2>3
<1> QED
  BY <1>3, <1>4

\* A thread that runs is not in the way of StartDevice.
LEMMA OwnerThreadStep ==
    ASSUME starts <= 1, starts' <= 1, OwnerInv, PnpUnchanged, ~Quiet, OwnProvider'
    PROVE  OwnerInv'
BY DEF OwnerInv, PnpUnchanged, StartUp, Stopping

\* A step that does not concern the provider.
LEMMA OwnerMoveStep ==
    ASSUME starts <= 1, starts' <= 1, IndInv, OwnerInv, NEW t \in Threads,
           PnpUnchanged, UNCHANGED <<provider, leaked>>, NEW q \in ThreadPoints,
           pc' = [pc EXCEPT ![t] = q], ~Quiet,
           pc[t] # "null", q \notin {"destroy", "null", "create"}
    PROVE  OwnerInv'
<1>1. /\ pc'[t] = q
      /\ \A u \in Threads : u # t => pc'[u] = pc[u]
  BY DEF IndInv, TypeOK
<1>2. OwnProvider'
  BY <1>1 DEF OwnerInv, OwnProvider, PnpUnchanged, Threads
<1> QED
  BY <1>2, OwnerThreadStep

\* The steps of QueueConnectionRequest and of the work item's queue.
LEMMA OwnerRequestStep ==
    ASSUME starts <= 1, starts' <= 1, IndInv, OwnerInv, NEW t \in Threads,
           RequestSteps(t) \/ (t \in Callbacks /\ ProcessHandlerError(t))
           \/ (t \in Workers /\ (RunWorkItem(t) \/ ReleaseRequestQueue(t)))
    PROVE  OwnerInv'
<1>1. PnpUnchanged /\ UNCHANGED <<provider, leaked>>
  BY DEF RequestSteps, TestRequest, QueueItem, MarkPending, ProcessHandlerError,
     RunWorkItem, ReleaseRequestQueue, PnpUnchanged
<1>2. ~Quiet /\ pc[t] # "null"
  BY DEF Quiet, RequestSteps, TestRequest, QueueItem, MarkPending, ProcessHandlerError,
     RunWorkItem, ReleaseRequestQueue
<1>3. \E q \in {"queue", "idle", "mark", "request", "release", "recreate"} :
         pc' = [pc EXCEPT ![t] = q]
  BY DEF RequestSteps, TestRequest, QueueItem, MarkPending, ProcessHandlerError,
     RunWorkItem, ReleaseRequestQueue, Goto, Leave, ReadMutex
<1>4. {"queue", "idle", "mark", "request", "release", "recreate"} \subseteq ThreadPoints
  BY DEF ThreadPoints
<1> QED
  BY <1>1, <1>2, <1>3, <1>4, OwnerMoveStep

\* A provider that fails is one that is there; so no worker has destroyed it.
LEMMA OwnerFailsStep ==
    ASSUME starts <= 1, starts' <= 1, IndInv, OwnerInv, NEW c \in Callbacks, ProviderFails(c)
    PROVE  OwnerInv'
<1>1. /\ PnpUnchanged /\ provider \in {"up", "broken"} /\ provider' = "broken"
      /\ leaked' = leaked /\ (EarlyErrors \/ started)
  BY DEF ProviderFails, PnpUnchanged
<1>2. \A w \in Workers : pc'[w] \in {"destroy", "null", "create"} => pc'[w] = pc[w]
  BY DEF ProviderFails, Goto, IndInv, TypeOK, Threads
<1>3. OwnProvider'
  BY <1>1, <1>2 DEF OwnerInv, OwnProvider, PnpUnchanged
<1>4. StartUp' /\ Stopping'
  BY <1>1 DEF OwnerInv, StartUp, Stopping, PnpUnchanged
<1> QED
  BY <1>3, <1>4 DEF OwnerInv

\* RecreateProvider is one worker's at a time.
LEMMA OwnerRecreateStep ==
    ASSUME starts <= 1, starts' <= 1, IndInv, OwnerInv, NEW w \in Workers,
           \/ EnterRecreate(w) \/ WorkerDestroy(w) \/ WorkerNull(w)
           \/ WorkerConnects(w) \/ WorkerRegisters(w)
           \/ WorkerCannotConnect(w) \/ WakeUp(w)
    PROVE  OwnerInv'
<1> w \in Threads
  BY DEF Threads
<1>1. PnpUnchanged /\ ~Quiet
  BY DEF PnpUnchanged, Quiet, EnterRecreate, WorkerDestroy, WorkerNull, WorkerConnects,
     CreateProvider, WorkerRegisters, WorkerCannotConnect, WakeUp
<1>2. pc \in [Threads -> ThreadPoints] /\ mx[w] \in 0 .. MaxStarts
  BY DEF IndInv, TypeOK
<1>3. CASE \/ EnterRecreate(w) /\ request = "invalid"
           \/ WorkerRegisters(w) \/ WorkerCannotConnect(w) \/ WakeUp(w)
  <2>1. UNCHANGED <<provider, leaked>> /\ pc[w] # "null"
    BY <1>3 DEF EnterRecreate, WorkerRegisters, WorkerCannotConnect, WakeUp
  <2>2. \E q \in {"idle", "sleep", "request"} : pc' = [pc EXCEPT ![w] = q]
    BY <1>3 DEF EnterRecreate, WorkerRegisters, WorkerCannotConnect, WakeUp, Leave, ReadMutex
  <2>3. {"idle", "sleep", "request"} \subseteq ThreadPoints
    BY DEF ThreadPoints
  <2> QED
    BY <1>1, <2>1, <2>2, <2>3, OwnerMoveStep
<1>4. CASE EnterRecreate(w) /\ request # "invalid"
  <2>1. /\ UNCHANGED <<provider, leaked>> /\ pc[w] = "recreate" /\ MutexFree(mx[w])
        /\ pc' = [pc EXCEPT ![w] = IF provider = "null" THEN "create" ELSE "destroy"]
    BY <1>4 DEF EnterRecreate, Goto
  <2>2. mx[w] = 1
    BY <2>1 DEF IndInv, OneMutex
  <2>3. \A u \in Threads : pc[u] \notin Critical
    BY <2>1, <2>2, FreeMeansNobody
  <2>4. \A u \in Workers : u # w => pc'[u] \notin {"destroy", "null", "create"}
    BY <1>2, <2>1, <2>3 DEF Critical, Threads
  <2>5. provider = "dangling" => pnp \in AfterCleanUp
    BY <2>3 DEF OwnerInv, OwnProvider, Critical, Threads
  <2>6. provider \in {"null", "up", "broken", "dangling"}
    BY DEF IndInv, TypeOK
  <2>7. pc'[w] = IF provider = "null" THEN "create" ELSE "destroy"
    BY <1>2, <2>1
  <2>8. OwnProvider'
    BY <1>1, <2>1, <2>4, <2>5, <2>6, <2>7 DEF OwnerInv, OwnProvider, PnpUnchanged
  <2> QED
    BY <1>1, <2>8, OwnerThreadStep
<1>5. ASSUME WorkerDestroy(w) \/ WorkerNull(w) \/ WorkerConnects(w)
      PROVE  OwnerInv'
  <2>1. pc[w] \in {"destroy", "null", "create"} /\ pc[w] \in Critical
    BY <1>5 DEF WorkerDestroy, WorkerNull, WorkerConnects, Critical
  <2>2. \A u \in Workers : u # w => pc[u] \notin {"destroy", "null", "create"}
    BY <2>1 DEF IndInv, MutualExclusion, Critical, Threads
  <2>3. \E q \in {"null", "create", "register"} : pc' = [pc EXCEPT ![w] = q]
    BY <1>5 DEF WorkerDestroy, WorkerNull, WorkerConnects, Goto
  <2>4. \A u \in Workers : u # w => pc'[u] \notin {"destroy", "null", "create"}
    BY <1>2, <2>2, <2>3 DEF Threads
  <2>5. CASE WorkerDestroy(w)
    <3>1. pc[w] = "destroy" /\ pc'[w] = "null" /\ leaked' = leaked
          /\ provider' = IF provider = "null" THEN "null" ELSE "dangling"
      BY <1>2, <2>5 DEF WorkerDestroy, Goto
    <3> QED
      BY <1>1, <2>4, <3>1, OwnerThreadStep DEF OwnerInv, OwnProvider, PnpUnchanged
  <2>6. CASE WorkerNull(w)
    <3>1. /\ pc[w] = "null" /\ pc'[w] = "create" /\ provider' = "null"
          /\ leaked' = (leaked \/ provider \in {"up", "broken"})
      BY <1>2, <2>6 DEF WorkerNull, Goto
    <3> QED
      BY <1>1, <2>4, <3>1, OwnerThreadStep DEF OwnerInv, OwnProvider, PnpUnchanged
  <2>7. CASE WorkerConnects(w)
    <3>1. /\ pc[w] = "create" /\ pc'[w] = "register" /\ provider' = "up"
          /\ leaked' = (leaked \/ provider \in {"up", "broken"})
      BY <1>2, <2>7 DEF WorkerConnects, CreateProvider, Goto
    <3> QED
      BY <1>1, <2>4, <3>1, OwnerThreadStep DEF OwnerInv, OwnProvider, PnpUnchanged
  <2> QED
    BY <1>5, <2>5, <2>6, <2>7
<1> QED
  BY <1>3, <1>4, <1>5

\* The invariant of the owner is inductive.
LEMMA NextOwnerInv ==
    starts <= 1 /\ starts' <= 1 /\ IndInv /\ OwnerInv /\ [Next]_vars => OwnerInv'
<1> SUFFICES ASSUME starts <= 1, starts' <= 1, IndInv, OwnerInv, [Next]_vars
             PROVE  OwnerInv'
  OBVIOUS
<1>1. CASE StartSteps \/ StopSteps
  BY <1>1, OwnerPnpStep
<1>2. ASSUME NEW c \in Callbacks, CallbackSteps(c) PROVE OwnerInv'
  BY <1>2, OwnerFailsStep, OwnerRequestStep DEF CallbackSteps, Threads
<1>3. ASSUME NEW t \in Threads, RequestSteps(t) PROVE OwnerInv'
  BY <1>3, OwnerRequestStep
<1>4. ASSUME NEW w \in Workers, WorkerSteps(w) PROVE OwnerInv'
  BY <1>4, OwnerRequestStep, OwnerRecreateStep DEF WorkerSteps, Threads
<1>5. CASE UNCHANGED vars
  <2>1. Quiet' = Quiet
    BY <1>5 DEF vars, Quiet
  <2> QED
    BY <1>5, <2>1 DEF vars, OwnerInv, StartUp, Stopping, OwnProvider
<1> QED
  BY <1>1, <1>2, <1>3, <1>4, <1>5 DEF Next

LEMMA OwnerInvHolds == Spec => [](starts <= 1 => OwnerInv)
<1>1. /\ starts <= 1 => IndInv
      /\ starts <= 1 => OwnerInv
      /\ Starting /\ [Next]_vars
      => (starts <= 1 => OwnerInv)'
  <2> SUFFICES ASSUME starts <= 1 => IndInv, starts <= 1 => OwnerInv, Starting, [Next]_vars,
                      starts' <= 1
               PROVE  OwnerInv'
    OBVIOUS
  <2>1. starts <= 1
    BY StartingStep DEF Starting
  <2> QED
    BY <2>1, NextOwnerInv
<1>2. Init => (starts <= 1 => OwnerInv)
  BY InitOwnerInv
<1> QED
  BY <1>1, <1>2, IndInvHolds, StartingHolds, PTL DEF Spec

\* Until the device is stopped, the provider is destroyed once, by the worker
\* that replaces it, and none is overwritten while it is connected, with any
\* number of threads that report errors and recreate it.
THEOREM ProviderDestroyedOnce == Spec => []DestroyOnce
<1>1. (starts <= 1 => OwnerInv) /\ Starting => DestroyOnce
  <2> SUFFICES ASSUME starts <= 1 => OwnerInv, Starting, stops = 0
               PROVE  OwnerInv /\ pnp \notin AfterCleanUp
    BY DEF OwnerInv, OwnProvider, DestroyOnce
  <2> QED
    BY DEF Starting, AfterCleanUp
<1> QED
  BY <1>1, OwnerInvHolds, StartingHolds, PTL

-----------------------------------------------------------------------------
\* A thread that is on its way to the request, or in RecreateProvider, ...
OnTheWay(t) ==
    \/ pc[t] \in {"error", "request", "queue", "mark"}
    \/ /\ t \in Workers
       /\ \/ pc[t] \in {"release", "recreate", "destroy"}
          \/ pc[t] \in {"null", "create", "sleep"} /\ provider # "broken"

\* ... is what is meant by somebody reconnecting.
LEMMA SomebodyReconnects ==
    Reconnecting <=> queue # <<>> \/ \E t \in Threads : OnTheWay(t)
BY DEF Reconnecting, Requested, OnTheWay, Threads

\* The same of the state after a step.
LEMMA SomebodyReconnectsNext ==
    Reconnecting' <=> queue' # <<>> \/ \E t \in Threads : OnTheWay(t)'
BY DEF Reconnecting, Requested, OnTheWay, Threads

\* A step of thread t, after which t or the queue takes care of the provider.
LEMMA TakesOver ==
    ASSUME NEW t \in Threads, OnTheWay(t)' \/ queue' # <<>>
    PROVE  ReconnectAssured'
BY SomebodyReconnectsNext DEF ReconnectAssured

\* A step of a thread that was not on the way, and does not change what the
\* others are on the way to.
LEMMA NotMissed ==
    ASSUME IndInv, ReconnectAssured, NEW t \in Threads, NEW q \in ThreadPoints,
           PnpUnchanged, UNCHANGED <<queue, request, provider>>,
           pc' = [pc EXCEPT ![t] = q], ~OnTheWay(t)
    PROVE  ReconnectAssured'
<1>1. \A u \in Threads : u # t => pc'[u] = pc[u]
  BY DEF IndInv, TypeOK
<1>2. Reconnecting => Reconnecting'
  BY <1>1, SomebodyReconnects, SomebodyReconnectsNext DEF OnTheWay
<1> QED
  BY <1>2 DEF ReconnectAssured, PnpUnchanged

\* StartDevice ends with a provider that is up; StopDevice marks the request
\* invalid or frees the work item before it touches the provider.
LEMMA AssuredPnpStep ==
    ASSUME IndInv, OwnerInv, ~EarlyErrors, ReconnectAssured, StartSteps \/ StopSteps
    PROVE  ReconnectAssured'
<1>1. pc' = pc /\ queue' = queue
  BY DEF StartSteps, StopSteps, StartDevice, InitPVChildren, InitProvider,
     AllocateWorkItem, FinishStart, StopDevice, CleanUpWorkItem, CleanUpChildren,
     StopTest, StopDestroy, StopNull, FinishStop
<1>2. CASE StartSteps
  <2>1. pnp = "stopped" \/ ~started
    BY <1>2 DEF OwnerInv, StartUp, StartSteps, StartDevice, InitPVChildren, InitProvider,
       AllocateWorkItem, FinishStart
  <2>2. CASE FinishStart
    BY <2>2 DEF FinishStart, OwnerInv, StartUp, ReconnectAssured
  <2>3. CASE ~FinishStart
    <3>1. started' = started /\ (pnp = "stopped" => ioWork' = ioWork)
      BY <1>2, <2>3 DEF StartSteps, StartDevice, InitPVChildren, InitProvider, AllocateWorkItem
    <3> QED
      BY <2>1, <3>1 DEF OwnerInv, Stopping, AfterCleanUp, ReconnectAssured
  <2> QED
    BY <2>2, <2>3
<1>3. CASE StopSteps
  <2>1. CASE StopDevice \/ CleanUpWorkItem
    <3>1. provider' = provider /\ started' = started
      BY <2>1 DEF StopDevice, CleanUpWorkItem
    <3>2. \/ request' = "invalid" \/ ioWork' = NoItem
          \/ request' = request /\ ioWork' = ioWork
      BY <2>1 DEF StopDevice, CleanUpWorkItem
    <3>3. Reconnecting' = Reconnecting
      BY <1>1, <3>1 DEF Reconnecting, Requested
    <3> QED
      BY <3>1, <3>2, <3>3 DEF ReconnectAssured
  <2>2. CASE ~(StopDevice \/ CleanUpWorkItem)
    <3>1. ioWork' = NoItem
      BY <1>3, <2>2 DEF StopSteps, CleanUpChildren, StopTest, StopDestroy, StopNull,
         FinishStop, OwnerInv, Stopping, AfterCleanUp
    <3> QED
      BY <3>1 DEF ReconnectAssured
  <2> QED
    BY <2>1, <2>2
<1> QED
  BY <1>2, <1>3

\* A request that is not queued because one is pending has a worker coming.
LEMMA AssuredRequestStep ==
    ASSUME IndInv, IndInv', ReconnectAssured, NEW t \in Threads, RequestSteps(t)
    PROVE  ReconnectAssured'
<1>1. CASE TestRequest(t)
  <2>1. CASE request = "not_pending" /\ ioWork # NoItem
    <3>1. pc'[t] = "queue"
      BY <1>1, <2>1 DEF TestRequest, Goto, IndInv, TypeOK
    <3> QED
      BY <3>1, TakesOver DEF OnTheWay
  <2>2. CASE ~(request = "not_pending" /\ ioWork # NoItem)
    <3>1. /\ UNCHANGED <<request, ioWork, queue>> /\ pc[t] = "request"
          /\ pc' = [pc EXCEPT ![t] = "idle"]
      BY <1>1, <2>2 DEF TestRequest, Leave
    <3>2. request \in {"not_pending", "pending", "invalid"}
      BY DEF IndInv, TypeOK
    <3>3. request = "pending" => Requested'
      BY <3>1 DEF IndInv, RequestTracksWork
    <3> QED
      BY <2>2, <3>1, <3>2, <3>3 DEF ReconnectAssured, Reconnecting
  <2> QED
    BY <2>1, <2>2
<1>2. CASE QueueItem(t)
  <2>1. pc'[t] = "mark"
    BY <1>2 DEF QueueItem, Goto, IndInv, TypeOK
  <2> QED
    BY <2>1, TakesOver DEF OnTheWay
<1>3. CASE MarkPending(t)
  <2>1. Requested'
    BY <1>3 DEF MarkPending, IndInv, RequestTracksWork
  <2> QED
    BY <2>1 DEF ReconnectAssured, Reconnecting
<1> QED
  BY <1>1, <1>2, <1>3 DEF RequestSteps

\* An error that is reported is on the way to a request.
LEMMA AssuredCallbackStep ==
    ASSUME IndInv, NEW c \in Callbacks, CallbackSteps(c)
    PROVE  ReconnectAssured'
<1>1. c \in Threads /\ pc'[c] \in {"error", "request"}
  BY DEF CallbackSteps, ProviderFails, ProcessHandlerError, Goto, ReadMutex, IndInv, TypeOK,
     Threads
<1> QED
  BY <1>1, TakesOver DEF OnTheWay

\* A worker that gives up finds the request invalid or the provider up, or
\* comes back after its sleep.
LEMMA AssuredWorkerStep ==
    ASSUME IndInv, OwnerInv, ReconnectAssured, NEW w \in Workers, WorkerSteps(w)
    PROVE  ReconnectAssured'
<1> w \in Threads
  BY DEF Threads
<1>1. CASE RunWorkItem(w) \/ ReleaseRequestQueue(w) \/ WakeUp(w)
  <2>1. pc'[w] \in {"release", "recreate", "request"}
    BY <1>1 DEF RunWorkItem, ReleaseRequestQueue, WakeUp, ReadMutex, IndInv, TypeOK
  <2> QED
    BY <2>1, TakesOver DEF OnTheWay
<1>2. CASE EnterRecreate(w)
  <2>1. CASE request = "invalid"
    BY <1>2, <2>1 DEF EnterRecreate, ReconnectAssured
  <2>2. CASE request # "invalid"
    <3>1. /\ pc'[w] = IF provider = "null" THEN "create" ELSE "destroy"
          /\ provider' = provider
      BY <1>2, <2>2 DEF EnterRecreate, Goto, IndInv, TypeOK
    <3> QED
      BY <3>1, TakesOver DEF OnTheWay
  <2> QED
    BY <2>1, <2>2
<1>3. CASE WorkerDestroy(w) \/ WorkerNull(w)
  <2>1. pc'[w] \in {"null", "create"} /\ provider' # "broken"
    BY <1>3 DEF WorkerDestroy, WorkerNull, Goto, IndInv, TypeOK
  <2> QED
    BY <2>1, TakesOver DEF OnTheWay
<1>4. CASE WorkerConnects(w)
  BY <1>4 DEF WorkerConnects, CreateProvider, ReconnectAssured
<1>5. CASE WorkerRegisters(w)
  <2>1. /\ PnpUnchanged /\ UNCHANGED <<queue, request, provider>>
        /\ pc' = [pc EXCEPT ![w] = "idle"] /\ pc[w] = "register"
    BY <1>5 DEF WorkerRegisters, Leave, PnpUnchanged
  <2>2. "idle" \in ThreadPoints /\ ~OnTheWay(w)
    BY <2>1 DEF ThreadPoints, OnTheWay
  <2> QED
    BY <2>1, <2>2, NotMissed
<1>6. CASE WorkerCannotConnect(w)
  <2>1. /\ pc[w] = "create" /\ pc'[w] = "sleep" /\ UNCHANGED <<pnp, ioWork, provider>>
    BY <1>6 DEF WorkerCannotConnect, Leave, IndInv, TypeOK
  <2>2. pnp \in AfterCleanUp \/ provider = "null"
    BY <2>1 DEF OwnerInv, OwnProvider
  <2>3. CASE pnp \in AfterCleanUp
    BY <2>1, <2>3 DEF OwnerInv, Stopping, ReconnectAssured
  <2>4. CASE provider = "null"
    BY <2>1, <2>4, TakesOver DEF OnTheWay
  <2> QED
    BY <2>2, <2>3, <2>4
<1> QED
  BY <1>1, <1>2, <1>3, <1>4, <1>5, <1>6 DEF WorkerSteps

\* Reconnection stays assured.
LEMMA NextAssured ==
    ASSUME ~EarlyErrors
    PROVE  /\ starts <= 1 /\ starts' <= 1 /\ IndInv /\ OwnerInv
           /\ ReconnectAssured /\ [Next]_vars
           => ReconnectAssured'
<1> SUFFICES ASSUME starts <= 1, starts' <= 1, IndInv, OwnerInv, ReconnectAssured, [Next]_vars
             PROVE  ReconnectAssured'
  OBVIOUS
<1>1. IndInv'
  BY NextIndInv
<1>2. CASE UNCHANGED vars
  <2>1. Reconnecting' = Reconnecting
    BY <1>2 DEF vars, Reconnecting, Requested
  <2> QED
    BY <1>2, <2>1 DEF vars, ReconnectAssured
<1> QED
  BY <1>1, <1>2, AssuredPnpStep, AssuredRequestStep, AssuredCallbackStep,
     AssuredWorkerStep DEF Next

\* A provider that is broken or missing while the driver runs and has its work
\* item is on its way to be replaced, whichever threads report its error and
\* whenever: no error is absorbed by a request that is already over.
THEOREM NoErrorForgotten ==
    ASSUME ~EarlyErrors
    PROVE  Spec => [](starts <= 1 => ReconnectAssured)
<1>1. /\ starts <= 1 => IndInv
      /\ starts <= 1 => OwnerInv
      /\ starts <= 1 => ReconnectAssured
      /\ Starting /\ [Next]_vars
      => (starts <= 1 => ReconnectAssured)'
  <2> SUFFICES ASSUME starts <= 1 => IndInv, starts <= 1 => OwnerInv,
                      starts <= 1 => ReconnectAssured, Starting, [Next]_vars, starts' <= 1
               PROVE  ReconnectAssured'
    OBVIOUS
  <2>1. starts <= 1
    BY StartingStep DEF Starting
  <2> QED
    BY <2>1, NextAssured
<1>2. Init => (starts <= 1 => ReconnectAssured)
  BY InitOwnerInv
<1> QED
  BY <1>1, <1>2, IndInvHolds, OwnerInvHolds, StartingHolds, PTL DEF Spec
=============================================================================
