------------------------------ MODULE Provider ------------------------------
(***************************************************************************)
(* The life of the connection to the display handler: the provider object  *)
(* (BASIC_DISPLAY_DRIVER::m_provider), the work item that recreates it     *)
(* after a fatal error (m_io_work, m_queue_request_pending), and the two   *)
(* PnP operations that create and destroy both (StartDevice, StopDevice).  *)
(*                                                                         *)
(* Three kinds of thread run this code.  dxgkrnl calls the PnP operations  *)
(* one at a time (`pnp' is the point that thread has reached); the IVC     *)
(* library calls back on a fatal error (Callbacks); the kernel's system    *)
(* worker threads run the queued work item (Workers).  One action is one   *)
(* stretch of code between two points at which another thread can observe  *)
(* or change the shared state.                                             *)
(***************************************************************************)
EXTENDS Naturals, Sequences

CONSTANTS Callbacks,    \* the threads on which the IVC library reports errors
          Workers,      \* the system worker threads
          MaxStarts,    \* bound: how often dxgkrnl starts the device
          MaxStops,     \* bound: how often dxgkrnl stops it
          EarlyErrors   \* may a provider fail before its StartDevice is over?

ASSUME ProviderAssumption ==
    /\ Callbacks \intersect Workers = {}
    /\ MaxStarts \in Nat \ {0}
    /\ MaxStops \in Nat
    /\ EarlyErrors \in BOOLEAN

VARIABLES
    pnp,        \* program point of the PnP thread
    started,    \* m_Flags.DriverStarted
    starts,     \* StartDevice calls so far; also names the newest m_dh_mutex
    stops,      \* StopDevice calls so far
    children,   \* are the pPVChild pointers of m_CurrentModes set?
    provider,   \* m_provider
    leaked,     \* was m_provider overwritten while it pointed to a live object?
    ioWork,     \* m_io_work: NoItem, or the number of the start it belongs to
    freed,      \* work items given back with IoFreeWorkItem
    queue,      \* the kernel's queue of work items (IoQueueWorkItem)
    request,    \* m_queue_request_pending
    pc,         \* program point of each callback and worker thread
    mx          \* the m_dh_mutex each thread has read (0: none)

vars == <<pnp, started, starts, stops, children, provider, leaked, ioWork,
          freed, queue, request, pc, mx>>

device == <<pnp, started, starts, stops, children>>
conn == <<provider, leaked>>
work == <<ioWork, freed, queue, request>>
threads == <<pc, mx>>

Threads == Callbacks \union Workers

NoItem == 0
Items == 1 .. MaxStarts

PnpPoints == {"added", "init", "create", "alloc", "finish", "started",
              "cleanup", "children", "test", "destroy", "null", "stopping",
              "stopped", "failed"}
ThreadPoints == {"idle", "error", "release", "recreate", "destroy", "null",
                 "create", "register", "sleep", "request", "queue", "mark"}

(***************************************************************************)
(* m_dh_mutex is a FAST_MUTEX.  StartDevice allocates a new one at every   *)
(* start and forgets the old one, so a thread keeps using the mutex whose  *)
(* pointer it read (mx).  A mutex is held by the thread that read it and   *)
(* has reached a point inside the critical section.                        *)
(***************************************************************************)
Critical == {"destroy", "null", "create", "register", "queue", "mark"}
HoldsMutex(t, m) == pc[t] \in Critical /\ mx[t] = m
MutexFree(m) == \A t \in Threads : ~HoldsMutex(t, m)

\* Thread t moves on, and reads the m_dh_mutex pointer on the way.
ReadMutex(t, point) ==
    /\ pc' = [pc EXCEPT ![t] = point]
    /\ mx' = [mx EXCEPT ![t] = starts]

\* Thread t moves on, and keeps or drops what it read.
Goto(t, point) ==
    /\ pc' = [pc EXCEPT ![t] = point]
    /\ UNCHANGED mx

Leave(t, point) ==
    /\ pc' = [pc EXCEPT ![t] = point]
    /\ mx' = [mx EXCEPT ![t] = 0]

-----------------------------------------------------------------------------
(***************************************************************************)
(* The device as AddDevice leaves it.                                      *)
(***************************************************************************)
Init ==
    /\ pnp = "added"
    /\ started = FALSE
    /\ starts = 0
    /\ stops = 0
    /\ children = FALSE
    /\ provider = "null"
    /\ leaked = FALSE
    /\ ioWork = NoItem
    /\ freed = {}
    /\ queue = <<>>
    /\ request = "not_pending"
    /\ pc = [t \in Threads |-> "idle"]
    /\ mx = [t \in Threads |-> 0]

-----------------------------------------------------------------------------
(***************************************************************************)
(* StartDevice.  m_dh_mutex is replaced; the first time, and whenever      *)
(* CleanUpChildren has deleted the children, InitPVChildren builds         *)
(* everything.  If the children are still there, StartDevice takes the     *)
(* connection to be still there too and only calls UpdateConnection, which *)
(* returns at once because DriverStarted is not yet set.                   *)
(***************************************************************************)
StartDevice ==
    /\ pnp \in {"added", "stopped"}
    /\ starts < MaxStarts
    /\ starts' = starts + 1
    /\ pnp' = IF children THEN "finish" ELSE "init"
    /\ UNCHANGED <<started, stops, children, conn, work, threads>>

\* InitPVChildren: the children come first, ...
InitPVChildren ==
    /\ pnp = "init"
    /\ children' = TRUE
    /\ pnp' = "create"
    /\ UNCHANGED <<started, starts, stops, conn, work, threads>>

(***************************************************************************)
(* CreateProvider: create_pv_display_provider stores a fresh connected     *)
(* object in m_provider, whatever the pointer held, or fails.              *)
(***************************************************************************)
CreateProvider ==
    /\ provider' = "up"
    /\ leaked' = (leaked \/ provider \in {"up", "broken"})

\* ... then the provider, ...
InitProvider ==
    /\ pnp = "create"
    /\ \/ /\ CreateProvider
          /\ pnp' = "alloc"
       \/ /\ pnp' = "failed"
          /\ UNCHANGED conn
    /\ UNCHANGED <<started, starts, stops, children, work, threads>>

\* ... and last the work item that can reconnect it.
AllocateWorkItem ==
    /\ pnp = "alloc"
    /\ ioWork' = starts
    /\ pnp' = "finish"
    /\ UNCHANGED <<started, starts, stops, children, conn, freed, queue, request, threads>>

FinishStart ==
    /\ pnp = "finish"
    /\ started' = TRUE
    /\ pnp' = "started"
    /\ UNCHANGED <<starts, stops, children, conn, work, threads>>

-----------------------------------------------------------------------------
(***************************************************************************)
(* StopDevice = CleanUp, then DriverStarted = FALSE.                       *)
(***************************************************************************)
StopDevice ==
    /\ pnp = "started"
    /\ stops < MaxStops
    /\ stops' = stops + 1
    /\ pnp' = IF ioWork = NoItem THEN "children" ELSE "cleanup"
    /\ UNCHANGED <<started, starts, children, conn, work, threads>>

\* One turn of CleanUp's loop: a request that is pending is marked invalid;
\* at a turn that finds none pending the item is freed.
CleanUpTurn(next) ==
    /\ pnp = "cleanup"
    /\ \/ /\ request = "pending"
          /\ request' = "invalid"
          /\ UNCHANGED <<pnp, ioWork, freed>>
       \/ /\ request # "pending"
          /\ freed' = freed \union {ioWork}
          /\ ioWork' = NoItem
          /\ pnp' = next
          /\ UNCHANGED request
    /\ UNCHANGED <<started, starts, stops, children, conn, queue, threads>>

\* Mutants: the loop does not end; the loop does not take m_dh_mutex.
CleanUpWorkItemForever == MutexFree(starts) /\ CleanUpTurn("cleanup")
CleanUpWorkItemUnlocked == CleanUpTurn("children")

CleanUpWorkItem == MutexFree(starts) /\ CleanUpTurn("children")

\* The children are deleted only when there is a provider to tell.
CleanUpChildren ==
    /\ pnp = "children"
    /\ children' = (children /\ provider = "null")
    /\ pnp' = "test"
    /\ UNCHANGED <<started, starts, stops, conn, work, threads>>

\* CleanUp tests m_provider without holding m_dh_mutex, ...
StopTest ==
    /\ pnp = "test"
    /\ pnp' = IF provider = "null" THEN "stopping" ELSE "destroy"
    /\ UNCHANGED <<started, starts, stops, children, conn, work, threads>>

\* ... calls m_provider->destroy(m_provider) ...
StopDestroy ==
    /\ pnp = "destroy"
    /\ provider' = IF provider = "null" THEN "null" ELSE "dangling"
    /\ pnp' = "null"
    /\ UNCHANGED <<started, starts, stops, children, leaked, work, threads>>

\* ... and sets m_provider to NULL.
StopNull ==
    /\ pnp = "null"
    /\ provider' = "null"
    /\ leaked' = (leaked \/ provider \in {"up", "broken"})
    /\ pnp' = "stopping"
    /\ UNCHANGED <<started, starts, stops, children, work, threads>>

FinishStop ==
    /\ pnp = "stopping"
    /\ started' = FALSE
    /\ pnp' = "stopped"
    /\ UNCHANGED <<starts, stops, children, conn, work, threads>>

-----------------------------------------------------------------------------
(***************************************************************************)
(* The IVC side.  A provider may fail at any time, and the library then    *)
(* calls dpcb_handle_provider_error on one of its threads; it may report   *)
(* the same broken connection again before the driver has replaced it.     *)
(***************************************************************************)
ProviderFails(c) ==
    /\ pc[c] = "idle"
    /\ provider \in {"up", "broken"}
    /\ EarlyErrors \/ started
    /\ provider' = "broken"
    /\ Goto(c, "error")
    /\ UNCHANGED <<device, leaked, work>>

\* ProcessHandlerError: disconnect every child, then QueueConnectionRequest.
ProcessHandlerError(c) ==
    /\ pc[c] = "error"
    /\ ReadMutex(c, "request")
    /\ UNCHANGED <<device, conn, work>>

-----------------------------------------------------------------------------
(***************************************************************************)
(* QueueConnectionRequest, called by ProcessHandlerError and by a worker   *)
(* that could not reconnect.  Thread t waits for m_dh_mutex, ...           *)
(***************************************************************************)
QueueIf(t, needed) ==
    /\ pc[t] = "request"
    /\ MutexFree(mx[t])
    /\ IF needed THEN Goto(t, "queue") ELSE Leave(t, "idle")
    /\ UNCHANGED <<device, conn, work>>

\* Mutant: m_queue_request_pending is not looked at.
TestRequestBlind(t) == QueueIf(t, ioWork # NoItem)

TestRequest(t) == QueueIf(t, request = "not_pending" /\ ioWork # NoItem)

\* ... hands the work item to the kernel ...
QueueItem(t) ==
    /\ pc[t] = "queue"
    /\ queue' = Append(queue, ioWork)
    /\ Goto(t, "mark")
    /\ UNCHANGED <<device, conn, ioWork, freed, request>>

\* ... and only then records that it did, and releases the mutex.
MarkPending(t) ==
    /\ pc[t] = "mark"
    /\ request' = "pending"
    /\ Leave(t, "idle")
    /\ UNCHANGED <<device, conn, ioWork, freed, queue>>

-----------------------------------------------------------------------------
(***************************************************************************)
(* dh_deferred_connect on a system worker thread.                          *)
(***************************************************************************)
RunWorkItem(w) ==
    /\ pc[w] = "idle"
    /\ queue # <<>>
    /\ queue' = Tail(queue)
    /\ ReadMutex(w, "release")
    /\ UNCHANGED <<device, conn, ioWork, freed, request>>

\* ReleaseRequestQueue; RecreateProvider is entered next.
ReleaseWith(w, state) ==
    /\ pc[w] = "release"
    /\ MutexFree(mx[w])
    /\ request' = state
    /\ ReadMutex(w, "recreate")
    /\ UNCHANGED <<device, conn, ioWork, freed, queue>>

\* Mutant: the request stays pending.
ReleaseRequestQueueForgets(w) == ReleaseWith(w, request)

ReleaseRequestQueue(w) ==
    ReleaseWith(w, IF request = "invalid" THEN "invalid" ELSE "not_pending")

\* RecreateProvider gives up if CleanUp has marked the request invalid; an old
\* provider is destroyed before a new one is made.
Recreate(w, first) ==
    /\ pc[w] = "recreate"
    /\ IF request = "invalid" THEN Leave(w, "idle") ELSE Goto(w, first)
    /\ UNCHANGED <<device, conn, work>>

FirstStep == IF provider = "null" THEN "create" ELSE "destroy"

\* Mutant: m_dh_mutex is not taken.
EnterRecreateUnlocked(w) == Recreate(w, FirstStep)

EnterRecreate(w) == MutexFree(mx[w]) /\ Recreate(w, FirstStep)

WorkerDestroy(w) ==
    /\ pc[w] = "destroy"
    /\ provider' = IF provider = "null" THEN "null" ELSE "dangling"
    /\ Goto(w, "null")
    /\ UNCHANGED <<device, leaked, work>>

WorkerNull(w) ==
    /\ pc[w] = "null"
    /\ provider' = "null"
    /\ leaked' = (leaked \/ provider \in {"up", "broken"})
    /\ Goto(w, "create")
    /\ UNCHANGED <<device, work>>

WorkerConnects(w) ==
    /\ pc[w] = "create"
    /\ CreateProvider
    /\ Goto(w, "register")
    /\ UNCHANGED <<device, work>>

\* The handlers are registered, the capabilities advertised and m_dh_lock
\* replaced under m_dh_mutex, while the new provider already runs.
WorkerRegisters(w) ==
    /\ pc[w] = "register"
    /\ Leave(w, "idle")
    /\ UNCHANGED <<device, conn, work>>

WorkerCannotConnect(w) ==
    /\ pc[w] = "create"
    /\ Leave(w, "sleep")
    /\ UNCHANGED <<device, conn, work>>

\* Mutant: DeferredConnection gives up after one attempt.
WakeUpGivesUp(w) ==
    /\ pc[w] = "sleep"
    /\ Leave(w, "idle")
    /\ UNCHANGED <<device, conn, work>>

\* DeferredConnection: after sleep(5) the worker queues another request.
WakeUp(w) ==
    /\ pc[w] = "sleep"
    /\ ReadMutex(w, "request")
    /\ UNCHANGED <<device, conn, work>>

-----------------------------------------------------------------------------
StartSteps == StartDevice \/ InitPVChildren \/ InitProvider
              \/ AllocateWorkItem \/ FinishStart

StopSteps == StopDevice \/ CleanUpWorkItem \/ CleanUpChildren \/ StopTest
             \/ StopDestroy \/ StopNull \/ FinishStop

CallbackSteps(c) == ProviderFails(c) \/ ProcessHandlerError(c)

RequestSteps(t) == TestRequest(t) \/ QueueItem(t) \/ MarkPending(t)

WorkerSteps(w) ==
    \/ RunWorkItem(w) \/ ReleaseRequestQueue(w) \/ EnterRecreate(w)
    \/ WorkerDestroy(w) \/ WorkerNull(w) \/ WorkerConnects(w)
    \/ WorkerRegisters(w) \/ WorkerCannotConnect(w) \/ WakeUp(w)

Next ==
    \/ StartSteps
    \/ StopSteps
    \/ \E c \in Callbacks : CallbackSteps(c)
    \/ \E t \in Threads : RequestSteps(t)
    \/ \E w \in Workers : WorkerSteps(w)

Spec == Init /\ [][Next]_vars

(***************************************************************************)
(* Fairness.  The kernel runs every runnable thread; a FAST_MUTEX hands    *)
(* over to its waiters in turn, so a thread that keeps finding it free     *)
(* gets it; and the display handler accepts a connection in the end.       *)
(* Nothing obliges dxgkrnl to start or stop the device or the provider to  *)
(* fail.                                                                   *)
(***************************************************************************)
Fairness ==
    /\ WF_vars(InitPVChildren \/ InitProvider \/ AllocateWorkItem \/ FinishStart)
    /\ \A c \in Callbacks : WF_vars(ProcessHandlerError(c))
    /\ \A t \in Threads :
          /\ SF_vars(TestRequest(t))
          /\ WF_vars(QueueItem(t) \/ MarkPending(t))
    /\ WF_vars(\E w \in Workers : RunWorkItem(w))
    /\ \A w \in Workers :
          /\ SF_vars(ReleaseRequestQueue(w))
          /\ SF_vars(EnterRecreate(w))
          /\ WF_vars(WorkerDestroy(w) \/ WorkerNull(w) \/ WakeUp(w)
                      \/ WorkerRegisters(w))
          /\ WF_vars(WorkerConnects(w) \/ WorkerCannotConnect(w))
          /\ SF_vars(WorkerConnects(w))

FairSpec == Spec /\ Fairness

-----------------------------------------------------------------------------
(***************************************************************************)
(* Properties                                                              *)
(***************************************************************************)
\* The type of every variable of the device extension this module models.
TypeOK ==
    /\ pnp \in PnpPoints
    /\ started \in BOOLEAN
    /\ starts \in 0 .. MaxStarts
    /\ stops \in 0 .. MaxStops
    /\ children \in BOOLEAN
    /\ provider \in {"null", "up", "broken", "dangling"}
    /\ leaked \in BOOLEAN
    /\ ioWork \in Items \union {NoItem}
    /\ freed \subseteq Items
    /\ queue \in Seq(Items)
    /\ request \in {"not_pending", "pending", "invalid"}
    /\ pc \in [Threads -> ThreadPoints]
    /\ mx \in [Threads -> 0 .. MaxStarts]

\* A request has been handed to the kernel and no worker has acknowledged it.
Requested == queue # <<>> \/ \E w \in Workers : pc[w] = "release"

\* IoQueueWorkItem must not be given an item that is still in the queue:
\* QueueConnectionRequest and the worker's ReleaseRequestQueue keep one item
\* from being queued twice, whichever threads report errors and retry.
NoDoubleQueue ==
    \A i, j \in DOMAIN queue : i # j => queue[i] # queue[j]

\* m_queue_request_pending tells the truth: "pending" means that a worker is
\* still to come (or no error would ever be acted on again), and not_pending
\* with a request outstanding is seen only by the thread that is queueing it.
RequestTracksWork ==
    /\ request = "pending" => Requested
    /\ (Requested /\ request = "not_pending") => \E t \in Threads : pc[t] = "mark"

\* Somebody is on the way to recreate the provider.
Reconnecting ==
    \/ Requested
    \/ \E t \in Threads : pc[t] \in {"error", "request", "queue", "mark"}
    \/ \E w \in Workers :
          \/ pc[w] \in {"recreate", "destroy"}
          \/ pc[w] \in {"null", "create", "sleep"} /\ provider # "broken"

\* While the driver runs and has its work item, a provider that is broken or
\* missing is on its way to be replaced: an error reported while a request is
\* already pending, or while a worker is between ReleaseRequestQueue and
\* RecreateProvider, is absorbed by it and never forgotten.
ReconnectAssured ==
    (started /\ ioWork # NoItem /\ request # "invalid" /\ provider # "up")
        => Reconnecting

\* RecreateProvider destroys the object m_provider points to once: while no
\* stop is under way (CleanUp destroys it too, and takes no mutex), no worker
\* destroys a provider that another has destroyed or set to NULL, and none is
\* overwritten while it is connected.
DestroyOnce ==
    stops = 0 => \A w \in Workers :
        /\ pc[w] = "destroy" => provider \in {"up", "broken"}
        /\ pc[w] = "null" => provider = "dangling"
        /\ pc[w] = "create" => provider = "null"
        /\ ~leaked

\* Once CleanUp has marked the request invalid no worker is inside
\* RecreateProvider and none can get in; and the item a thread is about to
\* queue has not been freed by CleanUp in the meantime.
CleanUpFencesWorkers ==
    /\ request = "invalid" => \A t \in Threads : pc[t] \notin Critical
    /\ \A t \in Threads : pc[t] = "queue" => ioWork \in Items \ freed

\* A provider that breaks is replaced by one that is up, and a started driver
\* that lost its provider altogether gets one back, unless the device is
\* stopped first.
ProviderReturns ==
    (provider = "broken" \/ (started /\ provider = "null")) ~> (provider = "up" \/ stops > 0)

\* bdd.cxx:165 "Make sure there's nothing queued up before shutting down":
\* a work item that CleanUp has freed is not in the kernel's queue.
FreedItemNotQueued == \A i \in DOMAIN queue : queue[i] \notin freed
=============================================================================
