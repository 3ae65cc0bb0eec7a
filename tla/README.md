# A verification project for glasswddm

glasswddm is a Windows display-only miniport driver (WDDM) for a Xen guest. A
*display handler* in another domain tells it over IVC which displays the guest
should have; the driver shows them to dxgkrnl as hot-pluggable monitors. This
directory holds TLA+ models of the driver's own logic, the TLC configurations
that check them, and proofs about them that TLAPS checks.

Paths below are those of the repository: `bdd.cxx`, `bdd.hxx`, `bdd_dmm.cxx`,
`bdd_ddi.cxx`, `blthw.cxx`, `bltfuncs.cxx`, `PVChild.cpp` and `PVChild.h` are in
`src/src/`. `MAX_CHILDREN`, `MAX_VIEWS` and `PV_MAX_DISPLAYS` are one number,
six; the models call it `N`.

To check a run: `tlc -config Provider.cfg Provider.tla` (the run's module is
named in `PROJECT.json`). To check the proofs: `tlapm ProviderProofs.tla`.

## 1. Inventory

### Who calls the driver

| Thread | Calls | Serialised by |
|---|---|---|
| dxgkrnl, PnP and power | `StartDevice`, `StopDevice`, `SetPowerState`, `RemoveDevice` | dxgkrnl, one at a time |
| dxgkrnl, mode setting | `EnumVidPnCofuncModality`, `CommitVidPn`, visibility, active path | dxgkrnl, one at a time |
| dxgkrnl, present | `PresentDisplayOnly` | the child's `_fb_mutex` |
| dxgkrnl, pointer | `SetPointerShape`, `SetPointerPosition` | `_cursor_mutex`, which nothing else takes |
| dxgkrnl, polling | `QueryChildStatus`, descriptors | nothing |
| IVC library | the display list, a request to add a display, the error of a display, the error of the provider | `DisplayHelperMutex` for the adding of a display and the error of a display; else nothing |
| system worker | `dh_deferred_connect` | `m_dh_mutex` |
| the kernel's DPC | `DpcRoutine` | one at a time |

### Components

| Component | State | Operations | Hard because |
|---|---|---|---|
| Connection to the display handler (`bdd.cxx`) | `m_provider`, `m_io_work`, `m_queue_request_pending`, `m_dh_mutex`, `DriverStarted` | start, stop, fatal error, deferred reconnect, retry after five seconds | errors, workers and a stop race; the pointer is tested, destroyed, nulled and recreated in steps; a stop frees the work item |
| Hot-plug reporting (`PVChild.cpp`, `bdd.cxx`) | `_connected`, `_pending`, `FrameBufferIsActive`, the DPC | four functions that change `_connected`, `UpdateConnection`, the DPC, the poll | a flag is set by threads and cleared by a DPC |
| Size hints (`PVChild.cpp`) | `display_hints` | the host's list: release, store; lookup; clearing at a stop | released slots keep their contents and are reused and looked up |
| Children and displays (`PVChild.cpp`, `bdd.cxx`) | for each child its key, display, port, buffer type, connection | list, request to add (mode set, reconnect, replace, create), error of a display | a request may fail half-way, be repeated, come out of order; two lookups of the same thing |
| VidPN enumeration and commit (`bdd_dmm.cxx`) | what is borrowed from dxgkrnl | two functions with some thirty calls that may fail | each failure leaves another set of objects to be given back |
| Current modes and mode lists (`PVChild.cpp`, `bdd_dmm.cxx`, `bdd.cxx`) | `_available_resolutions`, `DispInfo`, the display's resolution | rebuilding the list, enumerating, committing, the host's mode set | Windows and the host both set the mode; the list is rebuilt from two lists at once |
| Source visibility and active paths (`bdd_dmm.cxx`, `bdd.cxx`) | `TargetId`, `Rotation`, `SourceNotVisible` in `m_CurrentModes` | the commit of a path, showing and hiding a source, a new rotation | one array is indexed by sources and by targets; nothing clears an old path |
| Present (`bdd.cxx`, `blthw.cxx`) | `FrameBuffer.Ptr`, `_display` | tests, copies and reports of a present; `MapFramebuffer` | the framebuffer is replaced, and the display refused, while a present may use it |
| Power (`bdd.cxx`, `PVChild.cpp`) | power states, `_blanked`, `_connected` | adapter and monitor power, blanking, wake | a resume connects children, beside callbacks that disconnect them |
| Bit copies (`bltfuncs.cxx`) | none | copies of rectangles in four rotations | addresses are computed from far corners, with negative pitches |
| System display (`bdd.cxx`) | none of its own | the screen's size, the writing of a picture at a bugcheck | the same, with an offset |
| Pointer (`bdd.cxx`, `PVChild.cpp`) | `POINTER_BUFFER` | shape, position, mask | `_display` is read before the connection is tested |
| DDI entry points (`bdd_ddi.cxx`), escape, EDID and descriptors, registry, memory and logging | little or none | forwarding, formatting, kernel calls | |

How they interact: the callbacks of the IVC library change the hints and the
children, and through `UpdateConnection` report to dxgkrnl; dxgkrnl answers with
an enumeration of the modes of the children and a commit, which sets a mode of
a child's display; a broken provider disconnects all children and has the
connection recreated, after which the display handler lists its displays anew.

What makes each component correct:

* *Connection*: no request is queued twice; none is forgotten; a provider is
  destroyed once and never overwritten; a stop fences the workers off; a broken
  provider is replaced.
* *Hot plug*: Windows is told only states a child is in, and is told in the end, unless
  dxgkrnl refuses the last indication.
* *Hints*: the table is a map from keys to sizes.
* *Displays*: a key has at most one display, both lookups find it, it is big
  enough, a connected child has one, and one in use is not replaced.
* *VidPN*: what is borrowed is given back, once, in order.
* *Modes*: the list is the base list and at most one more entry; what the host
  asked for can be chosen; Windows and the display have the same mode.
* *Paths*: a source is presented to one of its targets, turned as Windows wants it,
  and is not hidden because another source was.
* *Present and power*: a present copies to memory that is there; no operation uses a
  display that is gone; a source that is shown is not left dark.
* *Copies*: each pixel arrives in its place, whichever way the screen is turned, and
  nothing beside the screen is written.

## 2. Modules

| Module | Models | Composition |
|---|---|---|
| `Provider` | the connection and its recreation | |
| `ProviderProofs` | theorems about it | extends `Provider` |
| `Hotplug` | connection states, pending flags, the DPC, polling | refines `ConnectionView` |
| `ConnectionView` | what hot plugging promises | abstract |
| `HotplugProofs` | theorems, the refinement's safety part among them | extends `Hotplug` |
| `DisplayHints` | the table `display_hints` | refines `HintMap` |
| `HintMap` | a map from keys to sizes | abstract |
| `DisplayHintsProofs` | theorems, the refinement among them | extends `DisplayHints` |
| `Displays` | children and displays | extends `DisplayHints`: the two share the host's list, and a hint may destroy a display |
| `DisplaysProofs` | theorems about it | extends `Displays` and `DisplayHintsProofs`, whose lemmas about lookups it uses |
| `EnumVidPn` | `EnumVidPnCofuncModality` | |
| `CommitVidPn` | `CommitVidPn` | extends `EnumVidPn`: dxgkrnl calls one or the other |
| `Paths` | targets, rotations and visibility of the sources | extends `CommitVidPn`, whose steps store them |
| `PathsProofs` | theorems about the three, the composition among them | extends `Paths` |
| `MCPaths` | the symmetry of the views | extends `Paths` for TLC |
| `Modes` | mode lists, the committed and the shown mode of one child | |
| `MCModes` | the base list of `PVChild.h` and sizes to ask for | instance of `Modes` for TLC |
| `ModesProofs` | theorems about `Modes` | extends `Modes` |
| `Screen` | presents, commits, visibility, pointer and power against the host, for one child | |
| `ScreenProofs` | theorems about `Screen` | extends `Screen` |
| `Blt` | `BltBits`: which pixel goes where | operators |
| `Frame` | the way of a pixel from Windows' surface to the host's screen, and the bugcheck picture | extends `Blt` |
| `FrameProofs` | theorems about `Frame` and `Blt` | extends `Frame` |

Definitions named "Mutant" in a comment are not used by any specification. Each is
a plausible mistake in the definition that follows it, and with it in that
definition's place some property fails; `PROJECT.json` lists which.

### Provider

`pnp` is where dxgkrnl's PnP thread is in `StartDevice` or `StopDevice`, `pc[t]`
where each callback or worker is. `m_dh_mutex` is not a variable of its own: a
thread holds the mutex it has read (`mx[t]`) while it is at a point in
`Critical`. A step ends wherever another thread can see or change something: a
read of `m_provider`, its `destroy`, its being set to NULL and its recreation
are four steps, with and without the mutex as in the code. `CleanUp`'s loop
takes the mutex at every turn (`CleanUpWorkItem`); what it does after the loop
takes none. `provider` is `dangling` between a destroy and the NULL, which is
where a second destroy or a use would be one of freed memory.

The walk of `CleanUpChildren` over the children is one step. The library runs
error callbacks only for a provider that exists.

### Hotplug

A thread that changes `_connected` has two more steps to go: the flag and the
DPC. The DPC walks over the children in up to three steps each: it reads the
state (and sets `FrameBufferIsActive`), tells dxgkrnl, and clears the flag.
The telling may fail (`DpcIndicateFails`): the code logs that and clears the flag all
the same. `heard` is no variable of the driver. It remembers, for each child, that its
last report was refused (`missed`), and that it has changed since, so that another is
due (`changed`). `Settled` claims `FrameBufferIsActive` in any case, and Windows' view
unless the last report was refused. `ConnectionView` says the same of what Windows is
promised: it may `Miss` a report; it may `Lose` a child until the next is heard (a poll
that finds `FrameBufferIsActive` and `_connected` at odds answers "disconnected"); and it
catches up with a child whose last report it has not missed (`CatchesUp`).

`MultiProcessor` says whether threads run beside the DPC. On a uniprocessor the
DPC's priority keeps them from it. `EarlyPlug` says whether a child may change
before `StartDevice` sets `DriverStarted`, from when on `UpdateConnection` acts.

### DisplayHints and Displays

`dpcb_host_displays_changed` first releases the slots of displays that are not
listed any more, which also disconnects the child *of the slot's index*
(`ListChanged`), then goes through the list (`HintStored`, `HintRefused`), one
display a step. `AddDisplay` is `dpcb_add_display_request` under
`DisplayHelperMutex`, with the four ways it may go; `Creations` holds every
outcome of `dp_create_display`. A child's `_buffer_type` and
`_buffer_needs_resize` are not initialised by the constructor, so they start with
any value (`Unset`). Sizes stand for numbers of bytes.

### EnumVidPn and CommitVidPn

`ptr` is the set of variables that are not NULL (what the cleanup goes by) and
`held` counts what is really borrowed; the two may differ, and that is what the
properties are about. One step is one call of dxgkrnl and the code up to the
next. Assumed: the releases of the cleanup succeed (the code asserts that);
`pfnAcquireNextPathInfo` that fails or has no more paths sets its variable to
NULL; the mode infos created inside `AddAvailableSourceModes` and
`AddAvailableTargetModes` are balanced there.

### Modes

One child. `modes` is `_available_resolutions`, `offered` what Windows was last
given of it, `disp` the size in `DispInfo` (what Windows draws), `shown` the
resolution of the PV display. `NewSize` and `Rebuilt` are
`update_available_resolutions`: the end of the new list is looked for in the
list as it is, its entries are taken from `base_disp_list`. `apart` remembers why
`disp` and `shown` may differ, until the next display or the next commit that
succeeds. A commit and a callback of the provider are taken
not to overlap (`Screen` interleaves them, without sizes); pitch, `SrcModeWidth` and
the inactive framebuffer (reported after the mode is set) are left out, and the
rotation is in `Paths`. Byte counts are taken not to
overflow 32 bits, which holds for any size below 32768 x 32768.

### Paths

`target` is indexed by sources, `rotation` and `hidden` by targets, as the three
fields of `m_CurrentModes` are used. Each step of a commit is the step of
`CommitVidPn` and, in `SetPath` and `Failure`, what `SetSourceModeAndPath` stores: the
target first, the rotation once the mode has been set; a failure may come before,
between or after. `topology`, `wanted` and `shown` are no variables of the driver:
they are what Windows knows, with which the properties compare the driver's. A
source's old paths are withdrawn when a commit for it begins, and those of a source
whose targets are taken over are withdrawn too. dxgkrnl may show or hide any source, one
without paths among them: the code does not ask, and goes by the last `TargetId`.

`TurnedAsWanted` and `ShownIsPresented` are action properties, since the code breaks what
they are about in one kind of step each, and such a step should not excuse what comes
later. The first excepts the very update of a rotation between unlike indices
(`Misplaces`); the second, the hiding of a target that a source without paths still
has stored. In every other step what is turned right stays so, and what is shown is
not hidden.

### Screen

Three threads: `"present"` and `"windows"` (every other call of dxgkrnl: it makes one
at a time of those that touch a child's display) and `"host"` (the callbacks of IVC,
which `DisplayHelperMutex` keeps apart), and the DPC. A thread that is at a point of
`InMutex` holds `_fb_mutex`. A critical section of which nobody without the mutex can
see the middle is one step. `blank_display`, `register_display` with `MapFramebuffer`,
`set_cursor_state` and the pointer's read of `_display` take no mutex, and are split
where another thread may come between. `reset_guest_mode` is shared by the
host's requests and by the power operations, and so is one set of actions with the
thread as parameter.

`Use` is a dereference of `_display`: at one that does not exist the state `"crashed"`
is entered. `overlap` is no variable of the driver. It remembers that an operation of
Windows has begun on a child that was not connected any more, or was going on when
the host refused the display, or that Windows and the host have blanked at the same
time. It forgets that when the child gets a new display with nobody at work on the old
one (`Undisturbed`). The code has no lock against these; the properties say that nothing else
is needed for a crash, a lost framebuffer or a dark screen.

`active` is `FrameBufferIsActive`, `told` what Windows believes; they differ when an
indication fails, and Windows begins its operations by what it believes. A resume from
D3 resets `shown`: by the comment at `bdd.cxx:269` the source is not visible then, and
`VisibleIsLit` asks nothing of it until Windows shows it again. `blank_display` is
modelled as if `DH_CAP_BLANKING` were defined, which no file of the repository does.

### Blt and Frame

`Blt` translates `GetRowStart`, `GetPitches` and the two copies that occur for surfaces
with 32 bits per pixel into sets of pairs of addresses, in pixels. `Turned` is what
they should amount to: quarter turns of a picture, defined without addresses.

In `Frame` a cell of memory holds no colour but which pixel of which picture it shows,
and `Aged` takes that away when Windows draws over the pixel. So "the framebuffer
shows what Windows drew" is an equation between a cell and a pixel. `todo` is the
rectangles of the present that is going on, `copied` whether the first is in the
framebuffer already, `reports` the regions `InvalidateRegion` has named and the host
has not read. `Memory` has `Guard` cells before and after the framebuffer.

## 3. Runs

| Run | Checks | Shows |
|---|---|---|
| `provider` | `TypeOK`, `NoDoubleQueue`, `RequestTracksWork`, `ReconnectAssured`, `CleanUpFencesWorkers`, `DestroyOnce`, `ProviderReturns` | errors, reconnections and a stop race; a provider is destroyed once, none leaks, and one that breaks comes back |
| `provider_freed` (violation) | `FreedItemNotQueued` | a stop frees the work item that is still queued |
| `hotplug_up` | `TypeOK`, `PendingHasDpc`, `Settled`, `KeepsView` | hot plugging on one processor, where any indication may fail, implements `ConnectionView`, liveness included |
| `hotplug_lost` (violation) | `SettledOnceStarted` | on several processors a change is lost |
| `hints` | `TypeOK`, `LookupIsCurrent`, `RoomForAll`, `ImplementsMap` | the table is a map, and never full |
| `displays` | `LookupsAgree`, `FramebufferFits`, `ConnectedHasDisplay`, `LiveDisplayKept` | children and displays stay consistent through failures |
| `displays_list` (violation) | `RemovedByList` | the wrong child is disconnected |
| `vidpn` | `PathsTypeOK`, `GivesBack`, `SuccessIsClean`, `PresentsOnPath`, `TurnedAsWanted`, `ShownIsPresented` | all failure paths of enumeration and commit, and what a commit, failed ones among them, leaves to be presented |
| `modes` | `TypeOK`, `BaseFirst`, `ModeAgrees`, `RequestedOffered` | any sequence of sizes, commits and mode sets |
| `modes_fits` (violation) | `OfferedFits` | modes are offered for which the framebuffer has no room |
| `screen` | `TypeOK`, `PresentTargetLives`, `ConnectedIsMapped`, `CrashNeedsOverlap`, `VisibleIsLit`, `FramebufferKept` | Windows and the host act on one child at the same time |
| `frame` | `CopiesTurn`, `FrameInPlace`, `OnlyScreenWritten`, `HostShowsFrame`, `BugcheckInPlace` | pixels arrive in their places on a turned screen, and nowhere else |

### Bounds, and why they are enough

* `Callbacks`, `Workers`: two each. Two callbacks race for the flag, two workers
  for the provider; a third of either meets the same mutex. `ProviderProofs`
  removes the bound for what it proves. `MaxStarts = 1`: see the observations;
  `MaxStops = 1`: the device is stopped or never, at any moment.
* `Hotplug`: two children (one the DPC has passed, one it has not) and two threads
  (one may set a flag while the other is about to queue). `HotplugProofs` has
  any number.
* `DisplayHints`: two slots, three keys, two sizes: a table that is full, a key that
  comes back to another slot, a stale slot before a present one.
  `DisplayHintsProofs` has any number.
* `Displays`: two children, two keys (the windowed one and another), two sizes and two
  ports. A child can have either key, none, or the key of a failed request; a hint
  can outgrow the framebuffer of the display that is not windowed; a request can
  come for the port a display is connected to and for another. Two values stand for
  more than they are, to keep the run short: a child that never had a port has
  `p1` (it has no display, so its port is not looked at), and both sizes fit in an
  HD window (the kinds of a windowed buffer are those of run `hints`).
* `vidpn`: three paths: the first, one between, the last. Three sources and targets: a
  target may pass from one source to another while a third has paths of its own.
  They are interchangeable (no action or property names one), which the symmetry
  uses. The enumeration, which touches nothing of `Paths`, is explored only before the
  first commit.
* `Modes`: the five entries of the base list; sizes equal to an entry, between two,
  higher than the entry of as many pixels, above all, above 4K.
* `Screen`: at most four displays are referred to at a time: the child's, the one whose
  framebuffer is mapped, a present's and a pointer operation's. The fifth is the new
  one, so five stand for any number (`ScreenAssumption`).
* `Frame`: a screen of 3 x 2, so that sides differ and a turn shows; both pitches
  greater than the sides, and different; a guard longer than a row. Two
  rectangles at a time: one may cover the other, and one may be copied while
  the other waits. `FrameProofs` has any sizes.

Deadlock is checked in all runs but those of `Provider`, where a failed start or
the last stop ends the device's life, and `screen` and `frame`, where a crash or a
bugcheck ends everything.

### Fairness

* `Provider!Fairness`: the kernel runs each runnable thread (weak fairness of its
  steps). A `FAST_MUTEX` hands over to its waiters, so taking it is strongly fair.
  The display handler accepts a connection at last, if it is tried for ever
  (strong fairness of `WorkerConnects`). Nothing obliges dxgkrnl to start or stop
  or the provider to fail.
* `Hotplug!FairSpec`: a queued DPC runs (weak); a thread in `UpdateConnection`
  goes on though DPCs interrupt it again and again (strong). No report and no poll
  need ever happen.

## 4. Proofs

All theorems hold for every value of the constants that the modules' assumptions
and the theorem's own allow.

| Module | Theorem | Establishes |
|---|---|---|
| `ProviderProofs` | `TypeCorrect`, `NeverQueuedTwice`, `PendingIsTrue`, `InvalidFences`, `ProviderDestroyedOnce` | the five invariants, for any number of threads, starts and stops; all but `DestroyOnce` up to the second start |
| `ProviderProofs` | `NoErrorForgotten` | `ReconnectAssured` up to the second start, if no error comes before the work item is allocated |
| `HotplugProofs` | `TypeCorrect`, `NeverStranded` | any number of children and threads, any machine |
| `HotplugProofs` | `SettledOnUniprocessor`, `ToldTheTruth` | one processor, changes only after the start; the second is the refinement of `ConnectionView!Safety` |
| `DisplayHintsProofs` | `TypeCorrect`, `LookupCorrect`, `TableIsMap`, `AlwaysRoom` | any table; `TableIsMap` is the refinement of `HintMap`, `AlwaysRoom` the action property `RoomForAll` |
| `DisplaysProofs` | `OneWayOrTheOther`, `NeverTooSmall`, `NeverWithoutDisplay`, `InUseIsKept` | the four properties of `displays`, any number of children, keys and ports |
| `ModesProofs` | `TypeCorrect`, `RebasedOnBase`, `ModesAgree`, `Offered` | any base list, any sizes |
| `PathsProofs` | `PathsIsCommit` | each behaviour of `Paths` is one of `CommitVidPn` |
| `PathsProofs` | `EverythingGivenBack`, `CleanupOnlyAfterError` and the two of these names that end in `OnPaths` | what is borrowed from dxgkrnl, for any number of paths; for the two functions by themselves and for `Paths` |
| `PathsProofs` | `PathsTypes`, `PresentedOnItsPath`, `PresentedTurned`, `ShownStaysPresented` | the other four properties of `vidpn`, any number of views and paths |
| `ScreenProofs` | `TypeCorrect`, `PresentsLive`, `ConnectedMapped`, `NoCrash`, `VisibleLit`, `PresentsKeep` | the six properties of `screen`, any number of displays |
| `FrameProofs` | `CopiesAreTurns`, `PresentsArrive`, `StaysOnScreen`, `HostUpToDate`, `BugcheckArrives` | the five properties of `frame`, any screen, pitches and number of rectangles |

The inductive invariants:

* `ProviderProofs!IndInv`. That an item is not queued twice needs to know that there
  is one request in all, whether it is in the kernel's queue or with a worker that
  has not acknowledged it (`OneRequest`); that needs what a thread between its
  test of the flag and its setting knows (`Queueing`), and that needs mutual
  exclusion, for which every thread must mean the same mutex (`OneMutex`). A second
  start replaces the mutex, which is why the theorems hold up to it (`starts <= 1 => ...`);
  with `MaxStarts = 2` TLC finds an item that is queued twice.
* `ProviderProofs!OwnerInv`, on top of `IndInv`. `DestroyOnce` speaks of one step, and
  `m_provider` is tested, destroyed, nulled and recreated in four. It holds because the
  pointer belongs to the worker that is between them (`OwnProvider`): a callback only
  marks the provider broken. Once `StopDevice` has freed the work item it takes the pointer
  without asking the worker, and nothing is claimed of it any more. `StartUp` is needed
  because `StartDevice` stores the first provider without the mutex. A second start comes
  only after a stop (`Starting`), so `DestroyOnce` needs no bound on starts. With `OwnerInv`,
  `ReconnectAssured` is inductive: a callback that finds the flag set may drop its error,
  since by `RequestTracksWork` the request that set it is still to look at the provider;
  and while a stop touches the provider there is no work item (`Stopping`). It is false
  with `EarlyErrors`, which is an observation below and no matter of the proof.
* `HotplugProofs!UpInv`. `Settled` is not inductive: while the DPC is at a child,
  the flag is about to be cleared, so one has to know that what it has read is
  still true (`DpcReadsTruth`), which is where the single processor is used, and
  that a child Windows sees has an active framebuffer, unless its last report was
  missed (`SeenIsActive`), for polls: what one may tell Windows else is `Lose`.
* `DisplayHintsProofs!HintInv`. The lookup does not skip released slots; it is right
  because a present slot is the first with its key (`FirstOfItsKey`). A slot is
  reused only if no present one has the key, and it is the first free one, and so
  before any stale slot of the same key that is free.
* `DisplayHintsProofs!RoomInv`. A slot is found for each display of a list because the
  keys of the present slots and of the rest of the list are together no more than `N`
  (`Named`): a new list leaves only slots with its own keys, and storing one moves
  its key from the list to the table. If no slot were free and none had the key of the next
  display, `N` slots would have different keys (`FirstOfItsKey`) among `N - 1`. After a stop
  the table is cleared while a list may go on, and nothing is counted until the children
  are made again.
* `ModesProofs!ListInv`. A list that ends at the last entry of the base list or one
  after it is rebuilt to one that does; that its end is defined at all is that a
  non-empty set of positions has a first (`LeastOf`).
* `DisplaysProofs!ChildInv`, on top of `HintInv`. The two lookups, by key and by
  display, agree because a child with a display has that display's key and is the
  first that has it (`KeysAgree`, `FirstShows`): a later child may keep the key of a
  creation that failed. That the framebuffer fits needs the table's invariant: it
  is made for the size the lookup recommends, and the hint is the size that is stored.
* `PathsProofs!VidPnInv`. `GivesBack` speaks of the end of a call. On the way there
  `Counted` says that a resource is borrowed once if its variable is not NULL and not at
  all if it is. Borrowing into a variable that is not NULL would break that, so `LoopHas` and
  `CommitHas` say which variables are NULL at each call: at the head of the loop those of
  the source and of the target are, and in the target's calls those of the source may be
  or not, as its mode is pinned or not. `ModeHasSet` makes the order of the cleanups, modes before sets, the right one.
* `PathsProofs!PathsInv`. That a source's stored target is one of its own (`Stored`) is kept
  by a commit for another source because a target belongs to one source only, the
  targets still to be committed included (`OneSource`); a failed commit has stored its target
  under a source whose paths are withdrawn. `ShownIsPresented` needs that a source that
  is shown is not the one that is being committed, as its target changes meanwhile, and has
  paths (`ShownHasPath`): then its target is its own, and hiding another source that has
  paths does not hide it. `TurnedAsWanted` needs `OneSource` again: a rotation is stored
  under the path's target, which is no other path's. Since `PathsIsCommit`, what `VidPnInv` knows is at hand in
  `PathsInv`'s steps and is not proved again.
* `ScreenProofs!IndInv`. `PresentTargetLives` needs that the mapped framebuffer is the
  display's whenever the child is connected or a request goes on (`AddressIsMapped`),
  and that a request for an existing display still has it (`RequestHasDisplay`).
  `CrashNeedsOverlap` needs that each operation that has passed its test has a display
  to use (`UsedHasDisplay`, `HeldLives`).
* `ScreenProofs!LitInv`, on top of `IndInv`. `VisibleIsLit` excepts the moments in which an
  operation is under way, so it has to be known that the operation that darkened the
  display, or a reset of the guest's mode, is still to light it (`DarkIsPassing`). Each
  of them lights it only if `_blanked` says that it is dark, which is `DarkIsBlanked`; that
  the store of `_blanked` after `blank_display` stores the truth is `LitIsNotDark`.
* `FrameProofs!IndInv`. `FrameInPlace` says nothing of a rectangle that has been
  copied and is still the first of `todo`, so `HeadInPlace` does. That a copy moves
  just the pixels it should is arithmetic on addresses: `AddressOf` says which pixel an
  address is, `AtInjective` that no two pixels of the screen share one, `BltIsTurn` that
  the steps `CopyBitsGeneric` makes are the quarter turns. The provers cannot instantiate
  the operator parameter of `Overwritten`, so the proofs expand it where it is used.

Only model-checked: liveness (`ProviderReturns`, and of `KeepsView` the part that needs
fairness), which is beyond the prover. Every other property of the runs that pass is a
theorem. Some theorems assume what the runs do: no second start and no `EarlyErrors` where
`ProviderProofs` says so, one processor and no `EarlyPlug` where `HotplugProofs` does. These
are not matters of the proofs: without them the code breaks the properties, as section 5
says, the run `hotplug_lost` shows, and TLC finds in `provider` with `EarlyErrors` or with two
starts and two stops (of its invariants only `DestroyOnce` is left then, even type
correctness is not: a thread that waits for the first mutex queues a work item that the
second stop has freed and set to NULL).

## 5. Findings and observations

Recorded as findings, each shown by a run:

* `provider_freed`: `CleanUp` marks a pending request invalid and, at its next turn,
  takes that for "not pending" and frees the queued work item.
* `hotplug_lost`: the DPC clears the flag after it has read the state.
* `displays_list`: the index of a hint is used as the index of a child.
* `modes_fits`: a size that is found in the list ends the rebuild, and the bigger
  entries after it stay on offer though the framebuffer has no room for them.

Met while modelling, and part of the models or left out of them as said:

* A stop while the provider is missing keeps the children, and the next start
  takes the branch commented "Connected to Display Handler" (`bdd.cxx:136`), which
  creates neither a provider nor a work item. A restart also replaces
  `m_dh_mutex` under its waiters, and an invalid request stays invalid.
* An error between `CreateProvider` and the allocation of the work item
  (`EarlyErrors`) finds no item and is dropped; `ReconnectAssured` then fails.
* An indication that `DxgkCbIndicateChildStatus` refuses is logged and not repeated
  (`bdd.cxx:1136`): the flag is cleared, and Windows keeps its view until the child
  changes again or is polled. `FrameBufferIsActive` has changed already, so a poll
  between the child's next change and its report may tell Windows that it is gone.
* A child that changes before `DriverStarted` is set (`EarlyPlug`) is never reported.
* `dp_get_recommended_size` goes through "each of the /existing/ hint entries"
  (`PVChild.cpp:271`) but finds released ones as well.
* A request that comes before the error of the old port is dropped, where the
  comment (`PVChild.cpp:584`) says it is delayed.
* The overload of `dp_reconnect_display` that is used does not store the new event
  port; a later request may be refused for it.
* A creation that fails leaves the key on its child; after enough of them "All
  available devices are utilized".
* `_buffer_needs_resize` is never reset; a display that is replaced is not
  destroyed, and its error disconnects the child of the new one.
* A reconnection tells Windows of the child before it is known to succeed.
* "No entry is greater" (`PVChild.cpp`, `update_available_resolutions`) compares numbers
  of bytes: an entry that is wider or higher than the size, with fewer pixels, stays.
* `update_mode` returns `FALSE` for a mode that is too big, which `NT_SUCCESS` accepts;
  the commit goes on as if the mode had been set (`ModeAgrees` excepts it).
* A commit that meets an enforced, disconnected monitor returns without giving back
  the path, the mode and the mode set (`GivesBack` excepts it), and an empty target
  mode set that dxgkrnl does not take is forgotten.
* The rotation pivot is compared with `!=` (`bdd_dmm.cxx:379`) where its comment and
  the other pivots mean `==`.
* `CurrentModes` without memory has a number of modes and no modes.
* `sleep` (`PVChild.cpp:31`) multiplies in 32 unsigned bits, so its interval is
  positive: a time long past.
* `UpdateActiveVidPnPresentPath` stores the rotation under the source
  (`bdd_dmm.cxx:710`), where `SetSourceModeAndPath` stores it, and a present reads it,
  under the target (`TurnedAsWanted` excepts it).
* `TargetId` is never cleared (`bdd_dmm.cxx:594`): hiding a source without paths hides its
  old target, and with it the source that has that target now (`ShownIsPresented` excepts
  this). Of several paths of one source only the last commit's target is kept. A commit that fails may already have stored its
  target, and the rotation too if it fails because the framebuffer is inactive.
* Rotations "not specified" and "uninitialized" are accepted (`bdd_dmm.cxx:798`), and
  `GetRowStart` returns NULL for them; `Frame` has the four rotations only.
* A present that rotates reports the rectangle as it was before (`blthw.cxx:184`).
  Moves are copied from the surface without regard to where they come from, which is
  right, as the surface has them already.
* `SystemDisplayWrite` asks for `_fb_mutex` at a bugcheck, when its holder, if there is
  one, does not run any more.
* `MapFramebuffer` takes no lock, where a comment of the present (`bdd.cxx:657`) says it
  grabs the mutex "just in case IVC wants to change the frame buffer". Since the old
  display is not destroyed by a reconnection, a present that has read the old address
  copies to memory that exists. A present that begins after the host has refused
  the display, and before the DPC has told Windows, does not.
* `SetPowerState` tests `connected()` before `reset_guest_mode` sets it: a child
  disconnected in between is connected again, without a display if it was refused.
* After D3 each connected child is blanked, since visibility is "defined to be off for
  all targets" (`bdd.cxx:269`), and un-blanked by the next call: it comes back lit. No
  property sides with either. The power of a monitor
  is not set back by a display that is new to its child.
* Two threads that blank and un-blank together may leave the display dark with
  `_blanked` `FALSE`, and nothing will un-blank it until it is blanked again.
* A source made visible while its child is disconnected is skipped, and keeps
  `SourceNotVisible`; if the child is reconnected before the DPC runs, Windows sees
  no reason to show it again.
* The pointer operations read `_display` before they test `connected()`.
* A display that is replaced by a smaller one leaves the pitch and `SrcModeWidth` of the
  old one until the next commit.
* `BlackOutScreen` and `apply_cursor_mask` have no callers.

## 6. Not modelled, and the plan

Not modelled of the parts that are:

* *Lifetime*: `RemoveDevice`, `CleanUpChildren` and the destructor against a worker that
  sleeps, a DPC that walks over the children, and a second start. The code has no
  lock between them, so a model would mostly state its absence; the hazards are
  listed in `PROJECT.json`.
* A commit changes `DispInfo` before it takes `_fb_mutex` (`bdd_dmm.cxx:734`), and a new
  display's framebuffer is mapped without it: `Screen` interleaves them without
  sizes, `Modes` has the sizes and no interleaving.
* The support fields of `EnumVidPnCofuncModality`, which only dxgkrnl reads.
* The pixels of the pointer and its mask; the display information that is re-acquired
  after hibernation; which child's framebuffer the system display takes.

What could come next: a refinement that says in one small module what `Provider` promises
(a provider that is there, broken or on its way back); what a second start keeps of the
invariants (`MaxStarts = 2`, with two mutexes); `Screen` with sizes; `Lifetime`.

Left out for good: the entry points of `bdd_ddi.cxx` (forwarding after a test of
`DriverStarted`), EDID and descriptors (constant data), registry and adapter queries,
memory and logging (no state), the escape (sets a layout that only the advertised list
shows).
