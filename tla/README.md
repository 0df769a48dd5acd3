# HyperAC: formal models

TLA+ models of HyperAC, an anti-cheat system for a Windows game, checked with TLC
and partly proved with TLAPS. Paths are relative to the repository's `src/`.

## 1. The system

| Part | Where | State it keeps | What it does |
|---|---|---|---|
| Driver, control plane | `Kernel/entry.cpp`, `ioctl.cpp`, `create_*_notify.cpp`, `load_image_notify.cpp`, `ob_pre_operation.cpp` | `g_service`, `g_service_callback`, `g_game_name`, one `g_is_registered` per notify routine, `g_handle`, the device and its symbolic link; in the system's hands, the installed routines | `driverLoad`, `driverUnload`, the requests INITIALIZE and UNINITIALIZE |
| Driver, routines and delivery | the four `Dispatcher`s, `Kernel/service.cpp`, `threads.cpp` | `g_game_pid` | decides whether an event is about the game and starts a thread in the service with a copy of it |
| Driver, helpers | `Kernel/mmu.cpp`, `modules.cpp`, `manual_mapper.cpp` | table of allocations | pool allocations, module lookup, mapping an image into the game |
| Service | `Service/entry.cpp`, `callbacks.cpp`, `kernel.cpp`, `ioctl.cpp`, `server.cpp`, `scm.cpp` | `game::g_process_id`, the vectors of events, `g_last_internal_tick` | fetches the internal module from the server, binds to the driver, has it injected, sends a heartbeat every 4 s, takes callbacks in remote threads, shuts the driver down in an exception handler |
| Internal | `Internal/entry.cpp`, `service.cpp`, `integrity.cpp`, `vector.hpp`, ... | `g_service`, `g_service_callback` | in the game: heartbeat and integrity check every 100 ms, written into the service |
| Server | `Server/entry.cpp`, `handlers.cpp`, `queue.hpp`, `workers.cpp`, `db.cpp`, `storage.cpp` | the work queue, the workers; database and directory tree | answers one connection at a time, handlers run in workers; nothing calls `db.cpp` and `storage.cpp` yet |
| Bootstrapper | `Bootstrapper/entry.cpp`, `scm.cpp`, `process.cpp` | the system's service entry of the driver | recreates and starts the driver, starts service and game |

How they interact:

    Bootstrapper --SCM--> Driver <--DeviceIoControl-- Service <--TCP--> Server
                            |  events as threads in ^  ^ heartbeat, integrity
                            +-----------------------+  +---- Internal (in the game)

What is hard about each part, and what makes it correct:

* **Control plane.** A request runs in the thread of the process that sent it and no
  lock protects the driver's globals. Registrations and removals can fail one by one,
  nothing is rolled back, and what the driver believes (flags, handle) lives apart from
  what the system holds. Correct means: flags agree with the system, success means all
  four, nothing survives the image, nothing is installed before a target is known.
* **Routines.** They run in any kernel thread, at the same time, beside requests and
  beside the death of the service. Correct means: only the game is reported, the process
  event comes first, the service can always exit and is not touched afterwards, no thread
  is in the image when it goes.
* **Service.** Remote threads call `callbacks::Dispatcher` at once, the shutdown runs in
  whichever thread raised the exception, each buffer has one owner who frees it. The
  heartbeat compares two readings of a clock that others write and somebody may set.
* **Injection.** Server, service, driver and game take part, each call may fail, and the
  game may end at any point. Correct means: what runs is whole, the service's answer says
  whether `DllMain` ran, and nobody still holds the game.
* **Integrity check.** The memory it scans changes under it and its list grows meanwhile.
  Correct means: the list is exact for what stayed the same, and a turn keeps nothing in the
  game. In the service it keeps the patches of an event that was lost: nobody frees them.
* **Life cycle.** Bootstrapper and service of several launches create, stop and delete one
  entry in the system. Correct means: no launch is wedged by what another left.
* **Server.** The io thread waits for the workers by looking at a pointer in its own stack
  frame. Correct means: the queue loses, doubles and reorders nothing, replies are whole
  and freed, the io thread comes back.
* **Allocation table.** Sequential code with boundaries, and a loop over a table that
  its own body shortens. The only caller of `mmu::Allocate`, `modules::findKernelBase`
  (`Kernel/modules.cpp:11`), is called by nothing, so the table of this program is always
  empty; the model is of what `mmu.cpp` would do for a caller.

`PROJECT.json` lists every component with its status and every hazard with its line.

## 2. Modules

| Module | Models | Remarks |
|---|---|---|
| `Driver` | control plane | core |
| `Monitor` | routines and delivery, composed with `Driver` | every step of a driver request is a `Driver` action |
| `WorkOrder` | what the server's queue promises | abstract |
| `Server` | io thread, queue, workers, handlers | shown to implement `WorkOrder` |
| `Service` | the service process: start-up, event threads and their buffers, shutdown | the driver is two bits: routines installed, and recorded |
| `Heartbeat` | the internal module's reports, the tick, main's verdict | times as ages |
| `Injection` | the image from the server's file to a thread in the game | server client, mapper, `kernel::Inject`, `DllMain` |
| `Integrity` | the integrity check, its vector and its event | beside a changing memory |
| `Lifecycle` | the driver's entry in the service control manager, over several launches | Bootstrapper and service share `scm.cpp` |
| `Mmu` | the driver's allocation table | sequential |
| `MCDriver`, `MCMonitor`, `MCServer`, `MCService`, `MCHeartbeat`, `MCInjection`, `MCIntegrity`, `MCLifecycle`, `MCMmu` | instances for TLC | `MCDriver` and `MCMonitor` with symmetry sets |
| `DriverInv` | the inductive invariants of `Driver` | |
| `DriverProofs`, `ServerProofs`, `ServiceProofs`, `HeartbeatProofs`, `InjectionProofs`, `IntegrityProofs`, `LifecycleProofs`, `MmuProofs` | theorems | with the inductive invariants of the other modules; `Monitor`'s are in `DriverProofs` |

**Driver.** `loaded` and `link` are the image and its symbolic link; `os[k]` counts how
often the system holds the routine of kind `k`; `flag[k]` is `g_is_registered`, or
`g_handle # nullptr` for the object callback `"ob"`; `svc` and `cb` are `g_service` and
`g_service_callback`. `pc`, `op`, `at`, `who` say where each thread is, in which request,
at which of the callbacks, and in which process. A request is split at each access to a
global and each call into the system: `StartInit` (stores the callback), `Bind` (stores
the process), `Register`, `RegisterFails`, `SetFlag`; `StartUninit`, `Check`, `Clear`,
`Remove`, `RemoveFails`; `Complete`; `Load`, `StartUnload`, `FinishUnload`. `After` is the
order in which the `else if` chains visit the callbacks. `link` is `"stale"` when
`IoDeleteSymbolicLink` failed: every later load then fails. `Accepts` is the system's
side: it refuses a second object callback at the altitude and a process routine it
holds, but takes the image and thread routines again while its table has room.

**Monitor.** Adds processes (`proc`, `game`), kernel threads in which routines run
(`npc`, `ev`), the service processes (`alive`), the rundown references on them
(`rundown`, `held`) and `g_game_pid`. Each read of `g_game_pid` and `g_service` is a step.
The routines are `ReadGamePid`, `LookupGame`, `CompareGame`, then `Acquire`, `Post`,
`Release` of `invokeRequestCallbackEx`. `Post` is the attempt to deliver: the allocation
or the thread creation may fail and the event is lost. The system's promises are
external: `Call`, `Spawn`, `Exit`, `Observe`, `ExitService` (waits for references), and
`Drained` (removing a routine waits until nobody runs it). A routine is called only
while the image is loaded: a call into an unloaded image stops the machine, and the
question of the properties is whether one could happen.

**Server.** `io` and `cur` place the io thread, `queue` is `g_works`, `waiting` the
workers asleep on the condition variable, `wpc`/`job` a worker, `out[r]` the reply through
the pointer in `Dispatcher`'s frame: null, allocated (`"raw"`), size stored, all stored,
freed. The store into a freed reply is undefined behaviour: the process may go on or end.

**Service.** `pc[Main]` is main's place in `Service/entry.cpp`: `"stream"`, `"init"`,
`"registering"` (INITIALIZE in progress), `"wait"` for the game, `"inject"`, the heartbeat
`"loop"`, a message `"box"`. A callback thread has an event (`kind`) and goes from
`"dispatch"` to `"free"`; any thread that raises an exception goes through
`onRaisedException`: `"unit"`, `"removing"`, `"destroy"`, `"exit"`. `buffers` counts the
event buffers in the process: `Post`, of the driver or of the internal module, allocates
them and starts the thread; it may fail between the two. The image, thread and handle
events only differ in the vector they go to and are one kind, with the path lookup of
the first, which may throw. `torn` says that two threads were in `push_back` at once: from
then on an append may raise. `hooked` and `claimed` are what `Driver` says of the routines:
installed, and recorded so that UNINITIALIZE finds them. `loaded` is false from the start
if the Bootstrapper did not start the driver. UNINITIALIZE may not reach the driver (the
device does not open, or the request fails), and `scm::Destroy` may be refused; the handler
looks at neither result. `unsent` remembers the first. The end of the game is posted while
the routines are installed, whether or not its start was seen: the process routine looks
any process up by name while `g_game_pid` is empty.

**Heartbeat.** `tick` is `g_last_internal_tick`, `looked` the value main's `time(nullptr)`
returned, `held[c]` the one a report's thread has read and not stored yet. `time` is the
wall clock. The state holds ages (the clock now minus the time in question), so that a
second that passes adds one to each and a clock set by `d` adds `d`; ages beyond `Far`
compare like greater ones, and the tick's initial 0 is such an age. `Wake`, `LookAtClock`,
`Judge`, `Send` are the loop at the end of `main`, `SendReport`, `ReadTime`, `StoreTime` the
way of a report through `service::sendHeartbeat` and `callbacks::Dispatcher`. Reports can
overtake each other and be delayed for any time. The driver's answer, which main reads in
the same turn, is the result of one call and is left out.

**Injection.** `pc` is main's place in `streamShellcode`, in `kernel::Inject`, or inside the
driver in `manual_mapper::inject`. Sizes are in units of a section's share of the file.
`length` is what the service has of `file`: `TakeLength` takes the size modulo `Word`, as
the 16 bit field of the reply does. `id` says whom the game's process id names: the game,
nobody, or another process once the game is gone and no reference or handle is left.
`target`, `ref` and `rundown` are the process the driver is attached to and the two
references on it; `home` and `copied` say where the image is and how much of it. The driver
copies sections by the headers, not by `length`: one that lies behind the buffer is
undefined (`beyond`), and what runs then may as well end the game. `DllMain` does not look
at what `CreateThread` returns, so `returned` (it ran to its end, which is what main waits
for) and `module` (the detection thread exists) are two variables.

**Integrity.** `mem` is the game's executable and other sections in memory, `Original` the
value every byte has in the file: one value suffices, since the code only compares a byte
with its own counterpart. `storage` and `size` are the `vector` with its capacity, `PushBack`
one call of `pushBack` with the growth in it. `Scan` reads one byte; `Change` is any other
thread's write to the game. `CopyPatches` chooses what arrives in the service: nothing (the
block could not be allocated), an empty block (it could not be written), or the patches;
`list` is that block, which the event's handler frees (`callbacks::Dispatcher`) and which
stays when `PostEvent` loses the event. `Destroy` is the destructor at the end of the loop's body, which runs after the `Sleep`.

**Lifecycle.** `entry`, `driver` and `handle` are the system's: an entry is marked by
`DeleteService` and goes when the driver is stopped and the last handle closed (`Reap`); a
driver stops when no handle to its device is open (`device`). A launch has two agents, the
Bootstrapper and the session it starts; `pc` is the place in `WinMain` or in the service,
`sub` the place in `scm::Create`, `Start` or `Destroy`; `OnSuccess` and `OnFailure` are the
branches of `WinMain`. Every call may be refused, `QueryServiceStatus` (`PollFails`) and
UNINITIALIZE (`UnitFails`) among them, and a session may end at any point
without cleaning up; `mishap` remembers whom it happened to. The handle to the manager
itself is left out: nothing depends on it.

**Mmu.** `table` is `g_allocs` up to `g_alloc_count`, `chunks` is `g_chunk_count`, `capacity`
the room in the block behind `g_allocs`, `live` what the system has handed out. `Release`
is modelled a turn at a time (`cursor`), since `freeEx` shortens the table under the loop.
A pool allocation that fails stops the machine in the next `memset` or `memcpy` and is
left out. Nothing in the driver uses the table from two threads, and nothing that runs
puts a block into it. `Release` leaves every other block with the system (of `n` it frees
`n - n \div 2`), where its name and its caller, `driverUnload`, mean all of them; no property
asks for either, since no block of this program is concerned.

## 3. Runs

| Run | Instance | Shows |
|---|---|---|
| `driver_overlap` | 2 callers, 2 services, table of 2, requests overlap | `BoundBeforeInstalled`, `ProcessRoutineAccounted`, `HeldOnceStaysRecorded` |
| `driver_serial` | as above, one request at a time | `BookkeepingExact`, `FlagHonest`, `InitializeHonest`, `TargetMatched`, `UnloadClean` |
| `monitor_games` | 2 kernel threads, 2 process ids, 1 service, image events | `AnnouncedMatched`, `GameEventFirst`, `GamePidSettles` |
| `monitor_shutdown` | 1 kernel thread, 1 process id, 2 services, all events | `RundownBalanced`, `LiveTarget`, `NobodyInsideUnloadedImage` |
| `server` | 4 connections, 2 workers, fair | `ImplementsOrder`, `OneUrgent`, `RepliesReleased`, `ReplyWhole`, `QueuedIsHandled`, `AcceptsAgain` |
| `service` | 2 event threads, up to 2 lost buffers, fair | `BuffersAccounted`, `ExitUnhooked`, `GameOverCloses` |
| `service_errors` | 1 event thread; a violation | `ConnectionErrorsCaught` |
| `heartbeat` | 2 report threads, window of 2 s, a look every second, clock off by 1, fair | `AliveMeansHeard`, `DeadMeansSilent`, `GoneNoticed` |
| `injection` | files of 1, 3, 9 and 11 units, page of 2, word of 8, fair | `ModuleWhole`, `InjectHonest`, `NothingHeld`, `GameMayEnd` |
| `integrity` | 4 bytes, 3 of them code, 2 values, fair | `PatchesExact`, `EventWhole`, `TurnReleases`, `PatchReported` |
| `lifecycle` | 2 launches, any of their 4 processes meets a mishap, fair | `NoWedge`, `LaunchAloneSucceeds`, `SessionKeepsDriver`, `LaunchEnds` |
| `mmu_table` | chunks of 2, 5 blocks | `InBounds`, `TableExact` |

The type invariants are theorems (section 4) and take no run.

What the violation shows. `sendServer` wraps connect, write and read in `try` blocks, with
the comment "added tries cuz sometimes this crashes randomly" (`Service/server.cpp:8`).
`main` has registered `onRaisedException` as the first vectored handler
(`Service/entry.cpp:27`); such a handler runs before any catch clause is looked for, and
this one ends in `exit(0)`. So the first connection that fails closes the session, and
the `return false` behind the catch is never reached: the run is one step long.

Bounds. Where a theorem covers a property (section 4) the bounds of its run are no
restriction on the result; they are chosen so that the interesting cases happen.

* Two requests at a time are what a race needs; a third adds no new pair of adjacent
  accesses. A table of two notify routines lets a routine be installed twice and the
  table be full.
* In `monitor_games` the race for `g_game_pid` needs two new processes and two threads;
  one kind of later event suffices since the four routines read `g_game_pid` in the same
  way. In `monitor_shutdown` the target, not the race for the game, is the question, so
  one thread and one process suffice, and two services let a second one bind over the
  first. `RundownBound` stops the rundown counts where a rebind lets them drift. Without
  a rebind (`rebound`) it stops nothing: `rundown` counts the references to a service that
  is alive, at most one for each kernel thread, and neither a routine that delivers to a
  dead service nor one that releases it changes the count.
* `server` has enough connections for a critical request to arrive behind two ordinary
  ones with both workers busy. `main` starts one worker; two are checked.
* Two event threads let both close the session beside main, and one while the other is in
  the middle of its event; a lost buffer more or less changes only a count.
* In `heartbeat` two threads suffice for an older time to be stored over a newer one.
  `MaxSet` bounds how far the clock is set, `MaxPause` how long main pauses between its
  two reads; beyond `Window` plus both nothing compares differently. The times a thread or
  `Send` may take are not bounded.
* The files of `injection` are too short, whole, and more than a word: one whose rest is
  too short (9 leaves 1) and one whose rest is long enough (11 leaves 3).
* Three code bytes make the vector grow twice, and the data byte between them must be
  passed over.
* Two launches are one to leave something behind or to overlap, and one to meet the
  result; `MaxMishaps` is no restriction there, four processes being all there are.
* Two entries a chunk and five blocks make the table grow twice, also after a free.

Deadlock is checked in `integrity`, which goes on for ever. In all others the system
really may stop: connections, launches, blocks and the game come to an end, the process
ends, or a routine or link left behind by a refused removal stops everything.

Conditions in the properties. Each is a history variable of the model or a constant, so
that a run contains the behaviours it excuses.

* `~Overlap`: the service sends its requests from one thread in normal operation, and one
  at a time. With overlap the exact statements are false in this code (one routine
  installed twice under one flag, and one removal for both), which is why `driver_overlap`
  has weaker ones: the process routine, which the system takes only once, is always
  accounted for, and any other loses its record only after it was held twice. And two
  INITIALIZE requests that overlap may leave the callback of one service with the process of
  the other; `TargetMatched` is about requests one at a time, and about the time outside the
  two stores.
* `removeFailed`, `refused` in `Service`: the system refused a removal it could have done;
  the code goes on as if nothing happened. `refused` in `Injection`: it refused the
  rundown reference because the game was ending; the code releases it all the same.
* `left`: a service exited without UNINITIALIZE, as `Service/entry.cpp:47` does. `rebound`:
  a second service bound itself while a routine was delivering.
* `hasty`: the io thread saw a reply while its handler was still storing it, 10 ms being
  all that stands between them. `failed`: a handler returned without a reply.
* `unsent` and still `loaded`: UNINITIALIZE did not reach the driver, though routines were
  recorded, and `scm::Destroy` did not unload it either; the process then exits and the
  routines stay. One of the two is enough for nothing to stay (`ExitUnhooked`).
* `crossed`: an UNINITIALIZE overtook the INITIALIZE of main, which then installed
  routines that nobody removes.
* `behind`, `ahead`: how far the clock was set back and forward; `lag`: the longest a
  report's thread took between reading and storing the time. The verdict cannot be
  better than these.
* `beyond`: a section was read from behind the buffer. `touched`: bytes that changed
  during the scan, for which no exact answer exists.
* A lost event (`event.result = "lost"`): its patches stay in the service, as many as were
  found; `TurnReleases` says that nothing else does.
* `disturbed`: another launch's processes were active, or a stop was pending, when the
  launch began. `mishap` names whom the system refused something.

Fairness. Only weak fairness is used: a step that stays possible is taken.

* `server`: the io thread and each worker are system threads. The io thread's fairness
  includes `PeerGone`: a client that has connected sends what it announced or goes away.
  Nothing is assumed about connections being made.
* `service`: event threads and the exception handler; of main only the return from
  INITIALIZE, since nobody has to answer the service, start the game or close a box.
* `heartbeat`: main's loop, the report threads and time itself; nobody has to report.
* `injection`: main from the request on, the game's thread, and the end of an exit that
  nothing holds up; the server need not answer and the game need not end.
* `integrity`: the detection thread; memory changes when it likes.
* `lifecycle`: each agent's calls return and it is scheduled, a request to the device
  returns, and the system unloads a stopped driver whose device nobody has open; a
  session need never close, and none has to be killed.
* No step of the driver is assumed fair.

Every property has a mutant: an operator before the one it changes, in the same module,
with a comment that says which bug it stands for.

## 4. Proofs

Each theorem holds for every value of the constants under the assumption its module
names. An invariant of a run is seldom inductive; the module of its proof (for `Driver`,
`DriverInv`; for `Mmu`, `Mmu` itself) states the strengthening, in named parts.

| Module | Theorems | For |
|---|---|---|
| `DriverProofs`, of `Driver` | `TypeCorrect`, `BoundBeforeInstalledHolds`, `ProcessRoutineAccountedHolds`, `HeldOnceStaysRecordedHolds`; with requests one at a time `FlagHonestHolds`, `InitializeHonestHolds`, `TargetMatchedHolds`, `UnloadCleanHolds`, `BookkeepingExactHolds` | any callers, services and table size (`DriverAssumption`) |
| `DriverProofs`, of `Monitor` | `MonitorImplementsDriver`, `MonitorTypeCorrect`, `AnnouncedMatchedHolds`, `GameEventFirstHolds`, `GamePidSettlesHolds`, `RundownBalancedHolds`, `TargetKnownHolds`, `LiveTargetHolds`, `NobodyInsideHolds` | besides, any processes and any finite set of kernel threads (`MonitorAssumption`) |
| `ServerProofs` | `ServerTypeCorrect`, `OneUrgentHolds`, `RepliesReleasedHolds`, `ReplyWholeHolds`, `ServerImplementsOrder`, `HandledOnceHolds`, `NobodyStuckHolds` | any connections and workers (`ServerAssumption`) |
| `ServiceProofs` | `ServiceTypeCorrect`, `BuffersAccountedHolds`, `ExitUnhookedHolds` | any finite set of event threads (`ServiceAssumption`) |
| `HeartbeatProofs` | `HeartbeatTypeCorrect`, `AliveMeansHeardHolds`, `DeadMeansSilentHolds` | any threads, window, period and bounds (`HeartbeatAssumption`) |
| `InjectionProofs` | `InjectionTypeCorrect`, `ModuleWholeHolds`, `InjectHonestHolds`, `NothingHeldHolds` | any file sizes, page and word (`InjectionAssumption`) |
| `IntegrityProofs` | `IntegrityTypeCorrect`, `PatchesExactHolds`, `EventWholeHolds`, `TurnReleasesHolds` | any number of bytes, any sections and values (`IntegrityAssumption`) |
| `LifecycleProofs` | `LifecycleTypeCorrect`, `NoWedgeHolds`, `LaunchAloneSucceedsHolds`, `SessionKeepsDriverHolds` | any finite set of launches, any number of mishaps (`LifecycleAssumption`) |
| `MmuProofs` | `MmuTypeCorrect`, `InBoundsHolds`, `TableExactHolds` | any finite set of blocks and any chunk size (`MmuAssumption`) |

The arguments.

* **Driver.** `TypeOK` is not inductive: `Advance` looks up `After[op[t]][at[t]]`, which is
  only a callback if the request `op[t]` visits `at[t]`. `Placed` says so of every label.
  `BoundBeforeInstalled` needs `Announced`: a thread past `StartInit` has set `cb`, one past
  `Bind` has set `svc`, and neither is ever null again while the image lives; a load finds
  nothing installed. `HeldStep` shows of each step
  that a routine that is held once does not lose its record: a flag comes down only in the
  step that puts a thread between it and the removal, and a thread leaves that place only
  with the routine gone, the flag up or a failed removal noted. That is
  `HeldOnceStaysRecorded`, and with it `Accounted` (the process routine is held at most
  once and recorded) is inductive. For the serial properties `SerialInv`
  has: at most one thread is not idle (`Mutex`); who is in a request implies the image is
  there (`Present`); `Honest`, flag implies installed, with the two windows of Register and
  Unregister excepted; `InitSoFar`, which callbacks INITIALIZE has behind it; `GoneSoFar`
  and `Chain`, the same for the removals; `Exact`, that os and flag agree outside these
  windows. `TargetMatched` needs besides that the request between its two stores is the one
  that set the callback (`Matched`), which `Mutex` keeps.
* **Monitor.** Every step of `Monitor` is a step of `Driver` or leaves its variables alone
  (`MonitorStep`), so `TypeInv`, `Announced` and, without overlap, `SerialInv` hold in it
  and serve as facts. A busy routine's kind is installed (`Inside`), which with
  `UnloadClean` gives `NobodyInsideUnloadedImage`, and with `BoundBeforeInstalled`, for
  requests that overlap as well, that a routine never delivers to a null `g_service`
  (`TargetKnown`). Two routines are never at work on the start or end of one process
  (`Attended`), so whoever found `g_game_pid` empty may still decide about it, and whoever
  `g_game_pid` names bore the name and is announced or about to be (`Chosen`). `Holding`
  ties a reference to a place in `invokeRequestCallbackEx`, and `RundownBalanced` is kept
  by counting the holders (`OneMore`). `Serving` says that installed routines report to a
  service that is still bound.
* **Server.** A request is in one place: coming, queued, or with one worker (`Fresh`,
  `OnePlace`). A worker that is about to store the pointer has the io thread waiting for
  it (`Handling`, `Urgent`), and a published reply is the served connection's, with its
  handler at work until all is stored (`Published`). For `WorkOrder` the critical request
  of the queue, if any, is the abstract `urgent`, and the rest the `backlog`; since it can
  only stand in front (`OneUrgent`) the rest is the queue or its tail. `Push` is `Submit` or
  `SubmitUrgent`, which needs that the request is new (`Fresh`, and `Unfinished`: nobody has
  handled it before); `Pop` is `TakeUrgent` or `Take`; a handler's return is `Finish`, which
  needs that no other worker has the request; all else stutters. `NobodyStuck` is what the
  liveness properties rest on besides fairness: some worker is awake while anything is
  queued, and what the io thread polls for is queued or in the hands of a worker.
* **Service.** `BuffersAccounted` counts what each thread has to free (`Total`); a step of
  one thread changes one summand (`Apart`). `ExitUnhooked` needs that installed routines
  that are not recorded are those of a removal in progress (`Removed`) and that a thread
  past UNINITIALIZE left nothing recorded, if the request reached the driver (`Disclaimed`);
  if it did not, nothing is recorded once the driver is gone (`LoadedWhile`).
* **Heartbeat.** `NotEarlier`: neither the tick nor a time about to be stored is younger
  than the last one read, but for `behind`; `NotStale`: the tick is no older than the last
  store, but for `lag` and `ahead`; `Looked`: what main's own reading may be off.
* **Injection.** `Held` gives references, request and handle by the place of main, `Sized`
  and `Mapped` what has been received and copied there, `Traced` that the id names another
  process only after the game is gone, `Threaded` what a started thread finds and
  that `DllMain` alone starts the module.
* **Integrity.** `Collected` is `PatchesExact` for the bytes passed so far, `Kept` what the
  turn holds in the game at each place. The lemma `RoomEffect` says that growth keeps the elements.
  `EventWhole` compares lengths and counts: the offsets listed are distinct, so as many as
  there are differing bytes.
* **Life cycle.** `Steps` and `Programs` say which place of `scm` belongs to which place of
  its caller and who has a handle; `Kept`, that a marked entry is kept by a driver or a
  handle, which is `NoWedge` once there is neither. `Alone`: beside an undisturbed launch
  at work nobody else is, since any launch that begins meanwhile disturbs it. `Clear` then
  follows such a launch through `Destroy`, `Create` and `Start`, with the state of entry and
  driver at each step, up to the session that keeps the driver.
* **Mmu.** `InBounds` needs that the room is `chunks * ChunkSize` until `Release` (`Sized`);
  the lemma `WithoutEntry`, that closing the gap leaves the other entries once each, keeps
  `TableExact`.

Only model-checked: liveness (`QueuedIsHandled`, `AcceptsAgain`, `GameOverCloses`,
`GoneNoticed`, `GameMayEnd`, `PatchReported`, `LaunchEnds`), which the prover cannot do
under fairness. Every other property of a run that passes is a theorem. `HandledOnce`,
`NobodyStuck` and `TargetKnown` are stated beside their proofs and take no run. No module
uses a recursive operator.

## 5. Not modelled

* `Server/db.cpp`, `Server/storage.cpp`, `Kernel/modules.cpp` (with it every use of the
  allocation table): nothing in the repository calls
  them, so there is no order of calls, no second client and no caller's expectation to
  check. `workers::killWorkers` neither.
* `Service/processes.cpp`, `Service/files.cpp`: queries without state. Where `Service` uses one
  its outcome is a choice.
* The hashes of `Internal/hash.cpp`: they are sent with an integrity event and compared by
  nobody. The other containers and the C runtime of the module (`string.hpp`, `crt.cpp`, `win.cpp`) copy,
  compare or look up data and keep no state; of `vector.hpp` what the check uses is modelled.
* What the vectors of events in `Service/game.hpp` hold: nothing reads them. Whether an
  append can be torn is modelled.
* `malloc(packet.has_input)` at `Server/handlers.cpp:59` allocates one byte for a request of
  10 or 11; the smallest block of the heap holds that, and the model takes it as enough.
* A pool allocation that fails in `Kernel/mmu.cpp`, and a block that cannot be had in the
  internal module: the next store ends the machine or the game.
* Connections that a peer opens without following the protocol beyond a wrong type: the
  service is the only client.
* Boost and the MySQL connector under `Shared`, the `docs.hpp` declarations of the Windows
  API, project files. They are nearly all of the repository's lines, and none of its
  program.
