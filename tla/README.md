# A TLA+ model of the OpenHarmony-on-macOS boot stack

The repository holds the OpenHarmony 5.0.3 source files that were changed so
that the system can be built on macOS and booted under QEMU: a libc (musl) with
its thread, credential and exit code, `init`, the application spawner, the
device manager, the display driver, and build scripts. There are no tests in
the tree, and most of what makes these parts correct is about threads, signals,
processes and timers that meet in an order nobody chose. This directory models
that part, checks it with TLC and proves its safety properties with TLAPS.

Paths below are relative to `src/mac/`.

## 1. Inventory

| Part | State | Operations | Hard behaviour | What makes it correct |
|---|---|---|---|---|
| **Thread list and thread life cycle** (`third_party/musl/src/thread/pthread_create.c`, `__wait.c`) | `__thread_list_lock`, `tl_lock_count`, `tl_lock_waiters`, the list of threads, `need_locks`, each thread's detach state and start control word | `__tl_lock`, `__tl_unlock`, `__tl_sync`, `pthread_create`, `__pthread_exit`, join, detach | the lock is released by the kernel when an exiting thread dies; futex wake-ups can be lost; a fork inherits a lock whose owner stayed behind; a joiner frees the stack of the thread it joined | one owner; no lost wake-up; the list is exactly the live threads; no live stack is unmapped; an inherited lock is taken over |
| **Process-wide calls** (`thread/synccall.c`, `unistd/setxid.c`, `linux/setgroups.c`) | `target_tid`, `callback`, three semaphores, the ids of every thread | `__synccall`, its signal handler, `__setxid`, `setgroups` | every thread is stopped by a signal, in any order, while it may itself be calling; a signal or a system call can fail half-way | all threads change ids or none; the caller's report is true; nobody is left in the handler; the call ends |
| **init: services** (`base/startup/init/services/init/init_common_service.c`, `standard/init_service.c`) | per service: pid, status, attribute flags, crash counter, timer, sockets, held descriptors | `ServiceStart`, `ServiceStop`, `ServiceReap`, timers, `UpdaterServiceFds`, socket events | deaths are noticed later than they happen; commands come in between; crash loops; calls that fail | no process init has forgotten; the pid is its own child; a stop lasts; a panic only after a crash loop, and after every crash loop |
| **Application spawner** (`base/startup/appspawn/standard/appspawn_service.c`, `common/appspawn_server.c`) | queue of requests being spawned, list of applications, reserved child and its pipes, crash counter | connection, request, result, time-out, death, close, debug kill, stop | result, SIGCHLD, timer and close race; the reserved child is consumed and replaced; calls fail between two steps | one answer for each request; no child forgotten; no signal to a stranger; an application is not killed for another's failure |
| **Vsync worker** (`drivers/peripheral/display/composer/vdi_base/src/drm_vsync_worker.cpp`) | worker thread, `mEnable`, `mRunning`, callback, mutex and condition | `GetInstance`, `Init`, `EnableVsync`, `ReqesterVBlankCb`, destructor | the thread starts before its flag is set; notification against predicate; destruction during a callback | disabling takes effect; no lost notification; silence after destruction |
| **Composer service** (`drivers/peripheral/display/composer/hdi_service/src/display_composer_driver.cpp`, `display_composer_service.cpp`) | the host object and its stop flag, the adapter to the vendor library, a device cache per display, the clients' callbacks | bind, release, dispatch; requests; layers; registrations; events of the vendor library | requests, release and vendor events in three kinds of threads; the vendor library keeps bare pointers; library and cache change in two steps | requests run in the bound service; caches follow the library; events find a callback; no bad pointer without a known cause |
| **Device manager and hosts** (`drivers/hdf_core/framework/core/manager/src/devmgr_service.c`, `devmgr_service_clnt.c`, host side `devhost.c`, `devhost_service_full.c`) | per host: pid, service, stop flag, devices, token list | load, unload, attach, death of a host, power states | binder threads race; the wait for a host times out; process started, stopped and status written outside the lock | the record agrees with the process; only an idle host is stopped; a retried load is served; suspend mirrors wake |
| **Child of a service** (`init_common_service.c`, `standard/init_service.c`) | credentials, sockets and signal mask of a forked child | `RunChildProcess`, `SetPerms`, `EnterServiceSandbox` | some twenty steps, each of which may fail, each needing what an earlier one left | what is executed has the configured identity |
| **Child of the spawner, plug-ins** (`appspawn_service.c`, `appspawn_server.c`, `appspawn_modulemgr.c`, `modulemgr.c`) | installed modules, hooks, context and content of a child | install, hook stages, answer to the parent, cold start | a stage fails half-way; a program executed anew inherits only what is on its command line | the parent hears the truth; a failed child clears what it holds |
| **Preset types** (`foundation/distributeddatamgr/udmf/.../preset_type_descriptors.cpp`) | one table of 470 types | `GetInstance`, `InitDescriptors`, `GetPresetTypes` | racing first calls; a table pieced together from fifteen literals | whoever gets the table gets all of it; every type can be walked to its roots |
| **Exit handlers** (`third_party/musl/src/exit/atexit.c`) | the list of handlers | register, run, finalize | the lock is released around each call | (not modelled) |

The parts interact by processes and signals. `init` forks the spawner and the
device manager as services. The spawner calls `setgroups` and the id calls of
libc in its children. Every thread of these processes goes through the thread
list, whose lock `__synccall` holds for a whole call, so that the set of threads
it signals cannot change. `PROJECT.json` lists all components, the ones left out
too, and the hazards with the line where each bites.

## 2. Modules

| Module | Models | Extends |
|---|---|---|
| `ListLock` | abstract: a lock that one thread owns | |
| `ThreadList` | `pthread_create.c`, `__wait.c` | INSTANCE `ListLock` for the refinement |
| `MCThreadList` | sets of constants for TLC | `ThreadList` |
| `ThreadListProofs` | theorems | `ThreadList`, TLAPS |
| `Synccall` | `synccall.c`, `setxid.c`, `setgroups.c` | INSTANCE `ListLock` |
| `SynccallProofs` | theorems | `Synccall`, TLAPS |
| `InitService`, `MCInitService`, `InitServiceProofs` | one service of `init` | |
| `VsyncWorker` | the vsync worker and its callers | |
| `AppSpawn`, `MCAppSpawn` | the application spawner and its children | |
| `ServiceChild`, `MCServiceChild`, `ServiceChildProofs` | a forked child of `init` up to `execv` | |
| `SpawnChild`, `MCSpawnChild` | the spawner's plug-ins and a child of it from the inside | |
| `SpawnerProofs` | theorems about the spawner and its children | `AppSpawn`, `SpawnChild`, TLAPS |
| `DevmgrHost`, `DevmgrHostProofs` | the device manager and one host | |
| `ComposerService`, `MCComposerService`, `ComposerServiceProofs` | composer driver, service and their threads | |
| `TypeTable` | the rows of the preset types | |
| `TypeDescriptors` | threads that build and read them | `TypeTable` |
| `SingletonProofs` | theorems about the two objects that racing threads construct once | `VsyncWorker`, `TypeDescriptors`, TLAPS |

`ThreadList` shows that the real lock (a futex word with nesting, takeover and
release by the kernel) implements `ListLock`; `Synccall` uses `ListLock` instead
of the real one. So what is shown of `Synccall` rests on the refinement.
`InitService` treats a child as a process that runs and dies, `ServiceChild` is the
inside of that process; `AppSpawn` and `SpawnChild` divide the spawner in the same
way. What `ChildReplies` of `AppSpawn` may write is what `told` of `SpawnChild` can be.

An operator whose comment begins "Mutant of" is a plausible bug of the definition
that follows it. No specification uses it; `PROJECT.json` says which property it
breaks.

### ThreadList

One step per access to shared memory: the compare-and-swap of `__tl_lock`
(`TlLockCas`), the look whether the owner still exists (`TlLockProbe`, `tgkill`),
the takeover (`TlLockTakeover`), the three phases of `__wait` (`WaitSpin`,
`WaitCheck`, sleep, `WaitLeave`), `TlUnlock` and its wake-up `TlWake`, the pieces
of `pthread_create` (`CreateStart`, `Clone`, `SetScheduler`, `WaitFailed`, `Link`,
`Undo`), of `start` (`Start`, `StartReleased`, `FailedExit`), of `__pthread_exit`
(`ExitStart` to `Announce`), the kernel's part (`KernelClear`, `KernelUnhash`), and
join and detach with `__tl_sync`. Init is a process that has just been forked: its
list is one thread, the lock word is free or names a thread of the parent, the
waiter count is what it was.

Abstracted or left out: thread ids are never reused, so the window between
`tgkill` and the swap in which an id could name a new thread is listed as a
hazard and not covered; fork itself, the robust-mutex list, thread-specific data,
`killlock` and signal masks hold no state of this protocol; the wait of a new
thread on its control word is a blocking guard; the two forms of exit (detached
and joinable) share `Announce`.

### Synccall

The caller runs `Call` (list lock), `Locked`, `Signal` for each thread, `Post` and
`Posted` (the loop that lets one thread at a time run the callback), `Func`,
`Release`, `Collect`, `Unlock`; a caught thread runs `Deliver`, `Proceed`,
`HandlerFunc`, `HandlerPost`, `Resume`, `Return`. The callback's system call may
fail in any thread; the code then kills the process if another thread has already
succeeded (`CallbackEnds`). Two calls, by the same or by different threads, follow
one another, so that semaphores are initialised while late handlers may still be
about. Threads created or exiting between calls are left out (during a call the
list lock excludes them); the EAGAIN retry of `tkill` is a stutter; the path of a
process with a single thread is an empty list; the reset of SIG_IGN is left out.

### InitService

One service. A behaviour starts with a kind (the attributes ONCE, CRITICAL, PERIOD,
ONDEMAND) and a set of calls that may fail. Commands start, stop, reset and time
the service at any moment; a process dies, becomes a zombie and is reaped in
separate steps; process ids are reused once they have been waited for. `ServiceReap`
is one action with all its branches in the order of the code. `Tick` advances the
clock of the crash window. After a panic or a NULL dereference the model stops
(`Down`). Left out: jobs, restart commands of other services, the console,
`lastErrno`, and what the child does between fork and exec. Services share
nothing but the reboot, so one is enough. External: the SIGCHLD handler, the
commands and the set-up of on-demand sockets, known from how the code uses them.

### AppSpawn

The event loop handles one event at a time, so one handler is one action:
`OnConnection`, `OnClose`, `SpawnByFork` and `SpawnByReserved` (a spawn request up to
the watcher on the child's result, `ProcessPreFork` for the next reserved child
included), `ChildResponse`, `WaitChildTimeout`, `Reap` (`ProcessSignal`,
`HandleDiedPid`, `WaitChildDied` and, at its end, `StopAppSpawn`),
`SendMessageComplete`, `DeviceDebugKill`, `SigTerm`. Children write their result
(`ChildReplies`) and die (`Dies`) between any two handlers. Each of pipe, fork, mmap,
write, the watcher and the sending of an answer may fail.

A pipe that cannot be made leaves the used-up child in reserve
(`appspawn_service.c:799`), and a later request then is written to an application
that already runs. The model does as the code does; `KnownAreChildren` is stated for
lives in which making a pipe does not fail, the others for all.

Left out: reception of partial messages and its timer, the nwebspawn mode (clone,
restart message), begetctl, mount, lock-status, uninstall and dump messages, the
pidfd watcher; a read of the result that fails. The hooks and the cold start are in
`SpawnChild`.
After `StopAppSpawn` the model stops.

### VsyncWorker

Service threads call `GetInstance` (construction once), `EnableVsync`,
`ReqesterVBlankCb`; the destructor comes when no call is in progress. The worker is
split at every access: lock, predicate, sleep, wake-up, `GetPipe`, `WaitVBlank`, the
call of the callback. Its initial states, steps and specification are called
`WorkerInit`, `WorkerNext` and `WorkerSpec`, because `SingletonProofs` extends another
specification too. Sequence numbers are left out. `mRunning` is taken to be false
before `Init`: the header is not in the tree. `drmWaitVBlank` is taken to return or
to fail. A missing callback crashes the process (`crashed`).

### ServiceChild

One child, one configuration (ids, groups, capabilities, sockets, spawner or not,
on demand or not), entered as a service or as the shell of `EnterServiceSandbox`. One
action per step between fork and `execv`, in the order of the code; a step that may
fail has an outcome in which it does, and the failure is noted, skipped or ends the
child as in the code. `faulty` records that something failed that the configuration
allows to succeed. `cred` is the kernel's view of the child: ids, groups and the five
capability sets, changed by rules of the kernel (external): `setuid` away from 0
clears the effective and, without keep-capabilities, the permitted set; `capset` may
not exceed what is permitted and bounding; `execve` computes the new sets from the
inheritable, bounding and ambient ones. Left out: what the hooks do, the contents of
files, names of sockets, the seccomp filter.

### SpawnChild

The image that runs is the server, a forked child, or the program a cold start
executes. `LoadCommon`, `AppSpawnModuleMgrInstall` and `LoadType` put what is to be
installed of a type into `scan`, directory by directory in the order of their paths;
`ModuleMgrScan` installs one module of it per step, a plug-in that cannot be opened
being skipped; each plug-in's constructor registers hooks. `Preload` runs the server's
hooks. After `AppSpawnForkChildProcess` the child goes through `ClearEnvHook`,
`AppSpawnColdStartApp`, `SpawningHook`, `PreReplyHook`, `Notify`, `PostReplyHook` and
`RunChildProcessor`; the cold program loads its modules again and goes through
`GetAppSpawningCtxFromArg`, `ColdSpawningHook`, `ColdPreReplyHook` and the common end.
Any hook may fail; a stage stops at the first that does, as `AppSpawnHookExecute` does.
External: the hook list (sorted by priority, in order of registration among equals),
the stage numbers, `dlopen`. The initial states, steps and specification are called
`ChildInit`, `ChildNext` and `ChildSpec`: `SpawnerProofs` extends `AppSpawn` as well.

### DevmgrHost

One host with two devices, either only on demand or also with devices started at boot
(`auto`). A call of a binder thread is split where the code holds or drops `hostLock`:
lock, start of the process, the wait for the attach, the load in the host, unlock,
`MarkUsable`, and for an unload the removal, the unlock and `StopHost`, which stops by
name. Processes are named, so that a late message or death notice of an old process
can be told from those of the new one. Faults (bounded): a start fails, a driver
fails, a process crashes, an attach comes after the wait ran out. The power-state
walk is three operators, over hosts, devices and nodes. Left out: listing, service
registration, left drivers at boot.

### ComposerService

`Bind`, `Release` and `Dispatch` of the driver with `g_stop` and the read lock that a
request holds; `Query` stands for every request that only forwards to the vendor
library, checked one by one against the code for whether it tests the function
pointer it calls; `CreateLayerVdi`/`CreateLayerCache` and `DestroyLayerVdi`/
`DestroyLayerCache` are the halves of a request on either side of the cache mutex;
`KeepEarly`/`RegisterEarly` (hot-plug, idle) and `RegisterLate`/`KeepLate` (mode, seamless,
refresh) are the two orders in which the code keeps a callback and tells the library;
`Report` to `OnVBlank` are events. A bad pointer ends the model with its cause in
`crash`. External: the vendor library calls one event at a time and does not reuse
layer ids; a device cache is the set of layers in it, and the caches are a function on
the displays that have one.

### TypeTable, TypeDescriptors

`TypeTable` holds the literals, one definition for each half, each row with its id and
its parents; the other columns are left out. `TypeDescriptors` lets threads call
`GetInstance`: the first fills the table list by list, the others wait on the guard
of the static local, and a reader walks from a type along its parents.

## 3. Runs

Passing runs:

| Run | Bounds | Shows |
|---|---|---|
| `thread_list` | 3 threads, nesting 2, every attribute, lock free or inherited; the threads other than Main are symmetric (safety only); 1.6 M states | `MutualExclusion`, `NothingHeldAtRest`, `ListIsExact`, `NeedLocksIsSound`, `UnmappedIsGone`, `WakeupIsPending`, `ImplementsListLock` |
| `thread_list_live` | 2 threads, no symmetry | `InheritedIsTakenOver` |
| `synccall` | 4 threads, 2 calls, signals and system calls may fail; 296 k states | `AllOrNothing`, `DestroyableAtEnd`, `ReportIsHonest`, `CallEnds` |
| `init_service` | all kinds, 2 process ids, limit of 3 crashes in a window of 2 ticks, 5 ticks, one-shot services on demand among the kinds, with no failing call and with any; 628 k states | `StrayIsKilled`, `PidIsOwnChild`, `CrashLoopIsNoticed`, `OnDemandIsReachable`, `StopOfRunningIsFinal`, `KeepsRunning` |
| `service_child` | 2 users, 3 lists of groups, 6 of capabilities (one names a capability twice), every other attribute, every failure; 304 k states | `ExecAsConfigured`, `CleanChildExecs` |
| `app_spawn` | 3 process ids, 2 requests on one connection, 2 crashes in a row restart; 439 k states | `ChildrenAreKnown`, `KnownAreChildren`, `AnsweredOnce`, `RestartIsEarned`, `RequestIsAnswered` |
| `spawn_child` | 4 plug-ins, one in two directories, hooks in every stage, warm and cold; 1.4 k states | `AnswerIsTrue`, `FailureClears` |
| `vsync_worker` | 2 callers, 2 callbacks | `AtMostOneLate`, `QuietAfterDestroy`, `DestructorEnds` |
| `composer` | 2 symmetric clients, 1 display, 2 binds, 1 layer, 2 vblank callbacks, a complete library and one that lacks a function; 2.9 M states | `RequestsRunInBoundService`, `LayersAreCached`, `EventsReachClient`, `CrashesAreExplained` |
| `devmgr_host` | 2 binder threads, one of which retries for ever, 2 devices, 3 process names, 1 fault; 144 k states | `RecordMatchesHost`, `StopIsIdle`, `SuspendMirrorsWake`, `LoadRecovers` |
| `type_table` | 2 threads, all 470 rows, walks from every type; 3.6 k states | `ReaderSeesWholeTable`, `WalkEnds` |

Why the bounds are enough to be of interest. Three threads are an owner, a waiter
and a third that takes the wake-up of the other, and a creator, an exiting thread
and a joiner. Four threads in `Synccall` are a caller and three caught, of which two
can compete for one post. Two process ids in `InitService` are an old process that
has not ended and a new one. Five ticks hold two crash windows. In `AppSpawn` two
requests are one that forks and one that wakes the reserved child, three process
ids are those two and the next in reserve; the numbers 5 of `MAX_CRASH_TIME` and
of init's crash limits only scale. In `ServiceChild` a capability that is configured,
one that is not and the three the set-up needs are all that the kernel's rules tell
apart. In `DevmgrHost` three process names are the one that runs, one whose death is
not yet reported and one whose attach is late; two devices are one whose unload is
not the last and one whose unload is. In `ComposerService` the second bind and the
second vblank callback are what makes a pointer stale.

One run expects a violation, a disagreement of the code with what it says of itself
(quoted in `PROJECT.json`, "findings"): `synccall_release` shows that both waits of the
handler are on one semaphore, so that a thread returns to the program before all have
run the callback. With four caught threads the early return also lets two threads run
the callback at once. The cause is the same.

### Deviations

Where the code does something other than one would promise of it, the model does as
the code does, and a property names the case as an exception or speaks of behaviours
without it.

* **Inherited nesting count** (`pthread_create.c:195-198`). The takeover after fork
  replaces the lock word and keeps the parent's `tl_lock_count`: the new owner's unlock
  does not unlock. With `InheritedCounts = {1}` `NothingHeldAtRest` fails, though
  `docs/PROGRESS.md:157` takes the inherited lock to be dealt with; the runs and the
  theorem `Nesting` are about `InheritedCounts = {0}`.
* **Stop of a service that is down** (`init_common_service.c:748-761`). It returns before
  the timer is disarmed and the descriptors are closed, so that the timer starts the
  stopped service. `StopOfRunningIsFinal` speaks of stops that find a process.
* **Sockets past the end** (`init_common_service.c:821`). `CheckServiceSocket` steps past a
  socket with an invalid descriptor without looking whether there is another. The
  model sets `broken` and stops.
* **Credentials** (`init_common_service.c:209-220`). `DropCapability` reports no failure: a
  root service then runs with more than it was given. `FULL_CAP` skips the hooks of
  `INIT_SERVICE_SET_PERMS` (286), and for root it is taken for a capability number, so
  that the child cannot be executed. `PublishHoldFds` writes before its buffer when
  no held descriptor could be duplicated (378). A capability that the configuration
  names twice (188-211): `DropCapability` takes the length of the list for the number of
  capabilities to keep and drops too few, and `GetInvalidCaps` writes past the buffer of
  that length. `ExecAsConfigured` excepts it (`Repeats`); the proof showed that it must.
* **One-shot service on demand** (`init_common_service.c:874`). `ServiceReap` returns before the
  sockets are watched again, so that it serves one demand only. An exception of
  `OnDemandIsReachable`, also met in the proof.
* **Vsync thread** (`drm_vsync_worker.cpp:33-35`). The thread starts before `mRunning` is
  set; it may read false and end, and no vsync is ever delivered. `VsyncWorker` takes
  the step, so that delivery is not promised.
* **Spawner** (`appspawn_service.c:959-961`). A child that cannot be watched is killed, and
  its client is told success, with pid 0.
* **Cold start** (`appspawn_service.c:1197-1203`). A failing `execv` returns 0: the child
  ends without a word, where the comment at `appspawn_server.c:98` reads "cold start fail,
  to start normal". The cold program runs the application although its pre-reply
  stage failed and the parent was told so (1266-1275). Both are exceptions of
  `AnswerIsTrue`.
* **Plug-ins** (`modulemgr.c:341`, `appspawn_service.c:1386`). A plug-in that cannot be opened
  is passed over without a word, and its hooks are missing. `ModuleCompare` (255) never
  matches a module given by an absolute path, so that it may be installed twice.
* **Device manager** (`devmgr_service.c`). The stop after the last unload is by name and
  outside the lock (193); the status is written after the unlock (132); an attach
  during the last sleep of the wait counts as a time-out (80). A host started at boot
  that dies before it attached keeps a pid and no service for ever, so that
  `LoadRecovers` is about hosts on demand. After a crash with two loaders tokens of
  the old process may be kept. `LoadLeftDriver` (199) and `PowerStateChange` (428) use
  `hostService` without a look whether it is there.
* **Composer** (`display_composer_service.cpp:60`). A library that cannot be loaded leaves the
  adapter unfilled and the service is published all the same, where
  `docs/PROGRESS.md:269` takes such a service to exit unpublished. A failed `Bind` deletes the static
  host, which a second `Bind` uses; a second `Bind` or a second vblank callback leaves
  the library with pointers to what was freed; the late callbacks are kept after the
  library was told (673), so that an event in between is lost; all displays share
  one backlight level. `CrashesAreExplained` and `EventsReachClient` say that there is
  nothing else.

## 4. Fairness

* `ThreadList`, `Synccall`: weak fairness of the steps a thread makes inside a libc
  function; the kernel schedules every thread. Nobody is forced to call, to exit or
  to leave a critical section of the program, except that a section that was
  entered is left.
* `InitService`: an armed timer fires, a zombie is reaped, a process that was sent
  SIGKILL ends. Processes need not end by themselves, and no command need come.
* `VsyncWorker`: the worker goes on, a call that was begun is finished, the destructor
  goes on. The mutex is never starved for ever in these runs because it is held for
  bounded sections.
* `AppSpawn`: SIGCHLD is served for every zombie, and for every request in the queue
  its result is read or its timer fires (`AddChildWatcher` arms both or gives up).
  Children need do nothing.
* `DevmgrHost`: binder threads and processes are scheduled, and `hostLock` is given to
  whoever keeps asking (strong fairness of the steps that take it; the mutex is held
  for bounded sections). Attached processes and death notices are served although
  other steps come in between. Nothing is assumed of faults.
* `ServiceChild`, `TypeDescriptors`: a process, or a thread, that can make a step makes
  one.
* `ComposerService` and `SpawnChild` have safety properties only, and state none.

Deadlock is checked in every run; where a behaviour may end (everyone has exited, the
spawner has stopped, init is down, a child has executed) the specification has a stuttering disjunct.

## 5. Proofs

All theorems hold for every value of the constants under the named assumption of the
module (`ThreadListAssumption`, `SynccallAssumption`, `InitServiceAssumption`,
`VsyncWorkerAssumption`, `AppSpawnAssumption`, `CapsAssumption`, `ComposerAssumption`,
`SpawnChildAssumption`, `DevmgrAssumption`, `ThreadsAssumption`). The assumptions say that
the special values are distinct and not in the sets, that bounds are natural numbers, and
that the program's own tables have their types. `Synccall` assumes a finite set of threads, `ServiceChild` a finite set of
capabilities, `SpawnChild` that a plug-in registers finitely many hooks, `DevmgrHost` that there is a
name for a process. The thread list needs no such assumption: its list grows by one thread at a time.

Each module has one inductive invariant in named parts. Every part was first checked by
TLC on the module's run. The parts are proved one after the other, each from those
before it, with one step per action.

* **ThreadListProofs.** `Exclusion` (one owner) is not inductive: a takeover relies on a
  decision made in an earlier step. `HolderInv` adds that a thread about to take
  over has seen an owner that is not in the group, that such a thread never comes
  back, and that the word never names a thread which is gone. `TypeInv` adds to the
  types what a thread at each location is there for (lock for a section, to create, to
  exit, to join). `JoinInv` says how far a thread must have got when another one
  waits for it; from it `JoinSafety` (no live stack is unmapped). `Implementation`: each
  step changes the word as `ListLock` allows (`LockStep`). `Nesting`: if no count is
  inherited by fork, the count is the owner's nesting (`NestInv`), and a thread at rest
  holds nothing; the premise is needed (see Deviations).

  `ListExact` and `LockSkippedAlone`. `MemberInv` says where a thread may be that is in the
  list, and where one that runs and is not in it: being created by the owner of the
  lock, or on its way out. `CountInv` is the cardinality of the list, one less while a
  creation is counted and not yet linked (`Pending`). `SingleInv` relates `need_locks` to
  the count. What a step does to list and count together is one of five things
  (`ListStep`); with that the steps are separated from the arithmetic.

  `NoLostWakeup`. `WaitersInv`: `tl_lock_waiters` is at least the number of threads in
  `__wait`, more if the parent had waiters at fork. `WakeInv`: a thread only waits for the
  word to change from a value that is not free; together they say that who frees the
  lock sees the sleeper and is about to wake one.
* **SynccallProofs.** The two waits of the handler share one semaphore, so that no
  invariant of a single handler holds. `TokenInv` says of each semaphore that it holds
  what was posted and not yet waited for, as sums over the numbers of handlers at each
  place. That is enough: while the callbacks are serialized at most one handler runs
  one (`OneBusy`), none while the caller does (`Quiet`), and when the caller has done all its
  waits every handler has returned (`AllReturned`, whence `Destroyable`). `CatchInv` is the
  signalling phase before. `CredInv`: before a failure threads past the callback have
  the new id and the others the old one; a failure in the first leaves all unchanged, and
  in a later one kills the process. From it `SameIds` and the action property
  `HonestReport`.
* **InitServiceProofs.** `SafeInv`: running children and zombies are disjoint, an unrecorded
  child has been signalled, the recorded pid is a child not waited for, and a
  service stopped while it ran keeps no timer, no watched socket and, if its process
  is still there, the mark that it is not to be restarted. From it `NoStray`,
  `PidIsSound`, `StopLasts`. `DemandInv` adds, for lives without failing calls, that a
  process that is still recorded was not asked to stop (`OnDemandStaysReachable`).
  `CrashInv` keeps the record of crashes next to the counter: the last `crashCnt` of them
  are the open window, and the first of these comes more than `CrashTime` after all but
  the last `CrashCount` - 2 of the earlier ones. From it `CrashLoopsAreNoticed`: a window
  holds at most 2 * `CrashCount` - 2 crashes before init acts, because the code's window starts
  at a crash and does not slide.
* **SpawnerProofs.** The server, `AppSpawn`. `RequestInv`: ids grow, a context in the queue belongs to an
  unanswered request, and to one child (`AnswersOnce`). `KnownInv` is `ChildrenAreKnown`
  with a context counted only until its child has reported a failure, since the
  report removes the context while the child still runs (`NoChildForgotten`). `PidInv`, for
  lives in which pipes can be made: no pid is listed for two reasons
  (`NoStrangerIsKnown`). `CrashInv`: the last `crashTimes` requests up to `lastDied` crashed
  (`RestartEarned`, an action property). A request meets many failures, but has only two
  effects (`SpawnStep`: refused, or served by a child that was forked or taken from the
  reserve); the invariants are shown of these.

  The child, `SpawnChild`. `SpawnInv`: where the image is determines what has failed, what
  was told and what it holds, and once the server has started the list of hooks holds
  the spawner's own, which is why a failing child frees what it has
  (`FailedChildIsCleared`); `ParentHearsTheTruth` is a part of it.
* **SingletonProofs.** The vsync worker. `OnceInv`: one construction, and no call in progress
  when the destructor has begun. `LateInv`: a vsync after a disable is the last, because the
  worker has to pass its predicate again. From them `DisableWorks` and `DestroyIsFinal`.

  The table of preset types. `GuardInv`: a thread in the constructor holds the guard, and a
  thread past `GetInstance` finds it released and all lists inserted. `ReadersSeeWholeTable`
  has one hypothesis besides: that all lists together are a complete table
  (`Complete[Whole]`), a fact about 470 rows of the source. The run `type_table` evaluates
  it, since its invariant contains it as soon as a thread has the table.
* **ServiceChildProofs.** `ChildInv` says for each place between fork and `execv` what the
  child has by then: sockets, signals, ids, capabilities. `BoundingSet` counts: as many
  capabilities as there are beside the entries of the list, taken from those it does
  not name, are all of them, if no entry is repeated. From these `ExecIdentity`.
* **ComposerServiceProofs.** `BoundInv`: the read lock keeps bind and release away from a
  request (`RequestsAreBound`). `LayerInv`: a layer has one owner and one display; between
  the halves of its creation only the library knows it (`CachesFollow`). `CallbackInv`: what
  the library was told is no younger than the bound service, and the callback was kept
  before or is about to be (`NoEventLost`). `PointerInv`: the table of functions and the
  one vblank callback are there (`OnlyTheseCrashes`).
* **DevmgrHostProofs.** `RecordMatchesHost` speaks of the moments without a call; the invariant
  says what holds meanwhile. `HostInv`, whatever fails: only an attached process has
  devices, none twice, and who is between `LockAdd` or `LockDel` and the unlock holds the
  lock and has a host service. `CleanInv`, as long as nothing failed: the process that
  starts or attaches, and the one with a proxy, is the one that runs, and a stop still to
  come is the only one, of an attached process without devices. The last part is
  `StopsIdle`, and is why a stop by name hits no other process: no start can come
  between, since the process is still there. `TokenInv`: the tokens are those of the loaded
  devices; it is what tells `Unloaded` that the list it finds empty is the process's. `RaceInv`
  and `StatusInv`: a device two calls were never about at once has one writer of its
  status, and the status is right or that writer has yet to write it (`RecordMatches`).
  `HostInv` and `RaceInv` hold with failures; from `HostInv` `LockedHasService`: whatever dies,
  `hostService` is not taken away between the test and the call through it. The others
  end with the first failure, as does `RecordMatchesHost`.

  `SleepMirrorsWake` is about any hosts, devices and nodes. It needs what `FlattenSeq`, a
  recursive function, does with one more list at the end (`FlattenAppend`) and at the front
  (`FlattenCons`). The library's induction theorems cannot be used, as they take an operator;
  `Induction` takes the set of the numbers for which a statement holds, and follows from
  the well-foundedness of the naturals. `SuspendMirrors` is the form the run checks.

`TypeCorrect` of the first modules (`WorkerTypes` of the vsync worker) is the type
invariant; in the others it is the part `TypeInv` (`HooksType`, `PcInv` in `SpawnChild`) of
the invariant.

Only model-checked:

* liveness, as the prover has no fairness and no ENABLED: `InheritedIsTakenOver`, `CallEnds`,
  `KeepsRunning`, `RequestIsAnswered`, `CleanChildExecs`, `DestructorEnds`, `LoadRecovers`,
  `WalkEnds`;
* that the lists of `TypeTable` are a complete table: data, which TLC evaluates.

## 6. Plan

Done: all modules of section 2, with proofs of every safety property the runs check.

Next, in this order:

1. Message reception of the spawner: partial messages and their timer.
2. `DevmgrHost` after a failure: what the record may still be trusted for once a process
   died, which at present only `LoadRecovers` says.
3. The liveness properties beyond the runs' instances: out of reach of the prover, so by
   larger instances of `Synccall` and `AppSpawn`.

## 7. Not modelled

* The dynamic linker: computation over files; its use of the list lock is a critical
  section of `ThreadList`.
* `setresuid` and `setresgid`: plain system calls here, which change only the calling
  thread.
* Exit handlers: a list of handlers under one lock; the port adds a ring of recent
  registrations for its crash handler, the list is library code as it was.
* The sandbox loader (`sandbox_load.c`): it turns JSON into tables. The same holds for
  the configuration of services.
* Logging (`hilog`): formatting and one send per record.
* `elf.h`, `file2alias.c`, `bpftool`: kernel headers and host tools, vendored to be built on
  macOS; `nweb_helper.cpp` and the graphics ports forward to third-party engines.
* SELinux and security policies, build and boot scripts: data and build steps, without
  a protocol of their own.
* In modelled components: jobs and commands of other services in `init`; message
  reception, begetctl, mount and dump messages of the spawner; listing, service
  registration and left drivers of the device manager; the contents of the buffer
  caches of the composer. `PROJECT.json` gives these components the status "partly".
