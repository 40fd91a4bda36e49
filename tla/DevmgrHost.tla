---------------------------- MODULE DevmgrHost ----------------------------
(***************************************************************************)
(* The device manager and one device host (hdf_core: devmgr_service.c,       *)
(* devmgr_service_clnt.c, devhost.c, devhost_service_full.c).  Binder        *)
(* threads of the manager load and unload devices of the host; the first     *)
(* load starts the host process and waits for it to attach, the last unload  *)
(* stops it.  The process may fail to start, crash, or attach too late, and  *)
(* its death is reported some time after it happened.                        *)
(*                                                                           *)
(* hostLock does not cover everything: the process is started, awaited and    *)
(* stopped, and a loaded device is marked usable, outside it.                 *)
(***************************************************************************)
EXTENDS Naturals, Sequences, SequencesExt, FiniteSets

CONSTANTS
  Callers,     \* binder threads of the manager
  Retrier,     \* the caller that loads and unloads Wanted for ever
  Devs,        \* devices of the host's dynamicDevInfos (DEVICE_PRELOAD_DISABLE)
  Wanted,      \* the device Retrier asks for
  Insts,       \* names for processes of the host; reused when nothing refers to one
  MaxCalls,    \* bound on the calls of the callers other than Retrier
  MaxFaults    \* bound on crashes, failed starts, failed drivers and late attaches

None == "none"

ASSUME DevmgrAssumption ==
  /\ Retrier \in Callers /\ Wanted \in Devs
  /\ Insts # {} /\ None \notin Insts \cup Callers
  /\ MaxCalls \in Nat /\ MaxFaults \in Nat

VARIABLES
  auto,         \* the host also has devices to be started at boot (unloadDevInfos)
  lock,         \* holder of hostClnt->hostLock, or None
  hostPid,      \* TRUE when hostClnt->hostPid >= 0
  hostService,  \* the process hostClnt->hostService is a proxy of, or None
  stopFlag,     \* hostClnt->stopFlag
  tokens,       \* hostClnt->devices: how many tokens of each device it holds
  status,       \* deviceInfo->status of each device
  proc,         \* the running process of the host, or None
  inst,         \* what is known of each process: its stage and who refers to it
  devices,      \* the devices each process has loaded, in order
  pc, dev,      \* where each caller is, and the device of its call
  calls,        \* calls made by the callers other than Retrier
  faults,       \* faults so far
  clean,        \* no fault and no timeout yet
  raced         \* devices two calls were about at the same time

hostVars == <<hostPid, hostService, stopFlag, tokens>>
procVars == <<proc, inst, devices>>
callVars == <<pc, dev, calls, raced>>
vars == <<auto, lock, hostVars, status, procVars, callVars, faults, clean>>

---------------------------------------------------------------------------
\* DevmgrServiceStartDeviceHosts: a host that has devices to start at boot is
\* started without waiting for it, one with only dynamic devices is not.
Init ==
  /\ auto \in BOOLEAN
  /\ lock = None /\ hostService = None /\ stopFlag = FALSE
  /\ hostPid = auto
  /\ tokens = [d \in Devs |-> 0]
  /\ status = [d \in Devs |-> "unusable"]
  /\ proc = IF auto THEN CHOOSE i \in Insts : TRUE ELSE None
  /\ inst = [i \in Insts |-> IF i = proc THEN "starting" ELSE "free"]
  /\ devices = [i \in Insts |-> <<>>]
  /\ pc = [t \in Callers |-> "idle"]
  /\ dev = [t \in Callers |-> Wanted]
  /\ calls = 0 /\ faults = 0 /\ clean = TRUE /\ raced = {}

Goto(t, l) == pc' = [pc EXCEPT ![t] = l]
Busy(t) == pc[t] \notin {"idle", "loaded"}
Fault == faults < MaxFaults /\ faults' = faults + 1 /\ clean' = FALSE
Loaded(i) == IF i = None THEN {} ELSE Range(devices[i])

\* IDriverInstaller and init (external): one process per host name.  Stopping
\* it, like a crash, leaves behind whatever still refers to it: an attach
\* request under way, or the manager's proxy until the death is reported.
Kill ==
  /\ proc' = None
  /\ inst' = [i \in Insts |-> IF i = proc /\ inst[i] = "starting" THEN "free" ELSE inst[i]]
  /\ UNCHANGED devices

---------------------------------------------------------------------------
\* A call of LoadDevice or UnloadDevice arrives at a binder thread.
Call(t, d, l) ==
  /\ Goto(t, l)
  /\ dev' = [dev EXCEPT ![t] = d]
  /\ raced' = raced \cup {e \in {d} : \E u \in Callers \ {t} : Busy(u) /\ dev[u] = d}
  /\ UNCHANGED <<auto, lock, hostVars, status, procVars, faults, clean>>

\* The retrying caller loads Wanted until it succeeds, then unloads it.
RetrierCalls ==
  /\ \/ pc[Retrier] = "idle" /\ Call(Retrier, Wanted, "load")
     \/ pc[Retrier] = "loaded" /\ Call(Retrier, Wanted, "unload")
  /\ UNCHANGED calls

OthersCall(t) ==
  /\ t # Retrier /\ pc[t] = "idle" /\ calls < MaxCalls
  /\ calls' = calls + 1
  /\ \E d \in Devs : Call(t, d, "load") \/ Call(t, d, "unload")

Return(t, ok) == Goto(t, IF ok /\ t = Retrier THEN "loaded" ELSE "idle")

\* DevmgrServiceLoadDevice: under the lock, is there a process?
LoadDevice(t) ==
  /\ pc[t] = "load" /\ lock = None
  /\ IF hostPid THEN Goto(t, "lockadd") ELSE Goto(t, "start")
  /\ UNCHANGED <<auto, lock, hostVars, status, procVars, dev, calls, raced, faults, clean>>

\* DevmgrServiceStartHostProcess: installer->StartDeviceHost.  A running
\* process of that name is left alone.
StartDeviceHost(t) ==
  /\ pc[t] = "start"
  /\ \/ /\ proc = None
        /\ \E i \in Insts : inst[i] = "free"
        /\ proc' = CHOOSE i \in Insts : inst[i] = "free"
        /\ inst' = [inst EXCEPT ![proc'] = "starting"]
        /\ UNCHANGED devices
        /\ UNCHANGED <<faults, clean>>
        /\ Goto(t, "started")
     \/ /\ proc # None
        /\ UNCHANGED <<procVars, faults, clean>>
        /\ Goto(t, "started")
     \/ /\ Fault
        /\ UNCHANGED procVars
        /\ Goto(t, "nostart")
  /\ UNCHANGED <<auto, lock, hostVars, status, dev, calls, raced>>

\* ... fails: hostPid is HDF_FAILURE, and so is the load.
StartFailed(t) ==
  /\ pc[t] = "nostart"
  /\ hostPid' = FALSE
  /\ Return(t, FALSE)
  /\ UNCHANGED <<auto, lock, hostService, stopFlag, tokens, status, procVars, dev, calls, raced, faults, clean>>

\* ... returns: hostPid and stopFlag are written without the lock.
Started(t) ==
  /\ pc[t] = "started"
  /\ hostPid' = TRUE /\ stopFlag' = FALSE
  /\ Goto(t, "wait")
  /\ UNCHANGED <<auto, lock, hostService, tokens, status, procVars, dev, calls, raced, faults, clean>>

\* The wait ends because a host service is there, whichever process it is.
HostAttached(t) ==
  /\ pc[t] = "wait" /\ hostService # None
  /\ Goto(t, "lockadd")
  /\ UNCHANGED <<auto, lock, hostVars, status, procVars, dev, calls, raced, faults, clean>>

\* waitCount reaches 0.  That may be because no process is going to attach, or
\* because it attaches late, during the last sleep included: a fault.
HostTimeout(t) ==
  /\ pc[t] = "wait"
  /\ IF hostService = None /\ \A i \in Insts : inst[i] = "up" \/ inst[i] = "free"
       THEN UNCHANGED faults /\ clean' = FALSE
       ELSE Fault
  /\ Kill
  /\ Goto(t, "timeout")
  /\ UNCHANGED <<auto, lock, hostVars, status, dev, calls, raced>>

\* Mutant of TimedOut: the pid of the stopped process is kept.
TimedOutKeepsPid(t) ==
  /\ pc[t] = "timeout"
  /\ Return(t, FALSE)
  /\ UNCHANGED <<auto, lock, hostVars, status, procVars, dev, calls, raced, faults, clean>>

TimedOut(t) ==
  /\ pc[t] = "timeout"
  /\ hostPid' = FALSE
  /\ Return(t, FALSE)
  /\ UNCHANGED <<auto, lock, hostService, stopFlag, tokens, status, procVars, dev, calls, raced, faults, clean>>

\* Mutant of LockAdd: the early return forgets the unlock.
LockAddForgets(t) ==
  /\ pc[t] = "lockadd" /\ lock = None
  /\ lock' = t
  /\ IF hostService = None THEN Return(t, FALSE) ELSE Goto(t, "add")
  /\ UNCHANGED <<auto, hostVars, status, procVars, dev, calls, raced, faults, clean>>

\* Back under the lock; without a host service the load fails.
LockAdd(t) ==
  /\ pc[t] = "lockadd" /\ lock = None
  /\ IF hostService = None THEN Return(t, FALSE) /\ UNCHANGED lock
                           ELSE Goto(t, "add") /\ lock' = t
  /\ UNCHANGED <<auto, hostVars, status, procVars, dev, calls, raced, faults, clean>>

\* DevmgrServiceAttachDevice: one more token in the host's list.
AttachDevice(d) == tokens' = [tokens EXCEPT ![d] = @ + 1]

\* hostService->AddDevice: DevHostServiceFullAddDevice in the process, whose
\* driver attaches a token with DevmgrServiceAttachDevice on the way.  That
\* handler takes no lock: its caller's caller holds it.  It fails if the process
\* is gone, has the device already, or its driver does not come up (a fault).
AddDevice(t) ==
  LET d == dev[t]  i == hostService IN
  /\ pc[t] = "add"
  /\ \/ /\ i # None /\ i = proc /\ d \notin Loaded(i)
        /\ devices' = [devices EXCEPT ![i] = Append(@, d)]
        /\ AttachDevice(d)
        /\ Goto(t, "added")
        /\ UNCHANGED <<faults, clean>>
     \/ /\ IF i # proc \/ d \in Loaded(i) THEN UNCHANGED <<faults, clean>> ELSE Fault
        /\ UNCHANGED <<devices, tokens>>
        /\ Goto(t, "notadded")
  /\ UNCHANGED <<auto, lock, hostPid, hostService, stopFlag, status, proc, inst, dev, calls, raced>>

\* The reply; if the process died meanwhile it is an error although the token
\* was attached.
AddDone(t) ==
  /\ pc[t] \in {"added", "notadded"}
  /\ lock' = None
  /\ \/ pc[t] = "added" /\ Goto(t, "usable")
     \/ (pc[t] = "notadded" \/ proc # hostService) /\ Return(t, FALSE)
  /\ UNCHANGED <<auto, hostVars, status, procVars, dev, calls, raced, faults, clean>>

\* The status is written after the unlock.
MarkUsable(t) ==
  /\ pc[t] = "usable"
  /\ status' = [status EXCEPT ![dev[t]] = "usable"]
  /\ Return(t, TRUE)
  /\ UNCHANGED <<auto, lock, hostVars, procVars, dev, calls, raced, faults, clean>>

---------------------------------------------------------------------------
\* DevmgrServiceUnloadDevice: under the lock, fails without a host service.
LockDel(t) ==
  /\ pc[t] = "unload" /\ lock = None
  /\ IF hostService = None THEN Return(t, FALSE) /\ UNCHANGED lock
                           ELSE Goto(t, "del") /\ lock' = t
  /\ UNCHANGED <<auto, hostVars, status, procVars, dev, calls, raced, faults, clean>>

\* Mutant of DetachDevice: the token is found but not removed.
DetachDeviceKeeps(d) == UNCHANGED tokens

\* DevmgrServiceDetachDevice: the first token of the device, if there is one.
DetachDevice(d) == tokens' = [tokens EXCEPT ![d] = IF @ > 0 THEN @ - 1 ELSE 0]

\* hostService->DelDevice: the process removes the device and its token
\* (DevmgrServiceDetachDevice); it fails if the process is gone or has no such device.
DelDevice(t) ==
  LET d == dev[t]  i == hostService IN
  /\ pc[t] = "del"
  /\ IF i = proc /\ d \in Loaded(i)
       THEN /\ devices' = [devices EXCEPT ![i] = RemoveFirst(@, d)]
            /\ DetachDevice(d)
            /\ Goto(t, "deleted")
            /\ UNCHANGED lock
       ELSE /\ UNCHANGED <<devices, tokens>>
            /\ Return(t, FALSE)
            /\ lock' = None
  /\ UNCHANGED <<auto, hostPid, hostService, stopFlag, status, proc, inst, dev, calls, raced, faults, clean>>

\* Mutant of Unloaded: the host is stopped although it still has devices.
UnloadedStopsAnyway(t) ==
  /\ pc[t] = "deleted"
  /\ lock' = None
  /\ status' = [status EXCEPT ![dev[t]] = "unusable"]
  /\ IF auto
       THEN UNCHANGED hostVars /\ Return(t, FALSE)
       ELSE /\ hostPid' = FALSE /\ hostService' = None
            /\ tokens' = [d \in Devs |-> 0]
            /\ Goto(t, "stop")
            /\ UNCHANGED stopFlag
  /\ UNCHANGED <<auto, procVars, dev, calls, raced, faults, clean>>

\* The device is unusable; the host is forgotten, and then stopped, if that was
\* its last device and it was started on demand.
Unloaded(t) ==
  /\ pc[t] = "deleted"
  /\ lock' = None
  /\ status' = [status EXCEPT ![dev[t]] = "unusable"]
  /\ IF auto \/ \E d \in Devs : tokens[d] > 0
       THEN UNCHANGED hostVars /\ Return(t, FALSE)
       ELSE /\ hostPid' = FALSE /\ hostService' = None
            /\ tokens' = [d \in Devs |-> 0]
            /\ Goto(t, "stop")
            /\ UNCHANGED stopFlag
  /\ UNCHANGED <<auto, procVars, dev, calls, raced, faults, clean>>

\* DevmgrServiceStopHost, without the lock: stop the process, then say so.
StopHost(t) ==
  /\ pc[t] = "stop"
  /\ Kill
  /\ Goto(t, "stopped")
  /\ UNCHANGED <<auto, lock, hostVars, status, dev, calls, raced, faults, clean>>

StopFlag(t) ==
  /\ pc[t] = "stopped"
  /\ stopFlag' = TRUE
  /\ Return(t, FALSE)
  /\ UNCHANGED <<auto, lock, hostPid, hostService, tokens, status, procVars, dev, calls, raced, faults, clean>>

---------------------------------------------------------------------------
\* DevHostServiceFullStartService: the request to attach goes to the manager.
StartService(i) == inst' = [inst EXCEPT ![i] = "attaching"]

\* devhost main up to StartService, which returns when the request is served.
HostMain(i) ==
  /\ proc = i /\ inst[i] = "starting"
  /\ StartService(i)
  /\ UNCHANGED <<auto, lock, hostVars, status, proc, devices, callVars, faults, clean>>

\* DevmgrServiceAttachDeviceHost in the manager.  The request of a process that
\* is dead by now may still be served.  Devices to start at boot are not tracked.
AttachDeviceHost(i) ==
  /\ inst[i] = "attaching" /\ lock = None
  /\ hostService' = i
  /\ inst' = [inst EXCEPT ![i] = "up"]
  /\ UNCHANGED <<auto, lock, hostPid, stopFlag, tokens, status, proc, devices, callVars, faults, clean>>

\* ... or is dropped with its process (external).
AttachLost(i) ==
  /\ inst[i] = "attaching" /\ proc # i
  /\ inst' = [inst EXCEPT ![i] = "free"]
  /\ UNCHANGED <<auto, lock, hostVars, status, proc, devices, callVars, faults, clean>>

\* main's error returns, and DevHostSegvHandler's _exit.
HostExits ==
  /\ proc # None /\ Fault
  /\ Kill
  /\ UNCHANGED <<auto, lock, hostVars, status, callVars>>

\* CleanupDiedHostResources (external): the proxy of the dead process is
\* dropped, and the host's record reset if that is the proxy it holds.
HostDied(i) ==
  /\ inst[i] = "up" /\ proc # i /\ lock = None
  /\ inst' = [inst EXCEPT ![i] = "free"]
  /\ devices' = [devices EXCEPT ![i] = <<>>]
  /\ IF hostService = i
       THEN /\ hostPid' = FALSE /\ hostService' = None
            /\ tokens' = [d \in Devs |-> 0]
       ELSE UNCHANGED <<hostPid, hostService, tokens>>
  /\ UNCHANGED <<auto, lock, stopFlag, status, proc, callVars, faults, clean>>

---------------------------------------------------------------------------
CallerStep(t) ==
  \/ LoadDevice(t) \/ StartDeviceHost(t) \/ StartFailed(t) \/ Started(t)
  \/ HostAttached(t) \/ HostTimeout(t) \/ TimedOut(t)
  \/ LockAdd(t) \/ AddDevice(t) \/ AddDone(t) \/ MarkUsable(t)
  \/ LockDel(t) \/ DelDevice(t) \/ Unloaded(t) \/ StopHost(t) \/ StopFlag(t)

HostStep(i) == HostMain(i) \/ AttachDeviceHost(i)

Next ==
  \/ RetrierCalls
  \/ \E t \in Callers : OthersCall(t) \/ CallerStep(t)
  \/ \E i \in Insts : HostStep(i) \/ AttachLost(i) \/ HostDied(i)
  \/ HostExits

\* Processes and threads are scheduled; hostLock is given to every thread that
\* keeps asking for it (strong fairness of the steps that take it).
Fairness ==
  /\ WF_vars(RetrierCalls)
  /\ \A t \in Callers : SF_vars(CallerStep(t))
  /\ SF_vars(\E i \in Insts : HostStep(i))
  /\ SF_vars(\E i \in Insts : HostDied(i))

Spec == Init /\ [][Next]_vars /\ Fairness

---------------------------------------------------------------------------
\* DevHostServiceFullDispatchPowerState: the nodes of one device, in order for
\* a wake state, backwards for a suspend state.  A failing node is skipped.
DispatchPowerState(wake, nodes) == IF wake THEN nodes ELSE Reverse(nodes)

\* Mutant of PmNotify: both directions walk the devices alike.
PmNotifySameOrder(wake, host) ==
  FlattenSeq([k \in 1..Len(host) |-> DispatchPowerState(wake, host[k])])

\* DevHostServiceFullPmNotify: the devices of one host, backwards for a wake
\* state, in order for a suspend state.
PmNotify(wake, host) ==
  LET order == IF wake THEN Reverse(host) ELSE host
  IN  FlattenSeq([k \in 1..Len(order) |-> DispatchPowerState(wake, order[k])])

\* DevmgrServicePowerStateChange: the hosts, in order for a wake state.
PowerStateChange(wake, hosts) ==
  LET order == IF wake THEN hosts ELSE Reverse(hosts)
  IN  FlattenSeq([k \in 1..Len(order) |-> PmNotify(wake, order[k])])

---------------------------------------------------------------------------
Quiet == lock = None /\ \A t \in Callers : ~Busy(t)

\* While no process failed and no wait ran out, the manager's record of the host agrees with the
\* process whenever no call is in progress, however calls interleaved before:
\* a token for each device the process has loaded and no other, and a device
\* marked usable exactly if it is loaded, unless two calls were about that very
\* device at once (MarkUsable comes after the unlock).
RecordMatchesHost ==
  Quiet /\ clean =>
    \A d \in Devs :
      /\ tokens[d] = IF d \in Loaded(hostService) THEN 1 ELSE 0
      /\ d \notin raced => (status[d] = "usable" <=> d \in Loaded(hostService))

\* Stopping the host after its last unload happens outside the lock, and names
\* the host, not the process.  While no process failed and no wait ran out,
\* what it stops has no device loaded, though another caller may be starting the
\* host again.  (A stop delayed past another caller's timeout stops the process
\* that caller's next load started.)
StopIsIdle == [][(\E t \in Callers : StopHost(t)) /\ clean => Loaded(proc) = {}]_vars

\* The manager recovers.  After any crash, failed start, late attach or stop
\* that raced with a load, a caller that keeps asking for a device of an
\* on-demand host finds it loaded in a running, attached process again and
\* again: no combination of hostPid and
\* hostService makes every later load fail.
LoadRecovers == ~auto => []<>(proc # None /\ hostService = proc /\ Wanted \in Loaded(proc))

\* Going to sleep is the mirror image of waking up: over hosts, devices and
\* nodes together, what is resumed first is suspended last.
SuspendMirrorsWake ==
  proc # None =>
    LET host == [k \in 1..Len(devices[proc]) |-> <<<<devices[proc][k], 1>>, <<devices[proc][k], 2>>>>]
        hosts == <<host, <<<<<<"other", 1>>>>>>>>
    IN  PowerStateChange(FALSE, hosts) = Reverse(PowerStateChange(TRUE, hosts))

=============================================================================
