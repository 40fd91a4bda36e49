------------------------------ MODULE InitService ------------------------------
(***************************************************************************)
(* The life of one service under init, process 1: started, stopped and     *)
(* reset by command, by timers and by clients of its socket, reaped when   *)
(* its process ends and restarted according to its attributes              *)
(* (services/init/init_common_service.c, standard/init_service.c).         *)
(*                                                                         *)
(* init is a single-threaded event loop: each handler is one step, and     *)
(* between two of them processes end and time passes.  What the children   *)
(* do, and the jobs and commands a service may run, are left out.          *)
(***************************************************************************)
EXTENDS Integers, Sequences

CONSTANTS
  Pids,         \* process ids
  None,         \* pid -1: no process
  Kinds,        \* attribute sets a service can be configured with
  CrashTime,    \* service->crashTime, in seconds
  CrashCount,   \* service->crashCount
  MaxTime,      \* bound on the clock
  MaxHoldFds,   \* MAX_HOLD_FDS
  FdCounts,     \* numbers of descriptors a service asks init to hold
  Failures      \* sets of system calls that can fail in one life of init

ASSUME InitServiceAssumption ==
  /\ None \notin Pids
  /\ Kinds \subseteq SUBSET {"once", "period", "ondemand", "critical"}
  /\ CrashTime \in Nat \ {0} /\ CrashCount \in Nat \ {0}
  /\ MaxTime \in Nat /\ MaxHoldFds \in Nat
  /\ FdCounts \subseteq Nat \ {0}
  /\ Failures \subseteq SUBSET {"stat", "fork", "timer", "kill", "watch"}

VARIABLES
  kind,         \* the attributes of the service that never change
  failing,      \* the system calls that can fail
  invalid,      \* SERVICE_ATTR_INVALID
  needRestart,  \* SERVICE_ATTR_NEED_RESTART
  needStop,     \* SERVICE_ATTR_NEED_STOP
  pid,          \* service->pid
  status,       \* service->status, as published in the parameters
  pubPid,       \* the pid published with it
  timer,        \* the service's timer is armed
  crashCnt,     \* service->crashCnt
  firstCrash,   \* service->firstCrashTime
  sock,         \* the socket of an on-demand service
  fds,          \* service->fds is not NULL
  fdCount,      \* service->fdCount
  alive,        \* children of init that run
  zombies,      \* children of init that have ended and are not yet reaped
  killed,       \* children init has sent a signal to
  now,          \* CLOCK_MONOTONIC, in seconds
  panicked,     \* ExecReboot("panic") has been called
  broken,       \* init has dereferenced NULL
  stopped,      \* history: what the last stop found, "no" after a start
  crashes       \* history: times of the last crashes since crashCnt was 0

fixed == <<kind, failing>>
flags == <<invalid, needRestart, needStop>>
shown == <<pid, status, pubPid>>
count == <<crashCnt, firstCrash, crashes, panicked>>
held  == <<fds, fdCount>>
procs == <<alive, zombies, killed>>
vars  == <<fixed, flags, shown, timer, count, sock, held, procs, now, broken, stopped>>

Is(a) == a \in kind

Init ==
  /\ kind \in Kinds /\ failing \in Failures
  /\ invalid = FALSE /\ needRestart = FALSE /\ needStop = FALSE
  /\ pid = None /\ status = "idle" /\ pubPid = None
  /\ timer = FALSE
  /\ crashCnt = 0 /\ firstCrash = 0 /\ crashes = <<>>
  /\ sock = IF Is("ondemand") THEN "watched" ELSE "closed"
  /\ fds = FALSE /\ fdCount = 0
  /\ alive = {} /\ zombies = {} /\ killed = {}
  /\ now = 0
  /\ panicked = FALSE /\ broken = FALSE
  /\ stopped = "no"

\* The call named f fails.
Fails(f) == f \in failing

-----------------------------------------------------------------------------
(* ServiceStart *)

\* NotifyServiceChange with service->pid = p
Notify(s, p) == status' = s /\ pubPid' = p

\* ServiceStart after its "already started" and validity checks; a failure
\* leaves the published status as the caller made it, with pid unset.
Launch(s, published) ==
  /\ needRestart' = FALSE /\ needStop' = FALSE
  /\ \/ \E p \in Pids \ (alive \cup zombies) :
          /\ pid' = p
          /\ alive' = alive \cup {p}
          /\ killed' = killed \ {p}
          /\ Notify("started", p)
          /\ UNCHANGED invalid
     \/ /\ \/ Fails("stat") /\ invalid' = TRUE
           \/ Fails("fork") /\ UNCHANGED invalid
        /\ pid' = None
        /\ Notify(s, published)
        /\ UNCHANGED <<alive, killed>>

\* Mutant of ServiceStart: the check for a running process is dropped.
ServiceStartAgain ==
  \/ invalid /\ UNCHANGED <<flags, shown, alive, killed>>
  \/ ~invalid /\ Launch(status, pubPid)

ServiceStart ==
  \/ (pid # None \/ invalid) /\ UNCHANGED <<flags, shown, alive, killed>>
  \/ pid = None /\ ~invalid /\ Launch(status, pubPid)

CommandStart ==
  /\ ServiceStart
  /\ stopped' = "no"
  /\ UNCHANGED <<fixed, timer, count, sock, held, zombies, now, broken>>

-----------------------------------------------------------------------------
(* Timers *)

\* Mutant of ServiceStopTimer: the timer is forgotten but not stopped.
ServiceStopTimerOnly == UNCHANGED timer

ServiceStopTimer == timer' = FALSE

\* A timer that is armed is replaced; one that cannot be created stays off.
ServiceStartTimer ==
  \/ timer' = TRUE
  \/ Fails("timer") /\ timer' = FALSE

CommandTimer ==
  /\ ServiceStartTimer
  /\ stopped' = "no"
  /\ UNCHANGED <<fixed, flags, shown, count, sock, held, procs, now, broken>>

\* Mutant of TimerFires: the timer is spent without a start.
TimerFiresIdle ==
  /\ timer
  /\ ServiceStopTimer
  /\ UNCHANGED <<fixed, flags, shown, count, sock, held, procs, now, broken, stopped>>

\* ServiceTimerStartProcess and ServiceTimerReStartProcess
TimerFires ==
  /\ timer
  /\ ServiceStopTimer
  /\ ServiceStart
  /\ UNCHANGED <<fixed, count, sock, held, zombies, now, broken, stopped>>

-----------------------------------------------------------------------------
(* ServiceStop and reset *)

CloseServiceFds == fds' = FALSE /\ fdCount' = 0

\* A stop that finds no process only marks the service.
CommandStop ==
  /\ needRestart' = FALSE /\ needStop' = TRUE
  /\ \/ /\ pid = None
        /\ Notify("stopping", None)
        /\ stopped' = "idle"
        /\ UNCHANGED <<pid, timer, sock, held, killed>>
     \/ /\ pid # None
        /\ sock' = "closed" /\ CloseServiceFds
        /\ ServiceStopTimer
        /\ stopped' = "running"
        /\ \/ /\ killed' = killed \cup {pid}
              /\ pid' = None
              /\ Notify("stopped", None)
           \/ Fails("kill") /\ Notify("stopping", pid) /\ UNCHANGED <<pid, killed>>
  /\ UNCHANGED <<fixed, invalid, count, alive, zombies, now, broken>>

\* The reset command kills a running service and asks for its restart.
CommandReset ==
  /\ stopped' = "no"
  /\ \/ /\ pid # None
        /\ killed' = killed \cup {pid}
        /\ needRestart' = TRUE
        /\ UNCHANGED <<invalid, needStop, shown, alive>>
     \/ pid = None /\ ServiceStart
  /\ UNCHANGED <<fixed, timer, count, sock, held, zombies, now, broken>>

-----------------------------------------------------------------------------
(* Descriptors that init holds for a service *)

\* The old descriptors are closed even when the new ones are refused.
UpdaterServiceFds(n) ==
  \/ n = fdCount /\ UNCHANGED held
  \/ n # fdCount /\ n <= MaxHoldFds /\ fds' = TRUE /\ fdCount' = n
  \/ /\ n # fdCount /\ n > MaxHoldFds
     /\ fds' = (fds /\ fdCount = 0) /\ fdCount' = 0

HoldFds(n) ==
  /\ pid # None
  /\ UpdaterServiceFds(n)
  /\ UNCHANGED <<fixed, flags, shown, timer, count, sock, procs, now, broken, stopped>>

-----------------------------------------------------------------------------
(* ServiceReap *)

Recent(s) == IF Len(s) < 2 * CrashCount THEN s ELSE Tail(s)

\* A crash outside the window of the first one opens a new window.
CalculateCrashTime ==
  /\ crashes' = Recent(Append(crashes, now))
  /\ \/ /\ crashCnt = 0 \/ now - firstCrash > CrashTime
        /\ firstCrash' = now /\ crashCnt' = 1
     \/ /\ crashCnt # 0 /\ now - firstCrash <= CrashTime
        /\ crashCnt' = crashCnt + 1 /\ UNCHANGED firstCrash

\* Mutant of LimitReached: one crash too many is tolerated.
LimitReachedLate ==
  crashCnt # 0 /\ now - firstCrash <= CrashTime /\ crashCnt + 1 > CrashCount

\* Mutant of LimitReached: the age of the first crash is ignored.
LimitReachedAnyTime == crashCnt + 1 >= CrashCount

\* CalculateCrashTime returns false.
LimitReached ==
  \/ crashCnt = 0 /\ CrashCount = 1
  \/ crashCnt # 0 /\ now - firstCrash <= CrashTime /\ crashCnt + 1 >= CrashCount

ForgetCrashes == crashCnt' = 0 /\ crashes' = <<>> /\ UNCHANGED <<firstCrash, panicked>>

\* Mutant of Retire: the pid outlives the process.
RetireKeepsPid ==
  /\ Notify("stopped", pid)
  /\ UNCHANGED <<pid, alive, killed>>

\* The process is gone and nothing is started in its place.
Retire ==
  /\ Notify("stopped", pid)
  /\ pid' = None
  /\ UNCHANGED <<alive, killed>>

\* Mutant of CheckOndemandService: the socket is not watched again.
CheckOndemandServiceOnce == UNCHANGED <<sock, invalid, broken>>

\* CheckServiceSocket steps past a closed socket and then uses the end of the list.
CheckOndemandService ==
  \/ /\ sock # "closed"
     /\ sock' = "watched"
     /\ \/ UNCHANGED invalid
        \/ Fails("watch") /\ invalid' = TRUE
     /\ UNCHANGED broken
  \/ /\ sock = "closed"
     /\ broken' = TRUE
     /\ UNCHANGED <<sock, invalid>>

\* A crashed service that is neither one-shot nor periodic nor on demand.
RestartCrashed ==
  \/ /\ Is("critical")
     /\ CalculateCrashTime
     /\ panicked' = (panicked \/ LimitReached)
     /\ Launch("stopped", pid)
     /\ UNCHANGED timer
  \/ /\ ~Is("critical") /\ ~needRestart
     /\ \/ /\ ~LimitReached
           /\ CalculateCrashTime
           /\ Launch("stopped", pid)
           /\ UNCHANGED <<timer, panicked>>
        \/ /\ LimitReached
           /\ crashCnt' = 0 /\ crashes' = <<>>
           /\ firstCrash' = IF crashCnt = 0 THEN now ELSE firstCrash
           /\ Retire
           /\ ServiceStartTimer
           /\ UNCHANGED <<flags, panicked>>
  \/ /\ ~Is("critical") /\ needRestart
     /\ Launch("stopped", pid)
     /\ UNCHANGED <<timer, count>>

ServiceReap ==
  \/ /\ invalid \/ timer
     /\ Retire
     /\ UNCHANGED <<flags, timer, count, sock, broken>>
  \/ /\ ~invalid /\ ~timer /\ needStop
     /\ Retire
     /\ needStop' = FALSE
     /\ ForgetCrashes
     /\ UNCHANGED <<invalid, needRestart, timer, sock, broken>>
  \/ /\ ~invalid /\ ~timer /\ ~needStop
     /\ \/ /\ Is("once") /\ ~needRestart
           /\ Retire
           /\ UNCHANGED <<flags, timer, count, sock, broken>>
        \/ /\ Is("once") => needRestart
           /\ \/ /\ Is("period")
                 /\ Retire
                 /\ ServiceStartTimer
                 /\ UNCHANGED <<flags, count, sock, broken>>
              \/ /\ ~Is("period") /\ Is("ondemand")
                 /\ Retire
                 /\ CheckOndemandService
                 /\ UNCHANGED <<needRestart, needStop, timer, count>>
              \/ /\ ~Is("period") /\ ~Is("ondemand")
                 /\ RestartCrashed
                 /\ UNCHANGED <<sock, broken>>

\* SIGCHLD: init waits for each child and looks its service up by pid.
ReapChild(p) ==
  /\ p \in zombies
  /\ zombies' = zombies \ {p}
  /\ \/ p = pid /\ ServiceReap
     \/ p # pid /\ UNCHANGED <<flags, shown, timer, count, sock, alive, killed, broken>>
  /\ UNCHANGED <<fixed, held, now, stopped>>

-----------------------------------------------------------------------------
(* The rest of the system *)

\* A client connects: the watch is dropped and the service started.
SocketEvent ==
  /\ sock = "watched"
  /\ sock' = "open"
  /\ ServiceStart
  /\ UNCHANGED <<fixed, timer, count, held, zombies, now, broken, stopped>>

\* A process ends by itself or by a signal.
ProcessEnds(p) ==
  /\ p \in alive
  /\ alive' = alive \ {p}
  /\ zombies' = zombies \cup {p}
  /\ UNCHANGED <<fixed, flags, shown, timer, count, sock, held, killed, now, broken, stopped>>

KilledProcessEnds(p) == p \in killed /\ ProcessEnds(p)

Tick ==
  /\ now < MaxTime
  /\ now' = now + 1
  /\ UNCHANGED <<fixed, flags, shown, timer, count, sock, held, procs, broken, stopped>>

Command == CommandStart \/ CommandStop \/ CommandReset \/ CommandTimer

\* init has crashed, or the system is on its way down.
Down == broken \/ panicked

Next ==
  \/ Down /\ UNCHANGED vars
  \/ /\ ~Down
     /\ \/ Command \/ TimerFires \/ SocketEvent \/ Tick
        \/ \E n \in FdCounts : HoldFds(n)
        \/ \E p \in Pids : ReapChild(p) \/ ProcessEnds(p)

Spec == Init /\ [][Next]_vars

\* The event loop serves expired timers and SIGCHLD, and SIGKILL is obeyed.
FairSpec ==
  /\ Spec
  /\ WF_vars(~Down /\ TimerFires)
  /\ \A p \in Pids : /\ WF_vars(~Down /\ ReapChild(p))
                     /\ WF_vars(~Down /\ KilledProcessEnds(p))

-----------------------------------------------------------------------------
(* Properties *)

\* Every variable keeps its type.
TypeOK ==
  /\ kind \in Kinds /\ failing \in Failures
  /\ invalid \in BOOLEAN /\ needRestart \in BOOLEAN /\ needStop \in BOOLEAN
  /\ pid \in Pids \cup {None} /\ pubPid \in Pids \cup {None}
  /\ status \in {"idle", "started", "stopping", "stopped"}
  /\ timer \in BOOLEAN
  /\ crashCnt \in Nat /\ firstCrash \in Nat /\ crashes \in Seq(Nat)
  /\ sock \in {"closed", "open", "watched"}
  /\ fds \in BOOLEAN /\ fdCount \in 0 .. MaxHoldFds
  /\ alive \subseteq Pids /\ zombies \subseteq Pids /\ killed \subseteq Pids
  /\ now \in Nat
  /\ panicked \in BOOLEAN /\ broken \in BOOLEAN
  /\ stopped \in {"no", "idle", "running"}

\* init never forgets a process it has not told to end: whatever the order of
\* commands, timers, connections and deaths, a running child is the one in
\* service->pid or has been sent a signal (ServiceStart's check of the pid,
\* ServiceStop's reset of it before the death).
StrayIsKilled == \A p \in alive : p = pid \/ p \in killed

\* The pid init would signal, and the one it publishes with SERVICE_STARTED, is
\* a child it has not waited for, so that the kernel cannot have reused it.
PidIsOwnChild ==
  /\ pid # None => pid \in alive \cup zombies
  /\ status = "started" => pubPid = pid /\ pid # None

\* A stop that finds the service running is final: neither its timer, its
\* death nor its socket starts it again before the next command
\* ("stopped by system-init itself, no need to restart", ServiceReap).
StopOfRunningIsFinal ==
  [][stopped = "running" /\ stopped' = "running" /\ pid' # pid => pid' = None]_vars

\* A crash loop does not go on unnoticed, and nothing else reboots the system:
\* the fixed windows of CalculateCrashTime let at most 2 * CrashCount - 2 crashes
\* into any CrashTime seconds before a panic or a delayed restart, and a panic
\* comes only of a critical service whose last CrashCount crashes lie within
\* CrashTime seconds (ServiceReap).
CrashLoopIsNoticed ==
  /\ panicked \/ \A i \in 1 .. (Len(crashes) - (2 * CrashCount - 2)) :
                   crashes[i + 2 * CrashCount - 2] - crashes[i] > CrashTime
  /\ panicked => /\ Is("critical") /\ Len(crashes) >= CrashCount
                 /\ crashes[Len(crashes)] - crashes[Len(crashes) - CrashCount + 1]
                      <= CrashTime

\* An on-demand service that is down can be woken by its socket, unless it was
\* stopped or a timer will start it (ServiceReap, CheckOndemandService), when
\* its sockets can be watched again.  One that is also one-shot is not watched
\* again once it has ended.
OnDemandIsReachable ==
  Is("ondemand") /\ ~Is("once") /\ pid = None /\ stopped = "no" /\ ~invalid /\ ~broken
    /\ failing = {} =>
    timer \/ sock = "watched"

\* "fdCount > 0, There is no reason fds is NULL" (CloseServiceFds).
HeldFdsExist == fdCount > 0 => fds

Wanted ==
  /\ failing = {} /\ stopped = "no" /\ status # "idle" /\ ~invalid /\ ~Down
  /\ ~Is("once") /\ ~Is("ondemand")

\* A service that is meant to run always comes back: restarts, delayed
\* restarts and periods never leave it down for good when no call fails.
KeepsRunning == (Wanted /\ pid = None) ~> (pid # None \/ ~Wanted)
===============================================================================
