--------------------------- MODULE ServiceChild ---------------------------
(***************************************************************************)
(* The child init forks for a service (init_common_service.c,               *)
(* standard/init_service.c), from RunChildProcess to execv: it closes what    *)
(* belongs to others, sets up its environment, sockets and files, and then    *)
(* gives up init's credentials in the order SetPerms prescribes.  Each step   *)
(* may fail; some failures are only noted, the others end the child.  The     *)
(* same set-up followed by a shell is EnterServiceSandbox.                    *)
(*                                                                           *)
(* The port once skipped SetPerms, every service ran as root and the          *)
(* services that ask who calls them refused each other; what is checked here  *)
(* is that no path leads to execv with other credentials than configured.     *)
(***************************************************************************)
EXTENDS Naturals, Sequences, SequencesExt, FiniteSets

CONSTANTS
  AllCaps,     \* the capabilities 0..CAP_LAST_CAP
  CapLists,    \* the servPerm.caps of configurations; may contain Full
  GidLists,    \* the servPerm.gIDArray of configurations
  Uids         \* the servPerm.uID of configurations; 0 is root

Full == "FULL_CAP"
OK == "INIT_OK"
Self == "self"      \* the service; "other" stands for every other one

\* Finitely many capabilities, those that the steps below need among them, and
\* configurations that name capabilities and ids.  A list may name one twice.
ASSUME CapsAssumption ==
  /\ IsFiniteSet(AllCaps) /\ {"setgid", "setuid", "setpcap"} \subseteq AllCaps
  /\ Full \notin AllCaps
  /\ CapLists \subseteq Seq(AllCaps \cup {Full})
  /\ GidLists \subseteq Seq(Nat) /\ Uids \subseteq Nat

VARIABLES
  cfg,       \* the service's configuration, and how the child was entered
  pc,        \* the next step
  lastErrno, \* service->lastErrno in the child
  faulty,    \* some call failed that the configuration allows to succeed
  socks,     \* services whose sockets the child has open
  blocked,   \* SIGCHLD and SIGTERM are blocked, as in init
  hooks,     \* the hooks run: SET_PERMS_BEFORE, SET_PERMS
  cred       \* the kernel's credentials of the child

vars == <<cfg, pc, lastErrno, faulty, socks, blocked, hooks, cred>>

Configs ==
  [uid : Uids, gids : GidLists, caps : CapLists, onDemand : BOOLEAN, console : BOOLEAN,
   important : BOOLEAN, spawner : BOOLEAN, debug : BOOLEAN, entry : {"service", "shell"}]

Caps == Range(cfg.caps)
IsFull == Full \in Caps
Wanted == IF IsFull THEN AllCaps ELSE Caps

Init ==
  /\ cfg \in Configs
  /\ pc = IF cfg.entry = "service" THEN "context" ELSE "sandbox"
  /\ lastErrno = OK /\ faulty = FALSE
  /\ socks = {"other"} \cup {s \in {Self} : cfg.onDemand}
  /\ blocked = TRUE /\ hooks = {}
  /\ cred = [uid |-> 0, gid |-> 0, groups |-> {}, keep |-> FALSE, eff |-> AllCaps,
             perm |-> AllCaps, inh |-> {}, amb |-> {}, bnd |-> AllCaps]

---------------------------------------------------------------------------
Goto(l) == pc' = l

\* A step whose failure is noted in lastErrno and survived.
Soft(from, code, to) ==
  /\ pc = from
  /\ Goto(to)
  /\ \/ UNCHANGED <<lastErrno, faulty>>
     \/ lastErrno' = code /\ faulty' = TRUE

\* InitServiceProperties fails: RunChildProcess exits with lastErrno, while
\* EnterServiceSandbox returns to its caller.
Fail(code) ==
  /\ lastErrno' = code
  /\ Goto(IF cfg.entry = "service" THEN "exited" ELSE "returned")

\* A step whose failure ends the child.
Hard(from, code, to) ==
  /\ pc = from
  /\ \/ Goto(to) /\ UNCHANGED <<lastErrno, faulty>>
     \/ Fail(code) /\ faulty' = TRUE

other == <<cfg, socks, blocked, hooks, cred>>

---------------------------------------------------------------------------
\* RunChildProcess: the label of the service's context.
SetSubInitContext == Soft("context", "INIT_ECONTENT", "closefds") /\ UNCHANGED other

\* Mutant of CloseOnDemandServiceFdForOtherService: the service's own socket goes too.
CloseEveryOnDemandFd ==
  /\ pc = "closefds"
  /\ socks' = {}
  /\ Goto("debug")
  /\ UNCHANGED <<cfg, lastErrno, faulty, blocked, hooks, cred>>

CloseOnDemandServiceFdForOtherService ==
  /\ pc = "closefds"
  /\ socks' = socks \cap {Self}
  /\ Goto("debug")
  /\ UNCHANGED <<cfg, lastErrno, faulty, blocked, hooks, cred>>

\* ServiceNeedDebug and IsDebuggableVersion: wait for a debugger or go on.
DebugCheck ==
  /\ pc = "debug"
  /\ Goto(IF cfg.debug THEN "waitdebug" ELSE "sandbox")
  /\ UNCHANGED <<lastErrno, faulty, other>>

\* WaitForDebugger: CheckTraceStatus found a tracer.
WaitForDebugger ==
  /\ pc = "waitdebug"
  /\ Goto("sandbox")
  /\ UNCHANGED <<lastErrno, faulty, other>>

---------------------------------------------------------------------------
\* InitServiceProperties.  SetServiceEnterSandbox returns 0 at once in this port.
EnterSandbox ==
  /\ pc = "sandbox"
  /\ Goto("token")
  /\ UNCHANGED <<lastErrno, faulty, other>>

SetAccessToken == Soft("token", "INIT_EACCESSTOKEN", "env") /\ UNCHANGED other

\* SetServiceEnv, the start job, ClearEnvironment.
ClearEnvironment ==
  /\ pc = "env"
  /\ blocked' = (blocked /\ cfg.spawner)
  /\ Goto("socket")
  /\ UNCHANGED <<cfg, lastErrno, faulty, socks, hooks, cred>>

CreateSocketForService ==
  /\ pc = "socket" /\ ~cfg.onDemand
  /\ \/ socks' = socks \cup {Self} /\ Goto("file") /\ UNCHANGED <<lastErrno, faulty>>
     \/ Fail("INIT_ESOCKET") /\ faulty' = TRUE /\ UNCHANGED socks
  /\ UNCHANGED <<cfg, blocked, hooks, cred>>

\* An on-demand service inherited its sockets from init.
KeepSocket ==
  /\ pc = "socket" /\ cfg.onDemand
  /\ Goto("file")
  /\ UNCHANGED <<lastErrno, faulty, other>>

CreateServiceFile == Hard("file", "INIT_EFILE", IF cfg.console THEN "console" ELSE "holdfds") /\ UNCHANGED other
OpenConsole       == Hard("console", "INIT_ECONSOLE", "holdfds") /\ UNCHANGED other
PublishHoldFds    == Hard("holdfds", "INIT_EHOLDER", "cpu") /\ UNCHANGED other

\* A failure of BindCpuCore is only logged ...
BindCpuCore ==
  /\ pc = "cpu"
  /\ Goto("writepid")
  /\ UNCHANGED <<lastErrno, faulty, other>>

\* ... and WritePid returns success whatever it meets.
WritePid ==
  /\ pc = "writepid"
  /\ Goto("hookbefore")
  /\ UNCHANGED <<lastErrno, faulty, other>>

---------------------------------------------------------------------------
\* SetPerms.  The kernel's rules (external): what each call needs and leaves.
MayChangeIds(cap) == cap \in cred.eff
AfterSetuid(u) ==
  IF u = 0 THEN [cred EXCEPT !.uid = u]
  ELSE [cred EXCEPT !.uid = u, !.eff = IF cred.keep THEN @ ELSE {},
                    !.perm = IF cred.keep THEN @ ELSE {}, !.amb = IF cred.keep THEN @ ELSE {}]
MayCapset(new) == new \subseteq cred.perm /\ new \subseteq (cred.inh \cup cred.bnd)
MayRaise(c) == c \in cred.perm \cap cred.inh

\* A call of SetPerms: the kernel allows it and it works, or it fails.
Perm(from, code, may, new, to) ==
  /\ pc = from
  /\ \/ may /\ cred' = new /\ Goto(to) /\ UNCHANGED <<lastErrno, faulty>>
     \/ Fail(code) /\ UNCHANGED cred /\ faulty' = (faulty \/ may)
  /\ UNCHANGED <<cfg, socks, blocked, hooks>>

\* Mutant of HookBefore: the rest of SetPerms is skipped, as this port once did.
PermsSkipped ==
  /\ pc = "hookbefore"
  /\ hooks' = hooks \cup {"before"}
  /\ Goto("priority")
  /\ UNCHANGED <<cfg, lastErrno, faulty, socks, blocked, cred>>

HookBefore ==
  /\ pc = "hookbefore"
  /\ hooks' = hooks \cup {"before"}
  /\ Goto("keepcap")
  /\ UNCHANGED <<cfg, lastErrno, faulty, socks, blocked, cred>>

\* Mutant of KeepCapability: the process is not told to keep its capabilities.
KeepCapabilityNot == Perm("keepcap", "INIT_EKEEPCAP", TRUE, cred, "setgid")

KeepCapability == Perm("keepcap", "INIT_EKEEPCAP", TRUE, [cred EXCEPT !.keep = TRUE], "setgid")

\* ServiceSetGid: the uid stands in for a missing gid; further gids are groups.
ServiceSetGid ==
  LET gid == IF cfg.gids = <<>> THEN cfg.uid ELSE Head(cfg.gids)
  IN  Perm("setgid", "INIT_EGIDSET", MayChangeIds("setgid"),
           [cred EXCEPT !.gid = gid, !.groups = IF Len(cfg.gids) > 1 THEN Range(Tail(cfg.gids)) ELSE @],
           "seccomp")

SetSystemSeccompPolicy ==
  Perm("seccomp", "INIT_ESECCOMP", TRUE, cred, IF cfg.uid # 0 THEN "setuid" ELSE "drop")

SetUid == Perm("setuid", "INIT_EUIDSET", MayChangeIds("setuid"), AfterSetuid(cfg.uid), "capset")

\* GetInvalidCaps: the capabilities that are not configured, at most
\* CAP_LAST_CAP - capsCnt + 1 of which are dropped.
InvalidCaps == {D \in SUBSET (AllCaps \ Caps) :
                  Cardinality(D) = Cardinality(AllCaps) - Len(cfg.caps)}

\* DropCapability, for root services with configured capabilities.  Its failure,
\* which may come after some were dropped, is not reported to SetPerms.  A list
\* with more entries than there are capabilities makes calloc fail.
DropCapability ==
  /\ pc = "drop" /\ Goto("capset")
  /\ \/ cfg.caps = <<>> /\ UNCHANGED <<cred, faulty>>
     \/ /\ cfg.caps # <<>> /\ "setpcap" \in cred.eff
        /\ \E D \in InvalidCaps : cred' = [cred EXCEPT !.bnd = @ \ D]
        /\ UNCHANGED faulty
     \/ /\ cfg.caps # <<>>
        /\ \E D \in {{}} \cup UNION {SUBSET E : E \in InvalidCaps} : cred' = [cred EXCEPT !.bnd = @ \ D]
        /\ faulty' = TRUE
  /\ UNCHANGED <<cfg, lastErrno, socks, blocked, hooks>>

\* capset with effective, permitted and inheritable alike.
Capset ==
  Perm("capset", "SERVICE_FAILURE", MayCapset(Wanted),
       [cred EXCEPT !.eff = Wanted, !.perm = Wanted, !.inh = Wanted, !.amb = @ \cap Wanted], "ambient")

\* SetAmbientCapability for each, SetAllAmbientCapability for FULL_CAP; the
\* latter returns from SetPerms at once, past the second hook.
Ambient ==
  Perm("ambient", "INIT_ECAP", \A c \in Wanted : MayRaise(c), [cred EXCEPT !.amb = @ \cup Wanted],
       IF IsFull THEN "priority" ELSE "hook")

HookAfter ==
  /\ pc = "hook"
  /\ hooks' = hooks \cup {"after"}
  /\ Goto("priority")
  /\ UNCHANGED <<cfg, lastErrno, faulty, socks, blocked, cred>>

---------------------------------------------------------------------------
\* ServiceExec, and the end of EnterServiceSandbox: setpriority ...
SetPriority ==
  /\ pc = "priority"
  /\ \/ Goto("execv") /\ UNCHANGED <<lastErrno, faulty>>
     \/ /\ cfg.important /\ faulty' = TRUE
        /\ lastErrno' = IF cfg.entry = "service" THEN "INIT_EPRIORITY" ELSE "0x7f"
        /\ Goto("exited")
  /\ UNCHANGED other

\* What execve makes of the credentials (external): root gets what it may
\* inherit or is bounded by, everyone else the ambient capabilities.
AfterExec == IF cred.uid = 0 THEN cred.inh \cup cred.bnd ELSE cred.amb

\* ... and execv, of the service's path or of /bin/sh.
Execv ==
  /\ pc = "execv"
  /\ \/ Goto("exec") /\ UNCHANGED <<lastErrno, faulty>>
     \/ /\ faulty' = TRUE
        /\ lastErrno' = IF cfg.entry = "service" THEN "INIT_EEXEC" ELSE "PROCESS_EXIT_CODE"
        /\ Goto("exited")
  /\ UNCHANGED other

Done == pc \in {"exec", "exited", "returned"} /\ UNCHANGED vars

Next ==
  \/ SetSubInitContext \/ CloseOnDemandServiceFdForOtherService \/ DebugCheck \/ WaitForDebugger
  \/ EnterSandbox \/ SetAccessToken \/ ClearEnvironment \/ CreateSocketForService \/ KeepSocket
  \/ CreateServiceFile \/ OpenConsole \/ PublishHoldFds \/ BindCpuCore \/ WritePid
  \/ HookBefore \/ KeepCapability \/ ServiceSetGid \/ SetSystemSeccompPolicy
  \/ SetUid \/ DropCapability \/ Capset \/ Ambient \/ HookAfter
  \/ SetPriority \/ Execv \/ Done

Spec == Init /\ [][Next]_vars /\ WF_vars(Next)

---------------------------------------------------------------------------
Unrestricted == cfg.uid = 0 /\ cfg.caps = <<>>

\* The configuration names a capability twice.
Repeats == \E i, j \in 1..Len(cfg.caps) : i # j /\ cfg.caps[i] = cfg.caps[j]

\* Whatever fails on the way, a program that is executed runs with its own
\* sockets, inherited if it is on demand and created otherwise, and with no
\* on-demand socket of another service (the shell of EnterServiceSandbox skips
\* that step); with SIGCHLD and SIGTERM open unless it is a spawner; with the ids
\* and groups of its configuration and, after the kernel's rules for execve,
\* with exactly the configured capabilities (a root service without any keeps
\* all).  There are three exceptions: a DropCapability that failed is not reported
\* and a root service then keeps more than it was given; it also does when its
\* list names a capability twice, because DropCapability takes the length of the
\* list for the number of capabilities to keep; and FULL_CAP skips the hooks of
\* INIT_SERVICE_SET_PERMS.
ExecAsConfigured ==
  pc = "exec" =>
    /\ Self \in socks /\ (cfg.entry = "service" => socks = {Self})
    /\ blocked = cfg.spawner
    /\ hooks = IF IsFull THEN {"before"} ELSE {"before", "after"}
    /\ cred.uid = cfg.uid
    /\ cred.gid = IF cfg.gids = <<>> THEN cfg.uid ELSE Head(cfg.gids)
    /\ cred.groups = IF cfg.gids = <<>> THEN {} ELSE Range(Tail(cfg.gids))
    /\ \/ AfterExec = IF Unrestricted THEN AllCaps ELSE Wanted
       \/ cfg.uid = 0 /\ (faulty \/ Repeats)

\* If every call does what the kernel allows, the program is executed: each step
\* of SetPerms leaves the later ones the capabilities they need.  A root service
\* configured with FULL_CAP is left out: FULL_CAP is no capability number, so
\* DropCapability empties the bounding set and capset refuses.
CleanChildExecs ==
  ~(cfg.uid = 0 /\ IsFull) => <>(pc = "exec" \/ faulty)

=============================================================================
