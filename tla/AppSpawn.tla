-------------------------------- MODULE AppSpawn --------------------------------
(***************************************************************************)
(* The application spawner (startup/appspawn/standard/appspawn_service.c,  *)
(* common/appspawn_server.c).                                              *)
(*                                                                         *)
(* A single-threaded event loop receives spawn requests, forks a child for *)
(* each, or wakes one it has forked in advance, and answers the client     *)
(* when the child has written its result into a pipe, has died, or has     *)
(* taken too long.  Children run, write, and die between any two handlers. *)
(* An application that was answered for is kept in a list until it is      *)
(* reaped; the death of the nwebspawn child, or MAX_CRASH_TIME requests in *)
(* a row whose children died, restart the spawner.                         *)
(*                                                                         *)
(* Requests are modelled from their complete reception on.  SIGCHLD is     *)
(* modelled one zombie at a time: the loop over waitpid is a sequence of   *)
(* Reap steps, and a death that is not yet visible may as well come later. *)
(***************************************************************************)
EXTENDS Integers, FiniteSets

CONSTANTS
  Pids,      \* process ids of children
  Nweb,      \* the nwebspawn child, forked before the loop starts
  None,      \* no process
  Conns,     \* connections
  MaxReq,    \* bound on the number of requests
  MaxCrash,  \* MAX_CRASH_TIME
  Prefork,   \* enablePerfork, once the boot has completed
  Failures   \* sets of calls that can fail in one life of the spawner

ASSUME AppSpawnAssumption ==
  /\ Nweb \notin Pids /\ None \notin Pids \cup {Nweb}
  /\ MaxReq \in Nat /\ MaxCrash \in Nat \ {0}
  /\ Prefork \in BOOLEAN
  /\ Failures \subseteq SUBSET {"pipe", "fork", "map", "write", "watch", "send"}

VARIABLES
  failing,      \* the calls that can fail
  server,       \* "run", or "stopped" once StopAppSpawn has been called
  conn,         \* each connection: "new", "open" or "closed"
  lastId,       \* the id of the last AppSpawningCtx
  spawning,     \* the queue of AppSpawningCtx
  apps,         \* the queue of AppSpawnedProcess
  reservedPid,  \* content->reservedPid, None for 0 and -1
  pipes,        \* the pipes of the reserved child: "fresh", "used" or "closed"
  lastDied,     \* g_lastDiedAppId
  crashTimes,   \* g_crashTimes
  sends,        \* answers with a pid that wait for SendMessageComplete
  proc,         \* each process as the kernel sees it
  job,          \* the request a child works for, 0 if none
  reply,        \* what has been written into the pipe of each request
  killed,       \* processes that have been sent a fatal signal
  answer,       \* history: what the client of each request was told
  crashed       \* history: requests whose child died before it answered

queues   == <<spawning, apps, sends>>
reserved == <<reservedPid, pipes>>
crashes  == <<lastDied, crashTimes, crashed>>
procs    == <<proc, job, killed>>
vars     == <<failing, server, conn, lastId, queues, reserved, crashes, procs, reply, answer>>

Requests == 1 .. MaxReq
Alive    == {"reserved", "spawning", "app", "leaving"}

Init ==
  /\ failing \in Failures
  /\ server = "run"
  /\ conn = [c \in Conns |-> "new"]
  /\ lastId = 0
  /\ spawning = {} /\ apps = {Nweb} /\ sends = {}
  /\ reservedPid = None /\ pipes = "fresh"
  /\ lastDied = 0 /\ crashTimes = 0 /\ crashed = {}
  /\ proc = [p \in Pids \cup {Nweb} |-> IF p = Nweb THEN "app" ELSE "none"]
  /\ job = [p \in Pids |-> 0]
  /\ killed = {}
  /\ reply = [i \in Requests |-> "none"]
  /\ answer = [i \in Requests |-> "none"]

Fails(f) == f \in failing

\* SendResponse to the client of request i.
Answer(i, result) ==
  answer' = [answer EXCEPT ![i] = IF @ = "none" THEN result ELSE "twice"]

\* DeleteAppSpawningCtx
Delete(r) == spawning' = spawning \ {r}

\* kill reaches the processes of ps that still run.
Hit(ps, pr) == {p \in ps \ {None} : pr[p] \in Alive}

Serving == server = "run"

-----------------------------------------------------------------------------
(* Connections *)

OnConnection(c) ==
  /\ Serving /\ conn[c] = "new"
  /\ conn' = [conn EXCEPT ![c] = "open"]
  /\ UNCHANGED <<failing, server, lastId, queues, reserved, crashes, procs, reply, answer>>

\* Mutant of OnClose: the children being spawned for the client are forgotten.
OnCloseForgets(c) ==
  /\ Serving /\ conn[c] = "open"
  /\ conn' = [conn EXCEPT ![c] = "closed"]
  /\ spawning' = {r \in spawning : r.conn # c}
  /\ sends' = {s \in sends : s.conn # c}
  /\ UNCHANGED <<failing, server, lastId, apps, reserved, crashes, procs, reply, answer>>

\* OnClose and AppSpawningCtxOnClose, by the client or by an error.
OnClose(c) ==
  /\ Serving /\ conn[c] = "open"
  /\ conn' = [conn EXCEPT ![c] = "closed"]
  /\ spawning' = {r \in spawning : r.conn # c}
  /\ killed' = killed \cup Hit({r.pid : r \in spawning \ spawning'}, proc)
  /\ sends' = {s \in sends : s.conn # c}
  /\ UNCHANGED <<failing, server, lastId, apps, reserved, crashes, proc, job, reply, answer>>

\* SendMessageComplete: an application nobody was told of is killed.
SendMessageComplete(s) ==
  /\ Serving /\ s \in sends
  /\ sends' = sends \ {s}
  /\ \/ UNCHANGED killed
     \/ Fails("send") /\ killed' = killed \cup Hit({s.pid} \cap apps, proc)
  /\ UNCHANGED <<failing, server, conn, lastId, spawning, apps, reserved, crashes,
                 proc, job, reply, answer>>

-----------------------------------------------------------------------------
(* Spawn requests *)

\* ProcessPreFork in the parent, when the processes are pr: the next child is
\* forked in advance.  A pipe that cannot be made leaves reservedPid as it is,
\* with its pipes used up, or closed when it is the second that fails (two
\* contexts then share one pipe; here the first keeps it to itself).
ProcessPreFork(pr) ==
  \/ /\ Fails("pipe")
     /\ \/ reservedPid = None /\ pipes' = "fresh"
        \/ reservedPid # None /\ pipes' = IF pipes = "closed" THEN "closed" ELSE "used"
        \/ reservedPid # None /\ pipes' = "closed"
     /\ proc' = pr
     /\ UNCHANGED reservedPid
  \/ Fails("fork") /\ reservedPid' = None /\ pipes' = "fresh" /\ proc' = pr
  \/ \E q \in {x \in Pids : pr[x] = "none"} :
       /\ reservedPid' = q /\ pipes' = "fresh"
       /\ proc' = [pr EXCEPT ![q] = "reserved"]

\* AddChildWatcher and the answer when it fails: ret, which is 0.
AddChildWatcher(r, pr, mayFail) ==
  \/ /\ mayFail
     /\ killed' = killed \cup Hit({r.pid}, pr)
     /\ Answer(r.id, "ok")
     /\ UNCHANGED spawning
  \/ /\ spawning' = spawning \cup {r}
     /\ UNCHANGED <<killed, answer>>

NewRequest(c) ==
  /\ Serving /\ conn[c] = "open"
  /\ lastId < MaxReq
  /\ lastId' = lastId + 1

\* A request served by fork; when it could have been served by a reserved
\* child the next one is reserved now (pre).
SpawnByFork(c, pre) ==
  /\ NewRequest(c)
  /\ pre => Prefork /\ reservedPid = None
  /\ \/ /\ Fails("pipe")
        /\ Answer(lastId', "fail")
        /\ UNCHANGED <<spawning, reserved, procs>>
     \/ /\ Fails("fork")
        /\ Answer(lastId', "fail")
        /\ \/ pre /\ ProcessPreFork(proc)
           \/ ~pre /\ UNCHANGED <<proc, reserved>>
        /\ UNCHANGED <<spawning, job, killed>>
     \/ \E p \in {x \in Pids : proc[x] = "none"} :
          LET pr == [proc EXCEPT ![p] = "spawning"] IN
            /\ job' = [job EXCEPT ![p] = lastId']
            /\ AddChildWatcher([id |-> lastId', conn |-> c, pid |-> p], pr, Fails("watch"))
            /\ \/ pre /\ ProcessPreFork(pr)
               \/ ~pre /\ proc' = pr /\ UNCHANGED reserved
  /\ UNCHANGED <<failing, server, conn, apps, sends, crashes, reply>>

\* A request served by the reserved child, which wakes up if it still lives.
SpawnByReserved(c) ==
  /\ NewRequest(c)
  /\ Prefork /\ reservedPid # None
  /\ \/ /\ Fails("map")
        /\ Answer(lastId', "fail")
        /\ UNCHANGED <<spawning, reserved, procs>>
     \/ /\ Fails("write") \/ pipes = "closed"
        /\ killed' = killed \cup Hit({reservedPid}, proc)
        /\ Answer(lastId', "fail")
        /\ ProcessPreFork(proc)
        /\ UNCHANGED <<spawning, job>>
     \/ /\ pipes # "closed"
        /\ LET wakes == pipes = "fresh" /\ proc[reservedPid] = "reserved"
               pr == IF wakes THEN [proc EXCEPT ![reservedPid] = "spawning"] ELSE proc
           IN  /\ job' = IF wakes THEN [job EXCEPT ![reservedPid] = lastId'] ELSE job
               /\ AddChildWatcher([id |-> lastId', conn |-> c, pid |-> reservedPid], pr,
                                  Fails("watch") \/ pipes = "used")
               /\ ProcessPreFork(pr)
  /\ UNCHANGED <<failing, server, conn, apps, sends, crashes, reply>>

\* MSG_DEVICE_DEBUG with the operation "kill", for an application that is
\* debuggable.
DeviceDebugKill(c, p) ==
  /\ Serving /\ conn[c] = "open"
  /\ p \in apps \ {Nweb}
  /\ killed' = killed \cup Hit({p}, proc)
  /\ UNCHANGED <<failing, server, conn, lastId, queues, reserved, crashes,
                 proc, job, reply, answer>>

-----------------------------------------------------------------------------
(* What becomes of a child being spawned *)

\* ProcessChildResponse and ProcessChildFdCheck
ChildResponse(r) ==
  /\ Serving /\ r \in spawning
  /\ reply[r.id] # "none"
  /\ apps' = IF reply[r.id] = "ok" THEN apps \cup {r.pid} ELSE apps
  /\ Answer(r.id, reply[r.id])
  /\ sends' = sends \cup {[conn |-> r.conn, pid |-> r.pid]}
  /\ Delete(r)
  /\ UNCHANGED <<failing, server, conn, lastId, reserved, crashes, procs, reply>>

\* Mutant of WaitChildTimeout: the context stays in the queue.
WaitChildTimeoutStays(r) ==
  /\ Serving /\ r \in spawning
  /\ killed' = killed \cup Hit({r.pid}, proc)
  /\ Answer(r.id, "fail")
  /\ UNCHANGED <<failing, server, conn, lastId, queues, reserved, crashes,
                 proc, job, reply>>

WaitChildTimeout(r) ==
  /\ Serving /\ r \in spawning
  /\ killed' = killed \cup Hit({r.pid}, proc)
  /\ Answer(r.id, "fail")
  /\ Delete(r)
  /\ UNCHANGED <<failing, server, conn, lastId, apps, sends, reserved, crashes,
                 proc, job, reply>>

-----------------------------------------------------------------------------
(* Deaths and the end of the spawner *)

\* StopAppSpawn with the applications as, the reserved child rp, the processes
\* pr and the killed ones kl: nwebspawn is killed and waited for, the others
\* are killed.  Children being spawned are left alone.
StopAppSpawn(as, rp, pr, kl) ==
  /\ server' = "stopped"
  /\ apps' = {}
  /\ reservedPid' = None /\ pipes' = "fresh"
  /\ killed' = kl \cup Hit((as \ {Nweb}) \cup {rp}, pr)
  /\ proc' = IF Nweb \in as THEN [pr EXCEPT ![Nweb] = "none"] ELSE pr

SigTerm ==
  /\ Serving
  /\ StopAppSpawn(apps, reservedPid, proc, killed)
  /\ UNCHANGED <<failing, conn, lastId, spawning, sends, crashes, job, reply, answer>>

\* Mutant of CrashTimes: failures need not be in a row.
CrashTimesAnyOrder(i) == crashTimes + 1

\* The new value of g_crashTimes in WaitChildDied.
CrashTimes(i) == IF i = lastDied + 1 THEN crashTimes + 1 ELSE 1

\* Mutant of WaitChildDied: the client is not told.
WaitChildDiedSilent(r) ==
  /\ crashTimes' = CrashTimes(r.id)
  /\ lastDied' = r.id
  /\ crashed' = crashed \cup {r.id}
  /\ Delete(r)
  /\ UNCHANGED answer

WaitChildDied(r) ==
  /\ crashTimes' = CrashTimes(r.id)
  /\ lastDied' = r.id
  /\ crashed' = crashed \cup {r.id}
  /\ Answer(r.id, "fail")
  /\ Delete(r)

\* Mutant of ReservedAfter: the death of the reserved child is not noticed.
ReservedAfterKeeps(p) == reservedPid

\* reservedPid once HandleDiedPid has looked at it.
ReservedAfter(p) == IF p = reservedPid THEN None ELSE reservedPid

\* HandleDiedPid for p, which leaves the processes pr and the killed ones kl.
HandleDiedPid(p, pr, kl) ==
  LET rp   == ReservedAfter(p)
      Kept == /\ reservedPid' = rp
              /\ pipes' = IF rp = None THEN "fresh" ELSE pipes
              /\ proc' = pr /\ killed' = kl
              /\ UNCHANGED server
  IN
  \/ /\ p \in apps /\ p # Nweb
     /\ apps' = apps \ {p}
     /\ Kept
     /\ UNCHANGED <<spawning, crashes, answer>>
  \/ /\ p = Nweb
     /\ StopAppSpawn(apps \ {Nweb}, rp, pr, kl)
     /\ UNCHANGED <<spawning, crashes, answer>>
  \/ /\ p \notin apps
     /\ \E r \in spawning : r.pid = p /\ WaitChildDied(r)
     /\ \/ crashTimes' >= MaxCrash /\ StopAppSpawn(apps, rp, pr, kl)
        \/ crashTimes' < MaxCrash /\ Kept /\ UNCHANGED apps
  \/ /\ p \notin apps \cup {r.pid : r \in spawning}
     /\ Kept
     /\ UNCHANGED <<apps, spawning, crashes, answer>>

\* ProcessSignal for SIGCHLD, one turn of its loop.
Reap(p) ==
  /\ Serving /\ proc[p] = "zombie"
  /\ HandleDiedPid(p, [proc EXCEPT ![p] = "none"], killed \ {p})
  /\ job' = IF p \in Pids THEN [job EXCEPT ![p] = 0] ELSE job
  /\ UNCHANGED <<failing, conn, lastId, sends, reply>>

-----------------------------------------------------------------------------
(* The children *)

\* AppSpawnChild writes its result and goes on as the application or ends.
ChildReplies(p, result) ==
  /\ Serving /\ proc[p] = "spawning"
  /\ reply' = [reply EXCEPT ![job[p]] = result]
  /\ proc' = [proc EXCEPT ![p] = IF result = "ok" THEN "app" ELSE "leaving"]
  /\ UNCHANGED <<failing, server, conn, lastId, queues, reserved, crashes, job, killed, answer>>

\* A process ends, by itself or because it was killed.
Dies(p) ==
  /\ Serving /\ proc[p] \in Alive
  /\ proc' = [proc EXCEPT ![p] = "zombie"]
  /\ UNCHANGED <<failing, server, conn, lastId, queues, reserved, crashes, job, killed,
                 reply, answer>>

Next ==
  \/ ~Serving /\ UNCHANGED vars
  \/ SigTerm
  \/ \E c \in Conns : \/ OnConnection(c) \/ OnClose(c)
                      \/ \E pre \in BOOLEAN : SpawnByFork(c, pre)
                      \/ SpawnByReserved(c)
                      \/ \E p \in Pids : DeviceDebugKill(c, p)
  \/ \E s \in sends : SendMessageComplete(s)
  \/ \E r \in spawning : ChildResponse(r) \/ WaitChildTimeout(r)
  \/ \E p \in Pids \cup {Nweb} : Reap(p) \/ Dies(p)
  \/ \E p \in Pids, result \in {"ok", "fail"} : ChildReplies(p, result)

Spec == Init /\ [][Next]_vars

\* The loop serves SIGCHLD and the timer of every request.
FairSpec ==
  /\ Spec
  /\ \A p \in Pids \cup {Nweb} : WF_vars(Reap(p))
  /\ \A i \in Requests :
       WF_vars(\E r \in spawning : r.id = i /\ (ChildResponse(r) \/ WaitChildTimeout(r)))

-----------------------------------------------------------------------------
(* Properties *)

Contexts == [id : Requests, conn : Conns, pid : Pids]

Pending == {r.pid : r \in spawning}
Known   == apps \cup Pending \cup ({reservedPid} \ {None})

\* The spawner forgets no child: one that runs and has not been killed is an
\* application in the list, is being spawned, is in reserve, or is on its way
\* out after it has reported a failure (ProcessSpawnReqMsg, OnClose,
\* AppSpawnProcessMsgForPrefork).
ChildrenAreKnown ==
  Serving => \A p \in Pids :
    proc[p] \in Alive /\ p \notin killed => p \in Known \/ proc[p] = "leaving"

\* Every pid the spawner may send a signal to is a child it has not waited for,
\* so that no signal reaches a stranger (HandleDiedPid, WaitChildDied), as
\* long as the pipes for the next reserved child can be made.
KnownAreChildren ==
  Serving /\ "pipe" \notin failing => \A p \in Known : proc[p] # "none"

\* A client is answered once, whichever of the child's result, its death and
\* the timer comes first (ProcessChildResponse, WaitChildDied, WaitChildTimeout).
AnsweredOnce ==
  /\ \A i \in Requests : answer[i] # "twice"
  /\ \A r \in spawning : answer[r.id] = "none" /\ conn[r.conn] = "open"

\* The spawner ends by order, with nwebspawn, or after the children of MaxCrash
\* requests in a row have died ("Continuous failures in spawning the app").
RestartIsEarned ==
  [][Serving /\ ~Serving' =>
       \/ SigTerm
       \/ Reap(Nweb)
       \/ (lastDied' - MaxCrash + 1) .. lastDied' \subseteq crashed']_vars

\* Every request is answered, unless a client goes or the spawner ends.
RequestIsAnswered ==
  \A i \in Requests :
    (lastId >= i) ~> (answer[i] # "none" \/ ~Serving \/ \E c \in Conns : conn[c] = "closed")
=============================================================================
