---------------------------- MODULE SpawnerProofs -----------------------------
(***************************************************************************)
(* Proofs about the application spawner: AppSpawn, the process that answers *)
(* requests, and SpawnChild, the plug-ins and a child from the inside.      *)
(*                                                                         *)
(* AppSpawn, for every set of process ids and connections, every number of  *)
(* requests, every MAX_CRASH_TIME, with and without a reserved child, and   *)
(* for every set of calls that can fail:                                    *)
(*   TypeInv    the types;                                                 *)
(*   RequestInv a context in the queue is that of an unanswered request    *)
(*              and of one child, and ids are never used twice;            *)
(*   KnownInv   a context that covers a running child has not been told of *)
(*              its failure;                                               *)
(*   PidInv     without failing pipes a pid is known for one reason only;  *)
(*   CrashInv   g_crashTimes counts requests in a row.                     *)
(*                                                                         *)
(* SpawnChild, for any plug-ins in any directories and any hooks they       *)
(* register.  SpawnInv follows the control: what has been told and what has *)
(* failed is determined by where the image is, and from the end of          *)
(* StartSpawnService on the list of hooks holds the one that frees the      *)
(* context and the content.  That hook is why a failure clears:             *)
(* AppSpawnEnvClear runs every hook of the last stage whatever the others   *)
(* answer.                                                                  *)
(***************************************************************************)
EXTENDS AppSpawn, SpawnChild, FiniteSetTheorems, SequenceTheorems, TLAPS

-------------------------------------------------------------------------------
(* AppSpawn: the process that answers requests *)

States == Alive \cup {"none", "zombie"}

TypeInv ==
  /\ failing \in Failures
  /\ server \in {"run", "stopped"}
  /\ conn \in [Conns -> {"new", "open", "closed"}]
  /\ lastId \in 0 .. MaxReq
  /\ spawning \subseteq Contexts
  /\ apps \subseteq Pids \cup {Nweb}
  /\ reservedPid \in Pids \cup {None}
  /\ pipes \in {"fresh", "used", "closed"}
  /\ lastDied \in 0 .. MaxReq
  /\ crashTimes \in Nat
  /\ crashed \subseteq Requests
  /\ sends \subseteq [conn : Conns, pid : Pids]
  /\ proc \in [Pids \cup {Nweb} -> States]
  /\ job \in [Pids -> 0 .. MaxReq]
  /\ reply \in [Requests -> {"none", "ok", "fail"}]
  /\ killed \subseteq Pids \cup {Nweb}
  /\ answer \in [Requests -> {"none", "ok", "fail", "twice"}]
  /\ \A p \in Pids : proc[p] = "spawning" => job[p] # 0

\* Ids grow; a context in the queue belongs to a client that is connected and
\* has not been answered, and its id is the job of no other process.
RequestInv ==
  /\ \A i \in Requests : i > lastId => answer[i] = "none" /\ reply[i] = "none"
  /\ \A p \in Pids : job[p] <= lastId
  /\ \A r \in spawning : r.id <= lastId
  /\ \A r, s \in spawning : r.id = s.id => r = s
  /\ \A r \in spawning, p \in Pids : job[p] = r.id => r.pid = p
  /\ AnsweredOnce

\* ChildrenAreKnown, where a child counts as known by its context only until
\* it has reported a failure.
KnownInv ==
  Serving => \A p \in Pids :
    proc[p] \in Alive /\ p \notin killed =>
      \/ p \in apps \/ p = reservedPid \/ proc[p] = "leaving"
      \/ \E r \in spawning : r.pid = p /\ reply[r.id] # "fail"

\* As long as pipes can be made no pid is listed twice.
PidInv ==
  Serving /\ "pipe" \notin failing =>
    /\ pipes = "fresh"
    /\ \A p \in apps : proc[p] # "none" /\ p # reservedPid
    /\ \A r \in spawning : proc[r.pid] # "none" /\ r.pid \notin apps /\ r.pid # reservedPid
    /\ \A r, s \in spawning : r.pid = s.pid => r = s
    /\ reservedPid # None => proc[reservedPid] # "none"

\* The last g_crashTimes requests up to g_lastDiedAppId have crashed.
CrashInv ==
  /\ crashTimes <= lastDied
  /\ \A i \in Requests : lastDied - crashTimes < i /\ i <= lastDied => i \in crashed

\* What becomes of the processes pr and of the reserve at the end of a request:
\* at most one process is forked, and it is the one in reserve from then on.
ReserveStep(pr) ==
  /\ proc' \in [Pids \cup {Nweb} -> States]
  /\ reservedPid' \in Pids \cup {None}
  /\ pipes' \in {"fresh", "used", "closed"}
  /\ \A x \in Pids \cup {Nweb} :
       \/ proc'[x] = pr[x]
       \/ pr[x] = "none" /\ proc'[x] = "reserved" /\ x = reservedPid'
  /\ reservedPid' \in Pids \ {reservedPid} =>
       pr[reservedPid'] = "none" /\ proc'[reservedPid'] = "reserved"
  /\ "pipe" \notin failing /\ pipes = "fresh" => pipes' = "fresh"

\* A request refused: a reserved child that is given up is killed.
Refused(pr) ==
  /\ pr = proc
  /\ Answer(lastId', "fail")
  /\ UNCHANGED <<spawning, job>>
  /\ reservedPid' # reservedPid /\ reservedPid \in Pids /\ proc[reservedPid] \in Alive =>
       reservedPid \in killed'

\* A request that gets the child p, forked now or taken from the reserve.
Started(c, p, pr) ==
  /\ \/ /\ Answer(lastId', "ok") /\ UNCHANGED spawning
        /\ pr[p] \in Alive => p \in killed'
     \/ /\ spawning' = spawning \cup {[id |-> lastId', conn |-> c, pid |-> p]}
        /\ UNCHANGED answer
  /\ \A x \in (Pids \cup {Nweb}) \ {p} : pr[x] = proc[x]
  /\ \/ /\ proc[p] = "none"
        /\ reservedPid' = reservedPid \/ reservedPid = None
     \/ /\ p = reservedPid
        /\ "pipe" \notin failing /\ pr[p] # "none" => reservedPid' # p
  /\ \/ pr[p] = "spawning" /\ job' = [job EXCEPT ![p] = lastId']
     \/ pr[p] = proc[p] /\ p = reservedPid /\ UNCHANGED job

\* What a spawn request does.
SpawnStep(c) ==
  /\ Serving /\ conn[c] = "open"
  /\ lastId < MaxReq /\ lastId' = lastId + 1
  /\ UNCHANGED <<failing, server, conn, apps, sends, crashes, reply>>
  /\ killed \subseteq killed' /\ killed' \subseteq Pids \cup {Nweb}
  /\ \E pr \in [Pids \cup {Nweb} -> States] :
       /\ ReserveStep(pr)
       /\ Refused(pr) \/ \E p \in Pids : Started(c, p, pr)

\* What a step that ends the spawner is.
Restarts ==
  Serving /\ ~Serving' => SigTerm \/ Reap(Nweb) \/ crashTimes' >= MaxCrash

-----------------------------------------------------------------------------
\* ProcessPreFork, or not reserving a child, is such a step.
LEMMA ReserveFacts ==
  ASSUME TypeInv, NEW pr \in [Pids \cup {Nweb} -> States],
         ProcessPreFork(pr) \/ (proc' = pr /\ UNCHANGED reserved)
  PROVE  ReserveStep(pr)
<1> USE AppSpawnAssumption DEF TypeInv, ReserveStep, States, Alive, Fails
<1>1. CASE proc' = pr /\ UNCHANGED reserved
  BY <1>1 DEF reserved
<1>2. CASE Fails("pipe") /\ proc' = pr /\ UNCHANGED reservedPid
           /\ pipes' \in {"fresh", "used", "closed"}
  BY <1>2
<1>3. CASE reservedPid' = None /\ pipes' = "fresh" /\ proc' = pr
  BY <1>3
<1>4. ASSUME NEW q \in Pids, pr[q] = "none", reservedPid' = q, pipes' = "fresh",
             proc' = [pr EXCEPT ![q] = "reserved"]
      PROVE  ReserveStep(pr)
  BY <1>4
<1>5. QED
  BY <1>1, <1>2, <1>3, <1>4 DEF ProcessPreFork

\* ProcessPreFork does not keep the child it replaces, if a pipe can be made.
LEMMA ReserveMoves ==
  ASSUME TypeInv, NEW pr \in [Pids \cup {Nweb} -> States], ProcessPreFork(pr),
         "pipe" \notin failing, NEW p \in Pids, pr[p] # "none"
  PROVE  reservedPid' # p
BY AppSpawnAssumption DEF ProcessPreFork, Fails

\* A request served by fork is such a step.
LEMMA ForkStep ==
  ASSUME TypeInv, NEW c \in Conns, NEW pre \in BOOLEAN, SpawnByFork(c, pre)
  PROVE  SpawnStep(c)
<1> USE AppSpawnAssumption
<1>1. /\ Serving /\ conn[c] = "open" /\ lastId < MaxReq /\ lastId' = lastId + 1
      /\ UNCHANGED <<failing, server, conn, apps, sends, crashes, reply>>
      /\ pre => reservedPid = None
  BY DEF SpawnByFork, NewRequest
<1>2. killed \subseteq killed' /\ killed' \subseteq Pids \cup {Nweb}
  <2>1. killed' = killed \/ \E p \in Pids : \E pr : killed' = killed \cup Hit({p}, pr)
    BY DEF SpawnByFork, AddChildWatcher, procs
  <2>2. QED
    BY <2>1 DEF TypeInv, Hit
<1>3. proc \in [Pids \cup {Nweb} -> States]
  BY DEF TypeInv
<1>4. CASE Answer(lastId', "fail") /\ UNCHANGED <<spawning, reserved, procs>>
  <2>1. ReserveStep(proc)
    BY <1>3, <1>4, ReserveFacts DEF procs
  <2>2. Refused(proc)
    BY <1>4 DEF Refused, reserved, procs
  <2>3. QED
    BY <1>1, <1>2, <1>3, <2>1, <2>2 DEF SpawnStep
<1>5. CASE /\ Answer(lastId', "fail")
           /\ (pre /\ ProcessPreFork(proc)) \/ (~pre /\ UNCHANGED <<proc, reserved>>)
           /\ UNCHANGED <<spawning, job, killed>>
  <2>1. ReserveStep(proc)
    BY <1>3, <1>5, ReserveFacts
  <2>2. Refused(proc)
    BY <1>1, <1>5 DEF Refused, reserved
  <2>3. QED
    BY <1>1, <1>2, <1>3, <2>1, <2>2 DEF SpawnStep
<1>6. ASSUME NEW p \in Pids, proc[p] = "none", NEW pr,
             pr = [proc EXCEPT ![p] = "spawning"],
             job' = [job EXCEPT ![p] = lastId'],
             AddChildWatcher([id |-> lastId', conn |-> c, pid |-> p], pr, Fails("watch")),
             (pre /\ ProcessPreFork(pr)) \/ (~pre /\ proc' = pr /\ UNCHANGED reserved)
      PROVE  SpawnStep(c)
  <2>1. /\ pr \in [Pids \cup {Nweb} -> States] /\ pr[p] = "spawning"
        /\ \A x \in (Pids \cup {Nweb}) \ {p} : pr[x] = proc[x]
    BY <1>3, <1>6 DEF States, Alive
  <2>2. ReserveStep(pr)
    BY <1>6, <2>1, ReserveFacts
  <2>3. \/ /\ Answer(lastId', "ok") /\ UNCHANGED spawning
           /\ pr[p] \in Alive => p \in killed'
        \/ /\ spawning' = spawning \cup {[id |-> lastId', conn |-> c, pid |-> p]}
           /\ UNCHANGED answer
    BY <1>6 DEF AddChildWatcher, Hit
  <2>4. reservedPid' = reservedPid \/ reservedPid = None
    BY <1>1, <1>6 DEF reserved
  <2>5. Started(c, p, pr)
    BY <1>6, <2>1, <2>3, <2>4 DEF Started
  <2>6. QED
    BY <1>1, <1>2, <2>1, <2>2, <2>5 DEF SpawnStep
<1>7. QED
  BY <1>4, <1>5, <1>6 DEF SpawnByFork

\* A request served by the reserved child is such a step.
LEMMA ReservedStep ==
  ASSUME TypeInv, NEW c \in Conns, SpawnByReserved(c)
  PROVE  SpawnStep(c)
<1> USE AppSpawnAssumption
<1>1. /\ Serving /\ conn[c] = "open" /\ lastId < MaxReq /\ lastId' = lastId + 1
      /\ UNCHANGED <<failing, server, conn, apps, sends, crashes, reply>>
      /\ reservedPid \in Pids
  BY DEF SpawnByReserved, NewRequest, TypeInv
<1>2. killed \subseteq killed' /\ killed' \subseteq Pids \cup {Nweb}
  BY <1>1 DEF SpawnByReserved, AddChildWatcher, procs, TypeInv, Hit
<1>3. proc \in [Pids \cup {Nweb} -> States]
  BY DEF TypeInv
<1>4. CASE Answer(lastId', "fail") /\ UNCHANGED <<spawning, reserved, procs>>
  <2>1. ReserveStep(proc)
    BY <1>3, <1>4, ReserveFacts DEF procs
  <2>2. Refused(proc)
    BY <1>4 DEF Refused, reserved, procs
  <2>3. QED
    BY <1>1, <1>2, <1>3, <2>1, <2>2 DEF SpawnStep
<1>5. CASE /\ killed' = killed \cup Hit({reservedPid}, proc)
           /\ Answer(lastId', "fail")
           /\ ProcessPreFork(proc)
           /\ UNCHANGED <<spawning, job>>
  <2>1. ReserveStep(proc)
    BY <1>3, <1>5, ReserveFacts
  <2>2. Refused(proc)
    BY <1>1, <1>5 DEF Refused, Hit
  <2>3. QED
    BY <1>1, <1>2, <1>3, <2>1, <2>2 DEF SpawnStep
<1>6. ASSUME NEW wakes \in BOOLEAN, NEW pr, NEW mayFail,
             wakes => proc[reservedPid] = "reserved",
             pr = IF wakes THEN [proc EXCEPT ![reservedPid] = "spawning"] ELSE proc,
             job' = IF wakes THEN [job EXCEPT ![reservedPid] = lastId'] ELSE job,
             AddChildWatcher([id |-> lastId', conn |-> c, pid |-> reservedPid], pr, mayFail),
             ProcessPreFork(pr)
      PROVE  SpawnStep(c)
  <2>1. /\ pr \in [Pids \cup {Nweb} -> States]
        /\ wakes => pr[reservedPid] = "spawning"
        /\ ~wakes => pr[reservedPid] = proc[reservedPid]
        /\ \A x \in (Pids \cup {Nweb}) \ {reservedPid} : pr[x] = proc[x]
    BY <1>1, <1>3, <1>6 DEF States, Alive
  <2>2. ReserveStep(pr)
    BY <1>6, <2>1, ReserveFacts
  <2>3. \/ /\ Answer(lastId', "ok") /\ UNCHANGED spawning
           /\ pr[reservedPid] \in Alive => reservedPid \in killed'
        \/ /\ spawning' = spawning \cup {[id |-> lastId', conn |-> c, pid |-> reservedPid]}
           /\ UNCHANGED answer
    BY <1>1, <1>6 DEF AddChildWatcher, Hit
  <2>4. "pipe" \notin failing /\ pr[reservedPid] # "none" => reservedPid' # reservedPid
    BY <1>1, <1>6, <2>1, ReserveMoves
  <2>5. Started(c, reservedPid, pr)
    BY <1>6, <2>1, <2>3, <2>4 DEF Started
  <2>6. QED
    BY <1>1, <1>2, <2>1, <2>2, <2>5 DEF SpawnStep
<1>7. QED
  BY <1>4, <1>5, <1>6 DEF SpawnByReserved

\* A spawn request keeps the types.
LEMMA TypeSpawn ==
  ASSUME TypeInv, NEW c \in Conns, SpawnStep(c)
  PROVE  TypeInv'
<1> USE AppSpawnAssumption DEF Serving, TypeInv, Contexts, Requests, Alive,
    States, crashes
<1>1. PICK pr \in [Pids \cup {Nweb} -> States] :
        ReserveStep(pr) /\ (Refused(pr) \/ \E p \in Pids : Started(c, p, pr))
  BY DEF SpawnStep
<1>2. CASE Refused(pr)
  BY <1>1, <1>2 DEF SpawnStep, ReserveStep, Refused, Answer
<1>3. ASSUME NEW p \in Pids, Started(c, p, pr) PROVE TypeInv'
  <2> DEFINE r == [id |-> lastId', conn |-> c, pid |-> p]
  <2>1. lastId' \in Requests /\ r \in Contexts
    BY DEF SpawnStep
  <2>2. answer' \in [Requests -> {"none", "ok", "fail", "twice"}]
    BY <1>3, <2>1 DEF Started, Answer
  <2>3. spawning' \subseteq Contexts
    BY <1>3, <2>1 DEF Started
  <2>4. job' \in [Pids -> 0 .. MaxReq]
    <3>1. job' = job \/ job' = [job EXCEPT ![p] = lastId']
      BY <1>3 DEF Started
    <3>2. lastId' \in 0 .. MaxReq /\ job \in [Pids -> 0 .. MaxReq]
      BY <2>1
    <3> HIDE DEF TypeInv
    <3>3. QED
      BY <3>1, <3>2
  <2>5. \A x \in Pids : proc'[x] = "spawning" => job'[x] # 0
    <3>1. \A x \in Pids \ {p} : job'[x] = job[x] /\ pr[x] = proc[x]
      BY <1>3 DEF Started
    <3>2. pr[p] = "spawning" => job'[p] # 0
      BY <1>3, <2>1 DEF Started
    <3>3. \A x \in Pids : proc'[x] = "spawning" => pr[x] = "spawning"
      BY <1>1 DEF ReserveStep
    <3>4. QED
      BY <3>1, <3>2, <3>3
  <2>6. QED
    BY <1>1, <2>1, <2>2, <2>3, <2>4, <2>5 DEF SpawnStep, ReserveStep
<1>4. QED
  BY <1>1, <1>2, <1>3


\* A spawn request gets an id of its own.
LEMMA RequestSpawn ==
  ASSUME TypeInv, RequestInv, NEW c \in Conns, SpawnStep(c)
  PROVE  RequestInv'
<1> USE AppSpawnAssumption DEF Serving, TypeInv, Contexts, Requests, Alive,
    States, crashes, RequestInv, AnsweredOnce
<1>1. PICK pr \in [Pids \cup {Nweb} -> States] :
        ReserveStep(pr) /\ (Refused(pr) \/ \E p \in Pids : Started(c, p, pr))
  BY DEF SpawnStep
<1>2. CASE Refused(pr)
  BY <1>1, <1>2 DEF SpawnStep, ReserveStep, Refused, Answer
<1>3. ASSUME NEW p \in Pids, Started(c, p, pr) PROVE RequestInv'
  <2> DEFINE r == [id |-> lastId', conn |-> c, pid |-> p]
  <2>1. /\ lastId' \in Requests /\ lastId' = lastId + 1 /\ UNCHANGED <<conn, reply>>
        /\ r.id = lastId' /\ r.conn = c /\ r.pid = p /\ conn[c] = "open"
        /\ \A s \in spawning : s.id # lastId'
    BY DEF SpawnStep
  <2>2. /\ \A x \in Pids \ {p} : job'[x] = job[x]
        /\ job'[p] \in {job[p], lastId'}
    BY <1>3 DEF Started
  <2>3. \A x \in Pids : job'[x] <= lastId'
    <3>1. \A x \in Pids : job[x] \in Int /\ job[x] <= lastId
      OBVIOUS
    <3>2. lastId \in Int
      OBVIOUS
    <3> HIDE DEF TypeInv, RequestInv
    <3>3. QED
      BY <2>1, <2>2, <3>1, <3>2
  <2>4. CASE Answer(lastId', "ok") /\ UNCHANGED spawning
    <3>1. \A i \in Requests \ {lastId'} : answer'[i] = answer[i]
      BY <2>4 DEF Answer
    <3>2. answer'[lastId'] = "ok"
      BY <2>1, <2>4 DEF Answer
    <3>3. \A s \in spawning, x \in Pids : job'[x] = s.id => s.pid = x
      BY <2>1, <2>2
    <3>4. QED
      BY <2>1, <2>3, <2>4, <3>1, <3>2, <3>3
  <2>5. CASE spawning' = spawning \cup {r} /\ UNCHANGED answer
    <3>1. \A s \in spawning', x \in Pids : job'[x] = s.id => s.pid = x
      BY <2>1, <2>2, <2>5
    <3>2. \A s \in spawning' :
            s.id <= lastId' /\ answer[s.id] = "none" /\ conn[s.conn] = "open"
      BY <2>1, <2>5
    <3>3. \A s, u \in spawning' : s.id = u.id => s = u
      BY <2>1, <2>5
    <3>4. \A i \in Requests : i > lastId' => answer[i] = "none" /\ reply[i] = "none"
      BY <2>1
    <3>5. \A i \in Requests : answer[i] # "twice"
      OBVIOUS
    <3> HIDE DEF r, TypeInv, Requests
    <3>6. QED
      BY <2>1, <2>3, <2>5, <3>1, <3>2, <3>3, <3>4, <3>5
  <2>6. QED
    BY <1>3, <2>4, <2>5 DEF Started
<1>4. QED
  BY <1>1, <1>2, <1>3


\* A spawn request forgets no child.
LEMMA KnownSpawn ==
  ASSUME TypeInv, RequestInv, KnownInv, NEW c \in Conns, SpawnStep(c)
  PROVE  KnownInv'
<1> USE AppSpawnAssumption DEF Serving, TypeInv, Contexts, Requests, Alive,
    States, crashes, RequestInv, KnownInv
<1>1. PICK pr \in [Pids \cup {Nweb} -> States] :
        ReserveStep(pr) /\ (Refused(pr) \/ \E p \in Pids : Started(c, p, pr))
  BY DEF SpawnStep
<1>2. CASE Refused(pr)
  BY <1>1, <1>2 DEF SpawnStep, ReserveStep, Refused, Answer
<1>3. ASSUME NEW p \in Pids, Started(c, p, pr) PROVE KnownInv'
  <2> DEFINE r == [id |-> lastId', conn |-> c, pid |-> p]
  <2>1. /\ lastId' \in Requests /\ lastId' = lastId + 1 /\ UNCHANGED <<apps, reply, server>>
        /\ r.id = lastId' /\ r.pid = p /\ reply[lastId'] = "none"
        /\ killed \subseteq killed' /\ Serving
    BY DEF SpawnStep
  <2>2. SUFFICES ASSUME NEW x \in Pids, proc'[x] \in Alive, x \notin killed'
                 PROVE  \/ x \in apps \/ x = reservedPid' \/ proc'[x] = "leaving"
                        \/ \E s \in spawning' : s.pid = x /\ reply[s.id] # "fail"
    BY <2>1
  <2>3. CASE x = reservedPid'
    BY <2>3
  <2>4. CASE x = p /\ x # reservedPid'
    <3>1. pr[p] \in Alive
      BY <1>1, <2>2, <2>4 DEF ReserveStep
    <3>2. r \in spawning'
      BY <1>3, <2>2, <2>4, <3>1 DEF Started
    <3>3. QED
      BY <2>1, <2>4, <3>2
  <2>5. CASE x # p /\ x # reservedPid'
    <3>1. proc'[x] = proc[x] /\ x # reservedPid
      BY <1>1, <1>3, <2>2, <2>5 DEF ReserveStep, Started
    <3>2. spawning \subseteq spawning'
      BY <1>3 DEF Started
    <3>3. QED
      BY <2>1, <2>2, <3>1, <3>2
  <2>6. QED
    BY <2>3, <2>4, <2>5
<1>4. QED
  BY <1>1, <1>2, <1>3


\* A spawn request lists no pid twice.
LEMMA PidSpawn ==
  ASSUME TypeInv, PidInv, NEW c \in Conns, SpawnStep(c)
  PROVE  PidInv'
<1> USE AppSpawnAssumption DEF Serving, TypeInv, Contexts, Requests, Alive,
    States, crashes, PidInv
<1>1. PICK pr \in [Pids \cup {Nweb} -> States] :
        ReserveStep(pr) /\ (Refused(pr) \/ \E p \in Pids : Started(c, p, pr))
  BY DEF SpawnStep
<1>2. CASE Refused(pr)
  BY <1>1, <1>2 DEF SpawnStep, ReserveStep, Refused, Answer
<1>3. ASSUME NEW p \in Pids, Started(c, p, pr) PROVE PidInv'
  BY <1>1, <1>3 DEF SpawnStep, ReserveStep, Started, Answer
<1>4. QED
  BY <1>1, <1>2, <1>3


\* Every step keeps the types.
LEMMA TypeNext ==
  TypeInv /\ [Next]_vars => TypeInv'
<1> SUFFICES ASSUME TypeInv, [Next]_vars PROVE TypeInv'
  OBVIOUS
<1> USE AppSpawnAssumption DEF Serving, Fails, Hit, queues, reserved, crashes, procs, TypeInv,
    Contexts, Requests, Alive, States
<1>1. CASE UNCHANGED vars
  BY <1>1 DEF vars
<1>2. CASE SigTerm
  BY <1>2 DEF SigTerm, StopAppSpawn
<1>3. ASSUME NEW c \in Conns, OnConnection(c) PROVE TypeInv'
  BY <1>3 DEF OnConnection
<1>4. ASSUME NEW c \in Conns, OnClose(c) PROVE TypeInv'
  BY <1>4 DEF OnClose
<1>5. ASSUME NEW c \in Conns, NEW pre \in BOOLEAN, SpawnByFork(c, pre) PROVE TypeInv'
  BY <1>5, ForkStep, TypeSpawn
<1>6. ASSUME NEW c \in Conns, SpawnByReserved(c) PROVE TypeInv'
  BY <1>6, ReservedStep, TypeSpawn
<1>7. ASSUME NEW c \in Conns, NEW p \in Pids, DeviceDebugKill(c, p) PROVE TypeInv'
  BY <1>7 DEF DeviceDebugKill
<1>8. ASSUME NEW s \in sends, SendMessageComplete(s) PROVE TypeInv'
  BY <1>8 DEF SendMessageComplete
<1>9. ASSUME NEW r \in spawning, ChildResponse(r) PROVE TypeInv'
  BY <1>9 DEF ChildResponse, Answer, Delete
<1>10. ASSUME NEW r \in spawning, WaitChildTimeout(r) PROVE TypeInv'
  BY <1>10 DEF WaitChildTimeout, Answer, Delete
<1>11. ASSUME NEW p \in Pids \cup {Nweb}, Reap(p) PROVE TypeInv'
  <2> DEFINE pr == [proc EXCEPT ![p] = "none"]
  <2>1. /\ pr \in [Pids \cup {Nweb} -> States]
        /\ \A x \in Pids : pr[x] = "spawning" => proc[x] = "spawning" /\ x # p
    OBVIOUS
  <2>2. /\ proc' \in [Pids \cup {Nweb} -> States]
        /\ \A x \in Pids : proc'[x] = pr[x]
    <3>1. proc' = pr \/ proc' = [pr EXCEPT ![Nweb] = "none"]
      BY <1>11 DEF Reap, HandleDiedPid, StopAppSpawn
    <3> HIDE DEF TypeInv, pr
    <3>2. QED
      BY <2>1, <3>1
  <2>3. job' \in [Pids -> 0 .. MaxReq] /\ \A x \in Pids \ {p} : job'[x] = job[x]
    BY <1>11 DEF Reap
  <2>4. /\ reservedPid' \in Pids \cup {None} /\ pipes' \in {"fresh", "used", "closed"}
        /\ killed' \subseteq Pids \cup {Nweb}
        /\ apps' \subseteq Pids \cup {Nweb} /\ server' \in {"run", "stopped"}
    BY <1>11 DEF Reap, HandleDiedPid, StopAppSpawn, ReservedAfter
  <2>5. /\ spawning' \subseteq Contexts /\ crashTimes' \in Nat /\ lastDied' \in 0 .. MaxReq
        /\ crashed' \subseteq Requests
        /\ answer' \in [Requests -> {"none", "ok", "fail", "twice"}]
    <3>1. CASE UNCHANGED <<spawning, crashes, answer>>
      BY <3>1
    <3>2. ASSUME NEW r \in spawning, WaitChildDied(r)
          PROVE  /\ spawning' \subseteq Contexts /\ crashTimes' \in Nat
                 /\ lastDied' \in 0 .. MaxReq /\ crashed' \subseteq Requests
                 /\ answer' \in [Requests -> {"none", "ok", "fail", "twice"}]
      <4>1. r.id \in Requests
        OBVIOUS
      <4>2. QED
        <5>1. spawning' \subseteq Contexts
          BY <3>2 DEF WaitChildDied, Delete
        <5>2. lastDied' \in 0 .. MaxReq /\ crashTimes' \in Nat
          BY <3>2, <4>1 DEF WaitChildDied, CrashTimes
        <5>3. crashed' \subseteq Requests
          BY <3>2, <4>1 DEF WaitChildDied
        <5>4. answer' \in [Requests -> {"none", "ok", "fail", "twice"}]
          BY <3>2, <4>1 DEF WaitChildDied, Answer
        <5>5. QED
          BY <5>1, <5>2, <5>3, <5>4
    <3>3. QED
      BY <1>11, <3>1, <3>2 DEF Reap, HandleDiedPid
  <2> HIDE DEF pr
  <2>6. QED
    BY <1>11, <2>1, <2>2, <2>3, <2>4, <2>5 DEF Reap
<1>12. ASSUME NEW p \in Pids \cup {Nweb}, Dies(p) PROVE TypeInv'
  BY <1>12 DEF Dies
<1>13. ASSUME NEW p \in Pids, NEW result \in {"ok", "fail"}, ChildReplies(p, result)
      PROVE TypeInv'
  BY <1>13 DEF ChildReplies
<1> HIDE DEF TypeInv
<1>14. QED
  BY <1>1, <1>2, <1>3, <1>4, <1>5, <1>6, <1>7, <1>8, <1>9, <1>10, <1>11, <1>12, <1>13
     DEF Next

\* Every step keeps ids and answers apart.
LEMMA RequestNext ==
  TypeInv /\ RequestInv /\ [Next]_vars => RequestInv'
<1> SUFFICES ASSUME TypeInv, RequestInv, [Next]_vars PROVE RequestInv'
  OBVIOUS
<1> USE AppSpawnAssumption DEF Serving, Fails, Hit, queues, reserved, crashes, procs, TypeInv,
    Contexts, Requests, Alive, States,
    RequestInv, AnsweredOnce
<1>1. CASE UNCHANGED vars
  BY <1>1 DEF vars
<1>2. CASE SigTerm
  BY <1>2 DEF SigTerm, StopAppSpawn
<1>3. ASSUME NEW c \in Conns, OnConnection(c) PROVE RequestInv'
  BY <1>3 DEF OnConnection
<1>4. ASSUME NEW c \in Conns, OnClose(c) PROVE RequestInv'
  BY <1>4 DEF OnClose
<1>5. ASSUME NEW c \in Conns, NEW pre \in BOOLEAN, SpawnByFork(c, pre) PROVE RequestInv'
  BY <1>5, ForkStep, RequestSpawn
<1>6. ASSUME NEW c \in Conns, SpawnByReserved(c) PROVE RequestInv'
  BY <1>6, ReservedStep, RequestSpawn
<1>7. ASSUME NEW c \in Conns, NEW p \in Pids, DeviceDebugKill(c, p) PROVE RequestInv'
  BY <1>7 DEF DeviceDebugKill
<1>8. ASSUME NEW s \in sends, SendMessageComplete(s) PROVE RequestInv'
  BY <1>8 DEF SendMessageComplete
<1>9. ASSUME NEW r \in spawning, ChildResponse(r) PROVE RequestInv'
  BY <1>9 DEF ChildResponse, Answer, Delete
<1>10. ASSUME NEW r \in spawning, WaitChildTimeout(r) PROVE RequestInv'
  BY <1>10 DEF WaitChildTimeout, Answer, Delete
<1>11. ASSUME NEW p \in Pids \cup {Nweb}, Reap(p) PROVE RequestInv'
  BY <1>11 DEF Reap, HandleDiedPid, WaitChildDied, StopAppSpawn, ReservedAfter,
     CrashTimes, Answer, Delete
<1>12. ASSUME NEW p \in Pids \cup {Nweb}, Dies(p) PROVE RequestInv'
  BY <1>12 DEF Dies
<1>13. ASSUME NEW p \in Pids, NEW result \in {"ok", "fail"}, ChildReplies(p, result)
      PROVE RequestInv'
  BY <1>13 DEF ChildReplies
<1>14. QED
  BY <1>1, <1>2, <1>3, <1>4, <1>5, <1>6, <1>7, <1>8, <1>9, <1>10, <1>11, <1>12, <1>13
     DEF Next

\* No step forgets a child.
LEMMA KnownNext ==
  TypeInv /\ RequestInv /\ KnownInv /\ [Next]_vars => KnownInv'
<1> SUFFICES ASSUME TypeInv, RequestInv, KnownInv, [Next]_vars PROVE KnownInv'
  OBVIOUS
<1> USE AppSpawnAssumption DEF Serving, Fails, Hit, queues, reserved, crashes, procs, TypeInv,
    Contexts, Requests, Alive, States,
    RequestInv, KnownInv
<1>1. CASE UNCHANGED vars
  BY <1>1 DEF vars
<1>2. CASE SigTerm
  BY <1>2 DEF SigTerm, StopAppSpawn
<1>3. ASSUME NEW c \in Conns, OnConnection(c) PROVE KnownInv'
  BY <1>3 DEF OnConnection
<1>4. ASSUME NEW c \in Conns, OnClose(c) PROVE KnownInv'
  BY <1>4 DEF OnClose
<1>5. ASSUME NEW c \in Conns, NEW pre \in BOOLEAN, SpawnByFork(c, pre) PROVE KnownInv'
  BY <1>5, ForkStep, KnownSpawn
<1>6. ASSUME NEW c \in Conns, SpawnByReserved(c) PROVE KnownInv'
  BY <1>6, ReservedStep, KnownSpawn
<1>7. ASSUME NEW c \in Conns, NEW p \in Pids, DeviceDebugKill(c, p) PROVE KnownInv'
  BY <1>7 DEF DeviceDebugKill
<1>8. ASSUME NEW s \in sends, SendMessageComplete(s) PROVE KnownInv'
  BY <1>8 DEF SendMessageComplete
<1>9. ASSUME NEW r \in spawning, ChildResponse(r) PROVE KnownInv'
  BY <1>9 DEF ChildResponse, Answer, Delete
<1>10. ASSUME NEW r \in spawning, WaitChildTimeout(r) PROVE KnownInv'
  BY <1>10 DEF WaitChildTimeout, Answer, Delete
<1>11. ASSUME NEW p \in Pids \cup {Nweb}, Reap(p) PROVE KnownInv'
  BY <1>11 DEF Reap, HandleDiedPid, WaitChildDied, StopAppSpawn, ReservedAfter,
     CrashTimes, Answer, Delete
<1>12. ASSUME NEW p \in Pids \cup {Nweb}, Dies(p) PROVE KnownInv'
  BY <1>12 DEF Dies
<1>13. ASSUME NEW p \in Pids, NEW result \in {"ok", "fail"}, ChildReplies(p, result)
      PROVE KnownInv'
  BY <1>13 DEF ChildReplies
<1>14. QED
  BY <1>1, <1>2, <1>3, <1>4, <1>5, <1>6, <1>7, <1>8, <1>9, <1>10, <1>11, <1>12, <1>13
     DEF Next

\* No step lists a pid twice or keeps one that was waited for.
LEMMA PidNext ==
  TypeInv /\ PidInv /\ [Next]_vars => PidInv'
<1> SUFFICES ASSUME TypeInv, PidInv, [Next]_vars PROVE PidInv'
  OBVIOUS
<1> USE AppSpawnAssumption DEF Serving, Fails, Hit, queues, reserved, crashes, procs, TypeInv,
    Contexts, Requests, Alive, States, PidInv
<1>1. CASE UNCHANGED vars
  BY <1>1 DEF vars
<1>2. CASE SigTerm
  BY <1>2 DEF SigTerm, StopAppSpawn
<1>3. ASSUME NEW c \in Conns, OnConnection(c) PROVE PidInv'
  BY <1>3 DEF OnConnection
<1>4. ASSUME NEW c \in Conns, OnClose(c) PROVE PidInv'
  BY <1>4 DEF OnClose
<1>5. ASSUME NEW c \in Conns, NEW pre \in BOOLEAN, SpawnByFork(c, pre) PROVE PidInv'
  BY <1>5, ForkStep, PidSpawn
<1>6. ASSUME NEW c \in Conns, SpawnByReserved(c) PROVE PidInv'
  BY <1>6, ReservedStep, PidSpawn
<1>7. ASSUME NEW c \in Conns, NEW p \in Pids, DeviceDebugKill(c, p) PROVE PidInv'
  BY <1>7 DEF DeviceDebugKill
<1>8. ASSUME NEW s \in sends, SendMessageComplete(s) PROVE PidInv'
  BY <1>8 DEF SendMessageComplete
<1>9. ASSUME NEW r \in spawning, ChildResponse(r) PROVE PidInv'
  BY <1>9 DEF ChildResponse, Answer, Delete
<1>10. ASSUME NEW r \in spawning, WaitChildTimeout(r) PROVE PidInv'
  BY <1>10 DEF WaitChildTimeout, Answer, Delete
<1>11. ASSUME NEW p \in Pids \cup {Nweb}, Reap(p) PROVE PidInv'
  BY <1>11 DEF Reap, HandleDiedPid, WaitChildDied, StopAppSpawn, ReservedAfter,
     CrashTimes, Answer, Delete
<1>12. ASSUME NEW p \in Pids \cup {Nweb}, Dies(p) PROVE PidInv'
  BY <1>12 DEF Dies
<1>13. ASSUME NEW p \in Pids, NEW result \in {"ok", "fail"}, ChildReplies(p, result)
      PROVE PidInv'
  BY <1>13 DEF ChildReplies
<1>14. QED
  BY <1>1, <1>2, <1>3, <1>4, <1>5, <1>6, <1>7, <1>8, <1>9, <1>10, <1>11, <1>12, <1>13
     DEF Next

\* No step counts a crash that was not one in a row.
LEMMA CrashNext ==
  TypeInv /\ CrashInv /\ [Next]_vars => CrashInv'
<1> SUFFICES ASSUME TypeInv, CrashInv, [Next]_vars PROVE CrashInv'
  OBVIOUS
<1> USE AppSpawnAssumption DEF Serving, Fails, Hit, queues, reserved, crashes, procs, TypeInv,
    Contexts, Requests, Alive, States, CrashInv
<1>1. CASE UNCHANGED vars
  BY <1>1 DEF vars
<1>2. CASE SigTerm
  BY <1>2 DEF SigTerm, StopAppSpawn
<1>3. ASSUME NEW c \in Conns, OnConnection(c) PROVE CrashInv'
  BY <1>3 DEF OnConnection
<1>4. ASSUME NEW c \in Conns, OnClose(c) PROVE CrashInv'
  BY <1>4 DEF OnClose
<1>5. ASSUME NEW c \in Conns, NEW pre \in BOOLEAN, SpawnByFork(c, pre) PROVE CrashInv'
  BY <1>5 DEF SpawnByFork, NewRequest, AddChildWatcher, ProcessPreFork, Answer
<1>6. ASSUME NEW c \in Conns, SpawnByReserved(c) PROVE CrashInv'
  BY <1>6 DEF SpawnByReserved, NewRequest, AddChildWatcher, ProcessPreFork, Answer
<1>7. ASSUME NEW c \in Conns, NEW p \in Pids, DeviceDebugKill(c, p) PROVE CrashInv'
  BY <1>7 DEF DeviceDebugKill
<1>8. ASSUME NEW s \in sends, SendMessageComplete(s) PROVE CrashInv'
  BY <1>8 DEF SendMessageComplete
<1>9. ASSUME NEW r \in spawning, ChildResponse(r) PROVE CrashInv'
  BY <1>9 DEF ChildResponse, Answer, Delete
<1>10. ASSUME NEW r \in spawning, WaitChildTimeout(r) PROVE CrashInv'
  BY <1>10 DEF WaitChildTimeout, Answer, Delete
<1>11. ASSUME NEW p \in Pids \cup {Nweb}, Reap(p) PROVE CrashInv'
  BY <1>11 DEF Reap, HandleDiedPid, WaitChildDied, StopAppSpawn, ReservedAfter,
     CrashTimes, Answer, Delete
<1>12. ASSUME NEW p \in Pids \cup {Nweb}, Dies(p) PROVE CrashInv'
  BY <1>12 DEF Dies
<1>13. ASSUME NEW p \in Pids, NEW result \in {"ok", "fail"}, ChildReplies(p, result)
      PROVE CrashInv'
  BY <1>13 DEF ChildReplies
<1>14. QED
  BY <1>1, <1>2, <1>3, <1>4, <1>5, <1>6, <1>7, <1>8, <1>9, <1>10, <1>11, <1>12, <1>13
     DEF Next

\* The steps that end the spawner.
LEMMA RestartNext ==
  TypeInv /\ [Next]_vars => Restarts
<1> SUFFICES ASSUME TypeInv, [Next]_vars PROVE Restarts
  OBVIOUS
<1> USE AppSpawnAssumption DEF Serving, Fails, Hit, queues, reserved, crashes, procs, TypeInv,
    Contexts, Requests, Alive, States,
    Restarts
<1>1. CASE UNCHANGED vars
  BY <1>1 DEF vars
<1>2. CASE SigTerm
  BY <1>2 DEF SigTerm, StopAppSpawn
<1>3. ASSUME NEW c \in Conns, OnConnection(c) PROVE Restarts
  BY <1>3 DEF OnConnection
<1>4. ASSUME NEW c \in Conns, OnClose(c) PROVE Restarts
  BY <1>4 DEF OnClose
<1>5. ASSUME NEW c \in Conns, NEW pre \in BOOLEAN, SpawnByFork(c, pre) PROVE Restarts
  BY <1>5 DEF SpawnByFork, NewRequest, AddChildWatcher, ProcessPreFork, Answer
<1>6. ASSUME NEW c \in Conns, SpawnByReserved(c) PROVE Restarts
  BY <1>6 DEF SpawnByReserved, NewRequest, AddChildWatcher, ProcessPreFork, Answer
<1>7. ASSUME NEW c \in Conns, NEW p \in Pids, DeviceDebugKill(c, p) PROVE Restarts
  BY <1>7 DEF DeviceDebugKill
<1>8. ASSUME NEW s \in sends, SendMessageComplete(s) PROVE Restarts
  BY <1>8 DEF SendMessageComplete
<1>9. ASSUME NEW r \in spawning, ChildResponse(r) PROVE Restarts
  BY <1>9 DEF ChildResponse, Answer, Delete
<1>10. ASSUME NEW r \in spawning, WaitChildTimeout(r) PROVE Restarts
  BY <1>10 DEF WaitChildTimeout, Answer, Delete
<1>11. ASSUME NEW p \in Pids \cup {Nweb}, Reap(p) PROVE Restarts
  BY <1>11 DEF Reap, HandleDiedPid, WaitChildDied, StopAppSpawn, ReservedAfter,
     CrashTimes, Answer, Delete
<1>12. ASSUME NEW p \in Pids \cup {Nweb}, Dies(p) PROVE Restarts
  BY <1>12 DEF Dies
<1>13. ASSUME NEW p \in Pids, NEW result \in {"ok", "fail"}, ChildReplies(p, result)
      PROVE Restarts
  BY <1>13 DEF ChildReplies
<1>14. QED
  BY <1>1, <1>2, <1>3, <1>4, <1>5, <1>6, <1>7, <1>8, <1>9, <1>10, <1>11, <1>12, <1>13
     DEF Next

-----------------------------------------------------------------------------
\* The invariants that need nothing of the environment.
THEOREM SpawnerInvariant == Spec => [](TypeInv /\ RequestInv /\ KnownInv)
<1>1. Init => TypeInv /\ RequestInv /\ KnownInv
  BY AppSpawnAssumption
     DEF Init, TypeInv, RequestInv, AnsweredOnce, KnownInv, Contexts, Requests, States, Alive,
         Serving
<1>2. TypeInv /\ RequestInv /\ KnownInv /\ [Next]_vars
        => (TypeInv /\ RequestInv /\ KnownInv)'
  BY TypeNext, RequestNext, KnownNext
<1>3. QED
  BY <1>1, <1>2, PTL DEF Spec

\* A client is answered once, whichever of the child's result, its death, the
\* timer and a failing watcher comes first.
THEOREM AnswersOnce == Spec => []AnsweredOnce
<1>1. RequestInv => AnsweredOnce
  BY DEF RequestInv
<1>2. QED
  BY <1>1, SpawnerInvariant, PTL

\* No child is forgotten, whatever fails.
THEOREM NoChildForgotten == Spec => []ChildrenAreKnown
<1>1. KnownInv => ChildrenAreKnown
  <2> SUFFICES ASSUME KnownInv, Serving, NEW p \in Pids, proc[p] \in Alive, p \notin killed
               PROVE  p \in Known \/ proc[p] = "leaving"
    BY DEF ChildrenAreKnown
  <2>1. p # None
    BY AppSpawnAssumption
  <2>2. QED
    BY <2>1 DEF KnownInv, Known, Pending
<1>2. QED
  BY <1>1, SpawnerInvariant, PTL

\* No pid is kept once its process has been waited for, if pipes can be made.
THEOREM NoStrangerIsKnown == Spec => []KnownAreChildren
<1>1. Init => PidInv
  BY AppSpawnAssumption DEF Init, PidInv
<1>2. TypeInv /\ PidInv /\ [Next]_vars => PidInv'
  BY PidNext
<1>3. PidInv => KnownAreChildren
  BY DEF PidInv, KnownAreChildren, Known, Pending
<1>4. QED
  BY <1>1, <1>2, <1>3, SpawnerInvariant, PTL DEF Spec

\* The last m numbers up to d are requests, and among the last k when m <= k.
LEMMA Window ==
  ASSUME NEW R \in Nat, NEW d \in 0 .. R, NEW k \in Nat, NEW m \in Nat,
         k <= d, m <= k, NEW i \in (d - m + 1) .. d
  PROVE  i \in 1 .. R /\ d - k < i /\ i <= d
OBVIOUS

\* The spawner restarts by order, with nwebspawn, or when the children of
\* MAX_CRASH_TIME requests with consecutive ids have died.
THEOREM RestartEarned == Spec => RestartIsEarned
<1>1. Init => CrashInv
  BY DEF Init, CrashInv, Requests
<1>2. TypeInv /\ CrashInv /\ [Next]_vars => CrashInv'
  BY CrashNext
<1>3. TypeInv /\ TypeInv' /\ CrashInv' /\ [Next]_vars =>
        [Serving /\ ~Serving' =>
           \/ SigTerm
           \/ Reap(Nweb)
           \/ (lastDied' - MaxCrash + 1) .. lastDied' \subseteq crashed']_vars
  <2> SUFFICES ASSUME TypeInv, TypeInv', CrashInv', [Next]_vars, Serving, ~Serving',
                      ~SigTerm, ~Reap(Nweb)
               PROVE  (lastDied' - MaxCrash + 1) .. lastDied' \subseteq crashed'
    OBVIOUS
  <2>1. crashTimes' >= MaxCrash
    BY RestartNext DEF Restarts
  <2>2. /\ crashTimes' \in Nat /\ lastDied' \in 0 .. MaxReq
        /\ MaxCrash \in Nat /\ MaxReq \in Nat
    BY AppSpawnAssumption DEF TypeInv
  <2>3. ASSUME NEW i \in (lastDied' - MaxCrash + 1) .. lastDied' PROVE i \in crashed'
    <3>1. i \in Requests /\ lastDied' - crashTimes' < i /\ i <= lastDied'
      <4>1. crashTimes' <= lastDied'
        BY DEF CrashInv
      <4>2. QED
        BY <2>1, <2>2, <2>3, <4>1, Window DEF Requests
    <3>2. QED
      BY <3>1 DEF CrashInv
  <2>4. QED
    BY <2>3
<1>4. QED
  BY <1>1, <1>2, <1>3, SpawnerInvariant, PTL DEF Spec, RestartIsEarned

-------------------------------------------------------------------------------
(* SpawnChild: the plug-ins and a child *)

\* Where an image is before the hooks of the last stage are complete.
StartPcs == {"common", "asan", "content", "load", "preload"}

\* Where it is afterwards, and what of that belongs to a child.
ChildPcs == {"coldboot", "exec", "execute", "prereply", "notify", "postreply", "run"}
ReadyPcs == {"serve", "args"} \cup ChildPcs

Modules == [path : Nat, name : DOMAIN HooksOf]
Hooks   == [by : Modules \cup {Spawner}, stage : Nat, prio : Nat]

\* The types that matter: the hooks are a list.
HooksType ==
    /\ hooks \in Seq(Hooks)
    /\ scan.rest \subseteq Modules

\* The image and its program counter.
PcInv ==
    /\ pc \in StartPcs \cup ReadyPcs \cup {"end"}
    /\ image \in {"server", "child", "cold"}
    /\ image = "server" => pc \notin ChildPcs \cup {"args"}
    /\ image = "child" => pc \in ChildPcs \cup {"end"}
    /\ pc \notin {"asan", "preload"} => scan.rest = {}
    /\ image = "cold" => pc \notin {"serve", "coldboot", "exec", "notify"}

\* What the image holds.
HoldsInv ==
    /\ pc \in {"load", "preload"} \cup ReadyPcs => content = "live"
    /\ pc \in StartPcs \cup {"serve", "args"} => ctx = "none"
    /\ pc \in ChildPcs => ctx = "live"
    /\ pc \in ReadyPcs => looper
    /\ pc \in ReadyPcs => \E i \in DOMAIN hooks : hooks[i].by = Spawner /\ hooks[i].stage = ChildPreRun

\* What has failed, and what the parent knows of it.
ToldInv ==
    /\ pc # "end" => outcome = "no"
    /\ pc \notin {"postreply", "run", "end"} => told = "none" /\ failed = {}
    /\ pc \in {"postreply", "run"} =>
          \/ told = "ok" /\ failed = {}
          \/ told = "fail" /\ failed = {"prereply"} /\ image = "cold"

SpawnInv == HooksType /\ PcInv /\ HoldsInv /\ ToldInv /\ AnswerIsTrue /\ FailureClears

--------------------------------------------------------------------------------
(* The list of hooks *)

\* SetToSeq puts the elements of a finite set in a list.
LEMMA SetToSeqType ==
  ASSUME NEW S, IsFiniteSet(S)
  PROVE  SetToSeq(S) \in Seq(S) /\ Len(SetToSeq(S)) = Cardinality(S)
<1> DEFINE n == Cardinality(S)
<1>1. n \in Nat /\ ExistsBijection(1 .. n, S)
  BY FS_CardinalityType
<1> HIDE DEF n
<1>2. \E f \in [1 .. n -> S] : IsInjective(f)
  BY <1>1 DEF ExistsBijection, Bijection, Injection, IsInjective
<1>3. SetToSeq(S) \in [1 .. n -> S]
  BY <1>2 DEF SetToSeq, n
<1>4. QED
  BY <1>1, <1>3 DEF n

\* Add appends: the hooks that were there stay where they are.
LEMMA AddType ==
  ASSUME NEW hs \in Seq(Hooks), NEW by \in Modules \cup {Spawner}, NEW new, IsFiniteSet(new),
         new \subseteq [api : {"server", "process", "app"}, stage : Nat, prio : Nat]
  PROVE  Add(hs, by, new) \in Seq(Hooks)
<1> DEFINE S == {[by |-> by, stage |-> h.stage, prio |-> h.prio] : h \in {x \in new : Accepted(x)}}
<1>1. IsFiniteSet({x \in new : Accepted(x)})
  BY FS_Subset
<1>2. IsFiniteSet(S)
  <2> DEFINE T == {x \in new : Accepted(x)}
             f == [h \in T |-> [by |-> by, stage |-> h.stage, prio |-> h.prio]]
  <2>1. f \in Surjection(T, S)
    <3>1. f \in [T -> S]
      OBVIOUS
    <3>2. ASSUME NEW e \in S PROVE \E h \in T : f[h] = e
      OBVIOUS
    <3>3. QED
      BY <3>1, <3>2 DEF Surjection
  <2> HIDE DEF S, T, f
  <2>2. QED
    BY <1>1, <2>1, FS_Surjection DEF T
<1>3. S \subseteq Hooks
  BY DEF Hooks
<1> HIDE DEF S
<1>4. SetToSeq(S) \in Seq(S)
  BY <1>2, SetToSeqType
<1>5. SetToSeq(S) \in Seq(Hooks)
  BY <1>3, <1>4
<1>6. hs \o SetToSeq(S) \in Seq(Hooks)
  BY <1>5
<1>7. QED
  BY <1>6 DEF Add, S

\* The last element of a list to which one element was appended.
LEMMA AppendOne ==
  ASSUME NEW S, NEW s \in Seq(S), NEW t \in Seq(S), Len(t) = 1
  PROVE  Len(s) + 1 \in DOMAIN (s \o t) /\ (s \o t)[Len(s) + 1] = t[1]
<1> DEFINE n == Len(s)
           c == s \o t
<1>1. n \in Nat
  BY LenProperties
<1>2. /\ c \in Seq(S) /\ Len(c) = n + Len(t)
      /\ \A i \in 1 .. n + Len(t) : c[i] = IF i <= n THEN s[i] ELSE t[i - n]
  BY ConcatProperties, Zenon
<1> HIDE DEF n, c
<1>3. c[n + 1] = t[1]
  <2> DEFINE m == n + 1
  <2>1. \A i \in 1 .. n + Len(t) : ~ (i <= n) => c[i] = t[i - n]
    BY <1>2, Zenon
  <2>2. m \in 1 .. n + Len(t) /\ ~ (m <= n) /\ m - n = 1
    BY <1>1
  <2> HIDE DEF m
  <2>3. c[m] = t[m - n]
    BY <2>1, <2>2
  <2>4. QED
    BY <2>2, <2>3 DEF m
<1>4. n + 1 \in DOMAIN c
  BY <1>2, <1>1
<1>5. QED
  BY <1>3, <1>4 DEF n, c

\* The hook of the spawner is in the list once it was added.
LEMMA AddSpawner ==
  ASSUME NEW hs \in Seq(Hooks)
  PROVE  LET new == Add(hs, Spawner, {[api |-> "app", stage |-> ChildPreRun, prio |-> LowestPrio]})
         IN  \E i \in DOMAIN new : new[i].by = Spawner /\ new[i].stage = ChildPreRun
<1> DEFINE h == [api |-> "app", stage |-> ChildPreRun, prio |-> LowestPrio]
           e == [by |-> Spawner, stage |-> ChildPreRun, prio |-> LowestPrio]
           S == {[by |-> Spawner, stage |-> x.stage, prio |-> x.prio] : x \in {y \in {h} : Accepted(y)}}
<1>1. Accepted(h)
  BY DEF Accepted, AddAppSpawnHook, ParentPreFork, ChildPreRun
<1>2. S = {e}
  BY <1>1
<1> HIDE DEF S
<1>3. IsFiniteSet({e}) /\ Cardinality({e}) = 1
  BY FS_Singleton
<1>4. SetToSeq(S) \in Seq({e}) /\ Len(SetToSeq(S)) = 1
  BY <1>2, <1>3, SetToSeqType
<1> DEFINE t == SetToSeq(S)
           new == hs \o t
<1>5. e \in Hooks /\ t \in Seq(Hooks) /\ Len(t) = 1 /\ t[1] = e
  <2>1. e \in Hooks
    BY DEF Hooks, ChildPreRun, LowestPrio
  <2> HIDE DEF e, t
  <2>2. t \in Seq({e}) /\ Len(t) = 1
    BY <1>4 DEF t
  <2>3. 1 \in 1 .. Len(t)
    BY <2>2
  <2>4. t[1] \in {e}
    BY <2>2, <2>3, ElementOfSeq, Zenon
  <2>5. QED
    BY <2>1, <2>2, <2>4
<1> HIDE DEF e, t
<1>6. Len(hs) + 1 \in DOMAIN new /\ new[Len(hs) + 1] = e
  BY <1>5, AppendOne
<1>7. e.by = Spawner /\ e.stage = ChildPreRun
  BY DEF e
<1>8. \E i \in DOMAIN new : new[i].by = Spawner /\ new[i].stage = ChildPreRun
  BY <1>6, <1>7
<1>9. new = Add(hs, Spawner, {h})
  BY DEF Add, S, t
<1> HIDE DEF new, h
<1>10. QED
  BY <1>8, <1>9 DEF h

--------------------------------------------------------------------------------
(* The steps *)

\* AppSpawnEnvClear finds the spawner's hook, whatever the other hooks answer.
LEMMA EnvClears ==
  ASSUME \E i \in DOMAIN hooks : hooks[i].by = Spawner /\ hooks[i].stage = ChildPreRun,
         AppSpawnEnvClear
  PROVE  ctx' = "freed" /\ content' = "freed"
<1>1. PICK r \in HookExecute(ChildPreRun, FALSE) :
        LET freed == \E i \in r.run : hooks[i].by = Spawner
        IN  /\ ctx' = IF freed THEN "freed" ELSE ctx
            /\ content' = IF freed THEN "freed" ELSE content
  BY DEF AppSpawnEnvClear
<1>2. r.run = At(ChildPreRun)
  <2>1. PICK bad : r = [run |-> Run(ChildPreRun, bad, FALSE), ok |-> ~ FALSE \/ bad = {}]
    BY DEF HookExecute
  <2>2. Run(ChildPreRun, bad, FALSE) = At(ChildPreRun)
    BY DEF Run
  <2>3. QED
    BY <2>1, <2>2
<1>3. \E i \in r.run : hooks[i].by = Spawner
  BY <1>2 DEF At
<1>4. QED
  BY <1>1, <1>3

\* The list of hooks stays a list.
LEMMA HooksTypeNext ==
  ASSUME HooksType, [ChildNext]_childVars
  PROVE  HooksType'
<1> USE SpawnChildAssumption DEF HooksType
<1>1. CASE LoadCommon \/ LoadType
  <2>1. ASSUME NEW type \in DOMAIN Files PROVE ScanModules(type) \subseteq Modules
    BY DEF ScanModules, Modules
  <2>2. QED
    BY <1>1, <2>1 DEF LoadCommon, LoadType, AppSpawnLoadAutoRunModules
<1>2. CASE ModuleMgrScan
  <2>1. PICK new \in scan.rest : /\ ModuleMgrInstall(scan.type, new)
                                 /\ scan' = [scan EXCEPT !.rest = @ \ {new}]
    BY <1>2 DEF ModuleMgrScan
  <2>2. new \in Modules /\ new.name \in DOMAIN HooksOf
    BY DEF Modules
  <2>3. Add(hooks, new, HooksOf[new.name]) \in Seq(Hooks)
    BY <2>2, AddType
  <2>4. QED
    BY <2>1, <2>3 DEF ModuleMgrInstall, ModuleInstall
<1>3. CASE AppSpawnModuleMgrInstall
  <2>1. [path |-> 0, name |-> AsanModule] \in Modules
    BY DEF Modules
  <2>2. Add(hooks, [path |-> 0, name |-> AsanModule], HooksOf[AsanModule]) \in Seq(Hooks)
    BY <2>1, AddType
  <2>3. QED
    BY <1>3, <2>2 DEF AppSpawnModuleMgrInstall
<1>4. CASE Preload
  <2> DEFINE h == [api |-> "app", stage |-> ChildPreRun, prio |-> LowestPrio]
  <2>1. h \in [api : {"server", "process", "app"}, stage : Nat, prio : Nat]
    BY DEF ChildPreRun, LowestPrio
  <2>2. IsFiniteSet({h})
    BY FS_Singleton
  <2>3. Add(hooks, Spawner, {h}) \in Seq(Hooks)
    BY <2>1, <2>2, AddType
  <2>4. QED
    BY <1>4, <2>3 DEF Preload, Ends
<1>5. CASE AppSpawnColdStartApp
  <2>1. <<>> \in Seq(Hooks)
    BY EmptySeq
  <2>2. QED
    BY <1>5, <2>1 DEF AppSpawnColdStartApp, Ends, start
<1>6. CASE AppSpawnCreateContent \/ AppSpawnForkChildProcess
  BY <1>6 DEF AppSpawnCreateContent, Ends, AppSpawnForkChildProcess, start
<1>7. CASE ClearEnvHook \/ SpawningHook \/ PreReplyHook \/ ColdSpawningHook \/ RunChildProcessor
  BY <1>7 DEF ClearEnvHook, SpawningHook, PreReplyHook, ChildStage, ColdSpawningHook, RunChildProcessor
<1>8. CASE Notify \/ PostReplyHook \/ GetAppSpawningCtxFromArg \/ ColdPreReplyHook
  BY <1>8 DEF Notify, PostReplyHook, GetAppSpawningCtxFromArg, ColdPreReplyHook, start
<1>9. CASE Done \/ UNCHANGED childVars
  BY <1>9 DEF Done, childVars
<1>10. QED
  BY <1>1, <1>2, <1>3, <1>4, <1>5, <1>6, <1>7, <1>8, <1>9 DEF ChildNext

\* A stage of a child or of a cold child that fails: the parent is told, and
\* everything is freed.
StageFails(stage) ==
    /\ stage \in {"coldboot", "execute", "prereply"}
    /\ failed' = failed \cup {stage}
    /\ NotifyResToParent("fail")
    /\ ctx' = "freed" /\ content' = "freed"
    /\ pc' = "end"
    /\ UNCHANGED <<image, modules, scan, hooks, looper, cold, outcome>>

\* SpawnInv is inductive.
LEMMA SpawnNext ==
  ASSUME SpawnInv, [ChildNext]_childVars
  PROVE  SpawnInv'
<1> USE DEF SpawnInv, PcInv, HoldsInv, ToldInv, AnswerIsTrue, FailureClears, StartPcs, ChildPcs,
        ReadyPcs, start
<1> HIDE DEF HooksType
<1>1. HooksType'
  BY HooksTypeNext
<1>2. CASE LoadCommon
  BY <1>1, <1>2 DEF LoadCommon, Starting, AppSpawnLoadAutoRunModules
<1>3. CASE ModuleMgrScan
  <2>1. pc \in {"asan", "preload"}
    BY <1>3 DEF ModuleMgrScan
  <2>2. QED
    BY <1>1, <1>3, <2>1 DEF ModuleMgrScan
<1>4. CASE AppSpawnModuleMgrInstall
  BY <1>1, <1>4 DEF AppSpawnModuleMgrInstall, Starting
<1>5. CASE AppSpawnCreateContent
  BY <1>1, <1>5 DEF AppSpawnCreateContent, Ends
<1>6. CASE LoadType
  BY <1>1, <1>6 DEF LoadType, Starting, AppSpawnLoadAutoRunModules
<1>7. CASE Preload
  <2> DEFINE h == [api |-> "app", stage |-> ChildPreRun, prio |-> LowestPrio]
             New == Add(hooks, Spawner, {h})
  <2>1. \E i \in DOMAIN New : New[i].by = Spawner /\ New[i].stage = ChildPreRun
    BY AddSpawner DEF HooksType
  <2> HIDE DEF New
  <2>2. CASE content' = "freed" /\ Ends("not prepared") /\ pc = "preload" /\ scan.rest = {}
             /\ image # "child"
    BY <1>1, <2>2 DEF Ends
  <2>3. CASE /\ pc = "preload" /\ scan.rest = {} /\ looper' = TRUE /\ hooks' = New
             /\ image \in {"server", "cold"}
             /\ pc' = IF image = "server" THEN "serve" ELSE "args"
             /\ UNCHANGED <<image, scan, content, ctx, told, failed, outcome>>
    BY <1>1, <2>1, <2>3
  <2>4. QED
    BY <1>7, <2>2, <2>3 DEF Preload, New
<1>8. CASE AppSpawnForkChildProcess
  BY <1>1, <1>8 DEF AppSpawnForkChildProcess
<1>9. ASSUME NEW stage, StageFails(stage), pc = stage, image \in {"child", "cold"},
             image = "cold" => stage = "execute"
      PROVE  SpawnInv'
  BY <1>1, <1>9 DEF StageFails, NotifyResToParent
<1>10. CASE ClearEnvHook \/ SpawningHook \/ PreReplyHook
  <2>1. ASSUME NEW at \in {"coldboot", "execute", "prereply"}, NEW stage, NEW next \in ChildPcs,
               ChildStage(at, stage, next),
               at = "coldboot" => next \in {"exec", "execute"},
               at = "execute" => next = "prereply",
               at = "prereply" => next = "notify"
        PROVE  SpawnInv'
    <3>1. CASE /\ image = "child" /\ pc = at /\ pc' = next
               /\ UNCHANGED <<content, ctx, told, failed, image, scan, hooks, looper, outcome>>
      BY <1>1, <2>1, <3>1
    <3>2. CASE /\ image = "child" /\ pc = at /\ failed' = failed \cup {at}
               /\ NotifyResToParent("fail") /\ AppSpawnEnvClear /\ pc' = "end"
               /\ UNCHANGED <<image, modules, scan, hooks, looper, cold, outcome>>
      <4>1. ctx' = "freed" /\ content' = "freed"
        BY <3>2, EnvClears
      <4>2. StageFails(at)
        BY <3>2, <4>1 DEF StageFails
      <4>3. QED
        BY <1>9, <3>2, <4>2
    <3>3. QED
      BY <2>1, <3>1, <3>2 DEF ChildStage
  <2>2. QED
    BY <1>10, <2>1 DEF ClearEnvHook, SpawningHook, PreReplyHook
<1>11. CASE AppSpawnColdStartApp
  BY <1>1, <1>11 DEF AppSpawnColdStartApp, Ends
<1>12. CASE Notify \/ PostReplyHook
  BY <1>1, <1>12 DEF Notify, PostReplyHook, NotifyResToParent
<1>13. CASE RunChildProcessor
  <2>1. CASE UNCHANGED <<content, ctx, failed>>
    BY <1>1, <1>13, <2>1 DEF RunChildProcessor
  <2>2. CASE failed' = failed \cup {"run"} /\ AppSpawnEnvClear
    <3>1. ctx' = "freed" /\ content' = "freed"
      BY <1>13, <2>2, EnvClears DEF RunChildProcessor
    <3>2. QED
      BY <1>1, <1>13, <2>2, <3>1 DEF RunChildProcessor
  <2>3. QED
    BY <1>13, <2>1, <2>2 DEF RunChildProcessor
<1>14. CASE GetAppSpawningCtxFromArg
  BY <1>1, <1>14 DEF GetAppSpawningCtxFromArg, NotifyResToParent
<1>15. CASE ColdSpawningHook
  <2>1. CASE /\ image = "cold" /\ pc = "execute" /\ pc' = "prereply"
             /\ UNCHANGED <<content, ctx, told, failed, image, scan, hooks, looper, outcome>>
    BY <1>1, <2>1
  <2>2. CASE /\ image = "cold" /\ pc = "execute" /\ failed' = failed \cup {"execute"}
             /\ NotifyResToParent("fail") /\ AppSpawnEnvClear /\ pc' = "end"
             /\ UNCHANGED <<image, modules, scan, hooks, looper, cold, outcome>>
    <3>1. ctx' = "freed" /\ content' = "freed"
      BY <2>2, EnvClears
    <3>2. QED
      BY <1>9, <2>2, <3>1 DEF StageFails
  <2>3. QED
    BY <1>15, <2>1, <2>2 DEF ColdSpawningHook
<1>16. CASE ColdPreReplyHook
  BY <1>1, <1>16 DEF ColdPreReplyHook, NotifyResToParent
<1>17. CASE Done \/ UNCHANGED childVars
  <2>1. UNCHANGED childVars
    BY <1>17 DEF Done
  <2>2. (PcInv /\ HoldsInv)'
    BY <2>1 DEF childVars
  <2>3. (ToldInv /\ AnswerIsTrue)'
    BY <2>1 DEF childVars
  <2>4. FailureClears'
    BY <2>1 DEF childVars
  <2>5. QED
    BY <1>1, <2>2, <2>3, <2>4
<1>18. QED
  BY <1>2, <1>3, <1>4, <1>5, <1>6, <1>7, <1>8, <1>10, <1>11, <1>12, <1>13, <1>14, <1>15, <1>16,
     <1>17 DEF ChildNext

\* The invariant of an application process: it holds of every reachable state.
THEOREM SpawnInvariant == ChildSpec => []SpawnInv
<1>1. ChildInit => SpawnInv
  BY DEF ChildInit, SpawnInv, HooksType, PcInv, HoldsInv, ToldInv, AnswerIsTrue, FailureClears, StartPcs,
         ChildPcs, ReadyPcs
<1>2. QED
  BY <1>1, SpawnNext, PTL DEF ChildSpec

\* The parent hears the truth: whatever plug-ins there are and whatever their
\* hooks answer, what NotifyResToParent sent agrees with the stages that ran.
THEOREM ParentHearsTheTruth == ChildSpec => []AnswerIsTrue
<1>1. SpawnInv => AnswerIsTrue
  BY DEF SpawnInv
<1>2. QED
  BY SpawnInvariant, <1>1, PTL

\* A failure clears: AppSpawnEnvClear always reaches AppSpawnClearEnv, as the
\* spawner's hook is in the list whatever the plug-ins registered.
THEOREM FailedChildIsCleared == ChildSpec => []FailureClears
<1>1. SpawnInv => FailureClears
  BY DEF SpawnInv
<1>2. QED
  BY SpawnInvariant, <1>1, PTL
===============================================================================
