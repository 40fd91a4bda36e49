-------------------------- MODULE InitServiceProofs --------------------------
(***************************************************************************)
(* Proofs about InitService, for every set of process ids, every kind of   *)
(* service, every crash limit and every family of failing calls.           *)
(*                                                                         *)
(* SafeInv is the inductive invariant: a pid is a running child or a       *)
(* zombie but not both, which is what makes ServiceReap's look-up by pid   *)
(* sound, and a stopped service keeps nothing that could start it.         *)
(* DemandInv is about reaching a service on demand, CrashInv about the     *)
(* window in which ServiceReap counts crashes.                             *)
(***************************************************************************)
EXTENDS InitService, SequenceTheorems, TLAPS

ProcInv ==
  /\ alive \cap zombies = {}
  /\ StrayIsKilled
  /\ PidIsOwnChild

\* What a stop of a running service leaves behind: no timer, no watched
\* socket, and a mark that its process, should it still be there, is not to be
\* restarted when it ends.
StopInv ==
  /\ stopped = "running" => ~timer /\ sock = "closed" /\ (pid # None => needStop)
  /\ HeldFdsExist

\* What keeps an on-demand service reachable when no call fails: a process it
\* has was not asked to stop, so its end is followed by a new watch.
DemandInv ==
  /\ OnDemandIsReachable
  /\ failing = {} /\ pid # None => ~needStop

\* The crashes on record are in order, the last crashCnt of them make the open
\* window, and its first crash lies more than CrashTime after all but the last
\* CrashCount - 2 of the crashes before it: they were in the window before.
CrashInv ==
  /\ Len(crashes) < 2 * CrashCount
  /\ crashCnt <= Len(crashes) /\ (crashCnt = 0 => Len(crashes) = 0)
  /\ \A i, j \in 1 .. Len(crashes) : i <= j => crashes[i] <= crashes[j]
  /\ \A i \in 1 .. Len(crashes) : crashes[i] <= now
  /\ crashCnt > 0 => crashes[Len(crashes) - crashCnt + 1] = firstCrash
  /\ ~panicked => /\ crashCnt < CrashCount
                  /\ crashCnt > 0 =>
                       \A i \in 1 .. (Len(crashes) - crashCnt + 2 - CrashCount) :
                         firstCrash - crashes[i] > CrashTime
  /\ panicked => /\ Is("critical") /\ crashCnt = CrashCount
                 /\ crashes[Len(crashes)] - firstCrash <= CrashTime

\* The two halves of TypeOK: processes and states, flags and numbers.
NameTypes ==
  /\ kind \in Kinds /\ failing \in Failures
  /\ pid \in Pids \cup {None} /\ pubPid \in Pids \cup {None}
  /\ status \in {"idle", "started", "stopping", "stopped"}
  /\ sock \in {"closed", "open", "watched"}
  /\ alive \subseteq Pids /\ zombies \subseteq Pids /\ killed \subseteq Pids
  /\ stopped \in {"no", "idle", "running"}

FlagTypes ==
  /\ invalid \in BOOLEAN /\ needRestart \in BOOLEAN /\ needStop \in BOOLEAN
  /\ timer \in BOOLEAN
  /\ crashCnt \in Nat /\ firstCrash \in Nat /\ crashes \in Seq(Nat)
  /\ fds \in BOOLEAN /\ fdCount \in 0 .. MaxHoldFds
  /\ now \in Nat
  /\ panicked \in BOOLEAN /\ broken \in BOOLEAN

SafeInv == TypeOK /\ ProcInv /\ StopInv

-----------------------------------------------------------------------------
\* The crash record keeps its type when ServiceReap counts a crash.
LEMMA CrashTypes ==
  ASSUME TypeOK, CalculateCrashTime
  PROVE  crashCnt' \in Nat /\ firstCrash' \in Nat /\ crashes' \in Seq(Nat)
<1>1. /\ now \in Nat /\ crashes \in Seq(Nat) /\ crashCnt \in Nat
      /\ firstCrash \in Nat /\ CrashCount \in Nat \ {0}
  BY InitServiceAssumption DEF TypeOK
<1>2. Append(crashes, now) \in Seq(Nat) /\ Len(Append(crashes, now)) > 0
  BY <1>1
<1>3. Recent(Append(crashes, now)) \in Seq(Nat)
  BY <1>2 DEF Recent
<1>4. QED
  BY <1>1, <1>3 DEF CalculateCrashTime

\* Every step keeps processes and states in their ranges.
LEMMA NameNext == TypeOK /\ [Next]_vars => NameTypes'
<1> SUFFICES ASSUME TypeOK, [Next]_vars PROVE NameTypes'
  OBVIOUS
<1> USE InitServiceAssumption DEF TypeOK, NameTypes,
      vars, fixed, flags, shown, count, held, procs
<1>1. CASE CommandStart
  BY <1>1 DEF CommandStart, ServiceStart, Launch, Notify
<1>2. CASE CommandStop
  BY <1>2 DEF CommandStop, CloseServiceFds, ServiceStopTimer, Notify
<1>3. CASE CommandReset
  BY <1>3 DEF CommandReset, ServiceStart, Launch, Notify
<1>4. CASE CommandTimer
  BY <1>4 DEF CommandTimer, ServiceStartTimer
<1>5. CASE TimerFires
  BY <1>5 DEF TimerFires, ServiceStopTimer, ServiceStart, Launch, Notify
<1>6. CASE SocketEvent
  BY <1>6 DEF SocketEvent, ServiceStart, Launch, Notify
<1>7. CASE Tick
  BY <1>7 DEF Tick
<1>8. ASSUME NEW n \in FdCounts, HoldFds(n) PROVE NameTypes'
  BY <1>8 DEF HoldFds, UpdaterServiceFds
<1>9. ASSUME NEW p \in Pids, ProcessEnds(p) PROVE NameTypes'
  BY <1>9 DEF ProcessEnds
<1>10. ASSUME NEW p \in Pids, ReapChild(p) PROVE NameTypes'
  <2>1. CASE p # pid
    BY <1>10, <2>1 DEF ReapChild
  <2>2. CASE p = pid
    <3>1. Retire \/ Launch("stopped", pid)
      BY <1>10, <2>2 DEF ReapChild, ServiceReap, RestartCrashed
    <3>2. sock' \in {sock, "watched"}
      BY <1>10, <2>2 DEF ReapChild, ServiceReap, CheckOndemandService
    <3>3. UNCHANGED <<fixed, stopped>> /\ zombies' = zombies \ {p}
      BY <1>10 DEF ReapChild
    <3>4. QED
      BY <3>1, <3>2, <3>3 DEF Retire, Launch, Notify
  <2>3. QED
    BY <2>1, <2>2
<1>11. CASE UNCHANGED vars
  BY <1>11
<1>12. QED
  BY <1>1, <1>2, <1>3, <1>4, <1>5, <1>6, <1>7, <1>8, <1>9, <1>10, <1>11
     DEF Next, Command

\* Every step keeps flags and numbers in their ranges.
LEMMA FlagNext == TypeOK /\ [Next]_vars => FlagTypes'
<1> SUFFICES ASSUME TypeOK, [Next]_vars PROVE FlagTypes'
  OBVIOUS
<1> USE InitServiceAssumption DEF TypeOK, FlagTypes,
      vars, fixed, flags, shown, count, held, procs
<1>1. CASE CommandStart
  BY <1>1 DEF CommandStart, ServiceStart, Launch, Notify
<1>2. CASE CommandStop
  <2>1. UNCHANGED held \/ CloseServiceFds
    BY <1>2 DEF CommandStop
  <2>4. fds' \in BOOLEAN
    BY <2>1 DEF CloseServiceFds
  <2>5. fdCount' \in 0 .. MaxHoldFds
    BY <2>1 DEF CloseServiceFds
  <2>2. timer' \in BOOLEAN
    BY <1>2 DEF CommandStop, ServiceStopTimer
  <2>3. QED
    BY <1>2, <2>2, <2>4, <2>5 DEF CommandStop
<1>3. CASE CommandReset
  BY <1>3 DEF CommandReset, ServiceStart, Launch, Notify
<1>4. CASE CommandTimer
  BY <1>4 DEF CommandTimer, ServiceStartTimer
<1>5. CASE TimerFires
  BY <1>5 DEF TimerFires, ServiceStopTimer, ServiceStart, Launch, Notify
<1>6. CASE SocketEvent
  BY <1>6 DEF SocketEvent, ServiceStart, Launch, Notify
<1>7. CASE Tick
  BY <1>7 DEF Tick
<1>8. ASSUME NEW n \in FdCounts, HoldFds(n) PROVE FlagTypes'
  <2>1. fds' \in BOOLEAN
    BY <1>8 DEF HoldFds, UpdaterServiceFds
  <2>2. fdCount' \in 0 .. MaxHoldFds
    BY <1>8 DEF HoldFds, UpdaterServiceFds
  <2>3. QED
    BY <1>8, <2>1, <2>2 DEF HoldFds
<1>9. ASSUME NEW p \in Pids, ProcessEnds(p) PROVE FlagTypes'
  BY <1>9 DEF ProcessEnds
<1>10. ASSUME NEW p \in Pids, ReapChild(p) PROVE FlagTypes'
  <2>1. CASE p # pid
    BY <1>10, <2>1 DEF ReapChild
  <2>2. CASE p = pid
    <3>1. ServiceReap /\ UNCHANGED <<held, now>>
      BY <1>10, <2>2 DEF ReapChild
    <3>2. /\ invalid' \in BOOLEAN /\ needRestart' \in BOOLEAN
          /\ needStop' \in BOOLEAN /\ timer' \in BOOLEAN /\ broken' \in BOOLEAN
      BY <3>1 DEF ServiceReap, RestartCrashed, CheckOndemandService, Launch,
         ServiceStartTimer
    <3>3. panicked' \in BOOLEAN
      BY <3>1 DEF ServiceReap, RestartCrashed, ForgetCrashes
    <3>4. crashCnt' \in Nat /\ firstCrash' \in Nat /\ crashes' \in Seq(Nat)
      <4>1. \/ CalculateCrashTime \/ UNCHANGED count \/ ForgetCrashes
            \/ /\ crashCnt' = 0 /\ crashes' = <<>>
               /\ firstCrash' = IF crashCnt = 0 THEN now ELSE firstCrash
        BY <3>1 DEF ServiceReap, RestartCrashed
      <4>2. <<>> \in Seq(Nat)
        OBVIOUS
      <4>3. CASE CalculateCrashTime
        BY <4>3, CrashTypes
      <4>4. CASE ~CalculateCrashTime
        <5>1. crashes' = crashes \/ crashes' = <<>>
          BY <4>1, <4>4 DEF ForgetCrashes
        <5>2. crashes' \in Seq(Nat)
          BY <4>2, <5>1, Zenon
        <5>3. crashCnt' \in Nat /\ firstCrash' \in Nat
          BY <4>1, <4>4 DEF ForgetCrashes
        <5>4. QED
          BY <5>2, <5>3
      <4>5. QED
        BY <4>3, <4>4
    <3>5. QED
      BY <3>1, <3>2, <3>3, <3>4
  <2>3. QED
    BY <2>1, <2>2
<1>11. CASE UNCHANGED vars
  BY <1>11
<1>12. QED
  BY <1>1, <1>2, <1>3, <1>4, <1>5, <1>6, <1>7, <1>8, <1>9, <1>10, <1>11
     DEF Next, Command

\* Every step keeps the books on processes.
LEMMA ProcNext == TypeOK /\ ProcInv /\ [Next]_vars => ProcInv'
<1> SUFFICES ASSUME TypeOK, ProcInv, [Next]_vars PROVE ProcInv'
  OBVIOUS
<1> USE InitServiceAssumption DEF TypeOK, ProcInv, StrayIsKilled,
      PidIsOwnChild, vars, fixed, flags, shown, count, held, procs
<1>1. CASE CommandStart
  BY <1>1 DEF CommandStart, ServiceStart, Launch, Notify
<1>2. CASE CommandStop
  BY <1>2 DEF CommandStop, CloseServiceFds, ServiceStopTimer, Notify
<1>3. CASE CommandReset
  BY <1>3 DEF CommandReset, ServiceStart, Launch, Notify
<1>4. CASE CommandTimer
  BY <1>4 DEF CommandTimer, ServiceStartTimer
<1>5. CASE TimerFires
  BY <1>5 DEF TimerFires, ServiceStopTimer, ServiceStart, Launch, Notify
<1>6. CASE SocketEvent
  BY <1>6 DEF SocketEvent, ServiceStart, Launch, Notify
<1>7. CASE Tick
  BY <1>7 DEF Tick
<1>8. ASSUME NEW n \in FdCounts, HoldFds(n) PROVE ProcInv'
  BY <1>8 DEF HoldFds, UpdaterServiceFds
<1>9. ASSUME NEW p \in Pids, ProcessEnds(p) PROVE ProcInv'
  BY <1>9 DEF ProcessEnds
<1>10. ASSUME NEW p \in Pids, ReapChild(p) PROVE ProcInv'
  <2>1. CASE p # pid
    BY <1>10, <2>1 DEF ReapChild
  <2>2. CASE p = pid
    <3>1. pid \in zombies /\ zombies' = zombies \ {pid}
      BY <1>10, <2>2 DEF ReapChild
    <3>2. Retire \/ Launch("stopped", pid)
      BY <1>10, <2>2 DEF ReapChild, ServiceReap, RestartCrashed
    <3>3. QED
      BY <3>1, <3>2 DEF Retire, Launch, Notify
  <2>3. QED
    BY <2>1, <2>2
<1>11. CASE UNCHANGED vars
  BY <1>11
<1>12. QED
  BY <1>1, <1>2, <1>3, <1>4, <1>5, <1>6, <1>7, <1>8, <1>9, <1>10, <1>11
     DEF Next, Command

\* No step but a command undoes a stop.
LEMMA StopNext == TypeOK /\ StopInv /\ [Next]_vars => StopInv'
<1> SUFFICES ASSUME TypeOK, StopInv, [Next]_vars PROVE StopInv'
  OBVIOUS
<1> USE InitServiceAssumption DEF TypeOK, StopInv, HeldFdsExist,
      vars, fixed, flags, shown, count, held, procs
<1>1. CASE CommandStart
  BY <1>1 DEF CommandStart, ServiceStart, Launch, Notify
<1>2. CASE CommandStop
  BY <1>2 DEF CommandStop, CloseServiceFds, ServiceStopTimer, Notify
<1>3. CASE CommandReset
  BY <1>3 DEF CommandReset, ServiceStart, Launch, Notify
<1>4. CASE CommandTimer
  BY <1>4 DEF CommandTimer, ServiceStartTimer
<1>5. CASE TimerFires
  BY <1>5 DEF TimerFires, ServiceStopTimer, ServiceStart, Launch, Notify
<1>6. CASE SocketEvent
  BY <1>6 DEF SocketEvent, ServiceStart, Launch, Notify
<1>7. CASE Tick
  BY <1>7 DEF Tick
<1>8. ASSUME NEW n \in FdCounts, HoldFds(n) PROVE StopInv'
  BY <1>8 DEF HoldFds, UpdaterServiceFds
<1>9. ASSUME NEW p \in Pids, ProcessEnds(p) PROVE StopInv'
  BY <1>9 DEF ProcessEnds
<1>10. ASSUME NEW p \in Pids, ReapChild(p) PROVE StopInv'
  <2>1. CASE p # pid
    BY <1>10, <2>1 DEF ReapChild
  <2>2. CASE p = pid
    <3>1. pid # None
      BY <2>2
    <3>2. UNCHANGED held /\ stopped' = stopped /\ ServiceReap
      BY <1>10, <2>2 DEF ReapChild
    <3>3. stopped = "running" => pid' = None /\ timer' = timer /\ sock' = sock
      BY <3>1, <3>2 DEF ServiceReap, Retire
    <3>4. QED
      BY <3>2, <3>3
  <2>3. QED
    BY <2>1, <2>2
<1>11. CASE UNCHANGED vars
  BY <1>11
<1>12. QED
  BY <1>1, <1>2, <1>3, <1>4, <1>5, <1>6, <1>7, <1>8, <1>9, <1>10, <1>11
     DEF Next, Command

\* Every step keeps an on-demand service reachable.
LEMMA DemandNext == TypeOK /\ DemandInv /\ [Next]_vars => DemandInv'
<1> SUFFICES ASSUME TypeOK, DemandInv, [Next]_vars PROVE DemandInv'
  OBVIOUS
<1> USE InitServiceAssumption DEF TypeOK, DemandInv, OnDemandIsReachable, Is, Fails,
      vars, fixed, flags, shown, count, held, procs
<1>1. CASE CommandStart
  BY <1>1 DEF CommandStart, ServiceStart, Launch, Notify
<1>2. CASE CommandStop
  BY <1>2 DEF CommandStop, CloseServiceFds, ServiceStopTimer, Notify
<1>3. CASE CommandReset
  BY <1>3 DEF CommandReset, ServiceStart, Launch, Notify
<1>4. CASE CommandTimer
  BY <1>4 DEF CommandTimer, ServiceStartTimer
<1>5. CASE TimerFires
  BY <1>5 DEF TimerFires, ServiceStopTimer, ServiceStart, Launch, Notify
<1>6. CASE SocketEvent
  BY <1>6 DEF SocketEvent, ServiceStart, Launch, Notify
<1>7. CASE Tick
  BY <1>7 DEF Tick
<1>8. ASSUME NEW n \in FdCounts, HoldFds(n) PROVE DemandInv'
  BY <1>8 DEF HoldFds, UpdaterServiceFds
<1>9. ASSUME NEW p \in Pids, ProcessEnds(p) PROVE DemandInv'
  BY <1>9 DEF ProcessEnds
<1>10. ASSUME NEW p \in Pids, ReapChild(p) PROVE DemandInv'
  <2>1. CASE p # pid
    BY <1>10, <2>1 DEF ReapChild
  <2>2. CASE p = pid
    <3>1. ServiceReap /\ pid # None /\ UNCHANGED <<fixed, stopped>>
      BY <1>10, <2>2 DEF ReapChild
    <3>2. CASE Launch("stopped", pid)
      BY <3>1, <3>2 DEF Launch
    <3>3. CASE ~Launch("stopped", pid)
      <4>1. Retire /\ pid' = None
        BY <3>1, <3>3 DEF ServiceReap, RestartCrashed, Retire
      <4>2. SUFFICES ASSUME Is("ondemand"), ~Is("once"), ~invalid, ~broken', failing = {}
                     PROVE  timer' \/ sock' = "watched"
        <5>1. invalid => invalid'
          BY <3>1, <3>3 DEF ServiceReap, RestartCrashed
        <5>2. QED
          BY <3>1, <4>1, <5>1
      <4>3. ~needStop
        BY <3>1, <4>2
      <4>4. QED
        BY <3>1, <4>2, <4>3 DEF ServiceReap, CheckOndemandService, ServiceStartTimer
    <3>4. QED
      BY <3>2, <3>3
  <2>3. QED
    BY <2>1, <2>2
<1>11. CASE UNCHANGED vars
  BY <1>11
<1>12. QED
  BY <1>1, <1>2, <1>3, <1>4, <1>5, <1>6, <1>7, <1>8, <1>9, <1>10, <1>11
     DEF Next, Command

-----------------------------------------------------------------------------
(* The crash window *)

\* The record after a crash: the crash is its last entry, and at most the
\* oldest entry was dropped (k is 1 then).
Recorded(c, k) ==
  /\ c \in Seq(Nat) /\ Len(c) = Len(crashes) + 1 - k
  /\ Len(c) > 0 /\ Len(c) < 2 * CrashCount
  /\ k = 1 => Len(c) = 2 * CrashCount - 1
  /\ c[Len(c)] = now
  /\ \A i \in 1 .. (Len(c) - 1) : i + k \in 1 .. Len(crashes) /\ c[i] = crashes[i + k]

\* Recent keeps the record short.
LEMMA RecentKeeps ==
  ASSUME TypeOK, Len(crashes) < 2 * CrashCount
  PROVE  \E k \in {0, 1} : Recorded(Recent(Append(crashes, now)), k)
<1> DEFINE L == Len(crashes)
           a == Append(crashes, now)
<1>1. crashes \in Seq(Nat) /\ now \in Nat /\ L \in Nat /\ CrashCount \in Nat \ {0}
  BY InitServiceAssumption DEF TypeOK
<1>2. /\ a \in Seq(Nat) /\ Len(a) = L + 1 /\ a[L + 1] = now
      /\ \A i \in 1 .. L : a[i] = crashes[i]
  BY <1>1
<1>3. a # <<>>
  BY <1>1, <1>2
<1> HIDE DEF a
<1>4. /\ Tail(a) \in Seq(Nat) /\ Len(Tail(a)) = Len(a) - 1
      /\ \A i \in 1 .. (Len(a) - 1) : Tail(a)[i] = a[i + 1]
  BY <1>2, <1>3, HeadTailProperties
<1> HIDE DEF L
<1>5. CASE L + 1 < 2 * CrashCount
  <2>1. Recent(a) = a
    BY <1>2, <1>5 DEF Recent
  <2>2. Recorded(a, 0)
    BY <1>1, <1>2, <1>5 DEF Recorded, L
  <2>3. QED
    BY <2>1, <2>2 DEF a
<1>6. CASE ~ (L + 1 < 2 * CrashCount)
  <2>1. Recent(a) = Tail(a)
    BY <1>2, <1>6 DEF Recent
  <2>2. L + 1 = 2 * CrashCount
    BY <1>1, <1>6 DEF L
  <2>3. Len(Tail(a)) = L /\ L > 0 /\ L = 2 * CrashCount - 1
    BY <1>1, <1>2, <1>4, <2>2
  <2>4. Tail(a)[L] = now
    BY <1>1, <1>2, <1>4, <2>3
  <2>5. \A i \in 1 .. (L - 1) : i + 1 \in 1 .. L /\ Tail(a)[i] = crashes[i + 1]
    BY <1>1, <1>2, <1>4, <2>3
  <2>6. Recorded(Tail(a), 1)
    <3> DEFINE t == Tail(a)
    <3>1. /\ t \in Seq(Nat) /\ Len(t) = L /\ t[L] = now
          /\ \A i \in 1 .. (L - 1) : i + 1 \in 1 .. L /\ t[i] = crashes[i + 1]
      BY <1>4, <2>3, <2>4, <2>5
    <3> HIDE DEF t
    <3>2. Recorded(t, 1)
      BY <1>1, <2>3, <3>1 DEF Recorded, L
    <3>3. QED
      BY <3>2 DEF t
  <2>7. QED
    BY <2>1, <2>6 DEF a
<1>7. QED
  BY <1>5, <1>6

\* A crash that is counted keeps the window in order; one that reaches the
\* limit ends the system.
LEMMA CrashCounted ==
  ASSUME TypeOK, CrashInv, ~panicked, CalculateCrashTime, now' = now, kind' = kind,
         panicked' = LimitReached, LimitReached => Is("critical")
  PROVE  CrashInv'
<1> DEFINE L == Len(crashes)
           M == Len(crashes')
           N == CrashCount
<1>1. PICK k \in {0, 1} : Recorded(crashes', k)
  BY RecentKeeps DEF CrashInv, CalculateCrashTime
<1>2. /\ L \in Nat /\ M \in Nat /\ N \in Nat \ {0} /\ CrashTime \in Nat \ {0}
      /\ now \in Nat /\ crashCnt \in Nat /\ firstCrash \in Nat
      /\ \A i \in 1 .. L : crashes[i] \in Nat
  BY <1>1, InitServiceAssumption DEF TypeOK, Recorded
<1>3. /\ M = L + 1 - k /\ M > 0 /\ M < 2 * N /\ (k = 1 => M = 2 * N - 1)
      /\ crashes'[M] = now
      /\ \A i \in 1 .. (M - 1) : i + k \in 1 .. L /\ crashes'[i] = crashes[i + k]
  BY <1>1 DEF Recorded
<1>4. /\ crashCnt <= L /\ (crashCnt = 0 => L = 0) /\ crashCnt < N
      /\ \A i, j \in 1 .. L : i <= j => crashes[i] <= crashes[j]
      /\ \A i \in 1 .. L : crashes[i] <= now
      /\ crashCnt > 0 => crashes[L - crashCnt + 1] = firstCrash
      /\ crashCnt > 0 => \A i \in 1 .. (L - crashCnt + 2 - N) : firstCrash - crashes[i] > CrashTime
  BY DEF CrashInv
<1> HIDE DEF L, M, N
<1>5. /\ \A i \in 1 .. M : crashes'[i] <= now
      /\ \A i, j \in 1 .. M : i <= j => crashes'[i] <= crashes'[j]
  <2>1. ASSUME NEW i \in 1 .. M PROVE crashes'[i] <= now
    <3>1. i = M \/ i \in 1 .. (M - 1)
      BY <1>2
    <3>2. QED
      BY <1>2, <1>3, <1>4, <3>1
  <2>2. ASSUME NEW i \in 1 .. M, NEW j \in 1 .. M, i <= j PROVE crashes'[i] <= crashes'[j]
    <3>1. CASE j = M
      BY <1>3, <2>1, <3>1
    <3>2. CASE j # M
      <4>1. i \in 1 .. (M - 1) /\ j \in 1 .. (M - 1)
        BY <1>2, <2>2, <3>2
      <4>2. i + k \in 1 .. L /\ j + k \in 1 .. L /\ i + k <= j + k
        BY <1>2, <1>3, <2>2, <4>1
      <4>3. crashes'[i] = crashes[i + k] /\ crashes'[j] = crashes[j + k]
        BY <1>3, <4>1
      <4>4. QED
        BY <1>4, <4>2, <4>3
    <3>3. QED
      BY <3>1, <3>2
  <2>3. QED
    BY <2>1, <2>2
<1>6. CASE crashCnt = 0 \/ now - firstCrash > CrashTime
  <2>1. firstCrash' = now /\ crashCnt' = 1
    BY <1>2, <1>6 DEF CalculateCrashTime
  <2>2. panicked' <=> (crashCnt = 0 /\ N = 1)
    BY <1>2, <1>6 DEF LimitReached, N
  <2>3. N = 1 => crashCnt = 0
    BY <1>2, <1>4
  <2>4. ASSUME N # 1, NEW i \in 1 .. (M - 1 + 2 - N) PROVE now - crashes'[i] > CrashTime
    <3>1. i \in 1 .. (M - 1) /\ i + k \in 1 .. L /\ crashes'[i] = crashes[i + k]
      BY <1>2, <1>3, <2>4
    <3>2. crashCnt > 0 /\ now - firstCrash > CrashTime
      BY <1>2, <1>4, <1>6, <3>1
    <3>3. L - crashCnt + 1 \in 1 .. L /\ i + k <= L - crashCnt + 1
      BY <1>2, <1>3, <1>4, <2>4, <3>1, <3>2
    <3>4. crashes[i + k] <= firstCrash
      BY <1>4, <3>1, <3>2, <3>3
    <3>5. crashes[i + k] \in Nat
      BY <1>2, <3>1
    <3>6. QED
      BY <1>2, <3>1, <3>2, <3>4, <3>5
  <2>5. QED
    BY <1>2, <1>3, <1>5, <2>1, <2>2, <2>3, <2>4 DEF CrashInv, L, M, N, Is
<1>7. CASE ~ (crashCnt = 0 \/ now - firstCrash > CrashTime)
  <2>1. firstCrash' = firstCrash /\ crashCnt' = crashCnt + 1 /\ crashCnt > 0 /\ now - firstCrash <= CrashTime
    BY <1>2, <1>7 DEF CalculateCrashTime
  <2>2. panicked' <=> crashCnt + 1 >= N
    BY <1>2, <2>1 DEF LimitReached, N
  <2>3. crashCnt' <= M
    BY <1>2, <1>3, <1>4, <2>1
  <2>4. crashes'[M - crashCnt' + 1] = firstCrash
    <3>1. M - crashCnt' + 1 \in 1 .. (M - 1) /\ M - crashCnt' + 1 + k = L - crashCnt + 1
      BY <1>2, <1>3, <1>4, <2>1, <2>3
    <3>2. crashes'[M - crashCnt' + 1] = crashes[M - crashCnt' + 1 + k]
      BY <1>3, <3>1
    <3>3. QED
      BY <1>4, <2>1, <3>1, <3>2
  <2>5. ASSUME NEW i \in 1 .. (M - crashCnt' + 2 - N) PROVE firstCrash - crashes'[i] > CrashTime
    <3>1. i \in 1 .. (M - 1) /\ i + k \in 1 .. (L - crashCnt + 2 - N)
      BY <1>2, <1>3, <1>4, <2>1
    <3>2. QED
      BY <1>3, <1>4, <2>1, <3>1
  <2>6. QED
    BY <1>2, <1>3, <1>4, <1>5, <2>1, <2>2, <2>3, <2>4, <2>5 DEF CrashInv, L, M, N, Is
<1>8. QED
  BY <1>6, <1>7

\* Every step keeps the window in order.
LEMMA CrashNext == TypeOK /\ CrashInv /\ [Next]_vars => CrashInv'
<1> SUFFICES ASSUME TypeOK, CrashInv, [Next]_vars PROVE CrashInv'
  OBVIOUS
<1> USE DEF vars, fixed, flags, shown, count, held, procs
<1>1. ASSUME UNCHANGED <<kind, count>>, now' = now PROVE CrashInv'
  BY <1>1 DEF CrashInv, Is
<1>2. CASE Command \/ TimerFires \/ SocketEvent
  BY <1>1, <1>2 DEF Command, CommandStart, CommandStop, CommandReset, CommandTimer, TimerFires,
                    SocketEvent
<1>3. CASE Tick
  <2>1. now \in Nat /\ now' = now + 1 /\ UNCHANGED <<kind, count>>
    BY <1>3 DEF Tick, TypeOK
  <2>2. \A i \in 1 .. Len(crashes) : crashes[i] \in Nat
    BY DEF TypeOK
  <2>3. \A i \in 1 .. Len(crashes) : crashes[i] <= now'
    BY <2>1, <2>2 DEF CrashInv
  <2>4. QED
    BY <2>1, <2>3 DEF CrashInv, Is
<1>4. ASSUME NEW n \in FdCounts, HoldFds(n) PROVE CrashInv'
  BY <1>1, <1>4 DEF HoldFds
<1>5. ASSUME NEW p \in Pids, ProcessEnds(p) PROVE CrashInv'
  BY <1>1, <1>5 DEF ProcessEnds
<1>6. ASSUME NEW p \in Pids, ReapChild(p), ~Down PROVE CrashInv'
  <2>1. UNCHANGED <<kind, now>> /\ ~panicked
    BY <1>6 DEF ReapChild, Down
  <2>2. CASE crashCnt' = 0 /\ crashes' = <<>> /\ panicked' = panicked
    <3>1. Len(crashes') = 0
      BY <2>2
    <3>2. QED
      BY <2>1, <2>2, <3>1, InitServiceAssumption DEF CrashInv
  <2>3. CASE CalculateCrashTime /\ panicked' = (panicked \/ LimitReached) /\ Is("critical")
    <3>1. panicked' = LimitReached
      <4>1. LimitReached \in BOOLEAN
        BY Zenon DEF LimitReached
      <4>2. QED
        BY <2>1, <2>3, <4>1
    <3>2. QED
      BY <2>1, <2>3, <3>1, CrashCounted
  <2>4. CASE CalculateCrashTime /\ panicked' = panicked /\ ~LimitReached
    <3>1. panicked' = LimitReached
      <4>1. LimitReached \in BOOLEAN /\ panicked \in BOOLEAN
        BY Zenon DEF LimitReached, TypeOK
      <4>2. QED
        BY <2>1, <2>4, <4>1
    <3>2. QED
      BY <2>1, <2>4, <3>1, CrashCounted
  <2>5. \/ UNCHANGED count
        \/ crashCnt' = 0 /\ crashes' = <<>> /\ panicked' = panicked
        \/ CalculateCrashTime /\ panicked' = (panicked \/ LimitReached) /\ Is("critical")
        \/ CalculateCrashTime /\ panicked' = panicked /\ ~LimitReached
    BY <1>6 DEF ReapChild, ServiceReap, RestartCrashed, ForgetCrashes
  <2>6. QED
    BY <1>1, <2>1, <2>2, <2>3, <2>4, <2>5
<1>7. CASE UNCHANGED vars
  BY <1>1, <1>7
<1>8. QED
  BY <1>2, <1>3, <1>4, <1>5, <1>6, <1>7 DEF Next

-----------------------------------------------------------------------------
\* The invariant holds in every reachable state.
THEOREM Safety == Spec => []SafeInv
<1>1. Init => SafeInv
  <2> USE InitServiceAssumption DEF Init
  <2>1. Init => NameTypes
    BY DEF NameTypes, Is
  <2>2. Init => FlagTypes
    <3>1. <<>> \in Seq(Nat)
      OBVIOUS
    <3>2. 0 \in 0 .. MaxHoldFds
      OBVIOUS
    <3>3. Init => crashes \in Seq(Nat)
      BY <3>1, Zenon
    <3>4. Init => crashCnt \in Nat /\ firstCrash \in Nat /\ now \in Nat
      OBVIOUS
    <3>5. Init => fdCount \in 0 .. MaxHoldFds
      BY <3>2, Zenon
    <3>6. QED
      BY <3>3, <3>4, <3>5, Zenon DEF FlagTypes
  <2>3. Init => ProcInv /\ StopInv
    BY DEF ProcInv, StrayIsKilled, PidIsOwnChild, StopInv, HeldFdsExist
  <2>4. QED
    BY <2>1, <2>2, <2>3 DEF SafeInv, TypeOK, NameTypes, FlagTypes
<1>2. SafeInv /\ [Next]_vars => SafeInv'
  BY NameNext, FlagNext, ProcNext, StopNext
     DEF SafeInv, TypeOK, NameTypes, FlagTypes
<1>3. QED
  BY <1>1, <1>2, PTL DEF Spec

\* Every variable keeps its type (TypeOK).
THEOREM TypeCorrect == Spec => []TypeOK
<1>1. SafeInv => TypeOK
  BY DEF SafeInv
<1>2. QED
  BY <1>1, Safety, PTL

\* init forgets no process: one that runs and is not the service's has been
\* sent a signal (ServiceStart, ServiceStop, ServiceReap).
THEOREM NoStray == Spec => []StrayIsKilled
<1>1. SafeInv => StrayIsKilled
  BY DEF SafeInv, ProcInv
<1>2. QED
  BY <1>1, Safety, PTL

\* service->pid always names a child that init has not waited for, so that a
\* signal sent to it cannot reach a stranger.
THEOREM PidIsSound == Spec => []PidIsOwnChild
<1>1. SafeInv => PidIsOwnChild
  BY DEF SafeInv, ProcInv
<1>2. QED
  BY <1>1, Safety, PTL

\* A stop that finds the service running lasts until the next command: the
\* step that could break it is a start from a timer, a socket or a death.
THEOREM StopLasts == Spec => StopOfRunningIsFinal
<1> DEFINE Final ==
      stopped = "running" /\ stopped' = "running" /\ pid' # pid => pid' = None
<1>1. SafeInv /\ [Next]_vars => [Final]_vars
  <2> SUFFICES ASSUME SafeInv, [Next]_vars, stopped = "running",
                      stopped' = "running", pid' # pid
               PROVE  pid' = None
    OBVIOUS
  <2> USE InitServiceAssumption DEF SafeInv, StopInv
  <2>1. CASE CommandStop
    BY <2>1 DEF CommandStop
  <2>2. ASSUME NEW p \in Pids, ReapChild(p) PROVE pid' = None
    BY <2>2 DEF ReapChild, ServiceReap, Retire, shown
  <2>3. CASE CommandStart \/ CommandReset \/ CommandTimer
    BY <2>3 DEF CommandStart, CommandReset, CommandTimer
  <2>4. CASE TimerFires \/ SocketEvent
    BY <2>4 DEF TimerFires, SocketEvent
  <2>5. CASE Tick \/ UNCHANGED vars
    BY <2>5 DEF Tick, vars, shown
  <2>6. ASSUME NEW n \in FdCounts, HoldFds(n) PROVE pid' = None
    BY <2>6 DEF HoldFds, shown
  <2>7. ASSUME NEW p \in Pids, ProcessEnds(p) PROVE pid' = None
    BY <2>7 DEF ProcessEnds, shown
  <2>8. QED
    BY <2>1, <2>2, <2>3, <2>4, <2>5, <2>6, <2>7 DEF Next, Command
<1>2. QED
  BY <1>1, Safety, PTL DEF Spec, StopOfRunningIsFinal

\* When no call fails, an on-demand service that went down by itself can be
\* woken: ServiceReap watches its socket again, or a timer will start it.
THEOREM OnDemandStaysReachable == Spec => []OnDemandIsReachable
<1>1. Init => DemandInv
  BY DEF Init, DemandInv, OnDemandIsReachable
<1>2. SafeInv /\ DemandInv /\ [Next]_vars => DemandInv'
  BY DemandNext DEF SafeInv
<1>3. DemandInv => OnDemandIsReachable
  BY DEF DemandInv
<1>4. QED
  BY <1>1, <1>2, <1>3, Safety, PTL DEF Spec

\* The fixed windows of CalculateCrashTime catch every crash loop, and only a
\* crash loop of a critical service reboots the system.
THEOREM CrashLoopsAreNoticed == Spec => []CrashLoopIsNoticed
<1>1. Init => CrashInv
  <2>1. Init => Len(crashes) = 0
    BY DEF Init
  <2>2. QED
    BY <2>1, InitServiceAssumption DEF Init, CrashInv
<1>2. SafeInv /\ CrashInv /\ [Next]_vars => CrashInv'
  BY CrashNext DEF SafeInv
<1>3. ASSUME TypeOK, CrashInv PROVE CrashLoopIsNoticed
  <2> DEFINE L == Len(crashes)
  <2>1. /\ L \in Nat /\ CrashCount \in Nat \ {0} /\ crashCnt \in Nat /\ firstCrash \in Nat
        /\ CrashTime \in Nat
        /\ \A i \in 1 .. L : crashes[i] \in Nat
    BY <1>3, InitServiceAssumption DEF TypeOK
  <2>2. CASE panicked
    BY <1>3, <2>1, <2>2 DEF CrashInv, CrashLoopIsNoticed
  <2>3. CASE ~panicked
    <3>1. ASSUME NEW i \in 1 .. (L - (2 * CrashCount - 2))
          PROVE  crashes[i + 2 * CrashCount - 2] - crashes[i] > CrashTime
      <4>1. i = 1 /\ L = 2 * CrashCount - 1 /\ i + 2 * CrashCount - 2 = L
        BY <1>3, <2>1 DEF CrashInv
      <4>2. crashCnt > 0 /\ crashCnt < CrashCount /\ L - crashCnt + 1 \in 1 .. L
        BY <1>3, <2>1, <2>3, <4>1 DEF CrashInv
      <4>3. crashes[L - crashCnt + 1] = firstCrash /\ firstCrash <= crashes[L]
        BY <1>3, <2>1, <4>1, <4>2 DEF CrashInv
      <4>4. i \in 1 .. (L - crashCnt + 2 - CrashCount)
        BY <2>1, <4>1, <4>2
      <4>5. firstCrash - crashes[i] > CrashTime
        BY <1>3, <2>3, <4>2, <4>4 DEF CrashInv
      <4>6. crashes[i] \in Nat /\ crashes[L] \in Nat
        BY <2>1, <4>1
      <4>7. QED
        BY <2>1, <4>1, <4>3, <4>5, <4>6
    <3>2. QED
      BY <2>3, <3>1 DEF CrashLoopIsNoticed
  <2>4. QED
    BY <2>2, <2>3
<1>4. QED
  BY <1>1, <1>2, <1>3, Safety, PTL DEF Spec, SafeInv
==============================================================================
