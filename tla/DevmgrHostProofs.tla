-------------------------- MODULE DevmgrHostProofs --------------------------
(***************************************************************************)
(* Proofs about DevmgrHost, for every set of callers, devices and          *)
(* processes, every number of calls and of faults.                         *)
(*                                                                         *)
(* HostInv holds whatever fails.  While nothing failed: CleanInv says that *)
(* all of the manager's knowledge is about the one process that runs, and  *)
(* that a stop still to come is of a process without devices, TokenInv     *)
(* that the tokens are those of the loaded devices, and StatusInv that a   *)
(* status is right or about to be written.  The status is written after    *)
(* the unlock: RaceInv says that a device two calls were never about at    *)
(* once has one writer at most.                                            *)
(*                                                                         *)
(* The last part is about the order of power-state changes.  FlattenSeq    *)
(* is a recursive function; Induction is the principle for the sets of     *)
(* numbers these lemmas define.                                            *)
(***************************************************************************)
EXTENDS DevmgrHost, WellFoundedInduction, SequenceTheorems, TLAPS

PCs == {"idle", "loaded", "load", "start", "nostart", "started", "wait", "timeout", "lockadd",
        "add", "added", "notadded", "usable", "unload", "del", "deleted", "stop", "stopped"}

\* Where the callers are; the manager's record; the processes.
CallType ==
  /\ lock \in Callers \cup {None} /\ calls \in Nat
  /\ pc \in [Callers -> PCs] /\ dev \in [Callers -> Devs] /\ raced \subseteq Devs

RecordType ==
  /\ auto \in BOOLEAN /\ hostPid \in BOOLEAN /\ stopFlag \in BOOLEAN
  /\ hostService \in Insts \cup {None}
  /\ tokens \in [Devs -> Nat] /\ status \in [Devs -> {"usable", "unusable"}]

ProcType ==
  /\ proc \in Insts \cup {None} /\ faults \in Nat /\ clean \in BOOLEAN
  /\ inst \in [Insts -> {"free", "starting", "attaching", "up"}]
  /\ devices \in [Insts -> Seq(Devs)]

TypeInv == CallType /\ RecordType /\ ProcType

\* The device list of a process has no repetitions.
Distinct(s) == \A j, k \in 1 .. Len(s) : s[j] = s[k] => j = k

\* Appending a device that is not in the list adds it, and no repetition.
LEMMA AppendFacts ==
  ASSUME NEW s \in Seq(Devs), Distinct(s), NEW d \in Devs, d \notin Range(s)
  PROVE  /\ Append(s, d) \in Seq(Devs) /\ Distinct(Append(s, d))
         /\ Range(Append(s, d)) = Range(s) \cup {d}
<1>1. /\ Append(s, d) \in Seq(Devs) /\ Len(Append(s, d)) = Len(s) + 1
      /\ \A i \in 1 .. Len(s) : Append(s, d)[i] = s[i]
      /\ Append(s, d)[Len(s) + 1] = d
  BY AppendProperties
<1>2. Range(s) = {s[i] : i \in 1 .. Len(s)}
  BY RangeEquality
<1>3. Range(Append(s, d)) = {Append(s, d)[i] : i \in 1 .. Len(s) + 1}
  BY <1>1, RangeEquality
<1>4. Len(s) \in Nat
  BY LenProperties
<1>5. Distinct(Append(s, d))
  BY <1>1, <1>2, <1>4 DEF Distinct
<1>6. Range(Append(s, d)) = Range(s) \cup {d}
  BY <1>1, <1>2, <1>3, <1>4
<1>7. QED
  BY <1>1, <1>5, <1>6

\* Removing a device of such a list removes it entirely.
LEMMA RemoveFacts ==
  ASSUME NEW s \in Seq(Devs), Distinct(s), NEW d \in Range(s)
  PROVE  /\ RemoveFirst(s, d) \in Seq(Devs) /\ Distinct(RemoveFirst(s, d))
         /\ Range(RemoveFirst(s, d)) = Range(s) \ {d}
<1>1. Len(s) \in Nat /\ \A i \in 1 .. Len(s) : s[i] \in Devs
  BY LenProperties
<1>2. Range(s) = {s[i] : i \in 1 .. Len(s)}
  BY RangeEquality
<1>3. PICK n \in 1 .. Len(s) : s[n] = d
  BY <1>2
<1>4. {i \in 1 .. Len(s) : s[i] = d} = {n}
  BY <1>3 DEF Distinct
<1>5. Min({n}) = n
  BY <1>1, <1>3 DEF Min
<1>6. RemoveFirst(s, d) = RemoveAt(s, n)
  BY <1>3, <1>4, <1>5 DEF RemoveFirst, SelectInSeq
<1> DEFINE a == SubSeq(s, 1, n - 1)
           b == SubSeq(s, n + 1, Len(s))
<1>7. /\ a \in Seq(Devs) /\ Len(a) = n - 1
      /\ \A i \in 1 .. n - 1 : a[i] = s[i]
  BY <1>1, <1>3, SubSeqProperties
<1>8. /\ b \in Seq(Devs) /\ Len(b) = Len(s) - n
      /\ \A i \in 1 .. Len(s) - n : b[i] = s[n + i]
  BY <1>1, <1>3, SubSeqProperties
<1> HIDE DEF a, b
<1> DEFINE r == a \o b
<1>9. /\ r \in Seq(Devs) /\ Len(r) = Len(a) + Len(b)
      /\ \A i \in 1 .. Len(a) + Len(b) : r[i] = IF i <= Len(a) THEN a[i] ELSE b[i - Len(a)]
  BY <1>7, <1>8, ConcatProperties
<1>10. RemoveFirst(s, d) = r
  BY <1>6 DEF RemoveAt, a, b
<1> HIDE DEF r
<1>11. Len(r) = Len(s) - 1 /\ \A i \in 1 .. Len(s) - 1 : r[i] = IF i < n THEN s[i] ELSE s[i + 1]
  <2>1. Len(r) = Len(s) - 1
    BY <1>1, <1>3, <1>7, <1>8, <1>9
  <2>2. ASSUME NEW i \in 1 .. Len(s) - 1 PROVE r[i] = IF i < n THEN s[i] ELSE s[i + 1]
    <3> DEFINE m == Len(a)
    <3>1. m = n - 1 /\ i \in 1 .. m + Len(b)
      BY <1>1, <1>3, <1>7, <1>8
    <3> HIDE DEF m
    <3>2. r[i] = IF i <= m THEN a[i] ELSE b[i - m]
      BY <1>9, <3>1 DEF m
    <3>3. CASE i < n
      <4>1. i \in 1 .. n - 1 /\ i <= m
        BY <1>1, <1>3, <3>1, <3>3
      <4>2. QED
        BY <1>7, <3>2, <3>3, <4>1
    <3>4. CASE i >= n
      <4>1. i - m \in 1 .. Len(s) - n /\ n + (i - m) = i + 1 /\ ~(i <= m) /\ ~(i < n)
        BY <1>1, <1>3, <3>1, <3>4
      <4>2. QED
        BY <1>8, <3>2, <4>1
    <3>5. QED
      BY <1>1, <1>3, <3>3, <3>4
  <2>3. QED
    BY <2>1, <2>2
<1>12. Distinct(r)
  <2> SUFFICES ASSUME NEW j \in 1 .. Len(r), NEW k \in 1 .. Len(r), r[j] = r[k] PROVE j = k
    BY DEF Distinct
  <2> DEFINE at(i) == IF i < n THEN i ELSE i + 1
  <2>1. /\ at(j) \in 1 .. Len(s) /\ r[j] = s[at(j)]
        /\ at(k) \in 1 .. Len(s) /\ r[k] = s[at(k)]
    BY <1>1, <1>3, <1>11
  <2>2. at(j) = at(k)
    BY <2>1 DEF Distinct
  <2>3. QED
    BY <1>1, <1>3, <1>11, <2>2
<1>13. Range(r) = {r[i] : i \in 1 .. Len(s) - 1}
  BY <1>9, <1>11, RangeEquality
<1>14. ASSUME NEW x \in Range(r) PROVE x \in Range(s) /\ x # d
  <2>1. PICK i \in 1 .. Len(s) - 1 : r[i] = x
    BY <1>13
  <2>2. PICK j \in 1 .. Len(s) : j # n /\ s[j] = x
    BY <1>1, <1>3, <1>11, <2>1
  <2>3. QED
    BY <1>2, <1>3, <2>2 DEF Distinct
<1>15. ASSUME NEW x \in Range(s), x # d PROVE x \in Range(r)
  <2>1. PICK j \in 1 .. Len(s) : s[j] = x
    BY <1>2
  <2>2. CASE j < n
    <3>1. j \in 1 .. Len(s) - 1 /\ r[j] = x
      BY <1>1, <1>3, <1>11, <2>1, <2>2
    <3>2. QED
      BY <3>1, <1>13
  <2>3. CASE j > n
    <3>1. j - 1 \in 1 .. Len(s) - 1 /\ j - 1 >= n /\ (j - 1) + 1 = j
      BY <1>1, <1>3, <2>1, <2>3
    <3>2. r[j - 1] = x
      BY <1>11, <2>1, <3>1
    <3>3. QED
      BY <3>1, <3>2, <1>13
  <2>4. QED
    BY <1>1, <1>3, <1>15, <2>1, <2>2, <2>3
<1>16. QED
  BY <1>9, <1>10, <1>12, <1>14, <1>15

-----------------------------------------------------------------------------
\* Whatever fails: only an attached process has devices, none of them twice, and
\* who works under hostLock holds it and has a host service.
HostInv ==
  /\ \A i \in Insts : Distinct(devices[i]) /\ (inst[i] # "up" => devices[i] = <<>>)
  /\ hostService # None => inst[hostService] = "up"
  /\ \A t \in Callers :
       pc[t] \in {"add", "added", "notadded", "del", "deleted"} => lock = t /\ hostService # None

\* While nothing failed: the process that starts or attaches, and the one with
\* a proxy, is the one that runs; a stop that is still to come is the only one,
\* and of an attached process without devices.
OneProcess == \A i \in Insts : inst[i] \in {"starting", "attaching"} => i = proc
OwnProxy == hostService \in {None, proc}
OneStop ==
  \A t \in Callers : pc[t] = "stop" =>
    /\ hostService = None /\ proc # None /\ inst[proc] = "up" /\ devices[proc] = <<>>
    /\ \A u \in Callers : pc[u] = "stop" => u = t
CleanInv == clean => OneProcess /\ OwnProxy /\ OneStop

\* ... the tokens are those of the devices that are loaded.
TokenInv ==
  clean => \A d \in Devs : tokens[d] = IF d \in Loaded(hostService) THEN 1 ELSE 0

\* Two calls about a device at once are known as such.
RaceInv ==
  \A d \in Devs \ raced : \A t, u \in Callers :
    Busy(t) /\ Busy(u) /\ dev[t] = d /\ dev[u] = d => t = u

\* While nothing failed, the status of a device two calls were never about at
\* once is right but for a call that has yet to write it.
Pending(d, l) == \E t \in Callers : dev[t] = d /\ pc[t] \in l
StatusInv ==
  clean =>
    \A d \in Devs \ raced :
      /\ Pending(d, {"added", "usable"}) => d \in Loaded(hostService)
      /\ Pending(d, {"deleted"}) => d \notin Loaded(hostService)
      /\ \/ Pending(d, {"added", "usable", "deleted"})
         \/ status[d] = "usable" <=> d \in Loaded(hostService)

-----------------------------------------------------------------------------
\* Every step keeps the types: the callers,
LEMMA CallTypeNext ==
  CallType /\ [Next]_vars => CallType'
<1> SUFFICES ASSUME CallType, [Next]_vars PROVE CallType'
  OBVIOUS
<1> USE DevmgrAssumption DEF Goto, hostVars, procVars, callVars, CallType, PCs
<1>1. CASE RetrierCalls
  BY <1>1 DEF RetrierCalls, Call
<1>2. ASSUME NEW t \in Callers, OthersCall(t) PROVE CallType'
  <2>1. PICK d \in Devs : Call(t, d, "load") \/ Call(t, d, "unload")
    BY <1>2 DEF OthersCall
  <2>2. QED
    BY <1>2, <2>1 DEF OthersCall, Call
<1>3. ASSUME NEW t \in Callers, CallerStep(t) PROVE CallType'
  <2>1. CASE LoadDevice(t)
    BY <2>1 DEF LoadDevice
  <2>2. CASE StartDeviceHost(t)
    BY <2>2 DEF StartDeviceHost, Fault
  <2>3. CASE StartFailed(t)
    BY <2>3 DEF StartFailed, Return
  <2>4. CASE Started(t)
    BY <2>4 DEF Started
  <2>5. CASE HostAttached(t)
    BY <2>5 DEF HostAttached
  <2>6. CASE HostTimeout(t)
    BY <2>6 DEF HostTimeout, Fault, Kill
  <2>7. CASE TimedOut(t)
    BY <2>7 DEF TimedOut, Return
  <2>8. CASE LockAdd(t)
    BY <2>8 DEF LockAdd, Return
  <2>9. CASE AddDevice(t)
    BY <2>9 DEF AddDevice, Fault, AttachDevice
  <2>10. CASE AddDone(t)
    BY <2>10 DEF AddDone, Return
  <2>11. CASE MarkUsable(t)
    BY <2>11 DEF MarkUsable, Return
  <2>12. CASE LockDel(t)
    BY <2>12 DEF LockDel, Return
  <2>13. CASE DelDevice(t)
    BY <2>13 DEF DelDevice, DetachDevice, Return
  <2>14. CASE Unloaded(t)
    BY <2>14 DEF Unloaded, Return
  <2>15. CASE StopHost(t)
    BY <2>15 DEF StopHost, Kill
  <2>16. CASE StopFlag(t)
    BY <2>16 DEF StopFlag, Return
  <2>17. QED
    BY <1>3, <2>1, <2>2, <2>3, <2>4, <2>5, <2>6, <2>7, <2>8, <2>9, <2>10, <2>11, <2>12, <2>13, <2>14, <2>15, <2>16 DEF CallerStep
<1>4. ASSUME NEW i \in Insts, HostStep(i) \/ AttachLost(i) \/ HostDied(i) PROVE CallType'
  <2>1. CASE HostMain(i)
    BY <2>1 DEF HostMain, StartService
  <2>2. CASE AttachDeviceHost(i)
    BY <2>2 DEF AttachDeviceHost
  <2>3. CASE AttachLost(i)
    BY <2>3 DEF AttachLost
  <2>4. CASE HostDied(i)
    BY <2>4 DEF HostDied
  <2>5. QED
    BY <1>4, <2>1, <2>2, <2>3, <2>4 DEF HostStep
<1>5. CASE HostExits
  BY <1>5 DEF HostExits, Fault, Kill
<1>6. CASE UNCHANGED vars
  BY <1>6 DEF vars
<1>7. QED
  BY <1>1, <1>2, <1>3, <1>4, <1>5, <1>6 DEF Next

\* ... the record,
LEMMA RecordTypeNext ==
  CallType /\ RecordType /\ [Next]_vars => RecordType'
<1> SUFFICES ASSUME CallType, RecordType, [Next]_vars PROVE RecordType'
  OBVIOUS
<1> USE DevmgrAssumption DEF hostVars, RecordType
<1>1. CASE RetrierCalls
  BY <1>1 DEF RetrierCalls, Call
<1>2. ASSUME NEW t \in Callers, OthersCall(t) PROVE RecordType'
  <2>1. PICK d \in Devs : Call(t, d, "load") \/ Call(t, d, "unload")
    BY <1>2 DEF OthersCall
  <2>2. QED
    BY <1>2, <2>1 DEF OthersCall, Call
<1>3. ASSUME NEW t \in Callers, CallerStep(t) PROVE RecordType'
  <2>1. CASE LoadDevice(t)
    BY <2>1 DEF LoadDevice
  <2>2. CASE StartDeviceHost(t)
    BY <2>2 DEF StartDeviceHost, Fault
  <2>3. CASE StartFailed(t)
    BY <2>3 DEF StartFailed, Return
  <2>4. CASE Started(t)
    BY <2>4 DEF Started
  <2>5. CASE HostAttached(t)
    BY <2>5 DEF HostAttached
  <2>6. CASE HostTimeout(t)
    BY <2>6 DEF HostTimeout, Fault, Kill
  <2>7. CASE TimedOut(t)
    BY <2>7 DEF TimedOut, Return
  <2>8. CASE LockAdd(t)
    BY <2>8 DEF LockAdd, Return
  <2>9. CASE AddDevice(t)
    <3>1. dev[t] \in Devs
      BY DEF CallType
    <3>2. QED
      BY <2>9, <3>1 DEF AddDevice, AttachDevice
  <2>10. CASE AddDone(t)
    BY <2>10 DEF AddDone, Return
  <2>11. CASE MarkUsable(t)
    BY <2>11 DEF MarkUsable, Return
  <2>12. CASE LockDel(t)
    BY <2>12 DEF LockDel, Return
  <2>13. CASE DelDevice(t)
    <3>1. dev[t] \in Devs
      BY DEF CallType
    <3>2. \/ tokens' = tokens
          \/ tokens' = [tokens EXCEPT ![dev[t]] = IF tokens[dev[t]] > 0 THEN tokens[dev[t]] - 1 ELSE 0]
      BY <2>13 DEF DelDevice, DetachDevice
    <3>3. (IF tokens[dev[t]] > 0 THEN tokens[dev[t]] - 1 ELSE 0) \in Nat
      BY <3>1
    <3>4. tokens' \in [Devs -> Nat]
      BY <3>1, <3>2, <3>3
    <3>5. QED
      BY <2>13, <3>4 DEF DelDevice
  <2>14. CASE Unloaded(t)
    <3>1. hostPid' \in BOOLEAN /\ hostService' \in Insts \cup {None} /\ stopFlag' = stopFlag
      BY <2>14 DEF Unloaded
    <3>2. tokens' \in [Devs -> Nat]
      <4>1. tokens' = tokens \/ tokens' = [d \in Devs |-> 0]
        BY <2>14 DEF Unloaded
      <4>2. QED
        BY <4>1
    <3>3. status' \in [Devs -> {"usable", "unusable"}] /\ auto' = auto
      BY <2>14 DEF Unloaded
    <3>4. QED
      BY <3>1, <3>2, <3>3
  <2>15. CASE StopHost(t)
    BY <2>15 DEF StopHost, Kill
  <2>16. CASE StopFlag(t)
    BY <2>16 DEF StopFlag, Return
  <2>17. QED
    BY <1>3, <2>1, <2>2, <2>3, <2>4, <2>5, <2>6, <2>7, <2>8, <2>9, <2>10, <2>11, <2>12, <2>13, <2>14, <2>15, <2>16 DEF CallerStep
<1>4. ASSUME NEW i \in Insts, HostStep(i) \/ AttachLost(i) \/ HostDied(i) PROVE RecordType'
  <2>1. CASE HostMain(i)
    BY <2>1 DEF HostMain, StartService
  <2>2. CASE AttachDeviceHost(i)
    BY <2>2 DEF AttachDeviceHost
  <2>3. CASE AttachLost(i)
    BY <2>3 DEF AttachLost
  <2>4. CASE HostDied(i)
    <3>1. tokens' \in [Devs -> Nat]
      BY <2>4 DEF HostDied
    <3>2. hostPid' \in BOOLEAN /\ hostService' \in Insts \cup {None}
      BY <2>4 DEF HostDied
    <3>3. QED
      BY <2>4, <3>1, <3>2 DEF HostDied
  <2>5. QED
    BY <1>4, <2>1, <2>2, <2>3, <2>4 DEF HostStep
<1>5. CASE HostExits
  BY <1>5 DEF HostExits, Fault, Kill
<1>6. CASE UNCHANGED vars
  BY <1>6 DEF vars
<1>7. QED
  BY <1>1, <1>2, <1>3, <1>4, <1>5, <1>6 DEF Next

\* ... and the processes.
LEMMA ProcTypeNext ==
  CallType /\ RecordType /\ ProcType /\ HostInv /\ [Next]_vars => ProcType'
<1> SUFFICES ASSUME CallType, RecordType, ProcType, HostInv, [Next]_vars PROVE ProcType'
  OBVIOUS
<1> USE DevmgrAssumption DEF procVars, ProcType
<1>1. CASE RetrierCalls
  BY <1>1 DEF RetrierCalls, Call
<1>2. ASSUME NEW t \in Callers, OthersCall(t) PROVE ProcType'
  <2>1. PICK d \in Devs : Call(t, d, "load") \/ Call(t, d, "unload")
    BY <1>2 DEF OthersCall
  <2>2. QED
    BY <1>2, <2>1 DEF OthersCall, Call
<1>3. ASSUME NEW t \in Callers, CallerStep(t) PROVE ProcType'
  <2>1. CASE LoadDevice(t)
    BY <2>1 DEF LoadDevice
  <2>2. CASE StartDeviceHost(t)
    <3>1. faults' \in Nat /\ clean' \in BOOLEAN /\ devices' = devices
      <4>1. faults' \in Nat
        BY <2>2 DEF StartDeviceHost, Fault
      <4>2. clean' \in BOOLEAN /\ devices' = devices
        BY <2>2 DEF StartDeviceHost, Fault
      <4>3. QED
        BY <4>1, <4>2
    <3>2. proc' \in Insts \cup {None}
      BY <2>2 DEF StartDeviceHost
    <3>3. inst' \in [Insts -> {"free", "starting", "attaching", "up"}]
      BY <2>2, <3>2 DEF StartDeviceHost
    <3>4. QED
      BY <3>1, <3>2, <3>3
  <2>3. CASE StartFailed(t)
    BY <2>3 DEF StartFailed, Return
  <2>4. CASE Started(t)
    BY <2>4 DEF Started
  <2>5. CASE HostAttached(t)
    BY <2>5 DEF HostAttached
  <2>6. CASE HostTimeout(t)
    <3>1. faults' \in Nat /\ clean' \in BOOLEAN
      <4>1. faults' \in Nat
        BY <2>6 DEF HostTimeout, Fault
      <4>2. clean' \in BOOLEAN
        BY <2>6 DEF HostTimeout, Fault
      <4>3. QED
        BY <4>1, <4>2
    <3>2. proc' = None /\ inst' \in [Insts -> {"free", "starting", "attaching", "up"}] /\ devices' = devices
      BY <2>6 DEF HostTimeout, Kill
    <3>3. QED
      BY <3>1, <3>2
  <2>7. CASE TimedOut(t)
    BY <2>7 DEF TimedOut, Return
  <2>8. CASE LockAdd(t)
    BY <2>8 DEF LockAdd, Return
  <2>9. CASE AddDevice(t)
    <3>1. pc[t] = "add" /\ hostService \in Insts
      BY <2>9 DEF AddDevice, HostInv, RecordType
    <3>2. dev[t] \in Devs /\ devices[hostService] \in Seq(Devs) /\ Distinct(devices[hostService])
      BY <3>1 DEF HostInv, CallType
    <3>3. Append(devices[hostService], dev[t]) \in Seq(Devs)
      BY <3>2, AppendProperties
    <3>4. devices' \in [Insts -> Seq(Devs)]
      BY <2>9, <3>1, <3>3 DEF AddDevice
    <3>5. faults' \in Nat /\ clean' \in BOOLEAN
      <4>1. faults' \in Nat
        BY <2>9 DEF AddDevice, Fault
      <4>2. clean' \in BOOLEAN
        BY <2>9 DEF AddDevice, Fault
      <4>3. QED
        BY <4>1, <4>2
    <3>6. QED
      BY <2>9, <3>4, <3>5 DEF AddDevice
  <2>10. CASE AddDone(t)
    BY <2>10 DEF AddDone, Return
  <2>11. CASE MarkUsable(t)
    BY <2>11 DEF MarkUsable, Return
  <2>12. CASE LockDel(t)
    BY <2>12 DEF LockDel, Return
  <2>13. CASE DelDevice(t)
    <3>1. pc[t] = "del" /\ hostService \in Insts
      BY <2>13 DEF DelDevice, HostInv, RecordType
    <3>2. dev[t] \in Devs /\ devices[hostService] \in Seq(Devs) /\ Distinct(devices[hostService])
      BY <3>1 DEF HostInv, CallType
    <3>3. dev[t] \in Loaded(hostService) => RemoveFirst(devices[hostService], dev[t]) \in Seq(Devs)
      BY <3>1, <3>2, RemoveFacts DEF Loaded
    <3>4. QED
      BY <2>13, <3>1, <3>3 DEF DelDevice
  <2>14. CASE Unloaded(t)
    BY <2>14 DEF Unloaded, Return
  <2>15. CASE StopHost(t)
    BY <2>15 DEF StopHost, Kill
  <2>16. CASE StopFlag(t)
    BY <2>16 DEF StopFlag, Return
  <2>17. QED
    BY <1>3, <2>1, <2>2, <2>3, <2>4, <2>5, <2>6, <2>7, <2>8, <2>9, <2>10, <2>11, <2>12, <2>13, <2>14, <2>15, <2>16 DEF CallerStep
<1>4. ASSUME NEW i \in Insts, HostStep(i) \/ AttachLost(i) \/ HostDied(i) PROVE ProcType'
  <2>1. CASE HostMain(i)
    BY <2>1 DEF HostMain, StartService
  <2>2. CASE AttachDeviceHost(i)
    BY <2>2 DEF AttachDeviceHost
  <2>3. CASE AttachLost(i)
    BY <2>3 DEF AttachLost
  <2>4. CASE HostDied(i)
    <3>1. <<>> \in Seq(Devs)
      BY EmptySeq
    <3>2. QED
      BY <2>4, <3>1 DEF HostDied
  <2>5. QED
    BY <1>4, <2>1, <2>2, <2>3, <2>4 DEF HostStep
<1>5. CASE HostExits
  <2>1. faults' \in Nat /\ clean' \in BOOLEAN
    <3>1. faults' \in Nat
      BY <1>5 DEF HostExits, Fault
    <3>2. clean' \in BOOLEAN
      BY <1>5 DEF HostExits, Fault
    <3>3. QED
      BY <3>1, <3>2
  <2>2. proc' = None /\ inst' \in [Insts -> {"free", "starting", "attaching", "up"}] /\ devices' = devices
    BY <1>5 DEF HostExits, Kill
  <2>3. QED
    BY <2>1, <2>2
<1>6. CASE UNCHANGED vars
  BY <1>6 DEF vars
<1>7. QED
  BY <1>1, <1>2, <1>3, <1>4, <1>5, <1>6 DEF Next

\* Every step keeps devices with attached processes and work under the lock.
LEMMA HostNext ==
  TypeInv /\ HostInv /\ [Next]_vars => HostInv'
<1> SUFFICES ASSUME TypeInv, HostInv, [Next]_vars PROVE HostInv'
  OBVIOUS
<1> USE DevmgrAssumption DEF Goto, hostVars, procVars, callVars, TypeInv, CallType, RecordType, ProcType, PCs, HostInv
<1>1. CASE RetrierCalls
  BY <1>1 DEF RetrierCalls, Call
<1>2. ASSUME NEW t \in Callers, OthersCall(t) PROVE HostInv'
  <2>1. PICK d \in Devs : Call(t, d, "load") \/ Call(t, d, "unload")
    BY <1>2 DEF OthersCall
  <2>2. QED
    BY <1>2, <2>1 DEF OthersCall, Call
<1>3. ASSUME NEW t \in Callers, CallerStep(t) PROVE HostInv'
  <2>1. CASE LoadDevice(t)
    BY <2>1 DEF LoadDevice
  <2>2. CASE StartDeviceHost(t)
    BY <2>2 DEF StartDeviceHost, Fault
  <2>3. CASE StartFailed(t)
    BY <2>3 DEF StartFailed, Return
  <2>4. CASE Started(t)
    BY <2>4 DEF Started
  <2>5. CASE HostAttached(t)
    BY <2>5 DEF HostAttached
  <2>6. CASE HostTimeout(t)
    BY <2>6 DEF HostTimeout, Fault, Kill
  <2>7. CASE TimedOut(t)
    BY <2>7 DEF TimedOut, Return
  <2>8. CASE LockAdd(t)
    BY <2>8 DEF LockAdd, Return
  <2>9. CASE AddDevice(t)
    <3>1. pc[t] = "add" /\ hostService \in Insts
      BY <2>9 DEF AddDevice
    <3>2. dev[t] \in Devs /\ devices[hostService] \in Seq(Devs) /\ Distinct(devices[hostService])
      BY <3>1
    <3>3. dev[t] \notin Loaded(hostService) => Distinct(Append(devices[hostService], dev[t]))
      BY <3>1, <3>2, AppendFacts DEF Loaded
    <3>4. QED
      BY <2>9, <3>1, <3>2, <3>3 DEF AddDevice, AttachDevice, Fault
  <2>10. CASE AddDone(t)
    BY <2>10 DEF AddDone, Return
  <2>11. CASE MarkUsable(t)
    BY <2>11 DEF MarkUsable, Return
  <2>12. CASE LockDel(t)
    BY <2>12 DEF LockDel, Return
  <2>13. CASE DelDevice(t)
    <3>1. pc[t] = "del" /\ hostService \in Insts
      BY <2>13 DEF DelDevice
    <3>2. dev[t] \in Devs /\ devices[hostService] \in Seq(Devs) /\ Distinct(devices[hostService])
      BY <3>1
    <3>3. dev[t] \in Loaded(hostService) => Distinct(RemoveFirst(devices[hostService], dev[t]))
      BY <3>1, <3>2, RemoveFacts DEF Loaded
    <3>4. CASE hostService = proc /\ dev[t] \in Loaded(hostService)
      <4>1. /\ devices' = [devices EXCEPT ![hostService] = RemoveFirst(devices[hostService], dev[t])]
            /\ pc' = [pc EXCEPT ![t] = "deleted"] /\ UNCHANGED <<lock, hostService, inst>>
        BY <2>13, <3>4 DEF DelDevice
      <4>2. \A i \in Insts : Distinct(devices'[i]) /\ (inst'[i] # "up" => devices'[i] = <<>>)
        BY <3>1, <3>3, <3>4, <4>1
      <4>3. QED
        BY <3>1, <4>1, <4>2
    <3>5. CASE ~(hostService = proc /\ dev[t] \in Loaded(hostService))
      BY <2>13, <3>5 DEF DelDevice, Return
    <3>6. QED
      BY <3>4, <3>5
  <2>14. CASE Unloaded(t)
    BY <2>14 DEF Unloaded, Return
  <2>15. CASE StopHost(t)
    BY <2>15 DEF StopHost, Kill
  <2>16. CASE StopFlag(t)
    BY <2>16 DEF StopFlag, Return
  <2>17. QED
    BY <1>3, <2>1, <2>2, <2>3, <2>4, <2>5, <2>6, <2>7, <2>8, <2>9, <2>10, <2>11, <2>12, <2>13, <2>14, <2>15, <2>16 DEF CallerStep
<1>4. ASSUME NEW i \in Insts, HostStep(i) \/ AttachLost(i) \/ HostDied(i) PROVE HostInv'
  <2>1. CASE HostMain(i)
    BY <2>1 DEF HostMain, StartService
  <2>2. CASE AttachDeviceHost(i)
    BY <2>2 DEF AttachDeviceHost
  <2>3. CASE AttachLost(i)
    BY <2>3 DEF AttachLost
  <2>4. CASE HostDied(i)
    <3>1. Distinct(<<>>)
      BY DEF Distinct
    <3>2. QED
      BY <2>4, <3>1 DEF HostDied
  <2>5. QED
    BY <1>4, <2>1, <2>2, <2>3, <2>4 DEF HostStep
<1>5. CASE HostExits
  BY <1>5 DEF HostExits, Fault, Kill
<1>6. CASE UNCHANGED vars
  BY <1>6 DEF vars
<1>7. QED
  BY <1>1, <1>2, <1>3, <1>4, <1>5, <1>6 DEF Next

\* A step of a caller is one of a call in progress, and moves that call only.
LEMMA CallerMoves ==
  ASSUME CallType, NEW t \in Callers, CallerStep(t)
  PROVE  Busy(t) /\ dev' = dev /\ raced' = raced /\ \E l \in PCs : pc' = [pc EXCEPT ![t] = l]
<1>1. Busy(t) /\ dev' = dev /\ raced' = raced
  BY DEF CallerStep, Busy, procVars, LoadDevice, StartDeviceHost, StartFailed, Started, HostAttached,
         HostTimeout, TimedOut, LockAdd, AddDevice, AddDone, MarkUsable, LockDel, DelDevice, Unloaded,
         StopHost, StopFlag
<1>2. \E l \in PCs : Goto(t, l)
  BY DEF CallerStep, Return, PCs, LoadDevice, StartDeviceHost, StartFailed, Started, HostAttached,
         HostTimeout, TimedOut, LockAdd, AddDevice, AddDone, MarkUsable, LockDel, DelDevice, Unloaded,
         StopHost, StopFlag
<1>3. QED
  BY <1>1, <1>2 DEF Goto

\* A call that arrives moves a caller that was not busy.
LEMMA CallMoves ==
  ASSUME RetrierCalls \/ \E t \in Callers : OthersCall(t)
  PROVE  \E t \in Callers, d \in Devs, l \in {"load", "unload"} : ~Busy(t) /\ Call(t, d, l)
<1>1. CASE RetrierCalls
  BY <1>1, DevmgrAssumption DEF RetrierCalls, Busy
<1>2. ASSUME NEW t \in Callers, OthersCall(t)
      PROVE  \E d \in Devs, l \in {"load", "unload"} : ~Busy(t) /\ Call(t, d, l)
  BY <1>2 DEF OthersCall, Busy
<1>3. QED
  BY <1>1, <1>2

\* The other steps leave the callers alone.
LEMMA HostMoves ==
  ASSUME (\E i \in Insts : HostStep(i) \/ AttachLost(i) \/ HostDied(i)) \/ HostExits \/ UNCHANGED vars
  PROVE  pc' = pc /\ dev' = dev /\ raced' = raced
BY DEF HostStep, HostMain, AttachDeviceHost, AttachLost, HostDied, HostExits, callVars, vars

\* Every step keeps the calls about one device apart, or notes them.
LEMMA RaceNext ==
  CallType /\ RaceInv /\ [Next]_vars => RaceInv'
<1> SUFFICES ASSUME CallType, RaceInv, [Next]_vars PROVE RaceInv'
  OBVIOUS
<1>1. CASE RetrierCalls \/ \E t \in Callers : OthersCall(t)
  <2>1. PICK t \in Callers, d \in Devs, l \in {"load", "unload"} : ~Busy(t) /\ Call(t, d, l)
    BY <1>1, CallMoves
  <2>2. /\ pc' = [pc EXCEPT ![t] = l] /\ dev' = [dev EXCEPT ![t] = d]
        /\ raced' = raced \cup {e \in {d} : \E u \in Callers \ {t} : Busy(u) /\ dev[u] = d}
    BY <2>1 DEF Call, Goto
  <2> SUFFICES ASSUME NEW e \in Devs, e \notin raced', NEW u \in Callers, NEW v \in Callers,
                      Busy(u)', Busy(v)', dev'[u] = e, dev'[v] = e
               PROVE  u = v
    BY DEF RaceInv
  <2>3. \A w \in Callers \ {t} : pc'[w] = pc[w] /\ dev'[w] = dev[w]
    BY <2>2 DEF CallType
  <2>4. CASE u # t /\ v # t
    BY <2>2, <2>3, <2>4 DEF RaceInv, Busy
  <2>5. ASSUME NEW w \in Callers \ {t}, Busy(w)', dev'[w] = e, dev'[t] = e PROVE FALSE
    BY <2>2, <2>3, <2>5 DEF Busy, CallType
  <2>6. QED
    BY <2>4, <2>5
<1>2. CASE \E t \in Callers : CallerStep(t)
  <2>1. PICK t \in Callers : CallerStep(t)
    BY <1>2
  <2>2. dev' = dev /\ raced' = raced /\ \A u \in Callers : Busy(u)' => Busy(u)
    BY <2>1, CallerMoves DEF Busy, CallType
  <2>3. QED
    BY <2>2 DEF RaceInv
<1>3. CASE (\E i \in Insts : HostStep(i) \/ AttachLost(i) \/ HostDied(i)) \/ HostExits \/ UNCHANGED vars
  BY <1>3, HostMoves DEF RaceInv, Busy
<1>4. QED
  BY <1>1, <1>2, <1>3 DEF Next

\* No step undoes a failure.
LEMMA CleanStays ==
  ASSUME [Next]_vars, clean' PROVE clean
BY DEF Next, vars, callVars, RetrierCalls, OthersCall, Call, CallerStep, Fault, LoadDevice, StartDeviceHost,
       StartFailed, Started, HostAttached, HostTimeout, TimedOut, LockAdd, AddDevice, AddDone, MarkUsable,
       LockDel, DelDevice, Unloaded, StopHost, StopFlag, HostStep, HostMain, AttachDeviceHost, AttachLost,
       HostDied, HostExits

\* While nothing failed and all tokens are gone, no device is loaded.
LEMMA NoTokensNoDevices ==
  ASSUME TypeInv, HostInv, CleanInv, TokenInv, clean, hostService # None, \A d \in Devs : ~(tokens[d] > 0)
  PROVE  devices[proc] = <<>> /\ Loaded(hostService) = {}
<1>1. hostService = proc /\ proc \in Insts /\ devices[proc] \in Seq(Devs)
  BY DEF TypeInv, RecordType, ProcType, CleanInv, OwnProxy
<1>2. Loaded(hostService) = {devices[proc][k] : k \in 1 .. Len(devices[proc])}
  BY <1>1, RangeEquality DEF Loaded
<1>3. Len(devices[proc]) \in Nat /\ \A k \in 1 .. Len(devices[proc]) : devices[proc][k] \in Devs
  BY <1>1, LenProperties
<1>4. Loaded(hostService) = {}
  BY <1>2, <1>3 DEF TokenInv
<1>5. 1 \notin 1 .. Len(devices[proc])
  <2> SUFFICES ASSUME 1 \in 1 .. Len(devices[proc]) PROVE FALSE
    OBVIOUS
  <2>1. devices[proc][1] \in Loaded(hostService)
    BY <1>2
  <2>2. QED
    BY <1>4, <2>1
<1>6. Len(devices[proc]) = 0
  BY <1>3, <1>5
<1>7. QED
  BY <1>1, <1>4, <1>6, EmptySeq

\* A step that leaves the processes and the proxy alone, and sends nobody to
\* stop the host, keeps CleanInv.
LEMMA CleanFrame ==
  ASSUME CleanInv, clean' => clean, UNCHANGED <<inst, proc, hostService, devices>>,
         \A u \in Callers : pc'[u] = "stop" => pc[u] = "stop"
  PROVE  CleanInv'
BY DEF CleanInv, OneProcess, OwnProxy, OneStop

\* Every step without a failure keeps one process, and one stop of it.
LEMMA CleanNext ==
  TypeInv /\ HostInv /\ CleanInv /\ TokenInv /\ [Next]_vars => CleanInv'
<1> SUFFICES ASSUME TypeInv, HostInv, CleanInv, TokenInv, [Next]_vars, clean' PROVE CleanInv'
  BY DEF CleanInv
<1>a. clean
  BY CleanStays
<1>b. OneProcess /\ OwnProxy /\ OneStop
  BY <1>a DEF CleanInv
<1>c. CallType
  BY DEF TypeInv
<1>d. \A i \in Insts : i # None
  BY DevmgrAssumption
<1>e. inst \in [Insts -> {"free", "starting", "attaching", "up"}] /\ proc \in Insts \cup {None} /\ hostService \in Insts \cup {None}
      /\ devices \in [Insts -> Seq(Devs)]
  BY DEF TypeInv, RecordType, ProcType
<1>1. CASE RetrierCalls \/ \E t \in Callers : OthersCall(t)
  <2>1. PICK t \in Callers, d \in Devs, l \in {"load", "unload"} : ~Busy(t) /\ Call(t, d, l)
    BY <1>1, CallMoves
  <2>2. pc' = [pc EXCEPT ![t] = l] /\ UNCHANGED <<inst, proc, hostService, devices>>
    BY <2>1 DEF Call, Goto, hostVars, procVars
  <2>3. \A u \in Callers : pc'[u] = "stop" => pc[u] = "stop"
    BY <1>c, <2>2 DEF CallType
  <2>4. QED
    BY <1>a, <2>2, <2>3, CleanFrame
<1>2. ASSUME NEW t \in Callers, CallerStep(t) PROVE CleanInv'
  <2>a. PICK l \in PCs : pc' = [pc EXCEPT ![t] = l]
    BY <1>2, <1>c, CallerMoves
  <2>b. pc'[t] = l /\ \A u \in Callers \ {t} : pc'[u] = pc[u]
    BY <1>c, <2>a DEF CallType
  <2>1. CASE LoadDevice(t) \/ StartFailed(t) \/ Started(t) \/ HostAttached(t) \/ TimedOut(t) \/ LockAdd(t)
             \/ AddDone(t) \/ MarkUsable(t) \/ LockDel(t) \/ StopFlag(t)
    <3>1. UNCHANGED <<inst, proc, hostService, devices>>
      BY <2>1 DEF hostVars, procVars, LoadDevice, StartFailed, Started, HostAttached, TimedOut, LockAdd,
                  AddDone, MarkUsable, LockDel, StopFlag
    <3>2. pc'[t] # "stop"
      BY <2>1, <2>b, <1>c DEF CallType, Goto, Return, LoadDevice, StartFailed, Started, HostAttached,
                  TimedOut, LockAdd, AddDone, MarkUsable, LockDel, StopFlag
    <3>3. QED
      BY <1>a, <2>b, <3>1, <3>2, CleanFrame
  <2>2. CASE StartDeviceHost(t)
    <3>1. l # "stop" /\ hostService' = hostService /\ devices' = devices
      BY <1>c, <2>2, <2>b DEF StartDeviceHost, Goto, hostVars, procVars, CallType
    <3>2. CASE proc = None
      <4>1. hostService = None /\ (\A u \in Callers : pc[u] # "stop") /\ \A i \in Insts : inst[i] \notin {"starting", "attaching"}
        BY <1>b, <1>d, <3>2 DEF OneProcess, OwnProxy, OneStop
      <4>2. PICK j \in Insts : proc' = j /\ inst' = [inst EXCEPT ![j] = "starting"]
        BY <2>2, <3>2 DEF StartDeviceHost, Fault
      <4>3. OneProcess'
        BY <1>e, <4>1, <4>2 DEF OneProcess
      <4>4. OwnProxy' /\ OneStop'
        BY <2>b, <3>1, <4>1 DEF OwnProxy, OneStop
      <4>5. QED
        BY <4>3, <4>4 DEF CleanInv
    <3>3. CASE proc # None
      <4>1. UNCHANGED <<inst, proc, hostService, devices>>
        BY <2>2, <3>3 DEF StartDeviceHost, Fault, procVars, hostVars
      <4>2. QED
        BY <1>a, <2>b, <3>1, <4>1, CleanFrame
    <3>4. QED
      BY <3>2, <3>3
  <2>3. CASE HostTimeout(t)
    BY <2>3 DEF HostTimeout, Fault
  <2>4. CASE AddDevice(t) \/ DelDevice(t)
    <3>1. pc[t] \in {"add", "del"} /\ l # "stop" /\ UNCHANGED <<inst, proc, hostService>>
      BY <1>c, <2>4, <2>b DEF AddDevice, DelDevice, Goto, Return, CallType
    <3>2. \A u \in Callers : pc'[u] # "stop"
      BY <1>b, <2>b, <3>1 DEF OneStop, HostInv
    <3>3. QED
      BY <1>b, <3>1, <3>2 DEF CleanInv, OneProcess, OwnProxy, OneStop
  <2>5. CASE Unloaded(t)
    <3>1. pc[t] = "deleted" /\ hostService # None /\ UNCHANGED <<inst, proc, devices>>
      BY <2>5 DEF Unloaded, HostInv, procVars
    <3>2. \A u \in Callers : pc[u] # "stop"
      BY <1>b, <3>1 DEF OneStop
    <3>3. CASE auto \/ \E d \in Devs : tokens[d] > 0
      <4>1. l # "stop" /\ hostService' = hostService
        BY <1>c, <2>5, <2>b, <3>3 DEF Unloaded, Return, Goto, hostVars, CallType
      <4>2. QED
        BY <1>a, <2>b, <3>1, <4>1, CleanFrame
    <3>4. CASE ~(auto \/ \E d \in Devs : tokens[d] > 0)
      <4>1. hostService' = None
        BY <2>5, <3>4 DEF Unloaded
      <4>2. devices[proc] = <<>> /\ proc = hostService
        BY <1>a, <1>b, <3>1, <3>4, NoTokensNoDevices DEF OwnProxy
      <4>3. proc # None /\ inst[proc] = "up"
        BY <3>1, <4>2 DEF HostInv
      <4>4. QED
        BY <1>b, <2>b, <3>1, <3>2, <4>1, <4>2, <4>3 DEF CleanInv, OneProcess, OwnProxy, OneStop
    <3>5. QED
      BY <3>3, <3>4
  <2>6. CASE StopHost(t)
    <3>1. /\ pc[t] = "stop" /\ l = "stopped" /\ hostService' = hostService
          /\ proc' = None /\ inst' = [i \in Insts |-> IF i = proc /\ inst[i] = "starting" THEN "free" ELSE inst[i]]
      BY <1>c, <2>6, <2>b DEF StopHost, Kill, Goto, hostVars, CallType
    <3>2. hostService = None /\ inst[proc] = "up" /\ \A u \in Callers : pc'[u] # "stop"
      BY <1>b, <2>b, <3>1 DEF OneStop
    <3>3. QED
      BY <1>b, <3>1, <3>2 DEF CleanInv, OneProcess, OwnProxy, OneStop
  <2>7. QED
    BY <1>2, <2>1, <2>2, <2>3, <2>4, <2>5, <2>6 DEF CallerStep
<1>3. ASSUME NEW i \in Insts, HostStep(i) \/ AttachLost(i) \/ HostDied(i) PROVE CleanInv'
  <2>a. pc' = pc
    BY <1>3, HostMoves
  <2>1. CASE HostMain(i)
    <3>1. proc = i /\ inst[i] = "starting" /\ inst' = [inst EXCEPT ![i] = "attaching"] /\ UNCHANGED <<proc, hostService>>
      BY <2>1 DEF HostMain, StartService, hostVars
    <3>2. \A u \in Callers : pc'[u] # "stop"
      BY <1>b, <2>a, <3>1 DEF OneStop
    <3>3. QED
      BY <1>b, <1>e, <3>1, <3>2 DEF CleanInv, OneProcess, OwnProxy, OneStop
  <2>2. CASE AttachDeviceHost(i)
    <3>1. inst[i] = "attaching" /\ inst' = [inst EXCEPT ![i] = "up"] /\ hostService' = i /\ proc' = proc
      BY <2>2 DEF AttachDeviceHost
    <3>2. i = proc
      BY <1>b, <3>1 DEF OneProcess
    <3>3. \A u \in Callers : pc'[u] # "stop"
      BY <1>b, <2>a, <3>1, <3>2 DEF OneStop
    <3>4. QED
      BY <1>b, <1>e, <3>1, <3>2, <3>3 DEF CleanInv, OneProcess, OwnProxy, OneStop
  <2>3. CASE AttachLost(i)
    BY <1>b, <2>3 DEF AttachLost, OneProcess
  <2>4. CASE HostDied(i)
    <3>1. /\ i # proc /\ proc' = proc /\ inst' = [inst EXCEPT ![i] = "free"]
          /\ devices' = [devices EXCEPT ![i] = <<>>]
      BY <2>4 DEF HostDied
    <3>2. hostService' = hostService
      BY <1>b, <1>d, <2>4, <3>1 DEF HostDied, OwnProxy
    <3>3. OneProcess' /\ OwnProxy'
      BY <1>b, <1>e, <3>1, <3>2 DEF OneProcess, OwnProxy
    <3>4. OneStop'
      BY <1>b, <1>e, <2>a, <3>1, <3>2 DEF OneStop
    <3>5. QED
      BY <3>3, <3>4 DEF CleanInv
  <2>5. QED
    BY <1>3, <2>1, <2>2, <2>3, <2>4 DEF HostStep
<1>4. CASE HostExits
  BY <1>4 DEF HostExits, Fault
<1>5. CASE UNCHANGED vars
  BY <1>5, <1>a, CleanFrame DEF vars, hostVars, procVars, callVars
<1>6. QED
  BY <1>1, <1>2, <1>3, <1>4, <1>5 DEF Next

\* AddDevice adds the device of the call and its token, or neither.
LEMMA AddDeviceFacts ==
  ASSUME TypeInv, HostInv, NEW t \in Callers, AddDevice(t), clean'
  PROVE  \/ /\ dev[t] \notin Loaded(hostService) /\ pc' = [pc EXCEPT ![t] = "added"]
            /\ tokens' = [tokens EXCEPT ![dev[t]] = tokens[dev[t]] + 1]
            /\ Loaded(hostService)' = Loaded(hostService) \cup {dev[t]}
         \/ UNCHANGED <<tokens, Loaded(hostService)>> /\ pc' = [pc EXCEPT ![t] = "notadded"]
<1> DEFINE i == hostService
           d == dev[t]
<1>1. i \in Insts /\ i # None /\ d \in Devs /\ devices \in [Insts -> Seq(Devs)] /\ hostService' = i
      /\ Distinct(devices[i])
  BY DEF TypeInv, CallType, RecordType, ProcType, HostInv, AddDevice
<1>2. CASE /\ d \notin Loaded(i) /\ devices' = [devices EXCEPT ![i] = Append(devices[i], d)]
           /\ AttachDevice(d) /\ Goto(t, "added")
  <2>1. Loaded(hostService)' = Range(Append(devices[i], d))
    BY <1>1, <1>2 DEF Loaded
  <2>2. Range(Append(devices[i], d)) = Range(devices[i]) \cup {d}
    BY <1>1, <1>2, AppendFacts DEF Loaded
  <2>3. QED
    BY <1>1, <1>2, <2>1, <2>2 DEF AttachDevice, Goto, Loaded
<1>3. CASE UNCHANGED <<devices, tokens>> /\ Goto(t, "notadded")
  BY <1>1, <1>3 DEF Goto, Loaded
<1>4. QED
  BY <1>2, <1>3 DEF AddDevice, Fault

\* DelDevice removes the device of the call and its token, or neither.
LEMMA DelDeviceFacts ==
  ASSUME TypeInv, HostInv, NEW t \in Callers, DelDevice(t)
  PROVE  \/ /\ dev[t] \in Loaded(hostService) /\ pc' = [pc EXCEPT ![t] = "deleted"]
            /\ tokens' = [tokens EXCEPT ![dev[t]] = IF tokens[dev[t]] > 0 THEN tokens[dev[t]] - 1 ELSE 0]
            /\ Loaded(hostService)' = Loaded(hostService) \ {dev[t]}
         \/ UNCHANGED <<tokens, Loaded(hostService)>> /\ pc' = [pc EXCEPT ![t] = "idle"]
<1> DEFINE i == hostService
           d == dev[t]
<1>1. i \in Insts /\ i # None /\ d \in Devs /\ devices \in [Insts -> Seq(Devs)] /\ hostService' = i
      /\ Distinct(devices[i])
  BY DEF TypeInv, CallType, RecordType, ProcType, HostInv, DelDevice
<1>2. CASE i = proc /\ d \in Loaded(i)
  <2>1. /\ devices' = [devices EXCEPT ![i] = RemoveFirst(devices[i], d)]
        /\ DetachDevice(d) /\ Goto(t, "deleted")
    BY <1>2 DEF DelDevice
  <2>2. Loaded(hostService)' = Range(RemoveFirst(devices[i], d))
    BY <1>1, <2>1 DEF Loaded
  <2>3. Range(RemoveFirst(devices[i], d)) = Range(devices[i]) \ {d}
    BY <1>1, <1>2, RemoveFacts DEF Loaded
  <2>4. QED
    BY <1>1, <1>2, <2>1, <2>2, <2>3 DEF DetachDevice, Goto, Loaded
<1>3. CASE ~(i = proc /\ d \in Loaded(i))
  BY <1>1, <1>3 DEF DelDevice, Goto, Return, Loaded
<1>4. QED
  BY <1>2, <1>3

\* Every other step without a failure leaves the loaded devices, and the tokens
\* unless it resets those of a host that has none, as they are.
LEMMA LoadedStays ==
  ASSUME TypeInv, HostInv, CleanInv, TokenInv, [Next]_vars, clean',
         ~\E t \in Callers : AddDevice(t) \/ DelDevice(t)
  PROVE  UNCHANGED <<tokens, Loaded(hostService)>>
<1>a. clean
  BY CleanStays
<1>b. OneProcess /\ OwnProxy
  BY <1>a DEF CleanInv
<1>c. tokens \in [Devs -> Nat] /\ hostService \in Insts \cup {None} /\ devices \in [Insts -> Seq(Devs)]
  BY DEF TypeInv, RecordType, ProcType
<1>d. \A i \in Insts : i # None
  BY DevmgrAssumption
<1>1. CASE UNCHANGED <<tokens, hostService, devices>>
  BY <1>1 DEF Loaded
<1>2. ASSUME NEW t \in Callers, CallerStep(t) PROVE UNCHANGED <<tokens, Loaded(hostService)>>
  <2>1. CASE Unloaded(t)
    <3>1. devices' = devices /\ hostService # None
      BY <2>1 DEF Unloaded, HostInv, procVars
    <3>2. CASE UNCHANGED hostVars
      BY <1>1, <3>1, <3>2 DEF hostVars
    <3>3. CASE /\ \A d \in Devs : ~(tokens[d] > 0)
               /\ hostService' = None /\ tokens' = [d \in Devs |-> 0]
      <4>1. Loaded(hostService) = {}
        BY <1>a, <3>1, <3>3, NoTokensNoDevices
      <4>2. \A d \in Devs : tokens[d] = 0
        BY <1>a, <4>1 DEF TokenInv
      <4>3. tokens' = tokens
        BY <1>c, <3>3, <4>2
      <4>4. QED
        BY <3>3, <4>1, <4>3 DEF Loaded
    <3>4. QED
      BY <2>1, <3>2, <3>3 DEF Unloaded
  <2>2. CASE ~Unloaded(t)
    <3>1. UNCHANGED <<tokens, hostService, devices>>
      BY <1>2, <2>2 DEF CallerStep, hostVars, procVars, Kill, LoadDevice, StartDeviceHost, StartFailed, Started,
           HostAttached, HostTimeout, TimedOut, LockAdd, AddDone, MarkUsable, LockDel, StopHost, StopFlag
    <3>2. QED
      BY <1>1, <3>1
  <2>3. QED
    BY <2>1, <2>2
<1>3. ASSUME NEW i \in Insts, HostStep(i) \/ AttachLost(i) \/ HostDied(i)
      PROVE  UNCHANGED <<tokens, Loaded(hostService)>>
  <2>1. CASE AttachDeviceHost(i)
    <3>1. inst[i] = "attaching" /\ hostService' = i /\ UNCHANGED <<tokens, devices>>
      BY <2>1 DEF AttachDeviceHost
    <3>2. hostService = None /\ devices[i] = <<>>
      BY <1>b, <3>1 DEF OneProcess, OwnProxy, HostInv
    <3>3. Range(devices[i]) = {}
      BY <1>c, <3>2, EmptySeq, RangeEquality
    <3>4. QED
      BY <1>d, <3>1, <3>2, <3>3 DEF Loaded
  <2>2. CASE HostDied(i)
    <3>1. hostService # i /\ UNCHANGED <<tokens, hostService>> /\ devices' = [devices EXCEPT ![i] = <<>>]
      BY <1>b, <1>d, <2>2 DEF HostDied, OwnProxy
    <3>2. QED
      BY <1>c, <3>1 DEF Loaded
  <2>3. CASE HostMain(i) \/ AttachLost(i)
    BY <1>1, <2>3 DEF HostMain, AttachLost, hostVars
  <2>4. QED
    BY <1>3, <2>1, <2>2, <2>3 DEF HostStep
<1>4. CASE RetrierCalls \/ \E t \in Callers : OthersCall(t)
  <2>1. UNCHANGED <<tokens, hostService, devices>>
    BY <1>4 DEF RetrierCalls, OthersCall, Call, hostVars, procVars
  <2>2. QED
    BY <1>1, <2>1
<1>5. CASE HostExits \/ UNCHANGED vars
  BY <1>1, <1>5 DEF HostExits, Fault, vars, hostVars, procVars
<1>6. QED
  BY <1>2, <1>3, <1>4, <1>5 DEF Next

\* Every step without a failure keeps the tokens those of the loaded devices.
LEMMA TokenNext ==
  TypeInv /\ HostInv /\ CleanInv /\ TokenInv /\ [Next]_vars => TokenInv'
<1> SUFFICES ASSUME TypeInv, HostInv, CleanInv, TokenInv, [Next]_vars, clean' PROVE TokenInv'
  BY DEF TokenInv
<1>1. /\ \A d \in Devs : tokens[d] = IF d \in Loaded(hostService) THEN 1 ELSE 0
      /\ tokens \in [Devs -> Nat] /\ \A t \in Callers : dev[t] \in Devs
  BY CleanStays DEF TokenInv, TypeInv, CallType, RecordType
<1>2. CASE UNCHANGED <<tokens, Loaded(hostService)>>
  BY <1>1, <1>2 DEF TokenInv
<1>3. ASSUME NEW t \in Callers, AddDevice(t) PROVE TokenInv'
  <2>1. CASE /\ dev[t] \notin Loaded(hostService)
             /\ tokens' = [tokens EXCEPT ![dev[t]] = tokens[dev[t]] + 1]
             /\ Loaded(hostService)' = Loaded(hostService) \cup {dev[t]}
    BY <1>1, <2>1 DEF TokenInv
  <2>2. QED
    BY <1>2, <1>3, <2>1, AddDeviceFacts
<1>4. ASSUME NEW t \in Callers, DelDevice(t) PROVE TokenInv'
  <2>1. CASE /\ dev[t] \in Loaded(hostService)
             /\ tokens' = [tokens EXCEPT ![dev[t]] = IF tokens[dev[t]] > 0 THEN tokens[dev[t]] - 1 ELSE 0]
             /\ Loaded(hostService)' = Loaded(hostService) \ {dev[t]}
    BY <1>1, <2>1 DEF TokenInv
  <2>2. QED
    BY <1>2, <1>4, <2>1, DelDeviceFacts
<1>5. QED
  BY <1>2, <1>3, <1>4, LoadedStays

\* A step that leaves the loaded devices, their status and the calls that have
\* yet to write it alone keeps StatusInv.
LEMMA StatusFrame ==
  ASSUME StatusInv, clean, UNCHANGED <<status, Loaded(hostService)>>, raced \subseteq raced',
         \A u \in Callers :
           /\ pc'[u] \in {"added", "usable"} <=> pc[u] \in {"added", "usable"}
           /\ pc'[u] = "deleted" <=> pc[u] = "deleted"
           /\ pc[u] \in {"added", "usable", "deleted"} => dev'[u] = dev[u]
  PROVE  StatusInv'
<1> SUFFICES ASSUME NEW d \in Devs, d \notin raced'
             PROVE  /\ Pending(d, {"added", "usable"})' => d \in Loaded(hostService)'
                    /\ Pending(d, {"deleted"})' => d \notin Loaded(hostService)'
                    /\ \/ Pending(d, {"added", "usable", "deleted"})'
                       \/ status'[d] = "usable" <=> d \in Loaded(hostService)'
  BY DEF StatusInv
<1>1. d \in Devs \ raced
  OBVIOUS
<1>2. /\ Pending(d, {"added", "usable"}) => d \in Loaded(hostService)
      /\ Pending(d, {"deleted"}) => d \notin Loaded(hostService)
      /\ \/ Pending(d, {"added", "usable", "deleted"})
         \/ status[d] = "usable" <=> d \in Loaded(hostService)
  BY <1>1 DEF StatusInv
<1>3. /\ Pending(d, {"added", "usable"})' <=> Pending(d, {"added", "usable"})
      /\ Pending(d, {"deleted"})' <=> Pending(d, {"deleted"})
      /\ Pending(d, {"added", "usable", "deleted"})' <=> Pending(d, {"added", "usable", "deleted"})
  BY DEF Pending
<1>4. QED
  BY <1>2, <1>3

\* Every step without a failure keeps the status right, or pending.
LEMMA StatusNext ==
  TypeInv /\ HostInv /\ CleanInv /\ TokenInv /\ RaceInv /\ StatusInv /\ [Next]_vars => StatusInv'
<1> SUFFICES ASSUME TypeInv, HostInv, CleanInv, TokenInv, RaceInv, StatusInv, [Next]_vars, clean'
             PROVE  StatusInv'
  BY DEF StatusInv
<1>a. clean
  BY CleanStays
<1>b. CallType
  BY DEF TypeInv
<1>1. CASE RetrierCalls \/ \E t \in Callers : OthersCall(t)
  <2>1. PICK t \in Callers, d \in Devs, l \in {"load", "unload"} : ~Busy(t) /\ Call(t, d, l)
    BY <1>1, CallMoves
  <2>2. /\ pc[t] \in {"idle", "loaded"} /\ pc' = [pc EXCEPT ![t] = l] /\ dev' = [dev EXCEPT ![t] = d]
        /\ UNCHANGED status /\ raced \subseteq raced'
    BY <2>1 DEF Call, Goto, Busy
  <2>3. Loaded(hostService)' = Loaded(hostService)
    BY <2>1 DEF Call, Loaded, hostVars, procVars
  <2>4. QED
    BY <1>a, <1>b, <2>2, <2>3, StatusFrame DEF CallType
<1>2. ASSUME NEW t \in Callers, CallerStep(t) PROVE StatusInv'
  <2>a. PICK l \in PCs : pc' = [pc EXCEPT ![t] = l]
    BY <1>2, <1>b, CallerMoves
  <2>b. Busy(t) /\ dev' = dev /\ raced' = raced
    BY <1>2, <1>b, CallerMoves
  <2>c. pc'[t] = l /\ \A u \in Callers \ {t} : pc'[u] = pc[u]
    BY <1>b, <2>a DEF CallType
  <2> DEFINE c == dev[t]
  <2>d. c \in Devs
    BY <1>b DEF CallType
  \* No other call is about the same device, unless that was noted.
  <2>e. c \notin raced => \A u \in Callers \ {t} : dev[u] = c => pc[u] \in {"idle", "loaded"}
    BY <2>b, <2>d DEF RaceInv, Busy
  <2>f. ASSUME UNCHANGED <<status, Loaded(hostService)>>,
               l \in {"added", "usable"} <=> pc[t] \in {"added", "usable"},
               l = "deleted" <=> pc[t] = "deleted"
        PROVE  StatusInv'
    BY <1>a, <2>b, <2>c, <2>f, StatusFrame
  \* The device of the call, and the others.
  <2>g. ASSUME \A d \in Devs \ {c} : (status'[d] = status[d]) /\ (d \in Loaded(hostService)' <=> d \in Loaded(hostService)),
               c \notin raced =>
                 /\ l \in {"added", "usable"} => c \in Loaded(hostService)'
                 /\ l = "deleted" => c \notin Loaded(hostService)'
                 /\ l \in {"added", "usable", "deleted"} \/ (status'[c] = "usable" <=> c \in Loaded(hostService)')
        PROVE  StatusInv'
    <3> SUFFICES ASSUME NEW d \in Devs, d \notin raced
                 PROVE  /\ Pending(d, {"added", "usable"})' => d \in Loaded(hostService)'
                        /\ Pending(d, {"deleted"})' => d \notin Loaded(hostService)'
                        /\ \/ Pending(d, {"added", "usable", "deleted"})'
                           \/ status'[d] = "usable" <=> d \in Loaded(hostService)'
      BY <2>b DEF StatusInv
    <3>1. CASE d = c
      <4>1. \A u \in Callers : dev'[u] = d => u = t \/ pc'[u] \in {"idle", "loaded"}
        BY <2>b, <2>c, <2>e, <3>1
      <4>2. /\ Pending(d, {"added", "usable"})' => l \in {"added", "usable"}
            /\ Pending(d, {"deleted"})' => l = "deleted"
            /\ l \in {"added", "usable", "deleted"} => Pending(d, {"added", "usable", "deleted"})'
        BY <2>b, <2>c, <3>1, <4>1 DEF Pending
      <4>3. QED
        BY <2>g, <3>1, <4>2
    <3>2. CASE d # c
      <4>1. /\ Pending(d, {"added", "usable"})' <=> Pending(d, {"added", "usable"})
            /\ Pending(d, {"deleted"})' <=> Pending(d, {"deleted"})
            /\ Pending(d, {"added", "usable", "deleted"})' <=> Pending(d, {"added", "usable", "deleted"})
        BY <2>b, <2>c, <3>2 DEF Pending
      <4>2. /\ Pending(d, {"added", "usable"}) => d \in Loaded(hostService)
            /\ Pending(d, {"deleted"}) => d \notin Loaded(hostService)
            /\ \/ Pending(d, {"added", "usable", "deleted"})
               \/ status[d] = "usable" <=> d \in Loaded(hostService)
        BY <1>a DEF StatusInv
      <4>3. QED
        BY <2>g, <3>2, <4>1, <4>2
    <3>3. QED
      BY <3>1, <3>2
  <2>h. c \notin raced =>
          /\ pc[t] \in {"added", "usable"} => c \in Loaded(hostService)
          /\ pc[t] = "deleted" => c \notin Loaded(hostService)
    <3>1. \A m \in {"added", "usable", "deleted"} : pc[t] = m => Pending(c, {m})
      BY DEF Pending
    <3>2. pc[t] \in {"added", "usable"} => Pending(c, {"added", "usable"})
      BY DEF Pending
    <3>3. QED
      BY <1>a, <2>d, <3>1, <3>2 DEF StatusInv
  <2>1. CASE AddDevice(t)
    <3>0. pc[t] = "add" /\ status' = status
      BY <2>1 DEF AddDevice
    <3>1. CASE /\ pc' = [pc EXCEPT ![t] = "added"]
               /\ Loaded(hostService)' = Loaded(hostService) \cup {c}
      <4>1. l = "added"
        BY <1>b, <2>c, <3>1 DEF CallType
      <4>2. QED
        BY <2>g, <3>0, <3>1, <4>1
    <3>2. CASE Loaded(hostService)' = Loaded(hostService) /\ pc' = [pc EXCEPT ![t] = "notadded"]
      <4>1. l = "notadded"
        BY <1>b, <2>c, <3>2 DEF CallType
      <4>2. QED
        BY <2>f, <3>0, <3>2, <4>1
    <3>3. QED
      BY <2>1, <3>1, <3>2, AddDeviceFacts
  <2>2. CASE DelDevice(t)
    <3>0. pc[t] = "del" /\ status' = status
      BY <2>2 DEF DelDevice
    <3>1. CASE /\ pc' = [pc EXCEPT ![t] = "deleted"]
               /\ Loaded(hostService)' = Loaded(hostService) \ {c}
      <4>1. l = "deleted"
        BY <1>b, <2>c, <3>1 DEF CallType
      <4>2. QED
        BY <2>g, <3>0, <3>1, <4>1
    <3>2. CASE Loaded(hostService)' = Loaded(hostService) /\ pc' = [pc EXCEPT ![t] = "idle"]
      <4>1. l = "idle"
        BY <1>b, <2>c, <3>2 DEF CallType
      <4>2. QED
        BY <2>f, <3>0, <3>2, <4>1
    <3>3. QED
      BY <2>2, <3>1, <3>2, DelDeviceFacts
  <2>3. CASE ~AddDevice(t) /\ ~DelDevice(t)
    <3>a. ~\E u \in Callers : AddDevice(u) \/ DelDevice(u)
      <4> SUFFICES ASSUME NEW u \in Callers, u # t, AddDevice(u) \/ DelDevice(u) PROVE FALSE
        BY <2>3
      <4>1. pc'[u] = pc[u] /\ pc[u] \in {"add", "del"}
        BY <2>c DEF AddDevice, DelDevice
      <4>2. pc' = [pc EXCEPT ![u] = pc'[u]] /\ pc'[u] \notin {"add", "del"}
        BY <1>b DEF CallType, AddDevice, DelDevice, Goto, Return
      <4>3. QED
        BY <4>1, <4>2
    <3>b. Loaded(hostService)' = Loaded(hostService)
      BY <3>a, LoadedStays
    <3>1. CASE LoadDevice(t) \/ StartDeviceHost(t) \/ StartFailed(t) \/ Started(t) \/ HostAttached(t) \/ TimedOut(t)
               \/ HostTimeout(t) \/ LockAdd(t) \/ LockDel(t) \/ StopHost(t) \/ StopFlag(t)
      <4>1. status' = status /\ pc[t] \notin {"added", "usable", "deleted"}
        BY <3>1 DEF LoadDevice, StartDeviceHost, StartFailed, Started, HostAttached, TimedOut, HostTimeout,
                    LockAdd, LockDel, StopHost, StopFlag
      <4>2. l \notin {"added", "usable", "deleted"}
        BY <1>b, <2>c, <3>1 DEF CallType, Goto, Return, LoadDevice, StartDeviceHost, StartFailed, Started,
                    HostAttached, TimedOut, HostTimeout, LockAdd, LockDel, StopHost, StopFlag
      <4>3. QED
        BY <2>f, <3>b, <4>1, <4>2
    <3>2. CASE AddDone(t)
      <4>1. pc[t] = "added" => proc = hostService
        BY <1>a DEF HostInv, CleanInv, OwnProxy
      <4>2. status' = status /\ \/ pc[t] = "added" /\ l = "usable"
                                \/ pc[t] = "notadded" /\ l \in {"idle", "loaded"}
        BY <1>b, <2>c, <3>2, <4>1 DEF AddDone, Goto, Return, CallType
      <4>3. QED
        BY <2>f, <3>b, <4>2
    <3>3. CASE MarkUsable(t)
      <4>1. pc[t] = "usable" /\ status' = [status EXCEPT ![c] = "usable"] /\ l \in {"idle", "loaded"}
        BY <1>b, <2>c, <3>3 DEF MarkUsable, Goto, Return, CallType
      <4>2. status'[c] = "usable" /\ \A d \in Devs \ {c} : status'[d] = status[d]
        BY <2>d, <4>1 DEF TypeInv, RecordType
      <4>3. QED
        BY <2>g, <2>h, <3>b, <4>1, <4>2
    <3>4. CASE Unloaded(t)
      <4>1. pc[t] = "deleted" /\ status' = [status EXCEPT ![c] = "unusable"] /\ l \in {"idle", "stop"}
        BY <1>b, <2>c, <3>4 DEF Unloaded, Goto, Return, CallType
      <4>2. status'[c] = "unusable" /\ \A d \in Devs \ {c} : status'[d] = status[d]
        BY <2>d, <4>1 DEF TypeInv, RecordType
      <4>3. QED
        BY <2>g, <2>h, <3>b, <4>1, <4>2
    <3>5. QED
      BY <1>2, <2>3, <3>1, <3>2, <3>3, <3>4 DEF CallerStep
  <2>4. QED
    BY <2>1, <2>2, <2>3
<1>3. CASE (\E i \in Insts : HostStep(i) \/ AttachLost(i) \/ HostDied(i)) \/ HostExits \/ UNCHANGED vars
  <2>1. pc' = pc /\ dev' = dev /\ raced' = raced
    BY <1>3, HostMoves
  <2>2. status' = status
    BY <1>3 DEF HostStep, HostMain, AttachDeviceHost, AttachLost, HostDied, HostExits, vars
  <2>3. ~\E t \in Callers : AddDevice(t) \/ DelDevice(t)
    <3> SUFFICES ASSUME NEW t \in Callers, AddDevice(t) \/ DelDevice(t) PROVE FALSE
      OBVIOUS
    <3>1. pc[t] \in {"add", "del"} /\ pc'[t] \notin {"add", "del"}
      BY <1>b DEF CallType, AddDevice, DelDevice, Goto, Return
    <3>2. QED
      BY <2>1, <3>1
  <2>4. QED
    BY <1>a, <2>1, <2>2, <2>3, LoadedStays, StatusFrame
<1>4. QED
  BY <1>1, <1>2, <1>3 DEF Next

-----------------------------------------------------------------------------
\* The inductive invariant.
DevmgrInv == TypeInv /\ HostInv /\ CleanInv /\ TokenInv /\ RaceInv /\ StatusInv

\* The empty list has no members.
LEMMA EmptyRange ==
  Range(<<>>) = {}
<1>1. <<>> \in Seq(Devs) /\ Len(<<>>) = 0
  BY EmptySeq
<1>2. Range(<<>>) = {<<>>[i] : i \in 1 .. Len(<<>>)}
  BY <1>1, RangeEquality
<1>3. QED
  BY <1>1, <1>2

\* A host that is not running, or was just started at boot, satisfies it all.
LEMMA DevmgrInit ==
  Init => DevmgrInv
<1> SUFFICES ASSUME Init PROVE DevmgrInv
  OBVIOUS
<1>1. (CHOOSE i \in Insts : TRUE) \in Insts /\ \A i \in Insts : i # None
  BY DevmgrAssumption
<1>2. proc \in Insts \cup {None} /\ <<>> \in Seq(Devs) /\ Range(<<>>) = {} /\ Distinct(<<>>)
  <2>1. proc \in Insts \cup {None}
    BY <1>1 DEF Init
  <2>2. <<>> \in Seq(Devs) /\ Len(<<>>) = 0
    BY EmptySeq
  <2>3. QED
    BY <2>1, <2>2, EmptyRange DEF Distinct
<1>3. TypeInv
  <2>1. CallType
    BY DevmgrAssumption DEF Init, CallType, PCs
  <2>2. RecordType
    BY DEF Init, RecordType
  <2>3. ProcType
    BY <1>2 DEF Init, ProcType
  <2>4. QED
    BY <2>1, <2>2, <2>3 DEF TypeInv
<1>4. HostInv
  BY <1>2 DEF Init, HostInv
<1>5. CleanInv
  BY DEF Init, CleanInv, OneProcess, OwnProxy, OneStop
<1>6. RaceInv
  BY DEF Init, RaceInv, Busy
<1>7. Loaded(hostService) = {}
  BY DEF Init, Loaded
<1>8. TokenInv
  BY <1>7 DEF Init, TokenInv
<1>9. StatusInv
  <2>1. \A d, l : "idle" \notin l => ~Pending(d, l)
    BY DEF Init, Pending
  <2>2. QED
    BY <1>7, <2>1 DEF Init, StatusInv
<1>10. QED
  BY <1>3, <1>4, <1>5, <1>6, <1>8, <1>9 DEF DevmgrInv

\* The record of the host, the process and the calls stay consistent, however
\* calls, starts, stops, crashes and reports of them interleave.
THEOREM DevmgrInvariant == Spec => []DevmgrInv
<1>1. DevmgrInv /\ [Next]_vars => DevmgrInv'
  BY CallTypeNext, RecordTypeNext, ProcTypeNext, HostNext, CleanNext, TokenNext, RaceNext, StatusNext
     DEF DevmgrInv, TypeInv
<1>2. QED
  BY <1>1, DevmgrInit, PTL DEF Spec

\* Whatever fails, hostService->AddDevice and hostService->DelDevice are called
\* by one thread at a time, under hostLock, and hostService is there: neither the
\* report of a death (HostDied) nor another unload takes it away after LockAdd
\* or LockDel has tested it.
THEOREM LockedHasService ==
  Spec => [](\A t, u \in Callers : pc[t] \in {"add", "del"} =>
               /\ hostService # None
               /\ pc[u] \in {"add", "del"} => u = t)
<1>1. DevmgrInv => \A t, u \in Callers : pc[t] \in {"add", "del"} =>
                     /\ hostService # None
                     /\ pc[u] \in {"add", "del"} => u = t
  BY DEF DevmgrInv, HostInv
<1>2. QED
  BY <1>1, DevmgrInvariant, PTL

\* Whenever no call is in progress and nothing failed so far, the manager has one
\* token for each device the process has loaded and none for another, and marks
\* a device usable (MarkUsable, after the unlock) exactly if it is loaded, unless
\* two calls were about it at once; for every number of callers and calls.
THEOREM RecordMatches == Spec => []RecordMatchesHost
<1>1. DevmgrInv => RecordMatchesHost
  <2> SUFFICES ASSUME DevmgrInv, Quiet, clean, NEW d \in Devs
               PROVE  /\ tokens[d] = IF d \in Loaded(hostService) THEN 1 ELSE 0
                      /\ d \notin raced => (status[d] = "usable" <=> d \in Loaded(hostService))
    BY DEF RecordMatchesHost
  <2>1. ~Pending(d, {"added", "usable", "deleted"})
    BY DEF Quiet, Busy, Pending
  <2>2. QED
    BY <2>1 DEF DevmgrInv, TokenInv, StatusInv
<1>2. QED
  BY <1>1, DevmgrInvariant, PTL

\* While nothing failed, a stop (DevmgrServiceStopHost, outside the lock) hits a
\* process that has no device loaded, whatever other callers do meanwhile.
THEOREM StopsIdle == Spec => StopIsIdle
<1>1. DevmgrInv /\ [Next]_vars => [(\E t \in Callers : StopHost(t)) /\ clean => Loaded(proc) = {}]_vars
  <2> SUFFICES ASSUME DevmgrInv, NEW t \in Callers, StopHost(t), clean PROVE Loaded(proc) = {}
    OBVIOUS
  <2>1. devices[proc] = <<>>
    BY DEF StopHost, DevmgrInv, CleanInv, OneStop
  <2>2. QED
    BY <2>1, EmptyRange DEF Loaded
<1>2. QED
  BY <1>1, DevmgrInvariant, PTL DEF Spec, StopIsIdle

-----------------------------------------------------------------------------
\* Induction without an operator parameter: the set of the numbers for which a
\* statement holds is all of them if it contains 0 and is closed under + 1.
LEMMA Induction ==
  ASSUME NEW T, T \subseteq Nat, 0 \in T, \A n \in T : n + 1 \in T
  PROVE  T = Nat
<1> DEFINE C == Nat \ T
<1> SUFFICES ASSUME C # {} PROVE FALSE
  OBVIOUS
<1>1. \E n \in C : \A m \in C : ~(<<m, n>> \in OpToRel(<, Nat))
  BY NatLessThanWellFounded, WFMin
<1>2. PICK n \in C : \A m \in C : ~(<<m, n>> \in OpToRel(<, Nat))
  BY <1>1
<1>3. \A m \in C : ~(m < n)
  BY <1>2 DEF OpToRel
<1>4. n \in Nat /\ n # 0
  OBVIOUS
<1>5. n - 1 \in Nat /\ n - 1 < n /\ (n - 1) + 1 = n
  BY <1>4
<1>6. QED
  BY <1>3, <1>5

\* f[i] is the concatenation of the first i members of s, for i up to n: the
\* recursion of FlattenSeq.
Rec(f, s, n) == f = [i \in 1 .. n |-> IF i = 1 THEN s[i] ELSE f[i - 1] \o s[i]]

\* There is such a function, for every s and all of its members.
LEMMA RecExists ==
  ASSUME NEW s, Len(s) \in Nat
  PROVE  \E f : Rec(f, s, Len(s))
<1> DEFINE T == {n \in Nat : \E f : Rec(f, s, n)}
<1>1. 0 \in T
  <2>1. Rec([i \in 1 .. 0 |-> <<>>], s, 0)
    BY DEF Rec
  <2>2. QED
    BY <2>1
<1>2. ASSUME NEW n \in T PROVE n + 1 \in T
  <2>1. PICK f : Rec(f, s, n)
    OBVIOUS
  <2> DEFINE g == [i \in 1 .. n + 1 |-> IF i = 1 THEN s[i] ELSE f[i - 1] \o s[i]]
  <2>2. ASSUME NEW i \in 1 .. n PROVE g[i] = f[i]
    <3>1. f[i] = IF i = 1 THEN s[i] ELSE f[i - 1] \o s[i]
      BY <2>1 DEF Rec
    <3>2. i \in 1 .. n + 1
      OBVIOUS
    <3>3. QED
      BY <3>1, <3>2
  <2>3. \A i \in 1 .. n + 1 : i # 1 => i - 1 \in 1 .. n
    OBVIOUS
  <2>4. Rec(g, s, n + 1)
    BY <2>2, <2>3 DEF Rec
  <2>5. QED
    BY <2>4
<1>3. T = Nat
  <2> HIDE DEF T
  <2>1. T \subseteq Nat
    BY DEF T
  <2>2. QED
    BY <1>1, <1>2, <2>1, Induction
<1>4. QED
  BY <1>3

\* ... and only one.
LEMMA RecUnique ==
  ASSUME NEW s, Len(s) \in Nat, NEW f, NEW g, Rec(f, s, Len(s)), Rec(g, s, Len(s))
  PROVE  \A i \in 1 .. Len(s) : f[i] = g[i]
<1> DEFINE T == {n \in Nat : n \in 1 .. Len(s) => f[n] = g[n]}
<1>1. 0 \in T
  OBVIOUS
<1>2. ASSUME NEW n \in T PROVE n + 1 \in T
  <2> SUFFICES ASSUME n + 1 \in 1 .. Len(s) PROVE f[n + 1] = g[n + 1]
    OBVIOUS
  <2>1. CASE n = 0
    BY <2>1 DEF Rec
  <2>2. CASE n # 0
    <3>1. n \in 1 .. Len(s) /\ f[n] = g[n] /\ n + 1 # 1 /\ (n + 1) - 1 = n
      BY <2>2
    <3>2. f[n + 1] = f[n] \o s[n + 1] /\ g[n + 1] = g[n] \o s[n + 1]
      BY <3>1 DEF Rec
    <3>3. QED
      BY <3>1, <3>2
  <2>3. QED
    BY <2>1, <2>2
<1>3. T = Nat
  <2> HIDE DEF T
  <2>1. T \subseteq Nat
    BY DEF T
  <2>2. QED
    BY <1>1, <1>2, <2>1, Induction
<1>4. QED
  BY <1>3

\* FlattenSeq is the last value of any function that satisfies its recursion.
LEMMA FlattenIs ==
  ASSUME NEW s, Len(s) \in Nat \ {0}, NEW f, Rec(f, s, Len(s))
  PROVE  FlattenSeq(s) = f[Len(s)]
<1> DEFINE flatten[i \in 1 .. Len(s)] == IF i = 1 THEN s[i] ELSE flatten[i - 1] \o s[i]
<1>1. FlattenSeq(s) = flatten[Len(s)]
  BY DEF FlattenSeq
<1>2. flatten = CHOOSE g : Rec(g, s, Len(s))
  BY DEF Rec
<1>3. Rec(flatten, s, Len(s))
  <2> HIDE DEF flatten
  <2>1. QED
    BY <1>2, RecExists
<1> HIDE DEF flatten
<1>4. QED
  BY <1>1, <1>3, RecUnique

\* Flattening a list of lists over X gives a list over X.
LEMMA FlattenType ==
  ASSUME NEW X, NEW s \in Seq(Seq(X))
  PROVE  /\ FlattenSeq(s) \in Seq(X)
         /\ \A f : Rec(f, s, Len(s)) => \A i \in 1 .. Len(s) : f[i] \in Seq(X)
<1>1. Len(s) \in Nat /\ \A i \in 1 .. Len(s) : s[i] \in Seq(X)
  BY LenProperties
<1>2. ASSUME NEW f, Rec(f, s, Len(s)) PROVE \A i \in 1 .. Len(s) : f[i] \in Seq(X)
  <2> DEFINE T == {n \in Nat : n \in 1 .. Len(s) => f[n] \in Seq(X)}
  <2>1. 0 \in T
    OBVIOUS
  <2>2. ASSUME NEW n \in T PROVE n + 1 \in T
    <3> SUFFICES ASSUME n + 1 \in 1 .. Len(s) PROVE f[n + 1] \in Seq(X)
      OBVIOUS
    <3>1. f[n + 1] = IF n + 1 = 1 THEN s[n + 1] ELSE f[(n + 1) - 1] \o s[n + 1]
      BY <1>2 DEF Rec
    <3>2. CASE n = 0
      BY <1>1, <3>1, <3>2
    <3>3. CASE n # 0
      <4>1. n \in 1 .. Len(s) /\ n + 1 # 1 /\ (n + 1) - 1 = n
        BY <1>1, <3>3
      <4>2. f[n] \in Seq(X) /\ s[n + 1] \in Seq(X) /\ f[n + 1] = f[n] \o s[n + 1]
        BY <1>1, <3>1, <4>1
      <4> HIDE DEF T
      <4>3. QED
        BY <4>2, ConcatProperties
    <3>4. QED
      BY <3>2, <3>3
  <2>3. T = Nat
    <3> HIDE DEF T
    <3>1. T \subseteq Nat
      BY DEF T
    <3>2. QED
      BY <2>1, <2>2, <3>1, Induction
  <2>4. QED
    BY <2>3
<1>3. FlattenSeq(s) \in Seq(X)
  <2>1. CASE Len(s) = 0
    <3>1. s = <<>> /\ <<>> \in Seq(X)
      BY <2>1, EmptySeq
    <3>2. QED
      BY <2>1, <3>1 DEF FlattenSeq
  <2>2. CASE Len(s) # 0
    <3>1. PICK f : Rec(f, s, Len(s))
      BY <1>1, RecExists
    <3>2. FlattenSeq(s) = f[Len(s)] /\ Len(s) \in 1 .. Len(s)
      BY <1>1, <2>2, <3>1, FlattenIs
    <3>3. QED
      BY <1>2, <3>1, <3>2
  <2>3. QED
    BY <2>1, <2>2
<1>4. QED
  BY <1>2, <1>3

-----------------------------------------------------------------------------
\* FlattenSeq of nothing.
LEMMA FlattenEmpty ==
  FlattenSeq(<<>>) = <<>>
BY EmptySeq DEF FlattenSeq

\* ... of one more list at the end.
LEMMA FlattenAppend ==
  ASSUME NEW X, NEW s \in Seq(Seq(X)), NEW e \in Seq(X)
  PROVE  FlattenSeq(Append(s, e)) = FlattenSeq(s) \o e
<1> DEFINE n == Len(s)
           r == Append(s, e)
<1>1. n \in Nat /\ Len(r) = n + 1 /\ r[n + 1] = e /\ \A i \in 1 .. n : r[i] = s[i]
  BY AppendProperties, LenProperties
<1>2. PICK f : Rec(f, s, n)
  BY <1>1, RecExists
<1>3. n # 0 => FlattenSeq(s) = f[n]
  BY <1>1, <1>2, FlattenIs
<1> DEFINE g == [i \in 1 .. n + 1 |-> IF i = n + 1 THEN FlattenSeq(s) \o e ELSE f[i]]
<1> HIDE DEF n, r
<1>4. Rec(g, r, n + 1)
  <2>1. ASSUME NEW i \in 1 .. n + 1 PROVE g[i] = IF i = 1 THEN r[i] ELSE g[i - 1] \o r[i]
    <3>1. CASE i = n + 1 /\ n = 0
      <4>1. s = <<>>
        BY <3>1, EmptySeq DEF n
      <4>2. FlattenSeq(s) \o e = e
        BY <4>1, FlattenEmpty, ConcatEmptySeq
      <4>3. QED
        BY <1>1, <3>1, <4>2
    <3>2. CASE i = n + 1 /\ n # 0
      <4>1. n \in 1 .. n + 1 /\ n # n + 1 /\ i - 1 = n /\ i # 1 /\ r[i] = e
        BY <1>1, <3>2
      <4>2. g[i] = f[n] \o e /\ g[n] = f[n]
        BY <1>3, <3>2, <4>1
      <4>3. QED
        BY <4>1, <4>2
    <3>3. CASE i # n + 1
      <4>1. i \in 1 .. n /\ (i # 1 => i - 1 \in 1 .. n /\ i - 1 # n + 1)
        BY <1>1, <3>3
      <4>2. f[i] = IF i = 1 THEN s[i] ELSE f[i - 1] \o s[i]
        BY <1>2, <4>1 DEF Rec
      <4>3. g[i] = f[i] /\ (i # 1 => g[i - 1] = f[i - 1]) /\ r[i] = s[i]
        BY <1>1, <3>3, <4>1
      <4>4. QED
        BY <4>2, <4>3
    <3>4. QED
      BY <3>1, <3>2, <3>3
  <2>2. g = [i \in 1 .. n + 1 |-> g[i]]
    OBVIOUS
  <2> HIDE DEF g
  <2>3. QED
    BY <2>1, <2>2 DEF Rec
<1>5. FlattenSeq(r) = g[n + 1]
  <2> HIDE DEF g
  <2>1. Len(r) = n + 1 /\ n + 1 \in Nat \ {0}
    BY <1>1
  <2>2. QED
    BY <1>4, <2>1, FlattenIs
<1>6. QED
  BY <1>1, <1>5 DEF r

\* ... and at the front.
LEMMA FlattenCons ==
  ASSUME NEW X, NEW s \in Seq(Seq(X)), NEW e \in Seq(X)
  PROVE  FlattenSeq(<<e>> \o s) = e \o FlattenSeq(s)
<1> DEFINE n == Len(s)
           r == <<e>> \o s
<1>1. n \in Nat /\ Len(r) = n + 1 /\ r[1] = e /\ \A i \in 1 .. n : r[i + 1] = s[i] /\ s[i] \in Seq(X)
  <2>1. <<e>> \in Seq(Seq(X)) /\ Len(<<e>>) = 1 /\ <<e>>[1] = e /\ n \in Nat
    BY LenProperties
  <2>2. /\ Len(r) = Len(<<e>>) + n
        /\ \A i \in 1 .. Len(<<e>>) + n : r[i] = IF i <= Len(<<e>>) THEN <<e>>[i] ELSE s[i - Len(<<e>>)]
    BY <2>1, ConcatProperties
  <2> HIDE DEF r
  <2>3. \A i \in 1 .. n : s[i] \in Seq(X)
    BY LenProperties
  <2>4. \A i \in 1 .. n : i + 1 \in 1 .. Len(<<e>>) + n /\ ~(i + 1 <= Len(<<e>>)) /\ (i + 1) - Len(<<e>>) = i
    BY <2>1
  <2>5. QED
    BY <2>1, <2>2, <2>3, <2>4
<1>2. PICK f : Rec(f, s, n)
  BY <1>1, RecExists
<1>3. \A i \in 1 .. n : f[i] \in Seq(X)
  BY <1>2, FlattenType
<1> DEFINE g == [i \in 1 .. n + 1 |-> IF i = 1 THEN e ELSE e \o f[i - 1]]
<1>a. \A i \in 1 .. n : f[i] = IF i = 1 THEN s[i] ELSE f[i - 1] \o s[i]
  BY <1>2 DEF Rec
<1> HIDE DEF n, r
<1>4. Rec(g, r, n + 1)
  <2>1. ASSUME NEW i \in 1 .. n + 1 PROVE g[i] = IF i = 1 THEN r[i] ELSE g[i - 1] \o r[i]
    <3>1. CASE i = 1
      BY <1>1, <3>1
    <3>2. CASE i = 2
      <4>1. 1 \in 1 .. n /\ 1 \in 1 .. n + 1 /\ i - 1 = 1 /\ i # 1
        BY <1>1, <3>2
      <4>2. g[i] = e \o f[1] /\ g[1] = e /\ f[1] = s[1] /\ r[i] = s[1]
        BY <1>1, <1>a, <3>2, <4>1
      <4>3. QED
        BY <4>1, <4>2
    <3>3. CASE i # 1 /\ i # 2
      <4>1. i - 1 \in 1 .. n /\ i - 2 \in 1 .. n /\ i - 1 \in 1 .. n + 1 /\ i - 1 # 1 /\ (i - 1) - 1 = i - 2
            /\ (i - 1) + 1 = i
        BY <1>1, <3>3
      <4>2. g[i] = e \o f[i - 1] /\ g[i - 1] = e \o f[i - 2]
        BY <3>3, <4>1
      <4>3. f[i - 1] = f[i - 2] \o s[i - 1] /\ r[i] = s[i - 1]
        BY <1>1, <1>a, <4>1
      <4>4. f[i - 2] \in Seq(X) /\ s[i - 1] \in Seq(X)
        BY <1>1, <1>3, <4>1
      <4>5. \A a, b \in Seq(X) : e \o (a \o b) = (e \o a) \o b
        BY ConcatAssociative
      <4>6. QED
        BY <3>3, <4>2, <4>3, <4>4, <4>5
    <3>4. QED
      BY <3>1, <3>2, <3>3
  <2>2. g = [i \in 1 .. n + 1 |-> g[i]]
    OBVIOUS
  <2> HIDE DEF g
  <2>3. QED
    BY <2>1, <2>2 DEF Rec
<1>5. FlattenSeq(r) = g[n + 1]
  <2> HIDE DEF g
  <2>1. Len(r) = n + 1 /\ n + 1 \in Nat \ {0}
    BY <1>1
  <2>2. QED
    BY <1>4, <2>1, FlattenIs
<1>6. CASE n = 0
  <2>1. s = <<>>
    BY <1>6, EmptySeq DEF n
  <2>2. e \o FlattenSeq(s) = e
    BY <2>1, FlattenEmpty, ConcatEmptySeq
  <2>3. g[n + 1] = e
    BY <1>6
  <2>4. QED
    BY <1>5, <2>2, <2>3 DEF r
<1>7. CASE n # 0
  <2>1. FlattenSeq(s) = f[n]
    BY <1>1, <1>2, <1>7, FlattenIs DEF n
  <2>2. n + 1 \in 1 .. n + 1 /\ n + 1 # 1 /\ (n + 1) - 1 = n
    BY <1>1, <1>7
  <2>3. g[n + 1] = e \o f[n]
    BY <2>2
  <2>4. QED
    BY <1>5, <2>1, <2>3 DEF r
<1>8. QED
  BY <1>6, <1>7

-----------------------------------------------------------------------------
\* Reverse: its length and members.
LEMMA ReverseFacts ==
  ASSUME NEW X, NEW s \in Seq(X)
  PROVE  /\ Reverse(s) \in Seq(X) /\ Len(Reverse(s)) = Len(s)
         /\ \A i \in 1 .. Len(s) : Reverse(s)[i] = s[Len(s) + 1 - i]
<1>1. Len(s) \in Nat /\ \A i \in 1 .. Len(s) : s[i] \in X
  BY LenProperties
<1>2. Reverse(s) = [i \in 1 .. Len(s) |-> s[(Len(s) - i) + 1]]
  BY DEF Reverse
<1>3. \A i \in 1 .. Len(s) : (Len(s) - i) + 1 \in 1 .. Len(s) /\ (Len(s) - i) + 1 = Len(s) + 1 - i
  BY <1>1
<1>4. Reverse(s) \in Seq(X) /\ Len(Reverse(s)) = Len(s)
  BY <1>1, <1>2, <1>3
<1>5. QED
  BY <1>2, <1>3, <1>4

\* The second part comes first, each part backwards.
LEMMA ReverseConcat ==
  ASSUME NEW X, NEW s \in Seq(X), NEW e \in Seq(X)
  PROVE  Reverse(s \o e) = Reverse(e) \o Reverse(s)
<1> DEFINE m == Len(s)
           n == Len(e)
           c == s \o e
           a == Reverse(e)
           b == Reverse(s)
<1>1. m \in Nat /\ n \in Nat
  BY LenProperties
<1>2. /\ c \in Seq(X) /\ Len(c) = m + n
      /\ \A i \in 1 .. m + n : c[i] = IF i <= m THEN s[i] ELSE e[i - m]
  BY ConcatProperties
<1>3. /\ b \in Seq(X) /\ Len(b) = m /\ \A i \in 1 .. m : b[i] = s[m + 1 - i]
      /\ a \in Seq(X) /\ Len(a) = n /\ \A i \in 1 .. n : a[i] = e[n + 1 - i]
  BY ReverseFacts
<1> HIDE DEF m, n, c, a, b
<1> DEFINE l == Reverse(c)
           r == a \o b
<1>4. l \in Seq(X) /\ Len(l) = m + n /\ \A i \in 1 .. m + n : l[i] = c[m + n + 1 - i]
  <2>1. l \in Seq(X) /\ Len(l) = Len(c) /\ \A i \in 1 .. Len(c) : l[i] = c[Len(c) + 1 - i]
    BY <1>2, ReverseFacts
  <2> HIDE DEF l
  <2>2. QED
    BY <1>2, <2>1
<1>5. r \in Seq(X) /\ Len(r) = m + n /\ \A i \in 1 .. m + n : r[i] = IF i <= n THEN a[i] ELSE b[i - n]
  <2>1. /\ r \in Seq(X) /\ Len(r) = Len(a) + Len(b)
        /\ \A i \in 1 .. Len(a) + Len(b) : r[i] = IF i <= Len(a) THEN a[i] ELSE b[i - Len(a)]
    BY <1>3, ConcatProperties
  <2> HIDE DEF r
  <2>2. Len(a) + Len(b) = m + n
    BY <1>1, <1>3
  <2>3. QED
    BY <1>3, <2>1, <2>2
<1> HIDE DEF l, r
<1>6. ASSUME NEW i \in 1 .. m + n PROVE l[i] = r[i]
  <2>1. CASE i <= n
    <3>1. m + n + 1 - i \in 1 .. m + n /\ ~(m + n + 1 - i <= m) /\ (m + n + 1 - i) - m = n + 1 - i /\ i \in 1 .. n
      BY <1>1, <2>1
    <3>2. l[i] = e[n + 1 - i]
      BY <1>2, <1>4, <3>1
    <3>3. QED
      BY <1>3, <1>5, <2>1, <3>1, <3>2
  <2>2. CASE ~(i <= n)
    <3>1. m + n + 1 - i \in 1 .. m + n /\ m + n + 1 - i <= m /\ m + n + 1 - i = m + 1 - (i - n) /\ i - n \in 1 .. m
      BY <1>1, <2>2
    <3>2. l[i] = s[m + 1 - (i - n)]
      BY <1>2, <1>4, <3>1
    <3>3. QED
      BY <1>3, <1>5, <2>2, <3>1, <3>2
  <2>3. QED
    BY <2>1, <2>2
<1>7. l = r
  BY <1>4, <1>5, <1>6, SeqEqual
<1>8. QED
  BY <1>7 DEF l, r, a, b, c

\* The mirror image of a list of lists: the lists backwards, each backwards.
Mirror(s) == [k \in 1 .. Len(s) |-> Reverse(s[Len(s) + 1 - k])]

\* Flattening the mirror image gives the flattened list backwards.
LEMMA FlattenMirror ==
  ASSUME NEW X, NEW s \in Seq(Seq(X))
  PROVE  FlattenSeq(Mirror(s)) = Reverse(FlattenSeq(s))
<1> DEFINE T == {n \in Nat : \A u \in Seq(Seq(X)) : Len(u) = n => FlattenSeq(Mirror(u)) = Reverse(FlattenSeq(u))}
<1>1. 0 \in T
  <2> SUFFICES ASSUME NEW u \in Seq(Seq(X)), Len(u) = 0 PROVE FlattenSeq(Mirror(u)) = Reverse(FlattenSeq(u))
    OBVIOUS
  <2>1. u = <<>> /\ Mirror(u) = <<>> /\ Reverse(<<>>) = <<>>
    BY EmptySeq DEF Mirror, Reverse
  <2>2. QED
    BY <2>1, FlattenEmpty
<1>2. ASSUME NEW n \in T PROVE n + 1 \in T
  <2> SUFFICES ASSUME NEW u \in Seq(Seq(X)), Len(u) = n + 1
               PROVE  FlattenSeq(Mirror(u)) = Reverse(FlattenSeq(u))
    OBVIOUS
  <2> DEFINE v == [k \in 1 .. n |-> u[k]]
             e == u[n + 1]
             r == <<Reverse(e)>> \o Mirror(v)
  <2>1. /\ n \in Nat /\ \A k \in 1 .. n + 1 : u[k] \in Seq(X)
    BY LenProperties
  <2>2. /\ v \in Seq(Seq(X)) /\ Len(v) = n /\ (\A k \in 1 .. n : v[k] = u[k])
        /\ e \in Seq(X) /\ Reverse(e) \in Seq(X)
    BY <2>1, ReverseFacts
  <2>3. FlattenSeq(Mirror(v)) = Reverse(FlattenSeq(v))
    BY <2>2
  <2> HIDE DEF T, v
  <2>4. u = Append(v, e)
    <3>1. /\ Append(v, e) \in Seq(Seq(X)) /\ Len(Append(v, e)) = n + 1
          /\ Append(v, e)[n + 1] = e /\ \A k \in 1 .. n : Append(v, e)[k] = v[k]
      BY <2>2, AppendProperties
    <3>2. \A k \in 1 .. n + 1 : u[k] = Append(v, e)[k]
      BY <2>1, <2>2, <3>1
    <3>3. QED
      BY <3>1, <3>2, SeqEqual
  <2>5. /\ Mirror(v) \in Seq(Seq(X)) /\ Len(Mirror(v)) = n
        /\ \A k \in 1 .. n : Mirror(v)[k] = Reverse(v[n + 1 - k])
    <3>1. \A k \in 1 .. n : n + 1 - k \in 1 .. n
      BY <2>1
    <3>2. \A k \in 1 .. n : Reverse(v[n + 1 - k]) \in Seq(X)
      BY <2>1, <2>2, <3>1, ReverseFacts
    <3>3. QED
      BY <2>1, <2>2, <3>2 DEF Mirror
  <2>6. Mirror(u) = r
    <3>1. /\ Mirror(u) \in Seq(Seq(X)) /\ Len(Mirror(u)) = n + 1
          /\ \A k \in 1 .. n + 1 : Mirror(u)[k] = Reverse(u[n + 2 - k])
      <4>1. \A k \in 1 .. n + 1 : n + 1 + 1 - k \in 1 .. n + 1 /\ n + 1 + 1 - k = n + 2 - k
        BY <2>1
      <4>2. \A k \in 1 .. n + 1 : Reverse(u[n + 1 + 1 - k]) \in Seq(X)
        BY <2>1, <4>1, ReverseFacts
      <4>3. QED
        BY <2>1, <4>1, <4>2 DEF Mirror
    <3>2. /\ r \in Seq(Seq(X)) /\ Len(r) = n + 1 /\ r[1] = Reverse(e)
          /\ \A k \in 2 .. n + 1 : r[k] = Mirror(v)[k - 1]
      <4> DEFINE h == <<Reverse(e)>>
                 w == Mirror(v)
      <4>1. h \in Seq(Seq(X)) /\ Len(h) = 1 /\ h[1] = Reverse(e)
        BY <2>2
      <4> HIDE DEF h, w, r
      <4>2. /\ r \in Seq(Seq(X)) /\ Len(r) = 1 + n
            /\ \A k \in 1 .. 1 + n : r[k] = IF k <= 1 THEN h[k] ELSE w[k - 1]
        <5>1. w \in Seq(Seq(X)) /\ Len(w) = n
          BY <2>5 DEF w
        <5>2. QED
          BY <4>1, <5>1, ConcatProperties DEF r, h, w
      <4>3. 1 \in 1 .. 1 + n /\ \A k \in 2 .. n + 1 : k \in 1 .. 1 + n /\ ~(k <= 1)
        BY <2>1
      <4>4. r[1] = Reverse(e)
        BY <4>1, <4>2, <4>3
      <4>5. ASSUME NEW k \in 2 .. n + 1 PROVE r[k] = w[k - 1]
        BY <4>2, <4>3
      <4>6. Len(r) = n + 1
        BY <2>1, <4>2
      <4>7. QED
        BY <4>2, <4>4, <4>5, <4>6 DEF w
    <3>3. ASSUME NEW k \in 1 .. n + 1 PROVE Mirror(u)[k] = r[k]
      <4>1. CASE k = 1
        BY <2>1, <3>1, <3>2, <4>1
      <4>2. CASE k # 1
        <5>1. k \in 2 .. n + 1 /\ k - 1 \in 1 .. n /\ n + 1 - (k - 1) = n + 2 - k /\ n + 2 - k \in 1 .. n
          BY <2>1, <4>2
        <5>2. QED
          BY <2>2, <2>5, <3>1, <3>2, <5>1
      <4>3. QED
        BY <4>1, <4>2
    <3>4. QED
      BY <3>1, <3>2, <3>3, SeqEqual
  <2>7. FlattenSeq(r) = Reverse(e) \o FlattenSeq(Mirror(v))
    BY <2>2, <2>5, FlattenCons
  <2>8. FlattenSeq(u) = FlattenSeq(v) \o e /\ FlattenSeq(v) \in Seq(X)
    BY <2>2, <2>4, FlattenAppend, FlattenType
  <2>9. Reverse(FlattenSeq(v) \o e) = Reverse(e) \o Reverse(FlattenSeq(v))
    BY <2>2, <2>8, ReverseConcat
  <2>10. QED
    BY <2>3, <2>6, <2>7, <2>8, <2>9
<1>3. T = Nat
  <2> HIDE DEF T
  <2>1. T \subseteq Nat
    BY DEF T
  <2>2. QED
    BY <1>1, <1>2, <2>1, Induction
<1>4. QED
  BY <1>3, LenProperties

\* One host: the devices backwards and each one's nodes in order for a wake
\* state, the other way round for a suspend state.
LEMMA PmNotifyMirrors ==
  ASSUME NEW X, NEW host \in Seq(Seq(X))
  PROVE  PmNotify(TRUE, host) \in Seq(X) /\ PmNotify(FALSE, host) = Reverse(PmNotify(TRUE, host))
<1> DEFINE n == Len(host)
           b == Reverse(host)
<1>1. n \in Nat /\ \A k \in 1 .. n : host[k] \in Seq(X)
  BY LenProperties
<1>2. b \in Seq(Seq(X)) /\ Len(b) = n /\ \A k \in 1 .. n : b[k] = host[n + 1 - k]
  BY ReverseFacts
<1> HIDE DEF n, b
<1>3. PmNotify(TRUE, host) = FlattenSeq(b)
  <2>1. b = [k \in 1 .. Len(b) |-> b[k]]
    BY <1>2
  <2>2. PmNotify(TRUE, host) = FlattenSeq([k \in 1 .. Len(b) |-> b[k]])
    BY DEF PmNotify, DispatchPowerState, b
  <2>3. QED
    BY <2>1, <2>2
<1>4. PmNotify(FALSE, host) = FlattenSeq(Mirror(b))
  <2>1. \A k \in 1 .. n : n + 1 - k \in 1 .. n /\ n + 1 - (n + 1 - k) = k
    BY <1>1
  <2>2. \A k \in 1 .. n : b[n + 1 - k] = host[k]
    BY <1>2, <2>1
  <2>3. Mirror(b) = [k \in 1 .. n |-> Reverse(host[k])]
    BY <1>2, <2>2 DEF Mirror
  <2>4. PmNotify(FALSE, host) = FlattenSeq([k \in 1 .. n |-> Reverse(host[k])])
    BY DEF PmNotify, DispatchPowerState, n
  <2>5. QED
    BY <2>3, <2>4
<1>5. QED
  BY <1>2, <1>3, <1>4, FlattenMirror, FlattenType

\* Going to sleep is the mirror image of waking up, for any hosts, devices and
\* nodes: the directions of the three loops (DevmgrServicePowerStateChange,
\* DevHostServiceFullPmNotify, DevHostServiceFullDispatchPowerState) fit together.
THEOREM SleepMirrorsWake ==
  ASSUME NEW X, NEW hosts \in Seq(Seq(Seq(X)))
  PROVE  PowerStateChange(FALSE, hosts) = Reverse(PowerStateChange(TRUE, hosts))
<1> DEFINE n == Len(hosts)
           s == [k \in 1 .. n |-> PmNotify(TRUE, hosts[k])]
           b == Reverse(hosts)
<1>1. n \in Nat /\ \A k \in 1 .. n : hosts[k] \in Seq(Seq(X))
  BY LenProperties
<1>2. b \in Seq(Seq(Seq(X))) /\ Len(b) = n /\ \A k \in 1 .. n : b[k] = hosts[n + 1 - k]
  BY ReverseFacts
<1>3. \A k \in 1 .. n : PmNotify(TRUE, hosts[k]) \in Seq(X)
  BY <1>1, PmNotifyMirrors
<1> HIDE DEF n, b
<1>4. s \in Seq(Seq(X)) /\ Len(s) = n
  <2> DEFINE p(k) == PmNotify(TRUE, hosts[k])
  <2>1. \A k \in 1 .. n : p(k) \in Seq(X)
    BY <1>3
  <2> HIDE DEF p
  <2>2. [k \in 1 .. n |-> p(k)] \in Seq(Seq(X)) /\ Len([k \in 1 .. n |-> p(k)]) = n
    BY <1>1, <2>1
  <2>3. QED
    BY <2>2 DEF p
<1>5. PowerStateChange(TRUE, hosts) = FlattenSeq(s)
  BY DEF PowerStateChange, n
<1>6. PowerStateChange(FALSE, hosts) = FlattenSeq(Mirror(s))
  <2>1. \A k \in 1 .. n : n + 1 - k \in 1 .. n
    BY <1>1
  <2>2. ASSUME NEW k \in 1 .. n PROVE PmNotify(FALSE, b[k]) = Reverse(s[n + 1 - k])
    <3>1. s[n + 1 - k] = PmNotify(TRUE, hosts[n + 1 - k]) /\ b[k] = hosts[n + 1 - k]
      BY <1>2, <2>1
    <3>2. QED
      BY <1>1, <2>1, <3>1, PmNotifyMirrors
  <2>3. PowerStateChange(FALSE, hosts) = FlattenSeq([k \in 1 .. Len(b) |-> PmNotify(FALSE, b[k])])
    BY DEF PowerStateChange, b
  <2>4. Mirror(s) = [k \in 1 .. n |-> Reverse(s[n + 1 - k])]
    <3> HIDE DEF s
    <3>1. QED
      BY <1>4 DEF Mirror
  <2>5. [k \in 1 .. Len(b) |-> PmNotify(FALSE, b[k])] = Mirror(s)
    BY <1>2, <2>2, <2>4
  <2>6. QED
    BY <2>3, <2>5
<1>7. QED
  BY <1>4, <1>5, <1>6, FlattenMirror

\* The run's form: the loaded devices of the running process, with two nodes
\* each, and a second host, whatever the process has loaded.
THEOREM SuspendMirrors == Spec => []SuspendMirrorsWake
<1>1. DevmgrInv => SuspendMirrorsWake
  <2> SUFFICES ASSUME DevmgrInv, proc # None PROVE SuspendMirrorsWake
    BY DEF SuspendMirrorsWake
  <2> DEFINE X == (Devs \cup {"other"}) \X Nat
             d == devices[proc]
             nodes(e) == <<<<e, 1>>, <<e, 2>>>>
             host == [k \in 1 .. Len(d) |-> nodes(d[k])]
             other == <<<<<<"other", 1>>>>>>
             hosts == <<host, other>>
  <2>1. d \in Seq(Devs)
    BY DEF DevmgrInv, TypeInv, ProcType
  <2>2. Len(d) \in Nat /\ \A k \in 1 .. Len(d) : d[k] \in Devs
    BY <2>1, LenProperties
  <2>3. \A e \in Devs : nodes(e) \in Seq(X)
    OBVIOUS
  <2>4. host \in Seq(Seq(X))
    <3> HIDE DEF nodes, X, d
    <3>1. QED
      BY <2>2, <2>3
  <2>5. other \in Seq(Seq(X))
    <3>1. <<"other", 1>> \in X
      OBVIOUS
    <3> HIDE DEF X
    <3>2. <<<<"other", 1>>>> \in Seq(X)
      BY <3>1
    <3>3. QED
      BY <3>2
  <2>6. hosts \in Seq(Seq(Seq(X)))
    <3> HIDE DEF X, host, other
    <3>1. QED
      BY <2>4, <2>5
  <2>7. PowerStateChange(FALSE, hosts) = Reverse(PowerStateChange(TRUE, hosts))
    BY <2>6, SleepMirrorsWake
  <2>8. QED
    BY <2>7 DEF SuspendMirrorsWake
<1>2. QED
  BY <1>1, DevmgrInvariant, PTL

=============================================================================
