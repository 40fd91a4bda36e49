--------------------------- MODULE SingletonProofs ---------------------------
(***************************************************************************)
(* Proofs about the two objects that racing threads construct once:        *)
(* the vsync worker (VsyncWorker: WorkerInit, WorkerNext, WorkerSpec), for *)
(* every set of service threads and callbacks, and the table of preset     *)
(* types (TypeDescriptors: Init, Next, Spec), for every set of threads.    *)
(*                                                                         *)
(* OnceInv: GetInstance constructs the worker once, and nobody is in a     *)
(* call when the destructor has begun.  LateInv: a vsync that comes after  *)
(* a disable is the last one, because the worker has to pass its predicate *)
(* again and only the destructor, which ends it, lets it through.          *)
(* GuardInv: who is in the table's constructor holds the guard of its      *)
(* static local, and who was handed the table finds it released, and whole.*)
(***************************************************************************)
EXTENDS VsyncWorker, TypeDescriptors, TLAPS

OnceInv ==
  /\ \A c \in Callers : call[c] \in {"init", "running"} => once = "running"
  /\ \A c, d \in Callers :
       call[c] \in {"init", "running"} /\ call[d] \in {"init", "running"} => c = d
  /\ once = "no" => worker = "none" /\ ~running
  /\ dying # "no" => once = "done" /\ ~running /\ \A c \in Callers : call[c] = "idle"
  /\ dying = "done" => worker \in {"none", "exited"}
  /\ worker \in {"pipe", "vblank", "call", "incall"} => running \/ dying # "no"

LateInv ==
  late > 0 =>
    /\ late = 1 /\ ~enable
    /\ running \/ dying # "no"
    /\ worker \notin {"pipe", "vblank", "call"}
    /\ worker = "return" => ~running

WorkerInv == TypeOK /\ OnceInv /\ LateInv

-----------------------------------------------------------------------------
\* Every step keeps the types.
LEMMA TypeNext == TypeOK /\ [WorkerNext]_workerVars => TypeOK'
<1> SUFFICES ASSUME TypeOK, [WorkerNext]_workerVars PROVE TypeOK'
  OBVIOUS
<1> USE VsyncWorkerAssumption DEF TypeOK, CallPCs, WorkerPCs
<1>1. CASE WorkThread
  <2>1. CASE Lock
    BY <2>1 DEF Lock, WorkerStep
  <2>2. CASE Predicate
    BY <2>2 DEF Predicate
  <2>3. CASE ReturnRunning
    BY <2>3 DEF ReturnRunning
  <2>4. CASE Sleep
    BY <2>4 DEF Sleep, WorkerStep
  <2>5. CASE GetPipe
    BY <2>5 DEF GetPipe, WorkerStep
  <2>6. CASE WaitVBlank
    BY <2>6 DEF WaitVBlank, WorkerStep
  <2>7. CASE Vsync
    BY <2>7 DEF Vsync
  <2>8. CASE VsyncReturns
    BY <2>8 DEF VsyncReturns, WorkerStep
  <2>9. QED
    BY <1>1, <2>1, <2>2, <2>3, <2>4, <2>5, <2>6, <2>7, <2>8 DEF WorkThread
<1>2. CASE Destroy
  BY <1>2 DEF Destroy, MutexFree
<1>3. CASE DestroyNotify
  BY <1>3 DEF DestroyNotify, Notify
<1>4. CASE DestroyJoin
  BY <1>4 DEF DestroyJoin
<1>5. CASE SpuriousWakeup
  BY <1>5 DEF SpuriousWakeup, WorkerStep
<1>6. ASSUME NEW c \in Callers, FirstCall(c) \/ Finish(c) PROVE TypeOK'
  <2>1. CASE FirstCall(c)
    BY <2>1 DEF FirstCall
  <2>2. CASE InitThread(c)
    BY <2>2 DEF InitThread
  <2>3. CASE InitRunning(c)
    BY <2>3 DEF InitRunning
  <2>4. CASE EnableNotify(c)
    BY <2>4 DEF EnableNotify, Notify
  <2>5. QED
    BY <1>6, <2>1, <2>2, <2>3, <2>4 DEF Finish
<1>7. ASSUME NEW c \in Callers, NEW e \in BOOLEAN, EnableVsync(c, e) PROVE TypeOK'
  BY <1>7 DEF EnableVsync, MutexFree
<1>8. ASSUME NEW c \in Callers, NEW k \in Callbacks, ReqesterVBlankCb(c, k)
      PROVE  TypeOK'
  BY <1>8 DEF ReqesterVBlankCb
<1>9. CASE UNCHANGED workerVars
  BY <1>9 DEF workerVars
<1>10. QED
  BY <1>1, <1>2, <1>3, <1>4, <1>5, <1>6, <1>7, <1>8, <1>9 DEF WorkerNext

\* The worker is made once and ended once.
LEMMA OnceNext == TypeOK /\ OnceInv /\ [WorkerNext]_workerVars => OnceInv'
<1> SUFFICES ASSUME TypeOK, OnceInv, [WorkerNext]_workerVars PROVE OnceInv'
  OBVIOUS
<1> USE VsyncWorkerAssumption DEF TypeOK, OnceInv, CallPCs, WorkerPCs
<1>1. CASE WorkThread
  <2>1. CASE Lock
    BY <2>1 DEF Lock, WorkerStep
  <2>2. CASE Predicate
    BY <2>2 DEF Predicate
  <2>3. CASE ReturnRunning
    BY <2>3 DEF ReturnRunning
  <2>4. CASE Sleep
    BY <2>4 DEF Sleep, WorkerStep
  <2>5. CASE GetPipe
    BY <2>5 DEF GetPipe, WorkerStep
  <2>6. CASE WaitVBlank
    BY <2>6 DEF WaitVBlank, WorkerStep
  <2>7. CASE Vsync
    BY <2>7 DEF Vsync
  <2>8. CASE VsyncReturns
    BY <2>8 DEF VsyncReturns, WorkerStep
  <2>9. QED
    BY <1>1, <2>1, <2>2, <2>3, <2>4, <2>5, <2>6, <2>7, <2>8 DEF WorkThread
<1>2. CASE Destroy
  BY <1>2 DEF Destroy, MutexFree
<1>3. CASE DestroyNotify
  BY <1>3 DEF DestroyNotify, Notify
<1>4. CASE DestroyJoin
  BY <1>4 DEF DestroyJoin
<1>5. CASE SpuriousWakeup
  BY <1>5 DEF SpuriousWakeup, WorkerStep
<1>6. ASSUME NEW c \in Callers, FirstCall(c) \/ Finish(c) PROVE OnceInv'
  <2>1. CASE FirstCall(c)
    BY <2>1 DEF FirstCall
  <2>2. CASE InitThread(c)
    BY <2>2 DEF InitThread
  <2>3. CASE InitRunning(c)
    BY <2>3 DEF InitRunning
  <2>4. CASE EnableNotify(c)
    BY <2>4 DEF EnableNotify, Notify
  <2>5. QED
    BY <1>6, <2>1, <2>2, <2>3, <2>4 DEF Finish
<1>7. ASSUME NEW c \in Callers, NEW e \in BOOLEAN, EnableVsync(c, e) PROVE OnceInv'
  BY <1>7 DEF EnableVsync, MutexFree
<1>8. ASSUME NEW c \in Callers, NEW k \in Callbacks, ReqesterVBlankCb(c, k)
      PROVE  OnceInv'
  BY <1>8 DEF ReqesterVBlankCb
<1>9. CASE UNCHANGED workerVars
  BY <1>9 DEF workerVars
<1>10. QED
  BY <1>1, <1>2, <1>3, <1>4, <1>5, <1>6, <1>7, <1>8, <1>9 DEF WorkerNext

\* After a late vsync the worker does not get past its predicate alive.
LEMMA LateNext == TypeOK /\ OnceInv /\ LateInv /\ [WorkerNext]_workerVars => LateInv'
<1> SUFFICES ASSUME TypeOK, OnceInv, LateInv, [WorkerNext]_workerVars PROVE LateInv'
  OBVIOUS
<1> USE VsyncWorkerAssumption DEF TypeOK, OnceInv, LateInv, CallPCs,
      WorkerPCs
<1>1. CASE WorkThread
  <2>1. CASE Lock
    BY <2>1 DEF Lock, WorkerStep
  <2>2. CASE Predicate
    BY <2>2 DEF Predicate
  <2>3. CASE ReturnRunning
    BY <2>3 DEF ReturnRunning
  <2>4. CASE Sleep
    BY <2>4 DEF Sleep, WorkerStep
  <2>5. CASE GetPipe
    BY <2>5 DEF GetPipe, WorkerStep
  <2>6. CASE WaitVBlank
    BY <2>6 DEF WaitVBlank, WorkerStep
  <2>7. CASE Vsync
    BY <2>7 DEF Vsync
  <2>8. CASE VsyncReturns
    BY <2>8 DEF VsyncReturns, WorkerStep
  <2>9. QED
    BY <1>1, <2>1, <2>2, <2>3, <2>4, <2>5, <2>6, <2>7, <2>8 DEF WorkThread
<1>2. CASE Destroy
  BY <1>2 DEF Destroy, MutexFree
<1>3. CASE DestroyNotify
  BY <1>3 DEF DestroyNotify, Notify
<1>4. CASE DestroyJoin
  BY <1>4 DEF DestroyJoin
<1>5. CASE SpuriousWakeup
  BY <1>5 DEF SpuriousWakeup, WorkerStep
<1>6. ASSUME NEW c \in Callers, FirstCall(c) \/ Finish(c) PROVE LateInv'
  <2>1. CASE FirstCall(c)
    BY <2>1 DEF FirstCall
  <2>2. CASE InitThread(c)
    BY <2>2 DEF InitThread
  <2>3. CASE InitRunning(c)
    BY <2>3 DEF InitRunning
  <2>4. CASE EnableNotify(c)
    BY <2>4 DEF EnableNotify, Notify
  <2>5. QED
    BY <1>6, <2>1, <2>2, <2>3, <2>4 DEF Finish
<1>7. ASSUME NEW c \in Callers, NEW e \in BOOLEAN, EnableVsync(c, e) PROVE LateInv'
  BY <1>7 DEF EnableVsync, MutexFree
<1>8. ASSUME NEW c \in Callers, NEW k \in Callbacks, ReqesterVBlankCb(c, k)
      PROVE  LateInv'
  BY <1>8 DEF ReqesterVBlankCb
<1>9. CASE UNCHANGED workerVars
  BY <1>9 DEF workerVars
<1>10. QED
  BY <1>1, <1>2, <1>3, <1>4, <1>5, <1>6, <1>7, <1>8, <1>9 DEF WorkerNext

-----------------------------------------------------------------------------
\* The invariant holds in every reachable state.
THEOREM WorkerInvariant == WorkerSpec => []WorkerInv
<1>1. WorkerInit => WorkerInv
  <2>1. WorkerInit => TypeOK
    <3>1. 0 \in 0 .. MaxLate
      BY VsyncWorkerAssumption
    <3>2. WorkerInit => call \in [Callers -> CallPCs]
      BY DEF WorkerInit, CallPCs
    <3>3. QED
      BY <3>1, <3>2, Zenon DEF WorkerInit, TypeOK, WorkerPCs
  <2>2. WorkerInit => OnceInv /\ LateInv
    BY DEF WorkerInit, OnceInv, LateInv
  <2>3. QED
    BY <2>1, <2>2 DEF WorkerInv
<1>2. WorkerInv /\ [WorkerNext]_workerVars => WorkerInv'
  BY TypeNext, OnceNext, LateNext DEF WorkerInv
<1>3. QED
  BY <1>1, <1>2, PTL DEF WorkerSpec

\* Every variable keeps its type (TypeOK).
THEOREM WorkerTypes == WorkerSpec => []TypeOK
<1>1. WorkerInv => TypeOK
  BY DEF WorkerInv
<1>2. QED
  BY <1>1, WorkerInvariant, PTL

\* A disable takes effect after one vsync at most (WaitSignalAndCheckRuning).
THEOREM DisableWorks == WorkerSpec => []AtMostOneLate
<1>1. WorkerInv => AtMostOneLate
  BY VsyncWorkerAssumption DEF WorkerInv, TypeOK, LateInv, AtMostOneLate
<1>2. QED
  BY <1>1, WorkerInvariant, PTL

\* Nothing of the worker moves after its destructor has returned.
THEOREM DestroyIsFinal == WorkerSpec => QuietAfterDestroy
<1> DEFINE Quiet == dying = "done" => UNCHANGED worker
<1>1. WorkerInv /\ [WorkerNext]_workerVars => [Quiet]_workerVars
  <2> SUFFICES ASSUME WorkerInv, [WorkerNext]_workerVars, dying = "done" PROVE UNCHANGED worker
    OBVIOUS
  <2> USE DEF WorkerInv, OnceInv
  <2>1. CASE WorkThread
    BY <2>1 DEF WorkThread, Lock, Predicate, ReturnRunning, Sleep, GetPipe,
       WaitVBlank, Vsync, VsyncReturns, WorkerStep
  <2>2. CASE SpuriousWakeup \/ Destroy \/ DestroyNotify \/ DestroyJoin
    BY <2>2 DEF SpuriousWakeup, WorkerStep, Destroy, DestroyNotify, DestroyJoin
  <2>3. ASSUME NEW c \in Callers, FirstCall(c) \/ Finish(c) PROVE UNCHANGED worker
    BY <2>3 DEF FirstCall, Finish, InitThread, InitRunning, EnableNotify
  <2>4. ASSUME NEW c \in Callers, NEW e \in BOOLEAN, EnableVsync(c, e)
        PROVE  UNCHANGED worker
    BY <2>4 DEF EnableVsync
  <2>5. ASSUME NEW c \in Callers, NEW k \in Callbacks, ReqesterVBlankCb(c, k)
        PROVE  UNCHANGED worker
    BY <2>5 DEF ReqesterVBlankCb
  <2>6. QED
    BY <2>1, <2>2, <2>3, <2>4, <2>5 DEF WorkerNext, workerVars
<1>2. QED
  BY <1>1, WorkerInvariant, PTL DEF WorkerSpec, QuietAfterDestroy

-----------------------------------------------------------------------------
\* The table of preset types.
GuardInv ==
  /\ guard \in Threads \cup {None, "done"} /\ pc \in [Threads -> {"call", "init", "return", "walk"}]
  /\ \A t \in Threads : pc[t] = "init" => guard = t
  /\ \A t \in Threads : pc[t] \in {"return", "walk"} => guard = "done"
  /\ guard = "done" => inserted = Whole

\* Every thread that is past GetInstance has the finished table, though only the
\* first thread to call builds it (InitDescriptors) and the others may call at
\* any moment of that; for any number of threads.
THEOREM TableInvariant == Spec => []GuardInv
<1>1. Init => GuardInv
  BY DEF Init, GuardInv, None
<1>2. GuardInv /\ [Next]_vars => GuardInv'
  <2> SUFFICES ASSUME GuardInv, [Next]_vars PROVE GuardInv'
    OBVIOUS
  <2>1. CASE UNCHANGED vars
    BY <2>1 DEF GuardInv, vars
  <2>2. ASSUME NEW t \in Threads, Step(t) \/ Lookup(t) PROVE GuardInv'
    <3> USE ThreadsAssumption DEF GuardInv, Goto, None
    <3>1. CASE GetInstanceFirst(t)
      BY <3>1 DEF GetInstanceFirst
    <3>2. CASE GetInstance(t)
      BY <3>2 DEF GetInstance
    <3>3. CASE InitDescriptors(t)
      BY <3>3 DEF InitDescriptors
    <3>4. CASE Constructed(t)
      BY <3>4 DEF Constructed
    <3>5. CASE Climb(t)
      BY <3>5 DEF Climb
    <3>6. CASE Arrive(t)
      BY <3>6 DEF Arrive
    <3>7. CASE Lookup(t)
      BY <3>7 DEF Lookup
    <3>8. QED
      BY <2>2, <3>1, <3>2, <3>3, <3>4, <3>5, <3>6, <3>7 DEF Step
  <2>3. QED
    BY <2>1, <2>2 DEF Next
<1>3. QED
  BY <1>1, <1>2, PTL DEF Spec

\* If the lists of the source make up a complete table (470 rows, no type twice,
\* every parent present: a fact about these lists that TLC evaluates in its run),
\* then every thread that GetPresetTypes hands the table sees a complete one.
THEOREM ReadersSeeWholeTable ==
  ASSUME Complete[Whole]
  PROVE  Spec => []ReaderSeesWholeTable
<1>1. GuardInv => ReaderSeesWholeTable
  BY DEF GuardInv, ReaderSeesWholeTable
<1>2. QED
  BY <1>1, TableInvariant, PTL
=============================================================================
