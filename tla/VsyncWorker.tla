------------------------------ MODULE VsyncWorker ------------------------------
(***************************************************************************)
(* The worker of the display composer that turns vertical blanks of the    *)
(* DRM device, or a 16 ms sleep where there are none, into vsync callbacks *)
(* (composer/vdi_base/src/drm_vsync_worker.cpp).                           *)
(*                                                                         *)
(* The worker thread waits on a condition variable until vsync is enabled  *)
(* or the worker is destroyed.  Service threads create the worker on their *)
(* first call, enable and disable vsync and register the callback.         *)
(* mRunning is written by Init without the mutex, and mCallBack is never   *)
(* protected: both are modelled with every interleaving of their accesses. *)
(***************************************************************************)
EXTENDS Integers

CONSTANTS
  Callers,    \* service threads
  Callbacks,  \* callback objects they register
  NoCallback, \* the empty shared pointer
  MaxLate     \* bound on the history variable late

ASSUME VsyncWorkerAssumption ==
  /\ NoCallback \notin Callbacks
  /\ MaxLate \in Nat /\ MaxLate > 1

VARIABLES
  once,     \* the std::once_flag of GetInstance: "no", "running" or "done"
  fdOk,     \* DrmDevice::GetDrmFd returns a descriptor
  call,     \* where each caller stands
  enable,   \* mEnable
  running,  \* mRunning
  cb,       \* mCallBack
  worker,   \* where the worker thread stands
  dying,    \* the destructor: "no", "notify", "join" or "done"
  crashed,  \* the composer process has crashed
  late      \* history: callbacks begun since a disable returned

workerVars == <<once, fdOk, call, enable, running, cb, worker, dying, crashed, late>>

WorkerPCs == {"none", "lock", "pred", "return", "sleep", "waiting", "pipe", "vblank",
              "call", "incall", "exited"}
CallPCs == {"idle", "init", "running", "notify"}

WorkerInit ==
  /\ once = "no"
  /\ fdOk \in BOOLEAN
  /\ call = [c \in Callers |-> "idle"]
  /\ enable = FALSE /\ running = FALSE
  /\ cb = NoCallback
  /\ worker = "none"
  /\ dying = "no"
  /\ crashed = FALSE
  /\ late = 0

\* The worker holds mMutex from the evaluation of its predicate to its sleep
\* or its return.
MutexFree == worker \notin {"pred", "sleep", "return"}

\* mCondition.notify_one: the worker is the only waiter.
Notify == worker' = IF worker = "waiting" THEN "lock" ELSE worker

-----------------------------------------------------------------------------
(* GetInstance and Init, run by the first caller; the others wait *)

FirstCall(c) ==
  /\ call[c] = "idle" /\ once = "no" /\ dying = "no"
  /\ once' = "running"
  /\ call' = [call EXCEPT ![c] = "init"]
  /\ UNCHANGED <<fdOk, enable, running, cb, worker, dying, crashed, late>>

InitThread(c) ==
  /\ call[c] = "init"
  /\ \/ /\ ~fdOk
        /\ once' = "done"
        /\ call' = [call EXCEPT ![c] = "idle"]
        /\ UNCHANGED worker
     \/ /\ fdOk
        /\ worker' = "lock"
        /\ call' = [call EXCEPT ![c] = "running"]
        /\ UNCHANGED once
  /\ UNCHANGED <<fdOk, enable, running, cb, dying, crashed, late>>

InitRunning(c) ==
  /\ call[c] = "running"
  /\ running' = TRUE
  /\ once' = "done"
  /\ call' = [call EXCEPT ![c] = "idle"]
  /\ UNCHANGED <<fdOk, enable, cb, worker, dying, crashed, late>>

-----------------------------------------------------------------------------
(* EnableVsync and ReqesterVBlankCb *)

EnableVsync(c, e) ==
  /\ call[c] = "idle" /\ once = "done" /\ dying = "no"
  /\ MutexFree
  /\ enable' = e
  /\ call' = [call EXCEPT ![c] = "notify"]
  /\ late' = 0
  /\ UNCHANGED <<once, fdOk, running, cb, worker, dying, crashed>>

EnableNotify(c) ==
  /\ call[c] = "notify"
  /\ Notify
  /\ call' = [call EXCEPT ![c] = "idle"]
  /\ UNCHANGED <<once, fdOk, enable, running, cb, dying, crashed, late>>

\* The old callback object is freed, perhaps while the worker is inside it.
ReqesterVBlankCb(c, k) ==
  /\ call[c] = "idle" /\ once = "done" /\ dying = "no"
  /\ cb' = k
  /\ \/ UNCHANGED crashed
     \/ worker = "incall" /\ cb # NoCallback /\ crashed' = TRUE
  /\ UNCHANGED <<once, fdOk, call, enable, running, worker, dying, late>>

-----------------------------------------------------------------------------
(* The destructor, run when the process exits and no call is in progress *)

\* Mutant of Destroy: mRunning is cleared without the mutex.
DestroyUnlocked ==
  /\ dying = "no" /\ once = "done" /\ \A c \in Callers : call[c] = "idle"
  /\ running' = FALSE
  /\ dying' = "notify"
  /\ UNCHANGED <<once, fdOk, call, enable, cb, worker, crashed, late>>

Destroy ==
  /\ dying = "no" /\ once = "done" /\ \A c \in Callers : call[c] = "idle"
  /\ MutexFree
  /\ running' = FALSE
  /\ dying' = "notify"
  /\ UNCHANGED <<once, fdOk, call, enable, cb, worker, crashed, late>>

DestroyNotify ==
  /\ dying = "notify"
  /\ Notify
  /\ dying' = "join"
  /\ UNCHANGED <<once, fdOk, call, enable, running, cb, crashed, late>>

\* Mutant of DestroyJoin: the thread is detached instead of joined.
DestroyDetach ==
  /\ dying = "join"
  /\ dying' = "done"
  /\ UNCHANGED <<once, fdOk, call, enable, running, cb, worker, crashed, late>>

DestroyJoin ==
  /\ dying = "join"
  /\ worker \in {"none", "exited"}
  /\ dying' = "done"
  /\ UNCHANGED <<once, fdOk, call, enable, running, cb, worker, crashed, late>>

-----------------------------------------------------------------------------
(* WorkThread *)

WorkerStep(from, to) == worker = from /\ worker' = to

Lock ==
  /\ WorkerStep("lock", "pred")
  /\ UNCHANGED <<once, fdOk, call, enable, running, cb, dying, crashed, late>>

\* Mutant of Predicate: vsync once enabled stays enabled.
PredicateIgnoresDisable ==
  /\ WorkerStep("pred", "return")
  /\ UNCHANGED <<once, fdOk, call, enable, running, cb, dying, crashed, late>>

\* mEnable || !mRunning
Predicate ==
  /\ worker = "pred"
  /\ worker' = IF enable \/ ~running THEN "return" ELSE "sleep"
  /\ UNCHANGED <<once, fdOk, call, enable, running, cb, dying, crashed, late>>

\* mRunning is read again for the result; Init may have set it meanwhile.
ReturnRunning ==
  /\ worker = "return"
  /\ worker' = IF running THEN "pipe" ELSE "exited"
  /\ UNCHANGED <<once, fdOk, call, enable, running, cb, dying, crashed, late>>

Sleep ==
  /\ WorkerStep("sleep", "waiting")
  /\ UNCHANGED <<once, fdOk, call, enable, running, cb, dying, crashed, late>>

SpuriousWakeup ==
  /\ WorkerStep("waiting", "lock")
  /\ UNCHANGED <<once, fdOk, call, enable, running, cb, dying, crashed, late>>

\* WaitNextVBlank asks the callback for its pipe before anything else.
GetPipe ==
  /\ WorkerStep("pipe", "vblank")
  /\ crashed' = (cb = NoCallback)
  /\ UNCHANGED <<once, fdOk, call, enable, running, cb, dying, late>>

\* drmWaitVBlank returns, or fails and the worker sleeps for 16 ms.
WaitVBlank ==
  /\ WorkerStep("vblank", "call")
  /\ UNCHANGED <<once, fdOk, call, enable, running, cb, dying, crashed, late>>

Vsync ==
  /\ worker = "call"
  /\ worker' = IF cb = NoCallback THEN "lock" ELSE "incall"
  /\ late' = IF ~enable /\ (\A c \in Callers : call[c] # "notify") /\ late < MaxLate
             THEN late + 1 ELSE late
  /\ UNCHANGED <<once, fdOk, call, enable, running, cb, dying, crashed>>

VsyncReturns ==
  /\ WorkerStep("incall", "lock")
  /\ UNCHANGED <<once, fdOk, call, enable, running, cb, dying, crashed, late>>

WorkThread ==
  \/ Lock \/ Predicate \/ ReturnRunning \/ Sleep \/ GetPipe
  \/ WaitVBlank \/ Vsync \/ VsyncReturns

-----------------------------------------------------------------------------
Finish(c) == InitThread(c) \/ InitRunning(c) \/ EnableNotify(c)

WorkerNext ==
  \/ (crashed \/ dying = "done") /\ UNCHANGED workerVars
  \/ /\ ~crashed
     /\ \/ WorkThread \/ SpuriousWakeup
        \/ Destroy \/ DestroyNotify \/ DestroyJoin
        \/ \E c \in Callers :
             \/ FirstCall(c) \/ Finish(c)
             \/ \E e \in BOOLEAN : EnableVsync(c, e)
             \/ \E k \in Callbacks : ReqesterVBlankCb(c, k)

WorkerSpec == WorkerInit /\ [][WorkerNext]_workerVars

\* Threads run, callbacks return, and drmWaitVBlank returns or fails.
FairSpec ==
  /\ WorkerSpec
  /\ WF_workerVars(~crashed /\ WorkThread)
  /\ WF_workerVars(~crashed /\ (DestroyNotify \/ DestroyJoin))
  /\ \A c \in Callers : WF_workerVars(~crashed /\ Finish(c))

-----------------------------------------------------------------------------
(* Properties *)

\* Every variable keeps its type, and there is no worker without a descriptor.
TypeOK ==
  /\ once \in {"no", "running", "done"} /\ fdOk \in BOOLEAN
  /\ call \in [Callers -> CallPCs]
  /\ enable \in BOOLEAN /\ running \in BOOLEAN
  /\ cb \in Callbacks \cup {NoCallback}
  /\ worker \in WorkerPCs /\ (~fdOk => worker = "none")
  /\ dying \in {"no", "notify", "join", "done"}
  /\ crashed \in BOOLEAN
  /\ late \in 0 .. MaxLate

\* Once EnableVsync(false) has returned, or while vsync was never enabled, at
\* most one vsync is delivered (the predicate is evaluated before every blank).
AtMostOneLate == late <= 1

\* No callback runs, and the worker touches none of its fields, once the
\* destructor has returned (mThread->join in ~DrmVsyncWorker).
QuietAfterDestroy == [][dying = "done" => UNCHANGED worker]_workerVars

\* The destructor ends: its notification cannot be lost between the worker's
\* predicate and its sleep (mRunning is cleared under the mutex).
DestructorEnds == (dying = "join") ~> (dying = "done" \/ crashed)
===============================================================================
