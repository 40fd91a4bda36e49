------------------------------ MODULE ThreadList ------------------------------
(***************************************************************************)
(* The thread list of one process in the patched musl: creation, exit and  *)
(* joining of threads, and the recursive lock that guards the list         *)
(* (src/thread/pthread_create.c, src/thread/__wait.c).                     *)
(*                                                                         *)
(* The lock word __thread_list_lock holds the kernel tid of its owner.  It *)
(* is released in three ways: by __tl_unlock, by the KERNEL when a thread  *)
(* that holds it exits (it is every thread's clear_child_tid address), and *)
(* by a takeover when the tid in the word belongs to no thread of this     *)
(* process - a lock inherited over fork.                                   *)
(*                                                                         *)
(* One step is one access to shared memory or one system call.  Tids are   *)
(* not reused: the kernel hands them out cyclically.                       *)
(***************************************************************************)
EXTENDS Integers, FiniteSets

CONSTANTS
  Threads,           \* kernel tids this process can use
  Main,              \* the thread that survives fork or starts the program
  Foreign,           \* tid of the parent's thread that held the lock at fork
  None,              \* the value 0 of the lock word
  InheritedLocks,    \* lock words the process can start with
  InheritedCounts,   \* values of tl_lock_count it can start with
  InheritedWaiters,  \* values of tl_lock_waiters it can start with
  Attrs,             \* attributes pthread_create is called with
  Joiners,           \* threads that call pthread_join and pthread_detach
  MaxDepth           \* bound on the nesting of __tl_lock by one thread

ASSUME ThreadListAssumption ==
  /\ Main \in Threads
  /\ None \notin Threads /\ Foreign \notin Threads /\ None # Foreign
  /\ InheritedLocks \subseteq {None, Foreign}
  /\ InheritedCounts \subseteq Nat /\ InheritedWaiters \subseteq Nat
  /\ Attrs \subseteq [sched : BOOLEAN, detach : {"joinable", "detached"}]
  /\ Joiners \subseteq Threads
  /\ MaxDepth \in Nat \ {0}

VARIABLES
  lock,       \* __thread_list_lock: None, or the tid of the owner
  count,      \* tl_lock_count: further acquisitions of the owner
  waiters,    \* tl_lock_waiters
  pc,         \* where each thread stands
  val,        \* the lock word each thread read last
  want,       \* what each thread took, or waits for, the lock for
  peer,       \* the thread each thread is creating or joining
  depth,      \* history: __tl_lock calls not yet undone, per thread
  list,       \* the circular list of struct pthread
  minus1,     \* libc.threads_minus_1
  needLocks,  \* libc.need_locks: -1, 0 or 1
  detach,     \* self->detach_state
  control,    \* start_args.control of each thread
  unmapped    \* threads whose stack another thread has unmapped

futex == <<lock, count, waiters>>
lists == <<list, minus1, needLocks>>
life  == <<detach, control, unmapped>>
vars  == <<futex, pc, val, want, peer, depth, lists, life>>

Waiting == {"cas", "probe", "take", "spin", "check", "asleep", "leave"}
Ending  == {"gone", "dead"}
PCs == Waiting \cup Ending \cup
       {"unborn", "start", "control", "failed", "run", "cs", "clone", "sched",
        "reap", "undo", "link", "exiting", "unlink", "announce", "sysexit",
        "unlock", "wake", "joining", "sync", "syncwake", "unmap", "exit0"}

\* Mutant of InGroup: the probe trusts the list, which an exiting thread has left.
InGroupIfListed(t) == t \in list

\* Threads tgkill can reach: the kernel has created them and not yet unhashed.
InGroup(t) == t \in Threads /\ pc[t] \notin {"unborn", "dead"}

Init ==
  /\ lock \in InheritedLocks
  /\ count \in InheritedCounts /\ (lock = None => count = 0)
  /\ waiters \in InheritedWaiters
  /\ pc = [t \in Threads |-> IF t = Main THEN "run" ELSE "unborn"]
  /\ val = [t \in Threads |-> None]
  /\ want = [t \in Threads |-> "cs"]
  /\ peer = [t \in Threads |-> t]
  /\ depth = [t \in Threads |-> 0]
  /\ list = {Main}
  /\ minus1 = 0
  /\ needLocks \in {-1, 0}
  /\ detach = [t \in Threads |-> "joinable"]
  /\ control = [t \in Threads |-> 0]
  /\ unmapped = {}

At(t, l)   == pc[t] = l
Goto(t, l) == pc' = [pc EXCEPT ![t] = l]

\* The local variable val of t is dead.
Forget(t) == val' = [val EXCEPT ![t] = None]

\* futex_wake(&__thread_list_lock, 1), after the program counters became p.
WakeOne(p) ==
  LET sleepers == {s \in Threads : p[s] = "asleep"}
  IN  IF sleepers = {} THEN pc' = p
      ELSE \E s \in sleepers : pc' = [p EXCEPT ![s] = "check"]

-----------------------------------------------------------------------------
(* __tl_lock and the futex wait it uses *)

\* Entry of __tl_lock by t, for the purpose k: the owner only counts.
TlLock(t, k) ==
  /\ want' = [want EXCEPT ![t] = k]
  /\ IF lock = t
     THEN /\ count' = count + 1
          /\ depth' = [depth EXCEPT ![t] = @ + 1]
          /\ Goto(t, k)
     ELSE Goto(t, "cas") /\ UNCHANGED <<count, depth>>
  /\ UNCHANGED <<lock, waiters>>

\* Mutant of Own: the first acquisition is counted as well.
OwnCounted(t) ==
  /\ lock' = t
  /\ count' = count + 1
  /\ depth' = [depth EXCEPT ![t] = @ + 1]
  /\ Goto(t, want[t])
  /\ UNCHANGED waiters

\* The lock word becomes t, and t goes on with what it wanted the lock for.
Own(t) ==
  /\ lock' = t
  /\ depth' = [depth EXCEPT ![t] = @ + 1]
  /\ Goto(t, want[t])
  /\ UNCHANGED <<count, waiters>>

\* a_cas(&__thread_list_lock, 0, tid)
TlLockCas(t) ==
  /\ At(t, "cas")
  /\ \/ lock = None /\ Own(t) /\ UNCHANGED val
     \/ /\ lock # None
        /\ val' = [val EXCEPT ![t] = lock]
        /\ Goto(t, "probe")
        /\ UNCHANGED <<futex, depth>>
  /\ UNCHANGED <<want, peer, lists, life>>

\* Mutant of TlLockProbe: no takeover, as before the patch.
TlLockProbeNever(t) ==
  /\ At(t, "probe")
  /\ Goto(t, "spin")
  /\ UNCHANGED <<futex, val, want, peer, depth, lists, life>>

\* tgkill(getpid(), val, 0): ESRCH means that the owner is not one of us.
TlLockProbe(t) ==
  /\ At(t, "probe")
  /\ Goto(t, IF InGroup(val[t]) THEN "spin" ELSE "take")
  /\ UNCHANGED <<futex, val, want, peer, depth, lists, life>>

\* Mutant of TlLockTakeover: a plain store instead of the compare-and-swap.
TlLockTakeoverBlind(t) ==
  /\ At(t, "take")
  /\ Own(t)
  /\ Forget(t)
  /\ UNCHANGED <<want, peer, lists, life>>

\* a_cas(&__thread_list_lock, val, tid)
TlLockTakeover(t) ==
  /\ At(t, "take")
  /\ \/ lock = val[t] /\ Own(t)
     \/ lock # val[t] /\ Goto(t, "cas") /\ UNCHANGED <<futex, depth>>
  /\ Forget(t)
  /\ UNCHANGED <<want, peer, lists, life>>

AfterWait(t) == IF want[t] = "join" THEN "syncwake" ELSE "cas"

\* __wait spins for a while: it returns at once when the word has changed,
\* and otherwise announces itself in waiters.
WaitSpin(t) ==
  /\ At(t, "spin")
  /\ \/ /\ lock # val[t]
        /\ Goto(t, AfterWait(t)) /\ Forget(t) /\ UNCHANGED waiters
     \/ /\ lock = val[t]
        /\ Goto(t, "check") /\ waiters' = waiters + 1 /\ UNCHANGED val
  /\ UNCHANGED <<lock, count, want, peer, depth, lists, life>>

\* FUTEX_WAIT: the kernel compares the word again before it puts t to sleep.
WaitCheck(t) ==
  /\ At(t, "check")
  /\ Goto(t, IF lock = val[t] THEN "asleep" ELSE "leave")
  /\ UNCHANGED <<futex, val, want, peer, depth, lists, life>>

\* A signal interrupts FUTEX_WAIT.
WaitInterrupted(t) ==
  /\ At(t, "asleep")
  /\ Goto(t, "check")
  /\ UNCHANGED <<futex, val, want, peer, depth, lists, life>>

\* a_dec(waiters)
WaitLeave(t) ==
  /\ At(t, "leave")
  /\ waiters' = waiters - 1
  /\ Goto(t, AfterWait(t)) /\ Forget(t)
  /\ UNCHANGED <<lock, count, want, peer, depth, lists, life>>

-----------------------------------------------------------------------------
(* __tl_unlock *)

AfterUnlock(t) == IF want[t] = "exiting" THEN "exit0" ELSE "run"

\* A nested release only counts down; the last one clears the word.
TlUnlock(t) ==
  /\ pc[t] \in {"cs", "unlock"}
  /\ depth' = [depth EXCEPT ![t] = @ - 1]
  /\ \/ /\ count > 0
        /\ count' = count - 1
        /\ Goto(t, IF At(t, "cs") /\ depth[t] > 1 THEN "cs" ELSE AfterUnlock(t))
        /\ UNCHANGED lock
     \/ /\ count = 0
        /\ lock' = None
        /\ Goto(t, "wake")
        /\ UNCHANGED count
  /\ UNCHANGED <<waiters, val, want, peer, lists, life>>

\* if (tl_lock_waiters) __wake(&__thread_list_lock, 1, 0)
TlWake(t) ==
  /\ At(t, "wake")
  /\ LET p == [pc EXCEPT ![t] = AfterUnlock(t)]
     IN  IF waiters > 0 THEN WakeOne(p) ELSE pc' = p
  /\ UNCHANGED <<futex, val, want, peer, depth, lists, life>>

\* A critical section of __synccall, install_new_tls or pthread_gettid_np.
EnterCritical(t) ==
  /\ pc[t] \in {"run", "cs"} /\ depth[t] < MaxDepth
  /\ TlLock(t, "cs")
  /\ UNCHANGED <<val, peer, lists, life>>

-----------------------------------------------------------------------------
(* pthread_create *)

CreateStart(t) ==
  /\ At(t, "run")
  /\ \E n \in Threads : At(n, "unborn")
  /\ TlLock(t, "clone")
  /\ UNCHANGED <<val, peer, lists, life>>

\* The count goes up before __clone; with explicit scheduling attributes the
\* new thread starts with control 1 and waits for the outcome.
Clone(t) ==
  /\ At(t, "clone")
  /\ minus1' = minus1 + 1
  /\ needLocks' = IF minus1 = 0 THEN 1 ELSE needLocks
  /\ \/ Goto(t, "undo") /\ UNCHANGED <<peer, detach, control>>
     \/ \E n \in Threads, a \in Attrs :
          /\ At(n, "unborn")
          /\ pc' = [pc EXCEPT ![t] = IF a.sched THEN "sched" ELSE "link",
                              ![n] = "start"]
          /\ peer' = [peer EXCEPT ![t] = n]
          /\ control' = [control EXCEPT ![n] = IF a.sched THEN 1 ELSE 0]
          /\ detach' = [detach EXCEPT ![n] = a.detach]
  /\ UNCHANGED <<futex, val, want, depth, list, unmapped>>

\* sched_setscheduler, then a_swap(&args->control, ret ? 3 : 0).
SetScheduler(t) ==
  /\ At(t, "sched")
  /\ \/ /\ control' = [control EXCEPT ![peer[t]] = 0]
        /\ Goto(t, "link")
     \/ /\ control' = [control EXCEPT ![peer[t]] = 3]
        /\ Goto(t, "reap")
  /\ UNCHANGED <<futex, val, want, peer, depth, lists, detach, unmapped>>

\* __wait(&args->control, 0, 3, 0): until the failed thread has exited.  Its
\* stack is unmapped once the list is unlocked; nothing can reach it meanwhile.
WaitFailed(t) ==
  /\ At(t, "reap")
  /\ control[peer[t]] # 3
  /\ Goto(t, "undo")
  /\ unmapped' = unmapped \cup {peer[t]}
  /\ UNCHANGED <<futex, val, want, peer, depth, lists, detach, control>>

Link(t) ==
  /\ At(t, "link")
  /\ list' = list \cup {peer[t]}
  /\ Goto(t, "unlock")
  /\ UNCHANGED <<futex, val, want, peer, depth, minus1, needLocks, life>>

\* Mutant of Undo: need_locks is cleared whatever the number of threads.
UndoAlwaysSingle(t) ==
  /\ At(t, "undo")
  /\ minus1' = minus1 - 1
  /\ needLocks' = 0
  /\ Goto(t, "unlock")
  /\ UNCHANGED <<futex, val, want, peer, depth, list, life>>

Undo(t) ==
  /\ At(t, "undo")
  /\ minus1' = minus1 - 1
  /\ needLocks' = IF minus1 = 1 THEN 0 ELSE needLocks
  /\ Goto(t, "unlock")
  /\ UNCHANGED <<futex, val, want, peer, depth, list, life>>

\* The new thread looks at control: a_cas(&args->control, 1, 2) and wait, or go.
Start(n) ==
  /\ At(n, "start")
  /\ \/ control[n] = 0 /\ Goto(n, "run") /\ UNCHANGED control
     \/ control[n] = 3 /\ Goto(n, "failed") /\ UNCHANGED control
     \/ /\ control[n] = 1
        /\ control' = [control EXCEPT ![n] = 2]
        /\ Goto(n, "control")
  /\ UNCHANGED <<futex, val, want, peer, depth, lists, detach, unmapped>>

StartReleased(n) ==
  /\ At(n, "control")
  /\ control[n] # 2
  /\ Goto(n, IF control[n] = 0 THEN "run" ELSE "failed")
  /\ UNCHANGED <<futex, val, want, peer, depth, lists, life>>

\* set_tid_address(&args->control): the kernel clears control, not the lock.
FailedExit(n) ==
  /\ At(n, "failed")
  /\ control' = [control EXCEPT ![n] = 0]
  /\ Goto(n, "gone")
  /\ UNCHANGED <<futex, val, want, peer, depth, lists, detach, unmapped>>

-----------------------------------------------------------------------------
(* pthread_exit *)

\* a_cas(&self->detach_state, DT_JOINABLE, DT_EXITING), then __tl_lock; a
\* thread may get here without having released the lock.
ExitStart(t) ==
  /\ pc[t] \in {"run", "cs"}
  /\ detach' = [detach EXCEPT ![t] = IF @ = "joinable" THEN "exiting" ELSE @]
  /\ TlLock(t, "exiting")
  /\ UNCHANGED <<val, peer, lists, control, unmapped>>

\* The only thread in the list undoes everything and calls exit(0).
Exiting(t) ==
  /\ At(t, "exiting")
  /\ \/ /\ list = {t}
        /\ detach' = [detach EXCEPT ![t] = IF @ = "exiting" THEN "joinable" ELSE @]
        /\ Goto(t, "unlock")
     \/ list # {t} /\ Goto(t, "unlink") /\ UNCHANGED detach
  /\ UNCHANGED <<futex, val, want, peer, depth, lists, control, unmapped>>

Unlink(t) ==
  /\ At(t, "unlink")
  /\ minus1' = minus1 - 1
  /\ needLocks' = IF minus1 = 1 THEN -1 ELSE needLocks
  /\ list' = list \ {t}
  /\ Goto(t, "announce")
  /\ UNCHANGED <<futex, val, want, peer, depth, life>>

\* Mutant of Announce: the nesting count survives the thread.
AnnounceKeepsCount(t) ==
  /\ At(t, "announce")
  /\ detach' = [detach EXCEPT ![t] = IF @ = "detached" /\ t # Main THEN @ ELSE "exited"]
  /\ depth' = [depth EXCEPT ![t] = 0]
  /\ Goto(t, "sysexit")
  /\ UNCHANGED <<futex, val, want, peer, lists, control, unmapped>>

\* Mutant of Announce: the exiting thread releases the list itself.
AnnounceUnlocks(t) ==
  /\ At(t, "announce")
  /\ detach' = [detach EXCEPT ![t] = IF @ = "detached" /\ t # Main THEN @ ELSE "exited"]
  /\ lock' = None
  /\ count' = 0
  /\ depth' = [depth EXCEPT ![t] = 0]
  /\ Goto(t, "sysexit")
  /\ UNCHANGED <<waiters, val, want, peer, lists, control, unmapped>>

\* a_store(&self->detach_state, DT_EXITED) unless detached; the nesting count
\* of a thread that exits inside the lock is forgotten.
Announce(t) ==
  /\ At(t, "announce")
  /\ detach' = [detach EXCEPT ![t] = IF @ = "detached" /\ t # Main THEN @ ELSE "exited"]
  /\ count' = 0
  /\ depth' = [depth EXCEPT ![t] = 0]
  /\ Goto(t, "sysexit")
  /\ UNCHANGED <<lock, waiters, val, want, peer, lists, control, unmapped>>

\* Mutant of KernelClear: the kernel's wake does not reach the sleepers
\* (a private futex in __wait, a shared one in the kernel).
KernelClearNoWake(t) ==
  /\ At(t, "sysexit")
  /\ lock' = None
  /\ Goto(t, "gone")
  /\ UNCHANGED <<count, waiters, val, want, peer, depth, lists, life>>

\* The kernel stores 0 in the lock word of a thread that exits and wakes one.
KernelClear(t) ==
  /\ At(t, "sysexit")
  /\ lock' = None
  /\ WakeOne([pc EXCEPT ![t] = "gone"])
  /\ UNCHANGED <<count, waiters, val, want, peer, depth, lists, life>>

\* Only later does the kernel unhash the tid.
KernelUnhash(t) ==
  /\ At(t, "gone")
  /\ Goto(t, "dead")
  /\ UNCHANGED <<futex, val, want, peer, depth, lists, life>>

\* LOCK() of the library, run by the only thread left, ends the transition.
SingleAgain(t) ==
  /\ At(t, "run")
  /\ needLocks = -1
  /\ needLocks' = 0
  /\ UNCHANGED <<futex, pc, val, want, peer, depth, list, minus1, life>>

-----------------------------------------------------------------------------
(* pthread_join and pthread_detach, and __tl_sync which joining relies on *)

\* A thread is joined or detached once, by a thread that holds its handle.
Joinable(u) ==
  /\ u \in list \/ detach[u] \in {"exiting", "exited"}
  /\ detach[u] # "detached" /\ u \notin unmapped
  /\ \A s \in Threads : peer[s] = u => ~(want[s] = "join" /\ pc[s] # "run")

\* pthread_detach joins a thread that has begun to exit.
Join(t, u) ==
  /\ t \in Joiners /\ t # u
  /\ At(t, "run") /\ Joinable(u)
  /\ want' = [want EXCEPT ![t] = "join"]
  /\ peer' = [peer EXCEPT ![t] = u]
  /\ Goto(t, "joining")
  /\ UNCHANGED <<futex, val, depth, lists, life>>

Detach(t, u) ==
  /\ t \in Joiners
  /\ At(t, "run") /\ Joinable(u) /\ detach[u] = "joinable"
  /\ detach' = [detach EXCEPT ![u] = "detached"]
  /\ UNCHANGED <<futex, pc, val, want, peer, depth, lists, control, unmapped>>

JoinWakes(t) ==
  /\ At(t, "joining")
  /\ detach[peer[t]] = "exited"
  /\ Goto(t, "sync")
  /\ UNCHANGED <<futex, val, want, peer, depth, lists, life>>

\* Mutant of TlSync: DT_EXITED is taken for the end of the thread.
TlSyncSkipped(t) ==
  /\ At(t, "sync")
  /\ Goto(t, "unmap")
  /\ UNCHANGED <<futex, val, want, peer, depth, lists, life>>

\* __tl_sync reads the word: free means that the exiting thread is gone.
TlSync(t) ==
  /\ At(t, "sync")
  /\ val' = [val EXCEPT ![t] = lock]
  /\ Goto(t, IF lock = None THEN "unmap" ELSE "spin")
  /\ UNCHANGED <<futex, want, peer, depth, lists, life>>

\* Mutant of TlSyncWake: the wake-up it consumed is lost.
TlSyncWakeDropped(t) ==
  /\ At(t, "syncwake")
  /\ Goto(t, "unmap")
  /\ UNCHANGED <<futex, val, want, peer, depth, lists, life>>

\* The wake-up that __tl_sync may have consumed is passed on.
TlSyncWake(t) ==
  /\ At(t, "syncwake")
  /\ LET p == [pc EXCEPT ![t] = "unmap"]
     IN  IF waiters > 0 THEN WakeOne(p) ELSE pc' = p
  /\ UNCHANGED <<futex, val, want, peer, depth, lists, life>>

JoinUnmap(t) ==
  /\ At(t, "unmap")
  /\ unmapped' = unmapped \cup {peer[t]}
  /\ Goto(t, "run")
  /\ UNCHANGED <<futex, val, want, peer, depth, lists, detach, control>>

-----------------------------------------------------------------------------
\* After exit(0) by the last thread of the list nothing is left to do.
Terminated == (\E t \in Threads : At(t, "exit0")) /\ UNCHANGED vars

\* What a thread does without being asked to: all that fairness is about.
Proceed(t) ==
  \/ TlLockCas(t) \/ TlLockProbe(t) \/ TlLockTakeover(t)
  \/ WaitSpin(t) \/ WaitCheck(t) \/ WaitLeave(t) \/ TlUnlock(t) \/ TlWake(t)
  \/ Clone(t) \/ SetScheduler(t) \/ WaitFailed(t) \/ Link(t) \/ Undo(t)
  \/ Start(t) \/ StartReleased(t) \/ FailedExit(t)
  \/ Exiting(t) \/ Unlink(t) \/ Announce(t) \/ KernelClear(t) \/ KernelUnhash(t)
  \/ JoinWakes(t) \/ TlSync(t) \/ TlSyncWake(t) \/ JoinUnmap(t)

Call(t) ==
  \/ EnterCritical(t) \/ CreateStart(t) \/ ExitStart(t) \/ SingleAgain(t)
  \/ WaitInterrupted(t)
  \/ \E u \in Threads : Join(t, u) \/ Detach(t, u)

Next == Terminated \/ \E t \in Threads : Proceed(t) \/ Call(t)

Spec == Init /\ [][Next]_vars

\* The scheduler runs every thread that can run; what the program calls, and
\* when, is up to the program.
FairSpec == Spec /\ \A t \in Threads : WF_vars(Proceed(t))

-----------------------------------------------------------------------------
(* Properties *)

\* Every variable keeps the range its C type and its use give it.
TypeOK ==
  /\ lock \in Threads \cup {None, Foreign}
  /\ count \in Nat
  /\ waiters \in Int
  /\ pc \in [Threads -> PCs]
  /\ val \in [Threads -> Threads \cup {None, Foreign}]
  /\ want \in [Threads -> {"cs", "clone", "exiting", "join"}]
  /\ peer \in [Threads -> Threads]
  /\ depth \in [Threads -> Int]
  /\ list \subseteq Threads
  /\ minus1 \in Int
  /\ needLocks \in {-1, 0, 1}
  /\ detach \in [Threads -> {"joinable", "detached", "exiting", "exited"}]
  /\ control \in [Threads -> 0 .. 3]
  /\ unmapped \subseteq Threads

\* Threads that have acquired the list lock and not yet given it back: from
\* the return of __tl_lock to the clearing of the word, by themselves or by
\* the kernel on their behalf.
Inside(t) ==
  pc[t] \in {"cs", "clone", "sched", "reap", "undo", "link", "exiting",
             "unlink", "announce", "sysexit", "unlock"}

\* The lock excludes: whoever is inside is the thread named by the lock word,
\* whatever takeovers, exits and nested acquisitions came before
\* (__tl_lock's CAS loop, its ESRCH takeover and the kernel's clearing).
MutualExclusion == \A t \in Threads : Inside(t) => lock = t

\* tl_lock_count counts the nested acquisitions of the owner and of nobody
\* else, so that the last __tl_unlock is the one that clears the word
\* (pthread_create.c:188-193, 211-217 and the reset of 395-401).
CountIsNesting ==
  /\ \A t \in Threads : Inside(t) /\ pc[t] # "sysexit" => depth[t] = count + 1
  /\ (\A t \in Threads : ~Inside(t) /\ pc[t] # "exit0") => count = 0

\* A thread back in the program's code with every __tl_lock undone does not
\* own the lock: __tl_unlock gives back what __tl_lock took, a takeover included.
NothingHeldAtRest ==
  \A t \in Threads : pc[t] = "run" /\ depth[t] = 0 => lock # t

\* Whoever may look at the list sees exactly the threads the kernel can
\* signal and that still run user code ("This change will not be visible until
\* the lock is released, which only happens after SYS_exit"), and the counter
\* that decides between single- and multi-threaded paths agrees with it.
ListIsExact ==
  lock = None \/ (\E t \in Threads : At(t, "cs")) =>
    /\ list = {t \in Threads : pc[t] \notin {"unborn", "gone", "dead"}}
    /\ minus1 = Cardinality(list) - 1

\* Threads that may run LOCK(): alive, past start and before the unlinking.
RunsLOCK(t) ==
  pc[t] \notin {"unborn", "start", "control", "failed", "announce", "sysexit",
                "gone", "dead"}

\* LOCK() is never skipped while two threads can be inside it
\* (libc.need_locks in pthread_create, its failure path and pthread_exit).
NeedLocksIsSound ==
  needLocks = 0 =>
    \A s, t \in Threads : RunsLOCK(s) /\ RunsLOCK(t) => s = t

\* No stack is unmapped while its thread can still run or the kernel still has
\* to clear the word on its behalf (__tl_sync after DT_EXITED; the wait for
\* control 3 of a thread whose scheduling attributes were refused).
UnmappedIsGone == \A t \in unmapped : pc[t] \in Ending

\* The lock of the abstract specification: a word inherited from the parent is
\* held by nobody.
Abstract == INSTANCE ListLock WITH
              Free <- None,
              holder <- IF lock \in Threads THEN lock ELSE None

\* With its three ways of release, takeovers and nesting, the lock is still a
\* lock: no step hands it from one thread to another, and a thread that dies
\* with it gives it up (__tl_lock, __tl_unlock, __pthread_exit).
ImplementsListLock == Abstract!Spec

\* While the lock is free and a thread sleeps on it, another thread is on its
\* way to take the lock or to wake a sleeper: single wake-ups are enough although
\* __tl_sync and exiting threads consume and produce them too
\* (__tl_unlock, __tl_sync and the kernel's wake at exit).
WakeupIsPending ==
  lock = None /\ (\E t \in Threads : At(t, "asleep")) =>
    \E t \in Threads : pc[t] \in (Waiting \ {"asleep"}) \cup {"wake", "syncwake"}

\* A lock inherited from the parent does not block the process for ever.
InheritedIsTakenOver ==
  \A t \in Threads : (lock = Foreign /\ At(t, "cas")) ~> (lock # Foreign)
===============================================================================
