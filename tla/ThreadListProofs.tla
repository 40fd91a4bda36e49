--------------------------- MODULE ThreadListProofs ---------------------------
(***************************************************************************)
(* Proofs about ThreadList, for every set of tids, every inherited lock    *)
(* word, every set of thread attributes and every bound on nesting.        *)
(*                                                                         *)
(* Inductive invariants, each proved from the ones before it:              *)
(*   TypeInv    the types, and what a thread at each location wants;       *)
(*   HolderInv  who is inside owns the word, and a takeover starts from a  *)
(*              tid that can never enter again;                            *)
(*   JoinInv    how far the thread another one waits for has got;          *)
(*   MemberInv, CountInv, SingleInv                                        *)
(*              who is in the list, its count, and need_locks;             *)
(*   WaitersInv, WakeInv                                                   *)
(*              who is counted as a waiter, and who will wake it;          *)
(* and NestInv, which holds when no nesting count is inherited.            *)
(***************************************************************************)
EXTENDS ThreadList, FiniteSetTheorems, TLAPS

WantInv ==
  \A t \in Threads :
    /\ pc[t] \in {"cas", "probe", "take"} => want[t] # "join"
    /\ pc[t] = "cs" => want[t] = "cs"
    /\ pc[t] \in {"clone", "sched", "reap", "undo", "link"} => want[t] = "clone"
    /\ pc[t] \in {"exiting", "unlink", "announce"} => want[t] = "exiting"
    /\ pc[t] = "unlock" => want[t] \in {"clone", "exiting"}
    /\ pc[t] \in {"joining", "sync", "syncwake", "unmap"} => want[t] = "join"

TypeInv == TypeOK /\ WantInv

\* A tid that has been seen in the lock word belongs to a thread that was
\* created; one found absent from the thread group stays absent.
HolderInv ==
  /\ MutualExclusion
  /\ lock \in Threads =>
       pc[lock] \notin {"unborn", "start", "control", "failed", "gone", "dead"}
  /\ \A t \in Threads :
       /\ val[t] \in Threads => pc[val[t]] # "unborn"
       /\ pc[t] = "take" => ~InGroup(val[t])

\* Only a thread in its last kernel steps has announced DT_EXITED, and a
\* joiner that waits waits for the word to leave that thread.
JoinInv ==
  /\ UnmappedIsGone
  /\ \A u \in Threads : detach[u] = "exited" => pc[u] \in {"sysexit"} \cup Ending
  /\ \A t \in Threads :
       /\ pc[t] = "sync" => detach[peer[t]] = "exited"
       /\ pc[t] \in {"spin", "check", "asleep"} /\ want[t] = "join" =>
            /\ detach[peer[t]] = "exited"
            /\ pc[peer[t]] = "sysexit" => val[t] = peer[t]
       /\ pc[t] = "leave" /\ want[t] = "join" => pc[peer[t]] \in Ending
       /\ pc[t] \in {"syncwake", "unmap"} => pc[peer[t]] \in Ending
       /\ pc[t] = "sched" =>
            \/ pc[peer[t]] = "start" /\ control[peer[t]] = 1
            \/ pc[peer[t]] = "control" /\ control[peer[t]] = 2
       /\ pc[t] = "reap" =>
            \/ pc[peer[t]] \in {"start", "control", "failed"} /\ control[peer[t]] = 3
            \/ pc[peer[t]] \in Ending /\ control[peer[t]] = 0

\* What any step may do to the lock word.
LockStep ==
  \/ lock' = lock
  \/ lock \notin Threads /\ lock' \in Threads
  \/ lock \in Threads /\ lock' = None

Creating(t) ==
  \/ pc[t] \in {"clone", "sched", "reap", "undo", "link"}
  \/ pc[t] = "unlock" /\ want[t] = "clone"

NestInv ==
  /\ lock \notin Threads => count = 0
  /\ lock \in Threads =>
       /\ Inside(lock) \/ pc[lock] = "exit0"
       /\ pc[lock] # "sysexit" => depth[lock] = count + 1
       /\ pc[lock] = "sysexit" => depth[lock] = 0 /\ count = 0
  /\ \A t \in Threads :
       /\ t # lock => depth[t] = 0
       /\ Creating(t) => count = 0

\* The thread n is being created by the owner of the lock: it was cloned and is
\* not in the list yet, or never will be.
Fresh(n) ==
  lock \in Threads /\ pc[lock] \in {"sched", "link", "reap"} /\ peer[lock] = n

\* A creation that libc.threads_minus_1 counts and the list does not.
Pending == lock \in Threads /\ pc[lock] \in {"sched", "reap", "link", "undo"}

\* The list holds the threads that run, but for the one being created and those
\* on their way out; nobody leaves it empty.
MemberInv ==
  /\ \A t \in list :
       /\ pc[t] \notin {"unborn", "failed", "announce", "sysexit", "gone", "dead"}
       /\ ~Fresh(t)
  /\ \A t \in Threads \ list :
       pc[t] \in {"unborn", "announce", "sysexit", "gone", "dead"} \/ Fresh(t)
  /\ \A t \in Threads :
       /\ Fresh(t) => pc[t] # "unborn" /\ t # lock
       /\ Fresh(t) /\ pc[lock] = "link" => control[t] = 0 /\ pc[t] \notin {"failed"} \cup Ending
       /\ pc[t] = "start" /\ control[t] = 3 => Fresh(t)
       /\ pc[t] = "control" /\ control[t] \notin {0, 2} => Fresh(t)
       /\ pc[t] = "unlink" => list # {t}

\* libc.threads_minus_1 counts the list, but for a creation under way.
CountInv ==
  IsFiniteSet(list) /\ minus1 = Cardinality(list) - (IF Pending THEN 0 ELSE 1)

\* libc.need_locks is lowered only when one thread is left.
SingleInv == needLocks # 1 => minus1 = 0

\* Somebody else is in the list when a creation fails or a thread leaves.
OthersAreCounted ==
  Pending \/ (\E t \in Threads : pc[t] = "unlink") => minus1 >= 1

\* What any step may do to the list and to its count.
ListStep ==
  \/ UNCHANGED <<list, minus1>> /\ (Pending' <=> Pending)
  \/ ~Pending /\ Pending' /\ UNCHANGED list /\ minus1' = minus1 + 1
  \/ Pending /\ ~Pending' /\ UNCHANGED list /\ minus1' = minus1 - 1
  \/ /\ Pending /\ ~Pending' /\ UNCHANGED minus1
     /\ \E n \in Threads \ list : list' = list \cup {n}
  \/ /\ ~Pending /\ ~Pending' /\ minus1' = minus1 - 1
     /\ \E n \in list : list' = list \ {n}

\* The threads counted in tl_lock_waiters, which may also count threads of the
\* parent.
Waiters == {t \in Threads : pc[t] \in {"check", "asleep", "leave"}}

WaitersInv == IsFiniteSet(Waiters) /\ waiters >= Cardinality(Waiters)

\* Whoever frees the lock sees that somebody sleeps.
AsleepIsCounted == (\E t \in Threads : pc[t] = "asleep") => waiters > 0

\* What any step may do to the number of waiters.
WaitersStep ==
  \/ UNCHANGED <<Waiters, waiters>>
  \/ \E t \in Threads \ Waiters : Waiters' = Waiters \cup {t} /\ waiters' = waiters + 1
  \/ \E t \in Waiters : Waiters' = Waiters \ {t} /\ waiters' = waiters - 1

\* A thread waits for the word to change from something that is not free, so
\* it cannot fall asleep on a free lock; who leaves the lock free wakes one.
WakeInv ==
  /\ \A t \in Threads :
       pc[t] \in {"probe", "take", "spin", "check", "asleep"} => val[t] # None
  /\ WakeupIsPending

-----------------------------------------------------------------------------
\* Types and purposes are preserved by every step.
LEMMA TypeNext ==
  TypeInv /\ [Next]_vars => TypeInv'
<1> SUFFICES ASSUME TypeInv, [Next]_vars PROVE TypeInv'
  OBVIOUS
<1> USE ThreadListAssumption DEF At, Goto, futex, lists, life, TypeInv, TypeOK, WantInv,
    PCs, Waiting, Ending
<1>1. CASE Terminated \/ UNCHANGED vars
  BY <1>1 DEF Terminated, vars
<1>2. ASSUME NEW t \in Threads, Proceed(t) PROVE TypeInv'
  <2>1. CASE TlLockCas(t)
    BY <2>1 DEF TlLockCas, Own
  <2>2. CASE TlLockProbe(t)
    BY <2>2 DEF TlLockProbe
  <2>3. CASE TlLockTakeover(t)
    BY <2>3 DEF TlLockTakeover, Own, Forget
  <2>4. CASE WaitSpin(t)
    BY <2>4 DEF WaitSpin, AfterWait, Forget
  <2>5. CASE WaitCheck(t)
    BY <2>5 DEF WaitCheck
  <2>6. CASE WaitLeave(t)
    BY <2>6 DEF WaitLeave, AfterWait, Forget
  <2>7. CASE TlUnlock(t)
    BY <2>7 DEF TlUnlock, AfterUnlock
  <2>8. CASE TlWake(t)
    BY <2>8 DEF TlWake, WakeOne, AfterUnlock
  <2>9. CASE Clone(t)
    BY <2>9 DEF Clone
  <2>10. CASE SetScheduler(t)
    BY <2>10 DEF SetScheduler
  <2>11. CASE WaitFailed(t)
    BY <2>11 DEF WaitFailed
  <2>12. CASE Link(t)
    BY <2>12 DEF Link
  <2>13. CASE Undo(t)
    BY <2>13 DEF Undo
  <2>14. CASE Start(t)
    BY <2>14 DEF Start
  <2>15. CASE StartReleased(t)
    BY <2>15 DEF StartReleased
  <2>16. CASE FailedExit(t)
    BY <2>16 DEF FailedExit
  <2>17. CASE Exiting(t)
    BY <2>17 DEF Exiting
  <2>18. CASE Unlink(t)
    BY <2>18 DEF Unlink
  <2>19. CASE Announce(t)
    BY <2>19 DEF Announce
  <2>20. CASE KernelClear(t)
    BY <2>20 DEF KernelClear, WakeOne
  <2>21. CASE KernelUnhash(t)
    BY <2>21 DEF KernelUnhash
  <2>22. CASE JoinWakes(t)
    BY <2>22 DEF JoinWakes
  <2>23. CASE TlSync(t)
    BY <2>23 DEF TlSync
  <2>24. CASE TlSyncWake(t)
    BY <2>24 DEF TlSyncWake, WakeOne
  <2>25. CASE JoinUnmap(t)
    BY <2>25 DEF JoinUnmap
  <2>26. QED
    BY <1>2, <2>1, <2>2, <2>3, <2>4, <2>5, <2>6, <2>7, <2>8, <2>9, <2>10,
       <2>11, <2>12, <2>13, <2>14, <2>15, <2>16, <2>17, <2>18, <2>19, <2>20,
       <2>21, <2>22, <2>23, <2>24, <2>25 DEF Proceed
<1>3. ASSUME NEW t \in Threads, Call(t) PROVE TypeInv'
  <2>1. CASE EnterCritical(t)
    BY <2>1 DEF EnterCritical, TlLock
  <2>2. CASE CreateStart(t)
    BY <2>2 DEF CreateStart, TlLock
  <2>3. CASE ExitStart(t)
    BY <2>3 DEF ExitStart, TlLock
  <2>4. CASE SingleAgain(t)
    BY <2>4 DEF SingleAgain
  <2>5. CASE WaitInterrupted(t)
    BY <2>5 DEF WaitInterrupted
  <2>6. ASSUME NEW u \in Threads, Join(t, u) \/ Detach(t, u) PROVE TypeInv'
    BY <2>6 DEF Join, Detach
  <2>7. QED
    BY <1>3, <2>1, <2>2, <2>3, <2>4, <2>5, <2>6 DEF Call
<1>4. QED
  BY <1>1, <1>2, <1>3 DEF Next

\* No step lets a second thread in.
LEMMA HolderNext ==
  TypeInv /\ HolderInv /\ [Next]_vars => HolderInv'
<1> SUFFICES ASSUME TypeInv, HolderInv, [Next]_vars PROVE HolderInv'
  OBVIOUS
<1> USE ThreadListAssumption DEF At, Goto, futex, lists, life, TypeInv, TypeOK, WantInv,
    HolderInv, MutualExclusion, Inside, InGroup, PCs, Waiting, Ending
<1>1. CASE Terminated \/ UNCHANGED vars
  BY <1>1 DEF Terminated, vars
<1>2. ASSUME NEW t \in Threads, Proceed(t) PROVE HolderInv'
  <2>1. CASE TlLockCas(t)
    BY <2>1 DEF TlLockCas, Own
  <2>2. CASE TlLockProbe(t)
    BY <2>2 DEF TlLockProbe
  <2>3. CASE TlLockTakeover(t)
    BY <2>3 DEF TlLockTakeover, Own, Forget
  <2>4. CASE WaitSpin(t)
    BY <2>4 DEF WaitSpin, AfterWait, Forget
  <2>5. CASE WaitCheck(t)
    BY <2>5 DEF WaitCheck
  <2>6. CASE WaitLeave(t)
    BY <2>6 DEF WaitLeave, AfterWait, Forget
  <2>7. CASE TlUnlock(t)
    BY <2>7 DEF TlUnlock, AfterUnlock
  <2>8. CASE TlWake(t)
    BY <2>8 DEF TlWake, WakeOne, AfterUnlock
  <2>9. CASE Clone(t)
    BY <2>9 DEF Clone
  <2>10. CASE SetScheduler(t)
    BY <2>10 DEF SetScheduler
  <2>11. CASE WaitFailed(t)
    BY <2>11 DEF WaitFailed
  <2>12. CASE Link(t)
    BY <2>12 DEF Link
  <2>13. CASE Undo(t)
    BY <2>13 DEF Undo
  <2>14. CASE Start(t)
    BY <2>14 DEF Start
  <2>15. CASE StartReleased(t)
    BY <2>15 DEF StartReleased
  <2>16. CASE FailedExit(t)
    BY <2>16 DEF FailedExit
  <2>17. CASE Exiting(t)
    BY <2>17 DEF Exiting
  <2>18. CASE Unlink(t)
    BY <2>18 DEF Unlink
  <2>19. CASE Announce(t)
    BY <2>19 DEF Announce
  <2>20. CASE KernelClear(t)
    BY <2>20 DEF KernelClear, WakeOne
  <2>21. CASE KernelUnhash(t)
    BY <2>21 DEF KernelUnhash
  <2>22. CASE JoinWakes(t)
    BY <2>22 DEF JoinWakes
  <2>23. CASE TlSync(t)
    BY <2>23 DEF TlSync
  <2>24. CASE TlSyncWake(t)
    BY <2>24 DEF TlSyncWake, WakeOne
  <2>25. CASE JoinUnmap(t)
    BY <2>25 DEF JoinUnmap
  <2>26. QED
    BY <1>2, <2>1, <2>2, <2>3, <2>4, <2>5, <2>6, <2>7, <2>8, <2>9, <2>10,
       <2>11, <2>12, <2>13, <2>14, <2>15, <2>16, <2>17, <2>18, <2>19, <2>20,
       <2>21, <2>22, <2>23, <2>24, <2>25 DEF Proceed
<1>3. ASSUME NEW t \in Threads, Call(t) PROVE HolderInv'
  <2>1. CASE EnterCritical(t)
    BY <2>1 DEF EnterCritical, TlLock
  <2>2. CASE CreateStart(t)
    BY <2>2 DEF CreateStart, TlLock
  <2>3. CASE ExitStart(t)
    BY <2>3 DEF ExitStart, TlLock
  <2>4. CASE SingleAgain(t)
    BY <2>4 DEF SingleAgain
  <2>5. CASE WaitInterrupted(t)
    BY <2>5 DEF WaitInterrupted
  <2>6. ASSUME NEW u \in Threads, Join(t, u) \/ Detach(t, u) PROVE HolderInv'
    BY <2>6 DEF Join, Detach
  <2>7. QED
    BY <1>3, <2>1, <2>2, <2>3, <2>4, <2>5, <2>6 DEF Call
<1>4. QED
  BY <1>1, <1>2, <1>3 DEF Next

\* No step moves a thread that another one has waited out.
LEMMA JoinNext ==
  TypeInv /\ HolderInv /\ JoinInv /\ [Next]_vars => JoinInv'
<1> SUFFICES ASSUME TypeInv, HolderInv, JoinInv, [Next]_vars PROVE JoinInv'
  OBVIOUS
<1> USE ThreadListAssumption DEF At, Goto, futex, lists, life, TypeInv, TypeOK, WantInv,
    HolderInv, MutualExclusion, Inside, JoinInv, UnmappedIsGone, PCs, Waiting,
    Ending
<1>1. CASE Terminated \/ UNCHANGED vars
  BY <1>1 DEF Terminated, vars
<1>2. ASSUME NEW t \in Threads, Proceed(t) PROVE JoinInv'
  <2>1. CASE TlLockCas(t)
    BY <2>1 DEF TlLockCas, Own
  <2>2. CASE TlLockProbe(t)
    BY <2>2 DEF TlLockProbe
  <2>3. CASE TlLockTakeover(t)
    BY <2>3 DEF TlLockTakeover, Own, Forget
  <2>4. CASE WaitSpin(t)
    BY <2>4 DEF WaitSpin, AfterWait, Forget
  <2>5. CASE WaitCheck(t)
    BY <2>5 DEF WaitCheck
  <2>6. CASE WaitLeave(t)
    BY <2>6 DEF WaitLeave, AfterWait, Forget
  <2>7. CASE TlUnlock(t)
    BY <2>7 DEF TlUnlock, AfterUnlock
  <2>8. CASE TlWake(t)
    BY <2>8 DEF TlWake, WakeOne, AfterUnlock
  <2>9. CASE Clone(t)
    <3>1. CASE Goto(t, "undo") /\ UNCHANGED <<peer, detach, control>>
      BY <2>9, <3>1 DEF Clone
    <3>2. ASSUME NEW n \in Threads, NEW a \in Attrs, At(n, "unborn"),
                 pc' = [pc EXCEPT ![t] = IF a.sched THEN "sched" ELSE "link",
                                  ![n] = "start"],
                 peer' = [peer EXCEPT ![t] = n],
                 control' = [control EXCEPT ![n] = IF a.sched THEN 1 ELSE 0],
                 detach' = [detach EXCEPT ![n] = a.detach]
          PROVE  JoinInv'
      <4>1. n # t /\ UNCHANGED <<val, want, unmapped>>
        BY <2>9, <3>2 DEF Clone
      <4>2. /\ pc'[n] = "start" /\ peer'[t] = n /\ detach'[n] = a.detach
            /\ pc'[t] = "sched" => control'[n] = 1
            /\ pc'[t] \in {"sched", "link"}
        BY <3>2, <4>1
      <4>3. \A u \in Threads \ {n} :
              control'[u] = control[u] /\ detach'[u] = detach[u]
        BY <3>2
      <4>4. \A u \in Threads \ {n, t} : pc'[u] = pc[u] /\ peer'[u] = peer[u]
        BY <3>2
      <4>5. a.detach # "exited"
        BY DEF ThreadListAssumption
      <4>6. UnmappedIsGone'
        BY <2>9, <3>2, <4>1, <4>2, <4>4 DEF Clone
      <4>7. \A u \in Threads : detach'[u] = "exited" => pc'[u] \in {"sysexit"} \cup Ending
        BY <2>9, <4>1, <4>2, <4>3, <4>4, <4>5 DEF Clone
      <4>8. ASSUME NEW u \in Threads \ {n, t}, peer[u] # n, peer[u] # t
            PROVE  /\ pc'[peer'[u]] = pc[peer[u]]
                   /\ control'[peer'[u]] = control[peer[u]]
                   /\ detach'[peer'[u]] = detach[peer[u]]
        BY <4>3, <4>4, <4>8
      <4>9. QED
        BY <2>9, <4>1, <4>2, <4>3, <4>4, <4>5, <4>6, <4>7, <4>8, SMTT(60) DEF Clone
    <3>3. QED
      BY <2>9, <3>1, <3>2 DEF Clone
  <2>10. CASE SetScheduler(t)
    BY <2>10 DEF SetScheduler
  <2>11. CASE WaitFailed(t)
    BY <2>11 DEF WaitFailed
  <2>12. CASE Link(t)
    BY <2>12 DEF Link
  <2>13. CASE Undo(t)
    BY <2>13 DEF Undo
  <2>14. CASE Start(t)
    BY <2>14 DEF Start
  <2>15. CASE StartReleased(t)
    BY <2>15 DEF StartReleased
  <2>16. CASE FailedExit(t)
    BY <2>16 DEF FailedExit
  <2>17. CASE Exiting(t)
    BY <2>17 DEF Exiting
  <2>18. CASE Unlink(t)
    BY <2>18 DEF Unlink
  <2>19. CASE Announce(t)
    BY <2>19 DEF Announce
  <2>20. CASE KernelClear(t)
    BY <2>20 DEF KernelClear, WakeOne
  <2>21. CASE KernelUnhash(t)
    BY <2>21 DEF KernelUnhash
  <2>22. CASE JoinWakes(t)
    BY <2>22 DEF JoinWakes
  <2>23. CASE TlSync(t)
    BY <2>23 DEF TlSync
  <2>24. CASE TlSyncWake(t)
    BY <2>24 DEF TlSyncWake, WakeOne
  <2>25. CASE JoinUnmap(t)
    BY <2>25 DEF JoinUnmap
  <2>26. QED
    BY <1>2, <2>1, <2>2, <2>3, <2>4, <2>5, <2>6, <2>7, <2>8, <2>9, <2>10,
       <2>11, <2>12, <2>13, <2>14, <2>15, <2>16, <2>17, <2>18, <2>19, <2>20,
       <2>21, <2>22, <2>23, <2>24, <2>25 DEF Proceed
<1>3. ASSUME NEW t \in Threads, Call(t) PROVE JoinInv'
  <2>1. CASE EnterCritical(t)
    BY <2>1 DEF EnterCritical, TlLock
  <2>2. CASE CreateStart(t)
    BY <2>2 DEF CreateStart, TlLock
  <2>3. CASE ExitStart(t)
    BY <2>3 DEF ExitStart, TlLock
  <2>4. CASE SingleAgain(t)
    BY <2>4 DEF SingleAgain
  <2>5. CASE WaitInterrupted(t)
    BY <2>5 DEF WaitInterrupted
  <2>6. ASSUME NEW u \in Threads, Join(t, u) \/ Detach(t, u) PROVE JoinInv'
    BY <2>6 DEF Join, Detach
  <2>7. QED
    BY <1>3, <2>1, <2>2, <2>3, <2>4, <2>5, <2>6 DEF Call
<1>4. QED
  BY <1>1, <1>2, <1>3 DEF Next

\* Every step keeps the nesting count that of the owner.
LEMMA NestNext ==
  TypeInv /\ HolderInv /\ NestInv /\ [Next]_vars => NestInv'
<1> SUFFICES ASSUME TypeInv, HolderInv, NestInv, [Next]_vars PROVE NestInv'
  OBVIOUS
<1> USE ThreadListAssumption DEF At, Goto, futex, lists, life, TypeInv, TypeOK, WantInv,
    HolderInv, MutualExclusion, Inside, InGroup, NestInv, Creating, PCs,
    Waiting, Ending
<1>1. CASE Terminated \/ UNCHANGED vars
  BY <1>1 DEF Terminated, vars
<1>2. ASSUME NEW t \in Threads, Proceed(t) PROVE NestInv'
  <2>1. CASE TlLockCas(t)
    BY <2>1 DEF TlLockCas, Own
  <2>2. CASE TlLockProbe(t)
    BY <2>2 DEF TlLockProbe
  <2>3. CASE TlLockTakeover(t)
    BY <2>3 DEF TlLockTakeover, Own, Forget
  <2>4. CASE WaitSpin(t)
    BY <2>4 DEF WaitSpin, AfterWait, Forget
  <2>5. CASE WaitCheck(t)
    BY <2>5 DEF WaitCheck
  <2>6. CASE WaitLeave(t)
    BY <2>6 DEF WaitLeave, AfterWait, Forget
  <2>7. CASE TlUnlock(t)
    BY <2>7 DEF TlUnlock, AfterUnlock
  <2>8. CASE TlWake(t)
    BY <2>8 DEF TlWake, WakeOne, AfterUnlock
  <2>9. CASE Clone(t)
    BY <2>9 DEF Clone
  <2>10. CASE SetScheduler(t)
    BY <2>10 DEF SetScheduler
  <2>11. CASE WaitFailed(t)
    BY <2>11 DEF WaitFailed
  <2>12. CASE Link(t)
    BY <2>12 DEF Link
  <2>13. CASE Undo(t)
    BY <2>13 DEF Undo
  <2>14. CASE Start(t)
    BY <2>14 DEF Start
  <2>15. CASE StartReleased(t)
    BY <2>15 DEF StartReleased
  <2>16. CASE FailedExit(t)
    BY <2>16 DEF FailedExit
  <2>17. CASE Exiting(t)
    BY <2>17 DEF Exiting
  <2>18. CASE Unlink(t)
    BY <2>18 DEF Unlink
  <2>19. CASE Announce(t)
    BY <2>19 DEF Announce
  <2>20. CASE KernelClear(t)
    BY <2>20 DEF KernelClear, WakeOne
  <2>21. CASE KernelUnhash(t)
    BY <2>21 DEF KernelUnhash
  <2>22. CASE JoinWakes(t)
    BY <2>22 DEF JoinWakes
  <2>23. CASE TlSync(t)
    BY <2>23 DEF TlSync
  <2>24. CASE TlSyncWake(t)
    BY <2>24 DEF TlSyncWake, WakeOne
  <2>25. CASE JoinUnmap(t)
    BY <2>25 DEF JoinUnmap
  <2>26. QED
    BY <1>2, <2>1, <2>2, <2>3, <2>4, <2>5, <2>6, <2>7, <2>8, <2>9, <2>10,
       <2>11, <2>12, <2>13, <2>14, <2>15, <2>16, <2>17, <2>18, <2>19, <2>20,
       <2>21, <2>22, <2>23, <2>24, <2>25 DEF Proceed
<1>3. ASSUME NEW t \in Threads, Call(t) PROVE NestInv'
  <2>1. CASE EnterCritical(t)
    BY <2>1 DEF EnterCritical, TlLock
  <2>2. CASE CreateStart(t)
    BY <2>2 DEF CreateStart, TlLock
  <2>3. CASE ExitStart(t)
    BY <2>3 DEF ExitStart, TlLock
  <2>4. CASE SingleAgain(t)
    BY <2>4 DEF SingleAgain
  <2>5. CASE WaitInterrupted(t)
    BY <2>5 DEF WaitInterrupted
  <2>6. ASSUME NEW u \in Threads, Join(t, u) \/ Detach(t, u) PROVE NestInv'
    BY <2>6 DEF Join, Detach
  <2>7. QED
    BY <1>3, <2>1, <2>2, <2>3, <2>4, <2>5, <2>6 DEF Call
<1>4. QED
  BY <1>1, <1>2, <1>3 DEF Next

\* The lock word only changes as a lock does.
LEMMA LockNext ==
  TypeInv /\ HolderInv /\ [Next]_vars => LockStep
<1> SUFFICES ASSUME TypeInv, HolderInv, [Next]_vars PROVE LockStep
  OBVIOUS
<1> USE ThreadListAssumption DEF At, Goto, futex, lists, life, TypeInv, TypeOK, WantInv,
    HolderInv, MutualExclusion, Inside, InGroup, LockStep
<1>1. CASE Terminated \/ UNCHANGED vars
  BY <1>1 DEF Terminated, vars
<1>2. ASSUME NEW t \in Threads, Proceed(t) PROVE LockStep
  <2>1. CASE TlLockCas(t)
    BY <2>1 DEF TlLockCas, Own
  <2>2. CASE TlLockProbe(t)
    BY <2>2 DEF TlLockProbe
  <2>3. CASE TlLockTakeover(t)
    BY <2>3 DEF TlLockTakeover, Own, Forget
  <2>4. CASE WaitSpin(t)
    BY <2>4 DEF WaitSpin, AfterWait, Forget
  <2>5. CASE WaitCheck(t)
    BY <2>5 DEF WaitCheck
  <2>6. CASE WaitLeave(t)
    BY <2>6 DEF WaitLeave, AfterWait, Forget
  <2>7. CASE TlUnlock(t)
    BY <2>7 DEF TlUnlock, AfterUnlock
  <2>8. CASE TlWake(t)
    BY <2>8 DEF TlWake, WakeOne, AfterUnlock
  <2>9. CASE Clone(t)
    BY <2>9 DEF Clone
  <2>10. CASE SetScheduler(t)
    BY <2>10 DEF SetScheduler
  <2>11. CASE WaitFailed(t)
    BY <2>11 DEF WaitFailed
  <2>12. CASE Link(t)
    BY <2>12 DEF Link
  <2>13. CASE Undo(t)
    BY <2>13 DEF Undo
  <2>14. CASE Start(t)
    BY <2>14 DEF Start
  <2>15. CASE StartReleased(t)
    BY <2>15 DEF StartReleased
  <2>16. CASE FailedExit(t)
    BY <2>16 DEF FailedExit
  <2>17. CASE Exiting(t)
    BY <2>17 DEF Exiting
  <2>18. CASE Unlink(t)
    BY <2>18 DEF Unlink
  <2>19. CASE Announce(t)
    BY <2>19 DEF Announce
  <2>20. CASE KernelClear(t)
    BY <2>20 DEF KernelClear, WakeOne
  <2>21. CASE KernelUnhash(t)
    BY <2>21 DEF KernelUnhash
  <2>22. CASE JoinWakes(t)
    BY <2>22 DEF JoinWakes
  <2>23. CASE TlSync(t)
    BY <2>23 DEF TlSync
  <2>24. CASE TlSyncWake(t)
    BY <2>24 DEF TlSyncWake, WakeOne
  <2>25. CASE JoinUnmap(t)
    BY <2>25 DEF JoinUnmap
  <2>26. QED
    BY <1>2, <2>1, <2>2, <2>3, <2>4, <2>5, <2>6, <2>7, <2>8, <2>9, <2>10,
       <2>11, <2>12, <2>13, <2>14, <2>15, <2>16, <2>17, <2>18, <2>19, <2>20,
       <2>21, <2>22, <2>23, <2>24, <2>25 DEF Proceed
<1>3. ASSUME NEW t \in Threads, Call(t) PROVE LockStep
  <2>1. CASE EnterCritical(t)
    BY <2>1 DEF EnterCritical, TlLock
  <2>2. CASE CreateStart(t)
    BY <2>2 DEF CreateStart, TlLock
  <2>3. CASE ExitStart(t)
    BY <2>3 DEF ExitStart, TlLock
  <2>4. CASE SingleAgain(t)
    BY <2>4 DEF SingleAgain
  <2>5. CASE WaitInterrupted(t)
    BY <2>5 DEF WaitInterrupted
  <2>6. ASSUME NEW u \in Threads, Join(t, u) \/ Detach(t, u) PROVE LockStep
    BY <2>6 DEF Join, Detach
  <2>7. QED
    BY <1>3, <2>1, <2>2, <2>3, <2>4, <2>5, <2>6 DEF Call
<1>4. QED
  BY <1>1, <1>2, <1>3 DEF Next

\* Every step keeps the list that of the running threads.
LEMMA MemberNext ==
  TypeInv /\ HolderInv /\ JoinInv /\ MemberInv /\ [Next]_vars => MemberInv'
<1> SUFFICES ASSUME TypeInv, HolderInv, JoinInv, MemberInv, [Next]_vars PROVE MemberInv'
  OBVIOUS
<1> USE ThreadListAssumption DEF At, Goto, futex, lists, life, TypeInv, TypeOK, WantInv,
    HolderInv, MutualExclusion, Inside, InGroup, JoinInv, MemberInv, Fresh, PCs, Waiting,
    Ending
<1>1. CASE Terminated \/ UNCHANGED vars
  BY <1>1 DEF Terminated, vars
<1>2. ASSUME NEW t \in Threads, Proceed(t) PROVE MemberInv'
  <2>1. CASE TlLockCas(t)
    BY <2>1 DEF TlLockCas, Own
  <2>2. CASE TlLockProbe(t)
    BY <2>2 DEF TlLockProbe
  <2>3. CASE TlLockTakeover(t)
    BY <2>3 DEF TlLockTakeover, Own, Forget
  <2>4. CASE WaitSpin(t)
    BY <2>4 DEF WaitSpin, AfterWait, Forget
  <2>5. CASE WaitCheck(t)
    BY <2>5 DEF WaitCheck
  <2>6. CASE WaitLeave(t)
    BY <2>6 DEF WaitLeave, AfterWait, Forget
  <2>7. CASE TlUnlock(t)
    BY <2>7 DEF TlUnlock, AfterUnlock
  <2>8. CASE TlWake(t)
    BY <2>8 DEF TlWake, WakeOne, AfterUnlock
  <2>9. CASE Clone(t)
    BY <2>9 DEF Clone
  <2>10. CASE SetScheduler(t)
    BY <2>10 DEF SetScheduler
  <2>11. CASE WaitFailed(t)
    BY <2>11 DEF WaitFailed
  <2>12. CASE Link(t)
    BY <2>12 DEF Link
  <2>13. CASE Undo(t)
    BY <2>13 DEF Undo
  <2>14. CASE Start(t)
    BY <2>14 DEF Start
  <2>15. CASE StartReleased(t)
    BY <2>15 DEF StartReleased
  <2>16. CASE FailedExit(t)
    BY <2>16 DEF FailedExit
  <2>17. CASE Exiting(t)
    BY <2>17 DEF Exiting
  <2>18. CASE Unlink(t)
    BY <2>18 DEF Unlink
  <2>19. CASE Announce(t)
    BY <2>19 DEF Announce
  <2>20. CASE KernelClear(t)
    BY <2>20 DEF KernelClear, WakeOne
  <2>21. CASE KernelUnhash(t)
    BY <2>21 DEF KernelUnhash
  <2>22. CASE JoinWakes(t)
    BY <2>22 DEF JoinWakes
  <2>23. CASE TlSync(t)
    BY <2>23 DEF TlSync
  <2>24. CASE TlSyncWake(t)
    BY <2>24 DEF TlSyncWake, WakeOne
  <2>25. CASE JoinUnmap(t)
    BY <2>25 DEF JoinUnmap
  <2>26. QED
    BY <1>2, <2>1, <2>2, <2>3, <2>4, <2>5, <2>6, <2>7, <2>8, <2>9, <2>10,
       <2>11, <2>12, <2>13, <2>14, <2>15, <2>16, <2>17, <2>18, <2>19, <2>20,
       <2>21, <2>22, <2>23, <2>24, <2>25 DEF Proceed
<1>3. ASSUME NEW t \in Threads, Call(t) PROVE MemberInv'
  <2>1. CASE EnterCritical(t)
    BY <2>1 DEF EnterCritical, TlLock
  <2>2. CASE CreateStart(t)
    BY <2>2 DEF CreateStart, TlLock
  <2>3. CASE ExitStart(t)
    BY <2>3 DEF ExitStart, TlLock
  <2>4. CASE SingleAgain(t)
    BY <2>4 DEF SingleAgain
  <2>5. CASE WaitInterrupted(t)
    BY <2>5 DEF WaitInterrupted
  <2>6. ASSUME NEW u \in Threads, Join(t, u) \/ Detach(t, u) PROVE MemberInv'
    BY <2>6 DEF Join, Detach
  <2>7. QED
    BY <1>3, <2>1, <2>2, <2>3, <2>4, <2>5, <2>6 DEF Call
<1>4. QED
  BY <1>1, <1>2, <1>3 DEF Next

\* The list and its count change together.
LEMMA ListNext ==
  TypeInv /\ HolderInv /\ MemberInv /\ [Next]_vars => ListStep
<1> SUFFICES ASSUME TypeInv, HolderInv, MemberInv, [Next]_vars PROVE ListStep
  OBVIOUS
<1> USE ThreadListAssumption DEF At, Goto, futex, lists, life, TypeInv, TypeOK, WantInv,
    HolderInv, MutualExclusion, Inside, InGroup, MemberInv, Fresh, Pending,
    ListStep, PCs, Waiting, Ending
<1>1. CASE Terminated \/ UNCHANGED vars
  BY <1>1 DEF Terminated, vars
<1>2. ASSUME NEW t \in Threads, Proceed(t) PROVE ListStep
  <2>1. CASE TlLockCas(t)
    BY <2>1 DEF TlLockCas, Own
  <2>2. CASE TlLockProbe(t)
    BY <2>2 DEF TlLockProbe
  <2>3. CASE TlLockTakeover(t)
    BY <2>3 DEF TlLockTakeover, Own, Forget
  <2>4. CASE WaitSpin(t)
    BY <2>4 DEF WaitSpin, AfterWait, Forget
  <2>5. CASE WaitCheck(t)
    BY <2>5 DEF WaitCheck
  <2>6. CASE WaitLeave(t)
    BY <2>6 DEF WaitLeave, AfterWait, Forget
  <2>7. CASE TlUnlock(t)
    BY <2>7 DEF TlUnlock, AfterUnlock
  <2>8. CASE TlWake(t)
    BY <2>8 DEF TlWake, WakeOne, AfterUnlock
  <2>9. CASE Clone(t)
    BY <2>9 DEF Clone
  <2>10. CASE SetScheduler(t)
    BY <2>10 DEF SetScheduler
  <2>11. CASE WaitFailed(t)
    BY <2>11 DEF WaitFailed
  <2>12. CASE Link(t)
    BY <2>12 DEF Link
  <2>13. CASE Undo(t)
    BY <2>13 DEF Undo
  <2>14. CASE Start(t)
    BY <2>14 DEF Start
  <2>15. CASE StartReleased(t)
    BY <2>15 DEF StartReleased
  <2>16. CASE FailedExit(t)
    BY <2>16 DEF FailedExit
  <2>17. CASE Exiting(t)
    BY <2>17 DEF Exiting
  <2>18. CASE Unlink(t)
    BY <2>18 DEF Unlink
  <2>19. CASE Announce(t)
    BY <2>19 DEF Announce
  <2>20. CASE KernelClear(t)
    BY <2>20 DEF KernelClear, WakeOne
  <2>21. CASE KernelUnhash(t)
    BY <2>21 DEF KernelUnhash
  <2>22. CASE JoinWakes(t)
    BY <2>22 DEF JoinWakes
  <2>23. CASE TlSync(t)
    BY <2>23 DEF TlSync
  <2>24. CASE TlSyncWake(t)
    BY <2>24 DEF TlSyncWake, WakeOne
  <2>25. CASE JoinUnmap(t)
    BY <2>25 DEF JoinUnmap
  <2>26. QED
    BY <1>2, <2>1, <2>2, <2>3, <2>4, <2>5, <2>6, <2>7, <2>8, <2>9, <2>10,
       <2>11, <2>12, <2>13, <2>14, <2>15, <2>16, <2>17, <2>18, <2>19, <2>20,
       <2>21, <2>22, <2>23, <2>24, <2>25 DEF Proceed
<1>3. ASSUME NEW t \in Threads, Call(t) PROVE ListStep
  <2>1. CASE EnterCritical(t)
    BY <2>1 DEF EnterCritical, TlLock
  <2>2. CASE CreateStart(t)
    BY <2>2 DEF CreateStart, TlLock
  <2>3. CASE ExitStart(t)
    BY <2>3 DEF ExitStart, TlLock
  <2>4. CASE SingleAgain(t)
    BY <2>4 DEF SingleAgain
  <2>5. CASE WaitInterrupted(t)
    BY <2>5 DEF WaitInterrupted
  <2>6. ASSUME NEW u \in Threads, Join(t, u) \/ Detach(t, u) PROVE ListStep
    BY <2>6 DEF Join, Detach
  <2>7. QED
    BY <1>3, <2>1, <2>2, <2>3, <2>4, <2>5, <2>6 DEF Call
<1>4. QED
  BY <1>1, <1>2, <1>3 DEF Next

\* No step lowers need_locks while there are others.
LEMMA SingleNext ==
  TypeInv /\ HolderInv /\ OthersAreCounted /\ SingleInv /\ [Next]_vars => SingleInv'
<1> SUFFICES ASSUME TypeInv, HolderInv, OthersAreCounted, SingleInv, [Next]_vars PROVE SingleInv'
  OBVIOUS
<1> USE ThreadListAssumption DEF At, Goto, futex, lists, life, TypeInv, TypeOK, WantInv,
    HolderInv, MutualExclusion, Inside, InGroup, Pending, OthersAreCounted,
    SingleInv, PCs, Waiting, Ending
<1>1. CASE Terminated \/ UNCHANGED vars
  BY <1>1 DEF Terminated, vars
<1>2. ASSUME NEW t \in Threads, Proceed(t) PROVE SingleInv'
  <2>1. CASE TlLockCas(t)
    BY <2>1 DEF TlLockCas, Own
  <2>2. CASE TlLockProbe(t)
    BY <2>2 DEF TlLockProbe
  <2>3. CASE TlLockTakeover(t)
    BY <2>3 DEF TlLockTakeover, Own, Forget
  <2>4. CASE WaitSpin(t)
    BY <2>4 DEF WaitSpin, AfterWait, Forget
  <2>5. CASE WaitCheck(t)
    BY <2>5 DEF WaitCheck
  <2>6. CASE WaitLeave(t)
    BY <2>6 DEF WaitLeave, AfterWait, Forget
  <2>7. CASE TlUnlock(t)
    BY <2>7 DEF TlUnlock, AfterUnlock
  <2>8. CASE TlWake(t)
    BY <2>8 DEF TlWake, WakeOne, AfterUnlock
  <2>9. CASE Clone(t)
    BY <2>9 DEF Clone
  <2>10. CASE SetScheduler(t)
    BY <2>10 DEF SetScheduler
  <2>11. CASE WaitFailed(t)
    BY <2>11 DEF WaitFailed
  <2>12. CASE Link(t)
    BY <2>12 DEF Link
  <2>13. CASE Undo(t)
    BY <2>13 DEF Undo
  <2>14. CASE Start(t)
    BY <2>14 DEF Start
  <2>15. CASE StartReleased(t)
    BY <2>15 DEF StartReleased
  <2>16. CASE FailedExit(t)
    BY <2>16 DEF FailedExit
  <2>17. CASE Exiting(t)
    BY <2>17 DEF Exiting
  <2>18. CASE Unlink(t)
    BY <2>18 DEF Unlink
  <2>19. CASE Announce(t)
    BY <2>19 DEF Announce
  <2>20. CASE KernelClear(t)
    BY <2>20 DEF KernelClear, WakeOne
  <2>21. CASE KernelUnhash(t)
    BY <2>21 DEF KernelUnhash
  <2>22. CASE JoinWakes(t)
    BY <2>22 DEF JoinWakes
  <2>23. CASE TlSync(t)
    BY <2>23 DEF TlSync
  <2>24. CASE TlSyncWake(t)
    BY <2>24 DEF TlSyncWake, WakeOne
  <2>25. CASE JoinUnmap(t)
    BY <2>25 DEF JoinUnmap
  <2>26. QED
    BY <1>2, <2>1, <2>2, <2>3, <2>4, <2>5, <2>6, <2>7, <2>8, <2>9, <2>10,
       <2>11, <2>12, <2>13, <2>14, <2>15, <2>16, <2>17, <2>18, <2>19, <2>20,
       <2>21, <2>22, <2>23, <2>24, <2>25 DEF Proceed
<1>3. ASSUME NEW t \in Threads, Call(t) PROVE SingleInv'
  <2>1. CASE EnterCritical(t)
    BY <2>1 DEF EnterCritical, TlLock
  <2>2. CASE CreateStart(t)
    BY <2>2 DEF CreateStart, TlLock
  <2>3. CASE ExitStart(t)
    BY <2>3 DEF ExitStart, TlLock
  <2>4. CASE SingleAgain(t)
    BY <2>4 DEF SingleAgain
  <2>5. CASE WaitInterrupted(t)
    BY <2>5 DEF WaitInterrupted
  <2>6. ASSUME NEW u \in Threads, Join(t, u) \/ Detach(t, u) PROVE SingleInv'
    BY <2>6 DEF Join, Detach
  <2>7. QED
    BY <1>3, <2>1, <2>2, <2>3, <2>4, <2>5, <2>6 DEF Call
<1>4. QED
  BY <1>1, <1>2, <1>3 DEF Next

\* A thread is counted in tl_lock_waiters while it waits.
LEMMA WaitersNext ==
  TypeInv /\ [Next]_vars => WaitersStep
<1> SUFFICES ASSUME TypeInv, [Next]_vars PROVE WaitersStep
  OBVIOUS
<1> USE ThreadListAssumption DEF At, Goto, futex, lists, life, TypeInv, TypeOK, WantInv,
    Waiters, WaitersStep, PCs, Waiting, Ending
<1>1. CASE Terminated \/ UNCHANGED vars
  BY <1>1 DEF Terminated, vars
<1>2. ASSUME NEW t \in Threads, Proceed(t) PROVE WaitersStep
  <2>1. CASE TlLockCas(t)
    BY <2>1 DEF TlLockCas, Own
  <2>2. CASE TlLockProbe(t)
    BY <2>2 DEF TlLockProbe
  <2>3. CASE TlLockTakeover(t)
    BY <2>3 DEF TlLockTakeover, Own, Forget
  <2>4. CASE WaitSpin(t)
    BY <2>4 DEF WaitSpin, AfterWait, Forget
  <2>5. CASE WaitCheck(t)
    BY <2>5 DEF WaitCheck
  <2>6. CASE WaitLeave(t)
    BY <2>6 DEF WaitLeave, AfterWait, Forget
  <2>7. CASE TlUnlock(t)
    BY <2>7 DEF TlUnlock, AfterUnlock
  <2>8. CASE TlWake(t)
    BY <2>8 DEF TlWake, WakeOne, AfterUnlock
  <2>9. CASE Clone(t)
    BY <2>9 DEF Clone
  <2>10. CASE SetScheduler(t)
    BY <2>10 DEF SetScheduler
  <2>11. CASE WaitFailed(t)
    BY <2>11 DEF WaitFailed
  <2>12. CASE Link(t)
    BY <2>12 DEF Link
  <2>13. CASE Undo(t)
    BY <2>13 DEF Undo
  <2>14. CASE Start(t)
    BY <2>14 DEF Start
  <2>15. CASE StartReleased(t)
    BY <2>15 DEF StartReleased
  <2>16. CASE FailedExit(t)
    BY <2>16 DEF FailedExit
  <2>17. CASE Exiting(t)
    BY <2>17 DEF Exiting
  <2>18. CASE Unlink(t)
    BY <2>18 DEF Unlink
  <2>19. CASE Announce(t)
    BY <2>19 DEF Announce
  <2>20. CASE KernelClear(t)
    BY <2>20 DEF KernelClear, WakeOne
  <2>21. CASE KernelUnhash(t)
    BY <2>21 DEF KernelUnhash
  <2>22. CASE JoinWakes(t)
    BY <2>22 DEF JoinWakes
  <2>23. CASE TlSync(t)
    BY <2>23 DEF TlSync
  <2>24. CASE TlSyncWake(t)
    BY <2>24 DEF TlSyncWake, WakeOne
  <2>25. CASE JoinUnmap(t)
    BY <2>25 DEF JoinUnmap
  <2>26. QED
    BY <1>2, <2>1, <2>2, <2>3, <2>4, <2>5, <2>6, <2>7, <2>8, <2>9, <2>10,
       <2>11, <2>12, <2>13, <2>14, <2>15, <2>16, <2>17, <2>18, <2>19, <2>20,
       <2>21, <2>22, <2>23, <2>24, <2>25 DEF Proceed
<1>3. ASSUME NEW t \in Threads, Call(t) PROVE WaitersStep
  <2>1. CASE EnterCritical(t)
    BY <2>1 DEF EnterCritical, TlLock
  <2>2. CASE CreateStart(t)
    BY <2>2 DEF CreateStart, TlLock
  <2>3. CASE ExitStart(t)
    BY <2>3 DEF ExitStart, TlLock
  <2>4. CASE SingleAgain(t)
    BY <2>4 DEF SingleAgain
  <2>5. CASE WaitInterrupted(t)
    BY <2>5 DEF WaitInterrupted
  <2>6. ASSUME NEW u \in Threads, Join(t, u) \/ Detach(t, u) PROVE WaitersStep
    BY <2>6 DEF Join, Detach
  <2>7. QED
    BY <1>3, <2>1, <2>2, <2>3, <2>4, <2>5, <2>6 DEF Call
<1>4. QED
  BY <1>1, <1>2, <1>3 DEF Next

\* No step drops the last wake-up.
LEMMA WakeNext ==
  TypeInv /\ HolderInv /\ AsleepIsCounted /\ WakeInv /\ [Next]_vars => WakeInv'
<1> SUFFICES ASSUME TypeInv, HolderInv, AsleepIsCounted, WakeInv, [Next]_vars PROVE WakeInv'
  OBVIOUS
<1> USE ThreadListAssumption DEF At, Goto, futex, lists, life, TypeInv, TypeOK, WantInv,
    HolderInv, MutualExclusion, Inside, AsleepIsCounted, WakeInv,
    WakeupIsPending, PCs, Waiting, Ending
<1>1. CASE Terminated \/ UNCHANGED vars
  BY <1>1 DEF Terminated, vars
<1>2. ASSUME NEW t \in Threads, Proceed(t) PROVE WakeInv'
  <2>1. CASE TlLockCas(t)
    BY <2>1 DEF TlLockCas, Own
  <2>2. CASE TlLockProbe(t)
    BY <2>2 DEF TlLockProbe
  <2>3. CASE TlLockTakeover(t)
    BY <2>3 DEF TlLockTakeover, Own, Forget
  <2>4. CASE WaitSpin(t)
    BY <2>4 DEF WaitSpin, AfterWait, Forget
  <2>5. CASE WaitCheck(t)
    BY <2>5 DEF WaitCheck
  <2>6. CASE WaitLeave(t)
    BY <2>6 DEF WaitLeave, AfterWait, Forget
  <2>7. CASE TlUnlock(t)
    BY <2>7 DEF TlUnlock, AfterUnlock
  <2>8. CASE TlWake(t)
    BY <2>8 DEF TlWake, WakeOne, AfterUnlock
  <2>9. CASE Clone(t)
    BY <2>9 DEF Clone
  <2>10. CASE SetScheduler(t)
    BY <2>10 DEF SetScheduler
  <2>11. CASE WaitFailed(t)
    BY <2>11 DEF WaitFailed
  <2>12. CASE Link(t)
    BY <2>12 DEF Link
  <2>13. CASE Undo(t)
    BY <2>13 DEF Undo
  <2>14. CASE Start(t)
    BY <2>14 DEF Start
  <2>15. CASE StartReleased(t)
    BY <2>15 DEF StartReleased
  <2>16. CASE FailedExit(t)
    BY <2>16 DEF FailedExit
  <2>17. CASE Exiting(t)
    BY <2>17 DEF Exiting
  <2>18. CASE Unlink(t)
    BY <2>18 DEF Unlink
  <2>19. CASE Announce(t)
    BY <2>19 DEF Announce
  <2>20. CASE KernelClear(t)
    BY <2>20 DEF KernelClear, WakeOne
  <2>21. CASE KernelUnhash(t)
    BY <2>21 DEF KernelUnhash
  <2>22. CASE JoinWakes(t)
    BY <2>22 DEF JoinWakes
  <2>23. CASE TlSync(t)
    BY <2>23 DEF TlSync
  <2>24. CASE TlSyncWake(t)
    BY <2>24 DEF TlSyncWake, WakeOne
  <2>25. CASE JoinUnmap(t)
    BY <2>25 DEF JoinUnmap
  <2>26. QED
    BY <1>2, <2>1, <2>2, <2>3, <2>4, <2>5, <2>6, <2>7, <2>8, <2>9, <2>10,
       <2>11, <2>12, <2>13, <2>14, <2>15, <2>16, <2>17, <2>18, <2>19, <2>20,
       <2>21, <2>22, <2>23, <2>24, <2>25 DEF Proceed
<1>3. ASSUME NEW t \in Threads, Call(t) PROVE WakeInv'
  <2>1. CASE EnterCritical(t)
    BY <2>1 DEF EnterCritical, TlLock
  <2>2. CASE CreateStart(t)
    BY <2>2 DEF CreateStart, TlLock
  <2>3. CASE ExitStart(t)
    BY <2>3 DEF ExitStart, TlLock
  <2>4. CASE SingleAgain(t)
    BY <2>4 DEF SingleAgain
  <2>5. CASE WaitInterrupted(t)
    BY <2>5 DEF WaitInterrupted
  <2>6. ASSUME NEW u \in Threads, Join(t, u) \/ Detach(t, u) PROVE WakeInv'
    BY <2>6 DEF Join, Detach
  <2>7. QED
    BY <1>3, <2>1, <2>2, <2>3, <2>4, <2>5, <2>6 DEF Call
<1>4. QED
  BY <1>1, <1>2, <1>3 DEF Next

\* The count follows the list through every kind of change.
LEMMA CountNext ==
  TypeInv /\ CountInv /\ ListStep => CountInv'
<1> SUFFICES ASSUME TypeInv, CountInv, ListStep PROVE CountInv'
  OBVIOUS
<1>1. Cardinality(list) \in Nat /\ IsFiniteSet(list) /\ minus1 \in Int
  BY FS_CardinalityType DEF CountInv, TypeInv, TypeOK
<1>2. CASE list' = list
  BY <1>1, <1>2 DEF CountInv, ListStep
<1>3. ASSUME NEW n \in Threads \ list, list' = list \cup {n},
             Pending, ~Pending', UNCHANGED minus1
      PROVE  CountInv'
  <2>1. IsFiniteSet(list') /\ Cardinality(list') = Cardinality(list) + 1
    BY <1>1, <1>3, FS_AddElement
  <2>2. QED
    BY <1>1, <1>3, <2>1 DEF CountInv
<1>4. ASSUME NEW n \in list, list' = list \ {n},
             ~Pending, ~Pending', minus1' = minus1 - 1
      PROVE  CountInv'
  <2>1. IsFiniteSet(list') /\ Cardinality(list') = Cardinality(list) - 1
    BY <1>1, <1>4, FS_RemoveElement
  <2>2. QED
    BY <1>1, <1>4, <2>1 DEF CountInv
<1>5. QED
  BY <1>2, <1>3, <1>4 DEF ListStep

\* The creator of a thread, and a thread that found others, is not alone.
LEMMA OthersCounted ==
  TypeInv /\ HolderInv /\ MemberInv /\ CountInv => OthersAreCounted
<1> SUFFICES ASSUME TypeInv, HolderInv, MemberInv, CountInv,
                    Pending \/ (\E t \in Threads : pc[t] = "unlink")
             PROVE  minus1 >= 1
  BY DEF OthersAreCounted
<1>1. Cardinality(list) \in Nat /\ IsFiniteSet(list) /\ minus1 \in Int
  BY FS_CardinalityType DEF CountInv, TypeInv, TypeOK
<1>2. CASE Pending
  <2>1. lock \in list
    BY <1>2 DEF TypeInv, TypeOK, MemberInv, Pending, Fresh
  <2>2. Cardinality(list) # 0
    BY <1>1, <2>1, FS_EmptySet
  <2>3. QED
    BY <1>1, <1>2, <2>2 DEF CountInv
<1>3. CASE ~Pending
  <2>1. PICK t \in Threads : pc[t] = "unlink"
    BY <1>3
  <2>2. t \in list /\ list # {t}
    BY <2>1 DEF TypeInv, TypeOK, HolderInv, MutualExclusion, Inside, MemberInv, Fresh
  <2>3. PICK u \in list : u # t
    BY <2>2
  <2>4. Cardinality(list \ {t}) = Cardinality(list) - 1 /\ IsFiniteSet(list \ {t})
    BY <1>1, <2>2, FS_RemoveElement
  <2>5. Cardinality(list \ {t}) # 0 /\ Cardinality(list \ {t}) \in Nat
    BY <2>3, <2>4, FS_EmptySet, FS_CardinalityType
  <2>6. QED
    BY <1>1, <1>3, <2>4, <2>5 DEF CountInv
<1>4. QED
  BY <1>2, <1>3

\* tl_lock_waiters never falls behind the waiters.
LEMMA WaitersCounted ==
  TypeInv /\ WaitersInv /\ WaitersStep => WaitersInv'
<1> SUFFICES ASSUME TypeInv, WaitersInv, WaitersStep PROVE WaitersInv'
  OBVIOUS
<1>1. Cardinality(Waiters) \in Nat /\ IsFiniteSet(Waiters) /\ waiters \in Int
  BY FS_CardinalityType DEF WaitersInv, TypeInv, TypeOK
<1>2. CASE UNCHANGED <<Waiters, waiters>>
  BY <1>2 DEF WaitersInv
<1>3. ASSUME NEW t \in Threads \ Waiters, Waiters' = Waiters \cup {t},
             waiters' = waiters + 1
      PROVE  WaitersInv'
  <2>1. IsFiniteSet(Waiters') /\ Cardinality(Waiters') = Cardinality(Waiters) + 1
    BY <1>1, <1>3, FS_AddElement
  <2>2. QED
    BY <1>1, <1>3, <2>1 DEF WaitersInv
<1>4. ASSUME NEW t \in Waiters, Waiters' = Waiters \ {t}, waiters' = waiters - 1
      PROVE  WaitersInv'
  <2>1. IsFiniteSet(Waiters') /\ Cardinality(Waiters') = Cardinality(Waiters) - 1
    BY <1>1, <1>4, FS_RemoveElement
  <2>2. QED
    BY <1>1, <1>4, <2>1 DEF WaitersInv
<1>5. QED
  BY <1>2, <1>3, <1>4 DEF WaitersStep

\* A sleeper is among the waiters, so the count is positive.
LEMMA AsleepCounted ==
  TypeInv /\ WaitersInv => AsleepIsCounted
<1> SUFFICES ASSUME TypeInv, WaitersInv, NEW t \in Threads, pc[t] = "asleep"
             PROVE  waiters > 0
  BY DEF AsleepIsCounted
<1>1. t \in Waiters
  BY DEF Waiters
<1>2. Cardinality(Waiters) \in Nat \ {0}
  BY <1>1, FS_EmptySet, FS_CardinalityType DEF WaitersInv
<1>3. QED
  BY <1>2 DEF WaitersInv, TypeInv, TypeOK

-----------------------------------------------------------------------------
\* Types, ownership and joining: they hold in every reachable state.
THEOREM Invariance == Spec => [](TypeInv /\ HolderInv /\ JoinInv)
<1>1. Init => TypeInv /\ HolderInv /\ JoinInv
  BY ThreadListAssumption
     DEF Init, TypeInv, TypeOK, WantInv, HolderInv, MutualExclusion, Inside,
         InGroup, JoinInv, UnmappedIsGone, PCs
<1>2. TypeInv /\ HolderInv /\ JoinInv /\ [Next]_vars
        => (TypeInv /\ HolderInv /\ JoinInv)'
  BY TypeNext, HolderNext, JoinNext
<1>3. QED
  BY <1>1, <1>2, PTL DEF Spec

\* Every variable keeps its type (TypeOK).
THEOREM TypeCorrect == Spec => []TypeOK
<1>1. TypeInv => TypeOK
  BY DEF TypeInv
<1>2. QED
  BY <1>1, Invariance, PTL

\* At most one thread is between __tl_lock and the release of the lock, and it
\* is the one the lock word names, takeovers and exits included.
THEOREM Exclusion == Spec => []MutualExclusion
<1>1. HolderInv => MutualExclusion
  BY DEF HolderInv
<1>2. QED
  BY <1>1, Invariance, PTL

\* pthread_join and the failure path of pthread_create never unmap the stack of
\* a thread that can still use it.
THEOREM JoinSafety == Spec => []UnmappedIsGone
<1>1. JoinInv => UnmappedIsGone
  BY DEF JoinInv
<1>2. QED
  BY <1>1, Invariance, PTL

\* Every step of the library is a step of the abstract lock or leaves it alone.
THEOREM Implementation == Spec => ImplementsListLock
<1>1. Init => Abstract!Init
  BY ThreadListAssumption DEF Init, Abstract!Init
<1>2. TypeInv /\ HolderInv /\ [Next]_vars
        => [Abstract!Next]_(IF lock \in Threads THEN lock ELSE None)
  BY LockNext, ThreadListAssumption
     DEF LockStep, Abstract!Next, Abstract!Acquire, Abstract!Release
<1>3. QED
  BY <1>1, <1>2, Invariance, PTL DEF Spec, ImplementsListLock, Abstract!Spec

\* When no nesting count is inherited the count is always that of the owner:
\* the premise is exactly what the takeover in __tl_lock does not establish.
THEOREM Nesting ==
  ASSUME InheritedCounts \subseteq {0}
  PROVE  Spec => [](CountIsNesting /\ NothingHeldAtRest)
<1>1. Init => NestInv
  BY ThreadListAssumption DEF Init, NestInv, Inside, Creating
<1>2. TypeInv /\ HolderInv /\ NestInv => CountIsNesting /\ NothingHeldAtRest
  BY ThreadListAssumption
     DEF TypeInv, TypeOK, HolderInv, MutualExclusion, NestInv, CountIsNesting,
         NothingHeldAtRest, Inside
<1>3. QED
  BY <1>1, <1>2, NestNext, Invariance, PTL DEF Spec

\* The invariants of the list hold in every reachable state.
THEOREM ListInvariance ==
  Spec => [](TypeInv /\ HolderInv /\ MemberInv /\ CountInv /\ SingleInv)
<1>1. Init => MemberInv /\ CountInv /\ SingleInv
  <2> SUFFICES ASSUME Init PROVE MemberInv /\ CountInv /\ SingleInv
    OBVIOUS
  <2>1. MemberInv /\ SingleInv /\ ~Pending
    BY ThreadListAssumption DEF Init, MemberInv, SingleInv, Fresh, Pending, Ending
  <2>2. IsFiniteSet(list) /\ Cardinality(list) = 1 /\ minus1 = 0
    BY FS_Singleton DEF Init
  <2>3. QED
    BY <2>1, <2>2 DEF CountInv
<1>2. TypeInv /\ HolderInv /\ JoinInv /\ MemberInv /\ CountInv /\ SingleInv /\ [Next]_vars
        => (MemberInv /\ CountInv /\ SingleInv)'
  <2> SUFFICES ASSUME TypeInv, HolderInv, JoinInv, MemberInv, CountInv, SingleInv,
                      [Next]_vars
               PROVE  MemberInv' /\ CountInv' /\ SingleInv'
    OBVIOUS
  <2>1. MemberInv'
    BY MemberNext
  <2>2. ListStep
    BY ListNext
  <2>3. CountInv'
    BY <2>2, CountNext
  <2>4. SingleInv'
    BY OthersCounted, SingleNext
  <2>5. QED
    BY <2>1, <2>3, <2>4
<1>3. QED
  BY <1>1, <1>2, Invariance, PTL DEF Spec

\* Whoever holds the lock, or finds it free, sees in the list exactly the threads
\* that run, and libc.threads_minus_1 counts them.
THEOREM ListExact == Spec => []ListIsExact
<1>1. TypeInv /\ HolderInv /\ MemberInv /\ CountInv => ListIsExact
  <2> SUFFICES ASSUME TypeInv, HolderInv, MemberInv, CountInv,
                      lock = None \/ (\E t \in Threads : At(t, "cs"))
               PROVE  /\ list = {t \in Threads : pc[t] \notin {"unborn", "gone", "dead"}}
                      /\ minus1 = Cardinality(list) - 1
    BY DEF ListIsExact
  <2>1. ~Pending /\ (\A n \in Threads : ~Fresh(n))
    BY ThreadListAssumption DEF HolderInv, MutualExclusion, Inside, At, Pending, Fresh
  <2>2. \A t \in Threads : pc[t] \notin {"announce", "sysexit"}
    BY ThreadListAssumption DEF HolderInv, MutualExclusion, Inside, At
  <2>3. list \subseteq Threads
    BY DEF TypeInv, TypeOK
  <2>4. list = {t \in Threads : pc[t] \notin {"unborn", "gone", "dead"}}
    BY <2>1, <2>2, <2>3 DEF MemberInv
  <2>5. QED
    BY <2>1, <2>4 DEF CountInv
<1>2. QED
  BY <1>1, ListInvariance, PTL

\* LOCK() is skipped only by a thread that is alone.
THEOREM LockSkippedAlone == Spec => []NeedLocksIsSound
<1>1. TypeInv /\ HolderInv /\ MemberInv /\ CountInv /\ SingleInv => NeedLocksIsSound
  <2> SUFFICES ASSUME TypeInv, HolderInv, MemberInv, CountInv, SingleInv,
                      needLocks = 0, NEW s \in Threads, NEW t \in Threads,
                      RunsLOCK(s), RunsLOCK(t)
               PROVE  s = t
    BY DEF NeedLocksIsSound
  <2>1. ~Pending /\ minus1 = 0
    <3>1. minus1 = 0
      BY DEF SingleInv
    <3>2. QED
      BY <3>1, OthersCounted DEF OthersAreCounted
  <2>2. IsFiniteSet(list) /\ Cardinality(list) = 1
    <3>1. Cardinality(list) \in Nat
      BY FS_CardinalityType DEF CountInv
    <3>2. QED
      BY <2>1, <3>1 DEF CountInv
  <2>3. s \in list /\ t \in list
    BY <2>1 DEF RunsLOCK, MemberInv, Fresh, Pending
  <2>4. PICK x : list = {x}
    BY <2>2, FS_Singleton
  <2>5. QED
    BY <2>3, <2>4
<1>2. QED
  BY <1>1, ListInvariance, PTL

\* Single wake-ups are enough: nobody sleeps on a free lock unless another
\* thread is about to take it or to wake a sleeper.
THEOREM NoLostWakeup == Spec => []WakeupIsPending
<1>1. Init => WaitersInv /\ WakeInv
  <2> SUFFICES ASSUME Init PROVE WaitersInv /\ WakeInv
    OBVIOUS
  <2>1. WakeInv
    BY ThreadListAssumption DEF Init, WakeInv, WakeupIsPending, At
  <2>2. Waiters = {}
    BY ThreadListAssumption DEF Init, Waiters
  <2>3. QED
    BY <2>1, <2>2, FS_EmptySet, ThreadListAssumption DEF Init, WaitersInv
<1>2. TypeInv /\ HolderInv /\ WaitersInv /\ WakeInv /\ [Next]_vars
        => (WaitersInv /\ WakeInv)'
  <2> SUFFICES ASSUME TypeInv, HolderInv, WaitersInv, WakeInv, [Next]_vars
               PROVE  WaitersInv' /\ WakeInv'
    OBVIOUS
  <2>1. WaitersInv'
    BY WaitersNext, WaitersCounted
  <2>2. WakeInv'
    BY AsleepCounted, WakeNext
  <2>3. QED
    BY <2>1, <2>2
<1>3. WakeInv => WakeupIsPending
  BY DEF WakeInv
<1>4. QED
  BY <1>1, <1>2, <1>3, Invariance, PTL DEF Spec
===============================================================================
