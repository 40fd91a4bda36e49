------------------------------- MODULE Synccall -------------------------------
(***************************************************************************)
(* __synccall runs a callback in every thread of the process while all of  *)
(* them are caught in a signal handler; setxid and setgroups use it to     *)
(* give the whole process new ids (src/thread/synccall.c,                  *)
(* src/unistd/setxid.c, src/linux/setgroups.c).                            *)
(*                                                                         *)
(* The thread list lock keeps the list of threads fixed for the whole of a *)
(* call; it is used here through its abstract specification ListLock,      *)
(* which ThreadList implements.  The two semaphores are shared by all      *)
(* handlers.  The process is one whose threads are all past their start.   *)
(***************************************************************************)
EXTENDS Integers, FiniteSets

CONSTANTS
  Threads,   \* the threads in the list
  None,      \* no thread: the free lock, target_tid 0
  Ids,       \* user ids, or sets of groups
  Failures,  \* system calls that can fail
  MaxCalls   \* bound on the number of calls

ASSUME SynccallAssumption ==
  /\ None \notin Threads
  /\ IsFiniteSet(Threads)
  /\ Failures \subseteq {"tkill", "setids"}
  /\ MaxCalls \in Nat

VARIABLES
  lock,      \* the thread list lock
  pc,        \* where each thread stands in __synccall
  handler,   \* where each thread stands in the signal handler
  pending,   \* threads with SIGSYNCCALL pending
  target,    \* target_tid
  todo,      \* threads of the list not yet signalled
  count,     \* threads caught
  left,      \* what is left of the loops over the caught threads
  callerSem, \* caller_sem
  targetSem, \* target_sem
  aborted,   \* the callback has been replaced by dummy
  op,        \* the call that is in progress, and the id it asks for
  ret,       \* c->ret
  own,       \* the result of each thread's own system call
  cred,      \* the id the kernel keeps for each thread
  old,       \* history: the ids when the call began
  result,    \* what the last call returned
  killed,    \* the process has killed itself
  calls      \* calls made

caller == <<pc, todo, count, left, op, old, result, calls>>
ctx    == <<aborted, ret, own, cred, killed>>
sems   == <<callerSem, targetSem>>
caught == <<handler, pending, target>>
vars   == <<lock, caller, ctx, sems, caught>>

List == INSTANCE ListLock WITH holder <- lock, Free <- None

CallerPCs == {"run", "lock", "signal", "caught", "post", "posted", "func", "end",
              "release", "collect"}
HandlerPCs == {"none", "wait", "func", "end", "post", "hold", "return"}

Init ==
  /\ lock = None
  /\ pc = [t \in Threads |-> "run"]
  /\ handler = [t \in Threads |-> "none"]
  /\ pending = {} /\ target = None
  /\ todo = {} /\ count = 0 /\ left = 0
  /\ callerSem = 0 /\ targetSem = 0
  /\ aborted = FALSE /\ ret = 1
  /\ op \in [call : {"setxid"}, id : Ids]
  /\ own = [t \in Threads |-> 0]
  /\ \E i \in Ids : cred = [t \in Threads |-> i]
  /\ old = cred
  /\ result = "none"
  /\ killed = FALSE /\ calls = 0

At(t, l)    == pc[t] = l /\ handler[t] = "none"
Goto(t, l)  == pc' = [pc EXCEPT ![t] = l]
In(u, l)    == handler[u] = l
To(u, l)    == handler' = [handler EXCEPT ![u] = l]
PostCaller  == callerSem' = callerSem + 1 /\ UNCHANGED targetSem
WaitCaller  == callerSem > 0 /\ callerSem' = callerSem - 1 /\ UNCHANGED targetSem

-----------------------------------------------------------------------------
(* The callbacks do_setxid and do_setgroups, run by the thread e *)

\* A failure seen by an earlier thread makes the later ones return at once.
CallbackSkips == aborted \/ ret < 0

CallbackTries(e) ==
  /\ ~CallbackSkips
  /\ \/ own' = [own EXCEPT ![e] = 0] /\ cred' = [cred EXCEPT ![e] = op.id]
     \/ /\ "setids" \in Failures
        /\ own' = [own EXCEPT ![e] = -1] /\ UNCHANGED cred
  /\ UNCHANGED <<aborted, ret, killed>>

\* Mutant of CallbackEnds: the process is not killed.
CallbackEndsAlive(e) ==
  /\ ret' = own[e]
  /\ UNCHANGED <<killed, aborted, own, cred>>

\* A failure after a success kills the process.
CallbackEnds(e) ==
  /\ killed' = (own[e] # 0 /\ ret = 0)
  /\ ret' = own[e]
  /\ UNCHANGED <<aborted, own, cred>>

-----------------------------------------------------------------------------
(* __synccall *)

\* setxid or setgroups is called: application signals are blocked.
Call(t) ==
  /\ At(t, "run") /\ calls < MaxCalls
  /\ calls' = calls + 1
  /\ Goto(t, "lock")
  /\ UNCHANGED <<lock, todo, count, left, op, old, result, ctx, sems, caught>>

\* __tl_lock, then all signals are blocked; what was called is drawn here.
Locked(t) ==
  /\ At(t, "lock")
  /\ List!Acquire(t)
  /\ op' \in [call : {"setxid", "setgroups"}, id : Ids]
  /\ ret' = 1 /\ aborted' = FALSE
  /\ old' = cred
  /\ todo' = Threads \ {t} /\ count' = 0
  /\ Goto(t, "signal")
  /\ UNCHANGED <<left, result, calls, own, cred, killed, sems, caught>>

\* tkill, which is repeated while it says EAGAIN
Signal(t, u) ==
  /\ At(t, "signal") /\ u \in todo
  /\ target' = u
  /\ pending' = pending \cup {u}
  /\ todo' = todo \ {u}
  /\ Goto(t, "caught")
  /\ UNCHANGED <<lock, count, left, op, old, result, calls, ctx, sems, handler>>

\* Mutant of SignalFails: the callback is not replaced by dummy.
SignalFailsQuietly(t) ==
  /\ At(t, "signal") /\ todo # {} /\ "tkill" \in Failures
  /\ left' = count
  /\ Goto(t, "post")
  /\ UNCHANGED <<lock, todo, count, op, old, result, calls, ctx, sems, caught>>

\* A thread that cannot be signalled aborts the call; target_tid is cleared.
SignalFails(t) ==
  /\ At(t, "signal") /\ todo # {} /\ "tkill" \in Failures
  /\ aborted' = TRUE
  /\ target' = None
  /\ left' = count
  /\ Goto(t, "post")
  /\ UNCHANGED <<lock, todo, count, op, old, result, calls, ret, own, cred, killed,
                 sems, handler, pending>>

AllSignalled(t) ==
  /\ At(t, "signal") /\ todo = {}
  /\ target' = None
  /\ left' = count
  /\ Goto(t, "post")
  /\ UNCHANGED <<lock, todo, count, op, old, result, calls, ctx, sems, handler, pending>>

Caught(t) ==
  /\ At(t, "caught")
  /\ WaitCaller
  /\ count' = count + 1
  /\ Goto(t, "signal")
  /\ UNCHANGED <<lock, todo, left, op, old, result, calls, ctx, caught>>

\* The serializing loop: one post of target_sem, one wait for caller_sem.
Post(t) ==
  /\ At(t, "post")
  /\ \/ left > 0 /\ targetSem' = targetSem + 1 /\ Goto(t, "posted")
     \/ left = 0 /\ UNCHANGED targetSem /\ Goto(t, "func")
  /\ UNCHANGED <<lock, todo, count, left, op, old, result, calls, callerSem, ctx, caught>>

Posted(t) ==
  /\ At(t, "posted")
  /\ WaitCaller
  /\ left' = left - 1
  /\ Goto(t, "post")
  /\ UNCHANGED <<lock, todo, count, op, old, result, calls, ctx, caught>>

\* func(ctx) in the caller itself
Func(t) ==
  /\ At(t, "func")
  /\ \/ CallbackSkips /\ Goto(t, "release") /\ UNCHANGED ctx
     \/ CallbackTries(t) /\ Goto(t, "end")
  /\ UNCHANGED <<lock, todo, count, left, op, old, result, calls, sems, caught>>

FuncEnds(t) ==
  /\ At(t, "end")
  /\ CallbackEnds(t)
  /\ Goto(t, "release")
  /\ UNCHANGED <<lock, todo, count, left, op, old, result, calls, sems, caught>>

Release(t) ==
  /\ At(t, "release")
  /\ targetSem' = targetSem + count
  /\ left' = count
  /\ Goto(t, "collect")
  /\ UNCHANGED <<lock, todo, count, op, old, result, calls, callerSem, ctx, caught>>

Collect(t) ==
  /\ At(t, "collect") /\ left > 0
  /\ WaitCaller
  /\ left' = left - 1
  /\ UNCHANGED <<lock, pc, todo, count, op, old, result, calls, ctx, caught>>

\* setxid turns a callback that never ran into EAGAIN, setgroups returns 1.
Result ==
  CASE ret < 0 -> "failed"
    [] ret = 0 -> "done"
    [] ret > 0 -> IF op.call = "setxid" THEN "failed" ELSE "one"

\* Mutant of Unlock: the caller does not wait for the handlers to return.
UnlockEarly(t) ==
  /\ At(t, "collect")
  /\ List!Release
  /\ result' = Result
  /\ Goto(t, "run")
  /\ UNCHANGED <<todo, count, left, op, old, calls, ctx, sems, caught>>

\* The semaphores are destroyed, the list unlocked and the signals restored.
Unlock(t) ==
  /\ At(t, "collect") /\ left = 0
  /\ List!Release
  /\ result' = Result
  /\ Goto(t, "run")
  /\ UNCHANGED <<todo, count, left, op, old, calls, ctx, sems, caught>>

-----------------------------------------------------------------------------
(* The handler of SIGSYNCCALL *)

\* Mutant of Deliver: every signal is blocked before the lock is taken.
DeliverUnlessLocking(u) ==
  /\ u \in pending /\ At(u, "run")
  /\ pending' = pending \ {u}
  /\ To(u, "wait") /\ PostCaller
  /\ UNCHANGED <<lock, caller, ctx, target>>

\* SIGSYNCCALL stays unblocked while a thread waits for the list lock.
Deliver(u) ==
  /\ u \in pending /\ In(u, "none") /\ pc[u] \in {"run", "lock"}
  /\ pending' = pending \ {u}
  /\ \/ target = u /\ To(u, "wait") /\ PostCaller
     \/ target # u /\ UNCHANGED <<handler, sems>>
  /\ UNCHANGED <<lock, caller, ctx, target>>

\* The first sem_wait(&target_sem)
Proceed(u) ==
  /\ In(u, "wait") /\ targetSem > 0
  /\ targetSem' = targetSem - 1
  /\ To(u, "func")
  /\ UNCHANGED <<lock, caller, ctx, callerSem, pending, target>>

HandlerFunc(u) ==
  /\ In(u, "func")
  /\ \/ CallbackSkips /\ To(u, "post") /\ UNCHANGED ctx
     \/ CallbackTries(u) /\ To(u, "end")
  /\ UNCHANGED <<lock, caller, sems, pending, target>>

HandlerFuncEnds(u) ==
  /\ In(u, "end")
  /\ CallbackEnds(u)
  /\ To(u, "post")
  /\ UNCHANGED <<lock, caller, sems, pending, target>>

HandlerPost(u) ==
  /\ In(u, "post")
  /\ PostCaller
  /\ To(u, "hold")
  /\ UNCHANGED <<lock, caller, ctx, pending, target>>

\* The second sem_wait(&target_sem), on the same semaphore as the first
Resume(u) ==
  /\ In(u, "hold") /\ targetSem > 0
  /\ targetSem' = targetSem - 1
  /\ To(u, "return")
  /\ UNCHANGED <<lock, caller, ctx, callerSem, pending, target>>

Return(u) ==
  /\ In(u, "return")
  /\ PostCaller
  /\ To(u, "none")
  /\ UNCHANGED <<lock, caller, ctx, pending, target>>

-----------------------------------------------------------------------------
Advance(t) ==
  \/ Locked(t) \/ AllSignalled(t) \/ Caught(t) \/ Post(t) \/ Posted(t)
  \/ Func(t) \/ FuncEnds(t) \/ Release(t) \/ Collect(t) \/ Unlock(t)
  \/ SignalFails(t) \/ \E u \in Threads : Signal(t, u)
  \/ Deliver(t) \/ Proceed(t) \/ HandlerFunc(t) \/ HandlerFuncEnds(t)
  \/ HandlerPost(t) \/ Resume(t) \/ Return(t)

Finished == killed \/ (calls = MaxCalls /\ \A t \in Threads : At(t, "run"))

Next ==
  \/ Finished /\ UNCHANGED vars
  \/ ~killed /\ \E t \in Threads : Call(t) \/ Advance(t)

Spec == Init /\ [][Next]_vars

\* Every thread of the process that can run does.
FairSpec == Spec /\ \A t \in Threads : WF_vars(~killed /\ Advance(t))

-----------------------------------------------------------------------------
(* Properties *)

Agree == \A s, t \in Threads : cred[s] = cred[t]

\* Outside a call all threads of a living process have the same ids, whatever
\* failed and in whichever thread (do_setxid's kill, __synccall's abort).
AllOrNothing == lock = None /\ ~killed => Agree

\* What a call returns tells whether the ids were changed: "done" and nothing
\* else means that every thread has the id that was asked for.
ReportIsHonest ==
  [][\A t \in Threads : Unlock(t) =>
       \/ result' = "done" /\ \A u \in Threads : cred[u] = op.id
       \/ result' # "done" /\ cred = old]_vars

\* "Inform caller we are returning and state is destroyable": when the caller
\* destroys the semaphores both are drained and no handler is left inside,
\* also after an aborted call.
DestroyableAtEnd ==
  lock = None =>
    /\ callerSem = 0 /\ targetSem = 0
    /\ pending = {} /\ \A u \in Threads : In(u, "none")

\* Concurrent calls do not deadlock: whoever holds the list lock for a call
\* gives it up ("Blocking them all first would deadlock").
CallEnds == (lock # None) ~> (lock = None \/ killed)

\* "Only release the caught threads once all threads, including the caller,
\* have returned from the callback function."
ReleasedTogether ==
  (\E u \in Threads : In(u, "return")) =>
    /\ \A u \in Threads : handler[u] \notin {"wait", "func", "end"}
    /\ \A t \in Threads : pc[t] \notin {"post", "posted", "func", "end"}
===============================================================================
