---------------------------- MODULE SynccallProofs ----------------------------
(***************************************************************************)
(* Proofs about Synccall, for every finite set of threads, every set of    *)
(* ids, every number of calls and whatever system calls fail.              *)
(*                                                                         *)
(*   TypeInv    the types;                                                 *)
(*   HolderInv  who calls holds the list lock, who is caught does not;     *)
(*   CatchInv   threads are caught one by one;                             *)
(*   TokenInv   both semaphores hold what was posted and not waited for:   *)
(*              the handlers wait twice on one semaphore, so it is only    *)
(*              the sums that tell how many threads may run;               *)
(*   CredInv    which threads have the new ids.                            *)
(***************************************************************************)
EXTENDS Synccall, FiniteSetTheorems, TLAPS

TypeInv ==
  /\ lock \in Threads \cup {None}
  /\ pc \in [Threads -> CallerPCs]
  /\ handler \in [Threads -> HandlerPCs]
  /\ pending \subseteq Threads /\ todo \subseteq Threads
  /\ target \in Threads \cup {None}
  /\ count \in Nat /\ left \in Nat /\ callerSem \in Nat /\ targetSem \in Nat
  /\ aborted \in BOOLEAN /\ killed \in BOOLEAN
  /\ op \in [call : {"setxid", "setgroups"}, id : Ids]
  /\ ret \in {-1, 0, 1}
  /\ own \in [Threads -> {-1, 0}]
  /\ cred \in [Threads -> Ids] /\ old \in [Threads -> Ids]

\* The caller holds the list lock, and is not caught itself; nobody is caught
\* without a caller.
HolderInv ==
  /\ \A t \in Threads : pc[t] \notin {"run", "lock"} <=> lock = t
  /\ \A t \in Threads : handler[t] # "none" => lock # t
  /\ DestroyableAtEnd

\* The number of threads whose handler stands at one of S.
Num(S) == Cardinality({u \in Threads : handler[u] \in S})

InHandler == {"wait", "func", "end", "post", "hold", "return"}

NInside  == Num(InHandler)
NBusy    == Num({"func", "end", "post"})  \* between the first wait and the first post
NHalted  == Num({"hold", "return"})       \* past the first post
NLeaving == Num({"return"})               \* past the second wait
numbers  == <<NInside, NBusy, NHalted, NLeaving>>

Serial == {"post", "posted", "func", "end", "release"}
Later  == Serial \cup {"collect"}

\* While threads are signalled, those not to be signalled any more are caught
\* and wait, but for the last one, whose signal may still be pending.
CatchInv ==
  lock # None =>
    /\ pc[lock] \in {"signal", "caught"} =>
         /\ targetSem = 0 /\ lock \notin todo
         /\ \A u \in Threads : handler[u] \in {"none", "wait"}
    /\ pc[lock] = "signal" =>
         /\ pending = {} /\ callerSem = 0 /\ NInside = count
         /\ \A u \in Threads \ {lock} : u \in todo <=> handler[u] = "none"
    /\ pc[lock] = "caught" =>
         /\ target \in Threads \ (todo \cup {lock})
         /\ \A u \in Threads \ {lock, target} : u \in todo <=> handler[u] = "none"
         /\ \/ /\ pending = {target} /\ handler[target] = "none"
               /\ callerSem = 0 /\ NInside = count
            \/ /\ pending = {} /\ handler[target] = "wait"
               /\ callerSem = 1 /\ NInside = count + 1
    /\ pc[lock] \in Later => pending = {}

\* The caller's posts of target_sem, and its waits for caller_sem, since all
\* threads were signalled.
Posts ==
  IF pc[lock] = "collect" THEN 2 * count
  ELSE IF pc[lock] = "posted" THEN (count - left) + 1 ELSE count - left

Waits == IF pc[lock] = "collect" THEN 2 * count - left ELSE count - left

\* What is in the semaphores is what was posted and not yet waited for: of the
\* count handlers, those not inside any more have waited twice and posted twice.
TokenInv ==
  lock # None /\ pc[lock] \in Later =>
    /\ left <= count
    /\ pc[lock] = "posted" => left > 0
    /\ pc[lock] \in {"func", "end", "release"} => left = 0
    /\ targetSem = Posts - NBusy - NHalted - NLeaving
                         - 2 * (count - NInside)
    /\ callerSem = NHalted + 2 * (count - NInside) - Waits

\* Threads between the system call of the callback and its end, and threads that
\* have not come to it.
Trying(x) == handler[x] = "end" \/ pc[x] = "end"
Untried(x) ==
  \/ x = lock /\ pc[x] \in {"signal", "caught", "post", "posted", "func"}
  \/ x # lock /\ (pc[lock] \in {"signal", "caught"} \/ handler[x] \in {"wait", "func"})

\* Until a failure, the threads that are past the callback have the new id and
\* those before it the old one; after a failure in the first thread to try, or
\* in the signalling, nobody has changed.
CredInv ==
  /\ AllOrNothing
  /\ lock # None /\ ~killed =>
       /\ \A s, t \in Threads : old[s] = old[t]
       /\ pc[lock] \in {"signal", "caught"} => ret = 1 /\ ~aborted
       /\ aborted => ret = 1
       /\ aborted \/ ret < 0 => cred = old /\ \A x \in Threads : ~Trying(x)
       /\ ~aborted /\ ret >= 0 =>
            \A x \in Threads :
              /\ Trying(x) => \/ own[x] = 0 /\ cred[x] = op.id
                              \/ own[x] = -1 /\ cred[x] = old[x]
              /\ Untried(x) => cred[x] = old[x]
              /\ ~Trying(x) /\ ~Untried(x) => ret = 0 /\ cred[x] = op.id

-----------------------------------------------------------------------------
(* Counting handlers *)

\* The handlers at one of S are finitely many, as the threads are.
LEMMA NumType ==
  ASSUME NEW S
  PROVE  IsFiniteSet({u \in Threads : handler[u] \in S}) /\ Num(S) \in Nat
BY FS_Subset, FS_CardinalityType, SynccallAssumption DEF Num

\* None of the handlers stands at one of S if and only if their number is 0.
LEMMA NumZero ==
  ASSUME NEW S
  PROVE  Num(S) = 0 <=> \A u \in Threads : handler[u] \notin S
<1>1. Num(S) = 0 <=> {u \in Threads : handler[u] \in S} = {}
  BY NumType, FS_EmptySet DEF Num
<1>2. QED
  BY <1>1

\* When their number is at most 1, two of them are the same.
LEMMA NumOne ==
  ASSUME NEW S, Num(S) <= 1, NEW u \in Threads, NEW v \in Threads,
         handler[u] \in S, handler[v] \in S
  PROVE  u = v
<1> DEFINE H == {x \in Threads : handler[x] \in S}
<1>1. IsFiniteSet(H) /\ Cardinality(H) \in Nat /\ Cardinality(H) <= 1
  BY NumType DEF Num
<1>2. u \in H /\ v \in H
  OBVIOUS
<1> HIDE DEF H
<1>3. Cardinality(H) # 0
  BY <1>1, <1>2, FS_EmptySet
<1>4. Cardinality(H) = 1
  BY <1>1, <1>3
<1>5. PICK x : H = {x}
  BY <1>1, <1>4, FS_Singleton
<1>6. QED
  BY <1>2, <1>5

\* A larger set of places holds at least as many handlers.
LEMMA NumSubset ==
  ASSUME NEW S, NEW T, S \subseteq T
  PROVE  Num(S) <= Num(T)
<1>1. {u \in Threads : handler[u] \in S} \in SUBSET {u \in Threads : handler[u] \in T}
  OBVIOUS
<1>2. QED
  BY <1>1, NumType, FS_Subset DEF Num

\* A handler that moves is counted where it goes and not where it was.
LEMMA NumMove ==
  ASSUME TypeInv, NEW S, NEW u \in Threads, NEW b,
         handler' = [handler EXCEPT ![u] = b]
  PROVE  Num(S)' = Num(S) + (IF b \in S THEN 1 ELSE 0) - (IF handler[u] \in S THEN 1 ELSE 0)
<1> DEFINE H == {x \in Threads : handler[x] \in S}
           G == {x \in Threads : handler'[x] \in S}
<1>1. IsFiniteSet(H) /\ Cardinality(H) \in Nat
  BY NumType DEF Num
<1>2. Num(S) = Cardinality(H) /\ Num(S)' = Cardinality(G)
  BY DEF Num
<1>3. \A x \in Threads \ {u} : x \in H <=> x \in G
  BY DEF TypeInv
<1>4. (u \in H <=> handler[u] \in S) /\ (u \in G <=> b \in S)
  BY DEF TypeInv
<1>5. H \subseteq Threads /\ G \subseteq Threads
  OBVIOUS
<1> HIDE DEF H, G
<1>6. CASE b \in S /\ handler[u] \notin S
  <2>1. G = H \cup {u} /\ u \notin H
    BY <1>3, <1>4, <1>5, <1>6
  <2>2. Cardinality(G) = Cardinality(H) + 1
    BY <1>1, <2>1, FS_AddElement
  <2>3. QED
    BY <1>1, <1>2, <1>6, <2>2
<1>7. CASE b \notin S /\ handler[u] \in S
  <2>1. G = H \ {u} /\ u \in H
    BY <1>3, <1>4, <1>5, <1>7
  <2>2. Cardinality(G) = Cardinality(H) - 1
    BY <1>1, <2>1, FS_RemoveElement
  <2>3. QED
    BY <1>1, <1>2, <1>7, <2>2
<1>8. CASE b \in S <=> handler[u] \in S
  <2>1. G = H
    BY <1>3, <1>4, <1>5, <1>8
  <2>2. QED
    BY <1>1, <1>2, <1>8, <2>1
<1>9. QED
  BY <1>6, <1>7, <1>8

\* The four numbers the invariants use are numbers; who is halted is inside.
LEMMA Numbers ==
  /\ NInside \in Nat /\ NBusy \in Nat /\ NHalted \in Nat /\ NLeaving \in Nat
  /\ NHalted <= NInside
<1>1. NInside \in Nat /\ NBusy \in Nat /\ NHalted \in Nat /\ NLeaving \in Nat
  BY NumType DEF NInside, NBusy, NHalted, NLeaving
<1>2. NHalted <= NInside
  BY NumSubset DEF NInside, NHalted, InHandler
<1>3. QED
  BY <1>1, <1>2

\* They change only with the handlers.
LEMMA NumbersStay ==
  ASSUME UNCHANGED handler
  PROVE  UNCHANGED numbers
BY DEF numbers, NInside, NBusy, NHalted, NLeaving, Num

\* How each step of a handler changes them.
LEMMA NumbersMove ==
  ASSUME TypeInv, NEW u \in Threads, NEW a, NEW b,
         handler[u] = a, handler' = [handler EXCEPT ![u] = b]
  PROVE  /\ a = "none" /\ b = "wait" =>
              NInside' = NInside + 1 /\ UNCHANGED <<NBusy, NHalted, NLeaving>>
         /\ a = "wait" /\ b = "func" =>
              NBusy' = NBusy + 1 /\ UNCHANGED <<NInside, NHalted, NLeaving>>
         /\ a \in {"func", "end"} /\ b \in {"end", "post"} => UNCHANGED numbers
         /\ a = "post" /\ b = "hold" =>
              NBusy' = NBusy - 1 /\ NHalted' = NHalted + 1 /\ UNCHANGED <<NInside, NLeaving>>
         /\ a = "hold" /\ b = "return" =>
              NLeaving' = NLeaving + 1 /\ UNCHANGED <<NInside, NBusy, NHalted>>
         /\ a = "return" /\ b = "none" =>
              /\ NInside' = NInside - 1 /\ NHalted' = NHalted - 1 /\ NLeaving' = NLeaving - 1
              /\ UNCHANGED NBusy
<1> DEFINE In1(x, S) == IF x \in S THEN 1 ELSE 0
<1>1. /\ NInside' = NInside + In1(b, InHandler) - In1(a, InHandler)
      /\ NBusy' = NBusy + In1(b, {"func", "end", "post"}) - In1(a, {"func", "end", "post"})
      /\ NHalted' = NHalted + In1(b, {"hold", "return"}) - In1(a, {"hold", "return"})
      /\ NLeaving' = NLeaving + In1(b, {"return"}) - In1(a, {"return"})
  BY NumMove DEF NInside, NBusy, NHalted, NLeaving, InHandler
<1>2. QED
  BY <1>1, Numbers DEF numbers, InHandler

\* When all handlers wait or are not entered, only the first number counts.
LEMMA NumbersWait ==
  ASSUME \A u \in Threads : handler[u] \in {"none", "wait"}
  PROVE  NBusy = 0 /\ NHalted = 0 /\ NLeaving = 0
BY NumZero DEF NBusy, NHalted, NLeaving

-----------------------------------------------------------------------------
(* What the sums say *)

\* One more post than waits lets one thread run, none lets nobody run.
LEMMA Tokens ==
  ASSUME TypeInv, TokenInv, lock # None, pc[lock] \in Later
  PROVE  targetSem + callerSem + NBusy + NLeaving = Posts - Waits
<1>1. Posts \in Int /\ Waits \in Int
  BY DEF TypeInv, Posts, Waits
<1>2. QED
  BY <1>1, Numbers DEF TypeInv, TokenInv

\* Between the turns of the serializing loop, and while the caller runs the
\* callback itself, no handler runs it.
LEMMA Quiet ==
  ASSUME TypeInv, TokenInv, lock # None, pc[lock] \in Serial \ {"posted"}
  PROVE  \A u \in Threads : handler[u] \notin {"func", "end", "post", "return"}
<1>1. Posts - Waits = 0
  BY DEF TypeInv, Posts, Waits, Serial
<1>2. NBusy = 0 /\ NLeaving = 0
  BY <1>1, Tokens, Numbers DEF TypeInv, Later
<1>3. QED
  BY <1>2, NumZero DEF NBusy, NLeaving

\* In the serializing loop one handler at most runs the callback.
LEMMA OneBusy ==
  ASSUME TypeInv, TokenInv, lock # None, pc[lock] \in Serial,
         NEW u \in Threads, NEW v \in Threads,
         handler[u] \in {"func", "end", "post"}, handler[v] \in {"func", "end", "post"}
  PROVE  u = v
<1>1. Posts - Waits <= 1
  BY DEF TypeInv, Posts, Waits, Serial
<1>2. NBusy <= 1
  BY <1>1, Tokens, Numbers DEF TypeInv, Later
<1>3. QED
  BY <1>2, NumOne DEF NBusy

\* When the caller has collected all its waits every handler has returned.
LEMMA AllReturned ==
  ASSUME TypeInv, TokenInv, lock # None, pc[lock] = "collect", left = 0
  PROVE  /\ callerSem = 0 /\ targetSem = 0
         /\ \A u \in Threads : handler[u] = "none"
<1>1. Posts = 2 * count /\ Waits = 2 * count
  BY DEF TypeInv, Posts, Waits
<1>2. targetSem = 0 /\ callerSem = 0
  BY <1>1, Tokens, Numbers DEF TypeInv, Later
<1>3. 0 = NHalted + 2 * (count - NInside) - 2 * count
  BY <1>1, <1>2 DEF TokenInv, Later
<1>4. NInside = 0
  BY <1>3, Numbers DEF TypeInv
<1>5. \A u \in Threads : handler[u] \notin InHandler
  BY <1>4, NumZero DEF NInside
<1>6. QED
  BY <1>2, <1>5 DEF TypeInv, HandlerPCs, InHandler

-----------------------------------------------------------------------------
\* Every step keeps the types.
LEMMA TypeNext ==
  TypeInv /\ HolderInv /\ TokenInv /\ [Next]_vars => TypeInv'
<1> SUFFICES ASSUME TypeInv, HolderInv, TokenInv, [Next]_vars PROVE TypeInv'
  OBVIOUS
<1> USE SynccallAssumption DEF At, Goto, In, To, caller, ctx, sems, caught, TypeInv,
    CallerPCs, HandlerPCs
<1>1. CASE UNCHANGED vars
  BY <1>1 DEF vars
<1>2. ASSUME NEW t \in Threads, NEW u \in Threads, ~killed, Signal(t, u) PROVE TypeInv'
  BY <1>2 DEF Signal
<1>3. ASSUME NEW t \in Threads, ~killed, Call(t) \/ Advance(t) PROVE TypeInv'
  <2>1. CASE Call(t)
    BY <1>3, <2>1 DEF Call
  <2>2. CASE Locked(t)
    BY <1>3, <2>2 DEF Locked, List!Acquire
  <2>3. CASE AllSignalled(t)
    BY <1>3, <2>3 DEF AllSignalled
  <2>4. CASE SignalFails(t)
    BY <1>3, <2>4 DEF SignalFails
  <2>5. CASE Caught(t)
    BY <1>3, <2>5 DEF Caught, WaitCaller
  <2>6. CASE Post(t)
    BY <1>3, <2>6 DEF Post
  <2>7. CASE Posted(t)
    <3>1. left > 0
      BY <2>7 DEF Posted, HolderInv, TokenInv, Later, Serial
    <3>2. QED
      BY <2>7, <3>1 DEF Posted, WaitCaller
  <2>8. CASE Func(t)
    BY <1>3, <2>8 DEF Func, CallbackSkips, CallbackTries
  <2>9. CASE FuncEnds(t)
    BY <1>3, <2>9 DEF FuncEnds, CallbackEnds
  <2>10. CASE Release(t)
    BY <1>3, <2>10 DEF Release
  <2>11. CASE Collect(t)
    BY <1>3, <2>11 DEF Collect, WaitCaller
  <2>12. CASE Unlock(t)
    BY <1>3, <2>12 DEF Unlock, List!Release
  <2>13. CASE Deliver(t)
    BY <1>3, <2>13 DEF Deliver, PostCaller
  <2>14. CASE Proceed(t)
    BY <1>3, <2>14 DEF Proceed
  <2>15. CASE HandlerFunc(t)
    BY <1>3, <2>15 DEF HandlerFunc, CallbackSkips, CallbackTries
  <2>16. CASE HandlerFuncEnds(t)
    BY <1>3, <2>16 DEF HandlerFuncEnds, CallbackEnds
  <2>17. CASE HandlerPost(t)
    BY <1>3, <2>17 DEF HandlerPost, PostCaller
  <2>18. CASE Resume(t)
    BY <1>3, <2>18 DEF Resume
  <2>19. CASE Return(t)
    BY <1>3, <2>19 DEF Return, PostCaller
  <2>20. QED
    BY <1>2, <1>3, <2>1, <2>2, <2>3, <2>4, <2>5, <2>6, <2>7, <2>8, <2>9,
       <2>10, <2>11, <2>12, <2>13, <2>14, <2>15, <2>16, <2>17, <2>18, <2>19 DEF Advance
<1>4. QED
  BY <1>1, <1>2, <1>3 DEF Next, Advance

\* The lock is given back with everything drained.
LEMMA HolderNext ==
  TypeInv /\ HolderInv /\ CatchInv /\ TokenInv /\ [Next]_vars => HolderInv'
<1> SUFFICES ASSUME TypeInv, HolderInv, CatchInv, TokenInv, [Next]_vars PROVE HolderInv'
  OBVIOUS
<1> USE SynccallAssumption DEF At, Goto, In, To, caller, ctx, sems, caught, TypeInv,
    HolderInv, DestroyableAtEnd, CallerPCs, HandlerPCs
<1>1. CASE UNCHANGED vars
  BY <1>1 DEF vars
<1>2. ASSUME NEW t \in Threads, NEW u \in Threads, ~killed, Signal(t, u) PROVE HolderInv'
  BY <1>2 DEF Signal
<1>3. ASSUME NEW t \in Threads, ~killed, Call(t) \/ Advance(t) PROVE HolderInv'
  <2>1. CASE Call(t)
    BY <1>3, <2>1 DEF Call
  <2>2. CASE Locked(t)
    BY <1>3, <2>2 DEF Locked, List!Acquire
  <2>3. CASE AllSignalled(t)
    BY <1>3, <2>3 DEF AllSignalled
  <2>4. CASE SignalFails(t)
    BY <1>3, <2>4 DEF SignalFails
  <2>5. CASE Caught(t)
    BY <1>3, <2>5 DEF Caught, WaitCaller
  <2>6. CASE Post(t)
    BY <1>3, <2>6 DEF Post
  <2>7. CASE Posted(t)
    BY <1>3, <2>7 DEF Posted, WaitCaller
  <2>8. CASE Func(t)
    BY <1>3, <2>8 DEF Func, CallbackSkips, CallbackTries
  <2>9. CASE FuncEnds(t)
    BY <1>3, <2>9 DEF FuncEnds, CallbackEnds
  <2>10. CASE Release(t)
    BY <1>3, <2>10 DEF Release
  <2>11. CASE Collect(t)
    BY <1>3, <2>11 DEF Collect, WaitCaller
  <2>12. CASE Unlock(t)
    <3>1. lock = t /\ pc[lock] = "collect" /\ left = 0 /\ pending = {}
      BY <2>12 DEF Unlock, CatchInv, Later, List!Release
    <3>2. /\ callerSem = 0 /\ targetSem = 0
          /\ \A u \in Threads : handler[u] = "none"
      BY <3>1, AllReturned
    <3>3. QED
      BY <2>12, <3>1, <3>2 DEF Unlock, List!Release
  <2>13. CASE Deliver(t)
    BY <1>3, <2>13 DEF Deliver, PostCaller
  <2>14. CASE Proceed(t)
    BY <1>3, <2>14 DEF Proceed
  <2>15. CASE HandlerFunc(t)
    BY <1>3, <2>15 DEF HandlerFunc, CallbackSkips, CallbackTries
  <2>16. CASE HandlerFuncEnds(t)
    BY <1>3, <2>16 DEF HandlerFuncEnds, CallbackEnds
  <2>17. CASE HandlerPost(t)
    BY <1>3, <2>17 DEF HandlerPost, PostCaller
  <2>18. CASE Resume(t)
    BY <1>3, <2>18 DEF Resume
  <2>19. CASE Return(t)
    BY <1>3, <2>19 DEF Return, PostCaller
  <2>20. QED
    BY <1>2, <1>3, <2>1, <2>2, <2>3, <2>4, <2>5, <2>6, <2>7, <2>8, <2>9,
       <2>10, <2>11, <2>12, <2>13, <2>14, <2>15, <2>16, <2>17, <2>18, <2>19 DEF Advance
<1>4. QED
  BY <1>1, <1>2, <1>3 DEF Next, Advance

\* Threads are caught one by one.
LEMMA CatchNext ==
  TypeInv /\ HolderInv /\ CatchInv /\ [Next]_vars => CatchInv'
<1> SUFFICES ASSUME TypeInv, HolderInv, CatchInv, [Next]_vars PROVE CatchInv'
  OBVIOUS
<1> USE SynccallAssumption DEF At, Goto, In, To, caller, ctx, sems, caught, TypeInv,
    HolderInv, DestroyableAtEnd, CatchInv, Later, Serial, CallerPCs, HandlerPCs
<1>1. CASE UNCHANGED vars
  <2>1. UNCHANGED numbers
    BY <1>1, NumbersStay DEF vars
  <2>2. QED
    BY <1>1, <2>1 DEF numbers, vars
<1>2. ASSUME NEW t \in Threads, NEW u \in Threads, ~killed, Signal(t, u) PROVE CatchInv'
  <2>1. UNCHANGED numbers
    BY <1>2, NumbersStay DEF Signal
  <2>2. QED
    BY <1>2, <2>1 DEF numbers, Signal
<1>3. ASSUME NEW t \in Threads, ~killed, Call(t) \/ Advance(t) PROVE CatchInv'
  <2>1. CASE Call(t)
    <3>1. UNCHANGED numbers
      BY <2>1, NumbersStay DEF Call
    <3>2. QED
      BY <2>1, <3>1, Numbers DEF numbers, Call
  <2>2. CASE Locked(t)
    <3>1. lock = None /\ (\A v \in Threads : handler[v] = "none")
      BY <2>2 DEF List!Acquire, Locked
    <3>2. UNCHANGED numbers /\ NInside = 0
      BY <2>2, <3>1, NumbersStay, NumZero DEF Locked, NInside, InHandler, numbers
    <3>3. QED
      BY <2>2, <3>1, <3>2 DEF Locked, List!Acquire, numbers
  <2>3. CASE AllSignalled(t)
    <3>1. UNCHANGED numbers
      BY <2>3, NumbersStay DEF AllSignalled
    <3>2. QED
      BY <2>3, <3>1, Numbers DEF numbers, AllSignalled
  <2>4. CASE SignalFails(t)
    <3>1. UNCHANGED numbers
      BY <2>4, NumbersStay DEF SignalFails
    <3>2. QED
      BY <2>4, <3>1, Numbers DEF numbers, SignalFails
  <2>5. CASE Caught(t)
    <3>1. UNCHANGED numbers
      BY <2>5, NumbersStay DEF Caught
    <3>2. QED
      BY <2>5, <3>1, Numbers DEF numbers, Caught, WaitCaller
  <2>6. CASE Post(t)
    <3>1. UNCHANGED numbers
      BY <2>6, NumbersStay DEF Post
    <3>2. QED
      BY <2>6, <3>1, Numbers DEF numbers, Post
  <2>7. CASE Posted(t)
    <3>1. UNCHANGED numbers
      BY <2>7, NumbersStay DEF Posted
    <3>2. QED
      BY <2>7, <3>1, Numbers DEF numbers, Posted, WaitCaller
  <2>8. CASE Func(t)
    <3>1. UNCHANGED numbers
      BY <2>8, NumbersStay DEF Func
    <3>2. QED
      BY <2>8, <3>1, Numbers DEF numbers, Func, CallbackSkips, CallbackTries
  <2>9. CASE FuncEnds(t)
    <3>1. UNCHANGED numbers
      BY <2>9, NumbersStay DEF FuncEnds
    <3>2. QED
      BY <2>9, <3>1, Numbers DEF numbers, FuncEnds, CallbackEnds
  <2>10. CASE Release(t)
    <3>1. UNCHANGED numbers
      BY <2>10, NumbersStay DEF Release
    <3>2. QED
      BY <2>10, <3>1, Numbers DEF numbers, Release
  <2>11. CASE Collect(t)
    <3>1. UNCHANGED numbers
      BY <2>11, NumbersStay DEF Collect
    <3>2. QED
      BY <2>11, <3>1, Numbers DEF numbers, Collect, WaitCaller
  <2>12. CASE Unlock(t)
    <3>1. UNCHANGED numbers
      BY <2>12, NumbersStay DEF Unlock
    <3>2. QED
      BY <2>12, <3>1, Numbers DEF numbers, Unlock, List!Release
  <2>13. CASE Deliver(t)
    <3>1. CASE target = t
      <4>1. handler' = [handler EXCEPT ![t] = "wait"] /\ handler[t] = "none"
        BY <2>13, <3>1 DEF Deliver
      <4>2. NInside' = NInside + 1
        BY <4>1, NumbersMove
      <4>3. QED
        BY <2>13, <3>1, <4>1, <4>2, Numbers DEF Deliver, PostCaller
    <3>2. CASE target # t
      <4>1. UNCHANGED numbers
        BY <2>13, <3>2, NumbersStay DEF Deliver
      <4>2. QED
        BY <2>13, <3>2, <4>1, Numbers DEF numbers, Deliver, PostCaller
    <3>3. QED
      BY <3>1, <3>2
  <2>14. CASE Proceed(t)
    BY <1>3, <2>14 DEF Proceed
  <2>15. CASE HandlerFunc(t)
    BY <1>3, <2>15 DEF HandlerFunc, CallbackSkips, CallbackTries
  <2>16. CASE HandlerFuncEnds(t)
    BY <1>3, <2>16 DEF HandlerFuncEnds, CallbackEnds
  <2>17. CASE HandlerPost(t)
    BY <1>3, <2>17 DEF HandlerPost, PostCaller
  <2>18. CASE Resume(t)
    BY <1>3, <2>18 DEF Resume
  <2>19. CASE Return(t)
    BY <1>3, <2>19 DEF Return, PostCaller
  <2>20. QED
    BY <1>2, <1>3, <2>1, <2>2, <2>3, <2>4, <2>5, <2>6, <2>7, <2>8, <2>9,
       <2>10, <2>11, <2>12, <2>13, <2>14, <2>15, <2>16, <2>17, <2>18, <2>19 DEF Advance
<1>4. QED
  BY <1>1, <1>2, <1>3 DEF Next, Advance

\* Every post and every wait is counted.
LEMMA TokenNext ==
  TypeInv /\ HolderInv /\ CatchInv /\ TokenInv /\ [Next]_vars => TokenInv'
<1> SUFFICES ASSUME TypeInv, HolderInv, CatchInv, TokenInv, [Next]_vars PROVE TokenInv'
  OBVIOUS
<1> USE SynccallAssumption DEF At, Goto, In, To, caller, ctx, sems, caught, TypeInv,
    HolderInv, DestroyableAtEnd, TokenInv, Posts, Waits, InHandler, Later, Serial,
    CallerPCs, HandlerPCs
<1>1. CASE UNCHANGED vars
  <2>1. UNCHANGED numbers
    BY <1>1, NumbersStay DEF vars
  <2>2. QED
    BY <1>1, <2>1 DEF numbers, vars
<1>2. ASSUME NEW t \in Threads, NEW u \in Threads, ~killed, Signal(t, u) PROVE TokenInv'
  <2>1. UNCHANGED numbers
    BY <1>2, NumbersStay DEF Signal
  <2>2. QED
    BY <1>2, <2>1 DEF numbers, Signal
<1>3. ASSUME NEW t \in Threads, ~killed, Call(t) \/ Advance(t) PROVE TokenInv'
  <2>1. CASE Call(t)
    <3>1. UNCHANGED numbers
      BY <2>1, NumbersStay DEF Call
    <3>2. QED
      BY <2>1, <3>1, Numbers DEF numbers, Call
  <2>2. CASE Locked(t)
    <3>1. UNCHANGED numbers
      BY <2>2, NumbersStay DEF Locked
    <3>2. QED
      BY <2>2, <3>1, Numbers DEF numbers, Locked, List!Acquire
  <2>3. CASE AllSignalled(t)
    <3>1. /\ NBusy = 0 /\ NHalted = 0 /\ NLeaving = 0 /\ NInside = count
          /\ callerSem = 0 /\ targetSem = 0
      BY <2>3, NumbersWait DEF AllSignalled, CatchInv
    <3>2. UNCHANGED numbers
      BY <2>3, NumbersStay DEF AllSignalled
    <3>3. QED
      <4>1. /\ lock = t /\ lock' = lock /\ pc'[lock] = "post" /\ left' = count
            /\ UNCHANGED <<count, callerSem, targetSem>>
        BY <2>3 DEF AllSignalled
      <4>2. Posts' = 0 /\ Waits' = 0
        BY <4>1 DEF Posts, Waits
      <4>3. QED
        BY <3>1, <3>2, <4>1, <4>2 DEF numbers
  <2>4. CASE SignalFails(t)
    <3>1. /\ NBusy = 0 /\ NHalted = 0 /\ NLeaving = 0 /\ NInside = count
          /\ callerSem = 0 /\ targetSem = 0
      BY <2>4, NumbersWait DEF SignalFails, CatchInv
    <3>2. UNCHANGED numbers
      BY <2>4, NumbersStay DEF SignalFails
    <3>3. QED
      <4>1. /\ lock = t /\ lock' = lock /\ pc'[lock] = "post" /\ left' = count
            /\ UNCHANGED <<count, callerSem, targetSem>>
        BY <2>4 DEF SignalFails
      <4>2. Posts' = 0 /\ Waits' = 0
        BY <4>1 DEF Posts, Waits
      <4>3. QED
        BY <3>1, <3>2, <4>1, <4>2 DEF numbers
  <2>5. CASE Caught(t)
    <3>1. UNCHANGED numbers
      BY <2>5, NumbersStay DEF Caught
    <3>2. QED
      BY <2>5, <3>1, Numbers DEF numbers, Caught, WaitCaller
  <2>6. CASE Post(t)
    <3>1. UNCHANGED numbers
      BY <2>6, NumbersStay DEF Post
    <3>2. QED
      BY <2>6, <3>1, Numbers DEF numbers, Post
  <2>7. CASE Posted(t)
    <3>1. UNCHANGED numbers
      BY <2>7, NumbersStay DEF Posted
    <3>2. QED
      BY <2>7, <3>1, Numbers DEF numbers, Posted, WaitCaller
  <2>8. CASE Func(t)
    <3>1. UNCHANGED numbers
      BY <2>8, NumbersStay DEF Func
    <3>2. QED
      BY <2>8, <3>1, Numbers DEF numbers, Func, CallbackSkips, CallbackTries
  <2>9. CASE FuncEnds(t)
    <3>1. UNCHANGED numbers
      BY <2>9, NumbersStay DEF FuncEnds
    <3>2. QED
      BY <2>9, <3>1, Numbers DEF numbers, FuncEnds, CallbackEnds
  <2>10. CASE Release(t)
    <3>1. UNCHANGED numbers
      BY <2>10, NumbersStay DEF Release
    <3>2. QED
      BY <2>10, <3>1, Numbers DEF numbers, Release
  <2>11. CASE Collect(t)
    <3>1. UNCHANGED numbers
      BY <2>11, NumbersStay DEF Collect
    <3>2. QED
      BY <2>11, <3>1, Numbers DEF numbers, Collect, WaitCaller
  <2>12. CASE Unlock(t)
    <3>1. UNCHANGED numbers
      BY <2>12, NumbersStay DEF Unlock
    <3>2. QED
      BY <2>12, <3>1, Numbers DEF numbers, Unlock, List!Release
  <2>13. CASE Deliver(t)
    <3>1. pc[lock] \notin Later
      BY <2>13 DEF Deliver, CatchInv, Later, Serial
    <3>2. QED
      BY <2>13, <3>1 DEF Deliver, Later, Serial
  <2>14. CASE Proceed(t)
    <3>1. handler[t] = "wait" /\ handler' = [handler EXCEPT ![t] = "func"]
      BY <2>14 DEF Proceed
    <3>2. NBusy' = NBusy + 1 /\ UNCHANGED <<NInside, NHalted, NLeaving>>
      BY <3>1, NumbersMove
    <3>3. QED
      BY <2>14, <3>1, <3>2, Numbers DEF numbers, Proceed
  <2>15. CASE HandlerFunc(t)
    <3>1. \E b \in {"end", "post"} : handler' = [handler EXCEPT ![t] = b]
      BY <2>15 DEF HandlerFunc
    <3>2. UNCHANGED numbers
      BY <2>15, <3>1, NumbersMove DEF HandlerFunc
    <3>3. QED
      BY <2>15, <3>2 DEF numbers, HandlerFunc, CallbackSkips, CallbackTries
  <2>16. CASE HandlerFuncEnds(t)
    <3>1. handler[t] = "end" /\ handler' = [handler EXCEPT ![t] = "post"]
      BY <2>16 DEF HandlerFuncEnds
    <3>2. UNCHANGED numbers
      BY <3>1, NumbersMove
    <3>3. QED
      BY <2>16, <3>1, <3>2, Numbers DEF numbers, HandlerFuncEnds, CallbackEnds
  <2>17. CASE HandlerPost(t)
    <3>1. handler[t] = "post" /\ handler' = [handler EXCEPT ![t] = "hold"]
      BY <2>17 DEF HandlerPost
    <3>2. NBusy' = NBusy - 1 /\ NHalted' = NHalted + 1 /\ UNCHANGED <<NInside, NLeaving>>
      BY <3>1, NumbersMove
    <3>3. QED
      BY <2>17, <3>1, <3>2, Numbers DEF numbers, HandlerPost, PostCaller
  <2>18. CASE Resume(t)
    <3>1. handler[t] = "hold" /\ handler' = [handler EXCEPT ![t] = "return"]
      BY <2>18 DEF Resume
    <3>2. NLeaving' = NLeaving + 1 /\ UNCHANGED <<NInside, NBusy, NHalted>>
      BY <3>1, NumbersMove
    <3>3. QED
      BY <2>18, <3>1, <3>2, Numbers DEF numbers, Resume
  <2>19. CASE Return(t)
    <3>1. handler[t] = "return" /\ handler' = [handler EXCEPT ![t] = "none"]
      BY <2>19 DEF Return
    <3>2. /\ NInside' = NInside - 1 /\ NHalted' = NHalted - 1 /\ NLeaving' = NLeaving - 1
          /\ UNCHANGED NBusy
      BY <3>1, NumbersMove
    <3>3. QED
      BY <2>19, <3>1, <3>2, Numbers DEF numbers, Return, PostCaller
  <2>20. QED
    BY <1>2, <1>3, <2>1, <2>2, <2>3, <2>4, <2>5, <2>6, <2>7, <2>8, <2>9,
       <2>10, <2>11, <2>12, <2>13, <2>14, <2>15, <2>16, <2>17, <2>18, <2>19 DEF Advance
<1>4. QED
  BY <1>1, <1>2, <1>3 DEF Next, Advance

\* No step leaves a thread behind.
LEMMA CredNext ==
  TypeInv /\ HolderInv /\ CatchInv /\ TokenInv /\ CredInv /\ [Next]_vars => CredInv'
<1> SUFFICES ASSUME TypeInv, HolderInv, CatchInv, TokenInv, CredInv, [Next]_vars PROVE CredInv'
  OBVIOUS
<1> USE SynccallAssumption DEF At, Goto, In, To, caller, ctx, sems, caught, TypeInv,
    HolderInv, DestroyableAtEnd, CredInv, AllOrNothing, Agree, Trying, Untried,
    CallerPCs, HandlerPCs
<1>1. CASE UNCHANGED vars
  BY <1>1 DEF vars
<1>2. ASSUME NEW t \in Threads, NEW u \in Threads, ~killed, Signal(t, u) PROVE CredInv'
  BY <1>2 DEF Signal
<1>3. ASSUME NEW t \in Threads, ~killed, Call(t) \/ Advance(t) PROVE CredInv'
  <2>1. CASE Call(t)
    BY <1>3, <2>1 DEF Call
  <2>2. CASE Locked(t)
    BY <1>3, <2>2 DEF Locked, List!Acquire
  <2>3. CASE AllSignalled(t)
    <3>1. lock = t /\ pc[lock] = "signal" /\ \A u \in Threads \ {t} : handler[u] = "wait"
      BY <2>3 DEF AllSignalled, CatchInv
    <3>2. QED
      BY <1>3, <2>3, <3>1 DEF AllSignalled
  <2>4. CASE SignalFails(t)
    <3>1. lock = t /\ pc[lock] = "signal" /\ \A u \in Threads : handler[u] \in {"none", "wait"}
      BY <2>4 DEF SignalFails, CatchInv
    <3>2. \A x \in Threads : cred[x] = old[x]
      BY <1>3, <3>1
    <3>3. cred = old
      BY <3>2
    <3>4. QED
      BY <1>3, <2>4, <3>1, <3>3 DEF SignalFails
  <2>5. CASE Caught(t)
    BY <1>3, <2>5 DEF Caught, WaitCaller
  <2>6. CASE Post(t)
    BY <1>3, <2>6 DEF Post
  <2>7. CASE Posted(t)
    BY <1>3, <2>7 DEF Posted, WaitCaller
  <2>8. CASE Func(t)
    BY <1>3, <2>8 DEF Func, CallbackSkips, CallbackTries
  <2>9. CASE FuncEnds(t)
    <3>1. lock = t /\ pc[lock] = "end"
      BY <2>9 DEF FuncEnds
    <3>2. \A u \in Threads : handler[u] \notin {"func", "end", "post", "return"}
      BY <3>1, Quiet DEF Serial
    <3>3. ~aborted /\ ret >= 0 /\ \A x \in Threads \ {t} : ~Trying(x)
      BY <1>3, <3>1, <3>2
    <3>4. CASE own[t] = 0
      BY <1>3, <2>9, <3>1, <3>2, <3>3, <3>4 DEF FuncEnds, CallbackEnds
    <3>5. CASE own[t] = -1 /\ ret = 1
      <4>1. \A x \in Threads : cred[x] = old[x]
        BY <1>3, <3>1, <3>3, <3>5
      <4>2. cred = old
        BY <4>1
      <4>3. QED
        BY <1>3, <2>9, <3>1, <3>2, <3>3, <3>5, <4>2 DEF FuncEnds, CallbackEnds
    <3>6. CASE own[t] = -1 /\ ret = 0
      <4>1. own[t] # 0 /\ ret = 0
        BY <3>6
      <4>2. killed' = (own[t] # 0 /\ ret = 0)
        BY <2>9 DEF FuncEnds, CallbackEnds
      <4>3. killed'
        BY <4>1, <4>2, Zenon
      <4>4. lock' = lock
        BY <2>9 DEF FuncEnds, CallbackEnds
      <4>5. QED
        BY <3>1, <4>3, <4>4
    <3>7. QED
      BY <3>3, <3>4, <3>5, <3>6
  <2>10. CASE Release(t)
    BY <1>3, <2>10 DEF Release
  <2>11. CASE Collect(t)
    BY <1>3, <2>11 DEF Collect, WaitCaller
  <2>12. CASE Unlock(t)
    <3>1. lock = t /\ pc[lock] = "collect" /\ left = 0
      BY <2>12 DEF Unlock
    <3>2. \A u \in Threads : handler[u] = "none"
      BY <3>1, AllReturned
    <3>3. Agree
      <4>1. CASE aborted \/ ret < 0
        BY <1>3, <3>1, <4>1
      <4>2. CASE ~aborted /\ ret >= 0
        BY <1>3, <3>1, <3>2, <4>2
      <4>3. QED
        BY <4>1, <4>2
    <3>4. QED
      BY <2>12, <3>3 DEF Unlock, List!Release
  <2>13. CASE Deliver(t)
    <3>1. lock # None /\ pc[lock] \in {"signal", "caught"}
      BY <2>13 DEF Deliver, CatchInv, Later, Serial
    <3>2. QED
      BY <1>3, <2>13, <3>1 DEF Deliver, PostCaller
  <2>14. CASE Proceed(t)
    BY <1>3, <2>14 DEF Proceed
  <2>15. CASE HandlerFunc(t)
    <3>1. lock # None /\ lock # t /\ Untried(t) /\ pc[lock] \notin {"signal", "caught"}
      BY <2>15 DEF HandlerFunc, CatchInv
    <3>2. CASE CallbackSkips
      BY <1>3, <2>15, <3>1, <3>2 DEF HandlerFunc, CallbackSkips, CallbackTries
    <3>3. CASE CallbackTries(t)
      BY <1>3, <2>15, <3>1, <3>3 DEF HandlerFunc, CallbackSkips, CallbackTries
    <3>4. QED
      BY <2>15, <3>2, <3>3 DEF HandlerFunc
  <2>16. CASE HandlerFuncEnds(t)
    <3>1. /\ lock # None /\ lock # t /\ Trying(t)
          /\ pc[lock] \in Later /\ pc[lock] \notin {"signal", "caught"}
      BY <2>16 DEF HandlerFuncEnds, CatchInv, Later, Serial
    <3>2. ~aborted /\ ret >= 0
      BY <1>3, <3>1
    <3>3. CASE own[t] = 0
      BY <1>3, <2>16, <3>1, <3>2, <3>3 DEF HandlerFuncEnds, CallbackEnds
    <3>4. CASE own[t] = -1 /\ ret = 1
      <4>1. pc[lock] \in {"post", "posted", "func"}
        <5>1. pc[lock] \notin {"release", "collect"}
          BY <1>3, <3>1, <3>2, <3>4
        <5>2. pc[lock] # "end"
          BY <2>16, <3>1, Quiet DEF HandlerFuncEnds, Serial
        <5>3. QED
          BY <3>1, <5>1, <5>2 DEF Later, Serial
      <4>2. \A x \in Threads \ {t} : ~Trying(x)
        BY <2>16, <3>1, <4>1, OneBusy DEF HandlerFuncEnds, Serial
      <4>3. \A x \in Threads : cred[x] = old[x]
        BY <1>3, <3>1, <3>2, <3>4, <4>2
      <4>4. cred = old
        BY <4>3
      <4>5. QED
        BY <1>3, <2>16, <3>1, <3>2, <3>4, <4>1, <4>2, <4>4 DEF HandlerFuncEnds, CallbackEnds
    <3>5. CASE own[t] = -1 /\ ret = 0
      <4>1. own[t] # 0 /\ ret = 0
        BY <3>5
      <4>2. killed' = (own[t] # 0 /\ ret = 0)
        BY <2>16 DEF HandlerFuncEnds, CallbackEnds
      <4>3. killed'
        BY <4>1, <4>2, Zenon
      <4>4. lock' = lock
        BY <2>16 DEF HandlerFuncEnds, CallbackEnds
      <4>5. QED
        BY <3>1, <4>3, <4>4
    <3>6. QED
      BY <3>2, <3>3, <3>4, <3>5
  <2>17. CASE HandlerPost(t)
    BY <1>3, <2>17 DEF HandlerPost, PostCaller
  <2>18. CASE Resume(t)
    BY <1>3, <2>18 DEF Resume
  <2>19. CASE Return(t)
    BY <1>3, <2>19 DEF Return, PostCaller
  <2>20. QED
    BY <1>2, <1>3, <2>1, <2>2, <2>3, <2>4, <2>5, <2>6, <2>7, <2>8, <2>9,
       <2>10, <2>11, <2>12, <2>13, <2>14, <2>15, <2>16, <2>17, <2>18, <2>19 DEF Advance
<1>4. QED
  BY <1>1, <1>2, <1>3 DEF Next, Advance

-----------------------------------------------------------------------------
\* The five invariants hold in every reachable state.
THEOREM CallInvariant == Spec => [](TypeInv /\ HolderInv /\ CatchInv /\ TokenInv /\ CredInv)
<1>1. Init => TypeInv /\ HolderInv /\ CatchInv /\ TokenInv /\ CredInv
  <2> SUFFICES ASSUME Init PROVE TypeInv /\ HolderInv /\ CatchInv /\ TokenInv /\ CredInv
    OBVIOUS
  <2>1. TypeInv
    BY DEF Init, TypeInv, CallerPCs, HandlerPCs
  <2>2. HolderInv
    BY SynccallAssumption DEF Init, HolderInv, DestroyableAtEnd, In
  <2>3. CatchInv /\ TokenInv
    BY DEF Init, CatchInv, TokenInv
  <2>4. CredInv
    BY DEF Init, CredInv, AllOrNothing, Agree
  <2>5. QED
    BY <2>1, <2>2, <2>3, <2>4
<1>2. TypeInv /\ HolderInv /\ CatchInv /\ TokenInv /\ CredInv /\ [Next]_vars
        => (TypeInv /\ HolderInv /\ CatchInv /\ TokenInv /\ CredInv)'
  BY TypeNext, HolderNext, CatchNext, TokenNext, CredNext
<1>3. QED
  BY <1>1, <1>2, PTL DEF Spec

\* The semaphores are drained and the handlers left when the list is unlocked.
THEOREM Destroyable == Spec => []DestroyableAtEnd
<1>1. HolderInv => DestroyableAtEnd
  BY DEF HolderInv
<1>2. QED
  BY <1>1, CallInvariant, PTL

\* Outside a call all threads of a living process have the same ids.
THEOREM SameIds == Spec => []AllOrNothing
<1>1. CredInv => AllOrNothing
  BY DEF CredInv
<1>2. QED
  BY <1>1, CallInvariant, PTL

\* A call that reports success has changed every thread, any other none.
THEOREM HonestReport == Spec => ReportIsHonest
<1>1. TypeInv /\ HolderInv /\ TokenInv /\ CredInv /\ [Next]_vars =>
        [\A t \in Threads : Unlock(t) =>
           \/ result' = "done" /\ \A u \in Threads : cred[u] = op.id
           \/ result' # "done" /\ cred = old]_vars
  <2> SUFFICES ASSUME TypeInv, HolderInv, TokenInv, CredInv, [Next]_vars, vars' # vars,
                      NEW t \in Threads, Unlock(t)
               PROVE  \/ result' = "done" /\ \A u \in Threads : cred[u] = op.id
                      \/ result' # "done" /\ cred = old
    OBVIOUS
  <2>1. ~killed
    BY DEF Next
  <2>2. lock = t /\ lock # None /\ pc[lock] = "collect" /\ left = 0 /\ result' = Result
    BY SynccallAssumption DEF Unlock, At, HolderInv, TypeInv, List!Release
  <2>3. \A u \in Threads : handler[u] = "none" /\ ~Trying(u) /\ ~Untried(u)
    <3>1. \A u \in Threads : handler[u] = "none"
      BY <2>2, AllReturned
    <3>2. QED
      BY <2>2, <3>1 DEF HolderInv, Trying, Untried
  <2>4. CASE aborted \/ ret < 0
    <3>1. cred = old /\ ret # 0
      BY <2>1, <2>2, <2>4 DEF CredInv
    <3>2. QED
      BY <2>2, <3>1 DEF TypeInv, Result
  <2>5. CASE ~aborted /\ ret >= 0
    <3>1. ret = 0 /\ \A u \in Threads : cred[u] = op.id
      BY <2>1, <2>2, <2>3, <2>5 DEF CredInv
    <3>2. QED
      BY <2>2, <3>1 DEF Result
  <2>6. QED
    BY <2>4, <2>5 DEF TypeInv
<1>2. QED
  BY <1>1, CallInvariant, PTL DEF Spec, ReportIsHonest
===============================================================================
