------------------------------- MODULE ListLock -------------------------------
(***************************************************************************)
(* What the thread list lock promises to the code it guards: at any time   *)
(* one thread holds it or none does, and it goes from one thread to        *)
(* another only after the first has given it up.                           *)
(***************************************************************************)
CONSTANTS
  Threads,  \* the threads of the process
  Free      \* nobody holds the lock

VARIABLE holder

Init == holder = Free

Acquire(t) == holder = Free /\ holder' = t

Release == holder # Free /\ holder' = Free

Next == Release \/ \E t \in Threads : Acquire(t)

Spec == Init /\ [][Next]_holder
===============================================================================
