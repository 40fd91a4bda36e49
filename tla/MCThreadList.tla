---------------------------- MODULE MCThreadList ----------------------------
(* ThreadList for TLC: which process starts with which inherited words.     *)
EXTENDS ThreadList, TLC

\* A process forked while a thread of its parent held the list lock, or none.
Forked == {None, Foreign}

AllAttrs == [sched : BOOLEAN, detach : {"joinable", "detached"}]

\* The threads other than the main one are interchangeable.
Others == Permutations(Threads \ {Main})
=============================================================================
