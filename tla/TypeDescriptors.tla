-------------------------- MODULE TypeDescriptors --------------------------
(***************************************************************************)
(* PresetTypeDescriptors: the process-wide table of uniform data types.      *)
(* Threads race for GetInstance, whose static local is initialised once: the *)
(* first caller runs InitDescriptors list by list while the others wait on    *)
(* the guard, and GetPresetTypes then hands out the vector.  The port split   *)
(* one 470-row literal, whose frame was larger than a thread's stack, into    *)
(* fifteen; a list that is lost, repeated or inserted late leaves types whose *)
(* parents cannot be found.                                                   *)
(***************************************************************************)
EXTENDS TypeTable, FiniteSets

CONSTANTS
  Threads,   \* threads that call GetInstance
  Walkers    \* those of them that look types up afterwards

None == "none"

ASSUME ThreadsAssumption == Walkers \subseteq Threads /\ {None, "done"} \cap Threads = {}

\* Mutant of Lists: more07 is built but its insert is missing.
ListsInsertLost ==
  << typeDescriptorsA \o typeDescriptorsB, more01A \o more01B, more02A \o more02B,
     more03A \o more03B, more04A \o more04B, more05A \o more05B, more06A \o more06B,
     <<>>, more08A \o more08B, more09A \o more09B, more10A \o more10B,
     more11A \o more11B, more12A \o more12B, more13A \o more13B, more14A \o more14B >>

\* What InitDescriptors puts into typeDescriptors_, in order: the assigned
\* literal, then one insert at the end for each of more01 .. more14.
Lists ==
  << typeDescriptorsA \o typeDescriptorsB, more01A \o more01B, more02A \o more02B,
     more03A \o more03B, more04A \o more04B, more05A \o more05B, more06A \o more06B,
     more07A \o more07B, more08A \o more08B, more09A \o more09B, more10A \o more10B,
     more11A \o more11B, more12A \o more12B, more13A \o more13B, more14A \o more14B >>

Reserved == 470    \* typeDescriptors_.reserve(470)

\* The rows of the first n lists, and the ids they define.
Rows(n) == UNION {{Lists[k][i] : i \in 1..Len(Lists[k])} : k \in 1..n}
Ids(n)  == {r.typeId : r \in Rows(n)}

Whole == Len(Lists)

\* The vector's length after n inserts: rows count even when they are equal.
Size[n \in 0..Whole] == IF n = 0 THEN 0 ELSE Size[n - 1] + Len(Lists[n])

\* The finished table as a function from a type to its parents.
Parents == [i \in Ids(Whole) |-> (CHOOSE r \in Rows(Whole) : r.typeId = i).belongingToTypes]

VARIABLES
  guard,      \* the static local's guard: None, the thread in the constructor, or "done"
  inserted,   \* how many lists typeDescriptors_ holds
  pc,         \* where each thread is
  start,      \* the type a walker looked up
  at          \* the type its walk has reached

vars == <<guard, inserted, pc, start, at>>

Init ==
  /\ guard = None
  /\ inserted = 0
  /\ pc = [t \in Threads |-> "call"]
  /\ start = [t \in Threads |-> None]
  /\ at = [t \in Threads |-> None]

Goto(t, l) == pc' = [pc EXCEPT ![t] = l]

\* GetInstance, first caller: takes the guard and enters the constructor.
GetInstanceFirst(t) ==
  /\ pc[t] = "call" /\ guard = None
  /\ guard' = t
  /\ Goto(t, "init")
  /\ UNCHANGED <<inserted, start, at>>

\* Mutant of GetInstance: a plain pointer instead of the guarded static.
GetInstanceUnguarded(t) ==
  /\ pc[t] = "call" /\ guard # None
  /\ Goto(t, "return")
  /\ UNCHANGED <<guard, inserted, start, at>>

\* GetInstance and GetPresetTypes once the instance exists.
GetInstance(t) ==
  /\ pc[t] = "call" /\ guard = "done"
  /\ Goto(t, "return")
  /\ UNCHANGED <<guard, inserted, start, at>>

\* InitDescriptors, one statement: the assignment or one insert.
InitDescriptors(t) ==
  /\ pc[t] = "init" /\ inserted < Whole
  /\ inserted' = inserted + 1
  /\ UNCHANGED <<guard, pc, start, at>>

\* The constructor returns, the guard is released and the reference handed out.
Constructed(t) ==
  /\ pc[t] = "init" /\ inserted = Whole
  /\ guard' = "done"
  /\ Goto(t, "return")
  /\ UNCHANGED <<inserted, start, at>>

\* A user of the table looks a type up (external).
Lookup(t) ==
  /\ t \in Walkers /\ pc[t] = "return"
  /\ \E i \in Ids(Whole) :
       /\ start' = [start EXCEPT ![t] = i]
       /\ at' = [at EXCEPT ![t] = i]
  /\ Goto(t, "walk")
  /\ UNCHANGED <<guard, inserted>>

\* ... and climbs to one of the types it belongs to (external).
Climb(t) ==
  /\ pc[t] = "walk"
  /\ \E p \in Parents[at[t]] : at' = [at EXCEPT ![t] = p]
  /\ UNCHANGED <<guard, inserted, pc, start>>

\* The walk is at a base type; the user is done with this lookup (external).
Arrive(t) ==
  /\ pc[t] = "walk" /\ Parents[at[t]] = {}
  /\ Goto(t, "return")
  /\ start' = [start EXCEPT ![t] = None]
  /\ at' = [at EXCEPT ![t] = None]
  /\ UNCHANGED <<guard, inserted>>

Step(t) ==
  \/ GetInstanceFirst(t) \/ GetInstance(t) \/ InitDescriptors(t) \/ Constructed(t)
  \/ Climb(t) \/ Arrive(t)

Next == \E t \in Threads : Step(t) \/ Lookup(t)

Spec == Init /\ [][Next]_vars /\ \A t \in Threads : WF_vars(Step(t))

---------------------------------------------------------------------------
Complete ==
  [n \in 0..Whole |->
     /\ Size[n] = Reserved
     /\ Cardinality(Ids(n)) = Size[n]
     /\ \A r \in Rows(n) : r.belongingToTypes \subseteq Ids(n)]

\* A thread that was handed the table by GetPresetTypes sees all of it: the
\* 470 rows that were reserved, no id twice, and every belongingToTypes naming
\* a row.  Six rows name a parent of a later list, so a table seen between two
\* inserts, or with one list lost, is not closed.
ReaderSeesWholeTable ==
  \A t \in Threads : pc[t] \in {"return", "walk"} => Complete[inserted]

\* A walk along belongingToTypes, and a call of GetInstance, end: no type lies
\* beneath itself through any chain of parents, and the constructor of one
\* thread lets every waiting thread go.
WalkEnds == \A t \in Threads : pc[t] \in {"call", "walk"} ~> pc[t] = "return"

=============================================================================
