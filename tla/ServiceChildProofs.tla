------------------------- MODULE ServiceChildProofs -------------------------
(***************************************************************************)
(* Proofs about ServiceChild, for every set of capabilities and every       *)
(* configuration.                                                           *)
(*                                                                         *)
(* What is executed depends on twenty steps before it, so the invariant says *)
(* for each of them what the child has by then: its sockets (SocketInv), its *)
(* signals and hooks (SetupInv), its ids (IdInv) and its capabilities        *)
(* (CapInv).  The one fact that is not about a step is BoundingSet: a list   *)
(* without repetitions is as long as the set it names is large, so that what *)
(* DropCapability takes away is everything that was not asked for.           *)
(***************************************************************************)
EXTENDS ServiceChild, FiniteSetTheorems, SequenceTheorems, TLAPS

Ended == {"exited", "returned"}

BeforeEnv == {"context", "closefds", "debug", "waitdebug", "sandbox", "token", "env"}
BeforePerms == BeforeEnv \cup {"socket", "file", "console", "holdfds", "cpu", "writepid", "hookbefore"}
BeforeIds == BeforePerms \cup {"keepcap", "setgid"}
SetIds == {"seccomp", "setuid", "drop"}
AfterIds == {"capset", "ambient", "hook", "priority", "execv", "exec"}
Locations == BeforeIds \cup SetIds \cup AfterIds \cup Ended

Creds ==
  [uid : Nat, gid : Nat, groups : SUBSET Nat, keep : BOOLEAN, eff : SUBSET AllCaps,
   perm : SUBSET AllCaps, inh : SUBSET AllCaps, amb : SUBSET AllCaps, bnd : SUBSET AllCaps]

TypeInv ==
  /\ cfg \in Configs
  /\ pc \in Locations
  /\ faulty \in BOOLEAN
  /\ socks \subseteq {Self, "other"}
  /\ cred \in Creds

SocketInv ==
  /\ cfg.onDemand => Self \in socks
  /\ cfg.entry = "service" /\ pc \notin {"context", "closefds"} => socks \subseteq {Self}
  /\ cfg.entry = "shell" => pc \notin {"context", "closefds"}
  /\ pc \notin BeforeEnv \cup Ended \cup {"socket"} => Self \in socks

SetupInv ==
  /\ pc \in BeforeEnv => blocked
  /\ pc \notin BeforeEnv \cup Ended => blocked = cfg.spawner
  /\ pc \in BeforePerms => hooks = {}
  /\ pc \notin BeforePerms \cup Ended \cup {"priority", "execv", "exec"} => hooks = {"before"}
  /\ pc = "hook" => ~IsFull
  /\ pc \in {"priority", "execv", "exec"} =>
       hooks = IF IsFull THEN {"before"} ELSE {"before", "after"}

IdInv ==
  /\ pc \in BeforeIds => cred.gid = 0 /\ cred.groups = {}
  /\ pc \in BeforeIds \cup SetIds => cred.uid = 0
  /\ pc \in SetIds \cup AfterIds =>
       /\ cred.gid = IF cfg.gids = <<>> THEN cfg.uid ELSE Head(cfg.gids)
       /\ cred.groups = IF cfg.gids = <<>> THEN {} ELSE Range(Tail(cfg.gids))
  /\ pc = "setuid" => cfg.uid # 0
  /\ pc = "drop" => cfg.uid = 0
  /\ pc \in AfterIds => cred.uid = cfg.uid

\* The bounding set is whole unless DropCapability was called, and then it is
\* what was asked for unless that went wrong.
BoundingInv ==
  /\ cred.bnd \subseteq AllCaps
  /\ pc \in BeforeIds \cup SetIds \/ cfg.caps = <<>> \/ cfg.uid # 0 => cred.bnd = AllCaps
  /\ pc \in AfterIds /\ cfg.uid = 0 /\ cfg.caps # <<>> =>
       IsFull \/ faulty \/ Repeats \/ cred.bnd = Caps

CapInv ==
  /\ pc \in BeforeIds \cup SetIds \cup {"capset"} => cred.inh = {}
  /\ pc \in BeforeIds \cup SetIds \cup {"capset", "ambient"} => cred.amb = {}
  /\ pc \in {"ambient", "hook", "priority", "execv", "exec"} => cred.inh = Wanted
  /\ pc \in {"hook", "priority", "execv", "exec"} => cred.amb = Wanted
  /\ BoundingInv

ChildInv == TypeInv /\ SocketInv /\ SetupInv /\ IdInv /\ (pc \notin Ended => CapInv)

-----------------------------------------------------------------------------
\* What the configuration names: capabilities, and groups.
LEMMA ConfigType ==
  ASSUME cfg \in Configs
  PROVE  /\ cfg.uid \in Nat /\ cfg.gids \in Seq(Nat) /\ cfg.caps \in Seq(AllCaps \cup {Full})
         /\ Caps \subseteq AllCaps \cup {Full}
         /\ Wanted \subseteq AllCaps
         /\ cfg.gids # <<>> => Head(cfg.gids) \in Nat /\ Range(Tail(cfg.gids)) \subseteq Nat
         /\ cfg.gids # <<>> /\ ~(Len(cfg.gids) > 1) => Range(Tail(cfg.gids)) = {}
<1>1. /\ cfg.uid \in Nat /\ cfg.gids \in Seq(Nat) /\ cfg.caps \in Seq(AllCaps \cup {Full})
  BY CapsAssumption DEF Configs
<1>2. Caps \subseteq AllCaps \cup {Full}
  BY <1>1 DEF Caps, Range
<1>3. Wanted \subseteq AllCaps
  BY <1>2 DEF Wanted, IsFull
<1>4. ASSUME cfg.gids # <<>>
      PROVE  Head(cfg.gids) \in Nat /\ Range(Tail(cfg.gids)) \subseteq Nat
  <2>1. Tail(cfg.gids) \in Seq(Nat)
    BY <1>1, <1>4
  <2>2. QED
    BY <1>1, <1>4, <2>1 DEF Range
<1>5. ASSUME cfg.gids # <<>>, ~(Len(cfg.gids) > 1) PROVE Range(Tail(cfg.gids)) = {}
  <2>1. Len(cfg.gids) = 1
    <3>1. \A seq \in Seq(Nat) : seq # << >> => Len(seq) \in Nat \ {0}
      BY EmptySeq
    <3>2. Len(cfg.gids) \in Nat \ {0}
      BY <1>1, <1>5, <3>1, Zenon
    <3>3. \A m \in Nat \ {0} : ~(m > 1) => m = 1
      OBVIOUS
    <3>4. QED
      BY <1>5, <3>2, <3>3, Zenon
  <2>2. Tail(cfg.gids) \in Seq(Nat) /\ Len(Tail(cfg.gids)) = 0
    BY <1>1, <2>1, <1>5, HeadTailProperties
  <2>3. DOMAIN Tail(cfg.gids) = 1..Len(Tail(cfg.gids))
    BY <2>2, LenProperties
  <2>4. QED
    BY <2>2, <2>3 DEF Range
<1>6. QED
  BY <1>1, <1>2, <1>3, <1>4, <1>5

\* DropCapability: as many capabilities as there are beside the entries of the
\* list, taken from those the list does not name, are all of them, if no entry
\* is repeated and none is FULL_CAP.
LEMMA BoundingSet ==
  ASSUME cfg \in Configs, ~IsFull, ~Repeats, NEW D \in InvalidCaps
  PROVE  AllCaps \ D = Caps
<1>1. cfg.caps \in Seq(AllCaps \cup {Full}) /\ Caps \subseteq AllCaps
  BY ConfigType DEF IsFull
<1> DEFINE n == Len(cfg.caps)
<1>2. n \in Nat /\ cfg.caps \in [1..n -> Caps] /\ Caps = {cfg.caps[i] : i \in 1..n}
  BY <1>1 DEF Caps, Range
<1>3. cfg.caps \in Bijection(1..n, Caps)
  BY <1>2 DEF Repeats, Bijection, Injection, Surjection, IsInjective
<1>4. IsFiniteSet(Caps) /\ Cardinality(Caps) = n
  <2>1. IsFiniteSet(1..n) /\ Cardinality(1..n) = n
    <3> HIDE DEF n
    <3>1. 1 \in Int /\ n \in Int
      BY <1>2
    <3>2. IsFiniteSet(1..n) /\ Cardinality(1..n) = IF 1 > n THEN 0 ELSE n - 1 + 1
      BY <3>1, FS_Interval
    <3>3. QED
      BY <1>2, <3>2
  <2>2. ExistsBijection(1..n, Caps)
    BY <1>3 DEF ExistsBijection
  <2>3. QED
    BY <2>1, <2>2, FS_Bijection
<1>5. IsFiniteSet(AllCaps) /\ Cardinality(AllCaps) \in Nat
  BY CapsAssumption, FS_CardinalityType
<1>6. Cardinality(AllCaps \ Caps) = Cardinality(AllCaps) - n /\ IsFiniteSet(AllCaps \ Caps)
  <2>1. AllCaps \cap Caps = Caps
    BY <1>1
  <2>2. /\ IsFiniteSet(AllCaps \ Caps)
        /\ Cardinality(AllCaps \ Caps) = Cardinality(AllCaps) - Cardinality(AllCaps \cap Caps)
    BY <1>4, <1>5, FS_Difference
  <2>3. QED
    BY <1>4, <2>1, <2>2
<1>7. D \subseteq AllCaps \ Caps /\ Cardinality(D) = Cardinality(AllCaps) - n
  BY DEF InvalidCaps
<1>8. D = AllCaps \ Caps
  BY <1>6, <1>7, FS_Subset
<1>9. QED
  BY <1>1, <1>8

\* The child starts with what init has.
LEMMA ChildInit == Init => ChildInv
<1> SUFFICES ASSUME Init PROVE ChildInv
  OBVIOUS
<1> USE DEF Init
<1>1. TypeInv
  BY DEF TypeInv, Creds, Configs, Locations, BeforeIds, BeforePerms, BeforeEnv, Self
<1>2. SocketInv /\ SetupInv
  BY DEF SocketInv, SetupInv, Configs, BeforePerms, BeforeEnv, Ended, Self
<1>3. IdInv /\ CapInv
  BY DEF IdInv, CapInv, BoundingInv, BeforeIds, BeforePerms, BeforeEnv, SetIds, AfterIds
<1>4. QED
  BY <1>1, <1>2, <1>3 DEF ChildInv

\* The configuration stays, and what is read from it.
LEMMA ConfigStays ==
  ASSUME [Next]_vars
  PROVE  cfg' = cfg /\ Caps' = Caps /\ IsFull' = IsFull /\ Wanted' = Wanted /\ Repeats' = Repeats
<1>1. cfg' = cfg
  BY DEF Next, vars, other, Soft, Hard, Perm, Done, SetSubInitContext, CloseOnDemandServiceFdForOtherService, DebugCheck, WaitForDebugger,
    EnterSandbox, SetAccessToken, ClearEnvironment, CreateSocketForService,
    KeepSocket, CreateServiceFile, OpenConsole, PublishHoldFds,
    BindCpuCore, WritePid, HookBefore, KeepCapability,
    ServiceSetGid, SetSystemSeccompPolicy, SetUid, DropCapability,
    Capset, Ambient, HookAfter, SetPriority,
    Execv, Done
<1>2. QED
  BY <1>1 DEF Caps, IsFull, Wanted, Repeats

\* Every step keeps the types.
LEMMA TypeNext == TypeInv /\ [Next]_vars => TypeInv'
<1> SUFFICES ASSUME TypeInv, [Next]_vars PROVE TypeInv'
  OBVIOUS
<1> USE DEF TypeInv, Creds, Goto, other, Locations, BeforeIds, BeforePerms, BeforeEnv, SetIds, AfterIds, Ended
<1>1. CASE SetSubInitContext
  BY <1>1 DEF SetSubInitContext, Soft
<1>2. CASE CloseOnDemandServiceFdForOtherService
  BY <1>2 DEF CloseOnDemandServiceFdForOtherService
<1>3. CASE DebugCheck
  BY <1>3 DEF DebugCheck
<1>4. CASE WaitForDebugger
  BY <1>4 DEF WaitForDebugger
<1>5. CASE EnterSandbox
  BY <1>5 DEF EnterSandbox
<1>6. CASE SetAccessToken
  BY <1>6 DEF SetAccessToken, Soft
<1>7. CASE ClearEnvironment
  BY <1>7 DEF ClearEnvironment
<1>8. CASE CreateSocketForService
  BY <1>8 DEF CreateSocketForService, Fail
<1>9. CASE KeepSocket
  BY <1>9 DEF KeepSocket
<1>10. CASE CreateServiceFile
  BY <1>10 DEF CreateServiceFile, Hard, Fail
<1>11. CASE OpenConsole
  BY <1>11 DEF OpenConsole, Hard, Fail
<1>12. CASE PublishHoldFds
  BY <1>12 DEF PublishHoldFds, Hard, Fail
<1>13. CASE BindCpuCore
  BY <1>13 DEF BindCpuCore
<1>14. CASE WritePid
  BY <1>14 DEF WritePid
<1>15. CASE HookBefore
  BY <1>15 DEF HookBefore
<1>16. CASE KeepCapability
  BY <1>16 DEF KeepCapability, Perm, Fail
<1>17. CASE ServiceSetGid
  <2>1. /\ cfg.uid \in Nat
        /\ cfg.gids # <<>> => Head(cfg.gids) \in Nat /\ Range(Tail(cfg.gids)) \subseteq Nat
        /\ Len(cfg.gids) > 1 => cfg.gids # <<>>
    BY ConfigType
  <2>2. CASE pc' = "seccomp"
    <3>1. PICK g \in Nat, G \in SUBSET Nat : cred' = [cred EXCEPT !.gid = g, !.groups = G]
      BY <1>17, <2>1, <2>2 DEF ServiceSetGid, Perm, Fail
    <3>2. QED
      BY <1>17, <2>2, <3>1 DEF ServiceSetGid, Perm, Fail
  <2>3. CASE pc' # "seccomp"
    BY <1>17, <2>3 DEF ServiceSetGid, Perm, Fail
  <2>4. QED
    BY <2>2, <2>3
<1>18. CASE SetSystemSeccompPolicy
  BY <1>18 DEF SetSystemSeccompPolicy, Perm, Fail
<1>19. CASE SetUid
  <2>1. cfg.uid \in Nat
    BY ConfigType
  <2>2. AfterSetuid(cfg.uid) \in Creds
    BY <2>1 DEF AfterSetuid
  <2>3. QED
    BY <1>19, <2>2 DEF SetUid, Perm, Fail
<1>20. CASE DropCapability
  BY <1>20 DEF DropCapability
<1>21. CASE Capset
  BY <1>21, ConfigType DEF Capset, Perm, Fail
<1>22. CASE Ambient
  BY <1>22, ConfigType DEF Ambient, Perm, Fail
<1>23. CASE HookAfter
  BY <1>23 DEF HookAfter
<1>24. CASE SetPriority
  BY <1>24 DEF SetPriority
<1>25. CASE Execv
  BY <1>25 DEF Execv
<1>26. CASE Done
  BY <1>26 DEF Done, vars
<1>27. CASE UNCHANGED vars
  BY <1>27 DEF vars
<1>28. QED
  BY <1>1, <1>2, <1>3, <1>4, <1>5, <1>6, <1>7, <1>8, <1>9, <1>10, <1>11, <1>12, <1>13, <1>14, <1>15, <1>16, <1>17, <1>18, <1>19, <1>20, <1>21, <1>22, <1>23, <1>24, <1>25, <1>26, <1>27 DEF Next

\* Sockets of others are closed, and the own ones are there.
LEMMA SocketNext == TypeInv /\ SocketInv /\ [Next]_vars => SocketInv'
<1> SUFFICES ASSUME TypeInv, SocketInv, [Next]_vars PROVE SocketInv'
  OBVIOUS
<1> USE DEF TypeInv, SocketInv, Goto, other, Configs, Locations, BeforeIds, BeforePerms, BeforeEnv, SetIds, AfterIds, Ended
<1>1. CASE SetSubInitContext
  BY <1>1 DEF SetSubInitContext, Soft
<1>2. CASE CloseOnDemandServiceFdForOtherService
  BY <1>2 DEF CloseOnDemandServiceFdForOtherService
<1>3. CASE DebugCheck
  BY <1>3 DEF DebugCheck
<1>4. CASE WaitForDebugger
  BY <1>4 DEF WaitForDebugger
<1>5. CASE EnterSandbox
  BY <1>5 DEF EnterSandbox
<1>6. CASE SetAccessToken
  BY <1>6 DEF SetAccessToken, Soft
<1>7. CASE ClearEnvironment
  BY <1>7 DEF ClearEnvironment
<1>8. CASE CreateSocketForService
  BY <1>8 DEF CreateSocketForService, Fail
<1>9. CASE KeepSocket
  BY <1>9 DEF KeepSocket
<1>10. CASE CreateServiceFile
  BY <1>10 DEF CreateServiceFile, Hard, Fail
<1>11. CASE OpenConsole
  BY <1>11 DEF OpenConsole, Hard, Fail
<1>12. CASE PublishHoldFds
  BY <1>12 DEF PublishHoldFds, Hard, Fail
<1>13. CASE BindCpuCore
  BY <1>13 DEF BindCpuCore
<1>14. CASE WritePid
  BY <1>14 DEF WritePid
<1>15. CASE HookBefore
  BY <1>15 DEF HookBefore
<1>16. CASE KeepCapability
  BY <1>16 DEF KeepCapability, Perm, Fail
<1>17. CASE ServiceSetGid
  BY <1>17 DEF ServiceSetGid, Perm, Fail
<1>18. CASE SetSystemSeccompPolicy
  BY <1>18 DEF SetSystemSeccompPolicy, Perm, Fail
<1>19. CASE SetUid
  BY <1>19 DEF SetUid, Perm, Fail
<1>20. CASE DropCapability
  BY <1>20 DEF DropCapability
<1>21. CASE Capset
  BY <1>21 DEF Capset, Perm, Fail
<1>22. CASE Ambient
  BY <1>22 DEF Ambient, Perm, Fail
<1>23. CASE HookAfter
  BY <1>23 DEF HookAfter
<1>24. CASE SetPriority
  BY <1>24 DEF SetPriority
<1>25. CASE Execv
  BY <1>25 DEF Execv
<1>26. CASE Done
  BY <1>26 DEF Done, vars
<1>27. CASE UNCHANGED vars
  BY <1>27 DEF vars
<1>28. QED
  BY <1>1, <1>2, <1>3, <1>4, <1>5, <1>6, <1>7, <1>8, <1>9, <1>10, <1>11, <1>12, <1>13, <1>14, <1>15, <1>16, <1>17, <1>18, <1>19, <1>20, <1>21, <1>22, <1>23, <1>24, <1>25, <1>26, <1>27 DEF Next

\* Signals and hooks.
LEMMA SetupNext == TypeInv /\ SetupInv /\ [Next]_vars => SetupInv'
<1> SUFFICES ASSUME TypeInv, SetupInv, [Next]_vars PROVE SetupInv'
  OBVIOUS
<1> USE DEF TypeInv, SetupInv, Goto, other, IsFull, Caps, Configs, Locations, BeforeIds, BeforePerms, BeforeEnv, SetIds, AfterIds, Ended
<1>1. CASE SetSubInitContext
  BY <1>1 DEF SetSubInitContext, Soft
<1>2. CASE CloseOnDemandServiceFdForOtherService
  BY <1>2 DEF CloseOnDemandServiceFdForOtherService
<1>3. CASE DebugCheck
  BY <1>3 DEF DebugCheck
<1>4. CASE WaitForDebugger
  BY <1>4 DEF WaitForDebugger
<1>5. CASE EnterSandbox
  BY <1>5 DEF EnterSandbox
<1>6. CASE SetAccessToken
  BY <1>6 DEF SetAccessToken, Soft
<1>7. CASE ClearEnvironment
  BY <1>7 DEF ClearEnvironment
<1>8. CASE CreateSocketForService
  BY <1>8 DEF CreateSocketForService, Fail
<1>9. CASE KeepSocket
  BY <1>9 DEF KeepSocket
<1>10. CASE CreateServiceFile
  BY <1>10 DEF CreateServiceFile, Hard, Fail
<1>11. CASE OpenConsole
  BY <1>11 DEF OpenConsole, Hard, Fail
<1>12. CASE PublishHoldFds
  BY <1>12 DEF PublishHoldFds, Hard, Fail
<1>13. CASE BindCpuCore
  BY <1>13 DEF BindCpuCore
<1>14. CASE WritePid
  BY <1>14 DEF WritePid
<1>15. CASE HookBefore
  BY <1>15 DEF HookBefore
<1>16. CASE KeepCapability
  BY <1>16 DEF KeepCapability, Perm, Fail
<1>17. CASE ServiceSetGid
  BY <1>17 DEF ServiceSetGid, Perm, Fail
<1>18. CASE SetSystemSeccompPolicy
  BY <1>18 DEF SetSystemSeccompPolicy, Perm, Fail
<1>19. CASE SetUid
  BY <1>19 DEF SetUid, Perm, Fail
<1>20. CASE DropCapability
  BY <1>20 DEF DropCapability
<1>21. CASE Capset
  BY <1>21 DEF Capset, Perm, Fail
<1>22. CASE Ambient
  BY <1>22 DEF Ambient, Perm, Fail
<1>23. CASE HookAfter
  BY <1>23 DEF HookAfter
<1>24. CASE SetPriority
  BY <1>24 DEF SetPriority
<1>25. CASE Execv
  BY <1>25 DEF Execv
<1>26. CASE Done
  BY <1>26 DEF Done, vars
<1>27. CASE UNCHANGED vars
  BY <1>27 DEF vars, Caps, IsFull
<1>28. QED
  BY <1>1, <1>2, <1>3, <1>4, <1>5, <1>6, <1>7, <1>8, <1>9, <1>10, <1>11, <1>12, <1>13, <1>14, <1>15, <1>16, <1>17, <1>18, <1>19, <1>20, <1>21, <1>22, <1>23, <1>24, <1>25, <1>26, <1>27 DEF Next

\* The ids are changed once, in SetPerms.
LEMMA IdNext == TypeInv /\ IdInv /\ [Next]_vars => IdInv'
<1> SUFFICES ASSUME TypeInv, IdInv, [Next]_vars PROVE IdInv'
  OBVIOUS
<1> USE DEF TypeInv, IdInv, Creds, Goto, other, Locations, BeforeIds, BeforePerms, BeforeEnv, SetIds, AfterIds, Ended
<1>1. CASE SetSubInitContext
  BY <1>1 DEF SetSubInitContext, Soft
<1>2. CASE CloseOnDemandServiceFdForOtherService
  BY <1>2 DEF CloseOnDemandServiceFdForOtherService
<1>3. CASE DebugCheck
  BY <1>3 DEF DebugCheck
<1>4. CASE WaitForDebugger
  BY <1>4 DEF WaitForDebugger
<1>5. CASE EnterSandbox
  BY <1>5 DEF EnterSandbox
<1>6. CASE SetAccessToken
  BY <1>6 DEF SetAccessToken, Soft
<1>7. CASE ClearEnvironment
  BY <1>7 DEF ClearEnvironment
<1>8. CASE CreateSocketForService
  BY <1>8 DEF CreateSocketForService, Fail
<1>9. CASE KeepSocket
  BY <1>9 DEF KeepSocket
<1>10. CASE CreateServiceFile
  BY <1>10 DEF CreateServiceFile, Hard, Fail
<1>11. CASE OpenConsole
  BY <1>11 DEF OpenConsole, Hard, Fail
<1>12. CASE PublishHoldFds
  BY <1>12 DEF PublishHoldFds, Hard, Fail
<1>13. CASE BindCpuCore
  BY <1>13 DEF BindCpuCore
<1>14. CASE WritePid
  BY <1>14 DEF WritePid
<1>15. CASE HookBefore
  BY <1>15 DEF HookBefore
<1>16. CASE KeepCapability
  BY <1>16 DEF KeepCapability, Perm, Fail
<1>17. CASE ServiceSetGid
  <2>1. /\ cfg.gids # <<>> /\ ~(Len(cfg.gids) > 1) => Range(Tail(cfg.gids)) = {}
        /\ Len(cfg.gids) > 1 => cfg.gids # <<>>
    BY ConfigType
  <2>2. CASE pc' = "seccomp"
    <3>1. /\ cred'.uid = cred.uid
          /\ cred'.gid = IF cfg.gids = <<>> THEN cfg.uid ELSE Head(cfg.gids)
          /\ cred'.groups = IF Len(cfg.gids) > 1 THEN Range(Tail(cfg.gids)) ELSE cred.groups
      BY <1>17, <2>2 DEF ServiceSetGid, Perm, Fail
    <3>2. QED
      BY <1>17, <2>1, <2>2, <3>1 DEF ServiceSetGid, Perm, Fail
  <2>3. CASE pc' # "seccomp"
    BY <1>17, <2>3 DEF ServiceSetGid, Perm, Fail
  <2>4. QED
    BY <2>2, <2>3
<1>18. CASE SetSystemSeccompPolicy
  BY <1>18 DEF SetSystemSeccompPolicy, Perm, Fail
<1>19. CASE SetUid
  BY <1>19 DEF SetUid, Perm, Fail, AfterSetuid
<1>20. CASE DropCapability
  BY <1>20 DEF DropCapability
<1>21. CASE Capset
  BY <1>21 DEF Capset, Perm, Fail
<1>22. CASE Ambient
  BY <1>22 DEF Ambient, Perm, Fail
<1>23. CASE HookAfter
  BY <1>23 DEF HookAfter
<1>24. CASE SetPriority
  BY <1>24 DEF SetPriority
<1>25. CASE Execv
  BY <1>25 DEF Execv
<1>26. CASE Done
  BY <1>26 DEF Done, vars
<1>27. CASE UNCHANGED vars
  BY <1>27 DEF vars
<1>28. QED
  BY <1>1, <1>2, <1>3, <1>4, <1>5, <1>6, <1>7, <1>8, <1>9, <1>10, <1>11, <1>12, <1>13, <1>14, <1>15, <1>16, <1>17, <1>18, <1>19, <1>20, <1>21, <1>22, <1>23, <1>24, <1>25, <1>26, <1>27 DEF Next

\* The bounding set is cut once, to what was asked for.
LEMMA DropStep ==
  ASSUME TypeInv, IdInv, CapInv, DropCapability
  PROVE  CapInv'
<1> USE DEF TypeInv, Creds, IdInv, CapInv, BoundingInv, Goto, BeforeIds, BeforePerms, BeforeEnv, SetIds, AfterIds
<1>1. pc = "drop" /\ pc' = "capset" /\ cfg' = cfg /\ cfg.uid = 0
  BY DEF DropCapability
<1>2. Caps' = Caps /\ IsFull' = IsFull /\ Repeats' = Repeats
  BY <1>1 DEF Caps, IsFull, Repeats
<1>3. CASE cfg.caps = <<>> /\ UNCHANGED <<cred, faulty>>
  BY <1>1, <1>3
<1>4. ASSUME cfg.caps # <<>>, NEW D, cred' = [cred EXCEPT !.bnd = @ \ D],
             IsFull \/ faulty' \/ Repeats \/ AllCaps \ D = Caps
      PROVE  CapInv'
  <2>1. cred.bnd = AllCaps /\ cred'.bnd = AllCaps \ D
    BY <1>1, <1>4
  <2>2. cred'.inh = {} /\ cred'.amb = {}
    BY <1>1, <1>4
  <2>3. QED
    BY <1>1, <1>2, <1>4, <2>1, <2>2
<1>5. ASSUME NEW D \in InvalidCaps, ~IsFull, ~Repeats PROVE AllCaps \ D = Caps
  BY <1>5, BoundingSet
<1>6. QED
  BY <1>3, <1>4, <1>5 DEF DropCapability

\* The capabilities end as those asked for.
LEMMA CapNext == ChildInv /\ [Next]_vars => (pc \notin Ended => CapInv)'
<1> SUFFICES ASSUME ChildInv, [Next]_vars PROVE (pc \notin Ended => CapInv)'
  OBVIOUS
<1> USE DEF ChildInv, TypeInv, Creds, Goto, other, CapInv, BoundingInv, Locations, BeforeIds, BeforePerms, BeforeEnv, SetIds, AfterIds, Ended
<1>0. cfg' = cfg /\ Caps' = Caps /\ IsFull' = IsFull /\ Wanted' = Wanted /\ Repeats' = Repeats
  BY ConfigStays
<1>1. CASE SetSubInitContext
  BY <1>0, <1>1 DEF SetSubInitContext, Soft
<1>2. CASE CloseOnDemandServiceFdForOtherService
  BY <1>0, <1>2 DEF CloseOnDemandServiceFdForOtherService
<1>3. CASE DebugCheck
  BY <1>0, <1>3 DEF DebugCheck
<1>4. CASE WaitForDebugger
  BY <1>0, <1>4 DEF WaitForDebugger
<1>5. CASE EnterSandbox
  BY <1>0, <1>5 DEF EnterSandbox
<1>6. CASE SetAccessToken
  BY <1>0, <1>6 DEF SetAccessToken, Soft
<1>7. CASE ClearEnvironment
  BY <1>0, <1>7 DEF ClearEnvironment
<1>8. CASE CreateSocketForService
  BY <1>0, <1>8 DEF CreateSocketForService, Fail
<1>9. CASE KeepSocket
  BY <1>0, <1>9 DEF KeepSocket
<1>10. CASE CreateServiceFile
  BY <1>0, <1>10 DEF CreateServiceFile, Hard, Fail
<1>11. CASE OpenConsole
  BY <1>0, <1>11 DEF OpenConsole, Hard, Fail
<1>12. CASE PublishHoldFds
  BY <1>0, <1>12 DEF PublishHoldFds, Hard, Fail
<1>13. CASE BindCpuCore
  BY <1>0, <1>13 DEF BindCpuCore
<1>14. CASE WritePid
  BY <1>0, <1>14 DEF WritePid
<1>15. CASE HookBefore
  BY <1>0, <1>15 DEF HookBefore
<1>16. CASE KeepCapability
  BY <1>0, <1>16 DEF KeepCapability, Perm, Fail
<1>17. CASE ServiceSetGid
  BY <1>0, <1>17 DEF ServiceSetGid, Perm, Fail
<1>18. CASE SetSystemSeccompPolicy
  BY <1>0, <1>18 DEF SetSystemSeccompPolicy, Perm, Fail
<1>19. CASE SetUid
  <2>1. cfg.uid # 0 /\ cred.bnd = AllCaps
    BY <1>19 DEF SetUid, Perm, IdInv
  <2>2. CASE pc' = "capset"
    <3>1. cred'.bnd = AllCaps /\ cred'.inh = {} /\ cred'.amb = {}
      BY <1>19, <2>1, <2>2 DEF SetUid, Perm, Fail, AfterSetuid
    <3>2. QED
      BY <1>0, <2>1, <2>2, <3>1
  <2>3. CASE pc' # "capset"
    BY <1>19, <2>3 DEF SetUid, Perm, Fail
  <2>4. QED
    BY <2>2, <2>3
<1>20. CASE DropCapability
  BY <1>20, DropStep DEF DropCapability
<1>21. CASE Capset
  <2>1. CASE pc' = "ambient"
    <3>1. cred'.bnd = cred.bnd /\ cred'.inh = Wanted /\ cred'.amb = {} /\ faulty' = faulty
      BY <1>21, <2>1 DEF Capset, Perm, Fail
    <3>2. QED
      BY <1>21, <1>0, <2>1, <3>1 DEF Capset, Perm
  <2>2. CASE pc' # "ambient"
    BY <1>21, <2>2 DEF Capset, Perm, Fail
  <2>3. QED
    BY <2>1, <2>2
<1>22. CASE Ambient
  <2>1. CASE pc' \in {"hook", "priority"}
    <3>1. /\ cred'.bnd = cred.bnd /\ cred'.inh = cred.inh
          /\ cred'.amb = cred.amb \cup Wanted /\ faulty' = faulty
      BY <1>22, <2>1 DEF Ambient, Perm, Fail
    <3>2. cred.amb = {}
      BY <1>22 DEF Ambient, Perm
    <3>3. cred'.amb = Wanted
      BY <3>1, <3>2
    <3>4. QED
      BY <1>22, <1>0, <2>1, <3>1, <3>3 DEF Ambient, Perm
  <2>2. CASE pc' \notin {"hook", "priority"}
    BY <1>22, <2>2 DEF Ambient, Perm, Fail
  <2>3. QED
    BY <2>1, <2>2
<1>23. CASE HookAfter
  BY <1>0, <1>23 DEF HookAfter
<1>24. CASE SetPriority
  BY <1>0, <1>24 DEF SetPriority
<1>25. CASE Execv
  BY <1>0, <1>25 DEF Execv
<1>26. CASE Done
  BY <1>0, <1>26 DEF Done, vars
<1>27. CASE UNCHANGED vars
  BY <1>0, <1>27 DEF vars
<1>28. QED
  BY <1>1, <1>2, <1>3, <1>4, <1>5, <1>6, <1>7, <1>8, <1>9, <1>10, <1>11, <1>12, <1>13, <1>14, <1>15, <1>16, <1>17, <1>18, <1>19, <1>20, <1>21, <1>22, <1>23, <1>24, <1>25, <1>26, <1>27 DEF Next

\* The invariant of the child.
THEOREM ChildInvariant == Spec => []ChildInv
<1>1. ChildInv /\ [Next]_vars => ChildInv'
  BY TypeNext, SocketNext, SetupNext, IdNext, CapNext DEF ChildInv
<1>2. QED
  BY <1>1, ChildInit, PTL DEF Spec

\* Whatever fails on the way, in RunChildProcess, InitServiceProperties and
\* SetPerms, the program that is executed has the sockets, signals, ids, groups
\* and capabilities of its configuration, up to the exceptions named by the
\* property.
THEOREM ExecIdentity == Spec => []ExecAsConfigured
<1>1. ChildInv => ExecAsConfigured
  <2> SUFFICES ASSUME ChildInv, pc = "exec" PROVE ExecAsConfigured
    BY DEF ExecAsConfigured
  <2> USE DEF ChildInv, TypeInv, BeforeIds, BeforePerms, BeforeEnv, AfterIds, SetIds, Ended
  <2>1. Self \in socks /\ (cfg.entry = "service" => socks = {Self})
    BY DEF SocketInv
  <2>2. blocked = cfg.spawner /\ hooks = IF IsFull THEN {"before"} ELSE {"before", "after"}
    BY DEF SetupInv
  <2>3. /\ cred.uid = cfg.uid
        /\ cred.gid = IF cfg.gids = <<>> THEN cfg.uid ELSE Head(cfg.gids)
        /\ cred.groups = IF cfg.gids = <<>> THEN {} ELSE Range(Tail(cfg.gids))
    BY DEF IdInv
  <2>4. \/ AfterExec = IF Unrestricted THEN AllCaps ELSE Wanted
        \/ cfg.uid = 0 /\ (faulty \/ Repeats)
    <3>1. cred.inh = Wanted /\ cred.amb = Wanted /\ BoundingInv
      BY DEF CapInv
    <3>2. CASE cfg.uid # 0
      BY <2>3, <3>1, <3>2 DEF AfterExec, Unrestricted
    <3>3. CASE cfg.uid = 0 /\ cfg.caps = <<>>
      BY <2>3, <3>1, <3>3, ConfigType DEF AfterExec, Unrestricted, BoundingInv
    <3>4. CASE cfg.uid = 0 /\ cfg.caps # <<>> /\ ~faulty /\ ~Repeats
      BY <2>3, <3>1, <3>4 DEF AfterExec, Unrestricted, BoundingInv, Wanted
    <3>5. QED
      BY <3>2, <3>3, <3>4
  <2>5. QED
    BY <2>1, <2>2, <2>3, <2>4 DEF ExecAsConfigured
<1>2. QED
  BY <1>1, ChildInvariant, PTL

=============================================================================
