------------------------------ MODULE MCSpawnChild -----------------------------
(* Three plug-ins, one of them in two policy directories.  They have a hook in *)
(* every stage of a child, and one asks for a stage that is not of its kind.    *)
EXTENDS SpawnChild

App(s, p) == [api |-> "app", stage |-> s, prio |-> p]

MCFiles ==
    [common |-> <<{"sandbox", "dfx"}, {}>>, appspawn |-> <<{"ace"}, {"ace"}>>]

MCHooksOf ==
    [sandbox |-> {App(ChildExecute, 2), App(ChildPreReply, 1)},
     dfx     |-> {App(ChildExecute, 1), App(ChildPreRun, 1),
                  [api |-> "process", stage |-> ChildPreRun, prio |-> 1],
                  [api |-> "process", stage |-> AppAdd, prio |-> 1]},
     ace     |-> {[api |-> "server", stage |-> ServerPreload, prio |-> 1],
                  App(ChildColdBoot, 1), App(ChildPreRun, 2)},
     asan    |-> {App(ChildPostReply, 1)}]
================================================================================
