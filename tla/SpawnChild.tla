------------------------------- MODULE SpawnChild ------------------------------
(***************************************************************************)
(* The life of one application process from the inside: the spawner loads    *)
(* its plug-in modules and their hooks (modulemgr.c, appspawn_modulemgr.c,   *)
(* StartSpawnService), forks a child, and the child goes through the hook    *)
(* stages (AppSpawnChild).  A cold start executes the spawner's program      *)
(* again, which loads its modules anew and goes on in AppSpawnColdRun.       *)
(*                                                                          *)
(* Outside the repository: the hook list (sorted by priority, in order of    *)
(* registration among equals), the stage numbers, dlopen, and what a plug-in *)
(* registers and answers.                                                   *)
(***************************************************************************)
EXTENDS Naturals, FiniteSets, Sequences, SequencesExt

CONSTANTS
    Files,       \* per module type, the plug-ins in each policy directory
    HooksOf,     \* per plug-in, the hooks its constructor registers
    Loopers,     \* the plug-ins whose preload hook calls RegChildLooper
    AsanModule   \* the plug-in installed by name

ASSUME SpawnChildAssumption ==
    /\ {"common", "appspawn"} \subseteq DOMAIN Files
    /\ \A t \in DOMAIN Files : Files[t] \in Seq(SUBSET DOMAIN HooksOf)
    /\ AsanModule \in DOMAIN HooksOf
    /\ \A p \in DOMAIN HooksOf :
          /\ IsFiniteSet(HooksOf[p])
          /\ HooksOf[p] \subseteq [api : {"server", "process", "app"}, stage : Nat, prio : Nat]

VARIABLES
    image,    \* the program that runs: "server", "child" or "cold"
    pc,       \* where it is
    modules,  \* per module type, the installed modules; absent if no manager
    scan,     \* the modules of a type that ScanModules has yet to install
    hooks,    \* the hooks in order of registration
    content,  \* AppSpawnContent: "none", "live", "freed"
    looper,   \* content->runChildProcessor is set
    ctx,      \* the AppSpawningCtx: "none", "live", "freed"
    cold,     \* APP_COLD_START is asked for
    told,     \* what the parent was told, through forkCtx.fd[1]
    failed,   \* history: stages of this image that did not succeed
    outcome   \* history: the application ran, or why the image ended

childVars == <<image, pc, modules, scan, hooks, content, looper, ctx, cold, told, failed, outcome>>

start == <<modules, scan, hooks, content, looper>>

--------------------------------------------------------------------------------
(* Hooks *)

\* The stages, in the order of AppSpawnHookStage.
ServerPreload == 10
ServerExit    == 12
AppAdd        == 20
AppUmount     == 22
ParentPreFork == 30
ChildColdBoot == 40
ChildExecute  == 41
ChildPreReply == 42
ChildPostReply == 43
ChildPreRun   == 44

LowestPrio == 9

\* The owner of the hook StartSpawnService adds.
Spawner == [path |-> 0, name |-> "spawner"]

\* Each kind of hook has stages of its own: the argument a hook is run with is
\* that of the function that executes the stage.
AddServerStageHook(h) == h.api = "server" /\ h.stage \in ServerPreload .. ServerExit
AddProcessMgrHook(h)  == h.api = "process" /\ h.stage \in AppAdd .. AppUmount
AddAppSpawnHook(h)    == h.api = "app" /\ h.stage \in ParentPreFork .. ChildPreRun

Accepted(h) == AddServerStageHook(h) \/ AddProcessMgrHook(h) \/ AddAppSpawnHook(h)

\* The hooks of a module, or of the spawner, added to hs.
Add(hs, by, new) ==
    hs \o SetToSeq({[by |-> by, stage |-> h.stage, prio |-> h.prio]
                       : h \in {x \in new : Accepted(x)}})

\* Hook i of hs runs before hook j.
Before(i, j) == \/ hooks[i].prio < hooks[j].prio
                \/ hooks[i].prio = hooks[j].prio /\ i < j

At(stage) == {i \in DOMAIN hooks : hooks[i].stage = stage}

\* What is run of a stage when the hooks bad fail: everything, or with
\* HOOK_STOP_WHEN_ERROR nothing after the first failure.
Run(stage, bad, stop) ==
    {i \in At(stage) : stop => \A j \in bad : ~ Before(j, i)}

\* The outcomes of a stage: a stage without a hook succeeds, and without
\* HOOK_STOP_WHEN_ERROR every stage does.
HookExecute(stage, stop) ==
    {[run |-> Run(stage, bad, stop), ok |-> ~ stop \/ bad = {}]
        : bad \in SUBSET {i \in At(stage) : hooks[i].by # Spawner}}

--------------------------------------------------------------------------------
(* Modules *)

\* ModuleCompare takes the path and "lib" off the installed module's name, but
\* not off the one it is compared with: only a bare name is ever found.
ModuleCompare(installed, new) == new.path = 0 /\ installed.name = new.name

\* ModuleInstall: the constructor of a module that is opened registers its hooks.
ModuleInstall(type, new) ==
    /\ modules' = (type :> (modules[type] \cup {new})) @@ modules
    /\ hooks' = Add(hooks, new, HooksOf[new.name])

\* ModuleMgrInstall: a module that is there already, or cannot be opened, is
\* passed over, and the caller does not look at the result.
ModuleMgrInstall(type, new) ==
    \/ UNCHANGED <<modules, hooks>>
    \/ /\ \A m \in modules[type] : ~ ModuleCompare(m, new)
       /\ ModuleInstall(type, new)

\* ScanModules of each policy directory: a plug-in is named by its whole path.
ScanModules(type) ==
    UNION {[path : {i}, name : Files[type][i]] : i \in DOMAIN Files[type]}

\* A step of StartSpawnService, which both the spawner and a cold child run.
Starting(at, next) ==
    image \in {"server", "cold"} /\ pc = at /\ scan.rest = {} /\ pc' = next

\* AppSpawnLoadAutoRunModules: a type is loaded once.
AppSpawnLoadAutoRunModules(type) ==
    /\ type \notin DOMAIN modules
    /\ modules' = modules @@ (type :> {})
    /\ scan' = [type |-> type, rest |-> ScanModules(type)]
    /\ UNCHANGED <<image, hooks, content, looper, ctx, cold, told, failed, outcome>>

LoadCommon == Starting("common", "asan") /\ AppSpawnLoadAutoRunModules("common")

\* ModuleMgrScan goes through the directories from the last to the first, and
\* through each in an order of its own.
ModuleMgrScan ==
    \E new \in scan.rest :
        /\ \A m \in scan.rest : m.path <= new.path
        /\ ModuleMgrInstall(scan.type, new)
        /\ scan' = [scan EXCEPT !.rest = @ \ {new}]
        /\ UNCHANGED <<image, pc, content, looper, ctx, cold, told, failed, outcome>>

\* AppSpawnModuleMgrInstall: by name, into a manager of its own.
AppSpawnModuleMgrInstall ==
    LET new == [path |-> 0, name |-> AsanModule]
    IN  /\ Starting("asan", "content")
        /\ \/ modules' = modules @@ ("default" :> {}) /\ UNCHANGED hooks
           \/ /\ modules' = modules @@ ("default" :> {new})
              /\ hooks' = Add(hooks, new, HooksOf[AsanModule])
        /\ UNCHANGED <<image, scan, content, looper, ctx, cold, told, failed, outcome>>

\* The image ends without a word to the parent.
Ends(why) ==
    /\ pc' = "end" /\ outcome' = why
    /\ UNCHANGED <<image, modules, scan, hooks, looper, ctx, cold, told, failed>>

AppSpawnCreateContent ==
    /\ image \in {"server", "cold"} /\ pc = "content"
    /\ \/ pc' = "load" /\ content' = "live"
          /\ UNCHANGED <<image, modules, scan, hooks, looper, ctx, cold, told, failed, outcome>>
       \/ Ends("no content") /\ UNCHANGED content

LoadType == Starting("load", "preload") /\ AppSpawnLoadAutoRunModules("appspawn")

\* The preload stage and what follows: a child processor must have been
\* registered, and the spawner adds its own hook to the last child stage.
Preload ==
    /\ image \in {"server", "cold"} /\ pc = "preload" /\ scan.rest = {}
    /\ \E r \in HookExecute(ServerPreload, TRUE) :
          \/ /\ ~ r.ok
             /\ content' = "freed" /\ Ends("not prepared")
          \/ /\ r.ok /\ \A i \in r.run : hooks[i].by.name \notin Loopers
             /\ content' = "freed" /\ Ends("not prepared")
          \/ /\ r.ok /\ \E i \in r.run : hooks[i].by.name \in Loopers
             /\ looper' = TRUE
             /\ hooks' = Add(hooks, Spawner,
                             {[api |-> "app", stage |-> ChildPreRun, prio |-> LowestPrio]})
             /\ pc' = IF image = "server" THEN "serve" ELSE "args"
             /\ UNCHANGED <<image, modules, scan, content, ctx, cold, told, failed, outcome>>

--------------------------------------------------------------------------------
(* The child *)

AppSpawnForkChildProcess ==
    /\ image = "server" /\ pc = "serve"
    /\ image' = "child" /\ pc' = "coldboot"
    /\ ctx' = "live" /\ cold' \in BOOLEAN
    /\ UNCHANGED <<start, told, failed, outcome>>

\* NotifyResToParent: the pipe is closed with the first answer.
NotifyResToParent(result) == told' = IF told = "none" THEN result ELSE told

\* Mutant of AppSpawnEnvClear: the stage stops at a hook that fails.
AppSpawnEnvClearStops ==
    \E r \in HookExecute(ChildPreRun, TRUE) :
        LET freed == \E i \in r.run : hooks[i].by = Spawner
        IN  /\ ctx' = IF freed THEN "freed" ELSE ctx
            /\ content' = IF freed THEN "freed" ELSE content

\* AppSpawnEnvClear: the last stage is run whatever its hooks answer, and
\* AppSpawnClearEnv, the last of them, frees the context and the content.
AppSpawnEnvClear ==
    \E r \in HookExecute(ChildPreRun, FALSE) :
        LET freed == \E i \in r.run : hooks[i].by = Spawner
        IN  /\ ctx' = IF freed THEN "freed" ELSE ctx
            /\ content' = IF freed THEN "freed" ELSE content

\* A stage whose failure ends the child: the parent is told and the
\* environment cleared.
ChildStage(at, stage, next) ==
    /\ image = "child" /\ pc = at
    /\ \E r \in HookExecute(stage, TRUE) :
          \/ /\ r.ok
             /\ pc' = next
             /\ UNCHANGED <<content, ctx, told, failed>>
          \/ /\ ~ r.ok
             /\ failed' = failed \cup {at}
             /\ NotifyResToParent("fail")
             /\ AppSpawnEnvClear
             /\ pc' = "end"
    /\ UNCHANGED <<image, modules, scan, hooks, looper, cold, outcome>>

\* Mutant of PreReplyHook: the parent is told and the child goes on.
PreReplyHookGoesOn ==
    /\ image = "child" /\ pc = "prereply"
    /\ \E r \in HookExecute(ChildPreReply, TRUE) :
          /\ told' = IF r.ok THEN told ELSE "fail"
          /\ failed' = IF r.ok THEN failed ELSE failed \cup {"prereply"}
    /\ pc' = "notify"
    /\ UNCHANGED <<image, start, ctx, cold, outcome>>

ClearEnvHook == ChildStage("coldboot", ChildColdBoot, IF cold THEN "exec" ELSE "execute")
SpawningHook == ChildStage("execute", ChildExecute, "prereply")
PreReplyHook == ChildStage("prereply", ChildPreReply, "notify")

\* AppSpawnColdStartApp: when the message cannot be handed over the child goes
\* on by itself; when execv fails it returns 0 all the same and the child ends.
AppSpawnColdStartApp ==
    /\ image = "child" /\ pc = "exec"
    /\ \/ /\ pc' = "execute"
          /\ UNCHANGED <<image, start, ctx, cold, told, failed, outcome>>
       \/ Ends("no exec") /\ UNCHANGED content
       \/ /\ image' = "cold" /\ pc' = "common"
          /\ modules' = <<>> /\ hooks' = <<>>
          /\ content' = "none" /\ looper' = FALSE /\ ctx' = "none"
          /\ UNCHANGED <<scan, cold, told, failed, outcome>>

Notify ==
    /\ image = "child" /\ pc = "notify"
    /\ NotifyResToParent("ok")
    /\ pc' = "postreply"
    /\ UNCHANGED <<image, start, ctx, cold, failed, outcome>>

\* AppSpawnExecutePostReplyHook: its result is not looked at.
PostReplyHook ==
    /\ pc = "postreply"
    /\ HookExecute(ChildPostReply, TRUE) # {}
    /\ pc' = "run"
    /\ UNCHANGED <<image, start, ctx, cold, told, failed, outcome>>

\* The child processor runs the application; an error clears the environment.
RunChildProcessor ==
    /\ pc = "run"
    /\ pc' = "end"
    /\ outcome' = IF looper THEN "app" ELSE outcome
    /\ \/ /\ looper \/ image = "child"
          /\ UNCHANGED <<content, ctx, failed>>
       \/ /\ looper \/ image = "cold"
          /\ failed' = failed \cup {"run"}
          /\ AppSpawnEnvClear
    /\ UNCHANGED <<image, modules, scan, hooks, looper, cold, told>>

--------------------------------------------------------------------------------
(* The cold child *)

\* GetAppSpawningCtxFromArg: the message comes by shared memory, and a failure
\* is told before anything is known of it.  The file descriptor of the answer is
\* kept in the context, so without a context nothing is told.
GetAppSpawningCtxFromArg ==
    /\ image = "cold" /\ pc = "args"
    /\ \/ pc' = "execute" /\ ctx' = "live" /\ UNCHANGED <<told, outcome>>
       \/ pc' = "end" /\ ctx' = "freed" /\ outcome' = "no message" /\ NotifyResToParent("fail")
       \/ pc' = "end" /\ outcome' = "no context" /\ UNCHANGED <<ctx, told>>
    /\ UNCHANGED <<image, start, cold, failed>>

ColdSpawningHook ==
    /\ image = "cold" /\ pc = "execute"
    /\ \E r \in HookExecute(ChildExecute, TRUE) :
          \/ /\ r.ok
             /\ pc' = "prereply"
             /\ UNCHANGED <<content, ctx, told, failed>>
          \/ /\ ~ r.ok
             /\ failed' = failed \cup {"execute"}
             /\ NotifyResToParent("fail")
             /\ AppSpawnEnvClear
             /\ pc' = "end"
    /\ UNCHANGED <<image, modules, scan, hooks, looper, cold, outcome>>

\* Mutant of ColdPreReplyHook: success is told whatever the stage gives.
ColdPreReplyHookSucceeds ==
    /\ image = "cold" /\ pc = "prereply"
    /\ \E r \in HookExecute(ChildPreReply, TRUE) :
          failed' = IF r.ok THEN failed ELSE failed \cup {"prereply"}
    /\ NotifyResToParent("ok")
    /\ pc' = "postreply"
    /\ UNCHANGED <<image, start, ctx, cold, outcome>>

\* Whatever the stage before the answer gives is the answer, and the
\* application is run in either case.
ColdPreReplyHook ==
    /\ image = "cold" /\ pc = "prereply"
    /\ \E r \in HookExecute(ChildPreReply, TRUE) :
          /\ NotifyResToParent(IF r.ok THEN "ok" ELSE "fail")
          /\ failed' = IF r.ok THEN failed ELSE failed \cup {"prereply"}
    /\ pc' = "postreply"
    /\ UNCHANGED <<image, start, ctx, cold, outcome>>

Done == pc = "end" /\ UNCHANGED childVars

ChildInit ==
    /\ image = "server" /\ pc = "common"
    /\ modules = <<>> /\ scan = [type |-> "common", rest |-> {}] /\ hooks = <<>>
    /\ content = "none" /\ looper = FALSE
    /\ ctx = "none" /\ cold = FALSE
    /\ told = "none" /\ failed = {} /\ outcome = "no"

ChildNext ==
    \/ LoadCommon \/ ModuleMgrScan \/ AppSpawnModuleMgrInstall \/ AppSpawnCreateContent \/ LoadType
    \/ Preload \/ AppSpawnForkChildProcess
    \/ ClearEnvHook \/ AppSpawnColdStartApp \/ SpawningHook \/ PreReplyHook
    \/ Notify \/ PostReplyHook \/ RunChildProcessor
    \/ GetAppSpawningCtxFromArg \/ ColdSpawningHook \/ ColdPreReplyHook
    \/ Done

ChildSpec == ChildInit /\ [][ChildNext]_childVars

--------------------------------------------------------------------------------
(* Properties *)

\* The parent is told the truth: success only when every stage before the
\* answer succeeded, failure only when one did not, and a child ends without an
\* answer only when its program could not be executed or prepared.  The parent
\* waits on the pipe, and what it hears decides whether the client gets an
\* application or an error: of an application that runs it has heard success.
\* The one exception is a cold child, which goes on although the stage before
\* the answer failed and the parent was told so.
AnswerIsTrue ==
    /\ told = "ok" => failed \subseteq {"run"}
    /\ told = "fail" => failed \ {"run"} # {} \/ outcome = "no message"
    /\ outcome = "app" => told = "ok" \/ (image = "cold" /\ failed \subseteq {"prereply", "run"})
    /\ pc = "end" /\ image # "server" =>
          told # "none" \/ outcome \in {"no exec", "no content", "not prepared", "no context"}

\* A child that fails frees its context and its content, once, as the last
\* thing it does: a hook that fails in the last stage does not keep
\* AppSpawnClearEnv from running, and nothing is run after it.
FailureClears ==
    /\ ctx = "freed" => pc = "end"
    /\ pc = "end" /\ failed \cap (IF image = "cold" THEN {"execute", "run"}
                                  ELSE {"coldboot", "execute", "prereply", "run"}) # {} =>
          ctx = "freed" /\ content = "freed"
================================================================================
