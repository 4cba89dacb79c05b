--------------------------- MODULE ReactorWidgets ---------------------------
(***************************************************************************)
(* The life of the objects that run JavaScript through the environment     *)
(* pool: UReactorUIWidget (runtime widgets), UReactorUtilityWidget (editor *)
(* utility widgets) and UReactorUMGCommonBP (the blueprint that executes,  *)
(* reloads and compiles the scripts).                                      *)
(*                                                                         *)
(* All of it is synchronous code on the game thread, but it is re-entrant: *)
(* while C++ waits for a script (Start) or for a mounted tree              *)
(* (ExecuteMainCaller), that JavaScript may create another widget, which   *)
(* runs the same code to its end. So every actor has one frame on the game *)
(* thread's call stack: pc says where it is, depth how many frames are at  *)
(* or below it, and only the top frame moves.                              *)
(***************************************************************************)
EXTENDS JsBridgeCaller

CONSTANTS
    Widgets,        \* UReactorUIWidget objects
    Utilities,      \* UReactorUtilityWidget objects
    Blueprints,     \* UReactorUMGCommonBP objects
    Compilers,      \* the blueprints among them that have TypeScript to compile
    ScriptOf,       \* actor -> the name it starts its launch script by: a widget's is
                    \* the relative MainScriptPath, a blueprint's the full path
    CompileScript,  \* utils/compile.js, whose caller is named "TSCompiler"
    WithEditor,     \* WITH_EDITOR: PIE, blueprints, rebuilds exist
    Nesting,        \* whether JavaScript creates widgets itself
    Faults          \* what may go wrong, a subset of AllFaults

Actors == Widgets \cup Utilities \cup Blueprints

\* A script ends without binding its caller, throws, has lost its directory;
\* the mounted tree throws.
AllFaults == {"nobind", "throws", "nodir", "mountthrows"}

ASSUME ActorsAssumption ==
    /\ Widgets \cap Utilities = {}
    /\ (Widgets \cup Utilities) \cap Blueprints = {}
    /\ {None, Dead} \cap Actors = {}
    /\ Compilers \subseteq Blueprints
ASSUME ScriptsAssumption ==
    /\ ScriptOf \in [Actors -> Scripts]
    /\ CompileScript \in Scripts
ASSUME SwitchesAssumption ==
    /\ WithEditor \in BOOLEAN
    /\ Nesting \in BOOLEAN
    /\ Faults \subseteq AllFaults
    /\ ~WithEditor => Utilities = {} /\ Blueprints = {}

VARIABLES
    pie,        \* IsAnyPIERunning()
    level,      \* the number of frames on the game thread's stack
    depth,      \* actor -> the height of its frame, 0 when it has none
    pc,         \* actor -> Points
    script,     \* actor -> the main script its frame runs
    restart,    \* actor -> its frame is in RestartJsScripts, not StartJavaScript
    caller,     \* actor -> the bridge caller passed to the script, or None
    cur,        \* actor -> the environment its JavaScript runs in
    JsEnv,      \* actor -> the environment it has borrowed, or None
    mounted     \* actor -> the environment of its mounted tree, Dead, or None

frameVars  == <<level, depth, pc, script, restart, caller, cur>>
vars == <<JsRuntimeEnvPool, Started, moduleCache, localModuleCache, argv,
          SelfHolder, MainCaller, pie, level, depth, pc, script, restart, caller, cur, JsEnv, mounted>>

\* absent: no object, or a blueprint at rest.  reload, start: before
\* ForceReloadJsFile and before Start in environment cur.  script: the main
\* script executes.  returned: Start has returned into RestartJsScripts.
\* finish: before ReleaseJsEnv.  execute: before ExecuteMainCaller.  mount:
\* MainCaller executes.  live: initialised.
Points == {"absent", "reload", "start", "script", "returned", "finish",
           "execute", "mount", "live"}

TypeOK ==
    /\ PoolTypeOK
    /\ CallerTypeOK
    /\ pie \in BOOLEAN
    /\ level \in Nat
    /\ depth \in [Actors -> Nat]
    /\ pc \in [Actors -> Points]
    /\ script \in [Actors -> Scripts]
    /\ restart \in [Actors -> BOOLEAN]
    /\ caller \in [Actors -> Callers \cup {None}]
    /\ cur \in [Actors -> Envs]
    /\ JsEnv \in [Actors -> Envs \cup {None}]
    /\ mounted \in [Actors -> Envs \cup {None, Dead}]

Init ==
    /\ PoolInit
    /\ CallerInit
    /\ pie = FALSE
    /\ level = 0
    /\ depth = [a \in Actors |-> 0]
    /\ pc = [a \in Actors |-> "absent"]
    /\ script = ScriptOf
    /\ restart = [a \in Actors |-> FALSE]
    /\ caller = [a \in Actors |-> None]
    /\ cur = [a \in Actors |-> 1]
    /\ JsEnv = [a \in Actors |-> None]
    /\ mounted = [a \in Actors |-> None]

-----------------------------------------------------------------------------
(* The call stack.                                                          *)

OnStack(a) == depth[a] > 0
OnTop(a) == OnStack(a) /\ depth[a] = level

\* JavaScript is executing on top of the stack.
InJavaScript == \E a \in Actors : OnTop(a) /\ pc[a] \in {"script", "mount"}

\* Widgets are created by the engine's event loop, or by JavaScript.
MayCreate == level = 0 \/ (Nesting /\ InJavaScript)

\* a calls the code at point p for main script s; the other fields of its frame.
Enter(a, p, s, r, c, e) ==
    /\ level' = level + 1
    /\ depth' = [depth EXCEPT ![a] = level + 1]
    /\ pc' = [pc EXCEPT ![a] = p]
    /\ script' = [script EXCEPT ![a] = s]
    /\ restart' = [restart EXCEPT ![a] = r]
    /\ caller' = [caller EXCEPT ![a] = c]
    /\ cur' = [cur EXCEPT ![a] = e]

Goto(a, p) ==
    /\ pc' = [pc EXCEPT ![a] = p]
    /\ UNCHANGED <<level, depth, script, restart, caller, cur>>

\* A frame at rest again: what its fields were is of no consequence.
AtRest(a) == IF a \in Blueprints THEN "absent" ELSE "live"

Return(a) ==
    /\ level' = level - 1
    /\ depth' = [depth EXCEPT ![a] = 0]
    /\ pc' = [pc EXCEPT ![a] = AtRest(a)]
    /\ script' = [script EXCEPT ![a] = ScriptOf[a]]
    /\ restart' = [restart EXCEPT ![a] = FALSE]
    /\ caller' = [caller EXCEPT ![a] = None]
    /\ cur' = [cur EXCEPT ![a] = 1]

\* Caller objects that a frame or an environment still refers to.
CallersInUse == {caller[a] : a \in Actors} \cup {argv[e] : e \in Envs}

\* a calls RestartJsScripts with main script s and caller c. It is entered at
\* its loop, or past it when the script home directory does not exist.
RestartJsScripts(a, s, c) ==
    \/ /\ Enter(a, "reload", s, TRUE, c, 1)
       /\ PushModules(s)
    \/ /\ "nodir" \in Faults
       /\ Enter(a, "finish", s, TRUE, c, 1)
       /\ UNCHANGED moduleCache

-----------------------------------------------------------------------------
(* UReactorUIWidget::Initialize, up to the first JavaScript.                *)

\* A tree that the UMG designer owns is left alone.
SkipDesignerTree(w) ==
    /\ w \in Widgets \cup Utilities
    /\ WithEditor
    /\ MayCreate
    /\ pc[w] = "absent"
    /\ pc' = [pc EXCEPT ![w] = "live"]
    /\ UNCHANGED <<poolVars, callerVars, pie, level, depth, script, restart,
                   caller, cur, JsEnv, mounted>>

\* The caller of the script is known and no PIE session runs: no script.
UseExistingCaller(w) ==
    /\ w \in Widgets
    /\ MayCreate
    /\ pc[w] = "absent"
    /\ IsExistBridgeCaller(ScriptOf[w]) /\ ~pie
    /\ Enter(w, "execute", ScriptOf[w], FALSE, None, 1)
    /\ UNCHANGED <<poolVars, callerVars, pie, JsEnv, mounted>>

\* AddNewBridgeCaller, then GetFreeJsEnv returns null: RemoveBridgeCaller, which
\* in a PIE session removes the caller that was there before.
NoFreeEnv(w) ==
    /\ w \in Widgets \cup Utilities
    /\ MayCreate
    /\ pc[w] = "absent"
    /\ w \in Widgets => ~IsExistBridgeCaller(ScriptOf[w]) \/ pie
    /\ FreeEnvs = {}
    /\ RemoveBridgeCaller(ScriptOf[w])
    /\ pc' = [pc EXCEPT ![w] = "live"]
    /\ UNCHANGED <<poolVars, pie, level, depth, script, restart, caller, cur,
                   JsEnv, mounted>>

Borrow(a, e) ==
    /\ GetFreeJsEnv(e)
    /\ JsEnv' = [JsEnv EXCEPT ![a] = e]
    /\ UNCHANGED <<Started, localModuleCache, argv>>

\* AddNewBridgeCaller and GetFreeJsEnv succeed: on to StartJavaScript, or, in a
\* PIE session, to RestartJsScripts.
RunScriptToInitWidgetTree(w, c, e) ==
    /\ w \in Widgets
    /\ MayCreate
    /\ pc[w] = "absent"
    /\ ~IsExistBridgeCaller(ScriptOf[w]) \/ pie
    /\ AddNewBridgeCaller(ScriptOf[w], c, CallersInUse)
    /\ Borrow(w, e)
    /\ \/ /\ ~pie
          /\ Enter(w, "start", ScriptOf[w], FALSE, c, e)
          /\ UNCHANGED moduleCache
       \/ /\ pie
          /\ RestartJsScripts(w, ScriptOf[w], c)
    /\ UNCHANGED <<pie, mounted>>

\* UReactorUtilityWidget: a new caller in any case, and always a restart.
RunScriptToInitUtility(u, c, e) ==
    /\ u \in Utilities
    /\ MayCreate
    /\ pc[u] = "absent"
    /\ ReplaceBridgeCaller(ScriptOf[u], c, CallersInUse)
    /\ Borrow(u, e)
    /\ RestartJsScripts(u, ScriptOf[u], c)
    /\ UNCHANGED <<pie, mounted>>

-----------------------------------------------------------------------------
(* UReactorUMGCommonBP. The editor calls it from its event loop, where every *)
(* environment is free (QuietPoolIsFree): a null environment cannot occur.   *)

BlueprintMayRun(b) == b \in Blueprints /\ level = 0 /\ pc[b] = "absent"

ExecuteJsScripts(b, e) ==
    /\ BlueprintMayRun(b)
    /\ Borrow(b, e)
    /\ Enter(b, "start", ScriptOf[b], FALSE, None, e)
    /\ UNCHANGED <<moduleCache, callerVars, pie, mounted>>

\* Restarts the scripts in every environment without borrowing any.
ReloadJsScripts(b) ==
    /\ BlueprintMayRun(b)
    /\ RestartJsScripts(b, ScriptOf[b], None)
    /\ UNCHANGED <<JsRuntimeEnvPool, Started, localModuleCache, argv, callerVars, pie,
                   JsEnv, mounted>>

\* ExecuteScriptFunctionViaBridgeCaller("TSCompiler", utils/compile.js)
CompileTsScript(b, c, e) ==
    /\ BlueprintMayRun(b)
    /\ b \in Compilers
    /\ ~IsExistBridgeCaller(CompileScript)
    /\ AddNewBridgeCaller(CompileScript, c, CallersInUse)
    /\ Borrow(b, e)
    /\ Enter(b, "start", CompileScript, FALSE, c, e)
    /\ UNCHANGED <<moduleCache, pie, mounted>>

CompileAgain(b) ==
    /\ BlueprintMayRun(b)
    /\ b \in Compilers
    /\ IsExistBridgeCaller(CompileScript)
    /\ Enter(b, "execute", CompileScript, FALSE, None, 1)
    /\ UNCHANGED <<poolVars, callerVars, pie, JsEnv, mounted>>

-----------------------------------------------------------------------------
(* The steps of the top frame.                                              *)

AtPoint(a, p) == OnTop(a) /\ pc[a] = p

\* RestartJsScripts, environment cur: Release and ForceReloadJsFile.
ForceReload(a) ==
    /\ AtPoint(a, "reload")
    /\ ReleaseAndForceReload(cur[a], script[a])
    /\ Goto(a, "start")
    /\ UNCHANGED <<callerVars, pie, JsEnv, mounted>>

AfterStart(a) == IF restart[a] THEN "returned" ELSE "finish"

\* The caller that a adds to the arguments of the environment. The argument of
\* utils/compile.js has another name, and is read and removed by that script.
Argument(a) == IF script[a] = CompileScript THEN None ELSE caller[a]

\* The caller that the script of a finds there.
ArgumentFound(a) == IF script[a] = CompileScript THEN caller[a] ELSE argv[cur[a]]

\* FJsEnvImpl::Start up to the first line of the script, or, when the script
\* does not run, to its end.
Start(a) ==
    /\ AtPoint(a, "start")
    /\ IF Started[cur[a]]
       THEN StartRefused(cur[a]) /\ Goto(a, AfterStart(a))
       ELSE \/ StartCached(cur[a], script[a], Argument(a)) /\ Goto(a, AfterStart(a))
            \/ StartExecutes(cur[a], script[a], Argument(a)) /\ Goto(a, "script")
    /\ UNCHANGED <<callerVars, pie, JsEnv, mounted>>

\* The script binds its function to the caller it finds in its arguments.
ScriptBinds(a) ==
    /\ AtPoint(a, "script")
    /\ caller[a] # None
    /\ StartEnds(cur[a], script[a], FALSE)
    /\ BindMainCaller(ArgumentFound(a), cur[a])
    /\ Goto(a, AfterStart(a))
    /\ UNCHANGED <<pie, JsEnv, mounted>>

\* The script has no caller to bind (CustomArgs.bIsUsingBridgeCaller is false),
\* or does not bind it, or throws before it does.
ScriptEndsUnbound(a) ==
    /\ AtPoint(a, "script")
    /\ \/ /\ caller[a] = None \/ "nobind" \in Faults
          /\ StartEnds(cur[a], script[a], FALSE)
       \/ /\ "throws" \in Faults
          /\ StartEnds(cur[a], script[a], TRUE)
    /\ Goto(a, AfterStart(a))
    /\ UNCHANGED <<callerVars, pie, JsEnv, mounted>>

\* Mutant: the loop over the pool runs once too often.
NextEnv_OneTooMany(a) ==
    /\ AtPoint(a, "returned")
    /\ ReleaseStarted(cur[a])
    /\ IF cur[a] <= PoolSize
       THEN /\ pc' = [pc EXCEPT ![a] = "reload"]
            /\ cur' = [cur EXCEPT ![a] = @ + 1]
            /\ UNCHANGED <<level, depth, script, restart, caller>>
       ELSE Goto(a, "finish")
    /\ UNCHANGED <<callerVars, pie, JsEnv, mounted>>

\* RestartJsScripts after Start: Release, and the next environment of the pool.
NextEnv(a) ==
    /\ AtPoint(a, "returned")
    /\ ReleaseStarted(cur[a])
    /\ IF cur[a] < PoolSize
       THEN /\ pc' = [pc EXCEPT ![a] = "reload"]
            /\ cur' = [cur EXCEPT ![a] = @ + 1]
            /\ UNCHANGED <<level, depth, script, restart, caller>>
       ELSE Goto(a, "finish")
    /\ UNCHANGED <<callerVars, pie, JsEnv, mounted>>

\* Mutant: the pointer is cleared, but the environment is not given back.
Finish_Leak(a) ==
    /\ AtPoint(a, "finish")
    /\ JsEnv' = [JsEnv EXCEPT ![a] = None]
    /\ IF caller[a] = None THEN Return(a) ELSE Goto(a, "execute")
    /\ UNCHANGED <<poolVars, callerVars, pie, mounted>>

\* ReleaseJsEnv of the widget or the blueprint: the borrowed environment, if
\* there is one, goes back to the pool.
Finish(a) ==
    /\ AtPoint(a, "finish")
    /\ ReleaseJsEnv(JsEnv[a])
    /\ JsEnv' = [JsEnv EXCEPT ![a] = None]
    /\ IF caller[a] = None THEN Return(a) ELSE Goto(a, "execute")
    /\ UNCHANGED <<moduleCache, localModuleCache, argv, callerVars, pie, mounted>>

\* ExecuteMainCaller finds a function of a living environment ...
Execute(a, e) ==
    /\ AtPoint(a, "execute")
    /\ RunsIn(script[a], e)
    /\ pc' = [pc EXCEPT ![a] = "mount"]
    /\ cur' = [cur EXCEPT ![a] = e]
    /\ UNCHANGED <<poolVars, callerVars, pie, level, depth, script, restart,
                   caller, JsEnv, mounted>>

\* ... or the proxy of a destroyed one, which does nothing and reports success ...
ExecuteInert(a) ==
    /\ AtPoint(a, "execute")
    /\ RunsNothing(script[a])
    /\ mounted' = [mounted EXCEPT ![a] = Dead]
    /\ Return(a)
    /\ UNCHANGED <<poolVars, callerVars, pie, JsEnv>>

\* Mutant: the caller that could not be executed stays registered.
ExecuteUnbound_Kept(a) ==
    /\ AtPoint(a, "execute")
    /\ IsNotBound(script[a])
    /\ Return(a)
    /\ UNCHANGED <<poolVars, callerVars, pie, JsEnv, mounted>>

\* ... or nothing: "Not bind any bridge caller".
ExecuteUnbound(a) ==
    /\ AtPoint(a, "execute")
    /\ IsNotBound(script[a])
    /\ RemoveBridgeCaller(script[a])
    /\ Return(a)
    /\ UNCHANGED <<poolVars, pie, JsEnv, mounted>>

\* MainCaller returns; an exception of its JavaScript is logged.
MountEnds(a) ==
    /\ AtPoint(a, "mount")
    /\ \/ mounted' = [mounted EXCEPT ![a] = IF a \in Blueprints THEN None ELSE cur[a]]
       \/ "mountthrows" \in Faults /\ UNCHANGED mounted
    /\ Return(a)
    /\ UNCHANGED <<poolVars, callerVars, pie, JsEnv>>

-----------------------------------------------------------------------------
(* The engine's event loop, with no JavaScript on the stack.                *)

\* UReactorUIWidget::BeginDestroy; the object's next incarnation is a new one.
BeginDestroy(w) ==
    /\ w \in Widgets
    /\ level = 0
    /\ pc[w] = "live"
    /\ RemoveBridgeCaller(ScriptOf[w])
    /\ ReleaseJsEnv(JsEnv[w])
    /\ JsEnv' = [JsEnv EXCEPT ![w] = None]
    /\ pc' = [pc EXCEPT ![w] = "absent"]
    /\ mounted' = [mounted EXCEPT ![w] = None]
    /\ UNCHANGED <<moduleCache, localModuleCache, argv, pie, level, depth, script, restart,
                   caller, cur>>

\* UReactorUtilityWidget::BeginDestroy removes nothing.
BeginDestroyUtility(u) ==
    /\ u \in Utilities
    /\ level = 0
    /\ pc[u] = "live"
    /\ pc' = [pc EXCEPT ![u] = "absent"]
    /\ mounted' = [mounted EXCEPT ![u] = None]
    /\ UNCHANGED <<poolVars, callerVars, pie, level, depth, script, restart,
                   caller, cur, JsEnv>>

\* The DebugFullGC command and the deletion of a blueprint asset. The trees that
\* were mounted lose the environment their event handlers live in.
Rebuild ==
    /\ WithEditor
    /\ level = 0
    /\ RebuildRuntimePool
    /\ LoseBindings
    /\ mounted' = [a \in Actors |-> IF mounted[a] \in Envs THEN Dead ELSE mounted[a]]
    /\ UNCHANGED <<pie, frameVars, JsEnv>>

CollectProxies ==
    /\ level = 0
    /\ ExpireBindings
    /\ UNCHANGED <<poolVars, pie, frameVars, JsEnv, mounted>>

TogglePIE ==
    /\ WithEditor
    /\ level = 0
    /\ pie' = ~pie
    /\ UNCHANGED <<poolVars, callerVars, frameVars, JsEnv, mounted>>

-----------------------------------------------------------------------------

FrameStep(a) ==
    \/ ForceReload(a)
    \/ Start(a)
    \/ ScriptBinds(a)
    \/ ScriptEndsUnbound(a)
    \/ NextEnv(a)
    \/ Finish(a)
    \/ \E e \in Envs : Execute(a, e)
    \/ ExecuteInert(a)
    \/ ExecuteUnbound(a)
    \/ MountEnds(a)

Call(a) ==
    \/ SkipDesignerTree(a)
    \/ UseExistingCaller(a)
    \/ NoFreeEnv(a)
    \/ \E c \in Callers, e \in Envs : RunScriptToInitWidgetTree(a, c, e)
    \/ \E c \in Callers, e \in Envs : RunScriptToInitUtility(a, c, e)
    \/ \E e \in Envs : ExecuteJsScripts(a, e)
    \/ ReloadJsScripts(a)
    \/ \E c \in Callers, e \in Envs : CompileTsScript(a, c, e)
    \/ CompileAgain(a)

EventLoop ==
    \/ \E a \in Actors : BeginDestroy(a) \/ BeginDestroyUtility(a)
    \/ Rebuild
    \/ CollectProxies
    \/ TogglePIE

Next ==
    \/ \E a \in Actors : FrameStep(a)
    \/ \E a \in Actors : Call(a)
    \/ EventLoop

Spec == Init /\ [][Next]_vars

-----------------------------------------------------------------------------
(* Correctness.                                                             *)

Lease == INSTANCE EnvLease
             WITH Clients <- Actors, lease <- JsEnv, busy <- JsRuntimeEnvPool

\* The pool keeps the promise of EnvLease to everyone who calls GetFreeJsEnv and
\* ReleaseJsEnv, through every nested call, failure and rebuild.
PoolIsALease == Lease!LeaseSpec

\* Every early return of RunScriptToInitWidgetTree and its siblings gives the
\* environment back: when the stack is empty the whole pool is idle, and no
\* environment is left in the Started state that makes it refuse scripts.
QuietPoolIsFree ==
    level = 0 => \A e \in Envs : JsRuntimeEnvPool[e] = 0 /\ ~Started[e]

\* No call of FJsEnvImpl::Start runs into "Started yet!", however the restarts
\* and starts of nested frames interleave in one environment.
StartNeverRefused ==
    \A a \in Actors : AtPoint(a, "start") => ~Started[cur[a]]

\* The points from which a frame still comes to its ExecuteMainCaller.
BeforeExecute == {"reload", "start", "script", "returned", "finish", "execute"}

\* A frame that still comes to its ExecuteMainCaller.
WillExecute(a) ==
    \/ pc[a] = "execute"
    \/ caller[a] # None /\ pc[a] \in {"reload", "start", "script", "returned", "finish"}

\* A caller object that no script has bound yet is in SelfHolder only as long as
\* a frame of that script has its ExecuteMainCaller ahead of it. One that stayed
\* would keep every later widget of the script from running the script.
NoHalfRegisteredCaller ==
    \A s \in Scripts :
        IsExistBridgeCaller(s) /\ MainCaller[SelfHolder[s]] = Unbound
        => \E a \in Actors : OnStack(a) /\ script[a] = s /\ WillExecute(a)

\* Environment e keeps for name s a module that was replaced through another
\* name of the same script, and that no forceReload reaches any more.
IsSuperseded(e, s) ==
    /\ localModuleCache[e][s] = "old"
    /\ \E t \in Scripts \ {s} : KeyOf(t) = KeyOf(s) /\ localModuleCache[e][t] # "none"

\* A widget in a PIE session, and a utility widget at any time, ends its restart
\* with a function of the last environment bound to its own caller, whatever a
\* rebuild, an earlier instance or a dead proxy left behind: as long as it is
\* the only instance of its script and nothing fails. The one exception is the
\* code's: where a blueprint has executed the script by its full path since the
\* widget's name was last required, the restart may be given the old module and
\* execute nothing.
RestartRebinds ==
    \A w \in Widgets \cup Utilities :
        /\ AtPoint(w, "execute")
        /\ caller[w] # None /\ restart[w]
        /\ \A b \in Actors \ {w} : ScriptOf[b] = ScriptOf[w] => pc[b] = "absent"
        => /\ SelfHolder[script[w]] = caller[w]
           /\ \/ MainCaller[caller[w]] = PoolSize
              \/ IsSuperseded(PoolSize, script[w])

-----------------------------------------------------------------------------
(* The invariant that the safety properties follow from.                    *)

Resting == {"absent", "live"}
InJs == {"script", "mount"}
Holding == {"reload", "start", "script", "returned", "finish"}

\* Frames have distinct heights, and those below the top wait for JavaScript.
StackInv ==
    /\ \A a \in Actors : depth[a] <= level
    /\ \A a, b \in Actors : depth[a] = depth[b] /\ depth[a] > 0 => a = b
    /\ \A a \in Actors : depth[a] > 0 <=> pc[a] \notin Resting
    /\ \A a \in Actors : 0 < depth[a] /\ depth[a] < level => pc[a] \in InJs

\* An environment is in use exactly while one frame holds it.
LeaseInv ==
    /\ \A e \in Envs : JsRuntimeEnvPool[e] = 1 <=> \E a \in Actors : JsEnv[a] = e
    /\ \A a, b \in Actors : JsEnv[a] = JsEnv[b] /\ JsEnv[a] # None => a = b
    /\ \A a \in Actors : JsEnv[a] # None => pc[a] \in Holding

\* StartJavaScript runs in the environment that its frame holds.
FrameInv ==
    \A a \in Actors :
        /\ ~restart[a] /\ pc[a] \in {"start", "script", "finish"} => cur[a] = JsEnv[a]
        /\ pc[a] \in {"reload", "returned"} => restart[a]

\* A started environment is about to be released by the top frame.
StartedInv ==
    \A e \in Envs : Started[e] =>
        \E a \in Actors :
            /\ OnTop(a)
            /\ cur[a] = e
            /\ pc[a] = "returned" \/ (pc[a] = "finish" /\ ~restart[a])

Inv == /\ TypeOK
       /\ StackInv
       /\ LeaseInv
       /\ FrameInv
       /\ StartedInv
       /\ NoHalfRegisteredCaller

-----------------------------------------------------------------------------
(* What the comments of the headers say.                                    *)

\* ReactorUIWidget.h: "Each instance creates its own JavaScript environment,
\* executes the associated launch script, and wires a JsBridgeCaller so that the
\* React reconciler can push widget mutations back into the UMG tree."
LiveWidgetIsMounted ==
    \A w \in Widgets : pc[w] = "live" => mounted[w] \in Envs

\* JsEnvRuntime.cpp, of the loop of RestartJsScripts: "Re-execute the main entry
\* point in every environment".
RestartReexecutes ==
    \A a \in Actors :
        AtPoint(a, "start") /\ restart[a] => Executes(cur[a], script[a])
=============================================================================
