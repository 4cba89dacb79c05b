---------------------------- MODULE JsEnvRuntime ----------------------------
(***************************************************************************)
(* The pool of JavaScript environments that FJsEnvRuntime owns             *)
(* (Source/ReactorUMG/Private/JsEnvRuntime.cpp), and of every environment  *)
(* what a borrower depends on: the Started latch of FJsEnvImpl, the caches *)
(* of require() (ModuleCache) and the argument map of argv.js.             *)
(*                                                                         *)
(* The module has no behaviour of its own: the operators below are the     *)
(* effects of the pool's member functions, and ReactorWidgets composes     *)
(* them with the widgets that call them.                                   *)
(***************************************************************************)
EXTENDS Integers, FiniteSets, ModuleCache

CONSTANTS
    PoolSize,   \* EnvPoolSize; the singleton is built with the default, 1
    Scripts,    \* names of main scripts, as they are passed to Start
    FullPath,   \* name -> the full path of the same script, which is a name too
    SharedKey,  \* relative names are found under an absolute content directory
    Callers,    \* addresses a UJsBridgeCaller object can have
    None        \* the null pointer

ASSUME PoolSizeAssumption == PoolSize \in Nat \ {0}
ASSUME NamesAssumption ==
    /\ FullPath \in [Scripts -> Scripts]
    /\ \A s \in Scripts : FullPath[FullPath[s]] = FullPath[s]
    /\ SharedKey \in BOOLEAN
ASSUME NoneAssumption     == None \notin Callers \cup Nat

VARIABLES
    JsRuntimeEnvPool,   \* environment -> 0 (idle) or 1 (in use)
    Started,            \* environment -> FJsEnvImpl::Started
    moduleCache,        \* environment -> key -> ModuleStates
    localModuleCache,   \* environment -> name -> CopyStates, of puerts.__require
    argv                \* environment -> its "ReactorUIWidget_BridgeCaller"

poolVars == <<JsRuntimeEnvPool, Started, moduleCache, localModuleCache, argv>>

Envs == 1 .. PoolSize

\* The key of a name. A relative name is looked for under ProjectContentDir,
\* which need not be an absolute path: then the module has another key than the
\* same file has under its full path.
KeyOf(s) == IF SharedKey THEN FullPath[s] ELSE s

PoolTypeOK ==
    /\ JsRuntimeEnvPool \in [Envs -> {0, 1}]
    /\ Started \in [Envs -> BOOLEAN]
    /\ moduleCache \in [Envs -> [Scripts -> ModuleStates]]
    /\ localModuleCache \in [Envs -> [Scripts -> CopyStates]]
    /\ argv \in [Envs -> Callers \cup {None}]

\* A pool of new environments: the constructor, and the end of a rebuild.
PoolInit ==
    /\ JsRuntimeEnvPool = [e \in Envs |-> 0]
    /\ Started = [e \in Envs |-> FALSE]
    /\ moduleCache = [e \in Envs |-> [s \in Scripts |-> "absent"]]
    /\ localModuleCache = [e \in Envs |-> [s \in Scripts |-> "none"]]
    /\ argv = [e \in Envs |-> None]

-----------------------------------------------------------------------------

FreeEnvs == {e \in Envs : JsRuntimeEnvPool[e] = 0}

\* The map is walked in the order in which its entries were added.
FirstFree(e) == e \in FreeEnvs /\ \A f \in FreeEnvs : e <= f

\* Mutant: the environment is handed out without being marked as in use.
GetFreeJsEnv_Unmarked(e) ==
    /\ FirstFree(e)
    /\ UNCHANGED JsRuntimeEnvPool

\* GetFreeJsEnv() returning e; it returns null when FreeEnvs is empty.
GetFreeJsEnv(e) ==
    /\ FirstFree(e)
    /\ JsRuntimeEnvPool' = [JsRuntimeEnvPool EXCEPT ![e] = 1]

\* Mutant: the environment goes back to the pool without FJsEnv::Release.
ReleaseJsEnv_Started(e) ==
    IF e \in Envs
    THEN /\ JsRuntimeEnvPool' = [JsRuntimeEnvPool EXCEPT ![e] = 0]
         /\ UNCHANGED Started
    ELSE UNCHANGED <<JsRuntimeEnvPool, Started>>

\* ReleaseJsEnv(e). A null pointer is not in the pool and changes nothing.
ReleaseJsEnv(e) ==
    IF e \in Envs
    THEN /\ JsRuntimeEnvPool' = [JsRuntimeEnvPool EXCEPT ![e] = 0]
         /\ Started' = [Started EXCEPT ![e] = FALSE]
    ELSE UNCHANGED <<JsRuntimeEnvPool, Started>>

\* RebuildRuntimePool(): nothing of the old environments survives, and the
\* new ones are idle whether or not the old ones were.
RebuildRuntimePool ==
    /\ JsRuntimeEnvPool' = [e \in Envs |-> 0]
    /\ Started' = [e \in Envs |-> FALSE]
    /\ moduleCache' = [e \in Envs |-> [s \in Scripts |-> "absent"]]
    /\ localModuleCache' = [e \in Envs |-> [s \in Scripts |-> "none"]]
    /\ argv' = [e \in Envs |-> None]

-----------------------------------------------------------------------------
(* FJsEnvImpl::Start(s, Arguments) in environment e, in the three ways in   *)
(* which it can go, and the end of a script that it did run.                *)

\* Adding the arguments: the last caller passed to this environment wins, and
\* no launch script ever removes it again.
AddArguments(e, caller) ==
    argv' = IF caller = None THEN argv ELSE [argv EXCEPT ![e] = caller]

\* "Started yet!": nothing happens.
StartRefused(e) ==
    /\ Started[e]
    /\ UNCHANGED poolVars

\* require(s) in environment e has to execute the script.
Executes(e, s) == RequireExecutes(moduleCache[e][KeyOf(s)], localModuleCache[e][s])

\* require() finds the module in a cache: the top level is not executed.
StartCached(e, s, caller) ==
    /\ ~Started[e]
    /\ ~Executes(e, s)
    /\ AddArguments(e, caller)
    /\ localModuleCache' = [localModuleCache EXCEPT ![e][s] = Found(@)]
    /\ Started' = [Started EXCEPT ![e] = TRUE]
    /\ UNCHANGED <<JsRuntimeEnvPool, moduleCache>>

\* The module of name s in environment e is replaced, or dropped: the entry of s
\* becomes copy, and what other names of the key have is superseded.
ReplaceModule(e, s, module, copy) ==
    /\ moduleCache' = [moduleCache EXCEPT ![e][KeyOf(s)] = module]
    /\ localModuleCache' = [localModuleCache EXCEPT ![e] =
           [t \in Scripts |->
               IF t = s THEN copy
               ELSE IF KeyOf(t) = KeyOf(s)
               THEN Superseded(moduleCache[e][KeyOf(s)], @[t])
               ELSE @[t]]]

\* require() enters a new module in both caches and executes it.
StartExecutes(e, s, caller) ==
    /\ ~Started[e]
    /\ Executes(e, s)
    /\ AddArguments(e, caller)
    /\ ReplaceModule(e, s, "cached", "same")
    /\ UNCHANGED <<JsRuntimeEnvPool, Started>>

\* The top level of s returned, or threw: then require() drops the module, the
\* exception is logged, and Start() still marks the environment as started.
StartEnds(e, s, throws) ==
    /\ Started' = [Started EXCEPT ![e] = TRUE]
    /\ IF throws THEN ReplaceModule(e, s, "absent", "stale")
                 ELSE UNCHANGED <<moduleCache, localModuleCache>>
    /\ UNCHANGED <<JsRuntimeEnvPool, argv>>

\* RestartJsScripts before its loop: ForceReloadJsFile in every environment of
\* every file of the script's directory by its full path, of which that of s is
\* the one that matters.
PushModules(s) ==
    moduleCache' = [e \in Envs |-> [moduleCache[e] EXCEPT ![FullPath[s]] = Flagged(@)]]

\* One turn of the loop of RestartJsScripts before its Start: Release(), then
\* ForceReloadJsFile(s), which finds the key of s and flags its module.
ReleaseAndForceReload(e, s) ==
    /\ Started' = [Started EXCEPT ![e] = FALSE]
    /\ moduleCache' = [moduleCache EXCEPT ![e][KeyOf(s)] = Flagged(@)]
    /\ UNCHANGED <<JsRuntimeEnvPool, localModuleCache, argv>>

\* ... and the Release() after it.
ReleaseStarted(e) ==
    /\ Started' = [Started EXCEPT ![e] = FALSE]
    /\ UNCHANGED <<JsRuntimeEnvPool, moduleCache, localModuleCache, argv>>
=============================================================================
