----------------------- MODULE ReactorWidgets_proofs ------------------------
(***************************************************************************)
(* Proofs about ReactorWidgets, for any number of widgets, blueprints,     *)
(* scripts and environments, and any depth of nested calls: the types, the *)
(* pool as an implementation of EnvLease, the invariant Inv with what      *)
(* follows from it, and, on top of Inv, that a restart binds the caller of *)
(* its own widget (RestartRebinds).                                        *)
(***************************************************************************)
EXTENDS ReactorWidgets, TLAPS

-----------------------------------------------------------------------------
(* Type correctness.  TypeOK is taken apart into the variables of the pool, *)
(* of the callers, of the frames, and the rest.                             *)

FrameTypeOK ==
    /\ level \in Nat
    /\ depth \in [Actors -> Nat]
    /\ pc \in [Actors -> Points]
    /\ script \in [Actors -> Scripts]
    /\ restart \in [Actors -> BOOLEAN]
    /\ caller \in [Actors -> Callers \cup {None}]
    /\ cur \in [Actors -> Envs]

RestTypeOK ==
    /\ pie \in BOOLEAN
    /\ JsEnv \in [Actors -> Envs \cup {None}]
    /\ mounted \in [Actors -> Envs \cup {None, Dead}]

LEMMA TypeParts ==
    /\ TypeOK <=> PoolTypeOK /\ CallerTypeOK /\ FrameTypeOK /\ RestTypeOK
    /\ TypeOK' <=> PoolTypeOK' /\ CallerTypeOK' /\ FrameTypeOK' /\ RestTypeOK'
  BY DEF TypeOK, FrameTypeOK, RestTypeOK

LEMMA FirstEnv == 1 \in Envs
  BY PoolSizeAssumption DEF Envs

\* Calling, moving and returning keep the types of the frame variables.
LEMMA EnterType ==
    ASSUME FrameTypeOK, NEW a \in Actors, NEW p \in Points, NEW s \in Scripts,
           NEW r \in BOOLEAN, NEW c \in Callers \cup {None}, NEW e \in Envs,
           Enter(a, p, s, r, c, e)
    PROVE  FrameTypeOK'
  BY DEF Enter, FrameTypeOK, Envs

LEMMA GotoType ==
    ASSUME FrameTypeOK, NEW a \in Actors, NEW p \in Points, Goto(a, p)
    PROVE  FrameTypeOK'
  BY DEF Goto, FrameTypeOK, Envs

LEMMA ReturnType ==
    ASSUME FrameTypeOK, NEW a \in Actors, OnTop(a), Return(a)
    PROVE  FrameTypeOK'
<1>1. level - 1 \in Nat
  BY DEF FrameTypeOK, OnTop, OnStack
<1>2. AtRest(a) \in Points /\ ScriptOf[a] \in Scripts
  BY ScriptsAssumption DEF AtRest, Points
<1> QED
  BY <1>1, <1>2, FirstEnv DEF Return, FrameTypeOK

\* A module keeps being in one of the three states.
LEMMA CacheType ==
    ASSUME moduleCache \in [Envs -> [Scripts -> ModuleStates]],
           NEW e \in Envs, NEW s \in Scripts, NEW m \in ModuleStates
    PROVE  [moduleCache EXCEPT ![e][s] = m] \in [Envs -> [Scripts -> ModuleStates]]
<1>1. [moduleCache[e] EXCEPT ![s] = m] \in [Scripts -> ModuleStates]
  OBVIOUS
<1> QED
  BY <1>1

\* A key is a name.
LEMMA KeyIsName == \A s \in Scripts : KeyOf(s) \in Scripts
  BY NamesAssumption DEF KeyOf

\* So does the entry of a name in the local cache.
LEMMA CopyType ==
    ASSUME localModuleCache \in [Envs -> [Scripts -> CopyStates]],
           NEW e \in Envs, NEW s \in Scripts, NEW c \in CopyStates
    PROVE  [localModuleCache EXCEPT ![e][s] = c] \in [Envs -> [Scripts -> CopyStates]]
<1>1. [localModuleCache[e] EXCEPT ![s] = c] \in [Scripts -> CopyStates]
  OBVIOUS
<1> QED
  BY <1>1

\* Replacing a module keeps the types of both caches.
LEMMA ReplaceType ==
    ASSUME PoolTypeOK, NEW e \in Envs, NEW s \in Scripts, NEW m \in ModuleStates,
           NEW c \in CopyStates, ReplaceModule(e, s, m, c)
    PROVE  /\ moduleCache' \in [Envs -> [Scripts -> ModuleStates]]
           /\ localModuleCache' \in [Envs -> [Scripts -> CopyStates]]
<1> DEFINE copies ==
      [t \in Scripts |->
          IF t = s THEN c
          ELSE IF KeyOf(t) = KeyOf(s)
          THEN Superseded(moduleCache[e][KeyOf(s)], localModuleCache[e][t])
          ELSE localModuleCache[e][t]]
<1>1. moduleCache' \in [Envs -> [Scripts -> ModuleStates]]
  BY CacheType, KeyIsName DEF ReplaceModule, PoolTypeOK
<1>2. \A t \in Scripts : localModuleCache[e][t] \in CopyStates
  BY DEF PoolTypeOK
<1>3. copies \in [Scripts -> CopyStates]
  BY <1>2 DEF Superseded, CopyStates
<1>4. localModuleCache' = [localModuleCache EXCEPT ![e] = copies]
  BY Zenon DEF ReplaceModule
<1>5. localModuleCache' \in [Envs -> [Scripts -> CopyStates]]
  BY <1>3, <1>4 DEF PoolTypeOK
<1> QED
  BY <1>1, <1>5

LEMMA EntryPoints == {"reload", "finish", "start", "execute", "live"} \subseteq Points
  BY DEF Points

LEMMA FlaggedType ==
    ASSUME NEW m \in ModuleStates
    PROVE  Flagged(m) \in ModuleStates
  BY DEF Flagged, ModuleStates

\* RestartJsScripts before its first Start.
LEMMA RestartType ==
    ASSUME PoolTypeOK, FrameTypeOK, NEW a \in Actors, NEW s \in Scripts,
           NEW c \in Callers \cup {None}, RestartJsScripts(a, s, c)
    PROVE  /\ moduleCache' \in [Envs -> [Scripts -> ModuleStates]]
           /\ FrameTypeOK'
<1>1. CASE PushModules(s)
  <2>1. \A e \in Envs :
            [moduleCache[e] EXCEPT ![FullPath[s]] = Flagged(@)]
                \in [Scripts -> ModuleStates]
    <3> TAKE e \in Envs
    <3>1. FullPath[s] \in Scripts
      BY NamesAssumption
    <3>2. Flagged(moduleCache[e][FullPath[s]]) \in ModuleStates
      BY <3>1, FlaggedType DEF PoolTypeOK
    <3> QED
      BY <3>1, <3>2 DEF PoolTypeOK
  <2>2. moduleCache' \in [Envs -> [Scripts -> ModuleStates]]
    BY <1>1, <2>1, Zenon DEF PushModules
  <2> QED
    BY <2>2, EnterType, EntryPoints, FirstEnv DEF RestartJsScripts
<1>2. CASE UNCHANGED moduleCache
  BY <1>2, EnterType, EntryPoints, FirstEnv DEF RestartJsScripts, PoolTypeOK
<1> QED
  BY <1>1, <1>2 DEF RestartJsScripts

\* What a call does to the pool and to the callers keeps their types.
LEMMA BorrowType ==
    ASSUME PoolTypeOK, RestTypeOK, NEW a \in Actors, NEW e \in Envs, Borrow(a, e),
           moduleCache' \in [Envs -> [Scripts -> ModuleStates]],
           UNCHANGED <<pie, mounted>>
    PROVE  PoolTypeOK' /\ RestTypeOK'
  BY DEF Borrow, GetFreeJsEnv, PoolTypeOK, RestTypeOK

LEMMA AddType ==
    ASSUME CallerTypeOK, NEW s \in Scripts, NEW c \in Callers, NEW used,
           AddNewBridgeCaller(s, c, used) \/ ReplaceBridgeCaller(s, c, used)
    PROVE  CallerTypeOK'
  BY DEF AddNewBridgeCaller, ReplaceBridgeCaller, CallerTypeOK, callerVars, Bindings

LEMMA RemoveType ==
    ASSUME CallerTypeOK, NEW s \in Scripts, RemoveBridgeCaller(s)
    PROVE  CallerTypeOK'
  BY DEF RemoveBridgeCaller, CallerTypeOK

LEMMA SamePool == ASSUME PoolTypeOK, UNCHANGED poolVars PROVE PoolTypeOK'
  BY DEF PoolTypeOK, poolVars
LEMMA SameCallers == ASSUME CallerTypeOK, UNCHANGED callerVars PROVE CallerTypeOK'
  BY DEF CallerTypeOK, callerVars
LEMMA SameRest ==
    ASSUME RestTypeOK, UNCHANGED <<pie, JsEnv, mounted>> PROVE RestTypeOK'
  BY DEF RestTypeOK

LEMMA ActorsScript == \A a \in Actors : ScriptOf[a] \in Scripts
  BY ScriptsAssumption

\* The code before the first JavaScript of a call keeps the types.
LEMMA CallType ==
    ASSUME TypeOK, NEW a \in Actors, Call(a)
    PROVE  TypeOK'
<1> USE ActorsScript, ScriptsAssumption, TypeParts, EntryPoints, FirstEnv
<1>1. CASE SkipDesignerTree(a)
  <2>1. FrameTypeOK'
    BY <1>1 DEF SkipDesignerTree, FrameTypeOK
  <2> QED
    BY <1>1, <2>1, SamePool, SameCallers, SameRest DEF SkipDesignerTree
<1>2. CASE UseExistingCaller(a)
  <2>1. FrameTypeOK'
    BY <1>2, EnterType DEF UseExistingCaller
  <2> QED
    BY <1>2, <2>1, SamePool, SameCallers, SameRest DEF UseExistingCaller
<1>3. CASE NoFreeEnv(a)
  <2>1. FrameTypeOK'
    BY <1>3 DEF NoFreeEnv, FrameTypeOK
  <2> QED
    BY <1>3, <2>1, SamePool, RemoveType, SameRest DEF NoFreeEnv
<1>4. ASSUME NEW c \in Callers, NEW e \in Envs, RunScriptToInitWidgetTree(a, c, e)
      PROVE  TypeOK'
  <2>1. moduleCache' \in [Envs -> [Scripts -> ModuleStates]] /\ FrameTypeOK'
    BY <1>4, EnterType, RestartType DEF RunScriptToInitWidgetTree, PoolTypeOK
  <2> QED
    BY <1>4, <2>1, BorrowType, AddType DEF RunScriptToInitWidgetTree
<1>5. ASSUME NEW c \in Callers, NEW e \in Envs, RunScriptToInitUtility(a, c, e)
      PROVE  TypeOK'
  <2>1. moduleCache' \in [Envs -> [Scripts -> ModuleStates]] /\ FrameTypeOK'
    BY <1>5, EnterType, RestartType DEF RunScriptToInitUtility, PoolTypeOK
  <2> QED
    BY <1>5, <2>1, BorrowType, AddType DEF RunScriptToInitUtility
<1>6. ASSUME NEW e \in Envs, ExecuteJsScripts(a, e)
      PROVE  TypeOK'
  <2>1. FrameTypeOK'
    BY <1>6, EnterType DEF ExecuteJsScripts
  <2> QED
    BY <1>6, <2>1, BorrowType, SameCallers DEF ExecuteJsScripts, PoolTypeOK
<1>7. CASE ReloadJsScripts(a)
  <2>1. moduleCache' \in [Envs -> [Scripts -> ModuleStates]] /\ FrameTypeOK'
    BY <1>7, RestartType DEF ReloadJsScripts
  <2>2. PoolTypeOK'
    BY <1>7, <2>1 DEF ReloadJsScripts, PoolTypeOK
  <2> QED
    BY <1>7, <2>1, <2>2, SameCallers, SameRest DEF ReloadJsScripts
<1>8. ASSUME NEW c \in Callers, NEW e \in Envs, CompileTsScript(a, c, e)
      PROVE  TypeOK'
  <2>1. FrameTypeOK'
    BY <1>8, EnterType DEF CompileTsScript
  <2> QED
    BY <1>8, <2>1, BorrowType, AddType DEF CompileTsScript, PoolTypeOK
<1>9. CASE CompileAgain(a)
  <2>1. FrameTypeOK'
    BY <1>9, EnterType DEF CompileAgain
  <2> QED
    BY <1>9, <2>1, SamePool, SameCallers, SameRest DEF CompileAgain
<1> QED
  BY <1>1, <1>2, <1>3, <1>4, <1>5, <1>6, <1>7, <1>8, <1>9 DEF Call

\* So does every step of the top frame.
LEMMA FrameType ==
    ASSUME TypeOK, NEW a \in Actors, FrameStep(a)
    PROVE  TypeOK'
<1> USE TypeParts
<1>0. /\ cur[a] \in Envs /\ script[a] \in Scripts /\ caller[a] \in Callers \cup {None}
      /\ Argument(a) \in Callers \cup {None} /\ ArgumentFound(a) \in Callers \cup {None}
      /\ AfterStart(a) \in Points
      /\ {"start", "reload", "script", "finish", "execute", "mount"} \subseteq Points
      /\ {"absent", "cached", "flagged"} = ModuleStates
      /\ {"same", "stale"} \subseteq CopyStates
      /\ KeyOf(script[a]) \in Scripts
  BY KeyIsName
  DEF FrameTypeOK, PoolTypeOK, Argument, ArgumentFound, AfterStart, Points, ModuleStates,
      CopyStates
<1>1. CASE ForceReload(a)
  <2>1. Flagged(moduleCache[cur[a]][KeyOf(script[a])]) \in ModuleStates
    BY <1>0, FlaggedType DEF PoolTypeOK
  <2>2. moduleCache' \in [Envs -> [Scripts -> ModuleStates]]
    BY <1>0, <1>1, <2>1, CacheType DEF ForceReload, ReleaseAndForceReload, PoolTypeOK
  <2>3. PoolTypeOK'
    BY <1>1, <2>2 DEF ForceReload, ReleaseAndForceReload, PoolTypeOK
  <2> QED
    BY <1>0, <1>1, <2>3, GotoType, SameCallers, SameRest DEF ForceReload
<1>2. CASE Start(a)
  <2>1. PoolTypeOK'
    <3>1. CASE UNCHANGED poolVars
      BY <3>1, SamePool
    <3>2. CASE StartCached(cur[a], script[a], Argument(a))
      <4>1. Found(localModuleCache[cur[a]][script[a]]) \in CopyStates
        BY <1>0 DEF Found, PoolTypeOK
      <4>2. localModuleCache' \in [Envs -> [Scripts -> CopyStates]]
        BY <1>0, <3>2, <4>1, CopyType DEF StartCached, PoolTypeOK
      <4> QED
        BY <1>0, <3>2, <4>2 DEF StartCached, AddArguments, PoolTypeOK
    <3>3. CASE StartExecutes(cur[a], script[a], Argument(a))
      <4>1. /\ moduleCache' \in [Envs -> [Scripts -> ModuleStates]]
            /\ localModuleCache' \in [Envs -> [Scripts -> CopyStates]]
        BY <1>0, <3>3, ReplaceType DEF StartExecutes
      <4> QED
        BY <1>0, <3>3, <4>1 DEF StartExecutes, AddArguments, PoolTypeOK
    <3> QED
      BY <1>2, <3>1, <3>2, <3>3 DEF Start, StartRefused
  <2> QED
    BY <1>0, <1>2, <2>1, GotoType, SameCallers, SameRest DEF Start
<1>3. CASE ScriptBinds(a)
  <2>1. PoolTypeOK'
    BY <1>0, <1>3 DEF ScriptBinds, StartEnds, PoolTypeOK
  <2>2. CallerTypeOK'
    BY <1>0, <1>3 DEF ScriptBinds, BindMainCaller, CallerTypeOK, Bindings, PoolTypeOK
  <2> QED
    BY <1>0, <1>3, <2>1, <2>2, GotoType, SameRest DEF ScriptBinds
<1>4. CASE ScriptEndsUnbound(a)
  <2>1. PoolTypeOK'
    <3>1. ASSUME StartEnds(cur[a], script[a], FALSE) PROVE PoolTypeOK'
      BY <1>0, <3>1 DEF StartEnds, PoolTypeOK
    <3>2. ASSUME StartEnds(cur[a], script[a], TRUE) PROVE PoolTypeOK'
      <4>1. /\ moduleCache' \in [Envs -> [Scripts -> ModuleStates]]
            /\ localModuleCache' \in [Envs -> [Scripts -> CopyStates]]
        BY <1>0, <3>2, ReplaceType DEF StartEnds
      <4> QED
        BY <1>0, <3>2, <4>1 DEF StartEnds, PoolTypeOK
    <3> QED
      BY <1>4, <3>1, <3>2 DEF ScriptEndsUnbound
  <2> QED
    BY <1>0, <1>4, <2>1, GotoType, SameCallers, SameRest DEF ScriptEndsUnbound
<1>5. CASE NextEnv(a)
  <2>1. PoolTypeOK'
    BY <1>0, <1>5 DEF NextEnv, ReleaseStarted, PoolTypeOK
  <2>2. FrameTypeOK'
    <3>1. CASE cur[a] < PoolSize
      <4>1. cur[a] + 1 \in Envs
        BY <1>0, <3>1, PoolSizeAssumption DEF Envs
      <4> QED
        BY <1>0, <1>5, <3>1, <4>1 DEF NextEnv, FrameTypeOK
    <3>2. CASE ~(cur[a] < PoolSize)
      BY <1>0, <1>5, <3>2, GotoType DEF NextEnv
    <3> QED
      BY <3>1, <3>2
  <2> QED
    BY <1>5, <2>1, <2>2, SameCallers, SameRest DEF NextEnv
<1>6. CASE Finish(a)
  <2>1. PoolTypeOK'
    BY <1>6 DEF Finish, ReleaseJsEnv, PoolTypeOK
  <2>2. FrameTypeOK'
    BY <1>0, <1>6, GotoType, ReturnType DEF Finish, AtPoint
  <2>3. RestTypeOK'
    BY <1>6 DEF Finish, RestTypeOK
  <2> QED
    BY <1>6, <2>1, <2>2, <2>3, SameCallers DEF Finish
<1>7. ASSUME NEW e \in Envs, Execute(a, e)
      PROVE  TypeOK'
  <2>1. FrameTypeOK'
    BY <1>0, <1>7 DEF Execute, FrameTypeOK
  <2> QED
    BY <1>7, <2>1, SamePool, SameCallers, SameRest DEF Execute
<1>8. CASE ExecuteInert(a)
  <2>1. FrameTypeOK'
    BY <1>8, ReturnType DEF ExecuteInert, AtPoint
  <2>2. RestTypeOK'
    BY <1>8 DEF ExecuteInert, RestTypeOK
  <2> QED
    BY <1>8, <2>1, <2>2, SamePool, SameCallers DEF ExecuteInert
<1>9. CASE ExecuteUnbound(a)
  <2>1. FrameTypeOK'
    BY <1>9, ReturnType DEF ExecuteUnbound, AtPoint
  <2> QED
    BY <1>0, <1>9, <2>1, SamePool, RemoveType, SameRest DEF ExecuteUnbound
<1>10. CASE MountEnds(a)
  <2>1. FrameTypeOK'
    BY <1>10, ReturnType DEF MountEnds, AtPoint
  <2>2. RestTypeOK'
    BY <1>0, <1>10 DEF MountEnds, RestTypeOK
  <2> QED
    BY <1>10, <2>1, <2>2, SamePool, SameCallers DEF MountEnds
<1> QED
  BY <1>1, <1>2, <1>3, <1>4, <1>5, <1>6, <1>7, <1>8, <1>9, <1>10 DEF FrameStep

\* And the event loop.
LEMMA EventLoopType ==
    ASSUME TypeOK, EventLoop
    PROVE  TypeOK'
<1> USE TypeParts
<1>1. ASSUME NEW w \in Actors, BeginDestroy(w)
      PROVE  TypeOK'
  <2>1. PoolTypeOK'
    BY <1>1 DEF BeginDestroy, ReleaseJsEnv, PoolTypeOK
  <2>2. FrameTypeOK' /\ RestTypeOK'
    BY <1>1 DEF BeginDestroy, FrameTypeOK, RestTypeOK, Points
  <2> QED
    BY <1>1, <2>1, <2>2, RemoveType, ActorsScript DEF BeginDestroy
<1>2. ASSUME NEW u \in Actors, BeginDestroyUtility(u)
      PROVE  TypeOK'
  <2>1. FrameTypeOK' /\ RestTypeOK'
    BY <1>2 DEF BeginDestroyUtility, FrameTypeOK, RestTypeOK, Points
  <2> QED
    BY <1>2, <2>1, SamePool, SameCallers DEF BeginDestroyUtility
<1>3. CASE Rebuild
  <2>1. PoolTypeOK'
    BY <1>3 DEF Rebuild, RebuildRuntimePool, PoolTypeOK, ModuleStates, CopyStates
  <2>2. CallerTypeOK'
    BY <1>3 DEF Rebuild, LoseBindings, CallerTypeOK, Bindings
  <2>3. FrameTypeOK' /\ RestTypeOK'
    BY <1>3 DEF Rebuild, frameVars, FrameTypeOK, RestTypeOK
  <2> QED
    BY <2>1, <2>2, <2>3
<1>4. CASE CollectProxies
  <2>1. CallerTypeOK'
    BY <1>4 DEF CollectProxies, ExpireBindings, CallerTypeOK, Bindings
  <2>2. FrameTypeOK'
    BY <1>4 DEF CollectProxies, frameVars, FrameTypeOK
  <2> QED
    BY <1>4, <2>1, <2>2, SamePool, SameRest DEF CollectProxies
<1>5. CASE TogglePIE
  <2>1. FrameTypeOK' /\ RestTypeOK'
    BY <1>5 DEF TogglePIE, frameVars, FrameTypeOK, RestTypeOK
  <2> QED
    BY <1>5, <2>1, SamePool, SameCallers DEF TogglePIE
<1> QED
  BY <1>1, <1>2, <1>3, <1>4, <1>5 DEF EventLoop

LEMMA TypeInit ==
    ASSUME Init
    PROVE  TypeOK
<1>1. PoolTypeOK
  BY DEF Init, PoolInit, PoolTypeOK, ModuleStates, CopyStates
<1>2. CallerTypeOK
  BY DEF Init, CallerInit, CallerTypeOK, Bindings
<1>3. FrameTypeOK
  BY FirstEnv, ScriptsAssumption DEF Init, FrameTypeOK, Points
<1>4. RestTypeOK
  BY DEF Init, RestTypeOK
<1> QED
  BY <1>1, <1>2, <1>3, <1>4, TypeParts

LEMMA TypeStep ==
    ASSUME TypeOK, [Next]_vars
    PROVE  TypeOK'
<1>1. CASE UNCHANGED vars
  BY <1>1 DEF vars, TypeOK, PoolTypeOK, CallerTypeOK
<1> QED
  BY <1>1, CallType, FrameType, EventLoopType DEF Next

\* Every variable of the runtime keeps its type, whatever is created, nested,
\* restarted, rebuilt or destroyed.
THEOREM TypeCorrect == Spec => []TypeOK
  BY TypeInit, TypeStep, PTL DEF Spec

-----------------------------------------------------------------------------
(* The call stack: frames of distinct heights, all but the top one waiting   *)
(* for JavaScript.                                                           *)

\* A new frame goes on top of an empty stack or of one that is in JavaScript.
LEMMA EnterStack ==
    ASSUME FrameTypeOK, StackInv, NEW a \in Actors, pc[a] = "absent", MayCreate,
           NEW p \in Points \ Resting, NEW s, NEW r, NEW c, NEW e,
           Enter(a, p, s, r, c, e)
    PROVE  StackInv'
<1>1. depth[a] = 0
  BY DEF StackInv, FrameTypeOK, Resting
<1>2. \A b \in Actors : depth[b] = level /\ depth[b] > 0 => pc[b] \in InJs
  BY DEF MayCreate, InJavaScript, OnTop, OnStack, StackInv, InJs, FrameTypeOK
<1>3. /\ level' = level + 1
      /\ \A b \in Actors : depth'[b] = (IF b = a THEN level + 1 ELSE depth[b])
      /\ \A b \in Actors : pc'[b] = (IF b = a THEN p ELSE pc[b])
  BY DEF Enter, FrameTypeOK
<1>4. \A b \in Actors : depth[b] \in Nat /\ depth[b] <= level /\ level \in Nat
  BY DEF StackInv, FrameTypeOK
<1>5. \A b \in Actors : depth'[b] <= level'
  BY <1>3, <1>4
<1>6. \A b, d \in Actors : depth'[b] = depth'[d] /\ depth'[b] > 0 => b = d
  BY <1>3, <1>4 DEF StackInv
<1>7. \A b \in Actors : depth'[b] > 0 <=> pc'[b] \notin Resting
  BY <1>3, <1>4 DEF StackInv
<1>8. \A b \in Actors : 0 < depth'[b] /\ depth'[b] < level' => pc'[b] \in InJs
  <2> SUFFICES ASSUME NEW b \in Actors, 0 < depth'[b], depth'[b] < level'
               PROVE  pc'[b] \in InJs
    OBVIOUS
  <2>1. b # a /\ depth'[b] = depth[b] /\ pc'[b] = pc[b]
    BY <1>3, <1>4
  <2>2. depth[b] = level \/ depth[b] < level
    BY <1>3, <1>4, <2>1
  <2> QED
    BY <1>2, <2>1, <2>2 DEF StackInv
<1> QED
  BY <1>5, <1>6, <1>7, <1>8 DEF StackInv

\* The top frame moves on.
LEMMA MoveStack ==
    ASSUME FrameTypeOK, StackInv, NEW a \in Actors, OnTop(a),
           NEW p \in Points \ Resting, pc' = [pc EXCEPT ![a] = p],
           UNCHANGED <<level, depth>>
    PROVE  StackInv'
<1>1. \A b \in Actors : pc'[b] = (IF b = a THEN p ELSE pc[b])
  BY DEF FrameTypeOK
<1> QED
  BY <1>1 DEF StackInv, OnTop, OnStack, FrameTypeOK

\* The top frame returns.
LEMMA ReturnStack ==
    ASSUME FrameTypeOK, StackInv, NEW a \in Actors, OnTop(a), Return(a)
    PROVE  StackInv'
<1>1. /\ level' = level - 1
      /\ \A b \in Actors : depth'[b] = (IF b = a THEN 0 ELSE depth[b])
      /\ \A b \in Actors : pc'[b] = (IF b = a THEN AtRest(a) ELSE pc[b])
  BY DEF Return, FrameTypeOK
<1>2. AtRest(a) \in Resting
  BY DEF AtRest, Resting
<1>3. \A b \in Actors : depth[b] \in Nat /\ depth[b] <= level /\ level \in Nat
  BY DEF StackInv, FrameTypeOK
<1>4. depth[a] = level /\ level > 0
  BY DEF OnTop, OnStack
<1>5. \A b \in Actors : b # a => depth[b] < level
  BY <1>3, <1>4 DEF StackInv
<1>6. \A b \in Actors : depth'[b] <= level'
  BY <1>1, <1>3, <1>4, <1>5
<1>7. \A b, d \in Actors : depth'[b] = depth'[d] /\ depth'[b] > 0 => b = d
  BY <1>1, <1>3 DEF StackInv
<1>8. \A b \in Actors : depth'[b] > 0 <=> pc'[b] \notin Resting
  BY <1>1, <1>2, <1>3 DEF StackInv
<1>9. \A b \in Actors : 0 < depth'[b] /\ depth'[b] < level' => pc'[b] \in InJs
  BY <1>1, <1>3, <1>5 DEF StackInv
<1> QED
  BY <1>6, <1>7, <1>8, <1>9 DEF StackInv

\* An actor without a frame comes or goes.
LEMMA RestStack ==
    ASSUME FrameTypeOK, StackInv, NEW a \in Actors, pc[a] \in Resting,
           NEW p \in Resting, pc' = [pc EXCEPT ![a] = p],
           UNCHANGED <<level, depth>>
    PROVE  StackInv'
<1>1. \A b \in Actors : pc'[b] = (IF b = a THEN p ELSE pc[b])
  BY DEF FrameTypeOK
<1> QED
  BY <1>1 DEF StackInv

LEMMA SameStack ==
    ASSUME StackInv, UNCHANGED <<level, depth, pc>>
    PROVE  StackInv'
  BY DEF StackInv

LEMMA CallStack ==
    ASSUME TypeOK, StackInv, NEW a \in Actors, Call(a)
    PROVE  StackInv'
<1>0. /\ FrameTypeOK
      /\ {"reload", "finish", "start", "execute"} \subseteq Points \ Resting
      /\ level = 0 => MayCreate
      /\ {"absent", "live"} = Resting
  BY TypeParts DEF Points, Resting, MayCreate
<1>1. CASE SkipDesignerTree(a)
  BY <1>0, <1>1, RestStack DEF SkipDesignerTree
<1>2. CASE UseExistingCaller(a)
  BY <1>0, <1>2, EnterStack DEF UseExistingCaller
<1>3. CASE NoFreeEnv(a)
  BY <1>0, <1>3, RestStack DEF NoFreeEnv
<1>4. ASSUME NEW c \in Callers, NEW e \in Envs, RunScriptToInitWidgetTree(a, c, e)
      PROVE  StackInv'
  BY <1>0, <1>4, EnterStack DEF RunScriptToInitWidgetTree, RestartJsScripts
<1>5. ASSUME NEW c \in Callers, NEW e \in Envs, RunScriptToInitUtility(a, c, e)
      PROVE  StackInv'
  BY <1>0, <1>5, EnterStack DEF RunScriptToInitUtility, RestartJsScripts
<1>6. ASSUME NEW e \in Envs, ExecuteJsScripts(a, e)
      PROVE  StackInv'
  BY <1>0, <1>6, EnterStack DEF ExecuteJsScripts, BlueprintMayRun
<1>7. CASE ReloadJsScripts(a)
  BY <1>0, <1>7, EnterStack DEF ReloadJsScripts, RestartJsScripts, BlueprintMayRun
<1>8. ASSUME NEW c \in Callers, NEW e \in Envs, CompileTsScript(a, c, e)
      PROVE  StackInv'
  BY <1>0, <1>8, EnterStack DEF CompileTsScript, BlueprintMayRun
<1>9. CASE CompileAgain(a)
  BY <1>0, <1>9, EnterStack DEF CompileAgain, BlueprintMayRun
<1> QED
  BY <1>1, <1>2, <1>3, <1>4, <1>5, <1>6, <1>7, <1>8, <1>9 DEF Call

\* A step of a frame moves it or returns from it.
FrameMoves(a) ==
    /\ \E p \in Points \ Resting : pc' = [pc EXCEPT ![a] = p]
    /\ UNCHANGED <<level, depth>>

LEMMA FrameMovesOrReturns ==
    ASSUME NEW a \in Actors, FrameStep(a)
    PROVE  OnTop(a) /\ (FrameMoves(a) \/ Return(a))
<1>0. /\ \A p \in Points \ Resting : Goto(a, p) => FrameMoves(a)
      /\ AfterStart(a) \in Points \ Resting
      /\ {"start", "reload", "script", "finish", "execute", "mount"}
              \subseteq Points \ Resting
  BY DEF Goto, FrameMoves, AfterStart, Points, Resting
<1>1. CASE ForceReload(a)
  BY <1>0, <1>1 DEF ForceReload, AtPoint
<1>2. CASE Start(a)
  BY <1>0, <1>2 DEF Start, AtPoint
<1>3. CASE ScriptBinds(a)
  BY <1>0, <1>3 DEF ScriptBinds, AtPoint
<1>4. CASE ScriptEndsUnbound(a)
  BY <1>0, <1>4 DEF ScriptEndsUnbound, AtPoint
<1>5. CASE NextEnv(a)
  BY <1>0, <1>5 DEF NextEnv, AtPoint, FrameMoves
<1>6. CASE Finish(a)
  BY <1>0, <1>6 DEF Finish, AtPoint
<1>7. ASSUME NEW e \in Envs, Execute(a, e)
      PROVE  OnTop(a) /\ (FrameMoves(a) \/ Return(a))
  BY <1>0, <1>7 DEF Execute, AtPoint, FrameMoves
<1>8. CASE ExecuteInert(a)
  BY <1>8 DEF ExecuteInert, AtPoint
<1>9. CASE ExecuteUnbound(a)
  BY <1>9 DEF ExecuteUnbound, AtPoint
<1>10. CASE MountEnds(a)
  BY <1>10 DEF MountEnds, AtPoint
<1> QED
  BY <1>1, <1>2, <1>3, <1>4, <1>5, <1>6, <1>7, <1>8, <1>9, <1>10 DEF FrameStep

LEMMA StackStep ==
    ASSUME TypeOK, StackInv, [Next]_vars
    PROVE  StackInv'
<1>0. FrameTypeOK
  BY TypeParts
<1>1. ASSUME NEW a \in Actors, FrameStep(a)
      PROVE  StackInv'
  BY <1>0, <1>1, FrameMovesOrReturns, MoveStack, ReturnStack DEF FrameMoves
<1>2. CASE EventLoop
  <2>1. ASSUME NEW a \in Actors, BeginDestroy(a) \/ BeginDestroyUtility(a)
        PROVE  StackInv'
    BY <1>0, <2>1, RestStack DEF BeginDestroy, BeginDestroyUtility, Resting
  <2>2. CASE Rebuild \/ CollectProxies \/ TogglePIE
    BY <2>2, SameStack DEF Rebuild, CollectProxies, TogglePIE, frameVars
  <2> QED
    BY <1>2, <2>1, <2>2 DEF EventLoop
<1>3. CASE UNCHANGED vars
  BY <1>3, SameStack DEF vars
<1> QED
  BY <1>1, <1>2, <1>3, CallStack DEF Next

-----------------------------------------------------------------------------
(* The lease: an environment is in use exactly while one frame holds it.     *)

LEMMA NoneIsNoEnv == None \notin Envs /\ Dead \notin Envs
  BY NoneAssumption, BindingAssumption, PoolSizeAssumption DEF Envs

\* GetFreeJsEnv hands out an environment that nobody holds ...
LEMMA BorrowLease ==
    ASSUME TypeOK, LeaseInv, NEW a \in Actors, pc[a] = "absent",
           NEW e \in Envs, Borrow(a, e),
           NEW p \in Holding, pc' = [pc EXCEPT ![a] = p]
    PROVE  LeaseInv' /\ Lease!Take(a, e)
<1>0. /\ JsRuntimeEnvPool[e] = 0
      /\ JsEnv[a] = None
      /\ \A b \in Actors : JsEnv[b] # e
  BY DEF Borrow, GetFreeJsEnv, FirstFree, FreeEnvs, LeaseInv, Holding
<1>1. /\ \A b \in Actors : JsEnv'[b] = (IF b = a THEN e ELSE JsEnv[b])
      /\ \A f \in Envs : JsRuntimeEnvPool'[f] = (IF f = e THEN 1 ELSE JsRuntimeEnvPool[f])
      /\ \A b \in Actors : pc'[b] = (IF b = a THEN p ELSE pc[b])
  BY DEF Borrow, GetFreeJsEnv, TypeOK, PoolTypeOK
<1>2. LeaseInv'
  BY <1>0, <1>1, NoneIsNoEnv DEF LeaseInv
<1>3. Lease!Take(a, e)
  BY <1>0 DEF Borrow, GetFreeJsEnv, Lease!Take
<1> QED
  BY <1>2, <1>3

\* ... and ReleaseJsEnv takes it back from the one that does.
LEMMA ReleaseLease ==
    ASSUME TypeOK, LeaseInv, NEW a \in Actors, ReleaseJsEnv(JsEnv[a]),
           JsEnv' = [JsEnv EXCEPT ![a] = None],
           NEW p, pc' = [pc EXCEPT ![a] = p]
    PROVE  LeaseInv' /\ (Lease!GiveBack(a) \/ UNCHANGED <<JsEnv, JsRuntimeEnvPool>>)
<1>1. /\ \A b \in Actors : JsEnv'[b] = (IF b = a THEN None ELSE JsEnv[b])
      /\ \A b \in Actors : pc'[b] = (IF b = a THEN p ELSE pc[b])
      /\ JsEnv[a] \in Envs \cup {None}
  BY DEF TypeOK
<1>2. CASE JsEnv[a] = None
  <2>1. UNCHANGED <<JsEnv, JsRuntimeEnvPool>>
    BY <1>2, NoneIsNoEnv DEF ReleaseJsEnv, TypeOK
  <2> QED
    BY <1>1, <1>2, <2>1 DEF LeaseInv
<1>3. CASE JsEnv[a] \in Envs
  <2>1. \A f \in Envs :
            JsRuntimeEnvPool'[f] = (IF f = JsEnv[a] THEN 0 ELSE JsRuntimeEnvPool[f])
    BY <1>3 DEF ReleaseJsEnv, TypeOK, PoolTypeOK
  <2>2. LeaseInv'
    BY <1>1, <1>3, <2>1, NoneIsNoEnv DEF LeaseInv
  <2>3. JsRuntimeEnvPool[JsEnv[a]] = 1
    BY <1>3 DEF LeaseInv
  <2>4. Lease!GiveBack(a)
    BY <1>3, <2>3, NoneIsNoEnv DEF ReleaseJsEnv, Lease!GiveBack
  <2> QED
    BY <2>2, <2>4
<1> QED
  BY <1>1, <1>2, <1>3

\* Other steps leave both sides alone.
LEMMA KeepLease ==
    ASSUME TypeOK, LeaseInv, NEW a \in Actors,
           NEW p, pc' = [pc EXCEPT ![a] = p], p \in Holding \/ pc[a] \notin Holding,
           UNCHANGED <<JsEnv, JsRuntimeEnvPool>>
    PROVE  LeaseInv'
<1>1. \A b \in Actors : pc'[b] = (IF b = a THEN p ELSE pc[b])
  BY DEF TypeOK
<1> QED
  BY <1>1 DEF LeaseInv

\* Take and GiveBack of a client.
LeaseStep(a) ==
    \/ \E e \in Envs : Lease!Take(a, e)
    \/ Lease!GiveBack(a)
    \/ UNCHANGED <<JsEnv, JsRuntimeEnvPool>>

LEMMA CallLease ==
    ASSUME TypeOK, LeaseInv, NEW a \in Actors, Call(a)
    PROVE  LeaseInv' /\ LeaseStep(a)
<1>0. /\ {"reload", "finish", "start"} \subseteq Holding
      /\ "absent" \notin Holding
  BY DEF Holding
<1>1. CASE SkipDesignerTree(a)
  BY <1>0, <1>1, KeepLease DEF SkipDesignerTree, poolVars, LeaseStep
<1>2. CASE UseExistingCaller(a)
  BY <1>0, <1>2, KeepLease DEF UseExistingCaller, Enter, poolVars, LeaseStep
<1>3. CASE NoFreeEnv(a)
  BY <1>0, <1>3, KeepLease DEF NoFreeEnv, poolVars, LeaseStep
<1>4. ASSUME NEW c \in Callers, NEW e \in Envs, RunScriptToInitWidgetTree(a, c, e)
      PROVE  LeaseInv' /\ LeaseStep(a)
  BY <1>0, <1>4, BorrowLease DEF RunScriptToInitWidgetTree, RestartJsScripts, Enter, LeaseStep
<1>5. ASSUME NEW c \in Callers, NEW e \in Envs, RunScriptToInitUtility(a, c, e)
      PROVE  LeaseInv' /\ LeaseStep(a)
  BY <1>0, <1>5, BorrowLease DEF RunScriptToInitUtility, RestartJsScripts, Enter, LeaseStep
<1>6. ASSUME NEW e \in Envs, ExecuteJsScripts(a, e)
      PROVE  LeaseInv' /\ LeaseStep(a)
  BY <1>0, <1>6, BorrowLease DEF ExecuteJsScripts, BlueprintMayRun, Enter, LeaseStep
<1>7. CASE ReloadJsScripts(a)
  BY <1>0, <1>7, KeepLease
  DEF ReloadJsScripts, RestartJsScripts, BlueprintMayRun, Enter, LeaseStep
<1>8. ASSUME NEW c \in Callers, NEW e \in Envs, CompileTsScript(a, c, e)
      PROVE  LeaseInv' /\ LeaseStep(a)
  BY <1>0, <1>8, BorrowLease DEF CompileTsScript, BlueprintMayRun, Enter, LeaseStep
<1>9. CASE CompileAgain(a)
  BY <1>0, <1>9, KeepLease DEF CompileAgain, BlueprintMayRun, Enter, poolVars, LeaseStep
<1> QED
  BY <1>1, <1>2, <1>3, <1>4, <1>5, <1>6, <1>7, <1>8, <1>9 DEF Call

LEMMA FrameLease ==
    ASSUME TypeOK, LeaseInv, NEW a \in Actors, FrameStep(a)
    PROVE  LeaseInv' /\ LeaseStep(a)
<1>0. /\ {"start", "reload", "script", "finish", AfterStart(a)} \subseteq Holding
      /\ {"execute", "mount"} \cap Holding = {}
  BY DEF Holding, AfterStart
<1>1. CASE ForceReload(a)
  BY <1>0, <1>1, KeepLease
  DEF ForceReload, ReleaseAndForceReload, Goto, LeaseStep
<1>2. CASE Start(a)
  BY <1>0, <1>2, KeepLease
  DEF Start, StartRefused, StartCached, StartExecutes, poolVars, Goto, LeaseStep
<1>3. CASE ScriptBinds(a)
  BY <1>0, <1>3, KeepLease DEF ScriptBinds, StartEnds, Goto, LeaseStep
<1>4. CASE ScriptEndsUnbound(a)
  BY <1>0, <1>4, KeepLease DEF ScriptEndsUnbound, StartEnds, Goto, LeaseStep
<1>5. CASE NextEnv(a)
  BY <1>0, <1>5, KeepLease DEF NextEnv, ReleaseStarted, Goto, LeaseStep
<1>6. CASE Finish(a)
  BY <1>6, ReleaseLease DEF Finish, Goto, Return, LeaseStep
<1>7. ASSUME NEW e \in Envs, Execute(a, e)
      PROVE  LeaseInv' /\ LeaseStep(a)
  BY <1>0, <1>7, KeepLease DEF Execute, AtPoint, poolVars, LeaseStep
<1>8. CASE ExecuteInert(a)
  BY <1>0, <1>8, KeepLease DEF ExecuteInert, AtPoint, Return, poolVars, LeaseStep
<1>9. CASE ExecuteUnbound(a)
  BY <1>0, <1>9, KeepLease DEF ExecuteUnbound, AtPoint, Return, poolVars, LeaseStep
<1>10. CASE MountEnds(a)
  BY <1>0, <1>10, KeepLease DEF MountEnds, AtPoint, Return, poolVars, LeaseStep
<1> QED
  BY <1>1, <1>2, <1>3, <1>4, <1>5, <1>6, <1>7, <1>8, <1>9, <1>10 DEF FrameStep

\* Without a frame nobody holds anything and every environment is idle.
LEMMA NobodyHolds ==
    ASSUME TypeOK, StackInv, LeaseInv, level = 0
    PROVE  /\ \A a \in Actors : pc[a] \in Resting /\ JsEnv[a] = None
           /\ \A e \in Envs : JsRuntimeEnvPool[e] = 0
<1>1. \A a \in Actors : pc[a] \in Resting
  BY DEF StackInv, TypeOK
<1>2. \A a \in Actors : JsEnv[a] = None
  BY <1>1 DEF LeaseInv, Resting, Holding
<1>3. \A e \in Envs : JsRuntimeEnvPool[e] # 1
  BY <1>2, NoneIsNoEnv DEF LeaseInv
<1> QED
  BY <1>1, <1>2, <1>3 DEF TypeOK, PoolTypeOK

LEMMA EventLoopLease ==
    ASSUME TypeOK, StackInv, LeaseInv, EventLoop
    PROVE  /\ LeaseInv'
           /\ (\E a \in Actors : LeaseStep(a)) \/ UNCHANGED <<JsEnv, JsRuntimeEnvPool>>
<1>1. ASSUME NEW w \in Actors, BeginDestroy(w)
      PROVE  LeaseInv' /\ LeaseStep(w)
  BY <1>1, ReleaseLease DEF BeginDestroy, LeaseStep
<1>2. ASSUME NEW u \in Actors, BeginDestroyUtility(u)
      PROVE  LeaseInv' /\ LeaseStep(u)
  BY <1>2, KeepLease DEF BeginDestroyUtility, poolVars, Holding, LeaseStep
<1>3. CASE Rebuild
  <2>1. UNCHANGED <<JsEnv, JsRuntimeEnvPool>>
    <3>1. JsRuntimeEnvPool = [e \in Envs |-> 0]
      BY <1>3, NobodyHolds DEF Rebuild, TypeOK, PoolTypeOK
    <3> QED
      BY <1>3, <3>1 DEF Rebuild, RebuildRuntimePool
  <2> QED
    BY <1>3, <2>1 DEF Rebuild, frameVars, LeaseInv
<1>4. CASE CollectProxies \/ TogglePIE
  BY <1>4 DEF CollectProxies, TogglePIE, frameVars, poolVars, LeaseInv
<1> QED
  BY <1>1, <1>2, <1>3, <1>4 DEF EventLoop

LEMMA LeaseStepRefines ==
    ASSUME TypeOK, StackInv, LeaseInv, [Next]_vars
    PROVE  LeaseInv' /\ [Lease!LeaseNext]_(Lease!LeaseVars)
<1>1. ASSUME NEW a \in Actors, LeaseStep(a)
      PROVE  [Lease!LeaseNext]_(Lease!LeaseVars)
  BY <1>1 DEF LeaseStep, Lease!LeaseNext, Lease!LeaseVars
<1>2. CASE UNCHANGED vars
  BY <1>2 DEF vars, LeaseInv, Lease!LeaseVars
<1>3. CASE \E a \in Actors : FrameStep(a)
  BY <1>1, <1>3, FrameLease
<1>4. CASE \E a \in Actors : Call(a)
  BY <1>1, <1>4, CallLease
<1>5. CASE EventLoop
  <2>1. CASE UNCHANGED <<JsEnv, JsRuntimeEnvPool>>
    BY <1>5, <2>1, EventLoopLease DEF Lease!LeaseVars
  <2> QED
    BY <1>1, <1>5, <2>1, EventLoopLease
<1> QED
  BY <1>2, <1>3, <1>4, <1>5 DEF Next

LEMMA LeaseStarts ==
    ASSUME Init
    PROVE  StackInv /\ LeaseInv /\ Lease!LeaseInit
<1>1. StackInv
  BY DEF Init, StackInv, Resting
<1>2. LeaseInv
  BY NoneIsNoEnv DEF Init, PoolInit, LeaseInv
<1>3. Lease!LeaseInit
  BY DEF Init, PoolInit, Lease!LeaseInit
<1> QED
  BY <1>1, <1>2, <1>3

\* The pool with all its users implements the abstract lease: an environment is
\* handed out only when nobody has it, and given back only by the one who has.
THEOREM PoolImplementsLease == Spec => PoolIsALease
<1>1. Init => TypeOK /\ StackInv /\ LeaseInv
  BY TypeInit, LeaseStarts
<1>2. TypeOK /\ StackInv /\ LeaseInv /\ [Next]_vars
          => (TypeOK /\ StackInv /\ LeaseInv)'
  BY TypeStep, StackStep, LeaseStepRefines
<1>3. Spec => [](TypeOK /\ StackInv /\ LeaseInv)
  BY <1>1, <1>2, PTL DEF Spec
<1>4. Init => Lease!LeaseInit
  BY LeaseStarts
<1>5. TypeOK /\ StackInv /\ LeaseInv /\ [Next]_vars
          => [Lease!LeaseNext]_(Lease!LeaseVars)
  BY LeaseStepRefines
<1> QED
  BY <1>3, <1>4, <1>5, PTL DEF Spec, PoolIsALease, Lease!LeaseSpec

-----------------------------------------------------------------------------
(* Started environments: only the environment of the top frame can be in the *)
(* Started state, and only while its release is the frame's next step.       *)

\* StartJavaScript stays in the environment its frame holds.
LEMMA FrameInvStep ==
    ASSUME TypeOK, StackInv, LeaseInv, FrameInv, [Next]_vars
    PROVE  FrameInv'
<1> USE DEF FrameInv
<1>1. ASSUME NEW a \in Actors, FrameStep(a)
      PROVE  FrameInv'
  <2> USE DEF TypeOK, Goto, Return, AtPoint, AfterStart, AtRest
  <2>1. CASE ForceReload(a)
    BY <2>1 DEF ForceReload
  <2>2. CASE Start(a)
    BY <2>2 DEF Start
  <2>3. CASE ScriptBinds(a)
    BY <2>3 DEF ScriptBinds
  <2>4. CASE ScriptEndsUnbound(a)
    BY <2>4 DEF ScriptEndsUnbound
  <2>5. CASE NextEnv(a)
    BY <2>5 DEF NextEnv
  <2>6. CASE Finish(a)
    BY <2>6 DEF Finish
  <2>7. ASSUME NEW e \in Envs, Execute(a, e)
        PROVE  FrameInv'
    BY <2>7 DEF Execute
  <2>8. CASE ExecuteInert(a) \/ ExecuteUnbound(a) \/ MountEnds(a)
    BY <2>8 DEF ExecuteInert, ExecuteUnbound, MountEnds
  <2> QED
    BY <1>1, <2>1, <2>2, <2>3, <2>4, <2>5, <2>6, <2>7, <2>8 DEF FrameStep
<1>2. ASSUME NEW a \in Actors, Call(a)
      PROVE  FrameInv'
  <2> USE DEF TypeOK, Enter, Borrow, RestartJsScripts
  <2>1. CASE SkipDesignerTree(a) \/ NoFreeEnv(a)
    BY <2>1 DEF SkipDesignerTree, NoFreeEnv
  <2>2. CASE UseExistingCaller(a) \/ CompileAgain(a)
    BY <2>2 DEF UseExistingCaller, CompileAgain
  <2>3. ASSUME NEW c \in Callers, NEW e \in Envs, RunScriptToInitWidgetTree(a, c, e)
        PROVE  FrameInv'
    BY <2>3 DEF RunScriptToInitWidgetTree
  <2>4. ASSUME NEW c \in Callers, NEW e \in Envs, RunScriptToInitUtility(a, c, e)
        PROVE  FrameInv'
    BY <2>4 DEF RunScriptToInitUtility
  <2>5. ASSUME NEW e \in Envs, ExecuteJsScripts(a, e)
        PROVE  FrameInv'
    BY <2>5 DEF ExecuteJsScripts
  <2>6. CASE ReloadJsScripts(a)
    BY <2>6 DEF ReloadJsScripts
  <2>7. ASSUME NEW c \in Callers, NEW e \in Envs, CompileTsScript(a, c, e)
        PROVE  FrameInv'
    BY <2>7 DEF CompileTsScript
  <2> QED
    BY <1>2, <2>1, <2>2, <2>3, <2>4, <2>5, <2>6, <2>7 DEF Call
<1>3. CASE EventLoop
  <2>1. ASSUME NEW a \in Actors, BeginDestroy(a) \/ BeginDestroyUtility(a)
        PROVE  FrameInv'
    BY <2>1 DEF BeginDestroy, BeginDestroyUtility, TypeOK
  <2>2. CASE Rebuild \/ CollectProxies \/ TogglePIE
    BY <2>2 DEF Rebuild, CollectProxies, TogglePIE, frameVars
  <2> QED
    BY <1>3, <2>1, <2>2 DEF EventLoop
<1>4. CASE UNCHANGED vars
  BY <1>4 DEF vars
<1> QED
  BY <1>1, <1>2, <1>3, <1>4 DEF Next

NoneStarted == \A e \in Envs : ~Started[e]

LEMMA NoneStartedSuffices ==
    ASSUME NoneStarted' PROVE StartedInv'
  BY DEF NoneStarted, StartedInv

\* Only the top frame can be the one that is about to release.
LEMMA TopStarted ==
    ASSUME TypeOK, StackInv, StartedInv, NEW a \in Actors, OnTop(a),
           NEW e \in Envs, Started[e]
    PROVE  cur[a] = e /\ (pc[a] = "returned" \/ (pc[a] = "finish" /\ ~restart[a]))
  BY DEF StackInv, StartedInv, OnTop, OnStack

LEMMA NoneStartedElsewhere ==
    ASSUME TypeOK, StackInv, StartedInv, NEW a \in Actors, OnTop(a),
           pc[a] \notin {"returned", "finish"}
    PROVE  NoneStarted
  BY TopStarted DEF NoneStarted

LEMMA NoneStartedAtRest ==
    ASSUME TypeOK, StackInv, StartedInv, MayCreate \/ level = 0
    PROVE  NoneStarted
<1>1. CASE level = 0
  BY <1>1 DEF NoneStarted, StartedInv, OnTop, OnStack
<1>2. CASE InJavaScript
  BY <1>2, NoneStartedElsewhere DEF InJavaScript
<1> QED
  BY <1>1, <1>2 DEF MayCreate

LEMMA ReleaseStartsNothing ==
    ASSUME TypeOK, NoneStarted, NEW e, ReleaseJsEnv(e)
    PROVE  NoneStarted'
  BY DEF NoneStarted, ReleaseJsEnv, TypeOK, PoolTypeOK

LEMMA FrameStarted ==
    ASSUME TypeOK, StackInv, FrameInv, StartedInv, NEW a \in Actors, FrameStep(a)
    PROVE  StartedInv'
<1>0. \A e \in Envs : Started[e] \in BOOLEAN
  BY DEF TypeOK, PoolTypeOK
<1>1. ASSUME NoneStarted, OnTop(a), Goto(a, AfterStart(a)),
             Started' = [Started EXCEPT ![cur[a]] = TRUE]
      PROVE  StartedInv'
  <2>1. OnTop(a)' /\ cur'[a] = cur[a]
    BY <1>1 DEF Goto, OnTop, OnStack
  <2>2. pc'[a] = "returned" \/ (pc'[a] = "finish" /\ ~restart'[a])
    BY <1>1 DEF Goto, AfterStart, TypeOK
  <2>3. \A e \in Envs : Started'[e] => e = cur[a]
    BY <1>1 DEF NoneStarted, TypeOK, PoolTypeOK
  <2> QED
    BY <2>1, <2>2, <2>3 DEF StartedInv
<1>2. CASE ForceReload(a)
  BY <1>2, NoneStartedElsewhere, NoneStartedSuffices
  DEF ForceReload, AtPoint, ReleaseAndForceReload, NoneStarted, TypeOK, PoolTypeOK
<1>3. CASE Start(a)
  <2>1. NoneStarted
    BY <1>3, NoneStartedElsewhere DEF Start, AtPoint
  <2>2. ~Started[cur[a]]
    BY <2>1 DEF NoneStarted, TypeOK
  <2>3. CASE StartCached(cur[a], script[a], Argument(a)) /\ Goto(a, AfterStart(a))
    BY <1>1, <1>3, <2>1, <2>3 DEF Start, AtPoint, StartCached
  <2>4. CASE StartExecutes(cur[a], script[a], Argument(a))
    BY <2>1, <2>4, NoneStartedSuffices DEF StartExecutes, NoneStarted
  <2> QED
    BY <1>3, <2>2, <2>3, <2>4 DEF Start
<1>4. CASE ScriptBinds(a)
  <2>1. NoneStarted
    BY <1>4, NoneStartedElsewhere DEF ScriptBinds, AtPoint
  <2> QED
    BY <1>1, <1>4, <2>1 DEF ScriptBinds, AtPoint, StartEnds
<1>5. CASE ScriptEndsUnbound(a)
  <2>1. NoneStarted
    BY <1>5, NoneStartedElsewhere DEF ScriptEndsUnbound, AtPoint
  <2> QED
    BY <1>1, <1>5, <2>1 DEF ScriptEndsUnbound, AtPoint, StartEnds
<1>6. CASE NextEnv(a)
  <2>1. \A e \in Envs : e # cur[a] => ~Started[e]
    BY <1>6, TopStarted DEF NextEnv, AtPoint
  <2> QED
    BY <1>6, <2>1, NoneStartedSuffices
    DEF NextEnv, ReleaseStarted, NoneStarted, TypeOK, PoolTypeOK
<1>7. CASE Finish(a)
  <2>1. \A e \in Envs : Started[e] => e = JsEnv[a]
    BY <1>7, TopStarted DEF Finish, AtPoint, FrameInv
  <2> QED
    BY <1>7, <2>1, NoneStartedSuffices
    DEF Finish, ReleaseJsEnv, NoneStarted, TypeOK, PoolTypeOK
<1>8. ASSUME NEW e \in Envs, Execute(a, e)
      PROVE  StartedInv'
  BY <1>8, NoneStartedElsewhere, NoneStartedSuffices
  DEF Execute, AtPoint, NoneStarted, poolVars
<1>9. CASE ExecuteInert(a) \/ ExecuteUnbound(a) \/ MountEnds(a)
  BY <1>9, NoneStartedElsewhere, NoneStartedSuffices
  DEF ExecuteInert, ExecuteUnbound, MountEnds, AtPoint, NoneStarted, poolVars
<1> QED
  BY <1>2, <1>3, <1>4, <1>5, <1>6, <1>7, <1>8, <1>9 DEF FrameStep

\* Calls and the event loop start nothing, and find nothing started.
LEMMA StartedStep ==
    ASSUME TypeOK, StackInv, FrameInv, StartedInv, [Next]_vars
    PROVE  StartedInv'
<1>1. ASSUME NEW a \in Actors, Call(a)
      PROVE  StartedInv'
  <2>1. MayCreate
    BY <1>1
    DEF Call, SkipDesignerTree, UseExistingCaller, NoFreeEnv, RunScriptToInitWidgetTree,
        RunScriptToInitUtility, ExecuteJsScripts, ReloadJsScripts, CompileTsScript,
        CompileAgain, BlueprintMayRun, MayCreate
  <2>2. UNCHANGED Started
    BY <1>1
    DEF Call, SkipDesignerTree, UseExistingCaller, NoFreeEnv, RunScriptToInitWidgetTree,
        RunScriptToInitUtility, ExecuteJsScripts, ReloadJsScripts, CompileTsScript,
        CompileAgain, Borrow, poolVars
  <2> QED
    BY <2>1, <2>2, NoneStartedAtRest, NoneStartedSuffices DEF NoneStarted
<1>2. CASE EventLoop
  <2>1. NoneStarted
    BY <1>2, NoneStartedAtRest
    DEF EventLoop, BeginDestroy, BeginDestroyUtility, Rebuild, CollectProxies, TogglePIE
  <2>2. ASSUME NEW w \in Actors, BeginDestroy(w)
        PROVE  NoneStarted'
    BY <2>1, <2>2, ReleaseStartsNothing DEF BeginDestroy
  <2>3. CASE Rebuild
    BY <2>3, NoneStartedSuffices DEF Rebuild, RebuildRuntimePool, NoneStarted
  <2>4. CASE UNCHANGED poolVars
    BY <2>1, <2>4, NoneStartedSuffices DEF NoneStarted, poolVars
  <2> QED
    BY <1>2, <2>2, <2>3, <2>4, NoneStartedSuffices
    DEF EventLoop, BeginDestroyUtility, CollectProxies, TogglePIE
<1>3. CASE UNCHANGED vars
  BY <1>3 DEF vars, StartedInv, OnTop, OnStack
<1> QED
  BY <1>1, <1>2, <1>3, FrameStarted DEF Next

-----------------------------------------------------------------------------
(* Registered callers: one that no script has bound has a frame that is      *)
(* going to execute it or to remove it.                                      *)

HalfRegistered(s) == IsExistBridgeCaller(s) /\ MainCaller[SelfHolder[s]] = Unbound
WillExecuteFor(a, s) == OnStack(a) /\ script[a] = s /\ WillExecute(a)

LEMMA Registered ==
    /\ NoHalfRegisteredCaller
           <=> \A s \in Scripts : HalfRegistered(s) => \E a \in Actors : WillExecuteFor(a, s)
    /\ NoHalfRegisteredCaller'
           <=> \A s \in Scripts :
                   HalfRegistered(s)' => \E a \in Actors : WillExecuteFor(a, s)'
  BY DEF NoHalfRegisteredCaller, HalfRegistered, WillExecuteFor

LEMMA UnboundIsNoEnv == Unbound \notin Envs
  BY BindingAssumption, PoolSizeAssumption DEF Envs

\* The frames of other actors are as they were.
OthersKept(a) ==
    \A b \in Actors \ {a} :
        /\ depth'[b] = depth[b]
        /\ pc'[b] = pc[b]
        /\ script'[b] = script[b]
        /\ caller'[b] = caller[b]

LEMMA OthersStillExecute ==
    ASSUME NEW a \in Actors, OthersKept(a), NEW b \in Actors \ {a}, NEW s,
           WillExecuteFor(b, s)
    PROVE  WillExecuteFor(b, s)'
  BY DEF OthersKept, WillExecuteFor, OnStack, WillExecute

\* A step of a keeps the invariant when it half-registers no script but one
\* that a is going to execute, and stays responsible for the one it was.
LEMMA KeepRegistered ==
    ASSUME NoHalfRegisteredCaller, NEW a \in Actors, OthersKept(a),
           NEW s \in Scripts,
           \A t \in Scripts : HalfRegistered(t)' => HalfRegistered(t) \/ t = s,
           HalfRegistered(s)' => WillExecuteFor(a, s)',
           \A t \in Scripts : WillExecuteFor(a, t) => t = s
    PROVE  NoHalfRegisteredCaller'
<1> SUFFICES ASSUME NEW t \in Scripts, HalfRegistered(t)'
             PROVE  \E b \in Actors : WillExecuteFor(b, t)'
  BY Registered
<1>1. CASE t = s
  BY <1>1
<1>2. CASE t # s
  <2>1. PICK b \in Actors : WillExecuteFor(b, t)
    BY <1>2, Registered
  <2>2. b # a
    BY <1>2, <2>1
  <2> QED
    BY <2>1, <2>2, OthersStillExecute
<1> QED
  BY <1>1, <1>2

\* A step that leaves the callers alone and after which a is responsible for the
\* same scripts, if any.
LEMMA SameRegistered ==
    ASSUME NoHalfRegisteredCaller, NEW a \in Actors, OthersKept(a),
           \A t \in Scripts : HalfRegistered(t)' => HalfRegistered(t),
           \A t \in Scripts : WillExecuteFor(a, t) => WillExecuteFor(a, t)'
    PROVE  NoHalfRegisteredCaller'
<1> SUFFICES ASSUME NEW t \in Scripts, HalfRegistered(t)'
             PROVE  \E b \in Actors : WillExecuteFor(b, t)'
  BY Registered
<1>1. PICK b \in Actors : WillExecuteFor(b, t)
  BY Registered
<1> QED
  BY <1>1, OthersStillExecute

LEMMA SameHalf ==
    ASSUME UNCHANGED callerVars, NEW t \in Scripts, HalfRegistered(t)'
    PROVE  HalfRegistered(t)
  BY DEF callerVars, HalfRegistered, IsExistBridgeCaller

LEMMA RemovedHalf ==
    ASSUME TypeOK, NEW s \in Scripts, RemoveBridgeCaller(s),
           NEW t \in Scripts, HalfRegistered(t)'
    PROVE  HalfRegistered(t) /\ t # s
  BY DEF RemoveBridgeCaller, HalfRegistered, IsExistBridgeCaller, TypeOK, CallerTypeOK

LEMMA AddedHalf ==
    ASSUME TypeOK, NEW s \in Scripts, NEW c \in Callers, NEW used,
           AddNewBridgeCaller(s, c, used) \/ ReplaceBridgeCaller(s, c, used),
           NEW t \in Scripts, HalfRegistered(t)'
    PROVE  HalfRegistered(t) \/ t = s
<1>1. CASE UNCHANGED callerVars
  BY <1>1, SameHalf
<1>2. CASE /\ SelfHolder' = [SelfHolder EXCEPT ![s] = c]
           /\ MainCaller' = [MainCaller EXCEPT ![c] = Unbound]
           /\ \A r \in Scripts : SelfHolder[r] # c
  BY <1>2 DEF HalfRegistered, IsExistBridgeCaller, TypeOK, CallerTypeOK
<1> QED
  BY <1>1, <1>2 DEF AddNewBridgeCaller, ReplaceBridgeCaller

LEMMA EnterRegistered ==
    ASSUME TypeOK, NEW a \in Actors, NEW p, NEW s, NEW r, NEW c, NEW e,
           Enter(a, p, s, r, c, e)
    PROVE  /\ OthersKept(a)
           /\ p = "execute" \/ (c # None /\ p \in Holding) => WillExecuteFor(a, s)'
  BY DEF Enter, OthersKept, WillExecuteFor, OnStack, WillExecute, Holding, TypeOK

\* An actor at rest is responsible for no script.
LEMMA RestExecutesNothing ==
    ASSUME TypeOK, StackInv, NEW a \in Actors, pc[a] \in Resting, NEW t
    PROVE  ~WillExecuteFor(a, t)
  BY DEF StackInv, WillExecuteFor, OnStack, TypeOK

LEMMA CallRegistered ==
    ASSUME TypeOK, StackInv, NoHalfRegisteredCaller, NEW a \in Actors, Call(a)
    PROVE  NoHalfRegisteredCaller'
<1>0. /\ ScriptOf[a] \in Scripts /\ CompileScript \in Scripts
      /\ {"reload", "finish", "start"} \subseteq Holding
      /\ \A c \in Callers : c # None
  BY ScriptsAssumption, NoneAssumption DEF Holding
<1>1. pc[a] = "absent"
  BY <1>0
  DEF Call, SkipDesignerTree, UseExistingCaller, NoFreeEnv, RunScriptToInitWidgetTree,
      RunScriptToInitUtility, ExecuteJsScripts, ReloadJsScripts, CompileTsScript,
      CompileAgain, BlueprintMayRun
<1>2. \A t \in Scripts : ~WillExecuteFor(a, t)
  BY <1>1, RestExecutesNothing DEF Resting
<1>3. CASE SkipDesignerTree(a)
  <2>1. OthersKept(a)
    BY <1>3 DEF SkipDesignerTree, OthersKept, TypeOK
  <2> QED
    BY <1>2, <1>3, <2>1, SameRegistered, SameHalf DEF SkipDesignerTree
<1>4. CASE UseExistingCaller(a) \/ CompileAgain(a) \/ ReloadJsScripts(a)
  <2>1. OthersKept(a)
    BY <1>4, EnterRegistered
    DEF UseExistingCaller, CompileAgain, ReloadJsScripts, RestartJsScripts
  <2>2. UNCHANGED callerVars
    BY <1>4 DEF UseExistingCaller, CompileAgain, ReloadJsScripts
  <2> QED
    BY <1>2, <2>1, <2>2, SameRegistered, SameHalf
<1>5. CASE NoFreeEnv(a)
  <2>1. OthersKept(a)
    BY <1>5 DEF NoFreeEnv, OthersKept, TypeOK
  <2> QED
    BY <1>0, <1>2, <1>5, <2>1, SameRegistered, RemovedHalf DEF NoFreeEnv
<1>6. ASSUME NEW c \in Callers, NEW e \in Envs, RunScriptToInitWidgetTree(a, c, e)
      PROVE  NoHalfRegisteredCaller'
  <2>1. OthersKept(a) /\ WillExecuteFor(a, ScriptOf[a])'
    <3>1. PICK p \in Holding, r \in BOOLEAN, f \in Envs : Enter(a, p, ScriptOf[a], r, c, f)
      BY <1>0, <1>6, FirstEnv DEF RunScriptToInitWidgetTree, RestartJsScripts
    <3> QED
      BY <1>0, <3>1, EnterRegistered
  <2>2. \A t \in Scripts : HalfRegistered(t)' => HalfRegistered(t) \/ t = ScriptOf[a]
    BY <1>0, <1>6, AddedHalf DEF RunScriptToInitWidgetTree
  <2> QED
    BY <1>0, <1>2, <2>1, <2>2, KeepRegistered
<1>7. ASSUME NEW c \in Callers, NEW e \in Envs, RunScriptToInitUtility(a, c, e)
      PROVE  NoHalfRegisteredCaller'
  <2>1. OthersKept(a) /\ WillExecuteFor(a, ScriptOf[a])'
    <3>1. PICK p \in Holding, r \in BOOLEAN, f \in Envs : Enter(a, p, ScriptOf[a], r, c, f)
      BY <1>0, <1>7, FirstEnv DEF RunScriptToInitUtility, RestartJsScripts
    <3> QED
      BY <1>0, <3>1, EnterRegistered
  <2>2. \A t \in Scripts : HalfRegistered(t)' => HalfRegistered(t) \/ t = ScriptOf[a]
    BY <1>0, <1>7, AddedHalf DEF RunScriptToInitUtility
  <2> QED
    BY <1>0, <1>2, <2>1, <2>2, KeepRegistered
<1>8. ASSUME NEW e \in Envs, ExecuteJsScripts(a, e)
      PROVE  NoHalfRegisteredCaller'
  BY <1>2, <1>8, EnterRegistered, SameRegistered, SameHalf DEF ExecuteJsScripts
<1>9. ASSUME NEW c \in Callers, NEW e \in Envs, CompileTsScript(a, c, e)
      PROVE  NoHalfRegisteredCaller'
  <2>1. OthersKept(a) /\ WillExecuteFor(a, CompileScript)'
    <3>1. PICK p \in Holding, r \in BOOLEAN, f \in Envs : Enter(a, p, CompileScript, r, c, f)
      BY <1>0, <1>9, FirstEnv DEF CompileTsScript, RestartJsScripts
    <3> QED
      BY <1>0, <3>1, EnterRegistered
  <2>2. \A t \in Scripts : HalfRegistered(t)' => HalfRegistered(t) \/ t = CompileScript
    BY <1>0, <1>9, AddedHalf DEF CompileTsScript
  <2> QED
    BY <1>0, <1>2, <2>1, <2>2, KeepRegistered
<1> QED
  BY <1>3, <1>4, <1>5, <1>6, <1>7, <1>8, <1>9 DEF Call

\* A frame that moves before its ExecuteMainCaller stays responsible.
LEMMA MoveRegistered ==
    ASSUME TypeOK, NEW a \in Actors, pc[a] \in Holding,
           NEW p \in Holding \cup {"execute"}, pc' = [pc EXCEPT ![a] = p],
           UNCHANGED <<depth, script, caller>>
    PROVE  OthersKept(a) /\ \A t \in Scripts : WillExecuteFor(a, t) => WillExecuteFor(a, t)'
  BY DEF OthersKept, WillExecuteFor, WillExecute, OnStack, Holding, TypeOK

LEMMA ReturnRegistered ==
    ASSUME TypeOK, NEW a \in Actors, Return(a)
    PROVE  OthersKept(a)
  BY DEF Return, OthersKept, TypeOK

LEMMA BoundHalf ==
    ASSUME TypeOK, NEW c \in Callers \cup {None}, NEW e \in Envs, BindMainCaller(c, e),
           NEW t \in Scripts, HalfRegistered(t)'
    PROVE  HalfRegistered(t)
<1>1. CASE c = None
  BY <1>1 DEF BindMainCaller, HalfRegistered, IsExistBridgeCaller
<1>2. CASE c # None
  BY <1>2, UnboundIsNoEnv
  DEF BindMainCaller, HalfRegistered, IsExistBridgeCaller, TypeOK, CallerTypeOK
<1> QED
  BY <1>1, <1>2

LEMMA FrameRegistered ==
    ASSUME TypeOK, NoHalfRegisteredCaller, NEW a \in Actors, FrameStep(a)
    PROVE  NoHalfRegisteredCaller'
<1>0. /\ {"start", "reload", "script", "returned", "finish", AfterStart(a)} \subseteq Holding
      /\ script[a] \in Scripts
      /\ cur[a] \in Envs /\ ArgumentFound(a) \in Callers \cup {None}
  BY DEF Holding, AfterStart, ArgumentFound, TypeOK, PoolTypeOK
<1>1. CASE ForceReload(a)
  BY <1>0, <1>1, MoveRegistered, SameRegistered, SameHalf DEF ForceReload, AtPoint, Goto
<1>2. CASE Start(a)
  BY <1>0, <1>2, MoveRegistered, SameRegistered, SameHalf DEF Start, AtPoint, Goto
<1>3. CASE ScriptBinds(a)
  BY <1>0, <1>3, MoveRegistered, SameRegistered, BoundHalf DEF ScriptBinds, AtPoint, Goto
<1>4. CASE ScriptEndsUnbound(a)
  BY <1>0, <1>4, MoveRegistered, SameRegistered, SameHalf
  DEF ScriptEndsUnbound, AtPoint, Goto
<1>5. CASE NextEnv(a)
  BY <1>0, <1>5, MoveRegistered, SameRegistered, SameHalf DEF NextEnv, AtPoint, Goto
<1>6. CASE Finish(a)
  <2>1. CASE caller[a] = None
    <3>1. \A t \in Scripts : ~WillExecuteFor(a, t)
      BY <1>6, <2>1 DEF Finish, AtPoint, WillExecuteFor, WillExecute
    <3> QED
      BY <1>6, <2>1, <3>1, ReturnRegistered, SameRegistered, SameHalf DEF Finish
  <2>2. CASE caller[a] # None
    BY <1>0, <1>6, <2>2, MoveRegistered, SameRegistered, SameHalf DEF Finish, AtPoint, Goto
  <2> QED
    BY <2>1, <2>2
<1>7. ASSUME NEW e \in Envs, Execute(a, e)
      PROVE  NoHalfRegisteredCaller'
  <2>1. OthersKept(a)
    BY <1>7 DEF Execute, OthersKept, TypeOK
  <2>2. ~HalfRegistered(script[a])
    BY <1>7, UnboundIsNoEnv DEF Execute, RunsIn, HalfRegistered
  <2>3. \A t \in Scripts : WillExecuteFor(a, t) => t = script[a]
    BY DEF WillExecuteFor
  <2> QED
    BY <1>0, <1>7, <2>1, <2>2, <2>3, KeepRegistered, SameHalf DEF Execute
<1>8. CASE ExecuteInert(a)
  <2>1. ~HalfRegistered(script[a])
    BY <1>8, BindingAssumption DEF ExecuteInert, RunsNothing, HalfRegistered
  <2>2. \A t \in Scripts : WillExecuteFor(a, t) => t = script[a]
    BY DEF WillExecuteFor
  <2> QED
    BY <1>0, <1>8, <2>1, <2>2, ReturnRegistered, KeepRegistered, SameHalf DEF ExecuteInert
<1>9. CASE ExecuteUnbound(a)
  <2>1. \A t \in Scripts : WillExecuteFor(a, t) => t = script[a]
    BY DEF WillExecuteFor
  <2> QED
    BY <1>0, <1>9, <2>1, ReturnRegistered, KeepRegistered, RemovedHalf DEF ExecuteUnbound
<1>10. CASE MountEnds(a)
  <2>1. \A t \in Scripts : ~WillExecuteFor(a, t)
    BY <1>10 DEF MountEnds, AtPoint, WillExecuteFor, WillExecute
  <2> QED
    BY <1>10, <2>1, ReturnRegistered, SameRegistered, SameHalf DEF MountEnds
<1> QED
  BY <1>1, <1>2, <1>3, <1>4, <1>5, <1>6, <1>7, <1>8, <1>9, <1>10 DEF FrameStep

\* With an empty stack no caller is half registered at all.
LEMMA EventLoopRegistered ==
    ASSUME TypeOK, StackInv, NoHalfRegisteredCaller, EventLoop
    PROVE  NoHalfRegisteredCaller'
<1>1. level = 0
  BY DEF EventLoop, BeginDestroy, BeginDestroyUtility, Rebuild, CollectProxies, TogglePIE
<1>2. \A t \in Scripts : ~HalfRegistered(t)
  BY <1>1, Registered DEF WillExecuteFor, OnStack, StackInv, TypeOK
<1>3. ASSUME NEW t \in Scripts, HalfRegistered(t)'
      PROVE  HalfRegistered(t)
  <2>1. ASSUME NEW w \in Actors, BeginDestroy(w)
        PROVE  HalfRegistered(t)
    BY <1>3, <2>1, ActorsScript, RemovedHalf DEF BeginDestroy
  <2>2. CASE UNCHANGED callerVars
    BY <1>3, <2>2, SameHalf
  <2>3. CASE Rebuild
    BY <1>3, <2>3, BindingAssumption
    DEF Rebuild, LoseBindings, HalfRegistered, IsExistBridgeCaller, TypeOK, CallerTypeOK
  <2>4. CASE CollectProxies
    BY <1>3, <2>4, BindingAssumption
    DEF CollectProxies, ExpireBindings, HalfRegistered, IsExistBridgeCaller, TypeOK,
        CallerTypeOK
  <2> QED
    BY <2>1, <2>2, <2>3, <2>4 DEF EventLoop, BeginDestroyUtility, TogglePIE
<1> QED
  BY <1>2, <1>3, Registered

-----------------------------------------------------------------------------
(* The invariant of the whole runtime, and what follows from it.             *)

LEMMA InvInit ==
    ASSUME Init
    PROVE  Inv
<1>1. FrameInv /\ StartedInv
  BY DEF Init, PoolInit, FrameInv, StartedInv
<1>2. NoHalfRegisteredCaller
  BY DEF Init, CallerInit, NoHalfRegisteredCaller, IsExistBridgeCaller
<1> QED
  BY <1>1, <1>2, TypeInit, LeaseStarts DEF Inv

LEMMA InvStep ==
    ASSUME Inv, [Next]_vars
    PROVE  Inv'
<1>1. TypeOK' /\ StackInv' /\ LeaseInv' /\ FrameInv' /\ StartedInv'
  BY TypeStep, StackStep, LeaseStepRefines, FrameInvStep, StartedStep DEF Inv
<1>2. NoHalfRegisteredCaller'
  <2>1. CASE UNCHANGED vars
    BY <2>1 DEF Inv, vars, NoHalfRegisteredCaller, IsExistBridgeCaller, OnStack, WillExecute
  <2> QED
    BY <2>1, CallRegistered, FrameRegistered, EventLoopRegistered DEF Inv, Next
<1> QED
  BY <1>1, <1>2 DEF Inv

LEMMA Invariance == Spec => []Inv
  BY InvInit, InvStep, PTL DEF Spec

\* When the game thread's stack is empty the whole pool is idle and startable:
\* no path through the three clients of the pool forgets an environment.
THEOREM QuietPool == Spec => []QuietPoolIsFree
<1>1. Inv => QuietPoolIsFree
  BY NobodyHolds, NoneStartedAtRest DEF Inv, QuietPoolIsFree, NoneStarted
<1> QED
  BY <1>1, Invariance, PTL

\* FJsEnvImpl::Start is never called in an environment that is still started,
\* whatever the nesting of starts and restarts.
THEOREM NeverRefused == Spec => []StartNeverRefused
<1>1. Inv => StartNeverRefused
  BY NoneStartedElsewhere DEF Inv, StartNeverRefused, AtPoint, NoneStarted, TypeOK
<1> QED
  BY <1>1, Invariance, PTL

\* A caller object without a bound function never outlives the call that
\* registered it, so it cannot keep later widgets from running their script.
THEOREM CallersGetBound == Spec => []NoHalfRegisteredCaller
  BY Invariance, PTL DEF Inv

-----------------------------------------------------------------------------
(* A restart binds the caller of its own widget.                            *)
(*                                                                         *)
(* While a widget restarts its script, the JavaScript on top of it may      *)
(* create others.  With one environment in the pool none of them gets one,  *)
(* and without nested calls there are none: so what is on top of a restart  *)
(* neither runs a script nor passes an argument to the environment.         *)

\* A blueprint, or anybody where JavaScript creates no widgets, is called from
\* the event loop.
LoneFrames == \A a \in Actors : a \in Blueprints \/ ~Nesting => depth[a] <= 1

\* A widget runs its own script, and in an environment that it has borrowed.
HoldersHold ==
    \A w \in Widgets \cup Utilities :
        /\ script[w] = ScriptOf[w]
        /\ pc[w] \in Holding => JsEnv[w] # None

\* The one instance of its script, somewhere between RestartJsScripts and its
\* ExecuteMainCaller.
Restarting(w) ==
    /\ w \in Widgets \cup Utilities
    /\ pc[w] \in BeforeExecute /\ caller[w] # None /\ restart[w]
    /\ \A b \in Actors \ {w} : ScriptOf[b] = ScriptOf[w] => pc[b] = "absent"

\* How far it has come with each environment of the pool.
Rebinding(w) ==
    /\ SelfHolder[script[w]] = caller[w]
    /\ pc[w] = "start" =>
          Executes(cur[w], script[w]) \/ localModuleCache[cur[w]][script[w]] = "old"
    /\ pc[w] = "script" => ArgumentFound(w) = caller[w]
    /\ pc[w] = "returned" =>
          MainCaller[caller[w]] = cur[w] \/ localModuleCache[cur[w]][script[w]] = "old"
    /\ pc[w] \in {"finish", "execute"} =>
          MainCaller[caller[w]] = PoolSize \/ localModuleCache[PoolSize][script[w]] = "old"
RestartInv == \A w \in Actors : Restarting(w) => Rebinding(w)

\* The fields of the frame of w.
Frame(w) == <<depth[w], pc[w], script[w], restart[w], caller[w], cur[w], JsEnv[w]>>

\* The kinds of actors.
LEMMA Kinds ==
    /\ \A w \in Widgets \cup Utilities : w \in Actors /\ w \notin Blueprints
    /\ \A a \in Actors : a \notin Blueprints => a \in Widgets \cup Utilities
  BY ActorsAssumption DEF Actors

\* A call adds a frame on top, or only decides what its actor is from now on.
LEMMA CallEnters ==
    ASSUME TypeOK, NEW a \in Actors, Call(a)
    PROVE  /\ pc[a] = "absent" /\ pc'[a] # "absent"
           /\ \A b \in Actors \ {a} : UNCHANGED Frame(b)
           /\ MayCreate
           /\ a \in Blueprints => level = 0
           /\ \/ UNCHANGED depth
              \/ depth' = [depth EXCEPT ![a] = level + 1]
<1> USE Kinds DEF Frame, TypeOK
<1>0. level = 0 => MayCreate
  BY DEF MayCreate
<1>1. CASE SkipDesignerTree(a)
  BY <1>1 DEF SkipDesignerTree
<1>2. CASE UseExistingCaller(a)
  BY <1>2 DEF UseExistingCaller, Enter
<1>3. CASE NoFreeEnv(a)
  BY <1>3 DEF NoFreeEnv
<1>4. ASSUME NEW c \in Callers, NEW e \in Envs,
             RunScriptToInitWidgetTree(a, c, e) \/ RunScriptToInitUtility(a, c, e)
      PROVE  /\ pc[a] = "absent" /\ pc'[a] # "absent"
             /\ \A b \in Actors \ {a} : UNCHANGED Frame(b)
             /\ MayCreate
             /\ a \in Widgets \cup Utilities
             /\ depth' = [depth EXCEPT ![a] = level + 1]
  BY <1>4 DEF RunScriptToInitWidgetTree, RunScriptToInitUtility, RestartJsScripts, Enter,
              Borrow
<1>5. ASSUME NEW e \in Envs, ExecuteJsScripts(a, e)
      PROVE  /\ pc[a] = "absent" /\ pc'[a] # "absent"
             /\ \A b \in Actors \ {a} : UNCHANGED Frame(b)
             /\ level = 0
             /\ depth' = [depth EXCEPT ![a] = level + 1]
  BY <1>5 DEF ExecuteJsScripts, BlueprintMayRun, Enter, Borrow
<1>6. CASE ReloadJsScripts(a)
  BY <1>0, <1>6 DEF ReloadJsScripts, RestartJsScripts, BlueprintMayRun, Enter
<1>7. ASSUME NEW c \in Callers, NEW e \in Envs, CompileTsScript(a, c, e)
      PROVE  /\ pc[a] = "absent" /\ pc'[a] # "absent"
             /\ \A b \in Actors \ {a} : UNCHANGED Frame(b)
             /\ level = 0
             /\ depth' = [depth EXCEPT ![a] = level + 1]
  BY <1>7 DEF CompileTsScript, BlueprintMayRun, Enter, Borrow
<1>8. CASE CompileAgain(a)
  BY <1>0, <1>8 DEF CompileAgain, BlueprintMayRun, Enter
<1> QED
  BY <1>0, <1>1, <1>2, <1>3, <1>4, <1>5, <1>6, <1>7, <1>8 DEF Call

\* A step of the top frame leaves the others alone.
LEMMA OthersStay ==
    ASSUME TypeOK, NEW a \in Actors, FrameStep(a)
    PROVE  \A b \in Actors \ {a} : UNCHANGED Frame(b)
  BY DEF FrameStep, ForceReload, Start, ScriptBinds, ScriptEndsUnbound, NextEnv, Finish,
         Execute, ExecuteInert, ExecuteUnbound, MountEnds, Goto, Return, Frame, TypeOK

LEMMA LoneFramesStep ==
    ASSUME TypeOK, StackInv, LoneFrames, [Next]_vars
    PROVE  LoneFrames'
<1>0. \A b \in Actors : depth[b] \in Nat
  BY DEF TypeOK
<1>1. ASSUME NEW a \in Actors, FrameStep(a)
      PROVE  LoneFrames'
  <2>1. \A b \in Actors : depth'[b] = depth[b] \/ depth'[b] = 0
    BY <1>1, FrameMovesOrReturns DEF FrameMoves, Return, TypeOK
  <2> QED
    BY <1>0, <2>1 DEF LoneFrames
<1>2. ASSUME NEW a \in Actors, Call(a)
      PROVE  LoneFrames'
  <2>1. a \in Blueprints \/ ~Nesting => level = 0
    BY <1>2, CallEnters DEF MayCreate
  <2>2. \A b \in Actors : depth'[b] = depth[b] \/ (b = a /\ depth'[b] = level + 1)
    BY <1>2, CallEnters DEF TypeOK
  <2> QED
    BY <1>0, <2>1, <2>2 DEF LoneFrames
<1>3. CASE EventLoop \/ UNCHANGED vars
  <2>1. UNCHANGED depth
    BY <1>3 DEF EventLoop, BeginDestroy, BeginDestroyUtility, Rebuild, CollectProxies,
                TogglePIE, frameVars, vars
  <2> QED
    BY <2>1 DEF LoneFrames
<1> QED
  BY <1>1, <1>2, <1>3 DEF Next

LEMMA HoldersHoldStep ==
    ASSUME TypeOK, HoldersHold, [Next]_vars
    PROVE  HoldersHold'
<1> SUFFICES ASSUME NEW w \in Widgets \cup Utilities
             PROVE  script'[w] = ScriptOf[w] /\ (pc'[w] \in Holding => JsEnv'[w] # None)
  BY DEF HoldersHold
<1>0. /\ w \in Actors /\ w \notin Blueprints
      /\ script[w] = ScriptOf[w]
      /\ pc[w] \in Holding => JsEnv[w] # None
  BY Kinds DEF HoldersHold
<1>1. ASSUME NEW a \in Actors, a # w, UNCHANGED Frame(w)
      PROVE  script'[w] = ScriptOf[w] /\ (pc'[w] \in Holding => JsEnv'[w] # None)
  BY <1>0, <1>1 DEF Frame
<1>2. CASE Call(w)
  <2>0. "live" \notin Holding /\ "execute" \notin Holding
    BY DEF Holding
  <2>1. CASE SkipDesignerTree(w) \/ NoFreeEnv(w)
    BY <1>0, <2>0, <2>1 DEF SkipDesignerTree, NoFreeEnv, TypeOK
  <2>2. CASE UseExistingCaller(w)
    BY <1>0, <2>0, <2>2 DEF UseExistingCaller, Enter, TypeOK
  <2>3. ASSUME NEW c \in Callers, NEW e \in Envs,
               RunScriptToInitWidgetTree(w, c, e) \/ RunScriptToInitUtility(w, c, e)
        PROVE  script'[w] = ScriptOf[w] /\ JsEnv'[w] # None
    BY <1>0, <2>3, NoneIsNoEnv
    DEF RunScriptToInitWidgetTree, RunScriptToInitUtility, RestartJsScripts, Enter, Borrow,
        TypeOK
  <2> QED
    BY <1>0, <1>2, <2>1, <2>2, <2>3
    DEF Call, ExecuteJsScripts, ReloadJsScripts, CompileTsScript, CompileAgain,
        BlueprintMayRun
<1>3. CASE FrameStep(w)
  <2>0. "execute" \notin Holding /\ "mount" \notin Holding /\ AtRest(w) \notin Holding
    BY DEF Holding, AtRest
  <2>1. CASE ForceReload(w) \/ Start(w) \/ ScriptBinds(w) \/ ScriptEndsUnbound(w) \/ NextEnv(w)
    <3>1. UNCHANGED <<script, JsEnv>> /\ pc[w] \in Holding
      BY <2>1 DEF ForceReload, Start, ScriptBinds, ScriptEndsUnbound, NextEnv, Goto, AtPoint,
                  Holding
    <3> QED
      BY <1>0, <3>1
  <2>2. CASE Finish(w) \/ ExecuteInert(w) \/ ExecuteUnbound(w) \/ MountEnds(w)
    BY <1>0, <2>0, <2>2 DEF Finish, ExecuteInert, ExecuteUnbound, MountEnds, Goto, Return, TypeOK
  <2>3. ASSUME NEW e \in Envs, Execute(w, e)
        PROVE  script'[w] = ScriptOf[w] /\ pc'[w] \notin Holding
    BY <1>0, <2>0, <2>3 DEF Execute, TypeOK
  <2> QED
    BY <1>3, <2>1, <2>2, <2>3 DEF FrameStep
<1>4. CASE EventLoop
  <2>0. "absent" \notin Holding
    BY DEF Holding
  <2>1. ASSUME NEW a \in Actors, BeginDestroy(a) \/ BeginDestroyUtility(a)
        PROVE  script'[w] = ScriptOf[w] /\ (pc'[w] \in Holding => JsEnv'[w] # None)
    BY <1>0, <2>0, <2>1 DEF BeginDestroy, BeginDestroyUtility, TypeOK
  <2>2. CASE Rebuild \/ CollectProxies \/ TogglePIE
    BY <1>0, <2>2 DEF Rebuild, CollectProxies, TogglePIE, frameVars
  <2> QED
    BY <1>4, <2>1, <2>2 DEF EventLoop
<1>5. CASE UNCHANGED vars
  BY <1>0, <1>5 DEF vars, frameVars
<1> QED
  BY <1>0, <1>1, <1>2, <1>3, <1>4, <1>5, CallEnters, OthersStay DEF Next

\* What can happen on top of a widget that is on its way to ExecuteMainCaller.
LEMMA Undisturbed ==
    ASSUME PoolSize = 1 \/ ~Nesting, TypeOK, StackInv, LeaseInv, LoneFrames, HoldersHold,
           NEW w \in Widgets \cup Utilities, pc[w] \in BeforeExecute
    PROVE  /\ level > 0
           /\ \A a \in Actors \ {w} : OnTop(a) =>
                 /\ pc[w] = "script"
                 /\ a \in Widgets \cup Utilities
                 /\ pc[a] \in {"execute", "mount"}
           /\ MayCreate => pc[w] \in InJs /\ FreeEnvs = {}
<1>0. /\ w \in Actors
      /\ level \in Nat /\ depth[w] \in Nat /\ depth[w] > 0 /\ depth[w] <= level
      /\ pc[w] \in Holding \cup {"execute"}
  BY Kinds DEF TypeOK, StackInv, Resting, BeforeExecute, Holding
<1>1. ASSUME NEW a \in Actors \ {w}, OnTop(a)
      PROVE  /\ pc[w] = "script"
             /\ a \in Widgets \cup Utilities
             /\ pc[a] \in {"execute", "mount"}
             /\ PoolSize = 1 /\ pc[a] \notin Holding
  <2>1. depth[w] < level /\ depth[a] = level /\ depth[a] \in Nat
    BY <1>0, <1>1 DEF OnTop, StackInv, TypeOK
  <2>2. pc[w] = "script"
    BY <1>0, <2>1 DEF StackInv, InJs, Holding
  <2>3. a \notin Blueprints /\ Nesting
    BY <1>0, <2>1 DEF LoneFrames
  <2>4. a \in Widgets \cup Utilities
    BY <2>3, Kinds
  <2>5. Envs = {1} /\ PoolSize = 1
    BY <2>3 DEF Envs
  <2>6. JsEnv[w] = 1
    BY <1>0, <2>2, <2>5 DEF HoldersHold, Holding, TypeOK
  <2>7. pc[a] \notin Holding
    BY <1>0, <1>1, <2>4, <2>5, <2>6, NoneIsNoEnv DEF HoldersHold, LeaseInv, TypeOK
  <2>8. pc[a] \in Points \ Resting
    BY <1>0, <2>1 DEF StackInv, TypeOK
  <2> QED
    BY <2>2, <2>4, <2>5, <2>7, <2>8 DEF Points, Resting, Holding
<1>2. ASSUME MayCreate
      PROVE  pc[w] \in InJs /\ FreeEnvs = {}
  <2>1. Nesting /\ PoolSize = 1
    BY <1>0, <1>2 DEF MayCreate
  <2>2. PICK b \in Actors : OnTop(b) /\ pc[b] \in InJs
    BY <1>0, <1>2 DEF MayCreate, InJavaScript, InJs
  <2>3. pc[w] \in InJs
    BY <1>1, <2>2 DEF InJs
  <2>4. pc[w] \in Holding
    BY <1>0, <2>3 DEF InJs
  <2>5. Envs = {1}
    BY <2>1 DEF Envs
  <2>6. JsEnv[w] = 1
    BY <1>0, <2>4, <2>5 DEF HoldersHold, TypeOK
  <2>7. JsRuntimeEnvPool[1] = 1
    BY <1>0, <2>5, <2>6 DEF LeaseInv
  <2> QED
    BY <2>3, <2>5, <2>7 DEF FreeEnvs
<1> QED
  BY <1>0, <1>1, <1>2

\* Another actor's step on top of a restart leaves what the restart has done.
LEMMA OthersKeepRebinding ==
    ASSUME NEW w \in Actors, Restarting(w), Rebinding(w), UNCHANGED Frame(w),
           pc[w] = "script", UNCHANGED argv,
           SelfHolder'[script[w]] = SelfHolder[script[w]]
    PROVE  Rebinding(w)'
  BY DEF Rebinding, Frame, ArgumentFound

\* The steps of a restart itself.
LEMMA RestartRebinding ==
    ASSUME Faults \subseteq {"mountthrows"}, TypeOK, StackInv, StartedInv,
           NEW w \in Actors, Restarting(w), Rebinding(w), FrameStep(w), Restarting(w)'
    PROVE  Rebinding(w)'
<1>0. /\ caller[w] \in Callers /\ restart[w] /\ cur[w] \in Envs /\ script[w] \in Scripts
      /\ caller[w] # None /\ SelfHolder[script[w]] = caller[w]
      /\ "nobind" \notin Faults /\ "throws" \notin Faults
  BY DEF Restarting, Rebinding, TypeOK
<1>1. CASE ForceReload(w)
  <2>1. Flagged(moduleCache[cur[w]][KeyOf(script[w])]) # "cached"
    BY DEF Flagged
  <2>2. moduleCache'[cur[w]][KeyOf(script[w])] # "cached"
    BY <1>0, <1>1, <2>1, KeyIsName DEF ForceReload, ReleaseAndForceReload, TypeOK, PoolTypeOK
  <2>3. pc'[w] = "start" /\ UNCHANGED <<SelfHolder, script, caller, cur, localModuleCache>>
    BY <1>1 DEF ForceReload, ReleaseAndForceReload, Goto, callerVars, TypeOK
  <2>4. localModuleCache[cur[w]][script[w]] \in CopyStates
    BY <1>0 DEF TypeOK, PoolTypeOK
  <2> QED
    BY <1>0, <2>2, <2>3, <2>4 DEF Rebinding, Executes, RequireExecutes, CopyStates
<1>2. CASE Start(w)
  <2>1. ~Started[cur[w]]
    BY <1>0, <1>2, NoneStartedElsewhere DEF Start, AtPoint, NoneStarted
  <2>2. CASE StartExecutes(cur[w], script[w], Argument(w)) /\ Goto(w, "script")
    <3>1. pc'[w] = "script" /\ UNCHANGED <<SelfHolder, script, caller, cur>>
      BY <1>2, <2>2 DEF Start, Goto, callerVars, TypeOK
    <3>2. script[w] # CompileScript => argv'[cur[w]] = caller[w]
      BY <1>0, <2>2 DEF StartExecutes, AddArguments, Argument, TypeOK, PoolTypeOK
    <3> QED
      BY <1>0, <3>1, <3>2 DEF Rebinding, ArgumentFound
  \* The old module is returned, and the entry stays as it is.
  <2>3. CASE StartCached(cur[w], script[w], Argument(w)) /\ Goto(w, AfterStart(w))
    <3>1. localModuleCache[cur[w]][script[w]] = "old"
      BY <1>2, <2>3 DEF Start, AtPoint, StartCached, Rebinding
    <3>2. localModuleCache'[cur[w]][script[w]] = "old"
      BY <1>0, <2>3, <3>1 DEF StartCached, Found, TypeOK, PoolTypeOK
    <3>3. pc'[w] = "returned" /\ UNCHANGED <<SelfHolder, script, caller, cur>>
      BY <1>0, <1>2, <2>3 DEF Start, Goto, AfterStart, callerVars, TypeOK
    <3> QED
      BY <1>0, <3>2, <3>3 DEF Rebinding
  <2> QED
    BY <1>2, <2>1, <2>2, <2>3 DEF Start
<1>3. CASE ScriptBinds(w)
  <2>1. ArgumentFound(w) = caller[w]
    BY <1>3 DEF ScriptBinds, AtPoint, Rebinding
  <2>2. MainCaller'[caller[w]] = cur[w]
    BY <1>0, <1>3, <2>1 DEF ScriptBinds, BindMainCaller, TypeOK, CallerTypeOK
  <2>3. pc'[w] = "returned" /\ UNCHANGED <<SelfHolder, script, caller, cur>>
    BY <1>0, <1>3 DEF ScriptBinds, BindMainCaller, Goto, AfterStart, TypeOK
  <2> QED
    BY <1>0, <2>2, <2>3 DEF Rebinding
<1>4. CASE ScriptEndsUnbound(w)
  BY <1>0, <1>4 DEF ScriptEndsUnbound
<1>5. CASE NextEnv(w)
  <2>1. MainCaller[caller[w]] = cur[w] \/ localModuleCache[cur[w]][script[w]] = "old"
    BY <1>5 DEF NextEnv, AtPoint, Rebinding
  <2>2. UNCHANGED <<SelfHolder, MainCaller, localModuleCache, script, caller>>
    BY <1>5 DEF NextEnv, ReleaseStarted, Goto, callerVars
  <2>3. CASE cur[w] < PoolSize
    <3>1. pc'[w] = "reload"
      BY <1>5, <2>3 DEF NextEnv, TypeOK
    <3> QED
      BY <1>0, <2>2, <3>1 DEF Rebinding
  <2>4. CASE ~(cur[w] < PoolSize)
    <3>1. pc'[w] = "finish"
      BY <1>5, <2>4 DEF NextEnv, Goto, TypeOK
    <3>2. cur[w] = PoolSize
      BY <1>0, <2>4, PoolSizeAssumption DEF Envs
    <3> QED
      BY <1>0, <2>1, <2>2, <3>1, <3>2 DEF Rebinding
  <2> QED
    BY <2>3, <2>4
<1>6. CASE Finish(w)
  <2>1. /\ pc'[w] = "execute"
        /\ UNCHANGED <<SelfHolder, MainCaller, localModuleCache, script, caller>>
    BY <1>0, <1>6 DEF Finish, Goto, callerVars, TypeOK
  <2>2. MainCaller[caller[w]] = PoolSize \/ localModuleCache[PoolSize][script[w]] = "old"
    BY <1>6 DEF Finish, AtPoint, Rebinding
  <2> QED
    BY <1>0, <2>1, <2>2 DEF Rebinding
<1>7. ASSUME NEW e \in Envs, Execute(w, e)
      PROVE  Rebinding(w)'
  BY <1>7 DEF Execute, Restarting, BeforeExecute, TypeOK
<1>8. CASE ExecuteInert(w) \/ ExecuteUnbound(w) \/ MountEnds(w)
  BY <1>8 DEF ExecuteInert, ExecuteUnbound, MountEnds, Return, AtRest, Restarting,
              BeforeExecute, TypeOK
<1> QED
  BY <1>1, <1>2, <1>3, <1>4, <1>5, <1>6, <1>7, <1>8 DEF FrameStep

\* A restart is entered with the caller of the script registered.
LEMMA RestartBegins ==
    ASSUME Faults \subseteq {"mountthrows"}, TypeOK, NEW w \in Actors, Call(w),
           Restarting(w)'
    PROVE  Rebinding(w)'
<1>0. /\ w \in Widgets \cup Utilities /\ w \notin Blueprints
      /\ ScriptOf[w] \in Scripts
      /\ pc'[w] \in BeforeExecute /\ caller'[w] # None
  BY Kinds, ActorsScript DEF Restarting
<1>1. ASSUME NEW c \in Callers, NEW e \in Envs,
             RunScriptToInitWidgetTree(w, c, e) \/ RunScriptToInitUtility(w, c, e)
      PROVE  Rebinding(w)'
  <2>1. SelfHolder'[ScriptOf[w]] = c
    BY <1>0, <1>1 DEF RunScriptToInitWidgetTree, RunScriptToInitUtility, AddNewBridgeCaller,
                      ReplaceBridgeCaller, callerVars, TypeOK, CallerTypeOK
  <2>2. RestartJsScripts(w, ScriptOf[w], c)
    BY <1>1 DEF RunScriptToInitWidgetTree, RunScriptToInitUtility, Enter, Restarting, TypeOK
  <2>3. Enter(w, "reload", ScriptOf[w], TRUE, c, 1)
    BY <2>2 DEF RestartJsScripts
  <2>4. pc'[w] = "reload" /\ script'[w] = ScriptOf[w] /\ caller'[w] = c
    BY <2>3 DEF Enter, TypeOK
  <2> QED
    BY <2>1, <2>4 DEF Rebinding
<1>2. CASE SkipDesignerTree(w) \/ NoFreeEnv(w)
  BY <1>0, <1>2 DEF SkipDesignerTree, NoFreeEnv, BeforeExecute, TypeOK
<1>3. CASE UseExistingCaller(w)
  BY <1>0, <1>3 DEF UseExistingCaller, Enter, TypeOK
<1> QED
  BY <1>0, <1>1, <1>2, <1>3
  DEF Call, ExecuteJsScripts, ReloadJsScripts, CompileTsScript, CompileAgain, BlueprintMayRun

\* What lies on top of a restart takes away no caller but its own.
LEMMA OthersKeepCaller ==
    ASSUME NEW a \in Actors, NEW w \in Actors, a \in Widgets \cup Utilities,
           script[a] = ScriptOf[a], ScriptOf[a] \in Scripts,
           \/ Call(a) /\ FreeEnvs = {}
           \/ FrameStep(a) /\ pc[a] \in {"execute", "mount"},
           script[w] \in Scripts, script[w] # ScriptOf[a], TypeOK
    PROVE  UNCHANGED argv /\ SelfHolder'[script[w]] = SelfHolder[script[w]]
<1>0. a \notin Blueprints
  BY Kinds
<1>1. CASE UNCHANGED <<argv, SelfHolder>>
  BY <1>1
<1>2. CASE NoFreeEnv(a)
  BY <1>2 DEF NoFreeEnv, RemoveBridgeCaller, poolVars, TypeOK, CallerTypeOK
<1>3. CASE ExecuteUnbound(a)
  BY <1>3 DEF ExecuteUnbound, RemoveBridgeCaller, poolVars, TypeOK, CallerTypeOK
<1>4. CASE FrameStep(a) /\ pc[a] \in {"execute", "mount"}
  BY <1>1, <1>3, <1>4
  DEF FrameStep, ForceReload, Start, ScriptBinds, ScriptEndsUnbound, NextEnv, Finish, AtPoint,
      Execute, ExecuteInert, MountEnds, poolVars, callerVars
<1>5. CASE Call(a) /\ FreeEnvs = {}
  BY <1>0, <1>1, <1>2, <1>5
  DEF Call, SkipDesignerTree, UseExistingCaller, RunScriptToInitWidgetTree,
      RunScriptToInitUtility, Borrow, GetFreeJsEnv, FirstFree, ExecuteJsScripts,
      ReloadJsScripts, CompileTsScript, CompileAgain, BlueprintMayRun, poolVars, callerVars
<1> QED
  BY <1>4, <1>5

LEMMA RestartStep ==
    ASSUME PoolSize = 1 \/ ~Nesting, Faults \subseteq {"mountthrows"},
           Inv, LoneFrames, HoldersHold, RestartInv, [Next]_vars
    PROVE  RestartInv'
<1> SUFFICES ASSUME NEW w \in Actors, Restarting(w)'
             PROVE  Rebinding(w)'
  BY DEF RestartInv
<1>0. /\ w \in Widgets \cup Utilities /\ pc'[w] \in BeforeExecute
      /\ TypeOK /\ StackInv /\ LeaseInv /\ StartedInv
      /\ \A b \in Actors \ {w} : ScriptOf[b] = ScriptOf[w] => pc'[b] = "absent"
      /\ "absent" \notin BeforeExecute /\ "live" \notin BeforeExecute
  BY DEF Restarting, Inv, BeforeExecute
\* Another actor's step that does not make it absent.
<1>1. ASSUME NEW a \in Actors \ {w}, UNCHANGED Frame(w), pc'[a] # "absent",
             \A b \in Actors \ {a} : UNCHANGED Frame(b)
      PROVE  Restarting(w) /\ Rebinding(w) /\ pc[w] \in BeforeExecute /\ ScriptOf[a] # ScriptOf[w]
  <2>1. ScriptOf[a] # ScriptOf[w]
    BY <1>0, <1>1
  <2>2. pc[w] = pc'[w] /\ caller[w] = caller'[w] /\ restart[w] = restart'[w]
    BY <1>1 DEF Frame
  <2>3. \A b \in Actors \ {w} : ScriptOf[b] = ScriptOf[w] => pc[b] = "absent"
    BY <1>0, <1>1, <2>1 DEF Frame
  <2>4. Restarting(w)
    BY <1>0, <2>2, <2>3 DEF Restarting
  <2> QED
    BY <1>0, <2>1, <2>2, <2>4 DEF RestartInv
<1>2. ASSUME NEW a \in Actors, Call(a)
      PROVE  Rebinding(w)'
  <2>1. CASE a = w
    BY <1>0, <1>2, <2>1, RestartBegins
  <2>2. CASE a # w
    <3>1. UNCHANGED Frame(w) /\ pc'[a] # "absent" /\ \A b \in Actors \ {a} : UNCHANGED Frame(b)
      BY <1>0, <1>2, <2>2, CallEnters
    <3>2. Restarting(w) /\ Rebinding(w) /\ pc[w] \in BeforeExecute /\ ScriptOf[a] # ScriptOf[w]
      BY <1>1, <2>2, <3>1
    <3>3. level > 0 /\ (MayCreate => pc[w] \in InJs /\ FreeEnvs = {})
      BY <1>0, <3>2, Undisturbed
    <3>4. MayCreate /\ a \notin Blueprints
      BY <1>0, <1>2, <3>3, CallEnters
    <3>5. pc[w] = "script" /\ FreeEnvs = {} /\ a \in Widgets \cup Utilities
      BY <3>2, <3>3, <3>4, Kinds DEF InJs, BeforeExecute
    <3>6. script[w] = ScriptOf[w] /\ script[a] = ScriptOf[a]
      BY <1>0, <3>5 DEF HoldersHold
    <3>7. UNCHANGED argv /\ SelfHolder'[script[w]] = SelfHolder[script[w]]
      BY <1>0, <1>2, <3>2, <3>5, <3>6, ActorsScript, OthersKeepCaller
    <3> QED
      BY <3>1, <3>2, <3>5, <3>7, OthersKeepRebinding
  <2> QED
    BY <2>1, <2>2
<1>3. ASSUME NEW a \in Actors, FrameStep(a)
      PROVE  Rebinding(w)'
  <2>0. OnTop(a) /\ \A b \in Actors \ {a} : UNCHANGED Frame(b)
    BY <1>0, <1>3, FrameMovesOrReturns, OthersStay
  <2>1. CASE a = w
    <3>1. Restarting(w)
      <4>1. \A b \in Actors \ {w} : ScriptOf[b] = ScriptOf[w] => pc[b] = "absent"
        BY <1>0, <2>0, <2>1 DEF Frame
      <4>2. ~Return(w)
        BY <1>0 DEF Return, AtRest, TypeOK
      <4>3. UNCHANGED <<caller, restart>>
        BY <1>3, <2>1, <4>2
        DEF FrameStep, ForceReload, Start, ScriptBinds, ScriptEndsUnbound, NextEnv, Finish,
            Execute, ExecuteInert, ExecuteUnbound, MountEnds, Goto
      <4>4. pc[w] \in BeforeExecute \cup {"mount"}
        BY <1>3, <2>1
        DEF FrameStep, ForceReload, Start, ScriptBinds, ScriptEndsUnbound, NextEnv, Finish,
            Execute, ExecuteInert, ExecuteUnbound, MountEnds, AtPoint, BeforeExecute
      <4>5. pc[w] # "mount"
        BY <1>3, <2>1, <4>2
        DEF FrameStep, ForceReload, Start, ScriptBinds, ScriptEndsUnbound, NextEnv, Finish,
            Execute, ExecuteInert, ExecuteUnbound, MountEnds, AtPoint
      <4> QED
        BY <1>0, <4>1, <4>3, <4>4, <4>5 DEF Restarting
    <3> QED
      BY <1>0, <1>3, <2>1, <3>1, RestartRebinding DEF RestartInv
  <2>2. CASE a # w
    <3>1. UNCHANGED Frame(w)
      BY <2>0, <2>2
    <3>2. pc[w] \in BeforeExecute
      BY <1>0, <3>1 DEF Frame
    <3>3. pc[w] = "script" /\ a \in Widgets \cup Utilities /\ pc[a] \in {"execute", "mount"}
      BY <1>0, <2>0, <2>2, <3>2, Undisturbed
    <3>4. pc'[a] # "absent"
      <4>1. a \notin Blueprints
        BY <3>3, Kinds
      <4>2. CASE FrameMoves(a)
        BY <1>0, <4>2 DEF FrameMoves, Resting, TypeOK
      <4>3. CASE Return(a)
        BY <1>0, <4>1, <4>3 DEF Return, AtRest, TypeOK
      <4> QED
        BY <1>3, <4>2, <4>3, FrameMovesOrReturns
    <3>5. Restarting(w) /\ Rebinding(w) /\ ScriptOf[a] # ScriptOf[w]
      BY <1>1, <2>0, <2>2, <3>1, <3>4
    <3>6. script[w] = ScriptOf[w] /\ script[a] = ScriptOf[a]
      BY <1>0, <3>3 DEF HoldersHold
    <3>7. UNCHANGED argv /\ SelfHolder'[script[w]] = SelfHolder[script[w]]
      BY <1>0, <1>3, <3>3, <3>5, <3>6, ActorsScript, OthersKeepCaller
    <3> QED
      BY <3>1, <3>3, <3>5, <3>7, OthersKeepRebinding
  <2> QED
    BY <2>1, <2>2
<1>4. CASE EventLoop
  <2>1. level = 0
    BY <1>4 DEF EventLoop, BeginDestroy, BeginDestroyUtility, Rebuild, CollectProxies, TogglePIE
  <2>2. pc[w] \in Resting
    BY <1>0, <2>1, NobodyHolds
  <2>3. pc'[w] = pc[w] \/ pc'[w] = "absent"
    BY <1>0, <1>4 DEF EventLoop, BeginDestroy, BeginDestroyUtility, Rebuild, CollectProxies,
                      TogglePIE, frameVars, TypeOK
  <2> QED
    BY <1>0, <2>2, <2>3 DEF Resting
<1>5. CASE UNCHANGED vars
  <2>1. UNCHANGED <<pc, script, caller, restart, cur, SelfHolder, MainCaller, moduleCache,
                    localModuleCache, argv>>
    BY <1>5 DEF vars, frameVars, poolVars, callerVars
  <2>2. Restarting(w)
    BY <2>1 DEF Restarting
  <2> QED
    BY <2>1, <2>2 DEF RestartInv, Rebinding, ArgumentFound, Executes
<1> QED
  BY <1>2, <1>3, <1>4, <1>5 DEF Next

\* A name's module grows old only by another name of the same script.
OldInv ==
    \A e \in Envs, s \in Scripts :
        localModuleCache[e][s] = "old" => IsSuperseded(e, s)

LEMMA ReplaceKeepsOld ==
    ASSUME PoolTypeOK, OldInv, NEW e \in Envs, NEW s \in Scripts, NEW m,
           NEW c \in {"same", "stale"}, ReplaceModule(e, s, m, c)
    PROVE  OldInv'
<1> SUFFICES ASSUME NEW f \in Envs, NEW t \in Scripts, localModuleCache'[f][t] = "old"
             PROVE  \E u \in Scripts \ {t} :
                        KeyOf(u) = KeyOf(t) /\ localModuleCache'[f][u] # "none"
  BY DEF OldInv, IsSuperseded, KeyOf
<1>1. /\ localModuleCache'[e][s] = c
      /\ \A u \in Scripts \ {s} :
            localModuleCache'[e][u] =
                IF KeyOf(u) = KeyOf(s)
                THEN Superseded(moduleCache[e][KeyOf(s)], localModuleCache[e][u])
                ELSE localModuleCache[e][u]
      /\ \A g \in Envs \ {e} : localModuleCache'[g] = localModuleCache[g]
  BY DEF ReplaceModule, PoolTypeOK
<1>2. \A u \in Scripts : localModuleCache[f][u] # "none" => localModuleCache'[f][u] # "none"
  BY <1>1 DEF Superseded
<1>3. CASE localModuleCache[f][t] = "old"
  BY <1>2, <1>3 DEF OldInv, IsSuperseded
<1>4. CASE localModuleCache[f][t] # "old"
  <2>1. f = e /\ t # s /\ KeyOf(t) = KeyOf(s)
    BY <1>1, <1>4
  <2> QED
    BY <1>1, <2>1
<1> QED
  BY <1>3, <1>4

LEMMA OldStep ==
    ASSUME TypeOK, OldInv, [Next]_vars
    PROVE  OldInv'
<1>0. PoolTypeOK /\ \A a \in Actors : cur[a] \in Envs /\ script[a] \in Scripts
  BY DEF TypeOK
<1>1. CASE UNCHANGED localModuleCache
  BY <1>1 DEF OldInv, IsSuperseded, KeyOf
<1>2. ASSUME NEW a \in Actors, StartCached(cur[a], script[a], Argument(a))
      PROVE  OldInv'
  <2>1. \A e \in Envs, s \in Scripts :
            /\ localModuleCache'[e][s] = "old" => localModuleCache[e][s] = "old"
            /\ localModuleCache[e][s] # "none" => localModuleCache'[e][s] # "none"
    BY <1>0, <1>2 DEF StartCached, Found, PoolTypeOK
  <2> QED
    BY <2>1 DEF OldInv, IsSuperseded, KeyOf
<1>3. ASSUME NEW a \in Actors, StartExecutes(cur[a], script[a], Argument(a))
      PROVE  OldInv'
  BY <1>0, <1>3, ReplaceKeepsOld DEF StartExecutes
<1>4. ASSUME NEW a \in Actors, NEW throws \in BOOLEAN, StartEnds(cur[a], script[a], throws)
      PROVE  OldInv'
  <2>1. CASE throws
    BY <1>0, <1>4, <2>1, ReplaceKeepsOld DEF StartEnds
  <2> QED
    BY <1>1, <1>4, <2>1 DEF StartEnds
<1>5. ASSUME NEW a \in Actors, FrameStep(a)
      PROVE  OldInv'
  <2>1. CASE Start(a)
    BY <1>1, <1>2, <1>3, <2>1 DEF Start, StartRefused, poolVars
  <2>2. CASE ScriptBinds(a) \/ ScriptEndsUnbound(a)
    BY <1>4, <2>2 DEF ScriptBinds, ScriptEndsUnbound
  <2> QED
    BY <1>1, <1>5, <2>1, <2>2
    DEF FrameStep, ForceReload, ReleaseAndForceReload, NextEnv, ReleaseStarted, Finish, Execute,
        ExecuteInert, ExecuteUnbound, MountEnds, poolVars
<1>6. ASSUME NEW a \in Actors, Call(a)
      PROVE  OldInv'
  BY <1>1, <1>6
  DEF Call, SkipDesignerTree, UseExistingCaller, NoFreeEnv, RunScriptToInitWidgetTree,
      RunScriptToInitUtility, Borrow, ExecuteJsScripts, ReloadJsScripts, CompileTsScript,
      CompileAgain, poolVars
<1>7. CASE Rebuild
  BY <1>7 DEF Rebuild, RebuildRuntimePool, OldInv
<1>8. CASE EventLoop
  BY <1>1, <1>7, <1>8
  DEF EventLoop, BeginDestroy, BeginDestroyUtility, CollectProxies, TogglePIE, poolVars
<1>9. CASE UNCHANGED vars
  BY <1>1, <1>9 DEF vars
<1> QED
  BY <1>5, <1>6, <1>8, <1>9 DEF Next

\* With one environment, as the singleton has, or without widgets that create
\* widgets, and unless a script fails: a widget that restarts its script has the
\* caller it passed registered and bound in the last environment, whatever a
\* rebuild, an earlier instance, a nested call or a dead proxy has left behind;
\* or that environment keeps for its name a module that was replaced through the
\* other name of the script. Where no script is started by two names, it is bound.
THEOREM RestartsRebind ==
    ASSUME PoolSize = 1 \/ ~Nesting, Faults \subseteq {"mountthrows"}
    PROVE  Spec => []RestartRebinds
<1> DEFINE RInv == Inv /\ LoneFrames /\ HoldersHold /\ RestartInv /\ OldInv
<1>1. Init => RInv
  <2>1. ASSUME Init PROVE LoneFrames /\ HoldersHold /\ RestartInv
    BY <2>1, Kinds DEF Init, LoneFrames, HoldersHold, Holding, RestartInv, Restarting, BeforeExecute
  <2>2. ASSUME Init PROVE OldInv
    BY <2>2 DEF Init, PoolInit, OldInv
  <2> QED
    BY <2>1, <2>2, InvInit
<1>2. RInv /\ [Next]_vars => RInv'
  BY InvStep, LoneFramesStep, HoldersHoldStep, RestartStep, OldStep DEF Inv
<1>3. RInv => RestartRebinds
  <2> SUFFICES ASSUME RInv, NEW w \in Widgets \cup Utilities,
                      AtPoint(w, "execute"), caller[w] # None /\ restart[w],
                      \A b \in Actors \ {w} : ScriptOf[b] = ScriptOf[w] => pc[b] = "absent"
               PROVE  /\ SelfHolder[script[w]] = caller[w]
                      /\ \/ MainCaller[caller[w]] = PoolSize
                         \/ IsSuperseded(PoolSize, script[w])
    BY DEF RestartRebinds
  <2>1. w \in Actors /\ Restarting(w)
    BY Kinds DEF Restarting, AtPoint, BeforeExecute
  <2>2. PoolSize \in Envs /\ script[w] \in Scripts
    BY <2>1, PoolSizeAssumption DEF Envs, Inv, TypeOK
  <2> QED
    BY <2>1, <2>2 DEF RestartInv, Rebinding, AtPoint, OldInv
<1> QED
  BY <1>1, <1>2, <1>3, PTL DEF Spec

=============================================================================
