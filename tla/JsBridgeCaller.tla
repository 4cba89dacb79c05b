--------------------------- MODULE JsBridgeCaller ---------------------------
(***************************************************************************)
(* UJsBridgeCaller (Source/ReactorUMG/Private/JsBridgeCaller.cpp): the     *)
(* static map SelfHolder from a script path to the caller object, and of   *)
(* every caller object what its MainCaller delegate is bound to.           *)
(*                                                                         *)
(* A JavaScript function is bound through a UDynamicDelegateProxy that     *)
(* belongs to the environment of the function. When that environment is    *)
(* destroyed the proxy stays, bound but inert (Dead), until the garbage    *)
(* collector takes it (Expired: the delegate is no longer bound).          *)
(***************************************************************************)
EXTENDS JsEnvRuntime

CONSTANTS Unbound, Dead, Expired    \* a delegate that calls no function

ASSUME BindingAssumption ==
    /\ {Unbound, Dead, Expired, None} \cap Nat = {}
    /\ Unbound # Dead /\ Unbound # Expired /\ Dead # Expired
    /\ None \notin {Unbound, Dead, Expired}

VARIABLES
    SelfHolder,     \* script -> caller object, or None
    MainCaller      \* caller object -> Bindings

callerVars == <<SelfHolder, MainCaller>>

Bindings == Envs \cup {Unbound, Dead, Expired}

CallerTypeOK ==
    /\ SelfHolder \in [Scripts -> Callers \cup {None}]
    /\ MainCaller \in [Callers -> Bindings]

CallerInit ==
    /\ SelfHolder = [s \in Scripts |-> None]
    /\ MainCaller = [c \in Callers |-> Unbound]

-----------------------------------------------------------------------------

IsExistBridgeCaller(s) == SelfHolder[s] # None

\* AddNewBridgeCaller(s) returning c: the caller that is there, or a new
\* object at an address that nothing in inUse refers to.
AddNewBridgeCaller(s, c, inUse) ==
    IF IsExistBridgeCaller(s)
    THEN /\ c = SelfHolder[s]
         /\ UNCHANGED callerVars
    ELSE /\ c \in Callers \ inUse
         /\ \A t \in Scripts : SelfHolder[t] # c
         /\ SelfHolder' = [SelfHolder EXCEPT ![s] = c]
         /\ MainCaller' = [MainCaller EXCEPT ![c] = Unbound]

\* UReactorUtilityWidget removes the caller of s first, so it always gets a
\* new object.
ReplaceBridgeCaller(s, c, inUse) ==
    /\ c \in Callers \ inUse
    /\ \A t \in Scripts : SelfHolder[t] # c
    /\ SelfHolder' = [SelfHolder EXCEPT ![s] = c]
    /\ MainCaller' = [MainCaller EXCEPT ![c] = Unbound]

RemoveBridgeCaller(s) ==
    /\ SelfHolder' = [SelfHolder EXCEPT ![s] = None]
    /\ UNCHANGED MainCaller

\* What ExecuteMainCaller(s) runs: a live function, an inert proxy, nothing.
RunsIn(s, e) == IsExistBridgeCaller(s) /\ MainCaller[SelfHolder[s]] = e /\ e \in Envs
RunsNothing(s) == IsExistBridgeCaller(s) /\ MainCaller[SelfHolder[s]] = Dead
IsNotBound(s) ==
    IsExistBridgeCaller(s) => MainCaller[SelfHolder[s]] \in {Unbound, Expired}

\* The launch script: MainCaller.Unbind() if it is bound, then Bind(Launch).
BindMainCaller(c, e) ==
    /\ MainCaller' = IF c = None THEN MainCaller
                                 ELSE [MainCaller EXCEPT ![c] = e]
    /\ UNCHANGED SelfHolder

\* The environments are destroyed under the functions that live in them.
LoseBindings ==
    /\ MainCaller' = [c \in Callers |->
                         IF MainCaller[c] \in Envs THEN Dead ELSE MainCaller[c]]
    /\ UNCHANGED SelfHolder

\* The garbage collector takes the proxies nobody retains.
ExpireBindings ==
    /\ MainCaller' = [c \in Callers |->
                         IF MainCaller[c] = Dead THEN Expired ELSE MainCaller[c]]
    /\ UNCHANGED SelfHolder
=============================================================================
