---------------------------- MODULE BlueprintEmit ----------------------------
(***************************************************************************)
(* The refresh of a blueprint: CodeAnalyze.js, onBlueprintTypeAddOrChange, *)
(* walks the members of a TypeScript class and tells UPEBlueprintAsset     *)
(* (PEBlueprintAsset.cpp) what the blueprint must have; the asset compares *)
(* that with what the blueprint has, changes what differs, and compiles    *)
(* and saves it if anything did.  Between refreshes the programmer edits   *)
(* the class, and the game may be played in the editor, when a layout must *)
(* not change.                                                             *)
(*                                                                         *)
(* The base class is fixed for the life of a blueprint; the attachments of *)
(* components and the texts of the metadata of functions are left out.     *)
(***************************************************************************)
EXTENDS BlueprintTypes

CONSTANTS Declarations,     \* the texts of the class: sequences of members
          Bases,
          ParentEvents, ParentFunctions,    \* for every base: what it may be asked to override
          AxisNames, ActionNames,           \* the inputs of the project
          Actors, Components                \* the objects that are of these classes

ASSUME BlueprintAssumption ==
    /\ ParentEvents \in [Bases -> SUBSET STRING] /\ ParentFunctions \in [Bases -> SUBSET STRING]
    /\ Actors \subseteq DOMAIN Objects /\ Components \subseteq DOMAIN Objects

ComponentType(t) ==
    /\ Pin(t) # NoPin
    /\ Pin(t).container = "None" /\ Pin(t).category = "object" /\ Pin(t).object \in Components

\* What the compiler of TypeScript accepts: it refuses two members of one name, but
\* for overloads and for static ones, and two parameters of one name.
ASSUME ClassAssumption ==
    /\ Declarations \subseteq Seq(MethodDeclaration \cup PropertyDeclaration)
    /\ \A d \in Declarations, b \in Bases : \A i, j \in DOMAIN d :
          Counts(b, d[i]) /\ Counts(b, d[j]) /\ Single(d[i]) /\ d[i].name = d[j].name => i = j
    /\ \A d \in Declarations : \A i \in DOMAIN d : IsMethod(d[i]) =>
          \A j, k \in DOMAIN d[i].params : d[i].params[j].name = d[i].params[k].name => j = k
    \* The engine refuses a variable of the name of a component.
    /\ \A d, e \in Declarations : \A i \in DOMAIN d, j \in DOMAIN e :
          IsProperty(d[i]) /\ IsProperty(e[j]) /\ d[i].name = e[j].name =>
              (ComponentType(d[i].type) <=> ComponentType(e[j].type))

VARIABLES base, source,          \* the class
          there, asset, saved,   \* the blueprint, and as it was compiled and saved last
          playing,
          job,                   \* the refresh that is under way
          fresh, touched         \* history

vars == <<base, source, there, asset, saved, playing, job, fresh, touched>>

NoEntries == [n \in {} |-> {}]
Empty == [graphs |-> NoEntries, events |-> NoEntries, overrides |-> {}, inputs |-> {},
          variables |-> NoEntries, order |-> <<>>, components |-> NoEntries,
          hasConstructor |-> FALSE]

\* UPEBlueprintAsset: members still to come, parameters read so far, what was
\* added, VariableIndexInTS, NeedSave.
Idle == [phase |-> "idle", todo |-> <<>>, params |-> <<>>, constructs |-> FALSE,
         functions |-> {}, overrides |-> {}, variables |-> {}, components |-> {},
         index |-> 0, needSave |-> FALSE]
Running == job.phase = "running"
Member == Head(job.todo)

With(f, n, v) == [x \in DOMAIN f \cup {n} |-> IF x = n THEN v ELSE f[x]]
Only(f, names) == [x \in DOMAIN f \cap names |-> f[x]]
OnRep(n) == "OnRep_" \o n

Init ==
    /\ base \in Bases
    /\ source \in Declarations
    /\ there = FALSE /\ asset = Empty /\ saved = Empty
    /\ playing = FALSE
    /\ job = Idle
    /\ fresh = FALSE /\ touched = FALSE

-----------------------------------------------------------------------------
(* Changes.  Work in progress is the asset with its job.  A change that is *)
(* checked (CanChangeCheck) gives up while the game plays: NeedSave is     *)
(* dropped and the call returns.                                           *)

Work == [asset |-> asset, job |-> job, stopped |-> FALSE]
Unchecked(w, differs, result) ==
    IF w.stopped \/ ~differs THEN w
    ELSE [w EXCEPT !.asset = result, !.job.needSave = TRUE]
Checked(w, differs, result) ==
    IF ~w.stopped /\ differs /\ playing
    THEN [w EXCEPT !.stopped = TRUE, !.job.needSave = FALSE]
    ELSE Unchecked(w, differs, result)
\* The check behind a change that has been made: the save is all it prevents.
CheckedAfter(w) == IF w.job.needSave /\ playing THEN [w EXCEPT !.job.needSave = FALSE] ELSE w

Becomes(w) == asset' = w.asset /\ job' = w.job
Done(w) == [w EXCEPT !.job.todo = Tail(@), !.job.params = <<>>]

-----------------------------------------------------------------------------
(* AddFunctionWithMetaData.                                                *)

\* What AddFunction makes of the declared flags.
Asked(m) ==
    LET given == m.flags \cup m.meta.flags
        clear == m.clear \ m.meta.flags
        set == (given \ clear) \ {"FUNC_Native"}
    IN  [set |-> IF set \cap NetMask # {} THEN set \cup {"FUNC_Net"} ELSE set, clear |-> clear]

\* A reference is an output unless it is marked as an input.
IsOutput(p) == p.pin.isRef /\ ~p.pin.isIn
Inputs(params) == Kept(params, {p \in Elements(params) : ~IsOutput(p)})
Outputs(params) ==
    LET outs == Kept(params, {p \in Elements(params) : IsOutput(p)})
    IN  [i \in DOMAIN outs |-> [outs[i] EXCEPT !.pin.isRef = FALSE]]
PinsOf(ins) == [i \in DOMAIN ins |-> ins[i].pin]
Named(outs) == {outs[i].name : i \in DOMAIN outs}
PinNamed(outs, n) == outs[CHOOSE i \in DOMAIN outs : outs[i].name = n].pin

NewFunction == [ins |-> <<>>, outs |-> NoEntries, flags |-> {}]

SetFlags(w, kind, n, asked) ==
    LET old == w.asset[kind][n].flags
        new == ((old \ NetMask) \cup asked.set) \ asked.clear
    IN  Checked(w, new # old, [w.asset EXCEPT ![kind][n].flags = new])

\* Mutant: parameters of other types are kept if there are as many.
SetInputs_CountOnly(w, kind, n, ins) ==
    Unchecked(w, Len(w.asset[kind][n].ins) # Len(ins), [w.asset EXCEPT ![kind][n].ins = ins])

\* The inputs are made anew if their number or their types differ; only a
\* difference of types is checked.
SetInputs(w, kind, n, ins) ==
    LET old == w.asset[kind][n].ins
        result == [w.asset EXCEPT ![kind][n].ins = ins]
    IN  IF Len(old) # Len(ins) THEN Unchecked(w, TRUE, result)
        ELSE Checked(w, PinsOf(old) # PinsOf(ins), result)

\* ReturnValue and the output parameters.  Pins that are no longer returned go
\* only if there is nothing, or a parameter, to return.  Each pin is made before
\* the check, so a refused one is made and those behind it are not.
Returned(old, m) == IF m.ret = Void THEN old ELSE With(old, "ReturnValue", ReturnPin(m))
Differing(old, m, outs) ==
    {i \in DOMAIN outs : \/ Returned(old, m) # old
                         \/ outs[i].name \notin DOMAIN old
                         \/ old[outs[i].name] # outs[i].pin}
Refused(old, m, outs) == playing /\ Differing(old, m, outs) # {}
Grown(old, m, outs) ==
    LET first == CHOOSE i \in Differing(old, m, outs) : \A j \in Differing(old, m, outs) : i <= j
        made == IF Refused(old, m, outs) THEN SubSeq(outs, 1, first) ELSE outs
    IN  [x \in DOMAIN Returned(old, m) \cup Named(made) |->
            IF x \in Named(made) THEN PinNamed(made, x) ELSE Returned(old, m)[x]]
SetOutputs(w, n, m, outs) ==
    LET old == w.asset.graphs[n].outs
        grown == Grown(old, m, outs)
        pruned == Only(grown, Named(outs) \cup {"ReturnValue"})
        put(o) == [w.asset EXCEPT !.graphs[n].outs = o]
        w1 == Unchecked(w, grown # old, put(grown))
    IN  IF m.ret = Void /\ outs = <<>> THEN Checked(w, DOMAIN old # {}, put(NoEntries))
        ELSE IF outs = <<>> THEN w1
        ELSE IF Refused(old, m, outs) /\ ~w.stopped
        THEN [w1 EXCEPT !.stopped = TRUE, !.job.needSave = FALSE]
        ELSE Checked(w1, pruned # grown, put(pruned))

Asks(w, set, n) == [w EXCEPT !.job[set] = IF w.stopped THEN @ ELSE @ \cup {n}]

\* A function of the base class becomes an event node, or a graph if it cannot.
Overrides(m) == m.name \in ParentEvents[base] \cup ParentFunctions[base]
HasEventGraph == base # "BlueprintFunctionLibrary"
AsEvent(m) == HasEventGraph /\ m.name \in ParentEvents[base] \ DOMAIN asset.graphs
\* An event is there when it has a node that is enabled, for the base class or for
\* any other: where there is only a disabled one, that one is enabled and nothing
\* else differs from making one. The class that was compiled last has no function
\* of the name then, for events leave the blueprint only before it is compiled.
AddOverrideEvent(m) ==
    LET new == m.name \notin asset.overrides
    IN  Asks(Checked(Work, new, [asset EXCEPT !.overrides = @ \cup {m.name}]), "overrides", m.name)
AddOverrideGraph(m) ==
    IF m.name \in job.functions THEN Work
    ELSE Asks(Checked(Work, m.name \notin DOMAIN asset.graphs,
                      [asset EXCEPT !.graphs = With(@, m.name, NewFunction)]),
              "functions", m.name)

\* An input of the project gets its node, which stays for good.
IsInput(m) == m.name \in AxisNames \cup ActionNames
AddInput(m) ==
    Checked(Work, HasEventGraph /\ m.name \notin asset.inputs, [asset EXCEPT !.inputs = @ \cup {m.name}])

\* Mutant: the graph of a function that became an event stays.
AddCustomEvent_Beside(m) ==
    LET n == m.name
        made == Checked(Work, n \notin DOMAIN asset.events,
                        [asset EXCEPT !.events = With(@, n, NewFunction)])
        flagged == SetFlags(Asks(made, "functions", n), "events", n, Asked(m))
    IN  IF ~HasEventGraph THEN Work
        ELSE IF made.stopped THEN made
        ELSE SetInputs(flagged, "events", n, Inputs(job.params))

\* A replicated function is a custom event, every other one a graph.
AddCustomEvent(m) ==
    LET n == m.name
        made == Checked(Work, n \notin DOMAIN asset.events,
                        [asset EXCEPT !.events = With(@, n, NewFunction),
                                      !.graphs = Only(@, DOMAIN @ \ {n})])
        flagged == SetFlags(Asks(made, "functions", n), "events", n, Asked(m))
    IN  IF ~HasEventGraph THEN Work
        ELSE IF made.stopped THEN made
        ELSE SetInputs(flagged, "events", n, Inputs(job.params))
AddGraph(m) ==
    LET n == m.name
        made == Checked(Work, n \notin DOMAIN asset.graphs,
                        [asset EXCEPT !.graphs = With(@, n, NewFunction),
                                      !.events = Only(@, DOMAIN @ \ {n})])
        flagged == SetFlags(Asks(made, "functions", n), "graphs", n, Asked(m))
        given == SetInputs(flagged, "graphs", n, Inputs(job.params))
    IN  IF n \in job.functions THEN Work
        ELSE IF made.stopped THEN made
        ELSE SetOutputs(given, n, m, Outputs(job.params))

AddFunction(m) ==
    IF Overrides(m) THEN (IF AsEvent(m) THEN AddOverrideEvent(m) ELSE AddOverrideGraph(m))
    ELSE IF IsInput(m) THEN AddInput(m)
    ELSE IF "FUNC_Net" \in Asked(m).set THEN AddCustomEvent(m)
    ELSE AddGraph(m)

\* The metadata is applied whether or not AddFunction gave up.
ApplyToFunction(w, m) ==
    LET kind == IF m.name \in DOMAIN w.asset.events THEN "events" ELSE "graphs"
        go == [w EXCEPT !.stopped = FALSE]
    IN  IF ~m.meta.there THEN w
        ELSE IF m.name \notin DOMAIN w.asset[kind] THEN CheckedAfter(go)
        ELSE CheckedAfter(Unchecked(go, ~(m.meta.flags \subseteq w.asset[kind][m.name].flags),
                                    [w.asset EXCEPT ![kind][m.name].flags = @ \cup m.meta.flags]))

-----------------------------------------------------------------------------
(* AddMemberVariableWithMetaData.                                          *)

IsComponent(pin) ==
    /\ base = "Actor"
    /\ pin.container = "None" /\ pin.category = "object" /\ pin.object \in Components

AddComponent(n, pin) ==
    LET add == n \notin DOMAIN asset.components
        differs == add \/ asset.components[n] # pin.object
    IN  Asks(Unchecked(Work, differs, [asset EXCEPT !.components = With(@, n, pin.object)]),
             "components", n)

\* The flags InFlags of a property, before and after AddMemberVariable adds its own.
InFlags(m) ==
    LET all == LocalFlags(m) \cup m.meta.flags
    IN  Widened(IF "EditInline" \in m.meta.keys THEN all \ {"CPF_DisableEditOnInstance"} ELSE all)
VariableFlags(m, pin) ==
    InFlags(m) \cup {"CPF_Edit", "CPF_BlueprintVisible"}
    \cup (IF pin.category = "object" /\ pin.object \in Actors THEN {"CPF_DisableEditOnTemplate"} ELSE {})

NetFlags == {"CPF_Net", "CPF_RepNotify"}
NewVariable(pin) == [pin |-> pin, flags |-> {}, condition |-> 0, notify |-> NoName, keys |-> {}]

\* A notification brings its graph with it, but only when the flags change.
SetNet(w, n, m) ==
    LET old == w.asset.variables[n].flags
        net == InFlags(m) \cap NetFlags
        notify == "CPF_RepNotify" \in net
        a == [w.asset EXCEPT !.variables[n].flags = (@ \ NetFlags) \cup net]
        result == IF notify
                  THEN [a EXCEPT !.variables[n].notify = OnRep(n),
                                 !.graphs = IF OnRep(n) \in DOMAIN @ THEN @
                                            ELSE With(@, OnRep(n), NewFunction)]
                  ELSE a
        differs == old \cap NetFlags # net
        w1 == Checked(w, differs, result)
    IN  IF differs /\ notify THEN Asks(w1, "functions", OnRep(n)) ELSE w1

\* Mutant: the condition of replication is set once and never changed.
SetVariable_OldCondition(w, n, m, pin) ==
    LET w1 == Checked(w, w.asset.variables[n].pin # pin,
                      [w.asset EXCEPT !.variables[n].pin = pin])
        w2 == SetNet(w1, n, m)
        flags == VariableFlags(m, pin)
    IN  Checked(w2, w2.asset.variables[n].flags # flags,
                [w2.asset EXCEPT !.variables[n].flags = flags])

\* Every condition is below COND_Max (BlueprintTypes), and none is passed over.
SetVariable(w, n, m, pin) ==
    LET w1 == Checked(w, w.asset.variables[n].pin # pin,
                      [w.asset EXCEPT !.variables[n].pin = pin])
        w2 == SetNet(w1, n, m)
        w3 == Checked(w2, w2.asset.variables[n].condition # m.condition,
                      [w2.asset EXCEPT !.variables[n].condition = m.condition])
        flags == VariableFlags(m, pin)
    IN  Checked(w3, w3.asset.variables[n].flags # flags,
                [w3.asset EXCEPT !.variables[n].flags = flags])

AddMemberVariable(m, pin) ==
    LET n == m.name
        made == Checked(Work, n \notin DOMAIN asset.variables,
                        [asset EXCEPT !.variables = With(@, n, NewVariable(pin)),
                                      !.order = Append(@, n)])
    IN  IF IsComponent(pin) THEN AddComponent(n, pin)
        ELSE IF made.stopped THEN made
        ELSE Asks(SetVariable(made, n, m, pin), "variables", n)

\* Mutant: the variable is copied to its place, not swapped.
Place_Copied(w, n) ==
    LET to == w.job.index + 1
        w1 == IF to \in DOMAIN w.asset.order
              THEN Unchecked(w, w.asset.order[to] # n, [w.asset EXCEPT !.order[to] = n]) ELSE w
    IN  [w1 EXCEPT !.job.index = @ + 1]

\* The variables are kept in the order of the source by a swap.
Place(w, n) ==
    LET order == w.asset.order
        at == CHOOSE i \in DOMAIN order : order[i] = n
        to == w.job.index + 1
        swapped == [w.asset EXCEPT !.order = [order EXCEPT ![at] = order[to], ![to] = n]]
        w1 == IF to \in DOMAIN order THEN Unchecked(w, at # to, swapped) ELSE w
    IN  [w1 EXCEPT !.job.index = @ + 1]

\* Mutant: metadata is applied without NeedSave.
ApplyToVariable_Unsaved(w, m) ==
    [w EXCEPT !.asset.variables[m.name].flags = @ \cup m.meta.flags,
              !.asset.variables[m.name].keys = m.meta.keys]

ApplyToVariable(w, m) ==
    LET v == w.asset.variables[m.name]
        notify == IF "CPF_RepNotify" \notin m.meta.flags THEN v.notify
                  ELSE IF m.meta.callback = NoName THEN OnRep(m.name) ELSE m.meta.callback
        result == [v EXCEPT !.flags = @ \cup m.meta.flags, !.keys = m.meta.keys, !.notify = notify]
        w1 == Unchecked(w, result # v, [w.asset EXCEPT !.variables[m.name] = result])
    IN  IF m.meta.there THEN CheckedAfter(w1) ELSE w1

\* What follows AddMemberVariable.
AddVariable(w, m) ==
    IF m.name \notin DOMAIN w.asset.variables THEN w ELSE ApplyToVariable(Place(w, m.name), m)

-----------------------------------------------------------------------------
(* The walk.                                                               *)

Counted == Kept(source, {m \in Elements(source) : Counts(base, m)})

\* LoadOrCreateWithMetaData.  A blueprint that is not there is not created while
\* the game plays.
Begin ==
    /\ job.phase = "idle"
    /\ ~(playing /\ ~there)
    /\ there' = TRUE
    /\ job' = [Idle EXCEPT !.phase = "running",
                           !.todo = Counted,
                           !.constructs = HasConstructor(Counted),
                           !.needSave = ~there]
    /\ UNCHANGED <<base, source, asset, saved, playing, fresh, touched>>

\* Nobody looks at the result: the first use of what is not there ends the editor.
BeginWithoutBlueprint ==
    /\ job.phase = "idle"
    /\ playing /\ ~there
    /\ playing' = FALSE
    /\ UNCHANGED <<base, source, there, asset, saved, job, fresh, touched>>

Step ==
    /\ Running
    /\ UNCHANGED <<base, source, there, saved, playing, fresh, touched>>

\* Constructor, overloads, and whatever has a type without a pin.
Fits(m) ==
    IF IsMethod(m) THEN m.name # "Constructor" /\ m.signatures = 1 ELSE Pin(m.type) # NoPin
Skip ==
    /\ Step /\ job.todo # <<>>
    /\ ~Fits(Member)
    /\ Becomes(Done(Work))

AddParameter ==
    /\ Step /\ job.todo # <<>>
    /\ IsMethod(Member) /\ Fits(Member)
    /\ Len(job.params) < Len(Member.params)
    /\ LET p == Member.params[Len(job.params) + 1]
       IN  IF Pin(p.type) = NoPin THEN Becomes(Done(Work))
           ELSE /\ job' = [job EXCEPT !.params = Append(@, [name |-> p.name, pin |-> Pin(p.type)])]
                /\ UNCHANGED asset

EmitFunction ==
    /\ Step /\ job.todo # <<>>
    /\ IsMethod(Member) /\ Fits(Member)
    /\ Len(job.params) = Len(Member.params)
    /\ IF Member.ret # Void /\ ReturnPin(Member) = NoPin THEN Becomes(Done(Work))
       ELSE Becomes(Done(ApplyToFunction(AddFunction(Member), Member)))

EmitProperty ==
    /\ Step /\ job.todo # <<>>
    /\ IsProperty(Member) /\ Fits(Member)
    /\ \E w \in {AddMemberVariable(Member, Pin(Member.type))} :
          Becomes(Done(AddVariable([w EXCEPT !.stopped = FALSE], Member)))

\* RemoveNotExistedComponent, ...MemberVariable and ...Function do nothing while
\* the game plays; Save compiles only what has changed.
Pruned ==
    [asset EXCEPT !.components = Only(@, job.components),
                  !.variables = Only(@, job.variables),
                  !.order = Kept(@, job.variables),
                  !.graphs = Only(@, job.functions),
                  !.events = Only(@, job.functions),
                  !.overrides = @ \cap job.overrides]
Finish ==
    LET left == IF playing THEN asset ELSE Pruned
        needSave == job.needSave \/ left # asset \/ asset.hasConstructor # job.constructs
        result == [left EXCEPT !.hasConstructor = job.constructs]
    IN  /\ Running /\ job.todo = <<>>
        /\ job' = Idle
        /\ asset' = IF ~needSave THEN asset ELSE IF playing THEN left ELSE result
        /\ saved' = IF needSave /\ ~playing THEN result ELSE saved
        /\ fresh' = ~playing
        /\ touched' = IF playing THEN asset # saved ELSE touched /\ ~needSave
        /\ UNCHANGED <<base, source, there, playing>>

-----------------------------------------------------------------------------
(* Between refreshes, for the script runs on the thread of the editor.     *)

Edit(d) ==
    /\ job.phase = "idle" /\ d # source
    /\ source' = d
    /\ fresh' = FALSE
    /\ UNCHANGED <<base, there, asset, saved, playing, job, touched>>

TogglePlay ==
    /\ job.phase = "idle"
    /\ playing' = ~playing
    /\ UNCHANGED <<base, source, there, asset, saved, job, fresh, touched>>

Next ==
    \/ Begin
    \/ BeginWithoutBlueprint
    \/ Skip
    \/ AddParameter
    \/ EmitFunction
    \/ EmitProperty
    \/ Finish
    \/ \E d \in Declarations : Edit(d)
    \/ TogglePlay

Spec == Init /\ [][Next]_vars

-----------------------------------------------------------------------------
(* What a refresh promises.                                                *)

MemberNames == UNION {{d[i].name : i \in DOMAIN d} : d \in Declarations}
Notifications == {OnRep(n) : n \in MemberNames}
ASSUME NameAssumption == \A n \in MemberNames : OnRep(n) # NoName

\* The variables are listed in their order, each once.
BlueprintOK(b) ==
    /\ DOMAIN b.graphs \subseteq MemberNames \cup Notifications
    /\ DOMAIN b.events \subseteq MemberNames /\ b.overrides \subseteq MemberNames
    /\ b.inputs \subseteq AxisNames \cup ActionNames
    /\ b.order \in Seq(MemberNames)
    /\ DOMAIN b.variables = Elements(b.order)
    /\ \A i, j \in DOMAIN b.order : b.order[i] = b.order[j] => i = j
    /\ DOMAIN b.components \subseteq MemberNames
    /\ \A n \in DOMAIN b.components : b.components[n] \in Components
    /\ b.hasConstructor \in BOOLEAN

TypeOK ==
    /\ base \in Bases /\ source \in Declarations
    /\ there \in BOOLEAN /\ playing \in BOOLEAN /\ fresh \in BOOLEAN /\ touched \in BOOLEAN
    /\ BlueprintOK(asset) /\ BlueprintOK(saved)
    /\ job.phase \in {"idle", "running"} /\ job.index \in 0 .. Len(source)
    /\ job.needSave \in BOOLEAN
    /\ job.phase = "idle" => job = Idle

Settled == job.phase = "idle" /\ fresh
Wanted == {source[i] : i \in {k \in DOMAIN source : Counts(base, source[k]) /\ Translates(source[k])}}
Methods == {m \in Wanted : IsMethod(m)}
IsValue(m) == ~IsComponent(Pin(m.type))
ValueNames ==
    LET ms == Kept(source, {m \in Wanted : IsProperty(m) /\ IsValue(m)})
    IN  [i \in DOMAIN ms |-> ms[i].name]

\* After a refresh outside a play session the blueprint has a place for every
\* method that can be translated, and one only; nothing is left of other methods
\* but the functions of notifications and the nodes of inputs; and it has the
\* properties of the class, in the order of the source, whatever refreshes,
\* refusals and edits came before (onBlueprintTypeAddOrChange).
RefreshMatchesClass ==
    Settled =>
        LET named == {m.name : m \in Methods}
            nodes == {m.name : m \in {k \in Methods : ~Overrides(k) /\ IsInput(k)}}
            lost == {m.name : m \in {k \in Methods : ~HasEventGraph /\ "FUNC_Net" \in Asked(k).set}}
            functions == DOMAIN asset.graphs \cup DOMAIN asset.events \cup asset.overrides
        IN  /\ named \ (nodes \cup lost) \subseteq functions
            /\ functions \subseteq named \cup {OnRep(n) : n \in DOMAIN asset.variables}
            /\ HasEventGraph => nodes \subseteq asset.inputs
            /\ DOMAIN asset.graphs \cap (DOMAIN asset.events \cup asset.overrides) = {}
            /\ asset.order = ValueNames
            /\ DOMAIN asset.components = {m.name : m \in {k \in Wanted : IsProperty(k) /\ ~IsValue(k)}}

\* The functions have the parameters of their own method, in its order: none of
\* a method that was given up half way, none of an earlier text; and a function
\* is replicated exactly as its method says now (AddFunction).
Signature(m) ==
    [i \in DOMAIN m.params |-> [name |-> m.params[i].name, pin |-> Pin(m.params[i].type)]]
SignaturesFollow ==
    Settled =>
        \A m \in Methods :
            LET ins == PinsOf(Inputs(Signature(m)))
                outs == Outputs(Signature(m))
                net == (m.flags \cup m.meta.flags) \cap (NetMask \ {"FUNC_Net"})
                own == ~Overrides(m) /\ \A n \in DOMAIN asset.variables : m.name # OnRep(n)
            IN  /\ own /\ m.name \in DOMAIN asset.graphs =>
                      LET g == asset.graphs[m.name]
                      IN  /\ PinsOf(g.ins) = ins
                          /\ \A i \in DOMAIN outs :
                                /\ outs[i].name \in DOMAIN g.outs
                                /\ g.outs[outs[i].name] = outs[i].pin
                          /\ m.ret # Void => g.outs["ReturnValue"] = ReturnPin(m)
                          /\ g.flags \cap NetMask = {}
                /\ own /\ m.name \in DOMAIN asset.events =>
                      /\ PinsOf(asset.events[m.name].ins) = ins
                      /\ asset.events[m.name].flags \cap (NetMask \ {"FUNC_Net"}) = net \ Asked(m).clear

\* A variable has the type and the flags its property asks for, apart from those
\* that every variable gets, and no flag of an earlier text: unless CPF_RepSkip is
\* among them or a comment combines flags of the upper word (AddMemberVariable).
Common == {"CPF_Edit", "CPF_BlueprintVisible", "CPF_DisableEditOnTemplate",
           "CPF_DisableEditOnInstance"}
Asking(m) == (Elements(m.comment) \cap CommentNames) \cup m.flags \cup m.meta.flags
             \cup (IF m.condition # 0 THEN {"CPF_Net"} ELSE {})
Wordy(m) == "CPF_RepSkip" \in Asking(m) \/ Len(m.comment) > 1
VariablesFollow ==
    Settled =>
        \A m \in Wanted :
            IsProperty(m) /\ IsValue(m) /\ ~Wordy(m) =>
                LET v == asset.variables[m.name]
                IN  /\ v.pin = Pin(m.type)
                    /\ v.flags \ Common = Asking(m) \ Common
                    /\ v.condition = m.condition
                    /\ v.keys = m.meta.keys
                    /\ "CPF_RepNotify" \in v.flags => v.notify # NoName

\* No notification has the name of a replicated method or of an event of the base
\* class, and no output the name of what is returned.
NotificationsApart ==
    \A d \in Declarations : \A i \in DOMAIN d : IsProperty(d[i]) =>
        /\ \A e \in Declarations : \A j \in DOMAIN e :
              IsMethod(e[j]) /\ "FUNC_Net" \in Asked(e[j]).set => e[j].name # OnRep(d[i].name)
        /\ \A b \in Bases : OnRep(d[i].name) \notin ParentEvents[b]
ReturnsApart ==
    \A d \in Declarations : \A i \in DOMAIN d : IsMethod(d[i]) /\ d[i].ret # Void =>
        \A p \in Elements(Signature(d[i])) : IsOutput(p) => p.name # "ReturnValue"

\* A blueprint that no play session has touched is compiled and saved as it is:
\* no change escapes NeedSave (Save).
SavedIsCurrent == Settled /\ ~touched => saved = asset

\* uelazyload.js:575: "Not replicated. For non replicated properties in
\* replicated structs"
NotReplicatedIsQuiet ==
    Settled =>
        \A m \in Wanted :
            IsProperty(m) /\ IsValue(m) /\ Asking(m) \cap NetFlags = {} =>
                asset.variables[m.name].flags \cap NetFlags = {}
=============================================================================
