------------------------ MODULE BlueprintRefresh_proofs ------------------------
(***************************************************************************)
(* What a refresh of a blueprint promises, for every class, base and       *)
(* project: TypeOK, VariablesFollow, RefreshMatchesClass, SignaturesFollow.*)
(*                                                                         *)
(* The refresh walks over the members of the class.  Seen holds those it   *)
(* has dealt with, and the invariants say of them what the properties say  *)
(* of the whole class: the variables of the properties in Seen come first, *)
(* in their order, as they are asked for (Valued); a method in Seen has    *)
(* its place and its signature (Given); one place only (ApartInv).  Names  *)
(* that are unique keep later members from disturbing earlier ones.  At    *)
(* the end Seen is the class, and what is not in the job is removed.       *)
(***************************************************************************)
EXTENDS BlueprintEmit_proofs

-----------------------------------------------------------------------------
(* The walk over the members.                                              *)

Members == MethodDeclaration \cup PropertyDeclaration
Walked == Len(Counted) - Len(job.todo)

\* A name some text of the class has for a property that is not a component.
ValueName(n) ==
    \E d \in Declarations : \E i \in DOMAIN d :
        /\ IsProperty(d[i]) /\ d[i].name = n
        /\ Pin(d[i].type) # NoPin /\ ~IsComponent(Pin(d[i].type))

Walking ==
    /\ IsJob(job) /\ job.constructs \in BOOLEAN
    /\ job.todo \in Seq(Members) /\ Len(job.todo) <= Len(Counted)
    /\ \A i \in 1 .. Len(job.todo) : job.todo[i] = Counted[Walked + i]
    /\ job.index \in Nat /\ job.index <= Walked
ShapeInv ==
    /\ base \in Bases /\ source \in Declarations
    /\ there \in BOOLEAN /\ playing \in BOOLEAN /\ fresh \in BOOLEAN /\ touched \in BOOLEAN
    /\ BlueprintOK(asset) /\ BlueprintOK(saved) /\ Shaped(asset)
    /\ \A n \in DOMAIN asset.variables : Notified(asset.variables[n]) /\ ValueName(n)
    /\ job.phase \in {"idle", "running"} /\ (job.phase = "idle" => job = Idle)
    /\ Running => Walking

LEMMA CountedIs ==
    ASSUME source \in Declarations
    PROVE  /\ source \in Seq(Members) /\ Counted \in Seq(Members)
           /\ Len(Counted) \in Nat /\ Len(Counted) <= Len(source) /\ Len(source) \in Nat
           /\ DOMAIN Counted = 1 .. Len(Counted)
           /\ Elements(Counted) = {m \in Elements(source) : Counts(base, m)}
  <1>1. source \in Seq(Members)
    BY ClassAssumption DEF Members
  <1> DEFINE S == {m \in Elements(source) : Counts(base, m)}
  <1>2. Counted = Kept(source, S)
    BY DEF Counted
  <1>3. S \subseteq Elements(source)
    OBVIOUS
  <1> HIDE DEF S
  <1>4. /\ Counted \in Seq(Members) /\ Len(Counted) <= Len(source)
        /\ Elements(Counted) = Elements(source) \cap S
    BY <1>1, <1>2, KeptMembers
  <1> QED
    BY <1>1, <1>3, <1>4 DEF S

\* The member that is next.
LEMMA MemberIs ==
    ASSUME source \in Declarations, Walking, job.todo # <<>>
    PROVE  /\ Walked + 1 \in DOMAIN Counted /\ Member = Counted[Walked + 1]
           /\ Member \in Members /\ Member \in Elements(source) /\ Counts(base, Member)
           /\ Member.name \in MemberNames /\ Walked \in Nat
           /\ Len(job.todo) \in Nat /\ Len(job.todo) >= 1
  <1>1. /\ source \in Seq(Members) /\ Counted \in Seq(Members) /\ Len(Counted) \in Nat
        /\ DOMAIN Counted = 1 .. Len(Counted)
        /\ Elements(Counted) = {m \in Elements(source) : Counts(base, m)}
    BY CountedIs
  <1>2. Len(job.todo) \in Nat /\ Len(job.todo) >= 1 /\ Member = job.todo[1]
    BY DEF Walking, Member
  <1>3. Walked + 1 \in DOMAIN Counted /\ Member = Counted[Walked + 1] /\ Walked \in Nat
    <2> DEFINE t == job.todo
               l == Len(t)
               c == Len(Counted)
    <2>1. /\ l \in Nat /\ l >= 1 /\ l <= c /\ c \in Nat /\ Walked = c - l
          /\ \A i \in 1 .. l : t[i] = Counted[Walked + i]
      BY <1>1, <1>2 DEF Walking, Walked
    <2>2. t[1] = Member
      BY <1>2
    <2> HIDE DEF t, l, c
    <2>3. 1 \in 1 .. l /\ Walked \in Nat /\ Walked + 1 \in 1 .. c
      BY <2>1
    <2>4. Member = Counted[Walked + 1]
      BY <2>1, <2>2, <2>3
    <2> QED
      BY <1>1, <2>3, <2>4 DEF c
  <1>4. Member \in Elements(Counted) /\ Member \in Members
    BY <1>1, <1>3 DEF Elements
  <1>5. Member.name \in MemberNames
    <2>1. PICK i \in DOMAIN source : Member = source[i]
      BY <1>1, <1>4 DEF Elements
    <2>2. Member.name \in {source[j].name : j \in DOMAIN source}
      BY <2>1
    <2> HIDE DEF Member
    <2> QED
      BY <2>2 DEF MemberNames
  <1> QED
    BY <1>1, <1>2, <1>3, <1>4, <1>5

LEMMA WalkStep ==
    ASSUME source \in Declarations, Walking, job.todo # <<>>,
           NEW w, IsWork(w), w.job.todo = job.todo, w.job.constructs = job.constructs,
           w.job.index \in {job.index, job.index + 1}, Becomes(Done(w)), UNCHANGED <<base, source>>
    PROVE  /\ Walking' /\ Running' /\ asset' = w.asset /\ job'.params = <<>>
           /\ Walked' = Walked + 1 /\ Counted' = Counted /\ job'.index = w.job.index
           /\ job'.functions = w.job.functions /\ job'.overrides = w.job.overrides
           /\ job'.variables = w.job.variables /\ job'.components = w.job.components
  <1> DEFINE d == Done(w)
  <1>1. d = [w EXCEPT !.job = [w.job EXCEPT !.todo = Tail(w.job.todo), !.params = <<>>]]
    BY DEF Done, IsWork, IsJob
  <1>2. /\ IsJob(d.job) /\ d.job.todo = Tail(job.todo) /\ d.job.params = <<>>
        /\ d.job.constructs = job.constructs /\ d.job.index = w.job.index
        /\ d.job.functions = w.job.functions /\ d.job.overrides = w.job.overrides
        /\ d.job.variables = w.job.variables /\ d.job.components = w.job.components
        /\ d.asset = w.asset
    <2> HIDE DEF d
    <2> QED
      BY <1>1 DEF IsWork, IsJob
  <1>3. job' = d.job /\ asset' = d.asset
    BY DEF Becomes
  <1> HIDE DEF d
  <1>4. Counted' = Counted
    BY DEF Counted
  <1>5. /\ Len(job.todo) \in Nat /\ Len(job.todo) >= 1 /\ Walked \in Nat
        /\ Len(Counted) \in Nat /\ job.todo \in Seq(Members)
    BY MemberIs, CountedIs DEF Walking
  <1>6. /\ job'.todo \in Seq(Members) /\ Len(job'.todo) = Len(job.todo) - 1
        /\ \A i \in 1 .. Len(job.todo) - 1 : job'.todo[i] = job.todo[i + 1]
    <2> DEFINE t == job.todo
               u == job'.todo
    <2>1. u = Tail(t) /\ t \in Seq(Members) /\ Len(t) >= 1
      BY <1>2, <1>3, <1>5
    <2> HIDE DEF t, u
    <2>2. /\ u \in Seq(Members) /\ Len(u) = Len(t) - 1
          /\ \A i \in 1 .. Len(t) - 1 : u[i] = t[i + 1]
      BY <2>1
    <2> QED
      BY <2>2 DEF t, u
  <1>7. Walked' = Walked + 1
    BY <1>4, <1>5, <1>6 DEF Walked
  <1>8. \A i \in 1 .. Len(job'.todo) : job'.todo[i] = Counted[Walked + 1 + i]
    <2>1. ASSUME NEW i \in 1 .. Len(job'.todo) PROVE job'.todo[i] = Counted[Walked + 1 + i]
      <3>1. i + 1 \in 1 .. Len(job.todo) /\ job'.todo[i] = job.todo[i + 1]
        BY <1>5, <1>6
      <3>2. job.todo[i + 1] = Counted[Walked + (i + 1)]
        BY <3>1 DEF Walking
      <3>3. Walked + (i + 1) = Walked + 1 + i
        BY <1>5
      <3> QED
        BY <3>1, <3>2, <3>3
    <2> QED
      BY <2>1
  <1>9. /\ IsJob(job') /\ job'.constructs \in BOOLEAN
        /\ job'.index \in Nat /\ job'.index <= Walked + 1
    BY <1>2, <1>3, <1>5 DEF Walking
  <1>10. Walking'
    BY <1>4, <1>5, <1>6, <1>7, <1>8, <1>9 DEF Walking
  <1>11. Running'
    BY <1>9 DEF IsJob, Running
  <1> QED
    BY <1>2, <1>3, <1>4, <1>7, <1>10, <1>11

\* What is done about a member leaves the blueprint as it should be.
LEMMA MemberShape ==
    ASSUME ShapeInv, Step, job.todo # <<>>,
           NEW w, IsWork(w), w.job.todo = job.todo, w.job.constructs = job.constructs,
           w.job.index \in {job.index, job.index + 1}, Becomes(Done(w)),
           Shaped(w.asset), BlueprintOK(w.asset),
           \A n \in DOMAIN w.asset.variables : Notified(w.asset.variables[n]) /\ ValueName(n)
    PROVE  ShapeInv'
  <1>1. source \in Declarations /\ Walking /\ UNCHANGED <<base, source>>
    BY DEF ShapeInv, Step
  <1>2. Walking' /\ Running' /\ asset' = w.asset
    BY <1>1, WalkStep
  <1>3. BlueprintOK(asset') /\ Shaped(asset')
    BY <1>2
  <1>4. BlueprintOK(saved') /\ UNCHANGED <<there, playing, fresh, touched>>
    BY DEF ShapeInv, Step
  <1>5. \A n \in DOMAIN asset'.variables : Notified(asset'.variables[n]) /\ ValueName(n)'
    BY <1>1, <1>2 DEF ValueName, IsComponent
  <1> QED
    BY <1>1, <1>2, <1>3, <1>4, <1>5 DEF ShapeInv, Running

LEMMA FunctionShape ==
    ASSUME Shaped(asset), BlueprintOK(asset), NEW m, m.name \in MemberNames, NEW w, Kind(w, m)
    PROVE  Shaped(w.asset) /\ BlueprintOK(w.asset) /\ w.asset.variables = asset.variables
  <1> DEFINE n == m.name
             b == w.asset
  <1>1. /\ FunctionFrame(asset, b, n) /\ (n \in b.inputs => n \in asset.inputs \/ IsInput(m))
    BY DEF Kind, Grows
  <1> HIDE DEF b
  <1>2. /\ Shaped(b) /\ b.variables = asset.variables /\ b.order = asset.order
        /\ b.components = asset.components /\ b.hasConstructor = asset.hasConstructor
    BY <1>1 DEF FunctionFrame
  <1>3. /\ DOMAIN b.graphs \subseteq MemberNames \cup Notifications
        /\ DOMAIN b.events \subseteq MemberNames
    <2>1. /\ \A x \in DOMAIN b.graphs : x = n \/ x \in DOMAIN asset.graphs
          /\ \A x \in DOMAIN b.events : x = n \/ x \in DOMAIN asset.events
      BY <1>1 DEF FunctionFrame, SameBut
    <2> QED
      BY <2>1 DEF BlueprintOK
  <1>4. b.overrides \subseteq MemberNames /\ b.inputs \subseteq AxisNames \cup ActionNames
    BY <1>1 DEF FunctionFrame, BlueprintOK, IsInput
  <1>5. BlueprintOK(b)
    BY <1>2, <1>3, <1>4 DEF BlueprintOK
  <1> QED
    BY <1>2, <1>5 DEF b

LEMMA SkipShape ==
    ASSUME ShapeInv, Step, job.todo # <<>>, Becomes(Done(Work))
    PROVE  ShapeInv'
  <1>1. IsWork(Work) /\ Work.asset = asset /\ Work.job = job
    BY WorkIs DEF ShapeInv, Step, Walking, Grows
  <1> HIDE DEF Work
  <1> QED
    BY <1>1, MemberShape DEF ShapeInv

LEMMA FunctionStepShape ==
    ASSUME ShapeInv, EmitFunction
    PROVE  ShapeInv'
  <1> DEFINE m == Member
             w == ApplyToFunction(AddFunction(m), m)
  <1>1. CASE Becomes(Done(Work))
    BY <1>1, SkipShape DEF EmitFunction
  <1>2. CASE Becomes(Done(w))
    <2>1. Running /\ IsJob(job) /\ Shaped(asset) /\ BlueprintOK(asset) /\ Step /\ job.todo # <<>>
      BY DEF ShapeInv, EmitFunction, Step, Walking
    <2>2. m.name \in MemberNames
      BY <2>1, MemberIs DEF ShapeInv
    <2> HIDE DEF m
    <2>3. Kind(w, m)
      BY <2>1, FunctionWork
    <2> HIDE DEF w
    <2>4. Shaped(w.asset) /\ BlueprintOK(w.asset) /\ w.asset.variables = asset.variables
      BY <2>1, <2>2, <2>3, FunctionShape
    <2>5. /\ IsWork(w) /\ w.job.todo = job.todo /\ w.job.constructs = job.constructs
          /\ w.job.index = job.index
      BY <2>3 DEF Kind, Grows, JobFrame
    <2>6. \A n \in DOMAIN w.asset.variables : Notified(w.asset.variables[n]) /\ ValueName(n)
      BY <2>4 DEF ShapeInv
    <2> QED
      BY <1>2, <2>1, <2>4, <2>5, <2>6, MemberShape
  <1> QED
    BY <1>1, <1>2 DEF EmitFunction

\* Whether a name is that of a component does not change.
LEMMA NamesDiffer ==
    ASSUME NEW m \in Elements(source), source \in Declarations, IsProperty(m), ~IsValue(m),
           NEW n, ValueName(n)
    PROVE  n # m.name
  <1>1. PICK i \in DOMAIN source : m = source[i]
    BY DEF Elements
  <1>2. PICK e \in Declarations : \E j \in DOMAIN e :
            /\ IsProperty(e[j]) /\ e[j].name = n
            /\ Pin(e[j].type) # NoPin /\ ~IsComponent(Pin(e[j].type))
    BY DEF ValueName
  <1>3. PICK j \in DOMAIN e : /\ IsProperty(e[j]) /\ e[j].name = n
                              /\ Pin(e[j].type) # NoPin /\ ~IsComponent(Pin(e[j].type))
    BY <1>2
  <1>4. m.name = n => (ComponentType(m.type) <=> ComponentType(e[j].type))
    BY <1>1, <1>3, ClassAssumption
  <1>5. IsComponent(Pin(m.type)) /\ base = "Actor"
    BY DEF IsValue, IsComponent
  <1>6. ~ComponentType(e[j].type)
    BY <1>3, <1>5 DEF ComponentType, IsComponent
  <1>7. Pin(m.type) # NoPin => ComponentType(m.type)
    BY <1>5 DEF ComponentType, IsComponent
  <1>8. ASSUME Pin(m.type) = NoPin PROVE FALSE
    BY <1>5, <1>8 DEF NoPin, IsComponent
  <1> QED
    BY <1>4, <1>6, <1>7, <1>8

LEMMA ValueShape ==
    ASSUME Shaped(asset), BlueprintOK(asset), NEW m, m.name \in MemberNames,
           NEW w, Stage(w, m.name, MemberNames)
    PROVE  Shaped(w.asset) /\ BlueprintOK(w.asset)
  <1> DEFINE n == m.name
             b == w.asset
  <1>1. /\ VariableFrame(asset, b, n) /\ Listed(b, MemberNames)
        /\ b.components = asset.components
    BY DEF Stage
  <1> HIDE DEF b
  <1>2. OnRep(n) \in Notifications
    BY DEF Notifications
  <1>3. BlueprintOK(b)
    BY <1>1, <1>2 DEF VariableFrame, Listed, Distinct, BlueprintOK
  <1> QED
    BY <1>1, <1>3 DEF VariableFrame, b

LEMMA PropertyStepShape ==
    ASSUME ShapeInv, EmitProperty
    PROVE  ShapeInv'
  <1> DEFINE m == Member
             w == PropertyWork(m)
  <1>1. /\ Running /\ IsJob(job) /\ Shaped(asset) /\ BlueprintOK(asset) /\ Step /\ job.todo # <<>>
        /\ source \in Declarations /\ Walking /\ job.index \in Nat
    BY DEF ShapeInv, EmitProperty, Step, Walking
  <1>2. Becomes(Done(w)) /\ IsProperty(m) /\ Pin(m.type) # NoPin
    BY DEF EmitProperty, PropertyWork, Fits, IsMethod, IsProperty
  <1>3. m.name \in MemberNames /\ m \in Elements(source)
    BY <1>1, MemberIs
  <1>4. \A n \in DOMAIN asset.variables : Notified(asset.variables[n]) /\ ValueName(n)
    BY DEF ShapeInv
  <1> HIDE DEF m
  <1>5. CASE IsValue(m)
    <2>1. Listed(asset, MemberNames)
      BY <1>1 DEF BlueprintOK, Listed, Distinct
    <2>2. OnRep(m.name) # NoName
      BY <1>3, NameAssumption
    <2>3. Stage(w, m.name, MemberNames) /\ w.job.index \in {job.index, job.index + 1}
      BY <1>1, <1>3, <1>4, <1>5, <2>1, <2>2, ValueWork
    <2> HIDE DEF w
    <2>4. Shaped(w.asset) /\ BlueprintOK(w.asset)
      BY <1>1, <1>3, <2>3, ValueShape
    <2>5. ValueName(m.name)
      <3>1. PICK i \in DOMAIN source : m = source[i]
        BY <1>3 DEF Elements
      <3> QED
        BY <1>1, <1>2, <1>5, <3>1 DEF ValueName, IsValue
    <2>6. ASSUME NEW n \in DOMAIN w.asset.variables
          PROVE  Notified(w.asset.variables[n]) /\ ValueName(n)
      <3>1. CASE n = m.name
        BY <2>3, <2>5, <2>6, <3>1 DEF Stage
      <3>2. CASE n # m.name
        BY <1>4, <2>3, <2>6, <3>2 DEF Stage, VariableFrame, SameBut
      <3> QED
        BY <3>1, <3>2
    <2>7. IsWork(w) /\ w.job.todo = job.todo /\ w.job.constructs = job.constructs
      BY <2>3 DEF Stage, VariableJob
    <2> QED
      BY <1>1, <1>2, <2>3, <2>4, <2>6, <2>7, MemberShape
  <1>6. CASE ~IsValue(m)
    <2>1. m.name \notin DOMAIN asset.variables
      BY <1>1, <1>2, <1>3, <1>4, <1>6, NamesDiffer
    <2>2. /\ IsWork(w) /\ Shaped(w.asset)
          /\ w.asset.graphs = asset.graphs /\ w.asset.events = asset.events
          /\ w.asset.overrides = asset.overrides /\ w.asset.inputs = asset.inputs
          /\ w.asset.variables = asset.variables /\ w.asset.order = asset.order
          /\ w.asset.hasConstructor = asset.hasConstructor
          /\ DOMAIN w.asset.components = DOMAIN asset.components \cup {m.name}
          /\ w.asset.components[m.name] = Pin(m.type).object
          /\ \A x \in DOMAIN asset.components \ {m.name} :
                w.asset.components[x] = asset.components[x]
          /\ SameJob([w.job EXCEPT !.components = job.components], job)
      BY <1>1, <1>6, <2>1, ComponentWork
    <2> HIDE DEF w
    <2>3. /\ w.job.todo = job.todo /\ w.job.constructs = job.constructs
          /\ w.job.index = job.index
      BY <2>2 DEF IsWork, IsJob, SameJob
    <2>4. Pin(m.type).object \in Components
      BY <1>6 DEF IsValue, IsComponent
    <2>5. BlueprintOK(w.asset)
      BY <1>1, <1>3, <2>2, <2>4 DEF BlueprintOK
    <2> QED
      BY <1>1, <1>2, <1>4, <2>2, <2>3, <2>5, MemberShape
  <1> QED
    BY <1>5, <1>6

LEMMA EmptyIs == Shaped(Empty) /\ BlueprintOK(Empty) /\ Empty.variables = NoEntries
  <1>1. IsMap(NoEntries) /\ DOMAIN NoEntries = {}
    BY DEF IsMap, NoEntries
  <1>2. /\ Empty.graphs = NoEntries /\ Empty.events = NoEntries /\ Empty.variables = NoEntries
        /\ Empty.components = NoEntries /\ Empty.overrides = {} /\ Empty.inputs = {}
        /\ Empty.order = <<>> /\ Empty.hasConstructor = FALSE
    BY DEF Empty
  <1>3. Functions(NoEntries) /\ Variables(NoEntries)
    BY <1>1 DEF Functions, Variables
  <1>4. Shaped(Empty)
    <2>1. Empty \in [graphs : {Empty.graphs}, events : {Empty.events},
                     overrides : {Empty.overrides}, inputs : {Empty.inputs},
                     variables : {Empty.variables}, order : {Empty.order},
                     components : {Empty.components}, hasConstructor : {Empty.hasConstructor}]
      <3> HIDE DEF NoEntries
      <3> QED
        BY DEF Empty
    <2> QED
      BY <1>1, <1>2, <1>3, <2>1 DEF Shaped
  <1>5. <<>> \in Seq(MemberNames) /\ Elements(<<>>) = {} /\ DOMAIN <<>> = {}
    BY DEF Elements
  <1>6. BlueprintOK(Empty)
    BY <1>1, <1>2, <1>5 DEF BlueprintOK
  <1> QED
    BY <1>2, <1>4, <1>6

LEMMA InitShape == Init => ShapeInv
  <1> SUFFICES ASSUME Init PROVE ShapeInv
    OBVIOUS
  <1>1. asset = Empty /\ saved = Empty /\ job = Idle /\ base \in Bases /\ source \in Declarations
    BY DEF Init
  <1>2. DOMAIN asset.variables = {}
    BY <1>1, EmptyIs DEF NoEntries
  <1>3. job.phase = "idle"
    BY <1>1 DEF Idle
  <1> QED
    BY <1>1, <1>2, <1>3, EmptyIs DEF Init, ShapeInv, Running

LEMMA ParameterShape ==
    ASSUME ShapeInv, AddParameter
    PROVE  ShapeInv'
  <1>1. CASE Becomes(Done(Work))
    BY <1>1, SkipShape DEF AddParameter
  <1>2. CASE /\ UNCHANGED asset
             /\ \E x : job' = [job EXCEPT !.params = x]
    <2>1. PICK x : job' = [job EXCEPT !.params = x]
      BY <1>2
    <2>2. /\ IsJob(job') /\ job'.todo = job.todo /\ job'.constructs = job.constructs
          /\ job'.index = job.index /\ job'.phase = "running"
      BY <2>1 DEF ShapeInv, AddParameter, Step, Walking, IsJob
    <2>3. UNCHANGED <<base, source, there, saved, playing, fresh, touched>>
      BY DEF AddParameter, Step
    <2>4. Counted' = Counted /\ Walked' = Walked
      BY <2>2, <2>3 DEF Counted, Walked
    <2>5. Walking'
      BY <2>2, <2>4 DEF ShapeInv, AddParameter, Step, Walking
    <2>6. \A n \in DOMAIN asset'.variables : Notified(asset'.variables[n]) /\ ValueName(n)'
      BY <1>2, <2>3 DEF ShapeInv, ValueName, IsComponent
    <2>7. BlueprintOK(asset') /\ Shaped(asset') /\ BlueprintOK(saved')
      BY <1>2, <2>3 DEF ShapeInv
    <2> QED
      BY <2>2, <2>3, <2>5, <2>6, <2>7 DEF ShapeInv, Running
  <1> QED
    BY <1>1, <1>2 DEF AddParameter

LEMMA BeginShape ==
    ASSUME ShapeInv, Begin
    PROVE  ShapeInv'
  <1>1. /\ job' = [Idle EXCEPT !.phase = "running", !.todo = Counted,
                               !.constructs = HasConstructor(Counted), !.needSave = ~there]
        /\ UNCHANGED <<base, source, asset, saved, playing, fresh, touched>> /\ there' = TRUE
    BY DEF Begin
  <1>2. HasConstructor(Counted) \in BOOLEAN /\ (~there) \in BOOLEAN
    BY DEF HasConstructor
  <1> DEFINE c == HasConstructor(Counted)
             s == ~there
             t == Counted
  <1>3. t = Counted /\ c \in BOOLEAN /\ s \in BOOLEAN
    BY <1>2
  <1> HIDE DEF c, s, t
  <1>4. /\ IsJob(job') /\ job'.todo = Counted /\ job'.constructs \in BOOLEAN /\ job'.index = 0
        /\ job'.phase = "running"
    <2>1. job' = [Idle EXCEPT !.phase = "running", !.todo = t, !.constructs = c, !.needSave = s]
      BY <1>1 DEF c, s, t
    <2> QED
      BY <1>3, <2>1 DEF Idle, IsJob
  <1>5. /\ Counted \in Seq(Members) /\ Len(Counted) \in Nat
    BY CountedIs DEF ShapeInv
  <1>6. Counted' = Counted /\ Walked' = 0
    BY <1>1, <1>4, <1>5 DEF Counted, Walked
  <1>7. \A i \in 1 .. Len(job'.todo) : job'.todo[i] = Counted[0 + i]
    BY <1>4, <1>5
  <1>8. Walking'
    BY <1>4, <1>5, <1>6, <1>7 DEF Walking
  <1>9. \A n \in DOMAIN asset'.variables : Notified(asset'.variables[n]) /\ ValueName(n)'
    BY <1>1 DEF ShapeInv, ValueName, IsComponent
  <1>10. BlueprintOK(asset') /\ Shaped(asset') /\ BlueprintOK(saved')
    BY <1>1 DEF ShapeInv
  <1> QED
    BY <1>1, <1>4, <1>8, <1>9, <1>10 DEF ShapeInv, Running

LEMMA PrunedIs ==
    ASSUME Shaped(asset)
    PROVE  LET p == Pruned
           IN  /\ Shaped(p) /\ p.inputs = asset.inputs /\ p.hasConstructor = asset.hasConstructor
               /\ p.overrides = asset.overrides \cap job.overrides
               /\ p.order = Kept(asset.order, job.variables)
               /\ \A k \in FunctionKinds :
                     /\ DOMAIN p[k] = DOMAIN asset[k] \cap job.functions
                     /\ \A n \in DOMAIN p[k] : p[k][n] = asset[k][n]
               /\ DOMAIN p.variables = DOMAIN asset.variables \cap job.variables
               /\ \A n \in DOMAIN p.variables : p.variables[n] = asset.variables[n]
               /\ DOMAIN p.components = DOMAIN asset.components \cap job.components
               /\ \A n \in DOMAIN p.components : p.components[n] = asset.components[n]
  <1> DEFINE c == Only(asset.components, job.components)
             v == Only(asset.variables, job.variables)
             o == Kept(asset.order, job.variables)
             g == Only(asset.graphs, job.functions)
             e == Only(asset.events, job.functions)
             r == asset.overrides \cap job.overrides
             p == Pruned
  <1>1. /\ IsMap(c) /\ DOMAIN c = DOMAIN asset.components \cap job.components
        /\ \A n \in DOMAIN c : c[n] = asset.components[n]
    BY DEF Only, IsMap
  <1>2. /\ IsMap(v) /\ DOMAIN v = DOMAIN asset.variables \cap job.variables
        /\ \A n \in DOMAIN v : v[n] = asset.variables[n]
    BY DEF Only, IsMap
  <1>3. /\ IsMap(g) /\ DOMAIN g = DOMAIN asset.graphs \cap job.functions
        /\ \A n \in DOMAIN g : g[n] = asset.graphs[n]
    BY DEF Only, IsMap
  <1>4. /\ IsMap(e) /\ DOMAIN e = DOMAIN asset.events \cap job.functions
        /\ \A n \in DOMAIN e : e[n] = asset.events[n]
    BY DEF Only, IsMap
  <1>5. p = [asset EXCEPT !.components = c, !.variables = v, !.order = o, !.graphs = g,
                          !.events = e, !.overrides = r]
    BY DEF Pruned
  <1> HIDE DEF c, v, o, g, e, r, p
  <1>6. Variables(v) /\ Functions(g) /\ Functions(e)
    BY <1>2, <1>3, <1>4 DEF Variables, Functions, Shaped
  <1>7. /\ Shaped(p) /\ p.components = c /\ p.variables = v /\ p.order = o /\ p.graphs = g
        /\ p.events = e /\ p.overrides = r /\ p.inputs = asset.inputs
        /\ p.hasConstructor = asset.hasConstructor
    BY <1>1, <1>5, <1>6 DEF Shaped
  <1>8. p["graphs"] = g /\ p["events"] = e /\ asset["graphs"] = asset.graphs
        /\ asset["events"] = asset.events
    BY <1>7
  <1>9. \A k \in FunctionKinds :
            /\ DOMAIN p[k] = DOMAIN asset[k] \cap job.functions
            /\ \A n \in DOMAIN p[k] : p[k][n] = asset[k][n]
    BY <1>3, <1>4, <1>8 DEF FunctionKinds
  <1> QED
    BY <1>1, <1>2, <1>7, <1>9 DEF o, r, p

LEMMA PrunedOK ==
    ASSUME Shaped(asset), BlueprintOK(asset)
    PROVE  BlueprintOK(Pruned)
  <1> DEFINE p == Pruned
  <1>1. /\ p.inputs = asset.inputs /\ p.hasConstructor = asset.hasConstructor
        /\ p.overrides = asset.overrides \cap job.overrides
        /\ p.order = Kept(asset.order, job.variables)
        /\ DOMAIN p.graphs \subseteq DOMAIN asset.graphs
        /\ DOMAIN p.events \subseteq DOMAIN asset.events
        /\ DOMAIN p.variables = DOMAIN asset.variables \cap job.variables
        /\ DOMAIN p.components \subseteq DOMAIN asset.components
        /\ \A n \in DOMAIN p.components : p.components[n] = asset.components[n]
    BY PrunedIs DEF FunctionKinds
  <1> HIDE DEF p
  <1>2. asset.order \in Seq(MemberNames)
    BY DEF BlueprintOK
  <1>3. /\ p.order \in Seq(MemberNames)
        /\ Elements(p.order) = Elements(asset.order) \cap job.variables
    BY <1>1, <1>2, KeptMembers
  <1>4. ASSUME NEW i \in DOMAIN p.order, NEW j \in DOMAIN p.order, p.order[i] = p.order[j]
        PROVE  i = j
    <2>1. \A k, l \in DOMAIN asset.order :
              asset.order[k] = p.order[i] /\ asset.order[l] = p.order[j] => k = l
      BY <1>4 DEF BlueprintOK
    <2> QED
      BY <1>1, <1>2, <2>1, KeptApart
  <1> QED
    BY <1>1, <1>3, <1>4 DEF BlueprintOK, p

LEMMA ConstructedIs ==
    ASSUME NEW a, Shaped(a), BlueprintOK(a), NEW c \in BOOLEAN
    PROVE  LET b == [a EXCEPT !.hasConstructor = c]
           IN  /\ Shaped(b) /\ BlueprintOK(b)
               /\ b.graphs = a.graphs /\ b.events = a.events /\ b.overrides = a.overrides
               /\ b.inputs = a.inputs /\ b.variables = a.variables /\ b.order = a.order
               /\ b.components = a.components
  <1> DEFINE b == [a EXCEPT !.hasConstructor = c]
  <1>1. /\ Shaped(b) /\ b.hasConstructor = c
        /\ b.graphs = a.graphs /\ b.events = a.events /\ b.overrides = a.overrides
        /\ b.inputs = a.inputs /\ b.variables = a.variables /\ b.order = a.order
        /\ b.components = a.components
    BY DEF Shaped
  <1> HIDE DEF b
  <1>2. BlueprintOK(b)
    BY <1>1 DEF BlueprintOK
  <1> QED
    BY <1>1, <1>2 DEF b

LEMMA FinishShape ==
    ASSUME ShapeInv, Finish
    PROVE  ShapeInv'
  <1> DEFINE left == IF playing THEN asset ELSE Pruned
             needSave == job.needSave \/ left # asset \/ asset.hasConstructor # job.constructs
             result == [left EXCEPT !.hasConstructor = job.constructs]
  <1>1. /\ job' = Idle /\ asset' = (IF ~needSave THEN asset ELSE IF playing THEN left ELSE result)
        /\ saved' = (IF needSave /\ ~playing THEN result ELSE saved)
        /\ fresh' = ~playing
        /\ touched' = (IF playing THEN asset # saved ELSE touched /\ ~needSave)
        /\ UNCHANGED <<base, source, there, playing>>
    BY DEF Finish
  <1>2. /\ Shaped(asset) /\ BlueprintOK(asset) /\ BlueprintOK(saved) /\ job.constructs \in BOOLEAN
        /\ Running /\ touched \in BOOLEAN /\ playing \in BOOLEAN
    BY DEF ShapeInv, Finish, Walking
  <1>3. Shaped(left) /\ BlueprintOK(left)
    BY <1>2, PrunedIs, PrunedOK
  <1>4. \A n \in DOMAIN left.variables :
            n \in DOMAIN asset.variables /\ left.variables[n] = asset.variables[n]
    BY <1>2, PrunedIs
  <1> HIDE DEF left
  <1>5. Shaped(result) /\ BlueprintOK(result) /\ result.variables = left.variables
    BY <1>2, <1>3, ConstructedIs
  <1>6. needSave \in BOOLEAN /\ (touched /\ ~needSave) \in BOOLEAN /\ (asset # saved) \in BOOLEAN
        /\ (~playing) \in BOOLEAN
    OBVIOUS
  <1> HIDE DEF result, needSave
  <1>7. /\ Shaped(asset') /\ BlueprintOK(asset')
        /\ \A n \in DOMAIN asset'.variables :
              n \in DOMAIN asset.variables /\ asset'.variables[n] = asset.variables[n]
    BY <1>1, <1>2, <1>3, <1>4, <1>5
  <1>8. BlueprintOK(saved')
    BY <1>1, <1>2, <1>5
  <1>9. \A n \in DOMAIN asset'.variables : Notified(asset'.variables[n]) /\ ValueName(n)'
    BY <1>1, <1>7 DEF ShapeInv, ValueName, IsComponent
  <1>10. job'.phase = "idle" /\ job' = Idle
    BY <1>1 DEF Idle
  <1>11. fresh' \in BOOLEAN /\ touched' \in BOOLEAN
    <2>1. fresh' \in BOOLEAN
      BY <1>1, <1>6
    <2>2. touched' \in BOOLEAN
      BY <1>1, <1>6
    <2> QED
      BY <2>1, <2>2
  <1> QED
    BY <1>1, <1>7, <1>8, <1>9, <1>10, <1>11 DEF ShapeInv, Running

LEMMA ShapeInvariant == Spec => []ShapeInv
  <1>1. ASSUME ShapeInv, [Next]_vars PROVE ShapeInv'
    <2>1. CASE Begin
      BY <1>1, <2>1, BeginShape
    <2>2. CASE Skip
      BY <1>1, <2>2, SkipShape DEF Skip
    <2>3. CASE AddParameter
      BY <1>1, <2>3, ParameterShape
    <2>4. CASE EmitFunction
      BY <1>1, <2>4, FunctionStepShape
    <2>5. CASE EmitProperty
      BY <1>1, <2>5, PropertyStepShape
    <2>6. CASE Finish
      BY <1>1, <2>6, FinishShape
    <2>7. CASE BeginWithoutBlueprint \/ (\E d \in Declarations : Edit(d)) \/ TogglePlay
                  \/ UNCHANGED vars
      <3>1. /\ UNCHANGED <<base, asset, saved, job, there, touched>>
            /\ source' \in Declarations /\ playing' \in BOOLEAN /\ fresh' \in BOOLEAN
            /\ source' = source \/ job.phase = "idle"
        BY <1>1, <2>7 DEF BeginWithoutBlueprint, Edit, TogglePlay, vars, ShapeInv
      <3>2. \A n \in DOMAIN asset'.variables : Notified(asset'.variables[n]) /\ ValueName(n)'
        BY <1>1, <3>1 DEF ShapeInv, ValueName, IsComponent
      <3>3. BlueprintOK(asset') /\ BlueprintOK(saved') /\ Shaped(asset')
        BY <1>1, <3>1 DEF ShapeInv
      <3>4. Running' => Walking'
        BY <1>1, <3>1 DEF ShapeInv, Running, Walking, Walked, Counted
      <3> QED
        BY <1>1, <3>1, <3>2, <3>3, <3>4 DEF ShapeInv
    <2> QED
      BY <1>1, <2>1, <2>2, <2>3, <2>4, <2>5, <2>6, <2>7 DEF Next
  <1> QED
    BY <1>1, InitShape, PTL DEF Spec

\* Whatever texts the class has and whenever the game is played, a blueprint is
\* well formed: the variables are listed once each, and what it has and what
\* was saved are made of the members of some text (UPEBlueprintAsset).
THEOREM TypeInvariant == Spec => []TypeOK
  <1>1. ASSUME ShapeInv PROVE TypeOK
    <2>1. CASE Running
      <3>1. job.index \in Nat /\ job.index <= Walked /\ job.needSave \in BOOLEAN
            /\ Len(job.todo) \in Nat /\ job.phase = "running"
        BY <1>1, <2>1 DEF ShapeInv, Walking, IsJob
      <3>2. Len(Counted) \in Nat /\ Len(source) \in Nat /\ Len(Counted) <= Len(source)
        BY <1>1, CountedIs DEF ShapeInv
      <3>3. job.index \in 0 .. Len(source)
        BY <3>1, <3>2 DEF Walked
      <3> QED
        BY <1>1, <3>1, <3>3 DEF ShapeInv, TypeOK
    <2>2. CASE ~Running
      <3>1. job = Idle /\ job.phase = "idle"
        BY <1>1, <2>2 DEF ShapeInv, Running
      <3>2. Len(source) \in Nat
        BY <1>1, CountedIs DEF ShapeInv
      <3>3. job.index \in 0 .. Len(source) /\ job.needSave \in BOOLEAN
        BY <3>1, <3>2 DEF Idle
      <3> QED
        BY <1>1, <3>1, <3>3 DEF ShapeInv, TypeOK
    <2> QED
      BY <2>1, <2>2
  <1> QED
    BY <1>1, ShapeInvariant, PTL

-----------------------------------------------------------------------------
(* The members that have been walked over.                                 *)

Seen == {Counted[i] : i \in 1 .. Walked}
SeenMethods == {m \in Seen : IsMethod(m) /\ Translates(m)}
SeenProperties == {m \in Seen : IsProperty(m) /\ Translates(m)}

LEMMA SeenIs ==
    ASSUME source \in Declarations, Walking
    PROVE  /\ Seen \subseteq Elements(source) /\ Walked \in Nat /\ Walked <= Len(Counted)
           /\ \A m \in Seen : m \in Members /\ Counts(base, m)
           /\ job.todo = <<>> => Seen = {m \in Elements(source) : Counts(base, m)}
  <1>1. /\ Counted \in Seq(Members) /\ Len(Counted) \in Nat /\ DOMAIN Counted = 1 .. Len(Counted)
        /\ Elements(Counted) = {m \in Elements(source) : Counts(base, m)}
    BY CountedIs
  <1>2. Len(job.todo) \in Nat /\ Len(job.todo) <= Len(Counted)
    BY DEF Walking
  <1>3. Walked \in Nat /\ Walked <= Len(Counted) /\ (Len(job.todo) = 0 => Walked = Len(Counted))
    <2> DEFINE c == Len(Counted)
               l == Len(job.todo)
    <2>1. c \in Nat /\ l \in Nat /\ l <= c /\ Walked = c - l
      BY <1>1, <1>2 DEF Walked
    <2> HIDE DEF c, l
    <2>2. Walked \in Nat /\ Walked <= c /\ (l = 0 => Walked = c)
      BY <2>1
    <2> QED
      BY <2>2 DEF c, l
  <1>4. Seen \subseteq Elements(Counted) /\ (Walked = Len(Counted) => Seen = Elements(Counted))
    <2> DEFINE c == Len(Counted)
               s == Counted
    <2>1. Walked \in Nat /\ Walked <= c /\ c \in Nat /\ DOMAIN s = 1 .. c
      BY <1>1, <1>3
    <2>2. Seen = {s[i] : i \in 1 .. Walked} /\ Elements(Counted) = {s[i] : i \in DOMAIN s}
      BY DEF Seen, Elements
    <2> HIDE DEF c, s
    <2>3. 1 .. Walked \subseteq DOMAIN s /\ (Walked = c => 1 .. Walked = DOMAIN s)
      BY <2>1
    <2> QED
      BY <2>2, <2>3 DEF c
  <1>5. job.todo = <<>> => Len(job.todo) = 0
    OBVIOUS
  <1>6. \A m \in Seen : m \in Members
    BY <1>1, <1>4 DEF Elements
  <1> QED
    BY <1>1, <1>3, <1>4, <1>5, <1>6

LEMMA SeenGrows ==
    ASSUME source \in Declarations, Walking, job.todo # <<>>,
           Walked' = Walked + 1, Counted' = Counted
    PROVE  Seen' = Seen \cup {Member}
  <1>1. Walked \in Nat /\ Member = Counted[Walked + 1]
    BY MemberIs
  <1>2. Seen' = {Counted[i] : i \in 1 .. Walked + 1}
    BY DEF Seen
  <1> DEFINE k == Walked
  <1>3. k \in Nat /\ Seen = {Counted[i] : i \in 1 .. k}
    BY <1>1 DEF Seen
  <1>4. Member = Counted[k + 1] /\ Seen' = {Counted[i] : i \in 1 .. k + 1}
    BY <1>1, <1>2
  <1> HIDE DEF k
  <1>5. 1 .. k + 1 = (1 .. k) \cup {k + 1}
    BY <1>3
  <1> QED
    BY <1>3, <1>4, <1>5

\* Members that are declared once have different names.
LEMMA NamesApart ==
    ASSUME source \in Declarations, base \in Bases,
           NEW i \in DOMAIN Counted, NEW j \in DOMAIN Counted,
           Single(Counted[i]), Single(Counted[j]), Counted[i].name = Counted[j].name
    PROVE  i = j
  <1> DEFINE S == {m \in Elements(source) : Counts(base, m)}
             c == Counted
  <1>1. /\ source \in Seq(Members) /\ c = Kept(source, S)
        /\ Elements(c) = {m \in Elements(source) : Counts(base, m)}
    BY CountedIs DEF Counted
  <1>2. Counts(base, c[i]) /\ Counts(base, c[j])
    BY <1>1 DEF Elements
  <1> HIDE DEF S
  <1>3. \A k, l \in DOMAIN source : source[k] = c[i] /\ source[l] = c[j] => k = l
    BY <1>2, ClassAssumption
  <1> HIDE DEF c
  <1>4. i \in DOMAIN Kept(source, S) /\ j \in DOMAIN Kept(source, S)
    BY <1>1 DEF c
  <1>5. \A k, l \in DOMAIN source : source[k] = Kept(source, S)[i] /\ source[l] = Kept(source, S)[j] => k = l
    BY <1>1, <1>3
  <1> QED
    BY <1>1, <1>4, <1>5, KeptApart

LEMMA TranslatesSingle ==
    ASSUME NEW m, Translates(m)
    PROVE  Single(m)
  BY DEF Translates, Single

\* The next member has a name of its own.
LEMMA NewName ==
    ASSUME source \in Declarations, base \in Bases, Walking, job.todo # <<>>, Single(Member),
           NEW m \in Seen, Single(m)
    PROVE  m.name # Member.name /\ m # Member
  <1>1. /\ Walked + 1 \in DOMAIN Counted /\ Member = Counted[Walked + 1] /\ Walked \in Nat
    BY MemberIs
  <1>2. PICK i \in 1 .. Walked : m = Counted[i]
    BY DEF Seen
  <1>3. i \in DOMAIN Counted /\ i # Walked + 1
    BY <1>1, <1>2, CountedIs
  <1> QED
    BY <1>1, <1>2, <1>3, NamesApart

-----------------------------------------------------------------------------
(* The variables of the members that have been walked over.                *)

ValueMembers == {m \in Wanted : IsProperty(m) /\ IsValue(m)}

\* They come first, in the order of the source.
Ordered(t, at) ==
    /\ Stand(at, t, Walked, Counted, ValueMembers)
    /\ job.index = Len(t)
    /\ \A i \in 1 .. Len(t) : i \in DOMAIN asset.order /\ asset.order[i] = t[i].name
    /\ job.variables = {t[i].name : i \in 1 .. Len(t)}
ValuesGiven ==
    \A m \in SeenProperties : IsValue(m) =>
        m.name \in DOMAIN asset.variables /\ VarFollows(m, asset.variables[m.name])
ComponentsGiven ==
    /\ job.components = {m.name : m \in {k \in SeenProperties : ~IsValue(k)}}
    /\ job.components \subseteq DOMAIN asset.components
Valued == ValuesGiven /\ ComponentsGiven /\ \E t \in Seq(Members) : \E at : Ordered(t, at)
ValueInv == Running /\ ~playing => Valued

LEMMA ValueMemberIs ==
    ASSUME source \in Declarations, NEW m \in Elements(source), Counts(base, m)
    PROVE  m \in ValueMembers <=> IsProperty(m) /\ Translates(m) /\ IsValue(m)
  BY DEF ValueMembers, Wanted, Elements

\* A member that is not a property of the class leaves that alone.
LEMMA OtherValued ==
    ASSUME ShapeInv, Valued, Running, job.todo # <<>>, UNCHANGED <<base, source>>,
           ~(IsProperty(Member) /\ Translates(Member)),
           NEW w, IsWork(w), w.job.todo = job.todo, w.job.constructs = job.constructs,
           w.job.index = job.index, w.job.variables = job.variables,
           w.job.components = job.components, Becomes(Done(w)),
           w.asset.variables = asset.variables, w.asset.order = asset.order,
           w.asset.components = asset.components
    PROVE  Valued'
  <1>1. source \in Declarations /\ Walking
    BY DEF ShapeInv
  <1>2. /\ asset' = w.asset /\ Walked' = Walked + 1 /\ Counted' = Counted
        /\ job'.index = job.index /\ job'.variables = job.variables
        /\ job'.components = job.components
    BY <1>1, WalkStep
  <1>3. Seen' = Seen \cup {Member}
    BY <1>1, <1>2, SeenGrows
  <1>4. SeenProperties' = SeenProperties
    BY <1>3 DEF SeenProperties
  <1>5. \A m : IsValue(m)' <=> IsValue(m)
    BY DEF IsValue, IsComponent
  <1>6. ValuesGiven'
    BY <1>2, <1>4, <1>5 DEF Valued, ValuesGiven
  <1>7. ComponentsGiven'
    BY <1>2, <1>4, <1>5 DEF Valued, ComponentsGiven
  <1>8. ValueMembers' = ValueMembers
    BY <1>5 DEF ValueMembers, Wanted
  <1>9. PICK t \in Seq(Members) : \E at : Ordered(t, at)
    BY DEF Valued
  <1>10. PICK at : Ordered(t, at)
    BY <1>9
  <1>11. /\ Walked + 1 \in DOMAIN Counted /\ Member = Counted[Walked + 1]
         /\ Member \in Elements(source) /\ Counts(base, Member) /\ Walked \in Nat
    BY <1>1, MemberIs
  <1>12. Member \notin ValueMembers
    BY <1>1, <1>11, ValueMemberIs
  <1>13. \E bt : Stand(bt, t, Walked + 1, Counted, ValueMembers)
    <2> DEFINE n == Walked + 1
               u == IF Counted[n] \in ValueMembers THEN Append(t, Counted[n]) ELSE t
    <2>1. n \in 1 .. Len(Counted) /\ Counted \in Seq(Members) /\ n - 1 = Walked
      BY <1>1, <1>11, CountedIs
    <2>2. Stand(at, t, n - 1, Counted, ValueMembers)
      BY <1>10, <2>1 DEF Ordered
    <2>3. u = t
      BY <1>11, <1>12
    <2> HIDE DEF n
    <2>4. \E bt : Stand(bt, u, n, Counted, ValueMembers)
      BY <2>1, <2>2, KeepingOne
    <2> QED
      BY <2>3, <2>4 DEF n
  <1>14. PICK bt : Stand(bt, t, Walked + 1, Counted, ValueMembers)
    BY <1>13
  <1>15. Ordered(t, bt)'
    BY <1>2, <1>8, <1>10, <1>14 DEF Ordered
  <1> QED
    BY <1>6, <1>7, <1>15 DEF Valued

\* A property that is not a component gets its place behind those before it.
LEMMA ValueValued ==
    ASSUME ShapeInv, Valued, EmitProperty, ~playing, IsValue(Member)
    PROVE  Valued'
  <1> DEFINE m == Member
             n == m.name
             w == PropertyWork(m)
             k == job.index
  <1>1. /\ Running /\ IsJob(job) /\ Shaped(asset) /\ BlueprintOK(asset) /\ job.todo # <<>>
        /\ source \in Declarations /\ base \in Bases /\ Walking /\ k \in Nat
        /\ UNCHANGED <<base, source>>
        /\ \A x \in DOMAIN asset.variables : Notified(asset.variables[x])
    BY DEF ShapeInv, EmitProperty, Step, Walking
  <1>2. Becomes(Done(w)) /\ IsProperty(m) /\ Pin(m.type) # NoPin /\ IsValue(m)
    BY DEF EmitProperty, PropertyWork, Fits, IsMethod, IsProperty
  <1>3. /\ n \in MemberNames /\ m \in Elements(source) /\ Counts(base, m) /\ m \in Members
        /\ Walked + 1 \in DOMAIN Counted /\ m = Counted[Walked + 1] /\ Walked \in Nat
    BY <1>1, MemberIs
  <1>4. Translates(m) /\ Single(m)
    BY <1>2 DEF Translates, Single, IsMethod, IsProperty
  <1>5. Listed(asset, MemberNames) /\ OnRep(n) # NoName
    BY <1>1, <1>3, NameAssumption DEF BlueprintOK, Listed, Distinct
  <1>6. PICK t \in Seq(Members) : \E at : Ordered(t, at)
    BY DEF Valued
  <1>7. PICK at : Ordered(t, at)
    BY <1>6
  <1>8. Len(t) \in Nat /\ k = Len(t) /\ DOMAIN t = 1 .. k
    BY <1>6, <1>7 DEF Ordered
  <1>9. \A i \in 1 .. k : i \in DOMAIN asset.order /\ asset.order[i] # n
    <2>1. ASSUME NEW i \in 1 .. k PROVE i \in DOMAIN asset.order /\ asset.order[i] # n
      <3>1. i \in DOMAIN asset.order /\ asset.order[i] = t[i].name
        BY <1>7, <1>8, <2>1 DEF Ordered
      <3>2. at[i] \in 1 .. Walked /\ t[i] = Counted[at[i]] /\ t[i] \in ValueMembers
        BY <1>7, <1>8, <2>1 DEF Ordered, Stand
      <3>3. t[i] \in Seen /\ Single(t[i])
        BY <3>2, TranslatesSingle DEF Seen, ValueMembers, Wanted
      <3> QED
        BY <1>1, <1>4, <3>1, <3>3, NewName
    <2> HIDE DEF k
    <2> QED
      BY <2>1
  <1>10. /\ Stage(w, n, MemberNames)
         /\ n \in DOMAIN w.asset.variables /\ n \in w.job.variables
         /\ VarFollows(m, w.asset.variables[n])
         /\ w.job.index = k + 1
         /\ k + 1 \in DOMAIN w.asset.order /\ w.asset.order[k + 1] = n
         /\ \A i \in 1 .. k : w.asset.order[i] = asset.order[i]
    <2> HIDE DEF m
    <2> QED
      BY <1>1, <1>2, <1>3, <1>5, <1>9, ValueWork
  <1> HIDE DEF w
  <1>11. /\ IsWork(w) /\ w.job.todo = job.todo /\ w.job.constructs = job.constructs
         /\ w.job.variables = job.variables \cup {n} /\ w.job.components = job.components
         /\ w.asset.components = asset.components /\ w.asset.order \in Seq(MemberNames)
    BY <1>10 DEF Stage, VariableJob, Listed
  <1>12. /\ asset' = w.asset /\ Walked' = Walked + 1 /\ Counted' = Counted
         /\ job'.index = k + 1 /\ job'.variables = job.variables \cup {n}
         /\ job'.components = job.components
    <2> HIDE DEF m
    <2> QED
      BY <1>1, <1>2, <1>10, <1>11, WalkStep
  <1>13. Seen' = Seen \cup {m}
    BY <1>1, <1>12, SeenGrows
  <1>14. \A x : IsValue(x)' <=> IsValue(x)
    BY <1>1 DEF IsValue, IsComponent
  <1>15. SeenProperties' = SeenProperties \cup {m}
    BY <1>2, <1>4, <1>13 DEF SeenProperties
  <1>16. ValuesGiven'
    <2>1. ASSUME NEW x \in SeenProperties', IsValue(x)
          PROVE  x.name \in DOMAIN w.asset.variables /\ VarFollows(x, w.asset.variables[x.name])
      <3>1. CASE x = m
        BY <1>10, <3>1
      <3>2. CASE x # m
        <4>1. x \in SeenProperties /\ x \in Seen /\ Single(x)
          BY <1>15, <3>2, TranslatesSingle DEF SeenProperties
        <4>2. x.name # n
          BY <1>1, <1>4, <4>1, NewName
        <4>3. x.name \in DOMAIN asset.variables /\ VarFollows(x, asset.variables[x.name])
          BY <2>1, <4>1 DEF Valued, ValuesGiven
        <4> QED
          BY <1>10, <4>2, <4>3 DEF Stage, VariableFrame, SameBut
      <3> QED
        BY <3>1, <3>2
    <2> QED
      BY <1>12, <1>14, <2>1 DEF ValuesGiven
  <1>17. ComponentsGiven'
    <2>1. {x \in SeenProperties' : ~IsValue(x)} = {x \in SeenProperties : ~IsValue(x)}
      BY <1>15
    <2> QED
      BY <1>11, <1>12, <1>14, <2>1 DEF Valued, ComponentsGiven
  <1>18. ValueMembers' = ValueMembers
    BY <1>1, <1>14 DEF ValueMembers, Wanted
  <1>19. m \in ValueMembers
    BY <1>1, <1>2, <1>3, <1>4, ValueMemberIs
  <1> DEFINE u == Append(t, m)
  <1>20. u \in Seq(Members) /\ \E bt : Stand(bt, u, Walked + 1, Counted, ValueMembers)
    <2> DEFINE j == Walked + 1
               v == IF Counted[j] \in ValueMembers THEN Append(t, Counted[j]) ELSE t
    <2>1. j \in 1 .. Len(Counted) /\ Counted \in Seq(Members) /\ j - 1 = Walked
      BY <1>1, <1>3, CountedIs
    <2>2. Stand(at, t, j - 1, Counted, ValueMembers)
      BY <1>7, <2>1 DEF Ordered
    <2>3. v = u
      BY <1>3, <1>19
    <2> HIDE DEF j, m, u
    <2>4. v \in Seq(Members) /\ \E bt : Stand(bt, v, j, Counted, ValueMembers)
      BY <1>6, <2>1, <2>2, KeepingOne
    <2> QED
      BY <2>3, <2>4 DEF j
  <1>21. /\ Len(u) = k + 1 /\ u[k + 1] = m
         /\ \A i \in 1 .. k : u[i] = t[i]
    BY <1>6, <1>8
  <1> HIDE DEF u
  <1>22. PICK r : r = u
    OBVIOUS
  <1>23. PICK bt : Stand(bt, u, Walked + 1, Counted, ValueMembers)
    BY <1>20
  <1>24. \A i \in 1 .. k + 1 : i \in DOMAIN w.asset.order /\ w.asset.order[i] = u[i].name
    <2>1. ASSUME NEW i \in 1 .. k + 1
          PROVE  i \in DOMAIN w.asset.order /\ w.asset.order[i] = u[i].name
      <3>1. i \in DOMAIN w.asset.order
        BY <1>1, <1>10, <1>11
      <3>2. CASE i = k + 1
        BY <1>10, <1>21, <3>1, <3>2
      <3>3. CASE i # k + 1
        <4>1. i \in 1 .. k
          BY <1>1, <3>3
        <4>2. w.asset.order[i] = asset.order[i] /\ asset.order[i] = t[i].name
          BY <1>7, <1>8, <1>10, <4>1 DEF Ordered
        <4> QED
          BY <1>21, <3>1, <4>1, <4>2
      <3> QED
        BY <3>2, <3>3
    <2> QED
      BY <2>1
  <1>25. job.variables \cup {n} = {u[i].name : i \in 1 .. k + 1}
    <2>1. job.variables = {t[i].name : i \in 1 .. k}
      BY <1>7, <1>8 DEF Ordered
    <2>2. 1 .. k + 1 = (1 .. k) \cup {k + 1}
      BY <1>1
    <2> HIDE DEF k, m
    <2>3. {u[i].name : i \in 1 .. k + 1} = {u[i].name : i \in 1 .. k} \cup {u[k + 1].name}
      BY <2>2
    <2>4. {u[i].name : i \in 1 .. k} = {t[i].name : i \in 1 .. k}
      BY <1>21
    <2> QED
      BY <1>21, <2>1, <2>3, <2>4
  <1>26. Ordered(r, bt)'
    <2>1. /\ Len(r) = k + 1 /\ Stand(bt, r, Walked + 1, Counted, ValueMembers)
          /\ \A i \in 1 .. k + 1 : i \in DOMAIN w.asset.order /\ w.asset.order[i] = r[i].name
          /\ job.variables \cup {n} = {r[i].name : i \in 1 .. k + 1}
      BY <1>21, <1>23, <1>24, <1>25, <1>22
    <2> HIDE DEF n, k
    <2> QED
      BY <1>12, <1>18, <2>1 DEF Ordered
  <1> QED
    BY <1>16, <1>17, <1>20, <1>26, <1>22 DEF Valued

\* A component is asked for.
LEMMA ComponentValued ==
    ASSUME ShapeInv, Valued, EmitProperty, ~IsValue(Member)
    PROVE  Valued'
  <1> DEFINE m == Member
             n == m.name
             w == PropertyWork(m)
  <1>1. /\ Running /\ IsJob(job) /\ Shaped(asset) /\ job.todo # <<>>
        /\ source \in Declarations /\ base \in Bases /\ Walking
        /\ UNCHANGED <<base, source>>
        /\ \A x \in DOMAIN asset.variables : ValueName(x)
    BY DEF ShapeInv, EmitProperty, Step, Walking
  <1>2. Becomes(Done(w)) /\ IsProperty(m) /\ Pin(m.type) # NoPin /\ ~IsValue(m)
    BY DEF EmitProperty, PropertyWork, Fits, IsMethod, IsProperty
  <1>3. /\ m \in Elements(source) /\ Counts(base, m) /\ Walked + 1 \in DOMAIN Counted
        /\ m = Counted[Walked + 1] /\ Walked \in Nat
    BY <1>1, MemberIs
  <1>4. Translates(m)
    BY <1>2 DEF Translates, IsMethod, IsProperty
  <1>5. n \notin DOMAIN asset.variables
    BY <1>1, <1>2, <1>3, NamesDiffer
  <1>6. /\ IsWork(w) /\ w.asset.variables = asset.variables /\ w.asset.order = asset.order
        /\ DOMAIN w.asset.components = DOMAIN asset.components \cup {n}
        /\ SameJob([w.job EXCEPT !.components = job.components], job)
        /\ w.job.components = job.components \cup {n}
    <2> HIDE DEF m
    <2> QED
      BY <1>1, <1>2, <1>5, ComponentWork
  <1> HIDE DEF w
  <1>7. /\ w.job.todo = job.todo /\ w.job.constructs = job.constructs
        /\ w.job.index = job.index /\ w.job.variables = job.variables
    BY <1>6 DEF IsWork, IsJob, SameJob
  <1>8. /\ asset' = w.asset /\ Walked' = Walked + 1 /\ Counted' = Counted
        /\ job'.index = job.index /\ job'.variables = job.variables
        /\ job'.components = job.components \cup {n}
    <2> HIDE DEF m
    <2> QED
      BY <1>1, <1>2, <1>6, <1>7, WalkStep
  <1>9. Seen' = Seen \cup {m}
    BY <1>1, <1>8, SeenGrows
  <1>10. \A x : IsValue(x)' <=> IsValue(x)
    BY <1>1 DEF IsValue, IsComponent
  <1>11. SeenProperties' = SeenProperties \cup {m}
    BY <1>2, <1>4, <1>9 DEF SeenProperties
  <1>12. ValuesGiven'
    BY <1>2, <1>6, <1>8, <1>10, <1>11 DEF Valued, ValuesGiven
  <1>13. ComponentsGiven'
    <2>1. {x \in SeenProperties' : ~IsValue(x)} = {x \in SeenProperties : ~IsValue(x)} \cup {m}
      BY <1>2, <1>11
    <2>2. {x.name : x \in {y \in SeenProperties' : ~IsValue(y)}} = job.components \cup {n}
      <3> HIDE DEF m
      <3>1. \A T : {x.name : x \in T \cup {m}} = {x.name : x \in T} \cup {n}
        OBVIOUS
      <3> QED
        BY <2>1, <3>1 DEF Valued, ComponentsGiven
    <2>3. job.components \subseteq DOMAIN asset.components
      BY DEF Valued, ComponentsGiven
    <2> HIDE DEF m, n
    <2> QED
      BY <1>6, <1>8, <1>10, <2>2, <2>3 DEF ComponentsGiven
  <1>14. ValueMembers' = ValueMembers
    BY <1>1, <1>10 DEF ValueMembers, Wanted
  <1>15. PICK t \in Seq(Members) : \E at : Ordered(t, at)
    BY DEF Valued
  <1>16. PICK at : Ordered(t, at)
    BY <1>15
  <1>17. m \notin ValueMembers
    BY <1>2 DEF ValueMembers
  <1>18. \E bt : Stand(bt, t, Walked + 1, Counted, ValueMembers)
    <2> DEFINE j == Walked + 1
               u == IF Counted[j] \in ValueMembers THEN Append(t, Counted[j]) ELSE t
    <2>1. j \in 1 .. Len(Counted) /\ Counted \in Seq(Members) /\ j - 1 = Walked
      BY <1>1, <1>3, CountedIs
    <2>2. Stand(at, t, j - 1, Counted, ValueMembers)
      BY <1>16, <2>1 DEF Ordered
    <2>3. u = t
      BY <1>3, <1>17
    <2> HIDE DEF j
    <2>4. \E bt : Stand(bt, u, j, Counted, ValueMembers)
      BY <2>1, <2>2, KeepingOne
    <2> QED
      BY <2>3, <2>4 DEF j
  <1>19. PICK bt : Stand(bt, t, Walked + 1, Counted, ValueMembers)
    BY <1>18
  <1>20. Ordered(t, bt)'
    BY <1>6, <1>8, <1>14, <1>16, <1>19 DEF Ordered
  <1> QED
    BY <1>12, <1>13, <1>20 DEF Valued

LEMMA BeginValued ==
    ASSUME ShapeInv, Begin
    PROVE  Valued'
  <1>1. Running' /\ Walking' /\ source' = source /\ source \in Declarations
    <2>1. ShapeInv'
      BY BeginShape
    <2>2. job'.phase = "running"
      BY DEF Begin, Idle
    <2> QED
      BY <2>1, <2>2 DEF ShapeInv, Running, Begin
  <1>2. /\ job'.todo = Counted /\ job'.variables = {} /\ job'.components = {}
        /\ job'.index = 0
    BY DEF Begin, Idle
  <1>3. Len(Counted) \in Nat /\ Counted' = Counted
    BY <1>1, CountedIs DEF Begin, Counted
  <1>4. Walked' = 0
    BY <1>2, <1>3 DEF Walked
  <1>5. Seen' = {}
    BY <1>4 DEF Seen
  <1>6. ValuesGiven' /\ ComponentsGiven'
    BY <1>2, <1>5 DEF ValuesGiven, ComponentsGiven, SeenProperties
  <1> DEFINE at == [i \in {} |-> 0]
  <1>7. \A s, S : Stand(at, <<>>, 0, s, S)
    BY DEF Stand
  <1>8. <<>> \in Seq(Members) /\ Len(<<>>) = 0
    OBVIOUS
  <1> HIDE DEF at
  <1>9. Ordered(<<>>, at)'
    BY <1>2, <1>4, <1>7, <1>8 DEF Ordered
  <1> QED
    BY <1>6, <1>8, <1>9 DEF Valued

\* No member is dealt with.
LEMMA ParameterValued ==
    ASSUME ShapeInv, Valued, UNCHANGED <<base, source, asset>>,
           NEW x, job' = [job EXCEPT !.params = x], Running
    PROVE  Valued'
  <1>1. /\ job'.todo = job.todo /\ job'.index = job.index /\ job'.variables = job.variables
        /\ job'.components = job.components
    BY DEF ShapeInv, Walking, IsJob
  <1>2. Counted' = Counted /\ Walked' = Walked /\ Seen' = Seen
    BY <1>1 DEF Counted, Walked, Seen
  <1>3. \A y : IsValue(y)' <=> IsValue(y)
    BY DEF IsValue, IsComponent
  <1>4. SeenProperties' = SeenProperties /\ ValueMembers' = ValueMembers
    BY <1>2, <1>3 DEF SeenProperties, ValueMembers, Wanted
  <1>5. ValuesGiven' /\ ComponentsGiven'
    BY <1>1, <1>3, <1>4 DEF Valued, ValuesGiven, ComponentsGiven
  <1>6. PICK t \in Seq(Members) : \E at : Ordered(t, at)
    BY DEF Valued
  <1>7. PICK at : Ordered(t, at)
    BY <1>6
  <1>8. Ordered(t, at)'
    BY <1>1, <1>2, <1>4, <1>7 DEF Ordered
  <1> QED
    BY <1>5, <1>6, <1>8 DEF Valued

LEMMA ValueStep ==
    ASSUME ShapeInv, ValueInv, [Next]_vars
    PROVE  ValueInv'
  <1>1. CASE Begin
    BY <1>1, BeginValued DEF ValueInv
  <1>2. CASE (Skip \/ AddParameter \/ EmitFunction \/ EmitProperty) /\ ~playing
    <2> SUFFICES Valued'
      BY DEF ValueInv
    <2>1. /\ Running /\ Valued /\ UNCHANGED <<base, source, playing>> /\ job.todo # <<>>
          /\ IsJob(job) /\ Shaped(asset) /\ Walking /\ source \in Declarations
      BY <1>2 DEF ValueInv, Skip, AddParameter, EmitFunction, EmitProperty, Step, ShapeInv, Walking
    <2>2. ASSUME Becomes(Done(Work)), ~(IsProperty(Member) /\ Translates(Member))
          PROVE  Valued'
      <3>1. IsWork(Work) /\ Work.asset = asset /\ Work.job = job
        BY <2>1, WorkIs DEF Grows
      <3> HIDE DEF Work
      <3> QED
        BY <2>1, <2>2, <3>1, OtherValued
    <2>3. CASE Skip
      BY <2>2, <2>3 DEF Skip, Fits, Translates, IsMethod, IsProperty
    <2>4. CASE AddParameter
      <3>1. ~IsProperty(Member)
        BY <2>4 DEF AddParameter, IsMethod, IsProperty
      <3>2. CASE Becomes(Done(Work))
        BY <2>2, <3>1, <3>2
      <3>3. CASE /\ UNCHANGED asset
                 /\ \E x : job' = [job EXCEPT !.params = x]
        BY <2>1, <3>3, ParameterValued
      <3> QED
        BY <2>4, <3>2, <3>3 DEF AddParameter
    <2>5. CASE EmitFunction
      <3> DEFINE m == Member
                 w == ApplyToFunction(AddFunction(m), m)
      <3>1. ~IsProperty(Member)
        BY <2>5 DEF EmitFunction, IsMethod, IsProperty
      <3>2. CASE Becomes(Done(Work))
        BY <2>2, <3>1, <3>2
      <3>3. CASE Becomes(Done(w))
        <4>1. Kind(w, m)
          <5> HIDE DEF m
          <5> QED
            BY <2>1, FunctionWork
        <4> HIDE DEF w
        <4>2. /\ IsWork(w) /\ w.job.todo = job.todo /\ w.job.constructs = job.constructs
              /\ w.job.index = job.index /\ w.job.variables = job.variables
              /\ w.job.components = job.components
              /\ w.asset.variables = asset.variables /\ w.asset.order = asset.order
              /\ w.asset.components = asset.components
          BY <4>1 DEF Kind, Grows, JobFrame, FunctionFrame
        <4> QED
          BY <2>1, <3>1, <3>3, <4>2, OtherValued
      <3> QED
        BY <2>5, <3>2, <3>3 DEF EmitFunction
    <2>6. CASE EmitProperty
      BY <1>2, <2>1, <2>6, ValueValued, ComponentValued
    <2> QED
      BY <1>2, <2>3, <2>4, <2>5, <2>6
  <1>3. CASE (Skip \/ AddParameter \/ EmitFunction \/ EmitProperty) /\ playing
    <2>1. playing'
      BY <1>3 DEF Skip, AddParameter, EmitFunction, EmitProperty, Step
    <2> QED
      BY <2>1 DEF ValueInv
  <1>4. CASE Finish \/ BeginWithoutBlueprint \/ (\E d \in Declarations : Edit(d)) \/ TogglePlay
    <2>1. job'.phase = "idle"
      BY <1>4 DEF Finish, BeginWithoutBlueprint, Edit, TogglePlay, Idle
    <2> QED
      BY <2>1 DEF ValueInv, Running
  <1>5. CASE UNCHANGED vars
    <2>1. UNCHANGED <<base, source, asset, job, playing>>
      BY <1>5 DEF vars
    <2>2. CASE Running /\ ~playing
      <3>1. job = [job EXCEPT !.params = job.params] /\ Valued
        BY <2>2 DEF ShapeInv, Walking, IsJob, ValueInv
      <3>2. Valued'
        BY <2>1, <2>2, <3>1, ParameterValued
      <3> QED
        BY <3>2 DEF ValueInv
    <2>3. CASE ~(Running /\ ~playing)
      BY <2>1, <2>3 DEF ValueInv, Running
    <2> QED
      BY <2>2, <2>3
  <1> QED
    BY <1>1, <1>2, <1>3, <1>4, <1>5 DEF Next

LEMMA ValueInvariant == Spec => []ValueInv
  <1>1. Init => ValueInv
    BY DEF Init, ValueInv, Running, Idle
  <1>2. ShapeInv /\ ValueInv /\ [Next]_vars => ValueInv'
    BY ValueStep
  <1> QED
    BY <1>1, <1>2, ShapeInvariant, PTL DEF Spec

-----------------------------------------------------------------------------
(* Places that agree.                                                      *)

LEMMA StandOnce ==
    ASSUME NEW T, NEW s, NEW S, NEW n \in Nat, NEW t \in Seq(T), NEW u \in Seq(T),
           NEW at, NEW bt, Stand(at, t, n, s, S), Stand(bt, u, n, s, S)
    PROVE  \A i \in 1 .. Len(t) : i \in 1 .. Len(u) /\ at[i] = bt[i]
  <1> DEFINE Bad == {i \in 1 .. Len(t) : ~(i \in 1 .. Len(u) /\ at[i] = bt[i])}
  <1> SUFFICES ASSUME Bad # {} PROVE FALSE
    OBVIOUS
  <1>0. Len(t) \in Nat /\ Len(u) \in Nat
    OBVIOUS
  <1>1. Bad \subseteq Nat
    OBVIOUS
  <1>2. PICK i \in Bad : \A j \in Bad : i <= j
    <2> HIDE DEF Bad
    <2> QED
      BY <1>1, LeastNat
  <1>3. i \in 1 .. Len(t) /\ ~(i \in 1 .. Len(u) /\ at[i] = bt[i])
    OBVIOUS
  <1>4. \A j \in 1 .. Len(t) : j < i => j \in 1 .. Len(u) /\ at[j] = bt[j]
    BY <1>0, <1>2
  <1> HIDE DEF Bad
  <1>5. at[i] \in 1 .. n /\ s[at[i]] \in S
    BY <1>3 DEF Stand
  <1>6. PICK k \in 1 .. Len(u) : bt[k] = at[i]
    BY <1>5 DEF Stand
  <1>7. ~(k < i)
    <2> SUFFICES ASSUME k < i PROVE FALSE
      OBVIOUS
    <2>1. k \in 1 .. Len(t)
      BY <1>0, <1>3, <1>6
    <2>2. at[k] = at[i] /\ at[k] < at[i]
      BY <1>3, <1>4, <1>6, <2>1 DEF Stand
    <2> QED
      BY <1>5, <2>2
  <1>8. i \in 1 .. Len(u) /\ i < k
    BY <1>0, <1>3, <1>6, <1>7
  <1>9. bt[i] < at[i] /\ bt[i] \in 1 .. n /\ s[bt[i]] \in S
    BY <1>6, <1>8 DEF Stand
  <1>10. PICK l \in 1 .. Len(t) : at[l] = bt[i]
    BY <1>9 DEF Stand
  <1>11. l < i
    <2> SUFFICES ASSUME ~(l < i) PROVE FALSE
      OBVIOUS
    <2>1. l = i \/ i < l
      BY <1>0, <1>3, <1>10
    <2>2. at[i] <= at[l]
      BY <1>3, <1>5, <1>9, <1>10, <2>1 DEF Stand
    <2> QED
      BY <1>5, <1>9, <1>10, <2>2
  <1>12. bt[l] = bt[i] /\ l \in 1 .. Len(u)
    BY <1>4, <1>10, <1>11
  <1>13. bt[l] < bt[i]
    BY <1>8, <1>11, <1>12 DEF Stand
  <1> QED
    BY <1>9, <1>12, <1>13

LEMMA StandSame ==
    ASSUME NEW T, NEW s, NEW S, NEW n \in Nat, NEW t \in Seq(T), NEW u \in Seq(T),
           NEW at, NEW bt, Stand(at, t, n, s, S), Stand(bt, u, n, s, S)
    PROVE  t = u
  <1>1. /\ \A i \in 1 .. Len(t) : i \in 1 .. Len(u) /\ at[i] = bt[i]
        /\ \A i \in 1 .. Len(u) : i \in 1 .. Len(t)
    <2>1. \A i \in 1 .. Len(t) : i \in 1 .. Len(u) /\ at[i] = bt[i]
      BY StandOnce
    <2>2. \A i \in 1 .. Len(u) : i \in 1 .. Len(t) /\ bt[i] = at[i]
      BY StandOnce
    <2> QED
      BY <2>1, <2>2
  <1>2. Len(t) \in Nat /\ Len(u) \in Nat
    OBVIOUS
  <1>3. Len(t) = Len(u)
    <2>1. Len(t) = 0 \/ Len(t) \in 1 .. Len(t)
      BY <1>2
    <2>2. Len(u) = 0 \/ Len(u) \in 1 .. Len(u)
      BY <1>2
    <2>3. Len(t) <= Len(u)
      BY <1>1, <1>2, <2>1
    <2>4. Len(u) <= Len(t)
      BY <1>1, <1>2, <2>2
    <2> QED
      BY <1>2, <2>3, <2>4
  <1>4. \A i \in 1 .. Len(t) : t[i] = u[i]
    BY <1>1 DEF Stand
  <1> QED
    BY <1>3, <1>4

\* What is kept of what is kept.
LEMMA StandTwice ==
    ASSUME NEW T, NEW s \in Seq(T), NEW C, NEW S, S \cap Elements(s) \subseteq C,
           NEW t \in Seq(T), NEW at, Stand(at, t, Len(Kept(s, C)), Kept(s, C), S)
    PROVE  t = Kept(s, S)
  <1> DEFINE c == Kept(s, C)
             l == Len(c)
             n == Len(s)
  <1>1. c \in Seq(T) /\ l \in Nat /\ n \in Nat /\ DOMAIN s = 1 .. n
    BY KeptStands
  <1>2. PICK ct : Stand(ct, c, n, s, C)
    BY KeptStands
  <1>3. Stand(at, t, l, c, S)
    OBVIOUS
  <1> HIDE DEF c
  <1> DEFINE bt == [i \in 1 .. Len(t) |-> ct[at[i]]]
  <1>4. \A i \in 1 .. Len(t) : at[i] \in 1 .. l /\ t[i] = c[at[i]] /\ c[at[i]] \in S
    BY <1>3 DEF Stand
  <1>5. \A i \in 1 .. l : ct[i] \in 1 .. n /\ c[i] = s[ct[i]]
    BY <1>2 DEF Stand
  <1>6. bt \in [1 .. Len(t) -> 1 .. n] /\ \A i \in 1 .. Len(t) : bt[i] = ct[at[i]]
    BY <1>4, <1>5
  <1> HIDE DEF bt
  <1>7. ASSUME NEW i \in 1 .. Len(t), NEW j \in 1 .. Len(t), i < j PROVE bt[i] < bt[j]
    <2>1. at[i] < at[j]
      BY <1>3, <1>7 DEF Stand
    <2> QED
      BY <1>2, <1>4, <1>6, <2>1 DEF Stand
  <1>8. \A i \in 1 .. Len(t) : t[i] = s[bt[i]] /\ s[bt[i]] \in S
    BY <1>4, <1>5, <1>6
  <1>9. ASSUME NEW j \in 1 .. n, s[j] \in S PROVE \E i \in 1 .. Len(t) : bt[i] = j
    <2>1. s[j] \in C
      BY <1>1, <1>9 DEF Elements
    <2>2. PICK k \in 1 .. l : ct[k] = j
      BY <1>2, <2>1 DEF Stand
    <2>3. c[k] \in S
      BY <1>5, <1>9, <2>2
    <2>4. PICK i \in 1 .. Len(t) : at[i] = k
      BY <1>3, <2>3 DEF Stand
    <2> QED
      BY <1>6, <2>2, <2>4
  <1>10. Stand(bt, t, n, s, S)
    BY <1>6, <1>7, <1>8, <1>9 DEF Stand
  <1>11. Kept(s, S) \in Seq(T) /\ \E x : Stand(x, Kept(s, S), n, s, S)
    BY KeptStands
  <1>12. PICK x : Stand(x, Kept(s, S), n, s, S)
    BY <1>11
  <1> QED
    BY <1>1, <1>10, <1>11, <1>12, StandSame

\* What is kept of a sequence, if it comes first and the rest does not count.
LEMMA KeptFirst ==
    ASSUME NEW T, NEW s \in Seq(T), Distinct(s), NEW n \in Nat,
           \A i \in 1 .. n : i \in DOMAIN s
    PROVE  Kept(s, {s[i] : i \in 1 .. n}) = [i \in 1 .. n |-> s[i]]
  <1> DEFINE S == {s[i] : i \in 1 .. n}
             t == [i \in 1 .. n |-> s[i]]
             at == [i \in 1 .. n |-> i]
             l == Len(s)
  <1>1. l \in Nat /\ DOMAIN s = 1 .. l /\ \A i \in 1 .. l : s[i] \in T
    OBVIOUS
  <1>2. \A i \in 1 .. n : i \in 1 .. l /\ s[i] \in T
    BY <1>1
  <1>3. t \in Seq(T) /\ Len(t) = n
    BY <1>2
  <1>4. \A i \in 1 .. n : t[i] = s[i] /\ at[i] = i
    OBVIOUS
  <1>5. at \in [1 .. n -> 1 .. l]
    BY <1>2
  <1>6. ASSUME NEW j \in 1 .. l, s[j] \in S PROVE j \in 1 .. n
    <2>1. PICK i \in 1 .. n : s[j] = s[i]
      BY <1>6
    <2>2. i = j
      BY <1>1, <1>2, <2>1 DEF Distinct
    <2> QED
      BY <2>2
  <1>7. \A i \in 1 .. n : s[i] \in S
    OBVIOUS
  <1> HIDE DEF S, t, at
  <1>8. Stand(at, t, l, s, S)
    BY <1>3, <1>4, <1>5, <1>6, <1>7 DEF Stand
  <1>9. Kept(s, S) \in Seq(T) /\ \E x : Stand(x, Kept(s, S), l, s, S)
    BY KeptStands
  <1>10. PICK x : Stand(x, Kept(s, S), l, s, S)
    BY <1>9
  <1>11. t = Kept(s, S)
    BY <1>1, <1>3, <1>8, <1>9, <1>10, StandSame
  <1> QED
    BY <1>11 DEF t, S

-----------------------------------------------------------------------------
(* The end of a refresh.                                                   *)

LEMMA WantedIs ==
    ASSUME ShapeInv, Running, job.todo = <<>>
    PROVE  /\ Wanted = {m \in Seen : Translates(m)}
           /\ Methods = SeenMethods
           /\ {m \in Wanted : IsProperty(m)} = SeenProperties
           /\ Walked = Len(Counted) /\ Walked \in Nat
  <1>1. source \in Declarations /\ Walking /\ Len(job.todo) = 0
    BY DEF ShapeInv
  <1>2. Seen = {m \in Elements(source) : Counts(base, m)}
    BY <1>1, SeenIs
  <1>3. Wanted = {m \in Seen : Translates(m)}
    BY <1>2 DEF Wanted, Elements
  <1>4. Len(Counted) \in Nat
    BY <1>1, CountedIs
  <1>5. Walked = Len(Counted) /\ Walked \in Nat
    <2> DEFINE c == Len(Counted)
               l == Len(job.todo)
    <2>1. c \in Nat /\ l = 0 /\ Walked = c - l
      BY <1>1, <1>4 DEF Walked
    <2> HIDE DEF c, l
    <2>2. Walked = c
      BY <2>1
    <2> QED
      BY <1>4, <2>2 DEF c
  <1> QED
    BY <1>3, <1>5 DEF Methods, SeenMethods, SeenProperties

\* The variables and the components are those of the class.
LEMMA FinishedValues ==
    ASSUME ShapeInv, Valued, Running, job.todo = <<>>
    PROVE  /\ Kept(asset.order, job.variables) = ValueNames
           /\ \A m \in ValueMembers :
                 /\ m.name \in job.variables /\ m.name \in DOMAIN asset.variables
                 /\ VarFollows(m, asset.variables[m.name])
           /\ job.variables = {m.name : m \in ValueMembers}
           /\ job.components = {m.name : m \in {k \in Wanted : IsProperty(k) /\ ~IsValue(k)}}
           /\ job.components \subseteq DOMAIN asset.components
  <1>1. /\ source \in Declarations /\ source \in Seq(Members) /\ Counted \in Seq(Members)
        /\ Walked = Len(Counted) /\ Walked \in Nat
        /\ {m \in Wanted : IsProperty(m)} = SeenProperties
    BY WantedIs, CountedIs DEF ShapeInv
  <1>2. PICK t \in Seq(Members) : \E at : Ordered(t, at)
    BY DEF Valued
  <1>3. PICK at : Ordered(t, at)
    BY <1>2
  <1>4. Stand(at, t, Len(Counted), Counted, ValueMembers)
    BY <1>1, <1>3 DEF Ordered
  <1>5. ValueMembers \subseteq Elements(source)
    BY DEF ValueMembers, Wanted, Elements
  <1>6. t = Kept(source, ValueMembers)
    <2> DEFINE C == {m \in Elements(source) : Counts(base, m)}
    <2>1. Counted = Kept(source, C)
      BY DEF Counted
    <2>2. ValueMembers \cap Elements(source) \subseteq C
      BY DEF ValueMembers, Wanted, Elements
    <2> HIDE DEF C
    <2>3. Stand(at, t, Len(Kept(source, C)), Kept(source, C), ValueMembers)
      BY <1>4, <2>1
    <2> QED
      BY <1>1, <2>2, <2>3, StandTwice
  <1>7. ValueNames = [i \in DOMAIN t |-> t[i].name]
    BY <1>6 DEF ValueNames, ValueMembers
  <1>8. Len(t) \in Nat /\ DOMAIN t = 1 .. Len(t)
    BY <1>2
  <1>9. /\ \A i \in 1 .. Len(t) : i \in DOMAIN asset.order /\ asset.order[i] = t[i].name
        /\ job.variables = {t[i].name : i \in 1 .. Len(t)}
    BY <1>3 DEF Ordered
  <1>10. asset.order \in Seq(MemberNames) /\ Distinct(asset.order)
    BY DEF ShapeInv, BlueprintOK, Distinct
  <1>11. Kept(asset.order, job.variables) = ValueNames
    <2> DEFINE n == Len(t)
    <2>1. n \in Nat /\ DOMAIN t = 1 .. n
      BY <1>8
    <2>2. /\ \A i \in 1 .. n : i \in DOMAIN asset.order /\ asset.order[i] = t[i].name
          /\ job.variables = {t[i].name : i \in 1 .. n}
      BY <1>9
    <2> HIDE DEF n
    <2>3. job.variables = {asset.order[i] : i \in 1 .. n}
      BY <2>2
    <2>4. Kept(asset.order, {asset.order[i] : i \in 1 .. n}) = [i \in 1 .. n |-> asset.order[i]]
      BY <1>10, <2>1, <2>2, KeptFirst
    <2>5. [i \in 1 .. n |-> asset.order[i]] = [i \in DOMAIN t |-> t[i].name]
      BY <2>1, <2>2
    <2> QED
      BY <1>7, <2>3, <2>4, <2>5
  <1>12. Elements(t) = ValueMembers
    <2>1. Elements(Kept(source, ValueMembers)) = Elements(source) \cap ValueMembers
      BY <1>1, KeptMembers
    <2> QED
      BY <1>5, <1>6, <2>1
  <1>13. job.variables = {m.name : m \in ValueMembers}
    BY <1>8, <1>9, <1>12 DEF Elements
  <1>14. \A m \in ValueMembers : m \in SeenProperties /\ IsValue(m)
    BY <1>1 DEF ValueMembers
  <1>15. {k \in Wanted : IsProperty(k) /\ ~IsValue(k)} = {k \in SeenProperties : ~IsValue(k)}
    BY <1>1
  <1> QED
    BY <1>11, <1>13, <1>14, <1>15 DEF Valued, ValuesGiven, ComponentsGiven

\* What a refresh leaves behind outside a play session.
Left(b) ==
    /\ b.graphs = Pruned.graphs /\ b.events = Pruned.events /\ b.overrides = Pruned.overrides
    /\ b.inputs = Pruned.inputs /\ b.variables = Pruned.variables /\ b.order = Pruned.order
    /\ b.components = Pruned.components

LEMMA FinishIs ==
    ASSUME ShapeInv, Finish, ~playing
    PROVE  /\ Left(asset') /\ Running /\ job.todo = <<>>
           /\ UNCHANGED <<base, source, playing>>
  <1> DEFINE p == Pruned
             needSave == job.needSave \/ p # asset \/ asset.hasConstructor # job.constructs
             result == [p EXCEPT !.hasConstructor = job.constructs]
  <1>1. /\ asset' = (IF ~needSave THEN asset ELSE result)
        /\ Running /\ job.todo = <<>> /\ UNCHANGED <<base, source, playing>>
    BY DEF Finish
  <1>2. Shaped(p) /\ BlueprintOK(p) /\ job.constructs \in BOOLEAN
    BY <1>1, PrunedIs, PrunedOK DEF ShapeInv, Walking
  <1>3. ~needSave => p = asset
    OBVIOUS
  <1> HIDE DEF p, needSave
  <1>4. /\ result.graphs = p.graphs /\ result.events = p.events
        /\ result.overrides = p.overrides /\ result.inputs = p.inputs
        /\ result.variables = p.variables /\ result.order = p.order
        /\ result.components = p.components
    BY <1>2, ConstructedIs
  <1> HIDE DEF result
  <1>5. asset' = p \/ asset' = result
    BY <1>1, <1>3
  <1> QED
    BY <1>1, <1>4, <1>5 DEF Left, p

LEMMA DoneRuns ==
    ASSUME NEW w, IsWork(w), Becomes(Done(w))
    PROVE  Running'
  <1>1. Done(w) = [w EXCEPT !.job = [w.job EXCEPT !.todo = Tail(w.job.todo), !.params = <<>>]]
    BY DEF Done, IsWork, IsJob
  <1>2. Done(w).job.phase = "running"
    BY <1>1 DEF IsWork, IsJob
  <1> QED
    BY <1>2 DEF Becomes, Running

\* A refresh goes on until its end.
LEMMA WalkRuns ==
    ASSUME ShapeInv, Skip \/ AddParameter \/ EmitFunction \/ EmitProperty
    PROVE  Running'
  <1>1. Running /\ IsJob(job)
    BY DEF ShapeInv, Walking, Skip, AddParameter, EmitFunction, EmitProperty, Step
  <1>2. Tracked(Work)
    BY <1>1 DEF Tracked, Work, IsWork, IsJob
  <1>3. Becomes(Done(Work)) => Running'
    BY <1>2, DoneRuns DEF Tracked
  <1>4. CASE Skip
    BY <1>3, <1>4 DEF Skip
  <1>5. CASE AddParameter
    <2>1. CASE \E x : job' = [job EXCEPT !.params = x]
      BY <1>1, <2>1 DEF IsJob, Running
    <2>2. CASE Becomes(Done(Work))
      BY <1>3, <2>2
    <2> QED
      BY <1>5, <2>1, <2>2 DEF AddParameter
  <1>6. CASE EmitFunction
    <2>1. Tracked(ApplyToFunction(AddFunction(Member), Member))
      BY <1>2, AddFunctionTracked, ApplyToFunctionTracked
    <2>2. Becomes(Done(Work)) \/ Becomes(Done(ApplyToFunction(AddFunction(Member), Member)))
      BY <1>6 DEF EmitFunction
    <2> QED
      BY <1>3, <2>1, <2>2, DoneRuns DEF Tracked
  <1>7. CASE EmitProperty
    <2>1. PICK w : /\ w = AddMemberVariable(Member, Pin(Member.type))
                   /\ Becomes(Done(AddVariable([w EXCEPT !.stopped = FALSE], Member)))
      BY <1>7 DEF EmitProperty
    <2>2. Tracked(w)
      BY <1>2, <2>1, AddMemberVariableTracked
    <2>3. Tracked(AddVariable([w EXCEPT !.stopped = FALSE], Member))
      BY <2>2, ResumedTracked, AddVariableTracked
    <2> QED
      BY <2>1, <2>3, DoneRuns DEF Tracked
  <1> QED
    BY <1>4, <1>5, <1>6, <1>7

\* A settled blueprint has just been settled or is as it was.
LEMMA SettledStep ==
    ASSUME ShapeInv, [Next]_vars, Settled'
    PROVE  (Finish /\ ~playing) \/ (Settled /\ UNCHANGED <<base, source, asset>>)
  <1>1. CASE Begin
    <2>1. job'.phase = "running"
      BY <1>1 DEF Begin, Idle
    <2> QED
      BY <2>1 DEF Settled
  <1>2. CASE Skip \/ AddParameter \/ EmitFunction \/ EmitProperty
    BY <1>2, WalkRuns DEF Settled, Running
  <1>3. CASE Finish
    <2>1. fresh' = ~playing
      BY <1>3 DEF Finish
    <2> QED
      BY <1>3, <2>1 DEF Settled
  <1>4. CASE BeginWithoutBlueprint \/ TogglePlay
    BY <1>4 DEF BeginWithoutBlueprint, TogglePlay, Settled
  <1>5. CASE \E d \in Declarations : Edit(d)
    BY <1>5 DEF Edit, Settled
  <1>6. CASE UNCHANGED vars
    BY <1>6 DEF vars, Settled
  <1> QED
    BY <1>1, <1>2, <1>3, <1>4, <1>5, <1>6 DEF Next

-----------------------------------------------------------------------------
(* The variables of a settled blueprint.                                   *)

SettledValues ==
    /\ asset.order = ValueNames
    /\ \A m \in ValueMembers :
          m.name \in DOMAIN asset.variables /\ VarFollows(m, asset.variables[m.name])
    /\ DOMAIN asset.components = {m.name : m \in {k \in Wanted : IsProperty(k) /\ ~IsValue(k)}}
SettledValuesInv == Settled => SettledValues

LEMMA FinishSettles ==
    ASSUME ShapeInv, ValueInv, Finish, ~playing
    PROVE  SettledValues'
  <1>1. /\ Left(asset') /\ Running /\ job.todo = <<>> /\ UNCHANGED <<base, source, playing>>
    BY FinishIs
  <1>2. Valued /\ Shaped(asset)
    BY <1>1 DEF ValueInv, ShapeInv
  <1>3. /\ Kept(asset.order, job.variables) = ValueNames
        /\ \A m \in ValueMembers :
              /\ m.name \in job.variables /\ m.name \in DOMAIN asset.variables
              /\ VarFollows(m, asset.variables[m.name])
        /\ job.components = {m.name : m \in {k \in Wanted : IsProperty(k) /\ ~IsValue(k)}}
        /\ job.components \subseteq DOMAIN asset.components
    BY <1>1, <1>2, FinishedValues
  <1>4. /\ asset'.order = Kept(asset.order, job.variables)
        /\ DOMAIN asset'.variables = DOMAIN asset.variables \cap job.variables
        /\ \A n \in DOMAIN asset'.variables : asset'.variables[n] = asset.variables[n]
        /\ DOMAIN asset'.components = DOMAIN asset.components \cap job.components
    BY <1>1, <1>2, PrunedIs DEF Left
  <1>5. \A x : IsValue(x)' <=> IsValue(x)
    BY <1>1 DEF IsValue, IsComponent
  <1>6. Wanted' = Wanted /\ ValueMembers' = ValueMembers
    BY <1>1, <1>5 DEF Wanted, ValueMembers
  <1>7. ValueNames' = ValueNames
    BY <1>1, <1>6 DEF ValueNames, ValueMembers
  <1>8. \A m \in ValueMembers :
            m.name \in DOMAIN asset'.variables /\ VarFollows(m, asset'.variables[m.name])
    BY <1>3, <1>4
  <1> QED
    BY <1>3, <1>4, <1>5, <1>6, <1>7, <1>8 DEF SettledValues

LEMMA SettledValuesInvariant == Spec => []SettledValuesInv
  <1>1. Init => SettledValuesInv
    BY DEF Init, SettledValuesInv, Settled
  <1>2. ASSUME ShapeInv, ValueInv, SettledValuesInv, [Next]_vars
        PROVE  SettledValuesInv'
    <2>1. SUFFICES ASSUME Settled' PROVE SettledValues'
      BY DEF SettledValuesInv
    <2>2. CASE Finish /\ ~playing
      BY <1>2, <2>2, FinishSettles
    <2>3. CASE Settled /\ UNCHANGED <<base, source, asset>>
      <3>1. SettledValues
        BY <1>2, <2>3 DEF SettledValuesInv
      <3>2. \A x : IsValue(x)' <=> IsValue(x)
        BY <2>3 DEF IsValue, IsComponent
      <3>3. Wanted' = Wanted /\ ValueMembers' = ValueMembers
        BY <2>3, <3>2 DEF Wanted, ValueMembers
      <3>4. ValueNames' = ValueNames
        BY <2>3, <3>3 DEF ValueNames, ValueMembers
      <3> QED
        BY <2>3, <3>1, <3>2, <3>3, <3>4 DEF SettledValues
    <2> QED
      BY <1>2, <2>1, <2>2, <2>3, SettledStep
  <1> QED
    BY <1>1, <1>2, ShapeInvariant, ValueInvariant, PTL DEF Spec

\* Of the flags a property asks for none is lost and none is added.
LEMMA FlagsAsked ==
    ASSUME NEW m \in PropertyDeclaration, ~Wordy(m), NEW pin
    PROVE  (VariableFlags(m, pin) \cup m.meta.flags) \ Common = Asking(m) \ Common
  <1>1. Len(m.comment) \in Nat
    BY DEF PropertyDeclaration
  <1>2. Len(m.comment) < 2 /\ "CPF_RepSkip" \notin Asking(m)
    BY <1>1 DEF Wordy
  <1>3. CommentFlags(m.comment) = Elements(m.comment) \cap CommentNames
    BY <1>2 DEF CommentFlags, Elements
  <1>5. (LocalFlags(m) \cup m.meta.flags) \ Common = Asking(m) \ Common
    BY <1>3 DEF LocalFlags, Asking, Common
  <1>6. "CPF_RepSkip" \notin LocalFlags(m) \cup m.meta.flags
    BY <1>2, <1>5 DEF Common
  <1>7. InFlags(m) \ Common = (LocalFlags(m) \cup m.meta.flags) \ Common
    BY <1>6 DEF InFlags, Widened, Common
  <1>8. m.meta.flags \ Common \subseteq Asking(m) \ Common
    BY DEF Asking
  <1> QED
    BY <1>5, <1>7, <1>8 DEF VariableFlags, Common

\* VariablesFollow for every class: after a refresh outside a play session a
\* variable has the type, the flags, the condition and the keys that its property
\* asks for now, and whoever is notified is named, whatever earlier texts asked
\* for and whatever was refused in between (AddMemberVariable, ApplyToVariable).
THEOREM VariablesAreAsAsked == Spec => []VariablesFollow
  <1>1. ASSUME ShapeInv, SettledValuesInv PROVE VariablesFollow
    <2> SUFFICES ASSUME Settled, NEW m \in Wanted, IsProperty(m), IsValue(m), ~Wordy(m)
                 PROVE  LET v == asset.variables[m.name]
                        IN  /\ v.pin = Pin(m.type)
                            /\ v.flags \ Common = Asking(m) \ Common
                            /\ v.condition = m.condition
                            /\ v.keys = m.meta.keys
                            /\ "CPF_RepNotify" \in v.flags => v.notify # NoName
      BY DEF VariablesFollow
    <2> DEFINE v == asset.variables[m.name]
    <2>1. m.name \in DOMAIN asset.variables /\ VarFollows(m, v)
      BY <1>1 DEF SettledValuesInv, SettledValues, ValueMembers
    <2>2. Notified(v)
      BY <1>1, <2>1 DEF ShapeInv
    <2> HIDE DEF v
    <2>3. m \in PropertyDeclaration
      <3>1. source \in Seq(Members)
        BY <1>1, CountedIs DEF ShapeInv
      <3>2. m \in Members
        BY <3>1 DEF Wanted
      <3> QED
        BY <3>2 DEF Members, MethodDeclaration, IsProperty
    <2>4. v.flags \ Common = Asking(m) \ Common
      BY <2>1, <2>3, FlagsAsked DEF VarFollows
    <2>5. /\ v.pin = Pin(m.type) /\ v.condition = m.condition /\ v.keys = m.meta.keys
          /\ "CPF_RepNotify" \in v.flags => v.notify # NoName
      BY <2>1, <2>2 DEF VarFollows, Notified
    <2> QED
      BY <2>4, <2>5 DEF v
  <1> QED
    BY <1>1, ShapeInvariant, SettledValuesInvariant, PTL

-----------------------------------------------------------------------------
(* The parameters that have been read.                                     *)

Entry(m, i) == [name |-> m.params[i].name, pin |-> Pin(m.params[i].type)]
Read(m, k) == [i \in 1 .. k |-> Entry(m, i)]
HavePins(m, k) == \A i \in 1 .. k : Pin(m.params[i].type) # NoPin
ParamsInv ==
    Running /\ job.todo # <<>> =>
        \E k \in Nat : job.params = Read(Member, k) /\ HavePins(Member, k)

LEMMA ReadIs ==
    ASSUME NEW m, NEW k \in Nat
    PROVE  /\ Len(Read(m, k)) = k
           /\ Append(Read(m, k), Entry(m, k + 1)) = Read(m, k + 1)
  <1> DEFINE E == {Entry(m, i) : i \in 1 .. k + 1}
             s == Read(m, k)
             t == Read(m, k + 1)
             e == Entry(m, k + 1)
  <1>1. \A i \in 1 .. k + 1 : Entry(m, i) \in E
    OBVIOUS
  <1>2. s \in Seq(E) /\ Len(s) = k /\ \A i \in 1 .. k : s[i] = Entry(m, i)
    <2> HIDE DEF E
    <2> QED
      BY <1>1 DEF Read
  <1>3. t \in Seq(E) /\ Len(t) = k + 1 /\ \A i \in 1 .. k + 1 : t[i] = Entry(m, i)
    <2> HIDE DEF E
    <2> QED
      BY <1>1 DEF Read
  <1>4. e \in E
    BY <1>1
  <1> HIDE DEF E, s, t, e
  <1>5. Append(s, e) \in Seq(E) /\ Len(Append(s, e)) = k + 1
    BY <1>2, <1>4
  <1>6. ASSUME NEW i \in 1 .. k + 1 PROVE Append(s, e)[i] = t[i]
    <2>1. CASE i = k + 1
      BY <1>2, <1>3, <1>4, <2>1 DEF e
    <2>2. CASE i # k + 1
      <3>1. i \in 1 .. k
        BY <2>2
      <3> QED
        BY <1>2, <1>3, <1>4, <3>1
    <2> QED
      BY <2>1, <2>2
  <1>7. Append(s, e) = t
    BY <1>3, <1>5, <1>6
  <1> QED
    BY <1>2, <1>7 DEF s, t, e

LEMMA NoneRead == ASSUME NEW m PROVE <<>> = Read(m, 0) /\ HavePins(m, 0)
  BY DEF Read, HavePins

\* A function is given what its method declares.
LEMMA ParamsRead ==
    ASSUME ParamsInv, ShapeInv, EmitFunction
    PROVE  /\ job.params = Signature(Member)
           /\ \A i \in DOMAIN Member.params : Pin(Member.params[i].type) # NoPin
  <1>1. /\ Running /\ job.todo # <<>> /\ IsMethod(Member)
        /\ Len(job.params) = Len(Member.params) /\ source \in Declarations /\ Walking
    BY DEF EmitFunction, Step, ShapeInv
  <1>2. PICK k \in Nat : job.params = Read(Member, k) /\ HavePins(Member, k)
    BY <1>1 DEF ParamsInv
  <1>3. Member.params \in Seq(Parameter)
    <2>1. Member \in Members
      BY <1>1, MemberIs
    <2> QED
      BY <1>1, <2>1 DEF Members, MethodDeclaration, PropertyDeclaration, IsMethod
  <1>4. Len(Member.params) = k
    BY <1>1, <1>2, ReadIs
  <1>5. DOMAIN Member.params = 1 .. k
    BY <1>3, <1>4
  <1> QED
    BY <1>2, <1>5 DEF Read, Signature, Entry, HavePins

LEMMA DoneReads ==
    ASSUME NEW w, IsWork(w), Becomes(Done(w))
    PROVE  ParamsInv'
  <1> DEFINE d == Done(w)
  <1>1. d = [w EXCEPT !.job = [w.job EXCEPT !.todo = Tail(w.job.todo), !.params = <<>>]]
    BY DEF Done, IsWork, IsJob
  <1>2. d.job.params = <<>>
    <2> HIDE DEF d
    <2> QED
      BY <1>1 DEF IsWork, IsJob
  <1>3. job'.params = Read(Member', 0) /\ HavePins(Member', 0)
    BY <1>2, NoneRead DEF Becomes
  <1> QED
    BY <1>3 DEF ParamsInv

LEMMA ParamsStep ==
    ASSUME ShapeInv, ParamsInv, [Next]_vars
    PROVE  ParamsInv'
  <1>1. CASE Begin
    <2>1. job'.params = Read(Member', 0) /\ HavePins(Member', 0)
      BY <1>1, NoneRead DEF Begin, Idle
    <2> QED
      BY <2>1 DEF ParamsInv
  <1>2. CASE Skip \/ AddParameter \/ EmitFunction \/ EmitProperty
    <2>1. Running /\ IsJob(job) /\ job.todo # <<>>
      BY <1>2 DEF ShapeInv, Walking, Skip, AddParameter, EmitFunction, EmitProperty, Step
    <2>2. Tracked(Work)
      BY <2>1 DEF Tracked, Work, IsWork, IsJob
    <2>3. Becomes(Done(Work)) => ParamsInv'
      BY <2>2, DoneReads DEF Tracked
    <2>4. CASE Skip
      BY <2>3, <2>4 DEF Skip
    <2>5. CASE AddParameter
      <3>1. CASE Becomes(Done(Work))
        BY <2>3, <3>1
      <3>2. CASE LET p == Member.params[Len(job.params) + 1]
                 IN  /\ Pin(p.type) # NoPin
                     /\ job' = [job EXCEPT !.params =
                                  Append(@, [name |-> p.name, pin |-> Pin(p.type)])]
        <4>1. PICK k \in Nat : job.params = Read(Member, k) /\ HavePins(Member, k)
          BY <2>1 DEF ParamsInv
        <4>2. Len(job.params) = k
          BY <4>1, ReadIs
        <4>3. /\ job' = [job EXCEPT !.params = Append(job.params, Entry(Member, k + 1))]
              /\ Pin(Member.params[k + 1].type) # NoPin
          BY <3>2, <4>2 DEF Entry
        <4>4. job'.params = Append(job.params, Entry(Member, k + 1)) /\ job'.todo = job.todo
          BY <2>1, <4>3 DEF IsJob
        <4>5. job'.params = Read(Member, k + 1) /\ Member' = Member
          BY <4>1, <4>4, ReadIs DEF Member
        <4>6. HavePins(Member, k + 1)
          <5>1. \A i \in 1 .. k + 1 : i \in 1 .. k \/ i = k + 1
            OBVIOUS
          <5> QED
            BY <4>1, <4>3, <5>1 DEF HavePins
        <4> QED
          BY <4>5, <4>6 DEF ParamsInv
      <3> QED
        BY <2>5, <3>1, <3>2 DEF AddParameter
    <2>6. CASE EmitFunction
      <3>1. Tracked(ApplyToFunction(AddFunction(Member), Member))
        BY <2>2, AddFunctionTracked, ApplyToFunctionTracked
      <3>2. Becomes(Done(Work)) \/ Becomes(Done(ApplyToFunction(AddFunction(Member), Member)))
        BY <2>6 DEF EmitFunction
      <3> QED
        BY <2>3, <3>1, <3>2, DoneReads DEF Tracked
    <2>7. CASE EmitProperty
      <3>1. PICK w : /\ w = AddMemberVariable(Member, Pin(Member.type))
                     /\ Becomes(Done(AddVariable([w EXCEPT !.stopped = FALSE], Member)))
        BY <2>7 DEF EmitProperty
      <3>2. Tracked(w)
        BY <2>2, <3>1, AddMemberVariableTracked
      <3>3. Tracked(AddVariable([w EXCEPT !.stopped = FALSE], Member))
        BY <3>2, ResumedTracked, AddVariableTracked
      <3> QED
        BY <3>1, <3>3, DoneReads DEF Tracked
    <2> QED
      BY <1>2, <2>4, <2>5, <2>6, <2>7
  <1>3. CASE Finish \/ BeginWithoutBlueprint \/ (\E d \in Declarations : Edit(d)) \/ TogglePlay
    <2>1. job'.phase = "idle"
      BY <1>3 DEF Finish, BeginWithoutBlueprint, Edit, TogglePlay, Idle
    <2> QED
      BY <2>1 DEF ParamsInv, Running
  <1>4. CASE UNCHANGED vars
    BY <1>4 DEF vars, ParamsInv, Running, Member
  <1> QED
    BY <1>1, <1>2, <1>3, <1>4 DEF Next

LEMMA ParamsInvariant == Spec => []ParamsInv
  <1>1. Init => ParamsInv
    BY DEF Init, ParamsInv, Running, Idle
  <1> QED
    BY <1>1, ParamsStep, ShapeInvariant, PTL DEF Spec

-----------------------------------------------------------------------------
(* A function has one place only.                                          *)

\* Some text of the class has a replicated method of this name.
EventName(n) ==
    \E d \in Declarations : \E i \in DOMAIN d :
        IsMethod(d[i]) /\ Replicated(d[i]) /\ d[i].name = n
ApartIn(a) == (\A n : Apart(a, n)) /\ \A n \in DOMAIN a.events : EventName(n)
ApartInv == ApartIn(asset)

LEMMA FunctionApart ==
    ASSUME ApartInv, NEW m, m \in Elements(source), source \in Declarations, IsMethod(m),
           NEW w, Kind(w, m)
    PROVE  ApartIn(w.asset)
  <1> DEFINE n == m.name
             a == w.asset
  <1>1. /\ FunctionFrame(asset, a, n) /\ Apart(asset, n) /\ Apart(a, n)
        /\ n \in DOMAIN a.events => n \in DOMAIN asset.events \/ Replicated(m)
    BY DEF Kind, Grows, ApartInv, ApartIn
  <1> HIDE DEF a
  <1>2. ASSUME NEW x PROVE Apart(a, x)
    <2>1. CASE x = n
      BY <1>1, <2>1
    <2>2. CASE x # n
      <3>1. /\ x \in DOMAIN a.graphs <=> x \in DOMAIN asset.graphs
            /\ x \in DOMAIN a.events <=> x \in DOMAIN asset.events
            /\ x \in a.overrides <=> x \in asset.overrides
        BY <1>1, <2>2 DEF FunctionFrame, SameBut
      <3> QED
        BY <3>1 DEF Apart, ApartInv, ApartIn
    <2> QED
      BY <2>1, <2>2
  <1>3. ASSUME NEW x \in DOMAIN a.events PROVE EventName(x)
    <2>1. CASE x \in DOMAIN asset.events
      BY <2>1 DEF ApartInv, ApartIn
    <2>2. CASE x \notin DOMAIN asset.events
      <3>1. x = n /\ Replicated(m)
        BY <1>1, <1>3, <2>2 DEF FunctionFrame, SameBut
      <3>2. PICK i \in DOMAIN source : m = source[i]
        BY DEF Elements
      <3> QED
        BY <3>1, <3>2 DEF EventName
    <2> QED
      BY <2>1, <2>2
  <1> QED
    BY <1>2, <1>3 DEF ApartIn, a

\* A notification takes the name of nothing else.
LEMMA NotificationApart ==
    ASSUME NotificationsApart, ApartInv, base \in Bases, source \in Declarations,
           NEW m, m \in Elements(source), IsProperty(m)
    PROVE  OnRep(m.name) \notin DOMAIN asset.events /\ OnRep(m.name) \notin asset.overrides
  <1>1. PICK i \in DOMAIN source : m = source[i]
    BY DEF Elements
  <1>2. OnRep(m.name) \notin ParentEvents[base] /\ ~EventName(OnRep(m.name))
    BY <1>1 DEF NotificationsApart, EventName, Replicated
  <1> QED
    BY <1>2 DEF ApartInv, ApartIn, Apart

LEMMA ValueApart ==
    ASSUME NotificationsApart, ApartInv, base \in Bases, source \in Declarations,
           NEW m, m \in Elements(source), IsProperty(m),
           NEW b, VariableFrame(asset, b, m.name)
    PROVE  ApartIn(b)
  <1> DEFINE n == OnRep(m.name)
  <1>1. /\ b.events = asset.events /\ b.overrides = asset.overrides
        /\ DOMAIN b.graphs \subseteq DOMAIN asset.graphs \cup {n}
    BY DEF VariableFrame
  <1>2. n \notin DOMAIN asset.events /\ n \notin asset.overrides
    BY NotificationApart
  <1> HIDE DEF n
  <1>3. ASSUME NEW x PROVE Apart(b, x)
    <2>1. Apart(asset, x)
      BY DEF ApartInv, ApartIn
    <2> QED
      BY <1>1, <1>2, <2>1 DEF Apart
  <1> QED
    BY <1>1, <1>3 DEF ApartInv, ApartIn

LEMMA ApartStep ==
    ASSUME NotificationsApart, ShapeInv, ApartInv, [Next]_vars
    PROVE  ApartInv'
  <1>0. \A n : EventName(n)' <=> EventName(n)
    BY DEF EventName
  <1>1. ASSUME NEW a, ApartIn(a), asset' = a, base' = base PROVE ApartInv'
    BY <1>0, <1>1 DEF ApartInv, ApartIn, Apart, Parents, HasEventGraph
  <1>2. CASE Begin \/ BeginWithoutBlueprint \/ (\E d \in Declarations : Edit(d)) \/ TogglePlay
             \/ UNCHANGED vars
    <2>1. UNCHANGED <<asset, base>>
      BY <1>2 DEF Begin, BeginWithoutBlueprint, Edit, TogglePlay, vars
    <2> QED
      BY <1>1, <2>1 DEF ApartInv
  <1>3. CASE Finish
    <2> DEFINE left == IF playing THEN asset ELSE Pruned
               result == [left EXCEPT !.hasConstructor = job.constructs]
    <2>1. (asset' = asset \/ asset' = left \/ asset' = result) /\ UNCHANGED base
      BY <1>3 DEF Finish
    <2>2. /\ Shaped(asset) /\ Shaped(left) /\ BlueprintOK(left) /\ job.constructs \in BOOLEAN
          /\ DOMAIN left.graphs \subseteq DOMAIN asset.graphs
          /\ DOMAIN left.events \subseteq DOMAIN asset.events
          /\ left.overrides \subseteq asset.overrides
      BY <1>3, PrunedIs, PrunedOK DEF ShapeInv, Finish, Walking, FunctionKinds
    <2> HIDE DEF left
    <2>3. ApartIn(left)
      BY <2>2 DEF ApartInv, ApartIn, Apart
    <2>4. /\ result.graphs = left.graphs /\ result.events = left.events
          /\ result.overrides = left.overrides
      BY <2>2, ConstructedIs
    <2> HIDE DEF result
    <2>5. ApartIn(result)
      BY <2>3, <2>4 DEF ApartIn, Apart
    <2> QED
      BY <1>1, <2>1, <2>3, <2>5 DEF ApartInv
  <1>4. CASE Skip \/ AddParameter \/ EmitFunction \/ EmitProperty
    <2>1. /\ Running /\ IsJob(job) /\ Shaped(asset) /\ job.todo # <<>> /\ UNCHANGED base
          /\ source \in Declarations /\ base \in Bases /\ Walking
      BY <1>4 DEF ShapeInv, Walking, Skip, AddParameter, EmitFunction, EmitProperty, Step
    <2>2. Member \in Elements(source) /\ Member.name \in MemberNames
      BY <2>1, MemberIs
    <2>3. ASSUME NEW w, IsWork(w), Becomes(Done(w)), ApartIn(w.asset) PROVE ApartInv'
      <3>1. Done(w) = [w EXCEPT !.job = [w.job EXCEPT !.todo = Tail(w.job.todo), !.params = <<>>]]
        BY <2>3 DEF Done, IsWork, IsJob
      <3>2. asset' = w.asset
        BY <2>3, <3>1 DEF Becomes, IsWork
      <3> QED
        BY <1>1, <2>1, <2>3, <3>2
    <2>4. Becomes(Done(Work)) => ApartInv'
      <3>1. IsWork(Work) /\ Work.asset = asset
        BY <2>1, WorkIs DEF Grows
      <3> HIDE DEF Work
      <3> QED
        BY <2>3, <3>1 DEF ApartInv
    <2>5. CASE Skip
      BY <2>4, <2>5 DEF Skip
    <2>6. CASE AddParameter
      <3>1. CASE UNCHANGED asset
        BY <1>1, <2>1, <3>1 DEF ApartInv
      <3>2. CASE Becomes(Done(Work))
        BY <2>4, <3>2
      <3> QED
        BY <2>6, <3>1, <3>2 DEF AddParameter
    <2>7. CASE EmitFunction
      <3> DEFINE m == Member
                 w == ApplyToFunction(AddFunction(m), m)
      <3>1. CASE Becomes(Done(Work))
        BY <2>4, <3>1
      <3>2. CASE Becomes(Done(w))
        <4>1. m \in Elements(source) /\ IsMethod(m)
          BY <2>2, <2>7 DEF EmitFunction
        <4> HIDE DEF m
        <4>2. Kind(w, m)
          BY <2>1, FunctionWork
        <4> HIDE DEF w
        <4>3. ApartIn(w.asset)
          BY <2>1, <4>1, <4>2, FunctionApart
        <4> QED
          BY <2>3, <3>2, <4>2, <4>3 DEF Kind, Grows
      <3> QED
        BY <2>7, <3>1, <3>2 DEF EmitFunction
    <2>8. CASE EmitProperty
      <3> DEFINE m == Member
                 w == PropertyWork(m)
      <3>1. Becomes(Done(w)) /\ IsProperty(m) /\ Pin(m.type) # NoPin /\ m \in Elements(source)
            /\ m.name \in MemberNames
        BY <2>2, <2>8 DEF EmitProperty, PropertyWork, Fits, IsMethod, IsProperty
      <3> HIDE DEF m
      <3>2. CASE IsValue(m)
        <4>1. Listed(asset, MemberNames) /\ job.index \in Nat
          BY <2>1 DEF ShapeInv, Walking, BlueprintOK, Listed, Distinct
        <4>2. OnRep(m.name) # NoName
          BY <3>1, NameAssumption
        <4>3. Stage(w, m.name, MemberNames)
          BY <2>1, <3>1, <3>2, <4>1, <4>2, ValueWork DEF ShapeInv
        <4> HIDE DEF w
        <4>4. ApartIn(w.asset)
          BY <2>1, <3>1, <4>3, ValueApart DEF Stage
        <4> QED
          BY <2>3, <3>1, <4>3, <4>4 DEF Stage
      <3>3. CASE ~IsValue(m)
        <4>1. m.name \notin DOMAIN asset.variables
          BY <2>1, <3>1, <3>3, NamesDiffer DEF ShapeInv
        <4>2. /\ IsWork(w) /\ w.asset.graphs = asset.graphs /\ w.asset.events = asset.events
              /\ w.asset.overrides = asset.overrides
          BY <2>1, <3>3, <4>1, ComponentWork
        <4> HIDE DEF w
        <4>3. ApartIn(w.asset)
          BY <4>2 DEF ApartInv, ApartIn, Apart
        <4> QED
          BY <2>3, <3>1, <4>2, <4>3
      <3> QED
        BY <3>2, <3>3
    <2> QED
      BY <1>4, <2>5, <2>6, <2>7, <2>8
  <1> QED
    BY <1>2, <1>3, <1>4 DEF Next

LEMMA ApartInvariant == ASSUME NotificationsApart PROVE Spec => []ApartInv
  <1>1. Init => ApartInv
    BY DEF Init, ApartInv, ApartIn, Apart, Empty, NoEntries
  <1>2. ShapeInv /\ ApartInv /\ [Next]_vars => ApartInv'
    BY ApartStep
  <1> QED
    BY <1>1, <1>2, ShapeInvariant, PTL DEF Spec

-----------------------------------------------------------------------------
(* The functions of the members that have been walked over.                *)

Ours == {OnRep(n) : n \in job.variables}
PlacedNames == {m.name : m \in {k \in SeenMethods : Placed(k)}}
MethodPlaced(m) ==
    /\ Overrides(m) => m.name \in (job.overrides \cap asset.overrides) \cup job.functions
    /\ ~Overrides(m) /\ IsInput(m) /\ HasEventGraph => m.name \in asset.inputs
    /\ ~Overrides(m) /\ Placed(m) => m.name \in job.functions
MethodFollows(m) ==
    ~Overrides(m) /\ ~IsInput(m) /\ m.name \notin Ours =>
        /\ Replicated(m) /\ HasEventGraph =>
              m.name \in DOMAIN asset.events /\ EventFollows(m, Signature(m), asset.events[m.name])
        /\ ~Replicated(m) =>
              m.name \in DOMAIN asset.graphs /\ GraphFollows(m, Signature(m), asset.graphs[m.name])
Given ==
    /\ job.functions \subseteq PlacedNames \cup Ours
    /\ job.overrides \subseteq {m.name : m \in SeenMethods}
    /\ job.functions \subseteq DOMAIN asset.graphs \cup DOMAIN asset.events
    /\ \A m \in SeenMethods : MethodPlaced(m) /\ MethodFollows(m)
GivenInv == Running /\ ~playing => Given

LEMMA SameBase ==
    ASSUME UNCHANGED base
    PROVE  \A m : /\ Overrides(m)' <=> Overrides(m)
                  /\ Placed(m)' <=> Placed(m)
                  /\ HasEventGraph' <=> HasEventGraph
  BY DEF Overrides, Placed, HasEventGraph

\* What leaves the functions alone, but for the one of a notification.
LEMMA OtherGiven ==
    ASSUME Given, UNCHANGED base, SeenMethods' = SeenMethods,
           job.functions \subseteq job'.functions,
           job'.functions \subseteq job.functions \cup Ours',
           job'.overrides = job.overrides, job.variables \subseteq job'.variables,
           job'.functions \subseteq DOMAIN asset'.graphs \cup DOMAIN asset'.events,
           asset'.events = asset.events, asset'.overrides = asset.overrides,
           asset'.inputs = asset.inputs, DOMAIN asset.graphs \subseteq DOMAIN asset'.graphs,
           \A x \in DOMAIN asset.graphs : asset'.graphs[x] = asset.graphs[x]
    PROVE  Given'
  <1>1. Ours \subseteq Ours'
    BY DEF Ours
  <1>2. PlacedNames' = PlacedNames
    BY SameBase DEF PlacedNames
  <1>3. ASSUME NEW m \in SeenMethods PROVE MethodPlaced(m)'
    <2>1. MethodPlaced(m)
      BY DEF Given
    <2> QED
      BY <2>1, SameBase DEF MethodPlaced
  <1>4. ASSUME NEW m \in SeenMethods PROVE MethodFollows(m)'
    <2>1. MethodFollows(m)
      BY DEF Given
    <2> QED
      BY <1>1, <2>1, SameBase DEF MethodFollows
  <1>5. job'.functions \subseteq PlacedNames' \cup Ours'
    BY <1>1, <1>2 DEF Given
  <1>6. job'.overrides \subseteq {m.name : m \in SeenMethods'}
    BY DEF Given
  <1> QED
    BY <1>3, <1>4, <1>5, <1>6 DEF Given

LEMMA SkipGiven ==
    ASSUME ShapeInv, Given, Running, job.todo # <<>>, UNCHANGED <<base, source>>,
           Becomes(Done(Work)), ~(IsMethod(Member) /\ Translates(Member))
    PROVE  Given'
  <1>1. IsWork(Work) /\ Work.asset = asset /\ Work.job = job
    BY WorkIs DEF ShapeInv, Walking, Grows
  <1>2. source \in Declarations /\ Walking
    BY DEF ShapeInv
  <1> HIDE DEF Work
  <1>3. /\ asset' = asset /\ Walked' = Walked + 1 /\ Counted' = Counted
        /\ job'.functions = job.functions /\ job'.overrides = job.overrides
        /\ job'.variables = job.variables
    BY <1>1, <1>2, WalkStep
  <1>4. SeenMethods' = SeenMethods
    <2>1. Seen' = Seen \cup {Member}
      BY <1>2, <1>3, SeenGrows
    <2> QED
      BY <2>1 DEF SeenMethods
  <1> QED
    BY <1>3, <1>4, OtherGiven DEF Given

\* A method is dealt with.
LEMMA FunctionGiven ==
    ASSUME ShapeInv, ApartInv, ParamsInv, Given, EmitFunction, ~playing
    PROVE  Given'
  <1>0. PICK m : m = Member
    OBVIOUS
  <1> DEFINE n == m.name
             w == ApplyToFunction(AddFunction(m), m)
             a == w.asset
             j == w.job
  <1>1. /\ Running /\ IsJob(job) /\ Shaped(asset) /\ job.todo # <<>> /\ UNCHANGED <<base, source>>
        /\ source \in Declarations /\ base \in Bases /\ Walking
    BY DEF ShapeInv, EmitFunction, Step, Walking
  <1>2. /\ IsMethod(m) /\ m.name # "Constructor" /\ m.signatures = 1
        /\ job.params = Signature(m)
        /\ \A i \in DOMAIN m.params : Pin(m.params[i].type) # NoPin
    BY <1>0, ParamsRead DEF EmitFunction, Fits
  <1>3. CASE m.ret # Void /\ ReturnPin(m) = NoPin
    <2>1. Becomes(Done(Work))
      BY <1>0, <1>3 DEF EmitFunction
    <2>2. ~Translates(m)
      BY <1>2, <1>3 DEF Translates
    <2> QED
      BY <1>0, <1>1, <2>1, <2>2, SkipGiven
  <1>4. CASE ~(m.ret # Void /\ ReturnPin(m) = NoPin)
    <2>1. Becomes(Done(w))
      BY <1>0, <1>4 DEF EmitFunction
    <2>2. Translates(m)
      BY <1>2, <1>4 DEF Translates
    <2>3. /\ \A k \in SeenMethods : k.name # n
          /\ Apart(asset, n)
      <3>1. Single(m) /\ \A k \in SeenMethods : k \in Seen /\ Single(k)
        BY <2>2, TranslatesSingle DEF SeenMethods
      <3> QED
        BY <1>0, <1>1, <3>1, NewName DEF ApartInv, ApartIn
    <2>4. /\ Kind(w, m) /\ Placing(w, m)
          /\ ~Overrides(m) /\ ~IsInput(m) /\ n \notin job.functions =>
                /\ Replicated(m) /\ HasEventGraph =>
                      n \in DOMAIN a.events /\ EventFollows(m, job.params, a.events[n])
                /\ ~Replicated(m) =>
                      n \in DOMAIN a.graphs /\ GraphFollows(m, job.params, a.graphs[n])
      BY <1>1, <2>3, FunctionWork
    <2> HIDE DEF w
    <2>5. /\ IsWork(w) /\ FunctionFrame(asset, a, n) /\ JobFrame(j, n)
          /\ n \in j.functions => n \in job.functions \/ Placed(m)
          /\ n \in DOMAIN asset.graphs \cup DOMAIN asset.events =>
                n \in DOMAIN a.graphs \cup DOMAIN a.events
      BY <2>4 DEF Kind, Grows
    <2>6. /\ asset' = a /\ Walked' = Walked + 1 /\ Counted' = Counted
          /\ job'.functions = j.functions /\ job'.overrides = j.overrides
          /\ job'.variables = job.variables
      <3>1. /\ j.todo = job.todo /\ j.constructs = job.constructs /\ j.index = job.index
            /\ j.variables = job.variables
        BY <2>5 DEF JobFrame
      <3> QED
        BY <1>1, <2>1, <2>5, <3>1, WalkStep
    <2>7. SeenMethods' = SeenMethods \cup {m}
      <3>1. Seen' = Seen \cup {m}
        BY <1>0, <1>1, <2>6, SeenGrows
      <3> QED
        BY <1>2, <2>2, <3>1 DEF SeenMethods
    <2>8. Ours' = Ours
      BY <2>6 DEF Ours
    <2>9. /\ job.functions \subseteq j.functions /\ j.functions \subseteq job.functions \cup {n}
          /\ job.overrides \subseteq j.overrides /\ j.overrides \subseteq job.overrides \cup {n}
          /\ SameBut(asset.graphs, a.graphs, n) /\ SameBut(asset.events, a.events, n)
          /\ asset.overrides \subseteq a.overrides /\ asset.inputs \subseteq a.inputs
      BY <2>5 DEF JobFrame, FunctionFrame
    <2> HIDE DEF a, j
    <2>10. PlacedNames' = PlacedNames \cup (IF Placed(m) THEN {n} ELSE {})
      BY <1>1, <2>7, SameBase DEF PlacedNames
    <2>11. job'.functions \subseteq PlacedNames' \cup Ours'
      BY <2>5, <2>6, <2>8, <2>9, <2>10 DEF Given
    <2>12. job'.overrides \subseteq {k.name : k \in SeenMethods'}
      BY <2>6, <2>7, <2>9 DEF Given
    <2>13. job'.functions \subseteq DOMAIN asset'.graphs \cup DOMAIN asset'.events
      <3>1. ASSUME NEW x \in j.functions PROVE x \in DOMAIN a.graphs \cup DOMAIN a.events
        <4>1. CASE x = n
          BY <2>4, <2>5, <3>1, <4>1 DEF Placing, Given, a, j
        <4>2. CASE x # n
          BY <2>9, <3>1, <4>2 DEF SameBut, Given
        <4> QED
          BY <4>1, <4>2
      <3> QED
        BY <2>6, <3>1
    <2>14. ASSUME NEW k \in SeenMethods PROVE (MethodPlaced(k) /\ MethodFollows(k))'
      <3>1. MethodPlaced(k) /\ MethodFollows(k) /\ k.name # n
        BY <2>3 DEF Given
      <3>2. MethodPlaced(k)'
        BY <1>1, <2>6, <2>9, <3>1, SameBase DEF MethodPlaced
      <3>3. MethodFollows(k)'
        <4>1. /\ k.name \in DOMAIN asset.events =>
                    k.name \in DOMAIN a.events /\ a.events[k.name] = asset.events[k.name]
              /\ k.name \in DOMAIN asset.graphs =>
                    k.name \in DOMAIN a.graphs /\ a.graphs[k.name] = asset.graphs[k.name]
          BY <2>9, <3>1 DEF SameBut
        <4> QED
          BY <1>1, <2>6, <2>8, <3>1, <4>1, SameBase DEF MethodFollows
      <3> QED
        BY <3>2, <3>3
    <2>15. (MethodPlaced(m) /\ MethodFollows(m))'
      <3>1. MethodPlaced(m)'
        BY <1>1, <2>4, <2>6, SameBase DEF Placing, MethodPlaced, a, j
      <3>2. n \notin Ours => n \notin job.functions
        BY <2>3 DEF Given, PlacedNames
      <3>3. MethodFollows(m)'
        BY <1>1, <1>2, <2>4, <2>6, <2>8, <3>2, SameBase DEF MethodFollows
      <3> QED
        BY <3>1, <3>3
    <2> QED
      BY <2>7, <2>11, <2>12, <2>13, <2>14, <2>15 DEF Given
  <1> QED
    BY <1>3, <1>4

\* A property is dealt with.
LEMMA PropertyGiven ==
    ASSUME ShapeInv, Given, EmitProperty, ~playing
    PROVE  Given'
  <1>0. PICK m : m = Member
    OBVIOUS
  <1> DEFINE n == m.name
             w == PropertyWork(m)
  <1>1. /\ Running /\ IsJob(job) /\ Shaped(asset) /\ job.todo # <<>> /\ UNCHANGED <<base, source>>
        /\ source \in Declarations /\ base \in Bases /\ Walking /\ job.index \in Nat
    BY DEF ShapeInv, EmitProperty, Step, Walking
  <1>2. Becomes(Done(w)) /\ IsProperty(m) /\ Pin(m.type) # NoPin
    BY <1>0 DEF EmitProperty, PropertyWork, Fits, IsMethod, IsProperty
  <1>3. m.name \in MemberNames /\ m \in Elements(source)
    BY <1>0, <1>1, MemberIs
  <1>4. \A x \in DOMAIN asset.variables : Notified(asset.variables[x]) /\ ValueName(x)
    BY DEF ShapeInv
  <1>5. Walked' = Walked + 1 /\ Counted' = Counted => SeenMethods' = SeenMethods
    <2> SUFFICES ASSUME Walked' = Walked + 1, Counted' = Counted PROVE SeenMethods' = SeenMethods
      OBVIOUS
    <2>1. Seen' = Seen \cup {m}
      BY <1>0, <1>1, SeenGrows
    <2> QED
      BY <1>2, <2>1 DEF SeenMethods, IsMethod, IsProperty
  <1>6. CASE IsValue(m)
    <2>1. Listed(asset, MemberNames)
      BY <1>1 DEF ShapeInv, BlueprintOK, Listed, Distinct
    <2>2. OnRep(n) # NoName
      BY <1>3, NameAssumption
    <2>3. /\ Stage(w, n, MemberNames) /\ w.job.index \in {job.index, job.index + 1}
          /\ n \in w.job.variables
      BY <1>1, <1>3, <1>4, <1>6, <2>1, <2>2, ValueWork
    <2> HIDE DEF w
    <2>4. /\ IsWork(w) /\ w.job.todo = job.todo /\ w.job.constructs = job.constructs
          /\ w.job.overrides = job.overrides
          /\ job.functions \subseteq w.job.functions
          /\ w.job.functions \subseteq job.functions \cup {OnRep(n)}
          /\ job.variables \subseteq w.job.variables
          /\ OnRep(n) \in w.job.functions => OnRep(n) \in job.functions \cup DOMAIN w.asset.graphs
          /\ w.asset.events = asset.events /\ w.asset.overrides = asset.overrides
          /\ w.asset.inputs = asset.inputs
          /\ DOMAIN asset.graphs \subseteq DOMAIN w.asset.graphs
          /\ \A x \in DOMAIN asset.graphs : w.asset.graphs[x] = asset.graphs[x]
      BY <2>3 DEF Stage, VariableJob, VariableFrame
    <2>5. /\ asset' = w.asset /\ Walked' = Walked + 1 /\ Counted' = Counted
          /\ job'.functions = w.job.functions /\ job'.overrides = w.job.overrides
          /\ job'.variables = w.job.variables
      BY <1>1, <1>2, <2>3, <2>4, WalkStep
    <2>6. OnRep(n) \in Ours'
      BY <2>3, <2>5 DEF Ours
    <2>7. job'.functions \subseteq job.functions \cup Ours'
      BY <2>4, <2>5, <2>6
    <2>8. job'.functions \subseteq DOMAIN asset'.graphs \cup DOMAIN asset'.events
      <3>1. job.functions \subseteq DOMAIN asset.graphs \cup DOMAIN asset.events
        BY DEF Given
      <3>2. /\ DOMAIN asset.graphs \subseteq DOMAIN asset'.graphs /\ asset'.events = asset.events
            /\ \A x \in job'.functions : x \in job.functions \/ x \in DOMAIN asset'.graphs
        BY <2>4, <2>5
      <3> QED
        BY <3>1, <3>2
    <2>9. /\ SeenMethods' = SeenMethods /\ job.functions \subseteq job'.functions
          /\ job'.overrides = job.overrides /\ job.variables \subseteq job'.variables
          /\ asset'.events = asset.events /\ asset'.overrides = asset.overrides
          /\ asset'.inputs = asset.inputs /\ DOMAIN asset.graphs \subseteq DOMAIN asset'.graphs
          /\ \A x \in DOMAIN asset.graphs : asset'.graphs[x] = asset.graphs[x]
      BY <1>5, <2>4, <2>5
    <2> QED
      BY <1>1, <2>7, <2>8, <2>9, OtherGiven
  <1>7. CASE ~IsValue(m)
    <2>1. n \notin DOMAIN asset.variables
      BY <1>1, <1>2, <1>3, <1>4, <1>7, NamesDiffer
    <2>2. /\ IsWork(w) /\ w.asset.graphs = asset.graphs /\ w.asset.events = asset.events
          /\ w.asset.overrides = asset.overrides /\ w.asset.inputs = asset.inputs
          /\ SameJob([w.job EXCEPT !.components = job.components], job)
      BY <1>1, <1>7, <2>1, ComponentWork
    <2> HIDE DEF w
    <2>3. /\ w.job.todo = job.todo /\ w.job.constructs = job.constructs
          /\ w.job.index = job.index /\ w.job.functions = job.functions
          /\ w.job.overrides = job.overrides /\ w.job.variables = job.variables
      BY <2>2 DEF IsWork, IsJob, SameJob
    <2>4. /\ asset' = w.asset /\ Walked' = Walked + 1 /\ Counted' = Counted
          /\ job'.functions = job.functions /\ job'.overrides = job.overrides
          /\ job'.variables = job.variables
      BY <1>1, <1>2, <2>2, <2>3, WalkStep
    <2>5. job.functions \subseteq DOMAIN asset.graphs \cup DOMAIN asset.events
      BY DEF Given
    <2> QED
      BY <1>1, <1>5, <2>2, <2>4, <2>5, OtherGiven
  <1> QED
    BY <1>6, <1>7

LEMMA BeginGiven ==
    ASSUME ShapeInv, Begin
    PROVE  Given'
  <1>1. /\ job'.todo = Counted /\ job'.functions = {} /\ job'.overrides = {}
        /\ source \in Declarations
    BY DEF Begin, Idle, ShapeInv
  <1>2. Len(Counted) \in Nat /\ Counted' = Counted
    BY <1>1, CountedIs DEF Begin, Counted
  <1>3. Walked' = 0
    BY <1>1, <1>2 DEF Walked
  <1>4. SeenMethods' = {}
    BY <1>3 DEF Seen, SeenMethods
  <1> QED
    BY <1>1, <1>4 DEF Given

\* Nothing is dealt with.
LEMMA ParameterGiven ==
    ASSUME Given, UNCHANGED <<base, source, asset>>, IsJob(job),
           NEW x, job' = [job EXCEPT !.params = x]
    PROVE  Given'
  <1>1. /\ job'.todo = job.todo /\ job'.functions = job.functions
        /\ job'.overrides = job.overrides /\ job'.variables = job.variables
    BY DEF IsJob
  <1>2. Counted' = Counted /\ Walked' = Walked
    BY <1>1 DEF Counted, Walked
  <1>3. SeenMethods' = SeenMethods
    BY <1>2 DEF Seen, SeenMethods
  <1> QED
    BY <1>1, <1>3, OtherGiven DEF Given

\* A method with a parameter without a pin does not count.
LEMMA GivenUp ==
    ASSUME ShapeInv, ParamsInv, AddParameter,
           Pin(Member.params[Len(job.params) + 1].type) = NoPin
    PROVE  ~Translates(Member)
  <1>1. /\ Running /\ job.todo # <<>> /\ IsMethod(Member) /\ source \in Declarations /\ Walking
        /\ Len(job.params) < Len(Member.params)
    BY DEF AddParameter, Step, ShapeInv
  <1>2. Member \in Members
    BY <1>1, MemberIs
  <1>3. Member.params \in Seq(Parameter)
    BY <1>1, <1>2 DEF Members, MethodDeclaration, PropertyDeclaration, IsMethod
  <1>4. PICK k \in Nat : job.params = Read(Member, k)
    BY <1>1 DEF ParamsInv
  <1>5. Len(job.params) = k
    BY <1>4, ReadIs
  <1>6. k + 1 \in DOMAIN Member.params
    BY <1>1, <1>3, <1>5
  <1> QED
    BY <1>1, <1>5, <1>6 DEF Translates

LEMMA GivenStep ==
    ASSUME ShapeInv, ApartInv, ParamsInv, GivenInv, [Next]_vars
    PROVE  GivenInv'
  <1>1. CASE Begin
    BY <1>1, BeginGiven DEF GivenInv
  <1>2. CASE (Skip \/ AddParameter \/ EmitFunction \/ EmitProperty) /\ ~playing
    <2>1. /\ Running /\ Given /\ UNCHANGED <<base, source>> /\ job.todo # <<>> /\ IsJob(job)
      BY <1>2 DEF GivenInv, Skip, AddParameter, EmitFunction, EmitProperty, Step, ShapeInv, Walking
    <2>2. CASE Skip
      <3>1. ~(IsMethod(Member) /\ Translates(Member)) /\ Becomes(Done(Work))
        BY <2>2 DEF Skip, Fits, Translates, IsMethod, IsProperty
      <3> QED
        BY <2>1, <3>1, SkipGiven DEF GivenInv
    <2>3. CASE AddParameter
      <3>1. CASE /\ Becomes(Done(Work))
                 /\ Pin(Member.params[Len(job.params) + 1].type) = NoPin
        <4>1. ~Translates(Member)
          BY <2>3, <3>1, GivenUp
        <4> QED
          BY <2>1, <3>1, <4>1, SkipGiven DEF GivenInv
      <3>2. CASE /\ UNCHANGED asset
                 /\ \E x : job' = [job EXCEPT !.params = x]
        BY <2>1, <3>2, ParameterGiven DEF GivenInv
      <3> QED
        BY <2>3, <3>1, <3>2 DEF AddParameter
    <2>4. CASE EmitFunction
      BY <1>2, <2>1, <2>4, FunctionGiven DEF GivenInv
    <2>5. CASE EmitProperty
      BY <1>2, <2>1, <2>5, PropertyGiven DEF GivenInv
    <2> QED
      BY <1>2, <2>2, <2>3, <2>4, <2>5
  <1>3. CASE (Skip \/ AddParameter \/ EmitFunction \/ EmitProperty) /\ playing
    <2>1. playing'
      BY <1>3 DEF Skip, AddParameter, EmitFunction, EmitProperty, Step
    <2> QED
      BY <2>1 DEF GivenInv
  <1>4. CASE Finish \/ BeginWithoutBlueprint \/ (\E d \in Declarations : Edit(d)) \/ TogglePlay
    <2>1. job'.phase = "idle"
      BY <1>4 DEF Finish, BeginWithoutBlueprint, Edit, TogglePlay, Idle
    <2> QED
      BY <2>1 DEF GivenInv, Running
  <1>5. CASE UNCHANGED vars
    <2>1. UNCHANGED <<base, source, asset, job, playing>>
      BY <1>5 DEF vars
    <2>2. CASE Running /\ ~playing
      <3>1. job = [job EXCEPT !.params = job.params] /\ Given /\ IsJob(job)
        BY <2>2 DEF ShapeInv, Walking, IsJob, GivenInv
      <3>2. Given'
        BY <2>1, <2>2, <3>1, ParameterGiven
      <3> QED
        BY <3>2 DEF GivenInv
    <2>3. CASE ~(Running /\ ~playing)
      BY <2>1, <2>3 DEF GivenInv, Running
    <2> QED
      BY <2>2, <2>3
  <1> QED
    BY <1>1, <1>2, <1>3, <1>4, <1>5 DEF Next

LEMMA GivenInvariant == ASSUME NotificationsApart PROVE Spec => []GivenInv
  <1>1. Init => GivenInv
    BY DEF Init, GivenInv, Running, Idle
  <1>2. ShapeInv /\ ApartInv /\ ParamsInv /\ GivenInv /\ [Next]_vars => GivenInv'
    BY GivenStep
  <1> QED
    BY <1>1, <1>2, ShapeInvariant, ApartInvariant, ParamsInvariant, PTL DEF Spec

-----------------------------------------------------------------------------
(* The functions of a settled blueprint.                                   *)

NotificationName(n) == \E x \in DOMAIN asset.variables : n = OnRep(x)
SettledPlaces ==
    /\ \A n \in DOMAIN asset.graphs \cup DOMAIN asset.events :
          (\E m \in Methods : Placed(m) /\ n = m.name) \/ NotificationName(n)
    /\ \A n \in asset.overrides : \E m \in Methods : n = m.name
    /\ \A m \in Methods :
          /\ Placed(m) =>
                m.name \in asset.overrides \cup DOMAIN asset.graphs \cup DOMAIN asset.events
          /\ ~Overrides(m) /\ IsInput(m) /\ HasEventGraph => m.name \in asset.inputs
SettledFollow ==
    \A m \in Methods : ~Overrides(m) /\ ~IsInput(m) /\ ~NotificationName(m.name) =>
        /\ Replicated(m) /\ HasEventGraph =>
              m.name \in DOMAIN asset.events /\ EventFollows(m, Signature(m), asset.events[m.name])
        /\ ~Replicated(m) =>
              m.name \in DOMAIN asset.graphs /\ GraphFollows(m, Signature(m), asset.graphs[m.name])
SettledFunctionsInv == Settled => SettledPlaces /\ SettledFollow

LEMMA FinishSettlesFunctions ==
    ASSUME ShapeInv, ValueInv, GivenInv, Finish, ~playing
    PROVE  (SettledPlaces /\ SettledFollow)'
  <1>1. /\ Left(asset') /\ Running /\ job.todo = <<>> /\ UNCHANGED <<base, source, playing>>
    BY FinishIs
  <1>2. Valued /\ Given /\ Shaped(asset) /\ Methods = SeenMethods
    BY <1>1, WantedIs DEF ValueInv, GivenInv, ShapeInv
  <1>3. /\ DOMAIN asset'.graphs = DOMAIN asset.graphs \cap job.functions
        /\ \A n \in DOMAIN asset'.graphs : asset'.graphs[n] = asset.graphs[n]
        /\ DOMAIN asset'.events = DOMAIN asset.events \cap job.functions
        /\ \A n \in DOMAIN asset'.events : asset'.events[n] = asset.events[n]
        /\ asset'.overrides = asset.overrides \cap job.overrides
        /\ asset'.inputs = asset.inputs
        /\ DOMAIN asset'.variables = DOMAIN asset.variables \cap job.variables
    BY <1>1, <1>2, PrunedIs DEF Left, FunctionKinds
  <1>4. job.variables \subseteq DOMAIN asset.variables
    BY <1>1, <1>2, FinishedValues
  <1>5. \A n : NotificationName(n)' <=> n \in Ours
    BY <1>3, <1>4 DEF NotificationName, Ours
  <1>6. Methods' = Methods
    BY <1>1 DEF Methods, Wanted
  <1>7. SettledPlaces'
    <2>1. ASSUME NEW n \in DOMAIN asset'.graphs \cup DOMAIN asset'.events
          PROVE  (\E m \in Methods : Placed(m) /\ n = m.name) \/ n \in Ours
      BY <1>2, <1>3, <2>1 DEF Given, PlacedNames
    <2>2. ASSUME NEW n \in asset'.overrides PROVE \E m \in Methods : n = m.name
      BY <1>2, <1>3, <2>2 DEF Given
    <2>3. ASSUME NEW m \in Methods
          PROVE  /\ Placed(m) =>
                       m.name \in asset'.overrides \cup DOMAIN asset'.graphs \cup DOMAIN asset'.events
                 /\ ~Overrides(m) /\ IsInput(m) /\ HasEventGraph => m.name \in asset'.inputs
      <3>1. MethodPlaced(m) /\ job.functions \subseteq DOMAIN asset.graphs \cup DOMAIN asset.events
        BY <1>2 DEF Given
      <3>2. Placed(m) => m.name \in (job.overrides \cap asset.overrides) \cup job.functions
        BY <3>1 DEF MethodPlaced
      <3> QED
        BY <1>3, <3>1, <3>2 DEF MethodPlaced
    <2> QED
      BY <1>1, <1>5, <1>6, <2>1, <2>2, <2>3, SameBase DEF SettledPlaces
  <1>8. SettledFollow'
    <2>1. ASSUME NEW m \in Methods, ~Overrides(m), ~IsInput(m), m.name \notin Ours
          PROVE  /\ Replicated(m) /\ HasEventGraph =>
                       /\ m.name \in DOMAIN asset'.events
                       /\ EventFollows(m, Signature(m), asset'.events[m.name])
                 /\ ~Replicated(m) =>
                       /\ m.name \in DOMAIN asset'.graphs
                       /\ GraphFollows(m, Signature(m), asset'.graphs[m.name])
      <3>1. MethodPlaced(m) /\ MethodFollows(m)
        BY <1>2 DEF Given
      <3>2. (Replicated(m) => HasEventGraph) => m.name \in job.functions
        BY <2>1, <3>1 DEF MethodPlaced, Placed
      <3>3. CASE Replicated(m) /\ HasEventGraph
        <4>1. m.name \in DOMAIN asset.events /\ EventFollows(m, Signature(m), asset.events[m.name])
          BY <2>1, <3>1, <3>3 DEF MethodFollows
        <4> QED
          BY <1>3, <3>2, <3>3, <4>1
      <3>4. CASE ~Replicated(m)
        <4>1. m.name \in DOMAIN asset.graphs /\ GraphFollows(m, Signature(m), asset.graphs[m.name])
          BY <2>1, <3>1, <3>4 DEF MethodFollows
        <4> QED
          BY <1>3, <3>2, <3>4, <4>1
      <3> QED
        BY <3>3, <3>4
    <2> QED
      BY <1>1, <1>5, <1>6, <2>1, SameBase DEF SettledFollow
  <1> QED
    BY <1>7, <1>8

LEMMA SettledFunctionsInvariant ==
    ASSUME NotificationsApart PROVE Spec => []SettledFunctionsInv
  <1>1. Init => SettledFunctionsInv
    BY DEF Init, SettledFunctionsInv, Settled
  <1>2. ASSUME ShapeInv, ValueInv, GivenInv, SettledFunctionsInv, [Next]_vars
        PROVE  SettledFunctionsInv'
    <2>1. SUFFICES ASSUME Settled' PROVE (SettledPlaces /\ SettledFollow)'
      BY DEF SettledFunctionsInv
    <2>2. CASE Finish /\ ~playing
      BY <1>2, <2>2, FinishSettlesFunctions
    <2>3. CASE Settled /\ UNCHANGED <<base, source, asset>>
      <3>1. SettledPlaces /\ SettledFollow
        BY <1>2, <2>3 DEF SettledFunctionsInv
      <3>2. Methods' = Methods
        BY <2>3 DEF Methods, Wanted
      <3>3. \A n : NotificationName(n)' <=> NotificationName(n)
        BY <2>3 DEF NotificationName
      <3>4. SettledPlaces'
        BY <2>3, <3>1, <3>2, <3>3, SameBase DEF SettledPlaces
      <3>5. SettledFollow'
        BY <2>3, <3>1, <3>2, <3>3, SameBase DEF SettledFollow
      <3> QED
        BY <3>4, <3>5
    <2> QED
      BY <1>2, <2>1, <2>2, <2>3, SettledStep
  <1> QED
    BY <1>1, <1>2, ShapeInvariant, ValueInvariant, GivenInvariant, PTL DEF Spec

\* RefreshMatchesClass for every class, base and project, if no notification has
\* the name of a replicated method or of an event of the base class: after a
\* refresh outside a play session there is one place for every method that can be
\* translated, and nothing is left of what earlier texts had, whatever edits,
\* refreshes and refusals came before (onBlueprintTypeAddOrChange).
THEOREM RefreshesMatch == ASSUME NotificationsApart PROVE Spec => []RefreshMatchesClass
  <1>1. ASSUME ApartInv, SettledValuesInv, SettledFunctionsInv
        PROVE  RefreshMatchesClass
    <2> SUFFICES ASSUME Settled PROVE RefreshMatchesClass
      BY DEF RefreshMatchesClass
    <2> DEFINE named == {m.name : m \in Methods}
               nodes == {m.name : m \in {k \in Methods : ~Overrides(k) /\ IsInput(k)}}
               lost == {m.name : m \in {k \in Methods : ~HasEventGraph /\ "FUNC_Net" \in Asked(k).set}}
               functions == DOMAIN asset.graphs \cup DOMAIN asset.events \cup asset.overrides
    <2>1. SettledPlaces /\ SettledValues
      BY <1>1 DEF SettledFunctionsInv, SettledValuesInv
    <2>2. named \ (nodes \cup lost) \subseteq functions
      <3> SUFFICES ASSUME NEW m \in Methods, m.name \notin nodes, m.name \notin lost
                   PROVE  m.name \in functions
        OBVIOUS
      <3>1. ~(~Overrides(m) /\ IsInput(m)) /\ ~(~HasEventGraph /\ Replicated(m))
        BY DEF Replicated
      <3>2. Placed(m)
        BY <3>1 DEF Placed
      <3> QED
        BY <2>1, <3>2 DEF SettledPlaces
    <2>3. functions \subseteq named \cup {OnRep(n) : n \in DOMAIN asset.variables}
      BY <2>1 DEF SettledPlaces, NotificationName
    <2>4. HasEventGraph => nodes \subseteq asset.inputs
      BY <2>1 DEF SettledPlaces
    <2>5. DOMAIN asset.graphs \cap (DOMAIN asset.events \cup asset.overrides) = {}
      <3>1. \A n : Apart(asset, n)
        BY <1>1 DEF ApartInv, ApartIn
      <3> QED
        BY <3>1 DEF Apart
    <2>6. /\ asset.order = ValueNames
          /\ DOMAIN asset.components = {m.name : m \in {k \in Wanted : IsProperty(k) /\ ~IsValue(k)}}
      BY <2>1 DEF SettledValues
    <2> QED
      BY <2>2, <2>3, <2>4, <2>5, <2>6 DEF RefreshMatchesClass
  <1> QED
    BY <1>1, ApartInvariant, SettledValuesInvariant, SettledFunctionsInvariant, PTL

-----------------------------------------------------------------------------
(* Signatures.                                                             *)

LEMMA WantedOnce ==
    ASSUME source \in Declarations, base \in Bases, NEW m \in Methods, NEW k \in Methods,
           m.name = k.name
    PROVE  m = k
  <1>1. PICK i \in DOMAIN source : source[i] = m /\ Counts(base, m)
    BY DEF Methods, Wanted
  <1>2. PICK j \in DOMAIN source : source[j] = k /\ Counts(base, k)
    BY DEF Methods, Wanted
  <1>3. Single(m)
    BY TranslatesSingle DEF Methods, Wanted
  <1>4. i = j
    BY <1>1, <1>2, <1>3, ClassAssumption
  <1> QED
    BY <1>1, <1>2, <1>4

\* The outputs of a method have different names.
LEMMA SignatureApart ==
    ASSUME ReturnsApart, source \in Declarations, NEW m \in Methods
    PROVE  ToldApart(m, Outputs(Signature(m)))
  <1>1. PICK i \in DOMAIN source : m = source[i]
    BY DEF Methods, Wanted
  <1>2. IsMethod(m) /\ m.params \in Seq(Parameter)
    <2>1. source \in Seq(Members)
      BY CountedIs
    <2>2. m \in Members
      BY <1>1, <2>1
    <2> QED
      BY <2>2 DEF Methods, Members, MethodDeclaration, PropertyDeclaration, IsMethod
  <1> DEFINE s == Signature(m)
             S == {p \in Elements(s) : IsOutput(p)}
             outs == Kept(s, S)
             renamed == [j \in DOMAIN outs |-> [outs[j] EXCEPT !.pin.isRef = FALSE]]
             T == {Entry(m, j) : j \in DOMAIN m.params}
  <1>3. s = [j \in DOMAIN m.params |-> Entry(m, j)]
    BY DEF Signature, Entry
  <1>4. Outputs(s) = renamed
    BY DEF Outputs
  <1>5. s \in Seq(T) /\ DOMAIN s = DOMAIN m.params /\ \A j \in DOMAIN s : s[j] = Entry(m, j)
    <2> DEFINE l == Len(m.params)
    <2>1. l \in Nat /\ DOMAIN m.params = 1 .. l
      BY <1>2
    <2> HIDE DEF s, l
    <2>2. \A j \in 1 .. l : Entry(m, j) \in T
      BY <2>1
    <2>3. s = [j \in 1 .. l |-> Entry(m, j)]
      BY <1>3, <2>1
    <2> HIDE DEF T
    <2>4. s \in Seq(T)
      BY <2>1, <2>2, <2>3
    <2> QED
      BY <2>1, <2>3, <2>4
  <1>6. S \subseteq Elements(s)
    OBVIOUS
  <1>7. \A p \in S : IsOutput(p)
    OBVIOUS
  <1> HIDE DEF s, S
  <1>8. Kept(s, S) \in Seq(T) /\ Elements(Kept(s, S)) = Elements(s) \cap S
    <2> HIDE DEF T
    <2> QED
      BY <1>5, KeptMembers
  <1> HIDE DEF outs
  <1>9. ASSUME NEW j \in DOMAIN outs
        PROVE  /\ outs[j] \in S /\ outs[j] \in Elements(s)
               /\ renamed[j].name = outs[j].name
               /\ \E x \in DOMAIN m.params : outs[j] = Entry(m, x)
    <2>1. outs[j] \in Elements(outs)
      BY <1>9 DEF Elements
    <2>2. outs[j] \in Elements(s) \cap S
      BY <1>8, <2>1 DEF outs
    <2>3. PICK x \in DOMAIN s : outs[j] = s[x]
      BY <2>2 DEF Elements
    <2>4. outs[j] = Entry(m, x)
      BY <1>5, <2>3
    <2>5. renamed[j] = [outs[j] EXCEPT !.pin.isRef = FALSE]
      BY <1>9
    <2>6. renamed[j].name = outs[j].name
      BY <2>4, <2>5 DEF Entry
    <2> QED
      BY <1>5, <2>2, <2>4, <2>6
  <1>10. ASSUME NEW j \in DOMAIN outs, NEW k \in DOMAIN outs, outs[j].name = outs[k].name
         PROVE  j = k
    <2>1. \A x, y \in DOMAIN m.params : m.params[x].name = m.params[y].name => x = y
      BY <1>1, <1>2, ClassAssumption
    <2> HIDE DEF T
    <2>2. ASSUME NEW x \in DOMAIN s, NEW y \in DOMAIN s, s[x] = outs[j], s[y] = outs[k]
          PROVE  x = y
      <3>1. x \in DOMAIN m.params /\ y \in DOMAIN m.params
        BY <1>5
      <3>2. outs[j] = Entry(m, x) /\ outs[k] = Entry(m, y)
        BY <1>5, <2>2
      <3>3. m.params[x].name = m.params[y].name
        BY <1>10, <3>2 DEF Entry
      <3> QED
        BY <2>1, <3>1, <3>3
    <2> QED
      BY <1>5, <1>10, <2>2, KeptApart DEF outs
  <1>11. m.ret # Void => \A j \in DOMAIN outs : outs[j].name # "ReturnValue"
    BY <1>1, <1>2, <1>7, <1>9 DEF ReturnsApart, s
  <1>12. DOMAIN renamed = DOMAIN outs
    OBVIOUS
  <1> HIDE DEF renamed
  <1> QED
    BY <1>4, <1>9, <1>10, <1>11, <1>12 DEF ToldApart, s

\* SignaturesFollow for every class, base and project, under what RefreshesMatch
\* assumes and if no output has the name of what is returned: a function has the
\* inputs, the outputs and the replication that its method declares now, whatever
\* earlier texts or methods given up half way had (AddFunctionWithMetaData).
THEOREM SignaturesAreDeclared ==
    ASSUME NotificationsApart, ReturnsApart PROVE Spec => []SignaturesFollow
  <1>1. ASSUME ShapeInv, ApartInv, SettledFunctionsInv
        PROVE  SignaturesFollow
    <2> SUFFICES ASSUME Settled, NEW m \in Methods, ~Overrides(m),
                        \A n \in DOMAIN asset.variables : m.name # OnRep(n)
                 PROVE  LET ins == PinsOf(Inputs(Signature(m)))
                            outs == Outputs(Signature(m))
                            net == (m.flags \cup m.meta.flags) \cap (NetMask \ {"FUNC_Net"})
                        IN  /\ m.name \in DOMAIN asset.graphs =>
                                  LET g == asset.graphs[m.name]
                                  IN  /\ PinsOf(g.ins) = ins
                                      /\ \A i \in DOMAIN outs :
                                            /\ outs[i].name \in DOMAIN g.outs
                                            /\ g.outs[outs[i].name] = outs[i].pin
                                      /\ m.ret # Void => g.outs["ReturnValue"] = ReturnPin(m)
                                      /\ g.flags \cap NetMask = {}
                            /\ m.name \in DOMAIN asset.events =>
                                  /\ PinsOf(asset.events[m.name].ins) = ins
                                  /\ asset.events[m.name].flags \cap (NetMask \ {"FUNC_Net"})
                                         = net \ Asked(m).clear
      BY DEF SignaturesFollow
    <2>1. SettledPlaces /\ SettledFollow /\ source \in Declarations /\ base \in Bases
      BY <1>1 DEF SettledFunctionsInv, ShapeInv
    <2>2. ~NotificationName(m.name)
      BY DEF NotificationName
    <2>3. m.name \in DOMAIN asset.graphs \cup DOMAIN asset.events => Placed(m)
      BY <2>1, <2>2, WantedOnce DEF SettledPlaces
    <2>4. m.name \in DOMAIN asset.graphs => m.name \notin DOMAIN asset.events
      BY <1>1 DEF ApartInv, ApartIn, Apart
    <2>5. CASE m.name \in DOMAIN asset.graphs
      <3>1. ~IsInput(m) /\ ~Replicated(m)
        BY <2>1, <2>2, <2>3, <2>4, <2>5 DEF Placed, SettledFollow
      <3>2. GraphFollows(m, Signature(m), asset.graphs[m.name])
        BY <2>1, <2>2, <3>1 DEF SettledFollow
      <3>3. ToldApart(m, Outputs(Signature(m)))
        BY <2>1, SignatureApart
      <3>4. OutputsFollow(m, Outputs(Signature(m)), asset.graphs[m.name].outs)
        BY <3>2, <3>3 DEF GraphFollows
      <3> QED
        BY <2>4, <2>5, <3>2, <3>4 DEF GraphFollows, OutputsFollow
    <2>6. CASE m.name \in DOMAIN asset.events
      <3>1. ~IsInput(m) /\ Replicated(m) /\ HasEventGraph
        BY <2>1, <2>2, <2>3, <2>4, <2>6 DEF Placed, SettledFollow
      <3>2. EventFollows(m, Signature(m), asset.events[m.name])
        BY <2>1, <2>2, <3>1 DEF SettledFollow
      <3> QED
        BY <2>4, <2>6, <3>2 DEF EventFollows, NetOf, NetKinds
    <2> QED
      BY <2>5, <2>6
  <1> QED
    BY <1>1, ShapeInvariant, ApartInvariant, SettledFunctionsInvariant, PTL
================================================================================
