---------------------------- MODULE UEMeta_proofs ----------------------------
(***************************************************************************)
(* Proofs about UEMeta, for every vocabulary and number of decorators.     *)
(* First the type invariant and that the metadata of a function is         *)
(* consistent.  Then that what a declaration says does not depend on       *)
(* accidents of the order in which it says it: ReliabilityIsSaid,          *)
(* PropertyIsOrderFree and ClassLastWord.                                  *)
(***************************************************************************)
EXTENDS UEMeta, SequenceTheorems, TLAPS

\* The data is the record it began as.
IsData(d) == d \in [meta : {d.meta}, flags : {d.flags}, seen : {d.seen},
                    locals : {d.locals}, lists : {d.lists}]

\* What holds between the flags of a function while its specifiers are read.
FlagsAgree(flags, seen) ==
    /\ ~({"FUNC_Net", "FUNC_BlueprintEvent"} \subseteq flags)
    /\ "FUNC_BlueprintEvent" \in flags =>
          "FUNC_Event" \in flags /\ "bSawPropertyAccessor" \notin seen
    /\ "FUNC_BlueprintPure" \in flags => "FUNC_BlueprintCallable" \in flags

FunctionInv ==
    kind = "ufunction" =>
        /\ IsData(data)
        /\ phase \in {"collect", "process", "done"}
        /\ phase = "collect" => data.flags = {} /\ data.seen = {}
        /\ FlagsAgree(data.flags, data.seen)
        /\ phase # "done" => "FUNC_Final" \notin data.flags
        /\ valid => ~({"FUNC_Final", "FUNC_BlueprintEvent"} \subseteq data.flags)

LEMMA InitFunction == Init => FunctionInv
  BY DEF Init, FunctionInv, IsData, FlagsAgree, NoData

\* The metadata alone is changed while the expressions are read.
LEMMA CollectFunction ==
    ASSUME FunctionInv, NEW e, Collect(e)
    PROVE  FunctionInv'
  <1> SUFFICES ASSUME kind = "ufunction" PROVE FunctionInv'
    BY DEF FunctionInv, Collect
  <1>1. IsData(data) /\ data.flags = {} /\ data.seen = {}
    BY DEF FunctionInv, Collect
  <1>2. \A m : LET d == [data EXCEPT !.meta = m] IN IsData(d) /\ d.flags = {} /\ d.seen = {}
    BY <1>1 DEF IsData
  <1>3. IsData(data') /\ data'.flags = {} /\ data'.seen = {}
    BY <1>1, <1>2, Zenon DEF Collect
  <1>4. FlagsAgree(data'.flags, data'.seen)
    BY <1>3 DEF FlagsAgree
  <1> QED
    BY <1>3, <1>4 DEF Collect, FunctionInv

LEMMA ProcessFunction ==
    ASSUME FunctionInv, Process
    PROVE  FunctionInv'
  <1> SUFFICES ASSUME kind = "ufunction" PROVE FunctionInv'
    BY DEF FunctionInv, Process
  <1>1. IsData(data) /\ data.flags = {} /\ data.seen = {}
    BY DEF FunctionInv, Process
  <1>2. LET d == [data EXCEPT !.flags = @ \cup {"FUNC_Event"}]
        IN  IsData(d) /\ d.flags = {"FUNC_Event"} /\ d.seen = {}
    BY <1>1 DEF IsData
  <1>3. IsData(data') /\ data'.flags \subseteq {"FUNC_Event"} /\ data'.seen = {}
    BY <1>1, <1>2, Zenon DEF Process
  <1>4. FlagsAgree(data'.flags, data'.seen)
    BY <1>3 DEF FlagsAgree
  <1> QED
    BY <1>3, <1>4 DEF Process, FunctionInv

(* A specifier either changes nothing or updates some fields of the data.   *)

Updated(d, f, s) == IsData(d) /\ d.flags = f /\ d.seen = s

LEMMA Updates ==
    ASSUME IsData(data)
    PROVE  /\ \A f : Updated([data EXCEPT !.flags = f], f, data.seen)
           /\ \A s : Updated([data EXCEPT !.seen = s], data.flags, s)
           /\ \A f, s : Updated([data EXCEPT !.flags = f, !.seen = s], f, s)
           /\ \A f, l : Updated([data EXCEPT !.flags = f, !.locals = l], f, data.seen)
           /\ \A f, s, m : Updated([data EXCEPT !.flags = f, !.seen = s, !.meta = m], f, s)
           /\ \A f, m, l : Updated([data EXCEPT !.flags = f, !.meta = m, !.locals = l],
                                   f, data.seen)
  BY DEF IsData, Updated

Settled == /\ IsData(data)
           /\ FlagsAgree(data.flags, data.seen)
           /\ "FUNC_Final" \notin data.flags

LEMMA EventStep ==
    ASSUME Settled, NEW s, EventSpecifier(s)
    PROVE  Settled'
  <1>1. \/ data' = data
        \/ /\ "FUNC_Net" \notin data.flags /\ "bSawPropertyAccessor" \notin data.seen
           /\ \E f : /\ f = data.flags \/ f = data.flags \ {"FUNC_Native"}
                    /\ Updated(data', f \cup {"FUNC_Event", "FUNC_BlueprintEvent"}, data.seen)
    <2>1. Updated([data EXCEPT !.flags =
              (IF s.name = "BlueprintNativeEvent" THEN @ ELSE @ \ {"FUNC_Native"})
              \cup {"FUNC_Event", "FUNC_BlueprintEvent"}],
              (IF s.name = "BlueprintNativeEvent" THEN data.flags ELSE data.flags \ {"FUNC_Native"})
              \cup {"FUNC_Event", "FUNC_BlueprintEvent"}, data.seen)
      BY Updates, Zenon DEF Settled
    <2> QED
      BY <2>1 DEF EventSpecifier, Handle, Reject, Any
  <1> QED
    BY <1>1 DEF Settled, Updated, FlagsAgree

LEMMA ExecStep ==
    ASSUME Settled, NEW s, ExecSpecifier(s)
    PROVE  Settled'
  <1>1. \/ data' = data
        \/ Updated(data', data.flags \cup {"FUNC_Exec"}, data.seen)
    BY Updates, Zenon DEF ExecSpecifier, Handle, Reject, Settled
  <1> QED
    BY <1>1 DEF Settled, Updated, FlagsAgree

LEMMA ReplicationStep ==
    ASSUME Settled, NEW s, ReplicationSpecifier(s)
    PROVE  Settled'
  <1>1. \/ data' = data
        \/ /\ "FUNC_BlueprintEvent" \notin data.flags
           /\ \E l : data' = [data EXCEPT
                  !.flags = @ \cup {"FUNC_Net",
                      CASE s.name = "Server" -> "FUNC_NetServer"
                        [] s.name = "Client" -> "FUNC_NetClient"
                        [] OTHER -> "FUNC_NetMulticast"},
                  !.locals = l]
    BY Zenon DEF ReplicationSpecifier, Handle, Reject, Any
  <1>2. ASSUME "FUNC_BlueprintEvent" \notin data.flags,
               NEW r \in {"FUNC_NetServer", "FUNC_NetClient", "FUNC_NetMulticast"},
               Updated(data', data.flags \cup {"FUNC_Net", r}, data.seen)
        PROVE  Settled'
    BY <1>2 DEF Settled, Updated, FlagsAgree
  <1>3. CASE data' = data
    BY <1>3 DEF Settled
  <1>4. CASE data' # data
    <2> DEFINE r == CASE s.name = "Server" -> "FUNC_NetServer"
                      [] s.name = "Client" -> "FUNC_NetClient"
                      [] OTHER -> "FUNC_NetMulticast"
    <2>1. r \in {"FUNC_NetServer", "FUNC_NetClient", "FUNC_NetMulticast"}
      OBVIOUS
    <2> HIDE DEF r
    <2>2. "FUNC_BlueprintEvent" \notin data.flags
      BY <1>1, <1>4
    <2>3. PICK l : data' = [data EXCEPT !.flags = @ \cup {"FUNC_Net", r}, !.locals = l]
      BY <1>1, <1>4, Zenon DEF r
    <2>4. Updated(data', data.flags \cup {"FUNC_Net", r}, data.seen)
      BY <2>3 DEF IsData, Updated, Settled
    <2> QED
      BY <1>2, <2>1, <2>2, <2>4
  <1> QED
    BY <1>3, <1>4

LEMMA ServiceStep ==
    ASSUME Settled, NEW s, ServiceSpecifier(s)
    PROVE  Settled'
  <1> DEFINE R == IF s.name = "ServiceRequest"
                  THEN {"FUNC_NetRequest", "FUNCEXPORT_CustomThunk"} ELSE {"FUNC_NetResponse"}
  <1>1. \/ data' = data
        \/ /\ "FUNC_BlueprintEvent" \notin data.flags
           /\ \E l : data' = [data EXCEPT
                  !.flags = @ \cup {"FUNC_Net", "FUNC_NetReliable"} \cup R, !.locals = l]
    BY Zenon DEF ServiceSpecifier, Handle, Reject, Any
  <1>2. R \subseteq {"FUNC_NetRequest", "FUNCEXPORT_CustomThunk", "FUNC_NetResponse"}
    OBVIOUS
  <1> HIDE DEF R
  <1>3. \/ data' = data
        \/ /\ "FUNC_BlueprintEvent" \notin data.flags
           /\ Updated(data', data.flags \cup {"FUNC_Net", "FUNC_NetReliable"} \cup R, data.seen)
    BY <1>1 DEF IsData, Updated, Settled
  <1> QED
    BY <1>2, <1>3 DEF Settled, Updated, FlagsAgree

LEMMA MarkStep ==
    ASSUME Settled, NEW s, MarkSpecifier(s)
    PROVE  Settled'
  <1>1. FunctionMarks[s.name] # "bSawPropertyAccessor"
    BY DEF MarkSpecifier, FunctionMarks
  <1>2. \/ data' = data
        \/ Updated(data', data.flags, data.seen \cup {FunctionMarks[s.name]})
    BY Updates, Zenon DEF MarkSpecifier, Handle, Reject, Settled
  <1> QED
    BY <1>1, <1>2 DEF Settled, Updated, FlagsAgree

LEMMA FlagStep ==
    ASSUME Settled, NEW s, FlagSpecifier(s)
    PROVE  Settled'
  <1>1. FunctionFlag[s.name] \notin {"FUNC_Net", "FUNC_BlueprintEvent", "FUNC_BlueprintPure",
                                     "FUNC_Final"}
    BY DEF FlagSpecifier, FunctionFlag
  <1>2. \/ data' = data
        \/ Updated(data', data.flags \cup {FunctionFlag[s.name]}, data.seen)
    BY Updates, Zenon DEF FlagSpecifier, Handle, Reject, Settled
  <1> QED
    BY <1>1, <1>2 DEF Settled, Updated, FlagsAgree

LEMMA AccessorStep ==
    ASSUME Settled, NEW s, AccessorSpecifier(s)
    PROVE  Settled'
  <1> DEFINE R == IF s.name = "BlueprintGetter" THEN {"FUNC_BlueprintPure"} ELSE {}
  <1>1. \/ data' = data
        \/ /\ "FUNC_Event" \notin data.flags
           /\ \E m : data' = [data EXCEPT
                  !.flags = @ \cup {"FUNC_BlueprintCallable"} \cup R,
                  !.seen = @ \cup {"bSawPropertyAccessor"}, !.meta = m]
    BY Zenon DEF AccessorSpecifier, Handle, Reject, Any
  <1>2. R \subseteq {"FUNC_BlueprintPure"}
    OBVIOUS
  <1> HIDE DEF R
  <1>3. \/ data' = data
        \/ /\ "FUNC_Event" \notin data.flags
           /\ Updated(data', data.flags \cup {"FUNC_BlueprintCallable"} \cup R,
                      data.seen \cup {"bSawPropertyAccessor"})
    BY <1>1 DEF IsData, Updated, Settled
  <1> QED
    BY <1>2, <1>3 DEF Settled, Updated, FlagsAgree

LEMMA PureStep ==
    ASSUME Settled, NEW s, PureSpecifier(s)
    PROVE  Settled'
  <1> DEFINE pure == IsMetaKey(s) \/ s.values[1].text = "true"
             R == IF pure THEN {"FUNC_BlueprintPure"} ELSE {}
             M == IF pure THEN data.seen ELSE data.seen \cup {"bForceBlueprintImpure"}
  <1>1. \/ data' = data
        \/ data' = [data EXCEPT !.flags = @ \cup {"FUNC_BlueprintCallable"} \cup R, !.seen = M]
    BY Zenon DEF PureSpecifier, Handle, Reject
  <1>2. /\ R \subseteq {"FUNC_BlueprintPure"}
        /\ M = data.seen \/ M = data.seen \cup {"bForceBlueprintImpure"}
    OBVIOUS
  <1> HIDE DEF R, M
  <1>3. \/ data' = data
        \/ Updated(data', data.flags \cup {"FUNC_BlueprintCallable"} \cup R, M)
    BY <1>1 DEF IsData, Updated, Settled
  <1> QED
    BY <1>2, <1>3 DEF Settled, Updated, FlagsAgree

LEMMA ValidationStep ==
    ASSUME Settled, NEW s, ValidationSpecifier(s)
    PROVE  Settled'
  <1>1. \/ data' = data
        \/ \E l : data' = [data EXCEPT !.flags = @ \cup {"FUNC_NetValidate"}, !.locals = l]
    BY Zenon DEF ValidationSpecifier, Handle, Reject
  <1>2. \/ data' = data
        \/ Updated(data', data.flags \cup {"FUNC_NetValidate"}, data.seen)
    BY <1>1 DEF IsData, Updated, Settled
  <1> QED
    BY <1>2 DEF Settled, Updated, FlagsAgree

\* One specifier of a function, valid or not.
LEMMA SpecifierStep ==
    ASSUME FunctionInv, ProcessSpecifier
    PROVE  FunctionInv'
  <1> SUFFICES ASSUME kind = "ufunction" PROVE FunctionInv'
    BY DEF FunctionInv, ProcessSpecifier
  <1> DEFINE s == Head(specifiers)
  <1>1. Settled
    BY DEF FunctionInv, ProcessSpecifier, Settled
  <1>2. FunctionSpecifier(s)
    BY DEF ProcessSpecifier, Specifier
  <1> HIDE DEF s
  <1>3. ASSUME s.name \notin FunctionNames, Reject PROVE Settled'
    BY <1>1, <1>3 DEF Settled, Reject
  <1>4. Settled'
    BY <1>1, <1>2, <1>3, EventStep, ExecStep, ReplicationStep, ServiceStep, MarkStep, FlagStep,
       AccessorStep, PureStep, ValidationStep, Zenon DEF FunctionSpecifier
  <1> QED
    BY <1>4 DEF ProcessSpecifier, Settled, FunctionInv

\* The validation may make the function final, and rejects it if it must not be.
LEMMA ValidateStep ==
    ASSUME Settled, ValidateFunction
    PROVE  /\ IsData(data')
           /\ FlagsAgree(data'.flags, data'.seen)
           /\ valid' => ~({"FUNC_Final", "FUNC_BlueprintEvent"} \subseteq data'.flags)
  <1> DEFINE final == ~Any({"FUNC_Net", "FUNC_BlueprintEvent"}) \/ "bSealedEvent" \in data.seen
             E == IF Any({"FUNC_Net"}) THEN {"FUNC_Event"} ELSE {}
             F == IF final THEN {"FUNC_Final"} ELSE {}
             M == IF Any({"FUNCEXPORT_CustomThunk"}) /\ ~Has(data.meta, "CustomThunk")
                  THEN Put(data.meta, "CustomThunk", Word("true")) ELSE data.meta
             L == {IF l[1] \in {"RPCId", "RPCResponseId"}
                   THEN <<l[1], [l[2] EXCEPT !.argument = @ % 65536]>> ELSE l : l \in data.locals}
  <1>1. \/ data' = data
        \/ /\ SealedIsEvent
           /\ data' = [data EXCEPT !.flags = @ \cup E \cup F, !.meta = M, !.locals = L]
    BY DEF ValidateFunction, Handle, Reject
  <1>2. /\ E \subseteq {"FUNC_Event"} /\ F \subseteq {"FUNC_Final"}
        /\ SealedIsEvent /\ "FUNC_BlueprintEvent" \in data.flags => F = {}
    BY DEF SealedIsEvent, Any
  <1> HIDE DEF E, F, M, L
  <1>3. \/ data' = data
        \/ SealedIsEvent /\ Updated(data', data.flags \cup E \cup F, data.seen)
    BY <1>1 DEF IsData, Updated, Settled
  <1> QED
    BY <1>2, <1>3 DEF Settled, Updated, FlagsAgree

LEMMA FinishFunction ==
    ASSUME FunctionInv, Finish
    PROVE  FunctionInv'
  <1> SUFFICES ASSUME kind = "ufunction" PROVE FunctionInv'
    BY DEF FunctionInv, Finish
  <1>1. Settled
    BY DEF FunctionInv, Finish, Settled
  <1>2. CASE valid
    <2>1. ValidateFunction
      BY <1>2 DEF Finish
    <2> QED
      BY <1>1, <2>1, ValidateStep DEF Finish, FunctionInv
  <1>3. CASE ~valid
    BY <1>1, <1>3 DEF Finish, Settled, FunctionInv
  <1> QED
    BY <1>2, <1>3

LEMMA FunctionInvariant == Spec => []FunctionInv
  <1>1. ASSUME FunctionInv, [Next]_vars
        PROVE  FunctionInv'
    <2>1. CASE \E e \in Vocabulary[kind] : Collect(e)
      BY <1>1, <2>1, CollectFunction
    <2>2. CASE Process
      BY <1>1, <2>2, ProcessFunction
    <2>3. CASE ProcessSpecifier
      BY <1>1, <2>3, SpecifierStep
    <2>4. CASE Finish
      BY <1>1, <2>4, FinishFunction
    <2>5. CASE NextDeclaration
      BY <2>5 DEF NextDeclaration, NoData, FunctionInv, IsData, FlagsAgree
    <2>6. CASE UNCHANGED vars
      BY <1>1, <2>6 DEF vars, FunctionInv
    <2> QED
      BY <1>1, <2>1, <2>2, <2>3, <2>4, <2>5, <2>6 DEF Next
  <1> QED
    BY <1>1, InitFunction, PTL DEF Spec

\* FunctionIsConsistent for every vocabulary and every number of specifiers:
\* no order in which the tests of UEMeta.js come lets a replicated, pure or
\* final function be a blueprint event.
THEOREM FunctionConsistent == Spec => []FunctionIsConsistent
  <1>1. FunctionInv => FunctionIsConsistent
    BY DEF FunctionInv, FlagsAgree, FunctionIsConsistent, Accepted, Flags, Any
  <1> QED
    BY <1>1, FunctionInvariant, PTL

-----------------------------------------------------------------------------
(* Types.  A declaration that is compiled only ever holds flags that the   *)
(* tables of uelazyload.js name, and metadata the importer can read.       *)

Entries(names) == SUBSET (names \X Value)
Typed(k, d) ==
    d \in [meta : Entries(MetaNames[k]), flags : SUBSET Tables[k], seen : SUBSET Booleans,
           locals : Entries(Locals), lists : Entries(ClassLists)]

TypeInv ==
    /\ kind \in Kinds
    /\ phase \in {"collect", "process", "done"}
    /\ input \in Seq(Vocabulary[kind]) /\ specifiers \in Seq(Vocabulary[kind])
    /\ valid \in BOOLEAN
    /\ Typed(kind, data)

LEMMA WordIsValue == \A t \in Words : Word(t) \in Value
  BY DEF Word, Value

LEMMA PutIsEntries ==
    ASSUME NEW N, NEW m \in Entries(N), NEW k
    PROVE  /\ Unset(m, k) \in Entries(N)
           /\ \A v \in Value : k \in N => Put(m, k, v) \in Entries(N)
  <1>1. Unset(m, k) \in Entries(N)
    <2>1. Unset(m, k) \subseteq m
      BY Zenon DEF Unset
    <2>2. m \subseteq N \X Value
      BY DEF Entries
    <2> HIDE DEF Unset
    <2>3. \A z \in Unset(m, k) : z \in N \X Value
      BY <2>1, <2>2, Zenon
    <2> QED
      BY <2>3, Zenon DEF Entries
  <1>2. \A v \in Value : k \in N => {<<k, v>>} \in Entries(N)
    <2>1. \A v \in Value : k \in N => <<k, v>> \in N \X Value
      OBVIOUS
    <2> QED
      BY <2>1, Zenon DEF Entries
  <1> QED
    BY <1>1, <1>2 DEF Put, Entries

\* The values of an expression.
LEMMA ValuesOf ==
    ASSUME NEW s \in Expression
    PROVE  /\ s.values \in Seq(Value)
           /\ IsMetaKeyValue(s) => s.values[1] \in Value
           /\ {s.values[i] : i \in DOMAIN s.values} \subseteq Value
  BY DEF Expression, IsMetaKeyValue

LEMMA TypedParts ==
    ASSUME NEW k, NEW d
    PROVE  Typed(k, d) <=>
             /\ IsData(d)
             /\ d.meta \in Entries(MetaNames[k]) /\ d.flags \in SUBSET Tables[k]
             /\ d.seen \in SUBSET Booleans
             /\ d.locals \in Entries(Locals) /\ d.lists \in Entries(ClassLists)
  BY DEF Typed, IsData, Entries

LEMMA TypedUpdates ==
    ASSUME NEW k, Typed(k, data)
    PROVE  /\ \A m \in Entries(MetaNames[k]) : Typed(k, [data EXCEPT !.meta = m])
           /\ \A l \in Entries(Locals) : Typed(k, [data EXCEPT !.locals = l])
           /\ \A l \in Entries(ClassLists) : Typed(k, [data EXCEPT !.lists = l])
           /\ \A f \in SUBSET Tables[k] : Typed(k, [data EXCEPT !.flags = f])
           /\ \A n \in SUBSET Booleans : Typed(k, [data EXCEPT !.seen = n])
           /\ \A f \in SUBSET Tables[k], m \in Entries(MetaNames[k]) :
                 Typed(k, [data EXCEPT !.flags = f, !.meta = m])
           /\ \A f \in SUBSET Tables[k], n \in SUBSET Booleans :
                 Typed(k, [data EXCEPT !.flags = f, !.seen = n])
           /\ \A f \in SUBSET Tables[k], l \in Entries(Locals) :
                 Typed(k, [data EXCEPT !.flags = f, !.locals = l])
           /\ \A f \in SUBSET Tables[k], n \in SUBSET Booleans, m \in Entries(MetaNames[k]) :
                 Typed(k, [data EXCEPT !.flags = f, !.seen = n, !.meta = m])
           /\ \A f \in SUBSET Tables[k], m \in Entries(MetaNames[k]), l \in Entries(Locals) :
                 Typed(k, [data EXCEPT !.flags = f, !.meta = m, !.locals = l])
  BY DEF Typed

\* What the metadata that common keys set consists of.
LEMMA CommonMetaTyped ==
    ASSUME NEW N, CompiledKeys \subseteq N, NEW m \in Entries(N),
           NEW s \in Expression, s.name \in N
    PROVE  ApplyInMeta(s, m) \in Entries(N) /\ ApplyInIdentity(s, m) \in Entries(N)
  <1> DEFINE yes == Word("true")
             P == Entries(N)
  <1>1. /\ IsMetaKeyValue(s) => s.values[1] \in Value
        /\ yes \in Value /\ Word("false") \in Value /\ Word("Strict") \in Value
        /\ Word(NoText) \in Value
        /\ s.name \in {"Experimental", "EarlyAccessPreview"} => Word(s.name) \in Value
    BY ValuesOf, WordIsValue DEF Words
  <1>2. \A q \in P, k \in N, v \in Value : Put(q, k, v) \in P
    BY PutIsEntries
  <1>3. \A q \in P, k \in N : Unset(q, k) \in P
    BY PutIsEntries
  <1>4. {"BlueprintType", "IsBlueprintBase", "DevelopmentStatus"} \subseteq N
    BY DEF CompiledKeys
  <1> HIDE DEF yes, P
  <1>0. m \in P
    BY DEF P
  <1>5. ApplyInMeta(s, m) \in P
    BY <1>0, <1>1, <1>2 DEF ApplyInMeta
  <1>6. ASSUME s.name \in CommonValues, IsMetaKeyValue(s)
        PROVE  ApplyInIdentity(s, m) \in P
    <2>1. ~IsMetaKey(s)
      BY <1>6 DEF IsMetaKey, IsMetaKeyValue
    <2>2. ApplyInIdentity(s, m) = Put(m, s.name, s.values[1])
      BY <1>6, <2>1, Zenon DEF ApplyInIdentity
    <2> QED
      BY <1>0, <1>1, <1>2, <1>6, <2>2
  <1>7. ASSUME s.name \in CommonKeys, IsMetaKey(s)
        PROVE  ApplyInIdentity(s, m) \in P
    <2>1. ~IsMetaKeyValue(s)
      BY <1>7 DEF IsMetaKey, IsMetaKeyValue
    <2>2. ApplyInIdentity(s, m) =
            CASE s.name = "BlueprintInternalUseOnly" ->
                    Put(Put(m, s.name, yes), "BlueprintType", yes)
              [] s.name \in {"BlueprintType", "CallInEditor"} -> Put(m, s.name, yes)
              [] s.name = "NotBlueprintType" -> Unset(Put(m, s.name, yes), "BlueprintType")
              [] s.name = "Blueprintable" ->
                   Put(Put(m, "IsBlueprintBase", yes), "BlueprintType", yes)
              [] s.name = "NotBlueprintable" ->
                   Unset(Put(m, "IsBlueprintBase", Word("false")), "BlueprintType")
              [] s.name = "DocumentationPolicy" -> Put(m, s.name, Word("Strict"))
              [] OTHER -> Put(m, "DevelopmentStatus", Word(s.name))
      BY <1>7, <2>1, Zenon DEF ApplyInIdentity, yes
    <2>3. CASE s.name \in {"Experimental", "EarlyAccessPreview"}
      <3>1. ApplyInIdentity(s, m) = Put(m, "DevelopmentStatus", Word(s.name))
        BY <2>2, <2>3
      <3> QED
        BY <1>0, <1>1, <1>2, <1>4, <2>3, <3>1
    <2>4. CASE s.name \in CommonKeys \ {"Experimental", "EarlyAccessPreview"}
      <3>1. \/ ApplyInIdentity(s, m) = Put(Put(m, s.name, yes), "BlueprintType", yes)
            \/ ApplyInIdentity(s, m) = Put(m, s.name, yes)
            \/ ApplyInIdentity(s, m) = Unset(Put(m, s.name, yes), "BlueprintType")
            \/ ApplyInIdentity(s, m) = Put(Put(m, "IsBlueprintBase", yes), "BlueprintType", yes)
            \/ ApplyInIdentity(s, m) =
                 Unset(Put(m, "IsBlueprintBase", Word("false")), "BlueprintType")
            \/ ApplyInIdentity(s, m) = Put(m, s.name, Word("Strict"))
        BY <2>2, <2>4 DEF CommonKeys
      <3> QED
        BY <1>0, <1>1, <1>2, <1>3, <1>4, <3>1
    <2> QED
      BY <1>7, <2>3, <2>4
  <1>8. \/ s.name \in CommonValues /\ IsMetaKeyValue(s)
        \/ s.name \in CommonKeys /\ IsMetaKey(s)
        \/ ApplyInIdentity(s, m) = m
    BY Zenon DEF ApplyInIdentity
  <1> QED
    BY <1>0, <1>5, <1>6, <1>7, <1>8 DEF P


(* One specifier, of a class.                                              *)

LEMMA ClassFlagTyped ==
    ASSUME Typed("uclass", data), NEW s \in Expression, ClassFlagSpecifier(s)
    PROVE  Typed("uclass", data')
  <1> DEFINE F == (data.flags \ ClassRemoves(s.name)) \cup ClassAdds(s.name)
             N == data.seen \cup ({"Placeable"} \cap {s.name})
  <1>1. data' = data \/ data' = [data EXCEPT !.flags = F, !.seen = N]
    BY Zenon DEF ClassFlagSpecifier, Handle, Reject
  <1>2. data.flags \in SUBSET Tables["uclass"] /\ data.seen \in SUBSET Booleans
    BY TypedParts
  <1>3. ClassAdds(s.name) \subseteq ClassFlagTable
    BY DEF ClassAdds, ClassOwnFlags, ClassFlagTable
  <1>4. F \in SUBSET Tables["uclass"] /\ N \in SUBSET Booleans
    BY <1>2, <1>3 DEF Tables, Booleans
  <1> HIDE DEF F, N
  <1>5. Typed("uclass", [data EXCEPT !.flags = F, !.seen = N])
    BY <1>4, TypedUpdates, Zenon
  <1> QED
    BY <1>1, <1>5

LEMMA ClassKeyTyped ==
    ASSUME Typed("uclass", data), NEW s \in Expression, ClassKeySpecifier(s)
    PROVE  Typed("uclass", data')
  <1> DEFINE M == Put(data.meta, ClassKeyEntries[s.name], Word("true"))
  <1>1. data' = data \/ data' = [data EXCEPT !.meta = M]
    BY Zenon DEF ClassKeySpecifier, Handle, Reject
  <1>0. ClassKeyEntries[s.name] \in MetaNames["uclass"]
    BY DEF ClassKeySpecifier, ClassKeyEntries, MetaNames, CompiledKeys, Kinds
  <1>2. Word("true") \in Value /\ data.meta \in Entries(MetaNames["uclass"])
    BY TypedParts, WordIsValue DEF Words
  <1>3. M \in Entries(MetaNames["uclass"])
    BY <1>0, <1>2, PutIsEntries
  <1> HIDE DEF M
  <1>4. Typed("uclass", [data EXCEPT !.meta = M])
    BY <1>3, TypedUpdates, Zenon
  <1> QED
    BY <1>1, <1>4

LEMMA ClassValueTyped ==
    ASSUME Typed("uclass", data), NEW s \in Expression, ClassValueSpecifier(s)
    PROVE  Typed("uclass", data')
  <1> DEFINE L == Put(data.locals, s.name, s.values[1])
  <1>1. \/ data' = data
        \/ IsMetaKeyValue(s) /\ s.name \in Locals /\ data' = [data EXCEPT !.locals = L]
    BY DEF ClassValueSpecifier, Handle, Reject, Locals
  <1>2. IsMetaKeyValue(s) /\ s.name \in Locals => L \in Entries(Locals)
    BY TypedParts, PutIsEntries, ValuesOf
  <1> HIDE DEF L
  <1>3. L \in Entries(Locals) => Typed("uclass", [data EXCEPT !.locals = L])
    BY TypedUpdates, Zenon
  <1> QED
    BY <1>1, <1>2, <1>3

LEMMA ClassListTyped ==
    ASSUME Typed("uclass", data), NEW s \in Expression, ClassListSpecifier(s)
    PROVE  Typed("uclass", data')
  <1> DEFINE vs == {s.values[i] : i \in DOMAIN s.values}
             R == ListRemoves(s.name) \X vs
             A == ({s.name} \ {"DontAutoCollapseCategories"}) \X vs
             L == (data.lists \ R) \cup A
  <1>1. data' = data \/ data' = [data EXCEPT !.lists = L]
    BY Zenon DEF ClassListSpecifier, Handle, Reject
  <1>2. vs \subseteq Value /\ s.name \in ClassLists
    BY ValuesOf DEF ClassListSpecifier
  <1> HIDE DEF vs
  <1>3. A \subseteq ClassLists \X Value
    BY <1>2
  <1>4. data.lists \in Entries(ClassLists)
    BY TypedParts
  <1> HIDE DEF R, A
  <1>5. L \in Entries(ClassLists)
    BY <1>3, <1>4 DEF Entries
  <1> HIDE DEF L
  <1>6. Typed("uclass", [data EXCEPT !.lists = L])
    BY <1>5, TypedUpdates, Zenon
  <1> QED
    BY <1>1, <1>6

(* Of a function.                                                          *)

LEMMA EventTyped ==
    ASSUME Typed("ufunction", data), NEW s \in Expression, EventSpecifier(s)
    PROVE  Typed("ufunction", data')
  <1> DEFINE F == (IF s.name = "BlueprintNativeEvent" THEN data.flags
                   ELSE data.flags \ {"FUNC_Native"}) \cup {"FUNC_Event", "FUNC_BlueprintEvent"}
  <1>1. data' = data \/ data' = [data EXCEPT !.flags = F]
    BY Zenon DEF EventSpecifier, Handle, Reject
  <1>2. data.flags \in SUBSET Tables["ufunction"]
    BY TypedParts
  <1>3. F \in SUBSET Tables["ufunction"]
    BY <1>2 DEF Tables, FunctionFlagTable
  <1> HIDE DEF F
  <1>4. Typed("ufunction", [data EXCEPT !.flags = F])
    BY <1>3, TypedUpdates, Zenon
  <1> QED
    BY <1>1, <1>4

LEMMA ExecTyped ==
    ASSUME Typed("ufunction", data), NEW s \in Expression, ExecSpecifier(s)
    PROVE  Typed("ufunction", data')
  <1> DEFINE F == data.flags \cup {"FUNC_Exec"}
  <1>1. data' = data \/ data' = [data EXCEPT !.flags = F]
    BY Zenon DEF ExecSpecifier, Handle, Reject
  <1>2. data.flags \in SUBSET Tables["ufunction"]
    BY TypedParts
  <1>3. F \in SUBSET Tables["ufunction"]
    BY <1>2 DEF Tables, FunctionFlagTable
  <1> HIDE DEF F
  <1>4. Typed("ufunction", [data EXCEPT !.flags = F])
    BY <1>3, TypedUpdates, Zenon
  <1> QED
    BY <1>1, <1>4

LEMMA ReplicationTyped ==
    ASSUME Typed("ufunction", data), NEW s \in Expression, ReplicationSpecifier(s)
    PROVE  Typed("ufunction", data')
  <1> DEFINE r == CASE s.name = "Server" -> "FUNC_NetServer"
                    [] s.name = "Client" -> "FUNC_NetClient"
                    [] OTHER -> "FUNC_NetMulticast"
             F == data.flags \cup {"FUNC_Net", r}
             L == IF IsMetaKey(s) THEN data.locals ELSE Put(data.locals, "CppImpName", s.values[1])
  <1>1. \/ data' = data
        \/ /\ IsMetaKey(s) \/ IsMetaKeyValue(s)
           /\ data' = [data EXCEPT !.flags = F, !.locals = L]
    BY Zenon DEF ReplicationSpecifier, Handle, Reject
  <1>2. data.flags \in SUBSET Tables["ufunction"] /\ data.locals \in Entries(Locals)
    BY TypedParts
  <1>3. r \in {"FUNC_NetServer", "FUNC_NetClient", "FUNC_NetMulticast"}
    OBVIOUS
  <1> HIDE DEF r
  <1>4. F \in SUBSET Tables["ufunction"]
    BY <1>2, <1>3 DEF Tables, FunctionFlagTable
  <1>5. IsMetaKey(s) \/ IsMetaKeyValue(s) => L \in Entries(Locals)
    <2>1. "CppImpName" \in Locals
      BY DEF Locals
    <2> QED
      BY <1>2, <2>1, PutIsEntries, ValuesOf
  <1> HIDE DEF F, L
  <1>6. L \in Entries(Locals) => Typed("ufunction", [data EXCEPT !.flags = F, !.locals = L])
    BY <1>4, TypedUpdates, Zenon
  <1> QED
    BY <1>1, <1>5, <1>6

\* Identifiers and end points are values of the expression or were read before.
LEMMA IdentifiersTyped ==
    ASSUME Typed("ufunction", data), NEW s \in Expression
    PROVE  Identifiers(s.values) \in Entries(Locals)
  <1> DEFINE vs == s.values
  <1>1. \A n : Local(n) \subseteq Value
    <2>1. data.locals \subseteq Locals \X Value
      BY TypedParts DEF Entries
    <2>2. \A l \in data.locals : l[2] \in Value
      BY <2>1
    <2> QED
      BY <2>2 DEF Local
  <1>2. {vs[i] : i \in DOMAIN vs} \subseteq Value
    BY ValuesOf
  <1>3. \A tags, n : LastOf(vs, tags, Local(n)) \subseteq Value
    <2>1. \A tags, old : LastOf(vs, tags, old) \subseteq {vs[i] : i \in DOMAIN vs} \cup old
      BY Zenon DEF LastOf
    <2> QED
      BY <1>1, <1>2, <2>1
  <1> DEFINE ends == {i \in DOMAIN vs : IsEndpoint(vs[i]) /\ vs[i].text # NoText}
             I == LastOf(vs, {"Id"}, Local("RPCId"))
             J == LastOf(vs, {"ResponseId", "Priority"}, Local("RPCResponseId"))
             K == Local("EndpointName") \cup {vs[i] : i \in ends}
  <1>4. Identifiers(vs) = ({"RPCId"} \X I) \cup ({"RPCResponseId"} \X J)
                          \cup ({"EndpointName"} \X K)
    BY Zenon DEF Identifiers
  <1>5. I \subseteq Value /\ J \subseteq Value /\ K \subseteq Value
    BY <1>1, <1>2, <1>3
  <1>6. "RPCId" \in Locals /\ "RPCResponseId" \in Locals /\ "EndpointName" \in Locals
    BY DEF Locals
  <1> HIDE DEF I, J, K, vs
  <1>7. /\ {"RPCId"} \X I \subseteq Locals \X Value
        /\ {"RPCResponseId"} \X J \subseteq Locals \X Value
        /\ {"EndpointName"} \X K \subseteq Locals \X Value
    BY <1>5, <1>6
  <1>8. Identifiers(vs) \in Entries(Locals)
    BY <1>4, <1>7 DEF Entries
  <1> QED
    BY <1>8 DEF vs

LEMMA ServiceTyped ==
    ASSUME Typed("ufunction", data), NEW s \in Expression, ServiceSpecifier(s)
    PROVE  Typed("ufunction", data')
  <1> DEFINE R == IF s.name = "ServiceRequest"
                  THEN {"FUNC_NetRequest", "FUNCEXPORT_CustomThunk"} ELSE {"FUNC_NetResponse"}
             F == data.flags \cup {"FUNC_Net", "FUNC_NetReliable"} \cup R
             L == {l \in data.locals : l[1] \notin {"RPCId", "RPCResponseId", "EndpointName"}}
                  \cup Identifiers(s.values)
  <1>1. data' = data \/ data' = [data EXCEPT !.flags = F, !.locals = L]
    BY Zenon DEF ServiceSpecifier, Handle, Reject
  <1>2. data.flags \in SUBSET Tables["ufunction"] /\ data.locals \in Entries(Locals)
    BY TypedParts
  <1>3. R \subseteq {"FUNC_NetRequest", "FUNCEXPORT_CustomThunk", "FUNC_NetResponse"}
    OBVIOUS
  <1> HIDE DEF R
  <1>4. F \in SUBSET Tables["ufunction"]
    BY <1>2, <1>3 DEF Tables, FunctionFlagTable, FunctionExportFlagTable
  <1>5. L \in Entries(Locals)
    <2>1. {l \in data.locals : l[1] \notin {"RPCId", "RPCResponseId", "EndpointName"}}
          \subseteq data.locals
      OBVIOUS
    <2> QED
      BY <1>2, <2>1, IdentifiersTyped DEF Entries
  <1> HIDE DEF F, L
  <1>6. Typed("ufunction", [data EXCEPT !.flags = F, !.locals = L])
    BY <1>4, <1>5, TypedUpdates, Zenon
  <1> QED
    BY <1>1, <1>6

LEMMA MarkTyped ==
    ASSUME Typed("ufunction", data), NEW s \in Expression, MarkSpecifier(s)
    PROVE  Typed("ufunction", data')
  <1> DEFINE N == data.seen \cup {FunctionMarks[s.name]}
  <1>1. data' = data \/ data' = [data EXCEPT !.seen = N]
    BY Zenon DEF MarkSpecifier, Handle, Reject
  <1>2. FunctionMarks[s.name] \in Booleans
    BY DEF MarkSpecifier, FunctionMarks, Booleans
  <1>3. N \in SUBSET Booleans
    BY <1>2, TypedParts
  <1> HIDE DEF N
  <1>4. Typed("ufunction", [data EXCEPT !.seen = N])
    BY <1>3, TypedUpdates, Zenon
  <1> QED
    BY <1>1, <1>4

LEMMA FlagTyped ==
    ASSUME Typed("ufunction", data), NEW s \in Expression, FlagSpecifier(s)
    PROVE  Typed("ufunction", data')
  <1> DEFINE F == data.flags \cup {FunctionFlag[s.name]}
  <1>1. data' = data \/ data' = [data EXCEPT !.flags = F]
    BY Zenon DEF FlagSpecifier, Handle, Reject
  <1>2. FunctionFlag[s.name] \in Tables["ufunction"]
    BY DEF FlagSpecifier, FunctionFlag, Tables, FunctionFlagTable, FunctionExportFlagTable
  <1>3. F \in SUBSET Tables["ufunction"]
    BY <1>2, TypedParts
  <1> HIDE DEF F
  <1>4. Typed("ufunction", [data EXCEPT !.flags = F])
    BY <1>3, TypedUpdates, Zenon
  <1> QED
    BY <1>1, <1>4

LEMMA AccessorTyped ==
    ASSUME Typed("ufunction", data), NEW s \in Expression, AccessorSpecifier(s),
           s.name \in MetaNames["ufunction"]
    PROVE  Typed("ufunction", data')
  <1> DEFINE F == data.flags \cup {"FUNC_BlueprintCallable"}
                  \cup (IF s.name = "BlueprintGetter" THEN {"FUNC_BlueprintPure"} ELSE {})
             N == data.seen \cup {"bSawPropertyAccessor"}
             M == Put(data.meta, s.name, Word(NoText))
  <1>1. data' = data \/ data' = [data EXCEPT !.flags = F, !.seen = N, !.meta = M]
    BY Zenon DEF AccessorSpecifier, Handle, Reject
  <1>2. /\ data.flags \in SUBSET Tables["ufunction"] /\ data.seen \in SUBSET Booleans
        /\ data.meta \in Entries(MetaNames["ufunction"])
    BY TypedParts
  <1>3. F \in SUBSET Tables["ufunction"]
    BY <1>2 DEF Tables, FunctionFlagTable
  <1>4. N \in SUBSET Booleans
    BY <1>2 DEF Booleans
  <1>5. Word(NoText) \in Value
    BY WordIsValue DEF Words
  <1>6. M \in Entries(MetaNames["ufunction"])
    BY <1>2, <1>5, PutIsEntries
  <1> HIDE DEF F, N, M
  <1>7. Typed("ufunction", [data EXCEPT !.flags = F, !.seen = N, !.meta = M])
    BY <1>3, <1>4, <1>6, TypedUpdates, Zenon
  <1> QED
    BY <1>1, <1>7

LEMMA PureTyped ==
    ASSUME Typed("ufunction", data), NEW s \in Expression, PureSpecifier(s)
    PROVE  Typed("ufunction", data')
  <1> DEFINE pure == IsMetaKey(s) \/ s.values[1].text = "true"
             F == data.flags \cup {"FUNC_BlueprintCallable"}
                  \cup (IF pure THEN {"FUNC_BlueprintPure"} ELSE {})
             N == IF pure THEN data.seen ELSE data.seen \cup {"bForceBlueprintImpure"}
  <1>1. data' = data \/ data' = [data EXCEPT !.flags = F, !.seen = N]
    BY Zenon DEF PureSpecifier, Handle, Reject
  <1>2. data.flags \in SUBSET Tables["ufunction"] /\ data.seen \in SUBSET Booleans
    BY TypedParts
  <1> HIDE DEF pure
  <1>3. F \in SUBSET Tables["ufunction"]
    BY <1>2 DEF Tables, FunctionFlagTable
  <1>4. N \in SUBSET Booleans
    BY <1>2 DEF Booleans
  <1> HIDE DEF F, N
  <1>5. Typed("ufunction", [data EXCEPT !.flags = F, !.seen = N])
    BY <1>3, <1>4, TypedUpdates, Zenon
  <1> QED
    BY <1>1, <1>5

LEMMA ValidationTyped ==
    ASSUME Typed("ufunction", data), NEW s \in Expression, ValidationSpecifier(s)
    PROVE  Typed("ufunction", data')
  <1> DEFINE F == data.flags \cup {"FUNC_NetValidate"}
             L == IF IsMetaKey(s) THEN data.locals
                  ELSE Put(data.locals, "CppValidationImplName", s.values[1])
  <1>1. \/ data' = data
        \/ /\ IsMetaKey(s) \/ IsMetaKeyValue(s)
           /\ data' = [data EXCEPT !.flags = F, !.locals = L]
    BY Zenon DEF ValidationSpecifier, Handle, Reject
  <1>2. data.flags \in SUBSET Tables["ufunction"] /\ data.locals \in Entries(Locals)
    BY TypedParts
  <1>3. F \in SUBSET Tables["ufunction"]
    BY <1>2 DEF Tables, FunctionFlagTable
  <1>4. IsMetaKey(s) \/ IsMetaKeyValue(s) => L \in Entries(Locals)
    <2>1. "CppValidationImplName" \in Locals
      BY DEF Locals
    <2> QED
      BY <1>2, <2>1, PutIsEntries, ValuesOf
  <1> HIDE DEF F, L
  <1>5. L \in Entries(Locals) => Typed("ufunction", [data EXCEPT !.flags = F, !.locals = L])
    BY <1>3, TypedUpdates, Zenon
  <1> QED
    BY <1>1, <1>4, <1>5

\* The validation of a function cuts its identifiers to 16 bits.
Cut16(v) == [v EXCEPT !.argument = @ % 65536]
Cut(l) == IF l[1] \in {"RPCId", "RPCResponseId"} THEN <<l[1], Cut16(l[2])>> ELSE l

LEMMA ValidateFunctionTyped ==
    ASSUME Typed("ufunction", data), ValidateFunction
    PROVE  Typed("ufunction", data')
  <1> DEFINE final == ~Any({"FUNC_Net", "FUNC_BlueprintEvent"}) \/ "bSealedEvent" \in data.seen
             F == data.flags \cup (IF Any({"FUNC_Net"}) THEN {"FUNC_Event"} ELSE {})
                             \cup (IF final THEN {"FUNC_Final"} ELSE {})
             M == IF Any({"FUNCEXPORT_CustomThunk"}) /\ ~Has(data.meta, "CustomThunk")
                  THEN Put(data.meta, "CustomThunk", Word("true")) ELSE data.meta
             L == {IF l[1] \in {"RPCId", "RPCResponseId"}
                   THEN <<l[1], [l[2] EXCEPT !.argument = @ % 65536]>> ELSE l : l \in data.locals}
  <1>1. data' = data \/ data' = [data EXCEPT !.flags = F, !.meta = M, !.locals = L]
    BY DEF ValidateFunction, Handle, Reject
  <1>2. /\ data.flags \in SUBSET Tables["ufunction"] /\ data.locals \in Entries(Locals)
        /\ data.meta \in Entries(MetaNames["ufunction"])
    BY TypedParts
  <1> HIDE DEF final
  <1>3. F \in SUBSET Tables["ufunction"]
    BY <1>2 DEF Tables, FunctionFlagTable
  <1>4. Word("true") \in Value /\ "CustomThunk" \in MetaNames["ufunction"]
    BY WordIsValue DEF Words, MetaNames, CompiledKeys, Kinds
  <1>5. M \in Entries(MetaNames["ufunction"])
    BY <1>2, <1>4, PutIsEntries
  <1>6. \A v \in Value : Cut16(v) \in Value
    <2>1. \A n \in Int : n % 65536 \in Int
      OBVIOUS
    <2> QED
      BY <2>1 DEF Value, Cut16
  <1>7. ASSUME NEW l \in data.locals
        PROVE  Cut(l) \in Locals \X Value
    <2>1. l \in Locals \X Value /\ l[1] \in Locals /\ l[2] \in Value
      BY <1>2 DEF Entries
    <2>2. <<l[1], Cut16(l[2])>> \in Locals \X Value
      BY <1>6, <2>1
    <2> QED
      BY <2>1, <2>2 DEF Cut
  <1>8. L \in Entries(Locals)
    <2>1. L = {Cut(l) : l \in data.locals}
      BY SMT DEF Cut, Cut16
    <2> HIDE DEF L
    <2>2. \A z \in L : z \in Locals \X Value
      BY <1>7, <2>1
    <2> QED
      BY <2>2, Zenon DEF Entries
  <1> HIDE DEF F, M, L
  <1>9. Typed("ufunction", [data EXCEPT !.flags = F, !.meta = M, !.locals = L])
    BY <1>3, <1>5, <1>8, TypedUpdates, Zenon
  <1> QED
    BY <1>1, <1>9

(* Of a parameter and of a property.                                       *)

LEMMA ParamTyped ==
    ASSUME Typed("uparam", data), NEW s \in Expression, ParamSpecifier(s)
    PROVE  Typed("uparam", data')
  <1> DEFINE F == data.flags \cup ParamFlags[s.name]
  <1>1. data' = data \/ (s.name \in DOMAIN ParamFlags /\ data' = [data EXCEPT !.flags = F])
    BY Zenon DEF ParamSpecifier, Handle, Reject
  <1>2. s.name \in DOMAIN ParamFlags => ParamFlags[s.name] \subseteq Tables["uparam"]
    BY DEF ParamFlags, Tables, PropertyBit
  <1>3. s.name \in DOMAIN ParamFlags => F \in SUBSET Tables["uparam"]
    BY <1>2, TypedParts
  <1> HIDE DEF F
  <1>4. F \in SUBSET Tables["uparam"] => Typed("uparam", [data EXCEPT !.flags = F])
    BY TypedUpdates, Zenon
  <1> QED
    BY <1>1, <1>3, <1>4

LEMMA EditTyped ==
    ASSUME Typed("uproperty", data), NEW s \in Expression, EditSpecifier(s)
    PROVE  Typed("uproperty", data')
  <1> DEFINE F == data.flags \cup EditFlags[s.name]
             N == data.seen \cup {"bSeenEditSpecifier"}
  <1>1. data' = data \/ data' = [data EXCEPT !.flags = F, !.seen = N]
    BY Zenon DEF EditSpecifier, Handle, Reject
  <1>2. EditFlags[s.name] \subseteq Tables["uproperty"]
    BY DEF EditSpecifier, EditFlags, Tables, PropertyBit
  <1>3. F \in SUBSET Tables["uproperty"]
    BY <1>2, TypedParts
  <1>4. N \in SUBSET Booleans
    BY TypedParts DEF Booleans
  <1> HIDE DEF F, N
  <1>5. Typed("uproperty", [data EXCEPT !.flags = F, !.seen = N])
    BY <1>3, <1>4, TypedUpdates, Zenon
  <1> QED
    BY <1>1, <1>5

LEMMA WriteTyped ==
    ASSUME Typed("uproperty", data), NEW s \in Expression, WriteSpecifier(s),
           s.name \in MetaNames["uproperty"]
    PROVE  Typed("uproperty", data')
  <1> DEFINE F == data.flags \cup {"CPF_BlueprintVisible"}
             N == data.seen \cup {"bSeenBlueprintWriteSpecifier"}
             M == IF s.name = "BlueprintSetter" THEN Put(data.meta, s.name, s.values[1]) ELSE data.meta
  <1>1. \/ data' = data
        \/ /\ s.name = "BlueprintSetter" => IsMetaKeyValue(s)
           /\ data' = [data EXCEPT !.flags = F, !.seen = N, !.meta = M]
    BY Zenon DEF WriteSpecifier, Handle, Reject
  <1>2. data.flags \in SUBSET Tables["uproperty"] /\ data.seen \in SUBSET Booleans
    BY TypedParts
  <1>3. F \in SUBSET Tables["uproperty"] /\ N \in SUBSET Booleans
    BY <1>2 DEF Tables, PropertyBit, Booleans
  <1>4. data.meta \in Entries(MetaNames["uproperty"])
    BY TypedParts
  <1>5. (s.name = "BlueprintSetter" => IsMetaKeyValue(s)) => M \in Entries(MetaNames["uproperty"])
    BY <1>4, PutIsEntries, ValuesOf
  <1> HIDE DEF F, N, M
  <1>6. M \in Entries(MetaNames["uproperty"]) =>
          Typed("uproperty", [data EXCEPT !.flags = F, !.seen = N, !.meta = M])
    BY <1>3, TypedUpdates, Zenon
  <1> QED
    BY <1>1, <1>5, <1>6

LEMMA ReadOnlyTyped ==
    ASSUME Typed("uproperty", data), NEW s \in Expression, ReadOnlySpecifier(s)
    PROVE  Typed("uproperty", data')
  <1> DEFINE F == data.flags \cup {"CPF_BlueprintVisible", "CPF_BlueprintReadOnly"}
             N == data.seen \cup {"bSeenBlueprintReadOnlySpecifier"}
  <1>1. data' = data \/ data' = [data EXCEPT !.flags = F, !.seen = N]
    BY Zenon DEF ReadOnlySpecifier, Handle, Reject
  <1>2. data.flags \in SUBSET Tables["uproperty"] /\ data.seen \in SUBSET Booleans
    BY TypedParts
  <1>3. F \in SUBSET Tables["uproperty"] /\ N \in SUBSET Booleans
    BY <1>2 DEF Tables, PropertyBit, Booleans
  <1> HIDE DEF F, N
  <1>4. Typed("uproperty", [data EXCEPT !.flags = F, !.seen = N])
    BY <1>3, TypedUpdates, Zenon
  <1> QED
    BY <1>1, <1>4

LEMMA GetterTyped ==
    ASSUME Typed("uproperty", data), NEW s \in Expression, GetterSpecifier(s),
           s.name \in MetaNames["uproperty"]
    PROVE  Typed("uproperty", data')
  <1> DEFINE F == data.flags \cup {"CPF_BlueprintVisible"}
             N == data.seen \cup {"bSeenBlueprintGetterSpecifier"}
             M == Put(data.meta, s.name, s.values[1])
  <1>1. \/ data' = data
        \/ IsMetaKeyValue(s) /\ data' = [data EXCEPT !.flags = F, !.seen = N, !.meta = M]
    BY Zenon DEF GetterSpecifier, Handle, Reject
  <1>2. data.flags \in SUBSET Tables["uproperty"] /\ data.seen \in SUBSET Booleans
    BY TypedParts
  <1>3. F \in SUBSET Tables["uproperty"] /\ N \in SUBSET Booleans
    BY <1>2 DEF Tables, PropertyBit, Booleans
  <1>4. data.meta \in Entries(MetaNames["uproperty"])
    BY TypedParts
  <1>5. IsMetaKeyValue(s) => M \in Entries(MetaNames["uproperty"])
    BY <1>4, PutIsEntries, ValuesOf
  <1> HIDE DEF F, N, M
  <1>6. M \in Entries(MetaNames["uproperty"]) =>
          Typed("uproperty", [data EXCEPT !.flags = F, !.seen = N, !.meta = M])
    BY <1>3, TypedUpdates, Zenon
  <1> QED
    BY <1>1, <1>5, <1>6

LEMMA AddingTyped ==
    ASSUME Typed("uproperty", data), NEW s \in Expression, AddingSpecifier(s)
    PROVE  Typed("uproperty", data')
  <1> DEFINE F == data.flags \cup AddedFlags[s.name]
             M == IF s.name = "Instanced" THEN Put(data.meta, "EditInline", Word("true"))
                  ELSE data.meta
  <1>1. data' = data \/ data' = [data EXCEPT !.flags = F, !.meta = M]
    BY Zenon DEF AddingSpecifier, Handle, Reject
  <1>2. AddedFlags[s.name] \subseteq Tables["uproperty"]
    BY DEF AddingSpecifier, AddedFlags, Tables, PropertyBit
  <1>3. F \in SUBSET Tables["uproperty"]
    BY <1>2, TypedParts
  <1>4. data.meta \in Entries(MetaNames["uproperty"])
    BY TypedParts
  <1>5. Word("true") \in Value /\ "EditInline" \in MetaNames["uproperty"]
    BY WordIsValue DEF Words, MetaNames, CompiledKeys, Kinds
  <1>6. M \in Entries(MetaNames["uproperty"])
    BY <1>4, <1>5, PutIsEntries
  <1> HIDE DEF F, M
  <1>7. Typed("uproperty", [data EXCEPT !.flags = F, !.meta = M])
    BY <1>3, <1>6, TypedUpdates, Zenon
  <1> QED
    BY <1>1, <1>7

LEMMA RepNotifyTyped ==
    ASSUME Typed("uproperty", data), NEW s \in Expression, RepNotifySpecifier(s)
    PROVE  Typed("uproperty", data')
  <1> DEFINE F == data.flags \cup {"CPF_Net", "CPF_RepNotify"}
             L == Put(data.locals, "RepCallbackName", s.values[1])
  <1>1. \/ data' = data
        \/ IsMetaKeyValue(s) /\ data' = [data EXCEPT !.flags = F, !.locals = L]
    BY Zenon DEF RepNotifySpecifier, Handle, Reject
  <1>2. data.flags \in SUBSET Tables["uproperty"] /\ data.locals \in Entries(Locals)
    BY TypedParts
  <1>3. F \in SUBSET Tables["uproperty"]
    BY <1>2 DEF Tables, PropertyBit
  <1>4. "RepCallbackName" \in Locals
    BY DEF Locals
  <1>5. IsMetaKeyValue(s) => L \in Entries(Locals)
    BY <1>2, <1>4, PutIsEntries, ValuesOf
  <1> HIDE DEF F, L
  <1>6. L \in Entries(Locals) => Typed("uproperty", [data EXCEPT !.flags = F, !.locals = L])
    BY <1>3, TypedUpdates, Zenon
  <1> QED
    BY <1>1, <1>5, <1>6

LEMMA ValidatePropertyTyped ==
    ASSUME Typed("uproperty", data), ValidateProperty
    PROVE  Typed("uproperty", data')
  <1> DEFINE readOnly == /\ "bSeenBlueprintGetterSpecifier" \in data.seen
                         /\ "bSeenBlueprintWriteSpecifier" \notin data.seen
             exposed == Has(data.meta, "ExposeOnSpawn")
             F == data.flags \cup (IF readOnly THEN {"CPF_BlueprintReadOnly"} ELSE {})
                             \cup (IF exposed THEN {"CPF_ExposeOnSpawn"} ELSE {})
  <1>1. data' = data \/ data' = [data EXCEPT !.flags = F]
    BY Zenon DEF ValidateProperty, Handle, Reject
  <1>2. data.flags \in SUBSET Tables["uproperty"]
    BY TypedParts
  <1> HIDE DEF readOnly, exposed
  <1>3. F \in SUBSET Tables["uproperty"]
    BY <1>2 DEF Tables, PropertyBit
  <1> HIDE DEF F
  <1>4. Typed("uproperty", [data EXCEPT !.flags = F])
    BY <1>3, TypedUpdates, Zenon
  <1> QED
    BY <1>1, <1>4

(* Any specifier, and the whole of a compilation.                          *)

LEMMA SpecifierTyped ==
    ASSUME TypeInv, NEW s \in Vocabulary[kind], Specifier(s)
    PROVE  Typed(kind, data') /\ valid' \in BOOLEAN
  <1>1. s \in Expression /\ s.name \in MetaNames[kind]
    BY VocabularyAssumption DEF TypeInv, MetaNames
  <1>2. Typed(kind, data) /\ kind \in Kinds /\ valid \in BOOLEAN
    BY DEF TypeInv
  <1>3. CASE kind = "uclass"
    <2>1. ClassSpecifier(s)
      BY <1>3 DEF Specifier
    <2>2. Typed("uclass", data')
      <3>1. Typed("uclass", data)
        BY <1>2, <1>3
      <3> QED
        BY <1>1, <2>1, <3>1, ClassFlagTyped, ClassKeyTyped, ClassValueTyped, ClassListTyped, Zenon
           DEF ClassSpecifier, Reject
    <2>3. valid' = FALSE \/ valid' = valid
      BY <2>1, Zenon DEF ClassSpecifier, ClassFlagSpecifier, ClassKeySpecifier,
         ClassValueSpecifier, ClassListSpecifier, Handle, Reject
    <2> QED
      BY <1>2, <1>3, <2>2, <2>3
  <1>4. CASE kind = "ufunction"
    <2>1. FunctionSpecifier(s)
      BY <1>4 DEF Specifier
    <2>2. Typed("ufunction", data')
      <3>1. Typed("ufunction", data) /\ s.name \in MetaNames["ufunction"]
        BY <1>1, <1>2, <1>4
      <3> QED
        BY <1>1, <2>1, <3>1, EventTyped, ExecTyped, ReplicationTyped, ServiceTyped, MarkTyped,
           FlagTyped, AccessorTyped, PureTyped, ValidationTyped, Zenon
           DEF FunctionSpecifier, Reject
    <2>3. valid' = FALSE \/ valid' = valid
      BY <2>1, Zenon DEF FunctionSpecifier, EventSpecifier, ExecSpecifier, ReplicationSpecifier,
         ServiceSpecifier, MarkSpecifier, FlagSpecifier, AccessorSpecifier, PureSpecifier,
         ValidationSpecifier, Handle, Reject
    <2> QED
      BY <1>2, <1>4, <2>2, <2>3
  <1>5. CASE kind = "uproperty"
    <2>1. PropertySpecifier(s)
      BY <1>5 DEF Specifier
    <2>2. Typed("uproperty", data')
      <3>1. Typed("uproperty", data) /\ s.name \in MetaNames["uproperty"]
        BY <1>1, <1>2, <1>5
      <3> QED
        BY <1>1, <2>1, <3>1, EditTyped, WriteTyped, ReadOnlyTyped, GetterTyped, AddingTyped,
           RepNotifyTyped, Zenon DEF PropertySpecifier, Reject
    <2>3. valid' = FALSE \/ valid' = valid
      BY <2>1, Zenon DEF PropertySpecifier, EditSpecifier, WriteSpecifier, ReadOnlySpecifier,
         GetterSpecifier, AddingSpecifier, RepNotifySpecifier, Handle, Reject
    <2> QED
      BY <1>2, <1>5, <2>2, <2>3
  <1>6. CASE kind = "uparam"
    <2>1. ParamSpecifier(s)
      BY <1>6 DEF Specifier
    <2>2. Typed("uparam", data')
      BY <1>1, <1>2, <1>6, <2>1, ParamTyped
    <2>3. valid' = FALSE \/ valid' = valid
      BY <2>1, Zenon DEF ParamSpecifier, Handle, Reject
    <2> QED
      BY <1>2, <1>6, <2>2, <2>3
  <1> QED
    BY <1>2, <1>3, <1>4, <1>5, <1>6 DEF Kinds

LEMMA FinishTyped ==
    ASSUME TypeInv, Finish
    PROVE  Typed(kind, data') /\ valid' \in BOOLEAN
  <1>1. Typed(kind, data) /\ valid \in BOOLEAN
    BY DEF TypeInv
  <1>2. CASE valid /\ kind = "ufunction"
    <2>1. ValidateFunction
      BY <1>2 DEF Finish
    <2>2. valid' = FALSE \/ valid' = valid
      BY <2>1 DEF ValidateFunction, Handle, Reject
    <2> QED
      BY <1>1, <1>2, <2>1, <2>2, ValidateFunctionTyped
  <1>3. CASE valid /\ kind = "uproperty"
    <2>1. ValidateProperty
      BY <1>3 DEF Finish
    <2>2. valid' = FALSE \/ valid' = valid
      BY <2>1, Zenon DEF ValidateProperty, Handle, Reject
    <2> QED
      BY <1>1, <1>3, <2>1, <2>2, ValidatePropertyTyped
  <1>4. CASE valid /\ kind = "uparam"
    <2> DEFINE F == {x \in data.flags : PropertyBit[x] < 32}
    <2>1. data' = [data EXCEPT !.flags = F] /\ valid' = valid
      BY <1>4 DEF Finish, HandOnParam
    <2>2. F \subseteq data.flags
      OBVIOUS
    <2> HIDE DEF F
    <2>3. Typed("uparam", [data EXCEPT !.flags = F])
      BY <1>1, <1>4, <2>2 DEF Typed
    <2> QED
      BY <1>1, <1>4, <2>1, <2>3
  <1>5. CASE ~valid \/ kind \notin {"ufunction", "uproperty", "uparam"}
    BY <1>1, <1>5 DEF Finish
  <1> QED
    BY <1>2, <1>3, <1>4, <1>5

LEMMA EmptyTyped == \A k \in Kinds : Typed(k, NoData)
  BY DEF Typed, NoData, Entries

LEMMA CollectTyped ==
    ASSUME TypeInv, NEW e \in Vocabulary[kind], Collect(e)
    PROVE  TypeInv'
  <1>1. /\ e \in Expression /\ e.name \in MetaNames[kind] /\ CompiledKeys \subseteq MetaNames[kind]
        /\ kind \in Kinds /\ Typed(kind, data)
    BY VocabularyAssumption DEF TypeInv, MetaNames
  <1>2. data.meta \in Entries(MetaNames[kind])
    BY <1>1, TypedParts
  <1> DEFINE m1 == ApplyInMeta(e, data.meta)
             m2 == ApplyInIdentity(e, data.meta)
  <1>3. m1 \in Entries(MetaNames[kind]) /\ m2 \in Entries(MetaNames[kind])
    BY <1>1, <1>2, CommonMetaTyped
  <1>4. data' = data \/ data' = [data EXCEPT !.meta = m1] \/ data' = [data EXCEPT !.meta = m2]
    BY Zenon DEF Collect
  <1> HIDE DEF m1, m2
  <1>5. Typed(kind, [data EXCEPT !.meta = m1]) /\ Typed(kind, [data EXCEPT !.meta = m2])
    BY <1>1, <1>3, TypedUpdates, Zenon
  <1>6. Typed(kind, data')
    BY <1>1, <1>4, <1>5
  <1>7. input' \in Seq(Vocabulary[kind]) /\ specifiers' \in Seq(Vocabulary[kind])
    <2>1. /\ input' = Append(input, e)
          /\ specifiers' = Append(specifiers, e) \/ specifiers' = specifiers
      BY Zenon DEF Collect
    <2>2. input \in Seq(Vocabulary[kind]) /\ specifiers \in Seq(Vocabulary[kind])
      BY DEF TypeInv
    <2>3. \A S : \A q \in Seq(S), x \in S : Append(q, x) \in Seq(S)
      OBVIOUS
    <2> QED
      BY <2>1, <2>2, <2>3, Zenon
  <1> QED
    BY <1>6, <1>7 DEF Collect, TypeInv

LEMMA ProcessTyped ==
    ASSUME TypeInv, Process
    PROVE  TypeInv'
  <1> DEFINE F == data.flags \cup {"FUNC_Event"}
  <1>1. data' = data \/ (kind = "ufunction" /\ data' = [data EXCEPT !.flags = F])
    BY Zenon DEF Process
  <1>2. Typed(kind, data) /\ data.flags \in SUBSET Tables[kind]
    BY TypedParts DEF TypeInv
  <1>3. kind = "ufunction" => F \in SUBSET Tables[kind]
    BY <1>2 DEF Tables, FunctionFlagTable
  <1> HIDE DEF F
  <1>4. F \in SUBSET Tables[kind] => Typed(kind, [data EXCEPT !.flags = F])
    BY <1>2, TypedUpdates, Zenon
  <1>5. Typed(kind, data')
    BY <1>1, <1>2, <1>3, <1>4
  <1> QED
    BY <1>5 DEF Process, TypeInv

LEMMA TypeInductive == Spec => []TypeInv
  <1>1. Init => TypeInv
    BY EmptyTyped DEF Init, TypeInv
  <1>2. ASSUME TypeInv, [Next]_vars
        PROVE  TypeInv'
    <2>1. CASE \E e \in Vocabulary[kind] : Collect(e)
      BY <1>2, <2>1, CollectTyped
    <2>2. CASE Process
      BY <1>2, <2>2, ProcessTyped
    <2>3. CASE ProcessSpecifier
      <3>1. Head(specifiers) \in Vocabulary[kind] /\ specifiers' \in Seq(Vocabulary[kind])
        BY <1>2, <2>3 DEF ProcessSpecifier, TypeInv
      <3>2. Typed(kind, data') /\ valid' \in BOOLEAN
        BY <1>2, <2>3, <3>1, SpecifierTyped DEF ProcessSpecifier
      <3> QED
        BY <1>2, <2>3, <3>1, <3>2 DEF ProcessSpecifier, TypeInv
    <2>4. CASE Finish
      <3>1. Typed(kind, data') /\ valid' \in BOOLEAN
        BY <1>2, <2>4, FinishTyped
      <3> QED
        BY <1>2, <2>4, <3>1 DEF Finish, TypeInv
    <2>5. CASE NextDeclaration
      BY <2>5, EmptyTyped DEF NextDeclaration, TypeInv
    <2>6. CASE UNCHANGED vars
      BY <1>2, <2>6 DEF vars, TypeInv
    <2> QED
      BY <1>2, <2>1, <2>2, <2>3, <2>4, <2>5, <2>6 DEF Next
  <1> QED
    BY <1>1, <1>2, PTL DEF Spec

\* TypeOK for every vocabulary: whatever is written in the decorators, the code
\* only ever sets flags that its tables name, and puts nothing into the metadata
\* but the names it has read and its own keys.
THEOREM TypeInvariant == Spec => []TypeOK
  <1>1. TypeInv => TypeOK
    <2> SUFFICES ASSUME TypeInv PROVE TypeOK
      OBVIOUS
    <2>1. input \in Seq(Expression) /\ specifiers \in Seq(Expression)
      BY VocabularyAssumption DEF TypeInv
    <2>2. /\ data.meta \subseteq MetaNames[kind] \X Value /\ data.flags \subseteq Tables[kind]
          /\ data.seen \subseteq Booleans /\ data.locals \subseteq Locals \X Value
          /\ data.lists \subseteq ClassLists \X Value
      BY TypedParts DEF TypeInv, Entries
    <2> QED
      BY <2>1, <2>2 DEF TypeInv, TypeOK
  <1> QED
    BY <1>1, TypeInductive, PTL

-----------------------------------------------------------------------------
(***************************************************************************)
(* The order of specifiers.  The properties speak of the whole input, the  *)
(* code of one specifier at a time.  What connects them is the set D of    *)
(* the positions that have been processed: the queue holds the other       *)
(* specifiers in their order, all of them behind D (Line), and the data    *)
(* are what the specifiers at D say.                                       *)
(***************************************************************************)

-----------------------------------------------------------------------------
(* The queue.                                                              *)

QueuedAt == {i \in DOMAIN input : Queued(input[i])}

\* q is where the specifiers of the queue stand in the input.
Places(q, D) ==
    /\ q \in [DOMAIN specifiers -> QueuedAt \ D]
    /\ \A k \in DOMAIN specifiers : specifiers[k] = input[q[k]]
    /\ \A j, k \in DOMAIN specifiers : j < k => q[j] < q[k]
    /\ \A i \in QueuedAt \ D : \E k \in DOMAIN specifiers : q[k] = i
    /\ \A i \in D, k \in DOMAIN specifiers : i < q[k]
Line(D) ==
    /\ input \in Seq(Expression) /\ specifiers \in Seq(Expression)
    /\ D \subseteq QueuedAt
    /\ \E q : Places(q, D)

LEMMA LineBegins ==
    ASSUME input = <<>>, specifiers = <<>>
    PROVE  Line({})
<1> DEFINE q == [k \in {} |-> 0]
<1>1. DOMAIN input = {} /\ DOMAIN specifiers = {} /\ QueuedAt = {}
  BY DEF QueuedAt
<1>2. input \in Seq(Expression) /\ specifiers \in Seq(Expression)
  OBVIOUS
<1>3. Places(q, {})
  BY <1>1 DEF Places
<1> QED
  BY <1>2, <1>3 DEF Line

LEMMA LineBeginsAgain ==
    ASSUME input' = <<>>, specifiers' = <<>>
    PROVE  Line({})'
<1> DEFINE q == [k \in {} |-> 0]
<1>1. DOMAIN input' = {} /\ DOMAIN specifiers' = {} /\ QueuedAt' = {}
  BY DEF QueuedAt
<1>2. input' \in Seq(Expression) /\ specifiers' \in Seq(Expression)
  OBVIOUS
<1>3. Places(q, {})'
  BY <1>1 DEF Places
<1> QED
  BY <1>2, <1>3 DEF Line

LEMMA LineGrows ==
    ASSUME Line({}), NEW e \in Expression, input' = Append(input, e),
           specifiers' = IF Queued(e) THEN Append(specifiers, e) ELSE specifiers
    PROVE  Line({})'
<1>1. PICK q : Places(q, {})
  BY DEF Line
<1>2. input \in Seq(Expression) /\ specifiers \in Seq(Expression)
  BY DEF Line
<1>3. /\ input' \in Seq(Expression) /\ Len(input') = Len(input) + 1
      /\ \A i \in DOMAIN input : i \in DOMAIN input' /\ input'[i] = input[i]
      /\ DOMAIN input' = DOMAIN input \cup {Len(input) + 1}
      /\ input'[Len(input) + 1] = e
      /\ Len(input) \in Nat /\ DOMAIN input = 1 .. Len(input)
  BY <1>2
<1>4. QueuedAt' = QueuedAt \cup (IF Queued(e) THEN {Len(input) + 1} ELSE {})
  BY <1>3 DEF QueuedAt, Queued
<1>5. CASE Queued(e)
  <2>1. /\ specifiers' \in Seq(Expression) /\ Len(specifiers') = Len(specifiers) + 1
        /\ \A i \in DOMAIN specifiers : i \in DOMAIN specifiers' /\ specifiers'[i] = specifiers[i]
        /\ DOMAIN specifiers' = DOMAIN specifiers \cup {Len(specifiers) + 1}
        /\ specifiers'[Len(specifiers) + 1] = e
        /\ Len(specifiers) \in Nat /\ DOMAIN specifiers = 1 .. Len(specifiers)
    BY <1>2, <1>5
  <2>0. PICK r : r = [k \in DOMAIN specifiers' |-> IF k \in DOMAIN specifiers THEN q[k]
                                                  ELSE Len(input) + 1]
    OBVIOUS
  <2>2. /\ \A k \in DOMAIN specifiers : q[k] \in DOMAIN input /\ q[k] < Len(input) + 1
        /\ \A k \in DOMAIN specifiers : r[k] = q[k]
        /\ r[Len(specifiers) + 1] = Len(input) + 1
    BY <1>1, <1>3, <2>0, <2>1 DEF Places, QueuedAt
  <2>3. r \in [DOMAIN specifiers' -> QueuedAt']
    BY <1>1, <1>4, <1>5, <2>0, <2>1 DEF Places
  <2>4. \A k \in DOMAIN specifiers' : specifiers'[k] = input'[r[k]]
    BY <1>1, <1>3, <2>1, <2>2 DEF Places
  <2>5. \A j, k \in DOMAIN specifiers' : j < k => r[j] < r[k]
    BY <1>1, <2>1, <2>2 DEF Places
  <2>6. \A i \in QueuedAt' : \E k \in DOMAIN specifiers' : r[k] = i
    BY <1>1, <1>4, <1>5, <2>1, <2>2 DEF Places
  <2>7. Places(r, {})'
    BY <2>3, <2>4, <2>5, <2>6 DEF Places
  <2> QED
    BY <1>3, <2>1, <2>7 DEF Line
<1>6. CASE ~Queued(e)
  <2>1. specifiers' = specifiers /\ QueuedAt' = QueuedAt
    BY <1>4, <1>6
  <2>2. \A k \in DOMAIN specifiers : q[k] \in DOMAIN input
    BY <1>1 DEF Places, QueuedAt
  <2>3. Places(q, {})'
    BY <1>1, <1>3, <2>1, <2>2 DEF Places
  <2> QED
    BY <1>2, <1>3, <2>1, <2>3 DEF Line
<1> QED
  BY <1>5, <1>6

\* The first specifier of the queue stands at a position p behind those of D.
LEMMA LineMoves ==
    ASSUME NEW D, Line(D), specifiers # <<>>, specifiers' = Tail(specifiers), input' = input
    PROVE  \E p \in QueuedAt \ D : /\ Head(specifiers) = input[p]
                                   /\ \A i \in D : i < p
                                   /\ Line(D \cup {p})'
<1>1. PICK q : Places(q, D)
  BY DEF Line
<1>2. /\ specifiers' \in Seq(Expression) /\ Len(specifiers') = Len(specifiers) - 1
      /\ \A k \in DOMAIN specifiers' : k + 1 \in DOMAIN specifiers
                                       /\ specifiers'[k] = specifiers[k + 1]
      /\ \A k \in DOMAIN specifiers \ {1} : k - 1 \in DOMAIN specifiers'
      /\ 1 \in DOMAIN specifiers /\ Head(specifiers) = specifiers[1]
      /\ DOMAIN specifiers \subseteq Nat /\ DOMAIN specifiers' \subseteq Nat
      /\ \A k \in DOMAIN specifiers : k # 1 => 1 < k
  BY DEF Line
<1> DEFINE p == q[1]
<1>3. p \in QueuedAt \ D /\ Head(specifiers) = input[p] /\ \A i \in D : i < p
  BY <1>1, <1>2 DEF Places
<1>4. QueuedAt' = QueuedAt /\ QueuedAt \subseteq Nat
  BY DEF QueuedAt, Line
<1>0. PICK r : r = [k \in DOMAIN specifiers' |-> q[k + 1]]
  OBVIOUS
<1>5. ASSUME NEW k \in DOMAIN specifiers \ {1}
      PROVE  q[k] \in QueuedAt \ (D \cup {p}) /\ p < q[k]
  <2>1. q[k] \in QueuedAt \ D
    BY <1>1 DEF Places
  <2>2. p < q[k]
    <3>1. 1 \in DOMAIN specifiers /\ k \in DOMAIN specifiers /\ 1 < k
      BY <1>2
    <3>2. \A i, j \in DOMAIN specifiers : i < j => q[i] < q[j]
      BY <1>1, Zenon DEF Places
    <3> QED
      BY <3>1, <3>2
  <2>3. p \in Nat /\ q[k] \in Nat
    BY <1>3, <1>4, <2>1
  <2> HIDE DEF p
  <2>4. p # q[k]
    BY <2>2, <2>3
  <2> QED
    BY <2>1, <2>2, <2>4
<1>6. r \in [DOMAIN specifiers' -> QueuedAt' \ (D \cup {p})]
  BY <1>0, <1>2, <1>4, <1>5
<1>7. \A k \in DOMAIN specifiers' : specifiers'[k] = input'[r[k]]
  BY <1>0, <1>1, <1>2 DEF Places
<1>8. \A j, k \in DOMAIN specifiers' : j < k => r[j] < r[k]
  BY <1>0, <1>1, <1>2 DEF Places
<1>9. \A i \in QueuedAt' \ (D \cup {p}) : \E k \in DOMAIN specifiers' : r[k] = i
  <2> SUFFICES ASSUME NEW i \in QueuedAt \ (D \cup {p})
               PROVE  \E k \in DOMAIN specifiers' : r[k] = i
    BY <1>4
  <2>1. PICK k \in DOMAIN specifiers : q[k] = i
    BY <1>1 DEF Places
  <2>2. k # 1 /\ k - 1 \in DOMAIN specifiers' /\ (k - 1) + 1 = k
    BY <1>2, <2>1
  <2> QED
    BY <1>0, <2>1, <2>2
<1>10. \A i \in D \cup {p}, k \in DOMAIN specifiers' : i < r[k]
  BY <1>0, <1>1, <1>2, <1>5 DEF Places
<1> HIDE DEF p
<1>11. Places(r, D \cup {p})'
  BY <1>6, <1>7, <1>8, <1>9, <1>10 DEF Places
<1>12. Line(D \cup {p})'
  BY <1>2, <1>3, <1>4, <1>11 DEF Line
<1> QED
  BY <1>3, <1>12

LEMMA LineEnds ==
    ASSUME NEW D, Line(D), specifiers = <<>>
    PROVE  D = QueuedAt
<1>1. PICK q : Places(q, D)
  BY DEF Line
<1>2. DOMAIN specifiers = {}
  OBVIOUS
<1> QED
  BY <1>1, <1>2 DEF Line, Places

LEMMA LineStays ==
    ASSUME NEW D, Line(D), UNCHANGED <<input, specifiers>>
    PROVE  Line(D)'
<1>1. PICK q : Places(q, D)
  BY DEF Line
<1>2. QueuedAt' = QueuedAt
  BY DEF QueuedAt
<1>3. Places(q, D)'
  BY <1>1, <1>2 DEF Places
<1> QED
  BY <1>2, <1>3 DEF Line

-----------------------------------------------------------------------------
(* The collection: the queue grows, the data but for the metadata is empty. *)

Collecting ==
    phase = "collect" =>
        /\ valid /\ IsData(data)
        /\ data.flags = {} /\ data.seen = {} /\ data.lists = {}
        /\ Line({})

LEMMA CollectingInvariant == Spec => []Collecting
<1>1. Init => Collecting
  BY LineBegins DEF Init, Collecting, IsData, NoData
<1>2. ASSUME TypeOK, Collecting, [Next]_vars
      PROVE  Collecting'
  <2>1. ASSUME NEW e \in Vocabulary[kind], Collect(e)
        PROVE  Collecting'
    <3>1. e \in Expression
      BY <1>2, <2>1, VocabularyAssumption DEF TypeOK
    <3>2. valid' /\ Line({}) /\ input' = Append(input, e)
      BY <1>2, <2>1 DEF Collecting, Collect
    <3>3. specifiers' = IF Queued(e) THEN Append(specifiers, e) ELSE specifiers
      BY <2>1 DEF Collect, Queued
    <3>4. Line({})'
      BY <3>1, <3>2, <3>3, LineGrows
    <3>5. IsData(data) /\ data.flags = {} /\ data.seen = {} /\ data.lists = {}
      BY <1>2, <2>1 DEF Collecting, Collect
    <3>6. \A m : LET d == [data EXCEPT !.meta = m]
                 IN  IsData(d) /\ d.flags = {} /\ d.seen = {} /\ d.lists = {}
      BY <3>5 DEF IsData
    <3>7. IsData(data') /\ data'.flags = {} /\ data'.seen = {} /\ data'.lists = {}
      BY <2>1, <3>5, <3>6, Zenon DEF Collect
    <3> QED
      BY <3>2, <3>4, <3>7 DEF Collecting
  <2>2. CASE Process
    BY <2>2 DEF Process, Collecting
  <2>3. CASE ProcessSpecifier
    BY <2>3 DEF ProcessSpecifier, Collecting
  <2>4. CASE Finish
    BY <2>4 DEF Finish, Collecting
  <2>5. CASE NextDeclaration
    <3>1. Line({})'
      BY <2>5, LineBeginsAgain DEF NextDeclaration
    <3> QED
      BY <2>5, <3>1 DEF NextDeclaration, Collecting, IsData, NoData
  <2>6. CASE UNCHANGED vars
    <3>1. Line({}) => Line({})'
      BY <2>6, LineStays DEF vars
    <3> QED
      BY <1>2, <2>6, <3>1 DEF vars, Collecting
  <2> QED
    BY <1>2, <2>1, <2>2, <2>3, <2>4, <2>5, <2>6 DEF Next
<1> QED
  BY <1>1, <1>2, TypeInvariant, PTL DEF Spec

-----------------------------------------------------------------------------
(* Properties.  What a specifier gives and marks, by its name alone.       *)

Writers == {"BlueprintReadWrite", "BlueprintSetter"}
Gives(n) ==
    CASE n \in DOMAIN EditFlags -> EditFlags[n]
      [] n \in DOMAIN AddedFlags -> AddedFlags[n]
      [] n \in Writers \cup {"BlueprintGetter"} -> {"CPF_BlueprintVisible"}
      [] n = "BlueprintReadOnly" -> {"CPF_BlueprintVisible", "CPF_BlueprintReadOnly"}
      [] n = "ReplicatedUsing" -> {"CPF_Net", "CPF_RepNotify"}
      [] OTHER -> {}
Marks(n) ==
    CASE n \in DOMAIN EditFlags -> {"bSeenEditSpecifier"}
      [] n \in Writers -> {"bSeenBlueprintWriteSpecifier"}
      [] n = "BlueprintReadOnly" -> {"bSeenBlueprintReadOnlySpecifier"}
      [] n = "BlueprintGetter" -> {"bSeenBlueprintGetterSpecifier"}
      [] OTHER -> {}

\* The names of the groups are different names, and no common metadata.
LEMMA PropertyGroups ==
    /\ DOMAIN EditFlags \cap DOMAIN AddedFlags = {}
    /\ \A n \in DOMAIN EditFlags \cup DOMAIN AddedFlags :
          n \notin Writers \cup {"BlueprintReadOnly", "BlueprintGetter", "ReplicatedUsing",
                                 "Localized", "RepRetry"}
    /\ PropertyNames \cap CommonMetaData = {}
  BY DEF EditFlags, AddedFlags, Writers, PropertyNames, CommonMetaData, CommonValues, CommonKeys

LEMMA MarksOf ==
    ASSUME NEW n
    PROVE  /\ "bSeenEditSpecifier" \in Marks(n) <=> n \in DOMAIN EditFlags
           /\ "bSeenBlueprintWriteSpecifier" \in Marks(n) <=> n \in Writers
           /\ "bSeenBlueprintReadOnlySpecifier" \in Marks(n) <=> n = "BlueprintReadOnly"
           /\ "bSeenBlueprintGetterSpecifier" \in Marks(n) <=> n = "BlueprintGetter"
  BY PropertyGroups DEF Marks, Writers

\* What the validation at the end tests besides ExposeOnSpawn cannot fail.
LEMMA GivesOf ==
    ASSUME NEW n
    PROVE  /\ Gives(n) \cap {"CPF_DisableEditOnInstance", "CPF_DisableEditOnTemplate"} # {} =>
                 "CPF_Edit" \in Gives(n)
           /\ Gives(n) \cap {"CPF_Parm", "CPF_OutParm", "CPF_ReturnParm", "CPF_ReferenceParm",
                             "CPF_ConstParm"} = {}
  <1>1. CASE n \in DOMAIN EditFlags
    <2>1. Gives(n) = EditFlags[n]
      BY <1>1, PropertyGroups DEF Gives
    <2> QED
      BY <1>1, <2>1 DEF EditFlags
  <1>2. CASE n \in DOMAIN AddedFlags
    <2>1. Gives(n) = AddedFlags[n]
      BY <1>2, PropertyGroups DEF Gives
    <2> QED
      BY <1>2, <2>1 DEF AddedFlags
  <1>3. CASE n \notin DOMAIN EditFlags \cup DOMAIN AddedFlags
    BY <1>3 DEF Gives, Writers
  <1> QED
    BY <1>1, <1>2, <1>3

\* One specifier either is taken, for what its name gives, or is refused for its
\* form or for what was seen before it.
Taken(s) ==
    /\ PropertyForm(s)
    /\ s.name \in DOMAIN EditFlags => "bSeenEditSpecifier" \notin data.seen
    /\ s.name \in Writers => "bSeenBlueprintReadOnlySpecifier" \notin data.seen
    /\ s.name = "BlueprintReadOnly" => "bSeenBlueprintWriteSpecifier" \notin data.seen
Outcome(s) ==
    IF Taken(s)
    THEN valid' = valid /\ Updated(data', data.flags \cup Gives(s.name), data.seen \cup Marks(s.name))
    ELSE ~valid'

LEMMA EditOutcome ==
    ASSUME IsData(data), NEW s, EditSpecifier(s)
    PROVE  Outcome(s)
  <1> DEFINE F == data.flags \cup EditFlags[s.name]
             N == data.seen \cup {"bSeenEditSpecifier"}
             ok == IsMetaKey(s) /\ "bSeenEditSpecifier" \notin data.seen
  <1>1. IF ok THEN data' = [data EXCEPT !.flags = F, !.seen = N] /\ valid' = valid ELSE ~valid'
    BY Zenon DEF EditSpecifier, Handle, Reject
  <1>2. s.name \in DOMAIN EditFlags
    BY DEF EditSpecifier
  <1>3. ok <=> Taken(s)
    BY <1>2, PropertyGroups DEF Taken, PropertyForm, PropertyNames, Writers
  <1>4. F = data.flags \cup Gives(s.name) /\ N = data.seen \cup Marks(s.name)
    BY <1>2, PropertyGroups DEF Gives, Marks
  <1>5. Updated([data EXCEPT !.flags = F, !.seen = N], F, N)
    BY Updates, Zenon
  <1> QED
    BY <1>1, <1>3, <1>4, <1>5, Zenon DEF Outcome

LEMMA WriteOutcome ==
    ASSUME IsData(data), NEW s, WriteSpecifier(s)
    PROVE  Outcome(s)
  <1> DEFINE F == data.flags \cup {"CPF_BlueprintVisible"}
             N == data.seen \cup {"bSeenBlueprintWriteSpecifier"}
             M == IF s.name = "BlueprintSetter" THEN Put(data.meta, s.name, s.values[1]) ELSE data.meta
             ok == /\ IF s.name = "BlueprintSetter" THEN IsMetaKeyValue(s) ELSE IsMetaKey(s)
                   /\ "bSeenBlueprintReadOnlySpecifier" \notin data.seen
  <1>1. IF ok THEN data' = [data EXCEPT !.flags = F, !.seen = N, !.meta = M] /\ valid' = valid
        ELSE ~valid'
    BY Zenon DEF WriteSpecifier, Handle, Reject
  <1>2. s.name \in Writers
    BY DEF WriteSpecifier, Writers
  <1>3. ok <=> Taken(s)
    BY <1>2, PropertyGroups DEF Taken, PropertyForm, PropertyNames, Writers
  <1>4. F = data.flags \cup Gives(s.name) /\ N = data.seen \cup Marks(s.name)
    BY <1>2, PropertyGroups DEF Gives, Marks, Writers
  <1>5. Updated([data EXCEPT !.flags = F, !.seen = N, !.meta = M], F, N)
    BY Updates, Zenon
  <1> QED
    BY <1>1, <1>3, <1>4, <1>5, Zenon DEF Outcome

LEMMA ReadOnlyOutcome ==
    ASSUME IsData(data), NEW s, ReadOnlySpecifier(s)
    PROVE  Outcome(s)
  <1> DEFINE F == data.flags \cup {"CPF_BlueprintVisible", "CPF_BlueprintReadOnly"}
             N == data.seen \cup {"bSeenBlueprintReadOnlySpecifier"}
             ok == IsMetaKey(s) /\ "bSeenBlueprintWriteSpecifier" \notin data.seen
  <1>1. IF ok THEN data' = [data EXCEPT !.flags = F, !.seen = N] /\ valid' = valid ELSE ~valid'
    BY Zenon DEF ReadOnlySpecifier, Handle, Reject
  <1>2. s.name = "BlueprintReadOnly"
    BY DEF ReadOnlySpecifier
  <1>3. ok <=> Taken(s)
    BY <1>2, PropertyGroups DEF Taken, PropertyForm, PropertyNames, Writers
  <1>4. F = data.flags \cup Gives(s.name) /\ N = data.seen \cup Marks(s.name)
    BY <1>2, PropertyGroups DEF Gives, Marks, Writers
  <1>5. Updated([data EXCEPT !.flags = F, !.seen = N], F, N)
    BY Updates, Zenon
  <1> QED
    BY <1>1, <1>3, <1>4, <1>5, Zenon DEF Outcome

LEMMA GetterOutcome ==
    ASSUME IsData(data), NEW s, GetterSpecifier(s)
    PROVE  Outcome(s)
  <1> DEFINE F == data.flags \cup {"CPF_BlueprintVisible"}
             N == data.seen \cup {"bSeenBlueprintGetterSpecifier"}
             M == Put(data.meta, s.name, s.values[1])
  <1>1. IF IsMetaKeyValue(s)
        THEN data' = [data EXCEPT !.flags = F, !.seen = N, !.meta = M] /\ valid' = valid
        ELSE ~valid'
    BY Zenon DEF GetterSpecifier, Handle, Reject
  <1>2. s.name = "BlueprintGetter"
    BY DEF GetterSpecifier
  <1>3. IsMetaKeyValue(s) <=> Taken(s)
    BY <1>2, PropertyGroups DEF Taken, PropertyForm, PropertyNames, Writers
  <1>4. F = data.flags \cup Gives(s.name) /\ N = data.seen \cup Marks(s.name)
    BY <1>2, PropertyGroups DEF Gives, Marks, Writers
  <1>5. Updated([data EXCEPT !.flags = F, !.seen = N, !.meta = M], F, N)
    BY Updates, Zenon
  <1> QED
    BY <1>1, <1>3, <1>4, <1>5, Zenon DEF Outcome

LEMMA AddingOutcome ==
    ASSUME IsData(data), NEW s, AddingSpecifier(s)
    PROVE  Outcome(s)
  <1> DEFINE F == data.flags \cup AddedFlags[s.name]
             M == IF s.name = "Instanced" THEN Put(data.meta, "EditInline", Word("true"))
                  ELSE data.meta
  <1>1. IF IsMetaKey(s) THEN data' = [data EXCEPT !.flags = F, !.meta = M] /\ valid' = valid
        ELSE ~valid'
    BY Zenon DEF AddingSpecifier, Handle, Reject
  <1>2. s.name \in DOMAIN AddedFlags
    BY DEF AddingSpecifier
  <1>3. IsMetaKey(s) <=> Taken(s)
    BY <1>2, PropertyGroups DEF Taken, PropertyForm, PropertyNames, Writers
  <1>4. F = data.flags \cup Gives(s.name) /\ data.seen = data.seen \cup Marks(s.name)
    BY <1>2, PropertyGroups DEF Gives, Marks, Writers
  <1>5. Updated([data EXCEPT !.flags = F, !.meta = M], F, data.seen)
    BY DEF IsData, Updated
  <1> QED
    BY <1>1, <1>3, <1>4, <1>5, Zenon DEF Outcome

LEMMA RepNotifyOutcome ==
    ASSUME IsData(data), NEW s, RepNotifySpecifier(s)
    PROVE  Outcome(s)
  <1> DEFINE F == data.flags \cup {"CPF_Net", "CPF_RepNotify"}
             L == Put(data.locals, "RepCallbackName", s.values[1])
  <1>1. IF IsMetaKeyValue(s)
        THEN data' = [data EXCEPT !.flags = F, !.locals = L] /\ valid' = valid
        ELSE ~valid'
    BY Zenon DEF RepNotifySpecifier, Handle, Reject
  <1>2. s.name = "ReplicatedUsing"
    BY DEF RepNotifySpecifier
  <1>3. IsMetaKeyValue(s) <=> Taken(s)
    BY <1>2, PropertyGroups DEF Taken, PropertyForm, PropertyNames, Writers
  <1>4. F = data.flags \cup Gives(s.name) /\ data.seen = data.seen \cup Marks(s.name)
    BY <1>2, PropertyGroups DEF Gives, Marks, Writers
  <1>5. Updated([data EXCEPT !.flags = F, !.locals = L], F, data.seen)
    BY Updates, Zenon
  <1> QED
    BY <1>1, <1>3, <1>4, <1>5, Zenon DEF Outcome

LEMMA PropertyOutcome ==
    ASSUME IsData(data), NEW s, PropertySpecifier(s)
    PROVE  Outcome(s)
  <1>1. ASSUME s.name \in {"Localized", "RepRetry"}, UNCHANGED <<valid, data>>
        PROVE  Outcome(s)
    <2>1. Taken(s)
      BY <1>1, PropertyGroups DEF Taken, PropertyForm, Writers
    <2>2. Gives(s.name) = {} /\ Marks(s.name) = {}
      BY <1>1, PropertyGroups DEF Gives, Marks, Writers
    <2> QED
      BY <1>1, <2>1, <2>2 DEF Outcome, Updated
  <1>2. ASSUME s.name \notin PropertyNames, Reject
        PROVE  Outcome(s)
    <2>1. ~Taken(s)
      BY <1>2 DEF Taken, PropertyForm, PropertyNames
    <2> QED
      BY <1>2, <2>1 DEF Outcome, Reject
  <1> QED
    BY <1>1, <1>2, EditOutcome, WriteOutcome, ReadOnlyOutcome, GetterOutcome, AddingOutcome,
       RepNotifyOutcome, Zenon DEF PropertySpecifier

\* The data is what the specifiers at D say, none of which contradicts another.
PropertySaid(D) ==
    /\ IsData(data)
    /\ \A x : x \in data.flags <=> \E i \in D : x \in Gives(input[i].name)
    /\ \A x : x \in data.seen <=> \E i \in D : x \in Marks(input[i].name)
    /\ \A i \in D : PropertyForm(input[i])
    /\ \A i, j \in D : input[i].name \in DOMAIN EditFlags /\ input[j].name \in DOMAIN EditFlags
                       => i = j
    /\ \A i, j \in D : ~(input[i].name \in Writers /\ input[j].name = "BlueprintReadOnly")
PropertyRefused ==
    \/ \E i \in QueuedAt : ~PropertyForm(input[i])
    \/ \E i, j \in QueuedAt : /\ input[i].name \in DOMAIN EditFlags
                              /\ input[j].name \in DOMAIN EditFlags
                              /\ i # j
    \/ \E i, j \in QueuedAt : input[i].name \in Writers /\ input[j].name = "BlueprintReadOnly"

PropertyInv ==
    kind = "uproperty" =>
        /\ phase = "process" =>
              IF valid THEN \E D : Line(D) /\ PropertySaid(D) ELSE PropertyRefused
        /\ PropertyIsOrderFree

LEMMA PropertyStep ==
    ASSUME NEW D, D \subseteq QueuedAt, PropertySaid(D), NEW p \in QueuedAt \ D, valid,
           PropertySpecifier(input[p]), input' = input
    PROVE  IF valid' THEN PropertySaid(D \cup {p})' ELSE PropertyRefused'
<1> DEFINE s == input[p]
<1>1. Outcome(s) /\ QueuedAt' = QueuedAt /\ D \subseteq QueuedAt
  BY PropertyOutcome DEF PropertySaid, QueuedAt
<1>2. /\ "bSeenEditSpecifier" \in data.seen <=> \E i \in D : input[i].name \in DOMAIN EditFlags
      /\ "bSeenBlueprintWriteSpecifier" \in data.seen <=> \E i \in D : input[i].name \in Writers
      /\ "bSeenBlueprintReadOnlySpecifier" \in data.seen <=>
            \E i \in D : input[i].name = "BlueprintReadOnly"
  BY MarksOf DEF PropertySaid
<1>3. CASE Taken(s)
  <2>1. valid' /\ Updated(data', data.flags \cup Gives(s.name), data.seen \cup Marks(s.name))
    BY <1>1, <1>3 DEF Outcome
  <2>2. /\ \A x : x \in data'.flags <=> \E i \in D \cup {p} : x \in Gives(input[i].name)
        /\ \A x : x \in data'.seen <=> \E i \in D \cup {p} : x \in Marks(input[i].name)
        /\ IsData(data')
    BY <2>1 DEF Updated, PropertySaid
  <2>3. \A i \in D \cup {p} : PropertyForm(input[i])
    BY <1>3 DEF Taken, PropertySaid
  <2>4. \A i, j \in D \cup {p} :
           input[i].name \in DOMAIN EditFlags /\ input[j].name \in DOMAIN EditFlags => i = j
    BY <1>2, <1>3 DEF Taken, PropertySaid
  <2>5. \A i, j \in D \cup {p} :
           ~(input[i].name \in Writers /\ input[j].name = "BlueprintReadOnly")
    <3>1. ~(s.name \in Writers /\ s.name = "BlueprintReadOnly")
      BY DEF Writers
    <3> QED
      BY <1>2, <1>3, <3>1 DEF Taken, PropertySaid
  <2> HIDE DEF s
  <2>6. PropertySaid(D \cup {p})'
    BY <2>2, <2>3, <2>4, <2>5 DEF PropertySaid
  <2> QED
    BY <2>1, <2>6
<1>4. CASE ~Taken(s)
  <2>1. ~valid'
    BY <1>1, <1>4 DEF Outcome
  <2>2. PropertyRefused
    BY <1>1, <1>2, <1>4 DEF Taken, PropertyRefused
  <2>3. PropertyRefused'
    BY <1>1, <2>2 DEF PropertyRefused
  <2> QED
    BY <2>1, <2>3
<1> QED
  BY <1>3, <1>4

\* The positions of the properties are positions of the queue.
LEMMA PositionsQueued ==
    ASSUME NEW names, names \cap CommonMetaData = {}
    PROVE  \A i : i \in Positions(names) <=> i \in QueuedAt /\ input[i].name \in names
  BY DEF Positions, QueuedAt, Queued

LEMMA PropertyPositions ==
    ASSUME NEW names \in SUBSET PropertyNames
    PROVE  /\ \A i : i \in Positions(names) <=> i \in QueuedAt /\ input[i].name \in names
           /\ Given(names) <=> \E i \in QueuedAt : input[i].name \in names
  BY PositionsQueued, PropertyGroups DEF Given

LEMMA RefusedIsNotAllowed ==
    ASSUME PropertyRefused
    PROVE  ~PropertyAllowed
<1>1. /\ DOMAIN EditFlags \in SUBSET PropertyNames
      /\ {"BlueprintReadOnly"} \in SUBSET PropertyNames
      /\ {"BlueprintReadWrite", "BlueprintSetter"} \in SUBSET PropertyNames
  BY DEF PropertyNames
<1>2. CASE \E i \in QueuedAt : ~PropertyForm(input[i])
  BY <1>2 DEF PropertyAllowed, QueuedAt
<1>3. CASE \E i, j \in QueuedAt : /\ input[i].name \in DOMAIN EditFlags
                                  /\ input[j].name \in DOMAIN EditFlags
                                  /\ i # j
  <2>1. \A i : i \in Positions(DOMAIN EditFlags) <=>
                  i \in QueuedAt /\ input[i].name \in DOMAIN EditFlags
    BY <1>1, PropertyPositions
  <2> QED
    BY <1>3, <2>1 DEF PropertyAllowed
<1>4. CASE \E i, j \in QueuedAt : input[i].name \in Writers /\ input[j].name = "BlueprintReadOnly"
  <2>1. Given({"BlueprintReadOnly"}) /\ Writable
    BY <1>1, <1>4, PropertyPositions DEF Writers, Writable
  <2> QED
    BY <2>1 DEF PropertyAllowed
<1> QED
  BY <1>2, <1>3, <1>4 DEF PropertyRefused

\* What all the specifiers of the queue give is what PropertyMeaning says, but
\* for what the validation adds.
LEMMA PropertyGiven ==
    ASSUME NEW x
    PROVE  (\E i \in QueuedAt : x \in Gives(input[i].name)) <=>
             \/ x \in Meaning(EditFlags)
             \/ x \in Meaning(AddedFlags)
             \/ x = "CPF_BlueprintVisible"
                /\ (Writable \/ Given({"BlueprintReadOnly", "BlueprintGetter"}))
             \/ x = "CPF_BlueprintReadOnly" /\ Given({"BlueprintReadOnly"})
             \/ x \in {"CPF_Net", "CPF_RepNotify"} /\ Given({"ReplicatedUsing"})
<1>1. /\ \A n \in PropertyNames : Given({n}) <=> \E i \in QueuedAt : input[i].name = n
      /\ DOMAIN EditFlags \subseteq PropertyNames /\ DOMAIN AddedFlags \subseteq PropertyNames
  <2>1. \A n \in PropertyNames : {n} \in SUBSET PropertyNames
    OBVIOUS
  <2>2. \A n \in PropertyNames : Given({n}) <=> \E i \in QueuedAt : input[i].name \in {n}
    BY <2>1, PropertyPositions
  <2> QED
    BY <2>2 DEF PropertyNames
<1>2. (\E i \in QueuedAt : input[i].name \in DOMAIN EditFlags /\ x \in EditFlags[input[i].name])
      <=> x \in Meaning(EditFlags)
  BY <1>1 DEF Meaning
<1>3. (\E i \in QueuedAt : input[i].name \in DOMAIN AddedFlags /\ x \in AddedFlags[input[i].name])
      <=> x \in Meaning(AddedFlags)
  BY <1>1 DEF Meaning
<1>4. /\ Writable <=> \E i \in QueuedAt : input[i].name \in Writers
      /\ Given({"BlueprintReadOnly", "BlueprintGetter"}) <=>
            \E i \in QueuedAt : input[i].name \in {"BlueprintReadOnly", "BlueprintGetter"}
      /\ Given({"BlueprintReadOnly"}) <=> \E i \in QueuedAt : input[i].name = "BlueprintReadOnly"
      /\ Given({"ReplicatedUsing"}) <=> \E i \in QueuedAt : input[i].name = "ReplicatedUsing"
  <2>1. /\ {"BlueprintReadWrite", "BlueprintSetter"} \in SUBSET PropertyNames
        /\ {"BlueprintReadOnly", "BlueprintGetter"} \in SUBSET PropertyNames
        /\ "BlueprintReadOnly" \in PropertyNames /\ "ReplicatedUsing" \in PropertyNames
    BY DEF PropertyNames
  <2> QED
    BY <1>1, <2>1, PropertyPositions DEF Writers, Writable
<1>5. \A n : x \in Gives(n) <=>
          \/ n \in DOMAIN EditFlags /\ x \in EditFlags[n]
          \/ n \in DOMAIN AddedFlags /\ x \in AddedFlags[n]
          \/ x = "CPF_BlueprintVisible"
             /\ (n \in Writers \/ n \in {"BlueprintReadOnly", "BlueprintGetter"})
          \/ x = "CPF_BlueprintReadOnly" /\ n = "BlueprintReadOnly"
          \/ x \in {"CPF_Net", "CPF_RepNotify"} /\ n = "ReplicatedUsing"
  BY PropertyGroups DEF Gives, Writers
<1>6. (\E i \in QueuedAt : x \in Gives(input[i].name)) <=>
        \/ \E i \in QueuedAt : input[i].name \in DOMAIN EditFlags /\ x \in EditFlags[input[i].name]
        \/ \E i \in QueuedAt : input[i].name \in DOMAIN AddedFlags /\ x \in AddedFlags[input[i].name]
        \/ x = "CPF_BlueprintVisible"
           /\ \/ \E i \in QueuedAt : input[i].name \in Writers
              \/ \E i \in QueuedAt : input[i].name \in {"BlueprintReadOnly", "BlueprintGetter"}
        \/ x = "CPF_BlueprintReadOnly" /\ \E i \in QueuedAt : input[i].name = "BlueprintReadOnly"
        \/ x \in {"CPF_Net", "CPF_RepNotify"} /\ \E i \in QueuedAt : input[i].name = "ReplicatedUsing"
  BY <1>5
<1> QED
  BY <1>2, <1>3, <1>4, <1>6

LEMMA MeaningOfAll ==
    ASSUME PropertySaid(QueuedAt)
    PROVE  PropertyMeaning =
             data.flags
             \cup (IF /\ "bSeenBlueprintGetterSpecifier" \in data.seen
                      /\ "bSeenBlueprintWriteSpecifier" \notin data.seen
                   THEN {"CPF_BlueprintReadOnly"} ELSE {})
             \cup (IF Has(data.meta, "ExposeOnSpawn") THEN {"CPF_ExposeOnSpawn"} ELSE {})
<1> DEFINE exposed == Has(data.meta, "ExposeOnSpawn")
           getter == Given({"BlueprintGetter"})
           readOnly == /\ "bSeenBlueprintGetterSpecifier" \in data.seen
                       /\ "bSeenBlueprintWriteSpecifier" \notin data.seen
<1>1. readOnly <=> getter /\ ~Writable
  <2>1. /\ {"BlueprintReadWrite", "BlueprintSetter"} \in SUBSET PropertyNames
        /\ {"BlueprintGetter"} \in SUBSET PropertyNames
    BY DEF PropertyNames
  <2>2. Writable <=> \E i \in QueuedAt : input[i].name \in Writers
    BY <2>1, PropertyPositions DEF Writers, Writable
  <2>3. getter <=> \E i \in QueuedAt : input[i].name = "BlueprintGetter"
    BY <2>1, PropertyPositions
  <2>4. "bSeenBlueprintGetterSpecifier" \in data.seen <=>
          \E i \in QueuedAt : input[i].name = "BlueprintGetter"
    BY MarksOf DEF PropertySaid
  <2>5. "bSeenBlueprintWriteSpecifier" \in data.seen <=> \E i \in QueuedAt : input[i].name \in Writers
    BY MarksOf DEF PropertySaid
  <2> HIDE DEF getter
  <2> QED
    BY <2>2, <2>3, <2>4, <2>5
<1>2. PropertyMeaning =
        Meaning(EditFlags) \cup Meaning(AddedFlags)
        \cup (IF Writable \/ Given({"BlueprintReadOnly", "BlueprintGetter"})
              THEN {"CPF_BlueprintVisible"} ELSE {})
        \cup (IF Given({"BlueprintReadOnly"}) \/ (getter /\ ~Writable)
              THEN {"CPF_BlueprintReadOnly"} ELSE {})
        \cup (IF Given({"ReplicatedUsing"}) THEN {"CPF_Net", "CPF_RepNotify"} ELSE {})
        \cup (IF exposed THEN {"CPF_ExposeOnSpawn"} ELSE {})
  BY Zenon DEF PropertyMeaning
<1>3. \A x : x \in data.flags <=>
             \/ x \in Meaning(EditFlags)
             \/ x \in Meaning(AddedFlags)
             \/ x = "CPF_BlueprintVisible"
                /\ (Writable \/ Given({"BlueprintReadOnly", "BlueprintGetter"}))
             \/ x = "CPF_BlueprintReadOnly" /\ Given({"BlueprintReadOnly"})
             \/ x \in {"CPF_Net", "CPF_RepNotify"} /\ Given({"ReplicatedUsing"})
  <2>1. \A x : x \in data.flags <=> \E i \in QueuedAt : x \in Gives(input[i].name)
    BY DEF PropertySaid
  <2> QED
    BY <2>1, PropertyGiven, Zenon
<1> HIDE DEF exposed, getter, readOnly
<1>4. PropertyMeaning = data.flags \cup (IF readOnly THEN {"CPF_BlueprintReadOnly"} ELSE {})
                                   \cup (IF exposed THEN {"CPF_ExposeOnSpawn"} ELSE {})
  BY <1>1, <1>2, <1>3
<1> QED
  BY <1>4, Zenon DEF readOnly, exposed

\* They are functions of what is read and of the metadata.
LEMMA MeaningStays ==
    ASSUME input' = input, data'.meta = data.meta
    PROVE  PropertyMeaning' = PropertyMeaning /\ (PropertyAllowed' <=> PropertyAllowed)
<1>1. \A names : Positions(names)' = Positions(names)
  BY DEF Positions
<1>2. \A names : Given(names)' <=> Given(names)
  BY <1>1 DEF Given
<1>3. /\ \A flags : Meaning(flags)' = Meaning(flags)
      /\ Writable' <=> Writable
  <2>1. \A flags : {m \in DOMAIN flags : Given({m})'} = {m \in DOMAIN flags : Given({m})}
    BY <1>2
  <2> QED
    BY <1>2, <2>1 DEF Meaning, Writable
<1>4. Has(data.meta, "ExposeOnSpawn")' <=> Has(data.meta, "ExposeOnSpawn")
  BY DEF Has
<1>5. PropertyMeaning' = PropertyMeaning
  BY <1>2, <1>3, <1>4 DEF PropertyMeaning
<1>6. PropertyAllowed' <=> PropertyAllowed
  BY <1>1, <1>2, <1>3, <1>4, <1>5 DEF PropertyAllowed
<1> QED
  BY <1>5, <1>6

LEMMA AllowedOfAll ==
    ASSUME PropertySaid(QueuedAt)
    PROVE  PropertyAllowed <=>
             (Has(data.meta, "ExposeOnSpawn") =>
                 /\ "CPF_BlueprintVisible" \in data.flags
                 /\ "CPF_DisableEditOnInstance" \notin data.flags)
<1>1. \A i \in DOMAIN input : Queued(input[i]) => PropertyForm(input[i])
  BY DEF PropertySaid, QueuedAt
<1>2. \A i, j \in Positions(DOMAIN EditFlags) : i = j
  <2>1. DOMAIN EditFlags \in SUBSET PropertyNames
    BY DEF PropertyNames
  <2> QED
    BY <2>1, PropertyPositions DEF PropertySaid
<1>3. ~(Given({"BlueprintReadOnly"}) /\ Writable)
  <2>1. /\ {"BlueprintReadOnly"} \in SUBSET PropertyNames
        /\ {"BlueprintReadWrite", "BlueprintSetter"} \in SUBSET PropertyNames
    BY DEF PropertyNames
  <2> QED
    BY <2>1, PropertyPositions DEF PropertySaid, Writers, Writable
<1>4. /\ "CPF_BlueprintVisible" \in PropertyMeaning <=> "CPF_BlueprintVisible" \in data.flags
      /\ "CPF_DisableEditOnInstance" \in PropertyMeaning <=>
            "CPF_DisableEditOnInstance" \in data.flags
  BY MeaningOfAll
<1> QED
  BY <1>1, <1>2, <1>3, <1>4 DEF PropertyAllowed

LEMMA PropertyEnd ==
    ASSUME PropertySaid(QueuedAt), valid, ValidateProperty, input' = input
    PROVE  /\ valid' <=> PropertyAllowed'
           /\ valid' => data'.flags = PropertyMeaning'
<1> DEFINE exposed == Has(data.meta, "ExposeOnSpawn")
           readOnly == /\ "bSeenBlueprintGetterSpecifier" \in data.seen
                       /\ "bSeenBlueprintWriteSpecifier" \notin data.seen
           F == data.flags \cup (IF readOnly THEN {"CPF_BlueprintReadOnly"} ELSE {})
                           \cup (IF exposed THEN {"CPF_ExposeOnSpawn"} ELSE {})
           ok == /\ exposed => Any({"CPF_BlueprintVisible"}) /\ ~Any({"CPF_DisableEditOnInstance"})
                 /\ ~Any({"CPF_Edit"}) =>
                       ~Any({"CPF_DisableEditOnInstance", "CPF_DisableEditOnTemplate"})
                 /\ ~Any({"CPF_Parm", "CPF_OutParm", "CPF_ReturnParm", "CPF_ReferenceParm",
                          "CPF_ConstParm"})
<1>1. IF ok THEN data' = [data EXCEPT !.flags = F] /\ valid' ELSE ~valid' /\ data' = data
  BY Zenon DEF ValidateProperty, Handle, Reject
<1>2. ok <=> PropertyAllowed
  <2>1. \A x : x \in data.flags <=> \E i \in QueuedAt : x \in Gives(input[i].name)
    BY DEF PropertySaid
  <2>2. ~Any({"CPF_Edit"}) => ~Any({"CPF_DisableEditOnInstance", "CPF_DisableEditOnTemplate"})
    BY <2>1, GivesOf DEF Any
  <2>3. ~Any({"CPF_Parm", "CPF_OutParm", "CPF_ReturnParm", "CPF_ReferenceParm", "CPF_ConstParm"})
    BY <2>1, GivesOf DEF Any
  <2>4. /\ Any({"CPF_BlueprintVisible"}) <=> "CPF_BlueprintVisible" \in data.flags
        /\ Any({"CPF_DisableEditOnInstance"}) <=> "CPF_DisableEditOnInstance" \in data.flags
    BY DEF Any
  <2> QED
    BY <2>2, <2>3, <2>4, AllowedOfAll
<1>3. PropertyMeaning = F
  BY MeaningOfAll, Zenon
<1>4. data'.meta = data.meta /\ (ok => data'.flags = F)
  <2> HIDE DEF F, ok
  <2>1. LET d == [data EXCEPT !.flags = F] IN d.meta = data.meta /\ d.flags = F
    BY DEF PropertySaid, IsData
  <2> QED
    BY <1>1, <2>1
<1>5. PropertyMeaning' = PropertyMeaning /\ (PropertyAllowed' <=> PropertyAllowed)
  BY <1>4, MeaningStays
<1> HIDE DEF F, ok
<1> QED
  BY <1>1, <1>2, <1>3, <1>4, <1>5

LEMMA PropertyInvariant == Spec => []PropertyInv
<1>1. Init => PropertyInv
  BY DEF Init, PropertyInv, PropertyIsOrderFree
<1>2. ASSUME Collecting, Collecting', PropertyInv, [Next]_vars
      PROVE  PropertyInv'
  <2>1. ASSUME NEW e, Collect(e) PROVE PropertyInv'
    BY <2>1 DEF Collect, PropertyInv, PropertyIsOrderFree
  <2>2. ASSUME Process, kind = "uproperty" PROVE PropertyInv'
    <3>1. /\ valid' /\ data' = data /\ Line({}) /\ kind' = "uproperty" /\ phase' = "process"
          /\ IsData(data) /\ data.flags = {} /\ data.seen = {}
      BY <1>2, <2>2 DEF Process, Collecting
    <3>2. Line({})'
      BY <2>2, <3>1, LineStays DEF Process
    <3>3. PropertySaid({})'
      BY <3>1 DEF PropertySaid
    <3> QED
      BY <3>1, <3>2, <3>3 DEF PropertyInv, PropertyIsOrderFree
  <2>3. ASSUME ProcessSpecifier, kind = "uproperty" PROVE PropertyInv'
    <3>1. PICK D : Line(D) /\ PropertySaid(D)
      BY <1>2, <2>3 DEF ProcessSpecifier, PropertyInv
    <3>2. PICK p \in QueuedAt \ D : Head(specifiers) = input[p] /\ Line(D \cup {p})'
      BY <2>3, <3>1, LineMoves DEF ProcessSpecifier
    <3>3. PropertySpecifier(input[p]) /\ input' = input /\ valid
      BY <2>3, <3>2 DEF ProcessSpecifier, Specifier
    <3>4. IF valid' THEN PropertySaid(D \cup {p})' ELSE PropertyRefused'
      BY <3>1, <3>3, PropertyStep DEF Line
    <3>5. kind' = "uproperty" /\ phase' = "process"
      BY <2>3 DEF ProcessSpecifier
    <3> QED
      BY <3>2, <3>4, <3>5 DEF PropertyInv, PropertyIsOrderFree
  <2>4. ASSUME Finish, kind = "uproperty" PROVE PropertyInv'
    <3>1. phase' = "done" /\ kind' = kind /\ input' = input
      BY <2>4 DEF Finish
    <3>2. CASE valid
      <4>1. ValidateProperty /\ specifiers = <<>>
        BY <2>4, <3>2 DEF Finish
      <4>2. PICK D : Line(D) /\ PropertySaid(D)
        BY <1>2, <2>4, <3>2 DEF Finish, PropertyInv
      <4>3. D = QueuedAt
        BY <4>1, <4>2, LineEnds
      <4>4. /\ valid' <=> PropertyAllowed'
            /\ valid' => data'.flags = PropertyMeaning'
        BY <3>1, <3>2, <4>1, <4>2, <4>3, PropertyEnd
      <4> QED
        BY <3>1, <4>4 DEF PropertyInv, PropertyIsOrderFree
    <3>3. CASE ~valid
      <4>1. ~PropertyAllowed /\ UNCHANGED <<valid, data>>
        BY <1>2, <2>4, <3>3, RefusedIsNotAllowed DEF Finish, PropertyInv
      <4>2. PropertyAllowed' <=> PropertyAllowed
        BY <3>1, <4>1, MeaningStays
      <4> QED
        BY <3>1, <3>3, <4>1, <4>2 DEF PropertyInv, PropertyIsOrderFree
    <3> QED
      BY <3>2, <3>3
  <2>5. ASSUME NextDeclaration PROVE PropertyInv'
    BY <2>5 DEF NextDeclaration, PropertyInv, PropertyIsOrderFree
  <2>6. ASSUME UNCHANGED vars PROVE PropertyInv'
    <3>1. \A D : Line(D) => Line(D)'
      BY <2>6, LineStays DEF vars
    <3>2. QueuedAt' = QueuedAt
      BY <2>6 DEF vars, QueuedAt
    <3>3. /\ \A D : PropertySaid(D) => PropertySaid(D)'
          /\ PropertyRefused => PropertyRefused'
      BY <2>6, <3>2 DEF vars, PropertySaid, PropertyRefused
    <3>4. PropertyIsOrderFree' <=> PropertyIsOrderFree
      BY <2>6, MeaningStays DEF vars, PropertyIsOrderFree
    <3> QED
      BY <1>2, <2>6, <3>1, <3>3, <3>4 DEF vars, PropertyInv
  <2>7. kind # "uproperty" => PropertyInv' \/ NextDeclaration
    BY <1>2 DEF Next, vars, Collect, Process, ProcessSpecifier, Finish, PropertyInv
  <2> QED
    BY <1>2, <2>1, <2>2, <2>3, <2>4, <2>5, <2>6, <2>7 DEF Next
<1> QED
  BY <1>1, <1>2, CollectingInvariant, PTL DEF Spec

\* PropertyIsOrderFree for every vocabulary and every number of specifiers:
\* which lists of property specifiers are accepted, and what they mean, is a
\* function of the set of the specifiers alone.
THEOREM PropertyOrderFree == Spec => []PropertyIsOrderFree
<1>1. PropertyInv => PropertyIsOrderFree
  BY DEF PropertyInv, PropertyIsOrderFree
<1> QED
  BY <1>1, PropertyInvariant, PTL

-----------------------------------------------------------------------------
(* Functions.  Four of the things a specifier can say decide reliability.  *)

NetNames == {"Server", "Client", "NetMulticast"}
ServiceNames == {"ServiceRequest", "ServiceResponse"}
Net(f) == "FUNC_Net" \in f
Service(f) == "FUNC_NetRequest" \in f \/ "FUNC_NetResponse" \in f
Reliable(f) == "FUNC_NetReliable" \in f
Unreliable(n) == "bSpecifiedUnreliable" \in n

\* What a specifier of this name says is added to what was said.
SaidAlso(f, n, name) ==
    /\ Net(f) <=> Net(data.flags) \/ name \in NetNames \cup ServiceNames
    /\ Service(f) <=> Service(data.flags) \/ name \in ServiceNames
    /\ Reliable(f) <=> Reliable(data.flags) \/ name \in ServiceNames \cup {"Reliable"}
    /\ Unreliable(n) <=> Unreliable(data.seen) \/ name = "Unreliable"
SaysMore(s) == valid' => IsData(data') /\ SaidAlso(data'.flags, data'.seen, s.name)

LEMMA SaysUpdate ==
    ASSUME NEW s, NEW f, NEW n, ~valid' \/ Updated(data', f, n), SaidAlso(f, n, s.name)
    PROVE  SaysMore(s)
  BY DEF SaysMore, Updated

LEMMA EventSays ==
    ASSUME IsData(data), NEW s, EventSpecifier(s)
    PROVE  SaysMore(s)
<1> DEFINE F == (IF s.name = "BlueprintNativeEvent" THEN data.flags ELSE data.flags \ {"FUNC_Native"})
                \cup {"FUNC_Event", "FUNC_BlueprintEvent"}
<1>1. ~valid' \/ data' = [data EXCEPT !.flags = F]
  BY Zenon DEF EventSpecifier, Handle, Reject
<1>2. Updated([data EXCEPT !.flags = F], F, data.seen)
  BY Updates, Zenon
<1>3. SaidAlso(F, data.seen, s.name)
  BY DEF EventSpecifier, SaidAlso, Net, Service, Reliable, Unreliable, NetNames, ServiceNames
<1> QED
  BY <1>1, <1>2, <1>3, SaysUpdate

LEMMA ExecSays ==
    ASSUME IsData(data), NEW s, ExecSpecifier(s)
    PROVE  SaysMore(s)
<1> DEFINE F == data.flags \cup {"FUNC_Exec"}
<1>1. ~valid' \/ data' = [data EXCEPT !.flags = F]
  BY Zenon DEF ExecSpecifier, Handle, Reject
<1>2. Updated([data EXCEPT !.flags = F], F, data.seen)
  BY Updates, Zenon
<1>3. SaidAlso(F, data.seen, s.name)
  BY DEF ExecSpecifier, SaidAlso, Net, Service, Reliable, Unreliable, NetNames, ServiceNames
<1> QED
  BY <1>1, <1>2, <1>3, SaysUpdate

LEMMA ReplicationSays ==
    ASSUME IsData(data), NEW s, ReplicationSpecifier(s)
    PROVE  SaysMore(s)
<1> DEFINE r == CASE s.name = "Server" -> "FUNC_NetServer"
                  [] s.name = "Client" -> "FUNC_NetClient"
                  [] OTHER -> "FUNC_NetMulticast"
           F == data.flags \cup {"FUNC_Net", r}
           L == IF IsMetaKey(s) THEN data.locals ELSE Put(data.locals, "CppImpName", s.values[1])
<1>1. ~valid' \/ data' = [data EXCEPT !.flags = F, !.locals = L]
  BY Zenon DEF ReplicationSpecifier, Handle, Reject
<1>2. r \in {"FUNC_NetServer", "FUNC_NetClient", "FUNC_NetMulticast"}
  OBVIOUS
<1> HIDE DEF r
<1>3. Updated([data EXCEPT !.flags = F, !.locals = L], F, data.seen)
  BY Updates, Zenon
<1>4. SaidAlso(F, data.seen, s.name)
  BY <1>2 DEF ReplicationSpecifier, SaidAlso, Net, Service, Reliable, Unreliable, NetNames,
              ServiceNames
<1> QED
  BY <1>1, <1>3, <1>4, SaysUpdate

LEMMA ServiceSays ==
    ASSUME IsData(data), NEW s, ServiceSpecifier(s)
    PROVE  SaysMore(s)
<1> DEFINE R == IF s.name = "ServiceRequest"
                THEN {"FUNC_NetRequest", "FUNCEXPORT_CustomThunk"} ELSE {"FUNC_NetResponse"}
           F == data.flags \cup {"FUNC_Net", "FUNC_NetReliable"} \cup R
           L == {l \in data.locals : l[1] \notin {"RPCId", "RPCResponseId", "EndpointName"}}
                \cup Identifiers(s.values)
<1>1. ~valid' \/ data' = [data EXCEPT !.flags = F, !.locals = L]
  BY Zenon DEF ServiceSpecifier, Handle, Reject
<1>2. Updated([data EXCEPT !.flags = F, !.locals = L], F, data.seen)
  <2> HIDE DEF F, L
  <2> QED
    BY Updates, Zenon
<1>3. SaidAlso(F, data.seen, s.name)
  BY DEF ServiceSpecifier, SaidAlso, Net, Service, Reliable, Unreliable, NetNames, ServiceNames
<1> HIDE DEF F, L
<1> QED
  BY <1>1, <1>2, <1>3, SaysUpdate

LEMMA MarkSays ==
    ASSUME IsData(data), NEW s, MarkSpecifier(s)
    PROVE  SaysMore(s)
<1> DEFINE N == data.seen \cup {FunctionMarks[s.name]}
<1>1. ~valid' \/ data' = [data EXCEPT !.seen = N]
  BY Zenon DEF MarkSpecifier, Handle, Reject
<1>2. Updated([data EXCEPT !.seen = N], data.flags, N)
  BY Updates, Zenon
<1>3. SaidAlso(data.flags, N, s.name)
  BY DEF MarkSpecifier, FunctionMarks, SaidAlso, Net, Service, Reliable, Unreliable, NetNames,
         ServiceNames
<1> QED
  BY <1>1, <1>2, <1>3, SaysUpdate

LEMMA FlagSays ==
    ASSUME IsData(data), NEW s, FlagSpecifier(s)
    PROVE  SaysMore(s)
<1> DEFINE F == data.flags \cup {FunctionFlag[s.name]}
<1>1. ~valid' \/ data' = [data EXCEPT !.flags = F]
  BY Zenon DEF FlagSpecifier, Handle, Reject
<1>2. Updated([data EXCEPT !.flags = F], F, data.seen)
  BY Updates, Zenon
<1>3. SaidAlso(F, data.seen, s.name)
  BY DEF FlagSpecifier, FunctionFlag, SaidAlso, Net, Service, Reliable, Unreliable, NetNames,
         ServiceNames
<1> QED
  BY <1>1, <1>2, <1>3, SaysUpdate

LEMMA AccessorSays ==
    ASSUME IsData(data), NEW s, AccessorSpecifier(s)
    PROVE  SaysMore(s)
<1> DEFINE F == data.flags \cup {"FUNC_BlueprintCallable"}
                \cup (IF s.name = "BlueprintGetter" THEN {"FUNC_BlueprintPure"} ELSE {})
           N == data.seen \cup {"bSawPropertyAccessor"}
           M == Put(data.meta, s.name, Word(NoText))
<1>1. ~valid' \/ data' = [data EXCEPT !.flags = F, !.seen = N, !.meta = M]
  BY Zenon DEF AccessorSpecifier, Handle, Reject
<1>2. Updated([data EXCEPT !.flags = F, !.seen = N, !.meta = M], F, N)
  BY Updates, Zenon
<1>3. SaidAlso(F, N, s.name)
  BY DEF AccessorSpecifier, SaidAlso, Net, Service, Reliable, Unreliable, NetNames, ServiceNames
<1> QED
  BY <1>1, <1>2, <1>3, SaysUpdate

LEMMA PureSays ==
    ASSUME IsData(data), NEW s, PureSpecifier(s)
    PROVE  SaysMore(s)
<1> DEFINE pure == IsMetaKey(s) \/ s.values[1].text = "true"
           F == data.flags \cup {"FUNC_BlueprintCallable"}
                \cup (IF pure THEN {"FUNC_BlueprintPure"} ELSE {})
           N == IF pure THEN data.seen ELSE data.seen \cup {"bForceBlueprintImpure"}
<1>1. ~valid' \/ data' = [data EXCEPT !.flags = F, !.seen = N]
  BY Zenon DEF PureSpecifier, Handle, Reject
<1> HIDE DEF pure
<1>2. Updated([data EXCEPT !.flags = F, !.seen = N], F, N)
  BY Updates, Zenon
<1>3. SaidAlso(F, N, s.name)
  BY DEF PureSpecifier, SaidAlso, Net, Service, Reliable, Unreliable, NetNames, ServiceNames
<1> QED
  BY <1>1, <1>2, <1>3, SaysUpdate

LEMMA ValidationSays ==
    ASSUME IsData(data), NEW s, ValidationSpecifier(s)
    PROVE  SaysMore(s)
<1> DEFINE F == data.flags \cup {"FUNC_NetValidate"}
           L == IF IsMetaKey(s) THEN data.locals
                ELSE Put(data.locals, "CppValidationImplName", s.values[1])
<1>1. ~valid' \/ data' = [data EXCEPT !.flags = F, !.locals = L]
  BY Zenon DEF ValidationSpecifier, Handle, Reject
<1>2. Updated([data EXCEPT !.flags = F, !.locals = L], F, data.seen)
  BY Updates, Zenon
<1>3. SaidAlso(F, data.seen, s.name)
  BY DEF ValidationSpecifier, SaidAlso, Net, Service, Reliable, Unreliable, NetNames, ServiceNames
<1> QED
  BY <1>1, <1>2, <1>3, SaysUpdate

\* What the specifiers at D say, and the flags have it.
FunctionSaid(D) ==
    /\ IsData(data)
    /\ Net(data.flags) <=> \E i \in D : input[i].name \in NetNames \cup ServiceNames
    /\ Service(data.flags) <=> \E i \in D : input[i].name \in ServiceNames
    /\ Reliable(data.flags) <=> \E i \in D : input[i].name \in ServiceNames \cup {"Reliable"}
    /\ Unreliable(data.seen) <=> \E i \in D : input[i].name = "Unreliable"

LEMMA FunctionSaysMore ==
    ASSUME NEW D, FunctionSaid(D), NEW p, FunctionSpecifier(input[p]), input' = input, valid'
    PROVE  FunctionSaid(D \cup {p})'
<1> DEFINE s == input[p]
<1>1. IsData(data) /\ FunctionSpecifier(s)
  BY DEF FunctionSaid
<1> HIDE DEF s
<1>2. SaysMore(s)
  <2>1. ASSUME Reject PROVE SaysMore(s)
    BY <2>1 DEF Reject, SaysMore
  <2> QED
    BY <1>1, <2>1, EventSays, ExecSays, ReplicationSays, ServiceSays, MarkSays, FlagSays,
       AccessorSays, PureSays, ValidationSays, Zenon DEF FunctionSpecifier
<1>3. IsData(data') /\ SaidAlso(data'.flags, data'.seen, input[p].name)
  BY <1>2 DEF SaysMore, s
<1> QED
  BY <1>3 DEF SaidAlso, FunctionSaid

LEMMA ReliabilityDecidedOfAll ==
    ASSUME FunctionSaid(QueuedAt), ReliabilityDecided, input' = input
    PROVE  ReliabilityIsSaid'
<1>1. /\ (NetNames \cup ServiceNames) \cap CommonMetaData = {}
      /\ {"Reliable", "Unreliable"} \cap CommonMetaData = {}
  BY DEF NetNames, ServiceNames, CommonMetaData, CommonValues, CommonKeys
<1>2. \A names : names \cap CommonMetaData = {} =>
        (Given(names)' <=> \E i \in QueuedAt : input[i].name \in names)
  <2>1. \A names : Positions(names)' = Positions(names)
    BY DEF Positions
  <2> QED
    BY <2>1, PositionsQueued DEF Given
<1>3. /\ Given(NetNames)' <=> \E i \in QueuedAt : input[i].name \in NetNames
      /\ Given(ServiceNames)' <=> \E i \in QueuedAt : input[i].name \in ServiceNames
      /\ Given({"Reliable"})' <=> \E i \in QueuedAt : input[i].name = "Reliable"
      /\ Given({"Unreliable"})' <=> \E i \in QueuedAt : input[i].name = "Unreliable"
  <2>1. /\ NetNames \cap CommonMetaData = {} /\ ServiceNames \cap CommonMetaData = {}
        /\ {"Reliable"} \cap CommonMetaData = {} /\ {"Unreliable"} \cap CommonMetaData = {}
    BY <1>1
  <2> QED
    BY <1>2, <2>1
<1>4. IF Net(data.flags)
      THEN Service(data.flags) \/ (Reliable(data.flags) <=> ~Unreliable(data.seen))
      ELSE ~Reliable(data.flags) /\ ~Unreliable(data.seen)
  BY DEF ReliabilityDecided, IsService, Any, Net, Service, Reliable, Unreliable
<1>5. /\ Net(data.flags) <=> Given(NetNames)' \/ Given(ServiceNames)'
      /\ Service(data.flags) <=> Given(ServiceNames)'
      /\ Reliable(data.flags) <=> Given({"Reliable"})' \/ Given(ServiceNames)'
      /\ Unreliable(data.seen) <=> Given({"Unreliable"})'
  BY <1>3 DEF FunctionSaid
<1>6. IF Given(NetNames)' /\ ~Given(ServiceNames)'
      THEN Given({"Reliable"})' <=> ~Given({"Unreliable"})'
      ELSE Given(ServiceNames)' \/ (~Given({"Reliable"})' /\ ~Given({"Unreliable"})')
  BY <1>4, <1>5
<1> QED
  BY <1>6 DEF ReliabilityIsSaid, NetNames, ServiceNames

ReliabilityInv ==
    kind = "ufunction" =>
        /\ phase = "process" /\ valid => \E D : Line(D) /\ FunctionSaid(D)
        /\ ReliabilityIsSaid

LEMMA ReliabilityInvariant == Spec => []ReliabilityInv
<1>1. Init => ReliabilityInv
  BY DEF Init, ReliabilityInv, ReliabilityIsSaid, Accepted
<1>2. ASSUME Collecting, ReliabilityInv, [Next]_vars
      PROVE  ReliabilityInv'
  <2>1. ASSUME NEW e, Collect(e) PROVE ReliabilityInv'
    BY <2>1 DEF Collect, ReliabilityInv, ReliabilityIsSaid, Accepted
  <2>2. ASSUME Process, kind = "ufunction" PROVE ReliabilityInv'
    <3>1. /\ valid' /\ Line({}) /\ kind' = "ufunction" /\ phase' = "process"
          /\ IsData(data) /\ data.flags = {} /\ data.seen = {}
      BY <1>2, <2>2 DEF Process, Collecting
    <3>2. Line({})'
      BY <2>2, <3>1, LineStays DEF Process
    <3>3. IsData(data') /\ data'.flags \subseteq {"FUNC_Event"} /\ data'.seen = {}
      <4>1. LET d == [data EXCEPT !.flags = @ \cup {"FUNC_Event"}]
            IN  IsData(d) /\ d.flags = {"FUNC_Event"} /\ d.seen = {}
        BY <3>1 DEF IsData
      <4> QED
        BY <2>2, <3>1, <4>1, Zenon DEF Process
    <3>4. FunctionSaid({})'
      BY <3>3 DEF FunctionSaid, Net, Service, Reliable, Unreliable
    <3> QED
      BY <3>1, <3>2, <3>4 DEF ReliabilityInv, ReliabilityIsSaid, Accepted
  <2>3. ASSUME ProcessSpecifier, kind = "ufunction" PROVE ReliabilityInv'
    <3>1. PICK D : Line(D) /\ FunctionSaid(D)
      BY <1>2, <2>3 DEF ProcessSpecifier, ReliabilityInv
    <3>2. PICK p \in QueuedAt \ D : Head(specifiers) = input[p] /\ Line(D \cup {p})'
      BY <2>3, <3>1, LineMoves DEF ProcessSpecifier
    <3>3. FunctionSpecifier(input[p]) /\ input' = input
      BY <2>3, <3>2 DEF ProcessSpecifier, Specifier
    <3>4. valid' => FunctionSaid(D \cup {p})'
      BY <3>1, <3>3, FunctionSaysMore
    <3>5. kind' = "ufunction" /\ phase' = "process"
      BY <2>3 DEF ProcessSpecifier
    <3> QED
      BY <3>2, <3>4, <3>5 DEF ReliabilityInv, ReliabilityIsSaid, Accepted
  <2>4. ASSUME Finish, kind = "ufunction" PROVE ReliabilityInv'
    <3>1. phase' = "done" /\ kind' = kind /\ input' = input
      BY <2>4 DEF Finish
    <3>2. CASE valid
      <4>1. ValidateFunction /\ specifiers = <<>>
        BY <2>4, <3>2 DEF Finish
      <4>2. PICK D : Line(D) /\ FunctionSaid(D)
        BY <1>2, <2>4, <3>2 DEF Finish, ReliabilityInv
      <4>3. FunctionSaid(QueuedAt)
        BY <4>1, <4>2, LineEnds
      <4>4. valid' => ReliabilityDecided
        <5>1. valid' = FALSE \/ ReliabilityDecided
          BY <4>1 DEF ValidateFunction, Handle, Reject
        <5> QED
          BY <5>1
      <4>5. valid' => ReliabilityIsSaid'
        BY <3>1, <4>3, <4>4, ReliabilityDecidedOfAll
      <4> QED
        BY <3>1, <4>5 DEF ReliabilityInv, ReliabilityIsSaid, Accepted
    <3>3. CASE ~valid
      BY <2>4, <3>1, <3>3 DEF Finish, ReliabilityInv, ReliabilityIsSaid, Accepted
    <3> QED
      BY <3>2, <3>3
  <2>5. ASSUME NextDeclaration PROVE ReliabilityInv'
    BY <2>5 DEF NextDeclaration, ReliabilityInv, ReliabilityIsSaid, Accepted
  <2>6. ASSUME UNCHANGED vars PROVE ReliabilityInv'
    <3>1. \A D : Line(D) => Line(D)'
      BY <2>6, LineStays DEF vars
    <3>2. \A D : FunctionSaid(D) => FunctionSaid(D)'
      BY <2>6 DEF vars, FunctionSaid
    <3>3. \A names : Given(names)' <=> Given(names)
      BY <2>6 DEF vars, Given, Positions
    <3>4. ReliabilityIsSaid' <=> ReliabilityIsSaid
      BY <2>6, <3>3 DEF vars, ReliabilityIsSaid, Accepted
    <3> QED
      BY <1>2, <2>6, <3>1, <3>2, <3>4 DEF vars, ReliabilityInv
  <2>7. kind # "ufunction" => ReliabilityInv' \/ NextDeclaration
    BY <1>2 DEF Next, vars, Collect, Process, ProcessSpecifier, Finish, ReliabilityInv
  <2> QED
    BY <1>2, <2>1, <2>2, <2>3, <2>4, <2>5, <2>6, <2>7 DEF Next
<1> QED
  BY <1>1, <1>2, CollectingInvariant, PTL DEF Spec

\* ReliabilityIsSaid for every vocabulary and every number of specifiers: the
\* flags the validation looks at are exactly what the specifiers say, for none
\* of them takes back what another one said.
THEOREM ReliabilitySaid == Spec => []ReliabilityIsSaid
<1>1. ReliabilityInv => ReliabilityIsSaid
  BY DEF ReliabilityInv, ReliabilityIsSaid, Accepted
<1> QED
  BY <1>1, ReliabilityInvariant, PTL

-----------------------------------------------------------------------------
(* Classes.  Of the specifiers at D the last one that touches a flag, or a *)
(* category of a list, decides about it.                                   *)

Sets(f, n) == n \in ClassFlagNames /\ f \in ClassAdds(n)
Clears(f, n) == n \in ClassFlagNames /\ f \in ClassRemoves(n)
Says(s, v) == \E j \in DOMAIN s.values : s.values[j] = v
AutoLists == {"AutoExpandCategories", "AutoCollapseCategories"}
Enlists(L, v, s) == s.name = L /\ Says(s, v)
Strikes(L, v, s) == s.name \in ClassLists /\ L \in ListRemoves(s.name) /\ Says(s, v)

ClassSaid(D) ==
    /\ IsData(data)
    /\ \A f : f \in data.flags <=>
                \E i \in D : /\ Sets(f, input[i].name)
                             /\ \A j \in D : Sets(f, input[j].name) \/ Clears(f, input[j].name)
                                             => j <= i
    /\ \A L \in AutoLists : \A v :
          <<L, v>> \in data.lists <=>
             \E i \in D : /\ Enlists(L, v, input[i])
                          /\ \A j \in D : Enlists(L, v, input[j]) \/ Strikes(L, v, input[j])
                                          => j <= i

\* What one specifier does to a flag and to an entry of a list.
ClassOutcome(s) ==
    valid' =>
        /\ IsData(data')
        /\ \A f : f \in data'.flags <=> Sets(f, s.name) \/ (f \in data.flags /\ ~Clears(f, s.name))
        /\ \A L \in AutoLists : \A v :
              <<L, v>> \in data'.lists <=>
                 Enlists(L, v, s) \/ (<<L, v>> \in data.lists /\ ~Strikes(L, v, s))

LEMMA ClassGroups ==
    /\ ClassFlagNames \cap ClassLists = {}
    /\ (ClassFlagNames \cup ClassLists) \cap (DOMAIN ClassKeyEntries \cup {"Within", "Config", "DependsOn"})
         = {}
    /\ AutoLists \subseteq ClassLists
    /\ (ClassFlagNames \cup ClassLists) \cap CommonMetaData = {}
  BY DEF ClassFlagNames, ClassOwnFlags, ClassLists, ClassKeyEntries, AutoLists, CommonMetaData,
         CommonValues, CommonKeys

\* The fields of an updated record.
LEMMA ClassUpdates ==
    ASSUME IsData(data)
    PROVE  /\ \A f, n : LET d == [data EXCEPT !.flags = f, !.seen = n]
                        IN  IsData(d) /\ d.flags = f /\ d.lists = data.lists
           /\ \A m : LET d == [data EXCEPT !.meta = m]
                     IN  IsData(d) /\ d.flags = data.flags /\ d.lists = data.lists
           /\ \A l : LET d == [data EXCEPT !.locals = l]
                     IN  IsData(d) /\ d.flags = data.flags /\ d.lists = data.lists
           /\ \A l : LET d == [data EXCEPT !.lists = l]
                     IN  IsData(d) /\ d.flags = data.flags /\ d.lists = l
  BY DEF IsData

LEMMA ClassFlagOutcome ==
    ASSUME IsData(data), NEW s, ClassFlagSpecifier(s)
    PROVE  ClassOutcome(s)
<1> DEFINE F == (data.flags \ ClassRemoves(s.name)) \cup ClassAdds(s.name)
           N == data.seen \cup ({"Placeable"} \cap {s.name})
<1>1. ~valid' \/ data' = [data EXCEPT !.flags = F, !.seen = N]
  BY Zenon DEF ClassFlagSpecifier, Handle, Reject
<1>2. s.name \in ClassFlagNames /\ s.name \notin ClassLists
  BY ClassGroups DEF ClassFlagSpecifier
<1>3. \A f : f \in F <=> Sets(f, s.name) \/ (f \in data.flags /\ ~Clears(f, s.name))
  BY <1>2 DEF Sets, Clears
<1>4. \A L \in AutoLists : \A v : ~Enlists(L, v, s) /\ ~Strikes(L, v, s)
  BY <1>2, ClassGroups DEF Enlists, Strikes
<1> HIDE DEF F, N
<1>5. LET d == [data EXCEPT !.flags = F, !.seen = N]
      IN  IsData(d) /\ d.flags = F /\ d.lists = data.lists
  BY ClassUpdates, Zenon
<1>6. valid' => IsData(data') /\ data'.flags = F /\ data'.lists = data.lists
  BY <1>1, <1>5, Zenon
<1> QED
  BY <1>3, <1>4, <1>6 DEF ClassOutcome

\* A specifier that is neither a flag nor a list leaves both as they are.
LEMMA ClassOtherOutcome ==
    ASSUME NEW s, s.name \notin ClassFlagNames \cup ClassLists,
           valid' => IsData(data') /\ data'.flags = data.flags /\ data'.lists = data.lists
    PROVE  ClassOutcome(s)
<1>1. \A f : ~Sets(f, s.name) /\ ~Clears(f, s.name)
  BY DEF Sets, Clears
<1>2. \A L \in AutoLists : \A v : ~Enlists(L, v, s) /\ ~Strikes(L, v, s)
  BY ClassGroups DEF Enlists, Strikes
<1> QED
  BY <1>1, <1>2 DEF ClassOutcome

LEMMA ClassKeyOutcome ==
    ASSUME IsData(data), NEW s, ClassKeySpecifier(s)
    PROVE  ClassOutcome(s)
<1> DEFINE M == Put(data.meta, ClassKeyEntries[s.name], Word("true"))
<1>1. ~valid' \/ data' = [data EXCEPT !.meta = M]
  BY Zenon DEF ClassKeySpecifier, Handle, Reject
<1> HIDE DEF M
<1>2. LET d == [data EXCEPT !.meta = M]
      IN  IsData(d) /\ d.flags = data.flags /\ d.lists = data.lists
  BY ClassUpdates, Zenon
<1>3. valid' => IsData(data') /\ data'.flags = data.flags /\ data'.lists = data.lists
  BY <1>1, <1>2, Zenon
<1>4. s.name \notin ClassFlagNames \cup ClassLists
  BY ClassGroups DEF ClassKeySpecifier
<1> QED
  BY <1>3, <1>4, ClassOtherOutcome

LEMMA ClassValueOutcome ==
    ASSUME IsData(data), NEW s, ClassValueSpecifier(s)
    PROVE  ClassOutcome(s)
<1> DEFINE L == Put(data.locals, s.name, s.values[1])
<1>1. ~valid' \/ data' = [data EXCEPT !.locals = L]
  BY Zenon DEF ClassValueSpecifier, Handle, Reject
<1> HIDE DEF L
<1>2. LET d == [data EXCEPT !.locals = L]
      IN  IsData(d) /\ d.flags = data.flags /\ d.lists = data.lists
  BY ClassUpdates, Zenon
<1>3. valid' => IsData(data') /\ data'.flags = data.flags /\ data'.lists = data.lists
  BY <1>1, <1>2, Zenon
<1>4. s.name \notin ClassFlagNames \cup ClassLists
  BY ClassGroups DEF ClassValueSpecifier
<1> QED
  BY <1>3, <1>4, ClassOtherOutcome

LEMMA ClassListOutcome ==
    ASSUME IsData(data), NEW s, ClassListSpecifier(s)
    PROVE  ClassOutcome(s)
<1> DEFINE vs == {s.values[i] : i \in DOMAIN s.values}
           R == ListRemoves(s.name) \X vs
           A == ({s.name} \ {"DontAutoCollapseCategories"}) \X vs
           Q == (data.lists \ R) \cup A
<1>1. ~valid' \/ data' = [data EXCEPT !.lists = Q]
  BY Zenon DEF ClassListSpecifier, Handle, Reject
<1>2. LET d == [data EXCEPT !.lists = Q]
      IN  IsData(d) /\ d.flags = data.flags /\ d.lists = Q
  <2> HIDE DEF Q
  <2> QED
    BY ClassUpdates, Zenon
<1>3. s.name \in ClassLists /\ s.name \notin ClassFlagNames
  BY ClassGroups DEF ClassListSpecifier
<1>4. \A f : ~Sets(f, s.name) /\ ~Clears(f, s.name)
  BY <1>3 DEF Sets, Clears
<1>5. \A v : v \in vs <=> Says(s, v)
  BY DEF Says
<1>6. ASSUME NEW L \in AutoLists, NEW v
      PROVE  <<L, v>> \in Q <=> Enlists(L, v, s) \/ (<<L, v>> \in data.lists /\ ~Strikes(L, v, s))
  <2> HIDE DEF vs
  <2>1. <<L, v>> \in R <=> L \in ListRemoves(s.name) /\ v \in vs
    OBVIOUS
  <2>2. <<L, v>> \in A <=> s.name = L /\ v \in vs
    BY DEF AutoLists
  <2> HIDE DEF R, A
  <2> QED
    BY <1>3, <1>5, <2>1, <2>2 DEF Enlists, Strikes
<1> HIDE DEF Q
<1>7. valid' => IsData(data') /\ data'.flags = data.flags /\ data'.lists = Q
  BY <1>1, <1>2, Zenon
<1> QED
  BY <1>4, <1>6, <1>7 DEF ClassOutcome

LEMMA ClassStep ==
    ASSUME IsData(data), NEW s, ClassSpecifier(s)
    PROVE  ClassOutcome(s)
<1>1. ASSUME s.name = "DependsOn", UNCHANGED <<valid, data>>
      PROVE  ClassOutcome(s)
  <2>1. s.name \notin ClassFlagNames \cup ClassLists
    BY <1>1, ClassGroups
  <2> QED
    BY <1>1, <2>1, ClassOtherOutcome
<1>2. ASSUME Reject PROVE ClassOutcome(s)
  BY <1>2 DEF Reject, ClassOutcome
<1> QED
  BY <1>1, <1>2, ClassFlagOutcome, ClassKeyOutcome, ClassValueOutcome, ClassListOutcome, Zenon
     DEF ClassSpecifier

\* The specifier comes after all that were processed: it has the last word.
LEMMA ClassSaysMore ==
    ASSUME NEW D, D \subseteq QueuedAt, QueuedAt \subseteq Nat, ClassSaid(D), NEW p \in Nat,
           \A i \in D : i < p, ClassSpecifier(input[p]), input' = input, valid'
    PROVE  ClassSaid(D \cup {p})'
<1>1. ClassOutcome(input[p]) /\ D \subseteq Nat
  BY ClassStep DEF ClassSaid
<1>2. IsData(data')
  BY <1>1 DEF ClassOutcome
<1>3. ASSUME NEW f
      PROVE  f \in data'.flags <=>
               \E i \in D \cup {p} :
                  /\ Sets(f, input[i].name)
                  /\ \A j \in D \cup {p} : Sets(f, input[j].name) \/ Clears(f, input[j].name) => j <= i
  <2>1. f \in data'.flags <=> Sets(f, input[p].name) \/ (f \in data.flags /\ ~Clears(f, input[p].name))
    BY <1>1 DEF ClassOutcome
  <2>2. f \in data.flags <=>
          \E i \in D : /\ Sets(f, input[i].name)
                       /\ \A j \in D : Sets(f, input[j].name) \/ Clears(f, input[j].name) => j <= i
    BY DEF ClassSaid
  <2>3. \A i \in D : i <= p /\ ~(p <= i)
    BY <1>1
  <2> QED
    BY <2>1, <2>2, <2>3
<1>4. ASSUME NEW L \in AutoLists, NEW v
      PROVE  <<L, v>> \in data'.lists <=>
               \E i \in D \cup {p} :
                  /\ Enlists(L, v, input[i])
                  /\ \A j \in D \cup {p} : Enlists(L, v, input[j]) \/ Strikes(L, v, input[j]) => j <= i
  <2>1. <<L, v>> \in data'.lists <=>
          Enlists(L, v, input[p]) \/ (<<L, v>> \in data.lists /\ ~Strikes(L, v, input[p]))
    BY <1>1 DEF ClassOutcome
  <2>2. <<L, v>> \in data.lists <=>
          \E i \in D : /\ Enlists(L, v, input[i])
                       /\ \A j \in D : Enlists(L, v, input[j]) \/ Strikes(L, v, input[j]) => j <= i
    BY DEF ClassSaid
  <2>3. \A i \in D : i <= p /\ ~(p <= i)
    BY <1>1
  <2> QED
    BY <2>1, <2>2, <2>3
<1> QED
  BY <1>2, <1>3, <1>4 DEF ClassSaid

\* What ClassLastWord says once the class is accepted.
LastWords ==
    /\ \A f \in UNION {ClassAdds(n) : n \in ClassFlagNames} :
          LET adds == {n \in ClassFlagNames : f \in ClassAdds(n)}
              removes == {n \in ClassFlagNames : f \in ClassRemoves(n)}
          IN  f \in data.flags <=> LastAmong(Positions(adds \cup removes), adds)
    /\ \A v \in {Word(t) : t \in Text} :
          /\ <<"AutoExpandCategories", v>> \in data.lists <=>
                LastAmong(Mentions(v, {"AutoExpandCategories", "AutoCollapseCategories"}),
                          {"AutoExpandCategories"})
          /\ <<"AutoCollapseCategories", v>> \in data.lists <=>
                LastAmong(Mentions(v, {"AutoExpandCategories", "AutoCollapseCategories",
                                       "DontAutoCollapseCategories"}),
                          {"AutoCollapseCategories"})

LEMMA LastWordsStay ==
    ASSUME UNCHANGED <<input, data>>
    PROVE  LastWords => LastWords'
<1>1. /\ \A names : Positions(names)' = Positions(names)
      /\ \A hits, names : LastAmong(hits, names)' <=> LastAmong(hits, names)
      /\ \A v, names : Mentions(v, names)' = Mentions(v, names)
  BY DEF Positions, LastAmong, Mentions
<1> QED
  BY <1>1 DEF LastWords

LEMMA LastWordOfAll ==
    ASSUME ClassSaid(QueuedAt)
    PROVE  LastWords
<1>1. ASSUME NEW f
      PROVE  LET adds == {n \in ClassFlagNames : f \in ClassAdds(n)}
                 removes == {n \in ClassFlagNames : f \in ClassRemoves(n)}
             IN  f \in data.flags <=> LastAmong(Positions(adds \cup removes), adds)
  <2> DEFINE adds == {n \in ClassFlagNames : f \in ClassAdds(n)}
             removes == {n \in ClassFlagNames : f \in ClassRemoves(n)}
  <2>1. (adds \cup removes) \cap CommonMetaData = {}
    BY ClassGroups
  <2>2. \A i : /\ Sets(f, input[i].name) <=> input[i].name \in adds
               /\ Clears(f, input[i].name) <=> input[i].name \in removes
    BY DEF Sets, Clears
  <2> HIDE DEF adds, removes
  <2>3. \A i : i \in Positions(adds \cup removes) <=>
                 i \in QueuedAt /\ input[i].name \in adds \cup removes
    BY <2>1, PositionsQueued
  <2>4. f \in data.flags <=>
          \E i \in QueuedAt : /\ input[i].name \in adds
                              /\ \A j \in QueuedAt : input[j].name \in adds \cup removes => j <= i
    BY <2>2 DEF ClassSaid
  <2>5. f \in data.flags <=> LastAmong(Positions(adds \cup removes), adds)
    BY <2>3, <2>4 DEF LastAmong
  <2> QED
    BY <2>5 DEF adds, removes
<1>2. ASSUME NEW L \in AutoLists, NEW names \in SUBSET ClassLists, NEW v,
             \A n : n \in names <=> n = L \/ (n \in ClassLists /\ L \in ListRemoves(n))
      PROVE  <<L, v>> \in data.lists <=> LastAmong(Mentions(v, names), {L})
  <2>1. \A i : i \in Positions(names) <=> i \in QueuedAt /\ input[i].name \in names
    BY ClassGroups, PositionsQueued
  <2>2. \A i : i \in Mentions(v, names) <=>
                 i \in QueuedAt /\ (Enlists(L, v, input[i]) \/ Strikes(L, v, input[i]))
    BY <1>2, <2>1 DEF Mentions, Enlists, Strikes, Says
  <2>3. \A i \in Mentions(v, names) : Enlists(L, v, input[i]) <=> input[i].name \in {L}
    BY DEF Mentions, Enlists, Says
  <2>4. <<L, v>> \in data.lists <=>
          \E i \in QueuedAt :
             /\ Enlists(L, v, input[i])
             /\ \A j \in QueuedAt : Enlists(L, v, input[j]) \/ Strikes(L, v, input[j]) => j <= i
    BY DEF ClassSaid
  <2> QED
    BY <2>2, <2>3, <2>4 DEF LastAmong
<1>3. \A n : /\ n \in {"AutoExpandCategories", "AutoCollapseCategories"} <=>
                  \/ n = "AutoExpandCategories"
                  \/ n \in ClassLists /\ "AutoExpandCategories" \in ListRemoves(n)
             /\ n \in {"AutoExpandCategories", "AutoCollapseCategories",
                       "DontAutoCollapseCategories"} <=>
                  \/ n = "AutoCollapseCategories"
                  \/ n \in ClassLists /\ "AutoCollapseCategories" \in ListRemoves(n)
  BY DEF ListRemoves, ClassLists
<1>4. \A v : /\ <<"AutoExpandCategories", v>> \in data.lists <=>
                  LastAmong(Mentions(v, {"AutoExpandCategories", "AutoCollapseCategories"}),
                            {"AutoExpandCategories"})
             /\ <<"AutoCollapseCategories", v>> \in data.lists <=>
                  LastAmong(Mentions(v, {"AutoExpandCategories", "AutoCollapseCategories",
                                         "DontAutoCollapseCategories"}),
                            {"AutoCollapseCategories"})
  <2>1. /\ "AutoExpandCategories" \in AutoLists /\ "AutoCollapseCategories" \in AutoLists
        /\ {"AutoExpandCategories", "AutoCollapseCategories"} \in SUBSET ClassLists
        /\ {"AutoExpandCategories", "AutoCollapseCategories", "DontAutoCollapseCategories"}
             \in SUBSET ClassLists
    BY DEF AutoLists, ClassLists
  <2> QED
    BY <1>2, <1>3, <2>1
<1> QED
  BY <1>1, <1>4 DEF LastWords

ClassInv ==
    kind = "uclass" =>
        /\ phase = "process" /\ valid => \E D : Line(D) /\ ClassSaid(D)
        /\ ClassLastWord

LEMMA ClassInvariant == Spec => []ClassInv
<1>1. Init => ClassInv
  BY DEF Init, ClassInv, ClassLastWord, Accepted
<1>2. ASSUME Collecting, ClassInv, [Next]_vars
      PROVE  ClassInv'
  <2>1. ASSUME NEW e, Collect(e) PROVE ClassInv'
    BY <2>1 DEF Collect, ClassInv, ClassLastWord, Accepted
  <2>2. ASSUME Process, kind = "uclass" PROVE ClassInv'
    <3>1. /\ valid' /\ Line({}) /\ kind' = "uclass" /\ phase' = "process" /\ data' = data
          /\ IsData(data) /\ data.flags = {} /\ data.lists = {}
      BY <1>2, <2>2 DEF Process, Collecting
    <3>2. Line({})'
      BY <2>2, <3>1, LineStays DEF Process
    <3>3. ClassSaid({})'
      BY <3>1 DEF ClassSaid
    <3> QED
      BY <3>1, <3>2, <3>3 DEF ClassInv, ClassLastWord, Accepted
  <2>3. ASSUME ProcessSpecifier, kind = "uclass" PROVE ClassInv'
    <3>1. PICK D : Line(D) /\ ClassSaid(D)
      BY <1>2, <2>3 DEF ProcessSpecifier, ClassInv
    <3>2. PICK p \in QueuedAt \ D : /\ Head(specifiers) = input[p] /\ Line(D \cup {p})'
                                    /\ \A i \in D : i < p
      BY <2>3, <3>1, LineMoves DEF ProcessSpecifier
    <3>3. ClassSpecifier(input[p]) /\ input' = input
      BY <2>3, <3>2 DEF ProcessSpecifier, Specifier
    <3>4. D \subseteq QueuedAt /\ QueuedAt \subseteq Nat
      BY <3>1 DEF Line, QueuedAt
    <3>5. valid' => ClassSaid(D \cup {p})'
      BY <3>1, <3>2, <3>3, <3>4, ClassSaysMore
    <3>6. kind' = "uclass" /\ phase' = "process"
      BY <2>3 DEF ProcessSpecifier
    <3> QED
      BY <3>2, <3>5, <3>6 DEF ClassInv, ClassLastWord, Accepted
  <2>4. ASSUME Finish, kind = "uclass" PROVE ClassInv'
    <3>1. phase' = "done" /\ kind' = kind /\ UNCHANGED <<input, valid, data>>
      BY <2>4 DEF Finish
    <3>2. CASE valid
      <4>1. specifiers = <<>>
        BY <2>4, <3>2 DEF Finish
      <4>2. PICK D : Line(D) /\ ClassSaid(D)
        BY <1>2, <2>4, <3>2 DEF Finish, ClassInv
      <4>3. ClassSaid(QueuedAt)
        BY <4>1, <4>2, LineEnds
      <4>4. LastWords
        BY <4>3, LastWordOfAll
      <4>5. LastWords'
        BY <3>1, <4>4, LastWordsStay
      <4> QED
        BY <3>1, <4>5 DEF ClassInv, ClassLastWord, LastWords
    <3>3. CASE ~valid
      BY <2>4, <3>1, <3>3 DEF ClassInv, ClassLastWord, Accepted
    <3> QED
      BY <3>2, <3>3
  <2>5. ASSUME NextDeclaration PROVE ClassInv'
    BY <2>5 DEF NextDeclaration, ClassInv, ClassLastWord, Accepted
  <2>6. ASSUME UNCHANGED vars PROVE ClassInv'
    <3>1. \A D : Line(D) => Line(D)'
      BY <2>6, LineStays DEF vars
    <3>2. \A D : ClassSaid(D) => ClassSaid(D)'
      BY <2>6 DEF vars, ClassSaid
    <3>3. LastWords => LastWords'
      BY <2>6, LastWordsStay DEF vars
    <3>4. ClassLastWord => ClassLastWord'
      BY <2>6, <3>3 DEF vars, ClassLastWord, Accepted, LastWords
    <3> QED
      BY <1>2, <2>6, <3>1, <3>2, <3>4 DEF vars, ClassInv
  <2>7. kind # "uclass" => ClassInv' \/ NextDeclaration
    BY <1>2 DEF Next, vars, Collect, Process, ProcessSpecifier, Finish, ClassInv
  <2> QED
    BY <1>2, <2>1, <2>2, <2>3, <2>4, <2>5, <2>6, <2>7 DEF Next
<1> QED
  BY <1>1, <1>2, CollectingInvariant, PTL DEF Spec

\* ClassLastWord for every vocabulary and every number of specifiers: no flag
\* and no category is decided by any but the last specifier that touches it.
THEOREM ClassLastWordCounts == Spec => []ClassLastWord
<1>1. ClassInv => ClassLastWord
  BY DEF ClassInv, ClassLastWord, Accepted
<1> QED
  BY <1>1, ClassInvariant, PTL
=============================================================================
