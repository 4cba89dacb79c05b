------------------------------- MODULE UEMeta -------------------------------
(***************************************************************************)
(* PuertsEditor/UEMeta.js: the metadata of one declaration is compiled     *)
(* from its decorators.  The expressions of the decorators are read in     *)
(* order: common keys go to the metadata map at once, the rest is queued   *)
(* (Collect).  The queue is then processed specifier by specifier; the     *)
(* first invalid one makes the whole result null.  Function and property   *)
(* flags are validated at the end.                                         *)
(*                                                                         *)
(* A flags word is the set of the names of its bits (the tables of         *)
(* uelazyload.js give every name a bit of its own), and the local booleans *)
(* of the code are the set of those that are true.                         *)
(***************************************************************************)
EXTENDS MetaSpecifiers

CONSTANTS Vocabulary,      \* for every kind, the expressions that may be read
          MaxSpecifiers    \* for every kind, how many a declaration may have

Kinds == {"uclass", "ufunction", "uproperty", "uparam"}

ASSUME VocabularyAssumption ==
    /\ Vocabulary \in [Kinds -> SUBSET Expression]
    /\ MaxSpecifiers \in [Kinds -> Nat]

VARIABLES kind, phase, input, specifiers, valid, data

vars == <<kind, phase, input, specifiers, valid, data>>

\* data.meta    metaData
\* data.flags   ClassFlags, FunctionFlags and FunctionExportFlags, PropertyFlags
\* data.seen    the local booleans that are true
\* data.locals  the local strings and numbers that are set
\* data.lists   the class's category, function and group sets, as pairs
NoData == [meta |-> {}, flags |-> {}, seen |-> {}, locals |-> {}, lists |-> {}]

Init ==
    /\ kind \in Kinds
    /\ phase = "collect"
    /\ input = <<>> /\ specifiers = <<>>
    /\ valid = TRUE
    /\ data = NoData

Flags(fs) == fs \subseteq data.flags
Any(fs) == fs \cap data.flags # {}
Local(n) == {e[2] : e \in {l \in data.locals : l[1] = n}}

\* markInvalidSpecifier, markInvalidSince: the rest of the queue is skipped.
Reject == valid' = FALSE /\ UNCHANGED data
Handle(ok, result) == IF ok THEN data' = result /\ UNCHANGED valid ELSE Reject

-----------------------------------------------------------------------------
(* getMetaDataFromDecorators                                               *)

Collect(e) ==
    /\ phase = "collect"
    /\ Len(input) < MaxSpecifiers[kind]
    /\ input' = Append(input, e)
    /\ IF e.form # "other" /\ e.decorator = "identity" /\ e.name \notin CommonMetaData
       THEN specifiers' = Append(specifiers, e) ELSE UNCHANGED specifiers
    /\ data' = CASE e.form = "other" -> data
                 [] e.form # "other" /\ e.decorator = "umeta" ->
                      [data EXCEPT !.meta = ApplyInMeta(e, @)]
                 [] OTHER -> [data EXCEPT !.meta = ApplyInIdentity(e, @)]
    /\ UNCHANGED <<kind, phase, valid>>

\* A function that implements a C++ event starts as an event.
Process ==
    /\ phase = "collect"
    /\ phase' = "process"
    /\ data' = IF kind = "ufunction" /\ Has(data.meta, "CppFromBpEvent")
               THEN [data EXCEPT !.flags = @ \cup {"FUNC_Event"}] ELSE data
    /\ UNCHANGED <<kind, input, specifiers, valid>>

-----------------------------------------------------------------------------
(* processClassMetaData; class flags are named without their CLASS_.        *)

ClassOwnFlags ==
    {"NoExport", "Intrinsic", "EditInlineNew", "DefaultToInstanced", "NotPlaceable", "MinimalAPI",
     "Const", "PerObjectConfig", "ConfigDoNotCheckDefaults", "Abstract", "Transient",
     "CustomConstructor", "DefaultConfig", "GlobalUserConfig", "ProjectUserConfig",
     "CollapseCategories"}
ClassFlagNames ==
    ClassOwnFlags \cup {"HideDropdown", "Deprecated", "NotEditInlineNew", "Placeable",
                        "NonTransient", "DontCollapseCategories"}
\* Mutant: a class flag under the name of its specifier.
ClassAdds_Misspelt(n) ==
    CASE n \in ClassOwnFlags \cup {"HideDropdown"} -> {n}
      [] n = "Deprecated" -> {"Deprecated", "NotPlaceable"}
      [] OTHER -> {}

ClassAdds(n) ==
    CASE n \in ClassOwnFlags -> {n}
      [] n = "HideDropdown" -> {"HideDropDown"}
      [] n = "Deprecated" -> {"Deprecated", "NotPlaceable"}
      [] OTHER -> {}
ClassRemoves(n) ==
    CASE n = "NotEditInlineNew" -> {"EditInlineNew"}
      [] n = "Placeable" -> {"NotPlaceable"}
      [] n = "NonTransient" -> {"Transient"}
      [] n = "DontCollapseCategories" -> {"CollapseCategories"}
      [] OTHER -> {}

ClassFlagSpecifier(s) ==
    /\ s.name \in ClassFlagNames
    /\ Handle(IsMetaKey(s),
              [data EXCEPT !.flags = (@ \ ClassRemoves(s.name)) \cup ClassAdds(s.name),
                           !.seen = @ \cup ({"Placeable"} \cap {s.name})])

ClassKeyEntries == [ComponentWrapperClass |-> "IgnoreCategoryKeywordsInSubclasses",
                    AdvancedClassDisplay |-> "AdvancedClassDisplay",
                    ConversionRoot |-> "IsConversionRoot"]
ClassKeySpecifier(s) ==
    /\ s.name \in DOMAIN ClassKeyEntries
    /\ Handle(IsMetaKey(s),
              [data EXCEPT !.meta = Put(@, ClassKeyEntries[s.name], Word("true"))])

ClassValueSpecifier(s) ==
    /\ s.name \in {"Within", "Config"}
    /\ Handle(IsMetaKeyValue(s), [data EXCEPT !.locals = Put(@, s.name, s.values[1])])

\* A category that is expanded is no longer collapsed, and the other way round.
ClassLists == {"ShowCategories", "HideCategories", "ShowFunctions", "HideFunctions", "ClassGroup",
               "SparseClassDataTypes", "AutoExpandCategories", "AutoCollapseCategories",
               "DontAutoCollapseCategories"}
\* Mutant: to collapse a category does not take it out of the expanded ones.
ListRemoves_OneWay(n) ==
    IF n \in {"AutoExpandCategories", "DontAutoCollapseCategories"}
    THEN {"AutoCollapseCategories"} ELSE {}

ListRemoves(n) ==
    CASE n \in {"AutoExpandCategories", "DontAutoCollapseCategories"} -> {"AutoCollapseCategories"}
      [] n = "AutoCollapseCategories" -> {"AutoExpandCategories"}
      [] OTHER -> {}
ClassListSpecifier(s) ==
    /\ s.name \in ClassLists
    /\ LET vs == {s.values[i] : i \in DOMAIN s.values}
       IN  Handle(IF s.name = "SparseClassDataTypes" THEN IsMetaKeyValue(s) ELSE IsMetaKeyValues(s),
                  [data EXCEPT !.lists = (@ \ (ListRemoves(s.name) \X vs))
                                         \cup (({s.name} \ {"DontAutoCollapseCategories"}) \X vs)])

ClassNames == ClassFlagNames \cup DOMAIN ClassKeyEntries \cup ClassLists
              \cup {"Within", "Config", "DependsOn"}

ClassSpecifier(s) ==
    \/ ClassFlagSpecifier(s)
    \/ ClassKeySpecifier(s)
    \/ ClassValueSpecifier(s)
    \/ ClassListSpecifier(s)
    \/ s.name = "DependsOn" /\ UNCHANGED <<valid, data>>
    \/ s.name \notin ClassNames /\ Reject

-----------------------------------------------------------------------------
(* processFunctionMetaData                                                 *)

\* BlueprintNativeEvent tests that the function is an event and not native,
\* BlueprintImplementableEvent that it is an event and native.
EventClash(n) ==
    /\ Any({"FUNC_BlueprintEvent"})
    /\ Any({"FUNC_Native"}) <=> n = "BlueprintImplementableEvent"
EventSpecifier(s) ==
    /\ s.name \in {"BlueprintNativeEvent", "BlueprintImplementableEvent"}
    /\ Handle(/\ IsMetaKey(s)
              /\ ~Any({"FUNC_Net"})
              /\ ~EventClash(s.name)
              /\ "bSawPropertyAccessor" \notin data.seen,
              [data EXCEPT !.flags =
                  (IF s.name = "BlueprintNativeEvent" THEN @ ELSE @ \ {"FUNC_Native"})
                  \cup {"FUNC_Event", "FUNC_BlueprintEvent"}])

\* Only Server looks for FUNC_Exec.
ExecSpecifier(s) ==
    /\ s.name = "Exec"
    /\ Handle(IsMetaKey(s) /\ ~Any({"FUNC_Net"}), [data EXCEPT !.flags = @ \cup {"FUNC_Exec"}])

\* Mutant: Server, Client and NetMulticast do not look for a blueprint event.
ReplicationSpecifier_AnyEvent(s) ==
    /\ s.name \in {"Server", "Client", "NetMulticast"}
    /\ Handle(/\ IsMetaKey(s) \/ (IsMetaKeyValue(s) /\ s.name # "NetMulticast")
              /\ s.name = "Server" => ~Any({"FUNC_Exec"}),
              [data EXCEPT !.flags = @ \cup {"FUNC_Net"}])

ReplicationSpecifier(s) ==
    /\ s.name \in {"Server", "Client", "NetMulticast"}
    /\ Handle(/\ IsMetaKey(s) \/ (IsMetaKeyValue(s) /\ s.name # "NetMulticast")
              /\ ~Any({"FUNC_BlueprintEvent"})
              /\ s.name = "Server" => ~Any({"FUNC_Exec"}),
              [data EXCEPT
                  !.flags = @ \cup {"FUNC_Net",
                      CASE s.name = "Server" -> "FUNC_NetServer"
                        [] s.name = "Client" -> "FUNC_NetClient"
                        [] OTHER -> "FUNC_NetMulticast"},
                  !.locals = IF IsMetaKey(s) THEN @ ELSE Put(@, "CppImpName", s.values[1])])

\* parseNetServiceIdentifiers.  Id and ResponseId (or Priority) take the last
\* argument given; an identifier may be as large as 2^16.
MaxIdentifier == 65536
IsEndpoint(v) == v.tag = "none"
EndpointTwice(vs) ==
    \E i \in DOMAIN vs :
        /\ IsEndpoint(vs[i])
        /\ \/ \E e \in Local("EndpointName") : e.text # NoText
           \/ \E j \in 1 .. i - 1 : IsEndpoint(vs[j]) /\ vs[j].text # NoText
BadArgument(vs) ==
    \E i \in DOMAIN vs : /\ ~IsEndpoint(vs[i])
                         /\ vs[i].argument < 0 \/ vs[i].argument > MaxIdentifier
LastOf(vs, tags, old) ==
    {v \in {vs[i] : i \in DOMAIN vs} \cup old :
        LET hits == {i \in DOMAIN vs : vs[i].tag \in tags}
        IN  IF hits = {} THEN v \in old
            ELSE \E i \in hits : v = vs[i] /\ \A j \in hits : j <= i}
Identifiers(vs) ==
    LET ends == {i \in DOMAIN vs : IsEndpoint(vs[i]) /\ vs[i].text # NoText}
    IN  ({"RPCId"} \X LastOf(vs, {"Id"}, Local("RPCId")))
        \cup ({"RPCResponseId"} \X LastOf(vs, {"ResponseId", "Priority"}, Local("RPCResponseId")))
        \cup ({"EndpointName"} \X (Local("EndpointName") \cup {vs[i] : i \in ends}))
ServiceSpecifier(s) ==
    /\ s.name \in {"ServiceRequest", "ServiceResponse"}
    /\ LET found == Identifiers(s.values)
       IN  Handle(/\ IsMetaKeyValues(s)
                  /\ ~Any({"FUNC_BlueprintEvent"})
                  /\ ~EndpointTwice(s.values) /\ ~BadArgument(s.values)
                  /\ \E l \in found : l[1] = "EndpointName",
                  [data EXCEPT
                      !.flags = @ \cup {"FUNC_Net", "FUNC_NetReliable"}
                                  \cup (IF s.name = "ServiceRequest"
                                        THEN {"FUNC_NetRequest", "FUNCEXPORT_CustomThunk"}
                                        ELSE {"FUNC_NetResponse"}),
                      !.locals = {l \in @ : l[1] \notin {"RPCId", "RPCResponseId", "EndpointName"}}
                                 \cup found])

FunctionMarks == [SealedEvent |-> "bSealedEvent", Unreliable |-> "bSpecifiedUnreliable"]
MarkSpecifier(s) ==
    /\ s.name \in DOMAIN FunctionMarks
    /\ Handle(IsMetaKey(s), [data EXCEPT !.seen = @ \cup {FunctionMarks[s.name]}])

FunctionFlag == [Reliable |-> "FUNC_NetReliable", CustomThunk |-> "FUNCEXPORT_CustomThunk",
                 BlueprintCallable |-> "FUNC_BlueprintCallable",
                 BlueprintAuthorityOnly |-> "FUNC_BlueprintAuthorityOnly",
                 BlueprintCosmetic |-> "FUNC_BlueprintCosmetic"]
FlagSpecifier(s) ==
    /\ s.name \in DOMAIN FunctionFlag
    /\ Handle(IsMetaKey(s), [data EXCEPT !.flags = @ \cup {FunctionFlag[s.name]}])

AccessorSpecifier(s) ==
    /\ s.name \in {"BlueprintGetter", "BlueprintSetter"}
    /\ Handle(IsMetaKey(s) /\ ~Any({"FUNC_Event"}),
              [data EXCEPT
                  !.flags = @ \cup {"FUNC_BlueprintCallable"}
                      \cup (IF s.name = "BlueprintGetter" THEN {"FUNC_BlueprintPure"} ELSE {}),
                  !.seen = @ \cup {"bSawPropertyAccessor"},
                  !.meta = Put(@, s.name, Word(NoText))])

PureSpecifier(s) ==
    /\ s.name = "BlueprintPure"
    /\ LET pure == IsMetaKey(s) \/ s.values[1].text = "true"
       IN  Handle(IsMetaKey(s) \/ IsMetaKeyValue(s),
                  [data EXCEPT
                      !.flags = @ \cup {"FUNC_BlueprintCallable"}
                                  \cup (IF pure THEN {"FUNC_BlueprintPure"} ELSE {}),
                      !.seen = IF pure THEN @ ELSE @ \cup {"bForceBlueprintImpure"}])

ValidationSpecifier(s) ==
    /\ s.name = "WithValidation"
    /\ Handle(IsMetaKey(s) \/ IsMetaKeyValue(s),
              [data EXCEPT
                  !.flags = @ \cup {"FUNC_NetValidate"},
                  !.locals = IF IsMetaKey(s) THEN @
                             ELSE Put(@, "CppValidationImplName", s.values[1])])

FunctionNames ==
    DOMAIN FunctionMarks \cup DOMAIN FunctionFlag
    \cup {"BlueprintNativeEvent", "BlueprintImplementableEvent", "Exec", "Server", "Client",
          "NetMulticast", "ServiceRequest", "ServiceResponse", "BlueprintGetter",
          "BlueprintSetter", "BlueprintPure", "WithValidation"}

FunctionSpecifier(s) ==
    \/ EventSpecifier(s)
    \/ ExecSpecifier(s)
    \/ ReplicationSpecifier(s)
    \/ ServiceSpecifier(s)
    \/ MarkSpecifier(s)
    \/ FlagSpecifier(s)
    \/ AccessorSpecifier(s)
    \/ PureSpecifier(s)
    \/ ValidationSpecifier(s)
    \/ s.name \notin FunctionNames /\ Reject

\* validateFunctionFlags, and the identifiers as the metadata object keeps them
\* (uint16).  A function that nothing can override is final.
IsService == Any({"FUNC_NetRequest", "FUNC_NetResponse"})
\* Mutant: reliability is validated of replicated functions only.
ReliabilityDecided_NetOnly ==
    Any({"FUNC_Net"}) =>
        IsService \/ (Any({"FUNC_NetReliable"}) # ("bSpecifiedUnreliable" \in data.seen))

ReliabilityDecided ==
    LET reliable == Any({"FUNC_NetReliable"})
        unreliable == "bSpecifiedUnreliable" \in data.seen
    IN  IF Any({"FUNC_Net"}) THEN IsService \/ (reliable # unreliable)
        ELSE ~reliable /\ ~unreliable
SealedIsEvent ==
    "bSealedEvent" \in data.seen =>
        Any({"FUNC_Event", "FUNC_Net"}) /\ ~Any({"FUNC_BlueprintEvent"})
ValidateFunction ==
    LET final == ~Any({"FUNC_Net", "FUNC_BlueprintEvent"}) \/ "bSealedEvent" \in data.seen
    IN  Handle(/\ ~Flags({"FUNC_Net", "FUNC_Static"})
               /\ ReliabilityDecided
               /\ SealedIsEvent
               /\ ~("bForceBlueprintImpure" \in data.seen /\ Any({"FUNC_BlueprintPure"})),
               [data EXCEPT
                   !.flags = @ \cup (IF Any({"FUNC_Net"}) THEN {"FUNC_Event"} ELSE {})
                               \cup (IF final THEN {"FUNC_Final"} ELSE {}),
                   !.meta = IF Any({"FUNCEXPORT_CustomThunk"}) /\ ~Has(@, "CustomThunk")
                            THEN Put(@, "CustomThunk", Word("true")) ELSE @,
                   !.locals = {IF l[1] \in {"RPCId", "RPCResponseId"}
                               THEN <<l[1], [l[2] EXCEPT !.argument = @ % 65536]>> ELSE l : l \in @}])

-----------------------------------------------------------------------------
(* processParamMetaData                                                    *)

ParamFlags == [Const |-> {"CPF_ConstParm"}, Ref |-> {"CPF_OutParm", "CPF_ReferenceParm"},
               NotReplicated |-> {"CPF_RepSkip"}]
ParamSpecifier(s) ==
    IF s.name \in DOMAIN ParamFlags
    THEN Handle(IsMetaKey(s), [data EXCEPT !.flags = @ \cup ParamFlags[s.name]])
    ELSE Reject

-----------------------------------------------------------------------------
(* processPropertyMetaData                                                 *)

\* One edit or visibility specifier at most.
EditFlags ==
    [EditAnywhere |-> {"CPF_Edit"},
     EditInstanceOnly |-> {"CPF_Edit", "CPF_DisableEditOnTemplate"},
     EditDefaultsOnly |-> {"CPF_Edit", "CPF_DisableEditOnInstance"},
     VisibleAnywhere |-> {"CPF_Edit", "CPF_EditConst"},
     VisibleInstanceOnly |-> {"CPF_Edit", "CPF_EditConst", "CPF_DisableEditOnTemplate"},
     VisibleDefaultsOnly |-> {"CPF_Edit", "CPF_EditConst", "CPF_DisableEditOnInstance"}]
EditSpecifier(s) ==
    /\ s.name \in DOMAIN EditFlags
    /\ Handle(IsMetaKey(s) /\ "bSeenEditSpecifier" \notin data.seen,
              [data EXCEPT !.flags = @ \cup EditFlags[s.name],
                           !.seen = @ \cup {"bSeenEditSpecifier"}])

\* Read-only excludes the specifiers that make the property writable.
WriteSpecifier(s) ==
    /\ s.name \in {"BlueprintReadWrite", "BlueprintSetter"}
    /\ Handle(/\ IF s.name = "BlueprintSetter" THEN IsMetaKeyValue(s) ELSE IsMetaKey(s)
              /\ "bSeenBlueprintReadOnlySpecifier" \notin data.seen,
              [data EXCEPT
                  !.flags = @ \cup {"CPF_BlueprintVisible"},
                  !.seen = @ \cup {"bSeenBlueprintWriteSpecifier"},
                  !.meta = IF s.name = "BlueprintSetter" THEN Put(@, s.name, s.values[1]) ELSE @])
\* Mutant: that it was seen is not remembered.
ReadOnlySpecifier_Unseen(s) ==
    /\ s.name = "BlueprintReadOnly"
    /\ Handle(IsMetaKey(s) /\ "bSeenBlueprintWriteSpecifier" \notin data.seen,
              [data EXCEPT !.flags = @ \cup {"CPF_BlueprintVisible", "CPF_BlueprintReadOnly"}])

ReadOnlySpecifier(s) ==
    /\ s.name = "BlueprintReadOnly"
    /\ Handle(IsMetaKey(s) /\ "bSeenBlueprintWriteSpecifier" \notin data.seen,
              [data EXCEPT !.flags = @ \cup {"CPF_BlueprintVisible", "CPF_BlueprintReadOnly"},
                           !.seen = @ \cup {"bSeenBlueprintReadOnlySpecifier"}])
GetterSpecifier(s) ==
    /\ s.name = "BlueprintGetter"
    /\ Handle(IsMetaKeyValue(s),
              [data EXCEPT !.flags = @ \cup {"CPF_BlueprintVisible"},
                           !.seen = @ \cup {"bSeenBlueprintGetterSpecifier"},
                           !.meta = Put(@, s.name, s.values[1])])

\* The specifiers that only add flags.
AddedFlags ==
    [Config |-> {"CPF_Config"}, GlobalConfig |-> {"CPF_GlobalConfig", "CPF_Config"},
     Transient |-> {"CPF_Transient"}, DuplicateTransient |-> {"CPF_DuplicateTransient"},
     TextExportTransient |-> {"CPF_TextExportTransient"},
     NonPIETransient |-> {"CPF_NonPIEDuplicateTransient"},
     NonPIEDuplicateTransient |-> {"CPF_NonPIEDuplicateTransient"},
     Export |-> {"CPF_ExportObject"}, NoClear |-> {"CPF_NoClear"},
     EditFixedSize |-> {"CPF_EditFixedSize"}, Replicated |-> {"CPF_Net"},
     NotReplicated |-> {"CPF_RepSkip"},
     Interp |-> {"CPF_Edit", "CPF_BlueprintVisible", "CPF_Interp"},
     NonTransactional |-> {"CPF_NonTransactional"},
     Instanced |-> {"CPF_PersistentInstance", "CPF_ExportObject", "CPF_InstancedReference"},
     BlueprintAssignable |-> {"CPF_BlueprintAssignable"},
     BlueprintCallable |-> {"CPF_BlueprintCallable"},
     BlueprintAuthorityOnly |-> {"CPF_BlueprintAuthorityOnly"},
     AssetRegistrySearchable |-> {"CPF_AssetRegistrySearchable"},
     SimpleDisplay |-> {"CPF_SimpleDisplay"}, AdvancedDisplay |-> {"CPF_AdvancedDisplay"},
     SaveGame |-> {"CPF_SaveGame"}, SkipSerialization |-> {"CPF_SkipSerialization"}]
AddingSpecifier(s) ==
    /\ s.name \in DOMAIN AddedFlags
    /\ Handle(IsMetaKey(s),
              [data EXCEPT !.flags = @ \cup AddedFlags[s.name],
                           !.meta = IF s.name = "Instanced"
                                    THEN Put(@, "EditInline", Word("true")) ELSE @])
RepNotifySpecifier(s) ==
    /\ s.name = "ReplicatedUsing"
    /\ Handle(IsMetaKeyValue(s), [data EXCEPT !.flags = @ \cup {"CPF_Net", "CPF_RepNotify"},
                                              !.locals = Put(@, "RepCallbackName", s.values[1])])

\* EditInline is known and rejected, Localized and RepRetry do nothing.
PropertyNames == DOMAIN EditFlags \cup DOMAIN AddedFlags
    \cup {"BlueprintReadWrite", "BlueprintSetter", "BlueprintReadOnly", "BlueprintGetter",
          "ReplicatedUsing", "Localized", "RepRetry"}

PropertySpecifier(s) ==
    \/ EditSpecifier(s)
    \/ WriteSpecifier(s)
    \/ ReadOnlySpecifier(s)
    \/ GetterSpecifier(s)
    \/ AddingSpecifier(s)
    \/ RepNotifySpecifier(s)
    \/ s.name \in {"Localized", "RepRetry"} /\ UNCHANGED <<valid, data>>
    \/ s.name \notin PropertyNames /\ Reject

\* validatePropertyFlags: a getter without a writer means read-only.
ValidateProperty ==
    LET readOnly == /\ "bSeenBlueprintGetterSpecifier" \in data.seen
                    /\ "bSeenBlueprintWriteSpecifier" \notin data.seen
        exposed == Has(data.meta, "ExposeOnSpawn")
    IN  Handle(/\ exposed => Any({"CPF_BlueprintVisible"}) /\ ~Any({"CPF_DisableEditOnInstance"})
               /\ ~Any({"CPF_Edit"}) =>
                     ~Any({"CPF_DisableEditOnInstance", "CPF_DisableEditOnTemplate"})
               /\ ~Any({"CPF_Parm", "CPF_OutParm", "CPF_ReturnParm", "CPF_ReferenceParm",
                        "CPF_ConstParm"}),
               [data EXCEPT !.flags = @ \cup (IF readOnly THEN {"CPF_BlueprintReadOnly"} ELSE {})
                                        \cup (IF exposed THEN {"CPF_ExposeOnSpawn"} ELSE {})])

-----------------------------------------------------------------------------
(* compile*MetaData                                                        *)

Specifier(s) ==
    CASE kind = "uclass" -> ClassSpecifier(s)
      [] kind = "ufunction" -> FunctionSpecifier(s)
      [] kind = "uproperty" -> PropertySpecifier(s)
      [] OTHER -> ParamSpecifier(s)

ProcessSpecifier ==
    /\ phase = "process"
    /\ valid
    /\ specifiers # <<>>
    /\ specifiers' = Tail(specifiers)
    /\ Specifier(Head(specifiers))
    /\ UNCHANGED <<kind, phase, input>>

\* What SetParamFlags is given: the lower word, and for the upper one the flags
\* shifted left, of which a 32-bit number keeps only zeros.
HandOnParam ==
    /\ data' = [data EXCEPT !.flags = {x \in @ : PropertyBit[x] < 32}]
    /\ UNCHANGED valid

\* The rest of the queue is skipped once a specifier was invalid.
Finish ==
    /\ phase = "process"
    /\ ~valid \/ specifiers = <<>>
    /\ phase' = "done"
    /\ CASE valid /\ kind = "ufunction" -> ValidateFunction
         [] valid /\ kind = "uproperty" -> ValidateProperty
         [] valid /\ kind = "uparam" -> HandOnParam
         [] OTHER -> UNCHANGED <<valid, data>>
    /\ UNCHANGED <<kind, input, specifiers>>

\* The next declaration is compiled with variables of its own.
NextDeclaration ==
    /\ phase = "done"
    /\ kind' \in Kinds
    /\ phase' = "collect"
    /\ input' = <<>> /\ specifiers' = <<>>
    /\ valid' = TRUE
    /\ data' = NoData

Next ==
    \/ \E e \in Vocabulary[kind] : Collect(e)
    \/ Process
    \/ ProcessSpecifier
    \/ Finish
    \/ NextDeclaration

Spec == Init /\ [][Next]_vars

-----------------------------------------------------------------------------
(* What a declaration says, whatever the order it says it in.              *)

Accepted(k) == phase = "done" /\ kind = k /\ valid

\* The positions at which a specifier of this kind stands.
Positions(names) ==
    {i \in DOMAIN input : /\ input[i].decorator = "identity" /\ input[i].form # "other"
                          /\ input[i].name \in names}
Given(names) == Positions(names) # {}

\* Every flag is one of the table it is taken from (or it would be undefined,
\* which a number takes for no bit and a big integer refuses).
Tables == [uclass |-> ClassFlagTable, ufunction |-> FunctionFlagTable \cup FunctionExportFlagTable,
           uproperty |-> DOMAIN PropertyBit, uparam |-> DOMAIN PropertyBit]
\* The keys that the compiler itself puts into the metadata, besides the names it
\* reads; its local strings and numbers; its local booleans.
CompiledKeys ==
    {"BlueprintType", "IsBlueprintBase", "DevelopmentStatus", "IgnoreCategoryKeywordsInSubclasses",
     "AdvancedClassDisplay", "IsConversionRoot", "CustomThunk", "EditInline"}
Locals == {"Within", "Config", "CppImpName", "CppValidationImplName", "RPCId", "RPCResponseId",
           "EndpointName", "RepCallbackName"}
Booleans ==
    {"Placeable", "bSawPropertyAccessor", "bForceBlueprintImpure", "bSeenEditSpecifier",
     "bSeenBlueprintWriteSpecifier", "bSeenBlueprintReadOnlySpecifier",
     "bSeenBlueprintGetterSpecifier", "bSealedEvent", "bSpecifiedUnreliable"}
MetaNames == [k \in Kinds |-> {e.name : e \in Vocabulary[k]} \cup CompiledKeys]
TypeOK ==
    /\ kind \in Kinds
    /\ phase \in {"collect", "process", "done"}
    /\ input \in Seq(Expression) /\ specifiers \in Seq(Expression)
    /\ valid \in BOOLEAN
    /\ data.meta \subseteq MetaNames[kind] \X Value
    /\ data.flags \subseteq Tables[kind] /\ data.seen \subseteq Booleans
    /\ data.locals \subseteq Locals \X Value
    /\ data.lists \subseteq ClassLists \X Value

\* A function that gets metadata is never both replicated and overridable by a
\* blueprint, an accessor is no blueprint event, what is pure is callable, and
\* what a blueprint overrides is not final.  Each of the specifiers tests only
\* some of the others, and only those that were read before it
\* (parseFunctionMetaSpecifier).
FunctionIsConsistent ==
    Accepted("ufunction") =>
        /\ ~Flags({"FUNC_Net", "FUNC_BlueprintEvent"})
        /\ ~("bSawPropertyAccessor" \in data.seen /\ Any({"FUNC_BlueprintEvent"}))
        /\ Any({"FUNC_BlueprintPure"}) => Any({"FUNC_BlueprintCallable"})
        /\ ~Flags({"FUNC_Final", "FUNC_BlueprintEvent"})

\* Reliable or Unreliable was said of every function that is replicated, not
\* both unless it is a service, and of no other function, wherever in the list
\* the specifiers stand (validateFunctionFlags).
ReliabilityIsSaid ==
    Accepted("ufunction") =>
        LET reliable == Given({"Reliable"})
            unreliable == Given({"Unreliable"})
        IN  IF Given({"Server", "Client", "NetMulticast"})
               /\ ~Given({"ServiceRequest", "ServiceResponse"})
            THEN reliable # unreliable
            ELSE Given({"ServiceRequest", "ServiceResponse"}) \/ (~reliable /\ ~unreliable)

\* Property specifiers commute: which lists are accepted, and the flags they
\* give, are functions of the set of specifiers (processPropertyMetaData).
PropertyForm(e) ==
    CASE e.name \in {"BlueprintSetter", "BlueprintGetter", "ReplicatedUsing"} -> IsMetaKeyValue(e)
      [] e.name \in {"Localized", "RepRetry"} -> TRUE
      [] OTHER -> e.name \in PropertyNames /\ IsMetaKey(e)
Queued(e) == e.form # "other" /\ e.decorator = "identity" /\ e.name \notin CommonMetaData
Meaning(flags) == UNION {flags[n] : n \in {m \in DOMAIN flags : Given({m})}}
Writable == Given({"BlueprintReadWrite", "BlueprintSetter"})
PropertyMeaning ==
    Meaning(EditFlags) \cup Meaning(AddedFlags)
    \cup (IF Writable \/ Given({"BlueprintReadOnly", "BlueprintGetter"})
          THEN {"CPF_BlueprintVisible"} ELSE {})
    \cup (IF Given({"BlueprintReadOnly"}) \/ (Given({"BlueprintGetter"}) /\ ~Writable)
          THEN {"CPF_BlueprintReadOnly"} ELSE {})
    \cup (IF Given({"ReplicatedUsing"}) THEN {"CPF_Net", "CPF_RepNotify"} ELSE {})
    \cup (IF Has(data.meta, "ExposeOnSpawn") THEN {"CPF_ExposeOnSpawn"} ELSE {})
PropertyAllowed ==
    /\ \A i \in DOMAIN input : Queued(input[i]) => PropertyForm(input[i])
    /\ \A i, j \in Positions(DOMAIN EditFlags) : i = j
    /\ ~(Given({"BlueprintReadOnly"}) /\ Writable)
    /\ Has(data.meta, "ExposeOnSpawn") =>
          /\ "CPF_BlueprintVisible" \in PropertyMeaning
          /\ "CPF_DisableEditOnInstance" \notin PropertyMeaning
PropertyIsOrderFree ==
    phase = "done" /\ kind = "uproperty" =>
        /\ valid <=> PropertyAllowed
        /\ valid => data.flags = PropertyMeaning

\* Of the class specifiers that contradict each other the last one counts: a
\* flag is set iff the last specifier that sets or clears it sets it, a category
\* is in a list iff the last specifier that mentions it for this list puts it
\* there (processClassMetaData).
Mentions(v, names) ==
    {i \in Positions(names) : \E j \in DOMAIN input[i].values : input[i].values[j] = v}
LastAmong(hits, names) ==
    \E i \in hits : input[i].name \in names /\ \A j \in hits : j <= i
ClassLastWord ==
    Accepted("uclass") =>
        /\ \A f \in UNION {ClassAdds(n) : n \in ClassFlagNames} :
              LET adds == {n \in ClassFlagNames : f \in ClassAdds(n)}
                  removes == {n \in ClassFlagNames : f \in ClassRemoves(n)}
              IN  f \in data.flags <=> LastAmong(Positions(adds \cup removes), adds)
        /\ \A v \in {Word(t) : t \in Text} :
              /\ <<"AutoExpandCategories", v>> \in data.lists <=>
                    LastAmong(Mentions(v, {"AutoExpandCategories", "AutoCollapseCategories"}),
                              {"AutoExpandCategories"})
              /\ <<"AutoCollapseCategories", v>> \in data.lists <=>
                    LastAmong(Mentions(v, {"AutoExpandCategories", "AutoCollapseCategories",
                                           "DontAutoCollapseCategories"}),
                              {"AutoCollapseCategories"})
=============================================================================
