--------------------------- MODULE MetaSpecifiers ---------------------------
(***************************************************************************)
(* The vocabulary of the decorators @uclass, @ufunction, @uproperty and    *)
(* @uparam: the expressions that may stand in them (MetaSpecifier of       *)
(* UEMeta.js), the metadata keys every declaration understands             *)
(* (CommonMetaData), and the specifiers that uelazyload.js offers to the   *)
(* programmer.  A specifier is named by its canonical spelling: the code   *)
(* compares in lower case, except for the common keys.                     *)
(***************************************************************************)
EXTENDS FlagTables, Integers, Sequences

CONSTANT Text       \* the string literals that occur as values

NoText == ""
Words == Text \cup {NoText, "true", "false", "Strict", "Experimental", "EarlyAccessPreview"}

\* What a value says: a word, or "tag=argument" of a net service.  An argument
\* of -1 stands for one that parseInt cannot read, or that is negative.
Value == [tag : {"none", "Id", "ResponseId", "Priority", "other"},
          text : Words, argument : Int]
Word(t) == [tag |-> "none", text |-> t, argument |-> 0]
Tagged(t, n) == [tag |-> t, text |-> NoText, argument |-> n]

\* An expression of a decorator: a name ("key"), an assignment of a literal or
\* of an array of literals ("list"), or anything else.
Expression == [decorator : {"identity", "umeta"}, name : STRING,
               form : {"key", "list", "other"}, values : Seq(Value)]
Key(n) == [decorator |-> "identity", name |-> n, form |-> "key", values |-> <<>>]
List(n, vs) == [decorator |-> "identity", name |-> n, form |-> "list", values |-> vs]

IsMetaKey(s) == s.form = "key"
IsMetaKeyValue(s) == s.form = "list" /\ Len(s.values) = 1
IsMetaKeyValues(s) == s.form = "list"

\* A metadata map is the set of its entries.
Has(meta, k) == \E e \in meta : e[1] = k
Unset(meta, k) == {e \in meta : e[1] # k}
Put(meta, k, v) == Unset(meta, k) \cup {<<k, v>>}

\* A umeta entry is a key or a key with one value; others are dropped.
ApplyInMeta(s, meta) ==
    IF IsMetaKey(s) THEN Put(meta, s.name, Word(NoText))
    ELSE IF IsMetaKeyValue(s) THEN Put(meta, s.name, s.values[1])
    ELSE meta

\* The keys of CommonMetaData, by the form they require.
CommonValues == {"DisplayName", "FriendlyName", "Category", "SparseClassDataType"}
CommonKeys == {"BlueprintInternalUseOnly", "BlueprintType", "NotBlueprintType",
               "Blueprintable", "CallInEditor", "NotBlueprintable", "Experimental",
               "EarlyAccessPreview", "DocumentationPolicy"}
CommonMetaData == CommonValues \cup CommonKeys

\* A common key in the wrong form is dropped without a word.
ApplyInIdentity(s, meta) ==
    LET n == s.name
        yes == Word("true")
    IN  CASE n \in CommonValues /\ IsMetaKeyValue(s) -> Put(meta, n, s.values[1])
          [] n \in CommonKeys /\ IsMetaKey(s) ->
               (CASE n = "BlueprintInternalUseOnly" -> Put(Put(meta, n, yes), "BlueprintType", yes)
                  [] n \in {"BlueprintType", "CallInEditor"} -> Put(meta, n, yes)
                  [] n = "NotBlueprintType" -> Unset(Put(meta, n, yes), "BlueprintType")
                  [] n = "Blueprintable" ->
                       Put(Put(meta, "IsBlueprintBase", yes), "BlueprintType", yes)
                  [] n = "NotBlueprintable" ->
                       Unset(Put(meta, "IsBlueprintBase", Word("false")), "BlueprintType")
                  [] n = "DocumentationPolicy" -> Put(meta, n, Word("Strict"))
                  [] OTHER -> Put(meta, "DevelopmentStatus", Word(n)))
          [] OTHER -> meta

-----------------------------------------------------------------------------
(* What uelazyload.js offers under "the specifiers" of each decorator.     *)

OfferedClass ==
    {"ClassGroup", "Within", "BlueprintType", "NotBlueprintType", "Blueprintable",
     "NotBlueprintable", "MinimalAPI", "CustomConstructor", "Intrinsic", "NoExport",
     "Placeable", "NotPlaceable", "DefaultToInstanced", "Const", "Abstract", "Deprecated",
     "Transient", "NonTransient", "Config", "PerObjectConfig", "ConfigDoNotCheckDefaults",
     "DefaultConfig", "EditInlineNew", "NotEditInlineNew", "HideDropdown", "ShowCategories",
     "HideCategories", "ComponentWrapperClass", "ShowFunctions", "HideFunctions",
     "AutoExpandCategories", "AutoCollapseCategories", "DontAutoCollapseCategories",
     "CollapseCategories", "DontCollapseCategories", "AdvancedClassDisplay",
     "ConversionRoot", "Experimental", "EarlyAccessPreview", "SparseClassDataType",
     "CustomThunkTemplates"}

OfferedFunction ==
    {"BlueprintImplementableEvent", "BlueprintNativeEvent", "SealedEvent", "Exec", "Server",
     "Client", "NetMulticast", "Reliable", "Unreliable", "BlueprintPure", "BlueprintCallable",
     "BlueprintGetter", "BlueprintSetter", "BlueprintAuthorityOnly", "BlueprintCosmetic",
     "BlueprintInternalUseOnly", "CallInEditor", "CustomThunk", "Category", "WithValidation",
     "ServiceRequest", "ServiceResponse", "Variadic", "ReturnDisplayName", "InternalUseParam"}

OfferedProperty ==
    {"Const", "Config", "GlobalConfig", "Localized", "Transient", "DuplicateTransient",
     "NonPIETransient", "NonPIEDuplicateTransient", "Export", "NoClear", "EditFixedSize",
     "Replicated", "ReplicatedUsing", "NotReplicated", "Interp", "NonTransactional",
     "Instanced", "BlueprintAssignable", "Category", "SimpleDisplay", "AdvancedDisplay",
     "EditAnywhere", "EditInstanceOnly", "EditDefaultsOnly", "VisibleAnywhere",
     "VisibleInstanceOnly", "VisibleDefaultsOnly", "BlueprintReadOnly", "BlueprintGetter",
     "BlueprintReadWrite", "BlueprintSetter", "AssetRegistrySearchable", "SaveGame",
     "BlueprintCallable", "BlueprintAuthorityOnly", "TextExportTransient",
     "SkipSerialization", "HideSelfPin"}

OfferedParam == {"Const", "Ref", "NotReplicated", "DisplayName"}

Offered == [uclass |-> OfferedClass, ufunction |-> OfferedFunction,
            uproperty |-> OfferedProperty, uparam |-> OfferedParam]
=============================================================================
