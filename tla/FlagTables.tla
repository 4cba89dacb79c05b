----------------------------- MODULE FlagTables -----------------------------
(***************************************************************************)
(* The tables of flags of uelazyload.js.  A flags word is modelled by the  *)
(* set of the names of its bits, for no two names of a table share a bit;  *)
(* the masks None and AllFlags are left out.  Only the order of the bits   *)
(* of properties matters: they do not fit into 32.                         *)
(***************************************************************************)
EXTENDS Naturals

\* ClassFlags, without the CLASS_ of the names.
ClassFlagTable ==
    {"Abstract", "DefaultConfig", "Config", "Transient", "Parsed", "MatchedSerializers",
     "ProjectUserConfig", "Native", "NoExport", "NotPlaceable", "PerObjectConfig",
     "ReplicationDataIsSetUp", "EditInlineNew", "CollapseCategories", "Interface",
     "CustomConstructor", "Const", "LayoutChanging", "CompiledFromBlueprint", "MinimalAPI",
     "RequiredAPI", "DefaultToInstanced", "TokenStreamAssembled", "HasInstancedReference",
     "Hidden", "Deprecated", "HideDropDown", "GlobalUserConfig", "Intrinsic", "Constructed",
     "ConfigDoNotCheckDefaults", "NewerVersionExists"}

FunctionFlagTable ==
    {"FUNC_Final", "FUNC_RequiredAPI", "FUNC_BlueprintAuthorityOnly", "FUNC_BlueprintCosmetic",
     "FUNC_Net", "FUNC_NetReliable", "FUNC_NetRequest", "FUNC_Exec", "FUNC_Native", "FUNC_Event",
     "FUNC_NetResponse", "FUNC_Static", "FUNC_NetMulticast", "FUNC_UbergraphFunction",
     "FUNC_MulticastDelegate", "FUNC_Public", "FUNC_Private", "FUNC_Protected", "FUNC_Delegate",
     "FUNC_NetServer", "FUNC_HasOutParms", "FUNC_HasDefaults", "FUNC_NetClient",
     "FUNC_DLLImport", "FUNC_BlueprintCallable", "FUNC_BlueprintEvent", "FUNC_BlueprintPure",
     "FUNC_EditorOnly", "FUNC_Const", "FUNC_NetValidate"}

\* A word of its own, that goes with the flags of a function.
FunctionExportFlagTable ==
    {"FUNCEXPORT_Final", "FUNCEXPORT_RequiredAPI", "FUNCEXPORT_Inline", "FUNCEXPORT_CppStatic",
     "FUNCEXPORT_CustomThunk"}

\* PropertyFlags, with the number of the bit.
PropertyBit ==
    [CPF_Edit |-> 0, CPF_ConstParm |-> 1, CPF_BlueprintVisible |-> 2, CPF_ExportObject |-> 3,
     CPF_BlueprintReadOnly |-> 4, CPF_Net |-> 5, CPF_EditFixedSize |-> 6, CPF_Parm |-> 7,
     CPF_OutParm |-> 8, CPF_ZeroConstructor |-> 9, CPF_ReturnParm |-> 10,
     CPF_DisableEditOnTemplate |-> 11, CPF_Transient |-> 13, CPF_Config |-> 14,
     CPF_DisableEditOnInstance |-> 16, CPF_EditConst |-> 17, CPF_GlobalConfig |-> 18,
     CPF_InstancedReference |-> 19, CPF_DuplicateTransient |-> 21,
     CPF_SaveGame |-> 24,
     CPF_NoClear |-> 25, CPF_ReferenceParm |-> 27, CPF_BlueprintAssignable |-> 28,
     CPF_Deprecated |-> 29, CPF_IsPlainOldData |-> 30, CPF_RepSkip |-> 31, CPF_RepNotify |-> 32,
     CPF_Interp |-> 33, CPF_NonTransactional |-> 34, CPF_EditorOnly |-> 35,
     CPF_NoDestructor |-> 36, CPF_AutoWeak |-> 38, CPF_ContainsInstancedReference |-> 39,
     CPF_AssetRegistrySearchable |-> 40, CPF_SimpleDisplay |-> 41, CPF_AdvancedDisplay |-> 42,
     CPF_Protected |-> 43, CPF_BlueprintCallable |-> 44, CPF_BlueprintAuthorityOnly |-> 45,
     CPF_TextExportTransient |-> 46, CPF_NonPIEDuplicateTransient |-> 47,
     CPF_ExposeOnSpawn |-> 48, CPF_PersistentInstance |-> 49, CPF_UObjectWrapper |-> 50,
     CPF_HasGetValueTypeHash |-> 51, CPF_NativeAccessSpecifierPublic |-> 52,
     CPF_NativeAccessSpecifierProtected |-> 53, CPF_NativeAccessSpecifierPrivate |-> 54,
     CPF_SkipSerialization |-> 55]
=============================================================================
