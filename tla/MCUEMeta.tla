------------------------------ MODULE MCUEMeta ------------------------------
(* Every specifier that is offered or known, each form of error once.        *)
EXTENDS UEMeta

CONSTANTS A, B

V(t) == <<Word(t)>>
Meta(n) == [Key(n) EXCEPT !.decorator = "umeta"]
Call(n) == [Key(n) EXCEPT !.form = "other"]
Keys(ns) == {Key(n) : n \in ns}

MCVocabulary ==
    [uclass |->
        Keys(Offered.uclass \cup ClassFlagNames \cup CommonKeys \cup {"DependsOn"})
        \cup {List(n, V(A)) : n \in ClassLists \cup {"Within", "Config", "Abstract", "Category"}}
        \cup {List("AutoCollapseCategories", <<Word(A), Word(B)>>), List("SparseClassDataTypes", <<>>),
              Call("Abstract"), List("Experimental", V(A))},
     ufunction |->
        Keys((Offered.ufunction \cup FunctionNames) \ {"ServiceRequest", "ServiceResponse"})
        \cup {List(n, V(A)) : n \in {"Server", "Client", "WithValidation", "Exec", "ServiceResponse"}}
        \cup {List("BlueprintPure", V("true")), List("BlueprintPure", V("false")),
              List("ServiceRequest", <<Word(A), Tagged("Id", 65535)>>),
              List("ServiceResponse", <<Tagged("ResponseId", 65536), Tagged("Priority", 1)>>),
              List("ServiceRequest", <<Word(B), Tagged("Id", 65537)>>),
              Meta("CppFromBpEvent"), Call("Exec")},
     uproperty |->
        Keys(Offered.uproperty \cup PropertyNames \cup {"EditInline"})
        \cup {List(n, V(A)) : n \in {"BlueprintSetter", "BlueprintGetter", "ReplicatedUsing",
                                     "EditAnywhere", "Category"}}
        \cup {Meta("ExposeOnSpawn"), Call("Config")},
     uparam |->
        Keys(Offered.uparam)
        \cup {List("Ref", V(A)), List("DisplayName", V(A)), Key("Out"), Meta("ToolTip"),
              [List("UIMin", <<Word(A), Word(B)>>) EXCEPT !.decorator = "umeta"]}]

MCMaxSpecifiers == [uclass |-> 2, ufunction |-> 3, uproperty |-> 3, uparam |-> 3]
=============================================================================
