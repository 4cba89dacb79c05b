--------------------------- MODULE MCBlueprintEmit ---------------------------
(* One method and one property of each sort that the asset tells apart, and a  *)
(* class of one of them, or of up to four.                                    *)
EXTENDS BlueprintEmit

T(con, args, cpp) == [con |-> con, args |-> args, cpp |-> cpp]
Num == T("number", <<>>, "")
Int == T("number", <<>>, "int")
Str == T("string", <<>>, "name")
Comp == T("SceneComponent", <<>>, "")
Other == T("Light", <<>>, "")
Act == T("Actor", <<>>, "")
Fn == T("function", <<>>, "")
Ref == T("$Ref", <<Num>>, "")
InRef == T("$InRef", <<Int>>, "")
Arr == T("TArray", <<Int>>, "")
Nested == T("TArray", <<Arr>>, "")
Map == T("TMap", <<Str, Act>>, "")
Class == T("TSubclassOf", <<Act>>, "")
MCTypes == {Num, Int, Str, Comp, Other, Act, Fn, Ref, InRef, Arr, Nested, Map, Class}
MCObjects == [SceneComponent |-> "object", Light |-> "object", Actor |-> "object"]

MCBases == {"Actor", "GameInstance", "BlueprintFunctionLibrary"}
MCEvents == [b \in MCBases |-> IF b = "Actor" THEN {"Tick"} ELSE {}]
MCFunctions == [b \in MCBases |-> IF b = "Actor" THEN {"Query"} ELSE {}]

P(n, t) == [name |-> n, type |-> t]
Method(n, params, ret) ==
    [sort |-> "method", name |-> n, static |-> FALSE, skip |-> FALSE, signatures |-> 1,
     params |-> params, ret |-> ret, flags |-> {}, clear |-> {}, meta |-> NoMeta]
Property(n, t) ==
    [sort |-> "property", name |-> n, static |-> FALSE, skip |-> FALSE, type |-> t,
     comment |-> <<>>, flags |-> {}, condition |-> 0, editOnInstance |-> FALSE, meta |-> NoMeta]
Meta(fs) == [NoMeta EXCEPT !.there = TRUE, !.flags = fs]

f == Method("f", <<P("x", Num)>>, Void)
MCMethods ==
    {f, Method("f", <<P("y", Num)>>, Arr), Method("f", <<P("x", Int), P("o", Ref)>>, Void),
     Method("f", <<P("x", InRef), P("g", Fn)>>, Void),
     [f EXCEPT !.flags = {"FUNC_NetServer", "FUNC_Exec"}],
     [f EXCEPT !.meta = Meta({"FUNC_Net", "FUNC_NetClient"}), !.clear = {"FUNC_Exec"}],
     [f EXCEPT !.static = TRUE], Method("Tick", <<P("x", Num)>>, Void), Method("Query", <<>>, Num),
     Method("ReceiveInit", <<>>, Void), Method("Jump", <<>>, Void), Method("Constructor", <<>>, Void)}

v == Property("v", Num)
MCProperties ==
    {v, Property("c", Comp), Property("c", Other), [v EXCEPT !.condition = 2],
     [v EXCEPT !.comment = <<"CPF_RepNotify">>, !.flags = {"CPF_Net"}],
     [v EXCEPT !.type = Str, !.comment = <<"CPF_SaveGame", "CPF_Interp">>],
     [v EXCEPT !.meta = [Meta({"CPF_Edit", "CPF_DisableEditOnInstance"}) EXCEPT !.keys = {"EditInline"}]],
     [v EXCEPT !.meta = [Meta({"CPF_Net", "CPF_RepNotify"}) EXCEPT !.callback = "f"]],
     [v EXCEPT !.meta = Meta({"CPF_RepSkip"})],
     [v EXCEPT !.editOnInstance = TRUE, !.type = Class]}

u == Property("u", Map)
MCDeclarations ==
    {<<>>, <<v, [f EXCEPT !.signatures = 2], u>>, <<u, [v EXCEPT !.type = Str]>>,
     <<u, Property("w", Nested), Property("c", Comp), v>>,
     <<Method("f", <<P("x", InRef), P("g", Fn)>>, Void), Method("g", <<P("z", Num)>>, Void),
       [v EXCEPT !.skip = TRUE]>>,
     <<Method("OnRep_v", <<>>, Void), [v EXCEPT !.comment = <<"CPF_RepNotify">>]>>}
    \cup {<<m>> : m \in MCMethods \cup MCProperties}

\* The classes are such as the proofs speak of.
ASSUME HypothesesAssumption == NotificationsApart /\ ReturnsApart
=============================================================================
