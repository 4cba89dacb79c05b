---------------------------- MODULE BlueprintTypes ----------------------------
(***************************************************************************)
(* From the declarations of a TypeScript class to what a blueprint is made *)
(* of: the pin of a type (CodeAnalyze.js, tsTypeToPinType), the flags of a *)
(* property, and which members of a class count.                           *)
(*                                                                         *)
(* A type is a constructor with its arguments and the comment @cpp behind  *)
(* it.  A flags word is the set of the names of its bits; of an unnamed    *)
(* bit nothing is said.                                                    *)
(***************************************************************************)
EXTENDS FlagTables, Sequences

CONSTANTS Types,        \* a set of types that holds the arguments of its members
          Objects       \* what the engine knows of a name: an object, struct or enum

NoName == ""

\* The members of S in the sequence s, in their order.
Kept(s, S) ==
    LET kept[n \in 0 .. Len(s)] ==
            IF n = 0 THEN <<>>
            ELSE IF s[n] \in S THEN Append(kept[n - 1], s[n]) ELSE kept[n - 1]
    IN  kept[Len(s)]
Elements(s) == {s[i] : i \in DOMAIN s}

Type == [con : STRING, args : Seq(Types), cpp : STRING]
Void == [con |-> "void", args |-> <<>>, cpp |-> NoName]

ASSUME TypesAssumption ==
    /\ \A t \in Types : t.con \in STRING /\ t.cpp \in STRING /\ t.args \in Seq(Types)
    /\ \A o \in DOMAIN Objects : Objects[o] \in {"object", "struct", "byte"}

-----------------------------------------------------------------------------
(* Pins.                                                                   *)

NoPin == [category |-> "none"]
Terminal(c, o) ==
    [category |-> c, object |-> o, container |-> "None", isRef |-> FALSE, isIn |-> FALSE,
     value |-> <<>>]

Primitive == [number |-> "float", string |-> "string", bigint |-> "int64",
              BigInt |-> "int64", boolean |-> "bool"]

\* postProcessPinType: the comment names the C++ type of a number or a string.
Annotated(t, pin) ==
    IF /\ pin # NoPin /\ pin.container = "None"
       /\ \/ pin.category = "float" /\ t.cpp \in {"int", "byte"}
          \/ pin.category = "string" /\ t.cpp \in {"name", "text"}
    THEN [pin EXCEPT !.category = t.cpp] ELSE pin

References == {"$Ref", "$InRef"}
Pointers == [TSubclassOf |-> "class", TSoftObjectPtr |-> "softobject", TSoftClassPtr |-> "softclass"]
Containers == [TArray |-> "Array", TSet |-> "Set"]

\* tsTypeToPinType; without a node the comments of the arguments are not seen,
\* and the value of a map is read without one.
PinOf[q \in Types \X BOOLEAN] ==
    LET t == q[1]
        seen(s, pin) == IF q[2] THEN Annotated(s, pin) ELSE pin
        first == PinOf[<<t.args[1], q[2]>>]
        second == PinOf[<<t.args[2], FALSE>>]
        pin == seen(t.args[1], first)
        value == seen(t.args[2], second)
    IN  IF t.con \in DOMAIN Primitive THEN Terminal(Primitive[t.con], NoName)
        ELSE IF t.args = <<>> THEN
            (IF t.con \in DOMAIN Objects THEN Terminal(Objects[t.con], t.con) ELSE NoPin)
        ELSE IF first = NoPin THEN NoPin
        ELSE IF first.container # "None" /\ t.con \notin References THEN NoPin
        ELSE CASE t.con \in DOMAIN Containers -> [pin EXCEPT !.container = Containers[t.con]]
               [] t.con \in DOMAIN Pointers -> [pin EXCEPT !.category = Pointers[t.con]]
               [] t.con \in References -> [pin EXCEPT !.isRef = TRUE, !.isIn = @ \/ t.con = "$InRef"]
               [] t.con = "TMap" ->
                    (IF second = NoPin THEN NoPin
                     ELSE IF second.container # "None" THEN NoPin
                     ELSE [pin EXCEPT !.container = "Map", !.value = <<value.category, value.object>>])
               [] OTHER -> NoPin

Pin(t) == Annotated(t, PinOf[<<t, TRUE>>])

-----------------------------------------------------------------------------
(* Flags.                                                                  *)

NetMask == {"FUNC_Net", "FUNC_NetMulticast", "FUNC_NetServer", "FUNC_NetClient", "FUNC_NetReliable"}

\* The property flags of the upper word.
High == {f \in DOMAIN PropertyBit : PropertyBit[f] >= 32}

\* A 32-bit word that becomes a signed number and is widened to 64 bits.
Widened(flags) == IF "CPF_RepSkip" \in flags THEN flags \cup High ELSE flags

\* PropertyFlags of CodeAnalyze.js, which has one name more than uelazyload.js has.
CommentNames == DOMAIN PropertyBit \cup {"CPF_SubobjectReference"}

\* getFlagsValue: the comment @flags.  Two flags or more are combined by the |
\* of JavaScript, which keeps 32 bits.
CommentFlags(names) ==
    LET known == {names[i] : i \in DOMAIN names} \cap CommentNames
    IN  IF Len(names) < 2 THEN known ELSE Widened(known \ High)

\* The flags a property is given before its metadata; p.flags are those of the
\* decorators, whose words are big integers.
LocalFlags(p) ==
    LET given == CommentFlags(p.comment) \cup p.flags
                 \cup (IF p.condition # 0 THEN {"CPF_Net"} ELSE {})
        opened == IF p.editOnInstance
                  THEN (given \ {"CPF_DisableEditOnInstance"}) \cup {"CPF_Edit"} ELSE given
    IN  IF ~p.meta.there /\ "CPF_Edit" \notin opened
        THEN opened \cup {"CPF_DisableEditOnInstance"} ELSE opened

-----------------------------------------------------------------------------
(* Members.                                                                *)

NoMeta == [there |-> FALSE, flags |-> {}, keys |-> {}, callback |-> NoName]
\* What ELifetimeCondition gives a name, and | makes of several: all of it is below
\* the COND_Max of the engine.
Conditions == 0 .. 15
MetaData == [there : BOOLEAN, flags : SUBSET STRING, keys : SUBSET STRING, callback : STRING]
Parameter == [name : STRING, type : Types]
MethodDeclaration ==
    [sort : {"method"}, name : STRING, static : BOOLEAN, skip : BOOLEAN, signatures : Nat,
     params : Seq(Parameter), ret : Types \cup {Void}, flags : SUBSET STRING,
     clear : SUBSET STRING, meta : MetaData]
PropertyDeclaration ==
    [sort : {"property"}, name : STRING, static : BOOLEAN, skip : BOOLEAN, type : Types,
     comment : Seq(STRING), flags : SUBSET STRING, condition : Conditions, editOnInstance : BOOLEAN,
     meta : MetaData]

IsMethod(m) == m.sort = "method"
IsProperty(m) == m.sort = "property"

\* Static methods count in a function library and only there, static properties
\* never; @no-blueprint takes a member out; a game instance keeps ReceiveInit.
Counts(base, m) ==
    /\ ~m.skip
    /\ m.static <=> IsMethod(m) /\ base = "BlueprintFunctionLibrary"
    /\ ~(IsMethod(m) /\ m.name = "ReceiveInit" /\ base = "GameInstance")

HasConstructor(members) ==
    \E i \in DOMAIN members : IsMethod(members[i]) /\ members[i].name = "Constructor"

ReturnPin(m) == IF m.ret = Void THEN NoPin ELSE Pin(m.ret)
\* Only a method is declared several times under one name.
Single(m) == IsMethod(m) => m.signatures = 1
Translates(m) ==
    IF IsMethod(m)
    THEN /\ m.name # "Constructor" /\ m.signatures = 1
         /\ \A i \in DOMAIN m.params : Pin(m.params[i].type) # NoPin
         /\ m.ret = Void \/ ReturnPin(m) # NoPin
    ELSE Pin(m.type) # NoPin
=============================================================================
