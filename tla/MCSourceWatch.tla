---------------------------- MODULE MCSourceWatch ----------------------------
(* Two files.  "user" imports the second, which is of no use to it as "old".   *)
EXTENDS SourceWatch

CONSTANTS a, b

MCUses == [c \in Contents |-> IF c = "user" THEN {b} ELSE {}]
=============================================================================
