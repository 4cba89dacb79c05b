-------------------------- MODULE MCReactorWidgets --------------------------
(* Small instances of ReactorWidgets for TLC.                               *)
EXTENDS ReactorWidgets, TLC

CONSTANTS w1, w2, w3, u1, b1,   \* widgets, a utility widget, a blueprint
          s1, s2,               \* two launch scripts by their relative names
          f1, f2, sc            \* the same by full path, utils/compile.js

\* w1 and w2 are two instances of one widget class, w3 and the utility widget
\* run a script of their own, the blueprint is that of w1 and w2.
MCScriptOf ==
    [a \in Actors |-> CASE a = b1 -> f1
                        [] a \in {w3, u1} -> s2
                        [] OTHER -> s1]

MCFullPath ==
    [s \in Scripts |-> CASE s = s1 -> f1
                         [] s = s2 -> f2
                         [] OTHER -> s]

\* Addresses of caller objects are interchangeable.
CallerSymmetry == Permutations(Callers)

\* The bound on Callers blocks nothing: a new caller always finds an address.
CallersSuffice ==
    MayCreate => \A s \in Scripts :
        ~IsExistBridgeCaller(s) \/ Utilities # {} =>
            \E c \in Callers \ CallersInUse : \A t \in Scripts : SelfHolder[t] # c
=============================================================================
