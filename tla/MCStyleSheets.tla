---------------------------- MODULE MCStyleSheets ----------------------------
(* Two plain sheets and a module sheet that share selectors and a query.     *)
EXTENDS StyleSheets

CONSTANTS app, page, card, first, second

MCImports == [i \in Importers |-> IF i = first THEN {app, card} ELSE {app, page}]

Of(media, selector, pseudo, declarations) ==
    [media |-> media, selector |-> selector, pseudo |-> pseudo, declarations |-> declarations]
Normal(v) == [value |-> v, important |-> FALSE]
Important(v) == [value |-> v, important |-> TRUE]

\* A selector and its pseudo-class, two selectors of one class name, one without
\* a rule of its own, and a block for a query.
Hovered ==
    << Of(<<>>, ".card", "base", [color |-> Normal(1), width |-> Normal(1)]),
       Of(<<>>, ".card", ":hover", [color |-> Normal(2)]),
       Of(<<>>, ".card-title", "base", [color |-> Normal(1)]),
       Of(<<>>, ".cardTitle", ":hover", [color |-> Normal(2)]),
       Of(<<"wide">>, ".card-title", "base", [width |-> Normal(6)]) >>
\* A selector mentioned twice, with something important, and a block for the same
\* query with another nested in it.
Insistent ==
    << Of(<<>>, ".card", ":hover", [color |-> Normal(3), width |-> Important(3)]),
       Of(<<>>, ".card", "base", [color |-> Important(4)]),
       Of(<<>>, "#root", "base", [width |-> Normal(1)]),
       Of(<<>>, ".card", "base", [width |-> Normal(5)]),
       Of(<<"wide">>, ".card", ":hover", [width |-> Normal(7)]),
       Of(<<"wide">>, ".card", "base", [width |-> Important(8)]),
       Of(<<"wide", "tall">>, ".card", "base", [width |-> Normal(9)]) >>
MCRulesOf == [hovered |-> Hovered, insistent |-> Insistent]
MCInitial == {[f \in Sheets |-> IF f = page THEN "insistent" ELSE "hovered"]}

MCClassName ==
    [s \in Selectors |-> CASE s = ".card" -> "card"
                           [] s \in {".card-title", ".cardTitle"} -> "cardTitle"
                           [] OTHER -> NoName]
=============================================================================
