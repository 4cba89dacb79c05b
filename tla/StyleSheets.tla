----------------------------- MODULE StyleSheets -----------------------------
(***************************************************************************)
(* Style sheets in one environment (puerts/modular.js): a script requires  *)
(* a .css or .scss file, which is parsed into the one cache of styles that *)
(* getCssStyleFromGlobalCache reads.  Every selector is stored under a     *)
(* name scoped to its sheet.  The selectors of plain sheets share one map, *)
(* those of .module.css files are exported to the script instead.          *)
(*                                                                         *)
(* require is the one of all modules: an importer keeps what it was given, *)
(* the environment keeps the last module of every file, and a module that  *)
(* has been flagged by forceReload is parsed again when it is next         *)
(* required.  Sheets are written at any time; parsing is one step.         *)
(*                                                                         *)
(* A text is known by its rules, one for each selector of a list.  The     *)
(* hash in a scoped name is taken to tell all paths apart.                 *)
(***************************************************************************)
EXTENDS Naturals, Sequences, SequencesExt

CONSTANTS Sheets, ModuleSheets,   \* the files, and those named *.module.css
          Importers,              \* scripts, each with the require made for it
          Imports,                \* the sheets each of them requires
          Selectors, Pseudos, Queries,
          Properties, Values,       \* what a rule declares
          Texts, Absent,
          RulesOf,                \* a text's rules
          Initial,                \* what the sheets may be at first
          ClassName,              \* a selector's camel-case class name, or NoName
          NoName,
          MaxEdits

\* A rule lies in blocks of media queries, and declares some of the properties.
Declaration == UNION {[P -> [value : Values, important : BOOLEAN]] : P \in SUBSET Properties}
Rule == [media : Seq(Queries), selector : Selectors, pseudo : Pseudos,
         declarations : Declaration]

ASSUME SheetAssumption ==
    /\ ModuleSheets \subseteq Sheets
    /\ Imports \in [Importers -> SUBSET Sheets]
    /\ Absent \notin Texts /\ Initial \subseteq [Sheets -> Texts]
    /\ "base" \in Pseudos
    /\ RulesOf \in [Texts -> Seq(Rule)]
ASSUME EditsAssumption == MaxEdits \in Nat

VARIABLES
    disk,       \* sheet -> its text now
    held,       \* importer -> sheet -> the module in its localModuleCache
    module,     \* sheet -> the module in moduleCache
    exports,    \* module sheet -> the class names of the last module
    styles,     \* GlobalStyleClassesCache, but for its __selectors
    plain,      \* __selectors: a selector -> the sheet it is scoped to
    edits,
    applied,    \* history: sheet -> the text last parsed
    latest,     \* history: selector -> the plain sheet, and its text, parsed last with it
    asker       \* history: query -> the sheet, and its text, parsed last with it

cached == <<held, module>>
parsed == <<exports, styles, plain, applied, latest, asker>>
vars == <<disk, cached, parsed, edits>>

\* "stale" is a module that is flagged, or the undefined left by one that
\* failed; "old" one that another has replaced although nothing flagged it.
HeldStates == {"none", "fresh", "stale", "old"}

None == [x \in {} |-> Absent]
NothingParsed ==
    /\ held = [i \in Importers |-> [f \in Sheets |-> "none"]]
    /\ module = [f \in Sheets |-> "none"]
    /\ exports = None /\ styles = None /\ plain = None
    /\ applied = [f \in Sheets |-> Absent]
    /\ latest = None /\ asker = None

Init ==
    /\ disk \in Initial
    /\ NothingParsed
    /\ edits = 0

-----------------------------------------------------------------------------
(* parseCSSInternal.  A node of the tree it returns is known by the blocks  *)
(* it lies in, its scoped selector and its pseudo-class.                    *)

\* Mutant: the selector is not scoped.
Address_Unscoped(f, r) ==
    [media |-> r.media, sheet |-> {}, selector |-> r.selector, pseudo |-> r.pseudo]

Address(f, r) ==
    [media |-> r.media, sheet |-> f, selector |-> r.selector, pseudo |-> r.pseudo]

\* Later declarations of a node override earlier ones, important or not.
MergeInto(tree, a, declarations) ==
    [x \in DOMAIN tree \cup {a} |->
        IF x = a /\ a \in DOMAIN tree
        THEN [p \in DOMAIN declarations \cup DOMAIN tree[a] |->
                 IF p \in DOMAIN declarations THEN declarations[p] ELSE tree[a][p]]
        ELSE IF x = a THEN declarations ELSE tree[x]]

\* The tree after the first n rules of the text.
Trees(f, text) ==
    LET tree[n \in 0 .. Len(RulesOf[text])] ==
            IF n = 0 THEN None
            ELSE MergeInto(tree[n - 1], Address(f, RulesOf[text][n]),
                           RulesOf[text][n].declarations)
    IN  tree
Parse(f, text) == Trees(f, text)[Len(RulesOf[text])]

SelectorsOf(text) == {RulesOf[text][i].selector : i \in DOMAIN RulesOf[text]}
QueriesOf(text) ==
    LET rules == {RulesOf[text][i] : i \in DOMAIN RulesOf[text]}
    IN  {Head(r.media) : r \in {x \in rules : x.media # <<>>}}

-----------------------------------------------------------------------------
(* parseCssStyle.                                                           *)

\* Mutant: what lies below the top is merged.
Assign_Deep(old, new) ==
    [x \in DOMAIN old \cup DOMAIN new |-> IF x \in DOMAIN new THEN new[x] ELSE old[x]]

\* Object.assign replaces what lies at the top of the cache: the node of a
\* selector, or the whole block of a media query, whichever sheet it is of.
Top(a) == IF a.media = <<>> THEN <<a.sheet, a.selector>> ELSE <<Head(a.media)>>
Assign(old, new) ==
    LET kept == {x \in DOMAIN old : \A a \in DOMAIN new : Top(a) # Top(x)}
    IN  [x \in kept \cup DOMAIN new |-> IF x \in DOMAIN new THEN new[x] ELSE old[x]]

\* The class names of a module sheet.  Of two selectors with one name the one
\* that the sheet mentions first later has it.
FirstAt(text, s) == SelectInSeq(RulesOf[text], LAMBDA r : r.selector = s)
Exports(text) ==
    LET names == {ClassName[s] : s \in SelectorsOf(text)} \ {NoName}
        called(n) == {s \in SelectorsOf(text) : ClassName[s] = n}
    IN  [n \in names |-> CHOOSE s \in called(n) :
            \A t \in called(n) : FirstAt(text, t) <= FirstAt(text, s)]

\* A function with its values at the keys replaced by v.
Set(map, keys, v) == [k \in DOMAIN map \cup keys |-> IF k \in keys THEN v ELSE map[k]]

\* Mutant: the selectors of a module sheet go to the shared map as well.
ParseCssStyle_Shares(f, text) ==
    /\ styles' = Assign(styles, Parse(f, text))
    /\ plain' = Set(plain, SelectorsOf(text), f)
    /\ exports' = IF f \in ModuleSheets THEN Set(exports, {f}, Exports(text)) ELSE exports

\* Mutant: the first plain sheet with a selector keeps it.
ParseCssStyle_FirstWins(f, text) ==
    /\ styles' = Assign(styles, Parse(f, text))
    /\ IF f \in ModuleSheets
       THEN exports' = Set(exports, {f}, Exports(text)) /\ UNCHANGED plain
       ELSE plain' = Set(plain, SelectorsOf(text) \ DOMAIN plain, f) /\ UNCHANGED exports

ParseCssStyle(f, text) ==
    /\ styles' = Assign(styles, Parse(f, text))
    /\ IF f \in ModuleSheets
       THEN exports' = Set(exports, {f}, Exports(text)) /\ UNCHANGED plain
       ELSE plain' = Set(plain, SelectorsOf(text), f) /\ UNCHANGED exports

Remember(f, text) ==
    /\ applied' = [applied EXCEPT ![f] = text]
    /\ latest' = IF f \in ModuleSheets THEN latest
                 ELSE Set(latest, SelectorsOf(text), [sheet |-> f, text |-> text])
    /\ asker' = Set(asker, QueriesOf(text), [sheet |-> f, text |-> text])

-----------------------------------------------------------------------------
(* genRequire.                                                              *)

\* What the importer holds is returned unless it is flagged.
Keeps(i, f) == held[i][f] \in {"fresh", "old"}

\* A new module for importer i; those who hold the last one keep it.
Replaced(i, f, state) ==
    [j \in Importers |-> [held[j] EXCEPT ![f] =
        IF j = i THEN state ELSE IF @ = "fresh" THEN "old" ELSE @]]

RequireMissing(i, f) ==
    /\ ~Keeps(i, f) /\ disk[f] = Absent
    /\ held' = [held EXCEPT ![i][f] = "none"]
    /\ UNCHANGED <<disk, module, parsed, edits>>

RequireShared(i, f) ==
    /\ held[i][f] = "none" /\ disk[f] # Absent /\ module[f] = "fresh"
    /\ held' = [held EXCEPT ![i][f] = "fresh"]
    /\ UNCHANGED <<disk, module, parsed, edits>>

MustParse(i, f) ==
    /\ disk[f] # Absent
    /\ held[i][f] = "stale" \/ (held[i][f] = "none" /\ module[f] # "fresh")
RequireParsed(i, f) ==
    /\ MustParse(i, f)
    /\ held' = Replaced(i, f, "fresh")
    /\ module' = [module EXCEPT ![f] = "fresh"]
    /\ ParseCssStyle(f, disk[f])
    /\ Remember(f, disk[f])
    /\ UNCHANGED <<disk, edits>>

\* The file is there and cannot be read: both caches are left with undefined.
RequireFailed(i, f) ==
    /\ MustParse(i, f)
    /\ held' = Replaced(i, f, "stale")
    /\ module' = [module EXCEPT ![f] = "none"]
    /\ UNCHANGED <<disk, parsed, edits>>

Require(i, f) ==
    RequireMissing(i, f) \/ RequireShared(i, f) \/ RequireParsed(i, f) \/ RequireFailed(i, f)

\* A script is executed again, with a require of its own.
Execute(i) ==
    /\ held' = [held EXCEPT ![i] = [f \in Sheets |-> "none"]]
    /\ UNCHANGED <<disk, module, parsed, edits>>

-----------------------------------------------------------------------------

\* forceReload, of a hot reload or a restart; the file is looked up first.
ForceReload(f) ==
    /\ module[f] = "fresh" /\ disk[f] # Absent
    /\ module' = [module EXCEPT ![f] = "flagged"]
    /\ held' = [i \in Importers |-> [held[i] EXCEPT ![f] = IF @ = "fresh" THEN "stale" ELSE @]]
    /\ UNCHANGED <<disk, parsed, edits>>

Edit(f, text) ==
    /\ edits < MaxEdits /\ text # disk[f]
    /\ edits' = edits + 1
    /\ disk' = [disk EXCEPT ![f] = text]
    /\ UNCHANGED <<cached, parsed>>

Next ==
    \/ \E i \in Importers : Execute(i) \/ \E f \in Imports[i] : Require(i, f)
    \/ \E f \in Sheets : ForceReload(f) \/ \E t \in Texts \cup {Absent} : Edit(f, t)

Spec == Init /\ [][Next]_vars

-----------------------------------------------------------------------------
(* getStyle and getCssStyleFromGlobalCache: the style found, if any.        *)

Cascade(base, override) ==
    [p \in DOMAIN base \cup DOMAIN override |->
        IF p \in DOMAIN override
           /\ (override[p].important \/ p \notin DOMAIN base \/ ~base[p].important)
        THEN override[p] ELSE base[p]]

GetStyle(f, s, pseudo, media) ==
    LET node(p) == Address(f, [media |-> media, selector |-> s, pseudo |-> p])
    IN  IF pseudo = "base"
        THEN {styles[a] : a \in {node("base")} \cap DOMAIN styles}
        ELSE IF {node("base"), node(pseudo)} \subseteq DOMAIN styles
        THEN {Cascade(styles[node("base")], styles[node(pseudo)])} ELSE {}

GetPlainStyle(s, pseudo, media) ==
    IF s \in DOMAIN plain THEN GetStyle(plain[s], s, pseudo, media) ELSE {}

-----------------------------------------------------------------------------
(* What a sheet says, rule by rule.                                         *)

Rules(text, s, pseudo, media) ==
    {i \in DOMAIN RulesOf[text] :
        LET r == RulesOf[text][i]
        IN  r.media = media /\ r.selector = s /\ r.pseudo = pseudo}
Declarations(text, i) == RulesOf[text][i].declarations
Declared(text, is) == UNION {DOMAIN Declarations(text, i) : i \in is}
LastWord(text, is, p) ==
    Declarations(text, Max({i \in is : p \in DOMAIN Declarations(text, i)}))[p]

\* The style is that of the pseudo-class on top of the selector's own, but for
\* what the selector alone holds important; without either there is none.
Says(text, s, pseudo, media) ==
    LET own == Rules(text, s, "base", media)
        over == Rules(text, s, pseudo, media)
        insists(p) == /\ p \in Declared(text, own) \cap Declared(text, over)
                      /\ LastWord(text, own, p).important
                      /\ ~LastWord(text, over, p).important
    IN  IF own = {} \/ over = {} THEN {}
        ELSE {[p \in Declared(text, own \cup over) |->
                  IF p \in Declared(text, over) /\ ~insists(p)
                  THEN LastWord(text, over, p) ELSE LastWord(text, own, p)]}

Outside(text, s) == \E pseudo \in Pseudos : Rules(text, s, pseudo, <<>>) # {}

-----------------------------------------------------------------------------
(* Correctness.                                                             *)

\* Every variable keeps to its sort.
TypeOK ==
    /\ disk \in [Sheets -> Texts \cup {Absent}]
    /\ held \in [Importers -> [Sheets -> HeldStates]]
    /\ module \in [Sheets -> {"none", "fresh", "flagged"}]
    /\ DOMAIN exports \subseteq ModuleSheets
    /\ DOMAIN plain \subseteq Selectors
    /\ \A s \in DOMAIN plain : plain[s] \in Sheets \ ModuleSheets
    /\ \A a \in DOMAIN styles : a.sheet \in Sheets /\ a.selector \in Selectors
    /\ edits \in 0 .. MaxEdits
    /\ applied \in [Sheets -> Texts \cup {Absent}]

\* Whatever sheets are loaded before or after it, with the same selectors or not,
\* and however often it is parsed: the styles of a selector, scoped to its sheet,
\* are what the text that was parsed last says of it outside media queries.
SheetIsApplied ==
    \A f \in Sheets : applied[f] # Absent =>
        \A s \in SelectorsOf(applied[f]), pseudo \in Pseudos :
            Outside(applied[f], s) =>
                GetStyle(f, s, pseudo, <<>>) = Says(applied[f], s, pseudo, <<>>)

\* A class that is named without its sheet has the style of the plain sheet that
\* was parsed last with it ("a selector of the same name overrides").
PlainNameIsLatest ==
    \A s \in DOMAIN latest : \A pseudo \in Pseudos :
        Outside(latest[s].text, s) =>
            GetPlainStyle(s, pseudo, <<>>) = Says(latest[s].text, s, pseudo, <<>>)

\* The styles of a media query are those of the sheet parsed last that has the
\* query, and of that sheet alone.
MediaIsOfOneSheet ==
    \A q \in DOMAIN asker : \A f \in Sheets, s \in Selectors, pseudo \in Pseudos :
        GetStyle(f, s, pseudo, <<q>>) =
            IF f = asker[q].sheet THEN Says(asker[q].text, s, pseudo, <<q>>) ELSE {}

\* To require a module sheet changes no class that is named without its sheet,
\* outside media queries.
ModuleSheetIsPrivate ==
    [][styles' # styles /\ (\E i \in Importers, f \in ModuleSheets : Require(i, f)) =>
          \A s \in Selectors, pseudo \in Pseudos :
              GetPlainStyle(s, pseudo, <<>>)' = GetPlainStyle(s, pseudo, <<>>)]_vars
=============================================================================
