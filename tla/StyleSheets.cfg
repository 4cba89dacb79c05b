SPECIFICATION Spec
CONSTANTS
    app = app  page = page  card = card  first = first  second = second
    Sheets = {app, page, card}
    ModuleSheets = {card}
    Importers = {first, second}
    Imports <- MCImports
    Selectors = {".card", ".card-title", ".cardTitle", "#root"}
    Pseudos = {"base", ":hover"}
    Queries = {"wide", "tall"}
    Properties = {"color", "width"}
    Values = {1, 2, 3, 4, 5, 6, 7, 8, 9}
    Texts = {"hovered", "insistent"}
    RulesOf <- MCRulesOf
    Absent = Absent
    Initial <- MCInitial
    ClassName <- MCClassName
    NoName = NoName
    MaxEdits = 1
INVARIANTS
    TypeOK
    SheetIsApplied
    PlainNameIsLatest
    MediaIsOfOneSheet
PROPERTIES
    ModuleSheetIsPrivate
