SPECIFICATION Spec
CONSTANTS
    Types <- MCTypes
    Objects <- MCObjects
    Declarations <- MCDeclarations
    Bases <- MCBases
    ParentEvents <- MCEvents
    ParentFunctions <- MCFunctions
    AxisNames = {"Jump"}
    ActionNames = {}
    Actors = {"Actor"}
    Components = {"SceneComponent", "Light"}
INVARIANTS
    TypeOK
    RefreshMatchesClass
    SignaturesFollow
    VariablesFollow
    SavedIsCurrent
