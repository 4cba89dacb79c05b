SPECIFICATION Spec
CONSTANTS
    launch = launch  widget = widget
    Files = {launch, widget}
    Main = launch
    MainNamesFile = TRUE
    EnvPoolSize = 1
    MaxContents = 2
INVARIANTS
    TypeOK
    UnchangedIsCurrent
