SPECIFICATION FairSpec
CONSTANTS
    a = a  b = b
    Files = {a, b}
    Contents = {"old", "class", "user"}
    Absent = "absent"
    Uses <- MCUses
    Faulty = {}
    Unfit = {"old"}
    Classes = {"class"}
    Initial = {"absent", "user"}
    MaxEdits = 2
    MaxStarts = 2
    MaxTimers = 1
CHECK_DEADLOCK FALSE
INVARIANTS
    TypeOK
    RecordIsHonest
    NoLostEdit
PROPERTIES
    StartIsComplete
    EditIsSeen
