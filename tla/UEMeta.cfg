SPECIFICATION Spec
CONSTANTS
    A = "A"  B = "B"
    Text = {"A", "B"}
    Vocabulary <- MCVocabulary
    MaxSpecifiers <- MCMaxSpecifiers
INVARIANTS
    TypeOK
    FunctionIsConsistent
    ReliabilityIsSaid
    PropertyIsOrderFree
    ClassLastWord
