SPECIFICATION RegistrySpec
CONSTANTS
    classify = classify
    memo = memo
    classify_v1 = classify_v1
    memo_v1 = memo_v1
    text_c = text_c
    text_d = text_d
    NoText = NoText
    Tasks <- TwoTasks
    TaskOrder <- InOrder
    Texts <- FourTexts
    SeedText <- Seeds
    MaxVersions = 4
    MaxMoves = 5
SYMMETRY Interchangeable
INVARIANTS
    LoadsAsWritten
PROPERTY
    NothingIsForgotten
CHECK_DEADLOCK FALSE
