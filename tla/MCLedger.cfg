SPECIFICATION LedgerSpec
CONSTANTS
    Bodies = {b1, b2}
    MaxSeq = 2
    MaxEdits = 2
    NoAnchor = NoAnchor
INVARIANTS
    LedgerTypeOK
    UneditedIsSound
    OnlyTruncationIsSilent
    ReportedWhereItIs
    AnchoredMeansComplete
PROPERTIES
    DamageIsPermanent
SYMMETRY BodySymmetry
