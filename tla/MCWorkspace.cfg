SPECIFICATION WorkspaceSpec
CONSTANTS
    pack_a = pack_a
    pack_b = pack_b
    ana = ana
    ben = ben
    Nobody = Nobody
    Packs <- TwoPacks
    Analysts <- TwoAnalysts
    FullLength = 2
    MaxRuns = 2
SYMMETRY Interchangeable
INVARIANTS
    SignedIsVerified
    SealedIsOneSession
    FinishedIsSealed
    SignedTogether
CHECK_DEADLOCK FALSE
