SPECIFICATION CaseSpec
CONSTANTS
    none = none
    Null = none
    Platform <- TwoChannels
    Wildcard = 0
    SealedLabels <- TwoRings
    Bounds <- ParamBounds
    ShowLimit = 5
    Dropped <- Dropped1
    MinWords = 2
    Punctuation = {"!"}
    Measures = {"remove"}
    MinExcerpt = 2
    MaxExcerpt = 3
    Pages <- FetchedPages
    WrittenPages <- PagesWritten
    OldCorpus <- Directory0
    Companion <- NewOtherDoc
    Subjects = {10, 3}
    Inputs <- ParamInputs
    StubLimit = 3
    MaxHops = 2
    Responses <- ResponsesOn
    Boxed <- BoxedWords
    Batches <- TwoRecords
    SignalSets <- FoundIn
INVARIANTS
    CalloutsStandAlone
    AnchorsAreStable
    RedactionIsExact
    PackExplainsItself
    AcceptedMemoIsGrounded
PROPERTIES
    EvidenceNeverMoves
CHECK_DEADLOCK FALSE
