SPECIFICATION SingleSpec
CONSTANTS
    single_agent = single_agent
    Agent = single_agent
    Nobody = Nobody
    NoLimit = NoLimit
    Agents <- OneAgent
    MaxSteps <- OneStep
    TokenBudget <- SomeTokens
    Estimates = {1}
    Usages = {1, 2}
    MaxAttempts = 1
    WorkEvents = {"VERIFICATION_PASS", "VERIFICATION_FAIL", "GATE_REJECTION", "TOOL_CALLED", "TOOL_RESULT", "MANDATE_VIOLATION_ATTEMPT", "OUTPUT_PROPOSED"}
    Notes <- TurnNotes
    LogBound = 40
    ToolNames = {"produce"}
    Tools = {"produce"}
    ToolTable <- Table
    ScopeNames = {}
    Scopes = {}
    Mandate <- SingleMandate
    Proposals <- OneProposal
    Act <- ProduceProposal
    Limits = {}
    Channels = {1, 2, 3}
    OwnerOf <- Owners
    Platforms <- SixPlatforms
    QueueLimit = 2
    Sealed = 0
    ItemCount = 3
    Classes = {"spam", "benign"}
    LabelOf <- ThreeLabels
    RecallDrop <- HalfOfAClass
    MacroDrop <- ATenth
    MaxUnparseable = 1
    Scale = 60
    Unanswered = Unanswered
INVARIANTS
    TriageTellsTheChain
    EvalTellsTheChain
    QueueIsExplainable
    VerdictFollowsTheAnswers
    AnswersArePaired
CHECK_DEADLOCK FALSE
