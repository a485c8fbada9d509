SPECIFICATION FairEvidenceSpec
CONSTANTS
    Agent = "evidence"
    Nobody = Nobody
    NoLimit = NoLimit
    Agents <- AgentId
    MaxSteps <- ThreeSteps
    TokenBudget <- FiveTokens
    Estimates = {1, 2}
    Usages = {1, 3}
    MaxAttempts = 2
    WorkEvents = {"VERIFICATION_PASS", "VERIFICATION_FAIL", "GATE_REJECTION", "TOOL_CALLED", "TOOL_RESULT", "MANDATE_VIOLATION_ATTEMPT", "HUMAN_DECISION"}
    Notes <- TurnNotes
    LogBound = 40
    ToolNames <- ToolId
    Tools <- ToolId
    ToolTable <- TOOL_TABLE
    ScopeNames <- DataScope
    Scopes <- DataScope
    Mandate <- default_mandates
    Proposals <- OneProposal
    Act <- PivotProposal
    Limits = {2, 4}
INVARIANT
    RefusalsAreReported
CHECK_DEADLOCK FALSE
