SPECIFICATION BoundedDispatchSpec
CONSTANTS
    anything = anything
    Nobody = Nobody
    Agents <- TwoAgents
    MaxSteps <- OneStepEach
    TokenBudget <- OneTokenEach
    Estimates = {1}
    Usages = {1}
    MaxAttempts = 1
    WorkEvents = {"TOOL_CALLED", "TOOL_RESULT", "VERIFICATION_PASS", "VERIFICATION_FAIL", "GATE_REJECTION", "MANDATE_VIOLATION_ATTEMPT"}
    Notes <- TurnNotes
    LogBound = 6
    ToolNames <- Names
    Tools <- KnownTools
    ToolTable <- Table
    ScopeNames <- ScopeNamesHeard
    Scopes <- DataScope
    Mandate <- Mandates
    Proposals <- AllProposals
INVARIANTS
    RefusedIffNotPermitted
    ExecutedIsVerified
PROPERTIES
    SessionSpec
CHECK_DEADLOCK FALSE
