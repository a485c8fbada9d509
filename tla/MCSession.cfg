SPECIFICATION BoundedSessionSpec
CONSTANTS
    a1 = a1
    a2 = a2
    Nobody = Nobody
    Agents <- BothAgents
    MaxSteps <- StepCeilings
    TokenBudget <- TokenCeilings
    Estimates = {1, 2}
    Usages = {0, 1, 3}
    MaxAttempts = 2
    WorkEvents = {"VERIFICATION_PASS", "GATE_REJECTION"}
    Notes = {"none"}
    LogBound = 4
INVARIANTS
    SessionTypeOK
    BodiesFollowTheChain
    BudgetsBind
    GrantedStepIsUsable
    CloseReportIsTrue
CHECK_DEADLOCK FALSE
