---- MODULE Session ----
(***************************************************************************)
(* One analyst session, orchestrator/core.py, and the budgeted model call  *)
(* of orchestrator/adapter.py that every agent turn makes: the session's   *)
(* states, its one write path to the ledger, the bodies it keeps of what   *)
(* it wrote, and the two budgets of each agent.                            *)
(*                                                                         *)
(* log is the ledger seen from inside one process: module Ledger says what *)
(* an append does to the store.  Each step makes at most one ledger write, *)
(* so that the process may die between any two.                            *)
(***************************************************************************)
EXTENDS Integers, Sequences, FiniteSets

CONSTANTS
    Agents,         \* the agents a mandate is bound to
    Nobody,         \* agent_id None: the orchestrator itself
    MaxSteps,       \* Mandate.max_steps, per agent
    TokenBudget,    \* Mandate.token_budget, per agent
    Estimates,      \* what a request may be estimated at
    Usages,         \* what an answer may turn out to have used
    MaxAttempts,    \* RetryPolicy.max_attempts
    WorkEvents,     \* what a turn may write besides the model call's own entries
    Notes,          \* what distinguishes two bodies of the same event type
    LogBound        \* bound: entries a generic caller may reach

ASSUME SessionAssumption ==
    /\ Nobody \notin Agents
    /\ MaxSteps \in [Agents -> Nat \ {0}]
    /\ TokenBudget \in [Agents -> Nat \ {0}]
    /\ Estimates \subseteq Nat /\ Usages \subseteq Nat
    /\ MaxAttempts \in Nat \ {0}
    /\ LogBound \in Nat

VARIABLES
    alive,      \* the process has not died
    state,      \* Session._state
    log,        \* the ledger's entries, in order
    events,     \* Session._events: the entries whose body the session holds
    loose,      \* entries a governance helper wrote and the session has yet to attach
    steps,      \* BudgetTracker._steps_taken, per agent
    spent,      \* BudgetTracker._tokens_spent, per agent
    pending,    \* the model call in flight, or NoCall
    reply,      \* what the last begin_turn or call_model returned
    closing,    \* the reason close() was called with
    report      \* the payload of SESSION_CLOSE, once written

chainVars == <<log, events, loose>>
budgetVars == <<steps, spent>>
callVars == <<pending, reply>>
closeVars == <<closing, report>>
sessionVars == <<alive, state, chainVars, budgetVars, callVars, closeVars>>

EventTypes == {"SESSION_OPEN", "PROMPT_SENT", "OUTPUT_PROPOSED",
               "VERIFICATION_PASS", "VERIFICATION_FAIL", "GATE_REJECTION",
               "TOOL_CALLED", "TOOL_RESULT", "HUMAN_DECISION",
               "MANDATE_VIOLATION_ATTEMPT", "SESSION_CLOSE"}

ASSUME WorkEventsAssumption == WorkEvents \subseteq EventTypes

SessionStates == {"created", "open", "agent_turn", "awaiting_analyst",
                  "closing", "closed"}

Completed == "completed"
OutOfTokens == "token_budget_exhausted"
OutOfSteps == "step_budget_exhausted"
Abort == "analyst_abort"
DispatchError == "dispatch_error"
CloseReasons == {Completed, OutOfTokens, OutOfSteps, Abort, DispatchError}

Granted == "granted"        \* no reason to refuse: the work may proceed
Answered == "answered"      \* the model's response is in hand
Replies == {"none", Granted, Answered} \cup CloseReasons

NoCall == [agent |-> Nobody, estimate |-> 0, tries |-> 0]
NoReport == [counts |-> [t \in EventTypes |-> 0],
             budgets |-> [a \in Agents |-> [tokens |-> 0, steps |-> 0]],
             reason |-> "none"]

\* An entry: its type, who it is about, that agent's step when it was written
\* and what tells its body from others of the type.
Entry(type, agent, note) ==
    [type |-> type, agent |-> agent,
     turn |-> IF agent \in Agents THEN steps[agent] ELSE 0, note |-> note]

Counts(entries) ==
    [t \in EventTypes |-> Cardinality({i \in DOMAIN entries : entries[i].type = t})]

(***************************************************************************)
(* The machine.                                                            *)
(***************************************************************************)
Successors ==
    [s \in SessionStates |->
        CASE s = "created" -> {"open"}
          [] s = "open" -> {"agent_turn", "closing"}
          [] s = "agent_turn" -> {"open", "awaiting_analyst", "closing"}
          [] s = "awaiting_analyst" -> {"open", "closing"}
          [] s = "closing" -> {"closed"}
          [] s = "closed" -> {}]

\* Session._transition; an edge that does not exist raises and nothing moves.
MoveTo(target) ==
    /\ target \in Successors[state]
    /\ state' = target

(***************************************************************************)
(* The two ways an entry reaches the chain.                                *)
(***************************************************************************)
\* Session.append_event: ledger and body together.
Record(entry) ==
    /\ log' = Append(log, entry)
    /\ events' = Append(events, entry)
    /\ UNCHANGED loose

\* wrong variant: the helper keeps the body to itself
LedgerOnlyUnreturned(entry) == log' = Append(log, entry) /\ UNCHANGED <<events, loose>>

\* A helper of governance/gates.py writes to the ledger itself ...
LedgerOnly(entry) ==
    /\ log' = Append(log, entry)
    /\ loose' = Append(loose, entry)
    /\ UNCHANGED events

\* ... and hands the body back for Session.attach_event, oldest first.
AttachEvent ==
    /\ alive
    /\ loose # <<>>
    /\ events' = Append(events, Head(loose))
    /\ loose' = Tail(loose)
    /\ UNCHANGED <<alive, state, log, budgetVars, callVars, closeVars>>

AppendEvent(type, agent, note) ==
    /\ alive
    /\ Record(Entry(type, agent, note))
    /\ UNCHANGED <<alive, state, budgetVars, callVars, closeVars>>

GovernanceAppend(type, agent, note) ==
    /\ alive
    /\ LedgerOnly(Entry(type, agent, note))
    /\ UNCHANGED <<alive, state, budgetVars, callVars, closeVars>>

(***************************************************************************)
(* Budgets.                                                                *)
(***************************************************************************)
StepsLeft(a) == MaxSteps[a] - steps[a]
TokensLeft(a) == TokenBudget[a] - spent[a]

\* wrong variant: only a balance already gone refuses, not an estimate over it
TokensRefusedLate(a, estimate) == TokensLeft(a) <= 0
TokensRefused(a, estimate) == TokensLeft(a) <= 0 \/ estimate > TokensLeft(a)

Check(a, estimate, requireStep) ==
    IF requireStep /\ StepsLeft(a) <= 0 THEN OutOfSteps
    ELSE IF TokensRefused(a, estimate) THEN OutOfTokens
    ELSE Granted

\* begin_turn asks for a step, call_model (inside a granted turn) does not.
TurnCheck(a, estimate) == Check(a, estimate, TRUE)

\* wrong variant: the ceiling this very turn reached is held against it
CallCheckRequiresStep(a, estimate) == Check(a, estimate, TRUE)
CallCheck(a, estimate) == Check(a, estimate, FALSE)

(***************************************************************************)
(* Operations.                                                             *)
(***************************************************************************)
SessionOpen ==
    /\ alive
    /\ state = "created"
    /\ MoveTo("open")
    /\ Record(Entry("SESSION_OPEN", Nobody, "none"))
    /\ UNCHANGED <<alive, budgetVars, callVars, closeVars>>

BeginTurn(a, estimate) ==
    /\ alive
    /\ reply' = TurnCheck(a, estimate)
    /\ IF reply' = Granted
       THEN MoveTo("agent_turn") /\ steps' = [steps EXCEPT ![a] = @ + 1]
       ELSE UNCHANGED <<state, steps>>
    /\ UNCHANGED <<alive, chainVars, spent, pending, closeVars>>

\* end_turn and resume are the same move; their callers differ.
BackToOpen ==
    /\ alive
    /\ MoveTo("open")
    /\ UNCHANGED <<alive, chainVars, budgetVars, callVars, closeVars>>

AwaitAnalyst ==
    /\ alive
    /\ MoveTo("awaiting_analyst")
    /\ UNCHANGED <<alive, chainVars, budgetVars, callVars, closeVars>>

\* call_model up to the call itself: the prompt is ledgered before it is sent.
SendPrompt(a, estimate) ==
    /\ alive
    /\ pending = NoCall
    /\ reply' = CallCheck(a, estimate)
    /\ IF reply' = Granted
       THEN /\ Record(Entry("PROMPT_SENT", a, "none"))
            /\ pending' = [agent |-> a, estimate |-> estimate, tries |-> 1]
       ELSE UNCHANGED <<chainVars, pending>>
    /\ UNCHANGED <<alive, state, budgetVars, closeVars>>

ModelAnswers(usage) ==
    /\ alive
    /\ pending # NoCall
    /\ spent' = [spent EXCEPT ![pending.agent] = @ + usage]
    /\ pending' = NoCall
    /\ reply' = Answered
    /\ UNCHANGED <<alive, state, chainVars, steps, closeVars>>

\* wrong variant: one attempt too many
MayRetryOnceMore == pending.tries <= MaxAttempts
MayRetry == pending.tries < MaxAttempts

\* A transient failure with attempts left: the same request again, no entry.
ModelRetries ==
    /\ alive
    /\ pending # NoCall
    /\ MayRetry
    /\ pending' = [pending EXCEPT !.tries = @ + 1]
    /\ UNCHANGED <<alive, state, chainVars, budgetVars, reply, closeVars>>

\* Attempts exhausted, a permanent error, or the provider's refusal.
ModelFails ==
    /\ alive
    /\ pending # NoCall
    /\ Record(Entry("VERIFICATION_FAIL", pending.agent, "adapter"))
    /\ pending' = NoCall
    /\ reply' = DispatchError
    /\ UNCHANGED <<alive, state, budgetVars, closeVars>>

\* close() moves to CLOSING, writes SESSION_CLOSE, moves to CLOSED.
StartClose(reason) ==
    /\ alive
    /\ MoveTo("closing")
    /\ closing' = reason
    /\ UNCHANGED <<alive, chainVars, budgetVars, callVars, report>>

\* wrong variant: the counts are taken after the entry was filed
ReportAfter == [counts |-> Counts(events'), reason |-> closing,
    budgets |-> [a \in Agents |-> [tokens |-> spent[a], steps |-> steps[a]]]]
Report == [counts |-> Counts(events), reason |-> closing,
    budgets |-> [a \in Agents |-> [tokens |-> spent[a], steps |-> steps[a]]]]

FinishClose ==
    /\ alive
    /\ state = "closing"
    /\ MoveTo("closed")
    /\ Record(Entry("SESSION_CLOSE", Nobody, closing))
    /\ report' = Report
    /\ UNCHANGED <<alive, budgetVars, callVars, closing>>

\* The process is killed, or an exception nobody catches ends it.
Crash ==
    /\ alive
    /\ alive' = FALSE
    /\ UNCHANGED <<state, chainVars, budgetVars, callVars, closeVars>>

(***************************************************************************)
(* Any caller that keeps the turn modules' discipline: it works between    *)
(* opening and closing, attaches what a helper wrote before it writes on,  *)
(* and is blocked while a model call is in flight.                         *)
(***************************************************************************)
Working == state \in {"open", "agent_turn", "awaiting_analyst"}
Settled == pending = NoCall /\ loose = <<>>

Turns ==
    \/ state = "open" /\ Settled /\ \E a \in Agents : BeginTurn(a, 0)
    \/ state # "created" /\ Settled /\ BackToOpen
    \/ Settled /\ AwaitAnalyst

Prompts ==
    /\ state = "agent_turn" /\ Settled
    /\ \E a \in Agents, estimate \in Estimates : SendPrompt(a, estimate)

Answers == (\E usage \in Usages : ModelAnswers(usage)) \/ ModelRetries

Records ==
    /\ Working /\ Settled
    /\ \E type \in WorkEvents, a \in Agents, note \in Notes : AppendEvent(type, a, note)

HelperWrites ==
    /\ Working /\ pending = NoCall
    /\ \E type \in WorkEvents, a \in Agents, note \in Notes : GovernanceAppend(type, a, note)

Closes ==
    \/ state = "open" /\ Settled /\ \E reason \in CloseReasons : StartClose(reason)
    \/ FinishClose

SessionInit ==
    /\ alive = TRUE
    /\ state = "created"
    /\ log = <<>> /\ events = <<>> /\ loose = <<>>
    /\ steps = [a \in Agents |-> 0]
    /\ spent = [a \in Agents |-> 0]
    /\ pending = NoCall /\ reply = "none"
    /\ closing = "none" /\ report = NoReport

SessionNext ==
    \/ SessionOpen \/ Turns \/ Prompts \/ Answers \/ ModelFails
    \/ Records \/ HelperWrites \/ AttachEvent \/ Closes \/ Crash

SessionSpec == SessionInit /\ [][SessionNext]_sessionVars

\* The same session with a bound on what it writes while it is open.
Room == Len(log) < LogBound
BoundedNext ==
    \/ SessionOpen \/ Turns \/ Answers \/ AttachEvent \/ Closes \/ Crash
    \/ Room /\ Prompts
    \/ Room /\ ModelFails
    \/ Room /\ Records
    \/ Room /\ HelperWrites

BoundedSessionSpec == SessionInit /\ [][BoundedNext]_sessionVars

(***************************************************************************)
(* Properties.                                                             *)
(***************************************************************************)
Entries == [type : EventTypes, agent : Agents \cup {Nobody}, turn : Nat,
            note : Notes \cup CloseReasons \cup {"none", "adapter"}]

\* Types of the session's state.
SessionTypeOK ==
    /\ alive \in BOOLEAN
    /\ state \in SessionStates
    /\ log \in Seq(Entries) /\ events \in Seq(Entries) /\ loose \in Seq(Entries)
    /\ steps \in [Agents -> Nat]
    /\ spent \in [Agents -> Nat]
    /\ pending \in [agent : Agents \cup {Nobody}, estimate : Nat, tries : 0 .. MaxAttempts]
    /\ pending.agent = Nobody => pending = NoCall
    /\ reply \in Replies
    /\ closing \in CloseReasons \cup {"none"}
    /\ report.reason \in CloseReasons \cup {"none"}

\* The session's bodies and those a helper still holds are the chain, entry by
\* entry and in its order: session_events.json accounts for every entry.
BodiesFollowTheChain == events \o loose = log

\* Budgets bind before the work: steps never pass the mandate's ceiling, and a
\* call in flight was covered when it was sent, so an agent can overshoot its
\* tokens only by what one answer used beyond its estimate.
BudgetsBind ==
    \A a \in Agents :
        /\ steps[a] <= MaxSteps[a]
        /\ pending.agent = a => spent[a] + pending.estimate <= TokenBudget[a]
        /\ \/ spent[a] <= TokenBudget[a]
           \/ \E estimate \in Estimates, usage \in Usages :
                  spent[a] <= TokenBudget[a] + usage - estimate

\* The step a turn was granted is its own: no model call inside it is refused
\* for steps (the defect STEP-04 found: the last step was unusable).
GrantedStepIsUsable == state = "agent_turn" => reply # OutOfSteps

\* SESSION_CLOSE tells the truth: its counts are what a reader of the chain
\* counts before it, its budgets are final.
CloseReportIsTrue ==
    state = "closed" =>
        /\ report.counts = Counts(SubSeq(log, 1, Len(log) - 1))
        /\ log[Len(log)].note = report.reason
        /\ \A a \in Agents : report.budgets[a] = [tokens |-> spent[a], steps |-> steps[a]]
====
