---- MODULE Dispatch ----
(***************************************************************************)
(* orchestrator/dispatch.py: one proposal through the allowlist, the scope *)
(* guard, the mandate, the handler, the output schema and the consequence  *)
(* gate (governance/gates.py, governance/mandate.py).  Whatever becomes of *)
(* it is on the chain before dispatch returns.                             *)
(***************************************************************************)
EXTENDS Session

CONSTANTS
    ToolNames,      \* names an agent may utter
    Tools,          \* ToolId: the names that resolve
    ToolTable,      \* tool |-> [consequence, required, handler], for tools with an entry
    ScopeNames,     \* names an agent may utter
    Scopes,         \* DataScope: the names that resolve
    Mandate,        \* agent |-> [tools, scopes, ceiling]
    Proposals       \* bound: the proposals explored, [agent, tool, scopes]

Consequences == {"observe", "assemble", "recommend", "enforce"}
Rank == [observe |-> 0, assemble |-> 1, recommend |-> 2, enforce |-> 3]

ASSUME DispatchAssumption ==
    /\ Tools \subseteq ToolNames /\ Scopes \subseteq ScopeNames
    /\ DOMAIN ToolTable \subseteq Tools
    /\ \A t \in DOMAIN ToolTable :
           /\ ToolTable[t].consequence \in Consequences
           /\ ToolTable[t].required \subseteq Scopes
           /\ ToolTable[t].handler \in BOOLEAN
    /\ \A a \in Agents :
           /\ Mandate[a].tools \subseteq Tools
           /\ Mandate[a].scopes \subseteq Scopes
           /\ Mandate[a].ceiling \in Consequences \ {"enforce"}
    /\ \A p \in Proposals :
           p.agent \in Agents /\ p.tool \in ToolNames /\ p.scopes \subseteq ScopeNames

VARIABLES
    dpc,        \* where dispatch is; "idle" when none runs
    call,       \* the proposal being dispatched, or the last one
    artifact,   \* what its handler returned
    outcome     \* DispatchOutcome of the last dispatch, or NoOutcome

dispatchVars == <<dpc, call, artifact, outcome>>
allDispatchVars == <<sessionVars, dispatchVars>>

EnforceIsHumanOnly == "enforce_is_human_only"
ToolNotAllowed == "tool_not_allowed"
HandlerNotInBuild == "tool_handler_not_in_build"
AgentMismatch == "agent_mismatch"
ScopeNotAllowed == "scope_not_allowed"
ExceedsCeiling == "consequence_exceeds_ceiling"
ViolationCodes == {EnforceIsHumanOnly, ToolNotAllowed, ScopeNotAllowed, ExceedsCeiling}

\* What a handler may hand back: not the mandate's output schema; or an
\* artifact its gate's checker passes, fails, or raises on.
Artifacts == {"wrong_type", "passes", "fails", "checker_raises"}

\* The entries dispatch may write, and what tells them apart: a tool's name, why
\* a proposal was refused, or what became of it.
DispatchEvents == {"TOOL_CALLED", "TOOL_RESULT", "VERIFICATION_PASS",
                   "VERIFICATION_FAIL", "GATE_REJECTION", "MANDATE_VIOLATION_ATTEMPT"}
DispatchNotes == Tools \cup ViolationCodes
                     \cup {HandlerNotInBuild, "ok", "raised", "schema", "gate"}

ASSUME WritesAssumption ==
    DispatchEvents \subseteq WorkEvents /\ DispatchNotes \subseteq Notes

Outcome(decision, code) == [decision |-> decision, code |-> code]
NoOutcome == Outcome("none", "none")
NoProposal == [agent |-> Nobody, tool |-> "none", scopes |-> {}]

(***************************************************************************)
(* The decisions, in the order dispatch takes them.                        *)
(***************************************************************************)
Resolves(p) == p.tool \in Tools /\ p.tool \in DOMAIN ToolTable

\* session.binding: the mandate is looked up by the proposing agent's id.
Binding(p) == p.agent

\* guard_scope_request: the name resolves, and the mandate grants the scope.
GrantedBy(a, name) == name \in Scopes /\ name \in Mandate[a].scopes
GuardRefuses(p) == \E name \in p.scopes : ~ GrantedBy(Binding(p), name)

MissingScopes(p) == ToolTable[p.tool].required \ p.scopes

\* mandate.validate: agent a proposes, the mandate of agent m decides.  The
\* scopes were granted one by one before, so none is left to refuse here.
Validate(a, m, tool, consequence) ==
    IF consequence = "enforce" THEN EnforceIsHumanOnly
    ELSE IF a # m THEN AgentMismatch
    ELSE IF tool \notin Mandate[m].tools THEN ToolNotAllowed
    ELSE IF Rank[consequence] > Rank[Mandate[m].ceiling] THEN ExceedsCeiling
    ELSE "none"

\* Why the proposal is refused before any handler is looked for; "none" if not.
\* The guard's own refusal is apart, it writes an entry of its own first.
Refusal(p) ==
    IF ~ Resolves(p) THEN ToolNotAllowed
    ELSE IF GuardRefuses(p) \/ MissingScopes(p) # {} THEN ScopeNotAllowed
    ELSE Validate(p.agent, Binding(p), p.tool, ToolTable[p.tool].consequence)

\* wrong variant: the missing handler is noticed before the mandate is asked
NotInBuildFirst(p) == Resolves(p) /\ ~ GuardRefuses(p) /\ ~ ToolTable[p.tool].handler
NotInBuild(p) == Refusal(p) = "none" /\ ~ ToolTable[p.tool].handler

\* wrong variant: a checker that raises counts as one that found nothing
CheckPassesOpen(art) == art \in {"passes", "checker_raises"}
CheckPasses(art) == art = "passes"

GateAccepts(consequence, art) ==
    \/ consequence = "observe"
    \/ consequence \in {"assemble", "recommend"} /\ CheckPasses(art)

\* What run_gate writes; dispatch gives it no signature.
GateEvents(consequence, art) ==
    IF GateAccepts(consequence, art) THEN <<"VERIFICATION_PASS">>
    ELSE IF consequence = "enforce"
         THEN <<"MANDATE_VIOLATION_ATTEMPT", "GATE_REJECTION">>
         ELSE <<"VERIFICATION_FAIL", "GATE_REJECTION">>

(***************************************************************************)
(* The pipeline, one ledger write to a step.                               *)
(***************************************************************************)
Return(decision, code) ==
    /\ dpc' = "idle"
    /\ outcome' = Outcome(decision, code)

RefuseAtOnce(p) ==
    /\ dpc = "idle"
    /\ ~ (Resolves(p) /\ GuardRefuses(p))
    /\ Refusal(p) # "none"
    /\ AppendEvent("MANDATE_VIOLATION_ATTEMPT", p.agent, Refusal(p))
    /\ call' = p
    /\ Return("refused", Refusal(p))
    /\ UNCHANGED artifact

RefuseNotInBuild(p) ==
    /\ dpc = "idle"
    /\ NotInBuild(p)
    /\ AppendEvent("GATE_REJECTION", p.agent, HandlerNotInBuild)
    /\ call' = p
    /\ Return("refused", HandlerNotInBuild)
    /\ UNCHANGED artifact

\* wrong variant: the guard's body is never handed to the session
AfterGuardUnattached == "refusing"
AfterGuard == "guarded"

\* The guard ledgers its refusal itself; dispatch attaches it, then its own.
GuardScope(p) ==
    /\ dpc = "idle"
    /\ Resolves(p) /\ GuardRefuses(p)
    /\ GovernanceAppend("MANDATE_VIOLATION_ATTEMPT", p.agent, ScopeNotAllowed)
    /\ call' = p
    /\ dpc' = AfterGuard
    /\ outcome' = NoOutcome
    /\ UNCHANGED artifact

AttachGuard ==
    /\ dpc = "guarded"
    /\ AttachEvent
    /\ dpc' = "refusing"
    /\ UNCHANGED <<call, artifact, outcome>>

RefuseScope ==
    /\ dpc = "refusing"
    /\ AppendEvent("MANDATE_VIOLATION_ATTEMPT", call.agent, ScopeNotAllowed)
    /\ Return("refused", ScopeNotAllowed)
    /\ UNCHANGED <<call, artifact>>

\* TOOL_CALLED is on the chain before the handler runs.
CallTool(p) ==
    /\ dpc = "idle"
    /\ Refusal(p) = "none" /\ ~ NotInBuild(p)
    /\ AppendEvent("TOOL_CALLED", p.agent, p.tool)
    /\ call' = p
    /\ dpc' = "called"
    /\ outcome' = NoOutcome
    /\ UNCHANGED artifact

HandlerRaises ==
    /\ dpc = "called"
    /\ AppendEvent("TOOL_RESULT", call.agent, "raised")
    /\ Return("failed", "none")
    /\ UNCHANGED <<call, artifact>>

HandlerReturns(art) ==
    /\ dpc = "called"
    /\ AppendEvent("TOOL_RESULT", call.agent, "ok")
    /\ artifact' = art
    /\ dpc' = IF art = "wrong_type" THEN "mistyped" ELSE "gating"
    /\ UNCHANGED <<call, outcome>>

SchemaFails ==
    /\ dpc = "mistyped"
    /\ AppendEvent("VERIFICATION_FAIL", call.agent, "schema")
    /\ dpc' = "schema_failed"
    /\ UNCHANGED <<call, artifact, outcome>>

SchemaRejects ==
    /\ dpc = "schema_failed"
    /\ AppendEvent("GATE_REJECTION", call.agent, "schema")
    /\ Return("failed", "none")
    /\ UNCHANGED <<call, artifact>>

Gate == GateEvents(ToolTable[call.tool].consequence, artifact)

\* run_gate writes all of its entries ...
GateWrites ==
    /\ dpc = "gating"
    /\ GovernanceAppend(Gate[Len(loose) + 1], call.agent, "gate")
    /\ dpc' = IF Len(loose) + 1 = Len(Gate) THEN "attaching" ELSE "gating"
    /\ UNCHANGED <<call, artifact, outcome>>

\* wrong variant: dispatch returns after the first body
LastBodyFirst == TRUE
LastBody == Len(loose) = 1

GateReturns ==
    IF GateAccepts(ToolTable[call.tool].consequence, artifact)
    THEN Return("executed", "none")
    ELSE Return("refused", "none")

\* ... and dispatch attaches their bodies, in the same order.
GateAttaches ==
    /\ dpc = "attaching"
    /\ AttachEvent
    /\ IF LastBody THEN GateReturns ELSE UNCHANGED <<dpc, outcome>>
    /\ UNCHANGED <<call, artifact>>

DispatchStart(p) ==
    RefuseAtOnce(p) \/ RefuseNotInBuild(p) \/ GuardScope(p) \/ CallTool(p)

DispatchContinue ==
    \/ AttachGuard \/ RefuseScope
    \/ HandlerRaises \/ \E art \in Artifacts : HandlerReturns(art)
    \/ SchemaFails \/ SchemaRejects
    \/ GateWrites \/ GateAttaches

(***************************************************************************)
(* A session whose turns dispatch proposals.                               *)
(***************************************************************************)
DispatchInit ==
    /\ SessionInit
    /\ dpc = "idle"
    /\ call = NoProposal
    /\ artifact = "none"
    /\ outcome = NoOutcome

Lifecycle ==
    /\ dpc = "idle"
    /\ \/ SessionOpen
       \/ state = "open" /\ \E a \in Agents : BeginTurn(a, 0)
       \/ state \in {"agent_turn", "awaiting_analyst"} /\ BackToOpen
       \/ AwaitAnalyst
       \/ state = "open" /\ StartClose(Completed)
       \/ FinishClose
    /\ UNCHANGED dispatchVars

Dispatches ==
    /\ state \in {"agent_turn", "awaiting_analyst"}
    /\ \E p \in Proposals : DispatchStart(p)

DispatchNext ==
    Lifecycle \/ Dispatches \/ DispatchContinue \/ (Crash /\ UNCHANGED dispatchVars)

DispatchSpec == DispatchInit /\ [][DispatchNext]_allDispatchVars

\* The same with a bound on what it writes: no dispatch starts without room for
\* the four entries it writes at most.
BoundedDispatchNext ==
    \/ Lifecycle \/ DispatchContinue \/ (Crash /\ UNCHANGED dispatchVars)
    \/ Len(log) + 4 <= LogBound /\ Dispatches

BoundedDispatchSpec == DispatchInit /\ [][BoundedDispatchNext]_allDispatchVars

(***************************************************************************)
(* Properties.                                                             *)
(***************************************************************************)
\* The mandate, said once and declaratively: what an agent may have dispatched.
Permitted(p) ==
    /\ p.tool \in Mandate[p.agent].tools \cap DOMAIN ToolTable
    /\ p.scopes \subseteq Mandate[p.agent].scopes
    /\ ToolTable[p.tool].required \subseteq p.scopes
    /\ Rank[ToolTable[p.tool].consequence] <= Rank[Mandate[p.agent].ceiling]

\* A violation is recorded exactly when there is one: a refusal carries a
\* violation code if and only if the proposal was outside the mandate, and a
\* limit of the build is never counted as one.
RefusedIffNotPermitted ==
    outcome # NoOutcome =>
        /\ outcome.code \in ViolationCodes <=> ~ Permitted(call)
        /\ outcome.code # "none" => outcome.decision = "refused"

\* An executed dispatch delivered an artifact its gate accepted, and the chain
\* ends with the call, the result and the acceptance.
Ends(types) ==
    /\ Len(log) >= Len(types)
    /\ \A i \in 1 .. Len(types) : log[Len(log) - Len(types) + i].type = types[i]

ExecutedIsVerified ==
    outcome.decision = "executed" /\ dpc = "idle" /\ state \notin {"closing", "closed"} =>
        /\ Ends(<<"TOOL_CALLED", "TOOL_RESULT", "VERIFICATION_PASS">>)
        /\ artifact \in {"fails", "checker_raises"} =>
               ToolTable[call.tool].consequence = "observe"
        /\ artifact # "wrong_type"
====
