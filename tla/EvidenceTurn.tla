---- MODULE EvidenceTurn ----
(***************************************************************************)
(* An evidence session: run_evidence_turn of orchestrator/evidence_turn.py *)
(* between session.open() and session.close() of run_evidence_session.     *)
(* One hop is one turn is one step: the model proposes a pivot, the        *)
(* proposal is checked, the analyst decides, dispatch runs it, and the     *)
(* pack it returns becomes the pack the next proposal is about.            *)
(***************************************************************************)
EXTENDS AgentTurn

ASSUME EvidenceWritesAssumption ==
    "HUMAN_DECISION" \in WorkEvents /\ {"proposal", "approve", "reject"} \subseteq Notes

VARIABLES
    hops,       \* what became of each hop, in order
    pack        \* the steps whose result the pack holds, in order

evidenceVars == <<sessionTurnVars, hops, pack>>

HopOutcomes == {"budget_exhausted", "model_unavailable", "refused", "rejected",
                "executed", "dispatch_failed"}

\* wrong variant: only a hop the analyst let through leaves a record
HopIsUnlessRejected(how) == hops' = IF how = "rejected" THEN hops ELSE Append(hops, how)
HopIs(how) == hops' = Append(hops, how)

(***************************************************************************)
(* The loop.                                                               *)
(***************************************************************************)
BeginHop ==
    /\ BeginAttempt
    /\ IF reply' = Granted THEN UNCHANGED hops ELSE HopIs("budget_exhausted")
    /\ UNCHANGED pack

HopUnavailable == ModelUnavailable /\ HopIs("model_unavailable") /\ UNCHANGED pack

\* check_proposal: the response parses, names a pivot, cites the pack's own
\* records and carries valid parameters; or it is refused for one of these.
CheckProposal ==
    /\ pc = "checking"
    /\ \/ /\ AppendEvent("VERIFICATION_PASS", Agent, "proposal")
          /\ Go("accepted")
       \/ /\ AppendEvent("VERIFICATION_FAIL", Agent, "proposal")
          /\ Go("refused")
    /\ SessionOnly

HopRefused == AttemptRefused /\ HopIs("refused") /\ UNCHANGED pack

AwaitReview ==
    /\ pc = "accepted"
    /\ AwaitAnalyst
    /\ SessionOnly /\ Go("reviewing")

\* wrong variant: whatever the analyst says, the pivot is run
AfterDecisionAlways(decision) == "approved"
AfterDecision(decision) == IF decision = "approve" THEN "approved" ELSE "declined"

\* The analyst's answer; the program waits for it without a time limit.
Decide ==
    /\ pc = "reviewing"
    /\ \E decision \in {"approve", "reject"} :
           /\ AppendEvent("HUMAN_DECISION", Agent, decision)
           /\ Go(AfterDecision(decision))
    /\ SessionOnly

HopRejected ==
    /\ pc = "declined"
    /\ BackToOpen
    /\ HopIs("rejected")
    /\ SessionOnly /\ Go("loop") /\ UNCHANGED pack

\* wrong variant: anything the handler returned goes into the pack
DeliveredAnyway == Executed \/ artifact # "none"
Delivered == Executed

\* wrong variant: a failed dispatch does not stop the investigation
HopFailedGoesOn == pc' = "loop" /\ UNCHANGED broke
HopFailed == pc' = "ended" /\ broke' = DispatchError

HopDispatched ==
    /\ ActReturned
    /\ BackToOpen
    /\ IF Delivered
       THEN /\ pack' = Append(pack, steps[Agent])
            /\ HopIs("executed") /\ pc' = "loop" /\ UNCHANGED broke
       ELSE /\ HopIs("dispatch_failed") /\ HopFailed /\ UNCHANGED pack
    /\ UNCHANGED <<limit, attempt>>
    /\ SessionOnly

EvidenceInit == TurnInit /\ hops = <<>> /\ pack = <<>>

EvidenceStep ==
    \/ BeginHop \/ HopUnavailable \/ HopRefused \/ HopRejected \/ HopDispatched
    \/ /\ OpenSession \/ AskModel \/ ModelResponds \/ CheckProposal
          \/ AwaitReview \/ Decide \/ RunAct \/ CloseSession
       /\ UNCHANGED <<hops, pack>>

EvidenceNext ==
    EvidenceStep \/ (Crash /\ UNCHANGED <<dispatchVars, turnVars, hops, pack>>)

EvidenceSpec == EvidenceInit /\ [][EvidenceNext]_evidenceVars

\* The program runs on, the provider answers or fails, the analyst answers;
\* nothing makes the process crash.
FairEvidenceSpec == EvidenceSpec /\ WF_evidenceVars(EvidenceStep)

(***************************************************************************)
(* Properties.                                                             *)
(***************************************************************************)
Trail == INSTANCE AuditTrail WITH trail <- log, Tool <- Act.tool,
                                  Reasons <- CloseReasons

\* The chain an evidence session leaves is a trail an auditor can rely on.
KeepsAuditTrail == Trail!TrailSpec

\* No tool runs on anything but this very step's analyst approval of a checked
\* proposal, and an approval is good for one run.
HumanApprovesEveryRun ==
    \A i \in DOMAIN log :
        log[i].type = "TOOL_CALLED" =>
            /\ i > 3
            /\ \A j \in 1 .. 3 : log[i - j].turn = log[i].turn
            /\ log[i - 3].type = "PROMPT_SENT"
            /\ log[i - 2].type = "VERIFICATION_PASS" /\ log[i - 2].note = "proposal"
            /\ log[i - 1].type = "HUMAN_DECISION" /\ log[i - 1].note = "approve"

\* The pack holds exactly the hops the chain shows approved, run and accepted
\* by the gate, each once and in order.
PackIsWhatTheChainShows ==
    BetweenAttempts =>
        /\ \A k \in 1 .. Len(pack) - 1 : pack[k] < pack[k + 1]
        /\ \A turn \in 1 .. MaxSteps[Agent] :
               (\E k \in DOMAIN pack : pack[k] = turn)
                   <=> Wrote("VERIFICATION_PASS", "gate", turn)
====
