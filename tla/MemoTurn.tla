---- MODULE MemoTurn ----
(***************************************************************************)
(* A memo session: run_memo_turn of orchestrator/memo_turn.py between      *)
(* session.open() and session.close() of run_memo_session.  An attempt is  *)
(* one step: the model drafts, the draft is checked for being a memo at    *)
(* all and dispatched, and the gate either passes it, which ends the turn, *)
(* or flags what the next prompt asks the agent to revise.                 *)
(*                                                                         *)
(* A draft is the step it was written in; 0 is none.                       *)
(***************************************************************************)
EXTENDS AgentTurn

ASSUME MemoWritesAssumption ==
    "OUTPUT_PROPOSED" \in WorkEvents /\ {"accepted", "refused"} \subseteq Notes

VARIABLES
    attempts,   \* what became of each attempt, in order
    memo,       \* the draft the turn would deliver
    flagged,    \* the step whose findings the next prompt will carry
    told        \* the findings each prompt sent did carry, in order

memoVars == <<attempts, memo, flagged, told>>
memoTurnVars == <<sessionTurnVars, memoVars>>

AttemptOutcomes == {"budget_exhausted", "model_unavailable", "refused",
                    "gate_rejected", "verified"}

AttemptIs(how) == attempts' = Append(attempts, how)

BeginDraft ==
    /\ BeginAttempt
    /\ IF reply' = Granted THEN UNCHANGED attempts ELSE AttemptIs("budget_exhausted")
    /\ UNCHANGED <<memo, flagged, told>>

\* The prompt shows the agent what is flagged.
AskDraft ==
    /\ AskModel
    /\ told' = IF reply' = Granted THEN Append(told, flagged) ELSE told
    /\ UNCHANGED <<attempts, memo, flagged>>

DraftUnavailable ==
    /\ ModelUnavailable
    /\ AttemptIs("model_unavailable")
    /\ UNCHANGED <<memo, flagged, told>>

\* check_draft: the response is a memo with every role, a known measure and
\* citations that can be looked up; or it is refused for one of these.
CheckDraft ==
    /\ pc = "checking"
    /\ \/ AppendEvent("OUTPUT_PROPOSED", Agent, "accepted") /\ Go("approved")
       \/ AppendEvent("OUTPUT_PROPOSED", Agent, "refused") /\ Go("refused")
    /\ SessionOnly
    /\ UNCHANGED memoVars

\* wrong variant: a draft that was no memo leaves the older findings standing
FlagRefusedKept == UNCHANGED flagged
FlagRefused == flagged' = steps[Agent]

DraftRefused ==
    /\ AttemptRefused
    /\ FlagRefused
    /\ AttemptIs("refused")
    /\ UNCHANGED <<memo, told>>

\* wrong variant: an attempt that verified does not end the turn
AfterVerifiedGoOn == "loop"
AfterVerified == "ended"

\* wrong variant: the turn keeps the first draft it was given
DraftKeptFirst == IF memo = 0 THEN steps[Agent] ELSE memo
DraftKept == steps[Agent]

\* A dispatch that failed is flagged and recorded like one the gate rejected.
DraftDispatched ==
    /\ ActReturned
    /\ BackToOpen
    /\ memo' = DraftKept
    /\ IF Executed
       THEN AttemptIs("verified") /\ UNCHANGED flagged /\ pc' = AfterVerified
       ELSE AttemptIs("gate_rejected") /\ flagged' = steps[Agent] /\ pc' = "loop"
    /\ UNCHANGED <<limit, attempt, broke, told>>
    /\ SessionOnly

MemoInit ==
    /\ TurnInit
    /\ attempts = <<>>
    /\ memo = 0
    /\ flagged = 0
    /\ told = <<>>

MemoStep ==
    \/ BeginDraft \/ AskDraft \/ DraftUnavailable \/ CheckDraft
    \/ DraftRefused \/ DraftDispatched
    \/ (OpenSession \/ ModelResponds \/ RunAct \/ CloseSession) /\ UNCHANGED memoVars

MemoNext == MemoStep \/ (Crash /\ UNCHANGED <<dispatchVars, turnVars, memoVars>>)
MemoSpec == MemoInit /\ [][MemoNext]_memoTurnVars

(***************************************************************************)
(* Properties.                                                             *)
(***************************************************************************)
Verified == \E k \in DOMAIN attempts : attempts[k] = "verified"

\* The turn delivers the latest draft that was a memo at all, and calls it
\* verified exactly when the chain shows that very draft passing its gate,
\* after which the agent is not asked again.
MemoIsWhatTheChainShows ==
    BetweenAttempts =>
        /\ \A turn \in 1 .. MaxSteps[Agent] :
               Wrote("OUTPUT_PROPOSED", "accepted", turn) => turn <= memo
        /\ memo # 0 => Wrote("OUTPUT_PROPOSED", "accepted", memo)
        /\ Verified <=> Wrote("VERIFICATION_PASS", "gate", memo)
        /\ Verified => memo = steps[Agent]

\* Every prompt carries the findings of the attempt just before it, never of
\* an older one, so that the agent is told about the draft it is revising.
RevisionsAnswerTheLastFindings == \A k \in DOMAIN told : told[k] = k - 1

\* The attempt log tells what the chain tells, attempt by attempt; a tool that
\* raised counts as a rejection.
AttemptsTellTheChain ==
    BetweenAttempts =>
        /\ Len(attempts) = attempt
        /\ \A k \in DOMAIN attempts :
            /\ attempts[k] = "verified" <=> Wrote("VERIFICATION_PASS", "gate", k)
            /\ attempts[k] = "refused" <=> Wrote("OUTPUT_PROPOSED", "refused", k)
            /\ attempts[k] = "gate_rejected" =>
                   /\ Wrote("OUTPUT_PROPOSED", "accepted", k)
                   /\ \/ Wrote("GATE_REJECTION", "gate", k)
                      \/ Wrote("GATE_REJECTION", "schema", k)
                      \/ Wrote("TOOL_RESULT", "raised", k)
====
