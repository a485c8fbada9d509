---- MODULE SessionReport ----
(***************************************************************************)
(* What a finished evidence session says of itself, and what is counted    *)
(* from it: EvidenceTurn.to_json_object (orchestrator/evidence_turn.py) is *)
(* the turn's own summary, read_session_counts (measurement/workflow.py)   *)
(* the governance section of the report, read from the session's events    *)
(* and that summary.  Injection signals are not counted here.              *)
(***************************************************************************)
EXTENDS EvidenceTurn

\* The turn's summary, as session_events.json carries it.
HopsThat(how) == Cardinality({h \in DOMAIN hops : hops[h] = how})

Turn == [attempted_hops |-> Len(hops),
         executed_hops |-> HopsThat("executed"),
         rejected_hops |-> HopsThat("rejected")]

Count(type) == Cardinality({i \in DOMAIN log : log[i].type = type})

Governance ==
    [gate_rejections |-> Count("GATE_REJECTION"),
     mandate_violation_attempts |-> Count("MANDATE_VIOLATION_ATTEMPT"),
     verification_passes |-> Count("VERIFICATION_PASS"),
     verification_failures |-> Count("VERIFICATION_FAIL"),
     human_decisions |-> Count("HUMAN_DECISION"),
     rejected_hops |-> Turn.rejected_hops]

TotalExercised ==
    Governance.gate_rejections + Governance.mandate_violation_attempts
        + Governance.verification_failures + Governance.rejected_hops

Untested == TotalExercised = 0

(***************************************************************************)
(* Properties.                                                             *)
(***************************************************************************)
\* The hop records tell what the chain tells, hop by hop; and the two readings
\* of the finished session agree: a hop was decided by the analyst exactly if
\* its check let it through, whatever then became of it, and every failure
\* counted is a refused hop, a rejected artifact or a model that failed.
HopsTellTheChain ==
    /\ BetweenAttempts =>
        /\ Len(hops) = attempt
        /\ \A h \in DOMAIN hops :
            /\ hops[h] = "executed" <=> Wrote("VERIFICATION_PASS", "gate", h)
            /\ hops[h] = "rejected" <=> Wrote("HUMAN_DECISION", "reject", h)
            /\ hops[h] = "refused" <=> Wrote("VERIFICATION_FAIL", "proposal", h)
            /\ hops[h] = "dispatch_failed" =>
                   Wrote("HUMAN_DECISION", "approve", h)
                   /\ ~ Wrote("VERIFICATION_PASS", "gate", h)
    /\ pc = "done" =>
        /\ Governance.human_decisions =
               Turn.executed_hops + Turn.rejected_hops + HopsThat("dispatch_failed")
        /\ Governance.verification_passes =
               Governance.human_decisions + Turn.executed_hops
        /\ Governance.verification_failures
               - HopsThat("refused") - Governance.gate_rejections
                   = Cardinality({h \in DOMAIN hops :
                                      Wrote("VERIFICATION_FAIL", "adapter", h)})
        /\ Untested =>
               HopsThat("executed") + HopsThat("dispatch_failed")
                   = Governance.human_decisions

\* What the report prints as "pivots refused before review" (workflow.py,
\* GovernanceActivity.render) is the number of hops refused before review.
RefusalsAreReported ==
    pc = "done" => Governance.rejected_hops = HopsThat("refused")
====
