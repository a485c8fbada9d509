---- MODULE MCEvidenceTurn ----
(***************************************************************************)
(* An evidence session of the shipped fleet, cut to three steps and tokens *)
(* for about three calls, run under no hop limit, one below and one above  *)
(* the step budget.                                                        *)
(***************************************************************************)
EXTENDS SessionReport, Fleet

ThreeSteps == [a \in AgentId |-> 3]
FiveTokens == [a \in AgentId |-> 5]

PivotProposal == ProposalOf("evidence", "run_parameterized_pivot")
OneProposal == {PivotProposal}

TurnNotes == DispatchNotes \cup {"proposal", "approve", "reject"}
====
