---- MODULE MCMemoTurn ----
(***************************************************************************)
(* A memo session of the shipped fleet, cut to three steps and tokens for  *)
(* about three calls, run under no limit on attempts, one below and one    *)
(* above the step budget.                                                  *)
(***************************************************************************)
EXTENDS MemoTurn, Fleet

ThreeSteps == [a \in AgentId |-> 3]
FiveTokens == [a \in AgentId |-> 5]

CiteProposal == ProposalOf("memo", "resolve_policy_citation")
OneProposal == {CiteProposal}

TurnNotes == DispatchNotes \cup {"accepted", "refused"}
====
