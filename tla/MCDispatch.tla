---- MODULE MCDispatch ----
(***************************************************************************)
(* The shipped triage agent and one whose mandate allows a tool of every   *)
(* kind (built, not yet built, above the ceiling, ENFORCE, without an      *)
(* entry), with proposals that ask for too few scopes, too many, or sealed *)
(* ones.                                                                   *)
(***************************************************************************)
EXTENDS Dispatch, Fleet, TLC

CONSTANT anything

TwoAgents == {anything, "triage"}
OneStepEach == [a \in TwoAgents |-> 1]
OneTokenEach == [a \in TwoAgents |-> 1]

OddTools ==
    [assemble |-> ToolEntry("assemble", {"video"}),
     recommend |-> ToolEntry("recommend", {}),
     enforce |-> ToolEntry("enforce", {"video"}),
     not_built |-> [ToolEntry("observe", {}) EXCEPT !.handler = FALSE]]

Table == OddTools @@ TOOL_TABLE
Mandates ==
    anything :> [tools |-> DOMAIN OddTools, scopes |-> {"video"}, ceiling |-> "assemble"]
    @@ "triage" :> TRIAGE_MANDATE

KnownTools == DOMAIN Table \cup {"absent"}
Names == KnownTools \cup {"unheard_of"}
ScopeNamesHeard == DataScope \cup {"sealed"}

AllProposals ==
    [agent : TwoAgents, tool : Names \ {"resolve_policy_citation", "run_prompt_eval"},
     scopes : {{}, {"video"}, {"comment"}, {"video", "sealed"}, TRIAGE_MANDATE.scopes}]

TurnNotes == DispatchNotes
====
