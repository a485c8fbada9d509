---- MODULE Fleet ----
(***************************************************************************)
(* What this build ships: the scopes (governance/scopes.py), the tools     *)
(* (orchestrator/tools.py) and the mandates (orchestrator/fleet.py).  The  *)
(* step and token budgets are left to the instances.                       *)
(***************************************************************************)

DataScope == {"channel", "video", "comment", "engagement_event", "account_meta", "infra_hint"}

ToolId == {"rank_triage_queue", "run_parameterized_pivot", "resolve_policy_citation", "run_prompt_eval"}

ToolEntry(consequence, required) ==
    [consequence |-> consequence, required |-> required, handler |-> TRUE]

TOOL_TABLE ==
    [rank_triage_queue |-> ToolEntry("observe", {"channel", "video", "comment", "infra_hint"}),
     run_parameterized_pivot |-> ToolEntry("assemble", DataScope),
     resolve_policy_citation |-> ToolEntry("recommend", {}),
     run_prompt_eval |-> ToolEntry("observe", {})]

\* A mandate allows one tool and takes its scopes from the table.
MandateFor(tool, ceiling) ==
    [tools |-> {tool}, scopes |-> TOOL_TABLE[tool].required, ceiling |-> ceiling]

TRIAGE_MANDATE == MandateFor("rank_triage_queue", "observe")
EVIDENCE_MANDATE == MandateFor("run_parameterized_pivot", "assemble")
MEMO_MANDATE == MandateFor("resolve_policy_citation", "recommend")
PROMPT_EVAL_MANDATE == MandateFor("run_prompt_eval", "observe")

default_mandates ==
    [triage |-> TRIAGE_MANDATE, evidence |-> EVIDENCE_MANDATE,
     memo |-> MEMO_MANDATE, prompt_eval |-> PROMPT_EVAL_MANDATE]
AgentId == DOMAIN default_mandates

\* What a turn proposes: its tool, with required_scope_names.
ProposalOf(agent, tool) ==
    [agent |-> agent, tool |-> tool, scopes |-> TOOL_TABLE[tool].required]
====
