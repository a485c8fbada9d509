---- MODULE SingleTurns ----
(***************************************************************************)
(* The two turns that take a single step, each in a session of its own:    *)
(* run_triage_session (orchestrator/session_runner.py) around TriageTurn,  *)
(* run_eval_session (orchestrator/eval_session.py) around PromptEval.      *)
(* They share the session, the budgets, the dispatch and the model call,   *)
(* and differ in what stands between them and in what they leave on disk.  *)
(***************************************************************************)
EXTENDS TriageTurn, PromptEval

\* Neither turn is given a limit, and what they write is among what a session may.
ASSUME SingleTurnsAssumption ==
    /\ Limits = {}
    /\ "OUTPUT_PROPOSED" \in WorkEvents
    /\ {"rationales", "queue", "verdict"} \subseteq Notes

VARIABLES
    kind,       \* which of the two sessions this is
    written     \* the files of the session's directory, in the order written

runnerVars == <<kind, written>>
singleVars == <<sessionTurnVars, triageVars, evalVars, runnerVars>>

\* Without a report an evaluation raises after the ledger's export; a triage
\* session writes its files, queue or no queue.
\* wrong variant: the evaluation writes its files whatever came of it
ArtifactOrderAlways ==
    IF kind = "triage" THEN <<"ledger", "ranked_queue", "session_events", "manifest">>
    ELSE <<"ledger", "report_md", "report_json", "manifest">>
ArtifactOrder ==
    IF kind = "triage" THEN <<"ledger", "ranked_queue", "session_events", "manifest">>
    ELSE IF evalReport = NoEvalReport THEN <<"ledger">>
    ELSE <<"ledger", "report_md", "report_json", "manifest">>

\* The session is closed; its directory is filled file by file.
Publish ==
    /\ pc = "done" /\ alive
    /\ Len(written) < Len(ArtifactOrder)
    /\ written' = Append(written, ArtifactOrder[Len(written) + 1])
    /\ UNCHANGED <<sessionTurnVars, triageVars, evalVars, kind>>

SingleInit ==
    /\ TurnInit
    /\ TriageInit
    /\ EvalInit
    /\ kind \in {"triage", "prompt_eval"}
    /\ kind = "prompt_eval" => platform = CHOOSE p \in Platforms : TRUE
    /\ written = <<>>

SingleStep ==
    \/ kind = "triage" /\ TriageStep /\ UNCHANGED <<evalVars, runnerVars>>
    \/ kind = "prompt_eval" /\ EvalStep /\ UNCHANGED <<triageVars, runnerVars>>
    \/ Publish

SingleNext ==
    \/ SingleStep
    \/ Crash /\ UNCHANGED <<dispatchVars, turnVars, triageVars, evalVars, runnerVars>>

SingleSpec == SingleInit /\ [][SingleNext]_singleVars

(***************************************************************************)
(* The properties of each kind's sessions.                                 *)
(***************************************************************************)
\* A triage session's queue, rationales and outcome are what its chain shows.
TriageTellsTheChain == kind = "triage" => TriageIsWhatTheChainShows

\* An evaluation's verdict is the one on its chain, and its directory holds a
\* report and a manifest only of an evaluation that was given one.
EvalTellsTheChain ==
    kind = "prompt_eval" =>
        /\ VerdictIsOnTheChain
        /\ \A k \in DOMAIN written : written[k] # "ledger" =>
               \/ Wrote("VERIFICATION_PASS", "verdict", 1)
               \/ Wrote("GATE_REJECTION", "verdict", 1)
====
