---- MODULE AgentTurn ----
(***************************************************************************)
(* What the turns have in common: a session around the turn, one granted   *)
(* step per attempt, model calls inside the step, one dispatch.  What an   *)
(* attempt does between the model's answer and the dispatch, and after it, *)
(* is the turn's own: EvidenceTurn and MemoTurn attempt in a loop,         *)
(* TriageTurn and PromptEval only once.                                    *)
(***************************************************************************)
EXTENDS Dispatch

CONSTANTS
    Agent,      \* the agent whose turn it is
    Act,        \* what an attempt dispatches: one tool with its own scopes
    Limits,     \* bound: the limits on attempts explored (--max-hops, --max-attempts)
    NoLimit     \* None: the mandate's max_steps

\* The turn dispatches what the fleet ships: a tool that is built and that the
\* agent's mandate allows, with the scopes the table requires.
ASSUME TurnAssumption ==
    /\ Agent \in Agents /\ Limits \subseteq Nat
    /\ Act \in Proposals /\ Act.agent = Agent
    /\ Permitted(Act) /\ ToolTable[Act.tool].handler

VARIABLES
    pc,         \* where the turn is
    limit,      \* the argument that limits it
    attempt,    \* the loop variable
    broke       \* close_reason: why the loop was left early, or "none"

turnVars == <<pc, limit, attempt, broke>>
sessionTurnVars == <<allDispatchVars, turnVars>>

Places == {"unopened", "loop", "prompt", "waiting", "unavailable", "checking",
           "refused", "accepted", "reviewing", "judged", "graded", "declined",
           "approved", "dispatching", "ended", "closing", "done"}

\* A step that only advances the turn's control.
Go(to) == pc' = to /\ UNCHANGED <<limit, attempt, broke>>
SessionOnly == UNCHANGED dispatchVars

Ceiling == IF limit = NoLimit THEN MaxSteps[Agent] ELSE limit

MoreAttempts == attempt < Ceiling

OpenSession ==
    /\ pc = "unopened"
    /\ SessionOpen
    /\ SessionOnly /\ Go("loop")

\* A granted step goes on to the prompt, or to what the turn does before it.
BeginAttemptAt(first) ==
    /\ pc = "loop"
    /\ MoreAttempts
    /\ BeginTurn(Agent, 0)
    /\ attempt' = attempt + 1
    /\ IF reply' = Granted THEN pc' = first /\ UNCHANGED broke
                           ELSE pc' = "ended" /\ broke' = reply'
    /\ UNCHANGED limit
    /\ SessionOnly

BeginAttempt == BeginAttemptAt("prompt")

AskModel ==
    /\ pc = "prompt"
    /\ \E estimate \in Estimates : SendPrompt(Agent, estimate)
    /\ SessionOnly /\ Go(IF reply' = Granted THEN "waiting" ELSE "unavailable")

ModelResponds ==
    /\ pc = "waiting"
    /\ \/ (\E usage \in Usages : ModelAnswers(usage)) /\ Go("checking")
       \/ ModelRetries /\ Go("waiting")
       \/ ModelFails /\ Go("unavailable")
    /\ SessionOnly

\* No answer: the turn is ended and the loop left, with the call's own reason.
ModelUnavailable ==
    /\ pc = "unavailable"
    /\ BackToOpen
    /\ pc' = "ended"
    /\ broke' = reply
    /\ UNCHANGED <<limit, attempt>>
    /\ SessionOnly

\* wrong variant: the turn is not ended before the loop goes on
LeaveRefusedOpen == UNCHANGED sessionVars
LeaveRefused == BackToOpen

\* The proposal was refused by its check: next attempt.
AttemptRefused ==
    /\ pc = "refused"
    /\ LeaveRefused
    /\ SessionOnly /\ Go("loop")

RunAct ==
    /\ \/ pc = "approved" /\ DispatchStart(Act)
       \/ pc = "dispatching" /\ DispatchContinue
    /\ Go("dispatching")

ActReturned == pc = "dispatching" /\ dpc = "idle"

\* wrong variant: whatever was not refused counts as done
ExecutedUnlessRefused == outcome.decision # "refused"
Executed == outcome.decision = "executed"

TurnEnded == pc = "ended" \/ (pc = "loop" /\ ~ MoreAttempts)

\* The runner: turn.close_reason or COMPLETED.
CloseReason == IF broke = "none" THEN Completed ELSE broke

CloseSession ==
    /\ \/ TurnEnded /\ StartClose(CloseReason) /\ Go("closing")
       \/ pc = "closing" /\ FinishClose /\ Go("done")
    /\ SessionOnly

TurnInit ==
    /\ DispatchInit
    /\ pc = "unopened"
    /\ limit \in Limits \cup {NoLimit}
    /\ attempt = 0
    /\ broke = "none"

(***************************************************************************)
(* Properties that every turn states with its own specification.           *)
(***************************************************************************)
\* The turn's own records and artifacts are up to date between two attempts.
BetweenAttempts == pc \in {"loop", "ended", "closing", "done"}

Wrote(type, note, turn) ==
    \E i \in DOMAIN log :
        log[i].type = type /\ log[i].note = note /\ log[i].turn = turn

\* A session left to itself ends, closed and with its reason on the chain,
\* unless its process dies.
SessionEnds == <>(state = "closed" \/ ~ alive)

\* Running out of steps is reported as such: the close reason of a session
\* whose step budget ended the turn says so (STEP-03, requirement 3.3).
ExhaustionIsReported ==
    pc = "done" /\ limit = NoLimit /\ broke = "none" =>
        StepsLeft(Agent) > 0 \/ report.reason = OutOfSteps
====
