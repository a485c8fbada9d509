---- MODULE SingleTurnsProofs ----
(***************************************************************************)
(* What module SingleTurns' run checks for one small instance, proved for  *)
(* any budgets, platforms, eval sets and tolerances: both sessions are     *)
(* sessions, a triage session's queue and an evaluation's verdict are what *)
(* their chains show, the queue can be explained from the platform, the    *)
(* answers graded are paired and paid for, and the verdict follows.        *)
(*                                                                         *)
(* Both turns take exactly one step (OneStep), so that everything the      *)
(* chain shows of them it shows of turn 1.                                 *)
(***************************************************************************)
EXTENDS SingleTurns, AgentTurnProofs, WellFoundedInduction

Over == {"ended", "closing", "done"}

\* The one step is granted, ended once and never followed by another.
OneStep ==
    /\ kind \in {"triage", "prompt_eval"}
    /\ limit = NoLimit
    /\ IF pc \in {"unopened", "loop"}
       THEN /\ attempt = 0 /\ steps[Agent] = 0 /\ spent[Agent] = 0
            /\ \A i \in DOMAIN log : log[i].turn = 0
       ELSE steps[Agent] = 1
    /\ pc \in InAttempt => state = "agent_turn"
    /\ pc \notin Over => broke = "none"

(***************************************************************************)
(* The books of a triage session.                                          *)
(***************************************************************************)

\* The rationales have been checked, and what was kept of them stands.
Judged == pc \in {"judged", "accepted"} \/ (pc \in Over /\ delivered /\ broke = "none")

\* Whether there is a queue follows from the turn's place, until it is over.
Delivered ==
    /\ delivered \in BOOLEAN
    /\ pc \in {"unopened", "loop", "approved", "dispatching"} => ~ delivered
    /\ pc \in InAttempt \ {"approved", "dispatching"} => delivered
    /\ pc \in Over /\ ~ delivered => broke = DispatchError

\* What the chain shows at each place.
TriageTraced ==
    /\ Wrote("VERIFICATION_PASS", "gate", 1) <=> delivered \/ Fresh
    /\ Wrote("PROMPT_SENT", "none", 1) => delivered
    /\ Wrote("OUTPUT_PROPOSED", "queue", 1)
           <=> pc = "accepted" \/ (pc \in Over /\ delivered /\ broke = "none")
    /\ Wrote("VERIFICATION_PASS", "rationales", 1) =>
           Judged /\ \A r \in DOMAIN queue : queue[r].rationale

\* A row keeps a rationale only once they were judged, and only an accepted one.
Grounded ==
    \A r \in DOMAIN queue :
        /\ queue[r] = [case |-> queue[r].case, subject |-> queue[r].subject,
                       rationale |-> queue[r].rationale]
        /\ queue[r].rationale => Judged /\ Accepted(queue[r].case)

TriageBooks == Delivered /\ TriageTraced /\ Grounded

(***************************************************************************)
(* The books of an evaluation.                                             *)
(***************************************************************************)

\* A verdict is on the chain just when there is one, after a report.
Ruled ==
    /\ verdict \in {"none", "activatable", "refused"}
    /\ verdict # "none" => pc \in Over
    /\ evalReport # NoEvalReport <=> pc = "graded" \/ verdict # "none"
    /\ Wrote("VERIFICATION_PASS", "verdict", 1) <=> verdict = "activatable"
    /\ Wrote("GATE_REJECTION", "verdict", 1) <=> verdict = "refused"
    /\ Wrote("VERIFICATION_PASS", "gate", 1) <=> Fresh \/ evalReport # NoEvalReport

\* Files are written when all is over, and others than the ledger's export only
\* of an evaluation with a verdict.
Files == {"ledger", "ranked_queue", "session_events", "manifest", "report_md", "report_json"}
Filed ==
    /\ written \in Seq(Files)
    /\ written # <<>> => pc = "done"
    /\ \A k \in DOMAIN written : written[k] # "ledger" => verdict # "none"

\* Every item has been through the model under the incumbent, then under the
\* candidate, and is either answered or counted as not.
Silent(v) == {k \in DOMAIN answers[v] : answers[v][k] = Unanswered}
Paired ==
    /\ asked \in 0 .. 2 * ItemCount
    /\ answers \in [Versions -> Seq(Classes \cup {Unanswered})]
    /\ Len(answers["incumbent"]) = (IF asked < ItemCount THEN asked ELSE ItemCount)
    /\ Len(answers["candidate"]) = (IF asked < ItemCount THEN 0 ELSE asked - ItemCount)
    /\ bad \in [Versions -> Nat]
    /\ \A v \in Versions : bad[v] = Cardinality(Silent(v))
    /\ pc \in {"unopened", "loop"} => asked = 0
    /\ pc \in {"prompt", "waiting", "unavailable", "checking"} => asked < 2 * ItemCount
    /\ pc \notin {"unopened", "loop", "prompt", "waiting", "unavailable", "checking"} =>
           asked = 2 * ItemCount

\* An answer, and one that may yet come, has a prompt that no failure follows.
Paid ==
    Cardinality(Given) + One(pc \in {"waiting", "checking"})
            + Cardinality(EntriesOf("VERIFICATION_FAIL", "adapter"))
        <= Cardinality(EntriesOf("PROMPT_SENT", "none"))

\* The report is of the answers given, and no bound in it is beyond them.
Fair ==
    evalReport # NoEvalReport =>
        /\ evalReport.bad = bad
        /\ evalReport.macro = [v \in Versions |-> MacroF1(v)]
        /\ \A class \in Measured :
               evalReport.lower[class] \in WorstResample(class) .. Change(class)

EvalBooks == Ruled /\ Filed /\ Paired /\ Paid /\ Fair /\ VerdictFollowsTheAnswers

SingleInv ==
    /\ TurnInv
    /\ OneStep
    /\ kind = "triage" => TriageBooks /\ asked = 0 /\ verdict = "none"
    /\ kind = "prompt_eval" => EvalBooks

(***************************************************************************)
(* The steps of both turns are steps of a session.                         *)
(***************************************************************************)
\* A step of the triage turn.
LEMMA TriageKeepsPlace ==
    ASSUME TurnInv, OneStep, TriageStep
    PROVE  [SessionNext]_sessionVars /\ TurnInv'
<1> USE TurnAssumption
<1>0. TurnPlace
  BY DEF TurnInv
<1>1. CASE OpenSession \/ BeginTriage \/ CloseSession
  BY <1>1, TurnBeginsAndEnds DEF BeginTriage
<1>2. CASE AskModel \/ ModelResponds \/ ModelUnavailable
  BY <1>2, TurnAsks
<1>3. CASE RunAct
  BY <1>3, TurnDispatches
<1>4. CASE QueueBuilt
  <2>1. pc = "dispatching" /\ dpc = "idle" /\ SessionOnly /\ broke \in CloseReasons \cup {"none"}
    BY <1>0, <1>4 DEF QueueBuilt, ActReturned, TurnPlace
  <2>2. CASE Executed
    <3>1. /\ UNCHANGED allDispatchVars /\ state = "agent_turn" /\ pc' = "prompt"
          /\ broke' = broke
      BY <1>4, <2>1, <2>2 DEF QueueBuilt, Go, SessionOnly, allDispatchVars, OneStep, InAttempt
    <3> QED BY <2>1, <3>1, TurnStays
  <2>3. CASE ~ Executed
    <3>1. BackToOpen /\ pc' = "ended" /\ broke' \in CloseReasons \cup {"none"}
      BY <1>4, <2>3 DEF QueueBuilt, NoQueue, CloseReasons
    <3>2. pc \in InAttempt \ {"waiting"}
      BY <2>1 DEF InAttempt
    <3> QED BY <2>1, <3>1, <3>2, TurnMoves
  <2> QED BY <2>2, <2>3
<1>5. CASE RationalesRead
  <2>1. /\ pc = "checking" /\ pc' = "reviewing" /\ UNCHANGED allDispatchVars /\ broke' = broke
        /\ state = "agent_turn" /\ dpc = "idle"
    BY <1>0, <1>5 DEF RationalesRead, Go, OneStep, InAttempt, TurnPlace
  <2> QED BY <2>1, TurnStays
<1>6. CASE RationalesChecked
  <2>1. PICK type \in {"VERIFICATION_PASS", "VERIFICATION_FAIL"} :
            AppendEvent(type, Agent, "rationales")
    BY <1>6 DEF RationalesChecked
  <2>2. /\ type \in WorkEvents /\ "rationales" \in Notes
        /\ pc \in InAttempt \ {"waiting", "dispatching"} /\ pc' = "judged"
        /\ SessionOnly /\ broke' = broke
    BY <1>6, WritesAssumption, SingleTurnsAssumption
    DEF RationalesChecked, Go, DispatchEvents, InAttempt
  <2> QED BY <2>1, <2>2, TurnRecords
<1>7. CASE QueueProposed
  <2>1. SessionOnly /\ broke' = broke /\ broke \in CloseReasons \cup {"none"} /\ dpc = "idle"
    BY <1>0, <1>7 DEF QueueProposed, Go, TurnPlace
  <2>2. CASE pc = "judged" /\ AppendEvent("OUTPUT_PROPOSED", Agent, "queue") /\ Go("accepted")
    <3>1. "OUTPUT_PROPOSED" \in WorkEvents /\ "queue" \in Notes
      BY SingleTurnsAssumption
    <3>2. pc \in InAttempt \ {"waiting", "dispatching"} /\ pc' = "accepted"
      BY <2>2 DEF Go, InAttempt
    <3> QED BY <2>1, <2>2, <3>1, <3>2, TurnRecords
  <2>3. CASE pc = "accepted" /\ BackToOpen /\ Go("ended")
    <3>1. pc \in InAttempt \ {"waiting"} /\ pc' = "ended"
      BY <2>3 DEF Go, InAttempt
    <3> QED BY <2>1, <2>3, <3>1, TurnMoves
  <2> QED BY <1>7, <2>2, <2>3 DEF QueueProposed
<1> QED BY <1>1, <1>2, <1>3, <1>4, <1>5, <1>6, <1>7 DEF TriageStep

\* A step of the evaluation.
LEMMA EvalKeepsPlace ==
    ASSUME TurnInv, OneStep, EvalStep
    PROVE  [SessionNext]_sessionVars /\ TurnInv'
<1> USE TurnAssumption
<1>0. TurnPlace
  BY DEF TurnInv
<1>1. CASE OpenSession \/ BeginAttempt \/ CloseSession
  BY <1>1, TurnBeginsAndEnds DEF BeginAttempt
<1>2. CASE AskModel \/ ModelResponds
  BY <1>2, TurnAsks
<1>3. CASE RunAct
  BY <1>3, TurnDispatches
<1>4. CASE AnswerParsed \/ AnswerMissing
  <2>1. PICK answer : pc \in {"checking", "unavailable"} /\ Classified(answer)
    BY <1>4 DEF AnswerParsed, AnswerMissing
  <2>2. /\ pc' \in {"approved", "prompt"} /\ UNCHANGED allDispatchVars /\ broke' = broke
        /\ state = "agent_turn" /\ dpc = "idle"
    BY <1>0, <2>1 DEF Classified, SessionOnly, allDispatchVars, OneStep, InAttempt, TurnPlace
  <2> QED BY <2>1, <2>2, TurnStays
<1>5. CASE EvalDispatched
  <2>1. /\ BackToOpen /\ pc \in InAttempt \ {"waiting"} /\ dpc = "idle" /\ SessionOnly
        /\ pc' \in {"graded", "ended"} /\ broke' \in CloseReasons \cup {"none"}
    BY <1>0, <1>5 DEF EvalDispatched, ActReturned, InAttempt, TurnPlace
  <2> QED BY <2>1, TurnMoves
<1>6. CASE LedgerVerdict
  <2>1. PICK type \in {"VERIFICATION_PASS", "GATE_REJECTION"} :
            AppendEvent(type, Agent, "verdict")
    BY <1>6 DEF LedgerVerdict, VerdictEvent
  <2>2. /\ type \in WorkEvents /\ "verdict" \in Notes
        /\ pc = "graded" /\ pc' = "ended" /\ SessionOnly /\ broke' = broke
    BY <1>6, WritesAssumption, SingleTurnsAssumption DEF LedgerVerdict, Go, DispatchEvents
  <2> QED BY <2>1, <2>2, TurnRecords
<1> QED BY <1>1, <1>2, <1>3, <1>4, <1>5, <1>6 DEF EvalStep

\* A step of either, a file written, a crash.
LEMMA SinglesKeepPlace ==
    ASSUME TurnInv, OneStep, [SingleNext]_singleVars
    PROVE  [SessionNext]_sessionVars /\ TurnInv'
<1>1. CASE Publish \/ UNCHANGED singleVars
            \/ (Crash /\ UNCHANGED <<dispatchVars, turnVars, triageVars, evalVars, runnerVars>>)
  <2>1. Crash \/ UNCHANGED sessionVars
    BY <1>1 DEF Publish, singleVars, sessionTurnVars, allDispatchVars
  <2>2. UNCHANGED <<dispatchVars, turnVars>>
    BY <1>1 DEF Publish, singleVars, sessionTurnVars, allDispatchVars
  <2> QED BY <2>1, <2>2, TurnCrashes
<1> QED BY <1>1, TriageKeepsPlace, EvalKeepsPlace DEF SingleNext, SingleStep
(***************************************************************************)
(* The one step.                                                           *)
(***************************************************************************)

\* Nothing was taken of either budget yet, and neither is empty.
LEMMA FirstIsGranted ==
    ASSUME SessionTypeOK, OneStep, pc = "loop"
    PROVE  MoreAttempts /\ TurnCheck(Agent, 0) = Granted
<1>1. /\ MaxSteps[Agent] \in Nat \ {0} /\ TokenBudget[Agent] \in Nat \ {0}
      /\ steps[Agent] = 0 /\ spent[Agent] = 0 /\ attempt = 0 /\ limit = NoLimit
  BY SessionAssumption, TurnAssumption DEF OneStep
<1>2. MoreAttempts
  BY <1>1 DEF MoreAttempts, Ceiling
<1>3. StepsLeft(Agent) > 0 /\ TokensLeft(Agent) > 0
  BY <1>1 DEF StepsLeft, TokensLeft
<1>4. ~ (StepsLeft(Agent) <= 0) /\ ~ TokensRefused(Agent, 0)
  BY <1>1, <1>3 DEF TokensRefused, StepsLeft, TokensLeft
<1> QED BY <1>2, <1>4 DEF TurnCheck, Check

\* An entry of the turn's one step, and one of the session's own.
OfTheStep(type, note) == [type |-> type, agent |-> Agent, turn |-> 1, note |-> note]
OfTheSession(type, note) == [type |-> type, agent |-> Nobody, turn |-> 0, note |-> note]

\* What both turns do, and what they write doing it.
Course ==
    \/ /\ pc = "unopened" /\ pc' = "loop" /\ UNCHANGED <<broke, attempt, steps, spent>>
       /\ log' = Append(log, OfTheSession("SESSION_OPEN", "none"))
    \/ /\ pc = "loop" /\ pc' \in {"prompt", "approved"}
       /\ state' = "agent_turn" /\ steps'[Agent] = 1 /\ UNCHANGED <<broke, log>>
    \/ /\ pc = "prompt" /\ pc' = "waiting" /\ UNCHANGED <<broke, state, steps>>
       /\ log' = Append(log, OfTheStep("PROMPT_SENT", "none"))
    \/ pc = "prompt" /\ pc' = "unavailable" /\ UNCHANGED <<broke, state, steps, log>>
    \/ pc = "waiting" /\ pc' \in {"checking", "waiting"} /\ UNCHANGED <<broke, state, steps, log>>
    \/ /\ pc = "waiting" /\ pc' = "unavailable" /\ UNCHANGED <<broke, state, steps>>
       /\ log' = Append(log, OfTheStep("VERIFICATION_FAIL", "adapter"))
    \/ pc = "unavailable" /\ pc' = "ended" /\ broke' \in CloseReasons /\ UNCHANGED <<steps, log>>
    \/ pc = "ended" /\ pc' = "closing" /\ UNCHANGED <<broke, steps, log>>
    \/ /\ pc = "closing" /\ pc' = "done" /\ UNCHANGED <<broke, steps>>
       /\ log' = Append(log, OfTheSession("SESSION_CLOSE", closing))

\* The steps the two turns share go this course.
LEMMA SharedStepsGoTheCourse ==
    ASSUME TurnInv, OneStep,
           \/ OpenSession \/ BeginAttemptAt("prompt") \/ BeginAttemptAt("approved")
           \/ AskModel \/ ModelResponds \/ ModelUnavailable \/ CloseSession
    PROVE  Course /\ limit' = limit
<1> USE TurnAssumption, SessionAssumption
<1>0. /\ SessionTypeOK /\ TurnPlace
      /\ steps \in [Agents -> Nat]
  BY DEF TurnInv, SessionInv, SessionTypeOK
<1>1. ASSUME NEW type, NEW note
      PROVE  /\ Entry(type, Nobody, note) = OfTheSession(type, note)
             /\ steps[Agent] = 1 => Entry(type, Agent, note) = OfTheStep(type, note)
  BY DEF Entry, OfTheSession, OfTheStep
<1>2. CASE OpenSession
  BY <1>1, <1>2 DEF OpenSession, SessionOpen, Record, Go, budgetVars, Course
<1>3. CASE BeginAttemptAt("prompt") \/ BeginAttemptAt("approved")
  <2>1. /\ pc = "loop" /\ BeginTurn(Agent, 0) /\ steps[Agent] = 0
        /\ TurnCheck(Agent, 0) = Granted
    BY <1>0, <1>3, FirstIsGranted DEF BeginAttemptAt, OneStep
  <2>2. reply' = Granted /\ state' = "agent_turn" /\ steps' = [steps EXCEPT ![Agent] = @ + 1]
        /\ log' = log
    BY <2>1 DEF BeginTurn, MoveTo, chainVars
  <2>3. steps'[Agent] = 1
    BY <1>0, <2>1, <2>2
  <2> QED BY <1>3, <2>1, <2>2, <2>3 DEF BeginAttemptAt, Course
<1>4. CASE AskModel
  <2>1. steps[Agent] = 1 /\ pc = "prompt"
    BY <1>4 DEF AskModel, OneStep
  <2>2. PICK estimate \in Estimates : SendPrompt(Agent, estimate)
    BY <1>4 DEF AskModel
  <2> QED BY <1>1, <1>4, <2>1, <2>2
          DEF AskModel, SendPrompt, Record, Go, chainVars, budgetVars, Course
<1>5. CASE ModelResponds
  <2>1. steps[Agent] = 1 /\ pc = "waiting" /\ pending.agent = Agent
    BY <1>0, <1>5 DEF ModelResponds, OneStep, TurnPlace
  <2> QED BY <1>1, <1>5, <2>1
          DEF ModelResponds, ModelAnswers, ModelRetries, ModelFails, Record, Go, chainVars,
              budgetVars, Course
<1>6. CASE ModelUnavailable
  BY <1>0, <1>6
  DEF ModelUnavailable, BackToOpen, chainVars, budgetVars, TurnPlace, Course
<1>7. CASE CloseSession
  <2>1. pc = "loop" => MoreAttempts
    BY <1>0, FirstIsGranted
  <2> QED BY <1>1, <1>7, <2>1
          DEF CloseSession, TurnEnded, StartClose, FinishClose, Record, Go, chainVars,
              budgetVars, Course
<1> QED BY <1>2, <1>3, <1>4, <1>5, <1>6, <1>7

\* Dispatching writes entries of the step, and an acceptance just when what it
\* delivered is fresh.
LEMMA ActGoesTheCourse ==
    ASSUME TurnInv, OneStep, RunAct
    PROVE  /\ pc \in {"approved", "dispatching"} /\ pc' = "dispatching"
           /\ UNCHANGED <<steps, state, broke, limit>>
           /\ \/ log' = log /\ (Fresh' <=> Fresh)
              \/ /\ ~ Fresh
                 /\ \E type \in DispatchEvents, note \in DispatchNotes :
                        /\ log' = Append(log, OfTheStep(type, note))
                        /\ type = "VERIFICATION_PASS" => note = "gate"
                        /\ type \in {"VERIFICATION_FAIL", "GATE_REJECTION"} =>
                               note \in {"gate", "schema"}
                        /\ Fresh' <=> type = "VERIFICATION_PASS" /\ note = "gate"
<1>1. steps[Agent] = 1
  BY DEF OneStep, RunAct
<1>2. UNCHANGED <<broke, limit>>
  BY DEF RunAct, Go
<1> QED BY <1>1, <1>2, ActAccepts DEF OfTheStep

\* A step is taken only once, and is over when it is.
LEMMA StillOneStep ==
    ASSUME TurnInv, OneStep, [SingleNext]_singleVars
    PROVE  OneStep'
<1> USE TurnAssumption
<1>0. /\ kind' = kind /\ TurnPlace /\ SessionTypeOK
  BY DEF SingleNext, SingleStep, Publish, runnerVars, singleVars, TurnInv, SessionInv
<1>1. CASE Course /\ limit' = limit
  <2>1. /\ kind' \in {"triage", "prompt_eval"} /\ limit' = NoLimit
    BY <1>0, <1>1 DEF OneStep
  <2>2. CASE pc' = "loop"
    <3>1. log = <<>> /\ log' = Append(log, OfTheSession("SESSION_OPEN", "none"))
          /\ UNCHANGED <<broke, attempt, steps, spent>> /\ pc = "unopened"
      BY <1>0, <1>1, <2>2 DEF Course, TurnPlace
    <3>2. \A i \in DOMAIN log' : log'[i].turn = 0
      BY <3>1 DEF OfTheSession
    <3> QED BY <2>1, <2>2, <3>1, <3>2 DEF OneStep, InAttempt, Over
  <2>3. CASE pc' # "loop"
    <3>1. pc' # "unopened" /\ steps'[Agent] = 1
      BY <1>1, <2>3 DEF Course, OneStep
    <3>2. pc' \in InAttempt => state' = "agent_turn"
      BY <1>1 DEF Course, OneStep, InAttempt
    <3>3. pc' \notin Over => broke' = "none"
      BY <1>1, <2>3 DEF Course, OneStep, Over
    <3> QED BY <2>1, <2>3, <3>1, <3>2, <3>3 DEF OneStep
  <2> QED BY <2>2, <2>3
<1>2. CASE RunAct
  BY <1>0, <1>2, ActGoesTheCourse DEF OneStep, InAttempt, Over
<1>3. CASE QueueBuilt \/ RationalesRead \/ RationalesChecked \/ QueueProposed
  <2>1. /\ pc \in {"dispatching", "checking", "reviewing", "judged", "accepted"}
        /\ UNCHANGED <<steps, limit>>
        /\ \/ pc' \in {"prompt", "reviewing", "judged", "accepted"} /\ UNCHANGED <<state, broke>>
           \/ pc' = "ended"
    BY <1>3
    DEF QueueBuilt, ActReturned, RationalesRead, RationalesChecked, QueueProposed, Go,
        AppendEvent, BackToOpen, budgetVars, sessionVars, allDispatchVars
  <2> QED BY <1>0, <2>1 DEF OneStep, InAttempt, Over
<1>4. CASE AnswerParsed \/ AnswerMissing \/ EvalDispatched \/ LedgerVerdict
  <2>1. /\ pc \in {"checking", "unavailable", "dispatching", "graded"}
        /\ UNCHANGED <<steps, limit, broke>>
        /\ \/ pc # "graded" /\ pc' \in {"approved", "prompt"} /\ UNCHANGED state
           \/ pc' \in {"graded", "ended"}
    BY <1>4
    DEF AnswerParsed, AnswerMissing, Classified, EvalDispatched, ActReturned, LedgerVerdict,
        Go, AppendEvent, BackToOpen, budgetVars, sessionVars
  <2> QED BY <1>0, <2>1 DEF OneStep, InAttempt, Over
<1>5. CASE UNCHANGED <<steps, spent, log, state, turnVars>>
  BY <1>0, <1>5 DEF OneStep, turnVars
<1>6. Publish \/ Crash \/ UNCHANGED singleVars
          => UNCHANGED <<steps, spent, log, state>>
  BY DEF Publish, Crash, singleVars, sessionTurnVars, allDispatchVars, sessionVars, chainVars,
         budgetVars
<1>7. (Publish \/ UNCHANGED singleVars) \/ (Crash /\ UNCHANGED turnVars)
          => UNCHANGED <<steps, spent, log, state, turnVars>>
  BY <1>6 DEF Publish, singleVars, sessionTurnVars
<1> QED BY <1>1, <1>2, <1>3, <1>4, <1>5, <1>7, SharedStepsGoTheCourse
        DEF SingleNext, SingleStep, TriageStep, EvalStep, BeginTriage, BeginAttempt

\* What was written in the step, one entry later.
LEMMA StepWrites ==
    ASSUME SessionTypeOK
    PROVE  /\ log' = log => \A type, note : Wrote(type, note, 1)' <=> Wrote(type, note, 1)
           /\ (\E about, why : log' = Append(log, OfTheSession(about, why))) =>
                  \A type, note : Wrote(type, note, 1)' <=> Wrote(type, note, 1)
           /\ \A about, why : log' = Append(log, OfTheStep(about, why)) =>
                  \A type, note :
                      Wrote(type, note, 1)'
                          <=> Wrote(type, note, 1) \/ (type = about /\ note = why)
<1>1. log' = log => \A type, note : Wrote(type, note, 1)' <=> Wrote(type, note, 1)
  BY DEF Wrote
<1>2. ASSUME NEW about, NEW why, log' = Append(log, OfTheSession(about, why)),
             NEW type, NEW note
      PROVE  Wrote(type, note, 1)' <=> Wrote(type, note, 1)
  BY <1>2, WroteGrows DEF OfTheSession
<1>3. ASSUME NEW about, NEW why, log' = Append(log, OfTheStep(about, why)),
             NEW type, NEW note
      PROVE  Wrote(type, note, 1)' <=> Wrote(type, note, 1) \/ (type = about /\ note = why)
  BY <1>3, WroteGrows DEF OfTheStep
<1> QED BY <1>1, <1>2, <1>3

\* What both turns write on their course is a prompt and its failure.
LEMMA CourseWrites ==
    ASSUME TurnInv, Course
    PROVE  \A type, note :
               Wrote(type, note, 1)'
                   <=> \/ Wrote(type, note, 1)
                       \/ pc = "prompt" /\ pc' = "waiting" /\ type = "PROMPT_SENT" /\ note = "none"
                       \/ /\ pc = "waiting" /\ pc' = "unavailable"
                          /\ type = "VERIFICATION_FAIL" /\ note = "adapter"
<1>1. SessionTypeOK
  BY DEF TurnInv, SessionInv
<1>2. CASE log' = log /\ ~ (pc = "prompt" /\ pc' = "waiting") /\ ~ (pc = "waiting" /\ pc' = "unavailable")
  BY <1>1, <1>2, StepWrites
<1>3. CASE /\ pc \in {"unopened", "closing"}
           /\ \E about, why : log' = Append(log, OfTheSession(about, why))
  BY <1>1, <1>3, StepWrites
<1>4. CASE pc = "prompt" /\ pc' = "waiting" /\ log' = Append(log, OfTheStep("PROMPT_SENT", "none"))
  <2>1. \A type, note : Wrote(type, note, 1)'
            <=> Wrote(type, note, 1) \/ (type = "PROMPT_SENT" /\ note = "none")
    BY <1>1, <1>4, StepWrites
  <2> QED BY <1>4, <2>1
<1>5. CASE /\ pc = "waiting" /\ pc' = "unavailable"
           /\ log' = Append(log, OfTheStep("VERIFICATION_FAIL", "adapter"))
  <2>1. \A type, note : Wrote(type, note, 1)'
            <=> Wrote(type, note, 1) \/ (type = "VERIFICATION_FAIL" /\ note = "adapter")
    BY <1>1, <1>5, StepWrites
  <2> QED BY <1>5, <2>1
<1> QED BY <1>2, <1>3, <1>4, <1>5 DEF Course

(***************************************************************************)
(* The triage turn's steps keep its books.                                 *)
(***************************************************************************)

\* What it shares with the other turn leaves the queue alone.
LEMMA TriageOnCourse ==
    ASSUME TurnInv, OneStep, TriageBooks, Course, pc = "loop" => pc' = "approved",
           UNCHANGED triageVars
    PROVE  TriageBooks'
<1>1. /\ Delivered /\ TriageTraced /\ Grounded
      /\ UNCHANGED <<queue, delivered, said>>
      /\ "none" \notin CloseReasons
  BY DEF TriageBooks, triageVars, CloseReasons, Completed, OutOfTokens, OutOfSteps, Abort,
         DispatchError
<1>2. ~ Fresh /\ ~ Fresh'
  BY DEF Course, Fresh
<1>3. Delivered'
  BY <1>1 DEF Course, Delivered, InAttempt, Over
<1>4. Judged' <=> Judged
  BY <1>1 DEF Course, Judged, OneStep, Over
<1>5. pc' = "accepted" \/ (pc' \in Over /\ delivered' /\ broke' = "none")
          <=> pc = "accepted" \/ (pc \in Over /\ delivered /\ broke = "none")
  BY <1>1 DEF Course, OneStep, Over
<1>6. /\ Wrote("VERIFICATION_PASS", "gate", 1)' <=> Wrote("VERIFICATION_PASS", "gate", 1)
      /\ Wrote("OUTPUT_PROPOSED", "queue", 1)' <=> Wrote("OUTPUT_PROPOSED", "queue", 1)
      /\ Wrote("VERIFICATION_PASS", "rationales", 1)' <=> Wrote("VERIFICATION_PASS", "rationales", 1)
      /\ Wrote("PROMPT_SENT", "none", 1)' => Wrote("PROMPT_SENT", "none", 1) \/ pc = "prompt"
  BY CourseWrites
<1>7. pc = "prompt" => delivered
  BY <1>1 DEF Delivered, InAttempt
<1>8. TriageTraced'
  BY <1>1, <1>2, <1>4, <1>5, <1>6, <1>7 DEF TriageTraced
<1>9. Grounded'
  BY <1>1, <1>4 DEF Grounded, Accepted, ResolvableFor
<1> QED BY <1>3, <1>8, <1>9 DEF TriageBooks

\* Building the queue.
LEMMA TriageActs ==
    ASSUME TurnInv, OneStep, TriageBooks, RunAct, UNCHANGED triageVars
    PROVE  TriageBooks'
<1>1. /\ Delivered /\ TriageTraced /\ Grounded /\ SessionTypeOK
      /\ UNCHANGED <<queue, delivered, said>>
      /\ pc \in {"approved", "dispatching"} /\ pc' = "dispatching"
  BY ActGoesTheCourse DEF TriageBooks, triageVars, TurnInv, SessionInv
<1>2. ~ delivered /\ ~ Judged /\ pc \notin Over
  BY <1>1 DEF Delivered, Judged, Over
<1>3. Delivered' /\ ~ Judged'
  BY <1>1, <1>2 DEF Delivered, Judged, InAttempt, Over
<1>4. Grounded'
  BY <1>1, <1>2 DEF Grounded
<1>5. CASE log' = log /\ (Fresh' <=> Fresh)
  <2>1. \A type, note : Wrote(type, note, 1)' <=> Wrote(type, note, 1)
    BY <1>1, <1>5, StepWrites
  <2>2. TriageTraced'
    BY <1>1, <1>2, <1>5, <2>1 DEF TriageTraced, Over
  <2> QED BY <1>3, <1>4, <2>2 DEF TriageBooks
<1>6. ASSUME ~ Fresh, NEW type \in DispatchEvents, NEW note \in DispatchNotes,
             log' = Append(log, OfTheStep(type, note)),
             type = "VERIFICATION_PASS" => note = "gate",
             Fresh' <=> type = "VERIFICATION_PASS" /\ note = "gate"
      PROVE  TriageBooks'
  <2>1. \A t, n : Wrote(t, n, 1)' <=> Wrote(t, n, 1) \/ (t = type /\ n = note)
    BY <1>1, <1>6, StepWrites
  <2>2. /\ Wrote("VERIFICATION_PASS", "gate", 1)' <=> Fresh'
        /\ Wrote("PROMPT_SENT", "none", 1)' <=> Wrote("PROMPT_SENT", "none", 1)
        /\ Wrote("OUTPUT_PROPOSED", "queue", 1)' <=> Wrote("OUTPUT_PROPOSED", "queue", 1)
        /\ Wrote("VERIFICATION_PASS", "rationales", 1)'
               <=> Wrote("VERIFICATION_PASS", "rationales", 1)
    BY <1>1, <1>2, <1>6, <2>1 DEF TriageTraced, DispatchEvents
  <2>3. TriageTraced'
    BY <1>1, <1>2, <2>2 DEF TriageTraced, Over
  <2> QED BY <1>3, <1>4, <2>3 DEF TriageBooks
<1> QED BY <1>5, <1>6, ActGoesTheCourse

\* Taking the queue, or doing without.
LEMMA TriageTakesTheQueue ==
    ASSUME TurnInv, OneStep, TriageBooks, QueueBuilt
    PROVE  TriageBooks'
<1>1. /\ Delivered /\ TriageTraced /\ Grounded /\ SessionTypeOK
      /\ pc = "dispatching" /\ (Fresh <=> Executed)
      /\ said' = said
  BY ActEnds DEF TriageBooks, QueueBuilt, ActReturned, TurnInv, SessionInv
<1>2. ~ delivered /\ ~ Judged
  BY <1>1 DEF Delivered, Judged, Over
<1>3. CASE Executed
  <2>1. /\ queue' = RankedQueue /\ delivered' = TRUE /\ pc' = "prompt" /\ log' = log
    BY <1>1, <1>3 DEF QueueBuilt, Go, sessionVars, chainVars
  <2>2. \A type, note : Wrote(type, note, 1)' <=> Wrote(type, note, 1)
    BY <1>1, <2>1, StepWrites
  <2>3. TriageTraced'
    BY <1>1, <1>2, <1>3, <2>1, <2>2 DEF TriageTraced, Over, Fresh
  <2>4. Grounded'
    <3>1. \A r \in DOMAIN RankedQueue :
              /\ RankedQueue[r] = [case |-> RankedQueue[r].case,
                                   subject |-> RankedQueue[r].subject,
                                   rationale |-> RankedQueue[r].rationale]
              /\ RankedQueue[r].rationale = FALSE
      BY DEF RankedQueue
    <3> HIDE DEF RankedQueue
    <3> QED BY <2>1, <3>1 DEF Grounded
  <2> QED BY <2>1, <2>3, <2>4 DEF TriageBooks, Delivered, InAttempt, Over
<1>4. CASE ~ Executed
  <2>1. /\ pc' = "ended" /\ broke' = DispatchError /\ UNCHANGED <<log, queue, delivered>>
    BY <1>4 DEF QueueBuilt, NoQueue, BackToOpen, chainVars
  <2>2. \A type, note : Wrote(type, note, 1)' <=> Wrote(type, note, 1)
    BY <1>1, <2>1, StepWrites
  <2>3. TriageTraced'
    BY <1>1, <1>2, <1>4, <2>1, <2>2 DEF TriageTraced, Over, Fresh
  <2>4. Grounded'
    BY <1>1, <1>2, <2>1 DEF Grounded
  <2> QED BY <1>1, <1>2, <2>1, <2>3, <2>4 DEF TriageBooks, Delivered, InAttempt, Over
<1> QED BY <1>3, <1>4

\* Reading what the agent says, and judging it row by row.
LEMMA TriageJudges ==
    ASSUME TurnInv, OneStep, TriageBooks, RationalesRead \/ RationalesChecked
    PROVE  TriageBooks'
<1>1. /\ Delivered /\ TriageTraced /\ Grounded /\ SessionTypeOK
      /\ steps[Agent] = 1
  BY DEF TriageBooks, TurnInv, SessionInv, OneStep, RationalesRead, RationalesChecked
<1>2. /\ pc \in {"checking", "reviewing"} /\ delivered /\ delivered' = delivered
      /\ ~ Judged /\ ~ Fresh
  BY <1>1 DEF RationalesRead, RationalesChecked, Delivered, InAttempt, Judged, Over, Fresh
<1>3. CASE RationalesRead
  <2>1. pc' = "reviewing" /\ UNCHANGED <<log, queue>>
    BY <1>3 DEF RationalesRead, Go, allDispatchVars, sessionVars, chainVars
  <2>2. \A type, note : Wrote(type, note, 1)' <=> Wrote(type, note, 1)
    BY <1>1, <2>1, StepWrites
  <2>3. TriageTraced'
    BY <1>1, <1>2, <2>1, <2>2 DEF TriageTraced, Over, Fresh
  <2>4. Grounded'
    BY <1>1, <1>2, <2>1 DEF Grounded
  <2> QED BY <1>2, <2>1, <2>3, <2>4 DEF TriageBooks, Delivered, InAttempt, Over
<1>4. CASE RationalesChecked
  <2> DEFINE type == IF AllPassed THEN "VERIFICATION_PASS" ELSE "VERIFICATION_FAIL"
  <2>1. /\ pc = "reviewing" /\ pc' = "judged" /\ said' = said
        /\ queue' = [r \in DOMAIN queue |->
                         [queue[r] EXCEPT !.rationale = Accepted(queue[r].case)]]
        /\ log' = Append(log, Entry(type, Agent, "rationales"))
    BY <1>4 DEF RationalesChecked, Go, AppendEvent, Record
  <2>2. Entry(type, Agent, "rationales") = OfTheStep(type, "rationales")
    BY <1>1, TurnAssumption DEF Entry, OfTheStep
  <2>3. type = "VERIFICATION_PASS" <=> AllPassed
    OBVIOUS
  <2> HIDE DEF type
  <2>4. \A t, n : Wrote(t, n, 1)' <=> Wrote(t, n, 1) \/ (t = type /\ n = "rationales")
    BY <1>1, <2>1, <2>2, StepWrites
  <2>5. /\ Wrote("VERIFICATION_PASS", "gate", 1)' <=> Wrote("VERIFICATION_PASS", "gate", 1)
        /\ Wrote("PROMPT_SENT", "none", 1)' <=> Wrote("PROMPT_SENT", "none", 1)
        /\ Wrote("OUTPUT_PROPOSED", "queue", 1)' <=> Wrote("OUTPUT_PROPOSED", "queue", 1)
        /\ Wrote("VERIFICATION_PASS", "rationales", 1)'
               <=> Wrote("VERIFICATION_PASS", "rationales", 1) \/ AllPassed
    BY <2>3, <2>4
  <2>6. /\ DOMAIN queue' = DOMAIN queue
        /\ \A r \in DOMAIN queue :
               queue'[r] = [case |-> queue[r].case, subject |-> queue[r].subject,
                            rationale |-> Accepted(queue[r].case)]
    <3>1. \A r \in DOMAIN queue : queue[r] = [case |-> queue[r].case, subject |-> queue[r].subject,
                                             rationale |-> queue[r].rationale]
      BY <1>1 DEF Grounded
    <3> QED BY <2>1, <3>1
  <2>7. AllPassed => \A r \in DOMAIN queue' : queue'[r].rationale
    BY <2>6 DEF AllPassed, Cases
  <2>8. Judged'
    BY <2>1 DEF Judged
  <2>9. TriageTraced'
    BY <1>1, <1>2, <2>1, <2>5, <2>7, <2>8 DEF TriageTraced, Over, Fresh
  <2>10. \A case : Accepted(case)' <=> Accepted(case)
    BY <2>1 DEF Accepted, ResolvableFor
  <2>11. Grounded'
    BY <2>6, <2>8, <2>10 DEF Grounded
  <2> QED BY <1>2, <2>1, <2>9, <2>11 DEF TriageBooks, Delivered, InAttempt, Over
<1> QED BY <1>3, <1>4

\* Proposing the queue and ending the turn.
LEMMA TriageProposes ==
    ASSUME TurnInv, OneStep, TriageBooks, QueueProposed
    PROVE  TriageBooks'
<1>1. /\ Delivered /\ TriageTraced /\ Grounded /\ SessionTypeOK
      /\ steps[Agent] = 1 /\ broke = "none" /\ broke' = broke
      /\ UNCHANGED <<queue, delivered, said>>
  BY DEF TriageBooks, TurnInv, SessionInv, OneStep, QueueProposed, Over, Go, triageVars
<1>2. delivered /\ pc \in {"judged", "accepted"} /\ pc' \in {"accepted", "ended"}
  BY <1>1 DEF QueueProposed, Delivered, InAttempt, Go
<1>3. Judged /\ Judged' /\ ~ Fresh /\ ~ Fresh'
  BY <1>1, <1>2 DEF Judged, Over, Fresh
<1>4. Grounded'
  BY <1>1, <1>3 DEF Grounded, Accepted, ResolvableFor
<1>5. Delivered'
  BY <1>1, <1>2 DEF Delivered, InAttempt, Over
<1>6. CASE pc = "judged"
  <2>1. log' = Append(log, OfTheStep("OUTPUT_PROPOSED", "queue")) /\ pc' = "accepted"
    BY <1>1, <1>6, TurnAssumption
    DEF QueueProposed, AppendEvent, Record, Go, Entry, OfTheStep
  <2>2. \A t, n : Wrote(t, n, 1)' <=> Wrote(t, n, 1) \/ (t = "OUTPUT_PROPOSED" /\ n = "queue")
    BY <1>1, <2>1, StepWrites
  <2>3. TriageTraced'
    BY <1>1, <1>2, <1>3, <2>1, <2>2 DEF TriageTraced
  <2> QED BY <1>4, <1>5, <2>3 DEF TriageBooks
<1>7. CASE pc = "accepted"
  <2>1. log' = log /\ pc' = "ended"
    BY <1>7 DEF QueueProposed, BackToOpen, chainVars, Go
  <2>2. \A t, n : Wrote(t, n, 1)' <=> Wrote(t, n, 1)
    BY <1>1, <2>1, StepWrites
  <2>3. TriageTraced'
    BY <1>1, <1>2, <1>3, <1>7, <2>1, <2>2 DEF TriageTraced, Over
  <2> QED BY <1>4, <1>5, <2>3 DEF TriageBooks
<1> QED BY <1>2, <1>6, <1>7

\* Steps that leave the turn alone leave the books alone.
LEMMA TriageStands ==
    ASSUME TriageBooks, UNCHANGED <<log, steps, turnVars, triageVars>>
    PROVE  TriageBooks'
<1>1. UNCHANGED <<log, steps, pc, broke, queue, delivered, said>>
  BY DEF turnVars, triageVars
<1>2. /\ \A type, note : Wrote(type, note, 1)' <=> Wrote(type, note, 1)
      /\ Fresh' <=> Fresh
  BY <1>1 DEF Wrote, Fresh, At
<1>3. Judged' <=> Judged
  BY <1>1 DEF Judged
<1>4. Delivered'
  BY <1>1 DEF TriageBooks, Delivered
<1>5. TriageTraced'
  BY <1>1, <1>2, <1>3 DEF TriageBooks, TriageTraced
<1>6. Grounded'
  BY <1>1, <1>3 DEF TriageBooks, Grounded, Accepted, ResolvableFor
<1> QED BY <1>4, <1>5, <1>6 DEF TriageBooks

\* So the books are kept.
LEMMA TriageKeepsBooks ==
    ASSUME TurnInv, OneStep, TriageBooks, kind = "triage", [SingleNext]_singleVars
    PROVE  TriageBooks'
<1>1. ASSUME TriageStep
      PROVE  TriageBooks'
  <2>1. CASE (\/ OpenSession \/ BeginTriage \/ AskModel \/ ModelResponds \/ ModelUnavailable
              \/ CloseSession) /\ UNCHANGED triageVars
    <3>1. Course
      BY <2>1, SharedStepsGoTheCourse DEF BeginTriage
    <3>2. pc = "loop" => pc' = "approved"
      <4> SUFFICES ASSUME pc = "loop" PROVE pc' = "approved"
        OBVIOUS
      <4>1. MoreAttempts /\ TurnCheck(Agent, 0) = Granted
        BY FirstIsGranted DEF TurnInv, SessionInv
      <4> QED BY <2>1, <4>1
              DEF OpenSession, BeginTriage, BeginAttemptAt, BeginTurn, AskModel, ModelResponds,
                  ModelUnavailable, CloseSession, TurnEnded
    <3> QED BY <2>1, <3>1, <3>2, TriageOnCourse
  <2> QED BY <1>1, <2>1, TriageActs, TriageTakesTheQueue, TriageJudges, TriageProposes
          DEF TriageStep
<1>2. CASE Publish \/ UNCHANGED singleVars
            \/ (Crash /\ UNCHANGED <<dispatchVars, turnVars, triageVars, evalVars, runnerVars>>)
  <2>1. UNCHANGED <<log, steps, turnVars, triageVars>>
    BY <1>2 DEF Publish, Crash, singleVars, sessionTurnVars, allDispatchVars, sessionVars,
                chainVars, budgetVars
  <2> QED BY <2>1, TriageStands
<1> QED BY <1>1, <1>2 DEF SingleNext, SingleStep

(***************************************************************************)
(* Grading.                                                                *)
(***************************************************************************)

\* What is read off the answers changes only with them.
LEMMA GradesStand ==
    ASSUME UNCHANGED answers
    PROVE  /\ \A v : MacroF1(v)' = MacroF1(v) /\ UnansweredBy(v)' = UnansweredBy(v)
                     /\ Silent(v)' = Silent(v)
           /\ \A class : Change(class)' = Change(class) /\ WorstResample(class)' = WorstResample(class)
           /\ Given' = Given
<1>1. \A v, class : Hits(v, class)' = Hits(v, class)
  BY DEF Hits
<1>2. \A v, class : PredictedAs(v, class)' = PredictedAs(v, class)
  BY DEF PredictedAs
<1>3. \A v, class : F1(v, class)' = F1(v, class)
  BY <1>1, <1>2 DEF F1
<1>4. \A v : MacroF1(v)' = MacroF1(v)
  BY <1>3 DEF MacroF1
<1>5. \A v : UnansweredBy(v)' = UnansweredBy(v) /\ Silent(v)' = Silent(v)
  BY DEF UnansweredBy, Silent
<1>6. \A class : Lost(class)' = Lost(class) /\ Gained(class)' = Gained(class)
  BY <1>1 DEF Lost, Gained
<1>7. \A class : Change(class)' = Change(class) /\ WorstResample(class)' = WorstResample(class)
  BY <1>6 DEF Change, WorstResample
<1>8. Given' = Given
  BY DEF Given, GivenBy
<1> QED BY <1>4, <1>5, <1>7, <1>8

\* Sets of items are finite, and a class that is measured has some.
LEMMA ItemsAreFinite ==
    /\ \A class : Support(class) \in Nat /\ IsFiniteSet(ItemsOf(class))
    /\ \A class \in Measured : Support(class) > 0
    /\ \A T \in SUBSET EvalItems : IsFiniteSet(T) /\ Cardinality(T) \in Nat
    /\ \A v, class : Cardinality(Hits(v, class)) \in Nat /\ Cardinality(PredictedAs(v, class)) \in Nat
<1>1. \A T \in SUBSET EvalItems : IsFiniteSet(T) /\ Cardinality(T) \in Nat
  BY PlacesAreFinite, EvalAssumption DEF EvalItems
<1>2. \A v, class : /\ ItemsOf(class) \subseteq EvalItems
                    /\ Hits(v, class) \subseteq EvalItems
                    /\ PredictedAs(v, class) \subseteq EvalItems
  BY DEF ItemsOf, Hits, PredictedAs
<1>3. \A class \in Measured : Cardinality(ItemsOf(class)) > 0
  <2> TAKE class \in Measured
  <2>1. ItemsOf(class) # {} /\ IsFiniteSet(ItemsOf(class)) /\ Cardinality(ItemsOf(class)) \in Nat
    BY <1>1, <1>2 DEF Measured
  <2>2. Cardinality(ItemsOf(class)) # 0
    BY <2>1, FS_EmptySet
  <2> QED BY <2>1, <2>2
<1> QED BY <1>1, <1>2, <1>3 DEF Support

\* Macro F1 is a count.
LEMMA MacroF1IsCount ==
    ASSUME NEW v
    PROVE  MacroF1(v) \in Nat
<1> DEFINE points == [class \in Measured |-> {class} \X (1 .. F1(v, class))]
           Points == {{class} \X (1 .. F1(v, class)) : class \in Measured}
<1>1. \A class \in Measured : F1(v, class) \in Int
  <2> TAKE class \in Measured
  <2>1. /\ Support(class) + Cardinality(PredictedAs(v, class)) \in Nat \ {0}
        /\ 2 * Cardinality(Hits(v, class)) * Scale \in Nat
    BY ItemsAreFinite, EvalAssumption
  <2> QED BY <2>1 DEF F1
<1>2. IsFiniteSet(Measured)
  <2>1. Measured \subseteq Classes
    BY DEF Measured
  <2> QED BY <2>1, EvalAssumption, FS_Subset
<1>3. \A class \in Measured : IsFiniteSet({class} \X (1 .. F1(v, class)))
  <2> TAKE class \in Measured
  <2>1. 1 \in Int /\ F1(v, class) \in Int
    BY <1>1
  <2>2. IsFiniteSet(1 .. F1(v, class))
    BY <2>1, FS_Interval
  <2>3. IsFiniteSet({class})
    BY FS_Singleton
  <2> QED BY <2>2, <2>3, FS_Product
<1>4. IsFiniteSet(Points)
  <2>1. points \in Surjection(Measured, Points)
    BY DEF Surjection
  <2> QED BY <1>2, <2>1, FS_Surjection
<1>5. IsFiniteSet(UNION Points)
  <2>1. \A T \in Points : IsFiniteSet(T)
    BY <1>3
  <2> QED BY <1>4, <2>1, FS_UNION
<1> QED BY <1>5, FS_CardinalityType DEF MacroF1

\* Once every item was asked twice, the answers of a version are the items'.
LEMMA AnswersAreTheItems ==
    ASSUME Paired, asked = 2 * ItemCount, NEW v \in Versions
    PROVE  /\ Len(answers[v]) = ItemCount /\ DOMAIN answers[v] = EvalItems
           /\ Silent(v) = UnansweredBy(v)
           /\ bad[v] = Cardinality(UnansweredBy(v)) /\ bad[v] \in Nat
<1>1. ItemCount \in Nat \ {0}
  BY EvalAssumption
<1>2. Len(answers["incumbent"]) = ItemCount /\ Len(answers["candidate"]) = ItemCount
  BY <1>1 DEF Paired
<1>3. Len(answers[v]) = ItemCount
  BY <1>2 DEF Versions
<1>4. answers[v] \in Seq(Classes \cup {Unanswered})
  BY DEF Paired
<1>5. DOMAIN answers[v] = EvalItems
  BY <1>3, <1>4 DEF EvalItems
<1>6. Silent(v) = UnansweredBy(v)
  BY <1>5 DEF Silent, UnansweredBy
<1> QED BY <1>3, <1>5, <1>6 DEF Paired

\* What the decision is worth: each half of the property.
LEMMA DecisionIsJust ==
    ASSUME Paired, Fair, asked = 2 * ItemCount, evalReport # NoEvalReport
    PROVE  /\ Decide(evalReport) \in {"activatable", "refused"}
           /\ Decide(evalReport) = "activatable" =>
               /\ \A class \in Measured :
                      - Change(class) * RecallDrop[2] <= RecallDrop[1] * Support(class)
               /\ Cardinality(UnansweredBy("candidate")) <= MaxUnparseable
           /\ Decide(evalReport) = "refused" =>
               \/ answers["candidate"] # answers["incumbent"]
               \/ Cardinality(UnansweredBy("candidate")) > MaxUnparseable
<1>1. /\ MaxUnparseable \in Nat /\ Scale \in Nat
      /\ RecallDrop[1] \in Nat /\ RecallDrop[2] \in Nat \ {0}
      /\ MacroDrop[1] \in Nat /\ MacroDrop[2] \in Nat \ {0}
  BY EvalAssumption
<1>2. /\ evalReport.bad["candidate"] = Cardinality(UnansweredBy("candidate"))
      /\ Cardinality(UnansweredBy("candidate")) \in Nat
  BY AnswersAreTheItems DEF Fair, Versions
<1>3. \A class : /\ Cardinality(Gained(class)) \in Nat /\ Cardinality(Lost(class)) \in Nat
                 /\ Change(class) \in Int
  <2> TAKE class
  <2>1. Gained(class) \subseteq EvalItems /\ Lost(class) \subseteq EvalItems
    BY DEF Gained, Lost, Hits, ItemsOf
  <2>2. Cardinality(Gained(class)) \in Nat /\ Cardinality(Lost(class)) \in Nat
    BY <2>1, ItemsAreFinite
  <2> QED BY <2>2 DEF Change
<1>4. \A class \in Measured :
          /\ Support(class) \in Nat /\ WorstResample(class) \in Int
          /\ evalReport.lower[class] \in Int /\ evalReport.lower[class] <= Change(class)
          /\ WorstResample(class) <= evalReport.lower[class]
  <2> TAKE class \in Measured
  <2>1. Support(class) \in Nat
    BY ItemsAreFinite
  <2>2. WorstResample(class) \in Int
    BY <2>1 DEF WorstResample
  <2>3. evalReport.lower[class] \in WorstResample(class) .. Change(class)
    BY DEF Fair
  <2> QED BY <1>3, <2>1, <2>2, <2>3
<1>5. Decide(evalReport) \in {"activatable", "refused"}
  BY DEF Decide
<1>6. ASSUME Decide(evalReport) = "activatable"
      PROVE  /\ \A class \in Measured :
                    - Change(class) * RecallDrop[2] <= RecallDrop[1] * Support(class)
             /\ Cardinality(UnansweredBy("candidate")) <= MaxUnparseable
  <2>1. ~ ContractBroken(evalReport) /\ \A class \in Measured : ~ RecallBreached(evalReport, class)
    BY <1>6 DEF Decide
  <2>2. Cardinality(UnansweredBy("candidate")) <= MaxUnparseable
    BY <1>1, <1>2, <2>1 DEF ContractBroken
  <2>3. ASSUME NEW class \in Measured
        PROVE  - Change(class) * RecallDrop[2] <= RecallDrop[1] * Support(class)
    <3>1. ~ (evalReport.lower[class] * RecallDrop[2] < - RecallDrop[1] * Support(class))
      BY <2>1, <2>3 DEF RecallBreached
    <3>2. \A m, n \in Int, d \in Nat : m <= n => m * d <= n * d
      OBVIOUS
    <3>3. evalReport.lower[class] * RecallDrop[2] <= Change(class) * RecallDrop[2]
      BY <1>1, <1>3, <1>4, <2>3, <3>2
    <3>4. \A l, c, d, e, s \in Int :
              ~ (l * d < - e * s) /\ l * d <= c * d => - c * d <= e * s
      OBVIOUS
    <3> QED BY <1>1, <1>3, <1>4, <2>3, <3>1, <3>3, <3>4
  <2> QED BY <2>2, <2>3
<1>7. ASSUME Decide(evalReport) = "refused", answers["candidate"] = answers["incumbent"]
      PROVE  Cardinality(UnansweredBy("candidate")) > MaxUnparseable
  <2>1. \A class : Hits("candidate", class) = Hits("incumbent", class)
                   /\ PredictedAs("candidate", class) = PredictedAs("incumbent", class)
    BY <1>7 DEF Hits, PredictedAs
  <2>2. MacroF1("candidate") = MacroF1("incumbent")
    <3>1. \A class : F1("candidate", class) = F1("incumbent", class)
      BY <2>1 DEF F1
    <3> QED BY <3>1 DEF MacroF1
  <2>3. ~ MacroBreached(evalReport)
    <3>1. /\ evalReport.macro["candidate"] = MacroF1("candidate")
          /\ evalReport.macro["incumbent"] = MacroF1("candidate")
          /\ MacroF1("candidate") \in Nat
      BY <2>2, MacroF1IsCount DEF Fair, Versions
    <3>2. Cardinality(Measured) \in Nat
      <4>1. Measured \subseteq Classes
        BY DEF Measured
      <4> QED BY <4>1, EvalAssumption, FS_Subset, FS_CardinalityType
    <3>3. \A m, d, e, s, c \in Nat : ~ ((m - m) * d < - e * s * c)
      <4>1. \A e, s, c \in Nat : e * s * c \in Nat
        OBVIOUS
      <4> QED BY <4>1
    <3> QED BY <1>1, <3>1, <3>2, <3>3 DEF MacroBreached
  <2>4. ASSUME NEW class \in Measured
        PROVE  ~ RecallBreached(evalReport, class)
    <3>1. Lost(class) = {} /\ Gained(class) = {} /\ ItemsOf(class) # {}
      BY <2>1, <2>4 DEF Lost, Gained, Measured
    <3>2. Change(class) = 0 /\ WorstResample(class) = 0
      BY <3>1, FS_EmptySet DEF Change, WorstResample
    <3>3. evalReport.lower[class] = 0 /\ Support(class) \in Nat
      BY <1>4, <2>4, <3>2
    <3>4. \A d, e, s \in Nat : ~ (0 * d < - e * s)
      OBVIOUS
    <3> QED BY <1>1, <3>3, <3>4 DEF RecallBreached
  <2>5. ContractBroken(evalReport)
    BY <1>7, <2>3, <2>4 DEF Decide
  <2> QED BY <1>1, <1>2, <2>5 DEF ContractBroken
<1> QED BY <1>5, <1>6, <1>7

(***************************************************************************)
(* Counting prompts, failures and answers.                                 *)
(***************************************************************************)

\* An entry is counted under its type and note.
LEMMA EntriesCounted ==
    ASSUME SessionTypeOK, NEW type, NEW note
    PROVE  /\ Cardinality(EntriesOf(type, note)) \in Nat
           /\ log' = log =>
                  Cardinality(EntriesOf(type, note))' = Cardinality(EntriesOf(type, note))
           /\ \A entry : log' = Append(log, entry) =>
                  Cardinality(EntriesOf(type, note))'
                      = Cardinality(EntriesOf(type, note))
                            + One(entry.type = type /\ entry.note = note)
<1>1. /\ Len(log) \in Nat /\ DOMAIN log = 1 .. Len(log)
      /\ EntriesOf(type, note) \subseteq 1 .. Len(log)
  BY DEF SessionTypeOK, EntriesOf
<1>2. IsFiniteSet(EntriesOf(type, note)) /\ Cardinality(EntriesOf(type, note)) \in Nat
  BY <1>1, PlacesAreFinite
<1>3. log' = log => EntriesOf(type, note)' = EntriesOf(type, note)
  BY DEF EntriesOf
<1>4. ASSUME NEW entry, log' = Append(log, entry)
      PROVE  Cardinality(EntriesOf(type, note))'
                 = Cardinality(EntriesOf(type, note)) + One(entry.type = type /\ entry.note = note)
  <2>1. /\ DOMAIN log' = 1 .. Len(log) + 1 /\ log'[Len(log) + 1] = entry
        /\ \A i \in 1 .. Len(log) : log'[i] = log[i]
    BY <1>1, <1>4 DEF SessionTypeOK
  <2>2. CASE entry.type = type /\ entry.note = note
    <3>1. EntriesOf(type, note)' = EntriesOf(type, note) \cup {Len(log) + 1}
      BY <1>1, <2>1, <2>2 DEF EntriesOf
    <3>2. Len(log) + 1 \notin EntriesOf(type, note)
      BY <1>1
    <3>3. Cardinality(EntriesOf(type, note))' = Cardinality(EntriesOf(type, note)) + 1
      BY <1>2, <3>1, <3>2, FS_AddElement
    <3>4. One(entry.type = type /\ entry.note = note) = 1
      BY <2>2 DEF One
    <3> QED BY <3>3, <3>4
  <2>3. CASE ~ (entry.type = type /\ entry.note = note)
    <3>1. EntriesOf(type, note)' = EntriesOf(type, note)
      BY <1>1, <2>1, <2>3 DEF EntriesOf
    <3>2. One(entry.type = type /\ entry.note = note) = 0
      BY <2>3 DEF One
    <3> QED BY <1>2, <3>1, <3>2
  <2> QED BY <2>2, <2>3
<1> QED BY <1>2, <1>3, <1>4

\* There are only so many answers.
LEMMA AnswersAreFinite ==
    ASSUME Paired
    PROVE  /\ IsFiniteSet(Given) /\ Cardinality(Given) \in Nat
           /\ \A v \in Versions : IsFiniteSet(Silent(v)) /\ Cardinality(Silent(v)) \in Nat
<1>1. \A v \in Versions : /\ Len(answers[v]) \in Nat
                          /\ DOMAIN answers[v] = 1 .. Len(answers[v])
  BY DEF Paired
<1>2. \A v \in Versions : IsFiniteSet(Silent(v)) /\ Cardinality(Silent(v)) \in Nat
  <2> TAKE v \in Versions
  <2>1. Silent(v) \subseteq 1 .. Len(answers[v])
    BY <1>1 DEF Silent
  <2> QED BY <1>1, <2>1, PlacesAreFinite
<1>3. \A v \in Versions : IsFiniteSet(GivenBy(v))
  <2> TAKE v \in Versions
  <2>1. IsFiniteSet(1 .. Len(answers[v]))
    BY <1>1, PlacesAreFinite
  <2>2. IsFiniteSet({v})
    BY FS_Singleton
  <2>3. IsFiniteSet({v} \X (1 .. Len(answers[v])))
    BY <2>1, <2>2, FS_Product
  <2>4. GivenBy(v) \subseteq {v} \X (1 .. Len(answers[v]))
    BY <1>1 DEF GivenBy
  <2> QED BY <2>3, <2>4, FS_Subset
<1>4. IsFiniteSet(Given)
  BY <1>3, FS_Union DEF Given, Versions
<1> QED BY <1>2, <1>4, FS_CardinalityType

\* An item classified has its place among its version's answers, answered or not.
LEMMA ClassifiedPairs ==
    ASSUME Paired, asked < 2 * ItemCount, pc \in {"checking", "unavailable"},
           NEW answer \in Classes \cup {Unanswered}, Classified(answer)
    PROVE  Paired' /\ Cardinality(Given)' = Cardinality(Given) + One(answer # Unanswered)
<1>0. PICK v \in Versions : v = Asking
  BY DEF Asking, Versions
<1> DEFINE next == Len(answers[v]) + 1
<1>1. /\ ItemCount \in Nat \ {0} /\ asked \in Nat
      /\ asked' = asked + 1 /\ answers' = [answers EXCEPT ![v] = Append(@, answer)]
      /\ bad' = IF answer = Unanswered THEN [bad EXCEPT ![v] = @ + 1] ELSE bad
      /\ pc' = IF asked + 1 = 2 * ItemCount THEN "approved" ELSE "prompt"
  BY <1>0, EvalAssumption DEF Paired, Classified, Proposed
<1>2. /\ answers \in [Versions -> Seq(Classes \cup {Unanswered})]
      /\ answers' \in [Versions -> Seq(Classes \cup {Unanswered})]
      /\ answers'[v] = Append(answers[v], answer)
      /\ \A w \in Versions \ {v} : answers'[w] = answers[w]
  <2>1. answers \in [Versions -> Seq(Classes \cup {Unanswered})]
    BY DEF Paired
  <2>2. Append(answers[v], answer) \in Seq(Classes \cup {Unanswered})
    BY <2>1, AppendProperties
  <2> QED BY <1>1, <2>1, <2>2
<1>3. /\ Len(answers[v]) \in Nat /\ next \in Nat /\ Len(answers'[v]) = next
      /\ DOMAIN answers[v] = 1 .. Len(answers[v]) /\ DOMAIN answers'[v] = 1 .. next
      /\ answers'[v][next] = answer
      /\ \A k \in 1 .. Len(answers[v]) : answers'[v][k] = answers[v][k]
  <2>1. answers[v] \in Seq(Classes \cup {Unanswered})
    BY <1>2
  <2> QED BY <1>2, <2>1, AppendProperties
<1>4. Len(answers["incumbent"]) = (IF asked < ItemCount THEN asked ELSE ItemCount)
      /\ Len(answers["candidate"]) = (IF asked < ItemCount THEN 0 ELSE asked - ItemCount)
  BY DEF Paired
<1>5. /\ asked' \in 0 .. 2 * ItemCount
      /\ Len(answers'["incumbent"]) = (IF asked' < ItemCount THEN asked' ELSE ItemCount)
      /\ Len(answers'["candidate"]) = (IF asked' < ItemCount THEN 0 ELSE asked' - ItemCount)
  <2>1. asked' \in 0 .. 2 * ItemCount
    BY <1>1
  <2>2. CASE asked < ItemCount
    <3>1. /\ v = "incumbent" /\ Len(answers'["incumbent"]) = asked + 1
          /\ Len(answers'["candidate"]) = 0
      BY <1>0, <1>2, <1>3, <1>4, <2>2 DEF Asking, Versions
    <3> QED BY <1>1, <2>1, <2>2, <3>1
  <2>3. CASE ~ (asked < ItemCount)
    <3>1. /\ v = "candidate" /\ Len(answers'["incumbent"]) = ItemCount
          /\ Len(answers'["candidate"]) = asked - ItemCount + 1
      BY <1>0, <1>2, <1>3, <1>4, <2>3 DEF Asking, Versions
    <3> QED BY <1>1, <2>1, <2>3, <3>1
  <2> QED BY <2>2, <2>3
<1>6. \A w \in Versions \ {v} : Silent(w)' = Silent(w) /\ GivenBy(w)' = GivenBy(w)
  BY <1>2 DEF Silent, GivenBy
<1>7. /\ IsFiniteSet(Silent(v)) /\ IsFiniteSet(Given) /\ Cardinality(Given) \in Nat
      /\ next \notin Silent(v) /\ <<v, next>> \notin Given
  <2>1. <<v, next>> \notin GivenBy("incumbent") /\ <<v, next>> \notin GivenBy("candidate")
    BY <1>3 DEF GivenBy
  <2> QED BY <1>1, <1>3, <2>1, AnswersAreFinite DEF Silent, Given
<1>8. CASE answer = Unanswered
  <2>1. Silent(v)' = Silent(v) \cup {next}
    BY <1>3, <1>8 DEF Silent
  <2>2. GivenBy(v)' = GivenBy(v)
    BY <1>3, <1>8 DEF GivenBy
  <2>3. Given' = Given
    BY <1>1, <1>6, <2>2 DEF Given, Versions
  <2>4. Cardinality(Silent(v))' = Cardinality(Silent(v)) + 1
    BY <1>7, <2>1, FS_AddElement
  <2>5. bad' \in [Versions -> Nat] /\ \A w \in Versions : bad'[w] = Cardinality(Silent(w))'
    <3>1. bad \in [Versions -> Nat] /\ \A w \in Versions : bad[w] = Cardinality(Silent(w))
      BY DEF Paired
    <3>2. bad' = [bad EXCEPT ![v] = @ + 1]
      BY <1>1, <1>8
    <3> QED BY <1>1, <1>6, <2>4, <3>1, <3>2
  <2>6. One(answer # Unanswered) = 0
    BY <1>8 DEF One
  <2>7. Cardinality(Given)' = Cardinality(Given) + One(answer # Unanswered)
    BY <1>7, <2>3, <2>6
  <2> QED BY <1>1, <1>2, <1>5, <2>5, <2>7 DEF Paired
<1>9. CASE answer # Unanswered
  <2>1. Silent(v)' = Silent(v)
    BY <1>3, <1>9 DEF Silent
  <2>2. GivenBy(v)' = GivenBy(v) \cup {<<v, next>>}
    BY <1>3, <1>9 DEF GivenBy
  <2>3. Given' = Given \cup {<<v, next>>}
    BY <1>1, <1>6, <2>2 DEF Given, Versions
  <2>4. Cardinality(Given)' = Cardinality(Given) + 1
    BY <1>7, <2>3, FS_AddElement
  <2>5. bad' \in [Versions -> Nat] /\ \A w \in Versions : bad'[w] = Cardinality(Silent(w))'
    <3>1. bad \in [Versions -> Nat] /\ \A w \in Versions : bad[w] = Cardinality(Silent(w))
      BY DEF Paired
    <3> QED BY <1>1, <1>6, <1>9, <2>1, <3>1
  <2>6. One(answer # Unanswered) = 1
    BY <1>9 DEF One
  <2> QED BY <1>1, <1>2, <1>5, <2>4, <2>5, <2>6 DEF Paired
<1> QED BY <1>8, <1>9

(***************************************************************************)
(* The evaluation's steps keep its books.                                  *)
(***************************************************************************)

\* What was found stands as long as the answers, the report and the verdict do.
LEMMA FindingsStand ==
    ASSUME EvalBooks, UNCHANGED evalVars
    PROVE  /\ Fair' /\ VerdictFollowsTheAnswers' /\ Cardinality(Given)' = Cardinality(Given)
           /\ \A v : Silent(v)' = Silent(v)
           /\ UNCHANGED <<asked, answers, bad, evalReport, verdict>>
<1>1. UNCHANGED <<asked, answers, bad, evalReport, verdict>>
  BY DEF evalVars
<1>2. /\ \A v : MacroF1(v)' = MacroF1(v) /\ UnansweredBy(v)' = UnansweredBy(v)
                /\ Silent(v)' = Silent(v)
      /\ \A class : Change(class)' = Change(class) /\ WorstResample(class)' = WorstResample(class)
      /\ Given' = Given
  BY <1>1, GradesStand
<1>3. Fair'
  <2>1. CASE evalReport = NoEvalReport
    BY <1>1, <2>1 DEF Fair
  <2>2. CASE evalReport # NoEvalReport
    <3>1. /\ evalReport.bad = bad
          /\ evalReport.macro = [v \in Versions |-> MacroF1(v)]
          /\ \A class \in Measured :
                 evalReport.lower[class] \in WorstResample(class) .. Change(class)
      BY <2>2 DEF EvalBooks, Fair
    <3>2. [v \in Versions |-> MacroF1(v)]' = [v \in Versions |-> MacroF1(v)]
      BY <1>2
    <3> QED BY <1>1, <1>2, <3>1, <3>2 DEF Fair
  <2> QED BY <2>1, <2>2
<1>4. VerdictFollowsTheAnswers'
  BY <1>1, <1>2 DEF EvalBooks, VerdictFollowsTheAnswers
<1> QED BY <1>1, <1>2, <1>3, <1>4

\* What it shares with the other turn pays for an answer before it comes.
LEMMA EvalOnCourse ==
    ASSUME TurnInv, OneStep, EvalBooks, Course, pc = "loop" => pc' = "prompt",
           pc # "unavailable", UNCHANGED evalVars, UNCHANGED written
    PROVE  EvalBooks'
<1>1. /\ Ruled /\ Filed /\ Paired /\ Paid /\ SessionTypeOK
      /\ UNCHANGED <<asked, answers, bad, evalReport, verdict>>
      /\ Fair' /\ VerdictFollowsTheAnswers' /\ Cardinality(Given)' = Cardinality(Given)
      /\ \A v : Silent(v)' = Silent(v)
  BY FindingsStand DEF EvalBooks, TurnInv, SessionInv
<1>2. ~ Fresh /\ ~ Fresh' /\ pc \notin {"graded", "done"} /\ pc' # "graded"
      /\ (pc \in Over => pc' \in Over)
  BY DEF Course, Fresh, Over
<1>3. Ruled'
  <2>1. /\ Wrote("VERIFICATION_PASS", "verdict", 1)' <=> Wrote("VERIFICATION_PASS", "verdict", 1)
        /\ Wrote("GATE_REJECTION", "verdict", 1)' <=> Wrote("GATE_REJECTION", "verdict", 1)
        /\ Wrote("VERIFICATION_PASS", "gate", 1)' <=> Wrote("VERIFICATION_PASS", "gate", 1)
    BY CourseWrites
  <2> QED BY <1>1, <1>2, <2>1 DEF Ruled
<1>4. Filed'
  BY <1>1, <1>2 DEF Filed
<1>5. Paired'
  <2>1. /\ pc' \in {"unopened", "loop"} => pc = "unopened"
        /\ pc' \in {"prompt", "waiting", "unavailable", "checking"} =>
               pc \in {"loop", "prompt", "waiting"}
        /\ pc' \notin {"unopened", "loop", "prompt", "waiting", "unavailable", "checking"} =>
               pc \in {"ended", "closing"}
    BY DEF Course
  <2>2. 0 < 2 * ItemCount
    BY EvalAssumption
  <2>3. /\ pc = "unopened" => asked = 0
        /\ pc \in {"loop", "prompt", "waiting"} => asked < 2 * ItemCount
        /\ pc \in {"ended", "closing"} => asked = 2 * ItemCount
    BY <1>1, <2>2 DEF Paired
  <2>4. /\ pc' \in {"unopened", "loop"} => asked' = 0
        /\ pc' \in {"prompt", "waiting", "unavailable", "checking"} => asked' < 2 * ItemCount
        /\ pc' \notin {"unopened", "loop", "prompt", "waiting", "unavailable", "checking"} =>
               asked' = 2 * ItemCount
    BY <1>1, <2>1, <2>3
  <2> QED BY <1>1, <2>4 DEF Paired
<1>6. Paid'
  <2> DEFINE P == Cardinality(EntriesOf("PROMPT_SENT", "none"))
             F == Cardinality(EntriesOf("VERIFICATION_FAIL", "adapter"))
             G == Cardinality(Given)
             O == One(pc \in {"waiting", "checking"})
  <2>1. /\ P \in Nat /\ F \in Nat /\ G \in Nat /\ G' = G /\ G + O + F <= P
        /\ O \in {0, 1} /\ O' \in {0, 1}
    BY <1>1, EntriesCounted, AnswersAreFinite DEF Paid, One
  <2>2. \/ P' = P /\ F' = F /\ O' = O
        \/ P' = P + 1 /\ F' = F /\ O' = 1 /\ O = 0
        \/ P' = P /\ F' = F + 1 /\ O = 1 /\ O' = 0
    <3>1. CASE log' = log /\ ~ (pc = "prompt" /\ pc' = "waiting") /\ ~ (pc = "waiting" /\ pc' = "unavailable")
      <4>1. P' = P /\ F' = F
        BY <1>1, <3>1, EntriesCounted
      <4>2. O' = O
        BY <3>1 DEF Course, One
      <4> QED BY <4>1, <4>2
    <3>2. CASE /\ pc \in {"unopened", "closing"} /\ pc' \in {"loop", "done"}
               /\ \E why : \/ log' = Append(log, OfTheSession("SESSION_OPEN", why))
                          \/ log' = Append(log, OfTheSession("SESSION_CLOSE", why))
      <4>1. PICK about, why : /\ about \in {"SESSION_OPEN", "SESSION_CLOSE"}
                               /\ log' = Append(log, OfTheSession(about, why))
        BY <3>2
      <4>2. OfTheSession(about, why).type = about
        BY DEF OfTheSession
      <4>3. /\ P' = P + One(OfTheSession(about, why).type = "PROMPT_SENT"
                               /\ OfTheSession(about, why).note = "none")
            /\ F' = F + One(OfTheSession(about, why).type = "VERIFICATION_FAIL"
                               /\ OfTheSession(about, why).note = "adapter")
        BY <1>1, <4>1, EntriesCounted
      <4>4. P' = P + 0 /\ F' = F + 0
        BY <4>1, <4>2, <4>3 DEF One
      <4>5. O' = O
        BY <3>2 DEF One
      <4> QED BY <2>1, <4>4, <4>5
    <3>3. CASE pc = "prompt" /\ pc' = "waiting" /\ log' = Append(log, OfTheStep("PROMPT_SENT", "none"))
      <4>1. /\ P' = P + One(OfTheStep("PROMPT_SENT", "none").type = "PROMPT_SENT"
                               /\ OfTheStep("PROMPT_SENT", "none").note = "none")
            /\ F' = F + One(OfTheStep("PROMPT_SENT", "none").type = "VERIFICATION_FAIL"
                               /\ OfTheStep("PROMPT_SENT", "none").note = "adapter")
        BY <1>1, <3>3, EntriesCounted
      <4>2. P' = P + 1 /\ F' = F + 0
        BY <4>1 DEF One, OfTheStep
      <4>3. O = 0 /\ O' = 1
        BY <3>3 DEF One
      <4> QED BY <2>1, <4>2, <4>3
    <3>4. CASE /\ pc = "waiting" /\ pc' = "unavailable"
               /\ log' = Append(log, OfTheStep("VERIFICATION_FAIL", "adapter"))
      <4>1. /\ P' = P + One(OfTheStep("VERIFICATION_FAIL", "adapter").type = "PROMPT_SENT"
                               /\ OfTheStep("VERIFICATION_FAIL", "adapter").note = "none")
            /\ F' = F + One(OfTheStep("VERIFICATION_FAIL", "adapter").type = "VERIFICATION_FAIL"
                               /\ OfTheStep("VERIFICATION_FAIL", "adapter").note = "adapter")
        BY <1>1, <3>4, EntriesCounted
      <4>2. P' = P + 0 /\ F' = F + 1
        BY <4>1 DEF One, OfTheStep
      <4>3. O = 1 /\ O' = 0
        BY <3>4 DEF One
      <4> QED BY <2>1, <4>2, <4>3
    <3> QED BY <3>1, <3>2, <3>3, <3>4 DEF Course
  <2> HIDE DEF P, F, G, O
  <2>3. G' + O' + F' <= P'
    BY <2>1, <2>2
  <2> QED BY <2>3 DEF Paid, P, F, G, O
<1> QED BY <1>1, <1>3, <1>4, <1>5, <1>6 DEF EvalBooks

\* Dispatching the grading writes neither a prompt nor a failed call.
LEMMA EvalActs ==
    ASSUME TurnInv, OneStep, EvalBooks, RunAct, UNCHANGED evalVars, UNCHANGED written
    PROVE  EvalBooks'
<1>1. /\ Ruled /\ Filed /\ Paired /\ Paid /\ SessionTypeOK
      /\ UNCHANGED <<asked, answers, bad, evalReport, verdict>>
      /\ Fair' /\ VerdictFollowsTheAnswers' /\ Cardinality(Given)' = Cardinality(Given)
      /\ \A v : Silent(v)' = Silent(v)
      /\ pc \in {"approved", "dispatching"} /\ pc' = "dispatching"
  BY FindingsStand, ActGoesTheCourse DEF EvalBooks, TurnInv, SessionInv
<1>2. /\ verdict = "none" /\ evalReport = NoEvalReport /\ written = <<>>
      /\ (Wrote("VERIFICATION_PASS", "gate", 1) <=> Fresh)
      /\ ~ Wrote("VERIFICATION_PASS", "verdict", 1) /\ ~ Wrote("GATE_REJECTION", "verdict", 1)
  BY <1>1 DEF Ruled, Filed, Over
<1>3. Filed' /\ Paired'
  BY <1>1, <1>2 DEF Filed, Paired
<1>4. CASE log' = log /\ (Fresh' <=> Fresh)
  <2>1. \A type, note : Wrote(type, note, 1)' <=> Wrote(type, note, 1)
    BY <1>1, <1>4, StepWrites
  <2>2. Ruled'
    BY <1>1, <1>2, <1>4, <2>1 DEF Ruled, Over
  <2>3. /\ Cardinality(EntriesOf("PROMPT_SENT", "none"))'
               = Cardinality(EntriesOf("PROMPT_SENT", "none"))
        /\ Cardinality(EntriesOf("VERIFICATION_FAIL", "adapter"))'
               = Cardinality(EntriesOf("VERIFICATION_FAIL", "adapter"))
    BY <1>1, <1>4, EntriesCounted
  <2>4. Paid'
    BY <1>1, <2>3 DEF Paid, One
  <2> QED BY <1>1, <1>3, <2>2, <2>4 DEF EvalBooks
<1>5. ASSUME ~ Fresh, NEW type \in DispatchEvents, NEW note \in DispatchNotes,
             log' = Append(log, OfTheStep(type, note)),
             type = "VERIFICATION_PASS" => note = "gate",
             type \in {"VERIFICATION_FAIL", "GATE_REJECTION"} => note \in {"gate", "schema"},
             Fresh' <=> type = "VERIFICATION_PASS" /\ note = "gate"
      PROVE  EvalBooks'
  <2>1. \A t, n : Wrote(t, n, 1)' <=> Wrote(t, n, 1) \/ (t = type /\ n = note)
    BY <1>1, <1>5, StepWrites
  <2>2. Ruled'
    BY <1>1, <1>2, <1>5, <2>1 DEF Ruled, Over
  <2>3. OfTheStep(type, note).type = type /\ OfTheStep(type, note).note = note
    BY DEF OfTheStep
  <2>4. /\ Cardinality(EntriesOf("PROMPT_SENT", "none"))'
               = Cardinality(EntriesOf("PROMPT_SENT", "none"))
                     + One(type = "PROMPT_SENT" /\ note = "none")
        /\ Cardinality(EntriesOf("VERIFICATION_FAIL", "adapter"))'
               = Cardinality(EntriesOf("VERIFICATION_FAIL", "adapter"))
                     + One(type = "VERIFICATION_FAIL" /\ note = "adapter")
        /\ Cardinality(EntriesOf("PROMPT_SENT", "none")) \in Nat
        /\ Cardinality(EntriesOf("VERIFICATION_FAIL", "adapter")) \in Nat
    BY <1>1, <1>5, <2>3, EntriesCounted
  <2>5. /\ One(type = "PROMPT_SENT" /\ note = "none") = 0
        /\ One(type = "VERIFICATION_FAIL" /\ note = "adapter") = 0
    BY <1>5 DEF One, DispatchEvents
  <2>6. Paid'
    BY <1>1, <2>4, <2>5 DEF Paid, One
  <2> QED BY <1>1, <1>3, <2>2, <2>6 DEF EvalBooks
<1> QED BY <1>4, <1>5, ActGoesTheCourse

\* An answer is read, or there is none.
LEMMA EvalAnswers ==
    ASSUME TurnInv, OneStep, EvalBooks, AnswerParsed \/ AnswerMissing, UNCHANGED written
    PROVE  EvalBooks'
<1>1. /\ Ruled /\ Filed /\ Paired /\ Paid /\ SessionTypeOK
  BY DEF EvalBooks, TurnInv, SessionInv
<1>2. PICK answer \in Classes \cup {Unanswered} :
          /\ Classified(answer) /\ pc \in {"checking", "unavailable"}
          /\ pc = "unavailable" => answer = Unanswered
  BY DEF AnswerParsed, AnswerMissing
<1>3. /\ asked < 2 * ItemCount /\ verdict = "none" /\ evalReport = NoEvalReport
      /\ written = <<>> /\ ~ Fresh
  BY <1>1, <1>2 DEF Paired, Ruled, Filed, Over, Fresh
<1>4. /\ pc' \in {"approved", "prompt"} /\ UNCHANGED <<evalReport, verdict, log>>
  BY <1>2 DEF Classified, sessionVars, chainVars
<1>5. Paired' /\ Cardinality(Given)' = Cardinality(Given) + One(answer # Unanswered)
  BY <1>1, <1>2, <1>3, ClassifiedPairs
<1>6. \A type, note : Wrote(type, note, 1)' <=> Wrote(type, note, 1)
  BY <1>1, <1>4, StepWrites
<1>7. Ruled'
  BY <1>1, <1>2, <1>3, <1>4, <1>6 DEF Ruled, Over, Fresh
<1>8. Filed' /\ Fair' /\ VerdictFollowsTheAnswers'
  BY <1>1, <1>3, <1>4 DEF Filed, Fair, VerdictFollowsTheAnswers
<1>9. Paid'
  <2>1. /\ Cardinality(EntriesOf("PROMPT_SENT", "none"))'
               = Cardinality(EntriesOf("PROMPT_SENT", "none"))
        /\ Cardinality(EntriesOf("VERIFICATION_FAIL", "adapter"))'
               = Cardinality(EntriesOf("VERIFICATION_FAIL", "adapter"))
        /\ Cardinality(EntriesOf("PROMPT_SENT", "none")) \in Nat
        /\ Cardinality(EntriesOf("VERIFICATION_FAIL", "adapter")) \in Nat
        /\ Cardinality(Given) \in Nat
    BY <1>1, <1>4, EntriesCounted, AnswersAreFinite
  <2>2. /\ One(pc \in {"waiting", "checking"}) = IF pc = "checking" THEN 1 ELSE 0
        /\ One(pc \in {"waiting", "checking"})' = 0
        /\ One(answer # Unanswered) \in {0, 1}
        /\ pc = "unavailable" => One(answer # Unanswered) = 0
    BY <1>2, <1>4 DEF One
  <2> QED BY <1>1, <1>2, <1>5, <2>1, <2>2 DEF Paid
<1> QED BY <1>5, <1>7, <1>8, <1>9 DEF EvalBooks

\* The report is of the answers, if the tool made one.
LEMMA EvalGrades ==
    ASSUME TurnInv, OneStep, EvalBooks, EvalDispatched, UNCHANGED written
    PROVE  EvalBooks'
<1>1. /\ Ruled /\ Filed /\ Paired /\ Paid /\ SessionTypeOK
      /\ pc = "dispatching" /\ (Fresh <=> Executed)
  BY ActEnds DEF EvalBooks, EvalDispatched, ActReturned, TurnInv, SessionInv
<1>2. /\ pc' \in {"graded", "ended"} /\ UNCHANGED <<log, asked, answers, bad, verdict>>
  BY DEF EvalDispatched, BackToOpen, chainVars
<1>3. /\ verdict = "none" /\ evalReport = NoEvalReport /\ written = <<>> /\ ~ Fresh'
  BY <1>1, <1>2 DEF Ruled, Filed, Over, Fresh
<1>4. /\ \A v : MacroF1(v)' = MacroF1(v) /\ Silent(v)' = Silent(v)
      /\ \A class : Change(class)' = Change(class) /\ WorstResample(class)' = WorstResample(class)
      /\ Given' = Given
  BY <1>2, GradesStand
<1>5. Paired' /\ Filed' /\ VerdictFollowsTheAnswers'
  BY <1>1, <1>2, <1>3, <1>4 DEF Paired, Filed, VerdictFollowsTheAnswers
<1>6. Paid'
  <2>1. /\ Cardinality(EntriesOf("PROMPT_SENT", "none"))'
               = Cardinality(EntriesOf("PROMPT_SENT", "none"))
        /\ Cardinality(EntriesOf("VERIFICATION_FAIL", "adapter"))'
               = Cardinality(EntriesOf("VERIFICATION_FAIL", "adapter"))
    BY <1>1, <1>2, EntriesCounted
  <2>2. One(pc \in {"waiting", "checking"})' = 0 /\ One(pc \in {"waiting", "checking"}) = 0
    BY <1>1, <1>2 DEF One
  <2> QED BY <1>1, <1>4, <2>1, <2>2 DEF Paid
<1>7. \A type, note : Wrote(type, note, 1)' <=> Wrote(type, note, 1)
  BY <1>1, <1>2, StepWrites
<1>8. CASE Executed
  <2>1. PICK lower \in LowerBounds : evalReport' = BuildReport(lower)
    BY <1>8 DEF EvalDispatched
  <2>2. evalReport' # NoEvalReport
    <3>1. "bad" \in DOMAIN BuildReport(lower) /\ "bad" \notin DOMAIN NoEvalReport
      BY DEF BuildReport, NoEvalReport
    <3> QED BY <2>1, <3>1
  <2>3. Fair'
    <3>1. /\ evalReport'.bad = bad
          /\ evalReport'.macro = [v \in Versions |-> MacroF1(v)]
          /\ \A class \in Measured :
                 evalReport'.lower[class] \in WorstResample(class) .. Change(class)
      BY <2>1 DEF BuildReport, LowerBounds
    <3>2. [v \in Versions |-> MacroF1(v)]' = [v \in Versions |-> MacroF1(v)]
      BY <1>4
    <3> QED BY <1>2, <1>4, <3>1, <3>2 DEF Fair
  <2>4. Ruled'
    <3>1. pc' = "graded"
      BY <1>8 DEF EvalDispatched
    <3> QED BY <1>1, <1>2, <1>3, <1>7, <1>8, <2>2, <3>1 DEF Ruled
  <2> QED BY <1>5, <1>6, <2>3, <2>4 DEF EvalBooks
<1>9. CASE ~ Executed
  <2>1. pc' = "ended" /\ evalReport' = evalReport
    BY <1>9 DEF EvalDispatched
  <2>2. Fair' /\ Ruled'
    BY <1>1, <1>2, <1>3, <1>7, <1>9, <2>1 DEF Fair, Ruled
  <2> QED BY <1>5, <1>6, <2>2 DEF EvalBooks
<1> QED BY <1>8, <1>9

\* The verdict is ledgered, and is the decision on that report.
LEMMA EvalRules ==
    ASSUME TurnInv, OneStep, EvalBooks, LedgerVerdict, UNCHANGED written
    PROVE  EvalBooks'
<1>1. /\ Ruled /\ Filed /\ Paired /\ Paid /\ Fair /\ SessionTypeOK /\ steps[Agent] = 1
      /\ pc = "graded"
  BY DEF EvalBooks, LedgerVerdict, OneStep, TurnInv, SessionInv
<1>2. /\ pc' = "ended" /\ UNCHANGED <<asked, answers, bad, evalReport>>
      /\ verdict' = Decide(evalReport)
      /\ log' = Append(log, Entry(VerdictEvent, Agent, "verdict"))
  BY DEF LedgerVerdict, Go, AppendEvent, Record
<1>3. /\ verdict = "none" /\ evalReport # NoEvalReport /\ written = <<>>
      /\ asked = 2 * ItemCount /\ ~ Fresh /\ ~ Fresh'
  BY <1>1, <1>2 DEF Ruled, Filed, Paired, Over, Fresh
<1>4. /\ \A v : MacroF1(v)' = MacroF1(v) /\ UnansweredBy(v)' = UnansweredBy(v)
                /\ Silent(v)' = Silent(v)
      /\ \A class : Change(class)' = Change(class) /\ WorstResample(class)' = WorstResample(class)
      /\ Given' = Given
  BY <1>2, GradesStand
<1>5. Decide(evalReport) \in {"activatable", "refused"}
  BY <1>1, <1>3, DecisionIsJust
<1>6. VerdictFollowsTheAnswers'
  BY <1>1, <1>2, <1>3, <1>4, DecisionIsJust DEF VerdictFollowsTheAnswers
<1>7. Paired' /\ Filed'
  BY <1>1, <1>2, <1>3, <1>4 DEF Paired, Filed
<1>8. Fair'
  <2>1. [v \in Versions |-> MacroF1(v)]' = [v \in Versions |-> MacroF1(v)]
    BY <1>4
  <2> QED BY <1>1, <1>2, <1>3, <1>4, <2>1 DEF Fair
<1>9. PICK type \in {"VERIFICATION_PASS", "GATE_REJECTION"} :
          /\ log' = Append(log, OfTheStep(type, "verdict"))
          /\ type = "VERIFICATION_PASS" <=> Decide(evalReport) = "activatable"
  <2>1. Entry(VerdictEvent, Agent, "verdict") = OfTheStep(VerdictEvent, "verdict")
    BY <1>1, TurnAssumption DEF Entry, OfTheStep
  <2> QED BY <1>2, <2>1 DEF VerdictEvent
<1>10. Ruled'
  <2>1. \A t, n : Wrote(t, n, 1)' <=> Wrote(t, n, 1) \/ (t = type /\ n = "verdict")
    BY <1>1, <1>9, StepWrites
  <2> QED BY <1>1, <1>2, <1>3, <1>5, <1>9, <2>1 DEF Ruled, Over
<1>11. Paid'
  <2>1. OfTheStep(type, "verdict").type = type /\ OfTheStep(type, "verdict").note = "verdict"
    BY DEF OfTheStep
  <2>2. /\ Cardinality(EntriesOf("PROMPT_SENT", "none"))'
               = Cardinality(EntriesOf("PROMPT_SENT", "none"))
                     + One(type = "PROMPT_SENT" /\ "verdict" = "none")
        /\ Cardinality(EntriesOf("VERIFICATION_FAIL", "adapter"))'
               = Cardinality(EntriesOf("VERIFICATION_FAIL", "adapter"))
                     + One(type = "VERIFICATION_FAIL" /\ "verdict" = "adapter")
        /\ Cardinality(EntriesOf("PROMPT_SENT", "none")) \in Nat
        /\ Cardinality(EntriesOf("VERIFICATION_FAIL", "adapter")) \in Nat
    BY <1>1, <1>9, <2>1, EntriesCounted
  <2>3. /\ One(type = "PROMPT_SENT" /\ "verdict" = "none") = 0
        /\ One(type = "VERIFICATION_FAIL" /\ "verdict" = "adapter") = 0
        /\ One(pc \in {"waiting", "checking"})' = 0 /\ One(pc \in {"waiting", "checking"}) = 0
    BY <1>1, <1>2 DEF One
  <2> QED BY <1>1, <1>4, <2>2, <2>3 DEF Paid
<1> QED BY <1>6, <1>7, <1>8, <1>10, <1>11 DEF EvalBooks

\* A file is written of what is there, and what is there stands.
LEMMA EvalStands ==
    ASSUME SessionTypeOK, EvalBooks, kind = "prompt_eval",
           UNCHANGED <<log, steps, turnVars, evalVars>>, Publish \/ UNCHANGED written
    PROVE  EvalBooks'
<1>1. /\ Ruled /\ Filed /\ Paired /\ Paid
      /\ UNCHANGED <<log, steps, pc, asked, answers, bad, evalReport, verdict>>
      /\ Fair' /\ VerdictFollowsTheAnswers' /\ Cardinality(Given)' = Cardinality(Given)
      /\ \A v : Silent(v)' = Silent(v)
  BY FindingsStand DEF EvalBooks, turnVars
<1>2. Ruled'
  <2>1. /\ \A type, note : Wrote(type, note, 1)' <=> Wrote(type, note, 1)
        /\ Fresh' <=> Fresh
    BY <1>1 DEF Wrote, Fresh, At
  <2> QED BY <1>1, <2>1 DEF Ruled
<1>3. Paired'
  BY <1>1 DEF Paired
<1>4. Paid'
  BY <1>1, EntriesCounted DEF Paid, One
<1>5. Filed'
  <2>1. CASE UNCHANGED written
    BY <1>1, <2>1 DEF Filed
  <2>2. CASE Publish
    <3>1. /\ pc = "done" /\ Len(written) \in Nat /\ Len(written) < Len(ArtifactOrder)
          /\ written' = Append(written, ArtifactOrder[Len(written) + 1])
          /\ written \in Seq(Files)
      BY <1>1, <2>2 DEF Publish, Filed
    <3>2. /\ ArtifactOrder[Len(written) + 1] \in Files
          /\ ArtifactOrder[Len(written) + 1] # "ledger" => evalReport # NoEvalReport
      <4>1. CASE evalReport = NoEvalReport
        <5>1. ArtifactOrder = <<"ledger">>
          BY <4>1 DEF ArtifactOrder
        <5>2. Len(written) + 1 = 1
          BY <3>1, <5>1
        <5> QED BY <5>1, <5>2 DEF Files
      <4>2. CASE evalReport # NoEvalReport
        <5>1. ArtifactOrder = <<"ledger", "report_md", "report_json", "manifest">>
          BY <4>2 DEF ArtifactOrder
        <5>2. Len(written) + 1 \in 1 .. 4
          BY <3>1, <5>1
        <5> QED BY <4>2, <5>1, <5>2 DEF Files
      <4> QED BY <4>1, <4>2
    <3>3. evalReport # NoEvalReport => verdict # "none"
      BY <1>1, <3>1 DEF Ruled
    <3> HIDE DEF ArtifactOrder
    <3>4. /\ written' \in Seq(Files)
          /\ \A k \in DOMAIN written' : \/ k \in DOMAIN written /\ written'[k] = written[k]
                                       \/ written'[k] = ArtifactOrder[Len(written) + 1]
      BY <3>1, <3>2, AppendProperties
    <3>5. \A k \in DOMAIN written' : written'[k] # "ledger" => verdict # "none"
      BY <1>1, <3>2, <3>3, <3>4 DEF Filed
    <3> QED BY <1>1, <3>1, <3>4, <3>5 DEF Filed
  <2> QED BY <2>1, <2>2
<1> QED BY <1>1, <1>2, <1>3, <1>4, <1>5 DEF EvalBooks

\* So the books are kept.
LEMMA EvalKeepsBooks ==
    ASSUME TurnInv, OneStep, EvalBooks, kind = "prompt_eval", [SingleNext]_singleVars
    PROVE  EvalBooks'
<1>1. ASSUME EvalStep, UNCHANGED <<triageVars, runnerVars>>
      PROVE  EvalBooks'
  <2>1. written' = written
    BY <1>1 DEF runnerVars
  <2>2. CASE (\/ OpenSession \/ BeginAttempt \/ AskModel \/ ModelResponds \/ CloseSession)
             /\ UNCHANGED evalVars
    <3>1. Course /\ pc # "unavailable"
      BY <2>2, SharedStepsGoTheCourse
      DEF BeginAttempt, OpenSession, BeginAttemptAt, AskModel, ModelResponds, CloseSession, TurnEnded
    <3>2. pc = "loop" => pc' = "prompt"
      <4> SUFFICES ASSUME pc = "loop" PROVE pc' = "prompt"
        OBVIOUS
      <4>1. MoreAttempts /\ TurnCheck(Agent, 0) = Granted
        BY FirstIsGranted DEF TurnInv, SessionInv
      <4> QED BY <2>2, <4>1
              DEF OpenSession, BeginAttempt, BeginAttemptAt, BeginTurn, AskModel, ModelResponds,
                  CloseSession, TurnEnded
    <3> QED BY <2>1, <2>2, <3>1, <3>2, EvalOnCourse
  <2> QED BY <1>1, <2>1, <2>2, EvalActs, EvalAnswers, EvalGrades, EvalRules DEF EvalStep
<1>2. CASE Publish \/ UNCHANGED singleVars
            \/ (Crash /\ UNCHANGED <<dispatchVars, turnVars, triageVars, evalVars, runnerVars>>)
  <2>1. UNCHANGED <<log, steps, turnVars, evalVars>> /\ (Publish \/ UNCHANGED written)
    BY <1>2 DEF Publish, Crash, singleVars, sessionTurnVars, allDispatchVars, sessionVars,
                chainVars, budgetVars, runnerVars
  <2> QED BY <2>1, EvalStands DEF TurnInv, SessionInv
<1> QED BY <1>1, <1>2 DEF SingleNext, SingleStep

(***************************************************************************)
(* Both sessions keep their books.                                         *)
(***************************************************************************)
\* Both sessions start right.
LEMMA SingleStartsRight == SingleInit => SingleInv
<1> SUFFICES ASSUME SingleInit PROVE SingleInv
  OBVIOUS
<1> USE TurnAssumption, EvalAssumption
<1>1. TurnInv
  BY TurnStartsRight DEF SingleInit
<1>2. /\ pc = "unopened" /\ log = <<>> /\ DOMAIN log = {} /\ ~ Fresh
      /\ \A type, note : ~ Wrote(type, note, 1)
  BY DEF SingleInit, TurnInit, DispatchInit, SessionInit, Wrote, Fresh
<1>3. OneStep
  BY <1>2, SingleTurnsAssumption
  DEF SingleInit, TurnInit, DispatchInit, SessionInit, OneStep, InAttempt, Over
<1>4. TriageBooks
  BY <1>2 DEF SingleInit, TriageInit, TriageBooks, Delivered, TriageTraced, Grounded, InAttempt, Over
<1>5. EvalBooks
  <2>1. /\ asked = 0 /\ answers = [v \in Versions |-> <<>>] /\ bad = [v \in Versions |-> 0]
        /\ evalReport = NoEvalReport /\ verdict = "none" /\ written = <<>>
    BY DEF SingleInit, EvalInit
  <2>2. Ruled /\ Filed /\ Fair /\ VerdictFollowsTheAnswers
    BY <1>2, <2>1 DEF Ruled, Filed, Fair, VerdictFollowsTheAnswers
  <2>3. \A v \in Versions : Silent(v) = {} /\ GivenBy(v) = {}
    BY <2>1 DEF Silent, GivenBy
  <2>4. Paired
    <3>1. \A v \in Versions : Cardinality(Silent(v)) = 0
      BY <2>3, FS_EmptySet
    <3> QED BY <1>2, <2>1, <3>1 DEF Paired, Versions
  <2>5. Paid
    <3>1. /\ Given = {} /\ EntriesOf("PROMPT_SENT", "none") = {}
          /\ EntriesOf("VERIFICATION_FAIL", "adapter") = {}
      BY <1>2, <2>3 DEF Given, EntriesOf, Versions
    <3>2. One(pc \in {"waiting", "checking"}) = 0
      BY <1>2 DEF One
    <3>3. /\ Cardinality(Given) = 0 /\ Cardinality(EntriesOf("PROMPT_SENT", "none")) = 0
          /\ Cardinality(EntriesOf("VERIFICATION_FAIL", "adapter")) = 0
      BY <3>1, FS_EmptySet
    <3> QED BY <3>2, <3>3 DEF Paid
  <2> QED BY <2>2, <2>4, <2>5 DEF EvalBooks
<1> QED BY <1>1, <1>3, <1>4, <1>5 DEF SingleInv, SingleInit, EvalInit

\* And no step of either goes wrong.
LEMMA SingleStepKeepsInv == SingleInv /\ [SingleNext]_singleVars => SingleInv'
<1> SUFFICES ASSUME SingleInv, [SingleNext]_singleVars PROVE SingleInv'
  OBVIOUS
<1>1. kind' = kind
  BY DEF SingleNext, SingleStep, Publish, runnerVars, singleVars
<1>2. kind = "triage" => UNCHANGED <<asked, verdict>>
  BY DEF SingleNext, SingleStep, Publish, singleVars, evalVars
<1> QED BY <1>1, <1>2, SinglesKeepPlace, StillOneStep, TriageKeepsBooks, EvalKeepsBooks
        DEF SingleInv

(***************************************************************************)
(* Orders and maxima.                                                      *)
(***************************************************************************)

\* A bounded, inhabited set of naturals has the maximum that Max takes.
LEMMA MaxOfNaturals ==
    ASSUME NEW S \in SUBSET Nat, S # {}, NEW n \in Nat, \A x \in S : x <= n
    PROVE  Max(S) \in S /\ \A x \in S : x <= Max(S)
<1> DEFINE Gaps == {n - x : x \in S}
<1>1. Gaps \subseteq Nat /\ Gaps # {}
  <2>1. \A x \in S : n - x \in Nat
    OBVIOUS
  <2> QED BY <2>1
<1>2. PICK g \in Gaps : \A h \in Gaps : ~ (<<h, g>> \in OpToRel(<, Nat))
  BY <1>1, NatLessThanWellFounded, WFMin
<1>3. \A h \in Gaps : ~ (h < g)
  BY <1>1, <1>2 DEF OpToRel
<1>4. PICK x \in S : g = n - x
  BY DEF Gaps
<1>5. \A y \in S : x >= y
  <2>1. SUFFICES ASSUME NEW y \in S PROVE x >= y
    OBVIOUS
  <2>2. n - y \in Gaps
    OBVIOUS
  <2>3. ~ (n - y < n - x)
    BY <1>3, <1>4, <2>2
  <2> QED BY <2>3
<1> QED BY <1>5 DEF Max

\* A finite set in a strict total order: each member has one place, and of two
\* places the earlier one's member comes before.
LEMMA RankedIsSorted ==
    ASSUME NEW S, IsFiniteSet(S), NEW before,
           \A x \in S : <<x, x>> \notin before,
           \A x, y \in S : x # y => <<x, y>> \in before \/ <<y, x>> \in before,
           \A x, y, z \in S : <<x, y>> \in before /\ <<y, z>> \in before => <<x, z>> \in before
    PROVE  /\ Cardinality(S) \in Nat
           /\ Ranked(S, before) \in [1 .. Cardinality(S) -> S]
           /\ \A x \in S : \E r \in 1 .. Cardinality(S) : Ranked(S, before)[r] = x
           /\ \A q, r \in 1 .. Cardinality(S) :
                  q < r => <<Ranked(S, before)[q], Ranked(S, before)[r]>> \in before
<1> DEFINE n == Cardinality(S)
           Earlier(x) == {y \in S : <<y, x>> \in before}
           rank == [x \in S |-> Cardinality(Earlier(x))]
           R == Ranked(S, before)
<1>1. n \in Nat
  BY FS_CardinalityType
<1>2. \A x \in S : IsFiniteSet(Earlier(x)) /\ Cardinality(Earlier(x)) \in 0 .. n - 1
  <2> SUFFICES ASSUME NEW x \in S
               PROVE  IsFiniteSet(Earlier(x)) /\ Cardinality(Earlier(x)) \in 0 .. n - 1
    OBVIOUS
  <2>1. IsFiniteSet(S \ {x}) /\ Cardinality(S \ {x}) = n - 1
    BY FS_RemoveElement
  <2>2. Earlier(x) \in SUBSET (S \ {x})
    OBVIOUS
  <2> HIDE DEF Earlier, n
  <2>3. IsFiniteSet(Earlier(x)) /\ Cardinality(Earlier(x)) <= n - 1
    BY <2>1, <2>2, FS_Subset
  <2>4. Cardinality(Earlier(x)) \in Nat
    BY <2>3, FS_CardinalityType
  <2> QED BY <1>1, <2>3, <2>4
<1>3. \A x, y \in S : <<x, y>> \in before => rank[x] < rank[y]
  <2> SUFFICES ASSUME NEW x \in S, NEW y \in S, <<x, y>> \in before
               PROVE  rank[x] < rank[y]
    OBVIOUS
  <2>1. Earlier(x) \in SUBSET (Earlier(y) \ {x}) /\ x \in Earlier(y)
    OBVIOUS
  <2>2. IsFiniteSet(Earlier(x)) /\ IsFiniteSet(Earlier(y))
    BY <1>2
  <2> HIDE DEF Earlier
  <2>6. Cardinality(Earlier(x)) \in Nat /\ Cardinality(Earlier(y)) \in Nat
    BY <2>2, FS_CardinalityType
  <2>3. /\ IsFiniteSet(Earlier(y) \ {x})
        /\ Cardinality(Earlier(y) \ {x}) = Cardinality(Earlier(y)) - 1
    BY <2>1, <2>2, FS_RemoveElement
  <2>4. Cardinality(Earlier(x)) <= Cardinality(Earlier(y) \ {x})
    BY <2>1, <2>3, FS_Subset
  <2>5. rank[x] = Cardinality(Earlier(x)) /\ rank[y] = Cardinality(Earlier(y))
    OBVIOUS
  <2> HIDE DEF rank
  <2> QED BY <2>3, <2>4, <2>5, <2>6
<1>4. rank \in [S -> 0 .. n - 1]
  BY <1>2
<1>5. \A x, y \in S : rank[x] = rank[y] => x = y
  <2> SUFFICES ASSUME NEW x \in S, NEW y \in S, x # y PROVE rank[x] # rank[y]
    OBVIOUS
  <2>1. rank[x] \in 0 .. n - 1 /\ rank[y] \in 0 .. n - 1
    BY <1>4
  <2>2. rank[x] < rank[y] \/ rank[y] < rank[x]
    BY <1>3
  <2> HIDE DEF rank, n
  <2> QED BY <1>1, <2>1, <2>2
<1>6. \A k \in 0 .. n - 1 : \E x \in S : rank[x] = k
  <2> HIDE DEF rank, n
  <2>1. rank \in Injection(S, 0 .. n - 1)
    BY <1>4, <1>5 DEF Injection, IsInjective
  <2>2. IsFiniteSet(0 .. n - 1) /\ Cardinality(0 .. n - 1) = n
    BY <1>1, FS_Interval
  <2>3. rank \in Surjection(S, 0 .. n - 1)
    BY <2>1, <2>2, FS_Injection DEF n
  <2> QED BY <2>3 DEF Surjection
<1>7. \A r \in 1 .. n : R[r] \in S /\ rank[R[r]] = r - 1
  <2> SUFFICES ASSUME NEW r \in 1 .. n PROVE R[r] \in S /\ rank[R[r]] = r - 1
    OBVIOUS
  <2>1. r - 1 \in 0 .. n - 1
    BY <1>1
  <2>2. \E x \in S : Cardinality(Earlier(x)) = r - 1
    BY <1>6, <2>1
  <2>3. R[r] = CHOOSE x \in S : Cardinality(Earlier(x)) = r - 1
    BY DEF Ranked
  <2>4. R[r] \in S /\ Cardinality(Earlier(R[r])) = r - 1
    BY <2>2, <2>3
  <2> QED BY <2>4
<1>8. R \in [1 .. n -> S]
  BY <1>7 DEF Ranked
<1>9. \A x \in S : \E r \in 1 .. n : R[r] = x
  <2> SUFFICES ASSUME NEW x \in S PROVE \E r \in 1 .. n : R[r] = x
    OBVIOUS
  <2> HIDE DEF rank, R, n
  <2>1. rank[x] \in 0 .. n - 1
    BY <1>4
  <2>2. rank[x] + 1 \in 1 .. n /\ (rank[x] + 1) - 1 = rank[x]
    BY <1>1, <2>1
  <2>3. R[rank[x] + 1] \in S /\ rank[R[rank[x] + 1]] = rank[x]
    BY <1>7, <2>2
  <2> QED BY <1>5, <2>2, <2>3
<1>10. \A q, r \in 1 .. n : q < r => <<R[q], R[r]>> \in before
  <2> SUFFICES ASSUME NEW q \in 1 .. n, NEW r \in 1 .. n, q < r
               PROVE  <<R[q], R[r]>> \in before
    OBVIOUS
  <2> HIDE DEF rank, R, n
  <2>1. /\ R[q] \in S /\ rank[R[q]] = q - 1
        /\ R[r] \in S /\ rank[R[r]] = r - 1
    BY <1>7
  <2>2. ~ (rank[R[r]] < rank[R[q]]) /\ rank[R[q]] # rank[R[r]]
    BY <1>1, <2>1
  <2> QED BY <1>3, <2>1, <2>2
<1> QED BY <1>1, <1>8, <1>9, <1>10

(***************************************************************************)
(* What the detector sees, in numbers.                                     *)
(***************************************************************************)

\* A value of a channel's pattern is that of some hint, of a kind there is.
LEMMA PatternsAreHints ==
    ASSUME platform \in Platforms, NEW c
    PROVE  \A value \in Pattern(c) :
               \E h \in platform.hints :
                   value = <<h.kind, h.value>> /\ h.kind \in DOMAIN SignalSeverity
<1>1. \A h \in platform.hints : h.kind \in DOMAIN SignalSeverity
  BY TriageAssumption
<1> QED BY <1>1 DEF Pattern, Inbound, ValuesOf

\* Each kind's severity is one of the table's, in tenths.
LEMMA SeveritiesAreTenths == \A what \in DOMAIN SignalSeverity : SignalSeverity[what] \in 4 .. 10
BY DEF SignalSeverity

\* A flagged channel has a severity.
LEMMA SeverityIsNatural ==
    ASSUME platform \in Platforms, NEW c, IsFlagged(c)
    PROVE  Severity(c) \in Nat
<1> DEFINE Inputs == {SignalSeverity[value[1]] : value \in Pattern(c)}
                     \cup (IF c \in platform.undisclosed THEN {3} ELSE {})
                     \cup (IF c \in platform.templated THEN {5} ELSE {})
<1>1. \A value \in Pattern(c) : SignalSeverity[value[1]] \in 4 .. 10
  BY PatternsAreHints, SeveritiesAreTenths
<1>2. \A x \in Inputs : x \in Nat /\ x <= 10
  BY <1>1
<1>3. Inputs # {}
  BY DEF IsFlagged
<1> HIDE DEF Inputs
<1>4. Max(Inputs) \in Inputs
  BY <1>2, <1>3, MaxOfNaturals
<1>5. Severity(c) = Max(Inputs)
  BY DEF Severity, Inputs
<1> QED BY <1>2, <1>4, <1>5

\* A share of a positive number is a number of points.
LEMMA SharesArePoints ==
    ASSUME NEW count \in Nat, NEW cap \in Nat, cap > 0
    PROVE  Share(count, cap) \in Int
<1>1. (count * Unit) \div cap \in Int
  <2>1. count * Unit \in Nat
    BY DEF Unit
  <2>2. \A n \in Nat : n \div cap \in Int
    OBVIOUS
  <2> QED BY <2>1, <2>2
<1> QED BY <1>1 DEF Share, Unit

\* A burst is some number of the comments, if there are any.
LEMMA VelocityIsPoints ==
    ASSUME NEW times \in Seq(Nat)
    PROVE  Velocity(times) \in Int
<1>1. CASE times = <<>>
  BY <1>1 DEF Velocity
<1>2. CASE times # <<>>
  <2> DEFINE Within(i) == {j \in DOMAIN times : times[j] \in times[i] .. times[i] + Day}
             Bursts == {Cardinality(Within(i)) : i \in DOMAIN times}
  <2>1. Len(times) \in Nat /\ Len(times) > 0 /\ DOMAIN times = 1 .. Len(times)
    BY <1>2
  <2>2. IsFiniteSet(DOMAIN times) /\ Cardinality(DOMAIN times) = Len(times)
    BY <2>1, FS_Interval
  <2>3. \A i \in DOMAIN times : Within(i) \in SUBSET DOMAIN times
    OBVIOUS
  <2> HIDE DEF Within
  <2>4. \A i \in DOMAIN times :
            IsFiniteSet(Within(i)) /\ Cardinality(Within(i)) <= Len(times)
    BY <2>2, <2>3, FS_Subset
  <2>5. \A i \in DOMAIN times : Cardinality(Within(i)) \in Nat
    BY <2>4, FS_CardinalityType
  <2>6. Bursts \in SUBSET Nat /\ \A n \in Bursts : n <= Len(times)
    BY <2>4, <2>5
  <2>7. Bursts # {}
    BY <2>1
  <2>8. Max(Bursts) \in Nat
    <3> HIDE DEF Bursts
    <3> QED BY <2>1, <2>6, <2>7, MaxOfNaturals
  <2>9. Burst(times) = Max(Bursts)
    BY DEF Burst, Within
  <2> QED BY <1>2, <2>1, <2>8, <2>9, SharesArePoints DEF Velocity
<1> QED BY <1>1, <1>2

\* A flagged channel's priority is a whole number.
LEMMA PriorityIsInteger ==
    ASSUME platform \in Platforms, NEW c \in Channels, IsFlagged(c)
    PROVE  Priority(c) \in Int
<1>1. IsFiniteSet(platform.hints) /\ platform.posted[c] \in Seq(Nat)
  BY TriageAssumption
<1>2. IsFiniteSet(HintsOf(Pattern(c)))
  <2>1. HintsOf(Pattern(c)) \in SUBSET platform.hints
    BY DEF HintsOf
  <2> QED BY <1>1, <2>1, FS_Subset
<1>3. IsFiniteSet({h.subject : h \in HintsOf(Pattern(c))}) /\ IsFiniteSet(Days(c))
  <2> DEFINE H == HintsOf(Pattern(c))
             subject == [h \in H |-> h.subject]
             day == [h \in H |-> h.day]
  <2>1. subject \in Surjection(H, {h.subject : h \in H})
    BY DEF Surjection
  <2>2. day \in Surjection(H, {h.day : h \in H})
    BY DEF Surjection
  <2> HIDE DEF subject, day
  <2>3. IsFiniteSet({h.subject : h \in H})
    BY <1>2, <2>1, FS_Surjection
  <2>4. IsFiniteSet({h.day : h \in H})
    BY <1>2, <2>2, FS_Surjection
  <2> QED BY <2>3, <2>4 DEF Days
<1>4. Cardinality(Peers(c)) \in Nat
  <2>1. IsFiniteSet(Peers(c))
    BY <1>3, FS_Difference DEF Peers
  <2> QED BY <2>1, FS_CardinalityType
<1>5. DaysAgain(c) \in Nat
  <2>1. Cardinality(Days(c)) \in Nat
    BY <1>3, FS_CardinalityType
  <2>2. Days(c) # {} => Cardinality(Days(c)) # 0
    BY <1>3, FS_EmptySet
  <2> QED BY <2>1, <2>2 DEF DaysAgain
<1>6. Severity(c) \in Nat
  BY SeverityIsNatural
<1>7. Share(Cardinality(Peers(c)), SpreadCap) \in Int
  BY <1>4, SharesArePoints DEF SpreadCap
<1>8. Velocity(platform.posted[c]) \in Int
  BY <1>1, VelocityIsPoints
<1>9. Share(DaysAgain(c), RecidivismCap) \in Int
  BY <1>5, SharesArePoints DEF RecidivismCap
<1>10. Unit \div 10 \in Int
  BY DEF Unit
<1>11. \A a, b, k, m, n \in Int : 40 * a * b + 25 * k + 20 * m + 15 * n \in Int
  OBVIOUS
<1> QED BY <1>6, <1>7, <1>8, <1>9, <1>10, <1>11 DEF Priority

(***************************************************************************)
(* The queue.                                                              *)
(***************************************************************************)

\* Severity, then channel id, puts any flagged channels in one order.
LEMMA SuspectsInOrder ==
    ASSUME platform \in Platforms
    PROVE  LET n == Cardinality(Suspects)
               R == Ranked(Suspects, BySeverity)
           IN  /\ n \in Nat
               /\ R \in [1 .. n -> Suspects]
               /\ \A c \in Suspects : \E r \in 1 .. n : R[r] = c
               /\ \A q, r \in 1 .. n : q < r => Severity(R[q]) >= Severity(R[r])
<1>1. IsFiniteSet(Suspects) /\ \A c \in Suspects : c \in Nat
  <2>1. Suspects \in SUBSET Channels
    BY DEF Suspects
  <2> QED BY <2>1, TriageAssumption, FS_Subset
<1>2. \A c \in Suspects : Severity(c) \in Nat
  BY SeverityIsNatural DEF Suspects
<1>3. \A c, d \in Suspects :
          <<c, d>> \in BySeverity <=> \/ Severity(c) > Severity(d)
                                      \/ Severity(c) = Severity(d) /\ c < d
  BY DEF BySeverity
<1>4. \A c \in Suspects : <<c, c>> \notin BySeverity
  BY <1>1, <1>2, <1>3
<1>5. \A c, d \in Suspects : c # d => <<c, d>> \in BySeverity \/ <<d, c>> \in BySeverity
  BY <1>1, <1>2, <1>3
<1>6. \A c, d, e \in Suspects :
          <<c, d>> \in BySeverity /\ <<d, e>> \in BySeverity => <<c, e>> \in BySeverity
  BY <1>1, <1>2, <1>3
<1> DEFINE n == Cardinality(Suspects)
           R == Ranked(Suspects, BySeverity)
<1>7. /\ n \in Nat
      /\ R \in [1 .. n -> Suspects]
      /\ \A c \in Suspects : \E r \in 1 .. n : R[r] = c
      /\ \A q, r \in 1 .. n : q < r => <<R[q], R[r]>> \in BySeverity
  BY <1>1, <1>4, <1>5, <1>6, RankedIsSorted
<1> HIDE DEF n, R
<1>8. \A c, d \in Suspects : <<c, d>> \in BySeverity => Severity(c) >= Severity(d)
  BY <1>2, <1>3
<1>9. \A q, r \in 1 .. n : q < r => Severity(R[q]) >= Severity(R[r])
  <2> SUFFICES ASSUME NEW q \in 1 .. n, NEW r \in 1 .. n, q < r
               PROVE  Severity(R[q]) >= Severity(R[r])
    OBVIOUS
  <2>1. R[q] \in Suspects /\ R[r] \in Suspects /\ <<R[q], R[r]>> \in BySeverity
    BY <1>7
  <2> QED BY <1>8, <2>1
<1> QED BY <1>7, <1>9 DEF n, R

\* What the cut leaves is on the queue once, and nothing it leaves off is worse.
LEMMA TheCutIsFair ==
    ASSUME platform \in Platforms
    PROVE  /\ FlaggedQueue \in Seq(Suspects)
           /\ \A c \in Suspects :
                  (\A j \in DOMAIN FlaggedQueue : FlaggedQueue[j] # c) =>
                      \A j \in DOMAIN FlaggedQueue : Severity(FlaggedQueue[j]) >= Severity(c)
<1> DEFINE n == Cardinality(Suspects)
           R == Ranked(Suspects, BySeverity)
           m == IF QueueLimit < n THEN QueueLimit ELSE n
<1>1. /\ n \in Nat
      /\ R \in [1 .. n -> Suspects]
      /\ \A c \in Suspects : \E r \in 1 .. n : R[r] = c
      /\ \A q, r \in 1 .. n : q < r => Severity(R[q]) >= Severity(R[r])
  BY SuspectsInOrder
<1> HIDE DEF R, n
<1>2. R \in Seq(Suspects) /\ Len(R) = n
  BY <1>1
<1>3. m \in Nat /\ m <= n
  BY <1>1, TriageAssumption
<1>4. FlaggedQueue = SubSeq(R, 1, m)
  BY <1>2 DEF FlaggedQueue, Foremost, R
<1> HIDE DEF m
<1>5. \A j \in 1 .. m : j \in 1 .. n /\ R[j] \in Suspects
  BY <1>1, <1>3
<1>6. /\ FlaggedQueue \in Seq(Suspects)
      /\ Len(FlaggedQueue) = m
      /\ \A j \in 1 .. m : FlaggedQueue[j] = R[j]
  <2>1. /\ FlaggedQueue \in Seq(Suspects)
        /\ Len(FlaggedQueue) = IF 1 <= m THEN m - 1 + 1 ELSE 0
        /\ \A j \in 1 .. m - 1 + 1 : FlaggedQueue[j] = R[1 + j - 1]
    BY <1>3, <1>4, <1>5, SubSeqProperties
  <2>2. \A j \in Int : 1 + j - 1 = j
    OBVIOUS
  <2>3. m - 1 + 1 = m /\ (~ (1 <= m) => m = 0)
    BY <1>3
  <2> QED BY <2>1, <2>2, <2>3
<1>7. ASSUME NEW c \in Suspects, \A j \in DOMAIN FlaggedQueue : FlaggedQueue[j] # c,
             NEW j \in DOMAIN FlaggedQueue
      PROVE  Severity(FlaggedQueue[j]) >= Severity(c)
  <2>1. DOMAIN FlaggedQueue = 1 .. m
    BY <1>6
  <2>2. PICK r \in 1 .. n : R[r] = c
    BY <1>1
  <2>3. r \notin 1 .. m
    BY <1>6, <1>7, <2>1, <2>2
  <2>4. j \in 1 .. n /\ j < r
    BY <1>1, <1>3, <1>7, <2>1, <2>3
  <2> QED BY <1>1, <1>6, <1>7, <2>1, <2>2, <2>4
<1> QED BY <1>6, <1>7

\* Ranking moves rows and loses none: each case of the queue is one row, and the
\* rows are in the order of their priorities.
LEMMA RanksAreOrdered ==
    ASSUME platform \in Platforms
    PROVE  LET flagged == FlaggedQueue
               order == RankOrder(flagged)
           IN  /\ order \in [1 .. Len(flagged) -> DOMAIN flagged]
               /\ \A j \in DOMAIN flagged : \E r \in 1 .. Len(flagged) : order[r] = j
               /\ \A q, r \in 1 .. Len(flagged) :
                      q < r => Priority(flagged[order[q]]) >= Priority(flagged[order[r]])
<1> DEFINE flagged == FlaggedQueue
           places == DOMAIN flagged
           before == ByPriority(flagged)
           order == RankOrder(flagged)
<1>1. flagged \in Seq(Suspects)
  BY TheCutIsFair
<1> HIDE DEF flagged
<1>2. places = 1 .. Len(flagged) /\ Len(flagged) \in Nat /\ \A j \in places : j \in Nat
  BY <1>1
<1>3. IsFiniteSet(places) /\ Cardinality(places) = Len(flagged)
  <2> DEFINE n == Len(flagged)
  <2> HIDE DEF n
  <2>1. n \in Int /\ 1 \in Int /\ places = 1 .. n
    BY <1>2 DEF n
  <2>2. IsFiniteSet(places) /\ Cardinality(places) = n
    BY <1>2, <2>1, FS_Interval DEF n
  <2> QED BY <2>2 DEF n
<1>4. \A j \in places : Priority(flagged[j]) \in Int
  <2>1. \A j \in places : flagged[j] \in Suspects
    BY <1>1
  <2>2. \A c \in Suspects : c \in Channels /\ IsFlagged(c)
    BY DEF Suspects
  <2> QED BY <2>1, <2>2, PriorityIsInteger
<1>5. \A j, k \in places :
          <<j, k>> \in before <=> \/ Priority(flagged[j]) > Priority(flagged[k])
                                  \/ Priority(flagged[j]) = Priority(flagged[k]) /\ j < k
  BY DEF ByPriority
<1> HIDE DEF places, before
<1>6. \A j \in places : <<j, j>> \notin before
  BY <1>2, <1>4, <1>5
<1>7. \A j, k \in places : j # k => <<j, k>> \in before \/ <<k, j>> \in before
  BY <1>2, <1>4, <1>5
<1>8. \A i, j, k \in places : <<i, j>> \in before /\ <<j, k>> \in before => <<i, k>> \in before
  BY <1>2, <1>4, <1>5
<1>9. order = Ranked(places, before)
  BY DEF RankOrder, places, before
<1> HIDE DEF order
<1>10. /\ order \in [1 .. Len(flagged) -> places]
       /\ \A j \in places : \E r \in 1 .. Len(flagged) : order[r] = j
       /\ \A q, r \in 1 .. Len(flagged) : q < r => <<order[q], order[r]>> \in before
  BY <1>3, <1>6, <1>7, <1>8, <1>9, RankedIsSorted
<1>11. \A j, k \in places : <<j, k>> \in before => Priority(flagged[j]) >= Priority(flagged[k])
  BY <1>4, <1>5
<1>12. \A q, r \in 1 .. Len(flagged) :
           q < r => Priority(flagged[order[q]]) >= Priority(flagged[order[r]])
  <2> SUFFICES ASSUME NEW q \in 1 .. Len(flagged), NEW r \in 1 .. Len(flagged), q < r
               PROVE  Priority(flagged[order[q]]) >= Priority(flagged[order[r]])
    OBVIOUS
  <2>1. order[q] \in places /\ order[r] \in places /\ <<order[q], order[r]>> \in before
    BY <1>10
  <2> QED BY <1>11, <2>1
<1> QED BY <1>10, <1>12 DEF order, flagged, places

\* Flagged channels in the order of their priorities.
InQueueOrder(s) ==
    /\ \A r \in DOMAIN s : s[r] \in Suspects
    /\ \A r \in 2 .. Len(s) : Priority(s[r]) <= Priority(s[r - 1])

\* No flagged channel that is not among these is more severe than one of them.
LeavesNoneWorse(s) ==
    \A c \in Suspects :
        (\A r \in DOMAIN s : s[r] # c) => \A r \in DOMAIN s : Severity(s[r]) >= Severity(c)

\* These are the queue's subjects, row by row.
Subjects(s) ==
    /\ Len(queue) = Len(s) /\ DOMAIN queue = DOMAIN s
    /\ \A r \in DOMAIN s : queue[r].subject = s[r]

\* The queue's subjects are explained by what the platform shows.
Explained ==
    /\ platform \in Platforms
    /\ \E s \in Seq(Channels) :
           Subjects(s) /\ InQueueOrder(s) /\ (delivered => LeavesNoneWorse(s))

\* What the detector says of a channel is what the platform shows of it.
LEMMA DetectionIsOfThePlatform ==
    ASSUME platform' = platform, NEW c
    PROVE  /\ IsFlagged(c)' = IsFlagged(c)
           /\ Severity(c)' = Severity(c)
           /\ Priority(c)' = Priority(c)
<1>1. Pattern(c)' = Pattern(c)
  BY DEF Pattern, Inbound, Sharers, ValuesOf
<1>2. IsFlagged(c)' = IsFlagged(c)
  BY <1>1 DEF IsFlagged
<1>3. Severity(c)' = Severity(c)
  BY <1>1 DEF Severity
<1>4. HintsOf(Pattern(c))' = HintsOf(Pattern(c))
  BY <1>1 DEF HintsOf
<1>5. Peers(c)' = Peers(c) /\ DaysAgain(c)' = DaysAgain(c)
  BY <1>4 DEF Peers, DaysAgain, Days
<1>6. Velocity(platform.posted[c])' = Velocity(platform.posted[c])
  OBVIOUS
<1>7. Priority(c)' = Priority(c)
  BY <1>3, <1>5, <1>6 DEF Priority
<1> QED BY <1>2, <1>3, <1>7

\* What explains some subjects does so as long as the platform stands.
LEMMA ExplanationsStand ==
    ASSUME platform' = platform, NEW s
    PROVE  /\ InQueueOrder(s)' = InQueueOrder(s)
           /\ LeavesNoneWorse(s)' = LeavesNoneWorse(s)
<1>1. Suspects' = Suspects
  BY DetectionIsOfThePlatform DEF Suspects
<1>2. \A c : Severity(c)' = Severity(c) /\ Priority(c)' = Priority(c)
  BY DetectionIsOfThePlatform
<1> QED BY <1>1, <1>2 DEF InQueueOrder, LeavesNoneWorse

\* The tool's queue is explained.
LEMMA TheToolExplains ==
    ASSUME platform \in Platforms
    PROVE  \E s \in Seq(Channels) :
               /\ InQueueOrder(s) /\ LeavesNoneWorse(s)
               /\ Len(RankedQueue) = Len(s) /\ DOMAIN RankedQueue = DOMAIN s
               /\ \A r \in DOMAIN s : RankedQueue[r].subject = s[r]
<1> DEFINE flagged == FlaggedQueue
           order == RankOrder(flagged)
           n == Len(flagged)
           s == [r \in 1 .. n |-> flagged[order[r]]]
<1>1. /\ flagged \in Seq(Suspects)
      /\ \A c \in Suspects :
             (\A j \in DOMAIN flagged : flagged[j] # c) =>
                 \A j \in DOMAIN flagged : Severity(flagged[j]) >= Severity(c)
  BY TheCutIsFair
<1>2. /\ order \in [1 .. n -> DOMAIN flagged]
      /\ \A j \in DOMAIN flagged : \E r \in 1 .. n : order[r] = j
      /\ \A q, r \in 1 .. n : q < r => Priority(flagged[order[q]]) >= Priority(flagged[order[r]])
  BY RanksAreOrdered
<1>3. RankedQueue = [r \in DOMAIN order |->
                        [case |-> order[r], subject |-> flagged[order[r]], rationale |-> FALSE]]
  BY DEF RankedQueue
<1> HIDE DEF flagged, order
<1>4. n \in Nat /\ DOMAIN flagged = 1 .. n
  BY <1>1
<1>5. \A r \in 1 .. n : flagged[order[r]] \in Suspects
  BY <1>1, <1>2
<1>6. s \in Seq(Suspects) /\ Len(s) = n /\ DOMAIN s = 1 .. n /\ \A r \in 1 .. n : s[r] = flagged[order[r]]
  BY <1>4, <1>5
<1> HIDE DEF s, n
<1>7. s \in Seq(Channels)
  BY <1>6 DEF Suspects
<1>8. ASSUME NEW c \in Suspects, \A r \in 1 .. n : s[r] # c, NEW r \in 1 .. n
      PROVE  Severity(s[r]) >= Severity(c)
  <2>1. \A j \in DOMAIN flagged : flagged[j] # c
    BY <1>2, <1>6, <1>8
  <2> QED BY <1>1, <1>2, <1>6, <2>1
<1>9. ASSUME NEW r \in 2 .. n
      PROVE  Priority(s[r]) <= Priority(s[r - 1])
  <2>1. r - 1 \in 1 .. n /\ r \in 1 .. n /\ r - 1 < r
    BY <1>4
  <2>2. Priority(flagged[order[r - 1]]) >= Priority(flagged[order[r]])
    BY <1>2, <2>1
  <2>3. Priority(s[r - 1]) >= Priority(s[r])
    BY <1>6, <2>1, <2>2
  <2>4. \A c \in Suspects : Priority(c) \in Int
    BY PriorityIsInteger DEF Suspects
  <2>5. Priority(s[r - 1]) \in Int /\ Priority(s[r]) \in Int
    BY <1>5, <1>6, <2>1, <2>4
  <2>6. \A a, b \in Int : a >= b => b <= a
    OBVIOUS
  <2> QED BY <2>3, <2>5, <2>6
<1>10. InQueueOrder(s) /\ LeavesNoneWorse(s)
  BY <1>5, <1>6, <1>8, <1>9 DEF InQueueOrder, LeavesNoneWorse
<1>11. /\ DOMAIN RankedQueue = 1 .. n
       /\ \A r \in 1 .. n : RankedQueue[r].subject = s[r]
  BY <1>2, <1>3, <1>6
<1>12. Len(RankedQueue) = n
  <2> DEFINE rows == {RankedQueue[r] : r \in 1 .. n}
  <2>1. RankedQueue \in [1 .. n -> rows]
    BY <1>2, <1>3
  <2> HIDE DEF rows
  <2> QED BY <1>4, <2>1
<1> QED BY <1>6, <1>7, <1>10, <1>11, <1>12

\* No step of either session leaves the queue unexplained.
LEMMA StepsExplain ==
    ASSUME SingleInv, Explained, [SingleNext]_singleVars
    PROVE  Explained'
<1>1. platform' = platform
  BY DEF SingleNext, SingleStep, TriageStep, EvalStep, QueueBuilt, RationalesRead, RationalesChecked,
         QueueProposed, Publish, triageVars, singleVars
<1>2. PICK s \in Seq(Channels) :
          Subjects(s) /\ InQueueOrder(s) /\ (delivered => LeavesNoneWorse(s))
  BY DEF Explained
<1>3. InQueueOrder(s)' /\ (LeavesNoneWorse(s)' <=> LeavesNoneWorse(s))
  BY <1>1, <1>2, ExplanationsStand
<1>4. CASE QueueBuilt /\ Executed
  <2>1. queue' = RankedQueue /\ delivered' = TRUE
    BY <1>4 DEF QueueBuilt
  <2>2. PICK t \in Seq(Channels) :
            /\ InQueueOrder(t) /\ LeavesNoneWorse(t)
            /\ Len(RankedQueue) = Len(t) /\ DOMAIN RankedQueue = DOMAIN t
            /\ \A r \in DOMAIN t : RankedQueue[r].subject = t[r]
    BY TheToolExplains DEF Explained
  <2>3. InQueueOrder(t)' /\ LeavesNoneWorse(t)'
    BY <1>1, <2>2, ExplanationsStand
  <2>4. Subjects(t)'
    BY <2>1, <2>2 DEF Subjects
  <2>5. platform' \in Platforms
    BY <1>1 DEF Explained
  <2> QED BY <2>3, <2>4, <2>5 DEF Explained
<1>5. CASE RationalesChecked /\ kind = "triage"
  <2>1. /\ queue' = [r \in DOMAIN queue |-> [queue[r] EXCEPT !.rationale = Accepted(queue[r].case)]]
        /\ delivered' = delivered
    BY <1>5 DEF RationalesChecked
  <2>2. \A r \in DOMAIN queue : queue[r] = [case |-> queue[r].case, subject |-> queue[r].subject,
                                           rationale |-> queue[r].rationale]
    BY <1>5 DEF SingleInv, TriageBooks, Grounded
  <2>3. DOMAIN queue = 1 .. Len(s) /\ Len(s) \in Nat
    BY <1>2 DEF Subjects
  <2>4. DOMAIN queue' = 1 .. Len(s) /\ \A r \in 1 .. Len(s) : queue'[r].subject = queue[r].subject
    BY <2>1, <2>2, <2>3
  <2>5. Len(queue') = Len(s)
    <3> DEFINE rows == {queue'[r] : r \in 1 .. Len(s)}
    <3>1. queue' \in [1 .. Len(s) -> rows]
      BY <2>1, <2>3
    <3> HIDE DEF rows
    <3> QED BY <2>3, <3>1
  <2>6. Subjects(s)'
    BY <1>2, <2>3, <2>4, <2>5 DEF Subjects
  <2> QED BY <1>1, <1>2, <1>3, <2>1, <2>6 DEF Explained
<1>6. CASE UNCHANGED <<queue, delivered>>
  <2>1. Subjects(s)'
    BY <1>2, <1>6 DEF Subjects
  <2> QED BY <1>1, <1>2, <1>3, <1>6, <2>1 DEF Explained
<1>7. \/ QueueBuilt /\ Executed
      \/ RationalesChecked /\ kind = "triage"
      \/ UNCHANGED <<queue, delivered>>
  BY DEF SingleNext, SingleStep, TriageStep, EvalStep, QueueBuilt, RationalesRead, QueueProposed,
         Publish, triageVars, singleVars
<1> QED BY <1>4, <1>5, <1>6, <1>7

\* What is explained is explainable: a pattern that is not the channel's own is
\* that of two commenting accounts, and they are two because a floor of two holds.
LEMMA ExplainedIsExplainable == Explained => QueueIsExplainable
<1> SUFFICES ASSUME Explained PROVE QueueIsExplainable
  OBVIOUS
<1>1. PICK s \in Seq(Channels) :
          Subjects(s) /\ InQueueOrder(s) /\ (delivered => LeavesNoneWorse(s))
  BY DEF Explained
<1> DEFINE subjects == {queue[r].subject : r \in DOMAIN queue}
<1>2. subjects = {s[r] : r \in DOMAIN s}
  BY <1>1 DEF Subjects
<1>3. ASSUME NEW c \in subjects
      PROVE  \/ c \in platform.templated
             \/ \E h \in platform.hints : h.subject \in Own(c)
             \/ \E g, h \in platform.hints :
                    /\ g.subject # h.subject /\ {g.subject, h.subject} \subseteq platform.commenters[c]
                    /\ g.kind = h.kind /\ g.value = h.value
  <2>1. c \in Channels /\ IsFlagged(c)
    BY <1>1, <1>2 DEF InQueueOrder, Suspects
  <2>2. SUFFICES ASSUME NEW value \in Pattern(c)
                 PROVE  \/ \E h \in platform.hints : h.subject \in Own(c)
                        \/ \E g, h \in platform.hints :
                              /\ g.subject # h.subject
                              /\ {g.subject, h.subject} \subseteq platform.commenters[c]
                              /\ g.kind = h.kind /\ g.value = h.value
    BY <2>1 DEF IsFlagged
  <2>3. CASE value \in ValuesOf(Own(c))
    BY <2>3 DEF ValuesOf
  <2>4. CASE value \in Inbound(c)
    <3>1. Cardinality(Sharers(c, value)) >= 2
      BY <2>4 DEF Inbound, InboundFloor
    <3>2. IsFiniteSet(Sharers(c, value))
      <4>1. IsFiniteSet(platform.commenters[c])
        BY <2>1, TriageAssumption DEF Explained
      <4>2. Sharers(c, value) \in SUBSET platform.commenters[c]
        BY DEF Sharers
      <4> QED BY <4>1, <4>2, FS_Subset
    <3>3. PICK a, b \in Sharers(c, value) : a # b
      <4> DEFINE A == Sharers(c, value)
      <4> HIDE DEF A
      <4>1. ~ (Cardinality(A) = 0) /\ ~ (Cardinality(A) = 1)
        BY <3>1, <3>2, FS_CardinalityType DEF A
      <4>2. A # {} /\ ~ \E x : A = {x}
        BY <3>2, <4>1, FS_EmptySet, FS_Singleton DEF A
      <4>3. \E a, b \in A : a # b
        BY <4>2
      <4> QED BY <4>3 DEF A
    <3>4. /\ a \in platform.commenters[c] /\ value \in ValuesOf({a})
          /\ b \in platform.commenters[c] /\ value \in ValuesOf({b})
      BY <3>3 DEF Sharers
    <3>5. PICK g \in platform.hints : g.subject = a /\ value = <<g.kind, g.value>>
      BY <3>4 DEF ValuesOf
    <3>6. PICK h \in platform.hints : h.subject = b /\ value = <<h.kind, h.value>>
      BY <3>4 DEF ValuesOf
    <3> QED BY <3>3, <3>4, <3>5, <3>6
  <2> QED BY <2>3, <2>4 DEF Pattern
<1>4. ASSUME delivered, NEW c \in Channels \ subjects, IsFlagged(c), NEW d \in subjects
      PROVE  Severity(d) >= Severity(c)
  BY <1>1, <1>2, <1>4 DEF LeavesNoneWorse, Suspects
<1>5. \A r \in 2 .. Len(queue) : Priority(queue[r].subject) <= Priority(queue[r - 1].subject)
  <2> SUFFICES ASSUME NEW r \in 2 .. Len(queue)
               PROVE  Priority(queue[r].subject) <= Priority(queue[r - 1].subject)
    OBVIOUS
  <2>1. Len(queue) = Len(s) /\ Len(s) \in Nat /\ DOMAIN s = 1 .. Len(s)
    BY <1>1 DEF Subjects
  <2>2. r \in DOMAIN s /\ r - 1 \in DOMAIN s
    BY <2>1
  <2>3. queue[r].subject = s[r] /\ queue[r - 1].subject = s[r - 1]
    BY <1>1, <2>2 DEF Subjects
  <2> QED BY <1>1, <2>1, <2>3 DEF InQueueOrder
<1> QED BY <1>3, <1>4, <1>5 DEF QueueIsExplainable

(***************************************************************************)
(* The theorems.                                                           *)
(***************************************************************************)

\* What holds of both sessions from the first state to the last.
THEOREM SingleInvariant == SingleSpec => []SingleInv
BY SingleStartsRight, SingleStepKeepsInv, PTL DEF SingleSpec

\* Both are sessions: all that is proved of sessions holds of them.
THEOREM SinglesAreSessions == SingleSpec => SessionSpec
<1>1. SingleInit => SessionInit
  BY DEF SingleInit, TurnInit, DispatchInit
<1>2. SingleInv /\ [SingleNext]_singleVars => [SessionNext]_sessionVars
  BY SinglesKeepPlace DEF SingleInv
<1> QED BY <1>1, <1>2, SingleInvariant, PTL DEF SingleSpec, SessionSpec

\* A triage session's queue, rationales and outcome are what its chain shows,
\* for any platform and however calls and dispatch fail.
THEOREM TriageIsTheChain == SingleSpec => []TriageTellsTheChain
<1>1. SingleInv => TriageTellsTheChain
  <2> SUFFICES ASSUME SingleInv, kind = "triage", pc \in Over
               PROVE  TriageIsWhatTheChainShows
    BY DEF TriageTellsTheChain, TriageIsWhatTheChainShows, Over
  <2>1. Delivered /\ TriageTraced /\ Grounded /\ ~ Fresh
    BY DEF SingleInv, TriageBooks, Over, Fresh
  <2>2. /\ delivered <=> Wrote("VERIFICATION_PASS", "gate", 1)
        /\ ~ delivered => broke = DispatchError /\ ~ Wrote("PROMPT_SENT", "none", 1)
        /\ Wrote("OUTPUT_PROPOSED", "queue", 1) <=> delivered /\ broke = "none"
        /\ Wrote("VERIFICATION_PASS", "rationales", 1) =>
               \A r \in DOMAIN queue : queue[r].rationale
    BY <2>1 DEF Delivered, TriageTraced, Over
  <2>3. ASSUME NEW r \in DOMAIN queue, queue[r].rationale
        PROVE  /\ Wrote("OUTPUT_PROPOSED", "queue", 1)
               /\ \A id \in said[queue[r].case] :
                      \E q \in DOMAIN queue : queue[q].case = id /\ queue[q].subject = queue[r].subject
    BY <2>1, <2>2, <2>3 DEF Grounded, Judged, Accepted, ResolvableFor, Over
  <2> QED BY <2>2, <2>3 DEF TriageIsWhatTheChainShows
<1> QED BY <1>1, SingleInvariant, PTL

\* An evaluation's verdict is the one on its chain, and files beyond the
\* ledger's export are left only by one that was given a verdict.
THEOREM EvalIsTheChain == SingleSpec => []EvalTellsTheChain
<1>1. SingleInv => EvalTellsTheChain
  <2> SUFFICES ASSUME SingleInv, kind = "prompt_eval" PROVE EvalTellsTheChain
    BY DEF EvalTellsTheChain
  <2>1. Ruled /\ Filed
    BY DEF SingleInv, EvalBooks
  <2>2. VerdictIsOnTheChain
    BY <2>1 DEF Ruled, VerdictIsOnTheChain, WorkDone, Fresh
  <2>3. \A k \in DOMAIN written : written[k] # "ledger" =>
            \/ Wrote("VERIFICATION_PASS", "verdict", 1)
            \/ Wrote("GATE_REJECTION", "verdict", 1)
    BY <2>1 DEF Ruled, Filed
  <2> QED BY <2>2, <2>3 DEF EvalTellsTheChain
<1> QED BY <1>1, SingleInvariant, PTL

\* Both versions are graded on one answer for each item, and every answer was
\* paid for by a prompt on the chain that no failure follows.
THEOREM AnswersAreGradedInPairs == SingleSpec => []AnswersArePaired
<1>1. SingleInv => AnswersArePaired
  <2> SUFFICES ASSUME SingleInv, asked = 2 * ItemCount
               PROVE  AnswersArePaired
    BY DEF AnswersArePaired
  <2>0. kind = "prompt_eval"
    BY EvalAssumption DEF SingleInv, OneStep
  <2>1. Paired /\ Paid /\ SessionTypeOK
    BY <2>0 DEF SingleInv, EvalBooks, TurnInv, SessionInv
  <2>2. \A v \in Versions : Len(answers[v]) = ItemCount /\ bad[v] = Cardinality(UnansweredBy(v))
    BY <2>1, AnswersAreTheItems
  <2>3. /\ Cardinality(Given) \in Nat
        /\ Cardinality(EntriesOf("PROMPT_SENT", "none")) \in Nat
        /\ Cardinality(EntriesOf("VERIFICATION_FAIL", "adapter")) \in Nat
        /\ One(pc \in {"waiting", "checking"}) \in {0, 1}
    BY <2>1, AnswersAreFinite, EntriesCounted DEF One
  <2>4. Cardinality(Given) <= Cardinality(EntriesOf("PROMPT_SENT", "none"))
                                 - Cardinality(EntriesOf("VERIFICATION_FAIL", "adapter"))
    BY <2>1, <2>3 DEF Paid
  <2> QED BY <2>2, <2>4 DEF AnswersArePaired
<1> QED BY <1>1, SingleInvariant, PTL

\* Nothing is activatable that lost more of a class than is tolerated, and a
\* candidate that answered as the incumbent did is refused only for its silence.
THEOREM VerdictsFollow == SingleSpec => []VerdictFollowsTheAnswers
<1>1. SingleInv => VerdictFollowsTheAnswers
  <2> SUFFICES ASSUME SingleInv PROVE VerdictFollowsTheAnswers
    OBVIOUS
  <2>1. CASE kind = "prompt_eval"
    BY <2>1 DEF SingleInv, EvalBooks
  <2>2. CASE kind = "triage"
    BY <2>2 DEF SingleInv, VerdictFollowsTheAnswers
  <2> QED BY <2>1, <2>2 DEF SingleInv, OneStep
<1> QED BY <1>1, SingleInvariant, PTL

\* The queue can be explained, on any platform and with any limit.
THEOREM QueuesAreExplainable == SingleSpec => []QueueIsExplainable
<1>1. SingleInit => Explained
  <2> SUFFICES ASSUME SingleInit PROVE Explained
    OBVIOUS
  <2>1. platform \in Platforms /\ queue = <<>> /\ ~ delivered
    BY DEF SingleInit, TriageInit
  <2>2. Subjects(<<>>) /\ InQueueOrder(<<>>) /\ <<>> \in Seq(Channels)
    BY <2>1 DEF Subjects, InQueueOrder
  <2> QED BY <2>1, <2>2 DEF Explained
<1>2. SingleInv /\ Explained /\ [SingleNext]_singleVars => Explained'
  BY StepsExplain
<1> QED BY <1>1, <1>2, SingleInvariant, ExplainedIsExplainable, PTL DEF SingleSpec
====
