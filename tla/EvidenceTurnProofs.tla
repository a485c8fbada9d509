---- MODULE EvidenceTurnProofs ----
(***************************************************************************)
(* What module EvidenceTurn's run checks for three steps, proved for any   *)
(* budgets, estimates and mandates: an evidence session is a session, the  *)
(* chain it leaves is an audit trail, no tool runs without its own step's  *)
(* approval, and the pack, the hop records and the counts of the report    *)
(* are what the chain shows.                                               *)
(***************************************************************************)
EXTENDS SessionReport, AgentTurnProofs

(***************************************************************************)
(* The end of the trail.                                                   *)
(***************************************************************************)

\* The end of the chain, as the trail says it.
LEMMA AtIsLast ==
    \A type, note :
        At(type, note) <=> Trail!LastIs(type, {note}) /\ Trail!Turn = steps[Agent]
BY DEF At, Trail!LastIs, Trail!Last, Trail!Turn

\* An entry of the agent's is one of the trail's.
LEMMA WrittenOnTrail ==
    ASSUME SessionTypeOK, NEW type \in EventTypes,
           NEW note \in Notes \cup CloseReasons \cup {"none", "adapter"},
           log' = Append(log, Entry(type, Agent, note)), steps' = steps
    PROVE  /\ Trail!Write(type, note, Agent, steps[Agent])
           /\ At(type, note)'
BY Written DEF Trail!Write

\* Where nothing is written, the trail ends as it did.
LEMMA TrailStands ==
    ASSUME log' = log
    PROVE  /\ Trail!BetweenHops' = Trail!BetweenHops
           /\ Trail!Broken' = Trail!Broken
           /\ Trail!Turn' = Trail!Turn
BY DEF Trail!BetweenHops, Trail!Broken, Trail!LastIs, Trail!Last, Trail!Turn

\* Which ends leave nothing underway, and which broke the hop.
LEMMA Ending ==
    /\ At("VERIFICATION_FAIL", "proposal") \/ At("HUMAN_DECISION", "reject")
           \/ At("VERIFICATION_PASS", "gate") => Trail!BetweenHops
    /\ At("TOOL_RESULT", "raised") \/ At("GATE_REJECTION", "schema")
           \/ At("GATE_REJECTION", "gate") \/ At("VERIFICATION_FAIL", "adapter")
       => Trail!Broken
BY DEF At, Trail!BetweenHops, Trail!Broken, Trail!LastIs, Trail!Last

\* Where the turn is tells how the trail ends.
OnTrail ==
    /\ pc = "loop" => Trail!BetweenHops /\ Trail!Turn = steps[Agent]
    /\ pc = "prompt" => Trail!BetweenHops /\ Trail!NextTurn = steps[Agent]
    /\ pc \in {"waiting", "checking"} => At("PROMPT_SENT", "none")
    /\ pc = "unavailable" =>
           Trail!BetweenHops \/ (At("VERIFICATION_FAIL", "adapter") /\ reply = DispatchError)
    /\ pc = "refused" => At("VERIFICATION_FAIL", "proposal")
    /\ pc \in {"accepted", "reviewing"} => At("VERIFICATION_PASS", "proposal")
    /\ pc = "declined" => At("HUMAN_DECISION", "reject")
    /\ pc = "approved" => At("HUMAN_DECISION", "approve")
    /\ pc = "ended" => Trail!BetweenHops \/ (Trail!Broken /\ broke = DispatchError)
    /\ pc = "closing" => Trail!BetweenHops \/ (Trail!Broken /\ closing = DispatchError)

\* Dispatching the act writes what the trail allows.
LEMMA DispatchKeepsTrail ==
    ASSUME TurnInv, OnTrail, RunAct
    PROVE  [Trail!TrailNext]_log /\ OnTrail'
<1>1. pc' = "dispatching" /\ ActStep /\ SessionTypeOK
  BY ActRuns DEF RunAct, Go, TurnInv, SessionInv
<1>2. OnTrail'
  BY <1>1 DEF OnTrail
<1>3. ASSUME NEW type \in DispatchEvents, NEW note \in DispatchNotes,
             log' = Append(log, Entry(type, Agent, note)), ActWrites(type, note)
      PROVE  Trail!TrailNext
  <2>1. note \in Notes /\ type \in EventTypes /\ steps' = steps
    BY <1>1, WritesAssumption, WorkEventsAssumption DEF ActStep
  <2>2. Trail!Write(type, note, Agent, steps[Agent])
    BY <1>1, <1>3, <2>1, WrittenOnTrail
  <2>3. CASE pc = "approved" /\ type = "TOOL_CALLED" /\ note = Act.tool
    <3>1. At("HUMAN_DECISION", "approve")
      BY <2>3 DEF OnTrail
    <3>2. Trail!Run
      BY <2>2, <2>3, <3>1, AtIsLast DEF Trail!Run, Trail!Note
    <3> QED BY <3>2 DEF Trail!TrailNext
  <2>4. CASE At("TOOL_CALLED", Act.tool) /\ type = "TOOL_RESULT" /\ note \in {"ok", "raised"}
    <3>1. Trail!Return
      BY <2>2, <2>4, AtIsLast DEF Trail!Return, Trail!Note, Trail!LastIs
    <3> QED BY <3>1 DEF Trail!TrailNext
  <2>5. CASE \/ /\ At("TOOL_RESULT", "ok")
                /\ \/ type = "VERIFICATION_PASS" /\ note = "gate"
                   \/ type = "VERIFICATION_FAIL" /\ note \in {"gate", "schema"}
             \/ /\ At("VERIFICATION_FAIL", note)
                /\ type = "GATE_REJECTION" /\ note \in {"gate", "schema"}
    <3>1. Trail!Gate
      BY <2>2, <2>5, AtIsLast DEF Trail!Gate, Trail!Note, Trail!LastIs
    <3> QED BY <3>1 DEF Trail!TrailNext
  <2> QED BY <1>3, <2>3, <2>4, <2>5 DEF ActWrites
<1> QED BY <1>1, <1>2, <1>3 DEF ActStep

(***************************************************************************)
(* An evidence session is a session, and its chain a trail.                *)
(***************************************************************************)
EvidenceInv == TurnInv /\ OnTrail

\* The steps outside dispatch that write an entry write what the trail allows.
LEMMA WritingKeepsTrail ==
    ASSUME EvidenceInv, OpenSession \/ AskModel \/ ModelResponds \/ CheckProposal \/ Decide
    PROVE  [Trail!TrailNext]_log /\ OnTrail'
<1> USE TurnAssumption, SessionAssumption
<1>0. SessionTypeOK /\ TurnPlace /\ OnTrail /\ log \in Seq(Entries)
  BY DEF EvidenceInv, TurnInv, SessionInv, SessionTypeOK
<1>1. CASE OpenSession
  <2>1. /\ log = <<>> /\ steps' = steps /\ steps[Agent] = 0 /\ pc' = "loop"
        /\ log' = Append(log, Entry("SESSION_OPEN", Nobody, "none"))
    BY <1>0, <1>1 DEF OpenSession, SessionOpen, Record, Go, budgetVars, TurnPlace
  <2>2. /\ Entry("SESSION_OPEN", Nobody, "none") \in Entries
        /\ Entry("SESSION_OPEN", Nobody, "none")
              = [type |-> "SESSION_OPEN", agent |-> Nobody, turn |-> 0, note |-> "none"]
    BY <1>0, EntryIsEntry DEF EventTypes, Entry
  <2>3. log' # <<>> /\ log'[Len(log')] = Entry("SESSION_OPEN", Nobody, "none")
    BY <1>0, <2>1, <2>2, AppendProperties
  <2>4. Trail!Open
    BY <2>1, <2>2 DEF Trail!Open, Trail!Write
  <2>5. Trail!BetweenHops' /\ Trail!Turn' = steps'[Agent]
    BY <2>1, <2>2, <2>3 DEF Trail!BetweenHops, Trail!LastIs, Trail!Last, Trail!Turn
  <2> QED BY <2>1, <2>4, <2>5 DEF OnTrail, Trail!TrailNext
<1>2. CASE AskModel
  <2>1. PICK estimate \in Estimates : SendPrompt(Agent, estimate)
    BY <1>2 DEF AskModel
  <2>2. /\ pc = "prompt" /\ steps' = steps
        /\ pc' = IF reply' = Granted THEN "waiting" ELSE "unavailable"
        /\ IF reply' = Granted
           THEN log' = Append(log, Entry("PROMPT_SENT", Agent, "none")) ELSE log' = log
    BY <1>2, <2>1 DEF AskModel, SendPrompt, Record, Go, budgetVars, chainVars
  <2>3. CASE reply' = Granted
    <3>1. Trail!Write("PROMPT_SENT", "none", Agent, steps[Agent]) /\ At("PROMPT_SENT", "none")'
      BY <1>0, <2>2, <2>3, WrittenOnTrail DEF EventTypes
    <3>2. Trail!Ask
      BY <1>0, <2>2, <3>1 DEF OnTrail, Trail!Ask
    <3> QED BY <2>2, <2>3, <3>1, <3>2 DEF OnTrail, Trail!TrailNext
  <2>4. CASE reply' # Granted
    <3>1. Trail!BetweenHops'
      BY <1>0, <2>2, <2>4, TrailStands DEF OnTrail
    <3> QED BY <2>2, <2>4, <3>1 DEF OnTrail
  <2> QED BY <2>3, <2>4
<1>3. CASE ModelResponds
  <2>1. pc = "waiting" /\ pending.agent = Agent /\ At("PROMPT_SENT", "none")
    BY <1>0, <1>3 DEF ModelResponds, TurnPlace, OnTrail
  <2>2. CASE \/ (\E usage \in Usages : ModelAnswers(usage)) /\ Go("checking")
             \/ ModelRetries /\ Go("waiting")
    <3>1. log' = log /\ steps' = steps /\ pc' \in {"checking", "waiting"}
      BY <2>2 DEF ModelAnswers, ModelRetries, Go, chainVars, budgetVars
    <3>2. At("PROMPT_SENT", "none")'
      BY <2>1, <3>1, Standing
    <3> QED BY <3>1, <3>2 DEF OnTrail
  <2>3. CASE ModelFails /\ Go("unavailable")
    <3>1. /\ log' = Append(log, Entry("VERIFICATION_FAIL", Agent, "adapter")) /\ steps' = steps
          /\ pc' = "unavailable" /\ reply' = DispatchError
      BY <2>1, <2>3 DEF ModelFails, Record, Go, budgetVars
    <3>2. /\ Trail!Write("VERIFICATION_FAIL", "adapter", Agent, steps[Agent])
          /\ At("VERIFICATION_FAIL", "adapter")'
      BY <1>0, <3>1, WrittenOnTrail DEF EventTypes
    <3>3. Trail!Judge
      BY <2>1, <3>2, AtIsLast DEF Trail!Judge, Trail!Note
    <3> QED BY <3>1, <3>2, <3>3 DEF OnTrail, Trail!TrailNext
  <2> QED BY <1>3, <2>2, <2>3 DEF ModelResponds
<1>4. CASE CheckProposal
  <2>1. At("PROMPT_SENT", "none") /\ "proposal" \in Notes
    BY <1>0, <1>4, EvidenceWritesAssumption DEF CheckProposal, OnTrail
  <2>2. CASE AppendEvent("VERIFICATION_PASS", Agent, "proposal") /\ Go("accepted")
    <3>1. /\ Trail!Write("VERIFICATION_PASS", "proposal", Agent, steps[Agent])
          /\ At("VERIFICATION_PASS", "proposal")' /\ pc' = "accepted"
      BY <1>0, <2>1, <2>2, WrittenOnTrail DEF EventTypes, AppendEvent, Record, Go, budgetVars
    <3>2. Trail!Judge
      BY <2>1, <3>1, AtIsLast DEF Trail!Judge, Trail!Note
    <3> QED BY <3>1, <3>2 DEF OnTrail, Trail!TrailNext
  <2>3. CASE AppendEvent("VERIFICATION_FAIL", Agent, "proposal") /\ Go("refused")
    <3>1. /\ Trail!Write("VERIFICATION_FAIL", "proposal", Agent, steps[Agent])
          /\ At("VERIFICATION_FAIL", "proposal")' /\ pc' = "refused"
      BY <1>0, <2>1, <2>3, WrittenOnTrail DEF EventTypes, AppendEvent, Record, Go, budgetVars
    <3>2. Trail!Judge
      BY <2>1, <3>1, AtIsLast DEF Trail!Judge, Trail!Note
    <3> QED BY <3>1, <3>2 DEF OnTrail, Trail!TrailNext
  <2> QED BY <1>4, <2>2, <2>3 DEF CheckProposal
<1>5. CASE Decide
  <2>1. At("VERIFICATION_PASS", "proposal") /\ {"approve", "reject"} \subseteq Notes
    BY <1>0, <1>5, EvidenceWritesAssumption DEF Decide, OnTrail
  <2>2. PICK decision \in {"approve", "reject"} :
            /\ AppendEvent("HUMAN_DECISION", Agent, decision)
            /\ Go(AfterDecision(decision))
    BY <1>5 DEF Decide
  <2>3. /\ Trail!Write("HUMAN_DECISION", decision, Agent, steps[Agent])
        /\ At("HUMAN_DECISION", decision)'
        /\ pc' = IF decision = "approve" THEN "approved" ELSE "declined"
    BY <1>0, <2>1, <2>2, WrittenOnTrail
    DEF EventTypes, AppendEvent, Record, Go, budgetVars, AfterDecision
  <2>4. Trail!Decide
    BY <2>1, <2>3, AtIsLast DEF Trail!Decide, Trail!Note
  <2>5. CASE decision = "approve"
    BY <2>3, <2>4, <2>5 DEF OnTrail, Trail!TrailNext
  <2>6. CASE decision = "reject"
    BY <2>3, <2>4, <2>6 DEF OnTrail, Trail!TrailNext
  <2> QED BY <2>5, <2>6
<1> QED BY <1>1, <1>2, <1>3, <1>4, <1>5

\* The steps that move the turn on, and the end of the session.
LEMMA MovingKeepsTrail ==
    ASSUME EvidenceInv,
           BeginHop \/ HopUnavailable \/ HopRefused \/ HopRejected \/ HopDispatched
               \/ AwaitReview \/ CloseSession
    PROVE  [Trail!TrailNext]_log /\ OnTrail'
<1> USE TurnAssumption
<1>0. SessionTypeOK /\ TurnPlace /\ OnTrail /\ log \in Seq(Entries) /\ steps \in [Agents -> Nat]
  BY DEF EvidenceInv, TurnInv, SessionInv, SessionTypeOK
<1>1. CASE BeginHop
  <2>1. /\ pc = "loop" /\ BeginTurn(Agent, 0) /\ log' = log
        /\ \/ pc' = "prompt" /\ reply' = Granted
           \/ pc' = "ended" /\ reply' # Granted
    BY <1>1 DEF BeginHop, BeginAttempt, BeginAttemptAt, BeginTurn, chainVars
  <2>2. reply' = Granted => steps'[Agent] = steps[Agent] + 1
    BY <1>0, <2>1 DEF BeginTurn
  <2>3. Trail!BetweenHops' /\ Trail!Turn' = steps[Agent]
    BY <1>0, <2>1, TrailStands DEF OnTrail
  <2> QED BY <2>1, <2>2, <2>3 DEF OnTrail, Trail!NextTurn
<1>2. CASE HopUnavailable
  <2>1. /\ pc = "unavailable" /\ log' = log /\ steps' = steps /\ pc' = "ended" /\ broke' = reply
    BY <1>2 DEF HopUnavailable, ModelUnavailable, BackToOpen, chainVars, budgetVars
  <2>2. \/ Trail!BetweenHops
        \/ Trail!Broken /\ reply = DispatchError
    BY <1>0, <2>1, Ending DEF OnTrail
  <2> QED BY <2>1, <2>2, TrailStands DEF OnTrail
<1>3. CASE HopRefused \/ HopRejected
  <2>1. /\ pc \in {"refused", "declined"} /\ log' = log /\ steps' = steps /\ pc' = "loop"
    BY <1>3 DEF HopRefused, HopRejected, AttemptRefused, LeaveRefused, BackToOpen, Go,
                chainVars, budgetVars
  <2>2. Trail!BetweenHops /\ Trail!Turn = steps[Agent]
    BY <1>0, <2>1, Ending, AtIsLast DEF OnTrail
  <2> QED BY <2>1, <2>2, TrailStands DEF OnTrail
<1>4. CASE HopDispatched
  <2>1. /\ pc = "dispatching" /\ dpc = "idle" /\ log' = log /\ steps' = steps
        /\ IF Executed THEN pc' = "loop" ELSE pc' = "ended" /\ broke' = DispatchError
    BY <1>4 DEF HopDispatched, ActReturned, BackToOpen, Delivered, HopFailed, chainVars,
                budgetVars
  <2>2. IF Executed THEN At("VERIFICATION_PASS", "gate") ELSE Trail!Broken
    BY <2>1, ActEnds, Ending DEF EvidenceInv, ActReturned, Fresh
  <2>3. CASE Executed
    BY <2>1, <2>2, <2>3, Ending, AtIsLast, TrailStands DEF OnTrail
  <2>4. CASE ~ Executed
    BY <2>1, <2>2, <2>4, TrailStands DEF OnTrail
  <2> QED BY <2>3, <2>4
<1>5. CASE AwaitReview
  <2>1. /\ pc = "accepted" /\ log' = log /\ steps' = steps /\ pc' = "reviewing"
    BY <1>5 DEF AwaitReview, AwaitAnalyst, Go, chainVars, budgetVars
  <2>2. At("VERIFICATION_PASS", "proposal")'
    BY <1>0, <2>1, Standing DEF OnTrail
  <2> QED BY <2>1, <2>2 DEF OnTrail
<1>6. CASE CloseSession
  <2>1. CASE TurnEnded /\ StartClose(CloseReason) /\ Go("closing")
    <3>1. /\ pc \in {"loop", "ended"} /\ log' = log /\ pc' = "closing"
          /\ closing' = CloseReason
      BY <2>1 DEF TurnEnded, StartClose, Go, chainVars
    <3>2. Trail!BetweenHops \/ (Trail!Broken /\ CloseReason = DispatchError)
      BY <1>0, <3>1 DEF OnTrail, CloseReason, DispatchError
    <3> QED BY <3>1, <3>2, TrailStands DEF OnTrail
  <2>2. CASE pc = "closing" /\ FinishClose /\ Go("done")
    <3>1. /\ log' = Append(log, Entry("SESSION_CLOSE", Nobody, closing)) /\ pc' = "done"
          /\ closing \in CloseReasons
      BY <1>0, <2>2 DEF FinishClose, Record, Go, TurnPlace
    <3>2. Trail!Write("SESSION_CLOSE", closing, Nobody, 0)
      BY <3>1, SessionAssumption DEF Trail!Write, Entry
    <3>3. \/ Trail!BetweenHops
          \/ Trail!Broken /\ closing = DispatchError
      BY <1>0, <2>2 DEF OnTrail
    <3>4. ~ (Trail!BetweenHops /\ Trail!Broken)
      BY DEF Trail!BetweenHops, Trail!Broken, Trail!LastIs
    <3>5. Trail!Close
      BY <3>1, <3>2, <3>3, <3>4 DEF Trail!Close, DispatchError
    <3> QED BY <3>1, <3>5 DEF OnTrail, Trail!TrailNext
  <2> QED BY <1>6, <2>1, <2>2 DEF CloseSession
<1> QED BY <1>1, <1>2, <1>3, <1>4, <1>5, <1>6

\* Every step of an evidence session is one a session may take and keeps the
\* turn in its place.
LEMMA HopsKeepPlace ==
    ASSUME EvidenceInv, [EvidenceNext]_evidenceVars
    PROVE  [SessionNext]_sessionVars /\ TurnInv'
<1> USE TurnAssumption
<1>0. TurnInv /\ TurnPlace
  BY DEF EvidenceInv, TurnInv
<1>1. CASE BeginHop \/ OpenSession \/ CloseSession
  BY <1>0, <1>1, TurnBeginsAndEnds DEF BeginHop, BeginAttempt
<1>2. CASE HopUnavailable \/ HopRefused \/ AskModel \/ ModelResponds
  BY <1>0, <1>2, TurnAsks DEF HopUnavailable, HopRefused
<1>3. CASE HopRejected \/ HopDispatched \/ AwaitReview
  <2>1. /\ pc \in InAttempt \ {"waiting"} /\ dpc = "idle" /\ SessionOnly
        /\ \/ BackToOpen /\ pc' \in {"loop", "ended"}
           \/ AwaitAnalyst /\ pc' = "reviewing"
        /\ broke' \in CloseReasons \cup {"none"}
    BY <1>0, <1>3
    DEF HopRejected, HopDispatched, HopFailed, AwaitReview, ActReturned, Go, InAttempt,
        TurnPlace, CloseReasons
  <2> QED BY <1>0, <2>1, TurnMoves
<1>4. CASE CheckProposal \/ Decide
  <2>1. /\ {"VERIFICATION_PASS", "VERIFICATION_FAIL", "HUMAN_DECISION"} \subseteq WorkEvents
        /\ {"proposal", "approve", "reject"} \subseteq Notes
    BY EvidenceWritesAssumption, WritesAssumption DEF DispatchEvents
  <2>2. PICK type \in WorkEvents, note \in Notes : AppendEvent(type, Agent, note)
    BY <1>4, <2>1 DEF CheckProposal, Decide
  <2>3. /\ pc \in InAttempt \ {"waiting", "dispatching"} /\ SessionOnly /\ broke' = broke
        /\ pc' \in {"checking", "refused", "accepted", "declined", "approved"}
    BY <1>4 DEF CheckProposal, Decide, Go, AfterDecision, InAttempt
  <2> QED BY <1>0, <2>2, <2>3, TurnRecords
<1>5. CASE RunAct
  BY <1>0, <1>5, TurnDispatches
<1>6. CASE (Crash /\ UNCHANGED <<dispatchVars, turnVars, hops, pack>>) \/ UNCHANGED evidenceVars
  BY <1>0, <1>6, TurnCrashes DEF evidenceVars, sessionTurnVars, allDispatchVars
<1> QED BY <1>1, <1>2, <1>3, <1>4, <1>5, <1>6 DEF EvidenceNext, EvidenceStep

\* And it writes nothing but what the trail allows.
LEMMA HopsKeepTrail ==
    ASSUME EvidenceInv, [EvidenceNext]_evidenceVars
    PROVE  [Trail!TrailNext]_log /\ OnTrail'
<1>1. CASE BeginHop \/ HopUnavailable \/ HopRefused \/ HopRejected \/ HopDispatched
               \/ AwaitReview \/ CloseSession
  BY <1>1, MovingKeepsTrail
<1>2. CASE OpenSession \/ AskModel \/ ModelResponds \/ CheckProposal \/ Decide
  BY <1>2, WritingKeepsTrail
<1>3. CASE RunAct
  BY <1>3, DispatchKeepsTrail DEF EvidenceInv
<1>4. CASE (Crash /\ UNCHANGED <<dispatchVars, turnVars, hops, pack>>) \/ UNCHANGED evidenceVars
  <2>1. /\ UNCHANGED <<log, steps, reply, closing, pc, broke>>
        /\ OnTrail
    BY <1>4
    DEF Crash, evidenceVars, sessionTurnVars, allDispatchVars, sessionVars, chainVars,
        callVars, closeVars, budgetVars, turnVars, EvidenceInv
  <2>2. Trail!NextTurn' = Trail!NextTurn
    BY <2>1 DEF Trail!NextTurn, Trail!Turn, Trail!Last
  <2> QED BY <2>1, <2>2, TrailStands, Standing DEF OnTrail
<1> QED BY <1>1, <1>2, <1>3, <1>4 DEF EvidenceNext, EvidenceStep

\* Where the turn is tells where everything else is, for any budgets.
THEOREM EvidenceInvariant == EvidenceSpec => []EvidenceInv
<1>1. EvidenceInit => EvidenceInv
  <2> SUFFICES ASSUME EvidenceInit PROVE EvidenceInv
    OBVIOUS
  <2>1. TurnInv /\ pc = "unopened"
    BY TurnStartsRight DEF EvidenceInit, TurnInit
  <2> QED BY <2>1 DEF EvidenceInv, OnTrail
<1>2. EvidenceInv /\ [EvidenceNext]_evidenceVars => EvidenceInv'
  BY HopsKeepPlace, HopsKeepTrail DEF EvidenceInv
<1> QED BY <1>1, <1>2, PTL DEF EvidenceSpec

\* An evidence session is a session: all that is proved of sessions holds of it.
THEOREM EvidenceIsASession == EvidenceSpec => SessionSpec
<1>1. EvidenceInit => SessionInit
  BY DEF EvidenceInit, TurnInit, DispatchInit
<1>2. EvidenceInv /\ [EvidenceNext]_evidenceVars => [SessionNext]_sessionVars
  BY HopsKeepPlace
<1> QED BY <1>1, <1>2, EvidenceInvariant, PTL DEF EvidenceSpec, SessionSpec

\* The chain of an evidence session is a trail an auditor may rely on: the turn
\* implements AuditTrail, entry by entry, for any budgets and any mandate.
THEOREM EvidenceKeepsAuditTrail == EvidenceSpec => KeepsAuditTrail
<1>1. EvidenceInit => Trail!TrailInit
  BY DEF EvidenceInit, TurnInit, DispatchInit, SessionInit, Trail!TrailInit
<1>2. EvidenceInv /\ [EvidenceNext]_evidenceVars => [Trail!TrailNext]_log
  BY HopsKeepTrail
<1> QED BY <1>1, <1>2, EvidenceInvariant, PTL
        DEF EvidenceSpec, KeepsAuditTrail, Trail!TrailSpec

(***************************************************************************)
(* The analyst's approval.                                                 *)
(***************************************************************************)

\* The stages of a hop that follow another stage of the same hop ...
Staged(entry) ==
    \/ entry.type = "VERIFICATION_PASS" /\ entry.note = "proposal"
    \/ entry.type = "HUMAN_DECISION" /\ entry.note = "approve"
    \/ entry.type = "TOOL_CALLED"

\* ... which is this one.
Precedes(prior, entry) ==
    /\ prior.turn = entry.turn
    /\ entry.type = "VERIFICATION_PASS" => prior.type = "PROMPT_SENT"
    /\ entry.type = "HUMAN_DECISION" =>
           prior.type = "VERIFICATION_PASS" /\ prior.note = "proposal"
    /\ entry.type = "TOOL_CALLED" =>
           prior.type = "HUMAN_DECISION" /\ prior.note = "approve"

Ordered ==
    \A i \in DOMAIN log : Staged(log[i]) => i > 1 /\ Precedes(log[i - 1], log[i])

\* A trail grows by entries that follow what they must.
LEMMA TrailGrowsInOrder ==
    ASSUME Trail!TrailNext
    PROVE  \E entry :
               /\ log' = Append(log, entry)
               /\ Staged(entry) => log # <<>> /\ Precedes(Trail!Last, entry)
<1> USE DEF Staged, Precedes
<1>1. CASE Trail!Open \/ Trail!Ask \/ Trail!Close
  <2>1. PICK type, note, agent, turn :
            /\ type \in {"SESSION_OPEN", "PROMPT_SENT", "SESSION_CLOSE"}
            /\ Trail!Write(type, note, agent, turn)
    BY <1>1 DEF Trail!Open, Trail!Ask, Trail!Close
  <2> QED BY <2>1 DEF Trail!Write
<1>2. CASE Trail!Judge
  BY <1>2 DEF Trail!Judge, Trail!Note, Trail!Write, Trail!LastIs, Trail!Turn
<1>3. CASE Trail!Decide
  <2>1. PICK decision \in {"approve", "reject"} : Trail!Note("HUMAN_DECISION", decision)
    BY <1>3 DEF Trail!Decide
  <2> QED BY <1>3, <2>1 DEF Trail!Decide, Trail!Note, Trail!Write, Trail!LastIs, Trail!Turn
<1>4. CASE Trail!Run
  BY <1>4 DEF Trail!Run, Trail!Note, Trail!Write, Trail!LastIs, Trail!Turn
<1>5. CASE Trail!Return
  <2>1. PICK how \in {"ok", "raised"} : Trail!Note("TOOL_RESULT", how)
    BY <1>5 DEF Trail!Return
  <2> QED BY <2>1 DEF Trail!Note, Trail!Write
<1>6. CASE Trail!Gate
  <2>1. PICK type, note :
            /\ type \in {"VERIFICATION_PASS", "VERIFICATION_FAIL", "GATE_REJECTION"}
            /\ Trail!Note(type, note) /\ (type = "VERIFICATION_PASS" => note = "gate")
    BY <1>6 DEF Trail!Gate
  <2> QED BY <2>1 DEF Trail!Note, Trail!Write
<1> QED BY <1>1, <1>2, <1>3, <1>4, <1>5, <1>6 DEF Trail!TrailNext

\* So the order, once kept, stays kept.
LEMMA TrailKeepsOrder ==
    ASSUME SessionTypeOK, Ordered, [Trail!TrailNext]_log
    PROVE  Ordered'
<1>1. CASE log' = log
  BY <1>1 DEF Ordered
<1>2. CASE Trail!TrailNext
  <2>1. PICK entry : /\ log' = Append(log, entry)
                     /\ Staged(entry) => log # <<>> /\ Precedes(Trail!Last, entry)
    BY <1>2, TrailGrowsInOrder
  <2>2. /\ log \in Seq(Entries) /\ Len(log) \in Nat
        /\ DOMAIN log' = 1 .. Len(log) + 1 /\ DOMAIN log = 1 .. Len(log)
        /\ \A i \in 1 .. Len(log) : log'[i] = log[i]
        /\ log'[Len(log) + 1] = entry
        /\ log # <<>> => Len(log) > 0
    BY <2>1, EmptySeq DEF SessionTypeOK
  <2> DEFINE Follows(i, s) == Staged(s[i]) => i > 1 /\ Precedes(s[i - 1], s[i])
  <2>3. ASSUME NEW i \in 1 .. Len(log) PROVE Follows(i, log')
    <3>1. Follows(i, log) /\ log'[i] = log[i]
      BY <2>2, <2>3 DEF Ordered
    <3>2. i > 1 => log'[i - 1] = log[i - 1]
      BY <2>2, <2>3
    <3> QED BY <3>1, <3>2
  <2>4. Follows(Len(log) + 1, log')
    <3>1. log # <<>> => /\ Len(log) + 1 > 1
                        /\ log'[(Len(log) + 1) - 1] = Trail!Last
      BY <2>2 DEF Trail!Last
    <3> QED BY <2>1, <2>2, <3>1
  <2>5. \A i \in DOMAIN log' : Follows(i, log')
    BY <2>2, <2>3, <2>4
  <2> QED BY <2>5 DEF Ordered
<1> QED BY <1>1, <1>2

\* No tool runs on anything but its own step's approval of a checked proposal,
\* in any evidence session.
THEOREM HumansApprove == EvidenceSpec => []HumanApprovesEveryRun
<1>1. EvidenceInit => Ordered
  <2>1. EvidenceInit => DOMAIN log = {}
    BY DEF EvidenceInit, TurnInit, DispatchInit, SessionInit
  <2> QED BY <2>1 DEF Ordered
<1>2. EvidenceInv /\ Ordered /\ [EvidenceNext]_evidenceVars => Ordered'
  BY HopsKeepTrail, TrailKeepsOrder DEF EvidenceInv, TurnInv, SessionInv
<1>3. EvidenceInv /\ Ordered => HumanApprovesEveryRun
  <2> SUFFICES ASSUME EvidenceInv, Ordered, NEW i \in DOMAIN log,
                      log[i].type = "TOOL_CALLED"
               PROVE  /\ i > 3
                      /\ \A j \in 1 .. 3 : log[i - j].turn = log[i].turn
                      /\ log[i - 3].type = "PROMPT_SENT"
                      /\ log[i - 2].type = "VERIFICATION_PASS" /\ log[i - 2].note = "proposal"
                      /\ log[i - 1].type = "HUMAN_DECISION" /\ log[i - 1].note = "approve"
    BY DEF HumanApprovesEveryRun
  <2> USE DEF Ordered, Staged, Precedes
  <2>1. DOMAIN log = 1 .. Len(log) /\ Len(log) \in Nat
    BY DEF EvidenceInv, TurnInv, SessionInv, SessionTypeOK
  <2>2. /\ i > 1 /\ log[i - 1].turn = log[i].turn /\ i - 1 \in DOMAIN log
        /\ log[i - 1].type = "HUMAN_DECISION" /\ log[i - 1].note = "approve"
    BY <2>1
  <2>3. /\ i - 1 > 1 /\ log[(i - 1) - 1].turn = log[i].turn /\ i - 2 \in DOMAIN log
        /\ log[(i - 1) - 1].type = "VERIFICATION_PASS" /\ log[(i - 1) - 1].note = "proposal"
    BY <2>1, <2>2
  <2>4. (i - 1) - 1 = i - 2 /\ (i - 2) - 1 = i - 3 /\ i \in Int
    BY <2>1
  <2>5. /\ i - 2 > 1 /\ log[i - 3].turn = log[i].turn
        /\ log[i - 3].type = "PROMPT_SENT"
    BY <2>1, <2>3, <2>4
  <2> QED BY <2>2, <2>3, <2>4, <2>5
<1> QED BY <1>1, <1>2, <1>3, EvidenceInvariant, PTL DEF EvidenceSpec

(***************************************************************************)
(* The pack.                                                               *)
(***************************************************************************)

InPack(turn) == \E k \in DOMAIN pack : pack[k] = turn

\* The pack's steps are past, rise, and are those the chain shows accepted, but
\* for the one in hand.
Packed ==
    /\ pack \in Seq(Nat)
    /\ \A k \in DOMAIN pack :
           pack[k] <= steps[Agent] /\ (pc \in InAttempt => pack[k] < steps[Agent])
    /\ \A k \in 1 .. Len(pack) - 1 : pack[k] < pack[k + 1]
    /\ \A turn \in Nat :
           Wrote("VERIFICATION_PASS", "gate", turn)
               <=> InPack(turn) \/ (Fresh /\ turn = steps[Agent])

Acceptance(entry) == entry.type = "VERIFICATION_PASS" /\ entry.note = "gate"

\* A step that leaves the pack alone and writes no acceptance.
LEMMA PackStands ==
    ASSUME SessionTypeOK, Packed, pack' = pack, Fresh' <=> Fresh,
           steps'[Agent] = steps[Agent],
           log' = log \/ \E entry : log' = Append(log, entry) /\ ~ Acceptance(entry),
           pc' \in InAttempt => pc \in InAttempt
    PROVE  Packed'
<1>1. ASSUME NEW turn \in Nat
      PROVE  Wrote("VERIFICATION_PASS", "gate", turn)'
                 <=> Wrote("VERIFICATION_PASS", "gate", turn)
  <2>1. CASE log' = log
    BY <2>1 DEF Wrote
  <2>2. CASE log' # log
    BY <2>2, WroteGrows DEF Acceptance
  <2> QED BY <2>1, <2>2
<1>2. \A turn \in Nat : InPack(turn)' <=> InPack(turn)
  BY DEF InPack
<1>3. \A turn \in Nat :
          Wrote("VERIFICATION_PASS", "gate", turn)'
              <=> InPack(turn)' \/ (Fresh' /\ turn = steps'[Agent])
  BY <1>1, <1>2, Zenon DEF Packed
<1>4. /\ pack' \in Seq(Nat)
      /\ \A k \in DOMAIN pack' :
             pack'[k] <= steps'[Agent] /\ (pc' \in InAttempt => pack'[k] < steps'[Agent])
      /\ \A k \in 1 .. Len(pack') - 1 : pack'[k] < pack'[k + 1]
  BY DEF Packed
<1> QED BY <1>3, <1>4 DEF Packed

\* Dispatch writes an acceptance just when it makes the step's result fresh.
LEMMA DispatchKeepsPack ==
    ASSUME TurnInv, Packed, RunAct, pack' = pack
    PROVE  Packed'
<1>1. /\ pc \in InAttempt /\ pc' \in InAttempt /\ steps' = steps /\ SessionTypeOK
  BY ActAccepts DEF TurnInv, SessionInv, InAttempt
<1>2. CASE log' = log /\ (Fresh' <=> Fresh)
  BY <1>1, <1>2, PackStands
<1>3. CASE ~ Fresh /\ \E type \in DispatchEvents, note \in DispatchNotes :
              /\ log' = Append(log, [type |-> type, agent |-> Agent,
                                     turn |-> steps[Agent], note |-> note])
              /\ Fresh' <=> type = "VERIFICATION_PASS" /\ note = "gate"
  <2>1. PICK type \in DispatchEvents, note \in DispatchNotes :
              /\ log' = Append(log, [type |-> type, agent |-> Agent,
                                     turn |-> steps[Agent], note |-> note])
              /\ Fresh' <=> type = "VERIFICATION_PASS" /\ note = "gate"
    BY <1>3
  <2>2. CASE ~ Fresh'
    <3>1. \E entry : log' = Append(log, entry) /\ ~ Acceptance(entry)
      BY <2>1, <2>2 DEF Acceptance
    <3> QED BY <1>1, <1>3, <2>2, <3>1, PackStands
  <2>3. CASE Fresh'
    <3>1. PICK entry : /\ log' = Append(log, entry) /\ entry.turn = steps[Agent]
                       /\ entry.type = "VERIFICATION_PASS" /\ entry.note = "gate"
      BY <2>1, <2>3
    <3>2. \A turn \in Nat : Wrote("VERIFICATION_PASS", "gate", turn)'
              <=> Wrote("VERIFICATION_PASS", "gate", turn) \/ turn = steps[Agent]
      BY <1>1, <3>1, WroteGrows
    <3>3. \A turn \in Nat : InPack(turn)' <=> InPack(turn)
      BY DEF InPack
    <3>4. \A turn \in Nat :
              Wrote("VERIFICATION_PASS", "gate", turn)'
                  <=> InPack(turn)' \/ (Fresh' /\ turn = steps'[Agent])
      BY <1>1, <1>3, <2>3, <3>2, <3>3, Zenon DEF Packed
    <3> QED BY <1>1, <3>4 DEF Packed
  <2> QED BY <2>2, <2>3
<1> QED BY <1>2, <1>3, ActAccepts

\* A hop that executed puts its own step into the pack.
LEMMA DeliveryKeepsPack ==
    ASSUME TurnInv, Packed, HopDispatched
    PROVE  Packed'
<1> USE TurnAssumption
<1>0. /\ SessionTypeOK /\ pc = "dispatching" /\ dpc = "idle" /\ pc \in InAttempt
      /\ UNCHANGED <<log, steps>> /\ pc' \in {"loop", "ended"} /\ pc' \notin InAttempt
      /\ steps[Agent] \in Nat
      /\ Fresh <=> Executed
  BY ActEnds
  DEF TurnInv, SessionInv, HopDispatched, ActReturned, BackToOpen, Delivered, HopFailed,
      chainVars, budgetVars, InAttempt, SessionTypeOK
<1>1. ~ Fresh'
  BY <1>0 DEF Fresh
<1>2. CASE ~ Executed
  <2>1. pack' = pack
    BY <1>2 DEF HopDispatched, Delivered
  <2> QED BY <1>0, <1>1, <1>2, <2>1, PackStands
<1>3. CASE Executed
  <2>1. pack' = Append(pack, steps[Agent])
    BY <1>3 DEF HopDispatched, Delivered
  <2>2. /\ pack \in Seq(Nat) /\ pack' \in Seq(Nat) /\ Len(pack) \in Nat
        /\ Len(pack') = Len(pack) + 1 /\ DOMAIN pack = 1 .. Len(pack)
        /\ DOMAIN pack' = 1 .. Len(pack) + 1
        /\ \A k \in 1 .. Len(pack) : pack'[k] = pack[k] /\ pack[k] \in Nat
        /\ pack'[Len(pack) + 1] = steps[Agent]
    BY <1>0, <2>1 DEF Packed
  <2>3. \A k \in DOMAIN pack : pack[k] < steps[Agent]
    BY <1>0 DEF Packed
  <2>4. \A k \in DOMAIN pack' : pack'[k] <= steps'[Agent]
    <3> SUFFICES ASSUME NEW k \in DOMAIN pack' PROVE pack'[k] <= steps'[Agent]
      OBVIOUS
    <3>1. CASE k = Len(pack) + 1
      BY <1>0, <2>2, <3>1
    <3>2. CASE k # Len(pack) + 1
      <4>1. k \in 1 .. Len(pack) /\ pack'[k] = pack[k] /\ pack[k] \in Nat
        BY <2>2, <3>2
      <4> QED BY <1>0, <2>2, <2>3, <4>1
    <3> QED BY <3>1, <3>2
  <2>5. \A k \in 1 .. Len(pack') - 1 : pack'[k] < pack'[k + 1]
    <3> SUFFICES ASSUME NEW k \in 1 .. Len(pack) PROVE pack'[k] < pack'[k + 1]
      BY <2>2
    <3>1. CASE k = Len(pack)
      BY <2>2, <2>3, <3>1
    <3>2. CASE k < Len(pack)
      <4>1. k \in 1 .. Len(pack) - 1 /\ k + 1 \in 1 .. Len(pack)
        BY <2>2, <3>2
      <4>2. pack[k] < pack[k + 1]
        BY <4>1 DEF Packed
      <4> QED BY <2>2, <4>1, <4>2
    <3>3. k = Len(pack) \/ k < Len(pack)
      <4>1. \A n \in Nat : k \in 1 .. n => k = n \/ k < n
        OBVIOUS
      <4> QED BY <2>2, <4>1, Zenon
    <3> QED BY <3>1, <3>2, <3>3
  <2>6. \A turn \in Nat : InPack(turn)' <=> InPack(turn) \/ turn = steps[Agent]
    <3>1. \A k \in DOMAIN pack' : k \in DOMAIN pack \/ k = Len(pack) + 1
      BY <2>2
    <3>2. \A k \in DOMAIN pack : k \in DOMAIN pack' /\ pack'[k] = pack[k]
      BY <2>2
    <3>3. Len(pack) + 1 \in DOMAIN pack' /\ pack'[Len(pack) + 1] = steps[Agent]
      BY <2>2
    <3> QED BY <3>1, <3>2, <3>3, Zenon DEF InPack
  <2>7. \A turn \in Nat : Wrote("VERIFICATION_PASS", "gate", turn)'
                              <=> Wrote("VERIFICATION_PASS", "gate", turn)
    BY <1>0 DEF Wrote
  <2>8. \A turn \in Nat :
            Wrote("VERIFICATION_PASS", "gate", turn)'
                <=> InPack(turn)' \/ (Fresh' /\ turn = steps'[Agent])
    BY <1>0, <1>1, <1>3, <2>6, <2>7, Zenon DEF Packed
  <2> QED BY <1>0, <2>2, <2>4, <2>5, <2>8 DEF Packed
<1> QED BY <1>2, <1>3

\* A granted step puts the whole pack into the past.
LEMMA BeginningKeepsPack ==
    ASSUME TurnInv, Packed, BeginHop
    PROVE  Packed'
<1> USE TurnAssumption
<1>0. /\ SessionTypeOK /\ pc = "loop" /\ UNCHANGED <<log, pack>>
      /\ ~ Fresh /\ ~ Fresh'
      /\ steps \in [Agents -> Nat]
      /\ \/ pc' = "prompt" /\ steps'[Agent] = steps[Agent] + 1
         \/ pc' = "ended" /\ steps' = steps
  BY DEF TurnInv, SessionInv, SessionTypeOK, BeginHop, BeginAttempt, BeginAttemptAt,
         BeginTurn, chainVars, Fresh
<1>1. CASE pc' = "ended"
  BY <1>0, <1>1, PackStands DEF InAttempt
<1>2. CASE pc' = "prompt"
  <2>1. \A turn \in Nat : /\ Wrote("VERIFICATION_PASS", "gate", turn)'
                                 <=> Wrote("VERIFICATION_PASS", "gate", turn)
                          /\ InPack(turn)' <=> InPack(turn)
    BY <1>0 DEF Wrote, InPack
  <2>2. \A turn \in Nat :
            Wrote("VERIFICATION_PASS", "gate", turn)'
                <=> InPack(turn)' \/ (Fresh' /\ turn = steps'[Agent])
    BY <1>0, <2>1, Zenon DEF Packed
  <2>3. steps[Agent] \in Nat /\ steps'[Agent] = steps[Agent] + 1
    BY <1>0, <1>2
  <2>4. pack \in Seq(Nat) /\ \A k \in DOMAIN pack : pack[k] \in Nat /\ pack[k] <= steps[Agent]
    BY DEF Packed
  <2>5. \A k \in DOMAIN pack : pack[k] <= steps'[Agent] /\ pack[k] < steps'[Agent]
    BY <2>3, <2>4
  <2> QED BY <1>0, <2>2, <2>4, <2>5 DEF Packed
<1> QED BY <1>0, <1>1, <1>2

\* Each step of the session keeps the pack in step with the chain.
LEMMA HopsKeepPack ==
    ASSUME EvidenceInv, Packed, [EvidenceNext]_evidenceVars
    PROVE  Packed'
<1> USE TurnAssumption
<1>0. SessionTypeOK /\ TurnInv /\ TurnPlace
  BY DEF EvidenceInv, TurnInv, SessionInv
<1>1. CASE HopUnavailable \/ HopRefused \/ HopRejected
               \/ (AwaitReview /\ UNCHANGED <<hops, pack>>)
  <2>1. /\ UNCHANGED <<log, steps, pack>> /\ ~ Fresh /\ ~ Fresh'
        /\ pc \in InAttempt
    BY <1>1
    DEF HopUnavailable, ModelUnavailable, HopRefused, AttemptRefused, LeaveRefused,
        HopRejected, AwaitReview, AwaitAnalyst, BackToOpen, Go, chainVars, budgetVars,
        Fresh, InAttempt
  <2> QED BY <1>0, <2>1, PackStands
<1>2. CASE (OpenSession \/ CloseSession) /\ UNCHANGED <<hops, pack>>
  <2>1. /\ steps' = steps /\ pack' = pack
        /\ ~ Fresh /\ ~ Fresh' /\ pc' \notin InAttempt
    BY <1>2
    DEF OpenSession, SessionOpen, CloseSession, StartClose, FinishClose, TurnEnded, Go,
        budgetVars, Fresh, InAttempt
  <2>2. \/ log' = log
        \/ log' = Append(log, Entry("SESSION_OPEN", Nobody, "none"))
        \/ log' = Append(log, Entry("SESSION_CLOSE", Nobody, closing))
    BY <1>2
    DEF OpenSession, SessionOpen, CloseSession, StartClose, FinishClose, Record, chainVars
  <2>3. log' = log \/ \E entry : log' = Append(log, entry) /\ ~ Acceptance(entry)
    BY <2>2 DEF Acceptance, Entry
  <2> QED BY <1>0, <2>1, <2>3, PackStands
<1>3. CASE (AskModel \/ ModelResponds) /\ UNCHANGED <<hops, pack>>
  <2>1. /\ steps' = steps /\ pack' = pack /\ ~ Fresh /\ ~ Fresh' /\ pc \in InAttempt
    BY <1>3
    DEF AskModel, SendPrompt, ModelResponds, ModelAnswers, ModelRetries, ModelFails, Go,
        budgetVars, Fresh, InAttempt
  <2>2. \/ log' = log
        \/ log' = Append(log, Entry("PROMPT_SENT", Agent, "none"))
        \/ log' = Append(log, Entry("VERIFICATION_FAIL", pending.agent, "adapter"))
    BY <1>3
    DEF AskModel, SendPrompt, ModelResponds, ModelAnswers, ModelRetries, ModelFails, Record,
        chainVars
  <2>3. log' = log \/ \E entry : log' = Append(log, entry) /\ ~ Acceptance(entry)
    BY <2>2 DEF Acceptance, Entry
  <2> QED BY <1>0, <2>1, <2>3, PackStands
<1>4. CASE (CheckProposal \/ Decide) /\ UNCHANGED <<hops, pack>>
  <2>1. /\ steps' = steps /\ pack' = pack /\ ~ Fresh /\ ~ Fresh' /\ pc \in InAttempt
        /\ \E type, note : note # "gate" /\ log' = Append(log, Entry(type, Agent, note))
    BY <1>4
    DEF CheckProposal, Decide, AppendEvent, Record, Go, AfterDecision, budgetVars, Fresh,
        InAttempt
  <2>2. \E entry : log' = Append(log, entry) /\ ~ Acceptance(entry)
    BY <2>1 DEF Acceptance, Entry
  <2> QED BY <1>0, <2>1, <2>2, PackStands
<1>5. CASE BeginHop
  BY <1>0, <1>5, BeginningKeepsPack
<1>6. CASE HopDispatched
  BY <1>0, <1>6, DeliveryKeepsPack
<1>7. CASE RunAct /\ UNCHANGED <<hops, pack>>
  BY <1>0, <1>7, DispatchKeepsPack
<1>8. CASE (Crash /\ UNCHANGED <<dispatchVars, turnVars, hops, pack>>) \/ UNCHANGED evidenceVars
  <2>1. UNCHANGED <<log, steps, pack, pc>>
    BY <1>8
    DEF Crash, evidenceVars, sessionTurnVars, allDispatchVars, sessionVars, chainVars,
        budgetVars, turnVars
  <2>2. Fresh' <=> Fresh
    BY <2>1, Standing DEF Fresh
  <2> QED BY <1>0, <2>1, <2>2, PackStands
<1> QED BY <1>1, <1>2, <1>3, <1>4, <1>5, <1>6, <1>7, <1>8 DEF EvidenceNext, EvidenceStep

\* The pack holds exactly the steps the chain shows accepted, each once and in
\* order, whenever the turn is between two hops or over.
THEOREM PackIsTheChain == EvidenceSpec => []PackIsWhatTheChainShows
<1>1. EvidenceInit => Packed
  <2> SUFFICES ASSUME EvidenceInit PROVE Packed
    OBVIOUS
  <2>1. pack = <<>> /\ log = <<>> /\ pc = "unopened"
    BY DEF EvidenceInit, TurnInit, DispatchInit, SessionInit
  <2>2. DOMAIN <<>> = {} /\ <<>> \in Seq(Nat) /\ Len(<<>>) = 0
    OBVIOUS
  <2>3. \A turn \in Nat : /\ ~ Wrote("VERIFICATION_PASS", "gate", turn)
                          /\ ~ InPack(turn) /\ ~ Fresh
    BY <2>1, <2>2 DEF Wrote, InPack, Fresh
  <2> QED BY <2>1, <2>2, <2>3 DEF Packed
<1>2. EvidenceInv /\ Packed /\ [EvidenceNext]_evidenceVars => Packed'
  BY HopsKeepPack
<1>3. Packed => PackIsWhatTheChainShows
  <2> SUFFICES ASSUME Packed, BetweenAttempts
               PROVE  /\ \A k \in 1 .. Len(pack) - 1 : pack[k] < pack[k + 1]
                      /\ \A turn \in 1 .. MaxSteps[Agent] :
                             (\E k \in DOMAIN pack : pack[k] = turn)
                                 <=> Wrote("VERIFICATION_PASS", "gate", turn)
    BY DEF PackIsWhatTheChainShows
  <2>1. ~ Fresh
    BY DEF BetweenAttempts, Fresh
  <2>2. \A turn \in 1 .. MaxSteps[Agent] : turn \in Nat
    OBVIOUS
  <2> QED BY <2>1, <2>2 DEF Packed, InPack
<1> QED BY <1>1, <1>2, <1>3, EvidenceInvariant, PTL DEF EvidenceSpec

(***************************************************************************)
(* The hop records and the counts.                                         *)
(***************************************************************************)

\* What became of a hop.
Was(h, how) == h \in DOMAIN hops /\ hops[h] = how

\* The analyst has approved this step's proposal, and the hop has no record.
InHand == pc \in {"approved", "dispatching"}

\* A hop is a granted step, but for the last one, which may have found the
\* budget empty.
Counted ==
    /\ hops \in Seq(HopOutcomes)
    /\ attempt = IF pc \in InAttempt THEN Len(hops) + 1 ELSE Len(hops)
    /\ pc \in {"unopened", "loop"} => Len(hops) = steps[Agent]
    /\ pc \in InAttempt => Len(hops) + 1 = steps[Agent]

\* The chain shows what became of a hop, or of the one underway ...
Tells(turn) ==
    /\ Wrote("VERIFICATION_PASS", "gate", turn)
           <=> Was(turn, "executed") \/ (Fresh /\ turn = steps[Agent])
    /\ Wrote("HUMAN_DECISION", "reject", turn)
           <=> Was(turn, "rejected") \/ (pc = "declined" /\ turn = steps[Agent])
    /\ Wrote("VERIFICATION_FAIL", "proposal", turn)
           <=> Was(turn, "refused") \/ (pc = "refused" /\ turn = steps[Agent])
    /\ Wrote("HUMAN_DECISION", "approve", turn)
           <=> \/ Was(turn, "executed") \/ Was(turn, "dispatch_failed")
               \/ InHand /\ turn = steps[Agent]
    /\ Wrote("VERIFICATION_FAIL", "adapter", turn)
           => Was(turn, "model_unavailable") \/ (pc = "unavailable" /\ turn = steps[Agent])

\* ... for each of them.
Traced == \A turn \in Nat : Tells(turn)

\* What a hop underway has written and not yet been recorded for.
Passed == pc \in {"accepted", "reviewing", "declined", "approved", "dispatching"}
Decided == pc \in {"declined", "approved", "dispatching"}
Failing ==
    \/ pc = "refused"
    \/ /\ pc = "dispatching"
       /\ At("VERIFICATION_FAIL", "schema") \/ At("VERIFICATION_FAIL", "gate")

\* The hops whose model failed.
Silenced == {h \in 1 .. attempt : Wrote("VERIFICATION_FAIL", "adapter", h)}

\* Every entry counted is one recorded hop's, or the hop's that is underway.
Balanced ==
    /\ Count("HUMAN_DECISION")
           = HopsThat("executed") + HopsThat("rejected") + HopsThat("dispatch_failed")
                 + One(Decided)
    /\ Count("VERIFICATION_PASS")
           = HopsThat("executed") + HopsThat("rejected") + HopsThat("dispatch_failed")
                 + HopsThat("executed") + One(Passed) + One(Fresh)
    /\ Count("VERIFICATION_FAIL")
           = HopsThat("refused") + Count("GATE_REJECTION") + Cardinality(Silenced)
                 + One(Failing)

HopBooks == Counted /\ Traced /\ Balanced

(***************************************************************************)
(* What an entry and a record add to the counts.                           *)
(***************************************************************************)

\* An entry counts once, for its own type.
LEMMA EntryCounts ==
    ASSUME SessionTypeOK, NEW entry, log' = Append(log, entry), NEW type
    PROVE  /\ Count(type) \in Nat
           /\ Count(type)' = Count(type) + One(entry.type = type)
<1> DEFINE S == {i \in DOMAIN log : log[i].type = type}
           T == {i \in DOMAIN log' : log'[i].type = type}
<1>1. /\ Len(log) \in Nat /\ DOMAIN log = 1 .. Len(log)
      /\ DOMAIN log' = 1 .. Len(log) + 1
      /\ \A i \in 1 .. Len(log) : log'[i] = log[i]
      /\ log'[Len(log) + 1] = entry
  BY DEF SessionTypeOK
<1>2. /\ \A i \in DOMAIN log : i \in DOMAIN log' /\ log'[i] = log[i] /\ i # Len(log) + 1
      /\ \A i \in DOMAIN log' : i \in DOMAIN log \/ i = Len(log) + 1
      /\ Len(log) + 1 \in DOMAIN log'
  BY <1>1
<1>3. IsFiniteSet(S) /\ Cardinality(S) \in Nat
  <2>1. S \in SUBSET (1 .. Len(log))
    BY <1>1
  <2> QED BY <1>1, <2>1, PlacesAreFinite
<1>4. CASE entry.type = type
  <2>1. \A i : i \in T <=> i \in S \/ i = Len(log) + 1
    BY <1>1, <1>2, <1>4, Zenon
  <2>2. T = S \cup {Len(log) + 1} /\ Len(log) + 1 \notin S
    BY <1>2, <2>1
  <2> QED BY <1>3, <1>4, <2>2, FS_AddElement DEF Count, One
<1>5. CASE entry.type # type
  <2>1. T = S
    BY <1>1, <1>2, <1>5
  <2>2. Count(type) \in Nat /\ Count(type)' = Count(type)
    BY <1>3, <2>1 DEF Count
  <2>3. One(entry.type = type) = 0
    BY <1>5 DEF One
  <2> QED BY <2>2, <2>3
<1> QED BY <1>4, <1>5

\* There are as many entries of a type as hops there are: a number.
LEMMA CountsAreNumbers ==
    ASSUME SessionTypeOK, Counted
    PROVE  /\ \A type : Count(type) \in Nat
           /\ \A how : HopsThat(how) \in Nat
           /\ Cardinality(Silenced) \in Nat
<1>1. /\ Len(log) \in Nat /\ DOMAIN log = 1 .. Len(log)
      /\ Len(hops) \in Nat /\ DOMAIN hops = 1 .. Len(hops) /\ attempt \in Nat
  BY DEF SessionTypeOK, Counted
<1>3. ASSUME NEW type PROVE Count(type) \in Nat
  <2>1. {i \in DOMAIN log : log[i].type = type} \in SUBSET (1 .. Len(log))
    BY <1>1
  <2> QED BY <1>1, <2>1, PlacesAreFinite DEF Count
<1>4. ASSUME NEW how PROVE HopsThat(how) \in Nat
  <2>1. {h \in DOMAIN hops : hops[h] = how} \in SUBSET (1 .. Len(hops))
    BY <1>1
  <2> QED BY <1>1, <2>1, PlacesAreFinite DEF HopsThat
<1>5. Cardinality(Silenced) \in Nat
  <2>1. Silenced \in SUBSET (1 .. attempt)
    BY DEF Silenced
  <2> QED BY <1>1, <2>1, PlacesAreFinite
<1> QED BY <1>3, <1>4, <1>5

\* Recording a hop adds it to the others.
LEMMA HopsGrow ==
    ASSUME Counted, NEW how \in HopOutcomes, HopIs(how)
    PROVE  /\ hops' \in Seq(HopOutcomes) /\ Len(hops') = Len(hops) + 1
           /\ Len(hops) \in Nat
           /\ \A h, what : Was(h, what)'
                  <=> Was(h, what) \/ (h = Len(hops) + 1 /\ what = how)
           /\ \A what : HopsThat(what)' = HopsThat(what) + One(how = what)
<1>1. /\ Len(hops) \in Nat /\ DOMAIN hops = 1 .. Len(hops)
      /\ hops' \in Seq(HopOutcomes) /\ Len(hops') = Len(hops) + 1
      /\ DOMAIN hops' = 1 .. Len(hops) + 1
      /\ \A h \in 1 .. Len(hops) : hops'[h] = hops[h]
      /\ hops'[Len(hops) + 1] = how
  BY DEF Counted, HopIs
<1>2. /\ \A h \in DOMAIN hops' : h \in DOMAIN hops \/ h = Len(hops) + 1
      /\ \A h \in DOMAIN hops : h \in DOMAIN hops' /\ hops'[h] = hops[h]
      /\ Len(hops) + 1 \in DOMAIN hops' /\ Len(hops) + 1 \notin DOMAIN hops
  BY <1>1
<1>3. \A h, what : Was(h, what)' <=> Was(h, what) \/ (h = Len(hops) + 1 /\ what = how)
  BY <1>1, <1>2, Zenon DEF Was
<1>4. ASSUME NEW what PROVE HopsThat(what)' = HopsThat(what) + One(how = what)
  <2> DEFINE S == {h \in DOMAIN hops : hops[h] = what}
             T == {h \in DOMAIN hops' : hops'[h] = what}
  <2>1. IsFiniteSet(S) /\ Cardinality(S) \in Nat
    <3>1. S \in SUBSET (1 .. Len(hops))
      BY <1>1
    <3> QED BY <1>1, <3>1, PlacesAreFinite
  <2>2. CASE how = what
    <3>1. T = S \cup {Len(hops) + 1} /\ Len(hops) + 1 \notin S
      BY <1>1, <1>2, <2>2
    <3> QED BY <2>1, <2>2, <3>1, FS_AddElement DEF HopsThat, One
  <2>3. CASE how # what
    <3>1. T = S
      BY <1>1, <1>2, <2>3
    <3> QED BY <2>1, <2>3, <3>1 DEF HopsThat, One
  <2> QED BY <2>2, <2>3
<1> QED BY <1>1, <1>3, <1>4

\* Only hops that were made became something.
LEMMA WasIsPast ==
    ASSUME Counted, NEW h, NEW how, Was(h, how)
    PROVE  h \in Nat /\ h > 0 /\ h <= Len(hops)
BY DEF Counted, Was

(***************************************************************************)
(* What keeps the books.                                                   *)
(***************************************************************************)

\* A hop underway writes an entry that its place then tells of.
LEMMA WritingKeepsBooks ==
    ASSUME SessionTypeOK, HopBooks, pc \in InAttempt, pc' \in InAttempt,
           UNCHANGED <<hops, attempt, steps>>,
           NEW type, NEW note,
           log' = Append(log, [type |-> type, agent |-> Agent,
                               turn |-> steps[Agent], note |-> note]),
           Fresh' <=> Fresh \/ (type = "VERIFICATION_PASS" /\ note = "gate"),
           pc' = "declined" <=> pc = "declined" \/ (type = "HUMAN_DECISION" /\ note = "reject"),
           pc' = "refused" <=> pc = "refused" \/ (type = "VERIFICATION_FAIL" /\ note = "proposal"),
           InHand' <=> InHand \/ (type = "HUMAN_DECISION" /\ note = "approve"),
           pc' = "unavailable"
               <=> pc = "unavailable" \/ (type = "VERIFICATION_FAIL" /\ note = "adapter"),
           type = "VERIFICATION_FAIL" /\ note = "adapter" => pc # "unavailable",
           One(Decided)' = One(Decided) + One(type = "HUMAN_DECISION"),
           One(Passed)' + One(Fresh)'
               = One(Passed) + One(Fresh) + One(type = "VERIFICATION_PASS"),
           One(Failing)' + One(type = "GATE_REJECTION")
                   + One(type = "VERIFICATION_FAIL" /\ note = "adapter")
               = One(Failing) + One(type = "VERIFICATION_FAIL")
    PROVE  HopBooks'
<1> DEFINE entry == [type |-> type, agent |-> Agent, turn |-> steps[Agent], note |-> note]
<1>0. /\ entry.type = type /\ entry.note = note /\ entry.turn = steps[Agent]
      /\ log' = Append(log, entry) /\ steps[Agent] \in Nat
  BY TurnAssumption DEF SessionTypeOK
<1> HIDE DEF entry
<1>1. \A t, n, turn : Wrote(t, n, turn)'
          <=> Wrote(t, n, turn) \/ (type = t /\ note = n /\ turn = steps[Agent])
  BY <1>0, WroteGrows
<1>2. Counted'
  <2>1. pc' \notin {"unopened", "loop"}
    BY DEF InAttempt
  <2>2. steps'[Agent] = steps[Agent] /\ Counted
    BY DEF HopBooks
  <2> QED BY <2>1, <2>2 DEF Counted
<1>3. Traced'
  <2> SUFFICES ASSUME NEW turn \in Nat PROVE Tells(turn)'
    BY DEF Traced
  <2>1. \A h, how : Was(h, how)' <=> Was(h, how)
    BY DEF Was
  <2>2. Tells(turn) /\ steps'[Agent] = steps[Agent]
    BY DEF HopBooks, Traced
  <2> QED BY <1>1, <2>1, <2>2 DEF Tells
<1>4. \A how : HopsThat(how)' = HopsThat(how)
  BY DEF HopsThat
<1>5. /\ \A t : Count(t) \in Nat
      /\ \A how : HopsThat(how) \in Nat
      /\ Cardinality(Silenced) \in Nat
  BY CountsAreNumbers DEF HopBooks
<1>6. \A t : Count(t)' = Count(t) + One(type = t)
  BY <1>0, EntryCounts
<1>7. Cardinality(Silenced)'
          = Cardinality(Silenced) + One(type = "VERIFICATION_FAIL" /\ note = "adapter")
  <2>1. attempt = steps[Agent] /\ attempt' = attempt
    BY DEF HopBooks, Counted
  <2>2. Silenced \in SUBSET (1 .. attempt) /\ attempt \in Nat
    BY <1>0, <2>1 DEF Silenced
  <2>3. IsFiniteSet(Silenced)
    BY <2>2, PlacesAreFinite
  <2>4. CASE type = "VERIFICATION_FAIL" /\ note = "adapter"
    <3>1. ~ Wrote("VERIFICATION_FAIL", "adapter", steps[Agent])
      <4>1. Tells(steps[Agent]) /\ pc # "unavailable"
        BY <1>0, <2>4 DEF HopBooks, Traced
      <4>2. Len(hops) + 1 = steps[Agent] /\ Counted
        BY DEF HopBooks, Counted
      <4>3. ~ Was(steps[Agent], "model_unavailable")
        BY <4>2, WasIsPast DEF Counted
      <4> QED BY <4>1, <4>3 DEF Tells
    <3>2. steps[Agent] \notin Silenced
      BY <3>1 DEF Silenced
    <3>3. attempt \in 1 .. attempt
      BY <2>1, <2>2 DEF HopBooks, Counted
    <3>4. \A h : Wrote("VERIFICATION_FAIL", "adapter", h)'
              <=> Wrote("VERIFICATION_FAIL", "adapter", h) \/ h = steps[Agent]
      BY <1>1, <2>4
    <3>5. Silenced' = Silenced \cup {steps[Agent]}
      BY <2>1, <3>3, <3>4 DEF Silenced
    <3>6. Cardinality(Silenced)' = Cardinality(Silenced) + 1
      BY <2>3, <3>2, <3>5, FS_AddElement
    <3> QED BY <2>4, <3>6 DEF One
  <2>5. CASE ~ (type = "VERIFICATION_FAIL" /\ note = "adapter")
    <3>1. \A h : Wrote("VERIFICATION_FAIL", "adapter", h)'
              <=> Wrote("VERIFICATION_FAIL", "adapter", h)
      BY <1>1, <2>5
    <3>2. Silenced' = Silenced
      BY <2>1, <3>1 DEF Silenced
    <3> QED BY <1>5, <2>5, <3>2 DEF One
  <2> QED BY <2>4, <2>5
<1>8. /\ One(Decided) \in Nat /\ One(Passed) \in Nat /\ One(Fresh) \in Nat
      /\ One(Failing) \in Nat
      /\ \A t : One(type = t) \in Nat
      /\ One(type = "VERIFICATION_FAIL" /\ note = "adapter") \in Nat
      /\ One(Decided)' \in Nat /\ One(Passed)' \in Nat /\ One(Fresh)' \in Nat
      /\ One(Failing)' \in Nat
  BY DEF One
<1>9. Balanced'
  <2>1. Count("HUMAN_DECISION")'
            = HopsThat("executed")' + HopsThat("rejected")' + HopsThat("dispatch_failed")'
                  + One(Decided)'
    <3>1. /\ Count("HUMAN_DECISION")
                 = HopsThat("executed") + HopsThat("rejected") + HopsThat("dispatch_failed")
                       + One(Decided)
          /\ Count("HUMAN_DECISION")' = Count("HUMAN_DECISION") + One(type = "HUMAN_DECISION")
      BY <1>6 DEF HopBooks, Balanced
    <3>2. /\ HopsThat("executed")' = HopsThat("executed")
          /\ HopsThat("rejected")' = HopsThat("rejected")
          /\ HopsThat("dispatch_failed")' = HopsThat("dispatch_failed")
          /\ HopsThat("executed") \in Nat /\ HopsThat("rejected") \in Nat
          /\ HopsThat("dispatch_failed") \in Nat
          /\ One(Decided) \in Nat /\ One(type = "HUMAN_DECISION") \in Nat
      BY <1>4, <1>5, <1>8
    <3> QED BY <3>1, <3>2
  <2>2. Count("VERIFICATION_PASS")'
            = HopsThat("executed")' + HopsThat("rejected")' + HopsThat("dispatch_failed")'
                  + HopsThat("executed")' + One(Passed)' + One(Fresh)'
    <3>1. /\ Count("VERIFICATION_PASS")
                 = HopsThat("executed") + HopsThat("rejected") + HopsThat("dispatch_failed")
                       + HopsThat("executed") + One(Passed) + One(Fresh)
          /\ Count("VERIFICATION_PASS")'
                 = Count("VERIFICATION_PASS") + One(type = "VERIFICATION_PASS")
      BY <1>6 DEF HopBooks, Balanced
    <3>2. /\ HopsThat("executed")' = HopsThat("executed")
          /\ HopsThat("rejected")' = HopsThat("rejected")
          /\ HopsThat("dispatch_failed")' = HopsThat("dispatch_failed")
          /\ HopsThat("executed") \in Nat /\ HopsThat("rejected") \in Nat
          /\ HopsThat("dispatch_failed") \in Nat
          /\ One(Passed) \in Nat /\ One(Fresh) \in Nat
          /\ One(Passed)' \in Nat /\ One(Fresh)' \in Nat
          /\ One(type = "VERIFICATION_PASS") \in Nat
      BY <1>4, <1>5, <1>8
    <3> QED BY <3>1, <3>2 DEF One
  <2>3. Count("VERIFICATION_FAIL")'
            = HopsThat("refused")' + Count("GATE_REJECTION")' + Cardinality(Silenced)'
                  + One(Failing)'
    <3>1. /\ Count("VERIFICATION_FAIL")
                 = HopsThat("refused") + Count("GATE_REJECTION") + Cardinality(Silenced)
                       + One(Failing)
          /\ Count("VERIFICATION_FAIL")'
                 = Count("VERIFICATION_FAIL") + One(type = "VERIFICATION_FAIL")
          /\ Count("GATE_REJECTION")' = Count("GATE_REJECTION") + One(type = "GATE_REJECTION")
      BY <1>6 DEF HopBooks, Balanced
    <3>2. /\ HopsThat("refused")' = HopsThat("refused") /\ HopsThat("refused") \in Nat
          /\ Count("GATE_REJECTION") \in Nat /\ Cardinality(Silenced) \in Nat
          /\ One(Failing) \in Nat /\ One(Failing)' \in Nat
          /\ One(type = "VERIFICATION_FAIL") \in Nat /\ One(type = "GATE_REJECTION") \in Nat
          /\ One(type = "VERIFICATION_FAIL" /\ note = "adapter") \in Nat
      BY <1>4, <1>5, <1>8
    <3> QED BY <1>7, <3>1, <3>2 DEF One
  <2> QED BY <2>1, <2>2, <2>3 DEF Balanced
<1> QED BY <1>2, <1>3, <1>9 DEF HopBooks

\* A step that records no hop and writes nothing that counts.
LEMMA QuietKeepsBooks ==
    ASSUME SessionTypeOK, HopBooks, UNCHANGED <<hops, attempt, steps>>,
           \/ log' = log
           \/ \E entry : /\ log' = Append(log, entry)
                         /\ entry.type \in {"SESSION_OPEN", "SESSION_CLOSE"},
           Fresh' <=> Fresh, Passed' <=> Passed, Decided' <=> Decided, Failing' <=> Failing,
           InHand' <=> InHand, pc' = "declined" <=> pc = "declined",
           pc' = "refused" <=> pc = "refused", pc = "unavailable" => pc' = "unavailable",
           Counted'
    PROVE  HopBooks'
<1>1. \A type \in {"VERIFICATION_PASS", "VERIFICATION_FAIL", "HUMAN_DECISION", "GATE_REJECTION"} :
          /\ Count(type)' = Count(type)
          /\ \A note, turn : Wrote(type, note, turn)' <=> Wrote(type, note, turn)
  <2>1. CASE log' = log
    BY <2>1 DEF Count, Wrote
  <2>2. CASE \E entry : /\ log' = Append(log, entry)
                        /\ entry.type \in {"SESSION_OPEN", "SESSION_CLOSE"}
    <3>1. PICK entry : /\ log' = Append(log, entry)
                       /\ entry.type \in {"SESSION_OPEN", "SESSION_CLOSE"}
      BY <2>2
    <3> SUFFICES ASSUME NEW type \in {"VERIFICATION_PASS", "VERIFICATION_FAIL",
                                      "HUMAN_DECISION", "GATE_REJECTION"}
                 PROVE  /\ Count(type)' = Count(type)
                        /\ \A note, turn : Wrote(type, note, turn)' <=> Wrote(type, note, turn)
      OBVIOUS
    <3>2. entry.type # type
      BY <3>1
    <3>3. Count(type) \in Nat /\ Count(type)' = Count(type) + One(entry.type = type)
      BY <3>1, EntryCounts
    <3>4. One(entry.type = type) = 0
      BY <3>2 DEF One
    <3>5. \A note, turn : Wrote(type, note, turn)' <=> Wrote(type, note, turn)
      BY <3>1, <3>2, WroteGrows
    <3> QED BY <3>3, <3>4, <3>5
  <2> QED BY <2>1, <2>2
<1>2. Traced'
  <2> SUFFICES ASSUME NEW turn \in Nat PROVE Tells(turn)'
    BY DEF Traced
  <2>1. \A h, how : Was(h, how)' <=> Was(h, how)
    BY DEF Was
  <2>2. Tells(turn) /\ steps'[Agent] = steps[Agent]
    BY DEF HopBooks, Traced
  <2> QED BY <1>1, <2>1, <2>2 DEF Tells
<1>3. Balanced'
  <2>1. Silenced' = Silenced
    BY <1>1 DEF Silenced
  <2>2. \A how : HopsThat(how)' = HopsThat(how)
    BY DEF HopsThat
  <2>3. /\ One(Fresh)' = One(Fresh) /\ One(Passed)' = One(Passed)
        /\ One(Decided)' = One(Decided) /\ One(Failing)' = One(Failing)
    BY DEF One
  <2> QED BY <1>1, <2>1, <2>2, <2>3 DEF HopBooks, Balanced
<1> QED BY <1>2, <1>3 DEF HopBooks

\* A hop recorded as what the chain shows of it keeps the books.
LEMMA RecordingKeepsBooks ==
    ASSUME SessionTypeOK, HopBooks, NEW how \in HopOutcomes, HopIs(how),
           UNCHANGED <<log, steps>>, attempt' = Len(hops) + 1,
           pc' \in {"loop", "ended"},
           pc \in InAttempt \/ (pc = "loop" /\ pc' = "ended"),
           how = "executed" <=> Fresh,
           how = "rejected" <=> pc = "declined",
           how = "refused" <=> pc = "refused",
           how \in {"executed", "dispatch_failed"} <=> InHand,
           pc = "unavailable" => how = "model_unavailable",
           how \in {"executed", "rejected", "dispatch_failed"} <=> Passed,
           Failing <=> pc = "refused"
    PROVE  HopBooks'
<1>0. /\ steps[Agent] \in Nat /\ Len(hops) \in Nat /\ Counted /\ Balanced
  BY TurnAssumption DEF SessionTypeOK, HopBooks, Counted
<1>1. /\ hops' \in Seq(HopOutcomes) /\ Len(hops') = Len(hops) + 1
      /\ \A h, what : Was(h, what)' <=> Was(h, what) \/ (h = Len(hops) + 1 /\ what = how)
      /\ \A what : HopsThat(what)' = HopsThat(what) + One(how = what)
  BY <1>0, HopsGrow
<1>2. pc \in InAttempt => Len(hops) + 1 = steps[Agent]
  BY <1>0 DEF Counted
<1>3. /\ ~ Fresh' /\ ~ InHand' /\ ~ Passed' /\ ~ Decided' /\ ~ Failing'
      /\ pc' \notin InAttempt /\ pc' \notin {"declined", "refused", "unavailable"}
  BY DEF Fresh, InHand, Passed, Decided, Failing, InAttempt
<1>4. Counted'
  BY <1>0, <1>1, <1>2, <1>3 DEF Counted, InAttempt
<1>5. Traced'
  <2> SUFFICES ASSUME NEW turn \in Nat PROVE Tells(turn)'
    BY DEF Traced
  <2>1. \A type, note : Wrote(type, note, turn)' <=> Wrote(type, note, turn)
    BY DEF Wrote
  <2>2. Tells(turn)
    BY DEF HopBooks, Traced
  <2>3. /\ how \in {"executed", "rejected", "refused", "dispatch_failed"}
               => Len(hops) + 1 = steps[Agent]
        /\ pc = "unavailable" => Len(hops) + 1 = steps[Agent]
    BY <1>2 DEF InAttempt, InHand
  <2>4. Was(turn, "executed")' <=> Was(turn, "executed") \/ (Fresh /\ turn = steps[Agent])
    BY <1>1, <2>3
  <2>5. Was(turn, "rejected")'
            <=> Was(turn, "rejected") \/ (pc = "declined" /\ turn = steps[Agent])
    BY <1>1, <2>3
  <2>6. Was(turn, "refused")'
            <=> Was(turn, "refused") \/ (pc = "refused" /\ turn = steps[Agent])
    BY <1>1, <2>3
  <2>7. Was(turn, "executed")' \/ Was(turn, "dispatch_failed")'
            <=> \/ Was(turn, "executed") \/ Was(turn, "dispatch_failed")
                \/ InHand /\ turn = steps[Agent]
    BY <1>1, <2>3
  <2>8. Was(turn, "model_unavailable") \/ (pc = "unavailable" /\ turn = steps[Agent])
            => Was(turn, "model_unavailable")'
    BY <1>1, <2>3
  <2> QED BY <1>3, <2>1, <2>2, <2>4, <2>5, <2>6, <2>7, <2>8 DEF Tells
<1>6. Silenced' = Silenced
  <2>1. \A h : Wrote("VERIFICATION_FAIL", "adapter", h)'
            <=> Wrote("VERIFICATION_FAIL", "adapter", h)
    BY DEF Wrote
  <2>2. CASE pc \in InAttempt
    <3>1. attempt' = attempt
      BY <1>0, <2>2 DEF Counted
    <3> QED BY <2>1, <3>1 DEF Silenced
  <2>3. CASE pc = "loop"
    <3>1. attempt = Len(hops) /\ attempt' = attempt + 1
      BY <1>0, <2>3 DEF Counted, InAttempt
    <3>2. ~ Wrote("VERIFICATION_FAIL", "adapter", attempt')
      <4>1. Tells(attempt') /\ pc # "unavailable"
        BY <1>0, <2>3, <3>1 DEF HopBooks, Traced
      <4>2. ~ Was(attempt', "model_unavailable")
        BY <1>0, <3>1, WasIsPast
      <4> QED BY <4>1, <4>2 DEF Tells
    <3>3. \A h : h \in 1 .. attempt' <=> h \in 1 .. attempt \/ h = attempt'
      BY <1>0, <3>1
    <3> QED BY <2>1, <3>2, <3>3 DEF Silenced
  <2> QED BY <2>2, <2>3
<1>7. Balanced'
  <2>1. /\ \A type : Count(type) \in Nat
        /\ \A what : HopsThat(what) \in Nat
        /\ Cardinality(Silenced) \in Nat
    BY <1>0, CountsAreNumbers
  <2>2. \A type : Count(type)' = Count(type)
    BY DEF Count
  <2>3. /\ One(Fresh) = One(how = "executed")
        /\ One(Decided) = One(how = "executed") + One(how = "rejected")
                              + One(how = "dispatch_failed")
        /\ One(Passed) = One(Decided)
        /\ One(Failing) = One(how = "refused")
    BY DEF One, Decided, Passed, InHand
  <2>4. One(Fresh)' = 0 /\ One(Passed)' = 0 /\ One(Decided)' = 0 /\ One(Failing)' = 0
    BY <1>3 DEF One
  <2>5. \A what : One(how = what) \in Nat
    BY DEF One
  <2>6. /\ HopsThat("executed")' = HopsThat("executed") + One(how = "executed")
        /\ HopsThat("rejected")' = HopsThat("rejected") + One(how = "rejected")
        /\ HopsThat("refused")' = HopsThat("refused") + One(how = "refused")
        /\ HopsThat("dispatch_failed")'
               = HopsThat("dispatch_failed") + One(how = "dispatch_failed")
        /\ Count("HUMAN_DECISION")' = Count("HUMAN_DECISION")
        /\ Count("VERIFICATION_PASS")' = Count("VERIFICATION_PASS")
        /\ Count("VERIFICATION_FAIL")' = Count("VERIFICATION_FAIL")
        /\ Count("GATE_REJECTION")' = Count("GATE_REJECTION")
        /\ Cardinality(Silenced)' = Cardinality(Silenced)
    BY <1>1, <1>6, <2>2
  <2>7. /\ HopsThat("executed") \in Nat /\ HopsThat("rejected") \in Nat
        /\ HopsThat("refused") \in Nat /\ HopsThat("dispatch_failed") \in Nat
        /\ Count("GATE_REJECTION") \in Nat /\ Cardinality(Silenced) \in Nat
        /\ One(how = "executed") \in Nat /\ One(how = "rejected") \in Nat
        /\ One(how = "refused") \in Nat /\ One(how = "dispatch_failed") \in Nat
    BY <2>1, <2>5
  <2>8. /\ Count("HUMAN_DECISION")
               = HopsThat("executed") + HopsThat("rejected") + HopsThat("dispatch_failed")
                     + One(Decided)
        /\ Count("VERIFICATION_PASS")
               = HopsThat("executed") + HopsThat("rejected") + HopsThat("dispatch_failed")
                     + HopsThat("executed") + One(Passed) + One(Fresh)
        /\ Count("VERIFICATION_FAIL")
               = HopsThat("refused") + Count("GATE_REJECTION") + Cardinality(Silenced)
                     + One(Failing)
    BY <1>0 DEF Balanced
  <2> DEFINE reviewed == One(how = "executed") + One(how = "rejected")
                             + One(how = "dispatch_failed")
  <2>9. /\ reviewed \in Nat /\ One(Decided) = reviewed /\ One(Passed) = reviewed
        /\ One(how = "executed") \in Nat
    BY <2>3, <2>7
  <2>10. HopsThat("executed")' + HopsThat("rejected")' + HopsThat("dispatch_failed")'
             = HopsThat("executed") + HopsThat("rejected") + HopsThat("dispatch_failed")
                   + reviewed
    BY <2>6, <2>7, SMTT(30)
  <2> HIDE DEF reviewed
  <2>11. Count("HUMAN_DECISION")'
            = HopsThat("executed")' + HopsThat("rejected")' + HopsThat("dispatch_failed")'
                  + One(Decided)'
    BY <2>4, <2>6, <2>7, <2>8, <2>9, <2>10 DEF One
  <2>12. Count("VERIFICATION_PASS")'
             = HopsThat("executed")' + HopsThat("rejected")' + HopsThat("dispatch_failed")'
                   + HopsThat("executed")' + One(Passed)' + One(Fresh)'
    <3>1. /\ One(Fresh) = One(how = "executed") /\ One(Passed) = reviewed
          /\ One(Passed)' = 0 /\ One(Fresh)' = 0
          /\ HopsThat("executed")' = HopsThat("executed") + One(how = "executed")
          /\ Count("VERIFICATION_PASS")' = Count("VERIFICATION_PASS")
      BY <2>3, <2>4, <2>6, <2>9
    <3>2. Count("VERIFICATION_PASS")
              = HopsThat("executed") + HopsThat("rejected") + HopsThat("dispatch_failed")
                    + HopsThat("executed") + One(Passed) + One(Fresh)
      BY <2>8
    <3>3. /\ HopsThat("executed") \in Nat /\ HopsThat("rejected") \in Nat
          /\ HopsThat("dispatch_failed") \in Nat
      BY <2>7
    <3>4. /\ HopsThat("executed")' \in Nat /\ HopsThat("rejected")' \in Nat
          /\ HopsThat("dispatch_failed")' \in Nat
      BY <2>6, <2>7, SMTT(30)
    <3> QED BY <2>9, <2>10, <3>1, <3>2, <3>3, <3>4, SMTT(60) DEF One
  <2>13. Count("VERIFICATION_FAIL")'
             = HopsThat("refused")' + Count("GATE_REJECTION")' + Cardinality(Silenced)'
                   + One(Failing)'
    BY <2>3, <2>4, <2>6, <2>7, <2>8 DEF One
  <2> QED BY <2>11, <2>12, <2>13 DEF Balanced
<1> QED BY <1>4, <1>5, <1>7 DEF HopBooks

(***************************************************************************)
(* Every step keeps the books.                                             *)
(***************************************************************************)

\* A granted step is a hop underway of which nothing is written yet.
LEMMA BeginningKeepsBooks ==
    ASSUME EvidenceInv, HopBooks, BeginHop
    PROVE  HopBooks'
<1> USE TurnAssumption
<1>0. /\ SessionTypeOK /\ HopBooks /\ Counted /\ pc = "loop" /\ log' = log
      /\ steps \in [Agents -> Nat] /\ steps[Agent] \in Nat
      /\ attempt' = attempt + 1 /\ attempt = Len(hops) /\ Len(hops) \in Nat
      /\ Len(hops) = steps[Agent]
  BY DEF EvidenceInv, TurnInv, SessionInv, SessionTypeOK, HopBooks, Counted, BeginHop,
         BeginAttempt, BeginAttemptAt, BeginTurn, chainVars, InAttempt
<1>1. /\ ~ Fresh /\ ~ InHand /\ ~ Passed /\ ~ Decided /\ ~ Failing
      /\ pc \notin InAttempt \cup {"declined", "refused", "unavailable"}
  BY <1>0 DEF Fresh, InHand, Passed, Decided, Failing, InAttempt
<1>2. CASE reply' = Granted
  <2>1. /\ hops' = hops /\ pc' = "prompt" /\ steps'[Agent] = steps[Agent] + 1
    BY <1>0, <1>2 DEF BeginHop, BeginAttempt, BeginAttemptAt, BeginTurn
  <2>2. /\ ~ Fresh' /\ ~ InHand' /\ ~ Passed' /\ ~ Decided' /\ ~ Failing'
        /\ pc' \in InAttempt /\ pc' \notin {"declined", "refused", "unavailable"}
        /\ pc' \notin {"unopened", "loop"}
    BY <2>1 DEF Fresh, InHand, Passed, Decided, Failing, InAttempt
  <2>3. Counted'
    BY <1>0, <2>1, <2>2 DEF Counted
  <2>4. \A type, note, turn : Wrote(type, note, turn)' <=> Wrote(type, note, turn)
    BY <1>0 DEF Wrote
  <2>5. Traced'
    <3> SUFFICES ASSUME NEW turn \in Nat PROVE Tells(turn)'
      BY DEF Traced
    <3>1. \A h, how : Was(h, how)' <=> Was(h, how)
      BY <2>1 DEF Was
    <3>2. Tells(turn)
      BY DEF HopBooks, Traced
    <3> QED BY <1>1, <2>2, <2>4, <3>1, <3>2 DEF Tells
  <2>6. Silenced' = Silenced
    <3>1. ~ Wrote("VERIFICATION_FAIL", "adapter", attempt + 1)
      <4>1. Tells(attempt + 1)
        BY <1>0 DEF HopBooks, Traced
      <4>2. ~ Was(attempt + 1, "model_unavailable")
        BY <1>0, WasIsPast
      <4> QED BY <1>1, <4>1, <4>2 DEF Tells
    <3>2. \A h : h \in 1 .. attempt' <=> h \in 1 .. attempt \/ h = attempt + 1
      BY <1>0
    <3> QED BY <2>4, <3>1, <3>2 DEF Silenced
  <2>7. Balanced'
    <3>1. /\ \A how : HopsThat(how)' = HopsThat(how)
          /\ \A type : Count(type)' = Count(type)
      BY <1>0, <2>1 DEF HopsThat, Count
    <3>2. /\ One(Fresh)' = One(Fresh) /\ One(Passed)' = One(Passed)
          /\ One(Decided)' = One(Decided) /\ One(Failing)' = One(Failing)
      BY <1>1, <2>2 DEF One
    <3> QED BY <2>6, <3>1, <3>2 DEF HopBooks, Balanced
  <2> QED BY <2>3, <2>5, <2>7 DEF HopBooks
<1>3. CASE reply' # Granted
  <2>1. /\ HopIs("budget_exhausted") /\ UNCHANGED <<log, steps>> /\ pc' = "ended"
        /\ attempt' = Len(hops) + 1
    BY <1>0, <1>3 DEF BeginHop, BeginAttempt, BeginAttemptAt, BeginTurn
  <2> QED BY <1>0, <1>1, <2>1, RecordingKeepsBooks DEF HopOutcomes
<1> QED BY <1>2, <1>3

\* A hop that is over is recorded as what became of it.
LEMMA EndingKeepsBooks ==
    ASSUME EvidenceInv, HopBooks,
           HopUnavailable \/ HopRefused \/ HopRejected \/ HopDispatched
    PROVE  HopBooks'
<1>0. SessionTypeOK /\ TurnInv /\ Counted
  BY DEF EvidenceInv, TurnInv, SessionInv, HopBooks
<1>1. CASE HopUnavailable \/ HopRefused \/ HopRejected
  <2>1. /\ UNCHANGED <<log, steps, attempt>> /\ pc' \in {"loop", "ended"}
        /\ \/ pc = "unavailable" /\ HopIs("model_unavailable")
           \/ pc = "refused" /\ HopIs("refused")
           \/ pc = "declined" /\ HopIs("rejected")
    BY <1>1
    DEF HopUnavailable, ModelUnavailable, HopRefused, AttemptRefused, LeaveRefused,
        HopRejected, BackToOpen, Go, chainVars, budgetVars
  <2>2. pc \in InAttempt /\ attempt' = Len(hops) + 1
    BY <1>0, <2>1 DEF Counted, InAttempt
  <2>3. CASE pc = "unavailable" /\ HopIs("model_unavailable")
    <3>1. ~ Fresh /\ ~ InHand /\ ~ Passed /\ ~ Failing
      BY <2>3 DEF Fresh, InHand, Passed, Failing
    <3> QED BY <1>0, <2>1, <2>2, <2>3, <3>1, RecordingKeepsBooks DEF HopOutcomes
  <2>4. CASE pc = "refused" /\ HopIs("refused")
    <3>1. ~ Fresh /\ ~ InHand /\ ~ Passed /\ Failing
      BY <2>4 DEF Fresh, InHand, Passed, Failing
    <3> QED BY <1>0, <2>1, <2>2, <2>4, <3>1, RecordingKeepsBooks DEF HopOutcomes
  <2>5. CASE pc = "declined" /\ HopIs("rejected")
    <3>1. ~ Fresh /\ ~ InHand /\ Passed /\ ~ Failing
      BY <2>5 DEF Fresh, InHand, Passed, Failing
    <3> QED BY <1>0, <2>1, <2>2, <2>5, <3>1, RecordingKeepsBooks DEF HopOutcomes
  <2> QED BY <2>1, <2>3, <2>4, <2>5
<1>2. CASE HopDispatched
  <2>1. /\ pc = "dispatching" /\ dpc = "idle" /\ UNCHANGED <<log, steps, attempt>>
        /\ IF Executed THEN HopIs("executed") /\ pc' = "loop"
                       ELSE HopIs("dispatch_failed") /\ pc' = "ended"
    BY <1>2 DEF HopDispatched, ActReturned, BackToOpen, Delivered, HopFailed, chainVars,
                budgetVars
  <2>2. /\ Fresh <=> Executed
        /\ ~ At("VERIFICATION_FAIL", "schema") /\ ~ At("VERIFICATION_FAIL", "gate")
    BY <1>0, <2>1, ActEnds DEF ActReturned, Fresh, At
  <2>3. /\ pc \in InAttempt /\ attempt' = Len(hops) + 1
        /\ InHand /\ Passed /\ ~ Failing
    BY <1>0, <2>1, <2>2 DEF Counted, InAttempt, InHand, Passed, Failing
  <2>4. CASE Executed
    BY <1>0, <2>1, <2>2, <2>3, <2>4, RecordingKeepsBooks DEF HopOutcomes
  <2>5. CASE ~ Executed
    BY <1>0, <2>1, <2>2, <2>3, <2>5, RecordingKeepsBooks DEF HopOutcomes
  <2> QED BY <2>4, <2>5
<1> QED BY <1>1, <1>2

\* The model, the check and the analyst write what their place then tells.
LEMMA JudgingKeepsBooks ==
    ASSUME EvidenceInv, HopBooks, UNCHANGED <<hops, pack>>,
           AskModel \/ ModelResponds \/ CheckProposal \/ Decide
    PROVE  HopBooks'
<1> USE TurnAssumption
<1>0. /\ SessionTypeOK /\ TurnPlace /\ Counted
      /\ UNCHANGED <<hops, attempt, steps>> /\ pc \in InAttempt
  BY DEF EvidenceInv, TurnInv, SessionInv, HopBooks, AskModel, SendPrompt, ModelResponds,
         ModelAnswers, ModelRetries, ModelFails, CheckProposal, Decide, AppendEvent, Record,
         Go, budgetVars, InAttempt
<1>1. ASSUME log' = log, pc \in {"prompt", "waiting"},
             pc' \in {"unavailable", "waiting", "checking"}
      PROVE  HopBooks'
  <2>1. /\ ~ Fresh /\ ~ InHand /\ ~ Passed /\ ~ Decided /\ ~ Failing
        /\ ~ Fresh' /\ ~ InHand' /\ ~ Passed' /\ ~ Decided' /\ ~ Failing'
    BY <1>1 DEF Fresh, InHand, Passed, Decided, Failing
  <2>2. pc' \in InAttempt /\ pc' \notin {"unopened", "loop"}
    BY <1>1 DEF InAttempt
  <2>3. Counted'
    BY <1>0, <2>2 DEF Counted
  <2> QED BY <1>0, <1>1, <2>1, <2>3, QuietKeepsBooks
<1>2. ASSUME NEW type \in EventTypes,
             NEW note \in {"none", "adapter", "proposal", "approve", "reject"},
             log' = Append(log, Entry(type, Agent, note)),
             \/ /\ pc = "prompt" /\ type = "PROMPT_SENT" /\ note = "none" /\ pc' = "waiting"
             \/ /\ pc = "waiting" /\ type = "VERIFICATION_FAIL" /\ note = "adapter"
                /\ pc' = "unavailable"
             \/ /\ pc = "checking" /\ type = "VERIFICATION_PASS" /\ note = "proposal"
                /\ pc' = "accepted"
             \/ /\ pc = "checking" /\ type = "VERIFICATION_FAIL" /\ note = "proposal"
                /\ pc' = "refused"
             \/ /\ pc = "reviewing" /\ type = "HUMAN_DECISION" /\ note = "approve"
                /\ pc' = "approved"
             \/ /\ pc = "reviewing" /\ type = "HUMAN_DECISION" /\ note = "reject"
                /\ pc' = "declined"
      PROVE  HopBooks'
  <2>1. /\ log' = Append(log, [type |-> type, agent |-> Agent,
                               turn |-> steps[Agent], note |-> note])
        /\ pc' \in InAttempt
    <3>1. note \in Notes \cup CloseReasons \cup {"none", "adapter"}
      BY EvidenceWritesAssumption
    <3> QED BY <1>0, <1>2, <3>1, Written DEF InAttempt
  <2>2. ~ Fresh /\ ~ Fresh'
    BY <1>2 DEF Fresh
  <2>3. InHand' <=> InHand \/ (type = "HUMAN_DECISION" /\ note = "approve")
    BY <1>2 DEF InHand
  <2>4. One(Decided)' = One(Decided) + One(type = "HUMAN_DECISION")
    BY <1>2 DEF One, Decided
  <2>5. One(Passed)' + One(Fresh)'
            = One(Passed) + One(Fresh) + One(type = "VERIFICATION_PASS")
    BY <1>2, <2>2 DEF One, Passed
  <2>6. One(Failing)' + One(type = "GATE_REJECTION")
                + One(type = "VERIFICATION_FAIL" /\ note = "adapter")
            = One(Failing) + One(type = "VERIFICATION_FAIL")
    BY <1>2 DEF One, Failing
  <2>7. /\ Fresh' <=> Fresh \/ (type = "VERIFICATION_PASS" /\ note = "gate")
        /\ pc' = "declined"
               <=> pc = "declined" \/ (type = "HUMAN_DECISION" /\ note = "reject")
        /\ pc' = "refused"
               <=> pc = "refused" \/ (type = "VERIFICATION_FAIL" /\ note = "proposal")
        /\ pc' = "unavailable"
               <=> pc = "unavailable" \/ (type = "VERIFICATION_FAIL" /\ note = "adapter")
        /\ type = "VERIFICATION_FAIL" /\ note = "adapter" => pc # "unavailable"
    BY <1>2, <2>2
  <2> QED BY <1>0, <2>1, <2>3, <2>4, <2>5, <2>6, <2>7, WritingKeepsBooks
<1>3. CASE AskModel
  <2>1. PICK estimate \in Estimates : SendPrompt(Agent, estimate)
    BY <1>3 DEF AskModel
  <2>2. /\ pc = "prompt" /\ pc' = IF reply' = Granted THEN "waiting" ELSE "unavailable"
        /\ IF reply' = Granted
           THEN log' = Append(log, Entry("PROMPT_SENT", Agent, "none")) ELSE log' = log
    BY <1>3, <2>1 DEF AskModel, SendPrompt, Record, Go, chainVars
  <2> QED BY <1>1, <1>2, <2>2 DEF EventTypes
<1>4. CASE ModelResponds
  <2>1. /\ pc = "waiting" /\ pending.agent = Agent
        /\ \/ log' = log /\ pc' \in {"checking", "waiting"}
           \/ /\ log' = Append(log, Entry("VERIFICATION_FAIL", pending.agent, "adapter"))
              /\ pc' = "unavailable"
    BY <1>0, <1>4
    DEF ModelResponds, ModelAnswers, ModelRetries, ModelFails, Record, Go, chainVars, TurnPlace
  <2> QED BY <1>1, <1>2, <2>1 DEF EventTypes
<1>5. CASE CheckProposal
  <2>1. /\ pc = "checking"
        /\ \/ /\ log' = Append(log, Entry("VERIFICATION_PASS", Agent, "proposal"))
              /\ pc' = "accepted"
           \/ /\ log' = Append(log, Entry("VERIFICATION_FAIL", Agent, "proposal"))
              /\ pc' = "refused"
    BY <1>5 DEF CheckProposal, AppendEvent, Record, Go
  <2> QED BY <1>2, <2>1 DEF EventTypes
<1>6. CASE Decide
  <2>1. PICK decision \in {"approve", "reject"} :
            /\ AppendEvent("HUMAN_DECISION", Agent, decision)
            /\ Go(AfterDecision(decision))
    BY <1>6 DEF Decide
  <2>2. /\ pc = "reviewing"
        /\ log' = Append(log, Entry("HUMAN_DECISION", Agent, decision))
        /\ pc' = IF decision = "approve" THEN "approved" ELSE "declined"
    BY <1>6, <2>1 DEF Decide, AppendEvent, Record, Go, AfterDecision
  <2> QED BY <1>2, <2>2 DEF EventTypes
<1> QED BY <1>3, <1>4, <1>5, <1>6

\* Dispatch writes what its place, and the end of the chain, then tell.
LEMMA DispatchKeepsBooks ==
    ASSUME EvidenceInv, HopBooks, UNCHANGED <<hops, pack>>, RunAct
    PROVE  HopBooks'
<1> USE TurnAssumption
<1>0. /\ SessionTypeOK /\ TurnInv /\ OnTrail /\ Counted /\ ActStep
      /\ pc \in {"approved", "dispatching"} /\ pc' = "dispatching"
      /\ UNCHANGED <<hops, attempt, steps>>
  BY ActRuns
  DEF EvidenceInv, TurnInv, SessionInv, HopBooks, RunAct, Go, ActStep
<1>1. /\ pc \in InAttempt /\ pc' \in InAttempt /\ InHand /\ InHand'
      /\ Passed /\ Passed' /\ Decided /\ Decided'
      /\ pc \notin {"declined", "refused", "unavailable", "unopened", "loop"}
      /\ pc' \notin {"declined", "refused", "unavailable", "unopened", "loop"}
  BY <1>0 DEF InAttempt, InHand, Passed, Decided
<1>2. CASE pc = "dispatching" /\ log' = log
  <2>1. \A type, note : At(type, note)' <=> At(type, note)
    BY <1>0, <1>2, Standing
  <2>2. (Fresh' <=> Fresh) /\ (Failing' <=> Failing)
    BY <1>0, <1>2, <2>1 DEF Fresh, Failing
  <2>3. Counted'
    BY <1>0, <1>1 DEF Counted
  <2> QED BY <1>0, <1>1, <1>2, <2>2, <2>3, QuietKeepsBooks
<1>3. ASSUME NEW type \in DispatchEvents, NEW note \in DispatchNotes,
             log' = Append(log, Entry(type, Agent, note)), ActWrites(type, note)
      PROVE  HopBooks'
  <2>1. note \in Notes /\ type \in EventTypes
    BY WritesAssumption, WorkEventsAssumption
  <2>2. /\ log' = Append(log, [type |-> type, agent |-> Agent,
                               turn |-> steps[Agent], note |-> note])
        /\ At(type, note)'
    BY <1>0, <1>3, <2>1, Written
  <2>3. \A t, n : At(t, n)' <=> type = t /\ note = n
    BY <2>2 DEF At
  <2>4. /\ Fresh' <=> type = "VERIFICATION_PASS" /\ note = "gate"
        /\ Failing' <=> type = "VERIFICATION_FAIL" /\ note \in {"schema", "gate"}
    BY <1>0, <2>3 DEF Fresh, Failing
  <2>5. /\ Failing <=> type = "GATE_REJECTION"
        /\ ~ Fresh
        /\ type \notin {"HUMAN_DECISION"}
        /\ type = "VERIFICATION_PASS" => note = "gate"
        /\ type = "VERIFICATION_FAIL" => note \in {"schema", "gate"}
    <3>1. pc = "approved" => At("HUMAN_DECISION", "approve")
      BY <1>0 DEF OnTrail
    <3> QED BY <1>0, <1>3, <3>1 DEF ActWrites, Failing, Fresh, At
  <2>6. /\ Fresh' <=> Fresh \/ (type = "VERIFICATION_PASS" /\ note = "gate")
        /\ pc' = "declined"
               <=> pc = "declined" \/ (type = "HUMAN_DECISION" /\ note = "reject")
        /\ pc' = "refused"
               <=> pc = "refused" \/ (type = "VERIFICATION_FAIL" /\ note = "proposal")
        /\ InHand' <=> InHand \/ (type = "HUMAN_DECISION" /\ note = "approve")
        /\ pc' = "unavailable"
               <=> pc = "unavailable" \/ (type = "VERIFICATION_FAIL" /\ note = "adapter")
        /\ type = "VERIFICATION_FAIL" /\ note = "adapter" => pc # "unavailable"
    BY <1>1, <2>4, <2>5
  <2>7. One(Decided)' = One(Decided) + One(type = "HUMAN_DECISION")
    BY <1>1, <2>5 DEF One
  <2>8. One(Passed)' + One(Fresh)'
            = One(Passed) + One(Fresh) + One(type = "VERIFICATION_PASS")
    BY <1>1, <2>4, <2>5 DEF One
  <2>9. One(Failing)' + One(type = "GATE_REJECTION")
                + One(type = "VERIFICATION_FAIL" /\ note = "adapter")
            = One(Failing) + One(type = "VERIFICATION_FAIL")
    BY <2>4, <2>5 DEF One
  <2> QED BY <1>0, <1>1, <2>2, <2>6, <2>7, <2>8, <2>9, WritingKeepsBooks
<1> QED BY <1>0, <1>2, <1>3 DEF ActStep

\* Opening and closing the session, waiting for the analyst, dying: quiet.
LEMMA WaitingKeepsBooks ==
    ASSUME EvidenceInv, HopBooks, UNCHANGED <<hops, pack>>,
           OpenSession \/ AwaitReview \/ CloseSession
    PROVE  HopBooks'
<1>0. /\ SessionTypeOK /\ Counted /\ UNCHANGED <<hops, attempt, steps>>
      /\ \/ pc = "accepted" /\ pc' = "reviewing" /\ log' = log
         \/ /\ pc = "unopened" /\ pc' = "loop"
            /\ log' = Append(log, Entry("SESSION_OPEN", Nobody, "none"))
         \/ pc \in {"loop", "ended"} /\ pc' = "closing" /\ log' = log
         \/ /\ pc = "closing" /\ pc' = "done"
            /\ log' = Append(log, Entry("SESSION_CLOSE", Nobody, closing))
  BY DEF EvidenceInv, TurnInv, SessionInv, HopBooks, OpenSession, SessionOpen, AwaitReview,
         AwaitAnalyst, CloseSession, StartClose, FinishClose, TurnEnded, Record, Go,
         chainVars, budgetVars
<1>1. \/ log' = log
      \/ \E entry : /\ log' = Append(log, entry)
                    /\ entry.type \in {"SESSION_OPEN", "SESSION_CLOSE"}
  <2>1. /\ Entry("SESSION_OPEN", Nobody, "none").type = "SESSION_OPEN"
        /\ Entry("SESSION_CLOSE", Nobody, closing).type = "SESSION_CLOSE"
    BY DEF Entry
  <2> QED BY <1>0, <2>1
<1>2. /\ ~ Fresh /\ ~ Fresh' /\ ~ InHand /\ ~ InHand' /\ ~ Failing /\ ~ Failing'
      /\ Passed' <=> Passed
      /\ ~ Decided /\ ~ Decided'
      /\ pc \notin {"declined", "refused", "unavailable"}
      /\ pc' \notin {"declined", "refused", "unavailable"}
  BY <1>0 DEF Fresh, InHand, Failing, Passed, Decided
<1>3. Counted'
  BY <1>0 DEF Counted, InAttempt
<1> QED BY <1>0, <1>1, <1>2, <1>3, QuietKeepsBooks

\* Each step of the session keeps the books.
LEMMA HopsKeepBooks ==
    ASSUME EvidenceInv, HopBooks, [EvidenceNext]_evidenceVars
    PROVE  HopBooks'
<1>1. CASE BeginHop
  BY <1>1, BeginningKeepsBooks
<1>2. CASE HopUnavailable \/ HopRefused \/ HopRejected \/ HopDispatched
  BY <1>2, EndingKeepsBooks
<1>3. CASE /\ AskModel \/ ModelResponds \/ CheckProposal \/ Decide
           /\ UNCHANGED <<hops, pack>>
  BY <1>3, JudgingKeepsBooks
<1>4. CASE RunAct /\ UNCHANGED <<hops, pack>>
  BY <1>4, DispatchKeepsBooks
<1>5. CASE (OpenSession \/ AwaitReview \/ CloseSession) /\ UNCHANGED <<hops, pack>>
  BY <1>5, WaitingKeepsBooks
<1>6. CASE (Crash /\ UNCHANGED <<dispatchVars, turnVars, hops, pack>>) \/ UNCHANGED evidenceVars
  <2>1. UNCHANGED <<log, steps, pc, attempt, hops>> /\ SessionTypeOK /\ Counted
    BY <1>6
    DEF Crash, evidenceVars, sessionTurnVars, allDispatchVars, sessionVars, chainVars,
        budgetVars, turnVars, EvidenceInv, TurnInv, SessionInv, HopBooks
  <2>2. \A type, note : At(type, note)' <=> At(type, note)
    BY <2>1, Standing
  <2>3. /\ (Fresh' <=> Fresh) /\ (Failing' <=> Failing) /\ (Passed' <=> Passed)
        /\ (Decided' <=> Decided) /\ (InHand' <=> InHand)
    BY <2>1, <2>2 DEF Fresh, Failing, Passed, Decided, InHand
  <2>4. Counted'
    BY <2>1 DEF Counted
  <2> QED BY <2>1, <2>3, <2>4, QuietKeepsBooks
<1> QED BY <1>1, <1>2, <1>3, <1>4, <1>5, <1>6 DEF EvidenceNext, EvidenceStep

\* Nothing is written, nothing recorded, all counts are zero.
LEMMA BooksStartEmpty ==
    ASSUME EvidenceInit
    PROVE  HopBooks
<1>1. /\ pc = "unopened" /\ log = <<>> /\ hops = <<>> /\ attempt = 0 /\ steps[Agent] = 0
  BY TurnAssumption DEF EvidenceInit, TurnInit, DispatchInit, SessionInit
<1>2. /\ DOMAIN log = {} /\ DOMAIN hops = {} /\ Len(hops) = 0 /\ hops \in Seq(HopOutcomes)
  BY <1>1
<1>3. /\ ~ Fresh /\ ~ InHand /\ ~ Passed /\ ~ Decided /\ ~ Failing
  BY <1>1 DEF Fresh, InHand, Passed, Decided, Failing
<1>4. Counted
  BY <1>1, <1>2 DEF Counted, InAttempt
<1>5. Traced
  BY <1>1, <1>2, <1>3 DEF Traced, Tells, Wrote, Was
<1>6. Balanced
  <2>1. \A type : Count(type) = 0
    <3>1. \A type : {i \in DOMAIN log : log[i].type = type} = {}
      BY <1>2
    <3> QED BY <3>1, FS_EmptySet DEF Count
  <2>2. \A how : HopsThat(how) = 0
    <3>1. \A how : {h \in DOMAIN hops : hops[h] = how} = {}
      BY <1>2
    <3> QED BY <3>1, FS_EmptySet DEF HopsThat
  <2>3. Cardinality(Silenced) = 0
    <3>1. Silenced = {}
      BY <1>2 DEF Silenced, Wrote
    <3> QED BY <3>1, FS_EmptySet
  <2>4. One(Fresh) = 0 /\ One(Passed) = 0 /\ One(Decided) = 0 /\ One(Failing) = 0
    BY <1>3 DEF One
  <2> QED BY <2>1, <2>2, <2>3, <2>4 DEF Balanced
<1> QED BY <1>4, <1>5, <1>6 DEF HopBooks

\* Books that are kept tell what the chain tells.
LEMMA BooksTellTheChain ==
    ASSUME EvidenceInv, HopBooks
    PROVE  HopsTellTheChain
<1>0. /\ Counted /\ Traced /\ Balanced
      /\ Len(hops) \in Nat /\ DOMAIN hops = 1 .. Len(hops)
  BY DEF HopBooks, Counted
<1>1. ASSUME BetweenAttempts
      PROVE  /\ Len(hops) = attempt
             /\ ~ Fresh /\ ~ Passed /\ ~ Decided /\ ~ Failing /\ ~ InHand
             /\ pc \notin {"declined", "refused", "unavailable"}
  BY <1>0, <1>1
  DEF BetweenAttempts, Counted, InAttempt, Fresh, Passed, Decided, Failing, InHand
<1>2. ASSUME BetweenAttempts, NEW h \in DOMAIN hops
      PROVE  /\ hops[h] = "executed" <=> Wrote("VERIFICATION_PASS", "gate", h)
             /\ hops[h] = "rejected" <=> Wrote("HUMAN_DECISION", "reject", h)
             /\ hops[h] = "refused" <=> Wrote("VERIFICATION_FAIL", "proposal", h)
             /\ hops[h] = "dispatch_failed" =>
                    Wrote("HUMAN_DECISION", "approve", h)
                    /\ ~ Wrote("VERIFICATION_PASS", "gate", h)
  <2>1. Tells(h) /\ \A how : Was(h, how) <=> hops[h] = how
    BY <1>0, <1>2 DEF Traced, Was
  <2> QED BY <1>1, <1>2, <2>1 DEF Tells
<1>3. ASSUME pc = "done"
      PROVE  /\ Governance.human_decisions =
                    Turn.executed_hops + Turn.rejected_hops + HopsThat("dispatch_failed")
             /\ Governance.verification_passes =
                    Governance.human_decisions + Turn.executed_hops
             /\ Governance.verification_failures
                    - HopsThat("refused") - Governance.gate_rejections
                        = Cardinality({h \in DOMAIN hops :
                                           Wrote("VERIFICATION_FAIL", "adapter", h)})
             /\ Untested =>
                    HopsThat("executed") + HopsThat("dispatch_failed")
                        = Governance.human_decisions
  <2>1. /\ Len(hops) = attempt
        /\ One(Fresh) = 0 /\ One(Passed) = 0 /\ One(Decided) = 0 /\ One(Failing) = 0
    BY <1>1, <1>3 DEF BetweenAttempts, One
  <2>2. /\ \A type : Count(type) \in Nat
        /\ \A how : HopsThat(how) \in Nat
        /\ Cardinality(Silenced) \in Nat
    BY <1>0, CountsAreNumbers DEF EvidenceInv, TurnInv, SessionInv
  <2>3. Silenced = {h \in DOMAIN hops : Wrote("VERIFICATION_FAIL", "adapter", h)}
    BY <1>0, <2>1 DEF Silenced
  <2>4. /\ Count("HUMAN_DECISION") \in Nat /\ Count("VERIFICATION_PASS") \in Nat
        /\ Count("VERIFICATION_FAIL") \in Nat /\ Count("GATE_REJECTION") \in Nat
        /\ Count("MANDATE_VIOLATION_ATTEMPT") \in Nat
        /\ HopsThat("executed") \in Nat /\ HopsThat("rejected") \in Nat
        /\ HopsThat("refused") \in Nat /\ HopsThat("dispatch_failed") \in Nat
    BY <2>2
  <2>5. /\ Count("HUMAN_DECISION")
               = HopsThat("executed") + HopsThat("rejected") + HopsThat("dispatch_failed")
        /\ Count("VERIFICATION_PASS")
               = HopsThat("executed") + HopsThat("rejected") + HopsThat("dispatch_failed")
                     + HopsThat("executed")
        /\ Count("VERIFICATION_FAIL")
               = HopsThat("refused") + Count("GATE_REJECTION") + Cardinality(Silenced)
    BY <1>0, <2>1, <2>2, <2>4 DEF Balanced
  <2>6. /\ Governance.human_decisions = Count("HUMAN_DECISION")
        /\ Governance.verification_passes = Count("VERIFICATION_PASS")
        /\ Governance.verification_failures = Count("VERIFICATION_FAIL")
        /\ Governance.gate_rejections = Count("GATE_REJECTION")
        /\ Governance.mandate_violation_attempts = Count("MANDATE_VIOLATION_ATTEMPT")
        /\ Governance.rejected_hops = HopsThat("rejected")
        /\ Turn.executed_hops = HopsThat("executed")
        /\ Turn.rejected_hops = HopsThat("rejected")
    BY DEF Governance, Turn
  <2>7. Untested => HopsThat("rejected") = 0
    BY <2>4, <2>6 DEF Untested, TotalExercised
  <2> QED BY <2>2, <2>3, <2>4, <2>5, <2>6, <2>7
<1> QED BY <1>1, <1>2, <1>3 DEF HopsTellTheChain

\* In any evidence session the hop records tell, hop by hop, what the chain
\* tells, and the counts of the finished session agree with them.
THEOREM HopsAreTheChain == EvidenceSpec => []HopsTellTheChain
<1>1. EvidenceInit => HopBooks
  BY BooksStartEmpty
<1>2. EvidenceInv /\ HopBooks /\ [EvidenceNext]_evidenceVars => HopBooks'
  BY HopsKeepBooks
<1>3. EvidenceInv /\ HopBooks => HopsTellTheChain
  BY BooksTellTheChain
<1> QED BY <1>1, <1>2, <1>3, EvidenceInvariant, PTL DEF EvidenceSpec
====
