---- MODULE MemoTurnProofs ----
(***************************************************************************)
(* What module MemoTurn's run checks for three steps, proved for any       *)
(* budgets, limits and mandates: a memo session is a session, its attempt  *)
(* log tells what the chain tells, the memo it delivers is the one the     *)
(* chain shows, and every prompt carries the findings of the attempt       *)
(* before it.                                                              *)
(*                                                                         *)
(* The invariant says all of it of the attempts, which only grow: Traced   *)
(* relates them to the chain, Kept the memo, and Asked the prompts to the  *)
(* steps that Counted counts them by.                                      *)
(***************************************************************************)
EXTENDS MemoTurn, AgentTurnProofs

\* The draft of this step has been accepted as a memo and is not yet recorded.
InHand == pc \in {"approved", "dispatching"}

\* What became of an attempt.
Became(k, how) == k \in DOMAIN attempts /\ attempts[k] = how

\* What the chain shows of a draft whose dispatch did not verify it.
Rejected(turn) ==
    \/ Wrote("GATE_REJECTION", "gate", turn)
    \/ Wrote("GATE_REJECTION", "schema", turn)
    \/ Wrote("TOOL_RESULT", "raised", turn)

\* An attempt is a granted step, but for the last one, which may have found
\* the budget empty.
Counted ==
    /\ attempts \in Seq(AttemptOutcomes)
    /\ attempt = IF pc \in InAttempt THEN Len(attempts) + 1 ELSE Len(attempts)
    /\ pc \in {"unopened", "loop"} => Len(attempts) = steps[Agent]
    /\ pc \in InAttempt => Len(attempts) + 1 = steps[Agent]

\* The next prompt's findings are those of the step before.
Asked ==
    /\ told \in Seq(Nat)
    /\ RevisionsAnswerTheLastFindings
    /\ pc \in {"unopened", "loop"} => flagged = steps[Agent] /\ Len(told) = steps[Agent]
    /\ pc = "prompt" => flagged + 1 = steps[Agent] /\ Len(told) + 1 = steps[Agent]
    /\ pc \in InAttempt \ {"prompt", "unavailable"} => Len(told) = steps[Agent]
    /\ flagged \in Nat

\* The chain shows what became of an attempt, or of the one underway ...
Tells(turn) ==
    /\ Wrote("VERIFICATION_PASS", "gate", turn)
           <=> Became(turn, "verified") \/ (Fresh /\ turn = steps[Agent])
    /\ Wrote("OUTPUT_PROPOSED", "refused", turn)
           <=> Became(turn, "refused") \/ (pc = "refused" /\ turn = steps[Agent])
    /\ Wrote("OUTPUT_PROPOSED", "accepted", turn)
           <=> \/ Became(turn, "verified") \/ Became(turn, "gate_rejected")
               \/ InHand /\ turn = steps[Agent]
    /\ Became(turn, "gate_rejected") => Rejected(turn)

\* ... for each of them.
Traced == \A turn \in Nat : Tells(turn)

\* The memo is the draft of the last attempt that had one, and an attempt that
\* verified was the last.
Kept ==
    /\ memo \in Nat
    /\ memo # 0 => Became(memo, "verified") \/ Became(memo, "gate_rejected")
    /\ \A k \in Nat :
           /\ Became(k, "verified") \/ Became(k, "gate_rejected") => k <= memo
           /\ Became(k, "verified") =>
                  /\ pc \in {"ended", "closing", "done"}
                  /\ k = memo /\ k = steps[Agent]

MemoBooks == Counted /\ Asked /\ Traced /\ Kept

MemoInv == TurnInv /\ MemoBooks

(***************************************************************************)
(* The steps of a memo session are steps of a session.                     *)
(***************************************************************************)
LEMMA DraftsKeepPlace ==
    ASSUME TurnInv, [MemoNext]_memoTurnVars
    PROVE  [SessionNext]_sessionVars /\ TurnInv'
<1> USE TurnAssumption
<1>0. TurnPlace
  BY DEF TurnInv
<1>1. CASE BeginDraft \/ OpenSession \/ CloseSession
  BY <1>1, TurnBeginsAndEnds DEF BeginDraft, BeginAttempt
<1>2. CASE DraftUnavailable \/ DraftRefused \/ AskDraft \/ ModelResponds
  BY <1>2, TurnAsks DEF DraftUnavailable, DraftRefused, AskDraft
<1>3. CASE DraftDispatched
  <2>1. /\ pc \in InAttempt \ {"waiting"} /\ dpc = "idle" /\ SessionOnly
        /\ BackToOpen /\ pc' \in {"loop", "ended"}
        /\ broke' \in CloseReasons \cup {"none"}
    BY <1>0, <1>3 DEF DraftDispatched, ActReturned, AfterVerified, InAttempt, TurnPlace
  <2> QED BY <2>1, TurnMoves
<1>4. CASE CheckDraft
  <2>1. PICK note \in {"accepted", "refused"} : AppendEvent("OUTPUT_PROPOSED", Agent, note)
    BY <1>4 DEF CheckDraft
  <2>2. "OUTPUT_PROPOSED" \in WorkEvents /\ note \in Notes
    BY MemoWritesAssumption
  <2>3. /\ pc \in InAttempt \ {"waiting", "dispatching"} /\ SessionOnly /\ broke' = broke
        /\ pc' \in {"checking", "refused", "accepted", "declined", "approved"}
    BY <1>4 DEF CheckDraft, Go, InAttempt
  <2> QED BY <2>1, <2>2, <2>3, TurnRecords
<1>5. CASE RunAct
  BY <1>5, TurnDispatches
<1>6. CASE (Crash /\ UNCHANGED <<dispatchVars, turnVars, memoVars>>) \/ UNCHANGED memoTurnVars
  BY <1>6, TurnCrashes DEF memoTurnVars, sessionTurnVars, allDispatchVars
<1> QED BY <1>1, <1>2, <1>3, <1>4, <1>5, <1>6 DEF MemoNext, MemoStep

(***************************************************************************)
(* What keeps the books.                                                   *)
(***************************************************************************)

\* The entries that say nothing of a draft.
Silent(entry) ==
    /\ entry.type # "OUTPUT_PROPOSED"
    /\ ~ (entry.type = "VERIFICATION_PASS" /\ entry.note = "gate")

\* A step that writes nothing, or nothing of a draft, leaves what was written.
LEMMA SilenceKeepsChain ==
    ASSUME SessionTypeOK,
           log' = log \/ \E entry : log' = Append(log, entry) /\ Silent(entry),
           NEW turn
    PROVE  /\ Wrote("VERIFICATION_PASS", "gate", turn)'
                  <=> Wrote("VERIFICATION_PASS", "gate", turn)
           /\ Wrote("OUTPUT_PROPOSED", "refused", turn)'
                  <=> Wrote("OUTPUT_PROPOSED", "refused", turn)
           /\ Wrote("OUTPUT_PROPOSED", "accepted", turn)'
                  <=> Wrote("OUTPUT_PROPOSED", "accepted", turn)
<1>1. CASE log' = log
  BY <1>1 DEF Wrote
<1>2. CASE \E entry : log' = Append(log, entry) /\ Silent(entry)
  BY <1>2, WroteGrows DEF Silent
<1> QED BY <1>1, <1>2

\* What was rejected stays rejected.
LEMMA RejectedStands ==
    ASSUME SessionTypeOK, log' = log \/ \E entry : log' = Append(log, entry), NEW turn,
           Rejected(turn)
    PROVE  Rejected(turn)'
<1>1. CASE log' = log
  BY <1>1 DEF Rejected, Wrote
<1>2. CASE \E entry : log' = Append(log, entry)
  BY <1>2, WroteGrows DEF Rejected
<1> QED BY <1>1, <1>2

\* Recording an attempt adds it to the others.
LEMMA AttemptsGrow ==
    ASSUME Counted, NEW how \in AttemptOutcomes, AttemptIs(how)
    PROVE  /\ attempts' \in Seq(AttemptOutcomes) /\ Len(attempts') = Len(attempts) + 1
           /\ Len(attempts) \in Nat
           /\ \A k, what : Became(k, what)'
                  <=> Became(k, what) \/ (k = Len(attempts) + 1 /\ what = how)
<1>1. /\ Len(attempts) \in Nat /\ DOMAIN attempts = 1 .. Len(attempts)
      /\ attempts' \in Seq(AttemptOutcomes) /\ Len(attempts') = Len(attempts) + 1
      /\ DOMAIN attempts' = 1 .. Len(attempts) + 1
      /\ \A k \in 1 .. Len(attempts) : attempts'[k] = attempts[k]
      /\ attempts'[Len(attempts) + 1] = how
  BY DEF Counted, AttemptIs
<1>2. \A k \in DOMAIN attempts' : k \in DOMAIN attempts \/ k = Len(attempts) + 1
  BY <1>1
<1>3. \A k \in DOMAIN attempts : k \in DOMAIN attempts' /\ attempts'[k] = attempts[k]
  BY <1>1
<1>4. Len(attempts) + 1 \in DOMAIN attempts' /\ Len(attempts) + 1 \notin DOMAIN attempts
  BY <1>1
<1> QED BY <1>1, <1>2, <1>3, <1>4, Zenon DEF Became

\* Only attempts that were made became something.
LEMMA BecameIsPast ==
    ASSUME Counted, NEW k, NEW how, Became(k, how)
    PROVE  k \in Nat /\ k > 0 /\ k <= Len(attempts)
BY DEF Counted, Became

\* The end of the chain is on it.
LEMMA AtIsWritten ==
    ASSUME SessionTypeOK, NEW type, NEW note, At(type, note)
    PROVE  Wrote(type, note, steps[Agent])
<1>1. log # <<>> /\ log \in Seq(Entries)
  BY DEF At, SessionTypeOK
<1>2. Len(log) \in DOMAIN log
  BY <1>1, EmptySeq
<1> QED BY <1>2 DEF At, Wrote

\* The turn's moves that record no attempt, find no memo and send no prompt.
QuietMove ==
    \/ pc' = pc
    \/ pc = "unopened" /\ pc' = "loop"
    \/ pc = "prompt" /\ pc' = "unavailable"
    \/ pc = "waiting" /\ pc' \in {"checking", "unavailable"}
    \/ pc = "approved" /\ pc' = "dispatching"
    \/ pc \in {"loop", "ended"} /\ pc' = "closing"
    \/ pc = "closing" /\ pc' = "done"

\* A step that makes no attempt and writes nothing of a draft leaves the
\* attempts, what the chain shows of them and the memo as they are ...
LEMMA QuietStep ==
    ASSUME SessionTypeOK, MemoBooks, UNCHANGED <<attempts, memo>>, steps' = steps,
           attempt' = attempt,
           log' = log \/ \E entry : log' = Append(log, entry) /\ Silent(entry),
           Fresh' <=> Fresh,
           QuietMove \/ (pc = "prompt" /\ pc' = "waiting")
    PROVE  Counted' /\ Traced' /\ Kept'
<1>1. Counted'
  BY DEF MemoBooks, Counted, InAttempt, QuietMove
<1>2. \A k, how : Became(k, how)' <=> Became(k, how)
  BY DEF Became
<1>3. Traced'
  <2> SUFFICES ASSUME NEW turn \in Nat PROVE Tells(turn)'
    BY DEF Traced
  <2>1. /\ Wrote("VERIFICATION_PASS", "gate", turn)'
               <=> Wrote("VERIFICATION_PASS", "gate", turn)
        /\ Wrote("OUTPUT_PROPOSED", "refused", turn)'
               <=> Wrote("OUTPUT_PROPOSED", "refused", turn)
        /\ Wrote("OUTPUT_PROPOSED", "accepted", turn)'
               <=> Wrote("OUTPUT_PROPOSED", "accepted", turn)
    BY SilenceKeepsChain
  <2>2. Rejected(turn) => Rejected(turn)'
    BY RejectedStands
  <2>3. (InHand' <=> InHand) /\ (pc' = "refused" <=> pc = "refused")
    BY DEF InHand, QuietMove
  <2> QED BY <1>2, <2>1, <2>2, <2>3 DEF MemoBooks, Traced, Tells
<1>4. Kept'
  BY <1>2 DEF MemoBooks, Kept, Became, QuietMove
<1> QED BY <1>1, <1>3, <1>4

\* ... and the findings too, unless it sends a prompt.
LEMMA QuietFindings ==
    ASSUME Asked, UNCHANGED <<flagged, told>>, steps' = steps, QuietMove
    PROVE  Asked'
BY DEF Asked, InAttempt, RevisionsAnswerTheLastFindings, QuietMove

\* A step of the session that is not the memo turn's own.
LEMMA SessionKeepsBooks ==
    ASSUME TurnInv, MemoBooks, UNCHANGED memoVars,
           OpenSession \/ ModelResponds \/ CloseSession
               \/ (Crash /\ UNCHANGED <<dispatchVars, turnVars>>)
               \/ UNCHANGED sessionTurnVars
    PROVE  MemoBooks'
<1>0. SessionTypeOK /\ TurnPlace /\ UNCHANGED <<attempts, memo, flagged, told>>
  BY DEF TurnInv, SessionInv, memoVars
<1> SUFFICES /\ steps' = steps /\ attempt' = attempt /\ QuietMove /\ (Fresh' <=> Fresh)
             /\ log' = log \/ \E entry : log' = Append(log, entry) /\ Silent(entry)
  BY <1>0, QuietStep, QuietFindings DEF MemoBooks
<1>1. CASE OpenSession \/ CloseSession
  <2>1. /\ steps' = steps /\ attempt' = attempt /\ QuietMove /\ ~ Fresh /\ ~ Fresh'
    BY <1>1
    DEF OpenSession, SessionOpen, CloseSession, StartClose, FinishClose, TurnEnded, Go,
        budgetVars, Fresh, QuietMove
  <2>2. \/ log' = log
        \/ log' = Append(log, Entry("SESSION_OPEN", Nobody, "none"))
        \/ log' = Append(log, Entry("SESSION_CLOSE", Nobody, closing))
    BY <1>1
    DEF OpenSession, SessionOpen, CloseSession, StartClose, FinishClose, Record, chainVars
  <2>3. log' = log \/ \E entry : log' = Append(log, entry) /\ Silent(entry)
    BY <2>2 DEF Silent, Entry
  <2> QED BY <2>1, <2>3
<1>2. CASE ModelResponds
  <2>1. /\ steps' = steps /\ attempt' = attempt /\ QuietMove /\ ~ Fresh /\ ~ Fresh'
    BY <1>2
    DEF ModelResponds, ModelAnswers, ModelRetries, ModelFails, Go, budgetVars, Fresh, QuietMove
  <2>2. \/ log' = log
        \/ log' = Append(log, Entry("VERIFICATION_FAIL", pending.agent, "adapter"))
    BY <1>2 DEF ModelResponds, ModelAnswers, ModelRetries, ModelFails, Record, chainVars
  <2>3. log' = log \/ \E entry : log' = Append(log, entry) /\ Silent(entry)
    BY <2>2 DEF Silent, Entry
  <2> QED BY <2>1, <2>3
<1>3. CASE (Crash /\ UNCHANGED <<dispatchVars, turnVars>>) \/ UNCHANGED sessionTurnVars
  <2>1. UNCHANGED <<log, steps, pc, attempt>>
    BY <1>3
    DEF Crash, sessionTurnVars, allDispatchVars, sessionVars, chainVars, budgetVars, turnVars
  <2> QED BY <2>1, Standing DEF Fresh, QuietMove
<1> QED BY <1>1, <1>2, <1>3

\* A prompt carries what is flagged.
LEMMA PromptKeepsBooks ==
    ASSUME TurnInv, MemoBooks, AskDraft
    PROVE  MemoBooks'
<1>1. PICK estimate \in Estimates : SendPrompt(Agent, estimate)
  BY DEF AskDraft, AskModel
<1>2. /\ pc = "prompt" /\ steps' = steps /\ attempt' = attempt
      /\ UNCHANGED <<attempts, memo, flagged>> /\ SessionTypeOK
      /\ pc' = IF reply' = Granted THEN "waiting" ELSE "unavailable"
      /\ IF reply' = Granted
         THEN log' = Append(log, Entry("PROMPT_SENT", Agent, "none")) ELSE log' = log
      /\ told' = IF reply' = Granted THEN Append(told, flagged) ELSE told
  BY <1>1 DEF AskDraft, AskModel, SendPrompt, Record, Go, budgetVars, chainVars, TurnInv,
              SessionInv
<1>3. log' = log \/ \E entry : log' = Append(log, entry) /\ Silent(entry)
  BY <1>2 DEF Silent, Entry
<1>4. Counted' /\ Traced' /\ Kept'
  BY <1>2, <1>3, QuietStep DEF Fresh, QuietMove
<1>5. Asked'
  <2>1. CASE reply' # Granted
    BY <1>2, <2>1, QuietFindings DEF MemoBooks, QuietMove
  <2>2. CASE reply' = Granted
    <3>1. /\ told \in Seq(Nat) /\ flagged \in Nat /\ Len(told) \in Nat
          /\ flagged + 1 = steps[Agent] /\ Len(told) + 1 = steps[Agent]
          /\ \A k \in 1 .. Len(told) : told[k] = k - 1
      BY <1>2 DEF MemoBooks, Asked, RevisionsAnswerTheLastFindings
    <3>2. /\ told' \in Seq(Nat) /\ Len(told') = Len(told) + 1
          /\ DOMAIN told' = 1 .. Len(told) + 1
          /\ \A k \in 1 .. Len(told) : told'[k] = told[k]
          /\ told'[Len(told) + 1] = flagged
      BY <1>2, <2>2, <3>1
    <3>3. flagged = Len(told)
      BY <3>1
    <3>4. ASSUME NEW k \in DOMAIN told' PROVE told'[k] = k - 1
      <4>1. k \in 1 .. Len(told) \/ k = Len(told) + 1
        BY <3>1, <3>2
      <4>2. CASE k \in 1 .. Len(told)
        BY <3>1, <3>2, <4>2
      <4>3. CASE k = Len(told) + 1
        <5>1. \A n \in Nat : (n + 1) - 1 = n
          OBVIOUS
        <5>2. told'[k] = Len(told)
          BY <3>2, <3>3, <4>3
        <5> QED BY <3>1, <4>3, <5>1, <5>2
      <4> QED BY <4>1, <4>2, <4>3
    <3> QED BY <1>2, <2>2, <3>1, <3>2, <3>4 DEF Asked, RevisionsAnswerTheLastFindings, InAttempt
  <2> QED BY <2>1, <2>2
<1> QED BY <1>4, <1>5 DEF MemoBooks

\* Whether the draft is a memo at all.
LEMMA CheckKeepsBooks ==
    ASSUME TurnInv, MemoBooks, CheckDraft
    PROVE  MemoBooks'
<1>1. PICK note \in {"accepted", "refused"} :
          /\ AppendEvent("OUTPUT_PROPOSED", Agent, note)
          /\ Go(IF note = "accepted" THEN "approved" ELSE "refused")
  BY DEF CheckDraft
<1>2. /\ pc = "checking" /\ pc' = IF note = "accepted" THEN "approved" ELSE "refused"
      /\ UNCHANGED <<attempts, memo, flagged, told, steps, attempt>>
      /\ log' = Append(log, Entry("OUTPUT_PROPOSED", Agent, note))
  BY <1>1 DEF CheckDraft, memoVars, AppendEvent, Record, Go, budgetVars
<1>3. SessionTypeOK /\ ~ Fresh /\ ~ Fresh'
  BY <1>2 DEF TurnInv, SessionInv, Fresh
<1>4. Counted' /\ Asked' /\ Kept'
  BY <1>2
  DEF MemoBooks, Counted, Asked, Kept, Became, InAttempt, RevisionsAnswerTheLastFindings
<1>5. \A k, how : Became(k, how)' <=> Became(k, how)
  BY <1>2 DEF Became
<1>6. \E entry : /\ log' = Append(log, entry)
                 /\ entry.type = "OUTPUT_PROPOSED" /\ entry.note = note
                 /\ entry.turn = steps[Agent]
  <2>1. note \in Notes /\ "OUTPUT_PROPOSED" \in EventTypes /\ steps' = steps
    BY <1>2, MemoWritesAssumption DEF EventTypes
  <2>2. Entry("OUTPUT_PROPOSED", Agent, note)
            = [type |-> "OUTPUT_PROPOSED", agent |-> Agent, turn |-> steps[Agent], note |-> note]
    BY <1>2, <1>3, <2>1, Written
  <2> QED BY <1>2, <2>2
<1>7. Traced'
  <2> SUFFICES ASSUME NEW turn \in Nat PROVE Tells(turn)'
    BY DEF Traced
  <2>1. /\ Wrote("VERIFICATION_PASS", "gate", turn)'
               <=> Wrote("VERIFICATION_PASS", "gate", turn)
        /\ \A what \in {"accepted", "refused"} :
               Wrote("OUTPUT_PROPOSED", what, turn)'
                   <=> \/ Wrote("OUTPUT_PROPOSED", what, turn)
                       \/ what = note /\ turn = steps[Agent]
    BY <1>3, <1>6, WroteGrows
  <2>2. Rejected(turn) => Rejected(turn)'
    BY <1>3, <1>6, RejectedStands
  <2>3. ~ InHand /\ (InHand' <=> note = "accepted") /\ (pc' = "refused" <=> note = "refused")
        /\ pc # "refused" /\ steps'[Agent] = steps[Agent]
    BY <1>2 DEF InHand
  <2> QED BY <1>3, <1>5, <2>1, <2>2, <2>3 DEF MemoBooks, Traced, Tells
<1> QED BY <1>4, <1>7 DEF MemoBooks

\* Dispatch makes the draft verified, or writes nothing of it.
LEMMA DispatchKeepsBooks ==
    ASSUME TurnInv, MemoBooks, RunAct, UNCHANGED memoVars
    PROVE  MemoBooks'
<1>0. /\ SessionTypeOK /\ UNCHANGED <<attempts, memo, flagged, told>> /\ steps' = steps
      /\ attempt' = attempt /\ pc \in {"approved", "dispatching"} /\ pc' = "dispatching"
  BY ActAccepts DEF TurnInv, SessionInv, memoVars, RunAct, Go
<1>1. CASE log' = log /\ (Fresh' <=> Fresh)
  BY <1>0, <1>1, QuietStep, QuietFindings DEF MemoBooks, QuietMove
<1>2. ASSUME ~ Fresh,
             NEW type \in DispatchEvents, NEW note \in DispatchNotes,
             log' = Append(log, [type |-> type, agent |-> Agent,
                                 turn |-> steps[Agent], note |-> note]),
             Fresh' <=> type = "VERIFICATION_PASS" /\ note = "gate"
      PROVE  MemoBooks'
  <2>1. CASE ~ Fresh'
    <3>1. \E entry : log' = Append(log, entry) /\ Silent(entry)
      BY <1>2, <2>1 DEF Silent, DispatchEvents
    <3> QED BY <1>0, <1>2, <2>1, <3>1, QuietStep, QuietFindings DEF MemoBooks, QuietMove
  <2>2. CASE Fresh'
    <3>1. PICK entry : /\ log' = Append(log, entry) /\ entry.turn = steps[Agent]
                       /\ entry.type = "VERIFICATION_PASS" /\ entry.note = "gate"
      BY <1>2, <2>2
    <3>2. Counted' /\ Asked' /\ Kept'
      BY <1>0
      DEF MemoBooks, Counted, Asked, Kept, Became, InAttempt, RevisionsAnswerTheLastFindings
    <3>3. \A k, how : Became(k, how)' <=> Became(k, how)
      BY <1>0 DEF Became
    <3>4. Traced'
      <4> SUFFICES ASSUME NEW turn \in Nat PROVE Tells(turn)'
        BY DEF Traced
      <4>1. /\ Wrote("VERIFICATION_PASS", "gate", turn)'
                   <=> Wrote("VERIFICATION_PASS", "gate", turn) \/ turn = steps[Agent]
            /\ \A what \in {"accepted", "refused"} :
                   Wrote("OUTPUT_PROPOSED", what, turn)'
                       <=> Wrote("OUTPUT_PROPOSED", what, turn)
        BY <1>0, <3>1, WroteGrows
      <4>2. Rejected(turn) => Rejected(turn)'
        BY <1>0, <3>1, RejectedStands
      <4>3. InHand /\ InHand' /\ pc # "refused" /\ pc' # "refused"
            /\ steps'[Agent] = steps[Agent]
        BY <1>0 DEF InHand
      <4> QED BY <1>2, <2>2, <3>3, <4>1, <4>2, <4>3 DEF MemoBooks, Traced, Tells
    <3> QED BY <3>2, <3>4 DEF MemoBooks
  <2> QED BY <2>1, <2>2
<1> QED BY <1>1, <1>2, ActAccepts

\* An attempt recorded as what the chain shows of it keeps the record true.
LEMMA RecordingKeepsBooks ==
    ASSUME SessionTypeOK, MemoBooks, NEW how \in AttemptOutcomes, AttemptIs(how),
           log' = log, steps' = steps, attempt' = Len(attempts) + 1,
           pc' \in {"loop", "ended"},
           pc \in InAttempt \/ (pc = "loop" /\ pc' = "ended"),
           ~ Fresh',
           how = "verified" <=> Fresh,
           how = "verified" => pc' = "ended",
           how = "refused" <=> pc = "refused",
           how \in {"verified", "gate_rejected"} <=> InHand,
           how = "gate_rejected" => Rejected(steps[Agent]),
           memo' = IF InHand THEN steps[Agent] ELSE memo
    PROVE  Counted' /\ Traced' /\ Kept'
<1>0. steps[Agent] \in Nat /\ Len(attempts) \in Nat
  BY TurnAssumption DEF SessionTypeOK, MemoBooks, Counted
<1>1. /\ attempts' \in Seq(AttemptOutcomes) /\ Len(attempts') = Len(attempts) + 1
      /\ \A k, what : Became(k, what)'
              <=> Became(k, what) \/ (k = Len(attempts) + 1 /\ what = how)
  BY AttemptsGrow DEF MemoBooks
<1>2. pc \in InAttempt => Len(attempts) + 1 = steps[Agent]
  BY DEF MemoBooks, Counted
<1>3. Counted'
  BY <1>1, <1>2 DEF Counted, InAttempt
<1>4. \A k, what : Became(k, what) => k \in Nat /\ k > 0 /\ k <= Len(attempts)
  BY BecameIsPast DEF MemoBooks
<1>5. how \in {"verified", "refused", "gate_rejected"} => Len(attempts) + 1 = steps[Agent]
  BY <1>2 DEF InHand, InAttempt
<1>6. \A k : /\ how \in {"verified", "refused", "gate_rejected"} =>
                    \A what : Became(k, what)'
                        <=> Became(k, what) \/ (k = steps[Agent] /\ what = how)
             /\ how \notin {"verified", "refused", "gate_rejected"} =>
                    \A what \in {"verified", "refused", "gate_rejected"} :
                        Became(k, what)' <=> Became(k, what)
  BY <1>1, <1>5
<1>7. Traced'
  <2> SUFFICES ASSUME NEW turn \in Nat PROVE Tells(turn)'
    BY DEF Traced
  <2>1. /\ \A type, note : Wrote(type, note, turn)' <=> Wrote(type, note, turn)
        /\ Rejected(turn)' <=> Rejected(turn)
    BY DEF Wrote, Rejected
  <2>2. ~ InHand' /\ pc' # "refused"
    BY DEF InHand
  <2>3. Tells(turn)
    BY DEF MemoBooks, Traced
  <2>4. turn = steps[Agent] /\ how = "gate_rejected" => Rejected(turn)
    OBVIOUS
  <2> QED BY <1>6, <2>1, <2>2, <2>3, <2>4 DEF Tells
<1>8. Kept'
  <2> USE DEF Kept
  <2>1. Kept /\ memo' \in Nat
    BY <1>0 DEF MemoBooks
  <2>2. \A k : ~ Became(k, "verified")
    BY <1>4, <2>1 DEF InAttempt
  <2>3. CASE InHand
    <3>1. memo' = steps[Agent] /\ Len(attempts) + 1 = steps[Agent]
      BY <1>5, <2>3
    <3>2. \A k, what : Became(k, what)'
              <=> Became(k, what) \/ (k = steps[Agent] /\ what = how)
      BY <1>6, <2>3
    <3>3. \A k, what : Became(k, what)' => k <= steps[Agent]
      BY <1>0, <1>4, <3>1, <3>2
    <3>4. \A k : Became(k, "verified")' => k = steps[Agent] /\ pc' = "ended"
      BY <2>2, <3>2
    <3>5. Became(steps[Agent], "verified")' \/ Became(steps[Agent], "gate_rejected")'
      BY <2>3, <3>2
    <3> QED BY <2>1, <3>1, <3>3, <3>4, <3>5
  <2>4. CASE ~ InHand
    <3>1. /\ memo' = memo
          /\ \A k, what : what \in {"verified", "gate_rejected"} =>
                 (Became(k, what)' <=> Became(k, what))
      BY <1>1, <2>4
    <3> QED BY <2>1, <2>2, <3>1
  <2> QED BY <2>3, <2>4
<1> QED BY <1>3, <1>7, <1>8

\* A granted step is a new attempt; a refused one is recorded and the last.
LEMMA BeginningKeepsBooks ==
    ASSUME TurnInv, MemoBooks, BeginDraft
    PROVE  MemoBooks'
<1> USE TurnAssumption
<1>0. /\ pc = "loop" /\ UNCHANGED <<log, memo, flagged, told>> /\ attempt' = attempt + 1
      /\ ~ Fresh /\ ~ Fresh' /\ SessionTypeOK
      /\ IF reply' = Granted THEN pc' = "prompt" ELSE pc' = "ended"
      /\ IF reply' = Granted THEN attempts' = attempts ELSE AttemptIs("budget_exhausted")
      /\ IF reply' = Granted THEN steps'[Agent] = steps[Agent] + 1 ELSE steps' = steps
      /\ steps[Agent] \in Nat
  BY DEF TurnInv, SessionInv, SessionTypeOK, BeginDraft, BeginAttempt, BeginAttemptAt,
         BeginTurn, chainVars, Fresh
<1>1. /\ attempt = Len(attempts) /\ Len(attempts) = steps[Agent] /\ flagged = steps[Agent]
      /\ Len(told) = steps[Agent]
  BY <1>0 DEF MemoBooks, Counted, Asked, InAttempt
<1>2. CASE reply' = Granted
  <2>1. Counted' /\ Asked'
    BY <1>0, <1>1, <1>2
    DEF MemoBooks, Counted, Asked, InAttempt, RevisionsAnswerTheLastFindings
  <2>2. \A k, how : Became(k, how)' <=> Became(k, how)
    BY <1>0, <1>2 DEF Became
  <2>3. \A k : ~ Became(k, "verified")
    BY <1>0, BecameIsPast DEF MemoBooks, Kept
  <2>4. Kept'
    BY <1>0, <2>2, <2>3 DEF MemoBooks, Kept, Became
  <2>5. Traced'
    <3> SUFFICES ASSUME NEW turn \in Nat PROVE Tells(turn)'
      BY DEF Traced
    <3>1. /\ \A type, note : Wrote(type, note, turn)' <=> Wrote(type, note, turn)
          /\ Rejected(turn)' <=> Rejected(turn)
      BY <1>0 DEF Wrote, Rejected
    <3>2. ~ InHand /\ ~ InHand' /\ pc # "refused" /\ pc' # "refused"
      BY <1>0, <1>2 DEF InHand
    <3> QED BY <1>0, <2>2, <3>1, <3>2 DEF MemoBooks, Traced, Tells
  <2> QED BY <2>1, <2>4, <2>5 DEF MemoBooks
<1>3. CASE reply' # Granted
  <2>1. Counted' /\ Traced' /\ Kept'
    <3>1. ~ InHand
      BY <1>0 DEF InHand
    <3> QED BY <1>0, <1>1, <1>3, <3>1, RecordingKeepsBooks DEF AttemptOutcomes
  <2>2. Asked'
    BY <1>0, <1>3 DEF MemoBooks, Asked, InAttempt, RevisionsAnswerTheLastFindings
  <2> QED BY <2>1, <2>2 DEF MemoBooks
<1> QED BY <1>2, <1>3

\* However an attempt ends, it is recorded as what the chain shows of it.
LEMMA EndingKeepsBooks ==
    ASSUME TurnInv, MemoBooks, DraftUnavailable \/ DraftRefused \/ DraftDispatched
    PROVE  MemoBooks'
<1>0. /\ SessionTypeOK /\ UNCHANGED <<log, steps, attempt, told>> /\ pc \in InAttempt
      /\ attempt' = Len(attempts) + 1
  BY DEF TurnInv, SessionInv, MemoBooks, Counted, DraftUnavailable, ModelUnavailable,
         DraftRefused, AttemptRefused, LeaveRefused, DraftDispatched, ActReturned,
         BackToOpen, Go, chainVars, budgetVars, InAttempt
<1>1. CASE DraftUnavailable
  <2>1. /\ pc = "unavailable" /\ pc' = "ended" /\ UNCHANGED <<memo, flagged>>
        /\ AttemptIs("model_unavailable") /\ ~ InHand /\ ~ Fresh /\ ~ Fresh'
    BY <1>1 DEF DraftUnavailable, ModelUnavailable, InHand, Fresh
  <2>2. Counted' /\ Traced' /\ Kept'
    BY <1>0, <2>1, RecordingKeepsBooks DEF AttemptOutcomes
  <2>3. Asked'
    BY <1>0, <2>1 DEF MemoBooks, Asked, InAttempt, RevisionsAnswerTheLastFindings
  <2> QED BY <2>2, <2>3 DEF MemoBooks
<1>2. CASE DraftRefused
  <2>1. /\ pc = "refused" /\ pc' = "loop" /\ memo' = memo /\ flagged' = steps[Agent]
        /\ AttemptIs("refused") /\ ~ InHand /\ ~ Fresh /\ ~ Fresh'
    BY <1>2 DEF DraftRefused, AttemptRefused, FlagRefused, Go, InHand, Fresh
  <2>2. Counted' /\ Traced' /\ Kept'
    BY <1>0, <2>1, RecordingKeepsBooks DEF AttemptOutcomes
  <2>3. Asked'
    BY <1>0, <2>1, TurnAssumption
    DEF MemoBooks, Asked, InAttempt, RevisionsAnswerTheLastFindings, SessionTypeOK
  <2> QED BY <2>2, <2>3 DEF MemoBooks
<1>3. CASE DraftDispatched
  <2>1. /\ pc = "dispatching" /\ memo' = steps[Agent] /\ ActReturned
        /\ IF Executed
           THEN AttemptIs("verified") /\ flagged' = flagged /\ pc' = "ended"
           ELSE AttemptIs("gate_rejected") /\ flagged' = steps[Agent] /\ pc' = "loop"
        /\ InHand /\ ~ Fresh'
    BY <1>3 DEF DraftDispatched, ActReturned, AfterVerified, DraftKept, InHand, Fresh
  <2>2. /\ Fresh <=> Executed
        /\ ~ Executed => Rejected(steps[Agent])
    BY <1>0, <2>1, ActEnds, AtIsWritten DEF Rejected
  <2>3. CASE Executed
    <3>1. Counted' /\ Traced' /\ Kept'
      BY <1>0, <2>1, <2>2, <2>3, RecordingKeepsBooks DEF AttemptOutcomes
    <3>2. Asked'
      BY <1>0, <2>1, <2>3 DEF MemoBooks, Asked, InAttempt, RevisionsAnswerTheLastFindings
    <3> QED BY <3>1, <3>2 DEF MemoBooks
  <2>4. CASE ~ Executed
    <3>1. Counted' /\ Traced' /\ Kept'
      BY <1>0, <2>1, <2>2, <2>4, RecordingKeepsBooks DEF AttemptOutcomes
    <3>2. Asked'
      BY <1>0, <2>1, <2>4, TurnAssumption
      DEF MemoBooks, Asked, InAttempt, RevisionsAnswerTheLastFindings, SessionTypeOK
    <3> QED BY <3>1, <3>2 DEF MemoBooks
  <2> QED BY <2>3, <2>4
<1> QED BY <1>1, <1>2, <1>3

\* Every step of a memo session keeps the books.
LEMMA DraftsKeepBooks ==
    ASSUME MemoInv, [MemoNext]_memoTurnVars
    PROVE  MemoBooks'
<1>0. TurnInv /\ MemoBooks
  BY DEF MemoInv
<1>1. CASE BeginDraft
  BY <1>0, <1>1, BeginningKeepsBooks
<1>2. CASE AskDraft
  BY <1>0, <1>2, PromptKeepsBooks
<1>3. CASE DraftUnavailable \/ DraftRefused \/ DraftDispatched
  BY <1>0, <1>3, EndingKeepsBooks
<1>4. CASE CheckDraft
  BY <1>0, <1>4, CheckKeepsBooks
<1>5. CASE RunAct /\ UNCHANGED memoVars
  BY <1>0, <1>5, DispatchKeepsBooks
<1>6. CASE (OpenSession \/ ModelResponds \/ CloseSession) /\ UNCHANGED memoVars
  BY <1>0, <1>6, SessionKeepsBooks
<1>7. CASE (Crash /\ UNCHANGED <<dispatchVars, turnVars, memoVars>>) \/ UNCHANGED memoTurnVars
  BY <1>0, <1>7, SessionKeepsBooks DEF memoTurnVars
<1> QED BY <1>1, <1>2, <1>3, <1>4, <1>5, <1>6, <1>7 DEF MemoNext, MemoStep

(***************************************************************************)
(* The theorems.                                                           *)
(***************************************************************************)

\* The books of a memo session are kept, for any budgets and any limit.
THEOREM MemoInvariant == MemoSpec => []MemoInv
<1>1. MemoInit => MemoInv
  <2> SUFFICES ASSUME MemoInit PROVE MemoInv
    OBVIOUS
  <2>1. /\ TurnInv /\ pc = "unopened" /\ log = <<>> /\ steps[Agent] = 0 /\ attempt = 0
        /\ attempts = <<>> /\ memo = 0 /\ flagged = 0 /\ told = <<>>
    BY TurnStartsRight, TurnAssumption DEF MemoInit, TurnInit, DispatchInit, SessionInit
  <2>2. DOMAIN <<>> = {} /\ <<>> \in Seq(Nat) /\ <<>> \in Seq(AttemptOutcomes) /\ Len(<<>>) = 0
    OBVIOUS
  <2>3. /\ \A type, note, turn : ~ Wrote(type, note, turn)
        /\ \A k, how : ~ Became(k, how)
    BY <2>1, <2>2 DEF Wrote, Became
  <2>4. Traced
    BY <2>1, <2>3 DEF Traced, Tells, Fresh, InHand
  <2>5. Counted /\ Asked /\ Kept
    BY <2>1, <2>2, <2>3 DEF Counted, Asked, Kept, InAttempt, RevisionsAnswerTheLastFindings
  <2> QED BY <2>1, <2>4, <2>5 DEF MemoInv, MemoBooks
<1>2. MemoInv /\ [MemoNext]_memoTurnVars => MemoInv'
  BY DraftsKeepPlace, DraftsKeepBooks DEF MemoInv
<1> QED BY <1>1, <1>2, PTL DEF MemoSpec

\* A memo session is a session: all that is proved of sessions holds of it.
THEOREM MemoIsASession == MemoSpec => SessionSpec
<1>1. MemoInit => SessionInit
  BY DEF MemoInit, TurnInit, DispatchInit
<1>2. MemoInv /\ [MemoNext]_memoTurnVars => [SessionNext]_sessionVars
  BY DraftsKeepPlace DEF MemoInv
<1> QED BY <1>1, <1>2, MemoInvariant, PTL DEF MemoSpec, SessionSpec

\* Every prompt of a memo session carries the findings of the attempt before it.
THEOREM PromptsCarryTheLastFindings == MemoSpec => []RevisionsAnswerTheLastFindings
<1>1. MemoInv => RevisionsAnswerTheLastFindings
  BY DEF MemoInv, MemoBooks, Asked
<1> QED BY <1>1, MemoInvariant, PTL

\* The memo delivered is the latest draft that was one, and verified exactly
\* when the chain shows its gate passing, after which no step is taken.
THEOREM MemoIsTheChain == MemoSpec => []MemoIsWhatTheChainShows
<1>1. MemoInv => MemoIsWhatTheChainShows
  <2> SUFFICES ASSUME MemoInv, BetweenAttempts
               PROVE  /\ \A turn \in 1 .. MaxSteps[Agent] :
                             Wrote("OUTPUT_PROPOSED", "accepted", turn) => turn <= memo
                      /\ memo # 0 => Wrote("OUTPUT_PROPOSED", "accepted", memo)
                      /\ Verified <=> Wrote("VERIFICATION_PASS", "gate", memo)
                      /\ Verified => memo = steps[Agent]
    BY DEF MemoIsWhatTheChainShows
  <2>1. Counted /\ Traced /\ Kept /\ ~ Fresh /\ ~ InHand
    BY DEF MemoInv, MemoBooks, BetweenAttempts, Fresh, InHand
  <2>2. \A turn \in Nat :
            /\ Wrote("VERIFICATION_PASS", "gate", turn) <=> Became(turn, "verified")
            /\ Wrote("OUTPUT_PROPOSED", "accepted", turn)
                   <=> Became(turn, "verified") \/ Became(turn, "gate_rejected")
    BY <2>1 DEF Traced, Tells
  <2>3. \A turn \in 1 .. MaxSteps[Agent] :
            Wrote("OUTPUT_PROPOSED", "accepted", turn) => turn <= memo
    BY <2>1, <2>2 DEF Kept
  <2>4. memo # 0 => Wrote("OUTPUT_PROPOSED", "accepted", memo)
    BY <2>1, <2>2 DEF Kept
  <2>5. \A k : Became(k, "verified") => k \in Nat /\ k = memo /\ k = steps[Agent]
    BY <2>1, BecameIsPast DEF Kept
  <2>6. Verified <=> \E k : Became(k, "verified")
    BY DEF Verified, Became
  <2>7. Verified <=> Wrote("VERIFICATION_PASS", "gate", memo)
    BY <2>1, <2>2, <2>5, <2>6 DEF Kept
  <2> QED BY <2>3, <2>4, <2>5, <2>6, <2>7
<1> QED BY <1>1, MemoInvariant, PTL

\* The attempt log and the chain tell the same story, attempt by attempt.
THEOREM AttemptsAreTheChain == MemoSpec => []AttemptsTellTheChain
<1>1. MemoInv => AttemptsTellTheChain
  <2> SUFFICES ASSUME MemoInv, BetweenAttempts
               PROVE  /\ Len(attempts) = attempt
                      /\ \A k \in DOMAIN attempts :
                          /\ attempts[k] = "verified" <=> Wrote("VERIFICATION_PASS", "gate", k)
                          /\ attempts[k] = "refused" <=> Wrote("OUTPUT_PROPOSED", "refused", k)
                          /\ attempts[k] = "gate_rejected" =>
                                 Wrote("OUTPUT_PROPOSED", "accepted", k) /\ Rejected(k)
    BY DEF AttemptsTellTheChain, Rejected
  <2>1. Counted /\ Traced /\ ~ Fresh /\ ~ InHand /\ pc # "refused" /\ pc \notin InAttempt
    BY DEF MemoInv, MemoBooks, BetweenAttempts, Fresh, InHand, InAttempt
  <2>2. Len(attempts) = attempt
    BY <2>1 DEF Counted
  <2>3. \A k \in DOMAIN attempts : k \in Nat
    BY <2>1 DEF Counted
  <2> QED BY <2>1, <2>2, <2>3 DEF Traced, Tells, Became
<1> QED BY <1>1, MemoInvariant, PTL
====
