---- MODULE AgentTurnProofs ----
(***************************************************************************)
(* What every turn stands on.  First the session: what its run checks for  *)
(* two agents and small budgets, proved for any agents, mandates,          *)
(* estimates and usages.  Then dispatch: what its run checks for some      *)
(* proposals, proved for any tool table, mandates and proposals; and that  *)
(* whatever dispatch writes is written the way a session allows, so that   *)
(* all that is proved of sessions holds of one whose turns dispatch.       *)
(* Then the turns: each of their steps is one a session may take, and      *)
(* where the turn is tells where the session, the model call and the       *)
(* dispatch are.  The proofs of the four turns build on this.              *)
(***************************************************************************)
EXTENDS AgentTurn, FiniteSetTheorems, SequenceTheorems, TLAPS

(***************************************************************************)
(* The session.                                                            *)
(***************************************************************************)

\* Every entry a session writes is an entry.
LEMMA EntryIsEntry ==
    ASSUME SessionTypeOK, NEW type \in EventTypes, NEW agent \in Agents \cup {Nobody},
           NEW note \in Notes \cup CloseReasons \cup {"none", "adapter"}
    PROVE  Entry(type, agent, note) \in Entries
<1>1. (IF agent \in Agents THEN steps[agent] ELSE 0) \in Nat
  BY DEF SessionTypeOK
<1> QED BY <1>1 DEF Entry, Entries

\* Recording an entry keeps the types of what it changes.
LEMMA RecordKeepsTypes ==
    ASSUME SessionTypeOK, NEW entry \in Entries, Record(entry) \/ LedgerOnly(entry)
    PROVE  log' \in Seq(Entries) /\ events' \in Seq(Entries) /\ loose' \in Seq(Entries)
<1>1. log \in Seq(Entries) /\ events \in Seq(Entries) /\ loose \in Seq(Entries)
  BY DEF SessionTypeOK
<1>2. CASE Record(entry)
  BY <1>1, <1>2, AppendProperties DEF Record
<1>3. CASE LedgerOnly(entry)
  BY <1>1, <1>3, AppendProperties DEF LedgerOnly
<1> QED BY <1>2, <1>3

\* The session's state keeps its types, whatever the caller does.
LEMMA StepKeepsTypes == SessionTypeOK /\ [SessionNext]_sessionVars => SessionTypeOK'
<1> SUFFICES ASSUME SessionTypeOK, [SessionNext]_sessionVars PROVE SessionTypeOK'
  OBVIOUS
<1> USE SessionAssumption, WorkEventsAssumption
<1>1. CASE SessionOpen
  <2>1. Entry("SESSION_OPEN", Nobody, "none") \in Entries
    BY EntryIsEntry DEF EventTypes
  <2>2. state' \in SessionStates
    BY <1>1 DEF SessionOpen, MoveTo, SessionStates
  <2>3. log' \in Seq(Entries) /\ events' \in Seq(Entries) /\ loose' \in Seq(Entries)
    BY <1>1, <2>1, RecordKeepsTypes DEF SessionOpen
  <2> QED BY <1>1, <2>2, <2>3 DEF SessionOpen, SessionTypeOK, budgetVars, callVars, closeVars
<1>2. ASSUME NEW a \in Agents, BeginTurn(a, 0) PROVE SessionTypeOK'
  <2>1. state' \in SessionStates /\ steps' \in [Agents -> Nat]
    <3>1. steps \in [Agents -> Nat] /\ state \in SessionStates
      BY DEF SessionTypeOK
    <3>2. [steps EXCEPT ![a] = @ + 1] \in [Agents -> Nat]
      BY <3>1
    <3>3. state' \in SessionStates
      BY <1>2, <3>1 DEF BeginTurn, MoveTo, SessionStates
    <3> QED BY <1>2, <3>1, <3>2, <3>3 DEF BeginTurn
  <2>2. reply' \in Replies
    BY <1>2 DEF BeginTurn, TurnCheck, Check, Replies, CloseReasons
  <2> QED BY <1>2, <2>1, <2>2 DEF BeginTurn, SessionTypeOK, chainVars, closeVars
<1>3. CASE BackToOpen \/ AwaitAnalyst
  <2>1. state' \in SessionStates
    BY <1>3 DEF BackToOpen, AwaitAnalyst, MoveTo, SessionStates
  <2> QED BY <1>3, <2>1 DEF BackToOpen, AwaitAnalyst, SessionTypeOK, chainVars,
                            budgetVars, callVars, closeVars
<1>4. ASSUME NEW a \in Agents, NEW estimate \in Estimates, SendPrompt(a, estimate)
      PROVE  SessionTypeOK'
  <2>1. reply' \in Replies
    BY <1>4 DEF SendPrompt, CallCheck, Check, Replies, CloseReasons
  <2>2. Entry("PROMPT_SENT", a, "none") \in Entries
    BY EntryIsEntry DEF EventTypes
  <2>3. log' \in Seq(Entries) /\ events' \in Seq(Entries) /\ loose' \in Seq(Entries)
    BY <1>4, <2>2, RecordKeepsTypes DEF SendPrompt, SessionTypeOK, chainVars
  <2>4. /\ pending' \in [agent : Agents \cup {Nobody}, estimate : Nat, tries : 0 .. MaxAttempts]
        /\ pending'.agent = Nobody => pending' = NoCall
    <3>1. CASE pending' = pending
      BY <3>1 DEF SessionTypeOK
    <3>2. CASE pending' = [agent |-> a, estimate |-> estimate, tries |-> 1]
      <4>1. 1 \in 0 .. MaxAttempts /\ estimate \in Nat /\ a # Nobody
        OBVIOUS
      <4> QED BY <3>2, <4>1
    <3> QED BY <1>4, <3>1, <3>2 DEF SendPrompt
  <2> QED BY <1>4, <2>1, <2>3, <2>4 DEF SendPrompt, SessionTypeOK, budgetVars, closeVars
<1>5. ASSUME NEW usage \in Usages, ModelAnswers(usage) PROVE SessionTypeOK'
  <2>1. spent' \in [Agents -> Nat]
    BY <1>5 DEF ModelAnswers, SessionTypeOK
  <2>2. NoCall \in [agent : Agents \cup {Nobody}, estimate : Nat, tries : 0 .. MaxAttempts]
    BY DEF NoCall
  <2> QED BY <1>5, <2>1, <2>2 DEF ModelAnswers, SessionTypeOK, chainVars, closeVars, Replies
<1>6. CASE ModelRetries
  <2>1. /\ pending' \in [agent : Agents \cup {Nobody}, estimate : Nat, tries : 0 .. MaxAttempts]
        /\ pending'.agent = pending.agent
    <3>1. pending \in [agent : Agents \cup {Nobody}, estimate : Nat, tries : 0 .. MaxAttempts]
      BY DEF SessionTypeOK
    <3>2. pending.tries + 1 \in 0 .. MaxAttempts
      BY <1>6, <3>1 DEF ModelRetries, MayRetry
    <3> QED BY <1>6, <3>1, <3>2 DEF ModelRetries
  <2>2. pending.agent # Nobody
    BY <1>6 DEF ModelRetries, SessionTypeOK
  <2> QED BY <1>6, <2>1, <2>2
          DEF ModelRetries, SessionTypeOK, chainVars, budgetVars, closeVars
<1>7. CASE ModelFails
  <2>1. Entry("VERIFICATION_FAIL", pending.agent, "adapter") \in Entries
    BY EntryIsEntry DEF EventTypes, SessionTypeOK
  <2>2. log' \in Seq(Entries) /\ events' \in Seq(Entries) /\ loose' \in Seq(Entries)
    BY <1>7, <2>1, RecordKeepsTypes DEF ModelFails
  <2>3. NoCall \in [agent : Agents \cup {Nobody}, estimate : Nat, tries : 0 .. MaxAttempts]
    BY DEF NoCall
  <2> QED BY <1>7, <2>2, <2>3
          DEF ModelFails, SessionTypeOK, budgetVars, closeVars, Replies, CloseReasons
<1>8. ASSUME NEW type \in WorkEvents, NEW a \in Agents, NEW note \in Notes,
             AppendEvent(type, a, note) \/ GovernanceAppend(type, a, note)
      PROVE  SessionTypeOK'
  <2>1. Entry(type, a, note) \in Entries
    BY EntryIsEntry
  <2>2. log' \in Seq(Entries) /\ events' \in Seq(Entries) /\ loose' \in Seq(Entries)
    BY <1>8, <2>1, RecordKeepsTypes DEF AppendEvent, GovernanceAppend
  <2> QED BY <1>8, <2>2 DEF AppendEvent, GovernanceAppend, SessionTypeOK, budgetVars,
                            callVars, closeVars
<1>9. CASE AttachEvent
  <2>1. events' \in Seq(Entries) /\ loose' \in Seq(Entries)
    BY <1>9, HeadTailProperties DEF AttachEvent, SessionTypeOK
  <2> QED BY <1>9, <2>1 DEF AttachEvent, SessionTypeOK, budgetVars, callVars, closeVars
<1>10. ASSUME NEW reason \in CloseReasons, StartClose(reason) PROVE SessionTypeOK'
  <2>1. state' \in SessionStates
    BY <1>10 DEF StartClose, MoveTo, SessionStates
  <2> QED BY <1>10, <2>1 DEF StartClose, SessionTypeOK, chainVars, budgetVars, callVars
<1>11. CASE FinishClose
  <2>1. Entry("SESSION_CLOSE", Nobody, closing) \in Entries
    BY EntryIsEntry DEF EventTypes, SessionTypeOK
  <2>2. log' \in Seq(Entries) /\ events' \in Seq(Entries) /\ loose' \in Seq(Entries)
    BY <1>11, <2>1, RecordKeepsTypes DEF FinishClose
  <2>3. state' \in SessionStates /\ report'.reason = closing
    BY <1>11 DEF FinishClose, MoveTo, SessionStates, Report
  <2> QED BY <1>11, <2>2, <2>3 DEF FinishClose, SessionTypeOK, budgetVars, callVars
<1>12. CASE Crash \/ UNCHANGED sessionVars
  BY <1>12 DEF Crash, SessionTypeOK, sessionVars, chainVars, budgetVars, callVars, closeVars
<1> QED BY <1>1, <1>2, <1>3, <1>4, <1>5, <1>6, <1>7, <1>8, <1>9, <1>10, <1>11, <1>12
        DEF SessionNext, Turns, Prompts, Answers, Records, HelperWrites, Closes

(***************************************************************************)
(* The inductive invariant: the properties, and who is quiet when.         *)
(***************************************************************************)

\* While a model call is in flight, and before and after the working states,
\* no helper's entry waits for its body to be attached; a call in flight
\* belongs to a granted turn and was sent at one of the estimates.
Quiet ==
    /\ pending # NoCall =>
           /\ state = "agent_turn" /\ loose = <<>>
           /\ pending.agent \in Agents /\ pending.estimate \in Estimates
    /\ state \in {"created", "closing", "closed"} => loose = <<>>

SessionInv ==
    /\ SessionTypeOK
    /\ Quiet
    /\ BodiesFollowTheChain
    /\ BudgetsBind
    /\ GrantedStepIsUsable
    /\ CloseReportIsTrue

\* An entry goes into both lists, or into the ledger and the helper's hands,
\* and an attached body leaves those hands first in, first out: whichever way,
\* the bodies follow the chain.
LEMMA WriteKeepsOrder ==
    ASSUME SessionTypeOK, BodiesFollowTheChain, SessionTypeOK',
           \/ \E entry \in Entries : Record(entry) /\ loose = <<>>
           \/ \E entry \in Entries : LedgerOnly(entry)
           \/ AttachEvent
           \/ UNCHANGED <<log, events, loose>>
    PROVE  BodiesFollowTheChain'
<1>1. /\ log \in Seq(Entries) /\ events \in Seq(Entries) /\ loose \in Seq(Entries)
      /\ events \o loose = log
  BY DEF SessionTypeOK, BodiesFollowTheChain
<1>2. ASSUME NEW entry \in Entries, Record(entry), loose = <<>>
      PROVE  events' \o loose' = log'
  <2>1. events = log
    BY <1>1, <1>2, ConcatEmptySeq
  <2>2. events' = log' /\ loose' = <<>> /\ events' \in Seq(Entries)
    BY <1>2, <2>1 DEF Record, SessionTypeOK
  <2> QED BY <2>2, ConcatEmptySeq
<1>3. ASSUME NEW entry \in Entries, LedgerOnly(entry)
      PROVE  events' \o loose' = log'
  <2>1. <<entry>> \in Seq(Entries)
    OBVIOUS
  <2>2. log' = log \o <<entry>> /\ loose' = loose \o <<entry>> /\ events' = events
    BY <1>1, <1>3, AppendIsConcat DEF LedgerOnly
  <2>3. events \o (loose \o <<entry>>) = (events \o loose) \o <<entry>>
    BY <1>1, <2>1, ConcatAssociative
  <2> QED BY <1>1, <2>2, <2>3
<1>4. ASSUME AttachEvent PROVE events' \o loose' = log'
  <2> DEFINE first == Head(loose)
             rest == Tail(loose)
  <2>1. /\ first \in Entries /\ rest \in Seq(Entries) /\ <<first>> \in Seq(Entries)
        /\ loose = <<first>> \o rest
    BY <1>1, <1>4, HeadTailProperties DEF AttachEvent
  <2>2. events' = events \o <<first>> /\ loose' = rest /\ log' = log
    BY <1>1, <1>4, <2>1, AppendIsConcat DEF AttachEvent
  <2> HIDE DEF first, rest
  <2>3. (events \o <<first>>) \o rest = events \o (<<first>> \o rest)
    BY <1>1, <2>1, ConcatAssociative
  <2> QED BY <1>1, <2>1, <2>2, <2>3
<1>5. ASSUME UNCHANGED <<log, events, loose>> PROVE events' \o loose' = log'
  BY <1>1, <1>5
<1> QED BY <1>2, <1>3, <1>4, <1>5 DEF BodiesFollowTheChain

\* The budgets of an agent stay bound by a step that neither takes a step,
\* spends a token nor sends a call.
LEMMA BudgetsStayBound ==
    ASSUME BudgetsBind, UNCHANGED <<steps, spent>>,
           \/ pending' = NoCall
           \/ pending'.agent = pending.agent /\ pending'.estimate = pending.estimate
    PROVE  BudgetsBind'
<1>1. NoCall.agent \notin Agents
  BY SessionAssumption DEF NoCall
<1> QED BY <1>1 DEF BudgetsBind

\* The entry SESSION_CLOSE is written after the counts were taken.
LEMMA CloseTellsTheTruth ==
    ASSUME SessionInv, SessionTypeOK', FinishClose
    PROVE  CloseReportIsTrue'
<1>1. /\ log \in Seq(Entries) /\ events \in Seq(Entries) /\ loose = <<>>
      /\ events = log
  <2>1. log \in Seq(Entries) /\ events \in Seq(Entries) /\ loose = <<>>
    BY DEF SessionInv, SessionTypeOK, Quiet, FinishClose
  <2> QED BY <2>1, ConcatEmptySeq DEF SessionInv, BodiesFollowTheChain
<1> DEFINE last == Entry("SESSION_CLOSE", Nobody, closing)
<1>2. last \in Entries /\ last.note = closing
  BY EntryIsEntry DEF EventTypes, SessionInv, SessionTypeOK, Entry
<1>3. log' = Append(log, last)
  BY DEF FinishClose, Record
<1> HIDE DEF last
<1>4. /\ Len(log') = Len(log) + 1 /\ log'[Len(log')] = last
      /\ SubSeq(log', 1, Len(log') - 1) = log
  <2>1. /\ log' \in Seq(Entries) /\ Len(log') = Len(log) + 1 /\ Len(log) \in Nat
        /\ log'[Len(log) + 1] = last
        /\ \A i \in 1 .. Len(log) : log'[i] = log[i] /\ log[i] \in Entries
    BY <1>1, <1>2, <1>3, AppendProperties, ElementOfSeq
  <2>2. /\ SubSeq(log', 1, Len(log)) \in Seq(Entries)
        /\ Len(SubSeq(log', 1, Len(log))) = Len(log)
        /\ \A i \in 1 .. Len(log) : SubSeq(log', 1, Len(log))[i] = log[i]
    BY <2>1, SubSeqProperties
  <2>3. SubSeq(log', 1, Len(log)) = log
    BY <1>1, <2>2, SeqEqual
  <2> QED BY <2>1, <2>3
<1>5. /\ report' = Report
      /\ UNCHANGED <<steps, spent>>
  BY DEF FinishClose, budgetVars
<1>6. /\ report'.counts = Counts(log) /\ report'.reason = closing
      /\ \A a \in Agents : report'.budgets[a] = [tokens |-> spent[a], steps |-> steps[a]]
  BY <1>1, <1>5 DEF Report
<1> QED BY <1>2, <1>4, <1>5, <1>6 DEF CloseReportIsTrue

\* Each step of a session keeps the invariant.
LEMMA StepKeepsInv == SessionInv /\ [SessionNext]_sessionVars => SessionInv'
<1> SUFFICES ASSUME SessionInv, [SessionNext]_sessionVars PROVE SessionInv'
  OBVIOUS
<1>0. /\ SessionTypeOK /\ SessionTypeOK' /\ Quiet /\ BodiesFollowTheChain
      /\ BudgetsBind /\ GrantedStepIsUsable /\ CloseReportIsTrue
  BY StepKeepsTypes DEF SessionInv
<1> USE SessionAssumption
<1>1. CASE SessionOpen
  <2>1. /\ state = "created" /\ state' = "open" /\ pending = NoCall /\ loose = <<>>
        /\ Record(Entry("SESSION_OPEN", Nobody, "none"))
        /\ UNCHANGED <<steps, spent, pending>>
    BY <1>0, <1>1 DEF SessionOpen, MoveTo, Quiet, budgetVars, callVars
  <2>2. Entry("SESSION_OPEN", Nobody, "none") \in Entries
    BY <1>0, EntryIsEntry DEF EventTypes
  <2>3. BodiesFollowTheChain'
    BY <1>0, <2>1, <2>2, WriteKeepsOrder
  <2>4. BudgetsBind'
    BY <1>0, <2>1, BudgetsStayBound
  <2> QED BY <1>0, <2>1, <2>3, <2>4
          DEF SessionInv, Quiet, GrantedStepIsUsable, CloseReportIsTrue
<1>2. ASSUME state = "open", Settled, NEW a \in Agents, BeginTurn(a, 0) PROVE SessionInv'
  <2>1. /\ pending = NoCall /\ loose = <<>> /\ UNCHANGED <<log, events, loose, spent, pending>>
        /\ state' \in {"open", "agent_turn"}
        /\ state' = "agent_turn" => reply' = Granted
    BY <1>2 DEF BeginTurn, MoveTo, Settled, chainVars
  <2>2. \A b \in Agents : steps'[b] <= MaxSteps[b]
    <3>1. steps \in [Agents -> Nat] /\ MaxSteps \in [Agents -> Nat]
          /\ \A b \in Agents : steps[b] <= MaxSteps[b]
      BY <1>0 DEF SessionTypeOK, BudgetsBind
    <3>2. CASE reply' = Granted
      <4>1. steps' = [steps EXCEPT ![a] = @ + 1] /\ MaxSteps[a] - steps[a] > 0
        BY <1>2, <3>1, <3>2
        DEF BeginTurn, TurnCheck, Check, StepsLeft, Granted, OutOfSteps
      <4> QED BY <3>1, <4>1
    <3>3. CASE reply' # Granted
      BY <1>2, <3>1, <3>3 DEF BeginTurn
    <3> QED BY <3>2, <3>3
  <2>3. BudgetsBind'
    BY <1>0, <2>1, <2>2 DEF BudgetsBind
  <2>4. BodiesFollowTheChain'
    BY <1>0, <2>1, WriteKeepsOrder
  <2> QED BY <1>0, <2>1, <2>3, <2>4
          DEF SessionInv, Quiet, GrantedStepIsUsable, CloseReportIsTrue, Granted, OutOfSteps
<1>3. ASSUME Settled, BackToOpen \/ AwaitAnalyst PROVE SessionInv'
  <2>1. /\ pending = NoCall /\ loose = <<>>
        /\ UNCHANGED <<log, events, loose, steps, spent, pending>>
        /\ state' \in {"open", "awaiting_analyst"}
    BY <1>3
    DEF BackToOpen, AwaitAnalyst, MoveTo, Settled, chainVars, budgetVars, callVars
  <2>2. BodiesFollowTheChain' /\ BudgetsBind'
    BY <1>0, <2>1, WriteKeepsOrder, BudgetsStayBound
  <2> QED BY <1>0, <2>1, <2>2
          DEF SessionInv, Quiet, GrantedStepIsUsable, CloseReportIsTrue
<1>4. ASSUME state = "agent_turn", Settled, NEW a \in Agents, NEW estimate \in Estimates,
             SendPrompt(a, estimate)
      PROVE  SessionInv'
  <2>1. /\ state' = "agent_turn" /\ loose = <<>> /\ pending = NoCall
        /\ UNCHANGED <<steps, spent>>
        /\ reply' = CallCheck(a, estimate) /\ reply' # OutOfSteps
    BY <1>4
    DEF SendPrompt, Settled, budgetVars, CallCheck, Check, OutOfSteps, OutOfTokens, Granted
  <2>2. CASE reply' = Granted
    <3>1. /\ pending' = [agent |-> a, estimate |-> estimate, tries |-> 1]
          /\ Record(Entry("PROMPT_SENT", a, "none"))
      BY <1>4, <2>2 DEF SendPrompt
    <3>2. loose' = <<>> /\ BodiesFollowTheChain'
      <4>1. Entry("PROMPT_SENT", a, "none") \in Entries
        BY <1>0, EntryIsEntry DEF EventTypes
      <4> QED BY <1>0, <2>1, <3>1, <4>1, WriteKeepsOrder DEF Record
    <3>3. spent[a] + estimate <= TokenBudget[a]
      <4>1. ~ TokensRefused(a, estimate)
        BY <2>1, <2>2 DEF CallCheck, Check, Granted, OutOfTokens
      <4>2. spent[a] \in Nat /\ TokenBudget[a] \in Nat /\ estimate \in Nat
        BY <1>0 DEF SessionTypeOK
      <4> QED BY <4>1, <4>2 DEF TokensRefused, TokensLeft
    <3>4. BudgetsBind'
      BY <1>0, <2>1, <3>1, <3>3 DEF BudgetsBind
    <3> QED BY <1>0, <2>1, <3>1, <3>2, <3>4
            DEF SessionInv, Quiet, GrantedStepIsUsable, CloseReportIsTrue
  <2>3. CASE reply' # Granted
    <3>1. UNCHANGED <<log, events, loose, pending>>
      BY <1>4, <2>3 DEF SendPrompt, chainVars
    <3>2. BodiesFollowTheChain' /\ BudgetsBind'
      BY <1>0, <2>1, <3>1, WriteKeepsOrder, BudgetsStayBound
    <3> QED BY <1>0, <2>1, <3>1, <3>2
            DEF SessionInv, Quiet, GrantedStepIsUsable, CloseReportIsTrue
  <2> QED BY <2>2, <2>3
<1>5. ASSUME NEW usage \in Usages, ModelAnswers(usage) PROVE SessionInv'
  <2> DEFINE a == pending.agent
  <2>1. /\ state = "agent_turn" /\ loose = <<>> /\ a \in Agents
        /\ pending.estimate \in Estimates /\ pending.estimate \in Nat /\ usage \in Nat
        /\ UNCHANGED <<state, log, events, loose, steps>>
        /\ spent' = [spent EXCEPT ![a] = @ + usage]
        /\ pending' = NoCall /\ reply' = Answered
    BY <1>0, <1>5 DEF ModelAnswers, Quiet, chainVars
  <2>2. BudgetsBind'
    <3>1. /\ spent \in [Agents -> Nat] /\ TokenBudget \in [Agents -> Nat]
          /\ spent[a] + pending.estimate <= TokenBudget[a]
      BY <1>0, <2>1 DEF SessionTypeOK, BudgetsBind
    <3>2. spent'[a] <= TokenBudget[a] + usage - pending.estimate
      BY <2>1, <3>1
    <3>3. \A b \in Agents : b # a => spent'[b] = spent[b]
      BY <2>1, <3>1
    <3>4. \A b \in Agents : pending'.agent # b
      BY <2>1 DEF NoCall
    <3> HIDE DEF a
    <3>5. ASSUME NEW b \in Agents
          PROVE \/ spent'[b] <= TokenBudget[b]
                \/ \E e \in Estimates, u \in Usages : spent'[b] <= TokenBudget[b] + u - e
      BY <1>0, <2>1, <3>2, <3>3 DEF BudgetsBind
    <3> QED BY <1>0, <2>1, <3>4, <3>5 DEF BudgetsBind
  <2>3. BodiesFollowTheChain'
    BY <1>0, <2>1, WriteKeepsOrder
  <2> QED BY <1>0, <2>1, <2>2, <2>3
          DEF SessionInv, Quiet, GrantedStepIsUsable, CloseReportIsTrue, Answered, OutOfSteps
<1>6. CASE ModelRetries
  <2>1. /\ pending # NoCall /\ UNCHANGED <<state, log, events, loose, steps, spent, reply>>
        /\ pending' = [pending EXCEPT !.tries = @ + 1]
    BY <1>6 DEF ModelRetries, chainVars, budgetVars
  <2>2. pending'.agent = pending.agent /\ pending'.estimate = pending.estimate
    BY <1>0, <2>1 DEF SessionTypeOK
  <2>3. BodiesFollowTheChain' /\ BudgetsBind'
    BY <1>0, <2>1, <2>2, WriteKeepsOrder, BudgetsStayBound
  <2> QED BY <1>0, <2>1, <2>2, <2>3
          DEF SessionInv, Quiet, GrantedStepIsUsable, CloseReportIsTrue
<1>7. CASE ModelFails
  <2>1. /\ state = "agent_turn" /\ loose = <<>> /\ UNCHANGED <<state, steps, spent>>
        /\ pending' = NoCall /\ reply' = DispatchError
        /\ Record(Entry("VERIFICATION_FAIL", pending.agent, "adapter"))
    BY <1>0, <1>7 DEF ModelFails, Quiet, budgetVars
  <2>2. Entry("VERIFICATION_FAIL", pending.agent, "adapter") \in Entries
    BY <1>0, EntryIsEntry DEF EventTypes, SessionTypeOK
  <2>3. BodiesFollowTheChain' /\ BudgetsBind'
    BY <1>0, <2>1, <2>2, WriteKeepsOrder, BudgetsStayBound
  <2> QED BY <1>0, <2>1, <2>3
          DEF SessionInv, Quiet, GrantedStepIsUsable, CloseReportIsTrue, DispatchError, OutOfSteps
<1>8. ASSUME Working, pending = NoCall, NEW type \in WorkEvents, NEW a \in Agents,
             NEW note \in Notes,
             (Settled /\ AppendEvent(type, a, note)) \/ GovernanceAppend(type, a, note)
      PROVE  SessionInv'
  <2>1. /\ state \in {"open", "agent_turn", "awaiting_analyst"}
        /\ UNCHANGED <<state, steps, spent, pending, reply>>
        /\ \/ loose = <<>> /\ Record(Entry(type, a, note))
           \/ LedgerOnly(Entry(type, a, note))
    BY <1>8 DEF Working, Settled, AppendEvent, GovernanceAppend, budgetVars, callVars
  <2>2. Entry(type, a, note) \in Entries
    BY <1>0, EntryIsEntry, WorkEventsAssumption
  <2>3. BodiesFollowTheChain' /\ BudgetsBind'
    BY <1>0, <1>8, <2>1, <2>2, WriteKeepsOrder, BudgetsStayBound
  <2> QED BY <1>0, <1>8, <2>1, <2>3
          DEF SessionInv, Quiet, GrantedStepIsUsable, CloseReportIsTrue
<1>9. CASE AttachEvent
  <2>1. loose # <<>> /\ UNCHANGED <<state, steps, spent, pending, reply>>
    BY <1>9 DEF AttachEvent, budgetVars, callVars
  <2>2. pending = NoCall /\ state \notin {"created", "closing", "closed"}
    BY <1>0, <2>1 DEF Quiet
  <2>3. BodiesFollowTheChain' /\ BudgetsBind'
    BY <1>0, <1>9, <2>1, <2>2, WriteKeepsOrder, BudgetsStayBound
  <2> QED BY <1>0, <2>1, <2>2, <2>3
          DEF SessionInv, Quiet, GrantedStepIsUsable, CloseReportIsTrue
<1>10. ASSUME Settled, NEW reason \in CloseReasons, StartClose(reason) PROVE SessionInv'
  <2>1. /\ pending = NoCall /\ loose = <<>> /\ state' = "closing"
        /\ UNCHANGED <<log, events, loose, steps, spent, pending>>
    BY <1>10 DEF Settled, StartClose, MoveTo, chainVars, budgetVars, callVars
  <2>2. BodiesFollowTheChain' /\ BudgetsBind'
    BY <1>0, <2>1, WriteKeepsOrder, BudgetsStayBound
  <2> QED BY <1>0, <2>1, <2>2
          DEF SessionInv, Quiet, GrantedStepIsUsable, CloseReportIsTrue
<1>11. CASE FinishClose
  <2>1. /\ state = "closing" /\ state' = "closed" /\ pending = NoCall /\ loose = <<>>
        /\ UNCHANGED <<steps, spent, pending>>
        /\ Record(Entry("SESSION_CLOSE", Nobody, closing))
    BY <1>0, <1>11 DEF FinishClose, MoveTo, Quiet, budgetVars, callVars
  <2>2. Entry("SESSION_CLOSE", Nobody, closing) \in Entries
    BY <1>0, EntryIsEntry DEF EventTypes, SessionTypeOK
  <2>3. BodiesFollowTheChain' /\ BudgetsBind' /\ CloseReportIsTrue'
    BY <1>0, <1>11, <2>1, <2>2, WriteKeepsOrder, BudgetsStayBound, CloseTellsTheTruth
  <2>4. loose' = <<>>
    BY <2>1 DEF Record
  <2> QED BY <1>0, <2>1, <2>3, <2>4 DEF SessionInv, Quiet, GrantedStepIsUsable
<1>12. CASE Crash \/ UNCHANGED sessionVars
  <2>1. UNCHANGED <<state, log, events, loose, steps, spent, pending, reply, report>>
    BY <1>12 DEF Crash, sessionVars, chainVars, budgetVars, callVars, closeVars
  <2> QED BY <1>0, <2>1
          DEF SessionInv, Quiet, BodiesFollowTheChain, BudgetsBind, GrantedStepIsUsable,
              CloseReportIsTrue
<1> QED BY <1>1, <1>2, <1>3, <1>4, <1>5, <1>6, <1>7, <1>8, <1>9, <1>10, <1>11, <1>12
        DEF SessionNext, Turns, Prompts, Answers, Records, HelperWrites, Closes, Settled

\* A session starts right.
LEMMA InitialInv == SessionInit => SessionInv
<1> SUFFICES ASSUME SessionInit PROVE SessionInv
  OBVIOUS
<1>1. SessionTypeOK
  BY SessionAssumption DEF SessionInit, SessionTypeOK, SessionStates, Replies, NoCall, NoReport
<1>2. BodiesFollowTheChain
  BY DEF SessionInit, BodiesFollowTheChain
<1>3. BudgetsBind
  BY SessionAssumption DEF SessionInit, BudgetsBind, NoCall
<1> QED BY <1>1, <1>2, <1>3
        DEF SessionInit, SessionInv, Quiet, GrantedStepIsUsable, CloseReportIsTrue

\* What a session keeps from its first state to its last, for any caller that
\* keeps the turn modules' discipline.
THEOREM SessionInvariant == SessionSpec => []SessionInv
BY InitialInv, StepKeepsInv, PTL DEF SessionSpec

\* The session's fields keep the types core.py gives them.
THEOREM SessionTyping == SessionSpec => []SessionTypeOK
<1>1. SessionInv => SessionTypeOK
  BY DEF SessionInv
<1> QED BY <1>1, SessionInvariant, PTL

\* The bodies of session_events.json are the chain's, entry by entry, however
\* append_event and attach_event are interleaved with a helper's own writes.
THEOREM BodiesFollowTheChainTheorem == SessionSpec => []BodiesFollowTheChain
<1>1. SessionInv => BodiesFollowTheChain
  BY DEF SessionInv
<1> QED BY <1>1, SessionInvariant, PTL

\* Both budgets bind before the work, for any mandate, and tokens are overshot
\* at most by what one answer used beyond its estimate.
THEOREM BudgetsBindTheorem == SessionSpec => []BudgetsBind
<1>1. SessionInv => BudgetsBind
  BY DEF SessionInv
<1> QED BY <1>1, SessionInvariant, PTL

\* No model call inside a granted turn is refused for the steps that turn took.
THEOREM GrantedStepIsUsableTheorem == SessionSpec => []GrantedStepIsUsable
<1>1. SessionInv => GrantedStepIsUsable
  BY DEF SessionInv
<1> QED BY <1>1, SessionInvariant, PTL

\* SESSION_CLOSE counts what the chain holds before it, and final budgets.
THEOREM CloseReportIsTrueTheorem == SessionSpec => []CloseReportIsTrue
<1>1. SessionInv => CloseReportIsTrue
  BY DEF SessionInv
<1> QED BY <1>1, SessionInvariant, PTL

(***************************************************************************)
(* The decisions.                                                          *)
(***************************************************************************)

\* The chain of refusals decides what the mandate permits, and names why not.
LEMMA RefusalDecides ==
    ASSUME NEW p \in Proposals
    PROVE  /\ Refusal(p) = "none" <=> Permitted(p)
           /\ Refusal(p) \in ViolationCodes \cup {"none"}
           /\ Resolves(p) /\ GuardRefuses(p) => Refusal(p) = ScopeNotAllowed
<1> DEFINE a == p.agent
           consequence == ToolTable[p.tool].consequence
<1>1. /\ a \in Agents
      /\ Mandate[a].tools \subseteq Tools /\ Mandate[a].scopes \subseteq Scopes
      /\ Mandate[a].ceiling \in Consequences \ {"enforce"}
      /\ DOMAIN ToolTable \subseteq Tools
  BY DispatchAssumption
<1>2. CASE ~ Resolves(p)
  BY <1>1, <1>2 DEF Resolves, Refusal, Permitted, ViolationCodes, ToolNotAllowed
<1>3. CASE Resolves(p) /\ (GuardRefuses(p) \/ MissingScopes(p) # {})
  <2>1. ~ Permitted(p)
    BY <1>1, <1>3 DEF GuardRefuses, GrantedBy, Binding, MissingScopes, Permitted
  <2> QED BY <1>3, <2>1 DEF Refusal, ViolationCodes, ScopeNotAllowed
<1>4. CASE Resolves(p) /\ ~ GuardRefuses(p) /\ MissingScopes(p) = {}
  <2>1. /\ p.tool \in DOMAIN ToolTable /\ consequence \in Consequences
        /\ Refusal(p) = Validate(a, a, p.tool, consequence)
    BY <1>4, DispatchAssumption DEF Resolves, Refusal, Binding
  <2>2. /\ p.scopes \subseteq Mandate[a].scopes
        /\ ToolTable[p.tool].required \subseteq p.scopes
    BY <1>4 DEF GuardRefuses, GrantedBy, Binding, MissingScopes
  <2>3. Permitted(p) <=> /\ p.tool \in Mandate[a].tools
                         /\ Rank[consequence] <= Rank[Mandate[a].ceiling]
    BY <2>1, <2>2 DEF Permitted
  <2>4. /\ Rank[consequence] \in 0 .. 3 /\ Rank[Mandate[a].ceiling] \in 0 .. 2
        /\ consequence = "enforce" => Rank[consequence] = 3
    BY <1>1, <2>1 DEF Rank, Consequences
  <2> HIDE DEF consequence
  <2> QED BY <1>4, <2>1, <2>3, <2>4
          DEF Validate, ViolationCodes, EnforceIsHumanOnly, ToolNotAllowed, ExceedsCeiling
<1> QED BY <1>2, <1>3, <1>4

\* Nothing permitted has the consequence only a human may bring about.
LEMMA NeverEnforced ==
    ASSUME NEW p \in Proposals, Refusal(p) = "none"
    PROVE  /\ p.tool \in DOMAIN ToolTable
           /\ ToolTable[p.tool].consequence \in Consequences \ {"enforce"}
<1>1. Permitted(p)
  BY RefusalDecides
<1>2. /\ p.tool \in DOMAIN ToolTable /\ ToolTable[p.tool].consequence \in Consequences
      /\ Rank[ToolTable[p.tool].consequence] <= Rank[Mandate[p.agent].ceiling]
      /\ Mandate[p.agent].ceiling \in Consequences \ {"enforce"}
  BY <1>1, DispatchAssumption DEF Permitted
<1> QED BY <1>2 DEF Consequences, Rank

\* The gate of a permitted tool writes a pass, or a failure and a rejection.
LEMMA GateWritesOneOrTwo ==
    ASSUME NEW p \in Proposals, Refusal(p) = "none", NEW art
    PROVE  LET consequence == ToolTable[p.tool].consequence
           IN  GateEvents(consequence, art) =
                   IF GateAccepts(consequence, art) THEN <<"VERIFICATION_PASS">>
                   ELSE <<"VERIFICATION_FAIL", "GATE_REJECTION">>
BY NeverEnforced DEF GateEvents

(***************************************************************************)
(* The pipeline.                                                           *)
(***************************************************************************)
InPipeline == {"guarded", "refusing", "called", "mistyped", "schema_failed",
               "gating", "attaching"}

\* Where dispatch is tells what it has decided, what its handler returned, what
\* stands at the end of the chain and what it still has to attach.
Pipeline ==
    /\ dpc \in InPipeline \cup {"idle"}
    /\ dpc # "idle" =>
           /\ call \in Proposals /\ outcome = NoOutcome /\ pending = NoCall
           /\ state \in {"agent_turn", "awaiting_analyst"}
    /\ dpc \notin {"guarded", "gating", "attaching"} => loose = <<>>
    /\ dpc = "guarded" => Len(loose) = 1
    /\ dpc = "gating" => Len(loose) < Len(Gate)
    /\ dpc = "attaching" => Len(loose) \in 1 .. Len(Gate)
    /\ dpc \in {"guarded", "refusing"} => Resolves(call) /\ GuardRefuses(call)
    /\ dpc \in InPipeline \ {"guarded", "refusing"} => Refusal(call) = "none"
    /\ dpc \in {"gating", "attaching"} => artifact \in Artifacts \ {"wrong_type"}
    /\ dpc = "called" => Ends(<<"TOOL_CALLED">>)
    /\ dpc = "gating" /\ loose = <<>> => Ends(<<"TOOL_CALLED", "TOOL_RESULT">>)
    /\ dpc = "attaching" /\ GateAccepts(ToolTable[call.tool].consequence, artifact) =>
           Ends(<<"TOOL_CALLED", "TOOL_RESULT", "VERIFICATION_PASS">>)

\* What the log ends with, one entry later.
LEMMA EndsGrow ==
    ASSUME SessionTypeOK, NEW entry \in Entries, log' = Append(log, entry)
    PROVE  /\ entry.type = "TOOL_CALLED" => Ends(<<"TOOL_CALLED">>)'
           /\ entry.type = "TOOL_RESULT" /\ Ends(<<"TOOL_CALLED">>)
                  => Ends(<<"TOOL_CALLED", "TOOL_RESULT">>)'
           /\ entry.type = "VERIFICATION_PASS" /\ Ends(<<"TOOL_CALLED", "TOOL_RESULT">>)
                  => Ends(<<"TOOL_CALLED", "TOOL_RESULT", "VERIFICATION_PASS">>)'
<1>1. /\ Len(log) \in Nat /\ Len(log') = Len(log) + 1 /\ log'[Len(log) + 1] = entry
      /\ \A i \in 1 .. Len(log) : log'[i] = log[i]
  BY AppendProperties DEF SessionTypeOK
<1>2. entry.type = "TOOL_CALLED" => Ends(<<"TOOL_CALLED">>)'
  BY <1>1 DEF Ends
<1>3. entry.type = "TOOL_RESULT" /\ Ends(<<"TOOL_CALLED">>)
          => Ends(<<"TOOL_CALLED", "TOOL_RESULT">>)'
  BY <1>1 DEF Ends
<1>4. entry.type = "VERIFICATION_PASS" /\ Ends(<<"TOOL_CALLED", "TOOL_RESULT">>)
          => Ends(<<"TOOL_CALLED", "TOOL_RESULT", "VERIFICATION_PASS">>)'
  BY <1>1 DEF Ends
<1> QED BY <1>2, <1>3, <1>4

\* What dispatch writes is an entry.
LEMMA DispatchWritesEntries ==
    ASSUME SessionTypeOK, NEW type \in DispatchEvents, NEW a \in Agents,
           NEW note \in DispatchNotes
    PROVE  /\ type \in WorkEvents /\ note \in Notes
           /\ Entry(type, a, note) \in Entries
           /\ Entry(type, a, note).type = type
<1>1. type \in WorkEvents /\ type \in EventTypes /\ note \in Notes
  BY WritesAssumption, WorkEventsAssumption
<1>2. Entry(type, a, note) \in Entries
  BY <1>1, EntryIsEntry
<1> QED BY <1>1, <1>2 DEF Entry

\* Appending leaves the log and the helper's hands as one expects.
LEMMA WritesAppend ==
    ASSUME SessionTypeOK, NEW type \in DispatchEvents, NEW a \in Agents,
           NEW note \in DispatchNotes
    PROVE  /\ AppendEvent(type, a, note) =>
                  log' = Append(log, Entry(type, a, note)) /\ loose' = loose
           /\ GovernanceAppend(type, a, note) =>
                  /\ log' = Append(log, Entry(type, a, note))
                  /\ loose' = Append(loose, Entry(type, a, note))
                  /\ Len(loose') = Len(loose) + 1
           /\ AppendEvent(type, a, note) \/ GovernanceAppend(type, a, note) =>
                  UNCHANGED <<state, pending>>
<1>1. loose \in Seq(Entries) /\ Entry(type, a, note) \in Entries
  BY DispatchWritesEntries DEF SessionTypeOK
<1>2. Len(Append(loose, Entry(type, a, note))) = Len(loose) + 1
  BY <1>1, AppendProperties
<1> QED BY <1>2 DEF AppendEvent, GovernanceAppend, Record, LedgerOnly, callVars

\* What a dispatch writes first, it writes as a session's caller may.
LEMMA StartIsSessionStep ==
    ASSUME Working, Settled, NEW p \in Proposals, DispatchStart(p)
    PROVE  SessionNext
<1>1. /\ p.agent \in Agents
      /\ \A type \in DispatchEvents : type \in WorkEvents
      /\ \A note \in DispatchNotes : note \in Notes
  BY DispatchAssumption, WritesAssumption
<1>2. ASSUME NEW type \in DispatchEvents, NEW note \in DispatchNotes,
             AppendEvent(type, p.agent, note) \/ GovernanceAppend(type, p.agent, note)
      PROVE  SessionNext
  BY <1>1, <1>2 DEF Settled, Records, HelperWrites, SessionNext
<1>3. CASE RefuseAtOnce(p)
  <2>1. Refusal(p) \in DispatchNotes
    BY <1>3, RefusalDecides DEF RefuseAtOnce, DispatchNotes
  <2> QED BY <1>2, <1>3, <2>1 DEF RefuseAtOnce, DispatchEvents
<1>4. CASE RefuseNotInBuild(p)
  BY <1>2, <1>4 DEF RefuseNotInBuild, DispatchEvents, DispatchNotes
<1>5. CASE GuardScope(p)
  BY <1>2, <1>5 DEF GuardScope, DispatchEvents, DispatchNotes, ViolationCodes
<1>6. CASE CallTool(p)
  <2>1. p.tool \in DispatchNotes
    BY <1>6, NeverEnforced, DispatchAssumption DEF CallTool, DispatchNotes
  <2> QED BY <1>2, <1>6, <2>1 DEF CallTool, DispatchEvents
<1> QED BY <1>3, <1>4, <1>5, <1>6 DEF DispatchStart

\* So it does what it writes next, and what it attaches.
LEMMA ContinueIsSessionStep ==
    ASSUME SessionTypeOK, Pipeline, DispatchContinue
    PROVE  SessionNext
<1>1. /\ dpc # "idle" => /\ call \in Proposals /\ call.agent \in Agents
                         /\ pending = NoCall /\ Working
      /\ dpc \in {"refusing", "called", "mistyped", "schema_failed"} => Settled
  BY DispatchAssumption DEF Pipeline, Working, Settled
<1>2. ASSUME NEW type \in DispatchEvents, NEW note \in DispatchNotes,
             \/ Settled /\ AppendEvent(type, call.agent, note)
             \/ GovernanceAppend(type, call.agent, note),
             dpc # "idle"
      PROVE  SessionNext
  <2>1. type \in WorkEvents /\ note \in Notes
    BY WritesAssumption
  <2> QED BY <1>1, <1>2, <2>1 DEF Records, HelperWrites, SessionNext
<1>3. CASE AttachGuard \/ GateAttaches
  BY <1>3 DEF AttachGuard, GateAttaches, SessionNext
<1>4. CASE RefuseScope
  BY <1>1, <1>2, <1>4 DEF RefuseScope, DispatchEvents, DispatchNotes, ViolationCodes
<1>5. CASE HandlerRaises \/ \E art \in Artifacts : HandlerReturns(art)
  BY <1>1, <1>2, <1>5 DEF HandlerRaises, HandlerReturns, DispatchEvents, DispatchNotes
<1>6. CASE SchemaFails \/ SchemaRejects
  BY <1>1, <1>2, <1>6 DEF SchemaFails, SchemaRejects, DispatchEvents, DispatchNotes
<1>7. CASE GateWrites
  <2>1. /\ dpc = "gating" /\ Refusal(call) = "none" /\ call \in Proposals
        /\ Len(loose) < Len(Gate) /\ Len(loose) \in Nat
    BY <1>7 DEF GateWrites, Pipeline, InPipeline, SessionTypeOK
  <2>2. Gate \in {<<"VERIFICATION_PASS">>, <<"VERIFICATION_FAIL", "GATE_REJECTION">>}
    BY <2>1, GateWritesOneOrTwo DEF Gate
  <2>3. Gate[Len(loose) + 1] \in DispatchEvents
    BY <2>1, <2>2 DEF DispatchEvents
  <2> QED BY <1>2, <1>7, <2>1, <2>3 DEF GateWrites, DispatchNotes
<1> QED BY <1>3, <1>4, <1>5, <1>6, <1>7 DEF DispatchContinue

\* Attaching takes one body out of the helper's hands.
LEMMA AttachShortens ==
    ASSUME SessionTypeOK, AttachEvent
    PROVE  /\ Len(loose) \in Nat \ {0} /\ Len(loose') = Len(loose) - 1
           /\ Len(loose) = 1 => loose' = <<>>
           /\ UNCHANGED <<state, pending, log>>
<1>1. loose \in Seq(Entries) /\ loose # <<>> /\ loose' = Tail(loose)
  BY DEF AttachEvent, SessionTypeOK
<1>2. loose' \in Seq(Entries) /\ Len(loose') = Len(loose) - 1 /\ Len(loose) \in Nat \ {0}
  BY <1>1, HeadTailProperties, EmptySeq
<1>3. Len(loose) = 1 => loose' = <<>>
  BY <1>2, EmptySeq
<1> QED BY <1>2, <1>3 DEF AttachEvent, callVars

\* A dispatch starts where its decision leads.
LEMMA StartKeepsPipeline ==
    ASSUME SessionTypeOK, Settled, state \in {"agent_turn", "awaiting_analyst"},
           NEW p \in Proposals, DispatchStart(p)
    PROVE  Pipeline'
<1>1. /\ p.agent \in Agents /\ loose = <<>> /\ pending = NoCall
      /\ Refusal(p) \in ViolationCodes \cup {"none"}
  BY DispatchAssumption, RefusalDecides DEF Settled
<1>2. CASE RefuseAtOnce(p) \/ RefuseNotInBuild(p)
  <2>1. dpc' = "idle" /\ loose' = loose
    BY <1>2 DEF RefuseAtOnce, RefuseNotInBuild, Return, AppendEvent, Record
  <2> QED BY <1>1, <2>1 DEF Pipeline, InPipeline
<1>3. CASE GuardScope(p)
  <2>1. /\ Len(loose') = Len(loose) + 1 /\ UNCHANGED <<state, pending>>
    BY <1>1, <1>3, WritesAppend
    DEF GuardScope, DispatchEvents, DispatchNotes, ViolationCodes
  <2>2. /\ dpc' = "guarded" /\ call' = p /\ outcome' = NoOutcome
        /\ Resolves(p) /\ GuardRefuses(p)
    BY <1>3 DEF GuardScope, AfterGuard
  <2>3. (Resolves(call) /\ GuardRefuses(call))'
    BY <2>2 DEF Resolves, GuardRefuses, GrantedBy, Binding
  <2> QED BY <1>1, <2>1, <2>2, <2>3 DEF Pipeline, InPipeline
<1>4. CASE CallTool(p)
  <2>1. /\ dpc' = "called" /\ call' = p /\ outcome' = NoOutcome /\ Refusal(p) = "none"
        /\ p.tool \in DispatchNotes
    BY <1>4, NeverEnforced, DispatchAssumption DEF CallTool, DispatchNotes
  <2>2. /\ loose' = <<>> /\ UNCHANGED <<state, pending>>
        /\ log' = Append(log, Entry("TOOL_CALLED", p.agent, p.tool))
    BY <1>1, <1>4, <2>1, WritesAppend DEF CallTool, DispatchEvents
  <2>3. Ends(<<"TOOL_CALLED">>)'
    BY <1>1, <2>1, <2>2, DispatchWritesEntries, EndsGrow DEF DispatchEvents
  <2>4. Refusal(call)' = "none"
    BY <2>1 DEF Refusal, Resolves, GuardRefuses, GrantedBy, Binding, MissingScopes, Validate
  <2> QED BY <1>1, <2>1, <2>2, <2>3, <2>4 DEF Pipeline, InPipeline
<1> QED BY <1>2, <1>3, <1>4 DEF DispatchStart

\* And goes on as its place in the pipeline says.
LEMMA ContinueKeepsPipeline ==
    ASSUME SessionTypeOK, Pipeline, DispatchContinue
    PROVE  Pipeline'
<1>1. /\ dpc \in InPipeline /\ call \in Proposals /\ call.agent \in Agents
      /\ outcome = NoOutcome /\ pending = NoCall
      /\ state \in {"agent_turn", "awaiting_analyst"}
      /\ loose \in Seq(Entries)
  BY DispatchAssumption
  DEF SessionTypeOK, Pipeline, DispatchContinue, AttachGuard, RefuseScope, HandlerRaises,
      HandlerReturns, SchemaFails, SchemaRejects, GateWrites, GateAttaches, InPipeline
<1>2. CASE AttachGuard
  <2>1. /\ dpc = "guarded" /\ dpc' = "refusing" /\ Len(loose) = 1
        /\ Resolves(call) /\ GuardRefuses(call) /\ UNCHANGED <<call, outcome>>
        /\ AttachEvent
    BY <1>2 DEF AttachGuard, Pipeline
  <2>2. loose' = <<>> /\ UNCHANGED <<state, pending>>
    BY <2>1, AttachShortens
  <2>3. (Resolves(call) /\ GuardRefuses(call))'
    BY <2>1 DEF Resolves, GuardRefuses, GrantedBy, Binding
  <2> QED BY <1>1, <2>1, <2>2, <2>3 DEF Pipeline, InPipeline
<1>3. CASE RefuseScope \/ HandlerRaises \/ SchemaRejects
  <2>1. dpc' = "idle" /\ loose' = <<>>
    BY <1>3 DEF RefuseScope, HandlerRaises, SchemaRejects, Return, AppendEvent, Record, Pipeline
  <2> QED BY <2>1 DEF Pipeline, InPipeline
<1>4. ASSUME NEW art \in Artifacts, HandlerReturns(art) PROVE Pipeline'
  <2>1. /\ dpc = "called" /\ loose = <<>> /\ Refusal(call) = "none" /\ Ends(<<"TOOL_CALLED">>)
        /\ artifact' = art /\ UNCHANGED <<call, outcome>>
        /\ dpc' = IF art = "wrong_type" THEN "mistyped" ELSE "gating"
    BY <1>4 DEF HandlerReturns, Pipeline, InPipeline
  <2>2. /\ loose' = <<>> /\ UNCHANGED <<state, pending>>
        /\ log' = Append(log, Entry("TOOL_RESULT", call.agent, "ok"))
    BY <1>1, <1>4, <2>1, WritesAppend DEF HandlerReturns, DispatchEvents, DispatchNotes
  <2>3. Ends(<<"TOOL_CALLED", "TOOL_RESULT">>)'
    BY <1>1, <2>1, <2>2, DispatchWritesEntries, EndsGrow DEF DispatchEvents, DispatchNotes
  <2>4. Refusal(call)' = "none"
    BY <2>1 DEF Refusal, Resolves, GuardRefuses, GrantedBy, Binding, MissingScopes, Validate
  <2>5. (Len(loose) < Len(Gate))'
    <3>1. Gate' \in {<<"VERIFICATION_PASS">>, <<"VERIFICATION_FAIL", "GATE_REJECTION">>}
      BY <1>1, <2>1, GateWritesOneOrTwo DEF Gate
    <3>2. Len(loose') = 0 /\ Len(Gate') \in {1, 2}
      BY <2>2, <3>1
    <3> QED BY <3>2
  <2> QED BY <1>1, <2>1, <2>2, <2>3, <2>4, <2>5 DEF Pipeline, InPipeline
<1>5. CASE SchemaFails
  <2>1. /\ dpc = "mistyped" /\ dpc' = "schema_failed" /\ loose = <<>> /\ loose' = loose
        /\ Refusal(call) = "none" /\ UNCHANGED <<call, outcome, state, pending>>
    BY <1>5 DEF SchemaFails, AppendEvent, Record, Pipeline, InPipeline, callVars
  <2>2. Refusal(call)' = "none"
    BY <2>1 DEF Refusal, Resolves, GuardRefuses, GrantedBy, Binding, MissingScopes, Validate
  <2> QED BY <1>1, <2>1, <2>2 DEF Pipeline, InPipeline
<1>6. CASE GateWrites \/ GateAttaches
  <2> DEFINE accepts == GateAccepts(ToolTable[call.tool].consequence, artifact)
  <2>1. /\ dpc \in {"gating", "attaching"} /\ Refusal(call) = "none"
        /\ artifact \in Artifacts \ {"wrong_type"}
        /\ UNCHANGED <<call, artifact>>
    BY <1>6 DEF GateWrites, GateAttaches, Pipeline, InPipeline
  <2>2. /\ Refusal(call)' = "none" /\ Gate' = Gate /\ accepts' = accepts
    BY <2>1 DEF Refusal, Resolves, GuardRefuses, GrantedBy, Binding, MissingScopes, Validate,
                Gate, GateEvents, GateAccepts, CheckPasses
  <2>3. Gate = IF accepts THEN <<"VERIFICATION_PASS">>
               ELSE <<"VERIFICATION_FAIL", "GATE_REJECTION">>
    BY <1>1, <2>1, GateWritesOneOrTwo DEF Gate
  <2>4. /\ Len(loose) \in Nat /\ Len(Gate) = IF accepts THEN 1 ELSE 2
        /\ Len(Gate) \in {1, 2} /\ accepts \in BOOLEAN
    BY <1>1, <2>3 DEF GateAccepts
  <2> HIDE DEF accepts
  <2>5. CASE GateWrites
    <3>1. /\ dpc = "gating" /\ Len(loose) < Len(Gate)
          /\ loose = <<>> => Ends(<<"TOOL_CALLED", "TOOL_RESULT">>)
          /\ dpc' = IF Len(loose) + 1 = Len(Gate) THEN "attaching" ELSE "gating"
          /\ outcome' = outcome
      BY <2>5 DEF GateWrites, Pipeline
    <3>2. Gate[Len(loose) + 1] \in DispatchEvents
      BY <2>3, <2>4, <3>1 DEF DispatchEvents
    <3>3. /\ Len(loose') = Len(loose) + 1 /\ UNCHANGED <<state, pending>>
          /\ log' = Append(log, Entry(Gate[Len(loose) + 1], call.agent, "gate"))
      BY <1>1, <2>5, <3>2, WritesAppend DEF GateWrites, DispatchNotes
    <3>4. loose' # <<>>
      BY <2>4, <3>3
    <3>5. accepts => Ends(<<"TOOL_CALLED", "TOOL_RESULT", "VERIFICATION_PASS">>)'
      <4> SUFFICES ASSUME accepts
                   PROVE  Ends(<<"TOOL_CALLED", "TOOL_RESULT", "VERIFICATION_PASS">>)'
        OBVIOUS
      <4>1. Len(loose) = 0 /\ Gate[Len(loose) + 1] = "VERIFICATION_PASS"
        BY <2>3, <2>4, <3>1
      <4>2. loose = <<>>
        BY <1>1, <4>1, EmptySeq
      <4> QED BY <1>1, <3>1, <3>2, <3>3, <4>1, <4>2, DispatchWritesEntries, EndsGrow
              DEF DispatchNotes
    <3>6. dpc' = "attaching" => Len(loose') \in 1 .. Len(Gate)
      BY <2>4, <3>1, <3>3
    <3>7. dpc' = "gating" => Len(loose') < Len(Gate)
      BY <2>4, <3>1, <3>3
    <3> QED BY <1>1, <2>1, <2>2, <3>1, <3>3, <3>4, <3>5, <3>6, <3>7
            DEF Pipeline, InPipeline, accepts
  <2>6. CASE GateAttaches
    <3>1. /\ dpc = "attaching" /\ AttachEvent /\ Len(loose) \in 1 .. Len(Gate)
          /\ IF Len(loose) = 1 THEN dpc' = "idle" ELSE UNCHANGED <<dpc, outcome>>
      BY <2>6 DEF GateAttaches, LastBody, GateReturns, Return, Pipeline
    <3>2. CASE Len(loose) = 1
      BY <3>1, <3>2, AttachShortens DEF Pipeline, InPipeline
    <3>3. CASE Len(loose) # 1
      <4>1. /\ Len(loose') \in 1 .. Len(Gate) /\ UNCHANGED <<state, pending>>
        BY <2>4, <3>1, <3>3, AttachShortens
      <4>2. ~ accepts
        <5>1. Len(Gate) \in {1, 2} /\ Len(loose) \in 1 .. Len(Gate) /\ Len(loose) # 1
          BY <2>4, <3>1, <3>3, Zenon
        <5>2. Len(Gate) # 1
          BY <5>1
        <5> QED BY <2>4, <5>2, Zenon
      <4>3. ~ accepts'
        BY <2>2, <4>2
      <4> QED BY <1>1, <2>1, <2>2, <3>1, <3>3, <4>1, <4>3 DEF Pipeline, InPipeline, accepts
    <3> QED BY <3>2, <3>3
  <2> QED BY <1>6, <2>5, <2>6
<1> QED BY <1>2, <1>3, <1>4, <1>5, <1>6 DEF DispatchContinue

\* Between two dispatches the pipeline waits, whatever the session does.
LEMMA PipelineWaits ==
    ASSUME Pipeline, dpc = "idle", UNCHANGED dispatchVars, loose' = <<>>
    PROVE  Pipeline'
BY DEF Pipeline, InPipeline, dispatchVars

\* A step that leaves the log and dispatch alone leaves the pipeline alone.
LEMMA PipelineStands ==
    ASSUME Pipeline, UNCHANGED dispatchVars, UNCHANGED <<state, log, loose, pending>>
    PROVE  Pipeline'
<1>1. UNCHANGED <<dpc, call, artifact, outcome, state, log, loose, pending>>
  BY DEF dispatchVars
<1>2. /\ Gate' = Gate
      /\ (Resolves(call) /\ GuardRefuses(call))' = (Resolves(call) /\ GuardRefuses(call))
      /\ Refusal(call)' = Refusal(call)
  BY <1>1 DEF Gate, GateEvents, GateAccepts, CheckPasses, Refusal, Resolves, GuardRefuses,
              GrantedBy, Binding, MissingScopes, Validate
<1>3. /\ Ends(<<"TOOL_CALLED">>)' = Ends(<<"TOOL_CALLED">>)
      /\ Ends(<<"TOOL_CALLED", "TOOL_RESULT">>)' = Ends(<<"TOOL_CALLED", "TOOL_RESULT">>)
      /\ Ends(<<"TOOL_CALLED", "TOOL_RESULT", "VERIFICATION_PASS">>)'
             = Ends(<<"TOOL_CALLED", "TOOL_RESULT", "VERIFICATION_PASS">>)
      /\ GateAccepts(ToolTable[call.tool].consequence, artifact)'
             = GateAccepts(ToolTable[call.tool].consequence, artifact)
  BY <1>1 DEF Ends, GateAccepts, CheckPasses
<1> QED BY <1>1, <1>2, <1>3 DEF Pipeline

(***************************************************************************)
(* The outcomes.                                                           *)
(***************************************************************************)

\* What dispatch returns is right when it returns it.
LEMMA StartTellsTheTruth ==
    ASSUME NEW p \in Proposals, DispatchStart(p)
    PROVE  RefusedIffNotPermitted' /\ ExecutedIsVerified'
<1>1. CASE RefuseAtOnce(p)
  <2>1. /\ call' = p /\ outcome' = Outcome("refused", Refusal(p))
        /\ Refusal(p) \in ViolationCodes /\ ~ Permitted(p)
    BY <1>1, RefusalDecides DEF RefuseAtOnce, Return
  <2>2. ~ Permitted(call)'
    BY <2>1 DEF Permitted
  <2> QED BY <2>1, <2>2 DEF RefusedIffNotPermitted, ExecutedIsVerified, Outcome
<1>2. CASE RefuseNotInBuild(p)
  <2>1. /\ call' = p /\ outcome' = Outcome("refused", HandlerNotInBuild)
        /\ HandlerNotInBuild \notin ViolationCodes /\ Permitted(p)
    BY <1>2, RefusalDecides
    DEF RefuseNotInBuild, NotInBuild, Return, HandlerNotInBuild, ViolationCodes,
        EnforceIsHumanOnly, ToolNotAllowed, ScopeNotAllowed, ExceedsCeiling
  <2>2. Permitted(call)'
    BY <2>1 DEF Permitted
  <2> QED BY <2>1, <2>2 DEF RefusedIffNotPermitted, ExecutedIsVerified, Outcome
<1>3. CASE GuardScope(p) \/ CallTool(p)
  <2>1. outcome' = NoOutcome
    BY <1>3 DEF GuardScope, CallTool
  <2> QED BY <2>1 DEF RefusedIffNotPermitted, ExecutedIsVerified, Outcome, NoOutcome
<1> QED BY <1>1, <1>2, <1>3 DEF DispatchStart

\* And so it is when its second half returns it.
LEMMA ContinueTellsTheTruth ==
    ASSUME Pipeline, DispatchContinue
    PROVE  RefusedIffNotPermitted' /\ ExecutedIsVerified'
<1>1. call \in Proposals /\ outcome = NoOutcome /\ call' = call
  BY DEF Pipeline, InPipeline, DispatchContinue, AttachGuard, RefuseScope, HandlerRaises,
         HandlerReturns, SchemaFails, SchemaRejects, GateWrites, GateAttaches
<1>2. Permitted(call)' = Permitted(call)
  BY <1>1 DEF Permitted
<1>3. CASE outcome' = NoOutcome
  BY <1>3 DEF RefusedIffNotPermitted, ExecutedIsVerified, Outcome, NoOutcome
<1>4. CASE RefuseScope
  <2>1. outcome' = Outcome("refused", ScopeNotAllowed) /\ ~ Permitted(call)
    BY <1>1, <1>4, RefusalDecides
    DEF RefuseScope, Return, Pipeline, ScopeNotAllowed
  <2> QED BY <1>2, <2>1
          DEF RefusedIffNotPermitted, ExecutedIsVerified, Outcome, ViolationCodes
<1>5. CASE HandlerRaises \/ SchemaRejects
  <2>1. outcome' = Outcome("failed", "none") /\ Permitted(call)
    BY <1>1, <1>5, RefusalDecides
    DEF HandlerRaises, SchemaRejects, Return, Pipeline, InPipeline
  <2> QED BY <1>2, <2>1
          DEF RefusedIffNotPermitted, ExecutedIsVerified, Outcome, ViolationCodes,
              EnforceIsHumanOnly, ToolNotAllowed, ScopeNotAllowed, ExceedsCeiling
<1>6. CASE GateAttaches /\ LastBody
  <2> DEFINE accepts == GateAccepts(ToolTable[call.tool].consequence, artifact)
  <2>1. /\ Permitted(call) /\ artifact \in Artifacts \ {"wrong_type"} /\ artifact' = artifact
        /\ outcome' = IF accepts THEN Outcome("executed", "none") ELSE Outcome("refused", "none")
    BY <1>1, <1>6, RefusalDecides
    DEF GateAttaches, GateReturns, Return, Pipeline, InPipeline
  <2>2. RefusedIffNotPermitted'
    BY <1>2, <2>1
    DEF RefusedIffNotPermitted, Outcome, ViolationCodes, EnforceIsHumanOnly, ToolNotAllowed,
        ScopeNotAllowed, ExceedsCeiling
  <2>3. ExecutedIsVerified'
    <3>1. CASE ~ accepts
      BY <2>1, <3>1 DEF ExecutedIsVerified, Outcome
    <3>2. CASE accepts
      <4>1. Ends(<<"TOOL_CALLED", "TOOL_RESULT", "VERIFICATION_PASS">>)' /\ log' = log
        <5>1. Ends(<<"TOOL_CALLED", "TOOL_RESULT", "VERIFICATION_PASS">>) /\ log' = log
          BY <1>6, <3>2 DEF GateAttaches, AttachEvent, Pipeline
        <5> QED BY <5>1 DEF Ends
      <4>2. artifact \in {"fails", "checker_raises"} =>
                ToolTable[call.tool].consequence = "observe"
        BY <3>2 DEF GateAccepts, CheckPasses
      <4> QED BY <1>1, <2>1, <4>1, <4>2 DEF ExecutedIsVerified
    <3> QED BY <3>1, <3>2
  <2> QED BY <2>2, <2>3
<1> QED BY <1>1, <1>3, <1>4, <1>5, <1>6
        DEF DispatchContinue, AttachGuard, HandlerReturns, SchemaFails, GateWrites, GateAttaches

(***************************************************************************)
(* A session whose turns dispatch.                                         *)
(***************************************************************************)
DispatchInv ==
    /\ SessionInv
    /\ Pipeline
    /\ pending = NoCall
    /\ outcome # NoOutcome => state # "created"
    /\ RefusedIffNotPermitted
    /\ ExecutedIsVerified

\* Every step of it is one a session may take.
LEMMA DispatchStepIsSessionStep ==
    ASSUME DispatchInv, [DispatchNext]_allDispatchVars
    PROVE  [SessionNext]_sessionVars
<1>1. SessionTypeOK /\ Pipeline /\ pending = NoCall
  BY DEF DispatchInv, SessionInv
<1>2. CASE Lifecycle
  <2>1. Settled
    BY <1>1, <1>2 DEF Lifecycle, Pipeline, Settled
  <2> QED BY <1>2, <2>1
          DEF Lifecycle, SessionNext, Turns, Closes, CloseReasons
<1>3. CASE Dispatches
  <2>1. Settled /\ Working
    BY <1>1, <1>3
    DEF Dispatches, DispatchStart, RefuseAtOnce, RefuseNotInBuild, GuardScope, CallTool,
        Pipeline, Settled, Working
  <2> QED BY <1>3, <2>1, StartIsSessionStep DEF Dispatches
<1>4. CASE DispatchContinue
  BY <1>1, <1>4, ContinueIsSessionStep
<1>5. CASE Crash
  BY <1>5 DEF SessionNext
<1>6. CASE UNCHANGED allDispatchVars
  BY <1>6 DEF allDispatchVars
<1> QED BY <1>2, <1>3, <1>4, <1>5, <1>6 DEF DispatchNext

\* And keeps the invariant.
LEMMA DispatchStepKeepsInv ==
    ASSUME DispatchInv, [DispatchNext]_allDispatchVars
    PROVE  DispatchInv'
<1>1. /\ SessionTypeOK /\ Pipeline /\ pending = NoCall /\ SessionInv
      /\ outcome # NoOutcome => state # "created"
      /\ RefusedIffNotPermitted /\ ExecutedIsVerified
  BY DEF DispatchInv, SessionInv
<1>2. SessionInv'
  BY <1>1, DispatchStepIsSessionStep, StepKeepsInv
<1>3. CASE Lifecycle
  <2>1. /\ dpc = "idle" /\ loose = <<>> /\ UNCHANGED <<dpc, call, artifact, outcome>>
        /\ UNCHANGED dispatchVars
        /\ UNCHANGED <<loose, pending>> /\ state' # "created"
        /\ \/ state = "created" \/ state' = "closed"
           \/ log' = log /\ state' \notin {"closing", "closed"}
           \/ state' = "closing"
    BY <1>1, <1>3
    DEF Lifecycle, Pipeline, SessionOpen, BeginTurn, BackToOpen, AwaitAnalyst, StartClose,
        FinishClose, MoveTo, Record, chainVars, callVars, dispatchVars, Successors,
        SessionTypeOK, SessionStates
  <2>2. Pipeline'
    BY <1>1, <2>1, PipelineWaits
  <2>3. RefusedIffNotPermitted'
    BY <1>1, <2>1 DEF RefusedIffNotPermitted, Permitted
  <2>4. ExecutedIsVerified'
    <3>1. CASE state = "created"
      BY <1>1, <2>1, <3>1 DEF ExecutedIsVerified, NoOutcome, Outcome
    <3>2. CASE state' \in {"closing", "closed"}
      BY <3>2 DEF ExecutedIsVerified
    <3>3. CASE log' = log /\ state # "created" /\ state' \notin {"closing", "closed"}
      <4>1. state \notin {"closing", "closed"}
        BY <1>1, <1>3, <3>3 DEF Lifecycle, SessionOpen, BeginTurn, BackToOpen, AwaitAnalyst,
            StartClose, FinishClose, MoveTo, Successors, SessionTypeOK, SessionStates
      <4> QED BY <1>1, <2>1, <3>3, <4>1 DEF ExecutedIsVerified, Ends
    <3> QED BY <2>1, <3>1, <3>2, <3>3
  <2> QED BY <1>1, <1>2, <2>1, <2>2, <2>3, <2>4 DEF DispatchInv
<1>4. ASSUME NEW p \in Proposals, state \in {"agent_turn", "awaiting_analyst"}, DispatchStart(p)
      PROVE  DispatchInv'
  <2>1. Settled
    BY <1>1, <1>4
    DEF DispatchStart, RefuseAtOnce, RefuseNotInBuild, GuardScope, CallTool, Pipeline, Settled
  <2>2. Pipeline'
    BY <1>1, <1>4, <2>1, StartKeepsPipeline
  <2>3. UNCHANGED <<state, pending>>
    BY <1>4 DEF DispatchStart, RefuseAtOnce, RefuseNotInBuild, GuardScope, CallTool,
                AppendEvent, GovernanceAppend, callVars
  <2> QED BY <1>1, <1>2, <1>4, <2>2, <2>3, StartTellsTheTruth DEF DispatchInv
<1>5. CASE DispatchContinue
  <2>1. /\ UNCHANGED <<state, pending>> /\ state # "created"
    BY <1>1, <1>5 DEF DispatchContinue, AttachGuard, RefuseScope, HandlerRaises, HandlerReturns,
                SchemaFails, SchemaRejects, GateWrites, GateAttaches, AttachEvent,
                AppendEvent, GovernanceAppend, callVars, Pipeline
  <2> QED BY <1>1, <1>2, <1>5, <2>1, ContinueKeepsPipeline, ContinueTellsTheTruth DEF DispatchInv
<1>6. CASE (Crash /\ UNCHANGED dispatchVars) \/ UNCHANGED allDispatchVars
  <2>1. /\ UNCHANGED <<state, log, loose, pending>> /\ UNCHANGED dispatchVars
        /\ UNCHANGED <<dpc, call, artifact, outcome>>
    BY <1>6 DEF Crash, allDispatchVars, dispatchVars, sessionVars, chainVars, callVars
  <2>2. Pipeline'
    BY <1>1, <2>1, PipelineStands
  <2>3. RefusedIffNotPermitted' /\ ExecutedIsVerified'
    BY <1>1, <2>1 DEF RefusedIffNotPermitted, ExecutedIsVerified, Permitted, Ends
  <2> QED BY <1>1, <1>2, <2>1, <2>2, <2>3 DEF DispatchInv
<1> QED BY <1>3, <1>4, <1>5, <1>6 DEF DispatchNext, Dispatches

\* What holds from the first state to the last, for any tool table, mandates
\* and proposals.
THEOREM DispatchInvariant == DispatchSpec => []DispatchInv
<1>1. DispatchInit => DispatchInv
  <2> SUFFICES ASSUME DispatchInit PROVE DispatchInv
    OBVIOUS
  <2>1. SessionInv
    BY InitialInv DEF DispatchInit
  <2>2. Pipeline
    BY DEF DispatchInit, SessionInit, Pipeline, InPipeline
  <2> QED BY <2>1, <2>2
          DEF DispatchInit, SessionInit, DispatchInv, RefusedIffNotPermitted,
              ExecutedIsVerified, NoOutcome, Outcome
<1>2. DispatchInv /\ [DispatchNext]_allDispatchVars => DispatchInv'
  BY DispatchStepKeepsInv
<1> QED BY <1>1, <1>2, PTL DEF DispatchSpec

\* Dispatch writes and attaches the way a session allows: a session whose turns
\* dispatch is a session.
THEOREM DispatchIsASession == DispatchSpec => SessionSpec
<1>1. DispatchInit => SessionInit
  BY DEF DispatchInit
<1>2. DispatchInv /\ [DispatchNext]_allDispatchVars => [SessionNext]_sessionVars
  BY DispatchStepIsSessionStep
<1> QED BY <1>1, <1>2, DispatchInvariant, PTL DEF DispatchSpec, SessionSpec

\* A refusal carries a violation code exactly if the mandate does not permit the
\* proposal, whichever of the allowlist, the guard and the mandate refused it.
THEOREM RefusalsAreJust == DispatchSpec => []RefusedIffNotPermitted
<1>1. DispatchInv => RefusedIffNotPermitted
  BY DEF DispatchInv
<1> QED BY <1>1, DispatchInvariant, PTL

\* Executed means called, returned and accepted by the gate, on the chain.
THEOREM ExecutionsAreVerified == DispatchSpec => []ExecutedIsVerified
<1>1. DispatchInv => ExecutedIsVerified
  BY DEF DispatchInv
<1> QED BY <1>1, DispatchInvariant, PTL

\* Every entry's body reaches the session, whichever way dispatch wrote it.
THEOREM DispatchKeepsBodies == DispatchSpec => []BodiesFollowTheChain
BY DispatchIsASession, BodiesFollowTheChainTheorem, PTL
(***************************************************************************)
(* The turns.                                                              *)
(***************************************************************************)

\* From the granted step to the end of the turn.
InAttempt == {"prompt", "waiting", "unavailable", "checking", "refused", "accepted",
              "reviewing", "judged", "declined", "approved", "dispatching"}

TurnPlace ==
    /\ pc \in InAttempt \cup {"unopened", "loop", "graded", "ended", "closing", "done"}
    /\ pc = "unopened" => state = "created" /\ log = <<>> /\ steps[Agent] = 0
    /\ pc \in {"loop", "graded", "ended"} => state = "open"
    /\ pc \in InAttempt => state \in {"agent_turn", "awaiting_analyst"}
    /\ pc = "prompt" => state = "agent_turn"
    /\ pc = "closing" => state = "closing" /\ closing \in CloseReasons
    /\ pc = "done" => state = "closed"
    /\ pc = "waiting" => pending.agent = Agent
    /\ pending # NoCall => pc = "waiting"
    /\ dpc # "idle" => pc = "dispatching"
    /\ pc = "dispatching" => call = Act
    /\ pc = "unavailable" => reply \in CloseReasons
    /\ broke \in CloseReasons \cup {"none"}

(***************************************************************************)
(* The end of the chain.                                                   *)
(***************************************************************************)

\* The last entry is of this step, of that type and with that note.
At(type, note) ==
    /\ log # <<>>
    /\ log[Len(log)].type = type /\ log[Len(log)].note = note
    /\ log[Len(log)].turn = steps[Agent]

\* Where the dispatch is tells how the chain ends.
OnDispatch ==
    /\ dpc \notin {"guarded", "refusing"}
    /\ dpc = "called" => At("TOOL_CALLED", Act.tool)
    /\ dpc = "mistyped" => At("TOOL_RESULT", "ok")
    /\ dpc = "schema_failed" => At("VERIFICATION_FAIL", "schema")
    /\ dpc = "gating" /\ loose = <<>> => At("TOOL_RESULT", "ok")
    /\ dpc = "gating" /\ loose # <<>> => At("VERIFICATION_FAIL", "gate")
    /\ dpc = "attaching" =>
           IF GateAccepts(ToolTable[call.tool].consequence, artifact)
           THEN At("VERIFICATION_PASS", "gate") ELSE At("GATE_REJECTION", "gate")
    /\ dpc = "idle" =>
           IF Executed THEN At("VERIFICATION_PASS", "gate")
           ELSE \/ At("TOOL_RESULT", "raised")
                \/ At("GATE_REJECTION", "schema") \/ At("GATE_REJECTION", "gate")

TurnInv ==
    /\ SessionInv
    /\ Pipeline
    /\ TurnPlace
    /\ pc = "dispatching" => OnDispatch

\* An entry of the agent's becomes the end of the chain.
LEMMA Written ==
    ASSUME SessionTypeOK, NEW type \in EventTypes,
           NEW note \in Notes \cup CloseReasons \cup {"none", "adapter"},
           log' = Append(log, Entry(type, Agent, note)), steps' = steps
    PROVE  /\ Entry(type, Agent, note)
                 = [type |-> type, agent |-> Agent, turn |-> steps[Agent], note |-> note]
           /\ At(type, note)'
<1>1. Agent \in Agents /\ log \in Seq(Entries) /\ Entry(type, Agent, note) \in Entries
  BY EntryIsEntry, TurnAssumption DEF SessionTypeOK
<1>2. Entry(type, Agent, note)
          = [type |-> type, agent |-> Agent, turn |-> steps[Agent], note |-> note]
  BY <1>1 DEF Entry
<1>3. /\ log' # <<>> /\ log'[Len(log')] = Entry(type, Agent, note)
  BY <1>1, AppendProperties
<1> QED BY <1>2, <1>3 DEF At

\* Where nothing is written and no step taken, the chain ends as it did.
LEMMA Standing ==
    ASSUME log' = log, steps' = steps
    PROVE  \A type, note : At(type, note)' <=> At(type, note)
BY DEF At

\* Nothing is underway but while the model is asked or dispatch runs.
LEMMA TurnIsFree ==
    ASSUME TurnInv, pc # "waiting", dpc = "idle"
    PROVE  Settled
BY DEF TurnInv, TurnPlace, Pipeline, Settled

\* The turn's own entries are ones a session may record.
LEMMA TurnRecords ==
    ASSUME TurnInv, NEW type \in WorkEvents, NEW note \in Notes,
           AppendEvent(type, Agent, note), SessionOnly, UNCHANGED broke,
           \/ /\ pc \in InAttempt \ {"waiting", "dispatching"}
              /\ pc' \in {"checking", "refused", "accepted", "judged", "declined", "approved"}
           \/ pc = "graded" /\ pc' = "ended"
    PROVE  SessionNext /\ TurnInv'
<1> USE TurnAssumption
<1>1. /\ dpc = "idle" /\ Settled /\ Working
      /\ IF pc = "graded" THEN state = "open" ELSE state \in {"agent_turn", "awaiting_analyst"}
  BY TurnIsFree DEF TurnInv, TurnPlace, Working, InAttempt
<1>2. SessionNext
  BY <1>1 DEF Records, SessionNext
<1>3. SessionInv'
  BY <1>2, StepKeepsInv DEF TurnInv
<1>4. UNCHANGED <<state, loose, pending, dpc, call>> /\ loose = <<>> /\ pending = NoCall
  BY <1>1 DEF AppendEvent, Record, callVars, SessionOnly, dispatchVars, Settled
<1>5. Pipeline'
  BY <1>1, <1>4, PipelineWaits DEF TurnInv, SessionOnly
<1>6. TurnPlace'
  BY <1>1, <1>4 DEF TurnInv, TurnPlace, InAttempt
<1> QED BY <1>2, <1>3, <1>5, <1>6 DEF TurnInv

\* Nor does ending the turn, or handing it to the analyst, disturb anything.
LEMMA TurnMoves ==
    ASSUME TurnInv, pc \in InAttempt \ {"waiting"}, dpc = "idle",
           \/ BackToOpen /\ pc' \in {"loop", "graded", "ended"}
           \/ AwaitAnalyst /\ pc' = "reviewing",
           SessionOnly, broke' \in CloseReasons \cup {"none"}
    PROVE  SessionNext /\ TurnInv'
<1>1. Settled /\ state \in {"agent_turn", "awaiting_analyst"}
  BY TurnIsFree DEF TurnInv, TurnPlace
<1>2. SessionNext
  BY <1>1 DEF Turns, SessionNext
<1>3. SessionInv'
  BY <1>2, StepKeepsInv DEF TurnInv
<1>4. /\ UNCHANGED <<loose, pending, dpc, call>> /\ loose = <<>> /\ pending = NoCall
      /\ \/ state' = "open" /\ pc' \in {"loop", "graded", "ended"}
         \/ state' = "awaiting_analyst" /\ pc' = "reviewing"
  BY <1>1 DEF BackToOpen, AwaitAnalyst, MoveTo, chainVars, callVars, SessionOnly,
              dispatchVars, Settled
<1>5. Pipeline'
  BY <1>4, PipelineWaits DEF TurnInv, SessionOnly
<1>6. TurnPlace'
  BY <1>4 DEF TurnInv, TurnPlace, InAttempt
<1> QED BY <1>2, <1>3, <1>5, <1>6 DEF TurnInv

\* What the turn does without the session keeps it where it is.
LEMMA TurnStays ==
    ASSUME TurnInv, UNCHANGED allDispatchVars, state = "agent_turn",
           pc \in {"dispatching", "unavailable", "checking"}, dpc = "idle",
           pc' \in {"prompt", "reviewing", "approved"}, UNCHANGED broke
    PROVE  [SessionNext]_sessionVars /\ TurnInv'
<1>1. UNCHANGED sessionVars /\ UNCHANGED dispatchVars
  BY DEF allDispatchVars
<1>2. /\ UNCHANGED <<state, log, loose, pending, reply, closing, steps, dpc, call>>
      /\ pending = NoCall
  BY <1>1 DEF sessionVars, chainVars, callVars, closeVars, budgetVars, dispatchVars,
              TurnInv, TurnPlace
<1>3. SessionInv'
  BY <1>1, StepKeepsInv DEF TurnInv
<1>4. Pipeline'
  BY <1>1, <1>2, PipelineStands DEF TurnInv
<1>5. TurnPlace'
  BY <1>2 DEF TurnInv, TurnPlace, InAttempt
<1> QED BY <1>1, <1>3, <1>4, <1>5 DEF TurnInv

\* The act is always dispatched: it is permitted and its handler is built.
LEMMA ActIsCalled ==
    ASSUME DispatchStart(Act)
    PROVE  CallTool(Act)
<1>1. Refusal(Act) = "none" /\ ~ NotInBuild(Act)
  BY RefusalDecides, TurnAssumption DEF NotInBuild
<1>2. ~ (Resolves(Act) /\ GuardRefuses(Act))
  BY <1>1, RefusalDecides, TurnAssumption DEF ScopeNotAllowed
<1> QED BY <1>1, <1>2 DEF DispatchStart, RefuseAtOnce, RefuseNotInBuild, GuardScope

\* What dispatching the act writes after what.
ActWrites(type, note) ==
    \/ pc = "approved" /\ type = "TOOL_CALLED" /\ note = Act.tool
    \/ At("TOOL_CALLED", Act.tool) /\ type = "TOOL_RESULT" /\ note \in {"ok", "raised"}
    \/ At("TOOL_RESULT", "ok") /\ type = "VERIFICATION_PASS" /\ note = "gate"
    \/ At("TOOL_RESULT", "ok") /\ type = "VERIFICATION_FAIL" /\ note \in {"gate", "schema"}
    \/ At("VERIFICATION_FAIL", note) /\ type = "GATE_REJECTION" /\ note \in {"gate", "schema"}

ActStep ==
    /\ OnDispatch'
    /\ steps' = steps
    /\ \/ pc = "dispatching" /\ log' = log
       \/ \E type \in DispatchEvents, note \in DispatchNotes :
              log' = Append(log, Entry(type, Agent, note)) /\ ActWrites(type, note)

\* Dispatching the act writes one entry after the other, as its place tells.
LEMMA ActRuns ==
    ASSUME TurnInv, RunAct
    PROVE  ActStep
<1> USE TurnAssumption
<1>0. /\ SessionTypeOK /\ Pipeline /\ pc' = "dispatching"
      /\ pc = "dispatching" => call = Act
      /\ log \in Seq(Entries)
  BY DEF TurnInv, SessionInv, SessionTypeOK, RunAct, Go, TurnPlace
<1>1. \A note \in DispatchNotes : note \in Notes
  BY WritesAssumption
<1>2. CASE pc = "approved" /\ DispatchStart(Act)
  <2>1. /\ CallTool(Act) /\ AppendEvent("TOOL_CALLED", Act.agent, Act.tool)
        /\ dpc' = "called"
    BY <1>2, ActIsCalled DEF CallTool
  <2>2. /\ log' = Append(log, Entry("TOOL_CALLED", Agent, Act.tool)) /\ steps' = steps
    BY <2>1 DEF AppendEvent, Record, budgetVars
  <2>3. Act.tool \in Notes
    BY <1>1, <2>1, NeverEnforced, DispatchAssumption DEF CallTool, DispatchNotes
  <2>4. At("TOOL_CALLED", Act.tool)'
    BY <1>0, <2>2, <2>3, Written DEF EventTypes
  <2>5. ActWrites("TOOL_CALLED", Act.tool)
    BY <1>2 DEF ActWrites
  <2>6. "TOOL_CALLED" \in DispatchEvents /\ Act.tool \in DispatchNotes
    BY <2>1, NeverEnforced, DispatchAssumption DEF CallTool, DispatchNotes, DispatchEvents
  <2>7. OnDispatch'
    BY <2>1, <2>4 DEF OnDispatch
  <2> QED BY <2>2, <2>5, <2>6, <2>7 DEF ActStep
<1>3. CASE pc = "dispatching" /\ DispatchContinue
  <2>0. OnDispatch
    BY <1>3 DEF TurnInv
  <2>2. ASSUME NEW type \in DispatchEvents, NEW note \in DispatchNotes,
               AppendEvent(type, call.agent, note) \/ GovernanceAppend(type, call.agent, note)
        PROVE  /\ log' = Append(log, Entry(type, Agent, note)) /\ At(type, note)'
               /\ steps' = steps
    <3>1. /\ log' = Append(log, Entry(type, Agent, note)) /\ steps' = steps
      BY <1>0, <1>3, <2>2
      DEF AppendEvent, GovernanceAppend, Record, LedgerOnly, budgetVars
    <3>2. note \in Notes /\ type \in EventTypes
      BY <1>1, WritesAssumption, WorkEventsAssumption
    <3> QED BY <1>0, <3>1, <3>2, Written
  <2>3. CASE AttachGuard \/ RefuseScope
    BY <2>0, <2>3 DEF OnDispatch, AttachGuard, RefuseScope
  <2>4. CASE HandlerRaises
    <3>1. /\ log' = Append(log, Entry("TOOL_RESULT", Agent, "raised")) /\ steps' = steps
          /\ At("TOOL_RESULT", "raised")' /\ dpc = "called"
          /\ dpc' = "idle" /\ ~ Executed'
      BY <2>2, <2>4
      DEF HandlerRaises, Return, Outcome, Executed, DispatchEvents, DispatchNotes
    <3>2. ActWrites("TOOL_RESULT", "raised")
      BY <2>0, <3>1 DEF OnDispatch, ActWrites
    <3> QED BY <3>1, <3>2 DEF OnDispatch, ActStep, DispatchEvents, DispatchNotes
  <2>5. ASSUME NEW art \in Artifacts, HandlerReturns(art)
        PROVE  ActStep
    <3>1. /\ log' = Append(log, Entry("TOOL_RESULT", Agent, "ok")) /\ steps' = steps
          /\ At("TOOL_RESULT", "ok")' /\ dpc = "called" /\ loose' = <<>>
          /\ dpc' \in {"mistyped", "gating"}
      BY <1>0, <2>2, <2>5
      DEF HandlerReturns, AppendEvent, Record, DispatchEvents, DispatchNotes, Pipeline
    <3>2. ActWrites("TOOL_RESULT", "ok")
      BY <2>0, <3>1 DEF OnDispatch, ActWrites
    <3> QED BY <3>1, <3>2 DEF OnDispatch, ActStep, DispatchEvents, DispatchNotes
  <2>6. CASE SchemaFails
    <3>1. /\ log' = Append(log, Entry("VERIFICATION_FAIL", Agent, "schema")) /\ steps' = steps
          /\ At("VERIFICATION_FAIL", "schema")' /\ dpc = "mistyped" /\ dpc' = "schema_failed"
      BY <2>2, <2>6 DEF SchemaFails, DispatchEvents, DispatchNotes
    <3>2. ActWrites("VERIFICATION_FAIL", "schema")
      BY <2>0, <3>1 DEF OnDispatch, ActWrites
    <3> QED BY <3>1, <3>2 DEF OnDispatch, ActStep, DispatchEvents, DispatchNotes
  <2>7. CASE SchemaRejects
    <3>1. /\ log' = Append(log, Entry("GATE_REJECTION", Agent, "schema")) /\ steps' = steps
          /\ At("GATE_REJECTION", "schema")' /\ dpc = "schema_failed"
          /\ dpc' = "idle" /\ ~ Executed'
      BY <2>2, <2>7
      DEF SchemaRejects, Return, Outcome, Executed, DispatchEvents, DispatchNotes
    <3>2. ActWrites("GATE_REJECTION", "schema")
      BY <2>0, <3>1 DEF OnDispatch, ActWrites
    <3> QED BY <3>1, <3>2 DEF OnDispatch, ActStep, DispatchEvents, DispatchNotes
  <2> DEFINE accepts == GateAccepts(ToolTable[call.tool].consequence, artifact)
  <2>8. CASE GateWrites
    <3>1. /\ dpc = "gating" /\ call = Act /\ Refusal(Act) = "none" /\ accepts' = accepts
          /\ Len(loose) \in Nat /\ Len(loose) < Len(Gate)
          /\ dpc' = IF Len(loose) + 1 = Len(Gate) THEN "attaching" ELSE "gating"
          /\ GovernanceAppend(Gate[Len(loose) + 1], call.agent, "gate")
          /\ loose \in Seq(Entries)
      BY <1>0, <1>3, <2>8
      DEF GateWrites, Pipeline, InPipeline, SessionTypeOK, GateAccepts, CheckPasses
    <3>2. Gate = IF accepts THEN <<"VERIFICATION_PASS">>
                 ELSE <<"VERIFICATION_FAIL", "GATE_REJECTION">>
      BY <3>1, GateWritesOneOrTwo DEF Gate
    <3> HIDE DEF accepts
    <3>3. CASE accepts
      <4>1. Len(loose) = 0 /\ Gate[Len(loose) + 1] = "VERIFICATION_PASS"
            /\ dpc' = "attaching"
        BY <3>1, <3>2, <3>3
      <4>2. loose = <<>>
        BY <3>1, <4>1, EmptySeq
      <4>3. /\ log' = Append(log, Entry("VERIFICATION_PASS", Agent, "gate")) /\ steps' = steps
            /\ At("VERIFICATION_PASS", "gate")'
        BY <2>2, <3>1, <4>1 DEF DispatchEvents, DispatchNotes
      <4>4. ActWrites("VERIFICATION_PASS", "gate")
        BY <2>0, <3>1, <4>2, <4>3 DEF OnDispatch, ActWrites
      <4>5. accepts'
        BY <3>1, <3>3
      <4> QED BY <4>1, <4>3, <4>4, <4>5
           DEF OnDispatch, accepts, ActStep, DispatchEvents, DispatchNotes
    <3>4. CASE ~ accepts /\ loose = <<>>
      <4>1. Len(loose) = 0 /\ Gate[Len(loose) + 1] = "VERIFICATION_FAIL"
            /\ dpc' = "gating"
        BY <3>1, <3>2, <3>4
      <4>2. /\ log' = Append(log, Entry("VERIFICATION_FAIL", Agent, "gate")) /\ steps' = steps
            /\ At("VERIFICATION_FAIL", "gate")'
        BY <2>2, <3>1, <4>1 DEF DispatchEvents, DispatchNotes
      <4>3. ActWrites("VERIFICATION_FAIL", "gate")
        BY <2>0, <3>1, <3>4, <4>2 DEF OnDispatch, ActWrites
      <4>4. loose' # <<>>
        <5>1. loose' = Append(loose, Entry(Gate[Len(loose) + 1], call.agent, "gate"))
          BY <3>1 DEF GovernanceAppend, LedgerOnly
        <5> QED BY <3>4, <5>1
      <4> QED BY <4>1, <4>2, <4>3, <4>4 DEF OnDispatch, ActStep, DispatchEvents, DispatchNotes
    <3>5. CASE ~ accepts /\ loose # <<>>
      <4>1. Len(loose) = 1 /\ Gate[Len(loose) + 1] = "GATE_REJECTION"
            /\ dpc' = "attaching"
        <5>1. Len(loose) # 0
          BY <3>1, <3>5, EmptySeq
        <5>2. Gate = <<"VERIFICATION_FAIL", "GATE_REJECTION">>
          BY <3>2, <3>5, Zenon
        <5>3. Len(Gate) = 2
          BY <5>2
        <5>4. Len(loose) \in Nat /\ Len(loose) < 2
          BY <3>1, <5>3, Zenon
        <5>5. Len(loose) = 1
          <6>1. \A n \in Nat : n < 2 /\ n # 0 => n = 1
            OBVIOUS
          <6> QED BY <5>1, <5>4, <6>1, Zenon
        <5> QED BY <3>1, <5>2, <5>5
      <4>2. /\ log' = Append(log, Entry("GATE_REJECTION", Agent, "gate")) /\ steps' = steps
            /\ At("GATE_REJECTION", "gate")'
        BY <2>2, <3>1, <4>1 DEF DispatchEvents, DispatchNotes
      <4>3. ActWrites("GATE_REJECTION", "gate")
        BY <2>0, <3>1, <3>5, <4>2 DEF OnDispatch, ActWrites
      <4>4. ~ accepts'
        BY <3>1, <3>5
      <4> QED BY <4>1, <4>2, <4>3, <4>4
           DEF OnDispatch, accepts, ActStep, DispatchEvents, DispatchNotes
    <3> QED BY <3>3, <3>4, <3>5
  <2>9. CASE GateAttaches
    <3>1. /\ dpc = "attaching" /\ UNCHANGED <<log, steps, call, artifact>>
          /\ \/ dpc' = "idle" /\ outcome' = IF accepts THEN Outcome("executed", "none")
                                           ELSE Outcome("refused", "none")
             \/ dpc' = "attaching"
      BY <2>9 DEF GateAttaches, AttachEvent, GateReturns, Return, budgetVars
    <3>2. IF accepts THEN At("VERIFICATION_PASS", "gate")' ELSE At("GATE_REJECTION", "gate")'
      BY <2>0, <3>1, Standing DEF OnDispatch
    <3>3. accepts' = accepts
      BY <3>1 DEF GateAccepts, CheckPasses
    <3>5. CASE dpc' = "idle"
      <4>1. Executed' <=> accepts
        <5> HIDE DEF accepts
        <5> QED BY <3>1, <3>5 DEF Executed, Outcome
      <4> QED BY <1>3, <3>1, <3>2, <3>5, <4>1 DEF OnDispatch, ActStep
    <3>6. CASE dpc' = "attaching"
      BY <1>3, <3>1, <3>2, <3>3, <3>6 DEF OnDispatch, ActStep
    <3> QED BY <3>1, <3>5, <3>6
  <2> QED BY <1>3, <2>3, <2>4, <2>5, <2>6, <2>7, <2>8, <2>9 DEF DispatchContinue
<1> QED BY <1>2, <1>3 DEF RunAct

\* Running the act goes the pipeline's way.
LEMMA TurnDispatches ==
    ASSUME TurnInv, RunAct
    PROVE  SessionNext /\ TurnInv'
<1> USE TurnAssumption
<1>0. /\ SessionInv /\ SessionTypeOK /\ Pipeline /\ TurnPlace
      /\ state \in {"agent_turn", "awaiting_analyst"} /\ pending = NoCall
      /\ pc' = "dispatching" /\ broke' = broke /\ OnDispatch'
  BY ActRuns DEF TurnInv, SessionInv, RunAct, Go, TurnPlace, InAttempt, ActStep
<1>1. CASE pc = "approved" /\ DispatchStart(Act)
  <2>1. Settled /\ Working
    BY <1>0, <1>1, TurnIsFree DEF TurnPlace, Working
  <2>2. SessionNext /\ Pipeline'
    BY <1>0, <1>1, <2>1, StartIsSessionStep, StartKeepsPipeline
  <2>3. call' = Act /\ UNCHANGED <<state, pending>>
    BY <1>1 DEF DispatchStart, RefuseAtOnce, RefuseNotInBuild, GuardScope, CallTool,
                AppendEvent, GovernanceAppend, callVars
  <2>4. TurnPlace'
    BY <1>0, <2>3 DEF TurnPlace, InAttempt
  <2> QED BY <1>0, <2>2, <2>4, StepKeepsInv DEF TurnInv
<1>2. CASE pc = "dispatching" /\ DispatchContinue
  <2>1. SessionNext /\ Pipeline'
    BY <1>0, <1>2, ContinueIsSessionStep, ContinueKeepsPipeline
  <2>2. UNCHANGED <<call, state, pending>>
    BY <1>2 DEF DispatchContinue, AttachGuard, RefuseScope, HandlerRaises, HandlerReturns,
                SchemaFails, SchemaRejects, GateWrites, GateAttaches, AttachEvent,
                AppendEvent, GovernanceAppend, callVars
  <2>3. TurnPlace'
    BY <1>0, <1>2, <2>2 DEF TurnPlace, InAttempt
  <2> QED BY <1>0, <2>1, <2>3, StepKeepsInv DEF TurnInv
<1> QED BY <1>1, <1>2 DEF RunAct

\* Opening the session, taking a step and closing the session.
LEMMA TurnBeginsAndEnds ==
    ASSUME TurnInv, OpenSession \/ CloseSession \/ BeginAttemptAt("prompt")
                        \/ BeginAttemptAt("approved")
    PROVE  SessionNext /\ TurnInv'
<1> USE TurnAssumption
<1>0. SessionInv /\ SessionTypeOK /\ Pipeline /\ TurnPlace
  BY DEF TurnInv, SessionInv
<1>1. /\ dpc = "idle" /\ pc # "waiting" /\ pc # "dispatching" /\ Settled
      /\ loose = <<>> /\ pending = NoCall /\ UNCHANGED <<dpc, call>>
  BY <1>0, TurnIsFree
  DEF OpenSession, BeginAttemptAt, CloseSession, TurnEnded, TurnPlace, Settled,
      SessionOnly, dispatchVars
<1>2. CASE OpenSession
  <2>1. SessionNext /\ loose' = <<>> /\ pending' = NoCall /\ pc' = "loop" /\ broke' = broke
        /\ state' = "open"
    BY <1>1, <1>2 DEF OpenSession, SessionOpen, MoveTo, Record, Go, callVars, SessionNext
  <2>2. Pipeline'
    BY <1>0, <1>1, <1>2, <2>1, PipelineWaits DEF OpenSession, SessionOnly
  <2>3. TurnPlace'
    BY <1>0, <1>1, <2>1 DEF TurnPlace, InAttempt
  <2> QED BY <1>0, <2>1, <2>2, <2>3, StepKeepsInv DEF TurnInv
<1>3. CASE BeginAttemptAt("prompt") \/ BeginAttemptAt("approved")
  <2>1. BeginTurn(Agent, 0) /\ state = "open" /\ Working
    BY <1>0, <1>3 DEF BeginAttemptAt, TurnPlace, Working
  <2>2. SessionNext
    BY <1>1, <2>1 DEF SessionNext, Turns
  <2>3. /\ loose' = <<>> /\ pending' = NoCall
        /\ \/ pc' \in {"prompt", "approved"} /\ state' = "agent_turn" /\ broke' = broke
           \/ pc' = "ended" /\ state' = "open" /\ broke' \in CloseReasons
    BY <1>1, <1>3, <2>1
    DEF BeginAttemptAt, BeginTurn, MoveTo, TurnCheck, Check, CloseReasons, Granted, chainVars
  <2>4. Pipeline'
    BY <1>0, <1>1, <1>3, <2>3, PipelineWaits DEF BeginAttemptAt, SessionOnly
  <2>5. TurnPlace'
    BY <1>0, <1>1, <2>3 DEF TurnPlace, InAttempt
  <2> QED BY <1>0, <2>2, <2>3, <2>4, <2>5, StepKeepsInv DEF TurnInv
<1>4. CASE CloseSession
  <2>1. /\ loose' = <<>> /\ pending' = NoCall /\ broke' = broke
        /\ \/ StartClose(CloseReason) /\ TurnEnded /\ pc' = "closing"
           \/ FinishClose /\ pc' = "done"
    BY <1>1, <1>4 DEF CloseSession, StartClose, FinishClose, Record, Go, chainVars, callVars
  <2>2. TurnEnded => state = "open"
    BY <1>0 DEF TurnEnded, TurnPlace
  <2>3. CloseReason \in CloseReasons
    BY <1>0 DEF TurnPlace, CloseReason, CloseReasons
  <2>4. SessionNext
    BY <1>1, <2>1, <2>2, <2>3 DEF SessionNext, Closes
  <2>5. Pipeline'
    BY <1>0, <1>1, <1>4, <2>1, PipelineWaits DEF CloseSession, SessionOnly
  <2>6. \/ pc' = "closing" /\ state' = "closing" /\ closing' \in CloseReasons
        \/ pc' = "done" /\ state' = "closed"
    BY <2>1, <2>3 DEF StartClose, FinishClose, MoveTo
  <2>7. TurnPlace'
    BY <1>0, <1>1, <2>1, <2>6 DEF TurnPlace, InAttempt
  <2> QED BY <1>0, <2>4, <2>5, <2>6, <2>7, StepKeepsInv DEF TurnInv
<1> QED BY <1>2, <1>3, <1>4

\* The model call and what becomes of the attempt when it brings no answer, or
\* one its check refuses.
LEMMA TurnAsks ==
    ASSUME TurnInv, AskModel \/ ModelResponds \/ ModelUnavailable \/ AttemptRefused
    PROVE  SessionNext /\ TurnInv'
<1> USE TurnAssumption
<1>0. /\ SessionInv /\ SessionTypeOK /\ Pipeline /\ TurnPlace
      /\ dpc = "idle" /\ loose = <<>> /\ SessionOnly /\ UNCHANGED <<dpc, call>>
  BY DEF TurnInv, SessionInv, Pipeline, TurnPlace, AskModel, ModelResponds,
         ModelUnavailable, AttemptRefused, SessionOnly, dispatchVars
<1>1. ASSUME NEW estimate \in Estimates, pc = "prompt", SendPrompt(Agent, estimate),
             Go(IF reply' = Granted THEN "waiting" ELSE "unavailable")
      PROVE  SessionNext /\ TurnInv'
  <2>1. Settled /\ pending = NoCall /\ state = "agent_turn"
    BY <1>0, <1>1, TurnIsFree DEF TurnPlace, Settled
  <2>2. SessionNext
    BY <1>1, <2>1 DEF SessionNext, Prompts
  <2>3. /\ loose' = <<>> /\ state' = state /\ broke' = broke
        /\ \/ pc' = "waiting" /\ pending'.agent = Agent
           \/ pc' = "unavailable" /\ pending' = NoCall /\ reply' \in CloseReasons
    BY <1>0, <1>1, <2>1
    DEF SendPrompt, Go, Record, CallCheck, Check, CloseReasons, Granted, chainVars
  <2>4. Pipeline'
    BY <1>0, <2>3, PipelineWaits DEF SessionOnly
  <2>5. TurnPlace'
    BY <1>0, <2>1, <2>3 DEF TurnPlace, InAttempt
  <2> QED BY <1>0, <2>2, <2>3, <2>4, <2>5, StepKeepsInv DEF TurnInv
<1>2. CASE ModelResponds
  <2>1. SessionNext /\ state \in {"agent_turn", "awaiting_analyst"}
    BY <1>0, <1>2 DEF ModelResponds, SessionNext, Answers, TurnPlace, InAttempt
  <2>2. /\ loose' = <<>> /\ state' = state /\ broke' = broke
        /\ \/ pc' = "checking" /\ pending' = NoCall
           \/ pc' = "waiting" /\ pending'.agent = Agent
           \/ pc' = "unavailable" /\ pending' = NoCall /\ reply' \in CloseReasons
    <3>1. CASE \E usage \in Usages : ModelAnswers(usage) /\ Go("checking")
      BY <1>0, <3>1 DEF ModelAnswers, Go, chainVars
    <3>2. CASE ModelRetries /\ Go("waiting")
      <4>1. pending'.agent = pending.agent /\ pending.agent = Agent
        BY <1>0, <1>2, <3>2 DEF ModelResponds, ModelRetries, SessionTypeOK, TurnPlace
      <4> QED BY <1>0, <3>2, <4>1 DEF ModelRetries, Go, chainVars
    <3>3. CASE ModelFails /\ Go("unavailable")
      BY <1>0, <3>3 DEF ModelFails, Go, Record, CloseReasons
    <3> QED BY <1>2, <3>1, <3>2, <3>3 DEF ModelResponds
  <2>3. Pipeline'
    BY <1>0, <2>2, PipelineWaits DEF SessionOnly
  <2>4. TurnPlace'
    BY <1>0, <2>1, <2>2 DEF TurnPlace, InAttempt
  <2> QED BY <1>0, <2>1, <2>2, <2>3, <2>4, StepKeepsInv DEF TurnInv
<1>3. CASE ModelUnavailable
  <2>1. /\ pc \in InAttempt \ {"waiting"} /\ BackToOpen /\ pc' = "ended"
        /\ broke' \in CloseReasons
    BY <1>0, <1>3 DEF ModelUnavailable, TurnPlace, InAttempt
  <2> QED BY <1>0, <2>1, TurnMoves
<1>4. CASE AttemptRefused
  <2>1. /\ pc \in InAttempt \ {"waiting"} /\ BackToOpen /\ pc' = "loop"
        /\ broke' \in CloseReasons \cup {"none"}
    BY <1>0, <1>4 DEF AttemptRefused, LeaveRefused, Go, TurnPlace, InAttempt
  <2> QED BY <1>0, <2>1, TurnMoves
<1> QED BY <1>1, <1>2, <1>3, <1>4 DEF AskModel

\* The process may die anywhere.
LEMMA TurnCrashes ==
    ASSUME TurnInv, Crash \/ UNCHANGED sessionVars, UNCHANGED <<dispatchVars, turnVars>>
    PROVE  [SessionNext]_sessionVars /\ TurnInv'
<1>1. [SessionNext]_sessionVars
  BY DEF SessionNext
<1>2. /\ UNCHANGED <<state, log, loose, pending, reply, closing, steps>>
      /\ UNCHANGED <<dpc, call, artifact, outcome, pc, broke>>
  BY DEF Crash, sessionVars, chainVars, callVars, closeVars, budgetVars, dispatchVars, turnVars
<1>3. Pipeline'
  BY <1>2, PipelineStands DEF TurnInv
<1>4. TurnPlace'
  BY <1>2 DEF TurnInv, TurnPlace
<1>5. pc' = "dispatching" => OnDispatch'
  BY <1>2, Standing DEF TurnInv, OnDispatch, Executed
<1> QED BY <1>1, <1>3, <1>4, <1>5, StepKeepsInv DEF TurnInv

\* A turn starts right.
LEMMA TurnStartsRight == TurnInit => TurnInv
<1> SUFFICES ASSUME TurnInit PROVE TurnInv
  OBVIOUS
<1>1. SessionInv
  BY InitialInv DEF TurnInit, DispatchInit
<1>2. Pipeline
  BY DEF TurnInit, DispatchInit, SessionInit, Pipeline, InPipeline
<1>3. TurnPlace
  BY TurnAssumption
  DEF TurnInit, DispatchInit, SessionInit, TurnPlace, InAttempt, CloseReasons
<1> QED BY <1>1, <1>2, <1>3 DEF TurnInv, TurnInit

(***************************************************************************)
(* Counting.                                                               *)
(***************************************************************************)
One(b) == IF b THEN 1 ELSE 0

\* A set of places in a sequence is finite.
LEMMA PlacesAreFinite ==
    ASSUME NEW n \in Nat, NEW T \in SUBSET (1 .. n)
    PROVE  IsFiniteSet(T) /\ Cardinality(T) \in Nat
<1>1. IsFiniteSet(1 .. n)
  BY FS_Interval
<1>2. IsFiniteSet(T)
  BY <1>1, FS_Subset
<1> QED BY <1>2, FS_CardinalityType

(***************************************************************************)
(* What the chain shows of a step.                                         *)
(***************************************************************************)

\* What an entry adds to what was written.
LEMMA WroteGrows ==
    ASSUME SessionTypeOK, NEW entry, log' = Append(log, entry),
           NEW type, NEW note, NEW turn
    PROVE  Wrote(type, note, turn)'
               <=> \/ Wrote(type, note, turn)
                   \/ entry.type = type /\ entry.note = note /\ entry.turn = turn
<1>1. /\ Len(log) \in Nat /\ DOMAIN log = 1 .. Len(log) /\ DOMAIN log' = 1 .. Len(log) + 1
      /\ \A i \in 1 .. Len(log) : log'[i] = log[i]
      /\ log'[Len(log) + 1] = entry
  BY DEF SessionTypeOK
<1>2. \A i \in DOMAIN log' : i \in DOMAIN log \/ i = Len(log) + 1
  BY <1>1
<1>3. \A i \in DOMAIN log : i \in DOMAIN log' /\ log'[i] = log[i]
  BY <1>1
<1>4. Len(log) + 1 \in DOMAIN log'
  BY <1>1
<1> QED BY <1>1, <1>2, <1>3, <1>4, Zenon DEF Wrote

\* The gate has accepted what this step's dispatch delivered, and the turn has
\* yet to take it.
Fresh == pc = "dispatching" /\ At("VERIFICATION_PASS", "gate")

\* Dispatch writes an acceptance just when it makes the step's result fresh.
LEMMA ActAccepts ==
    ASSUME TurnInv, RunAct
    PROVE  /\ pc \in {"approved", "dispatching"} /\ pc' = "dispatching"
           /\ UNCHANGED <<steps, state>>
           /\ \/ log' = log /\ (Fresh' <=> Fresh)
              \/ /\ ~ Fresh
                 /\ \E type \in DispatchEvents, note \in DispatchNotes :
                        /\ log' = Append(log, [type |-> type, agent |-> Agent,
                                               turn |-> steps[Agent], note |-> note])
                        /\ type = "VERIFICATION_PASS" => note = "gate"
                        /\ type \in {"VERIFICATION_FAIL", "GATE_REJECTION"} =>
                               note \in {"gate", "schema"}
                        /\ Fresh' <=> type = "VERIFICATION_PASS" /\ note = "gate"
<1>1. /\ pc \in {"approved", "dispatching"} /\ pc' = "dispatching"
      /\ ActStep /\ SessionTypeOK
  BY ActRuns DEF RunAct, Go, TurnInv, SessionInv
<1>0. UNCHANGED <<steps, state>>
  <2>1. CASE DispatchStart(Act)
    BY <1>1, <2>1, ActIsCalled DEF CallTool, AppendEvent, ActStep
  <2>2. CASE DispatchContinue
    BY <1>1, <2>2
    DEF DispatchContinue, AttachGuard, RefuseScope, HandlerRaises, HandlerReturns,
        SchemaFails, SchemaRejects, GateWrites, GateAttaches, AttachEvent, AppendEvent,
        GovernanceAppend, ActStep
  <2> QED BY <2>1, <2>2 DEF RunAct
<1>2. CASE pc = "dispatching" /\ log' = log
  BY <1>0, <1>1, <1>2, Standing DEF ActStep, Fresh
<1>3. ASSUME NEW type \in DispatchEvents, NEW note \in DispatchNotes,
             log' = Append(log, Entry(type, Agent, note)), ActWrites(type, note)
      PROVE  /\ ~ Fresh
             /\ log' = Append(log, [type |-> type, agent |-> Agent,
                                    turn |-> steps[Agent], note |-> note])
             /\ type = "VERIFICATION_PASS" => note = "gate"
             /\ type \in {"VERIFICATION_FAIL", "GATE_REJECTION"} => note \in {"gate", "schema"}
             /\ Fresh' <=> type = "VERIFICATION_PASS" /\ note = "gate"
  <2>1. note \in Notes /\ type \in EventTypes /\ steps' = steps
    BY <1>1, WritesAssumption, WorkEventsAssumption DEF ActStep
  <2>2. /\ Entry(type, Agent, note)
               = [type |-> type, agent |-> Agent, turn |-> steps[Agent], note |-> note]
        /\ At(type, note)'
    BY <1>1, <1>3, <2>1, Written
  <2>3. ~ Fresh
    BY <1>3 DEF ActWrites, Fresh, At
  <2>4. Fresh' <=> type = "VERIFICATION_PASS" /\ note = "gate"
    BY <1>1, <2>2 DEF Fresh, At
  <2>5. /\ type = "VERIFICATION_PASS" => note = "gate"
        /\ type \in {"VERIFICATION_FAIL", "GATE_REJECTION"} => note \in {"gate", "schema"}
    BY <1>3 DEF ActWrites
  <2> QED BY <1>3, <2>2, <2>3, <2>4, <2>5
<1> QED BY <1>0, <1>1, <1>2, <1>3 DEF ActStep

\* A dispatch that is over executed just when its result is fresh.
LEMMA ActEnds ==
    ASSUME TurnInv, ActReturned
    PROVE  /\ Fresh <=> Executed
           /\ Executed \/ \/ At("TOOL_RESULT", "raised")
                          \/ At("GATE_REJECTION", "schema") \/ At("GATE_REJECTION", "gate")
<1>1. pc = "dispatching" /\ dpc = "idle" /\ OnDispatch
  BY DEF TurnInv, ActReturned
<1> QED BY <1>1 DEF OnDispatch, Fresh, At
====
