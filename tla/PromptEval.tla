---- MODULE PromptEval ----
(***************************************************************************)
(* A prompt evaluation: run_prompt_eval_turn of orchestrator/              *)
(* prompt_eval_turn.py, the grading behind its one tool (eval_labels.py,   *)
(* prompt_eval.py) and the decision of regression_gate.py.  Within one     *)
(* granted step the model classifies every item under the incumbent prompt *)
(* and then every item under the candidate, on one token budget.           *)
(*                                                                         *)
(* A bootstrap's lower bound is any mean a resample can have, up to the    *)
(* observed one; counts stand for the ratios, Scale for their denominators.*)
(***************************************************************************)
EXTENDS AgentTurn

CONSTANTS
    ItemCount,      \* items of the eval set
    Classes,        \* ThreatClass
    LabelOf,        \* the sealed label of each item
    RecallDrop,     \* Tolerances.recall_drop, <<numerator, denominator>>
    MacroDrop,      \* Tolerances.macro_f1_drop, likewise
    MaxUnparseable, \* Tolerances.max_unparseable
    Scale,          \* a common multiple of the denominators of F1
    Unanswered      \* predicted = None

EvalItems == 1 .. ItemCount
Versions == {"incumbent", "candidate"}

ASSUME EvalAssumption ==
    /\ ItemCount \in Nat \ {0}
    /\ IsFiniteSet(Classes)
    /\ LabelOf \in [EvalItems -> Classes] /\ Unanswered \notin Classes
    /\ \A tolerance \in {RecallDrop, MacroDrop} : tolerance \in Nat \X (Nat \ {0})
    /\ MaxUnparseable \in Nat
    /\ Scale \in Nat /\ \A d \in 1 .. 2 * ItemCount : Scale % d = 0

VARIABLES
    asked,      \* how many items classify_items has been through, both versions
    answers,    \* the proposals of each version, in order
    bad,        \* unparseable, per version
    evalReport, \* the EvalReport, or NoEvalReport
    verdict     \* "activatable", "refused" or "none"

evalVars == <<asked, answers, bad, evalReport, verdict>>

NoEvalReport == [macro |-> <<>>]

(***************************************************************************)
(* Asking.                                                                 *)
(***************************************************************************)
Asking == IF asked < ItemCount THEN "incumbent" ELSE "candidate"

\* wrong variant: an item nobody classified leaves no proposal
ProposedIfAny(answer) ==
    IF answer = Unanswered THEN answers
    ELSE [answers EXCEPT ![Asking] = Append(@, answer)]
Proposed(answer) == [answers EXCEPT ![Asking] = Append(@, answer)]

Classified(answer) ==
    /\ asked' = asked + 1
    /\ answers' = Proposed(answer)
    /\ bad' = IF answer = Unanswered THEN [bad EXCEPT ![Asking] = @ + 1] ELSE bad
    /\ pc' = IF asked' = 2 * ItemCount THEN "approved" ELSE "prompt"
    /\ UNCHANGED <<limit, attempt, broke, sessionVars, evalReport, verdict>>
    /\ SessionOnly

\* parse_classification: one line naming a class, or nothing usable.
AnswerParsed == pc = "checking" /\ \E answer \in Classes \cup {Unanswered} : Classified(answer)

\* No response, for whatever reason: the item keeps its place, the step goes on.
AnswerMissing == pc = "unavailable" /\ Classified(Unanswered)

(***************************************************************************)
(* Grading: EvalLabelStore and build_report.                               *)
(***************************************************************************)
ItemsOf(class) == {k \in EvalItems : LabelOf[k] = class}
Support(class) == Cardinality(ItemsOf(class))
Measured == {class \in Classes : ItemsOf(class) # {}}

Hits(v, class) == {k \in ItemsOf(class) : answers[v][k] = class}
PredictedAs(v, class) == {k \in EvalItems : answers[v][k] = class}

F1(v, class) ==
    (2 * Cardinality(Hits(v, class)) * Scale)
        \div (Support(class) + Cardinality(PredictedAs(v, class)))
\* The sum of the classes' F1, counted point by point.
MacroF1(v) == Cardinality(UNION {{class} \X (1 .. F1(v, class)) : class \in Measured})

Lost(class) == Hits("incumbent", class) \ Hits("candidate", class)
Gained(class) == Hits("candidate", class) \ Hits("incumbent", class)
Change(class) == Cardinality(Gained(class)) - Cardinality(Lost(class))

\* The mean of a resample that drew the worst item every time.
WorstResample(class) ==
    IF Lost(class) # {} THEN - Support(class)
    ELSE IF Gained(class) = ItemsOf(class) THEN Support(class) ELSE 0

LowerBounds ==
    {lower \in [Measured -> - ItemCount .. ItemCount] :
        \A class \in Measured : lower[class] \in WorstResample(class) .. Change(class)}

BuildReport(lower) ==
    [macro |-> [v \in Versions |-> MacroF1(v)],
     lower |-> lower,
     change |-> [class \in Measured |-> Change(class)],
     bad |-> bad]

(***************************************************************************)
(* decide: every breach counts, and none is needed but one.                *)
(***************************************************************************)
\* wrong variant: the tolerance is taken of the whole eval set
RecallBreachedOverall(r, class) ==
    r.lower[class] * RecallDrop[2] < - RecallDrop[1] * ItemCount
RecallBreached(r, class) ==
    r.lower[class] * RecallDrop[2] < - RecallDrop[1] * Support(class)

MacroBreached(r) ==
    (r.macro["candidate"] - r.macro["incumbent"]) * MacroDrop[2]
        < - MacroDrop[1] * Scale * Cardinality(Measured)

ContractBroken(r) == r.bad["candidate"] > MaxUnparseable

Decide(r) ==
    IF MacroBreached(r) \/ ContractBroken(r) \/ \E class \in Measured : RecallBreached(r, class)
    THEN "refused" ELSE "activatable"

(***************************************************************************)
(* The turn around them.                                                   *)
(***************************************************************************)
EvalDispatched ==
    /\ ActReturned
    /\ BackToOpen
    /\ IF Executed
       THEN pc' = "graded" /\ \E lower \in LowerBounds : evalReport' = BuildReport(lower)
       ELSE pc' = "ended" /\ UNCHANGED evalReport
    /\ UNCHANGED <<limit, attempt, broke, asked, answers, bad, verdict>>
    /\ SessionOnly

VerdictEvent == IF Decide(evalReport) = "activatable" THEN "VERIFICATION_PASS" ELSE "GATE_REJECTION"

LedgerVerdict ==
    /\ pc = "graded"
    /\ AppendEvent(VerdictEvent, Agent, "verdict")
    /\ verdict' = Decide(evalReport)
    /\ Go("ended")
    /\ SessionOnly
    /\ UNCHANGED <<asked, answers, bad, evalReport>>

EvalInit ==
    /\ asked = 0
    /\ answers = [v \in Versions |-> <<>>]
    /\ bad = [v \in Versions |-> 0]
    /\ evalReport = NoEvalReport
    /\ verdict = "none"

EvalStep ==
    \/ AnswerParsed \/ AnswerMissing \/ EvalDispatched \/ LedgerVerdict
    \/ /\ OpenSession \/ BeginAttempt \/ AskModel \/ ModelResponds \/ RunAct \/ CloseSession
       /\ UNCHANGED evalVars

(***************************************************************************)
(* Properties.                                                             *)
(***************************************************************************)
WorkDone == pc \in {"ended", "closing", "done"}

UnansweredBy(v) == {k \in EvalItems : answers[v][k] = Unanswered}

\* The decision answers the question put to it, on the answers that came back:
\* nothing is activatable that lost more of a class than is tolerated or left
\* too many items unanswered, and a candidate that answered as the incumbent
\* did, item by item, is activatable whatever the tolerances.
VerdictFollowsTheAnswers ==
    /\ verdict = "activatable" =>
        /\ \A class \in Measured : - Change(class) * RecallDrop[2] <= RecallDrop[1] * Support(class)
        /\ Cardinality(UnansweredBy("candidate")) <= MaxUnparseable
    /\ verdict = "refused" =>
        \/ answers["candidate"] # answers["incumbent"]
        \/ Cardinality(UnansweredBy("candidate")) > MaxUnparseable

\* The entries of a kind, and the items a version has an answer to.
EntriesOf(type, note) == {i \in DOMAIN log : log[i].type = type /\ log[i].note = note}
GivenBy(v) == {<<v, k>> : k \in {k \in DOMAIN answers[v] : answers[v][k] # Unanswered}}
Given == GivenBy("incumbent") \cup GivenBy("candidate")

\* However many calls were refused or failed, both versions are graded on one
\* answer for each item in the items' order, and an answer was paid for by a
\* prompt on the chain that no failure follows.
AnswersArePaired ==
    asked = 2 * ItemCount =>
        /\ \A v \in Versions :
               /\ Len(answers[v]) = ItemCount
               /\ bad[v] = Cardinality(UnansweredBy(v))
        /\ Cardinality(Given) <= Cardinality(EntriesOf("PROMPT_SENT", "none"))
                                 - Cardinality(EntriesOf("VERIFICATION_FAIL", "adapter"))

\* A verdict is on the chain exactly when the tool's report was made, and is the
\* one returned; it was given to a report that passed its gate.
VerdictIsOnTheChain ==
    WorkDone =>
        /\ verdict = "activatable" <=> Wrote("VERIFICATION_PASS", "verdict", 1)
        /\ verdict = "refused" <=> Wrote("GATE_REJECTION", "verdict", 1)
        /\ verdict # "none" <=> Wrote("VERIFICATION_PASS", "gate", 1)
====
