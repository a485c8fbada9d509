---- MODULE TriageTurn ----
(***************************************************************************)
(* A triage session: run_triage_turn of orchestrator/triage_turn.py, with  *)
(* the queue its tool builds (orchestrator/detection_stub.py,              *)
(* triage_tool.py, agents/triage/scorer.py) and the check of what the      *)
(* agent says about each case (rationale_check.py).  The queue is made     *)
(* first and stands whatever the model does.                               *)
(*                                                                         *)
(* Component values are counts out of Unit, which every divisor divides.   *)
(***************************************************************************)
EXTENDS AgentTurn, SequencesExt, Ranking

CONSTANTS
    Channels,       \* channel ids, as numbers in the order of their names
    OwnerOf,        \* channel |-> the account that owns it
    Platforms,      \* bound: the observable data sets explored
    QueueLimit,     \* DEFAULT_QUEUE_LIMIT, the ceiling of the limit
    Sealed          \* an id no row offers

VARIABLES
    platform,   \* what the detector can see
    queue,      \* RankedQueue rows, [case, subject, rationale], or <<>> with no queue
    delivered,  \* whether there is a queue
    said        \* case |-> what its rationale cited, once the model answered

triageVars == <<platform, queue, delivered, said>>

Unit == 120
Share(count, cap) == IF count >= cap THEN Unit ELSE (count * Unit) \div cap

SignalSeverity ==
    [link_domain_reuse |-> 10, shared_device |-> 8, shared_ip_bucket |-> 6,
     template_reuse |-> 5, shared_upload_pattern |-> 4]
InboundFloor == 2
SpreadCap == 12
RecidivismCap == 4
Day == 24

\* What a data set's schema says: signals are of the kinds there are.
ASSUME TriageAssumption ==
    /\ Channels \subseteq Nat /\ IsFiniteSet(Channels) /\ QueueLimit \in Nat
    /\ \A p \in Platforms :
           /\ IsFiniteSet(p.hints)
           /\ \A h \in p.hints : h.kind \in DOMAIN SignalSeverity
           /\ \A c \in Channels : IsFiniteSet(p.commenters[c]) /\ p.posted[c] \in Seq(Nat)

(***************************************************************************)
(* build_flagged_queue.                                                    *)
(***************************************************************************)
Own(c) == {c, OwnerOf[c]}
ValuesOf(subjects) == {<<h.kind, h.value>> : h \in {h \in platform.hints : h.subject \in subjects}}
HintsOf(values) == {h \in platform.hints : <<h.kind, h.value>> \in values}

Sharers(c, value) == {a \in platform.commenters[c] : value \in ValuesOf({a})}

\* wrong variant: one commenting account is enough
InboundOfOne(c) == ValuesOf(platform.commenters[c])
Inbound(c) ==
    {value \in ValuesOf(platform.commenters[c]) : Cardinality(Sharers(c, value)) >= InboundFloor}
Pattern(c) == ValuesOf(Own(c)) \cup Inbound(c)

IsFlagged(c) == Pattern(c) # {} \/ c \in platform.templated

Severity(c) ==
    Max({SignalSeverity[value[1]] : value \in Pattern(c)}
        \cup (IF c \in platform.undisclosed THEN {3} ELSE {})
        \cup (IF c \in platform.templated THEN {5} ELSE {}))

Peers(c) == {h.subject : h \in HintsOf(Pattern(c))} \ Own(c)
Days(c) == {h.day : h \in HintsOf(Pattern(c))}
DaysAgain(c) == IF Days(c) = {} THEN 0 ELSE Cardinality(Days(c)) - 1

\* The most comments in any window of a day, both ends included.
Burst(times) ==
    Max({Cardinality({j \in DOMAIN times : times[j] \in times[i] .. times[i] + Day}) : i \in DOMAIN times})

Velocity(times) == IF times = <<>> THEN 0 ELSE Share(Burst(times), Len(times))

Priority(c) ==
    40 * Severity(c) * (Unit \div 10)
    + 25 * Share(Cardinality(Peers(c)), SpreadCap)
    + 20 * Velocity(platform.posted[c])
    + 15 * Share(DaysAgain(c), RecidivismCap)

Foremost(flagged, n) == SubSeq(flagged, 1, IF n < Len(flagged) THEN n ELSE Len(flagged))

Suspects == {c \in Channels : IsFlagged(c)}
BySeverity ==
    {p \in Suspects \X Suspects :
        \/ Severity(p[1]) > Severity(p[2])
        \/ Severity(p[1]) = Severity(p[2]) /\ p[1] < p[2]}

\* Ordered by severity, and only then cut: case ids are places in this order.
FlaggedQueue == Foremost(Ranked(Suspects, BySeverity), QueueLimit)

\* rank_triage_queue: by priority, then by case id.
ByPriority(flagged) ==
    {p \in (DOMAIN flagged) \X (DOMAIN flagged) :
        \/ Priority(flagged[p[1]]) > Priority(flagged[p[2]])
        \/ Priority(flagged[p[1]]) = Priority(flagged[p[2]]) /\ p[1] < p[2]}
RankOrder(flagged) == Ranked(DOMAIN flagged, ByPriority(flagged))
RankedQueue ==
    LET flagged == FlaggedQueue
        order == RankOrder(flagged)
    IN  [r \in DOMAIN order |->
            [case |-> order[r], subject |-> flagged[order[r]], rationale |-> FALSE]]

(***************************************************************************)
(* verify_rationales: a case's line against that row's own component ids.  *)
(***************************************************************************)
Cases == {queue[r].case : r \in DOMAIN queue}

\* wrong variant: any row's ids resolve
ResolvableInBatch(case) == Cases
ResolvableFor(case) == {case}

Accepted(case) == said[case] # {} /\ said[case] \subseteq ResolvableFor(case)
AllPassed == \A case \in Cases : Accepted(case)

(***************************************************************************)
(* The turn.                                                               *)
(***************************************************************************)
BeginTriage == BeginAttemptAt("approved")

\* wrong variant: a turn without a queue ends as if there was nothing to rank
NoQueueReason == "none"
NoQueue == DispatchError

QueueBuilt ==
    /\ ActReturned
    /\ IF Executed
       THEN /\ queue' = RankedQueue /\ delivered' = TRUE
            /\ Go("prompt") /\ UNCHANGED sessionVars
       ELSE /\ BackToOpen
            /\ pc' = "ended" /\ broke' = NoQueue
            /\ UNCHANGED <<limit, attempt, queue, delivered>>
    /\ SessionOnly
    /\ UNCHANGED <<platform, said>>

\* A line for a case no row has is dropped, a case without one cites nothing.
RationalesRead ==
    /\ pc = "checking"
    /\ said' \in [Cases -> SUBSET (Cases \cup {Sealed})]
    /\ Go("reviewing")
    /\ UNCHANGED <<allDispatchVars, platform, queue, delivered>>

RationalesChecked ==
    /\ pc = "reviewing"
    /\ AppendEvent(IF AllPassed THEN "VERIFICATION_PASS" ELSE "VERIFICATION_FAIL", Agent, "rationales")
    /\ queue' = [r \in DOMAIN queue |->
                    [queue[r] EXCEPT !.rationale = Accepted(queue[r].case)]]
    /\ Go("judged")
    /\ SessionOnly
    /\ UNCHANGED <<platform, delivered, said>>

\* OUTPUT_PROPOSED, then end_turn.
QueueProposed ==
    /\ \/ pc = "judged" /\ AppendEvent("OUTPUT_PROPOSED", Agent, "queue") /\ Go("accepted")
       \/ pc = "accepted" /\ BackToOpen /\ Go("ended")
    /\ SessionOnly
    /\ UNCHANGED triageVars

TriageInit ==
    /\ platform \in Platforms
    /\ queue = <<>>
    /\ delivered = FALSE
    /\ said = <<>>

TriageStep ==
    \/ QueueBuilt \/ RationalesRead \/ RationalesChecked \/ QueueProposed
    \/ /\ \/ OpenSession \/ BeginTriage \/ RunAct \/ AskModel \/ ModelResponds
          \/ ModelUnavailable \/ CloseSession
       /\ UNCHANGED triageVars

(***************************************************************************)
(* Properties.                                                             *)
(***************************************************************************)
\* The queue an analyst gets is the one the chain shows its tool deliver, and
\* without one the agent saw no case and the session is no success.  A prompt
\* is only about rows that exist; what the agent said is kept on the row it is
\* about, and only if it rests on that very row's evidence; the chain calls the
\* rationales verified only if every row kept one.
TriageIsWhatTheChainShows ==
    pc \in {"ended", "closing", "done"} =>
        /\ delivered <=> Wrote("VERIFICATION_PASS", "gate", 1)
        /\ ~ delivered => broke = DispatchError /\ ~ Wrote("PROMPT_SENT", "none", 1)
        /\ Wrote("OUTPUT_PROPOSED", "queue", 1) <=> delivered /\ broke = "none"
        /\ Wrote("VERIFICATION_PASS", "rationales", 1) =>
               \A r \in DOMAIN queue : queue[r].rationale
        /\ \A r \in DOMAIN queue : queue[r].rationale =>
               /\ Wrote("OUTPUT_PROPOSED", "queue", 1)
               /\ \A id \in said[queue[r].case] :
                      \E q \in DOMAIN queue : queue[q].case = id /\ queue[q].subject = queue[r].subject

\* The queue can be explained from what the platform shows: nobody is on it for
\* the company of a single commenter, nobody flagged is left off it for one
\* less severe, and the rows are in the order of their priorities.
QueueIsExplainable ==
    LET subjects == {queue[r].subject : r \in DOMAIN queue}
    IN  /\ \A c \in subjects :
               \/ c \in platform.templated
               \/ \E h \in platform.hints : h.subject \in Own(c)
               \/ \E g, h \in platform.hints :
                      /\ g.subject # h.subject /\ {g.subject, h.subject} \subseteq platform.commenters[c]
                      /\ g.kind = h.kind /\ g.value = h.value
        /\ delivered => \A c \in Channels \ subjects :
               IsFlagged(c) => \A d \in subjects : Severity(d) >= Severity(c)
        /\ \A r \in 2 .. Len(queue) : Priority(queue[r].subject) <= Priority(queue[r - 1].subject)
====
