---- MODULE AuditTrail ----
(***************************************************************************)
(* What an auditor may rely on when reading the chain of an evidence       *)
(* session, and all an evidence session promises about it: the trail only  *)
(* grows, it opens and closes once, every hop is one prompt of its own     *)
(* step, a proposal is judged before the analyst is asked, only an         *)
(* approved proposal is followed by a tool call, and a hop that broke is   *)
(* the last one.  No budgets, no session states, no model, no pack.        *)
(***************************************************************************)
EXTENDS Integers, Sequences

CONSTANTS
    Agent,      \* whose hops they are
    Nobody,     \* the orchestrator, who opens and closes
    Tool,       \* what an approved hop runs
    Reasons     \* why a session may end

VARIABLE trail      \* the entries, each [type, agent, turn, note]

Last == trail[Len(trail)]
Turn == Last.turn
NextTurn == Turn + 1

LastIs(type, notes) ==
    /\ trail # <<>>
    /\ Last.type = type
    /\ Last.note \in notes

\* Nothing is underway: the next hop may start, or the session may end.
BetweenHops ==
    \/ LastIs("SESSION_OPEN", {"none"})
    \/ LastIs("VERIFICATION_FAIL", {"proposal"})
    \/ LastIs("HUMAN_DECISION", {"reject"})
    \/ LastIs("VERIFICATION_PASS", {"gate"})

\* The hop broke: nothing but the end of the session may follow.
Broken ==
    \/ LastIs("VERIFICATION_FAIL", {"adapter"})
    \/ LastIs("TOOL_RESULT", {"raised"})
    \/ LastIs("GATE_REJECTION", {"schema", "gate"})

Write(type, note, agent, turn) ==
    trail' = Append(trail, [type |-> type, agent |-> agent, turn |-> turn, note |-> note])

\* The agent's entries within a hop all carry that hop's step.
Note(type, note) == Write(type, note, Agent, Turn)

Open == trail = <<>> /\ Write("SESSION_OPEN", "none", Nobody, 0)

Ask == BetweenHops /\ Write("PROMPT_SENT", "none", Agent, NextTurn)

Judge ==
    /\ LastIs("PROMPT_SENT", {"none"})
    /\ \/ Note("VERIFICATION_FAIL", "adapter")
       \/ Note("VERIFICATION_FAIL", "proposal")
       \/ Note("VERIFICATION_PASS", "proposal")

Decide ==
    /\ LastIs("VERIFICATION_PASS", {"proposal"})
    /\ \E decision \in {"approve", "reject"} : Note("HUMAN_DECISION", decision)

Run ==
    /\ LastIs("HUMAN_DECISION", {"approve"})
    /\ Note("TOOL_CALLED", Tool)

Return ==
    /\ trail # <<>>
    /\ Last.type = "TOOL_CALLED"
    /\ \E how \in {"ok", "raised"} : Note("TOOL_RESULT", how)

Gate ==
    \/ /\ LastIs("TOOL_RESULT", {"ok"})
       /\ \/ Note("VERIFICATION_PASS", "gate")
          \/ Note("VERIFICATION_FAIL", "gate")
          \/ Note("VERIFICATION_FAIL", "schema")
    \/ /\ LastIs("VERIFICATION_FAIL", {"gate", "schema"})
       /\ Note("GATE_REJECTION", Last.note)

Close ==
    /\ BetweenHops \/ Broken
    /\ \E reason \in Reasons :
           /\ Broken => reason = "dispatch_error"
           /\ Write("SESSION_CLOSE", reason, Nobody, 0)

TrailInit == trail = <<>>
TrailNext == Open \/ Ask \/ Judge \/ Decide \/ Run \/ Return \/ Gate \/ Close
TrailSpec == TrailInit /\ [][TrailNext]_trail
====
