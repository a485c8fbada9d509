---- MODULE InputFirewall ----
(***************************************************************************)
(* orchestrator/firewall.py: what is sent to a model in place of the       *)
(* records of a case.  A text is its positions; a pattern's matches in it  *)
(* are disjoint and not empty, as finditer gives them; what is sent is a   *)
(* sequence of pieces, by the positions they stand for.  The fence, the    *)
(* nonce and the escaping of line breaks are left out.                     *)
(***************************************************************************)
EXTENDS Integers, SequencesExt, Ranking

\* CaseRecord, its text unread.
Record(id, length) == [id |-> id, length |-> length]

\* A signal covers offset + 1 .. offset + length of its record's text.
Signal(record, pattern, offset, length) ==
    [record |-> record, pattern |-> pattern, offset |-> offset, length |-> length]
EndOf(signal) == signal.offset + signal.length
Covered(signal) == signal.offset + 1 .. EndOf(signal)
SignalsIn(record) ==
    {s \in [record : {record.id}, pattern : Nat, offset : Nat, length : Nat \ {0}] :
        EndOf(s) <= record.length}

\* scan: the signals of all patterns, by position.
Earlier(a, b) == a.offset < b.offset \/ (a.offset = b.offset /\ a.length > b.length)
Precedes(a, b) == Earlier(a, b) \/ (~Earlier(b, a) /\ a.pattern < b.pattern)
InOrder(signals) == Ranked(signals, {p \in signals \X signals : Precedes(p[1], p[2])})

\* wrong variant: the later match decides where a merged span ends
ExtendTo(span, signal) == [span EXCEPT !.length = EndOf(signal) - span.offset]
Extend(span, signal) == [span EXCEPT !.length = Max({EndOf(span), EndOf(signal)}) - span.offset]

\* What a match makes of the spans before it.
Merge(spans, s) ==
    IF spans # <<>> /\ s.offset <= EndOf(spans[Len(spans)])
    THEN [spans EXCEPT ![Len(spans)] = Extend(@, s)]
    ELSE Append(spans, s)

Merged(ordered) ==
    LET merged[n \in 0 .. Len(ordered)] == IF n = 0 THEN <<>> ELSE Merge(merged[n - 1], ordered[n])
    IN merged
MergeSpans(signals) == LET ordered == InOrder(signals) IN Merged(ordered)[Len(ordered)]

\* A piece of what is sent: a part of the text, or a marker in place of a span.
Text(from, to) == [kind |-> "text", from |-> from, to |-> to]
Marker(span) == [kind |-> "marker", span |-> span]

\* _redact: the parts of the text between the spans, and a marker for each span.
Pieces(length, spans) ==
    LET Until(i) == IF i = 0 THEN 0 ELSE EndOf(spans[i])
        From(i) == IF i > Len(spans) THEN length ELSE spans[i].offset
    IN [n \in 1 .. 2 * Len(spans) + 1 |->
          IF n % 2 = 0 THEN Marker(spans[n \div 2]) ELSE Text(Until(n \div 2), From((n \div 2) + 1))]
Redact(length, signals) == Pieces(length, MergeSpans(signals))

(***************************************************************************)
(* A batch of records.                                                     *)
(***************************************************************************)
\* InertBlock.wrap refuses two records of one id.
Wraps(records) == \A i, j \in DOMAIN records : records[i].id = records[j].id => i = j

SignalsOf(signals, id) == {s \in signals : s.record = id}

\* render_redacted: what is sent of each record, in the order they came.
RenderRedacted(records, signals) ==
    [i \in DOMAIN records |->
        [id |-> records[i].id,
         text |-> Redact(records[i].length, SignalsOf(signals, records[i].id))]]
====
