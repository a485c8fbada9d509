---- MODULE PageMarkup ----
(***************************************************************************)
(* What the tags of a page say of its callouts, told by counting them and  *)
(* not by a parser: which callbacks are heard, which begin a callout and   *)
(* which stand in one.  The words of a page are told apart by it.          *)
(***************************************************************************)
EXTENDS Integers, FiniteSets, PolicyText

CONSTANT Boxed      \* the words the pages write inside a callout, and nowhere else

Tagged(tokens, event, tags) == {i \in DOMAIN tokens : tokens[i].event = event /\ tokens[i].tag \in tags}

\* How many elements more have started than ended, up to each callback.
Depth(starts, ends, n) ==
    [k \in 0 .. n |-> Cardinality({i \in starts : i <= k}) - Cardinality({i \in ends : i <= k})]

\* A callback is heard unless an ignored element has started before it and not
\* ended.  An end with nothing to end counts for nothing after it.
IgnoredDepth(tokens) == Depth(Tagged(tokens, "start", Ignored), Tagged(tokens, "end", Ignored), Len(tokens))
Heard(tokens) ==
    LET depth == IgnoredDepth(tokens)
    IN {i \in DOMAIN tokens : \A j \in 0 .. i : depth[i] <= depth[j]}

HeardTags(tokens, event, tags) == Tagged(tokens, event, tags) \cap Heard(tokens)
HeadingStarts(tokens) == HeardTags(tokens, "start", Headings)
HeadingEnds(tokens) == HeardTags(tokens, "end", Headings)
DivDepth(tokens) == Depth(HeardTags(tokens, "start", {"div"}), HeardTags(tokens, "end", {"div"}), Len(tokens))

\* A callout is a div marked as one, after some heading; it lasts until its own
\* div is closed.
Callouts(tokens) ==
    LET starts == HeadingStarts(tokens)
    IN {a \in HeardTags(tokens, "start", {"div"}) : tokens[a].aside /\ \E h \in starts : h < a}
Lasts(depth, a, i) == \A k \in a .. i : depth[a] <= depth[k]
InsideOne(callouts, depth, i) == \E a \in callouts : a < i /\ Lasts(depth, a, i)

\* No heading holds a callout.
HeadingsHoldNone(starts, ends, callouts) ==
    \A h \in starts, a \in callouts : h < a => \E e \in ends : h < e /\ e < a

\* The words heard in a callout are boxed ones, and none heard elsewhere after
\* a heading is.
WellMarked(tokens) ==
    LET starts == HeadingStarts(tokens)
        callouts == Callouts(tokens)
        depth == DivDepth(tokens)
    IN /\ HeadingsHoldNone(starts, HeadingEnds(tokens), callouts)
       /\ \A i \in Heard(tokens) : tokens[i].event = "data" =>
             IF InsideOne(callouts, depth, i) THEN Range(tokens[i].words) \subseteq Boxed
             ELSE (\E h \in starts : h < i) => Range(tokens[i].words) \cap Boxed = {}
====
