---- MODULE MCSingleTurns ----
(***************************************************************************)
(* Two items of one class and one of another, tokens for about five calls  *)
(* of the six an evaluation makes; three channels and six data sets for    *)
(* the queue, which holds two.                                             *)
(***************************************************************************)
EXTENDS SingleTurns

CONSTANT single_agent

OneAgent == {single_agent}
OneStep == single_agent :> 1
SomeTokens == single_agent :> 6
Table == "produce" :> [consequence |-> "observe", required |-> {}, handler |-> TRUE]
SingleMandate == single_agent :> [tools |-> {"produce"}, scopes |-> {}, ceiling |-> "observe"]
ProduceProposal == [agent |-> single_agent, tool |-> "produce", scopes |-> {}]
OneProposal == {ProduceProposal}
TurnNotes == DispatchNotes \cup {"rationales", "queue", "verdict"}

ThreeLabels == <<"spam", "spam", "benign">>
HalfOfAClass == <<1, 2>>
ATenth == <<1, 10>>

Owners == <<11, 12, 13>>
Hint(subject, what, value, day) == [subject |-> subject, kind |-> what, value |-> value, day |-> day]

Platform(hints, commenters, templated, undisclosed, posted) ==
    [hints |-> hints, commenters |-> commenters, templated |-> templated,
     undisclosed |-> undisclosed, posted |-> posted]

Ring == {Hint(21, "shared_device", "x", 1), Hint(22, "shared_device", "x", 2)}
Reuse == {Hint(21, "link_domain_reuse", "y", 1)}
Slow == <<1, 40, 80>>
Fast == <<20, 30, 44, 45>>

\* A ring commenting on one channel and half of it on another; a severe channel
\* nobody comments on against milder ones that burst; templates; nothing at all.
SixPlatforms ==
    {Platform(Ring, <<{21, 22}, {21}, {}>>, {}, {2}, <<Slow, Fast, <<>>>>),
     Platform(Ring \cup Reuse, <<{21}, {21, 22}, {22}>>, {3}, {}, <<<<>>, Slow, Fast>>),
     Platform({Hint(13, "link_domain_reuse", "y", 1), Hint(1, "shared_ip_bucket", "z", 1),
               Hint(12, "shared_ip_bucket", "z", 2)},
              <<{}, {}, {}>>, {}, {}, <<Fast, Slow, <<>>>>),
     Platform({Hint(13, "shared_upload_pattern", "y", 1)}, <<{}, {}, {}>>, {1, 2}, {1}, <<Slow, Fast, Slow>>),
     Platform({}, <<{21}, {21}, {}>>, {2}, {1, 3}, <<Fast, <<>>, <<>>>>),
     Platform({}, <<{}, {}, {}>>, {}, {1, 2}, <<Fast, Fast, Fast>>)}
====
