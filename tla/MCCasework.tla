---- MODULE MCCasework ----
(***************************************************************************)
(* Two channels, three accounts and a video, where one account is met by   *)
(* every pivot and shares two values of one infrastructure signal; pages   *)
(* of up to three blocks, one of each shape that can open, close or break  *)
(* a section; batches of two records of two and three positions.  An       *)
(* excerpt has two or three words instead of four to fifteen.              *)
(***************************************************************************)
EXTENDS Casework

CONSTANT none

\* Channels 10 and 20, accounts 1 to 3, video 30.
TwoChannels ==
    [owner |-> 10 :> 1 @@ 20 :> 2,
     channelOf |-> 30 :> 10,
     fields |-> {1, 2},
     meta |-> 1 :> (1 :> none @@ 2 :> 7) @@ 2 :> (1 :> none @@ 2 :> 7) @@ 3 :> (1 :> 8 @@ 2 :> 7),
     comments |-> {[id |-> 1, account |-> 3, video |-> 30, at |-> 1],
                   [id |-> 2, account |-> 3, video |-> 30, at |-> 2],
                   [id |-> 3, account |-> 2, video |-> 30, at |-> 3]},
     engagements |-> {[id |-> 1, account |-> 3, target |-> 30, kind |-> 1],
                      [id |-> 2, account |-> 3, target |-> 10, kind |-> 2],
                      [id |-> 3, account |-> 2, target |-> 10, kind |-> 2]},
     hints |-> {[id |-> 1, subject |-> 10, type |-> 1, value |-> 5],
                [id |-> 2, subject |-> 10, type |-> 1, value |-> 6],
                [id |-> 3, subject |-> 3, type |-> 1, value |-> 5],
                [id |-> 4, subject |-> 3, type |-> 1, value |-> 6],
                [id |-> 5, subject |-> 20, type |-> 1, value |-> 5]}]

\* Channel 10 and two of its accounts, with a comment no pack can hold.
Label(entity, what, ring) == [entity |-> entity, kind |-> what, ring |-> ring]
TwoRings ==
    {Label(10, "channel", 1), Label(1, "account", 1), Label(3, "account", 1), Label(101, "comment", 1),
     Label(30, "video", none), Label(20, "channel", 2), Label(2, "account", 2)}

ParamBounds ==
    [limit |-> [least |-> 1, most |-> 3], floor |-> [least |-> 1, most |-> 2],
     anchor |-> [least |-> 0, most |-> 3], window |-> [least |-> 1, most |-> 2]]
ParamInputs ==
    [entity |-> {99}, choice |-> {0, 2}, limit |-> {1, 3, 4}, floor |-> {1}, anchor |-> {1}, window |-> {1}]

(***************************************************************************)
(* Blocks of a page, as the parser's callbacks.                            *)
(***************************************************************************)
Open(tag) == [event |-> "start", tag |-> tag, aside |-> FALSE]
OpenBox == [event |-> "start", tag |-> "div", aside |-> TRUE]
Close(tag) == [event |-> "end", tag |-> tag]
Words(words) == [event |-> "data", words |-> words]

Prose(words) == <<Open("p"), Words(words), Close("p")>>
Heading(words) == <<Open("h2"), Words(words), Close("h2")>>
Titled(words) == Heading(words) \o Prose(<<"no", "fake", "views", "here">>)
Item(label, words) ==
    <<Open("li"), Open("b"), Words(label), Close("b"), Words(words), Close("li")>>

Blocks ==
    {Titled(<<"Spam">>),
     Titled(<<"Spam", "!">>),
     Titled(<<"Spam", "2">>),
     Titled(<<"!">>),
     Heading(<<>>),
     Titled(<<"Help">>),
     Item(<<"Links">>, <<"no", "bad", "links">>),
     Item(<<"Links">>, <<>>),
     Item(<<>>, <<"plain", "bullet">>),
     <<Open("li"), Open("b"), Words(<<"Outer">>), Close("b"), Words(<<"one">>)>>
        \o Item(<<"Example">>, <<"two">>) \o <<Close("li")>>,
     <<Open("li"), Words(<<"never", "closed">>)>>,
     <<Open("script"), Words(<<"code">>), Close("script")>>,
     <<OpenBox, Words(<<"tip">>), Open("div"), Words(<<"box">>), Close("div"), Words(<<"box", "tip">>), Close("div")>>,
     <<OpenBox, Open("li"), Words(<<"box", "box", "tip">>), Close("li"), Close("div")>>,
     <<OpenBox, Words(<<"box", "box">>), Close("div")>>,
     Prose(<<"stop">>)}

OneTitle == <<[match |-> "tip", heading |-> <<"Tip">>]>>

\* The operator names the callouts of a page, or says that it has none.
Page(blocks, titles) == [tokens |-> FlattenSeq(blocks), titles |-> titles, response |-> "html"]
FetchedPages ==
    {Page(blocks, titles) : blocks \in UNION {[1 .. n -> Blocks] : n \in 0 .. 3}, titles \in {<<>>, OneTitle}}
    \cup {[tokens |-> <<>>, titles |-> <<>>, response |-> r] : r \in {"not_found", "too_small"}}
PagesWritten ==
    {Page(<<Titled(<<"Spam">>), Item(<<"Links">>, <<"no", "bad", "links">>)>>, <<>>)}

BoxedWords == {"tip", "box"}
Dropped1 == {<<"Help">>}

Clauses(doc, heading, text) ==
    [doc |-> doc, clauses |-> <<[anchor |-> heading, heading |-> heading, text |-> text]>>]
OtherDoc == Clauses("other", <<"Scams">>, <<"no", "scams">>)
NewOtherDoc == Clauses("other", <<"Scams">>, <<"no", "new", "scams">>)
Directory0 == <<Clauses("spam", <<"Spam">>, <<"no", "old", "fake">>), OtherDoc>>

(***************************************************************************)
(* Responses.                                                              *)
(***************************************************************************)
Line(kind, parts) == [kind |-> kind, parts |-> parts]
Citing(ids) == [text |-> <<Says("because")>> \o [i \in DOMAIN ids |-> Cites(ids[i])]]
Fact(ids) == Line("FACT", <<Citing(ids)>>)
Anchor(anchor) == [anchor |-> anchor]
Excerpt(excerpt) == [excerpt |-> excerpt]
Ground(anchor, excerpt) == Line("GROUND", <<Anchor(anchor), Excerpt(excerpt), Citing(<<>>)>>)
Measure(value) == Line("MEASURE", <<[text |-> <<Says(value)>>]>>)
Redress == Line("REDRESS", <<Citing(<<>>)>>)
Chatter == Line("", <<Citing(<<>>)>>)
Bare(kind) == Line(kind, <<>>)

ResponsesOn(docs, gathered) ==
    LET subject == Head(gathered.order)
        facts == {<<>>, <<NodeId(subject)>>, <<NodeId(Last(gathered.order)), ProvenanceId(Hops(gathered))>>,
                  <<Edge("owns_channel", 1, 10, 0)>>, <<ProvenanceId(MaxHops + 1)>>}
        grounds == {Ground(<<"Spam">>, <<"no", "fake">>), Ground(<<"Spam">>, <<"fake", "views">>),
                    Ground(<<"Spam">>, <<"old", "fake">>), Ground(<<"Spam">>, <<"fake", "no">>),
                    Ground(<<"Scams">>, <<"no", "scams">>), Ground(<<"Scams">>, <<"new", "scams">>),
                    Ground(<<"Scams">>, <<"no">>),
                    Ground(<<"Elsewhere">>, <<"no", "scams">>)}
        accepted == {Ground(<<"Spam">>, <<"no", "fake">>), Ground(<<"Scams">>, <<"no", "scams">>)}
        odd == {Line("GROUND", <<Anchor(<<"Scams">>), Citing(<<ProvenanceId(0)>>)>>),
                Line("GROUND", <<Excerpt(<<"no", "scams">>), Citing(<<>>)>>),
                Line("GROUND", <<Anchor(<<"Scams">>), Excerpt(<<"no", "scams">>)>>),
                Line("GROUND", <<Excerpt(<<"new", "scams">>), Citing(<<ProvenanceId(9)>>), Anchor(<<"Scams">>)>>),
                Line("GROUND", <<Anchor(<<"Spam">>), Excerpt(<<"no", "scams">>),
                                 Citing(<<NodeId(subject)>>), Anchor(<<"Scams">>)>>),
                Chatter, Bare("GROUND")}
    IN {<<Fact(f), g, Measure("remove"), Redress>> : f \in facts, g \in grounds}
       \cup {<<Fact(<<NodeId(subject)>>), g, h, Measure("remove"), Redress>> :
                g \in accepted, h \in grounds \cup odd}
       \cup {<<Fact(<<NodeId(subject)>>), g, Measure("shrug"), Redress>> : g \in grounds}
       \cup {<<Chatter, Fact(<<NodeId(subject)>>), g, Bare("FACT"), Measure("shrug"), Measure("remove"), Redress>> :
                g \in odd}
       \cup {<<>>, <<Chatter>>, <<Fact(<<NodeId(subject)>>), Measure("remove"), Redress>>,
             <<Fact(<<NodeId(subject)>>), Bare("GROUND"), Measure("remove"), Redress>>}

(***************************************************************************)
(* Batches, and all matches of two patterns in each of their texts.        *)
(***************************************************************************)
TwoRecords == {<<Record(1, 3), Record(2, 2)>>, <<Record(1, 2), Record(1, 2)>>}

MatchesOf(pattern, record) ==
    LET all == {Signal(record.id, pattern, o, l) : o \in 0 .. record.length, l \in 1 .. record.length}
        inside == {s \in all : EndOf(s) <= record.length}
    IN {m \in SUBSET inside : \A a, b \in m : a = b \/ Covered(a) \cap Covered(b) = {}}
TwoPatternsIn(record) == {a \cup b : a \in MatchesOf(1, record), b \in MatchesOf(2, record)}
FoundIn(records) ==
    {a \cup b : a \in TwoPatternsIn(records[1]), b \in TwoPatternsIn(records[2])}
====
