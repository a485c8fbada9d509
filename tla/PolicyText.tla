---- MODULE PolicyText ----
(***************************************************************************)
(* From a fetched page to a document a memo can cite: data/policy_fetch.py *)
(* and data/policy_corpus.py.  A page is the sequence of the parser's      *)
(* callbacks, text is a sequence of words, and a digest is what it is a    *)
(* digest of.  Whitespace, entities and the colon after a label are left   *)
(* out.                                                                    *)
(***************************************************************************)
EXTENDS Naturals, Sequences, FiniteSets, SequencesExt, TLC, Ranking

CONSTANTS
    Dropped,        \* SectionFilter.drop_headings
    MinWords,       \* SectionFilter.min_words
    Punctuation     \* words a slug strips

(***************************************************************************)
(* _SectionParser.  headed and labelled say whether the heading and the    *)
(* label are there at all: an empty one is not an absent one.              *)
(***************************************************************************)
Ignored == {"script", "style", "noscript", "template", "svg"}
Headings == {"h1", "h2", "h3"}
Labels == {"strong", "b"}

Fresh ==
    [sections |-> <<>>, headed |-> FALSE, heading |-> <<>>, buffer |-> <<>>, items |-> <<>>,
     inHeading |-> FALSE, headingBuffer |-> <<>>, ignore |-> 0, li |-> 0, itemBuffer |-> <<>>,
     labelled |-> FALSE, label |-> <<>>, inLabel |-> FALSE, labelBuffer |-> <<>>,
     callout |-> 0, calloutBuffer |-> <<>>]

Section(heading, text, kind) == [heading |-> heading, text |-> text, kind |-> kind]
SectionIf(heading, text, kind) ==
    IF text = <<>> THEN <<>> ELSE <<Section(heading, text, kind)>>

\* Nothing is emitted under a heading that is absent or empty.
Emitted(s) ==
    IF s.heading = <<>> THEN <<>> ELSE SectionIf(s.heading, s.buffer, "heading") \o s.items
Flush(s) ==
    [s EXCEPT !.sections = @ \o Emitted(s), !.buffer = <<>>, !.items = <<>>,
              !.headed = FALSE, !.heading = <<>>]

CloseCallout(s) ==
    [s EXCEPT !.items = @ \o SectionIf(<<>>, s.calloutBuffer, "callout"), !.calloutBuffer = <<>>]

\* A labelled item is a section, an unlabelled one is prose, a bare label is neither.
CloseItem(s) ==
    LET labelled == s.label # <<>>
        text == s.itemBuffer
    IN [s EXCEPT
          !.items = IF labelled /\ text # <<>>
                    THEN Append(@, Section(s.label, s.label \o text, "labelled_item")) ELSE @,
          !.buffer = IF labelled THEN @ ELSE @ \o text,
          !.itemBuffer = <<>>, !.labelled = FALSE, !.label = <<>>]

OpenLi(s) ==
    IF s.li = 0
    THEN [s EXCEPT !.li = 1, !.itemBuffer = <<>>, !.labelled = FALSE, !.label = <<>>]
    ELSE [s EXCEPT !.li = @ + 1]
CloseLi(s) == [(IF s.li = 1 THEN CloseItem(s) ELSE s) EXCEPT !.li = @ - 1]

\* wrong variant: any div that ends inside a callout ends it
CalloutShallow(s, tag, closing) ==
    IF closing /\ tag = "div" THEN CloseCallout([s EXCEPT !.callout = 0]) ELSE s
\* Inside a callout only div nesting matters.
InCallout(s, tag, closing) ==
    LET depth == IF closing THEN s.callout - 1 ELSE s.callout + 1
        moved == [s EXCEPT !.callout = depth]
    IN IF tag # "div" THEN s ELSE IF depth = 0 THEN CloseCallout(moved) ELSE moved

StartTag(s, tag, aside) ==
    CASE tag \in Headings -> [Flush(s) EXCEPT !.inHeading = TRUE, !.headingBuffer = <<>>]
      [] tag = "div" /\ s.headed /\ aside -> [s EXCEPT !.callout = 1, !.calloutBuffer = <<>>]
      [] tag = "li" /\ s.headed -> OpenLi(s)
      [] tag \in Labels /\ s.li = 1 /\ ~s.labelled -> [s EXCEPT !.inLabel = TRUE, !.labelBuffer = <<>>]
      [] OTHER -> s

EndTag(s, tag) ==
    CASE tag \in Headings /\ s.inHeading ->
            [s EXCEPT !.inHeading = FALSE, !.headed = TRUE, !.heading = s.headingBuffer]
      [] tag \in Labels /\ s.inLabel ->
            [s EXCEPT !.inLabel = FALSE, !.labelled = TRUE, !.label = s.labelBuffer]
      [] tag = "li" /\ s.li > 0 -> CloseLi(s)
      [] OTHER -> s

Data(s, words) ==
    CASE s.callout > 0 -> [s EXCEPT !.calloutBuffer = @ \o words]
      [] s.callout = 0 /\ s.inHeading -> [s EXCEPT !.headingBuffer = @ \o words]
      [] s.callout = 0 /\ ~s.inHeading /\ s.inLabel -> [s EXCEPT !.labelBuffer = @ \o words]
      [] s.callout = 0 /\ ~s.inHeading /\ ~s.inLabel /\ s.headed ->
            IF s.li > 0 THEN [s EXCEPT !.itemBuffer = @ \o words] ELSE [s EXCEPT !.buffer = @ \o words]
      [] OTHER -> s

\* Ignored elements only nest; then a callout swallows everything; then the rest.
Handle(s, token) ==
    CASE token.event = "data" -> IF s.ignore > 0 THEN s ELSE Data(s, token.words)
      [] token.event # "data" /\ token.tag \in Ignored ->
            [s EXCEPT !.ignore = IF token.event = "start" THEN @ + 1 ELSE IF @ = 0 THEN 0 ELSE @ - 1]
      [] OTHER ->
            IF s.ignore > 0 THEN s
            ELSE IF s.callout > 0 THEN InCallout(s, token.tag, token.event = "end")
            ELSE IF token.event = "start" THEN StartTag(s, token.tag, token.aside)
            ELSE EndTag(s, token.tag)

Parsed(tokens) ==
    LET after[n \in 0 .. Len(tokens)] == IF n = 0 THEN Fresh ELSE Handle(after[n - 1], tokens[n])
    IN after
ExtractSections(tokens) == Flush(Parsed(tokens)[Len(tokens)]).sections

(***************************************************************************)
(* From sections to clauses.                                               *)
(***************************************************************************)
Kept(section) ==
    /\ section.heading \notin Dropped
    /\ Len(section.text) >= MinWords

Fits(title, section) == title.match \in Range(section.text)
TitlesOf(section, titles) == {i \in DOMAIN titles : Fits(titles[i], section)}

\* name_callouts refuses both ways: a callout with no title, a title with no callout.
CalloutsNameable(sections, titles) ==
    LET callouts == {i \in DOMAIN sections : sections[i].kind = "callout"}
    IN /\ \A i \in callouts : Cardinality(TitlesOf(sections[i], titles)) = 1
       /\ \A t \in DOMAIN titles :
             Cardinality({i \in callouts : t \in TitlesOf(sections[i], titles)}) = 1

NameCallouts(sections, titles) ==
    [i \in DOMAIN sections |->
        IF sections[i].kind # "callout" THEN sections[i]
        ELSE [sections[i] EXCEPT !.heading = titles[CHOOSE t \in TitlesOf(sections[i], titles) : TRUE].heading]]

Slug(heading) == SelectSeq(heading, LAMBDA word : word \notin Punctuation)

\* wrong variant: a repeated heading is numbered by its place in the document
NumberedByPlace(headings, i) ==
    IF \E j \in 1 .. i - 1 : Slug(headings[j]) = Slug(headings[i])
    THEN Slug(headings[i]) \o <<ToString(i)>> ELSE Slug(headings[i])
\* The occurrence is counted among headings of the same slug only.
AnchorOf(headings, i) ==
    LET slug == Slug(headings[i])
        nth == Cardinality({j \in 1 .. i : Slug(headings[j]) = slug})
    IN IF nth = 1 THEN slug ELSE slug \o <<ToString(nth)>>

AnchorIdsFor(headings) == [i \in DOMAIN headings |-> AnchorOf(headings, i)]

\* PolicyDocument.__post_init__.
Unambiguous(doc) == IsInjective([i \in DOMAIN doc.clauses |-> doc.clauses[i].anchor])

Document(id, sections) ==
    LET headings == [i \in DOMAIN sections |-> sections[i].heading]
        anchors == AnchorIdsFor(headings)
    IN [doc |-> id,
        clauses |-> [i \in DOMAIN sections |->
            [anchor |-> anchors[i], heading |-> headings[i], text |-> sections[i].text]]]

(***************************************************************************)
(* fetch_document: what a page makes, or why it makes nothing.  Only a     *)
(* FetchError is reported; a heading with nothing to anchor and two equal  *)
(* anchors raise ValueError past it.                                       *)
(***************************************************************************)
KeptSections(page) ==
    LET sections == ExtractSections(page.tokens)
    IN Those(sections, {i \in DOMAIN sections : Kept(sections[i])})
Extracted(page) == NameCallouts(KeptSections(page), page.titles)

FetchRefusal(page) ==
    LET kept == KeptSections(page)
        named == Extracted(page)
    IN CASE page.response # "html" -> page.response
         [] page.response = "html" /\ ~CalloutsNameable(kept, page.titles) -> "callouts"
         [] page.response = "html" /\ CalloutsNameable(kept, page.titles) /\ kept = <<>> -> "nothing_to_anchor"
         [] OTHER ->
              IF \E i \in DOMAIN named : named[i].heading = <<>> THEN "unnamed"
              ELSE IF \E i \in DOMAIN named : Slug(named[i].heading) = <<>> THEN "unanchorable"
              ELSE IF ~Unambiguous(Document("new", named)) THEN "ambiguous"
              ELSE "none"

(***************************************************************************)
(* write_corpus and load_corpus.  A file of the directory is absent, torn  *)
(* or whole; the manifest holds the digest of each document.               *)
(***************************************************************************)
Clause(doc, anchor) == {c \in Range(doc.clauses) : c.anchor = anchor}
DocumentsWith(corpus, anchor) == {d \in Range(corpus) : Clause(d, anchor) # {}}

Absent == [file |-> "absent"]
Torn == [file |-> "torn"]
Whole(body) == [file |-> "whole", body |-> body]

\* wrong variant: the clause file is believed whatever the manifest says
EntryBelieved(dir, entry) == dir.clauses[entry.doc].file = "whole"
EntryLoads(dir, entry) ==
    /\ dir.clauses[entry.doc].file = "whole"
    /\ dir.clauses[entry.doc].body = entry

Loads(dir) ==
    /\ dir.manifest.file = "whole"
    /\ \A i \in DOMAIN dir.manifest.body : EntryLoads(dir, dir.manifest.body[i])
LoadCorpus(dir) ==
    [i \in DOMAIN dir.manifest.body |-> dir.clauses[dir.manifest.body[i].doc].body]
====
