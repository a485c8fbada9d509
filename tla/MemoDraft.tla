---- MODULE MemoDraft ----
(***************************************************************************)
(* A memo and what may accept it: agents/memo/draft.py and memo.py,        *)
(* orchestrator/draft_check.py, citation_tool.py, citation_resolver.py and *)
(* memo_gate.py.  A response is a sequence of lines.  Of a text there is   *)
(* what it cites and, where it has to be a certain word, that word.        *)
(***************************************************************************)
EXTENDS EvidencePack, PolicyText

CONSTANTS
    Measures,       \* Measure's members
    MinExcerpt,     \* MIN_EXCERPT_WORDS
    MaxExcerpt      \* MAX_EXCERPT_WORDS

\* No excerpt is empty.
ASSUME ExcerptAssumption == MinExcerpt \in Nat \ {0} /\ MaxExcerpt \in Nat

RoleOf == [FACT |-> "fact", GROUND |-> "policy_ground", MEASURE |-> "measure", REDRESS |-> "redress"]

(***************************************************************************)
(* parse_draft.  A line of a response is a keyword, if it begins with one, *)
(* and the parts of its body, records of one field: anchor, excerpt, text. *)
(***************************************************************************)
Says(word) == [word |-> word]
Cites(id) == [id |-> id]

PartsOf(raw, field) == SelectSeq(raw.parts, LAMBDA part : DOMAIN part = {field})
LastOf(raw, field) == IF PartsOf(raw, field) = <<>> THEN <<>> ELSE Last(PartsOf(raw, field))[field]
TextOf(raw) == FlattenSeq([i \in DOMAIN PartsOf(raw, "text") |-> PartsOf(raw, "text")[i].text])

\* The fields come in any order, the last of a name wins; <<>> is None.
DraftLine(raw) ==
    [kind |-> raw.kind, text |-> TextOf(raw),
     anchor |-> LastOf(raw, "anchor"), excerpt |-> LastOf(raw, "excerpt")]

CitedIds(line) == {piece.id : piece \in {p \in Range(line.text) : "id" \in DOMAIN p}}

\* Lines without a known keyword or without a body are dropped.
ParseDraft(response) ==
    LET lines == Those(response, {i \in DOMAIN response :
                                    response[i].kind \in DOMAIN RoleOf /\ response[i].parts # <<>>})
    IN [i \in DOMAIN lines |-> DraftLine(lines[i])]

(***************************************************************************)
(* check_draft.  Lines are judged in order, the first refused one decides. *)
(***************************************************************************)
LinesOf(draft, kind) == SelectSeq(draft, LAMBDA line : line.kind = kind)
MeasureValue(draft) == Last(LinesOf(draft, "MEASURE")).text
Named(measure) == <<Says(measure)>>

Quotable(excerpt) == Len(excerpt) \in MinExcerpt .. MaxExcerpt

GroundRefusal(line, corpus) ==
    LET matches == DocumentsWith(corpus, line.anchor)
    IN CASE matches = {} -> "unknown_anchor"
         [] Cardinality(matches) > 1 -> "ambiguous_anchor"
         [] Cardinality(matches) = 1 /\ ~Quotable(line.excerpt) -> "malformed_citation"
         [] OTHER -> IF line.text = <<>> THEN "structural" ELSE "none"

LineRefusal(line, corpus) ==
    CASE line.kind = "GROUND" -> GroundRefusal(line, corpus)
      [] line.kind = "FACT" -> IF CitedIds(line) = {} THEN "structural" ELSE "none"
      [] OTHER -> "none"

CheckDraft(draft, corpus) ==
    LET refused == {i \in DOMAIN draft : LineRefusal(draft[i], corpus) # "none"}
    IN CASE draft = <<>> -> "malformed"
         [] draft # <<>> /\ {line.kind : line \in Range(draft)} # DOMAIN RoleOf -> "missing_role"
         [] OTHER ->
              IF MeasureValue(draft) \notin {Named(measure) : measure \in Measures} THEN "unknown_measure"
              ELSE IF refused # {} THEN LineRefusal(draft[Min(refused)], corpus)
              ELSE "accepted"

(***************************************************************************)
(* The memo an accepted draft makes, bound to the pack and the corpus.  A  *)
(* measure's sentence is written from the measure and cites nothing.       *)
(***************************************************************************)
Citation(document, anchor, excerpt) == [document |-> document, anchor |-> anchor, excerpt |-> excerpt]

CitationsOf(line, corpus) ==
    {Citation(d, line.anchor, line.excerpt) : d \in IF line.kind = "GROUND" THEN DocumentsWith(corpus, line.anchor) ELSE {}}

Sentence(line, corpus) ==
    [role |-> RoleOf[line.kind],
     cites |-> IF line.kind = "MEASURE" THEN {} ELSE CitedIds(line),
     citations |-> CitationsOf(line, corpus)]

MemoFrom(draft, pack, corpus) ==
    [pack |-> pack, corpus |-> corpus, measure |-> MeasureValue(draft)[1].word, status |-> "draft",
     sentences |-> [i \in DOMAIN draft |-> Sentence(draft[i], corpus)]]

Grounds(memo) == {i \in DOMAIN memo.sentences : memo.sentences[i].role = "policy_ground"}

\* A revised memo is a draft, whatever it was.
WithSentences(memo, sentences) == [memo EXCEPT !.sentences = sentences, !.status = "draft"]

\* resolve_policy_citation: it attaches.
AttachCitation(memo, i, citation) ==
    WithSentences(memo, [memo.sentences EXCEPT ![i].citations = {citation}])

\* The turn dispatches the first ground with the citation its draft gave it.
Dispatched(memo) ==
    LET first == CHOOSE i \in Grounds(memo) : \A j \in Grounds(memo) : i <= j
    IN AttachCitation(memo, first, CHOOSE c \in memo.sentences[first].citations : TRUE)

(***************************************************************************)
(* memo_check: the bindings, then every claim and every citation.          *)
(***************************************************************************)
Quotes(excerpt, text) ==
    \E start \in 1 .. Len(text) - Len(excerpt) + 1 :
        SubSeq(text, start, start + Len(excerpt) - 1) = excerpt

Resolves(citation, corpus) ==
    /\ citation.document \in Range(corpus)
    /\ Quotable(citation.excerpt)
    /\ \E clause \in Clause(citation.document, citation.anchor) : Quotes(citation.excerpt, clause.text)

ClaimHolds(sentence, pack) ==
    sentence.role = "fact" \/ sentence.cites # {} => Supported(sentence.cites, RecordIds(pack))
GroundHolds(sentence, corpus) ==
    /\ sentence.role = "policy_ground" => sentence.citations # {}
    /\ \A c \in sentence.citations : Resolves(c, corpus)

MemoCheck(memo, pack, corpus) ==
    /\ memo.status = "draft"
    /\ memo.pack = pack /\ memo.corpus = corpus
    /\ \A i \in DOMAIN memo.sentences :
          ClaimHolds(memo.sentences[i], pack) /\ GroundHolds(memo.sentences[i], corpus)
====
