---- MODULE Casework ----
(***************************************************************************)
(* What a case is decided on, from its sources to an accepted memo: the    *)
(* policy pages fetched, written and loaded (cli/main.py                   *)
(* run_fetch_policies), the pack an evidence session gathers about a       *)
(* subject, and the memo a memo session draws from both.  EvidenceTurn and *)
(* MemoTurn model who is asked, charged and recorded on the way; here it   *)
(* is what is asked and answered.  A text sent to a model is modelled on   *)
(* its own.                                                                *)
(***************************************************************************)
EXTENDS MemoDraft, InputFirewall, Recovery, PageMarkup

CONSTANTS
    Pages,          \* bound: the fetched pages explored
    WrittenPages,   \* bound: those that are followed by a write of the corpus
    OldCorpus,      \* the documents the directory holds before
    Companion,      \* the other document of the new corpus
    Subjects,       \* bound: the subjects an analyst asks for
    Inputs,         \* bound: parameter |-> the values proposed
    StubLimit,      \* the limit the offline agent asks for, 25
    MaxHops,        \* bound
    Responses(_, _), \* bound: the model's responses, given a corpus and a pack
    Batches,        \* bound: the batches of records sent to a model
    SignalSets(_)   \* bound: what scan may find in a batch

\* A page is a sequence of callbacks, whose words are told apart by its tags, or
\* the reason there is none; a text and a corpus are sequences too.
ASSUME PagesAssumption ==
    \A p \in Pages :
        /\ p.response # "none"
        /\ p.tokens \in Seq(Range(p.tokens))
        /\ \A t \in Range(p.tokens) :
              /\ t.event \in {"start", "end", "data"}
              /\ t.event = "data" => t.words \in Seq(Range(t.words))
        /\ WellMarked(p.tokens)
ASSUME HopsAssumption == MaxHops \in Nat
\* A batch is a sequence of texts, and what is found in it is in one of them.
ASSUME BatchesAssumption ==
    \A records \in Batches :
        /\ records \in Seq(Range(records))
        /\ \A record \in Range(records) : record.length \in Nat
        /\ \A found \in SignalSets(records) :
              /\ IsFiniteSet(found)
              /\ \A signal \in found : \E record \in Range(records) : signal \in SignalsIn(record)
ASSUME CorpusAssumption ==
    /\ OldCorpus \in Seq(Range(OldCorpus))
    /\ \A doc \in Range(OldCorpus) \cup {Companion} : \A clause \in Range(doc.clauses) :
          clause.text \in Seq(Range(clause.text))

VARIABLES
    stage,      \* where the case is
    page,       \* the page fetch-policies is given
    fresh,      \* the document it makes: at most one
    policies,   \* the policy directory
    writes,     \* files of the directory still to write
    corpus,     \* the corpus in scope, a sequence of documents
    pack,       \* the evidence pack
    seen,       \* ghost: every row an executed pivot returned, with its hop
    memo,       \* the accepted memo: at most one
    batch,      \* a batch of records
    signals,    \* what scan finds in it
    sent        \* what is sent of it

policyVars == <<page, fresh, policies, writes>>
caseVars == <<pack, seen>>
screenVars == <<batch, signals, sent>>
vars == <<stage, policyVars, corpus, caseVars, memo, screenVars>>

NoPack == [order |-> <<>>, found |-> <<>>, hops |-> <<>>]

Directory(docs) ==
    [clauses |-> [d \in {docs[i].doc : i \in DOMAIN docs} |->
                    Whole(CHOOSE doc \in Range(docs) : doc.doc = d)],
     manifest |-> Whole(docs)]

Init ==
    /\ \/ stage = "fetch" /\ page \in Pages /\ batch = <<>> /\ signals = {}
       \/ stage = "load" /\ page = <<>> /\ batch = <<>> /\ signals = {}
       \/ stage = "screen" /\ page = <<>> /\ batch \in Batches /\ signals \in SignalSets(batch)
    /\ sent = <<>>
    /\ policies = Directory(OldCorpus)
    /\ fresh = {} /\ writes = <<>> /\ corpus = <<>>
    /\ pack = NoPack /\ seen = {} /\ memo = {}

(***************************************************************************)
(* fetch-policies.  Nothing is written unless every document was made; the *)
(* clause files go first, each truncated and then filled.                  *)
(***************************************************************************)
NewCorpus == <<CHOOSE d \in fresh : TRUE, Companion>>

Fetch ==
    /\ stage = "fetch"
    /\ IF FetchRefusal(page) = "none"
       THEN /\ fresh' = {Document("spam", Extracted(page))}
            /\ writes' = IF page \in WrittenPages THEN <<"spam", "other", "manifest">> ELSE <<>>
            /\ stage' = IF page \in WrittenPages THEN "write" ELSE "fetched"
       ELSE stage' = "not_fetched" /\ UNCHANGED <<fresh, writes>>
    /\ UNCHANGED <<page, policies, corpus, caseVars, memo, screenVars>>

FileOf(name) == IF name = "manifest" THEN policies.manifest ELSE policies.clauses[name]
BodyOf(name) ==
    IF name = "manifest" THEN NewCorpus
    ELSE CHOOSE d \in Range(NewCorpus) : d.doc = name
Put(name, file) ==
    IF name = "manifest" THEN [policies EXCEPT !.manifest = file]
    ELSE [policies EXCEPT !.clauses[name] = file]

WriteFile ==
    /\ stage = "write" /\ writes # <<>>
    /\ IF FileOf(Head(writes)) # Torn
       THEN policies' = Put(Head(writes), Torn) /\ UNCHANGED writes
       ELSE policies' = Put(Head(writes), Whole(BodyOf(Head(writes)))) /\ writes' = Tail(writes)
    /\ UNCHANGED <<stage, page, fresh, corpus, caseVars, memo, screenVars>>

\* The program ends, or is stopped before it has written everything.
EndFetch ==
    /\ stage = "write"
    /\ stage' = "load" /\ writes' = <<>> /\ page' = <<>>
    /\ UNCHANGED <<fresh, policies, corpus, caseVars, memo, screenVars>>

\* load_corpus.  Nothing writes the directory between here and the memo.
OpenCorpus ==
    /\ stage = "load"
    /\ IF Loads(policies)
       THEN corpus' = LoadCorpus(policies) /\ stage' = "open"
       ELSE stage' = "unusable" /\ UNCHANGED corpus
    /\ UNCHANGED <<policyVars, caseVars, memo, screenVars>>

(***************************************************************************)
(* An evidence session: require_subject, then pivots until it ends.        *)
(***************************************************************************)
OpenCase(subject) ==
    /\ stage = "open"
    /\ IF subject \in Channels
       THEN stage' = "case" /\ pack' = Seed(subject)
       ELSE stage' = "no_subject" /\ UNCHANGED pack
    /\ UNCHANGED <<policyVars, corpus, seen, memo, screenVars>>

Proposal(pivot, params, cites) == [parses |-> TRUE, pivot |-> pivot, params |-> params, cites |-> cites]
Unparsed == [parses |-> FALSE]

StubProposal ==
    LET asked == StubQuestion(pack)
        all == [entity |-> asked[2], choice |-> Wildcard, floor |-> 1, limit |-> StubLimit]
    IN Proposal(asked[1], Restrict(all, ParamNames[asked[1]]), {ProvenanceId(0)})

\* Every parameter, one value missing, or the subject of another case.
ProposalsOn(pivot) ==
    LET names == ParamNames[pivot]
        values == [entity |-> Entities(pack) \cup Inputs.entity] @@ Inputs
        whole == {p \in [names -> UNION {values[n] : n \in names}] : \A n \in names : p[n] \in values[n]}
    IN {Proposal(pivot, p, {ProvenanceId(0)}) : p \in whole}
       \cup {Proposal(pivot, p, {}) : p \in whole}
       \cup {Proposal(pivot, Restrict(p, names \ {"limit"}), {ProvenanceId(0)}) : p \in whole}

Proposals == {Unparsed, Proposal("teleport", <<>>, {ProvenanceId(0)}), StubProposal} \cup UNION {ProposalsOn(v) : v \in Pivots}

\* A refused proposal changes nothing, nor does one the analyst turns down.
Refuse(proposal) ==
    /\ stage = "case" /\ CheckProposal(proposal, pack) # "accepted"
    /\ UNCHANGED vars

\* run_parameterized_pivot: validated again, answered, folded in, checked.
RunPivot(proposal, answer) ==
    LET grown == WithHop(pack, proposal.pivot, proposal.params, answer)
        hop == Hops(pack) + 1
    IN /\ stage = "case" /\ Hops(pack) < MaxHops
       /\ CheckProposal(proposal, pack) = "accepted"
       /\ ParamsValid(proposal.pivot, proposal.params, Entities(pack))
       /\ PackConstructs(grown) /\ PackGate(grown)
       /\ pack' = grown
       /\ seen' = seen \cup {[hop |-> hop, pivot |-> proposal.pivot, params |-> proposal.params, row |-> row] :
                                row \in Range(answer)}
       /\ UNCHANGED <<stage, policyVars, corpus, memo, screenVars>>

CloseCase ==
    /\ stage = "case"
    /\ stage' = "memo"
    /\ UNCHANGED <<policyVars, corpus, caseVars, memo, screenVars>>

(***************************************************************************)
(* A memo session on the exported pack: drafts until one is accepted.      *)
(***************************************************************************)
Draft(response) ==
    /\ stage = "memo"
    /\ LET draft == ParseDraft(response)
           made == Dispatched(MemoFrom(draft, pack, corpus))
       IN IF CheckDraft(draft, corpus) = "accepted" /\ MemoCheck(made, pack, corpus)
          THEN memo' = {made} /\ stage' = "accepted"
          ELSE UNCHANGED <<memo, stage>>
    /\ UNCHANGED <<policyVars, corpus, caseVars, screenVars>>

(***************************************************************************)
(* apply_firewall and model_text: a batch of records is sent to a model.   *)
(***************************************************************************)
Screen ==
    /\ stage = "screen"
    /\ IF Wraps(batch)
       THEN sent' = RenderRedacted(batch, signals) /\ stage' = "sent"
       ELSE stage' = "not_sent" /\ UNCHANGED sent
    /\ UNCHANGED <<policyVars, corpus, caseVars, memo, batch, signals>>

Next ==
    \/ Fetch \/ WriteFile \/ EndFetch \/ OpenCorpus
    \/ \E subject \in Subjects : OpenCase(subject)
    \/ stage = "case" /\ \E proposal \in Proposals :
          \/ Refuse(proposal)
          \/ /\ CheckProposal(proposal, pack) = "accepted"
             /\ \E answer \in Answers(proposal.pivot, proposal.params) : RunPivot(proposal, answer)
    \/ CloseCase
    \/ stage = "memo" /\ \E response \in Responses(corpus, pack) : Draft(response)
    \/ Screen

CaseSpec == Init /\ [][Next]_vars

(***************************************************************************)
(* The policy text.                                                        *)
(***************************************************************************)
\* A callout never shares a clause with other text: whatever is nested in it
\* and whatever surrounds it, a clause with a word of a callout holds callout
\* words only (policy_fetch.py, _close_callout).
CalloutsStandAlone ==
    \A doc \in fresh : \A clause \in Range(doc.clauses) :
        Range(clause.text) \cap Boxed # {} => Range(clause.text) \subseteq Boxed

HeadingsOf(doc) == [i \in DOMAIN doc.clauses |-> doc.clauses[i].heading]

\* An anchor names one clause, and a clause that is added or withdrawn moves
\* no anchor but those of its own slug (policy_corpus.py, anchor_ids_for).
AnchorsAreStable ==
    \A doc \in fresh :
        LET headings == HeadingsOf(doc)
            anchors == AnchorIdsFor(headings)
        IN \A gone \in DOMAIN headings :
              LET left == RemoveAt(headings, gone)
                  now == AnchorIdsFor(left)
              IN \A i \in DOMAIN left :
                    LET was == IF i < gone THEN i ELSE i + 1
                    IN /\ anchors[was] # anchors[gone]
                       /\ Slug(left[i]) # Slug(headings[gone]) => now[i] = anchors[was]

(***************************************************************************)
(* The screened text.                                                      *)
(***************************************************************************)
Positions(piece) == IF piece.kind = "text" THEN piece.from + 1 .. piece.to ELSE Covered(piece.span)

\* Pieces that are a text of some length, in order, its signalled positions
\* and no others in markers.
ExactlyMarked(pieces, length, signalled) ==
    /\ UNION {Positions(pieces[k]) : k \in DOMAIN pieces} = 1 .. length
    /\ \A k, j \in DOMAIN pieces : k < j =>
          \A x \in Positions(pieces[k]) : \A y \in Positions(pieces[j]) : x < y
    /\ \A k \in DOMAIN pieces :
          IF pieces[k].kind = "text" THEN Positions(pieces[k]) \cap signalled = {}
          ELSE Positions(pieces[k]) \subseteq signalled

\* What is sent of each record is its text with every position signalled in it,
\* and no other, inside a marker: nothing is lost, repeated, moved or taken to
\* another record, and markers do not overlap however the matches of several
\* patterns do (firewall.py, _redact and render_redacted).
RedactionIsExact ==
    stage = "sent" =>
        /\ [i \in DOMAIN sent |-> sent[i].id] = [i \in DOMAIN batch |-> batch[i].id]
        /\ \A i \in DOMAIN sent :
              ExactlyMarked(sent[i].text, batch[i].length,
                            UNION {Covered(s) : s \in SignalsOf(signals, sent[i].id)})

(***************************************************************************)
(* The pack.                                                               *)
(***************************************************************************)
Told(s) == RecordsOf(s.pivot, s.params, s.row)

EdgeUpTo(hop, a, b) ==
    \E id \in DOMAIN pack.found :
        id[1] = "edge" /\ {id[3], id[4]} = {a, b} /\ pack.found[id] <= hop
Within(hop) ==
    LET near[n \in 0 .. Len(pack.order)] ==
            IF n = 0 THEN {Head(pack.order)}
            ELSE near[n - 1] \cup {e \in Entities(pack) : \E a \in near[n - 1] : EdgeUpTo(hop, a, e)}
    IN near[Len(pack.order)]

\* The entities some row tells of that came back within a budget of pivots.
ToldAbout(budget) ==
    {e \in Entities(pack) \ {Head(pack.order)} : \E s \in seen : s.hop <= budget /\ NodeId(e) \in Told(s)}

\* The pack tells what the pivots returned and nothing else, whatever the order
\* and overlap of the hops: a row is told by records of its hop or an earlier
\* one, two rows of one question by different records, every record by a row
\* of the hop its provenance names, and every entity is joined to the subject
\* by edges found no later than itself; what the recovery at a budget counts is
\* then the members of the network that came back by that hop, at most those a
\* pack can hold (pivot_tool.py, pack.py, measurement/recovery.py).
PackExplainsItself ==
    stage = "case" =>
        /\ \A s \in seen : \A id \in Told(s) : id \in DOMAIN pack.found /\ pack.found[id] <= s.hop
        /\ \A s, t \in seen :
              s.pivot = t.pivot /\ s.params.entity = t.params.entity /\ s.row # t.row => Told(s) # Told(t)
        /\ \A id \in DOMAIN pack.found \ {NodeId(Head(pack.order))} :
              \E s \in seen : s.hop = pack.found[id] /\ id \in Told(s)
        /\ \A hop \in 0 .. Hops(pack) : Within(hop) = NodesAtHop(pack, hop)
        /\ \A result \in RecoveryForPack(pack, 0 .. MaxHops) : \A budget \in 0 .. MaxHops :
              /\ result.recovered[budget] = Cardinality(ToldAbout(budget) \cap Members(result.ring_id))
              /\ result.recovered[budget] <= result.reachable_size

\* A hop adds and never moves: the hop that first saw a record stays its hop,
\* what was in reach at a budget stays in reach at it, and the questions the
\* offline agent was asking keep their places (pack.py, with_hop).
EvidenceNeverMoves ==
    [][stage = "case" /\ stage' = "case" =>
        /\ \A id \in DOMAIN pack.found : id \in DOMAIN pack'.found /\ pack'.found[id] = pack.found[id]
        /\ \A budget \in 0 .. Hops(pack) : NodesAtHop(pack', budget) = NodesAtHop(pack, budget)
        /\ LET both == Min({Len(WorkList(pack)), Len(WorkList(pack'))})
           IN SubSeq(WorkList(pack'), 1, both) = SubSeq(WorkList(pack), 1, both)]_vars

(***************************************************************************)
(* The memo.                                                               *)
(***************************************************************************)
Explained(id) ==
    \/ id = NodeId(Head(pack.order))
    \/ \E n \in 0 .. Hops(pack) : id = ProvenanceId(n)
    \/ \E s \in seen : id \in Told(s)

WrittenWhole(docs) == docs = OldCorpus \/ (fresh # {} /\ docs = NewCorpus)

\* Its sentences rest on what is in scope.
Grounded(m) ==
    /\ m.pack = pack /\ m.corpus = corpus /\ WrittenWhole(corpus)
    /\ {s.role : s \in Range(m.sentences)} = Range(RoleOf) /\ m.measure \in Measures
    /\ \A s \in Range(m.sentences) :
          /\ s.role = "fact" => s.cites # {}
          /\ \A id \in s.cites : Explained(id)
          /\ s.role = "policy_ground" => s.citations # {}
          /\ \A c \in s.citations :
                /\ DocumentsWith(corpus, c.anchor) = {c.document}
                /\ \E clause \in Range(c.document.clauses) : \E from \in DOMAIN clause.text :
                      /\ clause.anchor = c.anchor
                      /\ \A k \in DOMAIN c.excerpt :
                            from + k - 1 \in DOMAIN clause.text /\ clause.text[from + k - 1] = c.excerpt[k]
                /\ Len(c.excerpt) \in MinExcerpt .. MaxExcerpt

\* An accepted memo rests on evidence and on policy: it is bound to the pack
\* and to a corpus that was once written whole, what a fact cites is the
\* subject, a provenance or told by a row some pivot returned, and a ground
\* quotes consecutive words of a clause of the one document its anchor is in
\* (draft_check.py, citation_resolver.py, memo_gate.py, load_corpus).
AcceptedMemoIsGrounded == \A m \in memo : Grounded(m)
====
