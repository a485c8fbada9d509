---- MODULE EvidencePack ----
(***************************************************************************)
(* The pivots of orchestrator/pivots.py over an observable platform, what  *)
(* orchestrator/pivot_tool.py makes of their rows, and the pack they fold  *)
(* into (agents/evidence/pack.py), with the checks of a proposal.          *)
(*                                                                         *)
(* Entities, hint values and instants are numbers, ordered as the ids are. *)
(* A record id is a tuple that begins with its sort; its value is the hop  *)
(* its provenance names.  Attributes, digests and retrieval times are left *)
(* out.                                                                    *)
(***************************************************************************)
EXTENDS Integers, SequencesExt, Ranking

CONSTANTS
    Platform,       \* what the seeded store holds (see the instance)
    Null,           \* an attribute an account does not have
    Wildcard,       \* the choice that stands for all
    Bounds,         \* parameter |-> [least, most]
    ShowLimit       \* render_citable_records' cap, 40

Channels == DOMAIN Platform.owner
Accounts == DOMAIN Platform.meta
Videos == DOMAIN Platform.channelOf

\* What the store's keys and references say of its rows, and the limits of a limit.
ASSUME PlatformAssumption ==
    /\ IsFiniteSet(Channels) /\ IsFiniteSet(Accounts) /\ IsFiniteSet(Platform.fields)
    /\ IsFiniteSet(Platform.comments) /\ IsFiniteSet(Platform.engagements)
    /\ IsFiniteSet(Platform.hints)
    /\ \A c \in Channels : Platform.owner[c] \in Accounts
    /\ \A c \in Platform.comments : c.account \in Accounts /\ c.video \in Videos
    /\ \A c, d \in Platform.comments : c.id = d.id => c = d
    /\ \A e \in Platform.engagements : e.account \in Accounts
    /\ \A h \in Platform.hints : h.subject \in Channels \cup Accounts
    /\ Bounds.limit.least \in Nat /\ ShowLimit \in Nat

(***************************************************************************)
(* PIVOT_TEMPLATES: what each pivot takes, and the rows its query finds.   *)
(***************************************************************************)
ParamNames ==
    [shared_metadata      |-> {"entity", "choice", "limit"},
     temporal_correlation |-> {"entity", "anchor", "window", "limit"},
     engagement_edge      |-> {"entity", "choice", "floor", "limit"},
     infra_overlap        |-> {"entity", "choice", "limit"},
     account_link         |-> {"entity", "floor", "limit"}]
Pivots == DOMAIN ParamNames

ChoiceValues ==
    [shared_metadata |-> Platform.fields,
     engagement_edge |-> {e.kind : e \in Platform.engagements},
     infra_overlap   |-> {h.type : h \in Platform.hints}]

Chosen(p, value) == p.choice \in {Wildcard, value}
OnChannel(channel, target) ==
    target = channel \/ target \in {v \in Videos : Platform.channelOf[v] = channel}

SharedMetadataRows(p) ==
    {row \in [peer : Accounts \ {p.entity}, field : Platform.fields] :
        /\ p.entity \in Accounts
        /\ Chosen(p, row.field)
        /\ Platform.meta[p.entity][row.field] # Null
        /\ Platform.meta[row.peer][row.field] = Platform.meta[p.entity][row.field]}

TemporalRows(p) ==
    {c \in Platform.comments :
        /\ Platform.channelOf[c.video] = p.entity
        /\ c.at \in p.anchor - p.window .. p.anchor + p.window}

EngagementsOf(row) ==
    {e \in Platform.engagements : <<e.account, e.target, e.kind>> = <<row.account, row.target, row.kind>>}
EngagementRows(p) ==
    {row \in {[account |-> e.account, target |-> e.target, kind |-> e.kind] : e \in Platform.engagements} :
        /\ p.entity \in Channels
        /\ OnChannel(p.entity, row.target)
        /\ Chosen(p, row.kind)
        /\ Cardinality(EngagementsOf(row)) >= p.floor}

InfraRows(p) ==
    {row \in {[peer |-> h.subject, type |-> h.type, value |-> h.value] : h \in Platform.hints} :
        /\ row.peer # p.entity
        /\ Chosen(p, row.type)
        /\ \E own \in Platform.hints :
              <<own.subject, own.type, own.value>> = <<p.entity, row.type, row.value>>}

CommentsBy(account, channel) ==
    {c \in Platform.comments : c.account = account /\ Platform.channelOf[c.video] = channel}
Commenter == 1    \* 'commenter' sorts before 'owner'
Owner == 2
AccountLinkRows(p) ==
    {[account |-> Platform.owner[c], relation |-> Owner, weight |-> 1] : c \in Channels \cap {p.entity}}
    \cup {[account |-> a, relation |-> Commenter, weight |-> Cardinality(CommentsBy(a, p.entity))] :
            a \in {a \in Accounts : Cardinality(CommentsBy(a, p.entity)) >= p.floor}}

RowsFound(pivot, p) ==
    CASE pivot = "shared_metadata" -> SharedMetadataRows(p)
      [] pivot = "temporal_correlation" -> TemporalRows(p)
      [] pivot = "engagement_edge" -> EngagementRows(p)
      [] pivot = "infra_overlap" -> InfraRows(p)
      [] pivot = "account_link" -> AccountLinkRows(p)

\* ORDER BY: rows of equal keys may come in any order.
OrderKey(pivot, row) ==
    CASE pivot = "shared_metadata" -> <<row.field, row.peer>>
      [] pivot = "temporal_correlation" -> <<row.at, row.id>>
      [] pivot = "engagement_edge" -> <<0 - Cardinality(EngagementsOf(row)), row.account, row.target>>
      [] pivot = "infra_overlap" -> <<row.type, row.peer>>
      [] pivot = "account_link" -> <<row.relation, 0 - row.weight, row.account>>

Before(x, y) == \E i \in DOMAIN x : x[i] < y[i] /\ \A j \in 1 .. i - 1 : x[j] = y[j]

\* The answers the query may give: its rows in order, cut at the limit.
Answers(pivot, p) ==
    LET rows == RowsFound(pivot, p)
        shown == 1 .. Min({p.limit, Cardinality(rows)})
    IN {s \in [shown -> rows] :
          /\ IsInjective(s)
          /\ \A i \in shown : \A later \in rows \ {s[j] : j \in 1 .. i} :
                ~Before(OrderKey(pivot, later), OrderKey(pivot, s[i]))}

(***************************************************************************)
(* The records one row becomes.                                            *)
(***************************************************************************)
NodeId(entity) == <<"node", entity>>
ProvenanceId(hop) == <<"prov", hop>>
Edge(relation, source, target, discriminator) == <<"edge", relation, source, target, discriminator>>
Event(kind, node, what, value) == <<"event", kind, node, what, value>>

EntitiesOf(pivot, row) ==
    CASE pivot \in {"shared_metadata", "infra_overlap"} -> <<row.peer>>
      [] pivot = "temporal_correlation" -> <<row.video, row.account>>
      [] pivot = "engagement_edge" ->
            IF row.target \in Videos THEN <<row.account, row.target>> ELSE <<row.account>>
      [] pivot = "account_link" -> <<row.account>>

EngagementEdges(p, row) ==
    {Edge("engaged_with", row.account, row.target, row.kind)}
    \cup {Edge("published_on", p.entity, v, 0) : v \in Videos \cap {row.target}}

EdgesOf(pivot, p, row) ==
    CASE pivot = "shared_metadata" -> {Edge("shares_metadata", p.entity, row.peer, row.field)}
      [] pivot = "temporal_correlation" ->
            {Edge("published_on", p.entity, row.video, 0), Edge("commented_on", row.account, row.video, 0)}
      [] pivot = "engagement_edge" -> EngagementEdges(p, row)
      [] pivot = "infra_overlap" -> {Edge("shares_infra_signal", p.entity, row.peer, row.type)}
      [] pivot = "account_link" ->
            {Edge(IF row.relation = Owner THEN "owns_channel" ELSE "commented_on", row.account, p.entity, 0)}

\* wrong variant: an observed signal is named by its type alone
SignalByType(row) == Event("signal", row.peer, row.type, 0)
SignalEvent(row) == Event("signal", row.peer, row.type, row.value)

EventsOf(pivot, row) ==
    CASE pivot = "temporal_correlation" -> {Event("comment", row.account, row.id, 0)}
      [] pivot = "engagement_edge" -> {Event("engagement", row.account, row.target, row.kind)}
      [] pivot = "infra_overlap" -> {SignalEvent(row)}
      [] OTHER -> {}

RecordsOf(pivot, p, row) ==
    {NodeId(e) : e \in Range(EntitiesOf(pivot, row))} \cup EdgesOf(pivot, p, row) \cup EventsOf(pivot, row)

(***************************************************************************)
(* EvidencePack: the entities in the order they entered, the hop that      *)
(* first saw each record, and the pivot of each hop.                       *)
(***************************************************************************)
Seed(subject) == [order |-> <<subject>>, found |-> [id \in {NodeId(subject)} |-> 0], hops |-> <<>>]

Entities(pack) == Range(pack.order)
Hops(pack) == Len(pack.hops)
RecordIds(pack) == DOMAIN pack.found \cup {ProvenanceId(n) : n \in 0 .. Hops(pack)}
NodesAtHop(pack, budget) == {e \in Entities(pack) : pack.found[NodeId(e)] <= budget}

\* wrong variant: a later sighting takes the record over
KeepLast(found, ids, hop) == [id \in DOMAIN found \cup ids |-> IF id \in ids THEN hop ELSE found[id]]
KeepFirst(found, ids, hop) ==
    [id \in DOMAIN found \cup ids |-> IF id \in DOMAIN found THEN found[id] ELSE hop]

AppendUnseen(order, entities) ==
    order \o Those(entities, {n \in DOMAIN entities :
                                 /\ entities[n] \notin Range(order)
                                 /\ \A k \in 1 .. n - 1 : entities[k] # entities[n]})

WithHop(pack, pivot, p, answer) ==
    LET entities == Joined([i \in DOMAIN answer |-> EntitiesOf(pivot, answer[i])], 2)
        ids == UNION {RecordsOf(pivot, p, row) : row \in Range(answer)}
    IN [order |-> AppendUnseen(pack.order, entities),
        found |-> KeepFirst(pack.found, ids, Hops(pack) + 1),
        hops |-> Append(pack.hops, [pivot |-> pivot, params |-> p])]

\* EvidencePack.__post_init__: the subject is in its own pack, every edge and
\* event is about entities of it, every record is of one of its hops.
PackConstructs(pack) ==
    /\ NodeId(Head(pack.order)) \in DOMAIN pack.found
    /\ IsInjective(pack.order)
    /\ \A id \in DOMAIN pack.found :
          /\ pack.found[id] \in 0 .. Hops(pack)
          /\ id[1] = "edge" => {id[3], id[4]} \subseteq Entities(pack)
          /\ id[1] = "event" => id[3] \in Entities(pack)

\* evidence_pack_check asks the same again of the object it is handed, and
\* whether every hop is of a template this build has.
PackGate(pack) ==
    PackConstructs(pack) /\ \A i \in DOMAIN pack.hops : pack.hops[i].pivot \in Pivots

(***************************************************************************)
(* check_proposal and validate_params.  A proposal is a pivot name, a map  *)
(* of parameters and the record ids its reason cites.                      *)
(***************************************************************************)
ParamValid(pivot, name, value, known) ==
    CASE name = "entity" -> value \in known
      [] name = "choice" -> value \in ChoiceValues[pivot] \cup {Wildcard}
      [] OTHER -> value \in Bounds[name].least .. Bounds[name].most

ParamsValid(pivot, params, known) ==
    /\ DOMAIN params = ParamNames[pivot]
    /\ \A name \in DOMAIN params : ParamValid(pivot, name, params[name], known)

Supported(cites, resolvable) == cites # {} /\ cites \subseteq resolvable

CheckProposal(proposal, pack) ==
    CASE ~proposal.parses -> "malformed"
      [] proposal.parses /\ proposal.pivot \notin Pivots -> "unknown_pivot"
      [] proposal.parses /\ proposal.pivot \in Pivots /\ ~Supported(proposal.cites, RecordIds(pack)) ->
            "unresolved_citation"
      [] OTHER ->
            IF ParamsValid(proposal.pivot, proposal.params, Entities(pack)) THEN "accepted" ELSE "invalid_params"

(***************************************************************************)
(* stub_evidence_responder: the offline agent asks, at hop h, the h-th of  *)
(* the questions its prompt supports.  The prompt shows ShowLimit records, *)
(* provenance first.                                                       *)
(***************************************************************************)
Shown(pack) ==
    LET room == ShowLimit - (Hops(pack) + 1)
    IN SubSeq(pack.order, 1, Max({1, Min({room, Len(pack.order)})}))

KindPivots(entity) ==
    CASE entity \in Channels -> <<"account_link", "engagement_edge", "infra_overlap">>
      [] entity \in Accounts -> <<"infra_overlap", "shared_metadata">>
      [] OTHER -> <<>>

WorkList(pack) ==
    Joined([i \in DOMAIN Shown(pack) |->
        [k \in DOMAIN KindPivots(pack.order[i]) |-> <<KindPivots(pack.order[i])[k], pack.order[i]>>]], 3)

StubQuestion(pack) ==
    LET work == WorkList(pack)
    IN work[Min({Hops(pack) + 1, Len(work)})]
====
