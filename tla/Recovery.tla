---- MODULE Recovery ----
(***************************************************************************)
(* measurement/recovery.py: how much of a planted network a pack held      *)
(* after so many pivots, counted against the sealed labels.  Fractions are *)
(* left as their counts.                                                   *)
(***************************************************************************)
EXTENDS EvidencePack

CONSTANTS SealedLabels    \* sealed._labels: [entity, kind, ring], benign rows without one

PackNodeKinds == {"account", "channel", "video"}

\* read_ring_membership: the rows that name a ring.
Planted == {label \in SealedLabels : label.ring # Null}
RingsFor(entity) == {label.ring : label \in {l \in Planted : l.entity = entity}}
Members(ring) == {label.entity : label \in {l \in Planted : l.ring = ring}}

\* As the generator plants them; with two, ring_of would keep the last row's.
ASSUME RecoveryAssumption ==
    /\ IsFiniteSet(SealedLabels)
    /\ \A a, b \in Planted : a.entity = b.entity => a = b
    /\ \A l \in Planted : l.entity \in Channels \cup Accounts \cup Videos => l.kind \in PackNodeKinds

KindOf(entity) == (CHOOSE label \in Planted : label.entity = entity).kind

\* The subject was given: it is in no count.
Others(subject) == (UNION {Members(ring) : ring \in RingsFor(subject)}) \ {subject}
Reachable(subject) == {entity \in Others(subject) : KindOf(entity) \in PackNodeKinds}

Recovered(pack, budget) ==
    Cardinality(NodesAtHop(pack, budget) \cap Others(Head(pack.order)))

\* recovery_for_pack; a subject without a ring has no result.
RecoveryForPack(pack, budgets) ==
    LET subject == Head(pack.order)
    IN {[ring_id |-> ring,
         ring_size |-> Cardinality(Others(subject)),
         reachable_size |-> Cardinality(Reachable(subject)),
         recovered |-> [budget \in budgets |-> Recovered(pack, budget)]] : ring \in RingsFor(subject)}
====
