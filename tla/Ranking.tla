---- MODULE Ranking ----
(***************************************************************************)
(* Sets and sequences put in an order: what the code's sorted(), ORDER BY, *)
(* filters and concatenations do.  Everything is placed by counting what   *)
(* comes before it.                                                        *)
(***************************************************************************)
EXTENDS Integers, Sequences, FiniteSets

\* The members of a set in a strict order: as many are before each as belong there.
Ranked(members, before) ==
    [r \in 1 .. Cardinality(members) |->
        CHOOSE x \in members : Cardinality({y \in members : <<y, x>> \in before}) = r - 1]

\* What a sequence holds at some of its places, in order.
Those(seq, places) ==
    LET order == Ranked(places, {p \in places \X places : p[1] < p[2]})
    IN [i \in DOMAIN order |-> seq[order[i]]]

\* Sequences of at most width elements, one after the other: the k-th of the
\* i-th stands at place (i - 1) * width + k.
Cells(seqs, width) == 1 .. Len(seqs) * width
Row(n, width) == ((n - 1) \div width) + 1
Column(n, width) == ((n - 1) % width) + 1
Joined(seqs, width) ==
    Those([n \in Cells(seqs, width) |-> seqs[Row(n, width)][Column(n, width)]],
          {n \in Cells(seqs, width) : Column(n, width) \in DOMAIN seqs[Row(n, width)]})
====
