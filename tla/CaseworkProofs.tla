---- MODULE CaseworkProofs ----
(***************************************************************************)
(* What holds of every case, whatever the pages, the corpus, the platform  *)
(* and the responses: the accepted memo is grounded, the pack explains     *)
(* itself and a hop moves nothing in it, the anchors of a page stay and    *)
(* its callouts stand alone, and what is sent of a text is the text with   *)
(* markers.                                                                *)
(*                                                                         *)
(* The invariant is CaseInv.  Of the corpus it says which documents the    *)
(* directory can hold and so which load; of the pack, that it is gathered  *)
(* (every record is from a row of the hop it names) and connected (what    *)
(* holds the subject and its neighbours, and theirs, holds all in reach).  *)
(* What a page makes rests on Placed, which says where in the page each    *)
(* state of the parser stands.  The lemmas before are about the operators  *)
(* the code's lists are made of: sequences placed by counting, recursion   *)
(* over a sequence, a set that grows until it stops.                       *)
(***************************************************************************)
EXTENDS Casework, FiniteSetTheorems, SequenceTheorems, WellFoundedInduction, TLAPS

(***************************************************************************)
(* Orders and places.                                                      *)
(***************************************************************************)

\* A nonempty set of naturals has a least member.
LEMMA LeastOf ==
    ASSUME NEW S, S \subseteq Nat, S # {}
    PROVE  \E n \in S : \A k \in S : n <= k
<1>1. PICK n \in S : \A k \in S : ~ (<<k, n>> \in OpToRel(<, Nat))
  BY NatLessThanWellFounded, WFMin
<1>2. \A k \in S : ~ (k < n)
  BY <1>1 DEF OpToRel
<1> QED BY <1>2

\* A finite set in a strict total order: each member has one place, by what is
\* before it, and of two places the earlier one's member comes before.
LEMMA RankedIsSorted ==
    ASSUME NEW S, IsFiniteSet(S), NEW before,
           \A x \in S : <<x, x>> \notin before,
           \A x, y \in S : x # y => <<x, y>> \in before \/ <<y, x>> \in before,
           \A x, y, z \in S : <<x, y>> \in before /\ <<y, z>> \in before => <<x, z>> \in before
    PROVE  /\ Cardinality(S) \in Nat
           /\ Ranked(S, before) \in [1 .. Cardinality(S) -> S]
           /\ \A x \in S : \E r \in 1 .. Cardinality(S) : Ranked(S, before)[r] = x
           /\ \A x \in S : \A r \in 1 .. Cardinality(S) :
                  Cardinality({y \in S : <<y, x>> \in before}) = r - 1 <=> Ranked(S, before)[r] = x
           /\ \A q, r \in 1 .. Cardinality(S) :
                  q < r => <<Ranked(S, before)[q], Ranked(S, before)[r]>> \in before
<1> DEFINE n == Cardinality(S)
           Below(x) == {y \in S : <<y, x>> \in before}
           rank == [x \in S |-> Cardinality(Below(x))]
           R == Ranked(S, before)
<1>1. n \in Nat
  BY FS_CardinalityType
<1>2. \A x \in S : IsFiniteSet(Below(x)) /\ Cardinality(Below(x)) \in 0 .. n - 1
  <2> SUFFICES ASSUME NEW x \in S
               PROVE  IsFiniteSet(Below(x)) /\ Cardinality(Below(x)) \in 0 .. n - 1
    OBVIOUS
  <2>1. IsFiniteSet(S \ {x}) /\ Cardinality(S \ {x}) = n - 1
    BY FS_RemoveElement
  <2>2. Below(x) \in SUBSET (S \ {x})
    OBVIOUS
  <2> HIDE DEF Below, n
  <2>3. IsFiniteSet(Below(x)) /\ Cardinality(Below(x)) <= n - 1
    BY <2>1, <2>2, FS_Subset
  <2>4. Cardinality(Below(x)) \in Nat
    BY <2>3, FS_CardinalityType
  <2> QED BY <1>1, <2>3, <2>4
<1>3. \A x, y \in S : <<x, y>> \in before => rank[x] < rank[y]
  <2> SUFFICES ASSUME NEW x \in S, NEW y \in S, <<x, y>> \in before
               PROVE  rank[x] < rank[y]
    OBVIOUS
  <2>1. Below(x) \in SUBSET (Below(y) \ {x}) /\ x \in Below(y)
    OBVIOUS
  <2>2. IsFiniteSet(Below(x)) /\ IsFiniteSet(Below(y))
    BY <1>2
  <2> HIDE DEF Below
  <2>6. Cardinality(Below(x)) \in Nat /\ Cardinality(Below(y)) \in Nat
    BY <2>2, FS_CardinalityType
  <2>3. /\ IsFiniteSet(Below(y) \ {x})
        /\ Cardinality(Below(y) \ {x}) = Cardinality(Below(y)) - 1
    BY <2>1, <2>2, FS_RemoveElement
  <2>4. Cardinality(Below(x)) <= Cardinality(Below(y) \ {x})
    BY <2>1, <2>3, FS_Subset
  <2>5. rank[x] = Cardinality(Below(x)) /\ rank[y] = Cardinality(Below(y))
    OBVIOUS
  <2> HIDE DEF rank
  <2> QED BY <2>3, <2>4, <2>5, <2>6
<1>4. rank \in [S -> 0 .. n - 1]
  BY <1>2
<1>5. \A x, y \in S : rank[x] = rank[y] => x = y
  <2> SUFFICES ASSUME NEW x \in S, NEW y \in S, x # y PROVE rank[x] # rank[y]
    OBVIOUS
  <2>1. rank[x] \in 0 .. n - 1 /\ rank[y] \in 0 .. n - 1
    BY <1>4
  <2>2. rank[x] < rank[y] \/ rank[y] < rank[x]
    BY <1>3
  <2> HIDE DEF rank, n
  <2> QED BY <1>1, <2>1, <2>2
<1>6. \A k \in 0 .. n - 1 : \E x \in S : rank[x] = k
  <2> HIDE DEF rank, n
  <2>1. rank \in Injection(S, 0 .. n - 1)
    BY <1>4, <1>5 DEF Injection, IsInjective
  <2>2. IsFiniteSet(0 .. n - 1) /\ Cardinality(0 .. n - 1) = n
    BY <1>1, FS_Interval
  <2>3. rank \in Surjection(S, 0 .. n - 1)
    BY <2>1, <2>2, FS_Injection DEF n
  <2> QED BY <2>3 DEF Surjection
<1>7. \A r \in 1 .. n : R[r] \in S /\ rank[R[r]] = r - 1
  <2> SUFFICES ASSUME NEW r \in 1 .. n PROVE R[r] \in S /\ rank[R[r]] = r - 1
    OBVIOUS
  <2>1. r - 1 \in 0 .. n - 1
    BY <1>1
  <2>2. \E x \in S : Cardinality(Below(x)) = r - 1
    BY <1>6, <2>1
  <2>3. R[r] = CHOOSE x \in S : Cardinality(Below(x)) = r - 1
    BY DEF Ranked
  <2>4. R[r] \in S /\ Cardinality(Below(R[r])) = r - 1
    BY <2>2, <2>3
  <2> QED BY <2>4
<1>8. R \in [1 .. n -> S]
  BY <1>7 DEF Ranked
<1>9. \A x \in S : \E r \in 1 .. n : R[r] = x
  <2> SUFFICES ASSUME NEW x \in S PROVE \E r \in 1 .. n : R[r] = x
    OBVIOUS
  <2> HIDE DEF rank, R, n
  <2>1. rank[x] \in 0 .. n - 1
    BY <1>4
  <2>2. rank[x] + 1 \in 1 .. n /\ (rank[x] + 1) - 1 = rank[x]
    BY <1>1, <2>1
  <2>3. R[rank[x] + 1] \in S /\ rank[R[rank[x] + 1]] = rank[x]
    BY <1>7, <2>2
  <2> QED BY <1>5, <2>2, <2>3
<1>10. \A q, r \in 1 .. n : q < r => <<R[q], R[r]>> \in before
  <2> SUFFICES ASSUME NEW q \in 1 .. n, NEW r \in 1 .. n, q < r
               PROVE  <<R[q], R[r]>> \in before
    OBVIOUS
  <2> HIDE DEF rank, R, n
  <2>1. /\ R[q] \in S /\ rank[R[q]] = q - 1
        /\ R[r] \in S /\ rank[R[r]] = r - 1
    BY <1>7
  <2>2. ~ (rank[R[r]] < rank[R[q]]) /\ rank[R[q]] # rank[R[r]]
    BY <1>1, <2>1
  <2> QED BY <1>3, <2>1, <2>2
<1>11. \A x \in S : \A r \in 1 .. n : Cardinality(Below(x)) = r - 1 <=> R[r] = x
  <2> SUFFICES ASSUME NEW x \in S, NEW r \in 1 .. n
               PROVE  Cardinality(Below(x)) = r - 1 <=> R[r] = x
    OBVIOUS
  <2>1. rank[x] = Cardinality(Below(x))
    OBVIOUS
  <2> HIDE DEF rank, R, n
  <2>2. R[r] \in S /\ rank[R[r]] = r - 1
    BY <1>7
  <2> QED BY <1>5, <2>1, <2>2
<1> QED BY <1>1, <1>8, <1>9, <1>10, <1>11

\* Places in the order of their numbers.
Ascending(places) == {p \in places \X places : p[1] < p[2]}

\* Some places of a sequence: they are taken in their order, each once.
LEMMA PlacesInOrder ==
    ASSUME NEW places, places \subseteq Nat, IsFiniteSet(places)
    PROVE  /\ Cardinality(places) \in Nat
           /\ Ranked(places, Ascending(places)) \in [1 .. Cardinality(places) -> places]
           /\ \A x \in places : \E r \in 1 .. Cardinality(places) :
                  Ranked(places, Ascending(places))[r] = x
           /\ \A x \in places : \A r \in 1 .. Cardinality(places) :
                  Cardinality({y \in places : <<y, x>> \in Ascending(places)}) = r - 1
                      <=> Ranked(places, Ascending(places))[r] = x
           /\ \A q, r \in 1 .. Cardinality(places) :
                  q < r => Ranked(places, Ascending(places))[q] < Ranked(places, Ascending(places))[r]
<1>1. /\ \A x \in places : <<x, x>> \notin Ascending(places)
      /\ \A x, y \in places :
            x # y => <<x, y>> \in Ascending(places) \/ <<y, x>> \in Ascending(places)
      /\ \A x, y, z \in places :
            <<x, y>> \in Ascending(places) /\ <<y, z>> \in Ascending(places)
                => <<x, z>> \in Ascending(places)
  <2>1. \A x, y \in places : <<x, y>> \in Ascending(places) <=> x < y
    BY DEF Ascending
  <2>2. \A x, y, z \in places : ~ (x < x) /\ (x # y => x < y \/ y < x) /\ (x < y /\ y < z => x < z)
    OBVIOUS
  <2> QED BY <2>1, <2>2
<1>2. /\ Cardinality(places) \in Nat
      /\ Ranked(places, Ascending(places)) \in [1 .. Cardinality(places) -> places]
      /\ \A x \in places : \E r \in 1 .. Cardinality(places) :
             Ranked(places, Ascending(places))[r] = x
      /\ \A x \in places : \A r \in 1 .. Cardinality(places) :
             Cardinality({y \in places : <<y, x>> \in Ascending(places)}) = r - 1
                 <=> Ranked(places, Ascending(places))[r] = x
      /\ \A q, r \in 1 .. Cardinality(places) : q < r =>
             <<Ranked(places, Ascending(places))[q], Ranked(places, Ascending(places))[r]>>
                 \in Ascending(places)
  BY <1>1, RankedIsSorted
<1>3. \A x, y : <<x, y>> \in Ascending(places) => x < y
  BY DEF Ascending
<1> QED BY <1>2, <1>3

\* A sequence is one of what it holds.
LEMMA SequenceOfItsOwn ==
    ASSUME NEW S, NEW s \in Seq(S)
    PROVE  s \in Seq(Range(s))
<1>1. Len(s) \in Nat /\ DOMAIN s = 1 .. Len(s) /\ s \in [1 .. Len(s) -> S]
  OBVIOUS
<1>2. s \in [1 .. Len(s) -> Range(s)]
  BY <1>1 DEF Range
<1> QED BY <1>1, <1>2

\* Of two columns or three, the k-th of the i-th has a place of its own.
LEMMA PlaceOf ==
    ASSUME NEW width \in {2, 3}, NEW seqs, Len(seqs) \in Nat
    PROVE  /\ \A i \in 1 .. Len(seqs) : \A k \in 1 .. width : \E n \in Cells(seqs, width) :
                 Row(n, width) = i /\ Column(n, width) = k
           /\ \A n \in Cells(seqs, width) :
                 Row(n, width) \in 1 .. Len(seqs) /\ Column(n, width) \in 1 .. width
           /\ Cells(seqs, width) \subseteq Nat /\ IsFiniteSet(Cells(seqs, width))
<1>1. PICK len \in Nat : len = Len(seqs)
  OBVIOUS
<1>2. ASSUME NEW i \in 1 .. len, NEW k \in 1 .. width
      PROVE  \E n \in 1 .. len * width : ((n - 1) \div width) + 1 = i /\ ((n - 1) % width) + 1 = k
  <2> DEFINE n == (i - 1) * width + k
  <2>1. n \in 1 .. len * width /\ ((n - 1) \div width) + 1 = i /\ ((n - 1) % width) + 1 = k
    <3>1. CASE width = 2
      BY <3>1
    <3>2. CASE width = 3
      BY <3>2
    <3> QED BY <3>1, <3>2
  <2> HIDE DEF n
  <2> QED BY <2>1
<1>3. ASSUME NEW n \in 1 .. len * width
      PROVE  ((n - 1) \div width) + 1 \in 1 .. len /\ ((n - 1) % width) + 1 \in 1 .. width
  <2>1. CASE width = 2
    BY <2>1
  <2>2. CASE width = 3
    BY <2>2
  <2> QED BY <2>1, <2>2
<1>4. 1 .. len * width \subseteq Nat /\ IsFiniteSet(1 .. len * width)
  <2> DEFINE all == len * width
  <2>1. all \in Nat
    OBVIOUS
  <2> HIDE DEF all
  <2>2. 1 .. all \subseteq Nat /\ IsFiniteSet(1 .. all)
    BY <2>1, FS_Interval
  <2> QED BY <2>2 DEF all
<1> QED BY <1>1, <1>2, <1>3, <1>4 DEF Cells, Row, Column

\* Sequences one after the other hold what they hold.
LEMMA JoinedHolds ==
    ASSUME NEW seqs, NEW width \in {2, 3}, Len(seqs) \in Nat, DOMAIN seqs = 1 .. Len(seqs),
           \A i \in DOMAIN seqs : DOMAIN seqs[i] \subseteq 1 .. width
    PROVE  /\ Len(Joined(seqs, width)) \in Nat
           /\ DOMAIN Joined(seqs, width) = 1 .. Len(Joined(seqs, width))
           /\ Range(Joined(seqs, width)) = UNION {Range(seqs[i]) : i \in DOMAIN seqs}
<1> DEFINE all == Cells(seqs, width)
           places == {n \in all : Column(n, width) \in DOMAIN seqs[Row(n, width)]}
           flat == [n \in all |-> seqs[Row(n, width)][Column(n, width)]]
           at == Ranked(places, Ascending(places))
           J == Joined(seqs, width)
<1>1. J = [r \in DOMAIN at |-> flat[at[r]]]
  BY DEF Joined, Those, Ascending
<1>2. places \subseteq all /\ all \subseteq Nat /\ IsFiniteSet(all)
  BY PlaceOf
<1> HIDE DEF all, J
<1>3. places \subseteq Nat /\ IsFiniteSet(places)
  <2> HIDE DEF places
  <2> QED BY <1>2, FS_Subset
<1> HIDE DEF places, flat
<1>4. /\ Cardinality(places) \in Nat /\ at \in [1 .. Cardinality(places) -> places]
      /\ \A n \in places : \E r \in 1 .. Cardinality(places) : at[r] = n
  BY <1>3, PlacesInOrder
<1> HIDE DEF at
<1>5. J = [r \in 1 .. Cardinality(places) |-> flat[at[r]]]
  BY <1>1, <1>4
<1>6. DOMAIN J = 1 .. Cardinality(places) /\ Len(J) = Cardinality(places)
  BY <1>4, <1>5
<1>7. ASSUME NEW x \in Range(J) PROVE \E i \in DOMAIN seqs : x \in Range(seqs[i])
  <2>1. PICK r \in 1 .. Cardinality(places) : x = J[r]
    BY <1>6 DEF Range
  <2>2. PICK n \in places : x = flat[n]
    BY <1>4, <1>5, <2>1
  <2>3. /\ n \in all /\ x = seqs[Row(n, width)][Column(n, width)]
        /\ Column(n, width) \in DOMAIN seqs[Row(n, width)]
    BY <2>2 DEF places, flat
  <2>4. Row(n, width) \in DOMAIN seqs
    BY <2>3, PlaceOf DEF all
  <2> QED BY <2>3, <2>4 DEF Range
<1>8. ASSUME NEW i \in DOMAIN seqs, NEW x \in Range(seqs[i]) PROVE x \in Range(J)
  <2>1. PICK k \in DOMAIN seqs[i] : x = seqs[i][k]
    BY DEF Range
  <2>2. i \in 1 .. Len(seqs) /\ k \in 1 .. width
    OBVIOUS
  <2>3. PICK n \in all : Row(n, width) = i /\ Column(n, width) = k
    BY <2>2, PlaceOf DEF all
  <2>4. n \in places /\ flat[n] = x
    BY <2>1, <2>3 DEF places, flat
  <2> QED BY <1>4, <1>5, <1>6, <2>4 DEF Range
<1> QED BY <1>4, <1>6, <1>7, <1>8 DEF J

\* What is joined to further sequences keeps its places.
LEMMA JoinedGrows ==
    ASSUME NEW width \in {2, 3}, NEW few, NEW more,
           Len(few) \in Nat, DOMAIN few = 1 .. Len(few),
           Len(more) \in Nat, DOMAIN more = 1 .. Len(more),
           Len(few) <= Len(more), \A i \in 1 .. Len(few) : more[i] = few[i],
           \A i \in DOMAIN more : DOMAIN more[i] \subseteq 1 .. width
    PROVE  /\ Len(Joined(few, width)) <= Len(Joined(more, width))
           /\ \A r \in 1 .. Len(Joined(few, width)) : Joined(more, width)[r] = Joined(few, width)[r]
<1> DEFINE A == {n \in Cells(few, width) : Column(n, width) \in DOMAIN few[Row(n, width)]}
           B == {n \in Cells(more, width) : Column(n, width) \in DOMAIN more[Row(n, width)]}
           a == Ranked(A, Ascending(A))
           b == Ranked(B, Ascending(B))
           fewAt == [n \in Cells(few, width) |-> few[Row(n, width)][Column(n, width)]]
           moreAt == [n \in Cells(more, width) |-> more[Row(n, width)][Column(n, width)]]
<1>1. /\ Joined(few, width) = [r \in DOMAIN a |-> fewAt[a[r]]]
      /\ Joined(more, width) = [r \in DOMAIN b |-> moreAt[b[r]]]
  BY DEF Joined, Those, Ascending
<1>2. /\ Cells(few, width) \subseteq Cells(more, width)
      /\ \A x \in Cells(few, width) : \A y \in Cells(more, width) : y < x => y \in Cells(few, width)
  <2>1. PICK f \in Nat : f = Len(few)
    OBVIOUS
  <2>2. PICK m \in Nat : m = Len(more)
    OBVIOUS
  <2>3. f * width \in Nat /\ m * width \in Nat /\ f * width <= m * width
    <3>1. CASE width = 2
      BY <2>1, <2>2, <3>1
    <3>2. CASE width = 3
      BY <2>1, <2>2, <3>2
    <3> QED BY <3>1, <3>2
  <2> QED BY <2>1, <2>2, <2>3 DEF Cells
<1>3. \A n \in Cells(few, width) :
        /\ n \in A <=> n \in B
        /\ fewAt[n] = moreAt[n]
  <2> SUFFICES ASSUME NEW n \in Cells(few, width)
               PROVE  (n \in A <=> n \in B) /\ fewAt[n] = moreAt[n]
    OBVIOUS
  <2>1. Row(n, width) \in 1 .. Len(few) /\ n \in Cells(more, width)
    BY <1>2, PlaceOf
  <2>2. more[Row(n, width)] = few[Row(n, width)]
    BY <2>1
  <2> QED BY <2>1, <2>2
<1>4. A \subseteq Cells(few, width) /\ B \subseteq Cells(more, width)
  OBVIOUS
<1>5. /\ Cells(few, width) \subseteq Nat /\ IsFiniteSet(Cells(few, width))
      /\ Cells(more, width) \subseteq Nat /\ IsFiniteSet(Cells(more, width))
  BY PlaceOf
<1> HIDE DEF A, B, fewAt, moreAt
<1>6. A \subseteq B /\ \A x \in A : \A y \in B : y < x => y \in A
  BY <1>2, <1>3, <1>4
<1>7. IsFiniteSet(A) /\ IsFiniteSet(B) /\ A \subseteq Nat /\ B \subseteq Nat
  BY <1>4, <1>5, FS_Subset
<1>8. Cardinality(A) \in Nat /\ Cardinality(B) \in Nat /\ Cardinality(A) <= Cardinality(B)
  BY <1>6, <1>7, FS_Subset, FS_CardinalityType
<1>9. /\ a \in [1 .. Cardinality(A) -> A]
      /\ \A x \in A : \A r \in 1 .. Cardinality(A) :
            Cardinality({y \in A : <<y, x>> \in Ascending(A)}) = r - 1 <=> a[r] = x
  BY <1>7, PlacesInOrder
<1>10. /\ b \in [1 .. Cardinality(B) -> B]
       /\ \A x \in B : \A r \in 1 .. Cardinality(B) :
             Cardinality({y \in B : <<y, x>> \in Ascending(B)}) = r - 1 <=> b[r] = x
  BY <1>7, PlacesInOrder
<1> HIDE DEF a, b
<1>11. ASSUME NEW r \in 1 .. Cardinality(A) PROVE r \in 1 .. Cardinality(B) /\ b[r] = a[r]
  <2>1. PICK x \in A : a[r] = x
    BY <1>9
  <2>2. r \in 1 .. Cardinality(B) /\ x \in B
    BY <1>6, <1>8
  <2>3. {y \in B : <<y, x>> \in Ascending(B)} = {y \in A : <<y, x>> \in Ascending(A)}
    <3>1. \A y : <<y, x>> \in Ascending(B) <=> y \in B /\ y < x
      BY <2>2 DEF Ascending
    <3>2. \A y : <<y, x>> \in Ascending(A) <=> y \in A /\ y < x
      BY <2>1 DEF Ascending
    <3> QED BY <1>6, <3>1, <3>2
  <2>4. Cardinality({y \in A : <<y, x>> \in Ascending(A)}) = r - 1
    BY <1>9, <2>1
  <2>5. b[r] = x
    BY <1>10, <2>2, <2>3, <2>4
  <2> QED BY <2>1, <2>2, <2>5
<1> DEFINE J == Joined(few, width)
           K == Joined(more, width)
<1>12. /\ J = [r \in 1 .. Cardinality(A) |-> fewAt[a[r]]]
       /\ K = [r \in 1 .. Cardinality(B) |-> moreAt[b[r]]]
  BY <1>1, <1>9, <1>10
<1> HIDE DEF J, K
<1>13. Len(J) = Cardinality(A) /\ Len(K) = Cardinality(B)
  BY <1>8, <1>12
<1>14. ASSUME NEW r \in 1 .. Cardinality(A) PROVE K[r] = J[r]
  <2>1. r \in 1 .. Cardinality(B) /\ b[r] = a[r] /\ a[r] \in A
    BY <1>9, <1>11
  <2>2. fewAt[a[r]] = moreAt[a[r]]
    BY <1>3, <1>4, <2>1
  <2> QED BY <1>12, <2>1, <2>2
<1> QED BY <1>8, <1>13, <1>14 DEF J, K

\* What was in an order keeps its place; what is unseen comes behind it.
LEMMA UnseenComeBehind ==
    ASSUME NEW order, order \in Seq(Range(order)),
           NEW entities, Len(entities) \in Nat, DOMAIN entities = 1 .. Len(entities)
    PROVE  LET now == AppendUnseen(order, entities)
           IN /\ now \in Seq(Range(now))
              /\ Len(order) <= Len(now)
              /\ \A i \in 1 .. Len(order) : now[i] = order[i]
              /\ Range(now) = Range(order) \cup Range(entities)
<1> DEFINE now == AppendUnseen(order, entities)
           first == {n \in DOMAIN entities :
                       /\ entities[n] \notin Range(order)
                       /\ \A k \in 1 .. n - 1 : entities[k] # entities[n]}
           new == Those(entities, first)
<1>1. now = order \o new
  BY DEF AppendUnseen
<1>2. first \subseteq Nat /\ IsFiniteSet(first)
  <2>1. IsFiniteSet(1 .. Len(entities)) /\ first \subseteq 1 .. Len(entities)
    BY FS_Interval
  <2> QED BY <2>1, FS_Subset
<1> HIDE DEF now
<1>3. /\ Len(new) \in Nat /\ DOMAIN new = 1 .. Len(new) /\ new \in Seq(Range(entities))
      /\ \A n \in first : entities[n] \in Range(new)
  <2> HIDE DEF first
  <2> DEFINE at == Ranked(first, Ascending(first))
  <2>1. /\ Cardinality(first) \in Nat /\ at \in [1 .. Cardinality(first) -> first]
        /\ \A n \in first : \E r \in 1 .. Cardinality(first) : at[r] = n
    BY <1>2, PlacesInOrder
  <2>2. new = [r \in DOMAIN at |-> entities[at[r]]]
    BY DEF Those, Ascending
  <2> HIDE DEF at, new
  <2>3. new = [r \in 1 .. Cardinality(first) |-> entities[at[r]]]
    BY <2>1, <2>2
  <2>4. \A n \in first : n \in DOMAIN entities
    BY DEF first
  <2>5. new \in [1 .. Cardinality(first) -> Range(entities)]
    BY <2>1, <2>3, <2>4 DEF Range
  <2>6. \A n \in first : entities[n] \in Range(new)
    BY <2>1, <2>3 DEF Range
  <2> QED BY <2>1, <2>5, <2>6
<1> DEFINE Both == Range(order) \cup Range(entities)
<1>4. order \in Seq(Both) /\ new \in Seq(Both)
  <2> HIDE DEF new
  <2> QED BY <1>3
<1> HIDE DEF new, Both
<1>5. /\ now \in Seq(Both) /\ Len(now) = Len(order) + Len(new)
      /\ \A i \in 1 .. Len(now) : now[i] = IF i <= Len(order) THEN order[i] ELSE new[i - Len(order)]
  BY <1>1, <1>4, ConcatProperties
<1>6. Len(order) \in Nat /\ Len(new) \in Nat /\ DOMAIN order = 1 .. Len(order) /\ DOMAIN now = 1 .. Len(now)
  BY <1>3, <1>5
<1>7. /\ Len(order) <= Len(now)
      /\ \A i \in 1 .. Len(order) : now[i] = order[i]
      /\ \A i \in 1 .. Len(new) : i + Len(order) \in DOMAIN now /\ now[i + Len(order)] = new[i]
  <2>1. \A i \in 1 .. Len(order) : i \in 1 .. Len(now) /\ i <= Len(order)
    BY <1>5, <1>6
  <2>2. \A i \in 1 .. Len(new) :
          /\ i + Len(order) \in 1 .. Len(now)
          /\ ~ (i + Len(order) <= Len(order))
          /\ i + Len(order) - Len(order) = i
    BY <1>5, <1>6
  <2>3. \A i \in 1 .. Len(order) : now[i] = order[i]
    BY <1>5, <2>1
  <2>4. \A i \in 1 .. Len(new) : now[i + Len(order)] = new[i]
    BY <1>5, <2>2
  <2> QED BY <1>5, <1>6, <2>2, <2>3, <2>4
<1>8. Range(now) \subseteq Both
  BY <1>5 DEF Range
<1>9. Range(order) \subseteq Range(now) /\ Range(new) \subseteq Range(now)
  <2>1. \A i \in DOMAIN order : i \in DOMAIN now
    BY <1>6, <1>7
  <2> QED BY <1>3, <1>6, <1>7, <2>1 DEF Range
<1>10. ASSUME NEW x \in Range(entities) PROVE x \in Range(now)
  <2> DEFINE at == {n \in DOMAIN entities : entities[n] = x}
  <2>1. at \subseteq Nat /\ at # {}
    BY DEF Range
  <2>2. PICK n \in at : \A k \in at : n <= k
    BY <2>1, LeastOf
  <2>3. CASE x \in Range(order)
    BY <1>9, <2>3
  <2>4. CASE x \notin Range(order)
    <3>1. \A k \in 1 .. n - 1 : entities[k] # entities[n]
      <4> SUFFICES ASSUME NEW k \in 1 .. n - 1, entities[k] = entities[n] PROVE FALSE
        OBVIOUS
      <4>1. n \in 1 .. Len(entities)
        OBVIOUS
      <4>2. k \in DOMAIN entities /\ k < n
        BY <4>1
      <4>3. k \in at
        BY <4>2
      <4> HIDE DEF at
      <4> QED BY <2>1, <2>2, <4>2, <4>3
    <3>2. n \in first
      BY <2>4, <3>1
    <3>3. entities[n] = x
      OBVIOUS
    <3> HIDE DEF first, at
    <3> QED BY <1>3, <1>9, <3>2, <3>3
  <2> QED BY <2>3, <2>4
<1>11. Range(now) = Range(order) \cup Range(entities)
  BY <1>8, <1>9, <1>10 DEF Both
<1>12. now \in Seq(Range(now))
  BY <1>5, <1>11 DEF Both
<1> QED BY <1>7, <1>11, <1>12 DEF now

(***************************************************************************)
(* The answers to a pivot.                                                 *)
(***************************************************************************)

\* What a function makes of a finite set is finite.
LEMMA FiniteImage ==
    ASSUME NEW S, IsFiniteSet(S), NEW f, DOMAIN f = S
    PROVE  IsFiniteSet({f[x] : x \in S})
<1> DEFINE T == {f[x] : x \in S}
           g == [x \in S |-> f[x]]
<1>1. g \in Surjection(S, T)
  BY DEF Surjection
<1> HIDE DEF T, g
<1>2. IsFiniteSet(T)
  BY <1>1, FS_Surjection
<1> QED BY <1>2 DEF T

\* Every query finds finitely many rows.
LEMMA RowsAreFinite ==
    ASSUME NEW pivot \in Pivots, NEW p
    PROVE  IsFiniteSet(RowsFound(pivot, p))
<1> USE PlatformAssumption
<1>1. IsFiniteSet(SharedMetadataRows(p))
  <2> DEFINE pairs == Accounts \X Platform.fields
             f == [x \in pairs |-> [peer |-> x[1], field |-> x[2]]]
             all == {f[x] : x \in pairs}
  <2>1. IsFiniteSet(pairs)
    BY FS_Product
  <2>2. IsFiniteSet(all)
    <3> HIDE DEF pairs
    <3>1. DOMAIN f = pairs
      OBVIOUS
    <3> HIDE DEF f
    <3> QED BY <2>1, <3>1, FiniteImage
  <2>3. SharedMetadataRows(p) \subseteq all
    <3> SUFFICES ASSUME NEW row \in SharedMetadataRows(p) PROVE row \in all
      OBVIOUS
    <3>1. row \in [peer : Accounts \ {p.entity}, field : Platform.fields]
      BY DEF SharedMetadataRows
    <3>2. <<row.peer, row.field>> \in pairs /\ row = [peer |-> row.peer, field |-> row.field]
      BY <3>1
    <3>3. f[<<row.peer, row.field>>] = row
      BY <3>2
    <3> HIDE DEF pairs, f
    <3> QED BY <3>2, <3>3
  <2> HIDE DEF all
  <2> QED BY <2>2, <2>3, FS_Subset
<1>2. IsFiniteSet(TemporalRows(p))
  <2>1. TemporalRows(p) \subseteq Platform.comments
    BY DEF TemporalRows
  <2> QED BY <2>1, FS_Subset
<1>3. IsFiniteSet(EngagementRows(p))
  <2> DEFINE f == [e \in Platform.engagements |->
                     [account |-> e.account, target |-> e.target, kind |-> e.kind]]
             all == {f[e] : e \in Platform.engagements}
  <2>1. EngagementRows(p) \subseteq all
    BY DEF EngagementRows
  <2>2. DOMAIN f = Platform.engagements
    OBVIOUS
  <2> HIDE DEF f
  <2>3. IsFiniteSet(all)
    BY <2>2, FiniteImage
  <2> HIDE DEF all
  <2> QED BY <2>1, <2>3, FS_Subset
<1>4. IsFiniteSet(InfraRows(p))
  <2> DEFINE f == [h \in Platform.hints |-> [peer |-> h.subject, type |-> h.type, value |-> h.value]]
             all == {f[h] : h \in Platform.hints}
  <2>1. InfraRows(p) \subseteq all
    BY DEF InfraRows
  <2>2. DOMAIN f = Platform.hints
    OBVIOUS
  <2> HIDE DEF f
  <2>3. IsFiniteSet(all)
    BY <2>2, FiniteImage
  <2> HIDE DEF all
  <2> QED BY <2>1, <2>3, FS_Subset
<1>5. IsFiniteSet(AccountLinkRows(p))
  <2> DEFINE Owned(c) == [account |-> Platform.owner[c], relation |-> Owner, weight |-> 1]
             Commented(a) == [account |-> a, relation |-> Commenter,
                              weight |-> Cardinality(CommentsBy(a, p.entity))]
             f == [c \in Channels |-> Owned(c)]
             g == [a \in Accounts |-> Commented(a)]
             owners == {f[c] : c \in Channels}
             commenters == {g[a] : a \in Accounts}
  <2>1. AccountLinkRows(p) \subseteq owners \cup commenters
    BY DEF AccountLinkRows
  <2>2. DOMAIN f = Channels /\ DOMAIN g = Accounts
    OBVIOUS
  <2> HIDE DEF f, g
  <2>3. IsFiniteSet(owners) /\ IsFiniteSet(commenters)
    BY <2>2, FiniteImage
  <2> HIDE DEF owners, commenters
  <2>4. IsFiniteSet(owners \cup commenters)
    BY <2>3, FS_Union
  <2> QED BY <2>1, <2>4, FS_Subset
<1> QED BY <1>1, <1>2, <1>3, <1>4, <1>5 DEF RowsFound, Pivots, ParamNames

\* An answer is a sequence of rows the query finds.
LEMMA AnswersAreRows ==
    ASSUME NEW pivot \in Pivots, NEW p, p.limit \in Nat, NEW answer \in Answers(pivot, p)
    PROVE  /\ Len(answer) \in Nat /\ DOMAIN answer = 1 .. Len(answer)
           /\ Range(answer) \subseteq RowsFound(pivot, p)
<1> DEFINE rows == RowsFound(pivot, p)
           ends == {p.limit, Cardinality(rows)}
<1>1. Cardinality(rows) \in Nat
  BY RowsAreFinite, FS_CardinalityType
<1>2. Min(ends) \in Nat
  <2> HIDE DEF rows
  <2>1. \E x \in ends : \A y \in ends : x <= y
    BY <1>1
  <2>2. Min(ends) \in ends
    BY <2>1 DEF Min
  <2> QED BY <1>1, <2>2
<1>3. answer \in [1 .. Min(ends) -> rows]
  BY DEF Answers
<1> HIDE DEF ends, rows
<1>4. Len(answer) = Min(ends)
  BY <1>2, <1>3
<1>5. Range(answer) \subseteq rows
  BY <1>3 DEF Range
<1> QED BY <1>2, <1>3, <1>4, <1>5 DEF rows

\* A row names one entity or two.
LEMMA RowsNameEntities ==
    ASSUME NEW pivot \in Pivots, NEW row
    PROVE  DOMAIN EntitiesOf(pivot, row) \subseteq 1 .. 2
BY DEF EntitiesOf, Pivots, ParamNames

(***************************************************************************)
(* What a hop makes of a pack.                                             *)
(***************************************************************************)

\* The entities an answer names and the records it tells.
NamedIn(pivot, answer) == UNION {Range(EntitiesOf(pivot, row)) : row \in Range(answer)}
ToldIn(pivot, p, answer) == UNION {RecordsOf(pivot, p, row) : row \in Range(answer)}

\* The entities before it keep their places and the records their hops; what
\* the rows name and tell is added.
LEMMA HopAdds ==
    ASSUME NEW k, k.order \in Seq(Range(k.order)), k.hops \in Seq(Range(k.hops)),
           NEW pivot \in Pivots, NEW p, NEW answer,
           Len(answer) \in Nat, DOMAIN answer = 1 .. Len(answer)
    PROVE  LET grown == WithHop(k, pivot, p, answer)
           IN /\ grown.order \in Seq(Range(grown.order))
              /\ Len(k.order) <= Len(grown.order)
              /\ \A i \in 1 .. Len(k.order) : grown.order[i] = k.order[i]
              /\ Entities(grown) = Entities(k) \cup NamedIn(pivot, answer)
              /\ grown.hops \in Seq(Range(grown.hops)) /\ Hops(grown) = Hops(k) + 1
              /\ DOMAIN grown.found = DOMAIN k.found \cup ToldIn(pivot, p, answer)
              /\ \A id \in DOMAIN k.found : grown.found[id] = k.found[id]
              /\ \A id \in ToldIn(pivot, p, answer) \ DOMAIN k.found : grown.found[id] = Hops(k) + 1
<1> DEFINE seqs == [i \in DOMAIN answer |-> EntitiesOf(pivot, answer[i])]
           entities == Joined(seqs, 2)
           grown == WithHop(k, pivot, p, answer)
           hop == [pivot |-> pivot, params |-> p]
<1>1. /\ grown.order = AppendUnseen(k.order, entities)
      /\ grown.found = KeepFirst(k.found, ToldIn(pivot, p, answer), Hops(k) + 1)
      /\ grown.hops = Append(k.hops, hop)
  BY DEF WithHop, ToldIn
<1>2. /\ Len(entities) \in Nat /\ DOMAIN entities = 1 .. Len(entities)
      /\ Range(entities) = NamedIn(pivot, answer)
  <2>1. /\ Len(seqs) \in Nat /\ DOMAIN seqs = 1 .. Len(seqs) /\ DOMAIN seqs = DOMAIN answer
        /\ \A i \in DOMAIN seqs : DOMAIN seqs[i] \subseteq 1 .. 2
    BY RowsNameEntities
  <2>2. \A i \in DOMAIN seqs : seqs[i] = EntitiesOf(pivot, answer[i])
    OBVIOUS
  <2> HIDE DEF seqs
  <2>3. 2 \in {2, 3}
    OBVIOUS
  <2>4. /\ Len(entities) \in Nat /\ DOMAIN entities = 1 .. Len(entities)
        /\ Range(entities) = UNION {Range(seqs[i]) : i \in DOMAIN seqs}
    BY <2>1, <2>3, JoinedHolds
  <2>5. UNION {Range(seqs[i]) : i \in DOMAIN seqs} = NamedIn(pivot, answer)
    <3>1. ASSUME NEW i \in DOMAIN seqs PROVE Range(seqs[i]) \subseteq NamedIn(pivot, answer)
      <4>1. answer[i] \in Range(answer) /\ seqs[i] = EntitiesOf(pivot, answer[i])
        BY <2>1, <2>2 DEF Range
      <4> QED BY <4>1 DEF NamedIn
    <3>2. ASSUME NEW row \in Range(answer)
          PROVE  \E i \in DOMAIN seqs : Range(EntitiesOf(pivot, row)) = Range(seqs[i])
      <4>1. PICK i \in DOMAIN answer : row = answer[i]
        BY DEF Range
      <4> QED BY <2>1, <2>2, <4>1
    <3> QED BY <3>1, <3>2 DEF NamedIn
  <2> QED BY <2>4, <2>5
<1> HIDE DEF entities, grown
<1>3. /\ grown.order \in Seq(Range(grown.order))
      /\ Len(k.order) <= Len(grown.order)
      /\ \A i \in 1 .. Len(k.order) : grown.order[i] = k.order[i]
      /\ Range(grown.order) = Range(k.order) \cup NamedIn(pivot, answer)
  <2> DEFINE order == k.order
             now == AppendUnseen(order, entities)
  <2>1. order \in Seq(Range(order)) /\ now = grown.order
    BY <1>1
  <2> HIDE DEF order
  <2>2. /\ now \in Seq(Range(now))
        /\ Len(order) <= Len(now)
        /\ \A i \in 1 .. Len(order) : now[i] = order[i]
        /\ Range(now) = Range(order) \cup Range(entities)
    BY <1>2, <2>1, UnseenComeBehind
  <2> QED BY <1>2, <2>1, <2>2 DEF order
<1>4. grown.hops \in Seq(Range(grown.hops)) /\ Len(grown.hops) = Len(k.hops) + 1
  <2> HIDE DEF hop
  <2> DEFINE both == Range(k.hops) \cup {hop}
  <2>1. k.hops \in Seq(both) /\ hop \in both
    OBVIOUS
  <2> HIDE DEF both
  <2>2. grown.hops \in Seq(both) /\ Len(grown.hops) = Len(k.hops) + 1
    BY <1>1, <2>1, AppendProperties
  <2>3. grown.hops \in Seq(Range(grown.hops))
    BY <2>2, SequenceOfItsOwn
  <2> QED BY <2>2, <2>3
<1>5. /\ DOMAIN grown.found = DOMAIN k.found \cup ToldIn(pivot, p, answer)
      /\ \A id \in DOMAIN k.found : grown.found[id] = k.found[id]
      /\ \A id \in ToldIn(pivot, p, answer) \ DOMAIN k.found : grown.found[id] = Hops(k) + 1
  BY <1>1 DEF KeepFirst
<1> QED BY <1>3, <1>4, <1>5 DEF grown, Entities, Hops

\* The entities a row names are those it tells of as nodes.
LEMMA NodesAreNamed ==
    ASSUME NEW pivot \in Pivots, NEW p, NEW row, NEW id \in RecordsOf(pivot, p, row), id[1] = "node"
    PROVE  id = NodeId(id[2]) /\ id[2] \in Range(EntitiesOf(pivot, row))
<1>1. CASE id \in {NodeId(e) : e \in Range(EntitiesOf(pivot, row))}
  <2>1. PICK e \in Range(EntitiesOf(pivot, row)) : id = NodeId(e)
    BY <1>1
  <2>2. id[2] = e
    BY <2>1 DEF NodeId
  <2> QED BY <2>1, <2>2
<1>2. CASE id \in EdgesOf(pivot, p, row)
  <2>1. id[1] = "edge"
    BY <1>2 DEF EdgesOf, EngagementEdges, Edge, Pivots, ParamNames
  <2> QED BY <2>1
<1>3. CASE id \in EventsOf(pivot, row)
  <2>1. id[1] = "event"
    BY <1>3 DEF EventsOf, SignalEvent, Event, Pivots, ParamNames
  <2> QED BY <2>1
<1> QED BY <1>1, <1>2, <1>3 DEF RecordsOf

(***************************************************************************)
(* A pack and the rows it was made of.                                     *)
(***************************************************************************)

\* Every entity is a node, every node an entity; every row returned is told by
\* records of its hop or an earlier one, and every record but the subject's
\* was told by a row of the hop that its provenance names.
Gathered ==
    /\ pack.order \in Seq(Range(pack.order)) /\ pack.order # <<>>
    /\ pack.hops \in Seq(Range(pack.hops))
    /\ \A e \in Entities(pack) : NodeId(e) \in DOMAIN pack.found
    /\ \A id \in DOMAIN pack.found :
          /\ pack.found[id] \in 0 .. Hops(pack)
          /\ id[1] = "node" => id = NodeId(id[2]) /\ id[2] \in Entities(pack)
    /\ \A s \in seen :
          /\ s.hop \in 1 .. Hops(pack)
          /\ s.pivot \in Pivots /\ s.row \in RowsFound(s.pivot, s.params)
          /\ \A id \in Told(s) : id \in DOMAIN pack.found /\ pack.found[id] <= s.hop
    /\ \A id \in DOMAIN pack.found \ {NodeId(Head(pack.order))} :
          \E s \in seen : s.hop = pack.found[id] /\ id \in Told(s)

\* A proposal is accepted only with parameters of its pivot, about an entity in
\* the pack and with a limit within its bounds.
LEMMA AcceptedIsValid ==
    ASSUME NEW proposal, NEW k, CheckProposal(proposal, k) = "accepted"
    PROVE  /\ proposal.pivot \in Pivots
           /\ proposal.params.entity \in Entities(k)
           /\ proposal.params.limit \in Nat
<1>1. proposal.pivot \in Pivots /\ ParamsValid(proposal.pivot, proposal.params, Entities(k))
  BY DEF CheckProposal
<1>2. /\ "entity" \in DOMAIN proposal.params /\ "limit" \in DOMAIN proposal.params
  BY <1>1 DEF ParamsValid, ParamNames, Pivots
<1>3. ParamValid(proposal.pivot, "entity", proposal.params.entity, Entities(k))
  BY <1>1, <1>2 DEF ParamsValid
<1>4. ParamValid(proposal.pivot, "limit", proposal.params.limit, Entities(k))
  BY <1>1, <1>2 DEF ParamsValid
<1>5. proposal.params.limit \in Bounds["limit"].least .. Bounds["limit"].most
  BY <1>4 DEF ParamValid
<1> QED BY <1>1, <1>3, <1>5, PlatformAssumption DEF ParamValid

\* What a row tells, by sort.
LEMMA RecordsBySort ==
    ASSUME NEW pivot \in Pivots, NEW p, NEW row, NEW id \in RecordsOf(pivot, p, row)
    PROVE  /\ id[1] = "edge" => id \in EdgesOf(pivot, p, row)
           /\ id[1] = "event" => id \in EventsOf(pivot, row)
<1>1. CASE id \in {NodeId(e) : e \in Range(EntitiesOf(pivot, row))}
  <2>1. id[1] = "node"
    BY <1>1 DEF NodeId
  <2> QED BY <2>1
<1>2. CASE id \in EdgesOf(pivot, p, row)
  <2>1. id[1] = "edge"
    BY <1>2 DEF EdgesOf, EngagementEdges, Edge, Pivots, ParamNames
  <2> QED BY <1>2, <2>1
<1>3. CASE id \in EventsOf(pivot, row)
  <2>1. id[1] = "event"
    BY <1>3 DEF EventsOf, SignalEvent, Event, Pivots, ParamNames
  <2> QED BY <1>3, <2>1
<1> QED BY <1>1, <1>2, <1>3 DEF RecordsOf

\* An edge among some records between two entities.
Joining(records, a, b) == \E id \in records : id[1] = "edge" /\ {id[3], id[4]} = {a, b}

\* An edge joins its ends, either way round.
LEMMA EdgeJoins ==
    ASSUME NEW records, NEW relation, NEW a, NEW b, NEW what, Edge(relation, a, b, what) \in records
    PROVE  Joining(records, a, b) /\ Joining(records, b, a)
<1>1. Edge(relation, a, b, what)[1] = "edge" /\ Edge(relation, a, b, what)[3] = a /\ Edge(relation, a, b, what)[4] = b
  BY DEF Edge
<1> QED BY <1>1 DEF Joining

\* What an entity of a row is.
LEMMA RowsAreOfThePlatform ==
    ASSUME NEW pivot \in Pivots, NEW p, NEW row \in RowsFound(pivot, p)
    PROVE  Range(EntitiesOf(pivot, row)) \subseteq Channels \cup Accounts \cup Videos
<1> USE PlatformAssumption DEF EntitiesOf, Range
<1>1. CASE pivot = "shared_metadata"
  <2>1. row.peer \in Accounts
    BY <1>1 DEF RowsFound, SharedMetadataRows
  <2> QED BY <1>1, <2>1
<1>2. CASE pivot = "temporal_correlation"
  <2>1. row.account \in Accounts /\ row.video \in Videos
    BY <1>2 DEF RowsFound, TemporalRows
  <2> QED BY <1>2, <2>1
<1>3. CASE pivot = "engagement_edge"
  <2>1. row.account \in Accounts
    BY <1>3 DEF RowsFound, EngagementRows
  <2> QED BY <1>3, <2>1
<1>4. CASE pivot = "infra_overlap"
  <2>1. row.peer \in Channels \cup Accounts
    BY <1>4 DEF RowsFound, InfraRows
  <2> QED BY <1>4, <2>1
<1>5. CASE pivot = "account_link"
  <2>1. row.account \in Accounts
    BY <1>5 DEF RowsFound, AccountLinkRows
  <2> QED BY <1>5, <2>1
<1> QED BY <1>1, <1>2, <1>3, <1>4, <1>5 DEF Pivots, ParamNames

\* An entity of a row is joined by it to the entity asked about, or to another
\* of the row that is.
LEMMA RowsJoinTheirEntities ==
    ASSUME NEW pivot \in Pivots, NEW p, NEW row \in RowsFound(pivot, p),
           NEW e \in Range(EntitiesOf(pivot, row))
    PROVE  \/ Joining(RecordsOf(pivot, p, row), p.entity, e)
           \/ \E v \in Range(EntitiesOf(pivot, row)) :
                 /\ Joining(RecordsOf(pivot, p, row), p.entity, v)
                 /\ Joining(RecordsOf(pivot, p, row), v, e)
<1> DEFINE records == RecordsOf(pivot, p, row)
<1>0. EdgesOf(pivot, p, row) \subseteq records
  BY DEF RecordsOf
<1> HIDE DEF records
<1>1. CASE pivot \in {"shared_metadata", "infra_overlap"}
  <2>1. e = row.peer
    BY <1>1 DEF EntitiesOf, Range
  <2>2. \E relation, what : Edge(relation, p.entity, row.peer, what) \in records
    BY <1>0, <1>1 DEF EdgesOf
  <2> QED BY <2>1, <2>2, EdgeJoins DEF records
<1>2. CASE pivot = "temporal_correlation"
  <2>1. EntitiesOf(pivot, row) = <<row.video, row.account>>
    BY <1>2 DEF EntitiesOf
  <2>2. e \in {row.video, row.account} /\ row.video \in Range(EntitiesOf(pivot, row))
    BY <2>1 DEF Range
  <2>3. /\ Edge("published_on", p.entity, row.video, 0) \in records
        /\ Edge("commented_on", row.account, row.video, 0) \in records
    BY <1>0, <1>2 DEF EdgesOf
  <2>4. Joining(records, p.entity, row.video) /\ Joining(records, row.video, row.account)
    BY <2>3, EdgeJoins
  <2> QED BY <2>2, <2>4 DEF records
<1>3. CASE pivot = "engagement_edge"
  <2>1. Edge("engaged_with", row.account, row.target, row.kind) \in records
    BY <1>0, <1>3 DEF EdgesOf, EngagementEdges
  <2>2. Joining(records, row.target, row.account)
    BY <2>1, EdgeJoins
  <2>3. CASE row.target \in Videos
    <3>1. EntitiesOf(pivot, row) = <<row.account, row.target>>
      BY <1>3, <2>3 DEF EntitiesOf
    <3>2. e \in {row.account, row.target} /\ row.target \in Range(EntitiesOf(pivot, row))
      BY <3>1 DEF Range
    <3>3. Edge("published_on", p.entity, row.target, 0) \in records
      BY <1>0, <1>3, <2>3 DEF EdgesOf, EngagementEdges
    <3>4. Joining(records, p.entity, row.target)
      BY <3>3, EdgeJoins
    <3> QED BY <2>2, <3>2, <3>4 DEF records
  <2>4. CASE row.target \notin Videos
    <3>1. e = row.account
      BY <1>3, <2>4 DEF EntitiesOf, Range
    <3>2. OnChannel(p.entity, row.target)
      BY <1>3 DEF RowsFound, EngagementRows
    <3>3. row.target = p.entity
      BY <2>4, <3>2 DEF OnChannel
    <3> QED BY <2>2, <3>1, <3>3 DEF records
  <2> QED BY <2>3, <2>4
<1>4. CASE pivot = "account_link"
  <2>1. e = row.account
    BY <1>4 DEF EntitiesOf, Range
  <2>2. \E relation : Edge(relation, row.account, p.entity, 0) \in records
    BY <1>0, <1>4 DEF EdgesOf
  <2> QED BY <2>1, <2>2, EdgeJoins DEF records
<1> QED BY <1>1, <1>2, <1>3, <1>4 DEF Pivots, ParamNames

\* An edge of a row is between the entity asked about and entities of the row.
LEMMA EdgesEndInTheRow ==
    ASSUME NEW pivot \in Pivots, NEW p, NEW row \in RowsFound(pivot, p),
           NEW id \in RecordsOf(pivot, p, row), id[1] = "edge"
    PROVE  \A e \in {id[3], id[4]} : e = p.entity \/ e \in Range(EntitiesOf(pivot, row))
<1>1. id \in EdgesOf(pivot, p, row)
  BY RecordsBySort
<1>2. \A relation, a, b, what :
        Edge(relation, a, b, what)[3] = a /\ Edge(relation, a, b, what)[4] = b
  BY DEF Edge
<1>3. CASE pivot \in {"shared_metadata", "infra_overlap"}
  <2>1. row.peer \in Range(EntitiesOf(pivot, row))
    BY <1>3 DEF EntitiesOf, Range
  <2>2. \E relation, what : id = Edge(relation, p.entity, row.peer, what)
    BY <1>1, <1>3 DEF EdgesOf
  <2> QED BY <1>2, <2>1, <2>2
<1>4. CASE pivot = "temporal_correlation"
  <2>1. EntitiesOf(pivot, row) = <<row.video, row.account>>
    BY <1>4 DEF EntitiesOf
  <2>2. row.video \in Range(EntitiesOf(pivot, row)) /\ row.account \in Range(EntitiesOf(pivot, row))
    BY <2>1 DEF Range
  <2>3. \/ id = Edge("published_on", p.entity, row.video, 0)
        \/ id = Edge("commented_on", row.account, row.video, 0)
    BY <1>1, <1>4 DEF EdgesOf
  <2> QED BY <1>2, <2>2, <2>3
<1>5. CASE pivot = "engagement_edge"
  <2>1. row.target \in Videos \/ row.target = p.entity
    BY <1>5 DEF RowsFound, EngagementRows, OnChannel
  <2>2. /\ row.account \in Range(EntitiesOf(pivot, row))
        /\ row.target \in Videos => row.target \in Range(EntitiesOf(pivot, row))
    <3>1. CASE row.target \in Videos
      <4>1. EntitiesOf(pivot, row) = <<row.account, row.target>>
        BY <1>5, <3>1 DEF EntitiesOf
      <4> QED BY <4>1 DEF Range
    <3>2. CASE row.target \notin Videos
      <4>1. EntitiesOf(pivot, row) = <<row.account>>
        BY <1>5, <3>2 DEF EntitiesOf
      <4> QED BY <3>2, <4>1 DEF Range
    <3> QED BY <3>1, <3>2
  <2>3. \/ id = Edge("engaged_with", row.account, row.target, row.kind)
        \/ row.target \in Videos /\ id = Edge("published_on", p.entity, row.target, 0)
    BY <1>1, <1>5 DEF EdgesOf, EngagementEdges
  <2> QED BY <1>2, <2>1, <2>2, <2>3
<1>6. CASE pivot = "account_link"
  <2>1. row.account \in Range(EntitiesOf(pivot, row))
    BY <1>6 DEF EntitiesOf, Range
  <2>2. \E relation : id = Edge(relation, row.account, p.entity, 0)
    BY <1>1, <1>6 DEF EdgesOf
  <2> QED BY <1>2, <2>1, <2>2
<1> QED BY <1>3, <1>4, <1>5, <1>6 DEF Pivots, ParamNames

\* Two rows of one question are told by different records.
LEMMA RowsAreTold ==
    ASSUME NEW pivot \in Pivots, NEW p, NEW q, p.entity = q.entity,
           NEW row \in RowsFound(pivot, p), NEW other \in RowsFound(pivot, q),
           RecordsOf(pivot, p, row) = RecordsOf(pivot, q, other)
    PROVE  row = other
<1>1. ASSUME NEW id \in EdgesOf(pivot, p, row), id[1] = "edge" PROVE id \in EdgesOf(pivot, q, other)
  <2>1. id \in RecordsOf(pivot, p, row)
    BY DEF RecordsOf
  <2> QED BY <1>1, <2>1, RecordsBySort
<1>2. ASSUME NEW id \in EventsOf(pivot, row), id[1] = "event" PROVE id \in EventsOf(pivot, other)
  <2>1. id \in RecordsOf(pivot, p, row)
    BY DEF RecordsOf
  <2> QED BY <1>2, <2>1, RecordsBySort
<1>3. CASE pivot = "shared_metadata"
  <2> DEFINE id == Edge("shares_metadata", p.entity, row.peer, row.field)
  <2>1. id \in EdgesOf(pivot, p, row) /\ id[1] = "edge"
    BY <1>3 DEF EdgesOf, Edge
  <2>2. id = Edge("shares_metadata", q.entity, other.peer, other.field)
    BY <1>1, <1>3, <2>1 DEF EdgesOf
  <2>3. row.peer = other.peer /\ row.field = other.field
    BY <2>2 DEF Edge
  <2>4. /\ row \in [peer : Accounts \ {p.entity}, field : Platform.fields]
        /\ other \in [peer : Accounts \ {q.entity}, field : Platform.fields]
    BY <1>3 DEF RowsFound, SharedMetadataRows
  <2> QED BY <2>3, <2>4
<1>4. CASE pivot = "temporal_correlation"
  <2> DEFINE id == Event("comment", row.account, row.id, 0)
  <2>1. id \in EventsOf(pivot, row) /\ id[1] = "event"
    BY <1>4 DEF EventsOf, Event
  <2>2. id = Event("comment", other.account, other.id, 0)
    BY <1>2, <1>4, <2>1 DEF EventsOf
  <2>3. row.id = other.id
    BY <2>2 DEF Event
  <2>4. row \in Platform.comments /\ other \in Platform.comments
    BY <1>4 DEF RowsFound, TemporalRows
  <2> QED BY <2>3, <2>4, PlatformAssumption
<1>5. CASE pivot = "engagement_edge"
  <2> DEFINE id == Edge("engaged_with", row.account, row.target, row.kind)
  <2>1. id \in EdgesOf(pivot, p, row) /\ id[1] = "edge"
    BY <1>5 DEF EdgesOf, EngagementEdges, Edge
  <2>2. id \in EngagementEdges(q, other)
    BY <1>1, <1>5, <2>1 DEF EdgesOf
  <2>3. id = Edge("engaged_with", other.account, other.target, other.kind)
    <3>1. id[2] = "engaged_with"
      BY DEF Edge
    <3>2. \A v : Edge("published_on", q.entity, v, 0)[2] = "published_on"
      BY DEF Edge
    <3> HIDE DEF id
    <3> QED BY <2>2, <3>1, <3>2 DEF EngagementEdges
  <2>4. row.account = other.account /\ row.target = other.target /\ row.kind = other.kind
    BY <2>3 DEF Edge
  <2>5. \E e \in Platform.engagements : row = [account |-> e.account, target |-> e.target, kind |-> e.kind]
    BY <1>5 DEF RowsFound, EngagementRows
  <2>6. \E e \in Platform.engagements : other = [account |-> e.account, target |-> e.target, kind |-> e.kind]
    BY <1>5 DEF RowsFound, EngagementRows
  <2> QED BY <2>4, <2>5, <2>6
<1>6. CASE pivot = "infra_overlap"
  <2> DEFINE id == Event("signal", row.peer, row.type, row.value)
  <2>1. id \in EventsOf(pivot, row) /\ id[1] = "event"
    BY <1>6 DEF EventsOf, SignalEvent, Event
  <2>2. id = Event("signal", other.peer, other.type, other.value)
    BY <1>2, <1>6, <2>1 DEF EventsOf, SignalEvent
  <2>3. row.peer = other.peer /\ row.type = other.type /\ row.value = other.value
    BY <2>2 DEF Event
  <2>4. \E h \in Platform.hints : row = [peer |-> h.subject, type |-> h.type, value |-> h.value]
    BY <1>6 DEF RowsFound, InfraRows
  <2>5. \E h \in Platform.hints : other = [peer |-> h.subject, type |-> h.type, value |-> h.value]
    BY <1>6 DEF RowsFound, InfraRows
  <2> QED BY <2>3, <2>4, <2>5
<1>7. CASE pivot = "account_link"
  <2> DEFINE Word(r) == IF r.relation = Owner THEN "owns_channel" ELSE "commented_on"
             id == Edge(Word(row), row.account, p.entity, 0)
  <2>1. id \in EdgesOf(pivot, p, row) /\ id[1] = "edge"
    BY <1>7 DEF EdgesOf, Edge
  <2>2. id = Edge(Word(other), other.account, q.entity, 0)
    BY <1>1, <1>7, <2>1 DEF EdgesOf
  <2>3. row.account = other.account /\ Word(row) = Word(other)
    BY <2>2 DEF Edge
  <2>4. row.relation = Owner <=> other.relation = Owner
    BY <2>3
  <2> DEFINE Owned(c) == [account |-> Platform.owner[c], relation |-> Owner, weight |-> 1]
             Commented(a) == [account |-> a, relation |-> Commenter,
                              weight |-> Cardinality(CommentsBy(a, p.entity))]
  <2>5. \A r : r \in AccountLinkRows(p) \/ r \in AccountLinkRows(q) =>
          r = Owned(p.entity) \/ \E a : r = Commented(a)
    BY DEF AccountLinkRows
  <2>6. /\ row = Owned(p.entity) \/ \E a : row = Commented(a)
        /\ other = Owned(p.entity) \/ \E a : other = Commented(a)
    BY <1>7, <2>5 DEF RowsFound
  <2>7. /\ Owned(p.entity).relation = Owner
        /\ \A a : Commented(a).relation # Owner /\ Commented(a).account = a
    BY DEF Owner, Commenter
  <2> HIDE DEF Owned, Commented
  <2> QED BY <2>3, <2>4, <2>6, <2>7
<1> QED BY <1>3, <1>4, <1>5, <1>6, <1>7 DEF Pivots, ParamNames

\* The subject alone is a pack that tells what no row told.
LEMMA SeedIsGathered ==
    ASSUME NEW subject, pack' = Seed(subject), seen' = {}
    PROVE  Gathered'
<1>1. /\ pack'.order = <<subject>> /\ pack'.hops = <<>>
      /\ pack'.found = [id \in {NodeId(subject)} |-> 0]
  BY DEF Seed
<1>2. Range(<<subject>>) = {subject} /\ <<subject>> \in Seq({subject}) /\ <<subject>> # <<>>
  BY DEF Range
<1>3. <<>> \in Seq(Range(<<>>)) /\ Len(<<>>) = 0
  OBVIOUS
<1>4. NodeId(subject)[2] = subject
  BY DEF NodeId
<1>5. Head(<<subject>>) = subject
  OBVIOUS
<1> QED BY <1>1, <1>2, <1>3, <1>4, <1>5 DEF Gathered, Entities, Hops

\* The rows of a hop, and the records and entities they come as.
NewlySeen(proposal, answer) ==
    {[hop |-> Hops(pack) + 1, pivot |-> proposal.pivot, params |-> proposal.params, row |-> row] :
        row \in Range(answer)}

\* A hop adds to a pack what its rows tell.
LEMMA HopIsGathered ==
    ASSUME Gathered, NEW proposal, NEW answer \in Answers(proposal.pivot, proposal.params),
           RunPivot(proposal, answer)
    PROVE  Gathered'
<1> DEFINE p == proposal.params
           pivot == proposal.pivot
           hop == Hops(pack) + 1
           told == ToldIn(pivot, p, answer)
<1>1. pivot \in Pivots /\ p.limit \in Nat
  BY AcceptedIsValid DEF RunPivot
<1>2. /\ Len(answer) \in Nat /\ DOMAIN answer = 1 .. Len(answer)
      /\ Range(answer) \subseteq RowsFound(pivot, p)
  BY <1>1, AnswersAreRows
<1>3. /\ pack' = WithHop(pack, pivot, p, answer)
      /\ seen' = seen \cup NewlySeen(proposal, answer)
  BY DEF RunPivot, NewlySeen
<1> HIDE DEF p, pivot
<1>4. /\ pack'.order \in Seq(Range(pack'.order))
      /\ Len(pack.order) <= Len(pack'.order)
      /\ \A i \in 1 .. Len(pack.order) : pack'.order[i] = pack.order[i]
      /\ Entities(pack') = Entities(pack) \cup NamedIn(pivot, answer)
      /\ pack'.hops \in Seq(Range(pack'.hops)) /\ Hops(pack') = hop
      /\ DOMAIN pack'.found = DOMAIN pack.found \cup told
      /\ \A id \in DOMAIN pack.found : pack'.found[id] = pack.found[id]
      /\ \A id \in told \ DOMAIN pack.found : pack'.found[id] = hop
  BY <1>1, <1>2, <1>3, HopAdds, SMTT(30) DEF Gathered
<1>5. Hops(pack) \in Nat /\ Len(pack.order) \in Nat
  BY DEF Gathered, Hops
<1>6. pack'.order # <<>> /\ Head(pack'.order) = Head(pack.order)
  <2>1. Len(pack.order) >= 1 /\ pack.order \in Seq(Range(pack.order))
    BY DEF Gathered
  <2>2. Len(pack'.order) >= 1 /\ pack'.order[1] = pack.order[1]
    BY <1>4, <1>5, <2>1
  <2> QED BY <1>4, <2>1, <2>2
<1>7. \A e \in Entities(pack') : NodeId(e) \in DOMAIN pack'.found
  <2> SUFFICES ASSUME NEW e \in NamedIn(pivot, answer) PROVE NodeId(e) \in told
    BY <1>4 DEF Gathered
  <2>1. PICK row \in Range(answer) : e \in Range(EntitiesOf(pivot, row))
    BY DEF NamedIn
  <2> QED BY <2>1 DEF ToldIn, RecordsOf
<1>8. ASSUME NEW id \in DOMAIN pack'.found
      PROVE  /\ pack'.found[id] \in 0 .. Hops(pack')
             /\ id[1] = "node" => id = NodeId(id[2]) /\ id[2] \in Entities(pack')
  <2>1. CASE id \in DOMAIN pack.found
    BY <1>4, <1>5, <2>1 DEF Gathered
  <2>2. CASE id \in told \ DOMAIN pack.found
    <3>1. PICK row \in Range(answer) : id \in RecordsOf(pivot, p, row)
      BY <2>2 DEF ToldIn
    <3>2. id[1] = "node" => id = NodeId(id[2]) /\ id[2] \in NamedIn(pivot, answer)
      BY <1>1, <3>1, NodesAreNamed DEF NamedIn
    <3> QED BY <1>4, <1>5, <2>2, <3>2
  <2> QED BY <1>4, <2>1, <2>2
<1>9. ASSUME NEW s \in seen'
      PROVE  /\ s.hop \in 1 .. Hops(pack')
             /\ s.pivot \in Pivots /\ s.row \in RowsFound(s.pivot, s.params)
             /\ \A id \in Told(s) : id \in DOMAIN pack'.found /\ pack'.found[id] <= s.hop
  <2>1. CASE s \in seen
    <3>1. /\ s.hop \in 1 .. Hops(pack)
          /\ s.pivot \in Pivots /\ s.row \in RowsFound(s.pivot, s.params)
          /\ \A id \in Told(s) : id \in DOMAIN pack.found /\ pack.found[id] <= s.hop
      BY <2>1 DEF Gathered
    <3>2. s.hop \in 1 .. hop
      BY <1>5, <3>1
    <3> QED BY <1>4, <3>1, <3>2
  <2>2. CASE s \in NewlySeen(proposal, answer)
    <3>1. PICK row \in Range(answer) : s = [hop |-> hop, pivot |-> pivot, params |-> p, row |-> row]
      BY <2>2 DEF NewlySeen, pivot, p
    <3>2. s.hop = hop /\ s.pivot = pivot /\ s.row \in RowsFound(pivot, p) /\ s.params = p
      BY <1>2, <3>1
    <3>3. Told(s) \subseteq told
      BY <3>1 DEF Told, ToldIn
    <3>4. \A id \in Told(s) : id \in DOMAIN pack'.found /\ pack'.found[id] \in 0 .. hop
      BY <1>4, <1>8, <3>3
    <3>5. hop \in 1 .. hop /\ \A n \in 0 .. hop : n <= hop
      BY <1>5
    <3> HIDE DEF hop
    <3> QED BY <1>1, <1>4, <3>2, <3>4, <3>5
  <2> QED BY <1>3, <2>1, <2>2
<1>10. ASSUME NEW id \in DOMAIN pack'.found \ {NodeId(Head(pack'.order))}
       PROVE  \E s \in seen' : s.hop = pack'.found[id] /\ id \in Told(s)
  <2>1. CASE id \in DOMAIN pack.found
    <3>1. PICK s \in seen : s.hop = pack.found[id] /\ id \in Told(s)
      BY <1>6, <2>1 DEF Gathered
    <3> QED BY <1>3, <1>4, <2>1, <3>1
  <2>2. CASE id \in told \ DOMAIN pack.found
    <3>1. PICK row \in Range(answer) : id \in RecordsOf(pivot, p, row)
      BY <2>2 DEF ToldIn
    <3> DEFINE s == [hop |-> hop, pivot |-> pivot, params |-> p, row |-> row]
    <3>2. s \in NewlySeen(proposal, answer)
      BY DEF NewlySeen, pivot, p
    <3>3. s.hop = hop /\ id \in Told(s)
      BY <3>1 DEF Told
    <3>4. pack'.found[id] = hop
      BY <1>4, <2>2
    <3> HIDE DEF s
    <3> QED BY <1>3, <3>2, <3>3, <3>4
  <2> QED BY <1>4, <2>1, <2>2
<1>11. pack'.hops \in Seq(Range(pack'.hops)) /\ pack'.order \in Seq(Range(pack'.order))
  BY <1>4
<1> QED BY <1>6, <1>7, <1>8, <1>9, <1>10, <1>11 DEF Gathered

\* No step of edges found up to a hop leads out of it.
Closed(some, hop) == \A a \in some : \A e \in Entities(pack) : EdgeUpTo(hop, a, e) => e \in some

\* A pack is of the platform; an edge is found no earlier than what it joins,
\* and whatever holds the subject and its neighbours, and theirs, holds all
\* that is in reach.
Connected ==
    /\ Entities(pack) \subseteq Channels \cup Accounts \cup Videos
    /\ pack.found[NodeId(Head(pack.order))] = 0
    /\ \A id \in DOMAIN pack.found : id[1] = "edge" =>
          \A e \in {id[3], id[4]} : e \in Entities(pack) /\ pack.found[NodeId(e)] <= pack.found[id]
    /\ \A hop \in 0 .. Hops(pack) : \A some \in SUBSET Entities(pack) :
          Head(pack.order) \in some /\ Closed(some, hop) => NodesAtHop(pack, hop) \subseteq some

\* A pack of its subject alone is connected.
LEMMA SeedIsConnected ==
    ASSUME NEW subject \in Channels, pack' = Seed(subject)
    PROVE  Connected'
<1>1. /\ pack'.order = <<subject>> /\ pack'.hops = <<>>
      /\ pack'.found = [id \in {NodeId(subject)} |-> 0]
  BY DEF Seed
<1>2. Entities(pack') = {subject} /\ Head(pack'.order) = subject
  BY <1>1 DEF Entities, Range
<1>3. pack'.found[NodeId(subject)] = 0 /\ NodeId(subject)[1] = "node" /\ DOMAIN pack'.found = {NodeId(subject)}
  BY <1>1 DEF NodeId
<1>4. \A hop : NodesAtHop(pack', hop) \subseteq {subject}
  BY <1>2 DEF NodesAtHop
<1> QED BY <1>2, <1>3, <1>4 DEF Connected

\* What was found by a hop is in reach at it, before the next as after.
LEMMA ReachKeeps ==
    ASSUME Gathered, NEW proposal, NEW answer \in Answers(proposal.pivot, proposal.params),
           RunPivot(proposal, answer), NEW budget \in 0 .. Hops(pack)
    PROVE  NodesAtHop(pack', budget) = NodesAtHop(pack, budget)
<1> DEFINE p == proposal.params
           pivot == proposal.pivot
<1>1. pivot \in Pivots /\ p.limit \in Nat
  BY AcceptedIsValid DEF RunPivot
<1>2. Len(answer) \in Nat /\ DOMAIN answer = 1 .. Len(answer)
  BY <1>1, AnswersAreRows
<1>3. pack' = WithHop(pack, pivot, p, answer)
  BY DEF RunPivot
<1> HIDE DEF p, pivot
<1>4. /\ Entities(pack') = Entities(pack) \cup NamedIn(pivot, answer)
      /\ DOMAIN pack'.found = DOMAIN pack.found \cup ToldIn(pivot, p, answer)
      /\ \A id \in DOMAIN pack.found : pack'.found[id] = pack.found[id]
      /\ \A id \in ToldIn(pivot, p, answer) \ DOMAIN pack.found : pack'.found[id] = Hops(pack) + 1
  BY <1>1, <1>2, <1>3, HopAdds DEF Gathered
<1>5. Hops(pack) \in Nat
  BY DEF Gathered, Hops
<1>6. \A e \in NamedIn(pivot, answer) :
        NodeId(e) \notin DOMAIN pack.found => pack'.found[NodeId(e)] = Hops(pack) + 1
  <2> SUFFICES ASSUME NEW e \in NamedIn(pivot, answer) PROVE NodeId(e) \in ToldIn(pivot, p, answer)
    BY <1>4
  <2>1. PICK row \in Range(answer) : e \in Range(EntitiesOf(pivot, row))
    BY DEF NamedIn
  <2> QED BY <2>1 DEF ToldIn, RecordsOf
<1>11. \A e : NodeId(e)[1] = "node" /\ NodeId(e)[2] = e
  BY DEF NodeId
<1>12. \A e \in Entities(pack) : pack'.found[NodeId(e)] = pack.found[NodeId(e)]
  BY <1>4 DEF Gathered
<1>13. \A e \in Entities(pack') : e \notin Entities(pack) => pack'.found[NodeId(e)] = Hops(pack) + 1
  <2>1. \A id \in DOMAIN pack.found : id[1] = "node" => id[2] \in Entities(pack)
    BY DEF Gathered
  <2>2. \A e : NodeId(e) \in DOMAIN pack.found => e \in Entities(pack)
    BY <1>11, <2>1
  <2> QED BY <1>4, <1>6, <2>2
<1>14. ~ (Hops(pack) + 1 <= budget)
  BY <1>5
<1>15. Entities(pack) \subseteq Entities(pack')
  BY <1>4
<1>16. \A e \in Entities(pack') :
        pack'.found[NodeId(e)] <= budget <=> e \in Entities(pack) /\ pack.found[NodeId(e)] <= budget
  BY <1>12, <1>13, <1>14
<1> QED BY <1>15, <1>16 DEF NodesAtHop

\* What a hop makes of the pack: the facts of HopAdds, of a pivot that is run.
LEMMA HopGrows ==
    ASSUME Gathered, NEW proposal, NEW answer \in Answers(proposal.pivot, proposal.params),
           RunPivot(proposal, answer)
    PROVE  /\ proposal.pivot \in Pivots /\ proposal.params.entity \in Entities(pack)
           /\ Range(answer) \subseteq RowsFound(proposal.pivot, proposal.params)
           /\ Entities(pack') = Entities(pack) \cup NamedIn(proposal.pivot, answer)
           /\ Hops(pack) \in Nat /\ Hops(pack') = Hops(pack) + 1
           /\ Head(pack'.order) = Head(pack.order)
           /\ DOMAIN pack'.found = DOMAIN pack.found \cup ToldIn(proposal.pivot, proposal.params, answer)
           /\ \A id \in DOMAIN pack.found : pack'.found[id] = pack.found[id]
           /\ \A id \in ToldIn(proposal.pivot, proposal.params, answer) \ DOMAIN pack.found :
                 pack'.found[id] = Hops(pack) + 1
<1> DEFINE p == proposal.params
           pivot == proposal.pivot
<1>1. pivot \in Pivots /\ p.entity \in Entities(pack) /\ p.limit \in Nat
  BY AcceptedIsValid DEF RunPivot
<1>2. /\ Len(answer) \in Nat /\ DOMAIN answer = 1 .. Len(answer)
      /\ Range(answer) \subseteq RowsFound(pivot, p)
  BY <1>1, AnswersAreRows
<1>3. pack' = WithHop(pack, pivot, p, answer)
  BY DEF RunPivot
<1> HIDE DEF p, pivot
<1>4. /\ pack'.order \in Seq(Range(pack'.order))
      /\ Len(pack.order) <= Len(pack'.order)
      /\ \A i \in 1 .. Len(pack.order) : pack'.order[i] = pack.order[i]
      /\ Entities(pack') = Entities(pack) \cup NamedIn(pivot, answer)
      /\ Hops(pack') = Hops(pack) + 1
      /\ DOMAIN pack'.found = DOMAIN pack.found \cup ToldIn(pivot, p, answer)
      /\ \A id \in DOMAIN pack.found : pack'.found[id] = pack.found[id]
      /\ \A id \in ToldIn(pivot, p, answer) \ DOMAIN pack.found : pack'.found[id] = Hops(pack) + 1
  BY <1>1, <1>2, <1>3, HopAdds, SMTT(30) DEF Gathered
<1>5. Hops(pack) \in Nat
  BY DEF Gathered, Hops
<1>6. Head(pack'.order) = Head(pack.order)
  <2>1. Len(pack.order) \in Nat /\ Len(pack.order) >= 1 /\ pack.order \in Seq(Range(pack.order))
    BY DEF Gathered
  <2>2. Len(pack'.order) >= 1 /\ pack'.order[1] = pack.order[1]
    BY <1>4, <2>1
  <2> QED BY <1>4, <2>1, <2>2
<1> QED BY <1>1, <1>2, <1>4, <1>5, <1>6 DEF p, pivot

\* EdgeUpTo, of what a pack found.
FoundJoined(found, hop, a, b) ==
    \E id \in DOMAIN found : id[1] = "edge" /\ {id[3], id[4]} = {a, b} /\ found[id] <= hop

\* A hop leaves the pack connected: its rows join what they name to what was
\* asked about, which was joined to the subject before.
LEMMA HopIsConnected ==
    ASSUME Gathered, Connected, NEW proposal, NEW answer \in Answers(proposal.pivot, proposal.params),
           RunPivot(proposal, answer)
    PROVE  Connected'
<1> DEFINE p == proposal.params
           pivot == proposal.pivot
           named == NamedIn(pivot, answer)
           told == ToldIn(pivot, p, answer)
<1>1. PICK hop : hop = Hops(pack) + 1
  OBVIOUS
<1>2. /\ pivot \in Pivots /\ p.entity \in Entities(pack)
      /\ Range(answer) \subseteq RowsFound(pivot, p)
      /\ Entities(pack') = Entities(pack) \cup named
      /\ Hops(pack) \in Nat /\ Hops(pack') = hop
      /\ Head(pack'.order) = Head(pack.order)
      /\ DOMAIN pack'.found = DOMAIN pack.found \cup told
      /\ \A id \in DOMAIN pack.found : pack'.found[id] = pack.found[id]
      /\ \A id \in told \ DOMAIN pack.found : pack'.found[id] = hop
  BY <1>1, HopGrows
<1> HIDE DEF p, pivot, named, told
<1>3. /\ \A e \in Entities(pack) : NodeId(e) \in DOMAIN pack.found
      /\ \A id \in DOMAIN pack.found : pack.found[id] \in 0 .. Hops(pack)
      /\ Head(pack.order) \in Entities(pack)
  <2>1. \A e \in Entities(pack) : NodeId(e) \in DOMAIN pack.found
    BY DEF Gathered
  <2>2. \A id \in DOMAIN pack.found : pack.found[id] \in 0 .. Hops(pack)
    BY DEF Gathered
  <2>3. pack.order \in Seq(Range(pack.order)) /\ pack.order # <<>>
    BY DEF Gathered
  <2>4. Head(pack.order) \in Range(pack.order)
    BY <2>3
  <2> QED BY <2>1, <2>2, <2>4 DEF Entities
<1>4. Gathered'
  BY HopIsGathered
<1>5. /\ \A e \in Entities(pack') : NodeId(e) \in DOMAIN pack'.found
      /\ \A id \in DOMAIN pack'.found : pack'.found[id] \in 0 .. hop
  BY <1>2, <1>4 DEF Gathered
<1>6. hop \in Nat /\ \A n \in 0 .. hop : n <= hop
  BY <1>1, <1>2
<1>7. \A row \in Range(answer) : /\ Range(EntitiesOf(pivot, row)) \subseteq named
                                 /\ RecordsOf(pivot, p, row) \subseteq told
  BY DEF named, told, NamedIn, ToldIn
<1>8. Entities(pack') \subseteq Channels \cup Accounts \cup Videos
  <2> SUFFICES ASSUME NEW e \in named PROVE e \in Channels \cup Accounts \cup Videos
    BY <1>2 DEF Connected
  <2>1. PICK row \in Range(answer) : e \in Range(EntitiesOf(pivot, row))
    BY DEF named, NamedIn
  <2> QED BY <1>2, <2>1, RowsAreOfThePlatform
<1>9. pack'.found[NodeId(Head(pack'.order))] = 0
  BY <1>2, <1>3 DEF Connected
<1>10. ASSUME NEW id \in DOMAIN pack'.found, id[1] = "edge", NEW e \in {id[3], id[4]}
       PROVE  e \in Entities(pack') /\ pack'.found[NodeId(e)] <= pack'.found[id]
  <2>1. CASE id \in DOMAIN pack.found
    <3>1. e \in Entities(pack) /\ pack.found[NodeId(e)] <= pack.found[id]
      BY <1>10, <2>1 DEF Connected
    <3> QED BY <1>2, <1>3, <2>1, <3>1
  <2>2. CASE id \in told \ DOMAIN pack.found
    <3>1. PICK row \in Range(answer) : id \in RecordsOf(pivot, p, row)
      BY <2>2 DEF told, ToldIn
    <3>2. e = p.entity \/ e \in Range(EntitiesOf(pivot, row))
      BY <1>2, <1>10, <3>1, EdgesEndInTheRow
    <3>3. e \in Entities(pack')
      BY <1>2, <1>7, <3>2
    <3> QED BY <1>2, <1>5, <1>6, <2>2, <3>3
  <2> QED BY <1>2, <2>1, <2>2
<1>11. ASSUME NEW n, NEW a, NEW b, EdgeUpTo(n, a, b)
       PROVE  FoundJoined(pack'.found, n, a, b)
  BY <1>2, <1>11 DEF EdgeUpTo, FoundJoined
<1>12. ASSUME NEW n \in 0 .. hop, NEW some \in SUBSET Entities(pack'),
              Head(pack'.order) \in some,
              \A a \in some : \A e \in Entities(pack') : FoundJoined(pack'.found, n, a, e) => e \in some
       PROVE  NodesAtHop(pack', n) \subseteq some
  <2> DEFINE near == some \cap Entities(pack)
  <2>1. near \in SUBSET Entities(pack) /\ Head(pack.order) \in near
    BY <1>2, <1>3, <1>12
  <2>2. ASSUME NEW m \in 0 .. Hops(pack), m <= n PROVE NodesAtHop(pack, m) \subseteq near
    <3>1. ASSUME NEW a \in near, NEW e \in Entities(pack), EdgeUpTo(m, a, e) PROVE e \in near
      <4>1. EdgeUpTo(n, a, e)
        <5>1. PICK id \in DOMAIN pack.found :
                  id[1] = "edge" /\ {id[3], id[4]} = {a, e} /\ pack.found[id] <= m
          BY <3>1 DEF EdgeUpTo
        <5>2. pack.found[id] <= n
          BY <1>2, <1>3, <1>6, <2>2, <5>1
        <5> QED BY <5>1, <5>2 DEF EdgeUpTo
      <4>2. FoundJoined(pack'.found, n, a, e)
        BY <1>11, <4>1
      <4> QED BY <1>2, <1>12, <4>2
    <3>2. Closed(near, m)
      BY <3>1 DEF Closed
    <3> HIDE DEF near
    <3> QED BY <2>1, <3>2 DEF Connected
  <2>3. CASE n \in 0 .. Hops(pack)
    <3>1. NodesAtHop(pack', n) = NodesAtHop(pack, n)
      BY <2>3, ReachKeeps
    <3>2. NodesAtHop(pack, n) \subseteq near
      BY <1>2, <2>2, <2>3
    <3> QED BY <3>1, <3>2
  <2>4. CASE n = hop
    <3>1. Hops(pack) \in 0 .. Hops(pack) /\ Hops(pack) <= n
      BY <1>1, <1>2, <2>4
    <3>2. NodesAtHop(pack, Hops(pack)) \subseteq near
      BY <2>2, <3>1
    <3>3. Entities(pack) \subseteq near
      <4>1. \A e \in Entities(pack) : pack.found[NodeId(e)] <= Hops(pack)
        BY <1>2, <1>3
      <4> QED BY <3>2, <4>1 DEF NodesAtHop
    <3>4. ASSUME NEW row \in Range(answer), NEW a \in some, NEW e \in Entities(pack'),
                 Joining(RecordsOf(pivot, p, row), a, e)
          PROVE  e \in some
      <4>1. PICK id \in RecordsOf(pivot, p, row) : id[1] = "edge" /\ {id[3], id[4]} = {a, e}
        BY <3>4 DEF Joining
      <4>2. id \in DOMAIN pack'.found /\ pack'.found[id] <= n
        BY <1>2, <1>5, <1>6, <1>7, <2>4, <4>1
      <4>3. FoundJoined(pack'.found, n, a, e)
        BY <4>1, <4>2 DEF FoundJoined
      <4> QED BY <1>12, <4>3
    <3>5. named \subseteq some
      <4> SUFFICES ASSUME NEW e \in named PROVE e \in some
        OBVIOUS
      <4>1. PICK row \in Range(answer) : e \in Range(EntitiesOf(pivot, row))
        BY DEF named, NamedIn
      <4>2. p.entity \in some
        BY <1>2, <3>3
      <4>3. row \in RowsFound(pivot, p)
        BY <1>2, <4>1
      <4>4. \/ Joining(RecordsOf(pivot, p, row), p.entity, e)
            \/ \E v \in Range(EntitiesOf(pivot, row)) :
                  /\ Joining(RecordsOf(pivot, p, row), p.entity, v)
                  /\ Joining(RecordsOf(pivot, p, row), v, e)
        BY <1>2, <4>1, <4>3, RowsJoinTheirEntities
      <4>5. Range(EntitiesOf(pivot, row)) \subseteq Entities(pack')
        BY <1>2, <1>7
      <4> QED BY <3>4, <4>1, <4>2, <4>4, <4>5
    <3> QED BY <1>2, <3>3, <3>5 DEF NodesAtHop
  <2>5. n \in 0 .. Hops(pack) \/ n = hop
    BY <1>1, <1>2
  <2> QED BY <2>3, <2>4, <2>5
<1> QED BY <1>2, <1>8, <1>9, <1>10, <1>12 DEF Connected, Closed, EdgeUpTo, FoundJoined

(***************************************************************************)
(* What is in reach.                                                       *)
(***************************************************************************)

\* What takes a state and a place to a state, and the functions that follow it.
Steps(D, n) == [D \X (1 .. n) -> D]
Repeated(D, base, n, step) ==
    {f \in [0 .. n -> D] : f[0] = base /\ \A i \in 1 .. n : f[i] = step[<<f[i - 1], i>>]}

\* A definition by recursion over a finite range defines a function.
LEMMA Recursion ==
    ASSUME NEW D, NEW base, base \in D, NEW n, n \in Nat, NEW step, step \in Steps(D, n)
    PROVE  Repeated(D, base, n, step) # {}
<1>0. \A s \in D : \A i \in 1 .. n : step[<<s, i>>] \in D
  BY DEF Steps
<1> DEFINE Follows(f, m) ==
             /\ f \in [0 .. m -> D]
             /\ f[0] = base /\ \A i \in 1 .. m : f[i] = step[<<f[i - 1], i>>]
           Without == {m \in 0 .. n : ~ \E f : Follows(f, m)}
<1>1. Without = {}
  <2> SUFFICES ASSUME Without # {} PROVE FALSE
    OBVIOUS
  <2>1. Without \subseteq Nat
    OBVIOUS
  <2>2. PICK m \in Without : \A k \in Without : m <= k
    BY <2>1, LeastOf
  <2>3. m \in 0 .. n /\ ~ \E f : Follows(f, m)
    OBVIOUS
  <2>4. CASE m = 0
    <3> DEFINE f == [i \in 0 .. 0 |-> base]
    <3>1. Follows(f, 0)
      OBVIOUS
    <3> HIDE DEF f, Follows
    <3> QED BY <2>3, <2>4, <3>1
  <2>5. CASE m # 0
    <3>1. m - 1 \in 0 .. n /\ ~ (m <= m - 1) /\ m \in 1 .. n
      BY <2>3, <2>5
    <3>2. m - 1 \notin Without
      BY <2>2, <3>1
    <3>3. PICK f : Follows(f, m - 1)
      BY <3>1, <3>2
    <3> DEFINE g == [i \in 0 .. m |-> IF i < m THEN f[i] ELSE step[<<f[m - 1], m>>]]
    <3>4. Follows(g, m)
      <4>1. f \in [0 .. m - 1 -> D] /\ f[0] = base /\ \A i \in 1 .. m - 1 : f[i] = step[<<f[i - 1], i>>]
        BY <3>3
      <4>2. \A i \in 0 .. m : (i < m => i \in 0 .. m - 1) /\ (~ (i < m) => i = m)
        BY <3>1
      <4>3. m - 1 \in 0 .. m - 1 /\ <<f[m - 1], m>> \in D \X (1 .. n)
        BY <3>1, <4>1
      <4>4. g \in [0 .. m -> D]
        BY <1>0, <4>1, <4>2, <4>3
      <4>5. g[0] = base
        BY <3>1, <4>1
      <4>6. ASSUME NEW i \in 1 .. m PROVE g[i] = step[<<g[i - 1], i>>]
        <5>1. i \in 0 .. m /\ i - 1 \in 0 .. m /\ i - 1 < m
          BY <3>1
        <5>2. g[i - 1] = f[i - 1]
          BY <5>1
        <5>3. CASE i < m
          <6>1. i \in 1 .. m - 1
            BY <3>1, <5>3
          <6>2. g[i] = f[i]
            BY <5>1, <5>3
          <6> QED BY <4>1, <5>2, <6>1, <6>2
        <5>4. CASE ~ (i < m)
          <6>1. i = m
            BY <3>1, <5>4
          <6>2. g[i] = step[<<f[m - 1], m>>]
            BY <5>1, <5>4
          <6> QED BY <5>2, <6>1, <6>2
        <5> QED BY <5>3, <5>4
      <4> HIDE DEF g
      <4> QED BY <4>4, <4>5, <4>6
    <3> HIDE DEF g, Follows
    <3> QED BY <2>3, <3>4
  <2> QED BY <2>4, <2>5
<1>2. n \in 0 .. n
  OBVIOUS
<1>3. \E f : Follows(f, n)
  <2> HIDE DEF Follows
  <2> QED BY <1>1, <1>2
<1> QED BY <1>3 DEF Repeated

\* What only adds to a set within S, and the sets n times of it make.
Growing(S) == {g \in [SUBSET S -> SUBSET S] : \A some \in SUBSET S : some \subseteq g[some]}
Growth(S, n, grow) ==
    {f \in [0 .. n -> SUBSET S] : f[0] # {} /\ \A i \in 1 .. n : f[i] = grow[f[i - 1]]}

\* A set that only grows, within a finite set and by what it holds, has stopped
\* growing after as many steps as there are members.
LEMMA GrowthStops ==
    ASSUME NEW S, IsFiniteSet(S), NEW n, n \in Nat, Cardinality(S) <= n,
           NEW grow, grow \in Growing(S), NEW f, f \in Growth(S, n, grow)
    PROVE  grow[f[n]] = f[n]
<1>0. /\ grow \in [SUBSET S -> SUBSET S] /\ \A some \in SUBSET S : some \subseteq grow[some]
      /\ f \in [0 .. n -> SUBSET S] /\ f[0] # {}
      /\ \A i \in 1 .. n : f[i] = grow[f[i - 1]]
  BY DEF Growing, Growth
<1> USE <1>0
<1> DEFINE Grows(i) == Cardinality(f[i]) <= i /\ grow[f[i]] # f[i]
           Bad == {i \in 0 .. n : Grows(i)}
<1>1. \A i \in 0 .. n : IsFiniteSet(f[i]) /\ Cardinality(f[i]) \in Nat
  <2> SUFFICES ASSUME NEW i \in 0 .. n PROVE IsFiniteSet(f[i]) /\ Cardinality(f[i]) \in Nat
    OBVIOUS
  <2>1. f[i] \subseteq S
    OBVIOUS
  <2>2. IsFiniteSet(f[i])
    BY <2>1, FS_Subset
  <2> QED BY <2>2, FS_CardinalityType
<1>2. Bad = {}
  <2> SUFFICES ASSUME Bad # {} PROVE FALSE
    OBVIOUS
  <2>1. PICK m \in Bad : \A k \in Bad : m <= k
    <3>1. Bad \subseteq Nat
      OBVIOUS
    <3> QED BY <3>1, LeastOf
  <2>2. m \in 0 .. n /\ Grows(m)
    OBVIOUS
  <2>3. m # 0
    <3> SUFFICES ASSUME m = 0 PROVE FALSE
      OBVIOUS
    <3>1. Cardinality(f[0]) \in Nat /\ Cardinality(f[0]) <= 0 /\ 0 \in 0 .. n
      BY <1>1, <2>2
    <3>2. Cardinality(f[0]) = 0
      BY <3>1
    <3>3. IsFiniteSet(f[0])
      BY <1>1, <3>1
    <3> QED BY <3>2, <3>3, FS_EmptySet
  <2>4. m \in 1 .. n /\ m - 1 \in 0 .. n /\ ~ (m <= m - 1)
    BY <2>2, <2>3
  <2>5. ~ Grows(m - 1)
    <3> HIDE DEF Grows
    <3>1. m - 1 \notin Bad
      BY <2>1, <2>4
    <3> QED BY <2>4, <3>1
  <2>6. f[m] = grow[f[m - 1]] /\ f[m - 1] \subseteq f[m]
    BY <2>4
  <2>7. grow[f[m - 1]] # f[m - 1]
    BY <2>2, <2>6
  <2>8. ~ (Cardinality(f[m - 1]) <= m - 1)
    BY <2>5, <2>7
  <2>9. Cardinality(f[m - 1]) < Cardinality(f[m])
    <3> DEFINE small == f[m - 1]
               large == f[m]
    <3>1. IsFiniteSet(large) /\ small \subseteq large /\ small # large
      BY <1>1, <2>2, <2>6, <2>7
    <3> HIDE DEF small, large
    <3>2. Cardinality(small) <= Cardinality(large) /\ Cardinality(small) # Cardinality(large)
      BY <3>1, FS_Subset
    <3>3. Cardinality(small) \in Nat /\ Cardinality(large) \in Nat
      BY <1>1, <2>2, <2>4 DEF small, large
    <3> QED BY <3>2, <3>3 DEF small, large
  <2>10. Cardinality(f[m - 1]) \in Nat /\ Cardinality(f[m]) \in Nat /\ Cardinality(f[m]) <= m
    BY <1>1, <2>2, <2>4
  <2> HIDE DEF Grows
  <2> QED BY <2>4, <2>8, <2>9, <2>10
<1>3. Cardinality(f[n]) <= n
  <2>1. n \in 0 .. n /\ f[n] \subseteq S
    OBVIOUS
  <2>2. Cardinality(f[n]) <= Cardinality(S) /\ Cardinality(S) \in Nat
    BY <2>1, FS_Subset, FS_CardinalityType
  <2> QED BY <1>1, <2>1, <2>2
<1>4. ~ Grows(n)
  <2>1. n \in 0 .. n
    OBVIOUS
  <2> HIDE DEF Grows
  <2> QED BY <1>2, <2>1
<1> QED BY <1>3, <1>4

\* A pack has no more entities than places.
LEMMA EntitiesAreFinite ==
    ASSUME Gathered
    PROVE  /\ IsFiniteSet(Entities(pack)) /\ Len(pack.order) \in Nat
           /\ Cardinality(Entities(pack)) <= Len(pack.order)
<1> DEFINE order == pack.order
<1>1. order \in Seq(Range(order)) /\ Len(order) \in Nat
  BY DEF Gathered
<1> HIDE DEF order
<1>2. order \in Surjection(1 .. Len(order), Range(order))
  BY <1>1 DEF Surjection, Range
<1>3. IsFiniteSet(1 .. Len(order)) /\ Cardinality(1 .. Len(order)) = Len(order)
  <2>1. 1 \in Int /\ Len(order) \in Int
    BY <1>1
  <2>2. IsFiniteSet(1 .. Len(order))
    BY <2>1, FS_Interval
  <2>3. Cardinality(1 .. Len(order)) = IF 1 > Len(order) THEN 0 ELSE Len(order) - 1 + 1
    BY <2>1, FS_Interval
  <2> QED BY <1>1, <2>2, <2>3
<1>4. IsFiniteSet(Range(order)) /\ Cardinality(Range(order)) <= Cardinality(1 .. Len(order))
  BY <1>2, <1>3, FS_Surjection
<1> QED BY <1>1, <1>3, <1>4 DEF order, Entities

\* One step along the edges found up to a hop.
Reached(some, hop) == some \cup {e \in Entities(pack) : \E a \in some : EdgeUpTo(hop, a, e)}
ReachSteps(hop) == [some \in SUBSET Entities(pack) |-> Reached(some, hop)]

\* Within is defined: by as many steps along the edges as there are places.
LEMMA WithinIsIterated ==
    ASSUME Gathered, NEW hop
    PROVE  \E f \in [0 .. Len(pack.order) -> SUBSET Entities(pack)] :
              /\ f[0] = {Head(pack.order)}
              /\ \A i \in 1 .. Len(pack.order) : f[i] = Reached(f[i - 1], hop)
              /\ Within(hop) = f[Len(pack.order)]
<1> DEFINE States == SUBSET Entities(pack)
           n == Len(pack.order)
           base == {Head(pack.order)}
           step == [x \in States \X (1 .. n) |-> Reached(x[1], hop)]
           Follows(f) == f = [i \in 0 .. n |->
                                IF i = 0 THEN base
                                ELSE f[i - 1] \cup {e \in Entities(pack) : \E a \in f[i - 1] : EdgeUpTo(hop, a, e)}]
<1>1. n \in Nat /\ base \in States
  <2>1. pack.order \in Seq(Range(pack.order)) /\ pack.order # <<>>
    BY DEF Gathered
  <2>2. Head(pack.order) \in Range(pack.order)
    BY <2>1
  <2> QED BY <2>1, <2>2 DEF Entities
<1>2. \A s \in States : Reached(s, hop) \in States
  BY DEF Reached
<1>3. Within(hop) = (CHOOSE g : Follows(g))[n]
  BY DEF Within
<1>4. \A f : Follows(f) <=> f = [i \in 0 .. n |-> IF i = 0 THEN base ELSE Reached(f[i - 1], hop)]
  BY DEF Reached
<1> HIDE DEF States, n, base, Follows
<1>5. step \in Steps(States, n)
  BY <1>1, <1>2 DEF Steps
<1>6. \A s \in States : \A i \in 1 .. n : step[<<s, i>>] = Reached(s, hop)
  OBVIOUS
<1> HIDE DEF step
<1>7. PICK f \in [0 .. n -> States] : f[0] = base /\ \A i \in 1 .. n : f[i] = step[<<f[i - 1], i>>]
  <2>1. Repeated(States, base, n, step) # {}
    BY <1>1, <1>5, Recursion
  <2> QED BY <2>1 DEF Repeated
<1>8. Follows(f)
  <2>1. ASSUME NEW i \in 0 .. n PROVE f[i] = IF i = 0 THEN base ELSE Reached(f[i - 1], hop)
    <3>1. CASE i = 0
      BY <1>7, <3>1
    <3>2. CASE i # 0
      <4>1. i \in 1 .. n /\ i - 1 \in 0 .. n
        BY <1>1, <3>2
      <4>2. f[i] = step[<<f[i - 1], i>>] /\ f[i - 1] \in States
        BY <1>7, <4>1
      <4> QED BY <1>6, <3>2, <4>1, <4>2
    <3> QED BY <3>1, <3>2
  <2> QED BY <1>4, <1>7, <2>1
<1> DEFINE g == CHOOSE h : Follows(h)
<1>9. Follows(g)
  BY <1>8
<1> HIDE DEF g
<1>10. g = [i \in 0 .. n |-> IF i = 0 THEN base ELSE Reached(g[i - 1], hop)]
  BY <1>4, <1>9
<1>11. /\ DOMAIN g = 0 .. n /\ g[0] = base
       /\ \A i \in 1 .. n : g[i] = Reached(g[i - 1], hop)
  <2>1. DOMAIN g = 0 .. n
    BY <1>10
  <2>2. g[0] = base
    BY <1>1, <1>10
  <2>3. ASSUME NEW i \in 1 .. n PROVE g[i] = Reached(g[i - 1], hop)
    <3>1. i \in 0 .. n /\ i # 0
      BY <1>1
    <3> QED BY <1>10, <3>1
  <2> QED BY <2>1, <2>2, <2>3
<1> DEFINE Bad == {i \in 0 .. n : g[i] \notin States}
<1>12. Bad = {}
  <2> SUFFICES ASSUME Bad # {} PROVE FALSE
    OBVIOUS
  <2>1. PICK m \in Bad : \A k \in Bad : m <= k
    <3>1. Bad \subseteq Nat
      BY <1>1
    <3> QED BY <3>1, LeastOf
  <2>2. m # 0
    BY <1>1, <1>11
  <2>3. m \in 1 .. n /\ m - 1 \in 0 .. n /\ ~ (m <= m - 1)
    BY <1>1, <2>2
  <2>4. g[m - 1] \in States
    BY <2>1, <2>3
  <2> QED BY <1>2, <1>11, <2>3, <2>4
<1>13. g \in [0 .. n -> States]
  <2>1. g = [i \in 0 .. n |-> g[i]]
    BY <1>10
  <2>2. \A i \in 0 .. n : g[i] \in States
    BY <1>12
  <2> QED BY <2>1, <2>2
<1>14. Within(hop) = g[n]
  BY <1>3 DEF g
<1> QED BY <1>11, <1>13, <1>14 DEF States, n, base

\* The entities joined to the subject by edges found up to a hop are those
\* found by it.
LEMMA WithinIsInReach ==
    ASSUME Gathered, Connected, NEW hop \in 0 .. Hops(pack)
    PROVE  Within(hop) = NodesAtHop(pack, hop)
<1> DEFINE n == Len(pack.order)
           E == Entities(pack)
           grow == ReachSteps(hop)
<1>1. PICK f \in [0 .. n -> SUBSET E] :
         /\ f[0] = {Head(pack.order)}
         /\ \A i \in 1 .. n : f[i] = Reached(f[i - 1], hop)
         /\ Within(hop) = f[n]
  BY WithinIsIterated
<1>2. IsFiniteSet(E) /\ n \in Nat /\ Cardinality(E) <= n
  BY EntitiesAreFinite
<1>3. /\ grow \in [SUBSET E -> SUBSET E]
      /\ \A some \in SUBSET E : grow[some] = Reached(some, hop) /\ some \subseteq grow[some]
  BY DEF ReachSteps, Reached
<1>4. Hops(pack) \in Nat
  BY DEF Gathered, Hops
<1>5. Head(pack.order) \in E
  <2>1. pack.order \in Seq(Range(pack.order)) /\ pack.order # <<>>
    BY DEF Gathered
  <2>2. Head(pack.order) \in Range(pack.order)
    BY <2>1
  <2> QED BY <2>2 DEF Entities
<1> HIDE DEF n, E, grow
<1>6. \A i \in 1 .. n : f[i - 1] \in SUBSET E /\ f[i] = grow[f[i - 1]]
  <2> SUFFICES ASSUME NEW i \in 1 .. n PROVE f[i - 1] \in SUBSET E /\ f[i] = grow[f[i - 1]]
    OBVIOUS
  <2>1. i - 1 \in 0 .. n
    BY <1>2
  <2> QED BY <1>1, <1>3, <2>1
<1>7. grow[f[n]] = f[n]
  <2>1. f[0] # {}
    BY <1>1
  <2>2. \A i \in 1 .. n : f[i] = grow[f[i - 1]]
    BY <1>6
  <2>3. grow \in Growing(E) /\ f \in Growth(E, n, grow)
    BY <1>1, <1>3, <2>1, <2>2 DEF Growing, Growth
  <2> QED BY <1>2, <2>3, GrowthStops
<1>8. NodesAtHop(pack, hop) \subseteq f[n]
  <2>1. n \in 0 .. n /\ f[n] \in SUBSET E
    BY <1>1, <1>2
  <2>2. Closed(f[n], hop)
    BY <1>3, <1>7, <2>1 DEF Closed, Reached, E
  <2>3. Head(pack.order) \in f[n]
    <3> DEFINE Bad == {i \in 0 .. n : Head(pack.order) \notin f[i]}
    <3>1. Bad = {}
      <4> SUFFICES ASSUME Bad # {} PROVE FALSE
        OBVIOUS
      <4>1. PICK m \in Bad : \A k \in Bad : m <= k
        <5>1. Bad \subseteq Nat
          BY <1>2
        <5> QED BY <5>1, LeastOf
      <4>2. m # 0
        BY <1>1
      <4>3. m \in 1 .. n /\ m - 1 \in 0 .. n /\ ~ (m <= m - 1)
        BY <1>2, <4>2
      <4>4. Head(pack.order) \in f[m - 1]
        BY <4>1, <4>3
      <4> QED BY <1>3, <1>6, <4>3, <4>4
    <3> QED BY <2>1, <3>1
  <2> QED BY <2>1, <2>2, <2>3 DEF Connected, E
<1>9. f[n] \subseteq NodesAtHop(pack, hop)
  <2> DEFINE near == NodesAtHop(pack, hop)
             Bad == {i \in 0 .. n : ~ (f[i] \subseteq near)}
  <2>1. Head(pack.order) \in near
    BY <1>4, <1>5 DEF Connected, NodesAtHop, E
  <2>2. ASSUME NEW some \in SUBSET E, some \subseteq near PROVE Reached(some, hop) \subseteq near
    <3> SUFFICES ASSUME NEW e \in E, NEW a \in some, EdgeUpTo(hop, a, e) PROVE e \in near
      BY <2>2 DEF Reached, E
    <3>1. PICK id \in DOMAIN pack.found : id[1] = "edge" /\ {id[3], id[4]} = {a, e} /\ pack.found[id] <= hop
      BY DEF EdgeUpTo
    <3>2. e \in {id[3], id[4]}
      BY <3>1
    <3>3. pack.found[NodeId(e)] <= pack.found[id]
      BY <3>1, <3>2 DEF Connected
    <3>4. pack.found[NodeId(e)] \in Nat /\ pack.found[id] \in Nat
      <4>1. NodeId(e) \in DOMAIN pack.found
        BY DEF Gathered, E
      <4>2. \A x \in DOMAIN pack.found : pack.found[x] \in 0 .. Hops(pack)
        BY DEF Gathered
      <4> QED BY <1>4, <3>1, <4>1, <4>2
    <3>5. pack.found[NodeId(e)] <= hop
      BY <1>4, <3>1, <3>3, <3>4
    <3> QED BY <3>5 DEF NodesAtHop, E
  <2> HIDE DEF near
  <2>3. Bad = {}
    <3> SUFFICES ASSUME Bad # {} PROVE FALSE
      OBVIOUS
    <3>1. PICK m \in Bad : \A k \in Bad : m <= k
      <4>1. Bad \subseteq Nat
        BY <1>2
      <4> QED BY <4>1, LeastOf
    <3>2. m # 0
      BY <1>1, <2>1
    <3>3. m \in 1 .. n /\ m - 1 \in 0 .. n /\ ~ (m <= m - 1)
      BY <1>2, <3>2
    <3>4. f[m - 1] \subseteq near
      BY <3>1, <3>3
    <3> QED BY <1>1, <1>6, <2>2, <3>3, <3>4
  <2>4. n \in 0 .. n
    BY <1>2
  <2> QED BY <2>3, <2>4 DEF near
<1> QED BY <1>1, <1>8, <1>9

(***************************************************************************)
(* Callbacks counted.                                                      *)
(***************************************************************************)

\* The members of a set of places up to each one are counted one by one.
LEMMA PlacesAreCounted ==
    ASSUME NEW n \in Nat, NEW S, S \subseteq 1 .. n
    PROVE  /\ \A k \in 0 .. n : Cardinality({i \in S : i <= k}) \in Nat
           /\ \A k \in 1 .. n : Cardinality({i \in S : i <= k}) =
                 Cardinality({i \in S : i <= k - 1}) + (IF k \in S THEN 1 ELSE 0)
<1>1. ASSUME NEW k \in 0 .. n
      PROVE  IsFiniteSet({i \in S : i <= k}) /\ Cardinality({i \in S : i <= k}) \in Nat
  <2>0. 1 \in Int /\ n \in Int
    OBVIOUS
  <2>1. IsFiniteSet(1 .. n)
    BY <2>0, FS_Interval
  <2>2. IsFiniteSet({i \in S : i <= k})
    <3>1. {i \in S : i <= k} \subseteq 1 .. n
      OBVIOUS
    <3> QED BY <2>1, <3>1, FS_Subset
  <2> QED BY <2>2, FS_CardinalityType
<1>2. ASSUME NEW k \in 1 .. n
      PROVE  Cardinality({i \in S : i <= k}) =
                Cardinality({i \in S : i <= k - 1}) + (IF k \in S THEN 1 ELSE 0)
  <2>1. PICK m \in 0 .. n : m = k - 1
    OBVIOUS
  <2> DEFINE before == {i \in S : i <= m}
             upTo == {i \in S : i <= k}
  <2>2. IsFiniteSet(before) /\ k \notin before
    <3>1. IsFiniteSet(before)
      BY <1>1
    <3>2. ~ (k <= m)
      BY <2>1
    <3> QED BY <3>1, <3>2
  <2>3. upTo = IF k \in S THEN before \cup {k} ELSE before
    <3>1. \A i \in S : i \in Int /\ (i <= k <=> i <= m \/ i = k)
      BY <2>1
    <3> QED BY <3>1
  <2> HIDE DEF before, upTo
  <2>4. CASE k \in S
    <3>1. Cardinality(before \cup {k}) = Cardinality(before) + 1
      BY <2>2, FS_AddElement
    <3> QED BY <2>1, <2>3, <2>4, <3>1 DEF before, upTo
  <2>5. CASE k \notin S
    <3>1. Cardinality(upTo) = Cardinality(before) /\ Cardinality(before) \in Nat
      BY <2>2, <2>3, <2>5, FS_CardinalityType
    <3> QED BY <2>1, <2>5, <3>1 DEF before, upTo
  <2> QED BY <2>4, <2>5
<1> QED BY <1>1, <1>2

\* A depth goes up by one where one starts and down by one where one ends.
Counts(depth, starts, ends, n) ==
    /\ depth \in [0 .. n -> Int]
    /\ \A i \in 1 .. n : /\ i \in starts /\ i \notin ends => depth[i] = depth[i - 1] + 1
                         /\ i \notin starts /\ i \in ends => depth[i] = depth[i - 1] - 1
                         /\ i \notin starts /\ i \notin ends => depth[i] = depth[i - 1]

\* The depth of a page's elements is one.
LEMMA DepthCounts ==
    ASSUME NEW n \in Nat, NEW starts, starts \subseteq 1 .. n, NEW ends, ends \subseteq 1 .. n
    PROVE  Counts(Depth(starts, ends, n), starts, ends, n)
<1> DEFINE ups(k) == Cardinality({i \in starts : i <= k})
           downs(k) == Cardinality({i \in ends : i <= k})
<1>1. /\ \A k \in 0 .. n : ups(k) \in Nat
      /\ \A k \in 1 .. n : ups(k) = ups(k - 1) + (IF k \in starts THEN 1 ELSE 0)
  BY PlacesAreCounted
<1>2. /\ \A k \in 0 .. n : downs(k) \in Nat
      /\ \A k \in 1 .. n : downs(k) = downs(k - 1) + (IF k \in ends THEN 1 ELSE 0)
  BY PlacesAreCounted
<1>3. Depth(starts, ends, n) = [k \in 0 .. n |-> ups(k) - downs(k)]
  BY DEF Depth
<1> HIDE DEF ups, downs
<1>4. \A k \in 0 .. n : Depth(starts, ends, n)[k] = ups(k) - downs(k)
  BY <1>3
<1>5. Depth(starts, ends, n) \in [0 .. n -> Int]
  BY <1>1, <1>2, <1>3
<1>6. ASSUME NEW i \in 1 .. n
      PROVE  LET depth == Depth(starts, ends, n)
             IN /\ i \in starts /\ i \notin ends => depth[i] = depth[i - 1] + 1
                /\ i \notin starts /\ i \in ends => depth[i] = depth[i - 1] - 1
                /\ i \notin starts /\ i \notin ends => depth[i] = depth[i - 1]
  <2>1. i \in 0 .. n /\ i - 1 \in 0 .. n
    OBVIOUS
  <2> QED BY <1>1, <1>2, <1>4, <2>1
<1> QED BY <1>5, <1>6 DEF Counts

\* An ignored element that is open hides what follows: the parser's count of
\* them is how far the depth is above where it was lowest.
Hidden(depth, count, i) ==
    /\ \A j \in 0 .. i : depth[i] - depth[j] <= count
    /\ \E j \in 0 .. i : depth[i] - depth[j] = count

\* The parser's count follows the depth, but not below zero.
LEMMA HiddenFollows ==
    ASSUME NEW n \in Nat, NEW depth \in [0 .. n -> Int], NEW i \in 1 .. n, NEW count \in Int,
           Hidden(depth, count, i - 1), NEW now \in Int,
           \/ depth[i] = depth[i - 1] + 1 /\ now = count + 1
           \/ depth[i] = depth[i - 1] - 1 /\ now = IF count = 0 THEN 0 ELSE count - 1
           \/ depth[i] = depth[i - 1] /\ now = count
    PROVE  Hidden(depth, now, i)
<1>1. count >= 0
  BY DEF Hidden
<1>2. \A j \in 0 .. i : j \in 0 .. n /\ (j \in 0 .. i - 1 \/ j = i)
  OBVIOUS
<1>3. ASSUME NEW j \in 0 .. i PROVE depth[i] - depth[j] <= now
  <2>1. PICK x, y, z \in Int : x = depth[i] /\ y = depth[i - 1] /\ z = depth[j]
    <3>1. depth[i] \in Int /\ depth[i - 1] \in Int /\ depth[j] \in Int
      BY <1>2
    <3> QED BY <3>1
  <2>2. j \in 0 .. i - 1 => y - z <= count
    BY <2>1 DEF Hidden
  <2>3. \/ x = y + 1 /\ now = count + 1
        \/ x = y - 1 /\ now = IF count = 0 THEN 0 ELSE count - 1
        \/ x = y /\ now = count
    BY <2>1
  <2>4. CASE j \in 0 .. i - 1
    <3>1. x - z <= now
      BY <1>1, <2>2, <2>3, <2>4
    <3> QED BY <2>1, <3>1
  <2>5. CASE j = i
    <3>1. x = z /\ 0 <= now
      BY <1>1, <2>1, <2>3, <2>5
    <3> QED BY <2>1, <3>1
  <2> QED BY <1>2, <2>4, <2>5
<1>4. \E j \in 0 .. i : depth[i] - depth[j] = now
  <2>1. PICK j \in 0 .. i - 1 : depth[i - 1] - depth[j] = count
    BY DEF Hidden
  <2>2. j \in 0 .. i /\ i \in 0 .. i /\ depth[j] \in Int /\ depth[i] \in Int /\ depth[i - 1] \in Int
    BY <1>2
  <2>3. CASE depth[i] = depth[i - 1] - 1 /\ count = 0
    <3>1. now = 0 /\ depth[i] - depth[i] = 0
      BY <2>2, <2>3
    <3> QED BY <2>2, <3>1
  <2>4. CASE ~ (depth[i] = depth[i - 1] - 1 /\ count = 0)
    <3>1. PICK x, y, z \in Int : x = depth[i] /\ y = depth[i - 1] /\ z = depth[j]
      BY <2>2
    <3>2. y - z = count
      BY <2>1, <3>1
    <3>3. x - z = now
      <4>1. CASE x = y + 1 /\ now = count + 1
        BY <3>2, <4>1
      <4>2. CASE x = y - 1 /\ now = count - 1
        BY <3>2, <4>2
      <4>3. CASE x = y /\ now = count
        BY <3>2, <4>3
      <4> QED BY <2>4, <3>1, <4>1, <4>2, <4>3
    <3> QED BY <2>2, <3>1, <3>3
  <2> QED BY <2>3, <2>4
<1> QED BY <1>3, <1>4 DEF Hidden

\* What neither starts nor ends an ignored element is heard if none is open.
LEMMA HeardIfNoneOpen ==
    ASSUME NEW n \in Nat, NEW depth \in [0 .. n -> Int], NEW i \in 1 .. n, NEW count \in Int,
           Hidden(depth, count, i - 1), depth[i] = depth[i - 1]
    PROVE  (\A j \in 0 .. i : depth[i] <= depth[j]) <=> count = 0
<1>1. Hidden(depth, count, i) /\ \A j \in 0 .. i : depth[j] \in Int /\ depth[i] \in Int
  BY HiddenFollows
<1> QED BY <1>1 DEF Hidden

\* The parser's count of open divs is about the first callout still open.
Standing(callouts, depth, count, i) ==
    IF count = 0 THEN \A a \in callouts : a <= i => ~ Lasts(depth, a, i)
    ELSE \E a \in callouts :
           /\ a <= i /\ Lasts(depth, a, i) /\ count = depth[i] - depth[a] + 1
           /\ \A b \in callouts : b < a => ~ Lasts(depth, b, i)

\* It stays so as divs start and end, callouts begin and the first one closes.
LEMMA StandingFollows ==
    ASSUME NEW n \in Nat, NEW depth \in [0 .. n -> Int], NEW i \in 1 .. n, NEW count \in Int,
           NEW callouts, callouts \subseteq 1 .. n,
           Standing(callouts, depth, count, i - 1), NEW now \in Int,
           \/ count = 0 /\ now = 0 /\ i \notin callouts
           \/ count = 0 /\ now = 1 /\ i \in callouts
           \/ count # 0 /\ now = count /\ depth[i] = depth[i - 1] /\ i \notin callouts
           \/ count # 0 /\ now = count + 1 /\ depth[i] = depth[i - 1] + 1
           \/ count # 0 /\ now = count - 1 /\ depth[i] = depth[i - 1] - 1 /\ i \notin callouts
    PROVE  Standing(callouts, depth, now, i)
<1>1. \A a \in callouts : a <= i - 1 /\ ~ Lasts(depth, a, i - 1) => ~ Lasts(depth, a, i)
  BY DEF Lasts
<1>2. depth[i] \in Int /\ depth[i - 1] \in Int
  <2>1. i \in 0 .. n /\ i - 1 \in 0 .. n
    OBVIOUS
  <2> QED BY <2>1
<1>3. CASE count = 0
  <2>1. \A a \in callouts : a <= i - 1 => ~ Lasts(depth, a, i)
    BY <1>1, <1>3 DEF Standing
  <2>2. CASE i \notin callouts
    BY <1>3, <2>1, <2>2 DEF Standing
  <2>3. CASE i \in callouts
    <3>1. \A b \in callouts : b < i => ~ Lasts(depth, b, i)
      BY <2>1
    <3>2. Lasts(depth, i, i)
      BY <1>2 DEF Lasts
    <3>3. now = depth[i] - depth[i] + 1 /\ now # 0
      BY <1>2, <1>3, <2>3
    <3> QED BY <2>3, <3>1, <3>2, <3>3 DEF Standing
  <2> QED BY <2>2, <2>3
<1>4. CASE count # 0
  <2>1. PICK a \in callouts :
          /\ a <= i - 1 /\ Lasts(depth, a, i - 1) /\ count = depth[i - 1] - depth[a] + 1
          /\ \A b \in callouts : b < a => ~ Lasts(depth, b, i - 1)
    BY <1>4 DEF Standing
  <2>2. depth[a] \in Int /\ depth[a] <= depth[i - 1] /\ a <= i /\ i - 1 \in a .. i - 1
    <3>1. a \in 0 .. n /\ i - 1 \in a .. i - 1
      BY <2>1
    <3> QED BY <2>1, <3>1 DEF Lasts
  <2>3. \A b \in callouts : b < a => ~ Lasts(depth, b, i)
    BY <1>1, <2>1
  <2>4. now = depth[i] - depth[a] + 1 /\ (now # 0 => depth[a] <= depth[i]) /\ (now = 0 => depth[i] < depth[a])
    <3>1. PICK x \in Int : x = depth[i]
      BY <1>2
    <3>2. PICK y \in Int : y = depth[i - 1]
      BY <1>2
    <3>3. PICK z \in Int : z = depth[a]
      BY <2>2
    <3>4. count = y - z + 1 /\ z <= y
      BY <2>1, <2>2, <3>2, <3>3
    <3>5. \/ now = count /\ x = y
          \/ now = count + 1 /\ x = y + 1
          \/ now = count - 1 /\ x = y - 1
      BY <1>4, <3>1, <3>2
    <3>6. now = x - z + 1 /\ (now # 0 => z <= x) /\ (now = 0 => x < z)
      BY <3>4, <3>5
    <3> QED BY <3>1, <3>3, <3>6
  <2>5. CASE now # 0
    <3>1. depth[a] <= depth[i]
      BY <2>4, <2>5
    <3>2. \A k \in a .. i : k \in a .. i - 1 \/ k = i
      OBVIOUS
    <3>3. Lasts(depth, a, i)
      BY <2>1, <3>1, <3>2 DEF Lasts
    <3> QED BY <2>1, <2>2, <2>3, <2>4, <2>5, <3>3 DEF Standing
  <2>6. CASE now = 0
    <3>0. ~ (0 = count + 1)
      BY <1>2, <2>1, <2>2
    <3>1. i \notin callouts /\ depth[i] < depth[a]
      BY <1>4, <2>4, <2>6, <3>0
    <3>2. ASSUME NEW b \in callouts, b <= i PROVE ~ Lasts(depth, b, i)
      <4>1. CASE b < a
        BY <2>3, <4>1
      <4>2. CASE a <= b
        <5>1. b \in a .. i - 1 /\ i \in b .. i /\ depth[b] \in Int
          BY <3>1, <3>2, <4>2
        <5>2. depth[a] <= depth[b]
          BY <2>1, <5>1 DEF Lasts
        <5>3. ~ (depth[b] <= depth[i])
          BY <1>2, <2>2, <3>1, <5>1, <5>2
        <5> QED BY <5>1, <5>3 DEF Lasts
      <4> QED BY <4>1, <4>2, <2>1
    <3> QED BY <2>6, <3>2 DEF Standing
  <2> QED BY <2>5, <2>6
<1> QED BY <1>3, <1>4

\* What starts and ends no div stands in a callout if the parser counts one.
LEMMA StandsIfCounted ==
    ASSUME NEW n \in Nat, NEW depth \in [0 .. n -> Int], NEW i \in 1 .. n, NEW count \in Int,
           NEW callouts, callouts \subseteq 1 .. n,
           Standing(callouts, depth, count, i - 1), depth[i] = depth[i - 1], i \notin callouts
    PROVE  InsideOne(callouts, depth, i) <=> count # 0
<1>1. Standing(callouts, depth, count, i)
  BY StandingFollows
<1>2. CASE count = 0
  BY <1>1, <1>2 DEF Standing, InsideOne
<1>3. CASE count # 0
  <2>1. PICK a \in callouts : a <= i /\ Lasts(depth, a, i)
    BY <1>1, <1>3 DEF Standing
  <2>2. a < i
    BY <2>1
  <2> QED BY <1>3, <2>1, <2>2 DEF InsideOne
<1> QED BY <1>2, <1>3

(***************************************************************************)
(* The parser.                                                             *)
(***************************************************************************)

\* The sections, and the states of the parser, when callouts have words of their
\* own: a section has words of one or of the other.
Sections(plain, boxed) ==
    [heading : Seq(plain), text : Seq(plain) \cup Seq(boxed), kind : {"heading", "labelled_item", "callout"}]
ParserStates(plain, boxed) ==
    [sections : Seq(Sections(plain, boxed)), headed : BOOLEAN, heading : Seq(plain), buffer : Seq(plain),
     items : Seq(Sections(plain, boxed)), inHeading : BOOLEAN, headingBuffer : Seq(plain), ignore : Int,
     li : Int, itemBuffer : Seq(plain), labelled : BOOLEAN, label : Seq(plain), inLabel : BOOLEAN,
     labelBuffer : Seq(plain), callout : Int, calloutBuffer : Seq(boxed)]

\* What a block makes is a section of its words, or nothing.
LEMMA SectionIsOne ==
    ASSUME NEW plain, NEW boxed, NEW heading \in Seq(plain),
           NEW text \in Seq(plain) \cup Seq(boxed),
           NEW kind \in {"heading", "labelled_item", "callout"}
    PROVE  SectionIf(heading, text, kind) \in Seq(Sections(plain, boxed))
<1>1. Section(heading, text, kind) \in Sections(plain, boxed)
  BY DEF Section, Sections
<1> HIDE DEF Sections
<1>2. <<Section(heading, text, kind)>> \in Seq(Sections(plain, boxed)) /\ <<>> \in Seq(Sections(plain, boxed))
  BY <1>1
<1> QED BY <1>2 DEF SectionIf

\* What the parser emits are sections of its words.
LEMMA EmittedAreSections ==
    ASSUME NEW plain, NEW boxed, NEW s \in ParserStates(plain, boxed)
    PROVE  Emitted(s) \in Seq(Sections(plain, boxed))
<1>1. s.items \in Seq(Sections(plain, boxed)) /\ s.heading \in Seq(plain) /\ s.buffer \in Seq(plain)
  BY DEF ParserStates
<1>2. SectionIf(s.heading, s.buffer, "heading") \in Seq(Sections(plain, boxed))
  BY <1>1, SectionIsOne
<1>3. SectionIf(s.heading, s.buffer, "heading") \o s.items \in Seq(Sections(plain, boxed))
  BY <1>1, <1>2
<1>4. <<>> \in Seq(Sections(plain, boxed))
  OBVIOUS
<1> QED BY <1>3, <1>4 DEF Emitted

\* To end a section leaves a state of the same words.
LEMMA FlushKeepsTypes ==
    ASSUME NEW plain, NEW boxed, NEW s \in ParserStates(plain, boxed)
    PROVE  Flush(s) \in ParserStates(plain, boxed)
<1>1. Emitted(s) \in Seq(Sections(plain, boxed))
  BY EmittedAreSections
<1>2. s.sections \o Emitted(s) \in Seq(Sections(plain, boxed))
  BY <1>1 DEF ParserStates
<1>3. <<>> \in Seq(plain) /\ <<>> \in Seq(Sections(plain, boxed))
  OBVIOUS
<1> QED BY <1>2, <1>3 DEF Flush, ParserStates

\* So does a tag in a callout, and the end of one.
LEMMA CalloutsKeepTypes ==
    ASSUME NEW plain, NEW boxed, NEW s \in ParserStates(plain, boxed), NEW tag, NEW closing
    PROVE  CloseCallout(s) \in ParserStates(plain, boxed) /\ InCallout(s, tag, closing) \in ParserStates(plain, boxed)
<1>1. ASSUME NEW t \in ParserStates(plain, boxed) PROVE CloseCallout(t) \in ParserStates(plain, boxed)
  <2>1. /\ t.items \in Seq(Sections(plain, boxed)) /\ t.calloutBuffer \in Seq(boxed) /\ <<>> \in Seq(boxed)
        /\ <<>> \in Seq(plain)
    BY DEF ParserStates
  <2>2. SectionIf(<<>>, t.calloutBuffer, "callout") \in Seq(Sections(plain, boxed))
    BY <2>1, SectionIsOne
  <2>3. t.items \o SectionIf(<<>>, t.calloutBuffer, "callout") \in Seq(Sections(plain, boxed))
    BY <2>1, <2>2
  <2> QED BY <2>1, <2>3 DEF CloseCallout, ParserStates
<1>2. ASSUME NEW depth \in Int PROVE [s EXCEPT !.callout = depth] \in ParserStates(plain, boxed)
  BY DEF ParserStates
<1>3. s.callout - 1 \in Int /\ s.callout + 1 \in Int
  BY DEF ParserStates
<1> QED BY <1>1, <1>2, <1>3 DEF InCallout

\* So does a list item, opened or closed.
LEMMA ItemsKeepTypes ==
    ASSUME NEW plain, NEW boxed, NEW s \in ParserStates(plain, boxed)
    PROVE  OpenLi(s) \in ParserStates(plain, boxed) /\ CloseLi(s) \in ParserStates(plain, boxed)
<1>1. s.li \in Int /\ s.li + 1 \in Int /\ <<>> \in Seq(plain)
  BY DEF ParserStates
<1>2. OpenLi(s) \in ParserStates(plain, boxed)
  <2>1. [s EXCEPT !.li = 1, !.itemBuffer = <<>>, !.labelled = FALSE, !.label = <<>>] \in ParserStates(plain, boxed)
    <3>1. ASSUME NEW n \in Int PROVE [s EXCEPT !.li = n] \in ParserStates(plain, boxed)
      BY DEF ParserStates
    <3>2. ASSUME NEW t \in ParserStates(plain, boxed)
          PROVE  [t EXCEPT !.itemBuffer = <<>>, !.labelled = FALSE, !.label = <<>>] \in ParserStates(plain, boxed)
      BY <1>1 DEF ParserStates
    <3>3. 1 \in Int
      OBVIOUS
    <3>4. [s EXCEPT !.li = 1] \in ParserStates(plain, boxed)
      BY <3>1, <3>3, Zenon
    <3> QED BY <3>2, <3>4
  <2>2. [s EXCEPT !.li = s.li + 1] \in ParserStates(plain, boxed)
    BY <1>1 DEF ParserStates
  <2> QED BY <2>1, <2>2 DEF OpenLi
<1>3. CloseItem(s) \in ParserStates(plain, boxed)
  <2>1. /\ s.items \in Seq(Sections(plain, boxed)) /\ s.label \in Seq(plain)
        /\ s.itemBuffer \in Seq(plain) /\ s.buffer \in Seq(plain)
    BY DEF ParserStates
  <2>2. s.label \o s.itemBuffer \in Seq(plain) /\ s.buffer \o s.itemBuffer \in Seq(plain)
    BY <2>1
  <2>3. Section(s.label, s.label \o s.itemBuffer, "labelled_item") \in Sections(plain, boxed)
    BY <2>1, <2>2 DEF Section, Sections
  <2>4. Append(s.items, Section(s.label, s.label \o s.itemBuffer, "labelled_item")) \in Seq(Sections(plain, boxed))
    BY <2>1, <2>3
  <2> QED BY <1>1, <2>1, <2>2, <2>4 DEF CloseItem, ParserStates
<1>4. ASSUME NEW t \in ParserStates(plain, boxed) PROVE [t EXCEPT !.li = @ - 1] \in ParserStates(plain, boxed)
  <2>1. t.li \in Int
    BY DEF ParserStates
  <2>2. t.li - 1 \in Int
    BY <2>1
  <2> QED BY <2>2 DEF ParserStates
<1>5. CloseLi(s) \in ParserStates(plain, boxed)
  BY <1>3, <1>4 DEF CloseLi
<1> QED BY <1>2, <1>5

\* The words that come to a state are of its callout, or not of one.
Fitting(s, words, plain, boxed) ==
    IF s.callout > 0 THEN words \in Seq(boxed)
    ELSE s.inHeading \/ s.inLabel \/ s.headed => words \in Seq(plain)

\* Every callback leaves the parser in a state of its words.
LEMMA HandleKeepsTypes ==
    ASSUME NEW plain, NEW boxed, NEW s \in ParserStates(plain, boxed), NEW token,
           token.event = "data" /\ ~ (s.ignore > 0) => Fitting(s, token.words, plain, boxed)
    PROVE  Handle(s, token) \in ParserStates(plain, boxed)
<1>1. ASSUME NEW some, Fitting(s, some, plain, boxed) PROVE Data(s, some) \in ParserStates(plain, boxed)
  <2>1. CASE s.callout > 0
    <3>1. s.calloutBuffer \o some \in Seq(boxed)
      BY <1>1, <2>1 DEF ParserStates, Fitting
    <3>2. s.callout # 0
      BY <2>1
    <3>3. Data(s, some) = [s EXCEPT !.calloutBuffer = s.calloutBuffer \o some]
      BY <2>1, <3>2 DEF Data
    <3> QED BY <3>1, <3>3 DEF ParserStates
  <2>2. CASE ~ (s.callout > 0) /\ (s.inHeading \/ s.inLabel \/ s.headed)
    <3>1. /\ s.headingBuffer \o some \in Seq(plain) /\ s.labelBuffer \o some \in Seq(plain)
          /\ s.itemBuffer \o some \in Seq(plain) /\ s.buffer \o some \in Seq(plain)
      BY <1>1, <2>2 DEF ParserStates, Fitting
    <3> QED BY <2>2, <3>1 DEF Data, ParserStates
  <2>3. CASE ~ (s.callout > 0) /\ ~ (s.inHeading \/ s.inLabel \/ s.headed)
    BY <2>3 DEF Data
  <2> QED BY <2>1, <2>2, <2>3
<1>0. <<>> \in Seq(plain) /\ <<>> \in Seq(boxed)
  OBVIOUS
<1>2. ASSUME NEW tag, NEW aside PROVE StartTag(s, tag, aside) \in ParserStates(plain, boxed)
  <2>1. ASSUME NEW t \in ParserStates(plain, boxed)
        PROVE  [t EXCEPT !.inHeading = TRUE, !.headingBuffer = <<>>] \in ParserStates(plain, boxed)
    BY <1>0 DEF ParserStates
  <2>2. [s EXCEPT !.callout = 1, !.calloutBuffer = <<>>] \in ParserStates(plain, boxed)
    <3>2. ASSUME NEW t \in ParserStates(plain, boxed), NEW n \in Int PROVE [t EXCEPT !.callout = n] \in ParserStates(plain, boxed)
      BY DEF ParserStates
    <3>1. 1 \in Int
      OBVIOUS
    <3>3. [s EXCEPT !.callout = 1] \in ParserStates(plain, boxed)
      BY <3>1, <3>2, Zenon
    <3>4. ASSUME NEW t \in ParserStates(plain, boxed) PROVE [t EXCEPT !.calloutBuffer = <<>>] \in ParserStates(plain, boxed)
      BY <1>0 DEF ParserStates
    <3> QED BY <3>3, <3>4
  <2>3. [s EXCEPT !.inLabel = TRUE, !.labelBuffer = <<>>] \in ParserStates(plain, boxed)
    BY <1>0 DEF ParserStates
  <2> QED BY <2>1, <2>2, <2>3, FlushKeepsTypes, ItemsKeepTypes DEF StartTag
<1>3. ASSUME NEW tag PROVE EndTag(s, tag) \in ParserStates(plain, boxed)
  <2>1. [s EXCEPT !.inHeading = FALSE, !.headed = TRUE, !.heading = s.headingBuffer] \in ParserStates(plain, boxed)
    BY DEF ParserStates
  <2>2. [s EXCEPT !.inLabel = FALSE, !.labelled = TRUE, !.label = s.labelBuffer] \in ParserStates(plain, boxed)
    BY DEF ParserStates
  <2> QED BY <2>1, <2>2, ItemsKeepTypes DEF EndTag
<1>4. [s EXCEPT !.ignore = IF token.event = "start" THEN @ + 1 ELSE IF @ = 0 THEN 0 ELSE @ - 1]
          \in ParserStates(plain, boxed)
  <2>1. s.ignore \in Int
    BY DEF ParserStates
  <2>2. (IF token.event = "start" THEN s.ignore + 1 ELSE IF s.ignore = 0 THEN 0 ELSE s.ignore - 1) \in Int
    BY <2>1
  <2> QED BY <2>2 DEF ParserStates
<1>5. InCallout(s, token.tag, token.event = "end") \in ParserStates(plain, boxed)
  BY CalloutsKeepTypes
<1> QED BY <1>1, <1>2, <1>3, <1>4, <1>5 DEF Handle

\* What a callback leaves as it was: all that says where in the page it stands.
Alike(r, s) ==
    r.ignore = s.ignore /\ r.callout = s.callout /\ r.inHeading = s.inHeading /\ r.headed = s.headed

\* An item, a callout and a section are closed without a move.
LEMMA ClosingMoves ==
    ASSUME NEW plain, NEW boxed, NEW s \in ParserStates(plain, boxed)
    PROVE  /\ Alike(OpenLi(s), s) /\ Alike(CloseLi(s), s) /\ Alike(CloseCallout(s), s)
           /\ Flush(s).ignore = s.ignore /\ Flush(s).callout = s.callout
<1>1. Alike(OpenLi(s), s)
  BY DEF ParserStates, OpenLi, Alike
<1>2. Alike(CloseLi(s), s)
  BY DEF ParserStates, CloseLi, CloseItem, Alike
<1>3. Alike(CloseCallout(s), s)
  BY DEF ParserStates, CloseCallout, Alike
<1>4. Flush(s).ignore = s.ignore /\ Flush(s).callout = s.callout
  BY DEF ParserStates, Flush
<1> QED BY <1>1, <1>2, <1>3, <1>4

\* A tag of an ignored element.
IgnoredTag(token) == token.event # "data" /\ token.tag \in Ignored

\* A tag of an ignored element changes their count and nothing else; what it
\* hides changes nothing.
LEMMA IgnoredMoves ==
    ASSUME NEW plain, NEW boxed, NEW s \in ParserStates(plain, boxed), NEW token
    PROVE  /\ IgnoredTag(token) =>
                 Handle(s, token) = [s EXCEPT !.ignore = IF token.event = "start" THEN s.ignore + 1
                                                         ELSE IF s.ignore = 0 THEN 0 ELSE s.ignore - 1]
           /\ ~ IgnoredTag(token) /\ s.ignore > 0 => Handle(s, token) = s
<1>1. CASE token.event = "data"
  BY <1>1 DEF Handle, IgnoredTag
<1>2. CASE token.event # "data" /\ token.tag \in Ignored
  BY <1>2 DEF Handle, IgnoredTag
<1>3. CASE token.event # "data" /\ token.tag \notin Ignored
  BY <1>3 DEF Handle, IgnoredTag
<1> QED BY <1>1, <1>2, <1>3

\* In a callout only divs count, until its own is closed.
LEMMA CalloutMoves ==
    ASSUME NEW plain, NEW boxed, NEW s \in ParserStates(plain, boxed), s.callout > 0, ~ (s.ignore > 0),
           NEW token, ~ IgnoredTag(token)
    PROVE  LET r == Handle(s, token)
           IN /\ r.ignore = s.ignore /\ r.inHeading = s.inHeading /\ r.headed = s.headed
              /\ r.callout = IF token.event = "data" \/ token.tag # "div" THEN s.callout
                             ELSE IF token.event = "end" THEN s.callout - 1 ELSE s.callout + 1
<1>1. CASE token.event = "data"
  <2>1. Handle(s, token) = [s EXCEPT !.calloutBuffer = @ \o token.words]
    BY <1>1 DEF Handle, Data
  <2> QED BY <1>1, <2>1 DEF ParserStates
<1>2. CASE token.event # "data"
  <2> DEFINE depth == IF token.event = "end" THEN s.callout - 1 ELSE s.callout + 1
             moved == [s EXCEPT !.callout = depth]
  <2>1. Handle(s, token) = IF token.tag # "div" THEN s ELSE IF depth = 0 THEN CloseCallout(moved) ELSE moved
    BY <1>2 DEF Handle, IgnoredTag, InCallout
  <2>2. moved \in ParserStates(plain, boxed)
    <3>1. depth \in Int
      BY DEF ParserStates
    <3> HIDE DEF depth
    <3> QED BY <3>1 DEF ParserStates
  <2>3. /\ moved.callout = depth /\ moved.ignore = s.ignore
        /\ moved.inHeading = s.inHeading /\ moved.headed = s.headed
    BY DEF ParserStates
  <2>4. Alike(CloseCallout(moved), moved)
    BY <2>2, ClosingMoves
  <2> HIDE DEF depth, moved
  <2>5. token.tag = "div" =>
          LET r == Handle(s, token)
          IN r.callout = depth /\ r.ignore = s.ignore /\ r.inHeading = s.inHeading /\ r.headed = s.headed
    BY <2>1, <2>3, <2>4 DEF Alike
  <2>6. token.tag # "div" => Handle(s, token) = s
    BY <2>1
  <2> QED BY <1>2, <2>5, <2>6 DEF depth
<1> QED BY <1>1, <1>2

\* Outside one a heading starts and ends, and a callout begins under a heading.
LEMMA OtherMoves ==
    ASSUME NEW plain, NEW boxed, NEW s \in ParserStates(plain, boxed), s.callout = 0, ~ (s.ignore > 0),
           NEW token, ~ IgnoredTag(token), token.event \in {"start", "end", "data"}
    PROVE  LET r == Handle(s, token)
           IN IF token.event = "start" /\ token.tag \in Headings
              THEN r.ignore = s.ignore /\ r.callout = 0 /\ r.inHeading
              ELSE IF token.event = "start" /\ token.tag = "div" /\ s.headed /\ token.aside
              THEN r.ignore = s.ignore /\ r.callout = 1 /\ r.inHeading = s.inHeading /\ r.headed
              ELSE IF token.event = "end" /\ token.tag \in Headings /\ s.inHeading
              THEN r.ignore = s.ignore /\ r.callout = 0 /\ ~ r.inHeading /\ r.headed
              ELSE Alike(r, s)
<1>1. CASE token.event = "data"
  <2>1. Handle(s, token) = Data(s, token.words)
    BY <1>1 DEF Handle
  <2>2. Alike(Data(s, token.words), s)
    BY DEF Data, Alike, ParserStates
  <2> QED BY <1>1, <2>1, <2>2
<1>2. CASE token.event = "start"
  <2>1. Handle(s, token) = StartTag(s, token.tag, token.aside)
    BY <1>2 DEF Handle, IgnoredTag
  <2>2. CASE token.tag \in Headings
    <3>1. Handle(s, token) = [Flush(s) EXCEPT !.inHeading = TRUE, !.headingBuffer = <<>>]
      BY <2>1, <2>2 DEF StartTag, Headings, Labels
    <3>2. Flush(s) \in ParserStates(plain, boxed)
      BY FlushKeepsTypes
    <3>3. Flush(s).ignore = s.ignore /\ Flush(s).callout = s.callout
      BY ClosingMoves
    <3> QED BY <1>2, <2>2, <3>1, <3>2, <3>3 DEF ParserStates
  <2>3. CASE token.tag = "div" /\ s.headed /\ token.aside
    <3>1. Handle(s, token) = [s EXCEPT !.callout = 1, !.calloutBuffer = <<>>]
      BY <2>1, <2>3 DEF StartTag, Headings, Labels
    <3> QED BY <1>2, <2>3, <3>1 DEF ParserStates, Headings
  <2>4. CASE token.tag = "li" /\ s.headed
    <3>1. Handle(s, token) = OpenLi(s)
      BY <2>1, <2>4 DEF StartTag, Headings, Labels
    <3> QED BY <1>2, <2>4, <3>1, ClosingMoves DEF Headings
  <2>5. CASE token.tag \in Labels /\ s.li = 1 /\ ~ s.labelled
    <3>1. Handle(s, token) = [s EXCEPT !.inLabel = TRUE, !.labelBuffer = <<>>]
      BY <2>1, <2>5 DEF StartTag, Headings, Labels
    <3>2. Alike(Handle(s, token), s)
      BY <3>1 DEF ParserStates, Alike
    <3> QED BY <1>2, <2>5, <3>2 DEF Headings, Labels
  <2>6. CASE /\ token.tag \notin Headings /\ ~ (token.tag = "div" /\ s.headed /\ token.aside)
             /\ ~ (token.tag = "li" /\ s.headed) /\ ~ (token.tag \in Labels /\ s.li = 1 /\ ~ s.labelled)
    <3>1. Handle(s, token) = s
      BY <2>1, <2>6 DEF StartTag
    <3> QED BY <1>2, <2>6, <3>1 DEF Alike
  <2> QED BY <2>2, <2>3, <2>4, <2>5, <2>6
<1>3. CASE token.event = "end"
  <2>1. Handle(s, token) = EndTag(s, token.tag)
    BY <1>3 DEF Handle, IgnoredTag
  <2>2. CASE token.tag \in Headings /\ s.inHeading
    <3>1. Handle(s, token) = [s EXCEPT !.inHeading = FALSE, !.headed = TRUE, !.heading = s.headingBuffer]
      BY <2>1, <2>2 DEF EndTag, Headings, Labels
    <3> QED BY <1>3, <2>2, <3>1 DEF ParserStates
  <2>3. CASE token.tag \in Labels /\ s.inLabel
    <3>1. Handle(s, token) = [s EXCEPT !.inLabel = FALSE, !.labelled = TRUE, !.label = s.labelBuffer]
      BY <2>1, <2>3 DEF EndTag, Headings, Labels
    <3>2. Alike(Handle(s, token), s)
      BY <3>1 DEF ParserStates, Alike
    <3> QED BY <1>3, <2>3, <3>2 DEF Headings, Labels
  <2>4. CASE token.tag = "li" /\ s.li > 0
    <3>1. Handle(s, token) = CloseLi(s)
      BY <2>1, <2>4 DEF EndTag, Headings, Labels
    <3> QED BY <1>3, <2>4, <3>1, ClosingMoves DEF Headings
  <2>5. CASE /\ ~ (token.tag \in Headings /\ s.inHeading) /\ ~ (token.tag \in Labels /\ s.inLabel)
             /\ ~ (token.tag = "li" /\ s.li > 0)
    <3>1. Handle(s, token) = s
      BY <2>1, <2>5 DEF EndTag
    <3> QED BY <1>3, <2>5, <3>1 DEF Alike
  <2> QED BY <2>2, <2>3, <2>4, <2>5
<1> QED BY <1>1, <1>2, <1>3

\* Before its first heading a page moves nothing.
LEMMA NothingBeforeHeadings ==
    ASSUME NEW s, s.callout = 0, ~ (s.ignore > 0), ~ s.inHeading, ~ s.headed, ~ s.inLabel, s.li = 0,
           NEW token, ~ IgnoredTag(token), token.event \in {"start", "end", "data"},
           ~ (token.event = "start" /\ token.tag \in Headings)
    PROVE  Handle(s, token) = s
<1>1. CASE token.event = "data"
  BY <1>1 DEF Handle, Data
<1>2. CASE token.event = "start"
  <2>1. Handle(s, token) = StartTag(s, token.tag, token.aside)
    BY <1>2 DEF Handle, IgnoredTag
  <2> QED BY <1>2, <2>1 DEF StartTag
<1>3. CASE token.event = "end"
  <2>1. Handle(s, token) = EndTag(s, token.tag)
    BY <1>3 DEF Handle, IgnoredTag
  <2> QED BY <2>1 DEF EndTag
<1> QED BY <1>1, <1>2, <1>3

(***************************************************************************)
(* Where the parser stands in a page.                                      *)
(***************************************************************************)

\* A heading has started by a callback; one has and none has ended since.
Begun(starts, i) == \E h \in starts : h <= i
InOneOf(starts, ends, i) == \E h \in starts : h <= i /\ \A e \in ends : ~ (h < e /\ e <= i)

\* Where a state of the parser stands in a page: the ignored elements that are
\* open are counted, as are the divs of the first open callout; before the
\* first heading nothing has happened, a heading that is open is no callout.
Placed(tokens, s, i) ==
    /\ Hidden(IgnoredDepth(tokens), s.ignore, i)
    /\ Standing(Callouts(tokens), DivDepth(tokens), s.callout, i)
    /\ IF Begun(HeadingStarts(tokens), i) THEN s.inHeading \/ s.headed ELSE s = [Fresh EXCEPT !.ignore = s.ignore]
    /\ s.inHeading => s.callout = 0 /\ InOneOf(HeadingStarts(tokens), HeadingEnds(tokens), i)

\* Pages whose callbacks are a sequence of tags and data.
Callbacks(tokens, n) ==
    /\ n \in Nat /\ Len(tokens) = n /\ DOMAIN tokens = 1 .. n
    /\ \A i \in 1 .. n : tokens[i].event \in {"start", "end", "data"}

\* What the tags of a page count.
LEMMA CallbacksCount ==
    ASSUME NEW n \in Nat, NEW tokens, Callbacks(tokens, n)
    PROVE  /\ Counts(IgnoredDepth(tokens), Tagged(tokens, "start", Ignored), Tagged(tokens, "end", Ignored), n)
           /\ Counts(DivDepth(tokens), HeardTags(tokens, "start", {"div"}), HeardTags(tokens, "end", {"div"}), n)
           /\ Callouts(tokens) \subseteq 1 .. n
           /\ HeadingStarts(tokens) \subseteq 1 .. n /\ HeadingEnds(tokens) \subseteq 1 .. n
<1>1. \A event, tags : Tagged(tokens, event, tags) \subseteq 1 .. n /\ HeardTags(tokens, event, tags) \subseteq 1 .. n
  BY DEF Callbacks, Tagged, HeardTags
<1>2. Len(tokens) = n
  BY DEF Callbacks
<1>3. Counts(IgnoredDepth(tokens), Tagged(tokens, "start", Ignored), Tagged(tokens, "end", Ignored), n)
  BY <1>1, <1>2, DepthCounts DEF IgnoredDepth
<1>4. Counts(DivDepth(tokens), HeardTags(tokens, "start", {"div"}), HeardTags(tokens, "end", {"div"}), n)
  BY <1>1, <1>2, DepthCounts DEF DivDepth
<1>5. Callouts(tokens) \subseteq 1 .. n
  BY <1>1 DEF Callouts
<1> QED BY <1>1, <1>3, <1>4, <1>5 DEF HeadingStarts, HeadingEnds

\* A callback that is no tag of an ignored element is heard if none is open.
LEMMA HeardIfNotHidden ==
    ASSUME NEW n \in Nat, NEW tokens, Callbacks(tokens, n), NEW i \in 1 .. n, NEW count \in Int,
           Hidden(IgnoredDepth(tokens), count, i - 1), ~ IgnoredTag(tokens[i])
    PROVE  i \in Heard(tokens) <=> count = 0
<1> DEFINE depth == IgnoredDepth(tokens)
<1>1. Counts(depth, Tagged(tokens, "start", Ignored), Tagged(tokens, "end", Ignored), n)
  BY CallbacksCount
<1>2. i \notin Tagged(tokens, "start", Ignored) /\ i \notin Tagged(tokens, "end", Ignored)
  BY DEF Tagged, IgnoredTag
<1>3. i \in DOMAIN tokens
  BY DEF Callbacks
<1>4. i \in Heard(tokens) <=> \A j \in 0 .. i : depth[i] <= depth[j]
  BY <1>3 DEF Heard
<1> HIDE DEF depth
<1>5. depth \in [0 .. n -> Int] /\ depth[i] = depth[i - 1]
  BY <1>1, <1>2 DEF Counts
<1>6. (\A j \in 0 .. i : depth[i] <= depth[j]) <=> count = 0
  BY <1>5, HeardIfNoneOpen DEF depth
<1> QED BY <1>4, <1>6

\* A heading stays open until one ends.
LEMMA HeadingFollows ==
    ASSUME NEW n \in Nat, NEW i \in 1 .. n, NEW starts, starts \subseteq 1 .. n, NEW ends, ends \subseteq 1 .. n
    PROVE  /\ Begun(starts, i - 1) => Begun(starts, i)
           /\ i \in starts => Begun(starts, i) /\ InOneOf(starts, ends, i)
           /\ i \notin starts /\ Begun(starts, i) => Begun(starts, i - 1)
           /\ i \notin ends /\ InOneOf(starts, ends, i - 1) => InOneOf(starts, ends, i)
<1>1. \A h \in starts \cup ends : h \in Int /\ (h <= i <=> h <= i - 1 \/ h = i)
  OBVIOUS
<1>2. Begun(starts, i - 1) => Begun(starts, i)
  BY <1>1 DEF Begun
<1>3. i \in starts => Begun(starts, i) /\ InOneOf(starts, ends, i)
  BY <1>1 DEF Begun, InOneOf
<1>4. i \notin starts /\ Begun(starts, i) => Begun(starts, i - 1)
  BY <1>1 DEF Begun
<1>5. i \notin ends /\ InOneOf(starts, ends, i - 1) => InOneOf(starts, ends, i)
  BY <1>1 DEF InOneOf
<1> QED BY <1>2, <1>3, <1>4, <1>5

\* Where a state stands, its counts are no less than zero.
LEMMA PlacedCounts ==
    ASSUME NEW n \in Nat, NEW tokens, Callbacks(tokens, n), NEW i \in 1 .. n,
           NEW plain, NEW boxed, NEW s \in ParserStates(plain, boxed), Placed(tokens, s, i - 1)
    PROVE  s.ignore >= 0 /\ (s.callout = 0 \/ s.callout > 0)
<1>1. PICK ignored, depth : ignored = IgnoredDepth(tokens) /\ depth = DivDepth(tokens)
  OBVIOUS
<1>2. /\ ignored \in [0 .. n -> Int] /\ depth \in [0 .. n -> Int] /\ Callouts(tokens) \subseteq 1 .. n
      /\ s.ignore \in Int /\ s.callout \in Int
  BY <1>1, CallbacksCount DEF Counts, ParserStates
<1>3. s.ignore >= 0
  <2>1. Hidden(ignored, s.ignore, i - 1)
    BY <1>1 DEF Placed
  <2>2. ignored[i - 1] \in Int /\ ignored[i - 1] - ignored[i - 1] <= s.ignore
    BY <1>2, <2>1 DEF Hidden
  <2> QED BY <1>2, <2>2
<1>4. ASSUME s.callout # 0 PROVE s.callout > 0
  <2>1. PICK a \in Callouts(tokens) :
          a <= i - 1 /\ Lasts(depth, a, i - 1) /\ s.callout = depth[i - 1] - depth[a] + 1
    BY <1>1, <1>4 DEF Placed, Standing
  <2>2. a \in 0 .. n /\ i - 1 \in a .. i - 1 /\ i - 1 \in 0 .. n
    BY <1>2, <2>1
  <2>3. depth[a] <= depth[i - 1] /\ depth[a] \in Int /\ depth[i - 1] \in Int
    BY <1>2, <2>1, <2>2 DEF Lasts
  <2>4. PICK x, y \in Int : x = depth[a] /\ y = depth[i - 1]
    BY <2>3
  <2>5. s.callout = y - x + 1 /\ x <= y
    BY <2>1, <2>3, <2>4
  <2> QED BY <2>5
<1> QED BY <1>3, <1>4

\* Every callback of a page whose headings hold no callout moves the parser as
\* it moves in the page.
LEMMA HandleFollows ==
    ASSUME NEW n \in Nat, NEW tokens, Callbacks(tokens, n),
           HeadingsHoldNone(HeadingStarts(tokens), HeadingEnds(tokens), Callouts(tokens)),
           NEW plain, NEW boxed, NEW s \in ParserStates(plain, boxed), NEW i \in 1 .. n, Placed(tokens, s, i - 1)
    PROVE  Placed(tokens, Handle(s, tokens[i]), i)
<1> DEFINE token == tokens[i]
           r == Handle(s, token)
           starts == HeadingStarts(tokens)
           ends == HeadingEnds(tokens)
           callouts == Callouts(tokens)
           depth == DivDepth(tokens)
           ignored == IgnoredDepth(tokens)
           Ups == HeardTags(tokens, "start", {"div"})
           Downs == HeardTags(tokens, "end", {"div"})
<1> SUFFICES Placed(tokens, r, i)
  OBVIOUS
<1>1. /\ token.event \in {"start", "end", "data"}
      /\ starts \subseteq 1 .. n /\ ends \subseteq 1 .. n /\ callouts \subseteq 1 .. n
      /\ depth \in [0 .. n -> Int] /\ ignored \in [0 .. n -> Int]
  BY CallbacksCount DEF Callbacks, Counts
<1>2. Counts(depth, Ups, Downs, n)
  BY CallbacksCount
<1>3. /\ i \in Tagged(tokens, "start", Ignored) <=> token.event = "start" /\ token.tag \in Ignored
      /\ i \in Tagged(tokens, "end", Ignored) <=> token.event = "end" /\ token.tag \in Ignored
  BY DEF Callbacks, Tagged
<1>4. /\ i \in Ups <=> token.event = "start" /\ token.tag = "div" /\ i \in Heard(tokens)
      /\ i \in Downs <=> token.event = "end" /\ token.tag = "div" /\ i \in Heard(tokens)
      /\ i \in starts <=> token.event = "start" /\ token.tag \in Headings /\ i \in Heard(tokens)
      /\ i \in ends <=> token.event = "end" /\ token.tag \in Headings /\ i \in Heard(tokens)
  BY DEF Callbacks, Tagged, HeardTags, HeadingStarts, HeadingEnds
<1>5. i \in callouts <=> i \in Ups /\ token.aside /\ \E h \in starts : h < i
  BY DEF Callouts
<1>6. s.ignore \in Int /\ s.callout \in Int /\ s.inHeading \in BOOLEAN /\ s.headed \in BOOLEAN
  BY DEF ParserStates
<1>7. s.ignore >= 0 /\ (s.callout = 0 \/ s.callout > 0)
  BY PlacedCounts
<1>8. /\ Hidden(ignored, s.ignore, i - 1)
      /\ Standing(callouts, depth, s.callout, i - 1)
      /\ IF Begun(starts, i - 1) THEN s.inHeading \/ s.headed ELSE s = [Fresh EXCEPT !.ignore = s.ignore]
      /\ s.inHeading => s.callout = 0 /\ InOneOf(starts, ends, i - 1)
  BY DEF Placed
<1>9. ~ IgnoredTag(token) => (i \in Heard(tokens) <=> s.ignore = 0)
  BY <1>6, <1>8, HeardIfNotHidden
<1> HIDE DEF starts, ends, callouts, depth, ignored, Ups, Downs
<1>10. /\ Begun(starts, i - 1) => Begun(starts, i)
       /\ i \in starts => Begun(starts, i) /\ InOneOf(starts, ends, i)
       /\ i \notin starts /\ Begun(starts, i) => Begun(starts, i - 1)
       /\ i \notin ends /\ InOneOf(starts, ends, i - 1) => InOneOf(starts, ends, i)
  BY <1>1, HeadingFollows
<1>11. Placed(tokens, r, i) <=>
         /\ Hidden(ignored, r.ignore, i) /\ Standing(callouts, depth, r.callout, i)
         /\ IF Begun(starts, i) THEN r.inHeading \/ r.headed ELSE r = [Fresh EXCEPT !.ignore = r.ignore]
         /\ r.inHeading => r.callout = 0 /\ InOneOf(starts, ends, i)
  BY DEF Placed, starts, ends, callouts, depth, ignored
<1>12. /\ i \in Ups => depth[i] = depth[i - 1] + 1
       /\ i \in Downs => depth[i] = depth[i - 1] - 1
       /\ i \notin Ups /\ i \notin Downs => depth[i] = depth[i - 1]
  BY <1>2, <1>4 DEF Counts
<1>13. /\ token.event = "start" /\ token.tag \in Ignored => ignored[i] = ignored[i - 1] + 1
       /\ token.event = "end" /\ token.tag \in Ignored => ignored[i] = ignored[i - 1] - 1
       /\ ~ IgnoredTag(token) => ignored[i] = ignored[i - 1]
  <2>1. Counts(ignored, Tagged(tokens, "start", Ignored), Tagged(tokens, "end", Ignored), n)
    BY CallbacksCount DEF ignored
  <2> QED BY <1>1, <1>3, <2>1 DEF Counts, IgnoredTag
<1>14. ~ Begun(starts, i - 1) =>
         s.callout = 0 /\ ~ s.inHeading /\ ~ s.headed /\ ~ s.inLabel /\ s.li = 0
  BY <1>8 DEF Fresh
<1> HIDE DEF token
\* A tag of an ignored element.
<1>15. CASE IgnoredTag(token)
  <2> DEFINE now == IF token.event = "start" THEN s.ignore + 1 ELSE IF s.ignore = 0 THEN 0 ELSE s.ignore - 1
  <2>1. r = [s EXCEPT !.ignore = now] /\ now \in Int
    BY <1>6, <1>15, IgnoredMoves
  <2>2. Hidden(ignored, now, i)
    <3>1. \/ ignored[i] = ignored[i - 1] + 1 /\ now = s.ignore + 1
          \/ ignored[i] = ignored[i - 1] - 1 /\ now = IF s.ignore = 0 THEN 0 ELSE s.ignore - 1
      BY <1>1, <1>13, <1>15 DEF IgnoredTag
    <3> HIDE DEF now
    <3> QED BY <1>1, <1>6, <1>8, <2>1, <3>1, HiddenFollows
  <2>3. i \notin Ups /\ i \notin Downs /\ i \notin starts /\ i \notin ends /\ i \notin callouts
    BY <1>4, <1>5, <1>15 DEF IgnoredTag, Ignored, Headings
  <2>4. Standing(callouts, depth, s.callout, i)
    <3>1. \/ s.callout = 0 /\ i \notin callouts
          \/ s.callout # 0 /\ depth[i] = depth[i - 1] /\ i \notin callouts
      BY <1>12, <2>3
    <3> QED BY <1>1, <1>6, <1>8, <3>1, StandingFollows
  <2> HIDE DEF now, r
  <2>5. r.ignore = now /\ r.callout = s.callout /\ r.inHeading = s.inHeading /\ r.headed = s.headed
    BY <2>1 DEF ParserStates
  <2>6. Begun(starts, i) => r.inHeading \/ r.headed
    BY <1>8, <1>10, <2>3, <2>5
  <2>7. ~ Begun(starts, i) => r = [Fresh EXCEPT !.ignore = r.ignore]
    <3>1. ~ Begun(starts, i) => s = [Fresh EXCEPT !.ignore = s.ignore]
      BY <1>8, <1>10
    <3> QED BY <2>1, <2>5, <3>1 DEF Fresh
  <2>8. r.inHeading => r.callout = 0 /\ InOneOf(starts, ends, i)
    BY <1>8, <1>10, <2>3, <2>5
  <2> QED BY <1>11, <2>2, <2>4, <2>5, <2>6, <2>7, <2>8
\* A callback that an ignored element hides.
<1>16. CASE ~ IgnoredTag(token) /\ s.ignore > 0
  <2>1. r = s
    BY <1>16, IgnoredMoves
  <2>2. i \notin Heard(tokens)
    BY <1>6, <1>9, <1>16
  <2>3. i \notin Ups /\ i \notin Downs /\ i \notin starts /\ i \notin ends /\ i \notin callouts
    BY <1>4, <1>5, <2>2
  <2>4. Hidden(ignored, s.ignore, i)
    BY <1>1, <1>6, <1>8, <1>13, <1>16, HiddenFollows
  <2>5. Standing(callouts, depth, s.callout, i)
    <3>1. \/ s.callout = 0 /\ i \notin callouts
          \/ s.callout # 0 /\ depth[i] = depth[i - 1] /\ i \notin callouts
      BY <1>12, <2>3
    <3> QED BY <1>1, <1>6, <1>8, <3>1, StandingFollows
  <2>6. Begun(starts, i) <=> Begun(starts, i - 1)
    BY <1>10, <2>3
  <2> HIDE DEF r
  <2>7. s.inHeading => s.callout = 0 /\ InOneOf(starts, ends, i)
    BY <1>8, <1>10, <2>3
  <2> QED BY <1>8, <1>11, <2>1, <2>4, <2>5, <2>6, <2>7
\* A callback in a callout.
<1>17. CASE ~ IgnoredTag(token) /\ ~ (s.ignore > 0) /\ s.callout > 0
  <2>1. /\ r.ignore = s.ignore /\ r.inHeading = s.inHeading /\ r.headed = s.headed
        /\ r.callout = IF token.event = "data" \/ token.tag # "div" THEN s.callout
                       ELSE IF token.event = "end" THEN s.callout - 1 ELSE s.callout + 1
    BY <1>17, CalloutMoves
  <2> HIDE DEF r
  <2>2. i \in Heard(tokens)
    BY <1>6, <1>7, <1>9, <1>17
  <2>3. Hidden(ignored, r.ignore, i)
    BY <1>1, <1>6, <1>8, <1>13, <1>17, <2>1, HiddenFollows
  <2>4. Standing(callouts, depth, r.callout, i)
    <3>1. r.callout \in Int
      BY <1>6, <2>1
    <3>2. \/ s.callout # 0 /\ r.callout = s.callout /\ depth[i] = depth[i - 1] /\ i \notin callouts
          \/ s.callout # 0 /\ r.callout = s.callout + 1 /\ depth[i] = depth[i - 1] + 1
          \/ s.callout # 0 /\ r.callout = s.callout - 1 /\ depth[i] = depth[i - 1] - 1 /\ i \notin callouts
      <4>1. s.callout # 0
        BY <1>6, <1>17
      <4>2. CASE token.event = "data" \/ token.tag # "div"
        BY <1>4, <1>5, <1>12, <2>1, <4>1, <4>2
      <4>3. CASE token.event = "start" /\ token.tag = "div"
        BY <1>4, <1>12, <2>1, <2>2, <4>1, <4>3
      <4>4. CASE token.event = "end" /\ token.tag = "div"
        BY <1>4, <1>5, <1>12, <2>1, <2>2, <4>1, <4>4
      <4> QED BY <1>1, <4>2, <4>3, <4>4 DEF token
    <3> QED BY <1>1, <1>6, <1>8, <3>1, <3>2, StandingFollows
  <2>5. Begun(starts, i - 1)
    BY <1>6, <1>14, <1>17
  <2>6. Begun(starts, i) /\ (r.inHeading \/ r.headed)
    BY <1>8, <1>10, <2>1, <2>5
  <2>7. ~ r.inHeading
    BY <1>6, <1>8, <1>17, <2>1
  <2> QED BY <1>11, <2>3, <2>4, <2>6, <2>7
\* A callback outside one.
<1>18. CASE ~ IgnoredTag(token) /\ ~ (s.ignore > 0) /\ s.callout = 0
  <2>1. IF token.event = "start" /\ token.tag \in Headings
        THEN r.ignore = s.ignore /\ r.callout = 0 /\ r.inHeading
        ELSE IF token.event = "start" /\ token.tag = "div" /\ s.headed /\ token.aside
        THEN r.ignore = s.ignore /\ r.callout = 1 /\ r.inHeading = s.inHeading /\ r.headed
        ELSE IF token.event = "end" /\ token.tag \in Headings /\ s.inHeading
        THEN r.ignore = s.ignore /\ r.callout = 0 /\ ~ r.inHeading /\ r.headed
        ELSE Alike(r, s)
    BY <1>1, <1>18, OtherMoves DEF token
  <2>2. ~ Begun(starts, i) => r = s /\ s = [Fresh EXCEPT !.ignore = s.ignore]
    <3> SUFFICES ASSUME ~ Begun(starts, i) PROVE r = s /\ s = [Fresh EXCEPT !.ignore = s.ignore]
      OBVIOUS
    <3>1. ~ Begun(starts, i - 1) /\ i \notin starts
      BY <1>10
    <3>2. ~ (token.event = "start" /\ token.tag \in Headings)
      BY <1>4, <1>6, <1>7, <1>9, <1>18, <3>1
    <3>3. r = s
      BY <1>1, <1>14, <1>18, <3>1, <3>2, NothingBeforeHeadings DEF token
    <3> QED BY <1>8, <3>1, <3>3
  <2> HIDE DEF r
  <2>3. i \in Heard(tokens) /\ r.ignore = s.ignore
    BY <1>6, <1>7, <1>9, <1>18, <2>1 DEF Alike
  <2>4. Hidden(ignored, r.ignore, i)
    BY <1>1, <1>6, <1>8, <1>13, <1>18, <2>3, HiddenFollows
  \* No heading is open where a callout begins.
  <2>5. i \in callouts => s.headed /\ ~ s.inHeading
    <3> SUFFICES ASSUME i \in callouts PROVE s.headed /\ ~ s.inHeading
      OBVIOUS
    <3>1. PICK h \in starts : h < i
      BY <1>5
    <3>2. Begun(starts, i - 1)
      <4>1. h <= i - 1
        BY <1>1, <3>1
      <4> QED BY <4>1 DEF Begun
    <3>3. ~ s.inHeading
      <4> SUFFICES ASSUME s.inHeading PROVE FALSE
        OBVIOUS
      <4>1. PICK g \in starts : g <= i - 1 /\ \A e \in ends : ~ (g < e /\ e <= i - 1)
        BY <1>8 DEF InOneOf
      <4>2. g < i
        BY <1>1, <4>1
      <4>3. PICK e \in ends : g < e /\ e < i
        BY <4>2 DEF HeadingsHoldNone, starts, ends, callouts
      <4>4. e <= i - 1
        BY <1>1, <4>3
      <4> QED BY <4>1, <4>3, <4>4
    <3> QED BY <1>8, <3>2, <3>3
  <2>6. CASE i \in starts
    <3>1. token.event = "start" /\ token.tag \in Headings
      BY <1>4, <2>6
    <3>2. r.callout = 0 /\ r.inHeading
      BY <2>1, <3>1
    <3>3. i \notin callouts
      BY <1>4, <1>5, <3>1 DEF Headings
    <3>4. Standing(callouts, depth, r.callout, i)
      <4>1. r.callout \in Int /\ s.callout = 0 /\ r.callout = 0
        BY <1>18, <3>2
      <4> QED BY <1>1, <1>6, <1>8, <3>3, <4>1, StandingFollows
    <3> QED BY <1>10, <1>11, <2>4, <2>6, <3>2, <3>4
  <2>7. CASE i \in callouts
    <3>1. token.event = "start" /\ token.tag = "div" /\ token.aside /\ token.tag \notin Headings
      BY <1>4, <1>5, <2>7 DEF Headings
    <3>2. r.callout = 1 /\ ~ r.inHeading /\ r.headed
      BY <2>1, <2>5, <2>7, <3>1
    <3>3. Standing(callouts, depth, r.callout, i)
      <4>1. r.callout \in Int /\ s.callout = 0 /\ r.callout = 1
        BY <1>18, <3>2
      <4> QED BY <1>1, <1>6, <1>8, <2>7, <4>1, StandingFollows
    <3>4. Begun(starts, i)
      BY <2>2, <2>5, <2>7 DEF Fresh
    <3> QED BY <1>11, <2>4, <3>2, <3>3, <3>4
  <2>8. CASE i \notin starts /\ i \notin callouts
    <3>1. ~ (token.event = "start" /\ token.tag \in Headings)
      BY <1>4, <2>3, <2>8
    <3>2. ~ (token.event = "start" /\ token.tag = "div" /\ s.headed /\ token.aside)
      <4> SUFFICES ASSUME token.event = "start" /\ token.tag = "div" /\ s.headed /\ token.aside PROVE FALSE
        OBVIOUS
      <4>1. PICK h \in starts : h <= i - 1
        BY <1>14 DEF Begun
      <4>2. h < i
        BY <1>1, <4>1
      <4> QED BY <1>4, <1>5, <2>3, <2>8, <4>2
    <3>3. r.callout = 0 => Standing(callouts, depth, r.callout, i)
      <4> SUFFICES ASSUME r.callout = 0 PROVE Standing(callouts, depth, r.callout, i)
        OBVIOUS
      <4>1. r.callout \in Int /\ s.callout = 0
        BY <1>18
      <4> QED BY <1>1, <1>6, <1>8, <2>8, <4>1, StandingFollows
    <3>4. CASE token.event = "end" /\ token.tag \in Headings /\ s.inHeading
      <4>1. r.callout = 0 /\ ~ r.inHeading /\ r.headed
        BY <2>1, <3>1, <3>2, <3>4
      <4>2. Begun(starts, i)
        BY <1>10, <1>14, <3>4
      <4> QED BY <1>11, <2>4, <3>3, <4>1, <4>2
    <3>5. CASE ~ (token.event = "end" /\ token.tag \in Headings /\ s.inHeading)
      <4>1. r.callout = 0 /\ r.inHeading = s.inHeading /\ r.headed = s.headed
        BY <1>18, <2>1, <3>1, <3>2, <3>5 DEF Alike
      <4>2. Begun(starts, i) => r.inHeading \/ r.headed
        BY <1>8, <1>10, <2>8, <4>1
      <4>3. r.inHeading => InOneOf(starts, ends, i)
        BY <1>4, <1>8, <1>10, <3>5, <4>1
      <4> QED BY <1>11, <2>2, <2>4, <3>3, <4>1, <4>2, <4>3
    <3> QED BY <3>4, <3>5
  <2> QED BY <2>6, <2>7, <2>8
<1> QED BY <1>6, <1>7, <1>15, <1>16, <1>17, <1>18 DEF token

\* The parser handles one callback after the other.
LEMMA ParsedFolds ==
    ASSUME NEW tokens, Len(tokens) \in Nat, NEW words,
           \A i \in 1 .. Len(tokens) : tokens[i].event = "data" => tokens[i].words \in Seq(words)
    PROVE  \A i \in 0 .. Len(tokens) :
              Parsed(tokens)[i] = IF i = 0 THEN Fresh ELSE Handle(Parsed(tokens)[i - 1], tokens[i])
<1> DEFINE States == ParserStates(words, words)
           step == [x \in States \X (1 .. Len(tokens)) |-> Handle(x[1], tokens[x[2]])]
           Follows(f) == f = [n \in 0 .. Len(tokens) |-> IF n = 0 THEN Fresh ELSE Handle(f[n - 1], tokens[n])]
<1>1. PICK n \in Nat : n = Len(tokens)
  OBVIOUS
<1>2. Fresh \in States
  <2>1. <<>> \in Seq(words) /\ <<>> \in Seq(Sections(words, words)) /\ 0 \in Int
    OBVIOUS
  <2> QED BY <2>1 DEF Fresh, ParserStates
<1>3. \A s \in States : \A i \in 1 .. n : Handle(s, tokens[i]) \in States
  <2> SUFFICES ASSUME NEW s \in States, NEW i \in 1 .. n PROVE Handle(s, tokens[i]) \in States
    OBVIOUS
  <2>1. tokens[i].event = "data" => Fitting(s, tokens[i].words, words, words)
    BY <1>1 DEF Fitting
  <2> QED BY <2>1, HandleKeepsTypes
<1> HIDE DEF States
<1>4. step \in Steps(States, n)
  BY <1>1, <1>3 DEF Steps
<1>5. \A s \in States : \A i \in 1 .. n : step[<<s, i>>] = Handle(s, tokens[i])
  BY <1>1
<1> HIDE DEF step
<1>6. PICK f \in [0 .. n -> States] :
        f[0] = Fresh /\ \A i \in 1 .. n : f[i] = step[<<f[i - 1], i>>]
  <2>1. Repeated(States, Fresh, n, step) # {}
    BY <1>2, <1>4, Recursion
  <2> QED BY <2>1 DEF Repeated
<1>7. Follows(f)
  <2>1. ASSUME NEW i \in 0 .. n PROVE f[i] = IF i = 0 THEN Fresh ELSE Handle(f[i - 1], tokens[i])
    <3>1. CASE i = 0
      BY <1>6, <3>1
    <3>2. CASE i # 0
      <4>1. i \in 1 .. n /\ i - 1 \in 0 .. n
        BY <3>2
      <4>2. f[i] = step[<<f[i - 1], i>>] /\ f[i - 1] \in States
        BY <1>6, <4>1
      <4> QED BY <1>5, <3>2, <4>1, <4>2
    <3> QED BY <3>1, <3>2
  <2> QED BY <1>1, <1>6, <2>1
<1>8. Parsed(tokens) = CHOOSE g : Follows(g)
  BY DEF Parsed
<1> DEFINE g == Parsed(tokens)
<1>9. Follows(g)
  <2> HIDE DEF Follows
  <2> QED BY <1>7, <1>8
<1> HIDE DEF g
<1>10. \A i \in 0 .. n : g[i] = IF i = 0 THEN Fresh ELSE Handle(g[i - 1], tokens[i])
  BY <1>1, <1>9
<1> QED BY <1>1, <1>10 DEF g

\* Words that are all of one set are a sequence of it.
LEMMA SequenceOfThese ==
    ASSUME NEW S, NEW s \in Seq(S), NEW T, Range(s) \subseteq T
    PROVE  s \in Seq(T)
<1>1. s \in [1 .. Len(s) -> S] /\ Len(s) \in Nat
  OBVIOUS
<1>2. \A i \in 1 .. Len(s) : s[i] \in T
  BY <1>1 DEF Range
<1>3. s \in [1 .. Len(s) -> T]
  BY <1>1, <1>2
<1> QED BY <1>1, <1>3

\* The words that come to a parser that stands where the page does are of its
\* callout, or not of one.
LEMMA WordsFit ==
    ASSUME NEW n \in Nat, NEW tokens, Callbacks(tokens, n), WellMarked(tokens),
           NEW i \in 1 .. n, tokens[i].event = "data", NEW words, tokens[i].words \in Seq(words),
           NEW s \in ParserStates(words \ Boxed, words \cap Boxed), ~ (s.ignore > 0), Placed(tokens, s, i - 1)
    PROVE  Fitting(s, tokens[i].words, words \ Boxed, words \cap Boxed)
<1> DEFINE starts == HeadingStarts(tokens)
           callouts == Callouts(tokens)
           depth == DivDepth(tokens)
           said == tokens[i].words
<1>1. s.ignore \in Int /\ s.callout \in Int
  BY DEF ParserStates
<1>2. s.ignore >= 0 /\ (s.callout = 0 \/ s.callout > 0)
  BY PlacedCounts
<1>3. i \in Heard(tokens)
  <2>1. s.ignore = 0
    BY <1>1, <1>2
  <2>2. Hidden(IgnoredDepth(tokens), s.ignore, i - 1) /\ ~ IgnoredTag(tokens[i])
    BY DEF Placed, IgnoredTag
  <2> QED BY <1>1, <2>1, <2>2, HeardIfNotHidden
<1>4. IF InsideOne(callouts, depth, i) THEN Range(said) \subseteq Boxed
      ELSE (\E h \in starts : h < i) => Range(said) \cap Boxed = {}
  BY <1>3 DEF WellMarked
<1>5. InsideOne(callouts, depth, i) <=> s.callout # 0
  <2>1. i \notin HeardTags(tokens, "start", {"div"}) /\ i \notin HeardTags(tokens, "end", {"div"})
    BY DEF HeardTags, Tagged
  <2>2. i \notin callouts
    BY <2>1 DEF Callouts
  <2>3. Counts(depth, HeardTags(tokens, "start", {"div"}), HeardTags(tokens, "end", {"div"}), n)
    BY CallbacksCount
  <2>4. callouts \subseteq 1 .. n /\ Standing(callouts, depth, s.callout, i - 1)
    BY CallbacksCount DEF Placed
  <2> HIDE DEF callouts, depth
  <2>5. depth \in [0 .. n -> Int] /\ depth[i] = depth[i - 1]
    BY <2>1, <2>3 DEF Counts
  <2> QED BY <1>1, <2>2, <2>4, <2>5, StandsIfCounted
<1>6. s.callout = 0 /\ (s.inHeading \/ s.inLabel \/ s.headed) => \E h \in starts : h < i
  <2> SUFFICES ASSUME s.inHeading \/ s.inLabel \/ s.headed PROVE \E h \in starts : h < i
    OBVIOUS
  <2>1. Begun(starts, i - 1)
    BY DEF Placed, Fresh
  <2>2. PICK h \in starts : h <= i - 1
    BY <2>1 DEF Begun
  <2>3. h \in Int
    BY CallbacksCount
  <2> QED BY <2>2, <2>3
<1>7. Range(said) \subseteq words
  BY DEF Range
<1> HIDE DEF starts, callouts, depth, said
<1>8. CASE s.callout > 0
  <2>1. Range(said) \subseteq words \cap Boxed
    BY <1>1, <1>4, <1>5, <1>7, <1>8
  <2>2. said \in Seq(words \cap Boxed)
    BY <2>1, SequenceOfThese DEF said
  <2> QED BY <1>8, <2>2 DEF Fitting, said
<1>9. CASE ~ (s.callout > 0) /\ (s.inHeading \/ s.inLabel \/ s.headed)
  <2>1. s.callout = 0
    BY <1>2, <1>9
  <2>2. Range(said) \subseteq words \ Boxed
    BY <1>4, <1>5, <1>6, <1>7, <1>9, <2>1
  <2>3. said \in Seq(words \ Boxed)
    BY <2>2, SequenceOfThese DEF said
  <2> QED BY <1>9, <2>3 DEF Fitting, said
<1> QED BY <1>8, <1>9 DEF Fitting

\* The parser stands where the page does all along, with the words of callouts
\* in callouts and no others in them.
LEMMA ParsedStands ==
    ASSUME NEW n \in Nat, NEW tokens, Callbacks(tokens, n), WellMarked(tokens), NEW words,
           \A i \in 1 .. n : tokens[i].event = "data" => tokens[i].words \in Seq(words)
    PROVE  Parsed(tokens)[n] \in ParserStates(words \ Boxed, words \cap Boxed)
<1> DEFINE g == Parsed(tokens)
           States == ParserStates(words \ Boxed, words \cap Boxed)
           Bad == {i \in 0 .. n : ~ (g[i] \in States /\ Placed(tokens, g[i], i))}
<1>1. Len(tokens) = n
  BY DEF Callbacks
<1>2. \A i \in 0 .. n : g[i] = IF i = 0 THEN Fresh ELSE Handle(g[i - 1], tokens[i])
  BY <1>1, ParsedFolds
<1>3. Fresh \in States
  <2> DEFINE plain == words \ Boxed
             boxed == words \cap Boxed
  <2> HIDE DEF plain, boxed
  <2>1. /\ <<>> \in Seq(plain) /\ <<>> \in Seq(boxed) /\ 0 \in Int
        /\ <<>> \in Seq(Sections(plain, boxed))
    OBVIOUS
  <2>2. Fresh \in ParserStates(plain, boxed)
    BY <2>1 DEF Fresh, ParserStates
  <2> QED BY <2>2 DEF plain, boxed
<1>4. Placed(tokens, Fresh, 0)
  <2>1. Hidden(IgnoredDepth(tokens), 0, 0)
    <3>1. PICK d : d = IgnoredDepth(tokens)
      OBVIOUS
    <3>2. d \in [0 .. n -> Int]
      BY <3>1, CallbacksCount DEF Counts
    <3>3. d[0] \in Int /\ \A j \in 0 .. 0 : j = 0
      BY <3>2
    <3>4. d[0] - d[0] = 0 /\ 0 \in 0 .. 0
      BY <3>3
    <3>5. Hidden(d, 0, 0)
      BY <3>3, <3>4 DEF Hidden
    <3> QED BY <3>1, <3>5
  <2>2. /\ \A a \in Callouts(tokens) : ~ (a <= 0)
        /\ \A h \in HeadingStarts(tokens) : ~ (h <= 0)
    BY CallbacksCount
  <2>3. Standing(Callouts(tokens), DivDepth(tokens), 0, 0)
    BY <2>2 DEF Standing
  <2>4. ~ Begun(HeadingStarts(tokens), 0)
    BY <2>2 DEF Begun
  <2>5. /\ Fresh.ignore = 0 /\ Fresh.callout = 0 /\ ~ Fresh.inHeading
        /\ Fresh = [Fresh EXCEPT !.ignore = Fresh.ignore]
    BY DEF Fresh
  <2> QED BY <2>1, <2>3, <2>4, <2>5 DEF Placed
<1>5. ASSUME NEW i \in 1 .. n, g[i - 1] \in States, Placed(tokens, g[i - 1], i - 1)
      PROVE  g[i] \in States /\ Placed(tokens, g[i], i)
  <2>1. PICK s \in States : s = g[i - 1]
    BY <1>5
  <2>2. g[i] = Handle(s, tokens[i])
    BY <1>2, <2>1
  <2>3. Placed(tokens, s, i - 1)
    BY <1>5, <2>1
  <2> HIDE DEF g
  <2>4. tokens[i].event = "data" /\ ~ (s.ignore > 0) =>
          Fitting(s, tokens[i].words, words \ Boxed, words \cap Boxed)
    BY <2>3, WordsFit
  <2>5. Handle(s, tokens[i]) \in States
    BY <2>4, HandleKeepsTypes
  <2>6. HeadingsHoldNone(HeadingStarts(tokens), HeadingEnds(tokens), Callouts(tokens))
    BY DEF WellMarked
  <2>7. Placed(tokens, Handle(s, tokens[i]), i)
    BY <2>3, <2>6, HandleFollows
  <2> QED BY <2>2, <2>5, <2>7
<1> SUFFICES g[n] \in States
  OBVIOUS
<1> HIDE DEF g, States
<1>6. Bad = {}
  <2> SUFFICES ASSUME Bad # {} PROVE FALSE
    OBVIOUS
  <2>1. PICK m \in Bad : \A k \in Bad : m <= k
    <3>1. Bad \subseteq Nat
      OBVIOUS
    <3> QED BY <3>1, LeastOf
  <2>2. m # 0
    BY <1>2, <1>3, <1>4
  <2>3. m \in 1 .. n /\ m - 1 \in 0 .. n /\ ~ (m <= m - 1)
    BY <2>2
  <2>4. g[m - 1] \in States /\ Placed(tokens, g[m - 1], m - 1)
    BY <2>1, <2>3
  <2> QED BY <1>5, <2>3, <2>4
<1> QED BY <1>6

\* Some places of a sequence are a sequence of the same.
LEMMA ThoseAreOfIt ==
    ASSUME NEW S, NEW s \in Seq(S), NEW places, places \subseteq DOMAIN s
    PROVE  Those(s, places) \in Seq(S)
<1> DEFINE at == Ranked(places, Ascending(places))
<1>1. places \subseteq Nat /\ IsFiniteSet(places)
  <2>1. IsFiniteSet(1 .. Len(s)) /\ places \subseteq 1 .. Len(s) /\ Len(s) \in Nat
    BY FS_Interval
  <2> QED BY <2>1, FS_Subset
<1>2. Cardinality(places) \in Nat /\ at \in [1 .. Cardinality(places) -> places]
  BY <1>1, PlacesInOrder
<1>3. Those(s, places) = [r \in DOMAIN at |-> s[at[r]]]
  BY DEF Those, Ascending
<1> HIDE DEF at
<1>4. \A i \in places : s[i] \in S
  OBVIOUS
<1>5. Those(s, places) \in [1 .. Cardinality(places) -> S]
  BY <1>2, <1>3, <1>4
<1> QED BY <1>2, <1>5

(***************************************************************************)
(* The corpus.                                                             *)
(***************************************************************************)

\* The words of a page.
WordsOf(p) == UNION {Range(t.words) : t \in {t \in Range(p.tokens) : t.event = "data"}}

\* A text of its words outside callouts, or of those inside.
TextsOf(p) == Seq(WordsOf(p) \ Boxed) \cup Seq(WordsOf(p) \cap Boxed)

\* The sections kept of a page are sections of its words.
LEMMA KeptAreSections ==
    ASSUME NEW p \in Pages
    PROVE  KeptSections(p) \in Seq(Sections(WordsOf(p) \ Boxed, WordsOf(p) \cap Boxed))
<1> DEFINE words == WordsOf(p)
           tokens == p.tokens
           sections == ExtractSections(tokens)
           kept == KeptSections(p)
           plain == words \ Boxed
           boxed == words \cap Boxed
<1>1. tokens \in Seq(Range(tokens))
  BY PagesAssumption
<1>2. Len(tokens) \in Nat /\ DOMAIN tokens = 1 .. Len(tokens)
  <2> HIDE DEF tokens
  <2> QED BY <1>1
<1>3. \A i \in 1 .. Len(tokens) : tokens[i].event = "data" => tokens[i].words \in Seq(words)
  <2> SUFFICES ASSUME NEW i \in 1 .. Len(tokens), tokens[i].event = "data"
               PROVE  tokens[i].words \in Seq(words)
    OBVIOUS
  <2>1. tokens[i] \in Range(tokens)
    BY <1>2 DEF Range
  <2>2. PICK t \in Range(tokens) : t = tokens[i]
    BY <2>1
  <2>3. t.words \in Seq(Range(t.words)) /\ Range(t.words) \subseteq words
    BY <2>2, PagesAssumption DEF WordsOf
  <2> HIDE DEF words, tokens
  <2>4. t.words \in Seq(words)
    BY <2>3
  <2> QED BY <2>2, <2>4
<1>6. Callbacks(tokens, Len(tokens)) /\ WellMarked(tokens)
  <2>1. \A i \in 1 .. Len(tokens) : tokens[i] \in Range(tokens)
    BY <1>2 DEF Range
  <2> QED BY <1>2, <2>1, PagesAssumption DEF Callbacks
<1> HIDE DEF words, tokens
<1>4. sections \in Seq(Sections(plain, boxed))
  <2>1. Parsed(tokens)[Len(tokens)] \in ParserStates(plain, boxed)
    BY <1>2, <1>3, <1>6, ParsedStands
  <2> HIDE DEF plain, boxed
  <2>2. Flush(Parsed(tokens)[Len(tokens)]) \in ParserStates(plain, boxed)
    BY <2>1, FlushKeepsTypes
  <2> QED BY <2>2 DEF ExtractSections, ParserStates
<1>5. kept \in Seq(Sections(plain, boxed))
  <2> DEFINE places == {i \in DOMAIN sections : Kept(sections[i])}
  <2>1. kept = Those(sections, places)
    BY DEF KeptSections, tokens
  <2>2. places \subseteq DOMAIN sections
    OBVIOUS
  <2> HIDE DEF places, sections, kept, plain, boxed
  <2> QED BY <1>4, <2>1, <2>2, ThoseAreOfIt
<1> QED BY <1>5 DEF kept, plain, boxed, words

\* Naming the callouts of a page leaves their texts.
LEMMA ExtractedHaveTexts ==
    ASSUME NEW p \in Pages
    PROVE  /\ Len(Extracted(p)) \in Nat /\ DOMAIN Extracted(p) = 1 .. Len(Extracted(p))
           /\ \A i \in DOMAIN Extracted(p) : Extracted(p)[i].text \in TextsOf(p)
<1> DEFINE plain == WordsOf(p) \ Boxed
           boxed == WordsOf(p) \cap Boxed
           kept == KeptSections(p)
<1>5. kept \in Seq(Sections(plain, boxed))
  BY KeptAreSections
<1> HIDE DEF kept, plain, boxed
<1>6. /\ DOMAIN Extracted(p) = DOMAIN kept
      /\ \A i \in DOMAIN kept : Extracted(p)[i].text = kept[i].text /\ kept[i].text \in Seq(plain) \cup Seq(boxed)
  <2>1. \A i \in DOMAIN kept : kept[i] \in Sections(plain, boxed)
    BY <1>5
  <2>2. DOMAIN Extracted(p) = DOMAIN kept
    BY DEF Extracted, NameCallouts, kept
  <2>3. ASSUME NEW i \in DOMAIN kept
        PROVE  Extracted(p)[i].text = kept[i].text /\ kept[i].text \in Seq(plain) \cup Seq(boxed)
    <3> DEFINE heading == p.titles[CHOOSE t \in TitlesOf(kept[i], p.titles) : TRUE].heading
    <3>1. Extracted(p)[i] = IF kept[i].kind # "callout" THEN kept[i]
                            ELSE [kept[i] EXCEPT !.heading = heading]
      BY DEF Extracted, NameCallouts, kept
    <3> HIDE DEF heading
    <3> QED BY <2>1, <3>1 DEF Sections
  <2> QED BY <2>2, <2>3
<1>7. Len(kept) \in Nat /\ DOMAIN kept = 1 .. Len(kept)
  BY <1>5
<1>8. Len(Extracted(p)) = Len(kept)
  BY <1>6, <1>7
<1> QED BY <1>6, <1>7, <1>8 DEF TextsOf, plain, boxed

\* The clauses made of a page have texts of its words.
LEMMA ClausesHaveTexts ==
    ASSUME NEW p \in Pages, NEW clause \in Range(Document("spam", Extracted(p)).clauses)
    PROVE  clause.text \in TextsOf(p)
<1> DEFINE doc == Document("spam", Extracted(p))
<1>1. PICK i \in DOMAIN doc.clauses : clause = doc.clauses[i]
  BY DEF Range
<1>2. DOMAIN doc.clauses = DOMAIN Extracted(p) /\ doc.clauses[i].text = Extracted(p)[i].text
  BY <1>1 DEF Document
<1> QED BY <1>1, <1>2, ExtractedHaveTexts

\* The case is open and its corpus loaded, and from when the pack is gathered.
Loaded == {"open", "no_subject", "case", "memo", "accepted"}
Opened == {"case", "memo", "accepted"}

\* A document is made only of a fetched page; the manifest is torn or one that
\* is written whole, and what loads is one of those.
CorpusInv ==
    /\ stage = "fetch" => page \in Pages /\ fresh = {}
    /\ stage = "write" => fresh # {}
    /\ \A doc \in fresh : \E p \in Pages :
          FetchRefusal(p) = "none" /\ doc = Document("spam", Extracted(p))
    /\ "manifest" \in DOMAIN policies
    /\ \/ policies.manifest = Torn
       \/ policies.manifest = Whole(OldCorpus)
       \/ fresh # {} /\ policies.manifest = Whole(NewCorpus)
    /\ stage \in Loaded => WrittenWhole(corpus)

\* An open case has a pack that its rows explain; before, no row has come back.
PackInv == IF stage \in Opened THEN Gathered /\ Connected ELSE seen = {}

\* A memo is accepted once, and rests on what is in scope.
CaseInv ==
    /\ CorpusInv /\ PackInv
    /\ memo # {} => stage = "accepted"
    /\ AcceptedMemoIsGrounded

\* A corpus that was written whole is a sequence of documents whose clauses
\* have sequences of words for texts.
LEMMA WholeHasTexts ==
    ASSUME CorpusInv, NEW docs, WrittenWhole(docs)
    PROVE  /\ Len(docs) \in Nat /\ DOMAIN docs = 1 .. Len(docs)
           /\ \A doc \in Range(docs) : \A clause \in Range(doc.clauses) :
                 clause.text \in Seq(Range(clause.text))
<1>1. CASE docs = OldCorpus
  <2>1. Len(docs) \in Nat /\ DOMAIN docs = 1 .. Len(docs)
    BY <1>1, CorpusAssumption
  <2> QED BY <1>1, <2>1, CorpusAssumption
<1>2. CASE fresh # {} /\ docs = NewCorpus
  <2> DEFINE made == CHOOSE d \in fresh : TRUE
  <2>1. made \in fresh
    BY <1>2
  <2>2. docs = <<made, Companion>>
    BY <1>2 DEF NewCorpus
  <2> HIDE DEF made
  <2>3. Len(docs) = 2 /\ DOMAIN docs = 1 .. 2 /\ Range(docs) = {made, Companion}
    BY <2>2 DEF Range
  <2>4. ASSUME NEW clause \in Range(made.clauses) PROVE clause.text \in Seq(Range(clause.text))
    <3>1. PICK p \in Pages : made = Document("spam", Extracted(p))
      BY <2>1 DEF CorpusInv
    <3>2. clause.text \in TextsOf(p)
      BY <2>4, <3>1, ClausesHaveTexts
    <3> QED BY <3>2, SequenceOfItsOwn DEF TextsOf
  <2> QED BY <2>3, <2>4, CorpusAssumption
<1> QED BY <1>1, <1>2 DEF WrittenWhole

\* What loads is what its manifest was written for.
LEMMA LoadedIsItsManifest ==
    ASSUME NEW dir, Loads(dir), NEW docs, dir.manifest = Whole(docs),
           Len(docs) \in Nat, DOMAIN docs = 1 .. Len(docs), docs \in [DOMAIN docs -> Range(docs)]
    PROVE  LoadCorpus(dir) = docs
<1>1. dir.manifest.body = docs
  BY DEF Whole
<1>2. \A i \in DOMAIN docs : dir.clauses[docs[i].doc].body = docs[i]
  BY <1>1 DEF Loads, EntryLoads
<1>3. LoadCorpus(dir) = [i \in DOMAIN docs |-> docs[i]]
  BY <1>1, <1>2 DEF LoadCorpus
<1> QED BY <1>3

\* A directory changes only by the writes of what was fetched.
LEMMA CorpusStep ==
    ASSUME CorpusInv, [Next]_vars
    PROVE  CorpusInv'
<1>1. CASE UNCHANGED vars
  BY <1>1 DEF vars, policyVars, CorpusInv, NewCorpus, WrittenWhole, Loaded
<1>2. CASE Fetch
  <2>1. /\ stage = "fetch" /\ page \in Pages /\ fresh = {}
        /\ stage' \in {"write", "fetched", "not_fetched"}
        /\ UNCHANGED <<page, policies, corpus>>
    BY <1>2 DEF Fetch, CorpusInv
  <2>2. \/ FetchRefusal(page) = "none" /\ fresh' = {Document("spam", Extracted(page))}
        \/ fresh' = {} /\ stage' = "not_fetched"
    BY <1>2, <2>1 DEF Fetch
  <2>3. policies.manifest = Torn \/ policies.manifest = Whole(OldCorpus)
    BY <2>1 DEF CorpusInv
  <2>4. "manifest" \in DOMAIN policies'
    BY <2>1 DEF CorpusInv
  <2>5. \A doc \in fresh' : \E p \in Pages :
          FetchRefusal(p) = "none" /\ doc = Document("spam", Extracted(p))
    BY <2>1, <2>2
  <2>6. (stage' = "write" => fresh' # {}) /\ stage' \notin Loaded /\ stage' # "fetch"
    BY <2>1, <2>2 DEF Loaded
  <2> QED BY <2>1, <2>3, <2>4, <2>5, <2>6 DEF CorpusInv
<1>3. CASE WriteFile
  <2>1. stage = "write" /\ fresh # {} /\ UNCHANGED <<stage, fresh>>
    BY <1>3 DEF WriteFile, CorpusInv
  <2>2. \/ policies' = Put(Head(writes), Torn)
        \/ policies' = Put(Head(writes), Whole(BodyOf(Head(writes))))
    BY <1>3 DEF WriteFile
  <2>3. "manifest" \in DOMAIN policies'
    BY <2>2 DEF CorpusInv, Put
  <2>4. policies'.manifest \in {policies.manifest, Torn, Whole(NewCorpus)}
    BY <2>2 DEF CorpusInv, Put, BodyOf
  <2>5. NewCorpus' = NewCorpus
    BY <2>1 DEF NewCorpus
  <2> QED BY <2>1, <2>3, <2>4, <2>5 DEF CorpusInv, Loaded
<1>4. CASE EndFetch
  <2>1. stage' = "load" /\ UNCHANGED <<fresh, policies>> /\ NewCorpus' = NewCorpus
    BY <1>4 DEF EndFetch, NewCorpus
  <2> QED BY <2>1 DEF CorpusInv, Loaded
<1>5. CASE OpenCorpus
  <2>1. stage = "load" /\ UNCHANGED <<fresh, policies>> /\ NewCorpus' = NewCorpus
    BY <1>5 DEF OpenCorpus, policyVars, NewCorpus
  <2>2. stage' \in {"open", "unusable"}
    BY <1>5 DEF OpenCorpus
  <2>3. CASE stage' = "open"
    <3>1. Loads(policies) /\ corpus' = LoadCorpus(policies)
      BY <1>5, <2>3 DEF OpenCorpus
    <3>2. policies.manifest # Torn
      BY <3>1 DEF Loads, Torn
    <3>3. PICK docs : policies.manifest = Whole(docs) /\ WrittenWhole(docs)
      BY <3>2 DEF CorpusInv, WrittenWhole
    <3>4. Len(docs) \in Nat /\ DOMAIN docs = 1 .. Len(docs)
      BY <3>3, WholeHasTexts
    <3>5. docs \in [DOMAIN docs -> Range(docs)]
      <4>1. CASE docs = OldCorpus
        BY <4>1, CorpusAssumption
      <4>2. CASE docs = NewCorpus
        BY <4>2 DEF NewCorpus, Range
      <4> QED BY <3>3, <4>1, <4>2 DEF WrittenWhole
    <3>6. corpus' = docs
      BY <3>1, <3>3, <3>4, <3>5, LoadedIsItsManifest
    <3>7. WrittenWhole(corpus)'
      BY <2>1, <3>3, <3>6 DEF WrittenWhole
    <3> QED BY <2>1, <2>3, <3>7 DEF CorpusInv
  <2>4. CASE stage' = "unusable"
    BY <2>1, <2>4 DEF CorpusInv, Loaded
  <2> QED BY <2>2, <2>3, <2>4
<1>6. ASSUME stage \in {"open", "case", "memo"}, stage' \in Loaded, UNCHANGED <<policyVars, corpus>>
      PROVE  CorpusInv'
  <2>1. stage \in Loaded /\ NewCorpus' = NewCorpus /\ UNCHANGED <<fresh, policies, corpus>>
    BY <1>6 DEF Loaded, policyVars, NewCorpus
  <2>2. stage' # "fetch" /\ stage' # "write"
    BY <1>6 DEF Loaded
  <2> QED BY <2>1, <2>2 DEF CorpusInv, WrittenWhole
<1>7. ASSUME NEW subject, OpenCase(subject) PROVE CorpusInv'
  BY <1>6, <1>7 DEF OpenCase, Loaded
<1>8. ASSUME NEW proposal, Refuse(proposal) PROVE CorpusInv'
  BY <1>1, <1>8 DEF Refuse
<1>9. ASSUME NEW proposal, NEW answer, RunPivot(proposal, answer) PROVE CorpusInv'
  BY <1>6, <1>9 DEF RunPivot, Loaded
<1>10. CASE CloseCase
  BY <1>6, <1>10 DEF CloseCase, Loaded
<1>11. ASSUME NEW response, Draft(response) PROVE CorpusInv'
  <2>1. stage' \in {"memo", "accepted"}
    BY <1>11 DEF Draft
  <2> QED BY <1>6, <1>11, <2>1 DEF Draft, Loaded
<1>12. CASE Screen
  <2>1. stage' \in {"sent", "not_sent"} /\ UNCHANGED <<fresh, policies>> /\ NewCorpus' = NewCorpus
    BY <1>12 DEF Screen, policyVars, NewCorpus
  <2> QED BY <2>1 DEF CorpusInv, Loaded
<1> QED BY <1>1, <1>2, <1>3, <1>4, <1>5, <1>7, <1>8, <1>9, <1>10, <1>11, <1>12 DEF Next

\* A pack changes only when a case is opened and by a pivot.
LEMMA PackStep ==
    ASSUME PackInv, [Next]_vars
    PROVE  PackInv'
<1>1. ASSUME UNCHANGED caseVars, stage' \in Opened <=> stage \in Opened PROVE PackInv'
  <2>1. Gathered' <=> Gathered
    BY <1>1 DEF caseVars, Gathered, Entities, Hops, Told
  <2>2. Connected' <=> Connected
    BY <1>1 DEF caseVars, Connected, Closed, EdgeUpTo, NodesAtHop, Entities, Hops
  <2> QED BY <1>1, <2>1, <2>2 DEF PackInv, caseVars
<1>2. CASE UNCHANGED vars
  BY <1>1, <1>2 DEF vars
<1>3. CASE Fetch \/ WriteFile \/ EndFetch \/ OpenCorpus \/ Screen
  <2>1. UNCHANGED caseVars /\ stage \notin Opened /\ stage' \notin Opened
    BY <1>3 DEF Fetch, WriteFile, EndFetch, OpenCorpus, Screen, Opened
  <2> QED BY <1>1, <2>1
<1>4. ASSUME NEW subject, OpenCase(subject) PROVE PackInv'
  <2>1. stage \notin Opened /\ seen' = {}
    BY <1>4 DEF OpenCase, PackInv, Opened
  <2>2. CASE stage' = "case" /\ pack' = Seed(subject)
    <3>1. Gathered'
      BY <2>1, <2>2, SeedIsGathered
    <3>2. subject \in Channels
      BY <1>4, <2>2 DEF OpenCase
    <3>3. Connected'
      BY <2>2, <3>2, SeedIsConnected
    <3> QED BY <2>2, <3>1, <3>3 DEF PackInv, Opened
  <2>3. CASE stage' = "no_subject"
    BY <2>1, <2>3 DEF PackInv, Opened
  <2> QED BY <1>4, <2>2, <2>3 DEF OpenCase
<1>5. ASSUME NEW proposal, Refuse(proposal) PROVE PackInv'
  BY <1>2, <1>5 DEF Refuse
<1>6. ASSUME NEW proposal, NEW answer \in Answers(proposal.pivot, proposal.params),
             RunPivot(proposal, answer)
      PROVE  PackInv'
  <2>1. stage = "case" /\ stage' = "case"
    BY <1>6 DEF RunPivot
  <2>2. Gathered /\ Connected
    BY <2>1 DEF PackInv, Opened
  <2>3. Gathered' /\ Connected'
    BY <1>6, <2>2, HopIsGathered, HopIsConnected
  <2> QED BY <2>1, <2>3 DEF PackInv, Opened
<1>7. CASE CloseCase
  BY <1>1, <1>7 DEF CloseCase, Opened
<1>8. ASSUME NEW response, Draft(response) PROVE PackInv'
  <2>1. stage = "memo" /\ stage' \in {"memo", "accepted"} /\ UNCHANGED caseVars
    BY <1>8 DEF Draft
  <2> QED BY <1>1, <2>1 DEF Opened
<1> QED BY <1>2, <1>3, <1>4, <1>5, <1>6, <1>7, <1>8 DEF Next

(***************************************************************************)
(* The memo.                                                               *)
(***************************************************************************)

\* An excerpt that is quoted stands in the text, word for word.
LEMMA QuotedIsInText ==
    ASSUME NEW S, NEW text \in Seq(S), NEW excerpt, Quotable(excerpt), Quotes(excerpt, text)
    PROVE  \E from \in DOMAIN text : \A k \in DOMAIN excerpt :
              from + k - 1 \in DOMAIN text /\ text[from + k - 1] = excerpt[k]
<1> DEFINE size == Len(text)
<1>1. PICK n \in Nat \ {0} : n = Len(excerpt)
  BY ExcerptAssumption DEF Quotable
<1>2. size \in Nat /\ DOMAIN text = 1 .. size /\ \A i \in 1 .. size : text[i] \in S
  OBVIOUS
<1> HIDE DEF size
<1>3. PICK from \in 1 .. size - n + 1 : SubSeq(text, from, from + n - 1) = excerpt
  BY <1>1 DEF Quotes, size
<1>4. from \in Int /\ from + n - 1 \in Int /\ from <= from + n - 1
  BY <1>1, <1>2, <1>3
<1>5. \A i \in from .. from + n - 1 : i \in 1 .. size
  BY <1>1, <1>2, <1>3
<1>6. /\ SubSeq(text, from, from + n - 1) \in Seq(S)
      /\ \A i \in 1 .. from + n - 1 - from + 1 :
            SubSeq(text, from, from + n - 1)[i] = text[from + i - 1]
  BY <1>2, <1>4, <1>5, SubSeqProperties
<1>7. \A k \in 1 .. n : excerpt[k] = text[from + k - 1] /\ from + k - 1 \in 1 .. size
  <2>1. from + n - 1 - from + 1 = n
    BY <1>1, <1>4
  <2>2. \A k \in 1 .. n : from + k - 1 \in from .. from + n - 1
    BY <1>1, <1>4
  <2> QED BY <1>3, <1>5, <1>6, <2>1, <2>2
<1>8. DOMAIN excerpt = 1 .. n
  BY <1>1, <1>3, <1>6
<1>9. from \in 1 .. size
  BY <1>4, <1>5
<1> QED BY <1>2, <1>7, <1>8, <1>9

\* A ground that is not refused cites an anchor of one document.
LEMMA GroundsAreOfOneDocument ==
    ASSUME NEW docs, IsFiniteSet(Range(docs)), NEW line, GroundRefusal(line, docs) = "none"
    PROVE  \E d : DocumentsWith(docs, line.anchor) = {d}
<1> DEFINE matches == DocumentsWith(docs, line.anchor)
<1>1. matches # {} /\ ~ (Cardinality(matches) > 1)
  BY DEF GroundRefusal
<1>2. matches \subseteq Range(docs)
  BY DEF DocumentsWith
<1> HIDE DEF matches
<1>3. IsFiniteSet(matches)
  BY <1>2, FS_Subset
<1>4. Cardinality(matches) \in Nat /\ Cardinality(matches) # 0
  BY <1>1, <1>3, FS_CardinalityType, FS_EmptySet
<1>5. Cardinality(matches) = 1
  BY <1>1, <1>4
<1> QED BY <1>3, <1>5, FS_Singleton DEF matches

\* What check_draft accepts has every role and a known measure, and no line of
\* it is refused.
LEMMA AcceptedDraft ==
    ASSUME NEW draft, NEW docs, CheckDraft(draft, docs) = "accepted"
    PROVE  /\ {line.kind : line \in Range(draft)} = DOMAIN RoleOf
           /\ \E measure \in Measures : MeasureValue(draft) = Named(measure)
           /\ \A i \in DOMAIN draft : LineRefusal(draft[i], docs) = "none"
<1> DEFINE refused == {i \in DOMAIN draft : LineRefusal(draft[i], docs) # "none"}
           kinds == {line.kind : line \in Range(draft)}
           known == {Named(measure) : measure \in Measures}
<1>1. \A line : LineRefusal(line, docs) # "accepted"
  BY DEF LineRefusal, GroundRefusal
<1>2. kinds = DOMAIN RoleOf /\ MeasureValue(draft) \in known /\ refused = {}
  <2>1. CheckDraft(draft, docs) =
          CASE draft = <<>> -> "malformed"
            [] draft # <<>> /\ kinds # DOMAIN RoleOf -> "missing_role"
            [] OTHER ->
                 IF MeasureValue(draft) \notin known THEN "unknown_measure"
                 ELSE IF refused # {} THEN LineRefusal(draft[Min(refused)], docs)
                 ELSE "accepted"
    BY DEF CheckDraft
  <2> HIDE DEF refused, kinds, known
  <2> QED BY <1>1, <2>1
<1> QED BY <1>2

\* What parse_draft returns is indexed by numbers.
LEMMA DraftIsIndexed ==
    ASSUME NEW response
    PROVE  DOMAIN ParseDraft(response) \subseteq Nat
<1> DEFINE places == {i \in DOMAIN response : response[i].kind \in DOMAIN RoleOf /\ response[i].parts # <<>>}
<1>1. DOMAIN ParseDraft(response) = 1 .. Cardinality(places)
  BY DEF ParseDraft, Those, Ranked
<1> HIDE DEF places
<1> QED BY <1>1

\* A memo that is dispatched is the draft's, with one of its own citations
\* attached to the first ground.
LEMMA DispatchedIsTheDraft ==
    ASSUME NEW draft, NEW docs, NEW k, DOMAIN draft \subseteq Nat, IsFiniteSet(Range(docs)),
           CheckDraft(draft, docs) = "accepted"
    PROVE  LET made == Dispatched(MemoFrom(draft, k, docs))
           IN /\ made.pack = k /\ made.corpus = docs /\ made.measure \in Measures
              /\ DOMAIN made.sentences = DOMAIN draft
              /\ \A i \in DOMAIN draft :
                    /\ made.sentences[i].role = RoleOf[draft[i].kind]
                    /\ made.sentences[i].citations \subseteq CitationsOf(draft[i], docs)
<1> DEFINE drawn == MemoFrom(draft, k, docs)
           first == CHOOSE i \in Grounds(drawn) : \A j \in Grounds(drawn) : i <= j
           cited == CHOOSE c \in drawn.sentences[first].citations : TRUE
           made == Dispatched(drawn)
<1>1. /\ {line.kind : line \in Range(draft)} = DOMAIN RoleOf
      /\ \E measure \in Measures : MeasureValue(draft) = Named(measure)
      /\ \A i \in DOMAIN draft : LineRefusal(draft[i], docs) = "none"
  BY AcceptedDraft
<1>2. /\ drawn.pack = k /\ drawn.corpus = docs /\ drawn.measure = MeasureValue(draft)[1].word
      /\ drawn.sentences = [i \in DOMAIN draft |-> Sentence(draft[i], docs)]
      /\ DOMAIN drawn = {"pack", "corpus", "measure", "status", "sentences"}
  BY DEF MemoFrom
<1>3. drawn.measure \in Measures
  <2>1. PICK measure \in Measures : MeasureValue(draft) = Named(measure)
    BY <1>1
  <2>2. Named(measure)[1].word = measure
    BY DEF Named, Says
  <2> QED BY <1>2, <2>1, <2>2
<1>4. \A i \in DOMAIN draft :
        /\ drawn.sentences[i].role = RoleOf[draft[i].kind]
        /\ drawn.sentences[i].citations = CitationsOf(draft[i], docs)
        /\ DOMAIN drawn.sentences[i] = {"role", "cites", "citations"}
  BY <1>2 DEF Sentence
<1>5. DOMAIN drawn.sentences = DOMAIN draft
  BY <1>2
<1> HIDE DEF drawn
<1>6. first \in Grounds(drawn)
  <2>1. "GROUND" \in DOMAIN RoleOf /\ RoleOf["GROUND"] = "policy_ground"
    BY DEF RoleOf
  <2>2. PICK i \in DOMAIN draft : draft[i].kind = "GROUND"
    BY <1>1, <2>1 DEF Range
  <2>3. i \in Grounds(drawn)
    BY <1>4, <1>5, <2>1, <2>2 DEF Grounds
  <2>4. Grounds(drawn) \subseteq Nat
    BY <1>5 DEF Grounds
  <2>5. \E n \in Grounds(drawn) : \A j \in Grounds(drawn) : n <= j
    BY <2>3, <2>4, LeastOf
  <2> QED BY <2>5
<1> HIDE DEF first
<1>7. first \in DOMAIN draft /\ draft[first].kind = "GROUND"
  <2>1. first \in DOMAIN draft /\ RoleOf[draft[first].kind] = "policy_ground"
    BY <1>4, <1>5, <1>6 DEF Grounds
  <2>2. draft[first].kind \in DOMAIN RoleOf
    BY <1>1, <2>1 DEF Range
  <2> QED BY <2>1, <2>2 DEF RoleOf
<1>8. cited \in CitationsOf(draft[first], docs)
  <2>1. GroundRefusal(draft[first], docs) = "none"
    BY <1>1, <1>7 DEF LineRefusal
  <2>2. PICK d : DocumentsWith(docs, draft[first].anchor) = {d}
    BY <2>1, GroundsAreOfOneDocument
  <2>3. CitationsOf(draft[first], docs) # {}
    BY <1>7, <2>2 DEF CitationsOf
  <2>4. drawn.sentences[first].citations = CitationsOf(draft[first], docs)
    BY <1>4, <1>7
  <2> QED BY <2>3, <2>4
<1> HIDE DEF cited
<1>9. made = [drawn EXCEPT !.sentences = [drawn.sentences EXCEPT ![first].citations = {cited}],
                           !.status = "draft"]
  BY DEF Dispatched, AttachCitation, WithSentences, first, cited
<1>10. /\ made.pack = k /\ made.corpus = docs /\ made.measure \in Measures
       /\ made.sentences = [drawn.sentences EXCEPT ![first].citations = {cited}]
  BY <1>2, <1>3, <1>9
<1>11. ASSUME NEW i \in DOMAIN draft
       PROVE  /\ made.sentences[i].role = RoleOf[draft[i].kind]
              /\ made.sentences[i].citations \subseteq CitationsOf(draft[i], docs)
  <2>1. CASE i = first
    <3>1. made.sentences[i] = [drawn.sentences[i] EXCEPT !.citations = {cited}]
      BY <1>5, <1>10, <2>1
    <3> QED BY <1>4, <1>8, <2>1, <3>1
  <2>2. CASE i # first
    <3>1. made.sentences[i] = drawn.sentences[i]
      BY <1>5, <1>10, <2>2
    <3> QED BY <1>4, <3>1
  <2> QED BY <2>1, <2>2
<1>12. DOMAIN made.sentences = DOMAIN draft
  BY <1>5, <1>10
<1> QED BY <1>10, <1>11, <1>12 DEF drawn

\* A citation of a draft's line is of the document its anchor is in.
LEMMA CitationsAreOfOneDocument ==
    ASSUME NEW docs, IsFiniteSet(Range(docs)), NEW line, LineRefusal(line, docs) = "none",
           NEW c \in CitationsOf(line, docs)
    PROVE  DocumentsWith(docs, c.anchor) = {c.document}
<1>1. line.kind = "GROUND"
  BY DEF CitationsOf
<1>2. PICK d : DocumentsWith(docs, line.anchor) = {d}
  BY <1>1, GroundsAreOfOneDocument DEF LineRefusal
<1>3. c.anchor = line.anchor /\ c.document \in DocumentsWith(docs, line.anchor)
  BY <1>1 DEF CitationsOf, Citation
<1> QED BY <1>2, <1>3

\* Whatever record an accepted memo cites is explained by the pack.
LEMMA RecordsAreExplained ==
    ASSUME Gathered, NEW id \in RecordIds(pack)
    PROVE  Explained(id)
BY DEF RecordIds, Explained, Gathered

\* The draft that is accepted makes a grounded memo.
LEMMA AcceptedIsGrounded ==
    ASSUME Gathered, CorpusInv, WrittenWhole(corpus), NEW response,
           CheckDraft(ParseDraft(response), corpus) = "accepted",
           MemoCheck(Dispatched(MemoFrom(ParseDraft(response), pack, corpus)), pack, corpus)
    PROVE  Grounded(Dispatched(MemoFrom(ParseDraft(response), pack, corpus)))
<1> DEFINE draft == ParseDraft(response)
           made == Dispatched(MemoFrom(draft, pack, corpus))
<1>1. /\ Len(corpus) \in Nat /\ DOMAIN corpus = 1 .. Len(corpus)
      /\ \A doc \in Range(corpus) : \A clause \in Range(doc.clauses) :
            clause.text \in Seq(Range(clause.text))
  BY WholeHasTexts
<1>2. IsFiniteSet(Range(corpus))
  <2>1. IsFiniteSet(DOMAIN corpus)
    BY <1>1, FS_Interval
  <2>2. IsFiniteSet({corpus[i] : i \in DOMAIN corpus})
    BY <2>1, FiniteImage
  <2> QED BY <2>2 DEF Range
<1>3. /\ {line.kind : line \in Range(draft)} = DOMAIN RoleOf
      /\ \A i \in DOMAIN draft : LineRefusal(draft[i], corpus) = "none"
  BY AcceptedDraft
<1>4. DOMAIN draft \subseteq Nat
  BY DraftIsIndexed
<1> HIDE DEF draft
<1>5. /\ made.pack = pack /\ made.corpus = corpus /\ made.measure \in Measures
      /\ DOMAIN made.sentences = DOMAIN draft
      /\ \A i \in DOMAIN draft :
            /\ made.sentences[i].role = RoleOf[draft[i].kind]
            /\ made.sentences[i].citations \subseteq CitationsOf(draft[i], corpus)
  BY <1>2, <1>4, DispatchedIsTheDraft DEF draft
<1>6. \A i \in DOMAIN draft :
        ClaimHolds(made.sentences[i], pack) /\ GroundHolds(made.sentences[i], corpus)
  BY <1>5 DEF MemoCheck, draft
<1> HIDE DEF made
<1>7. {s.role : s \in Range(made.sentences)} = Range(RoleOf)
  <2>1. ASSUME NEW s \in Range(made.sentences) PROVE s.role \in Range(RoleOf)
    <3>1. PICK i \in DOMAIN draft : s = made.sentences[i]
      BY <1>5 DEF Range
    <3>2. draft[i].kind \in DOMAIN RoleOf
      BY <1>3 DEF Range
    <3> QED BY <1>5, <3>1, <3>2 DEF Range
  <2>2. ASSUME NEW role \in Range(RoleOf) PROVE \E s \in Range(made.sentences) : s.role = role
    <3>1. PICK kind \in DOMAIN RoleOf : role = RoleOf[kind]
      BY DEF Range
    <3>2. PICK i \in DOMAIN draft : draft[i].kind = kind
      BY <1>3 DEF Range
    <3>3. made.sentences[i] \in Range(made.sentences) /\ made.sentences[i].role = role
      BY <1>5, <3>1, <3>2 DEF Range
    <3> QED BY <3>3
  <2> QED BY <2>1, <2>2
<1>8. ASSUME NEW s \in Range(made.sentences)
      PROVE  /\ s.role = "fact" => s.cites # {}
             /\ \A id \in s.cites : Explained(id)
             /\ s.role = "policy_ground" => s.citations # {}
  <2>1. ClaimHolds(s, pack) /\ GroundHolds(s, corpus)
    BY <1>5, <1>6 DEF Range
  <2>2. \A id \in s.cites : id \in RecordIds(pack)
    BY <2>1 DEF ClaimHolds, Supported
  <2>3. s.role = "fact" => s.cites # {}
    BY <2>1 DEF ClaimHolds, Supported
  <2> QED BY <2>1, <2>2, <2>3, RecordsAreExplained DEF GroundHolds
<1>9. ASSUME NEW s \in Range(made.sentences), NEW c \in s.citations
      PROVE  /\ DocumentsWith(corpus, c.anchor) = {c.document}
             /\ \E clause \in Range(c.document.clauses) : \E from \in DOMAIN clause.text :
                   /\ clause.anchor = c.anchor
                   /\ \A k \in DOMAIN c.excerpt :
                         from + k - 1 \in DOMAIN clause.text /\ clause.text[from + k - 1] = c.excerpt[k]
             /\ Len(c.excerpt) \in MinExcerpt .. MaxExcerpt
  <2>1. PICK i \in DOMAIN draft : s = made.sentences[i]
    BY <1>5 DEF Range
  <2>2. c \in CitationsOf(draft[i], corpus)
    BY <1>5, <2>1
  <2>3. DocumentsWith(corpus, c.anchor) = {c.document}
    BY <1>2, <1>3, <2>2, CitationsAreOfOneDocument
  <2>4. Resolves(c, corpus)
    BY <1>6, <2>1 DEF GroundHolds
  <2>5. c.document \in Range(corpus) /\ Quotable(c.excerpt)
    BY <2>4 DEF Resolves
  <2>6. PICK clause \in Clause(c.document, c.anchor) : Quotes(c.excerpt, clause.text)
    BY <2>4 DEF Resolves
  <2>7. clause \in Range(c.document.clauses) /\ clause.anchor = c.anchor
    BY <2>6 DEF Clause
  <2>8. clause.text \in Seq(Range(clause.text))
    BY <1>1, <2>5, <2>7
  <2>9. \E from \in DOMAIN clause.text : \A k \in DOMAIN c.excerpt :
          from + k - 1 \in DOMAIN clause.text /\ clause.text[from + k - 1] = c.excerpt[k]
    <3> DEFINE text == clause.text
               words == Range(clause.text)
               excerpt == c.excerpt
    <3>1. text \in Seq(words) /\ Quotable(excerpt) /\ Quotes(excerpt, text)
      BY <2>5, <2>6, <2>8
    <3> HIDE DEF text, words, excerpt
    <3>2. \E from \in DOMAIN text : \A k \in DOMAIN excerpt :
            from + k - 1 \in DOMAIN text /\ text[from + k - 1] = excerpt[k]
      BY <3>1, QuotedIsInText
    <3> QED BY <3>2 DEF text, excerpt
  <2> QED BY <2>3, <2>5, <2>7, <2>9 DEF Quotable
<1>10. Grounded(made)
  BY <1>5, <1>7, <1>8, <1>9 DEF Grounded
<1> QED BY <1>10 DEF made, draft

\* A case begins with nothing gathered.
LEMMA CaseInit == Init => CaseInv
<1> SUFFICES ASSUME Init PROVE CaseInv
  OBVIOUS
<1>1. fresh = {} /\ seen = {} /\ memo = {} /\ policies = Directory(OldCorpus)
  BY DEF Init
<1>2. /\ stage = "fetch" => page \in Pages
      /\ stage \in {"fetch", "load", "screen"}
  BY DEF Init
<1>3. "manifest" \in DOMAIN policies /\ policies.manifest = Whole(OldCorpus)
  BY <1>1 DEF Directory
<1> QED BY <1>1, <1>2, <1>3
      DEF CaseInv, CorpusInv, PackInv, AcceptedMemoIsGrounded, Loaded, Opened

\* Only a draft accepts a memo, and no step follows it.
LEMMA CaseStep ==
    ASSUME CaseInv, [Next]_vars
    PROVE  CaseInv'
<1>1. CorpusInv /\ PackInv /\ CorpusInv' /\ PackInv'
  BY CorpusStep, PackStep DEF CaseInv
<1>2. CASE UNCHANGED vars
  <2>1. UNCHANGED <<stage, memo>> /\ \A m : Grounded(m)' <=> Grounded(m)
    BY <1>2 DEF vars, policyVars, caseVars, Grounded, WrittenWhole, NewCorpus, Explained, Told, Hops
  <2> QED BY <1>1, <2>1 DEF CaseInv, AcceptedMemoIsGrounded
<1>3. CASE stage # "accepted" /\ memo' = memo
  <2>1. memo' = {}
    BY <1>3 DEF CaseInv
  <2> QED BY <1>1, <2>1 DEF CaseInv, AcceptedMemoIsGrounded
<1>4. ASSUME NEW response, Draft(response) PROVE CaseInv'
  <2> DEFINE draft == ParseDraft(response)
             made == Dispatched(MemoFrom(draft, pack, corpus))
  <2>1. stage = "memo" /\ UNCHANGED <<policyVars, corpus, caseVars>>
    BY <1>4 DEF Draft
  <2>2. CASE UNCHANGED <<memo, stage>>
    BY <1>3, <2>1, <2>2
  <2>3. CASE /\ CheckDraft(draft, corpus) = "accepted" /\ MemoCheck(made, pack, corpus)
             /\ memo' = {made} /\ stage' = "accepted"
    <3>1. Gathered /\ WrittenWhole(corpus)
      BY <1>1, <2>1 DEF PackInv, CorpusInv, Opened, Loaded
    <3>2. Grounded(made)
      BY <1>1, <2>3, <3>1, AcceptedIsGrounded
    <3> HIDE DEF made
    <3>3. \A m : Grounded(m)' <=> Grounded(m)
      BY <2>1 DEF policyVars, caseVars, Grounded, WrittenWhole, NewCorpus, Explained, Told, Hops
    <3>4. \A m \in memo' : Grounded(m)'
      BY <2>3, <3>2, <3>3
    <3> QED BY <1>1, <2>3, <3>4 DEF CaseInv, AcceptedMemoIsGrounded
  <2> QED BY <1>4, <2>2, <2>3 DEF Draft
<1>5. CASE Fetch \/ WriteFile \/ EndFetch \/ OpenCorpus \/ CloseCase \/ Screen
  BY <1>3, <1>5 DEF Fetch, WriteFile, EndFetch, OpenCorpus, CloseCase, Screen
<1>6. ASSUME NEW subject, OpenCase(subject) PROVE CaseInv'
  BY <1>3, <1>6 DEF OpenCase
<1>7. ASSUME NEW proposal, Refuse(proposal) PROVE CaseInv'
  BY <1>2, <1>7 DEF Refuse
<1>8. ASSUME NEW proposal, NEW answer, RunPivot(proposal, answer) PROVE CaseInv'
  BY <1>3, <1>8 DEF RunPivot
<1> QED BY <1>2, <1>4, <1>5, <1>6, <1>7, <1>8 DEF Next

\* What every state of a case satisfies.
LEMMA CaseInvariant == CaseSpec => []CaseInv
<1>1. CaseInv /\ [Next]_vars => CaseInv'
  BY CaseStep
<1> QED BY CaseInit, <1>1, PTL DEF CaseSpec

\* Whatever the pages, the corpus, the pivots' answers and the responses, an
\* accepted memo is grounded: in a corpus written whole, in rows pivots
\* returned, and word for word in a clause of the one document it cites.
THEOREM MemoIsGrounded == CaseSpec => []AcceptedMemoIsGrounded
<1>1. CaseInv => AcceptedMemoIsGrounded
  BY DEF CaseInv
<1> QED BY CaseInvariant, <1>1, PTL

(***************************************************************************)
(* What a pack explains.                                                   *)
(***************************************************************************)

\* An entity has one ring at most.
LEMMA OneRing ==
    ASSUME NEW subject, NEW ring \in RingsFor(subject)
    PROVE  Others(subject) = Members(ring) \ {subject}
<1>1. ASSUME NEW other \in RingsFor(subject) PROVE other = ring
  <2>1. PICK a \in Planted : a.entity = subject /\ a.ring = ring
    BY DEF RingsFor
  <2>2. PICK b \in Planted : b.entity = subject /\ b.ring = other
    BY DEF RingsFor
  <2>3. a = b
    BY <2>1, <2>2, RecoveryAssumption
  <2> QED BY <2>1, <2>2, <2>3
<1>2. RingsFor(subject) = {ring}
  BY <1>1
<1> QED BY <1>2 DEF Others

\* The sealed labels are finitely many, and so is a network.
LEMMA MembersAreFinite ==
    ASSUME NEW ring
    PROVE  IsFiniteSet(Members(ring))
<1> DEFINE labels == {l \in Planted : l.ring = ring}
           f == [l \in labels |-> l.entity]
<1>1. IsFiniteSet(labels)
  BY FS_Subset, RecoveryAssumption DEF Planted
<1>2. Members(ring) = {f[l] : l \in labels}
  BY DEF Members
<1>3. DOMAIN f = labels
  OBVIOUS
<1> HIDE DEF labels, f
<1>4. IsFiniteSet({f[l] : l \in labels})
  BY <1>1, <1>3, FiniteImage
<1> QED BY <1>2, <1>4

\* What of a network is on the platform can be in a pack.
LEMMA OnThePlatformIsReachable ==
    ASSUME NEW subject, NEW e \in Others(subject), e \in Channels \cup Accounts \cup Videos
    PROVE  e \in Reachable(subject)
<1>1. \E l \in Planted : l.entity = e
  BY DEF Others, Members
<1> DEFINE label == CHOOSE l \in Planted : l.entity = e
<1>2. label \in Planted /\ label.entity = e
  BY <1>1
<1>3. KindOf(e) = label.kind
  BY DEF KindOf
<1> HIDE DEF label
<1>4. label.kind \in PackNodeKinds
  BY <1>2, RecoveryAssumption
<1> QED BY <1>3, <1>4 DEF Reachable

\* What came back within a budget, but for the subject, is what some row told
\* of within it.
LEMMA ReachIsTold ==
    ASSUME Gathered, NEW budget \in Nat
    PROVE  ToldAbout(budget) = NodesAtHop(pack, budget) \ {Head(pack.order)}
<1>1. Hops(pack) \in Nat
  BY DEF Gathered, Hops
<1>2. \A e : NodeId(e)[2] = e
  BY DEF NodeId
<1>3. \A e \in Entities(pack) : NodeId(e) \in DOMAIN pack.found
  BY DEF Gathered
<1>4. \A id \in DOMAIN pack.found : pack.found[id] \in 0 .. Hops(pack)
  BY DEF Gathered
<1>5. ASSUME NEW e \in ToldAbout(budget) PROVE e \in NodesAtHop(pack, budget) \ {Head(pack.order)}
  <2>1. e \in Entities(pack) \ {Head(pack.order)}
    BY DEF ToldAbout
  <2>2. PICK s \in seen : s.hop <= budget /\ NodeId(e) \in Told(s)
    BY DEF ToldAbout
  <2>3. s.hop \in 1 .. Hops(pack) /\ pack.found[NodeId(e)] <= s.hop
    BY <2>2 DEF Gathered
  <2>4. pack.found[NodeId(e)] \in 0 .. Hops(pack)
    BY <1>3, <1>4, <2>1
  <2>5. pack.found[NodeId(e)] <= budget
    BY <1>1, <2>2, <2>3, <2>4
  <2> QED BY <2>1, <2>5 DEF NodesAtHop
<1>6. ASSUME NEW e \in NodesAtHop(pack, budget), e # Head(pack.order) PROVE e \in ToldAbout(budget)
  <2>1. e \in Entities(pack) /\ pack.found[NodeId(e)] <= budget
    BY DEF NodesAtHop
  <2>2. NodeId(e) \in DOMAIN pack.found \ {NodeId(Head(pack.order))}
    BY <1>2, <1>3, <1>6, <2>1
  <2>3. \E s \in seen : s.hop = pack.found[NodeId(e)] /\ NodeId(e) \in Told(s)
    BY <2>2 DEF Gathered
  <2> QED BY <1>6, <2>1, <2>3 DEF ToldAbout
<1> QED BY <1>5, <1>6

\* The counts of a recovery are of what the pack was told.
LEMMA RecoveryIsTold ==
    ASSUME Gathered, Connected, NEW ring \in RingsFor(Head(pack.order)), NEW budget \in Nat
    PROVE  /\ Recovered(pack, budget) = Cardinality(ToldAbout(budget) \cap Members(ring))
           /\ Recovered(pack, budget) <= Cardinality(Reachable(Head(pack.order)))
<1> DEFINE subject == Head(pack.order)
           counted == NodesAtHop(pack, budget) \cap Others(subject)
<1>1. Others(subject) = Members(ring) \ {subject}
  BY OneRing
<1>2. counted = ToldAbout(budget) \cap Members(ring)
  BY <1>1, ReachIsTold
<1>3. counted \subseteq Reachable(subject)
  <2>1. ASSUME NEW e \in counted PROVE e \in Reachable(subject)
    <3>1. e \in Others(subject) /\ e \in Channels \cup Accounts \cup Videos
      BY DEF NodesAtHop, Connected
    <3> QED BY <3>1, OnThePlatformIsReachable
  <2> QED BY <2>1
<1>4. IsFiniteSet(Reachable(subject))
  <2>1. Reachable(subject) \subseteq Members(ring)
    BY <1>1 DEF Reachable
  <2> QED BY <2>1, MembersAreFinite, FS_Subset
<1>5. Recovered(pack, budget) = Cardinality(counted)
  BY DEF Recovered
<1> HIDE DEF counted, subject
<1>6. Cardinality(counted) <= Cardinality(Reachable(subject))
  BY <1>3, <1>4, FS_Subset
<1> QED BY <1>2, <1>5, <1>6 DEF subject

\* A pack that is gathered and connected explains itself.
LEMMA GatheredIsExplained ==
    ASSUME Gathered, Connected
    PROVE  PackExplainsItself
<1>1. \A s \in seen : \A id \in Told(s) : id \in DOMAIN pack.found /\ pack.found[id] <= s.hop
  BY DEF Gathered
<1>2. ASSUME NEW s \in seen, NEW t \in seen,
             s.pivot = t.pivot, s.params.entity = t.params.entity, Told(s) = Told(t)
      PROVE  s.row = t.row
  <2>1. /\ s.pivot \in Pivots /\ s.row \in RowsFound(s.pivot, s.params)
        /\ t.row \in RowsFound(s.pivot, t.params)
    BY <1>2 DEF Gathered
  <2>2. RecordsOf(s.pivot, s.params, s.row) = RecordsOf(s.pivot, t.params, t.row)
    BY <1>2 DEF Told
  <2> QED BY <1>2, <2>1, <2>2, RowsAreTold
<1>3. \A id \in DOMAIN pack.found \ {NodeId(Head(pack.order))} :
        \E s \in seen : s.hop = pack.found[id] /\ id \in Told(s)
  BY DEF Gathered
<1>4. \A hop \in 0 .. Hops(pack) : Within(hop) = NodesAtHop(pack, hop)
  BY WithinIsInReach
<1>5. ASSUME NEW result \in RecoveryForPack(pack, 0 .. MaxHops), NEW budget \in 0 .. MaxHops
      PROVE  /\ result.recovered[budget] = Cardinality(ToldAbout(budget) \cap Members(result.ring_id))
             /\ result.recovered[budget] <= result.reachable_size
  <2> DEFINE counts == [b \in 0 .. MaxHops |-> Recovered(pack, b)]
             size == Cardinality(Others(Head(pack.order)))
             most == Cardinality(Reachable(Head(pack.order)))
             Result(ring) == [ring_id |-> ring, ring_size |-> size, reachable_size |-> most, recovered |-> counts]
  <2>3. RecoveryForPack(pack, 0 .. MaxHops) = {Result(ring) : ring \in RingsFor(Head(pack.order))}
    BY DEF RecoveryForPack
  <2> HIDE DEF counts, size, most
  <2>4. PICK ring \in RingsFor(Head(pack.order)) : result = Result(ring)
    BY <2>3
  <2>1. result.ring_id = ring /\ result.reachable_size = most /\ result.recovered = counts
    BY <2>4
  <2>2. result.recovered[budget] = Recovered(pack, budget) /\ budget \in Nat
    BY <2>1, HopsAssumption DEF counts
  <2> QED BY <2>1, <2>2, RecoveryIsTold DEF most
<1> QED BY <1>1, <1>2, <1>3, <1>4, <1>5 DEF PackExplainsItself

\* However many pivots are run, whatever their answers and however these overlap,
\* a pack tells the rows that came back and nothing else, is one piece at every
\* hop, and what a recovery counts in it is what the rows told of the network.
THEOREM PackIsExplained == CaseSpec => []PackExplainsItself
<1>1. CaseInv => PackExplainsItself
  <2>1. ASSUME CaseInv, stage = "case" PROVE PackExplainsItself
    BY <2>1, GatheredIsExplained DEF CaseInv, PackInv, Opened
  <2>2. ASSUME stage # "case" PROVE PackExplainsItself
    BY <2>2 DEF PackExplainsItself
  <2> QED BY <2>1, <2>2
<1> QED BY <1>1, CaseInvariant, PTL

(***************************************************************************)
(* What a hop does not move.                                               *)
(***************************************************************************)

\* The questions about the first so many entities of an order.
Asked(order, upTo) ==
    [i \in 1 .. upTo |->
        [k \in DOMAIN KindPivots(order[i]) |-> <<KindPivots(order[i])[k], order[i]>>]]

\* The offline agent asks about the first so many entities of the pack.
LEMMA WorkListIsAsked ==
    ASSUME NEW k, k.order \in Seq(Range(k.order)), k.order # <<>>, k.hops \in Seq(Range(k.hops))
    PROVE  \E upTo \in 1 .. Len(k.order) : WorkList(k) = Joined(Asked(k.order, upTo), 3)
<1> DEFINE order == k.order
           room == ShowLimit - (Hops(k) + 1)
           ends == {room, Len(order)}
           upTo == Max({1, Min(ends)})
<1>1. order \in Seq(Range(order)) /\ order # <<>>
  OBVIOUS
<1>2. room \in Int
  <2>1. ShowLimit \in Nat /\ Len(k.hops) \in Nat
    BY PlatformAssumption
  <2> QED BY <2>1 DEF Hops
<1>3. Shown(k) = SubSeq(order, 1, upTo)
  BY DEF Shown
<1>4. WorkList(k) = Joined([i \in DOMAIN Shown(k) |->
        [n \in DOMAIN KindPivots(order[i]) |-> <<KindPivots(order[i])[n], order[i]>>]], 3)
  BY DEF WorkList
<1> HIDE DEF order, room
<1>5. Len(order) \in Nat /\ Len(order) >= 1
  BY <1>1
<1>6. Min(ends) \in Int /\ Min(ends) <= Len(order)
  <2>1. \E x \in ends : \A y \in ends : x <= y
    BY <1>2, <1>5
  <2>2. Min(ends) \in ends /\ \A y \in ends : Min(ends) <= y
    BY <2>1 DEF Min
  <2> QED BY <1>2, <1>5, <2>2
<1> HIDE DEF ends
<1>7. upTo \in 1 .. Len(order)
  <2> DEFINE both == {1, Min(ends)}
  <2>1. \E x \in both : \A y \in both : x >= y
    BY <1>6
  <2>2. Max(both) \in both /\ \A y \in both : Max(both) >= y
    BY <2>1 DEF Max
  <2> QED BY <1>5, <1>6, <2>2
<1> HIDE DEF upTo
<1>8. DOMAIN Shown(k) = 1 .. upTo
  <2>1. \A i \in 1 .. upTo : order[i] \in Range(order)
    BY <1>1, <1>5, <1>7 DEF Range
  <2>2. upTo \in Int /\ 1 <= upTo /\ upTo - 1 + 1 = upTo
    BY <1>5, <1>7
  <2>3. SubSeq(order, 1, upTo) \in Seq(Range(order)) /\ Len(SubSeq(order, 1, upTo)) = upTo
    BY <2>1, <2>2, SubSeqProperties
  <2> QED BY <1>3, <2>3
<1> QED BY <1>4, <1>7, <1>8 DEF Asked, order

\* The questions are sequences of three at most, one for each entity.
LEMMA AskedIsAJoin ==
    ASSUME NEW order, NEW upTo \in Nat
    PROVE  /\ Len(Asked(order, upTo)) = upTo /\ DOMAIN Asked(order, upTo) = 1 .. upTo
           /\ \A i \in 1 .. upTo : DOMAIN Asked(order, upTo)[i] \subseteq 1 .. 3
<1>1. DOMAIN Asked(order, upTo) = 1 .. upTo /\ Len(Asked(order, upTo)) = upTo
  BY DEF Asked
<1>2. \A e : DOMAIN KindPivots(e) \subseteq 1 .. 3
  BY DEF KindPivots
<1>3. \A i \in 1 .. upTo : DOMAIN Asked(order, upTo)[i] = DOMAIN KindPivots(order[i])
  BY DEF Asked
<1> QED BY <1>1, <1>2, <1>3

\* Two sequences that agree as far as both go have one beginning.
LEMMA OneBeginning ==
    ASSUME NEW few, Len(few) \in Nat, DOMAIN few = 1 .. Len(few),
           NEW more, Len(more) \in Nat, Len(few) <= Len(more),
           \A r \in 1 .. Len(few) : more[r] = few[r]
    PROVE  /\ Min({Len(few), Len(more)}) = Len(few)
           /\ Min({Len(more), Len(few)}) = Len(few)
           /\ SubSeq(few, 1, Len(few)) = SubSeq(more, 1, Len(few))
<1> DEFINE n == Len(few)
           S == Range(few)
<1>1. PICK m \in Nat : m = Len(more)
  OBVIOUS
<1>2. Min({Len(few), Len(more)}) = Len(few) /\ Min({Len(more), Len(few)}) = Len(few)
  <2> DEFINE ends == {Len(few), Len(more)}
  <2>1. Len(few) \in ends /\ \A y \in ends : Len(few) <= y
    OBVIOUS
  <2>2. Min(ends) \in ends /\ \A y \in ends : Min(ends) <= y
    BY <2>1 DEF Min
  <2>3. Min(ends) = Len(few)
    BY <2>1, <2>2
  <2>4. {Len(more), Len(few)} = ends
    OBVIOUS
  <2> QED BY <2>3, <2>4
<1>3. \A i \in 1 .. n : few[i] \in S /\ more[i] \in S
  BY DEF Range
<1>4. 1 \in Int /\ n \in Int /\ n - 1 + 1 = n /\ \A i \in 1 .. n : 1 + i - 1 = i
  OBVIOUS
<1> HIDE DEF n, S
<1>5. /\ SubSeq(few, 1, n) \in Seq(S) /\ Len(SubSeq(few, 1, n)) = IF 1 <= n THEN n ELSE 0
      /\ \A i \in 1 .. n : SubSeq(few, 1, n)[i] = few[i]
  BY <1>3, <1>4, SubSeqProperties
<1>6. /\ SubSeq(more, 1, n) \in Seq(S) /\ Len(SubSeq(more, 1, n)) = IF 1 <= n THEN n ELSE 0
      /\ \A i \in 1 .. n : SubSeq(more, 1, n)[i] = more[i]
  BY <1>3, <1>4, SubSeqProperties
<1>7. \A i \in 1 .. Len(SubSeq(few, 1, n)) : i \in 1 .. n
  BY <1>4, <1>5
<1>8. SubSeq(few, 1, n) = SubSeq(more, 1, n)
  <2>1. \A i \in 1 .. Len(SubSeq(few, 1, n)) : SubSeq(few, 1, n)[i] = SubSeq(more, 1, n)[i]
    BY <1>5, <1>6, <1>7 DEF n
  <2> QED BY <1>5, <1>6, <2>1, SeqEqual
<1> QED BY <1>2, <1>8 DEF n

SameStart(after, before) ==
    LET both == Min({Len(before), Len(after)})
    IN SubSeq(after, 1, both) = SubSeq(before, 1, both)

\* Of the questions about two orders that agree, the fewer come first.
LEMMA FewerQuestions ==
    ASSUME NEW order, NEW now, NEW upTo \in Nat, NEW further \in Nat, upTo <= further,
           \A i \in 1 .. upTo : now[i] = order[i]
    PROVE  /\ SameStart(Joined(Asked(now, further), 3), Joined(Asked(order, upTo), 3))
           /\ SameStart(Joined(Asked(order, upTo), 3), Joined(Asked(now, further), 3))
<1> DEFINE few == Asked(order, upTo)
           more == Asked(now, further)
<1>1. 3 \in {2, 3}
  OBVIOUS
<1>2. /\ Len(few) = upTo /\ DOMAIN few = 1 .. upTo
      /\ \A i \in 1 .. upTo : DOMAIN few[i] \subseteq 1 .. 3
      /\ Len(more) = further /\ DOMAIN more = 1 .. further
      /\ \A i \in 1 .. further : DOMAIN more[i] \subseteq 1 .. 3
  BY AskedIsAJoin
<1>3. \A i \in 1 .. upTo : i \in 1 .. further /\ more[i] = few[i]
  BY DEF Asked
<1> HIDE DEF few, more
<1> DEFINE before == Joined(few, 3)
           after == Joined(more, 3)
<1>4. /\ Len(before) \in Nat /\ DOMAIN before = 1 .. Len(before)
      /\ Len(after) \in Nat /\ DOMAIN after = 1 .. Len(after)
  BY <1>1, <1>2, JoinedHolds
<1>5. Len(before) <= Len(after) /\ \A r \in 1 .. Len(before) : after[r] = before[r]
  BY <1>1, <1>2, <1>3, JoinedGrows
<1> HIDE DEF before, after
<1>6. SameStart(after, before) /\ SameStart(before, after)
  BY <1>4, <1>5, OneBeginning DEF SameStart
<1> QED BY <1>6 DEF before, after, few, more

\* The questions about an order keep their places when it grows, however many
\* entities are shown before and after.
LEMMA QuestionsKeepTheirPlaces ==
    ASSUME NEW order, NEW now, Len(order) \in Nat, Len(now) \in Nat,
           \A i \in 1 .. Len(order) : now[i] = order[i],
           NEW was \in 1 .. Len(order), NEW upTo \in 1 .. Len(now)
    PROVE  SameStart(Joined(Asked(now, upTo), 3), Joined(Asked(order, was), 3))
<1>1. was \in Nat /\ upTo \in Nat /\ \A i \in 1 .. was : i \in 1 .. Len(order)
  OBVIOUS
<1>2. CASE was <= upTo
  <2>1. \A i \in 1 .. was : now[i] = order[i]
    BY <1>1
  <2> QED BY <1>1, <1>2, <2>1, FewerQuestions
<1>3. CASE upTo <= was
  <2>1. \A i \in 1 .. upTo : order[i] = now[i]
    BY <1>1, <1>3
  <2> QED BY <1>1, <1>3, <2>1, FewerQuestions
<1> QED BY <1>1, <1>2, <1>3

\* A step of the action property, of an open case.
NeverMoves ==
    /\ \A id \in DOMAIN pack.found : id \in DOMAIN pack'.found /\ pack'.found[id] = pack.found[id]
    /\ \A budget \in 0 .. Hops(pack) : NodesAtHop(pack', budget) = NodesAtHop(pack, budget)
    /\ LET both == Min({Len(WorkList(pack)), Len(WorkList(pack'))})
       IN SubSeq(WorkList(pack'), 1, both) = SubSeq(WorkList(pack), 1, both)

\* A hop moves nothing of the pack before it.
LEMMA HopNeverMoves ==
    ASSUME Gathered, Gathered', NEW proposal, NEW answer \in Answers(proposal.pivot, proposal.params),
           RunPivot(proposal, answer)
    PROVE  NeverMoves
<1> DEFINE p == proposal.params
           pivot == proposal.pivot
<1>1. pivot \in Pivots /\ p.limit \in Nat
  BY AcceptedIsValid DEF RunPivot
<1>2. Len(answer) \in Nat /\ DOMAIN answer = 1 .. Len(answer)
  BY <1>1, AnswersAreRows
<1>3. pack' = WithHop(pack, pivot, p, answer)
  BY DEF RunPivot
<1> HIDE DEF p, pivot
<1>4. /\ Len(pack.order) <= Len(pack'.order)
      /\ \A i \in 1 .. Len(pack.order) : pack'.order[i] = pack.order[i]
      /\ Entities(pack') = Entities(pack) \cup NamedIn(pivot, answer)
      /\ DOMAIN pack'.found = DOMAIN pack.found \cup ToldIn(pivot, p, answer)
      /\ \A id \in DOMAIN pack.found : pack'.found[id] = pack.found[id]
      /\ \A id \in ToldIn(pivot, p, answer) \ DOMAIN pack.found : pack'.found[id] = Hops(pack) + 1
  BY <1>1, <1>2, <1>3, HopAdds, SMTT(30) DEF Gathered
<1>5. Hops(pack) \in Nat
  BY DEF Gathered, Hops
<1>7. \A budget \in 0 .. Hops(pack) : NodesAtHop(pack', budget) = NodesAtHop(pack, budget)
  BY ReachKeeps
<1>8. LET both == Min({Len(WorkList(pack)), Len(WorkList(pack'))})
      IN SubSeq(WorkList(pack'), 1, both) = SubSeq(WorkList(pack), 1, both)
  <2>1. PICK order : order = pack.order
    OBVIOUS
  <2>2. PICK now : now = pack'.order
    OBVIOUS
  <2>3. PICK was \in 1 .. Len(order) : WorkList(pack) = Joined(Asked(order, was), 3)
    BY <2>1, WorkListIsAsked DEF Gathered
  <2>4. PICK upTo \in 1 .. Len(now) : WorkList(pack') = Joined(Asked(now, upTo), 3)
    <3>1. PICK k : k = pack'
      OBVIOUS
    <3>2. k.order \in Seq(Range(k.order)) /\ k.order # <<>> /\ k.hops \in Seq(Range(k.hops))
      BY <3>1 DEF Gathered
    <3>3. \E upTo \in 1 .. Len(k.order) : WorkList(k) = Joined(Asked(k.order, upTo), 3)
      BY <3>2, WorkListIsAsked
    <3> QED BY <2>2, <3>1, <3>3
  <2>5. Len(order) \in Nat /\ Len(now) \in Nat /\ \A i \in 1 .. Len(order) : now[i] = order[i]
    BY <1>4, <2>1, <2>2 DEF Gathered
  <2>6. SameStart(Joined(Asked(now, upTo), 3), Joined(Asked(order, was), 3))
    BY <2>5, QuestionsKeepTheirPlaces
  <2> QED BY <2>3, <2>4, <2>6 DEF SameStart
<1> QED BY <1>4, <1>7, <1>8 DEF NeverMoves

\* A hop adds and never moves, however many rows it brings: the hop that first
\* saw a record stays its hop, what was in reach at a budget stays so, and the
\* questions of the offline agent keep their places.
THEOREM EvidenceStays == CaseSpec => EvidenceNeverMoves
<1>1. CaseInv /\ CaseInv' /\ [Next]_vars => [stage = "case" /\ stage' = "case" => NeverMoves]_vars
  <2> SUFFICES ASSUME CaseInv, CaseInv', Next, stage = "case", stage' = "case"
               PROVE  NeverMoves \/ UNCHANGED vars
    OBVIOUS
  <2>1. Gathered /\ Gathered'
    BY DEF CaseInv, PackInv, Opened
  <2>2. ASSUME NEW proposal, NEW answer \in Answers(proposal.pivot, proposal.params),
               RunPivot(proposal, answer)
        PROVE  NeverMoves
    BY <2>1, <2>2, HopNeverMoves
  <2>3. ASSUME NEW proposal, Refuse(proposal) PROVE UNCHANGED vars
    BY <2>3 DEF Refuse
  <2>4. ~ (Fetch \/ WriteFile \/ EndFetch \/ OpenCorpus \/ CloseCase \/ Screen)
    BY DEF Fetch, WriteFile, EndFetch, OpenCorpus, CloseCase, Screen
  <2>5. \A subject : ~ OpenCase(subject)
    BY DEF OpenCase
  <2>6. stage # "memo"
    OBVIOUS
  <2> QED BY <2>2, <2>3, <2>4, <2>5, <2>6 DEF Next
<1>2. [][stage = "case" /\ stage' = "case" => NeverMoves]_vars <=> EvidenceNeverMoves
  BY DEF EvidenceNeverMoves, NeverMoves
<1> QED BY CaseInvariant, <1>1, <1>2, PTL DEF CaseSpec

(***************************************************************************)
(* The anchors.                                                            *)
(***************************************************************************)

\* Without the one at a place, those behind it move up by one.
LEMMA RemovedIsShifted ==
    ASSUME NEW S, NEW s \in Seq(S), NEW gone \in 1 .. Len(s)
    PROVE  /\ DOMAIN RemoveAt(s, gone) = 1 .. Len(s) - 1
           /\ \A i \in 1 .. Len(s) - 1 : RemoveAt(s, gone)[i] = s[IF i < gone THEN i ELSE i + 1]
<1> DEFINE n == Len(s)
           front == SubSeq(s, 1, gone - 1)
           back == SubSeq(s, gone + 1, n)
<1>1. n \in Nat /\ gone \in 1 .. n /\ \A i \in 1 .. n : s[i] \in S
  OBVIOUS
<1> HIDE DEF n
<1>2. /\ 1 \in Int /\ gone - 1 \in Int /\ gone + 1 \in Int /\ n \in Int
      /\ \A i \in 1 .. gone - 1 : i \in 1 .. n
      /\ \A i \in gone + 1 .. n : i \in 1 .. n
  BY <1>1
<1>3. /\ front \in Seq(S) /\ Len(front) = IF 1 <= gone - 1 THEN gone - 1 - 1 + 1 ELSE 0
      /\ \A i \in 1 .. gone - 1 - 1 + 1 : front[i] = s[1 + i - 1]
  BY <1>1, <1>2, SubSeqProperties
<1>4. /\ back \in Seq(S) /\ Len(back) = IF gone + 1 <= n THEN n - (gone + 1) + 1 ELSE 0
      /\ \A i \in 1 .. n - (gone + 1) + 1 : back[i] = s[gone + 1 + i - 1]
  BY <1>1, <1>2, SubSeqProperties
<1>5. RemoveAt(s, gone) = front \o back
  BY DEF RemoveAt, n
<1> HIDE DEF front, back
<1>6. Len(front) = gone - 1 /\ Len(back) = n - gone
  BY <1>1, <1>3, <1>4
<1> DEFINE left == front \o back
<1>7. /\ left \in Seq(S) /\ Len(left) = Len(front) + Len(back)
      /\ \A i \in 1 .. Len(front) + Len(back) :
            left[i] = IF i <= Len(front) THEN front[i] ELSE back[i - Len(front)]
  BY <1>3, <1>4, ConcatProperties
<1> HIDE DEF left
<1>8. Len(front) + Len(back) = n - 1
  BY <1>1, <1>6
<1>9. DOMAIN left = 1 .. n - 1
  BY <1>7, <1>8
<1>10. ASSUME NEW i \in 1 .. n - 1 PROVE left[i] = s[IF i < gone THEN i ELSE i + 1]
  <2>1. CASE i < gone
    <3>1. i <= Len(front) /\ i \in 1 .. gone - 1 - 1 + 1 /\ 1 + i - 1 = i
      BY <1>1, <1>6, <2>1
    <3> QED BY <1>3, <1>7, <1>8, <2>1, <3>1
  <2>2. CASE ~ (i < gone)
    <3>1. /\ ~ (i <= Len(front)) /\ i - Len(front) \in 1 .. n - (gone + 1) + 1
          /\ gone + 1 + (i - Len(front)) - 1 = i + 1
      BY <1>1, <1>6, <2>2
    <3> QED BY <1>4, <1>7, <1>8, <2>2, <3>1
  <2> QED BY <2>1, <2>2
<1> QED BY <1>5, <1>9, <1>10 DEF left, n

\* A heading of another slug keeps its anchor when one is withdrawn.
LEMMA WithdrawnMovesNoOther ==
    ASSUME NEW S, NEW headings \in Seq(S), NEW gone \in 1 .. Len(headings),
           NEW i \in 1 .. Len(headings) - 1,
           Slug(RemoveAt(headings, gone)[i]) # Slug(headings[gone])
    PROVE  AnchorOf(RemoveAt(headings, gone), i) = AnchorOf(headings, IF i < gone THEN i ELSE i + 1)
<1> DEFINE left == RemoveAt(headings, gone)
           At(j) == IF j < gone THEN j ELSE j + 1
           was == At(i)
           slug == Slug(left[i])
           Now == {j \in 1 .. i : Slug(left[j]) = slug}
           Were == {j \in 1 .. was : Slug(headings[j]) = slug}
           f == [j \in Now |-> At(j)]
<1>1. PICK n \in Nat : n = Len(headings)
  OBVIOUS
<1>2. \A j \in 1 .. n - 1 : left[j] = headings[At(j)]
  BY <1>1, RemovedIsShifted
<1>3. gone \in 1 .. n /\ i \in 1 .. n - 1
  BY <1>1
<1> HIDE DEF left
<1>4. f \in [Now -> Were]
  <2> SUFFICES ASSUME NEW j \in Now PROVE At(j) \in Were
    OBVIOUS
  <2>1. j \in 1 .. n - 1 /\ At(j) \in 1 .. was
    BY <1>3
  <2> QED BY <1>2, <2>1
<1>5. ASSUME NEW j \in Now, NEW k \in Now, f[j] = f[k] PROVE j = k
  BY <1>3, <1>5
<1>6. ASSUME NEW k \in Were PROVE \E j \in Now : f[j] = k
  <2>1. k # gone
    <3>1. slug # Slug(headings[gone])
      BY DEF left
    <3> QED BY <3>1
  <2> DEFINE j == IF k < gone THEN k ELSE k - 1
  <2>2. j \in 1 .. i /\ At(j) = k /\ j \in 1 .. n - 1
    BY <1>3, <2>1
  <2> HIDE DEF j
  <2>3. left[j] = headings[k]
    BY <1>2, <2>2
  <2>4. j \in Now
    BY <2>2, <2>3
  <2>5. f[j] = k
    BY <2>2, <2>4
  <2> HIDE DEF Now, f
  <2> QED BY <2>4, <2>5
<1>7. IsFiniteSet(Now)
  <2>0. 1 \in Int /\ i \in Int /\ Now \subseteq 1 .. i
    BY <1>3
  <2>1. IsFiniteSet(1 .. i) /\ Now \subseteq 1 .. i
    <3> HIDE DEF Now
    <3> QED BY <2>0, FS_Interval
  <2> HIDE DEF Now
  <2> QED BY <2>1, FS_Subset
<1>8. Cardinality(Were) = Cardinality(Now)
  <2> HIDE DEF f, Now, Were
  <2>1. f \in Bijection(Now, Were)
    BY <1>4, <1>5, <1>6 DEF Bijection, Injection, Surjection, IsInjective
  <2>2. ExistsBijection(Now, Were)
    BY <2>1 DEF ExistsBijection
  <2> QED BY <1>7, <2>2, FS_Bijection
<1>9. Slug(headings[was]) = slug
  BY <1>2, <1>3
<1>10. AnchorOf(left, i) = IF Cardinality(Now) = 1 THEN slug ELSE slug \o <<ToString(Cardinality(Now))>>
  BY DEF AnchorOf
<1>11. AnchorOf(headings, was) =
         IF Cardinality(Were) = 1 THEN slug ELSE slug \o <<ToString(Cardinality(Were))>>
  BY <1>9 DEF AnchorOf
<1>12. AnchorOf(left, i) = AnchorOf(headings, was)
  BY <1>8, <1>10, <1>11
<1> QED BY <1>12 DEF left

\* The anchors of what a page makes are its own and stay.
LEMMA MadeIsStable ==
    ASSUME NEW p \in Pages, FetchRefusal(p) = "none",
           NEW gone \in DOMAIN HeadingsOf(Document("spam", Extracted(p)))
    PROVE  LET headings == HeadingsOf(Document("spam", Extracted(p)))
               anchors == AnchorIdsFor(headings)
               left == RemoveAt(headings, gone)
               now == AnchorIdsFor(left)
           IN \A i \in DOMAIN left :
                 LET was == IF i < gone THEN i ELSE i + 1
                 IN /\ anchors[was] # anchors[gone]
                    /\ Slug(left[i]) # Slug(headings[gone]) => now[i] = anchors[was]
<1> DEFINE named == Extracted(p)
           headings == HeadingsOf(Document("spam", Extracted(p)))
           left == RemoveAt(headings, gone)
<1>1. headings = [i \in DOMAIN named |-> named[i].heading]
  BY DEF HeadingsOf, Document
<1>2. Len(named) \in Nat /\ DOMAIN named = 1 .. Len(named)
  BY ExtractedHaveTexts
<1>3. \A i, j \in DOMAIN named : AnchorOf(headings, i) = AnchorOf(headings, j) => i = j
  <2>1. Unambiguous(Document("new", named))
    BY PagesAssumption DEF FetchRefusal
  <2>2. Document("new", named).clauses =
          [i \in DOMAIN named |-> [anchor |-> AnchorIdsFor(headings)[i],
                                   heading |-> headings[i], text |-> named[i].text]]
    BY <1>1 DEF Document
  <2>3. \A i \in DOMAIN named : AnchorIdsFor(headings)[i] = AnchorOf(headings, i)
    BY <1>1 DEF AnchorIdsFor
  <2> HIDE DEF named, headings
  <2>4. \A i \in DOMAIN named : Document("new", named).clauses[i].anchor = AnchorOf(headings, i)
    BY <2>2, <2>3
  <2>5. DOMAIN Document("new", named).clauses = DOMAIN named
    BY <2>2
  <2> QED BY <2>1, <2>4, <2>5 DEF Unambiguous, IsInjective
<1> DEFINE S == Range(headings)
<1>4. headings \in Seq(S) /\ Len(headings) = Len(named) /\ DOMAIN headings = DOMAIN named
  <2> HIDE DEF headings, named
  <2>1. headings \in [1 .. Len(named) -> S]
    BY <1>1, <1>2 DEF Range
  <2> QED BY <1>2, <2>1
<1> HIDE DEF named, headings, S
<1>5. gone \in 1 .. Len(headings) /\ Len(headings) \in Nat
  BY <1>2, <1>4 DEF headings
<1>6. DOMAIN left = 1 .. Len(headings) - 1
  BY <1>4, <1>5, RemovedIsShifted
<1>7. ASSUME NEW i \in DOMAIN left
      PROVE  LET was == IF i < gone THEN i ELSE i + 1
             IN /\ AnchorOf(headings, was) # AnchorOf(headings, gone)
                /\ Slug(left[i]) # Slug(headings[gone]) => AnchorOf(left, i) = AnchorOf(headings, was)
                /\ was \in DOMAIN headings
  <2> DEFINE was == IF i < gone THEN i ELSE i + 1
  <2>1. was \in 1 .. Len(headings) /\ was # gone /\ i \in 1 .. Len(headings) - 1
    BY <1>5, <1>6
  <2>2. AnchorOf(headings, was) # AnchorOf(headings, gone)
    <3> HIDE DEF was
    <3> QED BY <1>2, <1>3, <1>4, <1>5, <2>1
  <2>3. ASSUME Slug(left[i]) # Slug(headings[gone])
        PROVE  AnchorOf(left, i) = AnchorOf(headings, was)
    BY <1>4, <1>5, <2>1, <2>3, WithdrawnMovesNoOther
  <2> QED BY <1>2, <1>4, <2>1, <2>2, <2>3
<1>8. /\ \A i \in DOMAIN headings : AnchorIdsFor(headings)[i] = AnchorOf(headings, i)
      /\ \A i \in DOMAIN left : AnchorIdsFor(left)[i] = AnchorOf(left, i)
      /\ gone \in DOMAIN headings
  BY <1>2, <1>4, <1>5 DEF AnchorIdsFor
<1>9. \A i \in DOMAIN left :
        LET was == IF i < gone THEN i ELSE i + 1
        IN /\ AnchorIdsFor(headings)[was] # AnchorIdsFor(headings)[gone]
           /\ Slug(left[i]) # Slug(headings[gone]) => AnchorIdsFor(left)[i] = AnchorIdsFor(headings)[was]
  BY <1>7, <1>8
<1> QED BY <1>9 DEF headings

\* Of every document made of a page a clause with a word of a callout has no
\* others, however divs, headings and ignored elements are nested in the page.
THEOREM CalloutsAreAlone == CaseSpec => []CalloutsStandAlone
<1>1. CaseInv => CalloutsStandAlone
  <2> SUFFICES ASSUME CaseInv, NEW doc \in fresh, NEW clause \in Range(doc.clauses),
                      Range(clause.text) \cap Boxed # {}
               PROVE  Range(clause.text) \subseteq Boxed
    BY DEF CalloutsStandAlone
  <2>1. PICK p \in Pages : FetchRefusal(p) = "none" /\ doc = Document("spam", Extracted(p))
    BY DEF CaseInv, CorpusInv
  <2>2. PICK text : text = clause.text
    OBVIOUS
  <2>3. text \in TextsOf(p)
    BY <2>1, <2>2, ClausesHaveTexts
  <2>4. CASE text \in Seq(WordsOf(p) \cap Boxed)
    <3>1. Range(text) \subseteq WordsOf(p) \cap Boxed
      BY <2>4 DEF Range
    <3> QED BY <2>2, <3>1
  <2>5. CASE text \in Seq(WordsOf(p) \ Boxed)
    <3>1. Range(text) \subseteq WordsOf(p) \ Boxed
      BY <2>5 DEF Range
    <3> QED BY <2>2, <3>1
  <2> QED BY <2>3, <2>4, <2>5 DEF TextsOf
<1> QED BY CaseInvariant, <1>1, PTL

\* Of every document made of a page an anchor names one clause, and a clause
\* added or withdrawn moves no anchor but those of its own slug.
THEOREM AnchorsStay == CaseSpec => []AnchorsAreStable
<1>1. CaseInv => AnchorsAreStable
  <2> SUFFICES ASSUME CaseInv, NEW doc \in fresh, NEW gone \in DOMAIN HeadingsOf(doc)
               PROVE  LET headings == HeadingsOf(doc)
                          anchors == AnchorIdsFor(headings)
                          left == RemoveAt(headings, gone)
                          now == AnchorIdsFor(left)
                      IN \A i \in DOMAIN left :
                            LET was == IF i < gone THEN i ELSE i + 1
                            IN /\ anchors[was] # anchors[gone]
                               /\ Slug(left[i]) # Slug(headings[gone]) => now[i] = anchors[was]
    BY DEF AnchorsAreStable
  <2>1. PICK p \in Pages : FetchRefusal(p) = "none" /\ doc = Document("spam", Extracted(p))
    BY DEF CaseInv, CorpusInv
  <2> QED BY <2>1, MadeIsStable
<1> QED BY CaseInvariant, <1>1, PTL

(***************************************************************************)
(* What is sent of a text.                                                 *)
(***************************************************************************)

\* The order of signals, as a relation.
Preceding(found) == {p \in found \X found : Precedes(p[1], p[2])}

\* The signals of one text are sorted by where they begin.
LEMMA SignalsAreSorted ==
    ASSUME NEW record, NEW found, found \subseteq SignalsIn(record), IsFiniteSet(found)
    PROVE  /\ Cardinality(found) \in Nat
           /\ InOrder(found) \in [1 .. Cardinality(found) -> found]
           /\ \A s \in found : \E r \in 1 .. Cardinality(found) : InOrder(found)[r] = s
           /\ \A q, r \in 1 .. Cardinality(found) :
                 q < r => InOrder(found)[q].offset <= InOrder(found)[r].offset
<1> DEFINE before == Preceding(found)
<1>1. \A a, b \in found : <<a, b>> \in before <=> Precedes(a, b)
  BY DEF Preceding
<1>2. \A s \in found : /\ s \in [record : {record.id}, pattern : Nat, offset : Nat, length : Nat \ {0}]
  BY DEF SignalsIn
<1>3. ASSUME NEW a \in found PROVE ~ Precedes(a, a)
  <2>1. a.pattern \in Nat /\ a.offset \in Nat /\ a.length \in Nat
    BY <1>2
  <2> QED BY <2>1 DEF Precedes, Earlier
<1>4. ASSUME NEW a \in found, NEW b \in found, a # b PROVE Precedes(a, b) \/ Precedes(b, a)
  <2>1. /\ a.pattern \in Nat /\ a.offset \in Nat /\ a.length \in Nat
        /\ b.pattern \in Nat /\ b.offset \in Nat /\ b.length \in Nat
    BY <1>2
  <2>2. a.pattern # b.pattern \/ a.offset # b.offset \/ a.length # b.length
    BY <1>2, <1>4
  <2> QED BY <2>1, <2>2 DEF Precedes, Earlier
<1>5. ASSUME NEW a \in found, NEW b \in found, NEW c \in found, Precedes(a, b), Precedes(b, c)
      PROVE  Precedes(a, c)
  <2>1. /\ a.pattern \in Nat /\ a.offset \in Nat /\ a.length \in Nat
        /\ b.pattern \in Nat /\ b.offset \in Nat /\ b.length \in Nat
        /\ c.pattern \in Nat /\ c.offset \in Nat /\ c.length \in Nat
    BY <1>2
  <2> QED BY <1>5, <2>1 DEF Precedes, Earlier
<1>6. ASSUME NEW a \in found, NEW b \in found, Precedes(a, b) PROVE a.offset <= b.offset
  <2>1. a.offset \in Nat /\ b.offset \in Nat
    BY <1>2
  <2> QED BY <1>6, <2>1 DEF Precedes, Earlier
<1> HIDE DEF before
<1>7. /\ \A a \in found : <<a, a>> \notin before
      /\ \A a, b \in found : a # b => <<a, b>> \in before \/ <<b, a>> \in before
      /\ \A a, b, c \in found : <<a, b>> \in before /\ <<b, c>> \in before => <<a, c>> \in before
  BY <1>1, <1>3, <1>4, <1>5
<1>8. /\ Cardinality(found) \in Nat
      /\ Ranked(found, before) \in [1 .. Cardinality(found) -> found]
      /\ \A s \in found : \E r \in 1 .. Cardinality(found) : Ranked(found, before)[r] = s
      /\ \A q, r \in 1 .. Cardinality(found) :
            q < r => <<Ranked(found, before)[q], Ranked(found, before)[r]>> \in before
  BY <1>7, RankedIsSorted
<1>9. InOrder(found) = Ranked(found, before)
  BY DEF InOrder, before, Preceding
<1>10. ASSUME NEW q \in 1 .. Cardinality(found), NEW r \in 1 .. Cardinality(found), q < r
       PROVE  InOrder(found)[q].offset <= InOrder(found)[r].offset
  <2>1. InOrder(found)[q] \in found /\ InOrder(found)[r] \in found
    BY <1>8, <1>9
  <2>2. Precedes(InOrder(found)[q], InOrder(found)[r])
    BY <1>1, <1>8, <1>9, <1>10, <2>1
  <2> QED BY <1>6, <2>1, <2>2
<1> QED BY <1>8, <1>9, <1>10

\* Spans that neither touch nor overlap, in order; what some spans cover; and
\* spans that begin no later than a signal.
Apart(spans) == \A i, j \in DOMAIN spans : i < j => EndOf(spans[i]) < spans[j].offset
Under(spans) == UNION {Covered(spans[i]) : i \in DOMAIN spans}
BeginBefore(spans, s) == \A i \in DOMAIN spans : spans[i].offset <= s.offset

\* A match that begins no earlier than the spans before it leaves them apart
\* and covers its own positions as well, inside the text.
LEMMA MergeCoversBoth ==
    ASSUME NEW record, record.length \in Nat, NEW spans \in Seq(SignalsIn(record)), Apart(spans),
           NEW s \in SignalsIn(record), BeginBefore(spans, s)
    PROVE  /\ Merge(spans, s) \in Seq(SignalsIn(record))
           /\ Apart(Merge(spans, s))
           /\ Under(Merge(spans, s)) = Under(spans) \cup Covered(s)
           /\ BeginBefore(Merge(spans, s), s)
<1> DEFINE S == SignalsIn(record)
           m == Len(spans)
<1>1. m \in Nat /\ DOMAIN spans = 1 .. m /\ \A i \in 1 .. m : spans[i] \in S
  OBVIOUS
<1>2. \A t \in S : /\ t.offset \in Nat /\ t.length \in Nat /\ EndOf(t) \in Nat
                   /\ t.offset < EndOf(t) /\ EndOf(t) <= record.length
  BY DEF SignalsIn, EndOf
<1> HIDE DEF m
<1>3. CASE spans # <<>> /\ s.offset <= EndOf(spans[m])
  <2> DEFINE last == spans[m]
             both == Extend(last, s)
             merged == [spans EXCEPT ![m] = both]
  <2>1. m \in 1 .. m /\ last \in S
    <3>1. m # 0
      BY <1>3 DEF m
    <3> QED BY <1>1, <3>1
  <2>2. both \in S /\ both.offset = last.offset
        /\ EndOf(both) = Max({EndOf(last), EndOf(s)})
        /\ (EndOf(both) = EndOf(last) \/ EndOf(both) = EndOf(s))
        /\ EndOf(last) <= EndOf(both) /\ EndOf(s) <= EndOf(both)
    <3>1. PICK most : most = Max({EndOf(last), EndOf(s)})
      OBVIOUS
    <3>2. (most = EndOf(last) \/ most = EndOf(s)) /\ EndOf(last) <= most /\ EndOf(s) <= most
      <4>1. EndOf(last) \in Nat /\ EndOf(s) \in Nat
        BY <1>2, <2>1
      <4> QED BY <3>1, <4>1 DEF Max
    <3>3. both = [last EXCEPT !.length = most - last.offset]
      BY <3>1 DEF Extend
    <3>4. most - last.offset \in Nat \ {0} /\ last.offset + (most - last.offset) = most /\ most <= record.length
      BY <1>2, <2>1, <3>2, SMTT(30)
    <3>5. last \in [record : {record.id}, pattern : Nat, offset : Nat, length : Nat \ {0}]
      BY <2>1 DEF SignalsIn
    <3>6. both.offset = last.offset /\ both.length = most - last.offset
          /\ both \in [record : {record.id}, pattern : Nat, offset : Nat, length : Nat \ {0}]
      BY <3>3, <3>4, <3>5
    <3> HIDE DEF both, last
    <3>7. EndOf(both) = most
      BY <3>4, <3>6 DEF EndOf
    <3>8. both \in S
      BY <3>4, <3>6, <3>7 DEF SignalsIn
    <3> QED BY <3>1, <3>2, <3>6, <3>7, <3>8
  <2> HIDE DEF both
  <2>3. Merge(spans, s) = merged
    BY <1>3 DEF Merge, m, both
  <2>4. /\ merged \in Seq(S) /\ DOMAIN merged = 1 .. m /\ merged[m] = both
        /\ \A i \in 1 .. m : i # m => merged[i] = spans[i]
    BY <1>1, <2>1, <2>2 DEF m
  <2> HIDE DEF merged
  <2>5. last.offset <= s.offset
    BY <1>1, <2>1 DEF BeginBefore
  <2>6. Covered(both) = Covered(last) \cup Covered(s)
    <3>1. /\ last.offset \in Nat /\ s.offset \in Nat /\ both.offset \in Nat
          /\ EndOf(last) \in Nat /\ EndOf(s) \in Nat /\ EndOf(both) \in Nat
      BY <1>2, <2>1, <2>2
    <3>2. s.offset <= EndOf(last)
      BY <1>3
    <3> HIDE DEF last
    <3> QED BY <2>2, <2>5, <3>1, <3>2 DEF Covered
  <2>7. Apart(merged)
    <3> SUFFICES ASSUME NEW i \in 1 .. m, NEW j \in 1 .. m, i < j
                 PROVE  EndOf(merged[i]) < merged[j].offset
      BY <2>4 DEF Apart
    <3>1. i # m
      BY <1>1
    <3>2. EndOf(spans[i]) < spans[j].offset
      BY <1>1 DEF Apart
    <3>3. merged[j].offset = spans[j].offset
      BY <2>2, <2>4
    <3> QED BY <2>4, <3>1, <3>2, <3>3
  <2>8. Under(merged) = Under(spans) \cup Covered(s)
    <3>1. Under(merged) = UNION {Covered(merged[i]) : i \in 1 .. m}
      BY <2>4 DEF Under
    <3>2. Under(spans) = UNION {Covered(spans[i]) : i \in 1 .. m}
      BY <1>1 DEF Under
    <3>3. \A i \in 1 .. m : Covered(merged[i]) = IF i = m THEN Covered(last) \cup Covered(s) ELSE Covered(spans[i])
      BY <2>4, <2>6
    <3> QED BY <2>1, <3>1, <3>2, <3>3
  <2>9. BeginBefore(merged, s)
    <3>1. \A i \in 1 .. m : spans[i].offset <= s.offset /\ merged[i].offset = spans[i].offset
      BY <1>1, <2>2, <2>4 DEF BeginBefore
    <3> QED BY <2>4, <3>1 DEF BeginBefore
  <2> QED BY <2>3, <2>4, <2>7, <2>8, <2>9
<1>4. CASE ~ (spans # <<>> /\ s.offset <= EndOf(spans[m]))
  <2> DEFINE merged == Append(spans, s)
  <2>1. Merge(spans, s) = merged
    BY <1>4 DEF Merge, m
  <2>2. /\ merged \in Seq(S) /\ DOMAIN merged = 1 .. m + 1 /\ merged[m + 1] = s
        /\ \A i \in 1 .. m : merged[i] = spans[i]
    BY <1>1 DEF m
  <2> HIDE DEF merged
  <2>3. \A i \in 1 .. m : EndOf(spans[i]) < s.offset
    <3> SUFFICES ASSUME NEW i \in 1 .. m PROVE EndOf(spans[i]) < s.offset
      OBVIOUS
    <3>1. m \in 1 .. m /\ spans # <<>>
      BY <1>1
    <3>2. EndOf(spans[m]) < s.offset
      BY <1>1, <1>2, <1>4, <3>1
    <3>3. i = m \/ EndOf(spans[i]) < spans[m].offset
      BY <1>1, <3>1 DEF Apart
    <3>4. /\ EndOf(spans[i]) \in Nat /\ spans[m].offset \in Nat /\ EndOf(spans[m]) \in Nat
          /\ spans[m].offset < EndOf(spans[m]) /\ s.offset \in Nat
      BY <1>1, <1>2, <3>1
    <3> QED BY <3>2, <3>3, <3>4
  <2>4. \A i \in 1 .. m + 1 : i \in 1 .. m \/ i = m + 1
    BY <1>1
  <2>5. Apart(merged)
    <3> SUFFICES ASSUME NEW i \in 1 .. m + 1, NEW j \in 1 .. m + 1, i < j
                 PROVE  EndOf(merged[i]) < merged[j].offset
      BY <2>2 DEF Apart
    <3>1. i \in 1 .. m
      BY <1>1
    <3>2. CASE j = m + 1
      BY <2>2, <2>3, <3>1, <3>2
    <3>3. CASE j \in 1 .. m
      BY <1>1, <2>2, <3>1, <3>3 DEF Apart
    <3> QED BY <2>4, <3>2, <3>3
  <2>6. Under(merged) = Under(spans) \cup Covered(s)
    <3>1. Under(merged) = UNION {Covered(merged[i]) : i \in 1 .. m + 1}
      BY <2>2 DEF Under
    <3>2. Under(spans) = UNION {Covered(spans[i]) : i \in 1 .. m}
      BY <1>1 DEF Under
    <3>3. m + 1 \in 1 .. m + 1 /\ \A i \in 1 .. m : i \in 1 .. m + 1
      BY <1>1
    <3> QED BY <2>2, <2>4, <3>1, <3>2, <3>3
  <2>7. BeginBefore(merged, s)
    <3>1. \A i \in 1 .. m : spans[i].offset <= s.offset
      BY <1>1 DEF BeginBefore
    <3>2. s.offset <= s.offset
      BY <1>2
    <3> QED BY <2>2, <2>4, <3>1, <3>2 DEF BeginBefore
  <2> QED BY <2>1, <2>2, <2>5, <2>6, <2>7
<1> QED BY <1>3, <1>4

\* Spans apart in a text, and what the first so many of a sequence cover.
SpansIn(record) == {spans \in Seq(SignalsIn(record)) : Apart(spans)}
UpTo(ordered, n) == UNION {Covered(ordered[k]) : k \in 1 .. n}

\* Merged is defined by its recursion: Merge stays in the sequences of spans.
LEMMA MergedFollows ==
    ASSUME NEW record, record.length \in Nat, NEW ordered \in Seq(SignalsIn(record))
    PROVE  \A i \in 0 .. Len(ordered) :
              Merged(ordered)[i] = IF i = 0 THEN <<>> ELSE Merge(Merged(ordered)[i - 1], ordered[i])
<1> DEFINE S == SignalsIn(record)
           States == Seq(S)
           step == [x \in States \X (1 .. Len(ordered)) |-> Merge(x[1], ordered[x[2]])]
           Follows(f) == f = [n \in 0 .. Len(ordered) |-> IF n = 0 THEN <<>> ELSE Merge(f[n - 1], ordered[n])]
<1>1. PICK n \in Nat : n = Len(ordered) /\ \A i \in 1 .. n : ordered[i] \in S
  OBVIOUS
<1>2. <<>> \in States
  OBVIOUS
<1>3. \A spans \in States : \A i \in 1 .. n : Merge(spans, ordered[i]) \in States
  <2> SUFFICES ASSUME NEW spans \in States, NEW s \in S PROVE Merge(spans, s) \in States
    BY <1>1
  <2>1. ASSUME spans # <<>> PROVE Extend(spans[Len(spans)], s) \in S
    <3> DEFINE last == spans[Len(spans)]
               most == Max({EndOf(last), EndOf(s)})
    <3>1. last \in S
      BY <2>1
    <3>2. /\ last.offset \in Nat /\ EndOf(last) \in Nat /\ EndOf(s) \in Nat /\ last.offset < EndOf(last)
          /\ EndOf(last) <= record.length /\ EndOf(s) <= record.length
      <4>1. \A t \in S : /\ t.offset \in Nat /\ EndOf(t) \in Nat /\ t.offset < EndOf(t)
                         /\ EndOf(t) <= record.length
        BY DEF SignalsIn, EndOf
      <4> HIDE DEF last, S
      <4> QED BY <3>1, <4>1
    <3>3. most \in Nat /\ most <= record.length /\ EndOf(last) <= most
      BY <3>2 DEF Max
    <3>4. Extend(last, s) = [last EXCEPT !.length = most - last.offset]
      BY DEF Extend
    <3> HIDE DEF last, most
    <3>5. most - last.offset \in Nat \ {0} /\ last.offset + (most - last.offset) = most
      BY <3>2, <3>3
    <3>6. /\ Extend(last, s) \in [record : {record.id}, pattern : Nat, offset : Nat, length : Nat \ {0}]
          /\ EndOf(Extend(last, s)) = most
      BY <3>1, <3>4, <3>5 DEF SignalsIn, EndOf
    <3> QED BY <3>3, <3>6 DEF SignalsIn, last
  <2> HIDE DEF S
  <2> QED BY <2>1 DEF Merge
<1> HIDE DEF States, S
<1>4. step \in Steps(States, n)
  BY <1>1, <1>3 DEF Steps
<1>5. \A spans \in States : \A i \in 1 .. n : step[<<spans, i>>] = Merge(spans, ordered[i])
  BY <1>1
<1> HIDE DEF step
<1>6. PICK f \in [0 .. n -> States] :
        f[0] = <<>> /\ \A i \in 1 .. n : f[i] = step[<<f[i - 1], i>>]
  <2>1. Repeated(States, <<>>, n, step) # {}
    BY <1>2, <1>4, Recursion
  <2> QED BY <2>1 DEF Repeated
<1>7. Follows(f)
  <2>1. ASSUME NEW i \in 0 .. n PROVE f[i] = IF i = 0 THEN <<>> ELSE Merge(f[i - 1], ordered[i])
    <3>1. CASE i = 0
      BY <1>6, <3>1
    <3>2. CASE i # 0
      <4>1. i \in 1 .. n /\ i - 1 \in 0 .. n
        BY <3>2
      <4>2. f[i] = step[<<f[i - 1], i>>] /\ f[i - 1] \in States
        BY <1>6, <4>1
      <4> QED BY <1>5, <3>2, <4>1, <4>2
    <3> QED BY <3>1, <3>2
  <2> QED BY <1>1, <1>6, <2>1
<1>8. Merged(ordered) = CHOOSE g : Follows(g)
  BY DEF Merged
<1> DEFINE g == Merged(ordered)
<1>9. Follows(g)
  <2> HIDE DEF Follows
  <2> QED BY <1>7, <1>8
<1> HIDE DEF g
<1>10. \A i \in 0 .. n : g[i] = IF i = 0 THEN <<>> ELSE Merge(g[i - 1], ordered[i])
  BY <1>1, <1>9
<1> QED BY <1>1, <1>10 DEF g

\* What the signals of a text are merged into lies apart inside the text, and
\* covers what they cover.
LEMMA SpansCoverTheSignals ==
    ASSUME NEW record, record.length \in Nat,
           NEW found, found \subseteq SignalsIn(record), IsFiniteSet(found)
    PROVE  /\ MergeSpans(found) \in SpansIn(record)
           /\ Under(MergeSpans(found)) = UNION {Covered(s) : s \in found}
<1> DEFINE ordered == InOrder(found)
           S == SignalsIn(record)
           n == Cardinality(found)
           g == Merged(ordered)
<1>1. /\ n \in Nat /\ ordered \in [1 .. n -> found]
      /\ \A s \in found : \E r \in 1 .. n : ordered[r] = s
      /\ \A q, r \in 1 .. n : q < r => ordered[q].offset <= ordered[r].offset
  BY SignalsAreSorted
<1> HIDE DEF n, ordered, S
<1>2. ordered \in Seq(S) /\ Len(ordered) = n /\ \A i \in 1 .. n : ordered[i] \in S
  BY <1>1 DEF S
<1>3. \A i \in 0 .. n : g[i] = IF i = 0 THEN <<>> ELSE Merge(g[i - 1], ordered[i])
  BY <1>2, MergedFollows DEF S
<1> HIDE DEF g
<1> DEFINE Good(i) == /\ g[i] \in Seq(S) /\ Apart(g[i]) /\ Under(g[i]) = UpTo(ordered, i)
                      /\ \A k \in i + 1 .. n : BeginBefore(g[i], ordered[k])
           Bad == {i \in 0 .. n : ~ Good(i)}
<1>4. Bad = {}
  <2> SUFFICES ASSUME Bad # {} PROVE FALSE
    OBVIOUS
  <2>1. Bad \subseteq Nat
    OBVIOUS
  <2>2. PICK m \in Bad : \A k \in Bad : m <= k
    <3> HIDE DEF Bad
    <3> QED BY <2>1, LeastOf
  <2>3. m \in 0 .. n /\ ~ Good(m)
    OBVIOUS
  <2>4. CASE m = 0
    <3>1. g[0] = <<>>
      BY <1>1, <1>3
    <3>2. <<>> \in Seq(S) /\ DOMAIN <<>> = {}
      OBVIOUS
    <3>3. Apart(<<>>) /\ Under(<<>>) = {} /\ \A s : BeginBefore(<<>>, s)
      BY <3>2 DEF Apart, Under, BeginBefore
    <3>4. UpTo(ordered, 0) = {}
      BY DEF UpTo
    <3>5. Good(0)
      BY <3>1, <3>2, <3>3, <3>4
    <3> HIDE DEF Good
    <3> QED BY <2>3, <2>4, <3>5
  <2>5. CASE m # 0
    <3>1. m \in 1 .. n /\ m - 1 \in 0 .. n /\ ~ (m <= m - 1) /\ m \in (m - 1) + 1 .. n
      <4>1. m \in 0 .. n
        BY <2>3
      <4> HIDE DEF Bad
      <4> QED BY <1>1, <2>5, <4>1
    <3>2. Good(m - 1)
      <4> HIDE DEF Good
      <4>1. m - 1 \notin Bad
        BY <2>2, <3>1
      <4> QED BY <3>1, <4>1
    <3> DEFINE spans == g[m - 1]
               s == ordered[m]
    <3>3. /\ spans \in Seq(S) /\ Apart(spans) /\ Under(spans) = UpTo(ordered, m - 1)
          /\ BeginBefore(spans, s) /\ s \in S
      BY <1>2, <3>1, <3>2
    <3>4. g[m] = Merge(spans, s)
      BY <1>3, <2>3, <2>5
    <3> HIDE DEF spans, s
    <3>5. /\ g[m] \in Seq(S) /\ Apart(g[m]) /\ Under(g[m]) = Under(spans) \cup Covered(s)
          /\ BeginBefore(g[m], s)
      BY <3>3, <3>4, MergeCoversBoth DEF S
    <3>6. UpTo(ordered, m) = UpTo(ordered, m - 1) \cup Covered(s)
      <4>1. \A k \in 1 .. m : k \in 1 .. m - 1 \/ k = m
        BY <3>1
      <4>2. m \in 1 .. m /\ \A k \in 1 .. m - 1 : k \in 1 .. m
        BY <3>1
      <4> QED BY <4>1, <4>2 DEF UpTo, s
    <3>7. \A k \in m + 1 .. n : BeginBefore(g[m], ordered[k])
      <4> SUFFICES ASSUME NEW k \in m + 1 .. n, NEW i \in DOMAIN g[m]
                   PROVE  g[m][i].offset <= ordered[k].offset
        BY DEF BeginBefore
      <4>1. k \in 1 .. n /\ m < k
        BY <1>1, <3>1
      <4>2. s.offset <= ordered[k].offset
        BY <1>1, <3>1, <4>1 DEF s
      <4>3. g[m][i].offset <= s.offset
        BY <3>5 DEF BeginBefore
      <4>4. g[m][i] \in S /\ ordered[k] \in S
        BY <1>2, <3>5, <4>1
      <4>5. g[m][i].offset \in Nat /\ ordered[k].offset \in Nat /\ s.offset \in Nat
        BY <3>3, <4>4 DEF S, SignalsIn
      <4> QED BY <4>2, <4>3, <4>5
    <3>8. Good(m)
      BY <3>3, <3>5, <3>6, <3>7
    <3> HIDE DEF Good
    <3> QED BY <2>3, <3>8
  <2> QED BY <2>4, <2>5
<1>5. n \in 0 .. n
  BY <1>1
<1>6. g[n] \in Seq(S) /\ Apart(g[n]) /\ Under(g[n]) = UpTo(ordered, n)
  BY <1>4, <1>5
<1>7. MergeSpans(found) = g[n]
  BY <1>2 DEF MergeSpans, g, ordered
<1>8. UpTo(ordered, n) = UNION {Covered(s) : s \in found}
  <2>1. \A i \in 1 .. n : ordered[i] \in found
    BY <1>1
  <2> QED BY <1>1, <2>1 DEF UpTo
<1> QED BY <1>6, <1>7, <1>8 DEF SpansIn, S

\* Cuts of 1 .. length in order: what lies between each and the next.
Cuts(N, length) ==
    {cut \in [0 .. N -> 0 .. length] :
        cut[0] = 0 /\ cut[N] = length /\ \A a, b \in 0 .. N : a <= b => cut[a] <= cut[b]}
Between(cut, n) == cut[n - 1] + 1 .. cut[n]

\* They part it, in order.
LEMMA CutsPart ==
    ASSUME NEW N \in Nat, N # 0, NEW length \in Nat, NEW cut \in Cuts(N, length)
    PROVE  /\ UNION {Between(cut, n) : n \in 1 .. N} = 1 .. length
           /\ \A k, j \in 1 .. N : k < j =>
                 \A x \in Between(cut, k) : \A y \in Between(cut, j) : x < y
<1>1. /\ cut \in [0 .. N -> 0 .. length] /\ cut[0] = 0 /\ cut[N] = length
      /\ \A a, b \in 0 .. N : a <= b => cut[a] <= cut[b]
  BY DEF Cuts
<1>2. ASSUME NEW x \in 1 .. length PROVE \E n \in 1 .. N : x \in Between(cut, n)
  <2> DEFINE After == {n \in 0 .. N : x <= cut[n]}
  <2>1. After \subseteq Nat /\ After # {}
    <3>1. N \in After
      BY <1>1
    <3> QED BY <3>1
  <2>2. PICK n \in After : \A k \in After : n <= k
    <3> HIDE DEF After
    <3> QED BY <2>1, LeastOf
  <2>3. n \in 0 .. N /\ x <= cut[n] /\ n # 0
    BY <1>1
  <2>4. n \in 1 .. N /\ n - 1 \in 0 .. N /\ ~ (n <= n - 1)
    BY <2>3
  <2>5. ~ (x <= cut[n - 1])
    BY <2>2, <2>4
  <2>6. cut[n - 1] \in Nat /\ cut[n] \in Nat
    BY <1>1, <2>3, <2>4
  <2>7. x \in Between(cut, n)
    <3> HIDE DEF After
    <3> QED BY <2>3, <2>5, <2>6 DEF Between
  <2> QED BY <2>4, <2>7
<1>3. ASSUME NEW n \in 1 .. N PROVE Between(cut, n) \subseteq 1 .. length
  <2>1. n - 1 \in 0 .. N /\ n \in 0 .. N
    OBVIOUS
  <2>2. cut[n - 1] \in 0 .. length /\ cut[n] \in 0 .. length
    BY <1>1, <2>1
  <2> QED BY <2>2 DEF Between
<1>4. ASSUME NEW k \in 1 .. N, NEW j \in 1 .. N, k < j,
             NEW x \in Between(cut, k), NEW y \in Between(cut, j)
      PROVE  x < y
  <2>1. k \in 0 .. N /\ j - 1 \in 0 .. N /\ k <= j - 1 /\ j \in 0 .. N /\ k - 1 \in 0 .. N
    BY <1>4
  <2>2. /\ cut[k] \in Nat /\ cut[j - 1] \in Nat /\ cut[j] \in Nat /\ cut[k - 1] \in Nat
        /\ cut[k] <= cut[j - 1]
    BY <1>1, <2>1
  <2>3. x \in Nat /\ x <= cut[k] /\ y \in Nat /\ cut[j - 1] < y
    BY <2>2 DEF Between
  <2> QED BY <2>2, <2>3
<1> QED BY <1>2, <1>3, <1>4

\* The pieces made of spans apart in a text are the text, in order: its parts
\* outside the spans, and a marker in place of each span.
LEMMA PiecesAreExact ==
    ASSUME NEW record, record.length \in Nat, NEW spans \in SpansIn(record),
           NEW text, text = Pieces(record.length, spans)
    PROVE  ExactlyMarked(text, record.length, Under(spans))
<1> DEFINE length == record.length
           S == SignalsIn(record)
           until == [i \in 0 .. Len(spans) |-> IF i = 0 THEN 0 ELSE EndOf(spans[i])]
           from == [i \in 1 .. Len(spans) + 1 |-> IF i > Len(spans) THEN length ELSE spans[i].offset]
<1>1. PICK m \in Nat : m = Len(spans) /\ DOMAIN spans = 1 .. m /\ \A i \in 1 .. m : spans[i] \in S
  BY DEF SpansIn
<1>2. \A i \in 1 .. m : /\ spans[i].offset \in Nat /\ EndOf(spans[i]) \in Nat
                        /\ spans[i].offset <= EndOf(spans[i]) /\ EndOf(spans[i]) <= length
  <2>1. \A t \in S : /\ t.offset \in Nat /\ EndOf(t) \in Nat
                     /\ t.offset <= EndOf(t) /\ EndOf(t) <= length
    BY DEF SignalsIn, EndOf
  <2> HIDE DEF S, length
  <2> QED BY <1>1, <2>1
<1>3. \A i, j \in 1 .. m : i < j => EndOf(spans[i]) < spans[j].offset
  BY <1>1 DEF SpansIn, Apart
<1>4. /\ until[0] = 0 /\ from[m + 1] = length
      /\ \A i \in 1 .. m : until[i] = EndOf(spans[i]) /\ from[i] = spans[i].offset
  <2> HIDE DEF length
  <2>1. 0 \in 0 .. Len(spans) /\ m + 1 \in 1 .. Len(spans) + 1 /\ m + 1 > Len(spans)
    BY <1>1
  <2>2. \A i \in 1 .. m : i \in 0 .. Len(spans) /\ i # 0 /\ i \in 1 .. Len(spans) + 1 /\ ~ (i > Len(spans))
    BY <1>1
  <2> QED BY <2>1, <2>2
<1>5. length \in Nat
  OBVIOUS
<1> DEFINE N == 2 * m + 1
           cut == [n \in 0 .. N |-> IF n % 2 = 0 THEN until[n \div 2] ELSE from[(n \div 2) + 1]]
<1>6. \A n \in 1 .. N : text[n] = IF n % 2 = 0 THEN Marker(spans[n \div 2])
                                  ELSE Text(until[n \div 2], from[(n \div 2) + 1])
  <2> SUFFICES ASSUME NEW n \in 1 .. N
               PROVE  text[n] = IF n % 2 = 0 THEN Marker(spans[n \div 2])
                                ELSE Text(until[n \div 2], from[(n \div 2) + 1])
    OBVIOUS
  <2> DEFINE i == n \div 2
  <2>1. i \in 0 .. Len(spans) /\ i + 1 \in 1 .. Len(spans) + 1
    BY <1>1
  <2> HIDE DEF i
  <2>2. /\ until[i] = IF i = 0 THEN 0 ELSE EndOf(spans[i])
        /\ from[i + 1] = IF i + 1 > Len(spans) THEN length ELSE spans[i + 1].offset
    BY <2>1
  <2> HIDE DEF until, from
  <2> QED BY <1>1, <2>2 DEF Pieces, i
<1>7. DOMAIN text = 1 .. N
  BY <1>1 DEF Pieces
<1> HIDE DEF length, until, from
<1>8. \A n \in 0 .. N : \E i \in 0 .. m : n = 2 * i \/ n = 2 * i + 1
  <2> SUFFICES ASSUME NEW n \in 0 .. N PROVE \E i \in 0 .. m : n = 2 * i \/ n = 2 * i + 1
    OBVIOUS
  <2> DEFINE i == n \div 2
  <2>1. i \in 0 .. m /\ (n = 2 * i \/ n = 2 * i + 1)
    BY <1>1
  <2> QED BY <2>1
<1>9. \A n \in 1 .. N : \E i \in 0 .. m : n = 2 * i \/ n = 2 * i + 1
  <2>1. 1 .. N \subseteq 0 .. N
    OBVIOUS
  <2> HIDE DEF N
  <2> QED BY <1>8, <2>1
<1>10. \A i \in 0 .. m : /\ 2 * i \in 0 .. N /\ (2 * i) % 2 = 0 /\ (2 * i) \div 2 = i
                        /\ 2 * i + 1 \in 1 .. N /\ (2 * i + 1) % 2 = 1 /\ (2 * i + 1) \div 2 = i
  BY <1>1
<1>11. \A i \in 0 .. m : cut[2 * i] = until[i] /\ cut[2 * i + 1] = from[i + 1]
  BY <1>1, <1>10
<1>12. cut \in Cuts(N, length)
  <2>1. \A i \in 0 .. m : /\ until[i] \in 0 .. length /\ from[i + 1] \in 0 .. length
                          /\ until[i] <= from[i + 1]
    <3> SUFFICES ASSUME NEW i \in 0 .. m
                 PROVE  /\ until[i] \in 0 .. length /\ from[i + 1] \in 0 .. length
                        /\ until[i] <= from[i + 1]
      OBVIOUS
    <3>1. (i = 0 \/ i \in 1 .. m) /\ (i + 1 = m + 1 \/ i + 1 \in 1 .. m) /\ i < i + 1
      BY <1>1
    <3>2. until[i] \in 0 .. length
      BY <1>2, <1>4, <1>5, <3>1
    <3>3. CASE i + 1 = m + 1
      BY <1>4, <1>5, <3>2, <3>3
    <3>4. CASE i + 1 \in 1 .. m
      <4>1. from[i + 1] = spans[i + 1].offset /\ spans[i + 1].offset \in Nat
            /\ spans[i + 1].offset <= EndOf(spans[i + 1])
            /\ EndOf(spans[i + 1]) <= length /\ EndOf(spans[i + 1]) \in Nat
        BY <1>2, <1>4, <3>4
      <4>2. i \in 1 .. m => until[i] < from[i + 1]
        BY <1>3, <1>4, <3>1, <3>4
      <4> QED BY <1>4, <1>5, <3>1, <3>2, <4>1, <4>2
    <3> QED BY <3>1, <3>3, <3>4
  <2>2. \A i \in 0 .. m - 1 : from[i + 1] <= until[i + 1]
    <3> SUFFICES ASSUME NEW i \in 0 .. m - 1 PROVE from[i + 1] <= until[i + 1]
      OBVIOUS
    <3>1. i + 1 \in 1 .. m
      BY <1>1
    <3> QED BY <1>2, <1>4, <3>1
  <2>3. ASSUME NEW i \in 0 .. m, NEW j \in 0 .. m, i < j PROVE from[i + 1] <= until[j]
    <3>1. j \in 1 .. m /\ i + 1 \in 1 .. m /\ (i + 1 = j \/ i + 1 < j) /\ i \in 0 .. m - 1
      BY <1>1, <2>3
    <3>2. CASE i + 1 = j
      BY <2>2, <3>1, <3>2
    <3>3. CASE i + 1 < j
      <4>1. EndOf(spans[i + 1]) < spans[j].offset
        BY <1>3, <3>1, <3>3
      <4>2. /\ from[i + 1] = spans[i + 1].offset /\ until[j] = EndOf(spans[j])
            /\ spans[i + 1].offset \in Nat /\ EndOf(spans[i + 1]) \in Nat
            /\ spans[j].offset \in Nat /\ EndOf(spans[j]) \in Nat
            /\ spans[i + 1].offset <= EndOf(spans[i + 1]) /\ spans[j].offset <= EndOf(spans[j])
        BY <1>2, <1>4, <3>1
      <4> QED BY <4>1, <4>2
    <3> QED BY <3>1, <3>2, <3>3
  <2>4. cut \in [0 .. N -> 0 .. length]
    <3> SUFFICES ASSUME NEW n \in 0 .. N PROVE cut[n] \in 0 .. length
      OBVIOUS
    <3>1. PICK i \in 0 .. m : n = 2 * i \/ n = 2 * i + 1
      BY <1>8
    <3> HIDE DEF cut
    <3> QED BY <1>11, <2>1, <3>1
  <2>5. cut[0] = 0 /\ cut[N] = length
    <3>1. 0 \in 0 .. m /\ m \in 0 .. m /\ 2 * 0 = 0
      BY <1>1
    <3>2. cut[2 * 0] = until[0] /\ cut[2 * m + 1] = from[m + 1]
      BY <1>11, <3>1
    <3> HIDE DEF cut
    <3> QED BY <1>4, <3>1, <3>2
  <2>6. ASSUME NEW a \in 0 .. N, NEW b \in 0 .. N, a <= b PROVE cut[a] <= cut[b]
    <3>1. PICK i \in 0 .. m : a = 2 * i \/ a = 2 * i + 1
      BY <1>8
    <3>2. PICK j \in 0 .. m : b = 2 * j \/ b = 2 * j + 1
      BY <1>8
    <3>3. (i < j \/ i = j) /\ (i = j => a = b \/ (a = 2 * i /\ b = 2 * j + 1))
      BY <1>1, <2>6, <3>1, <3>2
    <3>4. /\ cut[2 * i] = until[i] /\ cut[2 * i + 1] = from[i + 1]
          /\ cut[2 * j] = until[j] /\ cut[2 * j + 1] = from[j + 1]
      BY <1>11
    <3>5. /\ until[i] \in Int /\ from[i + 1] \in Int /\ until[i] <= from[i + 1]
          /\ until[j] \in Int /\ from[j + 1] \in Int /\ until[j] <= from[j + 1]
      BY <1>5, <2>1
    <3>6. i < j => from[i + 1] <= until[j]
      BY <2>3
    <3> HIDE DEF cut
    <3> QED BY <3>1, <3>2, <3>3, <3>4, <3>5, <3>6
  <2> HIDE DEF cut, N
  <2> QED BY <2>4, <2>5, <2>6 DEF Cuts
<1>13. \A n \in 1 .. N : Positions(text[n]) = Between(cut, n)
  <2> SUFFICES ASSUME NEW n \in 1 .. N PROVE Positions(text[n]) = Between(cut, n)
    OBVIOUS
  <2>1. PICK i \in 0 .. m : n = 2 * i \/ n = 2 * i + 1
    BY <1>9
  <2>2. CASE n = 2 * i
    <3>1. i \in 1 .. m /\ i - 1 \in 0 .. m /\ n - 1 = 2 * (i - 1) + 1 /\ (i - 1) + 1 = i
      BY <1>1, <2>2
    <3>2. cut[n - 1] = from[i] /\ cut[n] = until[i]
      BY <1>11, <2>2, <3>1
    <3>3. text[n] = Marker(spans[i])
      BY <1>6, <1>10, <2>2
    <3>4. Positions(text[n]) = Covered(spans[i])
      BY <3>3 DEF Positions, Marker
    <3> HIDE DEF cut
    <3> QED BY <1>4, <3>1, <3>2, <3>4 DEF Covered, Between
  <2>3. CASE n = 2 * i + 1
    <3>1. n - 1 = 2 * i
      BY <1>1, <2>3
    <3>2. cut[n - 1] = until[i] /\ cut[n] = from[i + 1]
      <4> HIDE DEF cut
      <4> QED BY <1>11, <2>3, <3>1
    <3>3. text[n] = Text(until[i], from[i + 1])
      BY <1>6, <1>10, <2>3
    <3>4. Positions(text[n]) = until[i] + 1 .. from[i + 1]
      BY <3>3 DEF Positions, Text
    <3> HIDE DEF cut
    <3> QED BY <3>2, <3>4 DEF Between
  <2> QED BY <2>1, <2>2, <2>3
<1> HIDE DEF cut
<1>14. /\ UNION {Between(cut, n) : n \in 1 .. N} = 1 .. length
       /\ \A k, j \in 1 .. N : k < j =>
             \A x \in Between(cut, k) : \A y \in Between(cut, j) : x < y
  <2>1. N \in Nat /\ N # 0
    BY <1>1
  <2> HIDE DEF N
  <2> QED BY <1>5, <1>12, <2>1, CutsPart
<1>15. ASSUME NEW i \in 1 .. m PROVE Covered(spans[i]) = Between(cut, 2 * i) /\ 2 * i \in 1 .. N
  <2>1. i \in 0 .. m /\ 2 * i \in 1 .. N
    BY <1>1
  <2>2. text[2 * i] = Marker(spans[i])
    BY <1>6, <1>10, <2>1
  <2>3. Positions(text[2 * i]) = Covered(spans[i])
    BY <2>2 DEF Positions, Marker
  <2> QED BY <1>13, <2>1, <2>3
<1>16. \A n \in 1 .. N : \A x \in Between(cut, n) : x \in Int
  BY DEF Between
<1>17. ASSUME NEW k \in 1 .. N
       PROVE  IF text[k].kind = "text" THEN Positions(text[k]) \cap Under(spans) = {}
              ELSE Positions(text[k]) \subseteq Under(spans)
  <2>1. PICK i \in 0 .. m : k = 2 * i \/ k = 2 * i + 1
    BY <1>9
  <2>2. CASE k = 2 * i
    <3>1. i \in 1 .. m
      BY <1>1, <2>2
    <3>2. text[k] = Marker(spans[i])
      BY <1>6, <1>10, <2>2
    <3>3. text[k].kind # "text" /\ Positions(text[k]) = Covered(spans[i])
      BY <3>2 DEF Positions, Marker
    <3> QED BY <1>1, <3>1, <3>3 DEF Under
  <2>3. CASE k = 2 * i + 1
    <3>1. text[k] = Text(until[i], from[i + 1])
      BY <1>6, <1>10, <2>3
    <3>2. text[k].kind = "text"
      BY <3>1 DEF Text
    <3>3. ASSUME NEW x \in Positions(text[k]), x \in Under(spans) PROVE FALSE
      <4>1. PICK j \in 1 .. m : x \in Covered(spans[j])
        BY <1>1, <3>3 DEF Under
      <4>2. x \in Between(cut, 2 * j) /\ 2 * j \in 1 .. N /\ x \in Between(cut, k) /\ x \in Int
        BY <1>13, <1>15, <1>16, <4>1
      <4>3. k < 2 * j \/ 2 * j < k
        BY <1>1, <2>3
      <4>4. ~ (x < x)
        BY <4>2
      <4> QED BY <1>14, <4>2, <4>3, <4>4
    <3> QED BY <3>2, <3>3
  <2> QED BY <2>1, <2>2, <2>3
<1>18. UNION {Positions(text[k]) : k \in DOMAIN text} = 1 .. record.length
  <2>1. {Positions(text[k]) : k \in DOMAIN text} = {Between(cut, n) : n \in 1 .. N}
    BY <1>7, <1>13
  <2> QED BY <1>14, <2>1 DEF length
<1> HIDE DEF N
<1>19. \A k, j \in DOMAIN text : k < j =>
          \A x \in Positions(text[k]) : \A y \in Positions(text[j]) : x < y
  BY <1>7, <1>13, <1>14
<1> QED BY <1>7, <1>17, <1>18, <1>19 DEF ExactlyMarked

\* What is sent of a text is exact.
LEMMA RedactedIsExact ==
    ASSUME NEW record, record.length \in Nat,
           NEW found, found \subseteq SignalsIn(record), IsFiniteSet(found),
           NEW text, text = Redact(record.length, found)
    PROVE  ExactlyMarked(text, record.length, UNION {Covered(s) : s \in found})
<1> DEFINE spans == MergeSpans(found)
<1>1. spans \in SpansIn(record) /\ Under(spans) = UNION {Covered(s) : s \in found}
  BY SpansCoverTheSignals
<1>2. text = Pieces(record.length, spans)
  BY DEF Redact
<1> HIDE DEF spans
<1> QED BY <1>1, <1>2, PiecesAreExact

\* A batch is in the bounds, with what was found in it, until it is sent; and
\* what is sent is what is rendered of a batch whose records have ids of their own.
ScreenInv ==
    /\ stage = "screen" => batch \in Batches /\ signals \in SignalSets(batch)
    /\ stage = "sent" => /\ batch \in Batches /\ signals \in SignalSets(batch)
                         /\ Wraps(batch) /\ sent = RenderRedacted(batch, signals)

\* What is sent is always the batch redacted.
LEMMA ScreenInvariant == CaseSpec => []ScreenInv
<1>1. Init => ScreenInv
  BY DEF Init, ScreenInv
<1>2. ScreenInv /\ [Next]_vars => ScreenInv'
  <2> SUFFICES ASSUME ScreenInv, [Next]_vars PROVE ScreenInv'
    OBVIOUS
  <2>1. ASSUME Screen PROVE ScreenInv'
    BY <2>1 DEF Screen, ScreenInv
  <2>2. ASSUME stage' = stage, UNCHANGED screenVars PROVE ScreenInv'
    BY <2>2 DEF ScreenInv, screenVars
  <2>3. ASSUME stage' \notin {"screen", "sent"} PROVE ScreenInv'
    BY <2>3 DEF ScreenInv
  <2>4. ASSUME Fetch \/ WriteFile \/ EndFetch \/ OpenCorpus PROVE ScreenInv'
    BY <2>2, <2>3, <2>4 DEF Fetch, WriteFile, EndFetch, OpenCorpus
  <2>5. ASSUME NEW subject \in Subjects, OpenCase(subject) PROVE ScreenInv'
    BY <2>3, <2>5 DEF OpenCase
  <2>6. ASSUME NEW proposal, Refuse(proposal) PROVE ScreenInv'
    <3>1. UNCHANGED vars
      BY <2>6 DEF Refuse
    <3> QED BY <2>2, <3>1 DEF vars
  <2>7. ASSUME NEW proposal, NEW answer, RunPivot(proposal, answer) PROVE ScreenInv'
    BY <2>2, <2>7 DEF RunPivot
  <2>8. ASSUME CloseCase PROVE ScreenInv'
    BY <2>3, <2>8 DEF CloseCase
  <2>9. ASSUME NEW response, Draft(response) PROVE ScreenInv'
    BY <2>2, <2>3, <2>9 DEF Draft
  <2>10. ASSUME UNCHANGED vars PROVE ScreenInv'
    BY <2>2, <2>10 DEF vars
  <2> QED BY <2>1, <2>4, <2>5, <2>6, <2>7, <2>8, <2>9, <2>10 DEF Next
<1> QED BY <1>1, <1>2, PTL DEF CaseSpec

\* Of every batch that is sent, each text arrives whole and in order, with what
\* was signalled in it, and nothing else, behind markers.
THEOREM RedactionsAreExact == CaseSpec => []RedactionIsExact
<1>1. ScreenInv => RedactionIsExact
  <2> SUFFICES ASSUME ScreenInv, stage = "sent" PROVE RedactionIsExact
    BY DEF RedactionIsExact
  <2>1. /\ batch \in Batches /\ signals \in SignalSets(batch)
        /\ Wraps(batch) /\ sent = RenderRedacted(batch, signals)
    BY DEF ScreenInv
  <2>2. /\ batch \in Seq(Range(batch)) /\ \A record \in Range(batch) : record.length \in Nat
        /\ IsFiniteSet(signals)
        /\ \A signal \in signals : \E record \in Range(batch) : signal \in SignalsIn(record)
    BY <2>1, BatchesAssumption
  <2>3. DOMAIN sent = DOMAIN batch /\ \A i \in DOMAIN sent : sent[i].id = batch[i].id
    BY <2>1 DEF RenderRedacted
  <2>4. \A i \in DOMAIN sent : sent[i].text = Redact(batch[i].length, SignalsOf(signals, batch[i].id))
    BY <2>1 DEF RenderRedacted
  <2>5. ASSUME NEW i \in DOMAIN batch
        PROVE  /\ SignalsOf(signals, batch[i].id) \subseteq SignalsIn(batch[i])
               /\ IsFiniteSet(SignalsOf(signals, batch[i].id)) /\ batch[i].length \in Nat
    <3>1. ASSUME NEW s \in signals, s.record = batch[i].id PROVE s \in SignalsIn(batch[i])
      <4>1. PICK record \in Range(batch) : s \in SignalsIn(record)
        BY <2>2
      <4>2. PICK j \in DOMAIN batch : record = batch[j]
        BY DEF Range
      <4>3. s.record = record.id
        BY <4>1 DEF SignalsIn
      <4>4. i = j
        BY <2>1, <3>1, <4>2, <4>3 DEF Wraps
      <4> QED BY <4>1, <4>2, <4>4
    <3>2. SignalsOf(signals, batch[i].id) \subseteq signals
      BY DEF SignalsOf
    <3>3. IsFiniteSet(SignalsOf(signals, batch[i].id))
      BY <2>2, <3>2, FS_Subset
    <3>4. batch[i] \in Range(batch)
      BY DEF Range
    <3> QED BY <2>2, <3>1, <3>3, <3>4 DEF SignalsOf
  <2>6. ASSUME NEW i \in DOMAIN sent
        PROVE  ExactlyMarked(sent[i].text, batch[i].length,
                             UNION {Covered(s) : s \in SignalsOf(signals, sent[i].id)})
    <3>1. PICK record : record = batch[i]
      OBVIOUS
    <3>2. PICK found : found = SignalsOf(signals, sent[i].id)
      OBVIOUS
    <3>3. PICK text : text = sent[i].text
      OBVIOUS
    <3>4. /\ record.length \in Nat /\ found \subseteq SignalsIn(record) /\ IsFiniteSet(found)
          /\ text = Redact(record.length, found)
      BY <2>3, <2>4, <2>5, <3>1, <3>2, <3>3
    <3>5. ExactlyMarked(text, record.length, UNION {Covered(s) : s \in found})
      BY <3>4, RedactedIsExact
    <3> QED BY <3>1, <3>2, <3>3, <3>5
  <2>7. [i \in DOMAIN sent |-> sent[i].id] = [i \in DOMAIN batch |-> batch[i].id]
    BY <2>3
  <2> QED BY <2>6, <2>7 DEF RedactionIsExact
<1> QED BY <1>1, ScreenInvariant, PTL
====
