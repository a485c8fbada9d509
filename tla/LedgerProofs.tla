---- MODULE LedgerProofs ----
(***************************************************************************)
(* What module Ledger's runs check on a small store, proved for every set  *)
(* of bodies, every length of the chain and any number of edits.           *)
(*                                                                         *)
(* First what verify_chain says about a table on its own, then the         *)
(* inductive invariant, then the theorems.                                 *)
(***************************************************************************)
EXTENDS Ledger, FiniteSetTheorems, SequenceTheorems, WellFoundedInduction, TLAPS

(***************************************************************************)
(* Bounded sets of naturals.                                               *)
(***************************************************************************)

\* Every inhabited set of sequence numbers has a last one, and ORDER BY seq
\* DESC LIMIT 1 finds it.
LEMMA LastExists ==
    ASSUME NEW N \in Nat, NEW T \in SUBSET (0 .. N), T # {}
    PROVE  \E s \in T : \A u \in T : u <= s
<1> DEFINE Gaps == {N - s : s \in T}
<1>1. Gaps \subseteq Nat /\ Gaps # {}
  <2>1. \A s \in T : N - s \in Nat
    OBVIOUS
  <2> QED BY <2>1
<1>2. PICK g \in Gaps : \A h \in Gaps : ~ (<<h, g>> \in OpToRel(<, Nat))
  BY <1>1, NatLessThanWellFounded, WFMin
<1>3. \A h \in Gaps : ~ (h < g)
  BY <1>1, <1>2 DEF OpToRel
<1>4. PICK s \in T : g = N - s
  BY DEF Gaps
<1>5. ASSUME NEW u \in T PROVE u <= s
  <2>1. ~ (N - u < N - s)
    BY <1>3, <1>4
  <2> QED BY <2>1
<1> QED BY <1>5

(***************************************************************************)
(* What the walk of verify_chain says of a table.                          *)
(***************************************************************************)

\* The tail of a table is its last row, and a table holds no more rows than
\* its last sequence number leaves room for.
LEMMA TailOfTable ==
    ASSUME NEW t, IsTable(t)
    PROVE  /\ Seqs(t) \subseteq Nat
           /\ TailSeq(t) \in -1 .. MaxSeq
           /\ Seqs(t) # {} => TailSeq(t) \in Seqs(t)
           /\ \A s \in Seqs(t) : s <= TailSeq(t)
           /\ IsFiniteSet(Seqs(t))
           /\ Cardinality(Seqs(t)) \in Nat
           /\ Cardinality(Seqs(t)) <= TailSeq(t) + 1
<1> USE LedgerAssumption
<1>1. Seqs(t) \subseteq 0 .. MaxSeq
  BY DEF IsTable
<1>2. CASE Seqs(t) = {}
  <2>1. TailSeq(t) = -1
    BY <1>2 DEF TailSeq
  <2> QED BY <1>2, <2>1, FS_EmptySet
<1>3. CASE Seqs(t) # {}
  <2>1. \E s \in Seqs(t) : \A u \in Seqs(t) : u <= s
    BY <1>1, <1>3, LastExists
  <2>2. TailSeq(t) \in Seqs(t) /\ \A u \in Seqs(t) : u <= TailSeq(t)
    BY <1>3, <2>1 DEF TailSeq
  <2>3. Seqs(t) \in SUBSET Nat /\ TailSeq(t) \in Nat
    BY <1>1, <2>2
  <2>4. IsFiniteSet(Seqs(t)) /\ Cardinality(Seqs(t)) <= TailSeq(t) + 1
    BY <2>2, <2>3, FS_BoundedSetOfNaturals
  <2> QED BY <1>1, <2>2, <2>3, <2>4, FS_CardinalityType
<1> QED BY <1>2, <1>3

\* A table that verifies is numbered without a gap from zero, and each of its
\* rows is linked to the one before and carries its own digest.
LEMMA IntactTable ==
    ASSUME NEW t, IsTable(t), Intact(t)
    PROVE  /\ Seqs(t) = 0 .. TailSeq(t)
           /\ Cardinality(Seqs(t)) = TailSeq(t) + 1
           /\ \A s \in Seqs(t) : Linked(t, s) /\ Recomputes(t, s)
<1> DEFINE n == Cardinality(Seqs(t))
<1>1. /\ IsFiniteSet(Seqs(t)) /\ n \in Nat
      /\ Seqs(t) # {} => TailSeq(t) \in Seqs(t)
      /\ Seqs(t) = {} => TailSeq(t) = -1
      /\ \A s \in Seqs(t) : s <= TailSeq(t)
  BY TailOfTable DEF TailSeq
<1>2. \A p \in 0 .. (n - 1) : RowOK(t, p)
  BY DEF Intact, BrokenAt, Positions
<1>3. 0 .. (n - 1) \in SUBSET Seqs(t)
  BY <1>2 DEF RowOK
<1>4. Cardinality(0 .. (n - 1)) = n
  BY <1>1, FS_Interval
<1>5. Seqs(t) = 0 .. (n - 1)
  BY <1>1, <1>3, <1>4, FS_Subset
<1>6. TailSeq(t) = n - 1
  <2>1. CASE n = 0
    BY <1>1, <1>5, <2>1
  <2>2. CASE n # 0
    <3>1. n - 1 \in Seqs(t)
      BY <1>1, <1>5, <2>2
    <3>2. TailSeq(t) \in 0 .. (n - 1) /\ n - 1 <= TailSeq(t)
      BY <1>1, <1>5, <3>1
    <3> QED BY <1>1, <3>2
  <2> QED BY <2>1, <2>2
<1>7. \A s \in Seqs(t) : Linked(t, s) /\ Recomputes(t, s)
  BY <1>2, <1>5 DEF RowOK
<1> QED BY <1>1, <1>5, <1>6, <1>7

\* A digest tells what it was taken of, and is never the genesis value.
LEMMA HashIsInjective ==
    ASSUME NEW s, NEW b, NEW d, NEW u, NEW c, NEW e
    PROVE  /\ Hash(s, b, d) = Hash(u, c, e) => s = u /\ b = c /\ d = e
           /\ Hash(s, b, d) # Genesis
BY DEF Hash, Genesis

\* Two tables that verify and have the same head are the same table: each row
\* determines the one before it.
LEMMA SameTailSameTable ==
    ASSUME NEW t, NEW u, IsTable(t), IsTable(u), Intact(t), Intact(u),
           ChainHead(t) = ChainHead(u)
    PROVE  t = u
<1> DEFINE n == TailSeq(t)
           Differ == {s \in 0 .. n : t[s] # u[s]}
<1> HIDE DEF n, Differ
<1>1. /\ n \in Int /\ TailSeq(u) = n /\ Seqs(t) = 0 .. n /\ Seqs(u) = 0 .. n
      /\ TailHash(t) = TailHash(u)
  <2>1. Cardinality(Seqs(t)) = Cardinality(Seqs(u)) /\ TailHash(t) = TailHash(u)
    BY DEF ChainHead, HeadOf
  <2> QED BY <2>1, IntactTable, TailOfTable DEF n
<1>2. \A s \in 0 .. n : /\ Linked(t, s) /\ Recomputes(t, s)
                        /\ Linked(u, s) /\ Recomputes(u, s)
                        /\ IsRow(t[s]) /\ IsRow(u[s])
  BY <1>1, IntactTable DEF IsTable
<1>3. ASSUME NEW s \in 0 .. n, t[s].hash = u[s].hash
      PROVE  t[s] = u[s]
  <2>1. t[s].body = u[s].body /\ t[s].prev = u[s].prev
    BY <1>2, <1>3, HashIsInjective DEF Recomputes
  <2> QED BY <1>2, <1>3, <2>1 DEF IsRow
<1>4. Differ = {}
  <2>1. SUFFICES ASSUME Differ # {} PROVE FALSE
    OBVIOUS
  <2>2. n \in Nat /\ Differ \in SUBSET (0 .. n)
    BY <1>1, <2>1 DEF Differ
  <2>3. PICK s \in Differ : \A v \in Differ : v <= s
    BY <2>1, <2>2, LastExists
  <2>4. s \in 0 .. n /\ t[s] # u[s]
    BY <2>3 DEF Differ
  <2>5. CASE s = n
    <3>1. t[n].hash = u[n].hash
      BY <1>1, <2>2 DEF TailHash, n
    <3> QED BY <1>3, <2>4, <2>5, <3>1
  <2>6. CASE s # n
    <3>1. s + 1 \in 0 .. n /\ s + 1 \notin Differ /\ (s + 1) - 1 = s
      BY <2>2, <2>3, <2>4, <2>6
    <3>2. t[s + 1] = u[s + 1]
      BY <3>1 DEF Differ
    <3>3. t[s + 1].prev = t[s].hash /\ u[s + 1].prev = u[s].hash
      BY <1>1, <1>2, <2>4, <3>1 DEF Linked, PrevHash
    <3> QED BY <1>3, <2>4, <3>2, <3>3
  <2> QED BY <2>5, <2>6
<1>5. t = [s \in 0 .. n |-> t[s]] /\ u = [s \in 0 .. n |-> u[s]]
  BY <1>1 DEF IsTable
<1>6. \A s \in 0 .. n : t[s] = u[s]
  BY <1>4 DEF Differ
<1> QED BY <1>5, <1>6

(***************************************************************************)
(* The inductive invariant.                                                *)
(***************************************************************************)

\* An open handle's cache is the tail of the table.
CacheIsTail ==
    handle.open => handle.seq = TailSeq(table) /\ handle.hash = TailHash(table)

\* The baseline is the table until it is edited, and no edit is made while a
\* handle is open.
BaselineIsKept ==
    /\ handle.open => edits = <<>>
    /\ edits = <<>> => table = baseline

\* An editor who does not recompute has only the digests he found.
DigestsAreOld == ~ Forged => Digests(table) \subseteq Digests(baseline)

\* The recorded head was the head of what was sealed.
AnchorWasHead == anchor # NoAnchor /\ Intact(sealed) => anchor = ChainHead(sealed)

LedgerInv ==
    LedgerTypeOK /\ CacheIsTail /\ BaselineIsKept /\ DigestsAreOld /\ AnchorWasHead

\* The INSERT of append adds one last row and leaves the others alone.
LEMMA InsertIsLast ==
    ASSUME NEW t, IsTable(t), NEW row, IsRow(row),
           NEW next, next = TailSeq(t) + 1, next <= MaxSeq
    PROVE  LET new == Insert(t, next, row)
           IN  /\ IsTable(new)
               /\ Seqs(new) = Seqs(t) \cup {next}
               /\ new[next] = row
               /\ \A s \in Seqs(t) : s # next /\ new[s] = t[s]
               /\ TailSeq(new) = next
               /\ TailHash(new) = row.hash
<1> DEFINE new == Insert(t, next, row)
<1> USE LedgerAssumption
<1>1. next \in 0 .. MaxSeq /\ \A s \in Seqs(t) : s \in Nat /\ s < next
  BY TailOfTable
<1>2. Seqs(new) = Seqs(t) \cup {next} /\ new[next] = row
  BY DEF Insert, Seqs
<1>3. \A s \in Seqs(t) : s # next /\ new[s] = t[s]
  BY <1>1 DEF Insert, Seqs
<1>4. IsTable(new)
  <2>1. new = [s \in Seqs(new) |-> new[s]]
    BY DEF Insert, Seqs
  <2> QED BY <1>1, <1>2, <1>3, <2>1 DEF IsTable
<1>5. TailSeq(new) = next
  <2>1. next \in Seqs(new) /\ \A u \in Seqs(new) : u <= next
    BY <1>1, <1>2
  <2>2. TailSeq(new) \in Seqs(new) /\ next <= TailSeq(new) /\ TailSeq(new) \in Int
    BY <1>4, <2>1, TailOfTable
  <2> QED BY <1>1, <2>1, <2>2
<1>6. TailHash(new) = row.hash
  BY <1>2, <1>5 DEF TailHash
<1> HIDE DEF new
<1>7. QED BY <1>2, <1>3, <1>4, <1>5, <1>6 DEF new

\* A table without rows verifies.
LEMMA EmptyIsIntact == Intact(EmptyTable)
<1>1. Cardinality(Seqs(EmptyTable)) = 0
  BY FS_EmptySet DEF EmptyTable, Seqs
<1> QED BY <1>1 DEF Intact, BrokenAt, Positions

\* An entry numbered, linked and hashed from the tail of a chain that verifies
\* leaves a chain that verifies.
LEMMA NextRowKeepsIntact ==
    ASSUME NEW t, IsTable(t), Intact(t), NEW body \in Bodies,
           NEW next, next = TailSeq(t) + 1, next <= MaxSeq
    PROVE  Intact(Insert(t, next, NewRow(next, body, TailHash(t))))
<1> DEFINE row == NewRow(next, body, TailHash(t))
           new == Insert(t, next, row)
<1>1. /\ IsRow(row) /\ row.body = body /\ row.prev = TailHash(t)
      /\ row.hash = Hash(next, row.body, row.prev)
  BY DEF IsRow, NewRow, Row
<1> HIDE DEF row
<1>2. /\ Seqs(new) = Seqs(t) \cup {next} /\ new[next] = row
      /\ \A s \in Seqs(t) : s # next /\ new[s] = t[s]
  BY <1>1, InsertIsLast
<1> HIDE DEF new
<1>3. /\ next \in Nat /\ Seqs(t) = 0 .. (next - 1)
      /\ IsFiniteSet(Seqs(t)) /\ Cardinality(Seqs(t)) = next
  BY IntactTable, TailOfTable, LedgerAssumption
<1>4. Positions(new) = 0 .. next
  <2>1. next \notin Seqs(t)
    BY <1>2
  <2>2. Cardinality(Seqs(t) \cup {next}) = Cardinality(Seqs(t)) + 1
    BY <1>3, <2>1, FS_AddElement
  <2>3. Cardinality(Seqs(new)) = next + 1
    BY <1>2, <1>3, <2>2
  <2> QED BY <1>3, <2>3 DEF Positions
<1>5. RowOK(new, next)
  <2>1. PrevHash(new, next) = TailHash(t)
    <3>1. CASE next = 0
      <4>1. Seqs(t) = {} /\ next - 1 \notin Seqs(new)
        BY <1>2, <1>3, <3>1
      <4> QED BY <4>1 DEF PrevHash, TailHash
    <3>2. CASE next # 0
      <4>1. /\ next - 1 \in Seqs(t) /\ next - 1 \in Seqs(new)
            /\ next - 1 = TailSeq(t) /\ Seqs(t) # {}
        BY <1>2, <1>3, <3>2, TailOfTable
      <4>2. new[next - 1] = t[next - 1]
        BY <1>2, <4>1
      <4> QED BY <4>1, <4>2 DEF PrevHash, TailHash
    <3> QED BY <3>1, <3>2
  <2> QED BY <1>1, <1>2, <2>1 DEF RowOK, Linked, Recomputes
<1>6. ASSUME NEW p \in Seqs(t) PROVE RowOK(new, p)
  <2>1. p # next /\ p - 1 # next /\ p \in Seqs(new) /\ new[p] = t[p]
    BY <1>2, <1>3
  <2>2. PrevHash(new, p) = PrevHash(t, p)
    BY <1>2, <2>1 DEF PrevHash
  <2>3. Linked(t, p) /\ Recomputes(t, p)
    BY IntactTable
  <2> QED BY <2>1, <2>2, <2>3 DEF RowOK, Linked, Recomputes
<1>7. \A p \in Positions(new) : RowOK(new, p)
  <2>1. \A p \in 0 .. next : p = next \/ p \in Seqs(t)
    BY <1>3
  <2> QED BY <1>4, <1>5, <1>6, <2>1
<1> QED BY <1>7 DEF Intact, BrokenAt, new, row

\* append, finished or not, leaves a chain that verifies if it found one: the
\* cache it numbers and links from is the tail of the table.
LEMMA AppendKeepsIntact ==
    ASSUME LedgerInv, NEW body \in Bodies,
           LedgerAppend(body) \/ CrashInAppend(body), Intact(table)
    PROVE  Intact(table')
<1> DEFINE next == handle.seq + 1
<1>1. /\ next = TailSeq(table) + 1 /\ next <= MaxSeq /\ IsTable(table)
      /\ handle.hash = TailHash(table)
      /\ table' = Insert(table, next, NewRow(next, body, handle.hash))
  BY DEF LedgerInv, LedgerTypeOK, CacheIsTail, LedgerAppend, CrashInAppend, InsertNext
<1> HIDE DEF next
<1> QED BY <1>1, NextRowKeepsIntact

\* An append, finished or not, keeps the invariant.
LEMMA AppendKeepsInv ==
    ASSUME LedgerInv, NEW body \in Bodies,
           LedgerAppend(body) \/ CrashInAppend(body)
    PROVE  LedgerInv'
<1> DEFINE next == handle.seq + 1
           row == NewRow(next, body, handle.hash)
<1>1. /\ next = TailSeq(table) + 1 /\ next <= MaxSeq
      /\ table' = Insert(table, next, row) /\ baseline' = table'
      /\ edits = <<>> /\ edits' = edits /\ UNCHANGED <<anchor, sealed, edited>>
      /\ handle.open /\ IsTable(table)
  BY DEF LedgerInv, LedgerTypeOK, CacheIsTail, BaselineIsKept,
         LedgerAppend, CrashInAppend, InsertNext
<1>2. IsRow(row) /\ row.hash = Hash(next, body, handle.hash)
  BY DEF IsRow, NewRow, Row
<1> HIDE DEF next, row
<1>3. /\ IsTable(table') /\ TailSeq(table') = next /\ TailHash(table') = row.hash
      /\ next \in 0 .. MaxSeq
  <2>1. next \in 0 .. MaxSeq
    BY <1>1, TailOfTable, LedgerAssumption
  <2> QED BY <1>1, <1>2, <2>1, InsertIsLast
<1>4. \/ handle' = [handle EXCEPT !.seq = next, !.hash = row.hash]
      \/ handle' = Closed
  BY <1>2 DEF LedgerAppend, CrashInAppend, CacheAppended, next
<1>5. LedgerTypeOK' /\ CacheIsTail'
  <2>1. /\ handle = [open |-> handle.open, seq |-> handle.seq, hash |-> handle.hash]
        /\ handle.open \in BOOLEAN
    BY DEF LedgerInv, LedgerTypeOK
  <2>2. /\ handle' = [open |-> handle'.open, seq |-> handle'.seq, hash |-> handle'.hash]
        /\ handle'.open \in BOOLEAN /\ handle'.seq \in -1 .. MaxSeq
        /\ handle'.open => handle'.seq = next /\ handle'.hash = row.hash
    <3>1. CASE handle' = [handle EXCEPT !.seq = next, !.hash = row.hash]
      <4>1. handle' = [open |-> handle'.open, seq |-> handle'.seq, hash |-> handle'.hash]
        BY <2>1, <3>1
      <4>2. handle'.open = handle.open /\ handle'.seq = next /\ handle'.hash = row.hash
        BY <2>1, <3>1
      <4> QED BY <1>3, <2>1, <4>1, <4>2
    <3>2. CASE handle' = Closed
      BY <3>2, LedgerAssumption DEF Closed
    <3> QED BY <1>4, <3>1, <3>2
  <2>3. CacheIsTail'
    BY <1>3, <2>2 DEF CacheIsTail
  <2> QED BY <1>1, <1>3, <2>2, <2>3 DEF LedgerInv, LedgerTypeOK
<1>6. BaselineIsKept' /\ DigestsAreOld'
  BY <1>1 DEF BaselineIsKept, DigestsAreOld
<1>7. AnchorWasHead'
  BY <1>1 DEF LedgerInv, AnchorWasHead
<1> QED BY <1>5, <1>6, <1>7 DEF LedgerInv

\* An edit keeps the invariant if it leaves a table, without new digests
\* unless it recomputes one.
LEMMA EditKeepsInv ==
    ASSUME LedgerInv,
           NEW kind \in {"field", "delete", "truncate", "swap", "rehash"},
           NEW at \in Seqs(table),
           NEW new, IsTable(new),
           kind # "rehash" => Digests(new) \subseteq Digests(table),
           Edit(kind, at, new)
    PROVE  LedgerInv'
<1>1. /\ ~ handle.open /\ table' = new /\ edited < MaxEdits /\ edited' = edited + 1
      /\ edits' = Append(edits, [kind |-> kind, at |-> at])
      /\ UNCHANGED <<handle, anchor, sealed, baseline>>
  BY DEF Edit
<1> DEFINE EditRecords == [kind : {"field", "delete", "truncate", "swap", "rehash"},
                           at : 0 .. MaxSeq]
           made == [kind |-> kind, at |-> at]
<1>2. edits \in Seq(EditRecords) /\ made \in EditRecords
  BY DEF LedgerInv, LedgerTypeOK, IsTable
<1> HIDE DEF EditRecords
<1>3. edits' \in Seq(EditRecords) /\ edits' # <<>>
  BY <1>1, <1>2
<1>4. LedgerTypeOK'
  BY <1>1, <1>3, LedgerAssumption DEF LedgerInv, LedgerTypeOK, EditRecords
<1>5. CacheIsTail' /\ BaselineIsKept'
  BY <1>1, <1>3 DEF CacheIsTail, BaselineIsKept
<1>6. DigestsAreOld'
  <2>1. SUFFICES ASSUME ~ Forged' PROVE Digests(new) \subseteq Digests(baseline)
    BY <1>1 DEF DigestsAreOld
  <2>2. /\ Len(edits') = Len(edits) + 1 /\ Len(edits) \in Nat
        /\ edits'[Len(edits) + 1].kind = kind
        /\ \A i \in 1 .. Len(edits) : edits'[i] = edits[i]
    BY <1>1, <1>2
  <2>3. \A i \in 1 .. Len(edits) + 1 : edits'[i].kind # "rehash"
    BY <2>1, <2>2 DEF Forged
  <2>4. kind # "rehash" /\ ~ Forged
    BY <2>2, <2>3 DEF Forged
  <2> QED BY <2>4 DEF LedgerInv, DigestsAreOld
<1>7. AnchorWasHead'
  BY <1>1 DEF LedgerInv, AnchorWasHead
<1> QED BY <1>4, <1>5, <1>6, <1>7 DEF LedgerInv

\* Rows moved about bring no new digest.
LEMMA MovedRowsBringNoDigest ==
    ASSUME NEW t, NEW new, \A s \in Seqs(new) : \E u \in Seqs(t) : new[s] = t[u]
    PROVE  Digests(new) \subseteq Digests(t)
<1>1. \A s \in Seqs(new) : new[s].hash \in {t[u].hash : u \in Seqs(t)}
  OBVIOUS
<1> QED BY <1>1 DEF Digests

\* Every editing action is an edit in the sense of the lemma above.
LEMMA EditorKeepsInv == LedgerInv /\ Editor => LedgerInv'
<1> SUFFICES ASSUME LedgerInv, Editor PROVE LedgerInv'
  OBVIOUS
<1> DEFINE t == table
<1> HIDE DEF t
<1>1. IsTable(t) /\ t = table /\ t = [s \in Seqs(t) |-> t[s]]
  BY DEF LedgerInv, LedgerTypeOK, IsTable, t
<1>2. PICK at \in Seqs(t) :
        \/ \E body \in Bodies : EditBody(at, body)
        \/ \E digest \in Digests(t) : EditPrev(at, digest) \/ EditHash(at, digest)
        \/ \E seq \in 0 .. MaxSeq : EditSeq(at, seq)
        \/ DeleteRow(at)
        \/ \E other \in Seqs(t) : SwapRows(at, other)
        \/ Rehash(at)
  BY DEF Editor, t
<1> DEFINE Changed(new) ==
      /\ Seqs(new) = Seqs(t) /\ new = [s \in Seqs(t) |-> new[s]]
      /\ \A s \in Seqs(t) : s # at => new[s] = t[s]
<1>3. ASSUME NEW new, NEW row, IsRow(row), Changed(new), new[at] = row
      PROVE  /\ IsTable(new)
             /\ row.hash \in Digests(t) => Digests(new) \subseteq Digests(t)
  <2>1. \A s \in Seqs(new) : IsRow(new[s]) /\ (s # at => new[s].hash \in Digests(t))
    BY <1>1, <1>3 DEF IsTable, Digests
  <2>2. IsTable(new)
    BY <1>1, <1>3, <2>1 DEF IsTable
  <2> QED BY <1>3, <2>1, <2>2 DEF Digests
<1>4. IsRow(t[at]) /\ t[at].hash \in Digests(t) /\ t[at] = Row(t[at].body, t[at].prev, t[at].hash)
  BY <1>1, <1>2 DEF IsTable, Digests, IsRow
<1>5. ASSUME NEW body \in Bodies, EditBody(at, body) PROVE LedgerInv'
  <2> DEFINE new == [t EXCEPT ![at].body = body]
             row == [t[at] EXCEPT !.body = body]
  <2>1. row = Row(body, t[at].prev, t[at].hash)
    BY <1>4 DEF Row
  <2>2. IsRow(row) /\ row.hash = t[at].hash
    BY <2>1 DEF IsRow, Row
  <2>3. Changed(new) /\ new[at] = row
    BY <1>1, <1>2 DEF Seqs
  <2>4. Edit("field", at, new)
    BY <1>1, <1>5 DEF EditBody
  <2> HIDE DEF new, row
  <2> QED BY <1>1, <1>2, <1>3, <1>4, <2>2, <2>3, <2>4, EditKeepsInv
<1>6. ASSUME NEW digest \in Digests(t), EditPrev(at, digest) PROVE LedgerInv'
  <2> DEFINE new == [t EXCEPT ![at].prev = digest]
             row == [t[at] EXCEPT !.prev = digest]
  <2>1. row = Row(t[at].body, digest, t[at].hash)
    BY <1>4 DEF Row
  <2>2. IsRow(row) /\ row.hash = t[at].hash
    BY <1>4, <2>1 DEF IsRow, Row
  <2>3. Changed(new) /\ new[at] = row
    BY <1>1, <1>2 DEF Seqs
  <2>4. Edit("field", at, new)
    BY <1>1, <1>6 DEF EditPrev
  <2> HIDE DEF new, row
  <2> QED BY <1>1, <1>2, <1>3, <1>4, <2>2, <2>3, <2>4, EditKeepsInv
<1>7. ASSUME NEW digest, EditHash(at, digest) /\ digest \in Digests(t) PROVE LedgerInv'
  <2> DEFINE new == [t EXCEPT ![at].hash = digest]
             row == [t[at] EXCEPT !.hash = digest]
  <2>1. row = Row(t[at].body, t[at].prev, digest)
    BY <1>4 DEF Row
  <2>2. IsRow(row) /\ row.hash = digest
    BY <1>4, <2>1 DEF IsRow, Row
  <2>3. Changed(new) /\ new[at] = row
    BY <1>1, <1>2 DEF Seqs
  <2>4. Edit("field", at, new)
    BY <1>1, <1>7 DEF EditHash
  <2> HIDE DEF new, row
  <2> QED BY <1>1, <1>2, <1>3, <1>7, <2>2, <2>3, <2>4, EditKeepsInv
<1>8. ASSUME Rehash(at) PROVE LedgerInv'
  <2> DEFINE digest == Hash(at, t[at].body, t[at].prev)
             new == [t EXCEPT ![at].hash = digest]
             row == [t[at] EXCEPT !.hash = digest]
  <2>1. row = Row(t[at].body, t[at].prev, digest)
    BY <1>4 DEF Row
  <2>2. IsRow(row)
    BY <1>4, <2>1 DEF IsRow, Row
  <2>3. Changed(new) /\ new[at] = row
    BY <1>1, <1>2 DEF Seqs
  <2>4. Edit("rehash", at, new)
    BY <1>1, <1>8 DEF Rehash
  <2> HIDE DEF new, row
  <2> QED BY <1>1, <1>2, <1>3, <2>2, <2>3, <2>4, EditKeepsInv
<1>9. ASSUME NEW seq \in 0 .. MaxSeq, EditSeq(at, seq) PROVE LedgerInv'
  <2> DEFINE new == [s \in (Seqs(t) \ {at}) \cup {seq} |-> IF s = seq THEN t[at] ELSE t[s]]
  <2>1. Edit("field", at, new)
    BY <1>1, <1>9 DEF EditSeq
  <2>2. \A s \in Seqs(new) : \E u \in Seqs(t) : new[s] = t[u]
    BY <1>2 DEF Seqs
  <2>3. IsTable(new)
    <3>1. new = [s \in Seqs(new) |-> new[s]] /\ Seqs(new) = (Seqs(t) \ {at}) \cup {seq}
      BY DEF Seqs
    <3> QED BY <1>1, <2>2, <3>1 DEF IsTable
  <2>4. Digests(new) \subseteq Digests(t)
    BY <2>2, MovedRowsBringNoDigest
  <2> HIDE DEF new
  <2> QED BY <1>1, <1>2, <2>1, <2>3, <2>4, EditKeepsInv
<1>10. ASSUME DeleteRow(at) PROVE LedgerInv'
  <2> DEFINE new == [s \in Seqs(t) \ {at} |-> t[s]]
             kind == IF at = TailSeq(t) THEN "truncate" ELSE "delete"
  <2>1. Edit(kind, at, new)
    BY <1>1, <1>10 DEF DeleteRow
  <2>2. Seqs(new) = Seqs(t) \ {at} /\ \A s \in Seqs(new) : new[s] = t[s]
    BY DEF Seqs
  <2>3. new = [s \in Seqs(new) |-> new[s]]
    BY DEF Seqs
  <2>4. IsTable(new) /\ Digests(new) \subseteq Digests(t)
    BY <1>1, <2>2, <2>3 DEF IsTable, Digests
  <2>5. kind \in {"field", "delete", "truncate", "swap", "rehash"}
    OBVIOUS
  <2> HIDE DEF new, kind
  <2> QED BY <1>1, <1>2, <2>1, <2>4, <2>5, EditKeepsInv
<1>11. ASSUME NEW other \in Seqs(t), SwapRows(at, other) PROVE LedgerInv'
  <2> DEFINE new == [t EXCEPT ![at] = t[other], ![other] = t[at]]
  <2>1. Edit("swap", at, new)
    BY <1>1, <1>11 DEF SwapRows
  <2>2. Seqs(new) = Seqs(t) /\ \A s \in Seqs(new) : \E u \in Seqs(t) : new[s] = t[u]
    BY <1>1, <1>2 DEF Seqs
  <2>3. new = [s \in Seqs(new) |-> new[s]]
    BY <1>1 DEF Seqs
  <2> HIDE DEF new
  <2>4. IsTable(new)
    BY <1>1, <2>2, <2>3 DEF IsTable
  <2>5. Digests(new) \subseteq Digests(t)
    BY <2>2, MovedRowsBringNoDigest
  <2> QED BY <1>1, <1>2, <2>1, <2>4, <2>5, EditKeepsInv
<1> QED BY <1>2, <1>5, <1>6, <1>7, <1>8, <1>9, <1>10, <1>11

\* Opening the store, ending the process and recording the head keep the
\* invariant.
LEMMA OtherStepsKeepInv ==
    LedgerInv /\ (OpenLedger \/ Stop \/ RecordAnchor) => LedgerInv'
<1> SUFFICES ASSUME LedgerInv PROVE OpenLedger \/ Stop \/ RecordAnchor => LedgerInv'
  OBVIOUS
<1> USE LedgerAssumption
<1>1. ASSUME OpenLedger PROVE LedgerInv'
  <2>1. /\ handle' = [open |-> TRUE, seq |-> TailSeq(table), hash |-> TailHash(table)]
        /\ baseline' = table /\ edits' = <<>> /\ UNCHANGED <<table, anchor, sealed, edited>>
    BY <1>1 DEF OpenLedger
  <2>2. IsTable(table) /\ TailSeq(table) \in -1 .. MaxSeq
    BY TailOfTable DEF LedgerInv, LedgerTypeOK
  <2>3. handle'.open /\ handle'.seq = TailSeq(table) /\ handle'.hash = TailHash(table)
    BY <2>1
  <2>4. LedgerTypeOK'
    BY <2>1, <2>2 DEF LedgerInv, LedgerTypeOK
  <2>5. CacheIsTail' /\ BaselineIsKept' /\ DigestsAreOld' /\ AnchorWasHead'
    BY <2>1, <2>3 DEF LedgerInv, CacheIsTail, BaselineIsKept, DigestsAreOld, AnchorWasHead
  <2> QED BY <2>4, <2>5 DEF LedgerInv
<1>2. ASSUME Stop PROVE LedgerInv'
  <2>1. handle' = Closed /\ UNCHANGED <<table, anchor, sealed, baseline, edits, edited>>
    BY <1>2 DEF Stop
  <2>2. ~ handle'.open /\ handle'.open \in BOOLEAN /\ handle'.seq \in -1 .. MaxSeq
        /\ handle' = [open |-> handle'.open, seq |-> handle'.seq, hash |-> handle'.hash]
    BY <2>1 DEF Closed
  <2>3. LedgerTypeOK'
    BY <2>1, <2>2 DEF LedgerInv, LedgerTypeOK
  <2>4. CacheIsTail' /\ BaselineIsKept' /\ DigestsAreOld' /\ AnchorWasHead'
    BY <2>1, <2>2
    DEF LedgerInv, CacheIsTail, BaselineIsKept, DigestsAreOld, AnchorWasHead, Forged
  <2> QED BY <2>3, <2>4 DEF LedgerInv
<1>3. ASSUME RecordAnchor PROVE LedgerInv'
  <2>1. /\ handle.open /\ anchor' = HandleHead /\ sealed' = table
        /\ UNCHANGED <<table, handle, baseline, edits, edited>>
    BY <1>3 DEF RecordAnchor
  <2>2. IsTable(table) /\ handle.seq = TailSeq(table) /\ handle.hash = TailHash(table)
    BY <2>1 DEF LedgerInv, LedgerTypeOK, CacheIsTail
  <2>3. AnchorWasHead'
    BY <2>1, <2>2, IntactTable DEF AnchorWasHead, HandleHead, ChainHead
  <2>4. LedgerTypeOK'
    BY <2>1 DEF LedgerInv, LedgerTypeOK
  <2>5. CacheIsTail' /\ BaselineIsKept' /\ DigestsAreOld'
    BY <2>1 DEF LedgerInv, CacheIsTail, BaselineIsKept, DigestsAreOld, Forged
  <2> QED BY <2>3, <2>4, <2>5 DEF LedgerInv
<1> QED BY <1>1, <1>2, <1>3

(***************************************************************************)
(* Where one edit of a chain that verified shows.                          *)
(***************************************************************************)

\* verify_chain reports this position.
ReportsAt(t, at) ==
    /\ at \in BrokenAt(t)
    /\ \A p \in BrokenAt(t) : at <= p

\* A table that is as the other up to a row that is not in order reports that
\* row.
LEMMA AgreeingBeforeReports ==
    ASSUME NEW t, IsTable(t), Intact(t), NEW at \in Seqs(t),
           NEW new, IsTable(new),
           \A s \in 0 .. at - 1 : s \in Seqs(new) /\ new[s] = t[s],
           at \in Positions(new), ~ RowOK(new, at)
    PROVE  ReportsAt(new, at)
<1>1. /\ Seqs(t) = 0 .. TailSeq(t) /\ Seqs(t) \subseteq Nat /\ Seqs(new) \subseteq Nat
      /\ TailSeq(t) \in Int /\ Cardinality(Seqs(new)) \in Nat
      /\ \A s \in Seqs(t) : Linked(t, s) /\ Recomputes(t, s)
  BY IntactTable, TailOfTable
<1>2. ASSUME NEW p \in Positions(new), p < at
      PROVE  RowOK(new, p)
  <2>1. /\ p \in 0 .. at - 1 /\ p \in Seqs(t) /\ p \in Seqs(new) /\ new[p] = t[p]
    BY <1>1, <1>2 DEF Positions
  <2>2. PrevHash(new, p) = PrevHash(t, p)
    <3>1. CASE p = 0
      <4>1. p - 1 \notin Seqs(new) /\ p - 1 \notin Seqs(t)
        BY <1>1, <3>1
      <4> QED BY <4>1 DEF PrevHash
    <3>2. CASE p # 0
      <4>1. p - 1 \in 0 .. at - 1 /\ p - 1 \in Seqs(t)
        BY <1>1, <2>1, <3>2
      <4> QED BY <4>1 DEF PrevHash
    <3> QED BY <3>1, <3>2
  <2> QED BY <1>1, <2>1, <2>2 DEF RowOK, Linked, Recomputes
<1>3. \A p \in BrokenAt(new) : p \in Int /\ at \in Int /\ ~ (p < at)
  BY <1>1, <1>2 DEF BrokenAt, Positions
<1> QED BY <1>3 DEF ReportsAt, BrokenAt

\* A row altered in place, so that it no longer carries its own digest, shows.
LEMMA AlteredRowShows ==
    ASSUME NEW t, IsTable(t), Intact(t), NEW at \in Seqs(t),
           NEW new, IsTable(new), Seqs(new) = Seqs(t),
           \A s \in Seqs(t) : s < at => new[s] = t[s],
           ~ Recomputes(new, at)
    PROVE  ReportsAt(new, at)
<1>1. /\ Seqs(t) = 0 .. TailSeq(t) /\ TailSeq(t) \in Int
      /\ Cardinality(Seqs(t)) = TailSeq(t) + 1
  BY IntactTable, TailOfTable
<1>2. at \in Positions(new) /\ \A s \in 0 .. at - 1 : s \in Seqs(t) /\ s < at
  BY <1>1 DEF Positions
<1> QED BY <1>2, AgreeingBeforeReports DEF RowOK

\* A row that is no longer at its place, with enough others left, shows.
LEMMA MissingRowShows ==
    ASSUME NEW t, IsTable(t), Intact(t), NEW at \in Seqs(t),
           NEW new, IsTable(new), at \notin Seqs(new),
           Seqs(t) \ {at} \subseteq Seqs(new),
           \A s \in Seqs(t) \ {at} : new[s] = t[s],
           at < TailSeq(t) \/ Cardinality(Seqs(new)) = Cardinality(Seqs(t))
    PROVE  ReportsAt(new, at)
<1>1. /\ Seqs(t) = 0 .. TailSeq(t) /\ TailSeq(t) \in Int /\ IsFiniteSet(Seqs(t))
      /\ Cardinality(Seqs(t)) = TailSeq(t) + 1
      /\ IsFiniteSet(Seqs(new)) /\ Cardinality(Seqs(new)) \in Nat
  BY IntactTable, TailOfTable
<1>2. Cardinality(Seqs(t) \ {at}) = TailSeq(t)
  <2>1. IsFiniteSet(Seqs(t)) /\ Cardinality(Seqs(t)) = TailSeq(t) + 1 /\ TailSeq(t) \in Int
    BY <1>1
  <2>2. Cardinality(Seqs(t) \ {at}) = Cardinality(Seqs(t)) - 1
    BY <2>1, FS_RemoveElement
  <2> QED BY <2>1, <2>2
<1>3. TailSeq(t) <= Cardinality(Seqs(new))
  <2>1. Cardinality(Seqs(t) \ {at}) <= Cardinality(Seqs(new))
    BY <1>1, FS_Subset
  <2> QED BY <1>2, <2>1
<1>4. at \in Positions(new)
  BY <1>1, <1>3 DEF Positions
<1>5. \A s \in 0 .. at - 1 : s \in Seqs(t) \ {at}
  BY <1>1
<1> QED BY <1>4, <1>5, AgreeingBeforeReports DEF RowOK

\* One alteration, deletion or exchange of a store that verified is reported
\* where it was made.
LEMMA EditorShows ==
    ASSUME LedgerTypeOK, Intact(table), LedgerTypeOK', Editor,
           edits = <<>>, edits'[1].kind \in {"field", "delete", "swap"}
    PROVE  ReportsAt(table', edits'[1].at)
<1> DEFINE t == table
           new == table'
<1> HIDE DEF t, new
<1>0. t = table /\ new = table'
  BY DEF t, new
<1>1. /\ IsTable(t) /\ Intact(t) /\ IsTable(new)
      /\ \A s \in Seqs(t) : IsRow(t[s]) /\ Recomputes(t, s) /\ s \in Int
      /\ TailSeq(t) \in Int /\ \A s \in Seqs(t) : s <= TailSeq(t)
  <2>1. IsTable(t) /\ Intact(t) /\ IsTable(new)
    BY DEF LedgerTypeOK, t, new
  <2>2. /\ \A s \in Seqs(t) : Recomputes(t, s)
        /\ Seqs(t) \subseteq Nat /\ TailSeq(t) \in Int
        /\ \A s \in Seqs(t) : s <= TailSeq(t)
    BY <2>1, IntactTable, TailOfTable
  <2>3. \A s \in Seqs(t) : IsRow(t[s])
    BY <2>1 DEF IsTable
  <2> QED BY <2>1, <2>2, <2>3
<1>2. ASSUME NEW kind, NEW at, NEW what, Edit(kind, at, what)
      PROVE  /\ new = what /\ new # t /\ edits'[1].kind = kind /\ edits'[1].at = at
  <2>1. edits' = Append(<<>>, [kind |-> kind, at |-> at]) /\ new = what /\ new # t
    BY <1>2 DEF Edit, t, new
  <2> QED BY <2>1
<1>3. PICK at \in Seqs(t) :
        \/ \E body \in Bodies : EditBody(at, body)
        \/ \E digest \in Digests(t) : EditPrev(at, digest) \/ EditHash(at, digest)
        \/ \E seq \in 0 .. MaxSeq : EditSeq(at, seq)
        \/ DeleteRow(at)
        \/ \E other \in Seqs(t) : SwapRows(at, other)
        \/ Rehash(at)
  BY DEF Editor, t
<1>4. /\ t = [s \in Seqs(t) |-> t[s]] /\ t[at] = Row(t[at].body, t[at].prev, t[at].hash)
      /\ t[at].hash = Hash(at, t[at].body, t[at].prev)
  BY <1>1, <1>3 DEF IsTable, IsRow, Recomputes
<1>5. CASE \/ \E body \in Bodies : EditBody(at, body)
           \/ \E digest \in Digests(t) : EditPrev(at, digest) \/ EditHash(at, digest)
  <2>1. PICK row : /\ new = [t EXCEPT ![at] = row] /\ new # t /\ edits'[1].at = at
                   /\ \/ \E body : row = Row(body, t[at].prev, t[at].hash)
                      \/ \E digest : \/ row = Row(t[at].body, digest, t[at].hash)
                                     \/ row = Row(t[at].body, t[at].prev, digest)
    <3>1. ASSUME NEW body, EditBody(at, body)
          PROVE  /\ new = [t EXCEPT ![at] = Row(body, t[at].prev, t[at].hash)]
                 /\ new # t /\ edits'[1].at = at
      <4>1. Edit("field", at, [table EXCEPT ![at].body = body])
        BY <3>1 DEF EditBody
      <4>2. new = [t EXCEPT ![at].body = body] /\ new # t /\ edits'[1].at = at
        BY <1>0, <1>2, <4>1
      <4>3. [t EXCEPT ![at].body = body] = [t EXCEPT ![at] = [t[at] EXCEPT !.body = body]]
        OBVIOUS
      <4>4. [t[at] EXCEPT !.body = body] = Row(body, t[at].prev, t[at].hash)
        BY <1>4 DEF Row
      <4> QED BY <4>2, <4>3, <4>4
    <3>2. ASSUME NEW digest, EditPrev(at, digest)
          PROVE  /\ new = [t EXCEPT ![at] = Row(t[at].body, digest, t[at].hash)]
                 /\ new # t /\ edits'[1].at = at
      <4>1. Edit("field", at, [table EXCEPT ![at].prev = digest])
        BY <3>2 DEF EditPrev
      <4>2. new = [t EXCEPT ![at].prev = digest] /\ new # t /\ edits'[1].at = at
        BY <1>0, <1>2, <4>1
      <4>3. [t EXCEPT ![at].prev = digest] = [t EXCEPT ![at] = [t[at] EXCEPT !.prev = digest]]
        OBVIOUS
      <4>4. [t[at] EXCEPT !.prev = digest] = Row(t[at].body, digest, t[at].hash)
        BY <1>4 DEF Row
      <4> QED BY <4>2, <4>3, <4>4
    <3>3. ASSUME NEW digest, EditHash(at, digest)
          PROVE  /\ new = [t EXCEPT ![at] = Row(t[at].body, t[at].prev, digest)]
                 /\ new # t /\ edits'[1].at = at
      <4>1. Edit("field", at, [table EXCEPT ![at].hash = digest])
        BY <3>3 DEF EditHash
      <4>2. new = [t EXCEPT ![at].hash = digest] /\ new # t /\ edits'[1].at = at
        BY <1>0, <1>2, <4>1
      <4>3. [t EXCEPT ![at].hash = digest] = [t EXCEPT ![at] = [t[at] EXCEPT !.hash = digest]]
        OBVIOUS
      <4>4. [t[at] EXCEPT !.hash = digest] = Row(t[at].body, t[at].prev, digest)
        BY <1>4 DEF Row
      <4> QED BY <4>2, <4>3, <4>4
    <3> QED BY <1>5, <3>1, <3>2, <3>3
  <2>2. /\ new = [t EXCEPT ![at] = row] /\ new # t /\ edits'[1].at = at
    BY <2>1
  <2>3. /\ Seqs(new) = Seqs(t) /\ new[at] = row
        /\ \A s \in Seqs(t) : s # at => new[s] = t[s]
    BY <1>3, <1>4, <2>2 DEF Seqs
  <2>4. row # t[at]
    BY <1>3, <1>4, <2>2
  <2>5. ~ Recomputes(new, at)
    <3>1. row.hash # Hash(at, row.body, row.prev)
      <4>1. CASE \E body : row = Row(body, t[at].prev, t[at].hash)
        <5>1. PICK body : row = Row(body, t[at].prev, t[at].hash)
          BY <4>1
        <5>2. body # t[at].body
          BY <1>4, <2>4, <5>1
        <5>3. row.hash = t[at].hash /\ row.body = body /\ row.prev = t[at].prev
          BY <5>1 DEF Row
        <5> QED BY <1>4, <5>2, <5>3, HashIsInjective
      <4>2. CASE \E digest : row = Row(t[at].body, digest, t[at].hash)
        <5>1. PICK digest : row = Row(t[at].body, digest, t[at].hash)
          BY <4>2
        <5>2. digest # t[at].prev
          BY <1>4, <2>4, <5>1
        <5>3. row.hash = t[at].hash /\ row.body = t[at].body /\ row.prev = digest
          BY <5>1 DEF Row
        <5> QED BY <1>4, <5>2, <5>3, HashIsInjective
      <4>3. CASE \E digest : row = Row(t[at].body, t[at].prev, digest)
        <5>1. PICK digest : row = Row(t[at].body, t[at].prev, digest)
          BY <4>3
        <5>2. digest # t[at].hash
          BY <1>4, <2>4, <5>1
        <5>3. row.hash = digest /\ row.body = t[at].body /\ row.prev = t[at].prev
          BY <5>1 DEF Row
        <5> QED BY <1>4, <5>2, <5>3
      <4> QED BY <2>1, <4>1, <4>2, <4>3
    <3> QED BY <2>3, <3>1 DEF Recomputes
  <2>6. \A s \in Seqs(t) : s < at => new[s] = t[s]
    BY <1>1, <1>3, <2>3
  <2>7. IsTable(t) /\ Intact(t) /\ IsTable(new) /\ at \in Seqs(t) /\ Seqs(new) = Seqs(t)
    BY <1>1, <1>3, <2>3
  <2>8. ReportsAt(new, at)
    BY <2>5, <2>6, <2>7, AlteredRowShows
  <2> QED BY <1>0, <2>2, <2>8
<1>6. ASSUME NEW seq \in 0 .. MaxSeq, EditSeq(at, seq) PROVE ReportsAt(new, edits'[1].at)
  <2>1. /\ seq \notin Seqs(t)
        /\ Edit("field", at, [s \in (Seqs(t) \ {at}) \cup {seq} |-> IF s = seq THEN t[at] ELSE t[s]])
    BY <1>0, <1>6 DEF EditSeq
  <2>2. /\ new = [s \in (Seqs(t) \ {at}) \cup {seq} |-> IF s = seq THEN t[at] ELSE t[s]]
        /\ edits'[1].at = at
    BY <1>2, <2>1
  <2>3. /\ Seqs(new) = (Seqs(t) \ {at}) \cup {seq} /\ at \notin Seqs(new)
        /\ \A s \in Seqs(t) \ {at} : new[s] = t[s]
    BY <1>3, <2>1, <2>2 DEF Seqs
  <2>4. Cardinality(Seqs(new)) = Cardinality(Seqs(t))
    <3>1. IsFiniteSet(Seqs(t)) /\ Cardinality(Seqs(t)) \in Nat
      BY <1>1, TailOfTable
    <3>2. /\ IsFiniteSet(Seqs(t) \ {at})
          /\ Cardinality(Seqs(t) \ {at}) = Cardinality(Seqs(t)) - 1
      BY <1>3, <3>1, FS_RemoveElement
    <3>3. Cardinality(Seqs(new)) = Cardinality(Seqs(t) \ {at}) + 1
      BY <2>1, <2>3, <3>2, FS_AddElement
    <3> QED BY <3>1, <3>2, <3>3
  <2> QED BY <1>1, <1>3, <2>2, <2>3, <2>4, MissingRowShows
<1>7. CASE DeleteRow(at)
  <2>1. Edit(IF at = TailSeq(t) THEN "truncate" ELSE "delete", at, [s \in Seqs(t) \ {at} |-> t[s]])
    BY <1>0, <1>7 DEF DeleteRow
  <2>2. /\ new = [s \in Seqs(t) \ {at} |-> t[s]] /\ edits'[1].at = at
        /\ edits'[1].kind = IF at = TailSeq(t) THEN "truncate" ELSE "delete"
    BY <1>2, <2>1
  <2>3. /\ Seqs(new) = Seqs(t) \ {at} /\ \A s \in Seqs(t) \ {at} : new[s] = t[s]
    BY <2>2 DEF Seqs
  <2>4. at < TailSeq(t)
    <3>1. at # TailSeq(t)
      BY <2>2
    <3> QED BY <1>1, <1>3, <3>1
  <2>5. ReportsAt(new, at)
    BY <1>1, <1>3, <2>3, <2>4, MissingRowShows
  <2> QED BY <1>0, <2>2, <2>5
<1>8. ASSUME NEW other \in Seqs(t), SwapRows(at, other) PROVE ReportsAt(new, edits'[1].at)
  <2>1. at < other /\ Edit("swap", at, [t EXCEPT ![at] = t[other], ![other] = t[at]])
    BY <1>0, <1>8 DEF SwapRows
  <2>2. /\ new = [t EXCEPT ![at] = t[other], ![other] = t[at]] /\ edits'[1].at = at
    BY <1>2, <2>1
  <2>3. at # other
    BY <1>1, <1>3, <2>1
  <2>4. /\ Seqs(new) = Seqs(t) /\ new[at] = t[other]
        /\ \A s \in Seqs(t) : s # at /\ s # other => new[s] = t[s]
    BY <1>3, <1>4, <2>2, <2>3 DEF Seqs
  <2>5. ~ Recomputes(new, at)
    <3>1. t[other].hash = Hash(other, t[other].body, t[other].prev)
      BY <1>1 DEF Recomputes
    <3>2. t[other].hash # Hash(at, t[other].body, t[other].prev)
      BY <2>3, <3>1, HashIsInjective
    <3> QED BY <2>4, <3>2 DEF Recomputes
  <2>6. \A s \in Seqs(t) : s < at => new[s] = t[s]
    BY <1>1, <1>3, <2>1, <2>4
  <2>7. ReportsAt(new, at)
    BY <1>1, <1>3, <2>4, <2>5, <2>6, AlteredRowShows
  <2> QED BY <2>2, <2>7
<1>9. CASE Rehash(at)
  <2>1. edits'[1].kind = "rehash"
    BY <1>2, <1>9 DEF Rehash
  <2> QED BY <2>1
<1> QED BY <1>0, <1>3, <1>5, <1>6, <1>7, <1>8, <1>9

(***************************************************************************)
(* The theorems.                                                           *)
(***************************************************************************)

\* The invariant of the ledger and its store, from which the rest follows.
THEOREM LedgerInvariant == LedgerSpec => []LedgerInv
<1>1. LedgerInit => LedgerInv
  <2> SUFFICES ASSUME LedgerInit PROVE LedgerInv
    OBVIOUS
  <2>1. Seqs(EmptyTable) = {} /\ IsTable(EmptyTable)
    BY DEF EmptyTable, Seqs, IsTable
  <2>2. ~ handle.open /\ handle = [open |-> FALSE, seq |-> -1, hash |-> Genesis]
    BY DEF LedgerInit, Closed
  <2>3. LedgerTypeOK
    BY <2>1, <2>2, LedgerAssumption DEF LedgerInit, LedgerTypeOK
  <2>4. CacheIsTail /\ BaselineIsKept /\ DigestsAreOld /\ AnchorWasHead
    BY <2>2 DEF LedgerInit, CacheIsTail, BaselineIsKept, DigestsAreOld, AnchorWasHead
  <2> QED BY <2>3, <2>4 DEF LedgerInv
<1>2. LedgerInv /\ [LedgerNext]_ledgerVars => LedgerInv'
  <2> SUFFICES ASSUME LedgerInv, [LedgerNext]_ledgerVars PROVE LedgerInv'
    OBVIOUS
  <2>1. ASSUME NEW body \in Bodies, LedgerAppend(body) \/ CrashInAppend(body)
        PROVE  LedgerInv'
    BY <2>1, AppendKeepsInv
  <2>2. CASE OpenLedger \/ Stop \/ RecordAnchor
    BY <2>2, OtherStepsKeepInv
  <2>3. CASE Editor
    BY <2>3, EditorKeepsInv
  <2>4. CASE UNCHANGED ledgerVars
    BY <2>4
    DEF ledgerVars, LedgerInv, LedgerTypeOK, CacheIsTail, BaselineIsKept, DigestsAreOld,
        AnchorWasHead, Forged
  <2> QED BY <2>1, <2>2, <2>3, <2>4 DEF LedgerNext, Program
<1> QED BY <1>1, <1>2, PTL DEF LedgerSpec

\* Types of the store and the handle.
THEOREM LedgerTyping == LedgerSpec => []LedgerTypeOK
BY LedgerInvariant, PTL DEF LedgerInv

\* A store nobody ever edited verifies, after any number of processes, appends
\* and crashes within an append, because each of them wrote on the tail of a
\* chain that verified; and on a store that verifies Ledger.head, O(1) from the
\* cache, is what a rescan gives.
THEOREM UneditedIsSoundTheorem == LedgerSpec => []UneditedIsSound
<1> DEFINE Verifies == edited = 0 => Intact(table)
<1>1. LedgerInit => Verifies
  BY EmptyIsIntact DEF LedgerInit
<1>2. LedgerInv /\ Verifies /\ [LedgerNext]_ledgerVars => Verifies'
  <2> SUFFICES ASSUME LedgerInv, Verifies, [LedgerNext]_ledgerVars PROVE Verifies'
    OBVIOUS
  <2>1. ASSUME NEW body \in Bodies, LedgerAppend(body) \/ CrashInAppend(body)
        PROVE  Verifies'
    <3>1. edited' = edited
      BY <2>1 DEF LedgerAppend, CrashInAppend
    <3> QED BY <2>1, <3>1, AppendKeepsIntact
  <2>2. CASE UNCHANGED <<table, edited>>
    BY <2>2
  <2>3. CASE Editor
    <3>1. edited' = edited + 1
      BY <2>3 DEF Editor, EditBody, EditPrev, EditHash, EditSeq, DeleteRow, SwapRows, Rehash,
                  Edit
    <3>2. edited \in 0 .. MaxEdits
      BY DEF LedgerInv, LedgerTypeOK
    <3>3. edited' # 0
      BY <3>1, <3>2, LedgerAssumption
    <3> QED BY <3>3
  <2> QED BY <2>1, <2>2, <2>3
          DEF LedgerNext, Program, OpenLedger, Stop, RecordAnchor, ledgerVars
<1>3. LedgerInv /\ Verifies => UneditedIsSound
  <2> SUFFICES ASSUME LedgerInv, handle.open, Intact(table)
               PROVE  HandleHead = ChainHead(table)
    BY DEF UneditedIsSound
  <2>1. handle.seq = TailSeq(table) /\ handle.hash = TailHash(table)
    BY DEF LedgerInv, CacheIsTail
  <2>2. Cardinality(Seqs(table)) = TailSeq(table) + 1
    BY IntactTable DEF LedgerInv, LedgerTypeOK
  <2> QED BY <2>1, <2>2 DEF HandleHead, ChainHead
<1> QED BY <1>1, <1>2, <1>3, LedgerInvariant, PTL DEF LedgerSpec

\* Whatever an editor who recomputes no digest does, if the chain then
\* verifies he has only dropped entries from its end.
THEOREM OnlyTruncationIsSilentTheorem == LedgerSpec => []OnlyTruncationIsSilent
<1>1. LedgerInv => OnlyTruncationIsSilent
  <2> SUFFICES ASSUME LedgerInv, Intact(baseline), ~ Forged, Intact(table),
                      NEW s \in Seqs(table)
               PROVE  s \in Seqs(baseline) /\ table[s] = baseline[s]
    BY DEF OnlyTruncationIsSilent
  <2>1. IsTable(table) /\ IsTable(baseline) /\ Digests(table) \subseteq Digests(baseline)
    BY DEF LedgerInv, LedgerTypeOK, DigestsAreOld
  <2>2. /\ IsRow(table[s])
        /\ table[s].hash = Hash(s, table[s].body, table[s].prev)
        /\ table[s].hash \in Digests(baseline)
    BY <2>1, IntactTable DEF Recomputes, Digests, IsTable
  <2>3. PICK u \in Seqs(baseline) : table[s].hash = baseline[u].hash
    BY <2>2, HashIsInjective DEF Digests
  <2>4. /\ IsRow(baseline[u])
        /\ baseline[u].hash = Hash(u, baseline[u].body, baseline[u].prev)
    BY <2>1, IntactTable DEF Recomputes, IsTable
  <2>5. s = u /\ table[s].body = baseline[u].body /\ table[s].prev = baseline[u].prev
    <3>1. Hash(s, table[s].body, table[s].prev) = Hash(u, baseline[u].body, baseline[u].prev)
      BY <2>2, <2>3, <2>4
    <3> QED BY <3>1, HashIsInjective
  <2> QED BY <2>2, <2>3, <2>4, <2>5 DEF IsRow
<1> QED BY <1>1, LedgerInvariant, PTL

\* One alteration, deletion or exchange is reported at the very entry, in a
\* chain of any length.
THEOREM ReportedWhereItIsTheorem == LedgerSpec => []ReportedWhereItIs
<1> DEFINE Shows ==
      Intact(baseline) /\ Len(edits) = 1 /\ edits[1].kind \in {"field", "delete", "swap"}
          => ReportsAt(table, edits[1].at)
<1>1. LedgerInit => Shows
  BY DEF LedgerInit
<1>2. LedgerInv /\ LedgerInv' /\ Shows /\ [LedgerNext]_ledgerVars => Shows'
  <2> SUFFICES ASSUME LedgerInv, LedgerInv', Shows, [LedgerNext]_ledgerVars PROVE Shows'
    OBVIOUS
  <2>1. CASE edits' = <<>>
    BY <2>1
  <2>2. CASE UNCHANGED <<table, baseline, edits>>
    BY <2>2
  <2>3. CASE Editor
    <3>1. SUFFICES ASSUME Intact(baseline)', Len(edits)' = 1,
                          edits'[1].kind \in {"field", "delete", "swap"}
                   PROVE  ReportsAt(table', edits'[1].at)
      OBVIOUS
    <3>2. \E made : edits' = Append(edits, made) /\ baseline' = baseline
      BY <2>3 DEF Editor, EditBody, EditPrev, EditHash, EditSeq, DeleteRow, SwapRows, Rehash,
                  Edit
    <3>3. edits = <<>>
      <4>1. edits \in Seq([kind : {"field", "delete", "truncate", "swap", "rehash"},
                           at : 0 .. MaxSeq])
        BY DEF LedgerInv, LedgerTypeOK
      <4>2. Len(edits) \in Nat /\ Len(edits') = Len(edits) + 1
        BY <3>2, <4>1
      <4>3. Len(edits) = 0
        BY <3>1, <4>2, SMTT(30)
      <4> QED BY <4>1, <4>3, EmptySeq
    <3>4. Intact(table)
      BY <3>1, <3>2, <3>3 DEF LedgerInv, BaselineIsKept
    <3> QED BY <2>3, <3>1, <3>3, <3>4, EditorShows DEF LedgerInv
  <2>4. CASE Program
    <3>1. handle.open => edits = <<>>
      BY DEF LedgerInv, BaselineIsKept
    <3>2. edits' = <<>> \/ UNCHANGED <<table, baseline, edits>>
      BY <2>4, <3>1
      DEF Program, OpenLedger, LedgerAppend, CrashInAppend, Stop, RecordAnchor
    <3> QED BY <2>1, <2>2, <3>2
  <2> QED BY <2>2, <2>3, <2>4 DEF LedgerNext, ledgerVars
<1>3. Shows => ReportedWhereItIs
  <2> SUFFICES ASSUME ReportsAt(table, edits[1].at)
               PROVE  BrokenAt(table) # {} /\ FirstBroken(table) = edits[1].at
    BY DEF ReportedWhereItIs
  <2>1. /\ edits[1].at \in BrokenAt(table) /\ \A p \in BrokenAt(table) : edits[1].at <= p
        /\ \A p \in BrokenAt(table) : p \in Int
    BY DEF ReportsAt, BrokenAt, Positions
  <2>2. /\ FirstBroken(table) \in BrokenAt(table)
        /\ \A q \in BrokenAt(table) : FirstBroken(table) <= q
    BY <2>1 DEF FirstBroken
  <2> QED BY <2>1, <2>2
<1> QED BY <1>1, <1>2, <1>3, LedgerInvariant, PTL DEF LedgerSpec

\* A chain that verifies and ends at the recorded head is the sealed one.
THEOREM AnchoredMeansCompleteTheorem == LedgerSpec => []AnchoredMeansComplete
<1>1. LedgerInv => AnchoredMeansComplete
  <2> SUFFICES ASSUME LedgerInv, anchor # NoAnchor, Intact(sealed), Intact(table),
                      ChainHead(table) = anchor
               PROVE  table = sealed
    BY DEF AnchoredMeansComplete
  <2>1. ChainHead(table) = ChainHead(sealed)
    BY DEF LedgerInv, AnchorWasHead
  <2> QED BY <2>1, SameTailSameTable DEF LedgerInv, LedgerTypeOK
<1> QED BY <1>1, LedgerInvariant, PTL

\* No append, crash, reopening or sealing makes a broken chain verify again.
THEOREM DamageIsPermanentTheorem == LedgerSpec => DamageIsPermanent
<1>1. LedgerInv /\ [LedgerNext]_ledgerVars
      => [Program /\ ~ Intact(table) => ~ Intact(table')]_ledgerVars
  <2> SUFFICES ASSUME LedgerInv, Program, ~ Intact(table) PROVE ~ Intact(table')
    OBVIOUS
  <2>1. CASE UNCHANGED table
    BY <2>1
  <2>2. ASSUME NEW body \in Bodies, LedgerAppend(body) \/ CrashInAppend(body)
        PROVE  ~ Intact(table')
    <3> DEFINE next == handle.seq + 1
               row == NewRow(next, body, handle.hash)
               new == Insert(table, next, row)
    <3>1. next = TailSeq(table) + 1 /\ next <= MaxSeq /\ table' = new /\ IsTable(table)
      BY <2>2 DEF LedgerInv, LedgerTypeOK, CacheIsTail, LedgerAppend, CrashInAppend, InsertNext
    <3>2. IsRow(row)
      BY DEF IsRow, NewRow, Row
    <3> HIDE DEF next, row
    <3>3. /\ IsTable(new) /\ Seqs(new) = Seqs(table) \cup {next}
          /\ \A s \in Seqs(table) : s # next /\ new[s] = table[s]
      BY <3>1, <3>2, InsertIsLast
    <3> HIDE DEF new
    <3>4. PICK p \in Positions(table) : ~ RowOK(table, p)
      BY DEF Intact, BrokenAt
    <3>5. /\ p \in Nat /\ p < Cardinality(Seqs(table)) /\ p < next
          /\ Cardinality(Seqs(table)) \in Nat /\ next \in Nat
      BY <3>1, <3>4, TailOfTable DEF Positions
    <3>6. Cardinality(Seqs(new)) = Cardinality(Seqs(table)) + 1
      BY <3>1, <3>3, TailOfTable, FS_AddElement
    <3>7. p \in Positions(new)
      BY <3>5, <3>6 DEF Positions
    <3>8. PrevHash(new, p) = PrevHash(table, p)
      <4>1. p - 1 # next
        BY <3>5
      <4> QED BY <3>3, <4>1 DEF PrevHash
    <3>9. ~ RowOK(new, p)
      BY <3>3, <3>4, <3>5, <3>8 DEF RowOK, Linked, Recomputes
    <3> QED BY <3>1, <3>7, <3>9 DEF Intact, BrokenAt
  <2> QED BY <2>1, <2>2 DEF Program, OpenLedger, Stop, RecordAnchor
<1> QED BY <1>1, LedgerInvariant, PTL DEF LedgerSpec, DamageIsPermanent
====
