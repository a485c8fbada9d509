---- MODULE Ledger ----
(***************************************************************************)
(* The append-only, hash-chained ledger of governance/ledger.py: the table *)
(* governance.ledger in the DuckDB store, the one Ledger handle a process  *)
(* opens on it, the verification of the chain, and the head recorded       *)
(* outside the chain (the anchor, orchestrator/manifest.py).               *)
(*                                                                         *)
(* Between two processes somebody may edit the store (DuckDB locks the     *)
(* file while a handle is open, so never during one).  What the chain is   *)
(* for is to make those edits show.                                        *)
(*                                                                         *)
(* The hash is SHA-256 over the length-prefixed fields; here a digest is   *)
(* the tuple of what was hashed, that is, hashing is injective.            *)
(***************************************************************************)
EXTENDS Integers, Sequences, FiniteSets

CONSTANTS
    Bodies,     \* what an entry says: time, agent, mandate hash, type, digest
    MaxSeq,     \* bound: sequence numbers run over 0..MaxSeq
    MaxEdits,   \* bound: edits of the store in all
    NoAnchor    \* no head has been recorded outside the chain yet

ASSUME LedgerAssumption == MaxSeq \in Nat /\ MaxEdits \in Nat

VARIABLES
    table,      \* governance.ledger: seq (PRIMARY KEY) |-> the row's other columns
    handle,     \* the process's Ledger object: its cached tail
    anchor,     \* the head a manifest recorded, or NoAnchor
    sealed,     \* ghost: the table when the anchor was recorded
    baseline,   \* ghost: the table as the program left it
    edits,      \* ghost: the edits made since, in order, each [kind, at]
    edited      \* ghost: how many edits were made in all

ledgerVars == <<table, handle, anchor, sealed, baseline, edits, edited>>

(***************************************************************************)
(* Rows, digests and heads.                                                *)
(***************************************************************************)
Genesis == <<>>

\* wrong variant: entry_hash does not cover prev_hash
HashUnchained(seq, body, prev) == <<seq, body>>
Hash(seq, body, prev) == <<seq, body, prev>>

Row(body, prev, hash) == [body |-> body, prev |-> prev, hash |-> hash]
EmptyTable == [s \in {} |-> Row({}, Genesis, Genesis)]

\* wrong variant: the digest covers the previous one, the prev_hash column does not hold it
NewRowUnlinked(seq, body, prev) == Row(body, Genesis, Hash(seq, body, prev))
NewRow(seq, body, prev) == Row(body, prev, Hash(seq, body, prev))

Seqs(t) == DOMAIN t
Digests(t) == {t[s].hash : s \in Seqs(t)} \cup {Genesis}

\* ORDER BY seq DESC LIMIT 1; -1 and the genesis digest for an empty table.
TailSeq(t) == IF Seqs(t) = {} THEN -1
              ELSE CHOOSE s \in Seqs(t) : \A u \in Seqs(t) : u <= s
TailHash(t) == IF Seqs(t) = {} THEN Genesis ELSE t[TailSeq(t)].hash

HeadOf(count, hash) == [count |-> count, hash |-> hash]
ChainHead(t) == HeadOf(Cardinality(Seqs(t)), TailHash(t))

(***************************************************************************)
(* verify_chain: positions are walked in seq order.  The row at position p *)
(* has seq p, when no earlier position failed, exactly if p is a key.      *)
(***************************************************************************)

\* wrong variants: the walk stops one short; only the last entry is looked at
PositionsButLast(t) == 0 .. (Cardinality(Seqs(t)) - 2)
PositionLast(t) == {Cardinality(Seqs(t)) - 1}
Positions(t) == 0 .. (Cardinality(Seqs(t)) - 1)
PrevHash(t, p) == IF p - 1 \in Seqs(t) THEN t[p - 1].hash ELSE Genesis

Linked(t, p) == t[p].prev = PrevHash(t, p)
Recomputes(t, p) == t[p].hash = Hash(p, t[p].body, t[p].prev)

\* wrong variant: linkage is checked, the entry's own hash is not
RowOKUnrecomputed(t, p) == p \in Seqs(t) /\ Linked(t, p)
RowOK(t, p) == p \in Seqs(t) /\ Linked(t, p) /\ Recomputes(t, p)

BrokenAt(t) == {p \in Positions(t) : ~ RowOK(t, p)}
Intact(t) == BrokenAt(t) = {}

FirstBroken(t) == CHOOSE p \in BrokenAt(t) : \A q \in BrokenAt(t) : p <= q

(***************************************************************************)
(* The program: one handle, opened on the store as it is found.            *)
(***************************************************************************)
Closed == [open |-> FALSE, seq |-> -1, hash |-> Genesis]

OpenLedger ==
    /\ ~ handle.open
    /\ handle' = [open |-> TRUE, seq |-> TailSeq(table), hash |-> TailHash(table)]
    /\ baseline' = table
    /\ edits' = <<>>
    /\ UNCHANGED <<table, anchor, sealed, edited>>

\* The INSERT of append; sequence number and prev_hash come from the cache.
Insert(t, seq, row) == [s \in Seqs(t) \cup {seq} |-> IF s = seq THEN row ELSE t[s]]

InsertNext(body) ==
    LET next == handle.seq + 1
    IN  /\ next <= MaxSeq
        /\ next \notin Seqs(table)                      \* PRIMARY KEY
        /\ table' = Insert(table, next, NewRow(next, body, handle.hash))
        /\ baseline' = table'

\* wrong variant: a number is skipped
CacheAppendedTwice(seq, hash) == [handle EXCEPT !.seq = seq + 1, !.hash = hash]
CacheAppended(seq, hash) == [handle EXCEPT !.seq = seq, !.hash = hash]

LedgerAppend(body) ==
    /\ handle.open
    /\ InsertNext(body)
    /\ handle' = CacheAppended(handle.seq + 1,
                     Hash(handle.seq + 1, body, handle.hash))
    /\ UNCHANGED <<anchor, sealed, edits, edited>>

\* The row is committed and the process dies before append updates the cache.
CrashInAppend(body) ==
    /\ handle.open
    /\ InsertNext(body)
    /\ handle' = Closed
    /\ UNCHANGED <<anchor, sealed, edits, edited>>

\* The process ends, is killed, or dies of an INSERT that raised.
Stop ==
    /\ handle.open
    /\ handle' = Closed
    /\ UNCHANGED <<table, anchor, sealed, baseline, edits, edited>>

HandleHead == HeadOf(handle.seq + 1, handle.hash)

\* A session manifest records Ledger.head as the expected head.
RecordAnchor ==
    /\ handle.open
    /\ anchor = NoAnchor
    /\ anchor' = HandleHead
    /\ sealed' = table
    /\ UNCHANGED <<table, handle, baseline, edits, edited>>

Program ==
    \/ OpenLedger
    \/ \E body \in Bodies : LedgerAppend(body) \/ CrashInAppend(body)
    \/ Stop
    \/ RecordAnchor

(***************************************************************************)
(* Edits of the store behind the program's back.  A value written into a   *)
(* digest column is one the store already holds, except by Rehash, whose   *)
(* author recomputes the public encoding.                                  *)
(***************************************************************************)
Edit(kind, at, new) ==
    /\ ~ handle.open
    /\ edited < MaxEdits
    /\ edited' = edited + 1
    /\ new # table
    /\ table' = new
    /\ edits' = Append(edits, [kind |-> kind, at |-> at])
    /\ UNCHANGED <<handle, anchor, sealed, baseline>>

EditBody(at, body) == Edit("field", at, [table EXCEPT ![at].body = body])
EditPrev(at, digest) == Edit("field", at, [table EXCEPT ![at].prev = digest])
EditHash(at, digest) == Edit("field", at, [table EXCEPT ![at].hash = digest])

EditSeq(at, seq) ==
    /\ seq \notin Seqs(table)
    /\ Edit("field", at, [s \in (Seqs(table) \ {at}) \cup {seq} |->
                              IF s = seq THEN table[at] ELSE table[s]])

DeleteRow(at) ==
    Edit(IF at = TailSeq(table) THEN "truncate" ELSE "delete", at,
         [s \in Seqs(table) \ {at} |-> table[s]])

SwapRows(at, other) ==
    /\ at < other
    /\ Edit("swap", at, [table EXCEPT ![at] = table[other], ![other] = table[at]])

Rehash(at) ==
    Edit("rehash", at,
         [table EXCEPT ![at].hash = Hash(at, table[at].body, table[at].prev)])

Editor ==
    \E at \in Seqs(table) :
        \/ \E body \in Bodies : EditBody(at, body)
        \/ \E digest \in Digests(table) : EditPrev(at, digest) \/ EditHash(at, digest)
        \/ \E seq \in 0 .. MaxSeq : EditSeq(at, seq)
        \/ DeleteRow(at)
        \/ \E other \in Seqs(table) : SwapRows(at, other)
        \/ Rehash(at)

LedgerInit ==
    /\ table = EmptyTable
    /\ handle = Closed
    /\ anchor = NoAnchor
    /\ sealed = EmptyTable
    /\ baseline = EmptyTable
    /\ edits = <<>>
    /\ edited = 0

LedgerNext == Program \/ Editor
LedgerSpec == LedgerInit /\ [][LedgerNext]_ledgerVars

(***************************************************************************)
(* Properties.                                                             *)
(***************************************************************************)
IsRow(row) ==
    /\ row = Row(row.body, row.prev, row.hash)
    /\ row.body \in Bodies
IsTable(t) ==
    /\ Seqs(t) \subseteq 0 .. MaxSeq
    /\ t = [s \in Seqs(t) |-> t[s]]
    /\ \A s \in Seqs(t) : IsRow(t[s])

\* Types of the store, the handle and the ghosts.
LedgerTypeOK ==
    /\ IsTable(table) /\ IsTable(baseline) /\ IsTable(sealed)
    /\ handle = [open |-> handle.open, seq |-> handle.seq, hash |-> handle.hash]
    /\ handle.open \in BOOLEAN /\ handle.seq \in -1 .. MaxSeq
    /\ edits \in Seq([kind : {"field", "delete", "truncate", "swap", "rehash"},
                      at : 0 .. MaxSeq])
    /\ edited \in 0 .. MaxEdits

\* A store nobody ever edited verifies, whatever processes appended to it and
\* died in append; and on any store that verifies, edited or not, Ledger.head
\* (O(1), from the cache) is the head a rescan gives.
UneditedIsSound ==
    /\ edited = 0 => Intact(table)
    /\ handle.open /\ Intact(table) => HandleHead = ChainHead(table)

Forged == \E i \in 1 .. Len(edits) : edits[i].kind = "rehash"

\* Edits that verify_chain lets pass have only dropped entries from the end:
\* the module's "honest limit", and nothing beyond it.
OnlyTruncationIsSilent ==
    Intact(baseline) /\ ~ Forged /\ Intact(table) =>
        /\ Seqs(table) \subseteq Seqs(baseline)
        /\ \A s \in Seqs(table) : table[s] = baseline[s]

\* One alteration, deletion or exchange is reported at the entry it was made
\* to: verify_chain's first_broken_seq is neither late nor early.
ReportedWhereItIs ==
    /\ Intact(baseline)
    /\ Len(edits) = 1
    /\ edits[1].kind \in {"field", "delete", "swap"}
    => BrokenAt(table) # {} /\ FirstBroken(table) = edits[1].at

\* A store that verifies and ends where the recorded head says it does is the
\* store that was sealed, even against an editor who recomputes hashes.
AnchoredMeansComplete ==
    /\ anchor # NoAnchor
    /\ Intact(sealed)
    /\ Intact(table)
    /\ ChainHead(table) = anchor
    => table = sealed

\* Writing on does not launder: no step of the program makes a broken chain
\* verify.
DamageIsPermanent ==
    [][Program /\ ~ Intact(table) => ~ Intact(table')]_ledgerVars
====
