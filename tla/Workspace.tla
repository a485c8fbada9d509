---- MODULE Workspace ----
(***************************************************************************)
(* The directory of a memo session and the commands that write it:         *)
(* run_memo_session of orchestrator/session_runner.py, which drafts, and   *)
(* run_sign_memo of cli/main.py, which signs.  Every file is truncated and *)
(* then filled, one after another, and a command can die at any point;     *)
(* between two commands memo.json may be edited by hand.                   *)
(*                                                                         *)
(* A digest is the content it was taken of, and content is marked with the *)
(* session that wrote it.  A chain is its session and how many entries it  *)
(* holds: two sessions never share a head, since SESSION_OPEN carries the  *)
(* time.                                                                   *)
(***************************************************************************)
EXTENDS Naturals, Sequences

CONSTANTS
    Packs,      \* evidence packs a memo can be drafted from or checked against
    Analysts,
    Nobody,     \* signer of a memo nobody signed
    FullLength, \* entries in a closed session's chain
    MaxRuns     \* bound: drafting sessions run in this directory

ASSUME WorkspaceAssumption ==
    Nobody \notin Analysts /\ FullLength \in Nat \ {0} /\ MaxRuns \in Nat

VARIABLES
    file,       \* name -> what the file holds
    command,    \* the command running: its kind, session, memo, analyst
    todo,       \* names of the files it has still to write, in order
    torn,       \* whether the first of them is truncated and not yet filled
    runs,       \* drafting sessions started so far
    outcome     \* the command that finished last, if nothing was touched since

workspaceVars == <<file, command, todo, torn, runs, outcome>>

Names == {"store", "jsonl", "memo", "md", "html", "events", "manifest", "signature"}
Absent == [kind |-> "absent"]
Torn == [kind |-> "torn"]
Readable(name) == file[name] \notin {Absent, Torn}

\* sound: its claims and citations resolve against its pack and the corpus.
Memos == [pack : Packs, sound : BOOLEAN, status : {"draft", "signed"}]
NoMemo == [kind |-> "no memo"]

Chain(run, len) == [run |-> run, len |-> len]
Rendered(memo, by) == [memo |-> memo, by |-> by]
Finalized(memo) == [memo EXCEPT !.status = "signed"]

Idle == [kind |-> "idle"]
Drafting(run, memo, verified) ==
    [kind |-> "draft", run |-> run, memo |-> memo, verified |-> verified]
Signing(memo, by) == [kind |-> "sign", memo |-> memo, by |-> by]

Put(name, content) == file' = [file EXCEPT ![name] = content]

(***************************************************************************)
(* What the commands write, in their order.                                *)
(***************************************************************************)
\* wrong variant: the manifest is written before the files it describes
DraftWritesManifestEarly(memo) ==
    IF memo = NoMemo THEN <<"jsonl", "manifest", "memo", "events">>
                     ELSE <<"jsonl", "manifest", "memo", "md", "html", "events">>
DraftWrites(memo) ==
    IF memo = NoMemo THEN <<"jsonl", "memo", "events", "manifest">>
                     ELSE <<"jsonl", "memo", "md", "html", "events", "manifest">>

\* wrong variant: the exports are left as they were drafted
SignWritesOnlySignature == <<"signature">>
SignWrites == <<"md", "html", "signature">>

\* wrong variant: the anchor is read before SESSION_CLOSE is appended
ExpectedHeadEarly(run) == Chain(run, FullLength - 1)
ExpectedHead(run) == Chain(run, FullLength)

\* The manifest digests the files as they are when it is written.
Manifest(run) ==
    [run |-> run, head |-> ExpectedHead(run),
     digests |-> [name \in {"jsonl", "memo", "events"} |-> file[name]]]

Content(name) ==
    IF command.kind = "draft" THEN
        CASE name = "jsonl"          -> file["store"]
          [] name = "memo"           -> [run |-> command.run, memo |-> command.memo,
                                         verified |-> command.verified]
          [] name \in {"md", "html"} -> Rendered(command.memo, Nobody)
          [] name = "events"         -> [run |-> command.run]
          [] name = "manifest"       -> Manifest(command.run)
    ELSE Rendered(command.memo, command.by)

\* A half-written export of the chain may read as a shorter chain.
Truncated(name) ==
    {Torn} \cup {Chain(command.run, len) : len \in IF name = "jsonl"
                                              THEN 0 .. FullLength - 1 ELSE {}}

(***************************************************************************)
(* Drafting.  The old store is unlinked first; the session then runs on a  *)
(* new one, entry by entry, and closes with whatever its turn delivers.    *)
(***************************************************************************)
UnlinkStore ==
    /\ command = Idle
    /\ runs < MaxRuns
    /\ runs' = runs + 1
    /\ command' = Drafting(runs + 1, NoMemo, FALSE)
    /\ Put("store", Absent)
    /\ outcome' = Idle
    /\ UNCHANGED <<todo, torn>>

InSession == command.kind = "draft" /\ todo = <<>>

Connect ==
    /\ InSession
    /\ file["store"] = Absent
    /\ Put("store", Chain(command.run, 0))
    /\ UNCHANGED <<command, todo, torn, runs, outcome>>

AppendEntry ==
    /\ InSession
    /\ Readable("store")
    /\ file["store"].len < FullLength - 1
    /\ Put("store", Chain(command.run, file["store"].len + 1))
    /\ UNCHANGED <<command, todo, torn, runs, outcome>>

\* SESSION_CLOSE; the turn verified a memo, delivered a draft, or neither.
CloseSession ==
    /\ InSession
    /\ Readable("store")
    /\ file["store"].len = FullLength - 1
    /\ Put("store", Chain(command.run, FullLength))
    /\ \E memo \in {m \in Memos : m.status = "draft"} \cup {NoMemo} :
           /\ command' = Drafting(command.run, memo, memo # NoMemo /\ memo.sound)
           /\ todo' = DraftWrites(memo)
    /\ UNCHANGED <<torn, runs, outcome>>

(***************************************************************************)
(* Signing: the memo is read from the file and gated again, against the    *)
(* pack the analyst names; only an approval of a passing draft goes on.    *)
(***************************************************************************)
\* wrong variant: the session's own verdict is believed
GatePassesAsRecorded(memo, pack) ==
    memo.status = "draft" /\ memo.pack = pack /\ file["memo"].verified
GatePasses(memo, pack) == memo.status = "draft" /\ memo.pack = pack /\ memo.sound

SignMemo ==
    /\ command = Idle
    /\ Readable("memo")
    /\ file["memo"].memo # NoMemo
    /\ \E pack \in Packs, analyst \in Analysts :
           /\ GatePasses(file["memo"].memo, pack)
           /\ command' = Signing(Finalized(file["memo"].memo), analyst)
    /\ todo' = SignWrites
    /\ outcome' = Idle
    /\ UNCHANGED <<file, torn, runs>>

(***************************************************************************)
(* Writing a file, and dying.                                              *)
(***************************************************************************)
Truncate ==
    /\ todo # <<>> /\ ~ torn
    /\ \E start \in Truncated(Head(todo)) : Put(Head(todo), start)
    /\ torn' = TRUE
    /\ UNCHANGED <<command, todo, runs, outcome>>

Fill ==
    /\ torn
    /\ Put(Head(todo), Content(Head(todo)))
    /\ todo' = Tail(todo)
    /\ torn' = FALSE
    /\ IF Len(todo) = 1 THEN command' = Idle /\ outcome' = command
                        ELSE UNCHANGED <<command, outcome>>
    /\ UNCHANGED runs

Crash ==
    /\ command # Idle
    /\ command' = Idle /\ todo' = <<>> /\ torn' = FALSE
    /\ UNCHANGED <<file, runs, outcome>>

\* Somebody edits memo.json; what he writes still reads as a memo.
EditMemo ==
    /\ command = Idle
    /\ Readable("memo")
    /\ \E memo \in Memos : Put("memo", [file["memo"] EXCEPT !.memo = memo])
    /\ outcome' = Idle
    /\ UNCHANGED <<command, todo, torn, runs>>

WorkspaceInit ==
    /\ file = [name \in Names |-> Absent]
    /\ command = Idle
    /\ todo = <<>>
    /\ torn = FALSE
    /\ runs = 0
    /\ outcome = Idle

WorkspaceNext ==
    \/ UnlinkStore \/ Connect \/ AppendEntry \/ CloseSession
    \/ SignMemo \/ Truncate \/ Fill \/ Crash \/ EditMemo

WorkspaceSpec == WorkspaceInit /\ [][WorkspaceNext]_workspaceVars

(***************************************************************************)
(* What a reader of the directory can check.                               *)
(***************************************************************************)
\* verify-ledger --expect-head-from session_manifest.json on one of the two
\* forms of the chain.
VerifyLedger(name) ==
    Readable("manifest") /\ Readable(name) /\ file[name] = file["manifest"].head

\* The files are those whose digests the manifest records.
DigestsMatch ==
    Readable("manifest") /\ \A name \in {"jsonl", "memo", "events"} :
        file["manifest"].digests[name] = file[name]

Sealed == VerifyLedger("jsonl") /\ DigestsMatch

(***************************************************************************)
(* Properties.                                                             *)
(***************************************************************************)
\* Nothing in the directory carries a signature over a memo that its gate
\* would not pass, whatever was done to memo.json between the commands.
SignedIsVerified ==
    \A name \in {"md", "html", "signature"} :
        Readable(name) /\ file[name].by # Nobody =>
            file[name].memo.sound /\ file[name].memo.status = "signed"

\* A directory whose chain matches the anchor and whose files match the
\* manifest's digests is one session's, whole: no crash or rerun leaves a
\* mixture of two that passes.
SealedIsOneSession ==
    Sealed =>
        LET run == file["manifest"].run
        IN  /\ file["jsonl"] = Chain(run, FullLength)
            /\ \A name \in {"memo", "events"} :
                   Readable(name) /\ file[name].run = run

\* A drafting session that ran to its end leaves a directory that checks, in
\* both forms of the chain, and exports that show its memo unsigned.
FinishedIsSealed ==
    outcome.kind = "draft" =>
        /\ Sealed /\ VerifyLedger("store")
        /\ file["manifest"].run = outcome.run
        /\ outcome.memo # NoMemo =>
               \A name \in {"md", "html"} : file[name] = Rendered(outcome.memo, Nobody)

\* A signing that ran to its end leaves both exports and the signature over
\* the same memo by the same analyst.
SignedTogether ==
    outcome.kind = "sign" =>
        \A name \in {"md", "html", "signature"} :
            file[name] = Rendered(outcome.memo, outcome.by)

\* A memo cannot be signed twice (tests/test_memo_signature.py): no signing
\* starts over a memo the directory holds a signature of.
SignedOnce ==
    command.kind = "sign" /\ Readable("signature") =>
        file["signature"].memo # command.memo
====
