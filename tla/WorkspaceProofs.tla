---- MODULE WorkspaceProofs ----
(***************************************************************************)
(* What module Workspace's run checks for two packs, two analysts and two  *)
(* sessions, proved for any packs and analysts, for chains of any length   *)
(* and for any number of drafting sessions.                                *)
(***************************************************************************)
EXTENDS Workspace, SequenceTheorems, TLAPS

(***************************************************************************)
(* The inductive invariant.                                                *)
(***************************************************************************)
Drafts == {memo \in Memos : memo.status = "draft"} \cup {NoMemo}
Signed == {memo \in Memos : memo.status = "signed" /\ memo.sound}

\* The command running, its memo a draft or a passing one finalized.
CommandTyped ==
    \/ command = Idle
    \/ \E run \in Nat, memo \in Drafts, verified \in BOOLEAN :
           command = Drafting(run, memo, verified)
    \/ \E memo \in Signed, analyst \in Analysts : command = Signing(memo, analyst)

Chains == [run : Nat, len : 0 .. FullLength]
MemoFiles == [run : Nat, memo : Memos \cup {NoMemo}, verified : BOOLEAN]
EventFiles == [run : Nat]
Exports == [memo : Memos, by : {Nobody}] \cup [memo : Signed, by : Analysts]

\* A manifest describes one session, whole, whatever the directory holds now.
DescribesOneSession(m) ==
    /\ m.head = Chain(m.run, FullLength)
    /\ m.digests["jsonl"] = Chain(m.run, FullLength)
    /\ m.digests["memo"] \in MemoFiles /\ m.digests["memo"].run = m.run
    /\ m.digests["events"] \in EventFiles /\ m.digests["events"].run = m.run

FilesTyped ==
    /\ file = [name \in Names |-> file[name]]
    /\ file["store"] \in {Absent} \cup Chains
    /\ Readable("jsonl") => file["jsonl"] \in Chains
    /\ Readable("memo") => file["memo"] \in MemoFiles
    /\ \A name \in {"md", "html", "signature"} : Readable(name) => file[name] \in Exports
    /\ Readable("events") => file["events"] \in EventFiles
    /\ Readable("manifest") => DescribesOneSession(file["manifest"])

\* Files are written by the command running only, and a signing is nothing
\* but its writes; what ended last is forgotten when the next one starts.
OneCommand ==
    /\ runs \in Nat
    /\ command = Idle => todo = <<>>
    /\ command.kind = "sign" => todo # <<>>
    /\ torn \in BOOLEAN
    /\ torn => todo # <<>>
    /\ command # Idle => outcome = Idle

CommandWrites == IF command.kind = "draft" THEN DraftWrites(command.memo) ELSE SignWrites

\* The command has written the first files of its order, and they hold what
\* it writes, when the next one is due.
WrittenBefore(k) ==
    /\ todo = SubSeq(CommandWrites, k, Len(CommandWrites))
    /\ \A i \in 1 .. k - 1 : file[CommandWrites[i]] = Content(CommandWrites[i])

Halfway == todo # <<>> => \E k \in 1 .. Len(CommandWrites) : WrittenBefore(k)

\* A session's files are written when its chain is whole.
ChainIsWhole ==
    command.kind = "draft" /\ todo # <<>> => file["store"] = Chain(command.run, FullLength)

WorkspaceInv ==
    /\ CommandTyped /\ FilesTyped
    /\ OneCommand /\ Halfway /\ ChainIsWhole
    /\ FinishedIsSealed /\ SignedTogether

(***************************************************************************)
(* Lemmas.                                                                 *)
(***************************************************************************)
\* A file that holds something is neither missing nor truncated.
LEMMA ContentIsReadable ==
    /\ \A c \in Chains \cup MemoFiles \cup EventFiles \cup Exports : c \notin {Absent, Torn}
    /\ \A run : Manifest(run) \notin {Absent, Torn}
    /\ \A run, len : Chain(run, len) \notin {Absent, Torn}
<1> USE DEF Absent, Torn
<1>1. \A c \in Chains : c \notin {Absent, Torn}
  BY DEF Chains
<1>2. \A c \in MemoFiles : c \notin {Absent, Torn}
  BY DEF MemoFiles
<1>3. \A c \in EventFiles : c \notin {Absent, Torn}
  BY DEF EventFiles
<1>4. \A c \in Exports : c \notin {Absent, Torn}
  BY DEF Exports
<1>5. \A run : Manifest(run) \notin {Absent, Torn}
  BY DEF Manifest
<1>6. \A run, len : Chain(run, len) \notin {Absent, Torn}
  BY DEF Chain
<1> QED BY <1>1, <1>2, <1>3, <1>4, <1>5, <1>6

\* What is running is told apart by its kind.
LEMMA CommandKinds ==
    ASSUME CommandTyped
    PROVE  /\ command = Idle <=> command.kind = "idle"
           /\ command.kind \in {"idle", "draft", "sign"}
           /\ command.kind = "draft" =>
                  /\ command = Drafting(command.run, command.memo, command.verified)
                  /\ command.run \in Nat
                  /\ command.memo \in Drafts
                  /\ command.verified \in BOOLEAN
           /\ command.kind = "sign" =>
                  /\ command = Signing(command.memo, command.by)
                  /\ command.memo \in Signed /\ command.by \in Analysts
<1>1. CASE command = Idle
  BY <1>1 DEF Idle
<1>2. CASE \E run \in Nat, memo \in Drafts, verified \in BOOLEAN :
               command = Drafting(run, memo, verified)
  BY <1>2 DEF Idle, Drafting
<1>3. CASE \E memo \in Signed, analyst \in Analysts : command = Signing(memo, analyst)
  BY <1>3 DEF Idle, Signing
<1> QED BY <1>1, <1>2, <1>3 DEF CommandTyped

\* The files a command writes: each once, the manifest of a session last and
\* after what it describes, and of a signing the two exports and the signature.
LEMMA WritesInOrder ==
    ASSUME CommandTyped, command # Idle
    PROVE  /\ CommandWrites \in Seq(Names) /\ CommandWrites # <<>>
           /\ \A i, j \in 1 .. Len(CommandWrites) : CommandWrites[i] = CommandWrites[j] => i = j
           /\ \A i \in 1 .. Len(CommandWrites) : CommandWrites[i] # "store"
           /\ command.kind = "draft" =>
                  /\ \A i \in 1 .. Len(CommandWrites) :
                         CommandWrites[i] = "manifest" <=> i = Len(CommandWrites)
                  /\ \A i \in 1 .. Len(CommandWrites) : CommandWrites[i] # "signature"
                  /\ \A name \in {"jsonl", "memo", "events"} :
                         \E i \in 1 .. Len(CommandWrites) - 1 : CommandWrites[i] = name
                  /\ \A name \in {"md", "html"} :
                         command.memo # NoMemo <=>
                             \E i \in 1 .. Len(CommandWrites) - 1 : CommandWrites[i] = name
           /\ command.kind = "sign" =>
                  /\ \A i \in 1 .. Len(CommandWrites) :
                         CommandWrites[i] \in {"md", "html", "signature"}
                  /\ \A name \in {"md", "html", "signature"} :
                         \E i \in 1 .. Len(CommandWrites) : CommandWrites[i] = name
<1>1. CASE command.kind = "draft" /\ command.memo = NoMemo
  <2>1. CommandWrites = <<"jsonl", "memo", "events", "manifest">>
    BY <1>1 DEF CommandWrites, DraftWrites
  <2> HIDE DEF CommandWrites
  <2> QED BY <2>1, <1>1 DEF Names
<1>2. CASE command.kind = "draft" /\ command.memo # NoMemo
  <2>1. CommandWrites = <<"jsonl", "memo", "md", "html", "events", "manifest">>
    BY <1>2 DEF CommandWrites, DraftWrites
  <2> HIDE DEF CommandWrites
  <2> QED BY <2>1, <1>2 DEF Names
<1>3. CASE command.kind = "sign"
  <2>1. CommandWrites = <<"md", "html", "signature">>
    BY <1>3 DEF CommandWrites, SignWrites
  <2> HIDE DEF CommandWrites
  <2> QED BY <2>1, <1>3 DEF Names
<1> QED BY <1>1, <1>2, <1>3, CommandKinds

\* The file due is the k-th, and the rest follow it.
LEMMA NextDue ==
    ASSUME CommandTyped, command # Idle, NEW k \in 1 .. Len(CommandWrites), WrittenBefore(k)
    PROVE  /\ Head(todo) = CommandWrites[k] /\ Head(todo) \in Names
           /\ Len(todo) = 1 <=> k = Len(CommandWrites)
           /\ Tail(todo) = SubSeq(CommandWrites, k + 1, Len(CommandWrites))
           /\ Tail(todo) = <<>> <=> Len(todo) = 1
<1>1. CommandWrites \in Seq(Names) /\ Len(CommandWrites) \in Nat
  BY WritesInOrder
<1> HIDE DEF CommandWrites
<1>2. todo = SubSeq(CommandWrites, k, Len(CommandWrites))
  BY DEF WrittenBefore
<1>3. Len(todo) = Len(CommandWrites) - k + 1 /\ todo \in Seq(Names)
  BY <1>1, <1>2
<1>4. Head(todo) = CommandWrites[k] /\ Head(todo) \in Names
  BY <1>1, <1>2, <1>3
<1>5. CASE k = Len(CommandWrites)
  <2>1. SubSeq(CommandWrites, k + 1, Len(CommandWrites)) = <<>>
    BY <1>1, <1>5
  <2>2. Len(todo) = 1
    BY <1>1, <1>3, <1>5
  <2>3. Tail(todo) \in Seq(Names) /\ Len(Tail(todo)) = 0
    BY <1>3, <2>2, HeadTailProperties
  <2>4. Tail(todo) = <<>>
    BY <2>3, EmptySeq
  <2> QED BY <1>4, <1>5, <2>1, <2>2, <2>4
<1>6. CASE k # Len(CommandWrites)
  <2>1. Tail(todo) = SubSeq(CommandWrites, k + 1, Len(CommandWrites))
    BY <1>1, <1>2, <1>3, <1>6
  <2>2. Len(Tail(todo)) # 0 /\ Len(todo) # 1
    BY <1>1, <1>3, <1>6, <2>1
  <2>3. Tail(todo) # <<>> /\ Len(todo) # 1
    BY <2>2, EmptySeq, Zenon
  <2> QED BY <1>4, <1>6, <2>1, <2>3
<1> QED BY <1>5, <1>6

\* Writing one file leaves the others alone.
LEMMA PutOne ==
    ASSUME FilesTyped, NEW name \in Names, NEW content, Put(name, content)
    PROVE  /\ file'[name] = content
           /\ \A other \in Names \ {name} : file'[other] = file[other]
           /\ file' = [n \in Names |-> file'[n]]
<1>1. file = [n \in Names |-> file[n]]
  BY DEF FilesTyped
<1> QED BY <1>1 DEF Put

\* What a command writes is of the file's type; a manifest describes the
\* session that writes it, since its files are written before it is.
LEMMA ContentTyped ==
    ASSUME CommandTyped, FilesTyped, ChainIsWhole, command # Idle, todo # <<>>,
           NEW k \in 1 .. Len(CommandWrites), WrittenBefore(k), NEW name, name = CommandWrites[k]
    PROVE  /\ name = "jsonl" => Content(name) \in Chains
           /\ name = "memo" => Content(name) \in MemoFiles
           /\ name \in {"md", "html", "signature"} => Content(name) \in Exports
           /\ name = "events" => Content(name) \in EventFiles
           /\ name = "manifest" => DescribesOneSession(Content(name))
<1> USE WorkspaceAssumption
<1> USE DEF Chain
<1>1. CASE command.kind = "sign"
  <2>1. Content(name) \in Exports /\ name \in {"md", "html", "signature"}
    BY <1>1, WritesInOrder, CommandKinds DEF Content, Rendered, Exports
  <2> QED BY <2>1
<1>2. CASE command.kind = "draft"
  <2>1. /\ command.run \in Nat /\ command.memo \in Memos \cup {NoMemo}
        /\ command.verified \in BOOLEAN
        /\ file["store"] = [run |-> command.run, len |-> FullLength]
    BY <1>2, CommandKinds DEF Drafts, ChainIsWhole
  <2>2. name = "jsonl" => Content(name) \in Chains
    BY <1>2, <2>1 DEF Content, Chains
  <2>3. name = "memo" => Content(name) \in MemoFiles
    BY <1>2, <2>1 DEF Content, MemoFiles
  <2>4. name \in {"md", "html"} => Content(name) \in Exports
    <3> SUFFICES ASSUME name \in {"md", "html"} PROVE Content(name) \in Exports
      OBVIOUS
    <3>1. k # Len(CommandWrites)
      BY <1>2, WritesInOrder
    <3>2. command.memo \in Memos
      BY <1>2, <2>1, <3>1, WritesInOrder, SMTT(30)
    <3> QED BY <1>2, <3>2 DEF Content, Exports, Rendered
  <2>5. name = "events" => Content(name) \in EventFiles
    BY <1>2, <2>1 DEF Content, EventFiles
  <2>6. name = "manifest" => DescribesOneSession(Content(name))
    <3> SUFFICES ASSUME name = "manifest" PROVE DescribesOneSession(Content(name))
      OBVIOUS
    <3>1. k = Len(CommandWrites)
      BY <1>2, WritesInOrder
    <3>2. \A n \in {"jsonl", "memo", "events"} : file[n] = Content(n)
      BY <1>2, <3>1, WritesInOrder DEF WrittenBefore
    <3>3. /\ file["jsonl"] = Chain(command.run, FullLength)
          /\ file["memo"] \in MemoFiles /\ file["memo"].run = command.run
          /\ file["events"] \in EventFiles /\ file["events"].run = command.run
      BY <1>2, <2>1, <3>2 DEF Content, MemoFiles, EventFiles
    <3>4. Content(name) = Manifest(command.run)
      BY <1>2 DEF Content
    <3> QED BY <3>3, <3>4 DEF DescribesOneSession, Manifest, ExpectedHead
  <2>7. name # "signature"
    BY <1>2, WritesInOrder
  <2> QED BY <2>2, <2>3, <2>4, <2>5, <2>6, <2>7
<1> QED BY <1>1, <1>2, CommandKinds

\* Touching the file that is due leaves what was written before it.
LEMMA WrittenStays ==
    ASSUME CommandTyped, FilesTyped, command # Idle,
           NEW k \in 1 .. Len(CommandWrites), WrittenBefore(k),
           NEW content, Put(CommandWrites[k], content), command' = command
    PROVE  \A i \in 1 .. k - 1 :
               /\ file'[CommandWrites[i]] = file[CommandWrites[i]]
               /\ Content(CommandWrites[i])' = Content(CommandWrites[i])
<1> SUFFICES ASSUME NEW i \in 1 .. k - 1
             PROVE  /\ file'[CommandWrites[i]] = file[CommandWrites[i]]
                    /\ Content(CommandWrites[i])' = Content(CommandWrites[i])
  OBVIOUS
<1>1. CommandWrites \in Seq(Names) /\ i \in 1 .. Len(CommandWrites) /\ i # k
  BY WritesInOrder
<1>2. CommandWrites[i] # CommandWrites[k] /\ CommandWrites[k] # "store"
  BY <1>1, WritesInOrder
<1>3. /\ CommandWrites[i] \in Names /\ CommandWrites[k] \in Names
  BY <1>1
<1>4. file'[CommandWrites[i]] = file[CommandWrites[i]] /\ file'["store"] = file["store"]
  BY <1>2, <1>3, PutOne DEF Names
<1>5. command.kind = "draft" => CommandWrites[i] # "manifest"
  BY <1>1, WritesInOrder, SMTT(30)
<1>6. CommandWrites' = CommandWrites
  BY DEF CommandWrites
<1>7. Content(CommandWrites[i])' = Content(CommandWrites[i])
  BY <1>4, <1>5, <1>6 DEF Content
<1> QED BY <1>4, <1>7

\* Nothing is claimed of a directory that was touched since a command ended.
LEMMA NothingFinished == outcome' = Idle => FinishedIsSealed' /\ SignedTogether'
BY DEF Idle, FinishedIsSealed, SignedTogether

\* Truncating the file that is due keeps the invariant.
LEMMA TruncateKeepsInv == WorkspaceInv /\ Truncate => WorkspaceInv'
<1> SUFFICES ASSUME WorkspaceInv, Truncate PROVE WorkspaceInv'
  OBVIOUS
<1> USE DEF WorkspaceInv
<1>1. command # Idle /\ command' = command /\ todo' = todo /\ todo # <<>>
  BY DEF Truncate, OneCommand
<1>2. PICK k \in 1 .. Len(CommandWrites) : WrittenBefore(k)
  BY <1>1 DEF Halfway
<1> DEFINE name == CommandWrites[k]
<1>3. Head(todo) = name /\ name \in Names /\ name # "store"
  BY <1>1, <1>2, NextDue, WritesInOrder
<1>4. PICK start \in Truncated(name) : Put(name, start)
  BY <1>3 DEF Truncate
<1> HIDE DEF name
<1>5. start = Torn \/ (name = "jsonl" /\ start \in Chains)
  <2>1. name = "jsonl" => command.kind = "draft"
    BY <1>1, WritesInOrder, CommandKinds DEF name
  <2>2. name = "jsonl" => command.run \in Nat
    BY <2>1, CommandKinds
  <2>3. CASE start = Torn
    BY <2>3
  <2>4. CASE name = "jsonl" /\ start # Torn
    <3>1. \E len \in 0 .. FullLength - 1 : start = [run |-> command.run, len |-> len]
      BY <1>4, <2>4 DEF Truncated, Chain
    <3> QED BY <2>2, <2>4, <3>1, WorkspaceAssumption DEF Chains
  <2>5. CASE name # "jsonl"
    BY <1>4, <2>5 DEF Truncated
  <2> QED BY <2>3, <2>4, <2>5
<1>6. /\ file'[name] = start
      /\ \A other \in Names \ {name} : file'[other] = file[other]
      /\ file' = [n \in Names |-> file'[n]]
  BY <1>3, <1>4, PutOne
<1>7. CommandTyped' /\ CommandWrites' = CommandWrites
  BY <1>1 DEF CommandTyped, CommandWrites
<1>8. FilesTyped'
  <2>1. file'["store"] \in {Absent} \cup Chains
    BY <1>3, <1>6 DEF FilesTyped, Names
  <2>2. Readable("jsonl")' => file'["jsonl"] \in Chains
    BY <1>5, <1>6 DEF FilesTyped, Names, Readable
  <2>3. Readable("memo")' => file'["memo"] \in MemoFiles
    BY <1>5, <1>6 DEF FilesTyped, Names, Readable
  <2>4. ASSUME NEW n \in {"md", "html", "signature"}
        PROVE  Readable(n)' => file'[n] \in Exports
    BY <1>5, <1>6 DEF FilesTyped, Names, Readable
  <2>5. Readable("events")' => file'["events"] \in EventFiles
    BY <1>5, <1>6 DEF FilesTyped, Names, Readable
  <2>6. Readable("manifest")' => DescribesOneSession(file'["manifest"])
    BY <1>5, <1>6 DEF FilesTyped, Names, Readable
  <2> QED BY <1>6, <2>1, <2>2, <2>3, <2>4, <2>5, <2>6 DEF FilesTyped, DescribesOneSession
<1>9. OneCommand'
  BY <1>1 DEF Truncate, OneCommand
<1>10. Halfway'
  <2>1. WrittenBefore(k)'
    BY <1>1, <1>2, <1>4, <1>7, WrittenStays DEF WrittenBefore, name
  <2> QED BY <1>7, <2>1 DEF Halfway
<1>11. ChainIsWhole'
  BY <1>1, <1>3, <1>6 DEF ChainIsWhole, Names
<1>12. FinishedIsSealed' /\ SignedTogether'
  BY <1>1, NothingFinished DEF Truncate, OneCommand
<1> QED BY <1>7, <1>8, <1>9, <1>10, <1>11, <1>12

\* So does filling it, and with the last file the command has told the truth.
LEMMA FillKeepsInv == WorkspaceInv /\ Fill => WorkspaceInv'
<1> SUFFICES ASSUME WorkspaceInv, Fill PROVE WorkspaceInv'
  OBVIOUS
<1> USE DEF WorkspaceInv
<1>1. command # Idle /\ todo # <<>> /\ outcome = Idle /\ runs' = runs /\ torn' = FALSE
  BY DEF Fill, OneCommand
<1>2. PICK k \in 1 .. Len(CommandWrites) : WrittenBefore(k)
  BY <1>1 DEF Halfway
<1> DEFINE name == CommandWrites[k]
<1>3. /\ Head(todo) = name /\ name \in Names /\ name # "store"
      /\ Len(todo) = 1 <=> k = Len(CommandWrites)
      /\ todo' = SubSeq(CommandWrites, k + 1, Len(CommandWrites))
      /\ todo' = <<>> <=> Len(todo) = 1
  BY <1>1, <1>2, NextDue, WritesInOrder DEF Fill
<1>4. Put(name, Content(name))
  BY <1>3 DEF Fill
<1>5. /\ name = "jsonl" => Content(name) \in Chains
      /\ name = "memo" => Content(name) \in MemoFiles
      /\ name \in {"md", "html", "signature"} => Content(name) \in Exports
      /\ name = "events" => Content(name) \in EventFiles
      /\ name = "manifest" => DescribesOneSession(Content(name))
  BY <1>1, <1>2, ContentTyped
<1> HIDE DEF name
<1>6. /\ file'[name] = Content(name)
      /\ \A other \in Names \ {name} : file'[other] = file[other]
      /\ file' = [n \in Names |-> file'[n]]
  BY <1>3, <1>4, PutOne
<1>7. FilesTyped'
  <2>1. file'["store"] \in {Absent} \cup Chains
    BY <1>3, <1>6 DEF FilesTyped, Names
  <2>2. Readable("jsonl")' => file'["jsonl"] \in Chains
    BY <1>5, <1>6 DEF FilesTyped, Names, Readable
  <2>3. Readable("memo")' => file'["memo"] \in MemoFiles
    BY <1>5, <1>6 DEF FilesTyped, Names, Readable
  <2>4. ASSUME NEW n \in {"md", "html", "signature"}
        PROVE  Readable(n)' => file'[n] \in Exports
    BY <1>5, <1>6 DEF FilesTyped, Names, Readable
  <2>5. Readable("events")' => file'["events"] \in EventFiles
    BY <1>5, <1>6 DEF FilesTyped, Names, Readable
  <2>6. Readable("manifest")' => DescribesOneSession(file'["manifest"])
    BY <1>5, <1>6 DEF FilesTyped, Names, Readable
  <2> QED BY <1>6, <2>1, <2>2, <2>3, <2>4, <2>5, <2>6 DEF FilesTyped, DescribesOneSession
<1>8. CASE k # Len(CommandWrites)
  <2>1. command' = command /\ outcome' = outcome /\ todo' # <<>>
    BY <1>3, <1>8 DEF Fill
  <2>2. CommandTyped' /\ CommandWrites' = CommandWrites
    BY <2>1 DEF CommandTyped, CommandWrites
  <2>3. OneCommand'
    BY <1>1, <2>1 DEF OneCommand
  <2>4. k \in Nat /\ k + 1 \in 1 .. Len(CommandWrites)
    BY <1>1, <1>8, WritesInOrder
  <2>5. WrittenBefore(k + 1)'
    <3>1. \A i \in 1 .. k - 1 :
              /\ file'[CommandWrites[i]] = file[CommandWrites[i]]
              /\ Content(CommandWrites[i])' = Content(CommandWrites[i])
      BY <1>1, <1>2, <1>4, <2>1, WrittenStays DEF name
    <3>2. Content(CommandWrites[k])' = Content(CommandWrites[k])
      <4>1. command.kind = "draft" => name # "manifest"
        BY <1>1, <1>8, WritesInOrder DEF name
      <4>2. file'["store"] = file["store"]
        BY <1>3, <1>6 DEF Names
      <4> QED BY <2>1, <2>2, <4>1, <4>2 DEF Content, name
    <3>3. \A i \in 1 .. k : file'[CommandWrites[i]] = Content(CommandWrites[i])'
      BY <1>2, <1>6, <2>2, <2>4, <3>1, <3>2 DEF WrittenBefore, name
    <3> QED BY <1>3, <2>2, <2>4, <3>3 DEF WrittenBefore
  <2>6. Halfway'
    BY <2>2, <2>4, <2>5 DEF Halfway
  <2>7. ChainIsWhole'
    BY <1>1, <1>3, <1>6, <2>1 DEF ChainIsWhole, Names
  <2>8. FinishedIsSealed' /\ SignedTogether'
    BY <1>1, <2>1, NothingFinished
  <2> QED BY <1>7, <2>2, <2>3, <2>6, <2>7, <2>8
<1>9. CASE k = Len(CommandWrites)
  <2>1. command' = Idle /\ outcome' = command /\ todo' = <<>>
    BY <1>3, <1>9 DEF Fill
  <2>2. CommandTyped' /\ OneCommand' /\ Halfway' /\ ChainIsWhole'
    BY <1>1, <2>1 DEF CommandTyped, OneCommand, Halfway, ChainIsWhole, Idle
  <2>3. \A i \in 1 .. k - 1 : file'[CommandWrites[i]] = Content(CommandWrites[i])
    <3> SUFFICES ASSUME NEW i \in 1 .. k - 1
                 PROVE  file'[CommandWrites[i]] = Content(CommandWrites[i])
      OBVIOUS
    <3>1. /\ CommandWrites[i] \in Names /\ CommandWrites[i] # name
      BY <1>1, WritesInOrder DEF name
    <3> QED BY <1>2, <1>6, <3>1 DEF WrittenBefore
  <2>4. FinishedIsSealed'
    <3> SUFFICES ASSUME command.kind = "draft"
                 PROVE  /\ Sealed' /\ VerifyLedger("store")'
                        /\ file'["manifest"].run = command.run
                        /\ command.memo # NoMemo =>
                               \A n \in {"md", "html"} : file'[n] = Rendered(command.memo, Nobody)
      BY <2>1 DEF FinishedIsSealed
    <3>1. name = "manifest"
      BY <1>1, <1>9, WritesInOrder DEF name
    <3>2. file'["manifest"] = Manifest(command.run)
      BY <1>6, <3>1 DEF Content
    <3>3. \A n \in {"jsonl", "memo", "events"} : file'[n] = Content(n)
      BY <1>1, <1>9, <2>3, WritesInOrder
    <3>4. /\ file["store"] = Chain(command.run, FullLength)
          /\ file'["store"] = Chain(command.run, FullLength)
          /\ file'["jsonl"] = Chain(command.run, FullLength)
      BY <1>1, <1>3, <1>6, <3>3 DEF ChainIsWhole, Names, Content
    <3>5. \A n \in {"jsonl", "memo", "events"} : file'[n] = file[n]
      BY <1>6, <3>1 DEF Names
    <3>6. Readable("manifest")' /\ Readable("jsonl")' /\ Readable("store")'
      BY <3>2, <3>4, ContentIsReadable DEF Readable
    <3>7. Sealed' /\ VerifyLedger("store")'
      BY <3>2, <3>4, <3>5, <3>6
         DEF Sealed, VerifyLedger, DigestsMatch, Manifest, ExpectedHead
    <3>8. command.memo # NoMemo =>
              \A n \in {"md", "html"} : file'[n] = Rendered(command.memo, Nobody)
      <4> SUFFICES ASSUME command.memo # NoMemo, NEW n \in {"md", "html"}
                   PROVE  file'[n] = Rendered(command.memo, Nobody)
        OBVIOUS
      <4>1. file'[n] = Content(n)
        BY <1>1, <1>9, <2>3, WritesInOrder
      <4> QED BY <4>1 DEF Content
    <3> QED BY <3>2, <3>7, <3>8 DEF Manifest
  <2>5. SignedTogether'
    <3> SUFFICES ASSUME command.kind = "sign", NEW n \in {"md", "html", "signature"}
                 PROVE  file'[n] = Rendered(command.memo, command.by)
      BY <2>1 DEF SignedTogether
    <3>1. file'[n] = Content(n)
      <4>1. PICK i \in 1 .. Len(CommandWrites) : CommandWrites[i] = n
        BY <1>1, WritesInOrder
      <4>2. CASE i = k
        BY <1>6, <4>1, <4>2 DEF name
      <4>3. CASE i # k
        <5>1. i \in 1 .. k - 1
          BY <1>1, <1>9, <4>3, WritesInOrder
        <5> QED BY <2>3, <4>1, <5>1
      <4> QED BY <4>2, <4>3
    <3> QED BY <3>1 DEF Content
  <2> QED BY <1>7, <2>2, <2>4, <2>5
<1> QED BY <1>8, <1>9

\* A session that closes writes its files of a whole chain, all still due.
LEMMA CloseSessionKeepsInv == WorkspaceInv /\ CloseSession => WorkspaceInv'
<1> SUFFICES ASSUME WorkspaceInv, CloseSession PROVE WorkspaceInv'
  OBVIOUS
<1> USE DEF WorkspaceInv
<1>1. command.kind = "draft" /\ command # Idle /\ todo = <<>> /\ outcome' = Idle
  BY CommandKinds DEF CloseSession, InSession, OneCommand
<1>2. PICK memo \in Drafts :
          /\ command' = Drafting(command.run, memo, memo # NoMemo /\ memo.sound)
          /\ todo' = DraftWrites(memo)
  BY DEF CloseSession, Drafts
<1>3. command.run \in Nat
  BY <1>1, CommandKinds
<1>4. /\ file'["store"] = Chain(command.run, FullLength)
      /\ \A other \in Names \ {"store"} : file'[other] = file[other]
      /\ file' = [n \in Names |-> file'[n]]
  BY PutOne DEF CloseSession, Names
<1>5. CommandTyped' /\ command'.kind = "draft" /\ command'.run = command.run
  BY <1>2, <1>3 DEF CommandTyped, Drafting
<1>6. CommandWrites' = todo' /\ command' # Idle
  BY <1>2, <1>5 DEF CommandWrites, Drafting, Idle
<1>7. todo' \in Seq(Names) /\ todo' # <<>>
  <2>1. CASE memo = NoMemo
    <3>1. todo' = <<"jsonl", "memo", "events", "manifest">>
      BY <1>2, <2>1 DEF DraftWrites
    <3> QED BY <3>1 DEF Names
  <2>2. CASE memo # NoMemo
    <3>1. todo' = <<"jsonl", "memo", "md", "html", "events", "manifest">>
      BY <1>2, <2>2 DEF DraftWrites
    <3> QED BY <3>1 DEF Names
  <2> QED BY <2>1, <2>2
<1>8. FilesTyped'
  <2>1. file'["store"] \in Chains
    BY <1>3, <1>4, WorkspaceAssumption DEF Chains, Chain
  <2>2. \A n \in Names \ {"store"} : Readable(n)' <=> Readable(n)
    BY <1>4 DEF Readable
  <2> QED BY <1>4, <2>1, <2>2 DEF FilesTyped, DescribesOneSession, Names
<1>9. OneCommand'
  BY <1>1, <1>5, <1>6, <1>7 DEF CloseSession, OneCommand
<1>10. Halfway'
  <2>1. todo' = SubSeq(todo', 1, Len(todo')) /\ 1 \in 1 .. Len(todo')
    BY <1>7
  <2>2. WrittenBefore(1)'
    BY <1>6, <2>1 DEF WrittenBefore
  <2> QED BY <1>6, <2>1, <2>2 DEF Halfway
<1>11. ChainIsWhole' /\ FinishedIsSealed' /\ SignedTogether'
  BY <1>1, <1>4, <1>5, NothingFinished DEF ChainIsWhole
<1> QED BY <1>5, <1>8, <1>9, <1>10, <1>11

\* A signing starts over a memo its gate passed, with all its files due.
LEMMA SignMemoKeepsInv == WorkspaceInv /\ SignMemo => WorkspaceInv'
<1> SUFFICES ASSUME WorkspaceInv, SignMemo PROVE WorkspaceInv'
  OBVIOUS
<1> USE DEF WorkspaceInv
<1> DEFINE memo == file["memo"].memo
<1>1. PICK analyst \in Analysts :
          /\ memo.status = "draft" /\ memo.sound
          /\ command' = Signing(Finalized(memo), analyst)
  BY DEF SignMemo, GatePasses
<1>2. memo \in Memos
  BY DEF SignMemo, FilesTyped, MemoFiles
<1>3. Finalized(memo) \in Signed
  BY <1>1, <1>2 DEF Finalized, Signed, Memos
<1>4. CommandTyped' /\ command'.kind = "sign" /\ command' # Idle
  BY <1>1, <1>3 DEF CommandTyped, Signing, Idle
<1>5. todo' = CommandWrites' /\ todo' = <<"md", "html", "signature">>
  BY <1>4 DEF SignMemo, CommandWrites, SignWrites
<1>6. file' = file /\ FilesTyped'
  BY DEF SignMemo, FilesTyped, DescribesOneSession, Readable
<1>7. OneCommand'
  BY <1>4, <1>5 DEF SignMemo, OneCommand
<1>8. Halfway'
  <2>1. WrittenBefore(1)' /\ 1 \in 1 .. Len(CommandWrites')
    BY <1>5 DEF WrittenBefore
  <2> QED BY <2>1 DEF Halfway
<1>9. ChainIsWhole' /\ FinishedIsSealed' /\ SignedTogether'
  BY <1>4, NothingFinished DEF SignMemo, ChainIsWhole
<1> QED BY <1>4, <1>6, <1>7, <1>8, <1>9

\* The rest of the steps: a session's entries, an edit, and dying.
LEMMA StepKeepsInv == WorkspaceInv /\ [WorkspaceNext]_workspaceVars => WorkspaceInv'
<1> SUFFICES ASSUME WorkspaceInv, [WorkspaceNext]_workspaceVars PROVE WorkspaceInv'
  OBVIOUS
<1> USE DEF WorkspaceInv
<1>1. CASE UnlinkStore
  <2>1. command' = Drafting(runs + 1, NoMemo, FALSE) /\ command' # Idle /\ todo' = <<>>
    BY <1>1 DEF UnlinkStore, OneCommand, Drafting, Idle
  <2>2. CommandTyped'
    <3>1. runs + 1 \in Nat /\ NoMemo \in Drafts
      BY DEF OneCommand, Drafts
    <3> QED BY <2>1, <3>1 DEF CommandTyped
  <2>3. FilesTyped'
    <3>1. /\ file'["store"] = Absent
          /\ \A other \in Names \ {"store"} : file'[other] = file[other]
          /\ file' = [n \in Names |-> file'[n]]
      BY <1>1, PutOne DEF UnlinkStore, Names
    <3>2. \A n \in Names \ {"store"} : Readable(n)' <=> Readable(n)
      BY <3>1 DEF Readable
    <3> QED BY <3>1, <3>2 DEF FilesTyped, DescribesOneSession, Names
  <2>4. OneCommand' /\ Halfway' /\ ChainIsWhole'
    BY <1>1, <2>1 DEF UnlinkStore, OneCommand, Halfway, ChainIsWhole, Drafting
  <2> QED BY <1>1, <2>2, <2>3, <2>4, NothingFinished DEF UnlinkStore
<1>2. CASE Connect \/ AppendEntry
  <2>1. /\ command.kind = "draft" /\ command # Idle /\ todo = <<>>
        /\ outcome' = Idle
        /\ UNCHANGED <<command, todo, torn, runs>>
    BY <1>2, CommandKinds DEF Connect, AppendEntry, InSession, OneCommand
  <2>2. \E len \in 0 .. FullLength : Put("store", Chain(command.run, len))
    <3>1. CASE Connect
      BY <3>1, WorkspaceAssumption DEF Connect
    <3>2. CASE AppendEntry
      <4>1. file["store"] \in Chains
        BY <3>2 DEF AppendEntry, Readable, FilesTyped
      <4> QED BY <3>2, <4>1, WorkspaceAssumption DEF AppendEntry, Chains
    <3> QED BY <1>2, <3>1, <3>2
  <2>3. FilesTyped'
    <3>1. PICK len \in 0 .. FullLength :
              /\ file'["store"] = Chain(command.run, len)
              /\ \A other \in Names \ {"store"} : file'[other] = file[other]
              /\ file' = [n \in Names |-> file'[n]]
      BY <2>2, PutOne DEF Names
    <3>2. file'["store"] \in Chains
      BY <2>1, <3>1, CommandKinds DEF Chain, Chains
    <3>3. \A n \in Names \ {"store"} : Readable(n)' <=> Readable(n)
      BY <3>1 DEF Readable
    <3> QED BY <3>1, <3>2, <3>3 DEF FilesTyped, DescribesOneSession, Names
  <2>4. CommandTyped' /\ OneCommand' /\ Halfway' /\ ChainIsWhole'
    BY <2>1 DEF CommandTyped, OneCommand, Halfway, ChainIsWhole
  <2> QED BY <2>1, <2>3, <2>4, NothingFinished
<1>3. CASE Crash
  <2>1. /\ command' = Idle /\ todo' = <<>> /\ torn' = FALSE /\ outcome' = Idle
        /\ file' = file /\ runs' = runs /\ runs \in Nat
    BY <1>3 DEF Crash, OneCommand
  <2>2. FilesTyped'
    BY <2>1 DEF FilesTyped, DescribesOneSession, Readable
  <2>3. OneCommand'
    <3>1. command'.kind # "sign"
      BY <2>1 DEF Idle
    <3> QED BY <2>1, <3>1 DEF OneCommand
  <2>4. CommandTyped' /\ Halfway' /\ ChainIsWhole'
    BY <2>1 DEF CommandTyped, Halfway, ChainIsWhole
  <2> QED BY <2>1, <2>2, <2>3, <2>4, NothingFinished
<1>4. CASE EditMemo
  <2>1. /\ command = Idle /\ todo = <<>> /\ outcome' = Idle
        /\ UNCHANGED <<command, todo, torn, runs>>
    BY <1>4 DEF EditMemo, OneCommand
  <2>2. FilesTyped'
    <3>1. file["memo"] \in MemoFiles
      BY <1>4 DEF EditMemo, FilesTyped
    <3>2. PICK memo \in Memos : Put("memo", [file["memo"] EXCEPT !.memo = memo])
      BY <1>4 DEF EditMemo
    <3>3. [file["memo"] EXCEPT !.memo = memo] \in MemoFiles
      BY <3>1 DEF MemoFiles
    <3>4. /\ file'["memo"] \in MemoFiles
          /\ \A other \in Names \ {"memo"} : file'[other] = file[other]
          /\ file' = [n \in Names |-> file'[n]]
      BY <3>2, <3>3, PutOne DEF Names
    <3>5. \A n \in Names \ {"memo"} : Readable(n)' <=> Readable(n)
      BY <3>4 DEF Readable
    <3> QED BY <3>4, <3>5 DEF FilesTyped, DescribesOneSession, Names
  <2>3. CommandTyped' /\ OneCommand' /\ Halfway' /\ ChainIsWhole'
    BY <2>1 DEF CommandTyped, OneCommand, Halfway, ChainIsWhole
  <2> QED BY <2>1, <2>2, <2>3, NothingFinished
<1>5. CASE UNCHANGED workspaceVars
  <2>1. UNCHANGED <<file, command, todo, torn, runs, outcome>>
    BY <1>5 DEF workspaceVars
  <2>2. FilesTyped' /\ CommandTyped' /\ OneCommand' /\ ChainIsWhole' /\ SignedTogether'
    BY <2>1 DEF FilesTyped, DescribesOneSession, Readable, CommandTyped, OneCommand,
                ChainIsWhole, SignedTogether
  <2>3. Halfway'
    BY <2>1 DEF Halfway, WrittenBefore, CommandWrites, Content, Manifest
  <2>4. FinishedIsSealed'
    BY <2>1 DEF FinishedIsSealed, Sealed, VerifyLedger, DigestsMatch, Readable
  <2> QED BY <2>2, <2>3, <2>4
<1> QED BY <1>1, <1>2, <1>3, <1>4, <1>5, CloseSessionKeepsInv, SignMemoKeepsInv,
           TruncateKeepsInv, FillKeepsInv DEF WorkspaceNext

(***************************************************************************)
(* Theorems.                                                               *)
(***************************************************************************)
\* The directory keeps the invariant through every command, edit and crash.
THEOREM WorkspaceInvariant == WorkspaceSpec => []WorkspaceInv
<1>1. WorkspaceInit => WorkspaceInv
  <2> SUFFICES ASSUME WorkspaceInit PROVE WorkspaceInv
    OBVIOUS
  <2>1. FilesTyped
    BY DEF WorkspaceInit, FilesTyped, Readable, Names
  <2>2. OneCommand /\ CommandTyped
    BY DEF WorkspaceInit, OneCommand, CommandTyped, Idle
  <2>3. Halfway /\ ChainIsWhole /\ FinishedIsSealed /\ SignedTogether
    BY DEF WorkspaceInit, Halfway, ChainIsWhole, FinishedIsSealed, SignedTogether, Idle
  <2> QED BY <2>1, <2>2, <2>3 DEF WorkspaceInv
<1> QED BY <1>1, StepKeepsInv, PTL DEF WorkspaceSpec

\* Nothing in the directory is ever signed that the gate would not pass.
THEOREM SignaturesAreVerified == WorkspaceSpec => []SignedIsVerified
<1>1. WorkspaceInv => SignedIsVerified
  BY DEF WorkspaceInv, FilesTyped, SignedIsVerified, Exports, Signed
<1> QED BY <1>1, WorkspaceInvariant, PTL

\* What passes for a sealed session is one session, whole.
THEOREM SealsHoldOneSession == WorkspaceSpec => []SealedIsOneSession
<1>1. WorkspaceInv => SealedIsOneSession
  <2> SUFFICES ASSUME WorkspaceInv, Sealed PROVE SealedIsOneSession
    BY DEF SealedIsOneSession
  <2>1. DescribesOneSession(file["manifest"])
    BY DEF WorkspaceInv, FilesTyped, Sealed, VerifyLedger
  <2>2. /\ file["jsonl"] = Chain(file["manifest"].run, FullLength)
        /\ file["memo"] \in MemoFiles /\ file["memo"].run = file["manifest"].run
        /\ file["events"] \in EventFiles /\ file["events"].run = file["manifest"].run
    BY <2>1 DEF Sealed, VerifyLedger, DigestsMatch, DescribesOneSession
  <2>3. Readable("memo") /\ Readable("events")
    BY <2>2, ContentIsReadable DEF Readable
  <2> QED BY <2>2, <2>3 DEF SealedIsOneSession
<1> QED BY <1>1, WorkspaceInvariant, PTL

\* A drafting that ran to its end left a sealed directory behind, in both
\* forms of the chain, with exports of its unsigned memo.
THEOREM FinishedSessionsAreSealed == WorkspaceSpec => []FinishedIsSealed
<1>1. WorkspaceInv => FinishedIsSealed
  BY DEF WorkspaceInv
<1> QED BY <1>1, WorkspaceInvariant, PTL

\* A signing that ran to its end left its exports and its signature over one
\* memo, by one analyst.
THEOREM SignaturesStandTogether == WorkspaceSpec => []SignedTogether
<1>1. WorkspaceInv => SignedTogether
  BY DEF WorkspaceInv
<1> QED BY <1>1, WorkspaceInvariant, PTL
====
