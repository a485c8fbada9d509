---- MODULE PromptRegistryProofs ----
(***************************************************************************)
(* What module PromptRegistry's run checks for two tasks and four texts,   *)
(* proved for any tasks, texts and seeds and any number of versions and    *)
(* pointer moves, by however many processes.                               *)
(***************************************************************************)
EXTENDS PromptRegistry, SequenceTheorems, TLAPS

(***************************************************************************)
(* The inductive invariant.                                                *)
(***************************************************************************)
Versions == [task : Tasks, label : Nat, text : Texts, parent : Texts \cup {NoText}]
Moves == [task : Tasks, text : Texts, action : {"activate", "rollback"}]
Registries == [versions : Seq(Versions), history : Seq(Moves)]

RegistryTypeOK ==
    /\ prompts \in [Texts -> {"absent", "torn", "whole"}]
    /\ manifest \in Registries \cup {Absent, Torn}
    /\ reg \in Registries \cup {Absent}
    /\ committed \in Registries \cup {Absent}
    /\ todo \in Seq(Texts \cup {ManifestFile})
    /\ torn \in BOOLEAN

\* Only a process that holds a registry writes, and it writes the manifest
\* once, after every prompt file of the registry it holds.
ManifestIsLast ==
    /\ torn => todo # <<>>
    /\ todo # <<>> => reg # Absent
    /\ \A i \in DOMAIN todo : todo[i] = ManifestFile <=> i = Len(todo)
    /\ todo # <<>> =>
           \A text \in TextsOf(reg) :
               prompts[text] = "whole" \/ \E i \in DOMAIN todo : todo[i] = text

\* The manifest is what was committed, or is being overwritten; a process
\* works on nothing else.
ManifestIsCommitted ==
    /\ Readable(manifest) => manifest = committed
    /\ manifest = Absent => committed = Absent

ExtendsCommitted ==
    reg # Absent /\ committed # Absent =>
        /\ Extends(reg.versions, committed.versions)
        /\ Extends(reg.history, committed.history)

\* A manifest that can be read has all its prompt files beside it, whole.
RecordedIsWritten ==
    Readable(manifest) => \A text \in TextsOf(manifest) : prompts[text] = "whole"

RegistryInv ==
    /\ RegistryTypeOK /\ ManifestIsLast /\ ManifestIsCommitted
    /\ ExtendsCommitted /\ RecordedIsWritten

(***************************************************************************)
(* Lemmas.                                                                 *)
(***************************************************************************)
\* A registry value is neither a missing manifest nor a truncated one.
LEMMA RegistryIsReadable ==
    ASSUME NEW r \in Registries
    PROVE  Readable(r) /\ r # Absent /\ r # Torn
<1>1. DOMAIN r = {"versions", "history"} /\ DOMAIN Absent = {"kind"} /\ DOMAIN Torn = {"kind"}
  BY DEF Registries, Absent, Torn
<1> QED BY <1>1 DEF Readable

\* The texts of a registry are texts.
LEMMA TextsOfTyped ==
    ASSUME NEW r \in Registries
    PROVE  TextsOf(r) \subseteq Texts
<1>1. r.versions \in Seq(Versions)
  BY DEF Registries
<1>2. \A i \in DOMAIN r.versions : r.versions[i] \in Versions
  BY <1>1
<1> QED BY <1>2 DEF TextsOf, Versions

\* A sequence extends itself, and still does with an element more.
LEMMA ExtendsReflexive ==
    ASSUME NEW S, NEW s \in Seq(S)
    PROVE  Extends(s, s)
BY DEF Extends

\* What is appended to a sequence leaves it an extension of what it extended.
LEMMA ExtendsAppend ==
    ASSUME NEW S, NEW s \in Seq(S), NEW t \in Seq(S), NEW e \in S, Extends(s, t)
    PROVE  Extends(Append(s, e), t)
<1>1. /\ Len(Append(s, e)) = Len(s) + 1
      /\ \A i \in 1 .. Len(s) : Append(s, e)[i] = s[i]
      /\ Append(s, e) \in Seq(S)
  BY AppendProperties
<1>2. Len(s) >= Len(t) /\ SubSeq(s, 1, Len(t)) = t /\ Len(s) \in Nat /\ Len(t) \in Nat
  BY DEF Extends
<1>3. \A i \in 1 .. Len(t) : t[i] = s[i]
  BY <1>2
<1>4. SubSeq(Append(s, e), 1, Len(t)) = t
  <2>1. /\ SubSeq(Append(s, e), 1, Len(t)) \in Seq(S)
        /\ Len(SubSeq(Append(s, e), 1, Len(t))) = Len(t)
        /\ \A i \in 1 .. Len(t) : SubSeq(Append(s, e), 1, Len(t))[i] = t[i]
    BY <1>1, <1>2, <1>3
  <2> QED BY <2>1, SeqEqual
<1> QED BY <1>1, <1>2, <1>4 DEF Extends

\* What Write and Seed set out to write: the prompt files, then the manifest.
LEMMA WriteOrderEndsWithManifest ==
    ASSUME NEW r \in Registries
    PROVE  /\ WriteOrder(r) \in Seq(Texts \cup {ManifestFile})
           /\ WriteOrder(r) # <<>>
           /\ \A i \in DOMAIN WriteOrder(r) :
                  WriteOrder(r)[i] = ManifestFile <=> i = Len(WriteOrder(r))
           /\ \A text \in TextsOf(r) : \E i \in DOMAIN WriteOrder(r) : WriteOrder(r)[i] = text
<1> DEFINE Files == Texts \cup {ManifestFile}
           texts == [i \in DOMAIN r.versions |-> r.versions[i].text]
<1>1. r.versions \in Seq(Versions)
  BY DEF Registries
<1>2. /\ texts \in Seq(Files) /\ Len(texts) = Len(r.versions) /\ Len(texts) \in Nat
      /\ \A i \in 1 .. Len(texts) : texts[i] \in Texts /\ texts[i] = r.versions[i].text
  <2>1. DOMAIN r.versions = 1 .. Len(r.versions) /\ Len(r.versions) \in Nat
    BY <1>1
  <2>2. \A i \in 1 .. Len(r.versions) : r.versions[i].text \in Texts
    <3>1. \A i \in 1 .. Len(r.versions) : r.versions[i] \in Versions
      BY <1>1, <2>1
    <3> QED BY <3>1 DEF Versions
  <2>3. texts = [i \in 1 .. Len(r.versions) |-> r.versions[i].text]
    BY <2>1
  <2> HIDE DEF texts
  <2>4. texts \in Seq(Files) /\ Len(texts) = Len(r.versions)
    BY <2>1, <2>2, <2>3
  <2> QED BY <2>1, <2>2, <2>3, <2>4
<1>3. <<ManifestFile>> \in Seq(Files) /\ Len(<<ManifestFile>>) = 1
  OBVIOUS
<1>4. WriteOrder(r) = texts \o <<ManifestFile>>
  BY DEF WriteOrder
<1> HIDE DEF texts
<1>5. /\ WriteOrder(r) \in Seq(Files) /\ Len(WriteOrder(r)) = Len(texts) + 1
      /\ \A i \in 1 .. Len(texts) + 1 : WriteOrder(r)[i] =
             IF i <= Len(texts) THEN texts[i] ELSE <<ManifestFile>>[i - Len(texts)]
  BY <1>2, <1>3, <1>4, ConcatProperties
<1>6. DOMAIN WriteOrder(r) = 1 .. Len(texts) + 1
  BY <1>5
<1>7. \A i \in 1 .. Len(texts) : WriteOrder(r)[i] = texts[i] /\ WriteOrder(r)[i] \in Texts
  BY <1>2, <1>5
<1>8. WriteOrder(r)[Len(texts) + 1] = ManifestFile
  BY <1>2, <1>5
<1>9. \A text \in TextsOf(r) : \E i \in 1 .. Len(texts) : texts[i] = text
  BY <1>1, <1>2 DEF TextsOf
<1>10. \A i \in DOMAIN WriteOrder(r) :
           WriteOrder(r)[i] = ManifestFile <=> i = Len(WriteOrder(r))
  BY <1>2, <1>5, <1>6, <1>7, <1>8, RegistryAssumption
<1>11. \A text \in TextsOf(r) : \E i \in DOMAIN WriteOrder(r) : WriteOrder(r)[i] = text
  BY <1>2, <1>6, <1>7, <1>9
<1>12. WriteOrder(r) # <<>>
  BY <1>2, <1>6
<1> QED BY <1>5, <1>10, <1>11, <1>12

\* The files still due after the first: the manifest is last among them too.
LEMMA TailOfTodo ==
    ASSUME RegistryTypeOK, ManifestIsLast, todo # <<>>
    PROVE  /\ Head(todo) \in Texts \cup {ManifestFile} /\ Head(todo) = todo[1]
           /\ Tail(todo) \in Seq(Texts \cup {ManifestFile})
           /\ \A i \in DOMAIN Tail(todo) : Tail(todo)[i] = ManifestFile <=> i = Len(Tail(todo))
           /\ \A i \in DOMAIN todo : i # 1 => \E j \in DOMAIN Tail(todo) : Tail(todo)[j] = todo[i]
           /\ Head(todo) = ManifestFile <=> Tail(todo) = <<>>
           /\ DOMAIN <<>> = {}
<1>1. todo \in Seq(Texts \cup {ManifestFile})
  BY DEF RegistryTypeOK
<1>2. /\ Head(todo) = todo[1] /\ Head(todo) \in Texts \cup {ManifestFile}
      /\ Tail(todo) \in Seq(Texts \cup {ManifestFile})
      /\ Len(Tail(todo)) = Len(todo) - 1
      /\ \A i \in 1 .. Len(Tail(todo)) : Tail(todo)[i] = todo[i + 1]
      /\ DOMAIN Tail(todo) = 1 .. Len(Tail(todo)) /\ DOMAIN todo = 1 .. Len(todo)
      /\ Len(todo) \in Nat \ {0}
  BY <1>1, HeadTailProperties, EmptySeq
<1>3. \A i \in DOMAIN Tail(todo) : Tail(todo)[i] = ManifestFile <=> i = Len(Tail(todo))
  BY <1>2 DEF ManifestIsLast
<1>4. \A i \in DOMAIN todo : i # 1 => \E j \in DOMAIN Tail(todo) : Tail(todo)[j] = todo[i]
  <2> SUFFICES ASSUME NEW i \in DOMAIN todo, i # 1
               PROVE  \E j \in DOMAIN Tail(todo) : Tail(todo)[j] = todo[i]
    OBVIOUS
  <2>1. i - 1 \in DOMAIN Tail(todo) /\ Tail(todo)[i - 1] = todo[i]
    BY <1>2
  <2> QED BY <2>1
<1>5. Head(todo) = ManifestFile <=> Len(todo) = 1
  BY <1>2 DEF ManifestIsLast
<1>6. Len(todo) = 1 <=> Tail(todo) = <<>>
  <2>1. CASE Len(todo) = 1
    <3>1. Tail(todo) \in Seq(Texts \cup {ManifestFile}) /\ Len(Tail(todo)) = 0
      BY <1>2, <2>1
    <3> QED BY <2>1, <3>1, EmptySeq
  <2>2. CASE Len(todo) # 1
    <3>1. Len(Tail(todo)) # 0
      BY <1>2, <2>2
    <3> QED BY <2>2, <3>1, EmptySeq, Zenon
  <2> QED BY <2>1, <2>2
<1> QED BY <1>2, <1>3, <1>4, <1>5, <1>6

(***************************************************************************)
(* Every step keeps the invariant.                                         *)
(***************************************************************************)
\* A process that changes its value only appends to it, and writes nothing.
LEMMA ChangeKeepsInv ==
    ASSUME RegistryInv, reg \in Registries, todo = <<>>, reg' \in Registries,
           UNCHANGED <<prompts, manifest, todo, torn, committed>>,
           \/ /\ reg'.history = reg.history
              /\ \E v \in Versions : reg'.versions = Append(reg.versions, v)
           \/ /\ reg'.versions = reg.versions
              /\ \E m \in Moves : reg'.history = Append(reg.history, m)
    PROVE  RegistryInv'
<1> USE DEF RegistryInv
<1>1. RegistryTypeOK'
  BY DEF RegistryTypeOK
<1>2. ManifestIsLast'
  BY RegistryIsReadable DEF ManifestIsLast
<1>3. ManifestIsCommitted' /\ RecordedIsWritten'
  BY DEF ManifestIsCommitted, RecordedIsWritten, Readable, TextsOf
<1>4. ExtendsCommitted'
  <2> SUFFICES ASSUME committed # Absent
               PROVE  /\ Extends(reg'.versions, committed.versions)
                      /\ Extends(reg'.history, committed.history)
    BY DEF ExtendsCommitted
  <2>1. committed \in Registries /\ reg # Absent
    BY RegistryIsReadable DEF RegistryTypeOK
  <2>2. /\ reg.versions \in Seq(Versions) /\ committed.versions \in Seq(Versions)
        /\ reg.history \in Seq(Moves) /\ committed.history \in Seq(Moves)
    BY <2>1 DEF Registries
  <2>3. Extends(reg.versions, committed.versions) /\ Extends(reg.history, committed.history)
    BY <2>1 DEF ExtendsCommitted
  <2> QED BY <2>2, <2>3, ExtendsAppend
<1> QED BY <1>1, <1>2, <1>3, <1>4

\* Registering a version and moving a pointer are such changes.
LEMMA AppendingKeepsInv == RegistryInv /\ (Register \/ Activate \/ Rollback) => RegistryInv'
<1> SUFFICES ASSUME RegistryInv, Register \/ Activate \/ Rollback PROVE RegistryInv'
  OBVIOUS
<1>1. reg \in Registries /\ todo = <<>>
  BY DEF Register, Activate, Rollback, CanMove, Readable, RegistryInv, RegistryTypeOK
<1>2. reg = [versions |-> reg.versions, history |-> reg.history]
      /\ reg.versions \in Seq(Versions) /\ reg.history \in Seq(Moves)
  BY <1>1 DEF Registries
<1>3. CASE Register
  <2>1. PICK task \in Tasks, text \in Texts, label \in 1 .. MaxVersions,
             parent \in Texts \cup {NoText} :
                 reg' = [reg EXCEPT !.versions = Append(@, Version(task, label, text, parent))]
    BY <1>3 DEF Register
  <2>2. Version(task, label, text, parent) \in Versions
    BY DEF Version, Versions
  <2>3. /\ reg'.history = reg.history
        /\ reg'.versions = Append(reg.versions, Version(task, label, text, parent))
        /\ reg' = [versions |-> reg'.versions, history |-> reg'.history]
    BY <1>2, <2>1
  <2>4. reg' \in Registries
    BY <1>2, <2>2, <2>3, AppendProperties DEF Registries
  <2> QED BY <1>1, <1>3, <2>2, <2>3, <2>4, ChangeKeepsInv DEF Register
<1>4. CASE Activate \/ Rollback
  <2>1. PICK task \in Tasks, text \in Texts, action \in {"activate", "rollback"} :
                 reg' = [reg EXCEPT !.history = Append(@, Move(task, text, action))]
    BY <1>4 DEF Activate, Rollback, Moved
  <2>2. Move(task, text, action) \in Moves
    BY DEF Move, Moves
  <2>3. /\ reg'.versions = reg.versions
        /\ reg'.history = Append(reg.history, Move(task, text, action))
        /\ reg' = [versions |-> reg'.versions, history |-> reg'.history]
    BY <1>2, <2>1
  <2>4. reg' \in Registries
    BY <1>2, <2>2, <2>3, AppendProperties, SMTT(30) DEF Registries
  <2> QED BY <1>1, <1>4, <2>2, <2>3, <2>4, ChangeKeepsInv DEF Activate, Rollback
<1> QED BY <1>3, <1>4

\* A process that starts holds the committed value, or seeds an empty directory.
LEMMA StartingKeepsInv == RegistryInv /\ (Load \/ Seed) => RegistryInv'
<1> SUFFICES ASSUME RegistryInv, Load \/ Seed PROVE RegistryInv'
  OBVIOUS
<1> USE DEF RegistryInv
<1>1. CASE Load
  <2>1. /\ manifest \in Registries /\ reg' = manifest /\ manifest = committed /\ todo = <<>>
        /\ UNCHANGED <<prompts, manifest, todo, torn, committed>>
    BY <1>1 DEF Load, Loads, Loaded, Readable, RegistryTypeOK, ManifestIsCommitted,
                ManifestIsLast
  <2>2. RegistryTypeOK' /\ ManifestIsLast'
    BY <2>1 DEF RegistryTypeOK, ManifestIsLast
  <2>3. ManifestIsCommitted' /\ RecordedIsWritten'
    BY <2>1 DEF ManifestIsCommitted, RecordedIsWritten, Readable
  <2>4. ExtendsCommitted'
    BY <2>1, ExtendsReflexive DEF ExtendsCommitted, Registries
  <2> QED BY <2>2, <2>3, <2>4
<1>2. CASE Seed
  <2>1. SeedRegistry \in Registries
    <3>1. /\ \A i \in DOMAIN TaskOrder : TaskOrder[i] \in Tasks /\ SeedText[TaskOrder[i]] \in Texts
          /\ DOMAIN TaskOrder = 1 .. Len(TaskOrder) /\ Len(TaskOrder) \in Nat
      BY RegistryAssumption
    <3>2. [i \in DOMAIN TaskOrder |-> Version(TaskOrder[i], 1, SeedText[TaskOrder[i]], NoText)]
              \in Seq(Versions)
      <4>1. \A i \in DOMAIN TaskOrder :
                Version(TaskOrder[i], 1, SeedText[TaskOrder[i]], NoText) \in Versions
        BY <3>1 DEF Version, Versions
      <4> QED BY <3>1, <4>1
    <3>3. [i \in DOMAIN TaskOrder |-> Move(TaskOrder[i], SeedText[TaskOrder[i]], "activate")]
              \in Seq(Moves)
      <4>1. \A i \in DOMAIN TaskOrder :
                Move(TaskOrder[i], SeedText[TaskOrder[i]], "activate") \in Moves
        BY <3>1 DEF Move, Moves
      <4> QED BY <3>1, <4>1
    <3> QED BY <3>2, <3>3 DEF SeedRegistry, Registry, Registries
  <2>2. /\ reg' = SeedRegistry /\ todo' = WriteOrder(SeedRegistry) /\ committed = Absent
        /\ UNCHANGED <<prompts, manifest, torn, committed>>
    BY <1>2 DEF Seed, ManifestIsCommitted
  <2> HIDE DEF SeedRegistry
  <2>3. RegistryTypeOK' /\ ManifestIsLast'
    BY <2>1, <2>2, WriteOrderEndsWithManifest, RegistryIsReadable DEF RegistryTypeOK, ManifestIsLast
  <2>4. ManifestIsCommitted' /\ ExtendsCommitted' /\ RecordedIsWritten'
    BY <2>2 DEF ManifestIsCommitted, ExtendsCommitted, RecordedIsWritten, Readable
  <2> QED BY <2>3, <2>4
<1> QED BY <1>1, <1>2

\* A process with nothing to write has no manifest to come.
LEMMA NothingDue == todo' = <<>> /\ torn' = FALSE => ManifestIsLast'
<1>1. DOMAIN <<>> = {}
  OBVIOUS
<1> QED BY <1>1 DEF ManifestIsLast

\* Setting out to write, passing over a file that is there, and ending.
LEMMA QuietStepKeepsInv == RegistryInv /\ (Write \/ PassOver \/ Exit) => RegistryInv'
<1> SUFFICES ASSUME RegistryInv, Write \/ PassOver \/ Exit PROVE RegistryInv'
  OBVIOUS
<1> USE DEF RegistryInv
<1>1. UNCHANGED <<prompts, manifest, committed>>
  BY DEF Write, PassOver, Exit
<1>2. ManifestIsCommitted' /\ RecordedIsWritten'
  BY <1>1 DEF ManifestIsCommitted, RecordedIsWritten, Readable
<1>3. reg' = reg \/ reg' = Absent
  BY DEF Write, PassOver, Exit
<1>4. ExtendsCommitted'
  BY <1>1, <1>3 DEF ExtendsCommitted
<1>5. CASE Write
  <2>1. reg \in Registries /\ todo' = WriteOrder(reg) /\ UNCHANGED <<reg, torn>>
    BY <1>5 DEF Write, Readable, RegistryTypeOK
  <2>2. RegistryTypeOK' /\ ManifestIsLast'
    BY <1>1, <2>1, WriteOrderEndsWithManifest, RegistryIsReadable DEF RegistryTypeOK, ManifestIsLast
  <2> QED BY <1>2, <1>4, <2>2
<1>6. CASE Exit \/ (PassOver /\ reg' = Absent /\ todo' = <<>>)
  <2>1. reg' = Absent /\ todo' = <<>> /\ torn' = FALSE
    BY <1>6 DEF Exit, PassOver, RegistryTypeOK
  <2>2. RegistryTypeOK' /\ ManifestIsLast'
    BY <1>1, <2>1, NothingDue, EmptySeq DEF RegistryTypeOK
  <2> QED BY <1>2, <1>4, <2>2
<1>7. CASE PassOver /\ prompts[Head(todo)] = "whole" /\ todo' = Tail(todo) /\ UNCHANGED reg
  <2>1. /\ todo # <<>> /\ ~ torn /\ torn' = torn /\ Head(todo) # ManifestFile /\ todo' # <<>>
    BY <1>7, TailOfTodo DEF PassOver
  <2>2. RegistryTypeOK'
    BY <1>1, <1>7, <2>1, TailOfTodo DEF RegistryTypeOK
  <2>3. ASSUME NEW text \in TextsOf(reg)
        PROVE  prompts[text] = "whole" \/ \E i \in DOMAIN todo' : todo'[i] = text
    <3> SUFFICES ASSUME prompts[text] # "whole"
                 PROVE  \E i \in DOMAIN todo' : todo'[i] = text
      OBVIOUS
    <3>1. PICK i \in DOMAIN todo : todo[i] = text
      BY <2>1, <2>3 DEF ManifestIsLast
    <3>2. i # 1
      BY <1>7, <2>1, <3>1, TailOfTodo
    <3> QED BY <1>7, <2>1, <3>1, <3>2, TailOfTodo
  <2>4. ManifestIsLast'
    BY <1>1, <1>7, <2>1, <2>3, TailOfTodo DEF ManifestIsLast
  <2> QED BY <1>2, <1>4, <2>2, <2>4
<1> QED BY <1>5, <1>6, <1>7 DEF PassOver

\* Truncating a file: a prompt file is not touched when it is there.
LEMMA TruncateKeepsInv == RegistryInv /\ Truncate => RegistryInv'
<1> SUFFICES ASSUME RegistryInv, Truncate PROVE RegistryInv'
  OBVIOUS
<1> USE DEF RegistryInv
<1>1. /\ todo # <<>> /\ torn' = TRUE /\ UNCHANGED <<reg, todo, committed>>
      /\ Head(todo) \in Texts \cup {ManifestFile}
  BY TailOfTodo DEF Truncate
<1>2. \A text \in Texts : prompts[text] = "whole" => prompts'[text] = "whole"
  BY DEF Truncate, RegistryTypeOK
<1>3. manifest' = manifest \/ manifest' = Torn
  BY DEF Truncate
<1>4. prompts' \in [Texts -> {"absent", "torn", "whole"}]
  BY DEF Truncate, RegistryTypeOK
<1>5. RegistryTypeOK'
  BY <1>1, <1>3, <1>4 DEF RegistryTypeOK
<1>6. ManifestIsLast'
  <2>1. reg \in Registries
    BY <1>1 DEF ManifestIsLast, RegistryTypeOK
  <2>2. TextsOf(reg) \subseteq Texts
    BY <2>1, TextsOfTyped
  <2> QED BY <1>1, <1>2, <2>2 DEF ManifestIsLast
<1>7. ManifestIsCommitted'
  <2>1. Torn # Absent
    BY DEF Torn, Absent
  <2> QED BY <1>1, <1>3, <2>1 DEF ManifestIsCommitted, Readable
<1>8. RecordedIsWritten'
  <2> SUFFICES ASSUME Readable(manifest), manifest' = manifest, NEW text \in TextsOf(manifest)
               PROVE  prompts'[text] = "whole"
    BY <1>3 DEF RecordedIsWritten, Readable
  <2>1. text \in Texts /\ prompts[text] = "whole"
    BY TextsOfTyped DEF RecordedIsWritten, RegistryTypeOK, Readable
  <2> QED BY <1>2, <2>1
<1>9. ExtendsCommitted'
  BY <1>1 DEF ExtendsCommitted
<1> QED BY <1>5, <1>6, <1>7, <1>8, <1>9

\* Filling a file: with the manifest, the value is committed.
LEMMA FillKeepsInv == RegistryInv /\ Fill => RegistryInv'
<1> SUFFICES ASSUME RegistryInv, Fill PROVE RegistryInv'
  OBVIOUS
<1> USE DEF RegistryInv
<1>1. /\ todo # <<>> /\ torn' = FALSE /\ todo' = Tail(todo) /\ reg' = reg
      /\ reg \in Registries /\ TextsOf(reg) \subseteq Texts
      /\ Head(todo) = ManifestFile <=> todo' = <<>>
      /\ Head(todo) \in Texts \cup {ManifestFile}
  BY TailOfTodo, TextsOfTyped DEF Fill, ManifestIsLast, RegistryTypeOK
<1>2. CASE Head(todo) = ManifestFile
  <2>1. manifest' = reg /\ committed' = reg /\ prompts' = prompts /\ todo' = <<>>
    BY <1>1, <1>2 DEF Fill
  <2>2. RegistryTypeOK' /\ ManifestIsLast'
    BY <1>1, <2>1, NothingDue, EmptySeq DEF RegistryTypeOK
  <2>3. ManifestIsCommitted' /\ ExtendsCommitted'
    BY <1>1, <2>1, RegistryIsReadable, ExtendsReflexive
       DEF ManifestIsCommitted, ExtendsCommitted, Registries
  <2>4. RecordedIsWritten'
    <3>1. \A i \in DOMAIN todo : todo[i] = ManifestFile
      BY <1>1, <1>2, <2>1, TailOfTodo
    <3> QED BY <1>1, <2>1, <3>1, RegistryAssumption DEF ManifestIsLast, RecordedIsWritten
  <2> QED BY <2>2, <2>3, <2>4
<1>3. CASE Head(todo) # ManifestFile
  <2>1. /\ Head(todo) \in Texts /\ prompts' = [prompts EXCEPT ![Head(todo)] = "whole"]
        /\ UNCHANGED <<manifest, committed>> /\ todo' # <<>>
    BY <1>1, <1>3 DEF Fill
  <2>2. /\ prompts' \in [Texts -> {"absent", "torn", "whole"}]
        /\ prompts'[Head(todo)] = "whole"
        /\ \A text \in Texts : prompts[text] = "whole" => prompts'[text] = "whole"
    BY <2>1 DEF RegistryTypeOK
  <2>3. RegistryTypeOK'
    BY <1>1, <2>1, <2>2, TailOfTodo DEF RegistryTypeOK
  <2>4. ManifestIsLast'
    <3>1. ASSUME NEW text \in TextsOf(reg)
          PROVE  prompts'[text] = "whole" \/ \E i \in DOMAIN todo' : todo'[i] = text
      BY <1>1, <2>2, <3>1, TailOfTodo DEF ManifestIsLast
    <3> QED BY <1>1, <3>1, TailOfTodo DEF ManifestIsLast
  <2>5. ManifestIsCommitted' /\ ExtendsCommitted'
    BY <1>1, <2>1 DEF ManifestIsCommitted, ExtendsCommitted, Readable
  <2>6. RecordedIsWritten'
    <3> SUFFICES ASSUME Readable(manifest), NEW text \in TextsOf(manifest)
                 PROVE  prompts'[text] = "whole"
      BY <2>1 DEF RecordedIsWritten, Readable
    <3>1. text \in Texts /\ prompts[text] = "whole"
      BY TextsOfTyped DEF RecordedIsWritten, RegistryTypeOK, Readable
    <3> QED BY <2>2, <3>1
  <2> QED BY <2>3, <2>4, <2>5, <2>6
<1> QED BY <1>2, <1>3

\* Every step of the registry keeps its invariant.
LEMMA StepKeepsInv == RegistryInv /\ [RegistryNext]_registryVars => RegistryInv'
<1> SUFFICES ASSUME RegistryInv, UNCHANGED registryVars PROVE RegistryInv'
  BY AppendingKeepsInv, StartingKeepsInv, QuietStepKeepsInv, TruncateKeepsInv, FillKeepsInv
     DEF RegistryNext
<1> QED BY DEF registryVars, RegistryInv, RegistryTypeOK, ManifestIsLast,
               ManifestIsCommitted, ExtendsCommitted, RecordedIsWritten, Readable

(***************************************************************************)
(* Theorems.                                                               *)
(***************************************************************************)
\* The directory and the processes' values keep the invariant.
THEOREM RegistryInvariant == RegistrySpec => []RegistryInv
<1>1. RegistryInit => RegistryInv
  <2> SUFFICES ASSUME RegistryInit PROVE RegistryInv
    OBVIOUS
  <2>1. RegistryTypeOK
    BY EmptySeq DEF RegistryInit, RegistryTypeOK
  <2>2. ManifestIsLast
    <3>1. DOMAIN <<>> = {}
      OBVIOUS
    <3> QED BY <3>1 DEF RegistryInit, ManifestIsLast
  <2>3. ManifestIsCommitted /\ ExtendsCommitted /\ RecordedIsWritten
    BY DEF RegistryInit, ManifestIsCommitted, ExtendsCommitted, RecordedIsWritten, Readable
  <2> QED BY <2>1, <2>2, <2>3 DEF RegistryInv
<1> QED BY <1>1, StepKeepsInv, PTL DEF RegistrySpec

\* What loads is what was written whole, with no prompt file besides.
THEOREM LoadingIsFaithful == RegistrySpec => []LoadsAsWritten
<1>1. RegistryInv => LoadsAsWritten
  <2> SUFFICES ASSUME RegistryInv, Loads(manifest)
               PROVE  /\ manifest = committed
                      /\ {text \in Texts : prompts[text] # "absent"} = TextsOf(committed)
    BY DEF LoadsAsWritten
  <2>1. manifest = committed /\ TextsOf(manifest) \subseteq Texts
    BY TextsOfTyped DEF RegistryInv, RegistryTypeOK, ManifestIsCommitted, Loads, Readable
  <2> QED BY <2>1 DEF Loads, Stray
<1> QED BY <1>1, RegistryInvariant, PTL

\* A readable manifest never names a prompt file that is missing or torn.
THEOREM ManifestsAreBacked == RegistrySpec => []RecordedIsWritten
<1>1. RegistryInv => RecordedIsWritten
  BY DEF RegistryInv
<1> QED BY <1>1, RegistryInvariant, PTL

\* Whatever is committed extends what was committed before it.
THEOREM CommitsOnlyAppend == RegistrySpec => NothingIsForgotten
<1>1. RegistryInv /\ [RegistryNext]_registryVars =>
          (committed # Absent /\ committed' # committed =>
               /\ Extends(committed'.versions, committed.versions)
               /\ Extends(committed'.history, committed.history))
  <2> SUFFICES ASSUME RegistryInv, [RegistryNext]_registryVars,
                      committed # Absent, committed' # committed
               PROVE  /\ Extends(committed'.versions, committed.versions)
                      /\ Extends(committed'.history, committed.history)
    OBVIOUS
  <2>1. Fill /\ committed' = reg
    BY DEF RegistryNext, registryVars, Seed, Load, Register, Activate, Rollback, Write,
           PassOver, Truncate, Fill, Exit
  <2>2. reg # Absent
    BY <2>1 DEF Fill, RegistryInv, ManifestIsLast
  <2> QED BY <2>1, <2>2 DEF RegistryInv, ExtendsCommitted
<1> QED BY <1>1, RegistryInvariant, PTL DEF RegistrySpec, NothingIsForgotten
====
