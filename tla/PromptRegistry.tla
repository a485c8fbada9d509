---- MODULE PromptRegistry ----
(***************************************************************************)
(* The prompt registry: prompt_registry/registry.py, activation.py,        *)
(* store.py and bootstrap.py.  A process holds a registry as a value,      *)
(* changes the value and writes it out: a file per version, then the       *)
(* manifest with the version records and the log of pointer moves.  It may *)
(* die between any two of these, and inside the writing of a file.         *)
(*                                                                         *)
(* A text stands for its digest and so for the name of its file.  Times    *)
(* are left out: callers pass them in order.  In the package only seeding *)
(* writes and the evaluation loads; the other operations are the module's  *)
(* interface, which its tests use.                                         *)
(***************************************************************************)
EXTENDS Naturals, Sequences

CONSTANTS
    Tasks,
    Texts,
    NoText,         \* no parent; no active version
    TaskOrder,      \* the members of PromptTask, in order
    SeedText,       \* SEED_PROMPTS: task -> the text of its v1
    MaxVersions,    \* bound: versions registered
    MaxMoves        \* bound: entries in the pointer log

ManifestFile == "manifest.json"

\* A prompt's file is named by its digest, which is no name of the manifest.
ASSUME RegistryAssumption ==
    /\ NoText \notin Texts /\ ManifestFile \notin Texts
    /\ \A t \in Tasks : \E i \in DOMAIN TaskOrder : TaskOrder[i] = t
    /\ TaskOrder \in Seq(Tasks)
    /\ SeedText \in [Tasks -> Texts]
    /\ \A s, t \in Tasks : SeedText[s] = SeedText[t] => s = t
    /\ MaxVersions \in Nat /\ MaxMoves \in Nat

VARIABLES
    prompts,    \* the prompt files: text -> "absent", "torn" or "whole"
    manifest,   \* manifest.json: a registry value, Absent or Torn
    reg,        \* the value the process holds, or Absent
    todo,       \* the files it has still to write, in order
    torn,       \* whether the first of them is truncated and not yet filled
    committed   \* ghost: the value whose writing ended last

registryVars == <<prompts, manifest, reg, todo, torn, committed>>

Absent == [kind |-> "absent"]
Torn == [kind |-> "torn"]
Readable(m) == m \notin {Absent, Torn}

Version(task, label, text, parent) ==
    [task |-> task, label |-> label, text |-> text, parent |-> parent]
Move(task, text, action) == [task |-> task, text |-> text, action |-> action]
Registry(versions, history) == [versions |-> versions, history |-> history]

TextsOf(r) == {r.versions[i].text : i \in DOMAIN r.versions}

(***************************************************************************)
(* activation.py: the pointer log of all tasks, and what it derives.       *)
(***************************************************************************)
MovesOf(history, task) == SelectSeq(history, LAMBDA m : m.task = task)
Active(history, task) ==
    LET moves == MovesOf(history, task)
    IN  IF moves = <<>> THEN NoText ELSE moves[Len(moves)].text

\* Asked by rollback and again by the constructor of the history it returns.
HasRun(history, task, text) ==
    \E i \in DOMAIN history : history[i].task = task /\ history[i].text = text

\* with_history: the target is held, and bound to the task.
Resolves(r, task, text) ==
    \E i \in DOMAIN r.versions : r.versions[i].text = text /\ r.versions[i].task = task

Moved(r, task, text, action) ==
    [r EXCEPT !.history = Append(@, Move(task, text, action))]

CanMove(task, text) ==
    /\ Readable(reg) /\ todo = <<>>
    /\ Len(reg.history) < MaxMoves
    /\ Active(reg.history, task) # text
    /\ Resolves(reg, task, text)

Activate ==
    \E task \in Tasks, text \in Texts :
        /\ CanMove(task, text)
        /\ reg' = Moved(reg, task, text, "activate")
        /\ UNCHANGED <<prompts, manifest, todo, torn, committed>>

Rollback ==
    \E task \in Tasks, text \in Texts :
        /\ CanMove(task, text)
        /\ HasRun(reg.history, task, text)
        /\ reg' = Moved(reg, task, text, "rollback")
        /\ UNCHANGED <<prompts, manifest, todo, torn, committed>>

(***************************************************************************)
(* store.py: registering, loading, writing.                                *)
(***************************************************************************)
\* A new text, a label its task does not have, a parent the registry holds.
Register ==
    \E task \in Tasks, text \in Texts, label \in 1 .. MaxVersions,
       parent \in Texts \cup {NoText} :
        /\ Readable(reg) /\ todo = <<>>
        /\ Len(reg.versions) < MaxVersions
        /\ text \notin TextsOf(reg)
        /\ ~ \E i \in DOMAIN reg.versions :
               reg.versions[i].task = task /\ reg.versions[i].label = label
        /\ parent \in TextsOf(reg) \cup {NoText}
        /\ reg' = [reg EXCEPT !.versions = Append(@, Version(task, label, text, parent))]
        /\ UNCHANGED <<prompts, manifest, todo, torn, committed>>

\* wrong variant: files the manifest does not record are ignored
StrayIgnored(r) == {}
Stray(r) == {text \in Texts : prompts[text] # "absent"} \ TextsOf(r)

Loads(m) ==
    /\ Readable(m)
    /\ \A text \in TextsOf(m) : prompts[text] = "whole"
    /\ Stray(m) = {}

\* wrong variant: the pointer log starts afresh in every process
LoadedWithoutLog(m) == Registry(m.versions, <<>>)
Loaded(m) == m

Load ==
    /\ reg = Absent
    /\ Loads(manifest)
    /\ reg' = Loaded(manifest)
    /\ UNCHANGED <<prompts, manifest, todo, torn, committed>>

WriteOrder(r) == [i \in DOMAIN r.versions |-> r.versions[i].text] \o <<ManifestFile>>

Write ==
    /\ Readable(reg) /\ todo = <<>>
    /\ todo' = WriteOrder(reg)
    /\ UNCHANGED <<prompts, manifest, reg, torn, committed>>

\* A prompt file is there already: skipped with these bytes, refused with others.
PassOver ==
    /\ todo # <<>> /\ ~ torn
    /\ Head(todo) # ManifestFile
    /\ \/ prompts[Head(todo)] = "whole" /\ todo' = Tail(todo) /\ UNCHANGED reg
       \/ prompts[Head(todo)] = "torn" /\ todo' = <<>> /\ reg' = Absent
    /\ UNCHANGED <<prompts, manifest, torn, committed>>

Truncate ==
    /\ todo # <<>> /\ ~ torn
    /\ torn' = TRUE
    /\ IF Head(todo) = ManifestFile
       THEN manifest' = Torn /\ UNCHANGED prompts
       ELSE /\ prompts[Head(todo)] = "absent"
            /\ prompts' = [prompts EXCEPT ![Head(todo)] = "torn"]
            /\ UNCHANGED manifest
    /\ UNCHANGED <<reg, todo, committed>>

Fill ==
    /\ torn
    /\ torn' = FALSE
    /\ todo' = Tail(todo)
    /\ IF Head(todo) = ManifestFile
       THEN manifest' = reg /\ UNCHANGED prompts
       ELSE prompts' = [prompts EXCEPT ![Head(todo)] = "whole"] /\ UNCHANGED manifest
    /\ committed' = IF Tail(todo) = <<>> THEN reg ELSE committed
    /\ UNCHANGED reg

\* The process ends, by itself between two writes or anywhere else.
Exit ==
    /\ reg # Absent
    /\ reg' = Absent /\ todo' = <<>> /\ torn' = FALSE
    /\ UNCHANGED <<prompts, manifest, committed>>

(***************************************************************************)
(* bootstrap.py: every task at its v1, once.                               *)
(***************************************************************************)
SeedRegistry ==
    Registry([i \in DOMAIN TaskOrder |->
                  Version(TaskOrder[i], 1, SeedText[TaskOrder[i]], NoText)],
             [i \in DOMAIN TaskOrder |->
                  Move(TaskOrder[i], SeedText[TaskOrder[i]], "activate")])

\* Any manifest.json, also a broken one, is a registry already there.
Seed ==
    /\ reg = Absent
    /\ manifest = Absent
    /\ reg' = SeedRegistry
    /\ todo' = WriteOrder(SeedRegistry)
    /\ UNCHANGED <<prompts, manifest, torn, committed>>

RegistryInit ==
    /\ prompts = [text \in Texts |-> "absent"]
    /\ manifest = Absent
    /\ reg = Absent
    /\ todo = <<>>
    /\ torn = FALSE
    /\ committed = Absent

RegistryNext ==
    \/ Seed \/ Load \/ Register \/ Activate \/ Rollback
    \/ Write \/ PassOver \/ Truncate \/ Fill \/ Exit

RegistrySpec == RegistryInit /\ [][RegistryNext]_registryVars

(***************************************************************************)
(* Properties.                                                             *)
(***************************************************************************)
\* A directory that loads is the one whose writing ended last, and holds no
\* prompt file besides: a version half added never passes for a registry.
LoadsAsWritten ==
    Loads(manifest) =>
        /\ manifest = committed
        /\ {text \in Texts : prompts[text] # "absent"} = TextsOf(committed)

Extends(s, t) == Len(s) >= Len(t) /\ SubSeq(s, 1, Len(t)) = t

\* What a process commits extends what was committed before: no version
\* record and no pointer move is rewritten or dropped.
NothingIsForgotten ==
    [][ committed # Absent /\ committed' # committed =>
            /\ Extends(committed'.versions, committed.versions)
            /\ Extends(committed'.history, committed.history) ]_registryVars
====
