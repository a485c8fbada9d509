# ts-sentry in TLA+

Formal models of [ts-sentry](../src/README.md): agents that triage, investigate
and draft under a governance layer whose promise is that *everything an agent
did, was refused or was approved to do is on a hash-chained ledger*.  The models
are translated from the Python sources under `src/src/ts_sentry/`; paths below
are relative to that directory unless they start with `docs/` or `tests/`.

## The system

| part | source | state it keeps | operations |
| --- | --- | --- | --- |
| ledger | `governance/ledger.py` | the DuckDB table `governance.ledger`; a handle's cached tail | `append`, `head`, `verify`, `export_jsonl`; `verify_chain` |
| session | `orchestrator/core.py` | machine state, recorded bodies, per-agent budgets | `open`, `begin_turn`, `end_turn`, `await_analyst`, `resume`, `append_event`, `attach_event`, `close` |
| model call | `orchestrator/adapter.py` | none of its own | `call_model`, `call_with_retry`; stub, record and live adapters |
| mandates, tools, fleet | `governance/mandate.py`, `scopes.py`, `orchestrator/fleet.py`, `tools.py` | immutable: tools, scopes, ceiling, budgets | `validate`, `default_mandates` |
| gates, scopes | `governance/gates.py`, `scopes.py` | none | `run_gate`, `guard_scope_request` |
| dispatch | `orchestrator/dispatch.py`, `toolspec.py`, `tools.py` | the allowlisted table | `dispatch` |
| evidence turn | `orchestrator/evidence_turn.py`, `review.py`, `proposal_check.py` | pack, hop records, close reason | `run_evidence_turn` |
| memo turn | `orchestrator/memo_turn.py`, `draft_check.py`, `memo_gate.py` | draft, attempt records | `run_memo_turn` |
| triage turn | `orchestrator/triage_turn.py`, `triage_tool.py`, `detection_stub.py` | ranked queue | `run_triage_turn` |
| prompt evaluation | `orchestrator/prompt_eval_turn.py`, `prompt_eval.py`, `regression_gate.py` | answers, report, verdict | `run_prompt_eval_turn`, `decide` |
| prompt registry | `prompt_registry/` | versions, pointer log, files | `register`, `activate`, `rollback`, `write_registry`, `load_registry` |
| session runner | `orchestrator/session_runner.py`, `manifest.py` | the output directory | `run_*_session`, manifest |
| signing | `orchestrator/signing.py`, `governance/signature.py` | signed memo files | `sign_memo` |
| evidence pack | `agents/evidence/pack.py`, `orchestrator/pivots.py`, `pivot_tool.py`, `pack_gate.py` | a value: entities, relations, events, one provenance per hop | `with_hop`, five pivots, `evidence_pack_check` |
| memo draft and citations | `agents/memo/`, `orchestrator/draft_check.py`, `citation_resolver.py`, `citation_tool.py`, `memo_gate.py` | a value | `parse_draft`, `check_draft`, `memo_check` |
| policy corpus | `data/policy_fetch.py`, `policy_corpus.py` | the policy directory | `fetch_document`, `write_corpus`, `load_corpus` |
| firewall | `orchestrator/firewall.py` | none | `scan`, `render_redacted` |
| measurement | `measurement/` | reports | `read_session_counts`, `recovery_for_pack`; statistics over samples |
| synthetic data | `data/` | dataset builds | offline batch jobs |

**How they interact.**  One process runs one session.  The runner opens a
`Session` on a `Ledger`; a turn calls `begin_turn` (which checks both budgets and
takes a step), `call_model` (which checks tokens, writes `PROMPT_SENT`, calls the
provider with retries and charges what the answer used), judges the answer, asks
the analyst if the turn acts, and hands a proposal to `dispatch`.  `dispatch`
writes most entries through `Session.append_event`, which files ledger entry and
body together; but `run_gate` and `guard_scope_request` write to the ledger
themselves and return what they wrote, and `dispatch` attaches those bodies
afterwards (`attach_event`).  The ledger chains by digest only, so a body that is
not attached is lost.  At the end `Session.close` writes `SESSION_CLOSE`, and the
runner writes artifacts and a manifest that records the ledger's head.

**What is hard.**  There are no threads.  What goes wrong here goes wrong in
*sequences*: the process dying between any two writes; entries written by two
routes that must interleave in one order; refusals that shadow one another
depending on the order of the checks; budgets checked before and charged after
the work; a loop with seven ways out of which each must leave the machine in the
right state; and a store edited between two processes.  `PROJECT.json` lists each
of these hazards at its line with the properties that catch it.

**What makes each part correct.**

* ledger: what was written verifies; what verifies is what was written, up to a
  dropped tail; with the recorded head, exactly what was written.
* session: bodies account for the chain, budgets bind before the work, the close
  entry tells the truth, the last step is usable.
* dispatch: a violation is recorded exactly when there is one, nothing runs
  outside a mandate, nothing is delivered that its gate did not accept.
* evidence turn: nothing runs without this hop's own approval, the pack and the
  hop records agree with the chain, the session ends.
* memo turn: what is delivered is the latest draft, it is called verified exactly
  when the chain shows that draft passing, and the agent is told about the draft it
  revises.
* session directory: what the anchor and the manifest's digests vouch for is one
  whole session, and no signature is over a memo its gate would refuse.
* registry: every pointer move is legal, nothing committed is forgotten, and a
  crash leaves a directory that loads as it was last written or does not load.
* triage: the queue can be explained from what the platform shows, a rationale stays
  on the row it is about, and neither is reported as made unless the chain shows it.
* prompt evaluation: both versions are graded on one answer per item, and the verdict
  follows from those answers.
* evidence pack: it tells what the pivots returned and nothing else, and what an early
  hop found stays that hop's.
* policy corpus: a clause holds one policy's text, its anchor does not move, and a
  corpus that loads was written whole.
* memo: what is accepted rests on the pack and quotes the policy.
* firewall: what is sent is the text with the flagged spans, and only those, replaced.

## The modules

| module | models | proofs | run by |
| --- | --- | --- | --- |
| `Ledger` | `governance/ledger.py`, the manifest's expected head, edits of the closed store | `LedgerProofs` | `MCLedger` |
| `Session` | `orchestrator/core.py`, `call_model` and `call_with_retry` | `AgentTurnProofs` | `MCSession` |
| `Dispatch` (extends `Session`) | `orchestrator/dispatch.py`, `run_gate`, `guard_scope_request`, `validate` | `AgentTurnProofs` | `MCDispatch` |
| `Fleet` | the scopes, tools and mandates this build ships | | `MCDispatch`, `MCEvidenceTurn`, `MCMemoTurn` |
| `AgentTurn` (extends `Dispatch`) | what the four turns share: open, attempt, model call, dispatch, close | `AgentTurnProofs` | all four turns |
| `EvidenceTurn` (extends `AgentTurn`) | `run_evidence_turn` between `open` and `close` of `run_evidence_session` | `EvidenceTurnProofs` | `MCEvidenceTurn` |
| `SessionReport` (extends `EvidenceTurn`) | the turn's summary and `read_session_counts` of the finished session | `EvidenceTurnProofs` | `MCEvidenceTurn` |
| `MemoTurn` (extends `AgentTurn`) | `run_memo_turn` between `open` and `close` of `run_memo_session` | `MemoTurnProofs` | `MCMemoTurn` |
| `TriageTurn` (extends `AgentTurn`) | `run_triage_turn`, detection, scoring, ranking, the rationale check | `SingleTurnsProofs` | `MCSingleTurns` |
| `PromptEval` (extends `AgentTurn`) | `run_prompt_eval_turn`, grading, `decide` | `SingleTurnsProofs` | `MCSingleTurns` |
| `SingleTurns` (extends both) | the two sessions around them and the files they leave | `SingleTurnsProofs` | `MCSingleTurns` |
| `Ranking` | no part of its own: sorting, filtering and joining sequences, as the code's lists do | | `MCSingleTurns`, `MCCasework` |
| `EvidencePack` | pivots, records, pack, its gate, `check_proposal` | `CaseworkProofs` | `MCCasework` |
| `Recovery` (extends `EvidencePack`) | `measurement/recovery.py` | `CaseworkProofs` | `MCCasework` |
| `PolicyText` | the page parser, anchors, the corpus on disk | `CaseworkProofs` | `MCCasework` |
| `PageMarkup` (extends `PolicyText`) | no code: what the tags of a page say of its callouts | `CaseworkProofs` | `MCCasework` |
| `MemoDraft` (extends `EvidencePack`, `PolicyText`) | parsing, checking and gating of a draft, citations | `CaseworkProofs` | `MCCasework` |
| `InputFirewall` | a batch of records from its matches to the text sent | `CaseworkProofs` | `MCCasework` |
| `Casework` (extends the five above) | what a case is decided on, from fetched pages to an accepted memo | `CaseworkProofs` | `MCCasework` |
| `Workspace` | the directory of `run_memo_session`, `run_sign_memo` and what `verify-ledger` compares | `WorkspaceProofs` | `MCWorkspace` |
| `PromptRegistry` | `prompt_registry/` | `PromptRegistryProofs` | `MCPromptRegistry` |
| `AuditTrail` | no code: what the chain of an evidence session promises an auditor | | through `EvidenceTurn` |

There are three towers.  `Session` to the turns is the *control*: who is asked,
charged, refused and recorded, with the judged content a free choice.  `Casework`
and the modules below it are the *content*: what is asked, answered, gathered and
accepted, with every verdict computed.  `Workspace` and `PromptRegistry` stand by
themselves: they are about files and the
commands that write them, and take of the session only that its chain grows entry
by entry and closes.  The free verdicts of the turns (`check_proposal`,
`check_draft`, the gates) allow every outcome the content tower computes, so what
holds in the turns holds for them.

`Session`, `Dispatch`, `AgentTurn` and the turns are layers: each extends the one below
and conjoins its own variables to the actions it calls, as the Python functions
call one another.  A step of a turn that writes to the ledger *is* a step
of `Session`, and the runs `dispatch` and `evidence` check that (`SessionSpec` as a
property of the composition); for dispatch and for all four turns it is also proved.
`Session.log` is the ledger from inside one process; `Ledger`
models what one append does to the store.

### Ledger

`table` maps `seq` (the primary key) to the row's other columns; `handle` is the
`Ledger` object with its cached tail; `anchor` is the head a manifest recorded.
SHA-256 over the length-prefixed fields is the tuple of what it digests, that is,
hashing is taken to be injective (`governance/canonical.py` argues that the
encoding is; collision resistance is the assumption).  `verify_chain` walks rows in
`seq` order and stops at the first failure; the model computes the set of
positions that fail (`BrokenAt`), of which the code reports the least.

| action | code |
| --- | --- |
| `OpenLedger` | `Ledger.__init__`: reads the tail, verifies nothing |
| `LedgerAppend` | `append`: INSERT, then the cache |
| `CrashInAppend` | `append` cut between INSERT (autocommitted) and the cache |
| `Stop` | the process ends, or an INSERT raises and ends it |
| `RecordAnchor` | the manifest's `expected_head` |
| `Editor` | somebody edits the file while no process holds it: a field, a deletion, an exchange, a new number, or a recomputed hash |

DuckDB locks the file while a connection is open, so edits happen only between
handles.  `baseline`, `sealed`, `edits` and `edited` are ghosts for the properties: what was found
or written last, what was sealed, the edits made since the store was last opened, and how
many were ever made.

### Session

The state machine is the table `Successors`; `MoveTo` is `_transition`.
`Record` is `append_event` (ledger entry and body), `LedgerOnly` is a helper's
own write, `AttachEvent` hands its body over.  An entry keeps its type, its agent,
that agent's step when it was written, and a note for what distinguishes bodies;
timestamps and payloads are left out.  `Check` is `BudgetTracker.check`;
`begin_turn` requires a step, `call_model` does not.  A model call in flight is
`pending`; it ends in `ModelAnswers`, `ModelRetries` or `ModelFails`.
`close()` is two steps, because the process can die between `CLOSING` and the
entry.  `Crash` may happen anywhere.

`SessionNext` is the most general caller that keeps the discipline the turn
modules keep: it writes only between opening and closing, attaches what a helper
wrote before it writes on, and does nothing else while a call is in flight.  That
`Dispatch` and `EvidenceTurn` keep it is what their `SessionSpec` property checks.  The
callers are unbounded; `BoundedSessionSpec` and `BoundedDispatchSpec`, which the runs
take, are the same with `LogBound` entries at most.

### Dispatch

One ledger write to a step.  `Refusal` is the order of the checks before a
handler is looked for: the name resolves, each scope is granted, the tool's
required scopes are asked for, the mandate allows.  `GuardScope`,
`AttachGuard`, `RefuseScope` are the guard's refusal (two entries);
`RefuseAtOnce` the other violations; `RefuseNotInBuild` a tool whose handler is
not there; `CallTool`, `HandlerRaises`, `HandlerReturns`, `SchemaFails`,
`SchemaRejects`, `GateWrites`, `GateAttaches` the rest.  A handler is what it
returns: something of the wrong type, or an artifact the checker passes, fails or
raises on.

### Fleet

The scopes, the four tool rows and the four mandates of this build, with the scopes
a turn asks for (`required_scope_names`).  Step and token budgets stay parameters of
the instances, because the shipped ones (thousands of tokens) only make the same
cases rarer.

### AgentTurn

The turns are written alike, line for line where this
module speaks for more than one: `pc` is where the function is, `attempt` its loop variable,
`limit` its `max_hops` or `max_attempts`, `broke` its `close_reason`.  `OpenSession`
and `CloseSession` are the runner's calls around it.  The map names the evidence
turn's lines; the memo turn's are `orchestrator/memo_turn.py:280-315`, `332-343`,
`350-368` and `session_runner.py:589-610`.

### EvidenceTurn

A hop is `BeginHop`, `AskModel`, `ModelResponds`, `CheckProposal`, `AwaitReview`,
`Decide`, `RunAct`, `HopDispatched`, and it leaves early by `HopUnavailable`,
`HopRefused`, `HopRejected` or a budget refused in `BeginHop`.  `check_proposal` is
a free verdict: whether a text parses and cites the pack's records is data.  The
pack is the sequence of steps whose result it holds.

### SessionReport

What is read from a finished evidence session: `Turn` is the turn's own summary,
`Governance` the counts `read_session_counts` takes from the events and that summary,
`Untested` the note the report prints when every count is zero.  Injection signals
are taken as zero.  A model that fails writes `VERIFICATION_FAIL` like a refused
proposal or a rejected artifact, so it counts as a control that fired; the
balance in `HopsTellTheChain` says exactly how the three add up.

### MemoTurn

An attempt is `BeginDraft`, `AskDraft`, `ModelResponds`, `CheckDraft`, `RunAct`,
`DraftDispatched`.  A draft is the step it was written in: `memo` is the one the
turn would deliver, `flagged` the one whose findings the next prompt carries.
`told` is a ghost, the findings each prompt sent did carry.  Nobody reviews, so the
trail of a memo session is another than `AuditTrail`'s.  A failed dispatch (the
handler raised, or returned no memo) is recorded as `gate_rejected`, as the code
does.

### TriageTurn

One step.  The queue is built first, by the tool, and stands whatever the model does;
then the model is asked once for all rationales.  `platform` is what the detector
sees; `Pattern`, `Severity`, `Priority`, `FlaggedQueue` and `RankedQueue` are
`build_flagged_queue`, the scorer and `rank_triage_queue` on it.  A component value is
a count out of `Unit`, divisible by every divisor the instances meet, so that
priorities are exact integers: the code's floating point can order two priorities
only differently if they are equal here.  A rationale is the set of ids it cites, and
one component's id stands for the row's four.

### PromptEval

One step, in which the model classifies every item under the incumbent and then every
item under the candidate.  `Classified` is one item, whatever came of its call: an
answer, something unparseable, or a call refused or failed.  Grading is
`eval_labels.py` and `prompt_eval.py` on counts; a bootstrap's lower bound is any
value the mean of some resample can have, up to the observed change.  `Decide` is
`decide` with its three kinds of breach, `LedgerVerdict` the entry the turn writes
itself.

### SingleTurns

The sessions around these two turns: `kind` says which, `written` is the directory,
file by file.  An evaluation without a report raises after the ledger's export, a
triage session without a queue writes all its files.

### EvidencePack, Recovery

A pivot is the set of rows its query finds (`RowsFound`), their `ORDER BY`
(`OrderKey`) and the limit; `Answers` are the sequences the database may return, more
than one where rows tie.  A row becomes records (`RecordsOf`) whose ids are natural
keys, as in the code, and `WithHop` folds them into the pack, keeping the first
sighting.  `PackConstructs` is `EvidencePack.__post_init__`, `PackGate` the gate's
check, `CheckProposal` the check before review, with its order of refusals.
`WorkList` and `StubQuestion` are the offline agent, which reads the records its
prompt shows.  `Recovery` counts a pack's nodes at a budget against the sealed labels.

### PolicyText

`Handle` is one callback of `_SectionParser`, whose fields are those of `Fresh`;
`ExtractSections` folds it over a page and flushes.  Then the filters, the naming of
callouts, the anchors, and `FetchRefusal`, the first reason for which nothing is made.
A heading nothing can be anchored on and two equal anchors raise `ValueError`, which
`run_fetch_policies` does not catch; the model has them as refusals, since either way
nothing is written.  `Loads` is `load_corpus` with its digests compared.

`PageMarkup` says of a page, without the parser, which words stand in a callout.  A
callback is heard unless more ignored elements are open at it than at some earlier place
(`Heard`; an end with nothing to end then counts for nothing, as `max(0, depth - 1)` has
it).  A callout begins at a heard div marked as one that some heading precedes, and lasts
until fewer heard divs are open than at its start (`Lasts`).  `WellMarked` then says what
the words `Boxed` are: those heard in callouts, and no others after a heading.

### MemoDraft

A response is a sequence of lines with a keyword and parts; `ParseDraft` drops what
`parse_draft` drops and lets the last of a repeated field win.  `CheckDraft` is the
order of `check_draft`'s refusals.  `MemoFrom` makes the memo, `Dispatched` is what the
one tool call changes of it, the first ground only, and `MemoCheck` is the gate: the
bindings, every claim against the pack, every citation against the corpus.

### InputFirewall

A text is its positions.  `scan`'s matches are given; `InOrder`, `Merge` (one turn of
`_merge_spans`' loop), `MergeSpans`, `Redact` and `RenderRedacted` make of them what is
sent: pieces, each a part of the text or a marker with the span it replaces.

### Casework

| stage | actions | code |
| --- | --- | --- |
| fetch, write | `Fetch`, `WriteFile`, `EndFetch` | `run_fetch_policies`: every document or nothing, then clause files and manifest, each truncated and filled, stopped anywhere |
| load | `OpenCorpus` | `load_corpus` |
| open, case | `OpenCase`, `Refuse`, `RunPivot`, `CloseCase` | `require_subject`, then the evidence session's pivots |
| memo | `Draft` | the memo session's responses until one is accepted |
| screen | `Screen` | a batch of records redacted, on its own |

The corpus is loaded before the case here and after it in the program; nothing writes
the directory between.  `seen` is a ghost: every row an executed pivot returned.

### Workspace

`file` maps the eight names of a memo session's directory to what they hold;
`command` is the one command running (the exclusive DuckDB connection and an
analyst's terminal admit one at a time), `todo` what it has still to write.  Every
write is `Truncate` (`open` for writing) and then `Fill`; `Crash` may come
anywhere, also between the two.  A JSON file cut short does not parse (`Torn`);
`ledger.jsonl` is lines, so cut short it may read as a shorter chain.

| action | code |
| --- | --- |
| `UnlinkStore`, `Connect`, `AppendEntry`, `CloseSession` | `run_memo_session` up to `session.close` |
| `Truncate`, `Fill` with `DraftWrites` | its files in order, exports only if there is a memo, manifest last |
| `SignMemo`, then the same with `SignWrites` | `sign-memo`: read `memo.json`, gate again, sign an approval, write both exports and the signature |
| `EditMemo` | somebody edits `memo.json` between commands |

A digest is the content it was taken of and a signature is the memo and analyst
it is over.  A memo has its pack, whether its claims and citations hold, and its
status.  `Sealed` is what a reader can check: `verify-ledger --expect-head-from`
on the exported chain, and the manifest's three digests.

### PromptRegistry

`reg` is the `PromptRegistry` value a process holds, `prompts` and `manifest` its
directory.  A text is its digest and its file's name.  `Register`, `Activate` and
`Rollback` make new values with every refusal of the operations and of the
constructors; `Load` is `load_registry`, `Seed` is `write_seed`, and `Write`,
`PassOver`, `Truncate`, `Fill` are `write_registry` file by file.  `Exit` ends the
process anywhere.  Processes follow one another: `write_registry` compares nothing
with the manifest it replaces, so with two at once the later would drop what the
earlier committed; nothing in the package runs two.  In the package itself only
`write_seed` writes and only the prompt evaluation loads; the other operations are
the interface the tests use.

Some directories never load again, and the model has them: after a crash between a
new prompt file and the manifest, the file is stray (`_refuse_unrecorded_files`);
after a first seeding that died while writing the manifest, seeding refuses too,
because the manifest exists.  `LoadsAsWritten` says that such a directory is refused and
never taken for a registry, not that it recovers.

### AuditTrail

Eight actions over one variable, the chain, without budgets, states or packs:
which entry may follow which.  `KeepsAuditTrail` maps `trail` to `log`.  It says
of every evidence session that each hop is one prompt of its own step, judged
before the analyst is asked, run only after that approval, and that a hop that
broke is followed by the end of the session with the reason `dispatch_error`, or by nothing.

## The runs

| run | instance | what it shows |
| --- | --- | --- |
| `ledger` | two bodies, `seq` 0..2, two edits | every combination of two edits on chains up to three entries, with crashes, reopening and writing on after damage |
| `session` | two agents (2 steps/3 tokens, 1 step/2 tokens), estimates 1 and 2, usages 0, 1 and 3, two attempts, four entries | budgets run out in both ways, answers overshoot and undershoot, helpers write up to four entries before any is attached |
| `dispatch` | the shipped triage agent and `anything`, an agent whose mandate has a tool of each odd kind (built, unbuilt, ENFORCE, above its ceiling); the shipped rows too, a name without a row and one without a meaning; five scope sets | every refusal and every outcome of the pipeline |
| `evidence` | the shipped fleet with 3 steps and 5 tokens, estimates 1 and 2, usages 1 and 3, two attempts, hop limits 2, 4 and none | whole sessions to the end, with both budgets exhausted, every hop outcome in every order, and a crash anywhere; the summary and the report of each |
| `memo` | the same, for the memo agent | whole memo sessions: every order of refused, rejected, failed and verified drafts, with a crash anywhere |
| `turns` | one agent with one tool; three items of two classes, 6 tokens; three channels on six platforms, a queue of two | triage and evaluation sessions with calls refused, failed and answered in every order, a crash anywhere |
| `casework` | two channels, three accounts, a video; pages of up to three of sixteen blocks; two pivots; some ninety responses; batches of two records with two patterns | the content of a case from its pages to its memo |
| `workspace` | two packs, two analysts, two drafting sessions, chains of two entries | every order of crashes, reruns, edits and signings, with a file torn at any point |
| `registry` | two tasks seeded, two versions more, three moves more | every log of five moves, written by processes that die anywhere |
| `signed_once` | as `workspace` | expected violation, below |
| `exhaustion_reported` | as `evidence` | expected violation, below |
| `refusals_reported` | as `evidence` | expected violation, below |

*Properties.*  `ledger`: `UneditedIsSound` (as long as nobody ever edited
the store, what the program wrote verifies, whatever crashes lie behind it; and on any
store that verifies the cached head is the rescanned one), `OnlyTruncationIsSilent` (the module docstring's honest limit is the only
one), `ReportedWhereItIs` (`first_broken_seq` is the edited position),
`AnchoredMeansComplete`, `DamageIsPermanent`.  `session`: `BodiesFollowTheChain`,
`BudgetsBind`, `GrantedStepIsUsable`, `CloseReportIsTrue`.  `dispatch`:
`RefusedIffNotPermitted` against a declarative `Permitted`, `ExecutedIsVerified`, the
refinement of `Session`.  `evidence`: `HumanApprovesEveryRun`,
`PackIsWhatTheChainShows`, `HopsTellTheChain` (hop records, summary and report), the
two refinements and `SessionEnds`.  `memo`: `MemoIsWhatTheChainShows`,
`RevisionsAnswerTheLastFindings`, `AttemptsTellTheChain`.  `turns`:
`TriageTellsTheChain`, `QueueIsExplainable`, `EvalTellsTheChain`, `AnswersArePaired`,
`VerdictFollowsTheAnswers`.  `casework`: `CalloutsStandAlone`, `AnchorsAreStable`,
`RedactionIsExact` (against positions, not against the algorithm),
`PackExplainsItself` (against the rows the pivots returned), `EvidenceNeverMoves`,
`AcceptedMemoIsGrounded` (against the rows, the pages and the directory, not against
the gate).  `workspace`: `SignedIsVerified` (whatever was done
to `memo.json`), `SealedIsOneSession` (no mixture of two sessions passes),
`FinishedIsSealed`, `SignedTogether`.  `registry`: `LoadsAsWritten`,
`NothingIsForgotten`.  Each property has a mutant, an operator beside the one it changes
and marked *wrong variant*, that makes the run fail.

*Bounds.*  `MaxSeq`, `MaxEdits` (ledger), `LogBound` (entries a generic caller may
reach, in the bounded specifications only), `Proposals`, `Limits` (`--max-hops`, `--max-attempts`).  Three rows let an edit hit the first, a middle
and the last entry; two edits let one hide another, or be separated by appends.
Four entries in `session` are enough for open, prompt, failure and an unattached
write, or two helpers' writes attached in turn.  In `dispatch` a pipeline writes at
most four entries and the bound of six admits a second proposal after a refusal.
Three hops reach every pair of consecutive outcomes and exhaustion after each.
`LogBound` never binds in the turns; the budgets end them.  Bodies are
interchangeable in `ledger`, hence the symmetry (there is no liveness there).
`MaxRuns` (sessions in one directory): a mixture needs two.  `FullLength` of two
tells an empty, an open and a closed chain apart.  `MaxVersions`, `MaxMoves`: each task
can move away from its seed and back, with the other task's moves in between.  Packs and
analysts, and the two unseeded texts, are interchangeable.
In `turns`, three items (`ItemCount`) with two of one class let the candidate lose a
hit, gain one, do both, or trade one class for the other; six tokens run out among the
candidate's items.  `Platforms` (six) has commenters alone and in company, ties of
severity, a severe channel with the lowest priority, and nothing to flag; a
`QueueLimit` of two cuts.  In `casework` two pivots (`MaxHops`) suffice for hops that
overlap; one account is met by every pivot and shares two values of one signal;
`Inputs` has a known and an unknown entity and each parameter inside and outside its
`Bounds`; a limit of one and of three cuts, also among ties.  `Pages` are all
sequences of up to three blocks, each a shape that can open, close, nest in or break a
section, with and without the operator's callout titles; `WrittenPages` is the one
whose writing is followed, since a write depends on a page only through the documents
it made.  Excerpts have two or three words (`MinExcerpt`, `MaxExcerpt`) where the code
has 4 to 15, clauses at least two (`MinWords`).  `Responses` has facts citing the subject, the last
entity, a provenance, an edge that may not be there and one that never is; grounds on
each document, on no document, too short, in the wrong order or from the old text; and
lines malformed in each way the parser knows.  `Batches` are two records of two or
three positions, also of one id; `SignalSets` all matches of two patterns in them.
Deadlock is not checked where the system may stop: a closed or crashed session, a
case that ended, a directory whose drafting sessions are used up, a registry that loads
no more.  It is in `ledger`.

*Fairness.*  `FairEvidenceSpec` has weak fairness of the turn's own step, and none
of `Crash`.  It says that the program runs on, that the provider answers or fails (the
adapter has a time limit; an exhausted retry is a failure), and that the analyst
answers (`Reviewer.review` blocks without limit, so without this a session need
not end, which is the code's intent).  Retries are bounded by the policy, so no
strong fairness is needed.  The other turns have no loop of their own that the evidence
turn has not, and no liveness property is stated of them.

### Where code and documentation part

* `ExhaustionIsReported` (`orchestrator/evidence_turn.py:363`).  With no
  `--max-hops` the loop's range is exactly the step budget, so it ends without
  `begin_turn` ever refusing, and the session closes as `completed`.
  `docs/decisions/STEP-03-orchestrator-triage.md:33` asks for a `SESSION_CLOSE`
  reason code on step exhaustion.  `orchestrator/memo_turn.py:265` does the same.
* `SignedOnce` (`cli/main.py:630`).  `sign-memo` reads `memo.json`, which no signing
  changes, so its memo is always a draft and the refusals of a signed memo
  (`orchestrator/memo_gate.py:242`, `orchestrator/signing.py:119`) never fire: a second
  signing replaces the first.  `tests/test_memo_signature.py:185` says a memo cannot be signed twice,
  and `docs/USER_GUIDE.md:271` that the gate refuses a signed one.
* `RefusalsAreReported` (`measurement/workflow.py:574`).  The report's line "pivots
  refused before review" (line 476) prints the summary's `rejected_hops`, which are the hops the
  analyst turned down (`orchestrator/evidence_turn.py:118`, `cli/main.py:429`).  Hops
  refused before review are another outcome and in no count of the report.

Met while modelling, in the models, and contradicting no line a run could check:

* A proposal for an ENFORCE tool with wrong scopes is recorded as `scope_not_allowed`,
  since scopes are asked before `validate` (`orchestrator/dispatch.py:229`).  No shipped
  row is ENFORCE.
* `manifest.json` of the registry is truncated in place, so a crash there leaves a
  directory that is refused from then on.
* The exports of a memo stay behind when a rerun drafts none.
* `account_link` sorts commenters before the owner and cuts at the limit, so a busy
  channel's answer has no owner (`orchestrator/pivots.py:509`).
* An evaluation whose tokens run out closes as `completed`: the turn sets a close reason
  for a refused step only, where `orchestrator/eval_session.py:210` speaks of both.
* A model that fails while the incumbent is asked lowers the bar the candidate is held
  to; the verdict is about answers.
* `run_eval_session` refuses a directory that is not empty, the other runners replace
  the old ledger in it.

## The proofs

Eight modules, checked by TLAPS, hold theorems about the *unbounded* specifications, for
every value of the constants their assumptions allow.  Each theorem that names a property
says of every instance what a run shows of a small one.

| theorem | property | says |
| --- | --- | --- |
| **Ledger** | | |
| `LedgerInvariant`, `LedgerTyping` | `LedgerTypeOK` | the inductive invariant; the types |
| `UneditedIsSoundTheorem` | `UneditedIsSound` | what the program wrote verifies, however long and however often it died |
| `OnlyTruncationIsSilentTheorem` | `OnlyTruncationIsSilent` | after any number of edits |
| `ReportedWhereItIsTheorem` | `ReportedWhereItIs` | in a chain of any length |
| `AnchoredMeansCompleteTheorem` | `AnchoredMeansComplete` | also against recomputed hashes |
| `DamageIsPermanentTheorem` | `DamageIsPermanent` | an action property |
| **Session** | | |
| `SessionInvariant`, `SessionTyping` | `SessionTypeOK` | the inductive invariant; the types |
| `BodiesFollowTheChainTheorem` | `BodiesFollowTheChain` | bodies held are the chain, in order |
| `BudgetsBindTheorem` | `BudgetsBind` | both budgets, for any mandate |
| `GrantedStepIsUsableTheorem` | `GrantedStepIsUsable` | no call refused for its own step |
| `CloseReportIsTrueTheorem` | `CloseReportIsTrue` | the close entry's counts and budgets |
| **Dispatch** | | |
| `DispatchInvariant` | | the inductive invariant |
| `DispatchIsASession` | `SessionSpec` | a refinement |
| `RefusalsAreJust` | `RefusedIffNotPermitted` | for any tool table and mandates |
| `ExecutionsAreVerified` | `ExecutedIsVerified` | called, returned, accepted, in that order |
| `DispatchKeepsBodies` | `BodiesFollowTheChain` | by the refinement |
| **Evidence turn** | | |
| `EvidenceInvariant` | | the inductive invariant |
| `EvidenceIsASession` | `SessionSpec` | a refinement |
| `EvidenceKeepsAuditTrail` | `KeepsAuditTrail` | the refinement of `AuditTrail` |
| `HumansApprove` | `HumanApprovesEveryRun` | no tool runs without its own approval |
| `PackIsTheChain` | `PackIsWhatTheChainShows` | the pack is the hops accepted on the chain |
| `HopsAreTheChain` | `HopsTellTheChain` | hop records, summary and report count what is on the chain |
| **Memo turn** | | |
| `MemoInvariant` | | the inductive invariant |
| `MemoIsASession` | `SessionSpec` | a refinement |
| `PromptsCarryTheLastFindings` | `RevisionsAnswerTheLastFindings` | attempt by attempt |
| `MemoIsTheChain` | `MemoIsWhatTheChainShows` | which draft is delivered, and as what |
| `AttemptsAreTheChain` | `AttemptsTellTheChain` | each record has its entries, each entry its record |
| **Single turns** | | |
| `SingleInvariant` | | the inductive invariant |
| `SinglesAreSessions` | `SessionSpec` | a refinement |
| `TriageIsTheChain` | `TriageTellsTheChain` | the queue, its rationales and the outcome are the chain's |
| `QueuesAreExplainable` | `QueueIsExplainable` | on any platform, for any limit |
| `EvalIsTheChain` | `EvalTellsTheChain` | the verdict is the chain's, the files follow it |
| `AnswersAreGradedInPairs` | `AnswersArePaired` | item by item, and each answer paid for |
| `VerdictsFollow` | `VerdictFollowsTheAnswers` | for any classes, items and tolerances |
| **Case** | | |
| `MemoIsGrounded` | `AcceptedMemoIsGrounded` | for any pages, platform and responses |
| `PackIsExplained` | `PackExplainsItself` | for any platform, pivots and labels |
| `EvidenceStays` | `EvidenceNeverMoves` | an action property |
| `AnchorsStay` | `AnchorsAreStable` | in every document a page makes |
| `CalloutsAreAlone` | `CalloutsStandAlone` | of any page whose headings hold no callout |
| `RedactionsAreExact` | `RedactionIsExact` | for any batch and any matches in it |
| **Workspace** | | |
| `WorkspaceInvariant` | | the inductive invariant |
| `SignaturesAreVerified` | `SignedIsVerified` | whatever was done to `memo.json` |
| `SealsHoldOneSession` | `SealedIsOneSession` | after any crashes and reruns |
| `FinishedSessionsAreSealed` | `FinishedIsSealed` | a drafting that ended is sealed |
| `SignaturesStandTogether` | `SignedTogether` | a signing that ended is over one memo |
| **Prompt registry** | | |
| `RegistryInvariant`, `ManifestsAreBacked` | | the inductive invariant; no recorded file is missing |
| `LoadingIsFaithful` | `LoadsAsWritten` | what loads was written whole |
| `CommitsOnlyAppend` | `NothingIsForgotten` | an action property |

**Ledger.**  From `LedgerAssumption` (the bounds are naturals) and injective
hashing.  None of the properties is inductive as it stands.  `LedgerInv` adds to the types:
`CacheIsTail` (an open handle's cache is the tail of the table), `BaselineIsKept`
(as long as nobody edited the store since it was last opened, it is what was found and written), `DigestsAreOld` (short of a recomputed
hash, every digest in a table was in the baseline: an editor can move digests, not
make them) and `AnchorWasHead`.  The key lemmas are `IntactTable` (an intact
table's sequence numbers are `0..n-1` and its rows are linked), `SameTailSameTable`
(two intact tables with the same head are equal: the last row in which they
differed would have one digest and two contents),
`HashIsInjective`, `InsertIsLast`.  That the program's own chains verify is an induction
over its steps: `NextRowKeepsIntact` says that a row numbered, linked and hashed from the
tail of an intact table leaves an intact one (its sequence numbers are `0..n`, the new row
holds the digest before it, and no earlier row or its predecessor has moved), and
`CacheIsTail` that the cache is that tail, also after a crash between the row and the cache;
an edit makes `edited` nonzero for good, unlike `edits`, which opening the store
forgets.  Where an edit shows is `AgreeingBeforeReports`: a table
that agrees with an intact one below a position, and is out of order there, reports that
position; `AlteredRowShows` and `MissingRowShows` bring every edit but a truncation and a
recomputed hash under it.

**Session.**  From `SessionAssumption` and `WorkEventsAssumption`.  `SessionInv`
adds `Quiet` to the properties: while a call is in flight, and before opening and
after closing began, no helper's body waits, and the call belongs to a granted turn.
Without it `ModelAnswers` could arrive in a closed session and `FinishClose`
could miscount.  `StepKeepsInv` has one step per action; `WriteKeepsOrder` is the
argument about the two routes (append to both, or to chain and helper; move the
helper's first), `CloseTellsTheTruth` the one about the counts.

**Dispatch.**  Also from `DispatchAssumption` (rows, mandates and proposals are of the
names there are, and no mandate's ceiling is ENFORCE, which `Mandate` refuses) and
`WritesAssumption` (what dispatch writes is among the entries a session may write).
`Pipeline` ties where dispatch is to what it has decided, which checks it has passed, how
the chain ends and how many bodies wait: a mistyped or rejected result must still know it
came from a permitted call, and `attach_event` must find its own entry next.  The
refinement has one step per action, each a `Record`, a `LedgerOnly`, an `AttachEvent` or a
stutter of `Session`.  The proofs of session and dispatch stand at the head of
`AgentTurnProofs`, which the turns' proofs extend.

**The turns.**  `AgentTurnProofs` has what the turns share, from `TurnAssumption`: the
turn's act is one its agent may take and whose tool is built, which `default_mandates`
and the shipped tool table satisfy.  `TurnInv` ties the turn's place to the session's state
(`TurnPlace`) and, while it dispatches, to the end of the chain (`OnDispatch`).  A turn
is a program counter over a session over a pipeline, so every property of the turn needs
all three.  The lemmas there (`TurnDispatches`, `TurnRecords`, `TurnMoves` and the others)
take one kind of step each, so that a turn's own proof is only about its own variables.

*Evidence.*  From `EvidenceWritesAssumption` too.  `OnTrail` says how the trail ends at
each place, which is what makes each write a step of `AuditTrail`.  `Ordered` (of any two
neighbours on the chain, an act follows its own step's approval and the approval its own
proposal) gives `HumanApprovesEveryRun`: the property is about all of the chain, the turn
only ever sees its end.  `Packed` counts the step in hand, accepted on the chain and not yet
taken, apart; without it the pack is behind the chain between `GateAttaches` and
`HopDispatched`.  `HopBooks` is the invariant behind the report: each hop recorded has its
entries on the chain (`Traced`), what is recorded of the hop underway follows from its place
(`InHand`), and the entries of each type number the recorded hops that show one plus what
the hop underway has written (`Balanced`).  `EntryCounts` and `HopsGrow` say what one more
entry or hop does to those cardinalities.

*Memo.*  From `MemoWritesAssumption` too.  `MemoBooks` has four parts: an attempt is a
granted step but for a last one that found the budget empty (`Counted`), each prompt
sent carried the findings on the step before it (`Asked`), the chain shows what became of
every attempt and of the one underway (`Traced`), and the memo is the last attempt's that
had one, with nothing after a verified one (`Kept`).  `Traced` has to say of a step
that has not begun that the chain shows nothing of it, or an old entry could vouch for
a new attempt.

*Triage and evaluation.*  From `TriageAssumption` (a data set is finite and its signals are
of the kinds there are), `EvalAssumption` and `SingleTurnsAssumption`: the set of classes is finite, a ratio is a count out of a natural
`Scale` every divisor divides, and neither runner gives a limit.  `OneStep` says that
everything such a session shows, it shows of turn 1, so that "the entry is on the chain"
needs no step number to be told apart.  *Triage:* `TriageTraced` says what the chain shows
at each place, `Grounded` that a row keeps a rationale only once they were judged and only an
accepted one.  `Explained` says of the queue's subjects what the platform says of them; it
rests on `RankedIsSorted` (a finite set in a strict total order has each member at one
place, the order kept), which is a pigeonhole and no induction: the number of members
before each is an injection into as many places.  That the orders are total needs severities
and priorities to be numbers, hence `SeverityIsNatural` and `PriorityIsInteger`.  *Evaluation:* `Paid` is the balance behind `AnswersArePaired`: answers,
failures and the call underway, if there is one, number at most the prompts; without the
call underway an answer could arrive for which nothing is left.  `Paired` says how far both
versions have come from one counter.  `Fair` bounds what the report says by the answers it
is of.  `DecisionIsJust` is the argument about `decide`: versions that answer alike have the
same hits, the same macro F1 and no class changed, so only silence is left to refuse for;
and what passes the drop in recall on its lower bound is within it on the observed change.
The macro F1 is stated as the number of its points, so that equal answers give
equal sums without an induction over the classes.

**Case.**  From `PlatformAssumption` (a store is finite, ids are keys, references are to
rows there are), `RecoveryAssumption` (labels are finitely many, an entity has one ring,
what is on the platform is labelled with a kind a pack can hold), `ExcerptAssumption`,
`HopsAssumption`, `PagesAssumption` and `CorpusAssumption`, which say that pages,
texts and corpora are sequences and that a page is `WellMarked`, and `BatchesAssumption`
(a match is not empty and inside a text of its batch).  `CaseInv` has the corpus and the pack.  `CorpusInv`
follows the manifest through the writes: torn, the old one or the new one, so that what
loads was written whole.  `Gathered` ties the pack to the ghost `seen`, record by record;
`Connected` says that an edge is found no earlier than what it joins, and that any set
which holds the subject and is closed under the edges found up to a hop holds all that
was in reach at it.  This form of connectedness needs no paths, and a hop keeps it
because each row joins what it names to what was asked about (`RowsJoinTheirEntities`).
`GrowthStops` (a set that only grows in a finite one has stopped after as many steps as
it has members) then equates it with the recursive `Within`.  What the code does to lists
is stated by counting: `Those` and `Joined` place each element by what comes before it, so
that `UnseenComeBehind`, `JoinedHolds` and `JoinedGrows` are pigeonholes; `Recursion` (a
definition over `0 .. n` defines a function) and least counterexamples take the place of
induction where the parser and the reach are recursive.  *Memo:* `AcceptedDraft`,
`DispatchedIsTheDraft` and `CitationsAreOfOneDocument` follow a ground from the line that
parses to the clause it quotes, through the one citation the tool attaches.  *Pack:*
`RowsAreTold` (two rows of one question are told by different records) is by cases on the
five pivots.  *Recovery* needs no count of its own: the sets counted are equal.
*Callouts:* `WellMarked` asks of a page that no heading holds a callout, and otherwise only
says which words are boxed: divs, headings, list items and ignored elements may nest, cross
and stay open as they will.  `Placed` ties the parser's counters to it: `ignore_depth` is
how far the ignored elements open are above their lowest count so far (`Hidden`),
`callout_depth` counts the divs open since the first callout that still lasts, every one
before it being over (`Standing`), an open heading is not in a callout, and before the first
heading the parser is as it was made.  Where it stands says which words can come to it
(`WordsFit`), and its fields keep the two kinds apart (`ParserStates`); neither is inductive
without the other (`ParsedStands`).
*Anchors:* withdrawing a clause of another slug leaves the clauses of this slug before a
given one in bijection with themselves (`WithdrawnMovesNoOther`).  *Screening:* spans
that neither touch nor overlap (`Apart`) and begin no later than the next match stay so
when it is merged, and then cover its positions too (`MergeCoversBoth`); the pieces are
the parts between the cuts such spans make (`CutsPart`).  `ScreenInv` brings this to what
is sent; that ids are unique in a batch keeps each match with its own text.

**Workspace.**  From `WorkspaceAssumption`.  No property is inductive by itself: a crash
leaves any prefix of a command's files.  `Halfway` says exactly that (the files before
the next due hold what the command writes, and `todo` is the rest of its order),
`DescribesOneSession` that a manifest once written describes one session even after
the files around it have gone, `OneCommand` that nothing else writes.

**Prompt registry.**  From `RegistryAssumption`.  `ManifestIsLast` (the manifest is
written once and after every prompt file of the registry held) with
`ManifestIsCommitted` gives `RecordedIsWritten`, the fact `load_registry` relies on;
`ExtendsCommitted` makes `NothingIsForgotten` a property of single steps.

**Only model-checked.**  `SessionEnds`: liveness under fairness is beyond TLAPS here.
The three violations are shown by their counterexamples.

## Not modelled

Payloads, timestamps and wording; the adapters' network and backoff times; the
firewall's patterns, fence and escaping; attributes and digests of evidence records;
layout of reports and exports; the CLI's parsing and exit codes.  The synthetic data's
generator is seeded sampling from distributions and runs once, offline.  The
statistics (`vvr.py`, `frame.py`, `sensitivity.py`, `raters.py`) are floating-point
estimators over samples: pure, sequential, and beyond TLC's arithmetic.
`PROJECT.json` says so of each component.

## Plan

Done: the ledger, the session, dispatch with the shipped fleet, all four turns, the
memo session's directory with its signing, the prompt registry, the content of a case
from its sources to its memo, and what is counted of a session.  The proofs cover
every component of the control and of the files and the whole of a case.  `SessionEnds`
alone stays with TLC.
