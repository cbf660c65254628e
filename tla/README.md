# SecMiniAgent: verification models

TLA+ models of the parts of SecMiniAgent whose correctness depends on order,
concurrency, failure or a subtle algorithm: threads, runs and the transcript; the agent
loop and the model stream under it; notes, summaries and the prompt made of them; deletion;
and the way from schema 1 to schema 2. TLC checks the models on small instances; TLAPS
proves every safety and action property that the runs check, and that `ThreadRun` implements
its abstract specification, for every instance. Source paths below are relative to
`src/secminiagent/`.

| module | what it is | run | proved in |
|---|---|---|---|
| `ThreadRun` | threads, runs, messages, recovery | `threads` | `ThreadRunProofs` |
| `ThreadJournal` | abstract specification of `ThreadRun` | `threads` | `ThreadRunProofs` |
| `ThreadRunJournal` | refinement mapping `ThreadRun` -> `ThreadJournal` | `threads` | `ThreadRunProofs` |
| `AgentSession` | the agent loop over the tables of `ThreadRun` | `agent`, `max_turns` | `AgentSessionProofs` |
| `ModelStream` | one streamed request to the model | `agent` | `AgentSessionProofs` |
| `CascadeDeletion` | deletion beside transcript, notes, summary, promotion, index | `deletion`, `deletion_*` | `CascadeDeletionProofs` |
| `NoteLifecycle` | notes: revise, propose, confirm, promote, index, expire | `notes` | `NoteLifecycleProofs` |
| `MemoryPolicy` | the gate before every stored text | `notes` | `MemoryPolicyProofs` |
| `RollingSummary` | building summaries over the tables of `ThreadRun` | `context` | `RollingSummaryProofs` |
| `ContextAssembly` | the prompt made of thread, summary, notes and hits | `context` | `PromptPatchProofs` |
| `ApplyPatch` | the tool `apply_patch` | `context` | `PromptPatchProofs` |
| `V1Memory` | the memory service of schema 1 | `upgrade` | `SchemaMigrationProofs` |
| `SchemaMigration` | the migration of the memories, over `V1Memory` | `upgrade` | `SchemaMigrationProofs` |
| `LegacyTranscript` | the migration of a v1 transcript | `upgrade`, `legacy_events` | `SchemaMigrationProofs` |
| `WorkspaceKeys` | creation of salt and key files | `upgrade` | `SchemaMigrationProofs` |
| `MC*` | instances for TLC | | |

`PROJECT.json` maps every definition to source lines, lists the runs, for each property
a mutation of the model that breaks it, the findings, the hazards and the theorems.

## 1. Inventory

SecMiniAgent is a command-line agent. A process loads a session, asks a model, runs the
tools it calls and records everything in a workspace database (SQLite, one file shared
by all processes) with a vector index (Chroma) beside it. Chroma is an optional extra: a
process that cannot load it runs with `index=None` (`memory/factory.py:42-47`, `:129-134`), so
of two processes on one workspace one may have the index and the other not. There are no
threads and no servers: concurrency is several CLI processes on one workspace, and within a process the
`await`s of the loop. A process can die anywhere; a SQLite write is one `BEGIN IMMEDIATE`
transaction; the index has no transactions at all.

| component | state | operations | hard behaviour | correct when |
|---|---|---|---|---|
| thread and run lifecycle (`memory/thread_run_store.py`, `thread_run_service.py`) | tables `threads`, `runs` | create, archive, begin, transition, recover, progress | two processes begin, archive, interrupt and recover; recovery reads first and writes later | one running run, the newest of an active thread; a terminal run never changes |
| transcript (`memory/transcript_v2.py`) | message rows, two sequence counters | append, resume | append checks against sets, resume walks in order; failed runs leave open tool groups | whatever append accepts resume can read; dense sequences; runs do not interleave |
| agent loop (`agent/loop.py`, `storage/transcript.py`) | run and last message of the session | prompt, reply, tool result, complete, fail | errors at every await, refusals of the tables, crashes, `max_turns` | every run ends; a completed run is answered |
| cascade deletion (`memory/cascade_delete.py`) | tables `deletion_jobs`, `deletion_items` | preview, execute, apply, sync, resume | several transactions of a process that may stop between them, and other writers in between | what was confirmed is revoked for good, nothing unseen is destroyed, the rest stays usable |
| notes and promotion (`memory/notes.py`, `long_term_memory.py`, `promotion.py`) | note rows, relations, index status | add, confirm, reject, retract, revise, promote, retry index | read and write in different transactions, the index marked afterwards | a revoked note stays revoked; one promotion per note |
| candidates (`memory/candidate_extractor.py`, `dedup.py`) | note rows, conflict relations | submit | three transactions for one proposal | sources exist; conflicts are linked |
| rolling summary (`memory/summarizer.py`) | summary rows | build, active | optimistic build with a compare before the write | one active summary whose sources are intact |
| vector index (`memory/vector_index.py`) | Chroma collection | index, delete, reset | any call may fail | no entry of a revoked row once a job is closed by a process with the index |
| retention (`memory/retention.py`) | expiry, pin | set, scan | scan reads, then writes one by one | only what is due expires |
| search (`memory/search.py`, `ranking.py`) | none but stale ids | search, reconcile | index ahead of or behind SQLite | no revoked row is returned |
| v1 memory (`memory/local_service.py`, `store.py`) | v1 tables, index | remember, forget, retry, rebuild | outcome of the index marked late | a forgotten row stays forgotten |
| migration (`memory/migration.py`, `migration_v1_v2.py`) | shadow tables, phase | prepare, verify, activate, resume | stop between phases, v1 rows that change | nothing lost on activation |
| keys and encryption (`memory/keys.py`, `crypto.py`, `state_auth.py`) | key and salt files | create, load | two processes create them at once | one key per workspace |
| context assembly (`memory/context_assembler.py`) | none | assemble | four budgets, a provider filter and a watermark against tool-call groups | no group is cut, nothing is hidden twice, the total is kept |
| policy and redaction (`memory/policy.py`, `detectors.py`, `redactor.py`) | none | evaluate, redact, confirm | failing detectors, overlapping spans | finding more never reaches further; what was found is not stored |
| model client (`llm/openai_client.py`) | queue, deferred text | stream_complete | worker thread and event loop; text that may be a tool call | what is shown is the answer; every request ends |
| patch tool (`tools/patch_tool.py`) | files | apply, dry run | line numbers, failure at a later file | a diff makes the file it was made for |
| security, threat, parsers; RAG; skills; other tools | none that other components rely on | pure calls or external I/O | - | - |

Interaction: `cli.run_once` creates the `ThreadAwareTranscriptStore` and calls
`AgentLoop.run`, which calls `begin_run`, `append` and `complete_run`/`fail_run` of the
thread services. Notes cite messages and other notes, summaries cover messages, promoted
notes cite notes; each citation is in the encrypted payload of the citing row and again a
row of `memory_relations`, and readers raise when the two disagree. Deletion follows
these relations and shares the tables with every other writer; no service holds a lock
across two transactions, they rely on `state_version` compares and on the tokens of
deletion.

`PROJECT.json` lists the components, modelled or not, and each hazard at its line, with
the properties that would catch it or the reason why none does.

Instances. Each MC module is one instance in which a behaviour fixes at the start what it
is about (`story`, `about` or `active` is chosen in `MCInit` and never changes) and then
takes the steps of that part only. So each question gets the bounds it needs, several
small questions share a run, and a step that no story allows would be seen as an action
that never fires. Where a story uses one thread, process or call id of several, it may be
any of them, so that the symmetry sets stay sound; liveness is checked without symmetry.

## 2. ThreadRun: threads, runs and transcript

State: `threads`, `runs` and `messages` are the tables of one session (ids are fresh random
tokens, so a row is its position), `recovery` what each recovering process has read and
not yet visited. One action per write of `ThreadRunStore` and
`ThreadTranscriptService.append`:

| action | code |
|---|---|
| `CreateThread`, `ArchiveThread` | `create_thread`, `archive_thread` (and `ensure_main_thread`) |
| `BeginRun` | `begin_run`: the thread is active and has no running run |
| `CompleteRun`, `FailRun`, `InterruptRun` | `transition_run` through `ThreadRunService` |
| `RecoverScan`, `RecoverNext`, `RecoverAbort` | `recover_running`: read on one connection, then one transaction per run, until one is refused |
| `AppendUser`, `AppendAssistant`, `AppendTool` | `append`: tool-call rule, both counters, insert, `record_message_progress` |
| `AddNote` | `add_candidate` and summaries, as far as they take a sequence number of the thread |

`resume()` is the predicate `ReadableAt`. A refused operation rolls back and is no step.
Contents, encryption, MACs and timestamps are left out.

`ThreadJournal` says what readers may rely on: a journal per thread whose last entry alone
may be open, gets lines and is settled once, and whose line numbers may have gaps.
`ThreadRunJournal` maps the tables to it.

| story of `threads` | instance |
|---|---|
| runs | 2 threads, 3 runs, 1 message, 1 call id, 1 recoverer |
| transcript | 1 thread, 2 runs, 5 messages, 2 call ids, 1 note |

Both are checked for `TypeOK`, `RunningRunIsNewest` (no two running runs in a thread, none
in an archived one), `TerminalRunsAreFrozen`, `RunsDoNotInterleave`, `ThreadsReadable`
(whatever `append` accepts, `resume` can read) and `ImplementsJournal`.

Why the bounds are enough: a run that overtakes a recovery needs the run it read and one
more, a third covers a second thread in between. A tool group of two calls with
user message, both results and a message after it takes five rows, and two runs put a
failed, half-open group before them; a note makes the two counters differ. A recovery
does to the transcript what an interrupt does, so the second story has none. Recovery is modelled although no command calls
`recover_running_runs` today: it is public, tested, and the only way out of a crash.

## 3. AgentSession: the agent loop

Each process has a `session` record: its place in `AgentLoop.run` and the run, thread and
last message of its `ThreadSessionState`. The places are those where the code leaves the
process: `begun` (after `begin_run`, before the user message, outside the `try`), `turn`,
`tools`, `completing` and `failing` (the `except` clause). Each action embeds the
transaction of `ThreadRun` it performs, or its refusal, in which case the exception takes
the way it takes in the code. `Raise` is an error of model, event handler or database at
any await inside the `try`, `Crash` a kill, a cancellation (`except Exception` does not see
it) or an error outside the `try`. The user's `run interrupt` and `thread archive` come
from other processes at any time.

| run | instance | shows |
|---|---|---|
| `agent` | 2 processes, 1 thread, 2 runs, 2 call ids, `max_turns` 2 | `CompletedRunsAreAnswered`, `AbandonedRunsCrashed`, and with fairness `RunsEnd` |
| `max_turns` | 1 process | violation of `MaxTurnsIsNotAnError` |

`MaxMessages` is 14 so that it never binds: a run has at most one user message, two turns
and two results. Two runs let one process find the other's run, a new run after an
interrupted one, and a session state that served a run before.

Fairness is weak fairness of `LoopStep` of every process, and nothing else: the loop
waits only for the model and the tools, which answer or raise; when a process dies it is
`down`, where `LoopStep` is disabled. Prompts, crashes, errors and user commands are not
fair. A run whose process crashed is excused: that is what `recover_running` is for.

`ModelStream` is the request under the loop (`OpenAIClient.stream_complete`). `wire` is
what the server sent, `reader` what `_consume_stream` made of it in the worker thread,
`queue` the `asyncio.Queue`, `request` the coroutine with what it showed the user.

| action | code |
|---|---|
| `StartRequest` | `stream_complete` up to the worker task |
| `ReadText`, `ReadCall`, `ReadEnd`, `ReadFails` | `_consume_stream`: text shown or deferred, calls assembled by index, end of the stream, any exception (`worker`) |
| `ShowDelta`, `RaiseError`, `ReturnOrAskAgain` | the loop over the queue |
| `AskAgain` | the second request, without a stream, after an empty answer |

Streams have up to four chunks of text, or three where some are chunks of calls: a blank
before the first word, a JSON object in two pieces and its end token take four. Fairness:
a read of the connection returns or times out (`urlopen(timeout=)`), so `Worker` is weakly
fair, and so is `EventLoop`; the stream is finite by `MaxChunks`. `ShownIsTheAnswer` and
`RequestsEnd` (`~>`) are checked with the agent's properties in `agent`; the loop and the
request share nothing here, since `AgentSession` takes any answer of the model.

## 4. CascadeDeletion: deletion beside everything else

One thread of one session. `rows` is table `memories` (message, note, summary, promoted
note, independent copy), `relations` the live rows of `memory_relations`, `index` the
Chroma collection, `jobs` the deletion tables. `deleter` and `indexer` are processes.

| step | code |
|---|---|
| `Preview` | `preview`: plan, snapshot-bound token |
| `Execute` | `execute`: plan again, compare the token, choose what to retain, write the job |
| `ApplySqlite` / `ApplyDone` | `_apply_sqlite`: revoke items, copy retained ones, tombstone relations, delete the root, all in one transaction |
| `SyncItem` / `FinishSync` | `_sync_index`: each index call may fail; close the job if none did; without the index there is nothing to go through and the job is closed at once (`Syncing`) |
| `Resume` | `resume` of an `authorized` or `index_pending` job, by any process |
| `StopDeleter` | the process dies, raises, or the user drops the token |
| `BeginRun`, `CompleteRun`, `AppendMessage`, `ArchiveThread` | the thread in use |
| `SubmitNote`, `SubmitConflict`, `LinkConflict`, `LoseConflict`, `ConfirmNote`, `RetractNote` | notes; the relations of a conflict are a transaction of their own, which a crash can lose |
| `BuildSummary` | `RollingSummaryService.build`, successful |
| `PromoteNote`, `RetryIndex`, `PutIndex`, `MarkIndex`, `StopIndexer` | promotion: row, index and mark are three steps |

Atomicity, where the model merges steps of the code:

- the plan of `execute` and the transaction that writes the job: only deletion touches the
  job tables, so what comes between the two may as well come after both;
- `_sync_index` reads its items together with the step that leads to it; items never
  change after the apply;
- the delete of an item, the put of its retained copy and the mark of the copy are one step:
  no deletion reaches a copy, and a retry in between puts the same vector;
- `build` compares thread state, old summary and every source row before it writes, so a
  successful build is one step. One corner is left out: stale items of a run deletion
  that commit between its read and its write without touching what it compares;
- the check of the sources in `submit` and `add_candidate`.

Left out here: session-scope promotion, expiry and pins, rejected and revised notes,
deduplication and `reconcile_stale` (they are in `NoteLifecycle`), secret rows (never
indexed), `max_nodes` and `max_depth`.

The index is optional. Whether a process has it is chosen where the code asks `self.index`: a
promotion (`PromoteNote`), the apply that makes a copy (`NewIndexStatus`), and every process
that begins to sync or resumes (`Syncing`); `chroma` in `deleter` remembers it for the sync.

The whole `Next` is what the theorems are about. For TLC it is too rich to reach the
interesting rows within a bound, so each story of `MCDeletion` lets a part of the services
write:

| story of `deletion` | writers beside deletion | instance |
|---|---|---|
| summaries | transcript, archive, summary | 2 runs and 1 deleter, or 1 run and 2 deleters; 2 jobs |
| notes | transcript, notes, conflicts | 1 run, 1 deleter, 1 job |
| index | transcript, notes with one source, promotion and its index | 1 run, 1 deleter, 1 indexer, 2 jobs |
| retention | transcript; before the first job: notes with one source, their promotion without the index | 1 run, 2 deleters, 2 jobs |

In the story of the index every deletion may be with it or without; in the other stories,
where nothing but copies is put there, deletions have it (`NeedsIndex`).

All are checked for `DeletionTypeOK`, `CommittedJobsRevoke`, `OnlyConfirmedRowsAreDestroyed`,
`OneCopyPerRetention`, `RevokedStaysRevoked` and `OnlyLatePutsSurvive`. `MCDeletion` has two
history variables for the last one: `late`, the index entries that were put there after their
row had been revoked, and `synced`, the jobs that a process with the index closed as complete.
`RecordedSpec` is the whole `Next` with them (`RecordHistory`), and every story is a behaviour of
it. `late` separates what `_sync_index` answers for, and gets right, from a promotion that puts its
vector after the deletion took it out (`deletion_late_index`); `synced` leaves out the jobs that
only processes without the index closed, which delete no vector (section 8).
`SettledRunsSpec`, in which running runs are not deleted, serves `deletion_after_summary`: it
does not need a run that is still being written.

Why the bounds are enough: two jobs are what it takes for one deletion to find items
of another, and to resume an old job after a newer one; `MaxRows` (3) does not bind the
copies an apply makes. Three rows hold a message, a note that cites it and its promotion,
or two messages and a summary; a summary that supersedes another needs a fourth row, which
`RollingSummary` has. `MaxVersion` only ends the loop of index retries.

## 5. NoteLifecycle and MemoryPolicy: what becomes a note, and what becomes of it

`notes` are the note rows of table `memories` in insertion order, with scope, status,
confirmation, revision, index status and retention; `relations` the live rows of
`memory_relations`; `index` the collection; `op` what each process is in the middle of. A
call of one transaction is one action, a call of several a sequence of steps of its
process, between which others act and at any of which it may crash. A process without the
index promotes a row that stays out of it (`PromoteNote`) and takes none of the index steps.

| action | code |
|---|---|
| `AddNoteCandidate`, `ConfirmOwn` | `add_note`: candidate and confirmation in two transactions |
| `ConfirmNote`, `RejectCandidate`, `RetractNote` | `confirm_note` (which supersedes what the candidate replaces), `reject`, `retract_note` |
| `ReviseRead`, `ReviseReplace`, `ReviseRefused`, `ConfirmOwn` | `revise_note`: read, `add_candidate(supersedes_id)`, `confirm_note` |
| `SubmitCheck`, `SubmitAdd`, `SubmitRelate` | `submit`: deduplication, candidate, relations |
| `PromoteNote` | `preview_promotion` and `promote_note` |
| `PutVector`, `MarkRow`, `ReconcileIndex`, `RetryNext` | `_index_workspace`, `retry_index`, `reconcile_index` |
| `Search`, `ReconcileStale` | `HybridMemorySearch.search` as far as it finds stale ids, `reconcile_stale` |
| `SetExpiry`, `Pin`, `ScanExpired`, `ExpireNext`, `TimePasses` | `RetentionService`; the scan lists first and expires row by row |

`MemoryPolicy` is `MemorySafetyEvaluator.evaluate` and the confirmation after it: `facts`,
any finite set of signals, is what detectors would find in a text; any set of detectors may
fail (`Detect`), `Decide` is the
table of `RiskPolicyEngine.decide` (the first rule that applies decides),
`NonOverlappingSpans` the choice of the redactor: a span is in it unless one that was
accepted before overlaps it. One
category stands for each group the code treats alike; what a regular expression matches
is input. `Reach` is how far the write after an evaluation takes the text: nowhere, where it
is not approved or the caller is not in the target scope (`InScope`), into thread or session, or
into the workspace.

| story of `notes` | instance |
|---|---|
| workflow | 1 thread, 2 processes, 3 notes: `OneReplacement`, `ProposalsWaitForConfirmation`, `RetiredStaysRetired` |
| index | 1 thread, 2 processes, 3 notes with promotion: `PromotedOnce`, `IndexedRowsHaveVectors` |
| expiry | 2 threads, 2 notes without promotion, clock 0..2: `OnlyDueRowsExpire` |
| policy | every set of up to 3 signals on spans `<<0,0>>`, `<<0,1>>`, `<<1,2>>`, every scope and context, and of the detectors up to two failing or all of them: `StoredTextIsRedacted`, `MoreSignalsReachLess` |

Three notes are an original and two replacements by two processes, or a source, its
promotion and a second promotion. The three spans are two nested and two crossing ones.
Crossing spans are the premise of `StoredTextIsRedacted`: of those the redactor drops the
later one and its rest stays in the text. `MoreSignalsReachLess` is about every scope; its one
exception, `WidenedFor`, is what `memory/policy.py:117` does with a confidential text that is asked
for the thread (section 8). Three signals and two failures or all (`ThreeSignals`, `FewFailures`, of the instance only; the theorems
have neither bound) are enough: the signals are a secret or personal datum, one that holds it
back or mitigates it, and the one that is taken away.

## 6. RollingSummary, ContextAssembly, ApplyPatch

`RollingSummary` extends `ThreadRun`, so that transcript and summaries grow together.
`build` is `ReadThread`, `ReadSummary`, `SelectMessages` (three reads without a
transaction), `Activate` (one transaction that compares and writes) or `GiveUp`.
`SummariesCoverPrefix` and `WatermarksKeepGroups` relate the summary to the transcript;
`BuildsAreAtomic` says that the optimistic build is as good as one under a lock, which is
what `CascadeDeletion.BuildSummary` assumes.

`ContextAssembly` is one step: `Assembled` of a transcript, a summary, notes, hits, a
provider and budgets. A message is its size, class and call ids. `Assemble` follows the
order of `assemble` (filter, summary, notes, hits, groups, current run, popping against the
total, watermark, history), since the properties depend on it. A group is named by its
first message, `Fit` goes through groups or entries with what it has used so far, as `_fit`
does. Transcripts, recalled entries, summaries and budgets are constants with assumptions:
a transcript is one that `append` accepts (a result follows a call of its run that it
answers, `_message_shape` and `_validate_sequence_and_pairs`), sizes are
numbers (lengths of what `_render` makes), budgets are what `ContextBudgets.__post_init__` accepts.

`ApplyPatch` has the files of the workspace (`disk`), the file patches of a diff, and the
call that works through them; a dry run goes the same way. `HunkAt` and `Hunks` are the
reference: the hunks `diff -u` cuts from an edit script, whose two sides are `OldLines` and
`NewLines`. `DiffsMakeTheNewFile` checks `ApplyHunks` against them; `DryRunsForetell` is about
several files and failures. Loops of the code are recursive functions over the number of
lines, hunks or edits done (`after`, `Sides`), which is what the proofs count by.

| story of `context` | instance |
|---|---|
| summaries | 2 builders, 1 thread, 2 runs, 4 messages, 1 call id, 2 summaries |
| prompt | every transcript of up to 4 messages in 2 runs that `append` accepts, at most one large and one confidential message, with and without summary, note and hit, 3 budgets, a local and a remote provider |
| patch | 2 files, 2 lines; one file with every edit script of up to 4 lines, or two with scripts of one; context 0 and 1 |

Four messages hold a call with two results and one more, or a group in each run. Two
summaries are one and its successor; two builders race for it. `CallIdsUnique` is a premise
of `PromptsKeepGroups`: `append` keeps call ids apart only within a run. `Placed` is a
premise of `DiffsMakeTheNewFile`, see section 8.

## 7. V1Memory, SchemaMigration, LegacyTranscript, WorkspaceKeys: from schema 1 to 2

`V1Memory` is `LocalMemoryService` over `SQLiteMemoryStore` and the index: `rows`,
`vectors`, and per process the `calls` record of the method it is in. Each store call and
each index call is an action (`Remember`, `PutVector`/`PutVectorFails`, `Mark`; `Forget`,
`Revoke`, `Unindex`/`UnindexFails`, `Purge`; `RetryPendingDeletions`; `ResetIndex`,
`ListLive`, `RecallForIndex` of `rebuild_index`). A process is opened with the index or without
it (`Open`); without it nothing is put (`ToIndex`), a deletion goes from revoking to purging
(`Unindexing`), and a rebuild does nothing. Session rows are messages or the row that describes
the session (`session_meta`), which the migration leaves in its scope.

`SchemaMigration` extends it with `migrate-schema`: `Prepare`, `CreateShadow` and
`FinishScript` (a script that is not one transaction), `Copy` with the digest of the source,
`VerifyShadow`, `RecordVerified`, `Switch` with the second comparison, and `Stop` anywhere.
Schema-1 processes go on between the steps, and after the switch with the SQL they have.

`LegacyTranscript` records v1 sessions (`RecordPrompt`, `RecordAnswer`, `RecordCall`,
`RecordEvent`, `RecordResult`, `Interrupt`; two chats number rows from what each loaded)
and migrates them: `InferredRuns` is `infer_legacy_runs` as a fold, `Places` the thread
sequences of `_session_inference`, `ResumeAccepts` the checks of `resume`.

`WorkspaceKeys` has salt and key files and their temporary files. A process looks, writes a
value to the temporary file, renames it, and may crash and start again between. `raced`
records that two processes were creating the same file.

| story of `upgrade` | instance |
|---|---|
| schema 1 | 2 processes, 2 memories: `ForgottenVectorsAreFound`, `IndexedMemoriesHaveVectors`, `RevokedStaysRevoked` |
| migration | 1 process, 1 or 2 migrators, 2 memories: `SwitchKeepsAuthority`, `RevokedStaysRevoked` |
| transcript | 2 chats, 6 rows: `MigratedOrderKept`, `NumberedMessagesReadable` |
| keys | 2 processes, 4 values: `MemoriesStayReadable` |

History: `late` (vectors written after the row was revoked), `blind` (rows that a process without
the index purged, section 8) and `dropped` (emptied by a rebuild) name what the two index
properties do not promise; `RecordedSpec` is the whole `Next` with them. Two memories let a call
on one overtake a call on the other; two migrators are one that stops and one that goes on.
One migrator meets a process with or without the index and the row of the session, two of them
a process with it and the other rows (`Suits`): what is migrated does not depend on it. Six
rows are two turns, one with a call. Four values are a salt and a key drawn twice, by a
creator that crashed and by the next.

## 8. Findings

Each is a run in which TLC violates a property that states what the repository says of
itself; `PROJECT.json` has the quotations.

| run | what the code does |
|---|---|
| `max_turns` | when `max_turns` is reached after tool calls, `complete_run` gets a tool message as final message, is refused, and the run fails with an exception instead of returning its result |
| `deletion_late_message` | a message appended between the compare of the token and the apply stays live under a deleted run, and the thread can no longer be resumed |
| `deletion_after_summary` | once a run that a summary covered is deleted, the thread can no longer be deleted |
| `deletion_archived` | a confirmed deletion that was interrupted cannot be resumed once the thread is archived |
| `deletion_late_index` | a promotion under way puts its vector back after the deletion is reported complete |
| `legacy_events` | the event that v1 records beside each tool result makes the migrated session unreadable |

Relatives without a run of their own, met while modelling and kept out by a named premise
or left as behaviours no property forbids:

- `tools/patch_tool.py:156`: a hunk without old lines (`@@ -1,0 +2 @@`, as `diff -U0` writes
  it) names the line before the insertion; `apply_hunks` takes the number for an index and
  inserts one line too high (premise `Placed`).
- `memory/keys.py:94`: two processes that create the key or the salt at once: one goes on
  with a value that the other's rename replaced, and what it encrypts is lost (`raced`).
- `memory/context_assembler.py:66`: the provider filter removes a confidential call but not
  its results, and assembling then raises for every later prompt of the thread (`Raised`).
- `memory/migration_v1_v2.py:181`: the digest of the source includes `index_status`, so any
  re-indexing after the copy makes `migrate-schema` refuse for good; a comment in
  `tests/memory/test_schema_migration_recovery.py:88` says the status is excluded.
- `memory/candidate_extractor.py:56`: a proposed revision that is confirmed before its
  relation is written supersedes nothing.
- `memory/redactor.py:77`: of two spans that cross, the rest of the later one stays.
- `memory/cascade_delete.py:337`: a deletion by a process without the index deletes no vector and
  is closed as complete, so nothing leads back to the vectors that other processes put there.
  `search` does not return them, its SQLite side knows the rows as deleted, but the text stays
  in the collection. `OnlyLatePutsSurvive` leaves such jobs out (`synced`).
- `memory/local_service.py:161-168` and `:203-205`: `forget` and `retry_pending_deletions` of a process
  without the index purge the row and report the vector as deleted. The chats open schema 1
  without the index on purpose (`storage/transcript.py:54-57`) but remember rows of the session
  only, which have no vector; the commands meet it where Chroma cannot be loaded (`blind`).
- `memory/policy.py:117-124`: a text with a confidential signal and nothing else, asked for the
  thread, is allowed for the workspace; without the signal it would stay in the thread. The
  explanation says that the user confirmed, which the branch does not ask. Notes, transcript
  and summaries ask for the thread and store there whatever the target says (`notes.py:92`,
  `transcript_v2.py:70`, `summarizer.py:214`); the v1 `remember` follows the target, and its refusal
  of thread rows (`local_service.py:65`) comes after it, but no command asks it for a thread
  (`WidenedFor`).
- `memory/retention.py:28`: a past expiry is taken under a default policy too, and makes the row
  due at once.
- A summary built in the window of `deletion_late_message` stays active without its
  relations, and every later prompt raises. The relations of a conflict go both ways
  (`candidate_extractor.py:62-70`) and the plan of a deletion takes them for a cycle.
  A direct row retracted earlier is skipped by the apply (`Revocable`) and keeps its content.

## 9. Proofs

TLAPS proves, for all values of the constants and so for any number of threads, runs,
rows, jobs, processes, lines and budgets, every invariant and action property that a
passing run checks, and one refinement. The assumptions are the named ones of the modules:
bounds are naturals, markers (`no_call`, `thread`, ...) are none of the values they stand
beside, spans begin before they end, and what section 6 says of prompts.
Below, what each invariant had to be strengthened by.

`ThreadRunProofs`. `StepCases` reduces the actions to five ways of changing the tables; the
other lemmas say what each does to the rows.

- `TypeCorrect`, `RunningRunCorrect` (`RunningRunIsNewest`): inductive together. `begin_run`
  appends the newest run and only where none is running, archiving too asks for none, and
  no step returns a run to `running`.
- `HistoryFrozen` (`TerminalRunsAreFrozen`), step by step under `TypeOK`. The step of a
  recovery is the interesting one: it acts on a run it read long before.
- `TranscriptOrdered`: insertion order, thread sequence, run sequence and run numbers agree
  (`TranscriptOrder`). A message goes to a running run, and that is the newest: so no older
  run gets a message later. `RunsContiguous` (`RunsDoNotInterleave`) follows.
- `ThreadsAlwaysReadable` (`ThreadsReadable`): `append` asks whether a call is open in a set,
  `resume` walks in order. `ThreadInv` adds the order, which makes the two the same.
- `JournalImplemented` (`ImplementsJournal`): run numbers have no gaps (`RunsDense`), so the
  entries of a thread are its runs by number, and each of the five ways of changing the
  tables is a step of the journal or a stutter.

`AgentSessionProofs`, over the theorems of `ThreadRun`

- `CompletedRunsAnswered`, `RunsNotAbandoned`, `SessionsLoad`: from `SessionsInv`, which says
  what a process may rely on at each of its places (`InPlace`: `last` is the last message
  of its run, at `turn` no call is open, at `tools` the open ones are those it has still to
  run) and that no two processes hold one run (`OneHolder`).
- `AnswersShown` (`ShownIsTheAnswer`): while the worker reads, what is shown and queued is what
  it has read, or blank where text is deferred (`ReadSoFar`, `Deferring`); when it has ended,
  the end of the queue completes that to the answer (`Told`).

`NoteLifecycleProofs`, from `NoteInv` (types, and `CallsRemember`: what a call remembers
between two transactions is still true)

- `NotesTyped`, `RetiredStays`, `DueRowsExpire`, `ReplacedOnce`, `ProposalsWait`,
  `PromotedAtMostOnce`. `OneReplacement` needs that a replaced row is no longer in use, and
  `add_candidate` asks for that in the transaction that writes.
- `IndexedHaveVectors`: `MarksFound` bridges put and mark: a call that is about to mark
  a row has put its vector, or a reconciliation removed it since.

`MemoryPolicyProofs`

- `FindingMoreReachesLess`: the evaluation is that of the candidate as it is (`PolicyInv`);
  `DecisionReach` and `EvaluationReach` say how far a decision and the redaction after it let a
  text go by what its signals have (`Open`), and a text with one fact less has that signal less
  at most (`ReachIsMonotone`). Only a confidential signal opens the workspace (`Widens`), and
  taking it away is the exception of the property; `FailureReach` is the part on failures.
- `StoredIsRedacted`: every finite set of spans has the accepted ones of the redactor
  (`AcceptedExist`, by a smallest set that has none): a span is redacted, or overlapped by one
  accepted before it, which contains it where no two cross.

`RollingSummaryProofs`, over the theorems of `ThreadRun`

- `SummariesCover`, `GroupsKept`, `BuildsLookAtomic`: `build` compares one number. `BuildsStand`
  says why that is enough: as long as the next thread sequence is the one it read, what
  it selected is what it would select now. With `OneActive` and `CoveredNumbered` (messages
  to come are above every watermark) the three follow.

`PromptPatchProofs`

- `PromptsWithinTotal`, `PromptsKeepPairs`, `MessagesHiddenBySummary`: sizes of disjoint sets of
  messages add up, groups are disjoint, and what `Fit` returns is whole groups of the size it
  counted, by induction over the groups it has seen (`FitPasses`); popping leaves notes and
  hits that fit the room (`PoppedFits`). So current run, notes, hits and summary keep to the
  total, the history gets at most what they leave, and a group that is left out is above a
  ceiling, filtered or covered.
- `DryRunsForetellTheCall`: while the call runs, the files foretold are ahead of the disk.
  `ForetellInv` says by how far: by the file patches between the place of the call and the
  one where the dry run stopped, and there the call stops too.
- `DiffsMakeTheirFiles`: when `apply_hunks` has come to a place of the edit script, its lines
  are the new side up to there and `source_index` is the length of the old side. A line of a
  hunk takes it to the next place (`LineApplied`); a hunk takes it over the lines in front,
  which are kept (`LinesBetween`), to its own end (`HunkApplied`), and hunks follow one another
  (`HunksFollow`).

`CascadeDeletionProofs`

- `DeletionTypeCorrect`, which contains that relations, tokens, jobs and processes name rows
  and jobs that exist. One lemma per group of actions says what it does to `rows` and `jobs`:
  rows are only added (`RowsGrow`), a status only moves away from the accessible ones, the
  items of a job never change (`JobsGrow`). `RevocationFinal` from the same lemmas.
- `RevocationCorrect` (`CommittedJobsRevoke`). Not inductive alone: `FinishSync` writes a status
  into the job the process holds, and were that job still `authorized`, it would become
  committed unrevoked. `SyncingCommitted` (a process that syncs holds a committed job)
  closes the induction; `ApplyRevokes` is the one step that commits a job.
- `DestructionConfirmed`: strengthened by `ItemsConfirmed`, that the items of every job were in
  its confirmed snapshot: true when `execute` has compared the token, and kept.
- `CopiedAtMostOnce` (`OneCopyPerRetention`): `CopyInv` says which copy belongs to which item of
  which job. The copies of one apply are numbered by the rank of their originals (`Ranks`).
- `LatePutsOnly` (`OnlyLatePutsSurvive`), of `RecordedSpec`: `SyncLeavesLatePuts`: of the items a
  sync with the index has been through without a failure, only late ones are in the index.

`SchemaMigrationProofs`

- `AuthorityKept`, `RevokedStays`: before the switch the shadow is what the journal says was
  prepared (`ShadowIsPrepared`), so the second comparison with the source is enough.
- `ForgottenVectorsFound`, `IndexedHaveVectors`, of `RecordedSpec`: `IndexInv`, of which `GoodCall` is the part on
  what a call in the middle of its loop may rely on: an item about to be purged by a process with the index
  has no vector but a late one, one about to be marked has been put.
- `MemoriesReadableAlways`: a memory is written under what its process read or drew some steps
  before. `KeysInv` follows a value from the temporary file to the file and to the process
  that goes by it (`OneCreator`, `ValuesAgree`, `SaltsAgree`); all three hold until two
  processes create the same file (`raced`), and `Rename` is where they are all needed.
- `MigrationKeepsOrder`: the place of a row is its rank in the order of the rows, and ranks
  are distinct. `NumberedAreReadable`: `SerialInv`: if no two rows have the same number, then
  only the chat that stored the last row is in the middle of its loop, and each row can
  follow the one before it; `InferredRuns` then cuts the rows into runs that begin with a
  user message, which is what the checks of `ResumeAccepts` come to.

Where a definition is a recursive function over a number, its existence and induction over
it come from the least number of a set (`Least`, `Induct`, `Recursion`): the induction theorems
of the library take an operator as a parameter, which the provers cannot instantiate.

Only model-checked: the liveness properties `RunsEnd` and `RequestsEnd`, which need fairness
and ENABLED; both are out of reach of the provers.

## 10. Not modelled, and what is left

Not modelled: encryption and MACs (mathematics outside these models; authentication is
taken to succeed); what regular expressions match, in detectors, scanners and parsers; RAG,
ranking and embeddings; skills, file and shell tools, the permission prompt: no shared
state and no order of steps that a model could get wrong. Value types, ports and the audit
log appear as far as other modules read them. Of modelled components, the notes to
`components` in `PROJECT.json` say what is left out.

Left, in this order:

1. Composition of deletion with `RollingSummary` and `ContextAssembly`, so that a summary
   built beside a deletion is followed into the prompt; then the theorem that no prompt
   has anything of a row that a committed deletion revoked.
2. The life of a session over several threads: `ensure_main_thread` after the main thread
   was archived or deleted.
3. An abstract specification of a deletion (confirmed, revoked, cleaned up) with the proof
   that `CascadeDeletion` implements it, and of a summary build as one atomic step with the
   proof that `RollingSummary` implements that.
