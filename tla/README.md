# Verification of Nitpicker (jemmin)

Nitpicker reviews code changes before they are committed. Two systems live in
the repository. The **mini reviewer** (`mini_reviewer.py` with
`bin/mini_nitpicker.py` and `bin/mini_nitpicker_daemon.py`) asks one model about
a diff, as a gate with an exit code or on every save. The **full pipeline**
(`jemmin_cli`, `jemmin_daemon`, `run_once`) runs agents, a consensus and an LLM
gate over a job store. Both write `latest_review.json`, which `jemmin_lsp` shows
in the editor. This directory models both and what connects them.

## 1. Inventory

| Component | State | Operations | Interacts with | What is hard | What makes it correct |
|---|---|---|---|---|---|
| `orchestrator/controller.py` | `current_state`, decisions, `llm_result`, the result | `run_once` and its handlers | job store, resource manager, services; up to ten threads per daemon plus CLI processes | exceptions at every step, swallowed store errors, duplicates, crashes | one review per change; row, reply and events agree; a pass is earned; every run returns |
| `state/sqlite_spooler.py`, `statemachine.py` | tables `review_jobs`, `review_events` | `create_request`, `transition_state`, `mark_terminal`, `list_recoverable_jobs` (no caller) | every run of every process | concurrent inserts, locked database, unconditional `mark_terminal` | terminal states are final; the transition table is left in one way only |
| `orchestrator/resource_mgr.py`, `policy_engine.py`, `consensus.py` | debounce table | `allow_new_job`, `evaluate_request`, `decide` | `run_once` | a rejected job keeps its row | a reject is never lost |
| `ipc/zmq_router.py`, `bin/jemmin_daemon.py` | semaphore, tasks, `_is_running` | `start`, task, callback, `stop`, shutdown, signal handler | clients, `run_once` in threads | cancellation, back-pressure, shutdown | no permit is lost; requests run; the shutdown ends |
| `ipc/zmq_client.py`, `bin/jemmin_cli.py` | the call | `send`, 5 s time-out, direct fallback, exit code; `--staged` | router, `run_once`, the spool database, which `--staged` deletes | time-out races the reply; fallback meets the daemon's row; one file of several fails | never false-green; answered once; always ends; `--staged` does not turn itself down |
| `services/feedback_svc.py`, `artifact_publisher.py` | `latest_review.json`, `LATEST_REVIEW.txt` | `publish_quick_fix`, `publish_diagnostics` | LSP server, mini reviewer | a shared temporary name | no half-written review is seen |
| `bin/jemmin_lsp.py` | `last_mtime`, `last_uri`, `_latest_review` | watcher cycle, `codeAction` | the file, the editor | stat/read race, swallowed exceptions, line numbers counted in two ways | the editor catches up; one document is shown; the edits of a patch give its text; a fix reaches its line |
| `mini_reviewer.py`, `bin/mini_nitpicker.py` | payloads, log, latest files | `review_targets`, `_apply_patch_safely` | git, Ollama or Gemini, other processes | one target of several fails, patches | no silent pass; the latest mini review is logged |
| `bin/mini_nitpicker_daemon.py` | `_last_modified`, `_review_lock` | event handler, review thread | watchdog, `review_targets` | debounce, lock, shared process id | accepted saves are read; one writer at a time |
| `services/autofix_svc.py`, `patch_svc.py`, `verification_svc.py` | working tree and index | `apply_patch`: check, apply, verify, roll back | `run_once`, git, the developer's edits | roll-back after a failed verification, killed git, several patches at once | staged work survives; losses are confined to the target of a roll-back; an unreported patch has a named cause |
| `services/context_svc.py` | bundles per file | `build_context`, `invalidate_for_path`, `invalidate_all` | the threads of `run_once` | no lock: a review puts an old bundle back | an invalidation takes effect |
| `services/cache_mgr.py` | entries per context hash, caches at the provider | `get_or_create`, `invalidate`, `cleanup_expired`, `clear_all` | `run_once`, the provider | the provider is called outside the lock | the store is bounded; no deleted cache is handed out |
| `prompts/prompt_loader.py` | text and modification time | `get_system_prompt` | the L3 gate, the developer's editor | the file changes between stat and read | what is served is the file's text |
| `providers/ollama.py`, `services/llm_review_gate.py` | availability, the stream of a call | `available`, `generate`, `review` | the Ollama server | a server that drips, cuts off or answers oddly | past `total_timeout` no further line is begun, and only a server that drips within one read can hold a call; a model that rejects with details never lets the gate pass |
| agents, analyzers, context providers, model providers, loggers, notifier, reports, redaction, wizard | none or output only | - | `run_once` | - | not modelled (section 7) |

The hazards, each at its line and with the properties that would catch it, are
in `PROJECT.json`.

## 2. Modules

| Module | Models | Notes |
|---|---|---|
| `JobStore` | the spooler and the state machine | operators on the rows, used by `Orchestrator`; no actions of its own |
| `Orchestrator` | concurrent `run_once` calls in several processes | one action per step between two store transactions or collaborator calls |
| `OrchestratorProps` | properties, inductive invariant, refinement mapping | |
| `ReviewLedger` | the abstract specification: claim, settle, reply, turn away | `OrchestratorProps` instantiates it |
| `ReviewDaemon` | router, tasks, threads, clients | uses `run_once` by what the ledger promises: first claims, others are duplicates |
| `ReviewFeed` | writers of `latest_review.json`, the LSP watcher | file names point to nodes, as in a POSIX file system |
| `MiniReviewer` | gates and watch threads on one repository | uses the temporary-name argument of `ReviewFeed` |
| `AutoFixService` | concurrent calls of `apply_patch` on one working tree | contents are sets of changes |
| `CacheManager`, `ContextService` | the two caches of the context stage | actions without a next-state relation of their own |
| `ReviewContext` | the context stage of `run_once` | composes the two above: threads build a bundle and ask for its cache |
| `PromptLoader`, `OllamaProvider` | prompt file and cache; one streamed call and the gate's reading of it | actions used by `StagedReview` |
| `StagedReview` | `jemmin_cli --staged` | composes the two above with the rows of the spool database and another process |
| `CodeActions` | `_parse_hunk_ranges`, `publish_quick_fix`, `_build_code_actions`, the editor | a reference definition of the patched text |
| `OrchestratorProofs`, `DaemonProofs`, `FeedProofs`, `MiniProofs`, `AutoFixProofs`, `ContextProofs`, `StagedProofs`, `CodeActionsProofs` | TLAPS proofs | `OrchestratorProofs` also has the refinement of the ledger |
| `MCOrchestrator`, `MCReviewDaemon`, `MCReviewFeed`, `MCMiniReviewer`, `MCAutoFixService`, `MCReviewContext`, `MCStagedReview`, `MCCodeActions` | instances for TLC | |

Definitions named `X_Something` with a comment that starts with "Fault:" are
plausible bugs; replacing `X` by one of them makes TLC report the property that
is there to catch it. They are in no next-state relation.

### State and actions

*Orchestrator.* `pc[w]` is the place of run `w` in `run_once`; `current`,
`persisted`, `decisions`, `llm`, `result` are its locals; `marked` says that
`mark_terminal` committed; `recent[p]` is the debounce table of a process;
`state`, `keyOf`, `events` are the database. A store operation is one
transaction and one action. Where `StoreMayFail`, a transaction may raise and is
rolled back; where `MayCrash`, a process may die with all its runs. Agents
answer `clear` (pass, warn, error: the consensus does not tell them apart) or
`reject`. The failure classes of an unavailable LLM are one class. The optional
collaborators are a constant per process: the daemon has the patch services, the
CLI also the gate, the tests also auto-fix and a consensus engine that asks for
patches. The database lives as long as the model: that `jemmin_cli --staged`
unlinks `spool.db`, under whatever runs use it, is an action of `StagedReview`
only, so `OneRunPerChange` and the ledger speak about the time between two such
resets. `Publish` is one step: the publisher handles `OSError`, `ValueError` and
`TypeError`, and findings are always dictionaries, so nothing else is raised.

*ReviewDaemon.* One action is what the event loop runs between two awaits.
`loop` is the coroutine of `start`, `held` the message it holds while it waits
for a permit, `task` the background tasks, `run` the threads. Cancelling a task
does not stop its thread. A thread whose task was cancelled before it left the
executor's queue may never start; the model lets it start, which allows more.
A message the loop holds when it is cancelled is lost, as in the code.

*ReviewFeed.* A writer opens (truncates), writes and replaces; others act in
between. Writing over another writer's longer text leaves a torn file. The
watcher stats, reads, parses, clears and shows in separate steps. Every write
has a modification time of its own.

*MiniReviewer.* A job is a call of `review_targets`. Versions number the changes
of the tree; `work`, `index` and `head` hold the version of each file in the working
tree, the index and HEAD, and the developer saves, stages and commits. A diff is
empty for a file that is as committed and, without `--staged`, for one git does not
track (`NewFiles` are those the first HEAD does not have). git, the model, `git apply` and each file write may fail where the
code lets the exception through. `recent` is the debounce table. `read` and
`answered` are history variables.

*AutoFixService.* The content of a file is the set of changes on top of HEAD, in
the working tree (`work`) and in the index (`index`); a change is an edit or the
patch of a call. `git apply --check` and `git apply` are two steps; each may
refuse, and an application that is killed, by its time-out or with the process, may
have written any of its files and one of them in part. `git checkout -- file`
copies the index; it may fail, or be killed in the middle of the file; the answer
that follows it is a step of its own, so that a process may die in between.
`typed`, `cause`, `restored` (the calls whose checkout succeeded) and `cut` (the
files git was killed in the middle of) are history variables. The verification command, roll-back flag and the outcome of each git
call vary freely.

*CacheManager.* `cached` is `_store`, `task[t]` where a thread stands in a call.
What the code does under its lock is one action; `create_context_cache` and the
deletions after an unlock are steps of their own. `deleted` collects what the
provider was told to delete. `now` is the clock.

*ContextService.* `bundles` is `_cache`. A request carries the diff of the moment
it was made; collecting and keeping the bundle are two steps. `invalidate_for_path`
may drop only some of its entries: it walks the dictionary without a lock, and an
insertion or removal by another thread makes it raise part-way. `stale` is a history
variable: the file changed, and no invalidation has caught that change.
`ReviewContext` adds `built[t]`, the hash a thread is about to ask a cache for.

*PromptLoader.* `is_file`, `stat` and `read_text` are three steps; the developer
may save, empty or remove the file between them.

*OllamaProvider.* The steps are those of the sockets. The server is an actor that
sends a part of what is being read, or the rest of it, or nothing; a `recv` returns
what was sent or times out, and a read (of the response head, of a line, of the
answer to `/api/tags`) takes as many as the server likes. Time since the request is
counted in ticks up to the first one past the deadline; the deadline is looked at
between lines. `late` counts the reads of head or lines completed after it. An answer is one of the
six kinds the gate tells apart, a result code it does not know among them.

*StagedReview.* `_run_staged` over a list of files: diff, `spool.db` unlinked,
provider selected and probed, row created or found, agents, prompt, call, exit
code. The review itself uses the database of the runtime directory, which
`JEMMIN_RUNTIME_DIR` may move away from the one that is unlinked (`sameDir`).
An `unlink` that is refused, or an answer to `/api/tags` that `available` cannot
read, is an exception that ends the process with 1. `outcome`, `said` and `met`
record what happened to each file and whose row turned
a review down.

*CodeActions.* A change is a script of kept, removed and added lines. From it come
the old text, the new text, and the diff for every way to cut it into hunks. The
parser reads the diff line by line; the server answers a request with edits; the
editor applies one action, all ranges being places of the text before it.

## 3. Runs

| Run | Instance | Shows |
|---|---|---|
| `orchestrator_safety` | two threads of one daemon with every service, four requests (two changes, both intents, a client-supplied id), failing transactions, crashes | the inductive invariant `IInv` (with `TypeOK`); `OneRunPerChange`, `RowTracksRun`, `ReplyMatchesRow`, `OrphanHasReason`, `PassIsEarned`, `AuditAgreesWithRow`; `TerminalIsFinal`, `BypassOnlyToDegraded`; refinement `LedgerSpec` |
| `orchestrator_live` | a daemon thread and a CLI process as `bin/` builds them, two changes | `EveryRunReturns`, `EveryJobSettles` |
| `daemon_safety` | two CLI calls for one change, an unsupported and a garbled client, one permit, stop and signals | `PermitsBalance`, `NoFalseGreen`, `ExitIsFinal`, the invariant |
| `daemon_live` | two CLI calls, one permit | `EveryRequestRuns`, `EveryCallEnds`, `ShutdownEnds` |
| `feed` | one writer with a name of its own, two that share one, two documents and a target without URI | `FeedInv`, `OwnTempIsAtomic`, `OneDocumentShown`, `EditorCatchesUp` |
| `feed_shared` | the same | violation of `NeverHalfWritten`: the shared name defeats the atomic replace |
| `mini_gates` | a staged gate, a gate with two paths, a skipping gate, two files (one new), two changes, commits, Gemini codes, patches applied | `NoSilentPass`, `LatestIsLogged` |
| `mini_watch` | two files (one new), two review threads, two changes, commits, patches applied | `OneWriterPerProcess`, `AcceptedSaveIsRead` |
| `context` | two threads, two files of one directory with two versions each, a store for one entry, three provider caches | `EntryBound`, `NoDeletedHit`, `InvalidationHolds` |
| `autofix` | three patches (two files; the same target; no target), two edits, two files | `StagedSurvives`, `LossIsByRollback`, `UnreportedPatchHasCause` |
| `staged` | `--staged` twice over two files, another process on the database, a prompt with two texts | `GreenIsEarned`, `NoSelfCollision`, `CallIsBounded`, `PromptIsCurrent`, `StagedEnds` |
| `code_actions` | every script of up to five lines, every cut into up to two hunks, every finding and range | `PatchMakesNewText`, `FixTouchesItsLine` |

**Bounds.** Two runs suffice for every race of `run_once`: it interacts with
other runs only through the row it shares with one of them and the debounce
table; the proofs lift the bound. One permit makes back-pressure happen with two
calls. Three writers give two that share a name and one that does not.
`MaxVersion` bounds the changes of the tree: two allow a change during a review
and a patch after a save; there are as many threads as changes, so no event
waits for a free one. Two agents are the least for which the order of decisions
matters. A store for one entry makes every second insertion evict, and two threads
make it exceed its limit; a time to live of two ticks with a clock of two lets an
entry expire; three caches let one be created, replaced and created again. In
`autofix` the three calls cover a patch wider than its target, two patches of one
target and a call that cannot roll back. In `staged` two files give a failure
before a pass and the reverse, the second round meets the rows of the first, and
a socket time-out of two ticks against a deadline of two lets any read carry a call
past it; the number of recvs in a read is not bounded. Five lines and two
hunks let the first hunk shift the second by lines added or removed.

**Symmetry** is used only in the two safety runs and in `context`, over runs,
calls and threads that the instance does not tell apart; none of them checks
liveness.

**Deadlock.** Checking is off everywhere: a finite set of runs, calls, writers or
jobs ends, and the watchers then wait. That nobody waits for ever is what the
liveness properties state.

**Fairness.** `Orchestrator`: weak fairness of each run's steps (threads are
scheduled) under the assumption that collaborators return: they have time-outs or
bounded inputs, except for the L3 call to a dripping server, which `OllamaProvider`
has. `ReviewDaemon`: weak
fairness of tasks, threads, timers and the loop; strong fairness of receiving a
queued message, since a ROUTER socket serves its peers in turn. `ReviewFeed`: a
writer that has begun goes on and the watcher polls. `MiniReviewer`: watchdog
delivers events, and threads and jobs go on. `StagedReview`: weak fairness of the
process's own steps: it is scheduled, git answers, and every `recv` returns or
times out. Nothing is asked of the server. One that sends some bytes within every
socket time-out and never completes a read does hold the run for ever, so
`StagedEnds` says that the run ends or the server does exactly that (`ServerDrips`). Nobody is obliged to submit, save, call or stop.

## 4. Proofs

All proofs are for every value of the constants that satisfies the named
assumptions of the modules (typing of the parameters, distinct model values).

*Orchestrator.* `OneRunPerChange` or `RowTracksRun` alone are not inductive: that
nobody else writes a run's row follows from who owns it. `IInv` adds that keys are
unique in the table, that every row has an owner, and per run: `ControlInv` (who
owns a row and has written the final state), `ProgressInv` (`current_state` and
result follow the program counter) and `RowInv` (the row is in `current_state`
until the verdict, then in the result's state or in one that may still change to
it). Each action has a lemma about what it does to its own run, and frame lemmas
say that the rows of other runs are untouched. `InvariantHolds` gives
`TypeCorrect`, `Idempotency`, `RowTracking`, `ReplyConsistency`, `OrphanReason`;
with the step lemmas it gives `TerminalForEver` and `BypassBound`. `AuditTrail`
and `FailClosed` have strengthenings of their own (`VerdictInv`). `RunsAreShort` is
the safety half of `EveryRunReturns`: `StepsLeft`, at most twelve and one per selected
agent, is a measure that every step of a run decreases, the error paths and a crash
included; what it leaves to fairness is that a run is not stuck.

*Ledger.* `ImplementsLedger`: initial states map to initial states, and under
`IInv` and `TurnAwayInv` (a run is turned away only for a row that another run
owns) each step maps to a ledger step or a stutter.

*Daemon.* `DaemonInv` says where a message is (`MessageInv`) and when a call has
an exit status (`AnswerInv`); from it follow `PermitsBalanced`, by counting the
set of background tasks at each of its changes, `FailClosedGate` and
`AnsweredOnce`.

*Feed.* `FeedInv` says of each writer whose temporary name nobody shares that
only it names, opens and fills its file, and of the watcher that the file it reads
exists. `OwnTempAtomic` follows, whatever the other writers do. `OneDocument` needs `ShownInv`: diagnostics are shown of
`last_uri` only, except between clearing and showing, when they may already be
those of the review in hand.

*Mini reviewer.* `MiniTypes` adds to the types that a job at work has a target,
that a patch in hand is the model's answer about that target and version, and that
files are written only when there are payloads. On it rest three separate
arguments. `OneWriter`: at most one thread of the process holds the lock
(`LockInv`). `LatestLogged`: a job that replaces the latest files has its payloads
in the log (`LogInv`; `publish_quick_fix` of the pipeline, which writes the same
files without this log, is in `ReviewFeed`). `SilentPassForbidden`: of each gate, every diff it has read
is in work or has a payload that speaks about it, and a payload with a pass is an
answer of the model (`PassInv`); so exit code 0 means a pass for each diff.

*Auto-fix.* `FixInv` adds to the properties that only a returned call has an
answer, that only a call with a target rolls back, that a patch git has not applied
is in no file, that a file without a roll-back has every edit and every patch in
place, those still to be verified included (`NothingLost`), and why a patch is left
behind, from the checkout on, before it is reported (`LeftHasCause`). Files in `cut`
are excepted where the content of a file is spoken of.

*Context.* `KeptCurrent`: for a file that is not stale neither the bundle kept nor
any request under way is of an older diff. `BoundInv`: counting the threads on
their way to an insertion together with the entries makes the limit inductive.
`IdsInv`: no identifier is stored twice, one about to be stored is new, one about
to be deleted is in no entry, and deleted ones were handed out.

*Staged.* Four independent invariants, one per property, lifted from the component
to the composition by showing that each step is a step of the component or leaves
it alone: `PromptInv` (file and cache never have a time later than the last save),
`ProviderInv` (no line was completed past the deadline while one is begun, and at
most one otherwise), `ResetInv` (between the reset and
the insertion there is no row of `--staged`), `GreenInv` (a file without an outcome
is still to be reviewed, and while the exit code is 0 nothing has spoken against a
file).

*Code actions.* The scripts, and with them the texts and diffs, are of any length, so
the argument is about lists. What it needs to know of `FlattenSeq` (concatenation,
prefixes, places of elements) is proved first. The library's induction theorems cannot
be instantiated, but induction can be stated about sets: a set that holds 0 and the
successor of each of its members holds every number (`NatSet`), and likewise for
sequences (`SeqSet`). `ActionsInv` says where the parser stands (before the first
hunk, so many lines into a hunk, behind git's remark) and which hunks it has found;
then that the hunks found are those the diff was made of, and that what is published,
answered and applied comes from them and from the finding. It gives `FixReachesItsLine`
by what one edit does to each line. `PatchGivesNewText` goes through the script line
by line with `Follows(q)`: the old lines up to line `q` have become the new text up to
`q`, except inside a hunk, whose new lines come all at once with its first old line.
That edits of different hunks do not meet follows from the gap between hunks and from
the old line each of them has; the latter is the hypothesis `Ordinary`, without which
the code is off (section 5). `CodeActionsTypes` holds for hunks of every shape.

**Only model-checked:** the liveness properties `EveryRunReturns`,
`EveryJobSettles`, `EveryRequestRuns`, `EveryCallEnds`, `ShutdownEnds`,
`EditorCatchesUp`, `AcceptedSaveIsRead` and `StagedEnds`: the prover does not handle
fairness. Every safety property that a run checks is also a theorem.

## 5. Disagreements between the code and its texts

With a run: `feed_shared` violates `NeverHalfWritten`. The comment at
`feedback_svc.py:169` says that the atomic write keeps the LSP server from reading
a half-written file; two `run_once` calls share the temporary name, so it does not.

Met while modelling, without a run:

- `controller.py:603`: a crash leaves a row that nothing resumes
  (`list_recoverable_jobs` has no caller); later requests are told that a review is
  in progress.
- `controller.py:653`: the rate-limit message asks for a retry that the duplicate
  check refuses.
- `jemmin_lsp.py:89`: diagnostics are not pushed for relative targets, since
  `as_uri` raises and line 273 swallows it.
- `mini_reviewer.py:587`: the reviews of the targets before one that raises, and the
  patches applied for them, reach no log (`README.md:47` says every review does).
- `zmq_router.py:136` says that the shutdown waits for all tasks; after five seconds
  it closes the socket although a review may still run in its thread.
- `mini_nitpicker_daemon.py:60`: the debounce drops the last save of a burst
  (`README.md:20` speaks of every save event).
- A passive save with its small set of agents makes the later active request for
  the same change a duplicate.
- `controller.py:450`: `PATCH_ROLLBACK` is reported when a fix whose verification
  failed was kept, not when it was rolled back (`autofix_svc.py:92-106`).
- `autofix_svc.py:198`: `rolled_back` is True even when the checkout failed; the
  roll-back restores from the index, so unstaged edits of the target are lost, and
  other files of the patch stay changed.
- `ollama.py:113` says that a call that exceeds `total_timeout` stops at once. The
  deadline is looked at between lines only: the line under way is waited for, and
  since `readline` has no limit and the socket time-out restarts with every `recv`, a
  server that drips holds the call for ever. So does one that drips the answer to
  `/api/tags`, which has no deadline at all.
- `mini_reviewer.py:274`: `git diff HEAD` is silent about a file git does not track:
  saves of a new file are accepted by the watch daemon and never reviewed until it is
  staged.
- `jemmin_cli.py:345`: `--staged` deletes the rows of every process, the daemon's
  included: a change under review may be taken up a second time.
- `controller.py:223`: the context cache is reported as "hit" once any hit has ever
  happened.
- `jemmin_cli.py:338`: a `git diff` of a staged file that fails counts as no diff and
  leaves the exit code at 0; the summary counts the file as rejected.
- `jemmin_cli.py:345`: with `JEMMIN_RUNTIME_DIR` set, `--staged` deletes a database
  its reviews do not use; a second run is then turned down by the first.
- `jemmin_lsp.py:137`: code actions of the latest review are offered for, and their
  edits put under the URI of, whatever document the request names.
- `feedback_svc.py:39-56`: a hunk with no old lines inserts one line too early; one
  with no new lines leaves a blank line; the file header of a second file is read as
  a line of the hunk before it.

## 6. Plan

The plan is carried out: the core (`JobStore`, `Orchestrator`, `ReviewLedger`,
`ReviewDaemon`, `ReviewFeed`, `MiniReviewer`), then `AutoFixService`, the context
stage, `StagedReview` with prompt loader and provider, `CodeActions`, and the proofs
of every safety property of these modules. What could follow:

1. A coarse clock in `ReviewFeed` and `PromptLoader`, once the repository says what
   is expected of two saves within the resolution of `st_mtime`.
2. Measures like `StepsLeft` for the other liveness properties. `StagedEnds` would
   need one that a dripping server alone can keep from decreasing.
3. `StagedReview` over `Orchestrator` itself, which would tell apart the codes that
   end a review before the gate and show running reviews the reset of `spool.db`.
4. `ConfigWatcher`, should it get a caller.

## 7. Not modelled, and why

Agents, analyzers and context providers are stateless text and AST heuristics:
their outcome is a nondeterministic choice. Providers other than Ollama are calls
of an external service. Loggers, notifier, reports and analytics write output
whose errors are swallowed. Redaction, hashing and the JSONC parser are pure text
functions. The setup wizard is interactive. The JSON-RPC framing of the LSP server
keeps no state. `PatchService` and `VerificationService` answer within a call and
keep no state: `Orchestrator` has their outcomes. `ConfigWatcher`,
`list_recoverable_jobs`, the token and circuit operations, `clear_feedback`,
`publish_result`, `event_log`, `reset_availability`, `invalidate_cache` of the prompt
loader and the off-load strategy have no caller outside the tests.
`AutoFixService` and the invalidation and clean-up operations of the two caches have
none either, but they are modelled: their steps interleave with the rest as soon as
they get one.
