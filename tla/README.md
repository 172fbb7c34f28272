# material-agent: a TLA+ verification

material-agent reviews directories of RAW photos: it groups bursts, scores every
photo, ranks the members of each group and writes ratings and tags to XMP
sidecars. Everything it knows it keeps in a SQLite database and in those sidecars.
It runs as short-lived commands, started by hand, by cron or by a Web service,
and may be stopped at any moment. These modules model the control of that
system: who may run, what is committed when, what is reused, what survives a
crash, what two parties that share a file may do to each other, and whether the
answers, judgements and reports made on the way say what they claim to.

Paths below are relative to `src/src/material_agent/`; documentation is under
`src/docs/ai/modules/`.

## 1. Inventory

| Component | State | Operations | Hard behaviour | What makes it correct |
|---|---|---|---|---|
| Run lifecycle (`commands/scoring.py`, `utils/run_control.py`, `app/review_service.py`) | `run.lock` (flock) | run, maintenance commands, reconcile, close, SIGTERM | processes compete; signals between commits; crashes | one run at a time; every run ends in one durable, truthful status |
| Runtime database (`adapters/state/sqlite_runtime.py`) | sessions, jobs, job_files, events, artifacts | create/update, batched commits, rollback, reconcile | one open transaction spans thousands of updates | committed rows tell what happened; abandoned rows are closed |
| Review job (`app/jobs/review_photos.py`, `app/review_runtime.py`) | per-photo results in memory, thread pool | prepare, score, rank, refine, write | worker threads, reuse across runs, partial failure | a finished run leaves every photo done and correctly ranked |
| Processed state (`adapters/state/processed_sqlite.py`) | processed rows, projection ledger, ownership payload | mark_scored, mark_done, lookup, reset | a second connection to the same database; stale rows | a row is reused only for what it was computed from |
| XMP write-back (`adapters/metadata/exiftool_xmp.py`) | the sidecar, a private copy | write, preview, clear | editors change the same file | user ratings survive; receipts are true |
| Sidecar maintenance (`app/rewrite_xmp_service.py`, `reset_ai_judgement_service.py`, `rescore_service.py`, `rewrite_commentary_service.py`) | rows, payloads, sidecars | rewrite-xmp, reset-ai, rescore, rewrite-commentary | one of three stores fails | cleanup removes only what material-agent wrote |
| Web tasks (`app/web_service.py`, `app/web_worker.py`) | tasks.json, lease/control locks, receipt and cancel files | start, cancel, reconcile, supervise | three processes, each may die | a task's status never precedes the fact |
| Web library and configuration (`app/web_service.py`) | index in state.db, thumbnails, the configuration file | refresh, list, totals, thumbnail, PUT config | threads share temporary names; reads in several statements | what is shown or installed is what was scanned or accepted |
| Grouping (`domain/grouper.py`) | hash and time caches | read, hash, compare, store | failed reads, photos replaced meanwhile | groups are those of the definition; caches never lie |
| Scoring and decision (`domain/scoring_engine.py`, `layered_decision.py`, `aesthetic_calibration.py`, `scorers/aggregator.py`) | rows | score, select, rescore | ties, missing evidence, rounding, partial rejudging | rescore judges as a run would; selection follows quality |
| Commentary (`domain/commentary.py`) | comments in rows | comment, screen, rewrite | refused and empty answers | nobody asked stays silent; texts fit the measurements |
| Model catalog (`app/model_catalog_service.py`) | model files, selections | install, select, delete | threads with a lock, processes without | an atomic registry |
| Inference (`clients/local.py`, `adapters/models/*`) | result cache, snapshots, loaded model | ask, hash, load, batch, complete | the file is replaced; asynchronous completion | everybody gets his own answer, from the present model |
| Vision backends (`clients/omlx.py`, `clients/ollama.py`, `utils/json_extract.py`) | none | request, parse, retry | prose around JSON, broken values | an answer is what the model said |
| Configuration (`utils/config_validator.py`, `commands/scoring.py`) | the document, the cache key | normalize, validate, override, hash | old names, coercions, repeated normalization | accepted settings take effect; equal keys mean equal inputs |
| State on disk (`processed_sqlite.py`, `utils/runtime_paths.py`) | database, journal, legacy database | execute, recover, checkpoint, adopt | I/O errors, crashes between statements | rows, signals and ledger agree |
| oMLX service and harness (`app/omlx_*_service.py`, `adapters/models/omlx/`) | settings files of a foreign runtime | synchronize, restart, probe, compare, restore | timeouts, a runtime that dies or outlives its restart | the report is true, the user's models come back |
| Benchmarks, reviews, labels (`app/*benchmark*`, `commands/score_review.py`, `persisted_score_audit.py`, `app/aesthetic_*`) | reports, best candidates, label store | measure, publish, import, fit | no locks, readers beside a running job | what is on file is what was measured |
| Container entry (`docker/entrypoint.sh`) | owners of state files | check, own, execute | two parsers of one argument list; restarts under other accounts | both parsers agree (a leading `--` excepted, section 5); the application owns its state |
| Legacy pipeline, CLI output, benchmark scripts | - | - | - | section 8 |

How they interact. `cmd_run` takes `run.lock`, opens two connections to the same
database (runtime and processed state) and calls `ReviewRunService.run`, which
creates a session and a job and runs the job inside one batched transaction of
the runtime connection. The job calls back into `review_runtime`: `prepare_score`
on worker threads, the rest on the main thread. `mark_scored` and `mark_done` commit on
the processed connection, so the runtime batch must be flushed first. `write_file`
replaces the sidecar, then records a receipt and then the done row. The
maintenance commands take the same lock and change rows and sidecars without a
session. The Web service starts `cmd_run` through a supervisor and looks at the
same lock to find out whether a run is active. Before the job, the configuration has
been normalized and validated, the registry's models put in and the cache key taken;
during it, the Grouper decides who belongs together, the scoring engine asks the
inference client, the decision policy turns signals into stars, and the commentary
asks a backend once more. Everything else (harness, benchmarks, reviews, labels,
library, container) works before, after or beside runs, on files of its own or read-only.

## 2. Modules

| Module | Models |
|---|---|
| `RunLifecycle` | the lock, sessions and jobs, batched commits, handlers, SIGTERM, crashes, reconciliation |
| `RunLifecycleProofs` | its safety, for every number of processes, runs and faults |
| `PhotoLedger` | abstract: what the pipeline promises about a photo's row and sidecar |
| `ReviewRun` | the review job over one directory, run after run; implements `PhotoLedger` |
| `XmpSidecar` | one photo's sidecar between material-agent's operations and an editor |
| `XmpSidecarProofs` | its safety, for every set of ratings and texts |
| `WebTasks` | the Web task manager, its supervisors and their CLI children, in three kinds of processes that may each die |
| `WebTasksProofs` | its safety and what its API says of a task's end, for every number of tasks and failures |
| `ReviewRunProofs` | all safety properties of the pipeline and that it implements `PhotoLedger`, for every number of photos, bursts, modes and failures |
| `ModelRegistry` | abstract: an atomic registry of verified files and one selection per role |
| `ModelCatalog` | install, select and delete as threads or processes do them; implements `ModelRegistry` |
| `WebConfig` | updates of the configuration file through the Web API |
| `WebLibrary` | index, listing, totals and thumbnails of the Web service |
| `OMLXHarness` | the comparison of candidates on the shared oMLX runtime |
| `ServiceProofs` | catalog, configuration update, comparison, inference, vision backends, comments and container entry, for any callers, requests, candidates, previews, replies, photos, arguments and failures |
| `Grouping` | capture times, hashes, both caches, and groups against their definition |
| `ScorePolicy` | measurements to signals, scores, stars and decisions; `rescore` |
| `Selection` | quality and selection in groups, coverage, `rescore` of one scene or of all |
| `Decisions` | `ScorePolicy` and `Selection` together: how photos are judged |
| `GroupingProofs` | grouping, policy and selection, for any photos, gaps, thresholds, measurements, settings and partitions |
| `Inference` | result cache, asset snapshots, lazy loading, batched asynchronous requests |
| `VisionBackend` | one request to a vision backend: replies, JSON in prose, retries |
| `Answers` | `Inference`, `VisionBackend` and `Commentary` together: what the models say |
| `Commentary` | comments on groups and photos, their screening, `rewrite-commentary` |
| `ConfigDocument` | normalization, validation, overrides and the cache key of a configuration |
| `StateStore`, `StateStoreProofs` | transactions, I/O recovery, crashes and adoption of the database on disk; that the tables agree |
| `OMLXBenchmark`, `LocalBenchmark` | the two benchmarks, their best candidates, stability and metrics |
| `ScoreAudit`, `AestheticLabels` | score reviews beside running jobs; labels, their split and the fitted calibration |
| `Sums` | sums over measured values, as calibration, benchmark and comments take them |
| `Orders` | lists in order, as the pages of the library and the weakest dimensions have them |
| `Records` | `WebLibrary`, `ScoreAudit`, `AestheticLabels` and the benchmarks together: what each of them keeps on disk |
| `RecordProofs` | that what is on record is what was found, for any photos, requests, readers, labels and runs |
| `ContainerEntry` | the entrypoint's view of the arguments and the ownership of the state |
| `MCRunLifecycle`, `MCReviewRun`, `MCXmpSidecar`, `MCWebTasks` | the constants of the TLC runs |
| `MCDocuments` | the configuration documents of the run `Services` |
| `MCContainerEntry` | argument lists, directories and accounts of a container's start |
| `MCServices` | the components around the review on small instances, one run for all |

The modules meet at these points. `RunLifecycle` shows that one process at a
time gets past the lock, and `ReviewRun` and `XmpSidecar` therefore let material-agent
take one operation at a time. In `WebTasks` the child is such a process: that it may find
`run.lock` taken is one of the ways in which it fails, and the manager's look at the lock
(`WebProbe` in `RunLifecycle`) is a free choice. `ReviewRun` takes any partition for the bursts, any score
for what an engine returns and any key for the configuration; `Grouping`, `ScorePolicy`, `Inference`
and `ConfigDocument` (`SameKeySameInputs`) say what these are. `ReviewRun` treats the write of a sidecar as three steps
(publish, record, confirm) and knows only which result it holds; `XmpSidecar` opens
those steps for one photo. Definitions whose comment starts with "Fault:" are
mutated forms of the definition that follows them; no specification uses them, they
serve to confirm that each property can fail.

### RunLifecycle

A process slot `p` is at `pc[p]`, named after the statement it is about to
execute: `reconcile`, `create_session`, `create_job`, `start`, then the try block of
`ReviewRunService.run` (`preflight`, `begin`, `execute`, `commit`, `resolve`), then
`close` and `result`; `handle_job` and `handle_session` are the two commits of a
handler. `session` and `job` are committed statuses. `batch[p]` is the job status
written in the transaction that `batched_commits` keeps open: `Flush` commits it,
`Raise` and `Leave` roll it back. `verdict[p]` is the status the control flow carries
(the summary's or the handler's). `Sigterm` is a transition of its own: inside the try block it
becomes an exception with a handler, in the rest of `sigterm_as_cancellation` it
unwinds the process without one, elsewhere it kills (`Crash`).
`WebProbe` is the instant in which `lease_busy` itself holds the lock.

### ReviewRun

Photos are numbered in scoring order; `content[f]` is a version that stands for
the pixels and for the size+mtime fingerprint. A row has a status, the fingerprint
it was stored with (`fp`), the version its score is really of (`of`), the cache key, the score and
the group/rank metadata (`info`); a sidecar is the metadata it was written for. `work[f]` is
what the run holds in memory. The window of prepared photos, the head of which the
main thread consumes (`AtHead`), is that of `_consume_group_scores`; preparation
runs ahead in any order. `ConsumeFlush` and `MarkScored` are the two halves
of `score_prepared`; `WriteFlush`, `PublishSidecar`, `RecordProjection`, `MarkDone` are those of
`write_file`. `files` is `job_files` as its own connection sees it, `filesDb` as
committed, `tx` whether a transaction is open. `mode` is `--dry-run`, `--reprocess`
and the cache key. `ChangePhoto` adds or replaces photos, between runs or (in one run) during them.

### XmpSidecar

`disk` is the sidecar, `row` the processed row with its ownership payload, `ledger`
the last receipt, `op` what the operation in progress has in memory: whether the file existed
when its identity was taken, whether it has been edited since (`stale`), the planned
receipt, whether the rating may be written, the private copy. A field is a set with at most one value. Steps follow
`ExifToolXMPWriter.write`, `_rewrite_xmp_atomically` and `clear_ai_tags` (`identify`,
`preview`, `copy`, `check`, `replace`) and then the code that records the
outcome. `Edit` may happen at any of these steps.

### WebTasks

`mem` is the manager's `_tasks`, `snap` is `tasks.json`, `receipt` and `request` are the
receipt and cancel files; `mgr`, `sup[t]` and `child[t]` are the processes. `verdict[t]` is a
history variable: the last terminal status that an API answer contained. A lock is not
a variable: `LeaseHeld` and `ControlHeld` say who has the inherited descriptor open.
An API call is `Call`, then one step per open task and file it reads (`ReadLease`,
`ReadReceipt`, `Judge` are the evidence `_reconcile` collects while the worker goes on),
then `Save`, then the call's own steps. Calls never overlap, because every method holds the
manager's RLock. The supervisor follows `supervise`: `check`, `announce`, the loop `poll`,
`watch`, `tell`, `kill`, then `final` and `exit`; its except clause is `SupRaises`. `Old` is a
task of a version that recorded only a pid. Deaths are `ManagerDies`, `SupDies`, `HostDies`;
failed system calls are disjuncts with `Fault`.
Steps that nothing can observe apart from each other are one action: locking the leases
and saving the task, Popen and closing the manager's descriptors.

### The services (`MCServices`)

The components around the review share no state with one another: each reads and
writes files of its own. Their modules therefore have variables of different names, and `MCServices`
EXTENDS them all. In each behaviour one of them, the `focus`, moves; the others stay in one
initial state. (`Records`, `Decisions` and `Answers` compose nine of them as conjunctions of their specifications, so that
they move at once; the theorems about these prove what the run checks focus by focus.) The states of the run are the sum of the components' states, not their product,
and nothing is lost, because no action of one component reads a variable of another.

- `ModelCatalog`: `call[c]` is what caller `c` is about to do; `together` says whether the callers are
  threads under the service's RLock or separate processes, which share only files. Files are
  missing, whole or something else. `ModelRegistry` is what threads implement; for processes
  nothing is claimed, because their read-modify-write of `selections.json` may lose an update.
- `WebConfig`: names lead to inodes and a request's open descriptor does too, so that two requests that
  open one temporary name share or separate their contents as the file system does.
- `OMLXHarness`: rounds of write settings, write pins, restart, review, collect; the runtime is a
  process that loads its settings when it starts, dies, hangs, or outlives the wait for its exit (`outlived`).
- `Grouping`: one pass after the other over photos whose time and hash may fail to be read or change;
  `mixed` are the photos replaced between reading and storing.
- `ScorePolicy`: scores are hundredths. `verdict` is what the row holds, `judged` the settings it was
  judged by, `scored` those of the run. The code rounds half to even on binary fractions, the model half up;
  no property depends on the difference. `Selection` takes quality as given and models the group.
- `Inference`: `file` is the model on disk, snapshots and cache keys hold its digest; a window of
  requests completes in any order. `VisionBackend`: a text is a sequence of tokens (braces, quotes,
  escapes, the inside of an object), so that the brace matching of `json_extract` is modelled by what it does.
- `Commentary`: a text is the record of what it was made from; screening looks at its flaws. Averages are compared
  as exact fractions, by multiplying out.
- `ConfigDocument`: a value is a class (null, words, in range, out of range). The actions are the
  calls of a start: load, registry, override, client, key; `Revise` is a second start over the same
  database, with one key changed.
- `StateStore`: a database is a main file and a journal; every statement is an action, so that errors, recovery,
  deaths and the two moves of a legacy database fall between any two.
- `OMLXBenchmark`: two runs without a lock on `best_candidates.json`; `LocalBenchmark`: repetitions through one client;
  `ScoreAudit`: readers, in one transaction or statement by statement, beside a job that writes;
  `AestheticLabels`: imports, exports and fits.
- `WebLibrary`: requests are threads; a refresh scans first and commits later, a page reads in
  several statements, a thumbnail goes through one temporary name.
- `ContainerEntry`: the same argument list read by the entrypoint (`SourceInput`, `WorkInput`) and by the argparse
  of Python 3.14 (`AppUses`), which drops one leading `--` (`WithoutLead`); starts under other accounts and stops at
  every step. Only `run`, `web` and the eight maintenance commands are compared: `review-scores`, the benchmarks,
  `models` and `aesthetic-labels` name directories for which the entrypoint has no search.

## 3. Runs

| Run | Expectation | What it shows |
|---|---|---|
| `RunLifecycle` | pass | `OnlyOwnRunActive`, `RecordsAgree` (closed sessions have closed jobs, outcomes agree, exit code 0 means durably finished): database and exit code tell one truth; `ClosedRunIsFrozen`: reconciliation never touches a closed run; `NothingLeftBehind` (liveness: `LockReleased`, `AbandonedIsClosed`) |
| `RunLifecycleSigterm` | violation | a SIGTERM just before or after the try block is not recorded as `cancelled` |
| `ReviewRun` | pass | `FinishedIsSettled`: a run that reports finished leaves every photo done, reusable and ranked among all members, whatever was left before; `RerunIsNoOp`, `DryRunPure`, `NoSelfLock`, `DoneMatchesSidecar`, `ReuseIsUnchanged`, `OutcomeAccountsForFiles`; `LedgerSpec`: the job implements `PhotoLedger` |
| `ReviewRunLive` | pass | `RunEnds`; `Converges`: retried runs settle the directory for good |
| `ReviewRunWritten` | violation | job files say `written` when no writer ran |
| `ReviewRunRefine` | violation | selective refinement leaves stale ranks |
| `ReviewRunEdits` | violation | a photo replaced during a run gets a reusable row with the old score |
| `XmpSidecar` | pass | `RatingPreserved`, `ReceiptIsTrue`, `StoresInStep` (payload, tags and ledger tell what the last replacement did), `UserChangeSurvivesSettledReset` |
| `WebTasks` | pass | `OverMeansGone`: nothing is called over while a process of it lives; `OneWorker`: never two workers, nor one beside the worker of an old version; `NoWorkerForgotten`: every worker is an open task on disk |
| `WebTasksLive` | pass | `VerdictIsTrue`, `VerdictIsFinal`: a verdict shown is the child's fate and never changes, over restarts and failed writes; `CancelIsHeard`, `TaskEnds` (liveness) |
| `Services` | pass | the components around the review, see below |
| `XmpSidecarReset` | violation | a retried reset clears a value the user set after the write-back |

The properties of `Services`; `DecisionsHold`, `AnswersHold`, `ResultsFollowInputs` and `RecordsHold` are conjunctions of those of several components.

| Property | Parts | What it says |
|---|---|---|
| `RegistryStep` | `ModelCatalog` | threads and deaths implement `ModelRegistry`: files appear verified, the selected model goes only by force, no selection is lost |
| `ConfigIsAccepted` | `WebConfig` | while requests do not overlap, the configuration is the whole document that was last accepted |
| `ReportIsTrue` | `OMLXHarness` | a result without mismatch or drift was measured on its candidate; a restoration reported as done is one |
| `GroupsHold` | `CachedFactsHold`, `GroupsByDefinition` | no cached time or hash is wrong; an undisturbed run makes the groups of the definition |
| `DecisionsHold` | `RescoreIsARun`, `SelectionFollowsQuality` | a rescored verdict is the one a run would have given; selection can be replayed from stored rows, whatever runs, rescores and policies came before |
| `StoreIsWhole` | `StateStore` | tables agree after errors and crashes, and a legacy database is adopted whole |
| `AnswersHold` | `AnswersBelong`, `AnswerIsTheModels`, `CommentsHold` | each preview gets its own answer, from the model on disk; an accepted reply says what the model stated; comments are there, fit the measurements, name what is weakest and survive rewriting |
| `EntryHolds` | `EntryLooksRight`, `StateIsOwned` | entrypoint and argparse find the same directories in every list of arguments that does not begin with `--` (section 5); what root starts owns the state in the work directory the entrypoint looked at, which never lies in the photo directory it looked at |
| `ResultsFollowInputs` | `SettingsTakeEffect`, `SameKeySameInputs`, `EveryRowCounted`, `SampleSpansTheScores` | wherever something is computed from data: every accepted setting is in effect, however often normalized; one cache key never stands for two inputs; reports add up |
| `RecordsHold` | `IndexIsAScan`, `ThumbnailsShow`, `ListingsAddUp`, `ReportsAreFinal`, `PinnedReportStays`, `HoldoutUnseen`, `FitIsUsable`, `MetricsAgree`, `StableMeansRepeated`, `BestOnFile`, `MostValidOnFile` | wherever something is kept: the index is one scan of the directory a thumbnail shows its photo, and a page holds what was asked for and its total is true; reports stay true of their jobs; no calibration was fitted to a photo held out, and a fitted one is one the configuration accepts; the metrics of a benchmark agree with each other; stable scores were repeated; the best candidates on file were measured, are not outranked and had the most valid answers |

The exceptions each of them makes are written above its definition; they are the cases in which
the code does otherwise, and section 5 lists what we think of them.

Bounds, and why they are enough.
- `RunLifecycle`: two slots (one holds the lock while another is refused or
  takes over), two sessions (an abandoned one and the one that closes it), three
  signals or crashes (one per session, and one in a handler of either). Slots are reused, so the number
  of processes is not bounded. No symmetry, because the run also checks liveness.
- `ReviewRun`: two photos in one burst, two scores, two versions, two faults: ranks can be
  exchanged, tie, and be restored; a photo can be missing first and appear later; a
  failure can hit a run that repairs an earlier failure. `ReviewRunLive` has a third photo in a burst of its own, so that the
  loop over groups is not trivial, and one fault. The number of runs is not bounded.
- `XmpSidecar`: no bound at all. A zero and a nonzero rating and two texts suffice to
  tell filled, preserved, changed and restored apart.

- `WebTasks`: two tasks, because a second worker needs a second task, and one death or
  failure at any point (7 million states). `WebTasksLive`: one task and two faults, such as a
  snapshot that cannot be written followed by a crash, or a dead supervisor followed by a dead
  manager. Restarts and API calls are not bounded.

- `Services`: two or three of everything that may interfere (callers, requests, visitors, benchmark runs,
  readers, photos), and one or two of everything that disturbs (`MaxCrashes`, `MaxKills`, `MaxTroubles`, `MaxMishaps`,
  `MaxSwaps`, `MaxBroken`, `MaxErrors`, `MaxDeaths`, `MaxStops`, `MaxReplaced`, `MaxStarts`, `MaxBoots`), because every hazard listed
  needs two actors or one disturbance between two steps of one; two rounds where an earlier one
  must leave something behind (`MaxGroupings`, `MaxRounds`, `MaxWrites`, `MaxCalls`, `MaxPuts`, `MaxScans`,
  `MaxImports` = 3 so that an import can change a photo after its training). Documents are one per backend, each with every change of
  one key and the pairs of keys that bear on one another. Texts have up to five tokens, argument lists up to
  four. `MCInit` and `FewerResults` keep some choices of the first photo or first run fixed where they are symmetric.
  1.2 million states.

`CHECK_DEADLOCK` stays on where a system serves for ever: an idle one can always start another command.
It is off in `Services`, whose components really end (a comparison, a benchmark, a started
container) or reach the bound on their rounds.

## 4. Fairness

- `RunLifecycle!ProcessFairness`: a process that holds the lock keeps running, and
  the Web service drops a lock it probed. Both are straight-line code without waiting
  (`LOCK_NB`, synchronous SQLite calls); a hung ExifTool is cut off by its timeouts.
  `LockReleased` uses only this.
- `RunLifecycle!OperatorFairness` (strong fairness of acquiring): somebody keeps
  starting runs and is not refused for ever. Only `AbandonedIsClosed` uses it; the
  code itself never retries, cron and the Web service do.
- `ReviewRun!FairSpec`: the job's next step is eventually taken (main thread and
  pool threads are scheduled). `RetriedSpec` adds that runs keep being started, for `Converges`.
- `WebTasks!FairSpec`: manager and supervisors are scheduled, a manager that died is
  started again (the container's restart), and the page keeps polling the list (strong fairness, as
  other calls may intervene). A child is not assumed to end: `CancelIsHeard` holds without it,
  `TaskEnds` names it as its hypothesis.
- No fairness is assumed of failures, edits, signals, or crashes, nor in `Services`, whose
  properties are all safety: its components are calls that return or fail, and what
  they wait for (an exiting runtime, a reply) is cut off by timeouts that are actions.

## 5. Findings

Five documented statements do not hold of the code; each has a run that shows it.

1. `review-pipeline.md:91-92`, "SIGTERM produces durable `cancelled` state":
   not in `review_service.py:43-53` and `:124`, nor for a second SIGTERM in a handler.
   The session stays `open` or `running` until the next run reconciles it.
2. `review-pipeline.md:59-62`, "`written` means the configured terminal writer
   completed": `review_photos.py:602-606` records reused rows of a real run as `written`.
3. `review-pipeline.md:76-78`, "group/rank metadata and terminal output must be
   refreshed when membership or rank changes": not when selective refinement (opt-in) changes the
   rank, because reuse is decided before it (`review_photos.py:515`, `:524-529`).
4. `runtime-state.md:59-60`, reuse requires a current fingerprint: the fingerprint
   is that of the moment of storing (`processed_sqlite.py:545`, `:615`), not of decoding.
5. `runtime-state.md:76-77`, "a scalar field changed by the user after AI write-back must be
   preserved": not after a `reset-ai --clear-xmp` that cleared this sidecar and then
   failed elsewhere, if the user sets the old value again before the retry.

Two things the documentation itself concedes are left out of this list. `xmp-writer.md:113-115`
says that a crash between replacement and persistence is not transactional:
the history variables `torn` exempt exactly those states. And the identity comparison
(`exiftool_xmp.py:273`) cannot close the window before the rename at `:275`: the
constant `EditorInWindow` is FALSE in the runs; with TRUE, TLC finds
`RatingPreserved` violated by an edit in that window.

Observed while modelling, without a run of their own; the models either show the behaviour or
exempt it, at the place named.

- Configuration updates that overlap may install a document nobody validated, because they share a
  temporary name (`web-operations.md:91-93`); `ConfigIsAccepted` speaks of requests one after the other.
- Two processes on the model registry may lose a selection or leave one that names a deleted file;
  a selected model may be removed later by force. The digest of a model file is taken before it is loaded, a file
  replaced between the two is believed to be the old one (`swapped`).
- The harness ranks a candidate without a database first (`omlx_harness_service.py:730-745`, against the comment at `:732`).
- Two benchmark runs at once can lose each other's best; one that dies writing leaves
  `best_candidates.json` unreadable, and every later run then fails after its summary. Two runs started in the same second share a
  folder. Stored and new best are compared across different samples. With xgrammar, the path is reported
  `grammar_constrained` while each candidate says `not_available`.
- Recovery from a disk I/O error deletes the journal and executes only the failing statement again
  (`processed_sqlite.py:215-225`), `torn` in `StateStore`. The adoption of a legacy database moves the main file before its
  journal, a death between the two loses what the journal held.
- Thumbnails share one temporary name per photo; a photo replaced while its thumbnail is made, or given
  an older time, keeps the stale one. Of two refreshes the older scan may win. A page's count and its rows may
  disagree. A service started for a nested root takes over rows of the outer one until that is refreshed.
- Configuration: normalization runs before validation, so that "unknown dimensions" and "Missing required" can
  never be reported for a loaded file, while the local benchmark validates the raw document first. Rounded scene weights may change
  by 1e-4 when normalized again, and NaN is accepted as a weight. `screening.enabled` and `scorers.*.enabled` are not coerced, any
  text counts as on; `preview.max_size`, `preview.jpeg_quality`, `scorers.exposure` and `scorers.sharpness` are used but not required.
  A value of `log_level` or `screening.backend` that is not text raises AttributeError.
- Backends: a NaN score becomes the best; an unmatched brace in prose swallows a later object; a reply without a
  required key is not retried.
- `rescore` judges a photo again that a screening rejected, because the row does not record the screening. A row
  whose write is skipped may keep an earlier coverage decision (`review_photos.py:524-548`).
- Commentary: 3,264 of 14,256 tried post texts that are made from scores in Chinese would be refused by the code's own
  screening (`commentary.py:862-877`). `rewrite-commentary` seeds its wording with the group id and rank order, the run with file
  names and review order, so that a rewrite may change wording without any change of scores; it replaces model comments and
  empties those of rows without scores.
- Labels: `docs/operations/aesthetic-label-store.md:22-24` says that repeated imports cannot silently move an item; a changed
  `--holdout-percent` or an explicit split does move it, and the fit does not look at the split. `HoldoutUnseen` holds at
  one percentage and without explicit splits.
- Score reviews: a sample of 6 to 10 consists of quantiles only; the review of the latest job fails on one
  score that is not finite and compares only the requested root with the output.
- Container: when the argument list begins with `--`, as in `-- web --input-dir ... --work-dir ...`, the entrypoint
  takes `--` for the command (`entrypoint.sh:189`, `:202-204`, `:213-221`), checks and hands over the directories of the
  environment and passes the list on (`:403-405`). argparse of the pinned Python 3.14 (`pyproject.toml:6`) drops the `--` and runs
  the command on the directories of its options, against `web-operations.md:97-98` ("Keep container entrypoint source
  protection aligned with explicit Web CLI `--input-dir` and `--work-dir` values"). The model has these lists
  (`WithoutLead`, `MCLedLists`); `EntryLooksRight` exempts them (`HasLead`). Without the exemption TLC finds it violated, also by a
  Web service started by root whose work directory lies in the photo directory.

## 6. Proofs

TLAPS proves for every value of the constants, from the `ASSUME`s of the modules (types of the constants;
`"web"` and `"nobody"` are no process names; rating 0 exists; there are finitely many requests), which TLC also evaluates:

- `RunLifecycleProofs` (any processes, runs and faults): `TypeCorrect`, `OnlyOwnRun`,
  `SessionsAndJobsAgree`, `ClosedRunsStayFrozen`, from `Invariant == Spec => []IInv`.
  The properties are not inductive: a handler or the final update may write only because the session of its run is still
  active, which must be known at every program point. `IInv` adds that only the lock holder runs, that it refers to a run it
  created, that records appear in order, and what session, job,
  transaction and verdict are at each `pc`. `LeaveKeepsIInv` and `RaiseKeepsIInv` treat
  the end of a process and an exception once for all the places where they can happen.
- `ReviewRunProofs` (any photos, bursts, scores, modes, window and faults): `ReviewTypeCorrect`, `DoneRowsMatch`, `NeverLocksItself`,
  `DryRunsArePure`, and `ReviewImplementsLedger == Spec => LedgerSpec`, from `ReviewInv`: `GroupExists` (what is written
  is a group, so that counting groups stays in range), `Control` (in a write path no transaction is open and the
  run is real; past the writer the sidecar is what the row will say) and `Stored` (nothing is in memory between
  runs; what a real run has scored has a row). `Control` needs `OneCurrent`: no two members of a group have
  one rank (`RanksDiffer`, by counting), so that the photo just published is the photo confirmed. `Writers` reduces
  all properties of rows and sidecars to the three actions that write them. `ReuseIsSafe` assumes that photos are replaced only
  between runs; `Fresh` relates rows, memory and disk, and `Decoded` says that the photo being stored is the decoded head of the queue.
  Three more invariants speak of whole runs. `Account`: the photos are `Handled` in the order of their ranks, a failure is counted exactly
  when a photo is recorded as failed, and no such record is written over; it gives `OutcomesAccount`. `Rerun`: over settled results
  memory repeats the rows, so every member finds its old place (`SettledPlace`) and nothing is left to write; it gives
  `RerunsDoNothing`. `Settling`: what a run holds for a photo is what the row says (`Kept`), and once handled without a failure
  the row tells the place (`Placed`); at the end `Account` shows that all were handled. It gives `FinishedRunsSettle`, under
  `~Refine`, the condition the run `ReviewRunRefine` shows to be needed. The first place that is not handled
  belongs to one photo only (`WritingHandles`), and past the last place nobody is left (`GroupDoneHandles`, from `RankInRange`).
- `XmpSidecarProofs` (any ratings and texts): `TypeCorrect`, and with `EditorInWindow = FALSE`
  `StoresAgree`, `RatingsArePreserved`, `ReceiptsAreTrue`, `SettledResetIsSafe`. `IInv` adds what an
  operation knows at each step as long as the sidecar was not edited: the plan and the copy are those
  of the file on disk (`PlanKnown`, `CopyKnown`), so that the replacement, which
  only happens if nothing was edited, changes what the plan says.
- `WebTasksProofs` (any number of tasks and failures): `TypeCorrect`, `OverIsGone`,
  `AtMostOneWorker`, `WorkersAreRecorded`. `IInv` adds that memory and disk list the same tasks, what
  holds between the saving of a task and its Popen (`Spawning`), that a lease seen free stays free while
  the receipt is read (`FreeLease`), and that a living old worker has been found unknown
  before a start is decided (`OldKnown`). `FewerWorkers` treats all steps of workers at once: they end,
  they never appear; `SettleKeepsIInv` treats all verdicts of a reconciliation.
  The verdicts, in the same module: `VerdictsAreTrue`, `VerdictsAreFinal`, from `VInv`: `Fate` is what a task's
  end will be called once supervisor and child are gone; the invariant says at each step of the supervisor and of a reconciliation
  that what it has read or is about to write agrees with the fate, which never changes afterwards.
- `ServiceProofs`, seven components after each other.
  Configuration (any requests and secrets): `ConfigTypeCorrect`, `ConfigAlwaysAccepted`. `ConfigInv` adds
  what name, inode and descriptor are at each step of a request that is alone; types need a pigeonhole argument (`FreeInode`): a
  new file finds an inode whichever others are open.
  Catalog (any models and callers): `CatalogTypeCorrect`, `CatalogImplementsRegistry`. Under the RLock
  (`together`) `UnderLock` says that at most one call is past the lock and that what it has read is still so.
  Comparison (any candidates, samples and troubles): `HarnessTypeCorrect`, `HarnessReportsTruth`. `HarnessInv` says for every
  step of a round what settings and runtime have in common, unless the runtime once outlived a restart.
  Inference (any previews, batch sizes, windows, capacities, files and failures): `InferenceTypeCorrect`,
  `AnswersAreTheirs`, from `InferenceInvariant`: every output on hand is what its request computes, the
  answers collected are those of the first inputs in their order (`BatchesHold`); until a file is replaced under a running call what
  client, adapter and cache believe of it is so (`ContentIsKnown`), and every preview is in the queue or has its
  answer (`NothingIsLost`). The folds of the module (`PutAll`, `Touched`, `Misses`, `Collected`) are functions on an interval, and what they
  compute is proved from the well-ordering of the naturals: the least place where the claim fails would have a predecessor where it holds
  (`LeastNatural`, `Iterates`). `NextPlace` and `LastPlace` say where the batches of a window start, the padded one included.
  Container entry (any argument lists, of which those that begin with `--` are left out where the two parsers are compared; any places, directories, accounts and number of starts): `EntryTypeCorrect`, `EntryAlwaysHolds`.
  The entrypoint's search and argparse read the same list; `InStep` and `RunInStep` relate where they are, and every argument keeps them related
  (`OptionInStep`, `RunStaysInStep`), until the search has failed or the parser has stopped. After the last argument they name one
  directory (`ParsersAgree`, false with a leading `--`, which only argparse drops). `EntryInv` adds that no start gets past the lookup unread, that root gets on only by the checks (`BootIsChecked`) and
  that the places it has been through are the application's (`PassedAreOwned`).
  Vision backends (any replies and number of attempts): `AnswersAreTheModels`. `ReadSoFar` says what the
  scan knows of a text at each place: it stands in the object begun last, or has found it as the last of its list, so that what is taken
  from a text whose braces are in order is its last object (`TidyGivesTheLast`). `Fits` is the property for one answer; every way
  in which an attempt ends gives an answer that fits (`StrictFits`, `FullFits`, `FastFits`, `TextFits`).
  Comments (any photos, groups, scores and answers): `CommentsAlwaysHold`, and with the clients `AnswersAlwaysHold`. `CommentInv` says what
  every text is: one spoken on a group suits its photos (`SuitsGroup`) whether the model or the scores made it (`GroupCommentFits`), a
  finished photo holds it as it was spoken until a rewrite, and rewritten rows are what a rewrite would make. That an advice names
  what is weakest needs averages compared as fractions to be an order at all (`FractionsCompare`, `MeansRank`), in which a finite set stands in
  its places (`SortedLists`, `FirstComeFirst`); and, as a group is measured in the order of review or of its ranks, that sums and counts
  over a list of photos do not depend on the order of the list (`OneAmountMore`, `SumsAgree`, `CountsAgree`).
- `StateStoreProofs` (any files, writes, disk errors and deaths): `StoreTypeCorrect`, `StoreStaysWhole`, from `StoreInv`.
  What the tables lack in the middle of an operation is what the rest of it will write: `Left` relates every suffix of a list of
  statements to the contents it may find, so that a commit finds tables that agree (`DiskWhole`) and a
  rollback loses one operation only. `Moving` and `Adopting` follow a legacy database and its log from the old place to the new one
  over deaths and restarts.
- `GroupingProofs` (any photos, times, hashes, gaps and thresholds): `CachesAreTrue`, `GroupsAreTrue`, `GroupsAlwaysHold`. The caches
  follow from `FactsInv`: a replacement makes a fingerprint no row can have. For the groups, `DoneAreGrouped` says that
  at every step of the comparison the photos taken so far stand in the groups of the definition; the photo taken
  next is together with an earlier one exactly when the last one is and the two are a burst (`TogetherWithTheNext`). That a next one
  exists, whatever times are equal or absent, is the well-ordering of the naturals (`SortedHasFirst`). Selection (any partitions, policies and rounds): `SelectionReplays` and `QualityIsKept`, which is the
  reason: the quality stored under a selection is that of the policy that last judged the photo. Policy (any measurements and
  settings): `RescoresAreRuns`, from `PolicyInv`: the row keeps the signals of its last run, and calibrating them again gives what a run
  under the new settings would have found (`RecalibratedAreFound`), as what is measured depends on `Measuring` alone (`SameMeasuring`).
  `DecisionsAlwaysHold` has both.
- `RecordProofs`, five components and then all of them: `RecordsAlwaysHold == RecordsSpec => []RecordsHold`. Each has an
  inductive invariant over its own variables.
  Library (any photos, roots and finitely many requests): `LibraryAlwaysShows`. `IndexInv` says what a scan under way has found: as long as it is
  `still` it is what is there now, so that whichever refresh commits last the index is one scan. `ThumbInv` follows descriptors and inodes: an
  undisturbed request is alone with its photo and its inode (`MakesSoundly`), and nobody writes to the inode of a thumbnail that was made
  undisturbed (`NobodyWritesIt`); `ThumbnailsShow` alone says nothing of the inode under the temporary name. A new one is free by counting (`FreeFrameFree`).
  `ListInv` follows answers: until somebody writes the database, an answer under way tells what is in it now. A page is then what was asked for because
  each of its orders tells any two photos apart (`QueriesRank`), and in such an order a finite set stands in places of its own, each photo at the one
  that as many others precede (`SortedLists`); a failed job has no score (`RowsKnown`), so that scored and failed photos never overlap (`TotalsAddUp`).
  Reviews (any jobs, rows and readers): `ReviewsAlwaysTrue`. `AuditInv` says that a report, and what a reader is about to publish,
  tells of jobs that are over; nothing writes to those, so what was told stays true (`ToldStays`).
  Labels (any files, percentages and targets): `LabelsAlways`. `LabelInv` keeps for every label, in the store, in the export and in a
  fit, what gave it its part: a label file, or its path at a percentage that was used. With one percentage a path has one part.
  That a fitted profile is one the configuration accepts (`FittedIsUsable`) needs a denominator that is not 0. It is never negative, since the sum of n
  squares is at least an n-th of the square of the sum (`SquaresSpread`), and where it is 0 nothing is predicted better than before. `Sums`
  is a recursive function, and what it computes is shown along its values (`AdditionSteps`).
  Local benchmark: `RepetitionsAlwaysFresh`: the results collected are what the models said (`LocalBenchInv`), and the metrics reported are
  those of the first repetition (`MetricsInv`). That they agree (`MetricsOfOne`) has two parts: where the preferred photo of a group wins every
  pair against its rivals it is the first in the order of scores (`WinnersLead`), which is sorted by `SortedLists`; and the photos to reject are
  those told and those missed, counted apart.
  oMLX benchmark (any runs, models, candidates, replies and deaths): `BestAlwaysMeasured`. `BenchInv` says that what is on file or was read
  by an update is the result of a run that has reported it (`EntriesAreMeasured`); that updates which did not meet followed each other, so that
  what one has read is what is on file (`OneUpdates`); and that nothing on file is outranked by a result of a finished run (`NotOutranked`). The last
  is kept by a merge because ranks are a strict weak order (`OutranksOrders`, `MergedKeeps`), the winner reported for a model exists and leads all its
  results (`LeaderExists`), and every key is a triple of integers (`ResultsKeyed`).
  `MostValidOnFile` was first stated for any number of repetitions; the proof showed that rates of four decimals tell counts apart only up to 3333 of
  them (`MoreValidRates`), which is now part of the property. `RatesAlwaysCounted` has the rest: rates are those counts, rounded.

Each property was checked by TLC before it was proved, and so were the invariants of the first modules, of `Inference` and of `Records`.

Only model-checked: all liveness (TLAPS does not reason about fairness and ENABLED here); `ServicesTypeOK`, where the types of
the components below are not among the theorems above; and `ResultsFollowInputs`, whose parts compare a computation on data (folds over texts,
documents, rows) with a definition. Statements about recursive definitions over data are mostly outside the prover's reach: they need induction
theorems with operator parameters, and `RECURSIVE` disables its SMT backend; what can be said without them is what
a least counterexample in the naturals refutes, as in `ServiceProofs`, `GroupingProofs` and `RecordProofs`.

## 7. Plan

1. (done) Run lifecycle, review pipeline, sidecar and Web tasks with their proofs.
2. (done) The services around the review in one run; proofs of the pipeline, of the verdicts, of the
   configuration update, of the catalog and of the harness.
3. (done) Proofs of the database files, of grouping and selection, of inference and of the container's start.
4. (done) Proofs of what is kept on record: library, reviews, labels and benchmarks; of the policy, of the vision backends
   and of the comments.
5. The effect of rescore on `ReviewRun`'s reuse decision; preparation and priming of batches.

## 8. Not modelled

- Inside the modelled parts: resuming a job (`review_photos.py:315-326`, `:500-513`,
  `:577-601`; every command creates a new job, so no job has earlier files),
  `max_files`, legacy rows without a fingerprint, deleted photos, batch priming, artifacts and events,
  keyword and identifier lists (one flag), the reject/keep keywords, XML and ExifTool formats, symbolic-link checks of the sidecar.
- The measurement of pixels (`scorers/`, `subject_focus.py`, previews, hashes) and what models
  compute: numerical functions without state; the models take their results from small sets. The text of prompts.
- Of the Web service: request parsing, browser sessions, the detail page, logs. Of the command line: options of commands
  that take no directory, and all output.
- Process discovery of oMLX, HTTP and Unix socket details, TLS; checksums (a file is whole or not).
- The scripts under `scripts/` (native benchmarks, acceptance and release checks): straight-line programs that measure and print.
- Migration of columns of the database, repair of scene names.
