# Formal specification of calibre-bookwarden

calibre-bookwarden (`src/calibre_ai_auditor`) audits the metadata of a Calibre
library and, under strict supervision, corrects it. This directory holds TLA+
specifications of the parts in which an error would damage a library or lose
track of what was done to it, the TLC configurations that model-check them, and
proofs checked by TLAPS. Paths below are relative to the package
`src/calibre_ai_auditor` unless they start with `docs/` or `docker-compose.yml`.

`PROJECT.json` lists components, runs, mutants, the map from definitions to
source lines, findings, hazards and theorems.

## 1. Inventory

| Component | State it keeps | Operations | What makes it correct |
|---|---|---|---|
| Operation ledger, outbox, book locks (`storage/models.py`, `storage/operations.py`) | `OperationLedger`, `OutboxEvent`, `BookWriteLock`, `Change`, `PilotSession`, `OperationIncidentAcknowledgement` | `create_operation`, `transition_operation` | the tables agree after every commit; outcomes are final; one operation per book |
| Apply coordinator and API (`apply/coordinator.py`, `web/api/apply.py`, `web/api/runs.py`) | `BookRecord`, `ManualAuthorization`, requests in flight | approve, reject, lock field, authorize, reserve, undo, pilot stop, acknowledge | one apply in flight; exact budget; incidents block; revoked requests never write |
| Metadata writer (`apply/writer.py`, `cli/main.py` `writer`) | process memory: SQLAlchemy session, operation in hand, reconciliation list | claim, process, undo, fail, reconcile at start | a crash at any point leaves a state the next start resolves truthfully |
| Apply engine (`apply/engine.py`, `apply/artifacts.py`, `calibre/cli.py`) | rollback artifacts, change row | export, apply, roll back, verify | no command before a committed restore point; a failed sequence is rolled back or reported |
| Writer guard and heartbeat (`apply/guard.py`, `apply/heartbeat.py`) | PostgreSQL session advisory lock, Valkey key | acquire, lose, publish, expire | one process writes the library |
| Package persistence (`verification/persistence_v2.py`) | `ManifestationV2` rows, `BookRecord` | `record_package` | a new run replaces the snapshot that authorizations refer to |
| Certificate A worker (`verification/certificate_a_worker.py`, `verification/pipeline_v2.py`, `verification/heartbeat.py`, `web/api/production_verify.py`) | `VerificationRun` (status, lease, fence, frozen snapshot, counters), `VerificationResult`, sealed packages, `BookRecord` | request, cancel, claim, renew, freeze, resume, record state, record package, finish | a fenced-out worker records nothing; a run speaks of one version of the library; sealed verdicts stay; every run ends |
| Restore points and retention (`verification/restore.py`, `cli/main.py` `retention`) | restore-point directories, staging and quarantine directories with a journal | create, preview, quarantine, delete, recover | only expired points leave; an interrupted deletion can be completed; nothing is destroyed before its journal says so |
| Durable V2 verification (`web/api/verify.py`, `verification/durable_v2.py`, `service_v2.py`, `persistence_v2.py`) | `VerificationRun` with lease and frozen membership, `VerificationResult`, packages | start, claim, reset, beat, work, announce, record, finish, release, recover at start | resumption repeats no sealed work; `completed` means sealed |
| V1 verification (`web/api/verify.py`, `verification/resumable.py`) | `VerificationRun`, verdicts, a store in memory | post, judge, mark, finish | the counts a client polls are those of the rows |
| Job queue and ingest (`queue/valkey.py`, `web/jobs.py`, `ingest/`, `audit/engine.py`) | a list of job ids, job records, what the watcher remembers, runs and book records | watch, poll, enqueue, dequeue, scan, ingest, audit, progress | no job begun twice or lost; a job reported as completed has judged its file |
| Verdict rules and engine (`verification/rules.py`, `engine.py`, `verdict.py`, `engine_llm.py`) | verdicts of the fields of a book | judge, aggregate, witness, gate | what is applied without a reviewer is harmless, and no value comes from the LLM |
| Manifestation identity (`verification/identity_v2.py`) | none (pure) | resolve | a patch has independent corroboration; weak witnesses never promote |
| Evidence (`extractors/multiformat.py`, `ocr/recognition_v2.py`, `providers/evidence_v2.py`, `verification/pipeline_v2.py`) | formats, evidence items, egress receipts of a book | inspect, recognise, show, look up, transcribe, seal | evidence is of the bytes its hash names; what a model is sent is consented and accounted for |
| Source of an audit (`calibre/offline.py`, `calibre/content_server.py`, `security/files.py`) | a copy of `metadata.db`, the inventory of files, exports | open, describe, check, export | inventory and packages are of one moment of the library |
| Cover review (`web/api/covers_api.py`, `covers/scorer.py`, `calibre/direct_engine.py`) | a cursor held by the client | deck, score | every flagged cover is met, and no other |
| Curation and rules (`rules/`, `curation/`) | none (pure) | ISBN checks, duplicate groups, series | agree with their reference definitions |
| Verifier liveness key (`verification/heartbeat.py`) | a key with a time to live | publish, read | readiness only |
| Parsers, images, HTTP and LLM clients, vectors (`extractors/`, `ocr/`, `covers/`, `providers/`, `llm/`, `vectors/`) | bounded caches | parse, call | outside a state machine |
| Web front end, settings, integrations (`web/app.py`, `config/`, `mcp_server.py`, `integrations/`) | settings | route, render | outside a state machine |

**Interactions.** Verification records a sealed package and overwrites the
book record. A reviewer authorizes the exact package and patch; the apply
endpoint checks a fresh writer heartbeat and the evidence, then, under an
advisory transaction lock, reserves one operation of the pilot's budget: a
ledger row and an outbox event. The writer process, which holds a PostgreSQL
session advisory lock, polls the outbox, claims the oldest pending event, locks
the book, validates the request again, backs the book up, runs `calibredb`
commands one by one, reads the result back, and closes operation, event and
lock. On start it first reconciles whatever a predecessor left behind. Undo is
an operation of its own on the same ledger.

Certificate A is separate: a request inserts a run, verifier processes claim
the oldest run whose lease is not live, under a fence token that grows with
each claim. Every later transaction of the claim locks the run's row and checks
owner, fence, status and lease. The verifier freezes the membership of the
stopped library, audits the books in id order, announces each outcome, records
its sealed package, hashes the library again and closes the run. A thread renews
the lease. A cancellation is a flag in the row that is read at safe boundaries.

Both kinds of V2 run use the same pipeline for a book: a source (a stopped
library folder or a content server) exports its formats, each is inspected from
a stable copy, OCR engines and cover vision may recognise an ISBN, public
providers are asked for it, an LLM may transcribe, `resolve_manifestation`
decides tier and patch, and the result is sealed into a package. In the
development deployment the web app itself runs verification tasks under a lease
in the row, resumes orphaned ones when it starts, watches a folder, and works
through a job queue in Valkey whose jobs register files and judge them with the
V1 rules. The writer creates a restore point before it changes a book; an
operator's retention command deletes expired ones, under the advisory lock of
the writer.

**What is hard.** The library and the database cannot be committed together,
so every crash point between commands and commits matters; the API, the writer,
verification, operators and the owner of the library interleave; a state loaded
by a session is used several commits later; the connection that fences the
writer can die while its commands run; commands time out after having taken
effect; and the failure paths are many and each has three rows to close. In
Certificate A a stalled verifier wakes up after its lease was taken, a recovered
run has to tell finished books from half-recorded ones, the library or the
release may have changed between two claims, and a statement that fails may
have been committed. Retention is interrupted between two renames, and so is its
recovery. The audit reads a library that nobody has locked. An app that starts
has to tell orphaned runs from live ones by their leases; a job is taken off its
queue before anything says who has it; and progress updates overtake each other.

## 2. Modules

| Module | Models |
|---|---|
| `ApplyLedger` | constants, all variables, ledger primitives, what the writer compares, command sequences |
| `ApplyCoordinator` | `record_package`, review and apply endpoints, `queue_v2_operation`, `queue_undo_operation`, pilot stop, acknowledgement; the owner of the library and the operator's redeployments as environment |
| `ApplyWriter` | process loop, `claim_next_operation`, `MetadataWriter.process` and `_process_undo`, `ApplyEngine.apply_patch`, `fail_operation`, `reconcile_incomplete_operations`, `_reconcile_undo`, crashes and lost connections |
| `ApplySystem` | the composition, its fairness, and all properties |
| `OperationLifecycle` | abstract specification: what the ledger promises to a reader who sees no processes |
| `MCApply`, `MCApplyScoped` | constants for TLC; envelopes of bounds |
| `ApplyProofs` | type correctness |
| `ApplyLedgerProofs` | agreement of ledger, outbox and locks; refinement of `OperationLifecycle` |
| `ApplyUnfencedProofs` | what holds also when connections are lost: published events, incidents, budgets, revocation |
| `ApplyChangeProofs` | what holds until one is lost: one apply at a time, change rows, restore points, contents of the library |
| `CertificateA` | requests and cancellation, `claim_next_certificate_a_run`, `execute_certificate_a_claim`, the loop of `LibraryAuditPipeline.run`, `FencedCertificateAStore`, the heartbeat thread, leases, crashes, redeployments; its properties |
| `VerificationRuns` | abstract specification: a verification run as if one auditor did it alone |
| `MCCertificateA` | constants for TLC |
| `CertificateAProofs` | type correctness; what each step may do to the rows of a run |
| `CertificateARunProofs` | the inductive invariant and the properties that follow from it; refinement of `VerificationRuns` |
| `VerdictRules` | the twelve rules of `RULE_REGISTRY`, over classes of declared and observed values |
| `VerdictEngine` | `ContentVerificationEngine.verify`, aggregation, the LLM witness, the conservative gate, storing the verdict |
| `ManifestationIdentity` | `resolve_manifestation`: early returns, external confirmation, `_resolve_fields`, tiers |
| `EvidencePipeline` | inspection of the formats, OCR, cover vision, providers, minimal LLM, sealing; edits of the files |
| `SourceSnapshot` | `OfflineCalibreSource`, `ContentServerSource`, rooted reads, `_inspect_remote`; edits of the library |
| `MCEvidence` | the previous five for TLC |
| `EvidenceProofs` | the evidence and the verdicts of a book, and the moments of the source |
| `RetentionJournal` | creation of restore points, the retention command, the quarantine journal, recovery |
| `DurableRuns` | a V2 run of the web app: claims, leases, the pipeline's rows, recovery at start |
| `LegacyVerify` | a V1 run of the web app |
| `IngestJobs` | watchers, queue, worker, scan, ingest and audit jobs, progress callbacks |
| `CoverDeck` | the cover review: pages, cursor, covers; edits of the library |
| `MCHousekeeping` | the previous five for TLC |
| `HousekeepingProofs` | the properties of these five |

`MCEvidence` and `MCHousekeeping` put components side by side that share no
state: a behaviour chooses one at its start and the others stay still, so that
one run checks each as it would be checked alone. `MCApplyScoped` chooses an
envelope of bounds in the same way, and the action constraints `CrashesOrLosses` and
`CrashAndRedeployment` of `MCApply` are others: an envelope takes steps away from the environment (crashes,
losses, edits, reviews, failing commands, a second operation), never from the
code.

### State

A book's metadata is four parts, because Calibre writes them with separate
commands: `opf` (all OPF fields), `custom` (the `#edition` column), `cover`
(the image) and `file` (the ebooks, which the writer only reads). A part is
`old` (as reviewed), `new` (as patched), `ext` (edited by the owner) or `part`
(`set_metadata_from_fd` has cleared the optional fields its OPF lacks and not
yet set the rest). A ledger row is `row[o]` (immutable request), `opState[o]`,
`outbox[o]`, `lease[o]`, `before[o]`, and for its change row `change[o]` and
`crun[o]`. A row's number is its order of creation, which is the order in which
the outbox is polled. A writer process is its program counter `pc[w]`, the
operation in hand `wop[w]`, the commands still to run `plan[w]`, whether one has
failed `ok[w]`, the purpose of a restore `why[w]`, and the operations
reconciliation has yet to visit `rec[w]`.

### Granularity

* A transaction is one action, because it commits at once. The apply endpoint
  is two: `LoadRequest` (before the mutex) and `Reserve` or `RejectRequest`.
* Each Calibre command is one action, and `set_metadata_from_fd` two. Commands
  need no database connection; every action that queries needs `guard = w`.
* Reading the library and committing the verdict on what was read is one
  action. An edit between the two has the same effect as one just after the
  commit, since the verdict speaks about the moment of reading.
* The state of an operation is loaded at `Validate`, `Verify`, `UndoCheck` and
  `Visit`. The session expires it at each commit, so `LoadPcs` see the current
  state and `transition_operation` refuses one that has an outcome
  (`TransitionRaises`); `Observe`, `RestoreDone`, `UndoRollbackDone` and the
  verdicts of a visit act on what was loaded before and overwrite it. Without a
  lost connection this makes no difference (`WriterAgrees`).
* `verifying` and `restoring` are never committed: they are in-session
  intermediate states of one transaction.
* The rollback artifacts of an undo (show and export) are one step.

### Abstractions

* Only Tier A local packages; the patch of a book is a subset of its parts.
  Values within `opf` are not told apart: one field written wrongly is the
  whole part written wrongly.
* The cover is compared by path where the code does so. Calibre's relocation of
  a book whose title or author changes is not modelled; the path is stable.
* `session.commit` is durable. The session is bound to a connection on which
  the advisory lock query has already begun a transaction; whether its commits
  reach the server then depends on the join mode of SQLAlchemy, a library that
  is not part of the repository; it is listed as a hazard.
* After the connection is lost, `fail_operation` runs after `session.rollback`,
  and whether it reaches the server on a new connection is left open:
  `ExitUnfenced` allows both.
* A pilot that is disabled in the settings is like settings that match no
  heartbeat. The bulk `revert_run` is a sequence of `QueueUndo`.
* `queue_approved_operations` and the direct undo of the CLI are refused in
  production and are left out.
* A file that cannot be read while it is hashed after the commands counts as a
  fault, which ends in a failed or unknown outcome; the code tries the restore first
  (`apply/writer.py:338`). An event whose operation is no longer requested, which
  `claim_next_operation` publishes and skips (`writer.py:53`), does not arise.

### Certificate A

* A run is `status[r]`, `release[r]`, `cancelReq[r]`, `fence[r]`, `holder[r]`,
  `lease[r]`, `frozen[r]` and `completed[r]`; a book of it is `result[r][b]` and
  the package it is linked to, `evidence[r][b]`. `record[v][b]` is the run the
  book record names: book keys contain the fingerprint of the library, so there
  is one row per version. The number of a run is its order of creation.
* A transaction locks its run's row before it looks at anything, so it is one
  action. A statement that fails may or may not have taken effect: each
  recording step has both alternatives.
* Expiry times are compared by one clock (all processes run on the host of
  the deployment), so a lease is `none`, `live` or `expired`. `LeaseExpires`
  needs that nobody renews it; `LeaseLapses` is a process stalled longer than
  its lease, any number of steps before it wakes up.
* The states a book passes between `snapshotting` and `decided` differ in
  nothing the code looks at later and are one, `working`; `shadowed`, `review`
  and `deferred` differ in the identity tier and are one, `settled`.
* An exception in the audit of a book, a refused write included, makes a
  failed book; one while the failure is announced ends the claim. This order is
  kept, since it decides which writes a fenced-out process still attempts.
* A request with a known idempotency key changes nothing and is left out. The
  contents of packages, manifests and reports, and the Valkey key that only
  tells the web page that a verifier is alive, are left out too.
* All requests are for the one library that the deployment mounts; when
  somebody changes it, the next fingerprint is new.

### What a verification does with a book

* `VerdictRules` keeps the order of the early returns of each rule as a table. A rule sees whether each value is there and how the two compare
  after normalisation; a similarity is one representative of each interval
  between two thresholds of the rules. Normalisation and similarity themselves
  are left out.
* `VerdictEngine` judges the fields one by one in the order of
  `_FIELD_BINDINGS`, aggregates flags, action, patch and eligibility, and lets
  the witness change verdicts afterwards without aggregating again, as
  `audit/engine.py` does.
* In `ManifestationIdentity` and `EvidencePipeline` an item of evidence is its
  kind, root, ISBN, fields, and the version of the file it was read from. A
  format has one file whose version grows with each edit. Two sources agree or
  differ in the title. Parsers, engines and providers are nondeterministic in
  what they find, within what each can return for its kind of file, and each may
  fail. One consent stands for text and images (the code has a setting and a run
  flag for each). `sent` holds what leaves the host: texts and covers for a remote
  model, and the ISBN for which the public providers, enabled in the settings by
  default, are asked. That two items get one identifier (`same`, `twice`) is kept,
  because the seal refuses such a package. Fields that no property tells apart
  from others (publication date, series, description) are not among those a
  format supplies.
* An observed language that is an empty string, which no extractor returns, is no
  class of `VerdictRules`.
* In `SourceSnapshot` a file is the number of times it was replaced, so
  `metadata.db` never regains old bytes. In a folder any program may replace a
  file, and Calibre changes its database in a transaction whose sidecar is
  visible; behind a content server Calibre writes one format and then the row,
  whose `last_modified` changes with it. `moments` collects the states the
  library was in since the audit began; it is only read by the properties.

### The processes around it

* `RetentionJournal`: a restore point is the stamp of its creation, or is `bare`
  while `restore.json` is missing. Every rename, every journal write and every
  removal of an entry is a step. The advisory lock is held by the writer or by a
  command, and the connection of a command may die while it goes on. All points
  have one time to live, and the command runs with the production guard.
* `DurableRuns`: each database session is a step: the read and the write of a
  claim, and the list, the look at the books and the closing of a starting app. An
  app is `bare` when its settings have no library. A lease is live or not; `lapses`
  counts leases that run out under a task at work, and `overlapped` remembers that
  two tasks were at work on the run at once. `finish("failed")`, which an exception
  in the pipeline calls twice in a row, is one step.
* `LegacyVerify`: the run, its verdicts, the position of the loop and the store
  in memory, which a new process starts without. An exception between the commit of
  a book and the next book is left out.
* `IngestJobs`: every `await` of the worker and of a callback ends a step. A
  process has a watcher or a poller, whose memory of files (`seen`) is bounded as
  in `_remember`. A run is named after the second in which it starts. Writing a
  job record and pushing its id are one step, and so are a failing last update of a
  job and the failed update that follows it.
* `CoverDeck`: `stream_books` reads pages in transactions of their own; covers
  are read one by one from folders that Calibre renames with the title. Scores
  are abstracted to whether a cover is missing, faulty or fair. New books get
  greater identifiers, as SQLite gives them.

## 3. Runs

Every bound counts something that is unbounded in the system: ledger rows,
verification runs, edits, crashes, lost connections, stalls, redeployments and
failing commands. The bounded outsiders come to rest, and an idle writer or
verifier has nothing to do, so none of the runs checks for deadlock.

| Run | Instance | Properties |
|---|---|---|
| `apply_recovery` | one book, full patch, an apply and its undo; either an edit of the OPF or a file at any moment, 2 crashes and 2 failing commands (1 after an edit), or two writer processes, one lost connection and 1 failing command | `TypeOK`, `PublishedMeansSucceeded`, `LedgerAgrees`, `ChangeAgrees`, `LibraryMatchesChanges`, `WritesAreRecoverable` |
| `apply_progress` | under fairness; either an apply and its undo with 1 crash and 1 failure, or a queued apply with a second verification, a field lock, a verdict, a stop and 1 crash | `RevokedNeverWrites`, `LifecyclePromise`, `WritingResolves`, `RequestsResolve` |
| `apply_supervision` | two racing requests, two books, two pilots with budget 2, a redeployment and a restart, three ledger rows (two where a crash meets the redeployment), 1 crash | `SingleApply`, `BudgetExact`, `IncidentBlocksReservations` |
| `apply_unfenced` | two processes, one lost connection | `SoleWriter` is violated |
| `apply_cover` | a cover patch, 1 crash | `CoverMatchesChanges` is violated |
| `apply_undo_retry` | an undo that failed once | `UndoQueuedIsQueued` is violated |
| `certificate_recovery` | two runs of two books, two verifiers, 1 stall, 1 fault, cancellations | `TypeOK`, `StatusTellsResults`, `HolderAgrees`, `CountsExact`, `DecisionsAreFinal`, `CancelStopsBooks`, `RecordsFollowNewestRun`, `RunsAsPromised` |
| `certificate_progress` | one run of one book under fairness, two verifiers, a redeployment, a change of the library, 1 crash, 1 fault | `RunsEnd`, `EvidenceIsOfFrozenSource` |
| `certificate_sealed` | one run of one book, one verifier, 2 crashes, 1 fault | `CompletedIsSealed` is violated |
| `evidence` | all classes of values for any 2 fields and 1 witness; 2 formats of 4 kinds, 2 ISBNs, 1 edit of a file, 1 cover; 2 files and a database, replaced twice each | `PatchIsDeterministic`, `AutoApplyHarmless`, `WitnessesNeverPromote`, `PatchCorroborated`, `EvidenceOfRecordedBytes`, `EgressAccounted`, `InventoryIsOneMoment`, `PackageIsOneMoment` |
| `housekeeping` | 2 restore points, 2 backups, 3 interruptions, 1 lost lock; 2 app processes, 2 books, 2 crashes, 1 lease that runs out under its task, 3 audits, 1 fault, up to the moment two tasks are at work; a V1 run of 3 books; 2 processes with 2 jobs, a file and the end of a process or two files; 4 books in pages of 2 with 1 edit and 1 step back | `InterruptionsRecoverable`, `OnlyExpiredLeave`, `CompletedMeansSealed`, `SealedStays`, `LegacyAccounts`, `JobsAccounted`, `CompletedIsJudged`, `DeckIsExact` |
| `retention_interrupted` | 2 restore points, 1 transaction, 3 interruptions | `RecoveryResumes` is violated |

Why the bounds are enough for the interesting cases: two crashes reach a crash
of the reconciliation that repairs the first one; two failing commands reach a
rollback that fails after the command it rolls back; two ledger rows hold an
apply and its undo, three an incident, a request blocked by it and one that
steps over it; two requests reach every race at the queue mutex; a redeployment
and a restart are what it takes to reserve under a second pilot, since the
heartbeat names the one the writer was started with; two processes are needed, and
suffice, for a successor that works while its unfenced predecessor still runs.
For Certificate A, two verifiers and a stall give a fenced-out process at every
step beside its successor; two books give one that is sealed, or failed, while
the other is in hand; a stall and a fault give a recovery that finds half-recorded
work and fails itself, and a heartbeat thread that fails while its process goes
on; two runs and a stall give a process of an ended run beside its successor
run; one change of the library and one redeployment can fall before, between or
after the claims.

A verdict depends on the other fields only through flags and through whether
one is open, so two fields with data show every pair of a field that would be
patched and one that must stop it. Two formats give agreement, conflict and
one readable beside one damaged; one edit can fall between any two reads. Two
files replaced twice can each change before and after the other is read, which
is what a mixed inventory takes. Three interruptions reach the recovery of a
recovery; two crashes a recovered run that is orphaned again; two processes
with two jobs every race at the queue; pages of two with four books a request
that ends in the middle of a page, at its end, and on the last page. In
`DurableRuns` a lease that runs out under its task is a step like any other; the
run stops where two tasks are at work at once, since its properties promise
nothing from there on.

**Symmetry** is used for requests, writer processes, pilots, verifiers, app
processes, ISBNs and files of a library, in runs without liveness. Books are not symmetric, since an unused ledger row names
one of them and verifiers take them in id order.

**Fairness** (`FairSpec`): weak fairness of a writer's own steps (the loop of
`writer` never waits for anything but its poll interval, and commands have
timeouts), of `Start` (`docker-compose.yml:284`, `restart: unless-stopped`), and
of `LeaseExpires` (the clock). No fairness of reviewers, operators, requests,
verification, or of anything failing. In `CertificateA` likewise: a verifier's own
steps, its restart (`docker-compose.yml:81`) and the expiry of a lease that nobody
renews, and nothing else.

### What the properties say

* `LedgerAgrees`: until a connection is lost, operation, outbox event and book
  lock agree after every commit. Its proof shows with it that a process never acts
  on a state other than the committed one (`WriterAgrees`).
* `ChangeAgrees`: until a connection is lost, the change row tells how the write
  ended, although its fate and the operation's are committed in two transactions.
* `LibraryMatchesChanges`: without outside edits and lost connections, a book that
  nobody works on, that has no unresolved incident and whose changes were undone
  in order holds exactly what its applied changes say, wherever the writer
  crashed and whichever command failed.
* `WritesAreRecoverable`: no Calibre command without a committed restore point,
  also by processes that lost the lock; until then only on a book that the
  operation in hand has locked.
* `PublishedMeansSucceeded`: reservations step over published events without
  looking at the operation, so this must survive two processes closing the same
  operation in either order.
* `RevokedNeverWrites`: stopping the pilot, verifying again or locking a field
  while an apply is queued keeps it out of the library for good.
* `SingleApply`, `BudgetExact`, `IncidentBlocksReservations`: the supervision
  that `queue_v2_operation` promises, under racing requests; the first only until a
  connection is lost. The last also shows
  that a failed undo, which belongs to no pilot and can therefore not be
  acknowledged, blocks all later pilots.
* `WritingResolves`, `RequestsResolve`: a started write is always resolved. A
  request is too, except when a claim was orphaned: its writer died and its
  successor reconciled before the lease had expired. Such a claim keeps its
  book locked until the next restart, and the next event for that book, once it
  is the oldest pending one, holds up the whole outbox.
* `StatusTellsResults`, `CountsExact`: what a run says of itself when it has
  ended is what its rows say, over all the claims it took. `has_errors` lives in
  the memory of one claim only and is right because failed books are retried by
  the next.
* `HolderAgrees`: the process that holds the lease works on what the store holds,
  whatever earlier holders left behind or still attempt.
* `EvidenceIsOfFrozenSource`: a run mixes no two versions of the library.
* `DecisionsAreFinal`, `CancelStopsBooks`: a sealed verdict and a cancelled run are
  safe from processes that do not know yet.
* `RunsAsPromised`: `CertificateA` implements `VerificationRuns`, which knows no
  processes: a run is requested when no other is going on, freezes one moment of
  the library, its books are judged and sealed one at a time, a settled book is
  left alone, and it ends as its books tell, as cancelled only if it was. The
  refinement mapping is what readers see: an active status is `open` or
  `cancelling`, a result that is no outcome yet is `none`, claims, leases and
  retries are stutters. One step of a verifier that no longer owns its run, or
  remembers something else than the store holds, would be no step of it.
* `RecordsFollowNewestRun`: book records are shared between runs, and only the
  unique index on active runs, together with the fence, keeps an older run from
  overwriting a newer one.
* `RunsEnd`: every request and every cancellation ends. A cancellation that no
  verifier is there to see is taken over by the next claim.

* `AutoApplyHarmless`, `PatchIsDeterministic`: the rules, the
  flags, the aggregation and the gate are four places that must fit together, and
  the witness acts between the third and the fourth. Whatever the other fields
  say, what passes without a reviewer erases nothing, replaces no ISBN and touches
  no book that looks like another one, and no value comes from the LLM.
* `WitnessesNeverPromote`, `PatchCorroborated`: tier A and its patch are the same
  without OCR by one engine, vision and LLM; and every patched value was read in
  the book and confirmed by an independent root with no authoritative dissent.
* `EvidenceOfRecordedBytes`: the file is opened by several stages, each of which
  must notice that it was replaced.
* `EgressAccounted`: texts and covers leave for a remote model only with the setting
  and the consent of the run, and a package that was decided has a receipt for each.
  The query of the public providers is outside this regime: it needs no consent of
  the run and leaves no receipt (`providers/evidence_v2.py:323`). What it carries is
  bounded: one ISBN, recognised or read, that no format of the book contradicts.
* `InventoryIsOneMoment`, `PackageIsOneMoment`: reading without a lock, twice, is
  enough: there is a moment at which database and files were all as read.
* `InterruptionsRecoverable`, `OnlyExpiredLeave`: wherever retention stops, its
  recovery is not refused (with the exceptions that `retention_interrupted` shows
  and that another command has taken one of its points), and under the guard a
  point the writer has refreshed since it was listed stays.
* `CompletedMeansSealed`, `SealedStays`: unless two tasks were at work on a run at
  once, through crashes, restarts, repeated requests, leases that run out, and an app
  that closes a run which another takes up, a completed run has evidence for every
  book and an exact counter, and a sealed outcome is not replaced. The status of an
  ended run is not final (`finish` does not look at it): it may turn into `failed`,
  when a task that had claimed the run finds it ended, and into `completed`, but
  only when no book lacks anything.
* `LegacyAccounts`: the counters a client polls are the verdicts committed.
* `JobsAccounted`, `CompletedIsJudged`: delivery of jobs is at most
  once; one is lost only with its process or by a failing call to Valkey; a
  completed ingest has judged its file unless the audit raised, or the file was
  registered again meanwhile.
* `DeckIsExact`: a request that stops in the middle of a page continues there.

### Findings

* `apply_unfenced`: the commands of one sequence run without a query on the
  guard connection, so a process that lost it goes on changing the library after
  a successor took the lock; `cli/main.py:1391` says it exits instead.
* `apply_cover`: reconciliation compares a cover by path, so an interrupted
  restore or undo is declared complete while the new cover is still there;
  `docs/architecture/integration-decisions.md:166` promises the exact state.
* `apply_undo_retry`: the idempotency key of an undo does not change when it
  fails, so a second request queues nothing, marks the book `undo_queued` and
  reports that the change was queued.
* `certificate_sealed`: a book's final state is recorded before its package, and
  resumption does not compare the two. A book that failed in one claim and whose
  retry is interrupted between the writes is skipped by the next, so the run ends
  as `completed` with the package of the failure as the only evidence of that
  book; `docs/runbooks/production-operations.md:174` promises sealed terminal
  evidence for all selected books.
* `retention_interrupted`: `recover_quarantine` of a transaction that is still
  `prepared` moves the restore points without advancing the journal first
  (`verification/restore.py:450`). When it is interrupted after its first move,
  every later preflight refuses the transaction as an invalid prepared state
  (`restore.py:548`), and with it every further retention;
  `CHANGELOG.md:125` and `docs/decisions/ADR-001-journaled-retention-recovery.md:26`
  promise that interrupted retention can be resumed.

### Observations

Behaviour met while modelling that the modules contain, or that bounds them, and
that no run is about:

* The witness also asks about ambiguous fields that have no value on either side,
  and its verdicts are merged after flags, action and eligibility were aggregated
  (`audit/engine.py:203`): an eligible book may hold a field verdict with a
  high-risk flag, although `docs/architecture/integration-decisions.md:222` demands
  that there is none. Neither the patch nor the gate reads that verdict.
* In `resolve_manifestation` a readable format without an ISBN does not keep a
  book from tier A as long as another format has one, while
  `docs/decisions/ADR-002-exact-manifestation-v2.md:48` says that all formats
  identify the ISBN. The package of a book whose processing raised has no
  receipts (`verification/pipeline_v2.py:477`), although excerpts or a cover may
  have been sent before (line 65 says that every allowed request stores one):
  `EgressAccounted` speaks of decided packages.
* `claim_verification_run` says that it claims atomically (`durable_v2.py:51`), and
  reads and writes in two statements without a lock or a condition: two tasks that
  overlap both succeed, also while no lease runs out. No property of the module says
  that the claim excludes a second task; those that are checked end where there is one.
* A starting app marks a run "finished if still open" (`durable_v2.py:260`), but lists,
  inspects and finishes in three sessions, the last of which does not look at the
  status: a run that a task sealed and ended as failed meanwhile becomes completed,
  which `SealedStays` allows.
* The ISBN of a book goes to Google Books and Open Library without a consent of the
  run and without a receipt; `docs/calibration/manifestation-v2-runbook.md:301` lists
  any remote payload without both as a stop condition, while item 7 of ADR-002 speaks
  of LLM text and vision only.
* A task of the web app beats once (`durable_v2.py:203`), so any audit longer than its
  lease of 120 seconds can be claimed beside it: what is promised of a run depends on
  nobody asking for it meanwhile.
* A task that has claimed a run which a starting app closes finds it ended at its
  first beat, and turns `completed` into `failed` (`durable_v2.py:238`).
* An app that restarts while the lease of its dead task is live passes the run
  over, and nothing looks again (`durable_v2.py:134`). A recovered run lists the
  whole library: one that was started with a limit, or whose library changed, is
  rejected by its frozen membership and ends as failed.
* `resumable_book_keys` of `SQLAuditStore` takes any intact package as evidence,
  as in `certificate_sealed`.
* A late progress callback writes the record it has read and turns `completed`
  into `running` (`web/jobs.py:87`).
* Run ids have the granularity of a second, and two jobs of one second collide on
  a unique key. A watcher remembers a file before it is enqueued, so a failed
  enqueue is not retried, and files that appear while no process runs are never
  ingested. A book registered again during an audit is judged for its old run.
* A V1 run whose process dies stays `running`; `ResumableRunStore` lives in memory
  and is never read back (`verification/resumable.py:3`); `completed` of a V1 run
  is the position of the last book with a verdict, failed ones included.
* The deck leaves out a cover that is detected as spurious and scores 60 or more
  (`docs/API.md:163`).
* `ConsensusEngine` and `covers/cache.py` are exported and used by nothing else.

## 4. Proofs

The theorems hold for every value of the constants under the assumptions in
`ApplyLedger`: patches are subsets of the written parts, the budget is 1 to 5 as
the settings demand, the bounds are naturals, and `"none"` names neither a pilot
nor a process.

* `TypeCorrect`: `Spec => [](TypeOK /\ WorkRecorded)`. `TypeOK` alone is not
  inductive: an action applies `row`, `backup` and `change` to the operation in
  hand and to the change an undo names. `WorkRecorded` says that these are rows
  of the ledger whenever the program counter is at a step that uses them. Each
  group of actions has a lemma; the framing of the shared building blocks
  (`Close`, `Commands`, `CreateOperation`) is proved once and cited.
* `LedgerStaysConsistent`: `Spec => [](WriterAgrees /\ LedgerAgrees)`. Closing
  an operation keeps `LedgerAgrees` only if the closing process holds the one
  operation that is claimed or writing for the book, and in the state its program counter
  implies. That is `WriterAgrees`, which in turn needs that no other process is
  alive: the advisory lock. Both are conditional on `losses = 0`, and `losses`
  never decreases, so a step from a state with lost connections has nothing to
  show.
* `LedgerImplementsLifecycle`: `Spec /\ [](losses = 0) => LifecyclePromise`, by
  step simulation from the invariant: every action maps to one step of
  `OperationLifecycle` or to a stutter. The hypothesis is needed: an unfenced
  process can close an operation that its successor reopens or closes
  differently.

The theorems about `CertificateA` hold for any number of verifiers, books, runs
and faults; they assume that the bounds are naturals, that there is a release and
that no verifier is called `"none"`.

* `CertificateTypeCorrect`: `Spec => []TypeOK`. The lemmas before it say what
  each step may do to the store: only the owner of the lease changes the rows of
  its run, and only in one of five ways (`FreezeInventory`, `RecordState`,
  `RecordPackage`, `FinishRun`, a claim).
* `IInvHolds`: `Spec => []IInv`, the inductive invariant from which the others
  follow. `StatusTellsResults` needs to know what the finishing process
  remembers, hence `HolderAgrees`, which is conditional on owning the lease: a
  fenced-out process has a stale memory, and it is harmless because the only
  step that makes it an owner again is a claim, which replaces that memory.
  `MemoryAgrees` is what a process knows about itself, owner or not: where it
  has a run, books left and errors. A step of another process leaves the
  holder's rows alone, so its agreement is preserved by framing. `SealsAgree` relates packages and results,
  `RunOrder` says that all runs but the newest have ended and that records name
  requested runs only, `FreshRuns` that nobody holds a run not yet requested.
* `StatusesTellResults`, `CountersAreExact`, `EvidenceOfOneSource`, `HoldersAgree`:
  the invariants of the runs on `CertificateA`, each a part of `IInv`.
* `SealedVerdictsStay`, `CancellationStopsBooks`, `EndedRunsStayEnded`,
  `RecordsFollowRuns`: the action properties, from `IInv` and the lemmas on what
  a step may change. `EndedRunsStay` says a little more than the runs check: the
  fence of an ended run stays as well.
* `StoreImplementsRuns`: `Spec => RunsAsPromised`. Each of the ways in which the store
  changes is mapped to a step of `VerificationRuns` or a stutter (`RequestSeen`,
  `CancelSeen`, `ClaimSeen`, `FreezeSeen`, `JudgeSeen`, `SealSeen`, `FinishSeen`).
  `IInv` gives what the holder takes for granted; `Ready` adds what every process
  has seen to before it came to where it is, owner or not: that the library is
  frozen, and that somebody asked for the cancellation it reports.

The other theorems about the apply core need no further assumption. Those of
`ApplyUnfencedProofs` hold however many connections are lost:

* `PublishedAreSuccesses`: `Spec => []PublishedMeansSucceeded`, from `Known`, which
  adds to type correctness what a process knows without the lock. It cannot be
  proved from `LedgerAgrees`, which fails then. The owner of the lock knows that
  nobody but a fenced-out predecessor touches its operation, and that one can only
  have failed it (`OwnerHolds`); a process past its writing commit, owner or not,
  knows that its operation never again leaves the committed states
  (`ProcessHolds`). What is for ever (`Steady`) is proved once for all steps.
* `IncidentsBlock`: by cases on the step: only `Reserve` spends the budget, and it
  looks at the incidents in the transaction that holds the queue mutex.
* `BudgetsAreExact`: a request that waits at the mutex holds a choice of pilot, made
  from a session that is stale by then; `BudgetHolds` says that counter and rows
  agree for every pilot, so whichever is chosen, the transaction adds one to both.
* `RevocationHolds`: `Spec => RevokedNeverWrites`, a temporal property (once revoked,
  never again writing) that is reduced to the state predicate `Shut`, which every
  step keeps: the operation can no longer pass the validation before the first
  write.

Those of `ApplyChangeProofs` are about fenced behaviour (`losses = 0`):

* `OneApplyAtATime`: from `InOrder`, that whatever is older than an apply has an
  outcome; the theorem about one apply follows because outcomes are final.
* `ChangesTellOutcomes`: from `Records`. The change row is committed before the
  operation, so its status has to be related to the program counter
  (`WorkHolds`) and, after a crash, to the library (`ChangeOf`: an operation that is
  still writing without a change row has written no text).
* `WritesHaveRestorePoints`: an action property, from `Known` for processes without
  the lock and from `Records` for those with it.
* `LibraryHoldsChanges`: `Spec => []LibraryMatchesChanges`, by far the longest proof.
  A book that no operation is writing to holds what its changes say
  (`BooksRest`); what was observed before a write, and before the last change of a
  book, is what the other changes say (`EvidenceHolds`), so that a restore or an
  undo puts back just that; and the commands of an apply or a rollback leave
  a column alone that the patch does not name (`RestoresHold`).

`EvidenceProofs` holds for every number of formats, files, ISBNs, images and edits,
and for all combinations of values of all fields:

* `InventoryOfOneMoment`, `PackageOfOneMoment`: there is a moment `m`, the one at which
  the comparison began, that lies between what was read and what is there now in
  every file, and equals what was read in the files that were compared
  (`Comparing`). When all were compared, what was read is `m`. That versions only
  grow (`Behind`) is what makes the two inequalities close.
* `EvidenceHasItsBytes`: an item of evidence of a format is filed in the turn of
  that format, between the two hashes of its file (`Filed`, `Turns`).
* `EgressHasReceipts`: from `Allowed`, which adds to the property when the providers
  are asked: once, after the last step that gives a format an ISBN (`Queried`).
* `PatchesHaveTwoSources`, `WeakWitnessesNeverPromote`: the sealed
  package is the resolution of what was collected (`SealedOf`), so these follow
  from lemmas about `Resolve`, given what the stages can put among the evidence:
  which witness counts as authoritative (`Witnesses`), that an ISBN read in the book
  comes from a format that no weak witness seeded (`Confirmed`), and that a provider
  speaks of one record (`Recorded`).
* `PatchesComeFromRules`, `AutomaticPatchesAreHarmless`: `Sound` says what a verdict of
  a rule may be: written without a warning only what was observed, for an ISBN only
  a valid one, and without a reviewer an ISBN, a publisher, a date or a series only
  where there was none. It is proved rule by rule: the verdict is that of the first
  row whose guard holds (`FirstRowIs`), and each row either carries a warning, or
  writes nothing, or fills a gap, given the rows before it. `VerdictInv` carries this
  from field to field; after the aggregation the patched fields are `mismatch` or
  `missing`, so the witness, which only touches `ambiguous` ones, leaves them.

`HousekeepingProofs` holds for every number of processes, books, jobs, restore
points, transactions, crashes and edits:

* `CompletedRunsAreSealed`, `SealedOutcomesStay`: from `DurableInv`, which is about
  behaviours in which no two tasks were at work at once, whoever holds the lease:
  a task at work is alone (`Exclusive`), what it has left to do is what has no sealed
  outcome (`Progress`), also if another task began it, and a run that a starting app
  is about to close, or that is completed, lacks nothing (`Settled`).
* `InterruptedDeletionsRecover`, `OnlyExpiredPointsLeave`: from `RetInv`, which relates
  journal, payload and disk (`Journaled`, `Present`) to the program counter of the
  command (`Phased`, `Validated`, `Worked`), and the lists that were made before the
  guard was taken to the journals made since (`Listed`, `Stamps_`).
* `JobsAreAccountedFor`, `IngestedMeansJudged`: from `JobsInv`. A job is in the queue
  once or in one worker's hands (`Queued`, `Begun`), and the record of a file
  belongs to the run of the job until it is judged or taken over (`Followed`).
* `LegacyRunsAddUp`: from `LegacyInv`; the three numbers are updated in one
  transaction per book, but the sum over the verdicts has to be recomputed, which
  is a fact about cardinalities of the verdicts up to the position (`Walked`,
  `Marked`).
* `DecksAreExact`: from `DeckInv`. Each missing or faulty cover after the cursor is on
  a card, on the page, or beyond the last row that was read (`Coming`), up to the
  cursor it was shown (`Shown`), and the rows of a page are in order, so that a
  request can stop in its middle (`Paged`). Finiteness of a page is all that is
  needed of its size.

### What the proofs corrected

Five properties were true on the instances and false in general; each was
corrected to what the code guarantees:

* `SingleApply` had no hypothesis: but a process that lost its connection fails an
  operation which its successor has just validated, the failure is acknowledged,
  and another apply is reserved before the successor commits `writing`. It now
  assumes `losses = 0`.
* `ChangeAgrees` demanded a change row for each success. When the writer dies
  before it has made one, and the patch consists of a cover that is in place
  already, reconciliation finds the patched state and the operation succeeds
  without a row.
* `LibraryMatchesChanges` did not exclude undoing an older change after a newer one
  of the same book: the undo puts back the whole OPF of its backup, and with it
  the fields of the newer change, which still says `applied`
  (`UndoneOutOfOrder`; nothing in `queue_undo_operation` demands that the newest
  comes first).
* `OnlyExpiredLeave` assumed nothing about the guard, but two commands of which one
  has lost it write the same journal over each other. It now assumes `drops = 0`.
* `InterruptionsRecoverable` failed for a transaction whose point another
  transaction has taken (`Overtaken`): two commands list the same candidates before
  either has the guard, the first is interrupted after publishing its journal, and
  the second, which looks for pending transactions before the guard only
  (`cli/main.py:642`), deletes the same points. The first transaction can then never
  be recovered, and every later retention refuses to run. This is a second way into
  what `retention_interrupted` shows.

### What is only model-checked

* The temporal properties (`WritingResolves`, `RequestsResolve`, `RunsEnd`): liveness
  under fairness and `ENABLED` are outside the prover.
* That the bounds of the runs are enough is argued in section 3 and not proved; the
  theorems make it irrelevant for the properties they state.

## 5. Plan

1. *(done)* Ledger, coordinator, writer, engine, guard; lifecycle refinement.
2. *(done)* `CertificateA`: leases with fencing, cancellation, recovery and
   resumption, with its proofs.
3. *(done)* `RetentionJournal`, `DurableRuns`, `LegacyVerify`, `IngestJobs`,
   `CoverDeck`.
4. *(done)* `VerdictRules`, `VerdictEngine`, `ManifestationIdentity`,
   `EvidencePipeline`, `SourceSnapshot`.
5. *(done)* Theorems about the apply core, the evidence, the verdicts, the sources
   and housekeeping.
6. *(done)* `VerificationRuns`, the abstract specification of a verification run that
   `CertificateA` implements.
7. Abstract specifications of the resumable runs (`DurableRuns`) and of the queue
   (`IngestJobs`), with their refinements.

## 6. Not modelled

* Parsing, image processing, normalisation and similarity of text, OCR, LLM and
  HTTP clients, rendering and settings have no protocol state of their own; the
  modules keep what they can return and that they can fail. The contents of OPF
  and cover files are abstracted to parts.
* Curation and the deterministic rules under `rules/` and `curation/` are string
  algorithms, whose interesting part is the characters a model would abstract.
* The verifier's liveness key, which no decision of the verifier depends on.
* The memory backend of the queue, the expiry of job records, queue locks and rate
  limits, which the path of a job does not use; `ConsensusEngine`, which nothing
  uses; the read-only audit of a whole library by `direct_engine.py`.
* Development-only paths (direct CLI undo, `queue_approved_operations`) are
  refused in production.
* The relocation of a book's files when its title changes, in the apply modules.
