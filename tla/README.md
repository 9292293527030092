# AI Novel Studio: a TLA+ model of its chapters, jobs, queues and ledgers

AI Novel Studio is a local-first studio for writing novels with AI models: a
Python backend (`src/app`), a React front end, and a desktop host. An author
edits chapters, has drafts generated, reviews them, and exports the manuscript.
This directory models the parts of the backend where those activities meet:
the chapter store, the autosave coordinator, the durable export queue, the life
of a generation job from its start to the accepted or rejected draft, the
ledger that holds the money of a model call, the download of local models, and
the exchange of chapters between two projects by files.

## 1. Inventory

### Modelled

| Component | Code | State | Operations |
|---|---|---|---|
| Export queue | `app/services/export_job_service.py`, `export_execution_claim.py` | `export_jobs.json` (one row per job), `export_artifacts/`, per-job OS lock files, and per process: a pool of two threads, futures, cancel Events | create, idempotent create, retry, cancel, start-up recovery, submit, run, download |
| Autosave | `app/autosave/` | generation and status per document, debounce and periodic timers, `_saving`, `_pending`, `_closed`, tracked durable versions | content_changed, flush, flush_all, on_application_close, ticks, track |
| Generation jobs | `app/jobs.py` | `runtime/jobs/<id>.json`, and per manager: Job objects with a condition, a cancel Event, the accounting hook, the request's authorization | start, worker, cancel, settle, publish, accept, reject, recovery |
| Chapter store | `repositories/chapter_repository.py`, `file/repository.py`, `file/chapter_identity.py`, `application/persistence.py` | identity ledger, markdown, versioned document package, one history file per replaced version; per client the version it read | get, save, rename, restore, create, duplicate, delete, audited save and create with their compensation |
| Dispatch ledger | `experimental/model_broker.py`, `model_broker_api.py`, `declarative_model.py`, `story_simulator_model.py` | budget, price, one ledger row per idempotency key, the claim of a run; per job its request, thread and manager's verdict | configure budget and price, preview, claim, reserve, link, start, guard_dispatch, finalize, reconcile |
| Model downloads | `model_center/transfers.py` | a directory per task: journal, partial file, model; per process workers, a lease, previews | start, pause, cancel, resume, worker, publish, cleanup preview, cleanup, recovery by the list, close |
| Offline exchange | `experimental/offline_sync.py`, the writers in `experimental/api.py` | per project a document with the channel, the messages sent and the messages taken; the chapters; copies of messages in users' hands | queue, export, delivery, receive, review, apply, recover (adopt, close), change selection, revoke |

How they interact. They share no memory. They share a discipline: a short
critical section under `workspace_mutation` (a process lock plus an OS file
lock, `repositories/file/mutation_coordinator.py`), a read of the durable state
inside it, one atomic replacement of a JSON document. Exports read a snapshot of
the manuscript taken at creation. Autosave and acceptance both write chapters by
compare-and-swap on the chapter's version; whoever comes second gets a
`VersionConflict`. The hooks `before_dispatch` and `on_terminal` connect a
generation job to the dispatch ledger; `ChapterStore`'s clients are the editors,
the autosave adapter and the acceptance of a draft, which see of it just the
version they read. Downloads share the discipline only. The two sides of an
offline exchange share nothing but the copies that a user carries; its writers
are clients of the chapter store.

What is hard, per component, and what makes it correct:

* **Export queue**: several processes of one host over one file; an execution
  outlives the critical sections that start and end it; cancellation from
  another process; death in the middle of writing an artifact; silent return
  from a contended claim; a closed pool; writes that raise halfway.
  Correct when: one executor per job; a terminal row stays; a succeeded row's
  receipt describes the file on disk; one job per fresh idempotency key; no job
  is forgotten.
* **Autosave**: edits during a save; several threads flushing one document;
  locks left between the steps of a flush; a close racing edits and timers;
  another writer of the same document.
  Correct when: "saved" means stored; saves of a document are serialized and
  in the order of the edits; `flush` and `on_application_close` only return
  True when it is so; every edit is stored in the end.
* **Generation jobs**: a worker thread against cancel, accept and reject;
  several managers over one record; a publication that consists of two saves
  around a callback that must run once; an authorization that can be refused
  once; death anywhere; saves that raise while the memory has moved on.
  Correct when: a draft reaches the manuscript at most once; accounting is
  settled once, and before review; a refusal is final; a decision is final.
* **Chapter store**: four files change one after the other, each atomically;
  exceptions between them are compensated in audited operations and not in the
  others; death anywhere; clients write with versions they read long ago.
  Correct when: a text is replaced only by a client that saw it; a version names
  one text, also in the history; a number is never used for a second chapter; a
  refused audited operation changed nothing; the markdown follows the document.
* **Dispatch ledger**: requests replayed with the same key; a claim of the run
  before the hold; budget and price changing between preview, reservation and
  dispatch; settlement by the job's hook, by the request, or by nobody; a user
  who reconciles what a live thread may still send.
  Correct when: one hold and at most one call per request; a hold is given back
  only uncalled; the budget is exceeded by overruns alone; nothing stays held
  that neither settles nor is offered for reconciliation.
* **Model downloads**: a journal behind a growing file; pause and cancel
  against a worker that is between two checks; a publication of link, unlink
  and journal, a cleanup of intent, unlink and journal, each cut by death; a
  resume after either; files that change under a preview.
  Correct when: one writer; the journal never claims missing bytes; the model's
  name means reviewed content; a cancellation is not overtaken; only what was
  shown is deleted; nothing stays active without a worker.
* **Offline exchange**: copies arrive twice, late, out of order or never; the
  chapter is written inside of a transaction that does not hold its lock, and
  is not undone with it; a new chapter takes two writes; recovery runs beside the
  call it recovers; selections change under messages that wait.
  Correct when: a message is merged at most once, in the order of its chapter,
  and over the text its reviewer saw; the journal says applied only of what was
  written; a chapter takes one source; new chapters keep their places.

### Not modelled

`PROJECT.json` lists each with its files. Candidates for further modules: the
mutation locks themselves (the modules here assume a mutex per key), studio
image jobs, bound generation execution and review, project retirement, the signed
format of the offline exchange (`offline_sync_production.py`). Left out:
providers and routing (network I/O; a job sees a stream of chunks that
completes, fails or is cancelled), the PostgreSQL backend and the collaboration
runtime (a database's transactions, behind a flag that is off in the local
product), media rendering, lore and prompts (data, little control), project
capacity (measurement), the interop host, plugins (a test worker), HTTP API,
front end and desktop host.

The modules cover a small share of the repository's lines. Much of it is
frozen copies of the application kept as delivery evidence
(`docs/delivery/evidence/`), scripts, prompts, data schemas, request parsing and
rendering, which have no behaviour of their own that a state machine could
express.

## 2. Modules

```
ExportLease            what an export row and its lease promise (abstract)
ExportQueue            the queue                  Autosave        the coordinator
ExportQueueProps       properties, refinement     AutosaveProps   its properties
ExportQueueProofs      theorems                   AutosaveProofs  theorems
ExportQueueRefinement  ExportQueue implements     MCAutosave
                       ExportLease
MCExportQueue
DraftReview            what the review of a draft promises (abstract)
GenerationJob          the job manager
GenerationJobProps     its properties, refinement
GenerationJobProofs    theorems
MCGenerationJob

ChapterText            what the chapter   CallHold              what a request's
                       store promises                           hold promises
ChapterStore           the files          DispatchLedger        the ledger
ChapterStoreProps      properties         DispatchLedgerProps   properties
ChapterStoreProofs     theorems           DispatchLedgerProofs  theorems
MCChapterStore                            MCDispatchLedger

TransferInstall        what a download promises (abstract)
ModelTransfer          the downloads
ModelTransferProps     properties
ModelTransferProofs    theorems
MCModelTransfer

ReviewedMerge          what the offline exchange promises the authors (abstract)
OfflineSync            the exchange
OfflineSyncProps       properties
OfflineSyncProofs      theorems
MCOfflineSync
```

Each component module holds state, actions and specifications and no property;
its `Props` module holds the type invariant, the parts of the inductive
invariant and the properties; `MC` modules only add symmetry; the `.cfg` files
give the constants values. Definitions preceded by "Mutant:" are variants of
the definition below them with a plausible bug; no specification uses them.

### ExportQueue

`row` is `export_jobs.json`, `file` the artifact of each job, `claim` the lock
file, `phase[p][j]` how far process `p` is with job `j`: from the claim taken in
`_submit` to the `finally` clause of `_run`. `pending[p]` are the submissions a
thread of `p` is about to attempt: `create` leaves the mutation lock before it
submits, so anything can happen in between. `cancelling` is non-empty while
`cancel` is inside the lock: its first half sets the Event and cancels the
future (whose callback releases the claim at once), its second half writes the
row. Steps that need the mutation lock carry `MutationFree`; within one such
step the code's read-modify-write is one action, since the lock excludes
everybody else. The worker's renderer and its artifact write hold no lock and
are cut into steps. `signal[p]` are the Events that are set; `built[p]` the
workers that hold a receipt of a written artifact.

`cancel_requested` is always written with the status "cancelled", so the status
stands for both. Progress, messages, timestamps, snapshots and the document's
lifecycle nonces guard nothing in the queue and are left out. Content is named
by who rendered it and in which recovery, so two executions never look alike.

Faults are explicit and bounded by `MaxFailures`: a process dies (`Crash`; the
OS drops its locks), a row write or a lock file raises (`CancelFault`,
`ClaimUnavailable`, `PoolClosedFault`, `WorkerFault`, `StartFault`). An
orderly end (`ClosePool`, `Exit`) is no fault.

`ExportLease` says what a reader of the code is told: a job is run, recovered,
completed or failed only by the owner of its lease; anybody may cancel it while
it is open; a result appears together with success; nothing leaves a terminal
status. `LeaseContract` is that specification under the mapping
`owner <- claim`, status and result from the rows.

### Autosave

A thread is the user interface or a timer's thread; `call[t]` is where it is in
`content_changed`, `flush` or `flush_all`. Each action is the code between two
points where a lock is free, in particular the five steps after a save in the
loop (`MarkSaved`, `Drain`, `CheckLatest`, `LeaveSaving`, `Judge`), which hold
no lock between them. A content is named by its generation. The adapter of
`durable.py` is `LoadVersion`, `SaveSucceeds`, `SaveConflicts`, `SaveRaises`;
`ForeignWrite` is another writer of the repository, `Track` an editor that
opens the document again. A fired timer's handle stays in `_idle`
("spent") until a flush or an edit pops it, as in the code.

### GenerationJob

A manager is one `JobManager` in a process; it has a `Job` object (`mem`) for
every record it loaded or created and saves the whole object over the record
(`rec`). `holder[j]` is who keeps the lock `generation-accept:<id>` across
steps: the worker in its publication, an acceptance, a recovery. A publication
and an acceptance hold the condition of their manager's object as well, which
`CondFree` checks in every step that needs it. `worker[j]` is where the job's
thread is. `Public` is `Job.public()`, the projection that is stored: it shows
a completion whose accounting is open as SETTLING. `hooked` and `guarded` say
whether the job has an accounting hook and whether its worker asks the request
for its authorization; both are chosen at its start.

`calls`, `settled` and `writes` count what happened outside: calls of the
accounting hook, hooks that returned, acceptances that wrote the chapter. A
save that raises happens before the file is replaced; where the code goes on
although memory and record now differ, so does the model.

An acceptance has three steps after its claim: it writes the chapter, saves
ACCEPTED, and answers (`AnswerAccept`), for which it reads the chapter back
(`jobs.py:1758`). It raises before any of them (`AcceptanceFails`): the author may
have deleted the chapter, or a read or write fails. The `except` clause then
saves ACCEPTANCE_UNCERTAIN, after the second step over ACCEPTED. (An acceptance
that continues the story answers with the chapter it wrote; the model does not
tell operations apart and lets every acceptance fail there.)

`DraftReview` is the review as an author may imagine it, without managers,
objects, threads and hooks: a run offers its draft or does not, and is over; then
one acceptance at a time claims it, writes it, reports and answers, or it is
rejected; until it has answered the acceptance may declare its own result
uncertain, and a claim that fails stays visible if that can be stored.
`ReviewContract` maps the
stored status to the draft, the lock of an acceptance to the claim, and a thread
that will not save its record again (`Late`) to a run that is over. The
abstract `Cancel` may hide any draft: that much the code allows (finding 3), and
`CancelsElsewhere` says when.

Modelled are jobs of the local author without a project binding. Bound,
branch, staged, image, OCR, graph and creative-director jobs take other paths
through the same methods and are not modelled; neither is the event stream.
An acceptance whose chapter has moved on is refused (`RefuseAccept`); which
edits move it is what `ChapterStore` is about: there the acceptance is one of
the clients. (accept compares the version outside of the chapter's own lock,
`jobs.py:1586`; the comparison that counts is the one inside of the save.)

### ChapterStore

`ledger`, `md`, `pkg` and `hist` are the four kinds of files; `op` is the
operation inside the project lock with the file it changes next, so that each
action replaces one file. `Raise` is an exception at that point, `Crash` the
end of the process. An audited operation that raises restores the files it
captured in `op.before`, in the code's order (`UndoSave`, `UndoCreate`); the
others leave what they did. `seen[c]` is what client `c` read or was answered
last. A text stands for a document and for the markdown rendered from it.
Restoring a version and renaming are saves of another text. Left out: display
order, archive flags, summaries, projects from before the ledger, and the
PostgreSQL class of the same file.

`ChapterText` is the register the callers see. `RegisterContract` maps the
files onto it: while an audited operation is inside the lock, or a copy is not
yet filled, its chapter is what it was (`Hidden`); a chapter without a package
is version 1 of its markdown; the shelf is the history below the current
version (a history file of the current version can be left by a death).

### DispatchLedger

A key is a request of one actor; the keys in `Bound` belong to a run of a
workflow or of the simulator, which claims the run durably before it reserves
(`ClaimRun`). `req[j]` is the request that prepares job `j`, with the versions
of budget and price its preview showed; `worker[j]` the job's thread around
`guard_dispatch`, the provider's call and the terminal hook; `manager[j]` what
`execution_state` says of the job; `upstream` the jobs whose call reached the
provider, which the program itself cannot know. `recon[k]` is a
reconciliation between the look at the job and the transaction. The keys in
`Builtin` may also name the builtin route, of which no invoice comes
(`NoInvoice`): a call on it is settled at zero however it ended (`Actual`).

One manager is assumed, the documented runtime: `execution_state`
(`model_broker_api.py:100-109`) asks the job manager of its own process, and the
job of another process would be absent there. GenerationJob, whose locks are
shared by processes, has two.

`Total` adds a column of the ledger up as the number of its microusd, a
cardinality: the same sum, in a form that can be proved about.
Each transaction of the scope's document is one action. Checks of routes,
sources and permissions may refuse at any step (`ReserveEnds`, `Quit`,
``StartRefused`). Only text routes: image and OCR profiles have rows and
recoveries of their own.

### ModelTransfer

`dir`, `journal`, `names` and `data` are the disk: a partial file and the model
are two names of one inode. A content is a sequence of chunks, each as reviewed
or not; a hash is the content it was taken of. `work[t][r]` is the thread of run
`r` of a task, `lease` the container's lease, `request` a start or a cleanup
between its steps, `preview` what a cleanup preview showed while it is current.
The access lock is held for one action, except by start, publication and
cleanup (`AccessFree`). The container exists, versions of rows are kept only
as the freshness of a preview, and quotas, paths and identities only as
refusals. `Spoil` changes an unfinished file from outside; `MaxFaults` bounds
it together with deaths and failing saves.

`TransferInstall` says what a reader is told: a task is open, then installed
with the reviewed content under the model's name, or discarded with no file
left.

### OfflineSync

One direction of one channel. `sender`, `outbox` and `source` are the sending
project, `receiver`, `inbox` and `chapter` the receiving one. A message is its
sequence number; whatever has an attempt in the outbox has a copy somewhere,
which may arrive at any time, again and again, or never (`Receive` is enabled,
or refused, for as long as the copy exists). `preview[m]` is what a reviewer was
shown last, `step[m]` where the call is that applies `m`: after the claim (the
first transaction), before the writer, between the two writes of a new chapter,
before the receipt, or in the `except` clause. `InTransaction` is the lock of
the receiving project's document: the transactions exclude each other, and the
writers of chapters run inside of one. The author does not take that lock
(`EditTarget`), so a chapter moves between any two steps; archiving and
restoring do not raise its version. The author deletes no chapter here:
every path of the exchange that meets a missing chapter refuses, as it does for
one that moved on (deletions as such are in ChapterStore). `Crash` drops the calls and the open
transaction, not what was written; `Raise` is any exception inside of `apply`. A
user reviews recoveries by `Adopt` and `Close`, also while the call that claimed
the message is alive: `Begin` and `MarkUnknown` look at the status again.

A merge may yield any text, and a writer may store another one than was reviewed
(`Finishes` compares). Row versions, which refuse repeated requests, and sizes,
locked passages and permissions are refusals; the other direction and other
channels have rows of their own. `merged` records which messages a writer put
into a chapter, as the chapter's history does; the program never reads it.

`ReviewedMerge` leaves channels, copies, selections and failures out: messages
are taken in order, agreed to, merged once, and reported. `ExchangeContract`
maps the rows onto it.

## 3. Runs

| Run | Instance | Shows |
|---|---|---|
| ExportQueueSafety | 2 processes, 1 job, 1 key, 2 failures | `OneExecutor`, `ReceiptMatchesArtifact`, `NothingStranded`, `TerminalForever`, the lease (`LeaseContract`), the inductive invariant |
| ExportQueueJobs | 1 process, 2 jobs, 1 key, 1 failure | `OneFreshJobPerKey` |
| ExportQueueLive | 2 processes, 1 job, 1 failure, `RestartSpec` | `EventuallySettled` |
| ExportQueueRequeue | the same under `FairSpec` | `InterruptedRequeued` fails (finding 1) |
| AutosaveSafety | 2 threads, 1 document, 2 edits, 1 fault, ticks, `FairSpec` | `SavedIsStored`, `FlushHonest`, `CloseHonest`, `SavesInOrder`, `EventuallyStored`, the inductive invariant (with `SavingIsReal` as a part) |
| AutosaveRefused | 2 threads, 1 document, no ticks, no faults | `RefusedFlushServed` fails (finding 2) |
| GenerationJobSafety | 2 managers, 1 job, 2 failing saves, `RestartSpec` | `AcceptedOnce`, `BilledOnce`, `SettledBeforeReview`, `RefusedUnpublished`, `DecisionFinal`, the review (`ReviewContract`), `InterruptedEnds`, the inductive invariant (286 thousand states) |
| GenerationJobCancel | the same, no failing save | `CancelKeepsDrafts` fails (finding 3) |
| ChapterStore | 2 clients, 2 numbers, 2 texts, 3 versions, 2 faults (1.9 million states) | `RegisterContract`, `RefusedUnchanged`, `MarkdownAgrees`, the inductive invariant |
| DispatchLedger | a claimed and a plain key, the latter also without invoices, 2 jobs, 2 bills around 1 price, 1 change of budget and of price, 1 fault, `FairSpec` (1.1 million states) | `WithinBudget`, `HoldContract`, `HoldsEnd`, the inductive invariant |
| ModelTransfer | 2 tasks of 1 source, 2 chunks, 2 runs each, 1 fault, `FairSpec` | `OneWriter`, `JournalBehindDisk`, `RemovalKnown`, `InstallContract`, `CancelWins`, `RemovedAsShown`, `EventuallySettled`, the inductive invariant |
| OfflineSync | 2 sources, 2 targets of which 1 exists, 2 messages, 1 export each, 2 places, 1 edit, 1 change, 1 fault (2.4 million states) | `ExchangeContract`, `JournalTruth` |

Why the bounds are enough. Jobs do not interact except through the keys and the
pool, so most runs have one job and as many actors as can meet at it: two
processes or managers (one that acts, one that interferes or restarts), two
threads for autosave (one in the loop, one that edits, flushes or ticks; the
theorems hold for any number).
Two failures allow a failure during the recovery from a failure. Two edits
allow an edit during a save and one after it. `MaxGen` bounds edits and
`MaxFaults`/`MaxFailures` bound faults; nothing else is bounded: recoveries are
counted by starts that need a fault or a close, versions by saves.

In ChapterStore a second client makes a version stale, a second number is a
copy's source or the chapter another client looks at, three versions allow a
save over a save with its history, and two faults a failing restoration or a
death after a refusal. In DispatchLedger two jobs can ask for one key (a replay)
or compete for the budget with two; a bill above the price is an overrun. In
ModelTransfer two tasks compete for the lease and for one source, two chunks
allow a stop between them, two runs a resume; one fault was enough for every
mutant, and the inductive invariant was also checked with two. In OfflineSync
two messages are a repetition, a reordering, a successor that supersedes or
waits for a claim, or two new chapters that compete for a place; the one edit
falls at every point of a review, a claim and a write. Its inductive invariant
is proved and was checked on the same instance; the theorems hold for every
number of messages, edits and faults. Requests, numbers, messages and jobs run
out in ChapterStore, DispatchLedger and OfflineSync, so these runs allow
termination (`CHECK_DEADLOCK FALSE`); in the other modules somebody can always
act. Symmetry is used in runs without liveness only.

### Fairness

* `ExportQueue!FairSpec`: weak fairness of entered code (a submission, a
  worker, the second half of a cancellation) and of the start and end of a
  process. Exporters are assumed to return. Requests, ageing, closing and
  failures have none. `RestartSpec` adds that the application is closed and
  opened again and that a key's 24 hours pass; `EventuallySettled` needs it
  because of finding 1.
* `Autosave!FairSpec`: weak fairness of entered code; strong fairness of
  timers: a timer brings a thread of its own, which the fixed number of
  threads of the model must not starve. Edits, flushes by the user and the close
  have none.
* `GenerationJob!RestartSpec`: weak fairness of a manager's construction,
  strong fairness of the two recovery steps, since another process may hold the
  lock now and then. Nothing is assumed of workers, providers or requests.
* `DispatchLedger!FairSpec`: weak fairness of requests and threads that run;
  providers answer or time out. Nobody owes a reconciliation, a budget or a
  start.
* `ModelTransfer!FairSpec`: weak fairness of entered code (the transport bounds
  its waits), strong fairness of the recovery that every read of the list of
  downloads performs: another task may hold the lease now and then. Users,
  close and restarts have none.
* ChapterStore has no liveness property: an operation inside the lock has no
  loop and waits for nobody. OfflineSync has none either: nothing in the
  exchange happens without a user, and a claim left by a death waits for one.

## 4. Findings

1. **A restarted process can skip a running job** (`export_job_service.py:306`).
   Recovery that meets a claim gives up; an idempotent create of the other
   process may hold it just for its recheck and leave the row as it is.
2. **A refused flush can be lost** (`autosave/coordinator.py:116`). Between the
   loop's last look at the tracker and its departure from `_saving` a flush
   leaves a request nobody reads, and has cancelled the edit's idle timer. The
   periodic tick repairs it (`EventuallyStored`); a close does not come back,
   but `on_application_close` then returns False (`CloseHonest`).
3. **cancel can overwrite a completed draft** (`jobs.py:1439`). It rechecks the
   manager's own object only. It takes two managers on one host, which accept's
   comments allow for, while
   `docs/issue14_batch2b1_generation_idempotency_report.md:82` calls a single
   process the official runtime. For every other step `DecisionFinal` holds: a
   stored decision is final, except that an acceptance may put UNCERTAIN over the
   ACCEPTED it has just saved, until it has answered.
   How far the comment is wrong is proved: only a manager that did not run the
   job can do this (`CancelsComeFromElsewhere`), and with one manager it is
   right (`OneManagerKeepsDrafts`).

## 5. Proofs

Eight modules hold theorems, checked by TLAPS for every value of the constants
allowed by the named assumptions; each invariant and each action property of
the passing runs has its theorem, and so has each refinement.

| Theorem | Property | Module |
|---|---|---|
| `Typing`, `Invariance` | `TypeOK`, `IInv` | each of the seven `*Proofs` |
| `ExclusiveExecution` | `OneExecutor` | `ExportQueueProofs` |
| `ReceiptsMatch` | `ReceiptMatchesArtifact` | `ExportQueueProofs` |
| `TerminalStays` | `TerminalForever` | `ExportQueueProofs` |
| `KeysUnique` | `OneFreshJobPerKey` | `ExportQueueProofs` |
| `NobodyStranded` | `NothingStranded` | `ExportQueueProofs` |
| `Implementation` | `LeaseContract` | `ExportQueueRefinement` |
| `SavedMeansStored` | `SavedIsStored` | `AutosaveProofs` |
| `SavingMeansSaving` | `SavingIsReal` | `AutosaveProofs` |
| `LookStaysDue` | `LookDue` | `AutosaveProofs` |
| `FlushKeepsItsWord` | `FlushHonest` | `AutosaveProofs` |
| `CloseKeepsItsWord` | `CloseHonest` | `AutosaveProofs` |
| `LatestContentWins` | `SavesInOrder` | `AutosaveProofs` |
| `DraftAcceptedOnce` | `AcceptedOnce` | `GenerationJobProofs` |
| `HookCalledOnce` | `BilledOnce` | `GenerationJobProofs` |
| `ReviewSettled` | `SettledBeforeReview` | `GenerationJobProofs` |
| `RefusalsUnpublished` | `RefusedUnpublished` | `GenerationJobProofs` |
| `DecisionsStay` | `DecisionFinal` | `GenerationJobProofs` |
| `CancelsComeFromElsewhere` | `CancelsElsewhere` | `GenerationJobProofs` |
| `OneManagerKeepsDrafts` | `CancelKeepsDrafts`, if there is one manager | `GenerationJobProofs` |
| `InterruptionsShown` | `InterruptedShown` | `GenerationJobProofs` |
| `Implementation` | `ReviewContract` | `GenerationJobProofs` |
| `Implementation` | `RegisterContract` | `ChapterStoreProofs` |
| `RefusedIsUnchanged` | `RefusedUnchanged` | `ChapterStoreProofs` |
| `MarkdownFaithful` | `MarkdownAgrees` | `ChapterStoreProofs` |
| `Implementation` | `HoldContract` | `DispatchLedgerProofs` |
| `BudgetKept` | `WithinBudget` | `DispatchLedgerProofs` |
| `HoldsStayOwned` | `HoldsOwned` | `DispatchLedgerProofs` |
| `SingleWriter` | `OneWriter` | `ModelTransferProofs` |
| `JournalTrails` | `JournalBehindDisk` | `ModelTransferProofs` |
| `RemovalsKnown` | `RemovalKnown` | `ModelTransferProofs` |
| `Implementation` | `InstallContract` | `ModelTransferProofs` |
| `CancellationWins` | `CancelWins` | `ModelTransferProofs` |
| `RemovalsShown` | `RemovedAsShown` | `ModelTransferProofs` |
| `Journal` | `JournalTruth` | `OfflineSyncProofs` |
| `Implementation` | `ExchangeContract` | `OfflineSyncProofs` |

Assumptions. `ConstantsOK`, `AutosaveOK`, `GenerationOK`, `StoreOK`, `AbsentOK`,
`LedgerOK`, `TransferOK` and `SyncOK` say that bounds, prices and bills are
natural numbers (the pool has at least one thread), and that `None`, `Torn`,
`Absent` and `Gone` are none of the values they stand beside. Nothing is assumed
of the number of processes, threads, managers, jobs, documents, clients or
tasks, not even that they are finite (only the ledger's keys are, for the sums
over its rows, and the chapters of an exchange, for its count of places;
`SyncOK` also says that the chapters selected at first have a place), and the
bounds on faults, edits and versions may have any value. One theorem has a
hypothesis of its own: `OneManagerKeepsDrafts` is about a single manager, the
runtime the documents call official (finding 3), and false for two.

All components are proved in the same way. The inductive invariant is
stated for one job, document, chapter or key at a time. A frame lemma says that
a step keeps it for everything the step does not touch; general lemmas say
under what conditions a kind of step keeps it for what it does touch; then there
is a lemma, or a step, for each action. `InvStep` collects them over `Next`,
`Invariance` and the properties follow.

### Export queue

`IInv` has five parts beside the types. Two are properties, the other three are
what makes them inductive:

* `ClaimHeld`, a phase other than idle is a held claim, gives `OneExecutor` at
  once and separates the holder from everybody else in every other part.
* `WorkerRow`, a worker between its first and last write finds its row running
  or cancelled: `Finish` could otherwise overwrite a terminal row.
* `CancelOpen`, a cancellation inside the lock finds its row open: its second
  half could otherwise turn a terminal row into a cancelled one.
* `Written`, a receipt in a worker's hands describes the file: this is
  `ReceiptMatchesArtifact` one step before the row says "succeeded". A recovery
  counts up, and it needs the claim, so nobody else writes the file meanwhile.

Steps of a holder are shown by `MoveKeeps` (it moves on), `ReleaseKeeps` (it
gives the claim back) and `RowKeeps` (it writes its row). `TerminalStays` follows
from `IInv` for each step (`VerdictStep`). `KeysUnique` has an invariant of its
own, `KeyInv`: a row that does not exist has neither key nor result.

`NobodyStranded` needs `CoverInv` beside `IInv`. As long as nothing failed, an
open row is covered by a thread that holds or is about to ask for the claim, by
the cancellation inside the lock, or by a process whose pool is closed and whose
next start will find the row. A contended claim returns silently because its
holder covers the row; a holder gives the claim back only with a terminal row or
a closed pool, for which the invariant says that a running row has its worker
(`CoverPhase`) and that an Event set in a process belongs to a cancellation that
is under way or done (`CoverSignal`).

`Implementation` shows that each step is a step of `ExportLease` or none, with
`IInv` for the owner of a claim and the status of its row, and `KeyInv` for the
result of a row that is being created. `MoveMaps` and `StutterMaps` relate row
and contract; the interesting step is `Finish`, which is a `Cancel`, a `Fail`, a
`Succeed` or, if a cancellation came first, nothing.

### Autosave

`SavedIsStored` is not inductive: between a save and its mark the indicator is
behind the repository, and between two locks a loop is behind the editor. The
invariant describes both lags. For a document: `Serialized` (one loop per member
of `_saving`), `Snapshots` (stored <= snapshot <= edited, and which of the two
are equal at which step of the loop) and `Indicator` (what the status says of
the two generations, except while a loop stands between save and mark). For a
thread: `Promise` (a flush remembers the generation it owes to its caller) and
`Closing` (what the last `flush_all` left behind is stored, and stays so since a
closed coordinator takes no edits), which makes `CloseHonest` inductive.
`LoopStep` reduces a step of a loop to a few inequalities about its own document;
`OutsideKeeps` covers everything outside of the loop. These parts are `Core`.

The second layer, `Ticks`, is what `EventuallyStored` rests on: the periodic
timer is one chain, each tick runs in a thread of its own, arms the next one as
its last step whatever its saves did, and only the close ends it. `TickStep`
shows it for every step, `LookStaysDue` is its consequence: before the close
there is always a tick armed or running, so a failed save, a refused flush and a
lost request (finding 2) are looked at again; after the close none is armed. What
remains of the liveness property is that an armed tick fires and a running one
goes on, which is the fairness assumed.

### Generation jobs

`JobInv` has seven parts: `Threads` (a thread lives in a living manager, and a
publication holds the review lock), `Hooks` (when the accounting hook has been
called), `Drafts` (a draft is offered or decided only when its thread will not
save any more), `Settlements` (what is offered is settled, in the record and in
every manager's copy), `Claims` (what the holder of the lock may rely on between
its steps, the last one with ACCEPTED saved and no answer given), `Manuscript` (when the chapter was written) and `Refusals` (a refused
job has nothing to show). The copies in the managers are part of each: a
property of the record is lost when some manager can save a stale object over
it, so the invariant says which stale objects are possible. `EarlyKeeps` covers
a thread up to its publication, `PublicationKeeps` the publication, `EndKeeps`
every way a thread ends, `ReviewKeeps` acceptance and rejection. `DecisionsStay`
follows from the invariant for each step (`DecisionStep`): what an acceptance
stores while it holds the lock it decided itself, so only its own failure
(`ConcludesKeeps`) can touch an ACCEPTED, and from `AnswerAccept` on nobody can.
This is `Core`.

Two more parts are proved over `Core`, and with it they are `IInv`. `HomeKnows`:
the manager that ran a job has no executing object of it while the draft is on
offer, decided or under review, and one that publishes without a last guard has
not cancelled. cancel() changes executing objects only, so it takes another
manager's stale object to cancel a stored draft (`CancelStep`); that is
`CancelsComeFromElsewhere`, and with one manager there is no other
(`OneManagerKeepsDrafts`). The critical steps are a publication
(`WorkerKnows`) and the refresh of an acceptance, which makes an object
executing only while the record is. `LeftToRecover`: a record that a dead thread left executing is on the list
of its manager from its start until it is stored as failed, so
`InterruptionsShown` holds: a manager that is up again has none of them.

`Implementation` maps each step to `DraftReview`. `OneJob` carries the steps of
one job over to the maps of all. A thread that is `Late` has only its end left
(`LateEnds`), and one that is not saves no status of a review (`WorkerStatus`),
so its steps are `Run` or none (`WorkerMaps`). In `ReviewMaps` a claim needs
that the run is over, which follows because a stored completion belongs to a
late thread or to one inside its publication, and the latter holds the lock
(`ReviewExcluded`). A death is `Die`: some runs are over, some claims are left.

### Chapters

`RegisterContract` needs to know, between any two files, what an operation
found and what it already changed. `SaveFinds`, `CreateFinds` and `DeleteFinds`
say this for the operation inside the lock (a save finds the document its
client saw, or the next one; the restoration finds what was captured),
`HistoryHonest` that the history holds one document per version and none newer
than the chapter, `SeenHonest` that what a client saw is the present text or an
older version, `NumbersClean` that an unused number has nothing left of a former
chapter. `Focus` reduces a step to the chapter of its operation; `StutterMaps`,
`SeeMaps`, `OpenMaps`, `WriteMaps` and `CloseMaps` say when the mapped text
stays, is seen, opened, replaced or closed. The steps that matter are
those at which `Hidden` ends: an answer shows the new text and its shelf at
once, the last step of a restoration shows the old ones, and a death or a second
exception shows whatever is on disk, which the finds-invariants prove to be
either (`StopKeeps`). `RefusedIsUnchanged` follows from the same facts at the
last step of a restoration. `MarkdownFaithful` has an invariant of its own
(`Undisturbed`): as long as nothing failed, only the chapter inside the lock may
disagree.

### Dispatch ledger

`HoldContract` relates the ledger to calls it cannot see. `Ownership` and
`CallsHeld` speak of a job (who is past its reservation owns the row of its
key; who calls has a dispatched row; who has not asked yet has none),
`RowsOwned` and `RowsConsistent` of a row (status, amounts and version agree),
`ReconSeesVersions` of a reconciliation: an orphan read at the row's present
version has no thread that could still send, because a restarted job gets no
thread and `guard_dispatch` raises the version. `JobStays`, `RowStays` and
`RowStep` are the frames, `EndKeeps` covers every way a job ends with or without a
settlement, and `SettleMoves` maps a settlement to `Free`, `Forget`, `Charge` or
a stutter.

`HoldsStayOwned` is proved beside these (`Attended`): a pending row has a thread
that will settle it or is offered for reconciliation, because every end of a
thread settles its row or marks its job settled or gone, and a job whose manager
shows it as live has a thread. It is what `HoldsEnd` rests on.

`BudgetKept` is about two sums, what is held or spent and what bills came out
above their reservations (`Excess`). As both are cardinalities (`Total`),
`TotalSplits` and `TotalChanges` say that a change of one row changes a sum by
the difference at that row, which follows from the cardinality of a union of
disjoint finite sets and needs no induction. Then only four kinds of steps
matter: an admission compares the sum and the new reservation with the limit; a
settlement or reconciliation changes a row by no more than its excess
(`RowKeepsBudget`, `BillKeepsBudget`, from what `RowsConsistent` says of a
row's amounts); a new limit is compared with the sum; everything else leaves rows
and limit alone (`LedgerSteps`).

### Model downloads

`OneWriter` makes the lease the whole of mutual exclusion: whoever has a thread
holds it, so `RunOwnsRow` (no other run, request or reader moves the row of a
thread) needs to look at one thread only. `RequestSteps` says what a start and a
cleanup left on disk when they are cut, `Layout` what each state of a row allows
on disk, and `Hashes` what a worker knows between its checks: the rolling hash
has the length of the file, what is about to be published was verified, and while
the name is linked the access lock keeps control away, so the row is VERIFYING.
`JournalBehindDisk` and `RemovalKnown` are inductive with them.

`Keeps` collects what a step must show: the invariant, the contract (`Shown`, a
task's part of it) and the two action properties. `TaskStep` reduces it to the
task of the step; `WorkKeeps` and `EndKeeps` treat workers, `TurnKeeps` a row
that turns under a worker or without one, `LaunchKeeps` the hand-over of the
lease, `CalmKeeps` what leaves the disk alone, restarts included. The steps that
matter are the row COMPLETED, which maps to `Install` because of `Hashes`, and
the row CLEANED, which maps to `Discard` because no name is left. `CancelWins`
holds because publication and journal share one access lock: every other save of
a worker keeps CANCELLING or ends it.

### Offline exchange

`IInv` has five parts beside the types: `Numbered` (messages are taken in the
order they were sent in), `NewestLive` (a message that may still be merged is
the newest taken of its chapter: receiving supersedes those that wait, and
refuses while one is claimed), `TargetsThere` (targets are chapters that exist),
`Claims` (where a call is, what it may have written, and that the chapter of an
open claim is the reviewed text or has a higher version) and `OneTransaction`.
The order of merges in `ReviewedMerge` rests on `NewestLive`, merging over the
agreed text on `Remembered`, the last of these facts: the writer compares the
version only, and archiving, which does not raise it, does not change the text
either. At most one merge rests on the place of the call in `Claims`: a message
that was adopted, closed or marked unknown is never begun again. After the types
(`SendingTyped`, `ReceivingTyped`), `SenderMoves`, `ChaptersKept`, `InboxMoves`
and `ReceiverMoves` say how rows and chapters may move in a step, and each part
follows from these moves (`NumberedKept` to `ClaimsKept`).

`Journal` proves the three parts of `JournalTruth`: `ResultHeld` from the fact
that a version is one text; `OneSourceEach` because a source is bound to a
chapter nothing is bound to, or to a new one outside of the channel's baseline,
which holds every bound one; `SlotsKept` by counting (`PlacesKept`): each step
that lets a chapter in has compared baseline and reserved places, and a receipt
turns a reserved place into a chapter. `Implementation` maps each step
(`StepMaps`): a claim to `Agree`, a writer's step to `Merge`, `Fill` and an
author's edit to `Author`, a receipt to `Report`.

### Model-checked only

`EventuallySettled` (of exports and of downloads), `EventuallyStored`,
`InterruptedEnds` and `HoldsEnd` are liveness properties under fairness, which
TLAPS 1.4.5 does not prove. For three of them the safety they rest on is proved:
`LookStaysDue`, `InterruptionsShown` and `HoldsStayOwned`; for a queue where
nothing failed, `NobodyStranded` is a fourth. The three disagreements of section
4 are counterexamples, and need no proof.

## 6. Plan

Done, in this order, because the first ones lose an author's work when they are
wrong: ExportQueue with ExportLease, Autosave, GenerationJob with DraftReview,
ChapterStore with ChapterText, DispatchLedger with CallHold, ModelTransfer with
TransferInstall, OfflineSync with ReviewedMerge, each with its proofs.

What the models contain and no property speaks of, because no document
promises anything: a directory of a download without a journal stops every later
admission (`transfers.py:270`); a deletion cut after the ledger leaves
markdown that makes the list raise (`chapter_repository.py:97`); a second
manager marks a running job FAILED (`jobs.py:446`); a download whose last save
fails after the link stays FAILED with the model in place; an acceptance that
was stored as ACCEPTED reads ACCEPTANCE_UNCERTAIN afterwards when the chapter
cannot be read back for the answer (`jobs.py:1758`), which asks the author to
look, and loses nothing.

Next:

1. MutationLock: `mutation_coordinator.py`, reentrancy and lock order of the
   nested locks; property: no deadlock between the orders the callers use.
2. GenerationJob's accounting hook as `DispatchLedger!Hook`, in one module: the
   two are composed so far by what each assumes of the other.
3. StudioImageJob and bound generation review, as variants of GenerationJob;
   image and OCR rows of the ledger.
4. Workspace members: removal of the last administrator against concurrent
   changes.
