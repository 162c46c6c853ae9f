# TLA+ specifications of musicbot-downloader

The bot takes track requests in Telegram, downloads each track once, uploads it
to Telegram once, and delivers the uploaded file to everybody who asked. All
durable state is in one SQLite database; one process runs handlers, queue
workers, delivery workers and watchdogs as asyncio tasks, and a child process
talks to the music providers. These modules specify the part of it where the
order of steps decides whether the result is right: what two tasks do between
each other's transactions, what a cancellation, a timeout or a restart leaves
behind, and what must happen in the end.

## The system and its parts

| part | state | operations | talks to |
|---|---|---|---|
| download queue | `download_jobs`: status, attempts, lease owner and expiry, cancel flag, backoff | submit, claim (with recovery of expired leases), heartbeat, hand off, retry or fail, cancel | SingleFlight, download workers |
| upload queue | `upload_jobs`: the same, and the artifact's directory and path | claim, heartbeat, succeed, retry or fail, cancel | upload workers, startup recovery |
| worker pools | asyncio tasks, `_active_jobs`, desired size, the durable setting | start, resize, retire, cancel an operation, stop with a grace period | the queues |
| SingleFlight | `download_flights` (one row per key with open work), `job_subscribers` | admit or join, withdraw, reconcile | both queues, delivery |
| queue reconciler | what it has read in this round | every second: read the settings, resize, reconcile flights | pools, SingleFlight |
| startup recovery | none of its own | leases, cached rescue, missing artifacts, flights, deliveries, albums | everything durable |
| delivery outbox | `telegram_delivery_requests` with a lease | create, choose quality, claim, prepare, send, repair, cancel | SingleFlight, file caches |
| Telegram file caches | a file per track, quality and fingerprint; a file per lifecycle record | activate, look up, invalidate | upload workers, delivery, recovery |
| confirmations and submission | offers in memory, a submission of four transactions | offer, choose, confirm, cancel | outbox, lifecycle |
| lifecycle records | request, job and delivery rows beside the outbox | admit, mirror, lease, recover, cancel | submission, delivery, batches |
| batches | a batch, its items, the message of its card | snapshot, admit, cancel, retry, reconcile | submission, lifecycle |
| albums | an album, its items with leases, the completion notice | select, expand, close, tell | outbox |
| media pipeline | artifact directories, their registry, the provider limiter | plans, attempts, validation, sweep | download workers, upload queue |
| provider execution | attempts, account health | rank, choose account, fall back, audit | pipeline, accounts |
| quality and preferences | the user's settings, the frozen profile | merge, plan, convert, validate | submission, pipeline |
| provider authorization | flows, the owner's chat, account records | start, poll, submit, expire, cancel, disconnect | child process |
| child process | one request at a time, pairings, the configuration file | call, kill, reload | authorization, pipeline |
| track catalogue | `tracks`, `track_sources` | resolve, match, create, enrich, discover | search, admission |
| search dialog | navigation state and offers per conversation | search, confirm, cancel, menu | submission |
| users, roles, audit, deep links | `users`, `runtime_settings`, `deep_link_registry`, `audit_events` | observe, promote, resize, register, revoke | handlers, internal API, queue tool |
| process supervision | the instance lock, started components, readiness | start, supervise, stop | everything |
| status cards, history, diagnostics | messages; read models | edit, list | |

`PROJECT.json` lists all of them with their files, and says for each what is
modelled and why the rest is not. What is hard in this code, listed there under
"hazards": leases that expire while their worker is alive; tasks that are
cancelled while a commit is under way; operations that are several transactions
with other tasks between them; transactions that fail after an external effect;
recovery that is itself a sequence of transactions; decisions taken on values
read earlier, or before the write lock is held; and rows whose end must reach
everybody who waits for them.

## Modules

| module | models | built on |
|---|---|---|
| `JobQueue` | both queues, both worker backends, cancellation, stop, crash, restart | |
| `SharedResult` | the promise of SingleFlight, without queues or workers | |
| `SingleFlight` | admission, joining, withdrawal, reconciliation | extends `JobQueue`, implements `SharedResult` |
| `FlightReconciler` | the unlocked reconciliation loop beside everything else | extends `SingleFlight` |
| `Outbox` | what the outbox promises a chat, without queues, leases, caches or workers | |
| `TelegramDelivery` | the outbox, its workers, preparation, the file caches, stop, crash, restart | instantiates `SharedResult`, implements `Outbox` |
| `DownloadLifecycle` | the lifecycle rows and their lease API | |
| `DownloadAdmission` | confirmation, submission, buttons of a card, the mirror at the end of a delivery | extends `DownloadLifecycle` |
| `BatchDownloads` | batches over that admission | extends `DownloadAdmission` |
| `TelegramAlbums` | album cards, the coordinator, its notices | |
| `ProviderExecution` | candidates, accounts, audit and health | |
| `MediaPipeline` | plans, limiter, directories, sweeps | |
| `MediaPolicy` | preferences, profile, plan, media | |
| `ProviderAuthorization` | flows, chat, child process, account records | |
| `AccessControl` | roles, desired workers, deep links, audit | |
| `WorkerPool` | a pool, its setting and the loop between them | |
| `ApplicationRuntime` | lock, start, supervision, stop | |
| `UxDialog` | the search dialog | |
| `TrackCatalogue` | resolution and matching of tracks | |
| `JobQueueProofs` | theorems about the queues and their files | `JobQueue` |
| `FlightProofs` | theorems about SingleFlight and its loop | `MCFlights`, `JobQueueProofs` |
| `TelegramDeliveryProofs` | theorems about the outbox | `TelegramDelivery` |
| `DownloadProofs` | theorems about lifecycle records and batches | `BatchDownloads` |
| `PathProofs` | theorems about what `MCDownloads` checks | `MCDownloads`, `DownloadProofs` |
| `AuthorizationProofs`, `AccessProofs` | the invariants of two components | `ProviderAuthorization`, `AccessControl` |
| `ServiceProofs` | theorems about what `MCServices` checks | `MCServices`, the two before |
| `MCJobQueue`, `MCSingleFlight`, `MCFlightReconciler` | symmetry sets for TLC | |
| `MCTelegramDelivery` | symmetry and the bounds of its run | |
| `MCFlights`, `MCDownloads`, `MCServices`, `MCLive` | several instances in one run, see below | |

An action is one transaction, one message to the child or to Telegram, or one
stretch of a coroutine between two awaits. A clock is never modelled: a lease, a
backoff, a cooldown or the age of a directory may be over at any moment, so every
timing is covered without a counter. What tasks carry in their local variables
across an await is part of the state, because that is where it goes stale.

### The sum modules

`MCDownloads`, `MCServices`, `MCLive` and `MCFlights` check several
configurations in one run. A variable `part` is chosen at the start and never
changed; a behaviour runs the specification of that part alone, while the
variables of all others rest at one constant value. The state space is the sum of
those of the parts, not their product, and each property says for which parts it
speaks. A component that is looked at from two sides runs in two parts with the same
constants: each part takes only the steps of the component's next-state relation that
stay on its side (`BatchSide`, `OnePlanNext`, `RegistryNext`, ...: no retry, one worker
at a time, nobody at the operator's tool). Since every part takes steps of the whole
component, an inductive invariant of the component is one of the part, and the
theorems about a sum module follow from those about its components. `MCFlights` and
`MCLive` use named instances (`Locked == INSTANCE ...`) where a part needs constants
of its own. Parts share the model values for "things that come in twos", so one
symmetry set serves all of them; `MCLive`, which checks liveness, has none. These modules compose nothing:
what really interacts is composed by EXTENDS (`BatchDownloads` over
`DownloadAdmission` over `DownloadLifecycle`; `FlightReconciler` over
`SingleFlight` over `JobQueue`) or through `SharedResult`.

### JobQueue

A row of either table is a record `[status, attempts, owner, expired, cancel,
delayed]`. `expired` stands for "`lease_expires_at` has passed" and `delayed` for
"`available_at` is in the future"; `LeaseExpires` and `BackoffElapses` change
them. Row updates are operators (`Recovered`, `Leased`, `Settled`,
`CancelRequested`, ...), one for each UPDATE of `repositories/queue.py`; the two
repositories make the same updates and share them. `up` is indexed by the download
job because `download_job_id` is unique. `disk` is the set of existing artifact
directories, named by the job and the attempt that produced them (the code uses a
fresh UUID).

* users: `Submit`, `CancelDownload`, `CancelUpload`; `Attribute` is the later
  transaction in which the delivery worker records whose job it is;
* download workers: `ClaimDownload` (recovery and claim in one BEGIN IMMEDIATE),
  `DownloadReturns`, `DownloadErrors`, `ResultInvalid`, `Handoff`, `HandoffFails`
  (refused, or rolled back), `InterruptDownload`, `SettleDownload`,
  `AbandonDownload`;
* upload workers: the same shape, with `StartUpload` (the artifact check),
  `UploadSucceeds`, `UploadRefused`, `UploadCommitFails`;
* the process: `StopDownloads`, `StopUploads`, `Exit`, `Crash`, `Restart`.
  `Restart(cached, seen)` is `recover_startup`; with `seen` smaller than `Job` it
  is a recovery that crashed after the uploads in `seen`.

A worker's phase says where its coroutine is. A task may be interrupted whenever
the code can call `operation.cancel()` on it: the job is marked cancelled, a
heartbeat no longer finds the lease, or `pool.stop` has run out of grace.
`AbandonDownload` and `AbandonUpload` are the ways a task can end without
settling its row: the settling transaction raises, a second cancel arrives, or a
cancel comes before the task's first step.

`LateCancel` says whether a cancel may also reach a task after its COMMIT has
taken effect but before the task knows (aiosqlite commits in a thread, and
`session.commit()` awaits once more to give the connection back). The cancel can
be `pool.stop`'s or that of a heartbeat that already sees the committed row. In
`Handoff` it is the alternative in which the upload exists and the task releases
its directory. The run `queues` excludes it; `handoff_cancelled` shows what it
does to the files; the runs that are not about files allow it.

### SingleFlight, FlightReconciler, SharedResult

`flight[j]` is the rowid of the job's flight or 0, `sub[j][r]` the status of the
subscriber that request `r` has on job `j`. A new flight gets any free rowid above
one that is kept, which is what SQLite does without AUTOINCREMENT. Each
transaction of the queues that can end a job also reconciles flights, so each
action is an action of `JobQueue` conjoined with `Reconcile(S)`, where `S` are the
jobs whose flights that transaction looks at (all of them for a claim, one for a
settle). A handoff reconciles nothing and the model says so.

`SharedResult` is the promise: at most one open group per key, everybody in it
told the same thing in the same step, an empty group gone, nothing taken back.
`SharesResult` checks that `SingleFlight` implements it with `Group <- Job`, the
job that has the key's flight as the current group and `sub` as the result.

All callers of `reconcile_all` hold the write lock except the loop of
`QueueManager._reconcile`. `FlightReconciler` splits that one into the SELECT of
all flights, the unlocked reads of jobs that turn out to be open, and the part from
the first UPDATE to the commit, which deletes by the rowids read at the start. The
rows it finds open are the point where it can be overtaken.

### TelegramDelivery

The requests are all for one track and quality profile and may want different
artifacts of it (`Fingerprint`). `req[r]` is a row of
`telegram_delivery_requests`: status, artifact, attempts, lease, and whether a
cached file or a job is attached. `work[w]` is what a worker's coroutine holds: its
phase and the row as it was claimed, because `process()` goes on with that copy
while others change the row. `cache` is the status of the file cache's row of each
artifact, `entry` the artifacts with a live artifact-cache entry.

What the queues do is taken from `SharedResult`, which `SingleFlight` is proved to
implement: `PrepareFlight` joins or opens a flight, `Withdraw` leaves one,
`WorkSucceeds` and `WorkFails` finish one. Only the upload worker's store in the
file cache (`HandOff`, `StoreFile`) is made visible on top of it, because the rescue
at startup and the repairs look at it.

A delivery is a chain of claims, each ended by an update of the row: the first
prepares (`PrepareFromCache` or `PrepareFlight`, then `StorePreparation`), a later
one reads the subscriber (`Resolve`), attaches the file (`Attach`), checks it
(`CheckFile`) and sends it. An artifact-cache entry is tried before any of that.
`SendSucceeds`, `AnswerLost`, `SendFails` and `FileRefused` are what Telegram may
answer. `Invalidate` and `ScheduleRepair` are the one repair of a refused file,
`EndDelivery` is `fail_terminal`, `ReadForRetry` and `WriteRetry` are the two halves of
`retry_or_fail`. `StepFails` is any exception in `process()`, `Abandon` one inside its
except clauses, after which only the lease brings the row back.

`SplitRetry` says whether other steps may come between the halves of
`retry_or_fail`. They may in the code (finding 4); `delivery` and the delivery part
of `live` exclude it so that they show everything else. `copies` and `doubt` are
history: how many files a chat got, and whether a send of it may have gone
unrecorded (a lost answer, a failing record, a stop or crash during a send, a lease
that ran out under a working task).

`Outbox` has only those two and, for each request, what an observer of its row is told:
nothing yet, open, or how it ended (`Outcome`). There a request opens once, ends once
and truly, and a file goes out while its request is open and has none; the exceptions
are requests in doubt (`Lose`). `KeepsPromise` says that every step of the outbox is one
of these or none of them. Together with `SharedResult` this is a chain of two promises:
the queues keep the first under the lock, and from it the outbox gets what it needs to
keep the second.

Taken together in one action: the look for an entry with the claim, `attach_ready_cache`
with the re-read that follows, `delivered` with the artifact-cache entry it records,
a refused entry with its invalidation. Left out: the order of claims, start notices,
edits of status cards, invalidation from the command line, and requests without a
lifecycle record, which have no artifact-cache entry. The choice of a quality before
the queue and the lifecycle rows written in `finally` are in `DownloadAdmission`.

### DownloadLifecycle, DownloadAdmission, BatchDownloads

`life[c]` are the three lifecycle rows of confirmation `c`, which `admit()` inserts
together. `Reconciled` is `reconcile_telegram`, with its refusal to move an ended
job; `LifeWork` is the lease API, which only tests call (`LeaseWorker` is empty in
every other part). `LifeSucceed` keeps the delivery row it has updated although the
fence of the job did not match: that is what the code commits.

A submission is a handler task (`sub[s]`) with a step for each of its transactions:
`ResolveTrack`, `RequestTrack`, then `StartDefaultQuality` or the two updates of a
requested quality, then `AdmitRecord`. The buttons of the card (`Press`), a second
submission of the same confirmation and the delivery workers run between them. A
delivery worker (`courier[w]`) takes a request, commits an outcome, reads the status
back and reports what it read; a restart may come before any of these. An update of
a request is guarded by the status it was read with (`Moves`), as in the repository.

`BatchDownloads` adds the batch, its items and `batchLoop[s]`, the `admit_pending`
call of a handler. A batch child is submitted by the same `Submit` steps. Cancelling
is the request, one transaction for each child and a reconciliation (`CancelBatch`,
`CancelChild`, `ReconcileCancelled`); a restart reconciles each open batch before
any handler runs (`BootReconcile`), and may resume it under another message.

### TelegramAlbums

`row[i]` is an album item with its lease, `child[i]` the state of the delivery
request made for it, which is followed from outside (`ChildEnds`). `CloseAlbums`
computes the outcome, `teller` is what the notifying call has listed and sent but
not recorded: a crash there sends the completion message again. `ExpiredItem` is the
recovery of a lease, whose attempt counts.

### ProviderExecution, MediaPipeline, MediaPolicy

`ProviderExecution` is a job over the ranked candidates and the accounts of their
providers. `StartAttempt`, `Pipeline`, `FinishAttempt` and `UpdateHealth` are
separate transactions, so jobs that share an account interleave. `Rankings` is a set
of rankings the ranker may return. `latest` grows with the lifecycle records that
are made for the track meanwhile. `Abort` is a cancellation or the death of the
process, after which the row of the attempt stays STARTED; `AuditIsComplete` speaks
of the executions that were not interrupted. An error while accounts are listed fails
the job for good.

`MediaPipeline` follows a worker through its plans: waiting for the limiter,
the call, its clean-up, validation, hand-off or release, and a cancellation at every
await. The sweep (`sweep[s]`) reads the registry and the open uploads, classifies
directory by directory and removes those that are stale by then; `old` is the age of
a directory, which any write resets.

`MediaPolicy` is data rather than control: a medium is codec, container and rate,
`Offers` and `Actual` say what providers claim and send. The preferences card is
read in one transaction and written in another. What a download is made with comes
from three places: the quality from its job, the profile from the latest request for
the track (`RequestedAgain`: of another user, for another provider), and the source
from whichever candidate of any provider is run (`Plan` over `Ranked`). Only a profile
frozen as lossless is kept to providers that have lossless (`Supports`). Rates are
compared with rounding, as in `media.py`.

### ProviderAuthorization

`flow[f]` is a flow's task and result, `onthespot[f]` the child's side of it, `saved`
and `accounts` the child's configuration file and the account pool it has loaded.
The child serves one request at a time (`ipc`): `Begin(c)` sends one, `AnswerCall`
delivers a reply chosen from what the child's operation can do, `Break` is a timeout,
a broken pipe or the cancellation of the caller, after which the child is killed and
its call may or may not have taken effect. The coordinator's lock is held over the
start of a flow only. `cancelOp` and `reset` are a cancellation and a disconnect
under way. `chat` and `msg` are what the owner's chat is waiting for and what has
been typed. One cancellation per provider runs at a time; `MaxResets` bounds
disconnects. The shutdown has three steps, as in the code: `Close` takes a snapshot of
the flows and asks for the cancellation of the device flows, `CloseSecrets` ends the
open secret flows once their tasks are done, `AllClosed` is the end; a device flow whose
call returns between the first two still ends in its own way.

### AccessControl, WorkerPool, ApplicationRuntime

`AccessControl` reads in one step and writes in another because SQLite begins a
transaction at its first write: a role, a count or an idempotency key may have
changed in between, and the audit row must still say what happened. A permission is
checked before the settings lock is waited for, as in the code.

`WorkerPool` has a slot for each worker task with its phase, the cancel and the
retirement that have been asked of it, `activeJobs` (keyed by job as in the code),
and `loop`, the setting the reconciler has read and not applied yet. A stale read
can undo a resize for one round. A second cancel hits the worker itself: it dies and
its job stays RUNNING until the lease expires (`LeftBehind`).

`ApplicationRuntime` is a process from the lock to its exit, one step per component
started or stopped, with failures, deaths of supervised tasks, signals, kills, and
the offline tools that take the same lock.

### UxDialog, TrackCatalogue

`UxDialog` has the table of transitions, the offers of a conversation and `update`,
the searches and confirmations that are being awaited while the user presses
something else. More and the choice of an alternative (`BrowseOffer`) draw the card of
an offer again and ask nothing of the state. A transition that the table does not list raises and leaves the
state alone.

`TrackCatalogue` splits each `transaction()` into its reads and its writes. `copy` is
the ORM row a task has read: `Fill` writes from that stale copy. `Compatible` is the
deterministic matcher over titles, ISRC, duration and the explicit flag; two
concurrent resolutions may create two tracks for one recording, and the properties
do not deny it.

## Runs

| run | question | instance | result |
|---|---|---|---|
| `queues` | rows, attempts and files through claims, retries, leases, cancels, two stops | 2 jobs, 2+1 workers, 2 attempts, 2 stops | passes, 784 000 states |
| `flights` | sharing, withdrawal and the refinement of `SharedResult` under the lock; what survives the unlocked loop | 2 jobs, 1 key, 2 requests, 1+1 workers, 1 stop, late cancels | passes, 414 000 states |
| `flights_live` | does every admitted job end, is every waiter told? | 1 job, 2+2 workers, 2 attempts each, 2 requests, 1 stop, late cancels | passes, 90 000 states |
| `delivery` | claims, outcome, READY, finality and the refinement of `Outbox` | 2 requests, 2 workers, 2 artifacts with a job each, 2 attempts, 2 stops, see Bounds | passes, 1 734 000 states |
| `downloads` | records, batches, albums, execution, pipeline and media | eleven parts, below | passes, 1 148 000 states |
| `services` | accounts, roles, links, pool, process, dialog, catalogue | nine parts, below | passes, 738 000 states |
| `live` | what must happen in the end | seven parts, below | passes, 44 000 states |
| `handoff_cancelled` | `OpenUploadHasArtifact` with late cancels | 1 job | violated: see Findings |
| `user_limit` | `PerUserLimit` | 2 jobs, 1 user, limit 1 | violated: see Findings |
| `reconciler_rowid` | `WaiterHasFlight` with the unlocked loop | 2 jobs, 1 key, 2 requests | violated: see Findings |
| `delivery_race` | `SettledIsFinal` with the halves of `retry_or_fail` apart | 1 request, 2 workers | violated: see Findings |
| `startup_rescue` | `ReadyWasStored` with two artifacts | 2 requests, 2 artifacts, 1 worker, 1 stop | violated: see Findings |

The parts of the sum runs:

* `flights`: `locked` (every caller inside the write lock) and `loop` (the
  reconciliation loop beside them, one download attempt).
* `downloads`: `batches` (a batch of two items and the batch that retries one of
  them, a handler, a delivery worker, requests claimed once), `restarted` (the batch
  without a retry, a restart), `single` (one dialog, two handlers, two delivery workers,
  two tracks, two claims), `leases` (two lifecycle jobs with two workers, two attempts),
  `albums` (an album of two tracks beside one of one, two attempts, a restart),
  `accounts` (two jobs that share two accounts), `fallback` (two jobs, one account, then
  a provider without accounts), `pipeline` (two workers, one permit, two directories),
  `crashing` (one worker at a time, two plans, a crash), `media` (two presses at once)
  and `options` (all options, one press at a time).
* `services`: `links` (two providers, a pairing and a session, a broken call, a
  disconnect), `closing` (a device flow and a secret, a shutdown), `roles` (two
  persons, two handlers, a restart with another owner), `operated` (a handler and two
  runs of the queue tool), `registry` (two registrations under one key), `pool`
  (three slots for a maximum of two, two jobs, three changes), `runtime` (two processes),
  `dialog` (two conversations,
  two awaited updates, two offers), `catalogue` (two resolutions over two sources).
* `live`: `delivery` (1 request, 2 workers, 2 attempts, 1 stop), `devices`, `broken`
  and `secrets` (authorizations with a shutdown), `albums`, `pipeline` and `pool`.

Bounds. `Job` bounds how often anything is admitted; two jobs are enough for one job
to be overtaken by another, for a second flight of the same key and for a reused
rowid. Two workers are what a stale claim needs: one that still works on a job and
one that claimed it after it; `flights_live` has two in each pool for that reason and
one job, since every job settles by itself. Two attempts give a first attempt, a
retry and exhaustion. `MaxStops`, `MaxRestarts`, `MaxAlbumRestarts`, `MaxCrashes`
and `MaxReboots` bound stops and crashes; where recovery is several transactions
(`queues`) two allow a crash during the recovery from a crash. Two submissions, two
presses, two resolutions, two registrations are what a race needs, and in the outbox
two requests are what a shared flight and a file invalidated by somebody else need.
More bounds keep `delivery` small, in `MCDeliveryNext`. An artifact has one job. Where all
requests are for one artifact, at most one of them comes in doubt, and where the process
stops there is only one of them: one in doubt beside one that is not is what it takes
for the first to do harm to the second. Where they are for two artifacts
(`TwoArtifacts`), one worker is busy at a time, there is one stop, no lease expires under
a task, nothing comes in doubt, a request is claimed twice at most and the artifact cache
is empty; this part is there for `ReadyWasStoredOrRescued`, whose rescue needs no more
than an open upload, a file of another artifact and a restart. The theorems have none of
these bounds.
Three slots for a maximum of two let a retired worker still work while its
replacement exists. `MaxChanges` of three lets the setting go up, down and up again
under one reading of the loop. `MaxFaults` and `MaxResets` of one let a call break
before, in and after the flow it belongs to; `MaxAudits` only stops the histories
from growing. `copies` counts to "more than one". With `User = {}` the per-user rule
is vacuous: `queues` leaves it out because it only delays claims, and `user_limit`
brings it in.

Deadlock is checked where the program cannot rest (`flights`, `flights_live`,
`queues`); the other systems may come to a rightful end: every request delivered,
every process out, every bound used up.

What the properties say. `AttemptFence`: the lease checks compare only the owner,
and this is enough because a row that names a worker always is on the attempt that
worker executes. `OpenUploadHasArtifact`: an upload that may still run has its
file. `CancelIsFinal` and `TerminalIsFinal`: a recorded cancellation or outcome is
not undone by a worker that does not know of it yet. `FlightsAreKept` and
`WorkIsShared`: flights, waiters and work always correspond, so nobody waits for a
job nobody runs, nothing is queued for nobody, and a key has one job. `ToldIsFinal`
and `ReadyIsUploaded`, which the unlocked loop must respect too: a result is never
replaced, and READY means uploaded. `OutcomeIsTrue` relates a delivery row to what
its chat got and says which accidents it takes to send a file twice (TLC does reach
such states): `docs/production.md` line 296 promises no more than that. `KeepsPromise`
has the same step by step, and with it when a file may go out. `ClaimsAreJustified`: no
row is claimed for a result before somebody was told, and none is claimed for ever; it
has the real limit on claims, which is above the configured one because preparations
and the repair use attempts without being checked against it. `ReadyWasStoredOrRescued`:
who was told READY finds the file of his artifact in the cache, unless the process
has stopped while the upload was open and the cache had a file of another artifact; that
exception is the fifth finding, which `startup_rescue` shows with the plain
`ReadyWasStored`, and there is no other way to be told READY of nothing.

`RecordsAreTrue`: a lifecycle record claims no end that its delivery request did not
have, in whatever order its observers report. `EndsAreFinal`: nothing is started
twice or ends twice. `ClosedIsOver`: a batch or an album that was closed has
nothing under way, and was closed with the outcome its tracks had.
`ExecutionIsAudited` and `CooldownsAreKept`: every attempt is closed as it ended, no
account answers twice for a candidate, and a rate-limited account rests.
`PipelineIsSafe`: counts of the limiter are those of its callers after any
cancellation, and no sweep takes a directory somebody needs. `MediaIsHonest`: of a file that passed, whichever profile was run on whichever
candidate: it comes from a lossless recording or is what the provider sent, at the rate
asked for, and a lossless request got a lossless recording.

`LinksAreTrue`: one authorization per provider, no pairing that nobody follows,
and DISCONNECTED means that no older account is in the configuration file, although
the child may be killed in the middle of any call. `FlowIsFinal`: a reported
cancellation links nothing afterwards. `ChangesAreAudited`: the audit rows of a
subject are its history, whatever was read between two others' writes.
`RegistrationIsTrue`: registrations that race under one key answer with one link.
`PoolIsBounded`, `RuntimeIsSafe`, `DialogIsSound` and `CatalogueIsSound` say the same
kind of thing of their parts; the comments in the modules have the details.

Each property of a passing run has a mutant in `PROJECT.json`: a changed definition
of the model with which TLC finds it violated.

Fairness. Idle workers poll every second and every await in `process()` is bounded by
a timeout, so a worker's own step (claim, or the continuation of its task) is weakly
fair; a task can always continue, so weak fairness is enough. Backoffs and leases
end with the clock; a lease is only required to end when no live task works on its
job, since otherwise heartbeats renew it. `Restart`, in the variant that completes,
and the two steps of a shutdown are weakly fair: the container is restarted by its
supervisor. Delivery workers poll and bound every await the same way; flights are
assumed to end there because `WaiterIsTold` shows that they do.

Authorization tasks, the child's answers, or the timeout that takes their place, are
one weakly fair `AuthProgress`; the deadline of a flow is strongly fair because it is
only looked at between two polls. The album coordinator runs every second (weak); the
completion message needs strong fairness, which says that Telegram does not refuse
it for ever. The sweep is periodic (weak); its removal is strong because a directory
may be written to between its classification and its removal, and because removal may
fail. Every task of a pool and every step of its loop is weakly fair. Users, buttons,
cancellations, interruptions, stops, crashes, failing commits and broken calls are
never assumed to happen, nor to stop happening short of their bounds.

## Proofs

`JobQueueProofs` proves, for any sets of jobs, workers and users, any positive
limits and any `MaxStops`, with or without late cancels, that `Spec` implies
`[]TypeOK`, `[]AttemptFence`, `[]AttemptsBounded`, `CancelIsFinal` and
`TerminalIsFinal`. The assumptions are those of `JobQueue`: jobs are positive
numbers, `NoWorker` is no worker, the limits are positive.

The invariant is `IInv`. None of the properties is inductive alone:

* `AttemptsBounded` needs that a queued row has an attempt left (`Sound`);
* `CancelIsFinal` needs that a row with the flag is running or cancelled, hence
  never queued and never claimed; `TerminalIsFinal` needs that only queued rows
  have a backoff;
* both need, for uploads, that a handoff finds no upload row
  (`UploadAfterDownload`): otherwise the new row would replace an old one;
* `AttemptFence` needs that a busy worker's job exists (`WorkOK`).

The proof is done on rows first. `Good(r, s)` says that an update keeps a row
sound, only lets it evolve as the properties demand and hands out no lease; one
lemma per row operator shows that it is Good. Tables follow, then `Preserve`: Good
updates that leave busy workers on their attempts preserve everything. Each action
is then one step; only `Submit`, the two claims and the handoff, which create rows
or hand out leases, need an argument of their own.

`JobQueueProofs` also proves `ArtifactKept`: without late cancels, `Spec`
implies `[]OpenUploadHasArtifact`. Tasks release directories they name by job and
attempt, so the argument is that attempts are never reused. `AInv` adds to `IInv`
that the attempt of a busy worker has been counted (`AttemptCounted`), that two
tasks on one job are on different attempts (`AttemptsDiffer`), that no task is on
the attempt whose result became the artifact (`ArtifactHandedOver`), and that a
result not yet handed off is on disk (`ProducedOnDisk`). It is inductive only when
`LateCancel` is FALSE: the late alternative of `Handoff` breaks `ArtifactHandedOver`,
which is the first finding below. Two facts about rows carry it: attempts never
decrease (`Evolves`), and a row that does not exist yet has none (`Sound`).

`FlightProofs` proves what the run `flights` checks, for any number of jobs, workers,
keys and requests. Every step of SingleFlight is a step of the queues, so `IInv` comes
from `JobQueueProofs`. It is moreover of one of five kinds, whatever transaction it
is: it reconciles every job it changed (`Reconciles`), leaves open what is open
(`Quiet`), joins a flight, opens one, or withdraws a subscriber; the lemmas are about
the kinds, not about the thirty actions. Two invariants are carried through them:

* `LoopInv` (`LoopInductive`): types, no subscriber on a job that was never admitted,
  and READY only of uploaded work. It survives the unlocked loop with any stale list,
  because whatever the loop writes it writes from a job it reads inside its
  transaction. `FlightsTyped`, `ReadyIsTrue` and `ToldOnce` follow from it.
* `LockedInv` (`LockedInductive`), only when every caller holds the lock: flights have
  the key of their job, one per key (`OneFlightPerKey`), a waiter has one
  (`WaiterHasFlight`), an open one has live work (`OpenFlightIsLive`) and wanted work
  a waiter (`WantedHasWaiter`). None of them is inductive without the others: a
  joiner needs the flight's work to be alive, a withdrawal that it was the key's only
  flight. With the loop the second of them breaks, which is finding 3.

`NobodyWaitsInVain`, `NoWorkForNobody` and `ImplementsSharedResult` state it for
`FlightsSpec`. For the refinement each kind of step maps to a step of `SharedResult`:
a reconciliation to `Finish` for the keys whose jobs ended, a join to `Join`, an opening
to `Open`, a withdrawal to `Leave`, everything else to a stutter; `CurrentOK` says that
the group shown to the abstract specification is the one the key's flight names.

`TelegramDeliveryProofs` proves, for any sets of requests, workers, artifacts and jobs
and any limits, `[]DeliveryTypeOK`, and `SettledIsFinal` when `SplitRetry` is FALSE. It
assumes what `TelegramDelivery` does: job ids are positive, the markers are outside
their sets, there are finitely many workers. `DInv` adds to the types that a busy
worker has a request that was asked for (`TaskHasRequest`), that such a request wants
an artifact (`WantsArtifact`), and that a worker about to write a retry still holds
the row (`RewriteFenced`). The last one carries the finality: every other update has
the fence in its WHERE clause, this one only has the read before it. It is
inductive only while nothing comes between the two, which is finding 4.

It goes on from these types with more invariants, one for each question:

* `StoryInv` (`StoryInductive`) is about what chats got. While a request is not in
  doubt, every worker that has it holds its lease, hence only one has it (`Held`), and
  the chat has one copy if the row says DELIVERED or that worker is past its send, none
  otherwise (`Counted`). `OutcomeIsTrue` follows. Whatever puts
  a second worker on a row, or loses an answer or a record, puts the request in doubt,
  so this holds even when `retry_or_fail` loses its race: the race needs an expired
  lease.
* `ToldInv` gives `ClaimedIsTold`: a row that no longer waits, and a task that looks
  for a result, lead to a subscriber that was told. It needs the one promise of
  SharedResult that a result stays a result (`ResultsStay`).
* `ClaimInv` gives `ClaimsBounded`: attempts are at most the limit, plus two for a
  repair that was scheduled and one for a preparation that is stored (`Affordable`). A
  preparation must find a row without one, so it says what a task may assume of the
  row while it owns it (`TaskFits`).

These two assume `~SplitRetry`: an update without a fence may requeue a request
that waits, or one that has no claim left, which is again finding 4. Together they are
`ClaimsAreJustified`.

* `FileInv` gives `ReadyFilesStored`, the theorem about `ReadyWasStoredOrRescued`, for any
  number of artifacts and without an assumption. A flight's job works for the flight's
  artifact, a job past its store has left a row in the file cache, rows of that cache
  are never removed, and stops are counted. Every step but one goes by the artifact
  of the job, so it tells READY of a stored file. The rescue at startup goes by track
  and quality: what it tells is `Explained` by the open upload and the other artifact,
  and a job that was rescued or told stays explained (`StaysExplained`), because it
  never returns to an earlier stage.

Two refinements close the section. `FlightsAreShared`: what the outbox does to flights
is `SharedResult`, whatever the caches and the rescue do, so it asks of the queues no
more than they were proved to give. `ImplementsOutbox`: when `SplitRetry` is FALSE, the
outbox implements `Outbox`. Most steps leave `copies` and `doubt` alone; what they end
they end truly because `OutcomeIsTrue` holds after them and the history is as before
(`EndsImplemented`). A successful send is `Send` by `StoryInv`: out of doubt, its worker
is the only one of the request and the chat has nothing yet. A lost answer, a lease that
runs out, a crash and a stop during a send are `Lose`, for one request or for those of
all workers at once, each still open or in doubt before. An ended request stays ended by
the theorem about `SettledIsFinal`, which is where the assumption is needed: the
unfenced update of finding 4 would reopen one.

`DownloadProofs` is about lifecycle records, for any sets of confirmations, messages,
tracks, handlers and workers. Of the tables alone (`LifeSpec`): rows stay well
formed, leased only while they run and successful only with a delivery
(`TablesSound`), and no late worker undoes an end (`TablesFinal`); the strengthening
is that a job that may be claimed has an attempt left (`AttemptLeft`). Of a track's
way through them (`AdmissionSpec`): `RecordsTrue`, a record claims no end its request
did not have, and `EndsFinal`, nothing starts or ends twice. `RecordIsTrue` needs
`ReportIsTrue`: an end that a delivery worker carries from its reading of the request
to its report is the end of the request, because an end is never left
(`RequestsEvolve`).

Of the batches over those tracks (`BatchSpec`), for any number of batches of any length:
`BatchesClose`. The invariant `BatchSafe` says what a batch may rely on between its many
transactions:

* a batch that exists has its items, and a link leads to a record that exists
  (`SnapshotsSound`); the confirmation of an item is made of its batch and its
  position, so no step touches the items of two batches (`BatchAssumption`);
* a loop of `admit_pending` has items of one batch, which has not finished
  (`LoopSound`), and the Cancel handler works for a batch that was told to stop;
* startup reconciles batches that are open, each once (`BootSound`).

The closing itself is an argument about ends. A finished batch has no loop, so nothing of it is
admitted any more; what its records ended with is final (`KeepsEnds`, the theorem about
single tracks); so the set of ends the outcome was computed from does not change. Only
a cancelled batch may be closed while a handler is still in it, and only startup
reconciliation finishes one that was not cancelled. This is where the code is thinner
than its document (`ChildrenEndWithTheirBatch` below): a cancelled batch is over in the
sense of `ClosedBatchIsOver`, which does not speak of children admitted late.

`PathProofs` proves every property of the run `downloads` of `PathSpec`. `PathInv` has for
each part the invariant of its component, `PathSteps` says that a part takes steps of its
component; what remains are five invariants, of which `BatchSafe` is the first:

* `MediaInv`: what is known of a download at each step. A lossless request has a
  lossless plan, a lossless plan a lossless source, and what a lossy source was
  made into is either that source untouched, at a rate near the one planned, or a FLAC,
  which the specification of a lossy quality refuses (`SourceIsKept`);
  nothing is assumed of the profile, which may be anybody's. A press that is being
  written carries settings that were valid when they were read (`PressesTyped`).
* `ExecInv`: the rows of the audit against where the job is. Every row before the
  present attempt is closed as failed (`RowsTold`), no two rows have the same candidate
  and account (`RowsApart`), because an account is marked as tried before its row is
  written and the candidates are gone through once.
* `PipeInv`: a worker's step against what it holds. A directory belongs to at most one
  worker or to the uploads (`WorkSound`, `DirsSound`); what a sweep is about to remove
  belongs to nobody, and a directory handed over since the sweep has read the uploads is
  younger than its clock (`SweepsSound`). This last part is why the sweep may read the
  uploads before it looks at the directories. `LimiterIsTrue` is a count over workers, so
  its lemmas say how the number of callers and waiters changes when one worker moves.
* `AlbumInv`: an item has its request exactly when it is attached, has a try left while
  it waits, is untouched before its album is queued (`ItemsSound`), and the task that
  processes it holds its lease (`TaskFenced`). The last holds only of one coordinator
  task, which is what the manager starts (`workers: int = 1`,
  `app/services/telegram_album_coordinator.py` line 233): `AlbumAssumption` says so. With two,
  a worker that has lost its lease attaches a request to an item that has meanwhile
  failed, and the item is counted twice.

`AuthorizationProofs`, `AccessProofs` and `ServiceProofs` do the same for `ServicesSpec` and
the run `services`, for any number of providers, flows, messages, persons, handlers,
slots, jobs, processes, conversations, sources and tracks:

* `AuthInv`: the coordinator knows every live flow but the one being started, which is
  alone (`FlowIsTracked`, `StartIsAlone`); what the child polls is followed by a task
  (`PendingIsFollowed`); a cancellation has told the child before it stops the task and
  stopped it before it is recorded (`CancelIsOrdered`); flows older than a disconnect
  have ended when the child is told to forget (`ResetIsOrdered`). The call that is
  under way has a caller that still wants it (`CallIsWanted`), because a caller that is
  cancelled kills the child. `LinksTrue` and `FlowsFinal` follow.
* `AccessInv`: the audit rows of a subject are a chain that ends in the row's value, and
  what a handler has read either still stands or its write is refused. Of the desired
  workers this needs `WorkersInv`, that whoever is between read and write of the setting
  is there alone, which the lock gives to the bot's handlers and not to the operator's
  tool. `ChangesAudited` and `RegistrationTrue` follow.
* `PoolInv`: a task that serves a job and the registered operation name each other
  (`WorkIsRegistered`), and each phase of the manager excludes what it has stopped
  (`PhasesHold`). `RuntimeInv`: what is up after so many steps of the start and what is left
  after so many of the stop. `DialogInv`: an awaited update knows its own conversation
  and its own offers, and a conversation in SEARCHING has an awaited search. `CatalogueInv`: what a resolver relies on between its transactions
  is there (`Relies`).

Every invariant and every action property of a passing run is stated by a theorem. Only
model-checked: liveness, which is outside what the prover does. What a definition
computes over data (a ranking, a fold over rows) is proved only as far as its type and
the cases the invariants need.

## Findings

1. `handoff_cancelled`: `process()` releases the artifact when it is cancelled,
   also when the handoff it was awaiting has committed. The upload job then names a
   directory that is gone and can only fail. `docs/stage7-queues.md` line 43 promises that
   no retryable job points at a deleted artifact.
2. `user_limit`: the limit per user counts running jobs whose delivery row names
   the subscriber, but that name is stored in a transaction after the admission
   that wakes the workers. `docs/production.md` line 116 states the limit without exception.
3. `reconciler_rowid`: the unlocked reconciliation deletes a flight by rowid after
   another transaction has removed that flight and SQLite has given its rowid to a
   new one. `docs/stage7-queues.md` line 97 says a flight lives until its upload is
   terminal.
4. `delivery_race`: `retry_or_fail` of the outbox reads the row and later updates it by
   primary key, without the lease fence of the other updates and without the write
   lock. A worker that has outlived its lease can turn a delivered request back to
   QUEUED, to be sent again. `repositories/telegram_delivery.py` line 1 calls its
   operations atomic.
5. `startup_rescue`: startup recovery looks for a cached file without the artifact
   fingerprint, so an upload whose file was never stored is declared successful
   because another artifact of the track is cached; the requests that were told
   READY then fail. `docs/production.md` lines 160 and 292 speak of an exact row.

### Stated, not run

The modules also state what documents say of these components where the code does
something else. TLC finds each of them violated when it is added to the run named
here, for the parts of the run that the component runs in. The five above have runs because it takes a race or a crash to see them; most
of these can be seen in the code once one knows where to look, the first of them in
every batch of two tracks.

* `ChildHasItsRequest` (`BatchDownloads`; `downloads`, with two titles): the children of
  a batch are all submitted for the message whose button was pressed, and a delivery
  request is looked up by chat and message, so the second child finds the first
  one's row. It is refused, and its item fails, while the first is under way;
  otherwise its record follows a request that names another track.
  `docs/stage23-batch-downloads.md` line 11 has a request for each item.
* `ChildrenEndWithTheirBatch` (`BatchDownloads`; `downloads`): a child that is being submitted when its batch is
  cancelled is skipped by the reconciliation and admitted afterwards by its handler,
  under a batch that is CANCELLED (lines 31 to 33 of the same document).
* `RecordNamesItsTrack` (`DownloadAdmission`; `downloads`, part `single`): a second confirmation on the same
  message, with another alternative selected, gets a record that names its own
  track over the first one's request.
* `ShutdownStopsAll` (`ApplicationRuntime`; `services`): every shutdown cancels the
  task that waits for the clean-up task and, there being no shield in
  `wait_terminated`, the clean-up task with it. `ArtifactCleanupManager.stop` then
  raises `CancelledError`, which `Stage9Components.stop` does not catch: pools, outbox,
  child, Telegram and engine are not stopped in order (`docs/production.md` line 173).
  Nothing is lost that recovery does not bring back.
* `StartShowsMenu` (`UxDialog`; `services`): from a state whose row of `_TRANSITIONS`
  lacks MENU, `/start` answers with an error although nothing is going on
  (`docs/stage14-telegram-ux.md`).
* `WorkerAuditIsHistory` with the queue tool (`AccessControl`; `services`, part
  `operated`): tool and bot are two processes without a common lock around read and
  write, so two audit rows may start from the same value (`docs/production.md` line 262).
* `AcceptedFormatIsDelivered` (`MediaPolicy`; `downloads`): a file that was converted
  to the format asked for may still be rejected by the second validation
  (`docs/stage22-download-preferences.md` lines 18 to 20).
* `AuthFailedStays` (`ProviderExecution`; `downloads`): a job that had chosen an account before another
  one failed to authenticate on it records its own result over AUTH_FAILED
  (`docs/stage25-provider-resolution.md` lines 22 to 28).
* `ClosedAlbumIsOver` holds with the one coordinator task the manager starts; with two
  it does not: a request is attached by a worker whose lease has gone to the other.

## Not modelled

Status cards and presentation (they edit messages after the rows they show);
download history, activity and diagnostics (read models); scoring of text queries and
the mapping of search results (pure functions over strings); the pair of Spotify
credentials beside its pairing and the health probes of accounts; the provider code
inside the child process (third-party code behind one call); tags, covers, sample
rates and the duration check; the kind, file name and caption of an upload; keyboards and wording; rate limiting of the internal
API and request parsing; backups and the listing commands of the tools, which are
SQLite's own facilities; cache pruning and invalidation from the command line;
the minimum interval between provider calls. Two hazards have no property, for the
reasons given with them in `PROJECT.json`.

Choices inside the models that a reader should know: `ProviderAuthorization` omits
the pre-check ALREADY_READY (more flows than the code can start) and leaves to chance
whether a loaded account makes the child refuse a pairing, which it does for an active
premium one; it omits the coordinator's memory of completed flows, so it says nothing of
a cancellation that overwrites a READY there while its flow is being released; a lifecycle record that is admitted after its request has gone to
QUEUED is not corrected before the request's next report; an outbox recovery that
ends a request as FAILED reports nothing to the lifecycle, so its record stays open;
`NewRecord` and `Rankings` of `ProviderExecution` are nondeterministic.

## Plan

1. Done: the queues, SingleFlight and its loop, the outbox, lifecycle records and
   batches, model-checked and proved.
2. Done: albums, execution, pipeline, media policy, authorization, access control,
   pool, runtime, dialog and catalogue, model-checked and proved.
3. Done: the outbox refines `Outbox`, and every safety property of a run is proved.
4. Next: how `ClosedAlbumIsOver` degrades when a second coordinator task is allowed, as
   an invariant that holds for any number of them; the same question for an expired
   item lease.
5. Left: the Spotify pair, status cards as an observer of the outbox, and
   `DownloadAdmission` over `Outbox` instead of an abstraction of its own.
