# TLA+ models of the ST Production House

Specifications of this repository (a multi-agent media production house: Node.js
over PostgreSQL), checked with TLC on small instances and, for the properties that
matter most, proved with TLAPS for every instance.

    tlc -workers 2 -config JobLifecycle.cfg MCJobLifecycle     # model-check
    tlapm JobLifecycleProofs.tla                               # check proofs

`PROJECT.json` is the machine-readable index: components, runs, the source lines
each definition stands for, a mutant for each checked property (a plausible bug
that TLC must find), the disagreements found, the hazards and the theorems.

## 1. Inventory

Paths are relative to the repository. All durable state is in PostgreSQL, in files
named after the release, and at the platforms; a process keeps only what it is
executing. Several processes (API server, workers, timers) share the tables and
nothing else, so the concurrency that matters is between SQL statements,
transactions, local commands and requests to platforms.

| Component | State | Hard behaviours | What makes it correct | Modelled in |
|---|---|---|---|---|
| Job table (`sql/010`, `sql/012`, `sql/017`) | `jobs.status` and a trigger over its changes | all writers meet here | only legal moves; `succeeded` and `owner_cancelled` are final | `JobTable` |
| Job lifecycle library (`src/jobs`) | attempts, budget, lease, next attempt; evidence | claims race for an agent's limit; leases expire under a live worker; renewals race claims; the sweep races the worker; replays race each other | concurrency limit, but for leases an aged renewal revives; one outcome per attempt; budgets granted once; stale workers are fenced | `JobLifecycle` |
| Owner job control (`src/api/ownerControl*`) | same tables, an audit row | interleaves with everything above | cancel is final; a dead letter leaves only by an owner decision | `JobLifecycle`, `ProductionRun` |
| Worker, run route, episode pipeline (`src/pipeline`, `src/catalog/server.js`) | `jobs`, release status, the run in progress | writes by id without guards; leases never renewed; a gate checked before an await | no two runs at once; what is published stays so | `ProductionRun` |
| Stages and packaging (`src/pipeline`, `src/media`, `src/production`) | files, artifact rows, manifests, verdicts | files an earlier pass left; commands that time out, fail and are retried; two passes over one release; a fallback provider answering late | what is recorded is what was rendered and inspected; what is in review is a whole, traceable package | `MediaStages`, `RenderPlans`, `Generation`, `EpisodePackage` |
| Provider dispatch (`src/providers`) | the dispatch fields of a task's checkpoint | a chain of separate transactions; lost answers, late and repeated calls; leases expiring under a holder | an admitted task has its unit; one worker holds an intent; no authorization outlives its claim | `Dispatch` |
| Quotas (`src/quotas`) | a limit row per provider slot, a reservation per key | counters at their limit; window reset and reconfiguration between reservations | counters agree with the reservations; never above a limit | `ProviderQuota` |
| Provider calls, credentials (`src/providers/providerConfiguration.js`, `src/credentials`, `src/recovery`) | leases, audit rows, reservations, circuits | a commit lost after the answer; executions of one task sharing keys; rotations at once | a returned result is charged; no secret without its audit row | `ProviderCalls` |
| Resilience (`src/resilience`) | circuits, pauses, quarantine, alerts | late records, callers dying with the probe | one probe per opening; an alert for each opening and quarantine | `Resilience` |
| Publishing (`src/publishing`) | receipts, bindings, release status; posts at platforms | an answer lost after the platform has posted; crash between upload and record; a second render in between | at most one post per call; a success, receipt or status names a real post; every call answers | `Publishing`, `PublishContract` |
| Owner authentication (`src/catalog/ownerAuthentication.js`) | owner row, sessions, TOTP enrollments, failures | one code verified twice at once; logins, elevations and password changes overlapping | a code is good once; a revoked session stays revoked | `OwnerSessions` |
| OAuth connections (`src/catalog/*OAuth*`) | state rows, account rows, secrets; grants at platforms | callbacks repeated and overlapping; revocation during a callback; calls that act without answering; secrets that cannot be read | one connection per state; a connected account is verified; a revocation reports what it did | `Connections` |
| Scheduling (`src/scheduling`) | schedule, slot rows, planned episodes | ticks overlapping, dying, retrying delayed slots | one episode per slot; a queued slot names its own episode | `Scheduling`, `Episodes` |
| Hermes manager (`src/manager`) | an append-only decision table | numbers shared by concurrent decisions; completions on a stale record | nothing executed without authority; every planned episode goes back to a decision | `Hermes`, `Episodes` |
| Worker runtime, results, packages (`src/workers`, `src/checkpoints`) | results per stage, the package record | runs of one package in several processes; a store that hands results back in another order of keys | all runs agree in content, stage by stage | `ContentPackage` |
| Story and news planners (`src/jarvis`, `src/aiNews`) | documents handed from stage to stage, waiting records | rounding and cutting of times; a stage refusing what the previous one wrote; waiting records overwritten | plans say what their sources say; cues cover the narration; what waits is found | `StoryPlans`, `NewsPlans` |
| Communication studio, charter, references (`src/catalog`) | drafts, versions, approvals, in memory | orders of edits, approvals, activations | one approved blueprint; what is active was approved | `CommunicationStudio`, `CreativeRegistry` |
| Backlog feeder (`src/automation`, `.github`) | issues, a lifecycle file | observations at different moments; runs replaced, delayed, refused; Jules beside the night shift | one issue per slice; nothing fed before what it needs; the night shift's own work is not queued again | `BacklogFeeder` |

Calls go one way: the API server and the workers call repositories; repositories
issue SQL; the status trigger refuses illegal moves. Shared state is the tables;
there are no in-process callbacks between components. The repository has two job
paths: the **lifecycle library**, which is fenced, guarded and audited, and the
**production path** (`ProductionWorkerLoop`, `POST /api/productions/:id/run`), which
claims through `JobRepository` and writes by id. Both go through the same trigger,
so both models extend `JobTable`; the production code never calls the library.
`Scheduling` and `Hermes` plan episodes through the same transaction and share
`Episodes`. The components that are not modelled, with the reasons, are in
section 6.

## 2. Modules

| Module | Kind |
|---|---|
| `JobTable`, `Episodes` | operators and state shared by several components |
| `JobLifecycle`, `ProductionRun`, `ProviderQuota`, `Dispatch` | state machines, each with an `MC` module and runs of its own |
| `Publishing`, `MediaStages`, `RenderPlans`, `Generation`, `EpisodePackage`, `NewsPlans`, `StoryPlans` | state machines of what leads to a published release, explored in the run of `MCOutput` |
| `Connections`, `Scheduling`, `Hermes`, `OwnerSessions`, `ProviderCalls`, `ContentPackage`, `Resilience`, `CommunicationStudio`, `CreativeRegistry` | state machines of the components around production, explored in the runs of `MCOperations` |
| `BacklogFeeder` | state machine of the feeder, the night shift and Jules over the issues, explored in the run of `MCFeeder` |
| `PublishContract` | the abstract specification of a publishing call |
| `MCJobLifecycle`, `MCProductionRun`, `MCDispatch`, `MCOutput`, `MCOperations`, `MCFeeder` with the `.cfg` files | instances for TLC |
| `JobLifecycleProofs`, `ProductionRunProofs`, `DispatchProofs` (with the ledger) | theorems about the modules of those names |
| `CuesProofs` | lemmas about the folds, sums, groups of words and times that the planners compute |
| `PlansProofs` | theorems about `RenderPlans`, `NewsPlans`, `StoryPlans` |
| `OutputProofs` | theorems about `Generation`, `EpisodePackage`, `MediaStages`, `Publishing` and what `MCOutput` composes of them and of the plans |
| `PlanningProofs` | theorems about `Hermes`, `Scheduling`, `BacklogFeeder` |
| `OperationsProofs` | theorems about `CommunicationStudio`, `CreativeRegistry`, `ContentPackage`, `Connections`, `OwnerSessions`, `Resilience`, `ProviderCalls`, and the types of all of `MCOperations` |

Two abstract specifications are implemented by detailed ones. `Dispatch`
implements `QuotaSpec` of `ProviderQuota` (what any user of the ledger's tables may
do), checked as `LedgerObeyed` and proved. `Publishing` implements `PublishContract`
under the mapping of its posts and answers, checked as `PublishContractKept` and proved.

`MCOutput` and `MCOperations` hold components that share no state (`Scheduling`
and `Hermes` excepted, which meet in the planned episodes). One variable, `part`,
says which of them a behaviour is of; the others keep an initial state. The
cross product of independent components would show nothing more. Their properties are
conjoined where one run checks several: `RendersHold` is what a stage records and what counts
as generated, `PlansHold` is what the plans of a render, of the news and of a story's stages
promise, `CuesHold` what the cues of a narration do in both pipelines.

### JobLifecycle

One action per exported function; a database transaction is one action. Three
functions are split where another actor can run between their statements: `claimJob` into `ClaimBegin` (BEGIN; the agent row
is waited for), `ClaimCount` (lock taken, active leases counted) and `ClaimTake`
(first claimable job leased, COMMIT); `renewLease` into `RenewBegin` (BEGIN) and
`RenewLease` (the guarded UPDATE, COMMIT); `replayJob` into `ReplayVerify` (advisory
lock, approval checked) and `ReplayApply` / `ReplayRollback`. `FailJobs` is shared
by `FailJob` and by `ReclaimExpiredLeases`, as `failJobInternal` is. `Abandon` is a
worker that dies: its transaction rolls back, what it had leased stays.

Time is relative: `leaseLeft` and `delayLeft` are the time until
`lease_expires_at` and `next_attempt_at`, and `Tick` counts them down. SQL's
now() is the BEGIN of the transaction; an open claim or renewal therefore has an `age`, and
compares leases and delays with that past instant. `MaxAge` bounds the age. A renewal may so
revive a lease that has run out since; `revived` is auxiliary, the jobs of which that is so. The
evidence log is abstracted to the number of events per job and kind, which is what
the accounting properties tell apart. `exec[w]` is what worker w believes it is
executing: it is not in the database, and it is what goes stale.

### ProductionRun

A release and its job are inserted in one transaction, so one name stands for
both. A *runner* is a worker slot or a run request; `run[x]` is its program
counter, job, the attempt number its claim returned and the pipeline's result.
Each SQL statement that writes `jobs` or `production_releases` is an action of its
own, in the order of the code: `ReadRelease` (status checked), `EnterProduction`,
`EnterExecutors` (the second write of the executor pipeline), `LandInReview` or
`LandInPlanned`, then `Close`, the write of the job row. Publishing is
`PublishBegin` (gate) and `PublishCommit` (write after the upload) or
`PublishFail`. `TryStatus` is `updateStatus` with its error swallowed by the caller.
The owner's cancel and retry are the guarded UPDATEs of `ownerControlStore`.
`term[x]` is auxiliary: what is left of the lease x's own claim obtained.

Things a reader of the code may not expect, and the model keeps:

- `claimLease` claims `leased` jobs whose lease is past, so a lease is only a hint;
  there is no sweep. It never looks at `max_attempts`.
- The run route claims the *first* claimable job of the Director and refuses if
  that is another release's: the job stays leased and has spent an attempt.
- `markJobWaiting` and `markJobFailed` pass an object where `updateStatus` binds the
  integer column `attempts`; PostgreSQL rejects the statement, the error is
  swallowed, and the job stays as it was. A wait is requeued by the worker instead.
- No code writes `succeeded` on this path.

### ProviderQuota and Dispatch

Every operation here is one transaction that locks the quota row, then the
reservation, then the checkpoint, so each is one action. What interleaves is the
chain: reserve, claim the admission, issue a permit, redeem it for an intent, claim
the intent, authorize the call; with a way back from each link, other callers of
the ledger, and answers that are lost.

- `reservation[k]` is the status of the row with idempotency key `k`. `reserve` returns
  the row of a known key *whatever its status*; the branch that would reserve it
  again cannot be reached. `DispatchKeys` are those of admission, one per task and
  provider; other keys are `ProviderConfigurationRouter`'s (`OtherDemand`).
- `checkpoint[t]` holds the fields of `checkpoint_record.data` that tell contents apart.
  Identifiers in the code are SHA-256 hashes of their parents' and of the caller's
  keys, so the keys stand for them. The `last...` fields, which only serve to
  answer a repeated call without a write, are left out, and so are those calls: they
  change nothing.
- Every write requires the hash that its caller has read. A late call with another
  hash is refused or changes nothing; with the current hash it does what a
  new call would do. So late calls are in the model only where sending one
  changes what its sender believes: `GiveUp` is a worker that stops relying on its
  claim and sends a cancelling call, and `givingUp[t]` is the content that call
  expects. It may arrive late or twice. There is one such call per task at a time.
- `held[w]` is auxiliary: the claim or authorization that w believes it holds, from the
  last answer it got (`Hear`: the answer may be lost; `HearAgain`: asked again with a
  stale hash). It is what two workers must never have for one intent.
- Time: `left[t]` is the time to each expiry. That a cooldown, a trial or a window is
  over is an event of its own, for nothing relates these instants to the leases.
- `PersistWaiting` is an upsert that ignores what it overwrites. A holder is not
  told, so its belief is dropped from `held` there: what follows is not promised.
- No code of the repository commits a dispatch reservation or begins the
  authorized call (`executionStarted` and `providerCallStarted` stay false), so the chain ends
  at `DISPATCH_CALL_AUTHORIZED`.

### Publishing and PublishContract

A call is a process: the owner's publish route, the private-first test, or an
adapter used directly. Each request to a platform is one step, because that is
where an answer may be lost after the platform has acted; the platform chooses its
answers. `CallFails` is any other throw, `Crash` the end of the process, which loses
the adapters' receipt maps (`kept`). `rows`, `receipts`, `ledger` and `releaseStatus`
are the tables; `media` is the file at the release's path, which `RenderAgain`
replaces. `posted[c]` counts what a call made at the platform. `covered` is
auxiliary: the receipts of its request that a call's adapter held when it began. `PublishContract` knows only
`made` and `answer`: at most one post per call, and a success names a post that
exists, its own if the call made one. That a platform accepts one upload session once is
taken from the platforms (external).

### MediaStages, RenderPlans, Generation, EpisodePackage

Four views of one pass over a release, cut where the code hands over a record.

- `Generation`: a voice, image or motion request chooses a provider by the slots of
  its chain (three states: free, spent, none), waits, is refused, or runs a command
  and builds its record. Slots change between any two steps. One request at a
  time; a style belongs to the Director who asks.
- `MediaStages`: the stages of the executor pipeline as commands over files that go
  by the *release*. A command may time out, fail or leave an output; motion may
  retry, calibrate or fall back; a pass may die and be followed by another.
  Passes follow each other; one that overlaps, and a command that outlives its
  pass, show as `StrayWrite`. A command that exits with 0 has written its output.
- `RenderPlans`: plans of the runner and of the library, validated, turned into filter
  graphs and rendered. A graph is a set of filters, each with the labels it takes and
  gives. `ffmpeg` is external: it refuses a graph in which a label is
  not used exactly once and otherwise plays what it is told to. Lengths are in
  tenths of seconds; gain, aspect and codecs are left out.
- `EpisodePackage`: reels, thumbnail, documents, quality gate and review of two passes
  that may overlap. A render yields an earlier take's content or another; rows are
  folded by release and content hash (the SELECT and INSERT of that are one step).
  What a manifest binds has an origin: the Director, an unknown producer, another Director,
  another run. `Binds` refuses the last two only, as the manifest does. Runner
  answers with unbacked verification go to `ReelRefused` and `PackagingRefused`.

### NewsPlans, StoryPlans, ContentPackage

The planners are pure, and are operators here; what interleaves is which document
each is given. `NewsPlans`: sources are observed between brief, plan, metadata and
subtitles; claims are their normalized text and numbers. What the code keeps sorted (the
sources of a brief, the claims of a plan) is a set, whose order is that of a rank each member
has. `StoryPlans`: an outline
goes to six planners and three dispatchers whose requests may wait; a text is what
screening finds in it (a class, `clean` for none), a document stands for its
hash, narration times are milliseconds. Rounding of a cue's middle is taken up at
half a millisecond, as `Math.round` does. `ContentPackage` runs the stages over
`WorkerRuntime`: look up, compute, store, in several processes. A result has an order of its
keys, the one it was built in or `jsonb`'s, which is what the store hands back (`AsJsonb`).

### Connections, OwnerSessions

A *round* of `Connections` is one start: its state token, grant and secret go by its
name. Callbacks, revocations and uses interleave at each await; a call to the
platform or the secret manager may act without answering. YouTube and the social
platforms follow one protocol; `service` tells apart what they differ in, one without a
revocation endpoint included (`irrevocable`). `rvSeen`, `rvRevoked`, `rvClean` are what a
revocation saw and reported; one that could not read the secret goes to `unread`, where
the code has cleared the locator and answers that no cleanup failed.

A request of `OwnerSessions` is a process over the owner row, sessions, enrollments
and CSRF rows; a session goes by the request that made it, a code by its TOTP step.
`dead` and `seen` are auxiliary: the sessions revoked, and those existing, when a request began.

### Scheduling, Episodes, Hermes

`Scheduling` has ticks of two kinds over one Director's slots: those of the timer,
never two at a time in a process, and the owner's "run now". Local time is a count
of minutes. A background tick is one with a schedule repository, as its tests
give it; `server.js:436` wires none, so what the server runs is a part of what is
modelled. `Hermes` has deciders, executors and completers over an append-only
table read newest first. Both plan through `Episodes`, where
(channel, season, episode) is unique; `delays` is auxiliary.

### ProviderCalls, Resilience, CommunicationStudio, CreativeRegistry, BacklogFeeder

`ProviderCalls`: executions of one task, so of the same reservation keys, through
lease, audit, reserve, call, commit and fallback, with rotations of the
credentials beside them. `Resilience`: each operation is a transaction; callers ask,
work and record, and may die or record late. The studio and the registries are
synchronous and in memory: their models are about the order of calls. A charter has
a text of its own beside the snapshots of its versions, and an approval names a
version and an agent; the text it was given at is history, for no approval keeps it.

`BacklogFeeder`: a run of the workflow step by step over issues that the night
shift, Jules and the owner change meanwhile; one run waits, the next trigger replaces it.
Jules comes by two workflows: the launcher takes the oldest ready slice without work, and the
dispatcher whatever a command file names. Neither touches a label, so an issue of theirs
stays `ready`; `prs` are the open pull requests of an issue, by whom. The launcher's gate and the
command file it writes are one step, for the dispatcher may come at any time after.
`done`, `refed`, `openings` and `probed` are auxiliary.

## 3. Runs

| Run | Shows | Bounds |
|---|---|---|
| `job_lifecycle` | limits (but for revived leases), attempt accounting, budgets, dead letters and completion fencing hold through every interleaving, crash and late call | 2 jobs (one with an owner, one created later), 2 workers, limit 1, 2 attempts, 2 replayers of one approval, lease 1, claims and renewals up to one tick old; workers and replayers interchangeable |
| `production_run` | lease exclusion, finality of cancels and of settled publications | 2 releases, 1 worker with executors, 1 run request, 1 publication, lease 1 |
| `production_run_live` | a leased job left by a crash is claimed again | the same with the plain pipeline, 1 attempt, no publication |
| `double_run` | *violated*: concurrent runs do not fail closed | as `production_run` |
| `completed_run` | *violated*: a completed run does not leave `succeeded` | as `production_run` |
| `publish_gate` | *violated*: a release is published from another status than `review` | as `production_run` |
| `dispatch` | the ledger, backed admissions and current holders through every order of the chain; each step on the ledger's tables is one of `QuotaSpec` | 1 task, 2 providers, a router's key competing for the first, limit 1, 2 workers, terms of 1 and 2 ticks, 2 claim times, tiers free and trial with and without a window for the first provider |
| `dispatch_readmit` | *violated*: a waiting task cannot be admitted again | as `dispatch` |
| `output` | plans and cues, media and package of a release, receipts and status of publishing, the contract of a publishing call, and that every call answers | see below |
| `operations` | connections, slots, Hermes, sessions, provider calls, packages, resilience, studio, registries | see below |
| `schedule_slot` | *violated*: a slot makes a second episode | as `operations` |
| `feeder` | one issue per slice, dependencies first, credit for completed closes, and the night shift's work is not queued | 3 slices in 2 lanes (a chain, and one of the owner's), 2 issues, 2 runs, Jules and the night shift |

`output`: two publishing calls in six pairs of requests (both routes, equal and
unequal private tests, approvals for the artifact sent and for another), 2 attempts
per request, 2 polls, 2 parts, 2 renders; 2 media passes with 1 stray write; a
pair of render orders over narrations on both sides of each bound of the gates, with
the runner's plans and seven of the library; 2 Directors and 1 request of
generation over changing slots; 2 episode passes with 2 takes; up to 4 of 7
sources, two outlets for each of two contradicting numbers; 4 news narrations and 3 story
narrations with segments that are too short, too long, overlapping and below a
millisecond; 7 briefs, one for each screening some stages have and some have not.

`operations`: 2 rounds, 2 callbacks, 1 revocation, 1 use of a connection; 2 ticks
(one of the timer) over one slot a day, 2 deciders, 2 executors, 1 completer, 2
episode numbers; 3 requests after one earlier login, 1 enrollment, 2 TOTP steps,
lockout at 2; 2 executions over 2 providers with 2 rotations; 3 runs of a package
of 2 stages, two of them in one process; 3 callers, threshold 2, 2 openings; 3
drafts, 2 versions; 2 agents, 2 items, 2 edits and 3 writes in the registries.

Why the bounds suffice. Each hazard needs two contenders for one row: two workers
for a limit of one, two replayers for one approval, a worker and a request for one
job, two callbacks for one state, two requests for one code, two ticks for one
slot; a third request or run is there where an earlier one must have left
something. A second job lets a claim choose the wrong one and lets one job starve behind
the other. Two attempts give a first failure that is retried and a second that is
dead-lettered; the replay's budget adds a third. A lease of one tick is enough to
hold, to be at its last instant (`>=` against `<`), and to be past; a claim or renewal one
tick old sees an instant that differs from now. The number of runs of a job is
not bounded in `ProductionRun`: `attempts` saturates at `MaxAttempts`, beyond which
nothing in that code tells values apart. No run needs a state constraint.
For `Dispatch` the contention is over one unit (a limit of one, two keys on the
first row), over one intent (two workers), and between two reservations of one
task (two providers); two terms let an authorization be shorter than, equal to or
longer than its claim, and two claim times tell a claim from its repetition. One
permit and one intent key: a second only adds refused calls. Workers, and claim
times, are interchangeable, and so are the workers and replayers of `JobLifecycle`, hence the
symmetry of both; no liveness is checked in these runs.
Two retries of a request, where the adapters make three, give a lost answer that is
retried and one that is not; `MediaStages` has one reel for the three that
`EpisodePackage` has, and two renders instead of three, since what separates them is
whether the last one is left. `CHECK_DEADLOCK FALSE` is set where the system really may
stop: every release published or cancelled, every call, request, tick and run over,
and nobody asking for anything.

Fairness. None is assumed of `JobLifecycle` and no liveness is stated: the library exports
`reclaimExpiredLeases`, but no process, timer or route of this repository calls it, so
that an orphan is ever taken back follows from nothing in the code. `ProductionRun` assumes that time passes, that the
worker polls (`ProductionWorkerLoop` loops on a timer) and that a living process
runs its pipeline to the end: each await is answered or throws. Requests, retries,
cancels, publications and crashes are never assumed to happen.
`CrashedLeaseRerun` is stated for the oldest job, and for a time without run
requests: later jobs can starve behind an older one, and a request for another
release can lease a job and drop it again and again. `Publishing` assumes weak
fairness of each call's own steps: `defaultTransport` aborts every request after
its timeout, so a call that has begun goes on; that a call is begun, a second render
and a crash are not assumed.

## 4. Findings

1. `double_run`. A worker's lease (`workerLoop.js:90`) is not renewed while
   `runEpisodePipeline` runs, so a run longer than the lease is joined by a second
   one, of another worker or of the run route. `docs/ARCHITECTURE.md:159` and
   `server.js:1143` say concurrent runs fail closed.
2. `completed_run`. Nothing writes `succeeded` after a completed pipeline. The worker's
   job stays `leased`, is claimed again after its lease, and takes its release
   from `review` back to `in_production`, for ever. The route's job stays `running`,
   which neither a claim nor a retry accepts: after a success *or* a crash of the
   route it can only be cancelled.
3. `publish_gate`. The gate's status is read before the upload is awaited and
   `published` is then written by id, so a run that re-entered production
   meanwhile is marked published.
4. `dispatch_readmit`. An admission's key names the task and the provider. Once its
   reservation is released, `reserve` answers that released row for ever
   (`postgresQuotaRepository.js:181`) and admission refuses it
   (`dispatchAdmission.js`, `validateReservation`), so a task that was released from each of its
   providers stays in `WAITING_FOR_QUOTA`. `docs/RUNBOOK.md:384` says the scheduler
   re-admits it when a provider recovers.
5. `schedule_slot`. A slot is claimed by the insert of its row only; one whose row says
   delayed is attempted by every tick that reads it. A tick that planned the
   slot's episode and died before it marked the row, or one that runs at the
   same time, leads to a second episode with the next free number.
   `scheduleRepository.js:16` says a repeated run cannot create a second logical episode,
   `productionScheduler.js:388` that a rescheduled slot never mints one.

### Other divergences met while modelling

These follow from the code as the models state it; no run is about them alone.

Jobs.

- `renewLease` compares with the BEGIN of its own transaction (`jobLifecycle.js:168`), and, unlike
  a claim, takes no agent row. A renewal begun in the last second of a lease may therefore
  commit after a claim of a second later has counted no active job and leased another:
  the agent then holds two unexpired leases at limit 1, although a renewal "strictly rejects
  already-expired leases" (`docs/task3/SLICE_31_JOB_LIFECYCLE.md:48`) and the limit is enforced (`:71`).
  `OnlyRevivalsExceedLimit` shows that nothing else exceeds it.
- `docs/task3/SLICE_38_RECOVERY_INTEGRATION.md:29` has expired leases reclaimed; nobody calls
  `reclaimExpiredLeases` (`jobLifecycle.js:404`).

Production and media.

- The reels carry the episode's whole narration under ten to twelve seconds of
  picture, and nothing cuts it: an audio segment's planned seconds are ignored and there is no
  `-shortest`. A narration that suits the episode fails each reel's gate, and the
  other way round (`EpisodeOrReels` states it), so with real media no release passes
  both. `docs/production/CANONICAL_PACKAGE_PRODUCTION.md` says a release lands in review; the
  tests replace the commands. The comments of `reelsStage.js:183` give the reels 5 to 180
  seconds, the executor's gate is 3 to 90.
- A track ducked against a voice track of the mix uses that voice's filter label
  twice, which ffmpeg refuses; the test matches the text only. Ducking never looks
  at voice segments. The runner's own plans have no mix.
- A still without a planned or claimed length gives a command that only the
  time-out ends; a title card is not cut to its slot. The lower half of the target's
  tolerance cannot be reached, since the narration must nearly fill it.
- When a chain's first provider is spent and a later one serves, the outcome is
  refused after the media was made (`ttsAdapter.js:329`, `visualAdapter.js:384`): the profile
  names the first. A refused call never falls through to the next provider, and with no
  provider registered the wait is called `QUOTA_EXHAUSTED`.
- `episodePipeline.js:1003` says packaging never collides with scene visuals on equal
  hashes; rows are folded by release and hash, so it can. The two content reels differ by their plan only; equal
  renders make the manifest throw. A verdict holds its time, so each pass records
  another. `needs_human` lands in review as `approved` does, and
  `recordHumanQcDecision` has no caller. A throw of the quality gate, or while the
  thumbnail or the documents are recorded, leaves the release in production.
- Renders A, B, A leave B as the newest row while A is on disk.
- `productionRunId` is made of the release id, so it does not tell passes apart.

Scheduling, feeder, accounts and packages.

- A disconnect of a platform without a revocation endpoint answers `providerRevoked: true`
  (`socialOAuthService.js:802`) although nothing was sent, where `:717` says it is reported honestly and a
  test of YouTube's that it is never claimed without one (`tests/youtubeOauth.test.js:842`).
- A disconnect whose secret cannot be read clears the locator and answers
  `secretCleanupFailed: false` (`youtubeOAuthService.js:690`, `socialOAuthService.js:767`): the secret may
  stay, and the cleanup that `youtubeOAuthService.js:650` says to try again has nothing left to go by.
- Stored results come back from `jsonb` with their keys in another order, and
  `contentPackageOrchestrator.js:47` hashes what `JSON.stringify` makes of them (`:200`), so a package
  that was resumed carries other `resultHash` values than the run that computed it;
  `docs/aiNews/CONTENT_PACKAGE_ORCHESTRATOR.md:73` promises the same ones.
- A charter that was deactivated may be edited and activated again by its old approval
  (`creativeCharter.js:93`), and workers are shown its text (`:283`), which nobody approved. An agent's
  assignment is shown a version that was approved for another agent only (`:274`). Compare
  `docs/ARCHITECTURE.md:78` and `docs/SECURITY.md:21`. `updateAssignment` may leave an agent two
  active assignments.
- Jules and the night shift may work on one issue and open a pull request each: the launcher
  (`jules-ready-issue-launcher.yml:37`) leaves `ready` where it is, and the night shift looks at labels.
  `docs/task3/TASK_3_1_3_8_COVERAGE_AUDIT.md:33` and `docs/AUTONOMOUS_BACKLOG_FEEDER.md:52` have one.
- At most one slice of a lane in flight (`docs/AUTONOMOUS_BACKLOG_FEEDER.md:38`,
  `backlogFeeder.js:15`) is not kept: the lane is read before other runs and people
  act. A close that is not a completion labels a closed issue, whose comment says it
  is open again; the slice blocks its lane from then on. A waiting run is replaced by
  the next trigger, so a completion may be lost, and a run that waited pushes onto an
  old commit. `maxTotalPerRun` is validated and not used. The relabelling expects
  `open` and `closed`, where the GitHub CLI answers in capitals.
- A sign-in that lifts an expired lock writes the whole owner row as it read it
  (`repositories.js:113`) and may undo a password change made meanwhile. After
  `changePassword` every session, the new one too, is behind the epoch, because a session's version is
  always 1 (`ownerAuthentication.js:317`); only the library has this call.

Planners.

- `RESEARCH_BRIEF_CONTRACT.md:42` promises one brief for any order of sources; which copy is
  eligible goes by the order. Titles count the outlets of the whole brief above a
  headline that one source has. Numbers are compared sorted and without repetition.
  Segments shorter than a millisecond are registered and refused when read again.
- The teaser's window may include the last cue, which
  `jarvis/deterministicSubtitlePlan.js:254` excludes. One halving may leave cues longer than seven
  seconds, an empty half, or, for tiny segments, cues that run backwards. A waiting visual dispatch goes by an id
  without its owner. The manifest's runtime bounds are 1800 to 3000 seconds, the outline's 25 to
  30 minutes. The outline accepts concepts that later stages refuse.

## 5. Proofs

TLC covers the instances above; TLAPS proves the following for every number of
jobs, workers, agents, requests, publications, rounds and callers, from the named
assumptions on the constants of each module (`JobLifecycleAssumption` and its likes) only.

- `JobLifecycleProofs!TypeCorrect`: each action keeps the types; the backoff lemma
  shows that delay plus jitter is capped whatever the exponent.
- `JobLifecycleProofs!ConcurrencyCorrect`, of the leases no aged renewal has revived.
  `OnlyRevivalsExceedLimit` is not inductive: a claim counts in one step and leases in a later one.
  The invariant adds that at most one claim per agent has counted (the row lock), and that
  while it is open the number of active leases as of its instant, revived ones left out, is
  below the limit. A renewal of a lease that still runs adds no active lease; other steps only
  shrink the set, and a lease that is active now was active then.
- `JobLifecycleProofs!FencingCorrect`. The invariant says that a worker named by
  `leaseOwner` which executes that job executes its latest attempt.
- `JobLifecycleProofs!AttemptsCorrect`, `DeadLettersCorrect`, `LeaseCorrect`. One invariant,
  `AccountInv`, stated job by job: the balances, that `failed` is never left between
  transactions, that a held job has a name on its row (so a lease that runs is
  never swept), and that attempts stay within the budget.
- `JobLifecycleProofs!ApprovalGrantsOnce`. The advisory lock gives one approval to one
  caller, and a verified approval is not consumed; so each change of a budget
  consumes one approval, and grants what that says.
- `JobLifecycleProofs!BudgetCorrect`: a job's budget is the initial one plus the sum of what
  its consumed approvals grant. Finitely many approvals are consumed, one a step. The sum is
  the library's fold, which picks its elements by `CHOOSE`; that adding one element adds its
  value, whatever the order, is an induction on cardinality, made first-order by taking a
  smallest set for which it fails.
- `ProductionRunProofs!TypeCorrect`.
- `ProductionRunProofs!LeaseExclusion`. The invariant adds that what is left of a
  runner's term never exceeds what is left of its job's lease, and that a
  runner without a claim has no term: a claim requires a past lease, so all
  other terms on that job are over.
- `ProductionRunProofs!CancelFinal`. A cancel could be undone only by an insert or by
  a write to a row that is not there. The invariant `RowsExist` says a job and its
  release exist together and that runners and publishers hold existing ones.
- `ProductionRunProofs!PublicationFinal`. Inductive with types alone: a run passes its
  check only on a release that is not published, and a settled one has no
  run past its check.
- `DispatchProofs!QuotaCorrect`: the ledger by itself. Cardinalities of holders
  change by one with each reservation and settlement (`HoldersChange`), resets
  only lower the usage, and a row is reconfigured only without holders.
- `DispatchProofs!DispatchObeysLedger`: `Dispatch` implements `QuotaSpec`, step by step.
  `LedgerCorrect` follows from it and from `QuotaCorrect` without another induction.
- `DispatchProofs!TypeCorrect`.
- `DispatchProofs!AdmissionsStayBacked`. Inductive together with the ledger's
  soundness: the row of a reserved key has a holder, so it cannot be reconfigured.
- `DispatchProofs!HoldersStayCurrent`. `HoldersAreCurrent` alone is not inductive. The
  invariant `Current` adds that only claimed contents name a worker, that beliefs have
  time left, that a belief in a claim is dropped when the claim is used, that
  nobody relies on the content the last cancelling call expects, that a call sent
  before the authorization does not fit it, and that no authorization ends after
  its claim (it is what makes `HearAgain` safe).
- `OutputProofs!PublicationBackedAlways`, `KeptReceiptReplayedAlways`. A call has
  posted nothing until its last request is out, which is tried once or is one resumable
  session (`Sends`); a call that may still post names itself, one that replays
  never sends again. The idempotency key and the row found by artifact fix destination and
  artifact, so a replayed receipt names a post of the same kind.
- `OutputProofs!PublishContractImplemented`: the same invariant makes every step one of
  `PublishContract` or a stutter, a crash being the failure of all active calls.
- `OperationsProofs!StateSpentOnceAlways`, `ConnectionAccountedAlways`. The invariant
  gives each round beyond its claim to the one callback that spent its state; so
  nothing exchanges or writes for a round that finished, and what a revocation
  saw and deleted stays as it reported it. A grant that was reported as revoked and is still there is
  of a service that cannot revoke; a revocation that read no secret reports neither a revoked
  grant nor a failed cleanup, and is not said to have left nothing.
- `OperationsProofs!SessionsEndForGoodAlways`, `TotpStepSpentOnceAlways`. A session
  exists only once its request is past creation, so what is revoked is not created again;
  a code that was taken stays at or below the step its enrollment remembers, and the
  conditional write takes only a later one.
- `OperationsProofs!ProbedOnceHolds`. A half-open row is that of the last opening, and its
  probe is on record before another opening can be.
- `OperationsProofs!CallsAreAccounted`. Nothing an execution relies on is taken back: audit
  rows and calls are facts, a committed unit stays committed (`CallsGrow`). The invariant says
  what an execution has behind it at each place, so it may be looked at one execution at a time.
- `OperationsProofs!BlueprintApproved`. Beyond the property, the invariant says that every
  reference is to a draft or version that exists, and that the snapshot of an approved version was
  validated as that draft's before the draft was retired: no later edit finds it active.
- `OperationsProofs!RegistryApproved`. The active charter version is the only one, and an approval
  names its snapshot, for some agent; approving freezes a profile, so an approval is of an approved one.
  Nothing is claimed of the charter's own text, or of the agent who is shown the version (section 4).
- `OperationsProofs!PackagesAgreed`. A stored result is never replaced, so a run's outputs are none
  or have the content of the stored ones, in the order of keys they were built in or the store's;
  what a run would record was made from outputs that other runs see too.
- `PlanningProofs!HermesObeys`. The log only grows; the invariant says a completed record
  follows an EXECUTING one of its own number, that what an executor or completer holds is granted by
  the log as it was read, and that a number is at most the deciders that have begun, which keeps
  numbers in range although they are shared.
- `PlanningProofs!SlotsAreAccounted`. For a slot that was never delayed, at most one tick has its
  claim, and until that tick plans there is no episode of it. A slot that was delayed is never
  taken up as missed, so what is skipped has no episode. That slots are of days in range needs
  that division is monotone.
- `PlanningProofs!SlicesAreFedOnce`. The plan of a run fits what the run knows; what it knows and
  what a waiting run knows is recorded, and what is recorded is done. The night shift claims what it
  works on, and a pull request of its own is of an issue that lost `ready`; Jules shows on no label,
  so nothing is said of it. The plan is a recursive function
  over the manifest; that it is one is shown by a least index at which it fails to be.
- `OutputProofs!PackageIsSound`. A pass only adds rows. The invariant says, for each place, which rows
  a pass has recorded by then (`PassSound`), and that a row is verified exactly when it is of a
  medium. A release in review has a pass that reported it, by the very step that took it there, and
  what that pass had recorded by then is still there, whatever another pass adds.
- `OutputProofs!RecordedFaithfully`. Passes follow each other. The files of the stages that
  a clean pass has behind it are those it recorded, and its own stage's is its own (`Clean`);
  a stray write makes unclean all that are at work and the one that was reviewed, and a record
  made while clean stays faithful whatever is written afterwards.
- `OutputProofs!GeneratedFaithfully`. A request has an outcome only after its command, and the
  outcome names the provider that command was of; a waiting or refused request has run none.
- `PlansProofs!StoryPlansHeld`. A document is determined by its kind, brief and owner
  (`DocumentSound`), so what a stage makes of it can be computed: the sum of at most six parts is
  unrolled from the library's fold, and minutes and seconds are shown to add up for each of the six
  lengths that fit. A task names its document, so a waiting record can be overwritten by
  another owner only where its task leaves the owner out, which is that of the pictures.
- `PlansProofs!RenderPlansHeld`. The filter graph is computed for any plan without ducked tracks:
  labels differ by letter and number, so each is given and taken once, by counting the filters
  that take it. The length of a picture is the sum over its cuts; the gates bound it by the
  narration's, and for the runner's plans the narration is that of the whole episode, whose
  window and a reel's are apart.
- `PlansProofs!NewsPlansGrounded`. A kept source is the first of its url, and an eligible one the
  first of its content, so two eligible ones of different domains differ in all three. Of two claims
  that contradict each other two domains tell numbers that differ, if each domain is consistent:
  the flag is raised. The seconds are linear arithmetic over rounded shares.
- `PlansProofs!NewsCuesCover`, `StoryCuesHeld`. Cues are made by folds over words. A fold is the last value
  of a function on the initial segments of the sequence; the groups it makes are the words, cut at
  some bounds (`Tiles`), at every step of that function, so their flattening is the words. The times are
  rounded shares, monotone in the words before them. In `StoryPlans` a cue is halved where it is too
  long; each cut is late by half a millisecond at most, so what the cuts before the last chunk have
  taken is bounded by the share of their words plus half a millisecond each, and with room for the
  cuts the last chunk is not begun after its end.
- `OutputProofs!PlansHeld`, `CuesHeld`, `RendersHeld`, `OutputTypes` and `OperationsProofs!OperationsTypes` lift these to the composed
  specifications the runs explore: a step of another part leaves a part's variables alone, so each
  behaviour of the composition is one of each part's. The feeder is a run of its own (`FeederTypes`).
- The types of each of these modules.

Assumptions on the constants that the code justifies: bounds of the model are positive where a
first step is meant to be possible (`MaxRevision`, `MaxWrites`, `MaxPasses`, `MaxRenders`, `EpisodesPerDayLimit`,
`MaxFailures`, ...), the feeder's manifest is a sequence of slices, deciders are finitely many (a number is
their count), there is an owner, and a narration is a sequence of timed segments with words. The files of a
render have a type, lengths and streams, with the kinds that the runner's own stages make; a library plan is
one of the schema `createAssemblyPlan` validates (`RenderAssumption`). A source of the news has a rank that
is its url's, an url one domain, a content one list of claims; a claim is named by its text's rank, and
`MaxSupporting` is positive (`NewsAssumption`).

None of the planners' sequences is bounded in these proofs. That what a fold of the library
computes is determined step by step, although each is a `CHOOSE` of a recursive function, is shown as
the feeder's plan is: by a least prefix at which it fails (`WalkExists`), so no induction theorem
with an operator for a parameter is needed.

Only model-checked is liveness (`CrashedLeaseRerun`, `CallsAnswer`), which is
beyond this prover: it has no rules for fairness and `ENABLED`. Every invariant and every other action
property that a passing run checks is also a theorem.

`StoryCuesCover` is stated of segments with room for their cuts (`RoomForCuts`: words times cuts are at
most twice the milliseconds); it is false of some smaller ones, whose cues run backwards (section
4). At seven words a cue that is some thirteen hundred words in the two minutes a segment may
last, and more than a hundred in a second, which nobody speaks.

## 6. Not modelled

- Contents: prompts, wording, redaction, hashes other than by what they name,
  typography, codecs, gains, metadata limits of platforms.
- Several Directors in `ProductionRun` and `Scheduling`, several owners in
  `Publishing`: their rows and keys are disjoint. The idempotence of an upload session
  that a platform was already given is external.
- PostgreSQL's failures other than a statement that throws; its locks and
  transactions are taken to work. ffmpeg, the platforms, the secret manager, GitHub and
  its command line are external: they are modelled by how the code uses them, and
  GitHub's search is taken to be consistent.
- The hash chain of the evidence ledger: it is appended under one lock in one
  transaction. Listings and reports: reads only.
- A reservation of more than one unit (every caller asks for one), the
  evaluation of policies and capacity snapshots (`dispatchReadiness.js`), a pure filter
  before admission: `Admit` allows any provider; and the in-memory quota ledger and
  routers, stand-ins no entry point of the server uses.
- Profile, channel, agent, workspace and connection-listing routes: single rows of one owner, last
  write wins.
- Campaign promotion, external integrations and characters: validation of one
  payload, without shared state.
- What Jules' other workflows do with its pull requests (watchdogs, comments, commands): in
  the model a pull request is merged, or is closed, at any time.
- The migration runner (one process, before the server listens), the demo adapter (in
  memory), backup drills, release certification, smoke tests, `src/orchestration`, scripts and
  the other workflows: sequential tools.
- The dashboard and the Android client: they keep no state of their own.

What the models leave open about what they do model: a retry of a dead letter
whose budget is spent is claimed by nobody (`ownerControlStore.js:115`), and a job
that the run route left running by a crash stays so (`server.js:1179`); both are
listed as hazards without a property, since no text promises otherwise. So is the orphan that
nobody sweeps. Which bytes a
platform received, when the file changes between check and upload
(`youtubePublisher.js:525`), is in no record of the code. A pass whose last append
throws after the release reached review reports a failed job.
