----------------------------- MODULE ProductionRun -----------------------------
(***************************************************************************)
(* Running an episode: the production worker (pipeline/workerLoop.js) and  *)
(* the owner's run route (catalog/server.js) execute the pipeline          *)
(* (pipeline/episodePipeline.js) of a release over its one job, while the  *)
(* owner cancels, retries and publishes.                                   *)
(*                                                                         *)
(* This is the path production takes: it claims through JobRepository, not *)
(* through the lease library of JobLifecycle.  A claim looks at the lease  *)
(* only; every later write to the job or to the release is an UPDATE by id *)
(* with no guard but the status trigger.  A release and its job are created*)
(* in one transaction and share the name j.  All jobs belong to one        *)
(* Director: those of two Directors are claimed from disjoint rows.        *)
(***************************************************************************)
EXTENDS Integers, FiniteSets, JobTable

CONSTANTS
  Jobs,          \* a production release and its job
  CreatedAt,     \* the order jobs are claimed in (all have priority 100)
  Workers,       \* slots of worker processes: a process has several (concurrency)
  Routes,        \* concurrent POST /api/productions/:id/run requests
  Publishers,    \* concurrent POST /api/productions/:id/publish requests
  None,
  LeaseTerm,     \* the lease every claim asks for, in ticks
  MaxAttempts,   \* jobs.max_attempts
  RealMedia      \* STPH_ENABLE_REAL_MEDIA: workers run the executor pipeline

ASSUME ProductionRunAssumption ==
  /\ CreatedAt \in [Jobs -> Nat]
  /\ \A i, j \in Jobs : CreatedAt[i] = CreatedAt[j] => i = j
  /\ Workers \cap Routes = {}
  /\ None \notin Jobs
  /\ LeaseTerm \in Nat \ {0}
  /\ MaxAttempts \in Nat
  /\ RealMedia \in BOOLEAN

Runners == Workers \cup Routes

VARIABLES
  status,      \* jobs.status
  attempts,    \* jobs.attempts; nothing tells values from MaxAttempts on apart
  lease,       \* time left until lease_expires_at; 0 is NULL or past
  release,     \* production_releases.status
  run,         \* [runner -> what it is executing]
  publishing,  \* [publisher -> the release whose upload it has begun, or None]
  term         \* auxiliary: what is left of the lease a runner's claim obtained

vars == <<status, attempts, lease, release, run, publishing, term>>

-----------------------------------------------------------------------------
ReleaseStatuses == {"absent", "planned", "in_production", "review", "published"}

\* "routed" and "granted" belong to a route before it runs the pipeline, the
\* others to the pipeline: "claimed" before its first read, "checked" after it,
\* "entered" and "producing" while stages run, "closing" when it has returned
\* or thrown and the job row has still to be written.
Phases == {"idle", "routed", "granted", "claimed", "checked", "entered", "producing",
           "closing"}

\* The pipeline completes, throws, waits for quota or reports a failed stage.
Results == {"none", "done", "threw", "waited", "stage_failed"}

RunOf(phase, j, n, result) ==
  [phase |-> phase, job |-> j, attempt |-> n, result |-> result]
NoRun == RunOf("idle", None, 0, "none")

Phase(x, p) == run[x].phase = p
Become(x, r) == run' = [run EXCEPT ![x] = r]
To(x, p) == Become(x, RunOf(p, run[x].job, run[x].attempt, run[x].result))
\* Only a wait looks at the attempt again.
Finish(x, result) ==
  Become(x, RunOf("closing", run[x].job,
                  IF result = "waited" THEN run[x].attempt ELSE 0, result))

UsesExecutors(x) == RealMedia /\ x \in Workers

\* The stages of x are running: both pipelines write in_production first, the
\* executor pipeline once more.
Producing(x) == Phase(x, "producing") \/ (Phase(x, "entered") /\ ~UsesExecutors(x))

SetRelease(j, to) == release' = [release EXCEPT ![j] = to]

\* updateStatus with its error swallowed: the trigger may refuse the move.
TryStatus(j, to) ==
  status' = IF MayMove(status[j], to) THEN [status EXCEPT ![j] = to] ELSE status

\* A mutant: a queued job is claimable whatever its lease says.
ClaimableQueued(j) ==
  status[j] = "queued" \/ (status[j] = "leased" /\ lease[j] = 0)
\* A mutant: only queued jobs are claimable.
ClaimableOnlyQueued(j) == status[j] = "queued" /\ lease[j] = 0
Claimable(j) == status[j] \in {"queued", "leased"} /\ lease[j] = 0

FirstClaimable ==
  {j \in Jobs : Claimable(j) /\ \A i \in Jobs : Claimable(i) => CreatedAt[j] <= CreatedAt[i]}

NextAttempt(j) == IF attempts[j] < MaxAttempts THEN attempts[j] + 1 ELSE attempts[j]

\* claimLease by runner x.
ClaimLease(x, j) ==
  /\ status' = [status EXCEPT ![j] = "leased"]
  /\ lease' = [lease EXCEPT ![j] = LeaseTerm]
  /\ attempts' = [attempts EXCEPT ![j] = NextAttempt(j)]

-----------------------------------------------------------------------------
Init ==
  /\ status = [j \in Jobs |-> "absent"]
  /\ attempts = [j \in Jobs |-> 0]
  /\ lease = [j \in Jobs |-> 0]
  /\ release = [j \in Jobs |-> "absent"]
  /\ run = [x \in Runners |-> NoRun]
  /\ publishing = [p \in Publishers |-> None]
  /\ term = [x \in Runners |-> 0]

\* createReleaseWithJob; a taken slot of the channel is refused.
CreateProduction(j) ==
  /\ release[j] = "absent"
  /\ SetRelease(j, "planned")
  /\ status' = [status EXCEPT ![j] = "queued"]
  /\ UNCHANGED <<attempts, lease, run, publishing, term>>

\* claimNext: the worker takes the first claimable job, if there is one.
WorkerClaim(w) ==
  /\ Phase(w, "idle")
  /\ \E j \in FirstClaimable :
       /\ ClaimLease(w, j)
       /\ Become(w, RunOf("claimed", j, NextAttempt(j), "none"))
       /\ term' = [term EXCEPT ![w] = LeaseTerm]
  /\ UNCHANGED <<release, publishing>>

-----------------------------------------------------------------------------
(* The run route.  It looks the release and its job up, claims for the     *)
(* release's Director, and marks the job running when it is the one asked  *)
(* for.                                                                    *)

RouteRequest(q, j) ==
  /\ Phase(q, "idle")
  /\ release[j] \notin {"absent", "published"}
  /\ Become(q, RunOf("routed", j, 0, "none"))
  /\ UNCHANGED <<status, attempts, lease, release, publishing, term>>

\* PRODUCTION_JOB_NOT_CLAIMABLE: nothing is claimable, or the claim took another
\* job, which stays leased with an attempt spent.
RouteRefused(q) ==
  /\ Phase(q, "routed")
  /\ \/ FirstClaimable = {} /\ UNCHANGED <<status, attempts, lease>>
     \/ \E j \in FirstClaimable \ {run[q].job} : ClaimLease(q, j)
  /\ Become(q, NoRun)
  /\ UNCHANGED <<release, publishing, term>>

RouteClaim(q) ==
  LET j == run[q].job IN
  /\ Phase(q, "routed")
  /\ j \in FirstClaimable
  /\ ClaimLease(q, j)
  /\ To(q, "granted")
  /\ term' = [term EXCEPT ![q] = LeaseTerm]
  /\ UNCHANGED <<release, publishing>>

\* updateStatus(running); an illegal move throws out of the route.
RouteStart(q) ==
  LET j == run[q].job IN
  /\ Phase(q, "granted")
  /\ TryStatus(j, "running")
  /\ IF MayMove(status[j], "running")
     THEN To(q, "claimed") /\ UNCHANGED term
     ELSE Become(q, NoRun) /\ term' = [term EXCEPT ![q] = 0]
  /\ UNCHANGED <<attempts, lease, release, publishing>>

-----------------------------------------------------------------------------
(* runEpisodePipeline and runEpisodePipelineWithExecutors, by a worker or  *)
(* by a route.  Artifacts, events and evidence are appended by content     *)
(* hash or as new rows and decide nothing here.                            *)

\* A mutant of Reopenable: the status of the release is not looked at.
ReopenableAlways(j) == release[j] # "absent"
Reopenable(j) == release[j] # "published"

ReadRelease(x) ==
  /\ Phase(x, "claimed")
  /\ IF Reopenable(run[x].job) THEN To(x, "checked") ELSE Finish(x, "threw")
  /\ UNCHANGED <<status, attempts, lease, release, publishing, term>>

EnterProduction(x) ==
  /\ Phase(x, "checked")
  /\ SetRelease(run[x].job, "in_production")
  /\ To(x, "entered")
  /\ UNCHANGED <<status, attempts, lease, publishing, term>>

EnterExecutors(x) ==
  /\ UsesExecutors(x) /\ Phase(x, "entered")
  /\ SetRelease(run[x].job, "in_production")
  /\ To(x, "producing")
  /\ UNCHANGED <<status, attempts, lease, publishing, term>>

\* Every stage is recorded; the evidence append after the status may throw.
LandInReview(x) ==
  /\ Producing(x)
  /\ SetRelease(run[x].job, "review")
  /\ \E result \in {"done", "threw"} : Finish(x, result)
  /\ UNCHANGED <<status, attempts, lease, publishing, term>>

\* A mutant of LandInPlanned: the release is given the status of the job.
LandInFailed(x) ==
  /\ Producing(x)
  /\ SetRelease(run[x].job, "failed")
  /\ Finish(x, "threw")
  /\ UNCHANGED <<status, attempts, lease, publishing, term>>

\* A stage throws or, with executors, reports a wait or a failure.
\* markJobWaiting and markJobFailed hand updateStatus an object for the integer
\* column attempts: PostgreSQL rejects the statement and they swallow the error.
LandInPlanned(x) ==
  /\ Producing(x)
  /\ SetRelease(run[x].job, "planned")
  /\ \E result \in IF UsesExecutors(x) THEN {"threw", "waited", "stage_failed"}
                                       ELSE {"threw"} : Finish(x, result)
  /\ UNCHANGED <<status, attempts, lease, publishing, term>>

\* A statement outside the stages' try, or one of the catch's own, throws.
StatementThrows(x) ==
  /\ run[x].phase \in {"claimed", "checked", "entered", "producing"}
  /\ Finish(x, "threw")
  /\ UNCHANGED <<status, attempts, lease, release, publishing, term>>

\* What the caller does with the pipeline's result: process in the worker, the
\* end of the handler in the route.  Neither marks a job succeeded.
JobWrite(x) ==
  LET j == run[x].job IN
  CASE run[x].result = "threw" -> TryStatus(j, "failed")
    [] run[x].result = "waited" ->
         TryStatus(j, IF run[x].attempt < MaxAttempts THEN "queued" ELSE "failed")
    [] OTHER -> UNCHANGED status

Close(x) ==
  /\ Phase(x, "closing")
  /\ JobWrite(x)
  /\ Become(x, NoRun)
  /\ term' = [term EXCEPT ![x] = 0]
  /\ UNCHANGED <<attempts, lease, release, publishing>>

\* The process dies; its statements so far stay.
Crash(x) ==
  /\ ~Phase(x, "idle")
  /\ Become(x, NoRun)
  /\ term' = [term EXCEPT ![x] = 0]
  /\ UNCHANGED <<status, attempts, lease, release, publishing>>

-----------------------------------------------------------------------------
(* The owner: cancel and retry of the job (ownerControlStore), publish of  *)
(* the release.                                                            *)

OwnerMove(j, to) ==
  /\ MayMove(status[j], to)
  /\ status' = [status EXCEPT ![j] = to]
  /\ lease' = [lease EXCEPT ![j] = 0]
  /\ term' = [x \in Runners |-> IF run[x].job = j THEN 0 ELSE term[x]]
  /\ UNCHANGED <<attempts, release, run, publishing>>

OwnerCancelJob(j) == status[j] \in {"queued", "leased", "running"} /\ OwnerMove(j, "owner_cancelled")
OwnerRetryJob(j) == status[j] \in {"failed", "dead_letter"} /\ OwnerMove(j, "queued")

\* evaluatePublishGate on the release the route has read, then the upload.
PublishBegin(p, j) ==
  /\ publishing[p] = None
  /\ release[j] = "review"
  /\ publishing' = [publishing EXCEPT ![p] = j]
  /\ UNCHANGED <<status, attempts, lease, release, run, term>>

PublishCommit(p) ==
  /\ publishing[p] # None
  /\ SetRelease(publishing[p], "published")
  /\ publishing' = [publishing EXCEPT ![p] = None]
  /\ UNCHANGED <<status, attempts, lease, run, term>>

PublishFail(p) ==
  /\ publishing[p] # None
  /\ publishing' = [publishing EXCEPT ![p] = None]
  /\ UNCHANGED <<status, attempts, lease, release, run, term>>

-----------------------------------------------------------------------------
CountDown(left) == IF left > 0 THEN left - 1 ELSE 0

Tick ==
  /\ \E j \in Jobs : lease[j] > 0
  /\ lease' = [j \in Jobs |-> CountDown(lease[j])]
  /\ term' = [x \in Runners |-> CountDown(term[x])]
  /\ UNCHANGED <<status, attempts, release, run, publishing>>

PipelineStep(x) ==
  \/ ReadRelease(x) \/ EnterProduction(x) \/ EnterExecutors(x)
  \/ LandInReview(x) \/ LandInPlanned(x) \/ StatementThrows(x) \/ Close(x)

RouteStep(q) ==
  \/ \E j \in Jobs : RouteRequest(q, j)
  \/ RouteRefused(q) \/ RouteClaim(q) \/ RouteStart(q)

Next ==
  \/ \E j \in Jobs : CreateProduction(j) \/ OwnerCancelJob(j) \/ OwnerRetryJob(j)
  \/ \E w \in Workers : WorkerClaim(w)
  \/ \E q \in Routes : RouteStep(q)
  \/ \E x \in Runners : PipelineStep(x) \/ Crash(x)
  \/ \E p \in Publishers :
       (\E j \in Jobs : PublishBegin(p, j)) \/ PublishCommit(p) \/ PublishFail(p)
  \/ Tick

Spec == Init /\ [][Next]_vars

\* Time passes, a worker polls, and a process that lives runs its pipeline on
\* (each await is answered or throws).  Nobody need ever request, retry,
\* cancel, publish or crash.
Fairness ==
  /\ WF_vars(Tick)
  /\ \A w \in Workers : WF_vars(WorkerClaim(w)) /\ WF_vars(PipelineStep(w))
  /\ \A q \in Routes : WF_vars(PipelineStep(q))

FairSpec == Spec /\ Fairness

-----------------------------------------------------------------------------
(* Properties                                                              *)

TypeOK ==
  /\ status \in [Jobs -> Statuses]
  /\ attempts \in [Jobs -> 0..MaxAttempts]
  /\ lease \in [Jobs -> 0..LeaseTerm]
  /\ release \in [Jobs -> ReleaseStatuses]
  /\ run \in [Runners -> [phase : Phases, job : Jobs \cup {None},
                          attempt : 0..MaxAttempts, result : Results]]
  /\ publishing \in [Publishers -> Jobs \cup {None}]
  /\ term \in [Runners -> 0..LeaseTerm]

\* Two runs of one job never both stand on a lease that is still in force, not
\* even when a run that lost its lease comes back and requeues the job under
\* its successor: updateStatus keeps lease_expires_at, and a claim asks for it
\* whatever the status (claimLease, workerLoop process).
LeasesExclude ==
  \A x, y \in Runners :
    x # y /\ run[x].job = run[y].job /\ run[x].job # None => term[x] = 0 \/ term[y] = 0

\* A cancelled job stays cancelled although the run it was cancelled under
\* still writes its outcome by id, later and unconditionally (the trigger of
\* sql/017 is what refuses those writes).
CancelIsFinal ==
  [][\A j \in Jobs : status[j] = "owner_cancelled" => status'[j] = "owner_cancelled"]_vars

\* Published, and no run that read the release before that is still to write it.
Settled(j) ==
  release[j] = "published" /\ \A x \in Runners :
    run[x].job = j => run[x].phase \notin {"checked", "entered", "producing"}

\* A publication is final once the runs that were already past their check are
\* over: no lease, retry or crash starts a run that reopens the release (the
\* check of runEpisodePipeline is not atomic with the write it protects, so an
\* earlier run can still do it).
SettledPublicationIsFinal == [][\A j \in Jobs : Settled(j) => Settled(j)']_vars

Oldest(j) == \A i \in Jobs : CreatedAt[j] <= CreatedAt[i]
InFlight(j) == \E x \in Runners : run[x].job = j /\ ~Phase(x, "routed")
RoutesQuiet == \A q \in Routes : Phase(q, "idle")

\* A job whose worker crashed while it was leased does not stay behind: its
\* lease runs out and a polling worker takes it again.  Stated for the job that
\* is first in claim order, since later ones can starve behind it, and while no
\* run request comes in, since a request for another release can lease the job
\* and drop it, over and over (RouteRefused).
CrashedLeaseRerun ==
  \A j \in Jobs : <>[]RoutesQuiet => (Oldest(j) /\ status[j] = "leased" /\ ~InFlight(j)
                                     ~> InFlight(j) \/ status[j] # "leased")

\* What the documents say and the code does not do.

\* "... so concurrent runs fail closed instead of double-running": no two
\* pipelines of one release are under way at once.
NoDoubleRun ==
  \A x, y \in Runners :
    x # y /\ run[x].job = run[y].job =>
      ~(Producing(x) /\ Producing(y))

\* "queued -> leased -> running -> succeeded|failed": a pipeline that completed
\* leaves its job succeeded.
CompletedRunsSucceed ==
  [][\A x \in Runners : run[x].result = "done" /\ Close(x) =>
                        status'[run[x].job] \in {"succeeded", "owner_cancelled"}]_vars

\* "a release may be marked published only when it is in `review`".
PublishedFromReview ==
  [][\A j \in Jobs : release[j] # "published" /\ release'[j] = "published" =>
                     release[j] = "review"]_vars
=============================================================================
