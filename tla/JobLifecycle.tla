----------------------------- MODULE JobLifecycle -----------------------------
(***************************************************************************)
(* The durable job lifecycle: jobs/lifecycle/jobLifecycle.js and           *)
(* jobs/retry/retryManager.js over the jobs table, with the owner's retry  *)
(* and cancel (api/ownerControlStore.js) and the evidence each operation   *)
(* appends.  A database transaction is one action, except where others act  *)
(* between its BEGIN and its statements, or between two statements that a  *)
(* lock must keep together: claimJob (agent row lock), renewLease and      *)
(* replayJob (advisory lock).                                              *)
(*                                                                         *)
(* Time is relative: leaseLeft[j] and delayLeft[j] are the time left until *)
(* lease_expires_at and next_attempt_at, counted down by Tick.  now() is a *)
(* transaction's BEGIN: it has an age when its statement runs, and it      *)
(* compares with, and schedules from, a past instant.                      *)
(***************************************************************************)
EXTENDS Integers, FiniteSets, FiniteSetsExt, JobTable

CONSTANTS
  Agents, Capabilities, Jobs, Workers,   \* a worker's name is its lease_owner
  Approvals,                             \* job_replay_authorized events of owners
  Replayers,                             \* concurrent callers of replayJob
  None,
  AgentOf, CapabilityOf, PriorityOf,     \* the immutable columns of a job
  OwnerJobs,                             \* jobs that carry an owner_id
  ConcurrencyLimit,                      \* agents.concurrency_limit
  InitialMaxAttempts,                    \* max_attempts at creation
  ApprovalJob, ApprovalBudget,           \* payload of an approval
  LeaseDurations,                        \* what callers pass as leaseDurationSeconds
  BaseDelay, Factor, MaxDelay,           \* retryOptions of calculateNextAttemptDelay
  MaxAge                                 \* bound on the age of a transaction

\* validateLeaseDuration's upper bound.
MaxLeaseSeconds == 86400

\* BEGIN-to-COMMIT stays within MaxAge; concurrency_limit is positive
\* (agents_concurrency_limit_positive).
ASSUME JobLifecycleAssumption ==
  /\ None \notin Jobs \cup Workers \cup Approvals \cup Agents \cup Capabilities
  /\ IsFiniteSet(Jobs)
  /\ AgentOf \in [Jobs -> Agents]
  /\ CapabilityOf \in [Jobs -> Capabilities]
  /\ PriorityOf \in [Jobs -> Int]
  /\ OwnerJobs \subseteq Jobs
  /\ ConcurrencyLimit \in [Agents -> Nat \ {0}]
  /\ InitialMaxAttempts \in Nat
  /\ ApprovalJob \in [Approvals -> Jobs]
  /\ ApprovalBudget \in [Approvals -> Int]
  /\ LeaseDurations \subseteq 1..MaxLeaseSeconds
  /\ BaseDelay \in Nat /\ Factor \in Nat /\ MaxDelay \in Nat
  /\ MaxAge \in Nat

VARIABLES
  status, attempts, maxAttempts, leaseOwner, leaseLeft, delayLeft, \* columns of jobs
  evidence,   \* [job -> [kind -> number of events, or owner_control_audit rows]]
  consumed,   \* approvals named by a job_replay_consumed event
  exec,       \* [worker -> the job and attempt it believes it is executing]
  claim,      \* [worker -> its open claimJob or renewLease transaction]
  replay,     \* [replayer -> the approval it has verified and locked, or None]
  revived     \* history: jobs whose lease was renewed after it had expired

columns == <<status, attempts, maxAttempts, leaseOwner, leaseLeft, delayLeft>>
vars == <<columns, evidence, consumed, exec, claim, replay, revived>>

-----------------------------------------------------------------------------
\* An owner's move is counted by its owner_control_audit row: the ledger gets
\* the same event twice, from the store and, not awaited, from the router.
EvidenceKinds == {"job_retry", "job_dead_letter", "job_replay_consumed",
                  "owner_job_retry", "cancel_of_queued", "cancel_of_held"}

\* NULL and "past, whatever the age" cannot be told apart by any guard,
\* so both are the floor of the countdown.
LeaseNull == -(MaxAge + 1)
DelayNull == -MaxAge

OpenClaim(phase, a, c, age) ==
  [phase |-> phase, agent |-> a, capability |-> c, age |-> age]
Idle   == OpenClaim("idle", None, None, 0)
NoExec == [job |-> None, attempt |-> 0]

\* The age of a transaction of one statement, when the statement runs.
Ages == 0..MaxAge

Held(j) == status[j] \in HeldStatuses

\* lease_expires_at IS NULL OR lease_expires_at >= now(), age ago.
Unexpired(j, age) == leaseOwner[j] = None \/ leaseLeft[j] >= -age

\* The jobs that count against agent a's concurrency limit.
ActiveJobs(a, age) == {j \in Jobs : AgentOf[j] = a /\ Held(j) /\ Unexpired(j, age)}

\* A mutant of Claimable: an expired lease is claimed over, without a sweep.
ClaimableOverExpired(j, a, c, age) ==
  /\ AgentOf[j] = a /\ CapabilityOf[j] = c
  /\ status[j] \in {"queued", "leased"} /\ (leaseOwner[j] = None \/ leaseLeft[j] < -age)
  /\ attempts[j] < maxAttempts[j]
  /\ delayLeft[j] <= -age

Claimable(j, a, c, age) ==
  /\ AgentOf[j] = a /\ CapabilityOf[j] = c
  /\ status[j] = "queued"
  /\ attempts[j] < maxAttempts[j]
  /\ delayLeft[j] <= -age

\* calculateNextAttemptDelay: capped exponential, jitter at most half of it,
\* capped again.  The source falls back to the cap on a non-finite power.
Uncapped(delay) == delay                                  \* a mutant of Capped
Capped(delay) == IF delay \in 0..MaxDelay THEN delay ELSE MaxDelay

BackoffDelays(n) ==
  LET delay == Capped(BaseDelay * Factor^(n - 1))
  IN {Capped(delay + jitter) : jitter \in 0..(delay \div 2)}

\* UPDATE jobs SET status: the trigger aborts the transaction on an illegal move.
SetStatus(j, to) ==
  /\ MayMove(status[j], to)
  /\ status' = [status EXCEPT ![j] = to]

Record(j, kind) == evidence' = [evidence EXCEPT ![j][kind] = @ + 1]

-----------------------------------------------------------------------------
\* Owned jobs were inserted, with their owner, before the lifecycle runs on
\* them (createJob writes no owner_id); the others wait for createJob.
Init ==
  /\ status = [j \in Jobs |-> IF j \in OwnerJobs THEN "queued" ELSE "absent"]
  /\ attempts = [j \in Jobs |-> 0]
  /\ maxAttempts = [j \in Jobs |-> InitialMaxAttempts]
  /\ leaseOwner = [j \in Jobs |-> None]
  /\ leaseLeft = [j \in Jobs |-> LeaseNull]
  /\ delayLeft = [j \in Jobs |-> DelayNull]
  /\ evidence = [j \in Jobs |-> [k \in EvidenceKinds |-> 0]]
  /\ consumed = {}
  /\ exec = [w \in Workers |-> NoExec]
  /\ claim = [w \in Workers |-> Idle]
  /\ replay = [r \in Replayers |-> None]
  /\ revived = {}

\* createJob.  A second call with the same idempotency key returns the row
\* and changes nothing.  next_attempt_at defaults to now().
CreateJob(j) ==
  /\ status[j] = "absent"
  /\ status' = [status EXCEPT ![j] = "queued"]
  /\ \E age \in Ages : delayLeft' = [delayLeft EXCEPT ![j] = -age]
  /\ UNCHANGED <<attempts, maxAttempts, leaseOwner, leaseLeft, evidence, consumed,
                 exec, claim, replay, revived>>

-----------------------------------------------------------------------------
(* claimJob: BEGIN, then the agent row lock and the count, then the lease. *)
(* A worker runs one job at a time, so it claims only when it has none.    *)

ClaimBegin(w, a, c) ==
  /\ exec[w] = NoExec /\ claim[w] = Idle
  /\ claim' = [claim EXCEPT ![w] = OpenClaim("waiting", a, c, 0)]
  /\ UNCHANGED <<columns, evidence, consumed, exec, replay, revived>>

NoRowLock(a) == a \in Agents                             \* a mutant of AgentRowFree
AgentRowFree(a) == \A w \in Workers : ~(claim[w].phase = "counted" /\ claim[w].agent = a)

\* SELECT ... FROM agents FOR UPDATE, then count(*) < concurrency_limit.
ClaimCount(w) ==
  LET a == claim[w].agent
      age == claim[w].age
  IN
  /\ claim[w].phase = "waiting"
  /\ AgentRowFree(a)
  /\ claim' = [claim EXCEPT
                 ![w] = IF Cardinality(ActiveJobs(a, age)) < ConcurrencyLimit[a]
                        THEN OpenClaim("counted", a, claim[w].capability, age)
                        ELSE Idle]
  /\ UNCHANGED <<columns, evidence, consumed, exec, replay, revived>>

\* The highest-priority claimable job, created_at (unmodelled) breaking ties.
FirstClaimable(w) ==
  LET C == {j \in Jobs : Claimable(j, claim[w].agent, claim[w].capability, claim[w].age)}
  IN {j \in C : \A i \in C : PriorityOf[j] <= PriorityOf[i]}

ClaimLease(w, j, d) ==
  /\ SetStatus(j, "leased")
  /\ leaseOwner' = [leaseOwner EXCEPT ![j] = w]
  /\ leaseLeft' = [leaseLeft EXCEPT ![j] = d - claim[w].age]
  /\ attempts' = [attempts EXCEPT ![j] = @ + 1]
  /\ delayLeft' = [delayLeft EXCEPT ![j] = DelayNull]
  /\ exec' = [exec EXCEPT ![w] = [job |-> j, attempt |-> attempts[j] + 1]]
  /\ revived' = revived \ {j}
  /\ UNCHANGED maxAttempts

ClaimTake(w) ==
  /\ claim[w].phase = "counted"
  /\ claim' = [claim EXCEPT ![w] = Idle]
  /\ \/ FirstClaimable(w) = {} /\ UNCHANGED <<columns, exec, revived>>
     \/ \E j \in FirstClaimable(w), d \in LeaseDurations : ClaimLease(w, j, d)
  /\ UNCHANGED <<evidence, consumed, replay>>

-----------------------------------------------------------------------------
(* Calls of a worker about the job it believes it holds.  A call whose     *)
(* WHERE clause matches no row throws; the worker then gives up (Abandon). *)
(* A renewal may be under way while the worker calls on about the job.     *)

RowIsAnyones(w) == exec[w].job # None                    \* a mutant of RowIsMine
RowIsMine(w) == exec[w].job # None /\ leaseOwner[exec[w].job] = w

RenewBegin(w) ==
  LET j == exec[w].job IN
  /\ j # None /\ claim[w] = Idle
  /\ claim' = [claim EXCEPT ![w] = OpenClaim("renewing", AgentOf[j], CapabilityOf[j], 0)]
  /\ UNCHANGED <<columns, evidence, consumed, exec, replay, revived>>

Renewable(w) ==
  /\ RowIsMine(w) /\ Held(exec[w].job)
  /\ Unexpired(exec[w].job, claim[w].age)

\* renewLease's one statement: the lease must not have expired when the
\* transaction began, and the new one runs from then.
RenewLease(w) ==
  LET j == exec[w].job IN
  /\ claim[w].phase = "renewing"
  /\ claim' = [claim EXCEPT ![w] = Idle]
  /\ \/ /\ Renewable(w)
        /\ \E d \in LeaseDurations :
             leaseLeft' = [leaseLeft EXCEPT ![j] = d - claim[w].age]
        /\ revived' = revived \cup (IF leaseLeft[j] < 0 THEN {j} ELSE {})
     \/ ~Renewable(w) /\ UNCHANGED <<leaseLeft, revived>>
  /\ UNCHANGED <<status, attempts, maxAttempts, leaseOwner, delayLeft, evidence, consumed,
                 exec, replay>>

\* startJob does not look at the lease's expiry.
StartJob(w) ==
  /\ RowIsMine(w) /\ status[exec[w].job] = "leased"
  /\ SetStatus(exec[w].job, "running")
  /\ UNCHANGED <<attempts, maxAttempts, leaseOwner, leaseLeft, delayLeft, evidence, consumed,
                 exec, claim, replay, revived>>

ReleaseExec(w) == exec' = [exec EXCEPT ![w] = NoExec]

\* completeJob does not look at the lease's expiry either: a late completion
\* counts until somebody has reclaimed the job.
CompleteJob(w) ==
  LET j == exec[w].job IN
  /\ RowIsMine(w) /\ status[j] = "running"
  /\ SetStatus(j, "succeeded")
  /\ leaseOwner' = [leaseOwner EXCEPT ![j] = None]
  /\ leaseLeft' = [leaseLeft EXCEPT ![j] = LeaseNull]
  /\ delayLeft' = [delayLeft EXCEPT ![j] = DelayNull]
  /\ ReleaseExec(w)
  /\ UNCHANGED <<attempts, maxAttempts, evidence, consumed, claim, replay, revived>>

\* The worker process crashes, or stops after an error, and comes back with
\* no memory of its job; its open transaction rolls back.
Abandon(w) ==
  /\ exec[w] # NoExec \/ claim[w] # Idle
  /\ ReleaseExec(w)
  /\ claim' = [claim EXCEPT ![w] = Idle]
  /\ UNCHANGED <<columns, evidence, consumed, replay, revived>>

-----------------------------------------------------------------------------
(* failJobInternal, for one job or for the batch of a sweep, inside one    *)
(* transaction: leased/running -> failed -> dead_letter or queued.         *)

FailureOutcome(j, class) ==
  IF class = "fatal" \/ attempts[j] >= maxAttempts[j] THEN "dead_letter" ELSE "queued"

FailureEvidence(j, class) ==
  IF FailureOutcome(j, class) = "dead_letter" THEN "job_dead_letter" ELSE "job_retry"

FailJobs(S, class, age) ==
  /\ \A j \in S : MayMove(status[j], "failed") /\ MayMove("failed", FailureOutcome(j, class))
  /\ status' = [j \in Jobs |-> IF j \in S THEN FailureOutcome(j, class) ELSE status[j]]
  /\ leaseOwner' = [j \in Jobs |-> IF j \in S THEN None ELSE leaseOwner[j]]
  /\ leaseLeft' = [j \in Jobs |-> IF j \in S THEN LeaseNull ELSE leaseLeft[j]]
  /\ \E d \in [S -> UNION {BackoffDelays(attempts[j]) : j \in S}] :
       /\ \A j \in S : d[j] \in BackoffDelays(attempts[j])
       /\ delayLeft' = [j \in Jobs |->
                          IF j \notin S THEN delayLeft[j]
                          ELSE IF FailureOutcome(j, class) = "queued" THEN d[j] - age
                          ELSE DelayNull]
  /\ evidence' = [j \in Jobs |->
                    IF j \in S
                    THEN [evidence[j] EXCEPT ![FailureEvidence(j, class)] = @ + 1]
                    ELSE evidence[j]]
  /\ UNCHANGED <<attempts, maxAttempts, consumed, claim, replay, revived>>

\* failJob, with classifyRetryError's verdict on the worker's error.
FailJob(w) ==
  /\ RowIsMine(w) /\ Held(exec[w].job)
  /\ \E class \in {"transient", "fatal"}, age \in Ages : FailJobs({exec[w].job}, class, age)
  /\ ReleaseExec(w)

\* A mutant of ExpiredJobs: <= instead of <.
ExpiredOrDueJobs(a, age) == {j \in Jobs : AgentOf[j] = a /\ Held(j) /\ leaseLeft[j] <= -age}

ExpiredJobs(a, age) == {j \in Jobs : AgentOf[j] = a /\ Held(j) /\ leaseLeft[j] < -age}

\* reclaimExpiredLeases: every expired job of the agent (the instances stay
\* below its batch limit of 100), always as a transient failure.  No process
\* of the repository calls it on a schedule.
ReclaimExpiredLeases(a) ==
  /\ \E age \in Ages :
       /\ ExpiredJobs(a, age) # {}
       /\ FailJobs(ExpiredJobs(a, age), "transient", age)
  /\ UNCHANGED exec

-----------------------------------------------------------------------------
(* replayJob.  Requests refused before the locks (unknown owner, foreign   *)
(* agent, approval bound to something else) change nothing and are left    *)
(* out; an approval always names its own job here.                         *)

\* additionalAttempts parsed from the approval must be 1 to 10.
BudgetedApprovals == {e \in Approvals : ApprovalBudget[e] \in 1..10}

NoAdvisoryLock(e) == e \in Approvals                     \* a mutant of ApprovalFree
ApprovalFree(e) == \A r \in Replayers : replay[r] # e

\* The advisory lock on the approval, then the checks made under it.
ReplayVerify(r, e) ==
  /\ replay[r] = None
  /\ ApprovalFree(e)
  /\ e \notin consumed
  /\ e \in BudgetedApprovals
  /\ replay' = [replay EXCEPT ![r] = e]
  /\ UNCHANGED <<columns, evidence, consumed, exec, claim, revived>>

\* A mutant of Replayable: any status the trigger lets return to queued.
ReplayableUnchecked(j) == status[j] # "absent" /\ MayMove(status[j], "queued")
Replayable(j) == status[j] = "dead_letter"

\* The job row lock, the status check, the requeue and the consumed event.
ReplayApply(r) ==
  LET e == replay[r]
      j == ApprovalJob[e]
  IN /\ e # None
     /\ Replayable(j)
     /\ SetStatus(j, "queued")
     /\ maxAttempts' = [maxAttempts EXCEPT ![j] = @ + ApprovalBudget[e]]
     /\ \E age \in Ages : delayLeft' = [delayLeft EXCEPT ![j] = -age]
     /\ Record(j, "job_replay_consumed")
     /\ consumed' = consumed \cup {e}
     /\ replay' = [replay EXCEPT ![r] = None]
     /\ UNCHANGED <<attempts, leaseOwner, leaseLeft, exec, claim, revived>>

\* JOB_NOT_IN_DEAD_LETTER_STATE, or the caller's connection drops: rollback.
ReplayRollback(r) ==
  /\ replay[r] # None
  /\ replay' = [replay EXCEPT ![r] = None]
  /\ UNCHANGED <<columns, evidence, consumed, exec, claim, revived>>

-----------------------------------------------------------------------------
(* #transitionWithAudit: the router reads the status first, but the store  *)
(* compares it again under the row lock, so the pair acts as one step.     *)

OwnerMove(j, to, kind) ==
  /\ j \in OwnerJobs
  /\ SetStatus(j, to)
  /\ leaseOwner' = [leaseOwner EXCEPT ![j] = None]
  /\ leaseLeft' = [leaseLeft EXCEPT ![j] = LeaseNull]
  /\ Record(j, kind)
  /\ UNCHANGED <<attempts, maxAttempts, delayLeft, consumed, exec, claim, replay, revived>>

OwnerRetryJob(j) ==
  /\ status[j] \in {"failed", "dead_letter"}
  /\ OwnerMove(j, "queued", "owner_job_retry")

OwnerCancelJob(j) ==
  /\ status[j] \in {"queued", "leased", "running"}
  /\ OwnerMove(j, "owner_cancelled",
               IF status[j] = "queued" THEN "cancel_of_queued" ELSE "cancel_of_held")

-----------------------------------------------------------------------------
CountDown(left, floor) == IF left > floor THEN left - 1 ELSE left

\* A second passes.  No transaction stays open beyond MaxAge.
Tick ==
  /\ \A w \in Workers : claim[w] # Idle => claim[w].age < MaxAge
  /\ leaseLeft' = [j \in Jobs |-> CountDown(leaseLeft[j], LeaseNull)]
  /\ delayLeft' = [j \in Jobs |-> CountDown(delayLeft[j], DelayNull)]
  /\ claim' = [w \in Workers |->
                 IF claim[w] = Idle THEN Idle
                 ELSE OpenClaim(claim[w].phase, claim[w].agent, claim[w].capability,
                                claim[w].age + 1)]
  /\ UNCHANGED <<status, attempts, maxAttempts, leaseOwner, evidence, consumed, exec, replay,
                 revived>>

WorkerStep(w) ==
  \/ \E a \in Agents, c \in Capabilities : ClaimBegin(w, a, c)
  \/ ClaimCount(w) \/ ClaimTake(w)
  \/ RenewBegin(w) \/ RenewLease(w) \/ StartJob(w) \/ CompleteJob(w) \/ FailJob(w)
  \/ Abandon(w)

Next ==
  \/ \E j \in Jobs : CreateJob(j) \/ OwnerRetryJob(j) \/ OwnerCancelJob(j)
  \/ \E w \in Workers : WorkerStep(w)
  \/ \E a \in Agents : ReclaimExpiredLeases(a)
  \/ \E r \in Replayers :
       (\E e \in Approvals : ReplayVerify(r, e)) \/ ReplayApply(r) \/ ReplayRollback(r)
  \/ Tick

Spec == Init /\ [][Next]_vars

-----------------------------------------------------------------------------
(* Properties                                                              *)

TypeOK ==
  /\ status \in [Jobs -> Statuses]
  /\ attempts \in [Jobs -> Nat]
  /\ maxAttempts \in [Jobs -> Nat]
  /\ leaseOwner \in [Jobs -> Workers \cup {None}]
  /\ leaseLeft \in [Jobs -> LeaseNull..MaxLeaseSeconds]
  /\ delayLeft \in [Jobs -> DelayNull..MaxDelay]
  /\ evidence \in [Jobs -> [EvidenceKinds -> Nat]]
  /\ consumed \subseteq Approvals
  /\ exec \in [Workers -> [job : Jobs \cup {None}, attempt : Nat]]
  /\ claim \in [Workers -> [phase : {"idle", "waiting", "counted", "renewing"},
                             agent : Agents \cup {None},
                             capability : Capabilities \cup {None}, age : 0..MaxAge]]
  /\ replay \in [Replayers -> BudgetedApprovals \cup {None}]
  /\ revived \subseteq Jobs

\* The unexpired leases that no late renewal has brought back.
TimelyJobs(a) == ActiveJobs(a, 0) \ revived

\* An agent's unexpired leases are within its concurrency limit, those excepted
\* that a renewal has brought back after they had expired: however claims of any
\* age, renewals, sweeps and late calls interleave, no claim takes an agent over
\* its limit (claimJob counts and leases under the agent row lock).  With the
\* revived ones it may have more: renewLease compares with the BEGIN of its
\* transaction and takes no lock of the agent.
OnlyRevivalsExceedLimit ==
  \A a \in Agents : Cardinality(TimelyJobs(a)) <= ConcurrencyLimit[a]

\* Every attempt has exactly one recorded outcome: it is still held, it
\* succeeded, the owner cancelled it, or one job_retry or job_dead_letter
\* event closes it.  A failure reported both by the worker and by the sweep,
\* or a completion after a reclaim, would break the balance (failJobInternal).
AttemptsAccounted ==
  \A j \in Jobs :
    attempts[j] = evidence[j]["job_retry"] + evidence[j]["job_dead_letter"]
                  + evidence[j]["cancel_of_held"]
                  + (IF status[j] \in HeldStatuses \cup {"succeeded"} THEN 1 ELSE 0)

\* A job leaves dead_letter only through an owner's recorded decision: the
\* dead-letter events of a job are balanced by replays and owner retries.
DeadLetterLeftOnlyByOwner ==
  \A j \in Jobs :
    evidence[j]["job_dead_letter"] = evidence[j]["job_replay_consumed"]
                                     + evidence[j]["owner_job_retry"]
                                     + (IF status[j] = "dead_letter" THEN 1 ELSE 0)

GrantedAttempts(j) ==
  InitialMaxAttempts
  + MapThenSumSet(LAMBDA e : ApprovalBudget[e], {e \in consumed : ApprovalJob[e] = j})

\* A job's attempt budget is the initial one plus each consumed approval's
\* budget once, even when the same approval is replayed concurrently
\* (advisory lock and consumed event of replayJob), and is never overrun.
BudgetGrantedOnce ==
  \A j \in Jobs : maxAttempts[j] = GrantedAttempts(j) /\ attempts[j] <= maxAttempts[j]

\* Only the execution that owns the latest attempt completes a job: a worker
\* whose lease was reclaimed and given to another cannot (completeJob's
\* lease_owner guard is the only fence; there is no fencing token).
CompletionFenced ==
  [][\A j \in Jobs :
       status[j] # "succeeded" /\ status'[j] = "succeeded" =>
         \E w \in Workers : /\ leaseOwner[j] = w
                           /\ exec[w] = [job |-> j, attempt |-> attempts[j]]
                           /\ exec'[w] = NoExec]_vars

\* An unexpired lease is taken from its owner only by the owner's own call or
\* by the house owner's cancel: the sweep and the renewal agree on the very
\* second a lease expires (>= now() in one, < now() in the other).
LeaseNotStolen ==
  [][\A j \in Jobs :
       Held(j) /\ Unexpired(j, 0) /\ leaseOwner'[j] # leaseOwner[j] =>
         \/ status'[j] = "owner_cancelled"
         \/ exec[leaseOwner[j]].job = j /\ exec'[leaseOwner[j]] = NoExec]_vars
=============================================================================
