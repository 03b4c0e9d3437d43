-------------------------- MODULE ProductionRunProofs --------------------------
(***************************************************************************)
(* Proofs about ProductionRun: types, the exclusion of leases, the         *)
(* finality of a cancel and of a settled publication, for every number of  *)
(* workers, run requests, publish requests and releases.                   *)
(***************************************************************************)
EXTENDS ProductionRun, TLAPS

LEMMA LeaseTermTyped == LeaseTerm \in 0..LeaseTerm
BY ProductionRunAssumption

LEMMA CountDownTyped ==
  ASSUME NEW N \in Nat, NEW left \in 0..N
  PROVE  CountDown(left) \in 0..N /\ CountDown(left) <= left
BY DEF CountDown

LEMMA NextAttemptTyped ==
  ASSUME TypeOK, NEW j \in Jobs
  PROVE  NextAttempt(j) \in 0..MaxAttempts
BY ProductionRunAssumption DEF TypeOK, NextAttempt

\* A refused or legal status write keeps the column's type.
LEMMA TryStatusTyped ==
  ASSUME TypeOK, NEW j, NEW to \in Statuses, TryStatus(j, to)
  PROVE  status' \in [Jobs -> Statuses]
BY DEF TypeOK, TryStatus

LEMMA TypeInit == Init => TypeOK
BY ProductionRunAssumption
DEF Init, TypeOK, NoRun, RunOf, Statuses, ReleaseStatuses, Phases, Results

RunType == [Runners -> [phase : Phases, job : Jobs \cup {None},
                        attempt : 0..MaxAttempts, result : Results]]

\* A runner's entry is only ever replaced by a well-typed one.
LEMMA BecomeTyped ==
  ASSUME run \in RunType, NEW x \in Runners, NEW p \in Phases, NEW j \in Jobs \cup {None},
         NEW n \in 0..MaxAttempts, NEW r \in Results, Become(x, RunOf(p, j, n, r))
  PROVE  run' \in RunType
BY DEF RunType, Become, RunOf

LEMMA NoRunTyped ==
  ASSUME run \in RunType, NEW x \in Runners, Become(x, NoRun)
  PROVE  run' \in RunType
BY ProductionRunAssumption DEF RunType, Become, NoRun, RunOf, Phases, Results

LEMMA RunMovesTyped ==
  ASSUME run \in RunType, NEW x \in Runners
  PROVE  /\ \A p \in Phases : To(x, p) => run' \in RunType
         /\ \A r \in Results : Finish(x, r) => run' \in RunType
<1>1. /\ run[x].job \in Jobs \cup {None} /\ run[x].attempt \in 0..MaxAttempts
      /\ run[x].result \in Results
      BY DEF RunType
<1>2. "closing" \in Phases /\ 0 \in 0..MaxAttempts
      BY ProductionRunAssumption DEF Phases
<1>3. ASSUME NEW p \in Phases, To(x, p) PROVE run' \in RunType
      BY <1>1, <1>3, BecomeTyped DEF To
<1>4. ASSUME NEW r \in Results, Finish(x, r) PROVE run' \in RunType
      BY <1>1, <1>2, <1>4, BecomeTyped DEF Finish
<1> QED BY <1>3, <1>4

\* What a pipeline or a crash does to a runner's entry.
LEMMA PipelineRunTyped ==
  ASSUME TypeOK, NEW x \in Runners, PipelineStep(x) \/ Crash(x)
  PROVE  run' \in RunType
<1>1. run \in RunType
      BY DEF TypeOK, RunType
<1>2. CASE ReadRelease(x)
      BY <1>1, <1>2, RunMovesTyped DEF ReadRelease, Phases, Results
<1>3. CASE EnterProduction(x)
      BY <1>1, <1>3, RunMovesTyped DEF EnterProduction, Phases
<1>4. CASE EnterExecutors(x)
      BY <1>1, <1>4, RunMovesTyped DEF EnterExecutors, Phases
<1>5. CASE LandInReview(x)
      BY <1>1, <1>5, RunMovesTyped DEF LandInReview, Results
<1>6. CASE LandInPlanned(x)
  <2>1. PICK r \in Results : Finish(x, r)
        BY <1>6 DEF LandInPlanned, Results
  <2> QED BY <1>1, <2>1, RunMovesTyped
<1>7. CASE StatementThrows(x)
      BY <1>1, <1>7, RunMovesTyped DEF StatementThrows, Results
<1>8. CASE Close(x) \/ Crash(x)
      BY <1>1, <1>8, NoRunTyped DEF Close, Crash
<1> QED BY <1>2, <1>3, <1>4, <1>5, <1>6, <1>7, <1>8 DEF PipelineStep

\* What it does to the columns.
LEMMA PipelineColumnsTyped ==
  ASSUME TypeOK, NEW x \in Runners, PipelineStep(x) \/ Crash(x)
  PROVE  /\ status' \in [Jobs -> Statuses]
         /\ release' \in [Jobs -> ReleaseStatuses]
         /\ term' \in [Runners -> 0..LeaseTerm]
         /\ UNCHANGED <<attempts, lease, publishing>>
<1> USE ProductionRunAssumption
<1>1. CASE ReadRelease(x) \/ StatementThrows(x)
      BY <1>1 DEF ReadRelease, StatementThrows, TypeOK
<1>2. CASE EnterProduction(x) \/ EnterExecutors(x) \/ LandInReview(x) \/ LandInPlanned(x)
      BY <1>2
      DEF EnterProduction, EnterExecutors, LandInReview, LandInPlanned, SetRelease, TypeOK,
          ReleaseStatuses
<1>3. CASE Close(x)
  <2>1. /\ JobWrite(x) /\ release' = release /\ term' = [term EXCEPT ![x] = 0]
        /\ UNCHANGED <<attempts, lease, publishing>>
        BY <1>3 DEF Close
  <2>2. \/ TryStatus(run[x].job, "failed")
        \/ TryStatus(run[x].job, IF run[x].attempt < MaxAttempts THEN "queued" ELSE "failed")
        \/ UNCHANGED status
        BY <2>1 DEF JobWrite
  <2>3. status' \in [Jobs -> Statuses]
    <3>1. {"queued", "failed"} \subseteq Statuses
          BY DEF Statuses
    <3> QED BY <2>2, <3>1, TryStatusTyped DEF TypeOK
  <2>4. term' \in [Runners -> 0..LeaseTerm]
        BY <2>1 DEF TypeOK
  <2> QED BY <2>1, <2>3, <2>4 DEF TypeOK
<1>4. CASE Crash(x)
      BY <1>4 DEF Crash, TypeOK
<1> QED BY <1>1, <1>2, <1>3, <1>4 DEF PipelineStep

LEMMA TypeStep == TypeOK /\ [Next]_vars => TypeOK'
<1> SUFFICES ASSUME TypeOK, [Next]_vars PROVE TypeOK'
    OBVIOUS
<1> USE ProductionRunAssumption
<1>0. run \in RunType
      BY DEF TypeOK, RunType
<1>1. ASSUME NEW j \in Jobs, CreateProduction(j) PROVE TypeOK'
      BY <1>1 DEF CreateProduction, SetRelease, TypeOK, Statuses, ReleaseStatuses
<1>2. ASSUME NEW j \in Jobs, NEW to \in {"queued", "owner_cancelled"}, OwnerMove(j, to)
      PROVE  TypeOK'
      BY <1>2 DEF OwnerMove, TypeOK, Statuses
<1>3. ASSUME NEW w \in Workers, WorkerClaim(w) PROVE TypeOK'
  <2>1. PICK j \in Jobs : /\ ClaimLease(w, j)
                          /\ Become(w, RunOf("claimed", j, NextAttempt(j), "none"))
                          /\ term' = [term EXCEPT ![w] = LeaseTerm]
        BY <1>3 DEF WorkerClaim, FirstClaimable
  <2>2. NextAttempt(j) \in 0..MaxAttempts
        BY NextAttemptTyped
  <2>3. run' \in RunType
        BY <1>0, <2>1, <2>2, BecomeTyped DEF Phases, Results, Runners
  <2>4. status' \in [Jobs -> Statuses] /\ lease' \in [Jobs -> 0..LeaseTerm]
        BY <2>1, LeaseTermTyped DEF ClaimLease, TypeOK, Statuses
  <2>5. attempts' \in [Jobs -> 0..MaxAttempts]
        BY <2>1, <2>2 DEF ClaimLease, TypeOK
  <2>6. term' \in [Runners -> 0..LeaseTerm]
        BY <2>1, LeaseTermTyped DEF TypeOK
  <2> QED BY <1>3, <2>3, <2>4, <2>5, <2>6 DEF WorkerClaim, TypeOK, RunType
<1>4. ASSUME NEW q \in Routes, RouteStep(q) PROVE TypeOK'
  <2>0. q \in Runners
        BY DEF Runners
  <2>1. ASSUME NEW j \in Jobs, RouteRequest(q, j) PROVE TypeOK'
    <3>1. run' \in RunType
          BY <1>0, <2>0, <2>1, BecomeTyped DEF RouteRequest, Phases, Results
    <3> QED BY <2>1, <3>1 DEF RouteRequest, TypeOK, RunType
  <2>2. CASE RouteRefused(q)
    <3>1. run' \in RunType
          BY <1>0, <2>0, <2>2, NoRunTyped DEF RouteRefused
    <3>2. CASE UNCHANGED <<status, attempts, lease>>
          BY <2>2, <3>1, <3>2 DEF RouteRefused, TypeOK, RunType
    <3>3. ASSUME NEW j \in Jobs, ClaimLease(q, j) PROVE TypeOK'
          BY <2>2, <3>1, <3>3, NextAttemptTyped
          DEF RouteRefused, ClaimLease, TypeOK, RunType, Statuses
    <3> QED BY <2>2, <3>2, <3>3 DEF RouteRefused, FirstClaimable
  <2>3. CASE RouteClaim(q)
    <3>1. run' \in RunType
          BY <1>0, <2>0, <2>3, RunMovesTyped DEF RouteClaim, Phases
    <3>2. run[q].job \in Jobs /\ ClaimLease(q, run[q].job)
          BY <2>3 DEF RouteClaim, FirstClaimable
    <3>3. /\ status' \in [Jobs -> Statuses] /\ lease' \in [Jobs -> 0..LeaseTerm]
          /\ attempts' \in [Jobs -> 0..MaxAttempts]
          BY <3>2, NextAttemptTyped, LeaseTermTyped DEF ClaimLease, TypeOK, Statuses
    <3>4. term' \in [Runners -> 0..LeaseTerm]
          BY <2>3, LeaseTermTyped DEF RouteClaim, TypeOK
    <3> QED BY <2>3, <3>1, <3>3, <3>4 DEF RouteClaim, TypeOK, RunType
  <2>4. CASE RouteStart(q)
    <3>1. status' \in [Jobs -> Statuses]
          BY <2>4, TryStatusTyped DEF RouteStart, Statuses
    <3>2. run' \in RunType
          BY <1>0, <2>0, <2>4, RunMovesTyped, NoRunTyped DEF RouteStart, Phases
    <3> QED BY <2>4, <3>1, <3>2 DEF RouteStart, TypeOK, RunType, Runners
  <2> QED BY <1>4, <2>1, <2>2, <2>3, <2>4 DEF RouteStep
<1>5. ASSUME NEW x \in Runners, PipelineStep(x) \/ Crash(x) PROVE TypeOK'
      BY <1>5, PipelineRunTyped, PipelineColumnsTyped DEF TypeOK, RunType
<1>6. CASE Tick
      BY <1>6, CountDownTyped DEF Tick, TypeOK
<1>7. ASSUME NEW p \in Publishers, NEW j \in Jobs, PublishBegin(p, j) PROVE TypeOK'
      BY <1>7 DEF PublishBegin, TypeOK
<1>8. ASSUME NEW p \in Publishers, PublishCommit(p) \/ PublishFail(p) PROVE TypeOK'
      BY <1>8 DEF PublishCommit, PublishFail, SetRelease, TypeOK, ReleaseStatuses
<1>9. CASE UNCHANGED vars
      BY <1>9 DEF vars, TypeOK
<1> QED
    BY <1>1, <1>2, <1>3, <1>4, <1>5, <1>6, <1>7, <1>8, <1>9
    DEF Next, OwnerCancelJob, OwnerRetryJob

\* Every column and every run keeps its type (TypeOK), whatever the sets of
\* releases, workers and requests and whatever the lease term.
THEOREM TypeCorrect == Spec => []TypeOK
<1>1. Init => TypeOK
      BY TypeInit
<1>2. TypeOK /\ [Next]_vars => TypeOK'
      BY TypeStep
<1> QED BY <1>1, <1>2, PTL DEF Spec

-----------------------------------------------------------------------------
(* Exclusion of leases.  What remains of a runner's own lease never exceeds *)
(* what remains of its job's, so a job whose lease is past, which is what a *)
(* claim asks for, has no runner with a lease in force.                     *)

TermWithinLease ==
  \A x \in Runners : term[x] > 0 => run[x].job \in Jobs /\ term[x] <= lease[run[x].job]

NoTermWithoutClaim ==
  \A x \in Runners : run[x].phase \in {"idle", "routed"} => term[x] = 0

LeaseInv == TypeOK /\ TermWithinLease /\ NoTermWithoutClaim /\ LeasesExclude

LEMMA LeaseInit == Init => LeaseInv
BY TypeInit DEF Init, LeaseInv, TermWithinLease, NoTermWithoutClaim, LeasesExclude

\* The fields of the entry a step writes.
LEMMA BecomeFields ==
  ASSUME run \in RunType, NEW x \in Runners, NEW p, NEW j, NEW n, NEW r,
         Become(x, RunOf(p, j, n, r))
  PROVE  /\ run'[x].phase = p /\ run'[x].job = j
         /\ \A y \in Runners \ {x} : run'[y] = run[y]
BY DEF RunType, Become, RunOf

\* A step that leaves the leases of jobs alone and takes no runner's job away
\* without its term preserves the invariant.
LEMMA LeaseFrame ==
  ASSUME LeaseInv, TypeOK', lease' = lease,
         \A x \in Runners : \/ term'[x] = 0
                            \/ term'[x] = term[x] /\ run'[x].job = run[x].job,
         \A x \in Runners : run'[x].phase \in {"idle", "routed"} => term'[x] = 0
  PROVE  LeaseInv'
<1>1. TermWithinLease'
      BY DEF LeaseInv, TermWithinLease, TypeOK
<1>2. NoTermWithoutClaim'
      BY DEF NoTermWithoutClaim
<1>3. LeasesExclude'
      BY DEF LeaseInv, LeasesExclude
<1> QED BY <1>1, <1>2, <1>3 DEF LeaseInv

\* A claim of job j by x: nobody holds a term on j, because its lease is past.
LEMMA LeaseClaim ==
  ASSUME LeaseInv, TypeOK', NEW x \in Runners, NEW j \in Jobs, lease[j] = 0,
         lease' = [lease EXCEPT ![j] = LeaseTerm],
         term' = [term EXCEPT ![x] = LeaseTerm],
         run'[x].job = j, run'[x].phase \notin {"idle", "routed"},
         \A y \in Runners \ {x} : run'[y] = run[y]
  PROVE  LeaseInv'
<1> USE ProductionRunAssumption
<1>1. \A y \in Runners \ {x} : term'[y] = term[y]
      BY DEF LeaseInv, TypeOK
<1>2. lease'[j] = LeaseTerm /\ term'[x] = LeaseTerm
      BY DEF LeaseInv, TypeOK
<1>3. \A i \in Jobs \ {j} : lease'[i] = lease[i]
      BY DEF LeaseInv, TypeOK
<1>4. \A y \in Runners \ {x} : run[y].job = j => term[y] = 0
  <2>1. TermWithinLease /\ \A y \in Runners : term[y] \in 0..LeaseTerm
        BY DEF LeaseInv, TypeOK
  <2> SUFFICES ASSUME NEW y \in Runners, run[y].job = j, term[y] > 0 PROVE FALSE
      BY <2>1
  <2>2. term[y] <= lease[j]
        BY <2>1 DEF TermWithinLease
  <2> QED BY <2>1, <2>2
<1>5. TermWithinLease'
      BY <1>1, <1>2, <1>3, <1>4 DEF LeaseInv, TermWithinLease
<1>6. NoTermWithoutClaim'
      BY <1>1 DEF LeaseInv, NoTermWithoutClaim
<1>7. LeasesExclude'
      BY <1>1, <1>4 DEF LeaseInv, LeasesExclude
<1> QED BY <1>5, <1>6, <1>7 DEF LeaseInv

\* A claim that leaves its job to nobody: a refused route request.
LEMMA LeaseDropped ==
  ASSUME LeaseInv, TypeOK', NEW j \in Jobs, lease[j] = 0,
         lease' = [lease EXCEPT ![j] = LeaseTerm], term' = term,
         \A x \in Runners : run'[x] = run[x] \/ term[x] = 0
  PROVE  LeaseInv'
<1>1. \A i \in Jobs \ {j} : lease'[i] = lease[i]
      BY DEF LeaseInv, TypeOK
<1>2. \A x \in Runners : run[x].job = j => term[x] = 0
      BY DEF LeaseInv, TermWithinLease, TypeOK
<1>3. TermWithinLease'
      BY <1>1, <1>2 DEF LeaseInv, TermWithinLease, TypeOK
<1>4. NoTermWithoutClaim'
      BY DEF LeaseInv, NoTermWithoutClaim
<1>5. LeasesExclude'
      BY DEF LeaseInv, LeasesExclude
<1> QED BY <1>3, <1>4, <1>5 DEF LeaseInv

LEMMA LeaseStep == LeaseInv /\ [Next]_vars => LeaseInv'
<1> SUFFICES ASSUME LeaseInv, [Next]_vars PROVE LeaseInv'
    OBVIOUS
<1> USE ProductionRunAssumption
<1>a. TypeOK'
      BY TypeStep DEF LeaseInv
<1>b. run \in RunType /\ lease \in [Jobs -> 0..LeaseTerm] /\ term \in [Runners -> 0..LeaseTerm]
      BY DEF LeaseInv, TypeOK, RunType
<1>c. ASSUME lease' = lease, term' = term, run' = run PROVE LeaseInv'
      BY <1>a, <1>c DEF LeaseInv, TermWithinLease, NoTermWithoutClaim, LeasesExclude
<1>1. ASSUME NEW j \in Jobs, CreateProduction(j) PROVE LeaseInv'
      BY <1>1, <1>c DEF CreateProduction
<1>2. ASSUME NEW j \in Jobs, NEW to, OwnerMove(j, to) PROVE LeaseInv'
  <2>1. /\ lease' = [lease EXCEPT ![j] = 0] /\ run' = run
        /\ term' = [x \in Runners |-> IF run[x].job = j THEN 0 ELSE term[x]]
        BY <1>2 DEF OwnerMove
  <2>2. TermWithinLease'
        BY <1>b, <2>1 DEF LeaseInv, TermWithinLease
  <2>3. NoTermWithoutClaim'
        BY <2>1 DEF LeaseInv, NoTermWithoutClaim
  <2>4. LeasesExclude'
        BY <2>1 DEF LeaseInv, LeasesExclude
  <2> QED BY <1>a, <2>2, <2>3, <2>4 DEF LeaseInv
<1>3. ASSUME NEW w \in Workers, WorkerClaim(w) PROVE LeaseInv'
  <2>1. PICK j \in Jobs : /\ lease[j] = 0
                          /\ ClaimLease(w, j)
                          /\ Become(w, RunOf("claimed", j, NextAttempt(j), "none"))
                          /\ term' = [term EXCEPT ![w] = LeaseTerm]
        BY <1>3 DEF WorkerClaim, FirstClaimable, Claimable
  <2>2. w \in Runners
        BY DEF Runners
  <2>3. /\ run'[w].phase = "claimed" /\ run'[w].job = j
        /\ \A y \in Runners \ {w} : run'[y] = run[y]
        BY <1>b, <2>1, <2>2, BecomeFields
  <2>4. lease' = [lease EXCEPT ![j] = LeaseTerm]
        BY <2>1 DEF ClaimLease
  <2> QED BY <1>a, <2>1, <2>2, <2>3, <2>4, LeaseClaim
<1>4. ASSUME NEW q \in Routes, RouteStep(q) PROVE LeaseInv'
  <2>0. q \in Runners
        BY DEF Runners
  <2>1. ASSUME NEW j \in Jobs, RouteRequest(q, j) PROVE LeaseInv'
    <3>1. term[q] = 0 /\ term' = term /\ lease' = lease
          BY <2>0, <2>1 DEF RouteRequest, Phase, LeaseInv, NoTermWithoutClaim
    <3>2. \A y \in Runners \ {q} : run'[y] = run[y]
          BY <1>b, <2>0, <2>1, BecomeFields DEF RouteRequest
    <3>3. \A x \in Runners : \/ term'[x] = 0
                             \/ term'[x] = term[x] /\ run'[x].job = run[x].job
          BY <3>1, <3>2
    <3>4. \A x \in Runners : run'[x].phase \in {"idle", "routed"} => term'[x] = 0
          BY <3>1, <3>2 DEF LeaseInv, NoTermWithoutClaim
    <3> QED BY <1>a, <3>1, <3>3, <3>4, LeaseFrame DEF LeaseInv
  <2>2. CASE RouteRefused(q)
    <3>1. term[q] = 0 /\ term' = term
          BY <2>0, <2>2 DEF RouteRefused, Phase, LeaseInv, NoTermWithoutClaim
    <3>2. \A y \in Runners \ {q} : run'[y] = run[y]
          BY <1>b, <2>0, <2>2, BecomeFields DEF RouteRefused, NoRun
    <3>3. CASE lease' = lease
      <4>1. \A x \in Runners : \/ term'[x] = 0
                               \/ term'[x] = term[x] /\ run'[x].job = run[x].job
            BY <3>1, <3>2
      <4>2. \A x \in Runners : run'[x].phase \in {"idle", "routed"} => term'[x] = 0
            BY <3>1, <3>2 DEF LeaseInv, NoTermWithoutClaim
      <4> QED BY <1>a, <3>3, <4>1, <4>2, LeaseFrame DEF LeaseInv
    <3>4. ASSUME NEW j \in FirstClaimable, ClaimLease(q, j) PROVE LeaseInv'
      <4>1. j \in Jobs /\ lease[j] = 0 /\ lease' = [lease EXCEPT ![j] = LeaseTerm]
            BY <3>4 DEF FirstClaimable, Claimable, ClaimLease
      <4>2. \A x \in Runners : run'[x] = run[x] \/ term[x] = 0
            BY <3>1, <3>2
      <4> QED BY <1>a, <3>1, <4>1, <4>2, LeaseDropped
    <3> QED BY <2>2, <3>3, <3>4 DEF RouteRefused
  <2>3. CASE RouteClaim(q)
    <3> DEFINE j == run[q].job
    <3>1. /\ j \in Jobs /\ lease[j] = 0 /\ lease' = [lease EXCEPT ![j] = LeaseTerm]
          /\ term' = [term EXCEPT ![q] = LeaseTerm]
          BY <2>3 DEF RouteClaim, FirstClaimable, Claimable, ClaimLease
    <3>2. /\ run'[q].phase = "granted" /\ run'[q].job = j
          /\ \A y \in Runners \ {q} : run'[y] = run[y]
          BY <1>b, <2>0, <2>3, BecomeFields DEF RouteClaim, To
    <3> QED BY <1>a, <2>0, <3>1, <3>2, LeaseClaim
  <2>4. CASE RouteStart(q)
    <3>1. lease' = lease
          BY <2>4 DEF RouteStart
    <3>2. CASE To(q, "claimed") /\ term' = term
      <4>1. /\ run'[q].phase = "claimed" /\ run'[q].job = run[q].job
            /\ \A y \in Runners \ {q} : run'[y] = run[y]
            BY <1>b, <2>0, <3>2, BecomeFields DEF To
      <4>2. \A x \in Runners : run'[x].phase \in {"idle", "routed"} => term'[x] = 0
            BY <3>2, <4>1 DEF LeaseInv, NoTermWithoutClaim
      <4> QED BY <1>a, <3>1, <3>2, <4>1, <4>2, LeaseFrame DEF LeaseInv
    <3>3. CASE Become(q, NoRun) /\ term' = [term EXCEPT ![q] = 0]
      <4>1. \A y \in Runners \ {q} : run'[y] = run[y] /\ term'[y] = term[y]
            BY <1>b, <2>0, <3>3, BecomeFields DEF NoRun
      <4>2. term'[q] = 0
            BY <1>b, <2>0, <3>3
      <4>3. \A x \in Runners : run'[x].phase \in {"idle", "routed"} => term'[x] = 0
            BY <4>1, <4>2 DEF LeaseInv, NoTermWithoutClaim
      <4> QED BY <1>a, <3>1, <4>1, <4>2, <4>3, LeaseFrame DEF LeaseInv
    <3> QED BY <2>4, <3>2, <3>3 DEF RouteStart
  <2> QED BY <1>4, <2>1, <2>2, <2>3, <2>4 DEF RouteStep
<1>5. ASSUME NEW x \in Runners, PipelineStep(x) \/ Crash(x) PROVE LeaseInv'
  <2>1. lease' = lease
        BY <1>5, PipelineColumnsTyped DEF LeaseInv
  <2>2. CASE Close(x) \/ Crash(x)
    <3>1. Become(x, NoRun) /\ term' = [term EXCEPT ![x] = 0]
          BY <2>2 DEF Close, Crash
    <3>2. \A y \in Runners \ {x} : run'[y] = run[y] /\ term'[y] = term[y]
          BY <1>b, <3>1, BecomeFields DEF NoRun
    <3>3. term'[x] = 0
          BY <1>b, <3>1
    <3>4. \A y \in Runners : run'[y].phase \in {"idle", "routed"} => term'[y] = 0
          BY <3>2, <3>3 DEF LeaseInv, NoTermWithoutClaim
    <3> QED BY <1>a, <2>1, <3>2, <3>3, <3>4, LeaseFrame DEF LeaseInv
  <2>3. ASSUME ~(Close(x) \/ Crash(x)) PROVE LeaseInv'
    <3>1. PICK p \in {"checked", "entered", "producing", "closing"} :
            \E n, r : Become(x, RunOf(p, run[x].job, n, r))
          BY <1>5, <2>3
          DEF PipelineStep, ReadRelease, EnterProduction, EnterExecutors, LandInReview,
              LandInPlanned, StatementThrows, To, Finish
    <3>2. term' = term
          BY <1>5, <2>3
          DEF PipelineStep, ReadRelease, EnterProduction, EnterExecutors, LandInReview,
              LandInPlanned, StatementThrows
    <3>3. /\ run'[x].phase = p /\ run'[x].job = run[x].job
          /\ \A y \in Runners \ {x} : run'[y] = run[y]
          BY <1>b, <3>1, BecomeFields
    <3>4. \A y \in Runners : run'[y].phase \in {"idle", "routed"} => term'[y] = 0
          BY <3>2, <3>3 DEF LeaseInv, NoTermWithoutClaim
    <3> QED BY <1>a, <2>1, <3>2, <3>3, <3>4, LeaseFrame DEF LeaseInv
  <2> QED BY <2>2, <2>3
<1>6. CASE Tick
  <2>1. /\ lease' = [j \in Jobs |-> CountDown(lease[j])]
        /\ term' = [x \in Runners |-> CountDown(term[x])] /\ run' = run
        BY <1>6 DEF Tick
  <2>2. TermWithinLease'
        BY <1>b, <2>1 DEF LeaseInv, TermWithinLease, CountDown
  <2>3. NoTermWithoutClaim'
        BY <2>1 DEF LeaseInv, NoTermWithoutClaim, CountDown
  <2>4. LeasesExclude'
        BY <1>b, <2>1 DEF LeaseInv, LeasesExclude, CountDown
  <2> QED BY <1>a, <2>2, <2>3, <2>4 DEF LeaseInv
<1>7. ASSUME NEW p \in Publishers,
             \/ \E j \in Jobs : PublishBegin(p, j)
             \/ PublishCommit(p) \/ PublishFail(p)
      PROVE  LeaseInv'
      BY <1>7, <1>c DEF PublishBegin, PublishCommit, PublishFail
<1>8. CASE UNCHANGED vars
      BY <1>8, <1>c DEF vars
<1> QED
    BY <1>1, <1>2, <1>3, <1>4, <1>5, <1>6, <1>7, <1>8
    DEF Next, OwnerCancelJob, OwnerRetryJob

\* Two runs of one job never both stand on a lease in force (LeasesExclude),
\* for every number of workers and requests and every lease term: claimLease
\* asks for a past lease, and no later write gives a lease back.
THEOREM LeaseExclusion == Spec => []LeasesExclude
<1>1. Init => LeaseInv
      BY LeaseInit
<1>2. LeaseInv /\ [Next]_vars => LeaseInv'
      BY LeaseStep
<1>3. LeaseInv => LeasesExclude
      BY DEF LeaseInv
<1> QED BY <1>1, <1>2, <1>3, PTL DEF Spec

-----------------------------------------------------------------------------
(* Finality.  A job and its release are created together, so whatever a    *)
(* runner or a publisher holds has both rows, and no later CreateProduction *)
(* can touch a row that has been cancelled.                                *)

RowsExist ==
  /\ TypeOK
  /\ \A j \in Jobs : status[j] = "absent" <=> release[j] = "absent"
  /\ \A x \in Runners : run[x].phase # "idle" => run[x].job \in Jobs /\ status[run[x].job] # "absent"
  /\ \A p \in Publishers : publishing[p] # None => status[publishing[p]] # "absent"

\* How a step may change the status of a job and the release of a job: rows are
\* never removed, and what is cancelled stays so.
StatusMoves ==
  /\ \A j \in Jobs : status[j] # "absent" => status'[j] # "absent"
  /\ \A j \in Jobs : status[j] = "owner_cancelled" => status'[j] = "owner_cancelled"

LEMMA TryStatusMoves ==
  ASSUME TypeOK, NEW i \in Jobs, NEW to \in Statuses \ {"absent"}, status[i] # "absent",
         TryStatus(i, to)
  PROVE  StatusMoves /\ \A j \in Jobs : status[j] = "absent" => status'[j] = "absent"
<1>1. status[i] = "owner_cancelled" => status' = status
  <2> SUFFICES ASSUME status[i] = "owner_cancelled", MayMove(status[i], to)
               PROVE  to = "owner_cancelled"
      BY DEF TypeOK, TryStatus
  <2>1. SuccessorsOf["owner_cancelled"] = {}
        BY DEF SuccessorsOf
  <2> QED BY <2>1 DEF MayMove
<1>2. \/ status' = status
      \/ status' = [status EXCEPT ![i] = to] /\ status[i] # "owner_cancelled"
      BY <1>1 DEF TryStatus
<1> QED BY <1>2 DEF TypeOK, StatusMoves

\* A claim writes leased over queued or leased.
LEMMA ClaimMoves ==
  ASSUME TypeOK, NEW x, NEW i \in FirstClaimable, ClaimLease(x, i)
  PROVE  StatusMoves /\ \A j \in Jobs : status[j] = "absent" => status'[j] = "absent"
<1>1. i \in Jobs /\ status[i] \in {"queued", "leased"}
      BY DEF FirstClaimable, Claimable
<1>2. status' = [status EXCEPT ![i] = "leased"]
      BY DEF ClaimLease
<1> QED BY <1>1, <1>2 DEF TypeOK, StatusMoves

\* A step that creates and removes no row, and holds nothing that has none.
LEMMA RowsFrame ==
  ASSUME RowsExist, TypeOK', StatusMoves,
         \A j \in Jobs : status[j] = "absent" => status'[j] = "absent",
         \A j \in Jobs : release'[j] = "absent" <=> release[j] = "absent",
         \A x \in Runners : run'[x].phase # "idle" =>
                              run'[x].job \in Jobs /\ status[run'[x].job] # "absent",
         \A p \in Publishers : publishing'[p] # None => status[publishing'[p]] # "absent"
  PROVE  RowsExist'
<1>1. \A j \in Jobs : status'[j] = "absent" <=> release'[j] = "absent"
      BY DEF RowsExist, StatusMoves
<1>2. \A x \in Runners : run'[x].phase # "idle" =>
                           run'[x].job \in Jobs /\ status'[run'[x].job] # "absent"
      BY DEF StatusMoves
<1>3. \A p \in Publishers : publishing'[p] # None => status'[publishing'[p]] # "absent"
      BY DEF StatusMoves, TypeOK
<1> QED BY <1>1, <1>2, <1>3 DEF RowsExist

\* What a step of a runner does to status, release and its own entry.
LEMMA PipelineRows ==
  ASSUME RowsExist, NEW x \in Runners, PipelineStep(x) \/ Crash(x)
  PROVE  /\ StatusMoves
         /\ \A j \in Jobs : status[j] = "absent" => status'[j] = "absent"
         /\ \A j \in Jobs : release'[j] = "absent" <=> release[j] = "absent"
         /\ \A y \in Runners : run'[y].phase # "idle" =>
                                run'[y].job \in Jobs /\ status[run'[y].job] # "absent"
<1>a. TypeOK /\ run \in RunType
      BY DEF RowsExist, TypeOK, RunType
<1>1. CASE Close(x) \/ Crash(x)
  <2>1. Become(x, NoRun) /\ release' = release
        BY <1>1 DEF Close, Crash
  <2>2. run'[x].phase = "idle" /\ \A y \in Runners \ {x} : run'[y] = run[y]
        BY <1>a, <2>1, BecomeFields DEF NoRun
  <2>3. \/ status' = status
        \/ \E to \in {"failed", "queued"} : run[x].phase = "closing" /\ TryStatus(run[x].job, to)
        BY <1>1 DEF Close, Crash, JobWrite, Phase
  <2>4. StatusMoves /\ \A j \in Jobs : status[j] = "absent" => status'[j] = "absent"
    <3>1. CASE status' = status
          BY <3>1 DEF StatusMoves
    <3>2. ASSUME NEW to \in {"failed", "queued"}, run[x].phase = "closing",
                 TryStatus(run[x].job, to)
          PROVE  StatusMoves /\ \A j \in Jobs : status[j] = "absent" => status'[j] = "absent"
      <4>1. run[x].job \in Jobs /\ status[run[x].job] # "absent"
            BY <3>2 DEF RowsExist
      <4>2. to \in Statuses \ {"absent"}
            BY DEF Statuses
      <4> QED BY <1>a, <3>2, <4>1, <4>2, TryStatusMoves
    <3> QED BY <2>3, <3>1, <3>2
  <2> QED BY <2>1, <2>2, <2>4 DEF RowsExist
<1>2. ASSUME ~(Close(x) \/ Crash(x))
      PROVE  /\ status' = status
             /\ run[x].phase # "idle"
             /\ \E p, n, r : Become(x, RunOf(p, run[x].job, n, r))
             /\ \/ release' = release
                \/ \E to \in {"in_production", "review", "planned"} :
                     release' = [release EXCEPT ![run[x].job] = to]
  <2>1. \/ ReadRelease(x) \/ EnterProduction(x) \/ EnterExecutors(x)
        \/ LandInReview(x) \/ LandInPlanned(x) \/ StatementThrows(x)
        BY <1>2 DEF PipelineStep
  <2>2. status' = status
        BY <2>1
        DEF ReadRelease, EnterProduction, EnterExecutors, LandInReview, LandInPlanned,
            StatementThrows
  <2>3. run[x].phase # "idle"
        BY <2>1
        DEF ReadRelease, EnterProduction, EnterExecutors, LandInReview, LandInPlanned,
            StatementThrows, Phase, Producing
  <2>4. \E p, n, r : Become(x, RunOf(p, run[x].job, n, r))
        BY <2>1
        DEF ReadRelease, EnterProduction, EnterExecutors, LandInReview, LandInPlanned,
            StatementThrows, To, Finish
  <2>5. \/ release' = release
        \/ \E to \in {"in_production", "review", "planned"} :
             release' = [release EXCEPT ![run[x].job] = to]
        BY <2>1
        DEF ReadRelease, EnterProduction, EnterExecutors, LandInReview, LandInPlanned,
            StatementThrows, SetRelease
  <2> QED BY <2>2, <2>3, <2>4, <2>5
<1>3. ASSUME ~(Close(x) \/ Crash(x))
      PROVE  /\ \A j \in Jobs : release'[j] = "absent" <=> release[j] = "absent"
             /\ \A y \in Runners : run'[y].phase # "idle" =>
                                    run'[y].job \in Jobs /\ status[run'[y].job] # "absent"
  <2>1. run[x].job \in Jobs /\ status[run[x].job] # "absent" /\ release[run[x].job] # "absent"
        BY <1>2, <1>3 DEF RowsExist
  <2>2. run'[x].job = run[x].job /\ \A y \in Runners \ {x} : run'[y] = run[y]
        BY <1>a, <1>2, <1>3, BecomeFields
  <2>3. \A j \in Jobs : release'[j] = "absent" <=> release[j] = "absent"
        BY <1>a, <1>2, <1>3, <2>1 DEF TypeOK
  <2> QED BY <2>1, <2>2, <2>3 DEF RowsExist
<1> QED BY <1>1, <1>2, <1>3 DEF StatusMoves

LEMMA RowsInit == Init => RowsExist
BY TypeInit DEF Init, RowsExist, NoRun, RunOf

LEMMA RowsStep == RowsExist /\ [Next]_vars => RowsExist' /\ StatusMoves
<1> SUFFICES ASSUME RowsExist, [Next]_vars PROVE RowsExist' /\ StatusMoves
    OBVIOUS
<1>a. TypeOK'
      BY TypeStep DEF RowsExist
<1>b. TypeOK /\ run \in RunType
      BY DEF RowsExist, TypeOK, RunType
<1>c. \A x \in Runners : run[x].phase # "idle" =>
                         run[x].job \in Jobs /\ status[run[x].job] # "absent"
      BY DEF RowsExist
<1>d. \A p \in Publishers : publishing[p] # None => status[publishing[p]] # "absent"
      BY DEF RowsExist
<1>1. ASSUME NEW i \in Jobs, CreateProduction(i) PROVE RowsExist' /\ StatusMoves
  <2>1. /\ release[i] = "absent" /\ status[i] = "absent"
        /\ release' = [release EXCEPT ![i] = "planned"]
        /\ status' = [status EXCEPT ![i] = "queued"]
        /\ run' = run /\ publishing' = publishing
        BY <1>1 DEF CreateProduction, SetRelease, RowsExist
  <2>2. \A j \in Jobs : /\ status'[j] = "absent" <=> release'[j] = "absent"
                        /\ status[j] # "absent" => status'[j] # "absent"
                        /\ status[j] = "owner_cancelled" => status'[j] = "owner_cancelled"
        BY <1>b, <2>1 DEF RowsExist, TypeOK
  <2>3. \A p \in Publishers : publishing'[p] # None => status'[publishing'[p]] # "absent"
        BY <1>b, <1>d, <2>1, <2>2 DEF TypeOK
  <2> QED BY <1>a, <1>c, <2>1, <2>2, <2>3 DEF RowsExist, StatusMoves
<1>2. ASSUME NEW i \in Jobs, OwnerCancelJob(i) \/ OwnerRetryJob(i)
      PROVE  RowsExist' /\ StatusMoves
  <2>1. PICK to \in {"queued", "owner_cancelled"} :
          /\ status[i] \in {"queued", "leased", "running", "failed", "dead_letter"}
          /\ status' = [status EXCEPT ![i] = to]
          /\ release' = release /\ run' = run /\ publishing' = publishing
        BY <1>2 DEF OwnerCancelJob, OwnerRetryJob, OwnerMove
  <2>2. StatusMoves /\ \A j \in Jobs : status[j] = "absent" => status'[j] = "absent"
        BY <1>b, <2>1 DEF TypeOK, StatusMoves
  <2> QED BY <1>a, <1>c, <1>d, <2>1, <2>2, RowsFrame
<1>3. ASSUME NEW w \in Workers, WorkerClaim(w) PROVE RowsExist' /\ StatusMoves
  <2>1. PICK i \in FirstClaimable : /\ ClaimLease(w, i)
                                   /\ Become(w, RunOf("claimed", i, NextAttempt(i), "none"))
        BY <1>3 DEF WorkerClaim
  <2>2. StatusMoves /\ \A j \in Jobs : status[j] = "absent" => status'[j] = "absent"
        BY <1>b, <2>1, ClaimMoves
  <2>3. w \in Runners /\ i \in Jobs /\ status[i] # "absent"
        BY DEF Runners, FirstClaimable, Claimable
  <2>4. run'[w].job = i /\ \A y \in Runners \ {w} : run'[y] = run[y]
        BY <1>b, <2>1, <2>3, BecomeFields
  <2>5. release' = release /\ publishing' = publishing
        BY <1>3 DEF WorkerClaim
  <2> QED BY <1>a, <1>c, <1>d, <2>2, <2>3, <2>4, <2>5, RowsFrame
<1>4. ASSUME NEW q \in Routes, RouteStep(q) PROVE RowsExist' /\ StatusMoves
  <2>1. q \in Runners /\ release' = release /\ publishing' = publishing
        BY <1>4
        DEF Runners, RouteStep, RouteRequest, RouteRefused, RouteClaim, RouteStart
  <2>2. StatusMoves /\ \A j \in Jobs : status[j] = "absent" => status'[j] = "absent"
    <3>1. CASE status' = status
          BY <3>1 DEF StatusMoves
    <3>2. ASSUME NEW i \in FirstClaimable, ClaimLease(q, i)
          PROVE  StatusMoves /\ \A j \in Jobs : status[j] = "absent" => status'[j] = "absent"
          BY <1>b, <3>2, ClaimMoves
    <3>3. ASSUME run[q].phase = "granted", TryStatus(run[q].job, "running")
          PROVE  StatusMoves /\ \A j \in Jobs : status[j] = "absent" => status'[j] = "absent"
      <4>1. "running" \in Statuses \ {"absent"}
            BY DEF Statuses
      <4>2. run[q].job \in Jobs /\ status[run[q].job] # "absent"
            BY <1>c, <2>1, <3>3
      <4> QED BY <1>b, <3>3, <4>1, <4>2, TryStatusMoves
    <3> QED
        BY <1>4, <3>1, <3>2, <3>3
        DEF RouteStep, RouteRequest, RouteRefused, RouteClaim, RouteStart, Phase
  <2>3. \A x \in Runners : run'[x].phase # "idle" =>
                           run'[x].job \in Jobs /\ status[run'[x].job] # "absent"
    <3>1. CASE Become(q, NoRun)
      <4>1. run'[q].phase = "idle" /\ \A y \in Runners \ {q} : run'[y] = run[y]
            BY <1>b, <2>1, <3>1, BecomeFields DEF NoRun
      <4> QED BY <1>c, <4>1
    <3>2. ASSUME run[q].phase # "idle", \E p, n, r : Become(q, RunOf(p, run[q].job, n, r))
          PROVE  \A x \in Runners : run'[x].phase # "idle" =>
                                    run'[x].job \in Jobs /\ status[run'[x].job] # "absent"
      <4>1. run'[q].job = run[q].job /\ \A y \in Runners \ {q} : run'[y] = run[y]
            BY <1>b, <2>1, <3>2, BecomeFields
      <4> QED BY <1>c, <2>1, <3>2, <4>1
    <3>3. ASSUME NEW i \in Jobs, RouteRequest(q, i)
          PROVE  \A x \in Runners : run'[x].phase # "idle" =>
                                    run'[x].job \in Jobs /\ status[run'[x].job] # "absent"
      <4>1. status[i] # "absent" /\ Become(q, RunOf("routed", i, 0, "none"))
            BY <3>3 DEF RouteRequest, RowsExist
      <4>2. run'[q].job = i /\ \A y \in Runners \ {q} : run'[y] = run[y]
            BY <1>b, <2>1, <4>1, BecomeFields
      <4> QED BY <1>c, <4>1, <4>2
    <3>4. CASE RouteRefused(q)
          BY <3>1, <3>4 DEF RouteRefused
    <3>5. CASE RouteClaim(q)
          BY <3>2, <3>5 DEF RouteClaim, To, Phase
    <3>6. CASE RouteStart(q)
          BY <3>1, <3>2, <3>6 DEF RouteStart, To, Phase
    <3> QED BY <1>4, <3>3, <3>4, <3>5, <3>6 DEF RouteStep
  <2> QED BY <1>a, <1>d, <2>1, <2>2, <2>3, RowsFrame
<1>5. ASSUME NEW x \in Runners, PipelineStep(x) \/ Crash(x) PROVE RowsExist' /\ StatusMoves
  <2>1. publishing' = publishing
        BY <1>5, <1>b, PipelineColumnsTyped
  <2> QED BY <1>a, <1>d, <1>5, <2>1, PipelineRows, RowsFrame
<1>6. ASSUME NEW p \in Publishers,
             \/ \E j \in Jobs : PublishBegin(p, j)
             \/ PublishCommit(p) \/ PublishFail(p)
      PROVE  RowsExist' /\ StatusMoves
  <2>1. status' = status /\ run' = run
        BY <1>6 DEF PublishBegin, PublishCommit, PublishFail
  <2>2. \A j \in Jobs : release'[j] = "absent" <=> release[j] = "absent"
        BY <1>6, <1>b, <1>d DEF PublishBegin, PublishCommit, PublishFail, SetRelease, TypeOK, RowsExist
  <2>3. \A y \in Publishers : publishing'[y] # None => status[publishing'[y]] # "absent"
        BY <1>6, <1>b, <1>d DEF PublishBegin, PublishCommit, PublishFail, TypeOK, RowsExist
  <2> QED BY <1>a, <1>c, <2>1, <2>2, <2>3, RowsFrame DEF StatusMoves
<1>7. CASE Tick \/ UNCHANGED vars
  <2>1. status' = status /\ release' = release /\ run' = run /\ publishing' = publishing
        BY <1>7 DEF Tick, vars
  <2> QED BY <1>a, <1>c, <1>d, <2>1, RowsFrame DEF StatusMoves
<1> QED BY <1>1, <1>2, <1>3, <1>4, <1>5, <1>6, <1>7 DEF Next

\* A cancelled job stays cancelled (CancelIsFinal), for every number of runs
\* that still report on it: their updates go by id and are refused by the
\* trigger, and the job's row is never inserted again.
THEOREM CancelFinal == Spec => CancelIsFinal
<1>1. Init => RowsExist
      BY RowsInit
<1>2. RowsExist /\ [Next]_vars => RowsExist'
      BY RowsStep
<1>3. RowsExist /\ [Next]_vars =>
        [\A j \in Jobs : status[j] = "owner_cancelled" => status'[j] = "owner_cancelled"]_vars
      BY RowsStep DEF StatusMoves
<1> QED BY <1>1, <1>2, <1>3, PTL DEF Spec, CancelIsFinal

-----------------------------------------------------------------------------
(* Publication.  Only a run that is past its check writes the release, and *)
(* a run passes its check only on a release that is not published.         *)

Writing == {"checked", "entered", "producing"}

LEMMA SettledFrame ==
  ASSUME NEW j \in Jobs, Settled(j), release'[j] = "published",
         \A x \in Runners : run'[x] = run[x] \/ run'[x].phase \notin Writing \/ run'[x].job # j
  PROVE  Settled(j)'
BY DEF Settled, Writing

LEMMA SettledStep ==
  TypeOK /\ [Next]_vars => \A j \in Jobs : Settled(j) => Settled(j)'
<1> SUFFICES ASSUME TypeOK, [Next]_vars, NEW j \in Jobs, Settled(j) PROVE Settled(j)'
    OBVIOUS
<1>a. run \in RunType /\ release[j] = "published"
      BY DEF TypeOK, RunType, Settled
<1>b. \A x \in Runners : run[x].job = j => run[x].phase \notin Writing
      BY DEF Settled, Writing
<1>1. ASSUME NEW i \in Jobs, CreateProduction(i) PROVE Settled(j)'
      BY <1>1, <1>a, SettledFrame DEF CreateProduction, SetRelease, TypeOK
<1>2. ASSUME NEW i \in Jobs, OwnerCancelJob(i) \/ OwnerRetryJob(i) PROVE Settled(j)'
      BY <1>2, <1>a, SettledFrame DEF OwnerCancelJob, OwnerRetryJob, OwnerMove
<1>3. ASSUME NEW w \in Workers, WorkerClaim(w) PROVE Settled(j)'
  <2>1. PICK i, n : Become(w, RunOf("claimed", i, n, "none"))
        BY <1>3 DEF WorkerClaim
  <2>2. run'[w].phase = "claimed" /\ \A y \in Runners \ {w} : run'[y] = run[y]
        BY <1>a, <2>1, BecomeFields DEF Runners
  <2> QED BY <1>3, <1>a, <2>2, SettledFrame DEF WorkerClaim, Writing
<1>4. ASSUME NEW q \in Routes, RouteStep(q) PROVE Settled(j)'
  <2>1. PICK p \in {"idle", "routed", "granted", "claimed"} :
          \E i, n, r : Become(q, RunOf(p, i, n, r))
        BY <1>4
        DEF RouteStep, RouteRequest, RouteRefused, RouteClaim, RouteStart, To, NoRun
  <2>2. run'[q].phase = p /\ \A y \in Runners \ {q} : run'[y] = run[y]
        BY <1>a, <2>1, BecomeFields DEF Runners
  <2>3. release' = release
        BY <1>4 DEF RouteStep, RouteRequest, RouteRefused, RouteClaim, RouteStart
  <2> QED BY <1>a, <2>2, <2>3, SettledFrame DEF Writing
<1>5. ASSUME NEW x \in Runners, PipelineStep(x) \/ Crash(x) PROVE Settled(j)'
  <2>1. CASE Close(x) \/ Crash(x)
    <3>1. run'[x].phase = "idle" /\ \A y \in Runners \ {x} : run'[y] = run[y]
          BY <1>a, <2>1, BecomeFields DEF Close, Crash, NoRun
    <3> QED BY <1>a, <2>1, <3>1, SettledFrame DEF Close, Crash, Writing
  <2>2. CASE ReadRelease(x)
    <3>1. \/ run[x].job # j /\ To(x, "checked")
          \/ Finish(x, "threw")
          BY <1>a, <2>2 DEF ReadRelease, Reopenable
    <3>2. /\ run'[x].job # j \/ run'[x].phase = "closing"
          /\ \A y \in Runners \ {x} : run'[y] = run[y]
          BY <1>a, <3>1, BecomeFields DEF To, Finish
    <3> QED BY <1>a, <2>2, <3>2, SettledFrame DEF ReadRelease, Writing
  <2>3. CASE StatementThrows(x)
    <3>1. run'[x].phase = "closing" /\ \A y \in Runners \ {x} : run'[y] = run[y]
          BY <1>a, <2>3, BecomeFields DEF StatementThrows, Finish
    <3> QED BY <1>a, <2>3, <3>1, SettledFrame DEF StatementThrows, Writing
  <2>4. CASE EnterProduction(x) \/ EnterExecutors(x) \/ LandInReview(x) \/ LandInPlanned(x)
    <3>1. run[x].job # j
          BY <1>b, <2>4
          DEF EnterProduction, EnterExecutors, LandInReview, LandInPlanned, Producing, Phase,
              Writing
    <3>2. \E p, n, r : Become(x, RunOf(p, run[x].job, n, r))
          BY <2>4
          DEF EnterProduction, EnterExecutors, LandInReview, LandInPlanned, To, Finish
    <3>3. run'[x].job # j /\ \A y \in Runners \ {x} : run'[y] = run[y]
          BY <1>a, <3>1, <3>2, BecomeFields
    <3>4. release'[j] = release[j]
          BY <2>4, <3>1
          DEF EnterProduction, EnterExecutors, LandInReview, LandInPlanned, SetRelease, TypeOK
    <3> QED BY <1>a, <3>3, <3>4, SettledFrame
  <2> QED BY <1>5, <2>1, <2>2, <2>3, <2>4 DEF PipelineStep
<1>6. ASSUME NEW p \in Publishers,
             \/ \E i \in Jobs : PublishBegin(p, i)
             \/ PublishCommit(p) \/ PublishFail(p)
      PROVE  Settled(j)'
  <2>1. run' = run /\ release'[j] = "published"
        BY <1>6, <1>a DEF PublishBegin, PublishCommit, PublishFail, SetRelease, TypeOK
  <2> QED BY <2>1, SettledFrame
<1>7. CASE Tick \/ UNCHANGED vars
      BY <1>7, <1>a, SettledFrame DEF Tick, vars
<1> QED BY <1>1, <1>2, <1>3, <1>4, <1>5, <1>6, <1>7 DEF Next

\* A publication is final once the runs already past their check are over
\* (SettledPublicationIsFinal), for every number of workers, requests and
\* publications.
THEOREM PublicationFinal == Spec => SettledPublicationIsFinal
<1>1. Init => TypeOK
      BY TypeInit
<1>2. TypeOK /\ [Next]_vars => TypeOK'
      BY TypeStep
<1>3. TypeOK /\ [Next]_vars => [\A j \in Jobs : Settled(j) => Settled(j)']_vars
      BY SettledStep
<1> QED BY <1>1, <1>2, <1>3, PTL DEF Spec, SettledPublicationIsFinal
=============================================================================
