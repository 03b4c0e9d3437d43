--------------------------- MODULE JobLifecycleProofs ---------------------------
(***************************************************************************)
(* Theorems about JobLifecycle, for every set of jobs, workers and         *)
(* approvals and every limit, budget and lease duration.                   *)
(***************************************************************************)
EXTENDS JobLifecycle, FiniteSetTheorems, WellFoundedInduction, TLAPS

-----------------------------------------------------------------------------
(* Sums.  The budget granted to a job is a sum over a set that grows, by   *)
(* the library's fold, which takes the elements in an order of its own.    *)

\* A nonempty set of natural numbers has a least element.
LEMMA LeastOf ==
  ASSUME NEW R, IsWellFoundedOn(R, Nat), \A x, y \in Nat : <<y, x>> \in R <=> y < x,
         NEW T, T \subseteq Nat, T # {}
  PROVE  \E x \in T : \A y \in T : x <= y
<1>3. PICK x \in T : \A y \in T : ~ (<<y, x>> \in R)
  <2>1. \A U \in SUBSET Nat : U # {} => \E x \in U : \A y \in U : ~ (<<y, x>> \in R)
    BY WFMin
  <2> QED
    BY <2>1
<1>4. \A y \in T : ~ (y < x) => x <= y
  OBVIOUS
<1>5. \A y \in T : ~ (y < x)
  <2> SUFFICES ASSUME NEW y \in T PROVE ~ (y < x)
    OBVIOUS
  <2>1. x \in Nat /\ y \in Nat /\ ~ (<<y, x>> \in R)
    BY <1>3
  <2> QED
    BY <2>1, Zenon
<1> QED
  BY <1>4, <1>5

LEMMA Least ==
  ASSUME NEW T, T \subseteq Nat, T # {}
  PROVE  \E x \in T : \A y \in T : x <= y
<1>1. IsWellFoundedOn(OpToRel(<, Nat), Nat)
  BY NatLessThanWellFounded
<1>2. \A x, y \in Nat : <<y, x>> \in OpToRel(<, Nat) <=> y < x
  BY DEF OpToRel
<1> QED
  BY <1>1, <1>2, LeastOf, Zenon


Picked(s) == CHOOSE x \in s : TRUE
Adds(g, b, S) ==
  \A s \in SUBSET S : g[s] = IF s = {} THEN 0 ELSE b[Picked(s)] + g[s \ {Picked(s)}]

\* The sum of what b gives the elements of a set.
Total(b, S) == MapThenSumSet(LAMBDA e : b[e], S)

LEMMA PickedIn == ASSUME NEW s, s # {} PROVE Picked(s) \in s
BY DEF Picked

\* Of a set of subsets of a finite set that is not empty, one has the fewest elements.
LEMMA Smallest ==
  ASSUME NEW S, IsFiniteSet(S), NEW B, B \subseteq SUBSET S, B # {}
  PROVE  \E s \in B : \A r \in B : Cardinality(s) <= Cardinality(r)
<1>1. \A s \in B : Cardinality(s) \in Nat
  BY FS_Subset, FS_CardinalityType
<1> DEFINE C == {Cardinality(s) : s \in B}
<1>2. C \subseteq Nat /\ C # {}
  BY <1>1
<1>3. PICK n \in C : \A k \in C : n <= k
  <2> HIDE DEF C
  <2> QED BY <1>2, Least, Zenon
<1>4. PICK s \in B : n = Cardinality(s)
  BY <1>3
<1> QED BY <1>3, <1>4

LEMMA OneFewer ==
  ASSUME NEW S, IsFiniteSet(S), NEW s \in SUBSET S, NEW x \in s
  PROVE  /\ Cardinality(s \ {x}) = Cardinality(s) - 1
         /\ Cardinality(s \ {x}) \in Nat /\ Cardinality(s) \in Nat
<1>1. IsFiniteSet(s)
  BY FS_Subset
<1> QED BY <1>1, FS_RemoveElement, FS_CardinalityType

\* Whatever the order the library takes the elements in, the sum is that of any one element
\* and the rest.
LEMMA AnyFirst ==
  ASSUME NEW S, IsFiniteSet(S), NEW b, \A x \in S : b[x] \in Int,
         NEW g, \A s \in SUBSET S : g[s] \in Int, Adds(g, b, S),
         NEW r \in SUBSET S, NEW e \in r
  PROVE  g[r] = b[e] + g[r \ {e}]
<1> DEFINE Bad == {s \in SUBSET S : \E x \in s : g[s] # b[x] + g[s \ {x}]}
<1> SUFFICES ASSUME Bad # {} PROVE FALSE
  OBVIOUS
<1>1. PICK s \in Bad : \A o \in Bad : Cardinality(s) <= Cardinality(o)
  <2>1. Bad \subseteq SUBSET S
    OBVIOUS
  <2> HIDE DEF Bad
  <2> QED BY <2>1, Smallest, Zenon
<1>2. PICK x \in s : g[s] # b[x] + g[s \ {x}]
  BY <1>1
<1>3. PICK y \in s : y = Picked(s)
  BY <1>2, PickedIn
<1>4. g[s] = b[y] + g[s \ {y}]
  BY <1>1, <1>2, <1>3 DEF Adds
<1>5. y # x
  BY <1>2, <1>4
<1>12. s \in SUBSET S
  BY <1>1
<1>6. ASSUME NEW z \in s, NEW w \in s \ {z}
      PROVE  g[s \ {z}] = b[w] + g[(s \ {z}) \ {w}]
  <2>1. Cardinality(s \ {z}) = Cardinality(s) - 1 /\ Cardinality(s) \in Nat
    BY <1>12, OneFewer, Zenon
  <2>2. s \ {z} \notin Bad
    <3> HIDE DEF Bad
    <3> QED BY <1>1, <2>1
  <2>3. s \ {z} \in SUBSET S
    BY <1>12
  <2> QED BY <2>2, <2>3
<1> HIDE DEF Bad
<1>7. g[s \ {y}] = b[x] + g[(s \ {y}) \ {x}]
  BY <1>2, <1>3, <1>5, <1>6
<1>8. g[s \ {x}] = b[y] + g[(s \ {x}) \ {y}]
  BY <1>2, <1>3, <1>5, <1>6, Zenon
<1> USE DEF Bad
<1>9. (s \ {x}) \ {y} = (s \ {y}) \ {x}
  OBVIOUS
<1>10. /\ b[x] \in Int /\ b[y] \in Int
       /\ (s \ {x}) \ {y} \in SUBSET S
  OBVIOUS
<1>11. g[(s \ {x}) \ {y}] \in Int
  BY <1>10
<1>13. g[(s \ {y}) \ {x}] = g[(s \ {x}) \ {y}]
  BY <1>9
<1> HIDE DEF Bad
<1> QED BY <1>2, <1>4, <1>7, <1>8, <1>10, <1>11, <1>13

\* Two functions that add from their picks agree where both are defined.
LEMMA SumsAgree ==
  ASSUME NEW S, IsFiniteSet(S), NEW T, S \subseteq T, NEW b,
         NEW g, NEW h, Adds(g, b, S), Adds(h, b, T)
  PROVE  g[S] = h[S]
<1> DEFINE Bad == {s \in SUBSET S : g[s] # h[s]}
<1> SUFFICES ASSUME Bad # {} PROVE FALSE
  OBVIOUS
<1>1. PICK s \in Bad : \A o \in Bad : Cardinality(s) <= Cardinality(o)
  <2>1. Bad \subseteq SUBSET S
    OBVIOUS
  <2> HIDE DEF Bad
  <2> QED BY <2>1, Smallest, Zenon
<1>2. s # {}
  BY <1>1 DEF Adds
<1>3. PICK y \in s : y = Picked(s)
  BY <1>2, PickedIn
<1>4. g[s] = b[y] + g[s \ {y}] /\ h[s] = b[y] + h[s \ {y}]
  BY <1>1, <1>2, <1>3 DEF Adds
<1>5. s \ {y} \in Bad
  BY <1>4
<1>6. Cardinality(s) <= Cardinality(s \ {y})
  BY <1>1, <1>5
<1>7. s \in SUBSET S
  OBVIOUS
<1> QED BY <1>6, <1>7, OneFewer

\* There is such a function, of any finite set.
LEMMA SumExists ==
  ASSUME NEW S, IsFiniteSet(S), NEW b, \A x \in S : b[x] \in Int
  PROVE  \E g \in [SUBSET S -> Int] : Adds(g, b, S)
<1> DEFINE Next1(g, s) == IF s = {} THEN 0 ELSE b[Picked(s)] + g[s \ {Picked(s)}]
           Upto(n) == \E g \in [SUBSET S -> Int] :
                        \A s \in SUBSET S : Cardinality(s) <= n => g[s] = Next1(g, s)
           Bad == {n \in Nat : ~Upto(n)}
<1>0. \A s \in SUBSET S : Cardinality(s) \in Nat /\ (Cardinality(s) = 0 <=> s = {})
  BY FS_Subset, FS_CardinalityType, FS_EmptySet
<1>1. Bad = {}
  <2> SUFFICES ASSUME Bad # {} PROVE FALSE
    OBVIOUS
  <2>1. PICK n \in Bad : \A k \in Bad : n <= k
    <3>1. Bad \subseteq Nat
      OBVIOUS
    <3> HIDE DEF Bad
    <3> QED BY <3>1, Least, Zenon
  <2>2. n # 0
    <3> SUFFICES Upto(0)
      BY <2>1
    <3>1. PICK g \in [SUBSET S -> Int] : \A s \in SUBSET S : g[s] = 0
      <4>1. [s \in SUBSET S |-> 0] \in [SUBSET S -> Int]
        OBVIOUS
      <4> QED BY <4>1
    <3>2. \A s \in SUBSET S : Cardinality(s) <= 0 => s = {}
      BY <1>0
    <3>3. \A s \in SUBSET S : Cardinality(s) <= 0 => g[s] = Next1(g, s)
      BY <3>1, <3>2
    <3> HIDE DEF Next1
    <3> QED BY <3>3, Zenon
  <2>3. n - 1 \in Nat /\ n - 1 \notin Bad
    <3>1. n \in Nat
      BY <2>1
    <3> HIDE DEF Bad
    <3> QED BY <2>1, <2>2, <3>1
  <2>4. PICK g \in [SUBSET S -> Int] :
          \A s \in SUBSET S : Cardinality(s) <= n - 1 => g[s] = Next1(g, s)
    BY <2>3
  <2> DEFINE h == [s \in SUBSET S |-> Next1(g, s)]
  <2>5. h \in [SUBSET S -> Int]
    <3> SUFFICES ASSUME NEW s \in SUBSET S PROVE Next1(g, s) \in Int
      OBVIOUS
    <3>1. CASE s = {}
      BY <3>1
    <3>2. CASE s # {}
      <4>1. b[Picked(s)] \in Int /\ s \ {Picked(s)} \in SUBSET S
        BY <3>2, PickedIn
      <4> QED BY <3>2, <4>1
    <3> QED BY <3>1, <3>2
  <2>6. \A s \in SUBSET S : Cardinality(s) <= n => h[s] = Next1(h, s)
    <3> SUFFICES ASSUME NEW s \in SUBSET S, Cardinality(s) <= n PROVE h[s] = Next1(h, s)
      OBVIOUS
    <3>1. CASE s = {}
      BY <3>1
    <3>2. CASE s # {}
      <4>1. PICK y \in s : y = Picked(s)
        BY <3>2, PickedIn
      <4>2. Cardinality(s \ {y}) <= n - 1 /\ s \ {y} \in SUBSET S
        <5>1. n \in Nat
          BY <2>1
        <5> QED BY <5>1, OneFewer
      <4>3. g[s \ {y}] = Next1(g, s \ {y})
        BY <2>4, <4>2
      <4>4. h[s \ {y}] = g[s \ {y}]
        BY <4>2, <4>3
      <4> QED BY <4>1, <4>4, <3>2
    <3> QED BY <3>1, <3>2
  <2>7. Upto(n)
    <3> HIDE DEF Next1, h
    <3> QED BY <2>5, <2>6
  <2> QED BY <2>1, <2>7
<1>2. IsFiniteSet(S) /\ Cardinality(S) \in Nat
  BY FS_CardinalityType
<1>3. PICK g \in [SUBSET S -> Int] :
        \A s \in SUBSET S : Cardinality(s) <= Cardinality(S) => g[s] = Next1(g, s)
  BY <1>1, <1>2
<1>4. \A s \in SUBSET S : Cardinality(s) <= Cardinality(S)
  BY FS_Subset
<1> QED BY <1>3, <1>4 DEF Adds

\* The library's sum over a finite set is what such a function gives.
LEMMA SumIsAdded ==
  ASSUME NEW S, IsFiniteSet(S), NEW b, \A x \in S : b[x] \in Int
  PROVE  \E g \in [SUBSET S -> Int] :
           Adds(g, b, S) /\ Total(b, S) = g[S]
<1> DEFINE Steps(g) ==
      [s \in SUBSET S |-> IF s = {} THEN 0
                          ELSE b[CHOOSE x \in s : TRUE] + g[s \ {CHOOSE x \in s : TRUE}]]
<1>1. Total(b, S) = (CHOOSE g : g = Steps(g))[S]
  BY DEF Total, MapThenSumSet, MapThenFoldSet
<1>2. PICK g \in [SUBSET S -> Int] : Adds(g, b, S)
  BY SumExists
<1>3. g = Steps(g)
  BY <1>2 DEF Adds, Picked
<1>4. PICK f : f = (CHOOSE h : h = Steps(h))
  OBVIOUS
<1>5. f = Steps(f)
  <2> HIDE DEF Steps
  <2> QED BY <1>3, <1>4
<1>6. Adds(f, b, S)
  BY <1>5 DEF Adds, Picked
<1>7. \A s \in SUBSET S : f[s] = g[s]
  <2> SUFFICES ASSUME NEW s \in SUBSET S PROVE f[s] = g[s]
    OBVIOUS
  <2>1. IsFiniteSet(s) /\ Adds(f, b, s) /\ Adds(g, b, S)
    BY <1>2, <1>6, FS_Subset DEF Adds
  <2> QED BY <2>1, SumsAgree
<1>8. f = g
  BY <1>5, <1>7
<1> QED BY <1>1, <1>2, <1>4, <1>8

\* A sum is that of any one element and the rest.
LEMMA SumOfRest ==
  ASSUME NEW T, IsFiniteSet(T), NEW b, \A y \in T : b[y] \in Int, NEW x \in T
  PROVE  Total(b, T \ {x}) \in Int /\ Total(b, T) = b[x] + Total(b, T \ {x})
<1>1. PICK g \in [SUBSET T -> Int] : Adds(g, b, T) /\ Total(b, T) = g[T]
  BY SumIsAdded
<1>2. PICK S \in SUBSET T : S = T \ {x}
  OBVIOUS
<1>3. IsFiniteSet(S) /\ \A y \in S : b[y] \in Int
  BY FS_Subset
<1>4. PICK f \in [SUBSET S -> Int] : Adds(f, b, S) /\ Total(b, S) = f[S]
  BY <1>3, SumIsAdded
<1>5. f[S] = g[S]
  BY <1>1, <1>3, <1>4, SumsAgree
<1>6. T \in SUBSET T
  OBVIOUS
<1>7. \A s \in SUBSET T : g[s] \in Int
  OBVIOUS
<1>8. g[T] = b[x] + g[T \ {x}]
  BY <1>1, <1>6, <1>7, AnyFirst
<1>9. Total(b, T) = b[x] + g[S]
  BY <1>1, <1>2, <1>8
<1> QED BY <1>2, <1>4, <1>5, <1>7, <1>9

\* One element more adds its own number to the sum.
LEMMA SumOfOneMore ==
  ASSUME NEW S, IsFiniteSet(S), NEW x, x \notin S,
         NEW b, \A y \in S \cup {x} : b[y] \in Int
  PROVE  /\ Total(b, S) \in Int
         /\ Total(b, S \cup {x}) = b[x] + Total(b, S)
<1>1. PICK T : T = S \cup {x}
  OBVIOUS
<1>2. IsFiniteSet(T) /\ x \in T /\ \A y \in T : b[y] \in Int
  BY <1>1, FS_AddElement
<1>3. T \ {x} = S
  BY <1>1
<1>4. Total(b, T \ {x}) \in Int /\ Total(b, T) = b[x] + Total(b, T \ {x})
  BY <1>2, SumOfRest
<1> QED BY <1>1, <1>3, <1>4

-----------------------------------------------------------------------------
\* The lease bound as a number, for arithmetic.
LEMMA MaxLeaseIsNat == MaxLeaseSeconds \in Nat
BY DEF MaxLeaseSeconds

USE JobLifecycleAssumption

-----------------------------------------------------------------------------
(* Lemmas about the operators of the model                                 *)

\* Whatever the exponential and the jitter are, a backoff delay lies within
\* the configured maximum (calculateNextAttemptDelay's two clamps).
LEMMA BackoffBounded ==
  ASSUME NEW n, NEW d \in BackoffDelays(n)
  PROVE  d \in 0..MaxDelay
BY DEF BackoffDelays, Capped

\* The countdown of a lease or of a delay stays above its floor.
LEMMA CountDownBounded ==
  ASSUME NEW floor \in Int, NEW top \in Int, NEW x \in floor..top
  PROVE  CountDown(x, floor) \in floor..top
BY DEF CountDown

\* Appending an event to a job's evidence keeps the counts well typed.
LEMMA RecordTyped ==
  ASSUME NEW j \in Jobs, NEW kind \in EvidenceKinds,
         evidence \in [Jobs -> [EvidenceKinds -> Nat]], Record(j, kind)
  PROVE  evidence' \in [Jobs -> [EvidenceKinds -> Nat]]
BY DEF Record

\* A worker whose name is on the row has a job.
LEMMA MineIsAJob ==
  ASSUME TypeOK, NEW w \in Workers, RowIsMine(w)
  PROVE  exec[w].job \in Jobs
BY DEF TypeOK, RowIsMine

-----------------------------------------------------------------------------
(* Type correctness                                                        *)

LEMMA TypeInit == Init => TypeOK
<1> SUFFICES ASSUME Init PROVE TypeOK
  OBVIOUS
<1> QED BY MaxLeaseIsNat DEF Init, TypeOK, OpenClaim, Statuses, LeaseNull, DelayNull, NoExec, Idle

LEMMA TypeStep == TypeOK /\ [Next]_vars => TypeOK'
<1> SUFFICES ASSUME TypeOK, [Next]_vars PROVE TypeOK'
  OBVIOUS
<1> USE DEF TypeOK, columns
<1>1. ASSUME NEW j \in Jobs, CreateJob(j) PROVE TypeOK'
  BY <1>1 DEF CreateJob, Statuses, DelayNull, Ages
<1>2. ASSUME NEW w \in Workers, NEW a \in Agents, NEW c \in Capabilities, ClaimBegin(w, a, c)
      PROVE TypeOK'
  BY <1>2 DEF ClaimBegin, OpenClaim
<1>3. ASSUME NEW w \in Workers, ClaimCount(w) PROVE TypeOK'
  BY <1>3 DEF ClaimCount, Idle, OpenClaim
<1>4. ASSUME NEW w \in Workers, ClaimTake(w) PROVE TypeOK'
  <2>1. CASE UNCHANGED <<columns, exec, revived>>
    BY <1>4, <2>1 DEF ClaimTake, Idle, OpenClaim
  <2>2. ASSUME NEW j \in FirstClaimable(w), NEW d \in LeaseDurations, ClaimLease(w, j, d)
        PROVE  TypeOK'
    <3>1. j \in Jobs
      BY DEF FirstClaimable
    <3>2. d - claim[w].age \in LeaseNull..MaxLeaseSeconds /\ DelayNull \in DelayNull..MaxDelay
      BY MaxLeaseIsNat DEF LeaseNull, DelayNull
    <3>3. /\ status' \in [Jobs -> Statuses]
          /\ attempts' \in [Jobs -> Nat]
          /\ leaseOwner' \in [Jobs -> Workers \cup {None}]
          /\ leaseLeft' \in [Jobs -> LeaseNull..MaxLeaseSeconds]
          /\ delayLeft' \in [Jobs -> DelayNull..MaxDelay]
      BY <2>2, <3>1, <3>2 DEF ClaimLease, SetStatus, Statuses
    <3>4. exec' \in [Workers -> [job : Jobs \cup {None}, attempt : Nat]]
      BY <2>2, <3>1 DEF ClaimLease
    <3>5. claim' \in [Workers -> [phase : {"idle", "waiting", "counted", "renewing"},
                                  agent : Agents \cup {None},
                                  capability : Capabilities \cup {None}, age : 0..MaxAge]]
      BY <1>4 DEF ClaimTake, Idle, OpenClaim
    <3>6. revived' \subseteq Jobs
      BY <2>2 DEF ClaimLease
    <3> QED BY <1>4, <2>2, <3>3, <3>4, <3>5, <3>6 DEF ClaimTake, ClaimLease
  <2> QED BY <1>4, <2>1, <2>2 DEF ClaimTake
<1>5. ASSUME NEW w \in Workers, RenewLease(w) PROVE TypeOK'
  <2>1. claim' = [claim EXCEPT ![w] = Idle] /\ Idle = OpenClaim("idle", None, None, 0)
    BY <1>5 DEF RenewLease, Idle
  <2>2. ASSUME Renewable(w), NEW d \in LeaseDurations,
               leaseLeft' = [leaseLeft EXCEPT ![exec[w].job] = d - claim[w].age],
               revived' = revived \cup (IF leaseLeft[exec[w].job] < 0 THEN {exec[w].job} ELSE {})
        PROVE  /\ leaseLeft' \in [Jobs -> LeaseNull..MaxLeaseSeconds]
               /\ revived' \subseteq Jobs
    <3>1. exec[w].job \in Jobs
      BY <2>2, MineIsAJob DEF Renewable
    <3>2. d - claim[w].age \in LeaseNull..MaxLeaseSeconds
      BY MaxLeaseIsNat DEF LeaseNull
    <3> QED BY <2>2, <3>1, <3>2
  <2>3. /\ leaseLeft' \in [Jobs -> LeaseNull..MaxLeaseSeconds]
        /\ revived' \subseteq Jobs
    BY <1>5, <2>2 DEF RenewLease
  <2> QED BY <1>5, <2>1, <2>3 DEF RenewLease, OpenClaim
<1>6. ASSUME NEW w \in Workers, StartJob(w) PROVE TypeOK'
  BY <1>6, MineIsAJob DEF StartJob, SetStatus, Statuses
<1>7. ASSUME NEW w \in Workers, CompleteJob(w) PROVE TypeOK'
  BY <1>7, MineIsAJob, MaxLeaseIsNat
  DEF CompleteJob, SetStatus, Statuses, ReleaseExec, NoExec, LeaseNull, DelayNull
<1>8. ASSUME NEW w \in Workers, Abandon(w) PROVE TypeOK'
  BY <1>8 DEF Abandon, ReleaseExec, NoExec, Idle, OpenClaim
<1>9. ASSUME NEW S \in SUBSET Jobs, NEW class, NEW age \in Ages, FailJobs(S, class, age),
             exec' \in [Workers -> [job : Jobs \cup {None}, attempt : Nat]]
      PROVE  TypeOK'
  <2>1. \A j \in Jobs : FailureOutcome(j, class) \in Statuses
    BY DEF FailureOutcome, Statuses
  <2>2. \A j \in Jobs : FailureEvidence(j, class) \in EvidenceKinds
    BY DEF FailureEvidence, EvidenceKinds
  <2>3. LeaseNull \in LeaseNull..MaxLeaseSeconds /\ DelayNull \in DelayNull..MaxDelay
    BY MaxLeaseIsNat DEF LeaseNull, DelayNull
  <2>4. delayLeft' \in [Jobs -> DelayNull..MaxDelay]
    <3>1. PICK d \in [S -> UNION {BackoffDelays(attempts[j]) : j \in S}] :
            /\ \A j \in S : d[j] \in BackoffDelays(attempts[j])
            /\ delayLeft' = [j \in Jobs |->
                               IF j \notin S THEN delayLeft[j]
                               ELSE IF FailureOutcome(j, class) = "queued" THEN d[j] - age
                               ELSE DelayNull]
      BY <1>9 DEF FailJobs
    <3>2. \A j \in S : d[j] - age \in DelayNull..MaxDelay
      BY <3>1, BackoffBounded DEF DelayNull, Ages
    <3> QED BY <2>3, <3>1, <3>2
  <2>5. evidence' \in [Jobs -> [EvidenceKinds -> Nat]]
    BY <1>9, <2>2 DEF FailJobs
  <2> QED BY <1>9, <2>1, <2>3, <2>4, <2>5 DEF FailJobs
<1>10. ASSUME NEW w \in Workers, FailJob(w) PROVE TypeOK'
  BY <1>9, <1>10, MineIsAJob DEF FailJob, ReleaseExec, NoExec
<1>11. ASSUME NEW a \in Agents, ReclaimExpiredLeases(a) PROVE TypeOK'
  BY <1>9, <1>11 DEF ReclaimExpiredLeases, ExpiredJobs
<1>12. ASSUME NEW r \in Replayers, NEW e \in Approvals, ReplayVerify(r, e) PROVE TypeOK'
  BY <1>12 DEF ReplayVerify
<1>13. ASSUME NEW r \in Replayers, ReplayApply(r) PROVE TypeOK'
  <2>1. replay[r] \in BudgetedApprovals
    BY <1>13 DEF ReplayApply
  <2>2. /\ ApprovalJob[replay[r]] \in Jobs /\ replay[r] \in Approvals
        /\ ApprovalBudget[replay[r]] \in Nat
    BY <2>1 DEF BudgetedApprovals
  <2>3. evidence' \in [Jobs -> [EvidenceKinds -> Nat]]
    BY <1>13, <2>2, RecordTyped DEF ReplayApply, EvidenceKinds
  <2>4. status' \in [Jobs -> Statuses] /\ maxAttempts' \in [Jobs -> Nat]
    BY <1>13, <2>2 DEF ReplayApply, SetStatus, Statuses
  <2>5. delayLeft' \in [Jobs -> DelayNull..MaxDelay]
    BY <1>13, <2>2 DEF ReplayApply, DelayNull, Ages
  <2>6. consumed' \subseteq Approvals /\ replay' \in [Replayers -> BudgetedApprovals \cup {None}]
    BY <1>13, <2>2 DEF ReplayApply
  <2> QED BY <1>13, <2>3, <2>4, <2>5, <2>6 DEF ReplayApply
<1>14. ASSUME NEW r \in Replayers, ReplayRollback(r) PROVE TypeOK'
  BY <1>14 DEF ReplayRollback
<1>18. ASSUME NEW w \in Workers, RenewBegin(w) PROVE TypeOK'
  BY <1>18 DEF RenewBegin, OpenClaim
<1>15. ASSUME NEW j \in Jobs, OwnerRetryJob(j) \/ OwnerCancelJob(j) PROVE TypeOK'
  <2>1. PICK to \in Statuses, kind \in EvidenceKinds : OwnerMove(j, to, kind)
    BY <1>15 DEF OwnerRetryJob, OwnerCancelJob, Statuses, EvidenceKinds
  <2>2. evidence' \in [Jobs -> [EvidenceKinds -> Nat]]
    BY <2>1, RecordTyped DEF OwnerMove
  <2>3. status' \in [Jobs -> Statuses] /\ leaseOwner' \in [Jobs -> Workers \cup {None}]
    BY <2>1 DEF OwnerMove, SetStatus
  <2>4. LeaseNull \in LeaseNull..MaxLeaseSeconds
    BY MaxLeaseIsNat DEF LeaseNull
  <2>5. leaseLeft' \in [Jobs -> LeaseNull..MaxLeaseSeconds]
    BY <2>1, <2>4 DEF OwnerMove
  <2> QED BY <2>1, <2>2, <2>3, <2>5 DEF OwnerMove
<1>16. CASE Tick
  <2>1. leaseLeft' \in [Jobs -> LeaseNull..MaxLeaseSeconds]
    BY <1>16, CountDownBounded, MaxLeaseIsNat DEF Tick, LeaseNull
  <2>2. delayLeft' \in [Jobs -> DelayNull..MaxDelay]
    BY <1>16, CountDownBounded DEF Tick, DelayNull
  <2>3. \A w \in Workers : claim[w] # Idle => claim[w].age + 1 \in 0..MaxAge
    BY <1>16 DEF Tick
  <2>4. claim' \in [Workers -> [phase : {"idle", "waiting", "counted", "renewing"},
                                agent : Agents \cup {None},
                                capability : Capabilities \cup {None}, age : 0..MaxAge]]
    BY <1>16, <2>3 DEF Tick, Idle, OpenClaim
  <2> QED BY <1>16, <2>1, <2>2, <2>4 DEF Tick
<1>17. CASE UNCHANGED vars
  BY <1>17 DEF vars
<1> QED BY <1>1, <1>2, <1>3, <1>4, <1>5, <1>6, <1>7, <1>8, <1>10, <1>11, <1>12, <1>13, <1>14,
           <1>15, <1>16, <1>17, <1>18 DEF Next, WorkerStep

\* Every reachable state is well typed, for all constants.
THEOREM TypeCorrect == Spec => []TypeOK
<1>1. Init => TypeOK
  BY TypeInit
<1>2. TypeOK /\ [Next]_vars => TypeOK'
  BY TypeStep
<1> QED BY <1>1, <1>2, PTL DEF Spec

-----------------------------------------------------------------------------
(* The concurrency limit.  A claim that has counted under the agent row    *)
(* lock may still lease one job, so the limit is inductive only together   *)
(* with the room that every counted claim has reserved, and with the lock  *)
(* that lets at most one claim per agent be in that state.  A claim counts *)
(* a revived lease too, so the others never take more than the room.       *)

Counted(w, a) == claim[w].phase = "counted" /\ claim[w].agent = a

ClaimsKnowTheirAgent ==
  \A w \in Workers : claim[w].phase # "idle" => claim[w].agent \in Agents

AgentRowLocked ==
  \A a \in Agents : \A v, w \in Workers : Counted(v, a) /\ Counted(w, a) => v = w

RoomReserved ==
  \A a \in Agents : \A w \in Workers :
    Counted(w, a) => Cardinality(TimelyJobs(a)) < ConcurrencyLimit[a]

ConcurrencyInv ==
  TypeOK /\ ClaimsKnowTheirAgent /\ AgentRowLocked /\ RoomReserved /\ OnlyRevivalsExceedLimit

\* An agent's active jobs are finitely many.
LEMMA ActiveFinite ==
  ASSUME NEW a \in Agents, NEW age
  PROVE  /\ IsFiniteSet(ActiveJobs(a, age)) /\ IsFiniteSet(TimelyJobs(a))
         /\ Cardinality(ActiveJobs(a, age)) \in Nat
<1>1. ActiveJobs(a, age) \subseteq Jobs /\ TimelyJobs(a) \subseteq Jobs
  BY DEF ActiveJobs, TimelyJobs
<1> QED BY <1>1, FS_Subset, FS_CardinalityType

\* Fewer active jobs do not count for more.
LEMMA FewerActive ==
  ASSUME NEW S, NEW T, IsFiniteSet(T), S \subseteq T
  PROVE  Cardinality(S) \in Nat /\ Cardinality(T) \in Nat /\ Cardinality(S) <= Cardinality(T)
BY FS_Subset, FS_CardinalityType

\* One more element counts for at most one more.
LEMMA OneMore ==
  ASSUME NEW S, NEW x, IsFiniteSet(S)
  PROVE  /\ IsFiniteSet(S \cup {x})
         /\ Cardinality(S \cup {x}) <= Cardinality(S) + 1
<1> DEFINE T == S \cup {x}
<1>1. Cardinality(S) \in Nat
  BY FS_CardinalityType
<1>2. IsFiniteSet(T) /\ Cardinality(T) = IF x \in S THEN Cardinality(S) ELSE Cardinality(S) + 1
  BY FS_AddElement, Zenon
<1> HIDE DEF T
<1>3. Cardinality(T) <= Cardinality(S) + 1
  BY <1>1, <1>2
<1> QED BY <1>2, <1>3 DEF T

\* Every step but a claim's lease leaves an agent with the timely leases it had
\* or fewer: a renewal of an expired one makes it a revived one.
LEMMA OnlyLeasesActivate ==
  ASSUME TypeOK, [Next]_vars, NEW a \in Agents,
         ~\E w \in Workers : Counted(w, a) /\ ClaimTake(w)
  PROVE  TimelyJobs(a)' \subseteq TimelyJobs(a)
<1> USE DEF TimelyJobs, ActiveJobs, Held, HeldStatuses, Unexpired, TypeOK
<1>1. ASSUME NEW j \in Jobs, CreateJob(j) PROVE TimelyJobs(a)' \subseteq TimelyJobs(a)
  BY <1>1 DEF CreateJob
<1>2. ASSUME UNCHANGED <<columns, revived>> PROVE TimelyJobs(a)' \subseteq TimelyJobs(a)
  BY <1>2 DEF columns
<1>3. ASSUME NEW w \in Workers, ClaimTake(w) PROVE TimelyJobs(a)' \subseteq TimelyJobs(a)
  <2>1. ~Counted(w, a) /\ claim[w].phase = "counted"
    BY <1>3 DEF ClaimTake
  <2>2. ASSUME NEW j \in FirstClaimable(w), NEW d \in LeaseDurations, ClaimLease(w, j, d)
        PROVE  TimelyJobs(a)' \subseteq TimelyJobs(a)
    <3>1. j \in Jobs /\ AgentOf[j] # a
      BY <2>1 DEF FirstClaimable, Claimable, Counted
    <3> QED BY <2>2, <3>1 DEF ClaimLease, SetStatus
  <2> QED BY <1>3, <1>2, <2>2 DEF ClaimTake
<1>4. ASSUME NEW w \in Workers, RenewLease(w) PROVE TimelyJobs(a)' \subseteq TimelyJobs(a)
  <2>1. CASE UNCHANGED <<leaseLeft, revived>>
    BY <1>4, <2>1 DEF RenewLease
  <2>2. ASSUME Renewable(w), NEW d \in LeaseDurations,
               leaseLeft' = [leaseLeft EXCEPT ![exec[w].job] = d - claim[w].age],
               revived' = revived \cup (IF leaseLeft[exec[w].job] < 0 THEN {exec[w].job} ELSE {})
        PROVE  TimelyJobs(a)' \subseteq TimelyJobs(a)
    <3>1. exec[w].job \in Jobs /\ UNCHANGED <<status, leaseOwner>>
      BY <1>4, <2>2, MineIsAJob DEF Renewable, RenewLease
    <3>2. CASE leaseLeft[exec[w].job] < 0
      BY <2>2, <3>1, <3>2
    <3>3. CASE leaseLeft[exec[w].job] >= 0
      BY <2>2, <3>1, <3>3
    <3> QED BY <3>1, <3>2, <3>3
  <2> QED BY <1>4, <2>1, <2>2 DEF RenewLease
<1>5. ASSUME NEW w \in Workers, StartJob(w) PROVE TimelyJobs(a)' \subseteq TimelyJobs(a)
  BY <1>5, MineIsAJob DEF StartJob, SetStatus
<1>6. ASSUME NEW w \in Workers, CompleteJob(w) PROVE TimelyJobs(a)' \subseteq TimelyJobs(a)
  BY <1>6, MineIsAJob DEF CompleteJob, SetStatus
<1>7. ASSUME NEW S \in SUBSET Jobs, NEW class, NEW age \in Ages, FailJobs(S, class, age)
      PROVE  TimelyJobs(a)' \subseteq TimelyJobs(a)
  <2>1. \A j \in S : status'[j] \in {"queued", "dead_letter"}
    BY <1>7 DEF FailJobs, FailureOutcome
  <2>2. \A j \in Jobs \ S : /\ status'[j] = status[j] /\ leaseOwner'[j] = leaseOwner[j]
                           /\ leaseLeft'[j] = leaseLeft[j]
    BY <1>7 DEF FailJobs
  <2>3. UNCHANGED revived
    BY <1>7 DEF FailJobs
  <2> QED BY <2>1, <2>2, <2>3
<1>8. ASSUME NEW w \in Workers, FailJob(w) PROVE TimelyJobs(a)' \subseteq TimelyJobs(a)
  BY <1>7, <1>8, MineIsAJob DEF FailJob
<1>9. ASSUME NEW b \in Agents, ReclaimExpiredLeases(b)
      PROVE  TimelyJobs(a)' \subseteq TimelyJobs(a)
  BY <1>7, <1>9 DEF ReclaimExpiredLeases, ExpiredJobs
<1>10. ASSUME NEW r \in Replayers, ReplayApply(r)
       PROVE  TimelyJobs(a)' \subseteq TimelyJobs(a)
  <2>1. ApprovalJob[replay[r]] \in Jobs
    BY <1>10 DEF ReplayApply, BudgetedApprovals
  <2> QED BY <1>10, <2>1 DEF ReplayApply, SetStatus
<1>11. ASSUME NEW j \in Jobs, OwnerRetryJob(j) \/ OwnerCancelJob(j)
       PROVE  TimelyJobs(a)' \subseteq TimelyJobs(a)
  BY <1>11 DEF OwnerRetryJob, OwnerCancelJob, OwnerMove, SetStatus
<1>12. CASE Tick
  <2>1. \A j \in Jobs : leaseLeft'[j] >= 0 => leaseLeft[j] >= 0
    BY <1>12 DEF Tick, CountDown, LeaseNull
  <2> QED BY <1>12, <2>1 DEF Tick
<1>13. CASE UNCHANGED vars
  BY <1>2, <1>13 DEF vars
<1> QED BY <1>1, <1>2, <1>3, <1>4, <1>5, <1>6, <1>8, <1>9, <1>10, <1>11, <1>12, <1>13
        DEF Next, WorkerStep, ClaimBegin, ClaimCount, RenewBegin, Abandon, ReplayVerify, ReplayRollback

\* A claim becomes "counted" only by finding the agent's row free and room
\* below the limit; every other step leaves the counted claims alone or ends them.
LEMMA CountedStep ==
  ASSUME TypeOK, [Next]_vars, NEW a \in Agents, NEW v \in Workers, Counted(v, a)'
  PROVE  \/ Counted(v, a)
         \/ /\ ClaimCount(v)
            /\ \A w \in Workers : ~Counted(w, a)
            /\ Cardinality(ActiveJobs(a, claim[v].age)) < ConcurrencyLimit[a]
<1> USE DEF TypeOK, Counted
<1>1. ASSUME NEW w \in Workers, NEW b \in Agents, NEW c \in Capabilities, ClaimBegin(w, b, c)
      PROVE  Counted(v, a)
  BY <1>1 DEF ClaimBegin, OpenClaim
<1>2. ASSUME NEW w \in Workers, ClaimCount(w), ~Counted(v, a)
      PROVE  /\ w = v
             /\ \A u \in Workers : ~Counted(u, a)
             /\ Cardinality(ActiveJobs(a, claim[v].age)) < ConcurrencyLimit[a]
  BY <1>2 DEF ClaimCount, AgentRowFree, OpenClaim, Idle
<1>6. ASSUME NEW w \in Workers, RenewBegin(w) PROVE Counted(v, a)
  BY <1>6 DEF RenewBegin, OpenClaim
<1>3. ASSUME NEW w \in Workers, ClaimTake(w) \/ RenewLease(w) \/ Abandon(w)
      PROVE  Counted(v, a)
  <2>1. claim' = [claim EXCEPT ![w] = Idle] /\ Idle.phase = "idle"
    BY <1>3 DEF ClaimTake, RenewLease, Abandon, OpenClaim, Idle
  <2> QED BY <2>1
<1>4. CASE Tick
  BY <1>4 DEF Tick, OpenClaim, Idle
<1>5. CASE UNCHANGED claim
  BY <1>5
<1> QED BY <1>1, <1>2, <1>3, <1>4, <1>5, <1>6
        DEF Next, WorkerStep, vars, CreateJob, StartJob, CompleteJob, FailJob,
            FailJobs, ReclaimExpiredLeases, ReplayVerify, ReplayApply, ReplayRollback,
            OwnerRetryJob, OwnerCancelJob, OwnerMove

\* A lease adds one job to the active ones of its own agent.
LEMMA LeaseAddsOne ==
  ASSUME TypeOK, NEW a \in Agents, NEW w \in Workers, Counted(w, a), ClaimTake(w)
  PROVE  \E j : TimelyJobs(a)' \subseteq TimelyJobs(a) \cup {j}
<1> USE DEF TypeOK, TimelyJobs, ActiveJobs, Held, HeldStatuses, Unexpired
<1>1. CASE UNCHANGED <<columns, exec, revived>>
  BY <1>1 DEF columns
<1>2. ASSUME NEW j \in FirstClaimable(w), NEW d \in LeaseDurations, ClaimLease(w, j, d)
      PROVE  \E i : TimelyJobs(a)' \subseteq TimelyJobs(a) \cup {i}
  <2>1. j \in Jobs
    BY DEF FirstClaimable
  <2>2. TimelyJobs(a)' \subseteq TimelyJobs(a) \cup {j}
    BY <1>2, <2>1 DEF ClaimLease, SetStatus
  <2> QED BY <2>1, <2>2
<1> QED BY <1>1, <1>2 DEF ClaimTake

LEMMA ConcurrencyInit == Init => ConcurrencyInv
<1> SUFFICES ASSUME Init PROVE ConcurrencyInv
  OBVIOUS
<1>1. TypeOK
  BY TypeInit
<1>2. \A w \in Workers : claim[w].phase = "idle"
  BY DEF Init, Idle, OpenClaim
<1>3. ASSUME NEW a \in Agents PROVE Cardinality(TimelyJobs(a)) <= ConcurrencyLimit[a]
  <2>1. TimelyJobs(a) = {}
    BY DEF Init, TimelyJobs, ActiveJobs, Held, HeldStatuses
  <2>2. ConcurrencyLimit[a] \in Nat /\ Cardinality(TimelyJobs(a)) = 0
    BY <2>1, FS_EmptySet
  <2> QED BY <2>2
<1> QED BY <1>1, <1>2, <1>3
        DEF ConcurrencyInv, ClaimsKnowTheirAgent, AgentRowLocked, RoomReserved, Counted,
            OnlyRevivalsExceedLimit

LEMMA ConcurrencyStep == ConcurrencyInv /\ [Next]_vars => ConcurrencyInv'
<1> SUFFICES ASSUME ConcurrencyInv, [Next]_vars PROVE ConcurrencyInv'
  OBVIOUS
<1> USE DEF ConcurrencyInv
<1>1. TypeOK'
  BY TypeStep
<1>2. ClaimsKnowTheirAgent'
  <2> USE DEF ClaimsKnowTheirAgent, TypeOK
  <2>1. ASSUME NEW w \in Workers, NEW b \in Agents, NEW c \in Capabilities, ClaimBegin(w, b, c)
        PROVE  ClaimsKnowTheirAgent'
    BY <2>1 DEF ClaimBegin, OpenClaim
  <2>5. ASSUME NEW w \in Workers, RenewBegin(w) PROVE ClaimsKnowTheirAgent'
    BY <2>5 DEF RenewBegin, OpenClaim
  <2>2. ASSUME NEW w \in Workers,
               ClaimCount(w) \/ ClaimTake(w) \/ RenewLease(w) \/ Abandon(w)
        PROVE  ClaimsKnowTheirAgent'
    <3>1. CASE claim' = [claim EXCEPT ![w] = Idle]
      <4>1. Idle.phase = "idle"
        BY DEF Idle, OpenClaim
      <4> QED BY <3>1, <4>1
    <3>2. CASE ClaimCount(w)
      BY <3>2 DEF ClaimCount, OpenClaim, Idle
    <3> QED BY <2>2, <3>1, <3>2 DEF ClaimTake, RenewLease, Abandon
  <2>3. CASE Tick
    BY <2>3 DEF Tick, OpenClaim, Idle
  <2>4. CASE UNCHANGED claim
    BY <2>4
  <2> QED BY <2>1, <2>2, <2>3, <2>4, <2>5
          DEF Next, WorkerStep, vars, CreateJob, StartJob, CompleteJob, FailJob,
              FailJobs, ReclaimExpiredLeases, ReplayVerify, ReplayApply, ReplayRollback,
              OwnerRetryJob, OwnerCancelJob, OwnerMove
<1>3. AgentRowLocked'
  <2> SUFFICES ASSUME NEW a \in Agents, NEW v \in Workers, NEW w \in Workers,
                      Counted(v, a)', Counted(w, a)', v # w
               PROVE  FALSE
    BY DEF AgentRowLocked
  <2>1. CASE Counted(v, a) /\ Counted(w, a)
    BY <2>1 DEF AgentRowLocked
  <2>2. CASE ~Counted(v, a) /\ ~Counted(w, a)
    <3>1. ClaimCount(v) /\ ClaimCount(w)
      BY <2>2, CountedStep
    <3> QED BY <3>1, <2>2 DEF ClaimCount, Counted, TypeOK
  <2> QED BY <2>1, <2>2, CountedStep
<1>4. ASSUME NEW a \in Agents
      PROVE  /\ Cardinality(TimelyJobs(a)') <= ConcurrencyLimit[a]
             /\ \A v \in Workers :
                   Counted(v, a)' => Cardinality(TimelyJobs(a)') < ConcurrencyLimit[a]
  <2>0. /\ ConcurrencyLimit[a] \in Nat /\ IsFiniteSet(TimelyJobs(a))
        /\ Cardinality(TimelyJobs(a)) <= ConcurrencyLimit[a]
    BY ActiveFinite DEF OnlyRevivalsExceedLimit
  <2>1. CASE \E w \in Workers : Counted(w, a) /\ ClaimTake(w)
    <3>1. PICK w \in Workers : Counted(w, a) /\ ClaimTake(w)
      BY <2>1
    <3>2. Cardinality(TimelyJobs(a)) < ConcurrencyLimit[a]
      BY <3>1 DEF RoomReserved
    <3>3. PICK j : TimelyJobs(a)' \subseteq TimelyJobs(a) \cup {j}
      BY <3>1, LeaseAddsOne
    <3>4. /\ IsFiniteSet(TimelyJobs(a) \cup {j})
          /\ Cardinality(TimelyJobs(a) \cup {j}) <= Cardinality(TimelyJobs(a)) + 1
      BY <2>0, OneMore
    <3>5. Cardinality(TimelyJobs(a)') <= ConcurrencyLimit[a]
      BY <2>0, <3>2, <3>3, <3>4, FewerActive
    <3>6. \A v \in Workers : ~Counted(v, a)'
      <4> SUFFICES ASSUME NEW v \in Workers, Counted(v, a)' PROVE FALSE
        OBVIOUS
      <4>1. Counted(v, a)
        BY <3>1, CountedStep
      <4>2. v = w
        BY <3>1, <4>1 DEF AgentRowLocked
      <4> QED BY <3>1, <4>2 DEF ClaimTake, Counted, OpenClaim, Idle, TypeOK
    <3> QED BY <3>5, <3>6
  <2>2. CASE ~\E w \in Workers : Counted(w, a) /\ ClaimTake(w)
    <3>1. TimelyJobs(a)' \subseteq TimelyJobs(a)
      BY <2>2, OnlyLeasesActivate
    <3>2. /\ Cardinality(TimelyJobs(a)') \in Nat
          /\ Cardinality(TimelyJobs(a)) \in Nat
          /\ Cardinality(TimelyJobs(a)') <= Cardinality(TimelyJobs(a))
      BY <2>0, <3>1, FewerActive
    <3>3. ASSUME NEW v \in Workers, Counted(v, a)'
          PROVE  Cardinality(TimelyJobs(a)) < ConcurrencyLimit[a]
      <4>1. CASE Counted(v, a)
        BY <4>1 DEF RoomReserved
      <4>2. CASE ~Counted(v, a)
        <5>1. Cardinality(ActiveJobs(a, claim[v].age)) < ConcurrencyLimit[a]
          BY <3>3, <4>2, CountedStep
        <5>2. claim[v].age \in Nat
          BY DEF TypeOK
        <5>3. TimelyJobs(a) \subseteq ActiveJobs(a, claim[v].age)
          BY <5>2 DEF TimelyJobs, ActiveJobs, Unexpired, TypeOK, LeaseNull
        <5> QED BY <2>0, <5>1, <5>3, ActiveFinite, FewerActive
      <4> QED BY <4>1, <4>2
    <3> QED BY <2>0, <3>2, <3>3
  <2> QED BY <2>1, <2>2
<1> QED BY <1>1, <1>2, <1>3, <1>4 DEF RoomReserved, OnlyRevivalsExceedLimit

\* No interleaving of claims, sweeps, late calls and owner actions lets an agent
\* exceed its limit (claimJob's agent row lock): where it is exceeded, a renewal
\* reached its row after the lease had expired.
THEOREM ConcurrencyCorrect == Spec => []OnlyRevivalsExceedLimit
<1>1. Init => ConcurrencyInv
  BY ConcurrencyInit
<1>2. ConcurrencyInv /\ [Next]_vars => ConcurrencyInv'
  BY ConcurrencyStep
<1>3. ConcurrencyInv => OnlyRevivalsExceedLimit
  BY DEF ConcurrencyInv
<1> QED BY <1>1, <1>2, <1>3, PTL DEF Spec

-----------------------------------------------------------------------------
(* Fencing.  The row's lease_owner is the name of a worker, not a token of *)
(* an attempt, so fencing rests on two more facts: a worker claims only    *)
(* when it runs nothing, and the name on a row is that of the worker that  *)
(* made the row's latest attempt.                                          *)

NamedOnlyWhileHeld == \A j \in Jobs : leaseOwner[j] # None => Held(j)

ClaimersRunNothing ==
  \A w \in Workers : claim[w].phase \in {"waiting", "counted"} => exec[w] = NoExec

OwnerIsCurrent ==
  \A w \in Workers : RowIsMine(w) => exec[w].attempt = attempts[exec[w].job]

FencingInv == TypeOK /\ NamedOnlyWhileHeld /\ ClaimersRunNothing /\ OwnerIsCurrent

LEMMA FencingInit == Init => FencingInv
<1> SUFFICES ASSUME Init PROVE FencingInv
  OBVIOUS
<1> QED BY TypeInit
        DEF FencingInv, Init, NamedOnlyWhileHeld, ClaimersRunNothing, OwnerIsCurrent,
            RowIsMine, NoExec, Idle, OpenClaim

LEMMA FencingStep == FencingInv /\ [Next]_vars => FencingInv'
<1> SUFFICES ASSUME FencingInv, [Next]_vars
             PROVE  NamedOnlyWhileHeld' /\ ClaimersRunNothing' /\ OwnerIsCurrent'
  BY TypeStep DEF FencingInv
<1> USE DEF FencingInv, TypeOK, NamedOnlyWhileHeld, ClaimersRunNothing, OwnerIsCurrent,
            RowIsMine, Held, HeldStatuses, columns
<1> DEFINE Goal == NamedOnlyWhileHeld' /\ ClaimersRunNothing' /\ OwnerIsCurrent'
<1>1. ASSUME NEW j \in Jobs, CreateJob(j) PROVE Goal
  BY <1>1 DEF CreateJob
<1>2. ASSUME NEW w \in Workers, NEW a \in Agents, NEW c \in Capabilities, ClaimBegin(w, a, c)
      PROVE  Goal
  BY <1>2 DEF ClaimBegin, OpenClaim
<1>16. ASSUME NEW w \in Workers, RenewBegin(w) PROVE Goal
  BY <1>16 DEF RenewBegin, OpenClaim
<1>3. ASSUME NEW w \in Workers, ClaimCount(w) PROVE Goal
  <2>1. claim[w].phase = "waiting" /\ exec[w] = NoExec
    BY <1>3 DEF ClaimCount
  <2> QED BY <1>3, <2>1 DEF ClaimCount
<1>4. ASSUME NEW w \in Workers, ClaimTake(w) PROVE Goal
  <2>2. exec[w] = NoExec /\ claim' = [claim EXCEPT ![w] = Idle] /\ Idle.phase = "idle"
    BY <1>4 DEF ClaimTake, Idle, OpenClaim
  <2>3. CASE UNCHANGED <<columns, exec, revived>>
    BY <2>2, <2>3
  <2>4. ASSUME NEW j \in FirstClaimable(w), NEW d \in LeaseDurations, ClaimLease(w, j, d)
        PROVE  Goal
    <3>1. j \in Jobs /\ status[j] = "queued"
      BY DEF FirstClaimable, Claimable
    <3>2. leaseOwner[j] = None
      BY <3>1
    <3>3. NamedOnlyWhileHeld'
      BY <2>4, <3>1 DEF ClaimLease, SetStatus
    <3>4. ClaimersRunNothing'
      BY <2>2, <2>4 DEF ClaimLease
    <3>5. OwnerIsCurrent'
      BY <2>2, <2>4, <3>1, <3>2 DEF ClaimLease
    <3> QED BY <3>3, <3>4, <3>5
  <2> QED BY <1>4, <2>3, <2>4 DEF ClaimTake
<1>5. ASSUME NEW w \in Workers, RenewLease(w) PROVE Goal
  <2>1. /\ claim' = [claim EXCEPT ![w] = Idle] /\ Idle.phase = "idle"
        /\ UNCHANGED <<status, attempts, leaseOwner, exec>>
    BY <1>5 DEF RenewLease, Idle, OpenClaim
  <2> QED BY <2>1
<1>6. ASSUME NEW w \in Workers, StartJob(w) PROVE Goal
  BY <1>6 DEF StartJob, SetStatus
<1>7. ASSUME NEW w \in Workers, CompleteJob(w) PROVE Goal
  BY <1>7, MineIsAJob DEF CompleteJob, SetStatus, ReleaseExec, NoExec
<1>8. ASSUME NEW w \in Workers, Abandon(w) PROVE Goal
  <2>1. /\ claim' = [claim EXCEPT ![w] = Idle] /\ Idle.phase = "idle"
        /\ UNCHANGED columns
    BY <1>8 DEF Abandon, Idle, OpenClaim
  <2> QED BY <1>8, <2>1 DEF Abandon, ReleaseExec, NoExec
<1>9. ASSUME NEW S \in SUBSET Jobs, NEW class, NEW age \in Ages, FailJobs(S, class, age)
      PROVE  /\ NamedOnlyWhileHeld' /\ UNCHANGED <<attempts, claim>>
             /\ \A j \in Jobs : leaseOwner'[j] # None => leaseOwner'[j] = leaseOwner[j]
  BY <1>9 DEF FailJobs
<1>10. ASSUME NEW w \in Workers, FailJob(w) PROVE Goal
  <2>1. /\ NamedOnlyWhileHeld' /\ UNCHANGED <<attempts, claim>>
        /\ \A j \in Jobs : leaseOwner'[j] # None => leaseOwner'[j] = leaseOwner[j]
    BY <1>9, <1>10, MineIsAJob DEF FailJob
  <2>2. exec' = [exec EXCEPT ![w] = NoExec] /\ NoExec.job = None
    BY <1>10 DEF FailJob, ReleaseExec, NoExec
  <2> QED BY <2>1, <2>2
<1>11. ASSUME NEW a \in Agents, ReclaimExpiredLeases(a) PROVE Goal
  <2>1. /\ NamedOnlyWhileHeld' /\ UNCHANGED <<attempts, claim>>
        /\ \A j \in Jobs : leaseOwner'[j] # None => leaseOwner'[j] = leaseOwner[j]
    BY <1>9, <1>11 DEF ReclaimExpiredLeases, ExpiredJobs
  <2> QED BY <1>11, <2>1 DEF ReclaimExpiredLeases
<1>12. ASSUME NEW r \in Replayers, ReplayApply(r) PROVE Goal
  <2>1. ApprovalJob[replay[r]] \in Jobs /\ status[ApprovalJob[replay[r]]] = "dead_letter"
    BY <1>12 DEF ReplayApply, BudgetedApprovals, Replayable
  <2> QED BY <1>12, <2>1 DEF ReplayApply, SetStatus
<1>13. ASSUME NEW j \in Jobs, OwnerRetryJob(j) \/ OwnerCancelJob(j) PROVE Goal
  <2>1. PICK to \in {"queued", "owner_cancelled"} :
          status' = [status EXCEPT ![j] = to] /\ leaseOwner' = [leaseOwner EXCEPT ![j] = None]
    BY <1>13 DEF OwnerRetryJob, OwnerCancelJob, OwnerMove, SetStatus
  <2>2. UNCHANGED <<attempts, exec, claim>>
    BY <1>13 DEF OwnerRetryJob, OwnerCancelJob, OwnerMove
  <2> QED BY <2>1, <2>2
<1>14. CASE Tick
  <2>1. \A w \in Workers : claim'[w].phase = claim[w].phase
    BY <1>14 DEF Tick, OpenClaim, Idle
  <2> QED BY <1>14, <2>1 DEF Tick
<1>15. CASE UNCHANGED <<columns, exec, claim>>
  BY <1>15
<1> QED BY <1>1, <1>2, <1>3, <1>4, <1>5, <1>6, <1>7, <1>8, <1>10, <1>11, <1>12, <1>13, <1>14,
           <1>15, <1>16 DEF Next, WorkerStep, vars, ReplayVerify, ReplayRollback

FencedCompletion ==
  \A j \in Jobs :
    status[j] # "succeeded" /\ status'[j] = "succeeded" =>
      \E w \in Workers : /\ leaseOwner[j] = w
                        /\ exec[w] = [job |-> j, attempt |-> attempts[j]]
                        /\ exec'[w] = NoExec

LEMMA CompletionStep ==
  ASSUME FencingInv, [Next]_vars, NEW j \in Jobs,
         status[j] # "succeeded", status'[j] = "succeeded"
  PROVE  \E w \in Workers : RowIsMine(w) /\ exec[w].job = j /\ exec'[w] = NoExec
<1> USE DEF FencingInv, TypeOK
<1>1. ASSUME NEW w \in Workers, CompleteJob(w)
      PROVE  RowIsMine(w) /\ exec[w].job = j /\ exec'[w] = NoExec
  BY <1>1, MineIsAJob DEF CompleteJob, SetStatus, ReleaseExec
<1>2. ASSUME NEW S \in SUBSET Jobs, NEW class, NEW age \in Ages, FailJobs(S, class, age) PROVE FALSE
  BY <1>2 DEF FailJobs, FailureOutcome
<1>3. ASSUME NEW i \in Jobs, CreateJob(i) \/ OwnerRetryJob(i) \/ OwnerCancelJob(i) PROVE FALSE
  BY <1>3 DEF CreateJob, OwnerRetryJob, OwnerCancelJob, OwnerMove, SetStatus
<1>4. ASSUME NEW w \in Workers, StartJob(w) PROVE FALSE
  BY <1>4, MineIsAJob DEF StartJob, SetStatus
<1>5. ASSUME NEW w \in Workers, ClaimTake(w) PROVE FALSE
  BY <1>5 DEF ClaimTake, ClaimLease, FirstClaimable, SetStatus, columns
<1>6. ASSUME NEW w \in Workers, FailJob(w) PROVE FALSE
  BY <1>2, <1>6, MineIsAJob DEF FailJob
<1>7. ASSUME NEW a \in Agents, ReclaimExpiredLeases(a) PROVE FALSE
  BY <1>2, <1>7 DEF ReclaimExpiredLeases, ExpiredJobs
<1>8. ASSUME NEW r \in Replayers, ReplayApply(r) PROVE FALSE
  <2>1. ApprovalJob[replay[r]] \in Jobs
    BY <1>8 DEF ReplayApply, BudgetedApprovals
  <2> QED BY <1>8, <2>1 DEF ReplayApply, SetStatus
<1>9. CASE UNCHANGED status
  BY <1>9
<1> QED BY <1>1, <1>3, <1>4, <1>5, <1>6, <1>7, <1>8, <1>9
        DEF Next, WorkerStep, vars, columns, ClaimBegin, ClaimCount, RenewBegin, RenewLease, Abandon,
            ReplayVerify, ReplayRollback, Tick

\* A job is completed only by the worker that made its latest attempt, so a
\* worker whose lease was reclaimed cannot (completeJob's lease_owner guard).
THEOREM FencingCorrect == Spec => CompletionFenced
<1>1. Init => FencingInv
  BY FencingInit
<1>2. FencingInv /\ [Next]_vars => FencingInv'
  BY FencingStep
<1>3. FencingInv /\ [Next]_vars => FencedCompletion
  <2> SUFFICES ASSUME FencingInv, [Next]_vars, NEW j \in Jobs,
                      status[j] # "succeeded", status'[j] = "succeeded"
               PROVE  \E w \in Workers : /\ leaseOwner[j] = w
                                        /\ exec[w] = [job |-> j, attempt |-> attempts[j]]
                                        /\ exec'[w] = NoExec
    BY DEF FencedCompletion
  <2>1. PICK w \in Workers : RowIsMine(w) /\ exec[w].job = j /\ exec'[w] = NoExec
    BY CompletionStep
  <2>2. exec[w].attempt = attempts[j]
    BY <2>1 DEF FencingInv, OwnerIsCurrent
  <2>3. exec[w] = [job |-> j, attempt |-> attempts[j]]
    BY <2>1, <2>2 DEF FencingInv, TypeOK
  <2> QED BY <2>1, <2>3 DEF RowIsMine
<1>4. FencingInv /\ [Next]_vars => [FencedCompletion]_vars
  BY <1>3
<1> QED BY <1>1, <1>2, <1>4, PTL DEF Spec, CompletionFenced, FencedCompletion

-----------------------------------------------------------------------------
(* Accounting.  What an attempt ended in is recorded with the status that  *)
(* ends it, so the balances are inductive with three facts: "failed" is    *)
(* never the status between two transactions, a held job has a name on its *)
(* row, and no attempt is made beyond the budget.                          *)

NeverLeftFailed == \A j \in Jobs : status[j] # "failed"
HeldIsNamed == \A j \in Jobs : Held(j) => leaseOwner[j] # None
WithinBudget == \A j \in Jobs : attempts[j] <= maxAttempts[j]

AccountInv ==
  /\ TypeOK
  /\ NeverLeftFailed
  /\ HeldIsNamed
  /\ WithinBudget
  /\ AttemptsAccounted
  /\ DeadLetterLeftOnlyByOwner

\* What the balances say of one job.
HeldOrSucceeded(j) == IF status[j] \in HeldStatuses \cup {"succeeded"} THEN 1 ELSE 0
DeadLettered(j) == IF status[j] = "dead_letter" THEN 1 ELSE 0
Balanced(j) ==
  /\ status[j] # "failed"
  /\ Held(j) => leaseOwner[j] # None
  /\ attempts[j] <= maxAttempts[j]
  /\ attempts[j] = evidence[j]["job_retry"] + evidence[j]["job_dead_letter"]
                   + evidence[j]["cancel_of_held"] + HeldOrSucceeded(j)
  /\ evidence[j]["job_dead_letter"] = evidence[j]["job_replay_consumed"]
                                      + evidence[j]["owner_job_retry"] + DeadLettered(j)

LEMMA AccountByJob == AccountInv <=> TypeOK /\ \A j \in Jobs : Balanced(j)
BY DEF AccountInv, NeverLeftFailed, HeldIsNamed, WithinBudget, AttemptsAccounted,
       DeadLetterLeftOnlyByOwner, Balanced, HeldOrSucceeded, DeadLettered

\* An event is one more of its kind for its job, and nothing else.
LEMMA RecordCounts ==
  ASSUME evidence \in [Jobs -> [EvidenceKinds -> Nat]],
         NEW j \in Jobs, NEW kind \in EvidenceKinds, Record(j, kind)
  PROVE  /\ \A i \in Jobs : i # j => evidence'[i] = evidence[i]
         /\ \A k \in EvidenceKinds :
              evidence'[j][k] = IF k = kind THEN evidence[j][k] + 1 ELSE evidence[j][k]
BY DEF Record

LEMMA AccountInit == Init => AccountInv
<1> SUFFICES ASSUME Init PROVE AccountInv
  OBVIOUS
<1>1. \A j \in Jobs : status[j] \in {"queued", "absent"}
  BY DEF Init
<1>2. \A j \in Jobs : \A k \in EvidenceKinds : evidence[j][k] = 0
  BY DEF Init
<1>3. ASSUME NEW j \in Jobs PROVE Balanced(j)
  <2>1. attempts[j] = 0 /\ maxAttempts[j] \in Nat
    BY DEF Init
  <2>2. /\ evidence[j]["job_retry"] = 0 /\ evidence[j]["job_dead_letter"] = 0
        /\ evidence[j]["cancel_of_held"] = 0 /\ evidence[j]["job_replay_consumed"] = 0
        /\ evidence[j]["owner_job_retry"] = 0
    BY <1>2 DEF EvidenceKinds
  <2>3. HeldOrSucceeded(j) = 0 /\ DeadLettered(j) = 0 /\ ~Held(j) /\ status[j] # "failed"
    BY <1>1 DEF HeldOrSucceeded, DeadLettered, Held, HeldStatuses
  <2> QED BY <2>1, <2>2, <2>3 DEF Balanced
<1> QED BY <1>3, TypeInit, AccountByJob

\* A failure moves each failed job's attempt from the held ones to the events.
LEMMA FailuresBalance ==
  ASSUME TypeOK, NEW S \in SUBSET Jobs, NEW class, NEW age \in Ages, FailJobs(S, class, age),
         \A j \in S : Held(j), NEW j \in Jobs, Balanced(j)
  PROVE  Balanced(j)'
<1> USE DEF TypeOK
<1>1. CASE j \notin S
  <2>1. /\ status'[j] = status[j] /\ leaseOwner'[j] = leaseOwner[j]
        /\ evidence'[j] = evidence[j] /\ UNCHANGED <<attempts, maxAttempts>>
    BY <1>1 DEF FailJobs
  <2> QED BY <2>1 DEF Balanced, HeldOrSucceeded, DeadLettered, Held
<1>2. CASE j \in S
  <2>1. /\ status'[j] = FailureOutcome(j, class)
        /\ evidence'[j] = [evidence[j] EXCEPT ![FailureEvidence(j, class)] = @ + 1]
        /\ UNCHANGED <<attempts, maxAttempts>>
    BY <1>2 DEF FailJobs
  <2>2. HeldOrSucceeded(j) = 1 /\ DeadLettered(j) = 0
    BY <1>2 DEF HeldOrSucceeded, DeadLettered, Held, HeldStatuses
  <2>3. evidence[j] \in [EvidenceKinds -> Nat]
    OBVIOUS
  <2>4. CASE FailureOutcome(j, class) = "dead_letter"
    <3>1. evidence'[j] = [evidence[j] EXCEPT !["job_dead_letter"] = @ + 1]
      BY <2>1, <2>4 DEF FailureEvidence
    <3>2. HeldOrSucceeded(j)' = 0 /\ DeadLettered(j)' = 1
      BY <2>1, <2>4 DEF HeldOrSucceeded, DeadLettered, HeldStatuses
    <3>3. /\ evidence'[j]["job_dead_letter"] = evidence[j]["job_dead_letter"] + 1
          /\ \A k \in EvidenceKinds \ {"job_dead_letter"} : evidence'[j][k] = evidence[j][k]
      BY <2>3, <3>1 DEF EvidenceKinds
    <3>4. status'[j] # "failed" /\ ~Held(j)'
      BY <2>1, <2>4 DEF Held, HeldStatuses
    <3>5. \A k \in EvidenceKinds : evidence[j][k] \in Nat
      BY <2>3
    <3> QED BY <2>1, <2>2, <3>2, <3>3, <3>4, <3>5 DEF Balanced, EvidenceKinds
  <2>5. CASE FailureOutcome(j, class) = "queued"
    <3>1. evidence'[j] = [evidence[j] EXCEPT !["job_retry"] = @ + 1]
      BY <2>1, <2>5 DEF FailureEvidence
    <3>2. HeldOrSucceeded(j)' = 0 /\ DeadLettered(j)' = 0
      BY <2>1, <2>5 DEF HeldOrSucceeded, DeadLettered, HeldStatuses
    <3> QED BY <2>1, <2>2, <2>3, <2>5, <3>1, <3>2
            DEF Balanced, EvidenceKinds, Held, HeldStatuses
  <2> QED BY <2>4, <2>5 DEF FailureOutcome
<1> QED BY <1>1, <1>2

LEMMA AccountStep == AccountInv /\ [Next]_vars => AccountInv'
<1> SUFFICES ASSUME TypeOK, \A j \in Jobs : Balanced(j), [Next]_vars, NEW j \in Jobs
             PROVE  Balanced(j)'
  <2>1. AccountInv' <=> TypeOK' /\ \A j \in Jobs : Balanced(j)'
    BY DEF AccountInv, NeverLeftFailed, HeldIsNamed, WithinBudget, AttemptsAccounted,
           DeadLetterLeftOnlyByOwner, Balanced, HeldOrSucceeded, DeadLettered
  <2> QED BY <2>1, TypeStep, AccountByJob
<1> USE DEF TypeOK, columns
<1>0. ASSUME status'[j] = status[j], leaseOwner'[j] = leaseOwner[j],
             UNCHANGED <<attempts, maxAttempts, evidence>>
      PROVE  Balanced(j)'
  BY <1>0 DEF Balanced, HeldOrSucceeded, DeadLettered, Held
<1>1. ASSUME NEW i \in Jobs, CreateJob(i) PROVE Balanced(j)'
  BY <1>1 DEF CreateJob, Balanced, HeldOrSucceeded, DeadLettered, Held, HeldStatuses
<1>2. ASSUME NEW w \in Workers, ClaimTake(w) PROVE Balanced(j)'
  <2>1. CASE UNCHANGED <<columns, exec, revived>>
    BY <1>0, <1>2, <2>1 DEF ClaimTake
  <2>2. ASSUME NEW i \in FirstClaimable(w), NEW d \in LeaseDurations, ClaimLease(w, i, d)
        PROVE  Balanced(j)'
    <3>1. i \in Jobs /\ status[i] = "queued" /\ attempts[i] < maxAttempts[i]
      BY DEF FirstClaimable, Claimable
    <3>2. UNCHANGED <<maxAttempts, evidence>>
      BY <1>2, <2>2 DEF ClaimTake, ClaimLease
    <3>3. CASE i = j
      <4>1. status'[j] = "leased" /\ leaseOwner'[j] = w /\ attempts'[j] = attempts[j] + 1
        BY <2>2, <3>1, <3>3 DEF ClaimLease, SetStatus
      <4>2. HeldOrSucceeded(j) = 0 /\ DeadLettered(j) = 0
        BY <3>1, <3>3 DEF HeldOrSucceeded, DeadLettered, HeldStatuses
      <4>3. HeldOrSucceeded(j)' = 1 /\ DeadLettered(j)' = 0
        BY <4>1 DEF HeldOrSucceeded, DeadLettered, HeldStatuses
      <4> QED BY <3>1, <3>2, <3>3, <4>1, <4>2, <4>3 DEF Balanced, EvidenceKinds
    <3>4. CASE i # j
      <4>1. /\ status'[j] = status[j] /\ leaseOwner'[j] = leaseOwner[j]
            /\ attempts'[j] = attempts[j]
        BY <2>2, <3>1, <3>4 DEF ClaimLease, SetStatus
      <4> QED BY <3>2, <4>1 DEF Balanced, HeldOrSucceeded, DeadLettered, Held
    <3> QED BY <3>3, <3>4
  <2> QED BY <1>2, <2>1, <2>2 DEF ClaimTake
<1>3. ASSUME NEW w \in Workers, StartJob(w) PROVE Balanced(j)'
  BY <1>3, MineIsAJob
  DEF StartJob, SetStatus, RowIsMine, Balanced, HeldOrSucceeded, DeadLettered, Held, HeldStatuses
<1>4. ASSUME NEW w \in Workers, CompleteJob(w) PROVE Balanced(j)'
  BY <1>4, MineIsAJob
  DEF CompleteJob, SetStatus, Balanced, HeldOrSucceeded, DeadLettered, Held, HeldStatuses
<1>5. ASSUME NEW w \in Workers, FailJob(w) PROVE Balanced(j)'
  <2>1. PICK class \in {"transient", "fatal"}, age \in Ages : FailJobs({exec[w].job}, class, age)
    BY <1>5 DEF FailJob
  <2>2. {exec[w].job} \in SUBSET Jobs /\ \A i \in {exec[w].job} : Held(i)
    BY <1>5, MineIsAJob DEF FailJob
  <2>3. Balanced(j)
    OBVIOUS
  <2>4. TypeOK
    OBVIOUS
  <2> DEFINE S == {exec[w].job}
  <2>5. S \in SUBSET Jobs /\ FailJobs(S, class, age) /\ \A i \in S : Held(i)
    BY <2>1, <2>2
  <2> HIDE DEF S, TypeOK
  <2> QED BY <2>3, <2>4, <2>5, FailuresBalance
<1>6. ASSUME NEW a \in Agents, ReclaimExpiredLeases(a) PROVE Balanced(j)'
  <2>1. PICK age \in Ages : FailJobs(ExpiredJobs(a, age), "transient", age)
    BY <1>6 DEF ReclaimExpiredLeases
  <2>3. ExpiredJobs(a, age) \in SUBSET Jobs /\ \A i \in ExpiredJobs(a, age) : Held(i)
    BY DEF ExpiredJobs
  <2>2. TypeOK /\ Balanced(j)
    OBVIOUS
  <2> HIDE DEF TypeOK
  <2> QED BY <2>1, <2>2, <2>3, FailuresBalance
<1>7. ASSUME NEW i \in Jobs, NEW to \in {"queued", "owner_cancelled"},
             NEW kind \in EvidenceKinds, OwnerMove(i, to, kind)
      PROVE  /\ i # j => Balanced(j)'
             /\ i = j => /\ status'[j] = to
                         /\ UNCHANGED <<attempts, maxAttempts>>
                         /\ HeldOrSucceeded(j)' = 0 /\ DeadLettered(j)' = 0
                         /\ \A k \in EvidenceKinds :
                              evidence'[j][k] = IF k = kind THEN evidence[j][k] + 1
                                                ELSE evidence[j][k]
  <2>1. UNCHANGED <<attempts, maxAttempts>>
    BY <1>7 DEF OwnerMove
  <2>2. CASE i # j
    <3>1. /\ status'[j] = status[j] /\ leaseOwner'[j] = leaseOwner[j]
          /\ evidence'[j] = evidence[j]
      BY <1>7, <2>2, RecordCounts DEF OwnerMove, SetStatus
    <3> QED BY <2>1, <2>2, <3>1 DEF Balanced, HeldOrSucceeded, DeadLettered, Held
  <2>3. CASE i = j
    <3>1. status'[j] = to
      BY <1>7, <2>3 DEF OwnerMove, SetStatus
    <3>2. HeldOrSucceeded(j)' = 0 /\ DeadLettered(j)' = 0
      BY <3>1 DEF HeldOrSucceeded, DeadLettered, HeldStatuses
    <3> QED BY <1>7, <2>1, <2>3, <3>1, <3>2, RecordCounts DEF OwnerMove
  <2> QED BY <2>2, <2>3
<1>8. ASSUME NEW i \in Jobs, OwnerRetryJob(i) PROVE Balanced(j)'
  <2>1. OwnerMove(i, "queued", "owner_job_retry") /\ status[i] \in {"failed", "dead_letter"}
    BY <1>8 DEF OwnerRetryJob
  <2>2. CASE i = j
    <3>1. status[j] = "dead_letter"
      BY <2>1, <2>2 DEF Balanced
    <3>2. HeldOrSucceeded(j) = 0 /\ DeadLettered(j) = 1
      BY <3>1 DEF HeldOrSucceeded, DeadLettered, HeldStatuses
    <3>3. /\ status'[j] = "queued" /\ UNCHANGED <<attempts, maxAttempts>>
          /\ HeldOrSucceeded(j)' = 0 /\ DeadLettered(j)' = 0
          /\ \A k \in EvidenceKinds :
               evidence'[j][k] = IF k = "owner_job_retry" THEN evidence[j][k] + 1
                                 ELSE evidence[j][k]
      BY <1>7, <2>1, <2>2 DEF EvidenceKinds
    <3>4. ~Held(j)'
      BY <3>3 DEF Held, HeldStatuses
    <3>5. \A k \in EvidenceKinds : evidence[j][k] \in Nat
      BY DEF TypeOK
    <3> HIDE DEF TypeOK
    <3> QED BY <3>2, <3>3, <3>4, <3>5 DEF Balanced, EvidenceKinds
  <2> QED BY <1>7, <2>1, <2>2 DEF EvidenceKinds
<1>9. ASSUME NEW i \in Jobs, OwnerCancelJob(i) PROVE Balanced(j)'
  <2>1. /\ status[i] \in {"queued", "leased", "running"}
        /\ OwnerMove(i, "owner_cancelled", IF status[i] = "queued" THEN "cancel_of_queued"
                                                                  ELSE "cancel_of_held")
    BY <1>9 DEF OwnerCancelJob
  <2>2. CASE i = j /\ status[i] = "queued"
    <3>1. HeldOrSucceeded(j) = 0 /\ DeadLettered(j) = 0
      BY <2>2 DEF HeldOrSucceeded, DeadLettered, HeldStatuses
    <3>2. OwnerMove(i, "owner_cancelled", "cancel_of_queued")
      BY <2>1, <2>2
    <3>3. /\ status'[j] = "owner_cancelled" /\ UNCHANGED <<attempts, maxAttempts>>
          /\ HeldOrSucceeded(j)' = 0 /\ DeadLettered(j)' = 0
          /\ \A k \in EvidenceKinds :
               evidence'[j][k] = IF k = "cancel_of_queued" THEN evidence[j][k] + 1
                                 ELSE evidence[j][k]
      BY <1>7, <2>2, <3>2 DEF EvidenceKinds
    <3>4. ~Held(j)'
      BY <3>3 DEF Held, HeldStatuses
    <3> QED BY <3>1, <3>3, <3>4 DEF Balanced, EvidenceKinds
  <2>3. CASE i = j /\ status[i] # "queued"
    <3>1. HeldOrSucceeded(j) = 1 /\ DeadLettered(j) = 0
      BY <2>1, <2>3 DEF HeldOrSucceeded, DeadLettered, HeldStatuses
    <3>2. OwnerMove(i, "owner_cancelled", "cancel_of_held")
      BY <2>1, <2>3
    <3>3. /\ status'[j] = "owner_cancelled" /\ UNCHANGED <<attempts, maxAttempts>>
          /\ HeldOrSucceeded(j)' = 0 /\ DeadLettered(j)' = 0
          /\ \A k \in EvidenceKinds :
               evidence'[j][k] = IF k = "cancel_of_held" THEN evidence[j][k] + 1
                                 ELSE evidence[j][k]
      BY <1>7, <2>3, <3>2 DEF EvidenceKinds
    <3>4. ~Held(j)'
      BY <3>3 DEF Held, HeldStatuses
    <3> QED BY <3>1, <3>3, <3>4 DEF Balanced, EvidenceKinds
  <2> QED BY <1>7, <2>1, <2>2, <2>3 DEF EvidenceKinds
<1>10. ASSUME NEW r \in Replayers, ReplayApply(r) PROVE Balanced(j)'
  <2> DEFINE i == ApprovalJob[replay[r]]
  <2>0. replay[r] \in BudgetedApprovals
    BY <1>10 DEF ReplayApply
  <2>1. i \in Jobs /\ ApprovalBudget[replay[r]] \in Nat /\ status[i] = "dead_letter"
    BY <1>10, <2>0 DEF ReplayApply, BudgetedApprovals, Replayable
  <2>2. /\ status' = [status EXCEPT ![i] = "queued"]
        /\ maxAttempts' = [maxAttempts EXCEPT ![i] = @ + ApprovalBudget[replay[r]]]
        /\ Record(i, "job_replay_consumed") /\ UNCHANGED <<attempts, leaseOwner>>
    BY <1>10 DEF ReplayApply, SetStatus
  <2> HIDE DEF i
  <2>3. CASE i # j
    <3>1. /\ status'[j] = status[j] /\ evidence'[j] = evidence[j]
          /\ maxAttempts'[j] = maxAttempts[j]
      BY <2>1, <2>2, <2>3, RecordCounts DEF EvidenceKinds
    <3> QED BY <2>2, <3>1 DEF Balanced, HeldOrSucceeded, DeadLettered, Held
  <2>4. CASE i = j
    <3>1. /\ status'[j] = "queued" /\ maxAttempts'[j] >= maxAttempts[j]
          /\ \A k \in EvidenceKinds :
               evidence'[j][k] = IF k = "job_replay_consumed" THEN evidence[j][k] + 1
                                 ELSE evidence[j][k]
      BY <2>1, <2>2, <2>4, RecordCounts DEF EvidenceKinds
    <3>2. HeldOrSucceeded(j) = 0 /\ DeadLettered(j) = 1
      BY <2>1, <2>4 DEF HeldOrSucceeded, DeadLettered, HeldStatuses
    <3>3. HeldOrSucceeded(j)' = 0 /\ DeadLettered(j)' = 0 /\ ~Held(j)' /\ status'[j] # "failed"
      BY <3>1 DEF HeldOrSucceeded, DeadLettered, Held, HeldStatuses
    <3>4. /\ evidence'[j]["job_replay_consumed"] = evidence[j]["job_replay_consumed"] + 1
          /\ \A k \in EvidenceKinds \ {"job_replay_consumed"} :
               evidence'[j][k] = evidence[j][k]
      BY <3>1 DEF EvidenceKinds
    <3>5. attempts'[j] = attempts[j] /\ maxAttempts'[j] \in Nat
      BY <2>1, <2>2, <2>4
    <3> QED BY <2>1, <3>1, <3>2, <3>3, <3>4, <3>5 DEF Balanced, EvidenceKinds
  <2> QED BY <2>3, <2>4
<1>11. CASE UNCHANGED <<status, attempts, maxAttempts, leaseOwner, evidence>>
  BY <1>0, <1>11
<1> QED BY <1>1, <1>2, <1>3, <1>4, <1>5, <1>6, <1>8, <1>9, <1>10, <1>11
        DEF Next, WorkerStep, vars, ClaimBegin, ClaimCount, RenewBegin, RenewLease, Abandon,
            ReplayVerify, ReplayRollback, Tick

\* The balances of every job, with what makes them inductive.
LEMMA AccountAlways == Spec => []AccountInv
<1>1. Init => AccountInv
  BY AccountInit
<1>2. AccountInv /\ [Next]_vars => AccountInv'
  BY AccountStep
<1> QED BY <1>1, <1>2, PTL DEF Spec

\* However failures, sweeps, completions and owners race, each attempt of a
\* job is closed by exactly one recorded outcome (failJobInternal, completeJob).
THEOREM AttemptsCorrect == Spec => []AttemptsAccounted
<1>1. AccountInv => AttemptsAccounted
  BY DEF AccountInv
<1> QED BY <1>1, AccountAlways, PTL

\* Every dead letter left has an owner's recorded decision that requeued it
\* (replayJob's consumed event, ownerControlStore's audit row).
THEOREM DeadLettersCorrect == Spec => []DeadLetterLeftOnlyByOwner
<1>1. AccountInv => DeadLetterLeftOnlyByOwner
  BY DEF AccountInv
<1> QED BY <1>1, AccountAlways, PTL

-----------------------------------------------------------------------------
(* Replays: a fact about steps.                                            *)

\* What the advisory lock on an approval and the check under it leave.
ApprovalLocked ==
  \A r, s \in Replayers : replay[r] # None /\ replay[r] = replay[s] => r = s
VerifiedUnused == \A r \in Replayers : replay[r] # None => replay[r] \notin consumed
ReplayInv == TypeOK /\ ApprovalLocked /\ VerifiedUnused

\* A step that changes a job's budget consumes one approval of that job, which
\* had not been consumed, and grants what that approval says.
BudgetGranted ==
  \A j \in Jobs :
    maxAttempts'[j] # maxAttempts[j] =>
      \E e \in Approvals \ consumed :
        /\ ApprovalJob[e] = j
        /\ consumed' = consumed \cup {e}
        /\ maxAttempts'[j] = maxAttempts[j] + ApprovalBudget[e]

LEMMA ReplayInit == Init => ReplayInv
BY TypeInit DEF Init, ReplayInv, ApprovalLocked, VerifiedUnused

\* Only the three steps of replayJob write an approval's lock or consume it.
LEMMA OthersLeaveApprovals ==
  ASSUME [Next]_vars
  PROVE  \/ \E r \in Replayers : \E e \in Approvals : ReplayVerify(r, e)
         \/ \E r \in Replayers : ReplayApply(r) \/ ReplayRollback(r)
         \/ UNCHANGED <<consumed, replay, maxAttempts>>
BY DEF Next, WorkerStep, vars, columns, CreateJob, ClaimBegin, ClaimCount, ClaimTake,
       ClaimLease, RenewBegin, RenewLease, StartJob, CompleteJob, FailJob, FailJobs, Abandon,
       ReclaimExpiredLeases, OwnerRetryJob, OwnerCancelJob, OwnerMove, Tick

LEMMA ReplayStep == ReplayInv /\ [Next]_vars => ReplayInv' /\ BudgetGranted
<1> SUFFICES ASSUME ReplayInv, [Next]_vars
             PROVE  ApprovalLocked' /\ VerifiedUnused' /\ BudgetGranted
  BY TypeStep DEF ReplayInv
<1> USE DEF ReplayInv, TypeOK, ApprovalLocked, VerifiedUnused
<1>1. ASSUME NEW r \in Replayers, NEW e \in Approvals, ReplayVerify(r, e)
      PROVE  ApprovalLocked' /\ VerifiedUnused' /\ BudgetGranted
  <2>1. /\ \A s \in Replayers : replay[s] # e
        /\ e \notin consumed /\ replay' = [replay EXCEPT ![r] = e]
        /\ UNCHANGED <<consumed, maxAttempts>>
    BY <1>1 DEF ReplayVerify, ApprovalFree, columns
  <2> QED BY <2>1 DEF BudgetGranted
<1>2. ASSUME NEW r \in Replayers, ReplayApply(r)
      PROVE  ApprovalLocked' /\ VerifiedUnused' /\ BudgetGranted
  <2>1. PICK e \in Approvals : e = replay[r] /\ e # None /\ e \notin consumed
    BY <1>2 DEF ReplayApply, BudgetedApprovals
  <2>2. /\ consumed' = consumed \cup {e} /\ replay' = [replay EXCEPT ![r] = None]
        /\ maxAttempts' = [maxAttempts EXCEPT ![ApprovalJob[e]] = @ + ApprovalBudget[e]]
    BY <1>2, <2>1 DEF ReplayApply
  <2>3. ApprovalJob[e] \in Jobs
    OBVIOUS
  <2> QED BY <2>1, <2>2, <2>3 DEF BudgetGranted
<1>3. ASSUME NEW r \in Replayers, ReplayRollback(r)
      PROVE  ApprovalLocked' /\ VerifiedUnused' /\ BudgetGranted
  <2>1. replay' = [replay EXCEPT ![r] = None] /\ UNCHANGED <<consumed, maxAttempts>>
    BY <1>3 DEF ReplayRollback, columns
  <2> QED BY <2>1 DEF BudgetGranted
<1>4. CASE UNCHANGED <<consumed, replay, maxAttempts>>
  BY <1>4 DEF BudgetGranted
<1> QED BY <1>1, <1>2, <1>3, <1>4, OthersLeaveApprovals

\* However many callers replay one approval at once, its budget is granted by
\* one step, the one that records it as consumed (replayJob's advisory lock).
THEOREM ApprovalGrantsOnce == Spec => [][BudgetGranted]_vars
<1>1. Init => ReplayInv
  BY ReplayInit
<1>2. ReplayInv /\ [Next]_vars => ReplayInv' /\ [BudgetGranted]_vars
  BY ReplayStep
<1> QED BY <1>1, <1>2, PTL DEF Spec

-----------------------------------------------------------------------------
(* Budgets: the approvals consumed are finitely many, and what a job was   *)
(* granted is the sum of those that name it.                               *)

ConsumedFor(j) == {e \in consumed : ApprovalJob[e] = j}
GrantedInv ==
  /\ ReplayInv
  /\ IsFiniteSet(consumed)
  /\ \A j \in Jobs : maxAttempts[j] = GrantedAttempts(j)

LEMMA GrantedIsTotal ==
  ASSUME NEW j
  PROVE  /\ GrantedAttempts(j) = InitialMaxAttempts + Total(ApprovalBudget, ConsumedFor(j))
         /\ GrantedAttempts(j)'
              = InitialMaxAttempts + Total(ApprovalBudget, ConsumedFor(j)')
BY DEF GrantedAttempts, ConsumedFor, Total, MapThenSumSet, MapThenFoldSet

\* Of no approvals the sum is nothing.
LEMMA NothingGranted == Total(ApprovalBudget, {}) = 0
<1>1. IsFiniteSet({})
  BY FS_EmptySet
<1>2. PICK g : Adds(g, ApprovalBudget, {}) /\ Total(ApprovalBudget, {}) = g[{}]
  BY <1>1, SumIsAdded
<1>3. g[{}] = 0
  BY <1>2 DEF Adds
<1> QED BY <1>2, <1>3

LEMMA GrantedInit == Init => GrantedInv
<1> SUFFICES ASSUME Init
             PROVE  IsFiniteSet(consumed) /\ \A j \in Jobs : maxAttempts[j] = GrantedAttempts(j)
  BY ReplayInit DEF GrantedInv
<1>1. consumed = {} /\ \A j \in Jobs : ConsumedFor(j) = {} /\ maxAttempts[j] = InitialMaxAttempts
  BY DEF Init, ConsumedFor
<1>2. ASSUME NEW j \in Jobs PROVE maxAttempts[j] = GrantedAttempts(j)
  <2>1. GrantedAttempts(j) = InitialMaxAttempts + Total(ApprovalBudget, {})
    BY <1>1, GrantedIsTotal
  <2> QED BY <1>1, <2>1, NothingGranted
<1> QED BY <1>1, <1>2, FS_EmptySet

\* The step that consumes an approval grants its budget to the job it names.
LEMMA GrantedStep == GrantedInv /\ [Next]_vars => GrantedInv'
<1> SUFFICES ASSUME GrantedInv, [Next]_vars
             PROVE  /\ IsFiniteSet(consumed')
                    /\ \A j \in Jobs : maxAttempts'[j] = GrantedAttempts(j)'
  BY ReplayStep DEF GrantedInv
<1>1. CASE UNCHANGED <<consumed, maxAttempts>>
  <2>1. \A j : ConsumedFor(j)' = ConsumedFor(j)
    BY <1>1 DEF ConsumedFor
  <2> QED BY <1>1, <2>1, GrantedIsTotal DEF GrantedInv
<1>2. ASSUME NEW r \in Replayers, ReplayApply(r)
      PROVE  /\ IsFiniteSet(consumed')
             /\ \A j \in Jobs : maxAttempts'[j] = GrantedAttempts(j)'
  <2>1. PICK e \in Approvals : e = replay[r] /\ e # None /\ e \notin consumed
    BY <1>2 DEF ReplayApply, BudgetedApprovals, GrantedInv, ReplayInv, TypeOK, VerifiedUnused
  <2>2. /\ consumed' = consumed \cup {e}
        /\ maxAttempts' = [maxAttempts EXCEPT ![ApprovalJob[e]] = @ + ApprovalBudget[e]]
    BY <1>2, <2>1 DEF ReplayApply
  <2>3. IsFiniteSet(consumed')
    BY <2>2, FS_AddElement DEF GrantedInv
  <2>4. maxAttempts \in [Jobs -> Int] /\ consumed \subseteq Approvals
    BY DEF GrantedInv, ReplayInv, TypeOK
  <2>5. ASSUME NEW j \in Jobs PROVE maxAttempts'[j] = GrantedAttempts(j)'
    <3>1. CASE ApprovalJob[e] # j
      <4>1. ConsumedFor(j)' = ConsumedFor(j)
        BY <2>2, <3>1 DEF ConsumedFor
      <4>2. maxAttempts'[j] = maxAttempts[j]
        BY <2>2, <2>4, <3>1
      <4> QED BY <4>1, <4>2, GrantedIsTotal DEF GrantedInv
    <3>2. CASE ApprovalJob[e] = j
      <4>1. ConsumedFor(j)' = ConsumedFor(j) \cup {e} /\ e \notin ConsumedFor(j)
        BY <2>1, <2>2, <3>2 DEF ConsumedFor
      <4>2. maxAttempts'[j] = maxAttempts[j] + ApprovalBudget[e]
        BY <2>2, <2>4, <3>2
      <4>3. /\ IsFiniteSet(ConsumedFor(j))
            /\ \A d \in ConsumedFor(j) \cup {e} : ApprovalBudget[d] \in Int
        <5>1. ConsumedFor(j) \subseteq consumed
          BY DEF ConsumedFor
        <5> QED BY <5>1, <2>4, FS_Subset DEF GrantedInv
      <4>4. /\ Total(ApprovalBudget, ConsumedFor(j)) \in Int
            /\ Total(ApprovalBudget, ConsumedFor(j)')
                 = ApprovalBudget[e] + Total(ApprovalBudget, ConsumedFor(j))
        BY <4>1, <4>3, SumOfOneMore
      <4>5. maxAttempts[j] = InitialMaxAttempts + Total(ApprovalBudget, ConsumedFor(j))
        BY GrantedIsTotal DEF GrantedInv
      <4>6. GrantedAttempts(j)' = InitialMaxAttempts + Total(ApprovalBudget, ConsumedFor(j)')
        BY GrantedIsTotal
      <4> QED BY <4>2, <4>4, <4>5, <4>6
    <3> QED BY <3>1, <3>2
  <2> QED BY <2>3, <2>5
<1> QED
  <2>1. ASSUME NEW r \in Replayers, NEW e \in Approvals, ReplayVerify(r, e)
        PROVE  UNCHANGED <<consumed, maxAttempts>>
    BY <2>1 DEF ReplayVerify, columns
  <2>2. ASSUME NEW r \in Replayers, ReplayRollback(r)
        PROVE  UNCHANGED <<consumed, maxAttempts>>
    BY <2>2 DEF ReplayRollback, columns
  <2> QED BY <1>1, <1>2, <2>1, <2>2, OthersLeaveApprovals

\* A job's budget is the initial one and each consumed approval's once, however many
\* callers replay it at once, and its attempts stay within it.
THEOREM BudgetCorrect == Spec => []BudgetGrantedOnce
<1>1. Init => GrantedInv
  BY GrantedInit
<1>2. GrantedInv /\ [Next]_vars => GrantedInv'
  BY GrantedStep
<1>3. GrantedInv /\ AccountInv => BudgetGrantedOnce
  BY DEF GrantedInv, AccountInv, WithinBudget, BudgetGrantedOnce
<1> QED BY <1>1, <1>2, <1>3, AccountAlways, PTL DEF Spec

-----------------------------------------------------------------------------
(* Leases.                                                                 *)

LeaseKept ==
  \A j \in Jobs :
    Held(j) /\ Unexpired(j, 0) /\ leaseOwner'[j] # leaseOwner[j] =>
      \/ status'[j] = "owner_cancelled"
      \/ exec[leaseOwner[j]].job = j /\ exec'[leaseOwner[j]] = NoExec

LEMMA LeaseKeptStep == AccountInv /\ [Next]_vars => LeaseKept
<1> SUFFICES ASSUME TypeOK, HeldIsNamed, [Next]_vars, NEW j \in Jobs,
                    Held(j), Unexpired(j, 0), leaseOwner'[j] # leaseOwner[j]
             PROVE  \/ status'[j] = "owner_cancelled"
                    \/ exec[leaseOwner[j]].job = j /\ exec'[leaseOwner[j]] = NoExec
  BY DEF LeaseKept, AccountInv
<1> USE DEF TypeOK, HeldIsNamed
<1>0. leaseOwner[j] \in Workers /\ leaseLeft[j] >= 0
  BY DEF Unexpired
<1>1. ASSUME NEW w \in Workers, ClaimTake(w) PROVE FALSE
  <2>1. CASE UNCHANGED <<columns, exec, revived>>
    BY <2>1 DEF columns
  <2>2. ASSUME NEW i \in FirstClaimable(w), NEW d \in LeaseDurations, ClaimLease(w, i, d)
        PROVE  FALSE
    <3>1. i \in Jobs /\ status[i] = "queued"
      BY DEF FirstClaimable, Claimable
    <3>2. i # j
      BY <3>1 DEF Held, HeldStatuses
    <3> QED BY <2>2, <3>1, <3>2 DEF ClaimLease
  <2> QED BY <1>1, <2>1, <2>2 DEF ClaimTake
<1>2. ASSUME NEW w \in Workers, CompleteJob(w) \/ FailJob(w)
      PROVE  exec[leaseOwner[j]].job = j /\ exec'[leaseOwner[j]] = NoExec
  <2>1. exec' = [exec EXCEPT ![w] = NoExec] /\ RowIsMine(w)
    BY <1>2 DEF CompleteJob, FailJob, ReleaseExec
  <2>2. exec[w].job = j
    BY <1>2, MineIsAJob DEF CompleteJob, FailJob, FailJobs
  <2> QED BY <2>1, <2>2 DEF RowIsMine
<1>3. ASSUME NEW a \in Agents, ReclaimExpiredLeases(a) PROVE FALSE
  BY <1>0, <1>3 DEF ReclaimExpiredLeases, ExpiredJobs, FailJobs, Ages
<1>4. ASSUME NEW i \in Jobs, OwnerRetryJob(i) \/ OwnerCancelJob(i)
      PROVE  status'[j] = "owner_cancelled"
  <2>1. PICK to : /\ status' = [status EXCEPT ![i] = to]
                  /\ leaseOwner' = [leaseOwner EXCEPT ![i] = None]
                  /\ to = "owner_cancelled" \/ status[i] \in {"failed", "dead_letter"}
    BY <1>4 DEF OwnerRetryJob, OwnerCancelJob, OwnerMove, SetStatus
  <2>2. i = j
    BY <2>1
  <2> QED BY <2>1, <2>2 DEF Held, HeldStatuses
<1>5. CASE UNCHANGED leaseOwner
  BY <1>5
<1> QED BY <1>1, <1>2, <1>3, <1>4, <1>5
        DEF Next, WorkerStep, vars, columns, CreateJob, ClaimBegin, ClaimCount, RenewBegin, RenewLease,
            StartJob, Abandon, ReplayVerify, ReplayApply, ReplayRollback, Tick

\* Nobody but its owner's own report, or the house owner's cancel, takes a
\* lease that still runs: claims, sweeps and renewals agree on its last second.
THEOREM LeaseCorrect == Spec => LeaseNotStolen
<1>1. AccountInv /\ [Next]_vars => [LeaseKept]_vars
  BY LeaseKeptStep
<1> QED BY <1>1, AccountAlways, PTL DEF Spec, LeaseNotStolen, LeaseKept
=============================================================================
