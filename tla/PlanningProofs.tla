--------------------------- MODULE PlanningProofs ---------------------------
(***************************************************************************)
(* Proofs about what decides on production: the Hermes manager, the        *)
(* schedule of a Director and the backlog feeder; for any number of        *)
(* requests, ticks, slots and slices, however they overlap, fail or die.   *)
(***************************************************************************)
EXTENDS Hermes, Scheduling, BacklogFeeder, FiniteSetTheorems, WellFoundedInduction,
        TLAPS

-----------------------------------------------------------------------------
(* Hermes.                                                                 *)

\* A nonempty set of natural numbers has a least element.
LEMMA LeastOf ==
  ASSUME NEW R, IsWellFoundedOn(R, Nat), \A x, y \in Nat : <<y, x>> \in R <=> y < x,
         NEW T, T \subseteq Nat, T # {}
  PROVE  \E x \in T : \A y \in T : x <= y
<1>3. PICK x \in T : \A y \in T : ~ (<<y, x>> \in R)
  <2>1. \A U \in SUBSET Nat : U # {} => \E x \in U : \A y \in U : ~ (<<y, x>> \in R)
    BY WFMin
  <2> QED
    BY <2>1
<1>4. \A y \in T : ~ (y < x) => x <= y
  OBVIOUS
<1>5. \A y \in T : ~ (y < x)
  <2> SUFFICES ASSUME NEW y \in T PROVE ~ (y < x)
    OBVIOUS
  <2>1. x \in Nat /\ y \in Nat /\ ~ (<<y, x>> \in R)
    BY <1>3
  <2> QED
    BY <2>1, Zenon
<1> QED
  BY <1>4, <1>5

LEMMA Least ==
  ASSUME NEW T, T \subseteq Nat, T # {}
  PROVE  \E x \in T : \A y \in T : x <= y
<1>1. IsWellFoundedOn(OpToRel(<, Nat), Nat)
  BY NatLessThanWellFounded
<1>2. \A x, y \in Nat : <<y, x>> \in OpToRel(<, Nat) <=> y < x
  BY DEF OpToRel
<1> QED
  BY <1>1, <1>2, LeastOf, Zenon

\* A nonempty bounded set of natural numbers has a greatest element.
LEMMA Most ==
  ASSUME NEW T, NEW b \in Nat, T \subseteq 0..b, T # {}
  PROVE  \E x \in T : \A y \in T : y <= x
<1> DEFINE S == {b - n : n \in T}
<1>1. PICK m \in S : \A k \in S : m <= k
  <2>1. S \subseteq Nat /\ S # {}
    <3>1. S \subseteq Nat
      OBVIOUS
    <3>2. S # {}
      OBVIOUS
    <3> QED
      BY <3>1, <3>2
  <2> HIDE DEF S
  <2> QED
    BY <2>1, Least, Zenon
<1>2. PICK x \in T : m = b - x
  BY <1>1
<1>3. \A y \in T : b - x <= b - y
  BY <1>1, <1>2
<1> QED
  BY <1>3, <1>2

-----------------------------------------------------------------------------
DeciderRows == [at : {"idle", "numbered", "done"}, record : Requested \cup {NoRecord},
                verdict : {"none"}]
ExecutorRows == [at : {"idle", "read", "failing", "recording", "queued", "done"},
                 record : Records \cup {NoRecord}, verdict : {"none"}]
CompleterRows == [at : {"idle", "read", "done"}, record : Records \cup {NoRecord},
                  verdict : {"none", "claimed", "failed", "verified"}]

\* A record that let an action be carried out.
Granted(r, log) == r.outcome = "EXECUTING" /\ \E i \in DOMAIN log : log[i] = r

HermesQueued(n, planned) == \E r \in planned : r.origin = <<"hermes", n, 0>>

ExecutorSound(row, log, planned) ==
  /\ row.at \in {"read", "failing", "recording", "queued"} => Granted(row.record, log)
  /\ row.at = "queued" => HermesQueued(row.record.number, planned)
CompleterSound(row, log) == row.at = "read" => Granted(row.record, log)

\* The deciders that have taken a number, and the numbers they can have come to.
Busy == {d \in Deciders : decider[d].at # "idle"}

HermesRows ==
  /\ decisions \in Seq(Records) /\ queuedEvidence \subseteq Numbers
  /\ decider \in [Deciders -> DeciderRows] /\ executor \in [Executors -> ExecutorRows]
  /\ completer \in [Completers -> CompleterRows]

NumbersCounted ==
  /\ \A i \in DOMAIN decisions : decisions[i].number <= Cardinality(Busy)
  /\ \A d \in Deciders : decider[d].at = "numbered" =>
       decider[d].record \in Requested /\ decider[d].record.number <= Cardinality(Busy)

LogSound ==
  \A i \in DOMAIN decisions :
    /\ decisions[i].outcome = "EXECUTING" => decisions[i].kind \notin {"unapproved", "prohibited"}
    /\ decisions[i].outcome \in {"EXECUTED", "FAILED"} =>
         \E k \in 1..(i - 1) : decisions[k] = WithOutcome(decisions[i], "EXECUTING")

\* The record a planned episode of Hermes goes back to.
PlannedBy(r, log) ==
  \E i \in DOMAIN log :
    /\ log[i].number = r.origin[2] /\ log[i].episode = r.episode
    /\ log[i].kind = "start" /\ log[i].outcome = "EXECUTING"

HermesPlans ==
  /\ \A r \in releases : r.origin[1] = "hermes" => PlannedBy(r, decisions)
  /\ \A n \in queuedEvidence : HermesQueued(n, releases)

HermesInv ==
  /\ HermesRows /\ NumbersCounted /\ LogSound /\ HermesPlans
  /\ \A x \in Executors : ExecutorSound(executor[x], decisions, releases)
  /\ \A c \in Completers : CompleterSound(completer[c], decisions)

\* The log is appended to, by records that are decided or go back to one that
\* was; episodes are only added.
LogGrows ==
  /\ decisions' \in Seq(Records) /\ DOMAIN decisions \subseteq DOMAIN decisions'
  /\ \A i \in DOMAIN decisions : decisions'[i] = decisions[i]
  /\ \A i \in DOMAIN decisions' : i \notin DOMAIN decisions =>
       /\ i = Len(decisions) + 1 /\ decisions'[i].number <= Cardinality(Busy)
       /\ decisions'[i].outcome = "EXECUTING" =>
            decisions'[i].kind \notin {"unapproved", "prohibited"}
       /\ decisions'[i].outcome \in {"EXECUTED", "FAILED"} =>
            Granted(WithOutcome(decisions'[i], "EXECUTING"), decisions)
PlansGrow ==
  /\ releases \subseteq releases' /\ queuedEvidence' \subseteq Numbers
  /\ \A r \in releases' \ releases : r.origin[1] = "hermes" => PlannedBy(r, decisions)
  /\ \A n \in queuedEvidence' : HermesQueued(n, releases')

LEMMA GrantedStays ==
  ASSUME LogGrows, NEW r, Granted(r, decisions)
  PROVE  Granted(r, decisions')
BY DEF LogGrows, Granted

LEMMA RowsStaySound ==
  ASSUME HermesInv, LogGrows, PlansGrow
  PROVE  /\ \A x \in Executors : ExecutorSound(executor[x], decisions', releases')
         /\ \A c \in Completers : CompleterSound(completer[c], decisions')
BY GrantedStays DEF HermesInv, ExecutorSound, CompleterSound, HermesQueued, PlansGrow

LEMMA HermesGrows ==
  ASSUME HermesInv, LogGrows, PlansGrow,
         decider' \in [Deciders -> DeciderRows], executor' \in [Executors -> ExecutorRows],
         completer' \in [Completers -> CompleterRows],
         Cardinality(Busy') \in Nat, Cardinality(Busy) \in Nat,
         Cardinality(Busy) <= Cardinality(Busy'),
         \A d \in Deciders : decider'[d].at = "numbered" =>
           decider'[d].record \in Requested /\ decider'[d].record.number <= Cardinality(Busy'),
         \A x \in Executors : ExecutorSound(executor'[x], decisions', releases'),
         \A c \in Completers : CompleterSound(completer'[c], decisions')
  PROVE  HermesInv'
<1>1. HermesRows'
  BY DEF HermesRows, LogGrows, PlansGrow
<1>2. \A i \in DOMAIN decisions' : decisions'[i].number \in Nat /\ i \in Nat
  <2>1. decisions' \in Seq(Records)
    BY DEF LogGrows
  <2>2. \A i \in DOMAIN decisions' : decisions'[i] \in Records /\ i \in Nat
    BY <2>1
  <2> QED
    BY <2>2 DEF Records, Numbers
<1>3. decisions \in Seq(Records) /\ DOMAIN decisions = 1..Len(decisions) /\ Len(decisions) \in Nat
  BY DEF HermesInv, HermesRows
<1>4. NumbersCounted'
  <2>1. \A i \in DOMAIN decisions' : decisions'[i].number <= Cardinality(Busy)
    BY DEF LogGrows, HermesInv, NumbersCounted
  <2>2. \A i \in DOMAIN decisions' : decisions'[i].number <= Cardinality(Busy')
    BY <1>2, <2>1
  <2> QED
    BY <2>2 DEF NumbersCounted
<1>5. LogSound'
  <2> SUFFICES ASSUME NEW i \in DOMAIN decisions'
               PROVE  /\ decisions'[i].outcome = "EXECUTING" =>
                           decisions'[i].kind \notin {"unapproved", "prohibited"}
                      /\ decisions'[i].outcome \in {"EXECUTED", "FAILED"} =>
                           \E k \in 1..(i - 1) :
                             decisions'[k] = WithOutcome(decisions'[i], "EXECUTING")
    BY DEF LogSound, WithOutcome
  <2>1. CASE i \in DOMAIN decisions
    <3>1. decisions'[i] = decisions[i] /\ \A k \in 1..(i - 1) : decisions'[k] = decisions[k]
      BY <1>3, <2>1 DEF LogGrows
    <3> QED
      BY <2>1, <3>1 DEF HermesInv, LogSound
  <2>2. CASE i \notin DOMAIN decisions
    <3>1. i = Len(decisions) + 1 /\ 1..(i - 1) = DOMAIN decisions
      BY <1>3, <2>2 DEF LogGrows
    <3> QED
      BY <2>2, <3>1 DEF LogGrows, Granted
  <2> QED
    BY <2>1, <2>2
<1>6. HermesPlans'
  <2>1. \A r : PlannedBy(r, decisions) => PlannedBy(r, decisions')
    BY DEF PlannedBy, LogGrows
  <2> QED
    BY <2>1 DEF HermesInv, HermesPlans, PlansGrow
<1> QED
  BY <1>1, <1>4, <1>5, <1>6 DEF HermesInv

-----------------------------------------------------------------------------
LEMMA HermesStays ==
  ASSUME HermesInv
  PROVE  /\ decisions' = decisions => LogGrows
         /\ UNCHANGED <<releases, queuedEvidence>> => PlansGrow
BY DEF HermesInv, HermesRows, HermesPlans, LogGrows, PlansGrow, HermesQueued

LEMMA BusyCounted ==
  ASSUME HermesInv
  PROVE  /\ IsFiniteSet(Busy) /\ Cardinality(Busy) \in Nat
         /\ Cardinality(Deciders) \in Nat /\ Cardinality(Busy) <= Cardinality(Deciders)
<1>1. Busy \subseteq Deciders /\ IsFiniteSet(Deciders)
  BY HermesAssumption DEF Busy
<1> QED
  BY <1>1, FS_Subset, FS_CardinalityType

LEMMA LogAppended ==
  ASSUME HermesInv, NEW r \in Records, decisions' = Append(decisions, r),
         r.number <= Cardinality(Busy),
         r.outcome = "EXECUTING" => r.kind \notin {"unapproved", "prohibited"},
         r.outcome \in {"EXECUTED", "FAILED"} => Granted(WithOutcome(r, "EXECUTING"), decisions)
  PROVE  LogGrows
<1>1. decisions \in Seq(Records)
  BY DEF HermesInv, HermesRows
<1> HIDE DEF Records
<1>2. /\ decisions' \in Seq(Records) /\ DOMAIN decisions' = 1..(Len(decisions) + 1)
      /\ DOMAIN decisions = 1..Len(decisions) /\ Len(decisions) \in Nat
      /\ decisions'[Len(decisions) + 1] = r
      /\ \A i \in DOMAIN decisions : decisions'[i] = decisions[i]
  BY <1>1
<1>3. \A i \in DOMAIN decisions' : i \notin DOMAIN decisions =>
        i = Len(decisions) + 1 /\ decisions'[i] = r
  BY <1>2
<1> QED
  BY <1>2, <1>3 DEF LogGrows

\* The newest record of a number is one of the log.
LEMMA NewestLogged ==
  ASSUME HermesInv, NEW n, Completable(n)
  PROVE  Newest(n) \in Records /\ Granted(Newest(n), decisions) /\ Newest(n).number = n
<1> DEFINE mine == {i \in DOMAIN decisions : decisions[i].number = n}
<1>1. decisions \in Seq(Records)
  BY DEF HermesInv, HermesRows
<1>2. mine \subseteq 0..Len(decisions) /\ mine # {} /\ Len(decisions) \in Nat
  BY <1>1 DEF Completable
<1>3. \E i \in mine : \A k \in mine : k <= i
  <2> HIDE DEF mine
  <2> QED
    BY <1>2, Most
<1>4. (CHOOSE i \in mine : \A k \in mine : k <= i) \in mine
  <2> HIDE DEF mine
  <2> QED
    BY <1>3
<1>5. PICK i \in mine : Newest(n) = decisions[i]
  BY <1>4 DEF Newest
<1>6. Newest(n) \in Records /\ Newest(n).number = n
  BY <1>1, <1>5
<1> QED
  BY <1>5, <1>6 DEF Granted, Completable

LEMMA NextNumberCounted ==
  ASSUME HermesInv
  PROVE  NextNumber \in Nat /\ 1 <= NextNumber /\ NextNumber <= Cardinality(Busy) + 1
<1> DEFINE taken == {0} \cup {decisions[i].number : i \in DOMAIN decisions}
<1>1. \A i \in DOMAIN decisions : decisions[i].number \in Nat
  <2>1. \A i \in DOMAIN decisions : decisions[i] \in Records
    BY DEF HermesInv, HermesRows
  <2> QED
    BY <2>1 DEF Records, Numbers
<1>2. taken \subseteq 0..Cardinality(Busy) /\ taken # {}
  BY <1>1, BusyCounted DEF HermesInv, NumbersCounted
<1>3. \E n \in taken : \A m \in taken : m <= n
  <2> HIDE DEF taken
  <2> QED
    BY <1>2, BusyCounted, Most
<1>4. \E n \in taken : \A i \in DOMAIN decisions : decisions[i].number <= n
  BY <1>3
<1>5. NextNumber = 1 + (CHOOSE n \in taken : \A i \in DOMAIN decisions : decisions[i].number <= n)
  BY DEF NextNumber
<1> HIDE DEF taken
<1>6. PICK n \in taken : NextNumber = 1 + n
  BY <1>4, <1>5
<1> QED
  BY <1>2, <1>6, BusyCounted

-----------------------------------------------------------------------------
LEMMA NumberDecisionKeeps ==
  ASSUME HermesInv, NEW d \in Deciders, NumberDecision(d)
  PROVE  HermesInv'
<1>1. PICK k \in Kinds, e \in Episodes :
        decider' = [decider EXCEPT ![d] =
          [Waiting EXCEPT !.at = "numbered",
                          !.record = [number |-> NextNumber, kind |-> k, episode |-> e]]]
  BY DEF NumberDecision
<1> DEFINE asked == [number |-> NextNumber, kind |-> k, episode |-> e]
           row == [at |-> "numbered", record |-> asked, verdict |-> "none"]
<1>2. decider' = [decider EXCEPT ![d] = row] /\ decider[d].at = "idle"
      /\ UNCHANGED <<decisions, queuedEvidence, executor, completer, releases>>
  BY <1>1 DEF NumberDecision, Waiting
<1>3. decider \in [Deciders -> DeciderRows]
  BY DEF HermesInv, HermesRows
<1>4. Busy' = Busy \cup {d} /\ d \notin Busy
  BY <1>2, <1>3 DEF Busy
<1>5. IsFiniteSet(Busy') /\ Cardinality(Busy') = Cardinality(Busy) + 1
  BY <1>4, BusyCounted, FS_AddElement
<1>6. Cardinality(Busy') \in Nat /\ Cardinality(Busy') <= Cardinality(Deciders)
  <2>1. Busy' \subseteq Deciders
    BY DEF Busy
  <2> QED
    BY <2>1, HermesAssumption, FS_Subset, <1>5, BusyCounted
<1>7. asked \in Requested /\ asked.number <= Cardinality(Busy')
  <2>1. NextNumber \in Numbers /\ NextNumber <= Cardinality(Busy')
    BY <1>5, <1>6, NextNumberCounted, BusyCounted DEF Numbers
  <2> QED
    BY <2>1 DEF Requested
<1> HIDE DEF asked
<1>8. row \in DeciderRows /\ row.at = "numbered" /\ row.record = asked
  BY <1>7 DEF DeciderRows
<1> HIDE DEF row
<1>9. decider' \in [Deciders -> DeciderRows]
  BY <1>2, <1>3, <1>8
<1>10. \A c \in Deciders : decider'[c].at = "numbered" =>
         decider'[c].record \in Requested /\ decider'[c].record.number <= Cardinality(Busy')
  <2> SUFFICES ASSUME NEW c \in Deciders, decider'[c].at = "numbered"
               PROVE  decider'[c].record \in Requested
                      /\ decider'[c].record.number <= Cardinality(Busy')
    OBVIOUS
  <2>1. CASE c = d
    BY <2>1, <1>2, <1>3, <1>7, <1>8
  <2>2. CASE c # d
    <3>1. decider'[c] = decider[c]
      BY <2>2, <1>2, <1>3
    <3>2. decider[c].record \in Requested /\ decider[c].record.number <= Cardinality(Busy)
      BY <3>1 DEF HermesInv, NumbersCounted
    <3>3. decider[c].record.number \in Nat
      BY <3>2 DEF Requested, Numbers
    <3> QED
      BY <3>1, <3>2, <3>3, <1>5, BusyCounted
  <2> QED
    BY <2>1, <2>2
<1>11. LogGrows /\ PlansGrow
  BY <1>2, HermesStays
<1>12. /\ executor' \in [Executors -> ExecutorRows] /\ completer' \in [Completers -> CompleterRows]
       /\ \A x \in Executors : ExecutorSound(executor'[x], decisions', releases')
       /\ \A c \in Completers : CompleterSound(completer'[c], decisions')
  BY <1>2, <1>11, RowsStaySound DEF HermesInv, HermesRows
<1> QED
  BY <1>5, <1>6, <1>9, <1>10, <1>11, <1>12, BusyCounted, HermesGrows

\* A step that numbers nothing: the deciders that are busy stay the same.
LEMMA LoggedKeeps ==
  ASSUME HermesInv, LogGrows, PlansGrow, decider' \in [Deciders -> DeciderRows],
         \A d \in Deciders : decider'[d] = decider[d]
                             \/ (decider'[d].at = "done" /\ decider[d].at # "idle"),
         executor' \in [Executors -> ExecutorRows], completer' \in [Completers -> CompleterRows],
         \A x \in Executors : executor'[x] = executor[x]
                              \/ ExecutorSound(executor'[x], decisions', releases'),
         \A c \in Completers : completer'[c] = completer[c]
                               \/ CompleterSound(completer'[c], decisions')
  PROVE  HermesInv'
<1>1. Busy' = Busy
  BY DEF Busy
<1>2. \A d \in Deciders : decider'[d].at = "numbered" =>
        decider'[d].record \in Requested /\ decider'[d].record.number <= Cardinality(Busy')
  BY <1>1 DEF HermesInv, NumbersCounted
<1>3. /\ \A x \in Executors : ExecutorSound(executor'[x], decisions', releases')
      /\ \A c \in Completers : CompleterSound(completer'[c], decisions')
  BY RowsStaySound
<1>4. Cardinality(Busy') \in Nat /\ Cardinality(Busy) \in Nat /\ Cardinality(Busy) <= Cardinality(Busy')
  BY <1>1, BusyCounted
<1> QED
  BY <1>2, <1>3, <1>4, HermesGrows

LEMMA AppendDecisionKeeps ==
  ASSUME HermesInv, NEW d \in Deciders, AppendDecision(d)
  PROVE  HermesInv'
<1> DEFINE r == decider[d].record
           new == WithOutcome(r, DecidedOutcome(r.kind))
           row == [decider[d] EXCEPT !.at = "done"]
<1>1. /\ decisions' = Append(decisions, new) /\ decider[d].at = "numbered"
      /\ decider' = [decider EXCEPT ![d] = row]
      /\ UNCHANGED <<queuedEvidence, executor, completer, releases>>
  BY DEF AppendDecision
<1>2. /\ decider \in [Deciders -> DeciderRows] /\ decider[d] \in DeciderRows
      /\ executor \in [Executors -> ExecutorRows] /\ completer \in [Completers -> CompleterRows]
  BY DEF HermesInv, HermesRows
<1>3. r \in Requested /\ r.number <= Cardinality(Busy)
  BY <1>1 DEF HermesInv, NumbersCounted
<1>4. /\ new \in Records /\ new.number = r.number /\ new.outcome \notin {"EXECUTED", "FAILED"}
      /\ new.outcome = "EXECUTING" => new.kind \notin {"unapproved", "prohibited"}
  <2>1. CASE r.kind = "prohibited"
    BY <1>3, <2>1 DEF WithOutcome, DecidedOutcome, Requested, Records, Outcomes
  <2>2. CASE r.kind = "unapproved"
    BY <1>3, <2>2 DEF WithOutcome, DecidedOutcome, Requested, Records, Outcomes
  <2>3. CASE r.kind \notin {"prohibited", "unapproved"}
    BY <1>3, <2>3 DEF WithOutcome, DecidedOutcome, Requested, Records, Outcomes
  <2> QED
    BY <2>1, <2>2, <2>3
<1>5. row \in DeciderRows /\ row.at = "done"
  BY <1>2 DEF DeciderRows
<1> HIDE DEF new, row
<1>6. LogGrows
  BY <1>1, <1>3, <1>4, LogAppended
<1>7. decider' \in [Deciders -> DeciderRows]
      /\ \A c \in Deciders : decider'[c] = decider[c]
                             \/ (decider'[c].at = "done" /\ decider[c].at # "idle")
  BY <1>1, <1>2, <1>5
<1>8. PlansGrow
  BY <1>1, HermesStays
<1> QED
  BY <1>1, <1>2, <1>6, <1>7, <1>8, LoggedKeeps

\* Going on with a granted record, a request may append its outcome.
LEMMA OutcomeLogged ==
  ASSUME HermesInv, NEW r, Granted(r, decisions), NEW o \in {"EXECUTED", "FAILED"},
         decisions' = Append(decisions, WithOutcome(r, o))
  PROVE  LogGrows
<1>1. r \in Records /\ r.number <= Cardinality(Busy) /\ r.outcome = "EXECUTING"
  BY DEF HermesInv, HermesRows, NumbersCounted, Granted
<1> DEFINE new == WithOutcome(r, o)
<1>2. new \in Records /\ new.number = r.number /\ new.outcome = o
  BY <1>1 DEF WithOutcome, Records, Outcomes
<1>3. WithOutcome(new, "EXECUTING") = r
  BY <1>1 DEF WithOutcome, Records
<1> HIDE DEF new
<1> QED
  BY <1>1, <1>2, <1>3, LogAppended DEF new

LEMMA CompleterKeeps ==
  ASSUME HermesInv, NEW c \in Completers,
         BeginComplete(c) \/ VerifyReceipt(c) \/ AppendCompletion(c)
  PROVE  HermesInv'
<1>1. UNCHANGED <<queuedEvidence, decider, executor, releases>>
  BY DEF BeginComplete, VerifyReceipt, AppendCompletion
<1>2. /\ completer \in [Completers -> CompleterRows] /\ completer[c] \in CompleterRows
      /\ decider \in [Deciders -> DeciderRows] /\ executor \in [Executors -> ExecutorRows]
      /\ CompleterSound(completer[c], decisions)
  BY DEF HermesInv, HermesRows
<1>3. SUFFICES /\ LogGrows
               /\ \E row \in CompleterRows :
                    /\ completer' = [completer EXCEPT ![c] = row]
                    /\ CompleterSound(row, decisions)
  <2>1. PICK row \in CompleterRows :
          completer' = [completer EXCEPT ![c] = row] /\ CompleterSound(row, decisions)
    BY <1>3
  <2>2. CompleterSound(row, decisions')
    BY <1>3, <2>1, GrantedStays DEF CompleterSound
  <2>3. completer' \in [Completers -> CompleterRows]
        /\ \A k \in Completers : completer'[k] = completer[k] \/ CompleterSound(completer'[k], decisions')
    BY <1>2, <2>1, <2>2
  <2> QED
    BY <1>1, <1>2, <1>3, <2>3, HermesStays, LoggedKeeps
<1>4. CASE BeginComplete(c)
  <2>1. PICK n \in Numbers, v \in {"claimed", "failed"} :
          /\ Completable(n)
          /\ completer' = [completer EXCEPT ![c] = [at |-> "read", record |-> Newest(n), verdict |-> v]]
    BY <1>4 DEF BeginComplete
  <2> DEFINE row == [at |-> "read", record |-> Newest(n), verdict |-> v]
  <2>2. row \in CompleterRows
    BY <2>1, NewestLogged DEF CompleterRows
  <2>3. CompleterSound(row, decisions)
    BY <2>1, NewestLogged DEF CompleterSound
  <2> QED
    BY <1>4, <2>1, <2>2, <2>3, HermesStays DEF BeginComplete
<1>5. CASE VerifyReceipt(c)
  <2>1. PICK v \in {"verified", "failed"} : completer' = [completer EXCEPT ![c].verdict = v]
    BY <1>5 DEF VerifyReceipt
  <2> DEFINE row == [completer[c] EXCEPT !.verdict = v]
  <2>2. row \in CompleterRows /\ row.at = completer[c].at /\ row.record = completer[c].record
    BY <1>2 DEF CompleterRows
  <2>3. CompleterSound(row, decisions) /\ completer' = [completer EXCEPT ![c] = row]
    BY <1>2, <2>1, <2>2 DEF CompleterSound
  <2> QED
    BY <1>5, <2>2, <2>3, HermesStays DEF VerifyReceipt
<1>6. CASE AppendCompletion(c)
  <2> DEFINE o == IF completer[c].verdict = "verified" THEN "EXECUTED" ELSE "FAILED"
             row == [completer[c] EXCEPT !.at = "done"]
  <2>1. /\ decisions' = Append(decisions, WithOutcome(completer[c].record, o))
        /\ completer' = [completer EXCEPT ![c] = row] /\ completer[c].at = "read"
    BY <1>6 DEF AppendCompletion
  <2>2. LogGrows
    BY <1>2, <2>1, OutcomeLogged DEF CompleterSound
  <2>3. row \in CompleterRows /\ row.at = "done"
    BY <1>2 DEF CompleterRows
  <2> QED
    BY <2>1, <2>2, <2>3 DEF CompleterSound
<1> QED
  BY <1>4, <1>5, <1>6

\* What an executor's step comes down to: its own row, the log and the plans.
LEMMA ExecutorMoves ==
  ASSUME HermesInv, LogGrows, PlansGrow, UNCHANGED <<decider, completer>>,
         NEW x \in Executors, NEW row \in ExecutorRows,
         executor' = [executor EXCEPT ![x] = row], ExecutorSound(row, decisions', releases')
  PROVE  HermesInv'
<1>1. /\ decider \in [Deciders -> DeciderRows] /\ executor \in [Executors -> ExecutorRows]
      /\ completer \in [Completers -> CompleterRows]
  BY DEF HermesInv, HermesRows
<1>2. executor' \in [Executors -> ExecutorRows]
      /\ \A y \in Executors : executor'[y] = executor[y]
                              \/ ExecutorSound(executor'[y], decisions', releases')
  BY <1>1
<1> QED
  BY <1>1, <1>2, LoggedKeeps

LEMMA ExecutorTurns ==
  ASSUME HermesInv, NEW x \in Executors,
         NEW p \in {"failing", "queued", "done", "recording"}, MoveExecutor(x, p)
  PROVE  \E row \in ExecutorRows :
           /\ executor' = [executor EXCEPT ![x] = row] /\ row.at = p
           /\ row.record = executor[x].record
<1> DEFINE row == [executor[x] EXCEPT !.at = p]
<1>1. executor[x] \in ExecutorRows
  BY DEF HermesInv, HermesRows
<1>2. row \in ExecutorRows /\ row.at = p /\ row.record = executor[x].record
  BY <1>1 DEF ExecutorRows
<1>3. executor' = [executor EXCEPT ![x] = row]
  BY DEF MoveExecutor
<1> HIDE DEF row
<1> QED
  BY <1>2, <1>3

LEMMA QueueProductionKeeps ==
  ASSUME HermesInv, NEW x \in Executors, QueueProduction(x)
  PROVE  HermesInv'
<1> DEFINE r == executor[x].record
           new == [episode |-> r.episode, origin |-> <<"hermes", r.number, 0>>]
<1>1. /\ UNCHANGED <<decisions, queuedEvidence, decider, completer>>
      /\ executor[x].at = "read" /\ r.kind = "start"
      /\ \/ MoveExecutor(x, "queued") /\ releases' = releases \cup {new}
         \/ MoveExecutor(x, "failing") /\ releases' \in {releases, releases \cup {new}}
  BY DEF QueueProduction, Queueable, CreateReleaseWithJob, InsertRelease
<1>2. Granted(r, decisions)
  BY <1>1 DEF HermesInv, ExecutorSound
<1>3. LogGrows
  BY <1>1, HermesStays
<1>4. PlannedBy(new, decisions) /\ new.origin = <<"hermes", r.number, 0>>
  BY <1>1, <1>2 DEF PlannedBy, Granted
<1> HIDE DEF new
<1>5. PlansGrow
  BY <1>1, <1>4 DEF PlansGrow, HermesInv, HermesRows, HermesPlans, HermesQueued
<1>6. CASE MoveExecutor(x, "queued") /\ releases' = releases \cup {new}
  <2>1. PICK row \in ExecutorRows :
          executor' = [executor EXCEPT ![x] = row] /\ row.at = "queued" /\ row.record = r
    BY <1>6, ExecutorTurns
  <2>2. HermesQueued(r.number, releases')
    BY <1>4, <1>6 DEF HermesQueued
  <2>3. ExecutorSound(row, decisions', releases')
    BY <1>1, <1>2, <2>1, <2>2 DEF ExecutorSound
  <2> QED
    BY <1>1, <1>3, <1>5, <2>1, <2>3, ExecutorMoves
<1>7. CASE MoveExecutor(x, "failing")
  <2>1. PICK row \in ExecutorRows :
          executor' = [executor EXCEPT ![x] = row] /\ row.at = "failing" /\ row.record = r
    BY <1>7, ExecutorTurns
  <2>2. ExecutorSound(row, decisions', releases')
    BY <1>1, <1>2, <2>1 DEF ExecutorSound
  <2> QED
    BY <1>1, <1>3, <1>5, <2>1, <2>2, ExecutorMoves
<1> QED
  BY <1>1, <1>6, <1>7

LEMMA ExecutorKeeps ==
  ASSUME HermesInv, NEW x \in Executors,
         \/ BeginExecute(x) \/ RefuseExecution(x) \/ RecordQueued(x)
         \/ ReadForFailure(x) \/ RecordFailure(x)
         \/ executor[x].at \notin {"idle", "done"} /\ MoveExecutor(x, "done")
            /\ UNCHANGED <<decisions, queuedEvidence, decider, completer, releases>>
  PROVE  HermesInv'
<1>1. UNCHANGED <<decider, completer, releases>>
  BY DEF BeginExecute, RefuseExecution, RecordQueued, ReadForFailure, RecordFailure
<1>2. /\ executor \in [Executors -> ExecutorRows] /\ executor[x] \in ExecutorRows
      /\ ExecutorSound(executor[x], decisions, releases)
      /\ queuedEvidence \subseteq Numbers /\ \A n \in queuedEvidence : HermesQueued(n, releases)
  BY DEF HermesInv, HermesRows, HermesPlans
<1>3. CASE BeginExecute(x)
  <2>1. PICK n \in Numbers :
          /\ Completable(n)
          /\ executor' = [executor EXCEPT ![x] =
               [at |-> "read", record |-> Newest(n), verdict |-> "none"]]
    BY <1>3 DEF BeginExecute
  <2> DEFINE row == [at |-> "read", record |-> Newest(n), verdict |-> "none"]
  <2>2. executor' = [executor EXCEPT ![x] = row]
    BY <2>1
  <2>3. row \in ExecutorRows /\ row.at = "read" /\ row.record = Newest(n)
    BY <2>1, NewestLogged DEF ExecutorRows
  <2> HIDE DEF row
  <2>4. ExecutorSound(row, decisions, releases)
    BY <2>1, <2>3, NewestLogged DEF ExecutorSound
  <2> QED
    BY <1>1, <1>3, <2>2, <2>3, <2>4, HermesStays, ExecutorMoves DEF BeginExecute
<1>4. CASE RefuseExecution(x)
  <2>1. PICK row \in ExecutorRows :
          /\ executor' = [executor EXCEPT ![x] = row] /\ row.at = "failing"
          /\ row.record = executor[x].record
    BY <1>4, ExecutorTurns DEF RefuseExecution
  <2>2. ExecutorSound(row, decisions, releases)
    BY <1>2, <1>4, <2>1 DEF ExecutorSound, RefuseExecution
  <2> QED
    BY <1>1, <1>4, <2>1, <2>2, HermesStays, ExecutorMoves DEF RefuseExecution
<1>5. CASE RecordQueued(x)
  <2> DEFINE n == executor[x].record.number
  <2>1. HermesQueued(n, releases) /\ n \in Numbers
    <3>1. executor[x].at = "queued"
      BY <1>5 DEF RecordQueued
    <3>2. Granted(executor[x].record, decisions) /\ HermesQueued(n, releases)
      BY <1>2, <3>1 DEF ExecutorSound
    <3>3. executor[x].record \in Records
      BY <3>2 DEF Granted, HermesInv, HermesRows
    <3> QED
      BY <3>2, <3>3 DEF Records
  <2>2. PlansGrow
    BY <1>1, <1>2, <1>5, <2>1 DEF RecordQueued, PlansGrow
  <2>3. PICK row \in ExecutorRows : executor' = [executor EXCEPT ![x] = row] /\ row.at = "done"
    BY <1>5, ExecutorTurns DEF RecordQueued
  <2> QED
    BY <1>1, <1>5, <2>2, <2>3, HermesStays, ExecutorMoves DEF RecordQueued, ExecutorSound
<1>6. CASE ReadForFailure(x)
  <2> DEFINE n == executor[x].record.number
             row == [[executor[x] EXCEPT !.at = "recording"] EXCEPT !.record = Newest(n)]
  <2>1. Completable(n) /\ executor' = [executor EXCEPT ![x] = row]
    BY <1>2, <1>6 DEF ReadForFailure, ExecutorRows
  <2>2. row \in ExecutorRows /\ row.at = "recording" /\ row.record = Newest(n)
    BY <1>2, <2>1, NewestLogged DEF ExecutorRows
  <2> HIDE DEF row
  <2>3. ExecutorSound(row, decisions, releases)
    BY <2>1, <2>2, NewestLogged DEF ExecutorSound
  <2>4. UNCHANGED <<decisions, queuedEvidence>>
    BY <1>6 DEF ReadForFailure
  <2>5. LogGrows /\ PlansGrow
    BY <1>1, <2>4, HermesStays
  <2> QED
    BY <1>1, <2>1, <2>2, <2>3, <2>4, <2>5, ExecutorMoves
<1>7. CASE RecordFailure(x)
  <2>1. LogGrows
    BY <1>2, <1>7, OutcomeLogged DEF RecordFailure, ExecutorSound
  <2>2. PICK row \in ExecutorRows : executor' = [executor EXCEPT ![x] = row] /\ row.at = "done"
    BY <1>7, ExecutorTurns DEF RecordFailure
  <2> QED
    BY <1>1, <1>7, <2>1, <2>2, HermesStays, ExecutorMoves DEF RecordFailure, ExecutorSound
<1>8. CASE executor[x].at \notin {"idle", "done"} /\ MoveExecutor(x, "done")
            /\ UNCHANGED <<decisions, queuedEvidence, decider, completer, releases>>
  <2>1. PICK row \in ExecutorRows : executor' = [executor EXCEPT ![x] = row] /\ row.at = "done"
    BY <1>8, ExecutorTurns
  <2> QED
    BY <1>8, <2>1, HermesStays, ExecutorMoves DEF ExecutorSound
<1> QED
  BY <1>3, <1>4, <1>5, <1>6, <1>7, <1>8

LEMMA DeciderDies ==
  ASSUME HermesInv, NEW d \in Deciders, decider[d].at = "numbered",
         decider' = [decider EXCEPT ![d].at = "done"],
         UNCHANGED <<decisions, queuedEvidence, executor, completer, releases>>
  PROVE  HermesInv'
<1> DEFINE row == [decider[d] EXCEPT !.at = "done"]
<1>1. /\ decider \in [Deciders -> DeciderRows] /\ decider[d] \in DeciderRows
      /\ executor \in [Executors -> ExecutorRows] /\ completer \in [Completers -> CompleterRows]
  BY DEF HermesInv, HermesRows
<1>2. row \in DeciderRows /\ row.at = "done"
  BY <1>1 DEF DeciderRows
<1>3. decider' = [decider EXCEPT ![d] = row]
  OBVIOUS
<1> HIDE DEF row
<1>4. decider' \in [Deciders -> DeciderRows]
      /\ \A c \in Deciders : decider'[c] = decider[c]
                             \/ (decider'[c].at = "done" /\ decider[c].at # "idle")
  BY <1>1, <1>2, <1>3
<1> QED
  BY <1>1, <1>4, HermesStays, LoggedKeeps

-----------------------------------------------------------------------------
LEMMA InitHermesInv == HermesInit /\ releases = {} => HermesInv
<1> SUFFICES ASSUME HermesInit, releases = {} PROVE HermesInv
  OBVIOUS
<1>1. decisions = <<>> /\ queuedEvidence = {}
  BY DEF HermesInit
<1>2. Waiting \in DeciderRows /\ Waiting \in ExecutorRows /\ Waiting \in CompleterRows
      /\ Waiting.at = "idle"
  BY DEF Waiting, DeciderRows, ExecutorRows, CompleterRows
<1> HIDE DEF DeciderRows, ExecutorRows, CompleterRows
<1>3. HermesRows
  BY <1>1, <1>2 DEF HermesInit, HermesRows
<1>4. /\ \A d \in Deciders : decider[d].at = "idle"
      /\ \A x \in Executors : executor[x].at = "idle"
      /\ \A c \in Completers : completer[c].at = "idle"
  BY <1>2 DEF HermesInit
<1> QED
  BY <1>1, <1>3, <1>4
  DEF HermesInv, NumbersCounted, LogSound, HermesPlans, ExecutorSound, CompleterSound

LEMMA HermesStep == HermesInv /\ [HermesNext]_<<hermesVars, releases>> => HermesInv'
<1> SUFFICES ASSUME HermesInv, [HermesNext]_<<hermesVars, releases>> PROVE HermesInv'
  OBVIOUS
<1>1. CASE UNCHANGED <<hermesVars, releases>>
  <2>1. UNCHANGED <<decisions, queuedEvidence, decider, executor, completer, releases>>
    BY <1>1 DEF hermesVars
  <2> QED
    BY <2>1, HermesStays, LoggedKeeps DEF HermesInv, HermesRows
<1>2. CASE HermesNext
  <2>1. CASE \E d \in Deciders : NumberDecision(d) \/ AppendDecision(d)
    BY <2>1, NumberDecisionKeeps, AppendDecisionKeeps
  <2>2. CASE \E c \in Completers : BeginComplete(c) \/ VerifyReceipt(c) \/ AppendCompletion(c)
    BY <2>2, CompleterKeeps
  <2>3. CASE \E x \in Executors : \/ BeginExecute(x) \/ RefuseExecution(x) \/ QueueProduction(x)
                          \/ RecordQueued(x) \/ ReadForFailure(x) \/ RecordFailure(x)
    BY <2>3, ExecutorKeeps, QueueProductionKeeps
  <2>4. CASE RequestDies
    BY <2>4, ExecutorKeeps, DeciderDies DEF RequestDies
  <2> QED
    BY <1>2, <2>1, <2>2, <2>3, <2>4 DEF HermesNext
<1> QED
  BY <1>1, <1>2

\* The rows of Hermes are typed.
LEMMA HermesTyped == HermesInv => HermesTypeOK
  BY DEF HermesInv, HermesRows, HermesTypeOK, DeciderRows, ExecutorRows, CompleterRows

\* Every variable of the Hermes model keeps its type.
THEOREM HermesTypes == HermesSpec => []HermesTypeOK
  BY HermesTyped, InitHermesInv, HermesStep, PTL DEF HermesSpec

\* A decision is completed only out of EXECUTING and for an action that was Hermes's to do,
\* its episodes go back to a production.start decision, and production_queued is reported
\* only of a planned episode; for any requests, which share numbers as they may.
THEOREM HermesObeys == HermesSpec => []HermesKeepsToAuthority
<1>1. HermesInv => HermesKeepsToAuthority
  <2> SUFFICES ASSUME HermesInv PROVE HermesKeepsToAuthority
    OBVIOUS
  <2>1. ASSUME NEW i \in DOMAIN decisions, decisions[i].outcome \in {"EXECUTED", "FAILED"}
        PROVE  \E k \in 1..(i - 1) :
                 /\ decisions[k] = WithOutcome(decisions[i], "EXECUTING")
                 /\ decisions[k].kind \notin {"unapproved", "prohibited"}
    <3>1. PICK k \in 1..(i - 1) : decisions[k] = WithOutcome(decisions[i], "EXECUTING")
      BY <2>1 DEF HermesInv, LogSound
    <3>2. k \in DOMAIN decisions /\ decisions[k].outcome = "EXECUTING"
      BY <3>1 DEF HermesInv, HermesRows, WithOutcome
    <3> QED
      BY <3>1, <3>2 DEF HermesInv, LogSound
  <2> QED
    BY <2>1 DEF HermesInv, HermesPlans, HermesKeepsToAuthority, PlannedBy, HermesQueued
<1> QED
  BY <1>1, InitHermesInv, HermesStep, PTL DEF HermesSpec

-----------------------------------------------------------------------------
(* The production schedule.                                                *)

TickPlaces == {"idle", "facts", "slot", "taken", "claimed", "created", "refused"}
WorkItems == [slot : Slots, missed : BOOLEAN]
TickRows == [at : TickPlaces, work : Seq(WorkItems), next : 0..(MaxEpisode + 1),
             room : 0..MaxConcurrentJobs, channel : BOOLEAN]
SlotRows == [state : SlotStates, episode : 0..MaxEpisode]

\* The tick has the slot's claim and has not marked the slot yet.
WorksOn(row, s) == row.at \in {"claimed", "created", "refused"} /\ Head(row.work).slot = s

TickSound(row, planned) ==
  /\ row.at \in {"taken", "claimed", "created", "refused"} => row.work # <<>>
  /\ row.at = "created" =>
       /\ row.room # 0 /\ row.next \in Episodes
       /\ [episode |-> row.next, origin |-> Origin(Head(row.work).slot)] \in planned

SlotSound(s) ==
  /\ slotRows[s].state \in {"absent", "skipped"} =>
       s \notin delays /\ EpisodesOf(s) = {} /\ \A t \in Ticks : ~ WorksOn(tick[t], s)
  /\ slotRows[s].state = "delayed" => s \in delays
  /\ slotRows[s].state = "queued" => \E r \in EpisodesOf(s) : r.episode = slotRows[s].episode
  /\ s \notin delays =>
       /\ \A t, u \in Ticks : WorksOn(tick[t], s) /\ WorksOn(tick[u], s) => t = u
       /\ \A t \in Ticks : WorksOn(tick[t], s) /\ tick[t].at = "claimed" => EpisodesOf(s) = {}
       /\ \A r, q \in EpisodesOf(s) : r = q
  /\ s \in delays => \A t \in Ticks : WorksOn(tick[t], s) => ~ Missed(t)

SchedulingRows ==
  /\ minute \in 0..LastMinute /\ schedule \in Schedules /\ hasChannel \in BOOLEAN
  /\ slotRows \in [Slots -> SlotRows] /\ delays \subseteq Slots
  /\ tick \in [Ticks -> TickRows]
  /\ \A r \in releases : r.episode \in Episodes

SchedulingInv ==
  /\ SchedulingRows
  /\ \A t \in Ticks : TickSound(tick[t], releases)
  /\ \A s \in Slots : SlotSound(s)

-----------------------------------------------------------------------------
\* Division by a fixed number is monotone: a later minute is of no earlier day.
LEMMA DivideMonotone ==
  ASSUME NEW a \in Nat, NEW b \in Nat, NEW d \in Nat \ {0}, a <= b
  PROVE  a \div d \in Nat /\ a \div d <= b \div d
<1>1. /\ a \div d \in Nat /\ b \div d \in Nat
      /\ d * (a \div d) <= a /\ b < d * (b \div d + 1)
  OBVIOUS
<1>2. ASSUME NEW p \in Nat, NEW q \in Nat, d * p <= a, b < d * (q + 1), ~ (p <= q) PROVE FALSE
  <2>1. PICK k \in Nat : p = q + 1 + k
    <3>1. p - (q + 1) \in Nat /\ p = q + 1 + (p - (q + 1))
      BY <1>2
    <3> QED
      BY <3>1
  <2>2. d * p = d * (q + 1) + d * k /\ d * k \in Nat
    BY <2>1
  <2>3. d * p \in Nat /\ d * (q + 1) \in Nat
    OBVIOUS
  <2> QED
    BY <1>2, <2>2, <2>3
<1> QED
  BY <1>1, <1>2

LEMMA SlotOfDay ==
  ASSUME NEW s \in Schedules, NEW k \in 1..s.perDay, NEW d \in Days
  PROVE  <<d, k - 1>> \in Slots
  BY SchedulingAssumption DEF Slots, SlotsPerDay

LEMMA CountedSequence ==
  ASSUME NEW S, NEW n \in Nat, NEW f \in [1..n -> S]
  PROVE  f \in Seq(S)
  OBVIOUS

LEMMA WorkTyped ==
  ASSUME NEW s \in Schedules, NEW n \in 0..s.perDay, NEW d \in Days
  PROVE  Work(d, n, TRUE) \in Seq(WorkItems) /\ Work(d, n, FALSE) \in Seq(WorkItems)
<1>1. n \in Nat /\ \A k \in 1..n : k \in 1..s.perDay
  BY SchedulingAssumption
<1>2. \A k \in 1..n : /\ [slot |-> <<d, k - 1>>, missed |-> TRUE] \in WorkItems
                      /\ [slot |-> <<d, k - 1>>, missed |-> FALSE] \in WorkItems
  BY <1>1, SlotOfDay DEF WorkItems
<1> HIDE DEF WorkItems
<1>3. /\ Work(d, n, TRUE) \in [1..n -> WorkItems]
      /\ Work(d, n, FALSE) \in [1..n -> WorkItems]
  BY <1>2, Zenon DEF Work
<1> QED
  BY <1>1, <1>3, CountedSequence

LEMMA NoWork == <<>> \in Seq(WorkItems)
  OBVIOUS

LEMMA WindowTyped ==
  ASSUME NEW s \in Schedules, NEW now \in 0..LastMinute
  PROVE  WindowOf(s, now) \in Seq(WorkItems)
<1> DEFINE today == now \div DayMinutes
           started == {i \in 0..(s.perDay - 1) : SlotStart(s, today, i) <= now}
           due == Cardinality(started)
<1>1. today \in Nat /\ today \in Days
  BY SchedulingAssumption, DivideMonotone DEF Days
<1>2. due \in 0..s.perDay
  <2>1. s.perDay \in Nat /\ 0 \in Int /\ s.perDay - 1 \in Int
    BY SchedulingAssumption
  <2>2. IsFiniteSet(0..(s.perDay - 1)) /\ Cardinality(0..(s.perDay - 1)) = s.perDay
    <3> DEFINE top == s.perDay - 1
    <3>1. /\ IsFiniteSet(0..top)
          /\ Cardinality(0..top) = IF 0 > top THEN 0 ELSE top - 0 + 1
      <4> HIDE DEF top
      <4> QED
        BY <2>1, FS_Interval DEF top
    <3> QED
      BY <2>1, <3>1, SchedulingAssumption
  <2>3. started \subseteq 0..(s.perDay - 1)
    OBVIOUS
  <2> HIDE DEF started
  <2>4. IsFiniteSet(started) /\ Cardinality(started) <= s.perDay
    BY <2>2, <2>3, FS_Subset
  <2> QED
    BY <2>1, <2>4, FS_CardinalityType
<1>3. today - 1 \in s.days => today - 1 \in Days
  BY <1>1, SchedulingAssumption DEF Days
<1>4. s.perDay \in 0..s.perDay
  BY SchedulingAssumption
<1> DEFINE before == IF today - 1 \in s.days THEN Work(today - 1, s.perDay, TRUE) ELSE <<>>
           after == IF today \in s.days THEN Work(today, due, FALSE) ELSE <<>>
<1>5. WindowOf(s, now) = before \o after
  BY DEF WindowOf
<1> HIDE DEF today, due
<1>6. before \in Seq(WorkItems)
  <2>1. \A d \in Days : Work(d, s.perDay, TRUE) \in Seq(WorkItems)
    BY <1>4, WorkTyped
  <2> QED
    BY <1>3, <2>1, NoWork
<1>7. after \in Seq(WorkItems)
  <2>1. Work(today, due, FALSE) \in Seq(WorkItems)
    BY <1>1, <1>2, WorkTyped
  <2> QED
    BY <2>1, NoWork
<1> HIDE DEF before, after
<1> QED
  BY <1>5, <1>6, <1>7

\* The next episode is one more than the highest planned, which there is.
LEMMA NextEpisodeTyped ==
  ASSUME SchedulingRows
  PROVE  NextEpisode \in 1..(MaxEpisode + 1)
<1> DEFINE T == {r.episode : r \in releases}
<1>1. T \subseteq 0..MaxEpisode /\ MaxEpisode \in Nat /\ T \subseteq 1..MaxEpisode
  BY EpisodesAssumption DEF SchedulingRows, Episodes
<1>2. \E n \in 1..(MaxEpisode + 1) :
        (\A r \in releases : r.episode < n) /\ (n = 1 \/ Planned(n - 1))
  <2>1. CASE T = {}
    <3>1. \A r \in releases : r.episode < 1
      BY <2>1
    <3> QED
      BY <1>1, <3>1
  <2>2. CASE T # {}
    <3>1. PICK m \in T : \A n \in T : n <= m
      <4> HIDE DEF T
      <4> QED
        BY <1>1, <2>2, Most
    <3>2. PICK q \in releases : q.episode = m
      BY <3>1
    <3>3. m \in 1..MaxEpisode /\ m + 1 \in 1..(MaxEpisode + 1) /\ (m + 1) - 1 = m
      <4>1. m \in 1..MaxEpisode
        <5> HIDE DEF T
        <5> QED
          BY <1>1, <3>1
      <4> QED
        BY <1>1, <4>1
    <3>4. ASSUME NEW r \in releases PROVE r.episode < m + 1
      <4>1. r.episode \in T /\ r.episode <= m
        BY <3>1
      <4>2. r.episode \in Nat /\ m \in Nat
        BY <1>1, <3>3, <4>1
      <4> HIDE DEF T
      <4> QED
        BY <4>1, <4>2
    <3> QED
      BY <3>2, <3>3, <3>4 DEF Planned
  <2> QED
    BY <2>1, <2>2
<1> QED
  BY <1>2 DEF NextEpisode
-----------------------------------------------------------------------------
\* Where the turns of a tick lead.
LEMMA TickMoves ==
  ASSUME NEW t \in Ticks, tick \in [Ticks -> TickRows], NEW p \in TickPlaces, MoveTick(t, p)
  PROVE  \E row \in TickRows :
           /\ tick' = [tick EXCEPT ![t] = row]
           /\ row.at = p /\ row.work = tick[t].work
           /\ row.next = tick[t].next /\ row.room = tick[t].room
<1> DEFINE row == [tick[t] EXCEPT !.at = p]
<1>1. row \in TickRows /\ row.at = p /\ row.work = tick[t].work
      /\ row.next = tick[t].next /\ row.room = tick[t].room
  BY DEF TickRows
<1>2. tick' = [tick EXCEPT ![t] = row]
  BY DEF MoveTick
<1> HIDE DEF row
<1> QED
  BY <1>1, <1>2

LEMMA SlotDoneTyped ==
  ASSUME NEW t \in Ticks, tick \in [Ticks -> TickRows], tick[t].work # <<>>
  PROVE  SlotDone(t) \in TickRows /\ SlotDone(t).at = "slot"
         /\ SlotDone(t).next = tick[t].next /\ SlotDone(t).room = tick[t].room
<1>1. tick[t].work \in Seq(WorkItems) /\ Tail(tick[t].work) \in Seq(WorkItems)
  BY DEF TickRows
<1> HIDE DEF WorkItems
<1> QED
  BY <1>1 DEF SlotDone, TickRows, TickPlaces

LEMMA QueuedTyped ==
  ASSUME NEW row \in TickRows, row.next \in Episodes, row.room # 0
  PROVE  [row EXCEPT !.next = @ + 1, !.room = @ - 1] \in TickRows
         /\ [row EXCEPT !.next = @ + 1, !.room = @ - 1].at = row.at
<1>1. row.next + 1 \in 0..(MaxEpisode + 1) /\ row.room - 1 \in 0..MaxConcurrentJobs
  BY EpisodesAssumption, SchedulingAssumption DEF Episodes, TickRows
<1> HIDE DEF WorkItems
<1> QED
  BY <1>1 DEF TickRows

LEMMA FactsTyped ==
  ASSUME NEW row \in TickRows, NEW c \in BOOLEAN, NEW e \in 1..(MaxEpisode + 1),
         NEW n \in 0..MaxConcurrentJobs
  PROVE  [row EXCEPT !.at = "slot", !.channel = c, !.next = e, !.room = n] \in TickRows
         /\ [row EXCEPT !.at = "slot", !.channel = c, !.next = e, !.room = n].at = "slot"
<1>1. e \in 0..(MaxEpisode + 1)
  BY EpisodesAssumption
<1> HIDE DEF WorkItems
<1> QED
  BY <1>1 DEF TickRows, TickPlaces

LEMMA StartTyped ==
  ASSUME NEW w \in Seq(WorkItems)
  PROVE  [Resting EXCEPT !.at = "facts", !.work = w] \in TickRows
         /\ [Resting EXCEPT !.at = "facts", !.work = w].at = "facts"
<1>1. 0 \in 0..(MaxEpisode + 1) /\ 0 \in 0..MaxConcurrentJobs
  BY EpisodesAssumption, SchedulingAssumption
<1> HIDE DEF WorkItems
<1> QED
  BY <1>1 DEF TickRows, TickPlaces, Resting
-----------------------------------------------------------------------------
\* The slot a tick is at is one of the day's.
LEMMA SlotTyped ==
  ASSUME SchedulingRows, NEW t \in Ticks, tick[t].work # <<>>
  PROVE  Slot(t) \in Slots /\ Missed(t) \in BOOLEAN
<1>1. Head(tick[t].work) \in WorkItems
  <2>1. tick[t].work \in Seq(WorkItems)
    BY DEF SchedulingRows, TickRows
  <2> HIDE DEF WorkItems
  <2> QED
    BY <2>1
<1> QED
  BY <1>1 DEF WorkItems, Slot, Missed

\* A turn of tick t that does nothing about slot s.
LEMMA SlotKept ==
  ASSUME SchedulingInv, NEW t \in Ticks, NEW row, tick' = [tick EXCEPT ![t] = row],
         NEW s \in Slots, slotRows'[s] = slotRows[s], s \in delays' <=> s \in delays,
         \A r : r \in EpisodesOf(s)' <=> r \in EpisodesOf(s),
         WorksOn(row, s) =>
           /\ WorksOn(tick[t], s) /\ Head(row.work) = Head(tick[t].work)
           /\ row.at = "claimed" => tick[t].at = "claimed"
  PROVE  SlotSound(s)'
<1>1. SlotSound(s)
  BY DEF SchedulingInv
<1>2. /\ \A u \in Ticks : WorksOn(tick'[u], s) => WorksOn(tick[u], s)
      /\ \A u \in Ticks : WorksOn(tick'[u], s) => (Missed(u)' <=> Missed(u))
      /\ \A u \in Ticks : WorksOn(tick'[u], s) /\ tick'[u].at = "claimed" =>
            tick[u].at = "claimed"
  <2>1. tick \in [Ticks -> TickRows]
    BY DEF SchedulingInv, SchedulingRows
  <2>2. tick'[t] = row /\ \A u \in Ticks : u # t => tick'[u] = tick[u]
    BY <2>1
  <2> QED
    BY <2>2 DEF Missed
<1>3. EpisodesOf(s)' = EpisodesOf(s)
  OBVIOUS
<1>4. /\ slotRows[s].state \in {"absent", "skipped"} =>
            s \notin delays' /\ EpisodesOf(s) = {} /\ \A u \in Ticks : ~ WorksOn(tick'[u], s)
      /\ slotRows[s].state = "delayed" => s \in delays'
      /\ slotRows[s].state = "queued" => \E r \in EpisodesOf(s) : r.episode = slotRows[s].episode
  BY <1>1, <1>2 DEF SlotSound
<1>5. s \notin delays' =>
       /\ \A v, u \in Ticks : WorksOn(tick'[v], s) /\ WorksOn(tick'[u], s) => v = u
       /\ \A u \in Ticks : WorksOn(tick'[u], s) /\ tick'[u].at = "claimed" => EpisodesOf(s) = {}
       /\ \A r, q \in EpisodesOf(s) : r = q
  BY <1>1, <1>2 DEF SlotSound
<1>6. s \in delays' => \A u \in Ticks : WorksOn(tick'[u], s) => ~ Missed(u)'
  BY <1>1, <1>2 DEF SlotSound
<1> QED
  BY <1>3, <1>4, <1>5, <1>6 DEF SlotSound

\* What the other ticks know stands.
LEMMA TicksKept ==
  ASSUME SchedulingInv, NEW t \in Ticks, NEW row, tick' = [tick EXCEPT ![t] = row],
         releases \subseteq releases', TickSound(row, releases')
  PROVE  \A u \in Ticks : TickSound(tick'[u], releases')
<1>1. tick'[t] = row /\ \A u \in Ticks : u # t => tick'[u] = tick[u]
  BY DEF SchedulingInv, SchedulingRows
<1>2. \A u \in Ticks : TickSound(tick[u], releases) => TickSound(tick[u], releases')
  BY DEF TickSound
<1> QED
  BY <1>1, <1>2 DEF SchedulingInv

\* A tick that leaves the tables alone and takes nothing up.
LEMMA TickTurns ==
  ASSUME SchedulingInv, NEW t \in Ticks, NEW row \in TickRows, tick' = [tick EXCEPT ![t] = row],
         UNCHANGED <<minute, schedule, hasChannel, slotRows, delays, releases>>,
         row.at \in {"idle", "facts", "slot", "taken"},
         row.at = "taken" => row.work # <<>>
  PROVE  SchedulingInv'
<1>1. SchedulingRows'
  BY DEF SchedulingInv, SchedulingRows
<1>2. \A u \in Ticks : TickSound(tick'[u], releases')
  BY TicksKept DEF TickSound
<1>3. \A s \in Slots : SlotSound(s)'
  BY SlotKept DEF WorksOn, EpisodesOf
<1> QED
  BY <1>1, <1>2, <1>3 DEF SchedulingInv

\* The tick that has a slot's claim marks it.
LEMMA SlotMarked ==
  ASSUME SchedulingInv, NEW t \in Ticks, tick[t].at \in {"claimed", "created", "refused"},
         NEW row \in TickRows, tick' = [tick EXCEPT ![t] = row], row.at = "slot",
         NEW state \in {"queued", "delayed", "blocked", "skipped"}, NEW e \in 0..MaxEpisode,
         MarkSlot(Slot(t), state, e),
         UNCHANGED <<minute, schedule, hasChannel, releases>>,
         state = "skipped" => tick[t].at = "claimed" /\ Missed(t),
         state = "delayed" => ~ Missed(t),
         state = "queued" => \E r \in EpisodesOf(Slot(t)) : r.episode = e
  PROVE  SchedulingInv'
<1>0. PICK s \in Slots : s = Slot(t)
  <2>1. tick[t].work # <<>>
    BY DEF SchedulingInv, TickSound
  <2> QED
    BY <2>1, SlotTyped DEF SchedulingInv
<1>1. /\ WorksOn(tick[t], s) /\ SlotSound(s)
      /\ tick'[t] = row /\ \A u \in Ticks : u # t => tick'[u] = tick[u]
  BY <1>0 DEF SchedulingInv, SchedulingRows, WorksOn, Slot
<1>2. /\ slotRows' = [slotRows EXCEPT ![s] = [state |-> state, episode |-> e]]
      /\ delays' = IF state = "delayed" THEN delays \cup {s} ELSE delays
  BY <1>0 DEF MarkSlot
<1>3. [state |-> state, episode |-> e] \in SlotRows
  BY DEF SlotRows, SlotStates
<1>4. SchedulingRows'
  <2>1. slotRows' \in [Slots -> SlotRows] /\ delays' \subseteq Slots
    BY <1>1, <1>2, <1>3 DEF SchedulingInv, SchedulingRows
  <2>2. tick' \in [Ticks -> TickRows]
    BY DEF SchedulingInv, SchedulingRows
  <2> QED
    BY <2>1, <2>2 DEF SchedulingInv, SchedulingRows
<1>5. \A u \in Ticks : TickSound(tick'[u], releases')
  BY TicksKept DEF TickSound
<1>6. ASSUME NEW q \in Slots, q # s PROVE SlotSound(q)'
  <2>1. slotRows'[q] = slotRows[q] /\ (q \in delays' <=> q \in delays) /\ EpisodesOf(q)' = EpisodesOf(q)
    BY <1>1, <1>2, <1>6 DEF SchedulingInv, SchedulingRows, EpisodesOf
  <2> QED
    BY <2>1, SlotKept DEF WorksOn
<1>7. SlotSound(s)'
  <2>1. /\ slotRows'[s].state = state /\ slotRows'[s].episode = e
        /\ EpisodesOf(s)' = EpisodesOf(s)
        /\ s \in delays' <=> (state = "delayed" \/ s \in delays)
    BY <1>1, <1>2 DEF SchedulingInv, SchedulingRows, EpisodesOf
  <2>2. ~ WorksOn(tick'[t], s)
    BY <1>1 DEF WorksOn
  <2>3. /\ \A u \in Ticks : WorksOn(tick'[u], s) => u # t /\ WorksOn(tick[u], s)
        /\ \A u \in Ticks : WorksOn(tick'[u], s) => (Missed(u)' <=> Missed(u)) /\ tick'[u] = tick[u]
    BY <1>1, <2>2 DEF Missed
  <2>4. s \notin delays => \A u \in Ticks : ~ WorksOn(tick'[u], s)
    BY <1>1, <2>3 DEF SlotSound
  <2>5. state = "skipped" => s \notin delays /\ EpisodesOf(s) = {}
    BY <1>1 DEF SlotSound
  <2>6. state = "queued" => \E r \in EpisodesOf(s) : r.episode = e
    BY <1>0
  <2>7. s \notin delays' => \A r, q \in EpisodesOf(s) : r = q
    BY <1>1, <2>1 DEF SlotSound
  <2>8. s \in delays' => \A u \in Ticks : WorksOn(tick'[u], s) => ~ Missed(u)'
    BY <1>1, <2>1, <2>3, <2>4 DEF SlotSound
  <2>9. s \in delays' => state # "skipped"
    BY <2>1, <2>5
  <2> QED
    BY <2>1, <2>3, <2>4, <2>5, <2>6, <2>7, <2>8, <2>9 DEF SlotSound
<1> QED
  BY <1>4, <1>5, <1>6, <1>7 DEF SchedulingInv
LEMMA RestingTyped == Resting \in TickRows /\ Resting.at = "idle"
<1>1. 0 \in 0..(MaxEpisode + 1) /\ 0 \in 0..MaxConcurrentJobs /\ <<>> \in Seq(WorkItems)
  BY EpisodesAssumption, SchedulingAssumption, NoWork
<1> HIDE DEF WorkItems
<1> QED
  BY <1>1 DEF TickRows, TickPlaces, Resting

LEMMA InitSchedulingInv == SchedulingInit /\ releases = {} => SchedulingInv
<1> SUFFICES ASSUME SchedulingInit, releases = {} PROVE SchedulingInv
  OBVIOUS
<1>1. Resting \in TickRows /\ Resting.at = "idle"
  BY RestingTyped
<1>2. [state |-> "absent", episode |-> 0] \in SlotRows
  BY EpisodesAssumption DEF SlotRows, SlotStates
<1>3. SchedulingRows
  <2>1. 0 \in 0..LastMinute
    BY SchedulingAssumption
  <2> QED
    BY <1>1, <1>2, <2>1 DEF SchedulingInit, SchedulingRows
<1>4. \A t \in Ticks : tick[t].at = "idle"
  BY <1>1 DEF SchedulingInit
<1>5. \A s \in Slots : slotRows[s].state = "absent" /\ s \notin delays /\ EpisodesOf(s) = {}
  BY DEF SchedulingInit, EpisodesOf
<1> QED
  BY <1>3, <1>4, <1>5 DEF SchedulingInv, TickSound, SlotSound, WorksOn

\* The slot at the head of a tick's work, and what is known of it.
LEMMA SlotAt ==
  ASSUME SchedulingInv, NEW t \in Ticks, tick[t].work # <<>>
  PROVE  \E s \in Slots : /\ s = Slot(t) /\ SlotSound(s) /\ slotRows[s] \in SlotRows
                          /\ tick[t].at \in {"claimed", "created", "refused"} => WorksOn(tick[t], s)
  BY SlotTyped DEF SchedulingInv, SchedulingRows, WorksOn, Slot

LEMMA ClaimSlotKeeps ==
  ASSUME SchedulingInv, NEW t \in Ticks, ClaimSlot(t)
  PROVE  SchedulingInv'
<1>1. /\ tick[t].work # <<>> /\ tick \in [Ticks -> TickRows]
      /\ UNCHANGED <<minute, schedule, hasChannel, releases>>
  BY DEF ClaimSlot, SchedulingInv, SchedulingRows
<1>2. CASE MoveTick(t, "taken") /\ UNCHANGED <<slotRows, delays>>
  <2>1. PICK row \in TickRows : tick' = [tick EXCEPT ![t] = row] /\ row.at = "taken"
                                /\ row.work = tick[t].work
    BY <1>1, <1>2, TickMoves DEF TickPlaces
  <2> QED
    BY <1>1, <1>2, <2>1, TickTurns
<1>3. CASE FreeSlot(Slot(t)) /\ MarkSlot(Slot(t), "pending", 0) /\ MoveTick(t, "claimed")
  <2>1. PICK row \in TickRows : tick' = [tick EXCEPT ![t] = row] /\ row.at = "claimed"
                                /\ row.work = tick[t].work
    BY <1>1, <1>3, TickMoves DEF TickPlaces
  <2>2. PICK s \in Slots : s = Slot(t) /\ SlotSound(s)
    BY <1>1, SlotAt
  <2>3. /\ slotRows[s].state = "absent" /\ delays' = delays
        /\ slotRows' = [slotRows EXCEPT ![s] = [state |-> "pending", episode |-> 0]]
    BY <1>3, <2>2 DEF FreeSlot, MarkSlot
  <2>4. s \notin delays /\ EpisodesOf(s) = {} /\ \A u \in Ticks : ~ WorksOn(tick[u], s)
    BY <2>2, <2>3 DEF SlotSound
  <2>5. SchedulingRows'
    <3>1. [state |-> "pending", episode |-> 0] \in SlotRows
      BY EpisodesAssumption DEF SlotRows, SlotStates
    <3>2. slotRows' \in [Slots -> SlotRows]
      BY <2>3, <3>1 DEF SchedulingInv, SchedulingRows
    <3>3. tick' \in [Ticks -> TickRows]
      BY <1>1, <2>1
    <3> QED
      BY <1>1, <2>3, <3>2, <3>3 DEF SchedulingInv, SchedulingRows
  <2>6. \A u \in Ticks : TickSound(tick'[u], releases')
    BY <1>1, <2>1, TicksKept DEF TickSound
  <2>7. ASSUME NEW q \in Slots, q # s PROVE SlotSound(q)'
    <3>1. slotRows'[q] = slotRows[q] /\ EpisodesOf(q)' = EpisodesOf(q)
      BY <1>1, <2>3, <2>7 DEF SchedulingInv, SchedulingRows, EpisodesOf
    <3>2. ~ WorksOn(row, q)
      BY <2>1, <2>2, <2>7 DEF WorksOn, Slot
    <3> QED
      BY <2>1, <2>3, <3>1, <3>2, SlotKept
  <2>8. SlotSound(s)'
    <3>1. slotRows'[s].state = "pending" /\ EpisodesOf(s)' = {} /\ s \notin delays'
      BY <1>1, <2>3, <2>4 DEF SchedulingInv, SchedulingRows, EpisodesOf
    <3>2. \A u \in Ticks : u # t => ~ WorksOn(tick'[u], s)
      BY <1>1, <2>1, <2>4
    <3> QED
      BY <3>1, <3>2 DEF SlotSound
  <2> QED
    BY <2>5, <2>6, <2>7, <2>8 DEF SchedulingInv
<1> QED
  BY <1>2, <1>3 DEF ClaimSlot

LEMMA ReadSlotKeeps ==
  ASSUME SchedulingInv, NEW t \in Ticks, ReadSlot(t)
  PROVE  SchedulingInv'
<1>1. /\ tick[t].at = "taken" /\ tick[t].work # <<>> /\ tick \in [Ticks -> TickRows]
      /\ UNCHANGED <<minute, schedule, hasChannel, slotRows, delays, releases>>
  BY DEF ReadSlot, AtPlace, SchedulingInv, SchedulingRows, TickSound
<1>2. CASE Becomes(t, SlotDone(t))
  BY <1>1, <1>2, SlotDoneTyped, TickTurns DEF Becomes
<1>3. CASE Retried(t) /\ MoveTick(t, "claimed")
  <2>1. PICK row \in TickRows : tick' = [tick EXCEPT ![t] = row] /\ row.at = "claimed"
                                /\ row.work = tick[t].work
    BY <1>1, <1>3, TickMoves DEF TickPlaces
  <2>2. PICK s \in Slots : s = Slot(t) /\ SlotSound(s)
    BY <1>1, SlotAt
  <2>3. slotRows[s].state = "delayed" /\ ~ Missed(t) /\ s \in delays
    BY <1>3, <2>2 DEF Retried, SlotSound
  <2>4. SchedulingRows'
    BY <1>1, <2>1 DEF SchedulingInv, SchedulingRows
  <2>5. \A u \in Ticks : TickSound(tick'[u], releases')
    BY <1>1, <2>1, TicksKept DEF TickSound
  <2>6. ASSUME NEW q \in Slots, q # s PROVE SlotSound(q)'
    <3>1. ~ WorksOn(row, q) /\ EpisodesOf(q)' = EpisodesOf(q)
      BY <1>1, <2>1, <2>2, <2>6 DEF WorksOn, Slot, EpisodesOf
    <3> QED
      BY <1>1, <2>1, <3>1, SlotKept
  <2>7. SlotSound(s)'
    <3>1. EpisodesOf(s)' = EpisodesOf(s) /\ slotRows'[s] = slotRows[s] /\ s \in delays'
      BY <1>1, <2>3 DEF EpisodesOf
    <3>2. \A u \in Ticks : (u # t => tick'[u] = tick[u]) /\ tick'[u].work = tick[u].work
      BY <1>1, <2>1
    <3>3. \A u \in Ticks : WorksOn(tick'[u], s) => ~ Missed(u)'
      BY <2>2, <2>3, <3>2 DEF SlotSound, Missed
    <3> QED
      BY <2>3, <3>1, <3>3 DEF SlotSound
  <2> QED
    BY <2>4, <2>5, <2>6, <2>7 DEF SchedulingInv
<1> QED
  BY <1>2, <1>3 DEF ReadSlot
\* An episode's origin names one slot, and the owner's is of none.
LEMMA OriginsDiffer ==
  ASSUME NEW s \in Slots, NEW q \in Slots
  PROVE  /\ Origin(s) = Origin(q) => s = q
         /\ Origin(s) # <<"owner", 0, 0>>
<1>1. s = <<s[1], s[2]>> /\ q = <<q[1], q[2]>>
  BY DEF Slots
<1>2. Origin(s) = Origin(q) => s[1] = q[1] /\ s[2] = q[2]
  BY DEF Origin
<1>3. Origin(s)[1] = "schedule" /\ <<"owner", 0, 0>>[1] = "owner"
  BY DEF Origin
<1> QED
  BY <1>1, <1>2, <1>3

LEMMA QueueEpisodeKeeps ==
  ASSUME SchedulingInv, NEW t \in Ticks, QueueEpisode(t)
  PROVE  SchedulingInv'
<1>1. /\ tick[t].at = "claimed" /\ ~ Missed(t) /\ tick[t].room # 0 /\ tick[t].next \in Episodes
      /\ tick[t].work # <<>> /\ tick \in [Ticks -> TickRows]
      /\ UNCHANGED <<minute, schedule, hasChannel, slotRows, delays>>
  <2>1. /\ tick[t].at = "claimed" /\ ~ Missed(t) /\ tick[t].room > 0 /\ tick[t].next \in Episodes
        /\ UNCHANGED <<minute, schedule, hasChannel, slotRows, delays>>
    BY DEF QueueEpisode, AtPlace, Admitted
  <2>2. tick \in [Ticks -> TickRows] /\ TickSound(tick[t], releases)
    BY DEF SchedulingInv, SchedulingRows
  <2>3. tick[t].room # 0
    BY <2>1
  <2> QED
    BY <2>1, <2>2, <2>3 DEF TickSound
<1>2. PICK s \in Slots : s = Slot(t) /\ SlotSound(s) /\ WorksOn(tick[t], s)
  BY <1>1, SlotAt
<1> DEFINE new == [episode |-> tick[t].next, origin |-> Origin(s)]
<1>3. PICK p \in {"created", "refused"} :
        /\ MoveTick(t, p)
        /\ UNCHANGED releases \/ releases' = releases \cup {new}
        /\ p = "created" => releases' = releases \cup {new}
  <2>1. CreateReleaseWithJob(tick[t].next, Origin(s),
          MoveTick(t, "created"), MoveTick(t, "refused"), MoveTick(t, "refused"))
    BY <1>2 DEF QueueEpisode
  <2> QED
    BY <2>1 DEF CreateReleaseWithJob, InsertRelease
<1>4. PICK row \in TickRows :
        /\ tick' = [tick EXCEPT ![t] = row]
        /\ row.at = p /\ row.work = tick[t].work
        /\ row.next = tick[t].next /\ row.room = tick[t].room
  BY <1>1, <1>3, TickMoves DEF TickPlaces
<1>5. /\ s \notin delays => EpisodesOf(s) = {}
      /\ slotRows[s].state \notin {"absent", "skipped"}
      /\ new.origin = Origin(s) /\ new.episode \in Episodes
  BY <1>1, <1>2 DEF SlotSound
<1>6. \A q \in Slots : q # s => Origin(q) # Origin(s)
  BY OriginsDiffer
<1>7. Head(row.work).slot = s /\ Head(row.work).missed = Missed(t)
  BY <1>2, <1>4 DEF Slot, Missed
<1>8. p = "created" => [episode |-> row.next, origin |-> Origin(s)] = new
  BY <1>4
<1> HIDE DEF new
<1>9. SchedulingRows'
  BY <1>1, <1>3, <1>4, <1>5 DEF SchedulingInv, SchedulingRows
<1>10. \A u \in Ticks : TickSound(tick'[u], releases')
  <2>1. releases \subseteq releases'
    BY <1>3
  <2>2. TickSound(row, releases')
    BY <1>1, <1>3, <1>4, <1>7, <1>8 DEF TickSound
  <2> QED
    BY <1>4, <2>1, <2>2, TicksKept
<1>11. ASSUME NEW q \in Slots, q # s PROVE SlotSound(q)'
  <2>1. \A r : r \in EpisodesOf(q)' <=> r \in EpisodesOf(q)
    BY <1>3, <1>5, <1>6, <1>11 DEF EpisodesOf
  <2>2. ~ WorksOn(row, q)
    BY <1>7, <1>11 DEF WorksOn
  <2> QED
    BY <1>1, <1>4, <2>1, <2>2, SlotKept
<1>12. SlotSound(s)'
  <2>1. /\ EpisodesOf(s) \subseteq EpisodesOf(s)' /\ EpisodesOf(s)' \subseteq EpisodesOf(s) \cup {new}
    BY <1>3 DEF EpisodesOf
  <2>2. tick'[t] = row /\ \A u \in Ticks : u # t => tick'[u] = tick[u]
    BY <1>1, <1>4
  <2>3. \A u \in Ticks : WorksOn(tick'[u], s) =>
          WorksOn(tick[u], s) /\ (tick'[u].at = "claimed" => u # t)
    BY <1>2, <1>4, <2>2 DEF WorksOn
  <2>4. \A u \in Ticks : Missed(u)' <=> Missed(u)
    BY <1>4, <2>2 DEF Missed
  <2>5. s \notin delays => \A u \in Ticks : WorksOn(tick'[u], s) => u = t
    BY <1>2, <2>3 DEF SlotSound
  <2>6. s \notin delays => \A r, q \in EpisodesOf(s)' : r = q
    BY <1>5, <2>1
  <2>7. s \in delays => \A u \in Ticks : WorksOn(tick'[u], s) => ~ Missed(u)'
    BY <1>2, <2>3, <2>4 DEF SlotSound
  <2>8. slotRows[s].state = "queued" => \E r \in EpisodesOf(s)' : r.episode = slotRows[s].episode
    BY <1>2, <2>1 DEF SlotSound
  <2>9. slotRows[s].state = "delayed" => s \in delays
    BY <1>2 DEF SlotSound
  <2>10. UNCHANGED <<slotRows, delays>>
    BY <1>1
  <2> QED
    BY <1>5, <2>3, <2>5, <2>6, <2>7, <2>8, <2>9, <2>10 DEF SlotSound
<1> QED
  BY <1>9, <1>10, <1>11, <1>12 DEF SchedulingInv

LEMMA TickStepKeeps ==
  ASSUME SchedulingInv, NEW t \in Ticks, TickStep(t)
  PROVE  SchedulingInv'
<1>1. tick \in [Ticks -> TickRows] /\ tick[t] \in TickRows /\ TickSound(tick[t], releases)
  BY DEF SchedulingInv, SchedulingRows
<1>2. CASE StartTick(t)
  <2> DEFINE row == [Resting EXCEPT !.at = "facts", !.work = WindowOf(schedule, minute)]
  <2>1. row \in TickRows /\ row.at = "facts"
    BY WindowTyped, StartTyped DEF SchedulingInv, SchedulingRows
  <2>2. tick' = [tick EXCEPT ![t] = row]
    BY <1>2 DEF StartTick, Becomes
  <2> HIDE DEF row
  <2> QED
    BY <1>2, <2>1, <2>2, TickTurns DEF StartTick
<1>3. CASE ReadFacts(t)
  <2>1. PICK room \in 0..MaxConcurrentJobs :
          Becomes(t, [tick[t] EXCEPT !.at = "slot", !.channel = hasChannel, !.next = NextEpisode,
                                  !.room = room])
    BY <1>3 DEF ReadFacts
  <2> DEFINE row == [tick[t] EXCEPT !.at = "slot", !.channel = hasChannel, !.next = NextEpisode,
                                  !.room = room]
  <2>2. row \in TickRows /\ row.at = "slot"
    BY <1>1, NextEpisodeTyped, FactsTyped DEF SchedulingInv, SchedulingRows
  <2>3. tick' = [tick EXCEPT ![t] = row]
    BY <2>1 DEF Becomes
  <2> HIDE DEF row
  <2> QED
    BY <1>3, <2>2, <2>3, TickTurns DEF ReadFacts
<1>4. CASE MarkMissed(t)
  <2>1. /\ tick[t].at = "claimed" /\ Missed(t) /\ MarkSlot(Slot(t), "skipped", 0)
        /\ tick' = [tick EXCEPT ![t] = SlotDone(t)]
        /\ UNCHANGED <<minute, schedule, hasChannel, releases>>
    BY <1>4 DEF MarkMissed, AtPlace, Becomes
  <2>2. SlotDone(t) \in TickRows /\ SlotDone(t).at = "slot" /\ 0 \in 0..MaxEpisode
    BY <1>1, <2>1, SlotDoneTyped, EpisodesAssumption DEF TickSound
  <2> QED
    BY <2>1, <2>2, SlotMarked
<1>5. CASE DeclineSlot(t)
  <2>1. PICK state \in {"blocked", "delayed"} :
        /\ tick[t].at = "claimed" /\ ~ Missed(t) /\ MarkSlot(Slot(t), state, 0)
        /\ tick' = [tick EXCEPT ![t] = SlotDone(t)]
        /\ UNCHANGED <<minute, schedule, hasChannel, releases>>
    BY <1>5 DEF DeclineSlot, AtPlace, Becomes
  <2>2. SlotDone(t) \in TickRows /\ SlotDone(t).at = "slot" /\ 0 \in 0..MaxEpisode
    BY <1>1, <2>1, SlotDoneTyped, EpisodesAssumption DEF TickSound
  <2> QED
    BY <2>1, <2>2, SlotMarked
<1>6. CASE MarkBlocked(t)
  <2>1. /\ tick[t].at = "refused" /\ MarkSlot(Slot(t), "blocked", 0)
        /\ tick' = [tick EXCEPT ![t] = SlotDone(t)]
        /\ UNCHANGED <<minute, schedule, hasChannel, releases>>
    BY <1>6 DEF MarkBlocked, AtPlace, Becomes
  <2>2. SlotDone(t) \in TickRows /\ SlotDone(t).at = "slot" /\ 0 \in 0..MaxEpisode
    BY <1>1, <2>1, SlotDoneTyped, EpisodesAssumption DEF TickSound
  <2> QED
    BY <2>1, <2>2, SlotMarked
<1>7. CASE MarkQueued(t)
  <2> DEFINE row == [SlotDone(t) EXCEPT !.next = @ + 1, !.room = @ - 1]
  <2>1. /\ tick[t].at = "created" /\ MarkSlot(Slot(t), "queued", tick[t].next)
        /\ tick' = [tick EXCEPT ![t] = row]
        /\ UNCHANGED <<minute, schedule, hasChannel, releases>>
    BY <1>7 DEF MarkQueued, AtPlace, Becomes, QueuedAs
  <2>2. /\ tick[t].work # <<>> /\ tick[t].room # 0 /\ tick[t].next \in Episodes
        /\ [episode |-> tick[t].next, origin |-> Origin(Slot(t))] \in releases
    BY <1>1, <2>1 DEF TickSound, Slot
  <2>3. row \in TickRows /\ row.at = "slot"
    BY <1>1, <2>2, SlotDoneTyped, QueuedTyped
  <2> HIDE DEF row
  <2>4. \E r \in EpisodesOf(Slot(t)) : r.episode = tick[t].next
    BY <2>2 DEF EpisodesOf
  <2>5. tick[t].next \in 0..MaxEpisode
    BY <2>2, EpisodesAssumption DEF Episodes
  <2> QED
    BY <2>1, <2>3, <2>4, <2>5, SlotMarked
<1>8. CASE EndTick(t)
  <2>1. Resting \in TickRows /\ Resting.at = "idle"
    BY RestingTyped
  <2> QED
    BY <1>8, <2>1, TickTurns DEF EndTick, Becomes
<1> QED
  BY <1>2, <1>3, <1>4, <1>5, <1>6, <1>7, <1>8,
     ClaimSlotKeeps, ReadSlotKeeps, QueueEpisodeKeeps DEF TickStep

\* A step that leaves the ticks and the slots' rows alone.
LEMMA SlotsStay ==
  ASSUME SchedulingInv, UNCHANGED <<slotRows, delays, tick>>, releases \subseteq releases',
         SchedulingRows', \A s \in Slots : EpisodesOf(s)' = EpisodesOf(s)
  PROVE  SchedulingInv'
<1>1. \A t \in Ticks : TickSound(tick[t], releases')
  BY DEF SchedulingInv, TickSound
<1>2. ASSUME NEW s \in Slots PROVE SlotSound(s)'
  <2>1. SlotSound(s) /\ EpisodesOf(s)' = EpisodesOf(s)
    BY DEF SchedulingInv
  <2>2. \A t \in Ticks : Missed(t)' <=> Missed(t)
    BY DEF Missed
  <2> QED
    BY <2>1, <2>2 DEF SlotSound
<1> QED
  BY <1>1, <1>2 DEF SchedulingInv

LEMMA SchedulingStep ==
  SchedulingInv /\ [SchedulingNext]_<<schedulingVars, releases>> => SchedulingInv'
<1> SUFFICES ASSUME SchedulingInv, [SchedulingNext]_<<schedulingVars, releases>>
             PROVE  SchedulingInv'
  OBVIOUS
<1>1. CASE \E t \in Ticks : TickStep(t)
  BY <1>1, TickStepKeeps
<1>2. CASE \/ TimePasses \/ SaveSchedule \/ CreateChannel \/ UNCHANGED <<schedulingVars, releases>>
  <2>1. UNCHANGED <<slotRows, delays, tick, releases>>
    BY <1>2 DEF TimePasses, SaveSchedule, CreateChannel, schedulingVars
  <2>2. minute' \in 0..LastMinute /\ schedule' \in Schedules /\ hasChannel' \in BOOLEAN
    <3>1. minute \in 0..LastMinute /\ schedule \in Schedules /\ hasChannel \in BOOLEAN
      BY DEF SchedulingInv, SchedulingRows
    <3>2. CASE TimePasses
      <4>1. minute' \in 0..LastMinute
        BY <3>1, <3>2, SchedulingAssumption DEF TimePasses
      <4> QED
        BY <3>1, <3>2, <4>1 DEF TimePasses
    <3>3. CASE SaveSchedule
      BY <3>1, <3>3 DEF SaveSchedule
    <3>4. CASE CreateChannel
      BY <3>1, <3>4 DEF CreateChannel
    <3>5. CASE UNCHANGED <<schedulingVars, releases>>
      BY <3>1, <3>5 DEF schedulingVars
    <3> QED
      BY <1>2, <3>2, <3>3, <3>4, <3>5
  <2>3. SchedulingRows'
    BY <2>1, <2>2 DEF SchedulingInv, SchedulingRows
  <2> QED
    BY <2>1, <2>3, SlotsStay DEF EpisodesOf
<1>3. CASE OwnerPlansEpisode
  <2>1. PICK e \in Episodes : releases' = releases \cup {[episode |-> e, origin |-> <<"owner", 0, 0>>]}
    BY <1>3 DEF OwnerPlansEpisode, OwnerPlans, InsertRelease
  <2>2. UNCHANGED <<minute, schedule, hasChannel, slotRows, delays, tick>>
    BY <1>3 DEF OwnerPlansEpisode, schedulingVars
  <2>3. SchedulingRows'
    BY <2>1, <2>2 DEF SchedulingInv, SchedulingRows
  <2>4. \A s \in Slots : EpisodesOf(s)' = EpisodesOf(s)
    BY <2>1, OriginsDiffer DEF EpisodesOf
  <2> QED
    BY <2>1, <2>2, <2>3, <2>4, SlotsStay
<1> QED
  BY <1>1, <1>2, <1>3 DEF SchedulingNext

\* The schedule's rows are typed.
LEMMA SchedulingTyped == SchedulingInv => SchedulingTypeOK
<1> SUFFICES ASSUME SchedulingInv PROVE SchedulingTypeOK
  OBVIOUS
<1>1. ASSUME NEW t \in Ticks
      PROVE  /\ tick[t].at \in TickPlaces
             /\ \A k \in DOMAIN tick[t].work : tick[t].work[k].slot \in Slots
             /\ tick[t].next \in 0..(MaxEpisode + 1) /\ tick[t].room \in 0..MaxConcurrentJobs
  <2>1. tick[t] \in TickRows
    BY DEF SchedulingInv, SchedulingRows
  <2>2. \A k \in DOMAIN tick[t].work : tick[t].work[k] \in WorkItems
    <3> HIDE DEF WorkItems
    <3> QED
      BY <2>1 DEF TickRows
  <2> QED
    BY <2>1, <2>2 DEF TickRows, WorkItems
<1> QED
  BY <1>1 DEF SchedulingInv, SchedulingRows, SchedulingTypeOK, SlotRows, TickPlaces

\* Every variable of the schedule keeps its type; a tick's work is slots of its two days.
THEOREM SchedulingTypes == SchedulingSpec => []SchedulingTypeOK
  BY SchedulingTyped, InitSchedulingInv, SchedulingStep, PTL DEF SchedulingSpec

\* A slot that was never delayed has at most one episode, one that was skipped none, and one
\* reported as queued has that episode: until it is delayed, a slot is in one tick's hands,
\* and the tick that has it has made nothing of it before.
THEOREM SlotsAreAccounted == SchedulingSpec => []SlotsAccounted
<1>1. SchedulingInv => SlotsAccounted
  <2> SUFFICES ASSUME SchedulingInv, NEW s \in Slots
               PROVE  /\ s \notin delays => Cardinality(EpisodesOf(s)) <= 1
                      /\ slotRows[s].state = "skipped" => EpisodesOf(s) = {}
                      /\ slotRows[s].state = "queued" =>
                           \E r \in EpisodesOf(s) : r.episode = slotRows[s].episode
    BY DEF SlotsAccounted, UndelayedSlotMadeOnce, QueuedSlotBacked
  <2>1. SlotSound(s)
    BY DEF SchedulingInv
  <2>2. ASSUME s \notin delays PROVE Cardinality(EpisodesOf(s)) <= 1
    <3>1. CASE EpisodesOf(s) = {}
      BY <3>1, FS_EmptySet
    <3>2. CASE EpisodesOf(s) # {}
      <4>1. PICK r : EpisodesOf(s) = {r}
        BY <2>1, <2>2, <3>2 DEF SlotSound
      <4>2. Cardinality({r}) = 1
        BY FS_Singleton
      <4> QED
        BY <4>1, <4>2
    <3> QED
      BY <3>1, <3>2
  <2> QED
    BY <2>1, <2>2 DEF SlotSound
<1> QED
  BY <1>1, InitSchedulingInv, SchedulingStep, PTL DEF SchedulingSpec

-----------------------------------------------------------------------------
(* The backlog feeder.                                                     *)

\* A plan of slices that nothing but the owner or a dependency holds back.
Fit(plan, known) ==
  /\ plan \in Seq(Slice)
  /\ \A k \in DOMAIN plan :
       ~ Manifest[plan[k]].gated /\ Manifest[plan[k]].needs \subseteq known

PlansOf(n, g) ==
  /\ g \in [0..n -> Seq(Slice)] /\ g[0] = <<>>
  /\ \A k \in 1..n : g[k] = Considered(g[k - 1], k)

\* Considering a slice keeps the plan fit.
LEMMA ConsideredFits ==
  ASSUME NEW plan, NEW s \in Slice, Fit(plan, run.known)
  PROVE  Fit(Considered(plan, s), run.known)
<1>1. CASE Promotable(plan, s)
  <2>1. Considered(plan, s) = Append(plan, s)
    BY <1>1 DEF Considered
  <2>2. ~ Manifest[s].gated /\ Manifest[s].needs \subseteq run.known
    BY <1>1 DEF Promotable
  <2>3. /\ plan \in Seq(Slice) /\ Append(plan, s) \in Seq(Slice)
        /\ \A k \in DOMAIN Append(plan, s) :
             Append(plan, s)[k] = s \/ (k \in DOMAIN plan /\ Append(plan, s)[k] = plan[k])
    BY DEF Fit
  <2> QED
    BY <2>1, <2>2, <2>3 DEF Fit
<1>2. CASE ~ Promotable(plan, s)
  BY <1>2 DEF Considered
<1> QED
  BY <1>1, <1>2

\* The recursion of PlanUpTo is well defined.
LEMMA PlansExist == \A n \in 0..Len(Manifest) : \E g : PlansOf(n, g)
<1> DEFINE T == {n \in 0..Len(Manifest) : ~ \E g : PlansOf(n, g)}
<1> SUFFICES ASSUME T # {} PROVE FALSE
  OBVIOUS
<1>1. PICK n \in T : \A m \in T : n <= m
  <2>1. T \subseteq Nat
    OBVIOUS
  <2> HIDE DEF T
  <2> QED
    BY <2>1, Least
<1>2. n \in 0..Len(Manifest) /\ ~ \E g : PlansOf(n, g)
  OBVIOUS
<1>3. CASE n = 0
  <2>1. PlansOf(0, [k \in 0..0 |-> <<>>])
    BY DEF PlansOf
  <2> QED
    BY <1>2, <1>3, <2>1
<1>4. CASE n # 0
  <2>1. n - 1 \in 0..Len(Manifest) /\ n - 1 \notin T /\ n \in Slice /\ n - 1 \in Nat
    <3>1. n - 1 \in 0..Len(Manifest) /\ ~ (n <= n - 1) /\ n \in Slice
      BY <1>2, <1>4, FeederAssumption
    <3> HIDE DEF T
    <3> QED
      BY <1>1, <3>1
  <2>2. PICK g : PlansOf(n - 1, g)
    BY <2>1
  <2> DEFINE h == [k \in 0..n |-> IF k = n THEN Considered(g[n - 1], n) ELSE g[k]]
  <2>3. g[n - 1] \in Seq(Slice) /\ Considered(g[n - 1], n) \in Seq(Slice)
    BY <2>1, <2>2 DEF PlansOf, Considered
  <2>4. h \in [0..n -> Seq(Slice)] /\ h[0] = <<>>
    BY <1>4, <2>1, <2>2, <2>3 DEF PlansOf
  <2>5. ASSUME NEW k \in 1..n PROVE h[k] = Considered(h[k - 1], k)
    <3>1. k \in 0..n /\ k - 1 \in 0..n /\ k - 1 # n /\ n \in 0..n
      BY <2>1
    <3>2. h[k - 1] = g[k - 1]
      BY <3>1
    <3>3. CASE k = n
      BY <3>1, <3>2, <3>3
    <3>4. CASE k # n
      <4>1. k \in 1..(n - 1)
        BY <2>1, <3>4
      <4>2. g[k] = Considered(g[k - 1], k)
        BY <2>2, <4>1 DEF PlansOf
      <4>3. h[k] = g[k]
        BY <3>1, <3>4
      <4> QED
        BY <3>2, <4>2, <4>3
    <3> QED
      BY <3>3, <3>4
  <2> HIDE DEF h
  <2> QED
    BY <1>2, <2>4, <2>5 DEF PlansOf
<1> QED
  BY <1>3, <1>4

LEMMA PlanUpToIs ==
  PlanUpTo = [n \in 0..Len(Manifest) |-> IF n = 0 THEN <<>> ELSE Considered(PlanUpTo[n - 1], n)]
<1> DEFINE Rec(g) ==
      g = [n \in 0..Len(Manifest) |-> IF n = 0 THEN <<>> ELSE Considered(g[n - 1], n)]
<1>1. PICK g : PlansOf(Len(Manifest), g)
  BY PlansExist, FeederAssumption
<1>2. Rec(g)
  BY <1>1, FeederAssumption DEF PlansOf
<1>3. PlanUpTo = CHOOSE f : Rec(f)
  BY DEF PlanUpTo
<1> HIDE DEF Rec
<1>4. Rec(PlanUpTo)
  BY <1>2, <1>3, Zenon
<1> QED
  BY <1>4 DEF Rec

\* Whatever the manifest, no slice of the plan is gated or needs one that is not recorded.
LEMMA PlanFits == Fit(PlanUpTo[Len(Manifest)], run.known)
<1> DEFINE T == {n \in 0..Len(Manifest) : ~ Fit(PlanUpTo[n], run.known)}
<1>1. ASSUME T # {} PROVE FALSE
  <2>1. PICK n \in T : \A m \in T : n <= m
    <3>1. T \subseteq Nat
      OBVIOUS
    <3> HIDE DEF T
    <3> QED
      BY <1>1, <3>1, Least
  <2>2. n \in 0..Len(Manifest) /\ ~ Fit(PlanUpTo[n], run.known)
    OBVIOUS
  <2>3. CASE n = 0
    BY <2>2, <2>3, PlanUpToIs DEF Fit
  <2>4. CASE n # 0
    <3>1. n - 1 \in 0..Len(Manifest) /\ n \in Slice /\ ~ (n <= n - 1)
      BY <2>2, <2>4, FeederAssumption
    <3>2. Fit(PlanUpTo[n - 1], run.known)
      BY <2>1, <3>1
    <3>3. PlanUpTo[n] = Considered(PlanUpTo[n - 1], n)
      BY <2>2, <2>4, PlanUpToIs
    <3> QED
      BY <2>2, <3>1, <3>2, <3>3, ConsideredFits
  <2> QED
    BY <2>3, <2>4
<1> QED
  BY <1>1, FeederAssumption
-----------------------------------------------------------------------------
Labels == {"ready", "lane", "in-progress", "blocked"}
PrKinds == {"night", "jules", "unnamed"}
IssueRows == [slice : Slice, state : {"open", "completed", "not_planned"},
              labels : SUBSET Labels, prs : SUBSET PrKinds,
              command : {"none", "queued", "dispatched"}]
EventRows == [issue : Nat, reason : {"none", "completed", "not_planned"}]
FeederRunRows == [at : {"idle", "closing", "observing", "feeding", "relabelling"},
            event : EventRows, known : SUBSET Slice, plan : Seq(Slice)]

\* An event is of no issue, or of one that there is; a completed one's slice is done.
EventSound(event, log, finished) ==
  /\ event.issue \in 0..Len(log)
  /\ event.issue = 0 => event = NoEvent
  /\ event.reason = "completed" => log[event.issue].slice \in finished

FeederRunSound(row, log, recorded, finished) ==
  /\ row.known \subseteq recorded
  /\ Fit(row.plan, row.known)
  /\ EventSound(row.event, log, finished)
  /\ row.at = "relabelling" =>
       /\ row.plan # <<>> /\ row.event.issue # 0
       /\ "night" \notin log[row.event.issue].prs
       /\ log[row.event.issue].labels \cap {"ready", "in-progress"} = {}

\* An issue whose slice the feeder may have, and whom it is work for.
IssueSound(i, row, recorded, back, at) ==
  /\ ~ Manifest[row.slice].gated /\ Manifest[row.slice].needs \subseteq recorded
  /\ "lane" \in row.labels
  /\ i \notin back /\ "ready" \in row.labels => "night" \notin row.prs /\ "in-progress" \notin row.labels
  /\ i = at => "in-progress" \in row.labels

FeederRows ==
  /\ issues \in Seq(IssueRows) /\ lifecycle \subseteq Slice /\ runs \in 0..MaxRuns
  /\ waiting \subseteq [event : EventRows, known : SUBSET Slice]
  /\ run \in FeederRunRows
  /\ {worker, jules} \subseteq 0..Len(issues) /\ done \subseteq Slice /\ refed \subseteq 1..Len(issues)

FeederInv ==
  /\ FeederRows
  /\ FeederRunSound(run, issues, lifecycle, done)
  /\ \A w \in waiting : w.known \subseteq lifecycle /\ EventSound(w.event, issues, done)
  /\ lifecycle \subseteq done
  /\ \A i \in 1..Len(issues) : IssueSound(i, issues[i], lifecycle, refed, worker)
  /\ \A i, j \in 1..Len(issues) : issues[i].slice = issues[j].slice => i = j

LEMMA InitFeederInv == FeederInit => FeederInv
<1> SUFFICES ASSUME FeederInit PROVE FeederInv
  OBVIOUS
<1>1. NoEvent \in EventRows /\ <<>> \in Seq(Slice) /\ <<>> \in Seq(IssueRows)
  BY DEF NoEvent, EventRows
<1>2. Idle \in FeederRunRows
  BY <1>1 DEF Idle, FeederRunRows
<1>3. issues = <<>> /\ Len(issues) = 0 /\ run = Idle /\ lifecycle = {} /\ waiting = {} /\ done = {}
  BY DEF FeederInit
<1> HIDE DEF IssueRows, FeederRunRows, EventRows
<1>4. FeederRows
  BY <1>1, <1>2, <1>3, FeederAssumption DEF FeederInit, FeederRows
<1>5. FeederRunSound(run, issues, lifecycle, done)
  <2>1. run.known = {} /\ run.plan = <<>> /\ run.event = NoEvent /\ run.at = "idle"
    BY <1>3 DEF Idle
  <2>2. NoEvent.issue = 0 /\ NoEvent.reason = "none"
    BY DEF NoEvent
  <2> QED
    BY <1>3, <2>1, <2>2 DEF FeederRunSound, Fit, EventSound
<1> QED
  BY <1>3, <1>4, <1>5 DEF FeederInv

\* A turn of the run that leaves the issues alone, and records no less than it knows.
LEMMA FeederTurns ==
  ASSUME FeederInv, UNCHANGED <<issues, worker, jules, done, refed>>,
         runs' \in 0..MaxRuns, waiting' \subseteq waiting,
         lifecycle \subseteq lifecycle', lifecycle' \subseteq done,
         run' \in FeederRunRows, FeederRunSound(run', issues, lifecycle', done)
  PROVE  FeederInv'
<1>1. FeederRows'
  BY DEF FeederInv, FeederRows
<1>2. \A i \in 1..Len(issues) : IssueSound(i, issues[i], lifecycle', refed, worker)
  BY DEF FeederInv, IssueSound
<1>3. \A w \in waiting' : w.known \subseteq lifecycle' /\ EventSound(w.event, issues, done)
  BY DEF FeederInv
<1> QED
  BY <1>1, <1>2, <1>3 DEF FeederInv
\* One issue changes, but for its slice.
LEMMA IssueChanges ==
  ASSUME FeederInv, NEW i \in 1..Len(issues), NEW row \in IssueRows,
         issues' = [issues EXCEPT ![i] = row], row.slice = issues[i].slice,
         UNCHANGED <<lifecycle, runs>>,
         {worker', jules'} \subseteq {0, worker, jules, i}, worker' \in {0, worker, i},
         done \subseteq done', done' \subseteq Slice,
         refed \subseteq refed', refed' \subseteq 1..Len(issues),
         waiting' \subseteq [event : EventRows, known : SUBSET Slice],
         \A w \in waiting' : w.known \subseteq lifecycle /\ EventSound(w.event, issues, done'),
         run' \in FeederRunRows, FeederRunSound(run', issues', lifecycle, done'),
         IssueSound(i, row, lifecycle, refed', worker')
  PROVE  FeederInv'
<1>1. issues \in Seq(IssueRows) /\ {worker, jules} \subseteq 0..Len(issues)
  BY DEF FeederInv, FeederRows
<1> HIDE DEF IssueRows
<1>2. /\ issues' \in Seq(IssueRows) /\ Len(issues') = Len(issues) /\ issues'[i] = row
      /\ \A j \in 1..Len(issues) : j # i => issues'[j] = issues[j]
  BY <1>1
<1>3. \A j \in 1..Len(issues) : issues'[j].slice = issues[j].slice
  BY <1>2
<1>4. FeederRows'
  BY <1>1, <1>2 DEF FeederInv, FeederRows
<1>5. \A j \in 1..Len(issues) : IssueSound(j, issues'[j], lifecycle, refed', worker')
  <2> SUFFICES ASSUME NEW j \in 1..Len(issues), j # i
               PROVE  IssueSound(j, issues[j], lifecycle, refed', worker')
    BY <1>2
  <2> QED
    BY DEF FeederInv, IssueSound
<1>6. \A w \in waiting' : w.known \subseteq lifecycle /\ EventSound(w.event, issues', done')
  BY <1>2, <1>3 DEF EventSound
<1>7. \A j, k \in 1..Len(issues') : issues'[j].slice = issues'[k].slice => j = k
  BY <1>2, <1>3 DEF FeederInv
<1> QED
  BY <1>2, <1>4, <1>5, <1>6, <1>7 DEF FeederInv

\* What a run knows stands when somebody else changes an issue.
LEMMA RunStands ==
  ASSUME FeederInv, NEW i \in 1..Len(issues), NEW row \in IssueRows,
         issues' = [issues EXCEPT ![i] = row], row.slice = issues[i].slice,
         done \subseteq done',
         "night" \notin issues[i].prs /\ issues[i].labels \cap {"ready", "in-progress"} = {} =>
           "night" \notin row.prs /\ row.labels \cap {"ready", "in-progress"} = {}
  PROVE  /\ FeederRunSound(run, issues', lifecycle, done')
         /\ \A w \in waiting : w.known \subseteq lifecycle /\ EventSound(w.event, issues, done')
<1>1. issues \in Seq(IssueRows)
  BY DEF FeederInv, FeederRows
<1> HIDE DEF IssueRows
<1>2. /\ Len(issues') = Len(issues) /\ issues'[i] = row
      /\ \A j \in 1..Len(issues) : j # i => issues'[j] = issues[j]
  BY <1>1
<1>3. EventSound(run.event, issues', done')
  BY <1>2 DEF FeederInv, FeederRunSound, EventSound
<1>4. run.at = "relabelling" =>
        /\ run.plan # <<>> /\ run.event.issue # 0
        /\ "night" \notin issues'[run.event.issue].prs
        /\ issues'[run.event.issue].labels \cap {"ready", "in-progress"} = {}
  BY <1>2 DEF FeederInv, FeederRunSound, EventSound
<1> QED
  BY <1>3, <1>4 DEF FeederInv, FeederRunSound, EventSound

\* The night shift or the owner changes an issue, and no event comes of it.
LEMMA IssueTouched ==
  ASSUME FeederInv, NEW i \in 1..Len(issues), NEW row \in IssueRows,
         issues' = [issues EXCEPT ![i] = row], row.slice = issues[i].slice,
         UNCHANGED <<lifecycle, run, waiting, runs, done, refed>>,
         worker' \in {0, worker, i}, jules' \in {0, jules, i},
         "night" \notin issues[i].prs /\ issues[i].labels \cap {"ready", "in-progress"} = {} =>
           "night" \notin row.prs /\ row.labels \cap {"ready", "in-progress"} = {},
         IssueSound(i, row, lifecycle, refed, worker')
  PROVE  FeederInv'
<1>1. /\ FeederRunSound(run, issues', lifecycle, done)
      /\ \A w \in waiting : w.known \subseteq lifecycle /\ EventSound(w.event, issues, done)
  BY RunStands
<1>2. /\ run \in FeederRunRows /\ waiting \subseteq [event : EventRows, known : SUBSET Slice]
      /\ done \subseteq Slice /\ refed \subseteq 1..Len(issues)
  BY DEF FeederInv, FeederRows
<1> HIDE DEF IssueRows, FeederRunRows, EventRows, FeederRunSound
<1> QED
  BY <1>1, <1>2, IssueChanges

LEMMA RowTyped == ASSUME FeederInv, NEW i \in 1..Len(issues) PROVE issues[i] \in IssueRows
<1>1. issues \in Seq(IssueRows)
  BY DEF FeederInv, FeederRows
<1> HIDE DEF IssueRows
<1> QED
  BY <1>1

LEMMA LabelledKeeps ==
  ASSUME FeederInv, NEW i \in 1..Len(issues), NEW labels \in SUBSET Labels, NEW prs \in SUBSET PrKinds,
         Labelled(i, labels, prs), worker' \in {0, worker, i}, "lane" \in labels,
         i \notin refed /\ "ready" \in labels => "night" \notin prs /\ "in-progress" \notin labels,
         i = worker' => "in-progress" \in labels,
         "night" \notin issues[i].prs /\ issues[i].labels \cap {"ready", "in-progress"} = {} =>
           "night" \notin prs /\ labels \cap {"ready", "in-progress"} = {}
  PROVE  FeederInv'
<1>0. PICK r \in IssueRows : r = issues[i]
  BY RowTyped
<1> DEFINE row == [r EXCEPT !.labels = labels, !.prs = prs]
<1>1. row \in IssueRows /\ row.slice = issues[i].slice /\ row.labels = labels /\ row.prs = prs
  BY <1>0 DEF IssueRows
<1>3. /\ issues' = [issues EXCEPT ![i] = row]
      /\ UNCHANGED <<lifecycle, run, waiting, runs, jules, done, refed>>
  BY <1>0 DEF Labelled
<1> HIDE DEF row
<1>4. IssueSound(i, row, lifecycle, refed, worker')
  BY <1>1 DEF FeederInv, IssueSound
<1> QED
  BY <1>1, <1>3, <1>4, IssueTouched
LEMMA ClosedKeeps ==
  ASSUME FeederInv, NEW i \in 1..Len(issues), NEW reason \in {"completed", "not_planned"},
         NEW prs \in SUBSET issues[i].prs, Closed(i, reason, prs)
  PROVE  FeederInv'
<1>0. PICK r \in IssueRows : r = issues[i]
  BY RowTyped
<1> DEFINE row == [r EXCEPT !.state = reason, !.prs = prs]
<1>1. /\ row \in IssueRows /\ row.slice = issues[i].slice
      /\ row.labels = issues[i].labels /\ row.prs \subseteq issues[i].prs
  BY <1>0 DEF IssueRows
<1>2. /\ issues' = [issues EXCEPT ![i] = row]
      /\ done' = IF reason = "completed" THEN done \cup {issues[i].slice} ELSE done
      /\ waiting' = {[event |-> [issue |-> i, reason |-> reason], known |-> lifecycle]}
      /\ UNCHANGED <<lifecycle, run, runs, worker, jules, refed>>
  BY <1>0 DEF Closed, Triggered
<1>3. issues[i].slice \in Slice
  BY <1>0 DEF IssueRows
<1> HIDE DEF row
<1>4. done \subseteq done' /\ done' \subseteq Slice
  BY <1>2, <1>3 DEF FeederInv, FeederRows
<1>5. FeederRunSound(run, issues', lifecycle, done')
  BY <1>1, <1>2, <1>4, RunStands
<1>6. /\ waiting' \subseteq [event : EventRows, known : SUBSET Slice]
      /\ \A w \in waiting' : w.known \subseteq lifecycle /\ EventSound(w.event, issues, done')
  <2> DEFINE event == [issue |-> i, reason |-> reason]
             w == [event |-> event, known |-> lifecycle]
  <2>1. i # 0 /\ i \in Nat /\ lifecycle \subseteq Slice /\ i \in 0..Len(issues)
    BY DEF FeederInv, FeederRows
  <2>2. event \in EventRows /\ event.issue = i /\ event.reason = reason
    BY <2>1 DEF EventRows
  <2>3. EventSound(event, issues, done')
    BY <1>2, <2>1, <2>2 DEF EventSound
  <2> HIDE DEF event
  <2>4. waiting' = {w} /\ w \in [event : EventRows, known : SUBSET Slice]
    BY <1>2, <2>1, <2>2 DEF event
  <2> QED
    BY <2>3, <2>4
<1>7. IssueSound(i, row, lifecycle, refed, worker)
  BY <1>1 DEF FeederInv, IssueSound
<1>8. run \in FeederRunRows /\ refed \subseteq 1..Len(issues)
  BY DEF FeederInv, FeederRows
<1> HIDE DEF IssueRows, FeederRunRows, EventRows
<1> QED
  BY <1>1, <1>2, <1>4, <1>5, <1>6, <1>7, <1>8, IssueChanges

LEMMA ShiftAndOwnerKeep ==
  ASSUME FeederInv, NEW i \in 1..Len(issues),
         Claim(i) \/ MergePr(i) \/ AbandonPr(i) \/ CloseIssue(i) \/ ReopenIssue(i) \/ Block(i)
  PROVE  FeederInv'
<1>0. PICK r \in IssueRows : r = issues[i]
  BY RowTyped
<1>1. issues[i].labels \in SUBSET Labels /\ issues[i].prs \in SUBSET PrKinds
  BY <1>0 DEF IssueRows
<1>2. IssueSound(i, issues[i], lifecycle, refed, worker) /\ worker \in 0..Len(issues)
  BY DEF FeederInv, FeederRows
<1>3. CASE Claim(i)
  <2> DEFINE labels == (issues[i].labels \ {"ready"}) \cup {"in-progress"}
  <2>1. Labelled(i, labels, issues[i].prs) /\ worker' = i /\ "ready" \in issues[i].labels
    BY <1>3 DEF Claim, Has
  <2>2. labels \in SUBSET Labels /\ "lane" \in labels /\ "ready" \notin labels
        /\ "in-progress" \in labels
    BY <1>1, <1>2 DEF Labels, IssueSound
  <2> HIDE DEF labels
  <2> QED
    BY <1>1, <2>1, <2>2, LabelledKeeps
<1>4. CASE MergePr(i)
  BY <1>4, ClosedKeeps DEF MergePr
<1>5. CASE AbandonPr(i)
  BY <1>1, <1>2, <1>5, LabelledKeeps DEF AbandonPr, IssueSound
<1>6. CASE CloseIssue(i)
  BY <1>6, ClosedKeeps DEF CloseIssue
<1>7. CASE ReopenIssue(i)
  <2> DEFINE row == [r EXCEPT !.state = "open"]
  <2>1. /\ row \in IssueRows /\ row.slice = issues[i].slice
        /\ row.labels = issues[i].labels /\ row.prs = issues[i].prs
    BY <1>0 DEF IssueRows
  <2>2. /\ issues' = [issues EXCEPT ![i] = row]
        /\ UNCHANGED <<lifecycle, run, waiting, runs, worker, jules, done, refed>>
    BY <1>0, <1>7 DEF ReopenIssue
  <2> HIDE DEF row
  <2>3. IssueSound(i, row, lifecycle, refed, worker)
    BY <1>2, <2>1 DEF IssueSound
  <2> QED
    BY <2>1, <2>2, <2>3, IssueTouched
<1>8. CASE Block(i)
  <2> DEFINE labels == issues[i].labels \cup {"blocked"}
  <2>1. Labelled(i, labels, issues[i].prs) /\ worker' = worker
    BY <1>8 DEF Block
  <2>2. labels \in SUBSET Labels /\ \A l \in Labels \ {"blocked"} : l \in labels <=> l \in issues[i].labels
    BY <1>1 DEF Labels
  <2>3. \A l \in {"ready", "in-progress", "lane"} : l \in labels <=> l \in issues[i].labels
    BY <2>2 DEF Labels
  <2> HIDE DEF labels
  <2> QED
    BY <1>1, <1>2, <2>1, <2>2, <2>3, LabelledKeeps DEF IssueSound
<1> QED
  BY <1>3, <1>4, <1>5, <1>6, <1>7, <1>8

LEMMA ShiftEnds ==
  ASSUME FeederInv, OpenPr \/ GiveBack
  PROVE  FeederInv'
<1>0. worker \in 1..Len(issues) /\ worker' = 0
  <2>1. worker # 0 /\ worker' = 0
    BY DEF OpenPr, GiveBack
  <2>2. worker \in 0..Len(issues) /\ Len(issues) \in Nat
    BY DEF FeederInv, FeederRows
  <2> QED
    BY <2>1, <2>2
<1>1. PICK i \in 1..Len(issues) : i = worker
  BY <1>0
<1>2. /\ issues[i].labels \in SUBSET Labels /\ "in-progress" \in issues[i].labels
      /\ IssueSound(i, issues[i], lifecycle, refed, i) /\ i # 0
  <2>1. PICK r \in IssueRows : r = issues[i]
    BY RowTyped
  <2> QED
    BY <1>1, <2>1 DEF FeederInv, IssueSound, IssueRows
<1>3. PICK labels \in {issues[i].labels, issues[i].labels \ {"in-progress"},
                      (issues[i].labels \ {"in-progress"}) \cup {"ready"}},
            prs \in {issues[i].prs, issues[i].prs \cup {"night"}} :
        /\ Labelled(i, labels, prs)
        /\ i \notin refed /\ "ready" \in labels => "night" \notin prs /\ "in-progress" \notin labels
  <2>1. CASE OpenPr
    BY <1>1, <1>2, <2>1 DEF OpenPr, IssueSound
  <2>2. CASE GiveBack
    BY <1>1, <1>2, <2>2 DEF GiveBack, IssueSound, FoundPrs
  <2> QED
    BY <2>1, <2>2
<1>4. labels \in SUBSET Labels /\ "lane" \in labels /\ prs \in SUBSET PrKinds
  <2>1. issues[i].prs \in SUBSET PrKinds
    BY RowTyped DEF IssueRows
  <2> QED
    BY <1>2, <1>3, <2>1 DEF Labels, IssueSound, PrKinds
<1> QED
  BY <1>0, <1>1, <1>2, <1>3, <1>4, LabelledKeeps

\* Jules changes no label, and opens none of the night shift's pull requests.
LEMMA JulesKeeps ==
  ASSUME FeederInv, NEW i \in 1..Len(issues), NEW command \in {"none", "queued", "dispatched"},
         NEW prs \in SUBSET PrKinds, prs \ {"jules", "unnamed"} = issues[i].prs \ {"jules", "unnamed"},
         issues' = [issues EXCEPT ![i] = [@ EXCEPT !.prs = prs, !.command = command]],
         jules' \in {0, jules, i},
         UNCHANGED <<lifecycle, run, waiting, runs, worker, done, refed>>
  PROVE  FeederInv'
<1>0. PICK r \in IssueRows : r = issues[i]
  BY RowTyped
<1> DEFINE row == [r EXCEPT !.prs = prs, !.command = command]
<1>1. /\ row \in IssueRows /\ row.slice = issues[i].slice /\ row.labels = issues[i].labels
      /\ row.prs = prs
  BY <1>0 DEF IssueRows
<1>2. issues' = [issues EXCEPT ![i] = row]
  BY <1>0
<1> HIDE DEF row
<1>3. "night" \in row.prs <=> "night" \in issues[i].prs
  BY <1>1
<1>4. IssueSound(i, row, lifecycle, refed, worker)
  BY <1>1, <1>3 DEF FeederInv, IssueSound
<1> QED
  BY <1>1, <1>2, <1>3, <1>4, IssueTouched

LEMMA JulesSteps ==
  ASSUME FeederInv, EndSession \/ (\E i \in 1..Len(issues) : Launch(i) \/ DispatchCommand(i))
  PROVE  FeederInv'
<1>1. ASSUME NEW i \in 1..Len(issues) PROVE \E r \in IssueRows : r = issues[i]
  BY RowTyped
<1>2. CASE EndSession
  <2>1. jules \in 1..Len(issues)
    BY <1>2 DEF EndSession, FeederInv, FeederRows
  <2>2. PICK i \in 1..Len(issues) : i = jules
    BY <2>1
  <2>3. PICK r \in IssueRows : r = issues[i]
    BY <1>1
  <2>4. PICK opened \in {{}, {"jules"}, {"unnamed"}} :
          issues' = [issues EXCEPT ![i].prs = @ \cup opened]
    BY <1>2, <2>2 DEF EndSession
  <2> DEFINE prs == r.prs \cup opened
  <2>5. /\ prs \in SUBSET PrKinds /\ prs \ {"jules", "unnamed"} = r.prs \ {"jules", "unnamed"}
        /\ r.command \in {"none", "queued", "dispatched"}
    BY <2>4 DEF IssueRows, PrKinds
  <2>6. [r EXCEPT !.prs = prs] = [r EXCEPT !.prs = prs, !.command = r.command]
    BY DEF IssueRows
  <2>7. /\ issues' = [issues EXCEPT ![i] = [@ EXCEPT !.prs = prs, !.command = r.command]]
        /\ jules' = 0 /\ UNCHANGED <<lifecycle, run, waiting, runs, worker, done, refed>>
    BY <1>2, <2>3, <2>4, <2>6 DEF EndSession
  <2> HIDE DEF prs, IssueRows
  <2> QED
    BY <2>3, <2>5, <2>7, JulesKeeps
<1>3. ASSUME NEW i \in 1..Len(issues), Launch(i) \/ DispatchCommand(i) PROVE FeederInv'
  <2>1. PICK r \in IssueRows : r = issues[i]
    BY <1>1
  <2>2. /\ r.prs \in SUBSET PrKinds /\ r.command \in {"none", "queued", "dispatched"}
    BY DEF IssueRows
  <2>3. PICK command \in {r.command, "queued", "dispatched"} :
          issues' = [issues EXCEPT ![i] = [r EXCEPT !.command = command]]
    <3>1. issues \in Seq(IssueRows)
      BY DEF FeederInv, FeederRows
    <3>2. r = [r EXCEPT !.command = r.command]
      BY DEF IssueRows
    <3> HIDE DEF IssueRows
    <3>3. issues = [issues EXCEPT ![i] = r]
      BY <2>1, <3>1
    <3> QED
      BY <1>3, <2>1, <3>2, <3>3 DEF Launch, DispatchCommand
  <2>4. [r EXCEPT !.command = command] = [r EXCEPT !.prs = r.prs, !.command = command]
    BY DEF IssueRows
  <2>5. /\ issues' = [issues EXCEPT ![i] = [@ EXCEPT !.prs = r.prs, !.command = command]]
        /\ jules' \in {0, jules, i} /\ UNCHANGED <<lifecycle, run, waiting, runs, worker, done, refed>>
    BY <1>3, <2>1, <2>3, <2>4 DEF Launch, DispatchCommand
  <2>6. command \in {"none", "queued", "dispatched"}
    BY <2>2, <2>3
  <2> HIDE DEF IssueRows
  <2> QED
    BY <2>1, <2>2, <2>5, <2>6, JulesKeeps
<1> QED
  BY <1>2, <1>3
-----------------------------------------------------------------------------
\* The parts of a run's row.
LEMMA RunTyped ==
  ASSUME FeederInv
  PROVE  /\ run \in FeederRunRows /\ run.event \in EventRows /\ run.known \in SUBSET Slice
         /\ run.plan \in Seq(Slice) /\ run.at \in {"idle", "closing", "observing", "feeding", "relabelling"}
         /\ FeederRunSound(run, issues, lifecycle, done)
  BY DEF FeederInv, FeederRows, FeederRunRows

LEMMA BeginRunKeeps == ASSUME FeederInv, BeginRun PROVE FeederInv'
<1>1. PICK w \in waiting :
        run' = [at |-> "closing", event |-> w.event, known |-> w.known, plan |-> <<>>]
  BY DEF BeginRun
<1>2. /\ w.event \in EventRows /\ w.known \in SUBSET Slice
      /\ w.known \subseteq lifecycle /\ EventSound(w.event, issues, done)
  BY DEF FeederInv, FeederRows
<1> HIDE DEF EventRows
<1>3. run' \in FeederRunRows
  BY <1>1, <1>2 DEF FeederRunRows
<1>4. FeederRunSound(run', issues, lifecycle, done)
  BY <1>1, <1>2 DEF FeederRunSound, Fit
<1>5. /\ UNCHANGED <<issues, lifecycle, worker, jules, done, refed>>
      /\ runs' \in 0..MaxRuns /\ waiting' \subseteq waiting
  BY FeederAssumption DEF BeginRun, FeederInv, FeederRows
<1>6. lifecycle \subseteq done
  BY DEF FeederInv
<1> HIDE DEF FeederRunRows
<1> QED
  BY <1>3, <1>4, <1>5, <1>6, FeederTurns

\* A run that goes on or ends, and leaves the tables alone.
LEMMA RunGoesOn ==
  ASSUME FeederInv, run' \in FeederRunRows, FeederRunSound(run', issues, lifecycle, done),
         UNCHANGED <<issues, lifecycle, waiting, runs, worker, jules, done, refed>>
  PROVE  FeederInv'
  BY FeederTurns DEF FeederInv, FeederRows

LEMMA IdleSound ==
  ASSUME FeederInv
  PROVE  Idle \in FeederRunRows /\ \A recorded : FeederRunSound(Idle, issues, recorded, done)
<1>1. NoEvent \in EventRows /\ NoEvent.issue = 0 /\ NoEvent.reason = "none" /\ <<>> \in Seq(Slice)
  BY DEF NoEvent, EventRows
<1>2. Len(issues) \in Nat
  BY DEF FeederInv, FeederRows
<1> HIDE DEF EventRows
<1>3. /\ Idle \in FeederRunRows
      /\ Idle.known = {} /\ Idle.plan = <<>> /\ Idle.event = NoEvent /\ Idle.at = "idle"
  BY <1>1 DEF Idle, FeederRunRows
<1> QED
  BY <1>1, <1>2, <1>3 DEF FeederRunSound, Fit, EventSound

LEMMA PlanPromotionsKeeps == ASSUME FeederInv, PlanPromotions PROVE FeederInv'
<1> DEFINE plan == PlanUpTo[Len(Manifest)]
<1>1. run' = [run EXCEPT !.at = "feeding", !.event = NoEvent, !.plan = plan]
      /\ UNCHANGED <<issues, lifecycle, waiting, runs, worker, jules, done, refed>>
  BY DEF PlanPromotions
<1>2. Fit(plan, run.known) /\ plan \in Seq(Slice)
  BY PlanFits DEF Fit
<1> HIDE DEF plan
<1>3. NoEvent \in EventRows /\ NoEvent.issue = 0 /\ NoEvent.reason = "none"
  BY DEF NoEvent, EventRows
<1> HIDE DEF EventRows
<1>4. run' \in FeederRunRows /\ run'.at = "feeding" /\ run'.known = run.known /\ run'.plan = plan
      /\ run'.event = NoEvent
  BY <1>1, <1>2, <1>3, RunTyped DEF FeederRunRows
<1>5. Len(issues) \in Nat
  BY DEF FeederInv, FeederRows
<1>6. FeederRunSound(run', issues, lifecycle, done)
  BY <1>2, <1>3, <1>4, <1>5, RunTyped DEF FeederRunSound, EventSound
<1> HIDE DEF FeederRunRows
<1> QED
  BY <1>1, <1>4, <1>6, RunGoesOn

LEMMA TailFits ==
  ASSUME NEW plan, NEW known, Fit(plan, known), plan # <<>>
  PROVE  /\ Fit(Tail(plan), known) /\ Head(plan) \in Slice
         /\ ~ Manifest[Head(plan)].gated /\ Manifest[Head(plan)].needs \subseteq known
<1>1. plan \in Seq(Slice) /\ Len(plan) \in Nat /\ Len(plan) # 0 /\ 1 \in DOMAIN plan
      /\ Head(plan) = plan[1]
  BY DEF Fit
<1>2. Tail(plan) \in Seq(Slice) /\ Len(Tail(plan)) = Len(plan) - 1
      /\ \A k \in DOMAIN Tail(plan) : k + 1 \in DOMAIN plan /\ Tail(plan)[k] = plan[k + 1]
  BY <1>1
<1> QED
  BY <1>1, <1>2 DEF Fit

LEMMA CreateIssueKeeps == ASSUME FeederInv, CreateIssue PROVE FeederInv'
<1> DEFINE s == Head(run.plan)
           row == [slice |-> s, state |-> "open", labels |-> {"ready", "lane"},
                   prs |-> {}, command |-> "none"]
<1>1. /\ run.at = "feeding" /\ run.plan # <<>> /\ IssuesOf(s) = {}
      /\ issues' = Append(issues, row) /\ run' = [run EXCEPT !.plan = Tail(@)]
      /\ UNCHANGED <<lifecycle, waiting, runs, worker, jules, done, refed>>
  BY DEF CreateIssue
<1>2. /\ s \in Slice /\ ~ Manifest[s].gated /\ Manifest[s].needs \subseteq run.known
      /\ Fit(Tail(run.plan), run.known) /\ Tail(run.plan) \in Seq(Slice)
  BY <1>1, RunTyped, TailFits DEF FeederRunSound, Fit
<1>3. row \in IssueRows /\ row.slice = s /\ row.labels = {"ready", "lane"} /\ row.prs = {}
  BY <1>2 DEF IssueRows, Labels
<1> HIDE DEF s, row
<1>4. /\ run' \in FeederRunRows /\ run'.at = "feeding" /\ run'.known = run.known
      /\ run'.plan = Tail(run.plan) /\ run'.event = run.event
  <2> HIDE DEF EventRows
  <2> QED
    BY <1>1, <1>2, RunTyped DEF FeederRunRows
<1>5. issues \in Seq(IssueRows) /\ Len(issues) \in Nat /\ {worker, jules} \subseteq 0..Len(issues)
      /\ refed \subseteq 1..Len(issues)
  BY DEF FeederInv, FeederRows
<1> HIDE DEF IssueRows, FeederRunRows, EventRows
<1>6. /\ issues' \in Seq(IssueRows) /\ Len(issues') = Len(issues) + 1
      /\ issues'[Len(issues) + 1] = row
      /\ \A i \in 1..Len(issues) : issues'[i] = issues[i]
  BY <1>1, <1>3, <1>5
<1>7. \A i \in 1..Len(issues') : i \in 1..Len(issues) \/ i = Len(issues) + 1
  BY <1>5, <1>6
<1>8. FeederRows'
  <2>1. 0..Len(issues) \subseteq 0..Len(issues') /\ 1..Len(issues) \subseteq 1..Len(issues')
    BY <1>5, <1>6
  <2> QED
    BY <1>1, <1>4, <1>5, <1>6, <2>1 DEF FeederInv, FeederRows
<1>9. \A event : EventSound(event, issues, done) => EventSound(event, issues', done)
  BY <1>5, <1>6 DEF EventSound, NoEvent
<1>10. FeederRunSound(run', issues', lifecycle, done)
  BY <1>2, <1>4, <1>9, RunTyped DEF FeederRunSound
<1>11. \A w \in waiting : w.known \subseteq lifecycle /\ EventSound(w.event, issues', done)
  BY <1>9 DEF FeederInv
<1>12. \A i \in 1..Len(issues') : IssueSound(i, issues'[i], lifecycle, refed, worker)
  <2>1. IssueSound(Len(issues) + 1, row, lifecycle, refed, worker)
    <3>1. Len(issues) + 1 # worker /\ Manifest[s].needs \subseteq lifecycle
      BY <1>2, <1>5, RunTyped DEF FeederRunSound
    <3> QED
      BY <1>2, <1>3, <3>1 DEF IssueSound
  <2> QED
    BY <1>6, <1>7, <2>1 DEF FeederInv
<1>13. \A i, j \in 1..Len(issues') : issues'[i].slice = issues'[j].slice => i = j
  <2>1. \A i \in 1..Len(issues) : issues[i].slice # s
    BY <1>1, <1>5 DEF IssuesOf
  <2> QED
    BY <1>3, <1>6, <1>7, <2>1 DEF FeederInv
<1> QED
  BY <1>1, <1>8, <1>10, <1>11, <1>12, <1>13 DEF FeederInv
LEMMA ObserveIssueKeeps == ASSUME FeederInv, ObserveIssue PROVE FeederInv'
<1> DEFINE s == Head(run.plan)
<1>1. /\ run.at = "feeding" /\ run.plan # <<>> /\ IssuesOf(s) # {}
      /\ UNCHANGED <<issues, lifecycle, waiting, runs, worker, jules, done, refed>>
  BY DEF ObserveIssue
<1>2. Fit(Tail(run.plan), run.known) /\ Tail(run.plan) \in Seq(Slice)
  BY <1>1, RunTyped, TailFits DEF FeederRunSound, Fit
<1>3. PICK i \in 1..Len(issues) : /\ i = (CHOOSE j \in IssuesOf(s) : \A k \in IssuesOf(s) : k <= j)
                                 /\ i # 0
  <2>1. issues \in Seq(IssueRows) /\ Len(issues) \in Nat
    BY DEF FeederInv, FeederRows
  <2>2. PICK j \in 1..Len(issues) : IssuesOf(s) = {j}
    BY <1>1, <2>1 DEF IssuesOf, FeederInv
  <2>3. (CHOOSE x \in IssuesOf(s) : \A k \in IssuesOf(s) : k <= x) = j
    BY <2>2
  <2> QED
    BY <2>3
<1>4. run' = IF Relabelable(i) THEN [run EXCEPT !.at = "relabelling", !.event = [NoEvent EXCEPT !.issue = i]]
             ELSE [run EXCEPT !.plan = Tail(@)]
  BY <1>3 DEF ObserveIssue
<1> HIDE DEF s
<1>5. CASE ~ Relabelable(i)
  <2>1. /\ run' \in FeederRunRows /\ run'.at = "feeding" /\ run'.known = run.known
        /\ run'.plan = Tail(run.plan) /\ run'.event = run.event
    <3> HIDE DEF EventRows
    <3> QED
      BY <1>1, <1>2, <1>4, <1>5, RunTyped DEF FeederRunRows
  <2>2. FeederRunSound(run', issues, lifecycle, done)
    BY <1>2, <2>1, RunTyped DEF FeederRunSound
  <2> HIDE DEF FeederRunRows
  <2> QED
    BY <1>1, <2>1, <2>2, RunGoesOn
<1>6. CASE Relabelable(i)
  <2> DEFINE event == [NoEvent EXCEPT !.issue = i]
  <2>1. event \in EventRows /\ event.issue = i /\ event.reason = "none"
    BY DEF EventRows, NoEvent
  <2>2. run' = [run EXCEPT !.at = "relabelling", !.event = event]
    BY <1>4, <1>6
  <2> HIDE DEF event
  <2>3. /\ run' \in FeederRunRows /\ run'.at = "relabelling" /\ run'.known = run.known
        /\ run'.plan = run.plan /\ run'.event = event
    <3> HIDE DEF EventRows
    <3> QED
      BY <2>1, <2>2, RunTyped DEF FeederRunRows
  <2>4. "night" \notin issues[i].prs /\ issues[i].labels \cap {"ready", "in-progress"} = {}
    <3>1. "lane" \in issues[i].labels
      BY DEF FeederInv, IssueSound
    <3> QED
      BY <1>6, <3>1 DEF Relabelable, Has, FoundPrs
  <2>5. FeederRunSound(run', issues, lifecycle, done)
    <3>1. EventSound(event, issues, done)
      BY <1>3, <2>1 DEF EventSound
    <3>2. run.known \subseteq lifecycle /\ Fit(run.plan, run.known)
      BY RunTyped DEF FeederRunSound
    <3> HIDE DEF FeederRunRows, EventRows
    <3> QED
      BY <1>1, <1>3, <2>1, <2>3, <2>4, <3>1, <3>2 DEF FeederRunSound
  <2> HIDE DEF FeederRunRows
  <2> QED
    BY <1>1, <2>3, <2>5, RunGoesOn
<1> QED
  BY <1>5, <1>6

\* The run's relabelling, and its label for a close that was not a completion.
LEMMA FeederLabels ==
  ASSUME FeederInv, NEW i \in 1..Len(issues),
         issues' = [issues EXCEPT ![i].labels = @ \cup {"ready", "lane"}],
         UNCHANGED <<lifecycle, waiting, runs, worker, jules, done>>,
         refed' \in {refed, refed \cup {i}},
         i \in refed' \/ ("night" \notin issues[i].prs /\ "in-progress" \notin issues[i].labels),
         run' \in FeederRunRows, run'.at \in {"feeding", "observing"}, run'.known = run.known,
         Fit(run'.plan, run.known), EventSound(run'.event, issues, done)
  PROVE  FeederInv'
<1>0. PICK r \in IssueRows : r = issues[i]
  BY RowTyped
<1> DEFINE row == [r EXCEPT !.labels = @ \cup {"ready", "lane"}]
<1>1. /\ row \in IssueRows /\ row.slice = issues[i].slice /\ row.prs = issues[i].prs
      /\ row.labels = issues[i].labels \cup {"ready", "lane"}
  BY <1>0 DEF IssueRows, Labels
<1>2. issues \in Seq(IssueRows)
  BY DEF FeederInv, FeederRows
<1>3. issues' = [issues EXCEPT ![i] = row]
  BY <1>0
<1> HIDE DEF row, IssueRows
<1>4. /\ Len(issues') = Len(issues) /\ issues'[i] = row
      /\ \A j \in 1..Len(issues) : j # i => issues'[j] = issues[j]
  BY <1>1, <1>2, <1>3
<1>5. \A e : EventSound(e, issues, done) => EventSound(e, issues', done)
  BY <1>1, <1>4 DEF EventSound
<1>6. FeederRunSound(run', issues', lifecycle, done)
  BY <1>5, RunTyped DEF FeederRunSound
<1>7. IssueSound(i, row, lifecycle, refed', worker)
  BY <1>1 DEF FeederInv, IssueSound
<1>8. /\ done \subseteq Slice /\ refed' \subseteq 1..Len(issues)
      /\ waiting \subseteq [event : EventRows, known : SUBSET Slice]
      /\ \A w \in waiting : w.known \subseteq lifecycle /\ EventSound(w.event, issues, done)
  BY DEF FeederInv, FeederRows
<1> HIDE DEF FeederRunRows, EventRows
<1> QED
  BY <1>1, <1>3, <1>6, <1>7, <1>8, IssueChanges

LEMMA RelabelReadyKeeps == ASSUME FeederInv, RelabelReady PROVE FeederInv'
<1>1. /\ run.at = "relabelling"
      /\ issues' = [issues EXCEPT ![run.event.issue].labels = @ \cup {"ready", "lane"}]
      /\ run' = [run EXCEPT !.at = "feeding", !.event = NoEvent, !.plan = Tail(@)]
      /\ UNCHANGED <<lifecycle, waiting, runs, worker, jules, done, refed>>
  BY DEF RelabelReady, Queued
<1>2. /\ run.plan # <<>> /\ run.event.issue \in 0..Len(issues) /\ run.event.issue # 0
      /\ "night" \notin issues[run.event.issue].prs
      /\ issues[run.event.issue].labels \cap {"ready", "in-progress"} = {}
  BY <1>1, RunTyped DEF FeederRunSound, EventSound
<1>3. Fit(Tail(run.plan), run.known) /\ Tail(run.plan) \in Seq(Slice)
  BY <1>2, RunTyped, TailFits DEF FeederRunSound, Fit
<1>4. Len(issues) \in Nat
  BY DEF FeederInv, FeederRows
<1>5. PICK i \in 1..Len(issues) : i = run.event.issue
  BY <1>2, <1>4
<1>6. NoEvent \in EventRows /\ EventSound(NoEvent, issues, done)
  BY <1>4 DEF NoEvent, EventRows, EventSound
<1>7. /\ run' \in FeederRunRows /\ run'.at = "feeding" /\ run'.known = run.known
      /\ run'.plan = Tail(run.plan) /\ run'.event = NoEvent
  <2> HIDE DEF EventRows
  <2> QED
    BY <1>1, <1>3, <1>6, RunTyped DEF FeederRunRows
<1> HIDE DEF FeederRunRows
<1> QED
  BY <1>1, <1>2, <1>3, <1>5, <1>6, <1>7, FeederLabels

LEMMA HandleCloseKeeps == ASSUME FeederInv, HandleClose PROVE FeederInv'
<1> DEFINE i == run.event.issue
           credited == {issues[j].slice : j \in {i} \ {0}}
<1>1. UNCHANGED <<waiting, runs, worker, jules, done>> /\ run.at = "closing"
  BY DEF HandleClose
<1>2. i \in 0..Len(issues) /\ Len(issues) \in Nat
  BY RunTyped DEF FeederRunSound, EventSound, FeederInv, FeederRows
<1>3. CASE /\ run' = [run EXCEPT !.at = "observing"] /\ UNCHANGED <<issues, lifecycle, refed>>
  <2>1. /\ run' \in FeederRunRows /\ run'.at = "observing" /\ run'.known = run.known
        /\ run'.plan = run.plan /\ run'.event = run.event
    <3> HIDE DEF EventRows
    <3> QED
      BY <1>3, RunTyped DEF FeederRunRows
  <2>2. FeederRunSound(run', issues, lifecycle, done)
    BY <2>1, RunTyped DEF FeederRunSound
  <2> HIDE DEF FeederRunRows
  <2> QED
    BY <1>1, <1>3, <2>1, <2>2, RunGoesOn
<1>4. CASE /\ Creditable(run.event) /\ lifecycle' = Pushed(credited) /\ UNCHANGED <<issues, refed>>
           /\ run' = IF credited \subseteq Pushed(credited)
                     THEN [run EXCEPT !.at = "observing", !.known = @ \cup credited] ELSE Idle
  <2>1. credited \subseteq done /\ done \subseteq Slice
    BY <1>4, RunTyped DEF Creditable, FeederRunSound, EventSound, FeederInv, FeederRows
  <2>2. /\ lifecycle \subseteq lifecycle' /\ lifecycle' \subseteq done
    BY <1>4, <2>1 DEF Pushed, FeederInv
  <2> HIDE DEF credited, i
  <2>3. CASE credited \subseteq Pushed(credited)
    <3>1. run' = [run EXCEPT !.at = "observing", !.known = @ \cup credited]
      BY <1>4, <2>3
    <3>2. run.known \cup credited \in SUBSET Slice
      BY <2>1, RunTyped
    <3>3. /\ run' \in FeederRunRows /\ run'.at = "observing" /\ run'.known = run.known \cup credited
          /\ run'.plan = run.plan /\ run'.event = run.event
      <4> HIDE DEF EventRows
      <4> QED
        BY <3>1, <3>2, RunTyped DEF FeederRunRows
    <3>4. FeederRunSound(run', issues, lifecycle', done)
      <4>1. run'.known \subseteq lifecycle'
        BY <1>4, <2>2, <2>3, <3>3, RunTyped DEF FeederRunSound
      <4> QED
        BY <3>3, <4>1, RunTyped DEF FeederRunSound, Fit
    <3>5. runs \in 0..MaxRuns
      BY DEF FeederInv, FeederRows
    <3> HIDE DEF FeederRunRows
    <3> QED
      BY <1>1, <1>4, <2>2, <3>3, <3>4, <3>5, FeederTurns
  <2>4. CASE ~ (credited \subseteq Pushed(credited))
    <3>1. run' = Idle /\ runs \in 0..MaxRuns
      BY <1>4, <2>4 DEF FeederInv, FeederRows
    <3> HIDE DEF FeederRunRows
    <3> QED
      BY <1>1, <1>4, <2>2, <3>1, IdleSound, FeederTurns
  <2> QED
    BY <2>3, <2>4
<1>5. CASE /\ run.event # NoEvent
           /\ issues' = [issues EXCEPT ![i].labels = @ \cup {"ready", "lane"}]
           /\ refed' = refed \cup {i} /\ run' = [run EXCEPT !.at = "observing"]
           /\ UNCHANGED lifecycle
  <2>1. i # 0 /\ i \in 1..Len(issues)
    BY <1>2, <1>5, RunTyped DEF FeederRunSound, EventSound
  <2>2. PICK k \in 1..Len(issues) : k = i
    BY <2>1
  <2>3. /\ run' \in FeederRunRows /\ run'.at = "observing" /\ run'.known = run.known
        /\ run'.plan = run.plan /\ run'.event = run.event
    <3> HIDE DEF EventRows
    <3> QED
      BY <1>5, RunTyped DEF FeederRunRows
  <2>4. Fit(run'.plan, run.known) /\ EventSound(run'.event, issues, done)
    BY <2>3, RunTyped DEF FeederRunSound
  <2> HIDE DEF FeederRunRows, credited
  <2>5. issues' = [issues EXCEPT ![k].labels = @ \cup {"ready", "lane"}] /\ refed' = refed \cup {k}
    BY <1>5, <2>2
  <2> QED
    BY <1>1, <1>5, <2>3, <2>4, <2>5, FeederLabels
<1> QED
  BY <1>3, <1>4, <1>5 DEF HandleClose, Queued

LEMMA TimerKeeps == ASSUME FeederInv, Timer PROVE FeederInv'
<1>1. /\ waiting' = {[event |-> NoEvent, known |-> lifecycle]}
      /\ UNCHANGED <<issues, lifecycle, run, runs, worker, jules, done, refed>>
  BY DEF Timer, Triggered
<1>2. NoEvent \in EventRows /\ EventSound(NoEvent, issues, done)
  BY DEF NoEvent, EventRows, EventSound, FeederInv, FeederRows
<1> HIDE DEF EventRows
<1>3. waiting' \subseteq [event : EventRows, known : SUBSET Slice]
  BY <1>1, <1>2 DEF FeederInv, FeederRows
<1>4. \A w \in waiting' : w.known \subseteq lifecycle /\ EventSound(w.event, issues, done)
  BY <1>1, <1>2
<1> QED
  BY <1>1, <1>3, <1>4 DEF FeederInv, FeederRows

LEMMA FeederStep == FeederInv /\ [FeederNext]_feederVars => FeederInv'
<1> SUFFICES ASSUME FeederInv, [FeederNext]_feederVars PROVE FeederInv'
  OBVIOUS
<1>1. CASE UNCHANGED feederVars
  BY <1>1 DEF feederVars, FeederInv, FeederRows
<1>2. CASE EndRun \/ RunFails
  <2>1. run' = Idle /\ UNCHANGED <<issues, lifecycle, waiting, runs, worker, jules, done, refed>>
    BY <1>2 DEF EndRun, RunFails
  <2> QED
    BY <2>1, IdleSound, RunGoesOn
<1>3. CASE \E i \in DOMAIN issues : Claim(i) \/ MergePr(i) \/ AbandonPr(i) \/ CloseIssue(i)
                                     \/ ReopenIssue(i) \/ Block(i)
  <2>1. DOMAIN issues = 1..Len(issues)
    BY DEF FeederInv, FeederRows
  <2> QED
    BY <1>3, <2>1, ShiftAndOwnerKeep
<1>4. CASE EndSession \/ \E i \in DOMAIN issues : Launch(i) \/ DispatchCommand(i)
  <2>1. DOMAIN issues = 1..Len(issues)
    BY DEF FeederInv, FeederRows
  <2> QED
    BY <1>4, <2>1, JulesSteps
<1> QED
  BY <1>1, <1>2, <1>3, <1>4, BeginRunKeeps, HandleCloseKeeps, PlanPromotionsKeeps, CreateIssueKeeps,
     ObserveIssueKeeps, RelabelReadyKeeps, TimerKeeps, ShiftEnds DEF FeederNext

\* The feeder's rows are typed.
LEMMA FeederTyped == FeederInv => FeederTypeOK
<1> SUFFICES ASSUME FeederInv PROVE FeederTypeOK
  OBVIOUS
<1>1. run \in [at : {"idle", "closing", "observing", "feeding", "relabelling"},
              event : Events, known : SUBSET Slice, plan : Seq(Slice)]
  <2>1. run.event \in Events
    BY RunTyped DEF FeederRunSound, EventSound, EventRows, Events
  <2> HIDE DEF Events, EventRows
  <2> QED
    BY <2>1, RunTyped DEF FeederRunRows
<1>2. waiting \subseteq [event : Events, known : SUBSET Slice]
  <2>1. \A w \in waiting : w.event \in Events
    BY DEF FeederInv, FeederRows, EventSound, EventRows, Events
  <2> HIDE DEF Events, EventRows
  <2> QED
    BY <2>1 DEF FeederInv, FeederRows
<1>3. DOMAIN issues = 1..Len(issues)
  BY DEF FeederInv, FeederRows
<1> QED
  BY <1>1, <1>2, <1>3 DEF FeederInv, FeederRows, FeederTypeOK, IssueRows, Labels, PrKinds

\* Every variable of the feeder keeps its type.
THEOREM FeederTypes == FeederSpec => []FeederTypeOK
  BY FeederTyped, InitFeederInv, FeederStep, PTL DEF FeederSpec

\* A slice has one issue, which is made only when what the slice needs is recorded as done;
\* credit is of completed closes; and what waits in the ready queue is not the night
\* shift's work, unless its close put it back there; it may be Jules'.  The plan fits by induction over the manifest.
THEOREM SlicesAreFedOnce == FeederSpec => []SlicesFedOnce
<1>1. FeederInv => SlicesFedOnce
  <2> SUFFICES ASSUME FeederInv PROVE SlicesFedOnce
    OBVIOUS
  <2>1. DOMAIN issues = 1..Len(issues)
    BY DEF FeederInv, FeederRows
  <2>2. ASSUME NEW s \in Slice PROVE Cardinality(IssuesOf(s)) <= 1
    <3>1. CASE IssuesOf(s) = {}
      BY <3>1, FS_EmptySet
    <3>2. CASE IssuesOf(s) # {}
      <4>1. PICK i : IssuesOf(s) = {i}
        BY <2>1, <3>2 DEF IssuesOf, FeederInv
      <4>2. Cardinality({i}) = 1
        BY FS_Singleton
      <4> QED
        BY <4>1, <4>2
    <3> QED
      BY <3>1, <3>2
  <2> QED
    BY <2>1, <2>2 DEF FeederInv, IssueSound, SlicesFedOnce, SliceOf, Has
<1> QED
  BY <1>1, InitFeederInv, FeederStep, PTL DEF FeederSpec
=============================================================================
