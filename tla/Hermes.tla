-------------------------------- MODULE Hermes --------------------------------
(***************************************************************************)
(* The Hermes manager: manager/hermesManager.js (decide, completeDecision),*)
(* authorityMatrix.js, postgresHermesDecisionStore.js (an append-only      *)
(* table, newest record first) and hermesJobBridge.js, which queues the    *)
(* episode of a production.start decision.  Each request is a process;     *)
(* they interleave at every await, and any of them may fail there.         *)
(***************************************************************************)
EXTENDS Episodes, Sequences

CONSTANTS
  Deciders, Executors, Completers, \* requests to decide, to execute, to complete
  Kinds  \* of actions asked for: "start", "foreign" (a production.start for
         \* another Director's channel), "other" (autonomous, not executable),
         \* "approved", "unapproved" (owner-policy), "prohibited" (or unknown)

ASSUME HermesAssumption ==
  /\ Kinds \subseteq {"start", "foreign", "other", "approved", "unapproved", "prohibited"}
  /\ IsFiniteSet(Deciders)

VARIABLES
  decisions, \* hermes_decisions, by record_seq: [number, kind, episode, outcome]
  queuedEvidence, \* production_queued events: the decisions that queued
  decider, executor, completer   \* [request -> where it is and what it holds]

hermesVars == <<decisions, queuedEvidence, decider, executor, completer>>

Outcomes == {"EXECUTING", "EXECUTED", "FAILED", "BLOCKED", "OWNER_APPROVAL_REQUIRED"}
Numbers == 1..Cardinality(Deciders)
Records == [number : Numbers, kind : Kinds, episode : Episodes, outcome : Outcomes]
Requested == [number : Numbers, kind : Kinds, episode : Episodes]

NoRecord == [number |-> 0]
Waiting == [at |-> "idle", record |-> NoRecord, verdict |-> "none"]

HermesInit ==
  /\ decisions = <<>> /\ queuedEvidence = {}
  /\ decider = [d \in Deciders |-> Waiting]
  /\ executor = [x \in Executors |-> Waiting]
  /\ completer = [c \in Completers |-> Waiting]

-----------------------------------------------------------------------------
(* decide                                                                  *)

\* nextDecisionNumber: the lock is gone before the record is appended.
NextNumber ==
  1 + (CHOOSE n \in {0} \cup {decisions[i].number : i \in DOMAIN decisions} :
         \A i \in DOMAIN decisions : decisions[i].number <= n)

NumberDecision(d) ==
  /\ decider[d].at = "idle"
  /\ \E k \in Kinds, e \in Episodes :
       decider' = [decider EXCEPT ![d] =
         [Waiting EXCEPT !.at = "numbered",
                         !.record = [number |-> NextNumber, kind |-> k, episode |-> e]]]
  /\ UNCHANGED <<decisions, queuedEvidence, executor, completer, releases>>

\* A mutant of DecidedOutcome: owner-policy actions need no approval.
OutcomeUnapproved(kind) == IF kind = "prohibited" THEN "BLOCKED" ELSE "EXECUTING"
\* The authority matrix, canHermesExecute and decide's three endings.
DecidedOutcome(kind) ==
  CASE kind = "prohibited" -> "BLOCKED"
    [] kind = "unapproved" -> "OWNER_APPROVAL_REQUIRED"
    [] OTHER -> "EXECUTING"

WithOutcome(r, o) ==
  [number |-> r.number, kind |-> r.kind, episode |-> r.episode, outcome |-> o]

AppendDecision(d) ==
  /\ decider[d].at = "numbered"
  /\ decisions' = Append(decisions, WithOutcome(decider[d].record,
                                                DecidedOutcome(decider[d].record.kind)))
  /\ decider' = [decider EXCEPT ![d].at = "done"]
  /\ UNCHANGED <<queuedEvidence, executor, completer, releases>>

-----------------------------------------------------------------------------
(* completeDecision, by the owner or by the bridge.                        *)

Newest(n) ==
  LET mine == {i \in DOMAIN decisions : decisions[i].number = n}
  IN decisions[CHOOSE i \in mine : \A k \in mine : k <= i]

\* A mutant of Completable: any record may be completed again.
CompletableAnyway(n) == \E i \in DOMAIN decisions : decisions[i].number = n
Completable(n) ==
  /\ \E i \in DOMAIN decisions : decisions[i].number = n
  /\ Newest(n).outcome = "EXECUTING"

\* A success comes with a receipt to verify; a failure needs none.
BeginComplete(c) ==
  /\ completer[c].at = "idle"
  /\ \E n \in Numbers, v \in {"claimed", "failed"} :
       /\ Completable(n)
       /\ completer' = [completer EXCEPT ![c] =
            [at |-> "read", record |-> Newest(n), verdict |-> v]]
  /\ UNCHANGED <<decisions, queuedEvidence, decider, executor, releases>>

\* fetchEvidence: some event of the ledger, of whatever kind, has the receipt
\* that was given.
VerifyReceipt(c) ==
  /\ completer[c].at = "read" /\ completer[c].verdict = "claimed"
  /\ \E v \in {"verified", "failed"} : completer' = [completer EXCEPT ![c].verdict = v]
  /\ UNCHANGED <<decisions, queuedEvidence, decider, executor, releases>>

\* The base of the record is the one that was read.
AppendCompletion(c) ==
  /\ completer[c].at = "read" /\ completer[c].verdict # "claimed"
  /\ decisions' = Append(decisions, WithOutcome(completer[c].record,
                    IF completer[c].verdict = "verified" THEN "EXECUTED" ELSE "FAILED"))
  /\ completer' = [completer EXCEPT ![c].at = "done"]
  /\ UNCHANGED <<queuedEvidence, decider, executor, releases>>

-----------------------------------------------------------------------------
(* executeHermesDecision                                                   *)

MoveExecutor(x, p) == executor' = [executor EXCEPT ![x].at = p]

\* Anything but EXECUTING is refused, and nothing is recorded.
BeginExecute(x) ==
  /\ executor[x].at = "idle"
  /\ \E n \in Numbers :
       /\ Completable(n)
       /\ executor' = [executor EXCEPT ![x] =
            [at |-> "read", record |-> Newest(n), verdict |-> "none"]]
  /\ UNCHANGED <<decisions, queuedEvidence, decider, completer, releases>>

Queueable(kind) == kind = "start"

\* Not executable, another Director's channel; or no channel, a disabled agent,
\* a schedule that cannot be read.
RefuseExecution(x) ==
  /\ executor[x].at = "read" /\ MoveExecutor(x, "failing")
  /\ UNCHANGED <<decisions, queuedEvidence, decider, completer, releases>>

QueueProduction(x) ==
  /\ executor[x].at = "read" /\ Queueable(executor[x].record.kind)
  /\ CreateReleaseWithJob(executor[x].record.episode, <<"hermes", executor[x].record.number, 0>>,
       MoveExecutor(x, "queued"), MoveExecutor(x, "failing"), MoveExecutor(x, "failing"))
  /\ UNCHANGED <<decisions, queuedEvidence, decider, completer>>

\* The decision itself stays EXECUTING: its completion is another request.
RecordQueued(x) ==
  /\ executor[x].at = "queued"
  /\ queuedEvidence' = queuedEvidence \cup {executor[x].record.number}
  /\ MoveExecutor(x, "done")
  /\ UNCHANGED <<decisions, decider, completer, releases>>

\* recordFailure: completeDecision, which reads the newest record again.
ReadForFailure(x) ==
  /\ executor[x].at = "failing" /\ Completable(executor[x].record.number)
  /\ executor' = [executor EXCEPT ![x].at = "recording",
                                  ![x].record = Newest(executor[x].record.number)]
  /\ UNCHANGED <<decisions, queuedEvidence, decider, completer, releases>>

RecordFailure(x) ==
  /\ executor[x].at = "recording"
  /\ decisions' = Append(decisions, WithOutcome(executor[x].record, "FAILED"))
  /\ MoveExecutor(x, "done")
  /\ UNCHANGED <<queuedEvidence, decider, completer, releases>>

RequestDies ==
  \/ \E d \in Deciders : /\ decider[d].at = "numbered"
                         /\ decider' = [decider EXCEPT ![d].at = "done"]
                         /\ UNCHANGED <<decisions, queuedEvidence, executor, completer, releases>>
  \/ \E x \in Executors : /\ executor[x].at \notin {"idle", "done"} /\ MoveExecutor(x, "done")
                          /\ UNCHANGED <<decisions, queuedEvidence, decider, completer, releases>>

HermesNext ==
  \/ \E d \in Deciders : NumberDecision(d) \/ AppendDecision(d)
  \/ \E c \in Completers : BeginComplete(c) \/ VerifyReceipt(c) \/ AppendCompletion(c)
  \/ \E x \in Executors : \/ BeginExecute(x) \/ RefuseExecution(x) \/ QueueProduction(x)
                          \/ RecordQueued(x) \/ ReadForFailure(x) \/ RecordFailure(x)
  \/ RequestDies

HermesSpec == HermesInit /\ releases = {} /\ [][HermesNext]_<<hermesVars, releases>>

-----------------------------------------------------------------------------
(* Properties                                                              *)

HermesTypeOK ==
  /\ \A i \in DOMAIN decisions : decisions[i] \in Records
  /\ queuedEvidence \subseteq Numbers
  /\ \A d \in Deciders : /\ decider[d].at \in {"idle", "numbered", "done"}
                         /\ decider[d].record \in Requested \cup {NoRecord}
  /\ \A x \in Executors : /\ executor[x].at \in {"idle", "read", "failing", "recording", "queued",
                                                 "done"}
                          /\ executor[x].record \in Records \cup {NoRecord}
  /\ \A c \in Completers : /\ completer[c].at \in {"idle", "read", "done"}
                           /\ completer[c].verdict \in {"none", "claimed", "failed", "verified"}

\* Whatever is decided, executed and completed at once, and whichever decisions
\* share a number: a record leaves EXECUTING only for an action that is
\* autonomous or was approved, and each episode Hermes planned goes back to an
\* EXECUTING production.start of the channel's own Director with that episode,
\* and no event reports an episode that was not planned.
HermesKeepsToAuthority ==
  /\ \A i \in DOMAIN decisions :
       decisions[i].outcome \in {"EXECUTED", "FAILED"} =>
         \E k \in 1..(i - 1) :
           /\ decisions[k] = WithOutcome(decisions[i], "EXECUTING")
           /\ decisions[k].kind \notin {"unapproved", "prohibited"}
  /\ \A r \in releases : r.origin[1] = "hermes" =>
       \E i \in DOMAIN decisions :
         /\ decisions[i].number = r.origin[2] /\ decisions[i].episode = r.episode
         /\ decisions[i].kind = "start" /\ decisions[i].outcome = "EXECUTING"
  /\ \A n \in queuedEvidence : \E r \in releases : r.origin = <<"hermes", n, 0>>
===============================================================================
