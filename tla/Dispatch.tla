------------------------------- MODULE Dispatch -------------------------------
(***************************************************************************)
(* From a waiting task to an authorized provider call: admission           *)
(* (providers/dispatchAdmission.js), the admission lifecycle               *)
(* (postgresDispatchAdmissionLifecycle.js) and the execution permit        *)
(* (postgresDispatchExecutionPermit.js) over one checkpoint per task, with *)
(* the quota ledger that other demand uses too.                            *)
(*                                                                         *)
(* Each operation is one transaction that locks the quota row, the         *)
(* reservation and the checkpoint in this order, and requires the content  *)
(* hash its caller has read.  A delayed or repeated call whose hash is not *)
(* the checkpoint's is refused or answered without a write, and one whose  *)
(* hash is (again) the checkpoint's does what a new call would do; so late *)
(* calls need to be in the model only where sending one changes what its   *)
(* sender believes: a worker that gives up what it holds.                  *)
(*                                                                         *)
(* Identifiers are hashes of their parents' and of the caller's keys: a    *)
(* permit key stands for leaseOwner and permitKey, a worker for            *)
(* intentLeaseOwner, intentClaimKey and authorizationKey.                  *)
(***************************************************************************)
EXTENDS ProviderQuota

CONSTANTS
  Tasks,         \* dispatch tasks, each with one checkpoint row
  DispatchKeys,  \* keys "<task>:dispatch-admission:<provider>"; other keys
                 \* belong to ProviderConfigurationRouter
  TaskOf,        \* the task of a dispatch key
  PermitKeys, IntentKeys, Workers,
  Terms,         \* lease terms, in ticks
  Stamps,        \* values of intentClaimedAt
  None

ASSUME DispatchAssumption ==
  /\ DispatchKeys \subseteq Keys
  /\ TaskOf \in [DispatchKeys -> Tasks]
  /\ Terms \subseteq Nat \ {0}
  /\ None \notin Tasks \cup DispatchKeys \cup PermitKeys \cup IntentKeys \cup Workers \cup Stamps

VARIABLES
  checkpoint,  \* [task -> what of checkpoint_record.data tells contents apart]
  left,        \* [task -> time to its permit's, claim's and authorization's expiry]
  held,        \* auxiliary: the claim or authorization a worker believes it holds
  givingUp     \* [task -> the content the last cancelling call expects]

dispatchVars == <<checkpoint, left, held, givingUp>>
vars == <<ledger, dispatchVars>>

-----------------------------------------------------------------------------
States == {"absent", "WAITING_FOR_QUOTA", "DISPATCH_ADMITTED", "DISPATCH_PERMITTED",
           "DISPATCH_EXECUTION_INTENT", "DISPATCH_INTENT_CLAIMED",
           "DISPATCH_CALL_AUTHORIZED"}
Claimed == {"DISPATCH_INTENT_CLAIMED", "DISPATCH_CALL_AUTHORIZED"}

\* Who calls: the reservation's key and the keys its identifiers are made of.
Scopes == [key : DispatchKeys, permit : PermitKeys, intent : IntentKeys, worker : Workers]

\* reservationId, permitId, executionIntentId, intentClaimId with intentClaimedAt.
Content(state, key, permit, intent, worker, claimedAt) ==
  [state |-> state, key |-> key, permit |-> permit, intent |-> intent,
   worker |-> worker, claimedAt |-> claimedAt]
Bare(state, key) == Content(state, key, None, None, None, None)
Waiting == Bare("WAITING_FOR_QUOTA", None)

Lefts(permit, claim, call) == [permit |-> permit, claim |-> claim, call |-> call]
NoLefts == Lefts(0, 0, 0)

Hold(task, what, time) == [task |-> task, what |-> what, left |-> time]
NoHold == Hold(None, "nothing", 0)

Write(t, content, lefts) ==
  /\ checkpoint' = [checkpoint EXCEPT ![t] = content]
  /\ left' = [left EXCEPT ![t] = lefts]

In(t, state) == checkpoint[t].state = state

-----------------------------------------------------------------------------
DispatchInit ==
  /\ checkpoint = [t \in Tasks |-> Bare("absent", None)]
  /\ left = [t \in Tasks |-> NoLefts]
  /\ held = [w \in Workers |-> NoHold]
  /\ givingUp = [t \in Tasks |-> Bare("absent", None)]

Init == QuotaInit /\ DispatchInit

\* persist...WaitingForQuota: an upsert whatever the row holds.  Nobody is told,
\* so a holder keeps its belief; held no longer follows it.
PersistWaiting(t) ==
  /\ Write(t, Waiting, NoLefts)
  /\ held' = [w \in Workers |-> IF held[w].task = t THEN NoHold ELSE held[w]]
  /\ UNCHANGED <<ledger, givingUp>>

\* reserveApprovedFreeDispatchAdmission judges the checkpoint its caller read
\* some time ago; it fails after the ledger's answer if that is not "reserved".
Admit(k) ==
  /\ ~In(TaskOf[k], "absent")
  /\ Reserve(k)
  /\ UNCHANGED dispatchVars

\* ProviderConfigurationRouter.execute: a reservation of its own around a call.
OtherDemand(k) ==
  /\ Reserve(k) \/ Commit(k) \/ Release(k)
  /\ UNCHANGED dispatchVars

ClaimAdmission(k) ==
  LET t == TaskOf[k] IN
  /\ reservation[k] = "reserved"
  /\ In(t, "WAITING_FOR_QUOTA")
  /\ Write(t, Bare("DISPATCH_ADMITTED", k), NoLefts)
  /\ UNCHANGED <<ledger, held, givingUp>>

\* A mutant: whatever the task was admitted for, and however far it has got.
ReleasableAnyTime(k) == ~In(TaskOf[k], "absent")
\* The checkpoint waits, or was admitted for this reservation and no more.
Releasable(k) ==
  \/ In(TaskOf[k], "WAITING_FOR_QUOTA")
  \/ In(TaskOf[k], "DISPATCH_ADMITTED") /\ checkpoint[TaskOf[k]].key = k

\* A mutant: the reservation row is released, its unit is not returned.
ReturnNothing(k) ==
  /\ reservation' = [reservation EXCEPT ![k] = "released"]
  /\ UNCHANGED reserved
\* A mutant: the unit is returned twice.
ReturnTwice(k) ==
  /\ reserved' = [reserved EXCEPT ![RowOf[k]] = reserved[RowOf[k]] - 2]
  /\ reservation' = [reservation EXCEPT ![k] = "released"]
\* The lifecycle's own UPDATEs of the ledger.
ReturnUnit(k) ==
  /\ reserved[RowOf[k]] >= 1
  /\ reserved' = [reserved EXCEPT ![RowOf[k]] = reserved[RowOf[k]] - 1]
  /\ reservation' = [reservation EXCEPT ![k] = "released"]

\* Both tables and the checkpoint in one transaction; a released one again only
\* writes the checkpoint.
ReleaseAdmission(k) ==
  /\ reservation[k] \in {"reserved", "released"}
  /\ Releasable(k)
  /\ \/ reservation[k] = "reserved" /\ ReturnUnit(k)
     \/ reservation[k] = "released" /\ UNCHANGED <<reserved, reservation>>
  /\ Write(TaskOf[k], Waiting, NoLefts)
  /\ UNCHANGED <<limit, usage, route, held, givingUp>>

-----------------------------------------------------------------------------
\* What every permit operation asks first.
ApprovedFree(k) == reservation[k] = "reserved" /\ route[RowOf[k]].tier = "free"

\* The operation is for this checkpoint: admitted by the scope's reservation.
Addressed(s, state) ==
  /\ ApprovedFree(s.key)
  /\ In(TaskOf[s.key], state)
  /\ checkpoint[TaskOf[s.key]].key = s.key

HasPermit(s) == checkpoint[TaskOf[s.key]].permit = s.permit
HasIntent(s) == HasPermit(s) /\ checkpoint[TaskOf[s.key]].intent = s.intent
HasClaim(s) == HasIntent(s) /\ checkpoint[TaskOf[s.key]].worker = s.worker

LeftOf(s) == left[TaskOf[s.key]]

Ready(s) == Content("DISPATCH_EXECUTION_INTENT", s.key, s.permit, s.intent, None, None)

Issue(s, term) ==
  /\ Addressed(s, "DISPATCH_ADMITTED")
  /\ Write(TaskOf[s.key], Content("DISPATCH_PERMITTED", s.key, s.permit, None, None, None),
           Lefts(term, 0, 0))
  /\ UNCHANGED <<ledger, held, givingUp>>

Withdraw(s) ==
  /\ Addressed(s, "DISPATCH_PERMITTED")
  /\ HasPermit(s)
  /\ Write(TaskOf[s.key], Bare("DISPATCH_ADMITTED", s.key), NoLefts)
  /\ UNCHANGED <<ledger, held, givingUp>>

Revoke(s) == Withdraw(s)
ReclaimExpired(s) == LeftOf(s).permit = 0 /\ Withdraw(s)

Redeem(s) ==
  /\ Addressed(s, "DISPATCH_PERMITTED")
  /\ HasPermit(s)
  /\ LeftOf(s).permit > 0
  /\ Write(TaskOf[s.key], Ready(s), NoLefts)
  /\ UNCHANGED <<ledger, held, givingUp>>

-----------------------------------------------------------------------------
\* The answer may be lost.  A worker relies on the last answer it asked for: an
\* authorization uses its claim up, so an asker no longer counts on the claim.
Hear(w, hold) == \E heard \in {hold, NoHold} : held' = [held EXCEPT ![w] = heard]

\* intentClaimedAt differs from that of the claim that is being given up.
ClaimIntent(s, term, stamp) ==
  /\ Addressed(s, "DISPATCH_EXECUTION_INTENT")
  /\ HasIntent(s)
  /\ givingUp[TaskOf[s.key]].claimedAt # stamp
  /\ Write(TaskOf[s.key],
           Content("DISPATCH_INTENT_CLAIMED", s.key, s.permit, s.intent, s.worker, stamp),
           Lefts(0, term, 0))
  /\ Hear(s.worker, Hold(TaskOf[s.key], "claim", term))
  /\ UNCHANGED <<ledger, givingUp>>

\* A mutant: an authorization may end after its claim.
WithinAnyTerm(s, term) == LeftOf(s).claim > 0
WithinClaim(s, term) == LeftOf(s).claim > 0 /\ term <= LeftOf(s).claim

AuthorizeCall(s, term) ==
  LET t == TaskOf[s.key] IN
  /\ Addressed(s, "DISPATCH_INTENT_CLAIMED")
  /\ HasClaim(s)
  /\ WithinClaim(s, term)
  /\ Write(t, Content("DISPATCH_CALL_AUTHORIZED", s.key, s.permit, s.intent, s.worker,
                      checkpoint[t].claimedAt),
           Lefts(0, left[t].claim, term))
  /\ Hear(s.worker, Hold(t, "call", term))
  /\ UNCHANGED <<ledger, givingUp>>

\* A mutant: the identifiers are compared, the hash is not.
ExpectedIds(t) ==
  [givingUp[t] EXCEPT !.claimedAt = None] = [checkpoint[t] EXCEPT !.claimedAt = None]
\* The content the cancelling call expects is the checkpoint's.
Expected(t) == givingUp[t] = checkpoint[t]

\* A claim or an authorization asked for again with a stale hash is answered
\* as the checkpoint stands, unless it has expired.  No worker asks again for
\* what it is giving up.
HearAgain(s) ==
  LET t == TaskOf[s.key] IN
  /\ ApprovedFree(s.key)
  /\ checkpoint[t].key = s.key
  /\ HasClaim(s)
  /\ ~Expected(t)
  /\ \/ /\ In(t, "DISPATCH_INTENT_CLAIMED")
        /\ left[t].claim > 0
        /\ held' = [held EXCEPT ![s.worker] = Hold(t, "claim", left[t].claim)]
     \/ /\ In(t, "DISPATCH_CALL_AUTHORIZED")
        /\ left[t].call > 0
        /\ held' = [held EXCEPT ![s.worker] = Hold(t, "call", left[t].call)]
  /\ UNCHANGED <<ledger, checkpoint, left, givingUp>>

\* A worker stops relying on its claim or authorization and sends the call that
\* cancels it, with the hash it has last read.
GiveUp(t) ==
  /\ checkpoint[t].state \in Claimed
  /\ givingUp' = [givingUp EXCEPT ![t] = checkpoint[t]]
  /\ held' = [held EXCEPT ![checkpoint[t].worker] = NoHold]
  /\ UNCHANGED <<ledger, checkpoint, left>>

Recover(s, state) ==
  /\ Addressed(s, state)
  /\ HasClaim(s)
  /\ Write(TaskOf[s.key], Ready(s), NoLefts)
  /\ UNCHANGED <<ledger, held, givingUp>>

\* The cancelling call arrives: soon, late, or a second time.
CancelIntent(s) ==
  Expected(TaskOf[s.key]) /\ Recover(s, "DISPATCH_INTENT_CLAIMED")
CancelCall(s) ==
  Expected(TaskOf[s.key]) /\ Recover(s, "DISPATCH_CALL_AUTHORIZED")

ReclaimExpiredIntent(s) ==
  LeftOf(s).claim = 0 /\ Recover(s, "DISPATCH_INTENT_CLAIMED")
ReclaimExpiredCall(s) ==
  LeftOf(s).call = 0 /\ Recover(s, "DISPATCH_CALL_AUTHORIZED")

-----------------------------------------------------------------------------
Down(time) == IF time > 0 THEN time - 1 ELSE 0
Ticked(l) == Lefts(Down(l.permit), Down(l.claim), Down(l.call))

Tick ==
  /\ (\E t \in Tasks : left[t] # NoLefts) \/ (\E w \in Workers : held[w] # NoHold)
  /\ left' = [t \in Tasks |-> Ticked(left[t])]
  /\ held' = [w \in Workers |->
                IF held[w].left <= 1 THEN NoHold
                ELSE Hold(held[w].task, held[w].what, held[w].left - 1)]
  /\ UNCHANGED <<ledger, checkpoint, givingUp>>

PermitStep(s) ==
  \/ \E term \in Terms : Issue(s, term)
  \/ Revoke(s)
  \/ ReclaimExpired(s)
  \/ Redeem(s)

IntentStep(s) ==
  \/ \E term \in Terms, stamp \in Stamps : ClaimIntent(s, term, stamp)
  \/ \E term \in Terms : AuthorizeCall(s, term)
  \/ HearAgain(s)
  \/ CancelIntent(s)
  \/ CancelCall(s)
  \/ ReclaimExpiredIntent(s)
  \/ ReclaimExpiredCall(s)

Next ==
  \/ \E q \in Rows : RowEvent(q) /\ UNCHANGED dispatchVars
  \/ \E k \in Keys \ DispatchKeys : OtherDemand(k)
  \/ \E t \in Tasks : PersistWaiting(t) \/ GiveUp(t)
  \/ \E k \in DispatchKeys : Admit(k) \/ ClaimAdmission(k) \/ ReleaseAdmission(k)
  \/ \E s \in Scopes : PermitStep(s) \/ IntentStep(s)
  \/ Tick

Spec == Init /\ [][Next]_vars

-----------------------------------------------------------------------------
Contents == [state : States, key : DispatchKeys \cup {None}, permit : PermitKeys \cup {None},
             intent : IntentKeys \cup {None}, worker : Workers \cup {None},
             claimedAt : Stamps \cup {None}]

TypeOK ==
  /\ LedgerTypeOK
  /\ checkpoint \in [Tasks -> Contents]
  /\ left \in [Tasks -> [permit : Nat, claim : Nat, call : Nat]]
  /\ held \in [Workers -> [task : Tasks \cup {None}, what : {"nothing", "claim", "call"},
                           left : Nat]]
  /\ givingUp \in [Tasks -> Contents]

\* A task that was admitted to a provider, however far it has got since, still
\* has its unit of that provider's free tier in the ledger: no release, late or
\* by a competing reservation, and no new configuration takes it away.
DispatchBacked ==
  \A t \in Tasks :
    checkpoint[t].state \notin {"absent", "WAITING_FOR_QUOTA"} =>
      /\ checkpoint[t].key \in DispatchKeys
      /\ TaskOf[checkpoint[t].key] = t
      /\ reservation[checkpoint[t].key] = "reserved"
      /\ checkpoint[t].state # "DISPATCH_ADMITTED" =>
           route[RowOf[checkpoint[t].key]].tier = "free"

\* A worker that holds an unexpired claim or authorization, by an answer it got
\* however long ago, is the one the checkpoint names, and has no more time than
\* the claim and the authorization have there: two workers never both hold one
\* intent, and no authorization outlives its claim.  A claim that a waiting
\* record is written over is excepted.
HoldersAreCurrent ==
  \A w \in Workers, t \in Tasks :
    held[w].task = t =>
      /\ checkpoint[t].worker = w
      /\ held[w].left <= left[t].claim
      /\ held[w].what = "call" => /\ In(t, "DISPATCH_CALL_AUTHORIZED")
                                  /\ held[w].left <= left[t].call

\* Whatever the dispatch operations do to the ledger's tables, the ledger's own
\* operations could have done.
LedgerObeyed == QuotaSpec

\* A waiting task can be admitted again: docs/RUNBOOK.md:384 says the scheduler
\* re-admits it when a provider in the chain recovers.  A key whose reservation
\* was settled is answered with that reservation, which admission refuses.
WaitingIsAdmissible ==
  \A t \in Tasks :
    In(t, "WAITING_FOR_QUOTA") =>
      \E k \in DispatchKeys : TaskOf[k] = t /\ reservation[k] \in {"none", "reserved"}
=============================================================================
