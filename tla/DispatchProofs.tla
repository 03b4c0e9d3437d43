--------------------------- MODULE DispatchProofs ---------------------------
(***************************************************************************)
(* Proofs about the quota ledger and about Dispatch.  The ledger by itself,*)
(* whatever its users do, keeps its types and counters; Dispatch implements*)
(* it, an admitted task keeps its unit, and a worker that relies on a claim*)
(* or an authorization is the one the checkpoint names; for every number of*)
(* tasks, providers and workers and all lease terms.                       *)
(***************************************************************************)
EXTENDS Dispatch, FiniteSetTheorems, TLAPS

-----------------------------------------------------------------------------
(* The quota ledger alone.                                                 *)

LEMMA HoldersFinite ==
  ASSUME NEW q \in Rows
  PROVE  /\ IsFiniteSet(Holders(q))
         /\ Cardinality(Holders(q)) \in Nat
<1>1. IsFiniteSet(Keys) /\ Holders(q) \subseteq Keys
      BY ProviderQuotaAssumption DEF Holders
<1> QED BY <1>1, FS_Subset, FS_CardinalityType

LEMMA RowOfTyped == \A k \in Keys : RowOf[k] \in Rows
BY ProviderQuotaAssumption

RouteType == [tier : Tiers, window : BOOLEAN, cooling : BOOLEAN]

LEMMA LedgerTypeInit == QuotaInit => LedgerTypeOK
BY ProviderQuotaAssumption
DEF QuotaInit, LedgerTypeOK, RouteOf, Tiers, ReservationStatuses

LEMMA RowEventTyped ==
  ASSUME LedgerTypeOK, NEW q \in Rows, RowEvent(q)
  PROVE  LedgerTypeOK'
<1>1. CASE \E n \in 1..MaxLimit, u \in 0..MaxLimit, offer \in Offers[q] :
             ConfigureQuota(q, n, u, offer)
  <2>1. PICK n \in 1..MaxLimit, u \in 0..MaxLimit, offer \in Offers[q] :
               ConfigureQuota(q, n, u, offer)
        BY <1>1
  <2>2. offer.tier \in Tiers /\ offer.window \in BOOLEAN
        BY ProviderQuotaAssumption DEF Tiers
  <2>3. RouteOf(offer.tier, offer.window, route[q].cooling) \in RouteType
        BY <2>2 DEF LedgerTypeOK, RouteOf, RouteType
  <2>4. limit' \in [Rows -> 0..MaxLimit]
        BY <2>1, ProviderQuotaAssumption DEF ConfigureQuota, LedgerTypeOK
  <2>5. usage' \in [Rows -> Nat]
        BY <2>1, ProviderQuotaAssumption DEF ConfigureQuota, LedgerTypeOK
  <2>6. route' \in [Rows -> RouteType]
        BY <2>1, <2>3 DEF ConfigureQuota, LedgerTypeOK, RouteType
  <2> QED BY <2>1, <2>4, <2>5, <2>6 DEF ConfigureQuota, LedgerTypeOK, RouteType
<1>2. CASE RecordCooldown(q)
      BY <1>2 DEF RecordCooldown, LedgerTypeOK, RouteOf
<1>3. CASE CooldownOver(q)
      BY <1>3 DEF CooldownOver, LedgerTypeOK, RouteOf
<1>4. CASE TrialOver(q)
      BY <1>4 DEF TrialOver, LedgerTypeOK, RouteOf, Tiers
<1> QED BY <1>1, <1>2, <1>3, <1>4 DEF RowEvent

\* What a reservation does to its row: the reset, and at most one unit.
LEMMA ReserveTyped ==
  ASSUME LedgerTypeOK, NEW k \in Keys, Reserve(k)
  PROVE  LedgerTypeOK'
<1> DEFINE q == RowOf[k]
<1>1. PICK due \in BOOLEAN :
        /\ WindowReset(q, due)
        /\ \/ /\ reservation[k] # "none"
              /\ UNCHANGED <<reserved, reservation>>
           \/ /\ reservation[k] = "none"
              /\ Fits(q, IF due THEN 0 ELSE usage[q])
              /\ reserved' = [reserved EXCEPT ![q] = reserved[q] + 1]
              /\ reservation' = [reservation EXCEPT ![k] = "reserved"]
      BY DEF Reserve
<1>2. q \in Rows
      BY RowOfTyped
<1> HIDE DEF q
<1>3. usage' \in [Rows -> Nat]
      BY <1>1, <1>2 DEF WindowReset, LedgerTypeOK
<1>4. route' \in [Rows -> RouteType]
      BY <1>1, <1>2 DEF WindowReset, LedgerTypeOK, RouteOf, RouteType
<1>5. reserved' \in [Rows -> Nat] /\ reservation' \in [Keys -> ReservationStatuses]
      BY <1>1, <1>2 DEF LedgerTypeOK, ReservationStatuses
<1> QED BY <1>3, <1>4, <1>5 DEF Reserve, LedgerTypeOK, RouteType

LEMMA SettlesTyped ==
  ASSUME LedgerTypeOK, NEW k \in Keys, NEW outcome \in {"committed", "released"},
         Settles(k, outcome)
  PROVE  reserved' \in [Rows -> Nat] /\ reservation' \in [Keys -> ReservationStatuses]
BY RowOfTyped DEF Settles, LedgerTypeOK, ReservationStatuses

LEMMA LedgerTypeStep == LedgerTypeOK /\ [QuotaNext]_ledger => LedgerTypeOK'
<1> SUFFICES ASSUME LedgerTypeOK, [QuotaNext]_ledger PROVE LedgerTypeOK'
    OBVIOUS
<1>1. ASSUME NEW k \in Keys, Commit(k) PROVE LedgerTypeOK'
  <2>1. usage' \in [Rows -> Nat]
        BY <1>1, RowOfTyped DEF Commit, LedgerTypeOK
  <2> QED BY <1>1, <2>1, SettlesTyped DEF Commit, LedgerTypeOK
<1>2. ASSUME NEW k \in Keys, Release(k) PROVE LedgerTypeOK'
      BY <1>2, SettlesTyped DEF Release, LedgerTypeOK
<1>3. CASE UNCHANGED ledger
      BY <1>3 DEF ledger, LedgerTypeOK
<1> QED BY <1>1, <1>2, <1>3, RowEventTyped, ReserveTyped DEF QuotaNext

-----------------------------------------------------------------------------
LEMMA LedgerSoundInit == QuotaInit => LedgerSound
<1> SUFFICES ASSUME QuotaInit, NEW q \in Rows
             PROVE  /\ reserved[q] = Cardinality(Holders(q))
                    /\ usage[q] + reserved[q] <= limit[q]
    BY DEF LedgerSound
<1>1. Holders(q) = {}
      BY DEF QuotaInit, Holders
<1> QED BY <1>1, FS_EmptySet DEF QuotaInit

LEMMA RowEventSound ==
  ASSUME LedgerTypeOK, LedgerSound, NEW q \in Rows, RowEvent(q)
  PROVE  LedgerSound'
<1>1. UNCHANGED <<reserved, reservation>>
      BY DEF RowEvent, ConfigureQuota, RecordCooldown, CooldownOver, TrialOver
<1> SUFFICES ASSUME NEW r \in Rows
             PROVE  /\ reserved'[r] = Cardinality(Holders(r)')
                    /\ usage'[r] + reserved'[r] <= limit'[r]
    BY DEF LedgerSound
<1>2. reserved'[r] = Cardinality(Holders(r)')
      BY <1>1 DEF LedgerSound, Holders
<1>3. usage'[r] + reserved'[r] <= limit'[r]
  <2>1. CASE \E n \in 1..MaxLimit, u \in 0..MaxLimit, offer \in Offers[q] :
               ConfigureQuota(q, n, u, offer)
    <3>1. PICK n \in 1..MaxLimit, u \in 0..MaxLimit, offer \in Offers[q] :
                 ConfigureQuota(q, n, u, offer)
          BY <2>1
    <3>2. CASE r = q
          BY <3>1, <3>2, <1>1, ProviderQuotaAssumption DEF ConfigureQuota, Reconfigurable, LedgerTypeOK
    <3>3. CASE r # q
          BY <3>1, <3>3, <1>1 DEF ConfigureQuota, LedgerTypeOK, LedgerSound
    <3> QED BY <3>2, <3>3
  <2>2. CASE RecordCooldown(q) \/ CooldownOver(q) \/ TrialOver(q)
        BY <2>2 DEF RecordCooldown, CooldownOver, TrialOver, LedgerSound
  <2> QED BY <2>1, <2>2 DEF RowEvent
<1> QED BY <1>2, <1>3

\* A key that takes a unit joins its row's holders, one that settles leaves
\* them, and the other rows' holders stay.
LEMMA HoldersChange ==
  ASSUME LedgerTypeOK, NEW k \in Keys, NEW status,
         reservation' = [reservation EXCEPT ![k] = status], NEW r \in Rows
  PROVE  /\ r # RowOf[k] => Holders(r)' = Holders(r)
         /\ r = RowOf[k] /\ status = "reserved" => Holders(r)' = Holders(r) \cup {k}
         /\ r = RowOf[k] /\ status # "reserved" => Holders(r)' = Holders(r) \ {k}
<1>1. \A j \in Keys : reservation'[j] = IF j = k THEN status ELSE reservation[j]
      BY DEF LedgerTypeOK
<1>2. Holders(r)' = {j \in Keys : RowOf[j] = r /\ reservation'[j] = "reserved"}
      BY DEF Holders
<1> QED BY <1>1, <1>2 DEF Holders

LEMMA ReserveSound ==
  ASSUME LedgerTypeOK, LedgerSound, NEW k \in Keys, Reserve(k)
  PROVE  LedgerSound'
<1> DEFINE q == RowOf[k]
<1>1. PICK due \in BOOLEAN :
        /\ WindowReset(q, due)
        /\ \/ /\ reservation[k] # "none"
              /\ UNCHANGED <<reserved, reservation>>
           \/ /\ reservation[k] = "none"
              /\ Fits(q, IF due THEN 0 ELSE usage[q])
              /\ reserved' = [reserved EXCEPT ![q] = reserved[q] + 1]
              /\ reservation' = [reservation EXCEPT ![k] = "reserved"]
      BY DEF Reserve
<1>2. q \in Rows /\ limit' = limit
      BY RowOfTyped DEF Reserve
<1>3. \A r \in Rows : usage'[r] = IF r = q THEN (IF due THEN 0 ELSE usage[q]) ELSE usage[r]
      BY <1>1 DEF WindowReset, LedgerTypeOK
<1> SUFFICES ASSUME NEW r \in Rows
             PROVE  /\ reserved'[r] = Cardinality(Holders(r)')
                    /\ usage'[r] + reserved'[r] <= limit'[r]
    BY DEF LedgerSound
<1>4. /\ reserved[r] = Cardinality(Holders(r)) /\ usage[r] + reserved[r] <= limit[r]
      /\ usage[r] \in Nat /\ reserved[r] \in Nat /\ limit[r] \in Nat
      BY DEF LedgerSound, LedgerTypeOK
<1>5. usage'[r] \in Nat /\ usage'[r] <= usage[r]
      BY <1>2, <1>3, <1>4
<1>6. CASE reservation[k] # "none" /\ UNCHANGED <<reserved, reservation>>
  <2>1. Holders(r)' = Holders(r)
        BY <1>6 DEF Holders
  <2> QED BY <2>1, <1>2, <1>4, <1>5, <1>6
<1>7. CASE /\ reservation[k] = "none"
           /\ Fits(q, IF due THEN 0 ELSE usage[q])
           /\ reserved' = [reserved EXCEPT ![q] = reserved[q] + 1]
           /\ reservation' = [reservation EXCEPT ![k] = "reserved"]
  <2>1. CASE r = q
    <3>1. Holders(r)' = Holders(r) \cup {k} /\ k \notin Holders(r)
          BY <1>7, <2>1, HoldersChange DEF Holders
    <3>2. reserved'[r] = Cardinality(Holders(r)')
      <4>1. Cardinality(Holders(r) \cup {k}) = Cardinality(Holders(r)) + 1
            BY <3>1, FS_AddElement, HoldersFinite
      <4>2. reserved'[r] = reserved[r] + 1
            BY <1>7, <2>1 DEF LedgerTypeOK
      <4> QED BY <4>1, <4>2, <3>1, <1>4
    <3>3. usage'[r] + reserved'[r] <= limit'[r]
          BY <1>2, <1>3, <1>4, <1>5, <1>7, <2>1 DEF Fits, LedgerTypeOK
    <3> QED BY <3>2, <3>3
  <2>2. CASE r # q
    <3>1. Holders(r)' = Holders(r)
          BY <1>7, <2>2, HoldersChange
    <3> QED BY <3>1, <1>2, <1>4, <1>5, <1>7, <2>2 DEF LedgerTypeOK
  <2> QED BY <2>1, <2>2
<1> QED BY <1>1, <1>6, <1>7

\* Settling takes a unit back from the row and its holder from the set.
LEMMA SettlesCounts ==
  ASSUME LedgerTypeOK, LedgerSound, NEW k \in Keys,
         NEW outcome \in {"committed", "released"}, Settles(k, outcome), NEW r \in Rows
  PROVE  /\ reserved'[r] = Cardinality(Holders(r)')
         /\ reserved'[r] = IF r = RowOf[k] THEN reserved[r] - 1 ELSE reserved[r]
<1>1. reserved'[r] = IF r = RowOf[k] THEN reserved[r] - 1 ELSE reserved[r]
      BY DEF Settles, LedgerTypeOK
<1>2. reserved[r] = Cardinality(Holders(r))
      BY DEF LedgerSound
<1>3. reservation' = [reservation EXCEPT ![k] = outcome]
      BY DEF Settles
<1>4. CASE r = RowOf[k]
  <2>1. Holders(r)' = Holders(r) \ {k} /\ k \in Holders(r)
        BY <1>3, <1>4, HoldersChange DEF Settles, Holders
  <2> QED BY <2>1, <1>1, <1>2, <1>4, FS_RemoveElement, HoldersFinite
<1>5. CASE r # RowOf[k]
  <2>1. Holders(r)' = Holders(r)
        BY <1>3, <1>5, HoldersChange
  <2> QED BY <2>1, <1>1, <1>2, <1>5
<1> QED BY <1>1, <1>4, <1>5

LEMMA LedgerSoundStep ==
  LedgerTypeOK /\ LedgerSound /\ [QuotaNext]_ledger => LedgerSound'
<1> SUFFICES ASSUME LedgerTypeOK, LedgerSound, [QuotaNext]_ledger PROVE LedgerSound'
    OBVIOUS
<1>1. ASSUME NEW k \in Keys, Commit(k), NEW r \in Rows
      PROVE  /\ reserved'[r] = Cardinality(Holders(r)')
             /\ usage'[r] + reserved'[r] <= limit'[r]
  <2>1. Settles(k, "committed") /\ limit' = limit
        BY <1>1 DEF Commit
  <2>2. usage'[r] = IF r = RowOf[k] THEN usage[r] + 1 ELSE usage[r]
        BY <1>1 DEF Commit, LedgerTypeOK
  <2>3. /\ usage[r] + reserved[r] <= limit[r]
        /\ usage[r] \in Nat /\ reserved[r] \in Nat /\ limit[r] \in Nat
        BY DEF LedgerSound, LedgerTypeOK
  <2>4. /\ reserved'[r] = Cardinality(Holders(r)')
        /\ reserved'[r] = IF r = RowOf[k] THEN reserved[r] - 1 ELSE reserved[r]
        BY <2>1, SettlesCounts
  <2> QED BY <2>1, <2>2, <2>3, <2>4
<1>2. ASSUME NEW k \in Keys, Release(k), NEW r \in Rows
      PROVE  /\ reserved'[r] = Cardinality(Holders(r)')
             /\ usage'[r] + reserved'[r] <= limit'[r]
  <2>1. Settles(k, "released") /\ limit' = limit /\ usage' = usage
        BY <1>2 DEF Release
  <2>2. /\ usage[r] + reserved[r] <= limit[r]
        /\ usage[r] \in Nat /\ reserved[r] \in Nat /\ limit[r] \in Nat
        BY DEF LedgerSound, LedgerTypeOK
  <2>3. /\ reserved'[r] = Cardinality(Holders(r)')
        /\ reserved'[r] = IF r = RowOf[k] THEN reserved[r] - 1 ELSE reserved[r]
        BY <2>1, SettlesCounts
  <2> QED BY <2>1, <2>2, <2>3
<1>3. CASE UNCHANGED ledger
      BY <1>3 DEF ledger, LedgerSound, Holders
<1>4. ASSUME NEW k \in Keys, Commit(k) \/ Release(k) PROVE LedgerSound'
      BY <1>1, <1>2, <1>4 DEF LedgerSound
<1> QED BY <1>3, <1>4, RowEventSound, ReserveSound DEF QuotaNext

\* Whatever the users of the ledger do, its counters are those of the
\* reservations that hold its units, and no row is ever overdrawn.
THEOREM QuotaCorrect == QuotaSpec => [](LedgerTypeOK /\ LedgerSound)
<1>1. QuotaInit => LedgerTypeOK /\ LedgerSound
      BY LedgerTypeInit, LedgerSoundInit
<1>2. LedgerTypeOK /\ LedgerSound /\ [QuotaNext]_ledger => (LedgerTypeOK /\ LedgerSound)'
      BY LedgerTypeStep, LedgerSoundStep
<1> QED BY <1>1, <1>2, PTL DEF QuotaSpec

-----------------------------------------------------------------------------
(* Dispatch.                                                               *)

\* Releasing an admission is the ledger's release, or no step of the ledger.
LEMMA ReleaseAdmissionIsRelease ==
  ASSUME NEW k \in DispatchKeys, ReleaseAdmission(k)
  PROVE  Release(k) \/ UNCHANGED ledger
<1>1. CASE reservation[k] = "reserved" /\ ReturnUnit(k)
      BY <1>1 DEF ReleaseAdmission, ReturnUnit, Release, Settles
<1>2. CASE reservation[k] = "released" /\ UNCHANGED <<reserved, reservation>>
      BY <1>2 DEF ReleaseAdmission, ledger
<1> QED BY <1>1, <1>2 DEF ReleaseAdmission

LEMMA ScopeStepLeavesLedger ==
  ASSUME NEW s \in Scopes, PermitStep(s) \/ IntentStep(s)
  PROVE  UNCHANGED ledger
<1>1. CASE PermitStep(s)
      BY <1>1 DEF PermitStep, Issue, Revoke, ReclaimExpired, Withdraw, Redeem
<1>2. CASE IntentStep(s)
      BY <1>2
      DEF IntentStep, ClaimIntent, AuthorizeCall, HearAgain, CancelIntent, CancelCall,
          ReclaimExpiredIntent, ReclaimExpiredCall, Recover
<1> QED BY <1>1, <1>2

LEMMA StepObeysLedger == [Next]_vars => [QuotaNext]_ledger
<1> SUFFICES ASSUME [Next]_vars PROVE [QuotaNext]_ledger
    OBVIOUS
<1>1. ASSUME NEW q \in Rows, RowEvent(q) PROVE QuotaNext
      BY <1>1 DEF QuotaNext
<1>2. ASSUME NEW k \in Keys \ DispatchKeys, OtherDemand(k) PROVE QuotaNext
      BY <1>2 DEF OtherDemand, QuotaNext
<1>3. ASSUME NEW t \in Tasks, PersistWaiting(t) \/ GiveUp(t) PROVE UNCHANGED ledger
      BY <1>3 DEF PersistWaiting, GiveUp
<1>4. ASSUME NEW k \in DispatchKeys, Admit(k) PROVE QuotaNext
      BY <1>4, DispatchAssumption DEF Admit, QuotaNext
<1>5. ASSUME NEW k \in DispatchKeys, ClaimAdmission(k) PROVE UNCHANGED ledger
      BY <1>5 DEF ClaimAdmission
<1>6. ASSUME NEW k \in DispatchKeys, ReleaseAdmission(k) PROVE [QuotaNext]_ledger
      BY <1>6, ReleaseAdmissionIsRelease, DispatchAssumption DEF QuotaNext
<1>7. CASE Tick
      BY <1>7 DEF Tick
<1>8. CASE UNCHANGED vars
      BY <1>8 DEF vars
<1> QED
    BY <1>1, <1>2, <1>3, <1>4, <1>5, <1>6, <1>7, <1>8, ScopeStepLeavesLedger DEF Next

\* The dispatch operations implement the ledger: each of their steps, the
\* lifecycle's own UPDATEs included, is one the quota repository could make on
\* the tables, or leaves them alone.
THEOREM DispatchObeysLedger == Spec => LedgerObeyed
<1>1. Init => QuotaInit
      BY DEF Init
<1> QED BY <1>1, StepObeysLedger, PTL DEF Spec, QuotaSpec, LedgerObeyed

\* With every user the model has, the counters of a row are those of the
\* reservations that hold its units, and no row is overdrawn.
THEOREM LedgerCorrect == Spec => []LedgerSound
BY DispatchObeysLedger, QuotaCorrect, PTL DEF LedgerObeyed
-----------------------------------------------------------------------------
LeftsType == [permit : Nat, claim : Nat, call : Nat]
HeldType == [task : Tasks \cup {None}, what : {"nothing", "claim", "call"}, left : Nat]

DispatchTypeOK ==
  /\ checkpoint \in [Tasks -> Contents]
  /\ left \in [Tasks -> LeftsType]
  /\ held \in [Workers -> HeldType]
  /\ givingUp \in [Tasks -> Contents]

LEMMA ScopeTyped ==
  ASSUME NEW s \in Scopes
  PROVE  /\ s.key \in DispatchKeys /\ s.key \in Keys /\ TaskOf[s.key] \in Tasks
         /\ s.permit \in PermitKeys /\ s.intent \in IntentKeys /\ s.worker \in Workers
BY DispatchAssumption DEF Scopes

\* None is no identifier of the caller's.
LEMMA NoneDistinct ==
  /\ None \notin Tasks /\ None \notin DispatchKeys /\ None \notin PermitKeys
  /\ None \notin IntentKeys /\ None \notin Workers /\ None \notin Stamps
BY DispatchAssumption

LEMMA BareTyped ==
  ASSUME NEW state \in States, NEW key \in DispatchKeys \cup {None}
  PROVE  Bare(state, key) \in Contents
BY DEF Bare, Content, Contents

\* A write whose content no worker holds: what all operations but the claim and
\* the authorization do to the checkpoint.
QuietWrite(t, content, lefts) ==
  /\ content \in Contents /\ lefts \in LeftsType /\ lefts.call = 0
  /\ content.worker = None /\ content.state \notin Claimed
  /\ Write(t, content, lefts)
  /\ UNCHANGED givingUp

\* ... and for a task that has been admitted by key.
AdmittedWrite(t, key) ==
  \E content, lefts :
    /\ QuietWrite(t, content, lefts)
    /\ content.key = key
    /\ content.state \notin {"absent", "WAITING_FOR_QUOTA"}

LEMMA NoLeftsTyped == NoLefts \in LeftsType /\ NoLefts.call = 0
BY DEF NoLefts, Lefts, LeftsType

LEMMA IssueWrites ==
  ASSUME NEW s \in Scopes, NEW term \in Terms, Issue(s, term)
  PROVE  AdmittedWrite(TaskOf[s.key], s.key) /\ UNCHANGED held
<1> DEFINE content == Content("DISPATCH_PERMITTED", s.key, s.permit, None, None, None)
           lefts == Lefts(term, 0, 0)
<1>1. content \in Contents
      BY ScopeTyped DEF Content, Contents, States
<1>2. lefts \in LeftsType /\ lefts.call = 0
      BY DispatchAssumption DEF Lefts, LeftsType
<1>3. /\ content.worker = None /\ content.state \notin Claimed /\ content.key = s.key
      /\ content.state \notin {"absent", "WAITING_FOR_QUOTA"}
      BY DEF Content, Claimed
<1>4. Write(TaskOf[s.key], content, lefts) /\ UNCHANGED <<held, givingUp>>
      BY DEF Issue
<1> HIDE DEF content, lefts
<1> QED BY <1>1, <1>2, <1>3, <1>4 DEF AdmittedWrite, QuietWrite

LEMMA ReadyWrites ==
  ASSUME NEW s \in Scopes, Write(TaskOf[s.key], Ready(s), NoLefts), UNCHANGED givingUp
  PROVE  AdmittedWrite(TaskOf[s.key], s.key)
<1>1. Ready(s) \in Contents
      BY ScopeTyped DEF Ready, Content, Contents, States
<1>2. /\ Ready(s).worker = None /\ Ready(s).state \notin Claimed /\ Ready(s).key = s.key
      /\ Ready(s).state \notin {"absent", "WAITING_FOR_QUOTA"}
      BY DEF Ready, Content, Claimed
<1> QED BY <1>1, <1>2, NoLeftsTyped DEF AdmittedWrite, QuietWrite

LEMMA BareWrites ==
  ASSUME NEW t, NEW state \in {"WAITING_FOR_QUOTA", "DISPATCH_ADMITTED"},
         NEW key \in DispatchKeys \cup {None},
         Write(t, Bare(state, key), NoLefts), UNCHANGED givingUp
  PROVE  QuietWrite(t, Bare(state, key), NoLefts)
<1>1. Bare(state, key) \in Contents
      BY BareTyped DEF States
<1>2. Bare(state, key).worker = None /\ Bare(state, key).state \notin Claimed
      BY DEF Bare, Content, Claimed
<1> QED BY <1>1, <1>2, NoLeftsTyped DEF QuietWrite

LEMMA AdmitWrites ==
  ASSUME NEW k \in DispatchKeys, Write(TaskOf[k], Bare("DISPATCH_ADMITTED", k), NoLefts),
         UNCHANGED givingUp
  PROVE  AdmittedWrite(TaskOf[k], k)
<1> DEFINE content == Bare("DISPATCH_ADMITTED", k)
<1>1. QuietWrite(TaskOf[k], content, NoLefts)
      BY BareWrites
<1>2. content.key = k /\ content.state \notin {"absent", "WAITING_FOR_QUOTA"}
      BY DEF Bare, Content
<1> HIDE DEF content
<1> QED BY <1>1, <1>2 DEF AdmittedWrite

LEMMA WaitingWrites ==
  ASSUME NEW t, Write(t, Waiting, NoLefts), UNCHANGED givingUp
  PROVE  QuietWrite(t, Waiting, NoLefts)
BY BareWrites DEF Waiting

\* What the actions of a scope that are no claim and no authorization do.
LEMMA PermitStepWrites ==
  ASSUME NEW s \in Scopes, PermitStep(s)
  PROVE  /\ AdmittedWrite(TaskOf[s.key], s.key) /\ UNCHANGED held
         /\ ApprovedFree(s.key) /\ checkpoint[TaskOf[s.key]].state \notin Claimed
<1>1. CASE \E term \in Terms : Issue(s, term)
  <2>1. PICK term \in Terms : Issue(s, term)
        BY <1>1
  <2> QED BY <2>1, IssueWrites DEF Issue, Addressed, In, Claimed
<1>2. CASE Revoke(s) \/ ReclaimExpired(s)
      BY <1>2, ScopeTyped, AdmitWrites
      DEF Revoke, ReclaimExpired, Withdraw, Addressed, In, Claimed
<1>3. CASE Redeem(s)
      BY <1>3, ReadyWrites DEF Redeem, Addressed, In, Claimed
<1> QED BY <1>1, <1>2, <1>3 DEF PermitStep

LEMMA RecoverWrites ==
  ASSUME NEW s \in Scopes, NEW state, Recover(s, state)
  PROVE  /\ AdmittedWrite(TaskOf[s.key], s.key) /\ UNCHANGED held
         /\ ApprovedFree(s.key)
BY ReadyWrites DEF Recover, Addressed

ClaimContent(s, stamp) ==
  Content("DISPATCH_INTENT_CLAIMED", s.key, s.permit, s.intent, s.worker, stamp)
CallContent(s) ==
  Content("DISPATCH_CALL_AUTHORIZED", s.key, s.permit, s.intent, s.worker,
          checkpoint[TaskOf[s.key]].claimedAt)

LEMMA ClaimTyped ==
  ASSUME NEW s \in Scopes, NEW term \in Terms, NEW stamp \in Stamps
  PROVE  ClaimContent(s, stamp) \in Contents /\ Lefts(0, term, 0) \in LeftsType
BY ScopeTyped, DispatchAssumption
DEF ClaimContent, Content, Contents, States, Lefts, LeftsType

LEMMA CallTyped ==
  ASSUME DispatchTypeOK, NEW s \in Scopes, NEW term \in Terms
  PROVE  /\ CallContent(s) \in Contents
         /\ Lefts(0, left[TaskOf[s.key]].claim, term) \in LeftsType
<1>1. checkpoint[TaskOf[s.key]] \in Contents /\ left[TaskOf[s.key]] \in LeftsType
      BY ScopeTyped DEF DispatchTypeOK
<1>2. checkpoint[TaskOf[s.key]].claimedAt \in Stamps \cup {None}
      BY <1>1 DEF Contents
<1>3. left[TaskOf[s.key]].claim \in Nat
      BY <1>1 DEF LeftsType
<1> QED
    BY <1>2, <1>3, ScopeTyped, DispatchAssumption
    DEF CallContent, Content, Contents, States, Lefts, LeftsType

LEMMA WriteTyped ==
  ASSUME DispatchTypeOK, NEW t \in Tasks, NEW content \in Contents, NEW lefts \in LeftsType,
         Write(t, content, lefts)
  PROVE  checkpoint' \in [Tasks -> Contents] /\ left' \in [Tasks -> LeftsType]
BY DEF Write, DispatchTypeOK

LEMMA HoldTyped ==
  ASSUME NEW t \in Tasks, NEW what \in {"claim", "call"}, NEW time \in Nat
  PROVE  Hold(t, what, time) \in HeldType /\ NoHold \in HeldType
BY DEF Hold, NoHold, HeldType

LEMMA NoHoldTyped == NoHold \in HeldType
BY DEF Hold, NoHold, HeldType

LEMMA HearTyped ==
  ASSUME DispatchTypeOK, NEW w \in Workers, NEW t \in Tasks, NEW what \in {"claim", "call"},
         NEW time \in Nat, Hear(w, Hold(t, what, time))
  PROVE  held' \in [Workers -> HeldType]
<1>1. PICK heard \in {Hold(t, what, time), NoHold} : held' = [held EXCEPT ![w] = heard]
      BY DEF Hear
<1>2. heard \in HeldType
      BY <1>1, HoldTyped
<1> QED BY <1>1, <1>2 DEF DispatchTypeOK

LEMMA DispatchTypeInit == Init => DispatchTypeOK
<1>1. Bare("absent", None) \in Contents
      BY BareTyped DEF States
<1> QED
    BY <1>1, NoLeftsTyped, NoHoldTyped DEF Init, DispatchInit, DispatchTypeOK

LEMMA QuietTyped ==
  ASSUME DispatchTypeOK, NEW t \in Tasks, NEW content, NEW lefts, QuietWrite(t, content, lefts),
         UNCHANGED held
  PROVE  DispatchTypeOK'
BY WriteTyped DEF QuietWrite, DispatchTypeOK

LEMMA AdmittedTyped ==
  ASSUME DispatchTypeOK, NEW t \in Tasks, NEW k, AdmittedWrite(t, k), UNCHANGED held
  PROVE  DispatchTypeOK'
BY QuietTyped DEF AdmittedWrite

LEMMA PersistTyped ==
  ASSUME DispatchTypeOK, NEW t \in Tasks, PersistWaiting(t)
  PROVE  DispatchTypeOK'
<1>1. QuietWrite(t, Waiting, NoLefts)
      BY WaitingWrites DEF PersistWaiting
<1>2. checkpoint' \in [Tasks -> Contents] /\ left' \in [Tasks -> LeftsType]
      BY <1>1, WriteTyped DEF QuietWrite
<1>3. held' \in [Workers -> HeldType]
      BY NoHoldTyped DEF PersistWaiting, DispatchTypeOK
<1> QED BY <1>2, <1>3 DEF PersistWaiting, DispatchTypeOK

LEMMA ClaimIntentTyped ==
  ASSUME DispatchTypeOK, NEW s \in Scopes, NEW term \in Terms, NEW stamp \in Stamps,
         ClaimIntent(s, term, stamp)
  PROVE  DispatchTypeOK'
<1>1. Write(TaskOf[s.key], ClaimContent(s, stamp), Lefts(0, term, 0)) /\ UNCHANGED givingUp
      BY DEF ClaimIntent, ClaimContent
<1>2. checkpoint' \in [Tasks -> Contents] /\ left' \in [Tasks -> LeftsType]
      BY <1>1, WriteTyped, ClaimTyped, ScopeTyped
<1>3. held' \in [Workers -> HeldType]
      BY HearTyped, ScopeTyped, DispatchAssumption DEF ClaimIntent
<1> QED BY <1>1, <1>2, <1>3 DEF DispatchTypeOK

LEMMA AuthorizeCallTyped ==
  ASSUME DispatchTypeOK, NEW s \in Scopes, NEW term \in Terms, AuthorizeCall(s, term)
  PROVE  DispatchTypeOK'
<1>1. /\ Write(TaskOf[s.key], CallContent(s), Lefts(0, left[TaskOf[s.key]].claim, term))
      /\ UNCHANGED givingUp
      BY DEF AuthorizeCall, CallContent
<1>2. checkpoint' \in [Tasks -> Contents] /\ left' \in [Tasks -> LeftsType]
      BY <1>1, WriteTyped, CallTyped, ScopeTyped
<1>3. held' \in [Workers -> HeldType]
      BY HearTyped, ScopeTyped, DispatchAssumption DEF AuthorizeCall
<1> QED BY <1>1, <1>2, <1>3 DEF DispatchTypeOK

LEMMA HearAgainTyped ==
  ASSUME DispatchTypeOK, NEW s \in Scopes, HearAgain(s)
  PROVE  DispatchTypeOK'
<1> DEFINE t == TaskOf[s.key]
<1>1. t \in Tasks /\ s.worker \in Workers
      BY ScopeTyped
<1>2. left[t].claim \in Nat /\ left[t].call \in Nat
      BY <1>1 DEF DispatchTypeOK, LeftsType
<1>3. Hold(t, "claim", left[t].claim) \in HeldType /\ Hold(t, "call", left[t].call) \in HeldType
      BY <1>1, <1>2, HoldTyped
<1>4. \/ held' = [held EXCEPT ![s.worker] = Hold(t, "claim", left[t].claim)]
      \/ held' = [held EXCEPT ![s.worker] = Hold(t, "call", left[t].call)]
      BY DEF HearAgain
<1>5. held' \in [Workers -> HeldType]
      BY <1>1, <1>3, <1>4 DEF DispatchTypeOK
<1> QED BY <1>5 DEF HearAgain, DispatchTypeOK

LEMMA GiveUpTyped ==
  ASSUME DispatchTypeOK, NEW t \in Tasks, GiveUp(t)
  PROVE  DispatchTypeOK'
BY NoHoldTyped DEF GiveUp, DispatchTypeOK

LEMMA DownTyped ==
  ASSUME NEW time \in Nat
  PROVE  /\ Down(time) \in Nat /\ Down(time) <= time
         /\ time > 0 => Down(time) = time - 1
BY DEF Down

LEMMA TickTyped ==
  ASSUME DispatchTypeOK, Tick
  PROVE  DispatchTypeOK'
<1>1. ASSUME NEW t \in Tasks PROVE Ticked(left[t]) \in LeftsType
      BY DownTyped DEF DispatchTypeOK, Ticked, Lefts, LeftsType
<1>2. ASSUME NEW w \in Workers, ~(held[w].left <= 1)
      PROVE  Hold(held[w].task, held[w].what, held[w].left - 1) \in HeldType
      BY <1>2 DEF DispatchTypeOK, Hold, HeldType
<1>3. left' \in [Tasks -> LeftsType]
      BY <1>1 DEF Tick
<1>4. held' \in [Workers -> HeldType]
      BY <1>2, NoHoldTyped DEF Tick
<1> QED BY <1>3, <1>4 DEF Tick, DispatchTypeOK

\* The steps of Next, as the invariants below need them apart.
LEMMA StepCases ==
  ASSUME [Next]_vars
  PROVE  \/ UNCHANGED dispatchVars
         \/ \E t \in Tasks : PersistWaiting(t) \/ GiveUp(t)
         \/ \E k \in DispatchKeys : ClaimAdmission(k) \/ ReleaseAdmission(k)
         \/ \E s \in Scopes : PermitStep(s) \/ IntentStep(s)
         \/ Tick
BY DEF Next, vars, OtherDemand, Admit

LEMMA IntentStepTyped ==
  ASSUME DispatchTypeOK, NEW s \in Scopes, IntentStep(s)
  PROVE  DispatchTypeOK'
<1>1. CASE \E state : Recover(s, state)
      BY <1>1, RecoverWrites, AdmittedTyped, ScopeTyped
<1> QED
    BY <1>1, ClaimIntentTyped, AuthorizeCallTyped, HearAgainTyped
    DEF IntentStep, CancelIntent, CancelCall, ReclaimExpiredIntent, ReclaimExpiredCall

LEMMA DispatchTypeStep == DispatchTypeOK /\ [Next]_vars => DispatchTypeOK'
<1> SUFFICES ASSUME DispatchTypeOK, [Next]_vars PROVE DispatchTypeOK'
    OBVIOUS
<1>1. CASE UNCHANGED dispatchVars
      BY <1>1 DEF dispatchVars, DispatchTypeOK
<1>2. ASSUME NEW t \in Tasks, PersistWaiting(t) \/ GiveUp(t) PROVE DispatchTypeOK'
      BY <1>2, PersistTyped, GiveUpTyped
<1>3. ASSUME NEW k \in DispatchKeys, ClaimAdmission(k) PROVE DispatchTypeOK'
      BY <1>3, AdmitWrites, AdmittedTyped, DispatchAssumption DEF ClaimAdmission
<1>4. ASSUME NEW k \in DispatchKeys, ReleaseAdmission(k) PROVE DispatchTypeOK'
      BY <1>4, WaitingWrites, QuietTyped, DispatchAssumption DEF ReleaseAdmission
<1>5. ASSUME NEW s \in Scopes, PermitStep(s) PROVE DispatchTypeOK'
      BY <1>5, PermitStepWrites, AdmittedTyped, ScopeTyped
<1> QED BY <1>1, <1>2, <1>3, <1>4, <1>5, StepCases, IntentStepTyped, TickTyped

LEMMA TypeSplit == TypeOK <=> LedgerTypeOK /\ DispatchTypeOK
BY DEF TypeOK, DispatchTypeOK, LeftsType, HeldType

\* Every variable keeps its type.
THEOREM TypeCorrect == Spec => []TypeOK
<1>1. Init => TypeOK
      BY LedgerTypeInit, DispatchTypeInit, TypeSplit DEF Init
<1>2. TypeOK /\ [Next]_vars => TypeOK'
  <2>1. TypeOK' <=> LedgerTypeOK' /\ DispatchTypeOK'
        BY TypeSplit, PTL
  <2> QED BY <2>1, TypeSplit, DispatchTypeStep, StepObeysLedger, LedgerTypeStep
<1> QED BY <1>1, <1>2, PTL DEF Spec

-----------------------------------------------------------------------------
\* What DispatchBacked says of one task.
Backed(t) ==
  checkpoint[t].state \notin {"absent", "WAITING_FOR_QUOTA"} =>
    /\ checkpoint[t].key \in DispatchKeys
    /\ TaskOf[checkpoint[t].key] = t
    /\ reservation[checkpoint[t].key] = "reserved"
    /\ checkpoint[t].state # "DISPATCH_ADMITTED" =>
         route[RowOf[checkpoint[t].key]].tier = "free"

LEMMA BackedIsDispatchBacked == DispatchBacked <=> \A t \in Tasks : Backed(t)
BY DEF DispatchBacked, Backed

\* While a key is reserved, no event of a row and no reservation takes its unit
\* away, and its row stays free if it is; settling another key leaves it alone.
LEMMA RowEventKeepsReserved ==
  ASSUME LedgerTypeOK, LedgerSound, NEW q \in Rows, RowEvent(q), NEW k \in Keys,
         reservation[k] = "reserved"
  PROVE  /\ reservation'[k] = "reserved"
         /\ route[RowOf[k]].tier = "free" => route'[RowOf[k]].tier = "free"
<1>1. reservation' = reservation
      BY DEF RowEvent, ConfigureQuota, RecordCooldown, CooldownOver, TrialOver
<1>2. RowOf[k] \in Rows
      BY RowOfTyped
<1>3. CASE \E n \in 1..MaxLimit, u \in 0..MaxLimit, offer \in Offers[q] :
             ConfigureQuota(q, n, u, offer)
  <2>1. PICK n \in 1..MaxLimit, u \in 0..MaxLimit, offer \in Offers[q] :
               ConfigureQuota(q, n, u, offer)
        BY <1>3
  <2>2. k \in Holders(RowOf[k])
        BY DEF Holders
  <2>3. Cardinality(Holders(RowOf[k])) # 0
        BY <2>2, <1>2, HoldersFinite, FS_EmptySet
  <2>4. q # RowOf[k]
        BY <2>1, <2>3, <1>2 DEF ConfigureQuota, Reconfigurable, LedgerSound
  <2>5. route'[RowOf[k]] = route[RowOf[k]]
        BY <2>1, <2>4, <1>2 DEF ConfigureQuota, LedgerTypeOK
  <2> QED BY <2>5, <1>1
<1>4. CASE RecordCooldown(q)
      BY <1>4, <1>1, <1>2 DEF RecordCooldown, RouteOf, LedgerTypeOK
<1>5. CASE CooldownOver(q)
      BY <1>5, <1>1, <1>2 DEF CooldownOver, RouteOf, LedgerTypeOK
<1>6. CASE TrialOver(q)
      BY <1>6, <1>1, <1>2 DEF TrialOver, RouteOf, LedgerTypeOK
<1> QED BY <1>3, <1>4, <1>5, <1>6 DEF RowEvent

LEMMA ReserveKeepsReserved ==
  ASSUME LedgerTypeOK, NEW j \in Keys, Reserve(j), NEW k \in Keys, reservation[k] = "reserved"
  PROVE  /\ reservation'[k] = "reserved"
         /\ route'[RowOf[k]].tier = route[RowOf[k]].tier
<1>1. \/ UNCHANGED reservation
      \/ reservation' = [reservation EXCEPT ![j] = "reserved"]
      BY DEF Reserve
<1>2. \E due \in BOOLEAN : WindowReset(RowOf[j], due)
      BY DEF Reserve
<1>3. RowOf[j] \in Rows /\ RowOf[k] \in Rows
      BY RowOfTyped
<1>4. route'[RowOf[k]].tier = route[RowOf[k]].tier
      BY <1>2, <1>3 DEF WindowReset, RouteOf, LedgerTypeOK
<1>5. reservation'[k] = "reserved"
      BY <1>1 DEF LedgerTypeOK
<1> QED BY <1>4, <1>5

LEMMA SettlingKeepsOthers ==
  ASSUME LedgerTypeOK, NEW j \in Keys, Commit(j) \/ Release(j), NEW k \in Keys, k # j
  PROVE  reservation'[k] = reservation[k] /\ route' = route
BY DEF Commit, Release, Settles, LedgerTypeOK

Kept(k) ==
  reservation[k] = "reserved" =>
    /\ reservation'[k] = "reserved"
    /\ route[RowOf[k]].tier = "free" => route'[RowOf[k]].tier = "free"

LEMMA KeptBacked ==
  ASSUME NEW t, Backed(t), checkpoint'[t] = checkpoint[t],
         \A k \in DispatchKeys : TaskOf[k] = t => Kept(k)
  PROVE  Backed(t)'
BY DEF Backed, Kept

\* Writing one task's checkpoint leaves the others'.
LEMMA WrittenOthers ==
  ASSUME DispatchTypeOK, NEW t \in Tasks, NEW content, NEW lefts, Write(t, content, lefts),
         NEW u \in Tasks
  PROVE  checkpoint'[u] = IF u = t THEN content ELSE checkpoint[u]
BY DEF Write, DispatchTypeOK

\* A write for an admitted task, by its own key, while the ledger stands still.
LEMMA WrittenBacked ==
  ASSUME DispatchTypeOK, DispatchBacked, UNCHANGED ledger, NEW k \in DispatchKeys,
         NEW content, NEW lefts, Write(TaskOf[k], content, lefts), content.key = k,
         reservation[k] = "reserved",
         content.state # "DISPATCH_ADMITTED" => ApprovedFree(k)
  PROVE  DispatchBacked'
<1> SUFFICES ASSUME NEW u \in Tasks PROVE Backed(u)'
    BY BackedIsDispatchBacked DEF DispatchBacked, Backed
<1>1. TaskOf[k] \in Tasks
      BY DispatchAssumption
<1>2. reservation' = reservation /\ route' = route
      BY DEF ledger
<1>3. CASE u = TaskOf[k]
  <2>1. checkpoint'[u] = content
        BY <1>1, <1>3, WrittenOthers
  <2> QED BY <2>1, <1>2, <1>3 DEF Backed, ApprovedFree
<1>4. CASE u # TaskOf[k]
  <2>1. checkpoint'[u] = checkpoint[u]
        BY <1>1, <1>4, WrittenOthers
  <2>2. Backed(u)
        BY BackedIsDispatchBacked
  <2> QED BY <2>1, <2>2, <1>2, KeptBacked DEF Kept
<1> QED BY <1>3, <1>4

\* A task that waits needs no unit; the other tasks keep theirs if their keys do.
LEMMA WaitingBacked ==
  ASSUME DispatchTypeOK, DispatchBacked, NEW t \in Tasks, Write(t, Waiting, NoLefts),
         \A k \in DispatchKeys : TaskOf[k] # t => Kept(k)
  PROVE  DispatchBacked'
<1> SUFFICES ASSUME NEW u \in Tasks PROVE Backed(u)'
    BY BackedIsDispatchBacked DEF DispatchBacked, Backed
<1>1. CASE u = t
  <2>1. checkpoint'[u] = Waiting
        BY <1>1, WrittenOthers
  <2> QED BY <2>1 DEF Backed, Waiting, Bare, Content
<1>2. CASE u # t
  <2>1. checkpoint'[u] = checkpoint[u]
        BY <1>2, WrittenOthers
  <2>2. Backed(u)
        BY BackedIsDispatchBacked
  <2> QED BY <2>1, <2>2, <1>2, KeptBacked
<1> QED BY <1>1, <1>2

LEMMA UntouchedBacked ==
  ASSUME DispatchBacked, checkpoint' = checkpoint, \A k \in DispatchKeys : Kept(k)
  PROVE  DispatchBacked'
<1> SUFFICES ASSUME NEW u \in Tasks PROVE Backed(u)'
    BY BackedIsDispatchBacked DEF DispatchBacked, Backed
<1>1. Backed(u)
      BY BackedIsDispatchBacked
<1> QED BY <1>1, KeptBacked

LEMMA LedgerStepBacked ==
  ASSUME LedgerTypeOK, LedgerSound, DispatchBacked, UNCHANGED dispatchVars,
         \/ \E q \in Rows : RowEvent(q)
         \/ \E j \in Keys \ DispatchKeys : OtherDemand(j)
         \/ \E j \in DispatchKeys : Admit(j)
         \/ UNCHANGED vars
  PROVE  DispatchBacked'
<1>1. checkpoint' = checkpoint
      BY DEF dispatchVars
<1>2. DispatchKeys \subseteq Keys
      BY DispatchAssumption
<1>3. ASSUME NEW q \in Rows, RowEvent(q), NEW k \in DispatchKeys PROVE Kept(k)
      BY <1>2, <1>3, RowEventKeepsReserved DEF Kept
<1>4. ASSUME NEW j \in Keys, Reserve(j), NEW k \in DispatchKeys PROVE Kept(k)
      BY <1>2, <1>4, ReserveKeepsReserved DEF Kept
<1>5. ASSUME NEW j \in Keys \ DispatchKeys, OtherDemand(j), NEW k \in DispatchKeys PROVE Kept(k)
  <2>1. CASE Reserve(j)
        BY <2>1, <1>4
  <2>2. CASE Commit(j) \/ Release(j)
        BY <2>2, <1>2, SettlingKeepsOthers DEF Kept
  <2> QED BY <1>5, <2>1, <2>2 DEF OtherDemand
<1>6. ASSUME NEW j \in DispatchKeys, Admit(j), NEW k \in DispatchKeys PROVE Kept(k)
      BY <1>2, <1>4, <1>6 DEF Admit
<1>7. CASE UNCHANGED vars
  <2>1. \A k \in DispatchKeys : Kept(k)
        BY <1>7 DEF vars, ledger, Kept
  <2> QED BY <2>1, <1>1, UntouchedBacked
<1> QED BY <1>1, <1>3, <1>5, <1>6, <1>7, UntouchedBacked

LEMMA ScopeStepBacked ==
  ASSUME DispatchTypeOK, DispatchBacked, NEW s \in Scopes, PermitStep(s) \/ IntentStep(s)
  PROVE  DispatchBacked'
<1>1. UNCHANGED ledger
      BY ScopeStepLeavesLedger
<1>2. s.key \in DispatchKeys
      BY ScopeTyped
<1>3. ASSUME AdmittedWrite(TaskOf[s.key], s.key), ApprovedFree(s.key) PROVE DispatchBacked'
      BY <1>1, <1>2, <1>3, WrittenBacked DEF AdmittedWrite, QuietWrite, ApprovedFree
<1>4. CASE PermitStep(s)
      BY <1>3, <1>4, PermitStepWrites
<1>5. CASE \E state : Recover(s, state)
      BY <1>3, <1>5, RecoverWrites
<1>6. ASSUME NEW term \in Terms, NEW stamp \in Stamps, ClaimIntent(s, term, stamp)
      PROVE  DispatchBacked'
  <2>1. Write(TaskOf[s.key], ClaimContent(s, stamp), Lefts(0, term, 0)) /\ ApprovedFree(s.key)
        BY <1>6 DEF ClaimIntent, ClaimContent, Addressed
  <2>2. ClaimContent(s, stamp).key = s.key
        BY DEF ClaimContent, Content
  <2> QED BY <2>1, <2>2, <1>1, <1>2, WrittenBacked DEF ApprovedFree
<1>7. ASSUME NEW term \in Terms, AuthorizeCall(s, term) PROVE DispatchBacked'
  <2>1. /\ Write(TaskOf[s.key], CallContent(s), Lefts(0, left[TaskOf[s.key]].claim, term))
        /\ ApprovedFree(s.key)
        BY <1>7 DEF AuthorizeCall, CallContent, Addressed
  <2>2. CallContent(s).key = s.key
        BY DEF CallContent, Content
  <2> QED BY <2>1, <2>2, <1>1, <1>2, WrittenBacked DEF ApprovedFree
<1>8. CASE HearAgain(s)
  <2>1. checkpoint' = checkpoint
        BY <1>8 DEF HearAgain
  <2>2. \A k \in DispatchKeys : Kept(k)
        BY <1>1 DEF ledger, Kept
  <2> QED BY <2>1, <2>2, UntouchedBacked
<1> QED
    BY <1>4, <1>5, <1>6, <1>7, <1>8
    DEF IntentStep, CancelIntent, CancelCall, ReclaimExpiredIntent, ReclaimExpiredCall

LEMMA BackedStep ==
  TypeOK /\ LedgerSound /\ DispatchBacked /\ [Next]_vars => DispatchBacked'
<1> SUFFICES ASSUME TypeOK, LedgerSound, DispatchBacked, [Next]_vars PROVE DispatchBacked'
    OBVIOUS
<1>1. LedgerTypeOK /\ DispatchTypeOK
      BY TypeSplit
<1>2. CASE \/ \E q \in Rows : RowEvent(q) /\ UNCHANGED dispatchVars
           \/ \E j \in Keys \ DispatchKeys : OtherDemand(j)
           \/ \E j \in DispatchKeys : Admit(j)
           \/ UNCHANGED vars
      BY <1>1, <1>2, LedgerStepBacked DEF OtherDemand, Admit, vars
<1>3. ASSUME NEW t \in Tasks, PersistWaiting(t) PROVE DispatchBacked'
  <2>1. Write(t, Waiting, NoLefts) /\ UNCHANGED ledger
        BY <1>3 DEF PersistWaiting
  <2>2. \A k \in DispatchKeys : Kept(k)
        BY <2>1 DEF ledger, Kept
  <2> QED BY <2>1, <2>2, <1>1, WaitingBacked
<1>4. ASSUME NEW k \in DispatchKeys, ClaimAdmission(k) PROVE DispatchBacked'
  <2>1. /\ Write(TaskOf[k], Bare("DISPATCH_ADMITTED", k), NoLefts) /\ UNCHANGED ledger
        /\ reservation[k] = "reserved"
        BY <1>4 DEF ClaimAdmission
  <2>2. /\ Bare("DISPATCH_ADMITTED", k).key = k
        /\ Bare("DISPATCH_ADMITTED", k).state = "DISPATCH_ADMITTED"
        BY DEF Bare, Content
  <2> QED BY <2>1, <2>2, <1>1, WrittenBacked
<1>5. ASSUME NEW k \in DispatchKeys, ReleaseAdmission(k) PROVE DispatchBacked'
  <2>1. Write(TaskOf[k], Waiting, NoLefts) /\ route' = route
        BY <1>5 DEF ReleaseAdmission
  <2>2. TaskOf[k] \in Tasks /\ k \in Keys
        BY DispatchAssumption
  <2>3. ASSUME NEW j \in DispatchKeys, TaskOf[j] # TaskOf[k] PROVE Kept(j)
    <3>1. reservation'[j] = reservation[j]
          BY <1>1, <1>5, <2>2, <2>3, DispatchAssumption
          DEF ReleaseAdmission, ReturnUnit, LedgerTypeOK
    <3> QED BY <3>1, <2>1 DEF Kept
  <2> QED BY <2>1, <2>2, <2>3, <1>1, WaitingBacked
<1>6. ASSUME checkpoint' = checkpoint, UNCHANGED ledger PROVE DispatchBacked'
  <2>1. \A k \in DispatchKeys : Kept(k)
        BY <1>6 DEF ledger, Kept
  <2> QED BY <2>1, <1>6, UntouchedBacked
<1>7. CASE Tick
      BY <1>6, <1>7 DEF Tick
<1>8. ASSUME NEW t \in Tasks, GiveUp(t) PROVE DispatchBacked'
      BY <1>6, <1>8 DEF GiveUp
<1> QED BY <1>1, <1>2, <1>3, <1>4, <1>5, <1>7, <1>8, ScopeStepBacked DEF Next

\* A task that was admitted to a provider keeps its unit of that provider's free
\* tier, however far it gets: nobody can release it, reconfigure its row or let
\* a trial run out under it.
THEOREM AdmissionsStayBacked == Spec => []DispatchBacked
<1>1. Init => DispatchBacked
      BY DEF Init, DispatchInit, DispatchBacked, Bare, Content
<1> QED BY <1>1, BackedStep, TypeCorrect, LedgerCorrect, PTL DEF Spec

-----------------------------------------------------------------------------
\* What HoldersAreCurrent needs to be inductive: only claimed contents name a
\* worker; a belief is a claim or a call with time left, and a claim while the
\* intent is only claimed; nobody relies on the content the last cancelling
\* call expects; a call that was sent for this claim before it was authorized
\* will not fit its authorization; and no authorization ends after its claim.
ClaimedHaveWorkers ==
  \A t \in Tasks : checkpoint[t].state \notin Claimed => checkpoint[t].worker = None
BeliefsRun ==
  \A w \in Workers :
    held[w].task # None => held[w].left > 0 /\ held[w].what \in {"claim", "call"}
ClaimsUnused ==
  \A w \in Workers, t \in Tasks :
    held[w].task = t /\ held[w].what = "claim" => In(t, "DISPATCH_INTENT_CLAIMED")
NobodyReliesOnGivenUp ==
  \A t \in Tasks : Expected(t) => \A w \in Workers : held[w].task # t
GivenUpBeforeUse ==
  \A t \in Tasks :
    /\ In(t, "DISPATCH_INTENT_CLAIMED")
    /\ givingUp[t].claimedAt = checkpoint[t].claimedAt
    => givingUp[t].state = "DISPATCH_INTENT_CLAIMED"
CallsWithinClaims == \A t \in Tasks : left[t].call <= left[t].claim

Current ==
  /\ HoldersAreCurrent /\ ClaimedHaveWorkers /\ BeliefsRun /\ ClaimsUnused
  /\ NobodyReliesOnGivenUp /\ GivenUpBeforeUse /\ CallsWithinClaims

LEMMA CurrentInit == Init => Current
<1> SUFFICES ASSUME Init PROVE Current
    OBVIOUS
<1>1. \A w \in Workers : held[w].task = None
      BY DEF Init, DispatchInit, NoHold, Hold
<1>2. \A t \in Tasks : checkpoint[t].state = "absent" /\ checkpoint[t].worker = None
      BY DEF Init, DispatchInit, Bare, Content
<1>3. CallsWithinClaims
      BY DEF Init, DispatchInit, NoLefts, Lefts, CallsWithinClaims
<1> QED
    BY <1>1, <1>2, <1>3, NoneDistinct
    DEF Current, HoldersAreCurrent, ClaimedHaveWorkers, BeliefsRun, ClaimsUnused,
        NobodyReliesOnGivenUp, GivenUpBeforeUse, In

\* A task that is not claimed has no holder.
LEMMA UnclaimedUnheld ==
  ASSUME Current, NEW t \in Tasks, checkpoint[t].state \notin Claimed, NEW w \in Workers
  PROVE  held[w].task # t
BY NoneDistinct DEF Current, HoldersAreCurrent, ClaimedHaveWorkers

LEMMA WrittenLefts ==
  ASSUME DispatchTypeOK, NEW t \in Tasks, NEW content, NEW lefts, Write(t, content, lefts),
         NEW u \in Tasks
  PROVE  left'[u] = IF u = t THEN lefts ELSE left[u]
BY DEF Write, DispatchTypeOK

\* Writing an unclaimed content where nobody holds anything is safe, and so is
\* dropping beliefs.
LEMMA QuietCurrent ==
  ASSUME DispatchTypeOK, Current, NEW t \in Tasks, NEW content, NEW lefts,
         QuietWrite(t, content, lefts),
         \A w \in Workers : held'[w] = held[w] \/ held'[w] = NoHold,
         \A w \in Workers : held'[w].task # t
  PROVE  Current'
<1>1. /\ \A u \in Tasks : checkpoint'[u] = IF u = t THEN content ELSE checkpoint[u]
      /\ \A u \in Tasks : left'[u] = IF u = t THEN lefts ELSE left[u]
      BY WrittenOthers, WrittenLefts DEF QuietWrite
<1>2. givingUp' = givingUp /\ content.worker = None /\ content.state \notin Claimed
      BY DEF QuietWrite
<1>3. NoHold.task = None
      BY DEF NoHold, Hold
<1>4. ASSUME NEW w \in Workers, NEW u \in Tasks, held'[w].task = u
      PROVE  /\ held'[w] = held[w] /\ u # t
             /\ checkpoint'[u] = checkpoint[u] /\ left'[u] = left[u]
      BY <1>1, <1>3, <1>4, NoneDistinct
<1>5. HoldersAreCurrent'
      BY <1>4 DEF Current, HoldersAreCurrent, In
<1>6. ClaimedHaveWorkers'
      BY <1>1, <1>2 DEF Current, ClaimedHaveWorkers
<1>7. BeliefsRun'
      BY <1>3 DEF Current, BeliefsRun
<1>8. ClaimsUnused'
      BY <1>4 DEF Current, ClaimsUnused, In
<1>9. NobodyReliesOnGivenUp'
      BY <1>2, <1>4 DEF Current, NobodyReliesOnGivenUp, Expected
<1>10. GivenUpBeforeUse'
      BY <1>1, <1>2 DEF Current, GivenUpBeforeUse, In, Claimed
<1>11. CallsWithinClaims'
  <2>1. lefts.call <= lefts.claim
        BY DEF QuietWrite, LeftsType
  <2> QED BY <2>1, <1>1 DEF Current, CallsWithinClaims
<1> QED BY <1>5, <1>6, <1>7, <1>8, <1>9, <1>10, <1>11 DEF Current

LEMMA UnheldCurrent ==
  ASSUME DispatchTypeOK, Current, NEW t \in Tasks, NEW content, NEW lefts,
         QuietWrite(t, content, lefts), UNCHANGED held,
         \A w \in Workers : held[w].task # t
  PROVE  Current'
BY QuietCurrent

LEMMA PersistCurrent ==
  ASSUME DispatchTypeOK, Current, NEW t \in Tasks, PersistWaiting(t)
  PROVE  Current'
<1>1. QuietWrite(t, Waiting, NoLefts)
      BY WaitingWrites DEF PersistWaiting
<1>2. \A w \in Workers : held'[w] = IF held[w].task = t THEN NoHold ELSE held[w]
      BY DEF PersistWaiting
<1>3. NoHold.task # t
      BY NoneDistinct DEF NoHold, Hold
<1> QED BY <1>1, <1>2, <1>3, QuietCurrent

\* Cancelling is only for the content that was given up, reclaiming only for an
\* expired one; neither has a holder.
LEMMA RecoverCurrent ==
  ASSUME DispatchTypeOK, Current, NEW s \in Scopes,
         \/ CancelIntent(s) \/ CancelCall(s)
         \/ ReclaimExpiredIntent(s) \/ ReclaimExpiredCall(s)
  PROVE  Current'
<1> DEFINE t == TaskOf[s.key]
<1>1. t \in Tasks
      BY ScopeTyped
<1>2. PICK state : Recover(s, state)
      BY DEF CancelIntent, CancelCall, ReclaimExpiredIntent, ReclaimExpiredCall
<1>3. ASSUME NEW w \in Workers PROVE held[w].task # t
  <2> SUFFICES ASSUME held[w].task = t PROVE FALSE
      OBVIOUS
  <2>1. /\ held[w].left > 0 /\ held[w].what \in {"claim", "call"}
        /\ held[w].left <= left[t].claim
        /\ held[w].what = "call" => held[w].left <= left[t].call
        /\ held[w].what = "claim" => In(t, "DISPATCH_INTENT_CLAIMED")
        BY <1>1, NoneDistinct
        DEF Current, BeliefsRun, HoldersAreCurrent, ClaimsUnused
  <2>2. /\ held[w].left \in Nat /\ left[t].claim \in Nat /\ left[t].call \in Nat
        BY <1>1 DEF DispatchTypeOK, HeldType, LeftsType
  <2>3. CASE Expected(t)
        BY <2>3, <1>1 DEF Current, NobodyReliesOnGivenUp
  <2>4. CASE left[t].claim = 0
        BY <2>4, <2>1, <2>2
  <2>5. CASE left[t].call = 0 /\ In(t, "DISPATCH_CALL_AUTHORIZED")
    <3>1. held[w].what = "call"
          BY <2>1, <2>5 DEF In
    <3> QED BY <3>1, <2>1, <2>2, <2>5
  <2> QED
      BY <2>3, <2>4, <2>5
      DEF CancelIntent, CancelCall, ReclaimExpiredIntent, ReclaimExpiredCall, LeftOf, Recover,
          Addressed
<1>4. AdmittedWrite(t, s.key) /\ UNCHANGED held
      BY <1>2, RecoverWrites
<1> QED BY <1>1, <1>3, <1>4, UnheldCurrent DEF AdmittedWrite

LEMMA PermitStepCurrent ==
  ASSUME DispatchTypeOK, Current, NEW s \in Scopes, PermitStep(s)
  PROVE  Current'
<1>1. /\ AdmittedWrite(TaskOf[s.key], s.key) /\ UNCHANGED held
      /\ checkpoint[TaskOf[s.key]].state \notin Claimed
      BY PermitStepWrites
<1> QED BY <1>1, ScopeTyped, UnclaimedUnheld, UnheldCurrent DEF AdmittedWrite

\* What a claim and an authorization have in common: the worker may hear of what
\* was just written for it, nobody else relies on the task, and the last
\* cancelling call expects something else.
Grants(t, content, lefts, w, what, time) ==
  /\ Write(t, content, lefts) /\ UNCHANGED givingUp
  /\ Hear(w, Hold(t, what, time))
  /\ content.worker = w /\ content.state \in Claimed
  /\ lefts.call <= lefts.claim /\ time <= lefts.claim
  /\ what = "claim" => content.state = "DISPATCH_INTENT_CLAIMED"
  /\ what = "call" => content.state = "DISPATCH_CALL_AUTHORIZED" /\ time <= lefts.call
  /\ givingUp[t] # content
  /\ \/ content.state # "DISPATCH_INTENT_CLAIMED"
     \/ givingUp[t].claimedAt # content.claimedAt
  /\ \A v \in Workers : v # w => held[v].task # t

LEMMA HeardCurrent ==
  ASSUME DispatchTypeOK, Current, NEW t \in Tasks, NEW content, NEW lefts,
         NEW w \in Workers, NEW what \in {"claim", "call"}, NEW time \in Nat \ {0},
         Grants(t, content, lefts, w, what, time)
  PROVE  Current'
<1> USE DEF Grants
<1>1. /\ \A u \in Tasks : checkpoint'[u] = IF u = t THEN content ELSE checkpoint[u]
      /\ \A u \in Tasks : left'[u] = IF u = t THEN lefts ELSE left[u]
      BY WrittenOthers, WrittenLefts
<1>2. PICK heard \in {Hold(t, what, time), NoHold} :
        \A v \in Workers : held'[v] = IF v = w THEN heard ELSE held[v]
      BY DEF Hear, DispatchTypeOK
<1>3. /\ Hold(t, what, time).task = t /\ Hold(t, what, time).what = what
      /\ Hold(t, what, time).left = time
      BY DEF Hold
<1>4. NoHold.task = None
      BY DEF NoHold, Hold
<1>5. ASSUME NEW v \in Workers, NEW u \in Tasks, held'[v].task = u
      PROVE  \/ v = w /\ u = t /\ held'[v] = Hold(t, what, time)
             \/ /\ v # w /\ u # t /\ held'[v] = held[v]
                /\ checkpoint'[u] = checkpoint[u] /\ left'[u] = left[u]
      BY <1>1, <1>2, <1>3, <1>4, <1>5, NoneDistinct
<1>6. HoldersAreCurrent'
  <2> SUFFICES ASSUME NEW v \in Workers, NEW u \in Tasks, held'[v].task = u
               PROVE  /\ checkpoint'[u].worker = v
                      /\ held'[v].left <= left'[u].claim
                      /\ held'[v].what = "call" =>
                           /\ checkpoint'[u].state = "DISPATCH_CALL_AUTHORIZED"
                           /\ held'[v].left <= left'[u].call
      BY DEF HoldersAreCurrent, In
  <2>1. CASE v = w /\ u = t /\ held'[v] = Hold(t, what, time)
        BY <2>1, <1>1, <1>3
  <2>2. CASE /\ v # w /\ u # t /\ held'[v] = held[v]
             /\ checkpoint'[u] = checkpoint[u] /\ left'[u] = left[u]
        BY <2>2 DEF Current, HoldersAreCurrent, In
  <2> QED BY <1>5, <2>1, <2>2
<1>7. ClaimedHaveWorkers'
      BY <1>1 DEF Current, ClaimedHaveWorkers
<1>8. BeliefsRun'
      BY <1>2, <1>3, <1>4 DEF Current, BeliefsRun
<1>9. ClaimsUnused'
  <2> SUFFICES ASSUME NEW v \in Workers, NEW u \in Tasks,
                      held'[v].task = u, held'[v].what = "claim"
               PROVE  checkpoint'[u].state = "DISPATCH_INTENT_CLAIMED"
      BY DEF ClaimsUnused, In
  <2>1. CASE v = w /\ u = t /\ held'[v] = Hold(t, what, time)
        BY <2>1, <1>1, <1>3
  <2>2. CASE held'[v] = held[v] /\ checkpoint'[u] = checkpoint[u]
        BY <2>2 DEF Current, ClaimsUnused, In
  <2> QED BY <1>5, <2>1, <2>2
<1>10. NobodyReliesOnGivenUp'
  <2> SUFFICES ASSUME NEW u \in Tasks, givingUp'[u] = checkpoint'[u],
                      NEW v \in Workers, held'[v].task = u
               PROVE  FALSE
      BY DEF NobodyReliesOnGivenUp, Expected
  <2>1. u # t
        BY <1>1
  <2>2. held'[v] = held[v] /\ checkpoint'[u] = checkpoint[u]
        BY <1>5, <2>1
  <2> QED BY <2>2 DEF Current, NobodyReliesOnGivenUp, Expected
<1>11. GivenUpBeforeUse'
       BY <1>1 DEF Current, GivenUpBeforeUse, In
<1>12. CallsWithinClaims'
       BY <1>1 DEF Current, CallsWithinClaims
<1> QED BY <1>6, <1>7, <1>8, <1>9, <1>10, <1>11, <1>12 DEF Current

LEMMA ClaimIntentCurrent ==
  ASSUME DispatchTypeOK, Current, NEW s \in Scopes, NEW term \in Terms, NEW stamp \in Stamps,
         ClaimIntent(s, term, stamp)
  PROVE  Current'
<1> DEFINE t == TaskOf[s.key]
           content == ClaimContent(s, stamp)
           lefts == Lefts(0, term, 0)
<1>1. /\ t \in Tasks /\ s.worker \in Workers /\ term \in Nat \ {0}
      BY ScopeTyped, DispatchAssumption
<1>2. /\ Write(t, content, lefts) /\ UNCHANGED givingUp
      /\ Hear(s.worker, Hold(t, "claim", term)) /\ givingUp[t].claimedAt # stamp
      /\ checkpoint[t].state \notin Claimed
      BY DEF ClaimIntent, ClaimContent, Addressed, In, Claimed
<1>3. /\ content.worker = s.worker /\ content.state = "DISPATCH_INTENT_CLAIMED"
      /\ content.claimedAt = stamp /\ content.state \in Claimed /\ lefts.claim = term
      /\ lefts.call <= lefts.claim /\ term <= term
      BY <1>1 DEF ClaimContent, Content, Claimed, Lefts
<1>4. \A v \in Workers : held[v].task # t
      BY <1>1, <1>2, UnclaimedUnheld
<1>5. givingUp[t] # content
      BY <1>2, <1>3
<1> HIDE DEF t, content, lefts
<1>6. Grants(t, content, lefts, s.worker, "claim", term)
      BY <1>2, <1>3, <1>4, <1>5 DEF Grants
<1> QED BY <1>1, <1>6, HeardCurrent

\* The authorization uses up the claim of the one worker that may hold it.
LEMMA AuthorizeCallCurrent ==
  ASSUME DispatchTypeOK, Current, NEW s \in Scopes, NEW term \in Terms,
         AuthorizeCall(s, term)
  PROVE  Current'
<1> DEFINE t == TaskOf[s.key]
           content == CallContent(s)
           lefts == Lefts(0, left[t].claim, term)
<1>1. /\ t \in Tasks /\ s.worker \in Workers /\ term \in Nat \ {0}
      BY ScopeTyped, DispatchAssumption
<1>2. /\ Write(t, content, lefts) /\ UNCHANGED givingUp
      /\ Hear(s.worker, Hold(t, "call", term))
      /\ In(t, "DISPATCH_INTENT_CLAIMED") /\ checkpoint[t].worker = s.worker
      /\ term <= left[t].claim
      BY DEF AuthorizeCall, CallContent, Addressed, HasClaim, WithinClaim, LeftOf
<1>3. /\ content.worker = s.worker /\ content.state = "DISPATCH_CALL_AUTHORIZED"
      /\ content.claimedAt = checkpoint[t].claimedAt /\ content.state \in Claimed
      /\ lefts.claim = left[t].claim /\ lefts.call = term
      BY DEF CallContent, Content, Claimed, Lefts
<1>4. \A v \in Workers : v # s.worker => held[v].task # t
      BY <1>1, <1>2 DEF Current, HoldersAreCurrent
<1>5. givingUp[t] # content
      BY <1>1, <1>2, <1>3 DEF Current, GivenUpBeforeUse
<1> HIDE DEF t, content, lefts
<1>6. lefts.call <= lefts.claim /\ term <= lefts.claim /\ term <= lefts.call
      BY <1>1, <1>2, <1>3
<1>7. Grants(t, content, lefts, s.worker, "call", term)
      BY <1>2, <1>3, <1>4, <1>5, <1>6 DEF Grants
<1> QED BY <1>1, <1>7, HeardCurrent

LEMMA HearAgainCurrent ==
  ASSUME DispatchTypeOK, Current, NEW s \in Scopes, HearAgain(s)
  PROVE  Current'
<1> DEFINE t == TaskOf[s.key]
           claim == Hold(t, "claim", left[t].claim)
           call == Hold(t, "call", left[t].call)
<1>1. t \in Tasks /\ s.worker \in Workers
      BY ScopeTyped
<1>2. /\ left[t].claim \in Nat /\ left[t].call \in Nat /\ left[t].call <= left[t].claim
      BY <1>1 DEF DispatchTypeOK, LeftsType, Current, CallsWithinClaims
<1>3. PICK hold \in {claim, call} :
        /\ held' = [held EXCEPT ![s.worker] = hold]
        /\ hold = claim => In(t, "DISPATCH_INTENT_CLAIMED") /\ left[t].claim > 0
        /\ hold = call => In(t, "DISPATCH_CALL_AUTHORIZED") /\ left[t].call > 0
      BY DEF HearAgain, Hold
<1>4. /\ claim.task = t /\ claim.what = "claim" /\ claim.left = left[t].claim
      /\ call.task = t /\ call.what = "call" /\ call.left = left[t].call
      BY DEF Hold
<1>5. /\ UNCHANGED <<checkpoint, left, givingUp>>
      /\ checkpoint[t].worker = s.worker /\ ~Expected(t)
      BY DEF HearAgain, HasClaim
<1> HIDE DEF claim, call, t
<1>6. \A v \in Workers : held'[v] = IF v = s.worker THEN hold ELSE held[v]
      BY <1>3 DEF DispatchTypeOK
<1>7. /\ hold.task = t /\ hold.left > 0 /\ hold.left <= left[t].claim
      /\ hold.what \in {"claim", "call"}
      /\ hold.what = "claim" => In(t, "DISPATCH_INTENT_CLAIMED")
      /\ hold.what = "call" => In(t, "DISPATCH_CALL_AUTHORIZED") /\ hold.left <= left[t].call
      BY <1>2, <1>3, <1>4
<1>8. HoldersAreCurrent'
      BY <1>1, <1>5, <1>6, <1>7 DEF Current, HoldersAreCurrent, In
<1>9. BeliefsRun' /\ ClaimsUnused'
      BY <1>1, <1>5, <1>6, <1>7 DEF Current, BeliefsRun, ClaimsUnused, In
<1>10. NobodyReliesOnGivenUp'
       BY <1>5, <1>6, <1>7 DEF Current, NobodyReliesOnGivenUp, Expected
<1>11. ClaimedHaveWorkers' /\ GivenUpBeforeUse' /\ CallsWithinClaims'
       BY <1>5 DEF Current, ClaimedHaveWorkers, GivenUpBeforeUse, CallsWithinClaims, In
<1> QED BY <1>8, <1>9, <1>10, <1>11 DEF Current

LEMMA GiveUpCurrent ==
  ASSUME DispatchTypeOK, Current, NEW t \in Tasks, GiveUp(t)
  PROVE  Current'
<1> DEFINE giver == checkpoint[t].worker
<1>1. /\ UNCHANGED <<checkpoint, left>>
      /\ held' = [held EXCEPT ![giver] = NoHold]
      /\ \A u \in Tasks : givingUp'[u] = IF u = t THEN checkpoint[t] ELSE givingUp[u]
      BY DEF GiveUp, DispatchTypeOK
<1>2. NoHold.task = None
      BY DEF NoHold, Hold
<1> HIDE DEF giver
<1>3. \A v \in Workers : held'[v] = IF v = giver THEN NoHold ELSE held[v]
      BY <1>1 DEF DispatchTypeOK
<1>4. ASSUME NEW v \in Workers, NEW u \in Tasks, held'[v].task = u
      PROVE  held'[v] = held[v] /\ v # giver
      BY <1>2, <1>3, <1>4, NoneDistinct
<1>5. HoldersAreCurrent'
      BY <1>1, <1>4 DEF Current, HoldersAreCurrent, In
<1>6. BeliefsRun'
      BY <1>2, <1>3 DEF Current, BeliefsRun
<1>7. ClaimsUnused'
      BY <1>1, <1>4 DEF Current, ClaimsUnused, In
<1>8. NobodyReliesOnGivenUp'
  <2> SUFFICES ASSUME NEW u \in Tasks, givingUp'[u] = checkpoint'[u],
                      NEW v \in Workers, held'[v].task = u
               PROVE  FALSE
      BY DEF NobodyReliesOnGivenUp, Expected
  <2>1. held[v].task = u /\ v # giver
        BY <1>4
  <2>2. checkpoint[u].worker = v
        BY <2>1 DEF Current, HoldersAreCurrent
  <2>3. CASE u = t
        BY <2>1, <2>2, <2>3 DEF giver
  <2>4. CASE u # t
        BY <2>1, <2>4, <1>1 DEF Current, NobodyReliesOnGivenUp, Expected
  <2> QED BY <2>3, <2>4
<1>9. GivenUpBeforeUse'
      BY <1>1 DEF Current, GivenUpBeforeUse, In
<1>10. ClaimedHaveWorkers' /\ CallsWithinClaims'
       BY <1>1 DEF Current, ClaimedHaveWorkers, CallsWithinClaims
<1> QED BY <1>5, <1>6, <1>7, <1>8, <1>9, <1>10 DEF Current

\* Time passes for the beliefs and for the records alike.
LEMMA TickCurrent ==
  ASSUME DispatchTypeOK, Current, Tick
  PROVE  Current'
<1>1. UNCHANGED <<checkpoint, givingUp>>
      BY DEF Tick
<1>2. \A t \in Tasks : /\ left'[t].claim = Down(left[t].claim)
                       /\ left'[t].call = Down(left[t].call)
      BY DEF Tick, Ticked, Lefts
<1>3. \A t \in Tasks : left[t].claim \in Nat /\ left[t].call \in Nat
      BY DEF DispatchTypeOK, LeftsType
<1>4. NoHold.task = None
      BY DEF NoHold, Hold
<1>5. ASSUME NEW v \in Workers
      PROVE  \/ held'[v].task = None
             \/ /\ held'[v].task = held[v].task /\ held'[v].what = held[v].what
                /\ held'[v].left = held[v].left - 1 /\ held[v].left > 1
                /\ held[v].left \in Nat
  <2>1. held[v].left \in Nat
        BY DEF DispatchTypeOK, HeldType
  <2>2. held'[v] = IF held[v].left <= 1 THEN NoHold
                   ELSE Hold(held[v].task, held[v].what, held[v].left - 1)
        BY DEF Tick
  <2>3. CASE held[v].left <= 1
        BY <2>2, <2>3, <1>4
  <2>4. CASE held[v].left > 1
    <3>1. held'[v] = Hold(held[v].task, held[v].what, held[v].left - 1)
          BY <2>1, <2>2, <2>4
    <3> QED BY <3>1, <2>1, <2>4 DEF Hold
  <2> QED BY <2>1, <2>3, <2>4
<1>6. ASSUME NEW v \in Workers, NEW t \in Tasks, held'[v].task = t
      PROVE  /\ held[v].task = t /\ held'[v].what = held[v].what
             /\ held'[v].left = held[v].left - 1 /\ held[v].left > 1
             /\ held[v].left \in Nat
      BY <1>5, <1>6, NoneDistinct
<1>7. HoldersAreCurrent'
  <2> SUFFICES ASSUME NEW v \in Workers, NEW t \in Tasks, held'[v].task = t
               PROVE  /\ checkpoint'[t].worker = v
                      /\ held'[v].left <= left'[t].claim
                      /\ held'[v].what = "call" =>
                           /\ checkpoint'[t].state = "DISPATCH_CALL_AUTHORIZED"
                           /\ held'[v].left <= left'[t].call
      BY DEF HoldersAreCurrent, In
  <2>1. /\ checkpoint[t].worker = v /\ held[v].left <= left[t].claim
        /\ held[v].what = "call" => /\ checkpoint[t].state = "DISPATCH_CALL_AUTHORIZED"
                                    /\ held[v].left <= left[t].call
        BY <1>6 DEF Current, HoldersAreCurrent, In
  <2>2. held'[v].left <= left'[t].claim
        BY <2>1, <1>2, <1>3, <1>6, DownTyped
  <2>3. held'[v].what = "call" => held'[v].left <= left'[t].call
        BY <2>1, <1>2, <1>3, <1>6, DownTyped
  <2> QED BY <2>1, <2>2, <2>3, <1>1, <1>6
<1>8. BeliefsRun'
  <2> SUFFICES ASSUME NEW v \in Workers, held'[v].task # None
               PROVE  held'[v].left > 0 /\ held'[v].what \in {"claim", "call"}
      BY DEF BeliefsRun
  <2>1. /\ held'[v].task = held[v].task /\ held'[v].what = held[v].what
        /\ held'[v].left = held[v].left - 1 /\ held[v].left > 1 /\ held[v].left \in Nat
        BY <1>5
  <2> QED BY <2>1 DEF Current, BeliefsRun
<1>9. ClaimsUnused'
      BY <1>1, <1>6 DEF Current, ClaimsUnused, In
<1>10. NobodyReliesOnGivenUp'
       BY <1>1, <1>6 DEF Current, NobodyReliesOnGivenUp, Expected
<1>11. ClaimedHaveWorkers' /\ GivenUpBeforeUse'
       BY <1>1 DEF Current, ClaimedHaveWorkers, GivenUpBeforeUse, In
<1>12. CallsWithinClaims'
  <2> SUFFICES ASSUME NEW t \in Tasks PROVE left'[t].call <= left'[t].claim
      BY DEF CallsWithinClaims
  <2>1. left[t].call <= left[t].claim
        BY DEF Current, CallsWithinClaims
  <2>2. Down(left[t].call) <= Down(left[t].claim)
        BY <2>1, <1>3 DEF Down
  <2> QED BY <2>2, <1>2
<1> QED BY <1>7, <1>8, <1>9, <1>10, <1>11, <1>12 DEF Current

LEMMA CurrentStep == TypeOK /\ Current /\ [Next]_vars => Current'
<1> SUFFICES ASSUME TypeOK, Current, [Next]_vars PROVE Current'
    OBVIOUS
<1>1. DispatchTypeOK
      BY TypeSplit
<1>2. CASE UNCHANGED dispatchVars
      BY <1>2
      DEF dispatchVars, Current, HoldersAreCurrent, ClaimedHaveWorkers, BeliefsRun, ClaimsUnused,
          NobodyReliesOnGivenUp, GivenUpBeforeUse, CallsWithinClaims, Expected, In
<1>3. ASSUME NEW t \in Tasks, PersistWaiting(t) \/ GiveUp(t) PROVE Current'
      BY <1>1, <1>3, PersistCurrent, GiveUpCurrent
<1>4. ASSUME NEW k \in DispatchKeys, ClaimAdmission(k) PROVE Current'
  <2>1. /\ AdmittedWrite(TaskOf[k], k) /\ UNCHANGED held
        /\ checkpoint[TaskOf[k]].state \notin Claimed
        BY <1>4, AdmitWrites DEF ClaimAdmission, In, Claimed
  <2> QED
      BY <2>1, <1>1, UnclaimedUnheld, UnheldCurrent, DispatchAssumption DEF AdmittedWrite
<1>5. ASSUME NEW k \in DispatchKeys, ReleaseAdmission(k) PROVE Current'
  <2>1. /\ QuietWrite(TaskOf[k], Waiting, NoLefts) /\ UNCHANGED held
        /\ checkpoint[TaskOf[k]].state \notin Claimed
        BY <1>5, WaitingWrites DEF ReleaseAdmission, Releasable, In, Claimed
  <2> QED BY <2>1, <1>1, UnclaimedUnheld, UnheldCurrent, DispatchAssumption
<1>6. ASSUME NEW s \in Scopes, IntentStep(s) PROVE Current'
      BY <1>1, <1>6, ClaimIntentCurrent, AuthorizeCallCurrent, HearAgainCurrent, RecoverCurrent
      DEF IntentStep
<1> QED
    BY <1>1, <1>2, <1>3, <1>4, <1>5, <1>6, StepCases, PermitStepCurrent, TickCurrent

\* Two workers never both hold one intent, and none holds it longer than the
\* checkpoint says, whatever answers were lost and cancelling calls were late.
THEOREM HoldersStayCurrent == Spec => []HoldersAreCurrent
<1>1. Current => HoldersAreCurrent
      BY DEF Current
<1> QED BY <1>1, CurrentInit, CurrentStep, TypeCorrect, PTL DEF Spec
=============================================================================
