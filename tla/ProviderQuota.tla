---------------------------- MODULE ProviderQuota ----------------------------
(***************************************************************************)
(* The ledger of free provider capacity (quotas/postgresQuotaRepository.js *)
(* over sql/013).  A row of provider_quota_limits is one slot, provider and*)
(* credential of an agent; a reservation is found by its idempotency key   *)
(* and takes one unit of its row until it is committed (used) or released. *)
(* Every operation is one transaction that locks the row first.            *)
(*                                                                         *)
(* Time is abstract: that a cooldown, a trial or a quota window is over is *)
(* an event.  Every caller reserves one unit, and a key always names the   *)
(* same row (another row under a used key is refused).                     *)
(***************************************************************************)
EXTENDS Integers, FiniteSets

CONSTANTS
  Rows,      \* rows of provider_quota_limits
  Keys,      \* idempotency keys of reservations
  RowOf,     \* the row a key's caller asks for
  Offers,    \* [row -> tiers, with or without a reset_at, an owner configures]
  MaxLimit   \* bound: the largest limit an owner configures

ASSUME ProviderQuotaAssumption ==
  /\ IsFiniteSet(Keys)
  /\ RowOf \in [Keys -> Rows]
  /\ Offers \in [Rows -> SUBSET [tier : {"free", "trial", "expired"}, window : BOOLEAN]]
  /\ MaxLimit \in Nat \ {0}

VARIABLES
  limit,        \* quota_limit; 0: the row has not been configured
  usage,        \* usage_count
  reserved,     \* reserved_count
  route,        \* [row -> its tier, and whether reset_at and a cooldown are set]
  reservation   \* [key -> status of its row in provider_quota_reservations]

ledger == <<limit, usage, reserved, route, reservation>>

-----------------------------------------------------------------------------
ReservationStatuses == {"none", "reserved", "committed", "released"}

\* "expired" is a trial tier whose trial_expires_at has passed.
Tiers == {"free", "trial", "expired"}

RouteOf(tier, window, cooling) == [tier |-> tier, window |-> window, cooling |-> cooling]

QuotaInit ==
  /\ limit = [q \in Rows |-> 0]
  /\ usage = [q \in Rows |-> 0]
  /\ reserved = [q \in Rows |-> 0]
  /\ route = [q \in Rows |-> RouteOf("free", FALSE, FALSE)]
  /\ reservation = [k \in Keys |-> "none"]

Configured(q) == limit[q] > 0

\* A mutant: a row is overwritten under its reservations.
ReconfigurableAlways(q) == q \in Rows
\* No reservation holds a unit of the row.
Reconfigurable(q) == reserved[q] = 0

\* Insert or overwrite.
ConfigureQuota(q, n, u, offer) ==
  /\ Reconfigurable(q)
  /\ u <= n
  /\ limit' = [limit EXCEPT ![q] = n]
  /\ usage' = [usage EXCEPT ![q] = u]
  /\ route' = [route EXCEPT ![q] = RouteOf(offer.tier, offer.window, route[q].cooling)]
  /\ UNCHANGED <<reserved, reservation>>

RecordCooldown(q) ==
  /\ Configured(q)
  /\ route' = [route EXCEPT ![q] = RouteOf(route[q].tier, route[q].window, TRUE)]
  /\ UNCHANGED <<limit, usage, reserved, reservation>>

CooldownOver(q) ==
  /\ route[q].cooling
  /\ route' = [route EXCEPT ![q] = RouteOf(route[q].tier, route[q].window, FALSE)]
  /\ UNCHANGED <<limit, usage, reserved, reservation>>

TrialOver(q) ==
  /\ route[q].tier = "trial"
  /\ route' = [route EXCEPT ![q] = RouteOf("expired", route[q].window, route[q].cooling)]
  /\ UNCHANGED <<limit, usage, reserved, reservation>>

Serving(q) == Configured(q) /\ route[q].tier # "expired" /\ ~route[q].cooling

\* A mutant: units that are only reserved do not count against the limit.
FitsUsed(q, used) == used + 1 <= limit[q]
Fits(q, used) == used + reserved[q] + 1 <= limit[q]

\* The first reservation after reset_at has passed starts a new window: usage
\* is forgotten, once.  due says that it has passed.
WindowReset(q, due) ==
  /\ due => route[q].window
  /\ usage' = [usage EXCEPT ![q] = IF due THEN 0 ELSE usage[q]]
  /\ route' = [route EXCEPT ![q] = RouteOf(route[q].tier, route[q].window /\ ~due,
                                           route[q].cooling)]

\* A known key gets its old reservation back whatever its status, which is no
\* write but for the reset; a new one takes a unit or fails with the reset.
Reserve(k) ==
  LET q == RowOf[k] IN
  /\ Serving(q)
  /\ \E due \in BOOLEAN :
       /\ WindowReset(q, due)
       /\ \/ /\ reservation[k] # "none"
             /\ UNCHANGED <<reserved, reservation>>
          \/ /\ reservation[k] = "none"
             /\ Fits(q, IF due THEN 0 ELSE usage[q])
             /\ reserved' = [reserved EXCEPT ![q] = reserved[q] + 1]
             /\ reservation' = [reservation EXCEPT ![k] = "reserved"]
  /\ UNCHANGED limit

\* Settling is answered again for the same outcome and refused for the other.
Settles(k, outcome) ==
  LET q == RowOf[k] IN
  /\ reservation[k] = "reserved"
  /\ reserved[q] >= 1
  /\ reserved' = [reserved EXCEPT ![q] = reserved[q] - 1]
  /\ reservation' = [reservation EXCEPT ![k] = outcome]

Commit(k) ==
  /\ Settles(k, "committed")
  /\ usage[RowOf[k]] + 1 <= limit[RowOf[k]]
  /\ usage' = [usage EXCEPT ![RowOf[k]] = usage[RowOf[k]] + 1]
  /\ UNCHANGED <<limit, route>>

Release(k) == Settles(k, "released") /\ UNCHANGED <<limit, usage, route>>

RowEvent(q) ==
  \/ \E n \in 1..MaxLimit, u \in 0..MaxLimit, offer \in Offers[q] :
       ConfigureQuota(q, n, u, offer)
  \/ RecordCooldown(q)
  \/ CooldownOver(q)
  \/ TrialOver(q)

QuotaNext ==
  \/ \E q \in Rows : RowEvent(q)
  \/ \E k \in Keys : Reserve(k) \/ Commit(k) \/ Release(k)

\* What any user of the tables may do to them.
QuotaSpec == QuotaInit /\ [][QuotaNext]_ledger

-----------------------------------------------------------------------------
\* The type invariant of the ledger, a part of Dispatch's.
LedgerTypeOK ==
  /\ limit \in [Rows -> 0..MaxLimit]
  /\ usage \in [Rows -> Nat]
  /\ reserved \in [Rows -> Nat]
  /\ route \in [Rows -> [tier : Tiers, window : BOOLEAN, cooling : BOOLEAN]]
  /\ reservation \in [Keys -> ReservationStatuses]

Holders(q) == {k \in Keys : RowOf[k] = q /\ reservation[k] = "reserved"}

\* The counters of a row agree with the reservations that hold its units, and
\* used and reserved units never exceed its limit: reserve, commit, release and
\* the dispatch lifecycle's own UPDATEs keep three tables in step, and a window
\* reset or a new configuration may come between.  (sql/013 has a CHECK for the
\* second half; the model does not rely on it.)
LedgerSound ==
  \A q \in Rows :
    /\ reserved[q] = Cardinality(Holders(q))
    /\ usage[q] + reserved[q] <= limit[q]
=============================================================================
