------------------------------ MODULE Resilience ------------------------------
(***************************************************************************)
(* resilience/postgresResilienceRepository.js over the tables of           *)
(* sql/014_resilience_controls.sql: the circuit of one provider or         *)
(* operation, the owner's emergency pauses, quarantined outputs and the    *)
(* alerts they raise.  Every operation is one transaction.                 *)
(*                                                                         *)
(* Callers work behind the circuit: they ask assertWorkAllowed, call, and  *)
(* record how it went; the library leaves to them when they do.  A caller  *)
(* may die, and its record may come late.                                  *)
(***************************************************************************)
EXTENDS Naturals, FiniteSets

CONSTANTS
  Callers,
  Scopes,         \* of pauses: "global_owner", "agent", "operation"
  Outputs,        \* content hashes an operation may produce
  Threshold,      \* failures that open the circuit
  MaxOpenings     \* bound: times it opens

ASSUME ResilienceAssumption == Threshold \in Nat \ {0} /\ MaxOpenings \in Nat

VARIABLES
  circuitRow,  \* resilience_circuits: [state, failures, elapsed], the last for opened_until <= now()
  openings,    \* history: times it was opened
  probed,      \* history: the openings that were probed, and by whom
  alerts,      \* owner_alerts: the openings and the outputs they tell of
  paused,      \* emergency_pauses: the scopes with an active row
  quarantined, \* quarantine_records
  actions,     \* quarantine_actions: [output, action, approval]
  caller       \* [caller -> what it is doing]

resilienceVars == <<circuitRow, openings, probed, alerts, paused, quarantined, actions, caller>>

ResilienceInit ==
  /\ circuitRow = [state |-> "closed", failures |-> 0, elapsed |-> FALSE]
  /\ openings = 0 /\ probed = {} /\ alerts = {}
  /\ paused = {} /\ quarantined = {} /\ actions = {}
  /\ caller = [c \in Callers |-> "idle"]

\* assertWorkAllowed: no active pause of the owner, the agent or the operation.
StartWork(c) ==
  /\ caller[c] = "idle" /\ paused = {}
  /\ caller' = [caller EXCEPT ![c] = "working"]
  /\ UNCHANGED <<circuitRow, openings, probed, alerts, paused, quarantined, actions>>

\* A mutant of Claimable: a probe that is out does not keep others back.
ClaimableAgain == circuitRow.state \in {"open", "half_open"} /\ circuitRow.elapsed
Claimable == circuitRow.state = "open" /\ circuitRow.elapsed

\* claimHalfOpenProbe, one UPDATE.
ClaimProbe(c) ==
  /\ caller[c] = "idle" /\ paused = {} /\ Claimable
  /\ circuitRow' = [circuitRow EXCEPT !.state = "half_open"]
  /\ probed' = probed \cup {<<openings, c>>}
  /\ caller' = [caller EXCEPT ![c] = "probing"]
  /\ UNCHANGED <<openings, alerts, paused, quarantined, actions>>

Opens(row) == row.failures + 1 >= Threshold \/ row.state = "half_open"

\* recordFailure: the row is made if it is not there, then locked; every failure
\* past the threshold opens it anew, and each opening has its alert.
RecordCircuitFailure(c) ==
  /\ caller[c] \in {"working", "probing"}
  /\ IF Opens(circuitRow)
     THEN /\ openings < MaxOpenings              \* bound
          /\ circuitRow' = [state |-> "open", failures |-> Threshold, elapsed |-> FALSE]
          /\ openings' = openings + 1
          /\ alerts' = alerts \cup {openings + 1}
     ELSE /\ circuitRow' = [circuitRow EXCEPT !.failures = @ + 1]
          /\ UNCHANGED <<openings, alerts>>
  /\ caller' = [caller EXCEPT ![c] = "idle"]
  /\ UNCHANGED <<probed, paused, quarantined, actions>>

\* recordSuccess closes the circuit, whoever calls it.
RecordCircuitSuccess(c) ==
  /\ caller[c] \in {"working", "probing"}
  /\ circuitRow' = [state |-> "closed", failures |-> 0, elapsed |-> FALSE]
  /\ caller' = [caller EXCEPT ![c] = "idle"]
  /\ UNCHANGED <<openings, probed, alerts, paused, quarantined, actions>>

\* quarantine: an output that a gate refused, once.
Quarantine(c) ==
  /\ caller[c] = "working"
  /\ \E o \in Outputs \ quarantined :
       /\ quarantined' = quarantined \cup {o} /\ alerts' = alerts \cup {o}
  /\ UNCHANGED <<circuitRow, openings, probed, paused, actions, caller>>

\* authorizeQuarantineAction, with the owner's approval.
AuthorizeAction ==
  /\ \E o \in quarantined, a \in {"release", "retry"} :
       /\ <<o, a>> \notin actions /\ actions' = actions \cup {<<o, a>>}
  /\ UNCHANGED <<circuitRow, openings, probed, alerts, paused, quarantined, caller>>

\* setPause and clearPause; a second active pause of a scope breaks the index.
SetPause ==
  /\ \E s \in Scopes \ paused : paused' = paused \cup {s}
  /\ UNCHANGED <<circuitRow, openings, probed, alerts, quarantined, actions, caller>>

ClearPause ==
  /\ \E s \in paused : paused' = paused \ {s}
  /\ UNCHANGED <<circuitRow, openings, probed, alerts, quarantined, actions, caller>>

CooldownElapses ==
  /\ circuitRow.state = "open" /\ ~circuitRow.elapsed
  /\ circuitRow' = [circuitRow EXCEPT !.elapsed = TRUE]
  /\ UNCHANGED <<openings, probed, alerts, paused, quarantined, actions, caller>>

CallerDies(c) ==
  /\ caller[c] # "idle" /\ caller' = [caller EXCEPT ![c] = "idle"]
  /\ UNCHANGED <<circuitRow, openings, probed, alerts, paused, quarantined, actions>>

ResilienceNext ==
  \/ \E c \in Callers : \/ StartWork(c) \/ ClaimProbe(c) \/ RecordCircuitFailure(c) \/ RecordCircuitSuccess(c)
                        \/ Quarantine(c) \/ CallerDies(c)
  \/ AuthorizeAction \/ SetPause \/ ClearPause \/ CooldownElapses

ResilienceSpec == ResilienceInit /\ [][ResilienceNext]_resilienceVars

-----------------------------------------------------------------------------
(* Properties                                                              *)

ResilienceTypeOK ==
  /\ circuitRow \in [state : {"closed", "open", "half_open"}, failures : 0..Threshold,
                     elapsed : BOOLEAN]
  /\ openings \in 0..MaxOpenings /\ probed \subseteq (1..MaxOpenings) \X Callers
  /\ alerts \subseteq (1..MaxOpenings) \cup Outputs
  /\ paused \subseteq Scopes /\ quarantined \subseteq Outputs
  /\ actions \subseteq Outputs \X {"release", "retry"}
  /\ caller \in [Callers -> {"idle", "working", "probing"}]

\* Late records of calls that began before the circuit opened, and callers that
\* die with the probe, notwithstanding: an opening is probed once, a circuit that
\* is half open is so by the probe of its last opening, and of each opening and
\* each quarantined output the owner has an alert.
ProbedOnce ==
  /\ \A p, q \in probed : p[1] = q[1] => p = q
  /\ circuitRow.state = "half_open" => \E p \in probed : p[1] = openings
  /\ alerts = (1..openings) \cup quarantined
===============================================================================
