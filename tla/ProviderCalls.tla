----------------------------- MODULE ProviderCalls -----------------------------
(***************************************************************************)
(* Executions of a task over its configured providers:                     *)
(* ProviderConfigurationRouter.execute (providers/providerConfiguration.js)*)
(* with the credential broker and its leases (credentials/), the           *)
(* credential repository, the task's reservations (quotas/) and the        *)
(* in-memory circuits (recovery/recoveryContract.js).                      *)
(*                                                                         *)
(* The executions are of one task, at once or one after the other, so they *)
(* share its reservation keys; they interleave at every await.             *)
(***************************************************************************)
EXTENDS Naturals

CONSTANTS
  Executions,
  Rotators,      \* callers that rotate the first provider's credential
  Providers,     \* bound: slots tried in order, the last one local (5, two local)
  MaxFailures    \* consecutive failures that open a circuit (3)

ASSUME ProviderCallsAssumption == Providers \in Nat \ {0} /\ MaxFailures \in Nat \ {0}

VARIABLES
  credential, \* broker_credential_metadata: [provider -> [valid, version]]
  audited,    \* success rows of the audit log: <<execution, provider>>
  unit,       \* [provider -> status of the task's reservation there]
  circuit,    \* [provider -> [state, failures, cooled]]
  sent,       \* provider calls that went out: <<execution, provider>>
  execution,  \* [execution -> [at, provider, lease]]
  rotation    \* [rotator -> [at, version]]

callsVars == <<credential, audited, unit, circuit, sent, execution, rotation>>

Places == 1..Providers
Remote(p) == p < Providers
ExecutionStates == {"gate", "locate", "resolve", "audit", "reserve", "call", "called",
                    "commit", "release", "fallback", "returned", "failed"}

CallsInit ==
  /\ credential = [p \in Places |-> [valid |-> TRUE, version |-> 1]]
  /\ audited = {} /\ sent = {}
  /\ unit = [p \in Places |-> "none"]
  /\ circuit = [p \in Places |-> [state |-> "CLOSED", failures |-> 0, cooled |-> FALSE]]
  /\ execution = [x \in Executions |-> [at |-> "gate", provider |-> 1, lease |-> "none"]]
  /\ rotation = [r \in Rotators |-> [at |-> "idle", version |-> 1]]

In(x, place) == execution[x].at = place
Place(x) == execution[x].provider
Go(x, place) == execution' = [execution EXCEPT ![x].at = place]
GoRevoked(x, place) == execution' = [execution EXCEPT ![x].at = place, ![x].lease = "over"]

\* isHealthy: the first look after the cooldown half-opens the circuit, and
\* while it is half open everyone passes.
PassGate(x) ==
  /\ In(x, "gate")
  /\ circuit[Place(x)].state = "OPEN" => circuit[Place(x)].cooled
  /\ circuit' = [circuit EXCEPT ![Place(x)].state = IF @ = "OPEN" THEN "HALF_OPEN" ELSE @,
                                ![Place(x)].cooled = FALSE]
  /\ Go(x, IF Remote(Place(x)) THEN "locate" ELSE "reserve")
  /\ UNCHANGED <<credential, audited, unit, sent, rotation>>

\* An unhealthy credential, an open circuit, no row, a resolver or a store that
\* fails, a limit that is reached; the lease is revoked where there is one.
SkipProvider(x) ==
  /\ execution[x].at \in {"gate", "locate", "resolve", "reserve"}
  /\ IF execution[x].lease = "held" THEN GoRevoked(x, "fallback") ELSE Go(x, "fallback")
  /\ UNCHANGED <<credential, audited, unit, circuit, sent, rotation>>

\* CredentialBroker.resolve: findLocatorScoped, the resolver, the audit row.
FindLocator(x) ==
  /\ In(x, "locate") /\ credential[Place(x)].valid
  /\ Go(x, "resolve")
  /\ UNCHANGED <<credential, audited, unit, circuit, sent, rotation>>

ResolveSecret(x) ==
  /\ In(x, "resolve")
  /\ execution' = [execution EXCEPT ![x].at = "audit", ![x].lease = "held"]
  /\ UNCHANGED <<credential, audited, unit, circuit, sent, rotation>>

WriteAudit(x) ==
  /\ In(x, "audit") /\ audited' = audited \cup {<<x, Place(x)>>}
  /\ Go(x, "reserve")
  /\ UNCHANGED <<credential, unit, circuit, sent, rotation>>

\* A mutant of AfterLostAudit: the lease is good without its audit row.
AfterLostAuditAnyway == "reserve"
AfterLostAudit == "fallback"

\* The row is written a second time, still as a success, and may be there or not.
LoseAudit(x) ==
  /\ In(x, "audit") /\ audited' \in {audited, audited \cup {<<x, Place(x)>>}}
  /\ IF AfterLostAudit = "fallback" THEN GoRevoked(x, AfterLostAudit) ELSE Go(x, AfterLostAudit)
  /\ UNCHANGED <<credential, unit, circuit, sent, rotation>>

\* reserve answers the key's row; one that is settled is refused.
ReserveUnit(x) ==
  /\ In(x, "reserve") /\ unit[Place(x)] \in {"none", "reserved"}
  /\ unit' = [unit EXCEPT ![Place(x)] = "reserved"]
  /\ Go(x, "call")
  /\ UNCHANGED <<credential, audited, circuit, sent, rotation>>

\* consume hands the secret to the executor while the lease lasts.
CallProvider(x) ==
  /\ In(x, "call")
  /\ Remote(Place(x)) => execution[x].lease = "held"
  /\ sent' = sent \cup {<<x, Place(x)>>}
  /\ Go(x, "called")
  /\ UNCHANGED <<credential, audited, unit, circuit, rotation>>

\* The lease is over, or no executor is registered.
RefuseCall(x) ==
  /\ In(x, "call") /\ GoRevoked(x, "release")
  /\ UNCHANGED <<credential, audited, unit, circuit, sent, rotation>>

\* With evidence, or without, or an error; consume revokes the lease.
ProviderAnswers(x) ==
  /\ In(x, "called")
  /\ \E place \in {"commit", "release"} : GoRevoked(x, place)
  /\ UNCHANGED <<credential, audited, unit, circuit, sent, rotation>>

Settleable(status) == status \in {"reserved", "committed"}

\* #finalize answers a repeated commit, refuses a released row.
CommitUnit(x) ==
  /\ In(x, "commit") /\ Settleable(unit[Place(x)])
  /\ unit' = [unit EXCEPT ![Place(x)] = IF @ = "reserved" THEN "committed" ELSE @]
  /\ circuit' = [circuit EXCEPT ![Place(x)] = [state |-> "CLOSED", failures |-> 0, cooled |-> FALSE]]
  /\ Go(x, "returned")
  /\ UNCHANGED <<credential, audited, sent, rotation>>

\* Refused, or its answer is lost.
LoseCommit(x) ==
  /\ In(x, "commit")
  /\ unit' \in {unit, [unit EXCEPT ![Place(x)] = IF @ = "reserved" THEN "committed" ELSE @]}
  /\ Go(x, "release")
  /\ UNCHANGED <<credential, audited, circuit, sent, rotation>>

ReleasableUnit(status) == status = "reserved"

\* The release, whose failure is swallowed, and recordFailure: a fatal error, too
\* many or one while half open opens the circuit.
ReleaseUnit(x) ==
  /\ In(x, "release")
  /\ unit' \in {unit, [unit EXCEPT ![Place(x)] = IF ReleasableUnit(@) THEN "released" ELSE @]}
  /\ \E fatal \in BOOLEAN :
       LET c == circuit[Place(x)]
           n == IF c.failures < MaxFailures THEN c.failures + 1 ELSE c.failures
       IN circuit' = [circuit EXCEPT ![Place(x)] =
            IF fatal \/ n = MaxFailures \/ c.state = "HALF_OPEN"
            THEN [state |-> "OPEN", failures |-> n, cooled |-> FALSE]
            ELSE [c EXCEPT !.failures = n]]
  /\ Go(x, "fallback")
  /\ UNCHANGED <<credential, audited, sent, rotation>>

\* The fallback or cooldown is recorded, then the next provider; no provider
\* left, or evidence that cannot be written, ends the execution.
FallBack(x) ==
  /\ In(x, "fallback")
  /\ \/ /\ Place(x) < Providers
        /\ execution' = [execution EXCEPT ![x] =
             [at |-> "gate", provider |-> Place(x) + 1, lease |-> "none"]]
     \/ Go(x, "failed")
  /\ UNCHANGED <<credential, audited, unit, circuit, sent, rotation>>

\* The lease's timer revokes it, before its use or during it.
LeaseExpires(x) ==
  /\ execution[x].lease = "held" /\ execution' = [execution EXCEPT ![x].lease = "over"]
  /\ UNCHANGED <<credential, audited, unit, circuit, sent, rotation>>

ExecutionDies(x) ==
  /\ execution[x].at \notin {"returned", "failed"} /\ GoRevoked(x, "failed")
  /\ UNCHANGED <<credential, audited, unit, circuit, sent, rotation>>

CircuitCools(p) ==
  /\ circuit[p].state = "OPEN" /\ ~circuit[p].cooled
  /\ circuit' = [circuit EXCEPT ![p].cooled = TRUE]
  /\ UNCHANGED <<credential, audited, unit, sent, execution, rotation>>

-----------------------------------------------------------------------------
(* The credential repository                                               *)

\* revoke, an expiry; updateMetadataScoped may set revoked_at to null again.
RevokeOrRestore(p) ==
  /\ Remote(p)
  /\ credential' = [credential EXCEPT ![p].valid = ~@]
  /\ UNCHANGED <<audited, unit, circuit, sent, execution, rotation>>

ReadVersion(r) ==
  /\ rotation[r].at = "idle"
  /\ rotation' = [rotation EXCEPT ![r] = [at |-> "read", version |-> credential[1].version]]
  /\ UNCHANGED <<credential, audited, unit, circuit, sent, execution>>

\* A mutant of Rotatable: the version is not compared.
RotatableBlindly(version) == version > 0
Rotatable(version) == credential[1].version = version

\* rotate, under the row's lock.
Rotate(r) ==
  /\ rotation[r].at = "read" /\ credential[1].valid /\ Rotatable(rotation[r].version)
  /\ credential' = [credential EXCEPT ![1].version = @ + 1]
  /\ rotation' = [rotation EXCEPT ![r].at = "rotated"]
  /\ UNCHANGED <<audited, unit, circuit, sent, execution>>

CallStepOf(x) ==
  \/ PassGate(x) \/ SkipProvider(x) \/ FindLocator(x) \/ ResolveSecret(x)
  \/ WriteAudit(x) \/ LoseAudit(x) \/ ReserveUnit(x) \/ CallProvider(x) \/ RefuseCall(x)
  \/ ProviderAnswers(x) \/ CommitUnit(x) \/ LoseCommit(x) \/ ReleaseUnit(x) \/ FallBack(x)
  \/ LeaseExpires(x) \/ ExecutionDies(x)

RouterNext ==
  \/ \E x \in Executions : CallStepOf(x)
  \/ \E p \in Places : CircuitCools(p) \/ RevokeOrRestore(p)

RepositoryNext ==
  \/ \E p \in Places : RevokeOrRestore(p)
  \/ \E r \in Rotators : ReadVersion(r) \/ Rotate(r)

CallsNext == RouterNext \/ RepositoryNext

CallsSpec == CallsInit /\ [][CallsNext]_callsVars

-----------------------------------------------------------------------------
(* Properties                                                              *)

CallsTypeOK ==
  /\ credential \in [Places -> [valid : BOOLEAN, version : Nat \ {0}]]
  /\ audited \subseteq Executions \X Places /\ sent \subseteq Executions \X Places
  /\ unit \in [Places -> {"none", "reserved", "committed", "released"}]
  /\ circuit \in [Places -> [state : {"CLOSED", "OPEN", "HALF_OPEN"}, failures : 0..MaxFailures,
                             cooled : BOOLEAN]]
  /\ execution \in [Executions -> [at : ExecutionStates, provider : Places,
                                   lease : {"none", "held", "over"}]]
  /\ rotation \in [Rotators -> [at : {"idle", "read", "rotated"}, version : Nat \ {0}]]

\* Whatever its other executions settle, release or call meanwhile, and
\* whichever answers are lost: a result that is returned is charged to the unit
\* of the provider that gave it, and stays charged; no secret reaches a provider
\* without its audit row, and none is held past the provider it was for; and no
\* two rotations of a credential start from the same version.
CallsAccounted ==
  /\ \A x \in Executions :
       /\ In(x, "returned") => /\ unit[Place(x)] = "committed"
                               /\ <<x, Place(x)>> \in sent
       /\ execution[x].lease = "held" => execution[x].at \in {"audit", "reserve", "call", "called"}
  /\ \A c \in sent : Remote(c[2]) => c \in audited
  /\ \A r, s \in Rotators :
       r # s /\ rotation[r].at = "rotated" /\ rotation[s].at = "rotated" =>
         rotation[r].version # rotation[s].version
===============================================================================
