----------------------------- MODULE MCOperations -----------------------------
(* The components around production in one run.  They share no state but   *)
(* the planned episodes of the schedule and of Hermes, so each behaviour   *)
(* is of one part, and the variables of the others stay as they began.     *)
EXTENDS Connections, Scheduling, Hermes, OwnerSessions, ProviderCalls, ContentPackage,
        Resilience, CommunicationStudio, CreativeRegistry

CONSTANTS r1, r2, r3

VARIABLE part

Parts == {"connections", "scheduling", "hermes", "sessions", "calls", "credentials", "package",
          "resilience", "studio", "charter", "reference"}

\* A Director with one slot on the first day, and one whose schedule is off.
MCSchedules == {[enabled |-> b, start |-> 0, perDay |-> 1, days |-> {0}] : b \in BOOLEAN}

\* Two runs of a package in one process, one in another.
MCProcessOf == [r \in Runs |-> IF r = r3 THEN 2 ELSE 1]

\* Of a part that is not looked at, one initial state is enough.
OperationsInit ==
  /\ part \in Parts
  /\ ConnectionsInit /\ (part # "connections" => service = "youtube")
  /\ SchedulingInit /\ (part # "scheduling" => schedule.enabled /\ hasChannel)
  /\ HermesInit /\ releases = {}
  /\ SessionsInit /\ (part # "sessions" => owner.mfa)
  /\ CallsInit
  /\ PackageInit /\ (part # "package" => packageRun[r1].segments)
  /\ packageRun[r2].segments = packageRun[r1].segments /\ packageRun[r3].segments
  /\ ResilienceInit /\ StudioInit /\ RegistryInit

OperationsNext ==
  \/ /\ part = "connections" /\ ConnectionsNext
     /\ UNCHANGED <<part, schedulingVars, hermesVars, releases, sessionsVars, callsVars,
                    packageVars, resilienceVars, studioVars, registryVars>>
  \/ /\ part = "scheduling" /\ SchedulingNext
     /\ UNCHANGED <<part, connectionsVars, hermesVars, sessionsVars, callsVars, packageVars,
                    resilienceVars, studioVars, registryVars>>
  \/ /\ part = "hermes" /\ HermesNext
     /\ UNCHANGED <<part, connectionsVars, schedulingVars, sessionsVars, callsVars, packageVars,
                    resilienceVars, studioVars, registryVars>>
  \/ /\ part = "sessions" /\ SessionsNext
     /\ UNCHANGED <<part, connectionsVars, schedulingVars, hermesVars, releases, callsVars,
                    packageVars, resilienceVars, studioVars, registryVars>>
  \/ /\ part = "calls" /\ RouterNext
     /\ UNCHANGED <<part, connectionsVars, schedulingVars, hermesVars, releases, sessionsVars,
                    packageVars, resilienceVars, studioVars, registryVars>>
  \/ /\ part = "credentials" /\ RepositoryNext
     /\ UNCHANGED <<part, connectionsVars, schedulingVars, hermesVars, releases, sessionsVars,
                    packageVars, resilienceVars, studioVars, registryVars>>
  \/ /\ part = "package" /\ PackageNext
     /\ UNCHANGED <<part, connectionsVars, schedulingVars, hermesVars, releases, sessionsVars,
                    callsVars, resilienceVars, studioVars, registryVars>>
  \/ /\ part = "resilience" /\ ResilienceNext
     /\ UNCHANGED <<part, connectionsVars, schedulingVars, hermesVars, releases, sessionsVars,
                    callsVars, packageVars, studioVars, registryVars>>
  \/ /\ part = "studio" /\ StudioNext
     /\ UNCHANGED <<part, connectionsVars, schedulingVars, hermesVars, releases, sessionsVars,
                    callsVars, packageVars, resilienceVars, registryVars>>
  \/ /\ part = "charter" /\ CharterNext
     /\ UNCHANGED <<part, connectionsVars, schedulingVars, hermesVars, releases, sessionsVars,
                    callsVars, packageVars, resilienceVars, studioVars>>
  \/ /\ part = "reference" /\ ReferenceNext
     /\ UNCHANGED <<part, connectionsVars, schedulingVars, hermesVars, releases, sessionsVars,
                    callsVars, packageVars, resilienceVars, studioVars>>

operationsVars ==
  <<part, connectionsVars, schedulingVars, hermesVars, releases, sessionsVars, callsVars,
    packageVars, resilienceVars, studioVars, registryVars>>

OperationsSpec == OperationsInit /\ [][OperationsNext]_operationsVars

\* Every variable of every component keeps its type: in a behaviour of a part,
\* those of that part.
OperationsTypeOK ==
  /\ part \in Parts
  /\ part = "connections" => ConnectionsTypeOK
  /\ part = "scheduling" => SchedulingTypeOK
  /\ part = "hermes" => HermesTypeOK
  /\ part = "sessions" => SessionsTypeOK
  /\ part \in {"calls", "credentials"} => CallsTypeOK
  /\ part = "package" => PackageTypeOK
  /\ part = "resilience" => ResilienceTypeOK
  /\ part = "studio" => StudioTypeOK
  /\ part \in {"charter", "reference"} => RegistryTypeOK
===============================================================================
