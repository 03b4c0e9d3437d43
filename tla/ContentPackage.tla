---------------------------- MODULE ContentPackage ----------------------------
(***************************************************************************)
(* Content packages of the Jarvis and AI-news agents: createContentPackage *)
(* of both contentPackageOrchestrator.js, which runs its stages one after  *)
(* the other with WorkerRuntime.run (workers/workerRuntime.js) over the    *)
(* result store (workers/postgresWorkerResultStore.js), and records the    *)
(* package with CheckpointStore.write (checkpoints/).                      *)
(*                                                                         *)
(* A run is one call of createContentPackage.  The runs are of one         *)
(* package, in one process or several; they interleave at every await and  *)
(* any of them may fail there.  A result goes by the run that computed it, *)
(* for its duration and its time are part of it, and by the order its keys *)
(* are in, for JSON.stringify, and so every hash of an output, tells the   *)
(* order that the handler built from the one jsonb keeps.                  *)
(***************************************************************************)
EXTENDS Naturals

CONSTANTS
  Runs, NoRun,
  ProcessOf,  \* [run -> the process it is in], which has one WorkerRuntime
  LastStage   \* the stages are 1..LastStage (8, 4); the last is the subtitle plan

ASSUME ContentPackageAssumption == LastStage \in Nat \ {0} /\ NoRun \notin Runs

VARIABLES
  results,     \* worker_results: [stage -> [by, ready, order]]
  package,     \* job_checkpoints: the package's record
  packageRun   \* [run -> [at, stage, segments, outputs, outcome, same]]

packageVars == <<results, package, packageRun>>

Stages == 1..LastStage
NoResult == [by |-> NoRun, ready |-> FALSE, order |-> "jsonb"]
Results == [by : Runs \cup {NoRun}, ready : BOOLEAN, order : {"built", "jsonb"}]
StoredResults == [by : Runs \cup {NoRun}, ready : BOOLEAN, order : {"jsonb"}]
\* The result as the ::jsonb column gives it back.
AsJsonb(o) == [o EXCEPT !.order = "jsonb"]
\* The readiness a "content_package_ready" record is written with.
Readiness == {"complete", "incomplete", "blocked"}

PackageInit ==
  /\ results = [s \in Stages |-> NoResult]
  /\ package = "none"
  /\ packageRun \in [Runs -> {[at |-> "idle", stage |-> 1, segments |-> g, same |-> FALSE,
                               outputs |-> [s \in Stages |-> NoResult], outcome |-> "failed"] :
                              g \in BOOLEAN}]

InStage(r, place) == packageRun[r].at = place
StageOf(r) == packageRun[r].stage
Turn(r, place) == packageRun' = [packageRun EXCEPT ![r].at = place]
Settle(r, outcome) == packageRun' = [packageRun EXCEPT ![r].at = "record", ![r].outcome = outcome]

\* What follows a stage that gave output o: the next one, the record of the
\* package, or its end as blocked.
AfterStage(r, o) ==
  LET taken == [packageRun[r] EXCEPT !.outputs[StageOf(r)] = o]
  IN packageRun' = [packageRun EXCEPT ![r] =
       IF ~o.ready THEN [taken EXCEPT !.at = "record", !.outcome = "blocked"]
       ELSE IF StageOf(r) = LastStage THEN [taken EXCEPT !.at = "record", !.outcome = "complete"]
       ELSE [taken EXCEPT !.at = "idle", !.stage = @ + 1]]

\* idempotencyStore.get: a stored result is the stage's, whatever the input, and
\* the run goes on with its keys in the stored order.
LookUpResult(r) ==
  /\ InStage(r, "idle")
  /\ StageOf(r) < LastStage \/ packageRun[r].segments
  /\ IF results[StageOf(r)] # NoResult THEN AfterStage(r, results[StageOf(r)])
                                        ELSE Turn(r, "unknown")
  /\ UNCHANGED <<results, package>>

\* No narration was supplied: the subtitle plan waits for it.
AwaitNarration(r) ==
  /\ InStage(r, "idle") /\ StageOf(r) = LastStage /\ ~packageRun[r].segments
  /\ Settle(r, "incomplete")
  /\ UNCHANGED <<results, package>>

\* activeTasks: a stage that this process is working on is refused.
Active(r) == \E q \in Runs \ {r} : /\ ProcessOf[q] = ProcessOf[r] /\ StageOf(q) = StageOf(r)
                                   /\ packageRun[q].at \in {"handling", "storing"}

EnterStage(r) ==
  /\ InStage(r, "unknown")
  /\ IF Active(r) THEN Settle(r, "failed") ELSE Turn(r, "handling")
  /\ UNCHANGED <<results, package>>

\* The handler, which may write checkpoints of its own.
HandleStage(r) ==
  /\ InStage(r, "handling") /\ Turn(r, "storing")
  /\ UNCHANGED <<results, package>>

\* A mutant of Stored: an upsert, the last result wins.
StoredOver(s, o) == IF s \in Stages THEN AsJsonb(o) ELSE NoResult
\* idempotencyStore.set: INSERT ... ON CONFLICT DO NOTHING.
Stored(s, o) == IF results[s] = NoResult THEN AsJsonb(o) ELSE results[s]

\* A result of another run is a conflict, by result_hash: the stage fails.  A plan
\* that is not ready is stored like any other.  The run goes on with its own object.
StoreResult(r) ==
  /\ InStage(r, "storing")
  /\ \E ready \in BOOLEAN :
       LET o == [by |-> r, ready |-> ready, order |-> "built"]
       IN /\ results' = [results EXCEPT ![StageOf(r)] = Stored(StageOf(r), o)]
          /\ IF Stored(StageOf(r), o) = AsJsonb(o) THEN AfterStage(r, o) ELSE Settle(r, "failed")
  /\ UNCHANGED package

\* A mutant of FailedOutcome: a failed stage is passed over.
FailedAsIncomplete == "incomplete"
FailedOutcome == "failed"

\* The handler or a store fails, the envelope is refused, the run cancelled.
FailStage(r) ==
  /\ packageRun[r].at \in {"idle", "unknown", "handling", "storing"}
  /\ Settle(r, FailedOutcome)
  /\ UNCHANGED <<results, package>>

\* The insert was committed, its answer is lost.
LoseStored(r) ==
  /\ InStage(r, "storing") /\ results[StageOf(r)] = NoResult
  /\ results' = [results EXCEPT ![StageOf(r)] = [by |-> r, ready |-> TRUE, order |-> "jsonb"]]
  /\ Settle(r, "failed")
  /\ UNCHANGED package

\* CheckpointStore.write reads first: an equal record is not written again.
ReadPackage(r) ==
  /\ InStage(r, "record")
  /\ packageRun' = [packageRun EXCEPT ![r].at = "write",
                                      ![r].same = (package = packageRun[r].outcome)]
  /\ UNCHANGED <<results, package>>

WritePackage(r) ==
  /\ InStage(r, "write")
  /\ package' = IF packageRun[r].same THEN package ELSE packageRun[r].outcome
  /\ Turn(r, IF packageRun[r].outcome = "failed" THEN "thrown" ELSE "returned")
  /\ UNCHANGED results

\* A write that fails turns a ready package into a failed one, whose own
\* failure to write is swallowed.
LosePackage(r) ==
  /\ packageRun[r].at \in {"record", "write"}
  /\ IF packageRun[r].outcome = "failed" THEN Turn(r, "thrown") ELSE Settle(r, "failed")
  /\ UNCHANGED <<results, package>>

\* What the process was running is gone, and its activeTasks with it.
ProcessDies(p) ==
  /\ \E r \in Runs : ProcessOf[r] = p /\ packageRun[r].at \notin {"returned", "thrown"}
  /\ packageRun' = [r \in Runs |-> IF ProcessOf[r] = p /\ packageRun[r].at # "returned"
                                   THEN [packageRun[r] EXCEPT !.at = "thrown"] ELSE packageRun[r]]
  /\ UNCHANGED <<results, package>>

PackageNext ==
  \/ \E r \in Runs :
       \/ LookUpResult(r) \/ AwaitNarration(r) \/ EnterStage(r) \/ HandleStage(r)
       \/ StoreResult(r) \/ FailStage(r) \/ LoseStored(r)
       \/ ReadPackage(r) \/ WritePackage(r) \/ LosePackage(r)
  \/ \E p \in {ProcessOf[r] : r \in Runs} : ProcessDies(p)

PackageSpec == PackageInit /\ [][PackageNext]_packageVars

-----------------------------------------------------------------------------
(* Properties                                                              *)

PackageTypeOK ==
  /\ results \in [Stages -> StoredResults]
  /\ package \in Readiness \cup {"none", "failed"}
  /\ packageRun \in [Runs -> [at : {"idle", "unknown", "handling", "storing", "record", "write",
                                    "returned", "thrown"},
                              stage : Stages, segments : BOOLEAN, same : BOOLEAN,
                              outputs : [Stages -> Results], outcome : Readiness \cup {"failed"}]]

\* The stages a package of this readiness was made from, out of these outputs.
MadeFrom(outputs, readiness) ==
  CASE readiness = "complete" -> \A s \in Stages : outputs[s].ready
    [] readiness = "incomplete" -> \A s \in Stages \ {LastStage} : outputs[s].ready
    [] readiness = "blocked" -> \E s \in Stages : outputs[s] # NoResult /\ ~outputs[s].ready
    [] OTHER -> TRUE

\* However many runs of a package there are, in however many processes, and
\* whatever fails: the outputs a run uses have the content of the stored ones,
\* though maybe in another order of keys, so that all packages that are returned
\* agree in content stage by stage; and a returned package, as well as the recorded
\* one, has the stages its readiness speaks of.
PackagesAgree ==
  /\ \A r \in Runs, s \in Stages :
       packageRun[r].outputs[s] = NoResult \/ AsJsonb(packageRun[r].outputs[s]) = results[s]
  /\ \A r \in Runs : InStage(r, "returned") => MadeFrom(packageRun[r].outputs, packageRun[r].outcome)
  /\ MadeFrom(results, package)
===============================================================================
