------------------------------ MODULE MediaStages ------------------------------
(***************************************************************************)
(* How one release's media is made: pipeline/productionExecutorRunner.js   *)
(* and the executors of media/, each stage of which runs a local command,  *)
(* reads the file the command left, probes it, and hands its hash to       *)
(* pipeline/episodePipeline.js to record.                                  *)
(*                                                                         *)
(* The output paths go by the release, so every pass over it writes the    *)
(* same files.  Passes follow each other here; one that overlaps another,  *)
(* and the command of a dead pass that runs on, show as a stray write.  A  *)
(* command that exits with 0 has written its output; bytes go by their     *)
(* writer.                                                                 *)
(***************************************************************************)
EXTENDS Naturals, Sequences

CONSTANTS
  MaxPasses,   \* bound: passes over the release
  MaxStrays,   \* bound: writes of others
  MaxRenders   \* MAX_AUDIO_CALIBRATION_ATTEMPTS

ASSUME MediaAssumption == MaxPasses \in Nat \ {0} /\ MaxStrays \in Nat /\ MaxRenders \in Nat \ {0}

VARIABLES
  motionEnabled, targeted, \* the deployment's and the Director's settings
  file,      \* [path -> the bytes there]
  pass,      \* [pass -> [at, stage, nth, hash]]
  artifacts, \* rows recorded: [pass, stage, sha]
  review,    \* the pass that brought the release to review, 0 for none
  strays,    \* how often others have written
  overlapped \* history: passes beside which, or after which, others wrote

mediaVars == <<motionEnabled, targeted, file, pass, artifacts, review, strays, overlapped>>

Passes == 1..MaxPasses

\* audio, visual, motion and assembly; the reels, here one; the thumbnail.
StageOrder ==
  <<"audio", "visual">> \o (IF motionEnabled THEN <<"motion">> ELSE <<>>)
    \o <<"assembly", "reels", "packaging">>
StageNames == {"audio", "visual", "motion", "assembly", "reels", "packaging"}

\* A mutant of PathOf: one directory for all that is made for the release.
PathOfRelease(stage) == "audio"
\* A directory for each kind of output.
PathOf(stage) == stage

NoBytes == [stage |-> "audio", by |-> 0, nth |-> 0, ended |-> FALSE, fits |-> "in", true |-> FALSE]

PassOver(place) == [at |-> place, stage |-> 1, nth |-> 1, hash |-> NoBytes]

MediaInit ==
  /\ motionEnabled \in BOOLEAN /\ targeted \in BOOLEAN
  /\ file = [s \in StageNames |-> NoBytes]
  /\ pass = [p \in Passes |-> PassOver("idle")]
  /\ artifacts = {} /\ review = 0 /\ strays = 0 /\ overlapped = {}

PassAt(p, place) == pass[p].at = place
MovePass(p, place) == pass' = [pass EXCEPT ![p].at = place]
EndPass(p) == pass' = [pass EXCEPT ![p] = PassOver("over")]
Stage(p) == StageOrder[pass[p].stage]
Path(p) == PathOf(Stage(p))
Working == {p \in Passes : pass[p].at \notin {"idle", "over"}}

BeginPass(p) ==
  /\ PassAt(p, "idle") /\ \A q \in 1..(p - 1) : PassAt(q, "over")
  /\ MovePass(p, "ready") /\ review' = 0
  /\ UNCHANGED <<motionEnabled, targeted, file, artifacts, strays, overlapped>>

\* Nothing is run, and the release waits or is planned again: quota or a credential
\* is missing, or, of motion, the frame list cannot be written.
Unserved(p, stages) ==
  /\ PassAt(p, "ready") /\ Stage(p) \in stages /\ EndPass(p)
  /\ UNCHANGED <<motionEnabled, targeted, file, artifacts, review, strays, overlapped>>

WaitForVoice(p) == Unserved(p, {"audio"})               \* selectTtsProvider
WaitForImage(p) == Unserved(p, {"visual", "packaging"}) \* selectVisualProvider
NoMotion(p) == Unserved(p, {"motion"})                  \* runLocalMotionStage
NoPlan(p) == Unserved(p, {"assembly", "reels"})         \* verifyFfmpegAvailable

\* The artifacts a stage is made from, which the pass has recorded itself.
Sources(stage) ==
  CASE stage = "motion" -> {"visual"}
    [] stage = "assembly" -> {"audio", IF motionEnabled THEN "motion" ELSE "visual"}
    [] stage = "reels" -> {"audio", "visual"}
    [] OTHER -> {}

\* resolvePlanInputs: a descriptor of this pass for each reference of the plan.
BoundTo(p, s) == {a.sha : a \in {b \in artifacts : b.stage = s /\ b.pass = p}}

\* How long the output is, where a gate asks; of the narration that can be unknown.
Lengths(stage) ==
  CASE stage \in {"assembly", "reels"} -> {"in", "out"}
    [] stage = "audio" -> IF targeted THEN {"in", "out", "unknown"} ELSE {"unknown"}
    [] OTHER -> {"in"}

\* The sources are read by path.
Output(p, fits) ==
  [stage |-> Stage(p), by |-> p, nth |-> pass[p].nth, ended |-> FALSE, fits |-> fits,
   true |-> \A s \in Sources(Stage(p)) : file[PathOf(s)] \in BoundTo(p, s)]

\* The command opens its output.
StartCommand(p) ==
  /\ PassAt(p, "ready")
  /\ \E fits \in Lengths(Stage(p)) : file' = [file EXCEPT ![Path(p)] = Output(p, fits)]
  /\ MovePass(p, "running")
  /\ UNCHANGED <<motionEnabled, targeted, artifacts, review, strays, overlapped>>

\* What the last command to close the file leaves: its bytes, or a mixture.
Closed(bytes, writer, nth) ==
  IF bytes.by = writer /\ bytes.nth = nth THEN [bytes EXCEPT !.ended = TRUE]
                                          ELSE [bytes EXCEPT !.ended = FALSE, !.by = 0]

CommandSucceeds(p) ==
  /\ PassAt(p, "running")
  /\ file' = [file EXCEPT ![Path(p)] = Closed(@, p, pass[p].nth)]
  /\ MovePass(p, "ended")
  /\ UNCHANGED <<motionEnabled, targeted, artifacts, review, strays, overlapped>>

\* A mutant of AfterFailure: what lies at the path is promoted all the same.
PromotedAnyway(stage) == IF stage = "motion" THEN "ended" ELSE "over"
\* Every executor throws or reports failure; the motion stage inspects for the
\* record, and its descriptor stays unverified.
AfterFailure(stage) == "over"

\* It cannot be spawned, exits with another code, or is killed at its timeout.
CommandFails(p) ==
  /\ pass[p].at \in {"ready", "running"}
  /\ IF AfterFailure(Stage(p)) = "over" THEN EndPass(p) ELSE MovePass(p, AfterFailure(Stage(p)))
  /\ UNCHANGED <<motionEnabled, targeted, file, artifacts, review, strays, overlapped>>

\* hashArtifactFile reads the bytes.
HashOutput(p) ==
  /\ PassAt(p, "ended")
  /\ pass' = [pass EXCEPT ![p].at = "hashed", ![p].hash = file[Path(p)]]
  /\ UNCHANGED <<motionEnabled, targeted, file, artifacts, review, strays, overlapped>>

\* A mutant of NarrationFits: the last calibration attempt is taken as it is.
FitsAtLast(p) == file[Path(p)].fits # "out" \/ pass[p].nth = MaxRenders
\* The measured duration lies in the window of the completeness gate; where there
\* is none to measure, or no target, the gate of the episode decides.
NarrationFits(p) == file[Path(p)].fits # "out"

\* runFfprobe opens the path anew; what it measures need not be what was hashed.
Verified(p, stages) ==
  /\ PassAt(p, "hashed") /\ Stage(p) \in stages
  /\ MovePass(p, "verified")
  /\ UNCHANGED <<motionEnabled, targeted, file, artifacts, review, strays, overlapped>>

VerifyNarration(p) == NarrationFits(p) /\ Verified(p, {"audio"}) \* executeTtsGeneration
VerifyImage(p) == Verified(p, {"visual", "packaging"})           \* executeVisualGeneration
VerifyMotion(p) == Verified(p, {"motion"})                       \* runMotionStage

\* The runtime window and both streams of the episode; the short form's window.
RenderFits(p) == file[Path(p)].fits = "in"
VerifyRender(p) == RenderFits(p) /\ Verified(p, {"assembly", "reels"}) \* executeAssemblyPlan

\* The narration is rendered again at another rate, where its provider takes one.
Recalibrate(p) ==
  /\ PassAt(p, "hashed") /\ Stage(p) = "audio" /\ ~NarrationFits(p)
  /\ pass[p].nth < MaxRenders
  /\ pass' = [pass EXCEPT ![p].at = "ready", ![p].nth = @ + 1]
  /\ UNCHANGED <<motionEnabled, targeted, file, artifacts, review, strays, overlapped>>

\* The file cannot be read or probed, or fails its gate for good.
RefuseOutput(p) ==
  /\ pass[p].at \in {"ended", "hashed"} /\ EndPass(p)
  /\ UNCHANGED <<motionEnabled, targeted, file, artifacts, review, strays, overlapped>>

\* evaluateExecutorArtifact and recordExecutorArtifact; the next stage.
RecordOutput(p) ==
  /\ PassAt(p, "verified")
  /\ artifacts' = artifacts \cup {[pass |-> p, stage |-> Stage(p), sha |-> pass[p].hash]}
  /\ pass' = IF pass[p].stage = Len(StageOrder)
             THEN [pass EXCEPT ![p].at = "checked"]
             ELSE [pass EXCEPT ![p].at = "ready", ![p].stage = @ + 1, ![p].nth = 1,
                                 ![p].hash = NoBytes]
  /\ UNCHANGED <<motionEnabled, targeted, file, review, strays, overlapped>>

\* The quality gate over the manifest of this pass's artifacts, or its rejection.
FinishPass(p) ==
  /\ PassAt(p, "checked") /\ EndPass(p)
  /\ review' \in {review, p}
  /\ UNCHANGED <<motionEnabled, targeted, file, artifacts, strays, overlapped>>

\* The process goes, or a write to the database fails.
PassDies(p) ==
  /\ p \in Working /\ EndPass(p)
  /\ UNCHANGED <<motionEnabled, targeted, file, artifacts, review, strays, overlapped>>

\* Another pass over the release, or the child of a dead one, which no parent kills.
StrayWrite ==
  /\ strays < MaxStrays /\ strays' = strays + 1
  /\ \E s \in StageNames : file' = [file EXCEPT ![PathOf(s)] = NoBytes]
  /\ overlapped' = overlapped \cup Working \cup ({review} \ {0})
  /\ UNCHANGED <<motionEnabled, targeted, pass, artifacts, review>>

PassStep(p) ==
  \/ BeginPass(p) \/ WaitForVoice(p) \/ WaitForImage(p) \/ NoMotion(p) \/ NoPlan(p)
  \/ StartCommand(p) \/ CommandSucceeds(p) \/ CommandFails(p) \/ HashOutput(p)
  \/ VerifyNarration(p) \/ VerifyImage(p) \/ VerifyMotion(p) \/ VerifyRender(p)
  \/ Recalibrate(p) \/ RefuseOutput(p) \/ RecordOutput(p) \/ FinishPass(p) \/ PassDies(p)

MediaNext == (\E p \in Passes : PassStep(p)) \/ StrayWrite

MediaSpec == MediaInit /\ [][MediaNext]_mediaVars

-----------------------------------------------------------------------------
(* Properties                                                              *)

Bytes == [stage : StageNames, by : {0} \cup Passes, nth : 0..MaxRenders, ended : BOOLEAN,
          fits : {"in", "out", "unknown"}, true : BOOLEAN]

MediaTypeOK ==
  /\ motionEnabled \in BOOLEAN /\ targeted \in BOOLEAN
  /\ file \in [StageNames -> Bytes]
  /\ pass \in [Passes -> [at : {"idle", "ready", "running", "ended", "hashed", "verified",
                                "checked", "over"},
                          stage : 1..6, nth : 1..MaxRenders, hash : Bytes]]
  /\ artifacts \subseteq [pass : Passes, stage : StageNames, sha : Bytes]
  /\ review \in {0} \cup Passes
  /\ strays \in 0..MaxStrays
  /\ overlapped \subseteq Passes

\* What a pass records while nothing else writes the release's files was written by
\* a command of its own that exited with 0, in that stage, from the very bytes it
\* recorded for the sources, and is as long as it must be; earlier passes, timeouts
\* and calibration leave nothing of theirs in it ("a file already sitting at that
\* path is STALE and must never be promoted as this run's motion").  And such a
\* pass has brought the release to review with every stage recorded, and with the
\* files as they were recorded, which publishing will hash again.
RecordedAsRendered ==
  /\ \A a \in artifacts : a.pass \notin overlapped =>
       /\ a.sha.by = a.pass /\ a.sha.ended /\ a.sha.true /\ a.sha.stage = a.stage
       /\ a.sha.fits # "out"
  /\ review # 0 /\ review \notin overlapped =>
       \A i \in DOMAIN StageOrder :
         file[PathOf(StageOrder[i])] \in BoundTo(review, StageOrder[i])
===============================================================================
