------------------------------- MODULE RenderPlans -------------------------------
(***************************************************************************)
(* From a validated plan to a judged render: media/assemblyPlan.js,        *)
(* media/ffmpegAssemblyExecutor.js and media/episodeCompleteness.js, with  *)
(* the plans the runner makes for an episode and its reels.                *)
(*                                                                         *)
(* Lengths are in tenths of a second.  A file has the length and streams   *)
(* it has, and a descriptor that may claim a length.  The id of a plan,    *)
(* a hash of its content, is that content.  ffmpeg is external: it refuses *)
(* a graph in which a label is not used once, or a file without the stream *)
(* that is asked for, and otherwise plays what it is told to.              *)
(***************************************************************************)
EXTENDS Naturals, Sequences, FiniteSets, SequencesExt, FiniteSetsExt

CONSTANTS
  RenderFiles,   \* [ref -> [type, claims, length, picture, sound]], length 0 of a still
  NarrationLengths, \* how long the narration of the release, the ref "narration", may be
  LibraryPlans,  \* plans callers of the library ask for, beside those of the runner
  EpisodeLengths, \* the durations a Director may configure
  RendersOrdered \* bound: plans asked for in one behaviour

Main == "main_longform"
Reels == {"content_reel_1", "content_reel_2", "brand_reel"}
VisualKinds == {"video_clip", "still_image", "title_card"}
AudioKinds == {"voice", "bgm", "sfx"}

\* Files and plans have the shapes their validators let through; the runner's own
\* references are a still, a clip and the narration.
ASSUME RenderAssumption ==
  /\ \A ref \in DOMAIN RenderFiles :
       RenderFiles[ref] \in [type : {"image", "video", "audio"}, claims : Nat, length : Nat,
                            picture : BOOLEAN, sound : BOOLEAN]
  /\ {"visual", "motion", "narration"} \subseteq DOMAIN RenderFiles
  /\ RenderFiles["visual"].type = "image" /\ RenderFiles["motion"].type = "video"
  /\ RenderFiles["narration"].type = "audio"
  /\ \A plan \in LibraryPlans :
       /\ plan.target \in {Main} \cup Reels /\ plan.subtitle \in BOOLEAN
       /\ plan.segments \in Seq([ref : DOMAIN RenderFiles, kind : VisualKinds \cup AudioKinds,
                                seconds : Nat, transition : {"cut", "fade", "dissolve", "wipe"}])
       /\ plan.mix \in Seq([ref : DOMAIN RenderFiles, role : AudioKinds, ducking : BOOLEAN])
  /\ NarrationLengths \subseteq Nat /\ EpisodeLengths \subseteq Nat \ {0} /\ RendersOrdered \in Nat

VARIABLES
  narrationLength, \* of the release
  order,    \* the plan being rendered and where it is
  ordered,  \* how many were asked for
  accepted  \* renders that were a success

renderVars == <<narrationLength, order, ordered, accepted>>

\* seconds is 0 where the plan has none.
Cut(ref, kind, seconds, transition) ==
  [ref |-> ref, kind |-> kind, seconds |-> seconds, transition |-> transition]
Track(ref, role, ducking) == [ref |-> ref, role |-> role, ducking |-> ducking]
AssemblyPlan(target, segments, mix, subtitle) ==
  [target |-> target, segments |-> segments, mix |-> mix, subtitle |-> subtitle]

File(ref) == [RenderFiles[ref] EXCEPT !.length = IF ref = "narration" THEN narrationLength ELSE @]

\* buildPlan: the shape is given, the numbers are not.
PlanAccepted(plan) ==
  /\ Len(plan.segments) \in 1..200 /\ Len(plan.mix) <= 40
  /\ \A i \in DOMAIN plan.segments : plan.segments[i].seconds \in {0} \cup 1..72000

\* buildLongformAssemblyPlan: the motion clip where there is one.
EpisodePlan(moving, seconds) ==
  AssemblyPlan(Main, <<IF moving THEN Cut("motion", "video_clip", seconds, "cut")
                         ELSE Cut("visual", "still_image", seconds, "cut"),
               Cut("narration", "voice", 0, "cut")>>, <<>>, FALSE)
\* buildReelAssemblyPlans, of the beats of the canonical reels
ReelBeats == [content_reel_1 |-> <<120>>, content_reel_2 |-> <<50, 70>>, brand_reel |-> <<100>>]
ReelPlan(target) ==
  LET beats == ReelBeats[target] IN
  AssemblyPlan(target, [i \in DOMAIN beats |-> Cut("visual", "still_image", beats[i], "cut")]
                 \o <<Cut("narration", "voice", 0, "cut")>>, <<>>, FALSE)

Refs(plan) ==
  {plan.segments[i].ref : i \in DOMAIN plan.segments} \cup {plan.mix[i].ref : i \in DOMAIN plan.mix}

-----------------------------------------------------------------------------
(* The command                                                             *)

\* segmentDurationSeconds
Seconds(segment) == IF segment.seconds > 0 THEN segment.seconds ELSE File(segment.ref).claims

\* An input with its -loop 1, -stream_loop -1 and -t: for, where 0 is without end.
Input(ref, looped, for) == [ref |-> ref, looped |-> looped, for |-> for]
\* A mutant of InputOf: a clip is not looped to fill its slot.
UnloopedInputOf(segment) ==
  Input(segment.ref, File(segment.ref).type = "image", Seconds(segment))
InputOf(segment) ==
  IF File(segment.ref).type = "image" THEN Input(segment.ref, TRUE, Seconds(segment))
  ELSE IF segment.kind = "video_clip" /\ Seconds(segment) > 0
       THEN Input(segment.ref, TRUE, Seconds(segment))
       ELSE Input(segment.ref, FALSE, 0)

\* A filter has labels for what goes in; the labels of a segment or a track have its number.
Label(name, i) == <<name, i>>
Labels(name, positions) == {Label(name, i) : i \in positions}
Filter(ins, out) == [ins |-> ins, out |-> out]
Positions(plan, kinds) == {i \in DOMAIN plan.segments : plan.segments[i].kind \in kinds}

\* One chain for each visual segment, the concat, and the subtitles burned in.
VideoFilters(plan) ==
  LET visuals == Positions(plan, VisualKinds) IN
  IF visuals = {} THEN {}
  ELSE {Filter({Label("input", i)}, Label("v", i)) : i \in visuals}
       \cup {Filter(Labels("v", visuals), Label("vcat", 0))}
       \cup (IF plan.subtitle THEN {Filter({Label("vcat", 0)}, Label("vsub", 0))} ELSE {})
VideoOut(plan) ==
  IF Positions(plan, VisualKinds) = {} THEN {}
  ELSE {Label(IF plan.subtitle THEN "vsub" ELSE "vcat", 0)}

VoiceTracks(plan) == {k \in DOMAIN plan.mix : plan.mix[k].role = "voice"}
\* A track is ducked against the first voice of the mix, never against a voice segment.
Ducked(plan, k) == plan.mix[k].ducking /\ plan.mix[k].role # "voice" /\ VoiceTracks(plan) # {}

\* The volume of every track, and the ducking.
TrackFilters(plan) ==
  {Filter({Label("input", Len(plan.segments) + k)}, Label("t", k)) : k \in DOMAIN plan.mix}
  \cup {Filter({Label("t", k), Label("t", Min(VoiceTracks(plan)))}, Label("d", k)) :
          k \in {j \in DOMAIN plan.mix : Ducked(plan, j)}}

SegmentSound(plan) ==
  LET voices == Positions(plan, AudioKinds) IN
  {Filter({Label("input", i)}, Label("aseg", i)) : i \in voices}
  \cup (IF Cardinality(voices) > 1 THEN {Filter(Labels("aseg", voices), Label("sega", 0))}
        ELSE {})
\* What is mixed: the sound of the segments, and each track as it is or ducked.
Mixed(plan) ==
  LET voices == Positions(plan, AudioKinds) IN
  (IF Cardinality(voices) > 1 THEN {Label("sega", 0)} ELSE Labels("aseg", voices))
  \cup {Label(IF Ducked(plan, k) THEN "d" ELSE "t", k) : k \in DOMAIN plan.mix}
AudioFilters(plan) ==
  SegmentSound(plan) \cup TrackFilters(plan)
  \cup (IF Cardinality(Mixed(plan)) > 1 THEN {Filter(Mixed(plan), Label("aout", 0))} ELSE {})
AudioOut(plan) ==
  IF Cardinality(Mixed(plan)) > 1 THEN {Label("aout", 0)} ELSE Mixed(plan)

\* What is said of what is not rendered as planned.
Degradations(plan) ==
  {<<"wipe_rendered_as_fade", i>> : i \in {j \in DOMAIN plan.segments :
     plan.segments[j].kind \in VisualKinds /\ plan.segments[j].transition = "wipe"}}
  \cup {<<"dissolve_without_duration_fade_in_only", i>> : i \in {j \in DOMAIN plan.segments :
     /\ plan.segments[j].kind \in VisualKinds /\ plan.segments[j].transition = "dissolve"
     /\ Seconds(plan.segments[j]) = 0}}
  \cup {<<"ducking_without_voice_source_static_gain", k>> : k \in {j \in DOMAIN plan.mix :
     plan.mix[j].ducking /\ ~Ducked(plan, j)}}
  \cup (IF plan.subtitle /\ VideoOut(plan) = {} THEN {<<"subtitle_without_video_dropped", 0>>}
        ELSE {})

Command(plan) ==
  [inputs |-> [i \in DOMAIN plan.segments |-> InputOf(plan.segments[i])]
              \o [k \in DOMAIN plan.mix |-> Input(plan.mix[k].ref, FALSE, 0)],
   graph |-> VideoFilters(plan) \cup AudioFilters(plan),
   video |-> VideoOut(plan), audio |-> AudioOut(plan), degradations |-> Degradations(plan)]

-----------------------------------------------------------------------------
(* ffmpeg, external                                                        *)

\* How often a label is the input of a filter or mapped to the output.
Uses(command, label) ==
  Cardinality({f \in command.graph : label \in f.ins})
  + Cardinality({end \in {"video", "audio"} : label \in command[end]})
GraphSound(command) == \A f \in command.graph : Uses(command, f.out) = 1

\* An input lasts as long as it is looped for, or as its file does.
Lasts(input) ==
  IF input.looped THEN input.for
  ELSE IF input.for = 0 THEN File(input.ref).length
       ELSE Min({input.for, File(input.ref).length})
Endless(command) ==
  \E i \in DOMAIN command.inputs : command.inputs[i].looped /\ command.inputs[i].for = 0
StreamsThere(plan) ==
  /\ \A i \in DOMAIN plan.segments :
       IF plan.segments[i].kind \in VisualKinds THEN File(plan.segments[i].ref).picture
       ELSE File(plan.segments[i].ref).sound
  /\ \A k \in DOMAIN plan.mix : File(plan.mix[k].ref).sound

Total(command, positions) ==
  SumFunction([i \in positions |-> Lasts(command.inputs[i])])
\* The pictures one after the other; the sound as long as the longest that is mixed.
VideoLength(plan, command) == Total(command, Positions(plan, VisualKinds))
AudioLength(plan, command) ==
  Max({Total(command, Positions(plan, AudioKinds))}
      \cup {Lasts(command.inputs[Len(plan.segments) + k]) : k \in DOMAIN plan.mix})

-----------------------------------------------------------------------------
(* The verdict                                                             *)

MainMin == 18000
MainMax == 30000
TargetTolerance == 1800
ShortMin == 30
ShortMax == 900
Overrun == 10

\* evaluateMainVideoRuntimeGate, evaluateMainVideoDurationTarget and
\* evaluateShortFormDurationGate, of the length of the whole file.
InWindow(target, configured, length) ==
  IF target # Main THEN length \in ShortMin..ShortMax
  ELSE /\ length \in MainMin..MainMax
       /\ configured > 0 => /\ configured \in MainMin..MainMax
                            /\ length + TargetTolerance >= configured
                            /\ length <= configured + TargetTolerance

\* audioCoverageToleranceSeconds
Tolerance(reference) == Min({150, Max({10, reference \div 200})})
\* A mutant of Complete: sound may outlast the picture.
CoveredOnly(video, audio, configured) ==
  LET reference == IF configured > 0 THEN configured ELSE video
  IN video > 0 /\ audio > 0 /\ audio + Tolerance(reference) >= reference
\* evaluateEpisodeCompleteness
Complete(video, audio, configured) ==
  LET reference == IF configured > 0 THEN configured ELSE video
  IN /\ video > 0 /\ audio > 0
     /\ audio + Tolerance(reference) >= reference
     /\ audio <= video + Overrun

-----------------------------------------------------------------------------
(* The steps of executeAssemblyPlan                                        *)

\* id is the content the plan was made of; configured is 0 without a target.
Order(at, plan, id, configured, bound) ==
  [at |-> at, plan |-> plan, id |-> id, configured |-> configured, bound |-> bound,
   command |-> {}]
NoOrder == Order("none", {}, {}, 0, {})

RenderInit ==
  /\ narrationLength \in NarrationLengths
  /\ order = NoOrder /\ ordered = 0 /\ accepted = {}

\* A plan is made, with descriptors bound to some of its references.
Ask(plan, configured, bound) ==
  /\ order.at = "none" /\ ordered < RendersOrdered /\ PlanAccepted(plan)
  /\ order' = Order("planned", plan, plan, configured, bound) /\ ordered' = ordered + 1
  /\ UNCHANGED <<narrationLength, accepted>>

\* The default plans the render and is no target.
AskEpisode ==
  \E moving \in BOOLEAN, seconds \in EpisodeLengths, configured \in BOOLEAN :
    LET plan == EpisodePlan(moving, seconds)
    IN Ask(plan, IF configured THEN seconds ELSE 0, Refs(plan))
AskReel == \E target \in Reels : Ask(ReelPlan(target), 0, Refs(ReelPlan(target)))
AskLibrary ==
  \E plan \in LibraryPlans :
    \E bound \in {Refs(plan)} \cup {Refs(plan) \ {ref} : ref \in Refs(plan)} : Ask(plan, 0, bound)

\* Whoever holds the plan changes it after it was made.
Alter ==
  /\ order.at = "planned" /\ order.plan = order.id
  /\ \E i \in DOMAIN order.plan.segments :
       order' = [order EXCEPT !.plan.segments[i].seconds = @ + 10]
  /\ UNCHANGED <<narrationLength, ordered, accepted>>

GiveUpRender == order' = NoOrder /\ UNCHANGED <<narrationLength, ordered, accepted>>

\* A mutant of Resolved: the id of the plan is not computed again.
BoundAtAll(o) == Refs(o.plan) \subseteq o.bound
\* verifyAssemblyPlanIntegrity, resolvePlanInputs
Resolved(o) == o.plan = o.id /\ Refs(o.plan) \subseteq o.bound

\* ASSEMBLY_ID_MISMATCH, EXEC_REF_UNBOUND and the refusals of the shape
RefusePlan == order.at = "planned" /\ ~Resolved(order) /\ GiveUpRender
BuildCommand ==
  /\ order.at = "planned" /\ Resolved(order)
  /\ order' = [order EXCEPT !.at = "built", !.command = {Command(order.plan)}]
  /\ UNCHANGED <<narrationLength, ordered, accepted>>

TheCommand == CHOOSE c \in order.command : TRUE

\* No tool, no start, a time-out, an exit code; a command without end has one of them.
CommandRefused == order.at = "built" /\ GiveUpRender
CommandRun ==
  /\ order.at = "built"
  /\ GraphSound(TheCommand) /\ StreamsThere(order.plan) /\ ~Endless(TheCommand)
  /\ order' = [order EXCEPT !.at = "rendered"]
  /\ UNCHANGED <<narrationLength, ordered, accepted>>

\* The inspection finds the file, its length and those of its streams, or it is refused.
NotInspected == order.at = "rendered" /\ GiveUpRender
Judge ==
  /\ order.at = "rendered"
  /\ LET video == VideoLength(order.plan, TheCommand)
         audio == AudioLength(order.plan, TheCommand)
         configured == IF order.plan.target = Main THEN order.configured ELSE 0
     IN accepted' =
          IF InWindow(order.plan.target, configured, Max({video, audio}))
             /\ Complete(video, audio, configured)
          THEN accepted \cup {[plan |-> order.plan, id |-> order.id, configured |-> configured,
                               video |-> video, audio |-> audio,
                               said |-> TheCommand.degradations]}
          ELSE accepted
  /\ order' = NoOrder /\ UNCHANGED <<narrationLength, ordered>>

RenderNext ==
  \/ AskEpisode \/ AskReel \/ AskLibrary \/ Alter \/ RefusePlan \/ BuildCommand
  \/ CommandRefused \/ CommandRun \/ NotInspected \/ Judge

RenderSpec == RenderInit /\ [][RenderNext]_renderVars

-----------------------------------------------------------------------------
(* Properties                                                              *)

RenderTypeOK ==
  /\ narrationLength \in NarrationLengths /\ ordered \in 0..RendersOrdered
  /\ order.at \in {"none", "planned", "built", "rendered"}
  /\ (order.command # {}) = (order.at \in {"built", "rendered"})
  /\ \A a \in accepted : a.video \in Nat /\ a.audio \in Nat

\* An accepted render is of the plan that was made, shows every image and every clip for
\* the time planned, and its very picture is in the window, although only the length of
\* the whole file is measured against it.  Where the Director set a length, the sound
\* is there for all of it but the tolerance, so the picture is too: of the three minutes
\* the target window leaves below, the gates together leave sixteen seconds at most.
RenderedAsPlanned ==
  \A a \in accepted :
    LET cuts == {i \in DOMAIN a.plan.segments : a.plan.segments[i].kind \in VisualKinds}
        timed == \A i \in cuts :
                   /\ a.plan.segments[i].seconds > 0
                   /\ \/ a.plan.segments[i].kind = "video_clip"
                      \/ RenderFiles[a.plan.segments[i].ref].type = "image"
        window == IF a.plan.target = Main THEN (MainMin - Overrun)..MainMax
                  ELSE (ShortMin - Overrun)..ShortMax
    IN /\ a.plan = a.id /\ cuts # {}
       /\ timed => a.video = SumFunction([i \in cuts |-> a.plan.segments[i].seconds])
       /\ a.video \in window /\ a.audio <= a.video + Overrun
       /\ a.configured > 0 =>
            /\ a.video + 160 >= a.configured
            /\ a.video <= a.configured + TargetTolerance
       /\ \A i \in cuts : a.plan.segments[i].transition = "wipe" =>
            <<"wipe_rendered_as_fade", i>> \in a.said

\* Every command of the runner's own plans is one ffmpeg can run and that ends; and so
\* is every other but those with a track ducked against a voice of the mix, whose label
\* is then used twice.
CommandsRun ==
  \A c \in order.command :
    /\ ~GraphSound(c) => \E k \in DOMAIN order.plan.mix : Ducked(order.plan, k)
    /\ order.plan \notin LibraryPlans => GraphSound(c) /\ ~Endless(c)

\* The reels carry the whole narration of the episode under a picture of some seconds:
\* a narration with which the episode is accepted is one with which no reel is, and the
\* other way round.
EpisodeOrReels ==
  \A a, b \in accepted :
    a.plan.target = Main /\ b.plan.target # Main => \E r \in {a, b} : r.plan \in LibraryPlans

RenderPlansHold == RenderedAsPlanned /\ CommandsRun /\ EpisodeOrReels
=============================================================================
