------------------------------ MODULE StoryPlans ------------------------------
(***************************************************************************)
(* The planners of the story pipeline (src/jarvis/deterministic*.js,       *)
(* durable*DispatchCheckpoint.js, packageProfileManifest.js).  An outline  *)
(* made of a brief goes to six planners; what three of those return goes   *)
(* to the dispatchers of script, audio and pictures, whose requests may    *)
(* wait for quota under a task id of their own.  Every stage reads again   *)
(* what the stage before it wrote, and throws where it does not like it.   *)
(*                                                                         *)
(* The hash that names a document is the document.  A text is what its     *)
(* screening finds in it, "clean" for nothing.  Words are lengths, times   *)
(* of a narration are milliseconds.                                        *)
(***************************************************************************)
EXTENDS Naturals, Sequences, FiniteSets, SequencesExt

CONSTANTS
  Briefs,           \* [brand, concept: texts, minutes]
  Owners,
  StoryNarrations,  \* sequence of narrations: sequences of [start, end, words]
  MaxDocuments      \* bound

Texts == {"clean", "secret", "agent", "access", "token", "locator", "url"}

ASSUME StoryAssumption ==
  /\ \A b \in Briefs : b.brand \in Texts /\ b.concept \in Texts /\ b.minutes \in Nat
  /\ Owners # {} /\ MaxDocuments \in Nat
  /\ StoryNarrations \in Seq(Seq([start : Nat, end : Nat, words : Seq(Nat) \ {<<>>}]))

VARIABLES
  documents,   \* [kind, brief, parts, owner], owner {} where there is none
  checkpoints, \* the records of the checkpoint store: [task, owner, of]
  waited,      \* history: <<dispatch, owner>> that was written to the store
  manifest,    \* {} or the package profile manifest last built
  cued         \* the narration subtitles were made of, 0 for none

storyVars == <<documents, checkpoints, waited, manifest, cued>>

StoryInit ==
  documents = {} /\ checkpoints = {} /\ waited = {} /\ manifest = {} /\ cued = 0

Sum(parts) == FoldLeft(+, 0, parts)

-----------------------------------------------------------------------------
(* What each stage takes, refuses and makes.                               *)

\* A mutant of Screens: the scenes are screened like the story.
ScreensAlike(stage) == {"secret", "access", "token", "locator", "url"}
\* SECRET_*, INTERNAL_* and URL_LIKE of each file.
Screens(stage) ==
  CASE stage = "outline" -> {"secret"}
    [] stage \in {"script", "continuity"} -> {"secret", "agent"}
    [] stage = "scenes" -> {"secret", "agent", "token"}
    [] stage \in {"narration", "shorts"} -> {"secret", "agent", "access"}
    [] stage = "metadata" -> {"secret", "agent", "access", "url"}
    [] stage = "script_dispatch" -> {"secret", "agent", "locator"}
    [] OTHER -> {"secret", "agent", "access", "locator"}

\* The texts of the brief a document repeats.
TextsOf(d) ==
  IF d.kind \in {"outline", "script"} THEN {d.brief.brand, d.brief.concept} ELSE {d.brief.brand}

\* A mutant of SectionMinutes: the last section is as long as the one before.
SectionMinutesFixed(minutes) == <<3, 5, 7, 6, 6>>
SectionMinutes(minutes) == <<3, 5, 7, 6, minutes - 21>>

\* A mutant of NarrationSeconds: the last beat has its weight, like the others.
NarrationSecondsFloored(minutes) ==
  [i \in 1..5 |-> (minutes * 60 * <<12, 20, 27, 23, 18>>[i]) \div 100]
\* The last beat has what is left.
NarrationSeconds(minutes) ==
  LET floors == [i \in 1..4 |-> (minutes * 60 * <<12, 20, 27, 23>>[i]) \div 100]
  IN Append(floors, minutes * 60 - Sum(floors))

ShortSeconds == <<30, 45, 30>>

\* A mutant of Scenes: the shorts have no scenes.
ScenesLong == [i \in 1..5 |-> 1]
\* Five scenes of the story and three of the shorts.
Scenes == [i \in 1..8 |-> 1]

\* What the dispatchers and their checkpoints demand of a plan's parts.
Fits(stage, d) ==
  /\ \A i \in DOMAIN d.parts : d.parts[i] >= 1
  /\ stage = "script_dispatch" => Len(d.parts) = 5 /\ Sum(d.parts) = d.brief.minutes
  /\ stage = "audio_dispatch" => Len(d.parts) = 5 /\ Sum(d.parts) = d.brief.minutes * 60
  /\ stage = "visual_dispatch" => Len(d.parts) = 8

Accepts(stage, d) ==
  /\ TextsOf(d) \cap Screens(stage) = {} /\ d.brief.minutes \in 25..30
  /\ Fits(stage, d)

Document(kind, brief, parts, owner) ==
  [kind |-> kind, brief |-> brief, parts |-> parts, owner |-> owner]

Made(d) ==
  /\ Cardinality(documents \cup {d}) <= MaxDocuments                          \* bound
  /\ documents' = documents \cup {d} /\ UNCHANGED <<checkpoints, waited, manifest, cued>>

\* deterministicJarvisContentHandler.
Outline(brief) ==
  LET d == Document("outline", brief, <<>>, {})
  IN Accepts("outline", d) /\ Made(d)

\* A planner makes `kind' of an outline.
Plan(outline, kind, parts) ==
  /\ outline.kind = "outline" /\ Accepts(kind, outline)
  /\ Made(Document(kind, outline.brief, parts, {}))

ScriptPlan(d) == Plan(d, "script", SectionMinutes(d.brief.minutes))
NarrationPlan(d) == Plan(d, "narration", NarrationSeconds(d.brief.minutes))
ContinuityPlan(d) == Plan(d, "continuity", <<>>)
ScenePlan(d) == Plan(d, "scenes", Scenes)
ShortsPlan(d) == Plan(d, "shorts", ShortSeconds)
StoryMetadataPlan(d) == Plan(d, "metadata", <<>>)

-----------------------------------------------------------------------------
(* Dispatches that wait for quota.                                         *)

ScriptDispatch(d, o) ==
  /\ d.kind = "script" /\ Accepts("script_dispatch", d)
  /\ Made(Document("script_dispatch", d.brief, d.parts, {o}))

\* One request for each segment, one for the cues.
AudioDispatch(d, o) ==
  /\ d.kind = "narration" /\ Accepts("audio_dispatch", d)
  /\ Made(Document("audio_dispatch", d.brief, Append(d.parts, 0), {o}))

\* One request for each scene; nobody's.
VisualDispatch(d) ==
  /\ d.kind = "scenes" /\ Accepts("visual_dispatch", d)
  /\ Made(Document("visual_dispatch", d.brief, d.parts, {}))

\* The checkpoint modules take as many requests as the dispatchers make.
Durable(d, o) ==
  \/ d.kind = "script_dispatch" /\ d.owner = {o}
  \/ d.kind = "audio_dispatch" /\ d.owner = {o} /\ Len(d.parts) = 6
  \/ d.kind = "visual_dispatch" /\ Len(d.parts) = 8

\* A mutant of TaskOf: the owner is no part of what is dispatched.
TaskOfPlan(d) == <<d.kind, d.brief, d.parts>>
\* A dispatch is written under its own hash.
TaskOf(d) == <<d.kind, d.brief, d.parts, d.owner>>

RecordsAt(task) == {c \in checkpoints : c.task = task}

\* persist{Script,Audio,Visual}WaitingForQuota overwrites.
PersistWaiting(d, o) ==
  /\ Durable(d, o)
  /\ checkpoints' = (checkpoints \ RecordsAt(TaskOf(d)))
                      \cup {[task |-> TaskOf(d), owner |-> o, of |-> d]}
  /\ waited' = waited \cup {<<d, o>>}
  /\ UNCHANGED <<documents, manifest, cued>>

\* resume{Script,Audio,Visual}Dispatch: what it returns, or throws.
Resumed(d, o) ==
  IF RecordsAt(TaskOf(d)) = {} THEN "nothing"
  ELSE IF [task |-> TaskOf(d), owner |-> o, of |-> d] \in checkpoints THEN "waiting"
  ELSE "scope mismatch"

-----------------------------------------------------------------------------
(* The package profile.                                                    *)

\* A mutant of ProfileOf: every agent has the default profile.
ProfileOfAnyone(agent) == "canonical_default_v1"
ProfileOf(agent) == IF agent = "agent-01" THEN "jarvis_legacy_v1" ELSE "canonical_default_v1"

\* buildOutputs: the seconds of the standalone shorts, 0 where none are set.
StandaloneShorts(profile) ==
  IF profile = "jarvis_legacy_v1" THEN <<30, 45, 30>> ELSE <<0, 0>>

BuildManifest(agent) ==
  /\ manifest' = {[agent |-> agent, shorts |-> StandaloneShorts(ProfileOf(agent))]}
  /\ UNCHANGED <<documents, checkpoints, waited, cued>>

-----------------------------------------------------------------------------
(* Subtitles.                                                              *)

LineChars(words) == Sum(words) + Len(words) - 1

\* A mutant of Chunks: the space before a word is not counted.
ChunksTight(words) ==
  FoldLeft(LAMBDA chunks, w :
             IF chunks = <<>> \/ LineChars(chunks[Len(chunks)]) + w > 42
             THEN Append(chunks, <<w>>)
             ELSE [chunks EXCEPT ![Len(chunks)] = Append(@, w)],
           <<>>, words)
\* A word that does not fit the chunk begins the next.
Chunks(words) ==
  FoldLeft(LAMBDA chunks, w :
             IF chunks = <<>> \/ LineChars(chunks[Len(chunks)]) + 1 + w > 42
             THEN Append(chunks, <<w>>)
             ELSE [chunks EXCEPT ![Len(chunks)] = Append(@, w)],
           <<>>, words)

\* A mutant of ChunkEnd: the last chunk has its share, like the others.
ChunkEndShared(segment, from, share, last) ==
  from + (2 * (segment.end - segment.start) * share + Len(segment.words))
           \div (2 * Len(segment.words))
\* Of the chunk that starts at `from' and has `share' of the segment's words.
ChunkEnd(segment, from, share, last) ==
  IF last THEN segment.end
  ELSE from + (2 * (segment.end - segment.start) * share + Len(segment.words))
                \div (2 * Len(segment.words))

Cue(words, start, end) == [words |-> words, start |-> start, end |-> end]

\* Longer than seven seconds: once in half.
Halved(words, start, end) ==
  LET half == (Len(words) + 1) \div 2
      middle == start + (end - start + 1) \div 2
  IN <<Cue(SubSeq(words, 1, half), start, middle),
       Cue(SubSeq(words, half + 1, Len(words)), middle, end)>>

\* splitSegmentIntoCues.
Split(segment) ==
  LET chunks == Chunks(segment.words)
      Step(cues, i) ==
        LET from == IF cues = <<>> THEN segment.start ELSE cues[Len(cues)].end
            end == ChunkEnd(segment, from, Len(chunks[i]), i = Len(chunks))
        IN cues \o IF end > from + 7000 THEN Halved(chunks[i], from, end)
                   ELSE <<Cue(chunks[i], from, end)>>
  IN FoldLeft(Step, <<>>, [i \in DOMAIN chunks |-> i])

\* validateNarrationSegments: a millisecond of overlap is let through.
Narratable(n) ==
  /\ n # <<>>
  /\ \A i \in DOMAIN n :
       /\ n[i].end > n[i].start /\ n[i].end <= 1800000 /\ n[i].end - n[i].start <= 120000
       /\ i > 1 => n[i].start + 1 >= n[i - 1].end

StorySubtitles ==
  /\ \E i \in DOMAIN StoryNarrations : Narratable(StoryNarrations[i]) /\ cued' = i
  /\ UNCHANGED <<documents, checkpoints, waited, manifest>>

LongFormCues(n) == FlattenSeq([i \in DOMAIN n |-> Split(n[i])])

Lesser(a, b) == IF a < b THEN a ELSE b

\* A mutant of InTension: the window may last into the ending.
InTensionLate(cue, total) ==
  20 * cue.start >= 8 * total /\ 20 * cue.end <= 40000 + 8 * total + 20 * 45000
\* What the shorts show of a narration that lasts so long.
InHook(cue, total) == 20 * cue.end <= 40000 + Lesser(20 * 30000, 5 * total)
InTension(cue, total) ==
  /\ 20 * cue.start >= 8 * total
  /\ 20 * cue.end <= 40000 + Lesser(8 * total + 20 * 45000, 15 * total)

StoryNext ==
  \/ \E b \in Briefs : Outline(b)
  \/ \E d \in documents :
       \/ ScriptPlan(d) \/ NarrationPlan(d) \/ ContinuityPlan(d) \/ ScenePlan(d)
       \/ ShortsPlan(d) \/ StoryMetadataPlan(d) \/ VisualDispatch(d)
       \/ \E o \in Owners : ScriptDispatch(d, o) \/ AudioDispatch(d, o) \/ PersistWaiting(d, o)
  \/ \E agent \in {"agent-01", "agent-02"} : BuildManifest(agent)
  \/ StorySubtitles

StorySpec == StoryInit /\ [][StoryNext]_storyVars

-----------------------------------------------------------------------------
(* Properties                                                              *)

Kinds == {"outline", "script", "narration", "continuity", "scenes", "shorts", "metadata",
          "script_dispatch", "audio_dispatch", "visual_dispatch"}

StoryTypeOK ==
  /\ \A d \in documents :
       d.kind \in Kinds /\ d.brief \in Briefs /\ d.parts \in Seq(Nat) /\ d.owner \subseteq Owners
  /\ \A c \in checkpoints : c.of \in documents /\ c.owner \in Owners
  /\ waited \subseteq documents \X Owners
  /\ \A x \in manifest : x.agent \in {"agent-01", "agent-02"} /\ x.shorts \in Seq(Nat)
  /\ cued \in 0..Len(StoryNarrations)

Takers(kind) ==
  CASE kind = "outline" -> {"script", "narration", "continuity", "scenes", "shorts", "metadata"}
    [] kind = "script" -> {"script_dispatch"}
    [] kind = "narration" -> {"audio_dispatch"}
    [] kind = "scenes" -> {"visual_dispatch"}
    [] OTHER -> {}

\* What a stage makes of a clean brief, the next stages take, and a dispatch can be
\* written down; no dispatch names an agent; and its times add up to the story's.
StagesAgree ==
  \A d \in documents :
    /\ {d.brief.brand, d.brief.concept} = {"clean"} =>
         /\ \A stage \in Takers(d.kind) : Accepts(stage, d)
         /\ d.kind \in {"script_dispatch", "audio_dispatch", "visual_dispatch"} =>
              \E o \in Owners : Durable(d, o)
    /\ d.kind \in {"script_dispatch", "audio_dispatch", "visual_dispatch"} =>
         "agent" \notin {d.brief.brand, d.brief.concept}
    /\ d.kind = "script_dispatch" => Sum(d.parts) = d.brief.minutes
    /\ d.kind = "audio_dispatch" => Sum(d.parts) = 60 * d.brief.minutes

\* Who wrote that a dispatch waits finds it waiting, unless it is one of pictures,
\* whose task id has no owner in it, and another owner has written the same.
WaitingFound ==
  \A w \in waited :
    \/ Resumed(w[1], w[2]) = "waiting"
    \/ w[1].kind = "visual_dispatch" /\ \E o \in Owners \ {w[2]} : <<w[1], o>> \in waited

\* They follow each other from the start of the segment to its end, repeat its words,
\* keep to 42 characters, and none is shown by both the hook and the tension short.
CoverStory(cues, segment, total) ==
  /\ FlattenSeq([j \in DOMAIN cues |-> cues[j].words]) = segment.words
  /\ cues[1].start = segment.start /\ cues[Len(cues)].end = segment.end
  /\ \A j \in DOMAIN cues :
       /\ cues[j].start <= cues[j].end
       /\ j > 1 => cues[j].start = cues[j - 1].end
       /\ Len(cues[j].words) > 1 => LineChars(cues[j].words) <= 42
       /\ total >= 14000 => ~(InHook(cues[j], total) /\ InTension(cues[j], total))

\* Each cut but the last is up to half a millisecond late; together they do not
\* come to what is left for the last word.
RoomForCuts(segment) ==
  Len(segment.words) * (Len(Chunks(segment.words)) - 1) <= 2 * (segment.end - segment.start)

\* The cues of a segment with room for its cuts cover it and its words; and neither
\* the hook nor the tension short shows the last (the teaser does).
StoryCuesCover ==
  cued # 0 =>
    LET n == StoryNarrations[cued]
        all == LongFormCues(n)
        last == all[Len(all)]
    IN /\ \A segment \in ToSet(n) :
            RoomForCuts(segment) => CoverStory(Split(segment), segment, last.end)
       /\ last.end >= 14000 => ~InHook(last, last.end) /\ ~InTension(last, last.end)

\* The manifest promises the shorts the shorts planner plans.
ManifestKept == \A x \in manifest : x.agent = "agent-01" => x.shorts = ShortSeconds

\* A story's stages hand each other what they can use, and what waits is found.
StoryPlansHold == StagesAgree /\ WaitingFound /\ ManifestKept
===============================================================================
