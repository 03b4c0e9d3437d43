-------------------------------- MODULE MCOutput --------------------------------
(* The plans of the news and the story pipeline, how media and a release are   *)
(* made, rendered, packaged and published, in one run.  The parts share no      *)
(* state, so each behaviour is of one part, and the variables of the others     *)
(* stay as they began.                                                          *)
EXTENDS Publishing, MediaStages, RenderPlans, Generation, EpisodePackage, NewsPlans,
        StoryPlans, TLC

CONSTANTS c1, c2

VARIABLE part

Approval(a, d) == [artifact |-> a, destination |-> d, current |-> TRUE]

Request(r, d, a, c) ==
  [route |-> r, destination |-> d, artifact |-> "first", approval |-> a, caption |-> c,
   tid |-> d = "bilibili"]

Publish(d) == Request("publish", d, Approval(Unbound, Unbound), "plain")
Test(d, c) == Request("private_test", d, Approval(Unbound, Unbound), c)
Direct(d, a) == Request("adapter", d, a, "plain")
Together(r, s) == (c1 :> r) @@ (c2 :> s)

\* Two calls and the pairs of requests worth putting side by side: both publish
\* routes, equal and unequal private tests, and an approval given for the artifact
\* that is sent next to one given for another.
MCScenarios ==
  {Together(Publish("youtube"), Publish("youtube")),
   Together(Publish("youtube"), Publish("instagram")),
   Together(Test("instagram", "plain"), Test("instagram", "plain")),
   Together(Test("facebook", "plain"), Test("facebook", "other")),
   Together(Test("snapchat", "plain"), Test("snapchat", "plain")),
   Together(Direct("bilibili", Approval("first", "bilibili")),
            Direct("bilibili", Approval("second", "bilibili")))}

Claim(key, says, numbers, link) == [key |-> key, says |-> says, numbers |-> numbers, link |-> link]
Grew5 == Claim(2, "grew", <<5>>, FALSE)
Grew7 == Claim(3, "grew", <<7>>, FALSE)
Launched == Claim(1, "launched", <<>>, TRUE)

Source(url, domain, copy, at, claims) ==
  [url |-> url, domain |-> domain, copy |-> copy, at |-> at, link |-> at = 1, claims |-> claims]

\* Two outlets for each number, one of them with a copy of the other's page, an
\* update at the same url, and a second page of an outlet that says more.
MCSourcePool ==
  {Source("a1", "a", 1, 1, <<Launched, Grew5>>), Source("b1", "b", 1, 6, <<Launched, Grew5>>),
   Source("b2", "b", 2, 7, <<Grew5>>), Source("b1", "b", 3, 2, <<Grew5>>),
   Source("c1", "c", 4, 3, <<Grew7, Launched>>), Source("d1", "d", 5, 4, <<Grew7>>),
   Source("c1", "c", 6, 8, <<Launched>>)}
MCOrders == {[format |-> "explainer_short", seconds |-> 45],
             [format |-> "explainer_standard", seconds |-> 50]}

Segment(start, end, words) == [start |-> start, end |-> end, words |-> words]

\* A narration with a segment too short for its words, a long one of short words,
\* one that overlaps, and one of segments shorter than a millisecond.
MCNarrations ==
  <<<<Segment(0, 30000, <<20, 21, 5, 37, 4>>), Segment(30001, 30003, <<3, 3, 3>>)>>,
    <<Segment(1, 119999, <<9, 9, 9, 9, 9, 9, 9>>)>>,
    <<Segment(0, 20000, <<50, 1>>), Segment(19999, 30000, <<4>>)>>,
    <<Segment(0, 2, <<1, 1>>), Segment(2, 3, <<1>>)>>>>

Brief(brand, concept, minutes) == [brand |-> brand, concept |-> concept, minutes |-> minutes]

\* Two clean briefs, and one for each screening that some stages have and some have not.
MCBriefs ==
  {Brief("clean", "clean", 26), Brief("clean", "clean", 30), Brief("clean", "agent", 30),
   Brief("clean", "secret", 28), Brief("clean", "url", 25), Brief("locator", "token", 30),
   Brief("clean", "access", 31)}

\* A narration with a gap, an overlap of a millisecond and cues that need halving, one too
\* short for its words, and one that overlaps.
MCStoryNarrations ==
  <<<<Segment(0, 12000, <<4, 9, 20, 7, 9, 3, 12, 8, 8, 11>>), Segment(12002, 30001, <<5, 60, 3>>),
      Segment(30000, 60000, <<8, 8, 8, 8, 8, 8, 8, 8, 8, 8>>)>>,
    <<Segment(0, 10, [i \in 1..12 |-> 30])>>,
    <<Segment(0, 5000, <<3>>), Segment(4000, 6000, <<3>>)>>>>

RenderFile(type, claims, length, picture, sound) ==
  [type |-> type, claims |-> claims, length |-> length, picture |-> picture, sound |-> sound]

\* A still, a clip of six seconds, one of some forty minutes, a title card that claims
\* another length, and music.
MCRenderFiles ==
  [visual |-> RenderFile("image", 0, 0, TRUE, FALSE),
   motion |-> RenderFile("video", 60, 60, TRUE, FALSE),
   footage |-> RenderFile("video", 0, 23900, TRUE, TRUE),
   card |-> RenderFile("video", 40, 45, TRUE, FALSE),
   music |-> RenderFile("audio", 0, 130, FALSE, TRUE),
   narration |-> RenderFile("audio", 0, 0, FALSE, TRUE)]

Narrated == Cut("narration", "voice", 0, "cut")

\* A clip too short for its slot, a card among clips with ducked music, music ducked
\* against a voice, a still without an end, sound alone, a slot too long, and a picture
\* of a file that has none.
MCLibraryPlans ==
  {AssemblyPlan("main_longform", <<Cut("footage", "video_clip", 24000, "wipe"), Narrated>>,
                <<>>, TRUE),
   AssemblyPlan("content_reel_1",
                <<Cut("card", "title_card", 0, "dissolve"), Cut("motion", "video_clip", 90, "fade"),
                  Narrated, Cut("music", "bgm", 0, "cut")>>,
                <<Track("music", "bgm", TRUE)>>, FALSE),
   AssemblyPlan("brand_reel", <<Cut("visual", "still_image", 130, "wipe")>>,
                <<Track("narration", "voice", FALSE), Track("music", "bgm", TRUE)>>, FALSE),
   AssemblyPlan("content_reel_2", <<Cut("visual", "still_image", 0, "dissolve")>>,
                <<Track("music", "bgm", FALSE)>>, FALSE),
   AssemblyPlan("content_reel_2", <<Narrated>>, <<>>, TRUE),
   AssemblyPlan("brand_reel", <<Cut("visual", "still_image", 72001, "cut")>>, <<>>, FALSE),
   AssemblyPlan("brand_reel",
                <<Cut("motion", "video_clip", 0, "cut"), Cut("music", "still_image", 0, "cut")>>,
                <<>>, FALSE)}

Pieces == {"publishing", "media", "render", "generation", "package", "news", "story"}

\* Of a part that is not looked at, one initial state is enough.
OutputInit ==
  /\ part \in Pieces
  /\ PublishingInit
  /\ part # "publishing" => asked = Together(Publish("youtube"), Publish("youtube"))
  /\ MediaInit /\ targeted = motionEnabled /\ (part # "media" => targeted)
  /\ RenderInit /\ (part # "render" => narrationLength = 125)
  /\ GenerationInit /\ EpisodeInit /\ NewsInit /\ StoryInit

OutputNext ==
  \/ /\ part = "publishing" /\ PublishingNext
     /\ UNCHANGED <<part, mediaVars, renderVars, generationVars, episodeVars,
                   newsVars, storyVars>>
  \/ /\ part = "media" /\ MediaNext
     /\ UNCHANGED <<part, publishingVars, renderVars, generationVars, episodeVars,
                   newsVars, storyVars>>
  \/ /\ part = "render" /\ RenderNext
     /\ UNCHANGED <<part, publishingVars, mediaVars, generationVars, episodeVars,
                   newsVars, storyVars>>
  \/ /\ part = "generation" /\ GenerationNext
     /\ UNCHANGED <<part, publishingVars, mediaVars, renderVars, episodeVars, newsVars,
                   storyVars>>
  \/ /\ part = "package" /\ EpisodeNext
     /\ UNCHANGED <<part, publishingVars, mediaVars, renderVars, generationVars,
                   newsVars, storyVars>>
  \/ /\ part = "news" /\ NewsNext
     /\ UNCHANGED <<part, publishingVars, mediaVars, renderVars, generationVars, episodeVars,
                   storyVars>>
  \/ /\ part = "story" /\ StoryNext
     /\ UNCHANGED <<part, publishingVars, mediaVars, renderVars, generationVars, episodeVars,
                   newsVars>>

outputVars == <<part, publishingVars, mediaVars, renderVars, generationVars, episodeVars,
                newsVars, storyVars>>

\* PublishingFairness, where publishing is the part looked at.
OutputFairness == \A c \in Calls : WF_publishingVars(part = "publishing" /\ CallStep(c))

OutputSpec == OutputInit /\ [][OutputNext]_outputVars /\ OutputFairness

\* Every variable of the parts keeps its type: in a behaviour of a part, those of
\* that part.
OutputTypeOK ==
  /\ part \in Pieces
  /\ part = "publishing" => PublishingTypeOK
  /\ part = "media" => MediaTypeOK
  /\ part = "render" => RenderTypeOK
  /\ part = "generation" => GenerationTypeOK
  /\ part = "package" => EpisodeTypeOK
  /\ part = "news" => NewsTypeOK
  /\ part = "story" => StoryTypeOK

\* What a stage records is what was rendered and inspected (MediaStages), and what
\* counts as generated is what the provider that was asked made (Generation).
RendersHold == RecordedAsRendered /\ GeneratedAsClaimed

\* What is computed of what was asked for: a render is what was planned (RenderPlans), a
\* plan for the news is what its sources say (NewsPlans), and the stages of a story hand
\* each other what they can use (StoryPlans).
PlansHold == RenderPlansHold /\ PlansGrounded /\ StoryPlansHold

\* The cues of a narration are its words at their times, in both pipelines.
CuesHold == CuesCover /\ StoryCuesCover
===============================================================================
