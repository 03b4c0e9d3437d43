------------------------------- MODULE Generation -------------------------------
(***************************************************************************)
(* How a voice, an image or a motion clip is asked of a provider, made and *)
(* put on record: the executors media/ttsExecutor.js,                      *)
(* media/visualExecutor.js and pipeline/motionStage.js, under the runner,  *)
(* with the contracts media/ttsAdapter.js, media/visualAdapter.js and      *)
(* media/motionAdapter.js.                                                 *)
(*                                                                         *)
(* The slots of the providers change as others use them.  The id of a      *)
(* profile or a request is a hash of its content; a record is intact as    *)
(* long as nobody changed it.  The files themselves are in MediaStages.    *)
(***************************************************************************)
EXTENDS Naturals, Sequences, FiniteSets

CONSTANTS
  GenerationDirectors, \* the GenerationDirectors whose runners ask
  GenerationRequests   \* bound: the requests there are

VARIABLES
  slots,    \* [provider -> how its slot in the registry stands]
  requests, \* [request -> its course]
  outcomes, \* the generation outcomes recorded
  commands  \* [request -> how often a provider's command was started for it]

generationVars == <<slots, requests, outcomes, commands>>

\* TTS_PROVIDER_CHAIN and VISUAL_PROVIDER_CHAIN, in contract order, and the local worker.
Chain ==
  [voice |-> <<"edge_tts", "espeak_ng">>, image |-> <<"pollinations", "local_sd">>,
   motion |-> <<"minterpolate">>]
MediaKinds == DOMAIN Chain
Providers == {"edge_tts", "espeak_ng", "pollinations", "local_sd"}
\* The container a provider's output really has.
ContainerOf ==
  [edge_tts |-> "mpeg", espeak_ng |-> "wav", pollinations |-> "jpeg", local_sd |-> "png",
   minterpolate |-> "mp4"]

\* A slot that is not there or declares nothing; one that has no quota or does not serve the
\* voice, language, modality or ratio asked for; and one that serves.
SlotStates == {"undeclared", "unfit", "fit"}
Serves(provider) == provider = "minterpolate" \/ slots[provider] = "fit"

\* holder is the Director of the profile, asker that of the request (of the image that is
\* animated, for a clip), wanted the provider the profile or the request is made for.
Asking(at, kind, holder, asker, wanted, runner) ==
  [at |-> at, kind |-> kind, holder |-> holder, asker |-> asker, wanted |-> wanted,
   runner |-> runner, intact |-> TRUE, ran |-> "none"]
Unasked == Asking("idle", "voice", "none", "none", "none", FALSE)

GenerationInit ==
  /\ slots = [p \in Providers |-> "fit"] /\ requests = [g \in GenerationRequests |-> Unasked]
  /\ outcomes = {} /\ commands = [g \in GenerationRequests |-> 0]

Stands(g, place) == requests[g].at = place
GoesOn(g, place) == requests' = [requests EXCEPT ![g].at = place]

\* Another production, the owner or the clock.
ChangeSlot ==
  /\ \E p \in Providers, s \in SlotStates : slots' = [slots EXCEPT ![p] = s]
  /\ UNCHANGED <<requests, outcomes, commands>>

\* createVoiceProfile, createVisualGenerationRequest, createMotionRequest: the runner
\* asks for images of the first of the chain only.
AskFor(g) ==
  /\ Stands(g, "idle")
  /\ \E kind \in MediaKinds, holder, asker \in GenerationDirectors, runner \in BOOLEAN :
       \E i \in DOMAIN Chain[kind] :
         /\ (kind = "voice" \/ (runner /\ kind = "image")) => asker = holder
         /\ (runner /\ kind = "image") => i = 1
         /\ requests' = [requests EXCEPT
              ![g] = Asking("asked", kind, holder, asker, Chain[kind][i], runner)]
  /\ UNCHANGED <<slots, outcomes, commands>>

ChangeRecord(g) ==
  /\ Stands(g, "asked") /\ requests[g].intact
  /\ requests' = [requests EXCEPT ![g].intact = FALSE]
  /\ UNCHANGED <<slots, outcomes, commands>>

\* A mutant of Sound: whose request it is is not asked.
SoundRecord(r) == r.intact
\* The integrity and scope gates of the executors.  A motion request has no gate of its
\* own: the stage makes it from the image.
Sound(r) == (r.intact \/ r.kind = "motion") /\ r.asker = r.holder

RefuseRecord(g) ==
  /\ Stands(g, "asked") /\ ~Sound(requests[g]) /\ GoesOn(g, "refused")
  /\ UNCHANGED <<slots, outcomes, commands>>

\* requireSlot: without a declared slot of the wanted provider the runner does not begin.
Declared(r) ==
  r.runner /\ r.kind # "motion" => slots[r.wanted] # "undeclared"
RunnerWaits(g) ==
  /\ Stands(g, "asked") /\ ~Declared(requests[g]) /\ GoesOn(g, "waiting")
  /\ UNCHANGED <<slots, outcomes, commands>>

Serving(kind) == {i \in DOMAIN Chain[kind] : Serves(Chain[kind][i])}
NoneServes(g) ==
  /\ Stands(g, "asked") /\ Sound(requests[g]) /\ Declared(requests[g])
  /\ Serving(requests[g].kind) = {} /\ GoesOn(g, "waiting")
  /\ UNCHANGED <<slots, outcomes, commands>>

\* selectTtsProvider, selectVisualProvider: the first of the chain that serves, which
\* need not be the one wanted.  Its command is started.
FirstServing(kind) ==
  Chain[kind][CHOOSE i \in Serving(kind) : \A j \in Serving(kind) : i <= j]
StartProvider(g) ==
  /\ Stands(g, "asked") /\ Sound(requests[g]) /\ Declared(requests[g])
  /\ Serving(requests[g].kind) # {}
  /\ requests' = [requests EXCEPT ![g].at = "called",
                                  ![g].ran = FirstServing(requests[g].kind)]
  /\ commands' = [commands EXCEPT ![g] = @ + 1]
  /\ UNCHANGED <<slots, outcomes>>

\* A start that fails, a time-out, an exit code: no other provider is tried.
ProviderFails(g) ==
  /\ Stands(g, "called") /\ GoesOn(g, "failed") /\ UNCHANGED <<slots, outcomes, commands>>
ProviderEnds(g) ==
  /\ Stands(g, "called") /\ GoesOn(g, "made") /\ UNCHANGED <<slots, outcomes, commands>>

\* A descriptor names the provider that ran and its container.
Outcome(g, verified) ==
  [of |-> g, director |-> requests[g].holder, provider |-> requests[g].ran,
   container |-> ContainerOf[requests[g].ran], verified |-> verified,
   mode |-> IF verified THEN "generated" ELSE "not_evidenced"]

\* A mutant of SameProvider: the outcome is that of whichever provider ran.
AnyProvider(r) == TRUE
\* TTS_PROVIDER_MISMATCH, VISUAL_PROVIDER_MISMATCH
SameProvider(r) == r.ran = r.wanted

\* The file is read, hashed and probed, and the outcome recorded; a mismatch throws out of
\* the executor.
InspectedMedia(g) ==
  /\ Stands(g, "made")
  /\ IF SameProvider(requests[g])
     THEN GoesOn(g, "done") /\ outcomes' = outcomes \cup {Outcome(g, TRUE)}
     ELSE GoesOn(g, "thrown") /\ UNCHANGED outcomes
  /\ UNCHANGED <<slots, commands>>

\* A mutant of Unverified: an exit code of zero is proof enough.
VerifiedAnyway(g) == Outcome(g, TRUE)
Unverified(g) == Outcome(g, FALSE)
\* Here a mismatch is caught, and there is no outcome.
InspectionFails(g) ==
  /\ Stands(g, "made") /\ GoesOn(g, "failed")
  /\ outcomes' = IF SameProvider(requests[g]) THEN outcomes \cup {Unverified(g)} ELSE outcomes
  /\ UNCHANGED <<slots, commands>>

GenerationNext ==
  \/ ChangeSlot
  \/ \E g \in GenerationRequests :
       \/ AskFor(g) \/ ChangeRecord(g) \/ RefuseRecord(g) \/ RunnerWaits(g) \/ NoneServes(g)
       \/ StartProvider(g) \/ ProviderFails(g) \/ ProviderEnds(g) \/ InspectedMedia(g)
       \/ InspectionFails(g)

GenerationSpec == GenerationInit /\ [][GenerationNext]_generationVars

-----------------------------------------------------------------------------
(* Properties                                                              *)

GenerationPlaces ==
  {"idle", "asked", "refused", "waiting", "called", "made", "done", "failed", "thrown"}

GenerationTypeOK ==
  /\ slots \in [Providers -> SlotStates]
  /\ \A g \in GenerationRequests :
       /\ requests[g].at \in GenerationPlaces /\ requests[g].kind \in MediaKinds
       /\ requests[g].ran \in DOMAIN ContainerOf \cup {"none"}
       /\ commands[g] \in 0..1
  /\ \A o \in outcomes : o.of \in GenerationRequests

\* However the slots change while a request is on its way: media counts as generated only
\* where its file was inspected, it is then the Director's own, who asked for it, and it
\* was made by the very provider the profile or the request names, in that provider's
\* container, so that a voice stays the voice it was; a request that waits, or that was
\* refused, has started no command and can be made again without a second one; and one
\* that a fallback of the chain has served after its command ran ends without media.
GeneratedAsClaimed ==
  /\ \A o \in outcomes :
       LET r == requests[o.of] IN
       /\ o.verified = (o.mode = "generated") /\ o.verified = (r.at = "done")
       /\ o.director = r.holder /\ r.asker = r.holder
       /\ o.provider = r.wanted /\ o.container = ContainerOf[r.wanted]
  /\ \A g \in GenerationRequests :
       /\ (requests[g].at \in {"refused", "waiting", "asked"}) => commands[g] = 0
       /\ requests[g].at = "done" => \E o \in outcomes : o.of = g
       /\ requests[g].ran \notin {"none", requests[g].wanted} =>
            requests[g].at \in {"called", "made", "failed", "thrown"}
=============================================================================
