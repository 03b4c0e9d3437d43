----------------------------- MODULE EpisodePackage -----------------------------
(***************************************************************************)
(* The end of a pass over a release: the three reels, the thumbnail, the   *)
(* documents, the quality gate and the review of                           *)
(* pipeline/episodePipeline.js, with pipeline/packagingQc.js, the runner's *)
(* reel plans and the package contracts of production/.                    *)
(*                                                                         *)
(* Two passes may run side by side, as two claims of one job can.  Every   *)
(* pass renders anew: what comes out is what an earlier take was, or not,  *)
(* or, where it is made from the same material, what another piece of this *)
(* pass is.  A document is what its hash is taken over: its kind and the   *)
(* hashes it binds.                                                        *)
(***************************************************************************)
EXTENDS Naturals, Sequences, FiniteSets, SequencesExt

CONSTANTS
  EpisodePasses, \* bound: passes over the release
  Takes          \* bound: how many ways the same commands come out, in order of appearance

VARIABLES
  releaseAt, \* status of the release
  artifactRows,      \* artifacts of the release: [sha, stage, verified]
  memory,    \* [pass -> what it holds], gone with its process
  composed   \* the package and manifest a caller of the library has built

episodeVars == <<releaseAt, artifactRows, memory, composed>>

\* CANONICAL_REELS, with the beats of the still each one shows.
CanonicalReels ==
  <<[key |-> "content_reel_1", beats |-> <<12>>], [key |-> "content_reel_2", beats |-> <<5, 7>>],
    [key |-> "brand_reel", beats |-> <<10>>]>>

Content(of, take) == [of |-> of, take |-> take]
ComesOut(p, of) == Content(of, memory[p].take)
None == Content("none", 0)

Sha(kind, binds) == [kind |-> kind, binds |-> binds]
Media(content) == Sha("media", <<content>>)

\* recordArtifact: stored once for a release, whatever the stage that comes second.
Recorded(sha, stage, verified) ==
  IF \E r \in artifactRows : r.sha = sha THEN artifactRows
  ELSE artifactRows \cup {[sha |-> sha, stage |-> stage, verified |-> verified]}

\* One pass: where it is, its take, its reels in order, its thumbnail, how many of its
\* documents are recorded, and the verdict of the gate.
Memory(at, take, reels, thumbnail, documents, verdict) ==
  [at |-> at, take |-> take, reels |-> reels, thumbnail |-> thumbnail,
   documents |-> documents, verdict |-> verdict]
Blank(at) == Memory(at, 0, <<>>, None, 0, "none")

EpisodeInit ==
  /\ releaseAt = "planned" /\ artifactRows = {} /\ composed = {}
  /\ memory = [p \in EpisodePasses |-> Blank("idle")]

PassIs(p, place) == memory[p].at = place
Keep(p, m) == memory' = [memory EXCEPT ![p] = m]
\* The return of a wait or a failure, and the catch of the reels and the packaging.
GiveUp(p) == releaseAt' = "planned" /\ Keep(p, Blank("over"))

Stages == {"assembly", "audio", "visual"}

\* The three are made and recorded, see MediaStages.
RecordStages(p) ==
  /\ PassIs(p, "idle") /\ composed = {} /\ \A q \in 1..(p - 1) : ~PassIs(q, "idle")
  /\ releaseAt' = "in_production"
  /\ \E take \in {t \in Takes : t <= p} :
       /\ Keep(p, Memory("reels", take, <<>>, None, 0, "none"))
       /\ artifactRows' = UNION {Recorded(Media(Content(of, take)), of, TRUE) : of \in Stages}
  /\ UNCHANGED composed

\* assertReelIndependence, of the segments: the hooks and objectives are constants.
Independent(a, b) == a.beats # b.beats

\* evaluateExecutorArtifact: no media, and the release waits or fails; or the runner
\* throws, or its answer has no code and no media, another Director's media, or a
\* verification no inspection of the same content backs.
ReelRefused(p) ==
  /\ PassIs(p, "reels") /\ GiveUp(p)
  /\ UNCHANGED <<artifactRows, composed>>

NextReel(p) == CanonicalReels[Len(memory[p].reels) + 1]

\* A verified reel is recorded; the next plan, or the packaging, follows.
ReelRecorded(p) ==
  /\ PassIs(p, "reels") /\ Independent(CanonicalReels[1], CanonicalReels[2])
  /\ \E clip \in {ComesOut(p, NextReel(p).key)} \cup ToSet(memory[p].reels) :
       LET reels == Append(memory[p].reels, clip) IN
       /\ artifactRows' = Recorded(Media(clip), "reels", TRUE)
       /\ Keep(p, Memory(IF Len(reels) = Len(CanonicalReels) THEN "packaging" ELSE "reels",
                         memory[p].take, reels, None, 0, "none"))
  /\ UNCHANGED <<releaseAt, composed>>

-----------------------------------------------------------------------------
(* The package contracts: reelPlan.js and mediaPackageManifest.js          *)

Modes == {"STANDALONE_ONLY", "INTEGRATED", "OWNER_DECISION_REQUIRED"}

\* An order to createReelPackagePlan: the mode, the authorization, which is bound to
\* a run or missing, the integrated segment, and what the brand reel is made of.
PackageOrder(mode, authorization, segment, brand) ==
  [mode |-> mode, authorization |-> authorization, segment |-> segment, brand |-> brand]

\* A mutant of Authorized: whose run it is bound to is not asked.
AuthorizedAtAll(order) == order.authorization # "none"
\* requireOwnerAuthorization
Authorized(order) == order.authorization = "this_run"

\* An undecided package ignores a segment; a standalone one ignores the authorization.
Accepted(order) ==
  CASE order.mode = "INTEGRATED" ->
         Authorized(order) /\ order.segment # None /\ order.segment \notin order.brand
    [] order.mode = "STANDALONE_ONLY" -> order.segment = None
    [] OTHER -> order.authorization = "none"

Integration(order) == IF order.mode = "INTEGRATED" THEN order.segment ELSE None

\* What is bound: [content, source, verified], where the source says who produced it in
\* the manifest's run, its Director, a producer nobody knows or another Director, or that
\* it is of another run.
Origins == {"director", "unknown", "other_director", "other_run"}
Bound(content, source, verified) ==
  [content |-> content, source |-> source, verified |-> verified]
Own(content) == Bound(content, "director", TRUE)
\* assertArtifactScopedToDirectorAndRun: third parties may produce.
InScope(bound) == bound.source \notin {"other_director", "other_run"}

\* A mutant of DistinctBound: the reels are compared with their neighbours only.
DistinctNeighbours(main, reels, segment) ==
  /\ reels[1].content # reels[2].content /\ reels[2].content # reels[3].content
  /\ segment # None => segment \notin {main.content} \cup {reels[i].content : i \in 1..3}
\* MANIFEST_CONTENT_REEL_DUPLICATE, _BRAND_REEL_DUPLICATE, _INTEGRATION_ARTIFACT_DUPLICATE
DistinctBound(main, reels, segment) ==
  /\ \A i, j \in 1..3 : i # j => reels[i].content # reels[j].content
  /\ segment # None => segment \notin {main.content} \cup {reels[i].content : i \in 1..3}

\* createMediaPackageManifest: the segment bound is the one the package names.
Binds(order, main, reels, others, segment) ==
  /\ segment.content = Integration(order)
  /\ \A b \in {main, reels[1], reels[2], reels[3]} \cup others : InScope(b)
  /\ segment.content # None => InScope(segment)
  /\ DistinctBound(main, reels, segment.content)

\* A mutant of Ready: the thumbnails, subtitles and metadata are passed over.
ReadyOfVideos(main, reels, others, segment) ==
  /\ main.verified /\ \A i \in 1..3 : reels[i].verified
  /\ segment.content # None => segment.verified
\* isMediaPackageProductionReady, of a manifest that is intact
Ready(main, reels, others, segment) ==
  /\ \A b \in {main, reels[1], reels[2], reels[3]} \cup others : b.verified
  /\ segment.content # None => segment.verified

\* What the library is offered for the segment and the brand reel, and what the reels
\* are made of.
Offered ==
  {Content(of, 1) : of \in {"assembly", "content_reel_2", "brand_reel", "segment", "visual"}}
Still == {Content("visual", 1), Content("audio", 1)}

\* A caller of the library, beside the passes: one order, one manifest.
Compose ==
  /\ composed = {} /\ \A p \in EpisodePasses : PassIs(p, "idle")
  /\ \E mode \in Modes, authorization \in {"none", "this_run", "other_run"},
        wanted, given \in Offered \cup {None}, brand \in Offered, source \in Origins,
        verified \in BOOLEAN :
       LET order == PackageOrder(mode, authorization, wanted, Still)
           reels == <<Own(Content("content_reel_1", 1)), Own(Content("content_reel_2", 1)),
                      Own(brand)>>
           thumbnail == Bound(Content("thumbnail", 1), "unknown", verified)
           segment == Bound(given, source, TRUE)
           video == Own(Content("assembly", 1))
       IN /\ Accepted(order) /\ Binds(order, video, reels, {thumbnail}, segment)
          /\ composed' = {[order |-> order, segment |-> segment, brand |-> brand,
                           thumbnail |-> thumbnail,
                           ready |-> Ready(video, reels, {thumbnail}, segment)]}
  /\ UNCHANGED <<releaseAt, artifactRows, memory>>
-----------------------------------------------------------------------------

\* The package the runner plans for every release.
Standalone(p) ==
  PackageOrder("STANDALONE_ONLY", "none", None, {ComesOut(p, "visual"), ComesOut(p, "audio")})
NoSegment == Bound(None, "unknown", FALSE)
Video(p) == Own(ComesOut(p, "assembly"))
ReelsOf(p) == [i \in 1..3 |-> Own(memory[p].reels[i])]

\* The documents of derivePackagingInputs and of the two manifests, in the order they
\* are recorded: buildEpisodePackageManifest, buildCanonicalMediaPackageManifest.
DocumentsOf(p, image) ==
  LET stages == <<ComesOut(p, "assembly"), ComesOut(p, "audio"), ComesOut(p, "visual")>>
  IN <<Sha("subtitle", stages), Sha("metadata", stages), Sha("manifest", stages \o <<image>>),
       Sha("canonical_manifest", <<ComesOut(p, "assembly")>> \o memory[p].reels \o <<image>>)>>

\* The thumbnail waits or fails; or its runner or the bridge throws, or a manifest
\* refuses what it is to bind.
PackagingRefused(p) ==
  /\ PassIs(p, "packaging") /\ GiveUp(p)
  /\ UNCHANGED <<artifactRows, composed>>

\* runPackagingStage, and the row of the thumbnail.
Package(p) ==
  /\ PassIs(p, "packaging")
  /\ \E image \in {ComesOut(p, "thumbnail"), ComesOut(p, "visual")} :
       /\ Binds(Standalone(p), Video(p), ReelsOf(p), {Own(image)}, NoSegment)
       /\ artifactRows' = Recorded(Media(image), "thumbnail", TRUE)
       /\ Keep(p, Memory("documents", memory[p].take, memory[p].reels, image, 0, "none"))
  /\ UNCHANGED <<releaseAt, composed>>

\* Documents have no inspection.
RecordDocument(p) ==
  /\ PassIs(p, "documents")
  /\ LET next == memory[p].documents + 1
         document == DocumentsOf(p, memory[p].thumbnail)[next]
     IN /\ artifactRows' = Recorded(document, document.kind, FALSE)
        /\ Keep(p, [memory[p] EXCEPT !.documents = next,
                                     !.at = IF next = 4 THEN "qc" ELSE "documents"])
  /\ UNCHANGED <<releaseAt, composed>>

\* The policy checks of the runner; where it throws there are none.
Checks == {"passed", "failed", "requires_human"}

\* A mutant of VerdictOf: a check that wants a human is one that has not failed.
VerdictUnlessFailed(p, check) == IF check = "failed" THEN "rejected" ELSE "approved"
\* evaluateEpisodeQcGate: what it recomputes it is handed by the pass itself, and the
\* canonical manifest must be ready.
VerdictOf(p, check) ==
  IF ~Ready(Video(p), ReelsOf(p), {Own(memory[p].thumbnail)}, NoSegment) THEN "rejected"
  ELSE CASE check = "failed" -> "rejected"
         [] check = "requires_human" -> "needs_human"
         [] OTHER -> "approved"

\* A mutant of AfterVerdict: a verdict is recorded and no more.
AfterAnyVerdict(verdict) == "story"
\* A release that needs a human goes the way of an approved one.
AfterVerdict(verdict) == IF verdict = "rejected" THEN "over" ELSE "story"

\* The verdict names its checks, and carries the time, so every pass records its own.
VerdictSha(p, verdict, check) == Sha("qc", <<Content(verdict, p), Content(check, p)>>)
Gate(p) ==
  /\ PassIs(p, "qc")
  /\ \E check \in Checks :
       LET verdict == VerdictOf(p, check) IN
       /\ artifactRows' = Recorded(VerdictSha(p, verdict, check), "qc", FALSE)
       /\ IF AfterVerdict(verdict) = "over" THEN GiveUp(p)
          ELSE /\ Keep(p, [memory[p] EXCEPT !.at = "story", !.verdict = verdict])
               /\ UNCHANGED releaseAt
  /\ UNCHANGED composed

\* The story document, of the release alone; then the release comes to review.
RecordStory(p) ==
  /\ PassIs(p, "story")
  /\ artifactRows' = Recorded(Sha("story", <<>>), "story", FALSE)
  /\ Keep(p, [memory[p] EXCEPT !.at = "told"])
  /\ UNCHANGED <<releaseAt, composed>>

Review(p) ==
  /\ PassIs(p, "told") /\ releaseAt' = "review"
  /\ Keep(p, [memory[p] EXCEPT !.at = "reviewed"])
  /\ UNCHANGED <<artifactRows, composed>>

\* The process goes, a write fails, or the gate throws at a check without a name: no
\* catch, and the release stays as it is.
EpisodePassDies(p) ==
  /\ memory[p].at \notin {"idle", "over", "reviewed"} /\ Keep(p, Blank("over"))
  /\ UNCHANGED <<releaseAt, artifactRows, composed>>

EpisodeNext ==
  \/ Compose
  \/ \E p \in EpisodePasses :
       \/ RecordStages(p) \/ ReelRefused(p) \/ ReelRecorded(p) \/ PackagingRefused(p)
       \/ Package(p) \/ RecordDocument(p) \/ Gate(p) \/ RecordStory(p) \/ Review(p)
       \/ EpisodePassDies(p)

EpisodeSpec == EpisodeInit /\ [][EpisodeNext]_episodeVars

-----------------------------------------------------------------------------
(* Properties                                                              *)

EpisodePlaces ==
  {"idle", "reels", "packaging", "documents", "qc", "story", "told", "reviewed", "over"}

EpisodeTypeOK ==
  /\ releaseAt \in {"planned", "in_production", "review"}
  /\ \A p \in EpisodePasses :
       /\ memory[p].at \in EpisodePlaces
       /\ Len(memory[p].reels) <= 3 /\ memory[p].documents \in 0..4
       /\ memory[p].verdict \in {"none", "approved", "needs_human"}
  /\ \A r \in artifactRows : r.verified = (r.sha.kind = "media")

\* A pass that has brought the release to review leaves a package that can be traced
\* whole: its own rows of both manifests, its verdict, which is not a rejection, and is an
\* approval only where no check asked for a human, and for everything the manifests
\* bind a row of that content recorded as verified; the three reels are three
\* contents.  A release in review has such a pass, whatever passes beside it gave up,
\* and whatever rows of other passes its own were folded into.
ReviewedAsPackaged ==
  /\ releaseAt = "review" => \E p \in EpisodePasses : PassIs(p, "reviewed")
  /\ \A p \in EpisodePasses : PassIs(p, "reviewed") =>
       LET m == memory[p]
           has(sha) == \E r \in artifactRows : r.sha = sha
           verified(content) == \E r \in artifactRows : r.sha = Media(content) /\ r.verified
       IN /\ \A i \in 1..4 : has(DocumentsOf(p, m.thumbnail)[i])
          /\ has(Sha("story", <<>>))
          /\ \E check \in Checks \ {"failed"} :
               /\ has(VerdictSha(p, m.verdict, check))
               /\ (check = "requires_human") = (m.verdict = "needs_human")
          /\ \A c \in {ComesOut(p, s) : s \in Stages} \cup {m.thumbnail} \cup ToSet(m.reels) :
               verified(c)
          /\ Cardinality(ToSet(m.reels)) = 3

\* A manifest has an integrated brand segment only where the package has the owner's
\* authorization for this very run, it is the segment that was authorized and nothing
\* else of the package or of the brand reel, and it was produced in this run, by no other
\* Director ("the manifest can never invent one"); and it is ready only when all of it is verified.
IntegrationOwned ==
  \A c \in composed :
    /\ c.segment.content # None =>
         /\ c.order.mode = "INTEGRATED" /\ c.order.authorization = "this_run"
         /\ c.segment.content = c.order.segment /\ InScope(c.segment)
         /\ c.segment.content \notin {c.brand} \cup c.order.brand
                                   \cup {Content(of, 1) : of \in {"assembly", "content_reel_2"}}
    /\ c.ready => c.thumbnail.verified
    /\ c.brand # Content("content_reel_2", 1)

PackageSound == ReviewedAsPackaged /\ IntegrationOwned
===============================================================================
