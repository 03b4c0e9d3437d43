----------------------------- MODULE Publishing -----------------------------
(***************************************************************************)
(* Publishing a finished release: the owner's publish route (catalog/      *)
(* server.js over publishing/youtubePublishExecution.js), the private-     *)
(* first test of the operations router (privatePublishingTest.js over      *)
(* publishingService.js), and the platform adapters that both of them, or  *)
(* a deployment directly, send through.                                    *)
(*                                                                         *)
(* A call is a process.  Every request to a platform is one step, because  *)
(* that is where an answer may be lost after the platform has acted; the   *)
(* platform chooses its answers.  Anything else of a call may throw        *)
(* (CallFails) or die with the process (Crash).  One owner and one         *)
(* Director: the keys and tokens of others never meet theirs.              *)
(***************************************************************************)
EXTENDS Naturals, Sequences

CONSTANTS
  Calls,          \* requests to publish, each made once
  Artifacts,      \* rendered contents; a content is named by its SHA-256
  FirstArtifact,  \* the content in review at the start
  Scenarios,      \* what the calls may ask, together
  MaxAttempts,    \* of runWithRetry
  StatusPolls,    \* of prepareIgContainer
  Parts           \* chunks of a split media file

Destinations == {"youtube", "instagram", "facebook", "snapchat", "bilibili"}
Unbound == "unbound"              \* an approval that names no artifact or destination
Approvals == [artifact : Artifacts \cup {Unbound}, destination : Destinations \cup {Unbound},
              current : BOOLEAN]

Requests == [route : {"publish", "private_test", "adapter"}, destination : Destinations,
             artifact : Artifacts, approval : Approvals,
             caption : {"plain", "other", "agent_name"}, tid : BOOLEAN]

ASSUME PublishingAssumption ==
  /\ FirstArtifact \in Artifacts
  /\ MaxAttempts \in Nat \ {0} /\ StatusPolls \in Nat \ {0} /\ Parts \in Nat \ {0}
  /\ Scenarios \subseteq [Calls -> Requests]
  /\ \A s \in Scenarios : \A c \in Calls :
       s[c].route = "private_test" => s[c].destination # "bilibili"

VARIABLES
  asked,         \* [call -> its request]
  pc,            \* [call -> where it is]
  artifact,      \* [call -> the content its approval and its upload are for]
  tries, rounds, \* [call -> attempts at one platform request; parts or polls done]
  posted,        \* [call -> posts the platform has created for it]
  source,        \* [call -> the call whose post its receipt names]
  kept,          \* receipts Maps of the process's adapters: calls that left one
  rows,          \* publishing_requests for YouTube, by created_at: [call, artifact]
  receipts,      \* publishing_receipts: [row, post]
  ledger,        \* platform_publish events: [call, post]
  releaseStatus, media, verified, \* the release, its file, its verified artifacts
  covered        \* history: [call -> kept receipts of its request when its adapter began]

progress == <<tries, rounds>>
store == <<kept, rows, receipts, ledger>>
production == <<releaseStatus, media, verified>>
publishingVars == <<asked, pc, artifact, progress, posted, source, store, production, covered>>

Ended == {"ok", "failed"}
Requesting == {"session", "upload", "container", "bytes", "poll", "publish", "permalink",
               "media", "chunk", "finalize", "spotlight", "preprocess", "part", "merge",
               "submit"}
Places == {"idle", "gated", "looked", "requested", "approved", "received", "stored",
           "evidenced", "marked"} \cup Requesting \cup Ended

PublishingInit ==
  /\ asked \in Scenarios
  /\ pc = [c \in Calls |-> "idle"]
  /\ artifact = [c \in Calls |-> asked[c].artifact]
  /\ tries = [c \in Calls |-> 1] /\ rounds = [c \in Calls |-> 1]
  /\ posted = [c \in Calls |-> 0]
  /\ source = [c \in Calls |-> c]
  /\ kept = {} /\ rows = <<>> /\ receipts = {} /\ ledger = {}
  /\ releaseStatus = "review" /\ media = FirstArtifact /\ verified = <<FirstArtifact>>
  /\ covered = [c \in Calls |-> {}]

Route(c) == asked[c].route
At(c, d, p) == asked[c].destination = d /\ pc[c] = p
Goto(c, p) == pc' = [pc EXCEPT ![c] = p]

-----------------------------------------------------------------------------
(* The publish route up to the adapter.                                    *)

\* updateReleaseStatus names the statuses; a run is "producing" in between.
RowsOf(a) == {i \in DOMAIN rows : rows[i].artifact = a}
ReceiptOf(i) == {r \in receipts : r.row = i}

\* selectMainUploadArtifact: the newest of the verified assembly videos.
MainArtifact == verified[Len(verified)]

\* evaluatePublishGate, then for YouTube the artifact that will be uploaded.
PublishGate(c) ==
  /\ pc[c] = "idle" /\ Route(c) = "publish"
  /\ releaseStatus = "review"
  /\ Goto(c, "gated")
  /\ artifact' = [artifact EXCEPT ![c] = MainArtifact]
  /\ UNCHANGED <<asked, progress, posted, source, store, production, covered>>

\* A mutant of LatestRow: the release's latest request, whatever it was for.
LatestOfRelease(a) == {i \in DOMAIN rows : a \in Artifacts /\ i = Len(rows)}
\* findLatestRequestByArtifact.
LatestRow(a) == {i \in RowsOf(a) : \A k \in RowsOf(a) : k <= i}

\* findReceiptByRequestId for it: a stored receipt is replayed.
LookUp(c) ==
  LET found == UNION {ReceiptOf(i) : i \in LatestRow(artifact[c])} IN
  /\ At(c, "youtube", "gated")
  /\ \/ found = {} /\ Goto(c, "looked") /\ UNCHANGED source
     \/ \E r \in found : source' = [source EXCEPT ![c] = r.post] /\ Goto(c, "evidenced")
  /\ UNCHANGED <<asked, artifact, progress, posted, store, production, covered>>

CreateRequest(c) ==
  /\ pc[c] = "looked"
  /\ rows' = Append(rows, [call |-> c, artifact |-> artifact[c]])
  /\ Goto(c, "requested")
  /\ UNCHANGED <<asked, artifact, progress, posted, source, kept, receipts, ledger, production,
                 covered>>

ApproveRequest(c) ==
  /\ pc[c] = "requested" /\ Goto(c, "approved")
  /\ UNCHANGED <<asked, artifact, progress, posted, source, store, production, covered>>

\* runPrivatePublishingTest: request and approve of an in-memory service,
\* unless the caption names an agent.  Direct calls bring their approval.
RequestAndApprove(c) ==
  /\ pc[c] = "idle"
  /\ \/ Route(c) = "private_test" /\ asked[c].caption # "agent_name"
     \/ Route(c) = "adapter"
  /\ Goto(c, "approved")
  /\ UNCHANGED <<asked, artifact, progress, posted, source, store, production, covered>>

-----------------------------------------------------------------------------
(* The adapters' publish: validation, artifact binding, replay.            *)

\* The approval the adapter is shown.
ShownApproval(c) ==
  CASE Route(c) = "publish" ->
         [artifact |-> artifact[c], destination |-> "youtube", current |-> TRUE]
    [] Route(c) = "private_test" ->
         [artifact |-> Unbound, destination |-> Unbound, current |-> TRUE]
    [] OTHER -> asked[c].approval

\* Rule 7 and Rule 15, the same in every adapter.
Approved(c, d) ==
  /\ asked[c].destination = d /\ asked[c].caption # "agent_name"
  /\ ShownApproval(c).current
  /\ ShownApproval(c).artifact \in {artifact[c], Unbound}
  /\ ShownApproval(c).destination \in {d, Unbound}

YouTubeValid(c) == Approved(c, "youtube")
MetaValid(c) == Approved(c, "instagram") \/ Approved(c, "facebook")
SnapchatValid(c) == Approved(c, "snapchat")
BilibiliValid(c) == Approved(c, "bilibili") /\ asked[c].tid
ValidPublishRequest(c) ==
  YouTubeValid(c) \/ MetaValid(c) \/ SnapchatValid(c) \/ BilibiliValid(c)

\* idempotencyKeyFor; a caption stands for the texts in the key.
YouTubeKey(c) == <<"youtube", artifact[c], asked[c].caption>>
MetaKey(c) == <<asked[c].destination, artifact[c], asked[c].caption>>
SnapchatKey(c) == <<"snapchat", artifact[c], asked[c].caption>>
BilibiliKey(c) == <<"bilibili", artifact[c], asked[c].caption>>
Key(c) ==
  CASE asked[c].destination = "youtube" -> YouTubeKey(c)
    [] asked[c].destination = "snapchat" -> SnapchatKey(c)
    [] asked[c].destination = "bilibili" -> BilibiliKey(c)
    [] OTHER -> MetaKey(c)

FirstRequest(d) ==
  CASE d = "instagram" -> "container" [] d = "snapchat" -> "media"
    [] d = "bilibili" -> "preprocess" [] OTHER -> "session"

NothingKept(c) == {k \in kept : k = c}                   \* a mutant of Kept
\* The publish route makes a new adapter for every call: nothing is kept.
Kept(c) == {k \in kept : Route(c) # "publish" /\ Key(k) = Key(c)}

\* The hash of the file is compared before anything is sent.
StartAdapter(c) ==
  /\ pc[c] = "approved"
  /\ ValidPublishRequest(c)
  /\ media = artifact[c]
  /\ \/ Kept(c) = {} /\ Goto(c, FirstRequest(asked[c].destination)) /\ UNCHANGED source
     \/ \E k \in Kept(c) : source' = [source EXCEPT ![c] = k] /\ Goto(c, "received")
  /\ covered' = [covered EXCEPT ![c] =
                   {k \in kept : Route(c) # "publish" /\ Key(k) = Key(c)}]
  /\ UNCHANGED <<asked, artifact, progress, posted, store, production>>

-----------------------------------------------------------------------------
(* Requests to a platform: runWithRetry and statusError.                   *)

Nothing == UNCHANGED posted
CreatesPost(c) == posted' = [posted EXCEPT ![c] = @ + 1]
\* A resumable session is one video, however often its bytes are put.
CompletesSession(c) == posted' = [posted EXCEPT ![c] = 1]

Proceed(c, p) ==
  /\ Goto(c, p)
  /\ tries' = [tries EXCEPT ![c] = 1]
  /\ rounds' = [rounds EXCEPT ![c] = IF p = pc[c] THEN @ + 1 ELSE 1]
  /\ kept' = IF p = "received" /\ Route(c) # "publish" THEN kept \cup {c} ELSE kept

Throw(c) == Goto(c, "failed") /\ UNCHANGED <<progress, kept>>

\* Mutants of MayRetry: every request, the posting ones too; one time too many.
RetryAll(c, retried) == retried \in BOOLEAN /\ tries[c] < MaxAttempts
RetryOneMore(c, retried) == retried /\ tries[c] <= MaxAttempts
MayRetry(c, retried) == retried /\ tries[c] < MaxAttempts

\* A mutant of Again: the attempts start over.
AgainForever(c, retried) ==
  IF retried
  THEN /\ tries' = [tries EXCEPT ![c] = IF @ < MaxAttempts THEN @ + 1 ELSE 1]
       /\ UNCHANGED <<pc, rounds, kept>>
  ELSE Throw(c)

\* 429, 5xx and network failures are tried again if the step retries at all.
Again(c, retried) ==
  IF MayRetry(c, retried)
  THEN /\ tries' = [tries EXCEPT ![c] = @ + 1]
       /\ UNCHANGED <<pc, rounds, kept>>
  ELSE Throw(c)

\* An answer to act on; none, or a retryable one, whether the platform acted or
\* not; a refusal; or an answer to an act that is of no use.
Exchange(c, effect, retried, p) ==
  /\ \/ effect /\ Proceed(c, p)
     \/ (effect \/ Nothing) /\ Again(c, retried)
     \/ (effect \/ Nothing) /\ Throw(c)
  /\ UNCHANGED <<asked, artifact, source, rows, receipts, ledger, production, covered>>

NextRound(c, bound, again, p) == IF rounds[c] < bound THEN again ELSE p

YouTubeSession(c) == At(c, "youtube", "session") /\ Exchange(c, Nothing, TRUE, "upload")
YouTubeUpload(c) ==
  At(c, "youtube", "upload") /\ Exchange(c, CompletesSession(c), TRUE, "received")

InstagramContainer(c) == At(c, "instagram", "container") /\ Exchange(c, Nothing, TRUE, "bytes")
InstagramBytes(c) == At(c, "instagram", "bytes") /\ Exchange(c, Nothing, TRUE, "poll")
\* IN_PROGRESS until the polls are used up; FINISHED at any poll.
InstagramPoll(c) ==
  /\ At(c, "instagram", "poll")
  /\ \/ rounds[c] < StatusPolls /\ Exchange(c, Nothing, FALSE, "poll")
     \/ Exchange(c, Nothing, FALSE, "publish")
FacebookSession(c) == At(c, "facebook", "session") /\ Exchange(c, Nothing, TRUE, "bytes")
FacebookBytes(c) == At(c, "facebook", "bytes") /\ Exchange(c, Nothing, TRUE, "publish")
\* media_publish and videos: single attempts.
MetaPublish(c) ==
  /\ At(c, "instagram", "publish") \/ At(c, "facebook", "publish")
  /\ Exchange(c, CreatesPost(c), FALSE, "permalink")
InstagramPermalink(c) ==
  At(c, "instagram", "permalink") /\ Exchange(c, Nothing, FALSE, "received")
FacebookPermalink(c) ==
  At(c, "facebook", "permalink") /\ Exchange(c, Nothing, FALSE, "received")

SnapchatMedia(c) == At(c, "snapchat", "media") /\ Exchange(c, Nothing, TRUE, "chunk")
SnapchatChunk(c) ==
  /\ At(c, "snapchat", "chunk")
  /\ Exchange(c, Nothing, TRUE, NextRound(c, Parts, "chunk", "finalize"))
SnapchatFinalize(c) == At(c, "snapchat", "finalize") /\ Exchange(c, Nothing, TRUE, "spotlight")
SnapchatPost(c) ==
  At(c, "snapchat", "spotlight") /\ Exchange(c, CreatesPost(c), FALSE, "received")

BilibiliPreprocess(c) == At(c, "bilibili", "preprocess") /\ Exchange(c, Nothing, TRUE, "part")
BilibiliPart(c) ==
  /\ At(c, "bilibili", "part")
  /\ Exchange(c, Nothing, TRUE, NextRound(c, Parts, "part", "merge"))
BilibiliMerge(c) == At(c, "bilibili", "merge") /\ Exchange(c, Nothing, TRUE, "submit")
BilibiliSubmit(c) ==
  At(c, "bilibili", "submit") /\ Exchange(c, CreatesPost(c), FALSE, "received")

PlatformRequest(c) ==
  \/ YouTubeSession(c) \/ YouTubeUpload(c)
  \/ InstagramContainer(c) \/ InstagramBytes(c) \/ InstagramPoll(c)
  \/ FacebookSession(c) \/ FacebookBytes(c)
  \/ MetaPublish(c) \/ InstagramPermalink(c) \/ FacebookPermalink(c)
  \/ SnapchatMedia(c) \/ SnapchatChunk(c) \/ SnapchatFinalize(c) \/ SnapchatPost(c)
  \/ BilibiliPreprocess(c) \/ BilibiliPart(c) \/ BilibiliMerge(c) \/ BilibiliSubmit(c)

-----------------------------------------------------------------------------
(* What is recorded, and the answer.                                       *)

CreateReceipt(c) ==
  /\ pc[c] = "received" /\ Route(c) = "publish"
  /\ \E i \in DOMAIN rows :
       /\ rows[i].call = c
       /\ receipts' = receipts \cup {[row |-> i, post |-> source[c]]}
  /\ Goto(c, "stored")
  /\ UNCHANGED <<asked, artifact, progress, posted, source, kept, rows, ledger, production,
                 covered>>

Evidenced(c) == ledger' = ledger \cup {[call |-> c, post |-> source[c]]}

AppendEvidence(c) ==
  /\ pc[c] = "stored"
  /\ Evidenced(c) /\ Goto(c, "evidenced")
  /\ UNCHANGED <<asked, artifact, progress, posted, source, kept, rows, receipts, production,
                 covered>>

\* Platforms other than YouTube are only marked: the intent is all there is.
MarkedAtOnce(c) == pc[c] \in {"gated", "looked", "evidenced"} \* a mutant of Markable
Markable(c) ==
  pc[c] = "evidenced" \/ (pc[c] = "gated" /\ asked[c].destination # "youtube")

\* updateReleaseStatus, whatever has become of the release since the gate.
MarkPublished(c) ==
  /\ Markable(c)
  /\ releaseStatus' = "published"
  /\ Goto(c, "marked")
  /\ UNCHANGED <<asked, artifact, progress, posted, source, store, media, verified, covered>>

\* The pipeline event and the audit row, then the answer.
AnswerOwner(c) ==
  /\ pc[c] = "marked" /\ Goto(c, "ok")
  /\ UNCHANGED <<asked, artifact, progress, posted, source, store, production, covered>>

\* dispatch and the test's own check; the evidence append is not awaited.
AnswerTest(c) ==
  /\ pc[c] = "received" /\ Route(c) # "publish"
  /\ Goto(c, "ok")
  /\ IF Route(c) = "private_test" THEN Evidenced(c) \/ UNCHANGED ledger ELSE UNCHANGED ledger
  /\ UNCHANGED <<asked, artifact, progress, posted, source, kept, rows, receipts, production,
                 covered>>

-----------------------------------------------------------------------------
Active(c) == pc[c] \notin Ended \cup {"idle"}

\* A store that is down, a token that cannot be resolved, a file that is gone,
\* a request that an adapter refuses.
CallFails(c) ==
  /\ Active(c) /\ Goto(c, "failed")
  /\ UNCHANGED <<asked, artifact, progress, posted, source, store, production, covered>>

Crash ==
  /\ kept # {} \/ \E c \in Calls : Active(c)
  /\ kept' = {}
  /\ pc' = [c \in Calls |-> IF Active(c) THEN "failed" ELSE pc[c]]
  /\ UNCHANGED <<asked, artifact, progress, posted, source, rows, receipts, ledger, production,
                 covered>>

Rendered == {verified[i] : i \in DOMAIN verified}

\* Another run of the release: it writes to the same path (the run id is made
\* from the release id) and records its artifact, then its status, afterwards.
RenderAgain ==
  /\ \E a \in Artifacts \ Rendered : media' = a
  /\ releaseStatus' = "producing"
  /\ UNCHANGED <<asked, pc, artifact, progress, posted, source, store, verified, covered>>

RecordArtifact ==
  /\ media \notin Rendered
  /\ verified' = Append(verified, media)
  /\ releaseStatus' = "review"
  /\ UNCHANGED <<asked, pc, artifact, progress, posted, source, store, media, covered>>

CallStep(c) ==
  \/ PublishGate(c) \/ LookUp(c) \/ CreateRequest(c) \/ ApproveRequest(c)
  \/ RequestAndApprove(c) \/ StartAdapter(c) \/ PlatformRequest(c)
  \/ CreateReceipt(c) \/ AppendEvidence(c) \/ MarkPublished(c) \/ AnswerOwner(c)
  \/ AnswerTest(c) \/ CallFails(c)

PublishingNext ==
  \/ \E c \in Calls : CallStep(c)
  \/ Crash \/ RenderAgain \/ RecordArtifact

PublishingSpec == PublishingInit /\ [][PublishingNext]_publishingVars

-----------------------------------------------------------------------------
(* Properties                                                              *)

PublishingTypeOK ==
  /\ asked \in Scenarios
  /\ pc \in [Calls -> Places]
  /\ artifact \in [Calls -> Artifacts]
  /\ tries \in [Calls -> 1..MaxAttempts]
  /\ rounds \in [Calls -> Nat \ {0}]
  /\ posted \in [Calls -> Nat]
  /\ source \in [Calls -> Calls]
  /\ kept \subseteq Calls
  /\ rows \in Seq([call : Calls, artifact : Artifacts])
  /\ receipts \subseteq [row : Nat, post : Calls]
  /\ ledger \subseteq [call : Calls, post : Calls]
  /\ releaseStatus \in {"review", "producing", "published"}
  /\ media \in Artifacts
  /\ verified \in Seq(Artifacts) \ {<<>>}
  /\ covered \in [Calls -> SUBSET Calls]

SamePost(c, d) == asked[d].destination = asked[c].destination /\ artifact[d] = artifact[c]

\* A success, a stored receipt and a platform_publish event name a post that
\* the platform has created, at that destination and of that artifact, however
\* answers were lost and whichever receipt was replayed (Rule 2 of the adapters
\* and of executeYouTubePublish).
ReceiptsAreReal ==
  /\ \A c \in Calls : pc[c] \in {"received", "stored", "evidenced"} =>
       posted[source[c]] = 1 /\ SamePost(c, source[c])
  /\ \A r \in receipts :
       /\ r.row \in DOMAIN rows /\ SamePost(rows[r.row].call, r.post)
       /\ posted[r.post] = 1
  /\ \A e \in ledger : posted[e.post] = 1 /\ SamePost(e.call, e.post)

\* A release that went to YouTube is published only once a receipt is stored:
\* a lost answer, an error after the upload or a crash leaves it as it was
\* (the publish route "flips to published only AFTER a real receipt exists").
PublishedIsBacked ==
  releaseStatus = "published" =>
    \/ receipts # {}
    \/ \E c \in Calls : /\ Route(c) = "publish" /\ asked[c].destination # "youtube"
                        /\ pc[c] \in {"marked"} \cup Ended

\* Nothing is said to be published, in a receipt, an event or the release, that is not.
PublicationBacked == ReceiptsAreReal /\ PublishedIsBacked

\* A call whose adapter, in this process, holds the receipt of an identical
\* request posts nothing (the receipts Map of the adapters).
KeptReceiptReplayed ==
  \A c \in Calls : covered[c] # {} => posted[c] = 0

\* A call succeeds for the caller when it names a post; one that only marks
\* the release answers about none.
NoAnswer == "none"
Failure == "failed"
Answer(c) ==
  IF pc[c] = "failed" THEN Failure
  ELSE IF pc[c] = "ok" /\ (Route(c) # "publish" \/ asked[c].destination = "youtube")
       THEN source[c] ELSE NoAnswer

Promise == INSTANCE PublishContract WITH made <- posted, answer <- [c \in Calls |-> Answer(c)]

\* Whatever is retried, lost or replayed, a call makes at most one post, and
\* its success names its own post if it made one (PublishContract).
PublishContractKept == Promise!ContractSpec

\* Every request to a platform ends: defaultTransport aborts it after timeoutMs.
PublishingFairness == \A c \in Calls : WF_publishingVars(CallStep(c))

\* A call that has begun answers: retries, polls and parts all come to an end.
CallsAnswer == \A c \in Calls : Active(c) ~> pc[c] \in Ended
=============================================================================
