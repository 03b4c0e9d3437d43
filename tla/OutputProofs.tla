---------------------------- MODULE OutputProofs ----------------------------
(***************************************************************************)
(* Proofs about what a release is made of: what a provider is asked for    *)
(* and hands back, the reels, documents and verdict of a pass, the files   *)
(* its stages leave, and what becomes of a publication; for any number of  *)
(* requests, passes, strays and calls.  Last, that no part of a release    *)
(* disturbs what holds of another, its plans and cues (PlansProofs)        *)
(* included.                                                               *)
(***************************************************************************)
EXTENDS MCOutput, PlansProofs

-----------------------------------------------------------------------------
(* Generation by a provider.                                               *)

ProviderNames == {"edge_tts", "espeak_ng", "pollinations", "local_sd", "minterpolate"}
Askers == GenerationDirectors \cup {"none"}
RequestRows ==
  [at : GenerationPlaces, kind : {"voice", "image", "motion"}, holder : Askers, asker : Askers,
   wanted : ProviderNames \cup {"none"}, runner : BOOLEAN, intact : BOOLEAN,
   ran : ProviderNames \cup {"none"}]
OutcomeRows ==
  [of : GenerationRequests, director : Askers, provider : ProviderNames,
   container : {"mpeg", "wav", "jpeg", "png", "mp4"}, verified : BOOLEAN,
   mode : {"generated", "not_evidenced"}]

\* Before its command is started a request has no outcome; then it is sound.
Unstarted == {"idle", "asked", "refused", "waiting"}
RequestCourse(g) ==
  LET r == requests[g] IN
  /\ r.at \in Unstarted => commands[g] = 0 /\ r.ran = "none"
  /\ r.at \notin Unstarted => commands[g] = 1 /\ r.asker = r.holder /\ r.ran \in ProviderNames
  /\ r.at = "done" => r.ran = r.wanted /\ \E o \in outcomes : o.of = g

OutcomeCourse(o) ==
  LET r == requests[o.of] IN
  /\ r.at = IF o.verified THEN "done" ELSE "failed"
  /\ o.verified = (o.mode = "generated")
  /\ o.director = r.holder
  /\ o.provider = r.ran /\ r.ran = r.wanted /\ o.container = ContainerOf[r.ran]

GenerationInv ==
  /\ slots \in [Providers -> SlotStates]
  /\ requests \in [GenerationRequests -> RequestRows]
  /\ commands \in [GenerationRequests -> 0..1]
  /\ outcomes \subseteq OutcomeRows
  /\ \A g \in GenerationRequests : RequestCourse(g)
  /\ \A o \in outcomes : OutcomeCourse(o)

\* The chain of a kind of medium names one provider or two.
LEMMA ChainNames ==
  ASSUME NEW kind \in MediaKinds
  PROVE  /\ kind \in {"voice", "image", "motion"}
         /\ DOMAIN Chain[kind] \subseteq {1, 2}
         /\ \A i \in DOMAIN Chain[kind] : Chain[kind][i] \in ProviderNames
BY DEF MediaKinds, Chain, ProviderNames

\* The first of the chain that serves is one of it.
LEMMA FirstServes ==
  ASSUME NEW kind \in MediaKinds, Serving(kind) # {}
  PROVE  FirstServing(kind) \in ProviderNames
<1>1. Serving(kind) \subseteq {1, 2} /\ Serving(kind) \subseteq DOMAIN Chain[kind]
  BY ChainNames DEF Serving
<1>2. \E i \in Serving(kind) : \A j \in Serving(kind) : i <= j
  <2>1. CASE 1 \in Serving(kind)
    BY <1>1, <2>1
  <2>2. CASE 1 \notin Serving(kind)
    BY <1>1, <2>2
  <2> QED BY <2>1, <2>2
<1>3. PICK i \in Serving(kind) :
        i = CHOOSE k \in Serving(kind) : \A j \in Serving(kind) : k <= j
  BY <1>2
<1> QED BY <1>1, <1>3, ChainNames DEF FirstServing

\* Nothing has been asked for at first.
LEMMA InitGenerationInv == GenerationInit => GenerationInv
BY DEF GenerationInit, GenerationInv, RequestCourse, Unasked, Asking, RequestRows, Unstarted,
       GenerationPlaces, SlotStates, Askers, ProviderNames, Providers, OutcomeRows

\* A request's step that starts no command and records nothing.
LEMMA CourseKept ==
  ASSUME GenerationInv, NEW g \in GenerationRequests, NEW r \in RequestRows,
         requests' = [requests EXCEPT ![g] = r], UNCHANGED <<slots, outcomes, commands>>,
         \/ r.at \in Unstarted /\ requests[g].at \in Unstarted /\ r.ran = requests[g].ran
         \/ /\ r = [requests[g] EXCEPT !.at = r.at]
            /\ requests[g].at \in {"called", "made"} /\ r.at \in {"made", "failed", "thrown"}
  PROVE  GenerationInv'
<1> USE DEF GenerationInv
<1>1. requests' \in [GenerationRequests -> RequestRows]
  OBVIOUS
<1>2. \A o \in outcomes : o.of # g
  <2> SUFFICES ASSUME NEW o \in outcomes, o.of = g PROVE FALSE
    OBVIOUS
  <2>1. requests[g].at \in {"done", "failed"}
    BY DEF OutcomeCourse
  <2> QED BY <2>1 DEF Unstarted
<1>3. \A o \in outcomes : o.of \in GenerationRequests /\ OutcomeCourse(o)'
  BY <1>2 DEF OutcomeCourse, OutcomeRows
<1>4. ASSUME NEW h \in GenerationRequests PROVE RequestCourse(h)'
  <2>1. CASE h # g
    BY <2>1 DEF RequestCourse
  <2>2. CASE h = g
    <3>1. requests'[g] = r
      OBVIOUS
    <3>2. CASE r.at \in Unstarted /\ requests[g].at \in Unstarted /\ r.ran = requests[g].ran
      BY <2>2, <3>1, <3>2 DEF RequestCourse, Unstarted
    <3>3. CASE /\ r = [requests[g] EXCEPT !.at = r.at]
               /\ requests[g].at \in {"called", "made"} /\ r.at \in {"made", "failed", "thrown"}
      <4>1. r.ran = requests[g].ran /\ r.asker = requests[g].asker /\ r.holder = requests[g].holder
        BY <3>3 DEF RequestRows
      <4> QED BY <2>2, <3>1, <3>3, <4>1 DEF RequestCourse, Unstarted
    <3> QED BY <3>2, <3>3
  <2> QED BY <2>1, <2>2
<1> QED BY <1>1, <1>3, <1>4

\* Every step of a request, or of the slots it is served by, keeps the invariant.
LEMMA GenerationStep == GenerationInv /\ [GenerationNext]_generationVars => GenerationInv'
<1> SUFFICES ASSUME GenerationInv, [GenerationNext]_generationVars PROVE GenerationInv'
  OBVIOUS
<1>1. CASE UNCHANGED generationVars
  BY <1>1 DEF generationVars, GenerationInv, RequestCourse, OutcomeCourse
<1>2. CASE ChangeSlot
  <2>1. slots' \in [Providers -> SlotStates] /\ UNCHANGED <<requests, outcomes, commands>>
    BY <1>2 DEF ChangeSlot, GenerationInv
  <2> QED BY <2>1 DEF GenerationInv, RequestCourse, OutcomeCourse
<1>3. ASSUME NEW g \in GenerationRequests, AskFor(g) PROVE GenerationInv'
  <2>1. PICK kind \in MediaKinds, holder, asker \in GenerationDirectors, runner \in BOOLEAN :
          \E i \in DOMAIN Chain[kind] :
            /\ (kind = "voice" \/ (runner /\ kind = "image")) => asker = holder
            /\ (runner /\ kind = "image") => i = 1
            /\ requests' = [requests EXCEPT
                 ![g] = Asking("asked", kind, holder, asker, Chain[kind][i], runner)]
    BY <1>3 DEF AskFor
  <2>2. PICK wanted \in ProviderNames :
          requests' = [requests EXCEPT ![g] = Asking("asked", kind, holder, asker, wanted, runner)]
    BY <2>1, ChainNames
  <2>3. PICK r \in RequestRows : r = Asking("asked", kind, holder, asker, wanted, runner)
    BY ChainNames DEF Asking, RequestRows, GenerationPlaces, Askers
  <2>4. r.at = "asked" /\ r.ran = "none"
    BY <2>3 DEF Asking
  <2>5. requests[g].at = "idle" /\ requests[g].ran = "none"
    BY <1>3 DEF AskFor, Stands, GenerationInv, RequestCourse, Unstarted
  <2>6. UNCHANGED <<slots, outcomes, commands>>
    BY <1>3 DEF AskFor
  <2> QED BY <2>2, <2>3, <2>4, <2>5, <2>6, CourseKept DEF Unstarted
<1>4. ASSUME NEW g \in GenerationRequests, ChangeRecord(g) PROVE GenerationInv'
  <2>1. PICK r \in RequestRows : r = [requests[g] EXCEPT !.intact = FALSE]
    BY DEF GenerationInv, RequestRows
  <2>2. r.at = requests[g].at /\ r.ran = requests[g].ran
    BY <2>1 DEF GenerationInv, RequestRows
  <2>3. requests[g].at = "asked" /\ requests' = [requests EXCEPT ![g] = r]
    BY <1>4, <2>1 DEF ChangeRecord, Stands, GenerationInv
  <2> QED BY <1>4, <2>2, <2>3, CourseKept DEF Unstarted, ChangeRecord
<1>5. ASSUME NEW g \in GenerationRequests, RefuseRecord(g) \/ RunnerWaits(g) \/ NoneServes(g)
      PROVE  GenerationInv'
  <2>1. PICK place \in {"refused", "waiting"} : GoesOn(g, place) /\ Stands(g, "asked")
    BY <1>5 DEF RefuseRecord, RunnerWaits, NoneServes
  <2>2. PICK r \in RequestRows : r = [requests[g] EXCEPT !.at = place]
    BY <2>1 DEF GenerationInv, RequestRows, GenerationPlaces
  <2>3. r.at = place /\ r.ran = requests[g].ran
    BY <2>2 DEF GenerationInv, RequestRows
  <2>4. requests[g].at = "asked" /\ requests' = [requests EXCEPT ![g] = r]
    BY <2>1, <2>2 DEF GoesOn, Stands, GenerationInv
  <2>5. UNCHANGED <<slots, outcomes, commands>>
    BY <1>5 DEF RefuseRecord, RunnerWaits, NoneServes
  <2> QED BY <2>1, <2>3, <2>4, <2>5, CourseKept DEF Unstarted
<1>6. ASSUME NEW g \in GenerationRequests, ProviderFails(g) \/ ProviderEnds(g)
      PROVE  GenerationInv'
  <2>1. PICK place \in {"failed", "made"} : GoesOn(g, place) /\ Stands(g, "called")
    BY <1>6 DEF ProviderFails, ProviderEnds
  <2>2. PICK r \in RequestRows : r = [requests[g] EXCEPT !.at = place]
    BY <2>1 DEF GenerationInv, RequestRows, GenerationPlaces
  <2>3. r.at = place
    BY <2>2 DEF GenerationInv, RequestRows
  <2>4. requests[g].at = "called" /\ requests' = [requests EXCEPT ![g] = r]
    BY <2>1, <2>2 DEF GoesOn, Stands, GenerationInv
  <2>5. UNCHANGED <<slots, outcomes, commands>>
    BY <1>6 DEF ProviderFails, ProviderEnds
  <2> QED BY <2>1, <2>2, <2>3, <2>4, <2>5, CourseKept
<1>7. ASSUME NEW g \in GenerationRequests, StartProvider(g) PROVE GenerationInv'
  <2>1. requests[g].kind \in MediaKinds
    BY DEF GenerationInv, RequestRows, MediaKinds, Chain
  <2>2. PICK p \in ProviderNames : p = FirstServing(requests[g].kind)
    BY <1>7, <2>1, FirstServes DEF StartProvider
  <2>3. PICK r \in RequestRows : r = [requests[g] EXCEPT !.at = "called", !.ran = p]
    BY DEF GenerationInv, RequestRows, GenerationPlaces
  <2>4. /\ requests[g].at = "asked" /\ requests' = [requests EXCEPT ![g] = r]
        /\ commands' = [commands EXCEPT ![g] = @ + 1] /\ UNCHANGED <<slots, outcomes>>
    BY <1>7, <2>2, <2>3 DEF StartProvider, Stands, GenerationInv
  <2>5. /\ r.at = "called" /\ r.ran = p
        /\ r.asker = r.holder
    BY <1>7, <2>3 DEF StartProvider, Sound, GenerationInv, RequestRows
  <2>6. \A o \in outcomes : o.of # g /\ o.of \in GenerationRequests
    <3> SUFFICES ASSUME NEW o \in outcomes PROVE o.of # g /\ o.of \in GenerationRequests
      OBVIOUS
    <3>1. o.of \in GenerationRequests /\ requests[o.of].at \in {"done", "failed"}
      BY DEF GenerationInv, OutcomeCourse, OutcomeRows
    <3> QED BY <2>4, <3>1
  <2>7. /\ requests' \in [GenerationRequests -> RequestRows]
        /\ commands' \in [GenerationRequests -> 0..1]
        /\ commands'[g] = 1 /\ requests'[g] = r
    BY <2>4 DEF GenerationInv, RequestCourse, Unstarted
  <2>8. ASSUME NEW h \in GenerationRequests PROVE RequestCourse(h)'
    <3>1. CASE h = g
      BY <2>5, <2>7, <3>1 DEF RequestCourse, Unstarted
    <3>2. CASE h # g
      BY <2>4, <3>2 DEF GenerationInv, RequestCourse
    <3> QED BY <3>1, <3>2
  <2>9. \A o \in outcomes' : OutcomeCourse(o)'
    BY <2>4, <2>6 DEF GenerationInv, OutcomeCourse
  <2> QED BY <2>4, <2>7, <2>8, <2>9 DEF GenerationInv
<1>8. ASSUME NEW g \in GenerationRequests, InspectedMedia(g) \/ InspectionFails(g)
      PROVE  GenerationInv'
  <2>1. requests[g].at = "made" /\ UNCHANGED <<slots, commands>>
    BY <1>8 DEF InspectedMedia, InspectionFails, Stands
  <2>2. CASE ~SameProvider(requests[g])
    <3>1. PICK place \in {"thrown", "failed"} : GoesOn(g, place) /\ UNCHANGED outcomes
      BY <1>8, <2>2 DEF InspectedMedia, InspectionFails
    <3>2. PICK r \in RequestRows : r = [requests[g] EXCEPT !.at = place]
      BY <3>1 DEF GenerationInv, RequestRows, GenerationPlaces
    <3>3. r.at = place
      BY <3>2 DEF GenerationInv, RequestRows
    <3>4. requests' = [requests EXCEPT ![g] = r]
      BY <3>1, <3>2 DEF GoesOn, GenerationInv
    <3> QED BY <2>1, <3>1, <3>2, <3>3, <3>4, CourseKept
  <2>3. CASE SameProvider(requests[g])
    <3>1. PICK v \in BOOLEAN :
            /\ GoesOn(g, IF v THEN "done" ELSE "failed")
            /\ outcomes' = outcomes \cup {Outcome(g, v)}
      BY <1>8, <2>3 DEF InspectedMedia, InspectionFails, Unverified
    <3>2. PICK r \in RequestRows :
            r = [requests[g] EXCEPT !.at = IF v THEN "done" ELSE "failed"]
      BY DEF GenerationInv, RequestRows, GenerationPlaces
    <3>3. /\ r.at = IF v THEN "done" ELSE "failed"
          /\ r.ran = requests[g].ran /\ r.wanted = requests[g].wanted
          /\ r.asker = requests[g].asker /\ r.holder = requests[g].holder
      BY <3>2 DEF GenerationInv, RequestRows
    <3>4. requests' = [requests EXCEPT ![g] = r]
      BY <3>1, <3>2 DEF GoesOn, GenerationInv
    <3>5. /\ commands[g] = 1 /\ requests[g].asker = requests[g].holder
          /\ requests[g].ran \in ProviderNames /\ requests[g].ran = requests[g].wanted
      BY <2>1, <2>3 DEF GenerationInv, RequestCourse, Unstarted, SameProvider
    <3>6. PICK new \in OutcomeRows : new = Outcome(g, v)
      <4>1. ContainerOf[requests[g].ran] \in {"mpeg", "wav", "jpeg", "png", "mp4"}
        BY <3>5 DEF ProviderNames, ContainerOf
      <4>2. requests[g].holder \in Askers
        BY DEF GenerationInv, RequestRows
      <4>3. (IF v THEN "generated" ELSE "not_evidenced") \in {"generated", "not_evidenced"}
        OBVIOUS
      <4> QED BY <3>5, <4>1, <4>2, <4>3 DEF Outcome, OutcomeRows
    <3>7. /\ new.of = g /\ new.verified = v /\ new.verified = (new.mode = "generated")
          /\ new.director = requests[g].holder /\ new.provider = requests[g].ran
          /\ new.container = ContainerOf[requests[g].ran]
      BY <3>6 DEF Outcome
    <3>8. \A o \in outcomes : o.of # g /\ o.of \in GenerationRequests
      <4> SUFFICES ASSUME NEW o \in outcomes PROVE o.of # g /\ o.of \in GenerationRequests
        OBVIOUS
      <4>1. o.of \in GenerationRequests /\ requests[o.of].at \in {"done", "failed"}
        BY DEF GenerationInv, OutcomeCourse, OutcomeRows
      <4> QED BY <2>1, <4>1
    <3>9. requests' \in [GenerationRequests -> RequestRows] /\ requests'[g] = r
      BY <3>4 DEF GenerationInv
    <3>10. outcomes' = outcomes \cup {new} /\ outcomes' \subseteq OutcomeRows
      BY <3>1, <3>6 DEF GenerationInv
    <3>11. ASSUME NEW o \in outcomes' PROVE OutcomeCourse(o)'
      <4>1. CASE o = new
        BY <3>3, <3>5, <3>7, <3>9, <4>1 DEF OutcomeCourse
      <4>2. CASE o \in outcomes
        BY <3>4, <3>8, <4>2 DEF GenerationInv, OutcomeCourse
      <4> QED BY <3>10, <4>1, <4>2
    <3>12. ASSUME NEW h \in GenerationRequests PROVE RequestCourse(h)'
      <4>1. CASE h = g
        BY <2>1, <3>3, <3>5, <3>7, <3>9, <3>10, <4>1 DEF RequestCourse, Unstarted
      <4>2. CASE h # g
        BY <2>1, <3>4, <3>10, <4>2 DEF GenerationInv, RequestCourse
      <4> QED BY <4>1, <4>2
    <3> QED BY <2>1, <3>9, <3>10, <3>11, <3>12 DEF GenerationInv
  <2> QED BY <2>2, <2>3
<1> QED BY <1>1, <1>2, <1>3, <1>4, <1>5, <1>6, <1>7, <1>8 DEF GenerationNext

\* The invariant of Generation holds throughout.
LEMMA GenerationInvHolds == GenerationSpec => []GenerationInv
BY InitGenerationInv, GenerationStep, PTL DEF GenerationSpec

\* The invariant says at least the types.
LEMMA GenerationTyped == GenerationInv => GenerationTypeOK
BY DEF GenerationInv, GenerationTypeOK, RequestRows, OutcomeRows, MediaKinds, Chain,
       ProviderNames, ContainerOf

\* Every variable of Generation keeps its type.
THEOREM GenerationTypes == GenerationSpec => []GenerationTypeOK
BY GenerationInvHolds, GenerationTyped, PTL

\* What the invariant says of an outcome.
LEMMA OutcomesClaimed == GenerationInv => GeneratedAsClaimed
<1> SUFFICES ASSUME GenerationInv PROVE GeneratedAsClaimed
  OBVIOUS
<1>1. ASSUME NEW o \in outcomes
      PROVE  LET r == requests[o.of] IN
             /\ o.verified = (o.mode = "generated") /\ o.verified = (r.at = "done")
             /\ o.director = r.holder /\ r.asker = r.holder
             /\ o.provider = r.wanted /\ o.container = ContainerOf[r.wanted]
  <2>1. OutcomeCourse(o) /\ o.of \in GenerationRequests /\ o.verified \in BOOLEAN
    BY DEF GenerationInv, OutcomeRows
  <2>2. RequestCourse(o.of) /\ requests[o.of].at \notin Unstarted
    BY <2>1 DEF GenerationInv, OutcomeCourse, Unstarted
  <2>3. requests[o.of].asker = requests[o.of].holder
    BY <2>2 DEF RequestCourse
  <2>4. o.verified = (requests[o.of].at = "done")
    BY <2>1 DEF OutcomeCourse
  <2> QED BY <2>1, <2>3, <2>4 DEF OutcomeCourse
<1>2. ASSUME NEW g \in GenerationRequests
      PROVE  /\ (requests[g].at \in {"refused", "waiting", "asked"}) => commands[g] = 0
             /\ requests[g].at = "done" => \E o \in outcomes : o.of = g
             /\ requests[g].ran \notin {"none", requests[g].wanted} =>
                  requests[g].at \in {"called", "made", "failed", "thrown"}
  <2>1. RequestCourse(g) /\ requests[g].at \in GenerationPlaces
    BY DEF GenerationInv, RequestRows
  <2> QED BY <2>1 DEF RequestCourse, Unstarted, GenerationPlaces
<1> QED BY <1>1, <1>2 DEF GeneratedAsClaimed

\* Media counts as generated only in a request that is done, is then the asking Director's
\* own, and was made by the very provider the request names, in that provider's container;
\* a request that waits or was refused has started no command: before its command a request
\* has no outcome, and afterwards the one outcome says how the command ended.
THEOREM GeneratedFaithfully == GenerationSpec => []GeneratedAsClaimed
  BY OutcomesClaimed, GenerationInvHolds, PTL

-----------------------------------------------------------------------------
(* The package of a release.                                               *)

Packaged == {"documents", "qc", "story", "told", "reviewed"}
Judged == {"story", "told", "reviewed"}
PieceNames == {"assembly", "audio", "visual", "content_reel_1", "content_reel_2", "brand_reel",
           "thumbnail", "none"}
Contents == [of : PieceNames, take : Takes \cup {0}]
MemoryRows ==
  [at : EpisodePlaces, take : Takes \cup {0}, reels : Seq(Contents), thumbnail : Contents,
   documents : 0..4, verdict : {"none", "approved", "needs_human"}]

Has(sha) == \E r \in artifactRows : r.sha = sha
Backed(p, verdict) ==
  \E check \in Checks \ {"failed"} :
    /\ Has(VerdictSha(p, verdict, check))
    /\ (check = "requires_human") = (verdict = "needs_human")

\* What a pass has recorded by the time it is where it is.
PassSound(p) ==
  LET m == memory[p] IN
  /\ m.at \notin {"idle", "over"} => \A s \in Stages : Has(Media(ComesOut(p, s)))
  /\ \A i \in DOMAIN m.reels : Has(Media(m.reels[i]))
  /\ Len(m.reels) <= 3 /\ (m.at = "reels" => Len(m.reels) < 3)
  /\ m.at \in {"packaging"} \cup Packaged => Len(m.reels) = 3
  /\ m.at \in Packaged =>
       /\ Has(Media(m.thumbnail))
       /\ \A i, j \in 1..3 : i # j => m.reels[i] # m.reels[j]
  /\ m.at = "documents" => m.documents < 4
  /\ m.at \in {"qc"} \cup Judged => m.documents = 4
  /\ \A i \in 1..m.documents : Has(DocumentsOf(p, m.thumbnail)[i])
  /\ m.at \in Judged => Backed(p, m.verdict)
  /\ m.at \in {"told", "reviewed"} => Has(Sha("story", <<>>))

RowsSound == \A r \in artifactRows : r.verified = (r.sha.kind = "media")

PackageInv ==
  /\ releaseAt \in {"planned", "in_production", "review"}
  /\ memory \in [EpisodePasses -> MemoryRows]
  /\ RowsSound
  /\ \A p \in EpisodePasses : PassSound(p)
  /\ releaseAt = "review" => \E p \in EpisodePasses : PassIs(p, "reviewed")
  /\ IntegrationOwned

\* Nothing made yet is a content of its own, and no reels a sequence of them.
LEMMA NoneTyped == None \in Contents /\ <<>> \in Seq(Contents)
<1>1. None \in Contents
  BY DEF None, Content, Contents, PieceNames
<1> HIDE DEF Contents
<1> QED BY <1>1

\* A pass that has recorded no document keeps a well-formed row.
LEMMA MemoryTyped ==
  ASSUME NEW at \in EpisodePlaces, NEW take \in Takes \cup {0}, NEW reels \in Seq(Contents),
         NEW thumbnail \in Contents
  PROVE  Memory(at, take, reels, thumbnail, 0, "none") \in MemoryRows
<1>1. 0 \in 0..4
  OBVIOUS
<1> HIDE DEF Contents, EpisodePlaces
<1> QED BY <1>1 DEF Memory, MemoryRows

\* A pass with nothing to its name keeps a well-formed row.
LEMMA BlankTyped == \A at \in EpisodePlaces : Blank(at) \in MemoryRows
BY NoneTyped, MemoryTyped DEF Blank

\* No pass has recorded anything at first.
LEMMA InitPackageInv == EpisodeInit => PackageInv
<1> SUFFICES ASSUME EpisodeInit PROVE PackageInv
  OBVIOUS
<1>1. PICK m \in MemoryRows : m = Blank("idle")
  BY BlankTyped DEF EpisodePlaces
<1>2. /\ m.at = "idle" /\ m.reels = <<>> /\ m.documents = 0
  BY <1>1 DEF Blank, Memory
<1>3. memory \in [EpisodePasses -> MemoryRows] /\ \A p \in EpisodePasses : memory[p] = m
  BY <1>1 DEF EpisodeInit
<1>4. ASSUME NEW p \in EpisodePasses PROVE PassSound(p)
  BY <1>2, <1>3 DEF PassSound, Packaged, Judged
<1> QED BY <1>3, <1>4 DEF EpisodeInit, PackageInv, RowsSound, IntegrationOwned

\* Recording keeps every row, and there is one of the recorded hash.
LEMMA RecordedIs ==
  ASSUME NEW sha, NEW stage, NEW v
  PROVE  /\ artifactRows \subseteq Recorded(sha, stage, v)
         /\ \E r \in Recorded(sha, stage, v) : r.sha = sha
         /\ \A r \in Recorded(sha, stage, v) :
              r \in artifactRows \/ (r.sha = sha /\ r.verified = v)
<1>1. CASE \E r \in artifactRows : r.sha = sha
  BY <1>1 DEF Recorded
<1>2. CASE ~\E r \in artifactRows : r.sha = sha
  <2>1. Recorded(sha, stage, v) = artifactRows \cup {[sha |-> sha, stage |-> stage, verified |-> v]}
    BY <1>2 DEF Recorded
  <2>2. PICK n : n = [sha |-> sha, stage |-> stage, verified |-> v]
    OBVIOUS
  <2>3. n.sha = sha /\ n.verified = v
    BY <2>2
  <2> QED BY <2>1, <2>2, <2>3
<1> QED BY <1>1, <1>2

\* Rows are only added, so a pass that does nothing stays sound.
LEMMA RestSound ==
  ASSUME NEW p, PassSound(p), memory'[p] = memory[p], artifactRows \subseteq artifactRows'
  PROVE  PassSound(p)'
<1>1. \A sha : Has(sha) => Has(sha)'
  BY DEF Has
<1>2. \A s : ComesOut(p, s)' = ComesOut(p, s)
  BY DEF ComesOut
<1>3. \A t : DocumentsOf(p, t)' = DocumentsOf(p, t)
  BY <1>2 DEF DocumentsOf
<1>4. \A v : Backed(p, v) => Backed(p, v)'
  BY <1>1 DEF Backed
<1> QED BY <1>1, <1>2, <1>3, <1>4 DEF PassSound

\* What a step of one pass has to show.
LEMMA PassMoves ==
  ASSUME PackageInv, NEW p \in EpisodePasses, NEW m \in MemoryRows, Keep(p, m),
         ~PassIs(p, "reviewed"), artifactRows \subseteq artifactRows', RowsSound',
         PassSound(p)', UNCHANGED composed,
         \/ releaseAt' \in {"planned", "in_production"}
         \/ releaseAt' = releaseAt
         \/ releaseAt' = "review" /\ m.at = "reviewed"
  PROVE  PackageInv'
<1>1. memory' \in [EpisodePasses -> MemoryRows] /\ memory'[p] = m
  BY DEF PackageInv, Keep
<1>2. \A q \in EpisodePasses \ {p} : memory'[q] = memory[q]
  BY DEF PackageInv, Keep
<1>3. \A q \in EpisodePasses : PassSound(q)'
  BY <1>2, RestSound DEF PackageInv
<1>4. IntegrationOwned'
  BY DEF PackageInv, IntegrationOwned
<1>5. releaseAt' = "review" => \E q \in EpisodePasses : PassIs(q, "reviewed")'
  BY <1>1, <1>2 DEF PackageInv, PassIs
<1>6. releaseAt' \in {"planned", "in_production", "review"}
  BY DEF PackageInv
<1> QED BY <1>1, <1>3, <1>4, <1>5, <1>6 DEF PackageInv

\* A pass that is given up or dies has nothing to show.
LEMMA OverSound ==
  ASSUME PackageInv, NEW p \in EpisodePasses, Keep(p, Blank("over"))
  PROVE  Blank("over") \in MemoryRows /\ PassSound(p)'
<1>1. PICK m \in MemoryRows : m = Blank("over")
  BY BlankTyped DEF EpisodePlaces
<1>2. /\ m.at = "over" /\ m.reels = <<>> /\ m.documents = 0
  BY <1>1 DEF Blank, Memory
<1>3. memory'[p] = m
  BY <1>1 DEF PackageInv, Keep
<1> QED BY <1>1, <1>2, <1>3 DEF PassSound, Packaged, Judged

\* What a record call of a row leaves.
LEMMA RecordedOne ==
  ASSUME RowsSound, NEW sha, NEW stage, NEW v \in BOOLEAN, v = (sha.kind = "media"),
         artifactRows' = Recorded(sha, stage, v)
  PROVE  artifactRows \subseteq artifactRows' /\ RowsSound' /\ Has(sha)'
<1>1. /\ artifactRows \subseteq artifactRows'
      /\ \E r \in artifactRows' : r.sha = sha
      /\ \A r \in artifactRows' : r \in artifactRows \/ (r.sha = sha /\ r.verified = v)
  BY RecordedIs
<1> QED BY <1>1 DEF RowsSound, Has

\* The hash of a medium says that it is one.
LEMMA MediaKind == \A c : Media(c).kind = "media"
BY DEF Media, Sha

\* The stages of a pass are recorded before its reels are made.
LEMMA StagesStep ==
  ASSUME PackageInv, NEW p \in EpisodePasses, RecordStages(p)
  PROVE  PackageInv'
<1>1. PICK take \in Takes :
        /\ Keep(p, Memory("reels", take, <<>>, None, 0, "none"))
        /\ artifactRows' = UNION {Recorded(Media(Content(of, take)), of, TRUE) : of \in Stages}
  BY DEF RecordStages
<1>2. PICK m \in MemoryRows : m = Memory("reels", take, <<>>, None, 0, "none")
  <2>1. None \in Contents /\ <<>> \in Seq(Contents)
    BY NoneTyped
  <2>2. take \in Takes \cup {0} /\ "reels" \in EpisodePlaces
    BY DEF EpisodePlaces
  <2>3. Memory("reels", take, <<>>, None, 0, "none") \in MemoryRows
    BY <2>1, <2>2, MemoryTyped
  <2> QED BY <2>3
<1>3. m.at = "reels" /\ m.take = take /\ m.reels = <<>> /\ m.documents = 0
  BY <1>2 DEF Memory
<1>4. memory'[p] = m
  BY <1>1, <1>2 DEF PackageInv, Keep
<1> DEFINE One(of) == Recorded(Media(Content(of, take)), of, TRUE)
<1>e. \A r : r \in artifactRows' <=> \E of \in Stages : r \in One(of)
  BY <1>1, Zenon
<1>f. \A of : /\ artifactRows \subseteq One(of)
              /\ \E r \in One(of) : r.sha = Media(Content(of, take))
              /\ \A r \in One(of) :
                   r \in artifactRows \/ (r.sha = Media(Content(of, take)) /\ r.verified = TRUE)
  <2> SUFFICES ASSUME NEW of
               PROVE  /\ artifactRows \subseteq One(of)
                      /\ \E r \in One(of) : r.sha = Media(Content(of, take))
                      /\ \A r \in One(of) :
                           r \in artifactRows \/ (r.sha = Media(Content(of, take)) /\ r.verified = TRUE)
    OBVIOUS
  <2>1. PICK sha : sha = Media(Content(of, take))
    OBVIOUS
  <2>2. One(of) = Recorded(sha, of, TRUE)
    BY <2>1
  <2>3. /\ artifactRows \subseteq Recorded(sha, of, TRUE)
        /\ \E r \in Recorded(sha, of, TRUE) : r.sha = sha
        /\ \A r \in Recorded(sha, of, TRUE) :
             r \in artifactRows \/ (r.sha = sha /\ r.verified = TRUE)
    BY RecordedIs
  <2> HIDE DEF One
  <2> QED BY <2>1, <2>2, <2>3
<1> HIDE DEF One
<1>5. artifactRows \subseteq artifactRows'
  <2>1. "audio" \in Stages
    BY DEF Stages
  <2> QED BY <1>e, <1>f, <2>1
<1>6. \A s \in Stages : Has(Media(Content(s, take)))'
  BY <1>e, <1>f DEF Has
<1>7. RowsSound'
  <2> SUFFICES ASSUME NEW r \in artifactRows' PROVE r.verified = (r.sha.kind = "media")
    BY DEF RowsSound
  <2>1. PICK of \in Stages : r \in One(of)
    BY <1>e
  <2>2. r \in artifactRows \/ (r.sha = Media(Content(of, take)) /\ r.verified = TRUE)
    BY <2>1, <1>f
  <2> QED BY <2>2, MediaKind DEF PackageInv, RowsSound
<1>8. \A s \in Stages : ComesOut(p, s)' = Content(s, take)
  BY <1>3, <1>4 DEF ComesOut
<1>9. PassSound(p)'
  BY <1>3, <1>4, <1>6, <1>8 DEF PassSound, Packaged, Judged
<1>10. ~PassIs(p, "reviewed") /\ releaseAt' = "in_production" /\ UNCHANGED composed
  BY DEF RecordStages, PassIs
<1> QED BY <1>1, <1>2, <1>5, <1>7, <1>9, <1>10, PassMoves

\* The reels, the packaging or the gate give the release up, or the process dies.
LEMMA OverStep ==
  ASSUME PackageInv, NEW p \in EpisodePasses, Keep(p, Blank("over")), ~PassIs(p, "reviewed"),
         artifactRows \subseteq artifactRows', RowsSound', UNCHANGED composed,
         releaseAt' \in {"planned", releaseAt}
  PROVE  PackageInv'
BY OverSound, PassMoves

\* A reel that is recorded is the next of its pass.
LEMMA ReelStep ==
  ASSUME PackageInv, NEW p \in EpisodePasses, ReelRecorded(p)
  PROVE  PackageInv'
<1>1. PICK clip \in {ComesOut(p, NextReel(p).key)} \cup ToSet(memory[p].reels) :
        LET reels == Append(memory[p].reels, clip) IN
        /\ artifactRows' = Recorded(Media(clip), "reels", TRUE)
        /\ Keep(p, Memory(IF Len(reels) = Len(CanonicalReels) THEN "packaging" ELSE "reels",
                          memory[p].take, reels, None, 0, "none"))
  BY DEF ReelRecorded
<1>2. /\ memory[p] \in MemoryRows /\ memory[p].at = "reels" /\ PassSound(p)
      /\ memory[p].reels \in Seq(Contents) /\ Len(memory[p].reels) \in 0..2
  <2>1. memory[p] \in MemoryRows /\ memory[p].at = "reels" /\ PassSound(p)
    BY DEF ReelRecorded, PackageInv, PassIs
  <2>2. memory[p].reels \in Seq(Contents)
    <3> HIDE DEF Contents
    <3> QED BY <2>1 DEF MemoryRows
  <2>3. Len(memory[p].reels) < 3
    BY <2>1 DEF PassSound
  <2>4. Len(memory[p].reels) \in Nat
    <3> HIDE DEF Contents
    <3> QED BY <2>2
  <2>5. PICK n \in Nat : n = Len(memory[p].reels)
    BY <2>4
  <2>6. n < 3
    BY <2>3, <2>5
  <2>7. n \in 0..2
    BY <2>6
  <2> QED BY <2>1, <2>2, <2>5, <2>7
<1>3. clip \in Contents
  <2>1. CASE clip \in ToSet(memory[p].reels)
    <3>1. PICK k \in DOMAIN memory[p].reels : clip = memory[p].reels[k]
      BY <2>1 DEF ToSet
    <3> HIDE DEF Contents
    <3> QED BY <1>2, <3>1
  <2>2. CASE clip = ComesOut(p, NextReel(p).key)
    <3>1. PICK n \in 0..2 : n = Len(memory[p].reels)
      BY <1>2
    <3>2. NextReel(p).key \in {"content_reel_1", "content_reel_2", "brand_reel"}
      <4>1. /\ CanonicalReels[1].key = "content_reel_1"
            /\ CanonicalReels[2].key = "content_reel_2"
            /\ CanonicalReels[3].key = "brand_reel"
        BY DEF CanonicalReels
      <4>2. NextReel(p) = CanonicalReels[n + 1]
        BY <3>1 DEF NextReel
      <4>3. \A k \in 0..2 : k + 1 = 1 \/ k + 1 = 2 \/ k + 1 = 3
        OBVIOUS
      <4> QED BY <4>1, <4>2, <4>3
    <3>3. memory[p].take \in Takes \cup {0}
      BY <1>2 DEF MemoryRows
    <3> QED BY <2>2, <3>2, <3>3 DEF ComesOut, Content, Contents, PieceNames
  <2> QED BY <1>1, <2>1, <2>2
<1>4. PICK reels \in Seq(Contents) : reels = Append(memory[p].reels, clip)
  <2>1. PICK old \in Seq(Contents) : old = memory[p].reels
    BY <1>2
  <2> HIDE DEF Contents
  <2>2. Append(old, clip) \in Seq(Contents)
    BY <1>3
  <2> QED BY <2>1, <2>2
<1>5. /\ Len(reels) = Len(memory[p].reels) + 1 /\ Len(reels) \in 1..3
      /\ \A i \in DOMAIN reels : reels[i] = clip \/ \E k \in DOMAIN memory[p].reels : reels[i] = memory[p].reels[k]
  <2> HIDE DEF Contents
  <2> QED BY <1>2, <1>3, <1>4
<1>6. PICK at \in {"packaging", "reels"} : at = IF Len(reels) = 3 THEN "packaging" ELSE "reels"
  OBVIOUS
<1>7. PICK m : m = Memory(at, memory[p].take, reels, None, 0, "none")
  OBVIOUS
<1>8. m \in MemoryRows
  <2>1. memory[p].take \in Takes \cup {0}
    BY <1>2 DEF MemoryRows
  <2>2. at \in EpisodePlaces
    BY DEF EpisodePlaces
  <2> QED BY <1>4, <1>7, <2>1, <2>2, MemoryTyped, NoneTyped
<1>9. m.at = at /\ m.take = memory[p].take /\ m.reels = reels /\ m.documents = 0
  BY <1>7 DEF Memory
<1>10. Keep(p, m)
  BY <1>1, <1>4, <1>6, <1>7 DEF CanonicalReels
<1>11. memory'[p] = m
  BY <1>10 DEF PackageInv, Keep
<1>12. artifactRows \subseteq artifactRows' /\ RowsSound' /\ Has(Media(clip))'
  BY <1>1, MediaKind, RecordedOne DEF PackageInv
<1>13. \A s : ComesOut(p, s)' = ComesOut(p, s)
  BY <1>9, <1>11 DEF ComesOut
<1>14. \A sha : Has(sha) => Has(sha)'
  BY <1>12 DEF Has
<1>15. PassSound(p)'
  <2>1. \A s \in Stages : Has(Media(ComesOut(p, s)))'
    BY <1>2, <1>13, <1>14 DEF PassSound
  <2>2. PICK old : old = memory[p].reels
    OBVIOUS
  <2>4. \A k \in DOMAIN old : Has(Media(old[k]))
    BY <1>2, <2>2 DEF PassSound
  <2>3. \A i \in DOMAIN reels : Has(Media(reels[i]))'
    <3> SUFFICES ASSUME NEW i \in DOMAIN reels PROVE Has(Media(reels[i]))'
      OBVIOUS
    <3>1. CASE reels[i] = clip
      BY <3>1, <1>12
    <3>2. CASE \E k \in DOMAIN old : reels[i] = old[k]
      <4>1. PICK k \in DOMAIN old : reels[i] = old[k]
        BY <3>2
      <4>2. Has(Media(old[k]))'
        BY <2>4, <1>14
      <4> QED BY <4>1, <4>2
    <3> QED BY <1>5, <2>2, <3>1, <3>2
  <2>5. memory'[p].at \in {"reels", "packaging"} /\ memory'[p].reels = reels
        /\ memory'[p].documents = 0
    BY <1>6, <1>9, <1>11
  <2>6. Len(reels) <= 3 /\ (memory'[p].at = "reels" => Len(reels) < 3)
        /\ (memory'[p].at = "packaging" => Len(reels) = 3)
    BY <1>5, <1>6, <1>9, <1>11
  <2> QED BY <2>1, <2>3, <2>5, <2>6 DEF PassSound, Packaged, Judged
<1>16. ~PassIs(p, "reviewed") /\ UNCHANGED <<releaseAt, composed>>
  BY DEF ReelRecorded, PassIs
<1> QED BY <1>8, <1>10, <1>12, <1>15, <1>16, PassMoves

\* What a pass whose package is made has to show.
LEMMA PackagedSound ==
  ASSUME NEW p, NEW old, NEW image, NEW n, NEW docs, memory'[p].at \in Packaged,
         memory'[p].reels = old, memory'[p].thumbnail = image, memory'[p].documents = n,
         DocumentsOf(p, image)' = docs,
         \A s \in Stages : Has(Media(ComesOut(p, s)))',
         \A k \in DOMAIN old : Has(Media(old[k]))',
         Len(old) = 3, \A i, j \in 1..3 : i # j => old[i] # old[j],
         Has(Media(image))', \A i \in 1..n : Has(docs[i])',
         memory'[p].at = "documents" => n < 4,
         memory'[p].at # "documents" => n = 4,
         memory'[p].at \in Judged => Backed(p, memory[p].verdict)',
         memory'[p].at \in {"told", "reviewed"} => Has(Sha("story", <<>>))'
  PROVE  PassSound(p)'
<1>1. memory'[p].at \notin {"idle", "over", "reels", "packaging"}
  BY DEF Packaged
<1>2. DocumentsOf(p, memory[p].thumbnail)' = docs
  BY DEF DocumentsOf
<1>3. \A i \in DOMAIN memory'[p].reels : Has(Media(memory[p].reels[i]))'
  OBVIOUS
<1>4. \A i \in 1..memory'[p].documents : Has(DocumentsOf(p, memory[p].thumbnail)[i])'
  BY <1>2
<1>5. Has(Media(memory[p].thumbnail))'
  OBVIOUS
<1>6. Len(memory'[p].reels) = 3
      /\ \A i, j \in 1..3 : i # j => memory'[p].reels[i] # memory'[p].reels[j]
  OBVIOUS
<1>7. /\ memory'[p].at = "documents" => memory'[p].documents < 4
      /\ memory'[p].at \in {"qc"} \cup Judged => memory'[p].documents = 4
  BY DEF Judged
<1>8. memory'[p].at # "reels"
  BY <1>1
<1>9. \A s \in Stages : Has(Media(ComesOut(p, s)))'
  OBVIOUS
<1> HIDE DEF Packaged, Judged
<1> QED BY <1>3, <1>4, <1>5, <1>6, <1>7, <1>8, <1>9 DEF PassSound

\* The package binds three reels of different content, and its thumbnail is recorded.
LEMMA PackageStep ==
  ASSUME PackageInv, NEW p \in EpisodePasses, Package(p)
  PROVE  PackageInv'
<1>1. PICK image \in {ComesOut(p, "thumbnail"), ComesOut(p, "visual")} :
        /\ Binds(Standalone(p), Video(p), ReelsOf(p), {Own(image)}, NoSegment)
        /\ artifactRows' = Recorded(Media(image), "thumbnail", TRUE)
        /\ Keep(p, Memory("documents", memory[p].take, memory[p].reels, image, 0, "none"))
  BY DEF Package
<1>2. memory[p] \in MemoryRows /\ memory[p].at = "packaging" /\ PassSound(p)
  BY DEF Package, PackageInv, PassIs
<1>3. memory[p].take \in Takes \cup {0} /\ memory[p].reels \in Seq(Contents)
  <2> HIDE DEF Contents
  <2> QED BY <1>2 DEF MemoryRows
<1>4. image \in Contents
  BY <1>1, <1>3 DEF ComesOut, Content, Contents, PieceNames
<1>5. PICK m \in MemoryRows : m = Memory("documents", memory[p].take, memory[p].reels, image, 0, "none")
  BY <1>3, <1>4, MemoryTyped DEF EpisodePlaces
<1>6. /\ m.at = "documents" /\ m.take = memory[p].take /\ m.reels = memory[p].reels
      /\ m.documents = 0 /\ m.thumbnail = image
  BY <1>5 DEF Memory
<1>7. Keep(p, m) /\ memory'[p] = m
  BY <1>1, <1>5 DEF PackageInv, Keep
<1>8. artifactRows \subseteq artifactRows' /\ RowsSound' /\ Has(Media(image))'
  BY <1>1, MediaKind, RecordedOne DEF PackageInv
<1>9. \A i, j \in 1..3 : i # j => memory[p].reels[i] # memory[p].reels[j]
  <2>1. \A i, j \in 1..3 : i # j => ReelsOf(p)[i].content # ReelsOf(p)[j].content
    BY <1>1 DEF Binds, DistinctBound
  <2>2. \A i \in 1..3 : ReelsOf(p)[i].content = memory[p].reels[i]
    BY DEF ReelsOf, Own, Bound
  <2> QED BY <2>1, <2>2
<1>10. PICK old : old = memory[p].reels
  OBVIOUS
<1>11. PassSound(p)'
  <2>1. \A s : ComesOut(p, s)' = ComesOut(p, s)
    BY <1>6, <1>7 DEF ComesOut
  <2>2. \A sha : Has(sha) => Has(sha)'
    BY <1>8 DEF Has
  <2>3. \A s \in Stages : Has(Media(ComesOut(p, s)))'
    BY <1>2, <2>1, <2>2 DEF PassSound
  <2>4. \A k \in DOMAIN old : Has(Media(old[k]))'
    BY <1>2, <1>10, <2>2 DEF PassSound
  <2>5. Len(old) = 3
    BY <1>2, <1>10 DEF PassSound
  <2>6. memory'[p].at = "documents" /\ memory'[p].reels = old /\ memory'[p].documents = 0
        /\ memory'[p].thumbnail = image
    BY <1>6, <1>7, <1>10
  <2>7. memory'[p].at \in Packaged /\ memory'[p].at \notin Judged
    BY <2>6 DEF Packaged, Judged
  <2>8. PICK docs : docs = DocumentsOf(p, image)'
    OBVIOUS
  <2>9. \A i, j \in 1..3 : i # j => old[i] # old[j]
    BY <1>9, <1>10
  <2>10. \A i \in 1..0 : Has(docs[i])'
    OBVIOUS
  <2> QED BY <1>8, <2>3, <2>4, <2>5, <2>6, <2>7, <2>8, <2>9, <2>10, PackagedSound DEF Judged
<1>12. ~PassIs(p, "reviewed") /\ UNCHANGED <<releaseAt, composed>>
  BY DEF Package, PassIs
<1> QED BY <1>7, <1>8, <1>11, <1>12, PassMoves

\* The documents are of four kinds, none of them a medium.
LEMMA DocumentKinds == \A p, t : \A i \in 1..4 : DocumentsOf(p, t)[i].kind # "media"
<1> SUFFICES ASSUME NEW p, NEW t, NEW i \in 1..4 PROVE DocumentsOf(p, t)[i].kind # "media"
  OBVIOUS
<1>1. i = 1 \/ i = 2 \/ i = 3 \/ i = 4
  OBVIOUS
<1> QED BY <1>1 DEF DocumentsOf, Sha

\* The documents are recorded one after the other; none of them passes for a medium.
LEMMA DocumentStep ==
  ASSUME PackageInv, NEW p \in EpisodePasses, RecordDocument(p)
  PROVE  PackageInv'
<1>1. memory[p] \in MemoryRows /\ memory[p].at = "documents" /\ PassSound(p)
  BY DEF RecordDocument, PackageInv, PassIs
<1>2. memory[p].documents \in 0..4 /\ memory[p].documents < 4
  BY <1>1 DEF MemoryRows, PassSound
<1>3. PICK next \in 1..4 : next = memory[p].documents + 1
  BY <1>2
<1>4. PICK at \in {"qc", "documents"} : at = IF next = 4 THEN "qc" ELSE "documents"
  OBVIOUS
<1>5. PICK document : document = DocumentsOf(p, memory[p].thumbnail)[next]
  OBVIOUS
<1>6. PICK m : m = [memory[p] EXCEPT !.documents = next, !.at = at]
  OBVIOUS
<1>7. artifactRows' = Recorded(document, document.kind, FALSE) /\ Keep(p, m)
  BY <1>3, <1>4, <1>5, <1>6 DEF RecordDocument
<1>8. /\ m \in MemoryRows /\ m.at = at /\ m.documents = next /\ m.take = memory[p].take
      /\ m.reels = memory[p].reels /\ m.thumbnail = memory[p].thumbnail
  <2>1. at \in EpisodePlaces /\ next \in 0..4
    BY DEF EpisodePlaces
  <2> HIDE DEF Contents
  <2> QED BY <1>1, <1>6, <2>1 DEF MemoryRows
<1>9. memory'[p] = m
  BY <1>7 DEF PackageInv, Keep
<1>10. artifactRows \subseteq artifactRows' /\ RowsSound' /\ Has(document)'
  <2>1. FALSE = (document.kind = "media")
    BY <1>5, DocumentKinds
  <2> QED BY <1>7, <2>1, RecordedOne DEF PackageInv
<1>11. PICK image, old : image = memory[p].thumbnail /\ old = memory[p].reels
  OBVIOUS
<1>12. PICK docs : docs = DocumentsOf(p, image)
  OBVIOUS
<1>13. PassSound(p)'
  <2>1. \A s : ComesOut(p, s)' = ComesOut(p, s)
    BY <1>8, <1>9 DEF ComesOut
  <2>2. \A sha : Has(sha) => Has(sha)'
    BY <1>10 DEF Has
  <2>3. \A s \in Stages : Has(Media(ComesOut(p, s)))'
    BY <1>1, <2>1, <2>2 DEF PassSound
  <2>4. \A k \in DOMAIN old : Has(Media(old[k]))'
    BY <1>1, <1>11, <2>2 DEF PassSound
  <2>5. Len(old) = 3 /\ \A i, j \in 1..3 : i # j => old[i] # old[j]
    BY <1>1, <1>11 DEF PassSound, Packaged
  <2>6. Has(Media(image))'
    BY <1>1, <1>11, <2>2 DEF PassSound, Packaged
  <2>7. memory'[p].at = at /\ memory'[p].reels = old /\ memory'[p].documents = next
        /\ memory'[p].thumbnail = image
    BY <1>8, <1>9, <1>11
  <2>8. DocumentsOf(p, image)' = docs
    BY <1>8, <1>9, <1>11, <1>12, <2>1 DEF DocumentsOf
  <2>9. \A i \in 1..next : Has(docs[i])'
    <3> SUFFICES ASSUME NEW i \in 1..next PROVE Has(docs[i])'
      OBVIOUS
    <3>1. CASE i = next
      BY <3>1, <1>5, <1>10, <1>11, <1>12
    <3>2. CASE i # next
      <4>1. i \in 1..memory[p].documents
        BY <3>2, <1>2, <1>3
      <4>2. Has(docs[i])
        BY <4>1, <1>1, <1>11, <1>12 DEF PassSound
      <4> QED BY <4>2, <2>2
    <3> QED BY <3>1, <3>2
  <2>10. (at = "documents" => next < 4) /\ (at = "qc" => next = 4)
    BY <1>4
  <2>11. memory'[p].at \in Packaged /\ memory'[p].at \notin Judged
    BY <2>7 DEF Packaged, Judged
  <2> QED BY <2>3, <2>4, <2>5, <2>6, <2>7, <2>8, <2>9, <2>10, <2>11, PackagedSound DEF Judged
<1>14. ~PassIs(p, "reviewed") /\ UNCHANGED <<releaseAt, composed>>
  BY DEF RecordDocument, PassIs
<1> QED BY <1>7, <1>8, <1>10, <1>13, <1>14, PassMoves

\* The steps after the documents change where a pass is and its verdict, and add rows.
LEMMA JudgedStep ==
  ASSUME PackageInv, NEW p \in EpisodePasses, memory[p].at \in {"qc", "story", "told"},
         NEW at \in Judged, NEW verdict \in {"none", "approved", "needs_human"},
         NEW m, m = [memory[p] EXCEPT !.at = at, !.verdict = verdict], Keep(p, m),
         artifactRows \subseteq artifactRows', RowsSound', UNCHANGED composed,
         \E check \in Checks \ {"failed"} :
           /\ Has(VerdictSha(p, verdict, check))'
           /\ (check = "requires_human") = (verdict = "needs_human"),
         at \in {"told", "reviewed"} => Has(Sha("story", <<>>))',
         releaseAt' = releaseAt \/ (releaseAt' = "review" /\ at = "reviewed")
  PROVE  PackageInv'
<1>1. memory[p] \in MemoryRows /\ PassSound(p) /\ memory[p].at \in Packaged
  BY DEF PackageInv, Packaged
<1>2. /\ m \in MemoryRows /\ m.at = at /\ m.documents = memory[p].documents
      /\ m.take = memory[p].take /\ m.verdict = verdict
      /\ m.reels = memory[p].reels /\ m.thumbnail = memory[p].thumbnail
  <2>1. at \in EpisodePlaces
    BY DEF EpisodePlaces, Judged
  <2> HIDE DEF Contents
  <2> QED BY <1>1, <2>1 DEF MemoryRows
<1>3. memory'[p] = m
  BY DEF PackageInv, Keep
<1>4. PICK image, old : image = memory[p].thumbnail /\ old = memory[p].reels
  OBVIOUS
<1>5. PICK docs : docs = DocumentsOf(p, image)
  OBVIOUS
<1>6. PassSound(p)'
  <2>1. \A s : ComesOut(p, s)' = ComesOut(p, s)
    BY <1>2, <1>3 DEF ComesOut
  <2>2. \A sha : Has(sha) => Has(sha)'
    BY DEF Has
  <2>3. \A s \in Stages : Has(Media(ComesOut(p, s)))'
    BY <1>1, <2>1, <2>2 DEF PassSound, Packaged
  <2>4. \A k \in DOMAIN old : Has(Media(old[k]))'
    BY <1>1, <1>4, <2>2 DEF PassSound
  <2>5. Len(old) = 3 /\ \A i, j \in 1..3 : i # j => old[i] # old[j]
    BY <1>1, <1>4 DEF PassSound
  <2>6. Has(Media(image))'
    BY <1>1, <1>4, <2>2 DEF PassSound
  <2>7. memory'[p].at = at /\ memory'[p].reels = old /\ memory'[p].documents = 4
        /\ memory'[p].thumbnail = image /\ memory'[p].verdict = verdict
    BY <1>1, <1>2, <1>3, <1>4 DEF PassSound, Judged
  <2>8. DocumentsOf(p, image)' = docs
    BY <1>2, <1>3, <1>4, <1>5, <2>1 DEF DocumentsOf
  <2>9. \A i \in 1..4 : Has(docs[i])'
    <3>1. memory[p].documents = 4
      BY <1>2, <1>3, <2>7
    <3> QED BY <1>1, <1>4, <1>5, <2>2, <3>1 DEF PassSound
  <2>10. Backed(p, memory[p].verdict)'
    BY <2>7 DEF Backed, VerdictSha
  <2>11. at \in Packaged /\ at # "documents"
    BY DEF Packaged, Judged
  <2> QED BY <2>3, <2>4, <2>5, <2>6, <2>7, <2>8, <2>9, <2>10, <2>11, PackagedSound
<1>7. ~PassIs(p, "reviewed")
  BY DEF PassIs
<1> QED BY <1>2, <1>3, <1>6, <1>7, PassMoves

\* A verdict that is no rejection is an approval, or wants a human as its check does.
LEMMA VerdictIs ==
  ASSUME NEW p, NEW check \in Checks, AfterVerdict(VerdictOf(p, check)) # "over"
  PROVE  /\ VerdictOf(p, check) \in {"approved", "needs_human"} /\ check # "failed"
         /\ (check = "requires_human") = (VerdictOf(p, check) = "needs_human")
BY DEF AfterVerdict, VerdictOf, Checks

\* A verdict that lets the pass go on is recorded with the check it rests on.
LEMMA GateStep ==
  ASSUME PackageInv, NEW p \in EpisodePasses, Gate(p)
  PROVE  PackageInv'
<1>1. PICK check \in Checks :
        LET verdict == VerdictOf(p, check) IN
        /\ artifactRows' = Recorded(VerdictSha(p, verdict, check), "qc", FALSE)
        /\ IF AfterVerdict(verdict) = "over" THEN GiveUp(p)
           ELSE /\ Keep(p, [memory[p] EXCEPT !.at = "story", !.verdict = verdict])
                /\ UNCHANGED releaseAt
  BY DEF Gate
<1>2. PICK verdict : verdict = VerdictOf(p, check)
  OBVIOUS
<1>3. PICK sha : sha = VerdictSha(p, verdict, check)
  OBVIOUS
<1>4. memory[p].at = "qc" /\ UNCHANGED composed
  BY DEF Gate, PassIs
<1>5. artifactRows \subseteq artifactRows' /\ RowsSound' /\ Has(sha)'
  <2>1. FALSE = (sha.kind = "media")
    BY <1>3 DEF VerdictSha, Sha
  <2>2. artifactRows' = Recorded(sha, "qc", FALSE)
    BY <1>1, <1>2, <1>3
  <2> QED BY <2>1, <2>2, RecordedOne DEF PackageInv
<1>6. CASE AfterVerdict(verdict) = "over"
  BY <1>1, <1>2, <1>4, <1>5, <1>6, OverStep DEF GiveUp, PassIs
<1>7. CASE AfterVerdict(verdict) # "over"
  <2>1. /\ verdict \in {"approved", "needs_human"} /\ check # "failed"
        /\ (check = "requires_human") = (verdict = "needs_human")
    BY <1>2, <1>7, VerdictIs
  <2>2. PICK m : m = [memory[p] EXCEPT !.at = "story", !.verdict = verdict]
    OBVIOUS
  <2>3. Keep(p, m) /\ releaseAt' = releaseAt
    BY <1>1, <1>2, <1>7, <2>2
  <2>4. Has(VerdictSha(p, verdict, check))'
    BY <1>3, <1>5 DEF VerdictSha
  <2> QED BY <1>4, <1>5, <2>1, <2>2, <2>3, <2>4, JudgedStep DEF Judged
<1> QED BY <1>6, <1>7

\* The story document and the review keep the verdict.
LEMMA KeptVerdict ==
  ASSUME PackageInv, NEW p \in EpisodePasses, memory[p].at \in {"story", "told"},
         artifactRows \subseteq artifactRows', NEW at
  PROVE  /\ memory[p].verdict \in {"none", "approved", "needs_human"}
         /\ [memory[p] EXCEPT !.at = at]
              = [memory[p] EXCEPT !.at = at, !.verdict = memory[p].verdict]
         /\ \E check \in Checks \ {"failed"} :
              /\ \E r \in artifactRows' : r.sha = VerdictSha(p, memory[p].verdict, check)
              /\ (check = "requires_human") = (memory[p].verdict = "needs_human")
         /\ memory[p].at = "told" => \E r \in artifactRows' : r.sha = Sha("story", <<>>)
<1>1. memory[p] \in MemoryRows /\ PassSound(p)
  BY DEF PackageInv
<1>2. memory[p].verdict \in {"none", "approved", "needs_human"}
  <2> HIDE DEF Contents
  <2> QED BY <1>1 DEF MemoryRows
<1>3. [memory[p] EXCEPT !.at = at] = [memory[p] EXCEPT !.at = at, !.verdict = memory[p].verdict]
  <2> HIDE DEF Contents
  <2> QED BY <1>1 DEF MemoryRows
<1>4. Backed(p, memory[p].verdict) /\ (memory[p].at = "told" => Has(Sha("story", <<>>)))
  BY <1>1 DEF PassSound, Judged
<1> QED BY <1>2, <1>3, <1>4 DEF Backed, Has

\* The story document is recorded before the release may come to review.
LEMMA StoryStep ==
  ASSUME PackageInv, NEW p \in EpisodePasses, RecordStory(p)
  PROVE  PackageInv'
<1>1. PICK story : story = Sha("story", <<>>)
  OBVIOUS
<1>2. /\ memory[p].at = "story" /\ UNCHANGED <<releaseAt, composed>>
      /\ artifactRows' = Recorded(story, "story", FALSE)
      /\ Keep(p, [memory[p] EXCEPT !.at = "told"])
  BY <1>1 DEF RecordStory, PassIs
<1>3. artifactRows \subseteq artifactRows' /\ RowsSound' /\ Has(story)'
  <2>1. FALSE = (story.kind = "media")
    BY <1>1 DEF Sha
  <2> QED BY <1>2, <2>1, RecordedOne DEF PackageInv
<1>4. PICK verdict : verdict = memory[p].verdict
  OBVIOUS
<1>5. PICK m : m = [memory[p] EXCEPT !.at = "told"]
  OBVIOUS
<1>6. verdict \in {"none", "approved", "needs_human"}
      /\ m = [memory[p] EXCEPT !.at = "told", !.verdict = verdict]
  BY <1>2, <1>3, <1>4, <1>5, KeptVerdict
<1>7. \E check \in Checks \ {"failed"} :
        /\ Has(VerdictSha(p, verdict, check))'
        /\ (check = "requires_human") = (verdict = "needs_human")
  BY <1>2, <1>3, <1>4, KeptVerdict DEF Has
<1>8. Has(Sha("story", <<>>))' /\ Keep(p, m) /\ "told" \in Judged
      /\ memory[p].at \in {"qc", "story", "told"}
  BY <1>1, <1>2, <1>3, <1>5 DEF Judged
<1> QED BY <1>2, <1>3, <1>6, <1>7, <1>8, JudgedStep

\* A release comes to review by a pass that has recorded all of it.
LEMMA ReviewStep ==
  ASSUME PackageInv, NEW p \in EpisodePasses, Review(p)
  PROVE  PackageInv'
<1>1. /\ memory[p].at = "told" /\ releaseAt' = "review" /\ UNCHANGED <<artifactRows, composed>>
      /\ Keep(p, [memory[p] EXCEPT !.at = "reviewed"])
  BY DEF Review, PassIs
<1>2. artifactRows \subseteq artifactRows' /\ RowsSound'
  BY <1>1 DEF PackageInv, RowsSound
<1>3. PICK verdict : verdict = memory[p].verdict
  OBVIOUS
<1>4. PICK m : m = [memory[p] EXCEPT !.at = "reviewed"]
  OBVIOUS
<1>5. /\ verdict \in {"none", "approved", "needs_human"}
      /\ m = [memory[p] EXCEPT !.at = "reviewed", !.verdict = verdict]
      /\ Has(Sha("story", <<>>))'
  BY <1>1, <1>2, <1>3, <1>4, KeptVerdict DEF Has
<1>6. \E check \in Checks \ {"failed"} :
        /\ Has(VerdictSha(p, verdict, check))'
        /\ (check = "requires_human") = (verdict = "needs_human")
  BY <1>1, <1>2, <1>3, KeptVerdict DEF Has
<1>7. Keep(p, m) /\ "reviewed" \in Judged /\ memory[p].at \in {"qc", "story", "told"}
  BY <1>1, <1>4 DEF Judged
<1> QED BY <1>1, <1>2, <1>5, <1>6, <1>7, JudgedStep

\* What the library composes is bound only as the owner's order allows.
LEMMA ComposeStep ==
  ASSUME PackageInv, Compose
  PROVE  PackageInv'
<1>1. UNCHANGED <<releaseAt, artifactRows, memory>>
  BY DEF Compose
<1>2. PICK mode \in Modes, authorization \in {"none", "this_run", "other_run"},
           wanted \in Offered \cup {None}, given \in Offered \cup {None}, brand \in Offered,
           origin \in Origins, checked \in BOOLEAN :
        LET request == PackageOrder(mode, authorization, wanted, Still)
            reels == <<Own(Content("content_reel_1", 1)), Own(Content("content_reel_2", 1)),
                       Own(brand)>>
            thumbnail == Bound(Content("thumbnail", 1), "unknown", checked)
            segment == Bound(given, origin, TRUE)
            video == Own(Content("assembly", 1))
        IN /\ Accepted(request) /\ Binds(request, video, reels, {thumbnail}, segment)
           /\ composed' = {[order |-> request, segment |-> segment, brand |-> brand,
                            thumbnail |-> thumbnail,
                            ready |-> Ready(video, reels, {thumbnail}, segment)]}
  BY DEF Compose
<1>3. PICK request, reels, thumbnail, segment, video :
        /\ request = PackageOrder(mode, authorization, wanted, Still)
        /\ reels = <<Own(Content("content_reel_1", 1)), Own(Content("content_reel_2", 1)), Own(brand)>>
        /\ thumbnail = Bound(Content("thumbnail", 1), "unknown", checked)
        /\ segment = Bound(given, origin, TRUE)
        /\ video = Own(Content("assembly", 1))
  OBVIOUS
<1>4. PICK ready : ready = Ready(video, reels, {thumbnail}, segment)
  OBVIOUS
<1>5. /\ Accepted(request) /\ Binds(request, video, reels, {thumbnail}, segment)
      /\ composed' = {[order |-> request, segment |-> segment, brand |-> brand,
                       thumbnail |-> thumbnail, ready |-> ready]}
  BY <1>2, <1>3, <1>4
<1>6. /\ reels[1].content = Content("content_reel_1", 1)
      /\ reels[2].content = Content("content_reel_2", 1) /\ reels[3].content = brand
      /\ video.content = Content("assembly", 1)
  BY <1>3 DEF Own, Bound
<1>7. DistinctBound(video, reels, segment.content)
      /\ segment.content = Integration(request) /\ (segment.content # None => InScope(segment))
  BY <1>5 DEF Binds
<1>8. ready => thumbnail.verified
  BY <1>4 DEF Ready
<1>9. brand # Content("content_reel_2", 1)
  BY <1>6, <1>7 DEF DistinctBound
<1>10. ASSUME segment.content # None
       PROVE  /\ request.mode = "INTEGRATED" /\ request.authorization = "this_run"
              /\ segment.content = request.segment /\ InScope(segment)
              /\ segment.content \notin request.brand
              /\ segment.content \notin {brand, Content("assembly", 1), Content("content_reel_2", 1)}
  <2>1. request.mode = "INTEGRATED" /\ segment.content = request.segment
    BY <1>7, <1>10 DEF Integration
  <2>2. request.authorization = "this_run" /\ request.segment \notin request.brand
    BY <1>5, <2>1 DEF Accepted, Authorized
  <2>3. segment.content \notin {video.content} \cup {reels[i].content : i \in 1..3}
    BY <1>7, <1>10 DEF DistinctBound
  <2> QED BY <1>6, <1>7, <1>10, <2>1, <2>2, <2>3
<1>11. IntegrationOwned'
  <2>1. PICK c : c = [order |-> request, segment |-> segment, brand |-> brand,
                      thumbnail |-> thumbnail, ready |-> ready]
    OBVIOUS
  <2>2. /\ composed' = {c} /\ c.order = request /\ c.segment = segment /\ c.brand = brand
        /\ c.thumbnail = thumbnail /\ c.ready = ready
    BY <1>5, <2>1
  <2>3. {Content(of, 1) : of \in {"assembly", "content_reel_2"}}
          = {Content("assembly", 1), Content("content_reel_2", 1)}
    OBVIOUS
  <2> QED BY <1>8, <1>9, <1>10, <2>2, <2>3 DEF IntegrationOwned
<1>12. \A p \in EpisodePasses : PassSound(p)'
  BY <1>1, RestSound DEF PackageInv
<1> QED BY <1>1, <1>11, <1>12 DEF PackageInv, RowsSound, PassIs

\* Every step of the end of a pass, or of a caller of the library, keeps the invariant.
LEMMA EpisodeStep == PackageInv /\ [EpisodeNext]_episodeVars => PackageInv'
<1> SUFFICES ASSUME PackageInv, [EpisodeNext]_episodeVars PROVE PackageInv'
  OBVIOUS
<1>1. CASE Compose
  BY <1>1, ComposeStep
<1>2. ASSUME NEW p \in EpisodePasses,
             \/ RecordStages(p) \/ ReelRefused(p) \/ ReelRecorded(p) \/ PackagingRefused(p)
             \/ Package(p) \/ RecordDocument(p) \/ Gate(p) \/ RecordStory(p) \/ Review(p)
             \/ EpisodePassDies(p)
      PROVE  PackageInv'
  <2>0. UNCHANGED artifactRows => artifactRows \subseteq artifactRows' /\ RowsSound'
    BY DEF PackageInv, RowsSound
  <2>1. CASE RecordStages(p)
    BY <2>1, StagesStep
  <2>2. CASE ReelRefused(p)
    BY <2>0, <2>2, OverStep DEF ReelRefused, GiveUp, PassIs
  <2>3. CASE ReelRecorded(p)
    BY <2>3, ReelStep
  <2>4. CASE PackagingRefused(p)
    BY <2>0, <2>4, OverStep DEF PackagingRefused, GiveUp, PassIs
  <2>5. CASE Package(p)
    BY <2>5, PackageStep
  <2>6. CASE RecordDocument(p)
    BY <2>6, DocumentStep
  <2>7. CASE Gate(p)
    BY <2>7, GateStep
  <2>8. CASE RecordStory(p)
    BY <2>8, StoryStep
  <2>9. CASE Review(p)
    BY <2>9, ReviewStep
  <2>10. CASE EpisodePassDies(p)
    BY <2>0, <2>10, OverStep DEF EpisodePassDies, PassIs
  <2> QED BY <1>2, <2>1, <2>2, <2>3, <2>4, <2>5, <2>6, <2>7, <2>8, <2>9, <2>10
<1>3. CASE UNCHANGED episodeVars
  <2>1. \A p \in EpisodePasses : PassSound(p)'
    BY <1>3, RestSound DEF PackageInv, episodeVars
  <2> QED BY <1>3, <2>1 DEF PackageInv, RowsSound, PassIs, IntegrationOwned, episodeVars
<1> QED BY <1>1, <1>2, <1>3 DEF EpisodeNext

\* Three different reels are three.
LEMMA ReelsCounted ==
  ASSUME NEW reels, DOMAIN reels = 1..3, \A i, j \in 1..3 : i # j => reels[i] # reels[j]
  PROVE  Cardinality(ToSet(reels)) = 3
<1>1. ToSet(reels) = {reels[1], reels[2]} \cup {reels[3]}
  BY DEF ToSet
<1>2. {reels[1], reels[2]} = {reels[1]} \cup {reels[2]}
  OBVIOUS
<1>3. IsFiniteSet({reels[1]}) /\ Cardinality({reels[1]}) = 1
  BY FS_Singleton
<1>4. reels[2] \notin {reels[1]} /\ reels[3] \notin {reels[1], reels[2]}
  OBVIOUS
<1>5. IsFiniteSet({reels[1], reels[2]}) /\ Cardinality({reels[1], reels[2]}) = 2
  BY <1>2, <1>3, <1>4, FS_AddElement
<1> QED BY <1>1, <1>4, <1>5, FS_AddElement

\* What the passes have recorded is all that a review relies on.
LEMMA ReviewedSound == PackageInv => ReviewedAsPackaged
<1> SUFFICES ASSUME PackageInv PROVE ReviewedAsPackaged
  OBVIOUS
<1>1. ASSUME NEW p \in EpisodePasses, PassIs(p, "reviewed")
      PROVE  LET m == memory[p]
                 has(sha) == \E r \in artifactRows : r.sha = sha
                 shown(content) == \E r \in artifactRows : r.sha = Media(content) /\ r.verified
             IN /\ \A i \in 1..4 : has(DocumentsOf(p, m.thumbnail)[i])
                /\ has(Sha("story", <<>>))
                /\ \E check \in Checks \ {"failed"} :
                     /\ has(VerdictSha(p, m.verdict, check))
                     /\ (check = "requires_human") = (m.verdict = "needs_human")
                /\ \A c \in {ComesOut(p, s) : s \in Stages} \cup {m.thumbnail} \cup ToSet(m.reels) :
                     shown(c)
                /\ Cardinality(ToSet(m.reels)) = 3
  <2>1. PassSound(p) /\ memory[p].at = "reviewed" /\ memory[p] \in MemoryRows
    BY <1>1 DEF PackageInv, PassIs
  <2>2. memory[p].documents = 4 /\ \A i \in 1..4 : Has(DocumentsOf(p, memory[p].thumbnail)[i])
    BY <2>1 DEF PassSound, Judged
  <2>3. Has(Sha("story", <<>>)) /\ Backed(p, memory[p].verdict)
    BY <2>1 DEF PassSound, Judged
  <2>4. PICK reels \in Seq(Contents) : reels = memory[p].reels
    <3> HIDE DEF Contents
    <3> QED BY <2>1 DEF MemoryRows
  <2>5. Len(reels) = 3 /\ \A i, j \in 1..3 : i # j => reels[i] # reels[j]
    BY <2>1, <2>4 DEF PassSound, Judged, Packaged
  <2>6. DOMAIN reels = 1..3
    <3> HIDE DEF Contents
    <3> QED BY <2>4, <2>5
  <2>7. Cardinality(ToSet(memory[p].reels)) = 3
    BY <2>4, <2>5, <2>6, ReelsCounted
  <2>8. \A c \in {ComesOut(p, s) : s \in Stages} \cup {memory[p].thumbnail} \cup ToSet(memory[p].reels) :
          Has(Media(c))
    <3>1. \A s \in Stages : Has(Media(ComesOut(p, s)))
      BY <2>1 DEF PassSound
    <3>2. Has(Media(memory[p].thumbnail))
      BY <2>1 DEF PassSound, Packaged
    <3>3. \A c \in ToSet(memory[p].reels) : Has(Media(c))
      BY <2>1 DEF PassSound, ToSet
    <3> QED BY <3>1, <3>2, <3>3
  <2>9. \A c : Has(Media(c)) => \E r \in artifactRows : r.sha = Media(c) /\ r.verified
    BY MediaKind DEF PackageInv, RowsSound, Has
  <2> QED BY <2>2, <2>3, <2>7, <2>8, <2>9 DEF Has, Backed
<1> QED BY <1>1 DEF ReviewedAsPackaged, PackageInv

\* The invariant says at least the types.
LEMMA EpisodeTyped == PackageInv => EpisodeTypeOK
<1> SUFFICES ASSUME PackageInv PROVE EpisodeTypeOK
  OBVIOUS
<1>1. ASSUME NEW p \in EpisodePasses
      PROVE  /\ memory[p].at \in EpisodePlaces
             /\ Len(memory[p].reels) <= 3 /\ memory[p].documents \in 0..4
             /\ memory[p].verdict \in {"none", "approved", "needs_human"}
  <2>1. PassSound(p) /\ memory[p] \in MemoryRows
    BY DEF PackageInv
  <2> HIDE DEF Contents, EpisodePlaces
  <2> QED BY <2>1 DEF PassSound, MemoryRows
<1> QED BY <1>1 DEF EpisodeTypeOK, PackageInv, RowsSound

\* Every variable of the package keeps its type, and a row is verified as a medium is.
THEOREM EpisodeTypes == EpisodeSpec => []EpisodeTypeOK
<1>1. EpisodeSpec => []PackageInv
  BY InitPackageInv, EpisodeStep, PTL DEF EpisodeSpec
<1> QED BY <1>1, EpisodeTyped, PTL

\* A release in review has a pass that recorded its manifests, its verdict and the story,
\* and every medium they bind, verified, with three different reels: a pass only adds rows,
\* and its own memory says which it has added by each place it comes to.  And a package has
\* an integrated segment only by the owner's order for this very run.
THEOREM PackageIsSound == EpisodeSpec => []PackageSound
<1>1. EpisodeSpec => []PackageInv
  BY InitPackageInv, EpisodeStep, PTL DEF EpisodeSpec
<1>2. PackageInv => PackageSound
  BY ReviewedSound DEF PackageInv, PackageSound
<1> QED BY <1>1, <1>2, PTL

-----------------------------------------------------------------------------
(* The stages of a pass and the files they share.                          *)

PassPlaces == {"idle", "ready", "running", "ended", "hashed", "verified", "checked", "over"}
PassRows == [at : PassPlaces, stage : 1..Len(StageOrder), nth : 1..MaxRenders, hash : Bytes]
ArtifactRows == [pass : Passes, stage : StageNames, sha : Bytes]

RowRendered(a) ==
  /\ a.sha.by = a.pass /\ a.sha.ended /\ a.sha.true /\ a.sha.stage = a.stage
  /\ a.sha.fits # "out"
Stored(p, stage) == file[stage] \in BoundTo(p, stage)

\* How far a pass has come.
Reached(p) == IF pass[p].at = "checked" THEN Len(StageOrder) ELSE pass[p].stage - 1

\* What holds of a pass at work that no stray write came between: the files of the stages
\* behind it are those it recorded, and that of its stage is its own.
Clean(p) ==
  LET w == pass[p] here == file[Stage(p)] IN
  /\ \A i \in 1..Reached(p) : Stored(p, StageOrder[i])
  /\ w.at \in {"running", "ended", "hashed", "verified"} =>
       /\ here.by = p /\ here.true /\ here.stage = Stage(p) /\ here.fits \in Lengths(Stage(p))
  /\ w.at = "running" => here.nth = w.nth
  /\ w.at \in {"ended", "hashed", "verified"} => here.ended
  /\ w.at \in {"hashed", "verified"} => w.hash = here
  /\ w.at = "verified" => w.hash.fits # "out"

InOrder == \A p, q \in Passes : q < p /\ pass[p].at # "idle" => pass[q].at = "over"
Fresh == \A p \in Passes : pass[p].at = "idle" => pass[p].stage = 1
ReviewedStored ==
  review # 0 /\ review \notin overlapped => \A i \in DOMAIN StageOrder : Stored(review, StageOrder[i])

MediaInv ==
  /\ motionEnabled \in BOOLEAN /\ targeted \in BOOLEAN
  /\ file \in [StageNames -> Bytes]
  /\ pass \in [Passes -> PassRows]
  /\ artifacts \subseteq ArtifactRows
  /\ review \in {0} \cup Passes /\ strays \in 0..MaxStrays /\ overlapped \subseteq Passes
  /\ InOrder /\ Fresh
  /\ review # 0 => Working = {}
  /\ \A p \in Working \ overlapped : Clean(p)
  /\ \A a \in artifacts : a.pass \notin overlapped => RowRendered(a)
  /\ ReviewedStored

USE MediaAssumption

\* A short sequence written out is one of its elements' set.
LEMMA Written ==
  ASSUME NEW S, NEW a \in S, NEW b \in S, NEW c \in S
  PROVE  <<>> \in Seq(S) /\ <<a>> \in Seq(S) /\ <<a, b>> \in Seq(S) /\ <<a, b, c>> \in Seq(S)
OBVIOUS

\* What stands where in two sequences put together.
LEMMA Joined ==
  ASSUME NEW S, NEW s \in Seq(S), NEW t \in Seq(S)
  PROVE  /\ s \o t \in Seq(S) /\ Len(s \o t) = Len(s) + Len(t)
         /\ \A i \in 1..Len(s) : (s \o t)[i] = s[i]
         /\ \A i \in 1..Len(t) : (s \o t)[Len(s) + i] = t[i]
OBVIOUS

\* The stages in their order, with the motion stage or without.
LEMMA OrderIs ==
  ASSUME motionEnabled \in BOOLEAN
  PROVE  /\ DOMAIN StageOrder = 1..Len(StageOrder)
         /\ StageOrder[1] = "audio" /\ StageOrder[2] = "visual"
         /\ motionEnabled => /\ Len(StageOrder) = 6 /\ StageOrder[3] = "motion"
                             /\ StageOrder[4] = "assembly" /\ StageOrder[5] = "reels"
                             /\ StageOrder[6] = "packaging"
         /\ ~motionEnabled => /\ Len(StageOrder) = 5 /\ StageOrder[3] = "assembly"
                              /\ StageOrder[4] = "reels" /\ StageOrder[5] = "packaging"
<1>0. \A s \in {"audio", "visual", "motion", "assembly", "reels", "packaging"} : s \in StageNames
  BY DEF StageNames
<1>1. PICK first \in Seq(StageNames) : first = <<"audio", "visual">>
  BY <1>0, Written
<1>2. PICK moves \in Seq(StageNames) : moves = IF motionEnabled THEN <<"motion">> ELSE <<>>
  BY <1>0, Written
<1>3. PICK last \in Seq(StageNames) : last = <<"assembly", "reels", "packaging">>
  BY <1>0, Written
<1>4. Len(first) = 2 /\ first[1] = "audio" /\ first[2] = "visual"
  BY <1>1
<1>5. Len(last) = 3 /\ last[1] = "assembly" /\ last[2] = "reels" /\ last[3] = "packaging"
  BY <1>3
<1>6. (motionEnabled => Len(moves) = 1 /\ moves[1] = "motion") /\ (~motionEnabled => Len(moves) = 0)
  BY <1>2
<1>7. StageOrder = (first \o moves) \o last \/ StageOrder = first \o (moves \o last)
  BY <1>1, <1>2, <1>3 DEF StageOrder
<1>8. PICK half \in Seq(StageNames) : half = first \o moves
  BY Joined
<1>9. PICK rest \in Seq(StageNames) : rest = moves \o last
  BY Joined
<1>10. CASE StageOrder = first \o rest
  <2>0. /\ Len(moves \o last) = Len(moves) + Len(last)
        /\ \A i \in 1..Len(moves) : (moves \o last)[i] = moves[i]
        /\ \A i \in 1..Len(last) : (moves \o last)[Len(moves) + i] = last[i]
    BY Joined
  <2>1. /\ Len(rest) = Len(moves) + 3 /\ \A i \in 1..Len(moves) : rest[i] = moves[i]
        /\ \A i \in 1..3 : rest[Len(moves) + i] = last[i]
    BY <1>5, <1>9, <2>0
  <2>2. /\ StageOrder \in Seq(StageNames) /\ Len(StageOrder) = 2 + Len(rest)
        /\ \A i \in 1..2 : StageOrder[i] = first[i]
        /\ \A i \in 1..Len(rest) : StageOrder[2 + i] = rest[i]
    <3>1. /\ first \o rest \in Seq(StageNames) /\ Len(first \o rest) = Len(first) + Len(rest)
          /\ \A i \in 1..Len(first) : (first \o rest)[i] = first[i]
          /\ \A i \in 1..Len(rest) : (first \o rest)[Len(first) + i] = rest[i]
      BY Joined
    <3> QED BY <1>4, <1>10, <3>1
  <2>3. DOMAIN StageOrder = 1..Len(StageOrder)
    BY <2>2
  <2>4. CASE motionEnabled
    <3>0. rest[1] = moves[1] /\ rest[1 + 1] = last[1] /\ rest[1 + 2] = last[2] /\ rest[1 + 3] = last[3]
      <4>1. Len(moves) = 1 /\ 1 \in 1..1 /\ 1 \in 1..3 /\ 2 \in 1..3 /\ 3 \in 1..3
        BY <1>6, <2>4
      <4>2. rest[1] = moves[1]
        BY <4>1, <2>1, Zenon
      <4>3. \A i \in 1..3 : rest[1 + i] = last[i]
        BY <4>1, <2>1, Zenon
      <4> QED BY <4>1, <4>2, <4>3, Zenon
    <3>1. Len(rest) = 4 /\ rest[1] = "motion" /\ rest[2] = "assembly" /\ rest[3] = "reels"
          /\ rest[4] = "packaging"
      <4>1. 1 + 1 = 2 /\ 1 + 2 = 3 /\ 1 + 3 = 4
        OBVIOUS
      <4>2. rest[2] = last[1] /\ rest[3] = last[2] /\ rest[4] = last[3]
        BY <3>0, <4>1, Zenon
      <4>4. Len(moves) = 1
        BY <1>6, <2>4, Zenon
      <4>3. Len(rest) = 4
        BY <4>4, <2>1
      <4> QED BY <1>5, <1>6, <2>4, <3>0, <4>2, <4>3, Zenon
    <3> QED BY <1>4, <2>2, <2>3, <2>4, <3>1
  <2>5. CASE ~motionEnabled
    <3>1. Len(rest) = 3 /\ rest[1] = "assembly" /\ rest[2] = "reels" /\ rest[3] = "packaging"
      BY <1>5, <1>6, <2>1, <2>5
    <3> QED BY <1>4, <2>2, <2>3, <2>5, <3>1
  <2> QED BY <2>4, <2>5
<1>11. CASE StageOrder = half \o last
  <2>0. /\ Len(first \o moves) = Len(first) + Len(moves)
        /\ \A i \in 1..Len(first) : (first \o moves)[i] = first[i]
        /\ \A i \in 1..Len(moves) : (first \o moves)[Len(first) + i] = moves[i]
    BY Joined
  <2>1. /\ Len(half) = 2 + Len(moves) /\ \A i \in 1..2 : half[i] = first[i]
        /\ \A i \in 1..Len(moves) : half[2 + i] = moves[i]
    BY <1>4, <1>8, <2>0
  <2>2. /\ StageOrder \in Seq(StageNames) /\ Len(StageOrder) = Len(half) + 3
        /\ \A i \in 1..Len(half) : StageOrder[i] = half[i]
        /\ \A i \in 1..3 : StageOrder[Len(half) + i] = last[i]
    <3>1. /\ half \o last \in Seq(StageNames) /\ Len(half \o last) = Len(half) + Len(last)
          /\ \A i \in 1..Len(half) : (half \o last)[i] = half[i]
          /\ \A i \in 1..Len(last) : (half \o last)[Len(half) + i] = last[i]
      BY Joined
    <3> QED BY <1>5, <1>11, <3>1
  <2>3. DOMAIN StageOrder = 1..Len(StageOrder)
    BY <2>2
  <2>4. CASE motionEnabled
    <3>0. half[2 + 1] = moves[1]
      <4>1. Len(moves) = 1 /\ 1 \in 1..1
        BY <1>6, <2>4
      <4> QED BY <4>1, <2>1, Zenon
    <3>1. Len(half) = 3 /\ half[1] = "audio" /\ half[2] = "visual" /\ half[3] = "motion"
      <4>1. 2 + 1 = 3 /\ 1 \in 1..2 /\ 2 \in 1..2
        OBVIOUS
      <4>2. half[3] = moves[1] /\ half[1] = first[1] /\ half[2] = first[2]
        BY <2>1, <3>0, <4>1, Zenon
      <4>4. Len(moves) = 1
        BY <1>6, <2>4, Zenon
      <4>3. Len(half) = 3
        BY <4>4, <2>1
      <4> QED BY <1>4, <1>6, <2>4, <4>2, <4>3, Zenon
    <3> QED BY <1>5, <2>2, <2>3, <2>4, <3>1
  <2>5. CASE ~motionEnabled
    <3>1. Len(half) = 2 /\ half[1] = "audio" /\ half[2] = "visual"
      BY <1>4, <1>6, <2>1, <2>5
    <3> QED BY <1>5, <2>2, <2>3, <2>5, <3>1
  <2> QED BY <2>4, <2>5
<1> QED BY <1>7, <1>8, <1>9, <1>10, <1>11

\* The stages are different, and the sources of each come before it.
LEMMA OrderFacts ==
  ASSUME motionEnabled \in BOOLEAN
  PROVE  /\ Len(StageOrder) \in 5..6 /\ DOMAIN StageOrder = 1..Len(StageOrder)
         /\ \A i \in 1..Len(StageOrder) : StageOrder[i] \in StageNames
         /\ \A i, j \in 1..Len(StageOrder) : i # j => StageOrder[i] # StageOrder[j]
         /\ \A i \in 1..Len(StageOrder) : \A s \in Sources(StageOrder[i]) :
              \E j \in 1..(i - 1) : StageOrder[j] = s
<1>1. CASE motionEnabled
  <2>1. Len(StageOrder) = 6
    BY <1>1, OrderIs
  <2>2. \A i \in 1..6 : StageOrder[i] \in StageNames
    BY <1>1, OrderIs DEF StageNames
  <2>3. \A i, j \in 1..6 : i # j => StageOrder[i] # StageOrder[j]
    BY <1>1, OrderIs
  <2>4. \A i \in 1..6 : \A s \in Sources(StageOrder[i]) : \E j \in 1..(i - 1) : StageOrder[j] = s
    BY <1>1, OrderIs, SMTT(30) DEF Sources
  <2> QED BY <2>1, <2>2, <2>3, <2>4, OrderIs
<1>2. CASE ~motionEnabled
  <2>1. Len(StageOrder) = 5
    BY <1>2, OrderIs
  <2>2. \A i \in 1..5 : StageOrder[i] \in StageNames
    BY <1>2, OrderIs DEF StageNames
  <2>3. \A i, j \in 1..5 : i # j => StageOrder[i] # StageOrder[j]
    BY <1>2, OrderIs
  <2>4. \A i \in 1..5 : \A s \in Sources(StageOrder[i]) : \E j \in 1..(i - 1) : StageOrder[j] = s
    BY <1>2, OrderIs DEF Sources
  <2> QED BY <2>1, <2>2, <2>3, <2>4, OrderIs
<1> QED BY <1>1, <1>2

\* A pass at its beginning or end keeps a well-formed row.
LEMMA PassOverTyped ==
  ASSUME motionEnabled \in BOOLEAN, NEW at \in PassPlaces
  PROVE  PassOver(at) \in PassRows /\ NoBytes \in Bytes
<1>1. NoBytes \in Bytes
  BY DEF NoBytes, Bytes, StageNames
<1>2. 1 \in 1..Len(StageOrder) /\ 1 \in 1..MaxRenders
  BY OrderFacts
<1> HIDE DEF Bytes
<1> QED BY <1>1, <1>2 DEF PassOver, PassRows

\* No pass has begun at first.
LEMMA InitMediaInv == MediaInit => MediaInv
<1> SUFFICES ASSUME MediaInit PROVE MediaInv
  OBVIOUS
<1>1. PICK w \in PassRows : w = PassOver("idle")
  BY PassOverTyped DEF MediaInit, PassPlaces
<1>2. w.at = "idle" /\ w.stage = 1
  BY <1>1 DEF PassOver
<1>3. pass \in [Passes -> PassRows] /\ \A p \in Passes : pass[p].at = "idle" /\ pass[p].stage = 1
  BY <1>1, <1>2 DEF MediaInit
<1>4. file \in [StageNames -> Bytes] /\ motionEnabled \in BOOLEAN
  BY PassOverTyped DEF MediaInit, PassPlaces
<1> QED BY <1>3, <1>4 DEF MediaInit, MediaInv, InOrder, Fresh, Working, ReviewedStored

\* Passes follow each other.
LEMMA OneWorks ==
  ASSUME MediaInv, NEW p \in Passes,
         p \in Working \/ (pass[p].at = "idle" /\ \A q \in 1..(p - 1) : pass[q].at = "over"),
         NEW w, w.at # "idle", pass' = [pass EXCEPT ![p] = w]
  PROVE  /\ InOrder' /\ Working' \subseteq {p}
         /\ \A q \in Passes \ {p} : q \notin Working
<1>1. pass'[p] = w /\ \A q \in Passes \ {p} : pass'[q] = pass[q]
  BY DEF MediaInv
<1>2. \A q \in Passes : q < p => pass[q].at = "over"
  BY DEF MediaInv, InOrder, Working, Passes
<1>3. \A q \in Passes : p < q => pass[q].at = "idle"
  BY DEF MediaInv, InOrder, Working, Passes
<1>4. \A q \in Passes \ {p} : q < p \/ p < q
  BY DEF Passes
<1>5. InOrder'
  BY <1>1, <1>2, <1>3, <1>4 DEF InOrder, Passes, MediaInv
<1> QED BY <1>1, <1>2, <1>3, <1>4, <1>5 DEF Working

\* What a step of the pass at work has to show.
LEMMA WorkMoves ==
  ASSUME MediaInv, NEW p \in Passes, NEW w \in PassRows, w.at # "idle",
         p \in Working \/ (pass[p].at = "idle" /\ \A q \in 1..(p - 1) : pass[q].at = "over"),
         pass' = [pass EXCEPT ![p] = w], review' = 0,
         UNCHANGED <<motionEnabled, targeted, strays, overlapped>>,
         file' \in [StageNames -> Bytes], artifacts' \subseteq ArtifactRows,
         w.at # "over" /\ p \notin overlapped => Clean(p)',
         \A a \in artifacts' \ artifacts : a.pass \notin overlapped => RowRendered(a)
  PROVE  MediaInv'
<1>1. PassRows' = PassRows
  BY DEF PassRows, StageOrder
<1>2. pass' \in [Passes -> PassRows]' /\ pass'[p] = w
  BY <1>1 DEF MediaInv
<1>3. InOrder' /\ Working' \subseteq {p}
  BY OneWorks
<1>4. Fresh'
  BY <1>2 DEF MediaInv, Fresh
<1>5. \A q \in Working' \ overlapped' : Clean(q)'
  BY <1>2, <1>3 DEF Working
<1>6. \A a \in artifacts' : a.pass \notin overlapped' => RowRendered(a)'
  BY DEF MediaInv, RowRendered
<1>7. ReviewedStored'
  BY DEF ReviewedStored
<1> QED BY <1>2, <1>3, <1>4, <1>5, <1>6, <1>7 DEF MediaInv, ArtifactRows

\* A pass that ends leaves what it recorded.
LEMMA EndStep ==
  ASSUME MediaInv, NEW p \in Working, EndPass(p),
         UNCHANGED <<motionEnabled, targeted, file, artifacts, review, strays, overlapped>>
  PROVE  MediaInv'
<1>1. PICK w \in PassRows : w = PassOver("over")
  BY PassOverTyped DEF MediaInv, PassPlaces
<1>2. w.at = "over"
  BY <1>1 DEF PassOver
<1>3. p \in Passes /\ review' = 0
  BY DEF Working, MediaInv
<1> QED BY <1>1, <1>2, <1>3, WorkMoves DEF EndPass, MediaInv

\* A pass at work: its row, its stage, and that none of the stages behind it is that one.
LEMMA AtWork ==
  ASSUME MediaInv, NEW p \in Passes
  PROVE  /\ pass[p] \in PassRows /\ pass[p].stage \in 1..Len(StageOrder) /\ pass[p].nth \in 1..MaxRenders
         /\ pass[p].hash \in Bytes /\ Stage(p) \in StageNames
         /\ \A i \in 1..(pass[p].stage - 1) :
              i \in 1..Len(StageOrder) /\ StageOrder[i] # Stage(p) /\ StageOrder[i] \in StageNames
<1>1. pass[p] \in PassRows /\ motionEnabled \in BOOLEAN
  BY DEF MediaInv
<1>2. pass[p].stage \in 1..Len(StageOrder) /\ pass[p].nth \in 1..MaxRenders /\ pass[p].hash \in Bytes
  <2> HIDE DEF Bytes
  <2> QED BY <1>1 DEF PassRows
<1>3. Len(StageOrder) \in 5..6
  BY <1>1, OrderFacts
<1>4. \A i \in 1..(pass[p].stage - 1) : i \in 1..Len(StageOrder) /\ i # pass[p].stage
  BY <1>2, <1>3
<1> QED BY <1>1, <1>2, <1>4, OrderFacts DEF Stage

\* A step of a pass that changes neither files nor rows, nor how far it has come.
LEMMA StaysClean ==
  ASSUME MediaInv, NEW p \in Working, NEW w \in PassRows, w.at \notin {"idle", "over", "checked"},
         pass' = [pass EXCEPT ![p] = w], pass[p].at # "checked", w.stage = pass[p].stage,
         UNCHANGED <<motionEnabled, targeted, file, artifacts, review, strays, overlapped>>,
         Clean(p) =>
           /\ w.at \in {"running", "ended", "hashed", "verified"} =>
                /\ file[Stage(p)].by = p /\ file[Stage(p)].true /\ file[Stage(p)].stage = Stage(p)
                /\ file[Stage(p)].fits \in Lengths(Stage(p))
           /\ w.at = "running" => file[Stage(p)].nth = w.nth
           /\ w.at \in {"ended", "hashed", "verified"} => file[Stage(p)].ended
           /\ w.at \in {"hashed", "verified"} => w.hash = file[Stage(p)]
           /\ w.at = "verified" => w.hash.fits # "out"
  PROVE  MediaInv'
<1>1. p \in Passes /\ pass'[p] = w /\ StageOrder' = StageOrder
  BY DEF Working, MediaInv, StageOrder
<1>2. Stage(p)' = Stage(p) /\ Reached(p)' = Reached(p)
  BY <1>1 DEF Stage, Reached
<1>7. Lengths(Stage(p))' = Lengths(Stage(p))
  BY <1>2 DEF Lengths
<1>3. \A i \in 1..Reached(p) : Stored(p, StageOrder[i]) => Stored(p, StageOrder[i])'
  BY <1>1 DEF Stored, BoundTo
<1>4. p \notin overlapped => Clean(p)'
  <2> SUFFICES ASSUME p \notin overlapped PROVE Clean(p)'
    OBVIOUS
  <2>1. Clean(p)
    BY DEF MediaInv
  <2>2. \A i \in 1..Reached(p)' : Stored(p, StageOrder[i])'
    BY <1>1, <1>2, <1>3, <2>1 DEF Clean
  <2> QED BY <1>1, <1>2, <1>7, <2>1, <2>2 DEF Clean
<1>5. file' \in [StageNames -> Bytes] /\ artifacts' \subseteq ArtifactRows /\ artifacts' \ artifacts = {}
  BY DEF MediaInv
<1>6. review' = 0
  BY DEF MediaInv
<1> QED BY <1>1, <1>4, <1>5, <1>6, WorkMoves

\* A pass begins with nothing behind it.
LEMMA BeginStep ==
  ASSUME MediaInv, NEW p \in Passes, BeginPass(p)
  PROVE  MediaInv'
<1>1. PICK w : w = [pass[p] EXCEPT !.at = "ready"]
  OBVIOUS
<1>2. /\ pass[p].at = "idle" /\ pass' = [pass EXCEPT ![p] = w] /\ review' = 0
      /\ \A q \in 1..(p - 1) : pass[q].at = "over"
      /\ UNCHANGED <<motionEnabled, targeted, file, artifacts, strays, overlapped>>
  BY <1>1 DEF BeginPass, PassAt, MovePass
<1>3. pass[p] \in PassRows
  BY DEF MediaInv
<1>4. w \in PassRows /\ w.at = "ready" /\ w.stage = pass[p].stage
  <2>1. "ready" \in PassPlaces
    BY DEF PassPlaces
  <2> HIDE DEF PassPlaces, Bytes
  <2> QED BY <1>1, <1>3, <2>1 DEF PassRows
<1>5. pass[p].stage = 1 /\ pass'[p] = w
  BY <1>2, <1>3 DEF MediaInv, Fresh
<1>6. Reached(p)' = 0
  BY <1>4, <1>5 DEF Reached
<1>7. Clean(p)'
  BY <1>4, <1>5, <1>6 DEF Clean
<1>8. file' \in [StageNames -> Bytes] /\ artifacts' \subseteq ArtifactRows /\ artifacts' \ artifacts = {}
  BY <1>2 DEF MediaInv
<1> QED BY <1>2, <1>4, <1>7, <1>8, WorkMoves

\* The command opens its output: the sources it reads by path are those the pass recorded.
LEMMA StartStep ==
  ASSUME MediaInv, NEW p \in Working, StartCommand(p)
  PROVE  MediaInv'
<1>1. PICK fits \in Lengths(Stage(p)) : file' = [file EXCEPT ![Path(p)] = Output(p, fits)]
  BY DEF StartCommand
<1>2. PICK w, stage : w = [pass[p] EXCEPT !.at = "running"] /\ stage = Stage(p)
  OBVIOUS
<1>3. PICK bytes : bytes = Output(p, fits)
  OBVIOUS
<1>4. /\ p \in Passes /\ pass[p].at = "ready" /\ pass' = [pass EXCEPT ![p] = w]
      /\ file' = [file EXCEPT ![stage] = bytes]
      /\ UNCHANGED <<motionEnabled, targeted, artifacts, review, strays, overlapped>>
  BY <1>1, <1>2, <1>3 DEF StartCommand, PassAt, MovePass, Path, PathOf, Working
<1>5. /\ pass[p] \in PassRows /\ pass[p].stage \in 1..Len(StageOrder) /\ pass[p].nth \in 1..MaxRenders
      /\ stage \in StageNames
      /\ \A i \in 1..(pass[p].stage - 1) :
           i \in 1..Len(StageOrder) /\ StageOrder[i] # stage /\ StageOrder[i] \in StageNames
  BY <1>2, <1>4, AtWork
<1>6. fits \in {"in", "out", "unknown"}
  BY <1>1 DEF Lengths
<1>7. PICK true \in BOOLEAN : true = (\A s \in Sources(stage) : file[PathOf(s)] \in BoundTo(p, s))
  OBVIOUS
<1>8. bytes = [stage |-> stage, by |-> p, nth |-> pass[p].nth, ended |-> FALSE, fits |-> fits,
               true |-> true]
  BY <1>2, <1>3, <1>7 DEF Output
<1>9. bytes \in Bytes /\ bytes.stage = stage /\ bytes.by = p /\ bytes.nth = pass[p].nth
      /\ bytes.true = true /\ bytes.fits = fits
  <2>1. p \in {0} \cup Passes /\ pass[p].nth \in 0..MaxRenders
    BY <1>4, <1>5
  <2> QED BY <1>5, <1>6, <1>8, <2>1 DEF Bytes
<1>10. /\ w \in PassRows /\ w.at = "running" /\ w.stage = pass[p].stage /\ w.nth = pass[p].nth
  <2>1. "running" \in PassPlaces
    BY DEF PassPlaces
  <2> HIDE DEF PassPlaces, Bytes
  <2> QED BY <1>2, <1>5, <2>1 DEF PassRows
<1>11. /\ file' \in [StageNames -> Bytes] /\ file'[stage] = bytes
       /\ \A s \in StageNames \ {stage} : file'[s] = file[s]
  <2> HIDE DEF Bytes
  <2> QED BY <1>4, <1>5, <1>9 DEF MediaInv
<1>12. pass'[p] = w /\ StageOrder' = StageOrder
  BY <1>4 DEF MediaInv, StageOrder
<1>13. p \notin overlapped => Clean(p)'
  <2> SUFFICES ASSUME p \notin overlapped PROVE Clean(p)'
    OBVIOUS
  <2>1. \A i \in 1..(pass[p].stage - 1) : Stored(p, StageOrder[i])
    BY <1>4 DEF MediaInv, Clean, Reached
  <2>2. Stage(p)' = stage
    BY <1>2, <1>10, <1>12 DEF Stage
  <2>3. Reached(p)' = pass[p].stage - 1
    BY <1>10, <1>12 DEF Reached
  <2>4. \A i \in 1..(pass[p].stage - 1) : Stored(p, StageOrder[i])'
    BY <1>4, <1>5, <1>11, <1>12, <2>1 DEF Stored, BoundTo
  <2>5. true
    <3>1. \A s \in Sources(stage) : \E j \in 1..(pass[p].stage - 1) : StageOrder[j] = s
      BY <1>2, <1>5, OrderFacts DEF Stage, MediaInv
    <3>2. \A s \in Sources(stage) : Stored(p, s)
      BY <2>1, <3>1
    <3> QED BY <1>7, <3>2 DEF Stored, PathOf
  <2>6. /\ file'[stage].by = p /\ file'[stage].true /\ file'[stage].stage = stage
        /\ file'[stage].nth = w.nth /\ file'[stage].fits \in Lengths(stage)'
    <3>1. Lengths(stage)' = Lengths(stage)
      BY <1>4 DEF Lengths
    <3> QED BY <1>1, <1>2, <1>9, <1>10, <1>11, <2>5, <3>1
  <2>7. \A i \in 1..Reached(p)' : Stored(p, StageOrder[i])'
    BY <2>3, <2>4
  <2> QED BY <1>10, <1>12, <2>2, <2>6, <2>7 DEF Clean
<1>14. artifacts' \subseteq ArtifactRows /\ artifacts' \ artifacts = {} /\ review' = 0
  BY <1>4 DEF MediaInv
<1> QED BY <1>4, <1>10, <1>11, <1>13, <1>14, WorkMoves

\* A command that ends well closes the very file it opened.
LEMMA SucceedStep ==
  ASSUME MediaInv, NEW p \in Working, CommandSucceeds(p)
  PROVE  MediaInv'
<1>1. PICK w, stage : w = [pass[p] EXCEPT !.at = "ended"] /\ stage = Stage(p)
  OBVIOUS
<1>2. PICK old, bytes : old = file[stage] /\ bytes = Closed(old, p, pass[p].nth)
  OBVIOUS
<1>3. /\ p \in Passes /\ pass[p].at = "running" /\ pass' = [pass EXCEPT ![p] = w]
      /\ UNCHANGED <<motionEnabled, targeted, artifacts, review, strays, overlapped>>
  BY <1>1 DEF CommandSucceeds, PassAt, MovePass, Working
<1>4. /\ pass[p] \in PassRows /\ pass[p].stage \in 1..Len(StageOrder)
      /\ stage \in StageNames
      /\ \A i \in 1..(pass[p].stage - 1) :
           i \in 1..Len(StageOrder) /\ StageOrder[i] # stage /\ StageOrder[i] \in StageNames
  BY <1>1, <1>3, AtWork
<1>5. file' = [file EXCEPT ![stage] = Closed(file[stage], p, pass[p].nth)]
  BY <1>1, <1>4 DEF CommandSucceeds, Path, PathOf, MediaInv
<1>6. old \in Bytes
  BY <1>2, <1>4 DEF MediaInv
<1>7. /\ bytes \in Bytes
      /\ old.by = p /\ old.nth = pass[p].nth =>
           /\ bytes.by = p /\ bytes.ended /\ bytes.true = old.true /\ bytes.stage = old.stage
           /\ bytes.fits = old.fits
  <2>1. CASE old.by = p /\ old.nth = pass[p].nth
    <3>1. bytes = [old EXCEPT !.ended = TRUE]
      BY <1>2, <2>1 DEF Closed
    <3> QED BY <1>6, <2>1, <3>1 DEF Bytes
  <2>2. CASE ~(old.by = p /\ old.nth = pass[p].nth)
    <3>1. bytes = [old EXCEPT !.ended = FALSE, !.by = 0]
      BY <1>2, <2>2 DEF Closed
    <3> QED BY <1>6, <2>2, <3>1 DEF Bytes
  <2> QED BY <2>1, <2>2
<1>8. w \in PassRows /\ w.at = "ended" /\ w.stage = pass[p].stage
  <2>1. "ended" \in PassPlaces
    BY DEF PassPlaces
  <2> HIDE DEF PassPlaces, Bytes
  <2> QED BY <1>1, <1>4, <2>1 DEF PassRows
<1>9. /\ file' \in [StageNames -> Bytes] /\ file'[stage] = bytes
      /\ \A s \in StageNames \ {stage} : file'[s] = file[s]
  <2> HIDE DEF Bytes
  <2> QED BY <1>2, <1>4, <1>5, <1>7 DEF MediaInv
<1>10. pass'[p] = w /\ StageOrder' = StageOrder
  BY <1>3 DEF MediaInv, StageOrder
<1>11. p \notin overlapped => Clean(p)'
  <2> SUFFICES ASSUME p \notin overlapped PROVE Clean(p)'
    OBVIOUS
  <2>1. Clean(p)
    BY DEF MediaInv
  <2>2. Stage(p)' = stage /\ Reached(p)' = pass[p].stage - 1 /\ Lengths(stage)' = Lengths(stage)
    BY <1>1, <1>3, <1>8, <1>10 DEF Stage, Reached, Lengths
  <2>3. \A i \in 1..(pass[p].stage - 1) : Stored(p, StageOrder[i])
    BY <1>3, <2>1 DEF Clean, Reached
  <2>4. \A i \in 1..Reached(p)' : Stored(p, StageOrder[i])'
    BY <1>3, <1>4, <1>9, <1>10, <2>2, <2>3 DEF Stored, BoundTo
  <2>5. old.by = p /\ old.nth = pass[p].nth /\ old.true /\ old.stage = stage /\ old.fits \in Lengths(stage)
    BY <1>1, <1>2, <1>3, <2>1 DEF Clean
  <2>6. /\ bytes.by = p /\ bytes.true /\ bytes.stage = stage /\ bytes.fits \in Lengths(stage)
        /\ bytes.ended
    BY <1>7, <2>5
  <2> QED BY <1>8, <1>9, <1>10, <2>2, <2>4, <2>6 DEF Clean
<1>12. artifacts' \subseteq ArtifactRows /\ artifacts' \ artifacts = {} /\ review' = 0
  BY <1>3 DEF MediaInv
<1> QED BY <1>3, <1>8, <1>9, <1>11, <1>12, WorkMoves

\* The hash is of the bytes the command left.
LEMMA HashStep ==
  ASSUME MediaInv, NEW p \in Working, HashOutput(p)
  PROVE  MediaInv'
<1>1. PICK hash : hash = file[Stage(p)]
  OBVIOUS
<1>2. PICK w : w = [pass[p] EXCEPT !.at = "hashed", !.hash = hash]
  OBVIOUS
<1>3. /\ p \in Passes /\ pass[p].at = "ended" /\ pass' = [pass EXCEPT ![p] = w]
      /\ UNCHANGED <<motionEnabled, targeted, file, artifacts, review, strays, overlapped>>
  BY <1>1, <1>2 DEF HashOutput, PassAt, Working, Path, PathOf, MediaInv
<1>4. pass[p] \in PassRows /\ hash \in Bytes
  BY <1>1, <1>3, AtWork DEF MediaInv
<1>5. w \in PassRows /\ w.at = "hashed" /\ w.stage = pass[p].stage /\ w.hash = hash
  <2>1. "hashed" \in PassPlaces
    BY DEF PassPlaces
  <2> HIDE DEF PassPlaces, Bytes
  <2> QED BY <1>2, <1>4, <2>1 DEF PassRows
<1> QED BY <1>1, <1>3, <1>5, StaysClean DEF Clean

\* An output is verified only when it is as long as it must be.
LEMMA VerifyStep ==
  ASSUME MediaInv, NEW p \in Working, NEW stages, Verified(p, stages),
         \/ stages \subseteq {"visual", "motion", "packaging"}
         \/ file[Path(p)].fits # "out"
  PROVE  MediaInv'
<1>1. PICK w : w = [pass[p] EXCEPT !.at = "verified"]
  OBVIOUS
<1>2. /\ p \in Passes /\ pass[p].at = "hashed" /\ pass' = [pass EXCEPT ![p] = w]
      /\ UNCHANGED <<motionEnabled, targeted, file, artifacts, review, strays, overlapped>>
      /\ Stage(p) \in stages
  BY <1>1 DEF Verified, PassAt, MovePass, Working
<1>3. pass[p] \in PassRows
  BY <1>2, AtWork
<1>4. w \in PassRows /\ w.at = "verified" /\ w.stage = pass[p].stage /\ w.hash = pass[p].hash
  <2>1. "verified" \in PassPlaces
    BY DEF PassPlaces
  <2> HIDE DEF PassPlaces, Bytes
  <2> QED BY <1>1, <1>3, <2>1 DEF PassRows
<1>5. file[Stage(p)].fits \in Lengths(Stage(p)) => file[Stage(p)].fits # "out"
  <2>1. CASE file[Path(p)].fits # "out"
    BY <2>1 DEF Path, PathOf
  <2>2. CASE stages \subseteq {"visual", "motion", "packaging"}
    <3>1. Stage(p) \notin {"assembly", "reels"} /\ Stage(p) # "audio"
      BY <1>2, <2>2
    <3>2. Lengths(Stage(p)) = {"in"}
      BY <3>1 DEF Lengths
    <3> QED BY <3>2
  <2> QED BY <2>1, <2>2
<1>6. Clean(p) => /\ file[Stage(p)].by = p /\ file[Stage(p)].true /\ file[Stage(p)].stage = Stage(p)
                  /\ file[Stage(p)].fits \in Lengths(Stage(p)) /\ file[Stage(p)].ended
                  /\ w.hash = file[Stage(p)] /\ w.hash.fits # "out"
  BY <1>2, <1>4, <1>5 DEF Clean
<1> QED BY <1>2, <1>4, <1>6, StaysClean

\* A narration that is rendered again starts its stage anew.
LEMMA RecalibrateStep ==
  ASSUME MediaInv, NEW p \in Working, Recalibrate(p)
  PROVE  MediaInv'
<1>1. PICK w : w = [pass[p] EXCEPT !.at = "ready", !.nth = pass[p].nth + 1]
  OBVIOUS
<1>2. pass[p] \in PassRows /\ pass[p].nth \in 1..MaxRenders /\ pass[p].nth < MaxRenders
      /\ p \in Passes /\ pass[p].at = "hashed"
  BY AtWork DEF Recalibrate, Working, PassAt
<1>3. /\ pass' = [pass EXCEPT ![p] = w]
      /\ UNCHANGED <<motionEnabled, targeted, file, artifacts, review, strays, overlapped>>
  BY <1>1, <1>2 DEF Recalibrate, MediaInv
<1>4. w \in PassRows /\ w.at = "ready" /\ w.stage = pass[p].stage
  <2>1. "ready" \in PassPlaces /\ pass[p].nth + 1 \in 1..MaxRenders
    BY <1>2 DEF PassPlaces
  <2> HIDE DEF PassPlaces, Bytes
  <2> QED BY <1>1, <1>2, <2>1 DEF PassRows
<1> QED BY <1>2, <1>3, <1>4, StaysClean

\* What is recorded is what was hashed, so the file of the stage is the recorded one.
LEMMA RecordStep ==
  ASSUME MediaInv, NEW p \in Working, RecordOutput(p)
  PROVE  MediaInv'
<1>1. PICK stage, n : stage = Stage(p) /\ n = pass[p].stage
  OBVIOUS
<1>2. PICK a : a = [pass |-> p, stage |-> stage, sha |-> pass[p].hash]
  OBVIOUS
<1>3. PICK w : w = IF n = Len(StageOrder) THEN [pass[p] EXCEPT !.at = "checked"]
                   ELSE [pass[p] EXCEPT !.at = "ready", !.stage = n + 1, !.nth = 1, !.hash = NoBytes]
  OBVIOUS
<1>4. /\ p \in Passes /\ pass[p].at = "verified" /\ artifacts' = artifacts \cup {a}
      /\ UNCHANGED <<motionEnabled, targeted, file, review, strays, overlapped>>
  BY <1>1, <1>2 DEF RecordOutput, PassAt, Working
<1>5. pass' = [pass EXCEPT ![p] = w]
  BY <1>1, <1>3, <1>4 DEF RecordOutput, MediaInv
<1>6. /\ pass[p] \in PassRows /\ n \in 1..Len(StageOrder) /\ stage \in StageNames
      /\ pass[p].hash \in Bytes /\ Len(StageOrder) \in 5..6 /\ NoBytes \in Bytes
  BY <1>1, <1>4, AtWork, OrderFacts, PassOverTyped DEF MediaInv, PassPlaces
<1>7. a.pass = p /\ a.stage = stage /\ a.sha = pass[p].hash /\ a \in ArtifactRows
  <2> HIDE DEF Bytes, StageNames
  <2> QED BY <1>2, <1>4, <1>6 DEF ArtifactRows
<1>8. /\ w \in PassRows /\ w.at \in {"ready", "checked"}
      /\ w.at = "checked" => n = Len(StageOrder)
      /\ w.at = "ready" => w.stage = n + 1
  <2>1. CASE n = Len(StageOrder)
    <3>1. "checked" \in PassPlaces /\ w = [pass[p] EXCEPT !.at = "checked"]
      BY <1>3, <2>1 DEF PassPlaces
    <3> HIDE DEF PassPlaces, Bytes
    <3> QED BY <1>6, <2>1, <3>1 DEF PassRows
  <2>2. CASE n # Len(StageOrder)
    <3>1. /\ "ready" \in PassPlaces /\ n + 1 \in 1..Len(StageOrder) /\ 1 \in 1..MaxRenders
          /\ w = [pass[p] EXCEPT !.at = "ready", !.stage = n + 1, !.nth = 1, !.hash = NoBytes]
      BY <1>3, <1>6, <2>2 DEF PassPlaces
    <3> HIDE DEF PassPlaces, Bytes
    <3> QED BY <1>6, <2>2, <3>1 DEF PassRows
  <2> QED BY <2>1, <2>2
<1>9. pass'[p] = w /\ StageOrder' = StageOrder
  BY <1>4, <1>5 DEF MediaInv, StageOrder
<1>10. Reached(p)' = n
  BY <1>6, <1>8, <1>9 DEF Reached
<1>11. ASSUME p \notin overlapped
       PROVE  Clean(p)' /\ RowRendered(a)
  <2>1. Clean(p)
    BY <1>11 DEF MediaInv
  <2>2. \A i \in 1..(n - 1) : Stored(p, StageOrder[i])
    BY <1>1, <1>4, <2>1 DEF Clean, Reached
  <2>3. pass[p].hash = file[stage] /\ pass[p].hash.fits # "out"
        /\ file[stage].by = p /\ file[stage].true /\ file[stage].stage = stage /\ file[stage].ended
    BY <1>1, <1>4, <2>1 DEF Clean
  <2>4. Stored(p, stage)'
    BY <1>4, <1>7, <2>3 DEF Stored, BoundTo
  <2>5. \A s : Stored(p, s) => Stored(p, s)'
    BY <1>4 DEF Stored, BoundTo
  <2>6. \A i \in 1..n : Stored(p, StageOrder[i])'
    <3> SUFFICES ASSUME NEW i \in 1..n PROVE Stored(p, StageOrder[i])'
      OBVIOUS
    <3>1. CASE i = n
      BY <1>1, <1>9, <2>4, <3>1 DEF Stage
    <3>2. CASE i # n
      <4>1. i \in 1..(n - 1)
        BY <1>6, <3>2
      <4> QED BY <1>9, <2>2, <2>5, <4>1
    <3> QED BY <3>1, <3>2
  <2> QED BY <1>7, <1>8, <1>9, <1>10, <2>3, <2>6 DEF Clean, RowRendered
<1>12. \A b \in artifacts' \ artifacts : b = a
  BY <1>4
<1>13. /\ file' \in [StageNames -> Bytes] /\ artifacts' \subseteq ArtifactRows /\ review' = 0
       /\ w.at # "idle"
  BY <1>4, <1>7, <1>8 DEF MediaInv
<1> QED BY <1>4, <1>5, <1>7, <1>8, <1>11, <1>12, <1>13, WorkMoves

\* A pass that comes to review has every stage recorded and its files as they were.
LEMMA FinishStep ==
  ASSUME MediaInv, NEW p \in Working, FinishPass(p)
  PROVE  MediaInv'
<1>1. PICK w \in PassRows : w = PassOver("over")
  BY PassOverTyped DEF MediaInv, PassPlaces
<1>2. w.at = "over"
  BY <1>1 DEF PassOver
<1>3. /\ p \in Passes /\ pass[p].at = "checked" /\ pass' = [pass EXCEPT ![p] = w]
      /\ review' \in {review, p} /\ review = 0
      /\ UNCHANGED <<motionEnabled, targeted, file, artifacts, strays, overlapped>>
  BY <1>1 DEF FinishPass, PassAt, EndPass, Working, MediaInv
<1>4. PassRows' = PassRows /\ StageOrder' = StageOrder /\ ArtifactRows' = ArtifactRows
  BY <1>3 DEF PassRows, StageOrder, ArtifactRows
<1>5. pass' \in [Passes -> PassRows]' /\ pass'[p] = w /\ \A q \in Passes \ {p} : pass'[q] = pass[q]
  BY <1>3, <1>4 DEF MediaInv
<1>6. InOrder' /\ Working' = {}
  <2>1. InOrder' /\ Working' \subseteq {p}
    BY <1>2, <1>3, OneWorks
  <2> QED BY <1>2, <1>5, <2>1 DEF Working
<1>7. Fresh'
  BY <1>2, <1>5 DEF MediaInv, Fresh
<1>8. ReviewedStored'
  <2> SUFFICES ASSUME review' # 0, review' \notin overlapped, NEW i \in DOMAIN StageOrder
               PROVE  Stored(review, StageOrder[i])'
    BY <1>3, <1>4 DEF ReviewedStored
  <2>1. review' = p /\ Clean(p)
    BY <1>3 DEF MediaInv
  <2>2. Stored(p, StageOrder[i])
    BY <1>3, <2>1, OrderFacts DEF Clean, Reached, MediaInv
  <2> QED BY <1>3, <1>4, <2>1, <2>2 DEF Stored, BoundTo
<1>9. \A a \in artifacts' : a.pass \notin overlapped' => RowRendered(a)'
  BY <1>3 DEF MediaInv, RowRendered
<1> QED BY <1>3, <1>4, <1>5, <1>6, <1>7, <1>8, <1>9 DEF MediaInv, ArtifactRows

\* A stray write tells on every pass at work and on the reviewed one.
LEMMA StrayStep == ASSUME MediaInv, StrayWrite PROVE MediaInv'
<1>1. PICK s \in StageNames : file' = [file EXCEPT ![PathOf(s)] = NoBytes]
  BY DEF StrayWrite
<1>2. /\ overlapped' = overlapped \cup Working \cup ({review} \ {0})
      /\ strays < MaxStrays /\ strays' = strays + 1
      /\ UNCHANGED <<motionEnabled, targeted, pass, artifacts, review>>
  BY DEF StrayWrite
<1>3. file' \in [StageNames -> Bytes]
  <2>1. NoBytes \in Bytes
    BY PassOverTyped DEF MediaInv, PassPlaces
  <2> HIDE DEF Bytes
  <2> QED BY <1>1, <2>1 DEF MediaInv, PathOf
<1>4. PassRows' = PassRows /\ Working' = Working
  BY <1>2 DEF PassRows, StageOrder, Working
<1>5. Working \subseteq Passes /\ ({review} \ {0}) \subseteq Passes
  BY DEF Working, MediaInv
<1>6. overlapped' \subseteq Passes /\ strays' \in 0..MaxStrays
  BY <1>2, <1>5 DEF MediaInv
<1>7. \A a \in artifacts' : a.pass \notin overlapped' => RowRendered(a)'
  BY <1>2 DEF MediaInv, RowRendered
<1>8. \A p \in Working' \ overlapped' : Clean(p)'
  BY <1>2, <1>4
<1>9. ReviewedStored'
  BY <1>2 DEF ReviewedStored
<1>10. InOrder' /\ Fresh'
  BY <1>2 DEF MediaInv, InOrder, Fresh
<1> QED BY <1>2, <1>3, <1>4, <1>6, <1>7, <1>8, <1>9, <1>10 DEF MediaInv, ArtifactRows

\* Every step of a pass, and every stray write, keeps the invariant.
LEMMA MediaStep == MediaInv /\ [MediaNext]_mediaVars => MediaInv'
<1> SUFFICES ASSUME MediaInv, [MediaNext]_mediaVars PROVE MediaInv'
  OBVIOUS
<1>1. CASE UNCHANGED mediaVars
  <2>1. PassRows' = PassRows /\ StageOrder' = StageOrder /\ Working' = Working
    BY <1>1 DEF mediaVars, PassRows, StageOrder, Working
  <2>2. \A p : Clean(p)' = Clean(p)
    BY <1>1, <2>1 DEF mediaVars, Clean, Reached, Stored, BoundTo, Stage, Lengths
  <2>3. ReviewedStored'
    BY <1>1, <2>1 DEF mediaVars, MediaInv, ReviewedStored, Stored, BoundTo
  <2>4. InOrder' /\ Fresh'
    BY <1>1 DEF mediaVars, MediaInv, InOrder, Fresh
  <2>5. \A a \in artifacts' : a.pass \notin overlapped' => RowRendered(a)'
    BY <1>1 DEF mediaVars, MediaInv, RowRendered
  <2> QED BY <1>1, <2>1, <2>2, <2>3, <2>4, <2>5 DEF mediaVars, MediaInv, ArtifactRows
<1>2. CASE StrayWrite
  BY <1>2, StrayStep
<1>3. ASSUME NEW p \in Passes, PassStep(p)
      PROVE  MediaInv'
  <2>1. CASE BeginPass(p)
    BY <2>1, BeginStep
  <2> SUFFICES ASSUME ~BeginPass(p) PROVE MediaInv'
    BY <2>1
  <2>2. p \in Working
    BY <1>3 DEF PassStep, Working, WaitForVoice, WaitForImage, NoMotion, NoPlan, Unserved, StartCommand,
       CommandSucceeds, CommandFails, HashOutput, VerifyNarration, VerifyImage, VerifyMotion,
       VerifyRender, Verified, Recalibrate, RefuseOutput, RecordOutput, FinishPass, PassDies, PassAt
  <2>3. CASE WaitForVoice(p) \/ WaitForImage(p) \/ NoMotion(p) \/ NoPlan(p)
    BY <2>2, <2>3, EndStep DEF WaitForVoice, WaitForImage, NoMotion, NoPlan, Unserved
  <2>4. CASE CommandFails(p) \/ RefuseOutput(p) \/ PassDies(p)
    BY <2>2, <2>4, EndStep DEF CommandFails, AfterFailure, RefuseOutput, PassDies
  <2>5. CASE StartCommand(p)
    BY <2>2, <2>5, StartStep
  <2>6. CASE CommandSucceeds(p)
    BY <2>2, <2>6, SucceedStep
  <2>7. CASE HashOutput(p)
    BY <2>2, <2>7, HashStep
  <2>8. CASE VerifyNarration(p)
    BY <2>2, <2>8, VerifyStep DEF VerifyNarration, NarrationFits
  <2>9. CASE VerifyImage(p)
    BY <2>2, <2>9, VerifyStep DEF VerifyImage
  <2>10. CASE VerifyMotion(p)
    BY <2>2, <2>10, VerifyStep DEF VerifyMotion
  <2>11. CASE VerifyRender(p)
    BY <2>2, <2>11, VerifyStep DEF VerifyRender, RenderFits
  <2>12. CASE Recalibrate(p)
    BY <2>2, <2>12, RecalibrateStep
  <2>13. CASE RecordOutput(p)
    BY <2>2, <2>13, RecordStep
  <2>14. CASE FinishPass(p)
    BY <2>2, <2>14, FinishStep
  <2> QED BY <1>3, <2>3, <2>4, <2>5, <2>6, <2>7, <2>8, <2>9, <2>10, <2>11, <2>12, <2>13, <2>14
          DEF PassStep
<1> QED BY <1>1, <1>2, <1>3 DEF MediaNext

\* The invariant says at least the types.
LEMMA MediaTyped == MediaInv => MediaTypeOK
<1> SUFFICES ASSUME MediaInv PROVE MediaTypeOK
  OBVIOUS
<1>1. 1..Len(StageOrder) \subseteq 1..6
  BY OrderFacts DEF MediaInv
<1>2. PassRows \subseteq [at : PassPlaces, stage : 1..6, nth : 1..MaxRenders, hash : Bytes]
  <2> HIDE DEF PassPlaces, Bytes
  <2> QED BY <1>1 DEF PassRows
<1> HIDE DEF Bytes
<1> QED BY <1>2 DEF MediaInv, MediaTypeOK, ArtifactRows, PassPlaces

\* The invariant says at least that what is recorded was rendered.
LEMMA MediaRecorded == MediaInv => RecordedAsRendered
BY DEF MediaInv, RecordedAsRendered, RowRendered, ReviewedStored, Stored, PathOf

\* Every variable of the stages keeps its type.
THEOREM MediaTypes == MediaSpec => []MediaTypeOK
<1>1. MediaSpec => []MediaInv
  BY InitMediaInv, MediaStep, PTL DEF MediaSpec
<1> QED BY <1>1, MediaTyped, PTL

\* What a pass records while nothing else writes the release's files was written by its own
\* command, in its stage, from the bytes it recorded for the sources, and is as long as it
\* must be; and the files of the release in review are still those: the passes follow each
\* other, and a pass overwrites only the file of the stage it is in.
THEOREM RecordedFaithfully == MediaSpec => []RecordedAsRendered
<1>1. MediaSpec => []MediaInv
  BY InitMediaInv, MediaStep, PTL DEF MediaSpec
<1> QED BY <1>1, MediaRecorded, PTL

-----------------------------------------------------------------------------
(* Publishing.                                                             *)

\* The places a call is at before the request that posts has been answered.
Unsent == {"idle", "gated", "looked", "requested", "approved", "session", "container",
           "bytes", "poll", "publish", "media", "chunk", "finalize", "spotlight",
           "preprocess", "part", "merge", "submit"}

\* At most one post for a call, none while it is unsent.
PostsOnce ==
  \A c \in Calls :
    /\ posted[c] \in {0, 1}
    /\ pc[c] \in Unsent => posted[c] = 0
    /\ pc[c] = "permalink" => posted[c] = 1

\* A call that sends, or has posted, names itself.
NamesItself ==
  \A c \in Calls :
    (pc[c] \in Unsent \cup {"upload", "permalink"} \/ posted[c] = 1) => source[c] = c

\* Which calls take the publish route, and which go on to YouTube.
OnRoute ==
  \A c \in Calls :
    /\ pc[c] \in {"gated", "stored", "evidenced", "marked"} => Route(c) = "publish"
    /\ pc[c] \in {"looked", "requested"} =>
         Route(c) = "publish" /\ asked[c].destination = "youtube"

\* A row is of the call that created it, whose artifact is chosen for good.
RowsBound ==
  \A i \in DOMAIN rows :
    /\ asked[rows[i].call].destination = "youtube"
    /\ pc[rows[i].call] # "idle"
    /\ artifact[rows[i].call] = rows[i].artifact

KeptPosted == \A k \in kept : posted[k] = 1

\* A call that has a receipt names a post of its destination and artifact.
Holding(c) ==
  \/ pc[c] \in {"received", "stored", "evidenced"}
  \/ pc[c] = "marked" /\ asked[c].destination = "youtube"
HeldIsReal == \A c \in Calls : Holding(c) => posted[source[c]] = 1 /\ SamePost(c, source[c])

\* So do what is stored and what is in the ledger.
StoredIsReal ==
  \A r \in receipts :
    r.row \in DOMAIN rows /\ SamePost(rows[r.row].call, r.post) /\ posted[r.post] = 1
LedgerIsReal ==
  \A e \in ledger : pc[e.call] # "idle" /\ posted[e.post] = 1 /\ SamePost(e.call, e.post)

EvidencedIsStored == \A c \in Calls : pc[c] \in {"stored", "evidenced"} => receipts # {}

\* A call that found a kept receipt is past its requests.
CoveredIsPast ==
  \A c \in Calls : covered[c] # {} =>
    posted[c] = 0 /\ pc[c] \in {"received", "stored", "evidenced", "marked", "ok", "failed"}

PublishingIInv ==
  /\ PublishingTypeOK /\ PostsOnce /\ NamesItself /\ OnRoute /\ RowsBound /\ KeptPosted
  /\ HeldIsReal /\ StoredIsReal /\ LedgerIsReal /\ EvidencedIsStored /\ CoveredIsPast
  /\ PublishedIsBacked

-----------------------------------------------------------------------------
(* What the requests to a platform come to.                                *)

\* A scenario gives each call its request.
LEMMA AskedTyped ==
  ASSUME asked \in Scenarios
  PROVE  asked \in [Calls -> Requests]
  BY PublishingAssumption

\* Who the rows, the receipts and the ledger speak of.
LEMMA RecordsTyped ==
  ASSUME PublishingTypeOK
  PROVE  /\ \A i \in DOMAIN rows : rows[i].call \in Calls /\ rows[i].artifact \in Artifacts
         /\ \A r \in receipts : r.post \in Calls
         /\ \A e \in ledger : e.call \in Calls /\ e.post \in Calls
  <1>1. ASSUME NEW i \in DOMAIN rows PROVE rows[i].call \in Calls /\ rows[i].artifact \in Artifacts
    <2> DEFINE Row == [call : Calls, artifact : Artifacts]
    <2>1. rows \in Seq(Row)
      BY DEF PublishingTypeOK
    <2>2. \A x \in Row : x.call \in Calls /\ x.artifact \in Artifacts
      OBVIOUS
    <2> HIDE DEF Row
    <2>3. rows[i] \in Row
      BY <1>1, <2>1
    <2> QED
      BY <2>2, <2>3
  <1>2. ASSUME NEW r \in receipts PROVE r.post \in Calls
    <2>1. r \in [row : Nat, post : Calls]
      BY DEF PublishingTypeOK
    <2> QED
      BY <2>1
  <1>3. ASSUME NEW e \in ledger PROVE e.call \in Calls /\ e.post \in Calls
    <2>1. e \in [call : Calls, post : Calls]
      BY DEF PublishingTypeOK
    <2> QED
      BY <2>1
  <1> QED
    BY <1>1, <1>2, <1>3

\* A request moves its call to q, and leaves alone what it does not answer for.
Moves(c, q) ==
  /\ pc' = [pc EXCEPT ![c] = q]
  /\ tries' \in [Calls -> 1..MaxAttempts]
  /\ rounds' \in [Calls -> Nat \ {0}]
  /\ kept' = IF q = "received" /\ Route(c) # "publish" THEN kept \cup {c} ELSE kept
  /\ UNCHANGED <<asked, artifact, source, rows, receipts, ledger, production, covered>>

\* A call that goes on comes to the place it goes on to.
LEMMA ProceedMoves ==
  ASSUME PublishingTypeOK, NEW c \in Calls, NEW q, Proceed(c, q),
         UNCHANGED <<asked, artifact, source, rows, receipts, ledger, production, covered>>
  PROVE  Moves(c, q)
  <1>1. tries' \in [Calls -> 1..MaxAttempts]
    BY PublishingAssumption DEF Proceed, PublishingTypeOK
  <1>2. rounds' \in [Calls -> Nat \ {0}]
    <2>1. rounds[c] + 1 \in Nat \ {0}
      BY DEF PublishingTypeOK
    <2> QED
      BY <2>1 DEF Proceed, PublishingTypeOK
  <1> QED
    BY <1>1, <1>2 DEF Proceed, Moves, Goto

\* A call that tries again keeps its place, or gives up.
LEMMA AgainMoves ==
  ASSUME PublishingTypeOK, NEW c \in Calls, NEW r \in BOOLEAN, Again(c, r), pc[c] \in Requesting,
         UNCHANGED <<asked, artifact, source, rows, receipts, ledger, production, covered>>
  PROVE  (r /\ Moves(c, pc[c])) \/ Moves(c, "failed")
  <1>1. CASE MayRetry(c, r)
    <2>1. tries[c] + 1 \in 1..MaxAttempts
      BY <1>1, PublishingAssumption DEF MayRetry, PublishingTypeOK
    <2>2. tries' \in [Calls -> 1..MaxAttempts]
      BY <1>1, <2>1 DEF Again, PublishingTypeOK
    <2>3. pc' = [pc EXCEPT ![c] = pc[c]]
      BY <1>1 DEF Again, PublishingTypeOK
    <2> QED
      BY <1>1, <2>2, <2>3 DEF Again, MayRetry, Moves, PublishingTypeOK, Requesting
  <1>2. CASE ~MayRetry(c, r)
    BY <1>2 DEF Again, Throw, Goto, Moves, PublishingTypeOK, progress
  <1> QED
    BY <1>1, <1>2

\* A call that throws is over.
LEMMA ThrowMoves ==
  ASSUME PublishingTypeOK, NEW c \in Calls, Throw(c),
         UNCHANGED <<asked, artifact, source, rows, receipts, ledger, production, covered>>
  PROVE  Moves(c, "failed")
  BY DEF Throw, Goto, Moves, PublishingTypeOK, progress

\* An exchange that posts nothing.
LEMMA QuietExchange ==
  ASSUME PublishingTypeOK, NEW c \in Calls, pc[c] \in Requesting, NEW p, NEW r \in BOOLEAN,
         Exchange(c, Nothing, r, p)
  PROVE  /\ posted' = posted
         /\ \E q \in {p, pc[c], "failed"} : Moves(c, q)
  BY ProceedMoves, AgainMoves, ThrowMoves DEF Exchange, Nothing

\* The request that makes the post, tried once.
LEMMA PostingExchange ==
  ASSUME PublishingTypeOK, NEW c \in Calls, pc[c] \in Requesting, posted[c] = 0, NEW p,
         Exchange(c, CreatesPost(c), FALSE, p)
  PROVE  \/ posted' = [posted EXCEPT ![c] = 1] /\ Moves(c, p)
         \/ posted' \in {posted, [posted EXCEPT ![c] = 1]} /\ Moves(c, "failed")
  <1>1. CreatesPost(c) => posted' = [posted EXCEPT ![c] = 1]
    BY DEF CreatesPost, PublishingTypeOK
  <1> QED
    BY <1>1, ProceedMoves, AgainMoves, ThrowMoves DEF Exchange, Nothing

\* The upload of a session, which posts when it is whole and may be tried again.
LEMMA UploadExchange ==
  ASSUME PublishingTypeOK, NEW c \in Calls, pc[c] = "upload",
         Exchange(c, CompletesSession(c), TRUE, "received")
  PROVE  \/ posted' = [posted EXCEPT ![c] = 1] /\ Moves(c, "received")
         \/ /\ posted' \in {posted, [posted EXCEPT ![c] = 1]}
            /\ \E q \in {"upload", "failed"} : Moves(c, q)
  BY ProceedMoves, AgainMoves, ThrowMoves
     DEF Exchange, Nothing, CompletesSession, Requesting

\* A request to a platform: it posts once, and only the last one does.
Sends(c, q) ==
  /\ pc[c] \in Requesting /\ q \in Requesting \cup {"received", "failed"}
  /\ Moves(c, q)
  /\ posted' = posted \/ posted' = [posted EXCEPT ![c] = 1]
  /\ q \in Unsent => posted'[c] = 0 /\ pc[c] \in Unsent
  /\ q \in {"permalink", "received"} => posted'[c] = 1
  /\ q # "received" \/ pc[c] \in Unsent \cup {"upload", "permalink"}

\* No request to a platform posts a second time.
LEMMA PlatformSends ==
  ASSUME PublishingTypeOK, PostsOnce, NEW c \in Calls, PlatformRequest(c)
  PROVE  \E q : Sends(c, q)
  <1>t. posted \in [Calls -> Nat] /\ pc[c] \in Places
    BY DEF PublishingTypeOK
  <1>p. /\ pc[c] \in Unsent => posted[c] = 0
        /\ pc[c] = "permalink" => posted[c] = 1
    BY DEF PostsOnce
  <1>1. ASSUME NEW p \in Unsent \cap Requesting, NEW r \in BOOLEAN,
               pc[c] \in Unsent \cap Requesting, Exchange(c, Nothing, r, p)
        PROVE  \E q : Sends(c, q)
    BY <1>t, <1>p, <1>1, QuietExchange DEF Sends, Unsent, Requesting
  <1>2. CASE YouTubeSession(c)
    <2>1. pc[c] = "session" /\ posted[c] = 0 /\ pc[c] \in Requesting
      BY <1>2, <1>p DEF YouTubeSession, At, Unsent, Requesting
    <2>2. posted' = posted /\ \E q \in {"upload", "session", "failed"} : Moves(c, q)
      BY <1>2, <2>1, QuietExchange DEF YouTubeSession
    <2> QED
      BY <1>t, <2>1, <2>2 DEF Sends, Unsent, Requesting
  <1>3. CASE YouTubeUpload(c)
    BY <1>t, <1>p, <1>3, UploadExchange DEF YouTubeUpload, At, Sends, Unsent, Requesting
  <1>4. CASE MetaPublish(c)
    <2>1. pc[c] = "publish" /\ posted[c] = 0
      BY <1>4, <1>p DEF MetaPublish, At, Unsent
    <2> QED
      BY <1>t, <1>4, <2>1, PostingExchange DEF MetaPublish, Sends, Unsent, Requesting
  <1>5. CASE InstagramPermalink(c) \/ FacebookPermalink(c)
    <2>1. pc[c] = "permalink" /\ posted[c] = 1 /\ Exchange(c, Nothing, FALSE, "received")
      BY <1>5, <1>p DEF InstagramPermalink, FacebookPermalink, At
    <2> QED
      BY <1>t, <2>1, QuietExchange DEF Sends, Unsent, Requesting
  <1>6. CASE SnapchatPost(c)
    <2>1. pc[c] = "spotlight" /\ posted[c] = 0
      BY <1>6, <1>p DEF SnapchatPost, At, Unsent
    <2> QED
      BY <1>t, <1>6, <2>1, PostingExchange DEF SnapchatPost, Sends, Unsent, Requesting
  <1>7. CASE BilibiliSubmit(c)
    <2>1. pc[c] = "submit" /\ posted[c] = 0
      BY <1>7, <1>p DEF BilibiliSubmit, At, Unsent
    <2> QED
      BY <1>t, <1>7, <2>1, PostingExchange DEF BilibiliSubmit, Sends, Unsent, Requesting
  <1>8. CASE InstagramContainer(c) \/ InstagramBytes(c) \/ FacebookSession(c) \/ FacebookBytes(c)
    BY <1>1, <1>8 DEF InstagramContainer, InstagramBytes, FacebookSession, FacebookBytes, At,
                      Unsent, Requesting
  <1>9. CASE InstagramPoll(c)
    BY <1>1, <1>9 DEF InstagramPoll, At, Unsent, Requesting
  <1>10. CASE SnapchatMedia(c) \/ SnapchatChunk(c) \/ SnapchatFinalize(c)
    BY <1>1, <1>10 DEF SnapchatMedia, SnapchatChunk, SnapchatFinalize, At, NextRound, Unsent,
                       Requesting
  <1>11. CASE BilibiliPreprocess(c) \/ BilibiliPart(c) \/ BilibiliMerge(c)
    BY <1>1, <1>11 DEF BilibiliPreprocess, BilibiliPart, BilibiliMerge, At, NextRound, Unsent,
                       Requesting
  <1> QED
    BY <1>2, <1>3, <1>4, <1>5, <1>6, <1>7, <1>8, <1>9, <1>10, <1>11 DEF PlatformRequest

-----------------------------------------------------------------------------
(* The invariant.                                                          *)

\* No call has begun at first.
LEMMA InitIInv == PublishingInit => PublishingIInv
  <1> SUFFICES ASSUME PublishingInit PROVE PublishingIInv
    OBVIOUS
  <1>a. asked \in [Calls -> Requests]
    BY AskedTyped DEF PublishingInit
  <1>1. PublishingTypeOK
    <2>1. artifact \in [Calls -> Artifacts]
      BY <1>a DEF PublishingInit, Requests
    <2>2. tries \in [Calls -> 1..MaxAttempts]
      BY PublishingAssumption DEF PublishingInit
    <2>3. verified \in Seq(Artifacts) \ {<<>>}
      BY PublishingAssumption DEF PublishingInit
    <2> QED
      BY <2>1, <2>2, <2>3, PublishingAssumption
         DEF PublishingTypeOK, PublishingInit, Places
  <1>2. PostsOnce /\ NamesItself /\ OnRoute
    BY DEF PublishingInit, PostsOnce, NamesItself, OnRoute
  <1>3. RowsBound /\ KeptPosted /\ HeldIsReal /\ StoredIsReal /\ LedgerIsReal
    BY DEF PublishingInit, RowsBound, KeptPosted, HeldIsReal, Holding, StoredIsReal, LedgerIsReal
  <1>4. EvidencedIsStored /\ CoveredIsPast /\ PublishedIsBacked
    BY DEF PublishingInit, EvidencedIsStored, CoveredIsPast, PublishedIsBacked
  <1> QED
    BY <1>1, <1>2, <1>3, <1>4 DEF PublishingIInv

\* A request to a platform.
LEMMA SendsKeeps ==
  ASSUME PublishingIInv, NEW c \in Calls, NEW q, Sends(c, q)
  PROVE  PublishingIInv'
  <1>t. PublishingTypeOK /\ asked' = asked /\ artifact' = artifact /\ source' = source
    BY DEF PublishingIInv, Sends, Moves
  <1>m. /\ pc' = [pc EXCEPT ![c] = q] /\ pc \in [Calls -> Places]
        /\ posted' = posted \/ posted' = [posted EXCEPT ![c] = 1]
        /\ posted \in [Calls -> Nat] /\ source \in [Calls -> Calls]
        /\ pc[c] \in Requesting /\ q \in Requesting \cup {"received", "failed"}
        /\ q \in {"permalink", "received"} => posted'[c] = 1
    BY <1>t DEF Sends, Moves, PublishingTypeOK
  <1>s. \A k \in Calls : posted[k] = 1 => posted'[k] = 1
    BY <1>m
  <1>u. UNCHANGED <<rows, receipts, ledger, covered, releaseStatus>>
    BY DEF Sends, Moves, production
  <1>1. PublishingTypeOK'
    <2>1. pc' \in [Calls -> Places] /\ posted' \in [Calls -> Nat]
      BY <1>m DEF Places, Ended
    <2>2. kept' \subseteq Calls
      BY <1>t DEF Sends, Moves, PublishingTypeOK
    <2>3. tries' \in [Calls -> 1..MaxAttempts] /\ rounds' \in [Calls -> Nat \ {0}]
      BY DEF Sends, Moves
    <2>4. UNCHANGED <<rows, receipts, ledger, covered, releaseStatus, media, verified>>
      BY DEF Sends, Moves, production
    <2> QED
      BY <1>t, <2>1, <2>2, <2>3, <2>4 DEF PublishingTypeOK
  <1>2. PostsOnce'
    BY <1>m DEF PublishingIInv, PostsOnce, Sends
  <1>3. NamesItself'
    <2>1. source[c] = c
      <3>1. CASE pc[c] \in Unsent \cup {"upload", "permalink"}
        BY <3>1 DEF PublishingIInv, NamesItself
      <3>2. CASE pc[c] \notin Unsent \cup {"upload", "permalink"}
        BY <3>2, <1>m DEF Requesting, Unsent
      <3> QED
        BY <3>1, <3>2
    <2> QED
      BY <2>1, <1>m, <1>t DEF PublishingIInv, NamesItself
  <1>4. OnRoute'
    BY <1>m, <1>t DEF PublishingIInv, OnRoute, Route, Requesting
  <1>5. RowsBound'
    BY <1>m, <1>t, <1>u DEF PublishingIInv, RowsBound, Requesting, PublishingTypeOK
  <1>6. KeptPosted'
    <2>1. kept' \subseteq kept \cup {c} /\ (kept' \subseteq kept \/ q = "received")
      BY DEF Sends, Moves
    <2> QED
      BY <2>1, <1>m, <1>s, <1>t DEF PublishingIInv, KeptPosted, PublishingTypeOK
  <1>7. HeldIsReal'
    <2>1. source'[c] = c
      BY <1>3, <1>m, <1>t DEF NamesItself, PublishingIInv, Requesting, Unsent
    <2> QED
      BY <2>1, <1>m, <1>s, <1>t DEF PublishingIInv, HeldIsReal, Holding, SamePost, Requesting
  <1>8. StoredIsReal'
    BY <1>s, <1>t, <1>u DEF PublishingIInv, StoredIsReal, SamePost, PublishingTypeOK
  <1>9. LedgerIsReal'
    BY <1>s, <1>t, <1>u, <1>m DEF PublishingIInv, LedgerIsReal, SamePost, PublishingTypeOK,
       Requesting
  <1>10. EvidencedIsStored'
    BY <1>m, <1>u DEF PublishingIInv, EvidencedIsStored, Requesting
  <1>11. CoveredIsPast'
    BY <1>m, <1>u DEF PublishingIInv, CoveredIsPast, Requesting
  <1>12. PublishedIsBacked'
    BY <1>m, <1>u, <1>t DEF PublishingIInv, PublishedIsBacked, Route, Requesting, Ended
  <1> QED
    BY <1>1, <1>2, <1>3, <1>4, <1>5, <1>6, <1>7, <1>8, <1>9, <1>10, <1>11, <1>12
       DEF PublishingIInv
\* A step that only moves its call on: approved, answered or failed.
Walks(c, p) ==
  /\ pc' = [pc EXCEPT ![c] = p]
  /\ \/ p = "approved" /\ pc[c] \in {"idle", "requested"}
     \/ p = "ok" /\ pc[c] = "marked"
     \/ p = "failed" /\ Active(c)
  /\ UNCHANGED <<asked, artifact, progress, posted, source, store, production, covered>>

\* A step on the way to the post keeps the invariant.
LEMMA WalksKeeps ==
  ASSUME PublishingIInv, NEW c \in Calls, NEW p, Walks(c, p)
  PROVE  PublishingIInv'
  <1>m. /\ pc' = [pc EXCEPT ![c] = p] /\ pc \in [Calls -> Places]
        /\ \/ p = "approved" /\ pc[c] \in {"idle", "requested"}
           \/ p \in Ended /\ pc[c] # "idle"
        /\ UNCHANGED <<asked, artifact, tries, rounds, posted, source, kept, rows, receipts,
                       ledger, releaseStatus, media, verified, covered>>
    BY DEF Walks, progress, store, production, PublishingIInv, PublishingTypeOK, Active, Ended
  <1>t. posted \in [Calls -> Nat] /\ source \in [Calls -> Calls]
    BY DEF PublishingIInv, PublishingTypeOK
  <1>1. PublishingTypeOK'
    BY <1>m DEF PublishingIInv, PublishingTypeOK, Places
  <1>2. PostsOnce' /\ NamesItself' /\ OnRoute'
    BY <1>m, <1>t DEF PublishingIInv, PostsOnce, NamesItself, OnRoute, Unsent, Route, Ended
  <1>3. RowsBound' /\ LedgerIsReal'
    BY <1>m, <1>t, SMTT(30) DEF PublishingIInv, PublishingTypeOK, RowsBound, LedgerIsReal, SamePost, Ended
  <1>4. KeptPosted' /\ StoredIsReal'
    BY <1>m DEF PublishingIInv, KeptPosted, StoredIsReal, SamePost
  <1>5. HeldIsReal'
    BY <1>m, <1>t DEF PublishingIInv, HeldIsReal, Holding, SamePost, Ended
  <1>6. EvidencedIsStored' /\ CoveredIsPast'
    BY <1>m, <1>t DEF PublishingIInv, EvidencedIsStored, CoveredIsPast, Ended
  <1>7. PublishedIsBacked'
    BY <1>m DEF PublishingIInv, PublishedIsBacked, Route, Ended
  <1> QED
    BY <1>1, <1>2, <1>3, <1>4, <1>5, <1>6, <1>7 DEF PublishingIInv

\* The checks before a call keep the invariant.
LEMMA GateKeeps ==
  ASSUME PublishingIInv, NEW c \in Calls, PublishGate(c)
  PROVE  PublishingIInv'
  <1>m. /\ pc' = [pc EXCEPT ![c] = "gated"] /\ pc \in [Calls -> Places]
        /\ pc[c] = "idle" /\ Route(c) = "publish"
        /\ artifact' = [artifact EXCEPT ![c] = MainArtifact]
        /\ UNCHANGED <<asked, tries, rounds, posted, source, kept, rows, receipts,
                       ledger, releaseStatus, media, verified, covered>>
    BY DEF PublishGate, Goto, progress, store, production, PublishingIInv, PublishingTypeOK
  <1>t. /\ posted \in [Calls -> Nat] /\ source \in [Calls -> Calls]
        /\ artifact \in [Calls -> Artifacts]
    BY DEF PublishingIInv, PublishingTypeOK
  <1>k. \A k \in Calls : (pc[k] # "idle" \/ posted[k] = 1) => k # c /\ artifact'[k] = artifact[k]
    <2>1. posted[c] = 0
      BY <1>m DEF PublishingIInv, PostsOnce, Unsent
    <2> QED
      BY <2>1, <1>m, <1>t
  <1>1. PublishingTypeOK'
    <2>1. MainArtifact \in Artifacts
      BY DEF MainArtifact, PublishingIInv, PublishingTypeOK
    <2>2. artifact' \in [Calls -> Artifacts] /\ pc' \in [Calls -> Places]
      BY <2>1, <1>m, <1>t DEF Places
    <2> QED
      BY <2>2, <1>m DEF PublishingIInv, PublishingTypeOK
  <1>2. PostsOnce' /\ NamesItself' /\ OnRoute'
    BY <1>m, <1>t DEF PublishingIInv, PostsOnce, NamesItself, OnRoute, Unsent, Route
  <1>3. RowsBound' /\ LedgerIsReal'
    BY <1>m, <1>t, <1>k, SMTT(30) DEF PublishingIInv, PublishingTypeOK, RowsBound, LedgerIsReal, SamePost
  <1>4. KeptPosted'
    BY <1>m DEF PublishingIInv, KeptPosted
  <1>5. StoredIsReal'
    <2> SUFFICES ASSUME NEW r \in receipts
                 PROVE  (r.row \in DOMAIN rows /\ SamePost(rows[r.row].call, r.post)
                           /\ posted[r.post] = 1)'
      BY <1>m DEF StoredIsReal
    <2>1. /\ r.row \in DOMAIN rows /\ SamePost(rows[r.row].call, r.post)
          /\ posted[r.post] = 1
      BY DEF PublishingIInv, StoredIsReal
    <2>2. r.post \in Calls /\ rows[r.row].call \in Calls
      BY <2>1, RecordsTyped DEF PublishingIInv
    <2>3. pc[rows[r.row].call] # "idle"
      BY <2>1 DEF PublishingIInv, RowsBound
    <2> QED
      BY <2>1, <2>2, <2>3, <1>k, <1>m DEF SamePost
  <1>6. HeldIsReal'
    <2>1. \A k \in Calls : Holding(k)' => k # c /\ Holding(k)
      BY <1>m DEF Holding
    <2>2. \A k \in Calls : Holding(k) => pc[k] # "idle"
      BY DEF Holding
    <2> QED
      BY <2>1, <2>2, <1>m, <1>t, <1>k DEF PublishingIInv, HeldIsReal, SamePost
  <1>7. EvidencedIsStored' /\ CoveredIsPast'
    BY <1>m, <1>t DEF PublishingIInv, EvidencedIsStored, CoveredIsPast
  <1>8. PublishedIsBacked'
    BY <1>m DEF PublishingIInv, PublishedIsBacked, Route, Ended
  <1> QED
    BY <1>1, <1>2, <1>3, <1>4, <1>5, <1>6, <1>7, <1>8 DEF PublishingIInv

\* A stored receipt of the same artifact is replayed, or none was found.
LEMMA LookUpKeeps ==
  ASSUME PublishingIInv, NEW c \in Calls, LookUp(c)
  PROVE  PublishingIInv'
  <1>m. /\ pc \in [Calls -> Places] /\ posted \in [Calls -> Nat] /\ source \in [Calls -> Calls]
        /\ pc[c] = "gated" /\ asked[c].destination = "youtube" /\ posted[c] = 0
        /\ Route(c) = "publish"
        /\ UNCHANGED <<asked, artifact, tries, rounds, posted, kept, rows, receipts,
                       ledger, releaseStatus, media, verified, covered>>
    BY DEF LookUp, At, progress, store, production, PublishingIInv, PublishingTypeOK, OnRoute,
           PostsOnce, Unsent
  <1>d. \/ pc' = [pc EXCEPT ![c] = "looked"] /\ source' = source
        \/ \E s \in Calls : /\ pc' = [pc EXCEPT ![c] = "evidenced"]
                            /\ source' = [source EXCEPT ![c] = s]
                            /\ posted[s] = 1 /\ SamePost(c, s) /\ receipts # {}
    <2>1. CASE Goto(c, "looked") /\ UNCHANGED source
      BY <2>1 DEF Goto
    <2>2. ASSUME NEW i \in LatestRow(artifact[c]), NEW r \in ReceiptOf(i),
                 source' = [source EXCEPT ![c] = r.post], Goto(c, "evidenced")
          PROVE  \E s \in Calls : /\ pc' = [pc EXCEPT ![c] = "evidenced"]
                                  /\ source' = [source EXCEPT ![c] = s]
                                  /\ posted[s] = 1 /\ SamePost(c, s) /\ receipts # {}
      <3>1. i \in DOMAIN rows /\ rows[i].artifact = artifact[c] /\ r \in receipts /\ r.row = i
        BY DEF LatestRow, RowsOf, ReceiptOf
      <3>2. r.post \in Calls /\ rows[i].call \in Calls
        BY <3>1, RecordsTyped DEF PublishingIInv
      <3>3. SamePost(rows[i].call, r.post) /\ posted[r.post] = 1
        BY <3>1 DEF PublishingIInv, StoredIsReal
      <3>4. /\ asked[rows[i].call].destination = "youtube"
            /\ artifact[rows[i].call] = rows[i].artifact
        BY <3>1 DEF PublishingIInv, RowsBound
      <3>5. SamePost(c, r.post)
        BY <3>1, <3>3, <3>4, <1>m DEF SamePost
      <3> QED
        BY <2>2, <3>1, <3>2, <3>3, <3>5 DEF Goto
    <2> QED
      BY <2>1, <2>2 DEF LookUp
  <1>1. PublishingTypeOK'
    <2>1. pc' \in [Calls -> Places] /\ source' \in [Calls -> Calls]
      BY <1>m, <1>d DEF Places
    <2> QED
      BY <1>m, <2>1 DEF PublishingIInv, PublishingTypeOK
  <1>2. PostsOnce' /\ NamesItself' /\ OnRoute'
    BY <1>m, <1>d DEF PublishingIInv, PostsOnce, NamesItself, OnRoute, Unsent, Route
  <1>3. RowsBound' /\ LedgerIsReal'
    BY <1>m, <1>d, RecordsTyped DEF PublishingIInv, RowsBound, LedgerIsReal, SamePost
  <1>4. KeptPosted' /\ StoredIsReal'
    BY <1>m DEF PublishingIInv, KeptPosted, StoredIsReal, SamePost
  <1>5. HeldIsReal'
    BY <1>m, <1>d DEF PublishingIInv, HeldIsReal, Holding, SamePost
  <1>6. EvidencedIsStored' /\ CoveredIsPast'
    BY <1>m, <1>d DEF PublishingIInv, EvidencedIsStored, CoveredIsPast
  <1>7. PublishedIsBacked'
    BY <1>m, <1>d DEF PublishingIInv, PublishedIsBacked, Route, Ended
  <1> QED
    BY <1>1, <1>2, <1>3, <1>4, <1>5, <1>6, <1>7 DEF PublishingIInv

\* A request that is written down keeps the invariant.
LEMMA CreateRequestKeeps ==
  ASSUME PublishingIInv, NEW c \in Calls, CreateRequest(c)
  PROVE  PublishingIInv'
  <1>m. /\ pc' = [pc EXCEPT ![c] = "requested"] /\ pc \in [Calls -> Places]
        /\ posted \in [Calls -> Nat] /\ source \in [Calls -> Calls]
        /\ artifact \in [Calls -> Artifacts]
        /\ pc[c] = "looked" /\ asked[c].destination = "youtube" /\ Route(c) = "publish"
        /\ posted[c] = 0
        /\ UNCHANGED <<asked, artifact, tries, rounds, posted, source, kept, receipts,
                       ledger, releaseStatus, media, verified, covered>>
    BY DEF CreateRequest, Goto, progress, production, PublishingIInv, PublishingTypeOK, OnRoute,
           PostsOnce, Unsent
  <1>r. /\ rows \in Seq([call : Calls, artifact : Artifacts])
        /\ rows' = Append(rows, [call |-> c, artifact |-> artifact[c]])
    BY DEF CreateRequest, PublishingIInv, PublishingTypeOK
  <1>a. /\ DOMAIN rows' = DOMAIN rows \cup {Len(rows) + 1}
        /\ \A i \in DOMAIN rows : rows'[i] = rows[i]
        /\ rows'[Len(rows) + 1] = [call |-> c, artifact |-> artifact[c]]
    BY <1>r, <1>m
  <1>1. PublishingTypeOK'
    <2>1. rows' \in Seq([call : Calls, artifact : Artifacts])
      BY <1>r, <1>m
    <2> QED
      BY <1>m, <2>1 DEF PublishingIInv, PublishingTypeOK, Places
  <1>2. PostsOnce' /\ NamesItself' /\ OnRoute'
    BY <1>m DEF PublishingIInv, PostsOnce, NamesItself, OnRoute, Unsent, Route
  <1>3. RowsBound'
    <2>1. ASSUME NEW i \in DOMAIN rows
          PROVE  /\ asked'[rows'[i].call].destination = "youtube"
                 /\ pc'[rows'[i].call] # "idle"
                 /\ artifact'[rows'[i].call] = rows'[i].artifact
      <3>1. rows'[i] = rows[i] /\ rows[i].call \in Calls
        BY <1>a, RecordsTyped DEF PublishingIInv
      <3>2. /\ asked[rows[i].call].destination = "youtube"
            /\ pc[rows[i].call] # "idle"
            /\ artifact[rows[i].call] = rows[i].artifact
        BY DEF PublishingIInv, RowsBound
      <3> QED
        BY <1>m, <3>1, <3>2
    <2>2. /\ rows'[Len(rows) + 1].call = c
          /\ rows'[Len(rows) + 1].artifact = artifact[c]
      BY <1>a
    <2>3. /\ asked'[c].destination = "youtube" /\ pc'[c] # "idle"
          /\ artifact'[c] = artifact[c]
      BY <1>m
    <2> QED
      BY <1>a, <2>1, <2>2, <2>3 DEF RowsBound
  <1>4. LedgerIsReal'
    BY <1>m, RecordsTyped DEF PublishingIInv, LedgerIsReal, SamePost
  <1>5. KeptPosted' /\ StoredIsReal'
    BY <1>m, <1>a DEF PublishingIInv, KeptPosted, StoredIsReal, SamePost
  <1>6. HeldIsReal'
    BY <1>m DEF PublishingIInv, HeldIsReal, Holding, SamePost
  <1>7. EvidencedIsStored' /\ CoveredIsPast'
    BY <1>m DEF PublishingIInv, EvidencedIsStored, CoveredIsPast
  <1>8. PublishedIsBacked'
    BY <1>m DEF PublishingIInv, PublishedIsBacked, Route, Ended
  <1> QED
    BY <1>1, <1>2, <1>3, <1>4, <1>5, <1>6, <1>7, <1>8 DEF PublishingIInv

\* The idempotency key fixes the destination and the artifact.
LEMMA KeyBinds ==
  ASSUME PublishingTypeOK, NEW c \in Calls, NEW k \in Calls, Key(k) = Key(c)
  PROVE  SamePost(c, k)
  <1>1. asked[c].destination \in Destinations /\ asked[k].destination \in Destinations
    BY AskedTyped DEF PublishingTypeOK, Requests
  <1>2. \A x \in Calls : asked[x].destination \in Destinations =>
          Key(x) = <<asked[x].destination, artifact[x], asked[x].caption>>
    BY DEF Key, YouTubeKey, MetaKey, SnapchatKey, BilibiliKey, Destinations
  <1> QED
    BY <1>1, <1>2 DEF SamePost

\* The adapter replays a kept receipt, or sends its first request.
LEMMA StartKeeps ==
  ASSUME PublishingIInv, NEW c \in Calls, StartAdapter(c)
  PROVE  PublishingIInv'
  <1>m. /\ pc \in [Calls -> Places] /\ posted \in [Calls -> Nat] /\ source \in [Calls -> Calls]
        /\ covered \in [Calls -> SUBSET Calls] /\ kept \subseteq Calls
        /\ pc[c] = "approved" /\ posted[c] = 0
        /\ UNCHANGED <<asked, artifact, tries, rounds, posted, kept, rows, receipts,
                       ledger, releaseStatus, media, verified>>
    BY DEF StartAdapter, progress, store, production, PublishingIInv, PublishingTypeOK,
           PostsOnce, Unsent
  <1>d. \/ \E p \in Unsent \cap Requesting :
             pc' = [pc EXCEPT ![c] = p] /\ source' = source /\ covered' = [covered EXCEPT ![c] = {}]
        \/ \E k \in kept : /\ pc' = [pc EXCEPT ![c] = "received"]
                           /\ source' = [source EXCEPT ![c] = k]
                           /\ posted[k] = 1 /\ SamePost(c, k)
                           /\ covered' = [covered EXCEPT ![c] = Kept(c)]
    <2>1. covered' = [covered EXCEPT ![c] = Kept(c)]
      BY DEF StartAdapter, Kept
    <2>2. CASE Kept(c) = {} /\ Goto(c, FirstRequest(asked[c].destination)) /\ UNCHANGED source
      <3>1. FirstRequest(asked[c].destination) \in Unsent \cap Requesting
        BY DEF FirstRequest, Unsent, Requesting
      <3> QED
        BY <2>1, <2>2, <3>1 DEF Goto
    <2>3. ASSUME NEW k \in Kept(c), source' = [source EXCEPT ![c] = k], Goto(c, "received")
          PROVE  \E x \in kept : /\ pc' = [pc EXCEPT ![c] = "received"]
                                 /\ source' = [source EXCEPT ![c] = x]
                                 /\ posted[x] = 1 /\ SamePost(c, x)
                                 /\ covered' = [covered EXCEPT ![c] = Kept(c)]
      <3>1. k \in kept /\ k \in Calls /\ Key(k) = Key(c)
        BY <1>m DEF Kept
      <3>2. posted[k] = 1 /\ SamePost(c, k)
        BY <3>1, KeyBinds DEF PublishingIInv, KeptPosted
      <3> QED
        BY <2>1, <2>3, <3>1, <3>2 DEF Goto
    <2> QED
      BY <2>2, <2>3 DEF StartAdapter
  <1>1. PublishingTypeOK'
    <2>1. pc' \in [Calls -> Places] /\ source' \in [Calls -> Calls]
      BY <1>m, <1>d DEF Places
    <2>2. Kept(c) \subseteq Calls
      BY <1>m DEF Kept
    <2>3. covered' \in [Calls -> SUBSET Calls]
      BY <1>m, <1>d, <2>2
    <2> QED
      BY <1>m, <2>1, <2>3 DEF PublishingIInv, PublishingTypeOK
  <1>2. PostsOnce' /\ NamesItself' /\ OnRoute'
    <2>1. source[c] = c
      BY <1>m DEF PublishingIInv, NamesItself, Unsent
    <2> QED
      BY <2>1, <1>m, <1>d DEF PublishingIInv, PostsOnce, NamesItself, OnRoute, Unsent, Route,
         Requesting
  <1>3. RowsBound' /\ LedgerIsReal'
    BY <1>m, <1>d, RecordsTyped DEF PublishingIInv, RowsBound, LedgerIsReal, SamePost, Requesting
  <1>4. KeptPosted' /\ StoredIsReal'
    BY <1>m DEF PublishingIInv, KeptPosted, StoredIsReal, SamePost
  <1>5. HeldIsReal'
    BY <1>m, <1>d DEF PublishingIInv, HeldIsReal, Holding, SamePost, Requesting
  <1>6. EvidencedIsStored' /\ CoveredIsPast'
    BY <1>m, <1>d DEF PublishingIInv, EvidencedIsStored, CoveredIsPast, Requesting
  <1>7. PublishedIsBacked'
    BY <1>m, <1>d DEF PublishingIInv, PublishedIsBacked, Route, Ended
  <1> QED
    BY <1>1, <1>2, <1>3, <1>4, <1>5, <1>6, <1>7 DEF PublishingIInv

\* A receipt that is stored keeps the invariant.
LEMMA ReceiptKeeps ==
  ASSUME PublishingIInv, NEW c \in Calls, CreateReceipt(c)
  PROVE  PublishingIInv'
  <1>m. /\ pc' = [pc EXCEPT ![c] = "stored"] /\ pc \in [Calls -> Places]
        /\ posted \in [Calls -> Nat] /\ source \in [Calls -> Calls]
        /\ pc[c] = "received" /\ Route(c) = "publish"
        /\ posted[source[c]] = 1 /\ SamePost(c, source[c]) /\ source[c] \in Calls
        /\ UNCHANGED <<asked, artifact, tries, rounds, posted, source, kept, rows,
                       ledger, releaseStatus, media, verified, covered>>
    BY DEF CreateReceipt, Goto, progress, production, PublishingIInv, PublishingTypeOK,
           HeldIsReal, Holding
  <1>r. PICK i \in DOMAIN rows :
          rows[i].call = c /\ receipts' = receipts \cup {[row |-> i, post |-> source[c]]}
    BY DEF CreateReceipt
  <1>1. PublishingTypeOK'
    <2>1. i \in Nat
      BY SMTT(30) DEF PublishingIInv, PublishingTypeOK
    <2>2. receipts' \subseteq [row : Nat, post : Calls]
      BY <1>m, <1>r, <2>1, SMTT(30) DEF PublishingIInv, PublishingTypeOK
    <2> QED
      BY <1>m, <2>2 DEF PublishingIInv, PublishingTypeOK, Places
  <1>2. PostsOnce' /\ NamesItself' /\ OnRoute'
    BY <1>m DEF PublishingIInv, PostsOnce, NamesItself, OnRoute, Unsent, Route
  <1>3. RowsBound' /\ LedgerIsReal'
    BY <1>m, RecordsTyped DEF PublishingIInv, RowsBound, LedgerIsReal, SamePost
  <1>4. KeptPosted'
    BY <1>m DEF PublishingIInv, KeptPosted
  <1>5. StoredIsReal'
    BY <1>m, <1>r DEF PublishingIInv, StoredIsReal, SamePost
  <1>6. HeldIsReal'
    BY <1>m DEF PublishingIInv, HeldIsReal, Holding, SamePost
  <1>7. EvidencedIsStored' /\ CoveredIsPast'
    BY <1>m, <1>r DEF PublishingIInv, EvidencedIsStored, CoveredIsPast
  <1>8. PublishedIsBacked'
    BY <1>m, <1>r DEF PublishingIInv, PublishedIsBacked, Route, Ended
  <1> QED
    BY <1>1, <1>2, <1>3, <1>4, <1>5, <1>6, <1>7, <1>8 DEF PublishingIInv

\* The event of a receipt that is held, and the place after it.
Reports(c, p) ==
  /\ pc' = [pc EXCEPT ![c] = p]
  /\ \/ pc[c] = "stored" /\ p = "evidenced"
     \/ pc[c] = "received" /\ p = "ok" /\ Route(c) # "publish"
  /\ Evidenced(c) \/ UNCHANGED ledger
  /\ UNCHANGED <<asked, artifact, progress, posted, source, kept, rows, receipts, production,
                 covered>>

\* An answer that is reported keeps the invariant.
LEMMA ReportsKeeps ==
  ASSUME PublishingIInv, NEW c \in Calls, NEW p, Reports(c, p)
  PROVE  PublishingIInv'
  <1>m. /\ pc' = [pc EXCEPT ![c] = p] /\ pc \in [Calls -> Places]
        /\ posted \in [Calls -> Nat] /\ source \in [Calls -> Calls]
        /\ \/ pc[c] = "stored" /\ p = "evidenced"
           \/ pc[c] = "received" /\ p = "ok"
        /\ posted[source[c]] = 1 /\ SamePost(c, source[c]) /\ source[c] \in Calls
        /\ UNCHANGED <<asked, artifact, tries, rounds, posted, source, kept, rows, receipts,
                       releaseStatus, media, verified, covered>>
    BY DEF Reports, progress, production, PublishingIInv, PublishingTypeOK, HeldIsReal, Holding
  <1>l. ledger' = ledger \/ ledger' = ledger \cup {[call |-> c, post |-> source[c]]}
    BY DEF Reports, Evidenced
  <1>1. PublishingTypeOK'
    <2>1. ledger' \subseteq [call : Calls, post : Calls]
      BY <1>m, <1>l DEF PublishingIInv, PublishingTypeOK
    <2>2. pc' \in [Calls -> Places]
      BY <1>m DEF Places, Ended
    <2> QED
      BY <1>m, <2>1, <2>2 DEF PublishingIInv, PublishingTypeOK
  <1>2. PostsOnce' /\ NamesItself' /\ OnRoute'
    BY <1>m DEF PublishingIInv, PostsOnce, NamesItself, OnRoute, Unsent, Route
  <1>3. RowsBound'
    BY <1>m, RecordsTyped DEF PublishingIInv, RowsBound
  <1>4. LedgerIsReal'
    <2>1. ASSUME NEW e \in ledger
          PROVE  pc'[e.call] # "idle" /\ posted'[e.post] = 1 /\ SamePost(e.call, e.post)'
      BY <1>m, RecordsTyped DEF PublishingIInv, LedgerIsReal, SamePost
    <2>2. pc'[c] # "idle" /\ posted'[source[c]] = 1 /\ SamePost(c, source[c])'
      BY <1>m DEF SamePost
    <2> QED
      BY <1>l, <1>m, <2>1, <2>2 DEF LedgerIsReal, SamePost
  <1>5. KeptPosted' /\ StoredIsReal'
    BY <1>m DEF PublishingIInv, KeptPosted, StoredIsReal, SamePost
  <1>6. HeldIsReal'
    BY <1>m DEF PublishingIInv, HeldIsReal, Holding, SamePost
  <1>7. EvidencedIsStored' /\ CoveredIsPast'
    BY <1>m DEF PublishingIInv, EvidencedIsStored, CoveredIsPast
  <1>8. PublishedIsBacked'
    BY <1>m DEF PublishingIInv, PublishedIsBacked, Route, Ended
  <1> QED
    BY <1>1, <1>2, <1>3, <1>4, <1>5, <1>6, <1>7, <1>8 DEF PublishingIInv

\* A release that is marked keeps the invariant.
LEMMA MarkKeeps ==
  ASSUME PublishingIInv, NEW c \in Calls, MarkPublished(c)
  PROVE  PublishingIInv'
  <1>m. /\ pc' = [pc EXCEPT ![c] = "marked"] /\ pc \in [Calls -> Places]
        /\ posted \in [Calls -> Nat] /\ source \in [Calls -> Calls]
        /\ \/ pc[c] = "evidenced" /\ receipts # {}
           \/ pc[c] = "gated" /\ asked[c].destination # "youtube" /\ Route(c) = "publish"
        /\ releaseStatus' = "published"
        /\ UNCHANGED <<asked, artifact, tries, rounds, posted, source, kept, rows, receipts,
                       ledger, media, verified, covered>>
    BY DEF MarkPublished, Markable, Goto, progress, store, PublishingIInv, PublishingTypeOK,
           EvidencedIsStored, OnRoute
  <1>1. PublishingTypeOK'
    <2>1. pc' \in [Calls -> Places]
      BY <1>m DEF Places, Ended
    <2> QED
      BY <1>m, <2>1 DEF PublishingIInv, PublishingTypeOK
  <1>2. PostsOnce' /\ NamesItself' /\ OnRoute'
    BY <1>m DEF PublishingIInv, PostsOnce, NamesItself, OnRoute, Unsent, Route
  <1>3. RowsBound' /\ LedgerIsReal'
    BY <1>m, RecordsTyped DEF PublishingIInv, RowsBound, LedgerIsReal, SamePost
  <1>4. KeptPosted' /\ StoredIsReal'
    BY <1>m DEF PublishingIInv, KeptPosted, StoredIsReal, SamePost
  <1>5. HeldIsReal'
    BY <1>m DEF PublishingIInv, HeldIsReal, Holding, SamePost
  <1>6. EvidencedIsStored' /\ CoveredIsPast'
    BY <1>m DEF PublishingIInv, EvidencedIsStored, CoveredIsPast
  <1>7. PublishedIsBacked'
    BY <1>m DEF PublishingIInv, PublishedIsBacked, Route, Ended
  <1> QED
    BY <1>1, <1>2, <1>3, <1>4, <1>5, <1>6, <1>7 DEF PublishingIInv

\* A crash keeps the invariant.
LEMMA CrashKeeps ==
  ASSUME PublishingIInv, Crash
  PROVE  PublishingIInv'
  <1>m. /\ kept' = {} /\ pc \in [Calls -> Places]
        /\ pc' = [c \in Calls |-> IF Active(c) THEN "failed" ELSE pc[c]]
        /\ posted \in [Calls -> Nat] /\ source \in [Calls -> Calls]
        /\ UNCHANGED <<asked, artifact, tries, rounds, posted, source, rows, receipts, ledger,
                       releaseStatus, media, verified, covered>>
    BY DEF Crash, progress, production, PublishingIInv, PublishingTypeOK
  <1>p. \A c \in Calls : \/ pc'[c] = pc[c] /\ pc[c] \in {"idle", "ok", "failed"}
                         \/ pc'[c] = "failed" /\ pc[c] # "idle"
    <2>1. \A c \in Calls : pc'[c] = IF Active(c) THEN "failed" ELSE pc[c]
      BY <1>m
    <2> QED
      BY <2>1 DEF Active, Ended
  <1>1. PublishingTypeOK'
    <2>1. pc' \in [Calls -> Places]
      BY <1>m DEF Places, Ended
    <2> QED
      BY <1>m, <2>1 DEF PublishingIInv, PublishingTypeOK
  <1>2. PostsOnce' /\ NamesItself' /\ OnRoute'
    BY <1>m, <1>p DEF PublishingIInv, PostsOnce, NamesItself, OnRoute, Unsent, Route
  <1>3. RowsBound' /\ LedgerIsReal'
    BY <1>m, <1>p, RecordsTyped DEF PublishingIInv, RowsBound, LedgerIsReal, SamePost
  <1>4. KeptPosted' /\ StoredIsReal'
    BY <1>m DEF PublishingIInv, KeptPosted, StoredIsReal, SamePost
  <1>5. HeldIsReal'
    BY <1>m, <1>p DEF PublishingIInv, HeldIsReal, Holding, SamePost
  <1>6. EvidencedIsStored' /\ CoveredIsPast'
    BY <1>m, <1>p DEF PublishingIInv, EvidencedIsStored, CoveredIsPast
  <1>7. PublishedIsBacked'
    BY <1>m, <1>p DEF PublishingIInv, PublishedIsBacked, Route, Ended
  <1> QED
    BY <1>1, <1>2, <1>3, <1>4, <1>5, <1>6, <1>7 DEF PublishingIInv

\* A step of another run of the release, and a step of nobody.
LEMMA ProducesKeeps ==
  ASSUME PublishingIInv,
         RenderAgain \/ RecordArtifact \/ UNCHANGED publishingVars
  PROVE  PublishingIInv'
  <1>m. /\ UNCHANGED <<asked, pc, artifact, tries, rounds, posted, source, kept, rows, receipts,
                       ledger, covered>>
        /\ releaseStatus' \in {releaseStatus, "producing", "review"}
        /\ media' \in Artifacts
        /\ verified' = verified \/ verified' = Append(verified, media)
    BY DEF RenderAgain, RecordArtifact, publishingVars, progress, store, production,
           PublishingIInv, PublishingTypeOK
  <1>1. PublishingTypeOK'
    <2>1. verified \in Seq(Artifacts) /\ verified # <<>> /\ media \in Artifacts
      BY DEF PublishingIInv, PublishingTypeOK
    <2>2. Append(verified, media) \in Seq(Artifacts) /\ Append(verified, media) # <<>>
      BY <2>1
    <2>3. verified' \in Seq(Artifacts) \ {<<>>}
      BY <1>m, <2>1, <2>2
    <2> QED
      BY <1>m, <2>3 DEF PublishingIInv, PublishingTypeOK
  <1>2. (PostsOnce /\ NamesItself /\ OnRoute /\ RowsBound /\ KeptPosted /\ HeldIsReal)'
    BY <1>m DEF PublishingIInv, PostsOnce, NamesItself, OnRoute, RowsBound, KeptPosted,
       HeldIsReal, Holding, SamePost, Route
  <1>3. (StoredIsReal /\ LedgerIsReal /\ EvidencedIsStored /\ CoveredIsPast)'
    BY <1>m DEF PublishingIInv, StoredIsReal, LedgerIsReal, EvidencedIsStored, CoveredIsPast,
       SamePost
  <1>4. PublishedIsBacked'
    BY <1>m DEF PublishingIInv, PublishedIsBacked, Route
  <1> QED
    BY <1>1, <1>2, <1>3, <1>4 DEF PublishingIInv

\* What a step of a call is, seen from the other calls.
LEMMA CallStepKinds ==
  ASSUME PublishingIInv, NEW c \in Calls, CallStep(c)
  PROVE  \/ PublishGate(c) \/ LookUp(c) \/ CreateRequest(c) \/ StartAdapter(c)
         \/ CreateReceipt(c) \/ MarkPublished(c)
         \/ \E q : Sends(c, q)
         \/ \E p : Walks(c, p)
         \/ \E p : Reports(c, p)
  <1>1. CASE ApproveRequest(c) \/ RequestAndApprove(c) \/ AnswerOwner(c) \/ CallFails(c)
    BY <1>1 DEF ApproveRequest, RequestAndApprove, AnswerOwner, CallFails, Active, Goto, Walks,
       Ended
  <1>2. CASE AppendEvidence(c) \/ AnswerTest(c)
    <2>1. AppendEvidence(c) => Reports(c, "evidenced")
      BY DEF AppendEvidence, Goto, Reports, Evidenced
    <2>2. AnswerTest(c) => Reports(c, "ok")
      BY DEF AnswerTest, Goto, Reports
    <2> QED
      BY <1>2, <2>1, <2>2
  <1>3. CASE PlatformRequest(c)
    BY <1>3, PlatformSends DEF PublishingIInv
  <1> QED
    BY <1>1, <1>2, <1>3 DEF CallStep

\* Every step of publishing keeps its invariant.
LEMMA StepKeeps == PublishingIInv /\ [PublishingNext]_publishingVars => PublishingIInv'
  <1> SUFFICES ASSUME PublishingIInv, [PublishingNext]_publishingVars
               PROVE  PublishingIInv'
    OBVIOUS
  <1>1. ASSUME NEW c \in Calls, CallStep(c) PROVE PublishingIInv'
    BY <1>1, CallStepKinds, GateKeeps, LookUpKeeps, CreateRequestKeeps, StartKeeps,
       ReceiptKeeps, MarkKeeps, SendsKeeps, WalksKeeps, ReportsKeeps
  <1> QED
    BY <1>1, CrashKeeps, ProducesKeeps DEF PublishingNext

\* The inductive invariant: what a call has posted, where, and what names it, in
\* every state of the publish route and the adapters.
THEOREM PublishingIInvAlways == PublishingSpec => []PublishingIInv
  BY InitIInv, StepKeeps, PTL DEF PublishingSpec

\* Every variable of the publishing model keeps its type (the statements of the
\* catalog and the adapters that assign them).
THEOREM PublishingTypeAlways == PublishingSpec => []PublishingTypeOK
  <1>1. PublishingIInv => PublishingTypeOK
    BY DEF PublishingIInv
  <1> QED
    BY <1>1, PublishingIInvAlways, PTL

\* A success, a stored receipt, a ledger event and a published release are all
\* backed by a post (executeYouTubePublish and the adapters).
THEOREM PublicationBackedAlways == PublishingSpec => []PublicationBacked
  <1>1. PublishingIInv => PublicationBacked
    BY DEF PublishingIInv, PublicationBacked, ReceiptsAreReal, HeldIsReal, Holding, StoredIsReal,
           LedgerIsReal
  <1> QED
    BY <1>1, PublishingIInvAlways, PTL

\* A call that finds a kept receipt posts nothing (the receipts Map of the adapters).
THEOREM KeptReceiptReplayedAlways == PublishingSpec => []KeptReceiptReplayed
  <1>1. PublishingIInv => KeptReceiptReplayed
    BY DEF PublishingIInv, KeptReceiptReplayed, CoveredIsPast
  <1> QED
    BY <1>1, PublishingIInvAlways, PTL

-----------------------------------------------------------------------------
(* The contract.                                                           *)

answers == [c \in Calls |-> Answer(c)]

\* The first states are first states of the contract.
LEMMA InitContract ==
  ASSUME PublishingInit
  PROVE  Promise!ContractInit
  BY DEF PublishingInit, Promise!ContractInit, Answer

\* A step that answers nobody and posts nothing.
LEMMA StepStutters ==
  ASSUME PublishingIInv, NEW c \in Calls, NEW p,
         pc' = [pc EXCEPT ![c] = p], p \notin Ended, pc[c] \notin Ended,
         \A k \in Calls : k # c => source'[k] = source[k],
         UNCHANGED <<asked, posted>>
  PROVE  UNCHANGED <<posted, answers>>
  <1>1. \A k \in Calls : Answer(k)' = Answer(k)
    BY DEF PublishingIInv, PublishingTypeOK, Answer, Route, Ended
  <1> QED
    BY <1>1 DEF answers

\* A call that ends, for the others nothing.
LEMMA EndsAlone ==
  ASSUME PublishingIInv, NEW c \in Calls, NEW p, pc' = [pc EXCEPT ![c] = p],
         UNCHANGED <<asked, source>>
  PROVE  answers' = [answers EXCEPT ![c] = Answer(c)']
  <1>1. \A k \in Calls : k # c => Answer(k)' = Answer(k)
    BY DEF PublishingIInv, PublishingTypeOK, Answer, Route
  <1> QED
    BY <1>1 DEF answers

\* A call that fails, with its post made or not, fails alone.
LEMMA FailsAlone ==
  ASSUME PublishingIInv, NEW c \in Calls, Active(c), pc' = [pc EXCEPT ![c] = "failed"],
         UNCHANGED <<asked, source>>,
         posted' = posted \/ (posted[c] = 0 /\ posted' = [posted EXCEPT ![c] = 1])
  PROVE  Promise!Fail({c})
  <1>1. Answer(c)' = Failure /\ Answer(c) = NoAnswer
    BY DEF PublishingIInv, PublishingTypeOK, Answer, Active, Ended
  <1>2. answers' = [k \in Calls |-> IF k \in {c} THEN Failure ELSE answers[k]]
    BY <1>1, EndsAlone DEF answers
  <1> QED
    BY <1>1, <1>2 DEF Promise!Fail, answers

\* A step that ends with a receipt of the call, its own if it has posted.
LEMMA SucceedsAlone ==
  ASSUME PublishingIInv, NEW c \in Calls, Holding(c), pc[c] \notin Ended,
         Route(c) # "publish" \/ asked[c].destination = "youtube",
         pc' = [pc EXCEPT ![c] = "ok"], UNCHANGED <<asked, source, posted>>
  PROVE  Promise!Succeed(c, source[c])
  <1>1. Answer(c)' = source[c] /\ Answer(c) = NoAnswer
    BY DEF PublishingIInv, PublishingTypeOK, Answer, Route, Ended
  <1>2. posted[source[c]] = 1 /\ (posted[c] = 1 => source[c] = c)
    BY DEF PublishingIInv, HeldIsReal, NamesItself
  <1>3. answers' = [answers EXCEPT ![c] = source[c]]
    BY <1>1, EndsAlone
  <1> QED
    BY <1>1, <1>2, <1>3 DEF Promise!Succeed, answers

\* A request to a platform makes the post, or fails the call, or neither.
LEMMA SendsContract ==
  ASSUME PublishingIInv, NEW c \in Calls, NEW q, Sends(c, q)
  PROVE  [Promise!ContractNext]_<<posted, answers>>
  <1>m. /\ pc' = [pc EXCEPT ![c] = q] /\ pc[c] \in Requesting
        /\ q \in Requesting \cup {"received", "failed"}
        /\ UNCHANGED <<asked, source>>
    BY DEF Sends, Moves
  <1>p. posted' = posted \/ (posted[c] = 0 /\ posted' = [posted EXCEPT ![c] = 1])
    BY DEF Sends, PublishingIInv, PublishingTypeOK, PostsOnce
  <1>1. CASE q = "failed"
    <2>1. Active(c)
      BY <1>m DEF Active, Ended, Requesting
    <2>2. Promise!Fail({c})
      BY <1>1, <1>m, <1>p, <2>1, FailsAlone
    <2> QED
      BY <2>2 DEF Promise!ContractNext
  <1>2. CASE q # "failed"
    <2>1. \A k \in Calls : Answer(k)' = Answer(k)
      BY <1>2, <1>m DEF PublishingIInv, PublishingTypeOK, Answer, Route, Requesting
    <2>2. UNCHANGED answers
      BY <2>1 DEF answers
    <2>3. Answer(c) = NoAnswer
      BY <1>m DEF Answer, Requesting
    <2>4. posted[c] = 0 /\ posted' = [posted EXCEPT ![c] = 1] => Promise!MakePost(c)
      BY <2>2, <2>3 DEF Promise!MakePost, answers
    <2> QED
      BY <1>p, <2>2, <2>4 DEF Promise!ContractNext
  <1> QED
    BY <1>1, <1>2

\* A step on the way to the post is a step of the contract, or none.
LEMMA WalksContract ==
  ASSUME PublishingIInv, NEW c \in Calls, NEW p, Walks(c, p)
  PROVE  [Promise!ContractNext]_<<posted, answers>>
  <1>m. pc' = [pc EXCEPT ![c] = p] /\ UNCHANGED <<asked, source, posted>>
    BY DEF Walks
  <1>1. CASE p = "approved"
    <2>1. pc[c] \notin Ended
      BY <1>1 DEF Walks, Ended
    <2> QED
      BY <1>1, <1>m, <2>1, StepStutters DEF Ended
  <1>2. CASE p = "failed" /\ Active(c)
    BY <1>2, <1>m, FailsAlone DEF Promise!ContractNext
  <1>3. CASE p = "ok" /\ pc[c] = "marked" /\ asked[c].destination = "youtube"
    <2>1. Promise!Succeed(c, source[c])
      BY <1>3, <1>m, SucceedsAlone DEF Holding, Ended
    <2>2. source[c] \in Calls
      BY DEF PublishingIInv, PublishingTypeOK
    <2> QED
      BY <2>1, <2>2 DEF Promise!ContractNext
  <1>4. CASE p = "ok" /\ pc[c] = "marked" /\ asked[c].destination # "youtube"
    <2>1. Route(c) = "publish"
      BY <1>4 DEF PublishingIInv, OnRoute
    <2>2. Answer(c) = NoAnswer /\ Answer(c)' = NoAnswer
      BY <1>4, <1>m, <2>1 DEF PublishingIInv, PublishingTypeOK, Answer, Route
    <2>3. UNCHANGED answers
      BY <1>m, <2>2, EndsAlone DEF answers
    <2> QED
      BY <1>m, <2>3
  <1> QED
    BY <1>1, <1>2, <1>3, <1>4 DEF Walks

\* An answer that is reported is a step of the contract.
LEMMA ReportsContract ==
  ASSUME PublishingIInv, NEW c \in Calls, NEW p, Reports(c, p)
  PROVE  [Promise!ContractNext]_<<posted, answers>>
  <1>m. pc' = [pc EXCEPT ![c] = p] /\ UNCHANGED <<asked, source, posted>>
    BY DEF Reports
  <1>1. CASE pc[c] = "stored" /\ p = "evidenced"
    BY <1>1, <1>m, StepStutters DEF Ended
  <1>2. CASE pc[c] = "received" /\ p = "ok" /\ Route(c) # "publish"
    <2>1. Promise!Succeed(c, source[c])
      BY <1>2, <1>m, SucceedsAlone DEF Holding, Ended
    <2>2. source[c] \in Calls
      BY DEF PublishingIInv, PublishingTypeOK
    <2> QED
      BY <2>1, <2>2 DEF Promise!ContractNext
  <1> QED
    BY <1>1, <1>2 DEF Reports

\* A crash is a step of the contract.
LEMMA CrashContract ==
  ASSUME PublishingIInv, Crash
  PROVE  Promise!ContractNext
  <1> DEFINE Dying == {c \in Calls : Active(c)}
  <1>1. \A c \in Calls : pc'[c] = IF Active(c) THEN "failed" ELSE pc[c]
    BY DEF Crash
  <1>2. \A c \in Calls : Answer(c)' = IF c \in Dying THEN Failure ELSE Answer(c)
    BY <1>1 DEF Crash, Answer, Route
  <1>3. \A c \in Dying : Answer(c) = NoAnswer
    BY DEF Answer, Active, Ended
  <1>4. posted' = posted
    BY DEF Crash
  <1> HIDE DEF Dying
  <1>5. Dying \in SUBSET Calls
    BY DEF Dying
  <1>6. answers' = [c \in Calls |-> IF c \in Dying THEN Failure ELSE answers[c]]
    BY <1>2 DEF answers
  <1>7. Promise!Fail(Dying)
    BY <1>3, <1>4, <1>5, <1>6 DEF Promise!Fail, answers
  <1> QED
    BY <1>5, <1>7 DEF Promise!ContractNext

\* The steps of the publish route and the adapters before anything is sent.
LEMMA PreparesContract ==
  ASSUME PublishingIInv, NEW c \in Calls,
         PublishGate(c) \/ LookUp(c) \/ CreateRequest(c) \/ StartAdapter(c) \/ CreateReceipt(c)
           \/ MarkPublished(c)
  PROVE  UNCHANGED <<posted, answers>>
  <1> DEFINE Prepared == {"gated", "looked", "requested", "evidenced", "received", "stored",
                          "marked"} \cup Requesting
  <1>1. \E p \in Prepared : pc' = [pc EXCEPT ![c] = p]
    BY DEF PublishGate, LookUp, CreateRequest, StartAdapter, CreateReceipt, MarkPublished, Goto,
       FirstRequest, Requesting
  <1>2. pc[c] \notin Ended
    BY DEF PublishGate, LookUp, At, CreateRequest, StartAdapter, CreateReceipt, MarkPublished,
       Markable, Ended
  <1>3. UNCHANGED <<asked, posted>>
    BY DEF PublishGate, LookUp, CreateRequest, StartAdapter, CreateReceipt, MarkPublished
  <1>4. \A k \in Calls : k # c => source'[k] = source[k]
    BY DEF PublishGate, LookUp, CreateRequest, StartAdapter, CreateReceipt, MarkPublished,
       PublishingIInv, PublishingTypeOK
  <1>5. \A p \in Prepared : p \notin Ended
    BY DEF Requesting, Ended
  <1> QED
    BY <1>1, <1>2, <1>3, <1>4, <1>5, StepStutters

\* Every step of publishing is a step of the contract, or none.
LEMMA StepContract ==
  ASSUME PublishingIInv, [PublishingNext]_publishingVars
  PROVE  [Promise!ContractNext]_<<posted, answers>>
  <1>1. ASSUME NEW c \in Calls, CallStep(c) PROVE [Promise!ContractNext]_<<posted, answers>>
    BY <1>1, CallStepKinds, PreparesContract, SendsContract, WalksContract, ReportsContract
  <1>2. CASE RenderAgain \/ RecordArtifact \/ UNCHANGED publishingVars
    <2>1. UNCHANGED <<asked, pc, source, posted>>
      BY <1>2 DEF RenderAgain, RecordArtifact, publishingVars
    <2> QED
      BY <2>1 DEF answers, Answer, Route
  <1> QED
    BY <1>1, <1>2, CrashContract DEF PublishingNext

\* Publishing implements the contract of a publishing call: at most one post for
\* a call, and a success that names a post, its own if it made one.
THEOREM PublishContractImplemented == PublishingSpec => PublishContractKept
  <1>1. PublishingInit => Promise!ContractInit
    BY InitContract
  <1>2. PublishingIInv /\ [PublishingNext]_publishingVars
          => [Promise!ContractNext]_<<posted, answers>>
    BY StepContract
  <1> QED
    BY <1>1, <1>2, PublishingIInvAlways, PTL
       DEF PublishingSpec, PublishContractKept, Promise!ContractSpec, answers

-----------------------------------------------------------------------------
(* A release and its plans together.                                       *)


\* A step is of one part, and leaves the variables of the others alone.
LEMMA OutputMoves ==
  ASSUME [OutputNext]_outputVars
  PROVE  /\ UNCHANGED part
         /\ [PublishingNext]_publishingVars /\ [MediaNext]_mediaVars /\ [RenderNext]_renderVars
         /\ [GenerationNext]_generationVars /\ [EpisodeNext]_episodeVars
         /\ [NewsNext]_newsVars /\ [StoryNext]_storyVars
<1>1. UNCHANGED part
  BY DEF OutputNext, outputVars
<1>2. [PublishingNext]_publishingVars
  BY DEF OutputNext, outputVars
<1>3. [MediaNext]_mediaVars
  BY DEF OutputNext, outputVars
<1>4. [RenderNext]_renderVars
  BY DEF OutputNext, outputVars
<1>5. [GenerationNext]_generationVars
  BY DEF OutputNext, outputVars
<1>6. [EpisodeNext]_episodeVars
  BY DEF OutputNext, outputVars
<1>7. [NewsNext]_newsVars
  BY DEF OutputNext, outputVars
<1>8. [StoryNext]_storyVars
  BY DEF OutputNext, outputVars
<1> QED
  BY <1>1, <1>2, <1>3, <1>4, <1>5, <1>6, <1>7, <1>8

\* The invariants of all the parts, whichever is looked at.
OutputInv ==
  /\ part \in Pieces
  /\ PublishingIInv /\ MediaInv /\ RenderInv /\ GenerationInv /\ PackageInv /\ NewsInv
  /\ StoryPlansInv

\* No part disturbs the invariant of another.
LEMMA OutputInvHolds == OutputSpec => []OutputInv
<1>1. OutputInit => OutputInv
  BY InitIInv, InitMediaInv, InitRenderInv, InitGenerationInv, InitPackageInv, InitNewsInv,
     InitStoryPlansInv DEF OutputInit, OutputInv
<1>2. OutputInv /\ [OutputNext]_outputVars => OutputInv'
  <2> SUFFICES ASSUME OutputInv, [OutputNext]_outputVars PROVE OutputInv'
    OBVIOUS
  <2>1. (part \in Pieces)'
    BY OutputMoves DEF OutputInv, Pieces
  <2>2. PublishingIInv' /\ MediaInv' /\ RenderInv' /\ GenerationInv'
    BY OutputMoves, StepKeeps, MediaStep, RenderStep, GenerationStep DEF OutputInv
  <2>3. PackageInv' /\ NewsInv' /\ StoryPlansInv'
    BY OutputMoves, EpisodeStep, NewsStep, StoryPlansStep DEF OutputInv
  <2> QED
    BY <2>1, <2>2, <2>3 DEF OutputInv
<1> QED
  BY <1>1, <1>2, PTL DEF OutputSpec

\* Every variable of the parts keeps its type, in every behaviour of any of them.
THEOREM OutputTypes == OutputSpec => []OutputTypeOK
<1>1. OutputInv => OutputTypeOK
  <2> SUFFICES ASSUME OutputInv PROVE OutputTypeOK
    OBVIOUS
  <2>1. PublishingTypeOK /\ MediaTypeOK /\ RenderTypeOK
    BY MediaTyped, RenderTyped DEF OutputInv, PublishingIInv
  <2>2. GenerationTypeOK /\ EpisodeTypeOK /\ NewsTypeOK /\ StoryTypeOK
    BY GenerationTyped, EpisodeTyped, NewsTyped, StoryTyped DEF OutputInv
  <2> QED
    BY <2>1, <2>2 DEF OutputTypeOK, OutputInv
<1> QED
  BY <1>1, OutputInvHolds, PTL

\* What a stage records is what was rendered, and what counts as generated is what the
\* provider that was asked made, in every behaviour of the parts of a release.
THEOREM RendersHeld == OutputSpec => []RendersHold
<1>1. OutputInv => RendersHold
  BY MediaRecorded, OutcomesClaimed DEF OutputInv, RendersHold
<1> QED
  BY <1>1, OutputInvHolds, PTL

\* What is computed is of what was asked for: a render of its plan, a plan for the news of
\* its sources, a story's stages of each other, in every behaviour of the parts of a release.
THEOREM PlansHeld == OutputSpec => []PlansHold
<1>1. OutputInv => PlansHold
  BY RenderPlansSound, NewsGrounded, StoryAgreed DEF OutputInv, PlansHold
<1> QED
  BY <1>1, OutputInvHolds, PTL

\* The cues of a narration are its words at their times, for the news and for a story.
THEOREM CuesHeld == OutputSpec => []CuesHold
<1>1. OutputInv => CuesHold
  BY NewsCued, StoryCued DEF OutputInv, CuesHold
<1> QED
  BY <1>1, OutputInvHolds, PTL
=============================================================================
