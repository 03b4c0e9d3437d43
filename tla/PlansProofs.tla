------------------------------ MODULE PlansProofs ------------------------------
(***************************************************************************)
(* Proofs about what is planned: a render of what was ordered, a video of  *)
(* the news from its sources, and the stages of a story; for any files,    *)
(* lengths and assembly plans, any sources and narrations, and any briefs  *)
(* and owners.                                                             *)
(***************************************************************************)
EXTENDS RenderPlans, CuesProofs

-----------------------------------------------------------------------------
(* Renders.                                                                *)

SegmentRows ==
  [ref : DOMAIN RenderFiles, kind : VisualKinds \cup AudioKinds, seconds : Nat,
   transition : {"cut", "fade", "dissolve", "wipe"}]
TrackRows == [ref : DOMAIN RenderFiles, role : AudioKinds, ducking : BOOLEAN]
InputRows == [ref : DOMAIN RenderFiles, looped : BOOLEAN, for : Nat]

PlanTyped(p) ==
  /\ p.target \in {Main} \cup Reels /\ p.segments \in Seq(SegmentRows)
  /\ p.mix \in Seq(TrackRows)

\* Shown for the time it has: a still, or a clip that is looped.
Timed(segment) ==
  /\ segment.seconds > 0
  /\ segment.kind = "video_clip" \/ RenderFiles[segment.ref].type = "image"

\* A plan of the runner: one picture or two, each timed, and the narration.
RunnerMade(p) ==
  /\ p.mix = <<>>
  /\ \E n \in 1..2 :
       /\ Len(p.segments) = n + 1
       /\ p.segments[n + 1] = Cut("narration", "voice", 0, "cut")
       /\ \A i \in 1..n : p.segments[i].kind \in VisualKinds /\ Timed(p.segments[i])

OrderedPlan(p) == PlanTyped(p) /\ (p \in LibraryPlans \/ RunnerMade(p))

\* What RenderedAsPlanned says of an accepted render.
Faithful(a) ==
  LET cuts == {i \in DOMAIN a.plan.segments : a.plan.segments[i].kind \in VisualKinds}
      timed == \A i \in cuts :
                 /\ a.plan.segments[i].seconds > 0
                 /\ \/ a.plan.segments[i].kind = "video_clip"
                    \/ RenderFiles[a.plan.segments[i].ref].type = "image"
      window == IF a.plan.target = Main THEN (MainMin - Overrun)..MainMax
                ELSE (ShortMin - Overrun)..ShortMax
  IN /\ a.plan = a.id /\ cuts # {}
     /\ timed => a.video = SumFunction([i \in cuts |-> a.plan.segments[i].seconds])
     /\ a.video \in window /\ a.audio <= a.video + Overrun
     /\ a.configured > 0 =>
          /\ a.video + 160 >= a.configured
          /\ a.video <= a.configured + TargetTolerance
     /\ \A i \in cuts : a.plan.segments[i].transition = "wipe" =>
          <<"wipe_rendered_as_fade", i>> \in a.said

\* The narration of the runner's renders is too long for a reel, or too short for an episode.
NarrationTells(a) ==
  a.plan \notin LibraryPlans =>
    /\ a.plan.target = Main => narrationLength >= 17850
    /\ a.plan.target # Main => narrationLength <= 900

RenderInv ==
  /\ narrationLength \in NarrationLengths /\ ordered \in 0..RendersOrdered
  /\ order = [at |-> order.at, plan |-> order.plan, id |-> order.id,
              configured |-> order.configured, bound |-> order.bound,
              command |-> order.command]
  /\ order.at \in {"none", "planned", "built", "rendered"} /\ order.configured \in Nat
  /\ order.at # "none" => OrderedPlan(order.id)
  /\ order.at \in {"built", "rendered"} =>
       \E p : order.plan = p /\ order.id = p /\ order.command = {Command(p)}
  /\ order.at \notin {"built", "rendered"} => order.command = {}
  /\ \A a \in accepted :
       a.video \in Nat /\ a.audio \in Nat /\ Faithful(a) /\ NarrationTells(a)

\* A file has its length, which is that of the release's narration for the narration.
LEMMA FileTyped ==
  ASSUME NEW ref \in DOMAIN RenderFiles, narrationLength \in NarrationLengths
  PROVE  /\ File(ref).type = RenderFiles[ref].type /\ File(ref).claims \in Nat
         /\ File(ref).length \in Nat
         /\ ref = "narration" => File(ref).length = narrationLength
<1>1. RenderFiles[ref] \in [type : {"image", "video", "audio"}, claims : Nat, length : Nat,
                            picture : BOOLEAN, sound : BOOLEAN]
  BY RenderAssumption
<1>2. narrationLength \in Nat
  BY RenderAssumption
<1> QED
  BY <1>1, <1>2 DEF File

\* An input is of a file, and as long as the file or the slot.
LEMMA InputTyped ==
  ASSUME NEW s \in SegmentRows, narrationLength \in NarrationLengths
  PROVE  /\ InputOf(s) \in InputRows
         /\ Lasts(InputOf(s)) \in Nat
         /\ Timed(s) => InputOf(s) = Input(s.ref, TRUE, s.seconds) /\ Lasts(InputOf(s)) = s.seconds
<1>1. s.ref \in DOMAIN RenderFiles /\ s.seconds \in Nat
  BY DEF SegmentRows
<1>2. Seconds(s) \in Nat /\ (s.seconds > 0 => Seconds(s) = s.seconds)
  BY <1>1, FileTyped DEF Seconds
<1>3. \E looped \in BOOLEAN, for \in Nat :
        InputOf(s) = Input(s.ref, looped, for) /\ (looped \/ for = 0)
  BY <1>2 DEF InputOf
<1>4. PICK looped \in BOOLEAN, for \in Nat :
        InputOf(s) = Input(s.ref, looped, for) /\ (looped \/ for = 0)
  BY <1>3
<1>5. InputOf(s) \in InputRows
  BY <1>1, <1>4 DEF Input, InputRows
<1>6. Lasts(InputOf(s)) \in Nat
  BY <1>1, <1>4, FileTyped DEF Lasts, Input
<1>7. ASSUME Timed(s)
      PROVE  InputOf(s) = Input(s.ref, TRUE, s.seconds) /\ Lasts(InputOf(s)) = s.seconds
  <2>1. InputOf(s) = Input(s.ref, TRUE, s.seconds)
    BY <1>1, <1>2, <1>7, FileTyped DEF Timed, InputOf
  <2> QED
    BY <2>1 DEF Lasts, Input
<1> QED
  BY <1>5, <1>6, <1>7

\* The inputs of a command are the segments and then the tracks.
LEMMA CommandInputs ==
  ASSUME NEW p, PlanTyped(p), narrationLength \in NarrationLengths
  PROVE  /\ Len(p.segments) \in Nat /\ DOMAIN p.segments = 1..Len(p.segments)
         /\ Len(p.mix) \in Nat /\ DOMAIN p.mix = 1..Len(p.mix)
         /\ DOMAIN Command(p).inputs = 1..(Len(p.segments) + Len(p.mix))
         /\ \A i \in 1..Len(p.segments) :
              /\ p.segments[i] \in SegmentRows
              /\ Command(p).inputs[i] = InputOf(p.segments[i])
         /\ \A k \in 1..Len(p.mix) :
              /\ p.mix[k] \in TrackRows
              /\ Command(p).inputs[Len(p.segments) + k] = Input(p.mix[k].ref, FALSE, 0)
<1>1. PICK m \in Nat, n \in Nat : m = Len(p.segments) /\ n = Len(p.mix)
  BY DEF PlanTyped
<1>2. /\ DOMAIN p.segments = 1..m /\ DOMAIN p.mix = 1..n
      /\ \A i \in 1..m : p.segments[i] \in SegmentRows
      /\ \A k \in 1..n : p.mix[k] \in TrackRows
  BY <1>1 DEF PlanTyped
<1>3. PICK one, two : /\ one = [i \in DOMAIN p.segments |-> InputOf(p.segments[i])]
                      /\ two = [k \in DOMAIN p.mix |-> Input(p.mix[k].ref, FALSE, 0)]
  OBVIOUS
<1>4. Command(p).inputs = one \o two
  BY <1>3 DEF Command
<1>5. one \in [1..m -> InputRows] /\ \A i \in 1..m : one[i] = InputOf(p.segments[i])
  BY <1>2, <1>3, InputTyped
<1>6. two \in [1..n -> InputRows] /\ \A k \in 1..n : two[k] = Input(p.mix[k].ref, FALSE, 0)
  <2>1. \A k \in 1..n : Input(p.mix[k].ref, FALSE, 0) \in InputRows
    BY <1>2 DEF TrackRows, Input, InputRows
  <2> QED
    BY <1>2, <1>3, <2>1
<1>7. /\ one \in Seq(InputRows) /\ Len(one) = m /\ two \in Seq(InputRows) /\ Len(two) = n
  <2> HIDE DEF InputRows
  <2> QED
    BY <1>5, <1>6
<1>8. /\ one \o two \in Seq(InputRows) /\ Len(one \o two) = m + n
      /\ \A i \in 1..m : (one \o two)[i] = one[i]
      /\ \A k \in 1..n : (one \o two)[m + k] = two[k]
  <2> HIDE DEF InputRows
  <2> QED
    BY <1>7
<1>9. DOMAIN (one \o two) = 1..(m + n)
  BY <1>7, <1>8
<1> HIDE DEF SegmentRows, TrackRows, InputRows
<1> QED
  BY <1>1, <1>2, <1>4, <1>5, <1>6, <1>8, <1>9

\* The lengths a command gives a file.
LEMMA LengthsTyped ==
  ASSUME NEW p, PlanTyped(p), narrationLength \in NarrationLengths
  PROVE  /\ VideoLength(p, Command(p)) \in Nat
         /\ Positions(p, VisualKinds) = {} => VideoLength(p, Command(p)) = 0
         /\ AudioLength(p, Command(p)) \in Nat
<1>1. PICK m \in Nat, n \in Nat : m = Len(p.segments) /\ n = Len(p.mix)
  BY CommandInputs
<1>2. PICK inputs : inputs = Command(p).inputs
  OBVIOUS
<1>3. \A i \in 1..m : Lasts(inputs[i]) \in Nat
  BY <1>1, <1>2, CommandInputs, InputTyped
<1>4. \A k \in 1..n : Lasts(inputs[m + k]) \in Nat
  <2> SUFFICES ASSUME NEW k \in 1..n PROVE Lasts(inputs[m + k]) \in Nat
    OBVIOUS
  <2>1. inputs[m + k] = Input(p.mix[k].ref, FALSE, 0) /\ p.mix[k].ref \in DOMAIN RenderFiles
    BY <1>1, <1>2, CommandInputs DEF TrackRows
  <2> QED
    BY <2>1, FileTyped DEF Lasts, Input
<1>5. ASSUME NEW kinds
      PROVE  /\ Total(Command(p), Positions(p, kinds)) \in Nat
             /\ Positions(p, kinds) = {} => Total(Command(p), Positions(p, kinds)) = 0
  <2>1. PICK S : S = Positions(p, kinds)
    OBVIOUS
  <2>2. S \subseteq 1..m
    BY <1>1, <2>1, CommandInputs DEF Positions
  <2>3. IsFiniteSet(S)
    <3>1. PICK N : N = 1..m /\ IsFiniteSet(N)
      BY FS_Interval
    <3> QED
      BY <2>2, <3>1, FS_Subset
  <2>4. PICK f : f = [i \in S |-> Lasts(inputs[i])]
    OBVIOUS
  <2>5. f \in [S -> Nat]
    BY <1>3, <2>2, <2>4
  <2>6. SumFunction(f) \in Nat /\ (S = {} => SumFunction(f) = 0)
    BY <2>3, <2>5, SumIsNat
  <2> QED
    BY <1>2, <2>1, <2>4, <2>6 DEF Total
<1>6. AudioLength(p, Command(p)) \in Nat
  <2>1. PICK R : R = {Lasts(inputs[m + k]) : k \in 1..n}
    OBVIOUS
  <2>2. PICK t \in Nat : t = Total(Command(p), Positions(p, AudioKinds))
    BY <1>5
  <2>3. IsFiniteSet(R)
    <3>1. PICK N : N = 1..n /\ IsFiniteSet(N)
      BY FS_Interval
    <3>2. PICK f : f = [k \in N |-> Lasts(inputs[m + k])]
      OBVIOUS
    <3>3. f \in Surjection(N, R)
      BY <2>1, <3>1, <3>2 DEF Surjection
    <3> QED
      BY <3>1, <3>3, FS_Surjection
  <2>4. R \subseteq Nat
    BY <1>4, <2>1
  <2>5. IsFiniteSet({t} \cup R) /\ {t} \cup R \subseteq Nat /\ {t} \cup R # {}
    BY <2>2, <2>3, <2>4, FS_Singleton, FS_Union
  <2>6. Max({t} \cup R) \in {t} \cup R
    BY <2>5, MaxIn
  <2>7. AudioLength(p, Command(p)) = Max({t} \cup R)
    <3>1. DOMAIN p.mix = 1..n
      BY <1>1, CommandInputs
    <3> QED
      BY <1>1, <1>2, <2>1, <2>2, <3>1 DEF AudioLength
  <2> QED
    BY <2>5, <2>6, <2>7
<1> QED
  BY <1>5, <1>6 DEF VideoLength

\* A label that one filter takes, and the output does not, is used once; and so is one
\* that no filter takes and that is the picture or the sound of the output.
LEMMA UsedByFilter ==
  ASSUME NEW c, NEW label, label \notin c.video, label \notin c.audio,
         NEW f \in c.graph, label \in f.ins, \A g \in c.graph : label \in g.ins => g = f
  PROVE  Uses(c, label) = 1
<1>1. {g \in c.graph : label \in g.ins} = {f}
  OBVIOUS
<1>2. {end \in {"video", "audio"} : label \in c[end]} = {}
  OBVIOUS
<1>3. Cardinality({f}) = 1 /\ Cardinality({}) = 0
  BY FS_EmptySet, FS_Singleton
<1> QED
  BY <1>1, <1>2, <1>3 DEF Uses

\* A label that no filter takes is used by the end that names it, once.
LEMMA UsedByEnd ==
  ASSUME NEW c, NEW label, \A g \in c.graph : label \notin g.ins,
         \/ label \in c.video /\ label \notin c.audio
         \/ label \in c.audio /\ label \notin c.video
  PROVE  Uses(c, label) = 1
<1>1. {g \in c.graph : label \in g.ins} = {}
  OBVIOUS
<1>2. \E end : {e \in {"video", "audio"} : label \in c[e]} = {end}
  <2>1. CASE label \in c.video /\ label \notin c.audio
    <3>1. {e \in {"video", "audio"} : label \in c[e]} = {"video"}
      BY <2>1
    <3> QED
      BY <3>1
  <2>2. CASE label \in c.audio /\ label \notin c.video
    <3>1. {e \in {"video", "audio"} : label \in c[e]} = {"audio"}
      BY <2>2
    <3> QED
      BY <3>1
  <2> QED
    BY <2>1, <2>2
<1>3. PICK end : {e \in {"video", "audio"} : label \in c[e]} = {end}
  BY <1>2
<1>4. Cardinality({end}) = 1 /\ Cardinality({}) = 0
  BY FS_EmptySet, FS_Singleton
<1>5. Cardinality({e \in {"video", "audio"} : label \in c[e]}) = 1
  BY <1>3, <1>4
<1>6. Cardinality({g \in c.graph : label \in g.ins}) = 0
  BY <1>1, <1>4
<1> QED
  BY <1>5, <1>6 DEF Uses

\* Labels are told apart by their letter and their number.
LEMMA LabelsDiffer ==
  ASSUME NEW a, NEW b, NEW i, NEW j
  PROVE  Label(a, i) = Label(b, j) <=> a = b /\ i = j
BY DEF Label

\* The filters of a plan without ducked tracks, by what comes out of them.
LEMMA GraphOf ==
  ASSUME NEW p, \A k \in DOMAIN p.mix : ~Ducked(p, k), NEW f
  PROVE  LET visuals == Positions(p, VisualKinds)
             voices == Positions(p, AudioKinds)
         IN f \in Command(p).graph <=>
              \/ \E i \in visuals : f = Filter({Label("input", i)}, Label("v", i))
              \/ visuals # {} /\ f = Filter(Labels("v", visuals), Label("vcat", 0))
              \/ /\ visuals # {} /\ p.subtitle
                 /\ f = Filter({Label("vcat", 0)}, Label("vsub", 0))
              \/ \E i \in voices : f = Filter({Label("input", i)}, Label("aseg", i))
              \/ /\ Cardinality(voices) > 1
                 /\ f = Filter(Labels("aseg", voices), Label("sega", 0))
              \/ \E k \in DOMAIN p.mix :
                   f = Filter({Label("input", Len(p.segments) + k)}, Label("t", k))
              \/ /\ Cardinality(Mixed(p)) > 1
                 /\ f = Filter(Mixed(p), Label("aout", 0))
<1>1. {k \in DOMAIN p.mix : Ducked(p, k)} = {}
  OBVIOUS
<1>2. f \in VideoFilters(p) <=>
        \/ \E i \in Positions(p, VisualKinds) : f = Filter({Label("input", i)}, Label("v", i))
        \/ /\ Positions(p, VisualKinds) # {}
           /\ f = Filter(Labels("v", Positions(p, VisualKinds)), Label("vcat", 0))
        \/ /\ Positions(p, VisualKinds) # {} /\ p.subtitle
           /\ f = Filter({Label("vcat", 0)}, Label("vsub", 0))
  BY DEF VideoFilters
<1>3. f \in SegmentSound(p) <=>
        \/ \E i \in Positions(p, AudioKinds) : f = Filter({Label("input", i)}, Label("aseg", i))
        \/ /\ Cardinality(Positions(p, AudioKinds)) > 1
           /\ f = Filter(Labels("aseg", Positions(p, AudioKinds)), Label("sega", 0))
  BY DEF SegmentSound
<1>4. f \in TrackFilters(p) <=>
        \E k \in DOMAIN p.mix : f = Filter({Label("input", Len(p.segments) + k)}, Label("t", k))
  BY <1>1 DEF TrackFilters
<1>5. f \in Command(p).graph <=>
        \/ f \in VideoFilters(p) \/ f \in SegmentSound(p) \/ f \in TrackFilters(p)
        \/ Cardinality(Mixed(p)) > 1 /\ f = Filter(Mixed(p), Label("aout", 0))
  BY DEF Command, AudioFilters
<1> QED
  BY <1>2, <1>3, <1>4, <1>5

\* The labels that are mixed.
LEMMA MixedLabels ==
  ASSUME NEW p, \A k \in DOMAIN p.mix : ~Ducked(p, k), NEW x
  PROVE  x \in Mixed(p) <=>
           \/ Cardinality(Positions(p, AudioKinds)) > 1 /\ x = Label("sega", 0)
           \/ /\ ~(Cardinality(Positions(p, AudioKinds)) > 1)
              /\ \E i \in Positions(p, AudioKinds) : x = Label("aseg", i)
           \/ \E k \in DOMAIN p.mix : x = Label("t", k)
<1>1. \A k \in DOMAIN p.mix : Label(IF Ducked(p, k) THEN "d" ELSE "t", k) = Label("t", k)
  OBVIOUS
<1>2. {Label(IF Ducked(p, k) THEN "d" ELSE "t", k) : k \in DOMAIN p.mix}
        = {Label("t", k) : k \in DOMAIN p.mix}
  BY <1>1
<1> QED
  BY <1>2 DEF Mixed, Labels

\* What is mixed is used once, and nothing else is of the sound of the output.
LEMMA MixedUsed ==
  ASSUME NEW p, \A k \in DOMAIN p.mix : ~Ducked(p, k), NEW x \in Mixed(p)
  PROVE  Uses(Command(p), x) = 1
<1>1. PICK c : c = Command(p)
  OBVIOUS
<1>2. c.video = VideoOut(p) /\ c.audio = AudioOut(p)
  BY <1>1 DEF Command
<1>3. PICK name \in {"sega", "aseg", "t"} : \E i : x = Label(name, i)
  BY MixedLabels
<1>4. PICK i : x = Label(name, i)
  BY <1>3
<1>5. x \notin c.video
  BY <1>2, <1>4, LabelsDiffer DEF VideoOut
<1>6. ASSUME NEW f \in c.graph, x \in f.ins
      PROVE  Cardinality(Mixed(p)) > 1 /\ f = Filter(Mixed(p), Label("aout", 0))
  <2>1. ~(\E j : f = Filter({Label("input", j)}, Label("v", j)))
        /\ ~(\E j : f = Filter({Label("input", j)}, Label("aseg", j)))
        /\ ~(\E j, k : f = Filter({Label("input", j)}, Label("t", k)))
    BY <1>4, <1>6, LabelsDiffer DEF Filter
  <2>2. f # Filter(Labels("v", Positions(p, VisualKinds)), Label("vcat", 0))
        /\ f # Filter({Label("vcat", 0)}, Label("vsub", 0))
    BY <1>4, <1>6, LabelsDiffer DEF Filter, Labels
  <2>3. Cardinality(Positions(p, AudioKinds)) > 1
          => f # Filter(Labels("aseg", Positions(p, AudioKinds)), Label("sega", 0))
    <3> SUFFICES ASSUME Cardinality(Positions(p, AudioKinds)) > 1,
                        f = Filter(Labels("aseg", Positions(p, AudioKinds)), Label("sega", 0))
                 PROVE FALSE
      OBVIOUS
    <3>1. \E j : x = Label("aseg", j)
      BY <1>6 DEF Filter, Labels
    <3> QED
      BY <3>1, MixedLabels, LabelsDiffer
  <2>4. PICK visuals, voices :
          visuals = Positions(p, VisualKinds) /\ voices = Positions(p, AudioKinds)
    OBVIOUS
  <2>5. \/ \E j \in visuals : f = Filter({Label("input", j)}, Label("v", j))
        \/ visuals # {} /\ f = Filter(Labels("v", visuals), Label("vcat", 0))
        \/ /\ visuals # {} /\ p.subtitle
           /\ f = Filter({Label("vcat", 0)}, Label("vsub", 0))
        \/ \E j \in voices : f = Filter({Label("input", j)}, Label("aseg", j))
        \/ /\ Cardinality(voices) > 1
           /\ f = Filter(Labels("aseg", voices), Label("sega", 0))
        \/ \E k \in DOMAIN p.mix :
             f = Filter({Label("input", Len(p.segments) + k)}, Label("t", k))
        \/ /\ Cardinality(Mixed(p)) > 1
           /\ f = Filter(Mixed(p), Label("aout", 0))
    BY <1>1, <2>4, GraphOf
  <2> QED
    BY <2>1, <2>2, <2>3, <2>4, <2>5, Zenon
<1>7. CASE Cardinality(Mixed(p)) > 1
  <2>1. PICK f : f = Filter(Mixed(p), Label("aout", 0))
    OBVIOUS
  <2>2. f \in c.graph /\ x \in f.ins
    BY <1>1, <1>7, <2>1, GraphOf DEF Filter
  <2>3. x \notin c.audio
    BY <1>2, <1>4, <1>7, LabelsDiffer DEF AudioOut
  <2> QED
    BY <1>1, <1>5, <1>6, <2>1, <2>2, <2>3, UsedByFilter
<1>8. CASE ~(Cardinality(Mixed(p)) > 1)
  <2>1. x \in c.audio
    BY <1>2, <1>8 DEF AudioOut
  <2>2. \A f \in c.graph : x \notin f.ins
    BY <1>6, <1>8
  <2> QED
    BY <1>1, <1>5, <2>1, <2>2, UsedByEnd
<1> QED
  BY <1>7, <1>8

\* Every label of such a plan that comes out of a filter is used once.
LEMMA GraphIsSound ==
  ASSUME NEW p, \A k \in DOMAIN p.mix : ~Ducked(p, k)
  PROVE  GraphSound(Command(p))
<1>1. PICK c, visuals, voices :
        /\ c = Command(p)
        /\ visuals = Positions(p, VisualKinds) /\ voices = Positions(p, AudioKinds)
  OBVIOUS
<1>2. c.video = VideoOut(p) /\ c.audio = AudioOut(p)
  BY <1>1 DEF Command
<1>3. ASSUME NEW f
      PROVE  f \in c.graph <=>
              \/ \E i \in visuals : f = Filter({Label("input", i)}, Label("v", i))
              \/ visuals # {} /\ f = Filter(Labels("v", visuals), Label("vcat", 0))
              \/ /\ visuals # {} /\ p.subtitle
                 /\ f = Filter({Label("vcat", 0)}, Label("vsub", 0))
              \/ \E i \in voices : f = Filter({Label("input", i)}, Label("aseg", i))
              \/ /\ Cardinality(voices) > 1
                 /\ f = Filter(Labels("aseg", voices), Label("sega", 0))
              \/ \E k \in DOMAIN p.mix :
                   f = Filter({Label("input", Len(p.segments) + k)}, Label("t", k))
              \/ /\ Cardinality(Mixed(p)) > 1
                 /\ f = Filter(Mixed(p), Label("aout", 0))
  BY <1>1, GraphOf
<1>4. \A x \in Mixed(p) : \E name \in {"sega", "aseg", "t"} : \E i : x = Label(name, i)
  BY MixedLabels
<1>5. \A x \in c.audio : \E name \in {"sega", "aseg", "t", "aout"} : \E i : x = Label(name, i)
  BY <1>2, <1>4 DEF AudioOut
\* What takes a label, by the name of the label.
<1>6. ASSUME NEW f \in c.graph, NEW name, NEW i, Label(name, i) \in f.ins
      PROVE  \/ name = "input"
             \/ name = "v" /\ f = Filter(Labels("v", visuals), Label("vcat", 0))
             \/ name = "vcat" /\ p.subtitle /\ f = Filter({Label("vcat", 0)}, Label("vsub", 0))
             \/ /\ name = "aseg" /\ Cardinality(voices) > 1
                /\ f = Filter(Labels("aseg", voices), Label("sega", 0))
             \/ name \in {"sega", "aseg", "t"} /\ f = Filter(Mixed(p), Label("aout", 0))
  <2>1. CASE \E out, j : f = Filter({Label("input", j)}, out)
    BY <1>6, <2>1, LabelsDiffer DEF Filter
  <2>2. CASE f = Filter(Labels("v", visuals), Label("vcat", 0))
    BY <1>6, <2>2, LabelsDiffer DEF Filter, Labels
  <2>3. CASE p.subtitle /\ f = Filter({Label("vcat", 0)}, Label("vsub", 0))
    BY <1>6, <2>3, LabelsDiffer DEF Filter
  <2>4. CASE /\ Cardinality(voices) > 1
             /\ f = Filter(Labels("aseg", voices), Label("sega", 0))
    BY <1>6, <2>4, LabelsDiffer DEF Filter, Labels
  <2>5. CASE f = Filter(Mixed(p), Label("aout", 0))
    <3>1. PICK n, j : n \in {"sega", "aseg", "t"} /\ Label(name, i) = Label(n, j)
      BY <1>4, <1>6, <2>5 DEF Filter
    <3> QED
      BY <2>5, <3>1, LabelsDiffer
  <2> QED
    BY <1>3, <2>1, <2>2, <2>3, <2>4, <2>5
<1>7. ASSUME NEW f \in c.graph PROVE Uses(c, f.out) = 1
  <2>1. CASE \E i \in visuals : f = Filter({Label("input", i)}, Label("v", i))
    <3>1. PICK i \in visuals : f = Filter({Label("input", i)}, Label("v", i))
      BY <2>1
    <3>2. PICK g : g = Filter(Labels("v", visuals), Label("vcat", 0))
      OBVIOUS
    <3>3. visuals # {}
      OBVIOUS
    <3>4. g \in c.graph
      BY <1>3, <3>2, <3>3
    <3>5. Label("v", i) \in g.ins
      BY <3>2 DEF Filter, Labels
    <3>6. \A h \in c.graph : Label("v", i) \in h.ins => h = g
      BY <1>6, <3>2
    <3>7. Label("v", i) \notin c.video /\ Label("v", i) \notin c.audio
      BY <1>2, <1>5, LabelsDiffer DEF VideoOut
    <3>8. f.out = Label("v", i)
      BY <3>1 DEF Filter
    <3> QED
      BY <3>4, <3>5, <3>6, <3>7, <3>8, UsedByFilter
  <2>2. CASE visuals # {} /\ f = Filter(Labels("v", visuals), Label("vcat", 0))
    <3>1. f.out = Label("vcat", 0)
      BY <2>2 DEF Filter
    <3>2. Label("vcat", 0) \notin c.audio
      BY <1>5, LabelsDiffer
    <3>3. CASE p.subtitle
      <4>1. PICK g : g = Filter({Label("vcat", 0)}, Label("vsub", 0))
        OBVIOUS
      <4>2. g \in c.graph
        BY <1>3, <2>2, <3>3, <4>1
      <4>3. Label("vcat", 0) \in g.ins
        BY <4>1 DEF Filter
      <4>4. \A h \in c.graph : Label("vcat", 0) \in h.ins => h = g
        BY <1>6, <4>1
      <4>5. Label("vcat", 0) \notin c.video
        BY <1>2, <3>3, LabelsDiffer DEF VideoOut
      <4> QED
        BY <3>1, <3>2, <4>2, <4>3, <4>4, <4>5, UsedByFilter
    <3>4. CASE ~p.subtitle
      <4>1. \A h \in c.graph : Label("vcat", 0) \notin h.ins
        BY <1>6, <3>4
      <4>2. Label("vcat", 0) \in c.video
        BY <1>1, <1>2, <2>2, <3>4 DEF VideoOut
      <4> QED
        BY <3>1, <3>2, <4>1, <4>2, UsedByEnd
    <3> QED
      BY <3>3, <3>4
  <2>3. CASE visuals # {} /\ p.subtitle /\ f = Filter({Label("vcat", 0)}, Label("vsub", 0))
    <3>1. f.out = Label("vsub", 0)
      BY <2>3 DEF Filter
    <3>2. Label("vsub", 0) \notin c.audio
      BY <1>5, LabelsDiffer
    <3>3. \A h \in c.graph : Label("vsub", 0) \notin h.ins
      BY <1>6
    <3>4. Label("vsub", 0) \in c.video
      BY <1>1, <1>2, <2>3 DEF VideoOut
    <3> QED
      BY <3>1, <3>2, <3>3, <3>4, UsedByEnd
  <2>4. CASE \E i \in voices : f = Filter({Label("input", i)}, Label("aseg", i))
    <3>1. PICK i \in voices : f = Filter({Label("input", i)}, Label("aseg", i))
      BY <2>4
    <3>2. f.out = Label("aseg", i)
      BY <3>1 DEF Filter
    <3>3. CASE Cardinality(voices) > 1
      <4>1. PICK g : g = Filter(Labels("aseg", voices), Label("sega", 0))
        OBVIOUS
      <4>2. g \in c.graph
        BY <1>3, <3>3, <4>1
      <4>3. Label("aseg", i) \in g.ins
        BY <4>1 DEF Filter, Labels
      <4>4. Label("aseg", i) \notin Mixed(p)
        BY <1>1, <3>3, MixedLabels, LabelsDiffer
      <4>5. \A h \in c.graph : Label("aseg", i) \in h.ins => h = g
        <5> SUFFICES ASSUME NEW h \in c.graph, Label("aseg", i) \in h.ins PROVE h = g
          OBVIOUS
        <5>1. h # Filter(Mixed(p), Label("aout", 0))
          BY <4>4 DEF Filter
        <5> QED
          BY <1>6, <4>1, <5>1
      <4>6. Label("aseg", i) \notin c.video /\ Label("aseg", i) \notin c.audio
        <5>1. Label("aseg", i) # Label("aout", 0)
          BY LabelsDiffer
        <5> QED
          BY <1>2, <4>4, <5>1, LabelsDiffer DEF VideoOut, AudioOut
      <4> QED
        BY <3>2, <4>2, <4>3, <4>5, <4>6, UsedByFilter
    <3>4. CASE ~(Cardinality(voices) > 1)
      <4>1. Label("aseg", i) \in Mixed(p)
        BY <1>1, <3>4, MixedLabels
      <4> QED
        BY <1>1, <3>2, <4>1, MixedUsed
    <3> QED
      BY <3>3, <3>4
  <2>5. CASE /\ Cardinality(voices) > 1
             /\ f = Filter(Labels("aseg", voices), Label("sega", 0))
    <3>1. f.out = Label("sega", 0)
      BY <2>5 DEF Filter
    <3>2. Label("sega", 0) \in Mixed(p)
      BY <1>1, <2>5, MixedLabels
    <3> QED
      BY <1>1, <3>1, <3>2, MixedUsed
  <2>6. CASE \E k \in DOMAIN p.mix :
               f = Filter({Label("input", Len(p.segments) + k)}, Label("t", k))
    <3>1. PICK k \in DOMAIN p.mix :
               f = Filter({Label("input", Len(p.segments) + k)}, Label("t", k))
      BY <2>6
    <3>2. f.out = Label("t", k)
      BY <3>1 DEF Filter
    <3>3. Label("t", k) \in Mixed(p)
      BY MixedLabels
    <3> QED
      BY <1>1, <3>2, <3>3, MixedUsed
  <2>7. CASE Cardinality(Mixed(p)) > 1 /\ f = Filter(Mixed(p), Label("aout", 0))
    <3>1. f.out = Label("aout", 0)
      BY <2>7 DEF Filter
    <3>2. Label("aout", 0) \notin c.video
      BY <1>2, LabelsDiffer DEF VideoOut
    <3>3. \A h \in c.graph : Label("aout", 0) \notin h.ins
      BY <1>6
    <3>4. Label("aout", 0) \in c.audio
      BY <1>2, <2>7 DEF AudioOut
    <3> QED
      BY <3>1, <3>2, <3>3, <3>4, UsedByEnd
  <2> QED
    BY <1>3, <2>1, <2>2, <2>3, <2>4, <2>5, <2>6, <2>7
<1> QED
  BY <1>1, <1>7 DEF GraphSound

\* What the runner asks for is a plan, and made by it.
LEMMA EpisodeIsOrdered ==
  ASSUME NEW moving \in BOOLEAN, NEW seconds \in EpisodeLengths
  PROVE  OrderedPlan(EpisodePlan(moving, seconds)) /\ EpisodePlan(moving, seconds).target = Main
<1>1. PICK first : first = IF moving THEN Cut("motion", "video_clip", seconds, "cut")
                           ELSE Cut("visual", "still_image", seconds, "cut")
  OBVIOUS
<1>2. PICK second : second = Cut("narration", "voice", 0, "cut")
  OBVIOUS
<1>3. seconds \in Nat /\ seconds > 0
  BY RenderAssumption
<1>4. first \in SegmentRows /\ first.kind \in VisualKinds /\ Timed(first)
  BY <1>1, <1>3, RenderAssumption DEF SegmentRows, Cut, VisualKinds, Timed
<1>5. second \in SegmentRows
  BY <1>2, RenderAssumption DEF SegmentRows, Cut, AudioKinds
<1>6. PICK p : p = EpisodePlan(moving, seconds)
  OBVIOUS
<1>7. p.target = Main /\ p.segments = <<first, second>> /\ p.mix = <<>>
  BY <1>1, <1>2, <1>6 DEF EpisodePlan, AssemblyPlan
<1>8. PICK rows : rows = SegmentRows
  OBVIOUS
<1>9. <<first, second>> \in Seq(rows) /\ Len(<<first, second>>) = 2
      /\ <<first, second>>[1] = first /\ <<first, second>>[2] = second
  BY <1>4, <1>5, <1>8
<1>10. PlanTyped(p)
  BY <1>7, <1>8, <1>9 DEF PlanTyped
<1>11. RunnerMade(p)
  <2>1. \A i \in 1..1 : p.segments[i] = first
    BY <1>7, <1>9
  <2> QED
    BY <1>2, <1>4, <1>7, <1>9, <2>1 DEF RunnerMade
<1> QED
  BY <1>6, <1>7, <1>10, <1>11 DEF OrderedPlan

\* The plan of a reel is one that can be ordered.
LEMMA ReelIsOrdered ==
  ASSUME NEW target \in Reels
  PROVE  OrderedPlan(ReelPlan(target)) /\ ReelPlan(target).target = target
<1>1. PICK beats : beats = ReelBeats[target]
  OBVIOUS
<1>2. PICK n \in 1..2 : /\ DOMAIN beats = 1..n /\ \A i \in 1..n : beats[i] \in Nat /\ beats[i] > 0
  <2>1. CASE target = "content_reel_2"
    <3>1. beats = <<50, 70>>
      BY <1>1, <2>1 DEF ReelBeats
    <3>2. DOMAIN beats = 1..2 /\ \A i \in 1..2 : beats[i] \in Nat /\ beats[i] > 0
      BY <3>1
    <3> QED
      BY <3>2
  <2>2. CASE target # "content_reel_2"
    <3>1. beats = <<120>> \/ beats = <<100>>
      BY <1>1, <2>2 DEF ReelBeats, Reels
    <3>2. DOMAIN beats = 1..1 /\ \A i \in 1..1 : beats[i] \in Nat /\ beats[i] > 0
      BY <3>1
    <3> QED
      BY <3>2
  <2> QED
    BY <2>1, <2>2
<1>3. PICK pictures : pictures = [i \in DOMAIN beats |-> Cut("visual", "still_image", beats[i], "cut")]
  OBVIOUS
<1>4. PICK last : last = Cut("narration", "voice", 0, "cut")
  OBVIOUS
<1>5. PICK rows : rows = SegmentRows
  OBVIOUS
<1>6. \A i \in 1..n : /\ pictures[i] \in rows
                       /\ pictures[i].kind \in VisualKinds /\ Timed(pictures[i])
  <2> SUFFICES ASSUME NEW i \in 1..n
               PROVE /\ pictures[i] \in rows
                     /\ pictures[i].kind \in VisualKinds /\ Timed(pictures[i])
    OBVIOUS
  <2>1. pictures[i] = Cut("visual", "still_image", beats[i], "cut")
        /\ beats[i] \in Nat /\ beats[i] > 0
    BY <1>2, <1>3
  <2> QED
    BY <1>5, <2>1, RenderAssumption DEF SegmentRows, Cut, VisualKinds, Timed
<1>7. last \in rows
  BY <1>4, <1>5, RenderAssumption DEF SegmentRows, Cut, AudioKinds
<1>8. PICK p : p = ReelPlan(target)
  OBVIOUS
<1>9. p.target = target /\ p.segments = pictures \o <<last>> /\ p.mix = <<>>
  BY <1>1, <1>3, <1>4, <1>8 DEF ReelPlan, AssemblyPlan
<1>10. pictures \in [1..n -> rows]
  BY <1>2, <1>3, <1>6
<1>11. pictures \in Seq(rows) /\ Len(pictures) = n /\ <<last>> \in Seq(rows)
       /\ Len(<<last>>) = 1 /\ <<last>>[1] = last
  BY <1>7, <1>10
<1>12. /\ pictures \o <<last>> \in Seq(rows) /\ Len(pictures \o <<last>>) = n + 1
       /\ \A i \in 1..n : (pictures \o <<last>>)[i] = pictures[i]
       /\ (pictures \o <<last>>)[n + 1] = last
  BY <1>11
<1>13. PlanTyped(p)
  BY <1>5, <1>9, <1>12 DEF PlanTyped
<1>14. RunnerMade(p)
  BY <1>4, <1>6, <1>9, <1>12 DEF RunnerMade
<1> QED
  BY <1>8, <1>9, <1>13, <1>14 DEF OrderedPlan

\* The command of a plan of the runner ends, and its sound is the narration.
LEMMA RunnerCommand ==
  ASSUME NEW p, PlanTyped(p), RunnerMade(p), narrationLength \in NarrationLengths
  PROVE  /\ ~Endless(Command(p)) /\ \A k \in DOMAIN p.mix : ~Ducked(p, k)
         /\ AudioLength(p, Command(p)) = narrationLength
<1>1. PICK n \in 1..2 :
         /\ Len(p.segments) = n + 1
         /\ p.segments[n + 1] = Cut("narration", "voice", 0, "cut")
         /\ \A i \in 1..n : p.segments[i].kind \in VisualKinds /\ Timed(p.segments[i])
  BY DEF RunnerMade
<1>2. DOMAIN p.mix = {} /\ Len(p.mix) = 0
  BY DEF RunnerMade
<1>3. PICK inputs : inputs = Command(p).inputs
  OBVIOUS
<1>4. /\ DOMAIN inputs = 1..(n + 1) /\ DOMAIN p.segments = 1..(n + 1)
      /\ \A i \in 1..(n + 1) : p.segments[i] \in SegmentRows /\ inputs[i] = InputOf(p.segments[i])
  <2>1. PICK m \in Nat, k \in Nat :
          /\ m = Len(p.segments) /\ k = Len(p.mix)
          /\ DOMAIN inputs = 1..(m + k) /\ DOMAIN p.segments = 1..m
          /\ \A i \in 1..m : p.segments[i] \in SegmentRows /\ inputs[i] = InputOf(p.segments[i])
    BY <1>3, CommandInputs
  <2>2. m = n + 1 /\ m + k = n + 1
    BY <1>1, <1>2, <2>1
  <2> QED
    BY <2>1, <2>2
<1>5. \A i \in 1..n : inputs[i].for > 0
  <2> SUFFICES ASSUME NEW i \in 1..n PROVE inputs[i].for > 0
    OBVIOUS
  <2>1. p.segments[i] \in SegmentRows /\ Timed(p.segments[i]) /\ inputs[i] = InputOf(p.segments[i])
    BY <1>1, <1>4
  <2> QED
    BY <2>1, InputTyped DEF Input, Timed
<1>6. inputs[n + 1] = Input("narration", FALSE, 0)
  <2>1. PICK s : s = p.segments[n + 1]
    OBVIOUS
  <2>2. s.ref = "narration" /\ s.kind = "voice"
    BY <1>1, <2>1 DEF Cut
  <2>3. File("narration").type = "audio"
    BY RenderAssumption, FileTyped
  <2>4. inputs[n + 1] = InputOf(s)
    BY <1>4, <2>1
  <2> QED
    BY <2>2, <2>3, <2>4 DEF InputOf
<1>7. ~Endless(Command(p))
  <2>1. \A i \in 1..(n + 1) : ~(inputs[i].looped /\ inputs[i].for = 0)
    <3> SUFFICES ASSUME NEW i \in 1..(n + 1) PROVE ~(inputs[i].looped /\ inputs[i].for = 0)
      OBVIOUS
    <3>1. i \in 1..n \/ i = n + 1
      OBVIOUS
    <3> QED
      BY <1>5, <1>6, <3>1 DEF Input
  <2> QED
    BY <1>3, <1>4, <2>1 DEF Endless
<1>8. Lasts(inputs[n + 1]) = narrationLength
  BY <1>6, FileTyped, RenderAssumption DEF Lasts, Input
<1>9. Positions(p, AudioKinds) = {n + 1}
  <2>1. \A i \in 1..n : p.segments[i].kind \notin AudioKinds
    BY <1>1 DEF VisualKinds, AudioKinds
  <2>2. p.segments[n + 1].kind \in AudioKinds
    BY <1>1 DEF Cut, AudioKinds
  <2> QED
    BY <1>4, <2>1, <2>2 DEF Positions
<1>10. narrationLength \in Nat
  BY RenderAssumption
<1>11. Total(Command(p), Positions(p, AudioKinds)) = narrationLength
  <2>1. [i \in {n + 1} |-> Lasts(inputs[i])] = [i \in {n + 1} |-> narrationLength]
    BY <1>8
  <2> QED
    BY <1>3, <1>9, <1>10, <2>1, SumOfOne DEF Total
<1>12. AudioLength(p, Command(p)) = Max({narrationLength})
  BY <1>2, <1>11 DEF AudioLength
<1>13. Max({narrationLength}) = narrationLength
  <2>1. {narrationLength} = {narrationLength, narrationLength}
    OBVIOUS
  <2> QED
    BY <1>10, <2>1, MaxOfTwo
<1> QED
  BY <1>2, <1>7, <1>12, <1>13

\* The tolerance is never above fifteen seconds.
LEMMA TolerancesBounded ==
  ASSUME NEW r \in Nat
  PROVE  Tolerance(r) \in Nat /\ Tolerance(r) <= 150
<1>1. PICK x \in Nat : x = r \div 200
  OBVIOUS
<1>2. PICK y \in Nat : y = Max({10, x})
  <2>1. Max({10, x}) = IF 10 >= x THEN 10 ELSE x
    BY MaxOfTwo
  <2> QED
    BY <2>1
<1>3. Min({150, y}) = IF 150 <= y THEN 150 ELSE y
  BY MinOfTwo
<1> QED
  BY <1>1, <1>2, <1>3 DEF Tolerance

\* What the verdict lets through is what was planned.
LEMMA JudgedFaithful ==
  ASSUME NEW p, PlanTyped(p), narrationLength \in NarrationLengths, NEW configured \in Nat,
         p.target # Main => configured = 0,
         NEW video, video = VideoLength(p, Command(p)),
         NEW audio, audio = AudioLength(p, Command(p)),
         InWindow(p.target, configured, Max({video, audio})), Complete(video, audio, configured)
  PROVE  LET a == [plan |-> p, id |-> p, configured |-> configured, video |-> video,
                   audio |-> audio, said |-> Command(p).degradations]
         IN /\ video \in Nat /\ audio \in Nat /\ Faithful(a)
            /\ p.target = Main => audio >= 17850
            /\ p.target # Main => audio <= 900
<1>1. video \in Nat /\ audio \in Nat
  BY LengthsTyped
<1>2. PICK longest : longest = Max({video, audio})
  OBVIOUS
<1>3. longest = IF video >= audio THEN video ELSE audio
  BY <1>1, <1>2, MaxOfTwo
<1>4. PICK reference \in Nat : reference = IF configured > 0 THEN configured ELSE video
  BY <1>1
<1>5. PICK tolerance \in Nat : tolerance = Tolerance(reference) /\ tolerance <= 150
  BY TolerancesBounded
<1>6. /\ video > 0 /\ audio > 0 /\ audio + tolerance >= reference /\ audio <= video + 10
  BY <1>4, <1>5 DEF Complete, Overrun
<1>7. InWindow(p.target, configured, longest)
  BY <1>2
<1>8. ASSUME p.target = Main
      PROVE  /\ video >= 17990 /\ video <= 30000 /\ audio >= 17850
             /\ configured > 0 => (video + 160 >= configured /\ video <= configured + 1800)
  <2>1. longest >= 18000 /\ longest <= 30000
    <3>1. longest \in MainMin..MainMax
      BY <1>7, <1>8 DEF InWindow
    <3> QED
      BY <3>1 DEF MainMin, MainMax
  <2>2. configured > 0 => (longest + 1800 >= configured /\ longest <= configured + 1800)
    <3>1. configured > 0 => /\ longest + TargetTolerance >= configured
                            /\ longest <= configured + TargetTolerance
      BY <1>7, <1>8 DEF InWindow
    <3> QED
      BY <3>1 DEF TargetTolerance
  <2>3. configured > 0 => configured >= 18000
    <3>1. configured > 0 => configured \in MainMin..MainMax
      BY <1>7, <1>8 DEF InWindow
    <3> QED
      BY <3>1 DEF MainMin, MainMax
  <2>4. video >= 17990 /\ video <= 30000
    BY <1>1, <1>3, <1>6, <2>1
  <2>5. audio >= 17850
    BY <1>1, <1>3, <1>4, <1>5, <1>6, <2>1, <2>3
  <2>6. configured > 0 => (video + 160 >= configured /\ video <= configured + 1800)
    BY <1>1, <1>3, <1>4, <1>5, <1>6, <2>2
  <2> QED
    BY <2>4, <2>5, <2>6
<1>9. ASSUME p.target # Main
       PROVE  video \in 20..900 /\ audio <= 900 /\ configured = 0
  <2>1. longest \in 30..900
    <3>1. longest \in ShortMin..ShortMax
      BY <1>7, <1>9 DEF InWindow
    <3> QED
      BY <3>1 DEF ShortMin, ShortMax
  <2>2. video \in 20..900 /\ audio <= 900
    <3>1. PICK x, y, z \in Nat : x = video /\ y = audio /\ z = longest
      BY <1>1, <2>1
    <3>2. z = (IF x >= y THEN x ELSE y) /\ y <= x + 10 /\ z >= 30 /\ z <= 900
      BY <1>3, <1>6, <2>1, <3>1
    <3>3. x >= 20 /\ x <= 900 /\ y <= 900
      BY <3>2
    <3> QED
      BY <3>1, <3>3
  <2>3. configured = 0
    BY <1>9
  <2> QED
    BY <2>2, <2>3
<1>10. PICK cuts : cuts = Positions(p, VisualKinds)
  OBVIOUS
<1>11. cuts # {}
  BY <1>6, <1>10, LengthsTyped
<1>12. ASSUME \A i \in cuts : /\ p.segments[i].seconds > 0
                              /\ \/ p.segments[i].kind = "video_clip"
                                 \/ RenderFiles[p.segments[i].ref].type = "image"
       PROVE  video = SumFunction([i \in cuts |-> p.segments[i].seconds])
  <2>1. \A i \in cuts : Lasts(Command(p).inputs[i]) = p.segments[i].seconds
    <3> SUFFICES ASSUME NEW i \in cuts
                 PROVE  Lasts(Command(p).inputs[i]) = p.segments[i].seconds
      OBVIOUS
    <3>1. i \in 1..Len(p.segments)
      BY <1>10, CommandInputs DEF Positions
    <3>2. p.segments[i] \in SegmentRows /\ Command(p).inputs[i] = InputOf(p.segments[i])
      BY <3>1, CommandInputs
    <3>3. Timed(p.segments[i])
      BY <1>12 DEF Timed
    <3> QED
      BY <3>2, <3>3, InputTyped
  <2>2. [i \in cuts |-> Lasts(Command(p).inputs[i])] = [i \in cuts |-> p.segments[i].seconds]
    BY <2>1
  <2> QED
    BY <1>10, <2>2 DEF VideoLength, Total
<1>13. \A i \in cuts : p.segments[i].transition = "wipe" =>
         <<"wipe_rendered_as_fade", i>> \in Command(p).degradations
  BY <1>10 DEF Command, Degradations, Positions
<1>14. cuts = {i \in DOMAIN p.segments : p.segments[i].kind \in VisualKinds}
  BY <1>10 DEF Positions
<1>15. PICK a : a = [plan |-> p, id |-> p, configured |-> configured, video |-> video,
                     audio |-> audio, said |-> Command(p).degradations]
  OBVIOUS
<1>16. /\ a.plan = p /\ a.id = p /\ a.configured = configured /\ a.video = video
       /\ a.audio = audio /\ a.said = Command(p).degradations
  BY <1>15
<1>17. Faithful(a)
  <2>1. a.video \in IF a.plan.target = Main THEN (MainMin - Overrun)..MainMax
                    ELSE (ShortMin - Overrun)..ShortMax
    <3>1. CASE p.target = Main
      <4>1. video \in (MainMin - Overrun)..MainMax
        <5>1. MainMin - Overrun = 17990 /\ MainMax = 30000
          BY DEF MainMin, MainMax, Overrun
        <5>2. video >= 17990 /\ video <= 30000
          BY <1>8, <3>1
        <5> QED
          BY <1>1, <5>1, <5>2
      <4> QED
        BY <1>16, <3>1, <4>1
    <3>2. CASE p.target # Main
      <4>1. video \in (ShortMin - Overrun)..ShortMax
        BY <1>9, <3>2 DEF ShortMin, ShortMax, Overrun
      <4> QED
        BY <1>16, <3>2, <4>1
    <3> QED
      BY <3>1, <3>2
  <2>2. a.audio <= a.video + Overrun
    BY <1>6, <1>16 DEF Overrun
  <2>3. a.configured > 0 =>
          a.video + 160 >= a.configured /\ a.video <= a.configured + TargetTolerance
    BY <1>8, <1>16, <1>9 DEF TargetTolerance
  <2> HIDE DEF SegmentRows
  <2> QED
    BY <1>11, <1>12, <1>13, <1>14, <1>16, <2>1, <2>2, <2>3 DEF Faithful
<1>18. /\ video \in Nat /\ audio \in Nat /\ Faithful(a)
       /\ p.target = Main => audio >= 17850
       /\ p.target # Main => audio <= 900
  BY <1>1, <1>8, <1>17, <1>9
<1> QED
  BY <1>15, <1>18

\* Nothing is ordered at first.
LEMMA InitRenderInv == RenderInit => RenderInv
BY RenderAssumption DEF RenderInit, RenderInv, NoOrder, Order

\* A command depends on nothing but the plan and the narration.
LEMMA CommandStays ==
  ASSUME NEW p, UNCHANGED narrationLength
  PROVE  Command(p)' = Command(p)
BY DEF Command, InputOf, Seconds, File, Degradations

\* An order keeps the invariant.
LEMMA AskKeeps ==
  ASSUME RenderInv, NEW p, OrderedPlan(p), NEW configured \in Nat, NEW bound,
         Ask(p, configured, bound)
  PROVE  RenderInv'
<1>1. order' = Order("planned", p, p, configured, bound) /\ ordered' = ordered + 1
      /\ UNCHANGED <<narrationLength, accepted>> /\ ordered < RendersOrdered
  BY DEF Ask
<1>2. OrderedPlan(p)'
  BY DEF OrderedPlan, PlanTyped, RunnerMade
<1>3. \A a \in accepted' :
        a.video \in Nat /\ a.audio \in Nat /\ Faithful(a) /\ NarrationTells(a)'
  BY <1>1 DEF RenderInv, NarrationTells
<1>4. ordered' \in 0..RendersOrdered
  BY <1>1, RenderAssumption DEF RenderInv
<1> QED
  BY <1>1, <1>2, <1>3, <1>4 DEF RenderInv, Order

\* What was accepted stays, as long as the narration does.
LEMMA RenderKept ==
  ASSUME RenderInv, UNCHANGED <<narrationLength, ordered, accepted>>
  PROVE  /\ narrationLength' \in NarrationLengths /\ ordered' \in 0..RendersOrdered
         /\ \A a \in accepted' :
              a.video \in Nat /\ a.audio \in Nat /\ Faithful(a) /\ NarrationTells(a)'
BY DEF RenderInv, NarrationTells

\* Every step of the renderer keeps its invariant.
LEMMA RenderStep == RenderInv /\ [RenderNext]_renderVars => RenderInv'
<1> SUFFICES ASSUME RenderInv, [RenderNext]_renderVars PROVE RenderInv'
  OBVIOUS
<1>1. CASE AskEpisode
  <2>1. PICK moving \in BOOLEAN, seconds \in EpisodeLengths, configured \in BOOLEAN :
          Ask(EpisodePlan(moving, seconds), IF configured THEN seconds ELSE 0,
              Refs(EpisodePlan(moving, seconds)))
    BY <1>1 DEF AskEpisode
  <2>2. (IF configured THEN seconds ELSE 0) \in Nat
    BY RenderAssumption
  <2> QED
    BY <2>1, <2>2, EpisodeIsOrdered, AskKeeps
<1>2. CASE AskReel
  <2>1. PICK target \in Reels : Ask(ReelPlan(target), 0, Refs(ReelPlan(target)))
    BY <1>2 DEF AskReel
  <2> QED
    BY <2>1, ReelIsOrdered, AskKeeps
<1>3. CASE AskLibrary
  <2>1. PICK plan, bound : plan \in LibraryPlans /\ Ask(plan, 0, bound)
    BY <1>3 DEF AskLibrary
  <2>2. OrderedPlan(plan)
    BY <2>1, RenderAssumption DEF OrderedPlan, PlanTyped, SegmentRows, TrackRows
  <2> QED
    BY <2>1, <2>2, AskKeeps
<1>4. CASE Alter
  <2>1. PICK i : order' = [order EXCEPT !.plan.segments[i].seconds = @ + 10]
    BY <1>4 DEF Alter
  <2>2. order.at = "planned" /\ UNCHANGED <<narrationLength, ordered, accepted>>
    BY <1>4 DEF Alter
  <2>3. order = [at |-> order.at, plan |-> order.plan, id |-> order.id,
                 configured |-> order.configured, bound |-> order.bound,
                 command |-> order.command]
    BY DEF RenderInv
  <2>4. \E altered : order' = [order EXCEPT !.plan = altered]
    BY <2>1
  <2>5. /\ order'.at = "planned" /\ order'.id = order.id /\ order'.configured = order.configured
        /\ order'.command = order.command
        /\ order' = [at |-> order'.at, plan |-> order'.plan, id |-> order'.id,
                     configured |-> order'.configured, bound |-> order'.bound,
                     command |-> order'.command]
    BY <2>2, <2>3, <2>4
  <2>6. order.configured \in Nat /\ order.command = {} /\ OrderedPlan(order.id)
    BY <2>2 DEF RenderInv
  <2>7. OrderedPlan(order.id)'
    BY <2>5, <2>6 DEF OrderedPlan, PlanTyped, RunnerMade
  <2> QED
    BY <2>2, <2>5, <2>6, <2>7, RenderKept DEF RenderInv
<1>5. ASSUME GiveUpRender PROVE RenderInv'
  <2>1. order' = NoOrder /\ UNCHANGED <<narrationLength, ordered, accepted>>
    BY <1>5 DEF GiveUpRender
  <2> QED
    BY <2>1, RenderKept DEF RenderInv, NoOrder, Order
<1>6. CASE BuildCommand \/ CommandRun
  <2>1. /\ UNCHANGED <<narrationLength, ordered, accepted>>
        /\ order.plan = order.id /\ OrderedPlan(order.id)
        /\ \/ order' = [order EXCEPT !.at = "built", !.command = {Command(order.plan)}]
           \/ /\ order' = [order EXCEPT !.at = "rendered"]
              /\ order.command = {Command(order.plan)}
    BY <1>6 DEF BuildCommand, CommandRun, Resolved, RenderInv
  <2>2. order = [at |-> order.at, plan |-> order.plan, id |-> order.id,
                 configured |-> order.configured, bound |-> order.bound,
                 command |-> order.command]
    BY DEF RenderInv
  <2>3. /\ order'.at \in {"built", "rendered"} /\ order'.plan = order.plan
        /\ order'.id = order.id /\ order'.configured = order.configured
        /\ order'.command = {Command(order.plan)}
        /\ order' = [at |-> order'.at, plan |-> order'.plan, id |-> order'.id,
                     configured |-> order'.configured, bound |-> order'.bound,
                     command |-> order'.command]
    BY <2>1, <2>2
  <2>4. PICK p : p = order.plan
    OBVIOUS
  <2>5. Command(p)' = Command(p)
    BY <2>1, CommandStays
  <2>6. order'.plan = p /\ order'.id = p /\ order'.command = {Command(p)'}
    BY <2>1, <2>3, <2>4, <2>5
  <2>7. OrderedPlan(order.id)'
    BY <2>1, <2>3 DEF OrderedPlan, PlanTyped, RunnerMade
  <2>8. order'.configured \in Nat
    BY <2>3 DEF RenderInv
  <2> QED
    BY <2>1, <2>3, <2>4, <2>5, <2>6, <2>7, <2>8, RenderKept DEF RenderInv
<1>7. CASE Judge
  <2>1. PICK p : p = order.plan
    OBVIOUS
  <2>2. order.at = "rendered" /\ order.id = p /\ OrderedPlan(p)
        /\ order.command = {Command(p)} /\ order.configured \in Nat
        /\ narrationLength \in NarrationLengths
    BY <1>7, <2>1 DEF Judge, RenderInv
  <2>3. TheCommand = Command(p)
    BY <2>2 DEF TheCommand
  <2>4. PICK video, audio, configured :
          /\ video = VideoLength(p, Command(p)) /\ audio = AudioLength(p, Command(p))
          /\ configured = IF p.target = Main THEN order.configured ELSE 0
    OBVIOUS
  <2>5. PICK a : a = [plan |-> p, id |-> p, configured |-> configured, video |-> video,
                      audio |-> audio, said |-> Command(p).degradations]
    OBVIOUS
  <2>6. /\ order' = NoOrder /\ UNCHANGED <<narrationLength, ordered>>
        /\ \/ accepted' = accepted
           \/ /\ accepted' = accepted \cup {a}
              /\ InWindow(p.target, configured, Max({video, audio}))
              /\ Complete(video, audio, configured)
    BY <1>7, <2>1, <2>2, <2>3, <2>4, <2>5 DEF Judge
  <2>7. \A b \in accepted :
          b.video \in Nat /\ b.audio \in Nat /\ Faithful(b) /\ NarrationTells(b)'
    BY <2>6 DEF RenderInv, NarrationTells
  <2>8. ASSUME InWindow(p.target, configured, Max({video, audio})),
               Complete(video, audio, configured)
        PROVE  a.video \in Nat /\ a.audio \in Nat /\ Faithful(a) /\ NarrationTells(a)'
    <3>1. PlanTyped(p) /\ configured \in Nat /\ (p.target # Main => configured = 0)
      BY <2>2, <2>4 DEF OrderedPlan
    <3>2. /\ video \in Nat /\ audio \in Nat /\ Faithful(a)
          /\ p.target = Main => audio >= 17850
          /\ p.target # Main => audio <= 900
      BY <2>2, <2>4, <2>5, <2>8, <3>1, JudgedFaithful
    <3>3. p \notin LibraryPlans => audio = narrationLength
      BY <2>2, <2>4, <3>1, RunnerCommand DEF OrderedPlan
    <3>4. a.plan = p /\ a.video = video /\ a.audio = audio
      BY <2>5
    <3> QED
      BY <2>6, <3>2, <3>3, <3>4 DEF NarrationTells
  <2>9. \A b \in accepted' :
          b.video \in Nat /\ b.audio \in Nat /\ Faithful(b) /\ NarrationTells(b)'
    BY <2>6, <2>7, <2>8
  <2> QED
    BY <2>6, <2>9 DEF RenderInv, NoOrder, Order
<1>8. CASE UNCHANGED renderVars
  <2>1. UNCHANGED <<narrationLength, order, ordered, accepted>>
    BY <1>8 DEF renderVars
  <2>2. PICK p : p = order.plan
    OBVIOUS
  <2>3. Command(p)' = Command(p)
    BY <2>1, CommandStays
  <2>4. order.at \in {"built", "rendered"} =>
          order'.plan = p /\ order'.id = p /\ order'.command = {Command(p)'}
    BY <2>1, <2>2, <2>3 DEF RenderInv
  <2>5. OrderedPlan(order.id)' = OrderedPlan(order.id)
    BY <2>1 DEF OrderedPlan, PlanTyped, RunnerMade
  <2> QED
    BY <2>1, <2>2, <2>3, <2>4, <2>5, RenderKept DEF RenderInv
<1> QED
  BY <1>1, <1>2, <1>3, <1>4, <1>5, <1>6, <1>7, <1>8
     DEF RenderNext, RefusePlan, CommandRefused, NotInspected

\* The invariant says at least the types.
LEMMA RenderTyped == RenderInv => RenderTypeOK
<1> SUFFICES ASSUME RenderInv PROVE RenderTypeOK
  OBVIOUS
<1>1. (order.command # {}) = (order.at \in {"built", "rendered"})
  <2>1. CASE order.at \in {"built", "rendered"}
    BY <2>1 DEF RenderInv
  <2>2. CASE order.at \notin {"built", "rendered"}
    BY <2>2 DEF RenderInv
  <2> QED
    BY <2>1, <2>2
<1> QED
  BY <1>1 DEF RenderInv, RenderTypeOK

\* What the invariant says of an accepted render.
LEMMA RenderPlansSound == RenderInv => RenderPlansHold
<1> SUFFICES ASSUME RenderInv PROVE RenderPlansHold
  OBVIOUS
<1>1. RenderedAsPlanned
  BY DEF RenderInv, Faithful, RenderedAsPlanned
<1>2. CommandsRun
  <2> SUFFICES ASSUME NEW c \in order.command
               PROVE  /\ ~GraphSound(c) => \E k \in DOMAIN order.plan.mix : Ducked(order.plan, k)
                      /\ order.plan \notin LibraryPlans => GraphSound(c) /\ ~Endless(c)
    BY DEF CommandsRun
  <2>1. c = Command(order.plan) /\ OrderedPlan(order.plan) /\ narrationLength \in NarrationLengths
    BY DEF RenderInv
  <2>2. ~GraphSound(c) => \E k \in DOMAIN order.plan.mix : Ducked(order.plan, k)
    BY <2>1, GraphIsSound
  <2>3. order.plan \notin LibraryPlans =>
          ~Endless(c) /\ \A k \in DOMAIN order.plan.mix : ~Ducked(order.plan, k)
    BY <2>1, RunnerCommand DEF OrderedPlan
  <2> QED
    BY <2>2, <2>3
<1>3. EpisodeOrReels
  <2>1. narrationLength \in Nat
    BY RenderAssumption DEF RenderInv
  <2> QED
    BY <2>1 DEF RenderInv, NarrationTells, EpisodeOrReels
<1> QED
  BY <1>1, <1>2, <1>3 DEF RenderPlansHold

\* Every variable of the renderer keeps its type.
THEOREM RenderTypes == RenderSpec => []RenderTypeOK
BY InitRenderInv, RenderStep, RenderTyped, PTL DEF RenderSpec

\* A render that was accepted is of the pictures, the sound and the subtitles its plan names,
\* in its order and as long as the plan and the files make it.
THEOREM RenderPlansHeld == RenderSpec => []RenderPlansHold
BY InitRenderInv, RenderStep, RenderPlansSound, PTL DEF RenderSpec

-----------------------------------------------------------------------------
(* The plans for the news.                                                 *)

\* A brief has each page once, counts no copy twice, and leaves out no content.
BriefSound ==
  /\ brief = [of |-> brief.of, eligible |-> brief.eligible]
  /\ brief.of \subseteq SourcePool /\ IsFiniteSet(brief.of) /\ brief.eligible \subseteq brief.of
  /\ \A s, t \in brief.eligible : s.copy = t.copy => s = t
  /\ \A s \in brief.of : \E t \in brief.eligible : t.copy = s.copy

\* Said by two outlets of the sources, and denied by none unless one denies itself.
Grounded(c, S) ==
  /\ \E s, t \in S : /\ c \in ToSet(s.claims) /\ c \in ToSet(t.claims)
                     /\ s.url # t.url /\ s.domain # t.domain /\ s.copy # t.copy
  /\ Consistent(S) => \A d \in ClaimsOf(S) : ~Contradict(c, d)

EditorialSound ==
  /\ editorial.of \subseteq SourcePool /\ editorial.seconds \in Nat
  /\ \A c \in editorial.claims : Grounded(c, editorial.of)
  /\ editorial # NoEditorial =>
       /\ Cardinality(editorial.claims) \in 1..12 /\ editorial.seconds \in 45..600

DraftSound ==
  /\ draft.of \subseteq SourcePool /\ draft.count \in Nat
  /\ \A c \in draft.top : Grounded(c, draft.of)

\* A narration that subtitles may be made of.
LetThrough(i) == Acceptable(Narrations[i]) /\ Acceptable(Registered(Narrations[i]))

NewsInv ==
  /\ sources \in Seq(SourcePool) /\ Len(sources) <= MaxSources
  /\ BriefSound /\ EditorialSound /\ DraftSound
  /\ \E i \in 0..Len(Narrations) : narrated = i /\ (i # 0 => LetThrough(i))

\* A source of the pool and its claims have their types.
LEMMA SourcesTyped ==
  ASSUME NEW s \in SourcePool
  PROVE  /\ s.at \in Nat /\ s.claims \in Seq(ClaimsOf(SourcePool))
         /\ \A c \in ToSet(s.claims) :
              c \in ClaimsOf(SourcePool) /\ c.key \in Nat /\ c.numbers \in Seq(Nat)
<1>1. s.at \in Nat /\ s.claims \in Seq(ClaimsOf(SourcePool))
  BY NewsAssumption
<1>2. \A c \in ToSet(s.claims) : c \in ClaimsOf(SourcePool)
  BY <1>1 DEF ToSet, ClaimsOf
<1>3. \A c \in ClaimsOf(SourcePool) : c.key \in Nat /\ c.numbers \in Seq(Nat)
  BY NewsAssumption
<1> QED
  BY <1>1, <1>2, <1>3

\* Nothing is planned at first.
LEMMA InitNewsInv == NewsInit => NewsInv
<1> SUFFICES ASSUME NewsInit PROVE NewsInv
  OBVIOUS
<1>1. brief.of = {} /\ brief.eligible = {} /\ brief = [of |-> brief.of, eligible |-> brief.eligible]
  BY DEF NewsInit, NoBrief
<1>2. IsFiniteSet({})
  BY FS_EmptySet
<1>3. BriefSound
  BY <1>1, <1>2 DEF BriefSound
<1>4. EditorialSound /\ DraftSound
  BY DEF NewsInit, NoEditorial, NoDraft, EditorialSound, DraftSound
<1>5. Len(Narrations) \in Nat
  BY NewsAssumption
<1>6. sources \in Seq(SourcePool) /\ Len(sources) <= MaxSources /\ narrated = 0
  BY NewsAssumption DEF NewsInit
<1> QED
  BY <1>3, <1>4, <1>5, <1>6 DEF NewsInv

\* The brief of what has been observed.
LEMMA BriefBuilt ==
  ASSUME sources \in Seq(SourcePool), BuildBrief
  PROVE  BriefSound'
<1>1. PICK n \in Nat : n = Len(sources) /\ DOMAIN sources = 1..n
  OBVIOUS
<1>2. \A i \in 1..n : sources[i] \in SourcePool
  BY <1>1
<1>3. PICK D : D = Distinct
  OBVIOUS
<1>4. D \subseteq 1..n /\ \A i, j \in D : sources[i].url = sources[j].url => i = j
  <2>1. D \subseteq 1..n
    BY <1>1, <1>3 DEF Distinct
  <2>2. ASSUME NEW i \in D, NEW j \in D, sources[i].url = sources[j].url PROVE i = j
    <3>1. i \in Nat /\ j \in Nat /\ i >= 1 /\ j >= 1
      BY <2>1
    <3>2. ~(j < i) /\ ~(i < j)
      BY <1>3, <2>2, <3>1 DEF Distinct, KeptAt
    <3> QED
      BY <3>1, <3>2
  <2> QED
    BY <2>1, <2>2
<1>5. PICK E : E = {j \in D : Eligible(j)}
  OBVIOUS
<1>6. PICK of, eligible : of = {sources[i] : i \in D} /\ eligible = {sources[i] : i \in E}
  OBVIOUS
<1>7. brief' = [of |-> of, eligible |-> eligible]
  BY <1>3, <1>5, <1>6 DEF BuildBrief
<1>8. of \subseteq SourcePool /\ eligible \subseteq of
  BY <1>2, <1>4, <1>5, <1>6
<1>9. IsFiniteSet(of)
  <2>1. PICK N : N = 1..n /\ IsFiniteSet(N)
    BY FS_Interval
  <2>2. IsFiniteSet(D)
    BY <1>4, <2>1, FS_Subset
  <2>3. PICK f : f = [i \in D |-> sources[i]]
    OBVIOUS
  <2>4. f \in Surjection(D, of)
    BY <1>6, <2>3 DEF Surjection
  <2> QED
    BY <2>2, <2>4, FS_Surjection
<1>10. ASSUME NEW s \in eligible, NEW t \in eligible, s.copy = t.copy PROVE s = t
  <2>1. PICK i \in E, j \in E : s = sources[i] /\ t = sources[j]
    BY <1>6
  <2>2. i \in Nat /\ j \in Nat /\ i \in D /\ j \in D
    BY <1>4, <1>5
  <2>3. ~(j < i) /\ ~(i < j)
    BY <1>3, <1>5, <1>10, <2>1, <2>2 DEF Eligible
  <2>4. i = j
    BY <2>2, <2>3
  <2> QED
    BY <2>1, <2>4
<1>11. ASSUME NEW s \in of PROVE \E t \in eligible : t.copy = s.copy
  <2>1. PICK i \in D : s = sources[i]
    BY <1>6
  <2>2. PICK T : T = {j \in D : sources[j].copy = s.copy}
    OBVIOUS
  <2>3. PICK j \in T : \A k \in T : j <= k
    <3>1. i \in T
      BY <2>1, <2>2
    <3>2. T \subseteq D /\ D \subseteq Nat
      BY <1>4, <2>2
    <3>3. T \subseteq Nat /\ T # {}
      BY <3>1, <3>2
    <3> QED
      BY <3>3, LeastNumber
  <2>4. \A k \in D : k < j => sources[k].copy # sources[j].copy
    BY <1>4, <2>2, <2>3
  <2>5. j \in E
    BY <1>3, <1>5, <2>2, <2>4 DEF Eligible
  <2> QED
    BY <1>6, <2>2, <2>5
<1> QED
  BY <1>7, <1>8, <1>9, <1>10, <1>11 DEF BriefSound

\* What the sources of a brief claim, the eligible ones do.
LEMMA SameClaims ==
  ASSUME BriefSound
  PROVE  ClaimsOf(brief.of) = ClaimsOf(brief.eligible) /\ IsFiniteSet(ClaimsOf(brief.eligible))
         /\ ClaimsOf(brief.eligible) \subseteq ClaimsOf(SourcePool)
<1>1. ASSUME NEW c \in ClaimsOf(brief.of) PROVE c \in ClaimsOf(brief.eligible)
  <2>1. PICK s \in brief.of : c \in ToSet(s.claims)
    BY <1>1 DEF ClaimsOf
  <2>2. PICK t \in brief.eligible : t.copy = s.copy
    BY DEF BriefSound
  <2>3. t.claims = s.claims
    BY <2>2, NewsAssumption DEF BriefSound
  <2> QED
    BY <2>1, <2>3 DEF ClaimsOf
<1>2. ClaimsOf(brief.eligible) \subseteq ClaimsOf(brief.of)
  BY DEF ClaimsOf, BriefSound
<1>3. PICK B : B = {ToSet(s.claims) : s \in brief.eligible}
  OBVIOUS
<1>4. IsFiniteSet(brief.eligible)
  BY FS_Subset DEF BriefSound
<1>5. IsFiniteSet(B)
  <2>1. PICK f : f = [s \in brief.eligible |-> ToSet(s.claims)]
    OBVIOUS
  <2>2. f \in Surjection(brief.eligible, B)
    BY <1>3, <2>1 DEF Surjection
  <2> QED
    BY <1>4, <2>2, FS_Surjection
<1>6. \A S \in B : IsFiniteSet(S)
  <2> SUFFICES ASSUME NEW s \in brief.eligible PROVE IsFiniteSet(ToSet(s.claims))
    BY <1>3
  <2>1. s \in SourcePool
    BY DEF BriefSound
  <2>2. s.claims \in Seq(ClaimsOf(SourcePool))
    BY <2>1, SourcesTyped
  <2>3. PICK n \in Nat : DOMAIN s.claims = 1..n
    BY <2>2
  <2>4. PICK N : N = 1..n /\ IsFiniteSet(N)
    BY FS_Interval
  <2>5. PICK f : f = [i \in N |-> s.claims[i]]
    OBVIOUS
  <2>6. f \in Surjection(N, ToSet(s.claims))
    BY <2>3, <2>4, <2>5 DEF Surjection, ToSet
  <2> QED
    BY <2>4, <2>6, FS_Surjection
<1>7. IsFiniteSet(ClaimsOf(brief.eligible))
  BY <1>3, <1>5, <1>6, FS_UNION DEF ClaimsOf
<1>8. ClaimsOf(brief.eligible) \subseteq ClaimsOf(SourcePool)
  BY DEF ClaimsOf, BriefSound
<1> QED
  BY <1>1, <1>2, <1>7, <1>8

\* Of a set of claims of the sources, one comes first and one last.
LEMMA FirstClaim ==
  ASSUME NEW C, C \subseteq ClaimsOf(SourcePool), C # {}
  PROVE  \E c \in C : \A d \in C : c.key <= d.key
<1>1. \A c \in C : c.key \in Nat
  BY NewsAssumption
<1>2. PICK K : K = {c.key : c \in C}
  OBVIOUS
<1>3. PICK k \in K : \A j \in K : k <= j
  <2>1. K \subseteq Nat /\ K # {}
    BY <1>1, <1>2
  <2> QED
    BY <2>1, LeastNumber
<1> QED
  BY <1>2, <1>3

\* Of finitely many claims, one has the last key.
LEMMA LastClaim ==
  ASSUME NEW C, C \subseteq ClaimsOf(SourcePool), C # {}, IsFiniteSet(C)
  PROVE  \E c \in C : \A d \in C : c.key >= d.key
<1>1. \A c \in C : c.key \in Nat
  BY NewsAssumption
<1>2. PICK K : K = {c.key : c \in C}
  OBVIOUS
<1>3. K \subseteq Nat /\ K # {}
  BY <1>1, <1>2
<1>4. IsFiniteSet(K)
  <2>1. PICK f : f = [c \in C |-> c.key]
    OBVIOUS
  <2>2. f \in Surjection(C, K)
    BY <1>2, <2>1 DEF Surjection
  <2> QED
    BY <2>2, FS_Surjection
<1>5. Max(K) \in K /\ \A j \in K : Max(K) >= j
  BY <1>3, <1>4, MaxIn
<1> QED
  BY <1>2, <1>5

\* Of a publishable brief some claim is selected, and no more than may be.
LEMMA SelectedBounded ==
  ASSUME BriefSound, Publishable(brief)
  PROVE  Cardinality(SelectedClaims(brief)) \in 1..12
<1>1. PICK C : C = {c \in ClaimsOf(brief.eligible) : Corroborated(brief, c)}
  OBVIOUS
<1>2. C \subseteq ClaimsOf(SourcePool) /\ IsFiniteSet(C) /\ C # {}
  <2>1. C \subseteq ClaimsOf(brief.eligible)
    BY <1>1
  <2> QED
    BY <1>1, <2>1, SameClaims, FS_Subset DEF Publishable
<1>3. \A c \in C : c.key \in Nat
  BY <1>2, NewsAssumption
<1> DEFINE Before(c) == {d \in C : d.key < c.key}
<1>4. PICK S : S = {c \in C : Cardinality(Before(c)) < MaxSupporting}
  OBVIOUS
<1>5. S = SelectedClaims(brief)
  BY <1>1, <1>4 DEF SelectedClaims
<1>6. \A c \in C : IsFiniteSet(Before(c)) /\ Cardinality(Before(c)) \in Nat
  <2> SUFFICES ASSUME NEW c \in C
               PROVE IsFiniteSet(Before(c)) /\ Cardinality(Before(c)) \in Nat
    OBVIOUS
  <2>1. Before(c) \in SUBSET C
    OBVIOUS
  <2> HIDE DEF Before
  <2> QED
    BY <1>2, <2>1, FS_Subset, FS_CardinalityType
<1>7. MaxSupporting \in 1..12
  BY NewsAssumption
<1>8. S # {}
  <2>1. PICK c \in C : \A d \in C : c.key <= d.key
    BY <1>2, FirstClaim
  <2>2. Before(c) = {}
    BY <1>3, <2>1
  <2>3. Cardinality(Before(c)) = 0
    BY <2>2, FS_EmptySet
  <2> HIDE DEF Before
  <2> QED
    BY <1>4, <1>7, <2>3
<1>9. IsFiniteSet(S) /\ S \subseteq C
  <2>1. S \subseteq C
    BY <1>4
  <2> QED
    BY <1>2, <2>1, FS_Subset
<1>10. PICK c \in S : \A d \in S : c.key >= d.key
  <2>1. S \subseteq ClaimsOf(SourcePool)
    BY <1>2, <1>9
  <2> QED
    BY <1>8, <1>9, <2>1, LastClaim
<1>11. S \ {c} \subseteq Before(c)
  <2> SUFFICES ASSUME NEW d \in S, d # c PROVE d \in Before(c)
    OBVIOUS
  <2>1. d.key \in Nat /\ c.key \in Nat /\ c.key >= d.key
    BY <1>3, <1>9, <1>10
  <2>2. d.key # c.key
    BY <1>2, <1>9, NewsAssumption
  <2> QED
    BY <1>9, <2>1, <2>2
<1>12. Cardinality(Before(c)) < MaxSupporting /\ c \in C
  BY <1>4
<1> HIDE DEF Before
<1>13. Cardinality(S \ {c}) <= Cardinality(Before(c))
  BY <1>6, <1>11, <1>12, FS_Subset
<1>14. Cardinality(S \ {c}) = Cardinality(S) - 1 /\ Cardinality(S) \in Nat
  BY <1>9, FS_RemoveElement, FS_CardinalityType
<1>15. Cardinality(S) # 0
  BY <1>8, <1>9, FS_EmptySet
<1>16. Cardinality(Before(c)) \in Nat
  BY <1>6, <1>12
<1> QED
  BY <1>5, <1>7, <1>12, <1>13, <1>14, <1>15, <1>16

\* Where no outlet contradicts itself, the numbers of an outlet are those of each of its
\* claims.
LEMMA NumbersAre ==
  ASSUME BriefSound, Consistent(brief.of), NEW s \in brief.eligible, NEW c \in ToSet(s.claims),
         c.numbers # <<>>
  PROVE  NumbersOf(brief, c.says, s.domain) = ToSet(c.numbers) /\ ToSet(c.numbers) # {}
<1>1. PICK tell : tell = {t \in brief.eligible : t.domain = s.domain /\ Numeric(t, c.says) # {}}
  OBVIOUS
<1>2. \A t \in brief.eligible : t \in SourcePool /\ t \in brief.of
  BY DEF BriefSound
<1>3. s \in tell
  <2>1. PICK i \in DOMAIN s.claims : c = s.claims[i]
    BY DEF ToSet
  <2>2. i \in Numeric(s, c.says)
    BY <2>1 DEF Numeric
  <2> QED
    BY <1>1, <2>2
<1>4. PICK first \in tell : first = (CHOOSE t \in tell : \A u \in tell : t.at <= u.at)
  <2>1. PICK A : A = {t.at : t \in tell}
    OBVIOUS
  <2>2. A \subseteq Nat /\ A # {}
    BY <1>1, <1>2, <1>3, <2>1, SourcesTyped
  <2>3. PICK a \in A : \A b \in A : a <= b
    BY <2>2, LeastNumber
  <2>4. \E t \in tell : \A u \in tell : t.at <= u.at
    BY <2>1, <2>3
  <2> QED
    BY <2>4
<1>5. PICK M : M = Numeric(first, c.says)
  OBVIOUS
<1>6. first \in brief.eligible /\ first.domain = s.domain /\ M # {}
  BY <1>1, <1>5
<1>7. M \subseteq Nat
  <2>1. first.claims \in Seq(ClaimsOf(SourcePool))
    BY <1>2, <1>6, SourcesTyped
  <2>2. PICK n \in Nat : DOMAIN first.claims = 1..n
    BY <2>1
  <2> QED
    BY <1>5, <2>2 DEF Numeric
<1>8. Min(M) \in M
  BY <1>6, <1>7, MinIn
<1>9. PICK e : e = first.claims[Min(M)]
  OBVIOUS
<1>10. e \in ToSet(first.claims) /\ e.says = c.says /\ e.numbers # <<>>
  BY <1>5, <1>8, <1>9 DEF Numeric, ToSet
<1>11. ~Contradict(e, c)
  BY <1>2, <1>6, <1>10 DEF Consistent
<1>12. ToSet(e.numbers) = ToSet(c.numbers)
  BY <1>10, <1>11 DEF Contradict
<1>13. NumbersOf(brief, c.says, s.domain) = ToSet(e.numbers)
  <2>1. tell # {}
    BY <1>3
  <2> QED
    BY <1>1, <1>4, <1>5, <1>9, <2>1 DEF NumbersOf
<1>14. ToSet(c.numbers) # {}
  <2>1. c.numbers \in Seq(Nat)
    BY <1>2, SourcesTyped
  <2>2. 1 \in DOMAIN c.numbers
    BY <2>1
  <2> QED
    BY <2>2 DEF ToSet
<1> QED
  BY <1>12, <1>13, <1>14

\* A selected claim is grounded in the sources of the brief.
LEMMA SelectedGrounded ==
  ASSUME BriefSound, Publishable(brief), NEW c \in SelectedClaims(brief)
  PROVE  Grounded(c, brief.of)
<1>1. c \in ClaimsOf(brief.eligible) /\ Corroborated(brief, c)
  BY DEF SelectedClaims
<1>2. PICK s \in brief.eligible, t \in brief.eligible :
        c \in ToSet(s.claims) /\ c \in ToSet(t.claims) /\ s.domain # t.domain
  BY <1>1 DEF Corroborated, Supporters
<1>3. s \in brief.of /\ t \in brief.of /\ s \in SourcePool /\ t \in SourcePool
  BY DEF BriefSound
<1>4. s.url # t.url
  BY <1>2, <1>3, NewsAssumption
<1>5. s.copy # t.copy
  BY <1>2 DEF BriefSound
<1>6. ASSUME Consistent(brief.of), NEW d \in ClaimsOf(brief.of), Contradict(c, d) PROVE FALSE
  <2>1. d \in ClaimsOf(brief.eligible)
    BY SameClaims
  <2>2. PICK u \in brief.eligible : d \in ToSet(u.claims)
    BY <2>1 DEF ClaimsOf
  <2>3. c.says = d.says /\ c.numbers # <<>> /\ d.numbers # <<>>
        /\ ToSet(c.numbers) # ToSet(d.numbers)
    BY <1>6 DEF Contradict
  <2>4. NumbersOf(brief, c.says, s.domain) = ToSet(c.numbers) /\ ToSet(c.numbers) # {}
    BY <1>2, <1>6, <2>3, NumbersAre
  <2>5. NumbersOf(brief, d.says, u.domain) = ToSet(d.numbers) /\ ToSet(d.numbers) # {}
    BY <1>6, <2>2, <2>3, NumbersAre
  <2>6. s.domain \in Domains(brief.eligible) /\ u.domain \in Domains(brief.eligible)
    BY DEF Domains
  <2>7. DifferIn(brief, c.says, Domains(brief.eligible))
    BY <2>3, <2>4, <2>5, <2>6 DEF DifferIn
  <2> QED
    BY <1>1, <2>7 DEF Publishable, Divergent
<1> QED
  BY <1>2, <1>3, <1>4, <1>5, <1>6 DEF Grounded

\* A format is of forty-five seconds to ten minutes.
LEMMA SecondsTyped ==
  ASSUME NEW o \in Orders
  PROVE  SecondsForFormat(o) \in 45..600
<1>1. o.seconds \in 45..600
  BY NewsAssumption
<1>2. Least(60, o.seconds) \in 45..600 /\ Most(90, Least(180, o.seconds)) \in 45..600
  BY <1>1 DEF Least, Most
<1> QED
  BY <1>1, <1>2 DEF SecondsForFormat

\* The sections fit, and every claim has a second.
LEMMA SharesFit ==
  ASSUME NEW x \in Nat, NEW n \in 1..12, x >= 12
  PROVE  x \div n >= 1 /\ n * (x \div n) <= x /\ x \div n \in Nat
<1>1. n = 1 \/ n = 2 \/ n = 3 \/ n = 4 \/ n = 5 \/ n = 6 \/ n = 7 \/ n = 8 \/ n = 9 \/ n = 10
      \/ n = 11 \/ n = 12
  OBVIOUS
<1> QED
  BY <1>1

\* The sections leave a second at least for the claims, and none is longer than the whole.
LEMMA SectionsFit ==
  ASSUME NEW seconds \in 45..600, NEW n \in 1..12
  PROVE  SectionSeconds(seconds, n) <= seconds /\ BodySeconds(seconds, n) >= 1
<1>1. PICK hook \in Nat, cta \in Nat, caveat \in Nat :
        /\ hook = HookSeconds(seconds) /\ cta = CtaSeconds(seconds)
        /\ caveat = CaveatSeconds(seconds) /\ hook + cta + caveat + 12 <= seconds
  BY DEF HookSeconds, CtaSeconds, CaveatSeconds, Share, Most
<1>2. PICK x \in Nat : x = seconds - hook - cta - caveat /\ x >= 12
  BY <1>1
<1>3. x \div n >= 1 /\ n * (x \div n) <= x /\ x \div n \in Nat
  BY <1>2, SharesFit
<1>4. PICK body \in Nat, all \in Int :
        body = x \div n /\ all = n * body /\ body >= 1 /\ all <= x
  BY <1>3
<1>5. BodySeconds(seconds, n) = body
  BY <1>1, <1>2, <1>4 DEF BodySeconds
<1>6. SectionSeconds(seconds, n) = hook + all + caveat + cta
  BY <1>1, <1>4, <1>5 DEF SectionSeconds
<1> QED
  BY <1>1, <1>2, <1>4, <1>5, <1>6

\* Every step of the news planners keeps their invariant.
LEMMA NewsStep == NewsInv /\ [NewsNext]_newsVars => NewsInv'
<1> SUFFICES ASSUME NewsInv, [NewsNext]_newsVars PROVE NewsInv'
  OBVIOUS
<1>1. BriefSound /\ EditorialSound /\ DraftSound
  BY DEF NewsInv
<1>2. UNCHANGED brief => BriefSound'
  BY <1>1 DEF BriefSound
<1>3. UNCHANGED editorial => EditorialSound'
  BY <1>1 DEF EditorialSound
<1>4. UNCHANGED draft => DraftSound'
  BY <1>1 DEF DraftSound
<1>5. ASSUME NEW s \in SourcePool, Observe(s) PROVE NewsInv'
  <2>1. sources' = Append(sources, s) /\ Len(sources) < MaxSources
        /\ UNCHANGED <<brief, editorial, draft, narrated>>
    BY <1>5 DEF Observe
  <2>2. sources' \in Seq(SourcePool) /\ Len(sources') = Len(sources) + 1
    BY <2>1 DEF NewsInv
  <2>3. Len(sources') <= MaxSources
    BY <2>1, <2>2, NewsAssumption DEF NewsInv
  <2> QED
    BY <1>2, <1>3, <1>4, <2>1, <2>2, <2>3 DEF NewsInv
<1>6. CASE ResearchBrief
  <2>1. BriefSound' /\ UNCHANGED <<sources, editorial, draft, narrated>>
    BY <1>6, BriefBuilt DEF ResearchBrief, NewsInv
  <2> QED
    BY <1>3, <1>4, <2>1 DEF NewsInv
<1>7. CASE EditorialPlan
  <2>1. PICK o \in Orders :
          editorial' = [of |-> brief.of, claims |-> SelectedClaims(brief),
                        seconds |-> SecondsForFormat(o)]
    BY <1>7 DEF EditorialPlan
  <2>2. Publishable(brief) /\ UNCHANGED <<sources, brief, draft, narrated>>
    BY <1>7 DEF EditorialPlan
  <2>3. editorial'.of = brief.of /\ editorial'.claims = SelectedClaims(brief)
        /\ editorial'.seconds \in 45..600
    BY <2>1, SecondsTyped
  <2>4. brief.of \subseteq SourcePool
    BY <1>1 DEF BriefSound
  <2>5. Cardinality(SelectedClaims(brief)) \in 1..12
    BY <1>1, <2>2, SelectedBounded
  <2>6. \A c \in SelectedClaims(brief) : Grounded(c, brief.of)
    BY <1>1, <2>2, SelectedGrounded
  <2>7. EditorialSound'
    <3>1. \A c \in editorial'.claims : Grounded(c, editorial'.of)
      BY <2>3, <2>6
    <3> QED
      BY <2>3, <2>4, <2>5, <3>1 DEF EditorialSound
  <2> QED
    BY <1>2, <1>4, <2>2, <2>7 DEF NewsInv
<1>8. CASE MetadataPlan
  <2>1. editorial # NoEditorial /\ editorial.of = brief.of
        /\ UNCHANGED <<sources, brief, editorial, narrated>>
    BY <1>8 DEF MetadataPlan, Matches
  <2>2. PICK top, count :
          /\ draft' = [of |-> brief.of, top |-> top, count |-> count]
          /\ top = IF SafeClaims # {} THEN {FirstOf(SafeClaims)} ELSE {}
          /\ count = Cardinality(Domains(brief.eligible))
    BY <1>8 DEF MetadataPlan
  <2>3. \A c \in editorial.claims : Grounded(c, editorial.of)
    BY <1>1 DEF EditorialSound
  <2>4. SafeClaims # {} => FirstOf(SafeClaims) \in SafeClaims
    <3> SUFFICES ASSUME SafeClaims # {} PROVE FirstOf(SafeClaims) \in SafeClaims
      OBVIOUS
    <3>1. SafeClaims \subseteq ClaimsOf(SourcePool)
      <4> SUFFICES ASSUME NEW c \in editorial.claims PROVE c \in ClaimsOf(SourcePool)
        BY DEF SafeClaims
      <4>1. PICK s \in editorial.of : c \in ToSet(s.claims)
        BY <2>3 DEF Grounded
      <4>2. s \in SourcePool
        BY <1>1 DEF EditorialSound
      <4> QED
        BY <4>1, <4>2, SourcesTyped
    <3>2. \E c \in SafeClaims : \A d \in SafeClaims : c.key <= d.key
      BY <3>1, FirstClaim
    <3> QED
      BY <3>2 DEF FirstOf
  <2>5. \A c \in top : Grounded(c, brief.of)
    BY <2>1, <2>2, <2>3, <2>4 DEF SafeClaims
  <2>6. count \in Nat
    <3>1. IsFiniteSet(brief.eligible)
      BY <1>1, FS_Subset DEF BriefSound
    <3>2. PICK f : f = [s \in brief.eligible |-> s.domain]
      OBVIOUS
    <3>3. f \in Surjection(brief.eligible, Domains(brief.eligible))
      BY <3>2 DEF Surjection, Domains
    <3>4. IsFiniteSet(Domains(brief.eligible))
      BY <3>1, <3>3, FS_Surjection
    <3> QED
      BY <2>2, <3>4, FS_CardinalityType
  <2>7. draft'.of = brief.of /\ draft'.top = top /\ draft'.count = count
    BY <2>2
  <2>8. DraftSound'
    <3>1. \A c \in draft'.top : Grounded(c, draft'.of)
      BY <2>5, <2>7
    <3>2. draft'.of \subseteq SourcePool
      BY <1>1, <2>7 DEF BriefSound
    <3> QED
      BY <2>6, <2>7, <3>1, <3>2 DEF DraftSound
  <2> QED
    BY <1>2, <1>3, <2>1, <2>8 DEF NewsInv
<1>9. CASE SubtitlePlan
  <2>1. PICK i \in DOMAIN Narrations :
          Acceptable(Narrations[i]) /\ Acceptable(Registered(Narrations[i])) /\ narrated' = i
    BY <1>9 DEF SubtitlePlan
  <2>2. UNCHANGED <<sources, brief, editorial, draft>>
    BY <1>9 DEF SubtitlePlan
  <2>3. i \in 1..Len(Narrations) /\ Len(Narrations) \in Nat
    BY NewsAssumption
  <2>4. LetThrough(i)
    BY <2>1 DEF LetThrough
  <2> QED
    BY <1>2, <1>3, <1>4, <2>1, <2>2, <2>3, <2>4 DEF NewsInv
<1>10. CASE UNCHANGED newsVars
  BY <1>2, <1>3, <1>4, <1>10 DEF newsVars, NewsInv
<1> QED
  BY <1>5, <1>6, <1>7, <1>8, <1>9, <1>10 DEF NewsNext

\* The invariant says at least the types.
LEMMA NewsTyped == NewsInv => NewsTypeOK
<1> SUFFICES ASSUME NewsInv PROVE NewsTypeOK
  OBVIOUS
<1>1. BriefSound /\ EditorialSound /\ DraftSound
  BY DEF NewsInv
<1>2. ToSet(sources) \subseteq SourcePool
  BY DEF NewsInv, ToSet
<1>3. ASSUME NEW S, S \subseteq SourcePool, NEW c, Grounded(c, S) PROVE c \in ClaimsOf(SourcePool)
  <2>1. PICK s \in S : c \in ToSet(s.claims)
    BY <1>3 DEF Grounded
  <2> QED
    BY <1>3, <2>1, SourcesTyped
<1>4. editorial.claims \subseteq ClaimsOf(SourcePool) /\ draft.top \subseteq ClaimsOf(SourcePool)
  BY <1>1, <1>3 DEF EditorialSound, DraftSound
<1> QED
  BY <1>1, <1>2, <1>4 DEF NewsInv, BriefSound, EditorialSound, DraftSound, NewsTypeOK

\* What the invariant says of the plans and their sources.
LEMMA NewsGrounded == NewsInv => PlansGrounded
<1> SUFFICES ASSUME NewsInv PROVE PlansGrounded
  OBVIOUS
<1>1. \A c \in editorial.claims : Grounded(c, editorial.of)
  BY DEF NewsInv, EditorialSound
<1>2. \A c \in draft.top : Grounded(c, draft.of)
  BY DEF NewsInv, DraftSound
<1>3. Consistent(editorial.of) => \A c, d \in editorial.claims : ~Contradict(c, d)
  <2> SUFFICES ASSUME Consistent(editorial.of), NEW c \in editorial.claims,
                      NEW d \in editorial.claims
               PROVE  ~Contradict(c, d)
    OBVIOUS
  <2>1. d \in ClaimsOf(editorial.of)
    BY <1>1 DEF Grounded, ClaimsOf
  <2> QED
    BY <1>1, <2>1 DEF Grounded
<1>4. editorial # NoEditorial =>
        /\ SectionSeconds(editorial.seconds, Cardinality(editorial.claims)) <= editorial.seconds
        /\ BodySeconds(editorial.seconds, Cardinality(editorial.claims)) >= 1
  BY SectionsFit DEF NewsInv, EditorialSound
<1>5. \A c \in editorial.claims : \E s, t \in editorial.of :
        /\ c \in ToSet(s.claims) /\ c \in ToSet(t.claims)
        /\ s.url # t.url /\ s.domain # t.domain /\ s.copy # t.copy
  BY <1>1 DEF Grounded
<1>6. \A c \in draft.top :
        /\ \E s, t \in draft.of :
             c \in ToSet(s.claims) /\ c \in ToSet(t.claims) /\ s.domain # t.domain
        /\ Consistent(draft.of) => \A d \in ClaimsOf(draft.of) : ~Contradict(c, d)
  BY <1>2 DEF Grounded
<1> QED
  BY <1>3, <1>4, <1>5, <1>6 DEF PlansGrounded

\* What the invariant says of a narration that was let through, and its cues.
LEMMA NewsCued == NewsInv => CuesCover
<1> SUFFICES ASSUME NewsInv, narrated # 0, NEW segment \in ToSet(Registered(Narrations[narrated]))
             PROVE  Cover(SegmentCues(segment), segment)
  BY DEF CuesCover
<1>1. PICK n : n = Narrations[narrated]
  OBVIOUS
<1>2. PICK R : R = [start : Nat, end : Nat, words : Seq(Nat) \ {<<>>}]
  OBVIOUS
<1>3. n \in Seq(R) /\ Acceptable(Registered(n)) /\ PerMs \in Nat \ {0}
  <2>1. narrated \in 1..Len(Narrations) /\ LetThrough(narrated)
    <3>1. PICK k \in 0..Len(Narrations) : narrated = k /\ (k # 0 => LetThrough(k))
      BY DEF NewsInv
    <3>2. Len(Narrations) \in Nat
      BY NewsAssumption
    <3> QED
      BY <3>1, <3>2
  <2>2. Narrations \in Seq(Seq(R)) /\ PerMs \in Nat \ {0}
    BY <1>2, NewsAssumption
  <2>3. PICK Q : Q = Seq(R)
    OBVIOUS
  <2>4. n \in Q
    BY <1>1, <2>1, <2>2, <2>3
  <2> QED
    BY <1>1, <2>1, <2>2, <2>3, <2>4 DEF LetThrough
<1>4. PICK i \in DOMAIN n : n[i] \in R /\ segment = Registered(n)[i]
  <2>1. DOMAIN Registered(n) = DOMAIN n
    BY DEF Registered
  <2>2. PICK i \in DOMAIN Registered(n) : segment = Registered(n)[i]
    BY <1>1 DEF ToSet
  <2>3. i \in DOMAIN n /\ n[i] \in R
    BY <1>3, <2>1, <2>2
  <2> QED
    BY <2>2, <2>3
<1>5. PICK x, y \in Nat, w \in Seq(Nat) \ {<<>>} : n[i] = [start |-> x, end |-> y, words |-> w]
  BY <1>2, <1>4
<1>6. PICK s, e \in Nat : s = Ms(x) /\ e = Ms(y)
  BY <1>3, MsTyped
<1>8. segment = [start |-> s * PerMs, end |-> e * PerMs, words |-> w]
      /\ DOMAIN Registered(n) = DOMAIN n
  BY <1>4, <1>5, <1>6, RegisteredAt
<1>9. segment.end > segment.start
  <2>1. PICK r : r = Registered(n)
    OBVIOUS
  <2>2. \A j \in DOMAIN r : r[j].end > r[j].start
    BY <1>3, <2>1 DEF Acceptable
  <2> QED
    BY <1>4, <1>8, <2>1, <2>2
<1>10. s < e
  <2>1. PICK d \in Nat \ {0} : d = PerMs
    BY <1>3
  <2>2. e <= s => d * e <= d * s
    BY TimesGrows
  <2>3. d * e = e * d /\ d * s = s * d
    OBVIOUS
  <2>4. segment.end = e * d /\ segment.start = s * d
    BY <1>8, <2>1
  <2> QED
    BY <1>9, <2>2, <2>3, <2>4
<1>11. PICK ms \in Nat \ {0} : ms = e - s
  BY <1>10
<1>12. segment.start = s * PerMs /\ segment.end = (s + ms) * PerMs /\ segment.words = w
  BY <1>8, <1>11
<1>13. Cover(SegmentCues(segment), segment)
  BY <1>3, <1>5, <1>12, SegmentCovered
<1> QED
  BY <1>13

\* Every variable of the news planners keeps its type.
THEOREM NewsTypes == NewsSpec => []NewsTypeOK
BY InitNewsInv, NewsStep, NewsTyped, PTL DEF NewsSpec

\* What is planned for the news is what its sources say.
THEOREM NewsPlansGrounded == NewsSpec => []PlansGrounded
BY InitNewsInv, NewsStep, NewsGrounded, PTL DEF NewsSpec

\* The cues of a narration that was accepted are its words, in order, at its times.
THEOREM NewsCuesCover == NewsSpec => []CuesCover
BY InitNewsInv, NewsStep, NewsCued, PTL DEF NewsSpec

-----------------------------------------------------------------------------
(* The plans of a story and its dispatches.                                *)

\* Four numbers added up.
LEMMA SumOfFour ==
  ASSUME NEW parts \in Seq(Nat), Len(parts) = 4
  PROVE  Sum(parts) = parts[1] + parts[2] + parts[3] + parts[4]
<1>1. PICK h : Counts(h, 4, parts) /\ Sum(parts) = h[4]
  BY SumWalk
<1>2. h[1] = h[0] + parts[1] /\ h[2] = h[1] + parts[2]
      /\ h[3] = h[2] + parts[3] /\ h[4] = h[3] + parts[4]
  <2>1. \A k \in 1..4 : h[k] = h[k - 1] + parts[k]
    BY <1>1 DEF Counts
  <2> QED
    BY <2>1
<1>3. h[0] = 0
  BY <1>1 DEF Counts
<1>4. \A k \in 1..4 : parts[k] \in Nat
  BY LenProperties
<1> QED
  BY <1>1, <1>2, <1>3, <1>4

\* Five numbers added up.
LEMMA SumOfFive ==
  ASSUME NEW parts \in Seq(Nat), Len(parts) = 5
  PROVE  Sum(parts) = parts[1] + parts[2] + parts[3] + parts[4] + parts[5]
<1>1. PICK h : Counts(h, 5, parts) /\ Sum(parts) = h[5]
  BY SumWalk
<1>2. h[1] = h[0] + parts[1] /\ h[2] = h[1] + parts[2]
      /\ h[3] = h[2] + parts[3] /\ h[4] = h[3] + parts[4]
      /\ h[5] = h[4] + parts[5]
  <2>1. \A k \in 1..5 : h[k] = h[k - 1] + parts[k]
    BY <1>1 DEF Counts
  <2> QED
    BY <2>1
<1>3. h[0] = 0
  BY <1>1 DEF Counts
<1>4. \A k \in 1..5 : parts[k] \in Nat
  BY LenProperties
<1> QED
  BY <1>1, <1>2, <1>3, <1>4

\* Six numbers added up.
LEMMA SumOfSix ==
  ASSUME NEW parts \in Seq(Nat), Len(parts) = 6
  PROVE  Sum(parts) = parts[1] + parts[2] + parts[3] + parts[4] + parts[5] + parts[6]
<1>1. PICK h : Counts(h, 6, parts) /\ Sum(parts) = h[6]
  BY SumWalk
<1>2. h[1] = h[0] + parts[1] /\ h[2] = h[1] + parts[2]
      /\ h[3] = h[2] + parts[3] /\ h[4] = h[3] + parts[4]
      /\ h[5] = h[4] + parts[5] /\ h[6] = h[5] + parts[6]
  <2>1. \A k \in 1..6 : h[k] = h[k - 1] + parts[k]
    BY <1>1 DEF Counts
  <2> QED
    BY <2>1
<1>3. h[0] = 0
  BY <1>1 DEF Counts
<1>4. \A k \in 1..6 : parts[k] \in Nat
  BY LenProperties
<1> QED
  BY <1>1, <1>2, <1>3, <1>4

\* One more at the end of a sequence.
LEMMA AppendedTo ==
  ASSUME NEW s \in Seq(Nat), NEW e \in Nat
  PROVE  /\ Append(s, e) \in Seq(Nat) /\ Len(Append(s, e)) = Len(s) + 1
         /\ DOMAIN Append(s, e) = 1..(Len(s) + 1)
         /\ \A i \in 1..Len(s) : Append(s, e)[i] = s[i]
         /\ Append(s, e)[Len(s) + 1] = e
OBVIOUS

\* A function on the first numbers is a sequence.
LEMMA FunctionIsSeq ==
  ASSUME NEW n \in Nat, NEW f \in [1..n -> Nat]
  PROVE  f \in Seq(Nat) /\ Len(f) = n
OBVIOUS

\* The minutes of the sections are the story's.
LEMMA MinutesAddUp ==
  ASSUME NEW m \in 25..30
  PROVE  /\ SectionMinutes(m) \in Seq(Nat) /\ Len(SectionMinutes(m)) = 5
         /\ \A i \in 1..5 : SectionMinutes(m)[i] >= 1
         /\ Sum(SectionMinutes(m)) = m
<1>1. PICK parts : parts = <<3, 5, 7, 6, m - 21>>
  OBVIOUS
<1>2. DOMAIN parts = 1..5 /\ parts[1] = 3 /\ parts[2] = 5 /\ parts[3] = 7 /\ parts[4] = 6
      /\ parts[5] = m - 21
  BY <1>1
<1>3. \A i \in 1..5 : parts[i] \in Nat /\ parts[i] >= 1
  BY <1>2
<1>4. parts \in Seq(Nat) /\ Len(parts) = 5
  BY <1>1
<1>5. Sum(parts) = m
  <2>1. PICK y : y = Sum(parts)
    OBVIOUS
  <2>2. y = parts[1] + parts[2] + parts[3] + parts[4] + parts[5]
    BY <1>4, <2>1, SumOfFive
  <2>3. y = 3 + 5 + 7 + 6 + (m - 21)
    BY <1>2, <2>2
  <2> QED
    BY <2>1, <2>3
<1> QED
  BY <1>1, <1>3, <1>4, <1>5 DEF SectionMinutes

\* The seconds of the beats are the story's, and every beat has some.
LEMMA SecondsAddUp ==
  ASSUME NEW m \in 25..30
  PROVE  /\ NarrationSeconds(m) \in Seq(Nat) /\ Len(NarrationSeconds(m)) = 5
         /\ \A i \in 1..5 : NarrationSeconds(m)[i] >= 1
         /\ Sum(NarrationSeconds(m)) = 60 * m
         /\ Append(NarrationSeconds(m), 0) \in Seq(Nat)
         /\ Len(Append(NarrationSeconds(m), 0)) = 6
         /\ Sum(Append(NarrationSeconds(m), 0)) = 60 * m
<1>1. PICK floors : floors = [i \in 1..4 |-> (m * 60 * <<12, 20, 27, 23>>[i]) \div 100]
  OBVIOUS
<1>2. /\ DOMAIN floors = 1..4
      /\ floors[1] = (m * 60 * 12) \div 100 /\ floors[2] = (m * 60 * 20) \div 100
      /\ floors[3] = (m * 60 * 27) \div 100 /\ floors[4] = (m * 60 * 23) \div 100
  BY <1>1
<1>3. /\ floors[1] \in 1..(m * 60) /\ floors[2] \in 1..(m * 60)
      /\ floors[3] \in 1..(m * 60) /\ floors[4] \in 1..(m * 60)
      /\ floors[1] + floors[2] + floors[3] + floors[4] < m * 60
  BY <1>2
<1>4. \A i \in 1..4 : floors[i] \in Nat /\ floors[i] >= 1
  BY <1>3
<1>5. floors \in Seq(Nat) /\ Len(floors) = 4
  <2>1. floors \in [1..4 -> Nat]
    BY <1>1, <1>4
  <2> QED
    BY <2>1, FunctionIsSeq
<1>6. Sum(floors) = floors[1] + floors[2] + floors[3] + floors[4]
  BY <1>5, SumOfFour
<1>7. PICK last : last = m * 60 - Sum(floors)
  OBVIOUS
<1>8. last \in Nat /\ last >= 1
  BY <1>3, <1>4, <1>6, <1>7
<1>9. PICK parts : parts = Append(floors, last)
  OBVIOUS
<1>10. parts \in Seq(Nat) /\ Len(parts) = 5 /\ DOMAIN parts = 1..5
       /\ (\A i \in 1..4 : parts[i] = floors[i]) /\ parts[5] = last
  <2>1. /\ parts \in Seq(Nat) /\ Len(parts) = Len(floors) + 1
        /\ DOMAIN parts = 1..(Len(floors) + 1)
        /\ (\A i \in 1..Len(floors) : parts[i] = floors[i])
        /\ parts[Len(floors) + 1] = last
    BY <1>5, <1>8, <1>9, AppendedTo
  <2> QED
    BY <1>5, <2>1
<1>11. \A i \in 1..5 : parts[i] \in Nat /\ parts[i] >= 1
  <2> SUFFICES ASSUME NEW i \in 1..5 PROVE parts[i] \in Nat /\ parts[i] >= 1
    OBVIOUS
  <2>1. CASE i = 5
    BY <1>8, <1>10, <2>1
  <2>2. CASE i \in 1..4
    BY <1>4, <1>10, <2>2
  <2> QED
    BY <2>1, <2>2
<1>12. Sum(parts) = 60 * m
  <2>1. Sum(parts) = parts[1] + parts[2] + parts[3] + parts[4] + parts[5]
    BY <1>10, SumOfFive
  <2>2. parts[1] = floors[1] /\ parts[2] = floors[2] /\ parts[3] = floors[3]
        /\ parts[4] = floors[4]
    BY <1>10
  <2> QED
    BY <1>3, <1>6, <1>7, <1>10, <2>1, <2>2
<1>13. PICK six : six = Append(parts, 0)
  OBVIOUS
<1>14. six \in Seq(Nat) /\ Len(six) = 6 /\ DOMAIN six = 1..6
       /\ (\A i \in 1..5 : six[i] = parts[i]) /\ six[6] = 0
  <2>1. /\ six \in Seq(Nat) /\ Len(six) = Len(parts) + 1
        /\ DOMAIN six = 1..(Len(parts) + 1)
        /\ (\A i \in 1..Len(parts) : six[i] = parts[i])
        /\ six[Len(parts) + 1] = 0
    BY <1>10, <1>13, AppendedTo
  <2> QED
    BY <1>10, <2>1
<1>15. Sum(six) = 60 * m
  <2>2. Sum(six) = six[1] + six[2] + six[3] + six[4] + six[5] + six[6]
    BY <1>14, SumOfSix
  <2>3. Sum(parts) = parts[1] + parts[2] + parts[3] + parts[4] + parts[5]
    BY <1>10, SumOfFive
  <2>4. six[1] = parts[1] /\ six[2] = parts[2] /\ six[3] = parts[3] /\ six[4] = parts[4]
        /\ six[5] = parts[5]
    BY <1>14
  <2>5. /\ parts[1] \in Nat /\ parts[2] \in Nat /\ parts[3] \in Nat /\ parts[4] \in Nat
        /\ parts[5] \in Nat
    BY <1>11
  <2> QED
    BY <1>12, <1>14, <2>2, <2>3, <2>4, <2>5
<1>16. parts = NarrationSeconds(m)
  BY <1>1, <1>7, <1>9 DEF NarrationSeconds
<1> QED
  BY <1>10, <1>11, <1>12, <1>13, <1>14, <1>15, <1>16

Dispatches == {"script_dispatch", "audio_dispatch", "visual_dispatch"}
Planned == {"script", "narration", "continuity", "scenes", "shorts", "metadata"}

\* The parts a document of that kind has in a story of so many minutes.
PartsOf(kind, minutes) ==
  CASE kind \in {"script", "script_dispatch"} -> SectionMinutes(minutes)
    [] kind = "narration" -> NarrationSeconds(minutes)
    [] kind = "audio_dispatch" -> Append(NarrationSeconds(minutes), 0)
    [] kind \in {"scenes", "visual_dispatch"} -> Scenes
    [] kind = "shorts" -> ShortSeconds
    [] OTHER -> <<>>

\* A document is what its stage makes of a brief that fits; beyond the outline no agent
\* is named in it, and a dispatch but that of the pictures has one owner.
DocumentSound(d) ==
  /\ d.kind \in Kinds /\ d.brief \in Briefs /\ d.brief.minutes \in 25..30
  /\ d = Document(d.kind, d.brief, PartsOf(d.kind, d.brief.minutes), d.owner)
  /\ d.kind # "outline" => "agent" \notin {d.brief.brand, d.brief.concept}
  /\ d.kind \in {"script_dispatch", "audio_dispatch"} => \E o \in Owners : d.owner = {o}
  /\ d.kind \notin {"script_dispatch", "audio_dispatch"} => d.owner = {}

\* A record is of a document and under its task; and it is there for everyone who wrote
\* it, but where another owner wrote the same dispatch of pictures.
CheckpointsSound ==
  /\ \A c \in checkpoints :
       c.of \in documents /\ c.owner \in Owners
       /\ c = [task |-> TaskOf(c.of), owner |-> c.owner, of |-> c.of]
  /\ waited \subseteq documents \X Owners
  /\ \A d \in documents, o \in Owners : <<d, o>> \in waited =>
       /\ Durable(d, o)
       /\ \/ [task |-> TaskOf(d), owner |-> o, of |-> d] \in checkpoints
          \/ d.kind = "visual_dispatch" /\ \E other \in Owners \ {o} : <<d, other>> \in waited

ManifestSound ==
  \A x \in manifest : \E agent \in {"agent-01", "agent-02"} :
    x = [agent |-> agent, shorts |-> StandaloneShorts(ProfileOf(agent))]

\* Subtitles were made of a narration that was let through.
CuedSound ==
  \E i \in 0..Len(StoryNarrations) : cued = i /\ (i # 0 => Narratable(StoryNarrations[i]))

\* Sound documents, records and manifest, and subtitles of a narration that was let through.
StoryPlansInv ==
  /\ \A d \in documents : DocumentSound(d)
  /\ CheckpointsSound /\ ManifestSound /\ CuedSound

\* Every part of a document is a natural number.
LEMMA PartsTyped ==
  ASSUME NEW kind \in Kinds, NEW m \in 25..30
  PROVE  PartsOf(kind, m) \in Seq(Nat)
<1>1. ShortSeconds \in Seq(Nat) /\ Scenes \in Seq(Nat) /\ <<>> \in Seq(Nat)
  <2>1. Scenes \in [1..8 -> Nat]
    BY DEF Scenes
  <2>2. Scenes \in Seq(Nat)
    BY <2>1, FunctionIsSeq
  <2> QED
    BY <2>2 DEF ShortSeconds
<1>2. SectionMinutes(m) \in Seq(Nat) /\ NarrationSeconds(m) \in Seq(Nat)
      /\ Append(NarrationSeconds(m), 0) \in Seq(Nat)
  BY MinutesAddUp, SecondsAddUp
<1> QED
  BY <1>1, <1>2 DEF PartsOf, Kinds

\* No stage of a story has begun at first.
LEMMA InitStoryPlansInv == StoryInit => StoryPlansInv
<1> SUFFICES ASSUME StoryInit PROVE StoryPlansInv
  OBVIOUS
<1>1. CuedSound
  <2>1. 0 \in 0..Len(StoryNarrations) /\ cued = 0
    BY StoryAssumption DEF StoryInit
  <2> QED
    BY <2>1 DEF CuedSound
<1> QED
  BY <1>1 DEF StoryInit, StoryPlansInv, CheckpointsSound, ManifestSound

\* They stay made of it.
LEMMA CuedKept ==
  ASSUME CuedSound, UNCHANGED cued
  PROVE  CuedSound'
BY DEF CuedSound

\* Another sound document leaves the rest as it was.
LEMMA MadeKeeps ==
  ASSUME StoryPlansInv, NEW d, Made(d), DocumentSound(d)
  PROVE  StoryPlansInv'
<1>1. documents' = documents \cup {d} /\ UNCHANGED <<checkpoints, waited, manifest, cued>>
  BY DEF Made
<1>2. \A e \in documents' : DocumentSound(e)
  BY <1>1 DEF StoryPlansInv
<1>3. CheckpointsSound'
  <2> waited \subseteq documents \X Owners
    BY DEF StoryPlansInv, CheckpointsSound
  <2>1. waited' \subseteq documents' \X Owners
    BY <1>1
  <2>2. \A c \in checkpoints' :
          c.of \in documents' /\ c.owner \in Owners
          /\ c = [task |-> TaskOf(c.of), owner |-> c.owner, of |-> c.of]
    BY <1>1 DEF StoryPlansInv, CheckpointsSound
  <2>3. ASSUME NEW e \in documents', NEW o \in Owners, <<e, o>> \in waited'
        PROVE  /\ Durable(e, o)
               /\ \/ [task |-> TaskOf(e), owner |-> o, of |-> e] \in checkpoints'
                  \/ e.kind = "visual_dispatch"
                     /\ \E other \in Owners \ {o} : <<e, other>> \in waited'
    <3>1. e \in documents /\ <<e, o>> \in waited
      BY <1>1, <2>3
    <3> QED
      BY <1>1, <3>1 DEF StoryPlansInv, CheckpointsSound
  <2> QED
    BY <2>1, <2>2, <2>3 DEF CheckpointsSound
<1>4. ManifestSound' /\ CuedSound'
  BY <1>1, CuedKept DEF StoryPlansInv, ManifestSound
<1> QED
  BY <1>2, <1>3, <1>4 DEF StoryPlansInv

\* What a stage has taken has none of what it screens.
LEMMA NoAgentIn ==
  ASSUME NEW d, NEW kind \in Planned, d.kind = "outline", Accepts(kind, d)
  PROVE  "agent" \notin {d.brief.brand, d.brief.concept} /\ d.brief.minutes \in 25..30
<1>1. "agent" \in Screens(kind)
  BY DEF Screens, Planned
<1>2. TextsOf(d) = {d.brief.brand, d.brief.concept}
  BY DEF TextsOf
<1> QED
  BY <1>1, <1>2 DEF Accepts

\* A plan that is made of an outline keeps the invariant.
LEMMA PlanKeeps ==
  ASSUME StoryPlansInv, NEW d \in documents, NEW kind \in Planned,
         Plan(d, kind, PartsOf(kind, d.brief.minutes))
  PROVE  StoryPlansInv'
<1> DEFINE e == Document(kind, d.brief, PartsOf(kind, d.brief.minutes), {})
<1>1. d.kind = "outline" /\ Accepts(kind, d) /\ Made(e)
  BY DEF Plan
<1>2. d.brief \in Briefs
  BY DEF StoryPlansInv, DocumentSound
<1>3. "agent" \notin {d.brief.brand, d.brief.concept} /\ d.brief.minutes \in 25..30
  BY <1>1, NoAgentIn
<1>4. e.kind = kind /\ e.brief = d.brief /\ e.owner = {}
  BY DEF Document
<1>5. DocumentSound(e)
  BY <1>2, <1>3, <1>4 DEF DocumentSound, Kinds, Planned
<1> HIDE DEF e
<1> QED
  BY <1>1, <1>5, MadeKeeps

\* A dispatch of a plan is of the same brief.
LEMMA DispatchKeeps ==
  ASSUME StoryPlansInv, NEW d \in documents, d.kind # "outline", NEW kind \in Dispatches, NEW owner,
         Made(Document(kind, d.brief, PartsOf(kind, d.brief.minutes), owner)),
         IF kind = "visual_dispatch" THEN owner = {} ELSE \E o \in Owners : owner = {o}
  PROVE  StoryPlansInv'
<1> DEFINE e == Document(kind, d.brief, PartsOf(kind, d.brief.minutes), owner)
<1>1. DocumentSound(d)
  BY DEF StoryPlansInv
<1>2. e.kind = kind /\ e.brief = d.brief /\ e.owner = owner
  BY DEF Document
<1>3. DocumentSound(e)
  BY <1>1, <1>2 DEF DocumentSound, Kinds, Dispatches
<1> HIDE DEF e
<1>4. Made(e)
  BY DEF e
<1> QED
  BY <1>3, <1>4, MadeKeeps

\* A document is named by its task.
LEMMA TaskNames ==
  ASSUME NEW d, NEW e, DocumentSound(d), DocumentSound(e), TaskOf(d) = TaskOf(e)
  PROVE  d = e
<1>1. d.kind = e.kind /\ d.brief = e.brief /\ d.owner = e.owner
  BY DEF TaskOf
<1> QED
  BY <1>1 DEF DocumentSound

\* A record that is written again is its own, or that of the same pictures for another.
LEMMA PersistKeeps ==
  ASSUME StoryPlansInv, NEW d \in documents, NEW o \in Owners, PersistWaiting(d, o)
  PROVE  StoryPlansInv'
<1> DEFINE record(e, p) == [task |-> TaskOf(e), owner |-> p, of |-> e]
<1>1. /\ Durable(d, o) /\ waited' = waited \cup {<<d, o>>}
      /\ checkpoints' = (checkpoints \ RecordsAt(TaskOf(d))) \cup {record(d, o)}
      /\ UNCHANGED <<documents, manifest, cued>>
  BY DEF PersistWaiting
<1>2. waited' \subseteq documents' \X Owners
  BY <1>1 DEF StoryPlansInv, CheckpointsSound
<1>3. ASSUME NEW c \in checkpoints'
      PROVE  c.of \in documents' /\ c.owner \in Owners /\ c = record(c.of, c.owner)
  <2>1. CASE c \in checkpoints
    BY <1>1, <2>1 DEF StoryPlansInv, CheckpointsSound
  <2>2. CASE c = record(d, o)
    BY <1>1, <2>2
  <2> QED
    BY <1>1, <2>1, <2>2
<1>4. ASSUME NEW e \in documents', NEW p \in Owners, <<e, p>> \in waited'
      PROVE  /\ Durable(e, p)
             /\ \/ record(e, p) \in checkpoints'
                \/ e.kind = "visual_dispatch" /\ \E q \in Owners \ {p} : <<e, q>> \in waited'
  <2>1. CASE e = d /\ p = o
    BY <1>1, <2>1
  <2>2. CASE ~(e = d /\ p = o)
    <3>1. e \in documents /\ <<e, p>> \in waited
      BY <1>1, <1>4, <2>2
    <3> Durable(e, p)
      BY <3>1 DEF StoryPlansInv, CheckpointsSound
    <3>2. CASE e.kind = "visual_dispatch" /\ \E q \in Owners \ {p} : <<e, q>> \in waited
      BY <1>1, <3>2
    <3>3. CASE record(e, p) \in checkpoints
      <4>1. CASE record(e, p) \notin RecordsAt(TaskOf(d))
        BY <1>1, <3>3, <4>1
      <4>2. CASE record(e, p) \in RecordsAt(TaskOf(d))
        <5>1. TaskOf(e) = TaskOf(d)
          BY <4>2 DEF RecordsAt
        <5>2. e = d
          BY <3>1, <5>1, TaskNames DEF StoryPlansInv
        <5>3. p # o /\ <<e, o>> \in waited'
          BY <1>1, <2>2, <5>2
        <5>4. d.kind = "visual_dispatch"
          <6>1. Durable(d, o) /\ Durable(d, p)
            BY <1>1, <3>1, <5>2 DEF StoryPlansInv, CheckpointsSound
          <6>2. {o} # {p}
            BY <5>3
          <6> QED
            BY <6>1, <6>2 DEF Durable
        <5> QED
          BY <5>2, <5>3, <5>4
      <4> QED
        BY <4>1, <4>2
    <3> QED
      BY <3>1, <3>2, <3>3 DEF StoryPlansInv, CheckpointsSound
  <2> QED
    BY <2>1, <2>2
<1>5. CheckpointsSound'
  BY <1>2, <1>3, <1>4 DEF CheckpointsSound
<1>6. (\A e \in documents' : DocumentSound(e)) /\ ManifestSound' /\ CuedSound'
  BY <1>1, CuedKept DEF StoryPlansInv, ManifestSound
<1> QED
  BY <1>5, <1>6 DEF StoryPlansInv

\* Every step of the story stages keeps their invariant.
LEMMA StoryPlansStep == StoryPlansInv /\ [StoryNext]_storyVars => StoryPlansInv'
<1> SUFFICES ASSUME StoryPlansInv, [StoryNext]_storyVars PROVE StoryPlansInv'
  OBVIOUS
<1>1. ASSUME NEW b \in Briefs, Outline(b) PROVE StoryPlansInv'
  <2> DEFINE d == Document("outline", b, <<>>, {})
  <2>1. Accepts("outline", d) /\ Made(d)
    BY <1>1 DEF Outline
  <2>2. d.kind = "outline" /\ d.brief = b /\ d.owner = {} /\ b.minutes \in 25..30
    BY <2>1 DEF Accepts, Document
  <2>3. DocumentSound(d)
    BY <2>2 DEF DocumentSound, PartsOf, Kinds
  <2> HIDE DEF d
  <2> QED
    BY <2>1, <2>3, MadeKeeps
<1>2. ASSUME NEW d \in documents,
             \/ ScriptPlan(d) \/ NarrationPlan(d) \/ ContinuityPlan(d) \/ ScenePlan(d)
             \/ ShortsPlan(d) \/ StoryMetadataPlan(d)
      PROVE  StoryPlansInv'
  <2>1. PICK kind \in Planned : Plan(d, kind, PartsOf(kind, d.brief.minutes))
    <3>1. CASE ScriptPlan(d)
      BY <3>1 DEF ScriptPlan, PartsOf, Planned
    <3>2. CASE NarrationPlan(d)
      BY <3>2 DEF NarrationPlan, PartsOf, Planned
    <3>3. CASE ContinuityPlan(d)
      BY <3>3 DEF ContinuityPlan, PartsOf, Planned
    <3>4. CASE ScenePlan(d)
      BY <3>4 DEF ScenePlan, PartsOf, Planned
    <3>5. CASE ShortsPlan(d)
      BY <3>5 DEF ShortsPlan, PartsOf, Planned
    <3>6. CASE StoryMetadataPlan(d)
      BY <3>6 DEF StoryMetadataPlan, PartsOf, Planned
    <3> QED
      BY <1>2, <3>1, <3>2, <3>3, <3>4, <3>5, <3>6
  <2> QED
    BY <2>1, PlanKeeps
<1>3. ASSUME NEW d \in documents, VisualDispatch(d) PROVE StoryPlansInv'
  <2>1. d.kind = "scenes" /\ d.parts = PartsOf("visual_dispatch", d.brief.minutes)
    <3>1. d.kind = "scenes" /\ DocumentSound(d)
      BY <1>3 DEF VisualDispatch, StoryPlansInv
    <3>2. d.parts = PartsOf("scenes", d.brief.minutes)
      BY <3>1 DEF DocumentSound, Document
    <3> QED
      BY <3>1, <3>2 DEF PartsOf
  <2>2. Made(Document("visual_dispatch", d.brief,
                      PartsOf("visual_dispatch", d.brief.minutes), {}))
    BY <1>3, <2>1 DEF VisualDispatch
  <2> QED
    BY <2>1, <2>2, DispatchKeeps DEF Dispatches
<1>4. ASSUME NEW d \in documents, NEW o \in Owners, ScriptDispatch(d, o) PROVE StoryPlansInv'
  <2>1. d.kind = "script" /\ d.parts = PartsOf("script_dispatch", d.brief.minutes)
    <3>1. d.kind = "script" /\ DocumentSound(d)
      BY <1>4 DEF ScriptDispatch, StoryPlansInv
    <3>2. d.parts = PartsOf("script", d.brief.minutes)
      BY <3>1 DEF DocumentSound, Document
    <3> QED
      BY <3>1, <3>2 DEF PartsOf
  <2>2. Made(Document("script_dispatch", d.brief,
                      PartsOf("script_dispatch", d.brief.minutes), {o}))
    BY <1>4, <2>1 DEF ScriptDispatch
  <2> QED
    BY <2>1, <2>2, DispatchKeeps DEF Dispatches
<1>5. ASSUME NEW d \in documents, NEW o \in Owners, AudioDispatch(d, o) PROVE StoryPlansInv'
  <2>1. d.kind = "narration"
        /\ Append(d.parts, 0) = PartsOf("audio_dispatch", d.brief.minutes)
    <3>1. d.kind = "narration" /\ DocumentSound(d)
      BY <1>5 DEF AudioDispatch, StoryPlansInv
    <3>2. d.parts = PartsOf("narration", d.brief.minutes)
      BY <3>1 DEF DocumentSound, Document
    <3> QED
      BY <3>1, <3>2 DEF PartsOf
  <2>2. Made(Document("audio_dispatch", d.brief,
                      PartsOf("audio_dispatch", d.brief.minutes), {o}))
    BY <1>5, <2>1 DEF AudioDispatch
  <2> QED
    BY <2>1, <2>2, DispatchKeeps DEF Dispatches
<1>6. ASSUME NEW agent \in {"agent-01", "agent-02"}, BuildManifest(agent) PROVE StoryPlansInv'
  BY <1>6, CuedKept DEF BuildManifest, StoryPlansInv, ManifestSound, CheckpointsSound
<1>7. CASE StorySubtitles
  <2>1. UNCHANGED <<documents, checkpoints, waited, manifest>>
    BY <1>7 DEF StorySubtitles
  <2>2. PICK i \in DOMAIN StoryNarrations : Narratable(StoryNarrations[i]) /\ cued' = i
    BY <1>7 DEF StorySubtitles
  <2>3. i \in 0..Len(StoryNarrations)
    BY StoryAssumption
  <2>4. CuedSound'
    BY <2>2, <2>3 DEF CuedSound
  <2> QED
    BY <2>1, <2>4 DEF StoryPlansInv, ManifestSound, CheckpointsSound
<1>8. CASE UNCHANGED storyVars
  BY <1>8, CuedKept DEF storyVars, StoryPlansInv, ManifestSound, CheckpointsSound
<1> QED
  BY <1>1, <1>2, <1>3, <1>4, <1>5, <1>6, <1>7, <1>8, PersistKeeps DEF StoryNext

\* The types of the story's stages.
LEMMA StoryTyped == StoryPlansInv => StoryTypeOK
<1> SUFFICES ASSUME StoryPlansInv PROVE StoryTypeOK
  OBVIOUS
<1>1. ASSUME NEW d \in documents
      PROVE  d.kind \in Kinds /\ d.brief \in Briefs /\ d.parts \in Seq(Nat)
             /\ d.owner \subseteq Owners
  <2>1. DocumentSound(d)
    BY DEF StoryPlansInv
  <2>2. d.parts = PartsOf(d.kind, d.brief.minutes)
    BY <2>1 DEF DocumentSound, Document
  <2>3. d.parts \in Seq(Nat)
    BY <2>1, <2>2, PartsTyped DEF DocumentSound
  <2> QED
    BY <2>1, <2>3 DEF DocumentSound
<1>2. ASSUME NEW x \in manifest
      PROVE  x.agent \in {"agent-01", "agent-02"} /\ x.shorts \in Seq(Nat)
  <2>1. PICK agent \in {"agent-01", "agent-02"} :
          x = [agent |-> agent, shorts |-> StandaloneShorts(ProfileOf(agent))]
    BY DEF StoryPlansInv, ManifestSound
  <2>2. StandaloneShorts(ProfileOf(agent)) \in Seq(Nat)
    BY DEF StandaloneShorts
  <2> QED
    BY <2>1, <2>2
<1> QED
  BY <1>1, <1>2 DEF StoryPlansInv, CheckpointsSound, CuedSound, StoryTypeOK

\* Every variable of the story's stages keeps its type.
THEOREM StoryTypes == StorySpec => []StoryTypeOK
BY InitStoryPlansInv, StoryPlansStep, StoryTyped, PTL DEF StorySpec

\* A later stage takes a plan that was made of a clean brief.
LEMMA CleanIsTaken ==
  ASSUME NEW d, DocumentSound(d), {d.brief.brand, d.brief.concept} = {"clean"},
         NEW stage \in Takers(d.kind)
  PROVE  Accepts(stage, d)
<1>1. TextsOf(d) \cap Screens(stage) = {}
  <2>1. "clean" \notin Screens(stage)
    BY DEF Screens
  <2> QED
    BY <2>1 DEF TextsOf
<1>2. d.parts = PartsOf(d.kind, d.brief.minutes) /\ d.brief.minutes \in 25..30
  BY DEF DocumentSound, Document
<1>3. CASE d.kind = "outline"
  <2>1. stage \in Planned /\ d.parts = <<>>
    BY <1>2, <1>3 DEF Takers, Planned, PartsOf
  <2>2. Fits(stage, d)
    BY <2>1 DEF Fits, Planned
  <2> QED
    BY <1>1, <1>2, <2>2 DEF Accepts
<1>4. CASE d.kind = "script"
  <2>1. stage = "script_dispatch" /\ d.parts = SectionMinutes(d.brief.minutes)
    BY <1>2, <1>4 DEF Takers, PartsOf
  <2>2. Fits(stage, d)
    <3>1. /\ d.parts \in Seq(Nat) /\ Len(d.parts) = 5
          /\ \A i \in 1..5 : d.parts[i] >= 1
      BY <1>2, <2>1, MinutesAddUp
    <3>2. Sum(d.parts) = d.brief.minutes
      BY <1>2, <2>1, MinutesAddUp
    <3>3. DOMAIN d.parts = 1..5
      BY <3>1
    <3> QED
      BY <2>1, <3>1, <3>2, <3>3 DEF Fits
  <2> QED
    BY <1>1, <1>2, <2>2 DEF Accepts
<1>5. CASE d.kind = "narration"
  <2>1. stage = "audio_dispatch" /\ d.parts = NarrationSeconds(d.brief.minutes)
    BY <1>2, <1>5 DEF Takers, PartsOf
  <2>2. Fits(stage, d)
    <3>1. /\ d.parts \in Seq(Nat) /\ Len(d.parts) = 5
          /\ \A i \in 1..5 : d.parts[i] >= 1
      BY <1>2, <2>1, SecondsAddUp
    <3>2. Sum(d.parts) = d.brief.minutes * 60
      <4>1. PICK m \in 25..30 : m = d.brief.minutes
        BY <1>2
      <4>2. Sum(d.parts) = 60 * m
        BY <2>1, <4>1, SecondsAddUp
      <4> QED
        BY <4>1, <4>2
    <3>3. DOMAIN d.parts = 1..5
      BY <3>1
    <3> QED
      BY <2>1, <3>1, <3>2, <3>3 DEF Fits
  <2> QED
    BY <1>1, <1>2, <2>2 DEF Accepts
<1>6. CASE d.kind = "scenes"
  <2>1. stage = "visual_dispatch" /\ d.parts = Scenes
    BY <1>2, <1>6 DEF Takers, PartsOf
  <2>2. Fits(stage, d)
    BY <2>1 DEF Fits, Scenes
  <2> QED
    BY <1>1, <1>2, <2>2 DEF Accepts
<1> QED
  BY <1>3, <1>4, <1>5, <1>6 DEF Takers

\* Sound documents and records are what the stages promise each other.
LEMMA StoryAgreed == StoryPlansInv => StoryPlansHold
<1> SUFFICES ASSUME StoryPlansInv PROVE StoryPlansHold
  OBVIOUS
<1>1. StagesAgree
  <2> SUFFICES ASSUME NEW d \in documents
      PROVE  /\ {d.brief.brand, d.brief.concept} = {"clean"} =>
                  /\ \A stage \in Takers(d.kind) : Accepts(stage, d)
                  /\ d.kind \in Dispatches => \E o \in Owners : Durable(d, o)
             /\ d.kind \in Dispatches => "agent" \notin {d.brief.brand, d.brief.concept}
             /\ d.kind = "script_dispatch" => Sum(d.parts) = d.brief.minutes
             /\ d.kind = "audio_dispatch" => Sum(d.parts) = 60 * d.brief.minutes
    BY DEF StagesAgree, Dispatches
  <2>1. DocumentSound(d)
    BY DEF StoryPlansInv
  <2>2. d.brief.minutes \in 25..30 /\ d.parts = PartsOf(d.kind, d.brief.minutes)
    BY <2>1 DEF DocumentSound, Document
  <2>3. d.kind = "script_dispatch" => Sum(d.parts) = d.brief.minutes
    BY <2>2, MinutesAddUp DEF PartsOf
  <2>4. d.kind = "audio_dispatch" => Sum(d.parts) = 60 * d.brief.minutes /\ Len(d.parts) = 6
    BY <2>2, SecondsAddUp DEF PartsOf
  <2>5. d.kind = "visual_dispatch" => Len(d.parts) = 8
    BY <2>2 DEF PartsOf, Scenes
  <2>6. d.kind \in Dispatches => "agent" \notin {d.brief.brand, d.brief.concept}
    BY <2>1 DEF DocumentSound, Dispatches
  <2>7. d.kind \in Dispatches => \E o \in Owners : Durable(d, o)
    BY <2>1, <2>4, <2>5, StoryAssumption DEF DocumentSound, Dispatches, Durable
  <2> QED
    BY <2>1, <2>3, <2>4, <2>6, <2>7, CleanIsTaken
<1>2. WaitingFound
  <2> SUFFICES ASSUME NEW w \in waited
      PROVE  \/ Resumed(w[1], w[2]) = "waiting"
             \/ w[1].kind = "visual_dispatch"
                /\ \E o \in Owners \ {w[2]} : <<w[1], o>> \in waited
    BY DEF WaitingFound
  <2>1. PICK d \in documents, o \in Owners : w = <<d, o>>
    BY DEF StoryPlansInv, CheckpointsSound
  <2>2. \/ [task |-> TaskOf(d), owner |-> o, of |-> d] \in checkpoints
        \/ d.kind = "visual_dispatch" /\ \E other \in Owners \ {o} : <<d, other>> \in waited
    BY <2>1 DEF StoryPlansInv, CheckpointsSound
  <2>3. CASE [task |-> TaskOf(d), owner |-> o, of |-> d] \in checkpoints
    <3>1. RecordsAt(TaskOf(d)) # {}
      BY <2>3 DEF RecordsAt
    <3> QED
      BY <2>1, <2>3, <3>1 DEF Resumed
  <2> QED
    BY <2>1, <2>2, <2>3
<1>3. ManifestKept
  BY DEF StoryPlansInv, ManifestSound, ManifestKept, StandaloneShorts, ProfileOf, ShortSeconds
<1> QED
  BY <1>1, <1>2, <1>3 DEF StoryPlansHold

\* What a stage makes of a clean brief, the stages after it take; a dispatch names no agent,
\* its times add up to the story's; and who wrote that a dispatch waits finds it waiting,
\* unless it is one of pictures that another owner has written too.
THEOREM StoryPlansHeld == StorySpec => []StoryPlansHold
BY InitStoryPlansInv, StoryPlansStep, StoryAgreed, PTL DEF StorySpec

\* The cues of a narration that was let through cover its segments, and neither of the
\* first two shorts shows the last of them.
LEMMA StoryCued == StoryPlansInv => StoryCuesCover
<1> SUFFICES ASSUME StoryPlansInv, cued # 0 PROVE StoryCuesCover
  BY DEF StoryCuesCover
<1>1. PICK n : n = StoryNarrations[cued]
  OBVIOUS
<1>2. PICK R : R = StorySegment
  OBVIOUS
<1>3. n \in Seq(R) /\ Narratable(n)
  <2>1. PICK i \in 0..Len(StoryNarrations) :
          cued = i /\ (i # 0 => Narratable(StoryNarrations[i]))
    BY DEF StoryPlansInv, CuedSound
  <2>2. StoryNarrations \in Seq(Seq(R))
    BY <1>2, StoryAssumption DEF StorySegment
  <2>3. PICK Q : Q = Seq(R)
    OBVIOUS
  <2>4. i \in 1..Len(StoryNarrations) /\ StoryNarrations \in Seq(Q)
    BY <2>1, <2>2, <2>3, LenProperties
  <2>5. n \in Q
    BY <1>1, <2>1, <2>4
  <2> QED
    BY <1>1, <2>1, <2>3, <2>4, <2>5
<1>4. PICK m \in Nat \ {0} : m = Len(n) /\ DOMAIN n = 1..m
  <2>1. n # <<>>
    BY <1>3 DEF Narratable
  <2> QED
    BY <1>3, <2>1, LenProperties, EmptySeq
<1>5. ASSUME NEW i \in 1..m PROVE n[i] \in StorySegment /\ n[i].start < n[i].end
  <2>1. n[i] \in R
    BY <1>3, <1>4
  <2>2. n[i].end > n[i].start
    BY <1>3, <1>4 DEF Narratable
  <2>3. n[i].start \in Nat /\ n[i].end \in Nat
    BY <1>2, <2>1 DEF StorySegment
  <2> QED
    BY <1>2, <2>1, <2>2, <2>3
<1>6. PICK all : all = LongFormCues(n)
  OBVIOUS
<1>7. all \in Seq(StoryCueSet) \ {<<>>}
  <2>1. PICK seqs : seqs = [i \in 1..m |-> Split(n[i])]
    OBVIOUS
  <2>2. PICK Z : Z = Seq(StoryCueSet) \ {<<>>}
    OBVIOUS
  <2>3. \A i \in 1..m : Split(n[i]) \in Z
    BY <1>5, <2>2, SplitFine
  <2>4. seqs \in Seq(Z) /\ Len(seqs) = m
    BY <2>1, <2>3
  <2>5. seqs # <<>>
    BY <2>4
  <2>6. FlattenSeq(seqs) \in Seq(StoryCueSet) \ {<<>>}
    BY <2>2, <2>4, <2>5, FlattenFine
  <2>7. all = FlattenSeq(seqs)
    BY <1>4, <1>6, <2>1 DEF LongFormCues
  <2> QED
    BY <2>6, <2>7
<1>8. PICK last : last = all[Len(all)]
  OBVIOUS
<1>9. PICK total \in Nat : total = last.end
  <2>1. Len(all) \in 1..Len(all)
    BY <1>7, LenProperties, EmptySeq
  <2>2. last \in StoryCueSet
    BY <1>7, <1>8, <2>1
  <2> QED
    BY <2>2 DEF StoryCueSet
<1>10. ASSUME NEW segment \in ToSet(n), RoomForCuts(segment)
       PROVE  CoverStory(Split(segment), segment, last.end)
  <2>1. PICK i \in 1..m : segment = n[i]
    BY <1>4 DEF ToSet
  <2>2. segment \in StorySegment /\ segment.start < segment.end
    BY <1>5, <2>1
  <2> QED
    BY <1>9, <1>10, <2>2, SegmentTold
<1>11. last.end >= 14000 => ~InHook(last, last.end) /\ ~InTension(last, last.end)
  BY <1>9, LastNotShown
<1> QED
  BY <1>1, <1>6, <1>8, <1>10, <1>11 DEF StoryCuesCover

\* The cues of a story's narration cover its segments and their words.
THEOREM StoryCuesHeld == StorySpec => []StoryCuesCover
BY InitStoryPlansInv, StoryPlansStep, StoryCued, PTL DEF StorySpec
================================================================================
