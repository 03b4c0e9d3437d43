-------------------------- MODULE OperationsProofs --------------------------
(***************************************************************************)
(* Proofs about what a request to the service relies on: the owner's       *)
(* session, a connected account, a provider's quota, audit and circuit, and*)
(* the resilience controls; and before them about what the owner and the   *)
(* agents agree on: a blueprint of the communication studio, the charters  *)
(* and profiles of the creative registry, and the content packages made    *)
(* from them; for any number of drafts, revisions, agents, stages and      *)
(* runs.  Each part has its own specification; the types of all that run   *)
(* beside production are put together at the end.                          *)
(***************************************************************************)
EXTENDS MCOperations, PlanningProofs

-----------------------------------------------------------------------------
(* The communication studio.                                               *)

Contents == [Sections -> Answers \cup {None}]
Talk == {"proposed", "accepted", "rejected", "superseded"}
DraftRows == [revision : 1..MaxRevision, snapshot : Contents, active : BOOLEAN, predecessor : Nat]
VersionRows == [draft : Nat, snapshot : Contents, status : {"unapproved", "approved", "superseded"}]
ItemRows == [draft : Nat, section : Sections, value : Answers, status : Talk]
QuestionRows == [draft : Nat, section : Sections, open : BOOLEAN]

\* What a call that approves nothing leaves of the drafts: those there were keep
\* their activity and predecessor, and the one that may be new has no active rival.
KeepsDrafts(ds) ==
  /\ ds \in Seq(DraftRows) /\ DOMAIN drafts \subseteq DOMAIN ds
  /\ \A d \in DOMAIN drafts :
       ds[d].active = drafts[d].active /\ ds[d].predecessor = drafts[d].predecessor
  /\ \A d \in DOMAIN ds :
       d \notin DOMAIN drafts =>
         /\ d = Len(drafts) + 1
         /\ ds[d].predecessor # 0 =>
              /\ ds[d].predecessor \in DOMAIN versions
              /\ SuccessorsOf(ds[d].predecessor) = {}

LEMMA WriteRows ==
  ASSUME NEW ds \in Seq(DraftRows), NEW t \in DOMAIN ds, ds[t].revision < MaxRevision,
         NEW s \in Sections, NEW x \in Answers, NEW new,
         new = Write([target |-> t, drafts |-> ds], s, x)
  PROVE  /\ new \in Seq(DraftRows) /\ DOMAIN new = DOMAIN ds
         /\ \A d \in DOMAIN ds : 
              new[d].active = ds[d].active /\ new[d].predecessor = ds[d].predecessor
<1>1. ds[t] \in DraftRows
  OBVIOUS
<1>2. [ds[t].snapshot EXCEPT ![s] = x] \in Contents
  BY <1>1 DEF DraftRows, Contents
<1> DEFINE row == [revision |-> ds[t].revision + 1, snapshot |-> [ds[t].snapshot EXCEPT ![s] = x],
      active |-> ds[t].active, predecessor |-> ds[t].predecessor]
<1>3. row \in DraftRows /\ row.active = ds[t].active /\ row.predecessor = ds[t].predecessor
  BY <1>1, <1>2, StudioAssumption DEF DraftRows
<1>4. new = [ds EXCEPT ![t] = row]
  BY DEF Write
<1> HIDE DEF row, DraftRows
<1> QED
  BY <1>3, <1>4

\* The parts
StudioRows ==
  /\ drafts \in Seq(DraftRows) /\ versions \in Seq(VersionRows)
  /\ changes \in Seq(ItemRows) /\ suggestions \in Seq(ItemRows) /\ questions \in Seq(QuestionRows)
  /\ validated \subseteq Nat \X Contents /\ activeQuestion \in Nat

StudioReferences ==
  /\ \A d \in DOMAIN drafts : drafts[d].predecessor \in {0} \cup DOMAIN versions
  /\ \A v \in DOMAIN versions : versions[v].draft \in DOMAIN drafts
  /\ \A v \in validated : v[1] \in DOMAIN drafts
  /\ \A c \in DOMAIN changes : changes[c].draft \in DOMAIN drafts
  /\ \A g \in DOMAIN suggestions : suggestions[g].draft \in DOMAIN drafts
  /\ \A q \in DOMAIN questions : questions[q].draft \in DOMAIN drafts
  /\ activeQuestion \in {0} \cup DOMAIN questions

OneSuccessor ==
  \A d, e \in DOMAIN drafts :
    /\ drafts[d].active /\ drafts[e].active
    /\ drafts[d].predecessor = drafts[e].predecessor /\ drafts[d].predecessor # 0
    => d = e

ApprovedSettled ==
  \A v \in DOMAIN versions : versions[v].status = "approved" =>
     /\ \A w \in DOMAIN versions : versions[w].status = "approved" => w = v
     /\ ~drafts[versions[v].draft].active /\ OpenOn(versions[v].draft) = {}
     /\ <<versions[v].draft, versions[v].snapshot>> \in validated

StudioInv == StudioRows /\ StudioReferences /\ OneSuccessor /\ ApprovedSettled

LEMMA AimKeeps ==
  ASSUME StudioInv, NEW d \in DOMAIN drafts, NEW aim \in Aims(d)
  PROVE  /\ KeepsDrafts(aim.drafts) /\ aim.target \in DOMAIN aim.drafts
         /\ aim = [target |-> aim.target, drafts |-> aim.drafts]
<1>1. drafts \in Seq(DraftRows) /\ versions \in Seq(VersionRows)
  BY DEF StudioInv, StudioRows
<1>2. CASE drafts[d].active
  BY <1>1, <1>2 DEF Aims, KeepsDrafts
<1>3. CASE ~drafts[d].active
  <2>1. PICK v \in ApprovedOf(d) :
          aim = IF SuccessorsOf(v) # {}
                THEN [target |-> CHOOSE e \in SuccessorsOf(v) : TRUE, drafts |-> drafts]
                ELSE [target |-> Len(drafts) + 1,
                      drafts |-> Append(drafts, Draft(versions[v].snapshot, v))]
    BY <1>3 DEF Aims
  <2>2. CASE SuccessorsOf(v) # {}
    <3>1. (CHOOSE e \in SuccessorsOf(v) : TRUE) \in DOMAIN drafts
      BY <2>2 DEF SuccessorsOf
    <3> QED
      BY <2>1, <2>2, <3>1, <1>1 DEF KeepsDrafts
  <2>3. CASE SuccessorsOf(v) = {}
    <3>1. v \in DOMAIN versions /\ versions[v] \in VersionRows
      BY <1>1 DEF ApprovedOf
    <3> DEFINE row == Draft(versions[v].snapshot, v)
    <3>2. row \in DraftRows /\ row.predecessor = v
      BY <3>1, <1>1, StudioAssumption DEF Draft, DraftRows, VersionRows
    <3>3. aim.target = Len(drafts) + 1 /\ aim.drafts = Append(drafts, row)
          /\ aim = [target |-> aim.target, drafts |-> aim.drafts]
      BY <2>1, <2>3
    <3> HIDE DEF row, DraftRows
    <3> DEFINE ds == aim.drafts
    <3>4. ds \in Seq(DraftRows) /\ Len(ds) = Len(drafts) + 1 /\ ds[Len(drafts) + 1] = row
          /\ DOMAIN ds = 1 .. Len(drafts) + 1
          /\ \A e \in DOMAIN drafts : ds[e] = drafts[e]
      BY <1>1, <3>2, <3>3
    <3> HIDE DEF ds
    <3>5. KeepsDrafts(ds)
      BY <3>1, <3>2, <3>4, <1>1, <2>3 DEF KeepsDrafts
    <3> QED
      BY <3>3, <3>4, <3>5, <1>1 DEF ds
  <2> QED
    BY <2>2, <2>3
<1> QED
  BY <1>2, <1>3

LEMMA WriteKeeps ==
  ASSUME NEW aim, aim = [target |-> aim.target, drafts |-> aim.drafts],
         KeepsDrafts(aim.drafts), aim.target \in DOMAIN aim.drafts, Fresh(aim),
         NEW s \in Sections, NEW x \in Answers
  PROVE  KeepsDrafts(Write(aim, s, x))
<1> DEFINE ds == aim.drafts  t == aim.target  new == Write(aim, s, x)
<1>1. ds \in Seq(DraftRows) /\ t \in DOMAIN ds /\ ds[t].revision < MaxRevision
  BY DEF KeepsDrafts, Fresh
<1>2. new = Write([target |-> t, drafts |-> ds], s, x)
  OBVIOUS
<1> HIDE DEF new, ds, t
<1>3. /\ new \in Seq(DraftRows) /\ DOMAIN new = DOMAIN ds
      /\ \A d \in DOMAIN ds : new[d].active = ds[d].active /\ new[d].predecessor = ds[d].predecessor
  BY <1>1, <1>2, WriteRows
<1>4. KeepsDrafts(ds)
  BY DEF ds
<1>5. KeepsDrafts(new)
  BY <1>3, <1>4 DEF KeepsDrafts
<1> QED
  BY <1>5 DEF new

-----------------------------------------------------------------------------
ItemsFit(list, ds) ==
  list \in Seq(ItemRows) /\ \A i \in DOMAIN list : list[i].draft \in DOMAIN ds

VersionsKept ==
  /\ versions' \in Seq(VersionRows) /\ DOMAIN versions \subseteq DOMAIN versions'
  /\ \A v \in DOMAIN versions : versions'[v] = versions[v]
  /\ \A v \in DOMAIN versions' : v \notin DOMAIN versions =>
       versions'[v].status # "approved" /\ versions'[v].draft \in DOMAIN drafts

ValidatedGrows ==
  /\ validated \subseteq validated' /\ validated' \subseteq Nat \X Contents
  /\ \A r \in validated' : r[1] \in DOMAIN drafts

\* A question is opened of a draft that is active.
QuestionsOfActive ==
  /\ questions' \in Seq(QuestionRows) /\ activeQuestion' \in {0} \cup DOMAIN questions'
  /\ \A q \in DOMAIN questions' :
       /\ questions'[q].draft \in DOMAIN drafts
       /\ \/ ~questions'[q].open \/ drafts[questions'[q].draft].active
          \/ q \in OpenOn(questions'[q].draft)

Talked ==
  /\ KeepsDrafts(drafts') /\ VersionsKept /\ ValidatedGrows
  /\ ItemsFit(changes', drafts') /\ ItemsFit(suggestions', drafts') /\ QuestionsOfActive

LEMMA TalkedKeeps ==
  ASSUME StudioInv, Talked
  PROVE  StudioInv'
<1>1. /\ drafts \in Seq(DraftRows) /\ versions \in Seq(VersionRows)
      /\ drafts' \in Seq(DraftRows) /\ DOMAIN drafts \subseteq DOMAIN drafts'
      /\ \A d \in DOMAIN drafts :
           drafts'[d].active = drafts[d].active /\ drafts'[d].predecessor = drafts[d].predecessor
      /\ \A d \in DOMAIN drafts' : d \notin DOMAIN drafts =>
           /\ d = Len(drafts) + 1
           /\ drafts'[d].predecessor # 0 =>
                /\ drafts'[d].predecessor \in DOMAIN versions
                /\ SuccessorsOf(drafts'[d].predecessor) = {}
  BY DEF StudioInv, StudioRows, Talked, KeepsDrafts
<1>2. VersionsKept /\ ValidatedGrows /\ QuestionsOfActive
      /\ ItemsFit(changes', drafts') /\ ItemsFit(suggestions', drafts')
  BY DEF Talked
<1>3. StudioReferences /\ OneSuccessor /\ ApprovedSettled
  BY DEF StudioInv
<1> HIDE DEF DraftRows, VersionRows, QuestionRows, ItemRows, Contents
<1>4. StudioRows'
  <2>1. 0 \in Nat /\ DOMAIN questions' \subseteq Nat
    BY <1>2 DEF QuestionsOfActive
  <2> QED
    BY <2>1, <1>1, <1>2 DEF StudioRows, VersionsKept, ValidatedGrows, QuestionsOfActive, ItemsFit
<1>5. StudioReferences'
  <2>1. \A d \in DOMAIN drafts' : drafts'[d].predecessor \in {0} \cup DOMAIN versions'
    BY <1>1, <1>2, <1>3 DEF StudioReferences, VersionsKept
  <2>2. \A v \in DOMAIN versions' : versions'[v].draft \in DOMAIN drafts'
    BY <1>1, <1>2, <1>3 DEF StudioReferences, VersionsKept
  <2>3. \A q \in DOMAIN questions' : questions'[q].draft \in DOMAIN drafts'
    BY <1>1, <1>2 DEF QuestionsOfActive
  <2>4. \A v \in validated' : v[1] \in DOMAIN drafts'
    BY <1>1, <1>2 DEF ValidatedGrows
  <2> QED
    BY <2>1, <2>2, <2>3, <2>4, <1>2 DEF StudioReferences, ItemsFit, QuestionsOfActive
<1>6. OneSuccessor'
  <2> SUFFICES ASSUME NEW d \in DOMAIN drafts', NEW e \in DOMAIN drafts',
                      drafts'[d].active, drafts'[e].active,
                      drafts'[d].predecessor = drafts'[e].predecessor, drafts'[d].predecessor # 0
               PROVE  d = e
    BY DEF OneSuccessor
  <2>1. CASE d \in DOMAIN drafts /\ e \in DOMAIN drafts
    BY <2>1, <1>1, <1>3 DEF OneSuccessor
  <2>2. CASE d \notin DOMAIN drafts /\ e \notin DOMAIN drafts
    BY <2>2, <1>1
  <2>3. ASSUME NEW a \in DOMAIN drafts', NEW b \in DOMAIN drafts', a \in DOMAIN drafts,
               b \notin DOMAIN drafts, drafts'[a].active, drafts'[b].predecessor # 0,
               drafts'[a].predecessor = drafts'[b].predecessor
        PROVE  FALSE
    <3>1. a \in SuccessorsOf(drafts'[b].predecessor)
      BY <2>3, <1>1 DEF SuccessorsOf
    <3> QED
      BY <3>1, <2>3, <1>1
  <2> QED
    BY <2>1, <2>2, <2>3
<1>7. ApprovedSettled'
  <2> SUFFICES ASSUME NEW v \in DOMAIN versions', versions'[v].status = "approved"
               PROVE  /\ \A w \in DOMAIN versions' : versions'[w].status = "approved" => w = v
                      /\ ~drafts'[versions'[v].draft].active /\ OpenOn(versions[v].draft)' = {}
                      /\ <<versions'[v].draft, versions'[v].snapshot>> \in validated'
    BY DEF ApprovedSettled
  <2>1. \A w \in DOMAIN versions' : versions'[w].status = "approved" =>
          w \in DOMAIN versions /\ versions'[w] = versions[w]
    BY <1>2 DEF VersionsKept
  <2>2. v \in DOMAIN versions /\ versions'[v] = versions[v] /\ versions[v].status = "approved"
    BY <2>1
  <2>3. versions[v].draft \in DOMAIN drafts /\ ~drafts[versions[v].draft].active
        /\ OpenOn(versions[v].draft) = {}
    BY <2>2, <1>3 DEF StudioReferences, ApprovedSettled
  <2>4. OpenOn(versions[v].draft)' = {}
    BY <2>2, <2>3, <1>2 DEF QuestionsOfActive, OpenOn
  <2>5. <<versions'[v].draft, versions'[v].snapshot>> \in validated'
    BY <2>2, <1>2, <1>3 DEF ApprovedSettled, ValidatedGrows
  <2> QED
    BY <2>1, <2>2, <2>3, <2>4, <2>5, <1>1, <1>3 DEF ApprovedSettled
<1> QED
  BY <1>4, <1>5, <1>6, <1>7 DEF StudioInv

-----------------------------------------------------------------------------
LEMMA ItemAppended ==
  ASSUME NEW ds, NEW list, ItemsFit(list, ds), NEW d \in DOMAIN ds, d \in Nat,
         NEW s \in Sections, NEW x \in Answers
  PROVE  ItemsFit(Append(list, Item(d, s, x)), ds)
<1>1. Item(d, s, x) \in ItemRows /\ Item(d, s, x).draft = d
  BY DEF Item, ItemRows, Talk
<1> HIDE DEF ItemRows
<1> QED
  BY <1>1 DEF ItemsFit

LEMMA ItemsAccepted ==
  ASSUME NEW ds, NEW list, ItemsFit(list, ds), NEW i \in DOMAIN list
  PROVE  ItemsFit(Accepted(list, i), ds)
<1>1. \A j \in DOMAIN list : list[j] \in ItemRows
  BY DEF ItemsFit
<1>2. \A j \in DOMAIN list : Accepted(list, i)[j] \in ItemRows
        /\ Accepted(list, i)[j].draft = list[j].draft
  BY <1>1 DEF Accepted, ItemRows, Talk
<1>3. DOMAIN Accepted(list, i) = DOMAIN list /\ Accepted(list, i) = [j \in DOMAIN list |-> Accepted(list, i)[j]]
  BY DEF Accepted
<1> HIDE DEF ItemRows
<1>4. Accepted(list, i) \in Seq(ItemRows)
  <2>1. list \in Seq(ItemRows)
    BY DEF ItemsFit
  <2> DEFINE f == Accepted(list, i)
  <2>2. DOMAIN f = 1 .. Len(list) /\ f = [j \in 1 .. Len(list) |-> f[j]]
        /\ \A j \in 1 .. Len(list) : f[j] \in ItemRows
    BY <1>2, <1>3, <2>1
  <2> HIDE DEF f
  <2>3. Len(list) \in Nat
    BY <2>1
  <2>4. f \in Seq(ItemRows)
    BY <2>2, <2>3
  <2> QED
    BY <2>4 DEF f
<1> QED
  BY <1>2, <1>3, <1>4 DEF ItemsFit

LEMMA ItemsStatus ==
  ASSUME NEW ds, NEW list, ItemsFit(list, ds), NEW i \in DOMAIN list, NEW status \in Talk
  PROVE  ItemsFit([list EXCEPT ![i].status = status], ds)
<1>1. list \in Seq(ItemRows) /\ list[i] \in ItemRows
  BY DEF ItemsFit
<1> DEFINE row == [list[i] EXCEPT !.status = status]
<1>2. row \in ItemRows /\ row.draft = list[i].draft
  BY <1>1 DEF ItemRows
<1>3. [list EXCEPT ![i].status = status] = [list EXCEPT ![i] = row]
  BY <1>1 DEF ItemRows
<1> HIDE DEF row, ItemRows
<1> QED
  BY <1>1, <1>2, <1>3 DEF ItemsFit

LEMMA ItemFields ==
  ASSUME NEW ds, NEW list, ItemsFit(list, ds), NEW i \in DOMAIN list
  PROVE  list[i].section \in Sections /\ list[i].value \in Answers /\ list[i].draft \in DOMAIN ds
<1>1. list[i] \in ItemRows /\ list[i].draft \in DOMAIN ds
  BY DEF ItemsFit
<1> QED
  BY <1>1 DEF ItemRows

LEMMA FitsOn ==
  ASSUME NEW list, NEW ds, NEW new, ItemsFit(list, ds), DOMAIN ds \subseteq DOMAIN new
  PROVE  ItemsFit(list, new)
BY DEF ItemsFit

-----------------------------------------------------------------------------
(* Each action but ApproveVersion is such a step                           *)

LEMMA Unmoved ==
  ASSUME StudioInv
  PROVE  /\ drafts' = drafts => KeepsDrafts(drafts')
         /\ versions' = versions => VersionsKept
         /\ validated' = validated => ValidatedGrows
         /\ ItemsFit(changes, drafts) /\ ItemsFit(suggestions, drafts)
         /\ UNCHANGED <<questions, activeQuestion>> => QuestionsOfActive
<1>1. StudioRows /\ StudioReferences
  BY DEF StudioInv
<1>2. drafts' = drafts => KeepsDrafts(drafts')
  BY <1>1 DEF StudioRows, KeepsDrafts
<1> HIDE DEF DraftRows, VersionRows, QuestionRows, ItemRows, Contents
<1>3. UNCHANGED <<questions, activeQuestion>> => QuestionsOfActive
  BY <1>1 DEF StudioRows, StudioReferences, QuestionsOfActive, OpenOn
<1>4. /\ versions' = versions => VersionsKept
      /\ validated' = validated => ValidatedGrows
      /\ ItemsFit(changes, drafts) /\ ItemsFit(suggestions, drafts)
  BY <1>1 DEF StudioRows, StudioReferences, VersionsKept, ValidatedGrows, ItemsFit
<1> QED
  BY <1>2, <1>3, <1>4

LEMMA Draftings ==
  ASSUME StudioInv,
         KeepsDrafts(drafts'), UNCHANGED <<versions, validated, questions, activeQuestion>>,
         ItemsFit(changes', drafts'), ItemsFit(suggestions', drafts')
  PROVE  Talked
BY Unmoved DEF Talked

LEMMA CreateDraftTalks == ASSUME StudioInv, CreateDraft PROVE Talked
<1> DEFINE row == Draft([s \in Sections |-> None], 0)
<1>1. row \in DraftRows /\ row.predecessor = 0
  BY StudioAssumption DEF Draft, DraftRows, Contents
<1>2. drafts \in Seq(DraftRows) /\ drafts' = Append(drafts, row)
  BY DEF CreateDraft, StudioInv, StudioRows
<1> HIDE DEF row, DraftRows
<1>3. /\ drafts' \in Seq(DraftRows) /\ DOMAIN drafts' = 1 .. Len(drafts) + 1
      /\ DOMAIN drafts = 1 .. Len(drafts) /\ drafts'[Len(drafts) + 1] = row
      /\ \A d \in DOMAIN drafts : drafts'[d] = drafts[d]
  BY <1>1, <1>2
<1>4. KeepsDrafts(drafts')
  BY <1>1, <1>2, <1>3 DEF KeepsDrafts
<1>5. ItemsFit(changes', drafts') /\ ItemsFit(suggestions', drafts')
  <2>1. UNCHANGED <<changes, suggestions>>
    BY DEF CreateDraft
  <2>2. DOMAIN drafts \subseteq DOMAIN drafts'
    BY <1>2, <1>3
  <2> QED
    BY <2>1, <2>2, Unmoved, FitsOn
<1> QED
  BY <1>4, <1>5, Draftings DEF CreateDraft

\* The drafts an edit of d ends in, and the items over them.
LEMMA AimFits ==
  ASSUME StudioInv, NEW d \in DOMAIN drafts, NEW aim \in Aims(d)
  PROVE  /\ KeepsDrafts(aim.drafts) /\ aim.target \in DOMAIN aim.drafts /\ aim.target \in Nat
         /\ ItemsFit(changes, aim.drafts) /\ ItemsFit(suggestions, aim.drafts)
         /\ \A s \in Sections, x \in Answers : Fresh(aim) =>
              /\ KeepsDrafts(Write(aim, s, x))
              /\ DOMAIN Write(aim, s, x) = DOMAIN aim.drafts
<1>1. /\ KeepsDrafts(aim.drafts) /\ aim.target \in DOMAIN aim.drafts
      /\ aim = [target |-> aim.target, drafts |-> aim.drafts]
  BY AimKeeps
<1>2. aim.drafts \in Seq(DraftRows) /\ DOMAIN drafts \subseteq DOMAIN aim.drafts
  BY <1>1 DEF KeepsDrafts
<1>3. ItemsFit(changes, aim.drafts) /\ ItemsFit(suggestions, aim.drafts)
  BY <1>2, Unmoved, FitsOn
<1>4. aim.target \in Nat
  BY <1>1, <1>2
<1>5. ASSUME NEW s \in Sections, NEW x \in Answers, Fresh(aim)
      PROVE  KeepsDrafts(Write(aim, s, x)) /\ DOMAIN Write(aim, s, x) = DOMAIN aim.drafts
  <2>1. KeepsDrafts(Write(aim, s, x))
    BY <1>1, <1>5, WriteKeeps
  <2>2. DOMAIN Write(aim, s, x) = DOMAIN aim.drafts
    BY DEF Write
  <2> QED
    BY <2>1, <2>2
<1> QED
  BY <1>1, <1>3, <1>4, <1>5

LEMMA ProposeChangeTalks ==
  ASSUME StudioInv, NEW d \in DOMAIN drafts, NEW s \in Sections, NEW x \in Answers,
         ProposeChange(d, s, x)
  PROVE  Talked
<1>1. PICK aim \in Aims(d) :
        /\ drafts' = aim.drafts
        /\ changes' = Append(changes, Item(aim.target, s, x)) \/ UNCHANGED changes
  BY DEF ProposeChange
<1>2. ItemsFit(changes', drafts')
  BY <1>1, AimFits, ItemAppended
<1> QED
  BY <1>1, <1>2, AimFits, Draftings DEF ProposeChange

LEMMA AcceptChangeTalks ==
  ASSUME StudioInv, NEW d \in DOMAIN drafts, NEW c \in DOMAIN changes, AcceptChange(d, c)
  PROVE  Talked
<1>1. PICK aim \in Aims(d) :
        \/ /\ Fresh(aim) /\ drafts' = Write(aim, changes[c].section, changes[c].value)
           /\ changes' = Accepted(changes, c)
        \/ drafts' = aim.drafts /\ UNCHANGED changes
  BY DEF AcceptChange
<1>2. changes[c].section \in Sections /\ changes[c].value \in Answers
  BY Unmoved, ItemFields
<1>3. KeepsDrafts(drafts') /\ DOMAIN drafts' = DOMAIN aim.drafts
  BY <1>1, <1>2, AimFits
<1>4. ItemsFit(changes', aim.drafts) /\ ItemsFit(suggestions', aim.drafts)
  BY <1>1, AimFits, ItemsAccepted DEF AcceptChange
<1>5. ItemsFit(changes', drafts') /\ ItemsFit(suggestions', drafts')
  BY <1>3, <1>4, FitsOn
<1> QED
  BY <1>3, <1>5, Draftings DEF AcceptChange

LEMMA DirectEditTalks ==
  ASSUME StudioInv, NEW d \in DOMAIN drafts, NEW s \in Sections, NEW x \in Answers,
         DirectEdit(d, s, x)
  PROVE  Talked
<1>1. PICK aim \in Aims(d) :
        (Fresh(aim) /\ drafts' = Write(aim, s, x)) \/ drafts' = aim.drafts
  BY DEF DirectEdit
<1>2. KeepsDrafts(drafts') /\ DOMAIN drafts' = DOMAIN aim.drafts
  BY <1>1, AimFits
<1>3. ItemsFit(changes', drafts') /\ ItemsFit(suggestions', drafts')
  BY <1>2, AimFits, FitsOn DEF DirectEdit
<1> QED
  BY <1>2, <1>3, Draftings DEF DirectEdit

LEMMA AcceptSuggestionTalks ==
  ASSUME StudioInv, NEW g \in DOMAIN suggestions, AcceptSuggestion(g)
  PROVE  Talked
<1>1. /\ suggestions[g].draft \in DOMAIN drafts
      /\ suggestions[g].section \in Sections /\ suggestions[g].value \in Answers
  BY Unmoved, ItemFields
<1> DEFINE s == suggestions[g].section  x == suggestions[g].value
<1>2. PICK aim \in Aims(suggestions[g].draft) :
        LET proposed == Append(changes, Item(aim.target, s, x))
        IN \/ /\ Fresh(aim) /\ drafts' = Write(aim, s, x)
              /\ changes' = Accepted(proposed, Len(proposed)) /\ suggestions' = Accepted(suggestions, g)
           \/ drafts' = aim.drafts /\ changes' = proposed /\ UNCHANGED suggestions
  BY DEF AcceptSuggestion
<1> DEFINE proposed == Append(changes, Item(aim.target, s, x))
<1>3. KeepsDrafts(drafts') /\ DOMAIN drafts' = DOMAIN aim.drafts
  BY <1>1, <1>2, AimFits
<1>4. ItemsFit(proposed, aim.drafts)
  BY <1>1, AimFits, ItemAppended
<1>5. Len(proposed) \in DOMAIN proposed
  BY DEF StudioInv, StudioRows
<1>6. ItemsFit(Accepted(proposed, Len(proposed)), aim.drafts)
  BY <1>4, <1>5, ItemsAccepted
<1>7. ItemsFit(suggestions', aim.drafts)
  <2>1. ItemsFit(suggestions, aim.drafts)
    BY <1>1, AimFits
  <2>2. suggestions' = suggestions \/ suggestions' = Accepted(suggestions, g)
    BY <1>2
  <2> QED
    BY <2>1, <2>2, ItemsAccepted
<1>8. ItemsFit(changes', drafts') /\ ItemsFit(suggestions', drafts')
  <2>1. changes' = proposed \/ changes' = Accepted(proposed, Len(proposed))
    BY <1>2
  <2> HIDE DEF proposed
  <2>2. ItemsFit(changes', aim.drafts)
    BY <2>1, <1>4, <1>6
  <2> QED
    BY <2>2, <1>3, <1>7, FitsOn
<1> QED
  BY <1>3, <1>8, Draftings DEF AcceptSuggestion

LEMMA ItemsTalk ==
  ASSUME StudioInv,
         \/ \E c \in DOMAIN changes : RejectChange(c)
         \/ \E g \in DOMAIN suggestions : RejectSuggestion(g)
         \/ \E d \in DOMAIN drafts, s \in Sections, x \in Answers : ProposeSuggestion(d, s, x)
  PROVE  Talked
<1>1. {"rejected"} \subseteq Talk /\ DOMAIN drafts \subseteq Nat
  BY DEF Talk, StudioInv, StudioRows
<1>2. CASE \E c \in DOMAIN changes : RejectChange(c)
  <2>1. PICK c \in DOMAIN changes : RejectChange(c)
    BY <1>2
  <2>2. ItemsFit(changes', drafts)
    BY <1>1, <2>1, Unmoved, ItemsStatus DEF RejectChange
  <2> QED
    BY <2>1, <2>2, Unmoved, Draftings DEF RejectChange
<1>3. CASE \E g \in DOMAIN suggestions : RejectSuggestion(g)
  <2>1. PICK g \in DOMAIN suggestions : RejectSuggestion(g)
    BY <1>3
  <2>2. ItemsFit(suggestions', drafts)
    BY <1>1, <2>1, Unmoved, ItemsStatus DEF RejectSuggestion
  <2> QED
    BY <2>1, <2>2, Unmoved, Draftings DEF RejectSuggestion
<1>4. CASE \E d \in DOMAIN drafts, s \in Sections, x \in Answers : ProposeSuggestion(d, s, x)
  BY <1>1, <1>4, Unmoved, ItemAppended, Draftings DEF ProposeSuggestion
<1> QED
  BY <1>2, <1>3, <1>4

LEMMA RaiseQuestionTalks ==
  ASSUME StudioInv, NEW d \in DOMAIN drafts, NEW s \in Sections, RaiseQuestion(d, s)
  PROVE  Talked
<1> DEFINE row == [draft |-> d, section |-> s, open |-> TRUE]
<1>1. /\ questions \in Seq(QuestionRows) /\ drafts \in Seq(DraftRows)
      /\ \A q \in DOMAIN questions : questions[q].draft \in DOMAIN drafts
  BY DEF StudioInv, StudioRows, StudioReferences
<1>2. row \in QuestionRows /\ row.draft = d
  BY <1>1 DEF QuestionRows
<1>3. questions' = Append(questions, row) /\ activeQuestion' = Len(questions) + 1 /\ drafts[d].active
  BY DEF RaiseQuestion
<1> HIDE DEF row, QuestionRows
<1>4. /\ questions' \in Seq(QuestionRows) /\ DOMAIN questions' = 1 .. Len(questions) + 1
      /\ questions'[Len(questions) + 1] = row
      /\ \A q \in DOMAIN questions : questions'[q] = questions[q]
      /\ DOMAIN questions = 1 .. Len(questions) /\ Len(questions) \in Nat
  BY <1>1, <1>2, <1>3
<1>5. QuestionsOfActive
  BY <1>1, <1>2, <1>3, <1>4 DEF QuestionsOfActive, OpenOn
<1> QED
  BY <1>5, Unmoved DEF Talked, RaiseQuestion

LEMMA ResolveQuestionTalks ==
  ASSUME StudioInv, NEW q \in DOMAIN questions, NEW x \in Answers, ResolveQuestion(q, x)
  PROVE  Talked
<1> DEFINE row == [questions[q] EXCEPT !.open = FALSE]
<1>1. /\ questions \in Seq(QuestionRows) /\ drafts \in Seq(DraftRows)
      /\ \A p \in DOMAIN questions : questions[p].draft \in DOMAIN drafts
      /\ activeQuestion \in {0} \cup DOMAIN questions
  BY DEF StudioInv, StudioRows, StudioReferences
<1>2. questions[q] \in QuestionRows
  BY <1>1
<1>3. row \in QuestionRows /\ row.draft = questions[q].draft /\ ~row.open
  BY <1>2 DEF QuestionRows
<1>4. questions' = [questions EXCEPT ![q] = row]
      /\ activeQuestion' = IF activeQuestion = q THEN 0 ELSE activeQuestion
  BY <1>1 DEF ResolveQuestion, QuestionRows
<1>5. questions[q].section \in Sections /\ questions[q].draft \in Nat
  BY <1>2 DEF QuestionRows
<1> HIDE DEF row, QuestionRows
<1>6. QuestionsOfActive
  BY <1>1, <1>3, <1>4 DEF QuestionsOfActive, OpenOn
<1>7. ItemsFit(changes', drafts')
  BY <1>1, <1>5, Unmoved, ItemAppended DEF ResolveQuestion
<1> QED
  BY <1>6, <1>7, Unmoved DEF Talked, ResolveQuestion

LEMMA ValidateTalks ==
  ASSUME StudioInv, NEW d \in DOMAIN drafts, ValidateDraft(d) \/ CreateVersion(d)
  PROVE  Talked
<1>1. /\ drafts[d] \in DraftRows /\ d \in Nat /\ validated \subseteq Nat \X Contents
      /\ \A r \in validated : r[1] \in DOMAIN drafts
      /\ versions \in Seq(VersionRows)
  BY DEF StudioInv, StudioRows, StudioReferences
<1>2. drafts[d].snapshot \in Contents
  BY <1>1 DEF DraftRows
<1>3. ValidatedGrows
  BY <1>1, <1>2 DEF ValidatedGrows, ValidateDraft, CreateVersion
<1>4. VersionsKept
  <2>1. CASE ValidateDraft(d)
    BY <2>1, Unmoved DEF ValidateDraft
  <2>2. CASE CreateVersion(d)
    <3> DEFINE row == [draft |-> d, snapshot |-> drafts[d].snapshot, status |-> "unapproved"]
    <3>1. row \in VersionRows /\ row.draft = d /\ row.status # "approved"
      BY <1>1, <1>2 DEF VersionRows
    <3>2. versions' = Append(versions, row)
      BY <2>2 DEF CreateVersion
    <3> HIDE DEF row, VersionRows
    <3>3. /\ versions' \in Seq(VersionRows) /\ DOMAIN versions' = 1 .. Len(versions) + 1
          /\ DOMAIN versions = 1 .. Len(versions) /\ Len(versions) \in Nat
          /\ versions'[Len(versions) + 1] = row
          /\ \A v \in DOMAIN versions : versions'[v] = versions[v]
      BY <3>1, <3>2, <1>1
    <3> QED
      BY <3>1, <3>3 DEF VersionsKept
  <2> QED
    BY <2>1, <2>2
<1> QED
  BY <1>3, <1>4, Unmoved DEF Talked, ValidateDraft, CreateVersion

-----------------------------------------------------------------------------
(* Approval                                                                *)

LEMMA ApproveVersionKeeps ==
  ASSUME StudioInv, NEW v \in DOMAIN versions, ApproveVersion(v)
  PROVE  StudioInv'
<1> DEFINE d == versions[v].draft
<1>1. StudioRows /\ StudioReferences /\ OneSuccessor /\ ApprovedSettled
  BY DEF StudioInv
<1>2. /\ drafts \in Seq(DraftRows) /\ versions \in Seq(VersionRows) /\ d \in DOMAIN drafts
      /\ UNCHANGED <<validated, changes, suggestions, questions, activeQuestion>>
  BY <1>1 DEF StudioRows, StudioReferences, ApproveVersion
<1>3. /\ drafts' \in Seq(DraftRows) /\ DOMAIN drafts' = DOMAIN drafts /\ ~drafts'[d].active
      /\ \A e \in DOMAIN drafts : drafts'[e].predecessor = drafts[e].predecessor
                                /\ (drafts'[e].active => drafts[e].active)
  <2> DEFINE row == [drafts[d] EXCEPT !.active = FALSE]
  <2>1. drafts[d] \in DraftRows
    BY <1>2
  <2>2. row \in DraftRows /\ row.predecessor = drafts[d].predecessor /\ ~row.active
    BY <2>1 DEF DraftRows
  <2>3. drafts' = [drafts EXCEPT ![d] = row]
    BY DEF ApproveVersion
  <2> HIDE DEF row, DraftRows
  <2> QED
    BY <1>2, <2>2, <2>3
<1>4. /\ versions' \in Seq(VersionRows) /\ DOMAIN versions' = DOMAIN versions
      /\ \A w \in DOMAIN versions :
           /\ versions'[w].draft = versions[w].draft /\ versions'[w].snapshot = versions[w].snapshot
           /\ versions'[w].status = "approved" => w = v
  <2>1. \A w \in DOMAIN versions : versions[w] \in VersionRows
    BY <1>2
  <2>2. versions' = [w \in DOMAIN versions |->
                      IF w = v THEN [versions[w] EXCEPT !.status = "approved"]
                      ELSE IF w \in Superseding(v) THEN [versions[w] EXCEPT !.status = "superseded"]
                      ELSE versions[w]]
    BY DEF ApproveVersion
  <2>3. \A w \in DOMAIN versions :
          /\ versions'[w] \in VersionRows
          /\ versions'[w].draft = versions[w].draft /\ versions'[w].snapshot = versions[w].snapshot
          /\ versions'[w].status = "approved" => w = v
    BY <2>1, <2>2 DEF VersionRows, Superseding
  <2>4. DOMAIN versions' = 1 .. Len(versions) /\ Len(versions) \in Nat
        /\ versions' = [w \in 1 .. Len(versions) |-> versions'[w]]
    BY <1>2, <2>2
  <2> HIDE DEF VersionRows
  <2>5. versions' \in Seq(VersionRows)
    BY <2>3, <2>4, <1>2
  <2> QED
    BY <2>3, <2>5, <2>2
<1>5. OpenOn(d) = {} /\ <<d, versions[v].snapshot>> \in validated
  BY DEF ApproveVersion, Approvable
<1> HIDE DEF DraftRows, VersionRows, QuestionRows, ItemRows, Contents
<1>6. StudioRows'
  BY <1>1, <1>2, <1>3, <1>4 DEF StudioRows
<1>7. StudioReferences'
  BY <1>1, <1>2, <1>3, <1>4 DEF StudioReferences
<1>8. OneSuccessor'
  BY <1>1, <1>3 DEF OneSuccessor
<1>9. ApprovedSettled'
  <2>1. \A w \in DOMAIN versions' : versions'[w].status = "approved" => w = v
    BY <1>4
  <2>2. versions'[v].draft = d /\ versions'[v].snapshot = versions[v].snapshot
    BY <1>4
  <2>3. OpenOn(versions[v].draft)' = {}
    BY <2>2, <1>2, <1>5 DEF OpenOn
  <2>4. ASSUME NEW w \in DOMAIN versions', versions'[w].status = "approved"
        PROVE  /\ ~drafts'[versions'[w].draft].active /\ OpenOn(versions[w].draft)' = {}
               /\ <<versions'[w].draft, versions'[w].snapshot>> \in validated'
    <3>1. w = v
      BY <2>1, <2>4
    <3>2. versions'[w].draft = d /\ versions'[w].snapshot = versions[v].snapshot
      BY <3>1, <2>2
    <3> QED
      BY <3>1, <3>2, <2>3, <1>2, <1>3, <1>5
  <2> QED
    BY <2>1, <2>4 DEF ApprovedSettled
<1> QED
  BY <1>6, <1>7, <1>8, <1>9 DEF StudioInv

LEMMA InitStudioInv == StudioInit => StudioInv
<1> SUFFICES ASSUME StudioInit PROVE StudioInv
  OBVIOUS
<1>1. drafts = << >> /\ versions = << >> /\ validated = {} /\ changes = << >>
      /\ suggestions = << >> /\ questions = << >> /\ activeQuestion = 0
  BY DEF StudioInit
<1> QED
  BY <1>1 DEF StudioInv, StudioRows, StudioReferences, OneSuccessor, ApprovedSettled

LEMMA StudioStep == StudioInv /\ [StudioNext]_studioVars => StudioInv'
<1> SUFFICES ASSUME StudioInv, [StudioNext]_studioVars PROVE StudioInv'
  OBVIOUS
<1>1. CASE Talked
  BY <1>1, TalkedKeeps
<1>2. CASE UNCHANGED studioVars
  <2>1. ItemsFit(changes', drafts') /\ ItemsFit(suggestions', drafts') /\ KeepsDrafts(drafts')
    BY <1>2, Unmoved DEF studioVars
  <2> QED
    BY <1>2, <2>1, Draftings, TalkedKeeps DEF studioVars
<1>3. ASSUME NEW d \in DOMAIN drafts,
             \/ ValidateDraft(d) \/ CreateVersion(d)
             \/ \E c \in DOMAIN changes : AcceptChange(d, c)
             \/ \E s \in Sections :
                  \/ RaiseQuestion(d, s)
                  \/ \E x \in Answers :
                       ProposeChange(d, s, x) \/ DirectEdit(d, s, x) \/ ProposeSuggestion(d, s, x)
      PROVE  Talked
  BY <1>3, ValidateTalks, AcceptChangeTalks, RaiseQuestionTalks, ProposeChangeTalks,
     DirectEditTalks, ItemsTalk
<1>4. CASE \E v \in DOMAIN versions : ApproveVersion(v)
  BY <1>4, ApproveVersionKeeps
<1>5. CASE \/ CreateDraft
           \/ \E c \in DOMAIN changes : RejectChange(c)
           \/ \E g \in DOMAIN suggestions : AcceptSuggestion(g) \/ RejectSuggestion(g)
           \/ \E q \in DOMAIN questions, x \in Answers : ResolveQuestion(q, x)
  <2>1. Talked
    BY <1>5, CreateDraftTalks, ItemsTalk, AcceptSuggestionTalks, ResolveQuestionTalks
  <2> QED
    BY <2>1, <1>1
<1> QED
  BY <1>1, <1>2, <1>3, <1>4, <1>5 DEF StudioNext

\* The studio's rows are typed.
LEMMA StudioTyped == StudioInv => StudioTypeOK
<1> SUFFICES ASSUME StudioInv PROVE StudioTypeOK
  OBVIOUS
<1>1. /\ \A d \in DOMAIN drafts :
           drafts[d] \in DraftRows /\ drafts[d].predecessor \in {0} \cup DOMAIN versions
      /\ \A v \in DOMAIN versions :
           versions[v] \in VersionRows /\ versions[v].draft \in DOMAIN drafts
      /\ \A c \in DOMAIN changes :
           changes[c] \in ItemRows /\ changes[c].draft \in DOMAIN drafts
      /\ \A g \in DOMAIN suggestions :
           suggestions[g] \in ItemRows /\ suggestions[g].draft \in DOMAIN drafts
      /\ \A q \in DOMAIN questions :
           questions[q] \in QuestionRows /\ questions[q].draft \in DOMAIN drafts
  <2> HIDE DEF DraftRows, VersionRows, QuestionRows, ItemRows
  <2> QED
    BY DEF StudioInv, StudioRows, StudioReferences
<1>2. \A d \in DOMAIN drafts :
        drafts[d] \in [revision : 1..MaxRevision, snapshot : Contents, active : BOOLEAN,
                       predecessor : {0} \cup DOMAIN versions]
  BY <1>1 DEF DraftRows
<1>3. \A v \in DOMAIN versions :
        versions[v] \in [draft : DOMAIN drafts, snapshot : Contents,
                         status : {"unapproved", "approved", "superseded"}]
  BY <1>1 DEF VersionRows
<1>4. /\ \A c \in DOMAIN changes : changes[c] \in
           [draft : DOMAIN drafts, section : Sections, value : Answers, status : Talk]
      /\ \A g \in DOMAIN suggestions : suggestions[g] \in
           [draft : DOMAIN drafts, section : Sections, value : Answers, status : Talk]
  BY <1>1 DEF ItemRows
<1>5. \A q \in DOMAIN questions :
        questions[q] \in [draft : DOMAIN drafts, section : Sections, open : BOOLEAN]
  BY <1>1 DEF QuestionRows
<1>6. validated \subseteq (DOMAIN drafts) \X Contents
  BY DEF StudioInv, StudioRows, StudioReferences
<1>7. activeQuestion \in {0} \cup DOMAIN questions
  BY DEF StudioInv, StudioReferences
<1> QED
  BY <1>1, <1>2, <1>3, <1>4, <1>5, <1>6, <1>7 DEF StudioTypeOK, Contents, Talk

\* Every variable of the studio keeps its type, and what refers to a draft, a version or a
\* question refers to one that is there.
THEOREM StudioTypes == StudioSpec => []StudioTypeOK
  BY StudioTyped, InitStudioInv, StudioStep, PTL DEF StudioSpec

\* At most one version of a scope is approved, its draft is retired, answered and validated
\* with that very snapshot, and edits after it have one successor draft: because a version
\* has a successor only if approved, and the approval of one retires those before it.
THEOREM BlueprintApproved == StudioSpec => []OneApprovedBlueprint
<1>1. StudioInv => OneApprovedBlueprint
  <2> SUFFICES ASSUME StudioInv, NEW v \in DOMAIN versions
               PROVE  /\ \A d, e \in DOMAIN drafts :
                           drafts[d].active /\ drafts[e].active /\ drafts[d].predecessor = v
                             /\ drafts[e].predecessor = v => d = e
                      /\ versions[v].status = "approved" =>
                           /\ \A w \in DOMAIN versions : versions[w].status = "approved" => w = v
                           /\ ~drafts[versions[v].draft].active /\ OpenOn(versions[v].draft) = {}
                           /\ <<versions[v].draft, versions[v].snapshot>> \in validated
    BY DEF OneApprovedBlueprint
  <2>1. v # 0
    BY DEF StudioInv, StudioRows
  <2> QED
    BY <2>1 DEF StudioInv, OneSuccessor, ApprovedSettled
<1> QED
  BY <1>1, InitStudioInv, StudioStep, PTL DEF StudioSpec

-----------------------------------------------------------------------------
(* The creative registry.                                                  *)

VersionFlags == [approved : BOOLEAN, active : BOOLEAN]
Assignments == [agent : Agents, active : BOOLEAN, revision : 1..MaxEdits]
Profiles == [snapshot : Snapshots, active : BOOLEAN, revision : 1..MaxWrites,
             status : {"submitted", "draft_profile_ready", "awaiting_owner_review", "approved"}]

Charters == [status : {"draft", "approved", "active", "inactive"}, text : 1..MaxEdits]

CharterRows ==
  /\ charter \in Charters
  /\ charterVersions \in Seq(VersionFlags)
  /\ charterApprovals \subseteq (DOMAIN charterVersions) \X Agents \X (1..MaxEdits)
  /\ assignments \in Seq(Assignments)

CharterShown ==
  /\ \A v \in DOMAIN charterVersions : charterVersions[v].active =>
       /\ \E a \in Agents : ApprovedFor(v, a)
       /\ \A w \in DOMAIN charterVersions : charterVersions[w].active => v = w
  /\ \A i \in DOMAIN assignments :
       \E v \in DOMAIN charterVersions : ApprovedFor(v, assignments[i].agent)
  /\ charter.status = "approved" => \E r \in charterApprovals : r[3] = charter.text

ReferenceRows ==
  /\ reference \in [active : BOOLEAN, revision : 1..MaxWrites]
  /\ profiles \in Seq(Profiles)
  /\ profileApprovals \subseteq (DOMAIN profiles) \X Snapshots

\* An approval is of a profile that was frozen by it.
ProfilesShown ==
  /\ \A r \in profileApprovals : profiles[r[1]].status = "approved"
  /\ \A p \in DOMAIN profiles :
       /\ profiles[p].active => profiles[p].status = "approved"
       /\ profiles[p].status = "approved" => <<p, profiles[p].snapshot>> \in profileApprovals
       /\ profiles[p].active => \A q \in DOMAIN profiles : profiles[q].active => p = q

CharterInv == CharterRows /\ CharterShown
ReferenceInv == ReferenceRows /\ ProfilesShown

LEMMA CharterStep == CharterInv /\ CharterNext => CharterInv'
<1> SUFFICES ASSUME CharterInv, CharterNext PROVE CharterInv'
  OBVIOUS
<1>1. CharterRows /\ CharterShown
  BY DEF CharterInv
<1>2. CASE EditCharter \/ (\E a \in Agents : AssignCharter(a))
           \/ \E i \in DOMAIN assignments, b \in BOOLEAN : UpdateAssignment(i, b)
  <2>1. UNCHANGED <<charterVersions, charterApprovals>>
    BY <1>2 DEF EditCharter, AssignCharter, UpdateAssignment
  <2>2. charter' \in Charters
    <3>1. charter \in Charters
      BY <1>1 DEF CharterRows
    <3>2. CASE EditCharter
      BY <3>1, <3>2, RegistryAssumption DEF Charters, EditCharter
    <3>3. CASE charter' = charter
      BY <3>1, <3>3
    <3> QED
      BY <1>2, <3>2, <3>3 DEF AssignCharter, UpdateAssignment
  <2>3. assignments' \in Seq(Assignments)
    <3>1. CASE \E i \in DOMAIN assignments, b \in BOOLEAN : UpdateAssignment(i, b)
      <4>1. PICK i \in DOMAIN assignments, b \in BOOLEAN : UpdateAssignment(i, b)
        BY <3>1
      <4> DEFINE row == [[assignments[i] EXCEPT !.active = b] EXCEPT
                          !.revision = assignments[i].revision + 1]
      <4>2. assignments \in Seq(Assignments) /\ assignments[i] \in Assignments
        BY <1>1, <4>1 DEF CharterRows
      <4>3. row \in Assignments
        BY <4>1, <4>2, RegistryAssumption DEF Assignments, UpdateAssignment
      <4>5. assignments' = [assignments EXCEPT ![i] = row]
        BY <4>1, <4>2 DEF UpdateAssignment, Assignments
      <4> HIDE DEF row, Assignments
      <4> QED
        BY <4>1, <4>2, <4>3, <4>5
    <3>2. CASE EditCharter
      BY <1>1, <3>2 DEF CharterRows, EditCharter
    <3>3. CASE \E a \in Agents : AssignCharter(a)
      <4>1. PICK a \in Agents : AssignCharter(a)
        BY <3>3
      <4> DEFINE row == [agent |-> a, active |-> TRUE, revision |-> 1]
      <4>2. row \in Assignments
        BY RegistryAssumption DEF Assignments
      <4>3. assignments' = Append(assignments, row) /\ assignments \in Seq(Assignments)
        BY <1>1, <4>1 DEF CharterRows, AssignCharter
      <4> HIDE DEF row, Assignments
      <4> QED
        BY <4>2, <4>3
    <3> QED
      BY <1>2, <3>1, <3>2, <3>3
  <2>4. \A v, a : ApprovedFor(v, a)' <=> ApprovedFor(v, a)
    BY <2>1 DEF ApprovedFor
  <2>5. \A i \in DOMAIN assignments' :
          \E v \in DOMAIN charterVersions : ApprovedFor(v, assignments'[i].agent)
    <3>1. CASE EditCharter
      BY <1>1, <3>1 DEF CharterShown, EditCharter
    <3>2. CASE \E a \in Agents : AssignCharter(a)
      <4>1. PICK a \in Agents : AssignCharter(a)
        BY <3>2
      <4> DEFINE row == [agent |-> a, active |-> TRUE, revision |-> 1]
      <4>2. row.agent = a /\ \E v \in DOMAIN charterVersions : ApprovedFor(v, a)
        BY <4>1 DEF AssignCharter
      <4>3. assignments' = Append(assignments, row) /\ assignments \in Seq(Assignments)
        BY <1>1, <4>1 DEF CharterRows, AssignCharter
      <4> HIDE DEF row, Assignments
      <4>4. \A i \in DOMAIN assignments' :
              (i \in DOMAIN assignments /\ assignments'[i] = assignments[i]) \/ assignments'[i] = row
        BY <4>3
      <4> QED
        BY <1>1, <4>2, <4>4 DEF CharterShown
    <3>3. CASE \E i \in DOMAIN assignments, b \in BOOLEAN : UpdateAssignment(i, b)
      <4>1. PICK i \in DOMAIN assignments, b \in BOOLEAN : UpdateAssignment(i, b)
        BY <3>3
      <4>2. assignments' = [assignments EXCEPT ![i].active = b, ![i].revision = @ + 1]
        BY <4>1 DEF UpdateAssignment
      <4>3. \A j \in DOMAIN assignments : assignments[j] \in Assignments
        BY <1>1 DEF CharterRows
      <4>4. DOMAIN assignments' = DOMAIN assignments
            /\ \A j \in DOMAIN assignments : assignments'[j].agent = assignments[j].agent
        BY <4>2, <4>3 DEF Assignments
      <4> QED
        BY <1>1, <4>4 DEF CharterShown
    <3> QED
      BY <1>2, <3>1, <3>2, <3>3
  <2>6. charter'.status = "approved" => \E r \in charterApprovals : r[3] = charter'.text
    <3>1. CASE EditCharter
      <4>1. charter' = [charter EXCEPT !.text = charter.text + 1] /\ charter.status # "approved"
            /\ charter \in Charters
        BY <1>1, <3>1 DEF EditCharter, Draftable, CharterRows
      <4> QED
        BY <4>1 DEF Charters
    <3>2. CASE charter' = charter
      BY <1>1, <3>2 DEF CharterShown
    <3> QED
      BY <1>2, <3>1, <3>2 DEF AssignCharter, UpdateAssignment
  <2>7. CharterRows'
    BY <1>1, <2>1, <2>2, <2>3 DEF CharterRows
  <2>8. CharterShown'
    BY <1>1, <2>1, <2>4, <2>5, <2>6 DEF CharterShown
  <2> QED
    BY <2>7, <2>8 DEF CharterInv
<1>3. CASE NewVersion
  <2> DEFINE row == [approved |-> FALSE, active |-> FALSE]
  <2>1. row \in VersionFlags /\ ~row.active
    BY DEF VersionFlags
  <2>2. charterVersions' = Append(charterVersions, row) /\ UNCHANGED <<charter, charterApprovals, assignments>>
    BY <1>3 DEF NewVersion
  <2> HIDE DEF row, VersionFlags
  <2>3. /\ charterVersions' \in Seq(VersionFlags) /\ DOMAIN charterVersions' = 1 .. Len(charterVersions) + 1
        /\ DOMAIN charterVersions = 1 .. Len(charterVersions)
        /\ \A v \in DOMAIN charterVersions : charterVersions'[v] = charterVersions[v]
        /\ charterVersions'[Len(charterVersions) + 1] = row /\ Len(charterVersions) \in Nat
    BY <1>1, <2>1, <2>2 DEF CharterRows
  <2>4. \A v \in DOMAIN charterVersions' : charterVersions'[v].active =>
          v \in DOMAIN charterVersions /\ charterVersions'[v] = charterVersions[v]
    BY <2>1, <2>3
  <2> QED
    <3> HIDE DEF Charters, Assignments
    <3>1. charterApprovals \subseteq (DOMAIN charterVersions') \X Agents \X (1..MaxEdits)
      BY <1>1, <2>3 DEF CharterRows
    <3>2. CharterRows'
      BY <1>1, <2>2, <2>3, <3>1 DEF CharterRows
    <3>3. \A v, a : ApprovedFor(v, a)' <=> ApprovedFor(v, a)
      BY <2>2 DEF ApprovedFor
    <3>4. DOMAIN charterVersions \subseteq DOMAIN charterVersions'
      BY <2>3
    <3>5. CharterShown'
      BY <1>1, <2>2, <2>4, <3>3, <3>4 DEF CharterShown
    <3> QED
      BY <3>2, <3>5 DEF CharterInv
<1>4. CASE \E v \in DOMAIN charterVersions, a \in Agents : ApproveCharter(v, a)
  <2>1. PICK v \in DOMAIN charterVersions, a \in Agents : ApproveCharter(v, a)
    BY <1>4
  <2>2. /\ charterVersions' \in Seq(VersionFlags) /\ DOMAIN charterVersions' = DOMAIN charterVersions
        /\ \A w \in DOMAIN charterVersions : charterVersions'[w].active = charterVersions[w].active
    <3> DEFINE row == [charterVersions[v] EXCEPT !.approved = TRUE]
    <3>1. charterVersions \in Seq(VersionFlags) /\ charterVersions[v] \in VersionFlags
      BY <1>1 DEF CharterRows
    <3>2. row \in VersionFlags /\ row.active = charterVersions[v].active
      BY <3>1 DEF VersionFlags
    <3>3. charterVersions' = [charterVersions EXCEPT ![v] = row]
      BY <2>1 DEF ApproveCharter
    <3> HIDE DEF row, VersionFlags
    <3> QED
      BY <3>1, <3>2, <3>3
  <2>3. charter' \in Charters
    BY <1>1, <2>1 DEF CharterRows, ApproveCharter, Charters
  <2>4. UNCHANGED assignments /\ charterApprovals' = charterApprovals \cup {<<v, a, charter.text>>}
        /\ charter.text \in 1..MaxEdits /\ charter'.text = charter.text
    BY <1>1, <2>1 DEF ApproveCharter, CharterRows, Charters
  <2> HIDE DEF VersionFlags, Assignments, Charters
  <2>5. CharterRows'
    BY <1>1, <2>2, <2>3, <2>4 DEF CharterRows
  <2>6. CharterShown'
    <3>1. \A w, b : ApprovedFor(w, b) => ApprovedFor(w, b)'
      BY <2>4 DEF ApprovedFor
    <3>2. <<v, a, charter.text>> \in charterApprovals' /\ <<v, a, charter.text>>[3] = charter'.text
      BY <2>4
    <3> QED
      BY <1>1, <2>2, <2>4, <3>1, <3>2 DEF CharterShown
  <2> QED
    BY <2>5, <2>6 DEF CharterInv
<1>5. CASE DeactivateCharter \/ \E v \in DOMAIN charterVersions : ActivateVersion(v)
  <2>1. charter' \in Charters /\ charter'.status # "approved"
    BY <1>1, <1>5 DEF CharterRows, DeactivateCharter, ActivateVersion, Charters
  <2> DEFINE off == [w \in DOMAIN charterVersions |-> [charterVersions[w] EXCEPT !.active = FALSE]]
  <2>2. off \in Seq(VersionFlags) /\ DOMAIN off = DOMAIN charterVersions
        /\ \A w \in DOMAIN off : ~off[w].active
    <3>1. \A w \in DOMAIN charterVersions : charterVersions[w] \in VersionFlags
      BY <1>1 DEF CharterRows
    <3>2. \A w \in DOMAIN charterVersions : off[w] \in VersionFlags /\ ~off[w].active
      BY <3>1 DEF VersionFlags
    <3>3. DOMAIN charterVersions = 1 .. Len(charterVersions) /\ Len(charterVersions) \in Nat
      BY <1>1 DEF CharterRows
    <3> HIDE DEF VersionFlags
    <3> QED
      BY <3>2, <3>3
  <2>3. CASE DeactivateCharter
    <3>1. charterVersions' = off /\ UNCHANGED <<charterApprovals, assignments>>
      BY <2>3 DEF DeactivateCharter
    <3> HIDE DEF off
    <3>2. \A v, a : ApprovedFor(v, a)' <=> ApprovedFor(v, a)
      BY <3>1 DEF ApprovedFor
    <3>3. CharterRows'
      BY <1>1, <2>1, <2>2, <3>1 DEF CharterRows
    <3>4. CharterShown'
      BY <1>1, <2>1, <2>2, <3>1, <3>2 DEF CharterShown
    <3> QED
      BY <3>3, <3>4 DEF CharterInv
  <2>4. CASE \E v \in DOMAIN charterVersions : ActivateVersion(v)
    <3>1. PICK v \in DOMAIN charterVersions : ActivateVersion(v)
      BY <2>4
    <3> DEFINE row == [off[v] EXCEPT !.active = TRUE]
    <3>2. charterVersions' = [OthersOff(charterVersions) EXCEPT ![v].active = TRUE]
          /\ UNCHANGED <<charterApprovals, assignments>>
      BY <3>1 DEF ActivateVersion
    <3>3. OthersOff(charterVersions) = off
      BY DEF OthersOff
    <3> HIDE DEF off
    <3>4. off[v] \in VersionFlags
      BY <2>2
    <3>5. row \in VersionFlags /\ charterVersions' = [off EXCEPT ![v] = row]
      BY <3>2, <3>3, <3>4 DEF VersionFlags
    <3> HIDE DEF row, VersionFlags
    <3>6. charterVersions' \in Seq(VersionFlags) /\ DOMAIN charterVersions' = DOMAIN charterVersions
          /\ \A w \in DOMAIN charterVersions : charterVersions'[w].active => w = v
      BY <2>2, <3>5
    <3>7. \A w, a : ApprovedFor(w, a)' <=> ApprovedFor(w, a)
      BY <3>2 DEF ApprovedFor
    <3>8. \E a \in Agents : ApprovedFor(v, a)'
      BY <3>1, <3>7 DEF ActivateVersion
    <3>9. CharterRows'
      BY <1>1, <2>1, <3>2, <3>6 DEF CharterRows
    <3>10. CharterShown'
      BY <1>1, <2>1, <3>2, <3>6, <3>7, <3>8 DEF CharterShown
    <3> QED
      BY <3>9, <3>10 DEF CharterInv
  <2> QED
    BY <1>5, <2>3, <2>4
<1> QED
  BY <1>2, <1>3, <1>4, <1>5 DEF CharterNext

\* A change of one profile that leaves the others, and what an approval froze.
LEMMA ProfileChanged ==
  ASSUME ReferenceInv, NEW p \in DOMAIN profiles, NEW row \in Profiles,
         profiles' = [profiles EXCEPT ![p] = row], row.active = profiles[p].active,
         profiles[p].status # "approved",
         \/ row.status # "approved" /\ profileApprovals' = profileApprovals
         \/ row.status = "approved" /\ profileApprovals' = profileApprovals \cup {<<p, row.snapshot>>},
         row.snapshot \in Snapshots, UNCHANGED reference
  PROVE  ReferenceInv'
<1>1. /\ profiles \in Seq(Profiles) /\ ReferenceRows /\ ProfilesShown
      /\ \A r \in profileApprovals : r[1] \in DOMAIN profiles
  BY DEF ReferenceInv, ReferenceRows
<1> HIDE DEF Profiles
<1>2. /\ profiles' \in Seq(Profiles) /\ DOMAIN profiles' = DOMAIN profiles /\ profiles'[p] = row
      /\ \A q \in DOMAIN profiles : q # p => profiles'[q] = profiles[q]
  BY <1>1
<1>3. ReferenceRows'
  BY <1>1, <1>2 DEF ReferenceRows
<1>4. ~row.active /\ \A r \in profileApprovals : r[1] # p
  BY <1>1 DEF ProfilesShown
<1>5. ProfilesShown'
  BY <1>1, <1>2, <1>4 DEF ProfilesShown
<1> QED
  BY <1>3, <1>5 DEF ReferenceInv

LEMMA ReferenceStep == ReferenceInv /\ ReferenceNext => ReferenceInv'
<1> SUFFICES ASSUME ReferenceInv, ReferenceNext PROVE ReferenceInv'
  OBVIOUS
<1>1. ReferenceRows /\ ProfilesShown /\ profiles \in Seq(Profiles)
  BY DEF ReferenceInv, ReferenceRows
<1>2. \A p \in DOMAIN profiles : profiles[p] \in Profiles
  BY <1>1
<1>3. CASE DeactivateReference \/ \E b \in BOOLEAN : UpdateReference(b)
  <2>1. reference' \in [active : BOOLEAN, revision : 1..MaxWrites]
    <3>1. reference \in [active : BOOLEAN, revision : 1..MaxWrites]
      BY <1>1 DEF ReferenceRows
    <3>2. CASE DeactivateReference
      BY <3>1, <3>2 DEF DeactivateReference
    <3>3. CASE \E b \in BOOLEAN : UpdateReference(b)
      BY <3>1, <3>3, RegistryAssumption DEF UpdateReference
    <3> QED
      BY <1>3, <3>2, <3>3
  <2>2. UNCHANGED <<profiles, profileApprovals>>
    BY <1>3 DEF DeactivateReference, UpdateReference
  <2> QED
    BY <1>1, <2>1, <2>2 DEF ReferenceInv, ReferenceRows, ProfilesShown
<1>4. CASE \E s \in Snapshots : CreateProfile(s)
  <2>1. PICK s \in Snapshots : CreateProfile(s)
    BY <1>4
  <2> DEFINE row == [snapshot |-> s, status |-> "submitted", active |-> FALSE, revision |-> 1]
  <2>2. row \in Profiles /\ ~row.active /\ row.status # "approved"
    BY RegistryAssumption DEF Profiles
  <2>3. profiles' = Append(profiles, row) /\ UNCHANGED <<reference, profileApprovals>>
    BY <2>1 DEF CreateProfile
  <2> HIDE DEF row, Profiles
  <2>4. /\ profiles' \in Seq(Profiles) /\ DOMAIN profiles' = 1 .. Len(profiles) + 1
        /\ DOMAIN profiles = 1 .. Len(profiles) /\ Len(profiles) \in Nat
        /\ profiles'[Len(profiles) + 1] = row
        /\ \A p \in DOMAIN profiles : profiles'[p] = profiles[p]
    BY <1>1, <2>2, <2>3
  <2>5. ReferenceRows'
    BY <1>1, <2>3, <2>4 DEF ReferenceRows
  <2>6. \A p \in DOMAIN profiles' : profiles'[p].active \/ profiles'[p].status = "approved" =>
          p \in DOMAIN profiles /\ profiles'[p] = profiles[p]
    BY <2>2, <2>4
  <2>7. \A r \in profileApprovals' : r[1] \in DOMAIN profiles
    BY <1>1, <2>3 DEF ReferenceRows
  <2>8. ProfilesShown'
    BY <1>1, <2>3, <2>4, <2>6, <2>7 DEF ProfilesShown
  <2> QED
    BY <2>5, <2>8 DEF ReferenceInv
<1>5. CASE \E s \in Snapshots, p \in DOMAIN profiles : UpdateProfile(p, s)
  <2>1. PICK s \in Snapshots, p \in DOMAIN profiles : UpdateProfile(p, s)
    BY <1>5
  <2> DEFINE row == [[profiles[p] EXCEPT !.snapshot = s] EXCEPT !.revision = profiles[p].revision + 1]
  <2>2. row \in Profiles /\ row.active = profiles[p].active /\ row.status = profiles[p].status
        /\ row.snapshot \in Snapshots
    BY <1>2, <2>1, RegistryAssumption DEF Profiles, UpdateProfile
  <2>3. profiles' = [profiles EXCEPT ![p] = row]
    BY <1>2, <2>1 DEF UpdateProfile, Profiles
  <2>4. profiles[p].status # "approved" /\ UNCHANGED <<reference, profileApprovals>>
    BY <2>1 DEF UpdateProfile, Editable
  <2> HIDE DEF row
  <2> QED
    BY <2>2, <2>3, <2>4, ProfileChanged
<1>6. CASE \E s \in Snapshots, p \in DOMAIN profiles : ApproveProfile(p, s)
  <2>1. PICK s \in Snapshots, p \in DOMAIN profiles : ApproveProfile(p, s)
    BY <1>6
  <2> DEFINE row == [profiles[p] EXCEPT !.status = "approved"]
  <2>2. row \in Profiles /\ row.active = profiles[p].active /\ row.status = "approved"
        /\ row.snapshot = profiles[p].snapshot /\ row.snapshot \in Snapshots
    BY <1>2 DEF Profiles
  <2>3. /\ profiles' = [profiles EXCEPT ![p] = row] /\ profiles[p].status # "approved"
        /\ profileApprovals' = profileApprovals \cup {<<p, profiles[p].snapshot>>}
        /\ UNCHANGED reference
    BY <2>1 DEF ApproveProfile, Shown
  <2> HIDE DEF row
  <2> QED
    BY <2>2, <2>3, ProfileChanged
<1>7. CASE \E p \in DOMAIN profiles : SubmitProfile(p)
  <2>1. PICK p \in DOMAIN profiles : SubmitProfile(p)
    BY <1>7
  <2>2. PICK status \in {"draft_profile_ready", "awaiting_owner_review"} :
          profiles' = [profiles EXCEPT ![p].status = status]
    BY <2>1 DEF SubmitProfile
  <2> DEFINE row == [profiles[p] EXCEPT !.status = status]
  <2>3. row \in Profiles /\ row.active = profiles[p].active /\ row.status # "approved"
        /\ row.snapshot \in Snapshots
    BY <1>2 DEF Profiles
  <2>4. profiles' = [profiles EXCEPT ![p] = row] /\ profiles[p].status # "approved"
        /\ UNCHANGED <<reference, profileApprovals>>
    BY <2>1, <2>2 DEF SubmitProfile
  <2> HIDE DEF row
  <2> QED
    BY <2>3, <2>4, ProfileChanged
<1>8. CASE \E p \in DOMAIN profiles : ActivateProfile(p)
  <2>1. PICK p \in DOMAIN profiles : ActivateProfile(p)
    BY <1>8
  <2>2. /\ <<p, profiles[p].snapshot>> \in profileApprovals /\ profiles[p].revision < MaxWrites
        /\ UNCHANGED <<reference, profileApprovals>>
        /\ profiles' = [q \in DOMAIN profiles |->
                          IF q = p THEN [profiles[q] EXCEPT !.active = TRUE, !.revision = @ + 1]
                          ELSE [profiles[q] EXCEPT !.active = FALSE]]
    BY <2>1 DEF ActivateProfile
  <2>3. ASSUME NEW q \in DOMAIN profiles
        PROVE  
          /\ profiles'[q] \in Profiles /\ profiles'[q].status = profiles[q].status
          /\ profiles'[q].snapshot = profiles[q].snapshot /\ (profiles'[q].active => q = p)
    <3>1. CASE q = p
      <4> DEFINE row == [[profiles[p] EXCEPT !.active = TRUE] EXCEPT
                          !.revision = profiles[p].revision + 1]
      <4>3. profiles[p] \in Profiles /\ profiles[p].revision + 1 \in 1..MaxWrites
        <5>1. profiles[p] \in Profiles /\ profiles[p].revision < MaxWrites
          BY <1>2, <2>1, <2>2
        <5>2. profiles[p].revision \in 1..MaxWrites
          BY <5>1 DEF Profiles
        <5> QED
          BY <5>1, <5>2, RegistryAssumption
      <4>1. row \in Profiles /\ row.status = profiles[p].status /\ row.snapshot = profiles[p].snapshot
        BY <4>3 DEF Profiles
      <4>2. profiles'[p] = row
        BY <1>2, <2>1, <2>2 DEF Profiles
      <4> HIDE DEF row
      <4> QED
        BY <3>1, <4>1, <4>2
    <3>2. CASE q # p
      <4>1. profiles'[q] = [profiles[q] EXCEPT !.active = FALSE]
        BY <2>2, <3>2, <2>3
      <4> QED
        BY <1>2, <3>2, <4>1, <2>3 DEF Profiles
    <3> QED
      BY <3>1, <3>2
  <2>4. DOMAIN profiles = 1 .. Len(profiles) /\ Len(profiles) \in Nat
        /\ profiles' = [q \in 1 .. Len(profiles) |-> profiles'[q]] /\ DOMAIN profiles' = DOMAIN profiles
    <3>1. DOMAIN profiles = 1 .. Len(profiles) /\ Len(profiles) \in Nat
      BY <1>1
    <3>2. DOMAIN profiles' = DOMAIN profiles /\ profiles' = [q \in DOMAIN profiles |-> profiles'[q]]
      BY <2>2
    <3> QED
      BY <3>1, <3>2
  <2> HIDE DEF Profiles
  <2>5. profiles' \in Seq(Profiles)
    BY <2>3, <2>4
  <2>6. profiles[p].status = "approved"
    BY <1>1, <2>2 DEF ProfilesShown
  <2>7. ReferenceRows'
    BY <1>1, <2>2, <2>4, <2>5 DEF ReferenceRows
  <2>8. \A r \in profileApprovals : r[1] \in DOMAIN profiles
    BY <1>1 DEF ReferenceRows
  <2>9. ProfilesShown'
    <3>1. \A r \in profileApprovals' : profiles'[r[1]].status = "approved"
      BY <1>1, <2>2, <2>3, <2>8 DEF ProfilesShown
    <3>2. \A q \in DOMAIN profiles' : profiles'[q].active => q = p
      BY <2>3, <2>4
    <3>3. \A q \in DOMAIN profiles' : profiles'[q].status = "approved" =>
            <<q, profiles'[q].snapshot>> \in profileApprovals'
      <4> SUFFICES ASSUME NEW q \in DOMAIN profiles', profiles'[q].status = "approved"
                   PROVE  <<q, profiles'[q].snapshot>> \in profileApprovals'
        OBVIOUS
      <4>1. q \in DOMAIN profiles
        BY <2>4
      <4>2. profiles'[q].status = profiles[q].status /\ profiles'[q].snapshot = profiles[q].snapshot
        BY <2>3, <4>1
      <4>3. <<q, profiles[q].snapshot>> \in profileApprovals
        BY <1>1, <4>1, <4>2 DEF ProfilesShown
      <4>4. profileApprovals' = profileApprovals
        BY <2>2
      <4> QED
        BY <4>2, <4>3, <4>4
    <3>4. profiles'[p].status = "approved"
      BY <2>1, <2>3, <2>6
    <3> QED
      BY <2>1, <2>4, <3>1, <3>2, <3>3, <3>4 DEF ProfilesShown
  <2> QED
    BY <2>7, <2>9 DEF ReferenceInv
<1> QED
  BY <1>3, <1>4, <1>5, <1>6, <1>7, <1>8 DEF ReferenceNext

RegistryInv == CharterInv /\ ReferenceInv

LEMMA InitRegistryInv == RegistryInit => RegistryInv
<1> SUFFICES ASSUME RegistryInit PROVE RegistryInv
  OBVIOUS
<1>1. CharterInv
  BY RegistryAssumption DEF RegistryInit, CharterInv, CharterRows, CharterShown, Charters
<1>2. ReferenceInv
  BY RegistryAssumption DEF RegistryInit, ReferenceInv, ReferenceRows, ProfilesShown
<1> QED
  BY <1>1, <1>2 DEF RegistryInv

LEMMA RegistryStep == RegistryInv /\ [RegistryNext]_registryVars => RegistryInv'
<1>1. CharterNext => UNCHANGED referenceVars
  BY DEF CharterNext, EditCharter, NewVersion, DeactivateCharter, ActivateVersion, ApproveCharter,
         AssignCharter, UpdateAssignment
<1>2. ReferenceNext => UNCHANGED charterVars
  BY DEF ReferenceNext, DeactivateReference, UpdateReference, CreateProfile, UpdateProfile,
         ApproveProfile, SubmitProfile, ActivateProfile
<1>3. CharterInv /\ UNCHANGED charterVars => CharterInv'
  BY DEF CharterInv, CharterRows, CharterShown, ApprovedFor, charterVars
<1>4. ReferenceInv /\ UNCHANGED referenceVars => ReferenceInv'
  BY DEF ReferenceInv, ReferenceRows, ProfilesShown, referenceVars
<1>5. UNCHANGED registryVars => UNCHANGED charterVars /\ UNCHANGED referenceVars
  BY DEF registryVars, charterVars, referenceVars
<1> QED
  BY <1>1, <1>2, <1>3, <1>4, <1>5, CharterStep, ReferenceStep DEF RegistryInv, RegistryNext

\* The registry's rows are typed.
LEMMA RegistryTyped == RegistryInv => RegistryTypeOK
  BY DEF RegistryInv, CharterInv, ReferenceInv, CharterRows, ReferenceRows, RegistryTypeOK,
         Charters, VersionFlags, Assignments, Profiles

\* Every variable of the registry keeps its type.
THEOREM RegistryTypes == RegistrySpec => []RegistryTypeOK
  BY RegistryTyped, InitRegistryInv, RegistryStep, PTL DEF RegistrySpec

\* The active charter version was approved and is the only one, and an approved or active
\* profile has the snapshot its approval names: approvals freeze what they were given for.
THEOREM RegistryApproved == RegistrySpec => []ActiveAsApproved
<1>1. RegistryInv => ActiveAsApproved
  BY DEF RegistryInv, CharterInv, ReferenceInv, CharterShown, ProfilesShown, ActiveAsApproved
<1> QED
  BY <1>1, InitRegistryInv, RegistryStep, PTL DEF RegistrySpec

-----------------------------------------------------------------------------
(* Content packages.                                                       *)

PackagePlaces == {"idle", "unknown", "handling", "storing", "record", "write", "returned", "thrown"}
AtWork == {"idle", "unknown", "handling", "storing"}
RunRows == [at : PackagePlaces, stage : Stages, segments : BOOLEAN, same : BOOLEAN,
            outputs : [Stages -> Results], outcome : Readiness \cup {"failed"}]

\* An output a run has, if it has one, is the stored one but for the order of its keys.
Holds(o, stored) == o = NoResult \/ (stored # NoResult /\ AsJsonb(o) = stored)

\* What a run knows: its outputs are the stored ones, the stages it has behind
\* it are ready, and what it would record was made from what it has.
RunSound(row, stored) ==
  /\ \A s \in Stages : Holds(row.outputs[s], stored[s])
  /\ row.at \in AtWork => \A s \in Stages : s < row.stage => row.outputs[s].ready
  /\ row.at \in {"record", "write", "returned"} => MadeFrom(row.outputs, row.outcome)

PackageInv ==
  /\ PackageTypeOK
  /\ \A r \in Runs : RunSound(packageRun[r], results)
  /\ MadeFrom(results, package)

Grows(stored, new) ==
  new \in [Stages -> StoredResults] /\ \A s \in Stages : stored[s] \in {NoResult, new[s]}

LEMMA ResultsTyped ==
  /\ NoResult \in StoredResults /\ ~NoResult.ready /\ NoResult.by = NoRun
  /\ StoredResults \subseteq Results /\ \A o \in StoredResults : AsJsonb(o) = o
  /\ \A o \in Results : AsJsonb(o) \in StoredResults /\ AsJsonb(o).ready = o.ready
                         /\ AsJsonb(o).by = o.by
BY DEF NoResult, Results, StoredResults, AsJsonb

LEMMA MadeFromCases ==
  ASSUME NEW outputs, NEW readiness
  PROVE  MadeFrom(outputs, readiness) <=>
           /\ readiness = "complete" => \A s \in Stages : outputs[s].ready
           /\ readiness = "incomplete" => \A s \in Stages \ {LastStage} : outputs[s].ready
           /\ readiness = "blocked" => \E s \in Stages : outputs[s] # NoResult /\ ~outputs[s].ready
<1>1. CASE readiness = "complete"
  BY <1>1 DEF MadeFrom
<1>2. CASE readiness = "incomplete"
  BY <1>2 DEF MadeFrom
<1>3. CASE readiness = "blocked"
  BY <1>3 DEF MadeFrom
<1>4. CASE readiness \notin {"complete", "incomplete", "blocked"}
  BY <1>4 DEF MadeFrom
<1> QED
  BY <1>1, <1>2, <1>3, <1>4

LEMMA MadeFromGrows ==
  ASSUME NEW outputs \in [Stages -> Results], NEW new, NEW readiness,
         \A s \in Stages : Holds(outputs[s], new[s]), MadeFrom(outputs, readiness)
  PROVE  MadeFrom(new, readiness)
BY MadeFromCases, ResultsTyped DEF Holds

LEMMA SoundGrows ==
  ASSUME NEW row, NEW stored, NEW new, Grows(stored, new), RunSound(row, stored)
  PROVE  RunSound(row, new)
BY DEF Grows, RunSound, Holds

\* One run moves, over results that may grow; the record stays.
LEMMA RunMoves ==
  ASSUME PackageInv, NEW r \in Runs, NEW row \in RunRows,
         packageRun' = [packageRun EXCEPT ![r] = row],
         Grows(results, results'), RunSound(row, results'), package' = package
  PROVE  PackageInv'
<1>1. packageRun \in [Runs -> RunRows]
  BY DEF PackageInv, PackageTypeOK, RunRows, PackagePlaces
<1>2. packageRun' \in [Runs -> RunRows]
  BY <1>1
<1>3. PackageTypeOK'
  BY <1>2 DEF PackageInv, PackageTypeOK, RunRows, PackagePlaces, Grows
<1>4. \A q \in Runs : RunSound(packageRun'[q], results')
  BY <1>1, SoundGrows DEF PackageInv
<1>5. MadeFrom(results', package')
  <2>1. results \in [Stages -> Results]
        /\ \A s \in Stages : results[s] \in StoredResults /\ results[s] \in {NoResult, results'[s]}
    BY ResultsTyped DEF PackageInv, PackageTypeOK, Grows
  <2>2. \A s \in Stages : Holds(results[s], results'[s])
    BY <2>1, ResultsTyped DEF Holds
  <2> QED
    BY <2>1, <2>2, MadeFromGrows DEF PackageInv
<1> QED
  BY <1>3, <1>4, <1>5 DEF PackageInv

\* A run that turns elsewhere, with nothing more to know.
LEMMA RunTurns ==
  ASSUME PackageInv, NEW r \in Runs, NEW place \in PackagePlaces, Turn(r, place),
         \/ place = "thrown"
         \/ place \in AtWork /\ packageRun[r].at \in AtWork
         \/ place = "returned" /\ packageRun[r].at = "write",
         UNCHANGED <<results, package>>
  PROVE  PackageInv'
<1> DEFINE row == [packageRun[r] EXCEPT !.at = place]
<1>1. packageRun \in [Runs -> RunRows] /\ packageRun[r] \in RunRows
  BY DEF PackageInv, PackageTypeOK, RunRows, PackagePlaces
<1>2. packageRun' = [packageRun EXCEPT ![r] = row]
  BY DEF Turn
<1>3. row \in RunRows /\ row.at = place /\ row.outputs = packageRun[r].outputs
      /\ row.stage = packageRun[r].stage /\ row.outcome = packageRun[r].outcome
  BY <1>1 DEF RunRows
<1> HIDE DEF row
<1>4. RunSound(row, results)
  <2>1. RunSound(packageRun[r], results)
    BY DEF PackageInv
  <2> QED
    BY <1>3, <2>1 DEF RunSound, AtWork
<1>5. Grows(results, results') /\ RunSound(row, results')
  BY <1>4 DEF Grows, PackageInv, PackageTypeOK
<1> QED
  BY <1>2, <1>3, <1>5, RunMoves

\* A run that settles on an outcome its outputs bear out.
LEMMA RunSettles ==
  ASSUME PackageInv, NEW r \in Runs, NEW outcome \in Readiness \cup {"failed"}, Settle(r, outcome),
         MadeFrom(packageRun[r].outputs, outcome), Grows(results, results'), package' = package
  PROVE  PackageInv'
<1> DEFINE row == [[packageRun[r] EXCEPT !.at = "record"] EXCEPT !.outcome = outcome]
<1>1. packageRun \in [Runs -> RunRows] /\ packageRun[r] \in RunRows
  BY DEF PackageInv, PackageTypeOK, RunRows, PackagePlaces
<1>2. packageRun' = [packageRun EXCEPT ![r] = row]
  BY <1>1 DEF Settle, RunRows
<1>3. row \in RunRows /\ row.at = "record" /\ row.outputs = packageRun[r].outputs
      /\ row.stage = packageRun[r].stage /\ row.outcome = outcome
  BY <1>1 DEF RunRows, PackagePlaces
<1> HIDE DEF row
<1>4. RunSound(row, results)
  <2>1. RunSound(packageRun[r], results)
    BY DEF PackageInv
  <2> QED
    BY <1>3, <2>1 DEF RunSound, AtWork
<1>5. RunSound(row, results')
  BY <1>4, SoundGrows
<1> QED
  BY <1>2, <1>3, <1>5, RunMoves

LEMMA RunPasses ==
  ASSUME PackageInv, NEW r \in Runs, packageRun[r].at \in AtWork, NEW o \in Results,
         AfterStage(r, o), Grows(results, results'), Holds(o, results'[StageOf(r)]), o # NoResult,
         package' = package
  PROVE  PackageInv'
<1> DEFINE old == packageRun[r]
           s0 == old.stage
           outs == [old.outputs EXCEPT ![s0] = o]
           taken == [old EXCEPT !.outputs = outs]
<1>1. packageRun \in [Runs -> RunRows] /\ old \in RunRows /\ RunSound(old, results)
  BY DEF PackageInv, PackageTypeOK, RunRows, PackagePlaces
<1>2. outs \in [Stages -> Results] /\ s0 \in Stages
  BY <1>1 DEF RunRows
<1>3. taken = [old EXCEPT !.outputs[s0] = o]
  BY <1>1 DEF RunRows
<1>4. \A s \in Stages : Holds(outs[s], results'[s])
  BY <1>1, <1>2 DEF RunSound, Grows, StageOf, RunRows, Holds
<1>5. \A s \in Stages : s < s0 => outs[s].ready
  BY <1>1, <1>2 DEF RunSound, RunRows, Stages
<1>6. packageRun' = [packageRun EXCEPT ![r] =
        IF ~o.ready THEN [taken EXCEPT !.at = "record", !.outcome = "blocked"]
        ELSE IF s0 = LastStage THEN [taken EXCEPT !.at = "record", !.outcome = "complete"]
        ELSE [taken EXCEPT !.at = "idle", !.stage = @ + 1]]
  BY <1>3 DEF AfterStage, StageOf
<1>7. taken \in RunRows /\ taken.outputs = outs /\ taken.stage = s0
  BY <1>1, <1>2 DEF RunRows
<1>8. outs[s0] = o
  BY <1>1, <1>2 DEF RunRows
<1> HIDE DEF taken, outs, s0, old
<1>9. CASE ~o.ready
  <2> DEFINE row == [taken EXCEPT !.at = "record", !.outcome = "blocked"]
  <2>1. row \in RunRows /\ row.at = "record" /\ row.outputs = outs /\ row.outcome = "blocked"
    BY <1>7 DEF RunRows, PackagePlaces, Readiness
  <2>2. packageRun' = [packageRun EXCEPT ![r] = row]
    BY <1>6, <1>9
  <2> HIDE DEF row
  <2>3. MadeFrom(outs, "blocked")
    BY <1>2, <1>8, <1>9, MadeFromCases
  <2>4. RunSound(row, results')
    BY <2>1, <2>3, <1>4 DEF RunSound, AtWork
  <2> QED
    BY <2>1, <2>2, <2>4, RunMoves
<1>10. CASE o.ready /\ s0 = LastStage
  <2> DEFINE row == [taken EXCEPT !.at = "record", !.outcome = "complete"]
  <2>1. row \in RunRows /\ row.at = "record" /\ row.outputs = outs /\ row.outcome = "complete"
    BY <1>7 DEF RunRows, PackagePlaces, Readiness
  <2>2. packageRun' = [packageRun EXCEPT ![r] = row]
    BY <1>6, <1>10
  <2> HIDE DEF row
  <2>3. \A s \in Stages : outs[s].ready
    BY <1>2, <1>5, <1>8, <1>10, ContentPackageAssumption DEF Stages
  <2>4. MadeFrom(outs, "complete")
    BY <2>3, MadeFromCases
  <2>5. RunSound(row, results')
    BY <2>1, <2>4, <1>4 DEF RunSound, AtWork
  <2> QED
    BY <2>1, <2>2, <2>5, RunMoves
<1>11. CASE o.ready /\ s0 # LastStage
  <2> DEFINE row == [taken EXCEPT !.at = "idle", !.stage = @ + 1]
  <2>1. s0 + 1 \in Stages
    BY <1>2, <1>11, ContentPackageAssumption DEF Stages
  <2>2. row \in RunRows /\ row.at = "idle" /\ row.outputs = outs /\ row.stage = s0 + 1
    BY <1>7, <2>1 DEF RunRows, PackagePlaces
  <2>3. packageRun' = [packageRun EXCEPT ![r] = row]
    BY <1>6, <1>11
  <2> HIDE DEF row
  <2>4. \A s \in Stages : s < s0 + 1 => outs[s].ready
    BY <1>2, <1>5, <1>8, <1>11, ContentPackageAssumption DEF Stages
  <2>5. RunSound(row, results')
    BY <2>2, <2>4, <1>4 DEF RunSound, AtWork
  <2> QED
    BY <2>2, <2>3, <2>5, RunMoves
<1> QED
  BY <1>9, <1>10, <1>11

-----------------------------------------------------------------------------
LEMMA InitPackageInv == PackageInit => PackageInv
<1> SUFFICES ASSUME PackageInit PROVE PackageInv
  OBVIOUS
<1> DEFINE none == [s \in Stages |-> NoResult]
<1>1. none \in [Stages -> Results] /\ none \in [Stages -> StoredResults]
      /\ \A s \in Stages : none[s] = NoResult
  BY ResultsTyped
<1>2. results = none /\ package = "none"
  BY DEF PackageInit
<1>3. \A r \in Runs : \E g \in BOOLEAN :
        packageRun[r] = [at |-> "idle", stage |-> 1, segments |-> g, same |-> FALSE,
                         outputs |-> none, outcome |-> "failed"]
  BY DEF PackageInit
<1>4. packageRun = [r \in Runs |-> packageRun[r]]
  BY DEF PackageInit
<1>5. 1 \in Stages /\ \A s \in Stages : ~(s < 1)
  BY ContentPackageAssumption DEF Stages
<1> HIDE DEF none
<1>6. \A r \in Runs : packageRun[r] \in RunRows /\ RunSound(packageRun[r], results)
  <2> SUFFICES ASSUME NEW r \in Runs
               PROVE  packageRun[r] \in RunRows /\ RunSound(packageRun[r], results)
    OBVIOUS
  <2>1. PICK g \in BOOLEAN :
          packageRun[r] = [at |-> "idle", stage |-> 1, segments |-> g, same |-> FALSE,
                           outputs |-> none, outcome |-> "failed"]
    BY <1>3
  <2> DEFINE row == packageRun[r]
  <2>2. row \in RunRows
    BY <1>1, <1>5, <2>1 DEF RunRows, PackagePlaces
  <2>3. row.at = "idle" /\ row.stage = 1 /\ row.outputs = none
    BY <2>1
  <2> HIDE DEF row
  <2>4. RunSound(row, results)
    BY <1>1, <1>5, <2>3 DEF RunSound, Holds
  <2> QED
    BY <2>2, <2>4 DEF row
<1>7. packageRun \in [Runs -> RunRows]
  BY <1>4, <1>6
<1>8. MadeFrom(results, package)
  BY <1>2, MadeFromCases
<1> QED
  BY <1>1, <1>2, <1>6, <1>7, <1>8 DEF PackageInv, PackageTypeOK, RunRows, PackagePlaces

LEMMA RunStep ==
  ASSUME PackageInv, NEW r \in Runs,
         \/ LookUpResult(r) \/ AwaitNarration(r) \/ EnterStage(r) \/ HandleStage(r)
         \/ StoreResult(r) \/ FailStage(r) \/ LoseStored(r)
         \/ ReadPackage(r) \/ WritePackage(r) \/ LosePackage(r)
  PROVE  PackageInv'
<1>1. /\ results \in [Stages -> StoredResults] /\ packageRun \in [Runs -> RunRows]
      /\ packageRun[r] \in RunRows /\ StageOf(r) \in Stages /\ RunSound(packageRun[r], results)
      /\ MadeFrom(results, package)
  BY DEF PackageInv, PackageTypeOK, RunRows, PackagePlaces, StageOf
<1>2. results' = results => Grows(results, results')
  BY <1>1 DEF Grows
<1>3. \A outputs : MadeFrom(outputs, "failed")
  BY MadeFromCases
<1>4. CASE LookUpResult(r)
  <2>1. UNCHANGED <<results, package>> /\ packageRun[r].at = "idle"
    BY <1>4 DEF LookUpResult, InStage
  <2>2. CASE results[StageOf(r)] = NoResult
    <3>1. Turn(r, "unknown")
      BY <1>4, <2>2 DEF LookUpResult
    <3> QED
      BY <2>1, <3>1, RunTurns DEF PackagePlaces, AtWork
  <2>3. CASE results[StageOf(r)] # NoResult
    <3>1. /\ AfterStage(r, results[StageOf(r)]) /\ results[StageOf(r)] \in Results
          /\ Holds(results[StageOf(r)], results'[StageOf(r)])
      BY <1>1, <1>4, <2>1, <2>3, ResultsTyped DEF LookUpResult, Holds
    <3> QED
      BY <1>2, <2>1, <2>3, <3>1, RunPasses DEF AtWork
  <2> QED
    BY <2>2, <2>3
<1>5. CASE AwaitNarration(r)
  <2>1. /\ UNCHANGED <<results, package>> /\ packageRun[r].at = "idle"
        /\ packageRun[r].stage = LastStage /\ Settle(r, "incomplete")
    BY <1>5 DEF AwaitNarration, InStage, StageOf
  <2>2. \A s \in Stages \ {LastStage} : packageRun[r].outputs[s].ready
    BY <1>1, <2>1, ContentPackageAssumption DEF RunSound, AtWork, Stages
  <2>3. MadeFrom(packageRun[r].outputs, "incomplete")
    BY <2>2, MadeFromCases
  <2> QED
    BY <1>2, <2>1, <2>3, RunSettles DEF Readiness
<1>6. CASE EnterStage(r) \/ HandleStage(r)
  <2>1. UNCHANGED <<results, package>> /\ packageRun[r].at \in AtWork
        /\ (Turn(r, "handling") \/ Turn(r, "storing") \/ Settle(r, "failed"))
    BY <1>6 DEF EnterStage, HandleStage, InStage, AtWork
  <2> QED
    BY <1>2, <1>3, <2>1, RunTurns, RunSettles DEF PackagePlaces, AtWork
<1>7. CASE StoreResult(r)
  <2>1. PICK ready \in BOOLEAN :
          LET o == [by |-> r, ready |-> ready, order |-> "built"]
          IN /\ results' = [results EXCEPT ![StageOf(r)] = Stored(StageOf(r), o)]
             /\ IF Stored(StageOf(r), o) = AsJsonb(o) THEN AfterStage(r, o) ELSE Settle(r, "failed")
    BY <1>7 DEF StoreResult
  <2> DEFINE o == [by |-> r, ready |-> ready, order |-> "built"]
  <2>2. o \in Results /\ o # NoResult /\ AsJsonb(o) # NoResult
    BY ContentPackageAssumption DEF Results, NoResult, AsJsonb
  <2>3. /\ results' = [results EXCEPT ![StageOf(r)] = Stored(StageOf(r), o)]
        /\ IF Stored(StageOf(r), o) = AsJsonb(o) THEN AfterStage(r, o) ELSE Settle(r, "failed")
    BY <2>1
  <2>4. packageRun[r].at \in AtWork /\ package' = package
    BY <1>7 DEF StoreResult, InStage, AtWork
  <2> HIDE DEF o
  <2>5. Stored(StageOf(r), o) \in StoredResults
        /\ (results[StageOf(r)] # NoResult => Stored(StageOf(r), o) = results[StageOf(r)])
    BY <1>1, <2>2, ResultsTyped DEF Stored
  <2>6. Grows(results, results') /\ results'[StageOf(r)] = Stored(StageOf(r), o)
    BY <1>1, <2>3, <2>5 DEF Grows
  <2>7. Stored(StageOf(r), o) = AsJsonb(o) => Holds(o, results'[StageOf(r)])
    BY <2>2, <2>6 DEF Holds
  <2> QED
    BY <1>3, <2>2, <2>3, <2>4, <2>6, <2>7, RunPasses, RunSettles
<1>8. CASE FailStage(r) \/ LoseStored(r)
  <2>1. package' = package /\ Settle(r, "failed")
    BY <1>8 DEF FailStage, FailedOutcome, LoseStored
  <2>2. Grows(results, results')
    <3>1. CASE FailStage(r)
      BY <3>1, <1>2 DEF FailStage
    <3>2. CASE LoseStored(r)
      <4>1. results' = [results EXCEPT ![StageOf(r)] = [by |-> r, ready |-> TRUE, order |-> "jsonb"]]
            /\ results[StageOf(r)] = NoResult
        BY <3>2 DEF LoseStored
      <4>2. [by |-> r, ready |-> TRUE, order |-> "jsonb"] \in StoredResults
        BY DEF StoredResults
      <4> QED
        BY <1>1, <4>1, <4>2 DEF Grows
    <3> QED
      BY <1>8, <3>1, <3>2
  <2> QED
    BY <1>3, <2>1, <2>2, RunSettles
<1>9. CASE ReadPackage(r)
  <2> DEFINE same == (package = packageRun[r].outcome)
             row == [[packageRun[r] EXCEPT !.at = "write"] EXCEPT !.same = same]
  <2>1. same \in BOOLEAN
    OBVIOUS
  <2>2. packageRun' = [packageRun EXCEPT ![r] = row] /\ UNCHANGED <<results, package>>
        /\ packageRun[r].at = "record"
    BY <1>1, <1>9 DEF ReadPackage, InStage, RunRows
  <2> HIDE DEF same
  <2>3. row \in RunRows /\ row.at = "write" /\ row.outputs = packageRun[r].outputs
        /\ row.outcome = packageRun[r].outcome
    BY <1>1, <2>1 DEF RunRows, PackagePlaces
  <2> HIDE DEF row
  <2>4. RunSound(row, results)
    BY <1>1, <2>2, <2>3 DEF RunSound, AtWork
  <2> QED
    BY <1>2, <2>2, <2>3, <2>4, RunMoves
<1>10. CASE WritePackage(r)
  <2> DEFINE place == IF packageRun[r].outcome = "failed" THEN "thrown" ELSE "returned"
             row == [packageRun[r] EXCEPT !.at = place]
  <2>1. /\ packageRun' = [packageRun EXCEPT ![r] = row] /\ packageRun[r].at = "write"
        /\ results' = results
        /\ package' = package \/ package' = packageRun[r].outcome
    BY <1>10 DEF WritePackage, InStage, Turn
  <2>2. place \in PackagePlaces \ AtWork
    BY DEF PackagePlaces, AtWork
  <2> HIDE DEF place
  <2>3. row \in RunRows /\ row.at = place /\ row.outputs = packageRun[r].outputs
        /\ row.outcome = packageRun[r].outcome
    BY <1>1, <2>2 DEF RunRows
  <2> HIDE DEF row
  <2>4. MadeFrom(packageRun[r].outputs, packageRun[r].outcome)
        /\ \A s \in Stages : Holds(packageRun[r].outputs[s], results[s])
        /\ packageRun[r].outputs \in [Stages -> Results]
    BY <1>1, <2>1 DEF RunSound, RunRows
  <2>5. RunSound(row, results')
    BY <2>1, <2>2, <2>3, <2>4 DEF RunSound
  <2>6. MadeFrom(results', package')
    BY <1>1, <2>1, <2>4, MadeFromGrows
  <2>7. package' \in Readiness \cup {"none", "failed"}
    BY <1>1, <2>1 DEF RunRows, PackageInv, PackageTypeOK
  <2>8. packageRun' \in [Runs -> RunRows] /\ \A q \in Runs : RunSound(packageRun'[q], results')
    BY <1>1, <2>1, <2>3, <2>5 DEF PackageInv
  <2> QED
    BY <1>1, <2>1, <2>6, <2>7, <2>8 DEF PackageInv, PackageTypeOK, RunRows, PackagePlaces
<1>11. CASE LosePackage(r)
  <2>1. UNCHANGED <<results, package>> /\ (Turn(r, "thrown") \/ Settle(r, "failed"))
    BY <1>11 DEF LosePackage
  <2> QED
    BY <1>2, <1>3, <2>1, RunTurns, RunSettles DEF PackagePlaces
<1> QED
  BY <1>4, <1>5, <1>6, <1>7, <1>8, <1>9, <1>10, <1>11

LEMMA ProcessDiesKeeps ==
  ASSUME PackageInv, NEW p, ProcessDies(p)
  PROVE  PackageInv'
<1>1. packageRun \in [Runs -> RunRows] /\ UNCHANGED <<results, package>>
  BY DEF PackageInv, PackageTypeOK, RunRows, PackagePlaces, ProcessDies
<1>2. packageRun' = [r \in Runs |-> IF ProcessOf[r] = p /\ packageRun[r].at # "returned"
                                   THEN [packageRun[r] EXCEPT !.at = "thrown"] ELSE packageRun[r]]
  BY DEF ProcessDies
<1>3. ASSUME NEW r \in Runs
      PROVE  packageRun'[r] \in RunRows /\ RunSound(packageRun'[r], results')
  <2> DEFINE row == [packageRun[r] EXCEPT !.at = "thrown"]
  <2>1. packageRun[r] \in RunRows /\ RunSound(packageRun[r], results)
    BY <1>1 DEF PackageInv
  <2>2. row \in RunRows /\ row.at = "thrown" /\ row.outputs = packageRun[r].outputs
    BY <2>1 DEF RunRows, PackagePlaces
  <2>3. packageRun'[r] = row \/ packageRun'[r] = packageRun[r]
    BY <1>2
  <2> HIDE DEF row
  <2>4. RunSound(row, results)
    BY <2>1, <2>2 DEF RunSound, AtWork
  <2> QED
    BY <1>1, <2>1, <2>2, <2>3, <2>4
<1>4. packageRun' \in [Runs -> RunRows]
  BY <1>2, <1>3
<1> QED
  BY <1>1, <1>3, <1>4 DEF PackageInv, PackageTypeOK, RunRows, PackagePlaces

LEMMA PackageStep == PackageInv /\ [PackageNext]_packageVars => PackageInv'
<1> SUFFICES ASSUME PackageInv, [PackageNext]_packageVars PROVE PackageInv'
  OBVIOUS
<1>1. CASE UNCHANGED packageVars
  BY <1>1 DEF packageVars, PackageInv, PackageTypeOK
<1>2. CASE PackageNext
  BY <1>2, RunStep, ProcessDiesKeeps DEF PackageNext
<1> QED
  BY <1>1, <1>2

\* Every variable of the content packages keeps its type.
THEOREM PackageTypes == PackageSpec => []PackageTypeOK
<1>1. PackageInv => PackageTypeOK
  BY DEF PackageInv
<1> QED
  BY <1>1, InitPackageInv, PackageStep, PTL DEF PackageSpec

\* Whatever the runs of a package and their failures, a run's outputs have the content of
\* the stored ones, in whatever order of keys, and a returned or recorded package has the stages its readiness speaks of: a stored
\* result is never replaced, so what was made from it stays made from it.
THEOREM PackagesAgreed == PackageSpec => []PackagesAgree
<1>1. PackageInv => PackagesAgree
  BY DEF PackageInv, PackagesAgree, RunSound, Holds, InStage
<1> QED
  BY <1>1, InitPackageInv, PackageStep, PTL DEF PackageSpec

-----------------------------------------------------------------------------
(* The resilience controls: an open circuit's last opening has no probe yet.*)

CallerStates == {"idle", "working", "probing"}

\* No probe is of an opening to come, and an open circuit waits for the probe of its last.
ProbesOfThePast ==
  /\ \A p \in probed : p[1] \in 1..openings
  /\ circuitRow.state = "open" => openings # 0 /\ \A p \in probed : p[1] # openings

ResilienceInv == ResilienceTypeOK /\ ProbesOfThePast /\ ProbedOnce

LEMMA ResilienceInitInv == ResilienceInit => ResilienceInv
  BY ResilienceAssumption DEF ResilienceInit, ResilienceInv, ResilienceTypeOK, ProbesOfThePast, ProbedOnce

\* The operations that leave circuit, probes and alerts alone.
LEMMA CircuitKept ==
  ASSUME ResilienceInv, UNCHANGED <<circuitRow, openings, probed, alerts, quarantined>>,
         paused' \subseteq Scopes, actions' \subseteq Outputs \X {"release", "retry"},
         caller' \in [Callers -> CallerStates]
  PROVE  ResilienceInv'
  BY DEF ResilienceInv, ResilienceTypeOK, ProbesOfThePast, ProbedOnce, CallerStates

LEMMA ClaimProbeInv ==
  ASSUME ResilienceInv, NEW c \in Callers, ClaimProbe(c)
  PROVE  ResilienceInv'
<1>1. /\ circuitRow' = [circuitRow EXCEPT !.state = "half_open"]
      /\ circuitRow.state = "open"
      /\ probed' = probed \cup {<<openings, c>>}
      /\ UNCHANGED <<openings, alerts, paused, quarantined, actions>>
  BY DEF ClaimProbe, Claimable
<1>2. openings \in 1..MaxOpenings
  BY <1>1 DEF ResilienceInv, ResilienceTypeOK, ProbesOfThePast
<1>3. circuitRow' = [state |-> "half_open", failures |-> circuitRow.failures,
                     elapsed |-> circuitRow.elapsed]
  BY <1>1 DEF ResilienceInv, ResilienceTypeOK
<1>4. ResilienceTypeOK'
  <2>1. probed' \subseteq (1..MaxOpenings) \X Callers
    BY <1>1, <1>2 DEF ResilienceInv, ResilienceTypeOK
  <2>2. caller' \in [Callers -> {"idle", "working", "probing"}]
    BY DEF ClaimProbe, ResilienceInv, ResilienceTypeOK
  <2> QED
    BY <1>1, <1>3, <2>1, <2>2 DEF ResilienceInv, ResilienceTypeOK
<1>5. ProbesOfThePast'
  BY <1>1, <1>2, <1>3 DEF ResilienceInv, ProbesOfThePast
<1>6. ProbedOnce'
  <2>1. \A p, q \in probed' : p[1] = q[1] => p = q
    BY <1>1 DEF ResilienceInv, ProbesOfThePast, ProbedOnce
  <2>2. \E p \in probed' : p[1] = openings'
    <3>1. <<openings, c>> \in probed' /\ <<openings, c>>[1] = openings'
      BY <1>1
    <3> QED
      BY <3>1
  <2> QED
    BY <1>1, <2>1, <2>2 DEF ResilienceInv, ProbedOnce
<1> QED
  BY <1>4, <1>5, <1>6 DEF ResilienceInv

LEMMA RecordCircuitFailureInv ==
  ASSUME ResilienceInv, NEW c \in Callers, RecordCircuitFailure(c)
  PROVE  ResilienceInv'
<1>1. UNCHANGED <<probed, paused, quarantined, actions>>
  BY DEF RecordCircuitFailure
<1>2. caller' \in [Callers -> {"idle", "working", "probing"}]
  BY DEF RecordCircuitFailure, ResilienceInv, ResilienceTypeOK
<1>3. CASE Opens(circuitRow)
  <2>1. /\ openings < MaxOpenings
        /\ circuitRow' = [state |-> "open", failures |-> Threshold, elapsed |-> FALSE]
        /\ openings' = openings + 1
        /\ alerts' = alerts \cup {openings + 1}
    BY <1>3 DEF RecordCircuitFailure
  <2>2. openings \in Nat /\ MaxOpenings \in Nat /\ openings + 1 \in 1..MaxOpenings
    BY <2>1, ResilienceAssumption DEF ResilienceInv, ResilienceTypeOK
  <2>3. ResilienceTypeOK'
    BY <1>1, <1>2, <2>1, <2>2, ResilienceAssumption DEF ResilienceInv, ResilienceTypeOK
  <2>4. ProbesOfThePast'
    BY <1>1, <2>1, <2>2 DEF ResilienceInv, ProbesOfThePast
  <2>5. 1..(openings + 1) = (1..openings) \cup {openings + 1}
    BY <2>2
  <2>6. ProbedOnce'
    BY <1>1, <2>1, <2>5 DEF ResilienceInv, ProbedOnce
  <2> QED
    BY <2>3, <2>4, <2>6 DEF ResilienceInv
<1>4. CASE ~Opens(circuitRow)
  <2>1. circuitRow' = [circuitRow EXCEPT !.failures = @ + 1] /\ UNCHANGED <<openings, alerts>>
    BY <1>4 DEF RecordCircuitFailure
  <2>2. circuitRow.failures + 1 \in 0..Threshold
    BY <1>4, ResilienceAssumption DEF Opens, ResilienceInv, ResilienceTypeOK
  <2>3. /\ circuitRow'.state = circuitRow.state
        /\ circuitRow' \in [state : {"closed", "open", "half_open"}, failures : 0..Threshold,
                            elapsed : BOOLEAN]
    BY <2>1, <2>2 DEF ResilienceInv, ResilienceTypeOK
  <2> QED
    BY <1>1, <1>2, <2>1, <2>3
       DEF ResilienceInv, ResilienceTypeOK, ProbesOfThePast, ProbedOnce
<1> QED
  BY <1>3, <1>4

LEMMA RecordCircuitSuccessInv ==
  ASSUME ResilienceInv, NEW c \in Callers, RecordCircuitSuccess(c)
  PROVE  ResilienceInv'
<1>1. caller' \in [Callers -> {"idle", "working", "probing"}]
  BY DEF RecordCircuitSuccess, ResilienceInv, ResilienceTypeOK
<1>2. /\ circuitRow' = [state |-> "closed", failures |-> 0, elapsed |-> FALSE]
      /\ UNCHANGED <<openings, probed, alerts, paused, quarantined, actions>>
  BY DEF RecordCircuitSuccess
<1> QED
  BY <1>1, <1>2, ResilienceAssumption
     DEF ResilienceInv, ResilienceTypeOK, ProbesOfThePast, ProbedOnce

LEMMA QuarantineInv ==
  ASSUME ResilienceInv, NEW c \in Callers, Quarantine(c)
  PROVE  ResilienceInv'
<1>1. PICK o \in Outputs : quarantined' = quarantined \cup {o} /\ alerts' = alerts \cup {o}
  BY DEF Quarantine
<1>2. UNCHANGED <<circuitRow, openings, probed, paused, actions, caller>>
  BY DEF Quarantine
<1> QED
  BY <1>1, <1>2 DEF ResilienceInv, ResilienceTypeOK, ProbesOfThePast, ProbedOnce

LEMMA CooldownElapsesInv ==
  ASSUME ResilienceInv, CooldownElapses
  PROVE  ResilienceInv'
<1>1. circuitRow' = [circuitRow EXCEPT !.elapsed = TRUE]
  BY DEF CooldownElapses
<1>2. UNCHANGED <<openings, probed, alerts, paused, quarantined, actions, caller>>
  BY DEF CooldownElapses
<1>3. /\ circuitRow'.state = circuitRow.state
      /\ circuitRow' \in [state : {"closed", "open", "half_open"}, failures : 0..Threshold,
                          elapsed : BOOLEAN]
  BY <1>1 DEF ResilienceInv, ResilienceTypeOK
<1> QED
  BY <1>2, <1>3 DEF ResilienceInv, ResilienceTypeOK, ProbesOfThePast, ProbedOnce

LEMMA ResilienceNextInv == ResilienceInv /\ [ResilienceNext]_resilienceVars => ResilienceInv'
<1> SUFFICES ASSUME ResilienceInv, [ResilienceNext]_resilienceVars
             PROVE  ResilienceInv'
  OBVIOUS
<1> USE DEF CallerStates
<1>1. CASE UNCHANGED resilienceVars
  BY <1>1, CircuitKept DEF resilienceVars, ResilienceInv, ResilienceTypeOK
<1>2. CASE \E c \in Callers : StartWork(c)
  BY <1>2, CircuitKept DEF StartWork, ResilienceInv, ResilienceTypeOK
<1>3. CASE \E c \in Callers : CallerDies(c)
  BY <1>3, CircuitKept DEF CallerDies, ResilienceInv, ResilienceTypeOK
<1>4. CASE AuthorizeAction
  BY <1>4, CircuitKept DEF AuthorizeAction, ResilienceInv, ResilienceTypeOK
<1>5. CASE SetPause
  BY <1>5, CircuitKept DEF SetPause, ResilienceInv, ResilienceTypeOK
<1>6. CASE ClearPause
  BY <1>6, CircuitKept DEF ClearPause, ResilienceInv, ResilienceTypeOK
<1> QED
  BY <1>1, <1>2, <1>3, <1>4, <1>5, <1>6, ClaimProbeInv, RecordCircuitFailureInv,
     RecordCircuitSuccessInv, QuarantineInv, CooldownElapsesInv DEF ResilienceNext

\* In every behaviour, whatever the callers, the threshold and the bound, no opening
\* has two probes, a half-open circuit has one, and the owner is told of every
\* opening and every quarantined output.
THEOREM ProbedOnceHolds == ResilienceSpec => []ProbedOnce
<1>1. ResilienceInv => ProbedOnce
  BY DEF ResilienceInv
<1> QED
  BY <1>1, ResilienceInitInv, ResilienceNextInv, PTL DEF ResilienceSpec

\* The types of the circuit, its callers and the tables are kept.
THEOREM ResilienceTypesHold == ResilienceSpec => []ResilienceTypeOK
<1>1. ResilienceInv => ResilienceTypeOK
  BY DEF ResilienceInv
<1> QED
  BY <1>1, ResilienceInitInv, ResilienceNextInv, PTL DEF ResilienceSpec

-----------------------------------------------------------------------------
(* Provider calls.                                                         *)

Units == [Places -> {"none", "reserved", "committed", "released"}]
Circuits == [Places -> [state : {"CLOSED", "OPEN", "HALF_OPEN"}, failures : 0..MaxFailures,
                        cooled : BOOLEAN]]
ExecutionRows == [at : ExecutionStates, provider : Places, lease : {"none", "held", "over"}]

\* What an execution may rely on where it is.
ExecutionSound(x, row, audits, units, calls) ==
  /\ row.at \in {"called", "commit", "returned"} => <<x, row.provider>> \in calls
  /\ row.at = "returned" => units[row.provider] = "committed"
  /\ row.lease = "held" => row.at \in {"audit", "reserve", "call", "called"}
  /\ row.at \in {"reserve", "call", "called"} /\ Remote(row.provider)
       => <<x, row.provider>> \in audits

CallsAudited(audits, calls) == \A c \in calls : Remote(c[2]) => c \in audits

RotationsBehind ==
  /\ \A r \in Rotators :
       /\ rotation[r].at = "read" => rotation[r].version <= credential[1].version
       /\ rotation[r].at = "rotated" => rotation[r].version < credential[1].version
  /\ \A r, s \in Rotators :
       r # s /\ rotation[r].at = "rotated" /\ rotation[s].at = "rotated" =>
         rotation[r].version # rotation[s].version

CallsInv ==
  /\ CallsTypeOK
  /\ \A x \in Executions : ExecutionSound(x, execution[x], audited, unit, sent)
  /\ CallsAudited(audited, sent) /\ RotationsBehind

\* Nothing an execution relies on is taken back: audit rows and calls are facts,
\* and a committed unit stays committed.
CallsGrow ==
  /\ audited \subseteq audited' /\ audited' \subseteq Executions \X Places
  /\ sent \subseteq sent' /\ sent' \subseteq Executions \X Places
  /\ unit' \in Units /\ \A p \in Places : unit[p] = "committed" => unit'[p] = "committed"
  /\ circuit' \in Circuits /\ CallsAudited(audited', sent')

LEMMA FirstPlace == 1 \in Places
BY ProviderCallsAssumption DEF Places

LEMMA CallsTyped ==
  ASSUME CallsInv
  PROVE  /\ unit \in Units /\ circuit \in Circuits /\ execution \in [Executions -> ExecutionRows]
         /\ audited \subseteq Executions \X Places /\ sent \subseteq Executions \X Places
         /\ CallsAudited(audited, sent)
         /\ \A x \in Executions : execution[x] \in ExecutionRows /\ Place(x) \in Places
                                  /\ ExecutionSound(x, execution[x], audited, unit, sent)
BY DEF CallsInv, CallsTypeOK, Units, Circuits, ExecutionRows, Place

LEMMA ExecutionMoves ==
  ASSUME CallsInv, CallsGrow, NEW x \in Executions, NEW row \in ExecutionRows,
         execution' = [execution EXCEPT ![x] = row],
         ExecutionSound(x, row, audited', unit', sent'), UNCHANGED <<credential, rotation>>
  PROVE  CallsInv'
<1>1. execution \in [Executions -> ExecutionRows]
  BY CallsTyped
<1> HIDE DEF ExecutionRows
<1>2. execution' \in [Executions -> ExecutionRows] /\ execution'[x] = row
      /\ \A y \in Executions : y # x => execution'[y] = execution[y]
  BY <1>1
<1>3. CallsTypeOK'
  BY <1>2 DEF CallsInv, CallsTypeOK, CallsGrow, Units, Circuits, ExecutionRows
<1>4. ASSUME NEW y \in Executions
      PROVE  ExecutionSound(y, execution[y], audited', unit', sent')
  <2>1. ExecutionSound(y, execution[y], audited, unit, sent) /\ execution[y].provider \in Places
    BY CallsTyped DEF Place
  <2> QED
    BY <2>1 DEF ExecutionSound, CallsGrow
<1>5. \A y \in Executions : ExecutionSound(y, execution'[y], audited', unit', sent')
  BY <1>2, <1>4
<1>6. RotationsBehind'
  BY DEF CallsInv, RotationsBehind
<1> QED
  BY <1>3, <1>5, <1>6 DEF CallsInv, CallsGrow

\* The row of an execution that goes elsewhere, with its lease or without.
LEMMA Gone ==
  ASSUME CallsInv, NEW x \in Executions, NEW place \in ExecutionStates, Go(x, place)
  PROVE  \E row \in ExecutionRows :
           /\ execution' = [execution EXCEPT ![x] = row]
           /\ row.at = place /\ row.provider = Place(x) /\ row.lease = execution[x].lease
<1> DEFINE row == [execution[x] EXCEPT !.at = place]
<1>1. execution[x] \in ExecutionRows
  BY CallsTyped
<1>2. execution' = [execution EXCEPT ![x] = row]
  BY DEF Go
<1>3. row \in ExecutionRows /\ row.at = place /\ row.provider = Place(x)
      /\ row.lease = execution[x].lease
  BY <1>1 DEF ExecutionRows, Place
<1> HIDE DEF row
<1> QED
  BY <1>2, <1>3

LEMMA GoneRevoked ==
  ASSUME CallsInv, NEW x \in Executions, NEW place \in ExecutionStates, GoRevoked(x, place)
  PROVE  \E row \in ExecutionRows :
           /\ execution' = [execution EXCEPT ![x] = row]
           /\ row.at = place /\ row.provider = Place(x) /\ row.lease = "over"
<1> DEFINE row == [[execution[x] EXCEPT !.at = place] EXCEPT !.lease = "over"]
<1>1. execution \in [Executions -> ExecutionRows] /\ execution[x] \in ExecutionRows
  BY CallsTyped
<1>2. execution' = [execution EXCEPT ![x] = row]
  BY <1>1 DEF GoRevoked, ExecutionRows
<1>3. row \in ExecutionRows /\ row.at = place /\ row.provider = Place(x) /\ row.lease = "over"
  BY <1>1 DEF ExecutionRows, Place
<1> HIDE DEF row
<1> QED
  BY <1>2, <1>3

LEMMA CallsStay ==
  ASSUME CallsInv
  PROVE  /\ UNCHANGED <<audited, sent, unit>> /\ circuit' \in Circuits => CallsGrow
         /\ UNCHANGED <<audited, sent, unit, circuit>> => CallsGrow
         /\ UNCHANGED <<audited, sent>> /\ circuit' \in Circuits /\ unit' \in Units
            /\ (\A p \in Places : unit[p] = "committed" => unit'[p] = "committed") => CallsGrow
BY CallsTyped DEF CallsGrow

LEMMA PassGateKeeps == ASSUME CallsInv, NEW x \in Executions, PassGate(x) PROVE CallsInv'
<1> DEFINE p == Place(x)
           place == IF Remote(p) THEN "locate" ELSE "reserve"
<1>1. PICK row \in ExecutionRows :
        /\ execution' = [execution EXCEPT ![x] = row] /\ row.at = place /\ row.provider = p
        /\ row.lease = execution[x].lease
  BY Gone DEF PassGate, ExecutionStates
<1>2. circuit' \in Circuits
  <2> DEFINE c == [[circuit[p] EXCEPT !.state = IF @ = "OPEN" THEN "HALF_OPEN" ELSE @] EXCEPT
                     !.cooled = FALSE]
  <2>1. circuit \in Circuits /\ p \in Places
    BY CallsTyped
  <2>2. c \in [state : {"CLOSED", "OPEN", "HALF_OPEN"}, failures : 0..MaxFailures, cooled : BOOLEAN]
    BY <2>1 DEF Circuits
  <2>3. circuit' = [circuit EXCEPT ![p] = c]
    BY <2>1 DEF PassGate, Circuits
  <2> QED
    BY <2>1, <2>2, <2>3 DEF Circuits
<1>3. CallsGrow /\ UNCHANGED <<audited, unit, sent, credential, rotation>>
  BY <1>2, CallsStay DEF PassGate
<1>4. ExecutionSound(x, row, audited', unit', sent')
  <2>1. execution[x].lease # "held"
    BY CallsTyped DEF PassGate, In, ExecutionSound
  <2> QED
    BY <1>1, <2>1 DEF ExecutionSound
<1> QED
  BY <1>1, <1>3, <1>4, ExecutionMoves DEF PassGate

\* Steps that touch nothing but the execution's own row.
LEMMA OwnSteps ==
  ASSUME CallsInv, NEW x \in Executions,
         \/ SkipProvider(x) \/ FindLocator(x) \/ ResolveSecret(x) \/ RefuseCall(x)
         \/ ProviderAnswers(x) \/ FallBack(x) \/ LeaseExpires(x) \/ ExecutionDies(x)
  PROVE  CallsInv'
<1>1. UNCHANGED <<credential, audited, unit, circuit, sent, rotation>>
  BY DEF SkipProvider, FindLocator, ResolveSecret, RefuseCall, ProviderAnswers, FallBack,
         LeaseExpires, ExecutionDies
<1>2. CallsGrow
  BY <1>1, CallsStay
<1>3. /\ execution \in [Executions -> ExecutionRows] /\ execution[x] \in ExecutionRows
      /\ Place(x) \in Places /\ ExecutionSound(x, execution[x], audited, unit, sent)
  BY CallsTyped
<1>4. SUFFICES \E row \in ExecutionRows :
        execution' = [execution EXCEPT ![x] = row] /\ ExecutionSound(x, row, audited, unit, sent)
  BY <1>1, <1>2, ExecutionMoves
<1>5. CASE SkipProvider(x)
  <2>1. CASE execution[x].lease = "held"
    BY <1>5, <2>1, GoneRevoked DEF SkipProvider, ExecutionStates, ExecutionSound
  <2>2. CASE execution[x].lease # "held"
    BY <1>5, <2>2, Gone DEF SkipProvider, ExecutionStates, ExecutionSound
  <2> QED
    BY <2>1, <2>2
<1>6. CASE FindLocator(x)
  <2>1. PICK row \in ExecutionRows :
          /\ execution' = [execution EXCEPT ![x] = row]
          /\ row.at = "resolve" /\ row.lease = execution[x].lease
    BY <1>6, Gone DEF FindLocator, ExecutionStates
  <2> QED
    BY <1>3, <1>6, <2>1 DEF FindLocator, In, ExecutionSound
<1>7. CASE ResolveSecret(x)
  <2> DEFINE row == [[execution[x] EXCEPT !.at = "audit"] EXCEPT !.lease = "held"]
  <2>1. execution' = [execution EXCEPT ![x] = row]
    BY <1>3, <1>7 DEF ResolveSecret, ExecutionRows
  <2>2. row \in ExecutionRows /\ row.at = "audit" /\ row.lease = "held"
    BY <1>3 DEF ExecutionRows, ExecutionStates
  <2> QED
    BY <2>1, <2>2 DEF ExecutionSound
<1>8. CASE RefuseCall(x) \/ ExecutionDies(x)
  BY <1>8, GoneRevoked DEF RefuseCall, ExecutionDies, ExecutionStates, ExecutionSound
<1>9. CASE ProviderAnswers(x)
  <2>1. PICK place \in {"commit", "release"} : GoRevoked(x, place)
    BY <1>9 DEF ProviderAnswers
  <2>2. <<x, Place(x)>> \in sent
    BY <1>3, <1>9 DEF ProviderAnswers, In, ExecutionSound, Place
  <2>3. PICK row \in ExecutionRows :
          /\ execution' = [execution EXCEPT ![x] = row]
          /\ row.at = place /\ row.provider = Place(x) /\ row.lease = "over"
    BY <2>1, GoneRevoked DEF ExecutionStates
  <2> QED
    BY <2>2, <2>3 DEF ExecutionSound
<1>10. CASE FallBack(x)
  <2>1. CASE Go(x, "failed")
    <3>1. execution[x].lease # "held"
      BY <1>3, <1>10 DEF FallBack, In, ExecutionSound
    <3> QED
      BY <2>1, <3>1, Gone DEF ExecutionStates, ExecutionSound
  <2>2. CASE Place(x) < Providers
             /\ execution' = [execution EXCEPT ![x] =
                               [at |-> "gate", provider |-> Place(x) + 1, lease |-> "none"]]
    <3> DEFINE row == [at |-> "gate", provider |-> Place(x) + 1, lease |-> "none"]
    <3>1. row \in ExecutionRows
      BY <1>3, <2>2, ProviderCallsAssumption DEF ExecutionRows, ExecutionStates, Places
    <3> QED
      BY <2>2, <3>1 DEF ExecutionSound
  <2> QED
    BY <1>10, <2>1, <2>2 DEF FallBack
<1>11. CASE LeaseExpires(x)
  <2> DEFINE row == [execution[x] EXCEPT !.lease = "over"]
  <2>1. execution' = [execution EXCEPT ![x] = row]
    BY <1>11 DEF LeaseExpires
  <2>2. row \in ExecutionRows /\ row.at = execution[x].at /\ row.lease = "over"
        /\ row.provider = execution[x].provider
    BY <1>3 DEF ExecutionRows
  <2> HIDE DEF row
  <2> QED
    BY <1>3, <2>1, <2>2 DEF ExecutionSound
<1> QED
  BY <1>5, <1>6, <1>7, <1>8, <1>9, <1>10, <1>11

LEMMA AuditSteps ==
  ASSUME CallsInv, NEW x \in Executions, WriteAudit(x) \/ LoseAudit(x)
  PROVE  CallsInv'
<1>1. /\ UNCHANGED <<credential, unit, circuit, sent, rotation>>
      /\ audited' \in {audited, audited \cup {<<x, Place(x)>>}}
  BY DEF WriteAudit, LoseAudit
<1>2. CallsGrow
  BY <1>1, CallsTyped DEF CallsGrow, CallsAudited
<1>3. CASE WriteAudit(x)
  <2>1. Go(x, "reserve") /\ <<x, Place(x)>> \in audited'
    BY <1>3 DEF WriteAudit
  <2>2. PICK row \in ExecutionRows :
          execution' = [execution EXCEPT ![x] = row] /\ row.at = "reserve" /\ row.provider = Place(x)
    BY <2>1, Gone DEF ExecutionStates
  <2> QED
    BY <1>1, <1>2, <2>1, <2>2, ExecutionMoves DEF ExecutionSound
<1>4. CASE LoseAudit(x)
  <2>1. GoRevoked(x, "fallback")
    BY <1>4 DEF LoseAudit, AfterLostAudit
  <2>2. PICK row \in ExecutionRows :
          execution' = [execution EXCEPT ![x] = row] /\ row.at = "fallback" /\ row.lease = "over"
    BY <2>1, GoneRevoked DEF ExecutionStates
  <2> QED
    BY <1>1, <1>2, <2>2, ExecutionMoves DEF ExecutionSound
<1> QED
  BY <1>3, <1>4

LEMMA UnitSteps ==
  ASSUME CallsInv, NEW x \in Executions,
         ReserveUnit(x) \/ CommitUnit(x) \/ LoseCommit(x) \/ ReleaseUnit(x)
  PROVE  CallsInv'
<1> DEFINE p == Place(x)
<1>1. /\ unit \in Units /\ circuit \in Circuits /\ p \in Places
      /\ execution[x] \in ExecutionRows /\ p = execution[x].provider
      /\ ExecutionSound(x, execution[x], audited, unit, sent)
  BY CallsTyped DEF Place
<1>2. UNCHANGED <<credential, audited, sent, rotation>>
  BY DEF ReserveUnit, CommitUnit, LoseCommit, ReleaseUnit
<1>3. CASE ReserveUnit(x)
  <2>1. unit' \in Units /\ \A q \in Places : unit[q] = "committed" => unit'[q] = "committed"
    BY <1>1, <1>3 DEF ReserveUnit, Units
  <2>2. CallsGrow
    BY <1>1, <1>2, <1>3, <2>1, CallsStay DEF ReserveUnit
  <2>3. PICK row \in ExecutionRows :
          /\ execution' = [execution EXCEPT ![x] = row] /\ row.at = "call" /\ row.provider = p
    BY <1>3, Gone DEF ReserveUnit, ExecutionStates
  <2>4. ExecutionSound(x, row, audited', unit', sent')
    BY <1>1, <1>2, <1>3, <2>3 DEF ExecutionSound, ReserveUnit, In
  <2> QED
    BY <1>2, <2>2, <2>3, <2>4, ExecutionMoves
<1>4. CASE CommitUnit(x)
  <2>1. unit' \in Units /\ unit'[p] = "committed"
        /\ \A q \in Places : unit[q] = "committed" => unit'[q] = "committed"
    BY <1>1, <1>4 DEF CommitUnit, Units, Settleable
  <2>2. circuit' \in Circuits
    <3>1. [state |-> "CLOSED", failures |-> 0, cooled |-> FALSE] \in
            [state : {"CLOSED", "OPEN", "HALF_OPEN"}, failures : 0..MaxFailures, cooled : BOOLEAN]
      BY ProviderCallsAssumption
    <3> QED
      BY <1>1, <1>4, <3>1 DEF CommitUnit, Circuits
  <2>3. CallsGrow
    BY <1>2, <2>1, <2>2, CallsStay
  <2>4. PICK row \in ExecutionRows :
          /\ execution' = [execution EXCEPT ![x] = row] /\ row.at = "returned" /\ row.provider = p
          /\ row.lease = execution[x].lease
    BY <1>4, Gone DEF CommitUnit, ExecutionStates
  <2>5. ExecutionSound(x, row, audited', unit', sent')
    BY <1>1, <1>2, <1>4, <2>1, <2>4 DEF ExecutionSound, CommitUnit, In
  <2> QED
    BY <1>2, <2>3, <2>4, <2>5, ExecutionMoves
<1>5. CASE LoseCommit(x)
  <2>1. unit' \in Units /\ \A q \in Places : unit[q] = "committed" => unit'[q] = "committed"
    BY <1>1, <1>5 DEF LoseCommit, Units
  <2>2. CallsGrow
    BY <1>1, <1>2, <1>5, <2>1, CallsStay DEF LoseCommit
  <2>3. PICK row \in ExecutionRows :
          /\ execution' = [execution EXCEPT ![x] = row] /\ row.at = "release" /\ row.provider = p
          /\ row.lease = execution[x].lease
    BY <1>5, Gone DEF LoseCommit, ExecutionStates
  <2>4. ExecutionSound(x, row, audited', unit', sent')
    BY <1>1, <1>5, <2>3 DEF ExecutionSound, LoseCommit, In
  <2> QED
    BY <1>2, <2>2, <2>3, <2>4, ExecutionMoves
<1>6. CASE ReleaseUnit(x)
  <2>1. unit' \in Units /\ \A q \in Places : unit[q] = "committed" => unit'[q] = "committed"
    BY <1>1, <1>6 DEF ReleaseUnit, Units, ReleasableUnit
  <2>2. circuit' \in Circuits
    <3> DEFINE c == circuit[p]
               n == IF c.failures < MaxFailures THEN c.failures + 1 ELSE c.failures
    <3>1. PICK fatal \in BOOLEAN :
            circuit' = [circuit EXCEPT ![p] =
              IF fatal \/ n = MaxFailures \/ c.state = "HALF_OPEN"
              THEN [state |-> "OPEN", failures |-> n, cooled |-> FALSE]
              ELSE [c EXCEPT !.failures = n]]
      BY <1>6 DEF ReleaseUnit
    <3>2. c \in [state : {"CLOSED", "OPEN", "HALF_OPEN"}, failures : 0..MaxFailures, cooled : BOOLEAN]
      BY <1>1 DEF Circuits
    <3>3. n \in 0..MaxFailures
      BY <3>2, ProviderCallsAssumption
    <3> HIDE DEF c, n
    <3>4. /\ [state |-> "OPEN", failures |-> n, cooled |-> FALSE] \in
               [state : {"CLOSED", "OPEN", "HALF_OPEN"}, failures : 0..MaxFailures, cooled : BOOLEAN]
          /\ [c EXCEPT !.failures = n] \in
               [state : {"CLOSED", "OPEN", "HALF_OPEN"}, failures : 0..MaxFailures, cooled : BOOLEAN]
      BY <3>2, <3>3
    <3> QED
      BY <1>1, <3>1, <3>4 DEF Circuits
  <2>3. CallsGrow
    BY <1>2, <2>1, <2>2, CallsStay
  <2>4. PICK row \in ExecutionRows :
          /\ execution' = [execution EXCEPT ![x] = row] /\ row.at = "fallback" /\ row.provider = p
          /\ row.lease = execution[x].lease
    BY <1>6, Gone DEF ReleaseUnit, ExecutionStates
  <2>5. ExecutionSound(x, row, audited', unit', sent')
    BY <1>1, <1>6, <2>4 DEF ExecutionSound, ReleaseUnit, In
  <2> QED
    BY <1>2, <2>3, <2>4, <2>5, ExecutionMoves
<1> QED
  BY <1>3, <1>4, <1>5, <1>6

LEMMA CallProviderKeeps == ASSUME CallsInv, NEW x \in Executions, CallProvider(x) PROVE CallsInv'
<1> DEFINE p == Place(x)
<1>1. /\ p \in Places /\ p = execution[x].provider /\ CallsAudited(audited, sent)
      /\ ExecutionSound(x, execution[x], audited, unit, sent)
      /\ sent \subseteq Executions \X Places
  BY CallsTyped DEF Place
<1>2. /\ UNCHANGED <<credential, audited, unit, circuit, rotation>>
      /\ sent' = sent \cup {<<x, p>>} /\ Go(x, "called") /\ In(x, "call")
  BY DEF CallProvider
<1>3. Remote(p) => <<x, p>> \in audited
  BY <1>1, <1>2 DEF In, ExecutionSound
<1>4. CallsAudited(audited', sent')
  BY <1>1, <1>2, <1>3 DEF CallsAudited
<1>5. CallsGrow
  BY <1>1, <1>2, <1>4, CallsTyped DEF CallsGrow
<1>6. PICK row \in ExecutionRows :
        execution' = [execution EXCEPT ![x] = row] /\ row.at = "called" /\ row.provider = p
  BY <1>2, Gone DEF ExecutionStates
<1>7. ExecutionSound(x, row, audited', unit', sent')
  BY <1>2, <1>3, <1>6 DEF ExecutionSound
<1> QED
  BY <1>2, <1>5, <1>6, <1>7, ExecutionMoves

LEMMA CallStepKeeps == ASSUME CallsInv, NEW x \in Executions, CallStepOf(x) PROVE CallsInv'
BY PassGateKeeps, OwnSteps, AuditSteps, UnitSteps, CallProviderKeeps DEF CallStepOf

\* What moves neither an execution nor what one relies on.
LEMMA ElsewhereKeeps ==
  ASSUME CallsInv,
         \/ \E p \in Places : CircuitCools(p) \/ RevokeOrRestore(p)
         \/ \E r \in Rotators : ReadVersion(r) \/ Rotate(r)
  PROVE  CallsInv'
<1>1. UNCHANGED <<audited, unit, sent, execution>>
  BY DEF CircuitCools, RevokeOrRestore, ReadVersion, Rotate
<1> DEFINE Credentials == [valid : BOOLEAN, version : Nat \ {0}]
           RotationRows == [at : {"idle", "read", "rotated"}, version : Nat \ {0}]
<1>2. /\ circuit \in Circuits /\ credential \in [Places -> Credentials]
      /\ rotation \in [Rotators -> RotationRows] /\ RotationsBehind
  BY DEF CallsInv, CallsTypeOK, Circuits
<1>3. circuit' \in Circuits
  <2>1. CASE \E p \in Places : CircuitCools(p)
    <3>1. PICK p \in Places : CircuitCools(p)
      BY <2>1
    <3>2. circuit' = [circuit EXCEPT ![p] = [circuit[p] EXCEPT !.cooled = TRUE]]
      BY <3>1 DEF CircuitCools
    <3> QED
      BY <1>2, <3>2 DEF Circuits
  <2>2. CASE UNCHANGED circuit
    BY <1>2, <2>2
  <2> QED
    BY <2>1, <2>2 DEF RevokeOrRestore, ReadVersion, Rotate
<1>4. credential[1] \in Credentials /\ \A p \in Places : credential[p] \in Credentials
  BY <1>2, FirstPlace
<1>5. /\ credential' \in [Places -> Credentials] /\ rotation' \in [Rotators -> RotationRows]
      /\ RotationsBehind'
  <2>1. CASE \E p \in Places : CircuitCools(p)
    BY <1>2, <2>1 DEF CircuitCools, RotationsBehind
  <2>2. CASE \E p \in Places : RevokeOrRestore(p)
    <3>1. PICK p \in Places : RevokeOrRestore(p)
      BY <2>2
    <3> DEFINE c == [credential[p] EXCEPT !.valid = ~@]
    <3>2. c \in Credentials /\ c.version = credential[p].version
      BY <1>4
    <3>3. credential' = [credential EXCEPT ![p] = c] /\ rotation' = rotation
      BY <3>1 DEF RevokeOrRestore
    <3> HIDE DEF c, Credentials
    <3>4. credential' \in [Places -> Credentials] /\ credential'[1].version = credential[1].version
      BY <1>2, <3>2, <3>3, FirstPlace
    <3> QED
      BY <1>2, <3>3, <3>4 DEF RotationsBehind
  <2>3. CASE \E r \in Rotators : ReadVersion(r)
    <3>1. PICK r \in Rotators : ReadVersion(r)
      BY <2>3
    <3> DEFINE row == [at |-> "read", version |-> credential[1].version]
    <3>2. row \in RotationRows /\ row.at = "read" /\ row.version = credential[1].version
      BY <1>4
    <3>3. rotation' = [rotation EXCEPT ![r] = row] /\ credential' = credential
      BY <3>1 DEF ReadVersion
    <3> HIDE DEF row, RotationRows
    <3>4. /\ rotation' \in [Rotators -> RotationRows] /\ rotation'[r] = row
          /\ \A s \in Rotators : s # r => rotation'[s] = rotation[s]
      BY <1>2, <3>2, <3>3
    <3> QED
      BY <1>2, <1>4, <3>2, <3>3, <3>4 DEF RotationsBehind
  <2>4. CASE \E r \in Rotators : Rotate(r)
    <3>1. PICK r \in Rotators : Rotate(r)
      BY <2>4
    <3> DEFINE c == [credential[1] EXCEPT !.version = @ + 1]
               row == [rotation[r] EXCEPT !.at = "rotated"]
    <3>2. c \in Credentials /\ c.version = credential[1].version + 1
      BY <1>4
    <3>3. rotation[r] \in RotationRows
      BY <1>2
    <3>4. row \in RotationRows /\ row.at = "rotated" /\ row.version = credential[1].version
      BY <3>1, <3>3 DEF Rotate, Rotatable
    <3>5. credential' = [credential EXCEPT ![1] = c] /\ rotation' = [rotation EXCEPT ![r] = row]
      BY <3>1 DEF Rotate
    <3>6. \A s \in Rotators : rotation[s].version \in Nat
      BY <1>2
    <3>7. credential[1].version \in Nat
      BY <1>4
    <3> HIDE DEF c, row, Credentials, RotationRows
    <3>8. /\ credential' \in [Places -> Credentials]
          /\ credential'[1].version = credential[1].version + 1
          /\ rotation' \in [Rotators -> RotationRows] /\ rotation'[r] = row
          /\ \A s \in Rotators : s # r => rotation'[s] = rotation[s]
      BY <1>2, <3>2, <3>4, <3>5, FirstPlace
    <3>9. RotationsBehind'
      BY <1>2, <3>4, <3>6, <3>7, <3>8 DEF RotationsBehind
    <3> QED
      BY <3>8, <3>9
  <2> QED
    BY <2>1, <2>2, <2>3, <2>4
<1>6. CallsTypeOK'
  BY <1>1, <1>3, <1>5 DEF CallsInv, CallsTypeOK, Circuits
<1> QED
  BY <1>1, <1>5, <1>6 DEF CallsInv, CallsAudited, ExecutionSound

LEMMA InitCallsInv == CallsInit => CallsInv
<1> SUFFICES ASSUME CallsInit PROVE CallsInv
  OBVIOUS
<1>1. \A x \in Executions : execution[x].at = "gate" /\ execution[x].lease = "none"
  BY DEF CallsInit
<1>2. CallsTypeOK
  <2>1. [at |-> "gate", provider |-> 1, lease |-> "none"] \in ExecutionRows
    BY FirstPlace DEF ExecutionRows, ExecutionStates
  <2>2. execution \in [Executions -> ExecutionRows]
    BY <2>1 DEF CallsInit
  <2>3. circuit \in Circuits /\ unit \in Units
    BY ProviderCallsAssumption DEF CallsInit, Circuits, Units
  <2>4. /\ credential \in [Places -> [valid : BOOLEAN, version : Nat \ {0}]]
        /\ rotation \in [Rotators -> [at : {"idle", "read", "rotated"}, version : Nat \ {0}]]
    BY DEF CallsInit
  <2>5. audited \subseteq Executions \X Places /\ sent \subseteq Executions \X Places
    BY DEF CallsInit
  <2> QED
    BY <2>2, <2>3, <2>4, <2>5 DEF CallsTypeOK, ExecutionRows, Circuits, Units
<1>3. \A x \in Executions : ExecutionSound(x, execution[x], audited, unit, sent)
  BY <1>1 DEF ExecutionSound
<1>4. CallsAudited(audited, sent) /\ RotationsBehind
  BY DEF CallsInit, CallsAudited, RotationsBehind
<1> QED
  BY <1>2, <1>3, <1>4 DEF CallsInv

LEMMA CallsStep == CallsInv /\ [CallsNext]_callsVars => CallsInv'
<1> SUFFICES ASSUME CallsInv, [CallsNext]_callsVars PROVE CallsInv'
  OBVIOUS
<1>1. CASE UNCHANGED callsVars
  BY <1>1 DEF callsVars, CallsInv, CallsTypeOK, CallsAudited, RotationsBehind, ExecutionSound
<1>2. CASE CallsNext
  BY <1>2, CallStepKeeps, ElsewhereKeeps DEF CallsNext, RouterNext, RepositoryNext
<1> QED
  BY <1>1, <1>2

\* Every variable of the provider calls keeps its type.
THEOREM CallsTypes == CallsSpec => []CallsTypeOK
<1>1. CallsInv => CallsTypeOK
  BY DEF CallsInv
<1> QED
  BY <1>1, InitCallsInv, CallsStep, PTL DEF CallsSpec

\* A returned result is charged to the unit of the provider that gave it, no secret is sent
\* that was not audited before, nor held past its provider, and rotations of a credential
\* start from different versions.
THEOREM CallsAreAccounted == CallsSpec => []CallsAccounted
<1>1. CallsInv => CallsAccounted
  BY DEF CallsInv, CallsAccounted, ExecutionSound, CallsAudited, RotationsBehind, In, Place
<1> QED
  BY <1>1, InitCallsInv, CallsStep, PTL DEF CallsSpec

-----------------------------------------------------------------------------
(* Connections: a round belongs to the one callback that spent its state.  *)

\* Who has begun carries a round.
BegunCarriesRound == \A c \in Callbacks : cb[c] # "idle" => cbRound[c] \in Rounds

\* A callback that is about to write the account row has stored its secret.
WrittenIsStored == \A c \in Callbacks : cb[c] = "written" => cbRound[c] \in secrets

\* Only finished rounds are ever read from the account row.
LocatorFinished ==
  /\ accountStatus = "connected" <=> locator # NoRound
  /\ locator # NoRound => Finished(locator)
ReadIsFinished ==
  /\ \A v \in Revokers : rvSeen[v] # NoRound => Finished(rvSeen[v])
  /\ \A p \in Publishers : token[p] # "idle" => Finished(tokenOf[p])

\* The secret of a finished round is there until a revocation of it has passed its cleanup.
FinishedIsStored ==
  \A r \in Rounds : Finished(r) =>
    r \in secrets \/ \E v \in Revokers : rvSeen[v] = r /\ rv[v] \in {"cleaned", "done"}

\* What a revocation has done stays done.
NotRevokedYet == {"idle", "read", "unreadable", "readable", "unread"}
RevokedStaysRevoked ==
  \A v \in Revokers :
    /\ rv[v] \in NotRevokedYet => ~rvRevoked[v]
    /\ rvRevoked[v] /\ service # "irrevocable" /\ rvSeen[v] # NoRound => rvSeen[v] \notin grants
CleanStaysClean ==
  \A v \in Revokers :
    rv[v] \in {"cleaned", "done"} /\ rvSeen[v] # NoRound /\ rvClean[v] => rvSeen[v] \notin secrets

\* Where a grant cannot be revoked, that of a round that was exchanged stays.
Exchanged == {"exchanged", "identified", "written", "ok"}
GrantStays ==
  service = "irrevocable" => \A c \in Callbacks : cb[c] \in Exchanged => cbRound[c] \in grants

\* No cleanup is called failed before it was tried.
CleanUntilTried == \A v \in Revokers : rv[v] \notin {"cleaned", "done"} => rvClean[v]

ConnectionsIInv ==
  /\ ConnectionsTypeOK /\ BegunCarriesRound /\ StateSpentOnce /\ WrittenIsStored
  /\ LocatorFinished /\ ReadIsFinished /\ FinishedIsStored
  /\ RevokedStaysRevoked /\ CleanStaysClean /\ GrantStays /\ CleanUntilTried

-----------------------------------------------------------------------------
(* What each kind of step leaves alone.                                    *)

LEMMA CallbackFrame ==
  ASSUME NEW c \in Callbacks, CallbackStep(c)
  PROVE  UNCHANGED <<service, expired, revokeVars, tokenVars>>
  BY DEF CallbackStep, FindState, ClaimState, ExchangeCode, VerifyIdentity, WriteSecret,
         UpsertAccount, CallbackDies, stateRows, accountRow, outside, callbackVars, revokeVars,
         tokenVars

LEMMA RevokeFrame ==
  ASSUME NEW v \in Revokers, RevokeStep(v)
  PROVE  UNCHANGED <<service, stateRows, callbackVars, tokenVars>>
  BY DEF RevokeStep, ReadAccount, ReadSecret, MarkUnreadable, RevokeGrant, SkipRevocation,
         RecordRefusal, DeleteSecret, FinishRevoke, stateRows, accountRow, outside,
         callbackVars, revokeVars, tokenVars

LEMMA TokenFrame ==
  ASSUME NEW p \in Publishers, TokenStep(p)
  PROVE  UNCHANGED <<service, stateRows, accountRow, outside, callbackVars, revokeVars>>
  BY DEF TokenStep, ReadConnection, ResolveToken, DropToken, stateRows, accountRow, outside,
         callbackVars, revokeVars, tokenVars

LEMMA RoundFrame ==
  ASSUME NEW r \in Rounds, StartRound(r) \/ StateExpires(r)
  PROVE  UNCHANGED <<service, accountRow, outside, callbackVars, revokeVars, tokenVars>>
  BY DEF StartRound, StateExpires

-----------------------------------------------------------------------------
(* Types.                                                                  *)

LEMMA TypeInit == ConnectionsInit => ConnectionsTypeOK
  BY ConnectionsAssumption
  DEF ConnectionsInit, ConnectionsTypeOK, CallbackPlaces, RevokePlaces

LEMMA TypeRound ==
  ASSUME ConnectionsTypeOK, NEW r \in Rounds, StartRound(r) \/ StateExpires(r)
  PROVE  ConnectionsTypeOK'
  BY DEF ConnectionsTypeOK, StartRound, StateExpires, Swept, stateRows, accountRow, outside,
         callbackVars, revokeVars, tokenVars

LEMMA TypeToken ==
  ASSUME ConnectionsTypeOK, NEW p \in Publishers, TokenStep(p)
  PROVE  ConnectionsTypeOK'
  BY DEF ConnectionsTypeOK, TokenStep, ReadConnection, ResolveToken, DropToken, stateRows,
         accountRow, outside, callbackVars, revokeVars, tokenVars

LEMMA TypeCallback ==
  ASSUME ConnectionsTypeOK, BegunCarriesRound, NEW c \in Callbacks, CallbackStep(c)
  PROVE  ConnectionsTypeOK'
<1> USE DEF ConnectionsTypeOK, stateRows, accountRow, outside, callbackVars, revokeVars,
            tokenVars, CallbackPlaces
<1>1. ASSUME NEW r \in Rounds, FindState(c, r) PROVE ConnectionsTypeOK'
  BY <1>1 DEF FindState, MoveCallback
<1>2. CASE ClaimState(c)
  BY <1>2 DEF ClaimState, ClaimableState, MoveCallback, BegunCarriesRound
<1>3. CASE ExchangeCode(c)
  BY <1>3 DEF ExchangeCode, Called, MoveCallback, BegunCarriesRound
<1>4. CASE VerifyIdentity(c)
  BY <1>4 DEF VerifyIdentity, IdentityVerdicts, MoveCallback
<1>5. CASE WriteSecret(c)
  BY <1>5 DEF WriteSecret, Called, MoveCallback, BegunCarriesRound
<1>6. CASE UpsertAccount(c)
  BY <1>6 DEF UpsertAccount, MoveCallback, BegunCarriesRound
<1>7. CASE CallbackDies(c)
  BY <1>7 DEF CallbackDies, MoveCallback
<1> QED
  BY <1>1, <1>2, <1>3, <1>4, <1>5, <1>6, <1>7 DEF CallbackStep

LEMMA TypeRevoke ==
  ASSUME ConnectionsTypeOK, NEW v \in Revokers, RevokeStep(v)
  PROVE  ConnectionsTypeOK'
<1> USE DEF ConnectionsTypeOK, stateRows, accountRow, outside, callbackVars, revokeVars,
            tokenVars, RevokePlaces, MoveRevoke
<1>1. CASE ReadAccount(v)
  BY <1>1 DEF ReadAccount
<1>2. CASE ReadSecret(v)
  BY <1>2 DEF ReadSecret
<1>3. CASE MarkUnreadable(v)
  BY <1>3 DEF MarkUnreadable, MarkDisconnected
<1>4. CASE RevokeGrant(v)
  BY <1>4 DEF RevokeGrant, Called
<1>5. CASE SkipRevocation(v)
  BY <1>5 DEF SkipRevocation
<1>6. CASE RecordRefusal(v)
  BY <1>6 DEF RecordRefusal, AfterRefusal
<1>7. CASE DeleteSecret(v)
  BY <1>7 DEF DeleteSecret, CleanUp
<1>8. CASE FinishRevoke(v)
  BY <1>8 DEF FinishRevoke, MarkDisconnected
<1> QED
  BY <1>1, <1>2, <1>3, <1>4, <1>5, <1>6, <1>7, <1>8 DEF RevokeStep

LEMMA ConnectionsTypeStep ==
  ASSUME ConnectionsTypeOK, BegunCarriesRound, [ConnectionsNext]_connectionsVars
  PROVE  ConnectionsTypeOK'
<1>1. CASE UNCHANGED connectionsVars
  BY <1>1 DEF connectionsVars, ConnectionsTypeOK, stateRows, accountRow, outside, callbackVars,
             revokeVars, tokenVars
<1>2. CASE ConnectionsNext
  BY <1>2, TypeRound, TypeCallback, TypeRevoke, TypeToken DEF ConnectionsNext
<1> QED
  BY <1>1, <1>2

-----------------------------------------------------------------------------
(* Each state is spent by one callback.                                    *)

LEMMA BegunStep ==
  ASSUME ConnectionsTypeOK, BegunCarriesRound, [ConnectionsNext]_connectionsVars
  PROVE  BegunCarriesRound'
<1> USE DEF BegunCarriesRound
<1>1. ASSUME NEW c \in Callbacks, CallbackStep(c) PROVE BegunCarriesRound'
  BY <1>1 DEF CallbackStep, FindState, ClaimState, ExchangeCode, VerifyIdentity, WriteSecret,
         UpsertAccount, CallbackDies, MoveCallback, Called, ConnectionsTypeOK, IdentityVerdicts
<1>2. CASE UNCHANGED callbackVars
  BY <1>2 DEF callbackVars
<1> QED
  BY <1>1, <1>2, RevokeFrame, TokenFrame, RoundFrame DEF ConnectionsNext, connectionsVars

LEMMA StateSpentStep ==
  ASSUME ConnectionsTypeOK, BegunCarriesRound, StateSpentOnce, [ConnectionsNext]_connectionsVars
  PROVE  StateSpentOnce'
<1> USE DEF StateSpentOnce, Beyond, ConnectionsTypeOK
<1>1. ASSUME NEW c \in Callbacks, CallbackStep(c) PROVE StateSpentOnce'
  <2>1. ASSUME NEW r \in Rounds, FindState(c, r) PROVE StateSpentOnce'
    BY <2>1 DEF FindState, MoveCallback, stateRows
  <2>2. CASE ClaimState(c)
    BY <2>2 DEF ClaimState, ClaimableState, MoveCallback, BegunCarriesRound
  <2>3. CASE ExchangeCode(c) \/ VerifyIdentity(c) \/ WriteSecret(c) \/ UpsertAccount(c)
             \/ CallbackDies(c)
    <3>1. UNCHANGED <<states, cbRound>>
      BY <2>3 DEF ExchangeCode, VerifyIdentity, WriteSecret, UpsertAccount, CallbackDies, stateRows
    <3>2. /\ \A d \in Callbacks : d # c => cb'[d] = cb[d]
          /\ Beyond(c)' => Beyond(c)
      BY <2>3 DEF ExchangeCode, VerifyIdentity, WriteSecret, UpsertAccount, CallbackDies,
                  MoveCallback, Called, IdentityVerdicts
    <3> QED
      BY <3>1, <3>2
  <2> QED
    BY <1>1, <2>1, <2>2, <2>3 DEF CallbackStep
<1>2. ASSUME NEW r \in Rounds, StartRound(r) PROVE StateSpentOnce'
  BY <1>2 DEF StartRound, Swept, callbackVars, BegunCarriesRound
<1>3. CASE UNCHANGED <<states, callbackVars>>
  BY <1>3 DEF callbackVars
<1>4. ASSUME NEW r \in Rounds, StateExpires(r) PROVE UNCHANGED <<states, callbackVars>>
  BY <1>4 DEF StateExpires
<1> QED
  BY <1>1, <1>2, <1>3, <1>4, RevokeFrame, TokenFrame
  DEF ConnectionsNext, connectionsVars, stateRows

\* A round that has finished has no other callback on its way.
LEMMA FinishedHasNoOther ==
  ASSUME StateSpentOnce, NEW c \in Callbacks, Finished(cbRound[c])
  PROVE  cb[c] \notin {"claimed", "exchanged", "identified", "written"}
  BY DEF StateSpentOnce, Beyond, Finished

\* Finished rounds stay so.
LEMMA FinishedStays ==
  ASSUME ConnectionsTypeOK, [ConnectionsNext]_connectionsVars, NEW r, Finished(r)
  PROVE  Finished(r)'
<1> PICK d \in Callbacks : cb[d] = "ok" /\ cbRound[d] = r
  BY DEF Finished
<1> SUFFICES cb'[d] = "ok" /\ cbRound'[d] = r
  BY DEF Finished
<1>1. ASSUME NEW c \in Callbacks, CallbackStep(c) PROVE cb'[d] = "ok" /\ cbRound'[d] = r
  BY <1>1 DEF CallbackStep, FindState, ClaimState, ExchangeCode, VerifyIdentity, WriteSecret,
         UpsertAccount, CallbackDies, MoveCallback, Called, ConnectionsTypeOK
<1>2. CASE UNCHANGED callbackVars
  BY <1>2 DEF callbackVars
<1> QED
  BY <1>1, <1>2, RevokeFrame, TokenFrame, RoundFrame DEF ConnectionsNext, connectionsVars

\* Only the account row's new locator makes a round finished.
LEMMA NewlyFinished ==
  ASSUME ConnectionsTypeOK, NEW c \in Callbacks, CallbackStep(c), NEW r, Finished(r)', ~Finished(r)
  PROVE  cb[c] = "written" /\ cbRound[c] = r /\ UNCHANGED outside
<1>1. CASE UpsertAccount(c)
  BY <1>1 DEF UpsertAccount, MoveCallback, Finished, ConnectionsTypeOK
<1>2. CASE ~UpsertAccount(c)
  BY <1>2 DEF CallbackStep, FindState, ClaimState, ExchangeCode, VerifyIdentity, WriteSecret,
         CallbackDies, MoveCallback, Called, IdentityVerdicts, Finished, ConnectionsTypeOK
<1> QED
  BY <1>1, <1>2

-----------------------------------------------------------------------------
(* What a finished round is backed by.                                     *)

LEMMA WrittenStep ==
  ASSUME ConnectionsIInv, [ConnectionsNext]_connectionsVars
  PROVE  WrittenIsStored'
<1> USE DEF ConnectionsIInv, WrittenIsStored, ConnectionsTypeOK
<1>1. ASSUME NEW c \in Callbacks, CallbackStep(c) PROVE WrittenIsStored'
  <2>1. secrets \subseteq secrets'
    BY <1>1 DEF CallbackStep, FindState, ClaimState, ExchangeCode, VerifyIdentity, WriteSecret,
           UpsertAccount, CallbackDies, outside, Called
  <2>2. \A d \in Callbacks : d # c => cb'[d] = cb[d] /\ cbRound'[d] = cbRound[d]
    BY <1>1 DEF CallbackStep, FindState, ClaimState, ExchangeCode, VerifyIdentity, WriteSecret,
           UpsertAccount, CallbackDies, MoveCallback, Called
  <2>3. cb'[c] = "written" => cbRound'[c] \in secrets'
    BY <1>1 DEF CallbackStep, FindState, ClaimState, ExchangeCode, VerifyIdentity, WriteSecret,
           UpsertAccount, CallbackDies, MoveCallback, Called, IdentityVerdicts
  <2> QED
    BY <2>1, <2>2, <2>3
<1>2. ASSUME NEW v \in Revokers, RevokeStep(v) PROVE WrittenIsStored'
  <2>1. CASE DeleteSecret(v)
    <3>1. \A r \in secrets : r # rvSeen[v] => r \in secrets'
      BY <2>1 DEF DeleteSecret
    <3>2. \A c \in Callbacks : cb[c] = "written" => cbRound[c] # rvSeen[v]
      BY FinishedHasNoOther, ConnectionsAssumption DEF ReadIsFinished, BegunCarriesRound
    <3> QED
      BY <1>2, <3>1, <3>2, RevokeFrame DEF callbackVars
  <2>2. CASE ~DeleteSecret(v)
    BY <1>2, <2>2, RevokeFrame
    DEF RevokeStep, ReadAccount, ReadSecret, MarkUnreadable, RevokeGrant, SkipRevocation,
        RecordRefusal, FinishRevoke, outside, callbackVars
  <2> QED
    BY <2>1, <2>2
<1>3. CASE UNCHANGED <<outside, callbackVars>>
  BY <1>3 DEF outside, callbackVars
<1> QED
  BY <1>1, <1>2, <1>3, TokenFrame, RoundFrame DEF ConnectionsNext, connectionsVars

LEMMA LocatorStep ==
  ASSUME ConnectionsIInv, [ConnectionsNext]_connectionsVars
  PROVE  LocatorFinished'
<1>1. \/ UNCHANGED <<accountStatus, locator>>
      \/ accountStatus' = "disconnected" /\ locator' = NoRound
      \/ \E c \in Callbacks : UpsertAccount(c)
  <2>1. ASSUME NEW c \in Callbacks, CallbackStep(c), ~UpsertAccount(c)
        PROVE  UNCHANGED <<accountStatus, locator>>
    BY <2>1 DEF CallbackStep, FindState, ClaimState, ExchangeCode, VerifyIdentity, WriteSecret,
           CallbackDies, accountRow
  <2>2. ASSUME NEW v \in Revokers, RevokeStep(v)
        PROVE  \/ UNCHANGED <<accountStatus, locator>>
               \/ accountStatus' = "disconnected" /\ locator' = NoRound
    BY <2>2 DEF RevokeStep, ReadAccount, ReadSecret, MarkUnreadable, RevokeGrant, SkipRevocation,
           RecordRefusal, DeleteSecret, FinishRevoke, accountRow, MarkDisconnected, AfterRefusal
  <2> QED
    BY <2>1, <2>2, TokenFrame, RoundFrame DEF ConnectionsNext, connectionsVars, accountRow
<1>2. CASE UNCHANGED <<accountStatus, locator>>
  BY <1>2, FinishedStays DEF LocatorFinished, ConnectionsIInv
<1>3. CASE accountStatus' = "disconnected" /\ locator' = NoRound
  BY <1>3 DEF LocatorFinished
<1>4. ASSUME NEW c \in Callbacks, UpsertAccount(c) PROVE LocatorFinished'
  <2>1. cb'[c] = "ok" /\ cbRound'[c] = cbRound[c] /\ locator' = cbRound[c]
    BY <1>4 DEF UpsertAccount, MoveCallback, ConnectionsIInv, ConnectionsTypeOK
  <2>2. accountStatus' = "connected" /\ locator' # NoRound
    BY <1>4, ConnectionsAssumption DEF UpsertAccount, ConnectionsIInv, BegunCarriesRound
  <2> QED
    BY <2>1, <2>2 DEF LocatorFinished, Finished
<1> QED
  BY <1>1, <1>2, <1>3, <1>4

LEMMA ReadStep ==
  ASSUME ConnectionsIInv, [ConnectionsNext]_connectionsVars
  PROVE  ReadIsFinished'
<1>1. \A v \in Revokers : rvSeen'[v] # NoRound => rvSeen'[v] \in {rvSeen[v], locator}
  <2>1. ASSUME NEW v \in Revokers, RevokeStep(v)
        PROVE  \A w \in Revokers : rvSeen'[w] \in {rvSeen[w], locator}
    BY <2>1 DEF RevokeStep, ReadAccount, ReadSecret, MarkUnreadable, RevokeGrant, SkipRevocation,
           RecordRefusal, DeleteSecret, FinishRevoke, ConnectionsIInv, ConnectionsTypeOK
  <2> QED
    BY <2>1, CallbackFrame, TokenFrame, RoundFrame DEF ConnectionsNext, connectionsVars, revokeVars
<1>2. \A p \in Publishers : token'[p] # "idle" =>
        \/ token[p] # "idle" /\ tokenOf'[p] = tokenOf[p]
        \/ locator # NoRound /\ tokenOf'[p] = locator
  <2>1. ASSUME NEW p \in Publishers, TokenStep(p), NEW q \in Publishers, token'[q] # "idle"
        PROVE  \/ token[q] # "idle" /\ tokenOf'[q] = tokenOf[q]
               \/ locator # NoRound /\ tokenOf'[q] = locator
    BY <2>1 DEF TokenStep, ReadConnection, ResolveToken, DropToken, Usable, ConnectionsIInv,
           ConnectionsTypeOK
  <2> QED
    BY <2>1, CallbackFrame, RevokeFrame, RoundFrame
    DEF ConnectionsNext, connectionsVars, tokenVars
<1> QED
  BY <1>1, <1>2, FinishedStays DEF ReadIsFinished, LocatorFinished, ConnectionsIInv

LEMMA StoredStep ==
  ASSUME ConnectionsIInv, [ConnectionsNext]_connectionsVars
  PROVE  FinishedIsStored'
<1> SUFFICES ASSUME NEW r \in Rounds, Finished(r)'
             PROVE  \/ r \in secrets'
                    \/ \E v \in Revokers : rvSeen'[v] = r /\ rv'[v] \in {"cleaned", "done"}
  BY DEF FinishedIsStored
<1> DEFINE Cleaned(v) == rvSeen[v] = r /\ rv[v] \in {"cleaned", "done"}
<1>1. ASSUME NEW v \in Revokers, Cleaned(v) PROVE Cleaned(v)'
  <2>1. ASSUME NEW w \in Revokers, RevokeStep(w) PROVE Cleaned(v)'
    <3>1. CASE ReadAccount(w)
      BY <1>1, <3>1 DEF ReadAccount, MoveRevoke, ConnectionsIInv, ConnectionsTypeOK
    <3>2. CASE ~ReadAccount(w)
      <4>1. UNCHANGED rvSeen
        BY <2>1, <3>2 DEF RevokeStep, ReadSecret, MarkUnreadable, RevokeGrant, SkipRevocation,
               RecordRefusal, DeleteSecret, FinishRevoke
      <4>2. rv'[v] \in {"cleaned", "done"}
        BY <1>1, <2>1, <3>2 DEF RevokeStep, ReadSecret, MarkUnreadable, RevokeGrant,
               SkipRevocation, RecordRefusal, DeleteSecret, FinishRevoke, MoveRevoke, Called,
               ConnectionsIInv, ConnectionsTypeOK
      <4> QED
        BY <1>1, <4>1, <4>2
    <3> QED
      BY <3>1, <3>2
  <2> QED
    BY <1>1, <2>1, CallbackFrame, TokenFrame, RoundFrame
    DEF ConnectionsNext, connectionsVars, revokeVars
<1>2. CASE ~Finished(r)
  <2>1. PICK c \in Callbacks : CallbackStep(c)
    BY <1>2, RevokeFrame, TokenFrame, RoundFrame
    DEF ConnectionsNext, connectionsVars, callbackVars, Finished
  <2>2. cb[c] = "written" /\ cbRound[c] = r /\ UNCHANGED outside
    BY <1>2, <2>1, NewlyFinished DEF ConnectionsIInv
  <2> QED
    BY <2>2 DEF ConnectionsIInv, WrittenIsStored, outside
<1>3. CASE Finished(r) /\ r \in secrets
  <2>1. ASSUME NEW v \in Revokers, RevokeStep(v), r \notin secrets' PROVE Cleaned(v)'
    BY <1>3, <2>1 DEF RevokeStep, ReadAccount, ReadSecret, MarkUnreadable, RevokeGrant,
           SkipRevocation, RecordRefusal, DeleteSecret, FinishRevoke, MoveRevoke, outside,
           ConnectionsIInv, ConnectionsTypeOK
  <2>2. ASSUME NEW c \in Callbacks, CallbackStep(c) PROVE r \in secrets'
    BY <1>3, <2>2 DEF CallbackStep, FindState, ClaimState, ExchangeCode, VerifyIdentity,
           WriteSecret, UpsertAccount, CallbackDies, outside, Called
  <2> QED
    BY <1>3, <2>1, <2>2, TokenFrame, RoundFrame DEF ConnectionsNext, connectionsVars, outside
<1>4. CASE Finished(r) /\ r \notin secrets
  BY <1>1, <1>4 DEF FinishedIsStored, ConnectionsIInv
<1> QED
  BY <1>2, <1>3, <1>4

-----------------------------------------------------------------------------
(* What a revocation has done.                                             *)

LEMMA RevokedStep ==
  ASSUME ConnectionsIInv, [ConnectionsNext]_connectionsVars
  PROVE  RevokedStaysRevoked'
<1> USE DEF RevokedStaysRevoked, NotRevokedYet, ConnectionsIInv, ConnectionsTypeOK
<1>1. ASSUME NEW c \in Callbacks, CallbackStep(c) PROVE RevokedStaysRevoked'
  <2>1. grants' \subseteq grants \/ (cb[c] = "claimed" /\ grants' = grants \cup {cbRound[c]})
    BY <1>1 DEF CallbackStep, FindState, ClaimState, ExchangeCode, VerifyIdentity, WriteSecret,
           UpsertAccount, CallbackDies, outside, Called
  <2>2. \A v \in Revokers : rvSeen[v] # NoRound /\ cb[c] = "claimed" => rvSeen[v] # cbRound[c]
    BY FinishedHasNoOther DEF ReadIsFinished
  <2> QED
    BY <1>1, <2>1, <2>2, CallbackFrame DEF revokeVars
<1>2. ASSUME NEW v \in Revokers, RevokeStep(v) PROVE RevokedStaysRevoked'
  <2>1. CASE ReadAccount(v)
    BY <2>1 DEF ReadAccount, MoveRevoke, outside
  <2>2. CASE RevokeGrant(v)
    BY <2>2 DEF RevokeGrant, Called, MoveRevoke
  <2>3. CASE SkipRevocation(v)
    BY <2>3 DEF SkipRevocation, MoveRevoke, outside
  <2>4. CASE ~ReadAccount(v) /\ ~RevokeGrant(v) /\ ~SkipRevocation(v)
    <3>1. UNCHANGED <<service, grants, rvSeen, rvRevoked>>
      BY <1>2, <2>4 DEF RevokeStep, ReadSecret, MarkUnreadable, RecordRefusal, DeleteSecret,
             FinishRevoke, outside
    <3>2. \A w \in Revokers : rv'[w] \in NotRevokedYet => rv[w] \in NotRevokedYet
      BY <1>2, <2>4 DEF RevokeStep, ReadSecret, MarkUnreadable, RecordRefusal, DeleteSecret,
             FinishRevoke, MoveRevoke
    <3> QED
      BY <3>1, <3>2
  <2> QED
    BY <2>1, <2>2, <2>3, <2>4
<1>3. CASE UNCHANGED <<service, outside, revokeVars>>
  BY <1>3 DEF outside, revokeVars
<1> QED
  BY <1>1, <1>2, <1>3, TokenFrame, RoundFrame DEF ConnectionsNext, connectionsVars

LEMMA CleanStep ==
  ASSUME ConnectionsIInv, [ConnectionsNext]_connectionsVars
  PROVE  CleanStaysClean'
<1> USE DEF CleanStaysClean, ConnectionsIInv, ConnectionsTypeOK
<1>1. ASSUME NEW c \in Callbacks, CallbackStep(c) PROVE CleanStaysClean'
  <2>1. secrets' \subseteq secrets
        \/ (cb[c] = "identified" /\ secrets' = secrets \cup {cbRound[c]})
    BY <1>1 DEF CallbackStep, FindState, ClaimState, ExchangeCode, VerifyIdentity, WriteSecret,
           UpsertAccount, CallbackDies, outside, Called
  <2>2. \A v \in Revokers : rvSeen[v] # NoRound /\ cb[c] = "identified" => rvSeen[v] # cbRound[c]
    BY FinishedHasNoOther DEF ReadIsFinished
  <2> QED
    BY <1>1, <2>1, <2>2, CallbackFrame DEF revokeVars
<1>2. ASSUME NEW v \in Revokers, RevokeStep(v) PROVE CleanStaysClean'
  <2>1. CASE ReadAccount(v)
    BY <2>1 DEF ReadAccount, MoveRevoke, outside, LocatorFinished
  <2>2. CASE MarkUnreadable(v)
    BY <2>2 DEF MarkUnreadable, MoveRevoke, outside
  <2>3. CASE DeleteSecret(v)
    BY <2>3 DEF DeleteSecret, MoveRevoke, CleanUp
  <2>4. CASE FinishRevoke(v)
    BY <2>4 DEF FinishRevoke, MoveRevoke, outside
  <2>5. CASE ReadSecret(v) \/ RevokeGrant(v) \/ SkipRevocation(v) \/ RecordRefusal(v)
    <3>1. UNCHANGED <<secrets, rvSeen, rvClean>>
      BY <2>5 DEF ReadSecret, RevokeGrant, SkipRevocation, RecordRefusal, outside
    <3>2. \A w \in Revokers : rv'[w] \in {"cleaned", "done"} => rv[w] = rv'[w]
      BY <2>5 DEF ReadSecret, RevokeGrant, SkipRevocation, RecordRefusal, MoveRevoke, Called
    <3> QED
      BY <3>1, <3>2
  <2> QED
    BY <1>2, <2>1, <2>2, <2>3, <2>4, <2>5 DEF RevokeStep
<1>3. CASE UNCHANGED <<outside, revokeVars>>
  BY <1>3 DEF outside, revokeVars
<1> QED
  BY <1>1, <1>2, <1>3, TokenFrame, RoundFrame DEF ConnectionsNext, connectionsVars

LEMMA GrantStep ==
  ASSUME ConnectionsIInv, [ConnectionsNext]_connectionsVars
  PROVE  GrantStays'
<1> USE DEF GrantStays, Exchanged, ConnectionsIInv, ConnectionsTypeOK
<1>1. ASSUME NEW c \in Callbacks, CallbackStep(c) PROVE GrantStays'
  <2>1. CASE ExchangeCode(c)
    BY <2>1 DEF ExchangeCode, Called, MoveCallback
  <2>2. CASE ~ExchangeCode(c)
    <3>1. UNCHANGED <<service, grants>>
      BY <1>1, <2>2 DEF CallbackStep, FindState, ClaimState, VerifyIdentity, WriteSecret,
             UpsertAccount, CallbackDies, outside
    <3>2. \A d \in Callbacks : cb'[d] \in Exchanged =>
            cb[d] \in Exchanged /\ cbRound'[d] = cbRound[d]
      <4>1. ASSUME NEW r \in Rounds, FindState(c, r)
            PROVE  cb' = [cb EXCEPT ![c] = "found"] /\ cbRound' = [cbRound EXCEPT ![c] = r]
        BY <4>1 DEF FindState, MoveCallback
      <4>2. CASE ClaimState(c)
        BY <4>2 DEF ClaimState, MoveCallback
      <4>3. CASE VerifyIdentity(c)
        BY <4>3 DEF VerifyIdentity, MoveCallback, IdentityVerdicts
      <4>4. CASE WriteSecret(c)
        BY <4>4 DEF WriteSecret, MoveCallback, Called
      <4>5. CASE UpsertAccount(c) \/ CallbackDies(c)
        BY <4>5 DEF UpsertAccount, CallbackDies, MoveCallback
      <4> QED
        BY <1>1, <2>2, <4>1, <4>2, <4>3, <4>4, <4>5 DEF CallbackStep
    <3> QED
      BY <3>1, <3>2
  <2> QED
    BY <2>1, <2>2
<1>2. ASSUME NEW v \in Revokers, RevokeStep(v) PROVE GrantStays'
  <2>1. service # "irrevocable" \/ UNCHANGED grants
    BY <1>2 DEF RevokeStep, ReadAccount, ReadSecret, MarkUnreadable, RevokeGrant, SkipRevocation,
           RecordRefusal, DeleteSecret, FinishRevoke, outside
  <2> QED
    BY <1>2, <2>1, RevokeFrame DEF callbackVars
<1>3. CASE UNCHANGED <<service, outside, callbackVars>>
  BY <1>3 DEF outside, callbackVars
<1> QED
  BY <1>1, <1>2, <1>3, TokenFrame, RoundFrame DEF ConnectionsNext, connectionsVars

LEMMA TriedStep ==
  ASSUME ConnectionsIInv, [ConnectionsNext]_connectionsVars
  PROVE  CleanUntilTried'
<1> USE DEF CleanUntilTried, ConnectionsIInv, ConnectionsTypeOK
<1>1. ASSUME NEW v \in Revokers, RevokeStep(v) PROVE CleanUntilTried'
  <2>1. CASE DeleteSecret(v)
    BY <2>1 DEF DeleteSecret, MoveRevoke, CleanUp
  <2>2. CASE ~DeleteSecret(v)
    BY <1>1, <2>2 DEF RevokeStep, ReadAccount, ReadSecret, MarkUnreadable, RevokeGrant,
           SkipRevocation, RecordRefusal, FinishRevoke, MoveRevoke, Called
  <2> QED
    BY <2>1, <2>2
<1>2. CASE UNCHANGED revokeVars
  BY <1>2 DEF revokeVars
<1> QED
  BY <1>1, <1>2, CallbackFrame, TokenFrame, RoundFrame DEF ConnectionsNext, connectionsVars

-----------------------------------------------------------------------------
(* The invariant, and what follows from it.                                *)

LEMMA ConnectionsIInvInit == ConnectionsInit => ConnectionsIInv
  BY TypeInit
  DEF ConnectionsInit, ConnectionsIInv, BegunCarriesRound, StateSpentOnce, Beyond,
      WrittenIsStored, LocatorFinished, ReadIsFinished, FinishedIsStored, Finished,
      RevokedStaysRevoked, NotRevokedYet, CleanStaysClean, GrantStays, Exchanged, CleanUntilTried

LEMMA ConnectionsIInvStep ==
  ASSUME ConnectionsIInv, [ConnectionsNext]_connectionsVars
  PROVE  ConnectionsIInv'
  BY ConnectionsTypeStep, BegunStep, StateSpentStep, WrittenStep, LocatorStep, ReadStep, StoredStep,
     RevokedStep, CleanStep, GrantStep, TriedStep
  DEF ConnectionsIInv

\* The invariant: which round each state, window and callback belongs to.
THEOREM ConnectionsInvariant == ConnectionsSpec => []ConnectionsIInv
  BY ConnectionsIInvInit, ConnectionsIInvStep, PTL DEF ConnectionsSpec

\* One state token completes at most one connection, however many callbacks carry it.
THEOREM StateSpentOnceAlways == ConnectionsSpec => []StateSpentOnce
<1>1. ConnectionsIInv => StateSpentOnce
  BY DEF ConnectionsIInv
<1> QED
  BY <1>1, ConnectionsInvariant, PTL

\* A connected account is a verified one, and the answers of revocations mean what they are
\* taken to mean, whoever connects and revokes at once: the part of the invariant about
\* finished rounds gives the first half, what a revocation has done, and the grants that
\* stay, the second.
THEOREM ConnectionAccountedAlways == ConnectionsSpec => []ConnectionAccounted
<1>1. ASSUME ConnectionsIInv PROVE ConnectedIsVerified
  <2>1. locator # NoRound => locator \in Rounds /\ Finished(locator)
    BY <1>1 DEF ConnectionsIInv, ConnectionsTypeOK, LocatorFinished
  <2> QED
    BY <1>1, <2>1
    DEF ConnectionsIInv, ConnectedIsVerified, LocatorFinished, ReadIsFinished, FinishedIsStored
<1>2. ASSUME ConnectionsIInv PROVE RevocationAccounted
  <2>1. service = "irrevocable" => \A v \in Revokers : rvSeen[v] # NoRound => rvSeen[v] \in grants
    BY <1>2 DEF ConnectionsIInv, ReadIsFinished, Finished, GrantStays, Exchanged
  <2> QED
    BY <1>2, <2>1
    DEF ConnectionsIInv, RevocationAccounted, RevokedStaysRevoked, NotRevokedYet, CleanStaysClean,
        CleanUntilTried
<1> QED
  BY <1>1, <1>2, ConnectionsInvariant, PTL DEF ConnectionAccounted

\* Every variable keeps its type.
THEOREM ConnectionsTypeAlways == ConnectionsSpec => []ConnectionsTypeOK
<1>1. ConnectionsIInv => ConnectionsTypeOK
  BY DEF ConnectionsIInv
<1> QED
  BY <1>1, ConnectionsInvariant, PTL

-----------------------------------------------------------------------------
(* Owner sessions: what a request that read a session may still write.     *)

RequestPlaces == {"idle", "unlock", "verify", "rotate", "create", "csrf", "found", "accepted", "coded",
           "confirmed", "consumed", "done"}
OwnerRows == [mfa : BOOLEAN, attempts : 0..(LockoutFailures + 1),
              lock : {"none", "locked", "over"}, epoch : 1..2]

\* Every field of a request, the row it has read included.
RequestRecords ==
  [at : RequestPlaces, op : Operations, session : Requests \cup {NoSession}, row : OwnerRows,
   enrollment : Enrollments \cup {NoEnrollment}, step : 0..MaxStep,
   dead : SUBSET Requests, seen : SUBSET Requests]
RequestsTyped == req \in [Requests -> RequestRecords]

\* Who has created a session never comes back to create another.
CreatedIsPast ==
  \A q \in Requests : sessions[q].state # "absent" => req[q].at \in {"csrf", "done"}

\* A request works with a session that exists and was live when it began.
SessionIsKnown ==
  \A q \in Requests :
    /\ req[q].at \in {"found", "accepted", "coded", "consumed"} => req[q].session \in Existing
    /\ req[q].session \notin req[q].dead

\* What a rotation found is revoked for good.
SeenIsRevoked == \A t \in Requests : \A s \in req[t].seen : sessions[s].state = "revoked"

\* A code that is being used, or was, goes to an enrollment that remembers it.
CodeIsChosen ==
  \A q \in Requests : req[q].at = "coded" =>
    /\ req[q].enrollment \in Enrollments /\ req[q].step \in Steps
    /\ req[q].op = "elevate" => enrollments[req[q].enrollment].state = "confirmed"
SpentIsRemembered ==
  \A q \in Requests : Spent(q) =>
    /\ req[q].enrollment \in Enrollments /\ req[q].step \in Steps
    /\ req[q].step <= enrollments[req[q].enrollment].last
PendingIsFresh ==
  \A e \in Enrollments : enrollments[e].state # "confirmed" => enrollments[e].last = 0

SessionsIInv ==
  /\ SessionsTypeOK /\ RequestsTyped
  /\ CreatedIsPast /\ SessionIsKnown /\ SeenIsRevoked
  /\ CodeIsChosen /\ SpentIsRemembered /\ PendingIsFresh /\ TotpStepSpentOnce

-----------------------------------------------------------------------------
(* Steps that leave the rows alone, and what every request's step keeps.   *)

LEMMA OthersStay ==
  ASSUME RequestsTyped, NEW q \in Requests, SessionStep(q)
  PROVE  \A r \in Requests : r # q => req'[r] = req[r]
  BY DEF SessionStep, ReadOwner, ClearLockout, LoginFails, LoginSucceeds, SavePassword,
         RotateSessions, CreateSession, IssueCsrf, FindSession, AcceptSession, RevokeSession,
         Enroll, VerifyCode, ConfirmEnrollment, SaveRecoveryCodes, ConsumeStep, RevokeElevated,
         RequestEnds, Advance, RequestsTyped

\* The steps that only move a request on.
Moves(q) ==
  \/ ClearLockout(q) \/ LoginFails(q) \/ LoginSucceeds(q) \/ SavePassword(q) \/ AcceptSession(q)
  \/ Enroll(q) \/ SaveRecoveryCodes(q) \/ RequestEnds(q) \/ IssueCsrf(q) \/ CreateSession(q)
  \/ RevokeSession(q) \/ ConfirmEnrollment(q) \/ ConsumeStep(q) \/ RevokeElevated(q)

LEMMA MovesAdvance ==
  ASSUME RequestsTyped, NEW q \in Requests, Moves(q)
  PROVE  \E p \in RequestPlaces : req' = [req EXCEPT ![q].at = p]
<1> USE DEF Advance, RequestPlaces
<1>1. CASE ClearLockout(q) \/ LoginFails(q) \/ LoginSucceeds(q) \/ SavePassword(q)
  BY <1>1 DEF ClearLockout, LoginFails, LoginSucceeds, SavePassword
<1>2. CASE AcceptSession(q) \/ Enroll(q) \/ SaveRecoveryCodes(q) \/ RequestEnds(q) \/ IssueCsrf(q)
  BY <1>2 DEF AcceptSession, Enroll, SaveRecoveryCodes, RequestEnds, IssueCsrf
<1>3. CASE CreateSession(q)
  <2>1. CASE req[q].op = "login"
    BY <1>3, <2>1 DEF CreateSession
  <2>2. CASE req[q].op # "login"
    BY <1>3, <2>2 DEF CreateSession
  <2> QED
    BY <2>1, <2>2
<1>5. CASE RevokeSession(q) \/ ConfirmEnrollment(q) \/ ConsumeStep(q) \/ RevokeElevated(q)
  BY <1>5 DEF RevokeSession, ConfirmEnrollment, ConsumeStep, RevokeElevated
<1> QED
  BY <1>1, <1>2, <1>3, <1>5 DEF Moves

LEMMA PutAt ==
  ASSUME NEW r \in RequestRecords, NEW p \in RequestPlaces PROVE [r EXCEPT !.at = p] \in RequestRecords
  BY DEF RequestRecords
LEMMA PutOp ==
  ASSUME NEW r \in RequestRecords, NEW op \in Operations
  PROVE  [r EXCEPT !.op = op] \in RequestRecords
  BY DEF RequestRecords
LEMMA PutRow ==
  ASSUME NEW r \in RequestRecords, NEW row \in OwnerRows
  PROVE  [r EXCEPT !.row = row] \in RequestRecords
  BY DEF RequestRecords
LEMMA PutSession ==
  ASSUME NEW r \in RequestRecords, NEW s \in Requests
  PROVE  [r EXCEPT !.session = s] \in RequestRecords
  BY DEF RequestRecords
LEMMA PutDead ==
  ASSUME NEW r \in RequestRecords, NEW dead \in SUBSET Requests
  PROVE  [r EXCEPT !.dead = dead] \in RequestRecords
  BY DEF RequestRecords
LEMMA PutSeen ==
  ASSUME NEW r \in RequestRecords, NEW seen \in SUBSET Requests
  PROVE  [r EXCEPT !.seen = seen] \in RequestRecords
  BY DEF RequestRecords
LEMMA PutCode ==
  ASSUME NEW r \in RequestRecords, NEW e \in Enrollments, NEW k \in 0..MaxStep
  PROVE  [[r EXCEPT !.enrollment = e] EXCEPT !.step = k] \in RequestRecords
<1>1. [r EXCEPT !.enrollment = e] \in RequestRecords
  BY DEF RequestRecords
<1> QED
  BY <1>1 DEF RequestRecords

LEMMA UnbegunTyped == Unbegun \in RequestRecords
  BY OwnerSessionsAssumption DEF Unbegun, RequestRecords, Row, OwnerRows, RequestPlaces, Operations

LEMMA RequestsTypedInit == SessionsInit => RequestsTyped
<1> SUFFICES ASSUME SessionsInit PROVE RequestsTyped
  OBVIOUS
<1>1. [[Unbegun EXCEPT !.op = "login"] EXCEPT !.at = "done"] \in RequestRecords
  BY UnbegunTyped, PutOp, PutAt DEF Operations, RequestPlaces
<1>2. [Unbegun EXCEPT !.op = "login", !.at = "done"] \in RequestRecords
  BY <1>1
<1>3. \/ req = [q \in Requests |-> Unbegun]
      \/ req = [q \in Requests |-> IF q = EarlierLogin
                  THEN [Unbegun EXCEPT !.op = "login", !.at = "done"] ELSE Unbegun]
  BY DEF SessionsInit
<1> QED
  BY <1>2, <1>3, UnbegunTyped DEF RequestsTyped

LEMMA RequestsTypedStep ==
  ASSUME SessionsTypeOK, RequestsTyped, [SessionsNext]_sessionsVars
  PROVE  RequestsTyped'
<1> USE DEF RequestsTyped
<1>1. ASSUME NEW q \in Requests, Moves(q) PROVE RequestsTyped'
  <2>1. PICK p \in RequestPlaces : req' = [req EXCEPT ![q].at = p]
    BY <1>1, MovesAdvance
  <2>2. [req[q] EXCEPT !.at = p] \in RequestRecords
    BY PutAt
  <2> QED
    BY <2>1, <2>2
<1>2. ASSUME NEW q \in Requests, ReadOwner(q) PROVE RequestsTyped'
  <2>1. PICK op \in {"login", "password"} :
          req' = [req EXCEPT ![q] = [Unbegun EXCEPT !.op = op, !.row = owner, !.at =
                    IF op = "login" /\ owner.lock = "over" THEN "unlock" ELSE "verify"]]
    BY <1>2 DEF ReadOwner
  <2> DEFINE place == IF op = "login" /\ owner.lock = "over" THEN "unlock" ELSE "verify"
  <2>2. owner \in OwnerRows /\ place \in RequestPlaces /\ op \in Operations
    BY DEF SessionsTypeOK, OwnerRows, RequestPlaces, Operations
  <2>3. [[[Unbegun EXCEPT !.op = op] EXCEPT !.row = owner] EXCEPT !.at = place] \in RequestRecords
    BY <2>2, UnbegunTyped, PutOp, PutRow, PutAt
  <2> QED
    BY <2>1, <2>3
<1>3. ASSUME NEW q \in Requests, FindSession(q) PROVE RequestsTyped'
  <2>1. PICK s \in Existing, op \in Operations \ {"login", "password"} :
          req' = [req EXCEPT ![q] = [Unbegun EXCEPT !.op = op, !.session = s, !.at = "found",
                                                   !.dead = Over]]
    BY <1>3 DEF FindSession
  <2>2. s \in Requests /\ Over \in SUBSET Requests /\ "found" \in RequestPlaces
    BY DEF Existing, Over, RequestPlaces
  <2>3. [[[[Unbegun EXCEPT !.op = op] EXCEPT !.session = s] EXCEPT !.at = "found"]
           EXCEPT !.dead = Over] \in RequestRecords
    BY <2>2, UnbegunTyped, PutOp, PutSession, PutAt, PutDead
  <2> QED
    BY <2>1, <2>3
<1>4. ASSUME NEW q \in Requests, RotateSessions(q) PROVE RequestsTyped'
  <2>1. [[req[q] EXCEPT !.at = "create"] EXCEPT !.seen = Existing] \in RequestRecords
    BY PutAt, PutSeen DEF Existing, RequestPlaces
  <2>2. req' = [req EXCEPT ![q] = [[req[q] EXCEPT !.at = "create"] EXCEPT !.seen = Existing]]
    BY <1>4 DEF RotateSessions
  <2> QED
    BY <2>1, <2>2
<1>5. ASSUME NEW q \in Requests, VerifyCode(q) PROVE RequestsTyped'
  <2>1. PICK e \in Enrollments, k \in Steps :
          req' = [req EXCEPT ![q].at = "coded", ![q].enrollment = e, ![q].step = k]
    BY <1>5 DEF VerifyCode
  <2>2. "coded" \in RequestPlaces /\ k \in 0..MaxStep
    BY OwnerSessionsAssumption DEF RequestPlaces, Steps
  <2>3. [[[req[q] EXCEPT !.at = "coded"] EXCEPT !.enrollment = e] EXCEPT !.step = k]
          \in RequestRecords
    BY <2>2, PutAt, PutCode
  <2>4. req' = [req EXCEPT ![q] = [[[req[q] EXCEPT !.at = "coded"] EXCEPT !.enrollment = e]
                                      EXCEPT !.step = k]]
    BY <2>1
  <2> QED
    BY <2>3, <2>4
<1>6. CASE UNCHANGED req
  BY <1>6
<1> QED
  BY <1>1, <1>2, <1>3, <1>4, <1>5, <1>6
  DEF SessionsNext, SessionStep, Moves, SessionLapses, LockoutEnds, UseRecoveryCode, sessionsVars

-----------------------------------------------------------------------------
(* The rows.                                                               *)

LEMMA OwnerStep ==
  ASSUME SessionsTypeOK, RequestsTyped, [SessionsNext]_sessionsVars
  PROVE  owner' \in OwnerRows
<1>0. owner \in OwnerRows /\ \A q \in Requests : req[q].row \in OwnerRows
  BY DEF SessionsTypeOK, OwnerRows, RequestsTyped, RequestRecords
<1>1. ASSUME NEW q \in Requests, ClearLockout(q) PROVE owner' \in OwnerRows
  BY <1>0, <1>1 DEF ClearLockout, OwnerRows
<1>2. ASSUME NEW q \in Requests, LoginFails(q) PROVE owner' \in OwnerRows
  <2>1. owner' = [[owner EXCEPT !.attempts = owner.attempts + 1] EXCEPT !.lock =
                   IF owner.attempts + 1 >= LockoutFailures THEN "locked" ELSE owner.lock]
    BY <1>2 DEF LoginFails
  <2>2. owner.attempts + 1 \in 0..(LockoutFailures + 1)
    BY <1>0, <1>2, OwnerSessionsAssumption DEF LoginFails, OwnerRows
  <2>3. [owner EXCEPT !.attempts = owner.attempts + 1] \in OwnerRows
    BY <1>0, <2>2 DEF OwnerRows
  <2> QED
    BY <1>0, <2>1, <2>3 DEF OwnerRows
<1>3. ASSUME NEW q \in Requests, LoginSucceeds(q) PROVE owner' \in OwnerRows
  <2>1. owner' = [[owner EXCEPT !.attempts = 0] EXCEPT !.lock = "none"]
    BY <1>3 DEF LoginSucceeds
  <2>2. [owner EXCEPT !.attempts = 0] \in OwnerRows
    BY <1>0, OwnerSessionsAssumption DEF OwnerRows
  <2> QED
    BY <2>1, <2>2 DEF OwnerRows
<1>4. ASSUME NEW q \in Requests, SavePassword(q) PROVE owner' \in OwnerRows
  BY <1>0, <1>4 DEF SavePassword, NewEpoch, OwnerRows
<1>5. ASSUME NEW q \in Requests, ConfirmEnrollment(q) PROVE owner' \in OwnerRows
  BY <1>0, <1>5 DEF ConfirmEnrollment, OwnerRows
<1>6. CASE LockoutEnds
  BY <1>0, <1>6 DEF LockoutEnds, OwnerRows
<1>7. CASE UNCHANGED owner
  BY <1>0, <1>7
<1> QED
  BY <1>1, <1>2, <1>3, <1>4, <1>5, <1>6, <1>7
  DEF SessionsNext, SessionStep, SessionLapses, UseRecoveryCode, sessionsVars, ReadOwner,
      RotateSessions, CreateSession, IssueCsrf, FindSession, AcceptSession, RevokeSession, Enroll,
      VerifyCode, SaveRecoveryCodes, ConsumeStep, RevokeElevated, RequestEnds

\* What a step may do to the sessions: create the request's own, revoke, or issue a token.
Changes ==
  \/ \E q \in Requests :
       \/ RotateSessions(q)
       \/ CreateSession(q)
       \/ ReqAt(q, "csrf") /\ Advance(q, "done") /\ sessions' = [sessions EXCEPT ![q].csrf = TRUE]
       \/ \E s \in Requests : /\ s \in Existing \/ (ReqAt(q, "consumed") /\ s = req[q].session)
                             /\ \E p \in RequestPlaces \ {"idle", "csrf"} : Advance(q, p)
                             /\ sessions' = [sessions EXCEPT ![s].state = "revoked"]
  \/ UNCHANGED sessions

LEMMA SessionChanges ==
  ASSUME SessionIsKnown, [SessionsNext]_sessionsVars
  PROVE  Changes
<1>1. ASSUME NEW q \in Requests, RevokeSession(q) PROVE Changes
  BY <1>1 DEF RevokeSession, Changes, Existing, RequestPlaces
<1>2. ASSUME NEW q \in Requests, RevokeElevated(q) PROVE Changes
  <2>1. req[q].session \in Requests
    BY <1>2 DEF RevokeElevated, SessionIsKnown, Existing, ReqAt
  <2> QED
    BY <1>2, <2>1 DEF RevokeElevated, Changes, RequestPlaces
<1>3. ASSUME NEW q \in Requests, IssueCsrf(q) PROVE Changes
  BY <1>3 DEF IssueCsrf, Changes
<1> QED
  BY <1>1, <1>2, <1>3
  DEF Changes, SessionsNext, SessionStep, SessionLapses, LockoutEnds, UseRecoveryCode, sessionsVars,
      ReadOwner, ClearLockout, LoginFails, LoginSucceeds, SavePassword, FindSession, AcceptSession,
      Enroll, VerifyCode, ConfirmEnrollment, SaveRecoveryCodes, ConsumeStep, RequestEnds

SessionRows == [state : {"absent", "live", "revoked"}, level : Levels, csrf : BOOLEAN]

LEMMA SessionsStep ==
  ASSUME SessionsTypeOK, SessionIsKnown, [SessionsNext]_sessionsVars
  PROVE  sessions' \in [Requests -> SessionRows]
<1>0. sessions \in [Requests -> SessionRows]
  BY DEF SessionsTypeOK, SessionRows
<1>1. ASSUME NEW q \in Requests, RotateSessions(q) PROVE sessions' \in [Requests -> SessionRows]
  <2>1. \A s \in Requests : [sessions[s] EXCEPT !.state = "revoked"] \in SessionRows
    BY <1>0 DEF SessionRows
  <2> QED
    BY <1>0, <1>1, <2>1 DEF RotateSessions
<1>2. ASSUME NEW q \in Requests, CreateSession(q) PROVE sessions' \in [Requests -> SessionRows]
  <2>1. LevelFor(q) \in Levels
    BY DEF LevelFor, Levels
  <2> QED
    BY <1>0, <1>2, <2>1 DEF CreateSession, SessionRows
<1>3. ASSUME NEW s \in Requests,
             \/ sessions' = [sessions EXCEPT ![s].state = "revoked"]
             \/ sessions' = [sessions EXCEPT ![s].csrf = TRUE]
      PROVE  sessions' \in [Requests -> SessionRows]
  BY <1>0, <1>3 DEF SessionRows
<1> QED
  BY <1>0, <1>1, <1>2, <1>3, SessionChanges DEF Changes

EnrollmentRows == [state : {"absent", "pending", "confirmed"}, last : 0..MaxStep]

LEMMA EnrollmentsStep ==
  ASSUME SessionsTypeOK, RequestsTyped, [SessionsNext]_sessionsVars
  PROVE  enrollments' \in [Enrollments -> EnrollmentRows]
<1>0. enrollments \in [Enrollments -> EnrollmentRows]
  BY DEF SessionsTypeOK, EnrollmentRows
<1>00. \A q \in Requests : req[q].step \in 0..MaxStep
  BY DEF SessionsTypeOK
<1>1. ASSUME NEW q \in Requests, Enroll(q) PROVE enrollments' \in [Enrollments -> EnrollmentRows]
  BY <1>0, <1>1, OwnerSessionsAssumption DEF Enroll, EnrollmentRows
<1>2. ASSUME NEW q \in Requests, ConfirmEnrollment(q)
      PROVE  enrollments' \in [Enrollments -> EnrollmentRows]
  BY <1>0, <1>00, <1>2 DEF ConfirmEnrollment, EnrollmentRows
<1>3. ASSUME NEW q \in Requests, ConsumeStep(q)
      PROVE  enrollments' \in [Enrollments -> EnrollmentRows]
  BY <1>0, <1>00, <1>3 DEF ConsumeStep, EnrollmentRows
<1>4. CASE UNCHANGED enrollments
  BY <1>0, <1>4
<1> QED
  BY <1>1, <1>2, <1>3, <1>4
  DEF SessionsNext, SessionStep, SessionLapses, LockoutEnds, UseRecoveryCode, sessionsVars,
      ReadOwner, ClearLockout, LoginFails, LoginSucceeds, SavePassword, RotateSessions,
      CreateSession, IssueCsrf, FindSession, AcceptSession, RevokeSession, VerifyCode,
      SaveRecoveryCodes, RevokeElevated, RequestEnds

LEMMA SessionsTypeStep ==
  ASSUME SessionsTypeOK, RequestsTyped, SessionIsKnown, [SessionsNext]_sessionsVars
  PROVE  SessionsTypeOK'
<1>1. lapsed' \subseteq Requests
  BY DEF SessionsTypeOK, SessionsNext, SessionStep, SessionLapses, LockoutEnds, UseRecoveryCode,
         sessionsVars, ReadOwner, ClearLockout, LoginFails, LoginSucceeds, SavePassword,
         RotateSessions, CreateSession, IssueCsrf, FindSession, AcceptSession, RevokeSession,
         Enroll, VerifyCode, ConfirmEnrollment, SaveRecoveryCodes, ConsumeStep, RevokeElevated,
         RequestEnds
<1>3. codes' \in Nat
  <2>1. codes' = codes \/ codes' = codes + 1 \/ (codes > 0 /\ codes' = codes - 1)
    BY DEF SessionsNext, SessionStep, SessionLapses, LockoutEnds, UseRecoveryCode,
         sessionsVars, ReadOwner, ClearLockout, LoginFails, LoginSucceeds, SavePassword,
         RotateSessions, CreateSession, IssueCsrf, FindSession, AcceptSession, RevokeSession,
         Enroll, VerifyCode, ConfirmEnrollment, SaveRecoveryCodes, ConsumeStep, RevokeElevated,
         RequestEnds
  <2> QED
    BY <2>1 DEF SessionsTypeOK
<1>2. \A q \in Requests :
        /\ req'[q].op \in Operations /\ req'[q].session \in Requests \cup {NoSession}
        /\ req'[q].enrollment \in Enrollments \cup {NoEnrollment} /\ req'[q].step \in 0..MaxStep
        /\ req'[q].dead \subseteq Requests /\ req'[q].seen \subseteq Requests
  BY RequestsTypedStep DEF RequestsTyped, RequestRecords
<1> QED
  BY <1>1, <1>2, <1>3, OwnerStep, SessionsStep, EnrollmentsStep
  DEF SessionsTypeOK, OwnerRows, SessionRows, EnrollmentRows

-----------------------------------------------------------------------------
(* Sessions end for good.                                                  *)

\* A step of another request leaves this one alone, and only the first step of a request
\* changes what it is.
LEMMA RequestsKeep ==
  ASSUME SessionsTypeOK, RequestsTyped, [SessionsNext]_sessionsVars, NEW q \in Requests
  PROVE  \/ req'[q] = req[q]
         \/ SessionStep(q)
  BY OthersStay DEF SessionsNext, SessionLapses, LockoutEnds, UseRecoveryCode, sessionsVars

\* Where a request that is past its creation can be.
LEMMA CreatedStays ==
  ASSUME SessionsTypeOK, RequestsTyped, NEW q \in Requests, SessionStep(q),
         req[q].at \in {"csrf", "done"}
  PROVE  req'[q].at = "done"
<1>1. IssueCsrf(q) \/ RequestEnds(q)
  BY DEF SessionStep, ReadOwner, ClearLockout, LoginFails, LoginSucceeds, SavePassword,
         RotateSessions, CreateSession, FindSession, AcceptSession, RevokeSession,
         Enroll, VerifyCode, ConfirmEnrollment, SaveRecoveryCodes, ConsumeStep, RevokeElevated,
         ReqAt
<1> QED
  BY <1>1 DEF IssueCsrf, RequestEnds, Advance, RequestsTyped, RequestRecords

\* Only the creation of a session makes its row.
LEMMA NewlyExisting ==
  ASSUME SessionsTypeOK, SessionIsKnown, [SessionsNext]_sessionsVars,
         NEW q \in Requests, sessions'[q].state # "absent", sessions[q].state = "absent"
  PROVE  CreateSession(q)
<1>1. ASSUME NEW r \in Requests, CreateSession(r) PROVE r = q
  BY <1>1 DEF CreateSession, SessionsTypeOK
<1>2. ASSUME NEW r \in Requests, RotateSessions(r) PROVE FALSE
  BY <1>2 DEF RotateSessions, Rotated, SessionsTypeOK
<1>3. ASSUME NEW s \in Requests, s \in Existing,
             sessions' = [sessions EXCEPT ![s].state = "revoked"]
      PROVE  FALSE
  BY <1>3 DEF Existing, SessionsTypeOK
<1>4. ASSUME NEW s \in Requests, sessions' = [sessions EXCEPT ![s].csrf = TRUE]
      PROVE  FALSE
  BY <1>4 DEF SessionsTypeOK
<1>5. \A r \in Requests : ReqAt(r, "consumed") => req[r].session \in Existing
  BY DEF SessionIsKnown, ReqAt
<1> QED
  BY <1>1, <1>2, <1>3, <1>4, <1>5, SessionChanges DEF Changes

LEMMA CreatedStep ==
  ASSUME SessionsTypeOK, RequestsTyped, SessionIsKnown, CreatedIsPast, [SessionsNext]_sessionsVars
  PROVE  CreatedIsPast'
<1> SUFFICES ASSUME NEW q \in Requests, sessions'[q].state # "absent"
             PROVE  req'[q].at \in {"csrf", "done"}
  BY DEF CreatedIsPast
<1>1. CASE sessions[q].state # "absent"
  BY <1>1, RequestsKeep, CreatedStays DEF CreatedIsPast
<1>2. CASE sessions[q].state = "absent"
  <2>1. CreateSession(q)
    BY <1>2, NewlyExisting
  <2> QED
    BY <2>1 DEF CreateSession, Advance, RequestsTyped, RequestRecords
<1> QED
  BY <1>1, <1>2

\* Rows never go.
LEMMA ExistingStay ==
  ASSUME SessionsTypeOK, SessionIsKnown, [SessionsNext]_sessionsVars
  PROVE  Existing \subseteq Existing'
<1>1. ASSUME NEW q \in Requests, CreateSession(q) PROVE Existing \subseteq Existing'
  BY <1>1 DEF CreateSession, Existing, SessionsTypeOK
<1>2. ASSUME NEW q \in Requests, RotateSessions(q) PROVE Existing \subseteq Existing'
  BY <1>2 DEF RotateSessions, Existing, SessionsTypeOK
<1>3. ASSUME NEW s \in Requests, \/ sessions' = [sessions EXCEPT ![s].state = "revoked"]
                                \/ sessions' = [sessions EXCEPT ![s].csrf = TRUE]
      PROVE  Existing \subseteq Existing'
  BY <1>3 DEF Existing, SessionsTypeOK
<1> QED
  BY <1>1, <1>2, <1>3, SessionChanges DEF Changes, Existing

LEMMA KnownStep ==
  ASSUME SessionsTypeOK, RequestsTyped, SessionIsKnown, [SessionsNext]_sessionsVars
  PROVE  SessionIsKnown'
<1> SUFFICES ASSUME NEW q \in Requests
             PROVE  /\ req'[q].at \in {"found", "accepted", "coded", "consumed"} =>
                         req'[q].session \in Existing'
                    /\ req'[q].session \notin req'[q].dead
  BY DEF SessionIsKnown
<1>1. CASE req'[q] = req[q]
  BY <1>1, ExistingStay DEF SessionIsKnown
<1>2. ASSUME Moves(q) \/ VerifyCode(q) \/ RotateSessions(q)
      PROVE  /\ req'[q].session = req[q].session /\ req'[q].dead = req[q].dead
             /\ req'[q].at \in {"found", "accepted", "coded", "consumed"} =>
                  req[q].at \in {"found", "accepted", "coded", "consumed"}
  <2>1. req'[q].session = req[q].session /\ req'[q].dead = req[q].dead
    <3>1. CASE Moves(q)
      BY <3>1, MovesAdvance DEF RequestsTyped, RequestRecords
    <3>2. CASE VerifyCode(q)
      BY <3>2 DEF VerifyCode, RequestsTyped, RequestRecords
    <3>3. CASE RotateSessions(q)
      BY <3>3 DEF RotateSessions, RequestsTyped, RequestRecords
    <3> QED
      BY <1>2, <3>1, <3>2, <3>3
  <2>2. CASE AcceptSession(q) \/ VerifyCode(q) \/ ConsumeStep(q)
    BY <2>1, <2>2 DEF AcceptSession, VerifyCode, ConsumeStep, ReqAt
  <2>3. CASE ClearLockout(q) \/ LoginFails(q) \/ LoginSucceeds(q) \/ SavePassword(q)
    <3>1. req'[q].at \in {"verify", "done", "rotate"}
      BY <2>3 DEF ClearLockout, LoginFails, LoginSucceeds, SavePassword, Advance, RequestsTyped,
             RequestRecords
    <3> QED
      BY <2>1, <3>1
  <2>4. CASE \/ Enroll(q) \/ SaveRecoveryCodes(q) \/ RequestEnds(q) \/ IssueCsrf(q)
             \/ CreateSession(q) \/ RevokeSession(q)
    <3>1. req'[q].at \in {"csrf", "done"}
      BY <2>4 DEF Enroll, SaveRecoveryCodes, RequestEnds, IssueCsrf, CreateSession, RevokeSession,
             Advance, RequestsTyped, RequestRecords
    <3> QED
      BY <2>1, <3>1
  <2>5. CASE ConfirmEnrollment(q) \/ RevokeElevated(q) \/ RotateSessions(q)
    <3>1. req'[q].at \in {"confirmed", "rotate", "create"}
      BY <2>5 DEF ConfirmEnrollment, RevokeElevated, RotateSessions, Advance, RequestsTyped,
             RequestRecords
    <3> QED
      BY <2>1, <3>1
  <2> QED
    BY <1>2, <2>2, <2>3, <2>4, <2>5 DEF Moves
<1>3. CASE ReadOwner(q)
  <2>1. PICK op \in {"login", "password"} :
          req' = [req EXCEPT ![q] = [Unbegun EXCEPT !.op = op, !.row = owner, !.at =
                    IF op = "login" /\ owner.lock = "over" THEN "unlock" ELSE "verify"]]
    BY <1>3 DEF ReadOwner
  <2> QED
    BY <2>1 DEF Unbegun, RequestsTyped
<1>4. CASE FindSession(q)
  <2>1. PICK s \in Existing, op \in Operations \ {"login", "password"} :
          /\ Found(s)
          /\ req' = [req EXCEPT ![q] = [Unbegun EXCEPT !.op = op, !.session = s, !.at = "found",
                                                   !.dead = Over]]
    BY <1>4 DEF FindSession
  <2>2. req'[q].session = s /\ req'[q].dead = Over
    BY <2>1 DEF Unbegun, RequestsTyped
  <2>3. s \notin Over
    BY <2>1 DEF Found, Over, Live
  <2> QED
    BY <2>2, <2>3, ExistingStay
<1> QED
  BY <1>1, <1>2, <1>3, <1>4, RequestsKeep, ExistingStay DEF SessionStep, Moves, SessionIsKnown

LEMMA SeenStep ==
  ASSUME SessionsTypeOK, RequestsTyped, SessionIsKnown, CreatedIsPast, SeenIsRevoked,
         [SessionsNext]_sessionsVars
  PROVE  SeenIsRevoked'
<1>1. \A s \in Requests : sessions[s].state = "revoked" => sessions'[s].state = "revoked"
  <2>1. ASSUME NEW q \in Requests, CreateSession(q), NEW s \in Requests,
               sessions[s].state = "revoked"
        PROVE  sessions'[s].state = "revoked"
    <3>1. s # q
      BY <2>1 DEF CreateSession, CreatedIsPast, ReqAt
    <3> QED
      BY <2>1, <3>1 DEF CreateSession, SessionsTypeOK
  <2>2. ASSUME NEW q \in Requests, RotateSessions(q)
        PROVE  \A s \in Requests : sessions[s].state = "revoked" => sessions'[s].state = "revoked"
    BY <2>2 DEF RotateSessions, SessionsTypeOK
  <2>3. ASSUME NEW t \in Requests, \/ sessions' = [sessions EXCEPT ![t].state = "revoked"]
                                  \/ sessions' = [sessions EXCEPT ![t].csrf = TRUE]
        PROVE  \A s \in Requests : sessions[s].state = "revoked" => sessions'[s].state = "revoked"
    BY <2>3 DEF SessionsTypeOK
  <2> QED
    BY <2>1, <2>2, <2>3, SessionChanges DEF Changes
<1>2. ASSUME NEW t \in Requests
      PROVE  \/ req'[t].seen \subseteq req[t].seen
             \/ RotateSessions(t) /\ req'[t].seen = Existing
  <2>1. CASE RotateSessions(t)
    BY <2>1 DEF RotateSessions, RequestsTyped
  <2>2. CASE ReadOwner(t) \/ FindSession(t)
    BY <2>2 DEF ReadOwner, FindSession, Unbegun, RequestsTyped
  <2>3. CASE Moves(t)
    BY <2>3, MovesAdvance DEF RequestsTyped, RequestRecords
  <2>4. CASE VerifyCode(t)
    BY <2>4 DEF VerifyCode, RequestsTyped, RequestRecords
  <2> QED
    BY <2>1, <2>2, <2>3, <2>4, RequestsKeep DEF SessionStep, Moves
<1>3. ASSUME NEW t \in Requests, RotateSessions(t)
      PROVE  \A s \in Existing : sessions'[s].state = "revoked"
  BY <1>3 DEF RotateSessions, Rotated, Existing, SessionsTypeOK
<1>4. \A t \in Requests : req[t].seen \subseteq Requests
  BY DEF SessionsTypeOK
<1> QED
  BY <1>1, <1>2, <1>3, <1>4 DEF SeenIsRevoked

-----------------------------------------------------------------------------
(* Codes.                                                                  *)

LEMMA BeginningPlaces ==
  ASSUME RequestsTyped, NEW q \in Requests, ReadOwner(q) \/ FindSession(q)
  PROVE  req'[q].at \in {"unlock", "verify", "found"}
<1>1. CASE ReadOwner(q)
  <2>1. PICK op \in {"login", "password"} :
          req' = [req EXCEPT ![q] = [Unbegun EXCEPT !.op = op, !.row = owner, !.at =
                    IF op = "login" /\ owner.lock = "over" THEN "unlock" ELSE "verify"]]
    BY <1>1 DEF ReadOwner
  <2> QED
    BY <2>1 DEF Unbegun, RequestsTyped
<1>2. CASE FindSession(q)
  <2>1. PICK s \in Existing, op \in Operations \ {"login", "password"} :
          req' = [req EXCEPT ![q] = [Unbegun EXCEPT !.op = op, !.session = s, !.at = "found",
                                                   !.dead = Over]]
    BY <1>2 DEF FindSession
  <2> QED
    BY <2>1 DEF Unbegun, RequestsTyped
<1> QED
  BY <1>1, <1>2

LEMMA SpentCases ==
  ASSUME SessionsTypeOK, RequestsTyped, SessionIsKnown, CreatedIsPast,
         [SessionsNext]_sessionsVars, NEW q \in Requests, Spent(q)'
  PROVE  /\ req'[q].enrollment = req[q].enrollment /\ req'[q].step = req[q].step
         /\ Spent(q) \/ ConfirmEnrollment(q) \/ ConsumeStep(q)
<1>1. CASE Moves(q)
  <2>1. PICK p \in RequestPlaces : req' = [req EXCEPT ![q].at = p]
    BY <1>1, MovesAdvance
  <2>2. /\ req'[q].enrollment = req[q].enrollment /\ req'[q].step = req[q].step
        /\ req'[q].op = req[q].op /\ req'[q].at = p
    BY <2>1 DEF RequestsTyped, RequestRecords
  <2>3. CASE CreateSession(q)
    <3>1. req'[q].at \in {"csrf", "done"} /\ req[q].at = "create"
      BY <2>3 DEF CreateSession, Advance, ReqAt, RequestsTyped, RequestRecords
    <3> QED
      BY <2>2, <3>1 DEF Spent, ReqAt
  <2>4. CASE ~CreateSession(q)
    <3>1. CASE q \in Existing'
      <4>1. sessions[q].state # "absent"
        BY <2>4, <3>1, NewlyExisting DEF Existing
      <4>2. req[q].at # "accepted"
        BY <4>1 DEF CreatedIsPast
      <4>3. req'[q].at = "done"
        BY <1>1, <4>1, CreatedStays DEF CreatedIsPast, Moves, SessionStep
      <4> QED
        BY <2>2, <4>1, <4>3 DEF Spent, ReqAt, Existing
    <3>2. CASE q \notin Existing'
      <4>1. \/ req[q].op = "confirm" /\ p = "confirmed"
            \/ req[q].op = "elevate" /\ p \in {"consumed", "rotate", "create"}
        BY <2>2, <3>2 DEF Spent, ReqAt
      <4>2. CASE ConfirmEnrollment(q) \/ ConsumeStep(q)
        BY <2>2, <4>2
      <4>3. CASE RevokeElevated(q)
        BY <2>2, <4>1, <4>3 DEF RevokeElevated, Spent, ReqAt, Advance, RequestsTyped,
               RequestRecords
      <4>4. CASE LoginFails(q) \/ LoginSucceeds(q) \/ SavePassword(q)
        <5>1. p \in {"done", "rotate"} /\ req[q].op \in {"login", "password"}
          BY <2>2, <4>4 DEF LoginFails, LoginSucceeds, SavePassword, Advance, RequestsTyped,
                 RequestRecords
        <5> QED
          BY <4>1, <5>1
      <4>5. CASE \/ ClearLockout(q) \/ AcceptSession(q) \/ Enroll(q) \/ SaveRecoveryCodes(q)
                 \/ RequestEnds(q) \/ IssueCsrf(q) \/ RevokeSession(q)
        <5>1. p \in {"verify", "accepted", "done"}
          BY <2>2, <4>5 DEF ClearLockout, AcceptSession, Enroll, SaveRecoveryCodes, RequestEnds,
                 IssueCsrf, RevokeSession, Advance, RequestsTyped, RequestRecords
        <5> QED
          BY <4>1, <5>1
      <4> QED
        BY <1>1, <2>4, <4>2, <4>3, <4>4, <4>5 DEF Moves
    <3> QED
      BY <3>1, <3>2
  <2> QED
    BY <2>3, <2>4
<1>2. CASE req'[q] = req[q]
  <2>1. CASE q \in Existing' /\ q \notin Existing
    <3>1. CreateSession(q)
      BY <2>1, NewlyExisting DEF Existing
    <3> QED
      BY <1>1, <3>1 DEF Moves
  <2>2. CASE q \in Existing' => q \in Existing
    BY <1>2, <2>2 DEF Spent, ReqAt
  <2> QED
    BY <2>1, <2>2
<1>3. CASE RotateSessions(q)
  <2>1. /\ req'[q].enrollment = req[q].enrollment /\ req'[q].step = req[q].step
        /\ req'[q].op = req[q].op /\ req'[q].at = "create" /\ req[q].at = "rotate"
    BY <1>3 DEF RotateSessions, ReqAt, RequestsTyped, RequestRecords
  <2>2. q \notin Existing'
    BY <2>1, CreatedStep DEF CreatedIsPast, Existing
  <2> QED
    BY <2>1, <2>2 DEF Spent, ReqAt
<1>4. CASE ReadOwner(q) \/ FindSession(q) \/ VerifyCode(q)
  <2>1. req'[q].at \in {"unlock", "verify", "found", "coded"}
    <3>1. CASE ReadOwner(q) \/ FindSession(q)
      BY <3>1, BeginningPlaces
    <3>3. CASE VerifyCode(q)
      BY <3>3 DEF VerifyCode, RequestsTyped, RequestRecords
    <3> QED
      BY <1>4, <3>1, <3>3
  <2>2. q \notin Existing'
    BY <2>1, CreatedStep DEF CreatedIsPast, Existing
  <2> QED
    BY <2>1, <2>2 DEF Spent, ReqAt
<1> QED
  BY <1>1, <1>2, <1>3, <1>4, RequestsKeep DEF SessionStep, Moves

\* Only three operations touch an enrollment.
LEMMA EnrollmentChanges ==
  ASSUME [SessionsNext]_sessionsVars
  PROVE  \/ UNCHANGED enrollments
         \/ \E q \in Requests : Enroll(q) \/ ConfirmEnrollment(q) \/ ConsumeStep(q)
  BY DEF SessionsNext, SessionStep, SessionLapses, LockoutEnds, UseRecoveryCode, sessionsVars,
         ReadOwner, ClearLockout, LoginFails, LoginSucceeds, SavePassword, RotateSessions,
         CreateSession, IssueCsrf, FindSession, AcceptSession, RevokeSession, VerifyCode,
         SaveRecoveryCodes, RevokeElevated, RequestEnds

\* A confirmed enrollment stays confirmed.
LEMMA ConfirmedStays ==
  ASSUME SessionsTypeOK, [SessionsNext]_sessionsVars, NEW e \in Enrollments,
         enrollments[e].state = "confirmed"
  PROVE  enrollments'[e].state = "confirmed"
<1>1. ASSUME NEW q \in Requests, Enroll(q) PROVE enrollments'[e].state = "confirmed"
  BY <1>1 DEF Enroll, SessionsTypeOK
<1>2. ASSUME NEW q \in Requests, ConfirmEnrollment(q) PROVE enrollments'[e].state = "confirmed"
  BY <1>2 DEF ConfirmEnrollment, SessionsTypeOK
<1>3. ASSUME NEW q \in Requests, ConsumeStep(q) PROVE enrollments'[e].state = "confirmed"
  BY <1>3 DEF ConsumeStep, SessionsTypeOK
<1> QED
  BY <1>1, <1>2, <1>3, EnrollmentChanges

LEMMA CodeStep ==
  ASSUME SessionsTypeOK, RequestsTyped, CodeIsChosen, [SessionsNext]_sessionsVars
  PROVE  CodeIsChosen'
<1> SUFFICES ASSUME NEW q \in Requests, req'[q].at = "coded"
             PROVE  /\ req'[q].enrollment \in Enrollments /\ req'[q].step \in Steps
                    /\ req'[q].op = "elevate" =>
                         enrollments'[req'[q].enrollment].state = "confirmed"
  BY DEF CodeIsChosen
<1>1. CASE req'[q] = req[q]
  BY <1>1, ConfirmedStays DEF CodeIsChosen
<1>2. CASE VerifyCode(q)
  <2>1. PICK e \in Enrollments, k \in Steps :
          /\ req[q].op = "elevate" => enrollments[e].state = "confirmed"
          /\ req' = [req EXCEPT ![q].at = "coded", ![q].enrollment = e, ![q].step = k]
    BY <1>2 DEF VerifyCode
  <2>2. req'[q].enrollment = e /\ req'[q].step = k /\ req'[q].op = req[q].op
    BY <2>1 DEF RequestsTyped, RequestRecords
  <2>3. UNCHANGED enrollments
    BY <1>2 DEF VerifyCode
  <2> QED
    BY <2>1, <2>2, <2>3
<1>3. CASE \/ ClearLockout(q) \/ LoginFails(q) \/ LoginSucceeds(q) \/ SavePassword(q)
           \/ AcceptSession(q) \/ Enroll(q) \/ SaveRecoveryCodes(q) \/ RequestEnds(q)
           \/ IssueCsrf(q) \/ CreateSession(q) \/ RevokeSession(q) \/ ConfirmEnrollment(q)
           \/ ConsumeStep(q) \/ RevokeElevated(q) \/ RotateSessions(q)
  BY <1>3 DEF ClearLockout, LoginFails, LoginSucceeds, SavePassword, AcceptSession, Enroll,
       SaveRecoveryCodes, RequestEnds, IssueCsrf, CreateSession, RevokeSession, ConfirmEnrollment,
       ConsumeStep, RevokeElevated, RotateSessions, Advance, RequestsTyped, RequestRecords
<1>4. CASE ReadOwner(q) \/ FindSession(q)
  BY <1>4, BeginningPlaces
<1> QED
  BY <1>1, <1>2, <1>3, <1>4, RequestsKeep DEF SessionStep

LEMMA FreshStep ==
  ASSUME SessionsTypeOK, CodeIsChosen, PendingIsFresh, [SessionsNext]_sessionsVars
  PROVE  PendingIsFresh'
<1>1. ASSUME NEW q \in Requests, Enroll(q) PROVE PendingIsFresh'
  BY <1>1 DEF Enroll, PendingIsFresh, SessionsTypeOK
<1>2. ASSUME NEW q \in Requests, ConfirmEnrollment(q) PROVE PendingIsFresh'
  BY <1>2 DEF ConfirmEnrollment, PendingIsFresh, SessionsTypeOK
<1>3. ASSUME NEW q \in Requests, ConsumeStep(q) PROVE PendingIsFresh'
  <2>1. enrollments[req[q].enrollment].state = "confirmed"
    BY <1>3 DEF ConsumeStep, CodeIsChosen, ReqAt
  <2> QED
    BY <1>3, <2>1 DEF ConsumeStep, PendingIsFresh, SessionsTypeOK
<1> QED
  BY <1>1, <1>2, <1>3, EnrollmentChanges DEF PendingIsFresh

\* The step an enrollment remembers only grows, ...
LEMMA LastGrows ==
  ASSUME SessionsTypeOK, RequestsTyped, CodeIsChosen, PendingIsFresh, [SessionsNext]_sessionsVars
  PROVE  \A e \in Enrollments : enrollments[e].last <= enrollments'[e].last
<1>0. \A e \in Enrollments : enrollments[e].last \in Nat
  BY DEF SessionsTypeOK
<1>1. ASSUME NEW q \in Requests, Enroll(q), NEW e \in Enrollments
      PROVE  enrollments[e].last <= enrollments'[e].last
  <2>1. PICK f \in Enrollments :
          /\ enrollments[f].state = "absent"
          /\ enrollments' = [enrollments EXCEPT ![f] = [state |-> "pending", last |-> 0]]
    BY <1>1 DEF Enroll
  <2>2. enrollments[f].last = 0
    BY <2>1 DEF PendingIsFresh
  <2> QED
    BY <1>0, <2>1, <2>2 DEF SessionsTypeOK
<1>2. ASSUME NEW q \in Requests, ConfirmEnrollment(q), NEW e \in Enrollments
      PROVE  enrollments[e].last <= enrollments'[e].last
  <2>1. req[q].enrollment \in Enrollments /\ req[q].step \in Nat
        /\ enrollments[req[q].enrollment].last = 0
    BY <1>2, OwnerSessionsAssumption
    DEF ConfirmEnrollment, CodeIsChosen, PendingIsFresh, ReqAt, Steps
  <2>2. enrollments' = [enrollments EXCEPT ![req[q].enrollment] =
                          [state |-> "confirmed", last |-> req[q].step]]
    BY <1>2 DEF ConfirmEnrollment
  <2> QED
    BY <1>0, <2>1, <2>2 DEF SessionsTypeOK
<1>3. ASSUME NEW q \in Requests, ConsumeStep(q), NEW e \in Enrollments
      PROVE  enrollments[e].last <= enrollments'[e].last
  <2>1. req[q].enrollment \in Enrollments /\ req[q].step \in Nat
        /\ enrollments[req[q].enrollment].last < req[q].step
    BY <1>3, OwnerSessionsAssumption DEF ConsumeStep, Consumable, CodeIsChosen, ReqAt, Steps
  <2>2. enrollments' = [enrollments EXCEPT ![req[q].enrollment].last = req[q].step]
    BY <1>3 DEF ConsumeStep
  <2> QED
    BY <1>0, <2>1, <2>2 DEF SessionsTypeOK
<1> QED
  BY <1>0, <1>1, <1>2, <1>3, EnrollmentChanges

\* ... and a code that is taken is a later one than it remembered.
LEMMA TakenIsLater ==
  ASSUME SessionsTypeOK, RequestsTyped, CodeIsChosen, PendingIsFresh, NEW q \in Requests,
         ConfirmEnrollment(q) \/ ConsumeStep(q)
  PROVE  /\ req[q].enrollment \in Enrollments /\ req[q].step \in Steps
         /\ enrollments[req[q].enrollment].last < req[q].step
         /\ enrollments'[req[q].enrollment].last = req[q].step
<1>1. req[q].enrollment \in Enrollments /\ req[q].step \in Steps
  BY DEF ConfirmEnrollment, ConsumeStep, CodeIsChosen, ReqAt
<1>2. enrollments[req[q].enrollment].last < req[q].step
  <2>1. CASE ConfirmEnrollment(q)
    <3>1. enrollments[req[q].enrollment].last = 0
      BY <1>1, <2>1 DEF ConfirmEnrollment, PendingIsFresh
    <3> QED
      BY <1>1, <3>1, OwnerSessionsAssumption DEF Steps
  <2>2. CASE ConsumeStep(q)
    BY <2>2 DEF ConsumeStep, Consumable
  <2> QED
    BY <2>1, <2>2
<1>3. enrollments'[req[q].enrollment].last = req[q].step
  BY <1>1 DEF ConfirmEnrollment, ConsumeStep, SessionsTypeOK
<1> QED
  BY <1>1, <1>2, <1>3

LEMMA RememberedStep ==
  ASSUME SessionsIInv, [SessionsNext]_sessionsVars
  PROVE  SpentIsRemembered'
<1> USE DEF SessionsIInv
<1> SUFFICES ASSUME NEW q \in Requests, Spent(q)'
             PROVE  /\ req'[q].enrollment \in Enrollments /\ req'[q].step \in Steps
                    /\ req'[q].step <= enrollments'[req'[q].enrollment].last
  BY DEF SpentIsRemembered
<1>1. req'[q].enrollment = req[q].enrollment /\ req'[q].step = req[q].step
  BY SpentCases
<1>2. CASE Spent(q)
  <2>1. /\ req[q].enrollment \in Enrollments /\ req[q].step \in Steps
        /\ req[q].step <= enrollments[req[q].enrollment].last
    BY <1>2 DEF SpentIsRemembered
  <2>2. enrollments[req[q].enrollment].last <= enrollments'[req[q].enrollment].last
    BY <2>1, LastGrows
  <2>3. /\ enrollments[req[q].enrollment].last \in Nat
        /\ enrollments'[req[q].enrollment].last \in Nat
    BY <2>1, SessionsTypeStep DEF SessionsTypeOK
  <2> QED
    BY <1>1, <2>1, <2>2, <2>3, OwnerSessionsAssumption DEF Steps
<1>3. CASE ConfirmEnrollment(q) \/ ConsumeStep(q)
  BY <1>1, <1>3, TakenIsLater, OwnerSessionsAssumption DEF Steps
<1> QED
  BY <1>2, <1>3, SpentCases

LEMMA TotpSpentStep ==
  ASSUME SessionsIInv, [SessionsNext]_sessionsVars
  PROVE  TotpStepSpentOnce'
<1> USE DEF SessionsIInv
<1> SUFFICES ASSUME NEW q \in Requests, NEW r \in Requests, Spent(q)', Spent(r)', q # r,
                    req'[q].enrollment = req'[r].enrollment, req'[q].step = req'[r].step
             PROVE  FALSE
  BY DEF TotpStepSpentOnce
<1>1. /\ req[q].enrollment = req[r].enrollment /\ req[q].step = req[r].step
      /\ Spent(q) \/ ConfirmEnrollment(q) \/ ConsumeStep(q)
      /\ Spent(r) \/ ConfirmEnrollment(r) \/ ConsumeStep(r)
  BY SpentCases
<1>2. ASSUME NEW s \in Requests, NEW t \in Requests, Spent(s),
             ConfirmEnrollment(t) \/ ConsumeStep(t),
             req[s].enrollment = req[t].enrollment, req[s].step = req[t].step
      PROVE  FALSE
  <2>1. req[s].step <= enrollments[req[s].enrollment].last /\ req[s].step \in Steps
    BY <1>2 DEF SpentIsRemembered
  <2>2. enrollments[req[t].enrollment].last < req[t].step /\ req[t].enrollment \in Enrollments
    BY <1>2, TakenIsLater
  <2>3. enrollments[req[t].enrollment].last \in Nat
    BY <2>2 DEF SessionsTypeOK
  <2> QED
    BY <1>2, <2>1, <2>2, <2>3, OwnerSessionsAssumption DEF Steps
<1>3. ASSUME ConfirmEnrollment(q) \/ ConsumeStep(q), ConfirmEnrollment(r) \/ ConsumeStep(r)
      PROVE  FALSE
  <2>1. req'[r] = req[r] /\ req'[r].at # req[r].at
    BY <1>3, OthersStay
    DEF SessionStep, ConfirmEnrollment, ConsumeStep, ReqAt, Advance, RequestsTyped, RequestRecords
  <2> QED
    BY <2>1
<1>4. CASE Spent(q) /\ Spent(r)
  BY <1>1, <1>4 DEF TotpStepSpentOnce
<1> QED
  BY <1>1, <1>2, <1>3, <1>4

-----------------------------------------------------------------------------
(* The invariant, and what follows from it.                                *)

LEMMA CountersInit == SessionsInit => (codes = 0 \/ codes = 1) /\ lapsed = {}
  BY DEF SessionsInit

LEMMA OwnerInit == SessionsInit => owner \in OwnerRows
<1>1. SessionsInit => (owner = Row(FALSE, 0, "none", 1) \/ owner = Row(TRUE, 0, "none", 1))
  BY DEF SessionsInit
<1>2. CASE owner = Row(FALSE, 0, "none", 1)
  BY <1>2, OwnerSessionsAssumption DEF Row, OwnerRows
<1>3. CASE owner = Row(TRUE, 0, "none", 1)
  BY <1>3, OwnerSessionsAssumption DEF Row, OwnerRows
<1> QED
  BY <1>1, <1>2, <1>3

LEMMA SessionsIInvInit == SessionsInit => SessionsIInv
<1> SUFFICES ASSUME SessionsInit PROVE SessionsIInv
  OBVIOUS
<1>1. RequestsTyped
  BY RequestsTypedInit
<1> DEFINE early == [[Unbegun EXCEPT !.op = "login"] EXCEPT !.at = "done"]
           row == [state |-> "live", level |-> "high_assurance", csrf |-> TRUE]
<1>2. \A q \in Requests :
        /\ req[q].at \in {"idle", "done"} /\ req[q].op \in {"read", "login"}
        /\ req[q].session = NoSession /\ req[q].dead = {} /\ req[q].seen = {}
        /\ sessions[q].state # "absent" => req[q].at = "done"
  <2>1. /\ Unbegun.at = "idle" /\ Unbegun.op = "read" /\ Unbegun.session = NoSession
        /\ Unbegun.dead = {} /\ Unbegun.seen = {}
    BY DEF Unbegun
  <2>2. /\ early.at = "done" /\ early.op = "login" /\ early.session = NoSession
        /\ early.dead = {} /\ early.seen = {}
    BY UnbegunTyped DEF Unbegun
  <2>3. \/ /\ req = [q \in Requests |-> Unbegun]
           /\ sessions = [s \in Requests |-> NoSessionRow]
        \/ /\ req = [q \in Requests |-> IF q = EarlierLogin THEN early ELSE Unbegun]
           /\ sessions = [s \in Requests |-> IF s = EarlierLogin THEN row ELSE NoSessionRow]
    BY DEF SessionsInit
  <2>4. NoSessionRow.state = "absent"
    BY DEF NoSessionRow
  <2> QED
    BY <2>1, <2>2, <2>3, <2>4
<1>6. \/ enrollments = [e \in Enrollments |-> [state |-> "absent", last |-> 0]]
      \/ \E c \in Enrollments :
           enrollments = [e \in Enrollments |-> IF e = c THEN [state |-> "confirmed", last |-> 1]
                                                 ELSE [state |-> "absent", last |-> 0]]
  BY DEF SessionsInit
<1>3. SessionsTypeOK
  <2>1. owner \in OwnerRows /\ codes \in Nat /\ lapsed \subseteq Requests
    <3>1. (codes = 0 \/ codes = 1) /\ lapsed = {}
      BY CountersInit
    <3> QED
      BY <3>1, OwnerInit
  <2>2. sessions \in [Requests -> SessionRows]
    <3>1. \/ sessions = [s \in Requests |-> NoSessionRow]
          \/ sessions = [s \in Requests |-> IF s = EarlierLogin THEN row ELSE NoSessionRow]
      BY DEF SessionsInit
    <3>2. row \in SessionRows /\ NoSessionRow \in SessionRows
      BY DEF NoSessionRow, SessionRows, Levels
    <3> QED
      BY <3>1, <3>2
  <2>3. enrollments \in [Enrollments -> EnrollmentRows]
    <3>1. /\ [state |-> "absent", last |-> 0] \in EnrollmentRows
          /\ [state |-> "confirmed", last |-> 1] \in EnrollmentRows
      BY OwnerSessionsAssumption DEF EnrollmentRows
    <3> QED
      BY <1>6, <3>1
  <2>4. \A q \in Requests :
          /\ req[q].op \in Operations /\ req[q].session \in Requests \cup {NoSession}
          /\ req[q].enrollment \in Enrollments \cup {NoEnrollment} /\ req[q].step \in 0..MaxStep
          /\ req[q].dead \subseteq Requests /\ req[q].seen \subseteq Requests
    BY <1>1 DEF RequestsTyped, RequestRecords
  <2> QED
    BY <2>1, <2>2, <2>3, <2>4 DEF SessionsTypeOK, OwnerRows, SessionRows, EnrollmentRows
<1>4. PendingIsFresh
  BY <1>6 DEF PendingIsFresh
<1>5. \A q \in Requests : ~Spent(q)
  BY <1>2 DEF Spent, ReqAt
<1> QED
  BY <1>1, <1>2, <1>3, <1>4, <1>5
  DEF SessionsIInv, CreatedIsPast, SessionIsKnown, SeenIsRevoked, CodeIsChosen, SpentIsRemembered,
      TotpStepSpentOnce

LEMMA SessionsIInvStep ==
  ASSUME SessionsIInv, [SessionsNext]_sessionsVars
  PROVE  SessionsIInv'
  BY SessionsTypeStep, RequestsTypedStep, CreatedStep, KnownStep, SeenStep, CodeStep, RememberedStep,
     FreshStep, TotpSpentStep
  DEF SessionsIInv

\* The invariant: a code, a session and a password change at each stage of their requests.
THEOREM SessionsInvariant == SessionsSpec => []SessionsIInv
  BY SessionsIInvInit, SessionsIInvStep, PTL DEF SessionsSpec

\* A revoked session is not accepted by a request that began later, and two live sessions
\* were created by requests that overlapped.
THEOREM SessionsEndForGoodAlways == SessionsSpec => []SessionsEndForGood
<1>1. SessionsIInv => SessionsEndForGood
  BY DEF SessionsIInv, SessionsEndForGood, SessionIsKnown, SeenIsRevoked, Live
<1> QED
  BY <1>1, SessionsInvariant, PTL

\* A TOTP step of an enrollment is good once, whoever asks with it.
THEOREM TotpStepSpentOnceAlways == SessionsSpec => []TotpStepSpentOnce
<1>1. SessionsIInv => TotpStepSpentOnce
  BY DEF SessionsIInv
<1> QED
  BY <1>1, SessionsInvariant, PTL

\* Every variable keeps its type.
THEOREM SessionsTypeAlways == SessionsSpec => []SessionsTypeOK
<1>1. SessionsIInv => SessionsTypeOK
  BY DEF SessionsIInv
<1> QED
  BY <1>1, SessionsInvariant, PTL

-----------------------------------------------------------------------------
(* All of them together.                                                  *)

\* Of the part that runs, its inductive invariant.
OperationsInv ==
  /\ part \in Parts
  /\ part = "connections" => ConnectionsIInv
  /\ part = "scheduling" => SchedulingInv
  /\ part = "hermes" => HermesInv
  /\ part = "sessions" => SessionsIInv
  /\ part \in {"calls", "credentials"} => CallsInv
  /\ part = "package" => PackageInv
  /\ part = "resilience" => ResilienceInv
  /\ part = "studio" => StudioInv
  /\ part \in {"charter", "reference"} => RegistryInv

\* Every part begins in its invariant.
LEMMA InitOperationsInv == OperationsInit => OperationsInv
<1> SUFFICES ASSUME OperationsInit PROVE OperationsInv
  OBVIOUS
<1> part \in Parts
  BY DEF OperationsInit
<1>1. ConnectionsIInv
  BY ConnectionsIInvInit DEF OperationsInit
<1>2. SchedulingInv
  BY InitSchedulingInv DEF OperationsInit
<1>3. HermesInv
  BY InitHermesInv DEF OperationsInit
<1>4. SessionsIInv
  BY SessionsIInvInit DEF OperationsInit
<1>5. CallsInv
  BY InitCallsInv DEF OperationsInit
<1>6. PackageInv
  BY InitPackageInv DEF OperationsInit
<1>7. ResilienceInv
  BY ResilienceInitInv DEF OperationsInit
<1>8. StudioInv
  BY InitStudioInv DEF OperationsInit
<1>9. RegistryInv
  BY InitRegistryInv DEF OperationsInit
<1> QED
  BY <1>1, <1>2, <1>3, <1>4, <1>5, <1>6, <1>7, <1>8, <1>9 DEF OperationsInv

\* A step is one of the part that runs, which stays the part that runs.
LEMMA PartMoves ==
  ASSUME [OperationsNext]_operationsVars
  PROVE  /\ part' = part
         /\ part = "connections" => [ConnectionsNext]_connectionsVars
         /\ part = "scheduling" => [SchedulingNext]_<<schedulingVars, releases>>
         /\ part = "hermes" => [HermesNext]_<<hermesVars, releases>>
         /\ part = "sessions" => [SessionsNext]_sessionsVars
         /\ part \in {"calls", "credentials"} => [CallsNext]_callsVars
         /\ part = "package" => [PackageNext]_packageVars
         /\ part = "resilience" => [ResilienceNext]_resilienceVars
         /\ part = "studio" => [StudioNext]_studioVars
         /\ part \in {"charter", "reference"} => [RegistryNext]_registryVars
<1>1. part' = part
  BY DEF OperationsNext, operationsVars
<1>2. part = "connections" => [ConnectionsNext]_connectionsVars
  BY DEF OperationsNext, operationsVars
<1>3. part = "scheduling" => [SchedulingNext]_<<schedulingVars, releases>>
  BY DEF OperationsNext, operationsVars
<1>4. part = "hermes" => [HermesNext]_<<hermesVars, releases>>
  BY DEF OperationsNext, operationsVars
<1>5. part = "sessions" => [SessionsNext]_sessionsVars
  BY DEF OperationsNext, operationsVars
<1>6. part \in {"calls", "credentials"} => [CallsNext]_callsVars
  BY DEF OperationsNext, operationsVars, CallsNext
<1>7. part = "package" => [PackageNext]_packageVars
  BY DEF OperationsNext, operationsVars
<1>8. part = "resilience" => [ResilienceNext]_resilienceVars
  BY DEF OperationsNext, operationsVars
<1>9. part = "studio" => [StudioNext]_studioVars
  BY DEF OperationsNext, operationsVars
<1>10. part \in {"charter", "reference"} => [RegistryNext]_registryVars
  BY DEF OperationsNext, operationsVars, RegistryNext
<1> QED
  BY <1>1, <1>2, <1>3, <1>4, <1>5, <1>6, <1>7, <1>8, <1>9, <1>10

\* A step of the part that runs keeps that part's invariant.
LEMMA OperationsStep == OperationsInv /\ [OperationsNext]_operationsVars => OperationsInv'
<1> SUFFICES ASSUME OperationsInv, [OperationsNext]_operationsVars PROVE OperationsInv'
  OBVIOUS
<1>1. part \in Parts /\ part' = part
  BY PartMoves DEF OperationsInv
<1>2. part = "connections" => ConnectionsIInv'
  BY PartMoves, ConnectionsIInvStep DEF OperationsInv
<1>3. part = "scheduling" => SchedulingInv'
  BY PartMoves, SchedulingStep DEF OperationsInv
<1>4. part = "hermes" => HermesInv'
  BY PartMoves, HermesStep DEF OperationsInv
<1>5. part = "sessions" => SessionsIInv'
  BY PartMoves, SessionsIInvStep DEF OperationsInv
<1>6. part \in {"calls", "credentials"} => CallsInv'
  BY PartMoves, CallsStep DEF OperationsInv
<1>7. part = "package" => PackageInv'
  BY PartMoves, PackageStep DEF OperationsInv
<1>8. part = "resilience" => ResilienceInv'
  BY PartMoves, ResilienceNextInv DEF OperationsInv
<1>9. part = "studio" => StudioInv'
  BY PartMoves, StudioStep DEF OperationsInv
<1>10. part \in {"charter", "reference"} => RegistryInv'
  BY PartMoves, RegistryStep DEF OperationsInv
<1> QED
  BY <1>1, <1>2, <1>3, <1>4, <1>5, <1>6, <1>7, <1>8, <1>9, <1>10 DEF OperationsInv

\* Every variable of every component around production keeps its type.
THEOREM OperationsTypes == OperationsSpec => []OperationsTypeOK
<1>1. OperationsInv => OperationsTypeOK
  BY StudioTyped, RegistryTyped, HermesTyped, SchedulingTyped
  DEF OperationsInv, OperationsTypeOK, ConnectionsIInv, SessionsIInv, CallsInv, PackageInv,
      ResilienceInv
<1> QED
  BY <1>1, InitOperationsInv, OperationsStep, PTL DEF OperationsSpec
=============================================================================
