-------------------------- MODULE CommunicationStudio --------------------------
(***************************************************************************)
(* catalog/ownerAgentCommunicationStudio.js: the blueprint of one owner,   *)
(* agent and universe, talked over in one session.  Drafts are edited by   *)
(* accepted proposals, accepted suggestions and the owner's direct edits;  *)
(* a version freezes a draft's snapshot, approval takes a version and      *)
(* retires its draft, and an edit of a retired draft goes to a successor.  *)
(* The maps are in memory and every call is synchronous: what is at stake  *)
(* is the order in which the calls come.                                   *)
(***************************************************************************)
EXTENDS Naturals, Sequences

CONSTANTS
  Sections,      \* of a blueprint; the code has 22
  Answers,       \* values a section may be given
  MaxDrafts,     \* bounds: drafts,
  MaxVersions,   \* versions,
  MaxRevision,   \* revisions of a draft,
  MaxTalk        \* proposed changes, suggestions and questions, each

ASSUME StudioAssumption == MaxRevision \in Nat \ {0}

None == "none"

VARIABLES
  drafts,       \* <<[revision, snapshot, active, predecessor]>>, the last 0 or a version
  versions,     \* <<[draft, snapshot, status]>>
  validated,    \* validationResults that are valid: <<draft, snapshot>>
  changes,      \* <<[draft, section, value, status]>>
  suggestions,  \* <<[draft, section, value, status]>>
  questions,    \* <<[draft, section, open]>>
  activeQuestion \* of the session: 0 or a question

studioVars == <<drafts, versions, validated, changes, suggestions, questions, activeQuestion>>

Draft(snapshot, predecessor) ==
  [revision |-> 1, snapshot |-> snapshot, active |-> TRUE, predecessor |-> predecessor]

StudioInit ==
  /\ drafts = << >> /\ versions = << >> /\ validated = {} /\ changes = << >>
  /\ suggestions = << >> /\ questions = << >> /\ activeQuestion = 0

\* createBlueprintDraft.
CreateDraft ==
  /\ Len(drafts) < MaxDrafts                                                \* bound
  /\ drafts' = Append(drafts, Draft([s \in Sections |-> None], 0))
  /\ UNCHANGED <<versions, validated, changes, suggestions, questions, activeQuestion>>

-----------------------------------------------------------------------------
(* forkApprovedDraftIfNeeded                                               *)

ApprovedOf(d) == {v \in DOMAIN versions : versions[v].draft = d /\ versions[v].status = "approved"}

\* A mutant of SuccessorsOf: a successor is made whenever one is asked for.
NoSuccessors(v) == {}
SuccessorsOf(v) == {d \in DOMAIN drafts : drafts[d].predecessor = v /\ drafts[d].active}

\* The draft an edit of d goes to, and the drafts once it is there: d while it is
\* active, the active successor of its approved version, or a new one.
Aims(d) ==
  IF drafts[d].active THEN {[target |-> d, drafts |-> drafts]}
  ELSE {IF SuccessorsOf(v) # {}
        THEN [target |-> CHOOSE e \in SuccessorsOf(v) : TRUE, drafts |-> drafts]
        ELSE [target |-> Len(drafts) + 1,
              drafts |-> Append(drafts, Draft(versions[v].snapshot, v))] : v \in ApprovedOf(d)}

Write(aim, s, x) ==
  [aim.drafts EXCEPT ![aim.target] =
     [revision |-> @.revision + 1, snapshot |-> [@.snapshot EXCEPT ![s] = x],
      active |-> @.active, predecessor |-> @.predecessor]]

\* An owner's reading of the draft's revision may be old: then the write is
\* refused, and a successor that was forked for it stays.
Fresh(aim) == aim.drafts[aim.target].revision < MaxRevision                 \* bound
Bounded(aim) == Len(aim.drafts) <= MaxDrafts                                \* bound

-----------------------------------------------------------------------------
(* Proposals, direct edits and suggestions                                 *)

Item(d, s, x) == [draft |-> d, section |-> s, value |-> x, status |-> "proposed"]

\* The fork comes before the section and the value are looked at.
ProposeChange(d, s, x) ==
  /\ Len(changes) < MaxTalk
  /\ \E aim \in Aims(d) :
       /\ Bounded(aim) /\ drafts' = aim.drafts
       /\ changes' = Append(changes, Item(aim.target, s, x)) \/ UNCHANGED changes
  /\ UNCHANGED <<versions, validated, suggestions, questions, activeQuestion>>

\* The change is accepted; the other proposals of its section are superseded.
Accepted(list, i) ==
  [j \in DOMAIN list |->
     IF j = i THEN [list[j] EXCEPT !.status = "accepted"]
     ELSE IF /\ list[j].draft = list[i].draft /\ list[j].section = list[i].section
             /\ list[j].status = "proposed"
          THEN [list[j] EXCEPT !.status = "superseded"] ELSE list[j]]

AcceptChange(d, c) ==
  /\ \E aim \in Aims(d) :
       /\ Bounded(aim)
       /\ \/ /\ changes[c].draft = aim.target /\ changes[c].status = "proposed" /\ Fresh(aim)
             /\ drafts' = Write(aim, changes[c].section, changes[c].value)
             /\ changes' = Accepted(changes, c)
          \/ drafts' = aim.drafts /\ UNCHANGED changes       \* STALE_WRITE_REJECTED, PROPOSED_CHANGE_...
  /\ UNCHANGED <<versions, validated, suggestions, questions, activeQuestion>>

RejectChange(c) ==
  /\ changes[c].status = "proposed"
  /\ changes' = [changes EXCEPT ![c].status = "rejected"]
  /\ UNCHANGED <<drafts, versions, validated, suggestions, questions, activeQuestion>>

DirectEdit(d, s, x) ==
  /\ \E aim \in Aims(d) :
       /\ Bounded(aim)
       /\ \/ Fresh(aim) /\ drafts' = Write(aim, s, x)
          \/ drafts' = aim.drafts
  /\ UNCHANGED <<versions, validated, changes, suggestions, questions, activeQuestion>>

ProposeSuggestion(d, s, x) ==
  /\ drafts[d].active /\ Len(suggestions) < MaxTalk
  /\ suggestions' = Append(suggestions, Item(d, s, x))
  /\ UNCHANGED <<drafts, versions, validated, changes, questions, activeQuestion>>

\* acceptSuggestion proposes the change and accepts it; on a stale revision the
\* proposal stays behind.
AcceptSuggestion(g) ==
  /\ suggestions[g].status = "proposed" /\ Len(changes) < MaxTalk
  /\ \E aim \in Aims(suggestions[g].draft) :
       LET proposed == Append(changes, Item(aim.target, suggestions[g].section, suggestions[g].value))
       IN /\ Bounded(aim)
          /\ \/ /\ Fresh(aim)
                /\ drafts' = Write(aim, suggestions[g].section, suggestions[g].value)
                /\ changes' = Accepted(proposed, Len(proposed))
                /\ suggestions' = Accepted(suggestions, g)
             \/ /\ drafts' = aim.drafts /\ changes' = proposed
                /\ UNCHANGED suggestions
  /\ UNCHANGED <<versions, validated, questions, activeQuestion>>

RejectSuggestion(g) ==
  /\ suggestions[g].status = "proposed"
  /\ suggestions' = [suggestions EXCEPT ![g].status = "rejected"]
  /\ UNCHANGED <<drafts, versions, validated, changes, questions, activeQuestion>>

-----------------------------------------------------------------------------
(* Questions                                                               *)

RaiseQuestion(d, s) ==
  /\ drafts[d].active /\ Len(questions) < MaxTalk
  /\ activeQuestion # 0 => ~questions[activeQuestion].open
  /\ questions' = Append(questions, [draft |-> d, section |-> s, open |-> TRUE])
  /\ activeQuestion' = Len(questions) + 1
  /\ UNCHANGED <<drafts, versions, validated, changes, suggestions>>

\* The answer is a proposed change of the same draft.
ResolveQuestion(q, x) ==
  /\ questions[q].open /\ drafts[questions[q].draft].active /\ Len(changes) < MaxTalk
  /\ changes' = Append(changes, Item(questions[q].draft, questions[q].section, x))
  /\ questions' = [questions EXCEPT ![q].open = FALSE]
  /\ activeQuestion' = IF activeQuestion = q THEN 0 ELSE activeQuestion
  /\ UNCHANGED <<drafts, versions, validated, suggestions>>

OpenOn(d) == {q \in DOMAIN questions : questions[q].draft = d /\ questions[q].open}

-----------------------------------------------------------------------------
(* Validation, versions and approval                                       *)

\* No section is empty and no question of the draft is open.
Valid(d) == OpenOn(d) = {} /\ \A s \in Sections : drafts[d].snapshot[s] # None

ValidateDraft(d) ==
  /\ Valid(d) /\ validated' = validated \cup {<<d, drafts[d].snapshot>>}
  /\ UNCHANGED <<drafts, versions, changes, suggestions, questions, activeQuestion>>

CreateVersion(d) ==
  /\ drafts[d].active /\ Valid(d) /\ Len(versions) < MaxVersions            \* bound
  /\ validated' = validated \cup {<<d, drafts[d].snapshot>>}
  /\ versions' = Append(versions, [draft |-> d, snapshot |-> drafts[d].snapshot,
                                   status |-> "unapproved"])
  /\ UNCHANGED <<drafts, changes, suggestions, questions, activeQuestion>>

\* A mutant of Approvable: questions that were raised since are not looked at.
ApprovableAsValidated(v) ==
  /\ versions[v].status = "unapproved"
  /\ <<versions[v].draft, versions[v].snapshot>> \in validated
Approvable(v) ==
  /\ versions[v].status = "unapproved"
  /\ <<versions[v].draft, versions[v].snapshot>> \in validated
  /\ OpenOn(versions[v].draft) = {}

\* A mutant of Superseding: the approved version of another draft is left.
SupersedingOwn(v) == ApprovedOf(versions[v].draft)
Superseding(v) == {w \in DOMAIN versions : versions[w].status = "approved"}

\* approveExactBlueprintVersion: also of an older version, and of a draft that an
\* earlier approval retired.
ApproveVersion(v) ==
  /\ Approvable(v)
  /\ versions' = [w \in DOMAIN versions |->
                    IF w = v THEN [versions[w] EXCEPT !.status = "approved"]
                    ELSE IF w \in Superseding(v) THEN [versions[w] EXCEPT !.status = "superseded"]
                    ELSE versions[w]]
  /\ drafts' = [drafts EXCEPT ![versions[v].draft].active = FALSE]
  /\ UNCHANGED <<validated, changes, suggestions, questions, activeQuestion>>

StudioNext ==
  \/ CreateDraft
  \/ \E d \in DOMAIN drafts :
       \/ ValidateDraft(d) \/ CreateVersion(d)
       \/ \E c \in DOMAIN changes : AcceptChange(d, c)
       \/ \E s \in Sections :
            \/ RaiseQuestion(d, s)
            \/ \E x \in Answers : ProposeChange(d, s, x) \/ DirectEdit(d, s, x) \/ ProposeSuggestion(d, s, x)
  \/ \E c \in DOMAIN changes : RejectChange(c)
  \/ \E g \in DOMAIN suggestions : AcceptSuggestion(g) \/ RejectSuggestion(g)
  \/ \E q \in DOMAIN questions, x \in Answers : ResolveQuestion(q, x)
  \/ \E v \in DOMAIN versions : ApproveVersion(v)

StudioSpec == StudioInit /\ [][StudioNext]_studioVars

-----------------------------------------------------------------------------
(* Properties                                                              *)

StudioTypeOK ==
  LET Contents == [Sections -> Answers \cup {None}]
      Talk == {"proposed", "accepted", "rejected", "superseded"}
      Listed(list) == \A i \in DOMAIN list :
        list[i] \in [draft : DOMAIN drafts, section : Sections, value : Answers, status : Talk]
  IN /\ \A d \in DOMAIN drafts :
          drafts[d] \in [revision : 1..MaxRevision, snapshot : Contents, active : BOOLEAN,
                         predecessor : {0} \cup DOMAIN versions]
     /\ \A v \in DOMAIN versions :
          versions[v] \in [draft : DOMAIN drafts, snapshot : Contents,
                           status : {"unapproved", "approved", "superseded"}]
     /\ validated \subseteq (DOMAIN drafts) \X Contents
     /\ Listed(changes) /\ Listed(suggestions)
     /\ \A q \in DOMAIN questions :
          questions[q] \in [draft : DOMAIN drafts, section : Sections, open : BOOLEAN]
     /\ activeQuestion \in {0} \cup DOMAIN questions

\* In whatever order drafts are edited, versioned and approved, of one scope at
\* most one version is approved, its draft is retired with no question open and
\* was validated with exactly that snapshot, and edits after the approval have
\* one successor draft to go to: what generateProductionWorkerContext gives the
\* workers is one answered, validated blueprint.
OneApprovedBlueprint ==
  \A v \in DOMAIN versions :
    /\ \A d, e \in DOMAIN drafts :
         drafts[d].active /\ drafts[e].active /\ drafts[d].predecessor = v /\ drafts[e].predecessor = v
           => d = e
    /\ versions[v].status = "approved" =>
         /\ \A w \in DOMAIN versions : versions[w].status = "approved" => w = v
         /\ ~drafts[versions[v].draft].active /\ OpenOn(versions[v].draft) = {}
         /\ <<versions[v].draft, versions[v].snapshot>> \in validated
===============================================================================
