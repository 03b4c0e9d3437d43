--------------------------- MODULE CreativeRegistry ---------------------------
(***************************************************************************)
(* The owner's in-memory registries: catalog/creativeCharter.js (a charter *)
(* with versioned snapshots, their approvals and the agents' assignments)  *)
(* and catalog/creativeReferenceLibrary.js (a reference with the profiles  *)
(* drawn from it).  Calls are synchronous; what is at stake is the order   *)
(* of approvals, edits, activations and deactivations.  One charter and    *)
(* one reference of one owner, by whom every call is made.                 *)
(***************************************************************************)
EXTENDS Naturals, Sequences

CONSTANTS
  Agents,
  Snapshots,       \* contents of a profile
  MaxItems,        \* bound: versions, profiles, assignments, each
  MaxEdits,        \* bound: texts of the charter, revisions of an assignment
  MaxWrites        \* bound: revisions of a profile, of the reference

ASSUME RegistryAssumption == MaxEdits \in Nat \ {0} /\ MaxWrites \in Nat \ {0}

VARIABLES
  charter,        \* [status, text]: the vision and name edited so many times
  charterVersions, \* <<[approved, active]>>; snapshots are frozen
  charterApprovals, \* {<<version, agent, text>>}; the text is history: it was the
                    \* charter's when the owner approved, and no approval keeps it
  assignments,    \* <<[agent, active, revision]>>
  reference,      \* [active, revision]
  profiles,       \* <<[snapshot, status, active, revision]>>
  profileApprovals \* {<<profile, snapshot>>}, as the owner read it

charterVars == <<charter, charterVersions, charterApprovals, assignments>>
referenceVars == <<reference, profiles, profileApprovals>>
registryVars == <<charter, charterVersions, charterApprovals, assignments, reference, profiles,
                  profileApprovals>>

RegistryInit ==
  /\ charter = [status |-> "draft", text |-> 1] /\ charterVersions = << >>
  /\ charterApprovals = {} /\ assignments = << >>
  /\ reference = [active |-> TRUE, revision |-> 1] /\ profiles = << >> /\ profileApprovals = {}

-----------------------------------------------------------------------------
(* The charter                                                             *)

Draftable == charter.status \notin {"approved", "active"}

EditCharter ==
  /\ Draftable /\ charter.text < MaxEdits
  /\ charter' = [charter EXCEPT !.text = @ + 1]
  /\ UNCHANGED <<charterVersions, charterApprovals, assignments, referenceVars>>

NewVersion ==
  /\ Draftable /\ Len(charterVersions) < MaxItems
  /\ charterVersions' = Append(charterVersions, [approved |-> FALSE, active |-> FALSE])
  /\ UNCHANGED <<charter, charterApprovals, assignments, referenceVars>>

ApprovedFor(v, a) == \E text \in 1..MaxEdits : <<v, a, text>> \in charterApprovals

\* approveExactImmutableVersion: an active charter becomes merely "approved".
ApproveCharter(v, a) ==
  /\ charterApprovals' = charterApprovals \cup {<<v, a, charter.text>>}
  /\ charterVersions' = [charterVersions EXCEPT ![v].approved = TRUE]
  /\ charter' = [charter EXCEPT !.status = "approved"]
  /\ UNCHANGED <<assignments, referenceVars>>

\* A mutant of OthersOff: activation leaves the other versions as they are.
OthersAsTheyAre(versions) == versions
OthersOff(versions) == [w \in DOMAIN versions |-> [versions[w] EXCEPT !.active = FALSE]]

\* activateApprovedVersion with some approval of this version, for whichever agent.
ActivateVersion(v) ==
  /\ \E a \in Agents : ApprovedFor(v, a)
  /\ charterVersions' = [OthersOff(charterVersions) EXCEPT ![v].active = TRUE]
  /\ charter' = [charter EXCEPT !.status = "active"]
  /\ UNCHANGED <<charterApprovals, assignments, referenceVars>>

DeactivateCharter ==
  /\ charter' = [charter EXCEPT !.status = "inactive"]
  /\ charterVersions' = [v \in DOMAIN charterVersions |-> [charterVersions[v] EXCEPT !.active = FALSE]]
  /\ UNCHANGED <<charterApprovals, assignments, referenceVars>>

\* assignCharterToInternalAgent: by the approval of the version that is active; an
\* active assignment of the agent is answered again.
AssignCharter(a) ==
  /\ \E v \in DOMAIN charterVersions :
       charterVersions[v].active /\ charterVersions[v].approved /\ ApprovedFor(v, a)
  /\ \A i \in DOMAIN assignments : ~(assignments[i].agent = a /\ assignments[i].active)
  /\ Len(assignments) < MaxItems
  /\ assignments' = Append(assignments, [agent |-> a, active |-> TRUE, revision |-> 1])
  /\ UNCHANGED <<charter, charterVersions, charterApprovals, referenceVars>>

\* updateAssignment: the other assignments of the agent are not looked at.
UpdateAssignment(i, active) ==
  /\ assignments[i].revision < MaxEdits
  /\ assignments' = [assignments EXCEPT ![i].active = active, ![i].revision = @ + 1]
  /\ UNCHANGED <<charter, charterVersions, charterApprovals, referenceVars>>

-----------------------------------------------------------------------------
(* The reference and its profiles                                          *)

UpdateReference(active) ==
  /\ reference.revision < MaxWrites
  /\ reference' = [active |-> active, revision |-> reference.revision + 1]
  /\ UNCHANGED <<charterVars, profiles, profileApprovals>>

DeactivateReference ==
  /\ reference' = [reference EXCEPT !.active = FALSE]
  /\ UNCHANGED <<charterVars, profiles, profileApprovals>>

CreateProfile(s) ==
  /\ Len(profiles) < MaxItems
  /\ profiles' = Append(profiles, [snapshot |-> s, status |-> "submitted", active |-> FALSE,
                                   revision |-> 1])
  /\ UNCHANGED <<charterVars, reference, profileApprovals>>

\* A mutant of Editable: the approval is forgotten until the profile is in use.
EditableUntilActive(p) == ~profiles[p].active
Editable(p) == profiles[p].status # "approved"

\* updateProfileSnapshot: the status, "awaiting_owner_review" too, stays.
UpdateProfile(p, s) ==
  /\ Editable(p) /\ profiles[p].revision < MaxWrites
  /\ profiles' = [profiles EXCEPT ![p].snapshot = s, ![p].revision = @ + 1]
  /\ UNCHANGED <<charterVars, reference, profileApprovals>>

\* transitionToDraftProfileReady and submitProfileForApproval.
SubmitProfile(p) ==
  /\ \/ /\ profiles[p].status = "submitted"
        /\ profiles' = [profiles EXCEPT ![p].status = "draft_profile_ready"]
     \/ /\ profiles[p].status = "draft_profile_ready"
        /\ profiles' = [profiles EXCEPT ![p].status = "awaiting_owner_review"]
  /\ UNCHANGED <<charterVars, reference, profileApprovals>>

\* A mutant of Shown: the hash the owner read is not compared.
ShownWhatever(p) == Snapshots
Shown(p) == {profiles[p].snapshot}

\* approveExactProfileSnapshot: the owner approves the hash of what was read.
ApproveProfile(p, read) ==
  /\ profiles[p].status = "awaiting_owner_review" /\ read \in Shown(p)
  /\ profileApprovals' = profileApprovals \cup {<<p, read>>}
  /\ profiles' = [profiles EXCEPT ![p].status = "approved"]
  /\ UNCHANGED <<charterVars, reference>>

ActivateProfile(p) ==
  /\ <<p, profiles[p].snapshot>> \in profileApprovals /\ profiles[p].revision < MaxWrites
  /\ profiles' = [q \in DOMAIN profiles |->
                    IF q = p THEN [profiles[q] EXCEPT !.active = TRUE, !.revision = @ + 1]
                    ELSE [profiles[q] EXCEPT !.active = FALSE]]
  /\ UNCHANGED <<charterVars, reference, profileApprovals>>

CharterNext ==
  \/ EditCharter \/ NewVersion \/ DeactivateCharter
  \/ \E v \in DOMAIN charterVersions : ActivateVersion(v) \/ \E a \in Agents : ApproveCharter(v, a)
  \/ \E a \in Agents : AssignCharter(a)
  \/ \E i \in DOMAIN assignments, b \in BOOLEAN : UpdateAssignment(i, b)

ReferenceNext ==
  \/ DeactivateReference \/ \E b \in BOOLEAN : UpdateReference(b)
  \/ \E s \in Snapshots :
       \/ CreateProfile(s)
       \/ \E p \in DOMAIN profiles : UpdateProfile(p, s) \/ ApproveProfile(p, s)
  \/ \E p \in DOMAIN profiles : SubmitProfile(p) \/ ActivateProfile(p)

RegistryNext == CharterNext \/ ReferenceNext

RegistrySpec == RegistryInit /\ [][RegistryNext]_registryVars

-----------------------------------------------------------------------------
(* Properties                                                              *)

RegistryTypeOK ==
  /\ charter \in [status : {"draft", "approved", "active", "inactive"}, text : 1..MaxEdits]
  /\ charterVersions \in Seq([approved : BOOLEAN, active : BOOLEAN])
  /\ charterApprovals \subseteq (DOMAIN charterVersions) \X Agents \X (1..MaxEdits)
  /\ assignments \in Seq([agent : Agents, active : BOOLEAN, revision : 1..MaxEdits])
  /\ reference \in [active : BOOLEAN, revision : 1..MaxWrites]
  /\ profiles \in Seq([snapshot : Snapshots, active : BOOLEAN, revision : 1..MaxWrites,
        status : {"submitted", "draft_profile_ready", "awaiting_owner_review", "approved"}])
  /\ profileApprovals \subseteq (DOMAIN profiles) \X Snapshots

\* What is active was approved, through edits, deactivations, assignments and later
\* versions: the charter has one active version, which an approval names, for some agent;
\* an assigned agent was named by some approval; a charter that stands as approved has a
\* text it was approved with; and a profile that is approved or active has the very snapshot
\* its approval names, one active profile for the reference.  It is no more than that: an
\* active charter's own text may have been edited since, and an agent is shown whichever
\* version is active.
ActiveAsApproved ==
  /\ \A v, w \in DOMAIN charterVersions :
       charterVersions[v].active =>
         /\ \E a \in Agents : ApprovedFor(v, a)
         /\ charterVersions[w].active => v = w
  /\ \A i \in DOMAIN assignments :
       \E v \in DOMAIN charterVersions : ApprovedFor(v, assignments[i].agent)
  /\ charter.status = "approved" => \E r \in charterApprovals : r[3] = charter.text
  /\ \A p, q \in DOMAIN profiles :
       /\ profiles[p].active /\ profiles[q].active => p = q
       /\ profiles[p].status = "approved" \/ profiles[p].active
            => <<p, profiles[p].snapshot>> \in profileApprovals
===============================================================================
