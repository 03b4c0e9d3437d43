----------------------------- MODULE BacklogFeeder -----------------------------
(***************************************************************************)
(* The backlog feeder (src/automation/backlogFeeder.js and its runner      *)
(* .github/scripts/backlog-feeder.mjs): slices of a manifest become issues *)
(* when their dependencies are done and their lane is free.  A run is      *)
(* started by a timer and by every close of an issue; the workflow's       *)
(* concurrency group lets one run and keeps one waiting, which the next    *)
(* trigger replaces.  The night shift claims ready issues, the launcher    *)
(* and the dispatcher give the oldest of them to Jules, and the owner      *)
(* blocks, closes and reopens them, between any two calls of a run.        *)
(***************************************************************************)
EXTENDS Naturals, Sequences, FiniteSets, SequencesExt

CONSTANTS
  Manifest,        \* sequence of [lane, gated, needs: earlier slices]
  MaxPerLane,      \* limits.maxPerLanePerRun
  MaxOpenReady,    \* limits.maxOpenReadyIssues
  MaxIssues,       \* bounds: issues,
  MaxRuns          \* runs of the feeder

Slice == DOMAIN Manifest

ASSUME FeederAssumption ==
  /\ Slice = 1..Len(Manifest) /\ Len(Manifest) \in Nat
  /\ \A s \in Slice : Manifest[s].needs \subseteq 1..(s - 1) /\ Manifest[s].gated \in BOOLEAN
  /\ {MaxPerLane, MaxOpenReady} \subseteq 1..50 /\ {MaxIssues, MaxRuns} \subseteq Nat

VARIABLES
  issues,     \* sequence of [slice, state, labels, prs, command]: prs are the open
              \* pull requests, of the night shift, of Jules with the issue in its
              \* body, and of Jules "unnamed"; command is the command file of Jules
  lifecycle,  \* the slices recorded as completed in the repository
  run,        \* [at, event, known, plan]: known is the lifecycle of its checkout
  waiting,    \* what started the run that waits, none or one
  runs,       \* how many runs have begun
  worker,     \* the issue the night shift works on, 0 for none
  jules,      \* the issue Jules' session works on, 0 for none
  done,       \* history: slices that had an issue closed as completed
  refed       \* history: issues a run labelled ready on their close

feederVars == <<issues, lifecycle, run, waiting, runs, worker, jules, done, refed>>

\* A close is of an issue, for a reason; the timer's event is of none.
NoEvent == [issue |-> 0, reason |-> "none"]
Idle == [at |-> "idle", event |-> NoEvent, known |-> {}, plan |-> <<>>]

FeederInit ==
  /\ issues = <<>> /\ lifecycle = {} /\ run = Idle /\ waiting = {} /\ runs = 0
  /\ worker = 0 /\ jules = 0 /\ done = {} /\ refed = {}

Has(i, label) == label \in issues[i].labels
Open(i) == issues[i].state = "open"
SliceOf(i) == Manifest[issues[i].slice]

-----------------------------------------------------------------------------
(* A run.                                                                  *)

\* A run checks the commit out that was the newest when it was triggered, and
\* takes the place of the one that waits.
Triggered(event) == waiting' = {[event |-> event, known |-> lifecycle]}

\* The workflow starts the run that waits; loadLifecycle.
BeginRun ==
  /\ run = Idle /\ waiting # {} /\ runs < MaxRuns                             \* bound
  /\ \E w \in waiting :
       run' = [at |-> "closing", event |-> w.event, known |-> w.known, plan |-> <<>>]
  /\ waiting' = {} /\ runs' = runs + 1
  /\ UNCHANGED <<issues, lifecycle, worker, jules, done, refed>>

\* A mutant of Creditable: whatever the issue was closed for.
CreditableAnyway(event) == event.issue # 0
Creditable(event) == event.reason = "completed"

\* git push takes a commit on the newest one only; the others are refused.
Pushed(credited) == IF run.known = lifecycle THEN lifecycle \cup credited ELSE lifecycle

\* A mutant of Queued: with a label that nobody else knows.
QueuedByAnotherName(labels) == labels \cup {"todo", "lane"}
\* relabelReady
Queued(labels) == labels \cup {"ready", "lane"}

\* handleCloseEvents: credit for a completed slice, which has to be pushed before
\* anything else (persistLifecycleToGit), or the label for one that was not.
HandleClose ==
  /\ run.at = "closing"
  /\ LET i == run.event.issue
         credited == {issues[j].slice : j \in {i} \ {0}}
     IN \/ /\ run.event = NoEvent \/ Creditable(run.event)
           /\ credited \subseteq run.known
           /\ run' = [run EXCEPT !.at = "observing"] /\ UNCHANGED <<issues, lifecycle, refed>>
        \/ /\ Creditable(run.event) /\ ~(credited \subseteq run.known)
           /\ lifecycle' = Pushed(credited) /\ UNCHANGED <<issues, refed>>
           /\ run' = IF credited \subseteq Pushed(credited)
                     THEN [run EXCEPT !.at = "observing", !.known = @ \cup credited] ELSE Idle
        \/ /\ run.event # NoEvent /\ ~Creditable(run.event)
           /\ issues' = [issues EXCEPT ![i].labels = Queued(@)]
           /\ refed' = refed \cup {i} /\ run' = [run EXCEPT !.at = "observing"]
           /\ UNCHANGED lifecycle
  /\ UNCHANGED <<waiting, runs, worker, jules, done>>

ReadyIn(lane) ==
  {i \in DOMAIN issues : Open(i) /\ Has(i, "ready") /\ Has(i, "lane") /\ SliceOf(i).lane = lane}
Lanes == {Manifest[s].lane : s \in Slice}

\* Neither the lane nor the queue is full after those of the plan so far.
Room(plan, s) ==
  /\ Cardinality(ReadyIn(Manifest[s].lane))
       + Cardinality({p \in ToSet(plan) : Manifest[p].lane = Manifest[s].lane}) < MaxPerLane
  /\ Cardinality(UNION {ReadyIn(l) : l \in Lanes}) + Len(plan) < MaxOpenReady

\* A mutant of Promotable: dependencies have only to be promoted.
PromotableEarly(plan, s) ==
  /\ ~Manifest[s].gated /\ s \notin run.known /\ Room(plan, s)
  /\ \A d \in Manifest[s].needs : \E i \in DOMAIN issues : issues[i].slice = d
Promotable(plan, s) ==
  /\ ~Manifest[s].gated /\ s \notin run.known /\ Room(plan, s)
  /\ Manifest[s].needs \subseteq run.known

\* The plan once the first n slices of the manifest have been considered.
Considered(plan, s) == IF Promotable(plan, s) THEN Append(plan, s) ELSE plan
PlanUpTo[n \in 0..Len(Manifest)] == IF n = 0 THEN <<>> ELSE Considered(PlanUpTo[n - 1], n)

\* observeState and planPromotions.
PlanPromotions ==
  /\ run.at = "observing"
  /\ run' = [run EXCEPT !.at = "feeding", !.event = NoEvent, !.plan = PlanUpTo[Len(Manifest)]]
  /\ UNCHANGED <<issues, lifecycle, waiting, runs, worker, jules, done, refed>>

\* A mutant of IssuesOf: closed issues are not looked for.
IssuesOfOpen(s) == {i \in DOMAIN issues : issues[i].slice = s /\ Open(i)}
IssuesOf(s) == {i \in DOMAIN issues : issues[i].slice = s}

\* sliceIssueNumber has found none; createSliceIssue.
CreateIssue ==
  /\ run.at = "feeding" /\ run.plan # <<>> /\ IssuesOf(Head(run.plan)) = {}
  /\ Len(issues) < MaxIssues                                                  \* bound
  /\ issues' = Append(issues, [slice |-> Head(run.plan), state |-> "open",
                               labels |-> {"ready", "lane"}, prs |-> {}, command |-> "none"])
  /\ run' = [run EXCEPT !.plan = Tail(@)]
  /\ UNCHANGED <<lifecycle, waiting, runs, worker, jules, done, refed>>

\* A mutant of Relabelable: an issue with an open pull request is relabelled.
RelabelableAnyway(i) ==
  Open(i) /\ ~Has(i, "in-progress") /\ ~Has(i, "blocked") /\ ~(Has(i, "ready") /\ Has(i, "lane"))
\* The open pull requests that gh finds by the number of the issue.
FoundPrs(i) == issues[i].prs \ {"unnamed"}
\* classifyExistingIssueForRelabel.
Relabelable(i) ==
  /\ Open(i) /\ ~Has(i, "in-progress") /\ ~Has(i, "blocked") /\ FoundPrs(i) = {}
  /\ ~(Has(i, "ready") /\ Has(i, "lane"))

\* observeIssueForRelabel, of the newest issue: it is relabelled next, or left.
ObserveIssue ==
  /\ run.at = "feeding" /\ run.plan # <<>> /\ IssuesOf(Head(run.plan)) # {}
  /\ LET i == CHOOSE j \in IssuesOf(Head(run.plan)) : \A k \in IssuesOf(Head(run.plan)) : k <= j
     IN run' = IF Relabelable(i) THEN [run EXCEPT !.at = "relabelling", !.event = [NoEvent EXCEPT !.issue = i]]
               ELSE [run EXCEPT !.plan = Tail(@)]
  /\ UNCHANGED <<issues, lifecycle, waiting, runs, worker, jules, done, refed>>

RelabelReady ==
  /\ run.at = "relabelling"
  /\ issues' = [issues EXCEPT ![run.event.issue].labels = Queued(@)]
  /\ run' = [run EXCEPT !.at = "feeding", !.event = NoEvent, !.plan = Tail(@)]
  /\ UNCHANGED <<lifecycle, waiting, runs, worker, jules, done, refed>>

EndRun == run.at = "feeding" /\ run.plan = <<>> /\ run' = Idle
          /\ UNCHANGED <<issues, lifecycle, waiting, runs, worker, jules, done, refed>>

\* A call of gh fails, or the push does, or the job is killed.
RunFails == run # Idle /\ run' = Idle
            /\ UNCHANGED <<issues, lifecycle, waiting, runs, worker, jules, done, refed>>

-----------------------------------------------------------------------------
(* The timer, the night shift and the owner.                               *)

Timer == Triggered(NoEvent) /\ UNCHANGED <<issues, lifecycle, run, runs, worker, jules, done, refed>>

Closed(i, reason, prs) ==
  /\ issues' = [issues EXCEPT ![i] = [@ EXCEPT !.state = reason, !.prs = prs]]
  /\ done' = IF reason = "completed" THEN done \cup {issues[i].slice} ELSE done
  /\ Triggered([issue |-> i, reason |-> reason])
  /\ UNCHANGED <<lifecycle, run, runs, worker, jules, refed>>

Labelled(i, labels, prs) ==
  /\ issues' = [issues EXCEPT ![i] = [@ EXCEPT !.labels = labels, !.prs = prs]]
  /\ UNCHANGED <<lifecycle, run, waiting, runs, jules, done, refed>>

\* One implementation at a time.  The gate before it counts the open pull requests with
\* a lane's label, and those of a call that fails as none: it may let any claim pass.
Claim(i) ==
  /\ worker = 0 /\ Open(i) /\ Has(i, "ready") /\ Has(i, "lane")
  /\ ~Has(i, "blocked") /\ ~Has(i, "in-progress")
  /\ Labelled(i, (issues[i].labels \ {"ready"}) \cup {"in-progress"}, issues[i].prs)
  /\ worker' = i

\* The job may die before it takes the claim off.
OpenPr ==
  /\ worker # 0 /\ worker' = 0
  /\ \/ Labelled(worker, issues[worker].labels \ {"in-progress"}, issues[worker].prs \cup {"night"})
     \/ Labelled(worker, issues[worker].labels, issues[worker].prs \cup {"night"})

\* The issue goes back to the queue, unless a pull request for it is found, or the job
\* dies with the claim.
GiveBack ==
  /\ worker # 0 /\ worker' = 0
  /\ \/ /\ FoundPrs(worker) = {}
        /\ Labelled(worker, (issues[worker].labels \ {"in-progress"}) \cup {"ready"},
                    issues[worker].prs)
     \/ Labelled(worker, issues[worker].labels, issues[worker].prs)

\* A merge that closes the issue, which another pull request for it outlives.
MergePr(i) ==
  \E pr \in FoundPrs(i) : Open(i) /\ Closed(i, "completed", issues[i].prs \ {pr})
\* A close without a merge, or a merge that does not close the issue.
AbandonPr(i) ==
  \E pr \in issues[i].prs :
     Labelled(i, issues[i].labels, issues[i].prs \ {pr}) /\ UNCHANGED worker
CloseIssue(i) == Open(i) /\ Closed(i, "not_planned", issues[i].prs)
ReopenIssue(i) ==
  /\ ~Open(i) /\ issues' = [issues EXCEPT ![i].state = "open"]
  /\ UNCHANGED <<lifecycle, run, waiting, runs, worker, jules, done, refed>>
Block(i) ==
  Open(i) /\ Labelled(i, issues[i].labels \cup {"blocked"}, issues[i].prs) /\ UNCHANGED worker

-----------------------------------------------------------------------------
(* Jules.  Its launcher and its dispatcher are jobs of their own, which    *)
(* leave the labels of an issue as they are.                               *)

\* The launcher takes the oldest ready slice, while no pull request is open, and writes
\* its command file; a slice that has one keeps the others waiting.
Launch(i) ==
  /\ \A j \in DOMAIN issues : issues[j].prs = {}
  /\ Open(i) /\ Has(i, "ready") /\ \A j \in 1..(i - 1) : ~(Open(j) /\ Has(j, "ready"))
  /\ issues[i].command = "none"
  /\ issues' = [issues EXCEPT ![i].command = "queued"]
  /\ UNCHANGED <<lifecycle, run, waiting, runs, worker, jules, done, refed>>

\* The dispatcher, at any time after: one session at a time, for an open issue without
\* the comment that a session leaves, which may be lost.
DispatchCommand(i) ==
  /\ issues[i].command = "queued" /\ Open(i) /\ jules = 0 /\ jules' = i
  /\ issues' \in {issues, [issues EXCEPT ![i].command = "dispatched"]}
  /\ UNCHANGED <<lifecycle, run, waiting, runs, worker, done, refed>>

\* AUTO_CREATE_PR: the session ends with a pull request, or fails.
EndSession ==
  /\ jules # 0 /\ jules' = 0
  /\ \E prs \in {{}, {"jules"}, {"unnamed"}} : issues' = [issues EXCEPT ![jules].prs = @ \cup prs]
  /\ UNCHANGED <<lifecycle, run, waiting, runs, worker, done, refed>>

FeederNext ==
  \/ BeginRun \/ HandleClose \/ PlanPromotions \/ CreateIssue \/ ObserveIssue \/ RelabelReady
  \/ EndRun \/ RunFails \/ Timer \/ OpenPr \/ GiveBack \/ EndSession
  \/ \E i \in DOMAIN issues :
       \/ Claim(i) \/ MergePr(i) \/ AbandonPr(i) \/ CloseIssue(i) \/ ReopenIssue(i) \/ Block(i)
       \/ Launch(i) \/ DispatchCommand(i)

FeederSpec == FeederInit /\ [][FeederNext]_feederVars

-----------------------------------------------------------------------------
(* Properties                                                              *)

Events == [issue : 0..Len(issues), reason : {"none", "completed", "not_planned"}]
FeederTypeOK ==
  /\ issues \in Seq([slice : Slice, state : {"open", "completed", "not_planned"},
                     labels : SUBSET {"ready", "lane", "in-progress", "blocked"},
                     prs : SUBSET {"night", "jules", "unnamed"},
                     command : {"none", "queued", "dispatched"}])
  /\ lifecycle \subseteq Slice /\ runs \in 0..MaxRuns
  /\ waiting \subseteq [event : Events, known : SUBSET Slice]
  /\ run \in [at : {"idle", "closing", "observing", "feeding", "relabelling"},
              event : Events, known : SUBSET Slice, plan : Seq(Slice)]
  /\ worker \in 0..Len(issues) /\ jules \in 0..Len(issues)
  /\ done \subseteq Slice /\ refed \subseteq DOMAIN issues

\* "Never duplicate the issue": a slice has one issue however runs fail, overlap with
\* closes, claims and reopenings; it has one only if it is not the owner's and what it
\* needs was recorded as completed; credit goes to slices an issue of which was closed
\* as completed; and an issue in the ready queue is not the night shift's work already,
\* claimed or up for review, unless its close, not as completed, put it back there.
\* It may well be Jules' work, which shows on no label.
SlicesFedOnce ==
  /\ \A s \in Slice : Cardinality(IssuesOf(s)) <= 1
  /\ \A i \in DOMAIN issues : ~SliceOf(i).gated /\ SliceOf(i).needs \subseteq lifecycle
  /\ lifecycle \subseteq done
  /\ \A i \in DOMAIN issues \ refed :
       Open(i) /\ Has(i, "ready") => "night" \notin issues[i].prs /\ ~Has(i, "in-progress")
===============================================================================
