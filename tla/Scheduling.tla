------------------------------ MODULE Scheduling ------------------------------
(***************************************************************************)
(* The production schedule of one Director: scheduling/directorSchedule.js *)
(* (which slots a day has), productionScheduler.js (one tick over them),   *)
(* backgroundSchedulerTrigger.js (ticks of a timer, never two at a time),  *)
(* the owner's "run now" route, and the slot rows of scheduleRepository.js.*)
(* Ticks of the two kinds interleave at every await; one may fail, or die  *)
(* with the process, at any of them.  Local time is a count of minutes.    *)
(*                                                                         *)
(* A background tick is one that was given a schedule repository, as the   *)
(* trigger's tests give it.                                                *)
(***************************************************************************)
EXTENDS Episodes, Integers, Sequences

CONSTANTS
  Ticks, BackgroundTicks, \* tick processes; those of the timer
  DayMinutes, LastMinute, \* minutes of a day; bound on time
  MaxSpacing,             \* minutes between two slots (480)
  Schedules,              \* settings the owner may save
  EpisodesPerDayLimit,    \* of a schedule (EPISODES_PER_DAY_SAFE_LIMIT)
  MaxConcurrentJobs       \* per Director

ASSUME SchedulingAssumption ==
  /\ BackgroundTicks \subseteq Ticks
  /\ DayMinutes \in Nat \ {0} /\ LastMinute \in Nat
  /\ MaxSpacing \in Nat \ {0} /\ MaxConcurrentJobs \in Nat \ {0}
  /\ EpisodesPerDayLimit \in Nat \ {0}
  /\ \A s \in Schedules :
       s.enabled \in BOOLEAN /\ s.start \in 0..(DayMinutes - 1)
       /\ s.perDay \in 1..EpisodesPerDayLimit /\ s.days \subseteq Nat

VARIABLES
  minute, schedule, hasChannel,
  slotRows,  \* director_schedule_slots: [slot -> state and episode]
  delays,    \* history: slots that have ever been delayed
  tick       \* [tick -> where it is and what it has read]

schedulingVars == <<minute, schedule, hasChannel, slotRows, delays, tick>>

Days == 0..(LastMinute \div DayMinutes)
SlotsPerDay == 0..(EpisodesPerDayLimit - 1)
Slots == Days \X SlotsPerDay
SlotStates == {"absent", "pending", "queued", "delayed", "blocked", "skipped"}

-----------------------------------------------------------------------------
(* planDailySlots and planDirectorProductionWindow, lookbackDays = 1.      *)

Spacing(s) ==
  LET even == (DayMinutes - s.start) \div s.perDay IN
  IF even > MaxSpacing THEN MaxSpacing ELSE IF even < 1 THEN 1 ELSE even

SlotStart(s, d, i) == d * DayMinutes + s.start + i * Spacing(s)

Work(d, n, missed) == [k \in 1..n |-> [slot |-> <<d, k - 1>>, missed |-> missed]]

\* Yesterday's slots are missed; today's are due once they have started.
WindowOf(s, now) ==
  LET today == now \div DayMinutes
      due == Cardinality({i \in 0..(s.perDay - 1) : SlotStart(s, today, i) <= now})
  IN (IF today - 1 \in s.days THEN Work(today - 1, s.perDay, TRUE) ELSE <<>>)
     \o (IF today \in s.days THEN Work(today, due, FALSE) ELSE <<>>)

-----------------------------------------------------------------------------
Resting == [at |-> "idle", work |-> <<>>, next |-> 0, room |-> 0, channel |-> FALSE]

SchedulingInit ==
  /\ minute = 0 /\ schedule \in Schedules
  /\ hasChannel \in BOOLEAN
  /\ slotRows = [s \in Slots |-> [state |-> "absent", episode |-> 0]]
  /\ delays = {}
  /\ tick = [t \in Ticks |-> Resting]

AtPlace(t, p) == tick[t].at = p
Becomes(t, r) == tick' = [tick EXCEPT ![t] = r]
MoveTick(t, p) == tick' = [tick EXCEPT ![t].at = p]
Origin(s) == <<"schedule", s[1], s[2]>>
Slot(t) == Head(tick[t].work).slot
Missed(t) == Head(tick[t].work).missed
SlotDone(t) == [tick[t] EXCEPT !.at = "slot", !.work = Tail(@)]

\* markSlot.
MarkSlot(s, state, e) ==
  /\ slotRows' = [slotRows EXCEPT ![s] = [state |-> state, episode |-> e]]
  /\ delays' = IF state = "delayed" THEN delays \cup {s} ELSE delays

\* state.running of the trigger.
Running == \E t \in BackgroundTicks : ~AtPlace(t, "idle")

\* The settings and the time are read once; a paused Director has no effect.
StartTick(t) ==
  /\ AtPlace(t, "idle") /\ schedule.enabled
  /\ t \in BackgroundTicks => ~Running
  /\ WindowOf(schedule, minute) # <<>>
  /\ Becomes(t, [Resting EXCEPT !.at = "facts", !.work = WindowOf(schedule, minute)])
  /\ UNCHANGED <<minute, schedule, hasChannel, slotRows, delays, releases>>

\* The episode to plan next, and how many jobs there is room for: none if the
\* provider's quota is exhausted, else as many as the Director's queued, leased
\* and running jobs leave (an UNKNOWN quota admits).
ReadFacts(t) ==
  /\ AtPlace(t, "facts")
  /\ \E room \in 0..MaxConcurrentJobs :
       Becomes(t, [tick[t] EXCEPT !.at = "slot", !.channel = hasChannel, !.next = NextEpisode,
                                  !.room = room])
  /\ UNCHANGED <<minute, schedule, hasChannel, slotRows, delays, releases>>

\* A mutant of FreeSlot: a slot left pending is taken over.
FreeOrPending(s) == slotRows[s].state \in {"absent", "pending"}
FreeSlot(s) == slotRows[s].state = "absent"

\* claimSlot: INSERT ... ON CONFLICT DO NOTHING.
ClaimSlot(t) ==
  /\ AtPlace(t, "slot") /\ tick[t].work # <<>>
  /\ IF FreeSlot(Slot(t))
     THEN MarkSlot(Slot(t), "pending", 0) /\ MoveTick(t, "claimed")
     ELSE MoveTick(t, "taken") /\ UNCHANGED <<slotRows, delays>>
  /\ UNCHANGED <<minute, schedule, hasChannel, releases>>

\* claimOrRead: a delayed slot that is still due is attempted again.
Retried(t) == slotRows[Slot(t)].state = "delayed" /\ ~Missed(t)

ReadSlot(t) ==
  /\ AtPlace(t, "taken")
  /\ IF Retried(t) THEN MoveTick(t, "claimed") ELSE Becomes(t, SlotDone(t))
  /\ UNCHANGED <<minute, schedule, hasChannel, slotRows, delays, releases>>

MarkMissed(t) ==
  /\ AtPlace(t, "claimed") /\ Missed(t)
  /\ MarkSlot(Slot(t), "skipped", 0) /\ Becomes(t, SlotDone(t))
  /\ UNCHANGED <<minute, schedule, hasChannel, releases>>

\* A mutant of Admitted: the room that was read is not counted down to none.
AdmittedAnyway(t) == tick[t].room \in 0..MaxConcurrentJobs
\* evaluateSlotAdmission, over what the tick has read and made itself.
Admitted(t) == tick[t].room > 0

DeclineSlot(t) ==
  /\ AtPlace(t, "claimed") /\ ~Missed(t)
  /\ \/ ~tick[t].channel /\ MarkSlot(Slot(t), "blocked", 0)
     \/ tick[t].channel /\ ~Admitted(t) /\ MarkSlot(Slot(t), "delayed", 0)
  /\ Becomes(t, SlotDone(t))
  /\ UNCHANGED <<minute, schedule, hasChannel, releases>>

QueueEpisode(t) ==
  /\ AtPlace(t, "claimed") /\ ~Missed(t) /\ tick[t].channel /\ Admitted(t)
  /\ tick[t].next \in Episodes
  /\ CreateReleaseWithJob(tick[t].next, Origin(Slot(t)),
                          MoveTick(t, "created"), MoveTick(t, "refused"), MoveTick(t, "refused"))
  /\ UNCHANGED <<minute, schedule, hasChannel, slotRows, delays>>

\* PRODUCTION_SLOT_TAKEN and SCHEDULE_QUEUE_FAILED.
MarkBlocked(t) ==
  /\ AtPlace(t, "refused")
  /\ MarkSlot(Slot(t), "blocked", 0) /\ Becomes(t, SlotDone(t))
  /\ UNCHANGED <<minute, schedule, hasChannel, releases>>

\* A mutant of QueuedAs: the allocation has moved on already.
QueuedAsNext(t) == IF tick[t].next + 1 \in Episodes THEN tick[t].next + 1 ELSE tick[t].next
QueuedAs(t) == tick[t].next

MarkQueued(t) ==
  /\ AtPlace(t, "created")
  /\ MarkSlot(Slot(t), "queued", QueuedAs(t))
  /\ Becomes(t, [SlotDone(t) EXCEPT !.next = @ + 1, !.room = @ - 1])
  /\ UNCHANGED <<minute, schedule, hasChannel, releases>>

\* The report, or an error at any await; the audit hook's is one too.
EndTick(t) ==
  /\ ~AtPlace(t, "idle") /\ Becomes(t, Resting)
  /\ UNCHANGED <<minute, schedule, hasChannel, slotRows, delays, releases>>

TickStep(t) ==
  \/ StartTick(t) \/ ReadFacts(t) \/ ClaimSlot(t) \/ ReadSlot(t)
  \/ MarkMissed(t) \/ DeclineSlot(t) \/ QueueEpisode(t) \/ MarkBlocked(t) \/ MarkQueued(t)
  \/ EndTick(t)

-----------------------------------------------------------------------------
TimePasses ==
  /\ minute < LastMinute /\ minute' = minute + 1
  /\ UNCHANGED <<schedule, hasChannel, slotRows, delays, tick, releases>>

\* PUT /directors/:agentId: the row is replaced.
SaveSchedule ==
  /\ schedule' \in Schedules \ {schedule}
  /\ UNCHANGED <<minute, hasChannel, slotRows, delays, tick, releases>>

CreateChannel ==
  /\ ~hasChannel /\ hasChannel' = TRUE
  /\ UNCHANGED <<minute, schedule, slotRows, delays, tick, releases>>

OwnerPlansEpisode ==
  /\ hasChannel /\ \E e \in Episodes : OwnerPlans(e)
  /\ UNCHANGED schedulingVars

SchedulingNext ==
  \/ \E t \in Ticks : TickStep(t)
  \/ TimePasses \/ SaveSchedule \/ CreateChannel \/ OwnerPlansEpisode

SchedulingSpec ==
  SchedulingInit /\ releases = {} /\ [][SchedulingNext]_<<schedulingVars, releases>>

-----------------------------------------------------------------------------
(* Properties                                                              *)

SchedulingTypeOK ==
  /\ minute \in 0..LastMinute /\ schedule \in Schedules
  /\ hasChannel \in BOOLEAN
  /\ slotRows \in [Slots -> [state : SlotStates, episode : 0..MaxEpisode]]
  /\ delays \subseteq Slots
  /\ \A t \in Ticks :
       /\ tick[t].at \in {"idle", "facts", "slot", "taken", "claimed", "created", "refused"}
       /\ \A k \in DOMAIN tick[t].work : tick[t].work[k].slot \in Slots
       /\ tick[t].next \in 0..(MaxEpisode + 1) /\ tick[t].room \in 0..MaxConcurrentJobs

EpisodesOf(s) == {r \in releases : r.origin = Origin(s)}

\* However ticks overlap, fail or die, a slot that was never delayed makes at
\* most one episode, and one that was recorded as missed makes none: the row's
\* first claim decides ("creates nothing" for every later attempt, claimSlot).
UndelayedSlotMadeOnce ==
  \A s \in Slots :
    /\ s \notin delays => Cardinality(EpisodesOf(s)) <= 1
    /\ slotRows[s].state = "skipped" => EpisodesOf(s) = {}

\* A slot that reports an episode as queued names one that was planned for this
\* very slot, so two slots never share one, whoever else plans episodes of the
\* channel and however stale the tick's allocation is.
QueuedSlotBacked ==
  \A s \in Slots : slotRows[s].state = "queued" =>
    \E r \in EpisodesOf(s) : r.episode = slotRows[s].episode

\* A slot and its episodes stay accounted for, unless the slot was delayed.
SlotsAccounted == UndelayedSlotMadeOnce /\ QueuedSlotBacked

\* "a repeated scheduler run cannot create a second logical episode for a slot"
\* (catalog/scheduleRepository.js:17).
OneEpisodePerSlot == \A s \in Slots : Cardinality(EpisodesOf(s)) <= 1
===============================================================================
