------------------------------- MODULE Episodes -------------------------------
(***************************************************************************)
(* The planned episodes of one channel: production_releases and the job    *)
(* inserted with each, which catalog/productionRepository.js writes in one *)
(* transaction for the owner's route, the scheduler and the Hermes bridge  *)
(* alike.  (channel, season, episode) is UNIQUE (sql/019); one season.     *)
(***************************************************************************)
EXTENDS Naturals, FiniteSets

CONSTANT MaxEpisode    \* bound: the highest episode number planned

ASSUME EpisodesAssumption == MaxEpisode \in Nat \ {0}

VARIABLE
  releases    \* [episode, origin: <<"owner" | "schedule" | "hermes", n, m>>]

Episodes == 1..MaxEpisode
Planned(e) == \E r \in releases : r.episode = e

\* nextEpisodeSlot: the highest planned episode plus one.
NextEpisode ==
  CHOOSE n \in 1..(MaxEpisode + 1) :
    /\ \A r \in releases : r.episode < n
    /\ n = 1 \/ Planned(n - 1)

InsertRelease(e, who) ==
  releases' = releases \cup {[episode |-> e, origin |-> who]}

\* createReleaseWithJob: a row, a conflict, or an error; an error may hide a
\* COMMIT whose answer was lost.
CreateReleaseWithJob(e, who, created, conflict, thrown) ==
  \/ Planned(e) /\ conflict /\ UNCHANGED releases
  \/ ~Planned(e) /\ InsertRelease(e, who) /\ created
  \/ thrown /\ UNCHANGED releases
  \/ ~Planned(e) /\ InsertRelease(e, who) /\ thrown

\* POST /api/productions.
OwnerPlans(e) == ~Planned(e) /\ InsertRelease(e, <<"owner", 0, 0>>)
===============================================================================
