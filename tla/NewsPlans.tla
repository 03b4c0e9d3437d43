------------------------------- MODULE NewsPlans -------------------------------
(***************************************************************************)
(* The planners of the AI-news pipeline (src/aiNews/deterministic*.js):    *)
(* sources become a research brief, the brief an editorial plan, and brief *)
(* and plan a metadata draft and, with a narration, subtitles.  Each takes *)
(* what the earlier ones returned and checks that they belong together; in *)
(* between more sources may have been observed and another brief built.    *)
(*                                                                         *)
(* A claim is named by its normalized text: what it says but for its       *)
(* numbers, and those.  `key' gives the alphabetical order of the texts,   *)
(* `link' says that there is a URL in it.  A copy is a content hash.       *)
(* Times of a narration are in parts of a millisecond, words are lengths.  *)
(***************************************************************************)
EXTENDS Naturals, Sequences, FiniteSets, SequencesExt

CONSTANTS
  SourcePool,      \* [url, domain, copy, at, link, claims]: at is unique to a url
  MaxSources,      \* bound: sources observed
  Orders,          \* what may be ordered: [format, seconds]
  MaxSupporting,   \* MAX_SUPPORTING_CLAIMS
  Narrations,      \* sequence of narrations: sequences of [start, end, words]
  PerMs            \* bound: parts of a millisecond told apart

ClaimsOf(S) == UNION {ToSet(s.claims) : s \in S}

ASSUME NewsAssumption ==
  /\ \A s, t \in SourcePool : s.at = t.at => s.url = t.url
  /\ \A s, t \in SourcePool : s.url = t.url => s.domain = t.domain
  /\ \A s, t \in SourcePool : s.copy = t.copy => s.claims = t.claims
  /\ \A o \in Orders : o.seconds \in 45..600
  /\ \A s \in SourcePool : s.at \in Nat /\ s.claims \in Seq(ClaimsOf(SourcePool))
  /\ \A c \in ClaimsOf(SourcePool) : c.key \in Nat /\ c.numbers \in Seq(Nat)
  /\ \A c, d \in ClaimsOf(SourcePool) : c.key = d.key => c = d
  /\ MaxSupporting \in 1..12 /\ MaxSources \in Nat /\ PerMs \in Nat \ {0}
  /\ Narrations \in Seq(Seq([start : Nat, end : Nat, words : Seq(Nat) \ {<<>>}]))

VARIABLES
  sources,   \* what has been observed, in the order the planner is given it
  brief,     \* [of: the kept sources, eligible: those that corroborate], ranked by `at'
  editorial, \* [of: its brief's identity, claims, seconds]
  draft,     \* [of: its brief's identity, top: its claim, none for the headline, count]
  narrated   \* the narration the subtitles were made of, 0 for none

newsVars == <<sources, brief, editorial, draft, narrated>>

NoBrief == [of |-> {}, eligible |-> {}]
NoEditorial == [of |-> {}, claims |-> {}, seconds |-> 0]
NoDraft == [of |-> {}, top |-> {}, count |-> 0]

NewsInit ==
  /\ sources = <<>> /\ brief = NoBrief /\ editorial = NoEditorial /\ draft = NoDraft
  /\ narrated = 0

\* validateSourceEntry lets it through.
Observe(s) ==
  /\ Len(sources) < MaxSources /\ s \notin ToSet(sources)
  /\ sources' = Append(sources, s)
  /\ UNCHANGED <<brief, editorial, draft, narrated>>

-----------------------------------------------------------------------------
(* The research brief.                                                     *)

KeptAt(i) == \A j \in 1..(i - 1) : sources[j].url # sources[i].url
Distinct == {i \in DOMAIN sources : KeptAt(i)}

\* A mutant of Eligible: a copy counts like any other source.
EligibleAnyway(i) == TRUE
\* No kept source before it has the same content.
Eligible(i) == \A j \in Distinct : j < i => sources[j].copy # sources[i].copy

\* deduplicateAndRank.
BuildBrief ==
  brief' = [of |-> {sources[i] : i \in Distinct},
            eligible |-> {sources[i] : i \in {j \in Distinct : Eligible(j)}}]

ResearchBrief ==
  /\ sources # <<>> /\ BuildBrief
  /\ UNCHANGED <<sources, editorial, draft, narrated>>

Domains(S) == {s.domain : s \in S}
Supporters(b, c) == {s \in b.eligible : c \in ToSet(s.claims)}

Corroborated(b, c) == \E s, t \in Supporters(b, c) : s.domain # t.domain

\* The first numeric claim of the domain with that statement, in the order of the
\* sources: extractNumbers sorts the numbers and drops repetitions.
Numeric(s, statement) ==
  {i \in DOMAIN s.claims : s.claims[i].says = statement /\ s.claims[i].numbers # <<>>}
NumbersOf(b, statement, domain) ==
  LET tell == {s \in b.eligible : s.domain = domain /\ Numeric(s, statement) # {}}
      first == CHOOSE s \in tell : \A t \in tell : s.at <= t.at
  IN IF tell = {} THEN {} ELSE ToSet(first.claims[Min(Numeric(first, statement))].numbers)

DifferIn(b, statement, domains) ==
  \E d, e \in domains :
    LET one == NumbersOf(b, statement, d) other == NumbersOf(b, statement, e)
    IN one # other /\ {} \notin {one, other}
\* A mutant of Divergent: only the earliest two domains are compared.
DivergentPair(b, statement) ==
  DifferIn(b, statement, Domains({s \in b.of : Cardinality({t \in b.of : t.at < s.at}) < 2}))
Divergent(b, statement) == DifferIn(b, statement, Domains(b.eligible))

\* buildBrief and validateReadyBrief.
Publishable(b) ==
  /\ \E s, t \in b.eligible : s.domain # t.domain
  /\ \A c \in ClaimsOf(b.eligible) : ~Divergent(b, c.says)
  /\ \E c \in ClaimsOf(b.eligible) : Corroborated(b, c)

-----------------------------------------------------------------------------
(* The editorial plan.                                                     *)

Least(a, b) == IF a < b THEN a ELSE b
Most(a, b) == IF a > b THEN a ELSE b

\* The first in the order of the claims.
SelectedClaims(b) ==
  LET corroborated == {c \in ClaimsOf(b.eligible) : Corroborated(b, c)}
  IN {c \in corroborated : Cardinality({d \in corroborated : d.key < c.key}) < MaxSupporting}

SecondsForFormat(o) ==
  CASE o.format = "explainer_short" -> Least(60, o.seconds)
    [] o.format = "news_recap" -> o.seconds
    [] OTHER -> Most(90, Least(180, o.seconds))

Share(seconds, percent) == (seconds * percent + 50) \div 100

HookSeconds(seconds) == Most(5, Share(seconds, 12))
CtaSeconds(seconds) == Most(4, Share(seconds, 8))
CaveatSeconds(seconds) == Most(3, Share(seconds, 5))

\* What hook, call to action and caveat leave, for each claim.
BodySeconds(seconds, n) ==
  (seconds - HookSeconds(seconds) - CtaSeconds(seconds) - CaveatSeconds(seconds)) \div n

\* The seconds of all sections.
SectionSeconds(seconds, n) ==
  HookSeconds(seconds) + n * BodySeconds(seconds, n) + CaveatSeconds(seconds) + CtaSeconds(seconds)

\* createDeterministicEditorialPlan; of a brief that is not ready the plan is blocked,
\* and nothing is made of it.
EditorialPlan ==
  /\ brief # NoBrief /\ Publishable(brief)
  /\ \E o \in Orders :
       editorial' = [of |-> brief.of, claims |-> SelectedClaims(brief),
                     seconds |-> SecondsForFormat(o)]
  /\ UNCHANGED <<sources, brief, draft, narrated>>

-----------------------------------------------------------------------------
(* The metadata draft.                                                     *)

\* A mutant of Matches: any brief will do.
MatchesAny == editorial # NoEditorial /\ brief # NoBrief
\* The plan is ready, and it was made from this brief.
Matches == editorial # NoEditorial /\ editorial.of = brief.of

SafeClaims == {c \in editorial.claims : ~c.link}
FirstOf(claims) == CHOOSE c \in claims : \A d \in claims : c.key <= d.key
SafeHeadline == \E s \in brief.eligible : ~s.link

\* createDeterministicMetadataPlan; with neither, it is blocked (NO_SAFE_CLAIM_TEXT).
MetadataPlan ==
  /\ Matches /\ (SafeHeadline \/ SafeClaims # {})
  /\ draft' = [of |-> brief.of,
               top |-> IF SafeClaims # {} THEN {FirstOf(SafeClaims)} ELSE {},
               count |-> Cardinality(Domains(brief.eligible))]
  /\ UNCHANGED <<sources, brief, editorial, narrated>>

-----------------------------------------------------------------------------
(* Narration and subtitles.                                                *)

MaxCueChars == 42
MaxCueMs == 7000

Ms(t) == (2 * t + PerMs) \div (2 * PerMs)   \* roundMs

\* validateSegments: a segment follows the one before, as that was rounded.
Acceptable(n) ==
  /\ n # <<>> /\ Ms(n[Len(n)].end) <= 900000
  /\ \A i \in DOMAIN n :
       /\ n[i].end > n[i].start /\ n[i].end - n[i].start <= 60000 * PerMs
       /\ i > 1 => n[i].start >= Ms(n[i - 1].end) * PerMs

\* createNarrationInputRegistry.
Registered(n) ==
  [i \in DOMAIN n |-> [start |-> Ms(n[i].start) * PerMs, end |-> Ms(n[i].end) * PerMs,
                      words |-> n[i].words]]

\* Of n words in so many milliseconds.
WordsByDuration(ms, n) == IF ms > MaxCueMs * n THEN 1 ELSE Most(1, (MaxCueMs * n) \div ms)

Chars(words) == FoldLeft(LAMBDA sum, w : sum + 1 + w, 0, words) - 1

\* A mutant of Breaks: the joining space is not counted.
BreaksLate(group, word, limit) ==
  Chars(group) + word > MaxCueChars \/ Len(group) >= limit
\* A word that does not fit the cue begins the next.
Breaks(group, word, limit) ==
  Chars(group) + 1 + word > MaxCueChars \/ Len(group) >= limit

\* splitTextIntoCueWordGroups.
WordGroups(words, limit) ==
  FoldLeft(LAMBDA groups, w :
             IF groups = <<>> \/ Breaks(groups[Len(groups)], w, limit)
             THEN Append(groups, <<w>>)
             ELSE [groups EXCEPT ![Len(groups)] = Append(@, w)],
           <<>>, words)

\* When so many of n words of a segment are over; its end is taken as it is.
WordEnds(start, ms, k, n) == start + ((2 * k * ms + n) \div (2 * n))

\* buildSegmentCues, in milliseconds.
SegmentCues(segment) ==
  LET start == segment.start \div PerMs
      ms == (segment.end - segment.start) \div PerMs
      n == Len(segment.words)
      groups == WordGroups(segment.words, WordsByDuration(ms, n))
      Before(i) == FoldLeft(LAMBDA sum, g : sum + Len(g), 0, SubSeq(groups, 1, i - 1))
  IN [i \in DOMAIN groups |->
        [words |-> groups[i], start |-> WordEnds(start, ms, Before(i), n),
         end |-> WordEnds(start, ms, Before(i + 1), n)]]

\* createDeterministicSubtitlePlan, which validates what was registered once more.
SubtitlePlan ==
  /\ Matches
  /\ \E i \in DOMAIN Narrations :
       /\ Acceptable(Narrations[i]) /\ Acceptable(Registered(Narrations[i]))
       /\ narrated' = i
  /\ UNCHANGED <<sources, brief, editorial, draft>>

NewsNext ==
  (\E s \in SourcePool : Observe(s)) \/ ResearchBrief \/ EditorialPlan \/ MetadataPlan
    \/ SubtitlePlan

NewsSpec == NewsInit /\ [][NewsNext]_newsVars

-----------------------------------------------------------------------------
(* Properties                                                              *)

NewsTypeOK ==
  /\ ToSet(sources) \subseteq SourcePool /\ Len(sources) <= MaxSources
  /\ brief.of \subseteq SourcePool /\ brief.eligible \subseteq brief.of
  /\ editorial.of \subseteq SourcePool /\ editorial.claims \subseteq ClaimsOf(SourcePool)
  /\ editorial.seconds \in Nat
  /\ draft.of \subseteq SourcePool /\ draft.top \subseteq ClaimsOf(SourcePool)
  /\ draft.count \in Nat
  /\ narrated \in 0..Len(Narrations)

Contradict(c, d) ==
  c.says = d.says /\ <<>> \notin {c.numbers, d.numbers} /\ ToSet(c.numbers) # ToSet(d.numbers)

\* The sources a plan is from do not contradict themselves.
Consistent(S) ==
  \A s, t \in S : s.domain = t.domain =>
    \A c \in ToSet(s.claims), d \in ToSet(t.claims) : ~Contradict(c, d)

\* A claim that reached the editorial plan stands in two of the observed sources
\* that differ in url, domain and content ("Syndication is not corroboration");
\* where no outlet contradicts itself, no two of the plan's claims contradict each
\* other; the sections fit the seconds there are, and each claim has some; and
\* what a draft is about is a claim two outlets of its own brief make and, again,
\* none denies, or a headline.
PlansGrounded ==
  /\ \A c \in editorial.claims : \E s, t \in editorial.of :
       /\ c \in ToSet(s.claims) /\ c \in ToSet(t.claims)
       /\ s.url # t.url /\ s.domain # t.domain /\ s.copy # t.copy
  /\ Consistent(editorial.of) => \A c, d \in editorial.claims : ~Contradict(c, d)
  /\ editorial # NoEditorial =>
       LET n == Cardinality(editorial.claims)
       IN /\ SectionSeconds(editorial.seconds, n) <= editorial.seconds
          /\ BodySeconds(editorial.seconds, n) >= 1
  /\ \A c \in draft.top :
       /\ \E s, t \in draft.of :
            c \in ToSet(s.claims) /\ c \in ToSet(t.claims) /\ s.domain # t.domain
       /\ Consistent(draft.of) => \A d \in ClaimsOf(draft.of) : ~Contradict(c, d)

\* They follow each other from the start of the segment to its end without a gap,
\* repeat its words in order, and none is longer than 42 characters or 7 seconds
\* but one of a single word.
Cover(cues, segment) ==
  /\ FlattenSeq([j \in DOMAIN cues |-> cues[j].words]) = segment.words
  /\ cues[1].start * PerMs = segment.start
  /\ cues[Len(cues)].end * PerMs = segment.end
  /\ \A j \in DOMAIN cues :
       /\ cues[j].start <= cues[j].end
       /\ j > 1 => cues[j].start = cues[j - 1].end
       /\ \/ Len(cues[j].words) = 1
          \/ Chars(cues[j].words) <= 42 /\ cues[j].end - cues[j].start <= 7000

\* The cues of a segment, in whole milliseconds as it is registered, cover it and its
\* words, and none is too long to read but one of a single word.
CuesCover ==
  narrated # 0 =>
    \A segment \in ToSet(Registered(Narrations[narrated])) : Cover(SegmentCues(segment), segment)
===============================================================================
