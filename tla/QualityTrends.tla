----------------------------- MODULE QualityTrends -----------------------------
(* The quality trends of internal/admin (a projection of gaps, verification     *)
(* attempts, recurrences and promoted-evaluation observations over a window of  *)
(* days) and what the quality review makes of them: which gaps a review may     *)
(* name, and which earlier review the latest one is compared with.  Pure        *)
(* functions of what was loaded.                                                *)
(*                                                                              *)
(* Days are numbers, and a moment is half a day, in a zone whose days all have  *)
(* 24 hours; 0 is the zero time.  IDs of gaps, cases and spaces are numbers:    *)
(* their order breaks ties.  Gaps are a function from IDs to records, attempts, *)
(* recurrences and observations are sequences as their stores list them, and a  *)
(* zone is the name of the server's.                                            *)
EXTENDS Integers, Ordering, SequencesExt, FiniteSetsExt

AllSpaces == 0   \* no space selected

NoDay == -1

DefaultDays == 30

MaxDays == 90

MinSample == 3

SourceLimit == 10000

TraceLimit == 20

RankLimit == 5

MaxBuckets == 13

Day(moment) == moment \div 2

Midnight(day) == 2 * day

-----------------------------------------------------------------------------
(* The window *)

Filter(start, end, space, zone) ==
  [start |-> start, end |-> end, days |-> end - start, space |-> space, zone |-> zone]

FilterAccepted(from, to) ==
  \/ from = NoDay /\ to = NoDay
  \/ from # NoDay /\ to # NoDay /\ to + 1 - from \in 1..MaxDays

ParseFilter(from, to, space, today, zone) ==
  IF from = NoDay THEN Filter(today + 1 - DefaultDays, today + 1, space, zone)
  ELSE Filter(from, to + 1, space, zone)

InWindow(moment, filter) == Midnight(filter.start) <= moment /\ moment < Midnight(filter.end)

SpaceSelected(space, filter) == filter.space \in {AllSpaces, space}

SelectedGaps(gaps, filter) == {g \in DOMAIN gaps : SpaceSelected(gaps[g].space, filter)}

-----------------------------------------------------------------------------
(* Metrics: value is a fraction or a number, << >> when there is none.         *)

SampleStatus(size) ==
  CASE size = 0 -> "no_observations"
    [] size > 0 /\ size < MinSample -> "insufficient_sample"
    [] OTHER -> "observed"

RateMetric(numerator, denominator) ==
  [status |-> SampleStatus(denominator), count |-> numerator,
   value  |-> IF denominator < MinSample THEN << >> ELSE <<numerator, denominator>>]

Sorted(S, Precedes(_, _)) == Ordered(S, {p \in S \X S : Precedes(p[1], p[2])})

Median(duration) ==
  LET order == Sorted(DOMAIN duration,
                 LAMBDA a, b : duration[a] < duration[b] \/ (duration[a] = duration[b] /\ a < b))
      at(k) == duration[order[k]]
      half  == Len(order) \div 2
  IN  IF Len(order) % 2 = 1 THEN at(half + 1) ELSE (at(half) + at(half + 1)) \div 2

DurationMetric(duration) ==
  [status |-> SampleStatus(Cardinality(DOMAIN duration)), count |-> Cardinality(DOMAIN duration),
   value  |-> IF Cardinality(DOMAIN duration) < MinSample THEN << >> ELSE <<Median(duration)>>]

(* The IDs kept to trace a projection to its records: how many, and whether    *)
(* any was left out.                                                           *)
Trace(ids) ==
  [kept |-> IF Cardinality(ids) < TraceLimit THEN Cardinality(ids) ELSE TraceLimit,
   truncated |-> Cardinality(ids) > TraceLimit]

Count(s, Is(_)) == Cardinality({i \in DOMAIN s : Is(s[i])})

Top(s) == FirstFew(s, RankLimit)

(* The records a store lists, in its order, the newest first: with more of them *)
(* on file the projection is of the newest.                                      *)
Listed(records) == FirstFew(records, SourceLimit)

-----------------------------------------------------------------------------
(* Verification *)

SelectedAttempts(gaps, attempts, filter) ==
  Only(attempts, {a \in ToSet(attempts) : /\ a.gap \in SelectedGaps(gaps, filter)
                                          /\ SpaceSelected(a.space, filter)
                                          /\ InWindow(a.completed, filter)})

(* When each gap first passed. *)
FirstPasses(selected) ==
  LET passed == {i \in DOMAIN selected : selected[i].result = "passed"}
  IN  [g \in {selected[i].gap : i \in passed} |->
         Min({selected[i].completed : i \in {j \in passed : selected[j].gap = g}})]

Verification(gaps, attempts, filter) ==
  LET selected == SelectedAttempts(gaps, attempts, filter)
      passes   == FirstPasses(selected)
      timed    == {g \in DOMAIN passes : gaps[g].created # 0 /\ gaps[g].created <= passes[g]}
      resolved == {g \in SelectedGaps(gaps, filter) : gaps[g].status = "resolved"}
      stale    == {g \in resolved : gaps[g].verification = "stale"}
  IN  [attempts |-> Len(selected), passed |-> Cardinality(DOMAIN passes),
       time     |-> DurationMetric([g \in timed |-> passes[g] - gaps[g].created]),
       excluded |-> Cardinality(DOMAIN passes \ timed),
       stale    |-> [status |-> IF resolved = {} THEN "no_observations" ELSE "observed",
                     count  |-> Cardinality(stale)],
       trace    |-> [attempts |-> Trace({selected[i].id : i \in DOMAIN selected}),
                     gaps     |-> Trace(timed)]]

-----------------------------------------------------------------------------
(* Recurrences, ranked by question and by space *)

SelectedRecurrences(gaps, recurrences, filter) ==
  Only(Listed(recurrences),
       {r \in ToSet(recurrences) : r.gap \in SelectedGaps(gaps, filter) /\ InWindow(r.created, filter)})

Occurrences(records) ==
  LET sum[n \in 0..Len(records)] == IF n = 0 THEN 0 ELSE sum[n - 1] + records[n].occurrences
  IN  sum[Len(records)]

Failure(key, space, records) ==
  [key |-> key, space |-> space, occurrences |-> Occurrences(records),
   confirmed |-> Count(records, LAMBDA r : r.status = "confirmed")]

FailingQuestions(gaps, selected) ==
  LET failures == {Failure(g, gaps[g].space, Only(selected, {r \in ToSet(selected) : r.gap = g})) :
                     g \in {selected[i].gap : i \in DOMAIN selected}}
  IN  Top(Sorted(failures, LAMBDA a, b :
            \/ a.occurrences > b.occurrences
            \/ a.occurrences = b.occurrences /\ a.confirmed > b.confirmed
            \/ a.occurrences = b.occurrences /\ a.confirmed = b.confirmed /\ a.key < b.key))

FailingSpaces(selected) ==
  LET failures == {Failure(s, s, Only(selected, {r \in ToSet(selected) : r.space = s})) :
                     s \in {selected[i].space : i \in DOMAIN selected}}
  IN  Top(Sorted(failures, LAMBDA a, b :
            a.occurrences > b.occurrences \/ (a.occurrences = b.occurrences /\ a.key < b.key)))

Recurrence(gaps, recurrences, passed, filter) ==
  LET selected == SelectedRecurrences(gaps, recurrences, filter)
      with(status) == Count(selected, LAMBDA r : r.status = status)
  IN  [suspected |-> with("suspected"), confirmed |-> with("confirmed"),
       dismissed |-> with("dismissed"),
       rate      |-> RateMetric(Cardinality({selected[i].gap : i \in DOMAIN selected}), passed),
       questions |-> FailingQuestions(gaps, selected), spaces |-> FailingSpaces(selected),
       trace     |-> Trace({selected[i].id : i \in DOMAIN selected})]

-----------------------------------------------------------------------------
(* Promoted evaluations, in weeks *)

SelectedObservations(gaps, observations, filter) ==
  Only(Listed(observations),
       {o \in ToSet(observations) : /\ o.gap \in SelectedGaps(gaps, filter)
                                    /\ SpaceSelected(o.space, filter)
                                    /\ InWindow(o.at, filter)})

Statuses == {"passed", "failed", "unavailable"}

WholeWeeks(days) ==   \* mutant: the days after the last whole week get no bucket
  IF days \div 7 < MaxBuckets THEN days \div 7 ELSE MaxBuckets
Weeks(days) ==
  IF (days + 6) \div 7 < MaxBuckets THEN (days + 6) \div 7 ELSE MaxBuckets

EvalBuckets(selected, filter) ==
  LET week(o) == (Day(o.at) - filter.start) \div 7
  IN  [w \in 1..Weeks(filter.days) |->
         [startDate |-> filter.start + 7 * (w - 1),
          total     |-> Count(selected, LAMBDA o : week(o) = w - 1),
          count     |-> [s \in Statuses |->
                           Count(selected, LAMBDA o : week(o) = w - 1 /\ o.status = s)]]]

(* A case's failures; its gap and space are those of its last observation. *)
CaseFailure(case, selected) ==
  LET seen == Only(selected, {o \in ToSet(selected) : o.case = case})
  IN  [case |-> case, gap |-> Last(seen).gap, space |-> Last(seen).space,
       failed |-> Count(seen, LAMBDA o : o.status = "failed"),
       latest |-> Max({seen[i].at : i \in DOMAIN seen})]

PromotedFailures(selected) ==
  LET failures == {CaseFailure(c, selected) : c \in {selected[i].case : i \in DOMAIN selected}}
  IN  Top(Sorted({f \in failures : f.failed > 0}, LAMBDA a, b :
            \/ a.failed > b.failed
            \/ a.failed = b.failed /\ a.latest > b.latest
            \/ a.failed = b.failed /\ a.latest = b.latest /\ a.case < b.case))

PromotedEval(gaps, observations, filter) ==
  LET selected == SelectedObservations(gaps, observations, filter)
      with(status) == Count(selected, LAMBDA o : o.status = status)
  IN  [count    |-> [s \in Statuses |-> with(s)],
       rate     |-> RateMetric(with("passed"), Len(selected)),
       failures |-> PromotedFailures(selected),
       buckets  |-> EvalBuckets(selected, filter),
       trace    |-> Trace({selected[i].id : i \in DOMAIN selected})]

(* Project: sources holds the four kinds of records. *)
Project(sources, filter) ==
  LET verification == Verification(sources.gaps, sources.attempts, filter)
  IN  [filter       |-> filter,
       verification |-> verification,
       recurrence   |-> Recurrence(sources.gaps, sources.recurrences, verification.passed, filter),
       eval         |-> PromotedEval(sources.gaps, sources.observations, filter)]
=============================================================================
