---------------------------- MODULE QualityQueries ----------------------------
(* The two questions asked of the quality of the knowledge, on any input: its  *)
(* trends over a window of days, and the history of the reviews of them.       *)
EXTENDS ReviewHistory, AlgorithmInput

CONSTANTS
  Trends,      \* what is asked of the trends, and the records on file
  Reviewed,    \* what was projected for a review
  Histories,   \* the reviews on file, and the space of those that are asked for
  Pages        \* how many are asked for, and how many records do not decode

(* IDs and moments are numbers, a repair that is promoted stays with the space *)
(* of its gap, and a file has each observation in its place.                    *)
IsSources(sources) ==
  /\ DOMAIN sources.gaps \subseteq Nat
  /\ IsSequence(sources.recurrences) /\ IsSequence(sources.observations)
  /\ \A r \in Range(sources.recurrences) : r.occurrences \in Nat
  /\ \A o \in Range(sources.observations) :
       /\ o.case \in Nat /\ o.at \in Int
       /\ o.gap \in DOMAIN sources.gaps => o.space = sources.gaps[o.gap].space

IsTrends(x) ==
  /\ x.from \in Nat \cup {NoDay} /\ x.to \in Nat \cup {NoDay} /\ x.today \in Nat
  /\ IsSources(x.sources)

Snapshots == {Snapshot(Project(x.sources, x.filter)) : x \in Reviewed}

IsHistory(x) ==
  /\ IsSequence(x.records)
  /\ \A r \in Range(x.records) : /\ r.id \in Nat /\ r.at \in Nat /\ r.filter.end \in Nat
                                 /\ r.snapshot \in Snapshots
  /\ \A r, s \in Range(x.records) : r.id = s.id => r = s

ASSUME QualityAssumption ==
  /\ \A x \in Trends : IsTrends(x)
  /\ \A x \in Reviewed : IsSources(x.sources)
  /\ \A x \in Histories : IsHistory(x)

ProjectTrends == Choosing({"trends"}) /\ \E x \in Trends : Take("trends", x)

ListReviews ==
  /\ Choosing({"reviews"})
  /\ \E x \in Histories, page \in Pages :
       Take("reviews", [records |-> x.records, space |-> x.space,
                        limit |-> page.limit, excluded |-> page.excluded])

QualityQuestions == Choosing({"trends", "reviews"}) /\ [][ProjectTrends \/ ListReviews]_called

-----------------------------------------------------------------------------
(* Trends *)

InWeeks(buckets, status) ==
  LET sum[n \in 0..Len(buckets)] == IF n = 0 THEN 0 ELSE sum[n - 1] + buckets[n].count[status]
  IN  sum[Len(buckets)]

(* Every observation of an accepted window is in exactly one week, also on the
   edges of the window and in a last week that is not whole; a rate of passes is
   no more than one; and the gaps the trends rank, all together, can be named in a
   review of the same window (ParseQualityTrendFilter, Project, qualityTrendEvalBuckets,
   validateSelectedGaps). *)
TrendsAddUp ==
  algorithm = "trends" /\ FilterAccepted(input.from, input.to) =>
    LET f == ParseFilter(input.from, input.to, input.space, input.today, input.zone)
        p == Project(input.sources, f)
        weeks  == p.eval.buckets
        ranked == {c[1] : c \in CandidateGaps(p)}
        review == [keyWellFormed |-> TRUE, rationaleFits |-> TRUE, rationale |-> TRUE,
                   from |-> input.from, to |-> input.to,
                   outcome |-> "repair_required", gaps |-> SetToSeq(ranked)]
    IN  /\ Len(weeks) \in 1..MaxBuckets
        /\ \A i \in DOMAIN weeks : weeks[i].startDate \in f.start..(f.end - 1)
        /\ \A x \in Statuses : InWeeks(weeks, x) = p.eval.count[x]
        /\ p.eval.rate.value # << >> => p.eval.rate.value[1] <= p.eval.rate.value[2]
        /\ ranked # {} => ValidRequest(review) /\ EligibleGaps(review.gaps, p, input.sources.gaps)

-----------------------------------------------------------------------------
(* The history of reviews *)

(* The latest review of a scope is compared exactly when every record decodes
   and an earlier window of the same scope, timezone and length was reviewed, and
   then with the closest such window, on the page or not; rates are compared only
   when both had a sample (List, selectQualityReviewPredecessor). *)
ReviewsCompareLikeWithLike ==
  algorithm = "reviews" /\ LimitAccepted(input.limit) =>
    LET listed  == List(input.records, input.excluded, input.space, input.limit)
        scope   == {r \in ToSet(input.records) : r.filter.space = input.space}
        Earlier(r) == {x \in scope : /\ x.filter.zone = r.filter.zone
                                     /\ x.filter.days = r.filter.days
                                     /\ x.filter.end < r.filter.end}
        latest  == Head(listed.checkpoints)
    IN  /\ scope # {} => latest \in scope /\ \A r \in scope : latest.at >= r.at
        /\ (listed.comparison # {}) <=>
             (scope # {} /\ input.excluded = 0 /\ Earlier(latest) # {})
        /\ \A c \in listed.comparison : \E p \in Earlier(latest) :
             /\ c.previous = p.id /\ c.current = latest.id
             /\ \A x \in Earlier(latest) : x.filter.end <= p.filter.end
             /\ "eval" \in c.metrics => << >> \notin {p.snapshot.eval.value, latest.snapshot.eval.value}
=============================================================================
