----------------------------- MODULE ReviewHistory -----------------------------
(* What a quality review checkpoint is made from and compared with             *)
(* (internal/admin): the request a review accepts, the gaps it may name, the    *)
(* snapshot it keeps of the trends, and the history with the comparison of the  *)
(* latest review with an earlier one.  Pure functions; ReviewCheckpoints models *)
(* how a checkpoint gets on file.                                               *)
EXTENDS QualityTrends

CandidateLimit == 10

HistoryLimit == 20

ReviewOutcomes == {"observe", "repair_required", "risk_accepted"}

(* request.gaps is a sequence; keys, rationales and IDs are well formed or not. *)
ValidRequest(request) ==
  /\ request.keyWellFormed /\ request.rationaleFits
  /\ FilterAccepted(request.from, request.to)
  /\ request.outcome \in ReviewOutcomes
  /\ Len(request.gaps) <= CandidateLimit
  /\ IsInjective(request.gaps)
  /\ request.outcome # "observe" => request.rationale /\ request.gaps # << >>

(* The gaps the trends rank, first those of questions, then of promoted cases. *)
CandidateGaps(projection) ==
  LET ranked == [i \in DOMAIN projection.recurrence.questions |->
                   <<projection.recurrence.questions[i].key, projection.recurrence.questions[i].space>>]
                \o [i \in DOMAIN projection.eval.failures |->
                      <<projection.eval.failures[i].gap, projection.eval.failures[i].space>>]
      first(i) == \A j \in 1..(i - 1) : ranked[j][1] # ranked[i][1]
  IN  {ranked[i] : i \in {j \in DOMAIN ranked : first(j)}}

EligibleGaps(chosen, projection, gaps) ==
  \A i \in DOMAIN chosen :
    \E candidate \in CandidateGaps(projection) :
      /\ candidate[1] = chosen[i]
      /\ chosen[i] \in DOMAIN gaps /\ gaps[chosen[i]].space = candidate[2]
      /\ SpaceSelected(gaps[chosen[i]].space, projection.filter)

Snapshot(projection) ==
  [attempts    |-> projection.verification.attempts,
   passed      |-> projection.verification.passed,
   time        |-> projection.verification.time,
   stale       |-> projection.verification.stale,
   suspected   |-> projection.recurrence.suspected,
   confirmed   |-> projection.recurrence.confirmed,
   dismissed   |-> projection.recurrence.dismissed,
   recurrence  |-> projection.recurrence.rate,
   evaluations |-> projection.eval.count,
   eval        |-> projection.eval.rate]

-----------------------------------------------------------------------------
(* History: records is a sequence of checkpoints, [id, at, filter, snapshot].   *)

Newer(a, b) == a.at > b.at \/ (a.at = b.at /\ a.id > b.id)

CompatibleAnyLength(current, candidate) ==   \* mutant: a month is compared with a week
  /\ current.filter.space = candidate.filter.space
  /\ current.filter.zone = candidate.filter.zone
  /\ candidate.filter.end < current.filter.end
Compatible(current, candidate) ==
  /\ current.filter.space = candidate.filter.space
  /\ current.filter.zone = candidate.filter.zone
  /\ current.filter.days = candidate.filter.days
  /\ candidate.filter.end < current.filter.end

Predecessors(current, records) == {r \in ToSet(records) : Compatible(current, r)}

(* The one whose window ends last; of those the newest. *)
Predecessor(current, records) ==
  CHOOSE r \in Predecessors(current, records) :
    \A other \in Predecessors(current, records) \ {r} :
      \/ r.filter.end > other.filter.end
      \/ r.filter.end = other.filter.end /\ Newer(r, other)

CountDifference(current, previous) ==
  [metric \in {"attempts", "passed", "suspected", "confirmed"} |->
     current.snapshot[metric] - previous.snapshot[metric]]

(* Rates and medians are compared only when both were observed. *)
Comparable(current, previous) ==
  {metric \in {"recurrence", "eval", "time"} :
     /\ current.snapshot[metric].status = "observed"
     /\ previous.snapshot[metric].status = "observed"}

Comparison(current, previous) ==
  [current |-> current.id, previous |-> previous.id,
   counts  |-> CountDifference(current, previous),
   failed  |-> current.snapshot.evaluations["failed"] - previous.snapshot.evaluations["failed"],
   metrics |-> Comparable(current, previous)]

(* excluded counts the records that did not decode; with any of those nothing  *)
(* is compared.                                                                *)
LimitAccepted(limit) == limit \in 1..HistoryLimit

List(records, excluded, space, limit) ==
  LET items == Sorted({r \in ToSet(records) : r.filter.space = space}, Newer)
      compared == items # << >> /\ excluded = 0 /\ Predecessors(Head(items), records) # {}
  IN  [checkpoints |-> SubSeq(items, 1, IF Len(items) < limit THEN Len(items) ELSE limit),
       excluded    |-> excluded,
       comparison  |-> IF compared
                       THEN {Comparison(Head(items), Predecessor(Head(items), records))}
                       ELSE {}]
=============================================================================
