----------------------------- MODULE RepairInbox -----------------------------
(* The repair inbox of internal/admin: one item per knowledge gap, projected   *)
(* from the gap, the audited answers that asked its question and the documents *)
(* linked to it, then filtered, sorted and cut to a page.  Pure functions of   *)
(* what was loaded; gaps and documents are functions from their IDs (numbers   *)
(* for gaps: their order breaks ties), the timeline a sequence, newest first.  *)
EXTENDS Ordering, SequencesExt

Unresolved == {"open", "investigating"}

Weak == {"unsupported", "partially_supported", "review_gated",
         "provider_fallback", "guard_rejected"}

(* The answers that asked a gap's question, in its space, for its reason.  (An *)
(* item linked to a gap by ID would count too; no stored audit holds such a    *)
(* link.)                                                                      *)
Matches(gap, item) ==
  /\ item.space = gap.space
  /\ item.question = gap.question
  /\ item.reason = gap.reason

MatchingTimelineItems(gap, timeline) == {n \in DOMAIN timeline : Matches(gap, timeline[n])}

LinkedDocuments(g, gap, documents) ==
  {d \in DOMAIN documents :
     documents[d].space = gap.space /\ (d = gap.resolvedBy \/ documents[d].sourceGap = g)}

WaitsForReview(gap, state) ==
  state = "review_gated" \/ gap.reason = "review_gated_documents"

Priority(gap, state, occurrences, linked) ==
  CASE gap.status \notin Unresolved -> "low"
    [] gap.status \in Unresolved /\ (occurrences > 1 \/ linked = 0 \/ WaitsForReview(gap, state)) -> "high"
    [] OTHER -> "medium"

(* The labels shown beside the priority. *)
PriorityReasons(gap, state, occurrences, linked) ==
  {IF gap.status \in Unresolved THEN "unresolved" ELSE gap.status,
   IF linked = 0 THEN "no_linked_evidence" ELSE "linked_evidence_present"}
  \cup {r \in {"repeated_weak_answer"} : occurrences > 1}
  \cup {r \in {"partially_supported"} : state = r}
  \cup {r \in {"review_gated"} : WaitsForReview(gap, state)}
  \cup {r \in {"no_timeline_context"} : occurrences = 0}

NextAction(gap, state, linked) ==
  CASE gap.status = "resolved" -> "reopen if weak"
    [] gap.status = "ignored"  -> "reopen if important"
    [] gap.status \in Unresolved /\ WaitsForReview(gap, state) -> "review and retest"
    [] OTHER -> IF linked = 0 THEN "find evidence" ELSE "retest"

(* What is shown of a promoted gap, and why the promotion is not in force.     *)
(* record: the ledgers' projections, each NONE-valued where nothing is known.  *)
PromotionInForce(gap, record) ==
  /\ gap.status = "resolved"
  /\ record.verification = "verified"
  /\ record.result = "passed"
  /\ record.recurrence # "suspected"

BlockedReason(gap, record) ==
  CASE gap.status # "resolved" -> "gap_not_resolved"
    [] gap.status = "resolved" /\ record.recurrence = "suspected" -> "recurrence_pending"
    [] OTHER -> IF record.verification # "verified" \/ record.result # "passed"
                THEN "verification_stale" ELSE "promotion_policy_stale"

PromotionState(gap, record) ==
  IF ~record.promoted THEN "not_promoted"
  ELSE IF PromotionInForce(gap, record) THEN "promoted" ELSE "stale"

Item(g, gap, timeline, documents, record) ==
  LET seen   == MatchingTimelineItems(gap, timeline)
      newest == timeline[Min(seen)]
      state  == IF seen = {} THEN "unknown" ELSE newest.state
      number == Cardinality(seen)
      linked == LinkedDocuments(g, gap, documents)
  IN  [gap         |-> g,
       status      |-> gap.status,
       reason      |-> gap.reason,
       state       |-> state,
       occurrences |-> number,
       seenAt      |-> IF seen = {} THEN gap.updated ELSE newest.at,
       linked      |-> linked,
       priority    |-> Priority(gap, state, number, Cardinality(linked)),
       reasons     |-> PriorityReasons(gap, state, number, Cardinality(linked)),
       next        |-> NextAction(gap, state, Cardinality(linked)),
       promotion   |-> PromotionState(gap, record),
       blocked     |-> IF PromotionState(gap, record) = "stale"
                       THEN BlockedReason(gap, record) ELSE "nothing"]

-----------------------------------------------------------------------------
MatchesFilter(item, filter) ==
  /\ filter.status \in {"", item.status}
  /\ filter.reason \in {"", item.reason}
  /\ filter.unresolvedOnly => item.status \in Unresolved
  /\ filter.linkedOnly => item.linked # {}
  /\ filter.weakOnly => item.state \in Weak \/ item.reason # ""

StatusRank(status) == IF status \in Unresolved THEN 0 ELSE 1

PriorityRank(priority) == CASE priority = "high" -> 0 [] priority = "medium" -> 1 [] OTHER -> 2

(* The first of the keys the two items differ in decides. *)
SortLess(a, b) ==
  LET left  == <<StatusRank(a.status), PriorityRank(a.priority), b.occurrences, b.seenAt, a.gap>>
      right == <<StatusRank(b.status), PriorityRank(b.priority), a.occurrences, a.seenAt, b.gap>>
  IN  \E k \in DOMAIN left :
        left[k] < right[k] /\ \A j \in 1..(k - 1) : left[j] = right[j]

ByNeed(items) == {p \in items \X items : SortLess(p[1], p[2])}

Page(items, limit) == IF limit > 0 /\ Len(items) > limit THEN SubSeq(items, 1, limit) ELSE items

InboxItems(gaps, timeline, documents, records, filter) ==
  {i \in {Item(g, gaps[g], timeline, documents, records[g]) :
            g \in {h \in DOMAIN gaps : gaps[h].space = filter.space}} : MatchesFilter(i, filter)}

CutThenSorted(items, limit) ==   \* mutant: the page is cut in the store's order, then sorted
  LET listed == Ordered(items, {p \in items \X items : p[1].gap < p[2].gap})
      page   == ToSet(Page(listed, limit))
  IN  Ordered(page, ByNeed(page))
SortedThenCut(items, limit) == Page(Ordered(items, ByNeed(items)), limit)

Inbox(gaps, timeline, documents, records, filter) ==
  SortedThenCut(InboxItems(gaps, timeline, documents, records, filter), filter.limit)
=============================================================================
