------------------------------ MODULE RepairLoop ------------------------------
(***************************************************************************)
(* Repair of a tenant's knowledge gaps: verification attempts, suspected       *)
(* recurrences, the operator's decisions on them, and promotion to release     *)
(* checks (internal/admin: RepairVerificationService, RepairRecurrenceService, *)
(* RepairEvalPromotionService and their file stores).  The gaps share one      *)
(* ledger of recurrences, whose IDs are made of the audit alone: two gaps may  *)
(* have records of one ID, and a decision on the ID finds the older one.       *)
(*                                                                          *)
(* A request is a goroutine that calls several stores.  The stores of         *)
(* attempts, recurrences and promotions hold a mutex for a whole call, which   *)
(* is one step; the gap store has none, and a save of a gap reads the file of  *)
(* all gaps and then writes it.  Between two calls other requests run,          *)
(* documents change and the request may fail or die with the process.         *)
(*                                                                          *)
(* Documents may change at any moment and change back, so they are no         *)
(* variable: a step that reads them finds any of their snapshots.  The same    *)
(* step then reads the attempts, as it may find that snapshot at that moment.  *)
(***************************************************************************)
EXTENDS Integers, Sequences, FiniteSets

CONSTANTS
    Workers,         \* goroutines serving requests
    Gaps,            \* knowledge gaps of the tenant
    Audits,          \* audit IDs: one per conversation (AuditService.Record)
    Snapshots,       \* fingerprints of the ready and active documents
    Policies,        \* support state and required documents of a promotion
    GapStatuses,     \* what an operator may set the gap to
    MaxAttempts,     \* bound: verifications started
    MaxObservations, \* bound: audits observed, of all gaps
    MaxPromotions,   \* bound: promotions recorded, of all gaps
    None

ASSUME StatusesAssumption == {"open", "resolved"} \subseteq GapStatuses

ASSUME BoundsAssumption ==
    MaxAttempts \in Nat /\ MaxObservations \in Nat /\ MaxPromotions \in Nat

(* A verification attempt; its ID is the time it started at. *)
Attempt == [id : Nat, gap : Gaps, snapshot : Snapshots, passed : BOOLEAN]

(* The ID of a recurrence is made of its first audit, whatever the gap. *)
Recurrence == [id : Audits, gap : Gaps, status : {"suspected", "dismissed", "confirmed"},
               count : Nat \ {0}, latest : Audits, proof : Attempt]

Observation == [audit : Audits, gap : Gaps, recurrence : Audits]

Promotion == [revision : Nat \ {0}, attempt : Attempt, policy : Policies, active : BOOLEAN]

ASSUME NoneAssumption ==
    None \notin Attempt \cup Recurrence \cup Snapshots \cup Audits \cup Gaps
                  \cup [Gaps -> GapStatuses]

(* What a goroutine knows of its request: where it is, the gap and, of a detection,
   the audit it is about, and what it has read: an attempt, a record, the file of the
   gaps with its own change in it. *)
Request == [at : {"idle", "search", "project", "observe", "reopen", "save", "pending",
                  "revise", "rewrite"},
            gap : Gaps \cup {None},
            audit : Audits \cup {None},
            proof : Attempt \cup {None},
            record : Recurrence \cup {None},
            file : [Gaps -> GapStatuses] \cup {None}]

NoRequest == [at |-> "idle", gap |-> None, audit |-> None, proof |-> None,
              record |-> None, file |-> None]

VARIABLES
    gaps,          \* the status of each gap on disk
    clock,         \* verifications started
    attempts,      \* the ledger of verification attempts
    recurrences,   \* the recurrence records, in their order on disk
    observations,  \* the audits observed and the records that count them
    promotions,    \* the revisions of each gap's promoted check
    request,       \* the request of each worker
    reopened       \* history: the records during whose life their gap was open

vars == <<gaps, clock, attempts, recurrences, observations, promotions, request, reopened>>

-----------------------------------------------------------------------------
(* The stores. *)

(* Project: the newest attempt of the gap that passed, by the time it started. *)
Passed(g) == {a \in attempts : a.gap = g /\ a.passed}

LatestPassed(g) == {a \in Passed(g) : \A b \in Passed(g) : b.id <= a.id}

LatestOfAny(g, a, snapshot) ==   \* mutant: the result of the newest attempt is not looked at
    /\ a \in attempts /\ a.gap = g /\ a.snapshot = snapshot
    /\ \A b \in attempts : b.gap = g => b.id <= a.id

(* Project's state is "verified": the newest passed attempt is of the snapshot read. *)
Verified(g, a, snapshot) == a \in LatestPassed(g) /\ a.snapshot = snapshot

Suspected(g) ==
    {i \in DOMAIN recurrences : recurrences[i].gap = g /\ recurrences[i].status = "suspected"}

Observed(g, x) == \E o \in observations : o.gap = g /\ o.audit = x

FirstOf(S) == CHOOSE i \in S : \A j \in S : i <= j

(* observeRepairRecurrence: an audit is observed once for a gap; it counts towards
   the suspected record of the gap, or suspects anew. *)
Noted(g, x, id) == observations' = observations \cup {[audit |-> x, gap |-> g, recurrence |-> id]}

Merge(i, g, x, a) ==
    /\ recurrences' = [recurrences EXCEPT ![i].count = @ + 1, ![i].latest = x, ![i].proof = a]
    /\ Noted(g, x, recurrences[i].id)

Suspect(g, x, a) ==
    /\ recurrences' = Append(recurrences, [id |-> x, gap |-> g, status |-> "suspected",
                                           count |-> 1, latest |-> x, proof |-> a])
    /\ Noted(g, x, x)

ObserveAgain(g, x, a) ==   \* mutant: the observations are not consulted
    \/ Suspected(g) # {} /\ Merge(FirstOf(Suspected(g)), g, x, a)
    \/ Suspected(g) = {} /\ Suspect(g, x, a)

ObserveNewest(g, x, a) ==   \* mutant: a decided record counts on, pending again
    \/ Observed(g, x) /\ UNCHANGED <<recurrences, observations>>
    \/ /\ ~Observed(g, x) /\ recurrences # <<>>
       /\ recurrences' = [recurrences EXCEPT ![Len(recurrences)].status = "suspected",
                                              ![Len(recurrences)].count = @ + 1]
       /\ Noted(g, x, recurrences[Len(recurrences)].id)
    \/ ~Observed(g, x) /\ recurrences = <<>> /\ Suspect(g, x, a)

ObserveAlone(g, x, a) ==   \* mutant: the pending record is not looked for
    \/ Observed(g, x) /\ UNCHANGED <<recurrences, observations>>
    \/ ~Observed(g, x) /\ Suspect(g, x, a)

ObserveRecurrence(g, x, a) ==
    \/ Observed(g, x) /\ UNCHANGED <<recurrences, observations>>
    \/ ~Observed(g, x) /\ Suspected(g) # {} /\ Merge(FirstOf(Suspected(g)), g, x, a)
    \/ ~Observed(g, x) /\ Suspected(g) = {} /\ Suspect(g, x, a)

(* getRepairRecurrence: a record is found by its ID, whichever gap it is of. *)
RecordsOf(id) == {i \in DOMAIN recurrences : recurrences[i].id = id}

(* SaveRepairRecurrence: the record with the ID is replaced as a whole. *)
SaveRecurrence(r) ==
    recurrences' = IF RecordsOf(r.id) = {} THEN Append(recurrences, r)
                   ELSE [recurrences EXCEPT ![FirstOf(RecordsOf(r.id))] = r]

(* The promotions of a gap are a sequence s: every operation selects by the gap. *)
Active(s) == {i \in DOMAIN s : s[i].active}

MaxRevision(s) ==
    IF s = <<>> THEN 0
    ELSE CHOOSE n \in {s[i].revision : i \in DOMAIN s} : \A i \in DOMAIN s : s[i].revision <= n

AlreadyActive(s, a, p) == \E i \in Active(s) : s[i].attempt.id = a.id /\ s[i].policy = p

Retired(s) ==
    IF Active(s) = {} THEN s
    ELSE [s EXCEPT ![CHOOSE i \in Active(s) : \A j \in Active(s) : j <= i].active = FALSE]

Revision(s, a, p) == [revision |-> MaxRevision(s) + 1, attempt |-> a, policy |-> p, active |-> TRUE]

Revised(s, a, p) == Append(Retired(s), Revision(s, a, p))

(* promoteRepairEval: the active revision is of the same attempt and policy, or
   they become the next revision. *)
PromoteAlways(g, a, p) ==   \* mutant: a retry makes a revision
    promotions' = [promotions EXCEPT ![g] = Revised(@, a, p)]

PromoteEval(g, a, p) ==
    \/ AlreadyActive(promotions[g], a, p) /\ UNCHANGED promotions
    \/ /\ ~AlreadyActive(promotions[g], a, p)
       /\ promotions' = [promotions EXCEPT ![g] = Revised(@, a, p)]

-----------------------------------------------------------------------------
WellFormed(r) ==
    /\ r.at \in {"search", "observe", "pending", "revise"} => r.proof \in Attempt
    /\ r.at \in {"project", "observe", "pending", "revise"} => r.gap \in Gaps
    /\ r.at = "observe" => r.audit \in Audits
    /\ r.at \in {"reopen", "save"} => r.record \in Recurrence
    /\ r.at = "rewrite" => r.file \in [Gaps -> GapStatuses]

TypeOK ==
    /\ gaps \in [Gaps -> GapStatuses]
    /\ clock \in 0..MaxAttempts
    /\ attempts \in SUBSET Attempt
    /\ recurrences \in Seq(Recurrence)
    /\ observations \in SUBSET Observation
    /\ promotions \in [Gaps -> Seq(Promotion)]
    /\ request \in [Workers -> Request]
    /\ reopened \in SUBSET (Gaps \X Audits)
    /\ \A w \in Workers : WellFormed(request[w])

Init ==
    /\ gaps = [g \in Gaps |-> "open"]
    /\ clock = 0
    /\ attempts = {}
    /\ recurrences = <<>>
    /\ observations = {}
    /\ promotions = [g \in Gaps |-> <<>>]
    /\ request = [w \in Workers |-> NoRequest]
    /\ reopened = {}

-----------------------------------------------------------------------------
(* Requests *)

Finish(w) == request' = [request EXCEPT ![w] = NoRequest]

Begin(w, r) == request[w].at = "idle" /\ request' = [request EXCEPT ![w] = r]

(* Verify: read the documents and start the attempt. *)
Verify(w, g) ==
    /\ clock < MaxAttempts
    /\ clock' = clock + 1
    /\ \E snapshot \in Snapshots :
          Begin(w, [NoRequest EXCEPT !.at = "search",
                    !.proof = [id |-> clock', gap |-> g, snapshot |-> snapshot, passed |-> FALSE]])
    /\ UNCHANGED <<gaps, attempts, recurrences, observations, promotions, reopened>>

(* Then search the documents, as they are now, and append what was found to the
   ledger: the attempt passed if a source answers the question; an error fails it. *)
AppendAttempt(w) ==
    /\ request[w].at = "search"
    /\ \E passed \in BOOLEAN :
          attempts' = attempts \cup {[request[w].proof EXCEPT !.passed = passed]}
    /\ Finish(w)
    /\ UNCHANGED <<gaps, clock, recurrences, observations, promotions, reopened>>

(* Detect: a weak answer to the question of a resolved gap. *)
Detect(w, g, x) ==
    /\ gaps[g] = "resolved" /\ Cardinality(observations) < MaxObservations
    /\ Begin(w, [NoRequest EXCEPT !.at = "project", !.gap = g, !.audit = x])
    /\ UNCHANGED <<gaps, clock, attempts, recurrences, observations, promotions, reopened>>

(* CurrentProjection.  Detect projects a first time to find the gap, which decides
   only whether it goes on; the record takes the attempt of the second time. *)
Project(w) ==
    /\ request[w].at = "project"
    /\ \E snapshot \in Snapshots :
       \/ \E a \in attempts :
             /\ Verified(request[w].gap, a, snapshot)
             /\ request' = [request EXCEPT
                   ![w].at = IF request[w].audit = None THEN "pending" ELSE "observe",
                   ![w].proof = a]
       \/ /\ \A a \in attempts : ~Verified(request[w].gap, a, snapshot)
          /\ Finish(w)
    /\ UNCHANGED <<gaps, clock, attempts, recurrences, observations, promotions, reopened>>

(* History: the gap of these records is open while they exist. *)
Remember == reopened' = reopened \cup
    {<<recurrences'[i].gap, recurrences'[i].id>> :
        i \in {j \in DOMAIN recurrences' : gaps'[recurrences'[j].gap] = "open"}}

Observe(w) ==
    /\ request[w].at = "observe"
    /\ ObserveRecurrence(request[w].gap, request[w].audit, request[w].proof)
    /\ Cardinality(observations') <= MaxObservations
    /\ Finish(w)
    /\ UNCHANGED <<gaps, clock, attempts, promotions>>
    /\ Remember

(* Confirm and Dismiss: read the record of the ID, which must be suspected, decide
   on the copy, reopen its gap if it is confirmed, save the copy. *)
Decide(w, id, at, status) ==
    /\ RecordsOf(id) # {}
    /\ LET record == recurrences[FirstOf(RecordsOf(id))]
       IN  /\ record.status = "suspected"
           /\ Begin(w, [NoRequest EXCEPT !.at = at, !.record = [record EXCEPT !.status = status]])
    /\ UNCHANGED <<gaps, clock, attempts, recurrences, observations, promotions, reopened>>

ConfirmFirst(w, id) == Decide(w, id, "save", "confirmed")   \* mutant: saved before the gap is open

Confirm(w, id) == Decide(w, id, "reopen", "confirmed")

Dismiss(w, id) == Decide(w, id, "save", "dismissed")

(* UpdateStatus(open), unless the gap is open; its write is WriteGaps. *)
Reopen(w) ==
    /\ request[w].at = "reopen"
    /\ LET g == request[w].record.gap
       IN  request' = IF gaps[g] = "open" THEN [request EXCEPT ![w].at = "save"]
                      ELSE [request EXCEPT ![w].at = "rewrite",
                                           ![w].file = [gaps EXCEPT ![g] = "open"]]
    /\ UNCHANGED <<gaps, clock, attempts, recurrences, observations, promotions>>
    /\ Remember

SaveDecision(w) ==
    /\ request[w].at = "save"
    /\ SaveRecurrence(request[w].record)
    /\ Finish(w)
    /\ UNCHANGED <<gaps, clock, attempts, observations, promotions, reopened>>

(* Promote: the gap is resolved, the verification current, no recurrence pending. *)
Promote(w, g) ==
    /\ gaps[g] = "resolved"
    /\ Begin(w, [NoRequest EXCEPT !.at = "project", !.gap = g])
    /\ UNCHANGED <<gaps, clock, attempts, recurrences, observations, promotions, reopened>>

CheckPending(w) ==
    /\ request[w].at = "pending"
    /\ IF Suspected(request[w].gap) = {} THEN request' = [request EXCEPT ![w].at = "revise"]
       ELSE Finish(w)
    /\ UNCHANGED <<gaps, clock, attempts, recurrences, observations, promotions, reopened>>

Revise(w, p) ==
    /\ request[w].at = "revise"
    /\ PromoteEval(request[w].gap, request[w].proof, p)
    /\ Cardinality(UNION {{promotions'[g][i] : i \in DOMAIN promotions'[g]} : g \in Gaps})
          <= MaxPromotions
    /\ Finish(w)
    /\ UNCHANGED <<gaps, clock, attempts, recurrences, observations, reopened>>

(* A store fails, a document required is not eligible, or the process dies. *)
Abandon(w) ==
    /\ request[w].at # "idle"
    /\ Finish(w)
    /\ UNCHANGED <<gaps, clock, attempts, recurrences, observations, promotions, reopened>>

-----------------------------------------------------------------------------
(* Everything else that touches the gaps and the documents. *)

(* An operator sets a gap's status; a save that leaves every status as it is (of a
   note, or of a gap that is new) writes the file just so. *)
UpdateGap(w, g, status) ==
    /\ Begin(w, [NoRequest EXCEPT !.at = "rewrite", !.file = [gaps EXCEPT ![g] = status]])
    /\ UNCHANGED <<gaps, clock, attempts, recurrences, observations, promotions, reopened>>

WriteGaps(w) ==
    /\ request[w].at = "rewrite"
    /\ gaps' = request[w].file
    /\ IF request[w].record = None THEN Finish(w)
       ELSE request' = [request EXCEPT ![w].at = "save", ![w].file = None]
    /\ UNCHANGED <<clock, attempts, recurrences, observations, promotions>>
    /\ Remember

Next ==
    \E w \in Workers :
          \/ \E g \in Gaps : Verify(w, g) \/ Promote(w, g) \/ \E x \in Audits : Detect(w, g, x)
          \/ AppendAttempt(w) \/ Project(w) \/ Observe(w)
          \/ \E id \in Audits : Confirm(w, id) \/ Dismiss(w, id)
          \/ Reopen(w) \/ SaveDecision(w)
          \/ CheckPending(w) \/ \E p \in Policies : Revise(w, p)
          \/ \E g \in Gaps, status \in GapStatuses : UpdateGap(w, g, status)
          \/ WriteGaps(w) \/ Abandon(w)

Spec == Init /\ [][Next]_vars

-----------------------------------------------------------------------------
(* Properties. *)

OnePending == \A g \in Gaps : Cardinality(Suspected(g)) <= 1

CountedBy(i) ==
    {o \in observations : o.gap = recurrences[i].gap /\ o.recurrence = recurrences[i].id}

ObservationsHaveRecords ==
    /\ \A o \in observations : \E i \in DOMAIN recurrences :
          recurrences[i].gap = o.gap /\ recurrences[i].id = o.recurrence
    /\ \A i, j \in DOMAIN recurrences :
          recurrences[i].gap = recurrences[j].gap /\ recurrences[i].id = recurrences[j].id => i = j

(* Weak answers detected at the same time suspect a gap once, also while an
   operator decides on a record, and every audit observed for a gap is counted by
   one record of that gap, though another gap's record may have the same ID
   (observeRepairRecurrence and SaveRepairRecurrence under the mutex). *)
RecordsAgree == OnePending /\ ObservationsHaveRecords

(* A pending record counts exactly the audits observed for it: no audit twice,
   none lost between detections and decisions that overlap, and none of another
   gap's record of its ID. *)
CountsAreExact ==
    \A g \in Gaps : \A i \in Suspected(g) : recurrences[i].count = Cardinality(CountedBy(i))

(* An operator's decision is not undone: no record is pending again, whatever
   detections and decisions were under way when it was saved. *)
DecisionsStay ==
    [][\A i \in DOMAIN recurrences :
          recurrences[i].status # "suspected" =>
             /\ i \in DOMAIN recurrences'
             /\ recurrences'[i].id = recurrences[i].id /\ recurrences'[i].gap = recurrences[i].gap
             /\ recurrences'[i].status # "suspected"]_vars

(* Confirm opens the gap of the record before it saves the record: a failure in
   between leaves the record pending, so a retry can reconcile. *)
ConfirmedWasReopened ==
    \A i \in DOMAIN recurrences :
        recurrences[i].status = "confirmed" => <<recurrences[i].gap, recurrences[i].id>> \in reopened

(* What is suspected or promoted rests on an attempt of the gap that passed and is
   on the ledger. *)
OnLedger(g, a) == a \in attempts /\ a.gap = g /\ a.passed

ProofsAreOnLedger ==
    /\ \A i \in DOMAIN recurrences : OnLedger(recurrences[i].gap, recurrences[i].proof)
    /\ \A g \in Gaps : \A i \in DOMAIN promotions[g] : OnLedger(g, promotions[g][i].attempt)

OneHistory(s) ==
    \A i \in DOMAIN s :
        /\ s[i].revision = i
        /\ s[i].active <=> i = Len(s)
        /\ i > 1 => s[i].attempt.id # s[i - 1].attempt.id \/ s[i].policy # s[i - 1].policy

(* Promotions of concurrent requests and retries make one history of each gap:
   revisions are numbered in order, the last is the active one, and each differs
   from the one before it in its attempt or its policy. *)
OneActiveRevision == \A g \in Gaps : OneHistory(promotions[g])
=============================================================================
