--------------------------- MODULE RepairLoopProofs ---------------------------
(***************************************************************************)
(* Proofs about RepairLoop, for any workers, gaps, audits, snapshots, policies  *)
(* and bounds.                                                               *)
(***************************************************************************)
EXTENDS RepairLoop, FiniteSetTheorems, SequenceTheorems, WellFoundedInduction, TLAPS

(* A nonempty set of positions has a first one. *)
LEMMA FirstExists ==
    ASSUME NEW S, S \subseteq Nat, S # {}
    PROVE  FirstOf(S) \in S /\ \A j \in S : FirstOf(S) <= j
<1> DEFINE Intervals == {0..n : n \in S}
           R == StrictSubsetOrdering(Nat)
<1>1. Intervals \subseteq FiniteSubsetsOf(Nat) /\ Intervals # {}
  <2>1. \A n \in S : 0..n \subseteq Nat /\ IsFiniteSet(0..n)
    BY FS_Interval, SMT
  <2> QED
    BY <2>1 DEF FiniteSubsetsOf
<1>2. IsWellFoundedOn(R, FiniteSubsetsOf(Nat))
  BY FS_StrictSubsetOrderingWellFounded
<1> HIDE DEF R
<1>3. PICK U \in Intervals : \A V \in Intervals : <<V, U>> \notin R
  <2> HIDE DEF Intervals
  <2> QED
    BY <1>1, <1>2, WFMin
<1>4. PICK i \in S : U = 0..i
  OBVIOUS
<1>5. ASSUME NEW j \in S PROVE i <= j
  <2> SUFFICES ASSUME j < i PROVE FALSE
    BY SMT
  <2>1. 0..j \in Intervals
    OBVIOUS
  <2>2. 0..j \subseteq 0..i /\ 0..j # 0..i /\ 0..j \subseteq Nat /\ 0..i \subseteq Nat
    BY SMT
  <2>3. <<0..j, 0..i>> \in R
    BY <2>2 DEF R, StrictSubsetOrdering
  <2> QED
    BY <1>3, <1>4, <2>1, <2>3
<1> QED
  BY <1>5 DEF FirstOf

(* Positions of a sequence of records. *)
LEMMA Positions ==
    ASSUME TypeOK
    PROVE  /\ DOMAIN recurrences = 1..Len(recurrences) /\ Len(recurrences) \in Nat
           /\ \A i \in DOMAIN recurrences : recurrences[i] \in Recurrence
           /\ \A g : Suspected(g) # {} => FirstOf(Suspected(g)) \in Suspected(g)
           /\ \A id : RecordsOf(id) # {} => FirstOf(RecordsOf(id)) \in RecordsOf(id)
<1>1. recurrences \in Seq(Recurrence)
  BY DEF TypeOK
<1>2. DOMAIN recurrences = 1..Len(recurrences) /\ Len(recurrences) \in Nat
  BY <1>1
<1>3. \A i \in DOMAIN recurrences : recurrences[i] \in Recurrence
  BY <1>1
<1>4. /\ \A g : Suspected(g) \subseteq Nat
      /\ \A id : RecordsOf(id) \subseteq Nat
  BY <1>2 DEF Suspected, RecordsOf
<1> QED
  BY <1>2, <1>3, <1>4, FirstExists

-----------------------------------------------------------------------------
(* Type correctness. *)

LEMMA NoRequestType == NoRequest \in Request
  BY DEF NoRequest, Request

LEMMA InitType == Init => TypeOK
<1> SUFFICES ASSUME Init PROVE TypeOK
  OBVIOUS
<1>1. request \in [Workers -> Request] /\ \A w \in Workers : request[w] = NoRequest
  BY NoRequestType DEF Init
<1>2. WellFormed(NoRequest)
  BY NoneAssumption DEF NoRequest, WellFormed
<1>3. recurrences \in Seq(Recurrence) /\ promotions \in [Gaps -> Seq(Promotion)]
  BY DEF Init
<1> QED
  BY <1>1, <1>2, <1>3, StatusesAssumption, BoundsAssumption DEF Init, TypeOK

(* A worker's request becomes another well-formed one, and the rest of the state
   keeps its type. *)
RestOK ==
    /\ gaps \in [Gaps -> GapStatuses]
    /\ clock \in 0..MaxAttempts
    /\ attempts \in SUBSET Attempt
    /\ recurrences \in Seq(Recurrence)
    /\ observations \in SUBSET Observation
    /\ promotions \in [Gaps -> Seq(Promotion)]
    /\ reopened \in SUBSET (Gaps \X Audits)

LEMMA NextRequest ==
    ASSUME TypeOK, RestOK', NEW w \in Workers, NEW r \in Request, WellFormed(r),
           request' = [request EXCEPT ![w] = r]
    PROVE  TypeOK'
<1>1. request' \in [Workers -> Request]
  BY DEF TypeOK
<1>2. \A v \in Workers : WellFormed(request[v])'
  <2> SUFFICES ASSUME NEW v \in Workers PROVE WellFormed(request'[v])
    BY DEF WellFormed
  <2>1. request'[v] = r \/ request'[v] = request[v]
    BY DEF TypeOK
  <2> QED
    BY <2>1 DEF TypeOK
<1> QED
  BY <1>1, <1>2 DEF TypeOK, RestOK

LEMMA FinishType ==
    ASSUME TypeOK, RestOK', NEW w \in Workers, Finish(w)
    PROVE  TypeOK'
<1>1. WellFormed(NoRequest)
  BY NoneAssumption DEF NoRequest, WellFormed
<1> QED
  BY <1>1, NoRequestType, NextRequest DEF Finish

(* The steps that write no store. *)
Quiet == UNCHANGED <<gaps, clock, attempts, recurrences, observations, promotions, reopened>>

LEMMA QuietType ==
    ASSUME TypeOK, Quiet, NEW w \in Workers, NEW r \in Request, WellFormed(r),
           request' = [request EXCEPT ![w] = r]
    PROVE  TypeOK'
<1>1. RestOK'
  BY DEF Quiet, TypeOK, RestOK
<1> QED
  BY <1>1, NextRequest

LEMMA VerifyType ==
    ASSUME TypeOK, NEW w \in Workers,
           AppendAttempt(w) \/ \E g \in Gaps : Verify(w, g)
    PROVE  TypeOK'
<1>1. ASSUME NEW g \in Gaps, Verify(w, g) PROVE TypeOK'
  <2>1. PICK snapshot \in Snapshots :
          Begin(w, [NoRequest EXCEPT !.at = "search",
                    !.proof = [id |-> clock', gap |-> g, snapshot |-> snapshot, passed |-> FALSE]])
    BY <1>1 DEF Verify
  <2> DEFINE a == [id |-> clock', gap |-> g, snapshot |-> snapshot, passed |-> FALSE]
             r == [NoRequest EXCEPT !.at = "search", !.proof = a]
  <2>2. clock' = clock + 1 /\ clock + 1 \in 1..MaxAttempts
    <3>1. clock \in 0..MaxAttempts /\ clock < MaxAttempts /\ clock' = clock + 1
      BY <1>1 DEF Verify, TypeOK
    <3> QED
      BY <3>1, BoundsAssumption
  <2>3. a \in Attempt
    BY <2>2, BoundsAssumption DEF Attempt, TypeOK
  <2> HIDE DEF a
  <2>4. r \in Request /\ WellFormed(r)
    BY <2>3, NoneAssumption DEF NoRequest, Request, WellFormed
  <2>5. request' = [request EXCEPT ![w] = r]
    BY <2>1 DEF Begin, a
  <2>6. RestOK'
    <3>1. UNCHANGED <<gaps, attempts, recurrences, observations, promotions, reopened>>
      BY <1>1 DEF Verify
    <3>2. clock' \in 0..MaxAttempts
      BY <2>2, BoundsAssumption
    <3> QED
      BY <3>1, <3>2 DEF RestOK, TypeOK
  <2> HIDE DEF r
  <2> QED
    BY <2>4, <2>5, <2>6, NextRequest
<1>2. CASE AppendAttempt(w)
  <2>1. request[w].proof \in Attempt
    BY <1>2 DEF AppendAttempt, TypeOK, WellFormed
  <2>2. \A passed \in BOOLEAN : [request[w].proof EXCEPT !.passed = passed] \in Attempt
    BY <2>1 DEF Attempt
  <2>3. attempts' \in SUBSET Attempt
    BY <1>2, <2>2 DEF AppendAttempt, TypeOK
  <2>4. RestOK'
    BY <1>2, <2>3 DEF AppendAttempt, RestOK, TypeOK
  <2> QED
    BY <1>2, <2>4, FinishType DEF AppendAttempt
<1> QED
  BY <1>1, <1>2

LEMMA ProjectType ==
    ASSUME TypeOK, NEW w \in Workers,
           \/ \E g \in Gaps, x \in Audits : Detect(w, g, x)
           \/ \E g \in Gaps : Promote(w, g)
           \/ Project(w) \/ CheckPending(w)
    PROVE  TypeOK'
<1>1. ASSUME NEW g \in Gaps, NEW x \in Audits, Detect(w, g, x) PROVE TypeOK'
  <2> DEFINE r == [NoRequest EXCEPT !.at = "project", !.gap = g, !.audit = x]
  <2>1. r \in Request /\ WellFormed(r)
    BY DEF NoRequest, Request, WellFormed
  <2> QED
    BY <1>1, <2>1, QuietType DEF Detect, Begin, Quiet
<1>2. CASE Project(w)
  <2>1. request[w] \in Request /\ WellFormed(request[w]) /\ request[w].at = "project"
    BY <1>2 DEF TypeOK, Project
  <2>2. Quiet
    BY <1>2 DEF Project, Quiet
  <2>3. ASSUME NEW a \in attempts, NEW at \in {"pending", "observe"},
               at = "observe" => request[w].audit # None,
               request' = [request EXCEPT ![w].at = at, ![w].proof = a]
        PROVE  TypeOK'
    <3> DEFINE r == [request[w] EXCEPT !.at = at, !.proof = a]
    <3>1. a \in Attempt
      BY DEF TypeOK
    <3>2. r \in Request
      BY <2>1, <3>1 DEF Request
    <3>3. r.at = at /\ r.proof = a /\ r.gap \in Gaps /\ r.audit = request[w].audit
      BY <2>1 DEF Request, WellFormed
    <3>4. WellFormed(r)
      BY <2>1, <2>3, <3>1, <3>3 DEF WellFormed, Request
    <3>5. request' = [request EXCEPT ![w] = r]
      BY <2>1, <2>3 DEF TypeOK, Request
    <3> HIDE DEF r
    <3> QED
      BY <2>2, <3>2, <3>4, <3>5, QuietType
  <2>4. CASE Finish(w)
    <3>1. RestOK'
      BY <2>2 DEF Quiet, RestOK, TypeOK
    <3> QED
      BY <2>4, <3>1, FinishType
  <2>5. \/ Finish(w)
        \/ \E a \in attempts : request' = [request EXCEPT
              ![w].at = IF request[w].audit = None THEN "pending" ELSE "observe",
              ![w].proof = a]
    BY <1>2 DEF Project
  <2> QED
    BY <2>3, <2>4, <2>5
<1>3. ASSUME NEW g \in Gaps, Promote(w, g) PROVE TypeOK'
  <2> DEFINE r == [NoRequest EXCEPT !.at = "project", !.gap = g]
  <2>1. r \in Request /\ WellFormed(r)
    BY DEF NoRequest, Request, WellFormed
  <2> QED
    BY <1>3, <2>1, QuietType DEF Promote, Begin, Quiet
<1>4. CASE CheckPending(w)
  <2>1. request[w] \in Request /\ WellFormed(request[w]) /\ Quiet
    BY <1>4 DEF TypeOK, CheckPending, Quiet
  <2>2. CASE request' = [request EXCEPT ![w].at = "revise"]
    <3> DEFINE r == [request[w] EXCEPT !.at = "revise"]
    <3>1. r \in Request /\ WellFormed(r)
      BY <1>4, <2>1 DEF CheckPending, Request, WellFormed
    <3>2. request' = [request EXCEPT ![w] = r]
      BY <2>1, <2>2 DEF TypeOK, Request
    <3> QED
      BY <2>1, <3>1, <3>2, QuietType
  <2>3. CASE Finish(w)
    <3>1. RestOK'
      BY <2>1 DEF Quiet, RestOK, TypeOK
    <3> QED
      BY <2>3, <3>1, FinishType
  <2> QED
    BY <1>4, <2>2, <2>3 DEF CheckPending
<1> QED
  BY <1>1, <1>2, <1>3, <1>4

-----------------------------------------------------------------------------
(* The stores. *)

(* The oldest record of an ID, which the stores find. *)
Oldest(k, id) ==
    /\ k \in DOMAIN recurrences /\ recurrences[k].id = id
    /\ \A j \in DOMAIN recurrences : recurrences[j].id = id => k <= j

LEMMA FirstIsOldest ==
    ASSUME TypeOK, NEW id, RecordsOf(id) # {}
    PROVE  Oldest(FirstOf(RecordsOf(id)), id)
<1> DEFINE S == RecordsOf(id)
<1>1. S \subseteq Nat /\ S # {}
  BY Positions DEF RecordsOf
<1>2. FirstOf(S) \in S
  BY Positions
<1>3. \A j \in S : FirstOf(S) <= j
  BY <1>1, FirstExists
<1> QED
  BY <1>2, <1>3 DEF Oldest, RecordsOf

(* SaveRepairRecurrence writes a record over the oldest of its ID, or appends it. *)
LEMMA SaveLemma ==
    ASSUME TypeOK, NEW r \in Recurrence, SaveRecurrence(r)
    PROVE  /\ recurrences' \in Seq(Recurrence)
           /\ \A j \in DOMAIN recurrences' : recurrences'[j] \in Recurrence
           /\ RecordsOf(r.id) # {} =>
                 /\ DOMAIN recurrences' = DOMAIN recurrences
                 /\ \E k \in DOMAIN recurrences :
                       /\ Oldest(k, r.id)
                       /\ recurrences'[k] = r
                       /\ \A j \in DOMAIN recurrences : j # k => recurrences'[j] = recurrences[j]
<1>1. recurrences \in Seq(Recurrence)
  BY DEF TypeOK
<1>2. CASE RecordsOf(r.id) = {}
  <2>1. recurrences' = Append(recurrences, r)
    BY <1>2 DEF SaveRecurrence
  <2> QED
    BY <1>1, <1>2, <2>1
<1>3. CASE RecordsOf(r.id) # {}
  <2> DEFINE k == FirstOf(RecordsOf(r.id))
  <2>1. k \in RecordsOf(r.id)
    BY <1>3, Positions
  <2>2. k \in DOMAIN recurrences /\ Oldest(k, r.id)
    BY <1>3, <2>1, FirstIsOldest DEF RecordsOf
  <2>3. recurrences' = [recurrences EXCEPT ![k] = r]
    BY <1>3 DEF SaveRecurrence
  <2> HIDE DEF k
  <2>4. recurrences' \in Seq(Recurrence) /\ DOMAIN recurrences' = DOMAIN recurrences
    BY <1>1, <2>2, <2>3, Positions, ExceptSeq
  <2>5. recurrences'[k] = r /\ \A j \in DOMAIN recurrences : j # k => recurrences'[j] = recurrences[j]
    BY <1>1, <2>2, <2>3
  <2> QED
    BY <2>2, <2>4, <2>5
<1> QED
  BY <1>2, <1>3

(* observeRepairRecurrence leaves the records alone, counts the audit towards one
   suspected record of the gap, or appends a suspected record. *)
Counted(k, g, x, a) ==
    /\ k \in Suspected(g)
    /\ DOMAIN recurrences' = DOMAIN recurrences
    /\ \A j \in DOMAIN recurrences : j # k => recurrences'[j] = recurrences[j]
    /\ recurrences'[k] = [recurrences[k] EXCEPT !.count = @ + 1, !.latest = x, !.proof = a]
    /\ Noted(g, x, recurrences[k].id)

Appended(g, x, a) ==
    /\ Suspected(g) = {}
    /\ DOMAIN recurrences' = 1..(Len(recurrences) + 1)
    /\ Len(recurrences') = Len(recurrences) + 1
    /\ \A j \in DOMAIN recurrences : recurrences'[j] = recurrences[j]
    /\ recurrences'[Len(recurrences) + 1] = [id |-> x, gap |-> g, status |-> "suspected",
                                             count |-> 1, latest |-> x, proof |-> a]
    /\ Noted(g, x, x)

LEMMA ObserveLemma ==
    ASSUME TypeOK, NEW g \in Gaps, NEW x \in Audits, NEW a \in Attempt,
           ObserveRecurrence(g, x, a)
    PROVE  /\ recurrences' \in Seq(Recurrence)
           /\ observations' \in SUBSET Observation
           /\ \/ UNCHANGED <<recurrences, observations>>
              \/ ~Observed(g, x) /\ \E k \in Suspected(g) : Counted(k, g, x, a)
              \/ ~Observed(g, x) /\ Appended(g, x, a)
<1>1. recurrences \in Seq(Recurrence) /\ observations \in SUBSET Observation
  BY DEF TypeOK
<1>2. CASE UNCHANGED <<recurrences, observations>>
  BY <1>1, <1>2
<1>3. CASE ~Observed(g, x) /\ Suspected(g) # {} /\ Merge(FirstOf(Suspected(g)), g, x, a)
  <2> DEFINE k == FirstOf(Suspected(g))
             r == [recurrences[k] EXCEPT !.count = @ + 1, !.latest = x, !.proof = a]
  <2>1. k \in Suspected(g)
    BY <1>3, Positions
  <2>2. k \in DOMAIN recurrences /\ recurrences[k] \in Recurrence
    BY <2>1, Positions DEF Suspected
  <2>3. Merge(k, g, x, a)
    BY <1>3
  <2> HIDE DEF k
  <2>4. r \in Recurrence
    <3>1. recurrences[k].count + 1 \in Nat \ {0}
      BY <2>2 DEF Recurrence
    <3> QED
      BY <2>2, <3>1 DEF Recurrence
  <2>5. recurrences' = [recurrences EXCEPT ![k] = r]
    BY <2>2, <2>3, <1>1 DEF Merge, Recurrence
  <2> HIDE DEF r
  <2>6. recurrences' \in Seq(Recurrence) /\ DOMAIN recurrences' = DOMAIN recurrences
    BY <1>1, <2>2, <2>4, <2>5, Positions, ExceptSeq
  <2>7. recurrences'[k] = r /\ \A j \in DOMAIN recurrences : j # k => recurrences'[j] = recurrences[j]
    BY <1>1, <2>2, <2>5
  <2>8. observations' \in SUBSET Observation
    BY <1>1, <2>2, <2>3 DEF Merge, Noted, Observation, Recurrence
  <2>9. Counted(k, g, x, a)
    BY <2>1, <2>3, <2>6, <2>7 DEF Counted, Merge, r
  <2> QED
    BY <1>3, <2>1, <2>6, <2>8, <2>9
<1>4. CASE ~Observed(g, x) /\ Suspected(g) = {} /\ Suspect(g, x, a)
  <2> DEFINE r == [id |-> x, gap |-> g, status |-> "suspected", count |-> 1, latest |-> x, proof |-> a]
  <2>1. r \in Recurrence
    BY DEF Recurrence
  <2>2. recurrences' = Append(recurrences, r)
    BY <1>4 DEF Suspect
  <2>3. Noted(g, x, x)
    BY <1>4 DEF Suspect
  <2>4. observations' \in SUBSET Observation
    BY <1>1, <2>3 DEF Noted, Observation
  <2> HIDE DEF r
  <2>5. /\ recurrences' \in Seq(Recurrence)
        /\ DOMAIN recurrences' = 1..(Len(recurrences) + 1)
        /\ Len(recurrences') = Len(recurrences) + 1
        /\ \A j \in DOMAIN recurrences : recurrences'[j] = recurrences[j]
        /\ recurrences'[Len(recurrences) + 1] = r
    BY <1>1, <2>1, <2>2
  <2>6. Appended(g, x, a)
    BY <1>4, <2>3, <2>5 DEF Appended, r
  <2> QED
    BY <1>4, <2>4, <2>5, <2>6
<1> QED
  BY <1>2, <1>3, <1>4 DEF ObserveRecurrence

(* promoteRepairEval numbers revisions from one: the largest is the number of them. *)
LEMMA MaxRevisionIsLen ==
    ASSUME NEW s \in Seq(Promotion), OneHistory(s)
    PROVE  MaxRevision(s) = Len(s)
<1>1. Len(s) \in Nat /\ DOMAIN s = 1..Len(s)
  OBVIOUS
<1>2. CASE s = <<>>
  BY <1>2 DEF MaxRevision
<1>3. CASE s # <<>>
  <2> DEFINE R == {s[i].revision : i \in DOMAIN s}
             Greatest(n) == \A i \in DOMAIN s : s[i].revision <= n
  <2>1. \A i \in DOMAIN s : s[i].revision = i
    BY DEF OneHistory
  <2>2. Len(s) > 0
    BY <1>1, <1>3
  <2>3. Len(s) \in R
    <3>1. Len(s) \in DOMAIN s
      BY <1>1, <2>2
    <3> QED
      BY <2>1, <3>1
  <2>4. Greatest(Len(s))
    BY <1>1, <2>1
  <2>5. \A n \in R : Greatest(n) => n = Len(s)
    <3>1. SUFFICES ASSUME NEW i \in DOMAIN s, Greatest(i)
                   PROVE  i = Len(s)
      BY <2>1
    <3>2. Len(s) \in DOMAIN s
      BY <1>1, <2>2
    <3>3. s[Len(s)].revision <= i
      BY <3>1, <3>2
    <3>4. Len(s) <= i
      BY <2>1, <3>2, <3>3
    <3> QED
      BY <1>1, <3>1, <3>4
  <2>6. MaxRevision(s) = CHOOSE n \in R : Greatest(n)
    BY <1>3 DEF MaxRevision
  <2> HIDE DEF R, Greatest
  <2> QED
    BY <2>3, <2>4, <2>5, <2>6
<1> QED
  BY <1>2, <1>3

(* The next revision of a history retires the active one, and is of another attempt
   or policy. *)
LEMMA RevisedLemma ==
    ASSUME NEW s \in Seq(Promotion), OneHistory(s), NEW a \in Attempt, NEW p \in Policies,
           ~AlreadyActive(s, a, p)
    PROVE  /\ Revised(s, a, p) \in Seq(Promotion)
           /\ OneHistory(Revised(s, a, p))
           /\ \A i \in DOMAIN Revised(s, a, p) :
                 \/ Revised(s, a, p)[i].attempt = a
                 \/ i \in DOMAIN s /\ Revised(s, a, p)[i].attempt = s[i].attempt
<1>1. /\ Len(s) \in Nat /\ DOMAIN s = 1..Len(s)
      /\ \A i \in DOMAIN s : s[i] \in Promotion
  OBVIOUS
<1> DEFINE t == Revised(s, a, p)
<1>2. t = Append(Retired(s), Revision(s, a, p))
  BY DEF Revised
<1> HIDE DEF t
<1> DEFINE n == Len(s)
           r == Revision(s, a, p)
<1>3. r = [revision |-> n + 1, attempt |-> a, policy |-> p, active |-> TRUE]
  BY MaxRevisionIsLen DEF Revision
<1>4. r \in Promotion
  BY <1>1, <1>3 DEF Promotion
<1>5. Active(s) = IF n = 0 THEN {} ELSE {n}
  BY <1>1 DEF Active, OneHistory
<1>6. /\ Retired(s) \in Seq(Promotion) /\ Len(Retired(s)) = n
      /\ \A i \in 1..n : /\ Retired(s)[i].revision = s[i].revision
                          /\ Retired(s)[i].attempt = s[i].attempt
                          /\ Retired(s)[i].policy = s[i].policy
                          /\ Retired(s)[i].active = FALSE
  <2>1. CASE n = 0
    BY <1>1, <1>5, <2>1 DEF Retired
  <2>2. CASE n # 0
    <3> DEFINE e == [s[n] EXCEPT !.active = FALSE]
    <3>1. (CHOOSE i \in Active(s) : \A j \in Active(s) : j <= i) = n
      BY <1>1, <1>5, <2>2
    <3>2. Retired(s) = [s EXCEPT ![n].active = FALSE]
      BY <1>5, <2>2, <3>1 DEF Retired
    <3>3. n \in 1..n /\ s[n] \in Promotion
      BY <1>1, <2>2
    <3>4. e \in Promotion
      BY <3>3 DEF Promotion
    <3>5. Retired(s) = [s EXCEPT ![n] = e]
      BY <1>1, <3>2, <3>3
    <3>6. e.active = FALSE /\ e.revision = s[n].revision
          /\ e.attempt = s[n].attempt /\ e.policy = s[n].policy
      BY <3>3 DEF Promotion
    <3> HIDE DEF e
    <3>7. /\ Retired(s) \in Seq(Promotion) /\ Len(Retired(s)) = n
          /\ \A i \in 1..n : Retired(s)[i] = IF i = n THEN e ELSE s[i]
      BY <1>1, <3>3, <3>4, <3>5, ExceptSeq
    <3>8. \A i \in 1..n : i # n => s[i].active = FALSE
      <4> SUFFICES ASSUME NEW i \in 1..n, i # n PROVE s[i].active = FALSE
        OBVIOUS
      <4>1. s[i].active \in BOOLEAN
        BY <1>1 DEF Promotion
      <4>2. ~s[i].active
        BY <1>1 DEF OneHistory
      <4> QED
        BY <4>1, <4>2
    <3> QED
      BY <3>6, <3>7, <3>8
  <2> QED
    BY <2>1, <2>2
<1> HIDE DEF r
<1>7. t = Append(Retired(s), r)
  BY <1>2 DEF r
<1>8. /\ t \in Seq(Promotion) /\ DOMAIN t = 1..(n + 1)
      /\ Len(t) = n + 1
      /\ t[n + 1] = r
      /\ \A i \in 1..n : t[i] = Retired(s)[i]
  BY <1>4, <1>6, <1>7, <1>1
<1>9. \A i \in 1..n : t[i].attempt = s[i].attempt
  BY <1>6, <1>8
<1>10. n >= 1 => \/ s[n].attempt.id # a.id
                \/ s[n].policy # p
  BY <1>5, <1>1 DEF AlreadyActive
<1>11. OneHistory(t)
  <2> SUFFICES ASSUME NEW i \in 1..(n + 1)
               PROVE  /\ t[i].revision = i
                      /\ t[i].active <=> i = n + 1
                      /\ i > 1 => \/ t[i].attempt.id # t[i - 1].attempt.id
                                  \/ t[i].policy # t[i - 1].policy
    BY <1>8 DEF OneHistory
  <2>1. CASE i = n + 1
    <3>1. t[i] = r
      BY <1>8, <2>1
    <3>2. i > 1 => n \in 1..n /\ i - 1 = n
      BY <1>1, <2>1
    <3>3. i > 1 => t[n].attempt = s[n].attempt
                   /\ t[n].policy = s[n].policy
      BY <1>6, <1>8, <3>2
    <3> QED
      BY <1>1, <1>3, <1>10, <2>1, <3>1, <3>2, <3>3
  <2>2. CASE i \in 1..n
    <3>1. t[i] = Retired(s)[i]
      BY <1>8, <2>2
    <3>2. i > 1 => i - 1 \in 1..n /\ t[i - 1] = Retired(s)[i - 1]
      BY <1>1, <1>8, <2>2
    <3>3. i # n + 1 /\ i \in DOMAIN s
      BY <1>1, <2>2
    <3> QED
      BY <1>1, <1>6, <2>2, <3>1, <3>2, <3>3 DEF OneHistory
  <2> QED
    BY <1>1, <2>1, <2>2
<1>12. r.attempt = a
  BY <1>3
<1>13. \A i \in 1..(n + 1) : i = n + 1 \/ i \in 1..n
  BY <1>1
<1>14. /\ t \in Seq(Promotion) /\ OneHistory(t)
       /\ \A i \in DOMAIN t : \/ t[i].attempt = a
                              \/ i \in DOMAIN s /\ t[i].attempt = s[i].attempt
  BY <1>1, <1>8, <1>9, <1>11, <1>12, <1>13
<1> QED
  BY <1>14 DEF t

(* promoteRepairEval keeps the history of each gap, or revises it. *)
LEMMA PromoteLemma ==
    ASSUME TypeOK, OneActiveRevision, NEW g \in Gaps, NEW a \in Attempt, NEW p \in Policies,
           PromoteEval(g, a, p)
    PROVE  /\ promotions' \in [Gaps -> Seq(Promotion)]
           /\ OneActiveRevision'
           /\ \A h \in Gaps : \A i \in DOMAIN promotions'[h] :
                 \/ h = g /\ promotions'[h][i].attempt = a
                 \/ /\ i \in DOMAIN promotions[h]
                    /\ promotions'[h][i].attempt = promotions[h][i].attempt
<1>1. promotions \in [Gaps -> Seq(Promotion)] /\ \A h \in Gaps : OneHistory(promotions[h])
  BY DEF TypeOK, OneActiveRevision
<1>2. CASE UNCHANGED promotions
  BY <1>1, <1>2 DEF OneActiveRevision, OneHistory
<1>3. CASE /\ ~AlreadyActive(promotions[g], a, p)
           /\ promotions' = [promotions EXCEPT ![g] = Revised(@, a, p)]
  <2> DEFINE s == promotions[g]
             t == Revised(s, a, p)
  <2>1. s \in Seq(Promotion) /\ OneHistory(s) /\ ~AlreadyActive(s, a, p)
    BY <1>1, <1>3
  <2> HIDE DEF s
  <2>2. /\ t \in Seq(Promotion) /\ OneHistory(t)
        /\ \A i \in DOMAIN t : \/ t[i].attempt = a
                               \/ i \in DOMAIN s /\ t[i].attempt = s[i].attempt
    BY <2>1, RevisedLemma
  <2>3. promotions' = [promotions EXCEPT ![g] = t]
    BY <1>3 DEF s
  <2> HIDE DEF t
  <2>4. /\ promotions' \in [Gaps -> Seq(Promotion)] /\ promotions'[g] = t
        /\ \A h \in Gaps : h # g => promotions'[h] = promotions[h]
    BY <1>1, <2>2, <2>3
  <2>5. \A h \in Gaps : OneHistory(promotions'[h])
    BY <1>1, <2>2, <2>4
  <2>6. OneActiveRevision'
    BY <2>5 DEF OneActiveRevision, OneHistory
  <2> QED
    BY <2>2, <2>4, <2>6 DEF s
<1> QED
  BY <1>2, <1>3 DEF PromoteEval

-----------------------------------------------------------------------------
(* Type correctness of the steps that write. *)

LEMMA RememberType ==
    ASSUME TypeOK, recurrences' \in Seq(Recurrence), Remember
    PROVE  reopened' \in SUBSET (Gaps \X Audits)
<1>1. \A i \in DOMAIN recurrences' : recurrences'[i] \in Recurrence
  OBVIOUS
<1>2. \A i \in DOMAIN recurrences' : <<recurrences'[i].gap, recurrences'[i].id>> \in Gaps \X Audits
  BY <1>1 DEF Recurrence
<1> QED
  BY <1>2 DEF Remember, TypeOK

LEMMA WriteType ==
    ASSUME TypeOK, OneActiveRevision, NEW w \in Workers,
           \/ Observe(w) \/ Reopen(w) \/ SaveDecision(w)
           \/ \E p \in Policies : Revise(w, p)
           \/ WriteGaps(w)
    PROVE  TypeOK'
<1>0. request[w] \in Request /\ WellFormed(request[w])
  BY DEF TypeOK
<1>1. CASE Observe(w)
  <2>1. /\ request[w].gap \in Gaps /\ request[w].audit \in Audits
        /\ request[w].proof \in Attempt
    BY <1>0, <1>1 DEF Observe, WellFormed
  <2>2. recurrences' \in Seq(Recurrence) /\ observations' \in SUBSET Observation
    BY <1>1, <2>1, ObserveLemma DEF Observe
  <2>3. reopened' \in SUBSET (Gaps \X Audits)
    BY <1>1, <2>2, RememberType DEF Observe
  <2>4. RestOK'
    BY <1>1, <2>2, <2>3 DEF Observe, RestOK, TypeOK
  <2> QED
    BY <1>1, <2>4, FinishType DEF Observe
<1>2. CASE Reopen(w)
  <2>1. request[w].record \in Recurrence
    BY <1>0, <1>2 DEF Reopen, WellFormed
  <2>2. reopened' \in SUBSET (Gaps \X Audits)
    <3>1. recurrences' \in Seq(Recurrence)
      BY <1>2 DEF Reopen, TypeOK
    <3> QED
      BY <1>2, <3>1, RememberType DEF Reopen
  <2>3. RestOK'
    BY <1>2, <2>2 DEF Reopen, RestOK, TypeOK
  <2> DEFINE h == request[w].record.gap
  <2>4. CASE gaps[h] = "open"
    <3> DEFINE r == [request[w] EXCEPT !.at = "save"]
    <3>1. r \in Request /\ WellFormed(r)
      BY <1>0, <1>2, <2>1 DEF Reopen, Request, WellFormed
    <3>2. request' = [request EXCEPT ![w] = r]
      BY <1>0, <1>2, <2>4 DEF Reopen, TypeOK, Request
    <3> QED
      BY <2>3, <3>1, <3>2, NextRequest
  <2>5. CASE gaps[h] # "open"
    <3> DEFINE file == [gaps EXCEPT ![h] = "open"]
               r == [request[w] EXCEPT !.at = "rewrite", !.file = file]
    <3>1. file \in [Gaps -> GapStatuses]
      BY <2>1, StatusesAssumption DEF TypeOK, Recurrence
    <3> HIDE DEF file
    <3>2. r \in Request /\ WellFormed(r)
      <4>1. r \in Request
        BY <1>0, <3>1 DEF Request
      <4>2. r.at = "rewrite" /\ r.file = file /\ r.audit = request[w].audit
        BY <1>0 DEF Request
      <4> QED
        BY <3>1, <4>1, <4>2 DEF WellFormed
    <3>3. request' = [request EXCEPT ![w].at = "rewrite", ![w].file = file]
      BY <1>2, <2>5 DEF Reopen, file
    <3>4. request' = [request EXCEPT ![w] = r]
      BY <1>0, <3>3 DEF TypeOK, Request
    <3> HIDE DEF r
    <3> QED
      BY <2>3, <3>2, <3>4, NextRequest
  <2> QED
    BY <2>4, <2>5
<1>3. CASE SaveDecision(w)
  <2>1. request[w].record \in Recurrence
    BY <1>0, <1>3 DEF SaveDecision, WellFormed
  <2>2. recurrences' \in Seq(Recurrence)
    BY <1>3, <2>1, SaveLemma DEF SaveDecision
  <2>3. RestOK'
    BY <1>3, <2>2 DEF SaveDecision, RestOK, TypeOK
  <2> QED
    BY <1>3, <2>3, FinishType DEF SaveDecision
<1>4. ASSUME NEW p \in Policies, Revise(w, p) PROVE TypeOK'
  <2>1. request[w].proof \in Attempt /\ request[w].gap \in Gaps
    BY <1>0, <1>4 DEF Revise, WellFormed
  <2>2. promotions' \in [Gaps -> Seq(Promotion)]
    BY <1>4, <2>1, PromoteLemma DEF Revise
  <2>3. RestOK'
    BY <1>4, <2>2 DEF Revise, RestOK, TypeOK
  <2> QED
    BY <1>4, <2>3, FinishType DEF Revise
<1>5. CASE WriteGaps(w)
  <2>1. request[w].file \in [Gaps -> GapStatuses]
    BY <1>0, <1>5 DEF WriteGaps, WellFormed
  <2>2. reopened' \in SUBSET (Gaps \X Audits)
    <3>1. recurrences' \in Seq(Recurrence)
      BY <1>5 DEF WriteGaps, TypeOK
    <3> QED
      BY <1>5, <3>1, RememberType DEF WriteGaps
  <2>3. RestOK'
    BY <1>5, <2>1, <2>2 DEF WriteGaps, RestOK, TypeOK
  <2>4. CASE request[w].record = None
    BY <1>5, <2>3, <2>4, FinishType DEF WriteGaps
  <2>5. CASE request[w].record # None
    <3> DEFINE r == [request[w] EXCEPT !.at = "save", !.file = None]
    <3>1. request[w].record \in Recurrence
      BY <1>0, <2>5 DEF Request
    <3>2. r \in Request /\ WellFormed(r)
      BY <1>0, <3>1 DEF Request, WellFormed
    <3>3. request' = [request EXCEPT ![w] = r]
      BY <1>0, <1>5, <2>5 DEF WriteGaps, TypeOK, Request
    <3> HIDE DEF r
    <3> QED
      BY <2>3, <3>2, <3>3, NextRequest
  <2> QED
    BY <2>4, <2>5
<1> QED
  BY <1>1, <1>2, <1>3, <1>4, <1>5

LEMMA OtherType ==
    ASSUME TypeOK, NEW w \in Workers,
           \/ \E id \in Audits : Confirm(w, id) \/ Dismiss(w, id)
           \/ \E g \in Gaps, status \in GapStatuses : UpdateGap(w, g, status)
           \/ Abandon(w)
    PROVE  TypeOK'
<1>1. ASSUME NEW id \in Audits, NEW at \in {"reopen", "save"},
             NEW status \in {"confirmed", "dismissed"}, Decide(w, id, at, status)
      PROVE  TypeOK'
  <2> DEFINE i == FirstOf(RecordsOf(id))
             c == [recurrences[i] EXCEPT !.status = status]
             r == [NoRequest EXCEPT !.at = at, !.record = c]
  <2>1. i \in DOMAIN recurrences
    BY <1>1, Positions DEF Decide, RecordsOf
  <2>2. request' = [request EXCEPT ![w] = r] /\ Quiet
    BY <1>1 DEF Decide, Begin, Quiet
  <2> HIDE DEF i
  <2>3. c \in Recurrence
    BY <2>1, Positions DEF Recurrence
  <2> HIDE DEF c
  <2>4. r \in Request /\ WellFormed(r)
    BY <2>3, NoneAssumption DEF NoRequest, Request, WellFormed
  <2> HIDE DEF r
  <2> QED
    BY <2>2, <2>4, QuietType
<1>2. ASSUME NEW g \in Gaps, NEW status \in GapStatuses, UpdateGap(w, g, status)
      PROVE  TypeOK'
  <2> DEFINE file == [gaps EXCEPT ![g] = status]
             r == [NoRequest EXCEPT !.at = "rewrite", !.file = file]
  <2>1. file \in [Gaps -> GapStatuses]
    BY DEF TypeOK
  <2>2. request' = [request EXCEPT ![w] = r] /\ Quiet
    BY <1>2 DEF UpdateGap, Begin, Quiet
  <2> HIDE DEF file
  <2>3. r \in Request /\ WellFormed(r)
    BY <2>1, NoneAssumption DEF NoRequest, Request, WellFormed
  <2> HIDE DEF r
  <2> QED
    BY <2>2, <2>3, QuietType
<1>3. CASE Abandon(w)
  <2>1. RestOK'
    BY <1>3 DEF Abandon, RestOK, TypeOK
  <2> QED
    BY <1>3, <2>1, FinishType DEF Abandon
<1> QED
  BY <1>1, <1>2, <1>3 DEF Confirm, Dismiss

-----------------------------------------------------------------------------
(* The steps of Next that write the recurrence records, the promotions or the
   ledger of attempts are few. *)

LEMMA RecordsChange ==
    ASSUME [Next]_vars, ~UNCHANGED <<recurrences, observations>>
    PROVE  \E w \in Workers : Observe(w) \/ SaveDecision(w)
  BY DEF Next, vars, Verify, AppendAttempt, Detect, Project,
         Confirm, Dismiss, Decide, Reopen, Promote, CheckPending, Revise,
         WriteGaps, Abandon, UpdateGap

LEMMA PromotionsChange ==
    ASSUME [Next]_vars, ~UNCHANGED promotions
    PROVE  \E w \in Workers : \E p \in Policies : Revise(w, p)
  BY DEF Next, vars, Verify, AppendAttempt, Detect, Project,
         Confirm, Dismiss, Decide, Reopen, Promote, CheckPending, Observe,
         SaveDecision, WriteGaps, Abandon, UpdateGap

LEMMA LedgerGrows ==
    ASSUME [Next]_vars
    PROVE  attempts \subseteq attempts'
  BY DEF Next, vars, Verify, AppendAttempt, Detect, Project,
         Confirm, Dismiss, Decide, Reopen, Promote, CheckPending, Observe,
         SaveDecision, Revise, WriteGaps, Abandon, UpdateGap

-----------------------------------------------------------------------------

LEMMA StepType == TypeOK /\ OneActiveRevision /\ [Next]_vars => TypeOK' /\ OneActiveRevision'
<1> SUFFICES ASSUME TypeOK, OneActiveRevision, [Next]_vars
             PROVE  TypeOK' /\ OneActiveRevision'
  OBVIOUS
<1>1. TypeOK'
  <2>1. CASE UNCHANGED vars
    BY <2>1 DEF vars, TypeOK, WellFormed
  <2>2. CASE Next
    BY <2>2, VerifyType, ProjectType, WriteType, OtherType DEF Next
  <2> QED
    BY <2>1, <2>2
<1>2. OneActiveRevision'
  <2>1. CASE UNCHANGED promotions
    BY <2>1 DEF OneActiveRevision, OneHistory
  <2>2. ASSUME NEW w \in Workers, NEW p \in Policies, Revise(w, p)
        PROVE  OneActiveRevision'
    <3>1. request[w].proof \in Attempt /\ request[w].gap \in Gaps
      BY <2>2 DEF Revise, TypeOK, WellFormed
    <3> QED
      BY <2>2, <3>1, PromoteLemma DEF Revise
  <2> QED
    BY <2>1, <2>2, PromotionsChange
<1> QED
  BY <1>1, <1>2

(* The state always has its type, and promotions of concurrent requests and retries
   make one history of each gap, whose last revision is the active one. *)
THEOREM PromotionsAreOneHistory == Spec => [](TypeOK /\ OneActiveRevision)
<1>1. Init => TypeOK /\ OneActiveRevision
  BY InitType DEF Init, OneActiveRevision, OneHistory
<1> QED
  BY <1>1, StepType, PTL DEF Spec

-----------------------------------------------------------------------------
(* The recurrence records.  A gap's IDs have been observed for it, so an audit not
   observed makes a new ID of the gap; a request that saves a decision holds a copy,
   decided, of the oldest record of its ID; and one record of a gap at most is
   pending. *)

Deciding(w) ==
    \/ request[w].at \in {"reopen", "save"}
    \/ request[w].at = "rewrite" /\ request[w].record # None

(* The gap of the oldest record of an ID. *)
OldestIs(g, id) == \E k : Oldest(k, id) /\ recurrences[k].gap = g

IDsAreObserved == \A i \in DOMAIN recurrences : Observed(recurrences[i].gap, recurrences[i].id)

CopiesAreDecided ==
    \A w \in Workers : Deciding(w) =>
        /\ OldestIs(request[w].record.gap, request[w].record.id)
        /\ request[w].record.status # "suspected"

Lone == \A g \in Gaps : \A i, j \in Suspected(g) : i = j

RecordsInv ==
    /\ IsFiniteSet(observations)
    /\ IDsAreObserved
    /\ CopiesAreDecided
    /\ Lone
    /\ CountsAreExact
    /\ ObservationsHaveRecords

LEMMA InitRecords == Init => RecordsInv
<1> SUFFICES ASSUME Init PROVE RecordsInv
  OBVIOUS
<1>1. observations = {} /\ DOMAIN recurrences = {} /\ \A g : Suspected(g) = {}
  BY DEF Init, Suspected
<1>2. \A w \in Workers : ~Deciding(w)
  BY DEF Init, NoRequest, Deciding
<1> QED
  BY <1>1, <1>2, FS_EmptySet DEF RecordsInv, IDsAreObserved, CopiesAreDecided, Lone,
     CountsAreExact, ObservationsHaveRecords

(* The records of the disk keep their places, gaps and IDs, and new ones come after
   them: the oldest of an ID stays the oldest. *)
Kept ==
    /\ DOMAIN recurrences \subseteq DOMAIN recurrences'
    /\ \A i \in DOMAIN recurrences : /\ recurrences'[i].id = recurrences[i].id
                                     /\ recurrences'[i].gap = recurrences[i].gap
    /\ \A i \in DOMAIN recurrences, j \in DOMAIN recurrences' :
          j \in DOMAIN recurrences \/ i <= j

(* The audits counted by a record, given its gap and ID. *)
Of(S, g, id) == {o \in S : o.gap = g /\ o.recurrence = id}

LEMMA CountedByOf == \A i : CountedBy(i) = Of(observations, recurrences[i].gap, recurrences[i].id)
  BY DEF CountedBy, Of

LEMMA OneMore ==
    ASSUME NEW S, IsFiniteSet(S), NEW o, o \notin S
    PROVE  /\ IsFiniteSet(S \cup {o})
           /\ Cardinality(Of(S \cup {o}, o.gap, o.recurrence))
                 = Cardinality(Of(S, o.gap, o.recurrence)) + 1
           /\ \A g, id : g # o.gap \/ id # o.recurrence => Of(S \cup {o}, g, id) = Of(S, g, id)
<1> DEFINE P == Of(S, o.gap, o.recurrence)
<1>1. Of(S \cup {o}, o.gap, o.recurrence) = P \cup {o}
  BY DEF Of
<1>2. o \notin P /\ P \in SUBSET S
  BY DEF Of
<1>3. \A g, id : g # o.gap \/ id # o.recurrence => Of(S \cup {o}, g, id) = Of(S, g, id)
  BY DEF Of
<1> HIDE DEF P
<1>4. IsFiniteSet(P)
  BY <1>2, FS_Subset
<1>5. Cardinality(P \cup {o}) = Cardinality(P) + 1
  BY <1>2, <1>4, FS_AddElement
<1>6. IsFiniteSet(S \cup {o})
  BY FS_AddElement
<1> QED
  BY <1>1, <1>3, <1>5, <1>6 DEF P

(* Counting an audit, observed for the first time, towards the pending record. *)
LEMMA CountedRecords ==
    ASSUME TypeOK, RecordsInv, NEW g \in Gaps, NEW x \in Audits, NEW a \in Attempt,
           ~Observed(g, x), NEW k \in Suspected(g), Counted(k, g, x, a)
    PROVE  /\ IsFiniteSet(observations)' /\ IDsAreObserved' /\ Lone'
           /\ CountsAreExact' /\ ObservationsHaveRecords' /\ Kept
<1> DEFINE o == [audit |-> x, gap |-> g, recurrence |-> recurrences[k].id]
<1>1. k \in DOMAIN recurrences /\ recurrences[k] \in Recurrence /\ recurrences[k].gap = g
  BY Positions DEF Suspected
<1>2. /\ recurrences'[k].id = recurrences[k].id /\ recurrences'[k].gap = recurrences[k].gap
      /\ recurrences'[k].status = recurrences[k].status
      /\ recurrences'[k].count = recurrences[k].count + 1
  BY <1>1 DEF Counted, Recurrence
<1>3. \A i \in DOMAIN recurrences :
         /\ recurrences'[i].id = recurrences[i].id /\ recurrences'[i].gap = recurrences[i].gap
         /\ recurrences'[i].status = recurrences[i].status
         /\ i # k => recurrences'[i].count = recurrences[i].count
  BY <1>1, <1>2 DEF Counted
<1>4. DOMAIN recurrences' = DOMAIN recurrences /\ observations' = observations \cup {o}
  BY DEF Counted, Noted
<1>5. \A h : Suspected(h)' = Suspected(h)
  BY <1>3, <1>4 DEF Suspected
<1>6. o \notin observations /\ IsFiniteSet(observations)
  BY DEF Observed, RecordsInv
<1>7. o.gap = g /\ o.recurrence = recurrences[k].id
  OBVIOUS
<1> HIDE DEF o
<1>8. /\ IsFiniteSet(observations')
      /\ Cardinality(Of(observations', g, recurrences[k].id))
            = Cardinality(Of(observations, g, recurrences[k].id)) + 1
      /\ \A h, id : h # g \/ id # recurrences[k].id =>
            Of(observations', h, id) = Of(observations, h, id)
  BY <1>4, <1>6, <1>7, OneMore
<1>9. CountsAreExact'
  <2> SUFFICES ASSUME NEW h \in Gaps, NEW i \in Suspected(h)
               PROVE  recurrences'[i].count = Cardinality(CountedBy(i))'
    BY <1>5 DEF CountsAreExact
  <2>1. i \in DOMAIN recurrences /\ recurrences[i].gap = h
        /\ recurrences[i].count = Cardinality(Of(observations, h, recurrences[i].id))
    <3>1. i \in DOMAIN recurrences /\ recurrences[i].gap = h
      BY DEF Suspected
    <3>2. recurrences[i].count = Cardinality(CountedBy(i))
      BY DEF RecordsInv, CountsAreExact
    <3> QED
      BY <3>1, <3>2, CountedByOf
  <2>2. CountedBy(i)' = Of(observations', h, recurrences[i].id)
    BY <1>3, <2>1 DEF CountedBy, Of
  <2>3. CASE i = k
    BY <1>1, <1>2, <1>8, <2>1, <2>2, <2>3
  <2>4. CASE i # k
    <3>1. h # g
      BY <2>4 DEF RecordsInv, Lone
    <3>2. Of(observations', h, recurrences[i].id) = Of(observations, h, recurrences[i].id)
      BY <1>8, <3>1
    <3> QED
      BY <1>3, <2>1, <2>2, <2>4, <3>2
  <2> QED
    BY <2>3, <2>4
<1>10. IDsAreObserved'
  BY <1>3, <1>4 DEF RecordsInv, IDsAreObserved, Observed
<1>11. ObservationsHaveRecords'
  <2>1. \A e \in observations' : \E i \in DOMAIN recurrences' :
           recurrences'[i].gap = e.gap /\ recurrences'[i].id = e.recurrence
    BY <1>1, <1>3, <1>4, <1>7 DEF RecordsInv, ObservationsHaveRecords
  <2>2. \A i, j \in DOMAIN recurrences' :
           recurrences'[i].gap = recurrences'[j].gap /\ recurrences'[i].id = recurrences'[j].id
              => i = j
    BY <1>3, <1>4 DEF RecordsInv, ObservationsHaveRecords
  <2> QED
    BY <2>1, <2>2 DEF ObservationsHaveRecords
<1>12. Lone'
  BY <1>5 DEF RecordsInv, Lone
<1>13. Kept
  BY <1>3, <1>4 DEF Kept
<1> QED
  BY <1>8, <1>9, <1>10, <1>11, <1>12, <1>13

(* Suspecting anew: an audit not observed for a gap is the ID of none of its records. *)
LEMMA AppendedRecords ==
    ASSUME TypeOK, RecordsInv, NEW g \in Gaps, NEW x \in Audits, NEW a \in Attempt,
           ~Observed(g, x), Appended(g, x, a)
    PROVE  /\ IsFiniteSet(observations)' /\ IDsAreObserved' /\ Lone'
           /\ CountsAreExact' /\ ObservationsHaveRecords' /\ Kept
<1> DEFINE o == [audit |-> x, gap |-> g, recurrence |-> x]
<1>0. PICK n : n = Len(recurrences) + 1
  OBVIOUS
<1>1. DOMAIN recurrences = 1..Len(recurrences) /\ Len(recurrences) \in Nat
  BY Positions
<1>2. /\ DOMAIN recurrences' = DOMAIN recurrences \cup {n} /\ n \notin DOMAIN recurrences
      /\ \A i \in DOMAIN recurrences : i <= n
  <2>1. DOMAIN recurrences' = 1..n
    BY <1>0 DEF Appended
  <2>2. \A m \in Nat : /\ 1..(m + 1) = (1..m) \cup {m + 1} /\ m + 1 \notin 1..m
                       /\ \A i \in 1..m : i <= m + 1
    OBVIOUS
  <2>3. /\ DOMAIN recurrences' = (1..Len(recurrences)) \cup {n} /\ n \notin 1..Len(recurrences)
        /\ \A i \in 1..Len(recurrences) : i <= n
    BY <1>0, <1>1, <2>1, <2>2
  <2>4. DOMAIN recurrences = 1..Len(recurrences)
    BY <1>1
  <2> QED
    BY <2>3, <2>4, Zenon
<1>3. /\ recurrences'[n].id = x /\ recurrences'[n].gap = g /\ recurrences'[n].count = 1
      /\ recurrences'[n].status = "suspected"
  BY <1>0 DEF Appended
<1>4. \A i \in DOMAIN recurrences : recurrences'[i] = recurrences[i]
  BY DEF Appended
<1>5. observations' = observations \cup {o} /\ Suspected(g) = {}
  BY DEF Appended, Noted
<1>6. \A i \in DOMAIN recurrences : recurrences[i].gap # g \/ recurrences[i].id # x
  BY DEF RecordsInv, IDsAreObserved
<1>7. \A e \in observations : e.gap # g \/ e.recurrence # x
  BY <1>6 DEF RecordsInv, ObservationsHaveRecords
<1>8. o.gap = g /\ o.recurrence = x /\ o.audit = x /\ o \notin observations
  BY <1>7
<1> HIDE DEF o
<1>9. Suspected(g)' = {n} /\ \A h : h # g => Suspected(h)' = Suspected(h)
  BY <1>2, <1>3, <1>4, <1>5 DEF Suspected
<1>10. /\ IsFiniteSet(observations')
       /\ Cardinality(Of(observations', g, x)) = Cardinality(Of(observations, g, x)) + 1
       /\ \A h, id : h # g \/ id # x => Of(observations', h, id) = Of(observations, h, id)
  BY <1>5, <1>8, OneMore DEF RecordsInv
<1>11. Cardinality(Of(observations, g, x)) = 0
  <2>1. Of(observations, g, x) = {}
    BY <1>7 DEF Of
  <2> QED
    BY <2>1, FS_EmptySet
<1>12. CountsAreExact'
  <2>1. recurrences'[n].count = Cardinality(CountedBy(n))'
    <3>1. CountedBy(n)' = Of(observations', g, x)
      <4>1. CountedBy(n)' = Of(observations', recurrences'[n].gap, recurrences'[n].id)
        BY DEF CountedBy, Of
      <4> QED
        BY <1>3, <4>1
    <3> QED
      BY <1>3, <1>10, <1>11, <3>1
  <2>2. ASSUME NEW h \in Gaps, h # g, NEW i \in Suspected(h)
        PROVE  recurrences'[i].count = Cardinality(CountedBy(i))'
    <3>1. i \in DOMAIN recurrences /\ recurrences[i].gap = h
      BY DEF Suspected
    <3>2. recurrences[i].count = Cardinality(Of(observations, h, recurrences[i].id))
      <4>1. recurrences[i].count = Cardinality(CountedBy(i))
        BY DEF RecordsInv, CountsAreExact
      <4> QED
        BY <3>1, <4>1, CountedByOf
    <3>3. CountedBy(i)' = Of(observations', h, recurrences[i].id)
      BY <1>4, <3>1 DEF CountedBy, Of
    <3>4. Of(observations', h, recurrences[i].id) = Of(observations, h, recurrences[i].id)
      BY <1>10, <2>2
    <3> QED
      BY <1>4, <3>1, <3>2, <3>3, <3>4
  <2> QED
    BY <1>9, <2>1, <2>2 DEF CountsAreExact
<1>13. IDsAreObserved'
  <2>1. ASSUME NEW i \in DOMAIN recurrences
        PROVE  \E e \in observations' : e.gap = recurrences'[i].gap /\ e.audit = recurrences'[i].id
    BY <1>4, <1>5 DEF RecordsInv, IDsAreObserved, Observed
  <2>2. \E e \in observations' : e.gap = recurrences'[n].gap /\ e.audit = recurrences'[n].id
    BY <1>3, <1>5, <1>8
  <2> QED
    BY <1>2, <2>1, <2>2 DEF IDsAreObserved, Observed
<1>14. ObservationsHaveRecords'
  <2>1. \A e \in observations' : \E i \in DOMAIN recurrences' :
           recurrences'[i].gap = e.gap /\ recurrences'[i].id = e.recurrence
    <3>1. ASSUME NEW e \in observations
          PROVE  \E i \in DOMAIN recurrences' :
                    recurrences'[i].gap = e.gap /\ recurrences'[i].id = e.recurrence
      BY <1>2, <1>4 DEF RecordsInv, ObservationsHaveRecords
    <3> QED
      BY <1>2, <1>3, <1>5, <1>8, <3>1
  <2>2. \A i, j \in DOMAIN recurrences' :
           recurrences'[i].gap = recurrences'[j].gap /\ recurrences'[i].id = recurrences'[j].id
              => i = j
    BY <1>2, <1>3, <1>4, <1>6 DEF RecordsInv, ObservationsHaveRecords
  <2> QED
    BY <2>1, <2>2 DEF ObservationsHaveRecords
<1>15. Lone'
  BY <1>9 DEF RecordsInv, Lone
<1>16. Kept
  BY <1>2, <1>4 DEF Kept
<1> QED
  BY <1>10, <1>12, <1>13, <1>14, <1>15, <1>16

(* Saving a decided copy over its record: no record becomes pending. *)
LEMMA SavedRecords ==
    ASSUME TypeOK, RecordsInv, NEW w \in Workers, SaveDecision(w)
    PROVE  /\ IsFiniteSet(observations)' /\ IDsAreObserved' /\ Lone'
           /\ CountsAreExact' /\ ObservationsHaveRecords' /\ Kept
           /\ DOMAIN recurrences' = DOMAIN recurrences
           /\ \A i \in DOMAIN recurrences :
                 recurrences'[i] = recurrences[i] \/ recurrences'[i] = request[w].record
           /\ request[w].record.status # "suspected"
<1> DEFINE r == request[w].record
<1>1. /\ r \in Recurrence /\ SaveRecurrence(r) /\ OldestIs(r.gap, r.id)
      /\ r.status # "suspected"
  BY DEF SaveDecision, TypeOK, WellFormed, RecordsInv, CopiesAreDecided, Deciding
<1> HIDE DEF r
<1>2. RecordsOf(r.id) # {}
  BY <1>1 DEF OldestIs, Oldest, RecordsOf
<1>3. DOMAIN recurrences' = DOMAIN recurrences
  BY <1>1, <1>2, SaveLemma
<1>4. PICK k \in DOMAIN recurrences :
         /\ Oldest(k, r.id)
         /\ recurrences'[k] = r
         /\ \A j \in DOMAIN recurrences : j # k => recurrences'[j] = recurrences[j]
  BY <1>1, <1>2, SaveLemma
<1>5. recurrences[k].id = r.id /\ recurrences[k].gap = r.gap
  <2>1. PICK m : Oldest(m, r.id) /\ recurrences[m].gap = r.gap
    BY <1>1 DEF OldestIs
  <2>2. k <= m /\ m <= k /\ k \in Nat /\ m \in Nat
    BY <1>4, <2>1, Positions DEF Oldest
  <2> QED
    BY <1>4, <2>1, <2>2 DEF Oldest
<1>6. observations' = observations
  BY DEF SaveDecision
<1>7. \A i \in DOMAIN recurrences :
         /\ recurrences'[i].id = recurrences[i].id /\ recurrences'[i].gap = recurrences[i].gap
         /\ recurrences'[i] = recurrences[i] \/ recurrences'[i] = r
  BY <1>4, <1>5
<1>8. \A h : /\ Suspected(h)' \subseteq Suspected(h)
             /\ \A i \in Suspected(h)' : recurrences'[i] = recurrences[i]
  BY <1>1, <1>3, <1>7 DEF Suspected
<1>9. Lone'
  BY <1>8 DEF RecordsInv, Lone
<1>10. CountsAreExact'
  <2> SUFFICES ASSUME NEW h \in Gaps, NEW i \in Suspected(h)'
               PROVE  recurrences'[i].count = Cardinality(CountedBy(i))'
    BY DEF CountsAreExact
  <2>1. i \in Suspected(h) /\ recurrences'[i] = recurrences[i]
    BY <1>8
  <2>2. CountedBy(i)' = CountedBy(i)
    BY <1>6, <2>1 DEF CountedBy
  <2> QED
    BY <2>1, <2>2 DEF RecordsInv, CountsAreExact
<1>11. IDsAreObserved' /\ IsFiniteSet(observations)'
  BY <1>3, <1>6, <1>7 DEF RecordsInv, IDsAreObserved, Observed
<1>12. ObservationsHaveRecords'
  <2>1. \A e \in observations' : \E i \in DOMAIN recurrences' :
           recurrences'[i].gap = e.gap /\ recurrences'[i].id = e.recurrence
    BY <1>3, <1>6, <1>7 DEF RecordsInv, ObservationsHaveRecords
  <2>2. \A i, j \in DOMAIN recurrences' :
           recurrences'[i].gap = recurrences'[j].gap /\ recurrences'[i].id = recurrences'[j].id
              => i = j
    BY <1>3, <1>7 DEF RecordsInv, ObservationsHaveRecords
  <2> QED
    BY <2>1, <2>2 DEF ObservationsHaveRecords
<1>13. Kept
  BY <1>3, <1>7 DEF Kept
<1> QED
  BY <1>1, <1>3, <1>7, <1>9, <1>10, <1>11, <1>12, <1>13 DEF r

-----------------------------------------------------------------------------
(* What a step does to the request of a worker. *)

Stays(v) == request'[v] = request[v]

Goes(v) ==
    \/ request'[v].at \in {"idle", "search", "project"}
    \/ request'[v].at = "rewrite" /\ request'[v].record = None

Verifies(v) ==
    /\ request'[v].at \in {"observe", "pending"}
    /\ OnLedger(request'[v].gap, request'[v].proof)

Passes(v) ==
    /\ request[v].at = "pending" /\ request'[v].at = "revise"
    /\ request'[v].gap = request[v].gap /\ request'[v].proof = request[v].proof

Copies(v) ==
    \E i : /\ Oldest(i, request'[v].record.id)
           /\ request'[v].record.gap = recurrences[i].gap
           /\ request'[v].record.proof = recurrences[i].proof
           /\ \/ request'[v].at = "reopen" /\ request'[v].record.status = "confirmed"
              \/ request'[v].at = "save" /\ request'[v].record.status = "dismissed"

(* The copy is kept on its way to "save", which follows when the gap is open. *)
Reopens(v) ==
    /\ Deciding(v) /\ request'[v].record = request[v].record /\ request[v].record \in Recurrence
    /\ \/ /\ Reopen(v)
          /\ \/ request'[v].at = "save" /\ gaps'[request[v].record.gap] = "open"
             \/ /\ request'[v].at = "rewrite" /\ request'[v].file[request[v].record.gap] = "open"
       \/ /\ WriteGaps(v) /\ request'[v].at = "save" /\ gaps' = request[v].file
          /\ request[v].at = "rewrite"

Moves(v) == Stays(v) \/ Goes(v) \/ Verifies(v) \/ Passes(v) \/ Copies(v) \/ Reopens(v)

LEMMA RequestStep ==
    ASSUME TypeOK, [Next]_vars, NEW v \in Workers
    PROVE  Moves(v)
<1>1. request \in [Workers -> Request] /\ \A w \in Workers : request[w] \in Request
  BY DEF TypeOK
<1>2. ASSUME UNCHANGED request PROVE Moves(v)
  BY <1>2 DEF Moves, Stays
<1>3. ASSUME NEW w \in Workers, NEW r, request' = [request EXCEPT ![w] = r]
      PROVE  (request'[v] = r /\ v = w) \/ request'[v] = request[v]
  BY <1>1, <1>3
<1>4. ASSUME NEW w \in Workers, Finish(w) PROVE Moves(v)
  BY <1>3, <1>4 DEF Finish, NoRequest, Moves, Stays, Goes
<1>5. ASSUME NEW w \in Workers, NEW g \in Gaps, Verify(w, g) PROVE Moves(v)
  <2>1. PICK snapshot \in Snapshots :
          Begin(w, [NoRequest EXCEPT !.at = "search",
                    !.proof = [id |-> clock', gap |-> g, snapshot |-> snapshot, passed |-> FALSE]])
    BY <1>5 DEF Verify
  <2> DEFINE a == [id |-> clock', gap |-> g, snapshot |-> snapshot, passed |-> FALSE]
             r == [NoRequest EXCEPT !.at = "search", !.proof = a]
  <2> HIDE DEF a
  <2>2. r.at = "search"
    BY DEF NoRequest
  <2>3. request' = [request EXCEPT ![w] = r]
    BY <2>1 DEF Begin, a
  <2> HIDE DEF r
  <2> QED
    BY <1>3, <2>2, <2>3 DEF Moves, Stays, Goes
<1>6. ASSUME NEW w \in Workers, NEW g \in Gaps, NEW x \in Audits, Detect(w, g, x)
      PROVE  Moves(v)
  BY <1>3, <1>6 DEF Detect, Begin, NoRequest, Moves, Stays, Goes
<1>7. ASSUME NEW w \in Workers, Project(w) PROVE Moves(v)
  <2>1. ASSUME NEW a \in attempts, NEW snapshot, Verified(request[w].gap, a, snapshot),
               NEW at \in {"pending", "observe"},
               request' = [request EXCEPT ![w].at = at, ![w].proof = a]
        PROVE  Moves(v)
    <3>1. OnLedger(request[w].gap, a)
      BY <2>1 DEF Verified, LatestPassed, Passed, OnLedger
    <3>2. CASE v = w
      <4>1. request'[v].at = at /\ request'[v].proof = a /\ request'[v].gap = request[w].gap
        BY <1>1, <2>1, <3>2 DEF Request
      <4> QED
        BY <3>1, <4>1 DEF Moves, Verifies
    <3>3. CASE v # w
      BY <1>1, <2>1, <3>3 DEF Moves, Stays
    <3> QED
      BY <3>2, <3>3
  <2>2. \/ Finish(w)
        \/ \E snapshot \in Snapshots, a \in attempts :
              /\ Verified(request[w].gap, a, snapshot)
              /\ request' = [request EXCEPT
                    ![w].at = IF request[w].audit = None THEN "pending" ELSE "observe",
                    ![w].proof = a]
    BY <1>7 DEF Project
  <2> QED
    BY <1>4, <2>1, <2>2
<1>8. ASSUME NEW w \in Workers, NEW id \in Audits, Confirm(w, id) \/ Dismiss(w, id)
      PROVE  Moves(v)
  <2>1. PICK at \in {"reopen", "save"}, status \in {"confirmed", "dismissed"} :
            /\ Decide(w, id, at, status)
            /\ \/ at = "reopen" /\ status = "confirmed"
               \/ at = "save" /\ status = "dismissed"
    BY <1>8 DEF Confirm, Dismiss
  <2> DEFINE i == FirstOf(RecordsOf(id))
             c == [recurrences[i] EXCEPT !.status = status]
             r == [NoRequest EXCEPT !.at = at, !.record = c]
  <2>2. Oldest(i, id)
    BY <2>1, FirstIsOldest DEF Decide
  <2>3. request' = [request EXCEPT ![w] = r]
    BY <2>1 DEF Decide, Begin
  <2> HIDE DEF i
  <2>4. /\ c.id = recurrences[i].id /\ c.gap = recurrences[i].gap
        /\ c.proof = recurrences[i].proof /\ c.status = status
    BY <2>2, Positions DEF Oldest, Recurrence
  <2> HIDE DEF c
  <2>5. r.at = at /\ r.record = c
    BY DEF NoRequest
  <2> HIDE DEF r
  <2>6. CASE request'[v] = r
    <3>1. Oldest(i, request'[v].record.id)
      BY <2>2, <2>4, <2>5, <2>6 DEF Oldest
    <3> QED
      BY <2>1, <2>4, <2>5, <2>6, <3>1 DEF Moves, Copies
  <2> QED
    BY <1>3, <2>3, <2>6 DEF Moves, Stays
<1>9. ASSUME NEW w \in Workers, Reopen(w) PROVE Moves(v)
  <2> DEFINE h == request[w].record.gap
  <2>1. CASE v # w
    BY <1>1, <1>9, <2>1 DEF Reopen, Moves, Stays
  <2>2. ASSUME v = w PROVE Reopens(v)
    <3>1. request[v].at = "reopen" /\ request[v] \in Request /\ request[v].record \in Recurrence
      BY <1>1, <1>9, <2>2 DEF Reopen, TypeOK, WellFormed
    <3>2. CASE gaps[h] = "open"
      <4>1. request' = [request EXCEPT ![w].at = "save"] /\ gaps' = gaps
        BY <1>9, <3>2 DEF Reopen
      <4>2. request'[v].at = "save" /\ request'[v].record = request[v].record
        BY <1>1, <2>2, <3>1, <4>1 DEF Request
      <4> QED
        BY <1>9, <2>2, <3>1, <3>2, <4>1, <4>2 DEF Reopens, Deciding
    <3>3. CASE gaps[h] # "open"
      <4>1. request' = [request EXCEPT ![w].at = "rewrite", ![w].file = [gaps EXCEPT ![h] = "open"]]
        BY <1>9, <3>3 DEF Reopen
      <4>2. /\ request'[v].at = "rewrite" /\ request'[v].record = request[v].record
            /\ request'[v].file = [gaps EXCEPT ![h] = "open"]
        BY <1>1, <2>2, <3>1, <4>1 DEF Request
      <4>3. [gaps EXCEPT ![h] = "open"][h] = "open"
        BY <2>2, <3>1 DEF TypeOK, Recurrence
      <4> QED
        BY <1>9, <2>2, <3>1, <4>2, <4>3 DEF Reopens, Deciding
    <3> QED
      BY <3>2, <3>3
  <2> QED
    BY <2>1, <2>2 DEF Moves
<1>10. ASSUME NEW w \in Workers,
              \/ \E g \in Gaps : Promote(w, g)
              \/ \E g \in Gaps, status \in GapStatuses : UpdateGap(w, g, status)
       PROVE  Moves(v)
  BY <1>3, <1>10 DEF Promote, UpdateGap, Begin, NoRequest, Moves, Stays, Goes
<1>11. ASSUME NEW w \in Workers, CheckPending(w) PROVE Moves(v)
  <2>1. CASE request' = [request EXCEPT ![w].at = "revise"]
    BY <1>1, <1>11, <2>1 DEF CheckPending, Request, Moves, Stays, Passes
  <2> QED
    BY <1>4, <1>11, <2>1 DEF CheckPending
<1>12. ASSUME NEW w \in Workers, WriteGaps(w) PROVE Moves(v)
  <2>1. CASE request[w].record = None
    BY <1>4, <1>12, <2>1 DEF WriteGaps
  <2>2. CASE v # w /\ request[w].record # None
    BY <1>1, <1>12, <2>2 DEF WriteGaps, Moves, Stays
  <2>3. ASSUME v = w, request[w].record # None PROVE Reopens(v)
    <3>1. /\ request[v].at = "rewrite" /\ request[v] \in Request
          /\ request[v].record \in Recurrence
      BY <1>1, <1>12, <2>3 DEF WriteGaps, Request
    <3>2. /\ request' = [request EXCEPT ![w].at = "save", ![w].file = None]
          /\ gaps' = request[v].file
      BY <1>12, <2>3 DEF WriteGaps
    <3>3. request'[v].at = "save" /\ request'[v].record = request[v].record
      BY <1>1, <2>3, <3>1, <3>2 DEF Request
    <3> QED
      BY <1>12, <2>3, <3>1, <3>2, <3>3 DEF Reopens, Deciding
  <2> QED
    BY <2>1, <2>2, <2>3 DEF Moves
<1>13. ASSUME NEW w \in Workers, \/ AppendAttempt(w) \/ Observe(w) \/ SaveDecision(w)
                                 \/ \E p \in Policies : Revise(w, p)
                                 \/ Abandon(w)
       PROVE  Moves(v)
  BY <1>4, <1>13 DEF AppendAttempt, Observe, SaveDecision, Revise, Abandon
<1>14. CASE UNCHANGED vars
  BY <1>2, <1>14 DEF vars
<1> QED
  BY <1>5, <1>6, <1>7, <1>8, <1>9, <1>10, <1>11, <1>12, <1>13, <1>14 DEF Next

(* A request begins to save a decision only with a decided copy of a record. *)
LEMMA CopiesStep ==
    ASSUME TypeOK, RecordsInv, [Next]_vars, Kept
    PROVE  CopiesAreDecided'
<1> SUFFICES ASSUME NEW v \in Workers, Deciding(v)'
             PROVE  /\ \E k : /\ Oldest(k, request[v].record.id)'
                              /\ recurrences'[k].gap = request'[v].record.gap
                    /\ request'[v].record.status # "suspected"
  BY DEF CopiesAreDecided, OldestIs
<1>1. Stays(v) \/ Copies(v) \/ Reopens(v)
  BY RequestStep DEF Moves, Goes, Verifies, Passes, Deciding
<1>2. /\ OldestIs(request'[v].record.gap, request'[v].record.id)
      /\ request'[v].record.status # "suspected"
  <2>1. CASE Stays(v)
    <3>1. Deciding(v)
      BY <2>1 DEF Stays, Deciding
    <3> QED
      BY <2>1, <3>1 DEF Stays, RecordsInv, CopiesAreDecided
  <2>2. CASE Copies(v)
    BY <2>2 DEF Copies, OldestIs
  <2>3. CASE Reopens(v)
    BY <2>3 DEF Reopens, RecordsInv, CopiesAreDecided
  <2> QED
    BY <1>1, <2>1, <2>2, <2>3
<1>3. PICK k : /\ Oldest(k, request'[v].record.id)
               /\ recurrences[k].gap = request'[v].record.gap
  BY <1>2 DEF OldestIs
<1>4. Oldest(k, request[v].record.id)' /\ recurrences'[k].gap = request'[v].record.gap
  BY <1>3 DEF Oldest, Kept
<1> QED
  BY <1>2, <1>4

LEMMA RecordsStep ==
    ASSUME TypeOK, RecordsInv, [Next]_vars
    PROVE  RecordsInv'
<1>1. CASE UNCHANGED <<recurrences, observations>>
  <2>1. /\ IsFiniteSet(observations)' /\ IDsAreObserved' /\ Lone'
        /\ CountsAreExact' /\ ObservationsHaveRecords'
    BY <1>1 DEF RecordsInv, IDsAreObserved, Observed, Lone, Suspected, CountsAreExact,
       CountedBy, ObservationsHaveRecords
  <2>2. Kept
    BY <1>1 DEF Kept
  <2> QED
    BY <2>1, <2>2, CopiesStep DEF RecordsInv
<1>2. ASSUME NEW w \in Workers, Observe(w), ~UNCHANGED <<recurrences, observations>>
      PROVE  RecordsInv'
  <2> DEFINE g == request[w].gap
             x == request[w].audit
             a == request[w].proof
  <2>1. g \in Gaps /\ x \in Audits /\ a \in Attempt /\ ObserveRecurrence(g, x, a)
    BY <1>2 DEF Observe, TypeOK, WellFormed
  <2> HIDE DEF g, x, a
  <2>2. ~Observed(g, x) /\ (Appended(g, x, a) \/ \E k \in Suspected(g) : Counted(k, g, x, a))
    BY <1>2, <2>1, ObserveLemma
  <2> QED
    BY <2>1, <2>2, CountedRecords, AppendedRecords, CopiesStep DEF RecordsInv
<1>3. ASSUME NEW w \in Workers, SaveDecision(w) PROVE RecordsInv'
  BY <1>3, SavedRecords, CopiesStep DEF RecordsInv
<1> QED
  BY <1>1, <1>2, <1>3, RecordsChange

LEMMA LoneIsPending ==
    ASSUME RecordsInv PROVE OnePending
<1> SUFFICES ASSUME NEW g \in Gaps PROVE Cardinality(Suspected(g)) <= 1
  BY DEF OnePending
<1>1. Suspected(g) = {} \/ \E k : Suspected(g) = {k}
  <2>1. ASSUME NEW k \in Suspected(g) PROVE Suspected(g) = {k}
    BY DEF RecordsInv, Lone
  <2> QED
    BY <2>1
<1>2. Cardinality(Suspected(g)) = 0 \/ Cardinality(Suspected(g)) = 1
  <2>1. CASE Suspected(g) = {}
    BY <2>1, FS_EmptySet
  <2>2. ASSUME NEW k, Suspected(g) = {k} PROVE Cardinality(Suspected(g)) = 1
    BY <2>2, FS_Singleton
  <2> QED
    BY <1>1, <2>1, <2>2
<1> QED
  BY <1>2

LEMMA AlwaysRecords == Spec => [](TypeOK /\ OneActiveRevision /\ RecordsInv)
<1>1. Init => TypeOK /\ OneActiveRevision /\ RecordsInv
  BY InitType, InitRecords DEF Init, OneActiveRevision, OneHistory
<1>2. TypeOK /\ OneActiveRevision /\ RecordsInv /\ [Next]_vars
         => TypeOK' /\ OneActiveRevision' /\ RecordsInv'
  BY StepType, RecordsStep
<1> QED
  BY <1>1, <1>2, PTL DEF Spec

(* Whatever detections and decisions overlap, one record of a gap at most is pending,
   and each audit observed for a gap is counted by one record of that gap, also when
   records of several gaps have one ID. *)
THEOREM DetectionsHaveRecords == Spec => []RecordsAgree
<1>1. RecordsInv => RecordsAgree
  BY LoneIsPending DEF RecordsInv, RecordsAgree
<1> QED
  BY <1>1, AlwaysRecords, PTL

(* The pending record counts each audit observed for it once. *)
THEOREM DetectionsAreCounted == Spec => []CountsAreExact
<1>1. RecordsInv => CountsAreExact
  BY DEF RecordsInv
<1> QED
  BY <1>1, AlwaysRecords, PTL

(* An operator's decision is not undone by detections or decisions under way. *)
THEOREM DecisionsAreFinal == Spec => DecisionsStay
<1> DEFINE Stay == \A i \in DOMAIN recurrences :
              recurrences[i].status # "suspected" =>
                 /\ i \in DOMAIN recurrences'
                 /\ recurrences'[i].id = recurrences[i].id /\ recurrences'[i].gap = recurrences[i].gap
                 /\ recurrences'[i].status # "suspected"
<1>1. TypeOK /\ RecordsInv /\ [Next]_vars => [Stay]_vars
  <2> SUFFICES ASSUME TypeOK, RecordsInv, [Next]_vars PROVE Stay
    OBVIOUS
  <2>1. CASE UNCHANGED recurrences
    BY <2>1
  <2>2. ASSUME NEW w \in Workers, Observe(w), ~UNCHANGED <<recurrences, observations>>
        PROVE  Stay
    <3> DEFINE g == request[w].gap
               x == request[w].audit
               a == request[w].proof
    <3>1. g \in Gaps /\ x \in Audits /\ a \in Attempt /\ ObserveRecurrence(g, x, a)
      BY <2>2 DEF Observe, TypeOK, WellFormed
    <3> HIDE DEF g, x, a
    <3>2. CASE Appended(g, x, a)
      <4>1. DOMAIN recurrences \subseteq DOMAIN recurrences'
        <5>1. DOMAIN recurrences = 1..Len(recurrences) /\ Len(recurrences) \in Nat
          BY Positions
        <5>2. DOMAIN recurrences' = 1..(Len(recurrences) + 1)
          BY <3>2 DEF Appended
        <5> QED
          BY <5>1, <5>2
      <4>2. \A i \in DOMAIN recurrences : recurrences'[i] = recurrences[i]
        BY <3>2 DEF Appended
      <4> QED
        BY <4>1, <4>2
    <3>3. ASSUME NEW k \in Suspected(g), Counted(k, g, x, a) PROVE Stay
      <4>1. recurrences'[k].id = recurrences[k].id /\ recurrences'[k].gap = recurrences[k].gap
            /\ recurrences[k].status = "suspected"
        BY <3>3, Positions DEF Counted, Suspected, Recurrence
      <4> QED
        BY <3>3, <4>1 DEF Counted
    <3> QED
      BY <2>2, <3>1, <3>2, <3>3, ObserveLemma
  <2>3. ASSUME NEW w \in Workers, SaveDecision(w) PROVE Stay
    BY <2>3, SavedRecords DEF Kept
  <2> QED
    BY <2>1, <2>2, <2>3, RecordsChange
<1> QED
  BY <1>1, AlwaysRecords, PTL DEF Spec, DecisionsStay

-----------------------------------------------------------------------------
(* What rests on the ledger: the proofs read, copied and saved. *)

LedgerInv ==
    /\ ProofsAreOnLedger
    /\ \A w \in Workers : request[w].at \in {"observe", "pending", "revise"} =>
          OnLedger(request[w].gap, request[w].proof)
    /\ \A w \in Workers : Deciding(w) => OnLedger(request[w].record.gap, request[w].record.proof)

LEMMA LedgerStep ==
    ASSUME TypeOK, OneActiveRevision, RecordsInv, LedgerInv, [Next]_vars
    PROVE  LedgerInv'
<1> DEFINE Proved(r) == OnLedger(r.gap, r.proof)
<1>0. ASSUME NEW g, NEW a, OnLedger(g, a) PROVE OnLedger(g, a)'
  BY <1>0, LedgerGrows DEF OnLedger
<1>1. \A i \in DOMAIN recurrences : Proved(recurrences[i])
  BY DEF LedgerInv, ProofsAreOnLedger
<1>2. \A i \in DOMAIN recurrences' : Proved(recurrences'[i])
  <2>1. CASE UNCHANGED recurrences
    BY <1>1, <2>1
  <2>2. ASSUME NEW w \in Workers, Observe(w), ~UNCHANGED <<recurrences, observations>>
        PROVE  \A i \in DOMAIN recurrences' : Proved(recurrences'[i])
    <3> DEFINE g == request[w].gap
               x == request[w].audit
               a == request[w].proof
    <3>1. /\ g \in Gaps /\ x \in Audits /\ a \in Attempt /\ ObserveRecurrence(g, x, a)
          /\ OnLedger(g, a)
      BY <2>2 DEF Observe, TypeOK, WellFormed, LedgerInv
    <3> HIDE DEF g, x, a
    <3>2. CASE Appended(g, x, a)
      <4>1. recurrences'[Len(recurrences) + 1].proof = a /\ recurrences'[Len(recurrences) + 1].gap = g
        BY <3>2 DEF Appended
      <4>2. \A i \in DOMAIN recurrences : recurrences'[i] = recurrences[i]
        BY <3>2 DEF Appended
      <4>3. \A i \in DOMAIN recurrences' : i \in DOMAIN recurrences \/ i = Len(recurrences) + 1
        <5>1. DOMAIN recurrences = 1..Len(recurrences) /\ Len(recurrences) \in Nat
          BY Positions
        <5>2. DOMAIN recurrences' = 1..(Len(recurrences) + 1)
          BY <3>2 DEF Appended
        <5> QED
          BY <5>1, <5>2
      <4> QED
        BY <1>1, <3>1, <4>1, <4>2, <4>3
    <3>3. ASSUME NEW k \in Suspected(g), Counted(k, g, x, a)
          PROVE  \A i \in DOMAIN recurrences' : Proved(recurrences'[i])
      <4>1. recurrences[k] \in Recurrence /\ recurrences[k].gap = g
        BY Positions DEF Suspected
      <4>2. recurrences'[k].proof = a /\ recurrences'[k].gap = g
        BY <3>3, <4>1 DEF Counted, Recurrence
      <4>3. \A i \in DOMAIN recurrences' : i \in DOMAIN recurrences /\
                (i = k \/ recurrences'[i] = recurrences[i])
        BY <3>3 DEF Counted
      <4> QED
        BY <1>1, <3>1, <4>2, <4>3
    <3> QED
      BY <2>2, <3>1, <3>2, <3>3, ObserveLemma
  <2>3. ASSUME NEW w \in Workers, SaveDecision(w)
        PROVE  \A i \in DOMAIN recurrences' : Proved(recurrences'[i])
    <3>1. Proved(request[w].record)
      BY <2>3 DEF SaveDecision, LedgerInv, Deciding
    <3> QED
      BY <1>1, <2>3, <3>1, SavedRecords
  <2> QED
    BY <2>1, <2>2, <2>3, RecordsChange
<1>3. \A g \in Gaps : \A i \in DOMAIN promotions'[g] : OnLedger(g, promotions'[g][i].attempt)
  <2>1. CASE UNCHANGED promotions
    BY <2>1 DEF LedgerInv, ProofsAreOnLedger
  <2>2. ASSUME NEW w \in Workers, NEW p \in Policies, Revise(w, p)
        PROVE  \A g \in Gaps : \A i \in DOMAIN promotions'[g] :
                  OnLedger(g, promotions'[g][i].attempt)
    <3>1. /\ request[w].gap \in Gaps /\ request[w].proof \in Attempt
          /\ OnLedger(request[w].gap, request[w].proof)
      BY <2>2 DEF Revise, TypeOK, WellFormed, LedgerInv
    <3>2. \A h \in Gaps : \A i \in DOMAIN promotions'[h] :
             \/ h = request[w].gap /\ promotions'[h][i].attempt = request[w].proof
             \/ /\ i \in DOMAIN promotions[h]
                /\ promotions'[h][i].attempt = promotions[h][i].attempt
      BY <2>2, <3>1, PromoteLemma DEF Revise
    <3>3. \A h \in Gaps : \A i \in DOMAIN promotions[h] : OnLedger(h, promotions[h][i].attempt)
      BY DEF LedgerInv, ProofsAreOnLedger
    <3> QED
      BY <3>1, <3>2, <3>3
  <2> QED
    BY <2>1, <2>2, PromotionsChange
<1>4. ASSUME NEW v \in Workers, request'[v].at \in {"observe", "pending", "revise"}
      PROVE  OnLedger(request'[v].gap, request'[v].proof)
  <2>1. Stays(v) \/ Verifies(v) \/ Passes(v)
    BY <1>4, RequestStep DEF Moves, Goes, Copies, Reopens
  <2> QED
    BY <1>4, <2>1 DEF Stays, Verifies, Passes, LedgerInv
<1>5. ASSUME NEW v \in Workers, Deciding(v)' PROVE Proved(request'[v].record)
  <2>1. Stays(v) \/ Copies(v) \/ Reopens(v)
    BY <1>5, RequestStep DEF Moves, Goes, Verifies, Passes, Deciding
  <2>2. CASE Stays(v)
    BY <1>5, <2>2 DEF Stays, LedgerInv, Deciding
  <2>3. CASE Copies(v)
    BY <1>1, <2>3 DEF Copies, Oldest
  <2>4. CASE Reopens(v)
    BY <2>4 DEF Reopens, LedgerInv
  <2> QED
    BY <2>1, <2>2, <2>3, <2>4
<1>6. attempts \subseteq attempts'
  BY LedgerGrows
<1> QED
  BY <1>2, <1>3, <1>4, <1>5, <1>6 DEF LedgerInv, ProofsAreOnLedger, OnLedger

(* What is suspected or promoted rests on an attempt of its gap that passed, on the
   ledger. *)
THEOREM LedgerIsTheProof == Spec => []ProofsAreOnLedger
<1>1. Init => LedgerInv
  BY DEF Init, NoRequest, Deciding, LedgerInv, ProofsAreOnLedger
<1>2. TypeOK /\ OneActiveRevision /\ RecordsInv /\ LedgerInv /\ [Next]_vars => LedgerInv'
  BY LedgerStep
<1>3. LedgerInv => ProofsAreOnLedger
  BY DEF LedgerInv
<1> QED
  BY <1>1, <1>2, <1>3, AlwaysRecords, PTL DEF Spec

-----------------------------------------------------------------------------
(* A record is saved as confirmed by a request that found the gap open while the
   record was on disk. *)

Remembered(r) == <<r.gap, r.id>> \in reopened

ReopenedInv ==
    /\ \A i \in DOMAIN recurrences :
          recurrences[i].status = "confirmed" => Remembered(recurrences[i])
    /\ \A w \in Workers :
          request[w].at = "save" /\ request[w].record.status = "confirmed" =>
             Remembered(request[w].record)
    /\ \A w \in Workers :
          request[w].at = "rewrite" /\ request[w].record # None =>
             request[w].file[request[w].record.gap] = "open"

LEMMA HistoryGrows ==
    ASSUME [Next]_vars
    PROVE  reopened \subseteq reopened'
  BY DEF Next, vars, Verify, AppendAttempt, Detect, Project,
         Confirm, Dismiss, Decide, Reopen, Promote, CheckPending, Observe,
         SaveDecision, Revise, WriteGaps, Abandon, UpdateGap, Remember

LEMMA ReopenedStep ==
    ASSUME TypeOK, RecordsInv, ReopenedInv, [Next]_vars
    PROVE  ReopenedInv'
<1>0. reopened \subseteq reopened'
  BY HistoryGrows
<1>1. \A i \in DOMAIN recurrences' :
         recurrences'[i].status = "confirmed" => <<recurrences'[i].gap, recurrences'[i].id>> \in reopened'
  <2>1. CASE UNCHANGED recurrences
    BY <1>0, <2>1 DEF ReopenedInv, Remembered
  <2>2. ASSUME NEW w \in Workers, Observe(w), ~UNCHANGED <<recurrences, observations>>,
               NEW i \in DOMAIN recurrences', recurrences'[i].status = "confirmed"
        PROVE  i \in DOMAIN recurrences /\ recurrences'[i] = recurrences[i]
    <3> DEFINE g == request[w].gap
               x == request[w].audit
               a == request[w].proof
    <3>1. g \in Gaps /\ x \in Audits /\ a \in Attempt /\ ObserveRecurrence(g, x, a)
      BY <2>2 DEF Observe, TypeOK, WellFormed
    <3> HIDE DEF g, x, a
    <3>2. CASE Appended(g, x, a)
      <4>1. recurrences'[Len(recurrences) + 1].status = "suspected"
        BY <3>2 DEF Appended
      <4>2. i \in DOMAIN recurrences \/ i = Len(recurrences) + 1
        <5>1. DOMAIN recurrences = 1..Len(recurrences) /\ Len(recurrences) \in Nat
          BY Positions
        <5>2. DOMAIN recurrences' = 1..(Len(recurrences) + 1)
          BY <3>2 DEF Appended
        <5> QED
          BY <5>1, <5>2
      <4> QED
        BY <2>2, <3>2, <4>1, <4>2 DEF Appended
    <3>3. ASSUME NEW k \in Suspected(g), Counted(k, g, x, a)
          PROVE  i \in DOMAIN recurrences /\ recurrences'[i] = recurrences[i]
      <4>1. recurrences'[k].status = "suspected"
        BY <3>3, Positions DEF Counted, Suspected, Recurrence
      <4> QED
        BY <2>2, <3>3, <4>1 DEF Counted
    <3> QED
      BY <2>2, <3>1, <3>2, <3>3, ObserveLemma
  <2>3. ASSUME NEW w \in Workers, SaveDecision(w),
               NEW i \in DOMAIN recurrences', recurrences'[i].status = "confirmed"
        PROVE  Remembered(recurrences'[i])
    <3>1. request[w].record.status = "confirmed" => Remembered(request[w].record)
      BY <2>3 DEF SaveDecision, ReopenedInv
    <3>2. i \in DOMAIN recurrences /\
          (recurrences'[i] = recurrences[i] \/ recurrences'[i] = request[w].record)
      BY <2>3, SavedRecords
    <3> QED
      BY <2>3, <3>1, <3>2 DEF ReopenedInv
  <2> QED
    BY <1>0, <2>1, <2>2, <2>3, RecordsChange DEF ReopenedInv, Remembered
<1>2. ASSUME NEW v \in Workers, request'[v].at = "save", request'[v].record.status = "confirmed"
      PROVE  <<request'[v].record.gap, request'[v].record.id>> \in reopened'
  <2>1. Stays(v) \/ Reopens(v)
    BY <1>2, RequestStep DEF Moves, Goes, Verifies, Passes, Copies
  <2>2. CASE Stays(v)
    BY <1>0, <1>2, <2>2 DEF Stays, ReopenedInv, Remembered
  <2>3. CASE Reopens(v)
    <3> DEFINE r == request[v].record
    <3>1. OldestIs(r.gap, r.id) /\ request'[v].record = r
      BY <2>3 DEF Reopens, RecordsInv, CopiesAreDecided
    <3>2. gaps'[r.gap] = "open"
      <4>1. CASE gaps' = request[v].file /\ request[v].at = "rewrite"
        <5>1. r # None
          BY <2>3, NoneAssumption DEF Reopens
        <5> QED
          BY <4>1, <5>1 DEF ReopenedInv
      <4> QED
        BY <1>2, <2>3, <4>1 DEF Reopens
    <3>3. recurrences' = recurrences /\ Remember
      BY <2>3 DEF Reopens, Reopen, WriteGaps
    <3>4. PICK k \in DOMAIN recurrences : recurrences[k].gap = r.gap /\ recurrences[k].id = r.id
      BY <3>1 DEF OldestIs, Oldest
    <3>5. <<recurrences'[k].gap, recurrences'[k].id>> \in reopened'
      BY <3>2, <3>3, <3>4 DEF Remember
    <3> QED
      BY <3>1, <3>3, <3>4, <3>5 DEF Remembered
  <2> QED
    BY <2>1, <2>2, <2>3
<1>3. ASSUME NEW v \in Workers, request'[v].at = "rewrite", request'[v].record # None
      PROVE  request'[v].file[request'[v].record.gap] = "open"
  <2>1. Stays(v) \/ Reopens(v)
    BY <1>3, RequestStep DEF Moves, Goes, Verifies, Passes, Copies
  <2>2. CASE Stays(v)
    BY <1>3, <2>2 DEF Stays, ReopenedInv
  <2>3. CASE Reopens(v)
    BY <1>3, <2>3 DEF Reopens
  <2> QED
    BY <2>1, <2>2, <2>3
<1> QED
  BY <1>1, <1>2, <1>3 DEF ReopenedInv, Remembered

(* Confirm has opened the gap when its record says so. *)
THEOREM ConfirmationsReopened == Spec => []ConfirmedWasReopened
<1>1. Init => ReopenedInv
  BY DEF Init, NoRequest, ReopenedInv
<1>2. TypeOK /\ RecordsInv /\ ReopenedInv /\ [Next]_vars => ReopenedInv'
  BY ReopenedStep
<1>3. ReopenedInv => ConfirmedWasReopened
  BY DEF ReopenedInv, Remembered, ConfirmedWasReopened
<1> QED
  BY <1>1, <1>2, <1>3, AlwaysRecords, PTL DEF Spec
=============================================================================
