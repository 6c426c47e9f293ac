------------------------------ MODULE AnswerLoop ------------------------------
(* What happens to an answer: the question is grounded in the knowledge on     *)
(* file, answered, classified, audited, and, when the knowledge did not carry  *)
(* it, either counted as the recurrence of a repaired gap or captured as an    *)
(* open one (internal/knowledge, internal/agents, internal/server,             *)
(* internal/admin).  Requests run beside each other, beside reviews of         *)
(* documents and beside operators' changes to gaps; the files of audits and    *)
(* gaps are loaded, changed and written back without a lock; a store may fail  *)
(* and the process may die at every step.                                      *)
EXTENDS Retrieval, RepairInbox

CONSTANTS
  Workers,       \* goroutines serving /experience/stream
  Conversations, \* a conversation's ID is the ID of each of its audits, too
  Questions,     \* the texts users ask, sequences of words
  Long,          \* those of more than 160 bytes (none shares its first 157 with a short one)
  Cut,           \* what an audit keeps of a long question
  Spaces,        \* knowledge spaces
  Selected,      \* the spaces users select, None for no space
  DefaultSpace,  \* the space of what names none
  Library,       \* the documents on file at the start, see Retrieval
  Backlog,       \* the gaps on file at the start
  MaxAnswers,    \* bound on the questions asked
  MaxFaults      \* bound on failed saves, failed loads and restarts

ASSUME AnswerAssumption ==
  /\ Long \subseteq Questions /\ Cut \notin Questions
  /\ DefaultSpace \in Spaces /\ None \notin Spaces /\ Selected \subseteq Spaces \cup {None}
  /\ MaxAnswers \in Nat /\ MaxFaults \in Nat

Texts == Seq(STRING)
DocumentStatuses == {"ready", "disabled", "indexing", "failed"}
ReviewStatuses == {"", "pending_review", "active", "rejected", "archived"}
Document == [status : DocumentStatuses, review : ReviewStatuses, space : Spaces,
             chunks : Seq(Texts)]

(* Finitely many documents, numbered in the order of their IDs. *)
ASSUME LibraryAssumption ==
  /\ DOMAIN Library \subseteq Nat /\ IsFiniteSet(DOMAIN Library)
  /\ Library \in [DOMAIN Library -> Document]
  /\ Questions \subseteq Texts /\ Cut \in Texts

States == {"grounded", "review_gated", "partially_supported", "unsupported",
           "local_mode", "fallback"}

(* How Stream ends with a result: the model's answer, the local one, one in    *)
(* place of a provider that failed or a guard that rejected (each has a state  *)
(* of its own in the code, and neither is weak), or one without knowledge.     *)
Outcomes == {"llm", "local", "fallback", "no_knowledge"}

ASSUME NoneAssumption == None \notin Reasons \cup States \cup Outcomes

GapStatuses == {"open", "resolved"}   \* the other two are neither reported nor repaired

(* A gap's ID is the time it was created; those of the start came before. *)
Gap == [id : Int, space : Spaces, question : Questions, reason : Reasons, status : GapStatuses]

ASSUME BacklogAssumption == Backlog \subseteq {gap \in Gap : gap.id <= 0}

VARIABLES
  docs,        \* knowledge.json
  gaps,        \* the knowledge gaps on file
  audits,      \* the answer audits on file (equal ones are one)
  recurrences, \* the observations recorded, each of a gap by a conversation
  job,         \* what each worker is doing
  edit,        \* the gaps an operator's change is about to write, {} if none is
  created,     \* number of gaps created so far, the time of the last
  asked,       \* number of questions so far
  faults,      \* number of faults so far
  lost         \* history: the audits that were not saved, or dropped by another's save

vars == <<docs, gaps, audits, recurrences, job, edit, created, asked, faults, lost>>

(* file: what was loaded of the file about to be written. *)
Idle == [pc |-> "idle", question |-> None, space |-> None, conversation |-> None, number |-> 0,
         outcome |-> None, cited |-> {}, reason |-> None, state |-> None, gap |-> None, file |-> {}]

ReviewGatedReasons == {"review_gated_documents", "no_review_active_documents"}

(* Under generation mode "llm". *)
Classify(cited, reason) ==
  CASE cited # {} -> "grounded"
    [] cited = {} /\ reason \in ReviewGatedReasons -> "review_gated"
    [] cited = {} /\ reason = "below_threshold" -> "partially_supported"
    [] OTHER -> "unsupported"

QuestionSummary(q) == IF q \in Long THEN Cut ELSE q

(* The answers to the gaps on file were audited, in conversations now over. *)
AnswerTo(gap) ==
  [question |-> QuestionSummary(gap.question), space |-> gap.space,
   state |-> Classify({}, gap.reason), reason |-> gap.reason, conversation |-> None]

Init ==
  /\ docs = Library
  /\ gaps = Backlog
  /\ audits = {AnswerTo(gap) : gap \in Backlog}
  /\ recurrences = {}
  /\ job = [w \in Workers |-> Idle]
  /\ edit = {}
  /\ created = 0
  /\ asked = 0
  /\ faults = 0
  /\ lost = {}

-----------------------------------------------------------------------------
(* Asking and answering                                                        *)

(* handleExperienceStream makes a turn of the question.  The space the client  *)
(* selected stays in the request's metadata: the coordinator's conversation,   *)
(* which is what the agent grounds, is loaded or created without it.           *)
GroundedSpace(selected) == None

SearchFor(question, space) ==
  Search(docs, [query |-> question, mode |-> "lexical", limit |-> 3,
                space |-> space, minScore |-> 0], NoIndex)

Ground(question, selected) == SearchFor(question, GroundedSpace(selected))

Cited(found) == {found.results[i][1] : i \in DOMAIN found.results}

Grounded(question, selected, conversation) ==
  [Idle EXCEPT !.pc = "asked", !.question = question, !.space = selected,
               !.conversation = conversation,
               !.reason = Ground(question, selected).reason,
               !.cited = Cited(Ground(question, selected))]

(* A conversation answers one question at a time (see TurnExecution). *)
Answering(c) == \E w \in Workers : job[w].pc = "asked" /\ job[w].conversation = c

Ask(w) ==
  /\ job[w] = Idle /\ asked < MaxAnswers
  /\ \E q \in Questions, s \in Selected, c \in Conversations :
       ~Answering(c) /\ job' = [job EXCEPT ![w] = Grounded(q, s, c)]
  /\ asked' = asked + 1
  /\ UNCHANGED <<docs, gaps, audits, recurrences, edit, created, faults, lost>>

(* What the result's metadata says of the knowledge.  A fallback carries no    *)
(* grounding, and another agent's or a failed lookup's result no state at all. *)
Answered(j, outcome) ==
  LET answer == [j EXCEPT !.pc = "answered", !.outcome = outcome]
  IN  CASE outcome = "llm"   -> [answer EXCEPT !.state = Classify(j.cited, j.reason)]
        [] outcome = "local" -> [answer EXCEPT !.state = "local_mode"]
        [] outcome = "fallback" ->
             [answer EXCEPT !.state = "fallback", !.cited = {}, !.reason = None]
        [] outcome = "no_knowledge" -> [answer EXCEPT !.cited = {}, !.reason = None]

(* Stream returns the agent's result. *)
Deliver(w) ==
  /\ job[w].pc = "asked"
  /\ \E outcome \in Outcomes :
       job' = [job EXCEPT ![w] = Answered(job[w], outcome)]
  /\ UNCHANGED <<docs, gaps, audits, recurrences, edit, created, asked, faults, lost>>

(* Stream returns an error (busy, canceled, agent or commit failed): the       *)
(* handler reports it and records nothing.                                     *)
Refuse(w) ==
  /\ job[w].pc = "asked"
  /\ job' = [job EXCEPT ![w] = Idle]
  /\ UNCHANGED <<docs, gaps, audits, recurrences, edit, created, asked, faults, lost>>

-----------------------------------------------------------------------------
(* Auditing                                                                    *)

AuditSpaceOfResult(j) == GroundedSpace(j.space)   \* mutant: the space asked in is not kept
AuditSpace(j) == j.space   \* the result's, and where it has none the request's

AuditOf(j) ==
  [question |-> QuestionSummary(j.question), space |-> AuditSpace(j), state |-> j.state,
   reason |-> j.reason, conversation |-> j.conversation]

(* SaveAudit loads the file ... *)
LoadAudits(w) ==
  /\ job[w].pc = "answered"
  /\ job' = [job EXCEPT ![w] = [@ EXCEPT !.pc = "auditing", !.file = audits]]
  /\ UNCHANGED <<docs, gaps, audits, recurrences, edit, created, asked, faults, lost>>

(* ... and writes it back with one more: what others wrote since is lost. *)
WriteAudit(w) ==
  /\ job[w].pc = "auditing"
  /\ audits' = job[w].file \cup {AuditOf(job[w])}
  /\ lost' = (lost \cup audits) \ audits'
  /\ job' = [job EXCEPT ![w] = [@ EXCEPT !.pc = "recorded", !.file = {}]]
  /\ UNCHANGED <<docs, gaps, recurrences, edit, created, asked, faults>>

(* The load or the write fails: no audit ID, so nothing is looked for among    *)
(* the repairs.                                                                *)
RecordFails(w) ==
  /\ job[w].pc \in {"answered", "auditing"} /\ faults < MaxFaults
  /\ job' = [job EXCEPT ![w] = [@ EXCEPT !.pc = "capture", !.file = {}]]
  /\ faults' = faults + 1
  /\ lost' = (lost \cup {AuditOf(job[w])}) \ audits
  /\ UNCHANGED <<docs, gaps, audits, recurrences, edit, created, asked>>

-----------------------------------------------------------------------------
(* Recurrence detection                                                        *)

WeakForRepair == {"unsupported", "partially_supported", "review_gated"}

MayRecurAnyState(j) == j.space # None /\ j.reason # None   \* mutant: any answer may be a recurrence
MayRecur(j) == j.state \in WeakForRepair /\ j.space # None /\ j.reason # None

Repaired(j) ==
  {gap \in gaps : /\ gap.status = "resolved"
                  /\ gap.space = j.space
                  /\ gap.question = QuestionSummary(j.question)
                  /\ gap.reason = j.reason}

(* Which repairs are verified is RepairLoop's: here exactly one may be, or not. *)
Detect(w) ==
  /\ job[w].pc = "recorded"
  /\ \/ job' = [job EXCEPT ![w].pc = "capture"]
     \/ /\ MayRecur(job[w])
        /\ \E gap \in Repaired(job[w]) :
             job' = [job EXCEPT ![w] = [@ EXCEPT !.pc = "matched", !.gap = gap.id]]
  /\ UNCHANGED <<docs, gaps, audits, recurrences, edit, created, asked, faults, lost>>

(* What never changes of the observed gap, and by whose audit it was. *)
Observation(j) ==
  [gap |-> j.gap, space |-> j.space, question |-> QuestionSummary(j.question),
   reason |-> j.reason, conversation |-> j.conversation]

(* A gap is observed once by a conversation: its audits have one ID.  Observed  *)
(* before or not, the answer counts as handled, and nothing is captured.       *)
Observe(w) ==
  /\ job[w].pc = "matched"
  /\ recurrences' = recurrences \cup {Observation(job[w])}
  /\ job' = [job EXCEPT ![w] = Idle]
  /\ UNCHANGED <<docs, gaps, audits, edit, created, asked, faults, lost>>

(* An error of the detection falls back to the capture. *)
DetectFails(w) ==
  /\ job[w].pc \in {"recorded", "matched"} /\ faults < MaxFaults
  /\ job' = [job EXCEPT ![w].pc = "capture"]
  /\ faults' = faults + 1
  /\ UNCHANGED <<docs, gaps, audits, recurrences, edit, created, asked, lost>>

-----------------------------------------------------------------------------
(* Gap capture                                                                 *)

Captured(j) == j.state \in WeakForRepair /\ j.cited = {} /\ j.reason # None

InSomeSpace(s) == IF s = None THEN DefaultSpace ELSE s

GapFor(j) == [id |-> j.number, space |-> InSomeSpace(j.space), question |-> j.question,
              reason |-> j.reason, status |-> "open"]

SameGap(a, b) == a.space = b.space /\ a.question = b.question /\ a.reason = b.reason

ReportedAnyStatus(gap) == \E other \in gaps : SameGap(other, gap)   \* mutant: a closed gap answers too
Reported(gap) == \E other \in gaps : other.status = "open" /\ SameGap(other, gap)

(* Create lists the gaps of the space, and is done if one of them is open; a   *)
(* new one is named after the time ...                                         *)
Capture(w) ==
  /\ job[w].pc = "capture"
  /\ IF Captured(job[w]) /\ ~Reported(GapFor(job[w]))
     THEN /\ created' = created + 1
          /\ job' = [job EXCEPT ![w] = [@ EXCEPT !.pc = "create", !.number = created + 1]]
     ELSE job' = [job EXCEPT ![w] = Idle] /\ UNCHANGED created
  /\ UNCHANGED <<docs, gaps, audits, recurrences, edit, asked, faults, lost>>

(* ... SaveKnowledgeGap loads the file again ... *)
LoadGaps(w) ==
  /\ job[w].pc = "create"
  /\ job' = [job EXCEPT ![w] = [@ EXCEPT !.pc = "saving", !.file = gaps]]
  /\ UNCHANGED <<docs, gaps, audits, recurrences, edit, created, asked, faults, lost>>

(* ... and replaces it by what it loaded and the new gap. *)
WriteGap(w) ==
  /\ job[w].pc = "saving"
  /\ gaps' = job[w].file \cup {GapFor(job[w])}
  /\ job' = [job EXCEPT ![w] = Idle]
  /\ UNCHANGED <<docs, audits, recurrences, edit, created, asked, faults, lost>>

CaptureFails(w) ==
  /\ job[w].pc \in {"capture", "create", "saving"} /\ faults < MaxFaults
  /\ job' = [job EXCEPT ![w] = Idle]
  /\ faults' = faults + 1
  /\ UNCHANGED <<docs, gaps, audits, recurrences, edit, created, asked, lost>>

-----------------------------------------------------------------------------
(* What an operator is shown                                                   *)

TimelineItem(audit) ==
  [question |-> audit.question, space |-> audit.space, reason |-> audit.reason,
   state |-> IF audit.state = None THEN "unknown" ELSE audit.state]

(* The gap a timeline item is linked to: the only one of its question and       *)
(* reason in its space.                                                         *)
IsTimelineGapCandidate(item) == item.state \in WeakForRepair /\ item.reason # None

MatchTimelineGap(item) ==
  LET matches == {gap \in gaps : /\ gap.space = InSomeSpace(item.space)
                                 /\ gap.question = item.question
                                 /\ gap.reason = item.reason}
  IN  IF IsTimelineGapCandidate(item) /\ Cardinality(matches) = 1 THEN matches ELSE {}

-----------------------------------------------------------------------------
(* Operators and faults                                                        *)

ReviewDocument(d, review) ==
  /\ docs[d].review # review
  /\ docs' = [docs EXCEPT ![d].review = review]
  /\ UNCHANGED <<gaps, audits, recurrences, job, edit, created, asked, faults, lost>>

(* UpdateStatus loads the gaps ... (Bound: one such change at a time.) *)
UpdateGap(gap, status) ==
  /\ edit = {} /\ gap.status # status
  /\ edit' = (gaps \ {gap}) \cup {[gap EXCEPT !.status = status]}
  /\ UNCHANGED <<docs, gaps, audits, recurrences, job, created, asked, faults, lost>>

(* ... and writes them back. *)
WriteEdit ==
  /\ edit # {}
  /\ gaps' = edit
  /\ edit' = {}
  /\ UNCHANGED <<docs, audits, recurrences, job, created, asked, faults, lost>>

Crash ==
  /\ faults < MaxFaults
  /\ job' = [w \in Workers |-> Idle]
  /\ edit' = {}
  /\ faults' = faults + 1
  /\ UNCHANGED <<docs, gaps, audits, recurrences, created, asked, lost>>

Serve(w) ==
  \/ Ask(w) \/ Deliver(w) \/ Refuse(w) \/ LoadAudits(w) \/ WriteAudit(w) \/ RecordFails(w)
  \/ Detect(w) \/ Observe(w) \/ DetectFails(w)
  \/ Capture(w) \/ LoadGaps(w) \/ WriteGap(w) \/ CaptureFails(w)

Next ==
  \/ \E w \in Workers : Serve(w)
  \/ \E d \in DOMAIN docs, r \in {"active", "rejected"} : ReviewDocument(d, r)
  \/ \E gap \in gaps, s \in GapStatuses : UpdateGap(gap, s)
  \/ WriteEdit
  \/ Crash

Spec == Init /\ [][Next]_vars

-----------------------------------------------------------------------------
(* Properties                                                                  *)

(* The model gave an answer that cites nothing. *)
WithoutSource(j) == j.outcome = "llm" /\ j.cited = {}

(* A request that ends without a fault (faults' = faults: no store failed and   *)
(* no restart cut it off) leaves no answer without a source behind: the moment  *)
(* it ends, its question stands open among the gaps of its space, or its        *)
(* conversation is on record as having met a repaired gap of its question,      *)
(* space and reason again (experts.go:541, server.go:1768-1810,                 *)
(* knowledge_phase14.go:241-276, knowledge_recurrence.go:237), whatever         *)
(* reviews, other requests and operators did in between.  The record may be of  *)
(* an earlier answer: a second one in the conversation adds nothing.            *)
WeakAnswersAreFollowedUp ==
  [][\A w \in Workers :
       (WithoutSource(job[w]) /\ job'[w] = Idle /\ faults' = faults) =>
          \/ \E o \in recurrences' :
               /\ o.conversation = job[w].conversation
               /\ o.question = QuestionSummary(job[w].question)
               /\ o.space = job[w].space /\ o.reason = job[w].reason
          \/ \E gap \in gaps' :
               /\ gap.status = "open"
               /\ gap.question = job[w].question
               /\ gap.space = InSomeSpace(job[w].space)]_vars

(* The inbox knows an answer behind a gap of a named space: the one audited     *)
(* before the gap was captured (server.go:1737, then 1768), unless that very    *)
(* audit was not saved or was dropped by a save beside it                       *)
(* (audit_file_store.go:18), or the question is longer than what audits keep:   *)
(* the inbox shows such a gap as never asked.  And an answer of a named space   *)
(* that the timeline links to a gap (server.go:1831) is one the inbox counts    *)
(* for it.                                                                      *)
InboxKnowsTheAnswers ==
  \A gap \in gaps :
    \/ gap.space = DefaultSpace
    \/ /\ \/ gap.question \in Long
          \/ \E audit \in audits \cup lost : Matches(gap, TimelineItem(audit))
       /\ \A audit \in audits :
            gap \in MatchTimelineGap(TimelineItem(audit)) => Matches(gap, TimelineItem(audit))

(* A recurrence is never counted without an answer: each observation of a       *)
(* repaired gap has, under the audit it names, an answer without a source to    *)
(* that gap's question in its space and for its reason, unless that very audit  *)
(* was dropped by a save beside it (server.go:1737, 1768,                       *)
(* knowledge_recurrence_service.go:44-74).                                      *)
RecurrencesHaveAnswers ==
  \A o \in recurrences :
    \E audit \in audits \cup lost :
      /\ audit.conversation = o.conversation /\ audit.question = o.question
      /\ audit.space = o.space /\ audit.reason = o.reason
      /\ audit.state \in WeakForRepair

(* README.md:392 "`/app` carries the selected knowledge space into grounded     *)
(* answers" and docs/plans/phase-12-knowledge-space-management-grounded-        *)
(* answering-plan.md:337 "Ensure no-source in selected space does not cite      *)
(* another space": an answer asked in a space cites documents of that space.    *)
(* It does not hold: the coordinator drops the request's metadata.              *)
SelectedSpaceIsCited ==
  \A w \in Workers :
    job[w].space # None => \A d \in job[w].cited : docs[d].space = job[w].space
=============================================================================
