--------------------------- MODULE AnswerLoopProofs ---------------------------
(* Proofs about AnswerLoop, for any workers, questions, spaces, library and     *)
(* bounds.  What a search answers is taken from AlgorithmProofs: without a      *)
(* threshold it finds something exactly when some retrievable chunk scores.     *)
EXTENDS AnswerLoop, AlgorithmProofs

-----------------------------------------------------------------------------
(* The search an answer is grounded in                                         *)

IsFiled(D) == /\ DOMAIN D \subseteq Nat /\ IsFiniteSet(DOMAIN D)
              /\ D \in [DOMAIN D -> Document]

LEMMA TextsAreSequences == \A S : \A s \in Seq(S) : IsSequence(s)
<1>1. ASSUME NEW S, NEW s \in Seq(S) PROVE IsSequence(s)
  <2>1. PICK n \in Nat : n = Len(s)
    BY LenProperties
  <2>2. s \in [1..n -> S]
    BY <2>1, LenProperties
  <2>3. s \in [1..n -> Range(s)]
    BY <2>2 DEF Range
  <2> QED
    BY <2>3 DEF IsSequence
<1> QED
  BY <1>1

LEMMA SearchFinds ==
  ASSUME NEW files, IsFiled(files), NEW query \in Texts, NEW space, NEW request,
         request.query = query, request.mode = "lexical", request.limit = 3,
         request.space = space, request.minScore = 0,
         NEW found, found = Search(files, request, NoIndex),
         NEW some \in BOOLEAN,
         some <=> query # << >> /\ Hits(files, OpenIn(files, space), query) # {}
  PROVE  /\ found.results = << >> <=> ~some
         /\ DOMAIN found.results = {} <=> ~some
         /\ ~some => found.reason \in Reasons
         /\ some => found.reason = None
         /\ \A i \in DOMAIN found.results : found.results[i][1] \in DOMAIN files
<1>open. PICK open : open = OpenIn(files, space)
  OBVIOUS
<1>gated. PICK gated : gated = GatedIn(files, space)
  OBVIOUS
<1>1. IsLibrary(files) /\ IsSequence(query)
  <2>1. ASSUME NEW d \in DOMAIN files PROVE IsSequence(files[d].chunks)
    <3>1. files[d] \in Document
      BY DEF IsFiled
    <3>2. files[d].chunks \in Seq(Texts)
      BY <3>1 DEF Document
    <3> QED
      BY <3>2, TextsAreSequences
  <2>2. IsSequence(query)
    BY TextsAreSequences DEF Texts
  <2> QED
    BY <2>1, <2>2 DEF IsFiled, IsLibrary
<1>2. AnswersWith(found, files, request, open, gated)
  <2>1. NoIndex.scores \in [DOMAIN NoIndex.scores -> Nat]
    BY DEF NoIndex, NothingFound
  <2>2. IsSequence(request.query) /\ request.limit \in Nat /\ request.minScore \in Nat
    BY <1>1
  <2> QED
    BY <1>1, <1>open, <1>gated, <2>1, <2>2, SearchAnswers
<1>3. /\ found.results \in Seq(Chunks(files, open)) /\ found.reason \in Reasons \cup {None}
      /\ found.results = << >> <=> found.reason # None
      /\ Range(found.results) \subseteq Hits(files, open, query)
      /\ found.results # << >> => query # << >>
      /\ query # << >> =>
           \A c \in Hits(files, open, query) : ScoreOf(files, c, query) >= 0 => found.results # << >>
  BY <1>2 DEF AnswersWith
<1>4. /\ found.results = << >> <=> DOMAIN found.results = {}
      /\ found.results = << >> <=> Range(found.results) = {}
  BY <1>3, ListIsEmpty
<1>5. ASSUME some PROVE found.results # << >>
  <2>1. PICK c \in Hits(files, open, query) : TRUE
    BY <1>5, <1>open
  <2>2. ScoreOf(files, c, query) \in Nat
    BY <1>1, ScoreIsNat DEF ScoreOf
  <2>3. ScoreOf(files, c, query) >= 0
    BY <2>2
  <2> QED
    BY <1>3, <1>5, <2>1, <2>3
<1>6. ASSUME found.results # << >> PROVE some
  BY <1>3, <1>4, <1>6, <1>open
<1>7. ASSUME NEW i \in DOMAIN found.results PROVE found.results[i][1] \in DOMAIN files
  <2>1. found.results[i] \in Chunks(files, open)
    BY <1>3, ElementOfSeq, LenProperties
  <2>2. open \subseteq DOMAIN files
    BY <1>open, OpenAndGated
  <2> QED
    BY <2>1, <2>2 DEF Chunks
<1> QED
  BY <1>3, <1>4, <1>5, <1>6, <1>7

-----------------------------------------------------------------------------
(* Types                                                                       *)

Audit == [question : Questions \cup {Cut}, space : Spaces \cup {None},
          state : States \cup {None}, reason : Reasons \cup {None},
          conversation : Conversations \cup {None}]
Observed == [gap : Int \cup {None}, space : Spaces \cup {None},
             question : Questions \cup {Cut}, reason : Reasons \cup {None},
             conversation : Conversations \cup {None}]

Files == SUBSET (Audit \cup Gap)

Later == {"recorded", "matched", "capture", "create", "saving"}

Job == [pc : {"idle", "asked", "answered", "auditing"} \cup Later,
        question : Questions \cup {None}, space : Spaces \cup {None},
        conversation : Conversations \cup {None}, number : Int,
        outcome : Outcomes \cup {None}, cited : SUBSET Nat,
        reason : Reasons \cup {None}, state : States \cup {None},
        gap : Int \cup {None}, file : Files]

(* A request that is not idle has a question, one that creates a gap a reason, *)
(* and what it loaded is of the file it is about to write.                     *)
Placed(j) == /\ j.pc # "idle" => j.question \in Questions
             /\ j.pc \in {"create", "saving"} => j.reason \in Reasons
             /\ j.pc = "auditing" => j.file \subseteq Audit
             /\ j.pc = "saving" => j.file \subseteq Gap

TypeOK ==
  /\ IsFiled(docs)
  /\ gaps \subseteq Gap /\ audits \subseteq Audit /\ recurrences \subseteq Observed
  /\ job \in [Workers -> Job] /\ \A w \in Workers : Placed(job[w])
  /\ edit \subseteq Gap
  /\ created \in Nat /\ asked \in Nat /\ faults \in Nat /\ lost \subseteq Audit

(* Nothing is known of the answer before it is there, and an answer without a  *)
(* source is classified as weak and has a reason.                              *)
Classified(j) ==
  /\ j.pc \in {"idle", "asked"} => j.outcome = None
  /\ j.pc = "asked" /\ j.cited = {} => j.reason \in Reasons
  /\ WithoutSource(j) => j.state \in WeakForRepair /\ j.reason \in Reasons

ClassifiedInv == \A w \in Workers : Classified(job[w])

(* The audit written first is there, or known to be lost, by the time a request *)
(* looks for its gap, and stays.                                                *)
Remembered(j) ==
  /\ j.pc \in Later => AuditOf(j) \in audits \cup lost
  /\ j.pc = "matched" => j.state \in WeakForRepair

Remembers(gap) ==
  \/ gap.space = DefaultSpace
  \/ gap.question \in Long
  \/ \E audit \in audits \cup lost :
       /\ audit.question = gap.question /\ audit.space = gap.space
       /\ audit.reason = gap.reason

(* So it is with the gaps on file, and with what is about to be written there. *)
MemoryInv ==
  /\ \A w \in Workers : Remembered(job[w])
  /\ \A gap \in gaps : Remembers(gap)
  /\ \A gap \in edit : Remembers(gap)
  /\ \A w \in Workers : job[w].pc = "saving" => \A gap \in job[w].file : Remembers(gap)

LEMMA SearchForFinds ==
  ASSUME TypeOK, NEW q \in Questions, NEW space, NEW found, found = SearchFor(q, space),
         NEW some \in BOOLEAN,
         some <=> q # << >> /\ Hits(docs, OpenIn(docs, space), q) # {}
  PROVE  /\ found.results = << >> <=> ~some
         /\ DOMAIN found.results = {} <=> ~some
         /\ ~some => found.reason \in Reasons
         /\ some => found.reason = None
         /\ \A i \in DOMAIN found.results : found.results[i][1] \in DOMAIN docs
<1>0. PICK request : request = [query |-> q, mode |-> "lexical", limit |-> 3,
                              space |-> space, minScore |-> 0]
  OBVIOUS
<1>1. found = Search(docs, request, NoIndex)
  BY <1>0 DEF SearchFor
<1>2. /\ request.query = q /\ request.mode = "lexical" /\ request.limit = 3
      /\ request.space = space /\ request.minScore = 0
  BY <1>0
<1>3. q \in Texts /\ IsFiled(docs)
  BY LibraryAssumption DEF TypeOK
<1> QED
  BY <1>1, <1>2, <1>3, SearchFinds

(* What the search for an answer says of the sources. *)
LEMMA Cites ==
  ASSUME TypeOK, NEW q \in Questions, NEW space, NEW found, found = SearchFor(q, space),
         NEW cited, cited = Cited(found)
  PROVE  /\ cited \subseteq DOMAIN docs /\ cited \subseteq Nat
         /\ cited = {} <=> found.results = << >>
         /\ cited = {} => found.reason \in Reasons
         /\ found.reason \in Reasons \cup {None}
         /\ cited # {} <=> q # << >> /\ Hits(docs, OpenIn(docs, space), q) # {}
<1> PICK some \in BOOLEAN : some <=> q # << >> /\ Hits(docs, OpenIn(docs, space), q) # {}
  OBVIOUS
<1>1. /\ found.results = << >> <=> ~some
      /\ DOMAIN found.results = {} <=> ~some
      /\ ~some => found.reason \in Reasons
      /\ some => found.reason = None
      /\ \A i \in DOMAIN found.results : found.results[i][1] \in DOMAIN docs
  BY SearchForFinds
<1>3. cited \subseteq DOMAIN docs /\ cited \subseteq Nat
  BY <1>1 DEF Cited, TypeOK, IsFiled
<1>4. cited = {} <=> DOMAIN found.results = {}
  BY DEF Cited
<1> QED
  BY <1>1, <1>3, <1>4

-----------------------------------------------------------------------------
(* The steps of a request                                                      *)

LEMMA IdleJob == Idle \in Job /\ Placed(Idle) /\ Idle.pc = "idle" /\ Idle.outcome = None
<1>1. Idle \in Job
  BY DEF Idle, Job, Files
<1>2. Idle.pc = "idle" /\ Idle.outcome = None
  BY DEF Idle
<1> QED
  BY <1>1, <1>2 DEF Placed, Later

SameAnswer(j, k) ==
  /\ k.question = j.question /\ k.space = j.space /\ k.conversation = j.conversation
  /\ k.outcome = j.outcome /\ k.cited = j.cited
  /\ k.reason = j.reason /\ k.state = j.state

(* Moving a request on keeps what is known of its answer. *)
LEMMA MovedJob ==
  ASSUME NEW j \in Job, NEW pc \in Later, NEW k, k = [j EXCEPT !.pc = pc]
  PROVE  k \in Job /\ k.pc = pc /\ k.file = j.file /\ SameAnswer(j, k)
BY DEF Job, SameAnswer

LEMMA AuditingJob ==
  ASSUME NEW j \in Job, NEW file \in Files, NEW k, k = [j EXCEPT !.pc = "auditing", !.file = file]
  PROVE  k \in Job /\ k.pc = "auditing" /\ k.file = file /\ SameAnswer(j, k)
BY DEF Job, SameAnswer

LEMMA SavingJob ==
  ASSUME NEW j \in Job, NEW file \in Files, NEW k, k = [j EXCEPT !.pc = "saving", !.file = file]
  PROVE  k \in Job /\ k.pc = "saving" /\ k.file = file /\ SameAnswer(j, k)
BY DEF Job, SameAnswer, Later

LEMMA FiledJob ==
  ASSUME NEW j \in Job, NEW pc \in Later, NEW k, k = [j EXCEPT !.pc = pc, !.file = {}]
  PROVE  k \in Job /\ k.pc = pc /\ SameAnswer(j, k)
<1>1. {} \in Files
  BY DEF Files
<1> QED
  BY <1>1 DEF Job, SameAnswer

LEMMA MatchedJob ==
  ASSUME NEW j \in Job, NEW id \in Int, NEW k, k = [j EXCEPT !.pc = "matched", !.gap = id]
  PROVE  k \in Job /\ k.pc = "matched" /\ k.file = j.file /\ SameAnswer(j, k)
BY DEF Job, SameAnswer, Later

LEMMA CreatingJob ==
  ASSUME NEW j \in Job, NEW n \in Int, NEW k, k = [j EXCEPT !.pc = "create", !.number = n]
  PROVE  k \in Job /\ k.pc = "create" /\ k.file = j.file /\ SameAnswer(j, k)
BY DEF Job, SameAnswer, Later

(* What a request holds once it asked. *)
LEMMA AskedJob ==
  ASSUME TypeOK, NEW q \in Questions, NEW s \in Selected, NEW c \in Conversations,
         NEW k, k = Grounded(q, s, c)
  PROVE  /\ k \in Job /\ Placed(k) /\ k.pc = "asked" /\ k.outcome = None
         /\ k.cited = {} => k.reason \in Reasons
<1>found. PICK found : found = Ground(q, s)
  OBVIOUS
<1>cited. PICK cited : cited = Cited(found)
  OBVIOUS
<1>1. /\ cited \subseteq Nat /\ found.reason \in Reasons \cup {None}
      /\ cited = {} => found.reason \in Reasons
  <2> PICK space : space = GroundedSpace(s)
    OBVIOUS
  <2>1. found = SearchFor(q, space)
    BY <1>found DEF Ground
  <2> QED
    BY <1>cited, <2>1, Cites
<1>2. k = [Idle EXCEPT !.pc = "asked", !.question = q, !.space = s, !.conversation = c,
                       !.reason = found.reason, !.cited = cited]
  BY <1>found, <1>cited DEF Grounded
<1>3. /\ k.pc = "asked" /\ k.question = q /\ k.outcome = None
      /\ k.cited = cited /\ k.reason = found.reason
  BY <1>2 DEF Idle
<1>4. s \in Spaces \cup {None}
  BY AnswerAssumption
<1>5. k \in Job
  <2>1. k = [pc |-> "asked", question |-> q, space |-> s, conversation |-> c, number |-> 0,
             outcome |-> None, cited |-> cited, reason |-> found.reason, state |-> None,
             gap |-> None, file |-> {}]
    BY <1>2 DEF Idle
  <2> QED
    BY <1>1, <1>4, <2>1 DEF Job, Files
<1> QED
  BY <1>1, <1>3, <1>5 DEF Placed

LEMMA AnsweredJob ==
  ASSUME NEW j \in Job, j.pc = "asked", Placed(j),
         NEW outcome \in Outcomes, NEW k, k = Answered(j, outcome)
  PROVE  /\ k \in Job /\ Placed(k) /\ k.pc = "answered"
         /\ (j.cited = {} => j.reason \in Reasons) => Classified(k)
<1>none. None \notin Reasons /\ None \notin States /\ None \notin Outcomes
  BY NoneAssumption
<1>1. CASE outcome = "llm"
  <2>1. k = [j EXCEPT !.pc = "answered", !.outcome = "llm", !.state = Classify(j.cited, j.reason)]
    BY <1>1 DEF Answered, Job
  <2>2. Classify(j.cited, j.reason) \in States
    BY DEF Classify, States
  <2>3. j.cited = {} => Classify(j.cited, j.reason) \in WeakForRepair
    BY DEF Classify, WeakForRepair
  <2>4. /\ k.pc = "answered" /\ k.question = j.question /\ k.outcome = "llm"
        /\ k.cited = j.cited /\ k.reason = j.reason /\ k.state = Classify(j.cited, j.reason)
    BY <2>1 DEF Job
  <2>5. k \in Job
    BY <2>1, <2>2 DEF Job, Outcomes
  <2> QED
    BY <2>3, <2>4, <2>5 DEF Placed, Classified, WithoutSource
<1>2. CASE outcome # "llm"
  <2>1. k \in Job /\ k.pc = "answered" /\ k.question = j.question /\ k.outcome = outcome
    <3>1. CASE outcome = "local"
      <4>1. k = [j EXCEPT !.pc = "answered", !.outcome = "local", !.state = "local_mode"]
        BY <3>1 DEF Answered, Job
      <4> QED
        BY <3>1, <4>1 DEF Job, Outcomes, States
    <3>2. CASE outcome = "fallback"
      <4>1. k = [j EXCEPT !.pc = "answered", !.outcome = "fallback", !.state = "fallback",
                          !.cited = {}, !.reason = None]
        BY <3>2 DEF Answered, Job
      <4> QED
        BY <3>2, <4>1 DEF Job, Outcomes, States
    <3>3. CASE outcome = "no_knowledge"
      <4>1. k = [j EXCEPT !.pc = "answered", !.outcome = "no_knowledge", !.cited = {}, !.reason = None]
        BY <3>3 DEF Answered, Job
      <4> QED
        BY <3>3, <4>1 DEF Job, Outcomes, States
    <3> QED
      BY <1>2, <3>1, <3>2, <3>3 DEF Outcomes
  <2> QED
    BY <1>2, <2>1 DEF Placed, Classified, WithoutSource
<1> QED
  BY <1>1, <1>2

(* The ways a step moves its worker's job from j to k. *)
Moves(j, k) ==
  \/ k = Idle
  \/ /\ k.pc = "asked" /\ k.outcome = None
     /\ k.cited = {} => k.reason \in Reasons
  \/ /\ j.pc = "asked" /\ k.pc = "answered"
     /\ (j.cited = {} => j.reason \in Reasons) => Classified(k)
  \/ /\ j.pc \in {"answered", "auditing"} \cup Later /\ k.pc \in {"auditing"} \cup Later
     /\ SameAnswer(j, k)

LEMMA ServeMoves ==
  ASSUME TypeOK, NEW w \in Workers, Serve(w)
  PROVE  \E k \in Job : /\ Placed(k) /\ job' = [job EXCEPT ![w] = k] /\ Moves(job[w], k)
<1> PICK j \in Job : j = job[w] /\ Placed(j)
  BY DEF TypeOK
<1>job. job \in [Workers -> Job] /\ gaps \subseteq Gap /\ audits \subseteq Audit /\ created \in Nat
  BY DEF TypeOK
<1>files. {} \in Files /\ gaps \in Files /\ audits \in Files
  BY <1>job DEF Files
<1>idle. ASSUME job' = [job EXCEPT ![w] = Idle]
         PROVE  \E k \in Job : /\ Placed(k) /\ job' = [job EXCEPT ![w] = k] /\ Moves(job[w], k)
  BY <1>idle, IdleJob DEF Moves
<1>1. CASE Ask(w)
  <2>1. PICK q \in Questions, s \in Selected, c \in Conversations :
          job' = [job EXCEPT ![w] = Grounded(q, s, c)]
    BY <1>1 DEF Ask
  <2> PICK k : k = Grounded(q, s, c)
    OBVIOUS
  <2>2. /\ k \in Job /\ Placed(k) /\ k.pc = "asked" /\ k.outcome = None
        /\ k.cited = {} => k.reason \in Reasons
    BY AskedJob
  <2> QED
    BY <2>1, <2>2 DEF Moves
<1>2. CASE Deliver(w)
  <2>1. PICK outcome \in Outcomes : job' = [job EXCEPT ![w] = Answered(j, outcome)]
    BY <1>2 DEF Deliver
  <2>2. j.pc = "asked"
    BY <1>2 DEF Deliver
  <2> PICK k : k = Answered(j, outcome)
    OBVIOUS
  <2>3. /\ k \in Job /\ Placed(k) /\ k.pc = "answered"
        /\ (j.cited = {} => j.reason \in Reasons) => Classified(k)
    BY <2>2, AnsweredJob
  <2> QED
    BY <2>1, <2>2, <2>3 DEF Moves
<1>3. CASE LoadAudits(w)
  <2> PICK k : k = [j EXCEPT !.pc = "auditing", !.file = audits]
    OBVIOUS
  <2>1. j.pc = "answered" /\ job' = [job EXCEPT ![w] = k]
    BY <1>3 DEF LoadAudits
  <2>2. k \in Job /\ k.pc = "auditing" /\ k.file = audits /\ SameAnswer(j, k)
    <3>1. audits \in Files
      BY <1>files
    <3> QED
      BY <3>1 DEF Job, SameAnswer
  <2> QED
    BY <1>job, <2>1, <2>2 DEF Moves, Placed, SameAnswer
<1>4. CASE WriteAudit(w) \/ RecordFails(w)
  <2>1. PICK pc \in {"recorded", "capture"} :
          job' = [job EXCEPT ![w] = [j EXCEPT !.pc = pc, !.file = {}]]
    BY <1>4 DEF WriteAudit, RecordFails
  <2>2. j.pc \in {"answered", "auditing"}
    BY <1>4 DEF WriteAudit, RecordFails
  <2> PICK k : k = [j EXCEPT !.pc = pc, !.file = {}]
    OBVIOUS
  <2>3. k \in Job /\ k.pc = pc /\ SameAnswer(j, k)
    <3>1. pc \in Later
      BY DEF Later
    <3>2. {} \in Files
      BY <1>files
    <3> QED
      BY <3>1, <3>2 DEF Job, SameAnswer
  <2>4. job' = [job EXCEPT ![w] = k]
    BY <2>1
  <2>5. Placed(k)
    BY <2>2, <2>3 DEF Placed, SameAnswer, Later
  <2>6. Moves(j, k)
    BY <2>2, <2>3 DEF Moves, Later
  <2> QED
    BY <2>3, <2>4, <2>5, <2>6
<1>5. CASE (Detect(w) \/ DetectFails(w)) /\ job' = [job EXCEPT ![w].pc = "capture"]
  <2>1. j.pc \in {"recorded", "matched"}
    BY <1>5 DEF Detect, DetectFails
  <2> PICK k : k = [j EXCEPT !.pc = "capture"]
    OBVIOUS
  <2>2. k \in Job /\ k.pc = "capture" /\ SameAnswer(j, k)
    BY MovedJob DEF Later
  <2>3. job' = [job EXCEPT ![w] = k]
    BY <1>5
  <2>4. Placed(k)
    BY <2>1, <2>2 DEF Placed, SameAnswer, Later
  <2>5. Moves(j, k)
    BY <2>1, <2>2 DEF Moves, Later
  <2> QED
    BY <2>2, <2>3, <2>4, <2>5
<1>6. CASE Detect(w) /\ ~(job' = [job EXCEPT ![w].pc = "capture"])
  <2>1. j.pc = "recorded"
    BY <1>6 DEF Detect
  <2>2. PICK gap \in gaps :
          job' = [job EXCEPT ![w] = [j EXCEPT !.pc = "matched", !.gap = gap.id]]
    BY <1>6 DEF Detect, Repaired
  <2> PICK k : k = [j EXCEPT !.pc = "matched", !.gap = gap.id]
    OBVIOUS
  <2>3. gap.id \in Int
    BY <1>job DEF Gap
  <2>4. k \in Job /\ k.pc = "matched" /\ SameAnswer(j, k)
    BY <2>3, MatchedJob
  <2>5. Placed(k)
    BY <2>1, <2>4 DEF Placed, SameAnswer, Later
  <2>6. Moves(j, k)
    BY <2>1, <2>4 DEF Moves, Later
  <2> QED
    BY <2>1, <2>2, <2>4, <2>5, <2>6
<1>7. CASE Capture(w) /\ ~(job' = [job EXCEPT ![w] = Idle])
  <2> PICK k : k = [j EXCEPT !.pc = "create", !.number = created + 1]
    OBVIOUS
  <2>1. j.pc = "capture" /\ Captured(j) /\ job' = [job EXCEPT ![w] = k]
    BY <1>7 DEF Capture
  <2>2. j.reason \in Reasons
    BY <2>1 DEF Captured, Job
  <2>3. created + 1 \in Int
    BY <1>job
  <2>4. k \in Job /\ k.pc = "create" /\ SameAnswer(j, k)
    BY <2>3, CreatingJob
  <2>5. Placed(k)
    BY <2>1, <2>2, <2>4 DEF Placed, SameAnswer, Later
  <2>6. Moves(j, k)
    BY <2>1, <2>4 DEF Moves, Later
  <2> QED
    BY <2>1, <2>2, <2>4, <2>5, <2>6
<1>8. CASE LoadGaps(w)
  <2> PICK k : k = [j EXCEPT !.pc = "saving", !.file = gaps]
    OBVIOUS
  <2>1. j.pc = "create" /\ job' = [job EXCEPT ![w] = k]
    BY <1>8 DEF LoadGaps
  <2>2. k \in Job /\ k.pc = "saving" /\ k.file = gaps /\ SameAnswer(j, k)
    <3>1. gaps \in Files
      BY <1>files
    <3> QED
      BY <3>1 DEF Job, SameAnswer, Later
  <2> QED
    BY <1>job, <2>1, <2>2 DEF Moves, Placed, SameAnswer, Later
<1>9. CASE Refuse(w) \/ Observe(w) \/ WriteGap(w) \/ CaptureFails(w)
  BY <1>9, <1>idle DEF Refuse, Observe, WriteGap, CaptureFails
<1> QED
  BY <1>idle, <1>1, <1>2, <1>3, <1>4, <1>5, <1>6, <1>7, <1>8, <1>9 DEF Serve, DetectFails

(* The others' jobs stay as they are. *)
LEMMA JobSteps ==
  ASSUME TypeOK, NEW w \in Workers, Serve(w)
  PROVE  /\ job' \in [Workers -> Job] /\ Placed(job'[w]) /\ Moves(job[w], job'[w])
         /\ \A u \in Workers : u # w => job'[u] = job[u]
<1>1. PICK k \in Job : /\ Placed(k) /\ job' = [job EXCEPT ![w] = k] /\ Moves(job[w], k)
  BY ServeMoves
<1>2. job \in [Workers -> Job]
  BY DEF TypeOK
<1>3. job'[w] = k /\ job' \in [Workers -> Job] /\ \A u \in Workers : u # w => job'[u] = job[u]
  BY <1>1, <1>2
<1> QED
  BY <1>1, <1>3

-----------------------------------------------------------------------------
(* Type correctness                                                            *)

LEMMA LibraryReviewed ==
  ASSUME IsFiled(docs), NEW d \in DOMAIN docs, NEW review \in {"active", "rejected"},
         ReviewDocument(d, review)
  PROVE  IsFiled(docs')
<1>1. docs \in [DOMAIN docs -> Document]
  BY DEF IsFiled
<1>2. DOMAIN docs' = DOMAIN docs /\ docs' \in [DOMAIN docs -> Document]
  <2>1. PICK new : new = [docs[d] EXCEPT !.review = review]
    OBVIOUS
  <2>2. new \in Document
    <3>1. docs[d] \in Document
      BY <1>1
    <3>2. review \in ReviewStatuses
      BY DEF ReviewStatuses
    <3> QED
      BY <2>1, <3>1, <3>2 DEF Document
  <2>3. docs' = [docs EXCEPT ![d] = new]
    BY <2>1 DEF ReviewDocument
  <2> QED
    BY <1>1, <2>2, <2>3
<1> QED
  BY <1>2 DEF IsFiled

LEMMA GapTyped ==
  ASSUME NEW j \in Job, Placed(j), j.pc = "saving"
  PROVE  GapFor(j) \in Gap
<1>1. j.question \in Questions /\ j.reason \in Reasons /\ InSomeSpace(j.space) \in Spaces
  BY AnswerAssumption DEF Placed, InSomeSpace, Job
<1> QED
  BY <1>1 DEF GapFor, Gap, GapStatuses, Job

LEMMA AuditTyped ==
  ASSUME NEW j \in Job, Placed(j), j.pc # "idle"
  PROVE  AuditOf(j) \in Audit
<1>1. QuestionSummary(j.question) \in Questions \cup {Cut} /\ AuditSpace(j) \in Spaces \cup {None}
  BY DEF Placed, QuestionSummary, AuditSpace, Job
<1> QED
  BY <1>1 DEF AuditOf, Audit, Job

LEMMA ServeTypes ==
  ASSUME TypeOK, NEW w \in Workers, Serve(w)
  PROVE  TypeOK'
<1>1. job' \in [Workers -> Job] /\ \A u \in Workers : Placed(job'[u])
  BY JobSteps DEF TypeOK
<1> PICK j \in Job : j = job[w] /\ Placed(j)
  BY DEF TypeOK
<1>2. docs' = docs /\ edit' = edit
  BY DEF Serve, Ask, Deliver, Refuse, LoadAudits, WriteAudit, RecordFails, Detect, Observe,
     DetectFails, Capture, LoadGaps, WriteGap, CaptureFails
<1>3. gaps' \subseteq Gap
  <2>1. CASE WriteGap(w)
    <3>1. j.pc = "saving" /\ gaps' = j.file \cup {GapFor(j)}
      BY <2>1 DEF WriteGap
    <3> QED
      BY <3>1, GapTyped DEF Placed
  <2>2. CASE ~WriteGap(w)
    BY <2>2 DEF TypeOK, Serve, Ask, Deliver, Refuse, LoadAudits, WriteAudit, RecordFails, Detect,
       Observe, DetectFails, Capture, LoadGaps, CaptureFails
  <2> QED
    BY <2>1, <2>2
<1>4. audits' \subseteq Audit /\ lost' \subseteq Audit
  <2>1. CASE WriteAudit(w)
    <3>1. /\ j.pc = "auditing" /\ audits' = j.file \cup {AuditOf(j)}
          /\ lost' = (lost \cup audits) \ audits'
      BY <2>1 DEF WriteAudit
    <3> QED
      BY <3>1, AuditTyped DEF TypeOK, Placed
  <2>2. CASE RecordFails(w)
    <3>1. /\ j.pc \in {"answered", "auditing"} /\ audits' = audits
          /\ lost' = (lost \cup {AuditOf(j)}) \ audits
      BY <2>2 DEF RecordFails
    <3> QED
      BY <3>1, AuditTyped DEF TypeOK
  <2>3. CASE ~WriteAudit(w) /\ ~RecordFails(w)
    BY <2>3 DEF TypeOK, Serve, Ask, Deliver, Refuse, LoadAudits, Detect,
       Observe, DetectFails, Capture, LoadGaps, WriteGap, CaptureFails
  <2> QED
    BY <2>1, <2>2, <2>3
<1>5. recurrences' \subseteq Observed
  <2>1. CASE Observe(w)
    <3>1. j.pc = "matched" /\ recurrences' = recurrences \cup {Observation(j)}
      BY <2>1 DEF Observe
    <3>2. QuestionSummary(j.question) \in Questions \cup {Cut}
      BY <3>1 DEF Placed, QuestionSummary
    <3>3. Observation(j) \in Observed
      BY <3>2 DEF Observation, Observed, Job
    <3> QED
      BY <3>1, <3>3 DEF TypeOK
  <2>2. CASE ~Observe(w)
    BY <2>2 DEF TypeOK, Serve, Ask, Deliver, Refuse, LoadAudits, WriteAudit, RecordFails, Detect,
       DetectFails, Capture, LoadGaps, WriteGap, CaptureFails
  <2> QED
    BY <2>1, <2>2
<1>6. created' \in Nat /\ asked' \in Nat /\ faults' \in Nat
  <2>1. created \in Nat /\ asked \in Nat /\ faults \in Nat
    BY DEF TypeOK
  <2>2. created' \in {created, created + 1} /\ asked' \in {asked, asked + 1}
        /\ faults' \in {faults, faults + 1}
    BY DEF Serve, Ask, Deliver, Refuse, LoadAudits, WriteAudit, RecordFails, Detect,
       Observe, DetectFails, Capture, LoadGaps, WriteGap, CaptureFails
  <2> QED
    BY <2>1, <2>2
<1> QED
  BY <1>1, <1>2, <1>3, <1>4, <1>5, <1>6 DEF TypeOK

LEMMA CrashTypes ==
  ASSUME TypeOK, Crash
  PROVE  TypeOK' /\ \A w \in Workers : job'[w] = Idle
<1>1. job' = [w \in Workers |-> Idle]
  BY DEF Crash
<1>2. \A w \in Workers : job'[w] = Idle
  BY <1>1
<1>3. job' \in [Workers -> Job] /\ \A w \in Workers : Placed(job'[w])
  BY <1>1, <1>2, IdleJob
<1>4. faults' \in Nat
  BY DEF TypeOK, Crash
<1> QED
  BY <1>2, <1>3, <1>4 DEF TypeOK, Crash

(* An operator's change keeps what identifies the gap. *)
LEMMA EditedGap ==
  ASSUME TypeOK, NEW gap \in gaps, NEW s \in GapStatuses, UpdateGap(gap, s), NEW new \in edit'
  PROVE  /\ new \in Gap
         /\ \E old \in gaps : /\ new.space = old.space /\ new.question = old.question
                              /\ new.reason = old.reason
<1> PICK changed : changed = [gap EXCEPT !.status = s]
  OBVIOUS
<1>1. new \in gaps \/ new = changed
  BY DEF UpdateGap
<1>2. gap \in Gap
  BY DEF TypeOK
<1>3. /\ changed \in Gap /\ changed.space = gap.space /\ changed.question = gap.question
      /\ changed.reason = gap.reason
  BY <1>2 DEF Gap
<1> QED
  BY <1>1, <1>3 DEF TypeOK

LEMMA TypesStay == TypeOK /\ [Next]_vars => TypeOK'
<1> SUFFICES ASSUME TypeOK, [Next]_vars PROVE TypeOK'
  OBVIOUS
<1>1. ASSUME NEW w \in Workers, Serve(w) PROVE TypeOK'
  BY <1>1, ServeTypes
<1>2. ASSUME NEW d \in DOMAIN docs, NEW r \in {"active", "rejected"}, ReviewDocument(d, r)
      PROVE  TypeOK'
  <2>1. IsFiled(docs')
    BY <1>2, LibraryReviewed DEF TypeOK
  <2> QED
    BY <1>2, <2>1 DEF TypeOK, ReviewDocument
<1>3. ASSUME NEW gap \in gaps, NEW s \in GapStatuses, UpdateGap(gap, s)
      PROVE  TypeOK'
  <2>1. edit' \subseteq Gap
    BY <1>3, EditedGap
  <2> QED
    BY <1>3, <2>1 DEF TypeOK, UpdateGap
<1>4. CASE WriteEdit
  BY <1>4 DEF TypeOK, WriteEdit
<1>5. CASE Crash
  BY <1>5, CrashTypes
<1>6. CASE UNCHANGED vars
  BY <1>6 DEF TypeOK, vars
<1> QED
  BY <1>1, <1>2, <1>3, <1>4, <1>5, <1>6 DEF Next

LEMMA TypesStart == Init => TypeOK
<1> SUFFICES ASSUME Init PROVE TypeOK
  OBVIOUS
<1>1. IsFiled(docs)
  BY LibraryAssumption DEF Init, IsFiled
<1>2. gaps \subseteq Gap
  BY BacklogAssumption DEF Init
<1>3. audits \subseteq Audit
  <2>1. ASSUME NEW gap \in Backlog PROVE AnswerTo(gap) \in Audit
    <3>1. gap \in Gap
      BY BacklogAssumption
    <3>2. gap.space \in Spaces /\ gap.question \in Questions /\ gap.reason \in Reasons
      BY <3>1 DEF Gap
    <3>3. QuestionSummary(gap.question) \in Questions \cup {Cut} /\ Classify({}, gap.reason) \in States
      BY <3>2 DEF QuestionSummary, Classify, States
    <3> QED
      BY <3>2, <3>3 DEF AnswerTo, Audit
  <2> QED
    BY <2>1 DEF Init
<1>4. job \in [Workers -> Job] /\ \A w \in Workers : Placed(job[w])
  BY IdleJob DEF Init
<1> QED
  BY <1>1, <1>2, <1>3, <1>4 DEF Init, TypeOK

(* Every variable keeps its type: the documents stay a library, what is on file *)
(* or about to be written there well-formed gaps and audits, and a request that *)
(* has begun has a question, one that creates a gap a reason (experts.go:480,   *)
(* server.go:1737-1810).                                                        *)
THEOREM TypeCorrect == Spec => []TypeOK
<1>1. Init => TypeOK
  BY TypesStart
<1>2. TypeOK /\ [Next]_vars => TypeOK'
  BY TypesStay
<1> QED
  BY <1>1, <1>2, PTL DEF Spec

-----------------------------------------------------------------------------
(* Weak answers are followed up                                                *)

LEMMA ClassifiedStays == TypeOK /\ ClassifiedInv /\ [Next]_vars => ClassifiedInv'
<1> SUFFICES ASSUME TypeOK, ClassifiedInv, [Next]_vars, NEW u \in Workers
             PROVE  Classified(job'[u])
  BY DEF ClassifiedInv, Classified, WithoutSource
<1>0. Classified(job[u])
  BY DEF ClassifiedInv
<1>idle. Classified(Idle)
  BY IdleJob, NoneAssumption DEF Classified, WithoutSource, Outcomes
<1>1. CASE job'[u] = job[u]
  BY <1>0, <1>1
<1>2. CASE Crash
  BY <1>2, <1>idle, CrashTypes
<1>3. ASSUME Serve(u) PROVE Classified(job'[u])
  <2> PICK j : j = job[u]
    OBVIOUS
  <2> PICK k : k = job'[u]
    OBVIOUS
  <2>1. Moves(j, k)
    BY <1>3, JobSteps
  <2>2. CASE k = Idle
    BY <2>2, <1>idle
  <2>3. CASE /\ k.pc = "asked" /\ k.outcome = None
             /\ k.cited = {} => k.reason \in Reasons
    BY <2>3, NoneAssumption DEF Classified, WithoutSource, Outcomes
  <2>4. CASE /\ j.pc = "asked" /\ k.pc = "answered"
             /\ (j.cited = {} => j.reason \in Reasons) => Classified(k)
    BY <1>0, <2>4 DEF Classified
  <2>5. CASE /\ j.pc \in {"answered", "auditing"} \cup Later /\ k.pc \in {"auditing"} \cup Later
             /\ SameAnswer(j, k)
    BY <1>0, <2>5 DEF Classified, WithoutSource, SameAnswer, Later
  <2> QED
    BY <2>1, <2>2, <2>3, <2>4, <2>5 DEF Moves
<1>4. job'[u] = job[u] \/ Crash \/ Serve(u)
  <2>1. \A w \in Workers : Serve(w) /\ w # u => job'[u] = job[u]
    BY JobSteps
  <2> QED
    BY <2>1 DEF Next, vars, ReviewDocument, UpdateGap, WriteEdit
<1> QED
  BY <1>1, <1>2, <1>3, <1>4

LEMMA Followed ==
  ASSUME TypeOK, ClassifiedInv, [Next]_vars, NEW w \in Workers,
         WithoutSource(job[w]), job'[w] = Idle, faults' = faults
  PROVE  \/ \E o \in recurrences' :
              /\ o.conversation = job[w].conversation
              /\ o.question = QuestionSummary(job[w].question)
              /\ o.space = job[w].space /\ o.reason = job[w].reason
         \/ \E gap \in gaps' :
              /\ gap.status = "open"
              /\ gap.question = job[w].question
              /\ gap.space = InSomeSpace(job[w].space)
<1> PICK j \in Job : j = job[w] /\ Classified(j) /\ WithoutSource(j)
  BY DEF TypeOK, ClassifiedInv
<1>1. /\ j.state \in WeakForRepair /\ j.reason \in Reasons /\ j.cited = {}
      /\ j.pc \notin {"idle", "asked"}
  BY NoneAssumption DEF Classified, WithoutSource, Outcomes
<1>2. Captured(j)
  BY <1>1, NoneAssumption DEF Captured
<1>3. faults \in Nat /\ faults + 1 # faults
  BY DEF TypeOK
<1>4. Serve(w)
  <2>1. ~Crash
    BY <1>3 DEF Crash
  <2>2. job'[w] # job[w]
    BY <1>1, IdleJob
  <2>3. \A u \in Workers : Serve(u) => u = w
    BY <2>2, JobSteps
  <2> QED
    BY <2>1, <2>2, <2>3 DEF Next, vars, ReviewDocument, UpdateGap, WriteEdit
<1>5. job \in [Workers -> Job]
  BY DEF TypeOK
<1>6. ~Ask(w) /\ ~Deliver(w) /\ ~Refuse(w)
  BY <1>1, IdleJob DEF Ask, Deliver, Refuse
<1>7. ~RecordFails(w) /\ ~DetectFails(w) /\ ~CaptureFails(w)
  BY <1>3 DEF RecordFails, DetectFails, CaptureFails
<1>8. ~LoadAudits(w) /\ ~WriteAudit(w) /\ ~LoadGaps(w)
  <2>1. gaps \in Files /\ audits \in Files
    BY DEF TypeOK, Files
  <2>2. ASSUME NEW k, k = Idle,
               \/ \E file \in Files : k = [j EXCEPT !.pc = "auditing", !.file = file]
               \/ k = [j EXCEPT !.pc = "recorded", !.file = {}]
               \/ \E file \in Files : k = [j EXCEPT !.pc = "saving", !.file = file]
        PROVE  FALSE
    <3>1. CASE \E file \in Files : k = [j EXCEPT !.pc = "auditing", !.file = file]
      BY <2>2, <3>1, AuditingJob, IdleJob
    <3>2. CASE k = [j EXCEPT !.pc = "recorded", !.file = {}]
      BY <2>2, <3>2, FiledJob, IdleJob DEF Later
    <3>3. CASE \E file \in Files : k = [j EXCEPT !.pc = "saving", !.file = file]
      BY <2>2, <3>3, SavingJob, IdleJob
    <3> QED
      BY <2>2, <3>1, <3>2, <3>3
  <2> QED
    BY <1>5, <2>1, <2>2 DEF LoadAudits, WriteAudit, LoadGaps
<1>9. ~Detect(w)
  <2> SUFFICES ASSUME Detect(w) PROVE FALSE
    OBVIOUS
  <2>1. \/ job' = [job EXCEPT ![w] = [j EXCEPT !.pc = "capture"]]
        \/ \E gap \in gaps : job' = [job EXCEPT ![w] = [j EXCEPT !.pc = "matched", !.gap = gap.id]]
    BY DEF Detect, Repaired
  <2>2. CASE job' = [job EXCEPT ![w] = [j EXCEPT !.pc = "capture"]]
    <3> PICK k : k = [j EXCEPT !.pc = "capture"]
      OBVIOUS
    <3>1. k.pc = "capture" /\ job'[w] = k
      BY <1>5, <2>2, MovedJob DEF Later
    <3> QED
      BY <3>1, IdleJob
  <2>3. ASSUME NEW gap \in gaps, job' = [job EXCEPT ![w] = [j EXCEPT !.pc = "matched", !.gap = gap.id]]
        PROVE  FALSE
    <3> PICK k : k = [j EXCEPT !.pc = "matched", !.gap = gap.id]
      OBVIOUS
    <3>1. gap.id \in Int
      BY DEF TypeOK, Gap
    <3>2. k.pc = "matched" /\ job'[w] = k
      BY <1>5, <2>3, <3>1, MatchedJob
    <3> QED
      BY <3>2, IdleJob
  <2> QED
    BY <2>1, <2>2, <2>3
<1>10. CASE Observe(w)
  <2>1. Observation(j) \in recurrences'
    BY <1>10 DEF Observe
  <2>2. /\ Observation(j).conversation = j.conversation
        /\ Observation(j).question = QuestionSummary(j.question)
        /\ Observation(j).space = j.space /\ Observation(j).reason = j.reason
    BY DEF Observation
  <2> QED
    BY <2>1, <2>2
<1>11. CASE Capture(w)
  <2>1. Reported(GapFor(j))
    <3>1. SUFFICES ASSUME ~Reported(GapFor(j)) PROVE FALSE
      OBVIOUS
    <3> PICK k : k = [j EXCEPT !.pc = "create", !.number = created + 1]
      OBVIOUS
    <3>2. created + 1 \in Int
      BY DEF TypeOK
    <3>3. k.pc = "create"
      BY <3>2, CreatingJob
    <3>4. job'[w] = k
      BY <1>2, <1>5, <1>11, <3>1 DEF Capture
    <3> QED
      BY <3>3, <3>4, IdleJob
  <2>2. gaps' = gaps
    BY <1>11 DEF Capture
  <2> QED
    BY <2>1, <2>2 DEF Reported, SameGap, GapFor
<1>12. CASE WriteGap(w)
  <2>1. GapFor(j) \in gaps'
    BY <1>12 DEF WriteGap
  <2>2. /\ GapFor(j).status = "open" /\ GapFor(j).question = j.question
        /\ GapFor(j).space = InSomeSpace(j.space)
    BY DEF GapFor
  <2> QED
    BY <2>1, <2>2
<1> QED
  BY <1>4, <1>6, <1>7, <1>8, <1>9, <1>10, <1>11, <1>12 DEF Serve

(* No answer of the model that cites nothing is dropped: when a request ends    *)
(* with one, without a fault, a repaired gap of its question is on record as    *)
(* met again in its conversation, or a gap of its question stands open in its   *)
(* space.  An answer without a source always has a reason, and so a weak state: *)
(* no path to the end of a request passes by both the detection and the capture *)
(* (experts.go:541, server.go:1768-1810, knowledge_phase14.go:241-276).         *)
THEOREM NoWeakAnswerIsDropped == Spec => WeakAnswersAreFollowedUp
<1> DEFINE FollowedUp ==
      \A w \in Workers :
        (WithoutSource(job[w]) /\ job'[w] = Idle /\ faults' = faults) =>
           \/ \E o \in recurrences' :
                /\ o.conversation = job[w].conversation
                /\ o.question = QuestionSummary(job[w].question)
                /\ o.space = job[w].space /\ o.reason = job[w].reason
           \/ \E gap \in gaps' :
                /\ gap.status = "open"
                /\ gap.question = job[w].question
                /\ gap.space = InSomeSpace(job[w].space)
<1>1. Init => ClassifiedInv
  <2> SUFFICES ASSUME Init, NEW w \in Workers PROVE Classified(job[w])
    BY DEF ClassifiedInv
  <2>1. job[w] = Idle /\ None # "llm"
    BY NoneAssumption DEF Init, Outcomes
  <2> QED
    BY <2>1, IdleJob DEF Classified, WithoutSource
<1>2. TypeOK /\ ClassifiedInv /\ [Next]_vars => ClassifiedInv'
  BY ClassifiedStays
<1>3. TypeOK /\ ClassifiedInv /\ [Next]_vars => [FollowedUp]_vars
  BY Followed
<1>4. Spec => []TypeOK
  BY TypeCorrect
<1>5. Spec => [][FollowedUp]_vars
  BY <1>1, <1>2, <1>3, <1>4, PTL DEF Spec
<1> QED
  BY <1>5 DEF WeakAnswersAreFollowedUp

-----------------------------------------------------------------------------
(* The audits behind gaps and recurrences                                      *)

(* An audit stays on file or becomes known as lost. *)
LEMMA MemoryGrows ==
  ASSUME [Next]_vars
  PROVE  audits \cup lost \subseteq audits' \cup lost'
<1>1. ASSUME NEW w \in Workers, WriteAudit(w)
      PROVE  audits \cup lost \subseteq audits' \cup lost'
  BY <1>1 DEF WriteAudit
<1>2. ASSUME NEW w \in Workers, RecordFails(w)
      PROVE  audits \cup lost \subseteq audits' \cup lost'
  BY <1>2 DEF RecordFails
<1>3. (audits' = audits /\ lost' = lost) \/ (\E w \in Workers : WriteAudit(w) \/ RecordFails(w))
  BY DEF Next, Serve, Ask, Deliver, Refuse, LoadAudits, Detect, Observe, DetectFails, Capture,
     LoadGaps, WriteGap, CaptureFails, ReviewDocument, UpdateGap, WriteEdit, Crash, vars
<1> QED
  BY <1>1, <1>2, <1>3

LEMMA StaysRemembered ==
  ASSUME [Next]_vars, NEW old, Remembers(old), NEW gap,
         gap.space = old.space, gap.question = old.question, gap.reason = old.reason
  PROVE  Remembers(gap)'
BY MemoryGrows DEF Remembers

LEMMA JobsRemember ==
  ASSUME TypeOK, MemoryInv, [Next]_vars, NEW u \in Workers
  PROVE  Remembered(job[u])'
<1> PICK j \in Job : j = job[u] /\ Remembered(j)
  BY DEF TypeOK, MemoryInv
<1> PICK k : k = job'[u]
  OBVIOUS
<1> SUFFICES /\ k.pc \in Later => AuditOf(k) \in audits' \cup lost'
             /\ k.pc = "matched" => k.state \in WeakForRepair
  BY DEF Remembered, AuditOf, AuditSpace
<1>0. job \in [Workers -> Job]
  BY DEF TypeOK
<1>same. \A i : SameAnswer(j, i) => AuditOf(i) = AuditOf(j)
  BY DEF SameAnswer, AuditOf, AuditSpace
<1>idle. CASE k = Idle
  BY <1>idle, IdleJob DEF Later
<1>1. CASE job'[u] = job[u]
  BY <1>1, MemoryGrows DEF Remembered
<1>2. CASE Serve(u) /\ k # Idle /\ k.pc \in Later
  <2>1. /\ j.pc \in {"answered", "auditing"} \cup Later
        /\ SameAnswer(j, k)
    BY <1>2, JobSteps DEF Moves, Later
  <2>2. AuditOf(k) = AuditOf(j)
    BY <2>1, <1>same
  <2>3. AuditOf(k) \in audits' \cup lost'
    <3>1. CASE j.pc \in Later
      BY <2>2, <3>1, MemoryGrows DEF Remembered
    <3>2. CASE j.pc \in {"answered", "auditing"}
      <4>1. ~LoadAudits(u)
        <5> SUFFICES ASSUME LoadAudits(u) PROVE FALSE
          OBVIOUS
        <5> PICK i : i = [j EXCEPT !.pc = "auditing", !.file = audits]
          OBVIOUS
        <5>1. k = i
          BY <1>0 DEF LoadAudits
        <5>2. audits \in Files
          BY DEF TypeOK, Files
        <5>3. i.pc = "auditing"
          BY <5>2 DEF Job
        <5> QED
          BY <1>2, <5>1, <5>3 DEF Later
      <4>2. WriteAudit(u) \/ RecordFails(u)
        BY <1>2, <3>2, <4>1, IdleJob DEF Serve, Ask, Deliver, Refuse, Detect, Observe,
           DetectFails, Capture, LoadGaps, WriteGap, CaptureFails
      <4>3. AuditOf(j) \in audits' \cup lost'
        BY <4>2 DEF WriteAudit, RecordFails
      <4> QED
        BY <2>2, <4>3
    <3> QED
      BY <2>1, <3>1, <3>2
  <2>4. ASSUME k.pc = "matched" PROVE k.state \in WeakForRepair
    <3>1. CASE Detect(u)
      <4>1. \/ k = [j EXCEPT !.pc = "capture"]
            \/ MayRecur(j)
        BY <1>0, <3>1 DEF Detect
      <4>2. CASE k = [j EXCEPT !.pc = "capture"]
        <5>1. k.pc = "capture"
          BY <4>2, MovedJob DEF Later
        <5> QED
          BY <2>4, <5>1
      <4> QED
        BY <2>1, <4>1, <4>2 DEF MayRecur, SameAnswer
    <3>2. CASE ~Detect(u)
      <4>1. \/ \E file \in Files : \/ k = [j EXCEPT !.pc = "auditing", !.file = file]
                                    \/ k = [j EXCEPT !.pc = "saving", !.file = file]
            \/ \E pc \in {"recorded", "capture"} : k = [j EXCEPT !.pc = pc, !.file = {}]
            \/ k = [j EXCEPT !.pc = "capture"]
            \/ k = [j EXCEPT !.pc = "create", !.number = created + 1]
            \/ k.pc \in {"asked", "answered"}
        <5>1. CASE Ask(u) \/ Deliver(u)
          BY <5>1, <1>2, <2>1, <2>4, IdleJob DEF Ask, Deliver, Later
        <5>2. CASE LoadAudits(u) \/ WriteAudit(u) \/ RecordFails(u) \/ LoadGaps(u)
          <6>1. gaps \in Files /\ audits \in Files
            BY DEF TypeOK, Files
          <6> QED
            BY <1>0, <5>2, <6>1 DEF LoadAudits, WriteAudit, RecordFails, LoadGaps
        <5>3. CASE DetectFails(u) \/ Capture(u)
          BY <1>0, <1>2, <5>3 DEF DetectFails, Capture
        <5>4. CASE Refuse(u) \/ Observe(u) \/ WriteGap(u) \/ CaptureFails(u)
          BY <1>0, <1>2, <5>4 DEF Refuse, Observe, WriteGap, CaptureFails
        <5> QED
          BY <1>2, <3>2, <5>1, <5>2, <5>3, <5>4 DEF Serve
      <4>2. k.pc # "matched"
        <5>1. created + 1 \in Int
          BY DEF TypeOK
        <5>2. "recorded" \in Later /\ "capture" \in Later
          BY DEF Later
        <5>3. ASSUME NEW file \in Files, \/ k = [j EXCEPT !.pc = "auditing", !.file = file]
                                          \/ k = [j EXCEPT !.pc = "saving", !.file = file]
              PROVE  k.pc # "matched"
          <6>1. CASE k = [j EXCEPT !.pc = "auditing", !.file = file]
            BY <6>1, AuditingJob
          <6>2. CASE k = [j EXCEPT !.pc = "saving", !.file = file]
            BY <6>2, SavingJob
          <6> QED
            BY <5>3, <6>1, <6>2
        <5>4. CASE \E pc \in {"recorded", "capture"} : k = [j EXCEPT !.pc = pc, !.file = {}]
          BY <5>2, <5>4, FiledJob
        <5>5. CASE k = [j EXCEPT !.pc = "capture"]
          BY <5>2, <5>5, MovedJob
        <5>6. CASE k = [j EXCEPT !.pc = "create", !.number = created + 1]
          BY <5>1, <5>6, CreatingJob
        <5> QED
          BY <2>4, <4>1, <5>3, <5>4, <5>5, <5>6
      <4> QED
        BY <2>4, <4>2
    <3> QED
      BY <3>1, <3>2
  <2> QED
    BY <2>3, <2>4
<1>3. job'[u] = job[u] \/ k = Idle \/ Serve(u)
  <2>1. \A w \in Workers : Serve(w) /\ w # u => job'[u] = job[u]
    BY JobSteps
  <2>2. Crash => k = Idle
    BY CrashTypes
  <2> QED
    BY <2>1, <2>2 DEF Next, vars, ReviewDocument, UpdateGap, WriteEdit
<1> QED
  BY <1>idle, <1>1, <1>2, <1>3 DEF Later

(* What a request holds of the gaps' file to write it back. *)
LEMMA FilesRemember ==
  ASSUME TypeOK, MemoryInv, [Next]_vars, NEW u \in Workers, NEW k, k = job'[u],
         k.pc = "saving", NEW gap \in k.file
  PROVE  Remembers(gap)'
<1> PICK j \in Job : j = job[u]
  BY DEF TypeOK
<1>0. job \in [Workers -> Job]
  BY DEF TypeOK
<1>1. CASE job'[u] = job[u]
  BY <1>1, StaysRemembered DEF MemoryInv
<1>2. CASE LoadGaps(u)
  <2> PICK i : i = [j EXCEPT !.pc = "saving", !.file = gaps]
    OBVIOUS
  <2>1. k = i
    BY <1>0, <1>2 DEF LoadGaps
  <2>2. gaps \in Files
    BY DEF TypeOK, Files
  <2>3. i.file = gaps
    BY <2>2, SavingJob
  <2> QED
    BY <2>1, <2>3, StaysRemembered DEF MemoryInv
<1>3. ASSUME job'[u] # job[u], ~LoadGaps(u) PROVE FALSE
  <2>1. k # Idle
    BY IdleJob
  <2>2. Serve(u)
    <3>1. \A w \in Workers : Serve(w) => w = u
      BY <1>3, JobSteps
    <3>2. ~Crash
      BY <2>1, CrashTypes
    <3> QED
      BY <1>3, <3>1, <3>2 DEF Next, vars, ReviewDocument, UpdateGap, WriteEdit
  <2>3. j.pc \in {"answered", "auditing"} \cup Later
    BY <2>1, <2>2, JobSteps DEF Moves
  <2>4. \/ \E file \in Files : k = [j EXCEPT !.pc = "auditing", !.file = file]
        \/ \E pc \in {"recorded", "capture"} : k = [j EXCEPT !.pc = pc, !.file = {}]
        \/ k = [j EXCEPT !.pc = "capture"]
        \/ k = [j EXCEPT !.pc = "create", !.number = created + 1]
        \/ \E id \in Int : k = [j EXCEPT !.pc = "matched", !.gap = id]
    <3>1. CASE Ask(u) \/ Deliver(u) \/ Refuse(u) \/ Observe(u) \/ WriteGap(u) \/ CaptureFails(u)
      BY <1>0, <2>1, <2>3, <3>1, IdleJob DEF Ask, Deliver, Refuse, Observe, WriteGap, CaptureFails, Later
    <3>2. CASE LoadAudits(u) \/ WriteAudit(u) \/ RecordFails(u)
      <4>1. audits \in Files
        BY DEF TypeOK, Files
      <4> QED
        BY <1>0, <3>2, <4>1 DEF LoadAudits, WriteAudit, RecordFails
    <3>3. CASE DetectFails(u) \/ Capture(u)
      BY <1>0, <2>1, <3>3 DEF DetectFails, Capture
    <3>4. CASE Detect(u)
      <4>1. \A g \in gaps : g.id \in Int
        BY DEF TypeOK, Gap
      <4> QED
        BY <1>0, <3>4, <4>1 DEF Detect, Repaired
    <3> QED
      BY <1>3, <2>2, <3>1, <3>2, <3>3, <3>4 DEF Serve
  <2>5. k.pc # "saving"
    <3>1. created + 1 \in Int
      BY DEF TypeOK
    <3>2. "recorded" \in Later /\ "capture" \in Later
      BY DEF Later
    <3>3. CASE \E file \in Files : k = [j EXCEPT !.pc = "auditing", !.file = file]
      BY <3>3, AuditingJob
    <3>4. CASE \E pc \in {"recorded", "capture"} : k = [j EXCEPT !.pc = pc, !.file = {}]
      BY <3>2, <3>4, FiledJob
    <3>5. CASE k = [j EXCEPT !.pc = "capture"] \/ k = [j EXCEPT !.pc = "create", !.number = created + 1]
      BY <3>1, <3>2, <3>5, MovedJob, CreatingJob
    <3>6. CASE \E id \in Int : k = [j EXCEPT !.pc = "matched", !.gap = id]
      BY <3>6, MatchedJob
    <3> QED
      BY <2>4, <3>3, <3>4, <3>5, <3>6
  <2> QED
    BY <2>5
<1> QED
  BY <1>1, <1>2, <1>3

LEMMA GapsAreRemembered ==
  ASSUME TypeOK, MemoryInv, [Next]_vars, NEW gap \in gaps'
  PROVE  Remembers(gap)'
<1>1. CASE gap \in gaps \/ gap \in edit
  BY <1>1, StaysRemembered DEF MemoryInv
<1>2. ASSUME NEW w \in Workers, WriteGap(w) PROVE Remembers(gap)'
  <2> PICK j \in Job : j = job[w] /\ Remembered(j)
    BY DEF TypeOK, MemoryInv
  <2>1. j.pc = "saving" /\ (gap \in j.file \/ gap = GapFor(j))
    BY <1>2 DEF WriteGap
  <2>2. CASE gap \in j.file
    BY <2>1, <2>2, StaysRemembered DEF MemoryInv
  <2>3. CASE gap = GapFor(j)
    <3>1. /\ gap.space = InSomeSpace(j.space) /\ gap.question = j.question
          /\ gap.reason = j.reason
      BY <2>3 DEF GapFor
    <3>2. AuditOf(j) \in audits \cup lost
      BY <2>1 DEF Remembered, Later
    <3>3. /\ AuditOf(j).question = QuestionSummary(j.question)
          /\ AuditOf(j).space = j.space /\ AuditOf(j).reason = j.reason
      BY DEF AuditOf, AuditSpace
    <3>4. Remembers(gap)
      BY <3>1, <3>2, <3>3 DEF Remembers, InSomeSpace, QuestionSummary
    <3> QED
      BY <3>4, StaysRemembered
  <2> QED
    BY <2>1, <2>2, <2>3
<1>3. gaps' = gaps \/ gaps' = edit \/ (\E w \in Workers : WriteGap(w))
  BY DEF Next, Serve, Ask, Deliver, Refuse, LoadAudits, WriteAudit, RecordFails, Detect, Observe,
     DetectFails, Capture, LoadGaps, CaptureFails, ReviewDocument, UpdateGap, WriteEdit, Crash, vars
<1> QED
  BY <1>1, <1>2, <1>3

LEMMA EditIsRemembered ==
  ASSUME TypeOK, MemoryInv, [Next]_vars, NEW gap \in edit'
  PROVE  Remembers(gap)'
<1>1. CASE gap \in edit
  BY <1>1, StaysRemembered DEF MemoryInv
<1>2. ASSUME NEW old \in gaps, NEW s \in GapStatuses, UpdateGap(old, s) PROVE Remembers(gap)'
  BY <1>2, EditedGap, StaysRemembered DEF MemoryInv
<1>3. edit' = edit \/ edit' = {} \/ (\E old \in gaps, s \in GapStatuses : UpdateGap(old, s))
  BY DEF Next, Serve, Ask, Deliver, Refuse, LoadAudits, WriteAudit, RecordFails, Detect, Observe,
     DetectFails, Capture, LoadGaps, WriteGap, CaptureFails, ReviewDocument, WriteEdit, Crash, vars
<1> QED
  BY <1>1, <1>2, <1>3

LEMMA MemoryStays == TypeOK /\ MemoryInv /\ [Next]_vars => MemoryInv'
<1> SUFFICES ASSUME TypeOK, MemoryInv, [Next]_vars PROVE MemoryInv'
  OBVIOUS
<1>1. (\A w \in Workers : Remembered(job[w]))'
  BY JobsRemember
<1>2. (\A gap \in gaps : Remembers(gap))'
  BY GapsAreRemembered DEF Remembers
<1>3. (\A gap \in edit : Remembers(gap))'
  BY EditIsRemembered DEF Remembers
<1>4. (\A w \in Workers : job[w].pc = "saving" => \A gap \in job[w].file : Remembers(gap))'
  BY FilesRemember DEF Remembers
<1> QED
  BY <1>1, <1>2, <1>3, <1>4 DEF MemoryInv

LEMMA MemoryStarts == Init => MemoryInv
<1> SUFFICES ASSUME Init PROVE MemoryInv
  OBVIOUS
<1>1. \A w \in Workers : job[w] = Idle
  BY DEF Init
<1>2. \A w \in Workers : Remembered(job[w]) /\ job[w].pc # "saving"
  BY <1>1, IdleJob DEF Remembered, Later
<1>3. ASSUME NEW gap \in gaps PROVE Remembers(gap)
  <2>1. gap \in Backlog /\ AnswerTo(gap) \in audits
    BY DEF Init
  <2>2. /\ AnswerTo(gap).question = QuestionSummary(gap.question)
        /\ AnswerTo(gap).space = gap.space /\ AnswerTo(gap).reason = gap.reason
    BY DEF AnswerTo
  <2> QED
    BY <2>1, <2>2 DEF Remembers, QuestionSummary
<1> QED
  BY <1>2, <1>3 DEF MemoryInv, Init

LEMMA InboxFollows == TypeOK /\ MemoryInv => InboxKnowsTheAnswers
<1> SUFFICES ASSUME TypeOK, MemoryInv, NEW gap \in gaps, gap.space # DefaultSpace
             PROVE  /\ \/ gap.question \in Long
                       \/ \E audit \in audits \cup lost : Matches(gap, TimelineItem(audit))
                    /\ \A audit \in audits :
                         gap \in MatchTimelineGap(TimelineItem(audit)) => Matches(gap, TimelineItem(audit))
  BY DEF InboxKnowsTheAnswers
<1>1. Remembers(gap)
  BY DEF MemoryInv
<1>2. \A audit : /\ TimelineItem(audit).question = audit.question
                 /\ TimelineItem(audit).space = audit.space
                 /\ TimelineItem(audit).reason = audit.reason
  BY DEF TimelineItem
<1>3. \A item : gap \in MatchTimelineGap(item) => Matches(gap, item)
  BY DEF MatchTimelineGap, InSomeSpace, Matches
<1> QED
  BY <1>1, <1>2, <1>3 DEF Remembers, Matches

LEMMA MemoryKept == Spec => []MemoryInv
<1>1. Init => MemoryInv
  BY MemoryStarts
<1>2. TypeOK /\ MemoryInv /\ [Next]_vars => MemoryInv'
  BY MemoryStays
<1>3. Spec => []TypeOK
  BY TypeCorrect
<1> QED
  BY <1>1, <1>2, <1>3, PTL DEF Spec

(* The inbox knows an answer behind every gap of a named space, but for long    *)
(* questions and for audits that were not saved or dropped by another's save,   *)
(* and counts the answers the timeline links to the gap: the audit is written   *)
(* before the gap is looked for, an audit leaves the file only by a save beside *)
(* it, and what identifies a gap never changes, in the file or in what others   *)
(* loaded of it (server.go:1737, 1768, 1831, audit_file_store.go:18).           *)
THEOREM InboxRemembers == Spec => []InboxKnowsTheAnswers
<1>1. TypeOK /\ MemoryInv => InboxKnowsTheAnswers
  BY InboxFollows
<1> QED
  BY <1>1, TypeCorrect, MemoryKept, PTL

LEMMA RecurrencesFollow ==
  TypeOK /\ MemoryInv /\ RecurrencesHaveAnswers /\ [Next]_vars => RecurrencesHaveAnswers'
<1> SUFFICES ASSUME TypeOK, MemoryInv, RecurrencesHaveAnswers, [Next]_vars, NEW o \in recurrences'
             PROVE  \E audit \in audits' \cup lost' :
                      /\ audit.conversation = o.conversation /\ audit.question = o.question
                      /\ audit.space = o.space /\ audit.reason = o.reason
                      /\ audit.state \in WeakForRepair
  BY DEF RecurrencesHaveAnswers
<1>1. CASE o \in recurrences
  BY <1>1, MemoryGrows DEF RecurrencesHaveAnswers
<1>2. ASSUME NEW w \in Workers, Observe(w), o \notin recurrences
      PROVE  \E audit \in audits' \cup lost' :
               /\ audit.conversation = o.conversation /\ audit.question = o.question
               /\ audit.space = o.space /\ audit.reason = o.reason
               /\ audit.state \in WeakForRepair
  <2> PICK j : j = job[w]
    OBVIOUS
  <2>1. j.pc = "matched" /\ o = Observation(j)
    BY <1>2 DEF Observe
  <2>2. AuditOf(j) \in audits \cup lost /\ j.state \in WeakForRepair
    BY <2>1 DEF MemoryInv, Remembered, Later
  <2>3. /\ AuditOf(j).conversation = o.conversation /\ AuditOf(j).question = o.question
        /\ AuditOf(j).space = o.space /\ AuditOf(j).reason = o.reason
        /\ AuditOf(j).state = j.state
    BY <2>1 DEF AuditOf, AuditSpace, Observation
  <2> QED
    BY <2>2, <2>3, MemoryGrows
<1>3. recurrences' = recurrences \/ (\E w \in Workers : Observe(w))
  BY DEF Next, Serve, Ask, Deliver, Refuse, LoadAudits, WriteAudit, RecordFails, Detect,
     DetectFails, Capture, LoadGaps, WriteGap, CaptureFails, ReviewDocument, UpdateGap, WriteEdit,
     Crash, vars
<1> QED
  BY <1>1, <1>2, <1>3

(* Each recurrence counted has the weak answer that made it count under the     *)
(* audit it names, on file or known to have been dropped: a request is matched  *)
(* to a repaired gap only after its audit was written and only when its answer  *)
(* was classified as weak (server.go:1737, 1768,                                *)
(* knowledge_recurrence_service.go:44-74).                                      *)
THEOREM RecurrencesAreAnswered == Spec => []RecurrencesHaveAnswers
<1>1. Init => RecurrencesHaveAnswers
  BY DEF Init, RecurrencesHaveAnswers
<1>2. TypeOK /\ MemoryInv /\ RecurrencesHaveAnswers /\ [Next]_vars => RecurrencesHaveAnswers'
  BY RecurrencesFollow
<1> QED
  BY <1>1, <1>2, TypeCorrect, MemoryKept, PTL DEF Spec
=============================================================================
