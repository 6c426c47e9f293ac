----------------------------- MODULE MCAlgorithms -----------------------------
(* The pure algorithms of the program on every input of small sets.            *)
EXTENDS KnowledgeQueries, QualityQueries, TurnQueries, TLC

Init ==
  Choosing({"window", "search", "inbox", "release", "trends", "reviews", "turn"})

SeqsUpTo(S, n) == UNION {[1..k -> S] : k \in 0..n}

-----------------------------------------------------------------------------
(* The model window *)

(* What a system message costs is not asked. *)
SmallMessages == [role : {"user", "assistant"}, cost : 0..2] \cup [role : {"system"}, cost : {0}]

CostOf == [m \in SmallMessages |-> m.cost]

-----------------------------------------------------------------------------
(* Retrieval *)

Texts == {<<"a">>, <<"b">>, <<"a", "b">>}

Document == [status : {"ready", "failed"}, review : {"", "pending_review", "rejected"},
             space : {"default", "product"}, chunks : {<< <<"a">> >>, << <<"b">>, <<"a", "b">> >>}]

SearchRequest == [query : {<< >>, <<"a">>, <<"b", "a">>}, mode : {"lexical", "vector", "hybrid"},
                  limit : {0, 1}, space : {None, "default"}, minScore : {0, 2}]

Vectors == {NoIndex, [NoIndex EXCEPT !.state = "failed"],
            [state |-> "ok", scores |-> <<1, 1>> :> 1 @@ <<2, 1>> :> 3]}

(* A search asks neither the review of a document that is not ready nor, when it  *)
(* is lexical, the index: one of each is enough.                                  *)
Shelved == {d \in Document : d.status = "failed" => d.review = ""}

SmallSearches ==
  {x \in [docs : [1..2 -> Shelved], request : SearchRequest, vector : Vectors] :
     x.request.mode = "lexical" => x.vector = NoIndex}

-----------------------------------------------------------------------------
(* The repair inbox *)

Gap == [status : {"open", "resolved", "ignored"}, updated : {1, 2},
        reason : {"no_matching_chunks", "review_gated_documents"}]

GapOf(g, x) ==
  [status |-> x.status, reason |-> x.reason, updated |-> x.updated, resolvedBy |-> None,
   question |-> IF g = 1 THEN "q1" ELSE "q2", space |-> "default"]

Sighting(question, state, at) ==
  [space |-> "default", question |-> question, state |-> state, at |-> at,
   reason |-> "no_matching_chunks"]

Timelines == {<< >>, <<Sighting("q1", "unsupported", 3)>>,
              <<Sighting("q2", "review_gated", 4), Sighting("q2", "unsupported", 1)>>}

Linked == {[d \in {} |-> None], [d \in {"d1"} |-> [space |-> "default", sourceGap |-> 2]]}

Unpromoted == [promoted |-> FALSE, verification |-> "none", result |-> "none", recurrence |-> "none"]

InboxFilter == [space : {"default"}, status : {"", "open"}, reason : {""}, unresolvedOnly : {FALSE},
                linkedOnly : {FALSE}, weakOnly : BOOLEAN, limit : {0, 1, 2}]

(* The third gap is not newer than the others, and waits for no review; one that *)
(* is ignored ranks as one that is resolved.                                     *)
ThirdGap == {z \in Gap : /\ z.updated = 1 /\ z.status # "ignored"
                         /\ z.reason = "no_matching_chunks"}

SmallInboxes ==
  {[gaps |-> <<GapOf(1, x), GapOf(2, y), GapOf(3, z)>>, timeline |-> t, documents |-> d,
    records |-> [g \in 1..3 |-> Unpromoted], filter |-> f] :
     x \in Gap, y \in Gap, z \in ThirdGap, t \in Timelines, d \in Linked, f \in InboxFilter}

-----------------------------------------------------------------------------
(* Evaluations and the release gate *)

(* What a case may expect of each check, and an output that meets or fails it. *)
Expectation ==
  [persona |-> [disclose |-> TRUE, forbidden |-> {"guarantee"}],
   rag     |-> [citations |-> {<<1, 1>>}, space |-> None, support |-> None, documents |-> {},
                unsupported |-> FALSE],
   tools   |-> {[name |-> "call", allowed |-> FALSE]},
   memory  |-> [write |-> TRUE],
   safety  |-> "allow",
   tenant  |-> [forbidden |-> {"other"}]]

Good ==
  [Silent EXCEPT !.says = {"ai"}, !.citations = {<<1, 1>>}, !.writes = <<TRUE>>, !.action = "allow",
                 !.calls = <<[name |-> "call", allowed |-> FALSE, executed |-> FALSE]>>]

Bad == [Good EXCEPT !.says = {"ai", "guarantee"}, !.citations = {}, !.writes = <<FALSE>>,
                    !.action = "block", !.tokens = TokenBudget + 1, !.touched = {"other"},
                    !.calls = <<[name |-> "call", allowed |-> TRUE, executed |-> TRUE]>>]

EvalCase(id, checks, required, output) ==
  [id |-> id, wellFormed |-> TRUE, required |-> required, promotion |-> None, output |-> output,
   expected |-> [k \in checks |-> Expectation[k]]]

OneCheck == {{k} : k \in DOMAIN Expectation}

Single == {EvalCase("c1", e, r, o) : e \in OneCheck \cup {{}},
                                     r \in OneCheck \cup {{}, {"cost_performance"}}, o \in {Good, Bad}}

Paired == {EvalCase(id, e, {"tools"}, o) : id \in {"c1", "c2"}, e \in {{}, {"tools"}}, o \in {Good, Bad}}

Malformed == [EvalCase("c1", {}, {}, Good) EXCEPT !.wellFormed = FALSE]

Files == {<< >>, <<Malformed>>} \cup {<<c>> : c \in Single} \cup {<<c, d>> : c, d \in Paired}

Revision(case, n, support, documents) ==
  [case |-> case, revision |-> n, active |-> TRUE, question |-> <<"a">>, space |-> "default", support |-> support, documents |-> documents]

(* The third of three is left out, by its number or by its place. *)
Revisions == {<< >>, <<Revision("p1", 1, "grounded", {1})>>, <<Revision("p1", 1, None, {})>>,
              <<Revision("c1", 1, "grounded", {})>>,
              <<Revision("p1", 1, "grounded", {1}), Revision("p2", 1, "partially_supported", {})>>,
              <<Revision("p1", 1, "grounded", {1}), Revision("p2", 2, None, {}), Revision("p3", 2, None, {})>>,
              <<[Revision("p1", 1, "grounded", {2}) EXCEPT !.active = FALSE], Revision("p1", 2, None, {}),
                Revision("p2", 1, None, {}), Revision("p3", 1, "grounded", {1})>>}

Libraries == {[readable |-> TRUE, library |-> <<d>>] : d \in Document}
               \cup {[readable |-> FALSE, library |-> << >>]}

SmallReleases ==
  {[files |-> f, revisions |-> r, docs |-> d] : f \in Files, r \in Revisions, d \in Libraries}

-----------------------------------------------------------------------------
(* Quality trends *)

SpaceOf(g) == IF g = 2 THEN 2 ELSE 1

QualityGaps ==
  [g \in 1..7 |-> [space |-> SpaceOf(g), created |-> 2 * g, status |-> "resolved",
                   verification |-> IF g = 1 THEN "stale" ELSE "verified"]]

(* Nothing given, no day, a day, one week, a day more, two weeks, the most days
   accepted, one more, and one end only. *)
Windows == {<<NoDay, NoDay>>, <<50, 49>>, <<50, 50>>, <<50, 56>>, <<50, 57>>, <<50, 63>>,
            <<50, 139>>, <<50, 140>>, <<50, NoDay>>}

Today == 100

(* Just before and at the window's start, its second week and its end. *)
Edge(f, edge) ==
  CASE edge[1] = "start" -> Midnight(f.start) - edge[2]
    [] edge[1] = "week"  -> Midnight(f.start + 7) - edge[2]
    [] OTHER             -> Midnight(f.end) - edge[2]

Observation(g, status, at) ==
  [id |-> <<g, status, at>>, case |-> g, gap |-> g, space |-> SpaceOf(g), status |-> status, at |-> at]

Sightings == [gap : {1}, status : Statuses, edge : {"start", "week", "end"} \X {0, 1}]
               \cup [gap : {2}, status : {"failed"}, edge : {"start"} \X {0, 1}]

Attempts(f) ==
  [g \in 1..4 |-> [id |-> g, gap |-> g, space |-> SpaceOf(g), result |-> "passed",
                   completed |-> Midnight(f.start) + g - 1]]

Recurrences(f) ==
  [g \in 1..7 |-> [id |-> g, gap |-> g, space |-> SpaceOf(g), occurrences |-> 1 + (g % 3),
                   status |-> IF g < 3 THEN "confirmed" ELSE "suspected",
                   created |-> Midnight(f.start) + (g % 2)]]

QuestionOf(w, s, seen, busy) ==
  LET f == ParseFilter(w[1], w[2], s, Today, "utc")
  IN  [from |-> w[1], to |-> w[2], space |-> s, today |-> Today, zone |-> "utc",
       sources |->
         [gaps         |-> QualityGaps,
          attempts     |-> IF busy THEN Attempts(f) ELSE << >>,
          recurrences  |-> IF busy THEN Recurrences(f) ELSE << >>,
          observations |-> [i \in DOMAIN seen |-> Observation(seen[i].gap, seen[i].status,
                                                              Edge(f, seen[i].edge))]]]

SmallTrends ==
  {QuestionOf(w, s, seen, busy) :
     w \in Windows, <<s, busy>> \in {<<AllSpaces, FALSE>>, <<AllSpaces, TRUE>>, <<1, TRUE>>},
     seen \in SeqsUpTo(Sightings, 2)}

-----------------------------------------------------------------------------
(* The history of quality reviews *)

(* Trends of one gap with a number of passed evaluations. *)
TrendsOf(n) ==
  LET f == Filter(60, 61, AllSpaces, "utc")
  IN  [sources |-> [gaps |-> [g \in {1} |-> QualityGaps[g]], attempts |-> << >>, recurrences |-> << >>,
                    observations |-> [i \in 1..n |-> Observation(1, "passed", Midnight(f.start))]],
       filter  |-> f]

FewSamples == TrendsOf(MinSample - 1)

EnoughSamples == TrendsOf(MinSample)

SmallReviewed == {FewSamples, EnoughSamples}

(* One review of an ID, or none; the third is of the space that is asked for, and
   only the first may be of another timezone. *)
Scopes(id) ==
  {<<AllSpaces, "utc">>} \cup (IF id = 3 THEN {} ELSE {<<1, "utc">>})
                         \cup (IF id = 1 THEN {<<AllSpaces, "local">>} ELSE {})

PerhapsReviewed(id) ==
  LET trends   == IF id = 2 THEN FewSamples ELSE EnoughSamples
      snapshot == Snapshot(Project(trends.sources, trends.filter))
  IN  {<< >>} \cup {<<[id |-> id, at |-> at, filter |-> Filter(end - days, end, scope[1], scope[2]),
                      snapshot |-> snapshot]>> :
                      at \in {1, 2}, end \in 60..62, days \in {1, 2},
                      scope \in Scopes(id)}

SmallHistories ==
  {[space |-> AllSpaces, records |-> a \o b \o c] :
     a \in PerhapsReviewed(1), b \in PerhapsReviewed(2), c \in PerhapsReviewed(3)}

SmallPages == [limit : {1, 20}, excluded : {0, 1}]

-----------------------------------------------------------------------------
(* The experience of a turn *)

Agent(name, handles, streams) == [name |-> name, handles |-> handles, streams |-> streams]

Roster ==
  FoldLeft(Register, << >>,
    <<Agent("knowledge-agent", "knowledge_query", FALSE), Agent("memory-agent", "memory_recall", FALSE),
      Agent("persona-agent", "persona_chat", TRUE), Agent("safety-agent", "safety_check", FALSE),
      Agent("task-agent", "task_execution", FALSE), Agent("tool-agent", "tool_call", FALSE)>>)

SmallRosters == {Roster, SubSeq(Roster, 2, 6)}

SmallReplies ==
  {[kind |-> "no_router"], [kind |-> "malformed"]}
  \cup {[kind |-> "intent", name |-> n, confidence |-> c] :
          <<n, c>> \in {<<"tool_call", 4>>, <<"tool_call", 5>>, <<"tool_call", 11>>, <<"gossip", 9>>}}

(* Any of up to two characters, and longer ones of sentences and blanks. *)
Answers ==
  SeqsUpTo({"word", Blank, Stop}, 2)
    \cup {<<Blank, "word", Blank>>, <<"word", Stop, Blank>>, <<Stop, Blank, Stop>>,
          <<"word", Stop, "word">>, <<"word", Blank, "word", Stop, "word">>}

Streamed(t) == IF t = << >> THEN << >> ELSE <<Front(t), <<Last(t)>> >>

(* What an agent returns: the text it streamed, or a fallback without any. *)
SmallRuns ==
  LET Return(t, d, o, c) ==
        [start |-> "begun", result |-> t, deltas |-> d, outcome |-> o, committed |-> c]
  IN  UNION {{Return(t, d, "ok", c) : d \in {<< >>, Streamed(t)}, c \in BOOLEAN} : t \in Answers}
        \cup {Return(t, Streamed(t), o, FALSE) : t \in Answers, o \in {"canceled", "failed", "panicked"}}
        \cup {[Return(<<"word">>, << >>, "ok", TRUE) EXCEPT !.start = s] : s \in {"refused", "not_begun"}}

(* With every pose supported, one fallback is as good as another. *)
SmallFaces ==
  {[machine |-> m, voice |-> v] :
     m \in {x \in [supported : {Poses, {"idle", "speaking"}}, fallback : {"idle", "thinking"}] :
              ValidManifest(x) /\ (x.supported = Poses => x.fallback = "thinking")},
     v \in {"none", "ok", "failing"}}

Next ==
  \/ TakeTranscript \/ AddMessage \/ AskSearch \/ OpenInbox \/ ProposeRelease
  \/ ProjectTrends \/ ListReviews \/ ShowTurn

Spec == Init /\ [][Next]_called
=============================================================================
