------------------------------ MODULE Retrieval ------------------------------
(* The search of internal/knowledge: which chunks of which documents an answer  *)
(* may cite, in which order, and the reason given when there are none.  Pure    *)
(* functions of the documents loaded and of the request.                        *)
(*                                                                              *)
(* Documents are a function from IDs (numbers: their order breaks ties) to      *)
(* records with status, review, space and chunks, a sequence of texts; a text   *)
(* and a query are sequences of words.                                          *)
EXTENDS Ordering, SequencesExt, FiniteSetsExt

CONSTANT None   \* no space selected, no reason

(* Why a search has no result. *)
Reasons == {"query_empty", "no_ready_documents", "no_review_active_documents",
            "below_threshold", "review_gated_documents", "vector_unavailable",
            "vector_failed", "no_matching_chunks"}

ASSUME ReasonsAssumption == None \notin Reasons

Eligible == {"", "active"}   \* the review statuses a document is retrieved with

ReadyDocuments(docs) == {d \in DOMAIN docs : docs[d].status = "ready"}

GatedUnread(docs, D) == {d \in D : docs[d].review = "rejected"}   \* mutant: pending ones are let through
Gated(docs, D) == {d \in D : docs[d].review \notin Eligible}

ReviewActive(docs, D) == D \ Gated(docs, D)

InSpace(docs, D, space) == {d \in D : space = None \/ docs[d].space = space}

Chunks(docs, D) == UNION {{<<d, n>> : n \in DOMAIN docs[d].chunks} : d \in D}

-----------------------------------------------------------------------------
(* The lexical stage                                                           *)

ContainsPhrase(text, query) ==
  \E i \in 0..(Len(text) - Len(query)) : SubSeq(text, i + 1, i + Len(query)) = query

(* One for each word of the query in the text, two for the whole query.  (The   *)
(* two more of a Chinese query change no order: such a text has every word.)    *)
ScoreChunk(text, query) ==
  Cardinality({i \in DOMAIN query : query[i] \in Range(text)})
    + (IF ContainsPhrase(text, query) THEN 2 ELSE 0)

(* Higher scores first, then document IDs, then the chunks' order. *)
Before(score, a, b) ==
  \/ score[a] > score[b]
  \/ score[a] = score[b] /\ a[1] < b[1]
  \/ score[a] = score[b] /\ a[1] = b[1] /\ a[2] < b[2]

ByScore(score) == {p \in (DOMAIN score) \X (DOMAIN score) : Before(score, p[1], p[2])}

Ranked(score) == Ordered(DOMAIN score, ByScore(score))

(* Retriever.Search: the scores of the best chunks. *)
LexicalSearch(docs, D, query, limit) ==
  LET score == [c \in Chunks(docs, D) |-> ScoreChunk(docs[c[1]].chunks[c[2]], query)]
      hits  == [c \in {h \in DOMAIN score : score[h] > 0} |-> score[c]]
  IN  [c \in Range(FirstFew(Ranked(hits), limit)) |-> score[c]]

-----------------------------------------------------------------------------
(* Pipeline.Search.  vector.state is "absent" (no index), "failed" or "ok", with *)
(* the scores the index has for chunks.                                         *)

NothingFound == [c \in {} |-> 0]

NoIndex == [state |-> "absent", scores |-> NothingFound]

VectorSearch(docs, D, vector, limit) ==
  IF vector.state # "ok" THEN NothingFound
  ELSE LET known == [c \in DOMAIN vector.scores \cap Chunks(docs, D) |-> vector.scores[c]]
       IN  [c \in Range(FirstFew(Ranked(known), limit)) |-> known[c]]

ScoreIn(found, c) == IF c \in DOMAIN found THEN found[c] ELSE 0

Fused(lexical, vectored) ==
  LET total == [c \in DOMAIN lexical \cup DOMAIN vectored |->
                  ScoreIn(lexical, c) + ScoreIn(vectored, c)]
  IN  [c \in {h \in DOMAIN total : total[h] > 0} |-> total[c]]

NoSource(reason, gated) == [results |-> << >>, reason |-> reason, gated |-> gated]

ReasonForNone(docs, gated, request, vector) ==
  CASE DOMAIN LexicalSearch(docs, gated, request.query, 1) # {} -> "review_gated_documents"
    [] request.mode = "vector" /\ vector.state = "absent"       -> "vector_unavailable"
    [] request.mode = "vector" /\ vector.state = "failed"       -> "vector_failed"
    [] OTHER                                                    -> "no_matching_chunks"

Search(docs, request, vector) ==
  LET limit == IF request.limit = 0 THEN 3 ELSE request.limit
      ready == ReadyDocuments(docs)
      gated == InSpace(docs, Gated(docs, ready), request.space)
      open  == InSpace(docs, ReviewActive(docs, ready), request.space)
      lexical  == IF request.mode = "vector" THEN NothingFound
                  ELSE LexicalSearch(docs, open, request.query, limit)
      vectored == IF request.mode = "lexical" THEN NothingFound
                  ELSE VectorSearch(docs, open, vector, limit)
      fused  == Fused(lexical, vectored)
      passed == {c \in DOMAIN fused : fused[c] >= request.minScore}
      count  == Cardinality(gated)
  IN  CASE request.query = << >> -> NoSource("query_empty", 0)
        [] request.query # << >> /\ ready = {} -> NoSource("no_ready_documents", count)
        [] request.query # << >> /\ ready # {} /\ open = {} ->
             NoSource("no_review_active_documents", count)
        [] OTHER ->
             IF request.minScore > 0 /\ passed = {} THEN NoSource("below_threshold", count)
             ELSE IF passed = {}
               THEN NoSource(ReasonForNone(docs, gated, request, vector), count)
             ELSE [results |-> FirstFew(Ranked([c \in passed |-> fused[c]]), limit),
                   reason  |-> None, gated |-> count]
=============================================================================
