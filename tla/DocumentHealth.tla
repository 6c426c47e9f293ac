----------------------------- MODULE DocumentHealth -----------------------------
(* What the console says of the knowledge on file (internal/admin): the health  *)
(* of a space, the quality flags and the gaps of a document, and the citation   *)
(* test.  Pure functions of the documents and gaps loaded; the search itself is *)
(* in Retrieval.                                                                *)
(*                                                                              *)
(* A document also has hash (of its content), vector (the state of its index),  *)
(* errored, labelled, short (its first chunk has less than 32 bytes) and        *)
(* sourceGap; a gap has space and resolvedBy.                                   *)
EXTENDS Retrieval

ListBySpace(docs, space) == {d \in DOMAIN docs : docs[d].space = space}

(* The names of the concerns that apply. *)
Raised(concern) == {name \in DOMAIN concern : concern[name]}

-----------------------------------------------------------------------------
(* HealthSummary: status is the space's. *)

StatusCount(docs, D, status) == Cardinality({d \in D : docs[d].status = status})

AttentionReasons(docs, D, status) ==
  Raised([space_not_active              |-> status \in {"disabled", "archived"},
          failed_documents_present      |-> StatusCount(docs, D, "failed") > 0,
          non_ready_documents_present   |-> \E d \in D : docs[d].status \notin {"ready", "disabled", "failed"},
          vector_index_failures_present |-> \E d \in D : docs[d].vector = "failed",
          no_active_documents           |-> StatusCount(docs, D, "ready") = 0])

(* An empty space is called empty even when it is closed. *)
HealthStatus(reasons) ==
  CASE "no_active_documents" \in reasons -> "empty"
    [] reasons \cap {"no_active_documents", "space_not_active"} = {"space_not_active"} -> "disabled"
    [] reasons = {} -> "healthy"
    [] OTHER -> "needs_attention"

HealthSummary(docs, space, status) ==
  LET D == ListBySpace(docs, space)
      reasons == AttentionReasons(docs, D, status)
  IN  [status |-> HealthStatus(reasons), reasons |-> reasons,
       active |-> StatusCount(docs, D, "ready"), disabled |-> StatusCount(docs, D, "disabled"),
       failed |-> StatusCount(docs, D, "failed"),
       chunks |-> Cardinality(Chunks(docs, D))]

-----------------------------------------------------------------------------
(* DocumentDetail *)

QualityFlags(docs, d) ==
  LET doc == docs[d]
  IN  Raised([disabled             |-> doc.status = "disabled",
              document_failed      |-> doc.status = "failed",
              review_gated         |-> doc.review \notin Eligible,
              no_chunks            |-> doc.chunks = << >>,
              missing_source_label |-> ~doc.labelled,
              short_content        |-> doc.chunks # << >> /\ doc.short,
              vector_missing       |-> doc.vector = "missing",
              index_failed         |-> doc.vector = "failed",
              last_error_present   |-> doc.errored,
              duplicate_content_hash |->
                \E e \in ListBySpace(docs, doc.space) \ {d} : docs[e].hash = doc.hash])

Relations(docs, d, gaps) ==
  LET listed == {g \in DOMAIN gaps : gaps[g].space = docs[d].space}
  IN  [source   |-> {g \in listed : g = docs[d].sourceGap},
       resolved |-> {g \in listed : gaps[g].resolvedBy = d}]

DocumentDetail(docs, d, gaps) ==
  [flags |-> QualityFlags(docs, d), relations |-> Relations(docs, d, gaps)]

-----------------------------------------------------------------------------
(* CitationTest: the first chunk, in the store's order, that has the whole      *)
(* query; << >> when there is none.                                             *)

CitationTest(docs, query) ==
  LET open == ReviewActive(docs, ReadyDocuments(docs))
      hits == {c \in Chunks(docs, open) : ContainsPhrase(docs[c[1]].chunks[c[2]], query)}
  IN  IF hits = {} THEN << >>
      ELSE <<CHOOSE c \in hits : \A x \in hits : c[1] < x[1] \/ (c[1] = x[1] /\ c[2] <= x[2])>>
=============================================================================
