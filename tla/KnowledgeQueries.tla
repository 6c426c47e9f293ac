--------------------------- MODULE KnowledgeQueries ---------------------------
(* The three questions asked of the knowledge on file, on any input: a search  *)
(* (beside what the console says of the same documents), a page of the repair  *)
(* inbox, and whether a release is permitted.  A behaviour picks one input; the *)
(* invariants compare what the code answers with what it promises.             *)
EXTENDS DocumentHealth, RepairInbox, ReleaseChecks, AlgorithmInput

CONSTANTS Searches, Inboxes, Releases   \* the inputs of each

(* Finitely many documents, numbered in the order of their IDs. *)
IsLibrary(docs) ==
  /\ DOMAIN docs \subseteq Nat /\ IsFiniteSet(DOMAIN docs)
  /\ \A d \in DOMAIN docs : IsSequence(docs[d].chunks)

IsSearch(x) ==
  /\ IsLibrary(x.docs)
  /\ IsSequence(x.request.query) /\ x.request.limit \in Nat /\ x.request.minScore \in Nat
  /\ x.vector.scores \in [DOMAIN x.vector.scores -> Nat]

IsInbox(x) ==
  /\ DOMAIN x.gaps \subseteq Nat /\ IsFiniteSet(DOMAIN x.gaps)
  /\ IsSequence(x.timeline)
  /\ \A g \in DOMAIN x.gaps : x.gaps[g].updated \in Nat
  /\ \A n \in DOMAIN x.timeline : x.timeline[n].at \in Nat
  /\ x.filter.limit \in Nat

(* A promoted repair names its space and asks for support, or for none. *)
IsRevision(r) ==
  /\ r # None /\ r.space # None
  /\ r.support \in {None, "partially_supported", "grounded"}
  /\ IsSequence(r.question)
  /\ r.revision \in Nat /\ r.active \in BOOLEAN

IsRelease(x) ==
  /\ IsSequence(x.files) /\ IsSequence(x.revisions)
  /\ \A r \in Range(x.revisions) : IsRevision(r)
  /\ IsLibrary(x.docs.library)

ASSUME InputsAssumption ==
  /\ \A x \in Searches : IsSearch(x)
  /\ \A x \in Inboxes : IsInbox(x)
  /\ \A x \in Releases : IsRelease(x)

AskSearch == Choosing({"search"}) /\ \E x \in Searches : Take("search", x)

OpenInbox == Choosing({"inbox"}) /\ \E x \in Inboxes : Take("inbox", x)

ProposeRelease == Choosing({"release"}) /\ \E x \in Releases : Take("release", x)

Queries ==
  Choosing({"search", "inbox", "release"}) /\ [][AskSearch \/ OpenInbox \/ ProposeRelease]_called

-----------------------------------------------------------------------------
(* Search *)

(* The documents as the console describes them. *)
Described(docs) ==
  [d \in DOMAIN docs |->
     [status |-> docs[d].status, review |-> docs[d].review, space |-> docs[d].space,
      chunks |-> docs[d].chunks, hash |-> docs[d].chunks, vector |-> "missing",
      errored |-> FALSE, labelled |-> TRUE, short |-> TRUE, sourceGap |-> None]]

ScoreOf(docs, c, query) == ScoreChunk(docs[c[1]].chunks[c[2]], query)

Usable(docs, space) ==
  {d \in DOMAIN docs : docs[d].status = "ready" /\ space \in {None, docs[d].space}}

(* What a search answers with may be cited (its document is ready, reviewed and
   in the space asked), a lexical search leaves nothing better out, and a search
   that finds nothing says why; "no matching chunks" only if no document of the
   space has a word of the query, reviewed or not.  The console agrees: no
   document cited is flagged as closed, the reasons "not ready" and "not reviewed"
   are what health and flags show, and what the citation test finds a search of
   all spaces finds, unless its threshold is above the two points that a whole
   query gives (Pipeline.Search, HealthSummary, DocumentDetail, CitationTest). *)
SearchAnswersAsked ==
  algorithm = "search" =>
    LET docs   == input.docs
        r      == input.request
        found  == Search(docs, r, input.vector)
        usable == Usable(docs, r.space)
        given  == Range(found.results)
        described == Described(docs)
        flags(d)  == DocumentDetail(described, d, << >>).flags
    IN  /\ (found.results = << >>) <=> (found.reason # None)
        /\ \A c \in given : c[1] \in usable /\ docs[c[1]].review \in Eligible
        /\ r.mode = "lexical" =>
             \A c \in given, x \in Chunks(docs, {d \in usable : docs[d].review \in Eligible}) \ given :
                ScoreOf(docs, c, r.query) >= ScoreOf(docs, x, r.query)
        /\ found.reason = "no_matching_chunks" /\ r.mode # "vector" =>
             \A x \in Chunks(docs, usable) : ScoreOf(docs, x, r.query) = 0
        /\ \A c \in given : flags(c[1]) \cap {"disabled", "document_failed", "review_gated", "no_chunks"} = {}
        /\ found.reason = "no_ready_documents" =>
             \A d \in DOMAIN docs : HealthSummary(described, docs[d].space, "active").status = "empty"
        /\ found.reason = "no_review_active_documents" => \A d \in usable : "review_gated" \in flags(d)
        /\ r.mode = "lexical" /\ r.space = None /\ r.minScore <= 2 /\ r.query # << >> =>
             (CitationTest(docs, r.query) # << >> => found.results # << >>)

-----------------------------------------------------------------------------
(* The repair inbox *)

WorkRank(item) ==
  IF item.status \notin Unresolved THEN 2 ELSE IF item.priority = "high" THEN 0 ELSE 1

(* A page holds the most urgent gaps of the filter, whatever the limit: none
   that is left out comes before one that is shown, work that is open before
   what is settled, and what waits for a reviewer is never low (the projection,
   the sort and the cut of RepairInboxService.List). *)
InboxPutsWorkFirst ==
  algorithm = "inbox" =>
    LET all  == InboxItems(input.gaps, input.timeline, input.documents, input.records, input.filter)
        page == Inbox(input.gaps, input.timeline, input.documents, input.records, input.filter)
    IN  /\ Len(page) = (IF input.filter.limit \in 1..Cardinality(all) THEN input.filter.limit
                        ELSE Cardinality(all))
        /\ \A i, j \in DOMAIN page : i < j => WorkRank(page[i]) <= WorkRank(page[j])
        /\ \A i \in DOMAIN page, x \in all \ Range(page) : WorkRank(page[i]) <= WorkRank(x)
        /\ \A x \in all : x.reason = "review_gated_documents" /\ x.status \in Unresolved =>
                            x.priority = "high" /\ x.next = "review and retest"

-----------------------------------------------------------------------------
(* Evaluations and the release gate *)

(* What makes a release permitted, and what must then hold of every case on file
   and every promoted repair. *)
Backed(library, d, space) ==
  /\ d \in DOMAIN library
  /\ library[d].status = "ready" /\ library[d].review \in Eligible /\ library[d].space = space

EveryCheckRan(c, docs) ==
  \A k \in c.required : /\ k \in DOMAIN c.expected \cup {"cost_performance"}
                        /\ ~Fails(k, c, OutputOf(c, docs))

StillRepaired(r, docs, seen) ==
  /\ docs.readable
  /\ \A d \in r.documents : Backed(docs.library, d, r.space)
  /\ r.support # None => \E d \in DOMAIN docs.library : Backed(docs.library, d, r.space)
  /\ {o.status : o \in {x \in seen : x.promotion = r}} = {"passed"}

(* A release is permitted only if every required check of every case on file and
   every promoted repair that was loaded ran and passed, no id hid a case behind
   another, and each of those repairs still has the documents it was verified with
   (ready, reviewed, in its space) and is observed as passed, once however often
   the run is repeated.  Not every promoted repair is loaded: one may be passed
   over, but only for a limit of others of no lower revision (LoadCases,
   loadPromotedEvalCases, filterRepairEvalPromotions, Runner.Run, the promoted
   executor, the observation file and ReleaseGate.Decide together). *)
ReleaseNeedsEveryCheck ==
  algorithm = "release" /\ LoadCases(input.files) =>
    LET suite == RunEval(input.files, input.revisions, input.docs)
        promoted == Promoted(input.revisions)
        ids   == [i \in DOMAIN input.files |-> input.files[i].id]
                   \o [i \in DOMAIN promoted |-> promoted[i].case]
        seen  == Observations(suite, "r1")
    IN  Decide(suite).decision = "permitted" =>
          /\ IsInjective(ids)
          /\ \A c \in Range(input.files) : EveryCheckRan(c, input.docs)
          /\ \A r \in Range(promoted) : StillRepaired(r, input.docs, seen)
          /\ \A r \in Range(input.revisions) :
               r.active => \/ StillRepaired(r, input.docs, seen)
                           \/ /\ Len(promoted) = PromotionLimit
                              /\ \A s \in Range(promoted) : s.revision >= r.revision
          /\ Kept(seen, {[o EXCEPT !.status = "failed"] : o \in seen}) = seen
=============================================================================
