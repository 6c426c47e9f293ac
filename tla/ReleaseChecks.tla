----------------------------- MODULE ReleaseChecks -----------------------------
(* The evaluation that stands before a release: the cases on file and the      *)
(* promoted repairs are run through seven evaluators (cmd/cli, internal/evals), *)
(* the promoted ones are observed (internal/admin) and the gate decides         *)
(* (internal/governance).  Pure functions; the gate is called by tests only.    *)
(*                                                                              *)
(* A case has an id, wellFormed (title, tenant, category, risk and messages as  *)
(* they must be), expected (a function from check names to expectations),       *)
(* required (check names), promotion (None or the revision) and, when it is not *)
(* promoted, its output.  A revision has its number, says whether it is active, *)
(* and names its case, question, space and the documents its verification       *)
(* cited.                                                                       *)
EXTENDS Retrieval

CONSTANT PromotionLimit   \* promoted cases a run loads: the command asks for 100

ASSUME PromotionLimitAssumption == PromotionLimit \in Nat \ {0}

CheckNames == {"persona", "rag", "tools", "memory", "safety", "tenant", "cost_performance"}

TokenBudget == 1000

-----------------------------------------------------------------------------
(* Evaluators: e is what the case expects, o the output.                       *)

PersonaFails(e, o) ==
  \/ e.disclose /\ o.says \cap {"ai", "digital human"} = {}
  \/ e.forbidden \cap o.says # {}

SupportRank(state) ==
  CASE state = "grounded" -> 2 [] state = "partially_supported" -> 1 [] OTHER -> 0

RagFails(e, o, promotion) ==
  \/ promotion # None /\ o.category = "executor_unavailable"
  \/ ~(e.citations \subseteq o.citations)
  \/ e.space # None /\ o.space # e.space
  \/ e.support # None /\ SupportRank(o.state) < SupportRank(e.support)
  \/ ~(e.documents \subseteq o.documents)
  \/ e.unsupported

(* Of several calls of a tool only the last is looked at. *)
ToolsFail(e, o) ==
  \E tool \in e :
    LET calls == {i \in DOMAIN o.calls : o.calls[i].name = tool.name}
        last  == o.calls[Max(calls)]
    IN  \/ calls = {} /\ tool.allowed
        \/ calls # {} /\ tool.allowed /\ ~last.allowed
        \/ calls # {} /\ ~tool.allowed /\ last.executed

MemoryFails(e, o) ==
  \/ e.write /\ o.writes = << >>
  \/ \E i \in DOMAIN o.writes : o.writes[i] # e.write

TenantFails(e, o) == e.forbidden \cap o.touched # {}

Fails(check, c, o) ==
  CASE check = "persona" -> PersonaFails(c.expected.persona, o)
    [] check = "rag"     -> RagFails(c.expected.rag, o, c.promotion)
    [] check = "tools"   -> ToolsFail(c.expected.tools, o)
    [] check = "memory"  -> MemoryFails(c.expected.memory, o)
    [] check = "safety"  -> o.action # c.expected.safety
    [] check = "tenant"  -> TenantFails(c.expected.tenant, o)
    [] check = "cost_performance" -> o.tokens > TokenBudget

Status(check, c, o) ==
  CASE check \notin DOMAIN c.expected \cup {"cost_performance"} -> "skipped"
    [] OTHER -> IF Fails(check, c, o) THEN "failed" ELSE "passed"

-----------------------------------------------------------------------------
(* Runner.Run *)

Repeated(cases) == {j \in DOMAIN cases : \E k \in 1..(j - 1) : cases[k].id = cases[j].id}

Check(case, name, status, required, promotion) ==
  [case |-> case, check |-> name, status |-> status, required |-> required, promotion |-> promotion]

SuiteOf(checks) ==
  LET failed == {x.case : x \in {y \in checks : y.status = "failed"}}
  IN  [status |-> IF failed = {} THEN "passed" ELSE "failed", failed |-> failed, checks |-> checks]

Run(cases, outputs) ==
  IF Repeated(cases) # {}
  THEN SuiteOf({Check(cases[Min(Repeated(cases))].id, "case_validation", "failed", TRUE, None)})
  ELSE SuiteOf({Check(c.id, k, Status(k, c, outputs[c.id]), k \in c.required, c.promotion) :
                  c \in ToSet(cases), k \in CheckNames})

-----------------------------------------------------------------------------
(* runEval *)

ValidCase(c) ==
  /\ c.wellFormed
  /\ c.required \subseteq CheckNames
  /\ c.promotion # None => "rag" \in DOMAIN c.expected /\ "rag" \in c.required

(* One case that does not decode, is invalid or repeats an id refuses them all. *)
LoadCases(files) == (\A i \in DOMAIN files : ValidCase(files[i])) /\ Repeated(files) = {}

PromotedCase(r) ==
  [id |-> r.case, wellFormed |-> TRUE, required |-> {"rag"}, promotion |-> r,
   expected |-> [rag |-> [citations |-> {}, space |-> r.space, support |-> r.support,
                          documents |-> r.documents, unsupported |-> FALSE]]]

(* The active revisions, the highest first and otherwise as they are on file, up *)
(* to the limit: those beyond it are not run.                                    *)
Promoted(revisions) ==
  LET active == {i \in DOMAIN revisions : revisions[i].active}
      number == [i \in active |-> revisions[i].revision]
      order  == Ordered(active, {p \in active \X active :
                                   \/ number[p[1]] > number[p[2]]
                                   \/ number[p[1]] = number[p[2]] /\ p[1] < p[2]})
  IN  FirstFew([n \in DOMAIN order |-> revisions[order[n]]], PromotionLimit)

Silent ==
  [says |-> {}, citations |-> {}, documents |-> {}, space |-> None, state |-> None,
   category |-> None, calls |-> << >>, writes |-> << >>, action |-> None, tokens |-> 0,
   touched |-> {}]

(* A promoted case asks the knowledge on file; what cannot be read cannot be asked. *)
ExecutePromoted(c, docs) ==
  IF ~docs.readable
  THEN [Silent EXCEPT !.space = c.promotion.space, !.category = "executor_unavailable"]
  ELSE LET found == Search(docs.library, [query |-> c.promotion.question, mode |-> "lexical", limit |-> 5,
                                  space |-> c.promotion.space, minScore |-> 0], NoIndex)
       IN  [Silent EXCEPT
              !.space = c.promotion.space, !.category = "knowledge_diagnostics",
              !.citations = ToSet(found.results),
              !.documents = {found.results[i][1] : i \in DOMAIN found.results},
              !.state = IF found.results = << >> THEN "unsupported" ELSE "grounded"]

OutputOf(c, docs) == IF c.promotion = None THEN c.output ELSE ExecutePromoted(c, docs)

(* The suite of the files that LoadCases accepts and the revisions on file.     *)
RunEval(files, revisions, docs) ==
  LET promoted == Promoted(revisions)
      cases    == files \o [i \in DOMAIN promoted |-> PromotedCase(promoted[i])]
      first(id) == CHOOSE c \in ToSet(cases) : c.id = id
  IN  Run(cases, [id \in {c.id : c \in ToSet(cases)} |-> OutputOf(first(id), docs)])

(* What is written of the promoted cases ... *)
ObservedStatus(status) ==
  CASE status = "passed" -> "passed" [] status = "skipped" -> "unavailable" [] OTHER -> "failed"

Observations(suite, run) ==
  {[run |-> run, case |-> x.case, promotion |-> x.promotion, status |-> ObservedStatus(x.status)] :
     x \in {y \in suite.checks : y.required /\ y.check = "rag" /\ y.promotion # None}}

(* ... and kept: the first observation a run makes of a case stays.            *)
SameObservation(a, b) == a.run = b.run /\ a.case = b.case /\ a.promotion = b.promotion

Kept(records, observed) ==
  records \cup {o \in observed : \A r \in records : ~SameObservation(o, r)}

-----------------------------------------------------------------------------
(* ReleaseGate.Decide *)

Decision(blocking) == [decision |-> IF blocking = {} THEN "permitted" ELSE "blocked", failed |-> blocking]

DecideOnFailures(suite) == Decision(suite.failed)   \* mutant: a required check may be skipped
Decide(suite) ==
  Decision(suite.failed
           \cup {x.case : x \in {y \in suite.checks : y.required /\ y.status = "skipped"}})
=============================================================================
