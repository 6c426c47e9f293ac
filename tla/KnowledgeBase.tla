---------------------------- MODULE KnowledgeBase ----------------------------
(* The documents, spaces and import jobs of internal/admin, kept in one file   *)
(* knowledge.json.  A save loads the whole file, changes one entry and renames *)
(* a new file into place; nothing excludes two requests that do so at a time.  *)
(* A request is a few reads, then such a save; an import is many of them.      *)
EXTENDS Naturals, Sequences, FiniteSets

CONSTANTS
  Workers,       \* goroutines serving requests
  Documents,     \* document IDs chosen by clients, none of them an import's
  Jobs,          \* IDs of import jobs (import-<nanoseconds>), fresh each time
  Spaces,        \* knowledge space IDs
  DefaultSpace,  \* the space every file holds
  Contents,      \* texts of at least one chunk
  BadSource,     \* a source normalizeImportSource refuses
  Reviews,       \* the review statuses clients choose
  SpaceStatuses, \* the statuses clients give a space
  MaxSources,    \* bound on the sources of an import
  MaxRequests,   \* bound on the requests of a behaviour
  MaxCrashes,    \* bound on its restarts
  None

ASSUME KnowledgeAssumption ==
  /\ DefaultSpace \in Spaces
  /\ BadSource \notin Contents
  /\ Reviews \subseteq {"pending_review", "active", "rejected", "archived"}
  /\ SpaceStatuses \subseteq {"active", "disabled", "archived"}
  /\ MaxSources \in Nat /\ MaxRequests \in Nat /\ MaxCrashes \in Nat

VARIABLES
  file,       \* knowledge.json
  proc,       \* what each worker is doing
  requests,   \* number of requests so far
  crashes,    \* number of restarts so far
  decisions,  \* history: the review statuses saved for a document by a decision
  written,    \* history: the imported documents and contents that have been on file
  opened,     \* history: the spaces seen open during a worker's request
  raced       \* history: a save fell between another request's read and save

vars == <<file, proc, requests, crashes, decisions, written, opened, raced>>

Imported == Jobs \X (1..MaxSources)
IDs == Documents \cup Imported

(* An import puts its time, in nanoseconds, into the IDs of its documents: a   *)
(* client knows one only once the document is on file.                         *)
ASSUME IDsAssumption == Documents \cap Imported = {}

Document ==
  [space : Spaces, status : {"ready", "disabled"},
   review : {"pending_review", "active", "rejected", "archived"}, content : Contents]

JobStatuses == {"running", "failed", "partial", "completed"}

(* An import job on file, and one in progress. *)
JobEntry ==
  [space : Spaces, status : JobStatuses, total : Nat, imported : Seq(Imported), skipped : Nat]
ImportJob ==
  [id : Jobs, space : Spaces, sources : Seq(Contents \cup {BadSource}),
   imported : Seq(Imported), skipped : Nat, known : SUBSET Contents, status : JobStatuses]

ASSUME NoneAssumption ==
  None \notin Document \cup JobEntry \cup ImportJob \cup SpaceStatuses \cup {"active"}

-----------------------------------------------------------------------------
(* The file store                                                            *)

EmptyFile ==
  [docs   |-> [d \in IDs |-> None],
   spaces |-> [s \in Spaces |-> IF s = DefaultSpace THEN "active" ELSE None],
   jobs   |-> [j \in Jobs |-> None]]

OpenSpaces(f) == {s \in Spaces : f.spaces[s] = "active"}

ListBySpace(f, s) == {d \in IDs : f.docs[d] # None /\ f.docs[d].space = s}

(* A change is what one save does to the file it loaded. *)
SaveKnowledge(kind, d, doc) ==
  [kind |-> kind, part |-> "docs", key |-> d, value |-> doc]
DeleteKnowledge(d) ==
  [kind |-> "delete", part |-> "docs", key |-> d, value |-> None]
SaveSpace(s, status) ==
  [kind |-> "space", part |-> "spaces", key |-> s, value |-> status]
JobRecord(job) ==
  [space |-> job.space, status |-> job.status, total |-> Len(job.sources),
   imported |-> job.imported, skipped |-> job.skipped]
SaveImportJob(job) ==
  [kind |-> "job", part |-> "jobs", key |-> job.id, value |-> JobRecord(job)]

(* Only a delete looks at the entry it changes. *)
Applicable(f, c) == c.kind = "delete" => f.docs[c.key] # None
Apply(f, c) == [f EXCEPT ![c.part][c.key] = c.value]

-----------------------------------------------------------------------------
Idle == [pc |-> "idle", change |-> None, next |-> None, job |-> None]

Init ==
  /\ file = EmptyFile
  /\ proc = [w \in Workers |-> Idle]
  /\ requests = 0 /\ crashes = 0
  /\ decisions = [d \in IDs |-> << >>]
  /\ written = {}
  /\ opened = [w \in Workers |-> {}]
  /\ raced = FALSE

(* A request that ends with its first reads changes nothing; Begin is the first *)
(* read of one that goes on.                                                   *)
Begin(w, pc, change, job) ==
  /\ proc[w] = Idle /\ requests < MaxRequests
  /\ requests' = requests + 1
  /\ proc' = [proc EXCEPT ![w] = [Idle EXCEPT !.pc = pc, !.change = change, !.job = job]]
  /\ UNCHANGED <<file, crashes, decisions, written, raced>>

(* requireWritableSpace *)
Writable(s) == file.spaces[s] = "active"

UploadedAs(s, c, review) ==
  [space |-> s, status |-> "ready", review |-> review, content |-> c]
ImportedAsActive(job, c) ==   \* mutant: the default review status of an upload
  UploadedAs(job.space, c, "active")
ImportedAs(job, c) == UploadedAs(job.space, c, "pending_review")
ReviewedAs(doc, review) == [doc EXCEPT !.review = review]
ReindexedAsApproved(doc, c) ==   \* mutant: new content counts as reviewed
  [doc EXCEPT !.status = "ready", !.content = c, !.review = "active"]
ReindexedAs(doc, c) == [doc EXCEPT !.status = "ready", !.content = c]

Present == {d \in IDs : file.docs[d] # None}

(* Clients choose an ID, which may be that of a document on file. *)
Upload(w) ==
  \E d \in Documents \cup Present, s \in OpenSpaces(file), c \in Contents, r \in Reviews :
    Begin(w, "load", SaveKnowledge("upload", d, UploadedAs(s, c, r)), None)

(* A note is an upload without a review status: it is active at once.  Whether *)
(* its gap exists is read from another file and only refuses requests.         *)
CreateNote(w) ==
  \E d \in Documents \cup Present, s \in OpenSpaces(file), c \in Contents :
    Begin(w, "load", SaveKnowledge("upload", d, UploadedAs(s, c, "active")), None)

Review(w) ==
  \E d \in Present, r \in Reviews :
    Begin(w, "load", SaveKnowledge("review", d, ReviewedAs(file.docs[d], r)), None)

Disable(w) ==
  \E d \in Present :
    Begin(w, "load", SaveKnowledge("status", d, [file.docs[d] EXCEPT !.status = "disabled"]), None)

Enable(w) ==
  \E d \in Present :
    Begin(w, "load", SaveKnowledge("status", d, [file.docs[d] EXCEPT !.status = "ready"]), None)

(* Update and Reindex read the document, then look at the space it was in. *)
Update(w) ==
  \E d \in Present, c \in Contents :
    Begin(w, "check", SaveKnowledge("reindex", d, ReindexedAs(file.docs[d], c)), None)

Delete(w) == \E d \in Documents \cup Present : Begin(w, "load", DeleteKnowledge(d), None)

(* MoveDocument looks at the space first, then reads the document. *)
MoveDocument(w) ==
  \E d \in IDs, s \in OpenSpaces(file) :
    Begin(w, "get", SaveKnowledge("move", d, [space |-> s]), None)

CreateSpace(w) ==
  \E s \in Spaces : /\ file.spaces[s] = None
                    /\ Begin(w, "load", SaveSpace(s, "active"), None)

(* UpdateSpace saves the status it read with the new name. *)
UpdateSpace(w) ==
  \E s \in Spaces : /\ file.spaces[s] # None
                    /\ Begin(w, "load", SaveSpace(s, file.spaces[s]), None)

SetSpaceStatus(w) ==
  \E s \in Spaces, status \in SpaceStatuses :
    /\ file.spaces[s] # None
    /\ Begin(w, "load", SaveSpace(s, status), None)

-----------------------------------------------------------------------------
(* Imports                                                                   *)

Closed(job) ==
  [job EXCEPT !.status = IF job.imported # << >> /\ job.skipped > 0
                         THEN "partial" ELSE "completed"]

StartedJob(j, s, sources) ==
  [id |-> j, space |-> s, sources |-> sources, imported |-> << >>, skipped |-> 0,
   known |-> {}, status |-> IF sources = << >> THEN "failed" ELSE "running"]

Import(w) ==
  \E j \in Jobs, s \in OpenSpaces(file),
     sources \in UNION {[1..n -> Contents \cup {BadSource}] : n \in 0..MaxSources} :
    /\ file.jobs[j] = None
    /\ j \notin {proc[v].job.id : v \in {u \in Workers : proc[u].job # None}}
    /\ LET job == StartedJob(j, s, sources) IN Begin(w, "load", SaveImportJob(job), job)

Goto(w, pc) == proc' = [proc EXCEPT ![w].pc = pc]

SaveOf(w, job) ==
  proc' = [proc EXCEPT ![w].pc = "load", ![w].job = job, ![w].change = SaveImportJob(job)]

FailJob(w) == SaveOf(w, [proc[w].job EXCEPT !.status = "failed"])

Keep == UNCHANGED <<file, requests, crashes, decisions, written, raced>>

(* The source type is unsupported, or the list cannot be read. *)
ImportRefused(w) == proc[w].pc = "list" /\ FailJob(w) /\ Keep

ImportListed(w) ==
  /\ proc[w].pc = "list" /\ file.spaces[proc[w].job.space] # None
  /\ proc' = [proc EXCEPT ![w].pc = "source",
       ![w].job.known = {file.docs[d].content : d \in ListBySpace(file, proc[w].job.space)}]
  /\ Keep

Done(job) == Len(job.imported) + job.skipped
Source(job) == job.sources[Done(job) + 1]
CountedUnseen(job, d, c) ==   \* mutant: an import does not see its own documents
  [job EXCEPT !.imported = Append(@, d)]
Counted(job, d, c) == [job EXCEPT !.imported = Append(@, d), !.known = @ \cup {c}]

(* The next source of a running import: refused, skipped as a duplicate, or   *)
(* uploaded for review.                                                        *)
ImportSource(w) ==
  LET job == proc[w].job IN
  /\ proc[w].pc = "source" /\ Done(job) < Len(job.sources)
  /\ \/ /\ Source(job) = BadSource
        /\ FailJob(w)
     \/ /\ Source(job) \in job.known
        /\ proc' = [proc EXCEPT ![w].job.skipped = @ + 1]
     \/ /\ Source(job) \notin job.known \cup {BadSource}
        /\ ~Writable(job.space)
        /\ FailJob(w)
     \/ /\ Source(job) \notin job.known \cup {BadSource}
        /\ Writable(job.space)
        /\ proc' = [proc EXCEPT ![w].pc = "load",
             ![w].change = SaveKnowledge("import", <<job.id, Done(job) + 1>>,
                                         ImportedAs(job, Source(job)))]
  /\ Keep

ImportEnds(w) ==
  /\ proc[w].pc = "source" /\ Done(proc[w].job) = Len(proc[w].job.sources)
  /\ SaveOf(w, Closed(proc[w].job))
  /\ Keep

-----------------------------------------------------------------------------
(* The steps all requests share                                              *)

ReindexCheckNothing(w) ==   \* mutant: the space is not looked at
  proc[w].pc = "check" /\ Goto(w, "load") /\ Keep

ReindexCheck(w) ==
  /\ proc[w].pc = "check"
  /\ IF Writable(proc[w].change.value.space)
       THEN Goto(w, "load")
       ELSE proc' = [proc EXCEPT ![w] = Idle]
  /\ Keep

MoveGet(w) ==
  LET d == proc[w].change.key IN
  /\ proc[w].pc = "get"
  /\ proc' = [proc EXCEPT ![w] =
       IF file.docs[d] = None THEN Idle
       ELSE [@ EXCEPT !.pc = "load",
                      !.change.value = [file.docs[d] EXCEPT !.space = proc[w].change.value.space]]]
  /\ Keep

(* The save reads the file and works out what it will write. *)
Load(w) ==
  /\ proc[w].pc = "load"
  /\ proc' = [proc EXCEPT ![w] =
       IF Applicable(file, proc[w].change)
         THEN [@ EXCEPT !.pc = "write", !.next = Apply(file, proc[w].change)]
         ELSE Idle]
  /\ Keep

(* What a worker does once its save succeeded. *)
Saved(p) ==
  IF p.job = None \/ (p.change.part = "jobs" /\ p.job.status # "running") THEN Idle
  ELSE IF p.change.part = "jobs" THEN [p EXCEPT !.pc = "list", !.next = None]
  ELSE [p EXCEPT !.pc = "source", !.next = None,
                 !.job = Counted(p.job, p.change.key, p.change.value.content)]

Decides(c) == c.kind \in {"upload", "review"}

Write(w) ==
  LET c == proc[w].change IN
  /\ proc[w].pc = "write"
  /\ file' = proc[w].next
  /\ proc' = [proc EXCEPT ![w] = Saved(@)]
  /\ decisions' = IF Decides(c)
                    THEN [decisions EXCEPT ![c.key] = Append(@, c.value.review)]
                    ELSE decisions
  /\ written' = written \cup {<<d, file'.docs[d].content>> :
                              d \in {i \in Imported : file'.docs[i] # None}}
  /\ raced' = (raced \/ \E v \in Workers \ {w} : proc[v] # Idle)
  /\ UNCHANGED <<requests, crashes>>

(* The load, the temporary file or the rename fails: the file stays.  An       *)
(* import whose upload failed records that; any other request is refused.      *)
SaveFails(w) ==
  /\ proc[w].pc \in {"load", "write"}
  /\ IF proc[w].job # None /\ proc[w].change.part = "docs"
       THEN FailJob(w)
       ELSE proc' = [proc EXCEPT ![w] = Idle]
  /\ Keep

(* The process dies and is started again. *)
Crash ==
  /\ crashes < MaxCrashes /\ crashes' = crashes + 1
  /\ proc' = [w \in Workers |-> Idle]
  /\ UNCHANGED <<file, requests, decisions, written, raced>>

Step(w) ==
  \/ Upload(w) \/ CreateNote(w) \/ Review(w) \/ Disable(w) \/ Enable(w)
  \/ Update(w) \/ Delete(w) \/ MoveDocument(w)
  \/ CreateSpace(w) \/ UpdateSpace(w) \/ SetSpaceStatus(w)
  \/ Import(w) \/ ImportRefused(w) \/ ImportListed(w) \/ ImportSource(w) \/ ImportEnds(w)
  \/ ReindexCheck(w) \/ MoveGet(w) \/ Load(w) \/ Write(w) \/ SaveFails(w)

Watch ==
  opened' = [w \in Workers |->
    IF proc'[w] = Idle THEN {} ELSE opened[w] \cup OpenSpaces(file) \cup OpenSpaces(file')]

Next == ((\E w \in Workers : Step(w)) \/ Crash) /\ Watch

Spec == Init /\ [][Next]_vars

-----------------------------------------------------------------------------
(* An imported document is retrievable only after a reviewer made it active,   *)
(* whatever races: imports upload for review, and no other save activates.     *)
ImportedIsGated ==
  \A d \in Imported :
    file.docs[d] # None /\ file.docs[d].review = "active"
      => \E i \in 1..Len(decisions[d]) : decisions[d][i] = "active"

(* A closed job accounts for each of its sources: so many were skipped, and    *)
(* each of the others became a document of its own, which was on file before   *)
(* the job was closed with a content no other of them had.                     *)
ClosedJobAccounts ==
  \A j \in Jobs :
    LET job == file.jobs[j]
        Slots == 1..Len(job.imported) IN
    job # None /\ job.status \in {"completed", "partial"} =>
      /\ Len(job.imported) + job.skipped = job.total
      /\ \E content \in [Slots -> Contents] : \A i, k \in Slots :
           /\ <<job.imported[i], content[i]>> \in written
           /\ i # k => /\ job.imported[i] # job.imported[k]
                       /\ content[i] # content[k]

(* New content, or another space, is saved for a document only in a space that *)
(* was open at some moment of the request (requireWritableSpace is called on   *)
(* every such path, and on the document's space as the request read it).       *)
EditsNeedOpenSpace ==
  \A w \in Workers :
    proc[w].pc = "write" /\ proc[w].change.kind \in {"upload", "import", "reindex", "move"}
      => proc[w].change.value.space \in opened[w]

LastDecision(d) ==
  IF decisions[d] = << >> THEN "pending_review" ELSE decisions[d][Len(decisions[d])]

(* Until two requests overlap, a document's review status is the last decision *)
(* made about it, through edits, moves and restarts, and its space exists.     *)
DecisionsStandUntilRace ==
  raced \/ \A d \in Present :
    /\ file.docs[d].review = LastDecision(d)
    /\ file.spaces[file.docs[d].space] # None
=============================================================================
