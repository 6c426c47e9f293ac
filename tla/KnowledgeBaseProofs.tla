-------------------------- MODULE KnowledgeBaseProofs --------------------------
(* Proofs about KnowledgeBase, for any workers, documents, spaces, sources and  *)
(* bounds.                                                                      *)
EXTENDS KnowledgeBase, SequenceTheorems, TLAPS

FileOf ==
  [docs   : [IDs -> Document \cup {None}],
   spaces : [Spaces -> SpaceStatuses \cup {"active", None}],
   jobs   : [Jobs -> JobEntry \cup {None}]]

(* The changes requests ask for; a move first reads the document it moves. *)
EditKinds == {"upload", "import", "review", "status", "reindex", "move"}
Edits == [kind : EditKinds, part : {"docs"}, key : IDs, value : Document]
Moves == [kind : {"move"}, part : {"docs"}, key : IDs, value : [space : Spaces]]
Deletes == [kind : {"delete"}, part : {"docs"}, key : IDs, value : {None}]
SpaceSaves == [kind : {"space"}, part : {"spaces"}, key : Spaces,
               value : SpaceStatuses \cup {"active"}]
JobSaves == [kind : {"job"}, part : {"jobs"}, key : Jobs, value : JobEntry]

(* The upload of the next source of a job. *)
UploadsNext(c, job) ==
  /\ c.kind = "import" /\ c.key = <<job.id, Done(job) + 1>>
  /\ Done(job) < Len(job.sources) /\ job.status = "running"
  /\ c.value = ImportedAs(job, Source(job)) /\ Source(job) \in Contents \ job.known

(* What a worker knows of its request, at each step of it. *)
WellFormed(p) == p = [pc |-> p.pc, change |-> p.change, next |-> p.next, job |-> p.job]

JobOK(job) ==
  /\ job \in ImportJob
  /\ Done(job) <= Len(job.sources) /\ Len(job.sources) <= MaxSources

AtGet(p) == p.pc = "get" /\ p.change \in Moves /\ p.job = None
AtCheck(p) == p.pc = "check" /\ p.change \in Edits /\ p.change.kind = "reindex" /\ p.job = None
Saves(p) ==
  \/ p.job = None /\ p.change \in Edits /\ p.change.kind # "import"
  \/ p.job = None /\ p.change \in Deletes \cup SpaceSaves
  \/ JobOK(p.job) /\ p.change \in JobSaves /\ p.change = SaveImportJob(p.job)
       /\ (p.job.status = "running" => p.job.imported = << >> /\ p.job.skipped = 0)
  \/ JobOK(p.job) /\ p.change \in Edits /\ UploadsNext(p.change, p.job)
AtSave(p) == p.pc \in {"load", "write"} /\ Saves(p) /\ (p.pc = "write" => p.next \in FileOf)
AtImport(p) == /\ p.pc \in {"list", "source"} /\ JobOK(p.job) /\ p.job.status = "running"
               /\ p.pc = "list" => p.job.imported = << >> /\ p.job.skipped = 0

IsRequest(p) == WellFormed(p) /\ (AtGet(p) \/ AtCheck(p) \/ AtSave(p) \/ AtImport(p))

ProcOK == /\ proc = [w \in Workers |-> proc[w]]
          /\ \A w \in Workers : proc[w] = Idle \/ IsRequest(proc[w])

RestOK == /\ requests \in Nat /\ crashes \in Nat
          /\ decisions = [d \in IDs |-> decisions[d]]
          /\ \A d \in IDs : decisions[d] \in Seq({"pending_review", "active", "rejected", "archived"})
          /\ opened = [w \in Workers |-> opened[w]]

TypeOK == file \in FileOf /\ ProcOK /\ RestOK
-----------------------------------------------------------------------------
(* A reviewer made the document active at some time. *)
Activated(d) == \E i \in 1..Len(decisions[d]) : decisions[d][i] = "active"

GatedDocs(docs) ==
  \A d \in Imported : docs[d] # None /\ docs[d].review = "active" => Activated(d)

(* A save that does not decide copies the review status of a document that was  *)
(* on file.                                                                     *)
Gated(p) ==
  /\ p.pc \in {"check", "load", "write"} /\ p.change.part = "docs" /\ p.change.kind # "delete" =>
       (p.change.key \in Imported /\ p.change.value.review = "active" =>
          Decides(p.change) \/ Activated(p.change.key))
  /\ p.pc = "write" =>
       \A d \in Imported : p.next.docs[d] # None /\ p.next.docs[d].review = "active" =>
         \/ Activated(d)
         \/ Decides(p.change) /\ p.change.key = d /\ p.change.value.review = "active"

GateInv == GatedDocs(file.docs) /\ \A w \in Workers : Gated(proc[w])

-----------------------------------------------------------------------------
NeedsSpace(p) == \/ p.pc = "get"
                 \/ p.pc \in {"load", "write"} /\ p.change.kind \in {"upload", "import", "reindex", "move"}

SpaceInv == \A w \in Workers : NeedsSpace(proc[w]) => proc[w].change.value.space \in opened[w]

-----------------------------------------------------------------------------
(* Until two requests overlap, what a request read is what is on file. *)
Reviewed(d, doc) == doc.review = LastDecision(d) /\ file.spaces[doc.space] # None

(* The documents of an import come from a job on file. *)
JobsOnFile ==
  \A j \in Jobs, n \in 1..MaxSources :
    file.docs[<<j, n>>] # None \/ decisions[<<j, n>>] # << >> => file.jobs[j] # None

Undecided(job) == \A n \in 1..MaxSources : n > Done(job) => decisions[<<job.id, n>>] = << >>

Fresh(p) ==
  LET c == p.change IN
  /\ p.pc = "get" => file.spaces[c.value.space] # None
  /\ p.pc \in {"check", "load", "write"} /\ c.part = "docs" /\ c.kind # "delete" =>
       /\ file.spaces[c.value.space] # None
       /\ Decides(c) \/ c.value.review = LastDecision(c.key)
       /\ \A j \in Jobs, n \in 1..MaxSources : c.key = <<j, n>> => file.jobs[j] # None
  /\ p.pc = "write" => p.next = Apply(file, c)
  /\ p.pc # "idle" /\ p.job # None =>
       /\ Undecided(p.job)
       /\ p.pc \in {"list", "source"} \/ c.part = "docs" => file.jobs[p.job.id] # None

StandInv ==
  raced \/ /\ \A d \in Present : Reviewed(d, file.docs[d])
           /\ JobsOnFile
           /\ \A w \in Workers : Fresh(proc[w])

-----------------------------------------------------------------------------
(* The imported documents of a job have been on file, each with a content of its *)
(* own.                                                                          *)
Distinct(imported, content) ==
  \A i, k \in 1..Len(imported) :
    /\ <<imported[i], content[i]>> \in written
    /\ i # k => imported[i] # imported[k] /\ content[i] # content[k]

Accounted(entry) ==
  entry.status \in {"completed", "partial"} =>
    /\ Len(entry.imported) + entry.skipped = entry.total
    /\ \E content \in [1..Len(entry.imported) -> Contents] : Distinct(entry.imported, content)

AccountedSoFar(job) ==
  \E content \in [1..Len(job.imported) -> Contents] :
    /\ Distinct(job.imported, content)
    /\ \A i \in 1..Len(job.imported) :
         content[i] \in job.known /\ \E n \in 1..Done(job) : job.imported[i] = <<job.id, n>>

Accounts(p) ==
  /\ p.pc \in {"list", "source"} => AccountedSoFar(p.job)
  /\ p.pc \in {"load", "write"} =>
       /\ p.change.part = "docs" /\ p.change.kind = "import" => AccountedSoFar(p.job)
       /\ p.change.part = "jobs" => Accounted(p.change.value)
  /\ p.pc = "write" =>
       /\ \A j \in Jobs : p.next.jobs[j] # None => Accounted(p.next.jobs[j])
       /\ p.change.part = "docs" /\ p.change.kind = "import" => p.next.docs[p.change.key] = p.change.value

AccountInv ==
  /\ \A j \in Jobs : file.jobs[j] # None => Accounted(file.jobs[j])
  /\ \A w \in Workers : Accounts(proc[w])
-----------------------------------------------------------------------------
(* Type correctness *)

LEMMA SpacesOnFile ==
  ASSUME TypeOK
  PROVE  /\ file.docs \in [IDs -> Document \cup {None}]
         /\ file.spaces \in [Spaces -> SpaceStatuses \cup {"active", None}]
         /\ file.jobs \in [Jobs -> JobEntry \cup {None}]
         /\ \A d \in Present : d \in IDs /\ file.docs[d] \in Document
         /\ file.docs = file["docs"] /\ file.spaces = file["spaces"] /\ file.jobs = file["jobs"]
  BY DEF TypeOK, FileOf, Present

(* A review sets the review of a document and leaves it in its space. *)
LEMMA ReviewedType ==
  ASSUME NEW doc \in Document, NEW r \in {"pending_review", "active", "rejected", "archived"}
  PROVE  /\ ReviewedAs(doc, r) \in Document /\ ReviewedAs(doc, r).review = r
         /\ ReviewedAs(doc, r).space = doc.space
  BY DEF Document, ReviewedAs

(* The edits of a document. *)
LEMMA DocumentEdits ==
  ASSUME NEW doc \in Document, NEW r \in {"pending_review", "active", "rejected", "archived"},
         NEW c \in Contents, NEW s \in Spaces, NEW status \in {"ready", "disabled"}
  PROVE  /\ /\ ReviewedAs(doc, r) \in Document /\ ReviewedAs(doc, r).review = r
            /\ ReviewedAs(doc, r).space = doc.space
         /\ /\ ReindexedAs(doc, c) \in Document /\ ReindexedAs(doc, c).review = doc.review
            /\ ReindexedAs(doc, c).space = doc.space
         /\ /\ [doc EXCEPT !.status = status] \in Document
            /\ [doc EXCEPT !.status = status].review = doc.review
            /\ [doc EXCEPT !.status = status].space = doc.space
         /\ /\ [doc EXCEPT !.space = s] \in Document
            /\ [doc EXCEPT !.space = s].review = doc.review
            /\ [doc EXCEPT !.space = s].space = s
<1>1. /\ ReviewedAs(doc, r) \in Document /\ ReviewedAs(doc, r).review = r
      /\ ReviewedAs(doc, r).space = doc.space
  BY ReviewedType
<1>2. /\ ReindexedAs(doc, c) \in Document /\ ReindexedAs(doc, c).review = doc.review
      /\ ReindexedAs(doc, c).space = doc.space
  BY DEF Document, ReindexedAs
<1>3. /\ [doc EXCEPT !.status = status] \in Document
      /\ [doc EXCEPT !.status = status].review = doc.review
      /\ [doc EXCEPT !.status = status].space = doc.space
  BY DEF Document
<1>4. /\ [doc EXCEPT !.space = s] \in Document
      /\ [doc EXCEPT !.space = s].review = doc.review
      /\ [doc EXCEPT !.space = s].space = s
  BY DEF Document
<1> QED
  BY <1>1, <1>2, <1>3, <1>4

LEMMA UploadType ==
  ASSUME NEW s \in Spaces, NEW c \in Contents,
         NEW r \in {"pending_review", "active", "rejected", "archived"}
  PROVE  /\ UploadedAs(s, c, r) \in Document
         /\ UploadedAs(s, c, r).review = r /\ UploadedAs(s, c, r).space = s
         /\ UploadedAs(s, c, r).content = c
  BY DEF UploadedAs, Document

(* What a save makes of a file. *)
LEMMA ApplyFields ==
  ASSUME NEW f \in FileOf, NEW c \in Edits \cup Deletes \cup SpaceSaves \cup JobSaves
  PROVE  /\ Apply(f, c) \in FileOf
         /\ c.part \in {"docs", "spaces", "jobs"}
         /\ c.part = "docs" =>
              /\ Apply(f, c).docs = [f.docs EXCEPT ![c.key] = c.value] /\ c.key \in IDs
              /\ Apply(f, c).spaces = f.spaces /\ Apply(f, c).jobs = f.jobs
         /\ c.part = "spaces" =>
              /\ Apply(f, c).spaces = [f.spaces EXCEPT ![c.key] = c.value] /\ c.key \in Spaces
              /\ Apply(f, c).docs = f.docs /\ Apply(f, c).jobs = f.jobs
         /\ c.part = "jobs" =>
              /\ Apply(f, c).jobs = [f.jobs EXCEPT ![c.key] = c.value] /\ c.key \in Jobs
              /\ Apply(f, c).docs = f.docs /\ Apply(f, c).spaces = f.spaces
<1>1. CASE c \in Edits \cup Deletes
  BY <1>1 DEF FileOf, Apply, Edits, Deletes
<1>2. CASE c \in SpaceSaves
  BY <1>2 DEF FileOf, Apply, SpaceSaves
<1>3. CASE c \in JobSaves
  BY <1>3 DEF FileOf, Apply, JobSaves
<1> QED
  BY <1>1, <1>2, <1>3

(* The steps of a job. *)
LEMMA JobEntryType ==
  ASSUME NEW job \in ImportJob
  PROVE  /\ SaveImportJob(job) \in JobSaves /\ SaveImportJob(job).key = job.id
         /\ SaveImportJob(job).part = "jobs" /\ SaveImportJob(job).kind = "job"
         /\ SaveImportJob(job).value = JobRecord(job)
         /\ JobRecord(job).status = job.status /\ JobRecord(job).imported = job.imported
         /\ JobRecord(job).skipped = job.skipped /\ JobRecord(job).total = Len(job.sources)
<1>1. job.sources \in Seq(Contents \cup {BadSource}) /\ Len(job.sources) \in Nat
  BY LenProperties DEF ImportJob
<1>2. JobRecord(job) \in JobEntry
  BY <1>1 DEF ImportJob, JobRecord, JobEntry
<1> QED
  BY <1>2 DEF SaveImportJob, JobSaves, ImportJob, JobRecord

LEMMA StartedType ==
  ASSUME NEW j \in Jobs, NEW s \in Spaces, NEW n \in 0..MaxSources,
         NEW sources \in [1..n -> Contents \cup {BadSource}]
  PROVE  /\ JobOK(StartedJob(j, s, sources))
         /\ StartedJob(j, s, sources).id = j /\ StartedJob(j, s, sources).space = s
         /\ StartedJob(j, s, sources).imported = << >>
         /\ StartedJob(j, s, sources).skipped = 0
         /\ StartedJob(j, s, sources).status \in {"running", "failed"}
<1> DEFINE job == StartedJob(j, s, sources)
<1>1. n \in Nat /\ n <= MaxSources
  BY KnowledgeAssumption
<1>2. sources \in Seq(Contents \cup {BadSource}) /\ Len(sources) = n
  BY <1>1
<1>3. job.status \in {"running", "failed"}
  BY DEF StartedJob
<1>4. job \in ImportJob
  BY <1>2, <1>3 DEF StartedJob, ImportJob, JobStatuses
<1>5. job.imported = << >> /\ job.skipped = 0 /\ job.sources = sources /\ job.id = j /\ job.space = s
  BY DEF StartedJob
<1>6. Done(job) = 0
  BY <1>5 DEF Done
<1> QED
  BY <1>1, <1>2, <1>3, <1>4, <1>5, <1>6 DEF JobOK

(* The sum Done counts. *)
LEMMA DoneIsNat ==
  ASSUME NEW job \in ImportJob
  PROVE  /\ Len(job.imported) \in Nat /\ job.skipped \in Nat /\ Done(job) \in Nat
         /\ Done(job) = Len(job.imported) + job.skipped /\ Len(job.sources) \in Nat
<1>1. Len(job.imported) \in Nat /\ job.skipped \in Nat /\ Len(job.sources) \in Nat
  BY LenProperties DEF ImportJob
<1> QED
  BY <1>1 DEF Done

LEMMA StatusChange ==
  ASSUME NEW job, JobOK(job), NEW status \in JobStatuses, NEW next,
         next = [job EXCEPT !.status = status]
  PROVE  /\ JobOK(next) /\ next.status = status /\ next.id = job.id /\ next.space = job.space
         /\ next.imported = job.imported /\ next.skipped = job.skipped
         /\ next.sources = job.sources /\ next.known = job.known
<1>1. next \in ImportJob
  BY DEF JobOK, ImportJob
<1>2. /\ next.status = status /\ next.id = job.id /\ next.space = job.space
      /\ next.imported = job.imported /\ next.skipped = job.skipped
      /\ next.sources = job.sources /\ next.known = job.known
  BY DEF JobOK, ImportJob
<1> QED
  BY <1>1, <1>2 DEF JobOK, Done

LEMMA ClosedType ==
  ASSUME NEW job, JobOK(job)
  PROVE  /\ JobOK(Closed(job)) /\ Closed(job).status \in {"partial", "completed"}
         /\ Closed(job).id = job.id /\ Closed(job).imported = job.imported
         /\ Closed(job).skipped = job.skipped /\ Closed(job).sources = job.sources
<1> DEFINE status == IF job.imported # << >> /\ job.skipped > 0 THEN "partial" ELSE "completed"
<1>1. Closed(job) = [job EXCEPT !.status = status]
  BY DEF Closed
<1>2. status \in {"partial", "completed"} /\ status \in JobStatuses
  BY DEF JobStatuses
<1> HIDE DEF status
<1> QED
  BY <1>1, <1>2, StatusChange

LEMMA SkippedType ==
  ASSUME NEW job, JobOK(job), Done(job) < Len(job.sources), NEW next,
         next = [job EXCEPT !.skipped = @ + 1]
  PROVE  /\ JobOK(next) /\ next.status = job.status /\ next.id = job.id
         /\ next.imported = job.imported /\ next.known = job.known
         /\ Done(next) = Done(job) + 1
<1>1. next \in ImportJob
  BY DEF JobOK, ImportJob
<1>2. /\ next.status = job.status /\ next.id = job.id /\ next.imported = job.imported
      /\ next.known = job.known /\ next.sources = job.sources /\ next.skipped = job.skipped + 1
  BY DEF JobOK, ImportJob
<1>3. Done(next) = Done(job) + 1
  <2>1. Len(job.imported) \in Nat /\ job.skipped \in Nat
    BY DoneIsNat DEF JobOK
  <2> QED
    BY <1>2, <2>1 DEF Done
<1> QED
  BY <1>1, <1>2, <1>3, DoneIsNat DEF JobOK

LEMMA CountedType ==
  ASSUME NEW job, JobOK(job), Done(job) < Len(job.sources), NEW d \in Imported, NEW c \in Contents
  PROVE  /\ JobOK(Counted(job, d, c)) /\ Counted(job, d, c).status = job.status
         /\ Counted(job, d, c).id = job.id
         /\ Counted(job, d, c).imported = Append(job.imported, d)
         /\ Counted(job, d, c).known = job.known \cup {c}
         /\ Done(Counted(job, d, c)) = Done(job) + 1
<1>0. PICK next : next = Counted(job, d, c)
  OBVIOUS
<1>1. next = [job EXCEPT !.imported = Append(@, d), !.known = @ \cup {c}]
  BY <1>0 DEF Counted
<1>2. /\ next.status = job.status /\ next.id = job.id /\ next.imported = Append(job.imported, d)
      /\ next.known = job.known \cup {c} /\ next.sources = job.sources
      /\ next.skipped = job.skipped
  BY <1>1 DEF JobOK, ImportJob
<1>3. Append(job.imported, d) \in Seq(Imported)
      /\ Len(Append(job.imported, d)) = Len(job.imported) + 1
  BY AppendProperties DEF JobOK, ImportJob
<1>4. next \in ImportJob
  BY <1>1, <1>3 DEF JobOK, ImportJob
<1>5. Done(next) = Done(job) + 1
  <2>1. Len(next.imported) = Len(job.imported) + 1 /\ next.skipped = job.skipped
    BY <1>2, <1>3
  <2>2. Len(job.imported) \in Nat /\ job.skipped \in Nat
    BY DoneIsNat DEF JobOK
  <2> QED
    BY <2>1, <2>2 DEF Done
<1> QED
  BY <1>0, <1>2, <1>4, <1>5, DoneIsNat DEF JobOK

LEMMA NotNone ==
  /\ \A job : JobOK(job) => job # None
  /\ \A e \in JobEntry : e # None
  /\ \A s \in SpaceStatuses \cup {"active"} : s # None
  BY NoneAssumption DEF JobOK

(* A worker's step leaves the others as they were. *)
OthersStay(w) == \A v \in Workers \ {w} : proc'[v] = proc[v]

LEMMA OneWorkerMoves ==
  ASSUME ProcOK, NEW w \in Workers, NEW p, p = Idle \/ IsRequest(p), proc' = [proc EXCEPT ![w] = p]
  PROVE  ProcOK' /\ proc'[w] = p /\ OthersStay(w)
<1>1. proc'[w] = p /\ OthersStay(w) /\ proc' = [v \in Workers |-> proc'[v]]
  BY DEF ProcOK, OthersStay
<1>2. ASSUME NEW v \in Workers PROVE proc'[v] = Idle \/ IsRequest(proc'[v])
  BY <1>1 DEF ProcOK, OthersStay
<1>3. ProcOK' <=> /\ proc' = [v \in Workers |-> proc'[v]]
                  /\ \A v \in Workers : proc'[v] = Idle \/ IsRequest(proc'[v])
  BY DEF ProcOK, Idle
<1> QED
  BY <1>1, <1>2, <1>3

LEMMA BusyWorker ==
  ASSUME ProcOK, NEW w \in Workers, proc[w].pc # "idle"
  PROVE  IsRequest(proc[w]) /\ proc[w] # Idle
  BY DEF ProcOK, Idle

-----------------------------------------------------------------------------
(* Requests *)

Arrives(w) ==
  \/ Upload(w) \/ CreateNote(w) \/ Review(w) \/ Disable(w) \/ Enable(w)
  \/ Update(w) \/ Delete(w) \/ MoveDocument(w)
  \/ CreateSpace(w) \/ UpdateSpace(w) \/ SetSpaceStatus(w) \/ Import(w)

(* What a request wants to do, given what it read first. *)
EditAsks(c) ==
  /\ c.key \in Documents \cup Present
  /\ ~Decides(c) => c.key \in Present /\ c.value.review = file.docs[c.key].review
  /\ c.kind = "upload" => c.value.space \in OpenSpaces(file)
  /\ \/ c.value.space \in OpenSpaces(file)
     \/ c.key \in Present /\ c.value.space = file.docs[c.key].space

Asks(pc, c, job) ==
  \/ /\ job = None /\ pc = "get" /\ c \in Moves /\ c.value.space \in OpenSpaces(file)
  \/ /\ job = None /\ pc = "check" /\ c \in Edits /\ c.kind = "reindex" /\ EditAsks(c)
  \/ /\ job = None /\ pc = "load" /\ c \in Edits /\ EditAsks(c)
     /\ c.kind \in {"upload", "review", "status"}
  \/ /\ job = None /\ pc = "load" /\ c \in Deletes \cup SpaceSaves
  \/ /\ JobOK(job) /\ pc = "load" /\ c = SaveImportJob(job)
     /\ job.status \in {"running", "failed"} /\ job.imported = << >> /\ job.skipped = 0
     /\ file.jobs[job.id] = None

LEMMA UploadAsks ==
  ASSUME TypeOK, NEW w \in Workers, Upload(w) \/ CreateNote(w)
  PROVE  \E c : Begin(w, "load", c, None) /\ Asks("load", c, None)
<1>1. PICK d \in Documents \cup Present, s \in OpenSpaces(file), c \in Contents,
           r \in Reviews \cup {"active"} :
        Begin(w, "load", SaveKnowledge("upload", d, UploadedAs(s, c, r)), None)
  BY DEF Upload, CreateNote
<1> DEFINE change == SaveKnowledge("upload", d, UploadedAs(s, c, r))
<1>2. d \in IDs /\ s \in Spaces /\ r \in {"pending_review", "active", "rejected", "archived"}
  BY KnowledgeAssumption DEF IDs, Present, OpenSpaces
<1>3. UploadedAs(s, c, r) \in Document /\ UploadedAs(s, c, r).space = s
  BY <1>2, UploadType
<1>4. change \in Edits /\ change.kind = "upload" /\ change.key = d /\ change.value.space = s
  BY <1>2, <1>3 DEF SaveKnowledge, Edits, EditKinds
<1>5. EditAsks(change)
  BY <1>4 DEF EditAsks, Decides
<1> QED
  BY <1>1, <1>4, <1>5 DEF Asks

LEMMA ReviewAsks ==
  ASSUME TypeOK, NEW w \in Workers, Review(w)
  PROVE  \E c : Begin(w, "load", c, None) /\ Asks("load", c, None)
<1>1. PICK d \in Present, r \in Reviews :
        Begin(w, "load", SaveKnowledge("review", d, ReviewedAs(file.docs[d], r)), None)
  BY DEF Review
<1> DEFINE change == SaveKnowledge("review", d, ReviewedAs(file.docs[d], r))
<1>2. /\ d \in IDs /\ file.docs[d] \in Document
      /\ r \in {"pending_review", "active", "rejected", "archived"}
  BY KnowledgeAssumption, SpacesOnFile
<1>3. /\ ReviewedAs(file.docs[d], r) \in Document
      /\ ReviewedAs(file.docs[d], r).space = file.docs[d].space
  BY <1>2, ReviewedType
<1>4. /\ change \in Edits /\ change.kind = "review" /\ change.key = d
      /\ change.value.space = file.docs[d].space
  BY <1>2, <1>3 DEF SaveKnowledge, Edits, EditKinds
<1>5. EditAsks(change)
  BY <1>4 DEF EditAsks, Decides
<1> QED
  BY <1>1, <1>4, <1>5 DEF Asks

LEMMA StatusAsks ==
  ASSUME TypeOK, NEW w \in Workers, Disable(w) \/ Enable(w)
  PROVE  \E c : Begin(w, "load", c, None) /\ Asks("load", c, None)
<1>1. PICK d \in Present, status \in {"ready", "disabled"} :
        Begin(w, "load", SaveKnowledge("status", d, [file.docs[d] EXCEPT !.status = status]), None)
  BY DEF Disable, Enable
<1> DEFINE doc == [file.docs[d] EXCEPT !.status = status]
           change == SaveKnowledge("status", d, doc)
<1>2. d \in IDs /\ file.docs[d] \in Document
  BY SpacesOnFile
<1>3. doc \in Document /\ doc.space = file.docs[d].space /\ doc.review = file.docs[d].review
  BY <1>2 DEF Document
<1> HIDE DEF doc
<1>4. /\ change \in Edits /\ change.kind = "status" /\ change.key = d /\ change.value = doc
  BY <1>2, <1>3 DEF SaveKnowledge, Edits, EditKinds
<1>5. EditAsks(change)
  BY <1>3, <1>4 DEF EditAsks
<1> QED
  BY <1>1, <1>4, <1>5 DEF Asks, doc

LEMMA UpdateAsks ==
  ASSUME TypeOK, NEW w \in Workers, Update(w)
  PROVE  \E c : Begin(w, "check", c, None) /\ Asks("check", c, None)
<1>1. PICK d \in Present, content \in Contents :
        Begin(w, "check", SaveKnowledge("reindex", d, ReindexedAs(file.docs[d], content)), None)
  BY DEF Update
<1> DEFINE doc == ReindexedAs(file.docs[d], content)
           change == SaveKnowledge("reindex", d, doc)
<1>2. d \in IDs /\ file.docs[d] \in Document
  BY SpacesOnFile
<1>3. doc \in Document /\ doc.space = file.docs[d].space /\ doc.review = file.docs[d].review
  BY <1>2 DEF Document, ReindexedAs
<1> HIDE DEF doc
<1>4. /\ change \in Edits /\ change.kind = "reindex" /\ change.key = d /\ change.value = doc
  BY <1>2, <1>3 DEF SaveKnowledge, Edits, EditKinds
<1>5. EditAsks(change)
  BY <1>3, <1>4 DEF EditAsks
<1> QED
  BY <1>1, <1>4, <1>5 DEF Asks, doc

LEMMA ImportAsks ==
  ASSUME TypeOK, NEW w \in Workers, Import(w)
  PROVE  \E c, job : Begin(w, "load", c, job) /\ Asks("load", c, job)
<1>1. PICK j \in Jobs, s \in OpenSpaces(file),
           sources \in UNION {[1..n -> Contents \cup {BadSource}] : n \in 0..MaxSources} :
        /\ file.jobs[j] = None
        /\ Begin(w, "load", SaveImportJob(StartedJob(j, s, sources)), StartedJob(j, s, sources))
  BY DEF Import
<1>2. PICK n \in 0..MaxSources : sources \in [1..n -> Contents \cup {BadSource}]
  OBVIOUS
<1>3. s \in Spaces
  BY DEF OpenSpaces
<1> QED
  BY <1>1, <1>2, <1>3, StartedType DEF Asks

LEMMA ArrivalAsks ==
  ASSUME TypeOK, NEW w \in Workers, Arrives(w)
  PROVE  \E pc, c, job : Begin(w, pc, c, job) /\ Asks(pc, c, job)
<1>1. CASE Delete(w)
  <2>1. PICK d \in Documents \cup Present : Begin(w, "load", DeleteKnowledge(d), None)
    BY <1>1 DEF Delete
  <2>2. DeleteKnowledge(d) \in Deletes
    BY DEF DeleteKnowledge, Deletes, IDs, Present
  <2> QED
    BY <2>1, <2>2 DEF Asks
<1>2. CASE MoveDocument(w)
  <2>1. PICK d \in IDs, s \in OpenSpaces(file) :
          Begin(w, "get", SaveKnowledge("move", d, [space |-> s]), None)
    BY <1>2 DEF MoveDocument
  <2>2. /\ SaveKnowledge("move", d, [space |-> s]) \in Moves
        /\ SaveKnowledge("move", d, [space |-> s]).value.space = s
    BY DEF SaveKnowledge, Moves, OpenSpaces
  <2> QED
    BY <2>1, <2>2 DEF Asks
<1>3. CASE CreateSpace(w) \/ UpdateSpace(w) \/ SetSpaceStatus(w)
  <2>1. PICK s \in Spaces, status \in SpaceStatuses \cup {"active"} :
          Begin(w, "load", SaveSpace(s, status), None)
    BY <1>3, SpacesOnFile DEF CreateSpace, UpdateSpace, SetSpaceStatus
  <2>2. SaveSpace(s, status) \in SpaceSaves
    BY DEF SaveSpace, SpaceSaves
  <2> QED
    BY <2>1, <2>2 DEF Asks
<1> QED
  BY <1>1, <1>2, <1>3, UploadAsks, ReviewAsks, StatusAsks, UpdateAsks, ImportAsks DEF Arrives

-----------------------------------------------------------------------------
(* What each step of a worker does *)

LEMMA BeginFacts ==
  ASSUME TypeOK, NEW w \in Workers, NEW pc, NEW c, NEW job, Begin(w, pc, c, job), Asks(pc, c, job)
  PROVE  /\ proc[w] = Idle /\ ProcOK' /\ OthersStay(w)
         /\ UNCHANGED <<file, crashes, decisions, written, raced>> /\ requests' \in Nat
         /\ proc'[w].pc = pc /\ proc'[w].change = c /\ proc'[w].job = job
         /\ proc'[w] # Idle
<1>1. PICK p : p = [Idle EXCEPT !.pc = pc, !.change = c, !.job = job]
  OBVIOUS
<1>2. p.pc = pc /\ p.change = c /\ p.job = job /\ p.next = None
  BY <1>1 DEF Idle
<1>3. WellFormed(p)
  BY <1>1 DEF WellFormed, Idle
<1>4. pc \in {"get", "check", "load"}
  BY DEF Asks
<1>5. AtGet(p) \/ AtCheck(p) \/ AtSave(p)
  <2>1. CASE pc = "get"
    BY <1>2, <2>1 DEF Asks, AtGet
  <2>2. CASE pc = "check"
    BY <1>2, <2>2 DEF Asks, AtCheck
  <2>3. CASE pc = "load"
    <3>1. CASE job = None
      <4>1. Saves(p)
        BY <1>2, <2>3, <3>1, NotNone DEF Asks, Saves
      <4> QED
        BY <1>2, <2>3, <4>1 DEF AtSave
    <3>2. CASE job # None
      <4>1. JobOK(job) /\ c = SaveImportJob(job) /\ job.imported = << >> /\ job.skipped = 0
        BY <3>2 DEF Asks
      <4>2. c \in JobSaves
        BY <4>1, JobEntryType DEF JobOK
      <4>3. Saves(p)
        BY <1>2, <4>1, <4>2 DEF Saves
      <4> QED
        BY <1>2, <2>3, <4>3 DEF AtSave
    <3> QED
      BY <3>1, <3>2
  <2> QED
    BY <1>4, <2>1, <2>2, <2>3
<1>6. proc' = [proc EXCEPT ![w] = p]
  BY <1>1 DEF Begin
<1>7. ProcOK' /\ OthersStay(w) /\ proc'[w] = p
  BY <1>3, <1>5, <1>6, OneWorkerMoves DEF TypeOK, IsRequest
<1>8. p # Idle
  BY <1>2, <1>4 DEF Idle
<1> QED
  BY <1>2, <1>7, <1>8 DEF Begin, TypeOK, RestOK

(* A job that fails is saved as it is. *)
LEMMA FailJobFacts ==
  ASSUME TypeOK, NEW w \in Workers, IsRequest(proc[w]), JobOK(proc[w].job), FailJob(w)
  PROVE  /\ ProcOK' /\ OthersStay(w)
         /\ proc'[w].pc = "load" /\ JobOK(proc'[w].job) /\ proc'[w].job.status = "failed"
         /\ proc'[w].job.id = proc[w].job.id /\ Done(proc'[w].job) = Done(proc[w].job)
         /\ proc'[w].change = SaveImportJob(proc'[w].job)
         /\ proc'[w] # Idle
<1>1. PICK job : job = [proc[w].job EXCEPT !.status = "failed"]
  OBVIOUS
<1>2. /\ JobOK(job) /\ job.status = "failed" /\ job.id = proc[w].job.id
      /\ job.imported = proc[w].job.imported /\ job.skipped = proc[w].job.skipped
  BY <1>1, StatusChange DEF JobStatuses
<1>3. PICK p : p = [proc[w] EXCEPT !.pc = "load", !.job = job, !.change = SaveImportJob(job)]
  OBVIOUS
<1>4. proc' = [proc EXCEPT ![w] = p]
  BY <1>1, <1>3 DEF FailJob, SaveOf, TypeOK, ProcOK
<1>5. p.pc = "load" /\ p.job = job /\ p.change = SaveImportJob(job)
  BY <1>3 DEF IsRequest, WellFormed
<1>6. WellFormed(p)
  BY <1>3 DEF IsRequest, WellFormed
<1>7. SaveImportJob(job) \in JobSaves
  BY <1>2, JobEntryType DEF JobOK
<1>8. IsRequest(p)
  <2>1. Saves(p)
    BY <1>2, <1>5, <1>7 DEF Saves
  <2> QED
    BY <1>5, <1>6, <2>1 DEF IsRequest, AtSave
<1>9. Done(job) = Done(proc[w].job)
  BY <1>2 DEF Done
<1>10. ProcOK' /\ OthersStay(w) /\ proc'[w] = p
  BY <1>4, <1>8, OneWorkerMoves DEF TypeOK
<1>11. p # Idle
  BY <1>5 DEF Idle
<1> QED
  BY <1>2, <1>5, <1>9, <1>10, <1>11

LEMMA ImportRefusedFacts ==
  ASSUME TypeOK, NEW w \in Workers, ImportRefused(w)
  PROVE  IsRequest(proc[w]) /\ AtImport(proc[w]) /\ JobOK(proc[w].job) /\ FailJob(w)
         /\ Keep
<1>1. IsRequest(proc[w]) /\ proc[w].pc = "list"
  BY BusyWorker DEF ImportRefused, TypeOK
<1> QED
  BY <1>1 DEF ImportRefused, IsRequest, AtGet, AtCheck, AtSave, AtImport

LEMMA ImportListedFacts ==
  ASSUME TypeOK, NEW w \in Workers, ImportListed(w)
  PROVE  /\ proc[w].pc = "list" /\ AtImport(proc[w]) /\ ProcOK' /\ OthersStay(w) /\ Keep
         /\ proc'[w].pc = "source" /\ JobOK(proc'[w].job) /\ proc'[w].job.imported = << >>
         /\ proc'[w].job.id = proc[w].job.id /\ Done(proc'[w].job) = Done(proc[w].job)
         /\ proc'[w] # Idle
<1>1. IsRequest(proc[w]) /\ proc[w].pc = "list" /\ AtImport(proc[w])
  BY BusyWorker DEF ImportListed, TypeOK, IsRequest, AtGet, AtCheck, AtSave, AtImport
<1>2. PICK K : K = {file.docs[d].content : d \in ListBySpace(file, proc[w].job.space)}
  OBVIOUS
<1>3. K \in SUBSET Contents
  <2>1. \A d \in ListBySpace(file, proc[w].job.space) : file.docs[d] \in Document
    BY SpacesOnFile DEF ListBySpace
  <2> QED
    BY <1>2, <2>1 DEF Document
<1>4. PICK job : job = [proc[w].job EXCEPT !.known = K]
  OBVIOUS
<1>5. /\ JobOK(job) /\ job.status = "running" /\ job.id = proc[w].job.id
      /\ job.imported = << >> /\ Done(job) = Done(proc[w].job)
  <2>1. /\ JobOK(proc[w].job) /\ proc[w].job.status = "running"
        /\ proc[w].job.imported = << >>
    BY <1>1 DEF AtImport
  <2>2. /\ job.status = "running" /\ job.id = proc[w].job.id /\ job.imported = << >>
        /\ job.skipped = proc[w].job.skipped /\ job.sources = proc[w].job.sources
    BY <1>4, <2>1 DEF JobOK, ImportJob
  <2>3. job \in ImportJob
    BY <1>3, <1>4, <2>1 DEF JobOK, ImportJob
  <2> QED
    BY <2>1, <2>2, <2>3 DEF JobOK, Done
<1>6. PICK p : p = [proc[w] EXCEPT !.pc = "source", !.job = job]
  OBVIOUS
<1>7. proc' = [proc EXCEPT ![w] = p]
  BY <1>1, <1>2, <1>4, <1>6 DEF ImportListed, TypeOK, ProcOK, IsRequest, WellFormed
<1>8. p.pc = "source" /\ p.job = job
  BY <1>1, <1>6 DEF IsRequest, WellFormed
<1>9. WellFormed(p)
  BY <1>1, <1>6 DEF IsRequest, WellFormed
<1>10. IsRequest(p)
  BY <1>5, <1>8, <1>9 DEF IsRequest, AtImport
<1>11. ProcOK' /\ OthersStay(w) /\ proc'[w] = p
  BY <1>7, <1>10, OneWorkerMoves DEF TypeOK
<1>12. p # Idle
  BY <1>8 DEF Idle
<1>13. Keep
  BY DEF ImportListed
<1> QED
  BY <1>1, <1>5, <1>8, <1>11, <1>12, <1>13

(* The next source of a job. *)
LEMMA SourceType ==
  ASSUME NEW job, JobOK(job), Done(job) < Len(job.sources), Source(job) # BadSource
  PROVE  /\ Source(job) \in Contents /\ Done(job) + 1 \in 1..MaxSources /\ job.id \in Jobs
         /\ job.space \in Spaces
         /\ <<job.id, Done(job) + 1>> \in Imported /\ <<job.id, Done(job) + 1>> \in IDs
<1>1. Done(job) \in Nat /\ Len(job.sources) \in Nat /\ Done(job) + 1 \in 1..Len(job.sources)
  BY DoneIsNat DEF JobOK
<1>2. job.sources[Done(job) + 1] \in Contents \cup {BadSource}
  BY <1>1, ElementOfSeq DEF JobOK, ImportJob
<1>3. Done(job) + 1 \in 1..MaxSources
  BY <1>1, KnowledgeAssumption DEF JobOK
<1>4. job.id \in Jobs /\ job.space \in Spaces
  BY DEF JobOK, ImportJob
<1> QED
  BY <1>2, <1>3, <1>4 DEF Source, Imported, IDs

LEMMA ImportSourceFacts ==
  ASSUME TypeOK, NEW w \in Workers, ImportSource(w)
  PROVE  /\ IsRequest(proc[w]) /\ proc[w].pc = "source" /\ AtImport(proc[w]) /\ Keep
         /\ \/ FailJob(w)
            \/ /\ ProcOK' /\ OthersStay(w) /\ proc'[w] # Idle
               /\ proc'[w].pc = "source" /\ JobOK(proc'[w].job)
               /\ proc'[w].job.id = proc[w].job.id
               /\ proc'[w].job.imported = proc[w].job.imported
               /\ proc'[w].job.known = proc[w].job.known
               /\ Done(proc'[w].job) = Done(proc[w].job) + 1
            \/ /\ ProcOK' /\ OthersStay(w) /\ proc'[w] # Idle
               /\ proc'[w].pc = "load" /\ proc'[w].job = proc[w].job
               /\ proc'[w].change \in Edits /\ UploadsNext(proc'[w].change, proc[w].job)
               /\ proc[w].job.space \in OpenSpaces(file)
<1> DEFINE job == proc[w].job
<1>1. IsRequest(proc[w]) /\ proc[w].pc = "source" /\ AtImport(proc[w])
  BY BusyWorker DEF ImportSource, TypeOK, IsRequest, AtGet, AtCheck, AtSave, AtImport
<1>2. JobOK(job) /\ job.status = "running" /\ Done(job) < Len(job.sources)
  BY <1>1 DEF AtImport, ImportSource
<1>3. Keep
  BY DEF ImportSource
<1>4. CASE proc' = [proc EXCEPT ![w].job.skipped = @ + 1]
  <2>1. PICK next : next = [job EXCEPT !.skipped = @ + 1]
    OBVIOUS
  <2>2. /\ JobOK(next) /\ next.status = "running" /\ next.id = job.id
        /\ next.imported = job.imported /\ next.known = job.known
        /\ Done(next) = Done(job) + 1
    BY <1>2, <2>1, SkippedType
  <2>3. PICK p : p = [proc[w] EXCEPT !.job = next]
    OBVIOUS
  <2>4. proc' = [proc EXCEPT ![w] = p]
    BY <1>1, <1>4, <2>1, <2>3 DEF TypeOK, ProcOK, IsRequest, WellFormed
  <2>5. p.pc = "source" /\ p.job = next /\ WellFormed(p)
    BY <1>1, <2>3 DEF IsRequest, WellFormed
  <2>6. IsRequest(p)
    BY <2>2, <2>5 DEF IsRequest, AtImport
  <2>7. ProcOK' /\ OthersStay(w) /\ proc'[w] = p
    BY <2>4, <2>6, OneWorkerMoves DEF TypeOK
  <2>8. p # Idle
    BY <2>5 DEF Idle
  <2> QED
    BY <1>1, <1>3, <2>2, <2>5, <2>7, <2>8
<1>5. CASE /\ Source(job) \notin job.known \cup {BadSource} /\ Writable(job.space)
           /\ proc' = [proc EXCEPT ![w].pc = "load",
                ![w].change = SaveKnowledge("import", <<job.id, Done(job) + 1>>,
                                            ImportedAs(job, Source(job)))]
  <2> DEFINE c == SaveKnowledge("import", <<job.id, Done(job) + 1>>, ImportedAs(job, Source(job)))
  <2>1. /\ Source(job) \in Contents \ job.known /\ job.space \in Spaces
        /\ <<job.id, Done(job) + 1>> \in IDs
    BY <1>2, <1>5, SourceType
  <2>2. ImportedAs(job, Source(job)) \in Document
    BY <2>1, UploadType DEF ImportedAs
  <2>3. c \in Edits /\ UploadsNext(c, job)
    BY <1>2, <2>1, <2>2 DEF SaveKnowledge, Edits, EditKinds, UploadsNext
  <2> HIDE DEF c
  <2>4. PICK p : p = [proc[w] EXCEPT !.pc = "load", !.change = c]
    OBVIOUS
  <2>5. proc' = [proc EXCEPT ![w] = p]
    BY <1>1, <1>5, <2>4 DEF TypeOK, ProcOK, IsRequest, WellFormed, c
  <2>6. p.pc = "load" /\ p.job = job /\ p.change = c /\ WellFormed(p)
    BY <1>1, <2>4 DEF IsRequest, WellFormed
  <2>7. IsRequest(p)
    BY <1>2, <2>3, <2>6 DEF IsRequest, AtSave, Saves
  <2>8. ProcOK' /\ OthersStay(w) /\ proc'[w] = p
    BY <2>5, <2>7, OneWorkerMoves DEF TypeOK
  <2>9. p # Idle
    BY <2>6 DEF Idle
  <2>10. job.space \in OpenSpaces(file)
    BY <1>5, <2>1 DEF Writable, OpenSpaces
  <2> QED
    BY <1>1, <1>3, <2>3, <2>6, <2>8, <2>9, <2>10
<1> QED
  BY <1>1, <1>3, <1>4, <1>5 DEF ImportSource

LEMMA ImportEndsFacts ==
  ASSUME TypeOK, NEW w \in Workers, ImportEnds(w)
  PROVE  /\ proc[w].pc = "source" /\ AtImport(proc[w]) /\ Keep
         /\ ProcOK' /\ OthersStay(w) /\ proc'[w] # Idle
         /\ proc'[w].pc = "load" /\ JobOK(proc'[w].job)
         /\ proc'[w].job.status \in {"partial", "completed"}
         /\ proc'[w].job.id = proc[w].job.id
         /\ proc'[w].job.imported = proc[w].job.imported
         /\ proc'[w].job.skipped = proc[w].job.skipped
         /\ proc'[w].job.sources = proc[w].job.sources
         /\ Done(proc[w].job) = Len(proc[w].job.sources)
         /\ proc'[w].change = SaveImportJob(proc'[w].job)
<1>1. IsRequest(proc[w]) /\ proc[w].pc = "source" /\ AtImport(proc[w])
  BY BusyWorker DEF ImportEnds, TypeOK, IsRequest, AtGet, AtCheck, AtSave, AtImport
<1>2. PICK job : job = Closed(proc[w].job)
  OBVIOUS
<1>3. /\ JobOK(job) /\ job.status \in {"partial", "completed"} /\ job.id = proc[w].job.id
      /\ job.imported = proc[w].job.imported /\ job.skipped = proc[w].job.skipped
      /\ job.sources = proc[w].job.sources
  BY <1>1, <1>2, ClosedType DEF AtImport
<1>4. PICK p : p = [proc[w] EXCEPT !.pc = "load", !.job = job, !.change = SaveImportJob(job)]
  OBVIOUS
<1>5. proc' = [proc EXCEPT ![w] = p]
  BY <1>2, <1>4 DEF ImportEnds, SaveOf, TypeOK, ProcOK
<1>6. p.pc = "load" /\ p.job = job /\ p.change = SaveImportJob(job) /\ WellFormed(p)
  BY <1>1, <1>4 DEF IsRequest, WellFormed
<1>7. SaveImportJob(job) \in JobSaves
  BY <1>3, JobEntryType DEF JobOK
<1>8. IsRequest(p)
  <2>1. Saves(p)
    BY <1>3, <1>6, <1>7 DEF Saves
  <2> QED
    BY <1>6, <2>1 DEF IsRequest, AtSave
<1>9. ProcOK' /\ OthersStay(w) /\ proc'[w] = p
  BY <1>5, <1>8, OneWorkerMoves DEF TypeOK
<1>10. p # Idle
  BY <1>6 DEF Idle
<1> QED
  BY <1>1, <1>3, <1>6, <1>9, <1>10 DEF ImportEnds

LEMMA ReindexCheckFacts ==
  ASSUME TypeOK, NEW w \in Workers, ReindexCheck(w)
  PROVE  /\ AtCheck(proc[w]) /\ Keep /\ ProcOK' /\ OthersStay(w)
         /\ \/ proc'[w] = Idle
            \/ /\ proc'[w].pc = "load" /\ proc'[w].change = proc[w].change
               /\ proc'[w].job = None /\ proc'[w] # Idle
               /\ proc[w].change.value.space \in OpenSpaces(file)
<1>1. IsRequest(proc[w]) /\ AtCheck(proc[w])
  BY BusyWorker DEF ReindexCheck, TypeOK, IsRequest, AtGet, AtCheck, AtSave, AtImport
<1>2. CASE proc' = [proc EXCEPT ![w] = Idle]
  BY <1>1, <1>2, OneWorkerMoves DEF ReindexCheck, TypeOK
<1>3. CASE Writable(proc[w].change.value.space) /\ Goto(w, "load")
  <2>1. PICK p : p = [proc[w] EXCEPT !.pc = "load"]
    OBVIOUS
  <2>2. proc' = [proc EXCEPT ![w] = p]
    BY <1>3, <2>1 DEF Goto, TypeOK, ProcOK
  <2>3. p.pc = "load" /\ p.job = None /\ p.change = proc[w].change /\ WellFormed(p)
    BY <1>1, <2>1 DEF IsRequest, WellFormed, AtCheck
  <2>4. IsRequest(p)
    BY <1>1, <2>3 DEF IsRequest, AtSave, Saves, AtCheck
  <2>5. ProcOK' /\ OthersStay(w) /\ proc'[w] = p
    BY <2>2, <2>4, OneWorkerMoves DEF TypeOK
  <2>6. proc[w].change.value.space \in OpenSpaces(file)
    BY <1>1, <1>3 DEF AtCheck, Edits, Document, Writable, OpenSpaces
  <2>7. p # Idle
    BY <2>3 DEF Idle
  <2> QED
    BY <1>1, <2>3, <2>5, <2>6, <2>7 DEF ReindexCheck
<1> QED
  BY <1>2, <1>3 DEF ReindexCheck

LEMMA MoveGetFacts ==
  ASSUME TypeOK, NEW w \in Workers, MoveGet(w)
  PROVE  /\ AtGet(proc[w]) /\ Keep /\ ProcOK' /\ OthersStay(w)
         /\ \/ proc'[w] = Idle
            \/ /\ proc'[w].pc = "load" /\ proc'[w].change \in Edits /\ proc'[w].job = None
               /\ proc'[w].change.kind = "move" /\ proc'[w].change.key = proc[w].change.key
               /\ proc[w].change.key \in Present /\ proc'[w] # Idle
               /\ proc'[w].change.value.space = proc[w].change.value.space
               /\ proc'[w].change.value.review = file.docs[proc[w].change.key].review
<1> DEFINE d == proc[w].change.key
<1>1. IsRequest(proc[w]) /\ AtGet(proc[w])
  BY BusyWorker DEF MoveGet, TypeOK, IsRequest, AtGet, AtCheck, AtSave, AtImport
<1>2. CASE file.docs[d] = None
  <2>1. proc' = [proc EXCEPT ![w] = Idle]
    BY <1>2 DEF MoveGet
  <2> QED
    BY <1>1, <2>1, OneWorkerMoves DEF MoveGet, TypeOK
<1>3. CASE file.docs[d] # None
  <2>1. d \in IDs /\ proc[w].change.value.space \in Spaces
    BY <1>1 DEF AtGet, Moves
  <2>2. d \in Present /\ file.docs[d] \in Document
    BY <1>3, <2>1, SpacesOnFile DEF Present
  <2>3. PICK doc : doc = [file.docs[d] EXCEPT !.space = proc[w].change.value.space]
    OBVIOUS
  <2>4. /\ doc \in Document /\ doc.space = proc[w].change.value.space
        /\ doc.review = file.docs[d].review
    BY <2>1, <2>2, <2>3 DEF Document
  <2>5. PICK c : c = [proc[w].change EXCEPT !.value = doc]
    OBVIOUS
  <2>6. c \in Edits /\ c.kind = "move" /\ c.key = d /\ c.value = doc
    BY <1>1, <2>4, <2>5 DEF AtGet, Moves, Edits, EditKinds
  <2>7. PICK p : p = [proc[w] EXCEPT !.pc = "load", !.change = c]
    OBVIOUS
  <2>8. proc' = [proc EXCEPT ![w] = [proc[w] EXCEPT !.pc = "load", !.change.value = doc]]
    BY <1>3, <2>3 DEF MoveGet, TypeOK, ProcOK
  <2>9. proc' = [proc EXCEPT ![w] = p]
    BY <1>1, <2>5, <2>7, <2>8 DEF IsRequest, WellFormed
  <2>10. p.pc = "load" /\ p.job = None /\ p.change = c /\ WellFormed(p)
    BY <1>1, <2>7 DEF IsRequest, WellFormed, AtGet
  <2>11. IsRequest(p)
    BY <2>6, <2>10 DEF IsRequest, AtSave, Saves
  <2>12. ProcOK' /\ OthersStay(w) /\ proc'[w] = p
    BY <2>9, <2>11, OneWorkerMoves DEF TypeOK
  <2>13. p # Idle
    BY <2>10 DEF Idle
  <2> QED
    BY <1>1, <2>2, <2>4, <2>6, <2>10, <2>12, <2>13 DEF MoveGet
<1> QED
  BY <1>2, <1>3

LEMMA LoadFacts ==
  ASSUME TypeOK, NEW w \in Workers, Load(w)
  PROVE  /\ IsRequest(proc[w]) /\ AtSave(proc[w]) /\ Keep /\ ProcOK' /\ OthersStay(w)
         /\ proc[w].pc = "load"
         /\ \/ proc'[w] = Idle
            \/ /\ proc'[w].pc = "write" /\ proc'[w].change = proc[w].change
               /\ proc'[w].job = proc[w].job /\ proc'[w].next = Apply(file, proc[w].change)
               /\ proc'[w] # Idle
<1>1. IsRequest(proc[w]) /\ AtSave(proc[w]) /\ proc[w].pc = "load"
  BY BusyWorker DEF Load, TypeOK, IsRequest, AtGet, AtCheck, AtSave, AtImport
<1>2. CASE proc' = [proc EXCEPT ![w] = Idle]
  BY <1>1, <1>2, OneWorkerMoves DEF Load, TypeOK
<1>3. CASE proc' = [proc EXCEPT ![w] = [proc[w] EXCEPT !.pc = "write",
                                                    !.next = Apply(file, proc[w].change)]]
  <2>1. PICK f : f = Apply(file, proc[w].change)
    OBVIOUS
  <2>2. f \in FileOf
    BY <1>1, <2>1, ApplyFields DEF AtSave, Saves, TypeOK
  <2>3. PICK p : p = [proc[w] EXCEPT !.pc = "write", !.next = f]
    OBVIOUS
  <2>4. proc' = [proc EXCEPT ![w] = p]
    BY <1>3, <2>1, <2>3
  <2>5. /\ p.pc = "write" /\ p.job = proc[w].job /\ p.change = proc[w].change /\ p.next = f
        /\ WellFormed(p)
    BY <1>1, <2>3 DEF IsRequest, WellFormed
  <2>6. IsRequest(p)
    BY <1>1, <2>2, <2>5 DEF IsRequest, AtSave, Saves
  <2>7. ProcOK' /\ OthersStay(w) /\ proc'[w] = p
    BY <2>4, <2>6, OneWorkerMoves DEF TypeOK
  <2>8. p # Idle
    BY <2>5 DEF Idle
  <2> QED
    BY <1>1, <2>1, <2>5, <2>7, <2>8 DEF Load
<1> QED
  BY <1>2, <1>3 DEF Load, TypeOK, ProcOK

LEMMA SaveFailsFacts ==
  ASSUME TypeOK, NEW w \in Workers, SaveFails(w)
  PROVE  /\ IsRequest(proc[w]) /\ AtSave(proc[w]) /\ Keep
         /\ \/ ProcOK' /\ OthersStay(w) /\ proc'[w] = Idle
            \/ /\ JobOK(proc[w].job) /\ proc[w].change.part = "docs"
               /\ UploadsNext(proc[w].change, proc[w].job) /\ FailJob(w)
<1>1. IsRequest(proc[w]) /\ AtSave(proc[w])
  BY BusyWorker DEF SaveFails, TypeOK, IsRequest, AtGet, AtCheck, AtSave, AtImport
<1>2. CASE proc[w].job # None /\ proc[w].change.part = "docs"
  <2>1. JobOK(proc[w].job) /\ UploadsNext(proc[w].change, proc[w].job)
    BY <1>1, <1>2 DEF AtSave, Saves, JobSaves
  <2> QED
    BY <1>1, <1>2, <2>1 DEF SaveFails
<1>3. CASE ~(proc[w].job # None /\ proc[w].change.part = "docs")
  <2>1. proc' = [proc EXCEPT ![w] = Idle]
    BY <1>3 DEF SaveFails
  <2> QED
    BY <1>1, <2>1, OneWorkerMoves DEF SaveFails, TypeOK
<1> QED
  BY <1>2, <1>3

LEMMA WriteFacts ==
  ASSUME TypeOK, NEW w \in Workers, Write(w)
  PROVE  /\ IsRequest(proc[w]) /\ AtSave(proc[w]) /\ ProcOK' /\ OthersStay(w)
         /\ proc[w].pc = "write" /\ file' = proc[w].next
         /\ \/ proc'[w] = Idle
            \/ /\ proc[w].change = SaveImportJob(proc[w].job) /\ JobOK(proc[w].job)
               /\ proc'[w].pc = "list" /\ proc'[w].job = proc[w].job
               /\ proc[w].job.imported = << >> /\ proc[w].job.skipped = 0
               /\ proc'[w] # Idle
            \/ /\ proc[w].change \in Edits /\ JobOK(proc[w].job)
               /\ UploadsNext(proc[w].change, proc[w].job)
               /\ proc'[w].pc = "source" /\ JobOK(proc'[w].job)
               /\ proc'[w].job = Counted(proc[w].job, proc[w].change.key,
                                         proc[w].change.value.content)
               /\ proc'[w].job.id = proc[w].job.id
               /\ proc'[w].job.imported = Append(proc[w].job.imported, proc[w].change.key)
               /\ proc'[w].job.known = proc[w].job.known \cup {proc[w].change.value.content}
               /\ Done(proc'[w].job) = Done(proc[w].job) + 1
               /\ proc'[w] # Idle
<1> DEFINE c == proc[w].change
           job == proc[w].job
<1>1. IsRequest(proc[w]) /\ AtSave(proc[w]) /\ proc[w].pc = "write"
  BY BusyWorker DEF Write, TypeOK, IsRequest, AtGet, AtCheck, AtSave, AtImport
<1>2. proc' = [proc EXCEPT ![w] = Saved(proc[w])] /\ file' = proc[w].next
  BY DEF Write, TypeOK, ProcOK
<1>3. CASE job = None \/ (c.part = "jobs" /\ job.status # "running")
  <2>1. proc' = [proc EXCEPT ![w] = Idle]
    BY <1>2, <1>3 DEF Saved
  <2> QED
    BY <1>1, <1>2, <2>1, OneWorkerMoves DEF TypeOK
<1>4. CASE job # None /\ c.part = "jobs" /\ job.status = "running"
  <2>1. JobOK(job) /\ c = SaveImportJob(job) /\ job.imported = << >> /\ job.skipped = 0
    BY <1>1, <1>4 DEF AtSave, Saves, Edits
  <2>2. PICK p : p = [proc[w] EXCEPT !.pc = "list", !.next = None]
    OBVIOUS
  <2>3. proc' = [proc EXCEPT ![w] = p]
    BY <1>2, <1>4, <2>2 DEF Saved
  <2>4. p.pc = "list" /\ p.job = job /\ WellFormed(p)
    BY <1>1, <2>2 DEF IsRequest, WellFormed
  <2>5. IsRequest(p)
    BY <1>4, <2>1, <2>4 DEF IsRequest, AtImport
  <2>6. ProcOK' /\ OthersStay(w) /\ proc'[w] = p
    BY <2>3, <2>5, OneWorkerMoves DEF TypeOK
  <2>7. p # Idle
    BY <2>4 DEF Idle
  <2> QED
    BY <1>1, <1>2, <2>1, <2>4, <2>6, <2>7
<1>5. CASE job # None /\ c.part # "jobs"
  <2>1. JobOK(job) /\ c \in Edits /\ UploadsNext(c, job)
    BY <1>1, <1>5 DEF AtSave, Saves, JobSaves
  <2>2. /\ Source(job) \in Contents /\ <<job.id, Done(job) + 1>> \in Imported
        /\ c.key = <<job.id, Done(job) + 1>> /\ Done(job) < Len(job.sources)
        /\ job.status = "running"
    BY <2>1, SourceType, KnowledgeAssumption DEF UploadsNext
  <2>3. c.value.content = Source(job)
    <3>1. job.space \in Spaces
      BY <2>1 DEF JobOK, ImportJob
    <3> QED
      BY <2>1, <2>2, <3>1, UploadType DEF UploadsNext, ImportedAs
  <2>4. PICK next : next = Counted(job, c.key, c.value.content)
    OBVIOUS
  <2>5. /\ JobOK(next) /\ next.status = "running" /\ next.id = job.id
        /\ next.imported = Append(job.imported, c.key)
        /\ next.known = job.known \cup {c.value.content}
        /\ Done(next) = Done(job) + 1
    <3>1. c.key \in Imported /\ c.value.content \in Contents
      BY <2>2, <2>3
    <3> HIDE DEF c, job
    <3>2. /\ JobOK(Counted(job, c.key, c.value.content))
          /\ Counted(job, c.key, c.value.content).status = job.status
          /\ Counted(job, c.key, c.value.content).id = job.id
          /\ Counted(job, c.key, c.value.content).imported = Append(job.imported, c.key)
          /\ Counted(job, c.key, c.value.content).known = job.known \cup {c.value.content}
          /\ Done(Counted(job, c.key, c.value.content)) = Done(job) + 1
      BY <2>1, <2>2, <3>1, CountedType
    <3> QED
      BY <2>2, <2>4, <3>2
  <2>6. PICK p : p = [proc[w] EXCEPT !.pc = "source", !.next = None, !.job = next]
    OBVIOUS
  <2>7. proc' = [proc EXCEPT ![w] = p]
    BY <1>2, <1>5, <2>4, <2>6 DEF Saved
  <2>8. p.pc = "source" /\ p.job = next /\ WellFormed(p)
    BY <1>1, <2>6 DEF IsRequest, WellFormed
  <2>9. IsRequest(p)
    BY <2>5, <2>8 DEF IsRequest, AtImport
  <2>10. ProcOK' /\ OthersStay(w) /\ proc'[w] = p
    BY <2>7, <2>9, OneWorkerMoves DEF TypeOK
  <2>11. p # Idle
    BY <2>8 DEF Idle
  <2> QED
    BY <1>1, <1>2, <2>1, <2>4, <2>5, <2>8, <2>10, <2>11
<1> QED
  BY <1>3, <1>4, <1>5

LEMMA InitType == Init => TypeOK
<1> SUFFICES ASSUME Init PROVE TypeOK
  OBVIOUS
<1>1. file \in FileOf
  BY DEF Init, EmptyFile, FileOf
<1>2. ProcOK
  BY DEF Init, ProcOK
<1>3. RestOK
  BY DEF Init, RestOK
<1> QED
  BY <1>1, <1>2, <1>3 DEF TypeOK

(* The rest of a step that leaves the file and the histories of saves alone. *)
LEMMA KeepsType ==
  ASSUME TypeOK, ProcOK', Watch, UNCHANGED <<file, decisions>>,
         requests' \in Nat, crashes' \in Nat
  PROVE  TypeOK'
<1>1. RestOK'
  BY DEF TypeOK, RestOK, Watch
<1> QED
  BY <1>1 DEF TypeOK, FileOf

LEMMA KeepGives == TypeOK /\ Keep => /\ requests' \in Nat /\ crashes' \in Nat
                                     /\ UNCHANGED <<file, decisions>>
  BY DEF TypeOK, RestOK, Keep

LEMMA WriteType ==
  ASSUME TypeOK, Watch, NEW w \in Workers, Write(w)
  PROVE  TypeOK'
<1>1. AtSave(proc[w]) /\ ProcOK' /\ proc[w].pc = "write" /\ file' = proc[w].next
  BY WriteFacts
<1>2. file' \in FileOf
  BY <1>1 DEF AtSave
<1>3. /\ decisions' = [d \in IDs |-> decisions'[d]]
      /\ \A d \in IDs : decisions'[d] \in Seq({"pending_review", "active", "rejected", "archived"})
  <2>1. CASE Decides(proc[w].change)
    <3>1. proc[w].change \in Edits
      BY <1>1, <2>1 DEF AtSave, Saves, Decides, Deletes, SpaceSaves, JobSaves
    <3>2. /\ proc[w].change.key \in IDs
          /\ proc[w].change.value.review \in {"pending_review", "active", "rejected", "archived"}
      BY <3>1 DEF Edits, Document
    <3> DEFINE d == proc[w].change.key
               r == proc[w].change.value.review
    <3>3. decisions' = [decisions EXCEPT ![d] = Append(decisions[d], r)]
      BY <2>1 DEF Write
    <3> HIDE DEF d, r
    <3>4. decisions = [e \in IDs |-> decisions[e]]
      BY DEF TypeOK, RestOK
    <3>5. \A e \in IDs : decisions'[e] = IF e = d THEN Append(decisions[d], r) ELSE decisions[e]
      BY <3>3, <3>4
    <3>6. decisions' = [e \in IDs |-> decisions'[e]]
      BY <3>3, <3>4
    <3>7. /\ Append(decisions[d], r) \in Seq({"pending_review", "active", "rejected", "archived"})
      BY <3>2, AppendProperties DEF TypeOK, RestOK, d, r
    <3> QED
      BY <3>5, <3>6, <3>7 DEF TypeOK, RestOK
  <2>2. CASE ~Decides(proc[w].change)
    BY <2>2 DEF Write, TypeOK, RestOK
  <2> QED
    BY <2>1, <2>2
<1>4. RestOK'
  BY <1>3 DEF Write, TypeOK, RestOK, Watch
<1>5. FileOf' = FileOf
  BY DEF FileOf
<1> QED
  BY <1>1, <1>2, <1>4, <1>5 DEF TypeOK

LEMMA NextType == TypeOK /\ [Next]_vars => TypeOK'
<1> SUFFICES ASSUME TypeOK, [Next]_vars PROVE TypeOK'
  OBVIOUS
<1>1. ASSUME Watch, NEW w \in Workers, Arrives(w) PROVE TypeOK'
  <2>1. ProcOK' /\ UNCHANGED <<file, decisions, crashes>> /\ requests' \in Nat
    BY <1>1, ArrivalAsks, BeginFacts
  <2> QED
    BY <1>1, <2>1, KeepsType DEF TypeOK, RestOK
<1>2. ASSUME Watch, NEW w \in Workers,
             ImportRefused(w) \/ ImportListed(w) \/ ImportSource(w) \/ ImportEnds(w)
               \/ ReindexCheck(w) \/ MoveGet(w) \/ Load(w) \/ SaveFails(w)
      PROVE  TypeOK'
  <2>1. Keep
    BY <1>2, ImportRefusedFacts, ImportListedFacts, ImportSourceFacts, ImportEndsFacts,
       ReindexCheckFacts, MoveGetFacts, LoadFacts, SaveFailsFacts
  <2>2. CASE ImportRefused(w)
    BY <1>2, <2>1, <2>2, ImportRefusedFacts, FailJobFacts, KeepsType, KeepGives
  <2>3. CASE ImportSource(w)
    BY <1>2, <2>1, <2>3, ImportSourceFacts, FailJobFacts, KeepsType, KeepGives DEF AtImport
  <2>4. CASE SaveFails(w)
    BY <1>2, <2>1, <2>4, SaveFailsFacts, FailJobFacts, KeepsType, KeepGives
  <2>5. CASE ImportListed(w) \/ ImportEnds(w)
    BY <1>2, <2>1, <2>5, ImportListedFacts, ImportEndsFacts, KeepsType, KeepGives
  <2>6. CASE ReindexCheck(w) \/ MoveGet(w) \/ Load(w)
    BY <1>2, <2>1, <2>6, ReindexCheckFacts, MoveGetFacts, LoadFacts, KeepsType, KeepGives
  <2> QED
    BY <1>2, <2>2, <2>3, <2>4, <2>5, <2>6
<1>3. CASE Crash /\ Watch
  <2>1. ProcOK'
    BY <1>3 DEF Crash, ProcOK
  <2> QED
    BY <1>3, <2>1, KeepsType DEF Crash, TypeOK, RestOK
<1>4. CASE UNCHANGED vars
  <2>1. ProcOK'
    BY <1>4 DEF vars, TypeOK, ProcOK
  <2> QED
    BY <1>4, <2>1 DEF vars, TypeOK, RestOK, FileOf
<1> QED
  BY <1>1, <1>2, <1>3, <1>4, WriteType DEF Next, Step, Arrives

(* Every record of the file keeps its type, whatever saves race: a document, a  *)
(* space and a job are each written whole, in their own part of the file.       *)
THEOREM TypeCorrect == Spec => []TypeOK
  BY InitType, NextType, PTL DEF Spec

-----------------------------------------------------------------------------
(* Review *)

(* A save that decides adds the decision; every other step leaves them alone. *)
LEMMA DecisionsGrow ==
  ASSUME TypeOK, [Next]_vars
  PROVE  \/ decisions' = decisions
         \/ \E w \in Workers :
              LET c == proc[w].change IN
              /\ Write(w) /\ Decides(c) /\ c \in Edits
              /\ \A d \in IDs : decisions'[d] = IF d = c.key THEN Append(decisions[d], c.value.review)
                                                ELSE decisions[d]
<1>1. ASSUME NEW w \in Workers, Write(w), Decides(proc[w].change)
      PROVE  LET c == proc[w].change IN
             /\ c \in Edits
             /\ \A d \in IDs : decisions'[d] = IF d = c.key THEN Append(decisions[d], c.value.review)
                                               ELSE decisions[d]
  <2>1. proc[w].change \in Edits
    BY <1>1, WriteFacts DEF AtSave, Saves, Decides, Deletes, SpaceSaves, JobSaves
  <2>2. decisions' = [decisions EXCEPT ![proc[w].change.key] = Append(@, proc[w].change.value.review)]
    BY <1>1 DEF Write
  <2> QED
    BY <2>1, <2>2 DEF TypeOK, RestOK
<1>2. ASSUME NEW w \in Workers, Write(w), ~Decides(proc[w].change) PROVE decisions' = decisions
  BY <1>2 DEF Write
<1>3. ASSUME NEW w \in Workers, Step(w), ~Write(w) PROVE decisions' = decisions
  BY <1>3, ArrivalAsks, BeginFacts, ImportRefusedFacts, ImportListedFacts, ImportSourceFacts,
     ImportEndsFacts, ReindexCheckFacts, MoveGetFacts, LoadFacts, SaveFailsFacts
     DEF Step, Arrives, Keep
<1> QED
  BY <1>1, <1>2, <1>3 DEF Next, vars, Crash

LEMMA ActivatedStays ==
  ASSUME TypeOK, [Next]_vars, NEW d \in IDs, Activated(d)
  PROVE  Activated(d)'
<1>1. PICK i \in 1..Len(decisions[d]) : decisions[d][i] = "active"
  BY DEF Activated
<1>2. decisions[d] \in Seq({"pending_review", "active", "rejected", "archived"})
  BY DEF TypeOK, RestOK
<1>3. CASE decisions' = decisions
  BY <1>3 DEF Activated
<1>4. ASSUME NEW r \in {"pending_review", "active", "rejected", "archived"},
             decisions'[d] = Append(decisions[d], r)
      PROVE  Activated(d)'
  <2>1. i \in 1..Len(decisions'[d]) /\ decisions'[d][i] = "active"
    BY <1>1, <1>2, <1>4, AppendProperties
  <2> QED
    BY <2>1 DEF Activated
<1>5. CASE decisions'[d] = decisions[d]
  BY <1>1, <1>5 DEF Activated
<1> QED
  BY <1>3, <1>4, <1>5, DecisionsGrow DEF Edits, Document

LEMMA GatedStays ==
  ASSUME TypeOK, [Next]_vars, NEW v \in Workers, Gated(proc[v]), proc'[v] = proc[v]
  PROVE  Gated(proc[v])'
<1>1. \A d \in Imported : d \in IDs
  BY DEF IDs
<1>2. \A d \in Imported : Activated(d) => Activated(d)'
  BY <1>1, ActivatedStays
<1> QED
  BY <1>2 DEF Gated, Decides

LEMMA IdleIsGated ==
  ASSUME NEW w \in Workers, proc'[w] = Idle
  PROVE  Gated(proc[w])'
  BY DEF Gated, Idle

(* The step of a worker that does not reach the file. *)
LEMMA GateKept ==
  ASSUME TypeOK, GateInv, [Next]_vars, UNCHANGED file,
         NEW w \in Workers, OthersStay(w), Gated(proc[w])'
  PROVE  GateInv'
<1>1. GatedDocs(file.docs)'
  <2>1. \A d \in Imported : Activated(d) => Activated(d)'
    BY ActivatedStays DEF IDs
  <2> QED
    BY <2>1 DEF GateInv, GatedDocs
<1>2. ASSUME NEW v \in Workers PROVE Gated(proc[v])'
  BY GatedStays DEF OthersStay, GateInv
<1> QED
  BY <1>1, <1>2 DEF GateInv

LEMMA GateLoad ==
  ASSUME TypeOK, GateInv, [Next]_vars, NEW w \in Workers, Load(w)
  PROVE  Gated(proc[w])'
<1> DEFINE c == proc[w].change
<1>1. CASE proc'[w] = Idle
  BY <1>1, IdleIsGated
<1>2. CASE /\ proc'[w].pc = "write" /\ proc'[w].change = c /\ proc'[w].next = Apply(file, c)
  <2>1. AtSave(proc[w]) /\ proc[w].pc = "load" /\ decisions' = decisions
    BY LoadFacts DEF Keep
  <2>2. c \in Edits \cup Deletes \cup SpaceSaves \cup JobSaves
    BY <2>1 DEF AtSave, Saves
  <2>3. ASSUME NEW d \in Imported, Apply(file, c).docs[d] # None,
               Apply(file, c).docs[d].review = "active"
        PROVE  Activated(d) \/ (Decides(c) /\ c.key = d /\ c.value.review = "active")
    <3>1. CASE Apply(file, c).docs[d] = file.docs[d]
      BY <2>3, <3>1 DEF GateInv, GatedDocs
    <3>2. CASE Apply(file, c).docs[d] # file.docs[d]
      <4>1. c.part = "docs" /\ c.key = d /\ Apply(file, c).docs[d] = c.value
        <5>1. file \in FileOf /\ file.docs \in [IDs -> Document \cup {None}] /\ d \in IDs
          BY SpacesOnFile DEF TypeOK, IDs
        <5>2. /\ c.part \in {"docs", "spaces", "jobs"}
              /\ c.part = "docs" => Apply(file, c).docs = [file.docs EXCEPT ![c.key] = c.value]
              /\ c.part # "docs" => Apply(file, c).docs = file.docs
          BY <2>2, <5>1, ApplyFields
        <5> HIDE DEF c
        <5>3. c.part = "docs"
          BY <3>2, <5>2
        <5> QED
          BY <3>2, <5>1, <5>2, <5>3
      <4>2. c.kind # "delete"
        BY <2>2, <2>3, <4>1 DEF Edits, EditKinds, Deletes, SpaceSaves, JobSaves
      <4>3. Decides(c) \/ Activated(d)
        BY <2>1, <2>3, <4>1, <4>2 DEF GateInv, Gated
      <4> QED
        BY <2>3, <4>1, <4>3
    <3> QED
      BY <3>1, <3>2
  <2>4. c.part = "docs" /\ c.kind # "delete" /\ c.key \in Imported /\ c.value.review = "active" =>
          Decides(c) \/ Activated(c.key)
    BY <2>1 DEF GateInv, Gated
  <2> HIDE DEF c
  <2> QED
    BY <1>2, <2>1, <2>3, <2>4 DEF Gated, Activated, Decides
<1> QED
  BY <1>1, <1>2, LoadFacts

LEMMA GateWrite ==
  ASSUME TypeOK, GateInv, [Next]_vars, NEW w \in Workers, Write(w)
  PROVE  GateInv'
<1> DEFINE c == proc[w].change
<1>1. /\ proc[w].pc = "write" /\ file' = proc[w].next /\ OthersStay(w) /\ AtSave(proc[w])
      /\ \/ proc'[w] = Idle \/ proc'[w].pc \in {"list", "source"}
  BY WriteFacts
<1>2. \A d \in Imported : d \in IDs /\ (Activated(d) => Activated(d)')
  BY ActivatedStays DEF IDs
<1>3. ASSUME NEW d \in Imported, Decides(c), c.key = d, c.value.review = "active"
      PROVE  Activated(d)'
  <2>1. c \in Edits
    BY <1>1, <1>3 DEF AtSave, Saves, Decides, Deletes, SpaceSaves, JobSaves
  <2>2. decisions' = [decisions EXCEPT ![d] = Append(@, "active")]
    BY <1>3 DEF Write
  <2>3. decisions'[d] = Append(decisions[d], "active")
    BY <1>2, <2>2 DEF TypeOK, RestOK
  <2>4. decisions[d] \in Seq({"pending_review", "active", "rejected", "archived"})
    BY <1>2 DEF TypeOK, RestOK
  <2>5. LET n == Len(decisions[d]) + 1 IN n \in 1..Len(decisions'[d]) /\ decisions'[d][n] = "active"
    BY <2>3, <2>4, AppendProperties, LenProperties
  <2> QED
    BY <2>5 DEF Activated
<1>4. GatedDocs(file.docs)'
  BY <1>1, <1>2, <1>3 DEF GateInv, Gated, GatedDocs
<1>5. Gated(proc[w])'
  BY <1>1 DEF Gated, Idle
<1>6. ASSUME NEW v \in Workers PROVE Gated(proc[v])'
  BY <1>1, <1>5, <1>6, GatedStays DEF OthersStay, GateInv
<1> QED
  BY <1>4, <1>6 DEF GateInv

LEMMA GateStep ==
  ASSUME TypeOK, GateInv, [Next]_vars
  PROVE  GateInv'
<1>1. CASE UNCHANGED vars
  BY <1>1 DEF vars, GateInv, GatedDocs, Gated, Activated
<1>2. ASSUME NEW w \in Workers, Arrives(w) PROVE GateInv'
  <2>1. PICK pc, c, job : Begin(w, pc, c, job) /\ Asks(pc, c, job)
    BY <1>2, ArrivalAsks
  <2>2. /\ UNCHANGED <<file, decisions>> /\ OthersStay(w)
        /\ proc'[w].pc = pc /\ proc'[w].change = c
    BY <2>1, BeginFacts
  <2>3. ASSUME EditAsks(c), c.key \in Imported, c.value.review = "active", ~Decides(c)
        PROVE  Activated(c.key)
    BY <2>3 DEF EditAsks, Present, GateInv, GatedDocs
  <2>4. ASSUME c \in Edits, EditAsks(c), pc \in {"check", "load"} PROVE Gated(proc[w])'
    BY <2>2, <2>3, <2>4 DEF Gated, Activated, Decides
  <2>5. ASSUME pc = "get" \/ (pc = "load" /\ c \in Deletes \cup SpaceSaves \cup JobSaves)
        PROVE  Gated(proc[w])'
    BY <2>2, <2>5 DEF Gated, Deletes, SpaceSaves, JobSaves
  <2>6. JobOK(job) /\ c = SaveImportJob(job) => c \in JobSaves
    BY JobEntryType DEF JobOK
  <2>7. Gated(proc[w])'
    BY <2>1, <2>4, <2>5, <2>6 DEF Asks
  <2> QED
    BY <2>2, <2>7, GateKept
<1>3. ASSUME NEW w \in Workers, FailJob(w), IsRequest(proc[w]), JobOK(proc[w].job), Keep
      PROVE  GateInv'
  <2>1. Gated(proc[w])'
    <3>1. proc'[w].pc = "load" /\ proc'[w].change = SaveImportJob(proc'[w].job)
          /\ proc'[w].job \in ImportJob
      BY <1>3, FailJobFacts DEF JobOK
    <3>2. proc'[w].change.part = "jobs"
      BY <3>1, JobEntryType
    <3> QED
      BY <3>1, <3>2 DEF Gated
  <2>2. OthersStay(w) /\ UNCHANGED file
    BY <1>3, FailJobFacts DEF Keep
  <2> QED
    BY <2>1, <2>2, GateKept
<1>4. ASSUME NEW w \in Workers, ImportListed(w) PROVE GateInv'
  <2>1. Gated(proc[w])'
    BY <1>4, ImportListedFacts DEF Gated
  <2> QED
    BY <1>4, <2>1, GateKept, ImportListedFacts DEF Keep
<1>5. ASSUME NEW w \in Workers, ImportSource(w), ~FailJob(w) PROVE GateInv'
  <2>1. CASE proc'[w].pc = "source"
    <3>1. Gated(proc[w])'
      BY <2>1 DEF Gated
    <3> QED
      BY <1>5, <3>1, GateKept, ImportSourceFacts DEF Keep
  <2>2. CASE proc'[w].pc = "load" /\ UploadsNext(proc'[w].change, proc[w].job)
    <3>1. proc'[w].change.value.review = "pending_review"
      BY <2>2 DEF UploadsNext, ImportedAs, UploadedAs
    <3>2. Gated(proc[w])'
      BY <2>2, <3>1 DEF Gated
    <3> QED
      BY <1>5, <3>2, GateKept, ImportSourceFacts DEF Keep
  <2> QED
    BY <1>5, <2>1, <2>2, ImportSourceFacts
<1>6. ASSUME NEW w \in Workers, ImportEnds(w) PROVE GateInv'
  <2>1. Gated(proc[w])'
    <3>1. proc'[w].pc = "load" /\ proc'[w].change = SaveImportJob(proc'[w].job)
          /\ proc'[w].job \in ImportJob
      BY <1>6, ImportEndsFacts DEF JobOK
    <3>2. proc'[w].change.part = "jobs"
      BY <3>1, JobEntryType
    <3> QED
      BY <3>1, <3>2 DEF Gated
  <2> QED
    BY <1>6, <2>1, GateKept, ImportEndsFacts DEF Keep
<1>7. ASSUME NEW w \in Workers, ReindexCheck(w) PROVE GateInv'
  <2>1. Gated(proc[w]) /\ decisions' = decisions
    BY <1>7, ReindexCheckFacts DEF GateInv, Keep
  <2>2. Gated(proc[w])'
    BY <1>7, <2>1, ReindexCheckFacts, IdleIsGated DEF Gated, AtCheck, Activated, Decides
  <2> QED
    BY <1>7, <2>2, GateKept, ReindexCheckFacts DEF Keep
<1>8. ASSUME NEW w \in Workers, MoveGet(w) PROVE GateInv'
  <2>1. CASE proc'[w] = Idle
    BY <1>8, <2>1, GateKept, MoveGetFacts, IdleIsGated DEF Keep
  <2>2. CASE proc'[w] # Idle
    <3>1. decisions' = decisions /\ proc'[w].pc = "load" /\ proc[w].change.key \in Present
          /\ proc'[w].change.key = proc[w].change.key
          /\ proc'[w].change.value.review = file.docs[proc[w].change.key].review
      BY <1>8, <2>2, MoveGetFacts DEF Keep
    <3>2. proc'[w].change.key \in Imported /\ proc'[w].change.value.review = "active" =>
            Activated(proc'[w].change.key)
      BY <3>1 DEF Present, GateInv, GatedDocs
    <3>3. Gated(proc[w])'
      BY <3>1, <3>2 DEF Gated, Activated
    <3> QED
      BY <1>8, <3>3, GateKept, MoveGetFacts DEF Keep
  <2> QED
    BY <2>1, <2>2
<1>9. ASSUME NEW w \in Workers, Load(w) PROVE GateInv'
  BY <1>9, GateLoad, GateKept, LoadFacts DEF Keep
<1>10. ASSUME NEW w \in Workers, SaveFails(w), ~FailJob(w) PROVE GateInv'
  BY <1>10, GateKept, SaveFailsFacts, IdleIsGated DEF Keep
<1>11. CASE Crash
  <2>1. \A w \in Workers : Gated(proc[w])'
    BY <1>11, IdleIsGated DEF Crash
  <2> QED
    BY <1>11, <2>1 DEF Crash, GateInv, GatedDocs, Activated
<1>12. ASSUME NEW w \in Workers, ImportRefused(w) PROVE GateInv'
  BY <1>3, <1>12, ImportRefusedFacts
<1>13. ASSUME NEW w \in Workers, ImportSource(w), FailJob(w) PROVE GateInv'
  BY <1>3, <1>13, ImportSourceFacts DEF AtImport
<1>14. ASSUME NEW w \in Workers, SaveFails(w), FailJob(w) PROVE GateInv'
  BY <1>3, <1>10, <1>14, SaveFailsFacts, IdleIsGated, GateKept DEF Keep
<1> QED
  BY <1>1, <1>2, <1>4, <1>5, <1>6, <1>7, <1>8, <1>9, <1>10, <1>11, <1>12, <1>13, <1>14, GateWrite
     DEF Next, Step, Arrives

(* No imported document is retrievable before a reviewer made it active, whatever *)
(* saves race, fail or are lost in a crash.                                       *)
THEOREM ImportsAreGated == Spec => []ImportedIsGated
<1>1. Init => GateInv
  BY DEF Init, EmptyFile, GateInv, GatedDocs, Gated, Idle, IDs
<1>2. TypeOK /\ GateInv /\ [Next]_vars => GateInv'
  BY GateStep
<1>3. GateInv => ImportedIsGated
  BY DEF GateInv, GatedDocs, Activated, ImportedIsGated
<1> QED
  BY <1>1, <1>2, <1>3, TypeCorrect, PTL DEF Spec
-----------------------------------------------------------------------------
(* Spaces *)

(* Where a worker's request stands, its space was seen open. *)
SpaceSeen(w) ==
  NeedsSpace(proc[w])' => proc'[w].change.value.space \in opened[w] \cup OpenSpaces(file)

LEMMA SpaceKept ==
  ASSUME SpaceInv, Watch, NEW w \in Workers, OthersStay(w), SpaceSeen(w)
  PROVE  SpaceInv'
<1>1. ASSUME NEW v \in Workers, NeedsSpace(proc[v])',
             proc'[v].change.value.space \in opened[v] \cup OpenSpaces(file)
      PROVE  proc'[v].change.value.space \in opened'[v]
  <2>1. proc'[v] # Idle
    BY <1>1 DEF NeedsSpace, Idle
  <2> QED
    BY <1>1, <2>1 DEF Watch
<1>2. ASSUME NEW v \in Workers \ {w}, NeedsSpace(proc[v])'
      PROVE  proc'[v].change.value.space \in opened[v]
  <2>1. proc'[v] = proc[v]
    BY DEF OthersStay
  <2>2. NeedsSpace(proc[v])
    BY <1>2, <2>1 DEF NeedsSpace
  <2> QED
    BY <2>1, <2>2 DEF SpaceInv
<1> QED
  BY <1>1, <1>2 DEF SpaceInv, SpaceSeen

LEMMA NoSpaceNeeded ==
  ASSUME NEW w, \/ proc'[w] = Idle \/ proc'[w].pc \in {"list", "source", "check"}
                \/ proc'[w].change \in Deletes \cup SpaceSaves \cup JobSaves /\ proc'[w].pc # "get"
  PROVE  SpaceSeen(w)
<1>1. ~NeedsSpace(proc[w])'
  BY DEF NeedsSpace, Idle, Deletes, SpaceSaves, JobSaves
<1> QED
  BY <1>1 DEF SpaceSeen

LEMMA SpaceStep ==
  ASSUME TypeOK, SpaceInv, [Next]_vars
  PROVE  SpaceInv'
<1>1. CASE UNCHANGED vars
  BY <1>1 DEF vars, SpaceInv, NeedsSpace
<1>2. ASSUME Watch, NEW w \in Workers, Arrives(w) PROVE SpaceInv'
  <2>1. PICK pc, c, job : Begin(w, pc, c, job) /\ Asks(pc, c, job)
    BY <1>2, ArrivalAsks
  <2>2. OthersStay(w) /\ proc'[w].pc = pc /\ proc'[w].change = c
    BY <2>1, BeginFacts
  <2>3. ASSUME pc = "get", c.value.space \in OpenSpaces(file) PROVE SpaceSeen(w)
    BY <2>2, <2>3 DEF SpaceSeen
  <2>4. ASSUME EditAsks(c), c.kind \in {"upload", "review", "status"}, pc = "load" PROVE SpaceSeen(w)
    BY <2>2, <2>4 DEF SpaceSeen, NeedsSpace, EditAsks
  <2>5. JobOK(job) /\ c = SaveImportJob(job) => c \in JobSaves
    BY JobEntryType DEF JobOK
  <2>6. SpaceSeen(w)
    BY <2>1, <2>2, <2>3, <2>4, <2>5, NoSpaceNeeded DEF Asks
  <2> QED
    BY <1>2, <2>2, <2>6, SpaceKept
<1>3. ASSUME Watch, NEW w \in Workers, FailJob(w), IsRequest(proc[w]), JobOK(proc[w].job)
      PROVE  SpaceInv'
  <2>1. OthersStay(w) /\ proc'[w].pc = "load" /\ proc'[w].change = SaveImportJob(proc'[w].job)
        /\ proc'[w].job \in ImportJob
    BY <1>3, FailJobFacts DEF JobOK
  <2>2. proc'[w].change \in JobSaves
    BY <2>1, JobEntryType
  <2> QED
    BY <1>3, <2>1, <2>2, NoSpaceNeeded, SpaceKept
<1>4. ASSUME Watch, NEW w \in Workers, ImportEnds(w) PROVE SpaceInv'
  <2>1. OthersStay(w) /\ proc'[w].pc = "load" /\ proc'[w].change = SaveImportJob(proc'[w].job)
        /\ proc'[w].job \in ImportJob
    BY <1>4, ImportEndsFacts DEF JobOK
  <2>2. proc'[w].change \in JobSaves
    BY <2>1, JobEntryType
  <2> QED
    BY <1>4, <2>1, <2>2, NoSpaceNeeded, SpaceKept
<1>5. ASSUME Watch, NEW w \in Workers, ImportSource(w) PROVE SpaceInv'
  <2>1. CASE FailJob(w)
    BY <1>3, <1>5, <2>1, ImportSourceFacts DEF AtImport
  <2>2. CASE OthersStay(w) /\ proc'[w].pc = "source"
    BY <1>5, <2>2, NoSpaceNeeded, SpaceKept
  <2>3. CASE /\ OthersStay(w) /\ proc'[w].pc = "load"
             /\ UploadsNext(proc'[w].change, proc[w].job) /\ proc[w].job.space \in OpenSpaces(file)
    <3>1. proc'[w].change.value.space = proc[w].job.space
      BY <2>3 DEF UploadsNext, ImportedAs, UploadedAs
    <3>2. SpaceSeen(w)
      BY <2>3, <3>1 DEF SpaceSeen
    <3> QED
      BY <1>5, <2>3, <3>2, SpaceKept
  <2> QED
    BY <1>5, <2>1, <2>2, <2>3, ImportSourceFacts
<1>6. ASSUME Watch, NEW w \in Workers, ReindexCheck(w) PROVE SpaceInv'
  <2>1. SpaceSeen(w)
    BY <1>6, ReindexCheckFacts, NoSpaceNeeded DEF SpaceSeen
  <2> QED
    BY <1>6, <2>1, ReindexCheckFacts, SpaceKept
<1>7. ASSUME Watch, NEW w \in Workers, MoveGet(w) PROVE SpaceInv'
  <2>1. proc[w].pc = "get" /\ proc[w].change.value.space \in opened[w]
    BY <1>7, MoveGetFacts DEF AtGet, SpaceInv, NeedsSpace
  <2>2. SpaceSeen(w)
    BY <1>7, <2>1, MoveGetFacts, NoSpaceNeeded DEF SpaceSeen
  <2> QED
    BY <1>7, <2>2, MoveGetFacts, SpaceKept
<1>8. ASSUME Watch, NEW w \in Workers, Load(w) PROVE SpaceInv'
  <2>1. CASE proc'[w] = Idle
    BY <1>8, <2>1, LoadFacts, NoSpaceNeeded, SpaceKept
  <2>2. CASE proc'[w].pc = "write" /\ proc'[w].change = proc[w].change
    <3>1. SpaceSeen(w)
      BY <1>8, <2>2, LoadFacts DEF SpaceSeen, NeedsSpace, SpaceInv
    <3> QED
      BY <1>8, <3>1, LoadFacts, SpaceKept
  <2> QED
    BY <1>8, <2>1, <2>2, LoadFacts
<1>9. ASSUME Watch, NEW w \in Workers, Write(w) PROVE SpaceInv'
  BY <1>9, WriteFacts, NoSpaceNeeded, SpaceKept
<1>10. ASSUME Watch, NEW w \in Workers, SaveFails(w) PROVE SpaceInv'
  BY <1>3, <1>10, SaveFailsFacts, NoSpaceNeeded, SpaceKept
<1>11. ASSUME Watch, NEW w \in Workers, ImportRefused(w) PROVE SpaceInv'
  BY <1>3, <1>11, ImportRefusedFacts
<1>12. ASSUME Watch, NEW w \in Workers, ImportListed(w) PROVE SpaceInv'
  BY <1>12, ImportListedFacts, NoSpaceNeeded, SpaceKept
<1>13. CASE Crash
  BY <1>13 DEF Crash, SpaceInv, NeedsSpace, Idle
<1> QED
  BY <1>1, <1>2, <1>4, <1>5, <1>6, <1>7, <1>8, <1>9, <1>10, <1>11, <1>12, <1>13
     DEF Next, Step, Arrives

(* New content, or another space, is saved only in a space that was open at some *)
(* moment of the request, whatever becomes of it between the check and the save. *)
THEOREM EditsAreInOpenSpaces == Spec => []EditsNeedOpenSpace
<1>1. Init => SpaceInv
  BY DEF Init, SpaceInv, NeedsSpace, Idle
<1>2. TypeOK /\ SpaceInv /\ [Next]_vars => SpaceInv'
  BY SpaceStep
<1>3. SpaceInv => EditsNeedOpenSpace
  BY DEF SpaceInv, NeedsSpace, EditsNeedOpenSpace
<1> QED
  BY <1>1, <1>2, <1>3, TypeCorrect, PTL DEF Spec
-----------------------------------------------------------------------------
(* Decisions *)

Stands ==
  /\ \A d \in Present : Reviewed(d, file.docs[d])
  /\ JobsOnFile
  /\ \A w \in Workers : Fresh(proc[w])

(* A step that leaves the file and the decisions is one worker's business. *)
LEMMA StandKept ==
  ASSUME Stands, UNCHANGED <<file, decisions>>, NEW w \in Workers, OthersStay(w), Fresh(proc'[w])
  PROVE  Stands'
<1>1. ASSUME NEW p, Fresh(p) PROVE Fresh(p)'
  BY <1>1 DEF Fresh, LastDecision, Undecided, Apply, Decides
<1>2. \A v \in Workers : Fresh(proc'[v])
  BY DEF Stands, OthersStay
<1>3. \A v \in Workers : Fresh(proc[v])'
  BY <1>1, <1>2 DEF Fresh, LastDecision, Undecided, Apply, Decides
<1>4. (\A d \in Present : Reviewed(d, file.docs[d]))'
  BY DEF Stands, Present, Reviewed, LastDecision
<1>5. JobsOnFile'
  BY DEF Stands, JobsOnFile
<1> QED
  BY <1>3, <1>4, <1>5 DEF Stands

LEMMA IdleIsFresh == Fresh(Idle)
  BY DEF Fresh, Idle

(* A document that a client names is not one of an import still to come. *)
LEMMA NamedByClient ==
  ASSUME Stands, NEW d \in Documents \cup Present, NEW j \in Jobs, NEW n \in 1..MaxSources,
         d = <<j, n>>
  PROVE  file.jobs[j] # None
<1>1. d \in Imported
  BY DEF Imported
<1>2. d \in Present
  BY <1>1, IDsAssumption
<1> QED
  BY <1>2 DEF Stands, JobsOnFile, Present

LEMMA FreshRequest ==
  ASSUME TypeOK, Stands, NEW p, NEW c, NEW job, p.pc \in {"get", "check", "load"},
         p.change = c, p.job = job, Asks(p.pc, c, job)
  PROVE  Fresh(p)
<1>1. \A s \in OpenSpaces(file) : file.spaces[s] # None
  BY NotNone DEF OpenSpaces
<1>2. \A d \in Present : file.docs[d].review = LastDecision(d) /\ file.spaces[file.docs[d].space] # None
  BY DEF Stands, Reviewed
<1>3. CASE job = None /\ p.pc = "get" /\ c.value.space \in OpenSpaces(file)
  BY <1>1, <1>3 DEF Fresh
<1>4. CASE job = None /\ p.pc \in {"check", "load"} /\ EditAsks(c)
  <2>1. file.spaces[c.value.space] # None
    BY <1>1, <1>2, <1>4 DEF EditAsks
  <2>2. Decides(c) \/ c.value.review = LastDecision(c.key)
    BY <1>2, <1>4 DEF EditAsks
  <2>3. \A j \in Jobs, n \in 1..MaxSources : c.key = <<j, n>> => file.jobs[j] # None
    BY <1>4, NamedByClient DEF EditAsks
  <2> QED
    BY <1>4, <2>1, <2>2, <2>3 DEF Fresh
<1>5. CASE job = None /\ p.pc = "load" /\ c \in Deletes \cup SpaceSaves
  BY <1>5 DEF Fresh, Deletes, SpaceSaves
<1>6. CASE /\ JobOK(job) /\ p.pc = "load" /\ c = SaveImportJob(job)
           /\ job.imported = << >> /\ job.skipped = 0 /\ file.jobs[job.id] = None
  <2>1. c.part = "jobs" /\ job.id \in Jobs
    BY <1>6, JobEntryType DEF JobOK, ImportJob
  <2>2. \A n \in 1..MaxSources : decisions[<<job.id, n>>] = << >>
    BY <1>6, <2>1 DEF Stands, JobsOnFile
  <2>3. Undecided(job)
    BY <2>2 DEF Undecided
  <2> QED
    BY <1>6, <2>1, <2>3 DEF Fresh
<1> QED
  BY <1>3, <1>4, <1>5, <1>6 DEF Asks

(* A worker that goes on with an import job. *)
LEMMA FreshJob ==
  ASSUME TypeOK, Stands, NEW w \in Workers, JobOK(proc[w].job), proc[w].pc # "idle",
         NEW p, JobOK(p.job), p.job.id = proc[w].job.id, Done(p.job) >= Done(proc[w].job),
         \/ /\ p.pc = "load" /\ p.change.part = "jobs"
         \/ /\ p.pc \in {"list", "source"} /\ proc[w].pc \in {"list", "source"}
  PROVE  Fresh(p)
<1>1. Undecided(proc[w].job)
      /\ (proc[w].pc \in {"list", "source"} => file.jobs[proc[w].job.id] # None)
  BY NotNone DEF Stands, Fresh
<1>2. Done(p.job) \in Nat /\ Done(proc[w].job) \in Nat
  BY DoneIsNat DEF JobOK
<1>3. Undecided(p.job)
  BY <1>1, <1>2 DEF Undecided
<1> QED
  BY <1>1, <1>3 DEF Fresh

LEMMA FreshUpload ==
  ASSUME TypeOK, Stands, NEW w \in Workers, AtImport(proc[w]), NEW p, p.pc = "load",
         p.job = proc[w].job, p.change \in Edits, UploadsNext(p.change, p.job),
         p.job.space \in OpenSpaces(file)
  PROVE  Fresh(p)
<1>1. Undecided(p.job) /\ file.jobs[p.job.id] # None /\ JobOK(p.job)
  BY NotNone DEF Stands, Fresh, AtImport
<1>2. /\ p.change.value.space = p.job.space /\ p.change.value.review = "pending_review"
      /\ p.change.key = <<p.job.id, Done(p.job) + 1>>
  BY DEF UploadsNext, ImportedAs, UploadedAs
<1>3. file.spaces[p.job.space] # None
  BY NotNone DEF OpenSpaces
<1>4. Done(p.job) + 1 \in 1..MaxSources /\ Done(p.job) + 1 > Done(p.job)
  BY <1>1, DoneIsNat, KnowledgeAssumption DEF UploadsNext, JobOK
<1>5. LastDecision(p.change.key) = "pending_review"
  BY <1>1, <1>2, <1>4 DEF Undecided, LastDecision
<1>6. \A j \in Jobs, n \in 1..MaxSources : p.change.key = <<j, n>> => file.jobs[j] # None
  BY <1>1, <1>2
<1> QED
  BY <1>1, <1>2, <1>3, <1>5, <1>6 DEF Fresh
(* A save that no other request overlaps writes what its worker read.           *)
LEMMA WriteAlone ==
  ASSUME TypeOK, Stands, NEW w \in Workers, Write(w), ~raced'
  PROVE  /\ AtSave(proc[w]) /\ Fresh(proc[w]) /\ proc[w].pc = "write"
         /\ file' = Apply(file, proc[w].change)
         /\ \A v \in Workers \ {w} : proc'[v] = Idle
<1>1. /\ AtSave(proc[w]) /\ OthersStay(w) /\ proc[w].pc = "write" /\ file' = proc[w].next
  BY WriteFacts
<1>2. \A v \in Workers \ {w} : proc[v] = Idle
  BY DEF Write
<1> QED
  BY <1>1, <1>2 DEF Stands, Fresh, OthersStay

LEMMA DecisionOfWrite ==
  ASSUME TypeOK, NEW w \in Workers, Write(w)
  PROVE  LET c == proc[w].change IN
         /\ c \in Edits =>
              /\ Decides(c) => \A d \in IDs : d = c.key => LastDecision(d)' = c.value.review
              /\ ~Decides(c) => decisions' = decisions
              /\ \A d \in IDs \ {c.key} : decisions'[d] = decisions[d]
         /\ c \notin Edits => decisions' = decisions
<1> DEFINE c == proc[w].change
<1>1. c \in Edits \cup Deletes \cup SpaceSaves \cup JobSaves
  BY WriteFacts DEF AtSave, Saves
<1>2. ~Decides(c) => decisions' = decisions
  BY DEF Write
<1>3. c \notin Edits => ~Decides(c)
  BY <1>1 DEF Decides, Deletes, SpaceSaves, JobSaves
<1>4. ASSUME c \in Edits, Decides(c)
      PROVE  /\ \A d \in IDs : d = c.key => LastDecision(d)' = c.value.review
             /\ \A d \in IDs \ {c.key} : decisions'[d] = decisions[d]
  <2> DEFINE k == c.key
             r == c.value.review
  <2>1. k \in IDs /\ r \in {"pending_review", "active", "rejected", "archived"}
    BY <1>4 DEF Edits, Document
  <2>2. decisions' = [decisions EXCEPT ![k] = Append(decisions[k], r)]
    BY <1>4 DEF Write
  <2>3. decisions = [d \in IDs |-> decisions[d]]
        /\ decisions[k] \in Seq({"pending_review", "active", "rejected", "archived"})
    BY <2>1 DEF TypeOK, RestOK
  <2> HIDE DEF k, r
  <2>4. decisions'[k] = Append(decisions[k], r) /\ \A d \in IDs \ {k} : decisions'[d] = decisions[d]
    BY <2>1, <2>2, <2>3
  <2>5. decisions'[k] # << >> /\ decisions'[k][Len(decisions'[k])] = r
    BY <2>1, <2>3, <2>4, AppendProperties, LenProperties
  <2>6. ASSUME NEW d \in IDs, d = k PROVE LastDecision(d)' = r
    BY <2>5, <2>6 DEF LastDecision
  <2> QED
    BY <2>4, <2>6 DEF k, r
<1> QED
  BY <1>2, <1>3, <1>4
LEMMA StandWrite ==
  ASSUME TypeOK, Stands, NEW w \in Workers, Write(w), ~raced'
  PROVE  Stands'
<1> PICK c : c = proc[w].change
  OBVIOUS
<1>1. /\ AtSave(proc[w]) /\ Fresh(proc[w]) /\ proc[w].pc = "write" /\ file' = Apply(file, c)
      /\ \A v \in Workers \ {w} : proc'[v] = Idle
  BY WriteAlone
<1>2. c \in Edits \cup Deletes \cup SpaceSaves \cup JobSaves
  BY <1>1 DEF AtSave, Saves
<1>3. /\ file.docs \in [IDs -> Document \cup {None}] /\ file \in FileOf
      /\ file.spaces \in [Spaces -> SpaceStatuses \cup {"active", None}]
      /\ file.jobs \in [Jobs -> JobEntry \cup {None}]
  BY SpacesOnFile DEF TypeOK
<1>4. /\ c \in Edits => /\ Decides(c) => \A d \in IDs : d = c.key => LastDecision(d)' = c.value.review
                        /\ ~Decides(c) => decisions' = decisions
                        /\ \A d \in IDs \ {c.key} : decisions'[d] = decisions[d]
      /\ c \notin Edits => decisions' = decisions
  BY DecisionOfWrite
<1>5. /\ \A d \in Present : /\ file.docs[d].review = LastDecision(d)
                            /\ file.spaces[file.docs[d].space] # None
      /\ \A d \in IDs : file.docs[d] = None \/ d \in Present
      /\ \A d \in Present : d \in IDs
  BY DEF Stands, Reviewed, Present
<1>6. \A d \in IDs : decisions'[d] = decisions[d] => LastDecision(d)' = LastDecision(d)
  BY DEF LastDecision
<1>7. /\ \A j \in Jobs, n \in 1..MaxSources : <<j, n>> \in IDs
      /\ \A j \in Jobs, n \in 1..MaxSources :
           file.docs[<<j, n>>] # None \/ decisions[<<j, n>>] # << >> => file.jobs[j] # None
  <2>1. \A j \in Jobs, n \in 1..MaxSources : <<j, n>> \in IDs
    BY DEF IDs, Imported
  <2> QED
    BY <2>1 DEF Stands, JobsOnFile
<1>8. ASSUME \A d \in IDs : file'.docs[d] # None =>
               file'.docs[d].review = LastDecision(d)' /\ file'.spaces[file'.docs[d].space] # None,
             \A j \in Jobs, n \in 1..MaxSources :
               (file'.docs[<<j, n>>] # None \/ decisions'[<<j, n>>] # << >>) => file'.jobs[j] # None,
             Fresh(proc[w])'
      PROVE  Stands'
  <2>1. \A v \in Workers : Fresh(proc[v])'
    <3>1. ASSUME NEW v \in Workers \ {w} PROVE Fresh(proc[v])'
      <4>1. proc'[v] = Idle
        BY <1>1
      <4> QED
        BY <4>1 DEF Fresh, Idle
    <3> QED
      BY <1>8, <3>1
  <2> QED
    BY <1>8, <2>1 DEF Stands, Present, Reviewed, JobsOnFile
<1>9. /\ c.part = "docs" =>
           /\ \A d \in IDs : file'.docs[d] = IF d = c.key THEN c.value ELSE file.docs[d]
           /\ c.key \in IDs /\ file'.spaces = file.spaces /\ file'.jobs = file.jobs
      /\ c.part = "spaces" =>
           /\ \A s \in Spaces : file'.spaces[s] = IF s = c.key THEN c.value ELSE file.spaces[s]
           /\ file'.docs = file.docs /\ file'.jobs = file.jobs
      /\ c.part = "jobs" =>
           /\ \A j \in Jobs : file'.jobs[j] = IF j = c.key THEN c.value ELSE file.jobs[j]
           /\ c.key \in Jobs /\ file'.docs = file.docs /\ file'.spaces = file.spaces
  <2>1. /\ c.part = "docs" =>
             /\ file'.docs = [file.docs EXCEPT ![c.key] = c.value] /\ c.key \in IDs
             /\ file'.spaces = file.spaces /\ file'.jobs = file.jobs
        /\ c.part = "spaces" =>
             /\ file'.spaces = [file.spaces EXCEPT ![c.key] = c.value] /\ c.key \in Spaces
             /\ file'.docs = file.docs /\ file'.jobs = file.jobs
        /\ c.part = "jobs" =>
             /\ file'.jobs = [file.jobs EXCEPT ![c.key] = c.value] /\ c.key \in Jobs
             /\ file'.docs = file.docs /\ file'.spaces = file.spaces
    BY <1>1, <1>2, <1>3, ApplyFields
  <2> QED
    BY <1>3, <2>1
<1>10. CASE c \in Edits
  <2>1. /\ \A d \in IDs : file'.docs[d] = IF d = c.key THEN c.value ELSE file.docs[d]
        /\ c.key \in IDs /\ file'.spaces = file.spaces /\ file'.jobs = file.jobs
        /\ c.part = "docs" /\ c.kind # "delete"
    <3>1. c.part = "docs" /\ c.kind # "delete"
      BY <1>10 DEF Edits, EditKinds
    <3> QED
      BY <1>9, <3>1
  <2>2. /\ file.spaces[c.value.space] # None
        /\ Decides(c) \/ c.value.review = LastDecision(c.key)
        /\ \A j \in Jobs, n \in 1..MaxSources : c.key = <<j, n>> => file.jobs[j] # None
    BY <1>1, <2>1 DEF Fresh
  <2>4. ASSUME NEW d \in IDs, file'.docs[d] # None
        PROVE  file'.docs[d].review = LastDecision(d)' /\ file'.spaces[file'.docs[d].space] # None
    <3>1. CASE d = c.key
      <4>1. file'.docs[d] = c.value
        BY <1>3, <2>1, <3>1
      <4>2. LastDecision(d)' = c.value.review
        BY <1>4, <1>6, <1>10, <2>1, <2>2, <3>1
      <4> QED
        BY <2>1, <2>2, <4>1, <4>2
    <3>2. CASE d # c.key
      <4>1. file'.docs[d] = file.docs[d] /\ LastDecision(d)' = LastDecision(d)
        BY <1>3, <1>4, <1>6, <1>10, <2>1, <3>2
      <4> QED
        BY <1>5, <2>1, <2>4, <4>1
    <3> QED
      BY <3>1, <3>2
  <2>5. ASSUME NEW j \in Jobs, NEW n \in 1..MaxSources,
               file'.docs[<<j, n>>] # None \/ decisions'[<<j, n>>] # << >>
        PROVE  file'.jobs[j] # None
    <3>1. CASE c.key = <<j, n>>
      BY <2>1, <2>2, <3>1
    <3>2. CASE c.key # <<j, n>>
      BY <1>3, <1>4, <1>7, <1>10, <2>1, <2>5, <3>2
    <3> QED
      BY <3>1, <3>2
  <2>6. Fresh(proc[w])'
    <3>1. CASE proc'[w] = Idle
      BY <3>1 DEF Fresh, Idle
    <3>2. CASE c \in JobSaves
      BY <1>10, <3>2 DEF Edits, JobSaves
    <3>3. CASE /\ JobOK(proc[w].job) /\ UploadsNext(c, proc[w].job) /\ proc'[w].pc = "source"
               /\ JobOK(proc'[w].job) /\ proc'[w].job.id = proc[w].job.id
               /\ Done(proc'[w].job) = Done(proc[w].job) + 1
      <4>1. decisions' = decisions
        BY <1>4, <1>10, <3>3 DEF UploadsNext, Decides
      <4>2. Undecided(proc[w].job) /\ file.jobs[proc[w].job.id] # None
        BY <1>1, <2>1, <3>3, NotNone DEF Fresh
      <4>3. Done(proc[w].job) \in Nat
        BY <3>3, DoneIsNat DEF JobOK
      <4>4. Undecided(proc[w].job)'
        BY <3>3, <4>1, <4>2, <4>3 DEF Undecided
      <4> QED
        BY <2>1, <3>3, <4>2, <4>4 DEF Fresh
    <3> QED
      BY <3>1, <3>2, <3>3, WriteFacts, JobEntryType DEF JobOK
  <2> QED
    BY <1>8, <2>4, <2>5, <2>6
<1>11. CASE c \in Deletes
  <2>1. /\ \A d \in IDs : file'.docs[d] = IF d = c.key THEN None ELSE file.docs[d]
        /\ file'.spaces = file.spaces /\ file'.jobs = file.jobs
    <3>1. c.part = "docs" /\ c.value = None
      BY <1>11 DEF Deletes
    <3> QED
      BY <1>9, <3>1
  <2>2. decisions' = decisions
    BY <1>4, <1>11 DEF Edits, EditKinds, Deletes
  <2>3. \A d \in IDs : file'.docs[d] # None => file'.docs[d] = file.docs[d] /\ file.docs[d] # None
    BY <1>3, <2>1
  <2>4. proc'[w] = Idle
    BY <1>11, WriteFacts, JobEntryType DEF Deletes, Edits, EditKinds, JobSaves, JobOK
  <2>5. Fresh(proc[w])'
    BY <2>4 DEF Fresh, Idle
  <2>6. \A d \in IDs : file'.docs[d] # None =>
          file'.docs[d].review = LastDecision(d)' /\ file'.spaces[file'.docs[d].space] # None
    BY <1>5, <1>6, <2>1, <2>2, <2>3
  <2>7. \A j \in Jobs, n \in 1..MaxSources :
          file'.docs[<<j, n>>] # None \/ decisions'[<<j, n>>] # << >> => file'.jobs[j] # None
    BY <1>7, <2>1, <2>2, <2>3
  <2> QED
    BY <1>8, <2>5, <2>6, <2>7
<1>12. CASE c \in SpaceSaves
  <2>1. /\ file'.docs = file.docs /\ file'.jobs = file.jobs
        /\ \A s \in Spaces : file.spaces[s] # None => file'.spaces[s] # None
    <3>1. c.part = "spaces" /\ c.key \in Spaces /\ c.value # None
      BY <1>12, NotNone DEF SpaceSaves
    <3> QED
      BY <1>9, <3>1
  <2>2. decisions' = decisions
    BY <1>4, <1>12 DEF Edits, EditKinds, SpaceSaves
  <2>3. proc'[w] = Idle
    BY <1>12, WriteFacts, JobEntryType DEF SpaceSaves, Edits, EditKinds, JobSaves, JobOK
  <2>4. Fresh(proc[w])'
    BY <2>3 DEF Fresh, Idle
  <2>5. \A d \in Present : file.docs[d].space \in Spaces
    BY SpacesOnFile DEF Document
  <2>6. \A d \in IDs : file'.docs[d] # None =>
          file'.docs[d].review = LastDecision(d)' /\ file'.spaces[file'.docs[d].space] # None
    BY <1>5, <1>6, <2>1, <2>2, <2>5
  <2>7. \A j \in Jobs, n \in 1..MaxSources :
          file'.docs[<<j, n>>] # None \/ decisions'[<<j, n>>] # << >> => file'.jobs[j] # None
    BY <1>7, <2>1, <2>2
  <2> QED
    BY <1>8, <2>4, <2>6, <2>7
<1>13. CASE c \in JobSaves
  <2>1. /\ file'.docs = file.docs /\ file'.spaces = file.spaces
        /\ \A j \in Jobs : file'.jobs[j] = IF j = c.key THEN c.value ELSE file.jobs[j]
        /\ c.key \in Jobs /\ c.value # None
    <3>1. c.part = "jobs" /\ c.value # None
      BY <1>13, NotNone DEF JobSaves
    <3> QED
      BY <1>9, <3>1
  <2>2. decisions' = decisions
    BY <1>4, <1>13 DEF Edits, EditKinds, JobSaves
  <2>3. \A j \in Jobs : file.jobs[j] # None => file'.jobs[j] # None
    BY <1>3, <2>1
  <2>4. Fresh(proc[w])'
    <3>1. CASE proc'[w] = Idle
      BY <3>1 DEF Fresh, Idle
    <3>2. CASE c \in Edits
      BY <1>13, <3>2 DEF Edits, JobSaves
    <3>3. CASE /\ JobOK(proc[w].job) /\ c = SaveImportJob(proc[w].job)
               /\ proc'[w].pc = "list" /\ proc'[w].job = proc[w].job
      <4>1. c.key = proc[w].job.id
        BY <3>3, JobEntryType DEF JobOK
      <4>2. file'.jobs[proc[w].job.id] # None
        BY <1>3, <2>1, <4>1
      <4>3. Undecided(proc[w].job)'
        BY <1>1, <2>2, <3>3, NotNone DEF Fresh, Undecided
      <4> QED
        BY <3>3, <4>2, <4>3 DEF Fresh
    <3> QED
      BY <3>1, <3>2, <3>3, WriteFacts
  <2>5. \A d \in IDs : file'.docs[d] # None =>
          file'.docs[d].review = LastDecision(d)' /\ file'.spaces[file'.docs[d].space] # None
    BY <1>5, <1>6, <2>1, <2>2
  <2>6. \A j \in Jobs, n \in 1..MaxSources :
          file'.docs[<<j, n>>] # None \/ decisions'[<<j, n>>] # << >> => file'.jobs[j] # None
    BY <1>7, <2>1, <2>2, <2>3
  <2> QED
    BY <1>8, <2>4, <2>5, <2>6
<1> QED
  BY <1>2, <1>10, <1>11, <1>12, <1>13
LEMMA StandStep ==
  ASSUME TypeOK, StandInv, [Next]_vars
  PROVE  StandInv'
<1> SUFFICES ASSUME ~raced' PROVE Stands'
  BY DEF StandInv, Stands
<1>1. ASSUME NEW w \in Workers, Arrives(w) PROVE UNCHANGED <<file, decisions, raced>>
  BY <1>1, ArrivalAsks, BeginFacts
<1>2. ASSUME NEW w \in Workers, Step(w), ~Write(w) PROVE UNCHANGED <<file, decisions, raced>>
  BY <1>1, <1>2, ImportRefusedFacts, ImportListedFacts, ImportSourceFacts, ImportEndsFacts,
     ReindexCheckFacts, MoveGetFacts, LoadFacts, SaveFailsFacts DEF Step, Arrives, Keep
<1>3. Stands
  <2>1. ASSUME NEW w \in Workers, Write(w) PROVE ~raced
    BY <2>1 DEF Write
  <2>2. ~raced
    BY <1>2, <2>1 DEF Next, Crash, vars
  <2> QED
    BY <2>2 DEF StandInv, Stands
<1>4. ASSUME NEW w \in Workers, Arrives(w) PROVE Stands'
  <2>1. PICK pc, c, job : Begin(w, pc, c, job) /\ Asks(pc, c, job)
    BY <1>4, ArrivalAsks
  <2>2. OthersStay(w) /\ proc'[w].pc = pc /\ proc'[w].change = c /\ proc'[w].job = job
    BY <2>1, BeginFacts
  <2>3. pc \in {"get", "check", "load"}
    BY <2>1 DEF Asks
  <2>4. Fresh(proc'[w])
    BY <1>3, <2>1, <2>2, <2>3, FreshRequest
  <2> QED
    BY <1>1, <1>3, <1>4, <2>2, <2>4, StandKept
<1>5. ASSUME NEW w \in Workers, FailJob(w), IsRequest(proc[w]), JobOK(proc[w].job), Keep
      PROVE  Stands'
  <2>1. /\ OthersStay(w) /\ proc'[w].pc = "load" /\ JobOK(proc'[w].job)
        /\ proc'[w].job.id = proc[w].job.id /\ Done(proc'[w].job) = Done(proc[w].job)
        /\ proc'[w].change = SaveImportJob(proc'[w].job)
    BY <1>5, FailJobFacts
  <2>2. proc'[w].change.part = "jobs"
    BY <2>1, JobEntryType DEF JobOK
  <2>3. proc[w].pc # "idle" /\ Done(proc'[w].job) >= Done(proc[w].job)
    BY <1>5, <2>1, DoneIsNat DEF IsRequest, AtGet, AtCheck, AtSave, AtImport, JobOK
  <2>4. Fresh(proc'[w])
    BY <1>3, <1>5, <2>1, <2>2, <2>3, FreshJob
  <2> QED
    BY <1>3, <1>5, <2>1, <2>4, StandKept DEF Keep
<1>6. ASSUME NEW w \in Workers, ImportListed(w) PROVE Stands'
  <2>1. /\ AtImport(proc[w]) /\ JobOK(proc[w].job) /\ OthersStay(w) /\ Keep
        /\ proc[w].pc = "list" /\ proc'[w].pc = "source" /\ JobOK(proc'[w].job)
        /\ proc'[w].job.id = proc[w].job.id /\ Done(proc'[w].job) = Done(proc[w].job)
    BY <1>6, ImportListedFacts DEF AtImport
  <2>2. Done(proc'[w].job) >= Done(proc[w].job)
    BY <2>1, DoneIsNat DEF JobOK
  <2>3. Fresh(proc'[w])
    BY <1>3, <2>1, <2>2, FreshJob
  <2> QED
    BY <1>3, <2>1, <2>3, StandKept DEF Keep
<1>7. ASSUME NEW w \in Workers, ImportSource(w), ~FailJob(w) PROVE Stands'
  <2>1. AtImport(proc[w]) /\ JobOK(proc[w].job) /\ OthersStay(w) /\ Keep /\ proc[w].pc = "source"
    BY <1>7, ImportSourceFacts DEF AtImport
  <2>2. ASSUME proc'[w].pc = "source", JobOK(proc'[w].job), proc'[w].job.id = proc[w].job.id,
               Done(proc'[w].job) = Done(proc[w].job) + 1
        PROVE  Fresh(proc'[w])
    <3>1. Done(proc'[w].job) >= Done(proc[w].job)
      BY <2>1, <2>2, DoneIsNat DEF JobOK
    <3> QED
      BY <1>3, <2>1, <2>2, <3>1, FreshJob
  <2>3. ASSUME proc'[w].pc = "load", proc'[w].job = proc[w].job, proc'[w].change \in Edits,
               UploadsNext(proc'[w].change, proc[w].job), proc[w].job.space \in OpenSpaces(file)
        PROVE  Fresh(proc'[w])
    BY <1>3, <2>1, <2>3, FreshUpload
  <2>4. Fresh(proc'[w])
    BY <1>7, <2>2, <2>3, ImportSourceFacts
  <2> QED
    BY <1>3, <2>1, <2>4, StandKept DEF Keep
<1>8. ASSUME NEW w \in Workers, ImportEnds(w) PROVE Stands'
  <2>1. /\ AtImport(proc[w]) /\ JobOK(proc[w].job) /\ OthersStay(w) /\ Keep
        /\ proc[w].pc = "source" /\ proc'[w].pc = "load" /\ JobOK(proc'[w].job)
        /\ proc'[w].job.id = proc[w].job.id /\ proc'[w].job.imported = proc[w].job.imported
        /\ proc'[w].job.skipped = proc[w].job.skipped
        /\ proc'[w].change = SaveImportJob(proc'[w].job)
    BY <1>8, ImportEndsFacts DEF AtImport
  <2>2. proc'[w].change.part = "jobs"
    BY <2>1, JobEntryType DEF JobOK
  <2>3. Done(proc'[w].job) >= Done(proc[w].job)
    BY <2>1, DoneIsNat DEF JobOK, Done
  <2>4. Fresh(proc'[w])
    BY <1>3, <2>1, <2>2, <2>3, FreshJob
  <2> QED
    BY <1>3, <2>1, <2>4, StandKept DEF Keep
<1>9. ASSUME NEW w \in Workers, ReindexCheck(w) PROVE Stands'
  <2>1. CASE proc'[w] = Idle
    BY <1>3, <1>9, <2>1, ReindexCheckFacts, IdleIsFresh, StandKept DEF Keep
  <2>2. CASE proc'[w].pc = "load" /\ proc'[w].change = proc[w].change /\ proc'[w].job = None
    <3>1. Fresh(proc[w]) /\ proc[w].pc = "check"
      BY <1>3, <1>9, ReindexCheckFacts DEF Stands, AtCheck
    <3>2. Fresh(proc'[w])
      BY <2>2, <3>1 DEF Fresh
    <3> QED
      BY <1>3, <1>9, <3>2, ReindexCheckFacts, StandKept DEF Keep
  <2> QED
    BY <1>9, <2>1, <2>2, ReindexCheckFacts
<1>10. ASSUME NEW w \in Workers, MoveGet(w) PROVE Stands'
  <2>1. CASE proc'[w] = Idle
    BY <1>3, <1>10, <2>1, MoveGetFacts, IdleIsFresh, StandKept DEF Keep
  <2>2. CASE proc'[w] # Idle
    <3> DEFINE d == proc[w].change.key
    <3>1. /\ proc'[w].pc = "load" /\ proc'[w].job = None /\ d \in Present
          /\ proc'[w].change.key = d
          /\ proc'[w].change.value.space = proc[w].change.value.space
          /\ proc'[w].change.value.review = file.docs[d].review
      BY <1>10, <2>2, MoveGetFacts
    <3>2. file.spaces[proc[w].change.value.space] # None
      BY <1>3, <1>10, MoveGetFacts DEF Stands, Fresh, AtGet
    <3>3. file.docs[d].review = LastDecision(d)
      BY <1>3, <3>1 DEF Stands, Reviewed
    <3>4. \A j \in Jobs, n \in 1..MaxSources : d = <<j, n>> => file.jobs[j] # None
      BY <1>3, <3>1, NamedByClient
    <3> HIDE DEF d
    <3>5. Fresh(proc'[w])
      BY <3>1, <3>2, <3>3, <3>4 DEF Fresh
    <3> QED
      BY <1>3, <1>10, <3>5, MoveGetFacts, StandKept DEF Keep
  <2> QED
    BY <2>1, <2>2
<1>11. ASSUME NEW w \in Workers, Load(w) PROVE Stands'
  <2>1. CASE proc'[w] = Idle
    BY <1>3, <1>11, <2>1, LoadFacts, IdleIsFresh, StandKept DEF Keep
  <2>2. CASE /\ proc'[w].pc = "write" /\ proc'[w].change = proc[w].change
             /\ proc'[w].job = proc[w].job /\ proc'[w].next = Apply(file, proc[w].change)
    <3>1. Fresh(proc[w]) /\ proc[w].pc = "load"
      BY <1>3, <1>11, LoadFacts DEF Stands
    <3>2. Fresh(proc'[w])
      BY <2>2, <3>1 DEF Fresh
    <3> QED
      BY <1>3, <1>11, <3>2, LoadFacts, StandKept DEF Keep
  <2> QED
    BY <1>11, <2>1, <2>2, LoadFacts
<1>12. ASSUME NEW w \in Workers, SaveFails(w) PROVE Stands'
  BY <1>3, <1>5, <1>12, SaveFailsFacts, IdleIsFresh, StandKept DEF Keep
<1>13. ASSUME NEW w \in Workers, ImportRefused(w) PROVE Stands'
  BY <1>5, <1>13, ImportRefusedFacts
<1>14. ASSUME NEW w \in Workers, ImportSource(w), FailJob(w) PROVE Stands'
  BY <1>5, <1>14, ImportSourceFacts DEF AtImport
<1>15. CASE Crash
  <2>1. \A w \in Workers : Fresh(proc[w])'
    BY <1>15 DEF Crash, Fresh, Idle
  <2>2. (\A d \in Present : Reviewed(d, file.docs[d]))' /\ JobsOnFile'
    BY <1>3, <1>15 DEF Crash, Stands, Present, Reviewed, LastDecision, JobsOnFile
  <2> QED
    BY <2>1, <2>2 DEF Stands
<1>16. CASE UNCHANGED vars
  <2>1. \A w \in Workers : Fresh(proc[w])'
    BY <1>3, <1>16 DEF vars, Stands, Fresh, Reviewed, LastDecision, JobsOnFile, Undecided, Decides, Apply
  <2>2. (\A d \in Present : Reviewed(d, file.docs[d]))' /\ JobsOnFile'
    BY <1>3, <1>16 DEF vars, Stands, Present, Reviewed, LastDecision, JobsOnFile
  <2> QED
    BY <2>1, <2>2 DEF Stands
<1> QED
  BY <1>3, <1>4, <1>6, <1>7, <1>8, <1>9, <1>10, <1>11, <1>12, <1>13, <1>14, <1>15, <1>16, StandWrite
     DEF Next, Step, Arrives

(* Until two requests overlap, the review status of every document on file is the *)
(* last decision made about it and its space is on file: what each request read   *)
(* before its save is still what the file holds.                                  *)
THEOREM DecisionsAreKept == Spec => []DecisionsStandUntilRace
<1>1. Init => StandInv
  <2> SUFFICES ASSUME Init PROVE Stands
    BY DEF StandInv, Stands
  <2>1. \A w \in Workers : Fresh(proc[w])
    BY IdleIsFresh DEF Init
  <2>2. Present = {}
    BY DEF Init, Present, EmptyFile
  <2>3. JobsOnFile
    <3>1. \A j \in Jobs, n \in 1..MaxSources : <<j, n>> \in IDs
      BY DEF IDs, Imported
    <3> QED
      BY <3>1 DEF Init, EmptyFile, JobsOnFile
  <2> QED
    BY <2>1, <2>2, <2>3 DEF Stands
<1>2. TypeOK /\ StandInv /\ [Next]_vars => StandInv'
  BY StandStep
<1>3. StandInv => DecisionsStandUntilRace
  BY DEF StandInv, Reviewed, DecisionsStandUntilRace
<1> QED
  BY <1>1, <1>2, <1>3, TypeCorrect, PTL DEF Spec
-----------------------------------------------------------------------------
(* Import jobs *)

LEMMA WrittenGrows ==
  ASSUME TypeOK, [Next]_vars
  PROVE  written \subseteq written'
<1>1. ASSUME NEW w \in Workers, Write(w) PROVE written \subseteq written'
  BY <1>1 DEF Write
<1>2. ASSUME NEW w \in Workers, Step(w), ~Write(w) PROVE written' = written
  BY <1>2, ArrivalAsks, BeginFacts, ImportRefusedFacts, ImportListedFacts, ImportSourceFacts,
     ImportEndsFacts, ReindexCheckFacts, MoveGetFacts, LoadFacts, SaveFailsFacts
     DEF Step, Arrives, Keep
<1> QED
  BY <1>1, <1>2 DEF Next, Crash, vars

LEMMA AccountsStand ==
  ASSUME written \subseteq written'
  PROVE  /\ \A e : Accounted(e) => Accounted(e)'
         /\ \A job : AccountedSoFar(job) => AccountedSoFar(job)'
         /\ \A p : Accounts(p) => Accounts(p)'
<1>1. \A imported, content : Distinct(imported, content) => Distinct(imported, content)'
  BY DEF Distinct
<1>2. \A e : Accounted(e) => Accounted(e)'
  BY <1>1 DEF Accounted
<1>3. \A job : AccountedSoFar(job) => AccountedSoFar(job)'
  BY <1>1 DEF AccountedSoFar
<1> QED
  BY <1>2, <1>3 DEF Accounts

(* A worker's step that does not reach the file. *)
LEMMA AccountKept ==
  ASSUME TypeOK, AccountInv, [Next]_vars, UNCHANGED file, NEW w \in Workers, OthersStay(w), Accounts(proc'[w])
  PROVE  AccountInv'
<1>1. \A e : Accounted(e) => Accounted(e)'
  BY WrittenGrows, AccountsStand
<1>2. \A p : Accounts(p) => Accounts(p)'
  BY WrittenGrows, AccountsStand
<1>3. \A v \in Workers : Accounts(proc'[v])
  BY DEF OthersStay, AccountInv
<1>4. \A v \in Workers : Accounts(proc[v])'
  BY <1>3, WrittenGrows, AccountsStand DEF Accounts
<1> QED
  BY <1>1, <1>4 DEF AccountInv

LEMMA NothingToAccount ==
  ASSUME NEW p, \/ p = Idle \/ p.pc \in {"get", "check"}
                \/ p.pc = "load" /\ p.change \in Deletes \cup SpaceSaves
                \/ p.pc = "load" /\ p.change \in Edits /\ p.change.kind # "import"
  PROVE  Accounts(p)
  BY DEF Accounts, Idle, Deletes, SpaceSaves, Edits

LEMMA OpenJobSaved ==
  ASSUME NEW p, p.pc = "load", p.change = SaveImportJob(p.job), JobOK(p.job),
         p.job.status \in {"running", "failed"}
  PROVE  Accounts(p)
<1>1. p.change.part = "jobs" /\ p.change.value.status \in {"running", "failed"}
  BY JobEntryType DEF JobOK
<1> QED
  BY <1>1 DEF Accounts, Accounted

LEMMA NothingImported ==
  ASSUME NEW job, job.imported = << >>
  PROVE  AccountedSoFar(job)
<1> DEFINE none == [i \in 1..Len(job.imported) |-> None]
<1>1. 1..Len(job.imported) = {}
  BY EmptySeq
<1>2. none \in [1..Len(job.imported) -> Contents]
  BY <1>1
<1>3. Distinct(job.imported, none)
  BY <1>1 DEF Distinct
<1> QED
  BY <1>1, <1>2, <1>3 DEF AccountedSoFar

LEMMA ClosedAccounts ==
  ASSUME NEW p, p.pc = "load", p.change = SaveImportJob(p.job), JobOK(p.job),
         Done(p.job) = Len(p.job.sources), NEW job, AccountedSoFar(job),
         job.imported = p.job.imported
  PROVE  Accounts(p)
<1>1. /\ p.change.part = "jobs" /\ p.change.value.imported = job.imported
      /\ p.change.value.skipped = p.job.skipped /\ p.change.value.total = Len(p.job.sources)
  BY JobEntryType DEF JobOK
<1>2. Accounted(p.change.value)
  BY <1>1 DEF Accounted, AccountedSoFar, Done
<1> QED
  BY <1>1, <1>2 DEF Accounts

(* One more document of a job. *)
LEMMA OneMoreImported ==
  ASSUME NEW job, JobOK(job), AccountedSoFar(job)', NEW next, JobOK(next),
         next.id = job.id, Done(next) = Done(job) + 1,
         NEW c \in Contents \ job.known, next.imported = Append(job.imported, <<job.id, Done(job) + 1>>),
         next.known = job.known \cup {c}, <<<<job.id, Done(job) + 1>>, c>> \in written'
  PROVE  AccountedSoFar(next)'
<1> DEFINE n == Len(job.imported)
           k == Done(job) + 1
           d == <<job.id, k>>
<1>1. PICK content \in [1..n -> Contents] :
        /\ Distinct(job.imported, content)'
        /\ \A i \in 1..n :
             content[i] \in job.known /\ \E m \in 1..Done(job) : job.imported[i] = <<job.id, m>>
  BY DEF AccountedSoFar
<1>2. n \in Nat /\ Done(job) \in Nat /\ job.imported \in Seq(Imported)
  BY DoneIsNat DEF JobOK, ImportJob
<1>3. /\ Len(next.imported) = n + 1 /\ next.imported[n + 1] = d
      /\ \A i \in 1..n : next.imported[i] = job.imported[i]
  <2>1. \A q, e : q \in Seq(Imported) =>
          /\ Len(Append(q, e)) = Len(q) + 1 /\ Append(q, e)[Len(q) + 1] = e
          /\ \A i \in 1..Len(q) : Append(q, e)[i] = q[i]
    OBVIOUS
  <2> QED
    BY <1>2, <2>1
<1> DEFINE more == [i \in 1..(n + 1) |-> IF i = n + 1 THEN c ELSE content[i]]
<1>4. /\ more \in [1..Len(next.imported) -> Contents] /\ more[n + 1] = c
      /\ \A i \in 1..n : more[i] = content[i]
  BY <1>1, <1>2, <1>3
<1>5. k \notin 1..Done(job) /\ k \in 1..Done(next) /\ \A m \in 1..Done(job) : m \in 1..Done(next)
  BY <1>2
<1>6. \A i \in 1..n : /\ <<job.imported[i], content[i]>> \in written'
                      /\ content[i] \in job.known
                      /\ \E m \in 1..Done(job) : job.imported[i] = <<job.id, m>>
  BY <1>1 DEF Distinct
<1>7. \A i \in 1..n : content[i] # c /\ job.imported[i] # d
  <2>1. \A m \in 1..Done(job) : <<job.id, m>> # d
    BY <1>5
  <2> QED
    BY <1>6, <2>1
<1>8. \A i \in 1..(n + 1) : i = n + 1 \/ i \in 1..n
  BY <1>2
<1>9. \A i, j \in 1..n : i # j => job.imported[i] # job.imported[j] /\ content[i] # content[j]
  BY <1>1 DEF Distinct
<1> HIDE DEF n, k, d, more
<1>10. Distinct(next.imported, more)'
  <2>1. \A i \in 1..(n + 1) : <<next.imported[i], more[i]>> \in written'
    BY <1>3, <1>4, <1>6, <1>8 DEF d, k
  <2>2. \A i, j \in 1..(n + 1) :
          i # j => next.imported[i] # next.imported[j] /\ more[i] # more[j]
    <3>1. ASSUME NEW i \in 1..n, NEW j \in 1..n, i # j
          PROVE  next.imported[i] # next.imported[j] /\ more[i] # more[j]
      <4>1. next.imported[i] = job.imported[i] /\ more[i] = content[i]
        BY <1>3, <1>4
      <4>2. next.imported[j] = job.imported[j] /\ more[j] = content[j]
        BY <1>3, <1>4
      <4> QED
        BY <1>9, <3>1, <4>1, <4>2
    <3>2. ASSUME NEW i \in 1..n
          PROVE  next.imported[i] # next.imported[n + 1] /\ more[i] # more[n + 1]
      BY <1>3, <1>4, <1>7, <3>2
    <3> QED
      BY <1>8, <3>1, <3>2
  <2> QED
    BY <1>3, <2>1, <2>2 DEF Distinct
<1>11. \A i \in 1..(n + 1) :
         more[i] \in next.known /\ \E m \in 1..Done(next) : next.imported[i] = <<next.id, m>>
  <2>1. ASSUME NEW i \in 1..n
        PROVE  more[i] \in next.known /\ \E m \in 1..Done(next) : next.imported[i] = <<next.id, m>>
    BY <1>3, <1>4, <1>5, <1>6
  <2>2. more[n + 1] \in next.known /\ next.imported[n + 1] = <<next.id, k>>
    BY <1>3, <1>4 DEF d
  <2> QED
    BY <1>5, <1>8, <2>1, <2>2
<1> QED
  BY <1>3, <1>4, <1>10, <1>11 DEF AccountedSoFar
LEMMA AccountLoad ==
  ASSUME TypeOK, AccountInv, NEW w \in Workers, Load(w)
  PROVE  Accounts(proc'[w])
<1> PICK c : c = proc[w].change
  OBVIOUS
<1>1. CASE proc'[w] = Idle
  BY <1>1, NothingToAccount
<1>2. CASE /\ proc'[w].pc = "write" /\ proc'[w].change = c
           /\ proc'[w].job = proc[w].job /\ proc'[w].next = Apply(file, c)
  <2>1. AtSave(proc[w]) /\ proc[w].pc = "load" /\ Accounts(proc[w])
    BY LoadFacts DEF AccountInv
  <2>2. c \in Edits \cup Deletes \cup SpaceSaves \cup JobSaves
    BY <2>1 DEF AtSave, Saves
  <2>3. /\ file.docs \in [IDs -> Document \cup {None}] /\ file \in FileOf
        /\ file.jobs \in [Jobs -> JobEntry \cup {None}]
    BY SpacesOnFile DEF TypeOK
  <2>4. /\ c.part \in {"docs", "spaces", "jobs"}
        /\ c.part = "docs" => /\ Apply(file, c).docs[c.key] = c.value
                              /\ Apply(file, c).jobs = file.jobs
        /\ c.part = "spaces" => Apply(file, c).jobs = file.jobs
        /\ c.part = "jobs" =>
             \A j \in Jobs : Apply(file, c).jobs[j] = IF j = c.key THEN c.value ELSE file.jobs[j]
    <3>1. /\ c.part \in {"docs", "spaces", "jobs"}
          /\ c.part = "docs" => /\ Apply(file, c).docs = [file.docs EXCEPT ![c.key] = c.value]
                                /\ c.key \in IDs /\ Apply(file, c).jobs = file.jobs
          /\ c.part = "spaces" => Apply(file, c).jobs = file.jobs
          /\ c.part = "jobs" => Apply(file, c).jobs = [file.jobs EXCEPT ![c.key] = c.value]
      BY <2>2, <2>3, ApplyFields
    <3> QED
      BY <2>3, <3>1
  <2>5. /\ c.part = "docs" /\ c.kind = "import" => AccountedSoFar(proc[w].job)
        /\ c.part = "jobs" => Accounted(c.value)
    BY <2>1 DEF Accounts
  <2>6. \A j \in Jobs : Apply(file, c).jobs[j] # None => Accounted(Apply(file, c).jobs[j])
    BY <2>4, <2>5 DEF AccountInv
  <2> QED
    BY <1>2, <2>4, <2>5, <2>6 DEF Accounts
<1> QED
  BY <1>1, <1>2, LoadFacts

LEMMA AccountWrite ==
  ASSUME TypeOK, AccountInv, [Next]_vars, NEW w \in Workers, Write(w)
  PROVE  AccountInv'
<1> PICK c, job : c = proc[w].change /\ job = proc[w].job
  OBVIOUS
<1>1. /\ proc[w].pc = "write" /\ file' = proc[w].next /\ OthersStay(w) /\ Accounts(proc[w])
      /\ AtSave(proc[w])
  BY WriteFacts DEF AccountInv
<1>2. /\ \A e : Accounted(e) => Accounted(e)'
      /\ \A k : AccountedSoFar(k) => AccountedSoFar(k)'
  BY WrittenGrows, AccountsStand
<1>3. \A j \in Jobs : file'.jobs[j] # None => Accounted(file.jobs[j])'
  <2>1. \A j \in Jobs : file'.jobs[j] # None => Accounted(file'.jobs[j])
    BY <1>1 DEF Accounts
  <2> QED
    BY <2>1, WrittenGrows, AccountsStand DEF Accounted, Distinct
<1>4. \A v \in Workers \ {w} : Accounts(proc[v])'
  <2>1. \A v \in Workers \ {w} : Accounts(proc'[v])
    BY <1>1 DEF OthersStay, AccountInv
  <2> QED
    BY <2>1, WrittenGrows, AccountsStand DEF Accounts
<1>5. Accounts(proc[w])'
  <2>1. CASE proc'[w] = Idle
    BY <2>1 DEF Accounts, Idle
  <2>2. CASE proc'[w].pc = "list" /\ proc'[w].job = job /\ job.imported = << >>
    <3>1. AccountedSoFar(job)
      BY <2>2, NothingImported
    <3>2. AccountedSoFar(proc'[w].job)
      BY <2>2, <3>1
    <3>3. AccountedSoFar(proc[w].job)'
      BY <3>2, WrittenGrows, AccountsStand DEF AccountedSoFar, Distinct
    <3> QED
      BY <2>2, <3>3 DEF Accounts
  <2>3. CASE /\ c \in Edits /\ JobOK(job) /\ UploadsNext(c, job)
             /\ proc'[w].pc = "source" /\ JobOK(proc'[w].job)
             /\ proc'[w].job.id = job.id
             /\ proc'[w].job.imported = Append(job.imported, c.key)
             /\ proc'[w].job.known = job.known \cup {c.value.content}
             /\ Done(proc'[w].job) = Done(job) + 1
    <3> PICK doc : doc = c.value
      OBVIOUS
    <3>0. PICK next : next = proc'[w].job
      OBVIOUS
    <3>1. /\ c.kind = "import" /\ c.key = <<job.id, Done(job) + 1>> /\ Done(job) < Len(job.sources)
          /\ doc = ImportedAs(job, Source(job)) /\ Source(job) \in Contents \ job.known
      BY <2>3 DEF UploadsNext
    <3>2. c.part = "docs" /\ doc \in Document
      BY <2>3 DEF Edits
    <3>3. doc.content \in Contents \ job.known
      BY <3>1 DEF ImportedAs, UploadedAs
    <3>4. AccountedSoFar(job) /\ file'.docs[c.key] = doc
      BY <1>1, <3>1, <3>2 DEF Accounts
    <3>5. c.key \in Imported /\ doc # None
      <4>1. Done(job) + 1 \in 1..MaxSources /\ job.id \in Jobs
        <5>1. JobOK(job) /\ job \in ImportJob
          BY <2>3 DEF JobOK
        <5>2. Done(job) \in Nat /\ Len(job.sources) \in Nat /\ Len(job.sources) <= MaxSources
          BY <5>1, DoneIsNat DEF JobOK
        <5> QED
          BY <3>1, <5>1, <5>2, KnowledgeAssumption DEF ImportJob
      <4> QED
        BY <3>1, <3>2, <4>1, NoneAssumption DEF Imported
    <3>6. <<c.key, doc.content>> \in written'
      BY <3>4, <3>5 DEF Write
    <3>7. AccountedSoFar(job)'
      BY <1>2, <3>4
    <3>8. AccountedSoFar(next)'
      <4>1. JobOK(job) /\ JobOK(next) /\ next.id = job.id /\ Done(next) = Done(job) + 1
        BY <2>3, <3>0
      <4>2. next.imported = Append(job.imported, c.key) /\ next.known = job.known \cup {doc.content}
        BY <2>3, <3>0
      <4>3. c.key = <<job.id, Done(job) + 1>>
        BY <3>1
      <4> QED
        BY <3>3, <3>6, <3>7, <4>1, <4>2, <4>3, OneMoreImported
    <3>9. AccountedSoFar(proc[w].job)'
      BY <3>0, <3>8 DEF AccountedSoFar, Distinct, Done
    <3> QED
      BY <2>3, <3>9 DEF Accounts
  <2> QED
    BY <2>1, <2>2, <2>3, WriteFacts
<1> QED
  BY <1>1, <1>3, <1>4, <1>5 DEF AccountInv
LEMMA AccountStep ==
  ASSUME TypeOK, AccountInv, [Next]_vars
  PROVE  AccountInv'
<1>1. CASE UNCHANGED vars
  <2>1. \A w \in Workers : Accounts(proc[w])'
    <3>1. \A w \in Workers : Accounts(proc'[w])
      BY <1>1 DEF vars, AccountInv
    <3> QED
      BY <3>1, WrittenGrows, AccountsStand DEF Accounts
  <2>2. (\A j \in Jobs : file.jobs[j] # None => Accounted(file.jobs[j]))'
    BY <1>1 DEF vars, AccountInv, Accounted, Distinct
  <2> QED
    BY <2>1, <2>2 DEF AccountInv
<1>2. ASSUME NEW w \in Workers, Arrives(w) PROVE AccountInv'
  <2>1. PICK pc, c, job : Begin(w, pc, c, job) /\ Asks(pc, c, job)
    BY <1>2, ArrivalAsks
  <2>2. /\ UNCHANGED file /\ OthersStay(w) /\ proc'[w].pc = pc
        /\ proc'[w].change = c /\ proc'[w].job = job
    BY <2>1, BeginFacts
  <2>3. Accounts(proc'[w])
    BY <2>1, <2>2, NothingToAccount, OpenJobSaved DEF Asks
  <2> QED
    BY <2>2, <2>3, AccountKept
<1>3. ASSUME NEW w \in Workers, FailJob(w), IsRequest(proc[w]), JobOK(proc[w].job), Keep
      PROVE  AccountInv'
  <2>1. OthersStay(w) /\ UNCHANGED file
    BY <1>3, FailJobFacts DEF Keep
  <2>2. Accounts(proc'[w])
    BY <1>3, FailJobFacts, OpenJobSaved
  <2> QED
    BY <2>1, <2>2, AccountKept
<1>4. ASSUME NEW w \in Workers, ImportListed(w) PROVE AccountInv'
  <2>1. OthersStay(w) /\ UNCHANGED file /\ proc'[w].pc = "source" /\ proc'[w].job.imported = << >>
    BY <1>4, ImportListedFacts DEF Keep
  <2>2. Accounts(proc'[w])
    BY <2>1, NothingImported DEF Accounts
  <2> QED
    BY <2>1, <2>2, AccountKept
<1>5. ASSUME NEW w \in Workers, ImportSource(w), ~FailJob(w) PROVE AccountInv'
  <2>1. /\ OthersStay(w) /\ UNCHANGED file /\ AccountedSoFar(proc[w].job) /\ JobOK(proc[w].job)
    BY <1>5, ImportSourceFacts DEF Keep, AccountInv, Accounts, AtImport
  <2>2. CASE /\ proc'[w].pc = "source" /\ JobOK(proc'[w].job)
             /\ proc'[w].job.id = proc[w].job.id
             /\ proc'[w].job.imported = proc[w].job.imported
             /\ proc'[w].job.known = proc[w].job.known
             /\ Done(proc'[w].job) = Done(proc[w].job) + 1
    <3>1. \A m \in 1..Done(proc[w].job) : m \in 1..Done(proc'[w].job)
      BY <2>1, <2>2, DoneIsNat DEF JobOK
    <3>2. AccountedSoFar(proc'[w].job)
      BY <2>1, <2>2, <3>1 DEF AccountedSoFar
    <3>3. Accounts(proc'[w])
      BY <2>2, <3>2 DEF Accounts
    <3> QED
      BY <2>1, <3>3, AccountKept
  <2>3. CASE proc'[w].pc = "load" /\ proc'[w].job = proc[w].job /\ proc'[w].change \in Edits
    <3>1. proc'[w].change.part = "docs"
      BY <2>3 DEF Edits
    <3>2. Accounts(proc'[w])
      BY <2>1, <2>3, <3>1 DEF Accounts
    <3> QED
      BY <2>1, <3>2, AccountKept
  <2> QED
    BY <1>5, <2>2, <2>3, ImportSourceFacts
<1>6. ASSUME NEW w \in Workers, ImportEnds(w) PROVE AccountInv'
  <2>1. /\ OthersStay(w) /\ UNCHANGED file /\ AccountedSoFar(proc[w].job)
        /\ proc'[w].pc = "load" /\ JobOK(proc'[w].job)
        /\ proc'[w].job.imported = proc[w].job.imported
        /\ proc'[w].job.skipped = proc[w].job.skipped
        /\ proc'[w].job.sources = proc[w].job.sources
        /\ Done(proc[w].job) = Len(proc[w].job.sources)
        /\ proc'[w].change = SaveImportJob(proc'[w].job)
    BY <1>6, ImportEndsFacts DEF Keep, AccountInv, Accounts
  <2>2. Done(proc'[w].job) = Len(proc'[w].job.sources)
    BY <2>1 DEF Done
  <2>3. Accounts(proc'[w])
    BY <2>1, <2>2, ClosedAccounts
  <2> QED
    BY <2>1, <2>3, AccountKept
<1>7. ASSUME NEW w \in Workers, ReindexCheck(w) PROVE AccountInv'
  <2>1. Accounts(proc'[w])
    BY <1>7, ReindexCheckFacts, NothingToAccount DEF AtCheck
  <2> QED
    BY <1>7, <2>1, ReindexCheckFacts, AccountKept DEF Keep
<1>8. ASSUME NEW w \in Workers, MoveGet(w) PROVE AccountInv'
  <2>1. Accounts(proc'[w])
    BY <1>8, MoveGetFacts, NothingToAccount
  <2> QED
    BY <1>8, <2>1, MoveGetFacts, AccountKept DEF Keep
<1>9. ASSUME NEW w \in Workers, Load(w) PROVE AccountInv'
  BY <1>9, AccountLoad, AccountKept, LoadFacts DEF Keep
<1>10. ASSUME NEW w \in Workers, SaveFails(w) PROVE AccountInv'
  BY <1>3, <1>10, SaveFailsFacts, NothingToAccount, AccountKept DEF Keep
<1>11. ASSUME NEW w \in Workers, ImportRefused(w) PROVE AccountInv'
  BY <1>3, <1>11, ImportRefusedFacts
<1>12. ASSUME NEW w \in Workers, ImportSource(w), FailJob(w) PROVE AccountInv'
  BY <1>3, <1>12, ImportSourceFacts DEF AtImport
<1>13. CASE Crash
  <2>1. \A w \in Workers : Accounts(proc[w])'
    BY <1>13 DEF Crash, Accounts, Idle
  <2>2. (\A j \in Jobs : file.jobs[j] # None => Accounted(file.jobs[j]))'
    BY <1>13 DEF Crash, AccountInv, Accounted, Distinct
  <2> QED
    BY <2>1, <2>2 DEF AccountInv
<1> QED
  BY <1>1, <1>2, <1>4, <1>5, <1>6, <1>7, <1>8, <1>9, <1>10, <1>11, <1>12, <1>13, AccountWrite
     DEF Next, Step, Arrives

(* A closed import job accounts for each of its sources: those it did not skip   *)
(* became documents that have been on file, each with a content of its own, so   *)
(* the job's list of known contents sees its own uploads.                        *)
THEOREM JobsAccount == Spec => []ClosedJobAccounts
<1>1. Init => AccountInv
  BY DEF Init, EmptyFile, AccountInv, Accounts, Idle
<1>2. TypeOK /\ AccountInv /\ [Next]_vars => AccountInv'
  BY AccountStep
<1>3. AccountInv => ClosedJobAccounts
  <2> SUFFICES ASSUME AccountInv, NEW j \in Jobs, file.jobs[j] # None,
                      file.jobs[j].status \in {"completed", "partial"}
               PROVE  LET job == file.jobs[j]
                          Slots == 1..Len(job.imported) IN
                      /\ Len(job.imported) + job.skipped = job.total
                      /\ \E content \in [Slots -> Contents] : \A i, k \in Slots :
                           /\ <<job.imported[i], content[i]>> \in written
                           /\ i # k => /\ job.imported[i] # job.imported[k]
                                       /\ content[i] # content[k]
    BY DEF ClosedJobAccounts
  <2> QED
    BY DEF AccountInv, Accounted, Distinct
<1> QED
  BY <1>1, <1>2, <1>3, TypeCorrect, PTL DEF Spec
=============================================================================
