---------------------------- MODULE AdminConsole -----------------------------
(* The smaller stores of internal/admin, one file each: persona versions,      *)
(* memory records, tool policies, the audit trail and the knowledge gaps.  No  *)
(* store excludes a second request between a load and the write that follows.  *)
(* The gaps are renamed into place; the others are written with os.WriteFile,  *)
(* which truncates first: a load or a crash in between finds a torn file.      *)
EXTENDS Naturals, Sequences, FiniteSets

CONSTANTS
  Workers,      \* goroutines serving requests
  Personas,     \* persona bodies
  Valid,        \* those that pass Persona.Validate
  Memories,     \* memory record IDs
  Owners,       \* persona IDs of tool policies
  Tools,        \* tool names
  Questions,    \* gap keys: space, question and reason
  GapStatuses,  \* the statuses clients give a gap
  MaxVersions,  \* bound on persona versions
  MaxGaps,      \* bound on gaps
  MaxRequests,  \* bound on the requests of a behaviour
  Torn,         \* a file no load can decode
  None

ASSUME ConsoleAssumption ==
  /\ Valid \subseteq Personas
  /\ GapStatuses \subseteq {"open", "investigating", "ignored", "resolved"}
  /\ MaxVersions \in Nat /\ MaxGaps \in Nat /\ MaxRequests \in Nat

VARIABLES
  files,      \* the content of each store's file
  proc,       \* what each worker is doing
  requests,   \* number of requests so far
  gapIDs,     \* number of gap IDs handed out (gap-<nanoseconds>)
  published,  \* history: the versions whose publication was acknowledged
  raced,      \* history: the stores two requests used at a time
  lost        \* history: the stores whose file was torn with no write under way

vars == <<files, proc, requests, gapIDs, published, raced, lost>>

Stores == {"personas", "memories", "policies", "audit", "gaps"}
Atomic == {"gaps"}
Versions == 1..MaxVersions
Version == [persona : Personas, status : {"draft", "published"}]

ASSUME NoneAssumption == None \notin Version \cup Stores

Empty ==
  [personas |-> [versions |-> [v \in Versions |-> None], active |-> None],
   memories |-> [m \in Memories |-> None],
   policies |-> [o \in Owners |-> None],
   audit    |-> << >>,
   gaps     |-> [g \in 1..MaxGaps |-> None]]

Idle == [pc |-> "idle", store |-> None, change |-> None, next |-> None, then |-> None]

Init ==
  /\ files = Empty
  /\ proc = [w \in Workers |-> Idle]
  /\ requests = 0 /\ gapIDs = 0
  /\ published = [v \in Versions |-> None]
  /\ raced = {} /\ lost = {}

-----------------------------------------------------------------------------
(* What a save changes in the file it loaded                                 *)

SaveVersion(v, version) == [kind |-> "version", key |-> v, value |-> version]
SetActive(v) == [kind |-> "active", key |-> v, value |-> None]
SaveRecord(key, value) == [kind |-> "record", key |-> key, value |-> value]
SaveAudit(record) == [kind |-> "append", key |-> None, value |-> record]

(* FilePersonaStore.SetActive finds the version before it loads the file anew. *)
Applicable(f, c) == c.kind = "active" => f.versions[c.key] # None

Apply(f, c) ==
  CASE c.kind = "version" -> [f EXCEPT !.versions[c.key] = c.value]
    [] c.kind = "active"  -> [f EXCEPT !.active = c.key]
    [] c.kind = "record"  -> [f EXCEPT ![c.key] = c.value]
    [] c.kind = "append"  -> Append(f, c.value)

-----------------------------------------------------------------------------
(* Requests: the first read, then the save                                   *)

Begin(w, store, change, then) ==
  /\ proc[w] = Idle /\ requests < MaxRequests
  /\ requests' = requests + 1
  /\ proc' = [proc EXCEPT ![w] =
       [pc |-> "load", store |-> store, change |-> change, next |-> None, then |-> then]]
  /\ UNCHANGED <<files, published>>

Readable(store) == files[store] # Torn

VersionsOnFile == {v \in Versions : files.personas.versions[v] # None}

NextVersionOfDrafts ==   \* mutant: the number of the drafts, not of the versions
  Cardinality({v \in VersionsOnFile : files.personas.versions[v].status = "draft"}) + 1
NextVersion == Cardinality(VersionsOnFile) + 1

(* PersonaService.SaveDraft numbers a version by the length of the list. *)
SaveDraft(w) ==
  \E p \in Personas :
    /\ Readable("personas") /\ NextVersion \in Versions
    /\ Begin(w, "personas", SaveVersion(NextVersion, [persona |-> p, status |-> "draft"]), None)
    /\ UNCHANGED gapIDs

(* Publish saves the version, and sets it active with a second save. *)
Publish(w) ==
  /\ Readable("personas")
  /\ \E v \in VersionsOnFile :
       LET version == files.personas.versions[v] IN
       /\ version.persona \in Valid
       /\ Begin(w, "personas", SaveVersion(v, [version EXCEPT !.status = "published"]), v)
  /\ UNCHANGED gapIDs

MayBeActive(v) == files.personas.versions[v].status = "published"

Rollback(w) ==
  /\ Readable("personas")
  /\ \E v \in VersionsOnFile : /\ MayBeActive(v)
                               /\ Begin(w, "personas", SetActive(v), None)
  /\ UNCHANGED gapIDs

(* Save is what other programs use; the handlers only list and disable. *)
SaveMemory(w) ==
  \E m \in Memories :
    Begin(w, "memories", SaveRecord(m, "active"), None) /\ UNCHANGED gapIDs

DisableMemory(w) ==
  /\ Readable("memories")
  /\ \E m \in Memories : /\ files.memories[m] # None
                         /\ Begin(w, "memories", SaveRecord(m, "disabled"), None)
  /\ UNCHANGED gapIDs

SavePolicy(w) ==
  \E o \in Owners, allowed \in SUBSET Tools :
    Begin(w, "policies", SaveRecord(o, allowed), None) /\ UNCHANGED gapIDs

(* AuditService.Record: one record per answer, all of a conversation's with    *)
(* one ID.                                                                     *)
RecordAudit(w) ==
  \E q \in Questions :
    Begin(w, "audit", SaveAudit(q), None) /\ UNCHANGED gapIDs

OpenGap(q) ==
  \E g \in 1..MaxGaps : files.gaps[g] # None /\ files.gaps[g] = [key |-> q, status |-> "open"]
AssignedGap(q) ==   \* mutant: only a gap somebody works on answers the request
  \E g \in 1..MaxGaps : files.gaps[g] # None /\ files.gaps[g] = [key |-> q, status |-> "investigating"]
Reported(q) == OpenGap(q)

(* KnowledgeGapService.Create: an open gap of the same key answers the request. *)
CreateGap(w) ==
  \E q \in Questions :
    /\ ~Reported(q) /\ gapIDs < MaxGaps
    /\ gapIDs' = gapIDs + 1
    /\ Begin(w, "gaps", SaveRecord(gapIDs', [key |-> q, status |-> "open"]), None)

UpdateGap(w) ==
  \E g \in 1..MaxGaps, status \in GapStatuses :
    /\ files.gaps[g] # None
    /\ Begin(w, "gaps", SaveRecord(g, [files.gaps[g] EXCEPT !.status = status]), None)
    /\ UNCHANGED gapIDs

-----------------------------------------------------------------------------
(* The save: load the file, truncate it, fill it                             *)

Keep == UNCHANGED <<requests, gapIDs, published>>

DecodesToNothing(w) ==   \* mutant: an undecodable file counts as an empty one
  IF files[proc[w].store] = Torn THEN Empty[proc[w].store] ELSE files[proc[w].store]
Decoded(w) == files[proc[w].store]

Load(w) ==
  /\ proc[w].pc = "load"
  /\ LET change == proc[w].change IN
     IF Decoded(w) # Torn /\ Applicable(Decoded(w), change)
       THEN proc' = [proc EXCEPT
              ![w].pc = IF proc[w].store \in Atomic THEN "fill" ELSE "truncate",
              ![w].next = Apply(Decoded(w), change)]
       ELSE proc' = [proc EXCEPT ![w] = Idle]
  /\ UNCHANGED files /\ Keep

Truncate(w) ==
  /\ proc[w].pc = "truncate"
  /\ files' = [files EXCEPT ![proc[w].store] = Torn]
  /\ proc' = [proc EXCEPT ![w].pc = "fill"]
  /\ Keep

(* After a save: Publish goes on with SetActive, whose Get finds the version,  *)
(* and is acknowledged when that is saved.                                     *)
AfterSave(p) ==
  IF p.then # None /\ p.change.kind = "version"
    THEN [p EXCEPT !.pc = "load", !.change = SetActive(p.then), !.next = None]
    ELSE Idle

Acknowledged(w) ==
  IF proc[w].then # None /\ proc[w].change.kind = "active"
    THEN [published EXCEPT ![proc[w].then] = proc[w].next.versions[proc[w].then].persona]
    ELSE published

(* Of two writes that overlap the later one may leave the longer one's tail.   *)
Fill(w) ==
  LET store == proc[w].store IN
  /\ proc[w].pc = "fill"
  /\ \/ files' = [files EXCEPT ![store] = proc[w].next]
     \/ /\ store \notin Atomic /\ files[store] # Torn
        /\ files' = [files EXCEPT ![store] = Torn]
  /\ published' = Acknowledged(w)
  /\ proc' = [proc EXCEPT ![w] = AfterSave(@)]
  /\ UNCHANGED <<requests, gapIDs>>

(* The directory, the temporary file or the write fails. *)
SaveFails(w) ==
  /\ proc[w].pc \in {"load", "truncate", "fill"}
  /\ proc' = [proc EXCEPT ![w] = Idle]
  /\ UNCHANGED files /\ Keep

Crash ==
  /\ \E w \in Workers : proc[w] # Idle
  /\ proc' = [w \in Workers |-> Idle]
  /\ UNCHANGED files /\ Keep

Step(w) ==
  \/ SaveDraft(w) \/ Publish(w) \/ Rollback(w)
  \/ SaveMemory(w) \/ DisableMemory(w) \/ SavePolicy(w) \/ RecordAudit(w)
  \/ CreateGap(w) \/ UpdateGap(w)
  \/ Load(w) \/ Truncate(w) \/ Fill(w) \/ SaveFails(w)

Watch ==
  /\ raced' = raced \cup {s \in Stores :
       \E v, w \in Workers : v # w /\ proc'[v].store = s /\ proc'[w].store = s}
  /\ lost' = lost \cup {s \in Stores :
       files'[s] = Torn /\ \A w \in Workers : proc'[w].store = s => proc'[w].pc = "load"}

Next == ((\E w \in Workers : Step(w)) \/ Crash) /\ Watch

Spec == Init /\ [][Next]_vars

-----------------------------------------------------------------------------
(* Until two requests overlap on the persona file, drafts, publications,       *)
(* rollbacks, failed saves and crashes leave every version that was reported   *)
(* as published on file as it was published, and only a published version is   *)
(* active.  (SaveDraft's numbers are free only because versions are never      *)
(* deleted and no two drafts are numbered at a time.)                          *)
PublishedStands ==
  "personas" \in raced \/ files.personas = Torn \/
    /\ \A v \in Versions : published[v] # None =>
         files.personas.versions[v] = [persona |-> published[v], status |-> "published"]
    /\ files.personas.active # None => MayBeActive(files.personas.active)

(* Create adds no second open gap of a key, until two requests overlap on the  *)
(* gap file.                                                                   *)
NoSecondOpenGap ==
  [][\A g \in 1..MaxGaps :
       "gaps" \notin raced' /\ files.gaps[g] = None /\ files'.gaps[g] # None
         => ~OpenGap(files'.gaps[g].key)]_vars

(* A file torn by a crash or a failed write is not replaced: every request that *)
(* needs it is refused until someone repairs it, so the loss cannot be           *)
(* overlooked and what is left of the file is not overwritten.                   *)
LossIsNotHidden == \A s \in lost : files[s] = Torn
=============================================================================
