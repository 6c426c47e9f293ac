-------------------------- MODULE AdminConsoleProofs --------------------------
(* Proofs about AdminConsole, for any workers, contents of the stores and       *)
(* bounds.                                                                      *)
EXTENDS AdminConsole, FiniteSetTheorems, TLAPS

Gap == [key : Questions, status : GapStatuses \cup {"open"}]

(* What a store's file holds when it can be decoded. *)
FileOf(s) ==
  CASE s = "personas" -> [versions : [Versions -> Version \cup {None}],
                          active : Versions \cup {None}]
    [] s = "memories" -> [Memories -> {"active", "disabled", None}]
    [] s = "policies" -> [Owners -> (SUBSET Tools) \cup {None}]
    [] s = "audit"    -> Seq(Questions)
    [] s = "gaps"     -> [1..MaxGaps -> Gap \cup {None}]

ChangeOf(s) ==
  CASE s = "personas" -> [kind : {"version"}, key : Versions, value : Version]
                           \cup [kind : {"active"}, key : Versions, value : {None}]
    [] s = "memories" -> [kind : {"record"}, key : Memories, value : {"active", "disabled"}]
    [] s = "policies" -> [kind : {"record"}, key : Owners, value : SUBSET Tools]
    [] s = "audit"    -> [kind : {"append"}, key : {None}, value : Questions]
    [] s = "gaps"     -> [kind : {"record"}, key : 1..MaxGaps, value : Gap]

(* A request in progress on store s. *)
ProcessOn(s, p) ==
  /\ p = [pc |-> p.pc, store |-> s, change |-> p.change, next |-> p.next, then |-> p.then]
  /\ p.pc \in {"load", "truncate", "fill"}
  /\ p.change \in ChangeOf(s)
  /\ p.then \in Versions \cup {None}
  /\ p.then # None => s = "personas" /\ p.change.key = p.then
  /\ p.pc = "truncate" => s \notin Atomic
  /\ p.pc \in {"truncate", "fill"} =>
       /\ p.next \in FileOf(s)
       /\ p.change.kind = "active" => p.next.versions[p.change.key] \in Version

IsProcess(p) == p = Idle \/ \E s \in Stores : ProcessOn(s, p)

FilesOK == /\ files = [s \in Stores |-> files[s]]
           /\ \A s \in Stores : files[s] = Torn \/ files[s] \in FileOf(s)

ProcOK == /\ proc = [w \in Workers |-> proc[w]]
          /\ \A w \in Workers : IsProcess(proc[w])

RestOK == /\ requests \in Nat /\ gapIDs \in 0..MaxGaps
          /\ published \in [Versions -> Personas \cup {None}]
          /\ raced \subseteq Stores /\ lost \subseteq Stores
          /\ files["gaps"] \in FileOf("gaps")

TypeOK == FilesOK /\ ProcOK /\ RestOK

-----------------------------------------------------------------------------
(* Until two requests overlap on a store, one worker at most uses it. *)
OneAtATime ==
  \A s \in Stores \ raced : \A v, w \in Workers :
    proc[v].store = s /\ proc[w].store = s => v = w

(* Nobody is writing to a file that counts as lost. *)
LossInv ==
  /\ LossIsNotHidden
  /\ \A s \in lost, w \in Workers : proc[w].store = s => proc[w].pc \in {"idle", "load"}

(* A request in progress on the gap file adds a gap only if no other of its key *)
(* is open, and writes what is on file but for the gap it saves.                *)
GapRequest(p) ==
  /\ files.gaps[p.change.key] = None => ~OpenGap(p.change.value.key)
  /\ p.pc = "fill" => p.next = [files.gaps EXCEPT ![p.change.key] = p.change.value]

GapInv ==
  "gaps" \notin raced => \A w \in Workers : proc[w].store = "gaps" => GapRequest(proc[w])

(* The versions on file are numbered without a hole, the acknowledged ones are  *)
(* as they were published, and the active one is published.                     *)
Sound(f, acknowledged) ==
  /\ \E n \in 0..MaxVersions : {v \in Versions : f.versions[v] # None} = 1..n
  /\ \A v \in Versions : acknowledged[v] # None =>
       f.versions[v] = [persona |-> acknowledged[v], status |-> "published"]
  /\ f.active # None => f.versions[f.active] # None /\ f.versions[f.active].status = "published"

(* A request in progress on the persona file writes a sound file; a publication *)
(* saves the version published first, and then makes it active.                 *)
PersonaRequest(p) ==
  /\ p.pc = "load" /\ files["personas"] # Torn =>
       Sound(Apply(files["personas"], p.change), published)
  /\ p.pc \in {"truncate", "fill"} =>
       /\ Sound(p.next, published)
       /\ p.change.kind = "active" => p.next.active = p.change.key
       /\ p.change.kind = "version" => p.next.versions[p.change.key] = p.change.value
  /\ p.then # None /\ p.change.kind = "version" => p.change.value.status = "published"

PersonaInv ==
  "personas" \notin raced =>
    /\ files["personas"] # Torn => Sound(files["personas"], published)
    /\ \A w \in Workers : proc[w].store = "personas" => PersonaRequest(proc[w])

-----------------------------------------------------------------------------
(* The operators of the model *)

(* A change of a store's file leaves a file of that store. *)
LEMMA ApplyType ==
  ASSUME NEW s \in Stores, NEW f \in FileOf(s), NEW c \in ChangeOf(s)
  PROVE  Apply(f, c) \in FileOf(s)
<1>1. CASE s = "personas"
  <2>1. CASE c.kind = "version"
    BY <1>1, <2>1 DEF Apply, FileOf, ChangeOf, Version
  <2>2. CASE c.kind = "active"
    BY <1>1, <2>2 DEF Apply, FileOf, ChangeOf
  <2> QED
    BY <1>1, <2>1, <2>2 DEF ChangeOf
<1>2. CASE s = "memories"
  BY <1>2 DEF Apply, FileOf, ChangeOf
<1>3. CASE s = "policies"
  BY <1>3 DEF Apply, FileOf, ChangeOf
<1>4. CASE s = "audit"
  BY <1>4 DEF Apply, FileOf, ChangeOf
<1>5. CASE s = "gaps"
  BY <1>5 DEF Apply, FileOf, ChangeOf
<1> QED
  BY <1>1, <1>2, <1>3, <1>4, <1>5 DEF Stores

LEMMA EmptyType == \A s \in Stores : Empty[s] \in FileOf(s)
<1>1. Empty["personas"] \in FileOf("personas")
  BY DEF Empty, FileOf
<1>2. Empty["memories"] \in FileOf("memories")
  BY DEF Empty, FileOf
<1>3. Empty["policies"] \in FileOf("policies")
  BY DEF Empty, FileOf
<1>4. Empty["audit"] \in FileOf("audit")
  BY DEF Empty, FileOf
<1>5. Empty["gaps"] \in FileOf("gaps")
  BY DEF Empty, FileOf
<1> QED
  BY <1>1, <1>2, <1>3, <1>4, <1>5 DEF Stores

(* What a change does to the persona file. *)
LEMMA PersonaChange ==
  ASSUME NEW f \in FileOf("personas"), NEW c \in ChangeOf("personas")
  PROVE  /\ c.key \in Versions /\ c.kind \in {"version", "active"}
         /\ c.kind = "version" => /\ c.value \in Version
                                  /\ Apply(f, c).active = f.active
                                  /\ Apply(f, c).versions = [f.versions EXCEPT ![c.key] = c.value]
         /\ c.kind = "active" => /\ Apply(f, c).active = c.key
                                 /\ Apply(f, c).versions = f.versions
<1>1. CASE c.kind = "version"
  BY <1>1 DEF Apply, FileOf, ChangeOf
<1>2. CASE c.kind = "active"
  BY <1>2 DEF Apply, FileOf, ChangeOf
<1> QED
  BY <1>1, <1>2 DEF ChangeOf

(* A worker's step leaves the others as they were. *)
LEMMA OneWorkerMoves ==
  ASSUME ProcOK, NEW w \in Workers, NEW p, IsProcess(p), proc' = [proc EXCEPT ![w] = p]
  PROVE  ProcOK' /\ proc'[w] = p /\ \A v \in Workers \ {w} : proc'[v] = proc[v]
<1>1. proc'[w] = p /\ \A v \in Workers \ {w} : proc'[v] = proc[v]
  BY DEF ProcOK
<1>2. proc' = [v \in Workers |-> proc'[v]]
  BY DEF ProcOK
<1>3. ASSUME NEW v \in Workers PROVE IsProcess(proc'[v])
  BY <1>1 DEF ProcOK
<1>4. (\A v \in Workers : IsProcess(proc[v]))' <=> \A v \in Workers : IsProcess(proc'[v])
  BY DEF IsProcess, ProcessOn, Idle
<1> QED
  BY <1>1, <1>2, <1>3, <1>4 DEF ProcOK

(* What a worker with a request knows of it. *)
LEMMA BusyWorker ==
  ASSUME ProcOK, NEW w \in Workers, proc[w].pc # "idle"
  PROVE  proc[w].store \in Stores /\ ProcessOn(proc[w].store, proc[w])
<1>1. IsProcess(proc[w])
  BY DEF ProcOK
<1>2. proc[w] # Idle
  BY DEF Idle
<1>3. PICK s \in Stores : ProcessOn(s, proc[w])
  BY <1>1, <1>2 DEF IsProcess
<1>4. proc[w].store = s
  BY <1>3 DEF ProcessOn
<1> QED
  BY <1>3, <1>4
-----------------------------------------------------------------------------
(* Requests *)

Arrives(w) ==
  \/ SaveDraft(w) \/ Publish(w) \/ Rollback(w)
  \/ SaveMemory(w) \/ DisableMemory(w) \/ SavePolicy(w) \/ RecordAudit(w)
  \/ CreateGap(w) \/ UpdateGap(w)

(* What a request wants to save, given the files it read first. *)
Asks(s, c, then) ==
  /\ c \in ChangeOf(s) /\ then \in Versions \cup {None}
  /\ then # None => /\ s = "personas" /\ c.key = then
                    /\ c.kind = "version" /\ c.value.status = "published"
  /\ s = "gaps" => (files.gaps[c.key] = None => ~OpenGap(c.value.key))
  /\ s = "personas" =>
       /\ files["personas"] # Torn
       /\ Sound(files["personas"], published) =>
            Sound(Apply(files["personas"], c), published)

(* The versions on file, when nobody tears it, are its type's. *)
LEMMA PersonasOnFile ==
  ASSUME TypeOK, Readable("personas")
  PROVE  /\ files["personas"] \in FileOf("personas") /\ files["personas"] # Torn
         /\ VersionsOnFile = {v \in Versions : files["personas"].versions[v] # None}
         /\ \A v \in VersionsOnFile : v \in Versions /\ files["personas"].versions[v] \in Version
<1>1. files["personas"] \in FileOf("personas") /\ files["personas"] # Torn
  BY DEF TypeOK, FilesOK, Readable, Stores
<1>2. VersionsOnFile = {v \in Versions : files["personas"].versions[v] # None}
  BY DEF VersionsOnFile
<1>3. files["personas"].versions \in [Versions -> Version \cup {None}]
  BY <1>1 DEF FileOf
<1> QED
  BY <1>1, <1>2, <1>3

(* A draft gets the first free number, so it replaces no version. *)
LEMMA DraftKeepsSound ==
  ASSUME TypeOK, Readable("personas"), NEW p \in Personas, NextVersion \in Versions,
         Sound(files["personas"], published)
  PROVE  Sound(Apply(files["personas"],
                     SaveVersion(NextVersion, [persona |-> p, status |-> "draft"])), published)
<1> DEFINE f == files["personas"]
           d == [persona |-> p, status |-> "draft"]
           c == SaveVersion(NextVersion, d)
           g == Apply(f, c)
<1>1. f \in FileOf("personas")
  BY PersonasOnFile
<1>2. PICK n \in 0..MaxVersions : {v \in Versions : f.versions[v] # None} = 1..n
  BY DEF Sound
<1>3. NextVersion = n + 1
  <2>1. Cardinality(1..n) = n
    BY FS_Interval, SMT
  <2> QED
    BY <1>2, <2>1, PersonasOnFile DEF NextVersion
<1>4. c \in ChangeOf("personas") /\ c.kind = "version" /\ c.key = n + 1 /\ c.value = d
  BY <1>3 DEF ChangeOf, SaveVersion, Version
<1>5. g.active = f.active /\ g.versions = [f.versions EXCEPT ![n + 1] = d]
  BY <1>1, <1>4, PersonaChange
<1>6. n + 1 \in Versions /\ n + 1 \in 0..MaxVersions
  BY <1>3, ConsoleAssumption DEF Versions
<1>7. f.versions \in [Versions -> Version \cup {None}] /\ d \in Version /\ d # None
  BY <1>1, NoneAssumption DEF FileOf, Version
<1>8. f.versions[n + 1] = None
  BY <1>2, <1>6
<1> HIDE DEF f, g, d, c
<1>9. {v \in Versions : g.versions[v] # None} = 1..(n + 1)
  <2>1. \A v \in Versions : g.versions[v] # None <=> v = n + 1 \/ f.versions[v] # None
    BY <1>5, <1>6, <1>7
  <2>2. 1..(n + 1) = (1..n) \cup {n + 1}
    BY SMT
  <2> QED
    BY <1>2, <1>6, <2>1, <2>2
<1>10. ASSUME NEW v \in Versions, published[v] # None
       PROVE  g.versions[v] = [persona |-> published[v], status |-> "published"]
  <2>1. f.versions[v] = [persona |-> published[v], status |-> "published"]
    BY <1>10 DEF Sound, f
  <2>2. published[v] \in Personas
    BY <1>10 DEF TypeOK, RestOK
  <2>3. f.versions[v] # None
    BY <2>1, <2>2, NoneAssumption DEF Version
  <2> QED
    BY <1>5, <1>6, <1>7, <1>8, <2>1, <2>3
<1>11. ASSUME g.active # None
       PROVE  g.versions[g.active] # None /\ g.versions[g.active].status = "published"
  <2>1. f.versions[f.active] # None /\ f.versions[f.active].status = "published"
    BY <1>5, <1>11 DEF Sound, f
  <2>2. f.active \in Versions
    BY <1>1, <1>5, <1>11 DEF FileOf
  <2> QED
    BY <1>5, <1>6, <1>7, <1>8, <2>1, <2>2
<1>12. Sound(g, published)
  BY <1>6, <1>9, <1>10, <1>11 DEF Sound
<1> QED
  BY <1>12 DEF g, f, c, d

(* Publishing a version again, or making a published one active, changes no    *)
(* version that was acknowledged.                                              *)
LEMMA PublishKeepsSound ==
  ASSUME TypeOK, Readable("personas"), NEW v \in VersionsOnFile
  PROVE  LET version == files["personas"].versions[v]
             c == SaveVersion(v, [version EXCEPT !.status = "published"]) IN
         /\ c \in ChangeOf("personas") /\ c.key = v /\ c.kind = "version"
         /\ c.value.status = "published"
         /\ Sound(files["personas"], published) => Sound(Apply(files["personas"], c), published)
<1> DEFINE f == files["personas"]
           d == [f.versions[v] EXCEPT !.status = "published"]
           c == SaveVersion(v, d)
           g == Apply(f, c)
<1>1. f \in FileOf("personas") /\ v \in Versions /\ f.versions[v] \in Version
  BY PersonasOnFile
<1>2. d \in Version /\ d.status = "published" /\ d.persona = f.versions[v].persona
      /\ d = [persona |-> f.versions[v].persona, status |-> "published"]
  BY <1>1 DEF Version
<1> HIDE DEF d
<1>3. c \in ChangeOf("personas") /\ c.kind = "version" /\ c.key = v /\ c.value = d
  BY <1>1, <1>2 DEF ChangeOf, SaveVersion
<1>4. g.active = f.active /\ g.versions = [f.versions EXCEPT ![v] = d]
  BY <1>1, <1>3, PersonaChange
<1>5. f.versions \in [Versions -> Version \cup {None}] /\ d # None /\ f.versions[v] # None
  BY <1>1, <1>2, NoneAssumption DEF FileOf
<1> HIDE DEF f, g, c
<1>6. ASSUME Sound(f, published) PROVE Sound(g, published)
  <2>1. \A u \in Versions : g.versions[u] # None <=> f.versions[u] # None
    BY <1>1, <1>4, <1>5
  <2>2. {u \in Versions : g.versions[u] # None} = {u \in Versions : f.versions[u] # None}
    BY <2>1
  <2>3. ASSUME NEW u \in Versions, published[u] # None
        PROVE  g.versions[u] = [persona |-> published[u], status |-> "published"]
    <3>1. f.versions[u] = [persona |-> published[u], status |-> "published"]
      BY <1>6, <2>3 DEF Sound
    <3>2. CASE u = v
      BY <1>2, <1>4, <1>5, <3>1, <3>2
    <3> QED
      BY <1>4, <1>5, <3>1, <3>2
  <2>4. ASSUME g.active # None
        PROVE  g.versions[g.active] # None /\ g.versions[g.active].status = "published"
    <3>1. f.versions[f.active] # None /\ f.versions[f.active].status = "published"
      BY <1>4, <1>6, <2>4 DEF Sound
    <3>2. f.active \in Versions
      BY <1>1, <1>4, <2>4 DEF FileOf
    <3> QED
      BY <1>2, <1>4, <1>5, <3>1, <3>2
  <2> QED
    BY <1>6, <2>2, <2>3, <2>4 DEF Sound
<1> QED
  BY <1>2, <1>3, <1>6 DEF f, g, c, d

LEMMA ActivateKeepsSound ==
  ASSUME NEW f \in FileOf("personas"), NEW v \in Versions, NEW acknowledged,
         f.versions[v] # None, f.versions[v].status = "published",
         Sound(f, acknowledged)
  PROVE  Sound(Apply(f, SetActive(v)), acknowledged)
<1>1. SetActive(v) \in ChangeOf("personas") /\ SetActive(v).kind = "active" /\ SetActive(v).key = v
  BY DEF ChangeOf, SetActive
<1>2. Apply(f, SetActive(v)).active = v /\ Apply(f, SetActive(v)).versions = f.versions
  BY <1>1, PersonaChange
<1> QED
  BY <1>2 DEF Sound

LEMMA ArrivalAsks ==
  ASSUME TypeOK, NEW w \in Workers, Arrives(w)
  PROVE  \E s, c, then : /\ s \in Stores /\ Begin(w, s, c, then)
                         /\ Asks(s, c, then) /\ gapIDs' \in 0..MaxGaps
<1> USE DEF TypeOK, RestOK
<1>1. CASE SaveDraft(w)
  <2>1. PICK p \in Personas :
          /\ Readable("personas") /\ NextVersion \in Versions
          /\ Begin(w, "personas", SaveVersion(NextVersion, [persona |-> p, status |-> "draft"]), None)
          /\ UNCHANGED gapIDs
    BY <1>1 DEF SaveDraft
  <2> DEFINE c == SaveVersion(NextVersion, [persona |-> p, status |-> "draft"])
  <2>2. c \in ChangeOf("personas")
    BY <2>1 DEF ChangeOf, SaveVersion, Version
  <2>3. Asks("personas", c, None)
    BY <2>1, <2>2, DraftKeepsSound DEF Asks, Readable
  <2> QED
    BY <2>1, <2>3 DEF Stores
<1>2. CASE Publish(w)
  <2>1. PICK v \in VersionsOnFile :
          /\ Readable("personas")
          /\ Begin(w, "personas", SaveVersion(v, [files["personas"].versions[v]
                                                    EXCEPT !.status = "published"]), v)
          /\ UNCHANGED gapIDs
    BY <1>2 DEF Publish
  <2> DEFINE c == SaveVersion(v, [files["personas"].versions[v] EXCEPT !.status = "published"])
  <2>2. Asks("personas", c, v)
    BY <2>1, PublishKeepsSound, PersonasOnFile DEF Asks, Readable
  <2> QED
    BY <2>1, <2>2 DEF Stores
<1>3. CASE Rollback(w)
  <2>1. PICK v \in VersionsOnFile : /\ Readable("personas") /\ MayBeActive(v)
                                    /\ Begin(w, "personas", SetActive(v), None)
                                    /\ UNCHANGED gapIDs
    BY <1>3 DEF Rollback
  <2>2. SetActive(v) \in ChangeOf("personas")
    BY PersonasOnFile, <2>1 DEF ChangeOf, SetActive
  <2>3. Asks("personas", SetActive(v), None)
    BY <2>1, <2>2, ActivateKeepsSound, PersonasOnFile, NoneAssumption DEF Asks, MayBeActive, Readable
  <2> QED
    BY <2>1, <2>3 DEF Stores
<1>4. CASE SaveMemory(w)
  <2>1. PICK m \in Memories : Begin(w, "memories", SaveRecord(m, "active"), None) /\ UNCHANGED gapIDs
    BY <1>4 DEF SaveMemory
  <2> QED
    BY <2>1 DEF Asks, ChangeOf, SaveRecord, Stores
<1>5. CASE DisableMemory(w)
  <2>1. PICK m \in Memories : Begin(w, "memories", SaveRecord(m, "disabled"), None) /\ UNCHANGED gapIDs
    BY <1>5 DEF DisableMemory
  <2> QED
    BY <2>1 DEF Asks, ChangeOf, SaveRecord, Stores
<1>6. CASE SavePolicy(w)
  <2>1. PICK o \in Owners, allowed \in SUBSET Tools :
          Begin(w, "policies", SaveRecord(o, allowed), None) /\ UNCHANGED gapIDs
    BY <1>6 DEF SavePolicy
  <2> QED
    BY <2>1 DEF Asks, ChangeOf, SaveRecord, Stores
<1>7. CASE RecordAudit(w)
  <2>1. PICK q \in Questions : Begin(w, "audit", SaveAudit(q), None) /\ UNCHANGED gapIDs
    BY <1>7 DEF RecordAudit
  <2> QED
    BY <2>1 DEF Asks, ChangeOf, SaveAudit, Stores
<1>8. CASE CreateGap(w)
  <2>1. PICK q \in Questions :
          /\ ~OpenGap(q) /\ gapIDs < MaxGaps
          /\ gapIDs' = gapIDs + 1
          /\ Begin(w, "gaps", SaveRecord(gapIDs', [key |-> q, status |-> "open"]), None)
    BY <1>8 DEF CreateGap, Reported
  <2>2. gapIDs' \in 1..MaxGaps
    BY <2>1, ConsoleAssumption
  <2>3. SaveRecord(gapIDs', [key |-> q, status |-> "open"]) \in ChangeOf("gaps")
    BY <2>2 DEF ChangeOf, SaveRecord, Gap
  <2>4. Asks("gaps", SaveRecord(gapIDs', [key |-> q, status |-> "open"]), None)
    BY <2>1, <2>3 DEF Asks, SaveRecord
  <2> QED
    BY <2>1, <2>2, <2>4 DEF Stores
<1>9. CASE UpdateGap(w)
  <2>1. PICK g \in 1..MaxGaps, status \in GapStatuses :
          /\ files.gaps[g] # None
          /\ Begin(w, "gaps", SaveRecord(g, [files.gaps[g] EXCEPT !.status = status]), None)
          /\ UNCHANGED gapIDs
    BY <1>9 DEF UpdateGap
  <2>2. files.gaps[g] \in Gap
    BY <2>1 DEF FileOf
  <2>3. SaveRecord(g, [files.gaps[g] EXCEPT !.status = status]) \in ChangeOf("gaps")
    BY <2>2 DEF ChangeOf, SaveRecord, Gap
  <2>4. Asks("gaps", SaveRecord(g, [files.gaps[g] EXCEPT !.status = status]), None)
    BY <2>1, <2>3 DEF Asks, SaveRecord
  <2> QED
    BY <2>1, <2>4 DEF Stores
<1> QED
  BY <1>1, <1>2, <1>3, <1>4, <1>5, <1>6, <1>7, <1>8, <1>9 DEF Arrives
-----------------------------------------------------------------------------
(* Type correctness *)

LEMMA InitType == Init => TypeOK
<1> SUFFICES ASSUME Init PROVE TypeOK
  OBVIOUS
<1>1. FilesOK
  BY EmptyType DEF Init, FilesOK, Empty, Stores
<1>2. ProcOK
  BY DEF Init, ProcOK, IsProcess
<1>3. RestOK
  BY EmptyType, ConsoleAssumption DEF Init, RestOK, Stores
<1> QED
  BY <1>1, <1>2, <1>3 DEF TypeOK

LEMMA WatchType == TypeOK /\ Watch => raced' \subseteq Stores /\ lost' \subseteq Stores
  BY DEF TypeOK, RestOK, Watch

(* The files, a worker's step and the rest: what a step has to show. *)
LEMMA StepType ==
  ASSUME TypeOK, Watch, NEW w \in Workers, NEW p, IsProcess(p),
         proc' = [proc EXCEPT ![w] = p],
         FilesOK', files'["gaps"] \in FileOf("gaps"),
         requests' \in Nat, gapIDs' \in 0..MaxGaps,
         published' \in [Versions -> Personas \cup {None}]
  PROVE  TypeOK'
<1>1. ProcOK'
  BY OneWorkerMoves DEF TypeOK
<1>2. RestOK'
  BY WatchType DEF RestOK, FileOf, Gap
<1> QED
  BY <1>1, <1>2 DEF TypeOK

(* A step that leaves the files alone. *)
LEMMA FilesStay == TypeOK /\ UNCHANGED files => FilesOK' /\ files'["gaps"] \in FileOf("gaps")
  BY DEF TypeOK, RestOK, FilesOK, FileOf, Gap

(* The save of one store. *)
LEMMA OneFileMoves ==
  ASSUME TypeOK, NEW s \in Stores, NEW f, f = Torn \/ f \in FileOf(s),
         s = "gaps" => f \in FileOf(s), files' = [files EXCEPT ![s] = f]
  PROVE  /\ FilesOK' /\ files'["gaps"] \in FileOf("gaps")
         /\ files'[s] = f /\ \A t \in Stores \ {s} : files'[t] = files[t]
<1>1. files = [t \in Stores |-> files[t]] /\ DOMAIN files = Stores
  BY DEF TypeOK, FilesOK
<1>2. files'[s] = f /\ \A t \in Stores \ {s} : files'[t] = files[t]
  BY <1>1
<1>3. files' = [t \in Stores |-> files'[t]]
  BY <1>1
<1>4. \A t \in Stores : files'[t] = Torn \/ files'[t] \in FileOf(t)
  BY <1>2 DEF TypeOK, FilesOK
<1>5. FilesOK'
  BY <1>3, <1>4 DEF FilesOK, FileOf, Gap
<1>6. files'["gaps"] \in FileOf("gaps")
  BY <1>2 DEF TypeOK, RestOK, Stores
<1> QED
  BY <1>2, <1>5, <1>6

LEMMA ArrivalType ==
  ASSUME TypeOK, Watch, NEW w \in Workers, NEW s \in Stores, NEW c, NEW then,
         Begin(w, s, c, then), Asks(s, c, then), gapIDs' \in 0..MaxGaps
  PROVE  TypeOK'
<1> DEFINE p == [pc |-> "load", store |-> s, change |-> c, next |-> None, then |-> then]
<1>1. ProcessOn(s, p)
  BY DEF ProcessOn, Asks
<1>2. IsProcess(p) /\ proc' = [proc EXCEPT ![w] = p]
  BY <1>1 DEF IsProcess, Begin
<1>3. requests' \in Nat /\ UNCHANGED <<files, published>>
  BY DEF Begin, TypeOK, RestOK
<1> HIDE DEF p
<1> QED
  BY <1>2, <1>3, StepType, FilesStay DEF TypeOK, RestOK

(* The load of a save. *)
Loaded(w) ==
  [proc[w] EXCEPT !.pc = IF proc[w].store \in Atomic THEN "fill" ELSE "truncate",
                  !.next = Apply(files[proc[w].store], proc[w].change)]

LEMMA LoadCases ==
  ASSUME TypeOK, NEW w \in Workers, Load(w)
  PROVE  \/ proc' = [proc EXCEPT ![w] = Idle]
         \/ /\ files[proc[w].store] # Torn
            /\ files[proc[w].store] \in FileOf(proc[w].store)
            /\ ProcessOn(proc[w].store, Loaded(w))
            /\ proc' = [proc EXCEPT ![w] = Loaded(w)]
<1> DEFINE s == proc[w].store
           c == proc[w].change
           f == files[s]
<1>1. s \in Stores /\ ProcessOn(s, proc[w]) /\ proc[w].pc = "load"
  BY BusyWorker DEF Load, TypeOK
<1>2. c \in ChangeOf(s)
  BY <1>1 DEF ProcessOn
<1>3. CASE f # Torn /\ Applicable(f, c)
  <2>1. f \in FileOf(s)
    BY <1>1, <1>3 DEF TypeOK, FilesOK
  <2>2. Apply(f, c) \in FileOf(s)
    BY <1>1, <1>2, <2>1, ApplyType
  <2>3. c.kind = "active" => Apply(f, c).versions[c.key] \in Version
    <3>1. SUFFICES ASSUME c.kind = "active" PROVE Apply(f, c).versions[c.key] \in Version
      OBVIOUS
    <3>2. s = "personas"
      BY <1>1, <1>2, <3>1 DEF ChangeOf, Stores
    <3>3. c.key \in Versions /\ Apply(f, c).versions = f.versions
      BY <1>2, <2>1, <3>1, <3>2, PersonaChange
    <3>4. f.versions[c.key] # None
      BY <1>3, <3>1 DEF Applicable
    <3> QED
      BY <2>1, <3>2, <3>3, <3>4 DEF FileOf
  <2>4. ProcessOn(s, Loaded(w))
    <3> DEFINE p == proc[w]
               pc == IF s \in Atomic THEN "fill" ELSE "truncate"
    <3>1. p = [pc |-> p.pc, store |-> s, change |-> c, next |-> p.next, then |-> p.then]
      BY <1>1 DEF ProcessOn
    <3>2. /\ Loaded(w).pc = pc /\ Loaded(w).change = c /\ Loaded(w).next = Apply(f, c)
          /\ Loaded(w).then = p.then
          /\ Loaded(w) = [pc |-> Loaded(w).pc, store |-> s, change |-> Loaded(w).change,
                          next |-> Loaded(w).next, then |-> Loaded(w).then]
      <4>1. Loaded(w) = [p EXCEPT !.pc = pc, !.next = Apply(f, c)]
        BY DEF Loaded
      <4> DEFINE q == Loaded(w)
      <4> HIDE DEF p, pc, c, f, s, q
      <4>2. /\ q.pc = pc /\ q.store = s /\ q.change = p.change /\ q.next = Apply(f, c)
            /\ q.then = p.then
        BY <3>1, <4>1 DEF q
      <4>3. q = [pc |-> q.pc, store |-> q.store, change |-> q.change, next |-> q.next,
                 then |-> q.then]
        BY <3>1, <4>1 DEF q
      <4> QED
        BY <4>2, <4>3 DEF q, c, p
    <3>3. pc \in {"fill", "truncate"} /\ (pc = "truncate" => s \notin Atomic)
      OBVIOUS
    <3>4. /\ p.then \in Versions \cup {None}
          /\ p.then # None => s = "personas" /\ c.key = p.then
      BY <1>1 DEF ProcessOn
    <3> HIDE DEF p, pc, c, f, s
    <3> QED
      BY <1>2, <2>2, <2>3, <3>2, <3>3, <3>4 DEF ProcessOn
  <2>5. proc' = [proc EXCEPT ![w] = Loaded(w)]
    BY <1>3 DEF Load, Decoded, Loaded, TypeOK, ProcOK
  <2> QED
    BY <1>3, <2>1, <2>4, <2>5
<1>4. CASE ~(f # Torn /\ Applicable(f, c))
  BY <1>4 DEF Load, Decoded
<1> QED
  BY <1>3, <1>4

LEMMA LoadType ==
  ASSUME TypeOK, Watch, NEW w \in Workers, Load(w)
  PROVE  TypeOK'
<1>1. proc[w].store \in Stores
  BY BusyWorker DEF Load, TypeOK
<1>2. UNCHANGED <<files, requests, gapIDs, published>>
  BY DEF Load, Keep
<1>3. \E p : IsProcess(p) /\ proc' = [proc EXCEPT ![w] = p]
  BY <1>1, LoadCases DEF IsProcess
<1> QED
  BY <1>2, <1>3, StepType, FilesStay DEF TypeOK, RestOK

LEMMA TruncateType ==
  ASSUME TypeOK, Watch, NEW w \in Workers, Truncate(w)
  PROVE  TypeOK'
<1> DEFINE s == proc[w].store
           p == [proc[w] EXCEPT !.pc = "fill"]
<1>1. s \in Stores /\ ProcessOn(s, proc[w]) /\ proc[w].pc = "truncate"
  BY BusyWorker DEF Truncate, TypeOK
<1>2. ProcessOn(s, p)
  BY <1>1 DEF ProcessOn
<1>3. IsProcess(p) /\ s # "gaps"
  BY <1>1, <1>2 DEF IsProcess, ProcessOn, Atomic
<1>4. proc' = [proc EXCEPT ![w] = p]
  BY DEF Truncate, TypeOK, ProcOK
<1>5. files' = [files EXCEPT ![s] = Torn] /\ UNCHANGED <<requests, gapIDs, published>>
  BY DEF Truncate, Keep
<1> HIDE DEF p
<1> QED
  BY <1>1, <1>3, <1>4, <1>5, OneFileMoves, StepType DEF TypeOK, RestOK

(* What a worker goes on with after a save. *)
LEMMA AfterSaveType ==
  ASSUME NEW s \in Stores, NEW p, ProcessOn(s, p)
  PROVE  IsProcess(AfterSave(p))
<1>1. CASE p.then # None /\ p.change.kind = "version"
  <2>0. PICK q : q = [p EXCEPT !.pc = "load", !.change = SetActive(p.then), !.next = None]
    OBVIOUS
  <2>1. s = "personas" /\ p.then \in Versions
    BY <1>1 DEF ProcessOn
  <2>2. SetActive(p.then) \in ChangeOf("personas") /\ SetActive(p.then).key = p.then
    BY <2>1 DEF ChangeOf, SetActive
  <2>3. /\ q.pc = "load" /\ q.change = SetActive(p.then) /\ q.then = p.then
        /\ q = [pc |-> q.pc, store |-> s, change |-> q.change, next |-> q.next, then |-> q.then]
    <3>1. p = [pc |-> p.pc, store |-> s, change |-> p.change, next |-> p.next, then |-> p.then]
      BY DEF ProcessOn
    <3>2. q.pc = "load" /\ q.store = s /\ q.change = SetActive(p.then) /\ q.then = p.then
      BY <2>0, <3>1
    <3>3. q = [pc |-> q.pc, store |-> q.store, change |-> q.change, next |-> q.next,
               then |-> q.then]
      BY <2>0, <3>1
    <3> QED
      BY <3>2, <3>3
  <2>4. ProcessOn(s, q)
    BY <2>1, <2>2, <2>3 DEF ProcessOn
  <2> QED
    BY <1>1, <2>0, <2>4 DEF IsProcess, AfterSave
<1>2. CASE ~(p.then # None /\ p.change.kind = "version")
  BY <1>2 DEF IsProcess, AfterSave
<1> QED
  BY <1>1, <1>2

LEMMA FillType ==
  ASSUME TypeOK, Watch, NEW w \in Workers, Fill(w)
  PROVE  TypeOK'
<1> DEFINE s == proc[w].store
<1>1. s \in Stores /\ ProcessOn(s, proc[w]) /\ proc[w].pc = "fill"
  BY BusyWorker DEF Fill, TypeOK
<1>2. IsProcess(AfterSave(proc[w]))
  BY <1>1, AfterSaveType
<1>3. proc' = [proc EXCEPT ![w] = AfterSave(proc[w])] /\ UNCHANGED <<requests, gapIDs>>
  BY DEF Fill
<1>4. FilesOK' /\ files'["gaps"] \in FileOf("gaps")
  <2>1. CASE files' = [files EXCEPT ![s] = proc[w].next]
    BY <1>1, <2>1, OneFileMoves DEF ProcessOn
  <2>2. CASE s \notin Atomic /\ files' = [files EXCEPT ![s] = Torn]
    BY <1>1, <2>2, OneFileMoves DEF Atomic
  <2> QED
    BY <2>1, <2>2 DEF Fill
<1>5. published' \in [Versions -> Personas \cup {None}]
  <2>1. CASE proc[w].then # None /\ proc[w].change.kind = "active"
    <3>1. proc[w].then \in Versions /\ proc[w].next.versions[proc[w].then] \in Version
      BY <1>1, <2>1 DEF ProcessOn
    <3>2. proc[w].next.versions[proc[w].then].persona \in Personas
      BY <3>1 DEF Version
    <3> QED
      BY <2>1, <3>1, <3>2 DEF Fill, Acknowledged, TypeOK, RestOK
  <2>2. CASE ~(proc[w].then # None /\ proc[w].change.kind = "active")
    BY <2>2 DEF Fill, Acknowledged, TypeOK, RestOK
  <2> QED
    BY <2>1, <2>2
<1> QED
  BY <1>2, <1>3, <1>4, <1>5, StepType DEF TypeOK, RestOK

LEMMA NextType == TypeOK /\ [Next]_vars => TypeOK'
<1> SUFFICES ASSUME TypeOK, [Next]_vars PROVE TypeOK'
  OBVIOUS
<1>1. ASSUME Watch, NEW w \in Workers, Step(w) PROVE TypeOK'
  <2>1. CASE Arrives(w)
    BY <1>1, <2>1, ArrivalAsks, ArrivalType
  <2>2. CASE SaveFails(w)
    <3>1. IsProcess(Idle) /\ proc' = [proc EXCEPT ![w] = Idle]
      BY <2>2 DEF SaveFails, IsProcess
    <3>2. UNCHANGED <<files, requests, gapIDs, published>>
      BY <2>2 DEF SaveFails, Keep
    <3> QED
      BY <1>1, <3>1, <3>2, StepType, FilesStay DEF TypeOK, RestOK
  <2> QED
    BY <1>1, <2>1, <2>2, LoadType, TruncateType, FillType DEF Step, Arrives
<1>2. CASE Crash /\ Watch
  <2>1. ProcOK'
    BY <1>2 DEF Crash, ProcOK, IsProcess, Idle
  <2>2. RestOK' /\ FilesOK'
    BY <1>2, WatchType, FilesStay DEF Crash, Keep, TypeOK, RestOK, FileOf, Gap
  <2> QED
    BY <2>1, <2>2 DEF TypeOK
<1>3. CASE UNCHANGED vars
  <2>1. ProcOK'
    BY <1>3 DEF vars, TypeOK, ProcOK, IsProcess, ProcessOn, Idle
  <2>2. FilesOK' /\ RestOK'
    BY <1>3, FilesStay DEF vars, TypeOK, RestOK, FileOf, Gap
  <2> QED
    BY <2>1, <2>2 DEF TypeOK
<1> QED
  BY <1>1, <1>2, <1>3 DEF Next

(* The stores' files hold what the code writes there, whatever races: no save  *)
(* writes to another store's file, nor a record another store would decode.    *)
THEOREM TypeCorrect == Spec => []TypeOK
  BY InitType, NextType, PTL DEF Spec
-----------------------------------------------------------------------------
(* What each step of a worker does, in the terms of the invariants *)

OthersStay(w) == \A v \in Workers \ {w} : proc'[v] = proc[v]

LEMMA BeginFacts ==
  ASSUME TypeOK, NEW w \in Workers, NEW s, NEW c, NEW then, Begin(w, s, c, then)
  PROVE  /\ OthersStay(w) /\ proc[w] = Idle /\ UNCHANGED <<files, published>>
         /\ proc'[w].pc = "load" /\ proc'[w].store = s
         /\ proc'[w].change = c /\ proc'[w].then = then
  BY DEF Begin, OthersStay, TypeOK, ProcOK

LEMMA LoadFacts ==
  ASSUME TypeOK, NEW w \in Workers, Load(w)
  PROVE  /\ OthersStay(w) /\ UNCHANGED <<files, published>>
         /\ proc[w].pc = "load" /\ proc[w].store \in Stores /\ ProcessOn(proc[w].store, proc[w])
         /\ \/ proc'[w] = Idle
            \/ /\ files[proc[w].store] # Torn
               /\ files[proc[w].store] \in FileOf(proc[w].store)
               /\ proc'[w].store = proc[w].store /\ proc'[w].change = proc[w].change
               /\ proc'[w].then = proc[w].then
               /\ proc'[w].next = Apply(files[proc[w].store], proc[w].change)
               /\ proc'[w].pc = IF proc[w].store \in Atomic THEN "fill" ELSE "truncate"
<1>1. proc[w].pc = "load" /\ proc[w].store \in Stores /\ ProcessOn(proc[w].store, proc[w])
  BY BusyWorker DEF Load, TypeOK
<1>2. CASE proc' = [proc EXCEPT ![w] = Idle]
  BY <1>1, <1>2 DEF Load, Keep, OthersStay, TypeOK, ProcOK
<1>3. CASE /\ files[proc[w].store] # Torn
           /\ files[proc[w].store] \in FileOf(proc[w].store)
           /\ proc' = [proc EXCEPT ![w] = Loaded(w)]
  <2>1. proc'[w] = Loaded(w) /\ OthersStay(w)
    BY <1>3 DEF OthersStay, TypeOK, ProcOK
  <2>2. proc[w] = [pc |-> proc[w].pc, store |-> proc[w].store, change |-> proc[w].change,
                   next |-> proc[w].next, then |-> proc[w].then]
    BY <1>1 DEF ProcessOn
  <2>3. /\ Loaded(w).store = proc[w].store /\ Loaded(w).change = proc[w].change
        /\ Loaded(w).then = proc[w].then
        /\ Loaded(w).next = Apply(files[proc[w].store], proc[w].change)
        /\ Loaded(w).pc = IF proc[w].store \in Atomic THEN "fill" ELSE "truncate"
    BY <2>2 DEF Loaded
  <2>4. UNCHANGED <<files, published>>
    BY DEF Load, Keep
  <2> QED
    BY <1>1, <1>3, <2>1, <2>3, <2>4
<1> QED
  BY <1>2, <1>3, LoadCases

LEMMA TruncateFacts ==
  ASSUME TypeOK, NEW w \in Workers, Truncate(w)
  PROVE  /\ OthersStay(w) /\ UNCHANGED published
         /\ proc[w].pc = "truncate" /\ proc[w].store \in Stores
         /\ ProcessOn(proc[w].store, proc[w]) /\ proc[w].store # "gaps"
         /\ proc'[w].pc = "fill" /\ proc'[w].store = proc[w].store
         /\ proc'[w].change = proc[w].change /\ proc'[w].next = proc[w].next
         /\ proc'[w].then = proc[w].then
         /\ files'[proc[w].store] = Torn
         /\ \A s \in Stores \ {proc[w].store} : files'[s] = files[s]
<1>1. /\ proc[w].pc = "truncate" /\ proc[w].store \in Stores
      /\ ProcessOn(proc[w].store, proc[w])
  BY BusyWorker DEF Truncate, TypeOK
<1>2. proc[w].store # "gaps"
  BY <1>1 DEF ProcessOn, Atomic
<1>3. proc[w] = [pc |-> proc[w].pc, store |-> proc[w].store, change |-> proc[w].change,
                 next |-> proc[w].next, then |-> proc[w].then]
  BY <1>1 DEF ProcessOn
<1>4. proc'[w] = [proc[w] EXCEPT !.pc = "fill"] /\ OthersStay(w)
  BY DEF Truncate, OthersStay, TypeOK, ProcOK
<1>5. /\ proc'[w].pc = "fill" /\ proc'[w].store = proc[w].store
      /\ proc'[w].change = proc[w].change /\ proc'[w].next = proc[w].next
      /\ proc'[w].then = proc[w].then
  BY <1>3, <1>4
<1>6. files'[proc[w].store] = Torn /\ \A s \in Stores \ {proc[w].store} : files'[s] = files[s]
  BY <1>1 DEF Truncate, TypeOK, FilesOK
<1>7. UNCHANGED published
  BY DEF Truncate, Keep
<1> QED
  BY <1>1, <1>2, <1>4, <1>5, <1>6, <1>7

LEMMA FillFacts ==
  ASSUME TypeOK, NEW w \in Workers, Fill(w)
  PROVE  /\ OthersStay(w) /\ published' = Acknowledged(w)
         /\ proc[w].pc = "fill" /\ proc[w].store \in Stores
         /\ ProcessOn(proc[w].store, proc[w])
         /\ \/ files'[proc[w].store] = proc[w].next
            \/ files'[proc[w].store] = Torn /\ proc[w].store # "gaps"
         /\ \A s \in Stores \ {proc[w].store} : files'[s] = files[s]
         /\ \/ proc'[w] = Idle
            \/ /\ proc[w].then # None /\ proc[w].change.kind = "version"
               /\ proc'[w].pc = "load" /\ proc'[w].store = "personas"
               /\ proc[w].store = "personas"
               /\ proc'[w].change = SetActive(proc[w].then) /\ proc'[w].then = proc[w].then
<1> DEFINE p == proc[w]
<1>1. /\ p.pc = "fill" /\ p.store \in Stores /\ ProcessOn(p.store, p)
  BY BusyWorker DEF Fill, TypeOK
<1>2. \/ files'[p.store] = p.next
      \/ files'[p.store] = Torn /\ p.store # "gaps"
  BY <1>1 DEF Fill, TypeOK, FilesOK, Atomic
<1>3. \A s \in Stores \ {p.store} : files'[s] = files[s]
  BY <1>1 DEF Fill, TypeOK, FilesOK
<1>4. proc'[w] = AfterSave(p) /\ OthersStay(w)
  BY DEF Fill, OthersStay, TypeOK, ProcOK
<1>5. \/ proc'[w] = Idle
      \/ /\ p.then # None /\ p.change.kind = "version"
         /\ proc'[w].pc = "load" /\ proc'[w].store = "personas" /\ p.store = "personas"
         /\ proc'[w].change = SetActive(p.then) /\ proc'[w].then = p.then
  <2>1. CASE p.then # None /\ p.change.kind = "version"
    <3>1. p.store = "personas"
      BY <1>1, <2>1 DEF ProcessOn
    <3>2. p = [pc |-> p.pc, store |-> p.store, change |-> p.change, next |-> p.next, then |-> p.then]
      BY <1>1 DEF ProcessOn
    <3>3. proc'[w] = [p EXCEPT !.pc = "load", !.change = SetActive(p.then), !.next = None]
      BY <1>4, <2>1 DEF AfterSave
    <3>4. /\ proc'[w].pc = "load" /\ proc'[w].store = p.store
          /\ proc'[w].change = SetActive(p.then) /\ proc'[w].then = p.then
      BY <3>2, <3>3
    <3> QED
      BY <2>1, <3>1, <3>4
  <2>2. CASE ~(p.then # None /\ p.change.kind = "version")
    BY <1>4, <2>2 DEF AfterSave
  <2> QED
    BY <2>1, <2>2
<1>6. published' = Acknowledged(w)
  BY DEF Fill
<1> QED
  BY <1>1, <1>2, <1>3, <1>4, <1>5, <1>6

LEMMA SaveFailsFacts ==
  ASSUME TypeOK, NEW w \in Workers, SaveFails(w)
  PROVE  OthersStay(w) /\ proc'[w] = Idle /\ UNCHANGED <<files, published>>
  BY DEF SaveFails, Keep, OthersStay, TypeOK, ProcOK

-----------------------------------------------------------------------------
(* A torn file stays as it is *)

LEMMA LossStep ==
  ASSUME TypeOK, LossInv, [Next]_vars
  PROVE  LossInv'
<1>1. CASE UNCHANGED vars
  BY <1>1 DEF vars, LossInv, LossIsNotHidden
<1>2. ASSUME Watch,
             \A s \in lost : files'[s] = files[s],
             \A s \in lost, w \in Workers :
               proc'[w].store = s => proc'[w].pc \in {"idle", "load"}
      PROVE  LossInv'
  BY <1>2 DEF LossInv, LossIsNotHidden, Watch
<1>3. lost \subseteq Stores
  BY DEF TypeOK, RestOK
<1>4. ASSUME Watch, NEW w \in Workers, Step(w) PROVE LossInv'
  <2>1. CASE Arrives(w)
    <3>1. PICK s, c, then : s \in Stores /\ Begin(w, s, c, then)
      BY <2>1, ArrivalAsks
    <3>2. proc'[w].pc = "load" /\ files' = files /\ \A v \in Workers \ {w} : proc'[v] = proc[v]
      BY <3>1, BeginFacts DEF OthersStay
    <3> QED
      BY <1>2, <1>4, <3>2 DEF LossInv
  <2>2. CASE Load(w)
    <3>1. proc'[w] = Idle \/ proc'[w].store \notin lost
      BY <2>2, LoadFacts DEF LossInv, LossIsNotHidden
    <3> QED
      BY <1>2, <1>4, <2>2, <3>1, LoadFacts DEF OthersStay, LossInv, Idle
  <2>3. CASE Truncate(w)
    <3>1. proc[w].store \notin lost
      BY <2>3, TruncateFacts DEF LossInv
    <3>2. \A s \in lost : files'[s] = files[s]
      BY <1>3, <2>3, <3>1, TruncateFacts
    <3>3. proc'[w].store \notin lost /\ \A v \in Workers \ {w} : proc'[v] = proc[v]
      BY <2>3, <3>1, TruncateFacts DEF OthersStay
    <3> QED
      BY <1>2, <1>4, <3>2, <3>3 DEF LossInv
  <2>4. CASE Fill(w)
    <3>1. proc[w].store \notin lost
      BY <2>4, FillFacts DEF LossInv
    <3>2. proc'[w].pc \in {"idle", "load"}
      BY <2>4, FillFacts DEF Idle
    <3> QED
      BY <1>2, <1>3, <1>4, <2>4, <3>1, <3>2, FillFacts DEF OthersStay, LossInv
  <2>5. CASE SaveFails(w)
    BY <1>2, <1>4, <2>5, SaveFailsFacts DEF OthersStay, LossInv, Idle
  <2> QED
    BY <1>4, <2>1, <2>2, <2>3, <2>4, <2>5 DEF Step, Arrives
<1>5. CASE Crash /\ Watch
  BY <1>2, <1>5 DEF Crash, Idle
<1> QED
  BY <1>1, <1>4, <1>5 DEF Next

(* A store whose file was torn by a crash or a failed write is refused to every *)
(* request until someone repairs it.                                            *)
THEOREM LossStays == Spec => []LossIsNotHidden
<1>1. Init => LossInv
  BY DEF Init, LossInv, LossIsNotHidden
<1>2. TypeOK /\ LossInv /\ [Next]_vars => LossInv'
  BY LossStep
<1>3. LossInv => LossIsNotHidden
  BY DEF LossInv
<1> QED
  BY <1>1, <1>2, <1>3, TypeCorrect, PTL DEF Spec
-----------------------------------------------------------------------------
(* One worker at a time, until two overlap *)

LEMMA OverlapIsSeen == Watch => OneAtATime'
  BY DEF Watch, OneAtATime

LEMMA RacedStays == [Next]_vars => raced \subseteq raced'
  BY DEF Next, Watch, vars

LEMMA IdleHasNoStore == Idle.store \notin Stores /\ Idle.then = None
  BY NoneAssumption DEF Idle

-----------------------------------------------------------------------------
(* Gaps *)

(* A gap's record as a save changes it. *)
LEMMA GapChange ==
  ASSUME NEW f, NEW c \in ChangeOf("gaps")
  PROVE  Apply(f, c) = [f EXCEPT ![c.key] = c.value] /\ c.key \in 1..MaxGaps /\ c.value \in Gap
  BY DEF Apply, ChangeOf

LEMMA GapStep ==
  ASSUME TypeOK, OneAtATime, GapInv, [Next]_vars
  PROVE  GapInv'
<1>1. CASE UNCHANGED vars
  BY <1>1 DEF vars, GapInv, GapRequest, OpenGap
<1> SUFFICES ASSUME Next, "gaps" \notin raced', NEW v \in Workers, proc'[v].store = "gaps"
             PROVE  GapRequest(proc[v])'
  BY <1>1 DEF GapInv
<1>2. "gaps" \notin raced /\ "gaps" \in Stores
  BY RacedStays DEF Stores
<1>3. ASSUME proc'[v] = proc[v], files'.gaps = files.gaps
      PROVE  GapRequest(proc[v])'
  BY <1>2, <1>3 DEF GapInv, GapRequest, OpenGap
<1>4. ASSUME NEW w \in Workers, Arrives(w)
      PROVE  GapRequest(proc[v])'
  <2>1. PICK s, c, then : s \in Stores /\ Begin(w, s, c, then) /\ Asks(s, c, then)
    BY <1>4, ArrivalAsks
  <2>2. /\ files' = files /\ OthersStay(w)
        /\ proc'[w].pc = "load" /\ proc'[w].store = s /\ proc'[w].change = c
    BY <2>1, BeginFacts
  <2>3. CASE v = w
    BY <2>1, <2>2, <2>3 DEF Asks, GapRequest, OpenGap
  <2>4. CASE v # w
    BY <1>3, <2>2, <2>4 DEF OthersStay
  <2> QED
    BY <2>3, <2>4
<1>5. ASSUME NEW w \in Workers, Load(w)
      PROVE  GapRequest(proc[v])'
  <2>1. CASE v # w
    BY <1>3, <1>5, <2>1, LoadFacts DEF OthersStay
  <2>2. CASE v = w
    <3>1. /\ files' = files /\ proc[w].store = "gaps" /\ proc'[w].change = proc[w].change
          /\ proc'[w].next = Apply(files["gaps"], proc[w].change)
          /\ ProcessOn("gaps", proc[w])
      BY <1>2, <1>5, <2>2, LoadFacts, IdleHasNoStore
    <3>2. proc[w].change \in ChangeOf("gaps")
      BY <3>1 DEF ProcessOn
    <3>3. proc'[w].next = [files'.gaps EXCEPT ![proc[w].change.key] = proc[w].change.value]
      BY <3>1, <3>2, GapChange
    <3> QED
      BY <1>2, <2>2, <3>1, <3>3 DEF GapInv, GapRequest, OpenGap
  <2> QED
    BY <2>1, <2>2
<1>6. ASSUME NEW w \in Workers, Truncate(w)
      PROVE  GapRequest(proc[v])'
  <2>1. v # w /\ files'["gaps"] = files["gaps"]
    BY <1>2, <1>6, TruncateFacts
  <2> QED
    BY <1>3, <1>6, <2>1, TruncateFacts DEF OthersStay
<1>7. ASSUME NEW w \in Workers, Fill(w)
      PROVE  GapRequest(proc[v])'
  <2>1. v # w
    BY <1>2, <1>7, FillFacts, IdleHasNoStore
  <2>2. proc'[v] = proc[v]
    BY <1>7, <2>1, FillFacts DEF OthersStay
  <2>3. proc[w].store # "gaps"
    BY <1>2, <2>1, <2>2 DEF OneAtATime
  <2>4. files'["gaps"] = files["gaps"]
    BY <1>2, <1>7, <2>3, FillFacts
  <2> QED
    BY <1>3, <2>2, <2>4
<1>8. ASSUME NEW w \in Workers, SaveFails(w) PROVE v # w /\ proc'[v] = proc[v] /\ files' = files
  BY <1>2, <1>8, SaveFailsFacts, IdleHasNoStore DEF OthersStay
<1>9. ~Crash
  BY <1>2, IdleHasNoStore DEF Crash
<1> QED
  BY <1>3, <1>4, <1>5, <1>6, <1>7, <1>8, <1>9 DEF Next, Step, Arrives

(* What a step does to the file of the gaps. *)
LEMMA GapFileStep ==
  ASSUME TypeOK, GapInv, [Next]_vars, "gaps" \notin raced', files'["gaps"] # files["gaps"]
  PROVE  \E w \in Workers :
           LET c == proc[w].change IN
           /\ c.key \in 1..MaxGaps
           /\ files.gaps[c.key] = None => ~OpenGap(c.value.key)
           /\ files'["gaps"] = [files["gaps"] EXCEPT ![c.key] = c.value]
<1>1. "gaps" \notin raced /\ "gaps" \in Stores
  BY RacedStays DEF Stores
<1>2. ~Crash /\ ~UNCHANGED vars
  BY DEF Crash, vars
<1>3. ASSUME NEW w \in Workers, Arrives(w) \/ Load(w) \/ SaveFails(w) PROVE files' = files
  BY <1>3, ArrivalAsks, BeginFacts, LoadFacts, SaveFailsFacts
<1>4. ASSUME NEW w \in Workers, Truncate(w) PROVE files'["gaps"] = files["gaps"]
  BY <1>1, <1>4, TruncateFacts
<1>5. PICK w \in Workers : Fill(w)
  BY <1>2, <1>3, <1>4 DEF Next, Step, Arrives
<1>6. proc[w].store = "gaps"
  BY <1>1, <1>5, FillFacts
<1>7. ProcessOn("gaps", proc[w]) /\ proc[w].pc = "fill" /\ files'["gaps"] = proc[w].next
  BY <1>5, <1>6, FillFacts
<1>8. proc[w].change.key \in 1..MaxGaps
  BY <1>7, GapChange DEF ProcessOn
<1> QED
  BY <1>1, <1>6, <1>7, <1>8 DEF GapInv, GapRequest

(* KnowledgeGapService.Create never adds a second open gap of a key while       *)
(* requests do not overlap on the gap file.                                     *)
THEOREM NoSecondGap == Spec => NoSecondOpenGap
<1> DEFINE Adds == \A g \in 1..MaxGaps :
             "gaps" \notin raced' /\ files.gaps[g] = None /\ files'.gaps[g] # None
               => ~OpenGap(files'.gaps[g].key)
<1>1. TypeOK /\ GapInv /\ [Next]_vars => [Adds]_vars
  <2> SUFFICES ASSUME TypeOK, GapInv, [Next]_vars, NEW g \in 1..MaxGaps,
                      "gaps" \notin raced', files.gaps[g] = None, files'.gaps[g] # None
               PROVE  ~OpenGap(files'.gaps[g].key)
    OBVIOUS
  <2>1. PICK w \in Workers :
          /\ files.gaps[proc[w].change.key] = None => ~OpenGap(proc[w].change.value.key)
          /\ files'["gaps"] = [files["gaps"] EXCEPT ![proc[w].change.key] = proc[w].change.value]
    BY GapFileStep
  <2>2. files["gaps"] \in [1..MaxGaps -> Gap \cup {None}]
    BY DEF TypeOK, RestOK, FileOf
  <2>3. g = proc[w].change.key /\ files'.gaps[g] = proc[w].change.value
    BY <2>1, <2>2
  <2> QED
    BY <2>1, <2>3
<1>2. Init => OneAtATime /\ GapInv
  BY IdleHasNoStore DEF Init, OneAtATime, GapInv, Stores
<1>3. TypeOK /\ OneAtATime /\ GapInv /\ [Next]_vars => (OneAtATime /\ GapInv)'
  <2>1. OneAtATime /\ UNCHANGED vars => OneAtATime'
    BY DEF OneAtATime, vars
  <2> QED
    BY <2>1, GapStep, OverlapIsSeen DEF Next
<1> QED
  BY <1>1, <1>2, <1>3, TypeCorrect, PTL DEF Spec, NoSecondOpenGap

-----------------------------------------------------------------------------
(* Persona versions *)

(* The state in which the persona file and what was acknowledged stay. *)
LEMMA RequestStays ==
  ASSUME PersonaInv, "personas" \notin raced, NEW v \in Workers,
         proc[v].store = "personas", proc'[v] = proc[v],
         files'["personas"] = files["personas"], published' = published
  PROVE  PersonaRequest(proc[v])'
<1>1. PersonaRequest(proc[v])
  BY DEF PersonaInv
<1> QED
  BY <1>1 DEF PersonaRequest, Sound

LEMMA PersonaLoad ==
  ASSUME TypeOK, PersonaInv, "personas" \notin raced, NEW w \in Workers, Load(w),
         proc'[w].store = "personas"
  PROVE  PersonaRequest(proc[w])'
<1>1. /\ UNCHANGED <<files, published>> /\ proc[w].pc = "load" /\ proc[w].store = "personas"
      /\ ProcessOn("personas", proc[w])
      /\ files["personas"] # Torn /\ files["personas"] \in FileOf("personas")
      /\ proc'[w].change = proc[w].change /\ proc'[w].then = proc[w].then
      /\ proc'[w].next = Apply(files["personas"], proc[w].change)
      /\ proc'[w].pc = "truncate"
  BY LoadFacts, IdleHasNoStore DEF Stores, Atomic
<1>2. PersonaRequest(proc[w])
  BY <1>1 DEF PersonaInv
<1>3. proc[w].change \in ChangeOf("personas")
  BY <1>1 DEF ProcessOn
<1>4. Sound(Apply(files["personas"], proc[w].change), published)
  BY <1>1, <1>2 DEF PersonaRequest
<1>5. Sound(proc'[w].next, published')
  BY <1>1, <1>4
<1>6. proc'[w].change.kind = "active" => proc'[w].next.active = proc'[w].change.key
  <2>1. proc[w].change.kind = "active" =>
          Apply(files["personas"], proc[w].change).active = proc[w].change.key
    BY <1>1, <1>3, PersonaChange
  <2> QED
    BY <1>1, <2>1
<1>7. proc'[w].change.kind = "version" =>
        proc'[w].next.versions[proc'[w].change.key] = proc'[w].change.value
  <2>1. files["personas"].versions \in [Versions -> Version \cup {None}]
    BY <1>1 DEF FileOf
  <2>2. SUFFICES ASSUME proc[w].change.kind = "version"
                 PROVE  Apply(files["personas"], proc[w].change).versions[proc[w].change.key]
                          = proc[w].change.value
    BY <1>1
  <2>3. /\ proc[w].change.key \in Versions
        /\ Apply(files["personas"], proc[w].change).versions
             = [files["personas"].versions EXCEPT ![proc[w].change.key] = proc[w].change.value]
    BY <1>1, <1>3, <2>2, PersonaChange
  <2> QED
    BY <2>1, <2>3
<1>8. proc'[w].then # None /\ proc'[w].change.kind = "version" =>
        proc'[w].change.value.status = "published"
  BY <1>1, <1>2 DEF PersonaRequest
<1> QED
  BY <1>1, <1>5, <1>6, <1>7, <1>8 DEF PersonaRequest, Sound

(* The last save of a publication: the version it acknowledges is on file. *)
LEMMA AcknowledgedIsOnFile ==
  ASSUME TypeOK, NEW w \in Workers, PersonaRequest(proc[w]), proc[w].pc = "fill",
         ProcessOn("personas", proc[w])
  PROVE  Sound(proc[w].next, Acknowledged(w))
<1> DEFINE f == proc[w].next
           v == proc[w].then
<1>1. Sound(f, published) /\ f \in FileOf("personas")
  BY DEF PersonaRequest, ProcessOn
<1>2. CASE v # None /\ proc[w].change.kind = "active"
  <2>1. v \in Versions /\ f.active = v
    BY <1>2 DEF PersonaRequest, ProcessOn
  <2>2. f.versions[v] # None /\ f.versions[v].status = "published"
    BY <1>1, <1>2, <2>1 DEF Sound
  <2>3. f.versions[v] \in Version
    BY <1>1, <2>1, <2>2 DEF FileOf
  <2>4. f.versions[v] = [persona |-> f.versions[v].persona, status |-> "published"]
    BY <2>2, <2>3 DEF Version
  <2>5. Acknowledged(w) = [published EXCEPT ![v] = f.versions[v].persona]
    BY <1>2 DEF Acknowledged
  <2>6. ASSUME NEW u \in Versions, Acknowledged(w)[u] # None
        PROVE  f.versions[u] = [persona |-> Acknowledged(w)[u], status |-> "published"]
    <3>1. CASE u = v
      <4>1. Acknowledged(w)[u] = f.versions[v].persona
        BY <2>1, <2>5, <3>1 DEF TypeOK, RestOK
      <4> QED
        BY <2>4, <3>1, <4>1
    <3>2. CASE u # v
      <4>1. Acknowledged(w)[u] = published[u]
        BY <2>5, <2>6, <3>2 DEF TypeOK, RestOK
      <4> QED
        BY <1>1, <2>6, <4>1 DEF Sound
    <3> QED
      BY <3>1, <3>2
  <2> HIDE DEF f, v
  <2>7. Sound(f, Acknowledged(w))
    BY <1>1, <2>6 DEF Sound
  <2> QED
    BY <2>7 DEF f
<1>3. CASE ~(v # None /\ proc[w].change.kind = "active")
  BY <1>1, <1>3 DEF Acknowledged
<1> QED
  BY <1>2, <1>3

LEMMA PersonaFill ==
  ASSUME TypeOK, OneAtATime, PersonaInv, "personas" \notin raced, NEW w \in Workers, Fill(w),
         proc[w].store = "personas"
  PROVE  /\ files'["personas"] # Torn => Sound(files'["personas"], published')
         /\ \A v \in Workers : proc'[v].store = "personas" => PersonaRequest(proc[v])'
<1> DEFINE f == proc[w].next
<1>1. /\ proc[w].pc = "fill" /\ ProcessOn("personas", proc[w]) /\ PersonaRequest(proc[w])
      /\ published' = Acknowledged(w) /\ OthersStay(w)
      /\ files'["personas"] = f \/ files'["personas"] = Torn
  BY FillFacts DEF PersonaInv, Stores
<1>2. Sound(f, published')
  BY <1>1, AcknowledgedIsOnFile
<1>3. ASSUME NEW v \in Workers, proc'[v].store = "personas" PROVE PersonaRequest(proc[v])'
  <2>1. v = w
    BY <1>1, <1>3 DEF OneAtATime, OthersStay, Stores
  <2>2. /\ proc[w].then # None /\ proc[w].change.kind = "version"
        /\ proc'[w].pc = "load"
        /\ proc'[w].change = SetActive(proc[w].then) /\ proc'[w].then = proc[w].then
    BY <1>3, <2>1, FillFacts, IdleHasNoStore DEF Stores
  <2>3. published' = published
    BY <1>1, <2>2 DEF Acknowledged
  <2>4. /\ f \in FileOf("personas") /\ proc[w].then \in Versions
        /\ proc[w].change.key = proc[w].then /\ proc[w].change \in ChangeOf("personas")
    BY <1>1, <2>2 DEF ProcessOn
  <2>5. /\ f.versions[proc[w].then] = proc[w].change.value
        /\ proc[w].change.value.status = "published"
    BY <1>1, <2>2, <2>4 DEF PersonaRequest
  <2>6. f.versions[proc[w].then] # None
    BY <2>2, <2>4, <2>5, PersonaChange, NoneAssumption
  <2>7. Sound(f, published)
    BY <1>2, <2>3
  <2> HIDE DEF f
  <2>8. Sound(Apply(f, SetActive(proc[w].then)), published)
    BY <2>4, <2>5, <2>6, <2>7, ActivateKeepsSound
  <2>9. proc'[w].change.kind = "active"
    BY <2>2 DEF SetActive
  <2>10. files'["personas"] # Torn => Sound(Apply(files'["personas"], proc'[w].change), published')
    BY <1>1, <2>2, <2>3, <2>8
  <2> QED
    BY <2>1, <2>2, <2>9, <2>10 DEF PersonaRequest, Sound
<1> QED
  BY <1>1, <1>2, <1>3

LEMMA PersonaStep ==
  ASSUME TypeOK, OneAtATime, PersonaInv, [Next]_vars
  PROVE  PersonaInv'
<1>1. CASE UNCHANGED vars
  <2>1. UNCHANGED <<files, proc, published, raced>>
    BY <1>1 DEF vars
  <2>2. ASSUME "personas" \notin raced, NEW w \in Workers, proc[w].store = "personas"
        PROVE  PersonaRequest(proc[w])'
    BY <2>1, <2>2, RequestStays
  <2>3. "personas" \notin raced /\ files["personas"] # Torn => Sound(files["personas"], published)'
    BY <2>1 DEF PersonaInv, Sound
  <2> QED
    BY <2>1, <2>2, <2>3 DEF PersonaInv
<1> DEFINE FileSound == files["personas"] # Torn => Sound(files["personas"], published)
           AllSound == \A v \in Workers : proc[v].store = "personas" => PersonaRequest(proc[v])
<1> SUFFICES ASSUME Next, "personas" \notin raced' PROVE FileSound' /\ AllSound'
  BY <1>1 DEF PersonaInv
<1>2. "personas" \notin raced /\ "personas" \in Stores /\ FileSound
  BY RacedStays DEF Stores, PersonaInv
<1>3. ASSUME files'["personas"] = files["personas"], published' = published
      PROVE  FileSound'
  BY <1>2, <1>3 DEF Sound
<1>4. ASSUME NEW w \in Workers, OthersStay(w),
             files'["personas"] = files["personas"], published' = published,
             proc'[w].store = "personas" => PersonaRequest(proc[w])'
      PROVE  AllSound'
  BY <1>2, <1>4, RequestStays DEF OthersStay
<1>5. ASSUME NEW w \in Workers, Arrives(w) PROVE FileSound' /\ AllSound'
  <2>1. PICK s, c, then : s \in Stores /\ Begin(w, s, c, then) /\ Asks(s, c, then)
    BY <1>5, ArrivalAsks
  <2>2. /\ UNCHANGED <<files, published>> /\ OthersStay(w)
        /\ proc'[w].pc = "load" /\ proc'[w].store = s /\ proc'[w].change = c /\ proc'[w].then = then
    BY <2>1, BeginFacts
  <2>3. s = "personas" => PersonaRequest(proc[w])'
    BY <1>2, <2>1, <2>2 DEF Asks, PersonaRequest, Sound
  <2> QED
    BY <1>3, <1>4, <2>2, <2>3
<1>6. ASSUME NEW w \in Workers, Load(w) PROVE FileSound' /\ AllSound'
  BY <1>2, <1>3, <1>4, <1>6, LoadFacts, PersonaLoad
<1>7. ASSUME NEW w \in Workers, Truncate(w) PROVE FileSound' /\ AllSound'
  <2>1. CASE proc[w].store = "personas"
    <3>1. files'["personas"] = Torn /\ published' = published /\ OthersStay(w)
      BY <1>7, <2>1, TruncateFacts
    <3>2. ASSUME NEW v \in Workers, proc'[v].store = "personas" PROVE v = w
      <4>1. v = w \/ proc[v].store = "personas"
        BY <3>1, <3>2 DEF OthersStay
      <4> QED
        BY <1>2, <2>1, <4>1 DEF OneAtATime
    <3>3. PersonaRequest(proc[w])
      BY <1>2, <2>1 DEF PersonaInv
    <3>4. PersonaRequest(proc[w])'
      <4>1. /\ proc[w].pc = "truncate" /\ proc'[w].pc = "fill"
            /\ proc'[w].change = proc[w].change /\ proc'[w].next = proc[w].next
            /\ proc'[w].then = proc[w].then
        BY <1>7, TruncateFacts
      <4> QED
        BY <3>1, <3>3, <4>1 DEF PersonaRequest, Sound
    <3> QED
      BY <3>1, <3>2, <3>4
  <2>2. CASE proc[w].store # "personas"
    BY <1>2, <1>3, <1>4, <1>7, <2>2, TruncateFacts
  <2> QED
    BY <2>1, <2>2
<1>8. ASSUME NEW w \in Workers, Fill(w) PROVE FileSound' /\ AllSound'
  <2>1. CASE proc[w].store = "personas"
    <3>1. /\ files'["personas"] # Torn => Sound(files'["personas"], published')
          /\ \A v \in Workers : proc'[v].store = "personas" => PersonaRequest(proc[v])'
      BY <1>2, <1>8, <2>1, PersonaFill
    <3> QED
      BY <3>1 DEF Sound
  <2>2. CASE proc[w].store # "personas"
    <3>1. proc[w].then = None /\ proc'[w].store # "personas"
      BY <1>2, <1>8, <2>2, FillFacts, IdleHasNoStore DEF ProcessOn
    <3>2. published' = published
      BY <1>8, <3>1, FillFacts DEF Acknowledged
    <3> QED
      BY <1>2, <1>3, <1>4, <1>8, <2>2, <3>1, <3>2, FillFacts
  <2> QED
    BY <2>1, <2>2
<1>9. ASSUME NEW w \in Workers, SaveFails(w) PROVE FileSound' /\ AllSound'
  BY <1>2, <1>3, <1>4, <1>9, SaveFailsFacts, IdleHasNoStore
<1>10. CASE Crash
  <2>1. AllSound'
    BY <1>2, <1>10, IdleHasNoStore DEF Crash
  <2> QED
    BY <1>3, <1>10, <2>1 DEF Crash, Keep
<1> QED
  BY <1>5, <1>6, <1>7, <1>8, <1>9, <1>10 DEF Next, Step, Arrives

(* Every version whose publication was reported stays as it was published, and  *)
(* only a published version is active, while requests on the persona file do    *)
(* not overlap and the file is not torn.                                        *)
THEOREM PublicationStays == Spec => []PublishedStands
<1>1. Init => OneAtATime /\ PersonaInv
  <2> SUFFICES ASSUME Init PROVE OneAtATime /\ PersonaInv
    OBVIOUS
  <2>1. OneAtATime /\ \A w \in Workers : proc[w].store # "personas"
    BY IdleHasNoStore DEF Init, OneAtATime, Stores
  <2>2. Sound(files["personas"], published)
    <3>1. /\ files["personas"].active = None
          /\ \A v \in Versions : files["personas"].versions[v] = None /\ published[v] = None
      BY DEF Init, Empty
    <3>2. {v \in Versions : files["personas"].versions[v] # None} = 1..0 /\ 0 \in 0..MaxVersions
      BY <3>1, ConsoleAssumption
    <3> QED
      BY <3>1, <3>2 DEF Sound
  <2> QED
    BY <2>1, <2>2 DEF PersonaInv
<1>2. TypeOK /\ OneAtATime /\ PersonaInv /\ [Next]_vars => (OneAtATime /\ PersonaInv)'
  <2>1. OneAtATime /\ UNCHANGED vars => OneAtATime'
    BY DEF OneAtATime, vars
  <2> QED
    BY <2>1, PersonaStep, OverlapIsSeen DEF Next
<1>3. PersonaInv => PublishedStands
  BY DEF PersonaInv, PublishedStands, Sound, MayBeActive
<1> QED
  BY <1>1, <1>2, <1>3, TypeCorrect, PTL DEF Spec
=============================================================================
