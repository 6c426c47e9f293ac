-------------------------- MODULE ReviewCheckpoints --------------------------
(***************************************************************************)
(* Quality review checkpoints: QualityReviewCheckpointService.Create over     *)
(* FileQualityReviewCheckpointStore (internal/admin).                        *)
(*                                                                          *)
(* Create looks a request up by its idempotency key, projects the quality    *)
(* trends if it is new, and appends a record.  The store's mutex makes each   *)
(* of its calls one step; between the calls other requests run, the trends    *)
(* change, and the process may die.  A client that got no reply retries with  *)
(* the same key.  Keys stand for pairs of tenant and key (the hash covers     *)
(* both), fingerprints for the normalized content of a request.               *)
(***************************************************************************)
EXTENDS Naturals, Sequences

CONSTANTS
    Workers,         \* goroutines serving Create
    Keys,            \* idempotency keys, with their tenants
    Fingerprints,    \* request contents
    Snapshots,       \* what the quality trends may say
    Requests,        \* the requests clients send
    Sizes,           \* sizes of encoded records
    MaxRecords,      \* qualityReviewMaxRecords
    MaxFileBytes,    \* qualityReviewMaxFileBytes
    Faults,          \* what goes wrong: "io", "crash", "damage"
    None

Request == [key : Keys, fingerprint : Fingerprints]

Checkpoint == [key : Keys, fingerprint : Fingerprints, snapshot : Snapshots, size : Sizes]

(* A reply: the checkpoint, or the reason why there is none. *)
Refusals == {"conflict", "not_eligible", "unavailable", "capacity"}

Granted(c) == [status |-> "ok", checkpoint |-> c]

Refused(reason) == [status |-> reason, checkpoint |-> None]

Outcome == [status : {"ok"} \cup Refusals, checkpoint : Checkpoint \cup {None}]

ASSUME RequestsAssumption == Requests \subseteq Request

ASSUME SizesAssumption == Sizes \subseteq Nat

ASSUME LimitsAssumption == MaxRecords \in Nat /\ MaxFileBytes \in Nat

ASSUME NoneAssumption == None \notin Request \cup Checkpoint \cup Outcome

VARIABLES
    file,        \* the records on disk, in the order they were appended
    damaged,     \* positions of records that no longer decode or validate
    trends,      \* what the quality trends say now
    pc,          \* where each worker is
    req,         \* the request each worker serves
    draft,       \* the record each worker is about to append
    outcome,     \* what each worker is about to reply: a record or a refusal
    answered     \* history: the replies with a record that clients received

vars == <<file, damaged, trends, pc, req, draft, outcome, answered>>

Reply == [key : Keys, fingerprint : Fingerprints, checkpoint : Checkpoint]

Locations == {"idle", "find", "project", "append", "reply"}

TypeOK ==
    /\ file \in Seq(Checkpoint)
    /\ damaged \in SUBSET Nat
    /\ trends \in Snapshots
    /\ pc \in [Workers -> Locations]
    /\ req \in [Workers -> Request \cup {None}]
    /\ draft \in [Workers -> Checkpoint \cup {None}]
    /\ outcome \in [Workers -> Outcome \cup {None}]
    /\ answered \in SUBSET Reply
    /\ \A w \in Workers :
          /\ pc[w] # "idle" => req[w] \in Request
          /\ pc[w] = "append" => draft[w] \in Checkpoint
          /\ pc[w] = "reply" => outcome[w] \in Outcome

Init ==
    /\ file = <<>>
    /\ damaged = {}
    /\ trends \in Snapshots
    /\ pc = [w \in Workers |-> "idle"]
    /\ req = [w \in Workers |-> None]
    /\ draft = [w \in Workers |-> None]
    /\ outcome = [w \in Workers |-> None]
    /\ answered = {}

-----------------------------------------------------------------------------
(* The file store. *)

FileBytes ==
    LET upTo[i \in 0..Len(file)] == IF i = 0 THEN 0 ELSE upTo[i - 1] + file[i].size
    IN  upTo[Len(file)]

(* loadRecords fails: the file is too large, or the file system fails. *)
LoadMayFail == FileBytes > MaxFileBytes \/ "io" \in Faults

LoadMaySucceed == FileBytes <= MaxFileBytes

(* loadRecords leaves the records that do not decode out. *)
Readable == DOMAIN file \ damaged

(* The readable records with a key. *)
Existing(k) == {i \in Readable : file[i].key = k}

(* A request whose key is on file: the record if the contents agree. *)
MatchIgnoresContent(r, i) == Granted(file[i])   \* mutant: the fingerprint is not compared

Match(r, i) ==
    IF file[i].fingerprint = r.fingerprint THEN Granted(file[i]) ELSE Refused("conflict")

-----------------------------------------------------------------------------
(* Create *)

ReplyWith(w, o) ==
    /\ pc' = [pc EXCEPT ![w] = "reply"]
    /\ draft' = [draft EXCEPT ![w] = None]
    /\ outcome' = [outcome EXCEPT ![w] = o]

Arrive(w, r) ==
    /\ pc[w] = "idle"
    /\ pc' = [pc EXCEPT ![w] = "find"]
    /\ req' = [req EXCEPT ![w] = r]
    /\ UNCHANGED <<file, damaged, trends, draft, outcome, answered>>

(* FindQualityReviewCheckpointByIdempotency and what Create makes of it. *)
Find(w) ==
    /\ pc[w] = "find"
    /\ \/ /\ LoadMayFail
          /\ ReplyWith(w, Refused("unavailable"))
       \/ /\ LoadMaySucceed
          /\ \E i \in Existing(req[w].key) : ReplyWith(w, Match(req[w], i))
       \/ /\ LoadMaySucceed
          /\ Existing(req[w].key) = {}
          /\ pc' = [pc EXCEPT ![w] = "project"]
          /\ UNCHANGED <<draft, outcome>>
    /\ UNCHANGED <<file, damaged, trends, req, answered>>

(* Project the trends, validate the selected gaps, make the record. *)
Project(w) ==
    /\ pc[w] = "project"
    /\ \/ \E reason \in {"unavailable", "not_eligible"} : ReplyWith(w, Refused(reason))
       \/ /\ pc' = [pc EXCEPT ![w] = "append"]
          /\ \E size \in Sizes :
                draft' = [draft EXCEPT ![w] =
                             [key |-> req[w].key, fingerprint |-> req[w].fingerprint,
                              snapshot |-> trends, size |-> size]]
          /\ UNCHANGED outcome
    /\ UNCHANGED <<file, damaged, trends, req, answered>>

(* AppendQualityReviewCheckpoint.  The new file replaces the old one by a
   rename: a failing save leaves the old one. *)
AppendTrustsFind(w) ==   \* mutant: the key is not looked up again
    /\ pc[w] = "append" /\ LoadMaySucceed
    /\ file' = Append(file, draft[w])
    /\ ReplyWith(w, Granted(draft[w]))
    /\ UNCHANGED <<damaged, trends, req, answered>>

AppendChecksCapacityFirst(w) ==   \* mutant: a full file refuses retries as well
    /\ pc[w] = "append" /\ LoadMaySucceed /\ Readable = DOMAIN file
    /\ IF Len(file) >= MaxRecords
       THEN ReplyWith(w, Refused("capacity")) /\ UNCHANGED file
       ELSE \/ \E i \in Existing(req[w].key) :
                  ReplyWith(w, Match(req[w], i)) /\ UNCHANGED file
            \/ /\ Existing(req[w].key) = {}
               /\ file' = Append(file, draft[w])
               /\ ReplyWith(w, Granted(draft[w]))
    /\ UNCHANGED <<damaged, trends, req, answered>>

AppendSkipsDamaged(w) ==   \* mutant: records that do not decode are passed over
    /\ pc[w] = "append" /\ LoadMaySucceed
    /\ \/ \E i \in Existing(req[w].key) :
             ReplyWith(w, Match(req[w], i)) /\ UNCHANGED file
       \/ /\ Existing(req[w].key) = {}
          /\ file' = Append(file, draft[w])
          /\ ReplyWith(w, Granted(draft[w]))
    /\ UNCHANGED <<damaged, trends, req, answered>>

AppendErasesDamaged(w) ==   \* mutant: what did not decode is not written back
    /\ pc[w] = "append" /\ LoadMaySucceed
    /\ Existing(req[w].key) = {}
    /\ \E kept \in IF damaged = {} THEN {file}
                  ELSE {SubSeq(file, 1, i - 1) \o SubSeq(file, i + 1, Len(file)) : i \in damaged} :
          file' = Append(kept, draft[w])
    /\ ReplyWith(w, Granted(draft[w]))
    /\ damaged' = {}
    /\ UNCHANGED <<trends, req, answered>>

AppendRecord(w) ==
    /\ pc[w] = "append"
    /\ \/ /\ LoadMayFail \/ Readable # DOMAIN file
          /\ ReplyWith(w, Refused("unavailable"))
          /\ UNCHANGED file
       \/ /\ LoadMaySucceed /\ Readable = DOMAIN file
          /\ \E i \in Existing(req[w].key) : ReplyWith(w, Match(req[w], i))
          /\ UNCHANGED file
       \/ /\ LoadMaySucceed /\ Readable = DOMAIN file
          /\ Existing(req[w].key) = {}
          /\ Len(file) >= MaxRecords
          /\ ReplyWith(w, Refused("capacity"))
          /\ UNCHANGED file
       \/ /\ LoadMaySucceed /\ Readable = DOMAIN file
          /\ Existing(req[w].key) = {}
          /\ Len(file) < MaxRecords
          /\ file' = Append(file, draft[w])
          /\ ReplyWith(w, Granted(draft[w]))
    /\ UNCHANGED <<damaged, trends, req, answered>>

(* The reply reaches the client, or is lost with its connection. *)
Deliver(w) ==
    /\ pc[w] = "reply"
    /\ pc' = [pc EXCEPT ![w] = "idle"]
    /\ req' = [req EXCEPT ![w] = None]
    /\ outcome' = [outcome EXCEPT ![w] = None]
    /\ \/ /\ outcome[w].status = "ok"
          /\ answered' = answered \cup {[key |-> req[w].key,
                                         fingerprint |-> req[w].fingerprint,
                                         checkpoint |-> outcome[w].checkpoint]}
       \/ UNCHANGED answered
    /\ UNCHANGED <<file, damaged, trends, draft>>

-----------------------------------------------------------------------------
(* The other admin services change what the trends say. *)
TrendsMove ==
    /\ trends' \in Snapshots \ {trends}
    /\ UNCHANGED <<file, damaged, pc, req, draft, outcome, answered>>

(* A record on disk is edited by hand or by another version of the program. *)
Damage ==
    /\ "damage" \in Faults
    /\ \E i \in Readable : damaged' = damaged \cup {i}
    /\ UNCHANGED <<file, trends, pc, req, draft, outcome, answered>>

(* The process dies and restarts; a rename took place or it did not. *)
Crash ==
    /\ "crash" \in Faults
    /\ pc' = [w \in Workers |-> "idle"]
    /\ req' = [w \in Workers |-> None]
    /\ draft' = [w \in Workers |-> None]
    /\ outcome' = [w \in Workers |-> None]
    /\ UNCHANGED <<file, damaged, trends, answered>>

Next ==
    \/ \E w \in Workers :
          \/ \E r \in Requests : Arrive(w, r)
          \/ Find(w) \/ Project(w) \/ AppendRecord(w) \/ Deliver(w)
    \/ TrendsMove \/ Damage \/ Crash

Spec == Init /\ [][Next]_vars

-----------------------------------------------------------------------------
(* Properties. *)

(* Two requests with one key, both past Find, make one record, also when a
   record of the key can no longer be read (the second lookup and the refusal
   in AppendQualityReviewCheckpoint). *)
OneCheckpointPerKey ==
    \A i, j \in DOMAIN file : file[i].key = file[j].key => i = j

(* Retries agree: all successful replies for a key carry the same checkpoint,
   with the snapshot of the first, the request that got it had its content,
   and it is on file for ever after. *)
OnFile(c) == \E i \in DOMAIN file : file[i] = c

RetriesAgree ==
    \A a \in answered :
        /\ a.checkpoint.key = a.key
        /\ a.checkpoint.fingerprint = a.fingerprint
        /\ OnFile(a.checkpoint)
        /\ \A b \in answered : a.key = b.key => a = b

(* A full ledger still answers: a request is refused for capacity only if its
   key was not on file when Append read it (the order of Append's checks). *)
RefusedForCapacity(w) ==
    pc[w] = "append" /\ pc'[w] = "reply" /\ outcome'[w] = Refused("capacity")

CapacityOnlyForNew ==
    [][\A w \in Workers : RefusedForCapacity(w) =>
          \A i \in DOMAIN file : file[i].key # req[w].key]_vars

RegisterOf(f, k) ==
    IF \E i \in DOMAIN f : f[i].key = k
    THEN f[CHOOSE i \in DOMAIN f : f[i].key = k]
    ELSE None

Register == INSTANCE CheckpointRegister WITH
                Checkpoints <- Checkpoint, Empty <- None,
                register <- [k \in Keys |-> RegisterOf(file, k)]

(* The ledger is a write-once register per key: nothing is replaced, removed
   or written twice, across crashes, damage and failing saves. *)
ImplementsRegister == Register!Spec
=============================================================================
