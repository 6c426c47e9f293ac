----------------------- MODULE ReviewCheckpointsProofs -----------------------
(***************************************************************************)
(* Proofs about ReviewCheckpoints for any number of requests, retries,       *)
(* crashes and damaged records, and any limits.                              *)
(***************************************************************************)
EXTENDS ReviewCheckpoints, TLAPS

(* What a worker is about to append is made from the request it serves. *)
DraftIsRequested ==
    \A w \in Workers : pc[w] = "append" =>
        /\ draft[w] \in Checkpoint
        /\ draft[w].key = req[w].key
        /\ draft[w].fingerprint = req[w].fingerprint

(* What a worker is about to grant is on file and made from a request like
   the one it serves. *)
GrantedIsOnFile ==
    \A w \in Workers : pc[w] = "reply" /\ outcome[w].status = "ok" =>
        /\ OnFile(outcome[w].checkpoint)
        /\ outcome[w].checkpoint.key = req[w].key
        /\ outcome[w].checkpoint.fingerprint = req[w].fingerprint

(* Each answer is on file; that answers with one key are equal follows from
   OneCheckpointPerKey. *)
AnswersOnFile ==
    \A a \in answered :
        /\ a.checkpoint.key = a.key
        /\ a.checkpoint.fingerprint = a.fingerprint
        /\ OnFile(a.checkpoint)

IInv == TypeOK /\ OneCheckpointPerKey /\ DraftIsRequested /\ GrantedIsOnFile /\ AnswersOnFile

-----------------------------------------------------------------------------

(* Lookup in the store: a granted match is on file and agrees with the
   request; a refused one carries a reason. *)
LEMMA MatchLemma ==
    ASSUME TypeOK, NEW r \in Request, NEW i \in Existing(r.key)
    PROVE  /\ Match(r, i) \in Outcome
           /\ Match(r, i).status = "ok" =>
                 /\ OnFile(Match(r, i).checkpoint)
                 /\ Match(r, i).checkpoint.key = r.key
                 /\ Match(r, i).checkpoint.fingerprint = r.fingerprint
<1>1. i \in DOMAIN file /\ file[i].key = r.key
  BY DEF Existing, Readable
<1>2. file[i] \in Checkpoint
  BY <1>1 DEF TypeOK
<1>3. CASE file[i].fingerprint = r.fingerprint
  <2>1. Match(r, i) = [status |-> "ok", checkpoint |-> file[i]]
    BY <1>3 DEF Match, Granted
  <2> QED
    BY <1>1, <1>2, <1>3, <2>1 DEF Outcome, OnFile
<1>4. CASE file[i].fingerprint # r.fingerprint
  <2>1. Match(r, i) = [status |-> "conflict", checkpoint |-> None]
    BY <1>4 DEF Match, Refused
  <2> QED
    BY <2>1 DEF Outcome, Refusals
<1> QED
  BY <1>3, <1>4

(* A step that leaves the file alone, or appends to it, keeps what is on file. *)
LEMMA OnFileIsKept ==
    ASSUME TypeOK, NEW c, NEW d \in Checkpoint, OnFile(c),
           file' = file \/ file' = Append(file, d)
    PROVE  OnFile(c)'
<1>1. PICK i \in DOMAIN file : file[i] = c
  BY DEF OnFile
<1>2. i \in DOMAIN file' /\ file'[i] = c
  BY <1>1 DEF TypeOK
<1> QED
  BY <1>2 DEF OnFile

LEMMA InitEstablishesIInv == Init => IInv
<1> SUFFICES ASSUME Init PROVE IInv
  OBVIOUS
<1>1. TypeOK
  BY DEF Init, TypeOK, Locations, Reply
<1>2. OneCheckpointPerKey /\ DraftIsRequested /\ GrantedIsOnFile /\ AnswersOnFile
  BY DEF Init, OneCheckpointPerKey, DraftIsRequested, GrantedIsOnFile, AnswersOnFile
<1> QED
  BY <1>1, <1>2 DEF IInv

(* A worker gets a reply ready while the file and the answers stay. *)
LEMMA ReplyWithKeepsIInv ==
    ASSUME IInv, NEW w \in Workers, NEW o \in Outcome,
           pc[w] # "idle",
           ReplyWith(w, o),
           o.status = "ok" =>
              /\ OnFile(o.checkpoint)
              /\ o.checkpoint.key = req[w].key
              /\ o.checkpoint.fingerprint = req[w].fingerprint,
           UNCHANGED <<file, damaged, trends, req, answered>>
    PROVE  IInv'
<1> USE DEF IInv
<1>1. TypeOK'
  BY DEF TypeOK, ReplyWith, Locations
<1>2. OneCheckpointPerKey' /\ AnswersOnFile'
  BY DEF OneCheckpointPerKey, AnswersOnFile, OnFile
<1>3. DraftIsRequested'
  BY DEF DraftIsRequested, ReplyWith, TypeOK
<1>4. GrantedIsOnFile'
  BY DEF GrantedIsOnFile, ReplyWith, TypeOK, OnFile
<1> QED
  BY <1>1, <1>2, <1>3, <1>4

LEMMA RefusedIsOutcome ==
    ASSUME NEW reason \in Refusals
    PROVE  Refused(reason) \in Outcome /\ Refused(reason).status # "ok"
BY DEF Refused, Outcome, Refusals

LEMMA ArriveKeepsIInv ==
    ASSUME IInv, NEW w \in Workers, NEW r \in Requests, Arrive(w, r)
    PROVE  IInv'
<1> USE DEF IInv, Arrive
<1>1. TypeOK'
  BY RequestsAssumption DEF TypeOK, Locations
<1>2. OneCheckpointPerKey' /\ AnswersOnFile'
  BY DEF OneCheckpointPerKey, AnswersOnFile, OnFile
<1>3. DraftIsRequested'
  BY DEF DraftIsRequested, TypeOK
<1>4. GrantedIsOnFile'
  BY DEF GrantedIsOnFile, TypeOK, OnFile
<1> QED
  BY <1>1, <1>2, <1>3, <1>4

LEMMA FindKeepsIInv ==
    ASSUME IInv, NEW w \in Workers, Find(w)
    PROVE  IInv'
<1>1. pc[w] = "find" /\ req[w] \in Request
  BY DEF IInv, TypeOK, Find
<1>2. UNCHANGED <<file, damaged, trends, req, answered>>
  BY DEF Find
<1>3. CASE ReplyWith(w, Refused("unavailable"))
  <2>1. "unavailable" \in Refusals
    BY DEF Refusals
  <2> QED
    BY <1>1, <1>2, <1>3, <2>1, RefusedIsOutcome, ReplyWithKeepsIInv
<1>4. ASSUME NEW i \in Existing(req[w].key), ReplyWith(w, Match(req[w], i))
      PROVE  IInv'
  BY <1>1, <1>2, <1>4, MatchLemma, ReplyWithKeepsIInv DEF IInv
<1>5. CASE pc' = [pc EXCEPT ![w] = "project"] /\ UNCHANGED <<draft, outcome>>
  <2> USE <1>1, <1>2, <1>5 DEF IInv
  <2>1. TypeOK'
    BY DEF TypeOK, Locations
  <2>2. OneCheckpointPerKey' /\ AnswersOnFile'
    BY DEF OneCheckpointPerKey, AnswersOnFile, OnFile
  <2>3. DraftIsRequested' /\ GrantedIsOnFile'
    BY DEF DraftIsRequested, GrantedIsOnFile, TypeOK, OnFile
  <2> QED
    BY <2>1, <2>2, <2>3
<1> QED
  BY <1>3, <1>4, <1>5 DEF Find

LEMMA ProjectKeepsIInv ==
    ASSUME IInv, NEW w \in Workers, Project(w)
    PROVE  IInv'
<1>1. pc[w] = "project" /\ req[w] \in Request
  BY DEF IInv, TypeOK, Project
<1>2. UNCHANGED <<file, damaged, trends, req, answered>>
  BY DEF Project
<1>3. ASSUME NEW reason \in {"unavailable", "not_eligible"},
             ReplyWith(w, Refused(reason))
      PROVE  IInv'
  <2>1. reason \in Refusals
    BY DEF Refusals
  <2> QED
    BY <1>1, <1>2, <1>3, <2>1, RefusedIsOutcome, ReplyWithKeepsIInv
<1>4. ASSUME NEW size \in Sizes,
             pc' = [pc EXCEPT ![w] = "append"],
             draft' = [draft EXCEPT ![w] =
                          [key |-> req[w].key,
                           fingerprint |-> req[w].fingerprint,
                           snapshot |-> trends, size |-> size]],
             UNCHANGED outcome
      PROVE  IInv'
  <2> DEFINE d == [key |-> req[w].key, fingerprint |-> req[w].fingerprint,
                   snapshot |-> trends, size |-> size]
  <2>1. d \in Checkpoint /\ d.key = req[w].key /\ d.fingerprint = req[w].fingerprint
    BY <1>1 DEF IInv, TypeOK, Request, Checkpoint
  <2>2. draft' = [draft EXCEPT ![w] = d]
    BY <1>4
  <2> HIDE DEF d
  <2> USE <1>1, <1>2, <1>4, <2>1, <2>2 DEF IInv
  <2>3. TypeOK'
    BY DEF TypeOK, Locations
  <2>4. OneCheckpointPerKey' /\ AnswersOnFile'
    BY DEF OneCheckpointPerKey, AnswersOnFile, OnFile
  <2>5. DraftIsRequested'
    BY DEF DraftIsRequested, TypeOK
  <2>6. GrantedIsOnFile'
    BY DEF GrantedIsOnFile, TypeOK, OnFile
  <2> QED
    BY <2>3, <2>4, <2>5, <2>6
<1> QED
  BY <1>3, <1>4 DEF Project

(* The write of a new key: the file gets a record no other record shares
   its key with. *)
LEMMA NewRecordKeepsIInv ==
    ASSUME IInv, NEW w \in Workers,
           pc[w] = "append",
           Readable = DOMAIN file,
           Existing(req[w].key) = {},
           file' = Append(file, draft[w]),
           ReplyWith(w, Granted(draft[w])),
           UNCHANGED <<damaged, trends, req, answered>>
    PROVE  IInv'
<1>1. /\ draft[w] \in Checkpoint
      /\ draft[w].key = req[w].key
      /\ draft[w].fingerprint = req[w].fingerprint
  BY DEF IInv, DraftIsRequested
<1>2. \A i \in DOMAIN file : file[i].key # draft[w].key
  BY <1>1 DEF Existing
<1>3. /\ Granted(draft[w]) \in Outcome
      /\ Granted(draft[w]).checkpoint = draft[w]
  BY <1>1 DEF Granted, Outcome
<1>4. /\ Len(file) \in Nat /\ DOMAIN file = 1..Len(file)
      /\ DOMAIN file' = 1..(Len(file) + 1)
      /\ \A i \in 1..Len(file) : file'[i] = file[i]
      /\ file'[Len(file) + 1] = draft[w]
  BY <1>1 DEF IInv, TypeOK
<1>5. TypeOK'
  BY <1>1, <1>3 DEF IInv, TypeOK, ReplyWith, Locations
<1>6. OneCheckpointPerKey'
  BY <1>2, <1>4 DEF IInv, OneCheckpointPerKey
<1>7. AnswersOnFile'
  BY <1>1, OnFileIsKept DEF IInv, AnswersOnFile
<1>8. DraftIsRequested'
  BY DEF IInv, DraftIsRequested, ReplyWith, TypeOK
<1>9. GrantedIsOnFile'
  <2> SUFFICES ASSUME NEW v \in Workers, pc'[v] = "reply", outcome'[v].status = "ok"
               PROVE  /\ OnFile(outcome[v].checkpoint)'
                      /\ outcome'[v].checkpoint.key = req'[v].key
                      /\ outcome'[v].checkpoint.fingerprint = req'[v].fingerprint
    BY DEF GrantedIsOnFile
  <2>1. CASE v = w
    <3>1. outcome'[v].checkpoint = draft[w]
      BY <2>1, <1>3 DEF IInv, TypeOK, ReplyWith
    <3>2. \E i \in DOMAIN file' : file'[i] = outcome'[v].checkpoint
      BY <3>1, <1>4
    <3> QED
      BY <2>1, <3>1, <3>2, <1>1 DEF OnFile
  <2>2. CASE v # w
    <3>1. pc[v] = "reply" /\ outcome'[v] = outcome[v]
      BY <2>2 DEF IInv, TypeOK, ReplyWith
    <3>2. OnFile(outcome[v].checkpoint)
      BY <3>1 DEF IInv, GrantedIsOnFile
    <3>3. PICK i \in DOMAIN file : file[i] = outcome[v].checkpoint
      BY <3>2 DEF OnFile
    <3>4. i \in DOMAIN file' /\ file'[i] = outcome'[v].checkpoint
      BY <3>1, <3>3, <1>4
    <3> QED
      BY <3>1, <3>4 DEF IInv, GrantedIsOnFile, OnFile
  <2> QED
    BY <2>1, <2>2
<1> QED
  BY <1>5, <1>6, <1>7, <1>8, <1>9 DEF IInv

LEMMA AppendRecordKeepsIInv ==
    ASSUME IInv, NEW w \in Workers, AppendRecord(w)
    PROVE  IInv'
<1>1. pc[w] = "append" /\ req[w] \in Request
  BY DEF IInv, TypeOK, AppendRecord
<1>2. UNCHANGED <<damaged, trends, req, answered>>
  BY DEF AppendRecord
<1>3. ASSUME NEW reason \in {"unavailable", "capacity"},
             ReplyWith(w, Refused(reason)), UNCHANGED file
      PROVE  IInv'
  <2>1. reason \in Refusals
    BY DEF Refusals
  <2> QED
    BY <1>1, <1>2, <1>3, <2>1, RefusedIsOutcome, ReplyWithKeepsIInv
<1>4. ASSUME NEW i \in Existing(req[w].key), ReplyWith(w, Match(req[w], i)), UNCHANGED file
      PROVE  IInv'
  BY <1>1, <1>2, <1>4, MatchLemma, ReplyWithKeepsIInv DEF IInv
<1>5. ASSUME Readable = DOMAIN file, Existing(req[w].key) = {},
             file' = Append(file, draft[w]), ReplyWith(w, Granted(draft[w]))
      PROVE  IInv'
  BY <1>1, <1>2, <1>5, NewRecordKeepsIInv
<1> QED
  BY <1>3, <1>4, <1>5 DEF AppendRecord

LEMMA DeliverKeepsIInv ==
    ASSUME IInv, NEW w \in Workers, Deliver(w)
    PROVE  IInv'
<1> USE DEF IInv, Deliver
<1>1. req[w] \in Request /\ outcome[w] \in Outcome
  BY DEF TypeOK
<1>2. ASSUME outcome[w].status = "ok"
      PROVE  /\ outcome[w].checkpoint \in Checkpoint
             /\ OnFile(outcome[w].checkpoint)
             /\ outcome[w].checkpoint.key = req[w].key
             /\ outcome[w].checkpoint.fingerprint = req[w].fingerprint
  BY <1>2 DEF GrantedIsOnFile, OnFile, TypeOK
<1> DEFINE a == [key |-> req[w].key, fingerprint |-> req[w].fingerprint,
                 checkpoint |-> outcome[w].checkpoint]
<1>3. answered' = answered \/ (outcome[w].status = "ok" /\ answered' = answered \cup {a})
  OBVIOUS
<1>4. outcome[w].status = "ok" => a \in Reply
  BY <1>1, <1>2 DEF Reply, Request
<1>5. TypeOK'
  BY <1>3, <1>4 DEF TypeOK, Locations
<1>6. OneCheckpointPerKey'
  BY DEF OneCheckpointPerKey
<1>7. AnswersOnFile'
  BY <1>2, <1>3 DEF AnswersOnFile, OnFile
<1>8. DraftIsRequested' /\ GrantedIsOnFile'
  BY DEF DraftIsRequested, GrantedIsOnFile, TypeOK, OnFile
<1> QED
  BY <1>5, <1>6, <1>7, <1>8

(* Steps of the environment: none of them writes the file. *)
LEMMA EnvironmentKeepsIInv ==
    ASSUME IInv, TrendsMove \/ Damage \/ Crash
    PROVE  IInv'
<1> USE DEF IInv
<1>1. TypeOK'
  <2>1. CASE TrendsMove
    BY <2>1 DEF TypeOK, TrendsMove
  <2>2. CASE Damage
    <3>1. DOMAIN file \subseteq Nat
      BY DEF TypeOK
    <3> QED
      BY <2>2, <3>1 DEF TypeOK, Damage, Readable
  <2>3. CASE Crash
    BY <2>3 DEF TypeOK, Crash, Locations
  <2> QED
    BY <2>1, <2>2, <2>3
<1>2. OneCheckpointPerKey' /\ AnswersOnFile'
  BY DEF OneCheckpointPerKey, AnswersOnFile, OnFile, TrendsMove, Damage, Crash
<1>3. DraftIsRequested' /\ GrantedIsOnFile'
  BY DEF DraftIsRequested, GrantedIsOnFile, OnFile, TrendsMove, Damage, Crash
<1> QED
  BY <1>1, <1>2, <1>3

LEMMA StepKeepsIInv == IInv /\ [Next]_vars => IInv'
<1> SUFFICES ASSUME IInv, [Next]_vars PROVE IInv'
  OBVIOUS
<1>1. CASE Next
  BY <1>1, ArriveKeepsIInv, FindKeepsIInv, ProjectKeepsIInv, AppendRecordKeepsIInv,
     DeliverKeepsIInv, EnvironmentKeepsIInv DEF Next
<1>2. CASE UNCHANGED vars
  <2> USE <1>2 DEF IInv, vars
  <2>1. TypeOK'
    BY DEF TypeOK
  <2>2. OneCheckpointPerKey' /\ AnswersOnFile' /\ DraftIsRequested' /\ GrantedIsOnFile'
    BY DEF OneCheckpointPerKey, AnswersOnFile, DraftIsRequested, GrantedIsOnFile, OnFile
  <2> QED
    BY <2>1, <2>2
<1> QED
  BY <1>1, <1>2

LEMMA Inductive == Spec => []IInv
BY InitEstablishesIInv, StepKeepsIInv, PTL DEF Spec

-----------------------------------------------------------------------------

(* The ledger, the workers and the answers keep their types. *)
THEOREM TypeCorrect == Spec => []TypeOK
<1>1. IInv => TypeOK
  BY DEF IInv
<1> QED
  BY <1>1, Inductive, PTL

(* However many requests race with one key, the ledger gets one record of it
   (the second lookup under the mutex in AppendQualityReviewCheckpoint). *)
THEOREM KeysStayUnique == Spec => []OneCheckpointPerKey
<1>1. IInv => OneCheckpointPerKey
  BY DEF IInv
<1> QED
  BY <1>1, Inductive, PTL

(* All successful replies for a key, before and after crashes and however the
   trends moved between them, carry one and the same checkpoint, on file. *)
THEOREM RetriesGetOneAnswer == Spec => []RetriesAgree
<1>1. ASSUME IInv PROVE RetriesAgree
  <2> SUFFICES ASSUME NEW a \in answered, NEW b \in answered, a.key = b.key
               PROVE  a = b
    BY <1>1 DEF IInv, AnswersOnFile, RetriesAgree
  <2>1. PICK i \in DOMAIN file : file[i] = a.checkpoint
    BY <1>1 DEF IInv, AnswersOnFile, OnFile
  <2>2. PICK j \in DOMAIN file : file[j] = b.checkpoint
    BY <1>1 DEF IInv, AnswersOnFile, OnFile
  <2>3. file[i].key = file[j].key
    BY <1>1, <2>1, <2>2 DEF IInv, AnswersOnFile
  <2>4. i = j
    BY <1>1, <2>3 DEF IInv, OneCheckpointPerKey
  <2>5. a.checkpoint = b.checkpoint /\ a.fingerprint = b.fingerprint
    BY <1>1, <2>1, <2>2, <2>4 DEF IInv, AnswersOnFile
  <2> QED
    BY <1>1, <2>5 DEF IInv, TypeOK, Reply
<1> QED
  BY <1>1, Inductive, PTL

(* A request is refused for capacity only when its key is not on file: a full
   ledger keeps answering retries. *)
THEOREM FullLedgerAnswersRetries == Spec => CapacityOnlyForNew
<1>1. ASSUME IInv, [Next]_vars, NEW w \in Workers, RefusedForCapacity(w)
      PROVE  \A i \in DOMAIN file : file[i].key # req[w].key
  <2>1. pc[w] = "append" /\ pc'[w] = "reply" /\ outcome'[w] = Refused("capacity")
    BY <1>1 DEF RefusedForCapacity
  <2>2. outcome'[w].status = "capacity"
    BY <2>1 DEF Refused
  <2>3. AppendRecord(w)
    <3>1. CASE UNCHANGED vars
      BY <2>1, <3>1 DEF vars
    <3>2. ASSUME NEW v \in Workers,
                 (\E r \in Requests : Arrive(v, r)) \/ Find(v) \/ Project(v) \/ Deliver(v)
          PROVE  FALSE
      BY <1>1, <2>1, <3>2 DEF IInv, TypeOK, Arrive, Find, Project, Deliver, ReplyWith
    <3>3. ASSUME NEW v \in Workers, v # w, AppendRecord(v)
          PROVE  FALSE
      BY <1>1, <2>1, <3>3 DEF IInv, TypeOK, AppendRecord, ReplyWith
    <3>4. CASE TrendsMove \/ Damage \/ Crash
      BY <2>1, <3>4 DEF TrendsMove, Damage, Crash
    <3> QED
      BY <1>1, <3>1, <3>2, <3>3, <3>4 DEF Next
  <2>4. \A o : ReplyWith(w, o) => outcome'[w] = o
    BY <1>1 DEF ReplyWith, IInv, TypeOK
  <2>5. ~ ReplyWith(w, Refused("unavailable"))
    BY <2>2, <2>4 DEF Refused
  <2>6. ~ ReplyWith(w, Granted(draft[w]))
    BY <2>2, <2>4 DEF Granted
  <2>7. ASSUME NEW i \in Existing(req[w].key) PROVE ~ ReplyWith(w, Match(req[w], i))
    BY <2>2, <2>4 DEF Match, Granted, Refused
  <2>8. Readable = DOMAIN file /\ Existing(req[w].key) = {}
    BY <2>3, <2>5, <2>6, <2>7 DEF AppendRecord
  <2> QED
    BY <2>8 DEF Existing
<1>2. IInv /\ [Next]_vars =>
        [\A w \in Workers : RefusedForCapacity(w) =>
            \A i \in DOMAIN file : file[i].key # req[w].key]_vars
  BY <1>1
<1> QED
  BY <1>2, Inductive, PTL DEF Spec, CapacityOnlyForNew

(* The ledger implements one write-once register per key: no crash, failing
   save or damaged record lets a checkpoint be replaced, removed or written
   again. *)
THEOREM LedgerIsWriteOnce == Spec => ImplementsRegister
<1> DEFINE reg == [k \in Keys |-> RegisterOf(file, k)]
<1>1. Init => Register!Init
  BY DEF Init, Register!Init, RegisterOf
<1>2. ASSUME IInv, [Next]_vars
      PROVE  [Register!Next]_reg
  <2>1. CASE file' = file
    BY <2>1
  <2>2. ASSUME NEW w \in Workers, AppendRecord(w), file' # file
        PROVE  Register!Next
    <3>1. /\ pc[w] = "append"
          /\ Readable = DOMAIN file /\ Existing(req[w].key) = {}
          /\ file' = Append(file, draft[w])
      BY <2>2 DEF AppendRecord
    <3>2. draft[w] \in Checkpoint /\ draft[w].key = req[w].key
      BY <1>2, <3>1 DEF IInv, DraftIsRequested
    <3> DEFINE k == draft[w].key
    <3>3. k \in Keys
      BY <3>2 DEF Checkpoint
    <3>4. \A i \in DOMAIN file : file[i].key # k
      BY <3>1, <3>2 DEF Existing
    <3>5. /\ Len(file) \in Nat /\ DOMAIN file = 1..Len(file)
          /\ DOMAIN file' = 1..(Len(file) + 1)
          /\ \A i \in 1..Len(file) : file'[i] = file[i]
          /\ file'[Len(file) + 1] = draft[w]
      BY <1>2, <3>1, <3>2 DEF IInv, TypeOK
    <3>6. RegisterOf(file, k) = None
      BY <3>4 DEF RegisterOf
    <3>7. RegisterOf(file', k) = draft[w]
      <4>1. \A i \in DOMAIN file' : file'[i].key = k <=> i = Len(file) + 1
        BY <3>4, <3>5
      <4> QED
        BY <4>1, <3>5 DEF RegisterOf
    <3>8. ASSUME NEW m \in Keys, m # k
          PROVE  RegisterOf(file', m) = RegisterOf(file, m)
      <4>1. \A i : i \in DOMAIN file' /\ file'[i].key = m <=> i \in DOMAIN file /\ file[i].key = m
        BY <3>5, <3>8
      <4>2. CASE \E i \in DOMAIN file : file[i].key = m
        <5>1. (CHOOSE i \in DOMAIN file' : file'[i].key = m)
              = (CHOOSE i \in DOMAIN file : file[i].key = m)
          BY <4>1
        <5>2. (CHOOSE i \in DOMAIN file : file[i].key = m) \in DOMAIN file
          BY <4>2
        <5> QED
          BY <4>1, <4>2, <5>1, <5>2, <3>5 DEF RegisterOf
      <4>3. CASE ~ \E i \in DOMAIN file : file[i].key = m
        BY <4>1, <4>3 DEF RegisterOf
      <4> QED
        BY <4>2, <4>3
    <3>9. reg' = [reg EXCEPT ![k] = draft[w]]
      BY <3>3, <3>7, <3>8
    <3>10. reg[k] = None
      BY <3>3, <3>6
    <3>11. Register!Write(k, draft[w])
      BY <3>9, <3>10 DEF Register!Write
    <3> QED
      BY <3>2, <3>3, <3>11 DEF Register!Next
  <2>3. file' = file \/ \E w \in Workers : AppendRecord(w)
    BY <1>2 DEF Next, vars, Arrive, Find, Project, Deliver, TrendsMove, Damage, Crash
  <2> QED
    BY <2>1, <2>2, <2>3
<1> QED
  BY <1>1, <1>2, Inductive, PTL DEF Spec, ImplementsRegister, Register!Spec
=============================================================================
