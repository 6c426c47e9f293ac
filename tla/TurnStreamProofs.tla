-------------------------- MODULE TurnStreamProofs --------------------------
(***************************************************************************)
(* Proofs about TurnStream for every set of workers, turns, attempts and     *)
(* requests and every set of faults: what the coordinator's edits of a        *)
(* conversation do; the types and the gate; that the conversation survives    *)
(* concurrent requests (no lost update, no broken transcript, no announced    *)
(* answer that is not on disk) until a turn begins while a Fail runs without  *)
(* the gate; and that TurnStream implements TurnLedger.                       *)
(***************************************************************************)
EXTENDS TurnStream, TLAPS

-----------------------------------------------------------------------------
(* The coordinator's edits. *)

LEMMA NewConversationType == NewConversation \in Conversation
BY DEF NewConversation, Conversation, NoTurn, TurnRecord, TurnStatus, AttemptStatus

-----------------------------------------------------------------------------
(* The coordinator's edits produce conversations, and change one turn. *)

(* Begin's edit of a conversation is a conversation. *)
LEMMA BeginTurnType ==
    ASSUME NEW c \in Conversation, NEW r \in TurnRequest
    PROVE  BeginTurn(c, r) \in Conversation
<1> DEFINE rec == [status |-> "open", user |-> r.user, result |-> None,
                   attempts |-> [NoTurn.attempts EXCEPT ![r.attempt] = "generating"]]
<1>1. CASE HasTurn(c, r.turn)
  <2> DEFINE new == [c.turns[r.turn] EXCEPT !.status = "open",
                                            !.attempts[r.attempt] = "generating"]
  <2>1. c.turns[r.turn] \in TurnRecord
    BY DEF Conversation, TurnRequest
  <2>2. new \in TurnRecord
    BY <2>1 DEF TurnRecord, TurnStatus, AttemptStatus
  <2>3. [c.turns EXCEPT ![r.turn] = new] \in [TurnIDs -> TurnRecord]
    BY <2>2 DEF Conversation
  <2>. QED
    BY <1>1, <2>3 DEF BeginTurn, Conversation
<1>2. CASE ~HasTurn(c, r.turn)
  <2>1. UserMessage(r) \in Message
    BY DEF UserMessage, Message, TurnRequest
  <2>2. rec \in TurnRecord
    BY DEF NoTurn, TurnRecord, TurnStatus, AttemptStatus, TurnRequest
  <2>3. Append(c.messages, UserMessage(r)) \in Seq(Message)
    BY <2>1 DEF Conversation
  <2>4. [c.turns EXCEPT ![r.turn] = rec] \in [TurnIDs -> TurnRecord]
    BY <2>2 DEF Conversation, TurnRequest
  <2>. QED
    BY <1>2, <2>3, <2>4 DEF BeginTurn, Conversation
<1>. QED
  BY <1>1, <1>2

(* Begin's edit leaves the other turns alone, opens its own, and makes the
   attempt generating. *)
LEMMA BeginTurnEffect ==
    ASSUME NEW c \in Conversation, NEW r \in TurnRequest
    PROVE  /\ \A t \in TurnIDs \ {r.turn} : BeginTurn(c, r).turns[t] = c.turns[t]
           /\ BeginTurn(c, r).turns[r.turn].status = "open"
           /\ BeginTurn(c, r).turns[r.turn].attempts[r.attempt] = "generating"
           /\ BeginTurn(c, r).turns[r.turn].result
                 = IF HasTurn(c, r.turn) THEN c.turns[r.turn].result ELSE None
           /\ BeginTurn(c, r).messages
                 = IF HasTurn(c, r.turn) THEN c.messages
                   ELSE Append(c.messages, UserMessage(r))
<1>1. CASE HasTurn(c, r.turn)
  BY <1>1 DEF BeginTurn, Conversation, TurnRequest, TurnRecord
<1>2. CASE ~HasTurn(c, r.turn)
  BY <1>2 DEF BeginTurn, Conversation, TurnRequest, TurnRecord, NoTurn
<1>. QED
  BY <1>1, <1>2

(* Complete's edit is a conversation in which one turn is completed with the
   result of the attempt and one message is appended. *)
LEMMA CompleteTurnType ==
    ASSUME NEW c \in Conversation, NEW t \in TurnIDs, NEW a \in AttemptIDs
    PROVE  CompleteTurn(c, t, a) \in Conversation
<1> DEFINE rec == [c.turns[t] EXCEPT !.status = "completed",
                                     !.result = AssistantID(t, a),
                                     !.attempts[a] = "completed"]
<1>1. AssistantID(t, a) \in Results
  BY DEF AssistantID, Results
<1>2. AssistantMessage(t, a) \in Message
  BY <1>1 DEF AssistantMessage, Message
<1>3. c.turns[t] \in TurnRecord
  BY DEF Conversation
<1>4. rec \in TurnRecord
  BY <1>1, <1>3 DEF TurnRecord, TurnStatus, AttemptStatus
<1>5. Append(c.messages, AssistantMessage(t, a)) \in Seq(Message)
  BY <1>2 DEF Conversation
<1>6. [c.turns EXCEPT ![t] = rec] \in [TurnIDs -> TurnRecord]
  BY <1>4 DEF Conversation
<1>. QED
  BY <1>5, <1>6 DEF CompleteTurn, Conversation

LEMMA CompleteTurnEffect ==
    ASSUME NEW c \in Conversation, NEW t \in TurnIDs, NEW a \in AttemptIDs
    PROVE  /\ \A u \in TurnIDs \ {t} : CompleteTurn(c, t, a).turns[u] = c.turns[u]
           /\ CompleteTurn(c, t, a).turns[t].status = "completed"
           /\ CompleteTurn(c, t, a).turns[t].result = AssistantID(t, a)
           /\ CompleteTurn(c, t, a).messages = Append(c.messages, AssistantMessage(t, a))
<1>1. c.turns[t] \in TurnRecord /\ DOMAIN c.turns = TurnIDs
  BY DEF Conversation
<1>. QED
  BY <1>1 DEF CompleteTurn, TurnRecord

(* Fail's and Cancel's edit is a conversation in which one turn and attempt
   have the final status and nothing else changed. *)
LEMMA FinishTurnType ==
    ASSUME NEW c \in Conversation, NEW t \in TurnIDs, NEW a \in AttemptIDs,
           NEW s \in {"failed", "canceled"}
    PROVE  FinishTurn(c, t, a, s) \in Conversation
<1> DEFINE new == [c.turns[t] EXCEPT !.status = s, !.attempts[a] = s]
<1>1. c.turns[t] \in TurnRecord
  BY DEF Conversation
<1>2. new \in TurnRecord
  BY <1>1 DEF TurnRecord, TurnStatus, AttemptStatus
<1>3. [c.turns EXCEPT ![t] = new] \in [TurnIDs -> TurnRecord]
  BY <1>2 DEF Conversation
<1>. QED
  BY <1>3 DEF FinishTurn, Conversation

LEMMA FinishTurnEffect ==
    ASSUME NEW c \in Conversation, NEW t \in TurnIDs, NEW a \in AttemptIDs,
           NEW s \in {"failed", "canceled"}
    PROVE  /\ \A u \in TurnIDs \ {t} : FinishTurn(c, t, a, s).turns[u] = c.turns[u]
           /\ FinishTurn(c, t, a, s).turns[t].status = s
           /\ FinishTurn(c, t, a, s).turns[t].result = c.turns[t].result
           /\ FinishTurn(c, t, a, s).messages = c.messages
BY DEF FinishTurn, Conversation, TurnRecord

-----------------------------------------------------------------------------
(* The edits keep transcript and ledger in agreement. *)

(* What Append does, in the form the proofs below use. *)
LEMMA AppendFacts ==
    ASSUME NEW s \in Seq(Message), NEW m \in Message
    PROVE  /\ DOMAIN Append(s, m) = DOMAIN s \cup {Len(s) + 1}
           /\ Len(s) + 1 \notin DOMAIN s
           /\ \A i \in DOMAIN s : Append(s, m)[i] = s[i]
           /\ Append(s, m)[Len(s) + 1] = m
OBVIOUS

LEMMA MessageTurns ==
    ASSUME NEW c \in Conversation
    PROVE  \A i \in DOMAIN c.messages : c.messages[i].turn \in TurnIDs
<1>1. c.messages \in Seq(Message)
  BY DEF Conversation
<1>2. \A i \in DOMAIN c.messages : c.messages[i] \in Message
  BY <1>1
<1>. QED
  BY <1>2 DEF Message

(* Begin, when it neither refuses nor replays. *)
LEMMA BeginTurnTranscript ==
    ASSUME NEW c \in Conversation, NEW r \in TurnRequest, Transcript(c),
           c.turns[r.turn].status # "completed"
    PROVE  Transcript(BeginTurn(c, r))
<1> DEFINE d == BeginTurn(c, r)
<1>1. /\ \A t \in TurnIDs \ {r.turn} : d.turns[t] = c.turns[t]
      /\ d.turns[r.turn].status = "open"
      /\ d.turns[r.turn].result
            = IF HasTurn(c, r.turn) THEN c.turns[r.turn].result ELSE None
      /\ d.messages = IF HasTurn(c, r.turn) THEN c.messages
                      ELSE Append(c.messages, UserMessage(r))
  BY BeginTurnEffect
<1>2. c.messages \in Seq(Message) /\ r.turn \in TurnIDs
  BY DEF Conversation, TurnRequest
<1>3. \A i \in DOMAIN c.messages : c.messages[i].turn \in TurnIDs
  BY MessageTurns
<1>4. d.turns[r.turn].result = None
  BY <1>1, <1>2 DEF Transcript, RecordsHaveMessages
<1>5. \A i \in DOMAIN c.messages :
         c.messages[i].turn = r.turn => c.messages[i].role # "assistant"
  BY DEF Transcript, MessagesRecorded
<1>6. CASE HasTurn(c, r.turn)
  <2>1. d.messages = c.messages
    BY <1>1, <1>6
  <2>2. OneMessagePerRole(d)
    BY <2>1 DEF Transcript, OneMessagePerRole
  <2>3. MessagesRecorded(d)
    <3>1. MessagesRecorded(c)
      BY DEF Transcript
    <3>. SUFFICES ASSUME NEW i \in DOMAIN c.messages
         PROVE  /\ HasTurn(d, c.messages[i].turn)
                /\ c.messages[i].role = "assistant" =>
                      /\ d.turns[c.messages[i].turn].status = "completed"
                      /\ d.turns[c.messages[i].turn].result = c.messages[i].id
      BY <2>1 DEF MessagesRecorded
    <3>2. CASE c.messages[i].turn = r.turn
      BY <3>2, <1>1, <1>5 DEF HasTurn
    <3>3. CASE c.messages[i].turn # r.turn
      BY <3>1, <3>3, <1>1, <1>3 DEF MessagesRecorded, HasTurn
    <3>. QED
      BY <3>2, <3>3
  <2>4. RecordsHaveMessages(d)
    <3>1. \A u, role : HasMessage(c, u, role) <=> HasMessage(d, u, role)
      BY <2>1 DEF HasMessage
    <3>. QED
      BY <3>1, <1>1, <1>4, <1>6 DEF Transcript, RecordsHaveMessages, HasTurn
  <2>. QED
    BY <2>2, <2>3, <2>4 DEF Transcript
<1>7. CASE ~HasTurn(c, r.turn)
  <2> DEFINE n == Len(c.messages) + 1
  <2>1. UserMessage(r) \in Message
    BY DEF UserMessage, Message, TurnRequest
  <2>2. /\ DOMAIN d.messages = DOMAIN c.messages \cup {n}
        /\ n \notin DOMAIN c.messages
        /\ \A i \in DOMAIN c.messages : d.messages[i] = c.messages[i]
        /\ d.messages[n] = UserMessage(r)
    BY <1>1, <1>2, <1>7, <2>1, AppendFacts
  <2>3. UserMessage(r).turn = r.turn /\ UserMessage(r).role = "user"
    BY DEF UserMessage
  <2>4. \A i \in DOMAIN c.messages : c.messages[i].turn # r.turn
    BY <1>7 DEF Transcript, MessagesRecorded
  <2> HIDE DEF n, d
  <2>5. OneMessagePerRole(d)
    BY <2>2, <2>3, <2>4 DEF Transcript, OneMessagePerRole
  <2>6. MessagesRecorded(d)
    <3>1. HasTurn(d, d.messages[n].turn) /\ d.messages[n].role = "user"
      BY <2>2, <2>3, <1>1 DEF HasTurn
    <3>2. ASSUME NEW i \in DOMAIN c.messages
          PROVE  d.messages[i] = c.messages[i] /\ d.turns[c.messages[i].turn] = c.turns[c.messages[i].turn]
      BY <2>2, <2>4, <1>1, <1>3
    <3>3. MessagesRecorded(c)
      BY DEF Transcript
    <3>. QED
      BY <2>2, <3>1, <3>2, <3>3 DEF MessagesRecorded, HasTurn
  <2>7. RecordsHaveMessages(d)
    <3>1. \A u, role : HasMessage(c, u, role) => HasMessage(d, u, role)
      BY <2>2 DEF HasMessage
    <3>2. HasMessage(d, r.turn, "user")
      BY <2>2, <2>3 DEF HasMessage
    <3>3. RecordsHaveMessages(c)
      BY DEF Transcript
    <3>4. ASSUME NEW u \in TurnIDs \ {r.turn} PROVE d.turns[u] = c.turns[u]
      BY <1>1
    <3>5. ASSUME NEW u \in TurnIDs
          PROVE  /\ HasTurn(d, u) => HasMessage(d, u, "user")
                 /\ d.turns[u].status = "completed" => HasMessage(d, u, "assistant")
                 /\ d.turns[u].result # None <=> d.turns[u].status = "completed"
      <4>1. CASE u = r.turn
        BY <3>2, <4>1, <1>1, <1>4
      <4>2. CASE u # r.turn
        BY <3>1, <3>3, <3>4, <4>2 DEF RecordsHaveMessages, HasTurn
      <4>. QED
        BY <4>1, <4>2
    <3>. QED
      BY <3>5 DEF RecordsHaveMessages
  <2>. QED
    BY <2>5, <2>6, <2>7 DEF Transcript, d
<1>. QED
  BY <1>6, <1>7

(* Complete, on an open turn. *)
LEMMA CompleteTurnTranscript ==
    ASSUME NEW c \in Conversation, NEW t \in TurnIDs, NEW a \in AttemptIDs, Transcript(c),
           c.turns[t].status = "open"
    PROVE  Transcript(CompleteTurn(c, t, a))
<1> DEFINE d == CompleteTurn(c, t, a)
           n == Len(c.messages) + 1
<1>1. /\ \A u \in TurnIDs \ {t} : d.turns[u] = c.turns[u]
      /\ d.turns[t].status = "completed"
      /\ d.turns[t].result = AssistantID(t, a)
      /\ d.messages = Append(c.messages, AssistantMessage(t, a))
  BY CompleteTurnEffect
<1>2. AssistantID(t, a) \in Results /\ AssistantID(t, a) # None
  BY NoneAssumption DEF AssistantID, Results
<1>3. AssistantMessage(t, a) \in Message
  BY <1>2 DEF AssistantMessage, Message
<1>4. c.messages \in Seq(Message)
  BY DEF Conversation
<1>5. \A i \in DOMAIN c.messages : c.messages[i].turn \in TurnIDs
  BY MessageTurns
<1>6. /\ DOMAIN d.messages = DOMAIN c.messages \cup {n}
      /\ n \notin DOMAIN c.messages
      /\ \A i \in DOMAIN c.messages : d.messages[i] = c.messages[i]
      /\ d.messages[n] = AssistantMessage(t, a)
  BY <1>1, <1>3, <1>4, AppendFacts
<1>7. /\ AssistantMessage(t, a).turn = t
      /\ AssistantMessage(t, a).role = "assistant"
      /\ AssistantMessage(t, a).id = AssistantID(t, a)
  BY DEF AssistantMessage
<1>8. \A i \in DOMAIN c.messages :
         c.messages[i].turn = t => c.messages[i].role # "assistant"
  BY DEF Transcript, MessagesRecorded
<1> HIDE DEF d, n
<1>9. OneMessagePerRole(d)
  BY <1>6, <1>7, <1>8 DEF Transcript, OneMessagePerRole
<1>10. MessagesRecorded(d)
  BY <1>1, <1>5, <1>6, <1>7, <1>8 DEF Transcript, MessagesRecorded, HasTurn
<1>11. RecordsHaveMessages(d)
  <2>1. \A u, role : HasMessage(c, u, role) => HasMessage(d, u, role)
    BY <1>6 DEF HasMessage
  <2>2. HasMessage(d, t, "assistant")
    BY <1>6, <1>7 DEF HasMessage
  <2>3. HasMessage(d, t, "user")
    BY <2>1 DEF Transcript, RecordsHaveMessages, HasTurn
  <2>. QED
    BY <2>1, <2>2, <2>3, <1>1, <1>2 DEF Transcript, RecordsHaveMessages, HasTurn
<1>. QED
  BY <1>9, <1>10, <1>11 DEF Transcript, d

(* Fail and Cancel, on an open turn. *)
LEMMA FinishTurnTranscript ==
    ASSUME NEW c \in Conversation, NEW t \in TurnIDs, NEW a \in AttemptIDs,
           NEW s \in {"failed", "canceled"}, Transcript(c), c.turns[t].status = "open"
    PROVE  Transcript(FinishTurn(c, t, a, s))
<1> DEFINE d == FinishTurn(c, t, a, s)
<1>1. /\ \A u \in TurnIDs \ {t} : d.turns[u] = c.turns[u]
      /\ d.turns[t].status = s
      /\ d.turns[t].result = c.turns[t].result
      /\ d.messages = c.messages
  BY FinishTurnEffect
<1>2. \A i \in DOMAIN c.messages : c.messages[i].turn \in TurnIDs
  BY MessageTurns
<1> HIDE DEF d
<1>3. OneMessagePerRole(d)
  BY <1>1 DEF Transcript, OneMessagePerRole
<1>4. MessagesRecorded(d)
  BY <1>1, <1>2 DEF Transcript, MessagesRecorded, HasTurn
<1>5. RecordsHaveMessages(d)
  <2>1. \A u, role : HasMessage(c, u, role) <=> HasMessage(d, u, role)
    BY <1>1 DEF HasMessage
  <2>. QED
    BY <2>1, <1>1 DEF Transcript, RecordsHaveMessages, HasTurn
<1>. QED
  BY <1>3, <1>4, <1>5 DEF Transcript, d

-----------------------------------------------------------------------------
(* Types. *)

LEMMA NoEvents == <<>> \in Seq(Events)
OBVIOUS

LEMMA ReleaseType ==
    ASSUME TypeOK, NEW w \in Workers, Release(w)
    PROVE  active' \in BOOLEAN /\ held' \in SUBSET Workers
BY DEF Release, TypeOK

(* A step that ends a request keeps the types when its own assignments do. *)
LEMMA ReturnErrorType ==
    ASSUME TypeOK, NEW w \in Workers, NEW before \in Seq(Events), ReturnError(w, before),
           store' \in Conversation, active' \in BOOLEAN, held' \in SUBSET Workers,
           req' = req, shown' \in [Workers -> Results \cup {None}], raced' = raced
    PROVE  TypeOK'
<1>1. out[w] \o (before \o <<"error", "done">>) \in Seq(Events)
  BY DEF TypeOK, Events
<1>2. out' \in [Workers -> Seq(Events)]
  BY <1>1 DEF ReturnError, Emit, TypeOK
<1>. QED
  BY <1>2, NewConversationType DEF ReturnError, Goto, Discard, TypeOK, Locations

LEMMA ReturnOKType ==
    ASSUME TypeOK, NEW w \in Workers, NEW before \in Seq(Events), ReturnOK(w, before),
           store' \in Conversation, active' \in BOOLEAN, held' \in SUBSET Workers,
           req' = req, shown' \in [Workers -> Results \cup {None}], raced' = raced
    PROVE  TypeOK'
<1>1. out[w] \o before \in Seq(Events)
  BY DEF TypeOK
<1>2. out' \in [Workers -> Seq(Events)]
  BY <1>1 DEF ReturnOK, Emit, TypeOK
<1>. QED
  BY <1>2, NewConversationType DEF ReturnOK, Goto, Discard, TypeOK, Locations

(* Every step keeps the variables in their types. *)
LEMMA TypeOKStep == TypeOK /\ [Next]_vars => TypeOK'
<1> SUFFICES ASSUME TypeOK, [Next]_vars
             PROVE  TypeOK'
  OBVIOUS
<1> USE RequestsAssumption
<1>1. ASSUME NEW w \in Workers, NEW r \in Requests, Arrive(w, r)
      PROVE  TypeOK'
  <2>1. <<"request_started">> \in Seq(Events) /\ <<"error", "done">> \in Seq(Events)
    BY DEF Events
  <2>2. /\ store' = store /\ active' = active /\ held' = held /\ conv' = conv
        /\ code' = code /\ canceled' = canceled /\ raced' = raced
        /\ req' = [req EXCEPT ![w] = r] /\ shown' = [shown EXCEPT ![w] = None]
        /\ pc' = [pc EXCEPT ![w] = "begin"] \/ pc' = pc
    BY <1>1 DEF Arrive, Goto
  <2>3. out' \in [Workers -> Seq(Events)]
    BY <1>1, <2>1 DEF Arrive, TypeOK
  <2>4. pc' \in [Workers -> Locations] /\ shown' \in [Workers -> Results \cup {None}]
    BY <2>2 DEF TypeOK, Locations
  <2>5. /\ req' \in [Workers -> TurnRequest \cup {None}]
        /\ \A v \in Workers : pc'[v] # "idle" => req'[v] \in TurnRequest
    BY <2>2 DEF TypeOK
  <2>. QED
    BY <2>2, <2>3, <2>4, <2>5 DEF TypeOK
<1>2. ASSUME NEW w \in Workers, ClientCancel(w)
      PROVE  TypeOK'
  BY <1>2 DEF ClientCancel, TypeOK
<1>3. ASSUME NEW w \in Workers, AgentPanic(w)
      PROVE  TypeOK'
  BY <1>3, NewConversationType DEF AgentPanic, Goto, Forget, Discard, TypeOK, Locations
<1>4. ASSUME NEW w \in Workers, Acquire(w)
      PROVE  TypeOK'
  <2>1. CASE ReturnError(w, <<>>) /\ UNCHANGED <<active, held, raced>>
    BY <1>4, <2>1, NoEvents, ReturnErrorType DEF Acquire, TypeOK
  <2>2. CASE Goto(w, "load") /\ UNCHANGED <<conv, code, canceled, out>> /\ active' = TRUE
             /\ held' = held \cup {w} /\ raced' = (raced \/ \E v \in Workers : FinishingUngated(v))
    BY <1>4, <2>2 DEF Acquire, TypeOK, Goto, Locations
  <2>. QED
    BY <1>4, <2>1, <2>2 DEF Acquire, Busy
<1>5. ASSUME NEW w \in Workers, BeginLoad(w)
      PROVE  TypeOK'
  <2>1. CASE BeginError(w)
    BY <1>5, <2>1, NoEvents, ReleaseType, ReturnErrorType DEF BeginLoad, BeginError, TypeOK
  <2>2. CASE Goto(w, "replay") /\ conv' = [conv EXCEPT ![w] = store]
             /\ UNCHANGED <<active, held, code, canceled, out>>
    BY <1>5, <2>2 DEF BeginLoad, TypeOK, Goto, Locations
  <2>3. CASE Goto(w, "save") /\ conv' = [conv EXCEPT ![w] = BeginTurn(store, req[w])]
             /\ UNCHANGED <<active, held, code, canceled, out>>
    BY <1>5, <2>3, BeginTurnType DEF BeginLoad, TypeOK, Goto, Locations
  <2>. QED
    BY <1>5, <2>1, <2>2, <2>3 DEF BeginLoad
<1>6. ASSUME NEW w \in Workers, BeginSave(w)
      PROVE  TypeOK'
  <2>1. CASE BeginError(w) /\ (UNCHANGED store \/ store' = conv[w])
    <3>1. store' \in Conversation /\ shown' = shown /\ req' = req /\ raced' = raced
      BY <1>6, <2>1 DEF BeginSave, TypeOK
    <3>2. active' \in BOOLEAN /\ held' \in SUBSET Workers
      BY <2>1, ReleaseType DEF BeginError
    <3>. QED
      BY <2>1, <3>1, <3>2, NoEvents, ReturnErrorType DEF BeginError, TypeOK
  <2>2. CASE store' = conv[w] /\ Goto(w, "route")
             /\ UNCHANGED <<active, held, conv, code, canceled, out>>
    BY <1>6, <2>2 DEF BeginSave, TypeOK, Goto, Locations
  <2>. QED
    BY <1>6, <2>1, <2>2 DEF BeginSave
<1>7. ASSUME NEW w \in Workers, Replay(w)
      PROVE  TypeOK'
  <2>1. <<>> \in Seq(Events) /\ <<"message_completed">> \in Seq(Events)
        /\ <<"message_completed", "done">> \in Seq(Events)
    BY DEF Events
  <2>2. conv[w].turns[req[w].turn].result \in Results \cup {None}
    BY <1>7 DEF Replay, TypeOK, Conversation, TurnRecord, TurnRequest
  <2>3. shown' \in [Workers -> Results \cup {None}]
    BY <1>7, <2>2 DEF Replay, TypeOK
  <2>4. held' \in SUBSET Workers
    BY <1>7 DEF Replay, Forget, TypeOK
  <2>. QED
    BY <1>7, <2>1, <2>3, <2>4, ReturnErrorType, ReturnOKType DEF Replay, Forget, TypeOK
<1>8. ASSUME NEW w \in Workers, Route(w)
      PROVE  TypeOK'
  <2>1. out[w] \o <<"route_selected">> \in Seq(Events)
        /\ out[w] \o <<"route_selected", "agent_selected">> \in Seq(Events)
    BY DEF TypeOK, Events
  <2>2. out' \in [Workers -> Seq(Events)]
    BY <1>8, <2>1 DEF Route, Emit, TypeOK
  <2>. QED
    BY <1>8, <2>2 DEF Route, GotoFinish, Goto, TypeOK, Locations, Codes
<1>9. ASSUME NEW w \in Workers, AgentReturn(w)
      PROVE  TypeOK'
  BY <1>9 DEF AgentReturn, GotoFinish, Goto, TypeOK, Locations, Codes
<1>10. ASSUME NEW w \in Workers, CompleteLoad(w)
       PROVE  TypeOK'
  <2>1. CASE CommitError(w) /\ UNCHANGED conv
    BY <1>10, <2>1 DEF CompleteLoad, CommitError, GotoFinish, Goto, Release, TypeOK, Locations, Codes
  <2>2. CASE Goto(w, "commitSave") /\ UNCHANGED <<active, held, code>>
             /\ conv' = [conv EXCEPT ![w] = CompleteTurn(store, req[w].turn, req[w].attempt)]
    <3>1. req[w] \in TurnRequest
      BY <1>10 DEF CompleteLoad, TypeOK
    <3>2. CompleteTurn(store, req[w].turn, req[w].attempt) \in Conversation
      BY <3>1, CompleteTurnType DEF TypeOK, TurnRequest
    <3>. QED
      BY <1>10, <2>2, <3>2 DEF CompleteLoad, Goto, TypeOK, Locations
  <2>. QED
    BY <1>10, <2>1, <2>2 DEF CompleteLoad
<1>11. ASSUME NEW w \in Workers, CompleteSave(w)
       PROVE  TypeOK'
  <2>1. CASE CommitError(w) /\ UNCHANGED store
    BY <1>11, <2>1 DEF CompleteSave, CommitError, GotoFinish, Goto, Release, TypeOK, Locations, Codes
  <2>2. CASE store' = conv[w] /\ Goto(w, "acked") /\ Release(w) /\ UNCHANGED code
    BY <1>11, <2>2 DEF CompleteSave, Goto, Release, TypeOK, Locations
  <2>. QED
    BY <1>11, <2>1, <2>2 DEF CompleteSave
<1>12. ASSUME NEW w \in Workers, Acked(w)
       PROVE  TypeOK'
  <2>1. <<>> \in Seq(Events) /\ <<"message_completed">> \in Seq(Events)
        /\ <<"message_completed", "done">> \in Seq(Events)
    BY DEF Events
  <2>2. AssistantID(req[w].turn, req[w].attempt) \in Results
    BY <1>12 DEF Acked, TypeOK, TurnRequest, AssistantID, Results
  <2>3. shown' \in [Workers -> Results \cup {None}]
    BY <1>12, <2>2 DEF Acked, TypeOK
  <2>. QED
    BY <1>12, <2>1, <2>3, ReturnErrorType, ReturnOKType DEF Acked, TypeOK
<1>13. ASSUME NEW w \in Workers, FinishLoad(w)
       PROVE  TypeOK'
  <2>1. CASE Goto(w, "tail") /\ Release(w) /\ UNCHANGED conv
    BY <1>13, <2>1 DEF FinishLoad, Goto, Release, TypeOK, Locations
  <2>2. CASE Goto(w, "finishSave") /\ UNCHANGED <<active, held>>
             /\ conv' = [conv EXCEPT ![w] = FinishTurn(store, req[w].turn, req[w].attempt,
                                                       FinalStatus(code[w]))]
    <3>1. req[w] \in TurnRequest
      BY <1>13 DEF FinishLoad, TypeOK
    <3>2. FinalStatus(code[w]) \in {"failed", "canceled"}
      BY DEF FinalStatus
    <3>3. FinishTurn(store, req[w].turn, req[w].attempt, FinalStatus(code[w])) \in Conversation
      BY <3>1, <3>2, FinishTurnType DEF TypeOK, TurnRequest
    <3>. QED
      BY <1>13, <2>2, <3>3 DEF FinishLoad, Goto, TypeOK, Locations
  <2>. QED
    BY <1>13, <2>1, <2>2 DEF FinishLoad
<1>14. ASSUME NEW w \in Workers, FinishSave(w)
       PROVE  TypeOK'
  BY <1>14 DEF FinishSave, Goto, Release, TypeOK, Locations
<1>15. ASSUME NEW w \in Workers, AfterFinish(w)
       PROVE  TypeOK'
  <2>1. <<>> \in Seq(Events) /\ <<"error", "done">> \in Seq(Events)
        /\ <<Outcome(code[w])>> \in Seq(Events) /\ <<Outcome(code[w]), "done">> \in Seq(Events)
    BY DEF Events, Outcome
  <2>. QED
    BY <1>15, <2>1, ReturnErrorType, ReturnOKType DEF AfterFinish, TypeOK
<1>16. CASE Crash
  BY <1>16, NewConversationType DEF Crash, TypeOK, Locations
<1>17. CASE UNCHANGED vars
  BY <1>17 DEF vars, TypeOK
<1>. QED
  BY <1>1, <1>2, <1>3, <1>4, <1>5, <1>6, <1>7, <1>8, <1>9, <1>10, <1>11, <1>12, <1>13,
     <1>14, <1>15, <1>16, <1>17 DEF Next, Step

(* The variables have their types in every state of every behaviour. *)
THEOREM TypeCorrect == Spec => []TypeOK
<1>1. Init => TypeOK
  <2>1. [w \in Workers |-> <<>>] \in [Workers -> Seq(Events)]
    BY NoEvents
  <2>. QED
    BY <2>1, NewConversationType DEF Init, TypeOK, Locations
<1>. QED
  BY <1>1, TypeOKStep, PTL DEF Spec

-----------------------------------------------------------------------------
(* The gate. *)

(* Where a worker's session holds the gate, and where it does not.  Only
   "finish" and "finishSave" are in neither set: a Fail after a failed
   Complete runs without the gate. *)
Gated == {"load", "save", "replay", "route", "agent", "commit", "commitSave"}

Ungated == {"idle", "begin", "tail", "acked"}

HeldWhereGated ==
    \A w \in Workers : /\ pc[w] \in Gated => w \in held
                       /\ pc[w] \in Ungated => w \notin held

GateInv == GateExclusive /\ HeldWhereGated

(* A release, of a session that holds the gate or of one that does not, keeps
   the gate exclusive. *)
LEMMA ReleaseExclusive ==
    ASSUME GateExclusive, NEW w \in Workers, Release(w)
    PROVE  GateExclusive' /\ held' = held \ {w}
BY DEF GateExclusive, Release

LEMMA ForgetExclusive ==
    ASSUME GateExclusive, NEW w \in Workers, Forget(w)
    PROVE  GateExclusive' /\ held' = held \ {w}
BY DEF GateExclusive, Forget

(* A step that moves one worker and changes at most its own hold on the gate
   keeps HeldWhereGated when it does for that worker. *)
LEMMA HeldMove ==
    ASSUME TypeOK, HeldWhereGated, NEW w \in Workers, NEW l \in Locations,
           pc' = [pc EXCEPT ![w] = l],
           \/ held' = held /\ (l \in Gated => w \in held) /\ (l \in Ungated => w \notin held)
           \/ held' = held \ {w} /\ l \notin Gated
           \/ held' = held \cup {w} /\ l \in Gated
    PROVE  HeldWhereGated'
BY DEF HeldWhereGated, TypeOK, Gated, Ungated

(* Every step keeps the gate exclusive and held exactly where it must be. *)
LEMMA GateStep == TypeOK /\ GateInv /\ [Next]_vars => GateInv'
<1> SUFFICES ASSUME TypeOK, GateExclusive, HeldWhereGated, [Next]_vars
             PROVE  GateExclusive' /\ HeldWhereGated'
  BY DEF GateInv
<1> USE DEF Locations, Gated, Ungated
<1>1. ASSUME NEW w \in Workers, NEW r \in Requests, Arrive(w, r)
      PROVE  GateExclusive' /\ HeldWhereGated'
  BY <1>1 DEF Arrive, Goto, TypeOK, GateExclusive, HeldWhereGated
<1>2. ASSUME NEW w \in Workers, ClientCancel(w)
      PROVE  GateExclusive' /\ HeldWhereGated'
  BY <1>2 DEF ClientCancel, GateExclusive, HeldWhereGated
<1>3. ASSUME NEW w \in Workers, AgentPanic(w)
      PROVE  GateExclusive' /\ HeldWhereGated'
  BY <1>3, ForgetExclusive, HeldMove DEF AgentPanic, Goto
<1>4. ASSUME NEW w \in Workers, Acquire(w)
      PROVE  GateExclusive' /\ HeldWhereGated'
  <2>1. CASE ReturnError(w, <<>>) /\ UNCHANGED <<active, held, raced>>
    <3>1. GateExclusive'
      BY <2>1 DEF GateExclusive
    <3>2. w \notin held
      BY <1>4 DEF Acquire, HeldWhereGated
    <3>. QED
      BY <2>1, <3>1, <3>2, HeldMove DEF ReturnError, Goto
  <2>2. CASE Goto(w, "load") /\ ~active /\ active' = TRUE /\ held' = held \cup {w}
    <3>1. held = {}
      BY <2>2 DEF GateExclusive
    <3>2. GateExclusive'
      BY <2>2, <3>1 DEF GateExclusive
    <3>. QED
      BY <2>2, <3>2, HeldMove DEF Goto
  <2>. QED
    BY <1>4, <2>1, <2>2 DEF Acquire, Busy
<1>5. ASSUME NEW w \in Workers, BeginLoad(w)
      PROVE  GateExclusive' /\ HeldWhereGated'
  <2>1. CASE BeginError(w)
    BY <2>1, ReleaseExclusive, HeldMove DEF BeginError, ReturnError, Goto
  <2>2. CASE (Goto(w, "replay") \/ Goto(w, "save")) /\ UNCHANGED <<active, held>>
    <3>1. w \in held
      BY <1>5 DEF BeginLoad, HeldWhereGated
    <3>2. HeldWhereGated'
      BY <2>2, <3>1, HeldMove DEF Goto
    <3>. QED
      BY <2>2, <3>2 DEF GateExclusive
  <2>. QED
    BY <1>5, <2>1, <2>2 DEF BeginLoad
<1>6. ASSUME NEW w \in Workers, BeginSave(w)
      PROVE  GateExclusive' /\ HeldWhereGated'
  <2>1. CASE BeginError(w)
    BY <2>1, ReleaseExclusive, HeldMove DEF BeginError, ReturnError, Goto
  <2>2. CASE Goto(w, "route") /\ UNCHANGED <<active, held>>
    <3>1. w \in held
      BY <1>6 DEF BeginSave, HeldWhereGated
    <3>2. HeldWhereGated'
      BY <2>2, <3>1, HeldMove DEF Goto
    <3>. QED
      BY <2>2, <3>2 DEF GateExclusive
  <2>. QED
    BY <1>6, <2>1, <2>2 DEF BeginSave
<1>7. ASSUME NEW w \in Workers, Replay(w)
      PROVE  GateExclusive' /\ HeldWhereGated'
  BY <1>7, ForgetExclusive, HeldMove DEF Replay, ReturnOK, ReturnError, Goto
<1>8. ASSUME NEW w \in Workers, Route(w) \/ AgentReturn(w)
      PROVE  GateExclusive' /\ HeldWhereGated'
  <2>1. UNCHANGED <<active, held>> /\ w \in held
    BY <1>8 DEF Route, AgentReturn, HeldWhereGated
  <2>2. \E l \in {"finish", "agent", "commit"} : Goto(w, l)
    BY <1>8 DEF Route, AgentReturn, GotoFinish
  <2>3. HeldWhereGated'
    BY <2>1, <2>2, HeldMove DEF Goto
  <2>. QED
    BY <2>1, <2>3 DEF GateExclusive
<1>9. ASSUME NEW w \in Workers, CompleteLoad(w)
      PROVE  GateExclusive' /\ HeldWhereGated'
  <2>1. CASE CommitError(w)
    BY <2>1, ReleaseExclusive, HeldMove DEF CommitError, GotoFinish, Goto
  <2>2. CASE Goto(w, "commitSave") /\ UNCHANGED <<active, held, code>>
    <3>1. w \in held
      BY <1>9 DEF CompleteLoad, HeldWhereGated
    <3>2. HeldWhereGated'
      BY <2>2, <3>1, HeldMove DEF Goto
    <3>. QED
      BY <2>2, <3>2 DEF GateExclusive
  <2>. QED
    BY <1>9, <2>1, <2>2 DEF CompleteLoad
<1>10. ASSUME NEW w \in Workers, CompleteSave(w)
       PROVE  GateExclusive' /\ HeldWhereGated'
  BY <1>10, ReleaseExclusive, HeldMove DEF CompleteSave, CommitError, GotoFinish, Goto
<1>11. ASSUME NEW w \in Workers, Acked(w) \/ AfterFinish(w)
       PROVE  GateExclusive' /\ HeldWhereGated'
  <2>1. UNCHANGED <<active, held>> /\ w \notin held
    BY <1>11 DEF Acked, AfterFinish, HeldWhereGated
  <2>2. Goto(w, "idle")
    BY <1>11 DEF Acked, AfterFinish, ReturnOK, ReturnError
  <2>3. HeldWhereGated'
    BY <2>1, <2>2, HeldMove DEF Goto
  <2>. QED
    BY <2>1, <2>3 DEF GateExclusive
<1>12. ASSUME NEW w \in Workers, FinishLoad(w)
       PROVE  GateExclusive' /\ HeldWhereGated'
  <2>1. CASE Goto(w, "tail") /\ Release(w)
    BY <2>1, ReleaseExclusive, HeldMove DEF Goto
  <2>2. CASE Goto(w, "finishSave") /\ UNCHANGED <<active, held>>
    <3>1. HeldWhereGated'
      BY <2>2, HeldMove DEF Goto
    <3>. QED
      BY <2>2, <3>1 DEF GateExclusive
  <2>. QED
    BY <1>12, <2>1, <2>2 DEF FinishLoad
<1>13. ASSUME NEW w \in Workers, FinishSave(w)
       PROVE  GateExclusive' /\ HeldWhereGated'
  BY <1>13, ReleaseExclusive, HeldMove DEF FinishSave, Goto
<1>14. CASE Crash
  BY <1>14 DEF Crash, GateExclusive, HeldWhereGated
<1>15. CASE UNCHANGED vars
  BY <1>15 DEF vars, GateExclusive, HeldWhereGated
<1>. QED
  BY <1>1, <1>2, <1>3, <1>4, <1>5, <1>6, <1>7, <1>8, <1>9, <1>10, <1>11, <1>12, <1>13,
     <1>14, <1>15 DEF Next, Step

(* The gate admits one session at a time, for any number of workers and
   whatever fails (TryAcquire, Release). *)
THEOREM GateIsExclusive == Spec => []GateExclusive
<1>1. Init => GateInv
  BY DEF Init, GateInv, GateExclusive, HeldWhereGated, Gated
<1>2. Spec => []GateInv
  BY <1>1, GateStep, TypeCorrect, PTL DEF Spec
<1>3. GateInv => GateExclusive
  BY DEF GateInv
<1>. QED
  BY <1>2, <1>3, PTL

-----------------------------------------------------------------------------
(* The inductive invariant.  Mutual exclusion of the gate is not enough: the
   sections that a load and a save of the document bracket must exclude each
   other too, and "finish" may be entered without the gate. *)

InSession(w) == pc[w] \in Gated \cup {"finish", "finishSave"}

OneSession == \A v, w \in Workers : InSession(v) /\ InSession(w) => v = w

(* What a worker relies on at its next step. *)
Expects(w) ==
    LET turn == store.turns[req[w].turn]
    IN  /\ pc[w] = "save" => turn.status # "completed"
        /\ pc[w] = "replay" => turn.status = "completed"
        /\ pc[w] = "acked" =>
              /\ turn.status = "completed"
              /\ turn.result = AssistantID(req[w].turn, req[w].attempt)

WorkerInv(w) ==
    /\ UpToDate(w)
    /\ InTurn(w) => OwnsAttempt(w)
    /\ Durable(w)
    /\ shown[w] # None => req[w] \in TurnRequest
    /\ Expects(w)

Sound == OneSession /\ Transcript(store) /\ \A w \in Workers : WorkerInv(w)

SafetyInv == raced \/ Sound

(* From one document to the next, completed turns stay as they are. *)
Kept(c, d) ==
    \A t \in TurnIDs : c.turns[t].status = "completed" => d.turns[t] = c.turns[t]

(* Everything a worker invariant mentions, except the document on disk, is the
   same for every worker but w. *)
OnlyMoves(w) ==
    \A v \in Workers \ {w} :
        /\ pc'[v] = pc[v] /\ req'[v] = req[v] /\ conv'[v] = conv[v]
        /\ code'[v] = code[v] /\ shown'[v] = shown[v]

-----------------------------------------------------------------------------
(* The edits keep completed turns. *)

LEMMA BeginTurnKept ==
    ASSUME NEW c \in Conversation, NEW r \in TurnRequest,
           c.turns[r.turn].status # "completed"
    PROVE  Kept(c, BeginTurn(c, r))
BY BeginTurnEffect DEF Kept

LEMMA CompleteTurnKept ==
    ASSUME NEW c \in Conversation, NEW t \in TurnIDs, NEW a \in AttemptIDs,
           c.turns[t].status = "open"
    PROVE  Kept(c, CompleteTurn(c, t, a))
BY CompleteTurnEffect DEF Kept

LEMMA FinishTurnKept ==
    ASSUME NEW c \in Conversation, NEW t \in TurnIDs, NEW a \in AttemptIDs,
           NEW s \in {"failed", "canceled"}, c.turns[t].status = "open"
    PROVE  Kept(c, FinishTurn(c, t, a, s))
BY FinishTurnEffect DEF Kept

-----------------------------------------------------------------------------
(* What a step needs to show about the worker that takes it. *)

(* An announced answer stays durable under writes that keep completed turns. *)
LEMMA DurableStays ==
    ASSUME TypeOK, NEW v \in Workers, WorkerInv(v),
           req'[v] = req[v], shown'[v] = shown[v],
           store' = store \/ Kept(store, store')
    PROVE  Durable(v)' /\ (shown'[v] # None => req'[v] \in TurnRequest)
<1>1. CASE shown[v] = None
  BY <1>1 DEF Durable
<1>2. CASE shown[v] # None
  <2>1. req[v] \in TurnRequest /\ req[v].turn \in TurnIDs
    BY <1>2 DEF WorkerInv, TurnRequest
  <2>2. store'.turns[req[v].turn] = store.turns[req[v].turn]
    BY <1>2, <2>1 DEF WorkerInv, Durable, Kept
  <2>. QED
    BY <1>2, <2>1, <2>2 DEF WorkerInv, Durable
<1>. QED
  BY <1>1, <1>2

(* A worker that does not move is safe when the document stays, and when it is
   outside its session and completed turns are kept. *)
LEMMA OtherWorker ==
    ASSUME TypeOK, NEW v \in Workers, WorkerInv(v),
           pc'[v] = pc[v], req'[v] = req[v], conv'[v] = conv[v],
           code'[v] = code[v], shown'[v] = shown[v],
           \/ store' = store
           \/ ~InSession(v) /\ Kept(store, store')
    PROVE  WorkerInv(v)'
<1>1. Durable(v)' /\ (shown'[v] # None => req'[v] \in TurnRequest)
  BY DurableStays
<1>2. CASE store' = store
  BY <1>1, <1>2 DEF WorkerInv, UpToDate, InTurn, OwnsAttempt, Expects
<1>3. CASE ~InSession(v) /\ Kept(store, store')
  <2>1. pc[v] \in {"idle", "begin", "tail", "acked"}
    BY <1>3 DEF InSession, Gated, TypeOK, Locations
  <2>2. UpToDate(v)' /\ ~InTurn(v)'
    BY <2>1 DEF UpToDate, InTurn
  <2>3. Expects(v)'
    <3>1. CASE pc[v] = "acked"
      <4>1. req[v].turn \in TurnIDs
        BY <3>1 DEF TypeOK, TurnRequest
      <4>. QED
        BY <1>3, <3>1, <4>1 DEF WorkerInv, Expects, Kept
    <3>. QED
      BY <2>1, <3>1 DEF Expects
  <2>. QED
    BY <1>1, <2>2, <2>3 DEF WorkerInv
<1>. QED
  BY <1>2, <1>3

(* A worker that is neither in a session nor about to announce an answer needs
   only the durability of what it announced. *)
LEMMA QuietWorker ==
    ASSUME NEW w \in Workers, pc'[w] \in {"idle", "begin", "load", "tail"},
           Durable(w)', shown'[w] # None => req'[w] \in TurnRequest
    PROVE  WorkerInv(w)'
BY DEF WorkerInv, UpToDate, InTurn, Expects

(* A step of a session, or out of one, leaves one session at most. *)
LEMMA SessionMove ==
    ASSUME TypeOK, OneSession, NEW w \in Workers, NEW l \in Locations, Goto(w, l),
           InSession(w) \/ l \in Ungated
    PROVE  OneSession'
BY DEF OneSession, InSession, Goto, TypeOK, Gated, Ungated

(* The worker invariant of everyone from that of the worker that moved. *)
LEMMA SoundStep ==
    ASSUME TypeOK, Sound, NEW w \in Workers, OnlyMoves(w), WorkerInv(w)', OneSession',
           \/ store' = store
           \/ InSession(w) /\ Kept(store, store') /\ Transcript(store')
    PROVE  Sound'
<1>1. Transcript(store)'
  BY DEF Sound
<1>2. ASSUME NEW v \in Workers \ {w}
      PROVE  WorkerInv(v)'
  <2>1. store' = store \/ (~InSession(v) /\ Kept(store, store'))
    BY DEF Sound, OneSession
  <2>. QED
    BY <2>1, OtherWorker DEF Sound, OnlyMoves
<1>. QED
  BY <1>1, <1>2 DEF Sound

-----------------------------------------------------------------------------
(* The steps, one lemma per action that touches the document or what a worker
   knows of it. *)

(* A return leaves the other workers alone. *)
LEMMA ReturnMoves ==
    ASSUME TypeOK, NEW w \in Workers, NEW before, ReturnError(w, before) \/ ReturnOK(w, before),
           req' = req, \A v \in Workers \ {w} : shown'[v] = shown[v]
    PROVE  OnlyMoves(w) /\ Goto(w, "idle") /\ pc'[w] = "idle"
BY DEF OnlyMoves, ReturnError, ReturnOK, Goto, Discard, TypeOK

(* A return that writes nothing and announces nothing. *)
LEMMA QuietReturn ==
    ASSUME TypeOK, Sound, NEW w \in Workers, NEW before,
           ReturnError(w, before) \/ ReturnOK(w, before),
           UNCHANGED <<store, req, shown>>
    PROVE  Sound'
<1>1. OnlyMoves(w) /\ Goto(w, "idle") /\ pc'[w] = "idle"
  BY ReturnMoves
<1>2. OneSession'
  BY <1>1, SessionMove DEF Sound, Locations, Ungated
<1>3. WorkerInv(w)'
  <2>1. Durable(w)' /\ (shown'[w] # None => req'[w] \in TurnRequest)
    BY DurableStays DEF Sound
  <2>. QED
    BY <1>1, <2>1, QuietWorker
<1>. QED
  BY <1>1, <1>2, <1>3, SoundStep

(* A return that announces the completed answer of the worker's turn. *)
LEMMA AnnouncingReturn ==
    ASSUME TypeOK, Sound, NEW w \in Workers, NEW before, NEW result,
           ReturnError(w, before) \/ ReturnOK(w, before),
           UNCHANGED <<store, req>>, shown' = [shown EXCEPT ![w] = result],
           req[w] \in TurnRequest,
           store.turns[req[w].turn].status = "completed",
           store.turns[req[w].turn].result = result
    PROVE  Sound'
<1>1. OnlyMoves(w) /\ Goto(w, "idle") /\ pc'[w] = "idle"
  BY ReturnMoves DEF TypeOK
<1>2. OneSession'
  BY <1>1, SessionMove DEF Sound, Locations, Ungated
<1>3. WorkerInv(w)'
  <2>1. Durable(w)' /\ (shown'[w] # None => req'[w] \in TurnRequest)
    BY DEF Durable, TypeOK
  <2>. QED
    BY <1>1, <2>1, QuietWorker
<1>. QED
  BY <1>1, <1>2, <1>3, SoundStep

LEMMA ArriveSound ==
    ASSUME TypeOK, Sound, NEW w \in Workers, NEW r \in Requests, Arrive(w, r)
    PROVE  Sound'
<1>1. OnlyMoves(w) /\ pc'[w] \in {"idle", "begin"} /\ shown'[w] = None
  BY DEF OnlyMoves, Arrive, Goto, TypeOK
<1>2. WorkerInv(w)'
  BY <1>1, QuietWorker DEF Durable
<1>3. OneSession'
  BY <1>1 DEF Sound, OneSession, InSession, OnlyMoves, Gated
<1>. QED
  BY <1>1, <1>2, <1>3, SoundStep DEF Arrive

(* The gate is free and no Fail is running, so no session is. *)
LEMMA AcquireSound ==
    ASSUME TypeOK, GateInv, Sound, NEW w \in Workers, Acquire(w), ~raced'
    PROVE  Sound'
<1>1. CASE ReturnError(w, <<>>)
  BY <1>1, QuietReturn DEF Acquire
<1>2. CASE Goto(w, "load") /\ ~active
           /\ raced' = (raced \/ \E v \in Workers : FinishingUngated(v))
           /\ UNCHANGED <<conv, code>>
  <2>1. \A v \in Workers : ~InSession(v)
    BY <1>2 DEF InSession, GateInv, GateExclusive, HeldWhereGated, FinishingUngated
  <2>2. OnlyMoves(w) /\ pc'[w] = "load" /\ UNCHANGED <<store, req, shown>>
    BY <1>2 DEF Acquire, OnlyMoves, Goto, TypeOK
  <2>3. OneSession'
    BY <2>1, <2>2 DEF OneSession, InSession, OnlyMoves
  <2>4. Durable(w)' /\ (shown'[w] # None => req'[w] \in TurnRequest)
    BY <2>2, DurableStays DEF Sound
  <2>5. WorkerInv(w)'
    BY <2>2, <2>4, QuietWorker
  <2>. QED
    BY <2>2, <2>3, <2>5, SoundStep
<1>. QED
  BY <1>1, <1>2 DEF Acquire, Busy

LEMMA BeginLoadSound ==
    ASSUME TypeOK, Sound, NEW w \in Workers, BeginLoad(w)
    PROVE  Sound'
<1>1. CASE BeginError(w)
  BY <1>1, QuietReturn DEF BeginLoad, BeginError
<1> DEFINE t == req[w].turn
<1>2. req[w] \in TurnRequest /\ t \in TurnIDs /\ InSession(w)
  BY DEF BeginLoad, TypeOK, TurnRequest, InSession, Gated
<1>3. CASE /\ Replayable(store, req[w]) /\ Goto(w, "replay")
           /\ conv' = [conv EXCEPT ![w] = store] /\ UNCHANGED code
  <2>1. OnlyMoves(w) /\ pc'[w] = "replay" /\ conv'[w] = store /\ UNCHANGED <<store, req, shown>>
    BY <1>3 DEF BeginLoad, OnlyMoves, Goto, TypeOK
  <2>2. Durable(w)' /\ (shown'[w] # None => req'[w] \in TurnRequest)
    BY <2>1, DurableStays DEF Sound
  <2>3. WorkerInv(w)'
    BY <1>3, <2>1, <2>2 DEF WorkerInv, UpToDate, InTurn, Expects, Replayable
  <2>4. OneSession'
    BY <1>2, <1>3, SessionMove DEF Sound, Locations
  <2>. QED
    BY <2>1, <2>3, <2>4, SoundStep
<1>4. CASE /\ ~Conflicts(store, req[w]) /\ ~Replayable(store, req[w]) /\ Goto(w, "save")
           /\ conv' = [conv EXCEPT ![w] = BeginTurn(store, req[w])] /\ UNCHANGED code
  <2>1. OnlyMoves(w) /\ pc'[w] = "save" /\ conv'[w] = BeginTurn(store, req[w])
        /\ UNCHANGED <<store, req, shown>>
    BY <1>4 DEF BeginLoad, OnlyMoves, Goto, TypeOK
  <2>2. Durable(w)' /\ (shown'[w] # None => req'[w] \in TurnRequest)
    BY <2>1, DurableStays DEF Sound
  <2>3. store.turns[t].status # "completed"
    BY <1>2, <1>4 DEF Replayable, Sound, Transcript, RecordsHaveMessages
  <2>4. WorkerInv(w)'
    BY <2>1, <2>2, <2>3 DEF WorkerInv, UpToDate, InTurn, Expects
  <2>5. OneSession'
    BY <1>2, <1>4, SessionMove DEF Sound, Locations
  <2>. QED
    BY <2>1, <2>4, <2>5, SoundStep
<1>. QED
  BY <1>1, <1>3, <1>4 DEF BeginLoad

LEMMA BeginSaveSound ==
    ASSUME TypeOK, Sound, NEW w \in Workers, BeginSave(w)
    PROVE  Sound'
<1> DEFINE t == req[w].turn
<1>1. req[w] \in TurnRequest /\ t \in TurnIDs /\ req[w].attempt \in AttemptIDs /\ InSession(w)
  BY DEF BeginSave, TypeOK, TurnRequest, InSession, Gated
<1>2. conv[w] = BeginTurn(store, req[w]) /\ store.turns[t].status # "completed"
  BY DEF BeginSave, Sound, WorkerInv, UpToDate, Expects
<1>3. Kept(store, conv[w]) /\ Transcript(conv[w])
  BY <1>1, <1>2, BeginTurnKept, BeginTurnTranscript DEF TypeOK, Sound
<1>4. UNCHANGED <<req, shown>>
  BY DEF BeginSave
<1>5. CASE BeginError(w) /\ UNCHANGED store
  BY <1>4, <1>5, QuietReturn DEF BeginError
<1>6. ASSUME store' = conv[w]
      PROVE  Durable(w)' /\ (shown'[w] # None => req'[w] \in TurnRequest)
  BY <1>3, <1>4, <1>6, DurableStays DEF Sound
<1>7. CASE store' = conv[w] /\ BeginError(w)
  <2>1. OnlyMoves(w) /\ Goto(w, "idle") /\ pc'[w] = "idle"
    BY <1>4, <1>7, ReturnMoves DEF BeginError
  <2>2. OneSession'
    BY <2>1, SessionMove DEF Sound, Locations, Ungated
  <2>3. WorkerInv(w)'
    BY <1>6, <1>7, <2>1, QuietWorker
  <2>. QED
    BY <1>1, <1>3, <1>7, <2>1, <2>2, <2>3, SoundStep
<1>8. CASE store' = conv[w] /\ Goto(w, "route") /\ UNCHANGED <<conv, code>>
  <2>1. OnlyMoves(w) /\ pc'[w] = "route"
    BY <1>4, <1>8 DEF OnlyMoves, Goto, TypeOK
  <2>2. OneSession'
    BY <1>1, <1>8, SessionMove DEF Sound, Locations
  <2>3. OwnsAttempt(w)'
    BY <1>1, <1>2, <1>4, <1>8, BeginTurnEffect DEF OwnsAttempt, TypeOK
  <2>4. WorkerInv(w)'
    BY <1>4, <1>6, <1>8, <2>1, <2>3 DEF WorkerInv, UpToDate, Expects
  <2>. QED
    BY <1>1, <1>3, <1>8, <2>1, <2>2, <2>4, SoundStep
<1>. QED
  BY <1>5, <1>7, <1>8 DEF BeginSave

LEMMA ReplaySound ==
    ASSUME TypeOK, Sound, NEW w \in Workers, Replay(w)
    PROVE  Sound'
<1> DEFINE result == conv[w].turns[req[w].turn].result
<1>1. /\ req[w] \in TurnRequest
      /\ store.turns[req[w].turn].status = "completed"
      /\ store.turns[req[w].turn].result = result
      /\ UNCHANGED <<store, req>>
  BY DEF Replay, TypeOK, Sound, WorkerInv, UpToDate, Expects
<1>2. CASE ReturnOK(w, <<"message_completed", "done">>) /\ shown' = [shown EXCEPT ![w] = result]
  BY <1>1, <1>2, AnnouncingReturn
<1>3. CASE ReturnError(w, <<>>) /\ UNCHANGED shown
  BY <1>1, <1>3, QuietReturn
<1>4. CASE ReturnError(w, <<"message_completed">>) /\ shown' = [shown EXCEPT ![w] = result]
  BY <1>1, <1>4, AnnouncingReturn
<1>. QED
  BY <1>2, <1>3, <1>4 DEF Replay

(* A step inside a turn that touches neither the document nor the worker's
   copy of it. *)
LEMMA InTurnMove ==
    ASSUME TypeOK, Sound, NEW w \in Workers, InTurn(w),
           NEW l \in {"agent", "commit", "finish"}, Goto(w, l),
           \/ pc[w] \in {"route", "agent"}
           \/ l = "finish",
           UNCHANGED <<store, req, conv, shown>>,
           \A v \in Workers \ {w} : code'[v] = code[v]
    PROVE  Sound'
<1>1. OnlyMoves(w) /\ pc'[w] = l
  BY DEF OnlyMoves, Goto, TypeOK
<1>2. OneSession'
  BY SessionMove DEF Sound, Locations, InSession, InTurn, Gated
<1>3. Durable(w)' /\ (shown'[w] # None => req'[w] \in TurnRequest)
  BY DurableStays DEF Sound
<1>4. WorkerInv(w)'
  BY <1>1, <1>3 DEF Sound, WorkerInv, UpToDate, InTurn, OwnsAttempt, Expects
<1>. QED
  BY <1>1, <1>2, <1>4, SoundStep

LEMMA RouteSound ==
    ASSUME TypeOK, Sound, NEW w \in Workers, Route(w) \/ AgentReturn(w)
    PROVE  Sound'
<1>1. InTurn(w) /\ pc[w] \in {"route", "agent"} /\ UNCHANGED <<store, req, conv, shown>>
  BY DEF Route, AgentReturn, InTurn
<1>2. PICK l \in {"agent", "commit", "finish"} : Goto(w, l)
  BY DEF Route, AgentReturn, GotoFinish
<1>3. \A v \in Workers \ {w} : code'[v] = code[v]
  BY DEF Route, AgentReturn, GotoFinish, TypeOK
<1>. QED
  BY <1>1, <1>2, <1>3, InTurnMove

LEMMA CompleteLoadSound ==
    ASSUME TypeOK, Sound, NEW w \in Workers, CompleteLoad(w)
    PROVE  Sound'
<1>1. InTurn(w) /\ InSession(w) /\ UNCHANGED <<store, req, shown>>
  BY DEF CompleteLoad, InTurn, InSession, Gated
<1>2. CASE CommitError(w) /\ UNCHANGED conv
  BY <1>1, <1>2, InTurnMove DEF CommitError, GotoFinish, TypeOK
<1>3. CASE Goto(w, "commitSave") /\ UNCHANGED code
           /\ conv' = [conv EXCEPT ![w] = CompleteTurn(store, req[w].turn, req[w].attempt)]
  <2>1. OnlyMoves(w) /\ pc'[w] = "commitSave"
        /\ conv'[w] = CompleteTurn(store, req[w].turn, req[w].attempt)
    BY <1>1, <1>3 DEF OnlyMoves, Goto, TypeOK
  <2>2. OneSession'
    BY <1>1, <1>3, SessionMove DEF Sound, Locations
  <2>3. Durable(w)' /\ (shown'[w] # None => req'[w] \in TurnRequest)
    BY <1>1, DurableStays DEF Sound
  <2>4. WorkerInv(w)'
    BY <1>1, <2>1, <2>3 DEF Sound, WorkerInv, UpToDate, OwnsAttempt, Expects
  <2>. QED
    BY <1>1, <2>1, <2>2, <2>4, SoundStep
<1>. QED
  BY <1>2, <1>3 DEF CompleteLoad

LEMMA CompleteSaveSound ==
    ASSUME TypeOK, Sound, NEW w \in Workers, CompleteSave(w)
    PROVE  Sound'
<1> DEFINE t == req[w].turn
           a == req[w].attempt
<1>1. InTurn(w) /\ InSession(w) /\ UNCHANGED <<req, conv, shown>>
  BY DEF CompleteSave, InTurn, InSession, Gated
<1>2. t \in TurnIDs /\ a \in AttemptIDs
  BY DEF CompleteSave, TypeOK, TurnRequest
<1>3. conv[w] = CompleteTurn(store, t, a) /\ store.turns[t].status = "open"
  BY <1>1 DEF CompleteSave, Sound, WorkerInv, UpToDate, OwnsAttempt
<1>4. CASE CommitError(w) /\ UNCHANGED store
  BY <1>1, <1>4, InTurnMove DEF CommitError, GotoFinish, TypeOK
<1>5. CASE store' = conv[w] /\ Goto(w, "acked") /\ UNCHANGED code
  <2>1. OnlyMoves(w) /\ pc'[w] = "acked"
    BY <1>1, <1>5 DEF OnlyMoves, Goto, TypeOK
  <2>2. OneSession'
    BY <1>5, SessionMove DEF Sound, Locations, Ungated
  <2>3. Kept(store, store') /\ Transcript(store')
    BY <1>2, <1>3, <1>5, CompleteTurnKept, CompleteTurnTranscript DEF TypeOK, Sound
  <2>4. Durable(w)' /\ (shown'[w] # None => req'[w] \in TurnRequest)
    BY <1>1, <2>3, DurableStays DEF Sound
  <2>5. Expects(w)'
    BY <1>1, <1>2, <1>3, <1>5, <2>1, CompleteTurnEffect DEF Expects, TypeOK
  <2>6. WorkerInv(w)'
    BY <2>1, <2>4, <2>5 DEF WorkerInv, UpToDate, InTurn
  <2>. QED
    BY <1>1, <2>1, <2>2, <2>3, <2>6, SoundStep
<1>. QED
  BY <1>4, <1>5 DEF CompleteSave

LEMMA AckedSound ==
    ASSUME TypeOK, Sound, NEW w \in Workers, Acked(w)
    PROVE  Sound'
<1> DEFINE result == AssistantID(req[w].turn, req[w].attempt)
<1>1. /\ req[w] \in TurnRequest
      /\ store.turns[req[w].turn].status = "completed"
      /\ store.turns[req[w].turn].result = result
      /\ UNCHANGED <<store, req>>
  BY DEF Acked, TypeOK, Sound, WorkerInv, Expects
<1>2. CASE ReturnOK(w, <<"message_completed", "done">>) /\ shown' = [shown EXCEPT ![w] = result]
  BY <1>1, <1>2, AnnouncingReturn
<1>3. CASE ReturnError(w, <<>>) /\ UNCHANGED shown
  BY <1>1, <1>3, QuietReturn
<1>4. CASE ReturnError(w, <<"message_completed">>) /\ shown' = [shown EXCEPT ![w] = result]
  BY <1>1, <1>4, AnnouncingReturn
<1>. QED
  BY <1>2, <1>3, <1>4 DEF Acked

LEMMA FinishLoadSound ==
    ASSUME TypeOK, Sound, NEW w \in Workers, FinishLoad(w)
    PROVE  Sound'
<1>1. InTurn(w) /\ InSession(w) /\ UNCHANGED <<store, req, code, shown>>
  BY DEF FinishLoad, InTurn, InSession
<1>2. Durable(w)' /\ (shown'[w] # None => req'[w] \in TurnRequest)
  BY <1>1, DurableStays DEF Sound
<1>3. CASE Goto(w, "tail") /\ UNCHANGED conv
  <2>1. OnlyMoves(w) /\ pc'[w] = "tail"
    BY <1>1, <1>3 DEF OnlyMoves, Goto, TypeOK
  <2>2. OneSession'
    BY <1>3, SessionMove DEF Sound, Locations, Ungated
  <2>3. WorkerInv(w)'
    BY <1>2, <2>1, QuietWorker
  <2>. QED
    BY <1>1, <2>1, <2>2, <2>3, SoundStep
<1>4. CASE Goto(w, "finishSave")
           /\ conv' = [conv EXCEPT ![w] = FinishTurn(store, req[w].turn, req[w].attempt,
                                                     FinalStatus(code[w]))]
  <2>1. OnlyMoves(w) /\ pc'[w] = "finishSave"
        /\ conv'[w] = FinishTurn(store, req[w].turn, req[w].attempt, FinalStatus(code[w]))
    BY <1>1, <1>4 DEF OnlyMoves, Goto, TypeOK
  <2>2. OneSession'
    BY <1>1, <1>4, SessionMove DEF Sound, Locations
  <2>3. WorkerInv(w)'
    BY <1>1, <1>2, <2>1 DEF Sound, WorkerInv, UpToDate, OwnsAttempt, Expects
  <2>. QED
    BY <1>1, <2>1, <2>2, <2>3, SoundStep
<1>. QED
  BY <1>3, <1>4 DEF FinishLoad

LEMMA FinishSaveSound ==
    ASSUME TypeOK, Sound, NEW w \in Workers, FinishSave(w)
    PROVE  Sound'
<1> DEFINE t == req[w].turn
           a == req[w].attempt
           s == FinalStatus(code[w])
<1>1. InTurn(w) /\ InSession(w) /\ UNCHANGED <<req, code, conv, shown>> /\ Goto(w, "tail")
  BY DEF FinishSave, InTurn, InSession
<1>2. t \in TurnIDs /\ a \in AttemptIDs /\ s \in {"failed", "canceled"}
  BY DEF FinishSave, TypeOK, TurnRequest, FinalStatus
<1>3. conv[w] = FinishTurn(store, t, a, s) /\ store.turns[t].status = "open"
  BY <1>1 DEF FinishSave, Sound, WorkerInv, UpToDate, OwnsAttempt
<1>4. Kept(store, conv[w]) /\ Transcript(conv[w])
  BY <1>2, <1>3, FinishTurnKept, FinishTurnTranscript DEF TypeOK, Sound
<1>5. store' = store \/ store' = conv[w]
  BY DEF FinishSave
<1>6. OnlyMoves(w) /\ pc'[w] = "tail"
  BY <1>1 DEF OnlyMoves, Goto, TypeOK
<1>7. OneSession'
  BY <1>1, SessionMove DEF Sound, Locations, Ungated
<1>8. Durable(w)' /\ (shown'[w] # None => req'[w] \in TurnRequest)
  BY <1>1, <1>4, <1>5, DurableStays DEF Sound
<1>9. WorkerInv(w)'
  BY <1>6, <1>8, QuietWorker
<1>. QED
  BY <1>1, <1>4, <1>5, <1>6, <1>7, <1>9, SoundStep

(* What changes only the request's context, a panic, and a crash. *)
LEMMA FaultSound ==
    ASSUME TypeOK, Sound, NEW w \in Workers, ClientCancel(w) \/ AgentPanic(w)
    PROVE  Sound'
<1>1. CASE ClientCancel(w)
  <2>1. UNCHANGED <<store, pc, req, conv, code, shown>>
    BY <1>1 DEF ClientCancel
  <2>2. OnlyMoves(w) /\ OneSession'
    BY <2>1 DEF OnlyMoves, Sound, OneSession, InSession
  <2>3. WorkerInv(w)'
    BY <2>1, OtherWorker DEF Sound
  <2>. QED
    BY <2>1, <2>2, <2>3, SoundStep
<1>2. CASE AgentPanic(w)
  <2>1. OnlyMoves(w) /\ pc'[w] = "idle" /\ UNCHANGED <<store, req, shown>>
    BY <1>2 DEF AgentPanic, Goto, Discard, OnlyMoves, TypeOK
  <2>2. OneSession'
    BY <1>2, SessionMove DEF AgentPanic, Sound, Locations, Ungated
  <2>3. Durable(w)' /\ (shown'[w] # None => req'[w] \in TurnRequest)
    BY <2>1, DurableStays DEF Sound
  <2>4. WorkerInv(w)'
    BY <2>1, <2>3, QuietWorker
  <2>. QED
    BY <2>1, <2>2, <2>4, SoundStep
<1>. QED
  BY <1>1, <1>2

LEMMA CrashSound ==
    ASSUME TypeOK, Sound, Crash
    PROVE  Sound'
<1>1. UNCHANGED <<store, req, shown>> /\ \A v \in Workers : pc'[v] = "idle"
  BY DEF Crash
<1>2. ASSUME NEW v \in Workers
      PROVE  WorkerInv(v)'
  <2>1. Durable(v)' /\ (shown'[v] # None => req'[v] \in TurnRequest)
    BY <1>1, DurableStays DEF Sound
  <2>. QED
    BY <1>1, <2>1, QuietWorker
<1>3. OneSession'
  BY <1>1 DEF OneSession, InSession, Gated
<1>4. Transcript(store)'
  BY <1>1 DEF Sound
<1>. QED
  BY <1>2, <1>3, <1>4 DEF Sound

(* The race with an ungated Fail is not forgotten. *)
LEMMA RacedStays == [Next]_vars /\ raced => raced'
<1>1. ASSUME [Next]_vars, raced
      PROVE  raced'
  <2>1. CASE UNCHANGED vars
    BY <1>1, <2>1 DEF vars
  <2>2. CASE Crash
    BY <1>1, <2>2 DEF Crash
  <2>3. ASSUME NEW w \in Workers, \/ \E r \in Requests : Arrive(w, r)
                                 \/ ClientCancel(w) \/ AgentPanic(w)
        PROVE  raced'
    BY <1>1, <2>3 DEF Arrive, ClientCancel, AgentPanic
  <2>4. ASSUME NEW w \in Workers, Acquire(w) \/ BeginLoad(w) \/ BeginSave(w) \/ Replay(w) \/ Route(w)
        PROVE  raced'
    BY <1>1, <2>4 DEF Acquire, BeginLoad, BeginSave, Replay, Route
  <2>5. ASSUME NEW w \in Workers, \/ AgentReturn(w) \/ CompleteLoad(w) \/ CompleteSave(w) \/ Acked(w)
                                 \/ FinishLoad(w) \/ FinishSave(w) \/ AfterFinish(w)
        PROVE  raced'
    BY <1>1, <2>5 DEF AgentReturn, CompleteLoad, CompleteSave, Acked, FinishLoad, FinishSave,
       AfterFinish
  <2>. QED
    BY <1>1, <2>1, <2>2, <2>3, <2>4, <2>5 DEF Next, Step
<1>. QED
  BY <1>1

(* Every step keeps the invariant, unless a turn begins beside an ungated
   Fail. *)
LEMMA SafetyStep == TypeOK /\ GateInv /\ SafetyInv /\ [Next]_vars => SafetyInv'
<1> SUFFICES ASSUME TypeOK, GateInv, SafetyInv, [Next]_vars, ~raced'
             PROVE  Sound'
  BY DEF SafetyInv
<1>1. ~raced
  BY RacedStays
<1>2. Sound
  BY <1>1 DEF SafetyInv
<1>3. ASSUME NEW w \in Workers, AfterFinish(w)
      PROVE  Sound'
  BY <1>2, <1>3, QuietReturn DEF AfterFinish
<1>4. CASE UNCHANGED vars
  BY <1>2, <1>4 DEF vars, Sound, OneSession, InSession, WorkerInv, UpToDate, InTurn,
     OwnsAttempt, Durable, Expects
<1>. QED
  BY <1>2, <1>3, <1>4, ArriveSound, AcquireSound, BeginLoadSound, BeginSaveSound, ReplaySound,
     RouteSound, CompleteLoadSound, CompleteSaveSound, AckedSound, FinishLoadSound,
     FinishSaveSound, FaultSound, CrashSound DEF Next, Step

-----------------------------------------------------------------------------
LEMMA SafetyInvariant == Spec => []SafetyInv
<1>1. Init => SafetyInv
  <2> SUFFICES ASSUME Init PROVE Sound
    BY DEF SafetyInv
  <2>1. OneSession
    BY DEF Init, OneSession, InSession, Gated
  <2>2. Transcript(store)
    BY DEF Init, NewConversation, NoTurn, Transcript, OneMessagePerRole, MessagesRecorded,
       RecordsHaveMessages, HasTurn
  <2>3. \A w \in Workers : WorkerInv(w)
    BY DEF Init, WorkerInv, UpToDate, InTurn, Durable, Expects
  <2>. QED
    BY <2>1, <2>2, <2>3 DEF Sound
<1>2. Init => GateInv
  BY DEF Init, GateInv, GateExclusive, HeldWhereGated, Gated
<1>. QED
  BY <1>1, <1>2, TypeCorrect, GateStep, SafetyStep, PTL DEF Spec

(* No save overwrites what another request wrote. *)
THEOREM NoUpdateIsLost == Spec => []NoLostUpdate
<1>1. SafetyInv => NoLostUpdate
  BY DEF SafetyInv, Sound, WorkerInv, NoLostUpdate
<1>. QED
  BY <1>1, SafetyInvariant, PTL

(* A session settles the attempt it began, and no other session does. *)
THEOREM AttemptIsOwned == Spec => []SessionOwnsAttempt
<1>1. SafetyInv => SessionOwnsAttempt
  BY DEF SafetyInv, Sound, WorkerInv, SessionOwnsAttempt
<1>. QED
  BY <1>1, SafetyInvariant, PTL

(* Transcript and ledger on disk always agree. *)
THEOREM TranscriptIsConsistent == Spec => []TranscriptMatchesLedger
<1>1. SafetyInv => TranscriptMatchesLedger
  BY DEF SafetyInv, Sound, TranscriptMatchesLedger
<1>. QED
  BY <1>1, SafetyInvariant, PTL

(* What a client was told is complete is on disk, and stays. *)
THEOREM AnswersAreDurable == Spec => []AnnouncedIsDurable
<1>1. SafetyInv => AnnouncedIsDurable
  BY DEF SafetyInv, Sound, WorkerInv, AnnouncedIsDurable
<1>. QED
  BY <1>1, SafetyInvariant, PTL

-----------------------------------------------------------------------------
(* TurnStream implements TurnLedger: every step of every request is a step of  *)
(* the abstract ledger or leaves it unchanged. *)

Status(c) == [t \in TurnIDs |-> c.turns[t].status]

Result(c) == [t \in TurnIDs |-> c.turns[t].result]

(* The document changes only in the three saves. *)
LEMMA OnlySavesWrite ==
    ASSUME [Next]_vars, store' # store
    PROVE  \E w \in Workers : BeginSave(w) \/ CompleteSave(w) \/ FinishSave(w)
<1>1. CASE UNCHANGED vars
  BY <1>1 DEF vars
<1>2. CASE Crash
  BY <1>2 DEF Crash
<1>3. ASSUME NEW w \in Workers, \/ \E r \in Requests : Arrive(w, r)
                               \/ ClientCancel(w) \/ AgentPanic(w)
      PROVE  store' = store
  BY <1>3 DEF Arrive, ClientCancel, AgentPanic
<1>4. ASSUME NEW w \in Workers, \/ Acquire(w) \/ BeginLoad(w) \/ Replay(w) \/ Route(w)
                               \/ AgentReturn(w)
      PROVE  store' = store
  BY <1>4 DEF Acquire, BeginLoad, Replay, Route, AgentReturn
<1>5. ASSUME NEW w \in Workers, \/ CompleteLoad(w) \/ Acked(w) \/ FinishLoad(w)
                               \/ AfterFinish(w)
      PROVE  store' = store
  BY <1>5 DEF CompleteLoad, Acked, FinishLoad, AfterFinish
<1>. QED
  BY <1>1, <1>2, <1>3, <1>4, <1>5 DEF Next, Step

LEMMA BeginIsOpenOrReopen ==
    ASSUME TypeOK, Sound, NEW w \in Workers, BeginSave(w), store' # store
    PROVE  [Ledger!Next]_(Ledger!ledger)
<1>0. req[w] \in TurnRequest /\ req[w].turn \in TurnIDs
  BY DEF BeginSave, TypeOK, TurnRequest
<1>1. PICK r \in TurnRequest, t \in TurnIDs : r = req[w] /\ t = r.turn
  BY <1>0
<1>2. store' = BeginTurn(store, r) /\ store.turns[t].status # "completed"
  BY <1>1 DEF BeginSave, Sound, WorkerInv, UpToDate, Expects
<1>3. /\ \A u \in TurnIDs \ {t} : store'.turns[u] = store.turns[u]
      /\ store'.turns[t].status = "open"
      /\ store'.turns[t].result = IF HasTurn(store, t) THEN store.turns[t].result ELSE None
      /\ store'.messages = IF HasTurn(store, t) THEN store.messages
                           ELSE Append(store.messages, UserMessage(r))
  BY <1>1, <1>2, BeginTurnEffect DEF TypeOK
<1>4. store.turns[t].result = None
  BY <1>1, <1>2 DEF Sound, Transcript, RecordsHaveMessages
<1>5. Result(store') = Result(store) /\ Status(store') = [Status(store) EXCEPT ![t] = "open"]
  BY <1>1, <1>3, <1>4 DEF Result, Status
<1>6. store.turns[t].status \in TurnStatus
  BY <1>1 DEF TypeOK, Conversation, TurnRecord
<1>7. CASE ~HasTurn(store, t)
  <2>1. Ledger!Open(t)
    BY <1>1, <1>3, <1>5, <1>7 DEF Ledger!Open, HasTurn, Status, Result,
       TurnRequest, Ledger!TurnRequest, UserMessage, Ledger!UserMessage
  <2>. QED
    BY <1>1, <2>1 DEF Ledger!Next
<1>8. CASE HasTurn(store, t) /\ store.turns[t].status = "open"
  BY <1>1, <1>3, <1>5, <1>8 DEF Ledger!ledger, Status, Result
<1>9. CASE store.turns[t].status \in {"failed", "canceled"}
  <2>1. Ledger!Reopen(t)
    BY <1>1, <1>3, <1>5, <1>9 DEF Ledger!Reopen, HasTurn, Status, Result
  <2>. QED
    BY <1>1, <2>1 DEF Ledger!Next
<1>. QED
  BY <1>2, <1>6, <1>7, <1>8, <1>9 DEF TurnStatus, HasTurn

LEMMA CompleteIsCommit ==
    ASSUME TypeOK, Sound, NEW w \in Workers, CompleteSave(w), store' # store
    PROVE  Ledger!Next
<1>0. req[w].turn \in TurnIDs /\ req[w].attempt \in AttemptIDs
  BY DEF CompleteSave, TypeOK, TurnRequest
<1>1. PICK t \in TurnIDs, a \in AttemptIDs : t = req[w].turn /\ a = req[w].attempt
  BY <1>0
<1>2. store' = CompleteTurn(store, t, a) /\ store.turns[t].status = "open"
  BY <1>1 DEF CompleteSave, Sound, WorkerInv, UpToDate, InTurn, OwnsAttempt
<1>3. /\ \A u \in TurnIDs \ {t} : store'.turns[u] = store.turns[u]
      /\ store'.turns[t].status = "completed"
      /\ store'.turns[t].result = AssistantID(t, a)
      /\ store'.messages = Append(store.messages, AssistantMessage(t, a))
  BY <1>1, <1>2, CompleteTurnEffect DEF TypeOK
<1>4. /\ Status(store') = [Status(store) EXCEPT ![t] = "completed"]
      /\ Result(store') = [Result(store) EXCEPT ![t] = AssistantID(t, a)]
  BY <1>1, <1>3 DEF Result, Status
<1>5. Ledger!Commit(t, a)
  BY <1>1, <1>2, <1>3, <1>4 DEF Ledger!Commit, Status, Result, AssistantID,
     Ledger!AssistantID, AssistantMessage, Ledger!AssistantMessage
<1>. QED
  BY <1>1, <1>5 DEF Ledger!Next

LEMMA FinishIsGiveUp ==
    ASSUME TypeOK, Sound, NEW w \in Workers, FinishSave(w), store' # store
    PROVE  Ledger!Next
<1>0. /\ req[w].turn \in TurnIDs /\ req[w].attempt \in AttemptIDs
      /\ FinalStatus(code[w]) \in {"failed", "canceled"}
  BY DEF FinishSave, TypeOK, TurnRequest, FinalStatus
<1>1. PICK t \in TurnIDs, a \in AttemptIDs, s \in {"failed", "canceled"} :
         t = req[w].turn /\ a = req[w].attempt /\ s = FinalStatus(code[w])
  BY <1>0
<1>2. store' = FinishTurn(store, t, a, s) /\ store.turns[t].status = "open"
  BY <1>1 DEF FinishSave, Sound, WorkerInv, UpToDate, InTurn, OwnsAttempt
<1>3. /\ \A u \in TurnIDs \ {t} : store'.turns[u] = store.turns[u]
      /\ store'.turns[t].status = s
      /\ store'.turns[t].result = store.turns[t].result
      /\ store'.messages = store.messages
  BY <1>1, <1>2, FinishTurnEffect DEF TypeOK
<1>4. Status(store') = [Status(store) EXCEPT ![t] = s] /\ Result(store') = Result(store)
  BY <1>1, <1>3 DEF Result, Status
<1>5. Ledger!GiveUp(t, s)
  BY <1>1, <1>2, <1>3, <1>4 DEF Ledger!GiveUp, Status, Result
<1>. QED
  BY <1>1, <1>5 DEF Ledger!Next

LEMMA StepIsLedgerStep ==
    TypeOK /\ SafetyInv /\ [Next]_vars => [raced' \/ Ledger!Next]_(Ledger!ledger)
<1> SUFFICES ASSUME TypeOK, SafetyInv, [Next]_vars, ~raced'
             PROVE  [Ledger!Next]_(Ledger!ledger)
  OBVIOUS
<1>1. Sound
  BY RacedStays DEF SafetyInv
<1>2. CASE store' = store
  BY <1>2 DEF Ledger!ledger
<1>3. CASE store' # store
  BY <1>1, <1>3, OnlySavesWrite, BeginIsOpenOrReopen, CompleteIsCommit, FinishIsGiveUp
<1>. QED
  BY <1>2, <1>3

(* The stream of requests implements the abstract ledger. *)
THEOREM LedgerIsImplemented == Spec => ImplementsLedger
<1>1. Init => Ledger!Init
  BY DEF Init, NewConversation, NoTurn, Ledger!Init
<1>. QED
  BY <1>1, StepIsLedgerStep, TypeCorrect, SafetyInvariant, PTL DEF Spec, ImplementsLedger

-----------------------------------------------------------------------------
(* The model is shown only what was settled. *)

(* Every turn and every user message comes from a request. *)
FromRequests(c) ==
    /\ \A t \in TurnIDs : c.turns[t].user # None =>
          \E r \in Requests : r.turn = t /\ r.user = c.turns[t].user
    /\ \A i \in DOMAIN c.messages : c.messages[i].role = "user" =>
          \E r \in Requests : r.turn = c.messages[i].turn /\ r.user = c.messages[i].id

FromInv ==
    /\ FromRequests(store)
    /\ \A w \in Workers : FromRequests(conv[w])
    /\ \A w \in Workers : pc[w] # "idle" => req[w] \in Requests

LEMMA NewFromRequests == FromRequests(NewConversation)
BY DEF FromRequests, NewConversation, NoTurn

LEMMA BeginFromRequests ==
    ASSUME NEW c \in Conversation, NEW r \in TurnRequest, r \in Requests, FromRequests(c)
    PROVE  FromRequests(BeginTurn(c, r))
<1> PICK d : d = BeginTurn(c, r)
  OBVIOUS
<1>1. CASE HasTurn(c, r.turn)
  <2>1. d.messages = c.messages /\ \A t \in TurnIDs : d.turns[t].user = c.turns[t].user
    BY <1>1 DEF BeginTurn, Conversation, TurnRecord
  <2>. QED
    BY <2>1 DEF FromRequests
<1>2. CASE ~HasTurn(c, r.turn)
  <2>1. /\ d.messages = Append(c.messages, UserMessage(r))
        /\ \A t \in TurnIDs : d.turns[t].user = IF t = r.turn THEN r.user ELSE c.turns[t].user
    BY <1>2 DEF BeginTurn, Conversation, TurnRecord
  <2>2. UserMessage(r) \in Message /\ UserMessage(r).turn = r.turn /\ UserMessage(r).id = r.user
    BY DEF UserMessage, Message, TurnRequest
  <2>. PICK n : n = Len(c.messages) + 1
    OBVIOUS
  <2>3. /\ DOMAIN d.messages = DOMAIN c.messages \cup {n}
        /\ \A i \in DOMAIN c.messages : d.messages[i] = c.messages[i]
        /\ d.messages[n] = UserMessage(r)
    BY <2>1, <2>2, AppendFacts DEF Conversation
  <2>4. \A i \in DOMAIN d.messages : d.messages[i].role = "user" =>
           \E q \in Requests : q.turn = d.messages[i].turn /\ q.user = d.messages[i].id
    BY <2>2, <2>3 DEF FromRequests
  <2>. QED
    BY <2>1, <2>4 DEF FromRequests
<1>. QED
  BY <1>1, <1>2

LEMMA CompleteFromRequests ==
    ASSUME NEW c \in Conversation, NEW t \in TurnIDs, NEW a \in AttemptIDs, FromRequests(c)
    PROVE  FromRequests(CompleteTurn(c, t, a))
<1> PICK d : d = CompleteTurn(c, t, a)
  OBVIOUS
<1>1. /\ d.messages = Append(c.messages, AssistantMessage(t, a))
      /\ \A u \in TurnIDs : d.turns[u].user = c.turns[u].user
  BY DEF CompleteTurn, Conversation, TurnRecord
<1>2. AssistantMessage(t, a) \in Message /\ AssistantMessage(t, a).role = "assistant"
  BY DEF AssistantMessage, Message, AssistantID, Results
<1>. PICK n : n = Len(c.messages) + 1
  OBVIOUS
<1>3. /\ DOMAIN d.messages = DOMAIN c.messages \cup {n}
      /\ \A i \in DOMAIN c.messages : d.messages[i] = c.messages[i]
      /\ d.messages[n] = AssistantMessage(t, a)
  BY <1>1, <1>2, AppendFacts DEF Conversation
<1>. QED
  BY <1>1, <1>2, <1>3 DEF FromRequests

LEMMA FinishFromRequests ==
    ASSUME NEW c \in Conversation, NEW t \in TurnIDs, NEW a, NEW status, FromRequests(c)
    PROVE  FromRequests(FinishTurn(c, t, a, status))
<1> PICK d : d = FinishTurn(c, t, a, status)
  OBVIOUS
<1>1. d.messages = c.messages /\ \A u \in TurnIDs : d.turns[u].user = c.turns[u].user
  BY DEF FinishTurn, Conversation, TurnRecord
<1>. QED
  BY <1>1 DEF FromRequests

(* The context of a session whose document is the one on disk. *)
LEMMA SettledContext ==
    ASSUME NEW c \in Conversation, Transcript(c), FromRequests(c), NEW own \in TurnIDs,
           \A r, s \in Requests : r.user = s.user => r.turn = s.turn,
           MessageIDs \cap Results = {}, Requests \subseteq TurnRequest,
           NEW i \in Project(c, own)
    PROVE  c.messages[i].turn = own \/ c.turns[c.messages[i].turn].status = "completed"
<1>. PICK m : m = c.messages[i]
  OBVIOUS
<1>0. i \in DOMAIN c.messages /\ m.id \in AllowedIDs(c, own)
  BY DEF Project
<1>1. m \in Message
  BY <1>0 DEF Conversation
<1>2. CASE m.role = "assistant"
  BY <1>0, <1>2 DEF Transcript, MessagesRecorded
<1>3. CASE m.role = "user"
  <2>1. PICK r \in Requests : r.turn = m.turn /\ r.user = m.id
    BY <1>0, <1>3 DEF FromRequests
  <2>2. m.id \in MessageIDs
    BY <2>1 DEF TurnRequest
  <2>3. PICK t \in TurnIDs : \/ /\ c.turns[t].status = "completed"
                                /\ m.id \in {c.turns[t].user, c.turns[t].result}
                             \/ t = own /\ m.id = c.turns[t].user
    BY <1>0 DEF AllowedIDs
  <2>4. c.turns[t].result \in Results \cup {None}
    BY DEF Conversation, TurnRecord
  <2>5. m.id # c.turns[t].result
    BY <2>2, <2>4, NoneAssumption
  <2>6. m.id = c.turns[t].user
    BY <2>3, <2>5
  <2>7. m.id # None
    BY <2>2, NoneAssumption
  <2>8. PICK s \in Requests : s.turn = t /\ s.user = m.id
    BY <2>6, <2>7 DEF FromRequests
  <2>9. m.turn = t
    BY <2>1, <2>8
  <2>. QED
    BY <2>3, <2>9
<1>. QED
  BY <1>1, <1>2, <1>3 DEF Message

(* What a step makes of the document a worker holds. *)
LEMMA WorkingCopy ==
    ASSUME TypeOK, [Next]_vars, NEW v \in Workers
    PROVE  \/ conv'[v] \in {conv[v], NewConversation, store}
           \/ /\ pc[v] # "idle"
              /\ \/ conv'[v] = BeginTurn(store, req[v])
                 \/ conv'[v] = CompleteTurn(store, req[v].turn, req[v].attempt)
                 \/ \E s \in {"failed", "canceled"} : conv'[v] = FinishTurn(store, req[v].turn, req[v].attempt, s)
<1> USE DEF TypeOK
<1>1. ASSUME NEW w \in Workers, Discard(w)
      PROVE  conv'[v] \in {conv[v], NewConversation}
  BY <1>1 DEF Discard
<1>2. ASSUME NEW w \in Workers, NEW c, conv' = [conv EXCEPT ![w] = c]
      PROVE  conv'[v] = conv[v] \/ (v = w /\ conv'[v] = c)
  BY <1>2
<1>3. ASSUME NEW w \in Workers, BeginLoad(w)
      PROVE  \/ conv'[v] \in {conv[v], NewConversation, store}
             \/ (pc[v] # "idle" /\ conv'[v] = BeginTurn(store, req[v]))
  <2>1. \/ Discard(w)
        \/ conv' = [conv EXCEPT ![w] = store]
        \/ conv' = [conv EXCEPT ![w] = BeginTurn(store, req[w])]
    BY <1>3 DEF BeginLoad, BeginError, ReturnError
  <2>. QED
    BY <1>1, <1>2, <1>3, <2>1 DEF BeginLoad
<1>4. ASSUME NEW w \in Workers, CompleteLoad(w)
      PROVE  \/ conv'[v] = conv[v]
             \/ /\ pc[v] # "idle"
                /\ conv'[v] = CompleteTurn(store, req[v].turn, req[v].attempt)
  <2>1. \/ conv' = conv
        \/ conv' = [conv EXCEPT ![w] = CompleteTurn(store, req[w].turn, req[w].attempt)]
    BY <1>4 DEF CompleteLoad
  <2>. QED
    BY <1>2, <1>4, <2>1 DEF CompleteLoad
<1>5. ASSUME NEW w \in Workers, FinishLoad(w)
      PROVE  \/ conv'[v] = conv[v]
             \/ /\ pc[v] # "idle"
                /\ \E s \in {"failed", "canceled"} : conv'[v] = FinishTurn(store, req[v].turn, req[v].attempt, s)
  <2>1. \/ conv' = conv
        \/ conv' = [conv EXCEPT ![w] = FinishTurn(store, req[w].turn, req[w].attempt,
                                                   FinalStatus(code[w]))]
    BY <1>5 DEF FinishLoad
  <2>2. FinalStatus(code[w]) \in {"failed", "canceled"}
    BY DEF FinalStatus
  <2>. QED
    BY <1>2, <1>5, <2>1, <2>2 DEF FinishLoad
<1>6. ASSUME NEW w \in Workers,
             \/ Acquire(w) \/ BeginSave(w) \/ Replay(w) \/ Acked(w) \/ AfterFinish(w)
             \/ AgentPanic(w)
      PROVE  conv'[v] \in {conv[v], NewConversation}
  <2>1. Discard(w) \/ UNCHANGED conv
    BY <1>6 DEF Acquire, BeginSave, BeginError, Replay, Acked, AfterFinish, AgentPanic,
       ReturnError, ReturnOK
  <2>. QED
    BY <1>1, <2>1
<1>7. ASSUME NEW w \in Workers,
             \/ \E r \in Requests : Arrive(w, r)
             \/ ClientCancel(w) \/ Route(w) \/ AgentReturn(w) \/ CompleteSave(w) \/ FinishSave(w)
      PROVE  conv' = conv
  BY <1>7 DEF Arrive, ClientCancel, Route, AgentReturn, CompleteSave, FinishSave
<1>8. Crash => conv'[v] = NewConversation
  BY DEF Crash
<1>9. UNCHANGED vars => conv' = conv
  BY DEF vars
<1>. QED
  BY <1>3, <1>4, <1>5, <1>6, <1>7, <1>8, <1>9 DEF Next, Step

(* The request of a worker changes only when one arrives. *)
LEMMA RequestStays ==
    ASSUME TypeOK, [Next]_vars, NEW v \in Workers, pc'[v] # "idle"
    PROVE  (pc[v] # "idle" /\ req'[v] = req[v]) \/ req'[v] \in Requests
<1>1. ASSUME NEW w \in Workers, NEW r \in Requests, Arrive(w, r)
      PROVE  (pc[v] # "idle" /\ req'[v] = req[v]) \/ req'[v] \in Requests
  BY <1>1 DEF Arrive, Goto, TypeOK
<1>2. ASSUME NEW w \in Workers, Step(w) \/ AgentPanic(w) \/ ClientCancel(w)
      PROVE  /\ req' = req
             /\ w = v => pc[v] # "idle"
             /\ w # v => pc'[v] = pc[v]
  BY <1>2 DEF TypeOK, Step, AgentPanic, ClientCancel, Acquire, BeginLoad, BeginSave, BeginError,
     Replay, Route, AgentReturn, CompleteLoad, CompleteSave, CommitError, Acked, FinishLoad,
     FinishSave, AfterFinish, ReturnError, ReturnOK, GotoFinish, Goto
<1>3. ~Crash
  BY DEF Crash
<1>4. UNCHANGED vars => pc'[v] = pc[v] /\ req'[v] = req[v]
  BY DEF vars
<1>. QED
  BY <1>1, <1>2, <1>3, <1>4 DEF Next

LEMMA FromStep == TypeOK /\ FromInv /\ [Next]_vars => FromInv'
<1> SUFFICES ASSUME TypeOK, FromInv, [Next]_vars
             PROVE  FromInv'
  OBVIOUS
<1>1. FromRequests(store')
  <2>1. store' = store \/ \E w \in Workers : store' = conv[w]
    BY OnlySavesWrite DEF BeginSave, CompleteSave, FinishSave
  <2>. QED
    BY <2>1 DEF FromInv
<1>2. ASSUME NEW v \in Workers
      PROVE  FromRequests(conv'[v])
  <2>1. CASE conv'[v] \in {conv[v], NewConversation, store}
    BY <2>1, NewFromRequests DEF FromInv
  <2>2. CASE pc[v] # "idle"
    <3>1. /\ store \in Conversation /\ FromRequests(store)
          /\ req[v] \in Requests /\ req[v] \in TurnRequest
          /\ req[v].turn \in TurnIDs /\ req[v].attempt \in AttemptIDs
      BY <2>2 DEF TypeOK, FromInv, TurnRequest
    <3>. QED
      BY <2>1, <3>1, WorkingCopy, BeginFromRequests, CompleteFromRequests, FinishFromRequests
  <2>. QED
    BY <2>1, <2>2, WorkingCopy
<1>3. ASSUME NEW v \in Workers, pc'[v] # "idle"
      PROVE  req'[v] \in Requests
  BY <1>3, RequestStays DEF FromInv
<1>. QED
  BY <1>1, <1>2, <1>3 DEF FromInv, FromRequests

(* The context of every generation is settled, provided clients name the user
   message of another turn differently, and differently from assistant
   messages. *)
THEOREM ContextsAreSettled ==
    ASSUME \A r, s \in Requests : r.user = s.user => r.turn = s.turn,
           MessageIDs \cap Results = {}
    PROVE  Spec => []ContextIsCommitted
<1>1. Init => FromInv
  BY NewFromRequests DEF Init, FromInv, FromRequests
<1>2. TypeOK /\ SafetyInv /\ FromInv => ContextIsCommitted
  <2> SUFFICES ASSUME TypeOK, FromInv, Sound, NEW w \in Workers, pc[w] \in {"route", "agent"},
                      NEW i \in Context(w)
               PROVE  \/ conv[w].messages[i].turn = req[w].turn
                      \/ store.turns[conv[w].messages[i].turn].status = "completed"
    BY DEF SafetyInv, ContextIsCommitted
  <2>1. conv[w] = store /\ store \in Conversation /\ Transcript(store) /\ FromRequests(store)
    BY DEF Sound, WorkerInv, UpToDate, TypeOK, FromInv
  <2>2. req[w].turn \in TurnIDs
    BY DEF TypeOK, TurnRequest
  <2>. QED
    BY <2>1, <2>2, SettledContext, RequestsAssumption DEF Context
<1>. QED
  BY <1>1, <1>2, FromStep, TypeCorrect, SafetyInvariant, PTL DEF Spec
=============================================================================
