------------------------------- MODULE Turns -------------------------------
(***************************************************************************)
(* The conversation document and what the turn coordinator does to it       *)
(* (internal/conversation/coordinator.go, pkg/types/contracts.go).          *)
(*                                                                          *)
(* A conversation is one JSON document: the transcript (messages, in the    *)
(* order they were appended) and the ledger (one record per logical turn,   *)
(* with the state of each of its attempts).  The operators below are the    *)
(* in-memory edits the coordinator makes between a load and a save; they    *)
(* are pure, the state machine that interleaves them is TurnStream.         *)
(***************************************************************************)
EXTENDS Sequences, Naturals

CONSTANTS
    TurnIDs,      \* logical turn identities chosen by clients
    AttemptIDs,   \* attempt identities chosen by clients
    MessageIDs,   \* identities of user messages chosen by clients
    Contents,     \* contents of user messages
    None          \* "no value": a nil result, an empty content

(* A validated types.TurnRequest of one (tenant, user, conversation). *)
TurnRequest == [turn : TurnIDs, attempt : AttemptIDs,
                user : MessageIDs, content : Contents]

(* ensureAssistantMessageIdentity: the message of a result is named after the
   turn and the request that produced it.  A request serves one attempt, so
   the attempt stands for the request; the ID also stands for the result. *)
AssistantID(t, a) == [turn |-> t, attempt |-> a]

Results == [turn : TurnIDs, attempt : AttemptIDs]

ASSUME NoneAssumption == None \notin Contents \cup MessageIDs \cup Results

(* types.Message.  Field "turn" is the turn the message was appended for: the
   code does not store it and no operator of the coordinator reads it; only
   properties do. *)
UserMessage(r) ==
    [role |-> "user", id |-> r.user, content |-> r.content, turn |-> r.turn]

AssistantMessage(t, a) ==
    [role |-> "assistant", id |-> AssistantID(t, a), content |-> None, turn |-> t]

Message == [role : {"user", "assistant"}, id : MessageIDs \cup Results,
            content : Contents \cup {None}, turn : TurnIDs]

TurnStatus == {"absent", "open", "completed", "failed", "canceled"}

AttemptStatus == {"absent", "generating", "completed", "failed", "canceled"}

(* types.TurnRecord.  "absent" marks a turn or an attempt that is not in its
   list; AssistantMessageID and Result are assigned together, by Complete, and
   are the one field "result". *)
TurnRecord == [status : TurnStatus, user : MessageIDs \cup {None},
               result : Results \cup {None},
               attempts : [AttemptIDs -> AttemptStatus]]

NoTurn == [status |-> "absent", user |-> None, result |-> None,
           attempts |-> [a \in AttemptIDs |-> "absent"]]

Conversation == [messages : Seq(Message), turns : [TurnIDs -> TurnRecord]]

(* What loadConversation returns when the document does not exist yet. *)
NewConversation == [messages |-> <<>>, turns |-> [t \in TurnIDs |-> NoTurn]]

-----------------------------------------------------------------------------
(* Begin: what it decides from the loaded document. *)

HasTurn(c, t) == c.turns[t].status # "absent"

(* ensureTurnContentMatches: the first message that carries the turn's user
   message ID has the content of the request. *)
ContentMatches(c, r) ==
    \E i \in DOMAIN c.messages :
        /\ c.messages[i].id = c.turns[r.turn].user
        /\ c.messages[i].content = r.content
        /\ \A j \in DOMAIN c.messages :
              j < i => c.messages[j].id # c.turns[r.turn].user

HasAttempt(c, t, a) == c.turns[t].attempts[a] # "absent"

(* Content mismatch, user message missing, or attempt already exists. *)
Conflicts(c, r) ==
    /\ HasTurn(c, r.turn)
    /\ ~ContentMatches(c, r) \/ HasAttempt(c, r.turn, r.attempt)

NeverReplayable(c, r) == FALSE   \* mutant: a completed turn is generated again

Replayable(c, r) ==
    /\ ~Conflicts(c, r)
    /\ c.turns[r.turn].status = "completed"
    /\ c.turns[r.turn].result # None

(* A new turn appends its user message and a record with one generating
   attempt; a retry reopens the record and appends a generating attempt. *)
BeginTurnAppendsAgain(c, r) ==   \* mutant: a retry appends its message again
    [messages |-> Append(c.messages, UserMessage(r)),
     turns |-> [c.turns EXCEPT ![r.turn] =
                   [@ EXCEPT !.status = "open", !.user = r.user,
                             !.attempts[r.attempt] = "generating"]]]

BeginTurnKeepsStatus(c, r) ==   \* mutant: a retry does not reopen its turn
    IF HasTurn(c, r.turn)
    THEN [c EXCEPT !.turns[r.turn].attempts[r.attempt] = "generating"]
    ELSE BeginTurnAppendsAgain(c, r)

BeginTurn(c, r) ==
    IF HasTurn(c, r.turn)
    THEN [c EXCEPT !.turns[r.turn] =
             [@ EXCEPT !.status = "open", !.attempts[r.attempt] = "generating"]]
    ELSE [messages |-> Append(c.messages, UserMessage(r)),
          turns |-> [c.turns EXCEPT ![r.turn] =
                        [status |-> "open", user |-> r.user, result |-> None,
                         attempts |-> [NoTurn.attempts EXCEPT
                                          ![r.attempt] = "generating"]]]]

-----------------------------------------------------------------------------
(* Complete, Fail and Cancel: edits of a document that was loaded again. *)

(* findTurn and findAttempt both succeed. *)
Owns(c, t, a) == HasTurn(c, t) /\ HasAttempt(c, t, a)

CompleteTurnStaysOpen(c, t, a) ==   \* mutant: the turn's status is not set
    [messages |-> Append(c.messages, AssistantMessage(t, a)),
     turns |-> [c.turns EXCEPT ![t] =
                   [@ EXCEPT !.result = AssistantID(t, a),
                             !.attempts[a] = "completed"]]]

CompleteTurn(c, t, a) ==
    [messages |-> Append(c.messages, AssistantMessage(t, a)),
     turns |-> [c.turns EXCEPT ![t] =
                   [@ EXCEPT !.status = "completed",
                             !.result = AssistantID(t, a),
                             !.attempts[a] = "completed"]]]

(* finishWithoutAssistant.  Result and AssistantMessageID are left alone. *)
FinishTurn(c, t, a, status) ==
    [c EXCEPT !.turns[t] = [@ EXCEPT !.status = status, !.attempts[a] = status]]

-----------------------------------------------------------------------------
(* projectConversation: the transcript shown to the model keeps the messages
   whose ID is the user or assistant message of a completed turn, or the user
   message of the active turn while it is open. *)
AllowedIDsOfOpen(c, active) ==   \* mutant: any open turn is shown
    UNION {CASE c.turns[t].status = "completed" -> {c.turns[t].user, c.turns[t].result}
             [] c.turns[t].status = "open" -> {c.turns[t].user}
             [] OTHER -> {} : t \in TurnIDs}

AllowedIDs(c, active) ==
    UNION {CASE c.turns[t].status = "completed" -> {c.turns[t].user, c.turns[t].result}
             [] c.turns[t].status = "open" /\ t = active -> {c.turns[t].user}
             [] OTHER -> {} : t \in TurnIDs}

(* The positions of those messages; the projection keeps their order. *)
Project(c, active) ==
    {i \in DOMAIN c.messages : c.messages[i].id \in AllowedIDs(c, active)}

-----------------------------------------------------------------------------
(* Transcript and ledger of a document agree: each turn has one user message
   and, exactly when it is completed, one assistant message, the one its
   record names. *)
OneMessagePerRole(c) ==
    \A i, j \in DOMAIN c.messages :
        /\ c.messages[i].turn = c.messages[j].turn
        /\ c.messages[i].role = c.messages[j].role
        => i = j

MessagesRecorded(c) ==
    \A i \in DOMAIN c.messages :
        /\ HasTurn(c, c.messages[i].turn)
        /\ c.messages[i].role = "assistant" =>
              /\ c.turns[c.messages[i].turn].status = "completed"
              /\ c.turns[c.messages[i].turn].result = c.messages[i].id

HasMessage(c, t, role) ==
    \E i \in DOMAIN c.messages : c.messages[i].turn = t /\ c.messages[i].role = role

RecordsHaveMessages(c) ==
    \A t \in TurnIDs :
        /\ HasTurn(c, t) => HasMessage(c, t, "user")
        /\ c.turns[t].status = "completed" => HasMessage(c, t, "assistant")
        /\ c.turns[t].result # None <=> c.turns[t].status = "completed"

Transcript(c) == OneMessagePerRole(c) /\ MessagesRecorded(c) /\ RecordsHaveMessages(c)
=============================================================================
