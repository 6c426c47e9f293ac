----------------------------- MODULE TurnLedger -----------------------------
(***************************************************************************)
(* What the conversation promises about its turns, without gates, sessions,  *)
(* loads or saves: a turn is opened, and either committed once with a result *)
(* or given up and perhaps opened again; a committed turn never changes; the *)
(* transcript only grows, by the user message when a turn is first opened    *)
(* and by the assistant message when it is committed.                        *)
(***************************************************************************)
EXTENDS Turns

VARIABLES
    status,      \* the status of each turn
    result,      \* the committed result of each turn, or None
    transcript   \* the messages in the order they were appended

ledger == <<status, result, transcript>>

Init ==
    /\ status = [t \in TurnIDs |-> "absent"]
    /\ result = [t \in TurnIDs |-> None]
    /\ transcript = <<>>

Open(t) ==
    /\ status[t] = "absent"
    /\ status' = [status EXCEPT ![t] = "open"]
    /\ \E r \in TurnRequest :
          r.turn = t /\ transcript' = Append(transcript, UserMessage(r))
    /\ UNCHANGED result

Reopen(t) ==
    /\ status[t] \in {"failed", "canceled"}
    /\ status' = [status EXCEPT ![t] = "open"]
    /\ UNCHANGED <<result, transcript>>

Commit(t, a) ==
    /\ status[t] = "open"
    /\ status' = [status EXCEPT ![t] = "completed"]
    /\ result' = [result EXCEPT ![t] = AssistantID(t, a)]
    /\ transcript' = Append(transcript, AssistantMessage(t, a))

GiveUp(t, s) ==
    /\ status[t] = "open"
    /\ status' = [status EXCEPT ![t] = s]
    /\ UNCHANGED <<result, transcript>>

Next ==
    \E t \in TurnIDs :
        \/ Open(t)
        \/ Reopen(t)
        \/ \E a \in AttemptIDs : Commit(t, a)
        \/ \E s \in {"failed", "canceled"} : GiveUp(t, s)

Spec == Init /\ [][Next]_ledger
=============================================================================
