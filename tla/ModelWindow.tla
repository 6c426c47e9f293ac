---------------------------- MODULE ModelWindow ----------------------------
(***************************************************************************)
(* ShortTermMemory.Window (internal/memory/short.go): the part of a           *)
(* transcript that is sent to the model.  estimate[m] is the token estimate  *)
(* of a message and budget the memory's maximum.                              *)
(***************************************************************************)
EXTENDS Integers, Ordering, Functions

CollectSystemMessages(ms) == Only(ms, {m \in Range(ms) : m.role = "system"})

CollectNonSystemMessages(ms) == Only(ms, {m \in Range(ms) : m.role # "system"})

(* Two neighbouring messages that make a complete turn. *)
IsPair(user, assistant) == user.role = "user" /\ assistant.role = "assistant"

(* selectRecentTurns: the last message is kept whatever it costs when it is
   the user's; then user/assistant pairs are taken from the end while they
   fit in what is left of the budget.  A state of the loop is the index of the
   last message that is not taken, and what remains. *)
AfterLatestThatFits(ms, estimate, budget) ==   \* mutant: the latest message must fit too
    LET n == Len(ms)
    IN  IF ms # <<>> /\ ms[n].role = "user" /\ estimate[ms[n]] <= budget
        THEN [index |-> n - 1, remaining |-> budget - estimate[ms[n]]]
        ELSE [index |-> n, remaining |-> budget]
AfterLatest(ms, estimate, budget) ==
    LET n == Len(ms)
    IN  IF ms # <<>> /\ ms[n].role = "user"
        THEN [index |-> n - 1, remaining |-> budget - estimate[ms[n]]]
        ELSE [index |-> n, remaining |-> budget]

(* One round of the loop: a break leaves the state as it is. *)
TakePair(ms, estimate, state) ==
    LET i    == state.index
        cost == estimate[ms[i - 1]] + estimate[ms[i]]
    IN  IF i >= 2 /\ IsPair(ms[i - 1], ms[i]) /\ cost <= state.remaining
        THEN [index |-> i - 2, remaining |-> state.remaining - cost]
        ELSE state

SelectRecentTurns(ms, estimate, budget) ==
    LET n == Len(ms)
        round[k \in 0..n] == IF k = 0 THEN AfterLatest(ms, estimate, budget)
                             ELSE TakePair(ms, estimate, round[k - 1])
    IN  SubSeq(ms, round[n].index + 1, n)

(* The system messages in front of the selection of the others. *)
Window(ms, estimate, budget) ==
    CollectSystemMessages(ms)
      \o SelectRecentTurns(CollectNonSystemMessages(ms), estimate, budget)

-----------------------------------------------------------------------------
(* What the window is meant to be, without a loop: the longest suffix of
   whole turns, perhaps ended by a user message, that fits in the budget; a
   user message at the end is kept even if nothing else fits. *)

WholeTurns(ms) ==
    \A i \in DOMAIN ms : ms[i].role = IF i % 2 = 1 THEN "user" ELSE "assistant"

TotalEstimate(ms, estimate) ==
    LET sum[i \in 0..Len(ms)] == IF i = 0 THEN 0 ELSE sum[i - 1] + estimate[ms[i]]
    IN  sum[Len(ms)]

EndsWithUser(ms) == ms # <<>> /\ ms[Len(ms)].role = "user"

(* The suffix from i may be sent: a suffix that ends in an assistant message
   has only whole pairs, which WholeTurns says. *)
Sendable(ms, i, estimate, budget) ==
    LET suffix == SubSeq(ms, i, Len(ms))
    IN  /\ WholeTurns(suffix)
        /\ \/ TotalEstimate(suffix, estimate) <= budget
           \/ suffix = <<>>
           \/ i = Len(ms) /\ EndsWithUser(ms)

LongestSuffix(ms, estimate, budget) ==
    LET starts == {i \in 1..(Len(ms) + 1) : Sendable(ms, i, estimate, budget)}
        start == CHOOSE i \in starts : \A j \in starts : i <= j
    IN  SubSeq(ms, start, Len(ms))
=============================================================================
