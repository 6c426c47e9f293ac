-------------------------- MODULE TurnStreamClaims --------------------------
(***************************************************************************)
(* Sentences of the repository's phase 8 documents about streaming turns,    *)
(* stated over TurnStream without the reservation "raced".  Each one is      *)
(* refuted by a run of its own: the counterexample is a behaviour of the     *)
(* code that the sentence excludes.                                          *)
(***************************************************************************)
EXTENDS TurnStream

(* docs/plans/phase-8-real-conversation-loop-plan.md:344, "The session must
   release its lock exactly once on all terminal paths": a key in the gate
   belongs to a session that is still being served. *)
GateReleasedOnAllPaths == active => held # {}

(* docs/specs/phase-8-real-conversation-loop.md:225, "A completed turn cannot
   create a second assistant message". *)
OneAssistantPerTurn ==
    \A i, j \in DOMAIN store.messages :
        /\ store.messages[i].role = "assistant"
        /\ store.messages[j].role = "assistant"
        /\ store.messages[i].turn = store.messages[j].turn
        => i = j
=============================================================================
