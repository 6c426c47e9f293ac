---------------------------- MODULE MCTurnStream ----------------------------
(* TurnStream on small instances. *)
EXTENDS TurnStreamClaims, TLC

CONSTANTS t1, t2, a1, a2, a3, m1, m2, c1, c2

Ask(t, a, m, c) == [turn |-> t, attempt |-> a, user |-> m, content |-> c]

(* A turn with a retry, and a second turn. *)
RetryAndNext == {Ask(t1, a1, m1, c1), Ask(t1, a2, m1, c1), Ask(t2, a1, m2, c2)}

(* A turn with a retry, and its retry with changed content. *)
RetryAndChange == {Ask(t1, a1, m1, c1), Ask(t1, a2, m1, c1), Ask(t1, a2, m1, c2)}

(* A turn with two retries. *)
TwoRetries == {Ask(t1, a, m1, c1) : a \in AttemptIDs}

WorkerSymmetry == Permutations(Workers)
=============================================================================
