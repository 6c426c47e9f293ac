------------------------- MODULE CheckpointRegister -------------------------
(***************************************************************************)
(* What the review checkpoint service promises: one register per            *)
(* idempotency key that is written at most once.                             *)
(***************************************************************************)
CONSTANTS Keys, Checkpoints, Empty

VARIABLE register

Init == register = [k \in Keys |-> Empty]

Write(k, c) ==
    /\ register[k] = Empty
    /\ register' = [register EXCEPT ![k] = c]

Next == \E k \in Keys, c \in Checkpoints : Write(k, c)

Spec == Init /\ [][Next]_register
=============================================================================
