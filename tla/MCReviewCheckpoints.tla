------------------------- MODULE MCReviewCheckpoints -------------------------
(* ReviewCheckpoints on a small instance. *)
EXTENDS ReviewCheckpoints, TLC

CONSTANTS k1, k2, k3, f1, f2

Create(k, f) == [key |-> k, fingerprint |-> f]

(* A request, its key with other content, and requests with other keys. *)
ThreeKeys == {Create(k1, f1), Create(k1, f2), Create(k2, f1), Create(k3, f1)}

Interchangeable ==
    Permutations(Workers) \cup Permutations(Snapshots) \cup Permutations({k2, k3})
=============================================================================
