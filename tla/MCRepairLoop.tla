----------------------------- MODULE MCRepairLoop -----------------------------
(* RepairLoop on a small instance. *)
EXTENDS RepairLoop, TLC

Interchangeable ==
    Permutations(Workers) \cup Permutations(Gaps) \cup Permutations(Audits)
        \cup Permutations(Snapshots)
=============================================================================
