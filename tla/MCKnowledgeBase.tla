--------------------------- MODULE MCKnowledgeBase ---------------------------
(* KnowledgeBase on a small instance. *)
EXTENDS KnowledgeBase, TLC

Interchangeable == Permutations(Workers) \cup Permutations(Contents)
=============================================================================
