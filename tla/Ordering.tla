------------------------------- MODULE Ordering -------------------------------
(* Lists in order and the part of them that is kept.  An order is a set of     *)
(* pairs.                                                                      *)
EXTENDS Naturals, Sequences, FiniteSets

(* Each element of S after those that come before it. *)
Ordered(S, order) ==
  LET Place(x) == Cardinality({y \in S : <<y, x>> \in order}) + 1
  IN  [n \in 1..Cardinality(S) |-> CHOOSE x \in S : Place(x) = n]

FirstFew(s, limit) == SubSeq(s, 1, IF Len(s) < limit THEN Len(s) ELSE limit)

(* The elements of s that are in S: SelectSeq, as a function of how much of s  *)
(* has been read.                                                              *)
Only(s, S) ==
  LET kept[n \in 0..Len(s)] ==
        IF n = 0 THEN << >> ELSE IF s[n] \in S THEN Append(kept[n - 1], s[n]) ELSE kept[n - 1]
  IN  kept[Len(s)]
=============================================================================
