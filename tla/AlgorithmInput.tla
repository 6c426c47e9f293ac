---------------------------- MODULE AlgorithmInput ----------------------------
(* One call of a pure algorithm: a behaviour is about an algorithm, picks an   *)
(* input of it, and invariants compare what the algorithm returns with what it *)
(* promises.                                                                   *)
EXTENDS Sequences, Functions

IsSequence(s) == s \in Seq(Range(s))

VARIABLES
  algorithm,   \* the algorithm under test, "none" before its input is chosen
  input        \* its input; before, the name of the algorithm

called == <<algorithm, input>>

Choosing(names) == algorithm = "none" /\ input \in names

Take(name, value) ==
  /\ algorithm' = name
  /\ input' = value
=============================================================================
