----------------------------- MODULE MCTakeover -----------------------------
(* Instances of Takeover for TLC. *)
EXTENDS Takeover, FiniteSets, TLC

Names == Permutations(Procs)

\* Bound: a third operation is started only to the depth of its first step.
AtMostTwo == Cardinality({a \in Actors : Busy(a)}) <= 2
=============================================================================
