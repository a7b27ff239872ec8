-------------------------- MODULE MCLiveOperation --------------------------
(* Small instances of LiveOperation for TLC. *)
EXTENDS LiveOperation, TLC

CONSTANTS w1, w2, p1, p2, main, other

OneFile == {1}
TwoFiles == 1..2
Writers == Permutations(Writer)
OneProcess == [w \in Writer |-> main]
TwoProcesses == [w \in Writer |-> IF w = w1 THEN main ELSE other]
NoFile == {}
FirstFile == {1}
OneUser == {0}
TwoUsers == 0..1
=============================================================================
