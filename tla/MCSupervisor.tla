---------------------------- MODULE MCSupervisor ----------------------------
(* Small instances of Supervisor for TLC. *)
EXTENDS Supervisor, TLC

Names == Permutations(Apps) \cup Permutations(Pids)
=============================================================================
