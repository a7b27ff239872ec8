--------------------------- MODULE MCDaemonLease ---------------------------
(* Small instances of DaemonLease for TLC. *)
EXTENDS DaemonLease, TLC

Names == Permutations(Daemons) \cup Permutations(Inodes)
=============================================================================
