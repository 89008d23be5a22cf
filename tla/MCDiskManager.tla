--------------------------- MODULE MCDiskManager ---------------------------
(* Small instances of DiskManager for TLC. *)
EXTENDS DiskManager, TLC

Symmetry == Permutations(Senders) \cup Permutations(Tasks)
=============================================================================
