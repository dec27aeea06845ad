------------------------- MODULE MCProcessRegistry -------------------------
(* Small instances of ProcessRegistry for TLC. *)
EXTENDS ProcessRegistry, TLC

(* UUIDs and pids are interchangeable. *)
Symmetric == Permutations(Id) \cup Permutations(Pid)
=============================================================================
