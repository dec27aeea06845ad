--------------------------- MODULE MCProcessInput ---------------------------
(* Small instances of ProcessInput for TLC. *)
EXTENDS ProcessInput, TLC

Symmetric == Permutations(Attachment)
=============================================================================
