------------------------- MODULE MCResumableUpload -------------------------
(* Small instances of ResumableUpload for TLC. *)
EXTENDS ResumableUpload, TLC

(* Session identifiers are random; contents are compared, no more. *)
Symmetric == Permutations(Upload) \cup Permutations(Content)
=============================================================================
