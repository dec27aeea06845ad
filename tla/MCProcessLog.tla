---------------------------- MODULE MCProcessLog ----------------------------
(* Instances of ProcessLog for TLC: readers and streams are interchangeable. *)
EXTENDS ProcessLog, TLC

CONSTANTS r1, r2, out, err

ReaderSymmetry == Permutations(Readers)

StreamSymmetry == Permutations(Streams)
=============================================================================
