---------------------------- MODULE MCQueryStore ----------------------------
(* Small instances of QueryStore for TLC. *)
EXTENDS QueryStore

Symmetric == Permutations(Query) \cup Permutations(Observer)
=============================================================================
