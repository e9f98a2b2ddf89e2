-------------------------------- MODULE MCCompat --------------------------------
(* Instance of Compat for TLC. *)
EXTENDS Compat, TLC

CONSTANTS n1, n2, c1, c2, junk, noName

\* Names and chunks are interchangeable.
NamesAndChunks == Permutations(Names) \cup Permutations(Chunks)
=============================================================================
