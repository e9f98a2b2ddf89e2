---------------------------- MODULE MCZipArchive ----------------------------
(* Instances of ZipArchive for TLC. *)
EXTENDS ZipArchive, TLC

CONSTANTS n1, n2, c1, c2, junk, noName

\* No definition or property of ZipArchive tells one name or one chunk from
\* another, and the properties checked with it are safety properties.
NamesAndChunks == Permutations(Names) \cup Permutations(Chunks)
=============================================================================
