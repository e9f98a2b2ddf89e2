----------------------------- MODULE MCArchiveView -----------------------------
(* Instance of ArchiveView for TLC. *)
EXTENDS ArchiveView, TLC

CONSTANTS n1, n2, c1, c2, junk, noName

\* Names and chunks are interchangeable in ZipArchive and in Archive.
NamesAndChunks == Permutations(Names) \cup Permutations(Chunks)
=============================================================================
