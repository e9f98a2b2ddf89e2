------------------------------ MODULE MCStreamFind ------------------------------
(* Instance of MemStream and StreamFind for TLC. *)
EXTENDS StreamFind

CONSTANTS b1, b2, junk

\* A pattern with a repetition, so that an occurrence may begin inside a failed one.
MCPattern == <<b1, b1, b2>>
=============================================================================
