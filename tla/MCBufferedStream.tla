--------------------------- MODULE MCBufferedStream ---------------------------
(* Instance of BufferedStream for TLC. *)
EXTENDS BufferedStream

CONSTANTS b1, b2
=============================================================================
