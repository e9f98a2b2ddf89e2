---------------------------- MODULE MCSplitStream ----------------------------
(* Instance of SplitStream for TLC. *)
EXTENDS SplitStream

CONSTANTS b1, b2, diskHeader
=============================================================================
