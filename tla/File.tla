---------------------------------- MODULE File ----------------------------------
(***************************************************************************)
(* A file as the streams of mz_strm.h present it: its contents, the        *)
(* position in it, and what the last read handed out.  No buffer.  A read  *)
(* or a write may take several steps; only a seek jumps.                   *)
(***************************************************************************)
EXTENDS Naturals, Sequences, Overlays

CONSTANTS
  Bytes,  \* what a file is made of
  MaxPut  \* the most that is written in one step

VARIABLES contents, at, call, out

vars == <<contents, at, call, out>>

Init == contents \in Seq(Bytes) /\ at = 0 /\ call = "none" /\ out = <<>>

BeginRead ==
  /\ call = "none" /\ call' = "read" /\ out' = <<>>
  /\ UNCHANGED <<contents, at>>

Get(k) ==
  /\ call = "read" /\ call' \in {"read", "none"}
  /\ at + k <= Len(contents) /\ at' = at + k
  /\ out' = out \o SubSeq(contents, at + 1, at + k)
  /\ UNCHANGED contents

BeginWrite ==
  /\ call = "none" /\ call' = "write"
  /\ UNCHANGED <<contents, at, out>>

Put(d) ==
  /\ call = "write" /\ call' \in {"write", "none"}
  /\ contents' = Overlay(contents, at, d) /\ at' = at + Len(d)
  /\ UNCHANGED out

Seek(p) ==
  /\ call = "none" /\ at' = p
  /\ UNCHANGED <<contents, call, out>>

\* Streams that need one step for a read, a write or a cut.
ReadAtOnce(k) ==
  /\ call = "none" /\ at + k <= Len(contents) /\ at' = at + k
  /\ out' = SubSeq(contents, at + 1, at + k)
  /\ UNCHANGED <<contents, call>>

WriteAtOnce(d) ==
  /\ call = "none" /\ contents' = Overlay(contents, at, d) /\ at' = at + Len(d)
  /\ UNCHANGED <<call, out>>

Clear == call = "none" /\ contents' = <<>> /\ at' = 0 /\ UNCHANGED <<call, out>>

Next ==
  \/ BeginRead \/ BeginWrite
  \/ \E k \in 0..Len(contents) : Get(k)
  \/ \E n \in 1..MaxPut : \E d \in [1..n -> Bytes] : Put(d)
  \/ \E p \in 0..Len(contents) : Seek(p)
  \/ \E k \in 0..Len(contents) : ReadAtOnce(k)
  \/ \E n \in 1..MaxPut : \E d \in [1..n -> Bytes] : WriteAtOnce(d)
  \/ Clear

Spec == Init /\ [][Next]_vars
=============================================================================
