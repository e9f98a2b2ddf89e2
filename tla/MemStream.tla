------------------------------- MODULE MemStream -------------------------------
(***************************************************************************)
(* src/mz_strm_mem.c: a stream in memory, over a buffer of the caller's or *)
(* one that grows, and mz_stream_copy of mz_strm.c, which fills it.        *)
(* mz_zip.c keeps the directory and the variable fields of headers in such *)
(* streams; the reader and writer open archives in them.                   *)
(***************************************************************************)
EXTENDS Integers, Sequences, Overlays

CONSTANTS
  Bytes,     \* what streams are made of
  Junk,      \* a byte of malloc'ed memory nobody wrote
  GrowSizes, \* the values of grow_size in use
  CopySize,  \* sizeof(buf) of mz_stream_copy
  MaxLen,    \* bound: length of a stream that is written
  MaxIO      \* bound: size of one read, write or copy

ASSUME MemAssumption ==
  /\ Junk \notin Bytes /\ GrowSizes \subseteq Nat \ {0}
  /\ MaxLen \in Nat /\ MaxIO \in Nat \ {0} /\ CopySize \in Nat \ {0}

VARIABLES
  buffer,   \* all the memory the stream has; its length is mem->size
  limit,    \* the furthest written
  position,
  grow,     \* grow_size; 0: the buffer is the caller's (no MZ_OPEN_MODE_CREATE)
  out,      \* what the last read handed out
  source,   \* what the source of mz_stream_copy has left
  wanted,   \* len, what is left to copy; 0: no copy is running
  request,  \* history: what the copy began with: [from, source, len]
  ret       \* how the last call ended

memVars  == <<buffer, limit, position, grow>>
copyVars == <<source, wanted, request>>
memStreamVars == <<memVars, out, copyVars, ret>>

NoRequest == [from |-> 0, source |-> <<>>, len |-> 0]
Contents == SubSeq(buffer, 1, limit)
Strings(n) == UNION {[1..k -> Bytes] : k \in 0..n}

\* mz_stream_mem_open: with mz_stream_mem_set_buffer before it, or with a grow size
\* and MZ_OPEN_MODE_CREATE.
InitMem(len) ==
  /\ \/ buffer \in Strings(len) /\ limit = Len(buffer) /\ grow = 0
     \/ \E g \in GrowSizes : buffer = [i \in 1..g |-> Junk] /\ limit = 0 /\ grow = g
  /\ position = 0
  /\ out = <<>> /\ source = <<>> /\ wanted = 0 /\ ret = "ok"
  /\ request = NoRequest

\* mz_stream_mem_read.
Readable(n) == Least(n, Least(Len(buffer), limit) - position)
Read(n) ==
  /\ wanted = 0
  /\ out' = SubSeq(buffer, position + 1, position + Readable(n))
  /\ position' = position + Readable(n) /\ ret' = "ok"
  /\ UNCHANGED <<buffer, limit, grow, copyVars>>

\* mz_stream_mem_set_size keeps what is there; the rest is not initialised.
Sized(n) == [i \in 1..n |-> IF i <= Len(buffer) THEN buffer[i] ELSE Junk]

\* By how much mz_stream_mem_write lets the buffer grow.
Grown(n) == Len(buffer) + (IF n < grow THEN grow ELSE n)

\* The end of the contents after a write up to p.  Mutant: it moves back as well.
LimitBack(p)  == p
LimitAfter(p) == IF p > limit THEN p ELSE limit

\* mz_stream_mem_write: how much it takes of d.  A caller's buffer does not grow.
Room(d)  == IF Len(d) <= Len(buffer) - position \/ grow = 0 THEN buffer ELSE Sized(Grown(Len(d)))
Takes(d) == Least(Len(d), Len(Room(d)) - position)
Wrote(d) ==
  /\ buffer' = Overlay(Room(d), position, SubSeq(d, 1, Takes(d)))
  /\ position' = position + Takes(d) /\ limit' = LimitAfter(position + Takes(d))
  /\ UNCHANGED grow

Write(d) ==
  /\ wanted = 0 /\ (position + Len(d) <= MaxLen \/ grow = 0)
  /\ Wrote(d) /\ ret' = IF Takes(d) = Len(d) THEN "ok" ELSE "short"
  /\ UNCHANGED <<out, copyVars>>

\* mz_stream_mem_seek; every caller stays below the limit.
SeekSet(p) ==
  /\ wanted = 0 /\ position' = p /\ ret' = "ok"
  /\ UNCHANGED <<buffer, limit, grow, out, copyVars>>

\* mz_zip_writer_zip_cd empties the directory's stream: a seek to 0, then
\* mz_stream_mem_set_buffer_limit.
Empty ==
  /\ wanted = 0 /\ limit' = 0 /\ position' = 0 /\ ret' = "ok"
  /\ UNCHANGED <<buffer, grow, out, copyVars>>

\* mz_stream_copy of len bytes from a stream that has s left.
CopyCall(s, len) ==
  /\ wanted = 0 /\ (position + len <= MaxLen \/ grow = 0)
  /\ source' = s /\ wanted' = len
  /\ request' = [from |-> position, source |-> s, len |-> len]
  /\ UNCHANGED <<memVars, out, ret>>

\* One turn of its loop: a buffer is read and written; it fails when the source ends early or
\* the target takes less.  Mutant: an early end is no error.
EarlyEndIsOk == "ok"
EarlyEnd     == "error"
CopyLoop ==
  LET chunk == SubSeq(source, 1, Least(Least(wanted, CopySize), Len(source))) IN
  /\ wanted > 0
  /\ \/ chunk = <<>> /\ wanted' = 0 /\ ret' = EarlyEnd /\ UNCHANGED memVars
     \/ /\ chunk # <<>> /\ Wrote(chunk)
        /\ IF Takes(chunk) < Len(chunk)
           THEN wanted' = 0 /\ ret' = "error"
           ELSE wanted' = wanted - Len(chunk) /\ ret' = "ok"
  /\ source' = IF wanted' = 0 THEN <<>> ELSE SubSeq(source, Len(chunk) + 1, Len(source))
  /\ request' = IF wanted' = 0 THEN NoRequest ELSE request
  /\ UNCHANGED out

NextMem ==
  /\ limit <= MaxLen
  /\ \/ \E n \in 1..MaxIO : Read(n)
     \/ \E d \in Strings(MaxIO) : Write(d)
     \/ \E p \in 0..limit : SeekSet(p)
     \/ Empty
     \/ \E s \in Strings(MaxIO + 1), len \in 1..MaxIO : CopyCall(s, len)
     \/ CopyLoop

-----------------------------------------------------------------------------
(* Properties *)

\* The limit, up to which a memory stream reads, stays inside its buffer, and the position
\* inside the limit, while writes grow the buffer and move both (mz_strm_mem.c:113-144).
MemOK ==
  /\ buffer \in Seq(Bytes \cup {Junk}) /\ limit <= Len(buffer) /\ position <= limit
  /\ wanted \in 0..MaxIO

\* Reads, writes, seeks and copies are those of a file: what was written is kept while the
\* buffer grows, nothing that was not written shows, and a buffer that is full takes less.
PlainFile ==
  INSTANCE File WITH contents <- Contents, at <- position, MaxPut <- MaxIO, call <- "none"
MemIsFile == []MemOK /\ PlainFile!Spec

\* A copy that succeeds has moved the first len bytes of its source, and one that fails had
\* too short a source or too small a target.
CopyIsExact ==
  [][ LET done == wanted > 0 /\ wanted' = 0 IN
      /\ done /\ ret' = "ok" =>
           /\ Len(request.source) >= request.len /\ position' = request.from + request.len
           /\ SubSeq(buffer', request.from + 1, position') = SubSeq(request.source, 1, request.len)
      /\ done /\ ret' = "error" =>
           \/ Len(request.source) < request.len
           \/ grow = 0 /\ Len(buffer) < request.from + request.len ]_copyVars

=============================================================================
