----------------------------- MODULE BufferedStream -----------------------------
(***************************************************************************)
(* src/mz_strm_buf.c: a read buffer and a write buffer over a file stream, *)
(* as the reader and the writer of mz_zip_rw.c put them under the archive. *)
(* One action is one call, or one turn of the loop of a read or a write.   *)
(*                                                                         *)
(* The file is open for reading and writing, as an appending writer has    *)
(* it; the base stream reads and writes what it is asked for, up to the    *)
(* end of the file.                                                        *)
(***************************************************************************)
EXTENDS Integers, Sequences, Overlays

CONSTANTS
  Bytes,    \* what a file is made of
  BufSize,  \* sizeof(readbuf), sizeof(writebuf)
  MaxLen,   \* bound: length of the file
  MaxIO,    \* bound: size of one read or write
  Habits    \* the seeks in use besides the plain ones: mz_zip.c:2106 may skip from an
            \* empty buffer, mz_zip.c:2218 past the write buffer, no caller the third

ASSUME BufferAssumption ==
  /\ BufSize \in Nat \ {0} /\ MaxLen \in Nat /\ MaxIO \in Nat
  /\ Habits \subseteq {"skip from an empty buffer", "skip past the write buffer",
                       "end inside the file"}

VARIABLES
  file,      \* the base stream's contents
  basePos,   \* ... and position
  readbuf,   \* readbuf[0 .. readbuf_len - 1]
  readPos,   \* readbuf_pos
  writebuf,  \* writebuf[0 .. writebuf_len - 1]
  writePos,  \* writebuf_pos
  position,  \* where the base stream is taken to be
  call,      \* "none", or the call whose loop is running: "read", "write"
  left,      \* bytes_left_to_read
  todo,      \* what a write has left to copy
  out,       \* what the last read has handed out
  ret        \* result of the last seek (0) or tell

bufVars  == <<readbuf, readPos, writebuf, writePos>>
callVars == <<call, left, todo, out>>
vars == <<file, basePos, bufVars, position, callVars, ret>>

\* The file and the position as the caller sees them.
Contents == Overlay(file, basePos, writebuf)
At == basePos - (Len(readbuf) - readPos) + writePos

\* An emptied buffer.
NoReadbuf  == readbuf' = <<>> /\ readPos' = 0
NoWritebuf == writebuf' = <<>> /\ writePos' = 0

-----------------------------------------------------------------------------
Init ==
  /\ file \in {<<>>} \cup [1..MaxLen -> Bytes] /\ basePos = 0
  /\ readbuf = <<>> /\ readPos = 0 /\ writebuf = <<>> /\ writePos = 0
  /\ position = 0
  /\ call = "none" /\ left = 0 /\ todo = <<>> /\ out = <<>> /\ ret = 0

\* mz_stream_buffered_flush, as the calls that use it go on from there.
Flushed    == Overlay(file, basePos, writebuf)
FlushedPos == basePos + Len(writebuf)

\* mz_stream_buffered_read: what was written goes to the file first.
ReadCall(n) ==
  /\ call = "none" /\ call' = "read" /\ left' = n /\ out' = <<>>
  /\ IF writebuf # <<>>
     THEN /\ file' = Flushed
          /\ position' = position + writePos /\ basePos' = position + writePos
          /\ NoReadbuf /\ NoWritebuf
     ELSE UNCHANGED <<file, basePos, position, bufVars>>
  /\ UNCHANGED <<todo, ret>>

\* When its loop ends, with n bytes left to read: at the end of the file, too.
\* Mutant: only when it has everything.
ReadDoneFull(n, empty, filled) == n = 0
ReadDone(n, empty, filled)     == n = 0 \/ (empty /\ filled = <<>>)

\* One turn of its loop: an exhausted buffer is filled from the file, behind what
\* it holds unless it is full, and what it then has left is handed out.
ReadLoop ==
  LET empty  == readPos = Len(readbuf)
      kept   == IF Len(readbuf) = BufSize THEN <<>> ELSE readbuf
      filled == SubSeq(file, basePos + 1, Least(basePos + BufSize, Len(file)))
      buf    == IF empty THEN kept \o filled ELSE readbuf
      from   == IF empty THEN Len(kept) ELSE readPos
      k      == Least(Len(buf) - from, left)
  IN /\ call = "read"
     /\ readbuf' = buf /\ readPos' = from + k
     /\ IF empty THEN /\ basePos' = basePos + Len(filled)
                      /\ position' = position + Len(filled)
        ELSE UNCHANGED <<basePos, position>>
     /\ out' = out \o SubSeq(buf, from + 1, from + k)
     /\ left' = left - k
     /\ call' = IF ReadDone(left', empty, filled) THEN "none" ELSE "read"
     /\ UNCHANGED <<file, writebuf, writePos, todo, ret>>

\* mz_stream_buffered_write: the base stream goes back to where the caller is.
\* Mutant: to where the read buffer ends.
BehindReadbuf == position
WriteFrom     == position - Len(readbuf) + readPos
WriteCall(d) ==
  /\ call = "none" /\ call' = "write" /\ todo' = d
  /\ At + Len(d) <= MaxLen
  /\ IF readbuf # <<>>
     THEN position' = WriteFrom /\ basePos' = WriteFrom /\ NoReadbuf
     ELSE UNCHANGED <<position, basePos, readbuf, readPos>>
  /\ UNCHANGED <<file, writebuf, writePos, left, out, ret>>

\* One turn of its loop: copy what fits behind writebuf_pos, flush when nothing does.
WriteLoop ==
  LET used == Least(Len(writebuf), writePos)
      k    == Least(BufSize - used, Len(todo))
  IN /\ call = "write"
     /\ IF k = 0
        THEN /\ file' = Flushed /\ basePos' = FlushedPos
             /\ position' = position + Len(writebuf) /\ NoWritebuf
             /\ UNCHANGED <<todo, call>>
        ELSE /\ writebuf' = Overlay(writebuf, writePos, SubSeq(todo, 1, k))
             /\ writePos' = writePos + k
             /\ todo' = SubSeq(todo, k + 1, Len(todo))
             /\ call' = IF todo' = <<>> THEN "none" ELSE "write"
             /\ UNCHANGED <<file, basePos, position>>
     /\ UNCHANGED <<readbuf, readPos, left, out, ret>>

\* mz_stream_buffered_tell believes the base stream.  Mutant: what is in the write
\* buffer is not counted.
TellUnwritten == basePos - (Len(readbuf) - readPos)
TellPos ==
  basePos - (IF readbuf # <<>> THEN Len(readbuf) - readPos ELSE 0)
          + (IF writebuf # <<>> THEN writePos ELSE 0)
Tell ==
  /\ call = "none" /\ position' = basePos /\ ret' = TellPos
  /\ UNCHANGED <<file, basePos, bufVars, callVars>>

\* mz_stream_buffered_seek, MZ_SEEK_SET: within a buffer only the buffer's position
\* moves.  Mutant: the byte just behind the read buffer is taken to be in it.
InReadbufToo(p) == readbuf # <<>> /\ p <= position + 1 /\ p >= position - Len(readbuf)
InReadbuf(p)  == readbuf # <<>> /\ p < position /\ p >= position - Len(readbuf)
InWritebuf(p) == writebuf # <<>> /\ p >= position /\ p <= position + Len(writebuf)
SeekSet(p) ==
  /\ call = "none" /\ ret' = 0
  /\ \/ /\ InReadbuf(p) /\ readPos' = p - (position - Len(readbuf))
        /\ UNCHANGED <<file, basePos, position, readbuf, writebuf, writePos>>
     \/ /\ ~InReadbuf(p) /\ InWritebuf(p) /\ writePos' = p - position
        /\ UNCHANGED <<file, basePos, position, readbuf, readPos, writebuf>>
     \/ /\ ~InReadbuf(p) /\ ~InWritebuf(p)
        /\ file' = Flushed /\ position' = p /\ basePos' = p /\ NoReadbuf /\ NoWritebuf
  /\ UNCHANGED callVars

\* MZ_SEEK_CUR, forward.  With both buffers empty position keeps its old value.
SeekCur(k) ==
  LET ahead == Len(readbuf) - readPos IN
  /\ call = "none" /\ ret' = 0
  /\ \/ /\ readbuf # <<>> /\ k <= ahead /\ readPos' = readPos + k
        /\ UNCHANGED <<file, basePos, position, readbuf, writebuf, writePos>>
     \/ /\ readbuf # <<>> /\ k > ahead
        /\ file' = Flushed /\ basePos' = basePos + (k - ahead)
        /\ position' = position + (k - ahead) /\ NoReadbuf /\ NoWritebuf
     \/ /\ readbuf = <<>> /\ writebuf # <<>> /\ k <= Len(writebuf) - writePos
        /\ writePos' = writePos + k
        /\ UNCHANGED <<file, basePos, position, readbuf, readPos, writebuf>>
     \/ /\ readbuf = <<>> /\ writebuf # <<>> /\ k > Len(writebuf) - writePos
        /\ "skip past the write buffer" \in Habits
        /\ file' = Flushed /\ basePos' = FlushedPos + k
        /\ position' = position + Len(writebuf) /\ NoReadbuf /\ NoWritebuf
     \/ /\ readbuf = <<>> /\ writebuf = <<>> /\ "skip from an empty buffer" \in Habits
        /\ basePos' = basePos + k /\ UNCHANGED <<file, position, bufVars>>
  /\ UNCHANGED callVars

\* MZ_SEEK_END with offset 0, and the tell that every caller in src/ does next.
SeekEnd ==
  /\ call = "none"
  /\ \/ /\ writebuf # <<>>
        /\ basePos + Len(writebuf) >= Len(file) \/ "end inside the file" \in Habits
        /\ writePos' = Len(writebuf) /\ position' = basePos
        /\ ret' = basePos + Len(writebuf) - (Len(readbuf) - readPos)
        /\ UNCHANGED <<file, basePos, readbuf, readPos, writebuf>>
     \/ /\ writebuf = <<>>
        /\ basePos' = Len(file) /\ position' = Len(file) /\ ret' = Len(file)
        /\ NoReadbuf /\ NoWritebuf /\ UNCHANGED file
  /\ UNCHANGED callVars

\* mz_stream_buffered_close, and an open of the file it leaves.
Close ==
  /\ call = "none"
  /\ file' = Flushed /\ basePos' = 0 /\ position' = 0
  /\ NoReadbuf /\ NoWritebuf /\ ret' = 0
  /\ UNCHANGED callVars

Next ==
  \/ \E n \in 1..MaxIO : ReadCall(n)
  \/ ReadLoop
  \/ \E n \in 1..MaxIO : \E d \in [1..n -> Bytes] : WriteCall(d)
  \/ WriteLoop
  \/ Tell
  \/ \E p \in 0..Len(Contents) : SeekSet(p)
  \/ \E k \in 0..(Len(Contents) - At) : SeekCur(k)
  \/ SeekEnd
  \/ Close

\* A running call comes to its end: nothing in its loop waits.
Spec == Init /\ [][Next]_vars /\ WF_vars(ReadLoop) /\ WF_vars(WriteLoop)

-----------------------------------------------------------------------------
(* Properties *)

\* The read buffer is never stale: it is what the file holds just before the base
\* stream's position, also after writes, seeks and flushes.
ReadbufIsFile ==
  /\ Len(readbuf) <= basePos
  /\ readbuf = SubSeq(file, basePos - Len(readbuf) + 1, basePos)

\* Only one buffer is in use, both hold what they may, what was read is the file's, and position
\* is where the base stream is: mz_stream_buffered_seek tests offsets against it.
BuffersOK ==
  /\ file \in Seq(Bytes) /\ Len(file) <= MaxLen
  /\ basePos \in 0..Len(file) /\ position = basePos
  /\ Len(readbuf) <= BufSize /\ readPos \in 0..Len(readbuf)
  /\ Len(writebuf) <= BufSize /\ writePos \in 0..Len(writebuf)
  /\ readbuf = <<>> \/ writebuf = <<>>
  /\ ReadbufIsFile
  /\ call \in {"none", "read", "write"}

\* Reads, writes, seeks and closes are those of the file without buffers.
Unbuffered == INSTANCE File WITH contents <- Contents, at <- At, MaxPut <- BufSize
ImplementsFile == Unbuffered!Spec

\* A seek lands, and a tell reports, where the file without buffers is; and a read that hands out
\* less than it was asked for has reached the end.
SeeksAndTells ==
  [][ /\ \A p \in 0..Len(Contents) : SeekSet(p) => At' = p
      /\ \A k \in 0..(Len(Contents) - At) : SeekCur(k) => At' = At + k
      /\ SeekEnd => At' = Len(Contents) /\ ret' = At'
      /\ Tell => ret' = At /\ At' = At
      /\ ReadLoop /\ call' = "none" /\ left' > 0 => At' = Len(Contents) ]_vars

\* Every read and write returns.
CallsReturn == call # "none" ~> call = "none"
=============================================================================
