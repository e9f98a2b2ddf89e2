-------------------------------- MODULE OsStream --------------------------------
(***************************************************************************)
(* The streams at the bottom of every stack, which are files of the        *)
(* system: mz_strm_os_posix.c and mz_strm_os_wasm.c over the C library,    *)
(* mz_strm_os_win32.c over the system itself.  The library keeps what is   *)
(* written for a while, and the disk may be full when it writes it.        *)
(*                                                                         *)
(* want and at say what the file should hold, and where the caller is in   *)
(* it, when each call does what it says.                                   *)
(***************************************************************************)
EXTENDS Integers, Sequences, Overlays

CONSTANTS
  Nil,      \* no file
  Bytes,    \* what a file is made of
  Systems,  \* the systems: "posix", "wasm", "win32"
  Space,    \* what the disk takes
  MaxSize,  \* bound: bytes of a file, of which the disk may not take all
  MaxIO,    \* bound: bytes of one read or write
  Habits    \* what callers do besides, see OsHabits

OsHabits == {
  "append on wasm",   \* an archive is opened to be appended to
  "delete open"}      \* a stream is deleted while the library keeps something of it

ASSUME OsAssumption ==
  /\ Systems \subseteq {"posix", "wasm", "win32"} /\ Nil \notin Seq(Bytes)
  /\ MaxSize \in Nat /\ Space \in 0..MaxSize /\ MaxIO \in Nat
  /\ Habits \subseteq OsHabits

VARIABLES
  system,
  disk,     \* the file at the path, or Nil
  handle,   \* NoHandle, or how it is open
  pos,      \* where the system is in the file
  kept,     \* what the C library has not written yet
  failed,   \* some call has reported a failure
  last,     \* the result of the last call
  want, at  \* what the file should hold, and where the caller is in it

vars == <<system, disk, handle, pos, kept, failed, last, want, at>>
fileVars == <<disk, pos, kept>>
wantVars == <<want, at>>

Strings(n) == UNION {[1..k -> Bytes] : k \in 0..n}
NoHandle == [open |-> FALSE, reads |-> FALSE, writes |-> FALSE, appends |-> FALSE]
Handle(r, w, a) == [open |-> TRUE, reads |-> r, writes |-> w, appends |-> a]
NoResult == [op |-> "none"]
Says(op, err, bytes) == last' = [op |-> op, err |-> err, bytes |-> bytes]

Init ==
  /\ system \in Systems /\ disk \in {Nil} \cup Strings(Least(1, Space)) /\ handle = NoHandle
  /\ pos = 0 /\ kept = <<>> /\ failed = FALSE /\ last = NoResult
  /\ want = disk /\ at = 0

-----------------------------------------------------------------------------
(* The C library, and the system below it: external *)

Buffered == system # "win32"

\* Where a write begins.  A file that is open for appending is written at its end.
WriteAt == IF handle.appends THEN Len(disk) ELSE pos

\* s is written as far as it fits, and the position is behind it.
Flushed(s) ==
  LET start == WriteAt
      fits  == Least(Len(s), IF start > Space THEN 0 ELSE Space - start)
  IN [disk |-> IF fits = 0 THEN disk ELSE Overlay(disk, start, SubSeq(s, 1, fits)),
      pos |-> IF s = <<>> THEN pos ELSE start + fits, fits |-> fits, ok |-> fits = Len(s)]

-----------------------------------------------------------------------------
(* mz_stream_os_open *)

\* What the flags make of it: reading, creating (writing) or appending (reading and writing).
\* The WASM build takes each of the two bits of MZ_OPEN_MODE_READWRITE for both.
HandleOf(mode) ==
  CASE system = "posix" -> Handle(mode # "create", mode # "read", FALSE)
    [] system = "win32" -> Handle(TRUE, mode # "read", FALSE)
    [] system = "wasm"  -> Handle(TRUE, TRUE, mode = "append")
Creates(mode) == mode = "create"
MayBeMissing(mode) == mode = "create" \/ (system = "wasm" /\ mode = "append")
\* Where the stream is then: at the end, except in the WASM build.
OpenAt(mode) == IF mode = "append" /\ system # "wasm" THEN Len(disk) ELSE 0
Open(mode) ==
  /\ ~handle.open
  /\ (mode = "append" /\ system = "wasm") => "append on wasm" \in Habits
  /\ kept' = <<>> /\ UNCHANGED system
  /\ IF disk = Nil /\ ~MayBeMissing(mode)
     THEN /\ UNCHANGED <<handle, pos, disk>> /\ UNCHANGED <<wantVars, failed>>
          /\ last' = [op |-> "open", err |-> "open", bytes |-> <<>>, mode |-> mode]
     ELSE /\ handle' = HandleOf(mode) /\ failed' = FALSE
          /\ disk' = (IF Creates(mode) \/ disk = Nil THEN <<>> ELSE disk)
          /\ pos' = IF disk = Nil THEN 0 ELSE OpenAt(mode)
          /\ want' = (IF mode = "create" \/ disk = Nil THEN <<>> ELSE disk) /\ at' = pos'
          /\ last' = [op |-> "open", err |-> "ok", bytes |-> <<>>, mode |-> mode]

-----------------------------------------------------------------------------
(* Calls on an open stream *)

\* mz_stream_os_read: what is kept has been written, because callers seek in between.
Read(n) ==
  /\ handle.open /\ kept = <<>>
  /\ LET got == SubSeq(disk, pos + 1, Least(pos + n, Len(disk)))
     IN IF handle.reads
        THEN /\ pos' = pos + Len(got) /\ at' = at + Len(got)
             /\ Says("read", "ok", got) /\ UNCHANGED failed
        ELSE Says("read", "read", <<>>) /\ failed' = TRUE /\ UNCHANGED <<pos, at>>
  /\ UNCHANGED <<system, disk, handle, kept, want>>

\* mz_stream_os_write: fwrite keeps s, or writes it with all that is kept, and then the system
\* may tell that the disk is full; WriteFile writes it at once, and what it could not is the
\* difference of the result to what was asked for.
\* Mutant: what the system did not take is not looked at.
Unseen(w)  == "ok"
Outcome(w) == IF w.ok THEN "ok" ELSE "write"
WrittenOf(s, w) == IF w.ok \/ system = "win32" THEN SubSeq(s, 1, Least(Len(s), w.fits)) ELSE <<>>
Write(s) ==
  /\ handle.open /\ handle.writes /\ at + Len(s) <= MaxSize
  /\ at' = at + Len(s) /\ want' = Overlay(want, at, s)
  /\ \/ /\ Buffered /\ kept' = kept \o s /\ UNCHANGED <<disk, pos, failed>>
        /\ Says("write", "ok", s)
     \/ \E w \in {Flushed(kept \o s)} :
          /\ disk' = w.disk /\ pos' = w.pos /\ kept' = <<>>
          /\ Says("write", IF Buffered THEN Outcome(w) ELSE "ok", IF Buffered THEN s ELSE WrittenOf(s, w))
          /\ failed' = (failed \/ last'.err # "ok" \/ Len(last'.bytes) # Len(s))
  /\ UNCHANGED <<system, handle>>

\* mz_stream_os_seek: fseeko writes what is kept first.  Bound: seeks stay inside the file.
FlushAtSeek == Flushed(kept)
Target(origin, offset) ==
  CASE origin = "set" -> offset
    [] origin = "cur" -> at + offset
    [] origin = "end" -> Len(want) + offset
Reached(origin, offset) ==
  CASE origin = "set" -> offset
    [] origin = "cur" -> FlushAtSeek.pos + offset
    [] origin = "end" -> Len(FlushAtSeek.disk) + offset
Seek(origin, offset) ==
  /\ handle.open /\ ~failed /\ Target(origin, offset) \in 0..Len(want)
  /\ \E w \in {FlushAtSeek} :
       /\ disk' = w.disk /\ kept' = <<>>
       /\ IF w.ok THEN /\ pos' = Reached(origin, offset) /\ at' = Target(origin, offset)
                       /\ Says("seek", "ok", <<>>) /\ UNCHANGED failed
          ELSE pos' = w.pos /\ Says("seek", "seek", <<>>) /\ failed' = TRUE /\ UNCHANGED at
  /\ UNCHANGED <<system, handle, want>>

\* mz_stream_os_tell: with what is kept.
TellPos == IF handle.appends /\ kept # <<>> THEN Len(disk) + Len(kept) ELSE pos + Len(kept)
Tell ==
  /\ handle.open
  /\ last' = [op |-> "tell", err |-> "ok", bytes |-> <<>>, pos |-> TellPos]
  /\ UNCHANGED <<system, fileVars, handle, failed, wantVars>>

\* mz_stream_os_close: fclose writes what is kept, and closes whether it could or not.
\* Mutant: that it could not is not told.
CloseQuietly(w) == "ok"
CloseResult(w)  == IF w.ok THEN "ok" ELSE "close"
Close ==
  /\ handle.open
  /\ \E w \in {Flushed(kept)} :
       /\ disk' = w.disk /\ Says("close", CloseResult(w), <<>>)
       /\ failed' = (failed \/ CloseResult(w) # "ok")
  /\ handle' = NoHandle /\ kept' = <<>> /\ pos' = 0
  /\ UNCHANGED <<system, wantVars>>

\* mz_stream_os_delete, which closes only in the WASM build: elsewhere the handle is lost, and
\* with it what the library keeps.
Delete ==
  /\ handle.open /\ (kept # <<>> => "delete open" \in Habits)
  /\ disk' = IF system = "wasm" THEN Flushed(kept).disk ELSE disk
  /\ handle' = NoHandle /\ kept' = <<>> /\ pos' = 0 /\ Says("delete", "ok", <<>>)
  /\ UNCHANGED <<system, failed, wantVars>>

Next ==
  \/ \E mode \in {"read", "create", "append"} : Open(mode)
  \/ \E n \in 1..MaxIO : Read(n)
  \/ \E s \in Strings(MaxIO) \ {<<>>} : Write(s)
  \/ \E origin \in {"set", "cur", "end"}, o \in (-MaxSize)..MaxSize : Seek(origin, o)
  \/ Tell \/ Close \/ Delete

Spec == Init /\ [][Next]_vars

-----------------------------------------------------------------------------
(* Properties *)

\* The handle is what it was opened for, the library keeps nothing of a stream that is not open or
\* not written, and no system lets a file grow beyond the disk.
TypeOK ==
  /\ system \in Systems /\ failed \in BOOLEAN
  /\ disk \in {Nil} \cup Strings(Space)
  /\ handle.open => disk # Nil /\ pos \in 0..Len(disk)
  /\ kept # <<>> => handle.open /\ handle.writes /\ Buffered

\* Reads hand out the file from the caller's place on, and less than was asked for only at its end.
ReadsAreFile ==
  last.op = "read" /\ ~failed =>
    /\ at <= Len(want)
    /\ \A i \in DOMAIN last.bytes : last.bytes[i] = want[at - Len(last.bytes) + i]
    /\ last.bytes = <<>> => at = Len(want)

\* As long as no call has failed the stream is the file that the calls describe, whatever the
\* library keeps, and tell names the caller's place in it
\* (mz_strm_os_posix.c:129-184, mz_strm_os_win32.c:122-234, mz_strm_os_wasm.c:112-196).
StreamIsFile ==
  /\ TypeOK /\ ReadsAreFile
  /\ handle.open /\ ~failed => Overlay(disk, WriteAt, kept) = want /\ TellPos = at

\* A file whose writes, seeks and close all succeed holds everything that was written, and only
\* that, also when the disk is full (mz_strm_os_posix.c:186-199, mz_strm_os_wasm.c:198-218).
ClosedIsWritten == last.op \in {"close", "delete"} /\ ~failed => disk = want
================================================================================
