------------------------------ MODULE SplitStream ------------------------------
(***************************************************************************)
(* src/mz_strm_split.c: one stream over the parts of a split archive, used *)
(* the way mz_zip.c uses it: entries are written to the numbered parts,    *)
(* the directory to the file that bears the archive's name, and reads      *)
(* start where an entry's header says and cross from part to part.         *)
(*                                                                         *)
(* Positions count bytes, but the disk header counts for one.              *)
(***************************************************************************)
EXTENDS Integers, Sequences, SequencesExt, Overlays

CONSTANTS
  Bytes,      \* what entries are made of
  DiskHeader, \* MZ_ZIP_MAGIC_DISKHEADER, no entry's byte
  DiskSizes,  \* the sizes a writer may ask for; 0: do not split
  MaxBody,    \* bound: bytes in all entries
  MaxEntries, \* bound: entries
  MaxIO,      \* bound: size of one read, write or skip
  MaxWriters, \* bound: writing sessions
  Habits      \* "patch across parts": a header is patched on a part other than the
              \* one being written, as mz_zip.c:2195 does when an entry has no descriptor

Cd == -1
Closed == -2
Dir == "directory"  \* the directory and the end record, one cell

ASSUME SplitAssumption ==
  /\ DiskHeader \notin Bytes /\ Dir \notin Bytes /\ DiskSizes \subseteq Nat
  /\ {MaxBody, MaxEntries, MaxIO, MaxWriters} \subseteq Nat
  /\ Habits \subseteq {"patch across parts"}

VARIABLES
  files,   \* the parts that exist: part number -> contents; Cd is the archive's name
  split,   \* the fields of mz_stream_split
  call,    \* "none", or the call whose loop is running: "read", "write", "skip"
  left,    \* bytes_left of a read
  todo,    \* what a write has left to write
  got,     \* what the last read has handed out
  err,     \* how the last call ended
  entries, \* history: what was written, and the place of each byte: [disk, offset, data, cells]
  withCd,  \* disk_number_with_cd, in the end record
  cdAt,    \* where the directory begins in part Cd
  phase,   \* what the caller is doing
  cursor,  \* the entry being read and how much of it was read or skipped
  origin,  \* ... and where the last read began
  diskSize, \* what the archive's writers ask for
  lost,    \* history: a part was taken away
  writers  \* bound: sessions so far

callVars == <<call, left, todo, got, err>>
archive  == <<entries, withCd, cdAt, diskSize, lost, writers>>
vars == <<files, split, callVars, archive, phase, cursor, origin>>

-----------------------------------------------------------------------------
(* The calls.  f is files, s is split; a call yields both and an error. *)

\* The number of a part, or Cd: the name mz_stream_split_open_disk makes.
PathOf(s, n) == IF n >= 0 /\ (s.mode = "read" \/ s.diskSize > 0) THEN n ELSE Cd

\* Where a part that was opened stands: a writer that appends is at its end.  Mutant: at
\* its beginning.
StartFirst(mode, header, len) == IF header THEN len ELSE 0
Start(mode, header, len)      == IF mode = "append" \/ header THEN len ELSE 0

\* The parts with what a file holds that was opened.
WithPart(f, p, held) == [n \in DOMAIN f \cup {p} |-> IF n = p THEN held ELSE f[n]]

\* mz_stream_split_open_disk.  A writer that creates empties the file, any
\* other needs it.
OpenDisk(f, s, n) ==
  LET p      == PathOf(s, n)
      fails  == s.mode # "create" /\ p \notin DOMAIN f
      old    == IF s.mode = "create" THEN <<>> ELSE f[p]
      header == s.mode # "read" /\ n = 0 /\ s.diskSize > 0
      new    == IF header THEN Append(old, DiskHeader) ELSE old
      put    == IF header THEN 1 ELSE 0
      opened == [mode |-> s.mode, diskSize |-> s.diskSize, number |-> s.number, current |-> n,
                 base |-> p, out |-> s.out + put, outDisk |-> put,
                 pos |-> Start(s.mode, header, Len(new))]
  IN CASE fails -> [f |-> f, s |-> s, err |-> IF s.mode = "read" /\ p # Cd THEN "exist" ELSE "open"]
       [] ~fails /\ s.mode = "read" /\ n = 0 ->
            [f |-> f, s |-> [opened EXCEPT !.pos = Least(1, Len(old))],
             err |-> IF old # <<>> /\ Head(old) = DiskHeader THEN "ok" ELSE "format"]
       [] OTHER -> [f |-> WithPart(f, p, new), s |-> opened, err |-> "ok"]

\* mz_stream_split_goto_disk.
GotoDisk(f, s, n) ==
  IF s.diskSize = 0 /\ s.mode # "read"
  THEN IF s.base = Closed THEN OpenDisk(f, s, n) ELSE [f |-> f, s |-> s, err |-> "ok"]
  ELSE IF n = s.current /\ s.base # Closed THEN [f |-> f, s |-> s, err |-> "ok"]
  ELSE LET o == OpenDisk(f, [s EXCEPT !.base = Closed], n)
       IN IF o.err = "ok" THEN [o EXCEPT !.s.number = n] ELSE o

\* mz_stream_split_open.
Opened(f, mode, size) ==
  LET s == [mode |-> mode, diskSize |-> size, number |-> 0, out |-> 0, outDisk |-> 0,
            current |-> IF mode = "create" THEN -1 ELSE 0, base |-> Closed, pos |-> 0]
  IN GotoDisk(f, s, IF mode = "create" THEN 0 ELSE -1)

\* MZ_STREAM_PROP_DISK_NUMBER, and the tell or seek that every caller does next.
Located(f, s, n) == GotoDisk(f, [s EXCEPT !.number = n], n)

\* mz_stream_split_seek, MZ_SEEK_SET.
SeekSet(r, p) == IF r.err = "ok" THEN [f |-> r.f, s |-> [r.s EXCEPT !.pos = p], err |-> "ok"] ELSE r

Init ==
  /\ files = <<>> /\ split = [base |-> Closed]
  /\ call = "none" /\ left = 0 /\ todo = <<>> /\ got = <<>> /\ err = "ok"
  /\ entries = <<>> /\ withCd = 0 /\ cdAt = 0 /\ diskSize = 0 /\ lost = FALSE /\ writers = 0
  /\ phase = "closed" /\ cursor = <<0, 0>> /\ origin = 0

Result(r) == files' = r.f /\ split' = r.s /\ err' = r.err

-----------------------------------------------------------------------------
(* Writing *)

\* mz_zip_writer_open_file for a name that is new.
OpenCreate(size) ==
  /\ phase = "closed" /\ writers = 0 /\ writers' = 1
  /\ Result(Opened(files, "create", size))
  /\ phase' = "writing" /\ entries' = <<>> /\ withCd' = 0 /\ cdAt' = 0
  /\ diskSize' = size /\ lost' = FALSE
  /\ UNCHANGED <<call, left, todo, got, cursor, origin>>

\* ... and for one that exists: the directory is read (mz_zip_open) and will be written
\* over; the next entry goes to the part before it.
OpenAppend ==
  LET s == [Opened(files, "append", diskSize).s EXCEPT !.pos = cdAt]
  IN /\ phase = "closed" /\ 0 < writers /\ writers < MaxWriters /\ writers' = writers + 1 /\ ~lost
     /\ split' = [s EXCEPT !.number = IF withCd > 0 THEN withCd - 1 ELSE @]
     /\ phase' = "writing" /\ err' = "ok"
     /\ UNCHANGED <<files, call, left, todo, got, entries, withCd, cdAt, diskSize, lost, cursor, origin>>

\* mz_zip_entry_write_open asks on which disk and where the header will go.
\* Mutant: it remembers where the last part began.
EntryAtPart(s) == [data |-> <<>>, cells |-> <<>>, disk |-> s.number, offset |-> 0]
EntryAt(s)     == [data |-> <<>>, cells |-> <<>>, disk |-> s.number, offset |-> s.pos]
WriteOpen ==
  LET r == Located(files, split, split.number)
  IN /\ phase = "writing" /\ call = "none" /\ err = "ok" /\ Len(entries) < MaxEntries
     /\ Result(r)
     /\ entries' = IF r.err = "ok" THEN Append(entries, EntryAt(r.s)) ELSE entries
     /\ phase' = IF r.err = "ok" THEN "entry" ELSE "writing"
     /\ UNCHANGED <<call, left, todo, got, withCd, cdAt, diskSize, lost, writers, cursor, origin>>

Body == FlattenSeq([i \in DOMAIN entries |-> entries[i].data])

WriteCall(d) ==
  /\ phase = "entry" /\ call = "none" /\ err = "ok" /\ Len(Body) + Len(d) <= MaxBody
  /\ call' = "write" /\ todo' = d
  /\ UNCHANGED <<files, split, left, got, err, archive, phase, cursor, origin>>

\* One turn of the loop of mz_stream_split_write: go on to the next part when this
\* one is full, and write what fits.  Mutant: a part is full a byte later.
FullLate(s)  == s.outDisk > s.diskSize /\ s.out > 0
Full(s)      == s.outDisk = s.diskSize /\ s.out > 0
Fits(s, n)   == IF s.diskSize > 0 /\ s.number # Cd THEN Least(n, s.diskSize - s.outDisk) ELSE n
Grown(e, d, s) == [e EXCEPT !.data = @ \o d, !.cells = @ \o [i \in 1..Len(d) |-> <<s.base, s.pos + i>>]]
WriteLoop ==
  LET switch == split.diskSize > 0 /\ (Full(split) \/ (split.number = Cd /\ split.current # Cd))
      r == IF switch THEN GotoDisk(files, split, IF split.number = Cd THEN Cd ELSE split.current + 1)
           ELSE [f |-> files, s |-> split, err |-> "ok"]
      k == Fits(r.s, Len(todo))
      d == SubSeq(todo, 1, k)
  IN /\ call = "write" /\ err' = r.err
     /\ IF r.err = "ok"
        THEN /\ files' = [r.f EXCEPT ![r.s.base] = Overlay(@, r.s.pos, d)]
             /\ split' = [r.s EXCEPT !.pos = @ + k, !.outDisk = @ + k, !.out = Least(@ + k, 1)]
             /\ todo' = SubSeq(todo, k + 1, Len(todo))
             /\ call' = IF todo' = <<>> THEN "none" ELSE "write"
             /\ entries' = IF phase = "entry"
                           THEN [entries EXCEPT ![Len(entries)] = Grown(@, d, r.s)] ELSE entries
        ELSE files' = r.f /\ split' = r.s /\ call' = "none" /\ todo' = <<>> /\ UNCHANGED entries
     /\ UNCHANGED <<left, got, withCd, cdAt, diskSize, lost, writers, phase, cursor, origin>>

\* mz_zip_entry_write_close.  Without a descriptor it goes back to the local header
\* and patches it, a byte here, and returns to where it was.
WriteClose ==
  /\ phase = "entry" /\ call = "none" /\ phase' = "writing"
  /\ UNCHANGED <<files, split, callVars, archive, cursor, origin>>

PatchClose(b) ==
  LET e    == entries[Len(entries)]
      back == SeekSet(Located(files, split, e.disk), e.offset)
      file == [back.f EXCEPT ![back.s.base] = Overlay(@, back.s.pos, <<b>>)]
  IN /\ phase = "entry" /\ call = "none" /\ err = "ok" /\ e.data # <<>> /\ phase' = "writing"
     /\ \/ "patch across parts" \in Habits
        \/ split.number = e.disk /\ e.offset < split.pos
     /\ Result(SeekSet(Located(file, back.s, split.number), split.pos))
     /\ entries' = [entries EXCEPT ![Len(entries)].data[1] = b]
     /\ UNCHANGED <<call, left, todo, got, withCd, cdAt, diskSize, lost, writers, cursor, origin>>

\* mz_zip_write_cd turns to the directory and writes it.
DirectoryPart == Cd
DirectoryOpen ==
  LET with == split.number + (IF split.diskSize > 0 THEN 1 ELSE 0)
      r    == Located(files, split, DirectoryPart)
      at   == IF with > 0 /\ split.mode = "append" THEN SeekSet(r, 0) ELSE r
  IN /\ phase = "writing" /\ call = "none"
     /\ Result(at) /\ withCd' = with /\ cdAt' = at.s.pos /\ phase' = "directory"
     /\ call' = "write" /\ todo' = <<Dir>>
     /\ UNCHANGED <<left, got, entries, diskSize, lost, writers, cursor, origin>>

CloseWriter ==
  /\ phase = "directory" /\ call = "none" /\ phase' = "closed"
  /\ split' = [split EXCEPT !.base = Closed] /\ err' = "ok"
  /\ UNCHANGED <<files, call, left, todo, got, archive, cursor, origin>>

-----------------------------------------------------------------------------
(* Reading *)

OpenRead ==
  /\ phase = "closed" /\ writers > 0
  /\ Result(Opened(files, "read", 0)) /\ phase' = "reading" /\ cursor' = <<0, 0>>
  /\ UNCHANGED <<call, left, todo, got, archive, origin>>

\* mz_zip_entry_seek_local_header: the part an entry's header names, or the file with
\* the directory when that is the one.
DiskOf(e) == IF e.disk = withCd THEN Cd ELSE e.disk
SeekEntry(i) ==
  LET r == SeekSet(Located(files, split, DiskOf(entries[i])), entries[i].offset)
  IN /\ phase = "reading" /\ call = "none" /\ Result(r)
     /\ cursor' = IF r.err = "ok" THEN <<i, 0>> ELSE <<0, 0>>
     /\ got' = <<>> /\ origin' = 0
     /\ UNCHANGED <<call, left, todo, archive, phase>>

\* What is left of the entry that is being read; a caller asks for no more.
Unread == IF cursor[1] = 0 THEN 0 ELSE Len(entries[cursor[1]].data) - cursor[2]

ReadCall(n) ==
  LET r == GotoDisk(files, split, split.number)
  IN /\ phase = "reading" /\ call = "none" /\ err = "ok" /\ n <= Unread
     /\ Result(r) /\ call' = IF r.err = "ok" THEN "read" ELSE "none"
     /\ left' = n /\ got' = <<>> /\ origin' = cursor[2]
     /\ UNCHANGED <<todo, archive, phase, cursor>>

\* One turn of the loop of mz_stream_split_read: at the end of a part it hands out what
\* it has, and goes on to the next part in the call that follows.  A missing part is an error.
\* Mutant: it is the end.
MissingIsEnd(e) == "ok"
Missing(e) == e
ReadLoop ==
  LET file  == files[split.base]
      chunk == SubSeq(file, split.pos + 1, Least(split.pos + left, Len(file)))
      r     == GotoDisk(files, split, split.current + 1)
  IN /\ call = "read"
     /\ \/ /\ chunk # <<>>
           /\ split' = [split EXCEPT !.pos = @ + Len(chunk)] /\ err' = "ok"
           /\ left' = left - Len(chunk) /\ got' = got \o chunk
           /\ cursor' = <<cursor[1], cursor[2] + Len(chunk)>>
           /\ call' = IF left' = 0 THEN "none" ELSE "read"
        \/ /\ chunk = <<>> /\ (split.current < 0 \/ got # <<>>)
           /\ call' = "none" /\ UNCHANGED <<split, left, got, err, cursor>>
        \/ /\ chunk = <<>> /\ split.current >= 0 /\ got = <<>>
           /\ split' = IF r.err = "exist" THEN [r.s EXCEPT !.current = -1] ELSE r.s
           /\ err' = Missing(r.err) /\ call' = IF r.err = "ok" THEN "read" ELSE "none"
           /\ UNCHANGED <<left, got, cursor>>
     /\ UNCHANGED <<files, todo, archive, phase, origin>>

\* mz_stream_split_seek, MZ_SEEK_CUR, forward: over the ends of parts, one turn of its
\* loop each.
SkipCall(k) ==
  LET r == GotoDisk(files, split, split.number)
  IN /\ phase = "reading" /\ call = "none" /\ err = "ok" /\ k <= Unread
     /\ Result(r) /\ call' = IF r.err = "ok" THEN "skip" ELSE "none"
     /\ left' = k /\ got' = <<>>
     /\ cursor' = <<cursor[1], cursor[2] + k>> /\ origin' = cursor[2] + k
     /\ UNCHANGED <<todo, archive, phase>>

AfterPart(k, rest) == k - rest
SkipLoop ==
  LET rest == Len(files[split.base]) - split.pos
      r    == GotoDisk(files, split, split.current + 1)
  IN /\ call = "skip"
     /\ \/ /\ split.number # Cd /\ left > rest
           /\ split' = r.s /\ err' = r.err
           /\ left' = AfterPart(left, rest) /\ call' = IF r.err = "ok" THEN "skip" ELSE "none"
        \/ /\ split.number = Cd \/ left <= rest
           /\ split' = [split EXCEPT !.pos = @ + left]
           /\ call' = "none" /\ UNCHANGED <<left, err>>
     /\ UNCHANGED <<files, todo, got, archive, phase, cursor, origin>>

CloseReader ==
  /\ phase = "reading" /\ call = "none" /\ phase' = "closed"
  /\ split' = [split EXCEPT !.base = Closed] /\ err' = "ok" /\ got' = <<>> /\ cursor' = <<0, 0>>
  /\ UNCHANGED <<files, call, left, todo, archive, origin>>

\* Environment: a part is not at hand.
Lose(n) ==
  /\ phase = "closed" /\ n \in DOMAIN files \ {Cd}
  /\ files' = [m \in DOMAIN files \ {n} |-> files[m]] /\ lost' = TRUE
  /\ UNCHANGED <<split, callVars, entries, withCd, cdAt, diskSize, writers, phase, cursor, origin>>

Strings(n) == UNION {[1..k -> Bytes] : k \in 1..n}

Next ==
  \/ \E size \in DiskSizes : OpenCreate(size)
  \/ OpenAppend
  \/ WriteOpen
  \/ \E d \in Strings(MaxIO) : WriteCall(d)
  \/ WriteLoop
  \/ WriteClose
  \/ \E b \in Bytes : PatchClose(b)
  \/ DirectoryOpen
  \/ CloseWriter
  \/ OpenRead
  \/ \E i \in DOMAIN entries : SeekEntry(i)
  \/ \E n \in 1..MaxIO : ReadCall(n)
  \/ ReadLoop
  \/ \E k \in 1..MaxIO : SkipCall(k)
  \/ SkipLoop
  \/ CloseReader
  \/ \E n \in DOMAIN files : Lose(n)

\* A running call comes to its end: nothing in its loop waits.
Spec ==
  Init /\ [][Next]_vars /\ WF_vars(WriteLoop) /\ WF_vars(ReadLoop) /\ WF_vars(SkipLoop)

-----------------------------------------------------------------------------
(* Properties *)

\* The open part exists, its position lies inside it, and only the errors that a missing
\* part causes occur: mz_stream_split_goto_disk never leaves a position of another part.
TypeOK ==
  /\ DOMAIN files \subseteq -1..(MaxBody + 1)
  /\ \A n \in DOMAIN files : files[n] \in Seq(Bytes \cup {DiskHeader, Dir})
  /\ split.base = Closed \/ (split.base \in DOMAIN files /\ split.pos \in 0..Len(files[split.base]))
  /\ call \in {"none", "read", "write", "skip"}
  /\ err \in {"ok", "exist", "open"}
  /\ phase \in {"closed", "writing", "entry", "directory", "reading"}

\* A writer that made the archive has filled every part but the last, and overfilled none.
PartsAreFull ==
  writers = 1 /\ diskSize > 0 =>
    \A n \in DOMAIN files \ {Cd} :
      /\ Len(files[n]) <= diskSize
      /\ n + 1 \in DOMAIN files => Len(files[n]) = diskSize

\* The parts are well formed and full, and one after the other they hold the entries and nothing
\* else of them, whatever the sizes of the writes were: mz_stream_split_write switches parts at
\* the right byte.
PartsHoldEntries ==
  LET parts == FlattenSeq([n \in 1..(MaxBody + 2) |->
                 IF n - 2 \in DOMAIN files THEN files[n - 2] ELSE <<>>])
  IN /\ TypeOK /\ PartsAreFull
     /\ ~lost => SelectSeq(parts, LAMBDA b : b \in Bytes) = Body

\* What is read from an entry is what was written to it, across parts and after skips; an
\* offset noted at the very end of a part leads to the beginning of the next; and as long as no
\* part is missing, reads and skips succeed.
ReadIsEntry ==
  /\ cursor[1] # 0 =>
       got = SubSeq(entries[cursor[1]].data, origin + 1, origin + Len(got))
  /\ phase = "reading" /\ ~lost => err = "ok"

\* An entry that is cut off by a missing part is never taken for a shorter one: a read that
\* hands out nothing fails.
NoSilentEnd == [][ReadLoop /\ call' = "none" /\ err' = "ok" => got' # <<>>]_vars

\* Every call returns.
CallsReturn == call # "none" ~> call = "none"
=============================================================================
