------------------------------ MODULE ZipArchive ------------------------------
(***************************************************************************)
(* The mz_zip handle of src/mz_zip.c on one single-disk stream: creating,  *)
(* appending to and reading a zip archive, and the process dying between   *)
(* two writes.                                                             *)
(*                                                                         *)
(* The archive file is a sequence of CELLS, one per record of the format:  *)
(* a local header, one chunk of (stored) entry data, a data descriptor, a  *)
(* central directory header, an end of central directory record.  A stream *)
(* position counts cells, and every record is one cell long, so writing a  *)
(* record over an old one destroys exactly that one.  A CRC is the content *)
(* it was computed from: two contents with one CRC-32 are not modelled.    *)
(*                                                                         *)
(* The handle is created for each open and deleted after each close, as    *)
(* mz_zip_rw.c and compat/ do, so a closed handle has no state.            *)
(***************************************************************************)
EXTENDS Integers, Sequences, FiniteSets

CONSTANTS
  Names,        \* entry names
  Chunks,       \* units of entry data
  Junk,         \* what reading a cell that is not data yields
  NoName,       \* file_info.filename of a zeroed file_info
  Capacity,     \* bound: cells of the file
  MaxData,      \* bound: chunks written to one entry
  MaxEntries,   \* bound: entries closed since the archive was created
  MaxStub,      \* bound: cells a user puts in front of the archive
  U32,          \* UINT32_MAX, in cells
  Declared,     \* values of file_info.uncompressed_size given to write_open
  Zip64Modes,   \* values of file_info.zip64 given to write_open
  Descriptors,  \* values of zip->data_descriptor
  CrashModes,   \* the sessions the process may die in
  CallerHabits  \* what callers do that the handle allows and does not expect

Zip64Auto    == "auto"     \* MZ_ZIP64_AUTO
Zip64Disable == "disable"  \* MZ_ZIP64_DISABLE

ASSUME ConstantsAssumption ==
  /\ Junk \notin Chunks /\ NoName \notin Names
  /\ Capacity \in Nat \ {0} /\ MaxData \in Nat
  /\ MaxEntries \in Nat /\ MaxStub \in Nat
  /\ U32 \in Nat /\ U32 > MaxData
  /\ Declared \subseteq 0..MaxData
  /\ Zip64Modes \subseteq {Zip64Auto, Zip64Disable}
  /\ Descriptors \subseteq BOOLEAN
  /\ CrashModes \subseteq {"write", "append"}
  /\ CallerHabits \subseteq {"goto while appending", "append to a prefixed archive"}

VARIABLES
  file,         \* the cells of the archive file; Hole from flen on
  flen,         \* the length of the file
  mode,         \* "none" between sessions, else zip->open_mode
  pos,          \* position of zip->stream
  cdMem,        \* zip->cd_mem_stream: the directory being built in memory
  cdMemPos,     \* its position
  cdInMem,      \* zip->cd_stream = zip->cd_mem_stream
  numberEntry,  \* zip->number_entry
  cdStart,      \* zip->cd_start_pos
  cdSize,       \* zip->cd_size
  cdCur,        \* zip->cd_current_pos
  shift,        \* zip->disk_offset_shift
  info,         \* zip->file_info
  scanned,      \* zip->entry_scanned
  opened,       \* zip->entry_opened
  crc,          \* what went through the entry's streams: entry_crc32, totals
  ret,          \* result of the last call
  (* history *)
  entries,      \* what the archive should hold: the entries added and closed
  committed,    \* what it held when a session last reached the end of its close
  health,       \* "good", "crashed" when a writing session did not reach the end
                \* of its close, "reused" when one appended after that
  stub          \* cells put in front of the archive

fileVars  == <<file, flen>>
dirVars   == <<cdMem, cdMemPos, cdInMem, numberEntry, cdStart, cdSize, shift>>
entryVars == <<info, scanned, opened, crc>>
ghostVars == <<entries, committed, health, stub>>
vars == <<fileVars, mode, pos, dirVars, cdCur, entryVars, ret, ghostVars>>

Good == health = "good"
Died == IF Good THEN "crashed" ELSE health

-----------------------------------------------------------------------------
(* The records of the format *)

Pos == 0..(Capacity - 1)
Hole == [t |-> "hole"]
DataCell(c) == [t |-> "data", v |-> c]
LocalHeader(i, z) ==
  [t |-> "local", name |-> i.name, dd |-> i.dd, z64 |-> z,
   crc |-> i.crc, csize |-> i.csize, usize |-> i.usize]
Descriptor(z, c, n) ==
  [t |-> "descriptor", z64 |-> z, crc |-> c, csize |-> n, usize |-> n]
\* Mutant: the header holds what was known when the entry was opened.
CentralHeaderAtOpen(i) ==
  [t |-> "central", name |-> i.name, dd |-> i.dd,
   crc |-> <<>>, csize |-> 0, usize |-> i.usize, off |-> i.off]
CentralHeader(i) ==
  [t |-> "central", name |-> i.name, dd |-> i.dd,
   crc |-> i.crc, csize |-> i.csize, usize |-> i.usize, off |-> i.off]
EndRecord(n, s, o) == [t |-> "end", number |-> n, size |-> s, off |-> o]

Content == Seq(Chunks \cup {Junk})
Cell ==
  {Hole} \cup [t : {"data"}, v : Chunks]
  \cup [t : {"local"}, name : Names, dd : BOOLEAN, z64 : BOOLEAN,
        crc : Content, csize : Nat, usize : Nat]
  \cup [t : {"descriptor"}, z64 : BOOLEAN, crc : Content,
        csize : Nat, usize : Nat]
  \cup [t : {"central"}, name : Names, dd : BOOLEAN, crc : Content,
        csize : Nat, usize : Nat, off : Nat]
  \cup [t : {"end"}, number : Nat, size : Nat, off : Nat]

Entry == [name : Names, data : Content]

\* file_info: a zeroed one, one read from a directory header.
NoInfo == [name |-> NoName, dd |-> FALSE, zip64 |-> Zip64Auto,
           crc |-> <<>>, csize |-> 0, usize |-> 0, off |-> 0]
InfoOf(c) == [name |-> c.name, dd |-> c.dd, zip64 |-> Zip64Auto,
              crc |-> c.crc, csize |-> c.csize, usize |-> c.usize, off |-> c.off]
Info == [name : Names \cup {NoName}, dd : BOOLEAN,
         zip64 : {Zip64Auto, Zip64Disable},
         crc : Content, csize : Nat, usize : Nat, off : Nat]

\* The cell at position p of a file f of length n: a Hole reads as end of stream.
At(f, n, p) == IF p \in 0..(n - 1) THEN f[p] ELSE Hole
Payload(c) == IF c.t = "data" THEN c.v ELSE Junk
Larger(a, b) == IF a >= b THEN a ELSE b

-----------------------------------------------------------------------------
(* mz_zip_read_cd *)

Ends(f, n) == {p \in 0..(n - 1) : f[p].t = "end"}
LastEnds(f, n) == {p \in Ends(f, n) : \A q \in Ends(f, n) : q <= p}

\* How far the offsets in the directory are short, and a mutant that never is.
UnshiftedOffsets(found, said) == 0
ShiftOf(found, said) == found - said

\* Where the directory was looked for and what was found: the offset the end
\* record names, else the cells just before the end record.
DirectoryAt(f, n, p) ==
  LET e == f[p]
      back == p - e.size
      named == At(f, n, e.off).t
      behind == At(f, n, back).t
  IN IF named \in {"central", "hole"} THEN [off |-> e.off, sig |-> named, shift |-> 0]
     ELSE IF behind = "central"
     THEN [off |-> back, sig |-> behind, shift |-> ShiftOf(back, e.off)]
     ELSE [off |-> e.off, sig |-> behind, shift |-> 0]

NoDirectory == [ok |-> FALSE, number |-> 0, off |-> 0, size |-> 0,
                sig |-> "none", shift |-> 0]
ReadCd(f, n) ==
  IF LastEnds(f, n) = {} THEN NoDirectory
  ELSE LET p == CHOOSE q \in LastEnds(f, n) : TRUE
           e == f[p]
           d == DirectoryAt(f, n, p)
       IN [ok     |-> d.sig # "hole" /\ d.off <= p,
           number |-> e.number,
           off    |-> d.off,
           size   |-> IF p < d.off + e.size THEN p - d.off ELSE e.size,
           sig    |-> d.sig,
           shift  |-> d.shift]

-----------------------------------------------------------------------------
(* mz_zip_open and mz_zip_close *)

Init ==
  /\ file = [p \in Pos |-> Hole] /\ flen = 0
  /\ mode = "none" /\ pos = 0
  /\ cdMem = <<>> /\ cdMemPos = 0 /\ cdInMem = FALSE
  /\ numberEntry = 0 /\ cdStart = 0 /\ cdSize = 0 /\ cdCur = 0 /\ shift = 0
  /\ info = NoInfo /\ scanned = FALSE /\ opened = FALSE /\ crc = <<>>
  /\ ret = "OK"
  /\ entries = <<>> /\ committed = <<>> /\ health = "crashed" /\ stub = 0

\* The handle's state of mz_zip_create, on which an open starts.
FreshEntry == info' = NoInfo /\ scanned' = FALSE /\ opened' = FALSE /\ crc' = <<>>
FreshHandle ==
  /\ mode' = "none" /\ pos' = 0
  /\ cdMem' = <<>> /\ cdMemPos' = 0 /\ cdInMem' = FALSE
  /\ numberEntry' = 0 /\ cdStart' = 0 /\ cdSize' = 0 /\ cdCur' = 0 /\ shift' = 0
  /\ FreshEntry

\* MZ_OPEN_MODE_WRITE | MZ_OPEN_MODE_CREATE on a stream opened the same way,
\* which empties the file.
ZipOpenCreate ==
  /\ mode = "none"
  /\ file' = [p \in Pos |-> Hole] /\ flen' = 0
  /\ mode' = "write" /\ cdInMem' = TRUE /\ ret' = "OK"
  /\ entries' = <<>> /\ committed' = <<>> /\ health' = "good" /\ stub' = 0
  /\ UNCHANGED <<pos, cdMem, cdMemPos, numberEntry, cdStart, cdSize, cdCur,
                 shift, entryVars>>

\* Where an appending session begins to write; mutant: it does not seek.
AppendAtStart(d) == 0
AppendAt(d) == IF d.size > 0 \/ d.sig = "end" THEN d.off ELSE flen

\* MZ_OPEN_MODE_READWRITE | MZ_OPEN_MODE_APPEND: the directory moves to memory
\* and the stream to where it began, so that the next write overwrites it.
ZipOpenAppend ==
  LET d == ReadCd(file, flen) IN
  /\ mode = "none"
  /\ stub = 0 \/ "append to a prefixed archive" \in CallerHabits
  /\ IF d.ok
     THEN /\ mode' = "append" /\ cdInMem' = TRUE /\ ret' = "OK"
          /\ cdMem' = [i \in 1..d.size |-> file[d.off + i - 1]]
          /\ cdMemPos' = d.size
          /\ pos' = AppendAt(d)
          /\ numberEntry' = d.number /\ cdSize' = d.size /\ shift' = d.shift
     ELSE /\ ret' = "FORMAT"
          /\ UNCHANGED <<mode, cdInMem, cdMem, cdMemPos, pos, numberEntry,
                         cdSize, shift>>
  /\ health' = IF d.ok /\ ~Good THEN "reused" ELSE health
  /\ UNCHANGED <<fileVars, cdStart, cdCur, entryVars, entries, committed, stub>>

\* MZ_OPEN_MODE_READ.
ZipOpenRead ==
  LET d == ReadCd(file, flen) IN
  /\ mode = "none"
  /\ IF d.ok
     THEN /\ mode' = "read" /\ ret' = "OK"
          /\ numberEntry' = d.number /\ cdSize' = d.size /\ shift' = d.shift
          /\ cdStart' = d.off
     ELSE ret' = "FORMAT"
          /\ UNCHANGED <<mode, numberEntry, cdSize, shift, cdStart>>
  /\ UNCHANGED <<fileVars, pos, cdMem, cdMemPos, cdInMem, cdCur, entryVars,
                 ghostVars>>

-----------------------------------------------------------------------------
(* Writing an entry *)

Writing == mode \in {"write", "append"}

\* mz_zip_entry_needs_zip64 for a local header: a size not known in advance
\* takes the 64-bit format, unless the caller disabled it.
LocalZip64(i) == i.zip64 = Zip64Auto /\ i.usize = 0
\* ... and for a directory header: MZ_PARAM_ERROR when it is disabled and needed.
CentralHeaderFails(i) == i.zip64 = Zip64Disable /\ i.off >= U32

\* A record written at position p of the directory's memory stream; mutant: the
\* stream does not grow.
PutAtFull(s, p, c) == IF p = Len(s) THEN s ELSE [s EXCEPT ![p + 1] = c]
PutAt(s, p, c) == IF p = Len(s) THEN Append(s, c) ELSE [s EXCEPT ![p + 1] = c]

\* mz_zip_entry_write_close of the open entry.  What the entry's streams counted
\* is what its records get; the position after it is behind the descriptor, or
\* where it was before the local header was filled in.  Mutant: the stream stays at
\* the filled in header.
FinalInfo ==
  [info EXCEPT !.crc = crc, !.csize = Len(crc), !.usize = Len(crc)]
ClosedPosAtHeader == IF info.dd THEN pos + 1 ELSE info.off + 1
ClosedPos == IF info.dd THEN pos + 1 ELSE pos
ClosedFile ==
  IF info.dd
  THEN [file EXCEPT ![pos] = Descriptor(LocalZip64(info), crc, Len(crc))]
  ELSE IF CentralHeaderFails(info) THEN file
  ELSE [file EXCEPT ![info.off] = LocalHeader(FinalInfo, LocalZip64(info))]

\* The state of the archive once the entry that may be open is closed, as the calls
\* that close it first go on from there.  number_entry grows whatever happened.
Settled ==
  LET fails == CentralHeaderFails(info) IN
  IF ~opened
  THEN [ok |-> TRUE, file |-> file, flen |-> flen, pos |-> pos, cdMem |-> cdMem,
        cdMemPos |-> cdMemPos, number |-> numberEntry, info |-> info,
        entries |-> entries]
  ELSE [ok       |-> ~fails,
        file     |-> ClosedFile,
        flen     |-> Larger(flen, ClosedPos),
        pos      |-> ClosedPos,
        cdMem    |-> IF fails THEN cdMem
                     ELSE PutAt(cdMem, cdMemPos, CentralHeader(FinalInfo)),
        cdMemPos |-> IF fails THEN cdMemPos ELSE cdMemPos + 1,
        number   |-> numberEntry + 1,
        info     |-> FinalInfo,
        entries  |-> IF fails THEN entries
                     ELSE Append(entries, [name |-> info.name, data |-> crc])]

\* Bound: the file has room for k more cells and for what closing the archive
\* then still writes, the open entry's included.
Room(k) ==
  LET closing == IF opened THEN (IF info.dd THEN 2 ELSE 1) ELSE 0
  IN pos + k + closing + Len(cdMem) + 1 <= Capacity

EntryWriteClose ==
  /\ Writing /\ opened /\ Room(0)
  /\ LET s == Settled IN
     /\ file' = s.file /\ flen' = s.flen /\ pos' = s.pos
     /\ cdMem' = s.cdMem /\ cdMemPos' = s.cdMemPos /\ numberEntry' = s.number
     /\ info' = s.info /\ entries' = s.entries
     /\ ret' = IF s.ok THEN "OK" ELSE "PARAM"
  /\ opened' = FALSE /\ crc' = <<>>
  /\ UNCHANGED <<mode, cdInMem, cdStart, cdSize, cdCur, shift, scanned, committed,
                 health, stub>>

\* mz_zip_entry_write_open closes an entry left open, and gives up if that fails.
EntryWriteOpen(name, declared, z, dd) ==
  /\ Writing /\ Room(IF dd THEN 3 ELSE 2) /\ Len(Settled.entries) < MaxEntries
  /\ LET s == Settled
         i == [name |-> name, dd |-> dd, zip64 |-> z, crc |-> <<>>, csize |-> 0,
               usize |-> declared, off |-> s.pos]
     IN /\ IF s.ok
           THEN /\ file' = [s.file EXCEPT ![s.pos] = LocalHeader(i, LocalZip64(i))]
                /\ pos' = s.pos + 1 /\ flen' = Larger(s.flen, s.pos + 1)
                /\ info' = i /\ opened' = TRUE /\ ret' = "OK"
           ELSE /\ file' = s.file /\ pos' = s.pos /\ flen' = s.flen
                /\ info' = s.info /\ opened' = FALSE /\ ret' = "PARAM"
        /\ cdMem' = s.cdMem /\ cdMemPos' = s.cdMemPos /\ numberEntry' = s.number
        /\ entries' = s.entries
  /\ crc' = <<>>
  /\ UNCHANGED <<mode, cdInMem, cdStart, cdSize, cdCur, shift, scanned, committed,
                 health, stub>>

EntryWrite(c) ==
  /\ Writing /\ opened /\ Len(crc) < MaxData /\ Room(1)
  /\ file' = [file EXCEPT ![pos] = DataCell(c)]
  /\ pos' = pos + 1 /\ flen' = Larger(flen, pos + 1)
  /\ crc' = Append(crc, c) /\ ret' = "OK"
  /\ UNCHANGED <<mode, dirVars, cdCur, info, scanned, opened, ghostVars>>

\* mz_zip_write_cd: the directory's records and the end record, which is not
\* written for an archive that counts entries and has no directory.
\* Mutant: the end record comes first.
DirectoryEndFirst(s) ==
  IF s.cdMem = <<>> /\ s.number > 0 THEN <<>>
  ELSE <<EndRecord(s.number, Len(s.cdMem), s.pos)>> \o s.cdMem
DirectoryOf(s) ==
  IF s.cdMem = <<>> /\ s.number > 0 THEN <<>>
  ELSE Append(s.cdMem, EndRecord(s.number, Len(s.cdMem), s.pos))
Written(f, p, cells) ==
  [q \in Pos |-> IF q - p + 1 \in 1..Len(cells) THEN cells[q - p + 1] ELSE f[q]]

\* mz_zip_close of a writing session, and the close of its stream.
ZipCloseWrite ==
  /\ Writing /\ Room(0)
  /\ LET s == Settled
         cells == IF s.ok THEN DirectoryOf(s) ELSE <<>>
     IN /\ file' = Written(s.file, s.pos, cells)
        /\ flen' = Larger(s.flen, s.pos + Len(cells))
        /\ entries' = s.entries /\ health' = IF cells = <<>> THEN Died ELSE health
        /\ committed' = IF cells = <<>> \/ ~Good THEN committed ELSE s.entries
        /\ ret' = IF ~s.ok THEN "PARAM"
                  ELSE IF cells = <<>> THEN "FORMAT" ELSE "OK"
  /\ FreshHandle /\ UNCHANGED stub

-----------------------------------------------------------------------------
(* Moving between entries *)

\* Entries are looked at while reading; while appending only by callers that do so.
Looking ==
  mode = "read" \/ (mode = "append" /\ "goto while appending" \in CallerHabits)

CdCellAt(p) ==
  IF cdInMem THEN (IF p < Len(cdMem) THEN cdMem[p + 1] ELSE Hole)
  ELSE At(file, flen, p)
\* The record of cd_stream at position p; mutant: one record too far.
CdCellBehind(p) == CdCellAt(p + 1)
CdCell(p) == CdCellAt(p)

\* mz_zip_goto_next_entry_int: seek cd_stream to p and read a header there.
Goto(p) ==
  LET c == CdCell(p)
      after == IF c.t = "hole" THEN p ELSE p + 1
  IN /\ cdCur' = p
     /\ IF c.t = "central"
        THEN info' = InfoOf(c) /\ scanned' = TRUE /\ ret' = "OK"
        ELSE /\ info' = NoInfo /\ scanned' = FALSE
             /\ ret' = IF c.t \in {"hole", "end"} THEN "END_OF_LIST" ELSE "FORMAT"
     /\ IF cdInMem THEN cdMemPos' = after /\ UNCHANGED pos
        ELSE pos' = after /\ UNCHANGED cdMemPos
     /\ UNCHANGED <<fileVars, mode, cdMem, cdInMem, numberEntry, cdStart, cdSize,
                    shift, opened, crc, ghostVars>>

\* Callers close the entry they read before they move (mz_zip_rw.c does), and
\* stop at the first error of a walk.
\* Mutant: a header is stepped over twice.
GotoFirstEntry    == Looking /\ ~opened /\ Goto(cdStart)
GotoNextEntrySkip == Looking /\ ~opened /\ scanned /\ Goto(cdCur + 2)
GotoNextEntry     == Looking /\ ~opened /\ scanned /\ Goto(cdCur + 1)

\* mz_zip_goto_entry: back to a position mz_zip_get_entry returned.
GotoEntry(p) ==
  /\ Looking /\ ~opened
  /\ IF p < cdStart \/ p > cdStart + cdSize
     THEN ret' = "PARAM"
          /\ UNCHANGED <<fileVars, mode, pos, dirVars, cdCur, entryVars, ghostVars>>
     ELSE Goto(p)

\* The headers a walk from cdStart reads, up to the first that is not one.
Walk ==
  {p \in cdStart..(cdStart + Capacity) :
     \A q \in cdStart..p : CdCell(q).t = "central"}

\* Where a walk ends: the first position that is not a header's.
WalkEnd ==
  {p \in cdStart..(cdStart + Capacity + 1) :
     p \notin Walk /\ \A q \in cdStart..(p - 1) : q \in Walk}

\* mz_zip_locate_entry: stay on a current entry of that name, else walk from the
\* first entry to one, or to where the walk ends.
LocateEntry(name) ==
  LET matches == {p \in Walk : CdCell(p).name = name} IN
  /\ Looking /\ ~opened
  /\ \/ /\ scanned /\ info.name = name /\ ret' = "OK"
        /\ UNCHANGED <<fileVars, mode, pos, dirVars, cdCur, entryVars, ghostVars>>
     \/ /\ ~(scanned /\ info.name = name)
        /\ \/ \E p \in matches : (\A q \in matches : p <= q) /\ Goto(p)
           \/ matches = {} /\ \E p \in WalkEnd : Goto(p)

-----------------------------------------------------------------------------
(* Reading an entry *)

\* mz_zip_entry_seek_local_header; mutant: without the shift.
LocalAtUnshifted == info.off
LocalAt == info.off + shift

\* mz_zip_entry_read_open: seek to the local header, also without the shift.
EntryReadOpen ==
  LET shifted == At(file, flen, LocalAt).t = "local"
      plain == shift > 0 /\ At(file, flen, info.off).t = "local"
  IN /\ mode = "read" /\ scanned /\ ~opened
     /\ IF shifted \/ plain
        THEN /\ opened' = TRUE /\ crc' = <<>> /\ ret' = "OK"
             /\ pos' = (IF shifted THEN LocalAt ELSE info.off) + 1
             /\ shift' = IF shifted THEN shift ELSE 0
        ELSE /\ ret' = "FORMAT"
             /\ UNCHANGED <<opened, crc, pos, shift>>
     /\ UNCHANGED <<fileVars, mode, cdMem, cdMemPos, cdInMem, numberEntry, cdStart,
                    cdSize, cdCur, info, scanned, ghostVars>>

\* mz_zip_entry_read: the streams hand out at most compressed_size cells.
EntryRead ==
  /\ mode = "read" /\ opened
  /\ Len(crc) < info.csize /\ pos < flen
  /\ crc' = Append(crc, Payload(file[pos])) /\ pos' = pos + 1 /\ ret' = "OK"
  /\ UNCHANGED <<fileVars, mode, dirVars, cdCur, info, scanned, opened, ghostVars>>

\* mz_zip_entry_read_close: a caller that asks for the sizes (wanted) has them
\* read from the descriptor behind the data; the CRC is compared when all the
\* data was read.
\* Mutant: the local header is not stepped over.
DescriptorAtHeader == LocalAt + Len(crc)
DescriptorAt == LocalAt + 1 + Len(crc)
EntryReadClose(wanted) ==
  LET d == DescriptorAt
      missing == info.dd /\ wanted /\ At(file, flen, d).t # "descriptor"
  IN /\ mode = "read" /\ opened
     /\ opened' = FALSE /\ crc' = <<>>
     /\ pos' = IF ~(info.dd /\ wanted) THEN pos ELSE IF d < flen THEN d + 1 ELSE d
     /\ ret' = IF missing THEN "FORMAT"
               ELSE IF Len(crc) = info.csize /\ crc # info.crc THEN "CRC"
               ELSE "OK"
     /\ UNCHANGED <<fileVars, mode, dirVars, cdCur, info, scanned, ghostVars>>

\* mz_zip_close of a reading session, with the entry that may still be open.
ZipCloseRead ==
  /\ mode = "read"
  /\ ret' = IF opened /\ Len(crc) = info.csize /\ crc # info.crc THEN "CRC" ELSE "OK"
  /\ FreshHandle
  /\ UNCHANGED <<fileVars, ghostVars>>

-----------------------------------------------------------------------------
(* The environment *)

\* The process dies between two calls.
Crash ==
  /\ Writing /\ mode \in CrashModes
  /\ FreshHandle /\ health' = Died /\ ret' = "OK"
  /\ UNCHANGED <<fileVars, entries, committed, stub>>

\* ... or in mz_zip_close, after k records of the directory.
CrashInClose(k) ==
  /\ Writing /\ mode \in CrashModes /\ ~opened /\ Room(0)
  /\ k < Len(DirectoryOf(Settled))
  /\ file' = Written(file, pos, SubSeq(DirectoryOf(Settled), 1, k)) /\ flen' = Larger(flen, pos + k)
  /\ FreshHandle /\ health' = Died /\ ret' = "OK"
  /\ UNCHANGED <<entries, committed, stub>>

\* A user puts k cells of something else in front of a finished archive.
Prepend(k, c) ==
  /\ mode = "none" /\ Good /\ stub = 0 /\ flen + k <= Capacity
  /\ file' = [q \in Pos |-> IF q < k THEN DataCell(c)
                            ELSE At(file, flen, q - k)]
  /\ flen' = flen + k /\ stub' = k
  /\ UNCHANGED <<mode, pos, dirVars, cdCur, entryVars, ret, entries, committed, health>>

-----------------------------------------------------------------------------
WriteNext ==
  \/ ZipOpenCreate \/ ZipOpenAppend \/ ZipCloseWrite
  \/ \E n \in Names, u \in Declared, z \in Zip64Modes, d \in Descriptors :
        EntryWriteOpen(n, u, z, d)
  \/ \E c \in Chunks : EntryWrite(c)
  \/ EntryWriteClose

LookNext ==
  \/ GotoFirstEntry \/ GotoNextEntry
  \/ \E p \in Pos : GotoEntry(p)
  \/ \E n \in Names : LocateEntry(n)

ReadNext ==
  \/ ZipOpenRead \/ ZipCloseRead
  \/ EntryReadOpen \/ EntryRead \/ \E w \in BOOLEAN : EntryReadClose(w)

EnvNext ==
  \/ Crash
  \/ \E k \in 1..(Capacity - 1) : CrashInClose(k)
  \/ \E k \in 1..MaxStub, c \in Chunks : Prepend(k, c)

Next == WriteNext \/ LookNext \/ ReadNext \/ EnvNext

Spec == Init /\ [][Next]_vars

-----------------------------------------------------------------------------
(* Properties *)

\* Every variable has its type: the handle's counters stay inside the file.
TypeOK ==
  /\ file \in [Pos -> Cell] /\ flen \in 0..Capacity /\ pos \in Nat
  /\ mode \in {"none", "write", "append", "read"}
  /\ cdMem \in Seq(Cell) /\ cdMemPos \in 0..Len(cdMem) /\ cdInMem \in BOOLEAN
  /\ numberEntry \in Nat /\ cdStart \in Nat /\ cdSize \in Nat
  /\ cdCur \in Nat /\ shift \in Int
  /\ info \in Info /\ scanned \in BOOLEAN /\ opened \in BOOLEAN
  /\ crc \in Content
  /\ ret \in {"OK", "PARAM", "FORMAT", "CRC", "END_OF_LIST"}
  /\ health \in {"good", "crashed", "reused"} /\ stub \in 0..MaxStub
  /\ entries \in Seq(Entry) /\ committed \in Seq(Entry)

\* Directory header c of file f, whose offsets are sh short, describes entry e:
\* it points to a local header of that name, e's data follows, and either a
\* descriptor behind the data or the local header holds the CRC and the size.
Describes(f, c, sh, e) ==
  LET n == Len(e.data)
      p == c.off + sh
  IN /\ c.t = "central" /\ c.name = e.name /\ c.crc = e.data /\ c.csize = n
     /\ At(f, Capacity, p).t = "local" /\ At(f, Capacity, p).name = e.name
     /\ \A i \in 1..n : At(f, Capacity, p + i) = DataCell(e.data[i])
     /\ IF c.dd
        THEN /\ At(f, Capacity, p + n + 1).t = "descriptor"
             /\ At(f, Capacity, p + n + 1).crc = e.data
        ELSE At(f, Capacity, p).crc = e.data /\ At(f, Capacity, p).csize = n

\* While an archive is written, the directory in memory describes the entries
\* closed so far (and, when appending, all earlier ones), in order and nothing
\* else: no later write, patch of a local header or descriptor hit an entry.
DirectoryDescribesEntries ==
  Writing /\ Good =>
    /\ Len(cdMem) = Len(entries)
    /\ \A i \in 1..Len(entries) : Describes(file, cdMem[i], 0, entries[i])

\* A finished archive opens, is counted right, and its directory describes
\* exactly the entries added over all sessions, whatever was put in front of it.
FinishedArchiveOpens ==
  mode \in {"none", "read"} /\ Good =>
    LET d == ReadCd(file, flen) IN
    /\ d.ok /\ d.number = Len(entries) /\ d.size = Len(entries)
    /\ \A i \in 1..Len(entries) :
          Describes(file, file[d.off + i - 1], d.shift, entries[i])

\* Walking, jumping and locating: the current entry is the one the position
\* counts to.
CursorOnEntry ==
  mode = "read" /\ Good /\ scanned =>
    LET k == cdCur - cdStart + 1 IN
    /\ k \in 1..Len(entries)
    /\ info.name = entries[k].name /\ info.crc = entries[k].data

\* A walk ends behind the last entry only, never at an entry of an older directory
\* or inside one (an empty archive with something in front of it ends its walk with
\* a format error), and mz_zip_locate_entry finds an entry iff the archive has one
\* of that name.
WalkAndLocate ==
  [][ mode = "read" /\ Good =>
        /\ (stub = 0 \/ entries # <<>>) /\ (GotoFirstEntry \/ GotoNextEntry) /\ ret' # "OK" =>
             ret' = "END_OF_LIST" /\ cdCur' - cdStart = Len(entries)
        /\ \A n \in Names : LocateEntry(n) =>
             /\ (ret' = "OK") <=> (\E i \in 1..Len(entries) : entries[i].name = n)
             /\ ret' = "OK" => info'.name = n ]_vars

\* Every entry of a finished archive opens; reading it to its end yields what was
\* written; and closing it, with or without its descriptor, reports no error.
ReadYieldsWritten ==
  [][ Good =>
        /\ EntryReadOpen => ret' = "OK"
        /\ \A w \in BOOLEAN : EntryReadClose(w) /\ Len(crc) = info.csize =>
             ret' = "OK" /\ crc = entries[cdCur - cdStart + 1].data ]_vars

\* A session that dies leaves the local header, the data and the sizes of every
\* entry of the last finished archive in the file: it overwrites the directory only.
Survives(f, e) ==
  \E p \in Pos, dd \in BOOLEAN :
    LET n == Len(e.data) IN
    /\ f[p].t = "local" /\ f[p].name = e.name /\ f[p].dd = dd
    /\ \A i \in 1..n : At(f, Capacity, p + i) = DataCell(e.data[i])
    /\ IF dd THEN /\ At(f, Capacity, p + n + 1).t = "descriptor"
                  /\ At(f, Capacity, p + n + 1).crc = e.data
             ELSE f[p].crc = e.data /\ f[p].csize = n
CommittedDataSurvives ==
  \A i \in 1..Len(committed) : Survives(file, committed[i])

\* What opens without recovery after a crash is the last finished archive: a
\* session's own entries are counted only once its close has come to the end.
CrashedSessionIsInvisible ==
  mode = "read" /\ health = "crashed" => numberEntry = Len(committed)

\* After a crash, whatever an open without recovery still presents as an entry
\* and reads with a matching CRC is an entry that had been closed.
CrashForgesNothing ==
  [][ \A w \in BOOLEAN :
        ~Good /\ EntryReadClose(w) /\ ret' = "OK" /\ Len(crc) = info.csize =>
          \E i \in 1..Len(entries) :
             entries[i] = [name |-> info.name, data |-> crc] ]_vars
=============================================================================
