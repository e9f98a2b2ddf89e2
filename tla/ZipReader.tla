------------------------------- MODULE ZipReader -------------------------------
(***************************************************************************)
(* The reader of src/mz_zip_rw.c: mz_zip_reader_* over a zip handle, whose *)
(* own protocol is module ZipArchive's.  Here an archive is the list of    *)
(* its entries, and an entry what a reader can tell about it; what matters *)
(* is which entry is open, how much of it was read, which hash runs along, *)
(* and what the files it is saved to hold in the end.                      *)
(***************************************************************************)
EXTENDS Integers, Sequences, SequencesExt

CONSTANTS
  Names,     \* names of entries
  Tokens,    \* units of their data
  CdName,    \* MZ_ZIP_CD_FILENAME
  Junk,      \* a token that is not what was written: damaged, or still encrypted
  Key,       \* the password of encrypted entries; Junk is a wrong one
  Nil,       \* NULL: no password, no hash, no entry
  Unknown,   \* a hash of an algorithm the library does not have
  ReaderOptions, \* bound: the settings of a reader: [pattern, password, raw]
  Habits     \* what callers do, see ReaderHabits and module ZipWriter

ReaderHabits == {
  "save again",        \* save an entry again after a save of it failed
  "set up at open"}    \* set a pattern, or raw, before the archive is opened

\* What data consist of, and the bodies of entries: packed data are a unit of their own.
\* A compressed directory consists of the names it lists.
Units == Tokens \cup Names \cup {CdName, Junk}
Data  == Seq(Units)
Body  == Seq(Units \cup Data)

ASSUME ReaderAssumption ==
  /\ {Nil, Unknown} \cap Body = {} /\ CdName \notin Names
  /\ ReaderOptions \subseteq [pattern : SUBSET (Names \cup {CdName}),
                             password : {Nil, Key, Junk}, raw : BOOLEAN]

VARIABLES
  archives, \* files with archives: path -> sequence of entries
  disk,     \* files entries are saved to: name -> tokens
  rd,       \* mz_zip_reader and its zip handle; opts are the settings
  job,      \* the save that is running, or NoJob
  kept,     \* history: names the overwrite callback kept
  last      \* history: the call that ended last: [op, err] or [op, err, entry, data]

readerVars == <<disk, rd, job, kept, last>>

Put(f, x, v) == [y \in DOMAIN f \cup {x} |-> IF y = x THEN v ELSE f[y]]

NoEntry  == [i |-> 0]
NoJob    == [op |-> "none"]
NoOptions == [pattern |-> {}, password |-> Nil, raw |-> FALSE]
NoReader == [open |-> FALSE, path |-> Nil, list |-> <<>>, at |-> 0, info |-> 0,
             entry |-> NoEntry, hash |-> Nil, cdZipped |-> FALSE, opts |-> NoOptions]

\* An entry as its directory record and its data tell: the tokens crc is the CRC of, the
\* body, which is one token, the packed data, when it is deflated, and, of the entry that
\* holds a compressed directory, the directory.
Entry(name, kind, data, method, hash, key) ==
  [name |-> name, kind |-> kind, crc |-> data, method |-> method, hash |-> hash, key |-> key,
   body |-> IF method = "deflate" THEN <<data>> ELSE data, packed |-> method = "deflate",
   dir |-> <<>>]

\* What reading an opened entry yields, and whether the reads end in an error.
Stream(e, raw, key) ==
  LET ciphered == [i \in DOMAIN e.body |-> Junk]
      body == IF e.key # Nil /\ key # e.key THEN ciphered ELSE e.body
  IN IF raw \/ e.method = "store" \/ e.body = <<>> THEN [data |-> body, fails |-> FALSE]
     ELSE IF body = e.body /\ e.packed THEN [data |-> body[1], fails |-> FALSE]
     ELSE [data |-> <<>>, fails |-> TRUE]

NoResult == [op |-> "none", err |-> "ok"]
Current(r) == r.list[r.info]

-----------------------------------------------------------------------------
(* Entries.  Operators on a reader r yield [r, err], or the set of them. *)

\* mz_zip_entry_read_close, where the CRC is compared if the compression stream took in as many
\* bytes as the entry has, which those of an encryption header are missing from.
\* How far an inflating stream has read is known only at its start and at its end.
Consumed(e, en) ==
  IF en.crypt THEN {FALSE}
  ELSE IF en.raw \/ e.method = "store" THEN {en.pos = Len(en.data)}
  ELSE IF en.pos = 0 /\ ~en.eof THEN {FALSE} ELSE IF en.eof THEN {~en.fails} ELSE BOOLEAN
ZipClosed(r) ==
  LET en == r.entry
  IN {IF all /\ ~en.raw /\ SubSeq(en.data, 1, en.pos) # en.e.crc THEN "crc" ELSE "ok" :
        all \in Consumed(en.e, en)}

\* mz_zip_reader_entry_close.  The digest of an algorithm that could not be set up is
\* never computed.
HashErr(h, e) ==
  IF h = Nil \/ e.hash = Nil THEN {"ok"}
  ELSE IF e.hash = Unknown THEN {"ok", "crc"}
  ELSE {IF h = e.hash THEN "ok" ELSE "crc"}
EntryClosed(r) ==
  UNION {{[r |-> [r EXCEPT !.entry = NoEntry, !.hash = Nil], err |-> IF h = "ok" THEN err ELSE h] :
            err \in ZipClosed(r)} : h \in HashErr(r.hash, r.entry.e)}

\* mz_zip_reader_entry_open.  An entry that is open already stays as it is; a password that
\* is wrong is refused, or passes the check of a byte or two.
EntryOpened(r) ==
  LET e == Current(r)
      began(key) ==
        LET s == Stream(e, r.opts.raw, key)
            o == [r EXCEPT !.entry = [i |-> r.info, e |-> e, data |-> s.data, fails |-> s.fails,
                                      pos |-> 0, eof |-> FALSE, raw |-> r.opts.raw,
                                      crypt |-> e.key # Nil /\ key # Nil],
                           !.hash = IF e.hash = Nil THEN Nil ELSE <<>>]
        IN [r |-> o, err |-> IF e.hash = Unknown THEN "support" ELSE "ok"]
  IN CASE r.info = 0 -> {[r |-> r, err |-> "param"]}
       [] r.info # 0 /\ r.entry.i # 0 -> {[r |-> r, err |-> "ok"]}
       [] OTHER -> {began(r.opts.password)} \cup
                   (IF e.key # Nil /\ r.opts.password \notin {Nil, e.key}
                    THEN {[r |-> r, err |-> "password"]} ELSE {})

\* mz_zip_reader_entry_read, one token at a time: <<token>>, <<>> at the end, or an error.
EntryRead(r) ==
  LET en  == r.entry
      got == IF en.pos < Len(en.data) THEN <<en.data[en.pos + 1]>> ELSE <<>>
  IN [r |-> [r EXCEPT !.entry.pos = @ + Len(got), !.entry.eof = (got = <<>>),
                      !.hash = IF @ = Nil THEN @ ELSE @ \o got],
      got |-> got, err |-> IF got = <<>> /\ en.fails THEN "data" ELSE "ok"]

\* mz_zip_reader_goto_first_entry and _next_entry: close what is open, whatever that says,
\* and go to an entry that the pattern matches.
Matching(r, from) == {i \in from..Len(r.list) : r.list[i].name \in r.opts.pattern}
MinOf(S) == CHOOSE x \in S : \A y \in S : x <= y
GoneTo(r, i) ==
  {[r |-> [c.r EXCEPT !.at = i, !.info = IF i <= Len(r.list) THEN i ELSE 0],
    err |-> IF i <= Len(r.list) THEN "ok" ELSE "end"] :
     c \in IF r.entry.i = 0 THEN {[r |-> r, err |-> "ok"]} ELSE EntryClosed(r)}
GotoFrom(r, from) ==
  GoneTo(r, IF Matching(r, from) = {} THEN Len(r.list) + 1 ELSE MinOf(Matching(r, from)))
GotoFirst(r) == GotoFrom(r, 1)
GotoNext(r)  == GotoFrom(r, r.at + 1)

-----------------------------------------------------------------------------
(* Sessions *)

\* mz_zip_reader_unzip_cd: if the first entry holds the compressed directory, read it and
\* go on with what it lists; its CRC is computed when it has been replaced.  Errors are ignored
\* by the caller, and leave the entry open.
Unzipped(r, dir) == [r EXCEPT !.list = dir, !.cdZipped = TRUE]
CdRead(o) ==
  LET en == o.entry
  IN [o EXCEPT !.entry.pos = Len(en.data), !.entry.eof = TRUE, !.hash = IF @ = Nil THEN @ ELSE @ \o en.data]
CdCopied(o) ==
  LET data  == o.entry.data
      entry == Current(o)
  IN IF Len(data) < Len(entry.crc) THEN {CdRead(o)}
     ELSE {g.r : g \in GotoFirst(Unzipped(CdRead(o), IF data = entry.crc THEN entry.dir ELSE <<>>))}
UnzipCd(r) ==
  UNION {IF f.err # "ok" THEN {f.r}
         ELSE IF Current(f.r).name # CdName THEN {g.r : g \in GotoFirst(f.r)}
         ELSE UNION {IF o.err = "ok" THEN CdCopied(o.r) ELSE {o.r} : o \in EntryOpened(f.r)} :
         f \in GotoFirst(r)}

Ended(op, err) == last' = [op |-> op, err |-> err]
Quiet == last' = NoResult

\* mz_zip_reader_open_file, _open_file_in_memory and _open_buffer.
\* Settings are made before: o.
ReaderOpen(p, o) ==
  /\ job = NoJob /\ ~rd.open /\ p \in DOMAIN archives
  /\ "set up at open" \in Habits \/ (o.pattern = Names \cup {CdName} /\ ~o.raw)
  /\ rd' \in UnzipCd([NoReader EXCEPT !.open = TRUE, !.path = p, !.list = archives[p],
                                      !.opts = o])
  /\ Ended("open", "ok")
  /\ UNCHANGED <<archives, disk, job, kept>>

\* mz_zip_reader_close: the zip handle and its open entry go.  The hash of that entry stays, and
\* is never compared: the next entry has none, or begins its own.  Bound: every session saves to
\* a directory of its own.
ReaderClose ==
  /\ job = NoJob /\ rd.open
  /\ rd' = NoReader
  /\ disk' = <<>> /\ kept' = {} /\ Quiet
  /\ UNCHANGED <<archives, job>>

Configure(o) ==
  /\ job = NoJob /\ rd.open /\ rd.entry.i = 0
  /\ rd' = [rd EXCEPT !.opts = o] /\ Quiet
  /\ UNCHANGED <<archives, disk, job, kept>>

Goto(how) ==
  /\ job = NoJob /\ rd.open
  /\ \E g \in IF how = "first" THEN GotoFirst(rd) ELSE GotoNext(rd) :
       rd' = g.r /\ Quiet
  /\ UNCHANGED <<archives, disk, job, kept>>

\* mz_zip_reader_locate_entry: the entry closed, it stays where it is if that is the name.
Locate(name) ==
  LET here == rd.info # 0 /\ Current(rd).name = name
      all  == {i \in DOMAIN rd.list : rd.list[i].name = name}
  IN /\ job = NoJob /\ rd.open
     /\ \E g \in GoneTo(rd, IF here THEN rd.at ELSE IF all = {} THEN Len(rd.list) + 1 ELSE MinOf(all)) :
          rd' = g.r /\ Quiet
     /\ UNCHANGED <<archives, disk, job, kept>>

-----------------------------------------------------------------------------
(* Saving *)

Finish(err) == last' = [op |-> job.op, err |-> err, entry |-> Current(rd),
                        data |-> job.data] /\ job' = NoJob

\* mz_zip_reader_entry_save to a stream of the caller's, and _save_buffer, whose stream
\* takes uncompressed_size and no more.
SaveCall(op) ==
  /\ job = NoJob /\ rd.open /\ rd.info # 0
  /\ "save again" \in Habits \/ rd.entry.i = 0
  /\ job' = [op |-> op, data |-> <<>>, all |-> FALSE,
             room |-> IF op = "buffer" THEN Len(Current(rd).crc) ELSE 9]
  /\ UNCHANGED <<archives, disk, rd, kept, last>>

\* mz_zip_reader_entry_save_file up to the loop: a directory is made; a file that exists is
\* kept, or deleted, as the callback says; a link needs no data.
FileJob(all) == [op |-> "file", data |-> <<>>, all |-> all, room |-> 9]
SaveFileStart(all) ==
  LET e == Current(rd)
      next(err) == [op |-> "file done", all |-> all, err |-> err]
  IN \/ /\ e.kind = "dir" /\ disk' = Put(disk, e.name, <<>>)
        /\ job' = next("ok") /\ UNCHANGED kept
     \/ /\ e.kind # "dir" /\ e.name \in DOMAIN disk
        /\ job' = next("ok") /\ kept' = kept \cup {e.name} /\ UNCHANGED disk
     \/ /\ e.kind = "link" /\ UNCHANGED kept
        /\ \/ disk' = Put(disk, e.name, <<>>) /\ job' = next("ok")
           \/ e.name \in DOMAIN disk /\ job' = next("internal") /\ UNCHANGED disk
     \/ /\ e.kind = "file" /\ disk' = Put(disk, e.name, <<>>)
        /\ job' = FileJob(all) /\ UNCHANGED kept
SaveFile ==
  /\ job = NoJob /\ rd.open /\ rd.info # 0
  /\ "save again" \in Habits \/ rd.entry.i = 0
  /\ SaveFileStart(FALSE)
  /\ UNCHANGED <<archives, rd, last>>

\* mz_zip_reader_entry_save_process, one turn of the loop of mz_zip_reader_entry_save: open
\* the entry, or take a token from it, or close it at the end.
Deliver(err) ==
  IF job.op = "file" /\ job.all THEN job' = [op |-> "file done", all |-> TRUE, err |-> err] /\ UNCHANGED last
  ELSE Finish(err)
SaveOpen ==
  /\ job.op \in {"stream", "buffer", "file"} /\ rd.entry.i = 0
  /\ \E o \in EntryOpened(rd) : rd' = o.r /\ IF o.err = "ok" THEN UNCHANGED <<job, last>> ELSE Deliver(o.err)
  /\ UNCHANGED <<archives, disk, kept>>

\* Mutant: a target that takes less is not noticed.
ShortIsFine(took) == TRUE
Took(took) == took
SaveProcess(takes) ==
  LET x == EntryRead(rd)
  IN /\ job.op \in {"stream", "buffer", "file"} /\ rd.entry.i # 0
     /\ x.got # <<>> \/ x.err # "ok"
     /\ rd' = x.r
     /\ IF x.err # "ok" THEN Deliver(x.err) /\ UNCHANGED disk
        ELSE LET took == takes /\ Len(job.data) < job.room
             IN /\ disk' = IF took /\ job.op = "file"
                           THEN [disk EXCEPT ![Current(rd).name] = @ \o x.got] ELSE disk
                /\ IF ~Took(took) THEN Deliver("write")
                   ELSE job' = (IF took THEN [job EXCEPT !.data = @ \o x.got] ELSE job) /\ UNCHANGED last
     /\ UNCHANGED <<archives, kept>>

SaveEnd ==
  LET x == EntryRead(rd)
  IN /\ job.op \in {"stream", "buffer", "file"} /\ rd.entry.i # 0
     /\ x.got = <<>> /\ x.err = "ok"
     /\ \E c \in EntryClosed(x.r) : rd' = c.r /\ Deliver(c.err)
     /\ UNCHANGED <<archives, disk, kept>>

\* mz_zip_reader_save_all: every entry the pattern matches, the first error ends it.
SaveAll ==
  /\ job = NoJob /\ rd.open
  /\ kept' = {}
  /\ \E g \in GotoFirst(rd) :
       /\ rd' = g.r
       /\ IF g.err = "ok" THEN job' = [op |-> "all"] /\ UNCHANGED last
          ELSE job' = NoJob /\ Ended("all", g.err)
  /\ UNCHANGED <<archives, disk>>
SaveAllFile ==
  /\ job.op = "all" /\ SaveFileStart(TRUE)
  /\ UNCHANGED <<archives, rd, last>>

AfterSaved(r) == GotoNext(r)
SaveFileDone ==
  /\ job.op = "file done"
  /\ IF ~job.all \/ job.err # "ok"
     THEN job' = NoJob /\ Ended(IF job.all THEN "all" ELSE "file without data", job.err) /\ UNCHANGED rd
     ELSE \E g \in AfterSaved(rd) :
            /\ rd' = g.r
            /\ IF g.err = "ok" THEN job' = [op |-> "all"] /\ UNCHANGED last
               ELSE job' = NoJob /\ Ended("all", "ok")
  /\ UNCHANGED <<archives, disk, kept>>

\* The caller's own reads, and closes.
ReadSome ==
  /\ job = NoJob /\ rd.open /\ rd.info # 0
  /\ \/ \E o \in EntryOpened(rd) : rd' = o.r /\ Quiet
     \/ rd.entry.i # 0 /\ rd' = EntryRead(rd).r /\ Quiet
     \/ rd.entry.i # 0 /\ \E c \in EntryClosed(rd) : rd' = c.r /\ Quiet
  /\ UNCHANGED <<archives, disk, job, kept>>

\* The turns of a running call.
SaveStep == SaveOpen \/ (\E takes \in BOOLEAN : SaveProcess(takes)) \/ SaveEnd \/ SaveAllFile \/ SaveFileDone

\* Calls that move the reader, and calls that read.
ReaderMoves ==
  \/ \E p \in DOMAIN archives, o \in ReaderOptions : ReaderOpen(p, o)
  \/ ReaderClose
  \/ \E o \in ReaderOptions : Configure(o)
  \/ \E how \in {"first", "next"} : Goto(how)
  \/ \E n \in Names : Locate(n)
ReaderReads ==
  \/ \E op \in {"stream", "buffer"} : SaveCall(op)
  \/ SaveFile
  \/ SaveAll
  \/ ReadSome

-----------------------------------------------------------------------------
(* Properties *)

\* Data that a save may report success of: they are what the entry's hash was computed from if it
\* has one, and its CRC if it is not encrypted.
Whole(e, data) == (e.key = Nil => data = e.crc) /\ e.hash \in {Nil, Unknown, data}

\* After mz_zip_reader_save_all reports success every entry the pattern matches is on disk
\* with all its data, as the last entry of its name has it, unless the callback kept what
\* was there (mz_zip_rw.c:832-920).
AllIsSaved ==
  (last.op = "all" /\ last.err = "ok" /\ job = NoJob /\ ~rd.opts.raw) =>
    \A i \in Matching(rd, 1) :
      LET e == rd.list[i]
          later == {k \in Matching(rd, i + 1) : rd.list[k].name = e.name}
      IN /\ e.name \in DOMAIN disk
         /\ e.kind = "file" /\ later = {} /\ e.name \notin kept => Whole(e, disk[e.name])

\* What a save that reports success has delivered is the whole entry, or all of them
\* (mz_zip_rw.c:578-663).
SavedIsEntry ==
  /\ AllIsSaved
  /\ (last.op \in {"stream", "buffer", "file"} /\ last.err = "ok" /\ "entry" \in DOMAIN last /\ ~rd.opts.raw) =>
       Whole(last.entry, last.data)
================================================================================
