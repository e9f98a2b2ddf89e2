------------------------------- MODULE ZipWriter -------------------------------
(***************************************************************************)
(* The writer of src/mz_zip_rw.c: mz_zip_writer_* over a zip handle, and   *)
(* mz_zip_writer_copy_from_reader, which takes an entry from module        *)
(* ZipReader's reader.  The loop of mz_zip_writer_add is one step, with    *)
(* how much the source gave before it failed.                              *)
(***************************************************************************)
EXTENDS ZipReader

CONSTANTS
  Paths,      \* paths of archives that are written
  Given,      \* bound: what archives there are at first: functions from paths
  WriterOptions, \* bound: the settings of a writer: [level, raw, zipCd, key]
  DataOf,     \* name -> the tokens its source yields
  KindOf,     \* name -> "file", "dir", "link"
  MaxEntries, \* bound: entries in one archive
  MaxWriters  \* bound: writing sessions

WriterHabits == {
  "go on after a failed add",  \* close, or add to, an archive an add of which failed
  "copy at level 0",           \* mz_zip_writer_copy_from_reader with compress_level 0
  "write raw",                 \* mz_zip_writer_set_raw, for data that is packed
  "write in memory",           \* mz_zip_writer_open_file_in_memory
  "append to zipped"}          \* append to an archive whose directory is compressed

ASSUME WriterAssumption ==
  /\ Habits \subseteq ReaderHabits \cup WriterHabits
  /\ DataOf \in [Names -> Seq(Tokens)] /\ KindOf \in [Names -> {"file", "dir", "link"}]
  /\ \A n \in Names : KindOf[n] # "file" => DataOf[n] = <<>>
  /\ WriterOptions \subseteq [level : {"best", "none"}, raw : BOOLEAN, zipCd : BOOLEAN, key : {Nil, Key}]
  /\ \A o \in WriterOptions : o.raw => "write raw" \in Habits
  /\ MaxEntries \in Nat /\ Nil \notin Paths

\* Entries of these names, an archive's or a directory's.  One that was found in an archive may be
\* damaged, but a directory has no data.
EntriesOf(names, dirs) ==
  {e \in [name : names, kind : {"file", "dir", "link"}, crc : Body, method : {"store", "deflate"},
          hash : Body \cup {Nil, Unknown}, key : {Nil, Key}, body : Body, packed : BOOLEAN, dir : dirs] :
     (e.packed => e.body \in Seq(Data)) /\ (e.kind = "dir" => e.body = <<>>)}
Plain == EntriesOf(Names, {<<>>})

ASSUME GivenAssumption ==
  \A a \in Given : \A p \in DOMAIN a : a[p] \in Seq(Plain) /\ Len(a[p]) <= MaxEntries + 1

VARIABLES
  wr,      \* mz_zip_writer and its zip handle; opts are the settings
  added,   \* history: path -> what was added with success: [name, data, crc, hash]
  failed,  \* history: paths where an add failed
  writers  \* bound: writing sessions so far

writerVars == <<wr, added, failed, writers>>
vars == <<archives, readerVars, writerVars>>

NoWriter == [open |-> FALSE, path |-> Nil, mem |-> FALSE, list |-> <<>>,
             entry |-> NoEntry, hash |-> Nil, raw |-> FALSE,
             opts |-> [level |-> "best", raw |-> FALSE, zipCd |-> FALSE, key |-> Nil]]

-----------------------------------------------------------------------------
(* Entries.  Operators on a writer w yield the writer. *)

\* The record mz_zip_entry_write_close leaves of an entry.  The extra field is the one
\* the entry was opened with, unless the writer replaced it.
Recorded(en, crc, hash) ==
  LET e == en.info
  IN IF en.raw THEN [e EXCEPT !.crc = crc, !.body = en.tokens, !.hash = hash,
                              !.packed = @ /\ en.tokens # <<>>]
     ELSE [Entry(e.name, e.kind, en.tokens, e.method, hash, e.key) EXCEPT !.dir = e.dir]

\* mz_zip_entry_close on its own, which knows no CRC for raw data.
Closed(w) ==
  IF w.entry.i = 0 THEN w
  ELSE [w EXCEPT !.list = Append(@, Recorded(w.entry, <<>>, w.entry.info.hash)), !.entry = NoEntry]

\* mz_zip_writer_entry_open and mz_zip_entry_write_open, which closes an entry that is open.
Method(level, e) == IF level = "none" \/ e.kind = "dir" THEN "store" ELSE e.method
Opened(w, e) ==
  LET key == IF ~w.raw /\ e.kind # "dir" /\ w.opts.key # Nil THEN w.opts.key ELSE e.key
      c   == Closed(w)
  IN [c EXCEPT !.entry = [i |-> 1, raw |-> w.raw, tokens |-> <<>>,
                          info |-> [e EXCEPT !.method = Method(w.opts.level, e), !.key = key]],
               !.hash = IF e.kind = "dir" THEN @ ELSE <<>>]

\* mz_zip_writer_entry_write.
Written(w, d) ==
  [w EXCEPT !.entry.tokens = @ \o d, !.hash = IF @ = Nil THEN Nil ELSE @ \o d]

\* mz_zip_writer_entry_close: the digest goes before the extra field of the caller's.
HashField(w) == IF w.hash # Nil THEN w.hash ELSE w.entry.info.hash
EntryFinished(w) ==
  LET crc == w.entry.info.crc
  IN [w EXCEPT !.list = Append(@, Recorded(w.entry, crc, HashField(w))),
               !.entry = NoEntry, !.hash = Nil]

\* What a reader with the right password is told of an entry.
Told(e) == [name |-> e.name, read |-> Stream(e, FALSE, e.key), crc |-> e.crc, hash |-> e.hash]
\* ... and what adding data promises.
Promised(name, data) ==
  [name |-> name, read |-> [data |-> data, fails |-> FALSE], crc |-> data,
   hash |-> IF KindOf[name] = "dir" THEN Nil ELSE data]

-----------------------------------------------------------------------------
(* Sessions *)

\* Bounds: nobody reads an archive that is being written; the reader reads when no writer is
\* open, and after a writer what that wrote.  The two share the archives only.
Apart == job = NoJob /\ rd.entry.i = 0 /\ disk = <<>>
Idle == Apart /\ wr.open /\ ("go on after a failed add" \in Habits \/ wr.path \notin failed)

\* mz_zip_writer_open_file, and _open and _open_file_in_memory, which append.  To create is
\* to empty the file.  An overwrite callback may ask to keep it, which opens nothing and
\* is no error.
WriterOpen(p, append, mem, o) ==
  LET exists == p \in DOMAIN archives
      zipped == exists /\ archives[p] # <<>> /\ archives[p][1].name = CdName
      w == [NoWriter EXCEPT !.open = TRUE, !.path = p, !.mem = mem, !.opts = o, !.raw = o.raw, !.hash = wr.hash]
  IN /\ Apart /\ ~wr.open /\ rd.path # p
     /\ mem => append /\ exists /\ "write in memory" \in Habits
     /\ append => ~zipped \/ "append to zipped" \in Habits
     /\ writers < MaxWriters /\ writers' = writers + 1
     /\ wr' = IF append /\ exists THEN [w EXCEPT !.list = archives[p]] ELSE w
     /\ archives' = IF append THEN archives ELSE [q \in DOMAIN archives \ {p} |-> archives[q]]
     /\ added' = IF append /\ exists THEN added ELSE Put(added, p, <<>>)
     /\ failed' = failed \ {p}
     /\ UNCHANGED readerVars

\* mz_zip_writer_zip_cd: the records so far become the data of an entry, and its record the
\* directory.  A record that is still open is written over the first ones, and lost with them.
CdZipped(w) ==
  LET records == [i \in DOMAIN w.list |-> w.list[i].name]
      cd  == Entry(CdName, "file", records, "deflate", Nil, Nil)
      new == Opened(w, [cd EXCEPT !.packed = FALSE, !.dir = IF w.entry.i = 0 THEN w.list ELSE <<>>])
  IN EntryFinished(Written([new EXCEPT !.list = <<>>], records))

\* mz_zip_writer_close: an entry that is open is closed, and the directory written.  What was
\* opened in memory stays there.
WriterClose ==
  LET w == Closed(IF wr.opts.zipCd THEN CdZipped(wr) ELSE wr)
  IN /\ Idle
     /\ archives' = IF wr.mem THEN archives ELSE Put(archives, wr.path, w.list)
     /\ wr' = [NoWriter EXCEPT !.hash = w.hash]
     /\ UNCHANGED <<readerVars, added, failed, writers>>

\* A caller without the habit throws away an archive an add of which failed, for no call takes
\* an entry back, and deletes the writer.
WriterDiscard ==
  /\ Apart /\ wr.open /\ wr.path \in failed
  /\ archives' = [q \in DOMAIN archives \ {wr.path} |-> archives[q]]
  /\ added' = Put(added, wr.path, <<>>)
  /\ wr' = NoWriter
  /\ UNCHANGED <<readerVars, failed, writers>>

Room == Len(wr.list) + wr.entry.i < MaxEntries
NoteAdded(a) == added' = [added EXCEPT ![wr.path] = Append(@, a)] /\ UNCHANGED failed
NoteFailed   == failed' = failed \cup {wr.path} /\ UNCHANGED added

-----------------------------------------------------------------------------
(* Adding *)

\* mz_zip_writer_add_info and what calls it (add_buffer, add_file): open, add what the source
\* gives, close; when the source fails after k tokens the entry stays open.  A raw writer is
\* given data that is packed already.
Input(name) == IF wr.raw /\ KindOf[name] = "file" THEN <<DataOf[name]>> ELSE DataOf[name]
Adding(name, k) ==
  LET e == Entry(name, KindOf[name], DataOf[name], "deflate", Nil, Nil)
      d == IF KindOf[name] = "dir" THEN <<>> ELSE SubSeq(Input(name), 1, k)
  IN Written(Opened(wr, [e EXCEPT !.body = <<>>]), d)
AddInfo(name) ==
  /\ Idle /\ Room
  /\ wr' = EntryFinished(Adding(name, Len(Input(name))))
  /\ NoteAdded(Promised(name, DataOf[name]))
  /\ UNCHANGED <<archives, readerVars, writers>>
AddInfoFails(name) ==
  /\ Idle /\ Room /\ KindOf[name] = "file"
  /\ \E k \in 0..Len(Input(name)) - 1 : wr' = Adding(name, k)
  /\ NoteFailed
  /\ UNCHANGED <<archives, readerVars, writers>>

\* mz_zip_writer_copy_from_reader: the entry as it is, packed and encrypted, under its own CRC and
\* sizes, its extra field with it.  What was left open is closed whatever happened.
\* Mutant: it ends as other entries do.
CloseOnly(w, e)   == Closed(w)
RawFinished(w, e) == [w EXCEPT !.list = Append(@, Recorded(w.entry, e.crc, w.entry.info.hash)), !.entry = NoEntry]
Copying(e, k) ==
  Written(Opened([wr EXCEPT !.raw = TRUE], e), IF e.kind = "dir" THEN <<>> ELSE SubSeq(e.body, 1, k))
Copied(w) == [w EXCEPT !.raw = wr.raw, !.hash = Nil]
CopyFromReader ==
  LET e == Current(rd)
  IN /\ Idle /\ Room /\ rd.open /\ rd.info # 0 /\ rd.entry.i = 0 /\ e.name # CdName
     /\ wr.opts.level = "best" \/ "copy at level 0" \in Habits
     /\ wr' = Copied(RawFinished(Copying(e, Len(e.body)), e))
     /\ NoteAdded(Told(e))
     /\ UNCHANGED <<archives, readerVars, writers>>
CopyFails ==
  LET e == Current(rd)
  IN /\ Idle /\ Room /\ rd.open /\ rd.info # 0 /\ rd.entry.i = 0 /\ e.kind = "file" /\ e.name # CdName
     /\ \E k \in 0..Len(e.body) - 1 : wr' = Copied(Closed(Copying(e, k)))
     /\ NoteFailed
     /\ UNCHANGED <<archives, readerVars, writers>>

-----------------------------------------------------------------------------
(* The specification *)

Init ==
  /\ \E a \in Given :
       /\ archives = [p \in DOMAIN a |-> a[p]]
       /\ added = [p \in DOMAIN a |-> [i \in DOMAIN a[p] |-> Told(a[p][i])]]
  /\ rd = NoReader /\ job = NoJob
  /\ disk = <<>> /\ kept = {} /\ last = NoResult
  /\ wr = NoWriter /\ failed = {} /\ writers = 0

Next ==
  \/ ReaderMoves /\ rd'.path \notin {wr.path} \ {Nil} /\ UNCHANGED writerVars
  \/ ReaderReads /\ ~wr.open /\ (writers = 0 \/ rd.path \in Paths) /\ UNCHANGED writerVars
  \/ SaveStep /\ UNCHANGED writerVars
  \/ \E p \in Paths, append, mem \in BOOLEAN, o \in WriterOptions : WriterOpen(p, append, mem, o)
  \/ WriterClose
  \/ WriterDiscard
  \/ \E n \in Names : AddInfo(n) \/ AddInfoFails(n)
  \/ CopyFromReader
  \/ CopyFails

\* A call that was made runs on.
Spec == Init /\ [][Next]_vars

-----------------------------------------------------------------------------
(* Properties *)

\* The reader's cursor, its entry info and the entry that is open agree: going to another entry
\* closes the one that is open and drops its info (mz_zip_rw.c:321-381).  A writer never holds
\* more records than were added, but for that of a compressed directory.
TypeOK ==
  /\ DOMAIN archives \subseteq DOMAIN added /\ failed \subseteq DOMAIN added
  /\ rd.entry.i \in 0..Len(rd.list) /\ rd.at \in 0..Len(rd.list) + 1 /\ rd.info \in {0, rd.at}
  /\ rd.entry.i # 0 => rd.info = rd.entry.i /\ rd.entry.pos \in 0..Len(rd.entry.data)
  /\ Len(wr.list) <= MaxEntries + 1

\* A reader that opens an archive, with the password it takes, is shown what was added to it by
\* the calls that reported success, copied entries among it, all of it, in order and nothing
\* else; every entry reads as what it was added from, under a CRC and a hash of that
\* (mz_zip_rw.c:249, 1099, 1412, 1785).
ShowsWhatWasAdded ==
  /\ TypeOK
  /\ (rd.open /\ last.op = "open"
      /\ \A e \in ToSet(rd.list \o archives[rd.path]) : e.key \in {Nil, rd.opts.password}) =>
       [i \in DOMAIN rd.list |-> Told(rd.list[i])] = added[rd.path]
================================================================================
