--------------------------------- MODULE Compat ---------------------------------
(***************************************************************************)
(* The interface of the old minizip, compat/zip.c and compat/unzip.c, over *)
(* the handle of ZipArchive: archives that zipOpen makes or adds to, read  *)
(* by unz calls that keep a number of the current entry, a place in it and *)
(* the position where its data begin, next to what the handle keeps.       *)
(*                                                                         *)
(* Left out: raw and encrypted entries, and the recovery that unzOpen asks *)
(* for, which is ZipRecover's.                                             *)
(***************************************************************************)
EXTENDS ZipArchive

CONSTANT Habits  \* what callers do besides, see CompatHabits

CompatHabits == {
  "read after seek",     \* an entry is read on from another place
  "index after locate"}  \* the number of an entry that was located, or jumped to, is used

ASSUME CompatAssumption == Habits \subseteq CompatHabits

VARIABLES
  entryIndex,  \* compat->entry_index
  entryPos,    \* compat->entry_pos
  totalOut,    \* compat->total_out
  call,        \* the call that is not through: "none", "open", "reopen" or "locate"
  sought,      \* the name that the last unzLocateFile was given
  saved,       \* a position that unzGetFilePos64 told, or NoFilePos
  got,         \* what the last read handed out
  counted      \* history: entry_index was set by a call that knows it

unzVars == <<entryIndex, entryPos, totalOut, call, sought, saved, got, counted>>
compatVars == <<vars, unzVars>>

NoFilePos == [pos |-> 0, num |-> 0, counted |-> FALSE, info |-> NoInfo]

FreshUnz ==
  /\ entryIndex' = 0 /\ entryPos' = 0 /\ totalOut' = 0 /\ call' = "none" /\ sought' = NoName
  /\ saved' = NoFilePos /\ got' = <<>> /\ counted' = FALSE

CompatInit ==
  /\ Init
  /\ entryIndex = 0 /\ entryPos = 0 /\ totalOut = 0 /\ call = "none" /\ sought = NoName
  /\ saved = NoFilePos /\ got = <<>> /\ counted = FALSE

-----------------------------------------------------------------------------
(* zip.c *)

\* zipOpen2_64 in its three modes: create, create behind what the file holds, add.
\* Bound: there is room for an end record.
zipOpenCreateAfter ==
  /\ mode = "none" /\ flen < Capacity
  /\ mode' = "write" /\ cdInMem' = TRUE /\ pos' = flen /\ ret' = "OK"
  /\ entries' = <<>> /\ committed' = <<>> /\ health' = "good"
  /\ UNCHANGED <<fileVars, cdMem, cdMemPos, numberEntry, cdStart, cdSize, shift, cdCur,
                 entryVars, stub>>
zipOpen == ZipOpenCreate \/ zipOpenCreateAfter \/ ZipOpenAppend

\* zipOpenNewFileInZip5 forces the 64-bit format or disables it; its handle writes descriptors.
zipOpenNewFileInZip(n, zip64) ==
  EntryWriteOpen(n, 0, IF zip64 THEN Zip64Auto ELSE Zip64Disable, TRUE)
zipWriteInFileInZip(c) == EntryWrite(c)
zipCloseFileInZip == EntryWriteClose
zipClose == ZipCloseWrite

ZipNext ==
  /\ zipOpen \/ zipClose \/ zipCloseFileInZip
     \/ (\E n \in Names, z \in Zip64Modes : zipOpenNewFileInZip(n, z = Zip64Auto))
     \/ (\E c \in Chunks : zipWriteInFileInZip(c))
  /\ UNCHANGED unzVars

-----------------------------------------------------------------------------
(* unzip.c *)

Idle == mode = "read" /\ call = "none"

\* unzOpen_MZ opens, and goes to the first entry, whatever that says.
unzOpen ==
  /\ ZipOpenRead
  /\ call' = IF ret' = "OK" THEN "open" ELSE "none"
  /\ UNCHANGED <<entryIndex, entryPos, totalOut, sought, saved, got, counted>>
unzOpenFirst ==
  /\ call = "open" /\ GotoFirstEntry /\ call' = "none" /\ counted' = TRUE
  /\ UNCHANGED <<entryIndex, entryPos, totalOut, sought, saved, got>>
unzClose == Idle /\ ZipCloseRead /\ FreshUnz

unzGoToFirstFile ==
  /\ Idle /\ GotoFirstEntry /\ entryIndex' = 0 /\ counted' = TRUE
  /\ UNCHANGED <<entryPos, totalOut, call, sought, saved, got>>
\* Bound: a number that is no longer the entry's is not counted on.
unzGoToNextFile ==
  /\ Idle /\ GotoNextEntry /\ entryIndex <= MaxEntries
  /\ entryIndex' = IF ret' = "END_OF_LIST" THEN entryIndex ELSE entryIndex + 1
  /\ UNCHANGED <<entryPos, totalOut, call, sought, saved, got, counted>>

\* unzLocateFile walks from the first entry; entry_index stays what it was.
unzLocateFile(n) ==
  /\ Idle /\ GotoFirstEntry /\ call' = "locate" /\ sought' = n
  /\ UNCHANGED <<entryIndex, entryPos, totalOut, saved, got, counted>>
unzLocateTurn ==
  /\ call = "locate"
  /\ IF ret = "OK" /\ info.name # sought
     THEN GotoNextEntry /\ UNCHANGED <<call, counted>>
     ELSE /\ call' = "none"
          /\ counted' = (counted /\ (ret # "OK" \/ "index after locate" \in Habits))
          /\ UNCHANGED vars
  /\ UNCHANGED <<entryIndex, entryPos, totalOut, sought, saved, got>>

\* unzGetFilePos64, unzGoToFilePos64 and unzSetOffset64.
\* Bound: a position is kept of an entry, never of the end.
\* Mutant: unzGoToFilePos64 leaves the number alone, as unzSetOffset64 does.
unzGetFilePos ==
  /\ Idle /\ scanned
  /\ saved' = [pos |-> cdCur, num |-> entryIndex, counted |-> counted, info |-> info]
  /\ UNCHANGED <<vars, entryIndex, entryPos, totalOut, call, sought, got, counted>>
IndexKept == entryIndex
IndexAt   == saved.num
unzGoToFilePos ==
  /\ Idle /\ saved # NoFilePos /\ GotoEntry(saved.pos)
  /\ entryIndex' = IF ret' = "OK" THEN IndexAt ELSE entryIndex
  /\ counted' = IF ret' = "OK" THEN saved.counted ELSE counted
  /\ UNCHANGED <<entryPos, totalOut, call, sought, saved, got>>
unzSetOffset ==
  /\ Idle /\ saved # NoFilePos /\ GotoEntry(saved.pos)
  /\ counted' = (counted /\ (cdCur' = cdCur \/ "index after locate" \in Habits))
  /\ UNCHANGED <<entryIndex, entryPos, totalOut, call, sought, saved, got>>

\* unzOpenCurrentFile3 closes an entry that is open, whatever that says, and notes where the
\* data of the one it opens begin.  Mutant: the place in the entry read before is kept.
unzReopen ==
  /\ Idle /\ opened /\ EntryReadClose(FALSE) /\ call' = "reopen"
  /\ UNCHANGED <<entryIndex, entryPos, totalOut, sought, saved, got, counted>>
OutKept == totalOut
OutAtOpen == 0
unzOpenCurrentFile ==
  /\ Idle \/ call = "reopen"
  /\ EntryReadOpen
  /\ totalOut' = OutAtOpen /\ entryPos' = (IF ret' = "OK" THEN pos' ELSE entryPos)
  /\ call' = "none" /\ got' = <<>>
  /\ UNCHANGED <<entryIndex, sought, saved, counted>>
unzCloseCurrentFile ==
  /\ Idle /\ EntryReadClose(FALSE) /\ got' = <<>>
  /\ UNCHANGED <<entryIndex, entryPos, totalOut, call, sought, saved, counted>>

\* unzReadCurrentFile.  The streams count what they handed out, and end at the size of the
\* entry; a seek moves the place, and not what they count.
InStep == pos = entryPos + Len(crc)
unzReadCurrentFile ==
  /\ Idle /\ (InStep \/ "read after seek" \in Habits)
  /\ EntryRead
  /\ got' = <<Payload(file[pos])>> /\ totalOut' = totalOut + 1
  /\ UNCHANGED <<entryIndex, entryPos, call, sought, saved, counted>>

\* unzSeek64, also of an entry that is not open.  Bound: never in front of the file.
SeekPosition(origin, offset) ==
  CASE origin = "set" -> offset
    [] origin = "cur" -> totalOut + offset
    [] origin = "end" -> info.csize + offset
unzSeek(origin, offset) ==
  LET p == SeekPosition(origin, offset) IN
  /\ Idle /\ scanned /\ p <= info.csize /\ entryPos + p >= 0
  /\ pos' = entryPos + p /\ totalOut' = p /\ ret' = "OK" /\ got' = <<>>
  /\ UNCHANGED <<fileVars, mode, dirVars, cdCur, entryVars, ghostVars>>
  /\ UNCHANGED <<entryIndex, entryPos, call, sought, saved, counted>>

unzeof == totalOut = info.usize

UnzNext ==
  \/ unzOpen \/ unzOpenFirst \/ unzClose
  \/ unzGoToFirstFile \/ unzGoToNextFile \/ unzLocateTurn
  \/ \E n \in Names : unzLocateFile(n)
  \/ unzGetFilePos \/ unzGoToFilePos \/ unzSetOffset
  \/ unzReopen \/ unzOpenCurrentFile \/ unzReadCurrentFile \/ unzCloseCurrentFile
  \/ \E o \in {"set", "cur", "end"}, k \in -MaxData..MaxData : unzSeek(o, k)

CompatNext == ZipNext \/ UnzNext
CompatSpec == CompatInit /\ [][CompatNext]_compatVars

-----------------------------------------------------------------------------
(* Properties *)

\* The number that unzGetFilePos64 tells with a position is that of the entry there, and going
\* back to a position leads to that entry, whatever was walked, located or opened in between
\* (compat/unzip.c:454-630).
FilePosIsEntry ==
  [][ /\ mode' = "read" /\ call' = "none" /\ scanned' /\ counted' =>
           entryIndex' = cdCur' - cdStart'
      /\ unzGoToFilePos => ret' = "OK" /\ info' = saved.info ]_compatVars

\* What unzReadCurrentFile hands out is the entry's, at the place that unztell64 tells, also after
\* seeks; unzeof says that all of it was read when nothing more comes, and not before
\* (compat/unzip.c:246-316, 665-728).
ReadsAreAtTell ==
  mode = "read" /\ opened /\ call = "none" =>
    LET data == entries[cdCur - cdStart + 1].data IN
    /\ got # <<>> => totalOut \in 1..Len(data) /\ got = <<data[totalOut]>>
    /\ InStep \/ "read after seek" \in Habits =>
         unzeof <=> ~(Len(crc) < info.csize /\ pos < flen)
=============================================================================
