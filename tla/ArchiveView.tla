------------------------------ MODULE ArchiveView ------------------------------
(***************************************************************************)
(* The list of contents of Archive, as the cells of the file and the       *)
(* handle of ZipArchive represent it.  The history variables of ZipArchive *)
(* have no part in it: an entry is what its directory header leads to.     *)
(***************************************************************************)
EXTENDS ZipArchive

\* The entry that directory header c, whose offset is sh short, leads to.
Resolve(c, sh) ==
  [name |-> c.name,
   data |-> [i \in 1..c.csize |-> Payload(At(file, flen, c.off + sh + i))]]

\* The directory in memory while writing, else the one an open finds in the file.
ViewContents ==
  LET d == ReadCd(file, flen) IN
  IF Writing THEN [i \in 1..Len(cdMem) |-> Resolve(cdMem[i], 0)]
  ELSE IF d.ok THEN [i \in 1..d.number |-> Resolve(file[d.off + i - 1], d.shift)]
  ELSE <<>>

ViewAdding ==
  IF Writing /\ opened
  THEN <<[name |-> info.name,
          data |-> [i \in 1..(pos - info.off - 1) |-> Payload(file[info.off + i])]]>>
  ELSE <<>>

ViewCursor == IF mode = "read" /\ scanned THEN cdCur - cdStart + 1 ELSE 0
ViewReading == IF mode = "read" /\ opened THEN <<crc>> ELSE <<>>

Abstract ==
  INSTANCE Archive WITH
    contents <- ViewContents,
    session  <- IF Writing THEN "write" ELSE mode,
    adding   <- ViewAdding,
    cursor   <- ViewCursor,
    reading  <- ViewReading

\* Creating, appending, reading and putting something in front of the archive
\* are sessions of Archive: what the file holds is the list of the entries added.
ImplementsArchive == Abstract!Spec
=============================================================================
