------------------------------- MODULE ZipRecover -------------------------------
(***************************************************************************)
(* mz_zip_open with recovery enabled (mz_zip_set_recover), as every reader *)
(* of mz_zip_rw.c and of compat/unzip.c opens an archive: a directory that *)
(* cannot be found is rebuilt in memory from the local headers.            *)
(*                                                                         *)
(* Writers, crashes and readers are those of ZipArchive.  Stored data that *)
(* contains a record's signature, and records cut short by a crash, are    *)
(* not modelled.                                                           *)
(***************************************************************************)
EXTENDS ZipArchive

CONSTANT
  RecoverStart  \* the cell from which the search for local headers begins

\* A split stream is rewound first.  Any other is left where the search for the
\* end record stopped: behind the signature of a first local header.
ASSUME RecoverAssumption == RecoverStart \in {0, 1} /\ U32 > Capacity

-----------------------------------------------------------------------------
(* mz_zip_recover_cd *)

\* The first cell of type t at or behind p, or the end of the file.
NextOf(f, n, t, p) ==
  LET found == {q \in p..(n - 1) : f[q].t = t}
  IN IF found = {} THEN n ELSE CHOOSE q \in found : \A r \in found : q <= r

\* The local header behind the one at h.  An entry with a descriptor ends at a
\* header that has one before it: others are "wrong local file entries".
NextLocal(f, n, h) ==
  LET ends == {q \in (h + 1 + f[h].csize)..(n - 1) :
                 f[q].t = "local" /\ (f[h].dd => f[q - 1].t = "descriptor")}
  IN IF ends = {} THEN n ELSE CHOOSE q \in ends : \A r \in ends : q <= r

\* Where the entry at h ends: at the next local header, else at the directory,
\* else at the end of the file.  Mutant: the directory is not looked for.
EntryEndAtEof(f, n, h) == NextLocal(f, n, h)
EntryEnd(f, n, h) ==
  IF NextLocal(f, n, h) < n THEN NextLocal(f, n, h)
  ELSE NextOf(f, n, "central", h + 1)

\* The descriptor before the end of the entry is looked for when sizes are missing.
HasDescriptor(f, n, h) ==
  /\ f[h].dd \/ f[h].csize = 0
  /\ f[EntryEnd(f, n, h) - 1].t = "descriptor"

\* The directory header rebuilt for the entry at h.  The 64-bit format (z64) of
\* a short descriptor reads past it: garbage sizes, or nothing at the end of file.
Rebuilt(f, n, h, z64) ==
  LET l == f[h]
      e == EntryEnd(f, n, h)
      d == f[e - 1]
      misread == z64 /\ ~d.z64
      read == HasDescriptor(f, n, h) /\ ~(misread /\ e = n)
      size == IF misread /\ d.csize > 0 THEN U32 ELSE d.csize
  IN [t |-> "central", name |-> l.name, dd |-> l.dd, off |-> h,
      crc   |-> IF read /\ l.crc = <<>> THEN d.crc ELSE l.crc,
      csize |-> IF read /\ l.csize = 0 THEN size ELSE l.csize,
      usize |-> IF read /\ l.usize = 0 THEN size ELSE l.usize]

\* The places of the local headers that the search meets from h on.
LocalsFrom(f, n) ==
  LET from[h \in {q \in 0..(n - 1) : f[q].t = "local"} \cup {n}] ==
        IF h = n THEN <<>> ELSE <<h>> \o from[NextLocal(f, n, h)]
  IN from

\* The format, once 64-bit, stays so for the entries that follow.
Zip64At(f, n, hs, k) == \E j \in 1..k : HasDescriptor(f, n, hs[j]) /\ f[hs[j]].z64
Recovered(f, n, start) ==
  LET hs == LocalsFrom(f, n)[NextOf(f, n, "local", start)]
  IN [k \in 1..Len(hs) |-> Rebuilt(f, n, hs[k], Zip64At(f, n, hs, k))]

-----------------------------------------------------------------------------
\* mz_zip_open for reading: recovery when the directory cannot be read, and the
\* error of reading it when nothing is recovered.  cd_size is left as it was read.
RecoverOpenRead ==
  LET d == ReadCd(file, flen)
      r == Recovered(file, flen, RecoverStart)
  IN IF d.ok \/ r = <<>> THEN ZipOpenRead
     ELSE /\ mode = "none"
          /\ mode' = "read" /\ ret' = "OK"
          /\ cdMem' = r /\ cdMemPos' = Len(r) /\ cdInMem' = TRUE
          /\ numberEntry' = Len(r) /\ cdStart' = 0 /\ cdSize' = d.size
          /\ UNCHANGED <<fileVars, pos, shift, cdCur, entryVars, ghostVars>>

RecoverReadNext ==
  \/ RecoverOpenRead \/ ZipCloseRead
  \/ EntryReadOpen \/ EntryRead \/ \E w \in BOOLEAN : EntryReadClose(w)

RecoverNext == WriteNext \/ LookNext \/ RecoverReadNext \/ EnvNext

RecoverSpec == Init /\ [][RecoverNext]_vars

-----------------------------------------------------------------------------
(* Properties *)

\* The directory now in use describes list's entries, in order and before any other.
Presents(list) ==
  \A i \in 1..Len(list) : Describes(file, CdCell(cdStart + i - 1), shift, list[i])

\* A rebuilt directory has every entry that was closed before the process died, in
\* order, and at most the one that was open besides (doc/mz_zip.md,
\* mz_zip_set_recover).
RecoveryRegainsEntries ==
  mode = "read" /\ cdInMem /\ health = "crashed" =>
    Presents(entries) /\ Len(cdMem) <= Len(entries) + 1

\* Every closed entry of a rebuilt directory opens; reading it to its end yields
\* what was written; and closing it, with or without its descriptor, reports no error.
RecoveredEntriesRead ==
  [][ cdInMem /\ health = "crashed" /\ cdCur < Len(entries) =>
        /\ EntryReadOpen => ret' = "OK"
        /\ \A w \in BOOLEAN : EntryReadClose(w) /\ Len(crc) = info.csize =>
             ret' = "OK" /\ crc = entries[cdCur + 1].data ]_vars
=============================================================================
