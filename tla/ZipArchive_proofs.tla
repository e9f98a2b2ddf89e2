-------------------------- MODULE ZipArchive_proofs --------------------------
(***************************************************************************)
(* Theorems about ZipArchive, for every value of its constants and any     *)
(* number of sessions.  First one session: the types, what the directory   *)
(* in memory is while an archive is written, and what a finished archive's *)
(* own end record leads to.  Then all of them: moving between the entries  *)
(* of a finished archive and reading them; that all its sessions together  *)
(* are those of Archive; what a session that died leaves, and what         *)
(* sessions after it may do to that.  Then theorems about Compat, whose    *)
(* calls are these ones with a number, a place and a position beside them. *)
(* Last, ZipRecover: that every session lays its entries out one behind    *)
(* the other, and that the search of recovery therefore finds them all.    *)
(***************************************************************************)
EXTENDS ArchiveView, Compat, ZipRecover, SequenceTheorems, TLAPS

\* What a list of steps computes, as a function that calls itself.
Numbers == INSTANCE Overlays_proofs

-----------------------------------------------------------------------------
(* Types *)

\* TypeOK in parts, as actions disturb them.
FileType == file \in [Pos -> Cell] /\ flen \in 0..Capacity /\ pos \in Nat
CallType ==
  /\ mode \in {"none", "write", "append", "read"}
  /\ ret \in {"OK", "PARAM", "FORMAT", "CRC", "END_OF_LIST"}
FlagType == cdInMem \in BOOLEAN /\ scanned \in BOOLEAN /\ opened \in BOOLEAN
MemType == cdMem \in Seq(Cell) /\ cdMemPos \in 0..Len(cdMem)
DirType ==
  /\ numberEntry \in Nat /\ cdStart \in Nat /\ cdSize \in Nat /\ cdCur \in Nat
  /\ shift \in Int
EntryType == info \in Info /\ crc \in Content
GhostType ==
  /\ health \in {"good", "crashed", "reused"} /\ stub \in 0..MaxStub
  /\ entries \in Seq(Entry) /\ committed \in Seq(Entry)

\* TypeOK is not inductive: a closed handle is a fresh one, the name of the entry
\* being written goes into headers, a local header that was found is in the file,
\* and what the handle knows of a directory in memory is within it.
FreshWhenClosed ==
  mode = "none" =>
    /\ cdMem = <<>> /\ cdMemPos = 0 /\ pos = 0
    /\ cdStart = 0 /\ cdSize = 0 /\ cdCur = 0 /\ shift = 0 /\ numberEntry = 0
    /\ scanned = FALSE /\ opened = FALSE
InMemoryWhenWriting == cdInMem = Writing
WithinDirectory ==
  Writing => cdStart = 0 /\ cdSize <= Len(cdMem) /\ (scanned => cdCur < Len(cdMem))
NamedWhenOpen == Writing /\ opened => info.name \in Names
FoundWhenOpen == mode = "read" /\ opened => info.off + shift \in Nat

TypeInv ==
  /\ FileType /\ CallType /\ FlagType /\ MemType /\ DirType /\ EntryType /\ GhostType
  /\ FreshWhenClosed /\ InMemoryWhenWriting /\ WithinDirectory
  /\ NamedWhenOpen /\ FoundWhenOpen

LEMMA TypeInvImpliesTypeOK == TypeInv => TypeOK
BY Zenon DEF TypeInv, TypeOK, FileType, CallType, FlagType, MemType, DirType,
             EntryType, GhostType

LEMMA CapacityType == Capacity \in Nat \ {0}
BY ConstantsAssumption

LEMMA BoundType == MaxStub \in Nat /\ 0 \in 0..MaxStub
<1>1. MaxStub \in Nat
  BY ConstantsAssumption
<1> QED
  BY <1>1

LEMMA DeclaredType ==
  ASSUME NEW u \in Declared, NEW z \in Zip64Modes, NEW d \in Descriptors
  PROVE  u \in Nat /\ z \in {Zip64Auto, Zip64Disable} /\ d \in BOOLEAN
<1>1. /\ MaxData \in Nat /\ Declared \subseteq 0..MaxData
      /\ Zip64Modes \subseteq {Zip64Auto, Zip64Disable}
      /\ Descriptors \subseteq BOOLEAN
  BY ConstantsAssumption
<1>2. u \in 0..MaxData /\ z \in {Zip64Auto, Zip64Disable} /\ d \in BOOLEAN
  BY <1>1, Zenon
<1> QED
  BY <1>1, <1>2

LEMMA CellsOfLength ==
  ASSUME NEW S, NEW n \in Nat, NEW m \in [1..n -> S]
  PROVE  m \in Seq(S) /\ Len(m) = n
<1>1. m \in Seq(S)
  OBVIOUS
<1>2. DOMAIN m = 1..n
  OBVIOUS
<1>3. DOMAIN m = 1..Len(m) /\ Len(m) \in Nat
  BY <1>1, LenProperties
<1> QED
  BY <1>1, <1>2, <1>3

\* What is written is a record of the format.
LEMMA RecordTypes ==
  /\ \A i \in Info, z \in BOOLEAN : i.name \in Names =>
       LocalHeader(i, z) \in Cell /\ CentralHeader(i) \in Cell
  /\ \A z \in BOOLEAN, c \in Content, n \in Nat : Descriptor(z, c, n) \in Cell
  /\ \A n, s, o \in Nat : EndRecord(n, s, o) \in Cell
  /\ \A c \in Chunks : DataCell(c) \in Cell
  /\ Hole \in Cell
BY DEF LocalHeader, CentralHeader, Descriptor, EndRecord, DataCell, Hole, Cell, Info

\* What the end record and the cells it leads to say of the directory.
LEMMA ReadCdType ==
  ASSUME NEW f \in [Pos -> Cell], NEW n \in 0..Capacity, ReadCd(f, n).ok
  PROVE  LET d == ReadCd(f, n) IN
         /\ d.off \in Nat /\ d.size \in Nat /\ d.number \in Nat /\ d.shift \in Int
         /\ d.off + d.size < n
<1> DEFINE p == CHOOSE q \in LastEnds(f, n) : TRUE
           d == DirectoryAt(f, n, p)
<1> HIDE DEF p, d
<1>1. ReadCd(f, n) =
        [ok     |-> d.sig # "hole" /\ d.off <= p,
         number |-> f[p].number,
         off    |-> d.off,
         size   |-> IF p < d.off + f[p].size THEN p - d.off ELSE f[p].size,
         sig    |-> d.sig,
         shift  |-> d.shift]
  BY DEF ReadCd, NoDirectory, p, d
<1>2. LastEnds(f, n) # {}
  BY DEF ReadCd, NoDirectory
<1>3. p \in LastEnds(f, n)
  BY <1>2, Zenon DEF p
<1>4. d.sig # "hole" /\ d.off <= p
  <2> DEFINE ok == d.sig # "hole" /\ d.off <= p
  <2> HIDE DEF ok
  <2>1. ReadCd(f, n).ok = ok
    BY <1>2, Zenon DEF ReadCd, ok, p, d
  <2>2. ok
    BY <2>1
  <2> QED
    BY <2>2 DEF ok
<1>5. p \in Ends(f, n)
  BY <1>3 DEF LastEnds
<1>6. p \in 0..(n - 1) /\ f[p].t = "end"
  BY <1>5 DEF Ends
<1>7. p \in Pos
  BY <1>6, CapacityType DEF Pos
<1>8. f[p] \in [t : {"end"}, number : Nat, size : Nat, off : Nat]
  BY <1>6, <1>7 DEF Cell, Hole
<1>9. d.off \in Nat /\ d.shift \in Int
  BY <1>6, <1>7, <1>8 DEF DirectoryAt, At, Hole, ShiftOf, d
<1>10. f[p].number \in Nat /\ f[p].size \in Nat
  BY <1>8
<1> QED
  BY <1>1, <1>4, <1>6, <1>9, <1>10

-----------------------------------------------------------------------------
(* Settled: the archive once the entry that may be open is closed *)

LEMMA SettledFields ==
  /\ ~opened =>
       /\ Settled.ok = TRUE /\ Settled.file = file /\ Settled.flen = flen
       /\ Settled.pos = pos /\ Settled.cdMem = cdMem /\ Settled.cdMemPos = cdMemPos
       /\ Settled.number = numberEntry /\ Settled.info = info
       /\ Settled.entries = entries
  /\ opened =>
       /\ Settled.file = ClosedFile /\ Settled.flen = Larger(flen, ClosedPos)
       /\ Settled.pos = ClosedPos /\ Settled.number = numberEntry + 1
       /\ Settled.info = FinalInfo
  /\ opened /\ CentralHeaderFails(info) =>
       /\ Settled.ok = FALSE
       /\ Settled.cdMem = cdMem /\ Settled.cdMemPos = cdMemPos
       /\ Settled.entries = entries
  /\ opened /\ ~CentralHeaderFails(info) =>
       /\ Settled.ok = TRUE
       /\ Settled.cdMem = PutAt(cdMem, cdMemPos, CentralHeader(FinalInfo))
       /\ Settled.cdMemPos = cdMemPos + 1
       /\ Settled.entries = Append(entries, [name |-> info.name, data |-> crc])
BY DEF Settled

LEMMA PutAtType ==
  ASSUME NEW S, NEW s \in Seq(S), NEW p \in 0..Len(s), NEW c \in S
  PROVE  /\ PutAt(s, p, c) \in Seq(S)
         /\ p + 1 \in 0..Len(PutAt(s, p, c))
         /\ Len(PutAt(s, p, c)) \in Len(s)..(Len(s) + 1)
BY DEF PutAt

LEMMA FinalInfoType ==
  ASSUME TypeInv, Writing, opened
  PROVE  FinalInfo \in Info /\ FinalInfo.name \in Names /\ Len(crc) \in Nat
<1>1. info \in Info /\ info.name \in Names /\ crc \in Content
  BY DEF TypeInv, EntryType, NamedWhenOpen
<1>2. Len(crc) \in Nat
  BY <1>1 DEF Content
<1> QED
  BY <1>1, <1>2 DEF FinalInfo, Info

LEMMA SettledOk == Settled.ok \in BOOLEAN
<1>1. CASE ~opened
  BY <1>1, Zenon, SettledFields
<1>2. CASE opened /\ CentralHeaderFails(info)
  BY <1>2, Zenon, SettledFields
<1>3. CASE opened /\ ~CentralHeaderFails(info)
  BY <1>3, Zenon, SettledFields
<1> QED
  BY <1>1, <1>2, <1>3

LEMMA SettledType ==
  ASSUME TypeInv, Writing, NEW k \in Nat, Room(k)
  PROVE  /\ Settled.file \in [Pos -> Cell] /\ Settled.flen \in 0..Capacity
         /\ Settled.pos \in Nat /\ Settled.number \in Nat
         /\ Settled.cdMem \in Seq(Cell)
         /\ Settled.cdMemPos \in 0..Len(Settled.cdMem)
         /\ Len(cdMem) <= Len(Settled.cdMem)
         /\ Settled.pos + k + Len(Settled.cdMem) + 1 <= Capacity
         /\ Settled.info \in Info /\ Settled.entries \in Seq(Entry)
<1> DEFINE s == Settled
<1>0. /\ file \in [Pos -> Cell] /\ flen \in 0..Capacity /\ pos \in Nat
      /\ cdMem \in Seq(Cell) /\ cdMemPos \in 0..Len(cdMem) /\ numberEntry \in Nat
      /\ info \in Info /\ crc \in Content
      /\ entries \in Seq(Entry) /\ Len(cdMem) \in Nat
  BY DEF TypeInv, FileType, MemType, DirType, EntryType, GhostType
<1> HIDE DEF s
<1>1. CASE ~opened
  <2>1. /\ s.file = file /\ s.flen = flen /\ s.pos = pos /\ s.cdMem = cdMem
        /\ s.cdMemPos = cdMemPos /\ s.number = numberEntry /\ s.info = info
        /\ s.entries = entries
    BY <1>1, SettledFields DEF s
  <2>2. pos + k + Len(cdMem) + 1 <= Capacity
    BY <1>0, <1>1 DEF Room
  <2> QED
    BY <1>0, <2>1, <2>2 DEF s
<1>2. CASE opened
  <2>1. ClosedFile \in [Pos -> Cell]
    <3>1. LocalHeader(FinalInfo, LocalZip64(info)) \in Cell
      BY <1>2, FinalInfoType, RecordTypes DEF LocalZip64
    <3>2. Descriptor(LocalZip64(info), crc, Len(crc)) \in Cell
      BY <1>0, <1>2, FinalInfoType, RecordTypes DEF LocalZip64
    <3> QED
      BY <1>0, <3>1, <3>2 DEF ClosedFile
  <2>2. ClosedPos \in pos..(pos + 1) /\ ClosedPos + 1 <= pos + (IF info.dd THEN 2 ELSE 1)
    BY <1>0 DEF ClosedPos, Info
  <2>3. pos + k + (IF info.dd THEN 2 ELSE 1) + Len(cdMem) + 1 <= Capacity
    BY <1>2 DEF Room
  <2>4. CentralHeader(FinalInfo) \in Cell
    BY <1>2, FinalInfoType, RecordTypes
  <2>5. [name |-> info.name, data |-> crc] \in Entry
    BY <1>2, <1>0 DEF Entry, TypeInv, NamedWhenOpen
  <2>6. Larger(flen, ClosedPos) \in 0..Capacity
    BY <1>0, <2>2, <2>3, CapacityType DEF Larger
  <2>7. /\ s.file = ClosedFile /\ s.flen = Larger(flen, ClosedPos)
        /\ s.pos = ClosedPos /\ s.number = numberEntry + 1 /\ s.info = FinalInfo
    BY <1>2, SettledFields DEF s
  <2>8. ClosedPos \in Nat /\ ClosedPos + k + Len(cdMem) + 2 <= Capacity
    BY <1>0, <2>2, <2>3, CapacityType
  <2>9. /\ s.file \in [Pos -> Cell] /\ s.flen \in 0..Capacity /\ s.pos \in Nat
        /\ s.number \in Nat /\ s.info \in Info
    BY <1>0, <1>2, <2>1, <2>6, <2>7, <2>8, FinalInfoType
  <2>10. CASE CentralHeaderFails(info)
    <3>1. s.cdMem = cdMem /\ s.cdMemPos = cdMemPos /\ s.entries = entries
      BY <1>2, <2>10, SettledFields DEF s
    <3>2. s.pos + k + Len(s.cdMem) + 1 <= Capacity
      BY <1>0, <2>7, <2>8, <3>1, CapacityType
    <3> QED
      BY <1>0, <2>9, <3>1, <3>2 DEF s
  <2>11. CASE ~CentralHeaderFails(info)
    <3> DEFINE m == PutAt(cdMem, cdMemPos, CentralHeader(FinalInfo))
    <3>1. /\ m \in Seq(Cell) /\ cdMemPos + 1 \in 0..Len(m)
          /\ Len(m) \in Len(cdMem)..(Len(cdMem) + 1)
      BY <1>0, <2>4, PutAtType
    <3>2. Append(entries, [name |-> info.name, data |-> crc]) \in Seq(Entry)
      BY <1>0, <2>5
    <3> HIDE DEF m
    <3>3. /\ s.cdMem = m /\ s.cdMemPos = cdMemPos + 1
          /\ s.entries = Append(entries, [name |-> info.name, data |-> crc])
      BY <1>2, <2>11, SettledFields DEF m, s
    <3>4. s.pos + k + Len(s.cdMem) + 1 <= Capacity
      BY <1>0, <2>7, <2>8, <3>1, <3>3, CapacityType
    <3>5. /\ s.cdMem \in Seq(Cell) /\ s.cdMemPos \in 0..Len(s.cdMem)
          /\ Len(cdMem) <= Len(s.cdMem) /\ s.entries \in Seq(Entry)
      BY <1>0, <3>1, <3>2, <3>3
    <3> QED
      BY <2>9, <3>4, <3>5 DEF s
  <2> QED
    BY <2>10, <2>11
<1> QED
  BY <1>0, <1>1, <1>2

-----------------------------------------------------------------------------
(* The steps *)

LEMMA ContentEmpty == <<>> \in Content /\ NoInfo \in Info
BY DEF Content, NoInfo, Info

LEMMA FreshType ==
  ASSUME FreshHandle,
         file' \in [Pos -> Cell], flen' \in 0..Capacity,
         ret' \in {"OK", "PARAM", "FORMAT", "CRC", "END_OF_LIST"},
         GhostType'
  PROVE  TypeInv'
<1>1. /\ mode' = "none" /\ pos' = 0 /\ cdMem' = <<>> /\ cdMemPos' = 0
      /\ numberEntry' = 0 /\ cdStart' = 0 /\ cdSize' = 0 /\ cdCur' = 0 /\ shift' = 0
      /\ info' = NoInfo /\ crc' = <<>>
      /\ cdInMem' = FALSE /\ scanned' = FALSE /\ opened' = FALSE
  BY DEF FreshHandle, FreshEntry
<1>2. FileType' /\ CallType' /\ DirType'
  BY <1>1 DEF FileType, CallType, DirType
<1>3. MemType' /\ EntryType'
  BY <1>1, ContentEmpty DEF MemType, EntryType
<1>4. FlagType'
  BY <1>1, Zenon DEF FlagType
<1>5. Writing' = FALSE
  BY <1>1 DEF Writing
<1>6. FreshWhenClosed'
  BY <1>1 DEF FreshWhenClosed
<1>7. InMemoryWhenWriting' /\ WithinDirectory' /\ NamedWhenOpen' /\ FoundWhenOpen'
  BY <1>1, <1>5 DEF InMemoryWhenWriting, WithinDirectory, NamedWhenOpen, FoundWhenOpen
<1> QED
  BY <1>2, <1>3, <1>4, <1>6, <1>7 DEF TypeInv

\* A call that only returns.
LEMMA StutterType ==
  ASSUME TypeInv,
         UNCHANGED <<file, flen, pos, mode, cdMem, cdMemPos, cdInMem, numberEntry,
                     cdStart, cdSize, cdCur, shift, info, scanned, opened, crc,
                     entries, committed, health, stub>>,
         ret' \in {"OK", "PARAM", "FORMAT", "CRC", "END_OF_LIST"}
  PROVE  TypeInv'
<1>1. FileType' /\ CallType' /\ DirType'
  BY DEF TypeInv, FileType, CallType, DirType
<1>2. MemType' /\ EntryType' /\ GhostType'
  BY DEF TypeInv, MemType, EntryType, GhostType
<1>3. FlagType'
  BY Zenon DEF TypeInv, FlagType
<1>4. FreshWhenClosed' /\ InMemoryWhenWriting' /\ WithinDirectory' /\ NamedWhenOpen'
      /\ FoundWhenOpen'
  BY Zenon DEF TypeInv, FreshWhenClosed, InMemoryWhenWriting, WithinDirectory,
               NamedWhenOpen, FoundWhenOpen, Writing
<1> QED
  BY <1>1, <1>2, <1>3, <1>4 DEF TypeInv

LEMMA CreateType == ASSUME TypeInv, ZipOpenCreate PROVE TypeInv'
<1>1. /\ file' = [p \in Pos |-> Hole] /\ flen' = 0 /\ mode' = "write" /\ mode = "none"
      /\ cdInMem' = TRUE /\ ret' = "OK" /\ entries' = <<>> /\ committed' = <<>>
      /\ health' = "good" /\ stub' = 0
      /\ UNCHANGED <<pos, cdMem, cdMemPos, numberEntry, cdStart, cdSize, cdCur,
                     shift, info, scanned, opened, crc>>
  BY DEF ZipOpenCreate, entryVars
<1>2. FileType'
  BY <1>1, RecordTypes, CapacityType DEF TypeInv, FileType
<1>3. CallType' /\ DirType'
  BY <1>1 DEF TypeInv, CallType, DirType
<1>4. MemType' /\ EntryType'
  BY <1>1 DEF TypeInv, MemType, EntryType
<1>5. FlagType'
  BY <1>1, Zenon DEF TypeInv, FlagType
<1>6. GhostType'
  BY <1>1, BoundType DEF GhostType
<1>7. Writing' = TRUE
  BY <1>1 DEF Writing
<1>8. FreshWhenClosed' /\ FoundWhenOpen'
  BY <1>1 DEF FreshWhenClosed, FoundWhenOpen
<1>9. InMemoryWhenWriting' /\ WithinDirectory' /\ NamedWhenOpen'
  BY <1>1, <1>7
  DEF InMemoryWhenWriting, WithinDirectory, NamedWhenOpen, TypeInv, FreshWhenClosed,
      MemType
<1> QED
  BY <1>2, <1>3, <1>4, <1>5, <1>6, <1>8, <1>9 DEF TypeInv

\* An open that finds no directory changes ret only.
LEMMA AppendType == ASSUME TypeInv, ZipOpenAppend PROVE TypeInv'
<1> DEFINE d == ReadCd(file, flen)
           m == [i \in 1..d.size |-> file[d.off + i - 1]]
<1>1. file \in [Pos -> Cell] /\ flen \in 0..Capacity
  BY DEF TypeInv, FileType
<1> HIDE DEF d
<1>2. CASE d.ok
  <2>1. /\ d.off \in Nat /\ d.size \in Nat /\ d.number \in Nat /\ d.shift \in Int
        /\ d.off + d.size < flen
    BY <1>1, <1>2, ReadCdType DEF d
  <2>2. m \in Seq(Cell) /\ Len(m) = d.size
    <3>1. \A i \in 1..d.size : d.off + i - 1 \in Pos
      BY <1>1, <2>1, CapacityType DEF Pos
    <3>2. m \in [1..d.size -> Cell]
      BY <1>1, <3>1
    <3> QED
      BY <2>1, <3>2, CellsOfLength
  <2> HIDE DEF m
  <2>3. /\ mode = "none" /\ mode' = "append" /\ cdInMem' = TRUE /\ ret' = "OK"
        /\ cdMem' = m /\ cdMemPos' = d.size /\ pos' = AppendAt(d)
        /\ numberEntry' = d.number /\ cdSize' = d.size /\ shift' = d.shift
        /\ health' = IF d.ok /\ ~Good THEN "reused" ELSE health
        /\ UNCHANGED <<file, flen, cdStart, cdCur, info, scanned, opened, crc, entries,
                       committed, stub>>
    BY <1>2 DEF ZipOpenAppend, fileVars, entryVars, d, m
  <2>4. AppendAt(d) \in Nat
    BY <1>1, <2>1 DEF AppendAt
  <2>5. FileType' /\ CallType' /\ DirType'
    BY <1>1, <2>1, <2>3, <2>4 DEF TypeInv, FileType, CallType, DirType
  <2>6. MemType' /\ EntryType'
    BY <2>1, <2>2, <2>3 DEF TypeInv, MemType, EntryType
  <2>7. FlagType'
    BY <2>3, Zenon DEF TypeInv, FlagType
  <2>8. GhostType'
    BY <2>3 DEF TypeInv, GhostType
  <2>9. Writing' = TRUE
    BY <2>3 DEF Writing
  <2>10. FreshWhenClosed' /\ FoundWhenOpen'
    BY <2>3 DEF FreshWhenClosed, FoundWhenOpen
  <2>11. InMemoryWhenWriting' /\ WithinDirectory' /\ NamedWhenOpen'
    BY <2>1, <2>2, <2>3, <2>9
    DEF InMemoryWhenWriting, WithinDirectory, NamedWhenOpen, TypeInv, FreshWhenClosed
  <2> QED
    BY <2>5, <2>6, <2>7, <2>8, <2>10, <2>11 DEF TypeInv
<1>3. CASE ~d.ok
  <2>1. /\ ret' = "FORMAT"
        /\ health' = health
        /\ UNCHANGED <<file, flen, pos, mode, cdMem, cdMemPos, cdInMem, numberEntry,
                       cdStart, cdSize, cdCur, shift, info, scanned, opened, crc,
                       entries, committed, stub>>
    BY <1>3 DEF ZipOpenAppend, fileVars, entryVars, d
  <2> QED
    BY <2>1, StutterType
<1> QED
  BY <1>2, <1>3

LEMMA OpenReadType == ASSUME TypeInv, ZipOpenRead PROVE TypeInv'
<1> DEFINE d == ReadCd(file, flen)
<1>1. file \in [Pos -> Cell] /\ flen \in 0..Capacity
  BY DEF TypeInv, FileType
<1> HIDE DEF d
<1>2. CASE d.ok
  <2>1. d.off \in Nat /\ d.size \in Nat /\ d.number \in Nat /\ d.shift \in Int
    BY <1>1, <1>2, ReadCdType DEF d
  <2>2. /\ mode = "none" /\ mode' = "read" /\ ret' = "OK"
        /\ numberEntry' = d.number /\ cdSize' = d.size /\ shift' = d.shift
        /\ cdStart' = d.off
        /\ UNCHANGED <<file, flen, pos, cdMem, cdMemPos, cdInMem, cdCur, info, scanned,
                       opened, crc, entries, committed, health, stub>>
    BY <1>2 DEF ZipOpenRead, fileVars, entryVars, ghostVars, d
  <2>3. FileType' /\ CallType' /\ DirType'
    BY <2>1, <2>2 DEF TypeInv, FileType, CallType, DirType
  <2>4. MemType' /\ EntryType' /\ GhostType'
    BY <2>2 DEF TypeInv, MemType, EntryType, GhostType
  <2>5. FlagType'
    BY <2>2, Zenon DEF TypeInv, FlagType
  <2>6. Writing' = FALSE /\ Writing = FALSE
    BY <2>2 DEF Writing
  <2>7. FreshWhenClosed' /\ opened' = FALSE
    BY <2>2 DEF FreshWhenClosed, TypeInv
  <2>8. InMemoryWhenWriting'
    BY <2>2, <2>6, Zenon DEF InMemoryWhenWriting, TypeInv
  <2>9. WithinDirectory' /\ NamedWhenOpen' /\ FoundWhenOpen'
    BY <2>6, <2>7 DEF WithinDirectory, NamedWhenOpen, FoundWhenOpen
  <2> QED
    BY <2>3, <2>4, <2>5, <2>7, <2>8, <2>9 DEF TypeInv
<1>3. CASE ~d.ok
  <2>1. /\ ret' = "FORMAT"
        /\ UNCHANGED <<file, flen, pos, mode, cdMem, cdMemPos, cdInMem, numberEntry,
                       cdStart, cdSize, cdCur, shift, info, scanned, opened, crc,
                       entries, committed, health, stub>>
    BY <1>3 DEF ZipOpenRead, fileVars, entryVars, ghostVars, d
  <2> QED
    BY <2>1, StutterType
<1> QED
  BY <1>2, <1>3

\* A step of a writing session that leaves what Settled would: closing an entry, and
\* opening one.
LEMMA SettledStepType ==
  ASSUME TypeInv, Writing, NEW k \in Nat, Room(k),
         cdMem' = Settled.cdMem, cdMemPos' = Settled.cdMemPos,
         numberEntry' = Settled.number, entries' = Settled.entries, crc' = <<>>,
         UNCHANGED <<mode, cdInMem, cdStart, cdSize, cdCur, shift, scanned, committed,
                     health, stub>>,
         FileType', ret' \in {"OK", "PARAM", "FORMAT", "CRC", "END_OF_LIST"},
         info' \in Info, opened' \in BOOLEAN, opened' => info'.name \in Names
  PROVE  TypeInv'
<1>1. /\ Settled.number \in Nat /\ Settled.cdMem \in Seq(Cell)
      /\ Settled.cdMemPos \in 0..Len(Settled.cdMem)
      /\ Len(cdMem) <= Len(Settled.cdMem) /\ Settled.entries \in Seq(Entry)
  BY SettledType
<1>2. CallType' /\ MemType'
  BY <1>1 DEF TypeInv, CallType, MemType
<1>3. DirType' /\ EntryType'
  BY <1>1, ContentEmpty DEF TypeInv, DirType, EntryType
<1>4. GhostType'
  BY <1>1 DEF TypeInv, GhostType
<1>5. FlagType'
  BY Zenon DEF TypeInv, FlagType
<1>6. mode' \notin {"none", "read"}
  BY DEF Writing
<1>7. FreshWhenClosed' /\ FoundWhenOpen'
  BY <1>6 DEF FreshWhenClosed, FoundWhenOpen
<1>8. InMemoryWhenWriting'
  BY Zenon DEF TypeInv, InMemoryWhenWriting, Writing
<1>9. WithinDirectory'
  <2>1. /\ cdStart = 0 /\ cdSize <= Len(cdMem) /\ (scanned => cdCur < Len(cdMem))
        /\ cdSize \in Nat /\ cdCur \in Nat /\ Len(cdMem) \in Nat
    BY DEF TypeInv, WithinDirectory, DirType, MemType
  <2> QED
    BY <1>1, <2>1 DEF WithinDirectory
<1>10. NamedWhenOpen'
  BY DEF NamedWhenOpen
<1> QED
  BY <1>2, <1>3, <1>4, <1>5, <1>7, <1>8, <1>9, <1>10 DEF TypeInv

LEMMA WriteCloseType == ASSUME TypeInv, EntryWriteClose PROVE TypeInv'
<1> DEFINE s == Settled
<1> HIDE DEF s
<1>1. Writing /\ Room(0)
  BY DEF EntryWriteClose
<1>2. /\ s.file \in [Pos -> Cell] /\ s.flen \in 0..Capacity
      /\ s.pos \in Nat /\ s.info \in Info
  BY <1>1, SettledType DEF s
<1>3. /\ file' = s.file /\ flen' = s.flen /\ pos' = s.pos
      /\ info' = s.info /\ opened' = FALSE
      /\ ret' \in {"OK", "PARAM"}
  BY DEF EntryWriteClose, s
<1>4. FileType'
  BY <1>2, <1>3 DEF FileType
<1>5. /\ cdMem' = Settled.cdMem /\ cdMemPos' = Settled.cdMemPos
      /\ numberEntry' = Settled.number /\ entries' = Settled.entries /\ crc' = <<>>
      /\ UNCHANGED <<mode, cdInMem, cdStart, cdSize, cdCur, shift, scanned, committed,
                     health, stub>>
  BY DEF EntryWriteClose
<1> QED
  BY <1>1, <1>2, <1>3, <1>4, <1>5, SettledStepType

LEMMA WriteOpenType ==
  ASSUME TypeInv,
         NEW n \in Names, NEW u \in Nat, NEW z \in {Zip64Auto, Zip64Disable},
         NEW dd \in BOOLEAN, EntryWriteOpen(n, u, z, dd)
  PROVE  TypeInv'
<1> DEFINE s == Settled
           i == [name |-> n, dd |-> dd, zip64 |-> z, crc |-> <<>>, csize |-> 0,
                 usize |-> u, off |-> s.pos]
           k == IF dd THEN 3 ELSE 2
<1> HIDE DEF s
<1>1. Writing /\ Room(k) /\ k \in Nat /\ k >= 2
  BY DEF EntryWriteOpen
<1> HIDE DEF k
<1>2. /\ s.file \in [Pos -> Cell] /\ s.flen \in 0..Capacity
      /\ s.pos \in Nat /\ s.info \in Info /\ s.cdMem \in Seq(Cell)
      /\ s.pos + k + Len(s.cdMem) + 1 <= Capacity
  BY <1>1, SettledType DEF s
<1>3. i \in Info /\ i.name \in Names
  BY <1>2, ContentEmpty DEF Info
<1> HIDE DEF i
<1>4. /\ cdMem' = Settled.cdMem /\ cdMemPos' = Settled.cdMemPos
      /\ numberEntry' = Settled.number /\ entries' = Settled.entries /\ crc' = <<>>
      /\ UNCHANGED <<mode, cdInMem, cdStart, cdSize, cdCur, shift, scanned, committed,
                     health, stub>>
  BY DEF EntryWriteOpen
<1>5. CASE s.ok
  <2>1. /\ file' = [s.file EXCEPT ![s.pos] = LocalHeader(i, LocalZip64(i))]
        /\ pos' = s.pos + 1 /\ flen' = Larger(s.flen, s.pos + 1)
        /\ info' = i /\ opened' = TRUE /\ ret' = "OK"
    BY <1>5 DEF EntryWriteOpen, s, i
  <2>2. LocalHeader(i, LocalZip64(i)) \in Cell
    BY <1>3, RecordTypes DEF LocalZip64
  <2>3. Larger(s.flen, s.pos + 1) \in 0..Capacity
    BY <1>1, <1>2, CapacityType DEF Larger
  <2>4. FileType'
    <3>1. file' \in [Pos -> Cell]
      BY <1>2, <2>1, <2>2
    <3>2. flen' \in 0..Capacity /\ pos' \in Nat
      BY <1>2, <2>1, <2>3
    <3> QED
      BY <3>1, <3>2 DEF FileType
  <2> QED
    BY <1>1, <1>3, <1>4, <2>1, <2>4, SettledStepType
<1>6. CASE ~s.ok
  <2>1. /\ file' = s.file /\ pos' = s.pos /\ flen' = s.flen
        /\ info' = s.info /\ opened' = FALSE /\ ret' = "PARAM"
    BY <1>6 DEF EntryWriteOpen, s
  <2>2. FileType'
    BY <1>2, <2>1 DEF FileType
  <2> QED
    BY <1>1, <1>2, <1>4, <2>1, <2>2, SettledStepType
<1> QED
  BY <1>5, <1>6

LEMMA WriteType == ASSUME TypeInv, NEW c \in Chunks, EntryWrite(c) PROVE TypeInv'
<1>1. /\ file \in [Pos -> Cell] /\ flen \in 0..Capacity /\ pos \in Nat
      /\ crc \in Content /\ Len(cdMem) \in Nat
  BY DEF TypeInv, FileType, EntryType, MemType
<1>2. /\ Writing /\ Room(1)
      /\ file' = [file EXCEPT ![pos] = DataCell(c)]
      /\ pos' = pos + 1 /\ flen' = Larger(flen, pos + 1)
      /\ crc' = Append(crc, c) /\ ret' = "OK"
      /\ UNCHANGED <<mode, cdMem, cdMemPos, cdInMem, numberEntry, cdStart, cdSize,
                     shift, cdCur, info, scanned, opened, entries, committed, health,
                     stub>>
  BY DEF EntryWrite, dirVars, ghostVars
<1>3. FileType'
  <2>1. DataCell(c) \in Cell
    BY RecordTypes
  <2>2. file' \in [Pos -> Cell]
    BY <1>1, <1>2, <2>1
  <2>3. pos + 1 <= Capacity
    BY <1>1, <1>2, CapacityType DEF Room
  <2>4. pos' \in Nat /\ flen' \in 0..Capacity
    BY <1>1, <1>2, <2>3, CapacityType DEF Larger
  <2> QED
    BY <2>2, <2>4 DEF FileType
<1>4. CallType' /\ DirType'
  BY <1>2 DEF TypeInv, CallType, DirType
<1>5. MemType' /\ EntryType' /\ GhostType'
  <2>1. Append(crc, c) \in Content
    BY <1>1 DEF Content
  <2> QED
    BY <1>2, <2>1 DEF TypeInv, MemType, EntryType, GhostType
<1>6. FlagType'
  BY <1>2, Zenon DEF TypeInv, FlagType
<1>7. FreshWhenClosed' /\ FoundWhenOpen'
  BY <1>2 DEF FreshWhenClosed, FoundWhenOpen, Writing
<1>8. InMemoryWhenWriting' /\ WithinDirectory' /\ NamedWhenOpen'
  BY <1>2, Zenon DEF TypeInv, InMemoryWhenWriting, WithinDirectory, NamedWhenOpen, Writing
<1> QED
  BY <1>3, <1>4, <1>5, <1>6, <1>7, <1>8 DEF TypeInv

\* A session that ends, whatever cells its directory wrote.
LEMMA WrittenType ==
  ASSUME NEW f \in [Pos -> Cell], NEW p \in Nat, NEW cells \in Seq(Cell)
  PROVE  Written(f, p, cells) \in [Pos -> Cell]
<1>1. ASSUME NEW q \in Pos
      PROVE  (IF q - p + 1 \in 1..Len(cells) THEN cells[q - p + 1] ELSE f[q]) \in Cell
  BY CapacityType DEF Pos
<1> QED
  BY <1>1 DEF Written

LEMMA DirectoryOfType ==
  ASSUME TypeInv, Writing, NEW k \in Nat, Room(k)
  PROVE  /\ DirectoryOf(Settled) \in Seq(Cell)
         /\ Settled.pos + k + Len(DirectoryOf(Settled)) <= Capacity
<1> DEFINE s == Settled
<1> HIDE DEF s
<1>1. /\ s.pos \in Nat /\ s.number \in Nat /\ s.cdMem \in Seq(Cell)
      /\ s.pos + k + Len(s.cdMem) + 1 <= Capacity
  BY SettledType DEF s
<1>2. EndRecord(s.number, Len(s.cdMem), s.pos) \in Cell
  BY <1>1, RecordTypes
<1>3. CASE s.cdMem = <<>> /\ s.number > 0
  BY <1>1, <1>3, CapacityType DEF DirectoryOf, s
<1>4. CASE ~(s.cdMem = <<>> /\ s.number > 0)
  <2>1. DirectoryOf(s) = Append(s.cdMem, EndRecord(s.number, Len(s.cdMem), s.pos))
    BY <1>4 DEF DirectoryOf
  <2> QED
    BY <1>1, <1>2, <2>1, CapacityType DEF s
<1> QED
  BY <1>3, <1>4

LEMMA CloseWriteType == ASSUME TypeInv, ZipCloseWrite PROVE TypeInv'
<1> DEFINE s == Settled
           cells == IF s.ok THEN DirectoryOf(s) ELSE <<>>
<1>1. Writing /\ Room(0)
  BY DEF ZipCloseWrite
<1>2. /\ s.file \in [Pos -> Cell] /\ s.flen \in 0..Capacity
      /\ s.pos \in Nat /\ s.pos <= Capacity /\ s.entries \in Seq(Entry)
  <2>1. /\ s.pos \in Nat /\ s.cdMem \in Seq(Cell)
        /\ s.pos + 0 + Len(s.cdMem) + 1 <= Capacity
    BY <1>1, SettledType
  <2> QED
    BY <1>1, <2>1, SettledType, CapacityType
<1>3. cells \in Seq(Cell) /\ s.pos + Len(cells) <= Capacity
  BY <1>1, <1>2, DirectoryOfType
<1>4. /\ file' = Written(s.file, s.pos, cells)
      /\ flen' = Larger(s.flen, s.pos + Len(cells)) /\ entries' = s.entries
      /\ health' = IF cells = <<>> THEN Died ELSE health
      /\ committed' = IF cells = <<>> \/ ~Good THEN committed ELSE s.entries
      /\ ret' \in {"OK", "PARAM", "FORMAT"} /\ FreshHandle /\ stub' = stub
  BY DEF ZipCloseWrite
<1> HIDE DEF s, cells
<1>5. file' \in [Pos -> Cell] /\ flen' \in 0..Capacity
  BY <1>2, <1>3, <1>4, WrittenType, CapacityType DEF Larger
<1>6. GhostType'
  BY <1>2, <1>4 DEF TypeInv, GhostType, Died
<1> QED
  BY <1>4, <1>5, <1>6, FreshType

LEMMA CrashType ==
  ASSUME TypeInv, Crash \/ \E k \in 1..(Capacity - 1) : CrashInClose(k)
  PROVE  TypeInv'
<1>1. GhostType'
  BY DEF Crash, CrashInClose, TypeInv, GhostType, Died
<1>2. CASE Crash
  BY <1>1, <1>2, FreshType DEF Crash, TypeInv, FileType, fileVars
<1>3. CASE \E k \in 1..(Capacity - 1) : CrashInClose(k)
  <2>1. PICK k \in 1..(Capacity - 1) : CrashInClose(k)
    BY <1>3
  <2> DEFINE c == SubSeq(DirectoryOf(Settled), 1, k)
  <2>2. /\ Writing /\ Room(0) /\ ~opened /\ k < Len(DirectoryOf(Settled))
        /\ file' = Written(file, pos, c) /\ flen' = Larger(flen, pos + k)
        /\ FreshHandle /\ ret' = "OK"
    BY <2>1 DEF CrashInClose
  <2>3. /\ DirectoryOf(Settled) \in Seq(Cell)
        /\ pos + Len(DirectoryOf(Settled)) <= Capacity
    BY <2>2, DirectoryOfType, SettledFields DEF TypeInv, FileType
  <2>4. c \in Seq(Cell)
    BY <2>2, <2>3, CapacityType
  <2> HIDE DEF c
  <2>5. file' \in [Pos -> Cell] /\ flen' \in 0..Capacity
    BY <2>2, <2>3, <2>4, WrittenType, CapacityType DEF Larger, TypeInv, FileType
  <2> QED
    BY <1>1, <2>2, <2>5, FreshType
<1> QED
  BY <1>2, <1>3

LEMMA PrependType ==
  ASSUME TypeInv, NEW k \in 1..MaxStub, NEW c \in Chunks, Prepend(k, c)
  PROVE  TypeInv'
<1> DEFINE f == [q \in Pos |-> IF q < k THEN DataCell(c) ELSE At(file, flen, q - k)]
<1>1. /\ file \in [Pos -> Cell] /\ flen \in 0..Capacity /\ k \in Nat
  BY BoundType DEF TypeInv, FileType
<1>2. /\ mode = "none" /\ flen + k <= Capacity /\ file' = f /\ flen' = flen + k
      /\ stub' = k
      /\ UNCHANGED <<pos, mode, cdMem, cdMemPos, cdInMem, numberEntry, cdStart, cdSize,
                     cdCur, shift, info, scanned, opened, crc, ret, entries, committed,
                     health>>
  BY DEF Prepend, dirVars, entryVars
<1>3. f \in [Pos -> Cell]
  BY <1>1, CapacityType, RecordTypes DEF At, Pos
<1> HIDE DEF f
<1>4. FileType' /\ CallType' /\ DirType'
  BY <1>1, <1>2, <1>3, CapacityType DEF TypeInv, FileType, CallType, DirType
<1>5. MemType' /\ EntryType'
  BY <1>2 DEF TypeInv, MemType, EntryType
<1>6. GhostType'
  BY <1>2, BoundType DEF TypeInv, GhostType
<1>7. FlagType'
  BY <1>2, Zenon DEF TypeInv, FlagType
<1>8. FreshWhenClosed' /\ InMemoryWhenWriting' /\ WithinDirectory' /\ NamedWhenOpen'
      /\ FoundWhenOpen'
  BY <1>2, Zenon DEF TypeInv, FreshWhenClosed, InMemoryWhenWriting, WithinDirectory,
                     NamedWhenOpen, FoundWhenOpen, Writing
<1> QED
  BY <1>4, <1>5, <1>6, <1>7, <1>8 DEF TypeInv

\* A header is read from within the directory, in memory as well as in the file.
LEMMA CdCellType ==
  ASSUME TypeInv, NEW p \in Nat
  PROVE  /\ CdCell(p) \in Cell
         /\ Writing => \/ CdCell(p).t = "hole"
                       \/ p < Len(cdMem)
<1>1. /\ file \in [Pos -> Cell] /\ flen \in 0..Capacity /\ cdMem \in Seq(Cell)
      /\ cdInMem = Writing
  BY DEF TypeInv, FileType, MemType, InMemoryWhenWriting
<1>2. CASE Writing
  <2>1. CdCell(p) = IF p < Len(cdMem) THEN cdMem[p + 1] ELSE Hole
    BY <1>1, <1>2 DEF CdCell, CdCellAt
  <2>2. Hole.t = "hole" /\ Hole \in Cell
    BY RecordTypes DEF Hole
  <2> QED
    BY <1>1, <2>1, <2>2
<1>3. CASE ~Writing
  <2>1. CdCell(p) = IF p \in 0..(flen - 1) THEN file[p] ELSE Hole
    BY <1>1, <1>3 DEF CdCell, CdCellAt, At
  <2> QED
    BY <1>1, <1>3, <2>1, RecordTypes, CapacityType DEF Pos
<1> QED
  BY <1>2, <1>3

LEMMA InfoOfType ==
  ASSUME NEW c \in Cell, c.t = "central"
  PROVE  InfoOf(c) \in Info
BY DEF InfoOf, Info, Cell, Hole

LEMMA GotoType ==
  ASSUME TypeInv, Looking, ~opened, NEW p \in Nat, Writing => p <= Len(cdMem), Goto(p)
  PROVE  TypeInv'
<1> DEFINE c == CdCell(p)
           after == IF c.t = "hole" THEN p ELSE p + 1
<1>1. c \in Cell /\ (Writing => c.t = "hole" \/ p < Len(cdMem))
  BY CdCellType
<1> HIDE DEF c
<1>2. /\ cdCur' = p
      /\ \/ c.t = "central" /\ info' = InfoOf(c) /\ scanned' = TRUE /\ ret' = "OK"
         \/ /\ info' = NoInfo /\ scanned' = FALSE
            /\ ret' \in {"END_OF_LIST", "FORMAT"}
      /\ UNCHANGED <<file, flen, mode, cdMem, cdInMem, numberEntry, cdStart, cdSize,
                     shift, opened, crc, entries, committed, health, stub>>
  BY DEF Goto, c, fileVars, ghostVars
<1>3. \/ Writing /\ cdMemPos' = after /\ pos' = pos
      \/ ~Writing /\ pos' = after /\ cdMemPos' = cdMemPos
  BY DEF Goto, c, TypeInv, InMemoryWhenWriting
<1>4. after \in Nat /\ (Writing => after <= Len(cdMem))
  BY <1>1 DEF TypeInv, MemType
<1> HIDE DEF after
<1>5. FileType' /\ CallType' /\ DirType'
  BY <1>2, <1>3, <1>4 DEF TypeInv, FileType, CallType, DirType
<1>6. MemType'
  BY <1>2, <1>3, <1>4 DEF TypeInv, MemType
<1>7. EntryType' /\ GhostType'
  BY <1>1, <1>2, InfoOfType, ContentEmpty DEF TypeInv, EntryType, GhostType
<1>8. FlagType'
  BY <1>2, Zenon DEF TypeInv, FlagType
<1>9. mode' # "none" /\ opened' = FALSE
  <2>1. opened = FALSE
    BY Zenon DEF TypeInv, FlagType
  <2> QED
    BY <1>2, <2>1 DEF Looking
<1>10. FreshWhenClosed' /\ NamedWhenOpen' /\ FoundWhenOpen'
  BY <1>9 DEF FreshWhenClosed, NamedWhenOpen, FoundWhenOpen
<1>11. InMemoryWhenWriting'
  BY <1>2, Zenon DEF TypeInv, InMemoryWhenWriting, Writing
<1>12. WithinDirectory'
  <2>1. Writing' = Writing
    BY <1>2 DEF Writing
  <2>2. scanned' /\ Writing => p < Len(cdMem)
    BY <1>1, <1>2
  <2> QED
    BY <1>2, <2>1, <2>2 DEF TypeInv, WithinDirectory
<1> QED
  BY <1>5, <1>6, <1>7, <1>8, <1>10, <1>11, <1>12 DEF TypeInv

LEMMA LookType == ASSUME TypeInv, LookNext PROVE TypeInv'
<1>1. /\ cdStart \in Nat /\ cdSize \in Nat /\ cdCur \in Nat /\ Len(cdMem) \in Nat
      /\ Writing => /\ cdStart = 0 /\ cdSize <= Len(cdMem)
                    /\ scanned => cdCur < Len(cdMem)
  BY DEF TypeInv, DirType, MemType, WithinDirectory
<1>2. CASE GotoFirstEntry
  BY <1>1, <1>2, GotoType DEF GotoFirstEntry
<1>3. CASE GotoNextEntry
  <2>1. Looking /\ ~opened /\ scanned /\ Goto(cdCur + 1)
    BY <1>3 DEF GotoNextEntry
  <2> QED
    BY <1>1, <2>1, GotoType
<1>4. CASE \E p \in Pos : GotoEntry(p)
  <2>1. PICK p \in Pos : GotoEntry(p)
    BY <1>4
  <2>2. p \in Nat
    BY CapacityType DEF Pos
  <2>3. CASE p < cdStart \/ p > cdStart + cdSize
    BY <2>1, <2>3, StutterType
    DEF GotoEntry, fileVars, dirVars, entryVars, ghostVars
  <2>4. CASE ~(p < cdStart \/ p > cdStart + cdSize)
    <3>1. Looking /\ ~opened /\ Goto(p)
      BY <2>1, <2>4 DEF GotoEntry
    <3>2. Writing => p <= Len(cdMem)
      BY <1>1, <2>2, <2>4
    <3> QED
      BY <2>2, <3>1, <3>2, GotoType
  <2> QED
    BY <2>3, <2>4
<1>5. CASE \E n \in Names : LocateEntry(n)
  <2>1. PICK n \in Names : LocateEntry(n)
    BY <1>5
  <2>2. CASE scanned /\ info.name = n
    <3>1. /\ ret' = "OK"
          /\ UNCHANGED <<fileVars, mode, pos, dirVars, cdCur, entryVars, ghostVars>>
      BY <2>1, <2>2 DEF LocateEntry
    <3> QED
      BY <3>1, StutterType DEF fileVars, dirVars, entryVars, ghostVars
  <2>3. CASE ~(scanned /\ info.name = n)
    <3>1. /\ Looking /\ ~opened
          /\ \/ \E p \in Walk : Goto(p)
             \/ \E p \in WalkEnd : Goto(p)
      BY <2>1, <2>3 DEF LocateEntry
    <3>2. ASSUME NEW p \in Walk PROVE p \in Nat /\ (Writing => p <= Len(cdMem))
      <4>1. p \in Nat /\ CdCell(p).t = "central"
        BY <1>1, CapacityType DEF Walk
      <4> QED
        BY <1>1, <4>1, CdCellType
    <3>3. ASSUME NEW p \in WalkEnd PROVE p \in Nat /\ (Writing => p <= Len(cdMem))
      <4>1. p \in Nat /\ p >= cdStart /\ \A q \in cdStart..(p - 1) : q \in Walk
        BY <1>1, CapacityType DEF WalkEnd
      <4>2. CASE p = cdStart
        BY <1>1, <4>1, <4>2
      <4>3. CASE p # cdStart
        <5>1. p - 1 \in Walk
          BY <1>1, <4>1, <4>3
        <5>2. p - 1 \in Nat /\ CdCell(p - 1).t = "central"
          BY <1>1, <5>1, CapacityType DEF Walk
        <5>3. Writing => p - 1 < Len(cdMem)
          BY <5>2, CdCellType
        <5> QED
          BY <1>1, <4>1, <5>3
      <4> QED
        BY <4>2, <4>3
    <3> QED
      BY <3>1, <3>2, <3>3, GotoType
  <2> QED
    BY <2>2, <2>3
<1> QED
  BY <1>2, <1>3, <1>4, <1>5 DEF LookNext

LEMMA PayloadType == ASSUME NEW c \in Cell PROVE Payload(c) \in Chunks \cup {Junk}
BY DEF Payload, Cell, Hole

LEMMA ReadType == ASSUME TypeInv, ReadNext PROVE TypeInv'
<1>1. /\ file \in [Pos -> Cell] /\ flen \in 0..Capacity /\ pos \in Nat
      /\ info \in Info /\ crc \in Content /\ shift \in Int /\ Len(crc) \in Nat
  BY DEF TypeInv, FileType, EntryType, DirType, Content
<1>2. CASE ZipOpenRead
  BY <1>2, OpenReadType
<1>3. CASE ZipCloseRead
  <2>1. ret' \in {"OK", "CRC"} /\ FreshHandle /\ UNCHANGED <<fileVars, ghostVars>>
    BY <1>3 DEF ZipCloseRead
  <2>2. GhostType'
    BY <2>1 DEF TypeInv, GhostType, ghostVars
  <2> QED
    BY <1>1, <2>1, <2>2, FreshType DEF fileVars
<1>4. CASE EntryReadOpen
  <2>1. /\ mode = "read" /\ mode' = mode
        /\ UNCHANGED <<file, flen, cdMem, cdMemPos, cdInMem, numberEntry, cdStart,
                       cdSize, cdCur, info, scanned, entries, committed, health, stub>>
    BY <1>4 DEF EntryReadOpen, fileVars, ghostVars
  <2>2. \/ /\ opened' = TRUE /\ crc' = <<>> /\ ret' = "OK"
           /\ pos' \in Nat /\ shift' \in Int /\ info'.off + shift' \in Nat
        \/ UNCHANGED <<opened, crc, pos, shift>> /\ ret' = "FORMAT"
    <3>1. info.off \in Nat
      BY <1>1 DEF Info
    <3>2. At(file, flen, LocalAt).t = "local" => LocalAt \in Nat
      BY <1>1 DEF At, Hole
    <3> QED
      BY <1>1, <1>4, <2>1, <3>1, <3>2 DEF EntryReadOpen, LocalAt
  <2>3. FileType' /\ CallType' /\ DirType'
    BY <1>1, <2>1, <2>2 DEF TypeInv, FileType, CallType, DirType
  <2>4. MemType' /\ EntryType' /\ GhostType'
    BY <2>1, <2>2, ContentEmpty DEF TypeInv, MemType, EntryType, GhostType
  <2>5. FlagType'
    BY <2>1, <2>2, Zenon DEF TypeInv, FlagType
  <2>6. Writing' = FALSE /\ Writing = FALSE
    BY <2>1 DEF Writing
  <2>7. FreshWhenClosed' /\ WithinDirectory' /\ NamedWhenOpen'
    BY <2>1, <2>6 DEF FreshWhenClosed, WithinDirectory, NamedWhenOpen
  <2>8. InMemoryWhenWriting'
    BY <2>1, <2>6, Zenon DEF TypeInv, InMemoryWhenWriting
  <2>9. FoundWhenOpen'
    BY <2>1, <2>2 DEF TypeInv, FoundWhenOpen
  <2> QED
    BY <2>3, <2>4, <2>5, <2>7, <2>8, <2>9 DEF TypeInv
<1>5. CASE EntryRead \/ \E w \in BOOLEAN : EntryReadClose(w)
  <2>1. /\ mode = "read"
        /\ ret' \in {"OK", "FORMAT", "CRC"}
        /\ opened' = opened \/ opened' = FALSE
        /\ UNCHANGED <<file, flen, mode, cdMem, cdMemPos, cdInMem, numberEntry, cdStart,
                       cdSize, shift, cdCur, info, scanned, entries, committed, health,
                       stub>>
    BY <1>5 DEF EntryRead, EntryReadClose, fileVars, dirVars, ghostVars
  <2>2. pos' \in Nat /\ crc' \in Content
    <3>1. CASE EntryRead
      <4>1. pos \in Pos
        BY <1>1, <3>1, CapacityType DEF EntryRead, Pos
      <4>2. Payload(file[pos]) \in Chunks \cup {Junk}
        BY <1>1, <4>1, PayloadType
      <4> QED
        BY <1>1, <3>1, <4>2 DEF EntryRead, Content
    <3>2. CASE \E w \in BOOLEAN : EntryReadClose(w)
      <4>1. info.off + shift \in Nat
        BY <3>2 DEF EntryReadClose, TypeInv, FoundWhenOpen
      <4>2. DescriptorAt \in Nat
        BY <1>1, <4>1 DEF DescriptorAt, LocalAt
      <4> QED
        BY <1>1, <3>2, <4>2, ContentEmpty DEF EntryReadClose
    <3> QED
      BY <1>5, <3>1, <3>2
  <2>3. FileType' /\ CallType' /\ DirType'
    BY <1>1, <2>1, <2>2 DEF TypeInv, FileType, CallType, DirType
  <2>4. MemType' /\ EntryType' /\ GhostType'
    BY <2>1, <2>2 DEF TypeInv, MemType, EntryType, GhostType
  <2>5. FlagType'
    BY <2>1, Zenon DEF TypeInv, FlagType
  <2>6. Writing' = FALSE /\ Writing = FALSE
    BY <2>1 DEF Writing
  <2>7. FreshWhenClosed' /\ WithinDirectory' /\ NamedWhenOpen'
    BY <2>1, <2>6 DEF FreshWhenClosed, WithinDirectory, NamedWhenOpen
  <2>8. InMemoryWhenWriting'
    BY <2>1, <2>6, Zenon DEF TypeInv, InMemoryWhenWriting
  <2>9. FoundWhenOpen'
    BY <2>1 DEF TypeInv, FoundWhenOpen
  <2> QED
    BY <2>3, <2>4, <2>5, <2>7, <2>8, <2>9 DEF TypeInv
<1> QED
  BY <1>2, <1>3, <1>4, <1>5 DEF ReadNext

LEMMA InitType == Init => TypeInv
<1> SUFFICES ASSUME Init PROVE TypeInv
  OBVIOUS
<1>1. FileType /\ CallType /\ DirType
  BY RecordTypes, CapacityType DEF Init, FileType, CallType, DirType
<1>2. MemType /\ EntryType
  BY ContentEmpty DEF Init, MemType, EntryType
<1>3. GhostType
  BY BoundType DEF Init, GhostType
<1>4. FlagType
  BY Zenon DEF Init, FlagType
<1>5. mode = "none" /\ Writing = FALSE
  BY DEF Init, Writing
<1>6. FreshWhenClosed /\ WithinDirectory /\ NamedWhenOpen /\ FoundWhenOpen
  BY <1>5 DEF Init, FreshWhenClosed, WithinDirectory, NamedWhenOpen, FoundWhenOpen
<1>7. InMemoryWhenWriting
  BY <1>5, Zenon DEF Init, InMemoryWhenWriting
<1> QED
  BY <1>1, <1>2, <1>3, <1>4, <1>6, <1>7 DEF TypeInv

LEMMA NextType == TypeInv /\ [Next]_vars => TypeInv'
<1> SUFFICES ASSUME TypeInv, [Next]_vars PROVE TypeInv'
  OBVIOUS
<1>1. CASE WriteNext
  <2>1. ASSUME NEW n \in Names, NEW u \in Declared, NEW z \in Zip64Modes,
               NEW dd \in Descriptors, EntryWriteOpen(n, u, z, dd)
        PROVE  TypeInv'
    BY <2>1, DeclaredType, WriteOpenType
  <2> QED
    BY <1>1, <2>1, CreateType, AppendType, CloseWriteType, WriteType, WriteCloseType
    DEF WriteNext
<1>2. CASE LookNext
  BY <1>2, LookType
<1>3. CASE ReadNext
  BY <1>3, ReadType
<1>4. CASE EnvNext
  BY <1>4, CrashType, PrependType DEF EnvNext
<1>5. CASE UNCHANGED vars
  <2>1. ret \in {"OK", "PARAM", "FORMAT", "CRC", "END_OF_LIST"}
    BY DEF TypeInv, CallType
  <2> QED
    BY <1>5, <2>1, StutterType DEF vars, fileVars, dirVars, entryVars, ghostVars
<1> QED
  BY <1>1, <1>2, <1>3, <1>4, <1>5 DEF Next

\* Every variable of the handle keeps its type, whatever the bounds, the callers
\* and the crashes: offsets and positions never leave the file or the directory.
THEOREM TypeCorrect == Spec => []TypeOK
<1>1. Spec => []TypeInv
  BY InitType, NextType, PTL DEF Spec
<1> QED
  BY <1>1, TypeInvImpliesTypeOK, PTL

-----------------------------------------------------------------------------
(* The inductive invariant *)

\* Header c of a directory describes entry e, all of whose cells lie below b.
DescribedBelow(f, c, sh, e, b) ==
  /\ c \in Cell /\ Describes(f, c, sh, e)
  /\ At(f, Capacity, c.off + sh).dd = c.dd
  /\ c.off + sh + Len(e.data) + (IF c.dd THEN 1 ELSE 0) < b

\* Below b a file holds no header of a directory, no end record and no gap.
NoDirectoryBelow(f, b) ==
  \A q \in Pos : q < b => f[q].t \notin {"central", "hole", "end"}

\* A file f of length n, written up to p, whose entries es end below b and are
\* described, one by one, by the directory mem that will follow it.
Sound(f, n, p, b, mem, mp, es) ==
  /\ p <= n /\ n <= p + Len(mem) + 1
  /\ Len(mem) = Len(es) /\ mp = Len(mem)
  /\ \A i \in 1..Len(es) : DescribedBelow(f, mem[i], 0, es[i], b)

\* Where the entries that were closed end.
Closing == IF opened THEN info.off ELSE pos

\* The entry being written: its local header, and behind it what went through.
OpenEntryInv ==
  /\ pos = info.off + 1 + Len(crc)
  /\ file[info.off].t = "local" /\ file[info.off].name = info.name
  /\ file[info.off].dd = info.dd
  /\ \A i \in 1..Len(crc) : file[info.off + i] = DataCell(crc[i])

WritingInv ==
  /\ stub = 0 /\ Sound(file, flen, pos, Closing, cdMem, cdMemPos, entries)
  /\ opened => OpenEntryInv

\* A finished archive ends with its directory and the end record that leads to it.
DirStart == flen - 1 - Len(entries)
FinishedInv ==
  /\ DirStart >= stub
  /\ file[flen - 1].t = "end" /\ file[flen - 1].size = Len(entries)
  /\ file[flen - 1].off = DirStart - stub
  /\ stub > 0 => NoDirectoryBelow(file, DirStart)
  /\ \A i \in 1..Len(entries) :
       DescribedBelow(file, file[DirStart + i - 1], stub, entries[i], DirStart)

DirectoryInv == Good => IF Writing THEN WritingInv ELSE FinishedInv

\* The handle of ZipArchive leaves nothing of an older directory below what it writes.
ClearInv == Good => NoDirectoryBelow(file, IF Writing THEN pos ELSE DirStart)

\* The count that goes to the end record, where no header can fail.
CountInv ==
  /\ Good => IF Writing THEN numberEntry = Len(cdMem)
             ELSE file[flen - 1].number = Len(entries)
  /\ Writing /\ opened => info.zip64 = Zip64Auto

-----------------------------------------------------------------------------
(* Cells and what describes them *)

LEMMA CentralFields ==
  ASSUME NEW c \in Cell, c.t = "central"
  PROVE  c.off \in Nat /\ c.dd \in BOOLEAN
BY DEF Cell, Hole

LEMMA NotAHole ==
  ASSUME NEW f, NEW p \in Int, At(f, Capacity, p).t = "local"
  PROVE  p \in Pos /\ At(f, Capacity, p) = f[p]
BY DEF At, Hole, Pos

LEMMA EntryFields ==
  ASSUME NEW e \in Entry
  PROVE  Len(e.data) \in Nat /\ e.data \in Content
BY DEF Entry, Content

\* A description outlives what happens at or above the bound of its entry, and
\* moves with the cells of its entry.
LEMMA Frame ==
  ASSUME NEW f, NEW g, NEW c, NEW sh \in Int, NEW e \in Entry,
         NEW b \in Int, NEW k \in Nat, DescribedBelow(f, c, sh, e, b),
         \A q \in Nat : q < b => At(g, Capacity, q + k) = At(f, Capacity, q)
  PROVE  DescribedBelow(g, c, sh + k, e, b + k)
<1> DEFINE n == Len(e.data)
           p == c.off + sh
<1>1. /\ c \in Cell /\ c.t = "central" /\ c.name = e.name /\ c.crc = e.data /\ c.csize = n
      /\ At(f, Capacity, p).t = "local" /\ At(f, Capacity, p).name = e.name
      /\ At(f, Capacity, p).dd = c.dd
      /\ \A i \in 1..n : At(f, Capacity, p + i) = DataCell(e.data[i])
      /\ p + n + (IF c.dd THEN 1 ELSE 0) < b
  BY DEF DescribedBelow, Describes
<1>2. IF c.dd
      THEN /\ At(f, Capacity, p + n + 1).t = "descriptor"
           /\ At(f, Capacity, p + n + 1).crc = e.data
      ELSE At(f, Capacity, p).crc = e.data /\ At(f, Capacity, p).csize = n
  BY DEF DescribedBelow, Describes
<1>3. c.off \in Nat /\ c.dd \in BOOLEAN /\ n \in Nat /\ c.off + (sh + k) = p + k
  BY <1>1, CentralFields, EntryFields
<1>4. p \in Nat
  BY <1>1, <1>3, NotAHole DEF Pos
<1> HIDE DEF n, p
<1>5. At(g, Capacity, p + k) = At(f, Capacity, p)
  BY <1>1, <1>3, <1>4
<1>6. \A i \in 1..n : At(g, Capacity, p + k + i) = DataCell(e.data[i])
  <2> TAKE i \in 1..n
  <2>1. p + i \in Nat /\ p + i < b /\ (p + i) + k = p + k + i
    BY <1>1, <1>3, <1>4
  <2> QED
    BY <1>1, <2>1
<1>7. c.dd => At(g, Capacity, p + k + n + 1) = At(f, Capacity, p + n + 1)
  <2> SUFFICES ASSUME c.dd PROVE At(g, Capacity, p + k + n + 1) = At(f, Capacity, p + n + 1)
    OBVIOUS
  <2>1. p + n + 1 \in Nat /\ p + n + 1 < b /\ (p + n + 1) + k = p + k + n + 1
    BY <1>1, <1>3, <1>4
  <2> QED
    BY <2>1
<1>8. c.off + (sh + k) + n + (IF c.dd THEN 1 ELSE 0) < b + k
  BY <1>1, <1>3, <1>4
<1>9. Describes(g, c, sh + k, e)
  BY <1>1, <1>2, <1>3, <1>5, <1>6, <1>7 DEF Describes, n
<1>10. At(g, Capacity, c.off + (sh + k)).dd = c.dd
  BY <1>1, <1>3, <1>5
<1> QED
  BY <1>1, <1>8, <1>9, <1>10 DEF DescribedBelow, n

\* The same where nothing moves, and the bound may grow.
LEMMA Unmoved ==
  ASSUME NEW f, NEW g, NEW c, NEW sh \in Int, NEW e \in Entry,
         NEW b \in Int, NEW b2 \in Int, b <= b2, DescribedBelow(f, c, sh, e, b),
         \A q \in Pos : q < b => g[q] = f[q]
  PROVE  DescribedBelow(g, c, sh, e, b2)
<1>1. \A q \in Nat : q < b => At(g, Capacity, q + 0) = At(f, Capacity, q)
  BY CapacityType DEF At, Pos
<1>2. DescribedBelow(g, c, sh + 0, e, b + 0)
  BY <1>1, Frame
<1>3. DescribedBelow(g, c, sh, e, b)
  BY <1>2
<1>4. c \in Cell /\ c.t = "central" /\ Describes(g, c, sh, e)
      /\ At(g, Capacity, c.off + sh).dd = c.dd
      /\ c.off + sh + Len(e.data) + (IF c.dd THEN 1 ELSE 0) < b
  BY <1>3 DEF DescribedBelow, Describes
<1>5. c.off \in Nat /\ c.dd \in BOOLEAN /\ Len(e.data) \in Nat
  BY <1>4, CentralFields, EntryFields
<1> QED
  BY <1>4, <1>5 DEF DescribedBelow

-----------------------------------------------------------------------------
(* What an open finds in a finished archive *)

\* A directory header below the end of the file is none of its other records.
LEMMA DescribedCell ==
  ASSUME NEW f, NEW c, NEW sh, NEW e, NEW b, DescribedBelow(f, c, sh, e, b)
  PROVE  c \in Cell /\ c.t = "central"
BY DEF DescribedBelow, Describes

LEMMA FinishedRead ==
  ASSUME TypeInv, FinishedInv
  PROVE  LET d == ReadCd(file, flen)
             n == Len(entries)
         IN /\ n \in Nat /\ DirStart \in Nat /\ stub \in Nat /\ flen = DirStart + n + 1
            /\ d.ok /\ d.size = n /\ d.number = file[flen - 1].number
            /\ n > 0 => d.off = DirStart /\ d.shift = stub
            /\ n = 0 /\ stub = 0 => d.off = DirStart /\ d.sig = "end"
<1> DEFINE n == Len(entries)
           p == CHOOSE q \in LastEnds(file, flen) : TRUE
           d == DirectoryAt(file, flen, p)
           last == flen - 1
<1>1. /\ file \in [Pos -> Cell] /\ flen \in 0..Capacity /\ stub \in Nat /\ n \in Nat
      /\ DirStart \in Int
  BY BoundType DEF TypeInv, FileType, GhostType, DirStart
<1>2. /\ DirStart = last - n /\ DirStart >= stub
      /\ file[last].t = "end" /\ file[last].size = n /\ file[last].off = DirStart - stub
      /\ stub > 0 => NoDirectoryBelow(file, DirStart)
      /\ \A i \in 1..n : DescribedBelow(file, file[DirStart + i - 1], stub, entries[i], DirStart)
  BY DEF FinishedInv, DirStart
<1> HIDE DEF n, p, d
<1>3. last \in 0..(flen - 1) /\ DirStart \in 0..last /\ DirStart \in Pos /\ last \in Pos
  BY <1>1, <1>2, CapacityType DEF Pos
<1>4. last \in Ends(file, flen) /\ \A q \in Ends(file, flen) : q \in Nat /\ q <= last
  BY <1>1, <1>2, <1>3 DEF Ends
<1>5. LastEnds(file, flen) = {last}
  BY <1>3, <1>4 DEF LastEnds
<1>6. p = last
  <2>1. p \in LastEnds(file, flen)
    BY <1>5, Zenon DEF p
  <2> QED
    BY <1>5, <2>1
<1>7. ReadCd(file, flen) =
        [ok     |-> d.sig # "hole" /\ d.off <= last,
         number |-> file[last].number,
         off    |-> d.off,
         size   |-> IF last < d.off + n THEN last - d.off ELSE n,
         sig    |-> d.sig,
         shift  |-> d.shift]
  <2>1. ReadCd(file, flen) =
        [ok     |-> d.sig # "hole" /\ d.off <= p,
         number |-> file[p].number,
         off    |-> d.off,
         size   |-> IF p < d.off + file[p].size THEN p - d.off ELSE file[p].size,
         sig    |-> d.sig,
         shift  |-> d.shift]
    BY <1>5 DEF ReadCd, p, d
  <2> QED
    BY <1>2, <1>6, <2>1
<1> DEFINE named == At(file, flen, DirStart - stub).t
           behind == At(file, flen, DirStart).t
<1>8. d = IF named \in {"central", "hole"}
          THEN [off |-> DirStart - stub, sig |-> named, shift |-> 0]
          ELSE IF behind = "central"
          THEN [off |-> DirStart, sig |-> behind, shift |-> stub]
          ELSE [off |-> DirStart - stub, sig |-> behind, shift |-> 0]
  <2>1. last - n = DirStart /\ DirStart - (DirStart - stub) = stub
    BY <1>1, <1>2
  <2> QED
    BY <1>2, <1>6, <2>1 DEF d, DirectoryAt, ShiftOf
<1>9. named = file[DirStart - stub].t /\ behind = file[DirStart].t
  BY <1>1, <1>2, <1>3 DEF At
<1>10. n > 0 => behind = "central"
  <2> SUFFICES ASSUME n > 0 PROVE behind = "central"
    OBVIOUS
  <2>1. 1 \in 1..n /\ DirStart + 1 - 1 = DirStart
    BY <1>1
  <2>2. DescribedBelow(file, file[DirStart], stub, entries[1], DirStart)
    BY <1>2, <2>1
  <2> QED
    BY <1>9, <2>2, DescribedCell
<1>11. n = 0 => behind = "end"
  BY <1>1, <1>2, <1>9
<1>12. stub > 0 => named \notin {"central", "hole"}
  <2> SUFFICES ASSUME stub > 0 PROVE named \notin {"central", "hole"}
    OBVIOUS
  <2>1. DirStart - stub \in Pos /\ DirStart - stub < DirStart
    BY <1>1, <1>2, <1>3, CapacityType DEF Pos
  <2> QED
    BY <1>2, <1>9, <2>1 DEF NoDirectoryBelow
<1>13. stub = 0 => named = behind
  BY <1>1
<1> HIDE DEF named, behind
<1>14. /\ n > 0 => d.off = DirStart /\ d.shift = stub /\ d.sig = "central"
       /\ n = 0 => d.off = DirStart - stub /\ d.sig = "end"
  BY <1>1, <1>8, <1>10, <1>11, <1>12, <1>13
<1>15. d.sig # "hole" /\ d.off <= last /\ d.off + n <= last
  BY <1>1, <1>2, <1>3, <1>14
<1> DEFINE r == ReadCd(file, flen)
<1> HIDE DEF r
<1>16. r.number = file[last].number /\ r.off = d.off /\ r.sig = d.sig
       /\ r.shift = d.shift
  BY <1>7 DEF r
<1>17. r.ok
  <2> DEFINE ok == d.sig # "hole" /\ d.off <= last
  <2>1. ok
    BY <1>15
  <2> HIDE DEF ok
  <2>2. r.ok = ok
    BY <1>5, <1>6, Zenon DEF r, ReadCd, ok, d, p
  <2> QED
    BY <2>1, <2>2
<1>18. r.size = n
  <2>1. r.size = IF last < d.off + n THEN last - d.off ELSE n
    BY <1>7 DEF r
  <2>2. d.off \in Int
    BY <1>1, <1>3, <1>14
  <2> QED
    BY <1>1, <1>3, <1>15, <2>1, <2>2
<1>19. n = 0 /\ stub = 0 => r.off = DirStart /\ r.sig = "end"
  BY <1>1, <1>3, <1>14, <1>16
<1>20. n \in Nat /\ DirStart \in Nat /\ stub \in Nat /\ flen = DirStart + n + 1
  BY <1>1, <1>2, <1>3
<1> QED
  BY <1>14, <1>16, <1>18, <1>19, <1>20, <1>17 DEF r, n

-----------------------------------------------------------------------------
(* Closing the open entry *)

\* The types of what the entry being written touches.
LEMMA OpenEntryType ==
  ASSUME TypeInv, Writing, opened, OpenEntryInv, NEW k \in Nat, Room(k)
  PROVE  /\ file \in [Pos -> Cell] /\ info \in Info /\ info.name \in Names
         /\ crc \in Content /\ Len(crc) \in Nat /\ info.off \in Nat
         /\ info.dd \in BOOLEAN /\ pos \in Pos /\ info.off \in Pos
         /\ pos = info.off + 1 + Len(crc) /\ pos + 2 <= Capacity
<1>1. /\ file \in [Pos -> Cell] /\ pos \in Nat /\ cdMem \in Seq(Cell)
      /\ info \in Info /\ info.name \in Names /\ crc \in Content
  BY DEF TypeInv, FileType, MemType, EntryType, NamedWhenOpen
<1>2. Len(crc) \in Nat /\ Len(cdMem) \in Nat
  BY <1>1 DEF Content
<1>3. info.off \in Nat /\ info.dd \in BOOLEAN
  BY <1>1 DEF Info
<1>4. pos = info.off + 1 + Len(crc)
  BY DEF OpenEntryInv
<1>5. pos + 2 <= Capacity
  BY <1>1, <1>2, <1>3, CapacityType DEF Room
<1>6. ASSUME NEW p \in Nat, NEW o \in Nat, NEW n \in Nat, p = o + 1 + n, p + 2 <= Capacity
      PROVE  p \in Pos /\ o \in Pos
  BY <1>6, CapacityType DEF Pos
<1>7. pos \in Pos /\ info.off \in Pos
  BY <1>1, <1>2, <1>3, <1>4, <1>5, <1>6
<1> QED
  BY <1>1, <1>2, <1>3, <1>4, <1>5, <1>7, Zenon

\* Closing changes the cell at the local header or the one behind the data.
LEMMA ClosedFileCells ==
  ASSUME TypeInv, Writing, opened, OpenEntryInv, NEW k \in Nat, Room(k)
  PROVE  /\ \A q \in Pos : q # info.off /\ q # pos => ClosedFile[q] = file[q]
         /\ info.dd => /\ ClosedFile[info.off] = file[info.off]
                       /\ ClosedFile[pos] = Descriptor(LocalZip64(info), crc, Len(crc))
         /\ ~info.dd => ClosedFile[pos] = file[pos]
         /\ ~info.dd /\ ~CentralHeaderFails(info) =>
              ClosedFile[info.off] = LocalHeader(FinalInfo, LocalZip64(info))
         /\ ~info.dd /\ CentralHeaderFails(info) => ClosedFile[info.off] = file[info.off]
<1>1. /\ file \in [Pos -> Cell] /\ pos \in Pos /\ info.off \in Pos /\ info.off # pos
      /\ info.dd \in BOOLEAN
  BY OpenEntryType
<1>2. CASE info.dd
  <2>1. ClosedFile = [file EXCEPT ![pos] = Descriptor(LocalZip64(info), crc, Len(crc))]
    BY <1>2 DEF ClosedFile
  <2> QED
    BY <1>1, <1>2, <2>1
<1>3. CASE ~info.dd /\ CentralHeaderFails(info)
  <2>1. ClosedFile = file
    BY <1>3 DEF ClosedFile
  <2> QED
    BY <1>1, <1>3, <2>1
<1>4. CASE ~info.dd /\ ~CentralHeaderFails(info)
  <2>1. ClosedFile = [file EXCEPT ![info.off] = LocalHeader(FinalInfo, LocalZip64(info))]
    BY <1>4 DEF ClosedFile
  <2> QED
    BY <1>1, <1>4, <2>1
<1> QED
  BY <1>1, <1>2, <1>3, <1>4

\* The header an entry gets describes it.
LEMMA ClosedEntry ==
  ASSUME TypeInv, Writing, opened, OpenEntryInv, NEW k \in Nat, Room(k),
         ~CentralHeaderFails(info)
  PROVE  DescribedBelow(ClosedFile, CentralHeader(FinalInfo), 0,
                        [name |-> info.name, data |-> crc], ClosedPos)
<1> DEFINE c == CentralHeader(FinalInfo)
           e == [name |-> info.name, data |-> crc]
           n == Len(crc)
           o == info.off
<1>1. /\ info.name \in Names /\ n \in Nat /\ o \in Nat /\ info.dd \in BOOLEAN
      /\ pos = o + 1 + n /\ pos + 2 <= Capacity /\ pos \in Pos /\ o \in Pos
  BY OpenEntryType
<1>2. /\ c.t = "central" /\ c.name = info.name /\ c.crc = crc /\ c.csize = n
      /\ c.off = o /\ c.dd = info.dd /\ c \in Cell
  <2>1. info \in Info
    BY DEF TypeInv, EntryType
  <2>2. c \in Cell
    BY FinalInfoType, RecordTypes
  <2>3. /\ FinalInfo.name = info.name /\ FinalInfo.crc = crc /\ FinalInfo.csize = n
        /\ FinalInfo.off = o /\ FinalInfo.dd = info.dd
    BY <2>1 DEF FinalInfo, Info
  <2> QED
    BY <2>2, <2>3 DEF CentralHeader
<1>3. /\ FinalInfo.name = info.name /\ FinalInfo.crc = crc /\ FinalInfo.csize = n
      /\ FinalInfo.dd = info.dd
  BY OpenEntryType DEF FinalInfo, Info
<1>4. \A q \in 0..(Capacity - 1) : At(ClosedFile, Capacity, q) = ClosedFile[q]
  BY DEF At
<1> HIDE DEF c, n
<1>5. /\ ClosedFile[o].t = "local" /\ ClosedFile[o].name = info.name
      /\ ClosedFile[o].dd = info.dd
      /\ ~info.dd => ClosedFile[o].crc = crc /\ ClosedFile[o].csize = n
  <2>1. file[o].t = "local" /\ file[o].name = info.name /\ file[o].dd = info.dd
    BY DEF OpenEntryInv
  <2> QED
    BY <1>1, <1>3, <2>1, ClosedFileCells DEF LocalHeader
<1>6. \A i \in 1..n : ClosedFile[o + i] = DataCell(crc[i])
  <2> TAKE i \in 1..n
  <2>1. o + i \in Pos /\ o + i # o /\ o + i # pos
    BY <1>1, CapacityType DEF Pos
  <2>2. file[o + i] = DataCell(crc[i])
    BY DEF OpenEntryInv, n
  <2> QED
    BY <2>1, <2>2, ClosedFileCells
<1>7. info.dd => ClosedFile[pos].t = "descriptor" /\ ClosedFile[pos].crc = crc
  BY ClosedFileCells DEF Descriptor
<1>8. /\ At(ClosedFile, Capacity, o) = ClosedFile[o]
      /\ At(ClosedFile, Capacity, pos) = ClosedFile[pos]
      /\ \A i \in 1..n : At(ClosedFile, Capacity, o + i) = ClosedFile[o + i]
  BY <1>1, <1>4, CapacityType DEF Pos
<1>9. c.off + 0 = o /\ c.off + 0 + n + 1 = pos /\ o + n + 1 = pos
  BY <1>1, <1>2
<1>10. Describes(ClosedFile, c, 0, e)
  BY <1>2, <1>5, <1>6, <1>7, <1>8, <1>9 DEF Describes, n
<1>11. c.off + 0 + Len(e.data) + (IF c.dd THEN 1 ELSE 0) < ClosedPos
  BY <1>1, <1>2 DEF ClosedPos, n
<1>12. At(ClosedFile, Capacity, c.off + 0).dd = c.dd
  BY <1>2, <1>5, <1>8, <1>9
<1> QED
  BY <1>2, <1>10, <1>11, <1>12 DEF DescribedBelow, c

LEMMA SettledSound ==
  ASSUME TypeInv, Writing, WritingInv, NEW k \in Nat, Room(k)
  PROVE  Sound(Settled.file, Settled.flen, Settled.pos, Settled.pos,
               Settled.cdMem, Settled.cdMemPos, Settled.entries)
<1>1. Sound(file, flen, pos, Closing, cdMem, cdMemPos, entries)
  BY DEF WritingInv
<1>2. CASE ~opened
  BY <1>1, <1>2, SettledFields DEF Closing
<1>3. CASE opened
  <2>1. OpenEntryInv
    BY <1>3 DEF WritingInv
  <2>2. /\ file \in [Pos -> Cell] /\ info.off \in Pos /\ pos \in Pos /\ Len(crc) \in Nat
        /\ info.off \in Nat /\ pos \in Nat /\ info.off < pos
        /\ pos = info.off + 1 + Len(crc) /\ info.dd \in BOOLEAN
    BY <1>3, <2>1, OpenEntryType DEF Pos
  <2>3. /\ pos <= flen /\ flen <= pos + Len(cdMem) + 1 /\ flen \in Nat
        /\ Len(cdMem) = Len(entries) /\ cdMemPos = Len(cdMem) /\ Len(cdMem) \in Nat
        /\ cdMem \in Seq(Cell) /\ entries \in Seq(Entry)
        /\ \A i \in 1..Len(entries) :
              DescribedBelow(file, cdMem[i], 0, entries[i], info.off)
    BY <1>1, <1>3 DEF Sound, Closing, TypeInv, FileType, MemType, GhostType
  <2>4. /\ ClosedPos \in Nat /\ pos <= ClosedPos /\ ClosedPos <= pos + 1
        /\ info.off <= ClosedPos
    BY <2>2 DEF ClosedPos
  <2>6. \A i \in 1..Len(entries) :
          DescribedBelow(ClosedFile, cdMem[i], 0, entries[i], ClosedPos)
    <3> TAKE i \in 1..Len(entries)
    <3>1. entries[i] \in Entry /\ DescribedBelow(file, cdMem[i], 0, entries[i], info.off)
      BY <2>3
    <3>2. \A q \in Pos : q < info.off => ClosedFile[q] = file[q]
      BY <1>3, <2>1, <2>2, ClosedFileCells DEF Pos
    <3> QED
      BY <2>2, <2>4, <3>1, <3>2, Unmoved
  <2>7. ClosedPos <= Larger(flen, ClosedPos)
        /\ Larger(flen, ClosedPos) <= ClosedPos + Len(cdMem) + 1
    <3> DEFINE m == Len(cdMem)
    <3>1. m \in Nat /\ flen \in Nat /\ pos \in Nat /\ flen <= pos + m + 1
      BY <2>2, <2>3
    <3> HIDE DEF m
    <3>2. ClosedPos <= Larger(flen, ClosedPos) /\ Larger(flen, ClosedPos) <= ClosedPos + m + 1
      BY <2>4, <3>1 DEF Larger
    <3> QED
      BY <3>2 DEF m
  <2>8. /\ Settled.file = ClosedFile /\ Settled.flen = Larger(flen, ClosedPos)
        /\ Settled.pos = ClosedPos
    BY <1>3, SettledFields
  <2>9. CASE CentralHeaderFails(info)
    <3>1. /\ Settled.cdMem = cdMem /\ Settled.cdMemPos = cdMemPos
          /\ Settled.entries = entries
      BY <1>3, <2>9, SettledFields
    <3> QED
      BY <2>3, <2>6, <2>7, <2>8, <3>1 DEF Sound
  <2>10. CASE ~CentralHeaderFails(info)
    <3> DEFINE c == CentralHeader(FinalInfo)
               e == [name |-> info.name, data |-> crc]
               m == Append(cdMem, c)
               es == Append(entries, e)
    <3>1. /\ Settled.cdMem = m /\ Settled.cdMemPos = cdMemPos + 1
          /\ Settled.entries = es
      BY <1>3, <2>3, <2>10, SettledFields DEF PutAt
    <3>2. DescribedBelow(ClosedFile, c, 0, e, ClosedPos)
      BY <1>3, <2>1, <2>10, ClosedEntry
    <3>3. /\ Len(m) = Len(cdMem) + 1 /\ Len(es) = Len(entries) + 1
          /\ \A i \in 1..Len(entries) : m[i] = cdMem[i] /\ es[i] = entries[i]
          /\ m[Len(cdMem) + 1] = c /\ es[Len(entries) + 1] = e
      BY <2>3
    <3> HIDE DEF c, e, m, es
    <3>4. \A i \in 1..Len(es) : DescribedBelow(ClosedFile, m[i], 0, es[i], ClosedPos)
      <4> TAKE i \in 1..Len(es)
      <4>1. CASE i \in 1..Len(entries)
        BY <2>6, <3>3, <4>1
      <4>2. CASE i = Len(entries) + 1
        BY <2>3, <3>2, <3>3, <4>2
      <4>3. Len(entries) \in Nat
        BY <2>3
      <4> QED
        BY <3>3, <4>1, <4>2, <4>3
    <3>5. Larger(flen, ClosedPos) <= ClosedPos + Len(m) + 1
      BY <2>3, <2>4, <2>7, <3>3 DEF Larger
    <3> QED
      BY <2>3, <2>7, <2>8, <3>1, <3>3, <3>4, <3>5 DEF Sound
  <2> QED
    BY <2>9, <2>10
<1> QED
  BY <1>2, <1>3

LEMMA SettledClear ==
  ASSUME TypeInv, Writing, WritingInv, NEW k \in Nat, Room(k), NoDirectoryBelow(file, pos)
  PROVE  NoDirectoryBelow(Settled.file, Settled.pos)
<1>1. CASE ~opened
  BY <1>1, SettledFields
<1>2. CASE opened
  <2>1. OpenEntryInv
    BY <1>2 DEF WritingInv
  <2>2. /\ file \in [Pos -> Cell] /\ info.off \in Pos /\ pos \in Pos /\ Len(crc) \in Nat
        /\ info.off \in Nat /\ pos \in Nat /\ info.off < pos
        /\ pos = info.off + 1 + Len(crc) /\ info.dd \in BOOLEAN
    BY <1>2, <2>1, OpenEntryType DEF Pos
  <2>3. Settled.file = ClosedFile /\ Settled.pos = ClosedPos
    BY <1>2, SettledFields
  <2>4. NoDirectoryBelow(ClosedFile, ClosedPos)
    <3> SUFFICES ASSUME NEW q \in Pos, q < ClosedPos
                 PROVE  ClosedFile[q].t \notin {"central", "hole", "end"}
      BY DEF NoDirectoryBelow
    <3>1. file[info.off].t = "local"
      BY <2>1 DEF OpenEntryInv
    <3>2. CASE q # info.off /\ q # pos
      <4>1. q < pos
        BY <2>2, <3>2 DEF ClosedPos, Pos
      <4> QED
        BY <1>2, <2>1, <3>2, <4>1, ClosedFileCells DEF NoDirectoryBelow
    <3>3. CASE q = info.off
      BY <1>2, <2>1, <2>2, <3>1, <3>3, ClosedFileCells DEF LocalHeader
    <3>4. CASE q = pos
      <4>1. info.dd
        BY <2>2, <3>4 DEF ClosedPos
      <4> QED
        BY <1>2, <2>1, <3>4, <4>1, ClosedFileCells DEF Descriptor
    <3> QED
      BY <3>2, <3>3, <3>4
  <2> QED
    BY <2>3, <2>4
<1> QED
  BY <1>1, <1>2

-----------------------------------------------------------------------------
(* The steps *)

\* What a step that leaves the file alone preserves.
LEMMA QuietDirectory ==
  ASSUME DirectoryInv, ~Writing, ~Writing', UNCHANGED <<file, flen, entries, health, stub>>
  PROVE  DirectoryInv'
<1>1. Good' => FinishedInv
  BY DEF DirectoryInv, Good
<1>2. FinishedInv => FinishedInv'
  BY DEF FinishedInv, DirStart
<1> QED
  BY <1>1, <1>2 DEF DirectoryInv

LEMMA CreateDirectory == ASSUME TypeInv, ZipOpenCreate PROVE DirectoryInv'
<1>1. /\ mode' = "write" /\ stub' = 0 /\ flen' = 0 /\ entries' = <<>>
      /\ pos' = 0 /\ cdMem' = <<>> /\ cdMemPos' = 0 /\ opened' = FALSE
  BY DEF ZipOpenCreate, entryVars, TypeInv, FreshWhenClosed
<1>2. Sound(file', 0, 0, 0, <<>>, 0, <<>>)
  BY DEF Sound
<1>3. Closing' = 0
  BY <1>1 DEF Closing
<1> QED
  BY <1>1, <1>2, <1>3 DEF DirectoryInv, WritingInv, Writing

\* An open for appending takes the directory of the finished archive, and begins
\* to write where it begins.
LEMMA AppendBegins ==
  ASSUME CallerHabits = {}, TypeInv, DirectoryInv, ZipOpenAppend, Good'
  PROVE  LET d == ReadCd(file, flen)
             n == Len(entries)
         IN /\ Good /\ FinishedInv /\ stub = 0 /\ ~Writing /\ ~opened
            /\ UNCHANGED <<file, flen, entries, stub, opened>>
            /\ n \in Nat /\ DirStart \in Nat /\ flen = DirStart + n + 1
            /\ d.ok /\ d.size = n /\ d.off = DirStart
            /\ mode' = "append" /\ pos' = DirStart /\ cdMemPos' = n
            /\ cdMem' = [i \in 1..n |-> file[DirStart + i - 1]]
<1> DEFINE d == ReadCd(file, flen)
           n == Len(entries)
           m == [i \in 1..d.size |-> file[d.off + i - 1]]
<1>1. /\ mode = "none" /\ stub = 0 /\ Writing = FALSE /\ opened = FALSE
      /\ UNCHANGED <<file, flen, entries, stub, opened>>
  BY DEF ZipOpenAppend, Writing, TypeInv, FreshWhenClosed, fileVars, entryVars
<1>2. health' = IF d.ok /\ ~Good THEN "reused" ELSE health
  BY DEF ZipOpenAppend
<1>3. Good
  <2> HIDE DEF d
  <2> QED
    BY <1>2 DEF Good
<1>4. FinishedInv
  BY <1>1, <1>3 DEF DirectoryInv
<1>5. /\ n \in Nat /\ DirStart \in Nat /\ flen = DirStart + n + 1
      /\ d.ok /\ d.size = n /\ (n > 0 => d.off = DirStart)
      /\ (n = 0 => d.off = DirStart /\ d.sig = "end")
  BY <1>1, <1>4, FinishedRead
<1>6. /\ mode' = "append" /\ cdMem' = m /\ cdMemPos' = d.size /\ pos' = AppendAt(d)
  BY <1>5 DEF ZipOpenAppend
<1> HIDE DEF d
<1>7. n > 0 \/ n = 0
  BY <1>5
<1>8. pos' = DirStart /\ d.off = DirStart
  BY <1>5, <1>6, <1>7 DEF AppendAt
<1>9. m = [i \in 1..n |-> file[DirStart + i - 1]]
  BY <1>5, <1>8
<1> HIDE DEF n, m
<1> QED
  BY <1>1, <1>3, <1>4, <1>5, <1>6, <1>8, <1>9 DEF d, n

LEMMA AppendDirectory ==
  ASSUME CallerHabits = {}, TypeInv, DirectoryInv, ZipOpenAppend PROVE DirectoryInv'
<1> DEFINE n == Len(entries)
           m == [i \in 1..n |-> file[DirStart + i - 1]]
<1> SUFFICES ASSUME Good' PROVE DirectoryInv'
  BY Zenon DEF DirectoryInv
<1>1. /\ Good /\ FinishedInv /\ stub = 0 /\ ~opened
      /\ UNCHANGED <<file, flen, entries, stub, opened>>
      /\ n \in Nat /\ DirStart \in Nat /\ flen = DirStart + n + 1
      /\ mode' = "append" /\ pos' = DirStart /\ cdMemPos' = n /\ cdMem' = m
  BY AppendBegins
<1>2. Len(m) = n /\ \A i \in 1..n : m[i] = file[DirStart + i - 1]
  BY <1>1
<1> HIDE DEF m
<1>3. \A i \in 1..n : DescribedBelow(file, m[i], 0, entries[i], DirStart)
  BY <1>1, <1>2 DEF FinishedInv
<1>4. Sound(file, flen, DirStart, DirStart, m, n, entries)
  BY <1>1, <1>2, <1>3 DEF Sound
<1>5. Closing' = DirStart
  BY <1>1 DEF Closing
<1>6. Sound(file', flen', pos', Closing', cdMem', cdMemPos', entries')
  BY <1>1, <1>4, <1>5
<1> QED
  BY <1>1, <1>6 DEF DirectoryInv, WritingInv, Writing

LEMMA WriteCloseDirectory ==
  ASSUME TypeInv, DirectoryInv, EntryWriteClose PROVE DirectoryInv'
<1> DEFINE s == Settled
<1> SUFFICES ASSUME Good' PROVE DirectoryInv'
  BY Zenon DEF DirectoryInv
<1>1. /\ Writing /\ Writing' /\ opened /\ Room(0) /\ health' = health /\ stub' = stub
      /\ file' = s.file /\ flen' = s.flen /\ pos' = s.pos
      /\ cdMem' = s.cdMem /\ cdMemPos' = s.cdMemPos /\ entries' = s.entries
      /\ opened' = FALSE
  BY DEF EntryWriteClose, Writing
<1>2. WritingInv
  BY <1>1 DEF DirectoryInv, Good
<1> HIDE DEF s
<1>3. Sound(s.file, s.flen, s.pos, s.pos, s.cdMem, s.cdMemPos, s.entries)
  BY <1>1, <1>2, SettledSound DEF s
<1>4. Closing' = s.pos
  BY <1>1 DEF Closing
<1> QED
  BY <1>1, <1>2, <1>3, <1>4 DEF DirectoryInv, WritingInv

\* A cell written at the end of what was written.
LEMMA WriteAtEnd ==
  ASSUME NEW f \in [Pos -> Cell], NEW n \in Nat, NEW p \in Pos, NEW b \in Int,
         NEW mem \in Seq(Cell), NEW mp, NEW es \in Seq(Entry), NEW c \in Cell,
         b <= p, Sound(f, n, p, b, mem, mp, es)
  PROVE  Sound([f EXCEPT ![p] = c], Larger(n, p + 1), p + 1, b, mem, mp, es)
<1> DEFINE g == [f EXCEPT ![p] = c]
           m == Len(mem)
<1>1. /\ p <= n /\ n <= p + m + 1 /\ m = Len(es) /\ mp = m
      /\ \A i \in 1..Len(es) : DescribedBelow(f, mem[i], 0, es[i], b)
  BY DEF Sound
<1>2. m \in Nat /\ p \in Nat
  BY DEF Pos
<1>3. g \in [Pos -> Cell] /\ g[p] = c /\ \A q \in Pos : q # p => g[q] = f[q]
  OBVIOUS
<1> HIDE DEF g, m
<1>5. \A i \in 1..Len(es) : DescribedBelow(g, mem[i], 0, es[i], b)
  <2> TAKE i \in 1..Len(es)
  <2>1. es[i] \in Entry /\ DescribedBelow(f, mem[i], 0, es[i], b)
    BY <1>1
  <2>2. \A q \in Pos : q < b => g[q] = f[q]
    BY <1>2, <1>3 DEF Pos
  <2> QED
    BY <2>1, <2>2, Unmoved
<1>6. p + 1 <= Larger(n, p + 1) /\ Larger(n, p + 1) <= p + 1 + m + 1
  BY <1>1, <1>2 DEF Larger
<1> QED
  BY <1>1, <1>5, <1>6 DEF Sound, g, m

LEMMA WriteOpenDirectory ==
  ASSUME TypeInv, DirectoryInv,
         NEW name \in Names, NEW u \in Nat, NEW z \in {Zip64Auto, Zip64Disable},
         NEW dd \in BOOLEAN, EntryWriteOpen(name, u, z, dd)
  PROVE  DirectoryInv'
<1> DEFINE s == Settled
           i == [name |-> name, dd |-> dd, zip64 |-> z, crc |-> <<>>, csize |-> 0,
                 usize |-> u, off |-> s.pos]
           h == LocalHeader(i, LocalZip64(i))
           k == IF dd THEN 3 ELSE 2
<1> SUFFICES ASSUME Good' PROVE DirectoryInv'
  BY Zenon DEF DirectoryInv
<1>1. /\ Writing /\ Writing' /\ Room(k) /\ health' = health /\ stub' = stub
      /\ cdMem' = s.cdMem /\ cdMemPos' = s.cdMemPos /\ entries' = s.entries
      /\ crc' = <<>>
      /\ s.ok => /\ file' = [s.file EXCEPT ![s.pos] = h]
                 /\ pos' = s.pos + 1 /\ flen' = Larger(s.flen, s.pos + 1)
                 /\ info' = i /\ opened' = TRUE
      /\ ~s.ok => /\ file' = s.file /\ pos' = s.pos /\ flen' = s.flen
                  /\ opened' = FALSE
  BY DEF EntryWriteOpen, Writing
<1>2. WritingInv
  BY <1>1 DEF DirectoryInv, Good
<1>3. k \in Nat /\ k > 0
  OBVIOUS
<1> HIDE DEF s, i, h, k
<1>4. Sound(s.file, s.flen, s.pos, s.pos, s.cdMem, s.cdMemPos, s.entries)
  BY <1>1, <1>2, <1>3, SettledSound DEF s
<1>5. /\ s.file \in [Pos -> Cell] /\ s.flen \in Nat /\ s.pos \in Nat
      /\ s.cdMem \in Seq(Cell) /\ s.entries \in Seq(Entry)
      /\ s.pos + k + Len(s.cdMem) + 1 <= Capacity
  BY <1>1, <1>3, SettledType, CapacityType DEF s
<1>6. CASE s.ok
  <2>1. s.pos \in Pos
    <3>1. Len(s.cdMem) \in Nat
      BY <1>5
    <3> QED
      BY <1>3, <1>5, <3>1, CapacityType DEF Pos
  <2>2. i \in Info /\ i.name = name /\ i.off = s.pos /\ i.dd = dd
    BY <1>5, ContentEmpty DEF Info, i
  <2>3. h \in Cell /\ h.t = "local" /\ h.name = name /\ h.dd = dd
    <3>1. LocalZip64(i) \in BOOLEAN
      BY DEF LocalZip64
    <3> QED
      BY <2>2, <3>1, RecordTypes DEF LocalHeader, h
  <2>4. Sound(file', flen', pos', s.pos, cdMem', cdMemPos', entries')
    <3>1. s.pos <= s.pos /\ s.pos \in Int
      BY <1>5
    <3>2. Sound([s.file EXCEPT ![s.pos] = h], Larger(s.flen, s.pos + 1), s.pos + 1, s.pos,
                s.cdMem, s.cdMemPos, s.entries)
      BY <1>4, <1>5, <2>1, <2>3, <3>1, WriteAtEnd
    <3> QED
      BY <1>1, <1>6, <3>2
  <2>5. Closing' = s.pos
    BY <1>1, <1>6, <2>2 DEF Closing
  <2>6. OpenEntryInv'
    BY <1>1, <1>5, <1>6, <2>1, <2>2, <2>3 DEF OpenEntryInv
  <2> QED
    BY <1>1, <1>2, <2>4, <2>5, <2>6 DEF DirectoryInv, WritingInv
<1>7. CASE ~s.ok
  <2>1. Closing' = s.pos
    BY <1>1, <1>7 DEF Closing
  <2> QED
    BY <1>1, <1>2, <1>4, <1>7, <2>1 DEF DirectoryInv, WritingInv
<1> QED
  BY <1>6, <1>7

LEMMA WriteDirectory ==
  ASSUME TypeInv, DirectoryInv, NEW c \in Chunks, EntryWrite(c) PROVE DirectoryInv'
<1> SUFFICES ASSUME Good' PROVE DirectoryInv'
  BY Zenon DEF DirectoryInv
<1>1. /\ Writing /\ Writing' /\ opened /\ Room(1)
      /\ file' = [file EXCEPT ![pos] = DataCell(c)]
      /\ pos' = pos + 1 /\ flen' = Larger(flen, pos + 1) /\ crc' = Append(crc, c)
      /\ UNCHANGED <<cdMem, cdMemPos, info, opened, entries, health, stub>>
  BY DEF EntryWrite, Writing, dirVars, ghostVars
<1>2. WritingInv /\ OpenEntryInv
  BY <1>1 DEF DirectoryInv, Good, WritingInv
<1>3. /\ file \in [Pos -> Cell] /\ pos \in Pos /\ info.off \in Pos /\ info.off \in Nat
      /\ Len(crc) \in Nat /\ crc \in Content /\ pos = info.off + 1 + Len(crc)
  BY <1>1, <1>2, OpenEntryType
<1>4. flen \in Nat /\ cdMem \in Seq(Cell) /\ entries \in Seq(Entry)
  BY DEF TypeInv, FileType, MemType, GhostType
<1>5. Sound(file, flen, pos, info.off, cdMem, cdMemPos, entries)
  BY <1>1, <1>2 DEF WritingInv, Closing
<1>6. DataCell(c) \in Cell /\ DataCell(c).t = "data"
  BY RecordTypes DEF DataCell
<1>7. info.off <= pos
  BY <1>3
<1>8. Sound(file', flen', pos', info.off, cdMem', cdMemPos', entries')
  <2>1. Sound([file EXCEPT ![pos] = DataCell(c)], Larger(flen, pos + 1), pos + 1, info.off,
              cdMem, cdMemPos, entries)
    <3> DEFINE h == DataCell(c)
               b == info.off
    <3>1. h \in Cell
      BY <1>6
    <3>2. file \in [Pos -> Cell] /\ pos \in Pos /\ b \in Int /\ b <= pos
      BY <1>3, <1>7
    <3>3. Sound(file, flen, pos, b, cdMem, cdMemPos, entries)
      BY <1>5
    <3> HIDE DEF h, b
    <3>4. Sound([file EXCEPT ![pos] = h], Larger(flen, pos + 1), pos + 1, b,
                cdMem, cdMemPos, entries)
      BY <1>4, <3>1, <3>2, <3>3, WriteAtEnd
    <3> QED
      BY <3>4 DEF h, b
  <2> QED
    BY <1>1, <2>1
<1>9. Closing' = info.off
  BY <1>1 DEF Closing
<1>10. OpenEntryInv'
  <2> DEFINE n == Len(crc)
  <2>1. Len(crc') = n + 1 /\ crc'[n + 1] = c /\ \A i \in 1..n : crc'[i] = crc[i]
    BY <1>1, <1>3 DEF Content
  <2> HIDE DEF n
  <2>2. n \in Nat /\ pos = info.off + 1 + n
    BY <1>3 DEF n
  <2>3. /\ file[info.off].t = "local" /\ file[info.off].name = info.name
        /\ file[info.off].dd = info.dd
        /\ \A i \in 1..n : file[info.off + i] = DataCell(crc[i])
    BY <1>2 DEF OpenEntryInv, n
  <2>4. file'[info.off] = file[info.off]
    BY <1>1, <1>3, <2>2
  <2>5. \A i \in 1..(n + 1) : file'[info.off + i] = DataCell(crc'[i])
    <3> TAKE i \in 1..(n + 1)
    <3>1. CASE i \in 1..n
      <4>1. info.off + i \in Pos /\ info.off + i # pos
        BY <1>3, <2>2, <3>1, CapacityType DEF Pos
      <4> QED
        BY <1>1, <1>3, <2>1, <2>3, <3>1, <4>1
    <3>2. CASE i = n + 1
      <4>1. info.off + i = pos
        BY <1>3, <2>2, <3>2
      <4> QED
        BY <1>1, <1>3, <2>1, <3>2, <4>1
    <3> QED
      BY <2>2, <3>1, <3>2
  <2>6. pos' = info.off + 1 + (n + 1)
    <3>1. pos' = pos + 1 /\ info.off \in Nat
      BY <1>1, <1>3
    <3> QED
      BY <2>2, <3>1
  <2> QED
    BY <1>1, <2>1, <2>3, <2>4, <2>5, <2>6 DEF OpenEntryInv
<1> QED
  BY <1>1, <1>2, <1>8, <1>9, <1>10 DEF DirectoryInv, WritingInv

\* A session that comes to the end of its close leaves its directory and the end
\* record behind what it wrote.
LEMMA ClosedArchive ==
  ASSUME TypeInv, DirectoryInv, ZipCloseWrite, Good'
  PROVE  LET s == Settled
             n == Len(s.entries)
         IN /\ Good /\ WritingInv /\ Writing /\ Room(0) /\ s.ok
            /\ mode' = "none" /\ stub' = 0 /\ entries' = s.entries
            /\ n \in Nat /\ s.pos \in Nat /\ s.pos + n < Capacity
            /\ s.entries \in Seq(Entry) /\ s.file \in [Pos -> Cell]
            /\ Sound(s.file, s.flen, s.pos, s.pos, s.cdMem, s.cdMemPos, s.entries)
            /\ flen' = s.pos + n + 1
            /\ file'[s.pos + n] = EndRecord(s.number, n, s.pos)
            /\ \A i \in 1..n : file'[s.pos + i - 1] = s.cdMem[i]
            /\ \A q \in Pos : q < s.pos => file'[q] = s.file[q]
<1> DEFINE s == Settled
           cells == IF s.ok THEN DirectoryOf(s) ELSE <<>>
           n == Len(s.entries)
           m == Len(s.cdMem)
<1>1. /\ Writing /\ Room(0)
      /\ file' = Written(s.file, s.pos, cells)
      /\ flen' = Larger(s.flen, s.pos + Len(cells))
      /\ entries' = s.entries /\ health' = IF cells = <<>> THEN Died ELSE health
      /\ mode' = "none" /\ stub' = stub
  BY DEF ZipCloseWrite, FreshHandle
<1> HIDE DEF s
<1>2. cells # <<>> /\ Good
  <2> HIDE DEF cells
  <2> QED
    BY <1>1 DEF Good, Died
<1>3. WritingInv /\ stub = 0
  BY <1>1, <1>2 DEF DirectoryInv, WritingInv
<1>4. Sound(s.file, s.flen, s.pos, s.pos, s.cdMem, s.cdMemPos, s.entries)
  BY <1>1, <1>3, SettledSound DEF s
<1>5. /\ s.file \in [Pos -> Cell] /\ s.flen \in Nat /\ s.pos \in Nat
      /\ s.cdMem \in Seq(Cell) /\ s.entries \in Seq(Entry)
      /\ s.pos + 0 + m + 1 <= Capacity
  BY <1>1, SettledType, CapacityType DEF s
<1>6. s.ok /\ cells = DirectoryOf(s) /\ cells = Append(s.cdMem, EndRecord(s.number, m, s.pos))
  BY <1>2, Zenon DEF DirectoryOf
<1>7. m \in Nat /\ n = m /\ s.pos <= s.flen /\ s.flen <= s.pos + m + 1
  BY <1>4, <1>5 DEF Sound
<1>8. /\ Len(cells) = m + 1 /\ cells[m + 1] = EndRecord(s.number, m, s.pos)
      /\ \A i \in 1..m : cells[i] = s.cdMem[i]
  BY <1>5, <1>6
<1> HIDE DEF cells, m
<1>9. flen' = s.pos + m + 1
  <2>1. flen' = Larger(s.flen, s.pos + (m + 1))
    BY <1>1, <1>8
  <2> QED
    <3> DEFINE x == s.flen
               y == s.pos + (m + 1)
    <3>1. x \in Nat /\ y \in Nat /\ x <= y /\ y = s.pos + m + 1
      BY <1>5, <1>7
    <3> HIDE DEF x, y
    <3>2. Larger(x, y) = y
      BY <3>1 DEF Larger
    <3> QED
      BY <2>1, <3>1, <3>2 DEF x, y
<1>10. \A q \in Pos : file'[q] = IF q - s.pos + 1 \in 1..(m + 1) THEN cells[q - s.pos + 1]
                                 ELSE s.file[q]
  BY <1>1, <1>8 DEF Written
<1>11. file'[s.pos + m] = EndRecord(s.number, m, s.pos)
  <2>1. s.pos + m \in Pos /\ (s.pos + m) - s.pos + 1 = m + 1 /\ m + 1 \in 1..(m + 1)
    BY <1>5, <1>7, CapacityType DEF Pos
  <2> QED
    BY <1>8, <1>10, <2>1
<1>12. \A i \in 1..m : file'[s.pos + i - 1] = s.cdMem[i]
  <2> TAKE i \in 1..m
  <2>1. s.pos + i - 1 \in Pos /\ (s.pos + i - 1) - s.pos + 1 = i /\ i \in 1..(m + 1)
    BY <1>5, <1>7, CapacityType DEF Pos
  <2> QED
    BY <1>8, <1>10, <2>1
<1>13. \A q \in Pos : q < s.pos => file'[q] = s.file[q]
  <2> TAKE q \in Pos
  <2> SUFFICES ASSUME q < s.pos PROVE file'[q] = s.file[q]
    OBVIOUS
  <2>1. q - s.pos + 1 \notin 1..(m + 1)
    BY <1>5, <1>7 DEF Pos
  <2> QED
    BY <1>10, <2>1
<1>14. s.pos + m < Capacity
  BY <1>5, <1>7, CapacityType
<1> QED
  BY <1>1, <1>2, <1>3, <1>4, <1>5, <1>6, <1>7, <1>9, <1>11, <1>12, <1>13, <1>14 DEF s, n

LEMMA CloseWriteDirectory ==
  ASSUME TypeInv, DirectoryInv, ZipCloseWrite PROVE DirectoryInv'
<1> DEFINE s == Settled
           n == Len(s.entries)
<1> SUFFICES ASSUME Good' PROVE DirectoryInv'
  BY Zenon DEF DirectoryInv
<1>1. /\ mode' = "none" /\ stub' = 0 /\ entries' = s.entries
      /\ n \in Nat /\ s.pos \in Nat /\ s.pos + n < Capacity
      /\ s.entries \in Seq(Entry) /\ s.file \in [Pos -> Cell]
      /\ Sound(s.file, s.flen, s.pos, s.pos, s.cdMem, s.cdMemPos, s.entries)
      /\ flen' = s.pos + n + 1
      /\ file'[s.pos + n] = EndRecord(s.number, n, s.pos)
      /\ \A i \in 1..n : file'[s.pos + i - 1] = s.cdMem[i]
      /\ \A q \in Pos : q < s.pos => file'[q] = s.file[q]
  BY ClosedArchive
<1> HIDE DEF s
<1>2. DirStart' = s.pos /\ flen' - 1 = s.pos + n
  BY <1>1 DEF DirStart
<1>4. \A i \in 1..n : DescribedBelow(file', file'[s.pos + i - 1], 0, s.entries[i], s.pos)
  <2> TAKE i \in 1..n
  <2>1. /\ s.entries[i] \in Entry /\ file'[s.pos + i - 1] = s.cdMem[i]
        /\ DescribedBelow(s.file, s.cdMem[i], 0, s.entries[i], s.pos)
    BY <1>1 DEF Sound
  <2>2. DescribedBelow(file', s.cdMem[i], 0, s.entries[i], s.pos)
    <3> DEFINE c == s.cdMem[i]
               e == s.entries[i]
               g == file'
    <3>1. e \in Entry /\ DescribedBelow(s.file, c, 0, e, s.pos) /\ s.pos \in Int
          /\ s.pos <= s.pos /\ \A q \in Pos : q < s.pos => g[q] = s.file[q]
      BY <1>1, <2>1
    <3> HIDE DEF c, e, g
    <3>2. DescribedBelow(g, c, 0, e, s.pos)
      BY <3>1, Unmoved
    <3> QED
      BY <3>2 DEF c, e, g
  <2> QED
    BY <2>1, <2>2
<1>5. /\ file'[flen' - 1].t = "end" /\ file'[flen' - 1].size = n
      /\ file'[flen' - 1].off = s.pos
  BY <1>1, <1>2 DEF EndRecord
<1>6. Len(entries') = n
  BY <1>1
<1>7. s.pos >= 0 /\ s.pos - 0 = s.pos
  BY <1>1
<1>8. FinishedInv'
  BY <1>1, <1>2, <1>4, <1>5, <1>6, <1>7 DEF FinishedInv
<1> QED
  BY <1>1, <1>8 DEF DirectoryInv, Writing

LEMMA CrashDirectory ==
  ASSUME Crash \/ \E k \in 1..(Capacity - 1) : CrashInClose(k) PROVE DirectoryInv'
<1>1. health' = Died
  BY DEF Crash, CrashInClose
<1>2. ~Good'
  BY <1>1 DEF Good, Died
<1> QED
  BY <1>2 DEF DirectoryInv

LEMMA PrependDirectory ==
  ASSUME TypeInv, DirectoryInv, ClearInv,
         NEW k \in 1..MaxStub, NEW c \in Chunks, Prepend(k, c)
  PROVE  DirectoryInv' /\ ClearInv' /\ file'[flen' - 1] = file[flen - 1]
<1> DEFINE n == Len(entries)
           D == DirStart
<1>1. /\ mode = "none" /\ Good /\ stub = 0 /\ flen + k <= Capacity
      /\ file' = [q \in Pos |-> IF q < k THEN DataCell(c) ELSE At(file, flen, q - k)]
      /\ flen' = flen + k /\ stub' = k /\ mode' = mode
      /\ entries' = entries
  BY DEF Prepend
<1>2. ~Writing /\ ~Writing' /\ FinishedInv
  BY <1>1 DEF Writing, DirectoryInv
<1>3. /\ k \in Nat /\ k > 0 /\ n \in Nat /\ D \in Nat /\ flen = D + n + 1
      /\ file \in [Pos -> Cell] /\ flen \in 0..Capacity /\ entries \in Seq(Entry)
  BY <1>2, FinishedRead, BoundType DEF TypeInv, FileType, GhostType
<1>4. DirStart' = D + k /\ DirStart = D
  BY <1>1, <1>3 DEF DirStart
<1>5. /\ file[flen - 1].t = "end" /\ file[flen - 1].size = n
      /\ file[flen - 1].off = D - 0
      /\ NoDirectoryBelow(file, D)
      /\ \A i \in 1..n : DescribedBelow(file, file[D + i - 1], 0, entries[i], D)
  BY <1>1, <1>2 DEF FinishedInv, ClearInv
<1> HIDE DEF n, D
<1>6. \A q \in Nat : q < flen => q \in Pos /\ q + k \in Pos /\ file'[q + k] = file[q]
  <2> TAKE q \in Nat
  <2> SUFFICES ASSUME q < flen PROVE q \in Pos /\ q + k \in Pos /\ file'[q + k] = file[q]
    OBVIOUS
  <2>1. q \in Pos /\ q + k \in Pos /\ ~(q + k < k) /\ (q + k) - k = q /\ q \in 0..(flen - 1)
    BY <1>1, <1>3, CapacityType DEF Pos
  <2> QED
    BY <1>1, <2>1 DEF At
<1>7. \A q \in Pos : q < k => file'[q] = DataCell(c)
  BY <1>1
<1>8. NoDirectoryBelow(file', D + k)
  <2> SUFFICES ASSUME NEW q \in Pos, q < D + k PROVE file'[q].t \notin {"central", "hole", "end"}
    BY DEF NoDirectoryBelow
  <2>1. CASE q < k
    BY <1>7, <2>1 DEF DataCell
  <2>2. CASE ~(q < k)
    <3>1. q - k \in Nat /\ q - k < D /\ (q - k) + k = q /\ q - k < flen
      BY <1>3, <2>2 DEF Pos
    <3>2. q - k \in Pos /\ file'[q] = file[q - k]
      BY <1>6, <3>1
    <3> QED
      BY <1>5, <3>1, <3>2 DEF NoDirectoryBelow
  <2> QED
    BY <2>1, <2>2
<1>9. \A i \in 1..n :
        DescribedBelow(file', file'[D + k + i - 1], k, entries[i], D + k)
  <2> TAKE i \in 1..n
  <2> DEFINE g == file'
             h == file[D + i - 1]
             e == entries[i]
  <2>1. DescribedBelow(file, h, 0, e, D) /\ e \in Entry
    BY <1>3, <1>5 DEF n
  <2>2. \A q \in Nat : q < D => At(g, Capacity, q + k) = At(file, Capacity, q)
    <3> TAKE q \in Nat
    <3> SUFFICES ASSUME q < D PROVE At(g, Capacity, q + k) = At(file, Capacity, q)
      OBVIOUS
    <3>1. q \in Pos /\ q + k \in Pos /\ g[q + k] = file[q]
      BY <1>3, <1>6
    <3> QED
      BY <3>1 DEF At, Pos
  <2>3. g[D + k + i - 1] = h
    <3>1. D + i - 1 \in Nat /\ D + i - 1 < flen /\ (D + i - 1) + k = D + k + i - 1
      BY <1>3
    <3> QED
      BY <1>6, <3>1
  <2> HIDE DEF g, h, e
  <2>4. DescribedBelow(g, h, 0 + k, e, D + k)
    BY <1>3, <2>1, <2>2, Frame
  <2>5. DescribedBelow(g, g[D + k + i - 1], k, e, D + k)
    BY <1>3, <2>3, <2>4
  <2> QED
    BY <2>5 DEF g, e
<1>10. file'[flen' - 1] = file[flen - 1]
  <2>1. flen - 1 \in Nat /\ flen - 1 < flen /\ (flen - 1) + k = flen' - 1
    BY <1>1, <1>3
  <2> QED
    BY <1>6, <2>1
<1>11. (D + k) - k = D - 0 /\ D + k >= k
  BY <1>3
<1>12. FinishedInv'
  BY <1>1, <1>4, <1>5, <1>8, <1>9, <1>10, <1>11 DEF FinishedInv, n
<1> QED
  BY <1>2, <1>4, <1>8, <1>10, <1>12 DEF DirectoryInv, ClearInv

\* Moving between entries and reading them leaves file and entries alone.
LEMMA LookDirectory ==
  ASSUME CallerHabits = {}, DirectoryInv, LookNext PROVE DirectoryInv'
<1>1. CASE GotoFirstEntry \/ GotoNextEntry
  BY <1>1, QuietDirectory
  DEF GotoFirstEntry, GotoNextEntry, Goto, Looking, Writing, fileVars, ghostVars
<1>2. CASE \E p \in Pos : GotoEntry(p)
  BY <1>2, QuietDirectory DEF GotoEntry, Goto, Looking, Writing, fileVars, ghostVars
<1>3. CASE \E n \in Names : LocateEntry(n)
  <2>1. PICK n \in Names : LocateEntry(n)
    BY <1>3
  <2>2. mode = "read"
    BY <2>1 DEF LocateEntry, Looking
  <2>3. UNCHANGED <<mode, file, flen, entries, health, stub>>
    BY <2>1 DEF LocateEntry, Goto, fileVars, ghostVars
  <2> QED
    BY <2>2, <2>3, QuietDirectory DEF Writing
<1> QED
  BY <1>1, <1>2, <1>3 DEF LookNext

LEMMA ReadDirectory == ASSUME DirectoryInv, ReadNext PROVE DirectoryInv'
<1>1. CASE ZipOpenRead \/ ZipCloseRead
  BY <1>1, QuietDirectory
  DEF ZipOpenRead, ZipCloseRead, FreshHandle, Writing, fileVars, ghostVars
<1>2. CASE EntryReadOpen \/ EntryRead
  BY <1>2, QuietDirectory DEF EntryReadOpen, EntryRead, Writing, fileVars, ghostVars
<1>3. CASE \E w \in BOOLEAN : EntryReadClose(w)
  BY <1>3, QuietDirectory DEF EntryReadClose, Writing, fileVars, ghostVars
<1> QED
  BY <1>1, <1>2, <1>3 DEF ReadNext

LEMMA InitDirectory == Init => DirectoryInv /\ ClearInv
BY DEF Init, DirectoryInv, ClearInv, Good

LEMMA NextDirectory ==
  ASSUME CallerHabits = {}, TypeInv, DirectoryInv, ClearInv, [Next]_vars PROVE DirectoryInv'
<1>1. CASE WriteNext
  <2>1. ASSUME NEW n \in Names, NEW u \in Declared, NEW z \in Zip64Modes,
               NEW dd \in Descriptors, EntryWriteOpen(n, u, z, dd)
        PROVE  DirectoryInv'
    BY <2>1, DeclaredType, WriteOpenDirectory
  <2> QED
    BY <1>1, <2>1, CreateDirectory, AppendDirectory, CloseWriteDirectory, WriteDirectory,
       WriteCloseDirectory DEF WriteNext
<1>2. CASE LookNext
  BY <1>2, LookDirectory
<1>3. CASE ReadNext
  BY <1>3, ReadDirectory
<1>4. CASE EnvNext
  BY <1>4, CrashDirectory, PrependDirectory DEF EnvNext
<1>5. CASE UNCHANGED vars
  <2>1. UNCHANGED <<file, flen, pos, mode, cdMem, cdMemPos, info, opened, crc, entries,
                    health, stub>>
    BY <1>5 DEF vars, fileVars, dirVars, entryVars, ghostVars
  <2> QED
    BY <2>1 DEF DirectoryInv, Good, Writing, WritingInv, Closing, OpenEntryInv, FinishedInv,
                DirStart
<1> QED
  BY <1>1, <1>2, <1>3, <1>4, <1>5 DEF Next

-----------------------------------------------------------------------------
(* Nothing of an older directory below *)

\* A cell written at the end of what was written.
LEMMA ClearAtEnd ==
  ASSUME NEW f \in [Pos -> Cell], NEW p \in Pos, NEW c \in Cell,
         c.t \notin {"central", "hole", "end"}, NoDirectoryBelow(f, p)
  PROVE  NoDirectoryBelow([f EXCEPT ![p] = c], p + 1)
<1> SUFFICES ASSUME NEW q \in Pos, q < p + 1
             PROVE  [f EXCEPT ![p] = c][q].t \notin {"central", "hole", "end"}
  BY DEF NoDirectoryBelow
<1>1. q = p \/ q < p
  BY DEF Pos
<1> QED
  BY <1>1 DEF NoDirectoryBelow

\* An open for appending begins where the directory was.
LEMMA AppendClear ==
  ASSUME CallerHabits = {}, TypeInv, DirectoryInv, ClearInv, ZipOpenAppend PROVE ClearInv'
<1> SUFFICES ASSUME Good' PROVE NoDirectoryBelow(file', IF Writing' THEN pos' ELSE DirStart')
  BY DEF ClearInv
<1>1. Good /\ FinishedInv /\ mode' = "append" /\ pos' = DirStart /\ file' = file /\ ~Writing
  BY AppendBegins
<1> QED
  BY <1>1 DEF ClearInv, Writing

LEMMA WriteCloseClear ==
  ASSUME TypeInv, DirectoryInv, ClearInv, EntryWriteClose PROVE ClearInv'
<1>1. /\ Writing /\ Writing' /\ Room(0) /\ health' = health
      /\ file' = Settled.file /\ pos' = Settled.pos
  BY DEF EntryWriteClose, Writing
<1>2. Good => WritingInv /\ NoDirectoryBelow(file, pos)
  BY <1>1 DEF DirectoryInv, ClearInv
<1>3. Good => NoDirectoryBelow(Settled.file, Settled.pos)
  BY <1>1, <1>2, SettledClear
<1> QED
  BY <1>1, <1>3 DEF ClearInv, Good

LEMMA WriteOpenClear ==
  ASSUME TypeInv, DirectoryInv, ClearInv,
         NEW name \in Names, NEW u \in Declared, NEW z \in Zip64Modes, NEW dd \in Descriptors,
         EntryWriteOpen(name, u, z, dd)
  PROVE  ClearInv'
<1> DEFINE s == Settled
           i == [name |-> name, dd |-> dd, zip64 |-> z, crc |-> <<>>, csize |-> 0,
                 usize |-> u, off |-> s.pos]
           h == LocalHeader(i, LocalZip64(i))
           k == IF dd THEN 3 ELSE 2
<1> SUFFICES ASSUME Good' PROVE ClearInv'
  BY DEF ClearInv
<1>1. /\ Writing /\ Writing' /\ Room(k) /\ health' = health
      /\ s.ok => file' = [s.file EXCEPT ![s.pos] = h] /\ pos' = s.pos + 1
      /\ ~s.ok => file' = s.file /\ pos' = s.pos
  BY DEF EntryWriteOpen, Writing
<1>2. WritingInv /\ NoDirectoryBelow(file, pos)
  BY <1>1 DEF DirectoryInv, ClearInv, Good
<1>3. k \in Nat /\ k > 0
  OBVIOUS
<1> HIDE DEF s, i, h, k
<1>4. NoDirectoryBelow(s.file, s.pos)
  BY <1>1, <1>2, <1>3, SettledClear DEF s
<1>5. /\ s.file \in [Pos -> Cell] /\ s.pos \in Nat /\ Len(s.cdMem) \in Nat
      /\ s.pos + k + Len(s.cdMem) + 1 <= Capacity
  BY <1>1, <1>3, SettledType DEF s
<1>6. s.pos \in Pos
  BY <1>3, <1>5, CapacityType DEF Pos
<1>7. h \in Cell /\ h.t = "local"
  <2>1. i \in Info /\ i.name = name
    BY <1>5, DeclaredType, ContentEmpty DEF Info, i
  <2>2. LocalZip64(i) \in BOOLEAN
    BY DEF LocalZip64
  <2> QED
    BY <2>1, <2>2, RecordTypes DEF LocalHeader, h
<1>8. NoDirectoryBelow([s.file EXCEPT ![s.pos] = h], s.pos + 1)
  BY <1>4, <1>5, <1>6, <1>7, ClearAtEnd
<1> QED
  BY <1>1, <1>4, <1>8 DEF ClearInv

LEMMA WriteClear ==
  ASSUME TypeInv, DirectoryInv, ClearInv, NEW c \in Chunks, EntryWrite(c) PROVE ClearInv'
<1> SUFFICES ASSUME Good' PROVE ClearInv'
  BY DEF ClearInv
<1>1. /\ Writing /\ Writing' /\ opened /\ Room(1) /\ health' = health
      /\ file' = [file EXCEPT ![pos] = DataCell(c)] /\ pos' = pos + 1
  BY DEF EntryWrite, Writing, ghostVars
<1>2. WritingInv /\ OpenEntryInv /\ NoDirectoryBelow(file, pos)
  BY <1>1 DEF DirectoryInv, ClearInv, Good, WritingInv
<1>3. file \in [Pos -> Cell] /\ pos \in Pos
  BY <1>1, <1>2, OpenEntryType
<1>4. DataCell(c) \in Cell /\ DataCell(c).t = "data"
  BY RecordTypes DEF DataCell
<1>5. NoDirectoryBelow([file EXCEPT ![pos] = DataCell(c)], pos + 1)
  BY <1>2, <1>3, <1>4, ClearAtEnd
<1> QED
  BY <1>1, <1>5 DEF ClearInv

LEMMA CloseWriteClear ==
  ASSUME TypeInv, DirectoryInv, ClearInv, ZipCloseWrite PROVE ClearInv'
<1> DEFINE s == Settled
           n == Len(s.entries)
<1> SUFFICES ASSUME Good' PROVE ClearInv'
  BY DEF ClearInv
<1>1. /\ Good /\ WritingInv /\ Writing /\ Room(0) /\ mode' = "none" /\ entries' = s.entries
      /\ n \in Nat /\ s.pos \in Nat /\ flen' = s.pos + n + 1
      /\ \A q \in Pos : q < s.pos => file'[q] = s.file[q]
  BY ClosedArchive
<1>2. NoDirectoryBelow(s.file, s.pos)
  BY <1>1, SettledClear DEF ClearInv
<1> HIDE DEF s
<1>3. DirStart' = s.pos /\ ~Writing'
  BY <1>1 DEF DirStart, Writing
<1>4. NoDirectoryBelow(file', s.pos)
  BY <1>1, <1>2 DEF NoDirectoryBelow
<1> QED
  BY <1>3, <1>4 DEF ClearInv

LEMMA QuietClear ==
  ASSUME ClearInv, ~Writing, ~Writing', UNCHANGED <<file, flen, entries, health>>
  PROVE  ClearInv'
BY DEF ClearInv, Good, DirStart

LEMMA NextClear ==
  ASSUME CallerHabits = {}, TypeInv, DirectoryInv, ClearInv, [Next]_vars PROVE ClearInv'
<1>1. CASE WriteNext
  <2>1. CASE ZipOpenCreate
    <3>1. mode' = "write" /\ pos' = 0
      BY <2>1 DEF ZipOpenCreate, TypeInv, FreshWhenClosed
    <3> QED
      BY <3>1 DEF ClearInv, Writing, NoDirectoryBelow, Pos
  <2> QED
    BY <1>1, <2>1, AppendClear, CloseWriteClear, WriteOpenClear, WriteClear, WriteCloseClear
    DEF WriteNext
<1>2. CASE LookNext
  <2>1. mode = "read" /\ UNCHANGED <<mode, file, flen, entries, health>>
    BY <1>2 DEF LookNext, GotoFirstEntry, GotoNextEntry, GotoEntry, LocateEntry, Goto, Looking,
                fileVars, ghostVars
  <2> QED
    BY <2>1, QuietClear DEF Writing
<1>3. CASE ReadNext
  <2>1. /\ ~Writing /\ ~Writing' /\ UNCHANGED <<file, flen, entries, health>>
    BY <1>3 DEF ReadNext, ZipOpenRead, ZipCloseRead, EntryReadOpen, EntryRead, EntryReadClose,
                FreshHandle, Writing, fileVars, ghostVars
  <2> QED
    BY <2>1, QuietClear
<1>4. CASE EnvNext
  <2>1. CASE Crash \/ \E k \in 1..(Capacity - 1) : CrashInClose(k)
    <3>1. health' = Died
      BY <2>1 DEF Crash, CrashInClose
    <3> QED
      BY <3>1 DEF ClearInv, Good, Died
  <2> QED
    BY <1>4, <2>1, PrependDirectory DEF EnvNext
<1>5. CASE UNCHANGED vars
  <2>1. UNCHANGED <<file, flen, mode, pos, entries, health>>
    BY <1>5 DEF vars, fileVars, ghostVars
  <2> QED
    BY <2>1 DEF ClearInv, Good, Writing, DirStart
<1> QED
  BY <1>1, <1>2, <1>3, <1>4, <1>5 DEF Next

-----------------------------------------------------------------------------
(* Counting, where no directory header can fail *)

LEMMA SettledCount ==
  ASSUME TypeInv, Writing, WritingInv, CountInv, Good, NEW k \in Nat, Room(k)
  PROVE  /\ Settled.ok /\ Settled.number = Len(Settled.cdMem)
<1>1. /\ numberEntry = Len(cdMem) /\ cdMemPos = Len(cdMem) /\ cdMem \in Seq(Cell)
      /\ numberEntry \in Nat
  BY DEF CountInv, WritingInv, Sound, TypeInv, MemType, DirType
<1>2. CASE ~opened
  BY <1>1, <1>2, SettledFields
<1>3. CASE opened
  <2>1. ~CentralHeaderFails(info)
    BY <1>3 DEF CountInv, CentralHeaderFails, Zip64Auto, Zip64Disable
  <2>2. /\ Settled.ok = TRUE /\ Settled.number = numberEntry + 1
        /\ Settled.cdMem = Append(cdMem, CentralHeader(FinalInfo))
    BY <1>1, <1>3, <2>1, SettledFields DEF PutAt
  <2> QED
    BY <1>1, <2>2
<1> QED
  BY <1>2, <1>3

\* What a step that leaves the file alone preserves.
LEMMA QuietCount ==
  ASSUME CountInv, ~Writing, ~Writing', UNCHANGED <<file, flen, entries, health>>
  PROVE  CountInv'
BY DEF CountInv, Good

LEMMA AppendCount ==
  ASSUME CallerHabits = {}, TypeInv, DirectoryInv, CountInv, ZipOpenAppend PROVE CountInv'
<1> DEFINE d == ReadCd(file, flen)
           m == [i \in 1..d.size |-> file[d.off + i - 1]]
<1>1. /\ mode = "none" /\ Writing = FALSE /\ opened' = FALSE
      /\ file' = file /\ flen' = flen /\ entries' = entries
      /\ health' = IF d.ok /\ ~Good THEN "reused" ELSE health
      /\ IF d.ok THEN mode' = "append" /\ cdMem' = m /\ numberEntry' = d.number
         ELSE mode' = mode
  BY DEF ZipOpenAppend, Writing, TypeInv, FreshWhenClosed, fileVars, entryVars
<1> HIDE DEF m
<1>2. CASE ~d.ok
  <2>1. ~Writing' /\ health' = health
    BY <1>1, <1>2 DEF Writing
  <2> QED
    BY <1>1, <2>1, QuietCount
<1>3. CASE d.ok /\ ~Good
  BY <1>1, <1>3 DEF CountInv, Good
<1>4. CASE d.ok /\ Good
  <2>1. FinishedInv /\ file[flen - 1].number = Len(entries)
    BY <1>1, <1>4 DEF DirectoryInv, CountInv
  <2>2. d.size = Len(entries) /\ d.number = Len(entries) /\ Len(entries) \in Nat
    BY <2>1, FinishedRead
  <2>3. Len(m) = Len(entries)
    BY <2>2 DEF m
  <2>4. Writing' /\ numberEntry' = Len(cdMem')
    BY <1>1, <1>4, <2>2, <2>3 DEF Writing
  <2> QED
    BY <1>1, <2>4 DEF CountInv
<1> QED
  BY <1>2, <1>3, <1>4

LEMMA WriteCloseCount ==
  ASSUME TypeInv, DirectoryInv, CountInv, EntryWriteClose PROVE CountInv'
<1>1. /\ Writing /\ Writing' /\ Room(0) /\ health' = health /\ opened' = FALSE
      /\ cdMem' = Settled.cdMem /\ numberEntry' = Settled.number
  BY DEF EntryWriteClose, Writing
<1>2. Good' => Good /\ WritingInv
  BY <1>1 DEF DirectoryInv, Good
<1>3. Good' => Settled.number = Len(Settled.cdMem)
  BY <1>1, <1>2, SettledCount
<1> QED
  BY <1>1, <1>3 DEF CountInv

LEMMA WriteOpenCount ==
  ASSUME TypeInv, DirectoryInv, CountInv,
         NEW name \in Names, NEW u \in Nat, NEW dd \in BOOLEAN,
         EntryWriteOpen(name, u, Zip64Auto, dd)
  PROVE  CountInv'
<1> DEFINE k == IF dd THEN 3 ELSE 2
<1>1. /\ Writing /\ Writing' /\ Room(k) /\ health' = health
      /\ cdMem' = Settled.cdMem /\ numberEntry' = Settled.number
  BY DEF EntryWriteOpen, Writing
<1>2. Good' => Good /\ WritingInv
  BY <1>1 DEF DirectoryInv, Good
<1>3. k \in Nat
  OBVIOUS
<1> HIDE DEF k
<1>4. Good' => Settled.number = Len(Settled.cdMem)
  BY <1>1, <1>2, <1>3, SettledCount
<1>5. opened' => info'.zip64 = Zip64Auto
  <2>1. CASE Settled.ok
    BY <2>1 DEF EntryWriteOpen
  <2>2. CASE ~Settled.ok
    BY <2>2 DEF EntryWriteOpen
  <2> QED
    BY <2>1, <2>2
<1> QED
  BY <1>1, <1>4, <1>5 DEF CountInv

LEMMA CloseWriteCount ==
  ASSUME TypeInv, DirectoryInv, CountInv, ZipCloseWrite PROVE CountInv'
<1> DEFINE s == Settled
           n == Len(s.entries)
<1>1. mode' = "none"
  BY DEF ZipCloseWrite, FreshHandle
<1>2. ASSUME Good' PROVE file'[flen' - 1].number = Len(entries')
  <2>1. /\ Good /\ WritingInv /\ Writing /\ Room(0) /\ entries' = s.entries
        /\ n \in Nat /\ s.pos \in Nat /\ flen' = s.pos + n + 1
        /\ file'[s.pos + n] = EndRecord(s.number, n, s.pos)
        /\ Len(s.cdMem) = n
    BY <1>2, ClosedArchive DEF Sound
  <2>2. s.number = Len(s.cdMem)
    BY <2>1, SettledCount
  <2> HIDE DEF s
  <2>3. flen' - 1 = s.pos + n
    BY <2>1
  <2> QED
    BY <2>1, <2>2, <2>3 DEF EndRecord
<1> QED
  BY <1>1, <1>2 DEF CountInv, Writing

LEMMA NextCount ==
  ASSUME CallerHabits = {}, Zip64Disable \notin Zip64Modes,
         TypeInv, DirectoryInv, ClearInv, CountInv, [Next]_vars
  PROVE  CountInv'
<1>1. CASE WriteNext
  <2>1. CASE ZipOpenCreate
    BY <2>1 DEF ZipOpenCreate, entryVars, CountInv, Writing, TypeInv, FreshWhenClosed
  <2>2. CASE \E c \in Chunks : EntryWrite(c)
    <3>1. UNCHANGED <<mode, cdMem, numberEntry, info, opened, health>> /\ Writing
      BY <2>2 DEF EntryWrite, dirVars, ghostVars
    <3> QED
      BY <3>1 DEF CountInv, Good, Writing
  <2>3. ASSUME NEW n \in Names, NEW u \in Declared, NEW z \in Zip64Modes,
               NEW dd \in Descriptors, EntryWriteOpen(n, u, z, dd)
        PROVE  CountInv'
    <3>1. u \in Nat /\ z = Zip64Auto /\ dd \in BOOLEAN
      BY DeclaredType
    <3> QED
      BY <2>3, <3>1, WriteOpenCount
  <2> QED
    BY <1>1, <2>1, <2>2, <2>3, AppendCount, CloseWriteCount, WriteCloseCount DEF WriteNext
<1>2. CASE LookNext
  <2>1. mode = "read" /\ UNCHANGED <<mode, file, flen, entries, health>>
    BY <1>2 DEF LookNext, GotoFirstEntry, GotoNextEntry, GotoEntry, LocateEntry, Goto, Looking,
                fileVars, ghostVars
  <2> QED
    BY <2>1, QuietCount DEF Writing
<1>3. CASE ReadNext
  <2>1. /\ ~Writing /\ ~Writing' /\ UNCHANGED <<file, flen, entries, health>>
    BY <1>3 DEF ReadNext, ZipOpenRead, ZipCloseRead, EntryReadOpen, EntryRead, EntryReadClose,
                FreshHandle, Writing, fileVars, ghostVars
  <2> QED
    BY <2>1, QuietCount
<1>4. CASE EnvNext
  <2>1. CASE Crash \/ \E k \in 1..(Capacity - 1) : CrashInClose(k)
    <3>1. health' = Died /\ mode' = "none"
      BY <2>1 DEF Crash, CrashInClose, FreshHandle
    <3> QED
      BY <3>1 DEF CountInv, Good, Died, Writing
  <2>2. CASE \E k \in 1..MaxStub, c \in Chunks : Prepend(k, c)
    <3>1. PICK k \in 1..MaxStub, c \in Chunks : Prepend(k, c)
      BY <2>2
    <3>2. /\ mode = "none" /\ mode' = "none" /\ Good /\ entries' = entries
      BY <3>1 DEF Prepend
    <3>3. file'[flen' - 1] = file[flen - 1]
      BY <3>1, PrependDirectory
    <3> QED
      BY <3>2, <3>3 DEF CountInv, Writing
  <2> QED
    BY <1>4, <2>1, <2>2 DEF EnvNext
<1>5. CASE UNCHANGED vars
  <2>1. UNCHANGED <<file, flen, mode, cdMem, numberEntry, info, opened, entries, health>>
    BY <1>5 DEF vars, fileVars, dirVars, entryVars, ghostVars
  <2> QED
    BY <2>1 DEF CountInv, Good, Writing
<1> QED
  BY <1>1, <1>2, <1>3, <1>4, <1>5 DEF Next

-----------------------------------------------------------------------------
(* The theorems *)

\* With callers that move between entries only while reading, and append only to
\* archives with nothing in front: the directory in memory describes, in order, all
\* entries closed so far, over any number of sessions.
THEOREM DirectoryCorrect ==
  ASSUME CallerHabits = {} PROVE Spec => []DirectoryDescribesEntries
<1>1. Spec => []TypeInv
  BY InitType, NextType, PTL DEF Spec
<1>2. Init => DirectoryInv /\ ClearInv
  BY InitDirectory
<1>3. TypeInv /\ DirectoryInv /\ ClearInv /\ [Next]_vars => DirectoryInv' /\ ClearInv'
  BY NextDirectory, NextClear
<1>4. DirectoryInv => DirectoryDescribesEntries
  <2> SUFFICES ASSUME DirectoryInv, Writing, Good
               PROVE  /\ Len(cdMem) = Len(entries)
                      /\ \A i \in 1..Len(entries) : Describes(file, cdMem[i], 0, entries[i])
    BY DEF DirectoryDescribesEntries
  <2>1. Sound(file, flen, pos, Closing, cdMem, cdMemPos, entries)
    BY DEF DirectoryInv, WritingInv
  <2> QED
    BY <2>1 DEF Sound, DescribedBelow
<1> QED
  BY <1>1, <1>2, <1>3, <1>4, PTL DEF Spec

\* If moreover no entry disables the 64-bit format: a finished archive opens, its end
\* record counts its entries, and its directory describes them in order, also behind
\* whatever was put in front.
THEOREM FinishedArchiveCorrect ==
  ASSUME CallerHabits = {}, Zip64Disable \notin Zip64Modes
  PROVE  Spec => []FinishedArchiveOpens
<1>1. Spec => []TypeInv
  BY InitType, NextType, PTL DEF Spec
<1>2. Init => DirectoryInv /\ ClearInv /\ CountInv
  BY InitDirectory DEF Init, CountInv, Good, Writing
<1>3. TypeInv /\ DirectoryInv /\ ClearInv /\ CountInv /\ [Next]_vars
        => DirectoryInv' /\ ClearInv' /\ CountInv'
  BY NextDirectory, NextClear, NextCount
<1>4. TypeInv /\ DirectoryInv /\ CountInv => FinishedArchiveOpens
  <2> SUFFICES ASSUME TypeInv, DirectoryInv, CountInv, mode \in {"none", "read"}, Good
               PROVE  LET d == ReadCd(file, flen) IN
                      /\ d.ok /\ d.number = Len(entries) /\ d.size = Len(entries)
                      /\ \A i \in 1..Len(entries) :
                           Describes(file, file[d.off + i - 1], d.shift, entries[i])
    BY Zenon DEF FinishedArchiveOpens
  <2>1. FinishedInv /\ file[flen - 1].number = Len(entries)
    BY DEF DirectoryInv, CountInv, Writing
  <2> DEFINE d == ReadCd(file, flen)
  <2>2. /\ Len(entries) \in Nat /\ d.ok /\ d.size = Len(entries)
        /\ d.number = Len(entries)
        /\ Len(entries) > 0 => d.off = DirStart /\ d.shift = stub
    BY <2>1, FinishedRead
  <2> HIDE DEF d
  <2>3. \A i \in 1..Len(entries) :
          Describes(file, file[d.off + i - 1], d.shift, entries[i])
    <3> TAKE i \in 1..Len(entries)
    <3>1. d.off = DirStart /\ d.shift = stub
      BY <2>2
    <3>2. Describes(file, file[DirStart + i - 1], stub, entries[i])
      BY <2>1 DEF FinishedInv, DescribedBelow
    <3> QED
      BY <3>1, <3>2
  <2> QED
    BY <2>2, <2>3 DEF d
<1> QED
  BY <1>1, <1>2, <1>3, <1>4, PTL DEF Spec

-----------------------------------------------------------------------------
(* Reading a finished archive *)

\* What the handle knows of the finished archive it reads: where the directory
\* begins and how far its offsets are short, where there is an entry to find or
\* nothing in front; a header under the cursor; and, while an entry is open, that
\* the stream is as far behind its local header as what came out of it, which is
\* how its content begins.
PlacedInv ==
  /\ entries # <<>> \/ stub = 0 => cdStart = DirStart
  /\ entries # <<>> => shift = stub
CursorInv == scanned => cdCur \in DirStart..(flen - 2) /\ info = InfoOf(file[cdCur])
OpenedInv ==
  opened =>
    /\ scanned /\ pos = LocalAt + 1 + Len(crc)
    /\ Len(crc) <= info.csize /\ \A i \in 1..Len(crc) : crc[i] = info.crc[i]
ReaderInv == mode = "read" /\ Good => PlacedInv /\ CursorInv /\ OpenedInv

\* The numbers of a finished archive.
LEMMA FinishedFacts ==
  ASSUME TypeInv, FinishedInv
  PROVE  /\ file \in [Pos -> Cell] /\ flen \in 0..Capacity /\ entries \in Seq(Entry)
         /\ Len(entries) \in Nat /\ DirStart \in Nat /\ stub \in Nat
         /\ flen = DirStart + Len(entries) + 1
         /\ file[flen - 1].t = "end" /\ (stub > 0 => NoDirectoryBelow(file, DirStart))
         /\ \A i \in 1..Len(entries) :
              DescribedBelow(file, file[DirStart + i - 1], stub, entries[i], DirStart)
<1>1. /\ Len(entries) \in Nat /\ DirStart \in Nat /\ stub \in Nat
      /\ flen = DirStart + Len(entries) + 1
  BY FinishedRead
<1>2. file \in [Pos -> Cell] /\ flen \in 0..Capacity /\ entries \in Seq(Entry)
  BY DEF TypeInv, FileType, GhostType
<1>3. /\ file[flen - 1].t = "end" /\ (stub > 0 => NoDirectoryBelow(file, DirStart))
      /\ \A i \in 1..Len(entries) :
            DescribedBelow(file, file[DirStart + i - 1], stub, entries[i], DirStart)
  BY Zenon DEF FinishedInv
<1> QED
  BY <1>1, <1>2, <1>3, Zenon

LEMMA ReadFinished ==
  ASSUME TypeInv, DirectoryInv, mode = "read", Good PROVE FinishedInv /\ ~cdInMem
<1>1. ~Writing
  BY DEF Writing
<1> QED
  BY <1>1, Zenon DEF DirectoryInv, TypeInv, InMemoryWhenWriting

\* A finished archive has the headers of its directory and no other: none behind, and none
\* before where nothing else was before it.
LEMMA HeadersAreHere ==
  ASSUME TypeInv, FinishedInv, NEW p \in Int,
         p >= DirStart \/ stub > 0 \/ NoDirectoryBelow(file, DirStart)
  PROVE  At(file, flen, p).t = "central" <=> p \in DirStart..(flen - 2)
<1> DEFINE n == Len(entries)
           D == DirStart
<1>1. /\ file \in [Pos -> Cell] /\ flen \in 0..Capacity /\ n \in Nat /\ D \in Nat
      /\ flen = D + n + 1 /\ file[flen - 1].t = "end"
      /\ p >= D \/ NoDirectoryBelow(file, D)
      /\ \A i \in 1..n : DescribedBelow(file, file[D + i - 1], stub, entries[i], D)
  BY FinishedFacts
<1> HIDE DEF n, D
<1>2. CASE p \in D..(flen - 2)
  <2> DEFINE i == p - D + 1
  <2>1. i \in 1..n /\ p = D + i - 1 /\ p \in 0..(flen - 1)
    BY <1>1, <1>2
  <2> HIDE DEF i
  <2>2. file[D + i - 1].t = "central"
    BY <1>1, <2>1, DescribedCell
  <2>3. At(file, flen, p) = file[p]
    BY <2>1 DEF At
  <2> QED
    BY <1>2, <2>1, <2>2, <2>3 DEF D
<1>3. CASE p \notin D..(flen - 2)
  <2>1. p < 0 \/ p \in 0..(D - 1) \/ p = flen - 1 \/ p > flen - 1
    BY <1>1, <1>3
  <2>2. CASE p \in 0..(D - 1)
    <3>1. p \in Pos /\ p < D /\ p \in 0..(flen - 1)
      BY <1>1, <2>2, CapacityType DEF Pos
    <3> QED
      BY <1>1, <1>3, <3>1 DEF At, NoDirectoryBelow, D
  <2>3. CASE p = flen - 1
    BY <1>1, <1>3, <2>3 DEF At, D
  <2>4. CASE p < 0 \/ p > flen - 1
    <3>1. p \notin 0..(flen - 1)
      BY <1>1, <2>4
    <3> QED
      BY <1>3, <3>1 DEF At, Hole, D
  <2> QED
    BY <2>1, <2>2, <2>3, <2>4
<1> QED
  BY <1>2, <1>3 DEF D

\* Information i, from the directory, is that of entry e and leads to it.
Leads(i, e) ==
  LET p == i.off + stub
      n == Len(e.data)
  IN /\ i.name = e.name /\ i.crc = e.data /\ i.csize = n
     /\ p \in 0..(flen - 1) /\ file[p].t = "local"
     /\ \A j \in 1..n : p + j \in 0..(flen - 1) /\ file[p + j] = DataCell(e.data[j])
     /\ i.dd => p + 1 + n \in 0..(flen - 1) /\ file[p + 1 + n].t = "descriptor"

LEMMA HeaderLeads ==
  ASSUME TypeInv, FinishedInv, NEW p \in DirStart..(flen - 2)
  PROVE  LET k == p - DirStart + 1
         IN /\ k \in 1..Len(entries) /\ entries[k] \in Entry
            /\ file[p] \in Cell /\ file[p].t = "central"
            /\ Leads(InfoOf(file[p]), entries[k])
<1> DEFINE k == p - DirStart + 1
           e == entries[k]
           c == file[p]
           n == Len(e.data)
           o == c.off + stub
<1>1. /\ file \in [Pos -> Cell] /\ flen \in 0..Capacity /\ entries \in Seq(Entry)
      /\ Len(entries) \in Nat /\ DirStart \in Nat /\ stub \in Nat
      /\ flen = DirStart + Len(entries) + 1
      /\ \A i \in 1..Len(entries) :
            DescribedBelow(file, file[DirStart + i - 1], stub, entries[i], DirStart)
  BY FinishedFacts
<1>2. k \in 1..Len(entries) /\ DirStart + k - 1 = p
  BY <1>1
<1>3. e \in Entry /\ DescribedBelow(file, c, stub, e, DirStart)
  BY <1>1, <1>2
<1> HIDE DEF k, e, c
<1>4. /\ c \in Cell /\ c.t = "central" /\ c.name = e.name /\ c.crc = e.data /\ c.csize = n
      /\ At(file, Capacity, o).t = "local"
      /\ \A i \in 1..n : At(file, Capacity, o + i) = DataCell(e.data[i])
      /\ c.dd => At(file, Capacity, o + n + 1).t = "descriptor"
      /\ o + n + (IF c.dd THEN 1 ELSE 0) < DirStart
  BY <1>3 DEF DescribedBelow, Describes
<1>5. c.off \in Nat /\ c.dd \in BOOLEAN /\ n \in Nat
  BY <1>3, <1>4, CentralFields, EntryFields
<1>6. o \in Nat
  BY <1>1, <1>5
<1> HIDE DEF n, o
<1>7. \A q \in Nat : q < DirStart =>
        q \in 0..(flen - 1) /\ At(file, Capacity, q) = file[q]
  <2> TAKE q \in Nat
  <2> SUFFICES ASSUME q < DirStart
               PROVE  q \in 0..(flen - 1) /\ At(file, Capacity, q) = file[q]
    OBVIOUS
  <2>1. q \in 0..(flen - 1) /\ q \in 0..(Capacity - 1)
    BY <1>1, CapacityType
  <2> QED
    BY <2>1 DEF At
<1>8. o \in 0..(flen - 1) /\ file[o].t = "local"
  <2>1. o < DirStart
    BY <1>1, <1>4, <1>5, <1>6
  <2> QED
    BY <1>4, <1>6, <1>7, <2>1
<1>9. \A j \in 1..n : o + j \in 0..(flen - 1) /\ file[o + j] = DataCell(e.data[j])
  <2> TAKE j \in 1..n
  <2>1. o + j \in Nat /\ o + j < DirStart
    BY <1>1, <1>4, <1>5, <1>6
  <2> QED
    BY <1>4, <1>7, <2>1
<1>10. c.dd => o + 1 + n \in 0..(flen - 1) /\ file[o + 1 + n].t = "descriptor"
  <2> SUFFICES ASSUME c.dd
               PROVE  o + 1 + n \in 0..(flen - 1) /\ file[o + 1 + n].t = "descriptor"
    OBVIOUS
  <2>1. o + 1 + n = o + n + 1 /\ o + n + 1 \in Nat /\ o + n + 1 < DirStart
    BY <1>1, <1>4, <1>5, <1>6
  <2> QED
    BY <1>4, <1>7, <2>1
<1> DEFINE i == InfoOf(c)
<1>11. i.name = c.name /\ i.crc = c.crc /\ i.csize = c.csize /\ i.dd = c.dd /\ i.off = c.off
  BY DEF InfoOf
<1> HIDE DEF i
<1>12. Leads(i, e)
  BY <1>4, <1>8, <1>9, <1>10, <1>11 DEF Leads, n, o
<1> QED
  BY <1>2, <1>3, <1>4, <1>12 DEF k, e, c, i

\* The entry under the cursor.
LEMMA EntryUnderCursor ==
  ASSUME TypeInv, DirectoryInv, PlacedInv, CursorInv, mode = "read", Good, scanned
  PROVE  LET k == cdCur - cdStart + 1
         IN /\ cdStart = DirStart /\ shift = stub /\ k \in 1..Len(entries)
            /\ entries[k] \in Entry /\ Leads(info, entries[k])
            /\ LocalAt = info.off + stub /\ LocalAt \in Nat
<1>1. FinishedInv /\ cdCur \in DirStart..(flen - 2) /\ info = InfoOf(file[cdCur])
  BY ReadFinished DEF CursorInv
<1>2. /\ cdCur - DirStart + 1 \in 1..Len(entries)
      /\ entries[cdCur - DirStart + 1] \in Entry
      /\ Leads(info, entries[cdCur - DirStart + 1])
  BY <1>1, HeaderLeads
<1>3. entries # <<>>
  BY <1>2
<1>4. cdStart = DirStart /\ shift = stub
  BY <1>3 DEF PlacedInv
<1>5. LocalAt = info.off + stub
  BY <1>4 DEF LocalAt
<1>6. LocalAt \in Nat
  BY <1>2, <1>5 DEF Leads
<1> QED
  BY <1>1, <1>2, <1>4, <1>5, <1>6

LEMMA CurrentEntry ==
  ASSUME TypeInv, DirectoryInv, ReaderInv, mode = "read", Good, scanned
  PROVE  LET k == cdCur - cdStart + 1
         IN /\ cdStart = DirStart /\ shift = stub /\ k \in 1..Len(entries)
            /\ entries[k] \in Entry /\ Leads(info, entries[k])
            /\ LocalAt = info.off + stub /\ LocalAt \in Nat
<1>1. PlacedInv /\ CursorInv
  BY DEF ReaderInv
<1> QED
  BY <1>1, EntryUnderCursor

\* What a step out of a reading session, or of no change to it, preserves.
LEMMA NotReading == ASSUME mode' # "read" PROVE ReaderInv'
BY DEF ReaderInv

LEMMA WriteReader == ASSUME WriteNext PROVE ReaderInv'
<1>1. mode' # "read"
  BY DEF WriteNext, ZipOpenCreate, ZipOpenAppend, ZipCloseWrite, EntryWriteOpen, EntryWrite,
         EntryWriteClose, FreshHandle, Writing
<1> QED
  BY <1>1, NotReading

LEMMA OpenReadPlaced ==
  ASSUME TypeInv, DirectoryInv, ZipOpenRead, mode' = "read", Good'
  PROVE  /\ PlacedInv' /\ ~scanned' /\ ~opened' /\ cdSize' = Len(entries)
         /\ UNCHANGED <<file, flen, entries, health, stub>>
<1> DEFINE d == ReadCd(file, flen)
<1>1. /\ mode = "none" /\ UNCHANGED <<file, flen, entries, health, stub, scanned, opened>>
      /\ cdStart' = d.off /\ shift' = d.shift /\ cdSize' = d.size
  BY DEF ZipOpenRead, fileVars, ghostVars, entryVars
<1>2. FinishedInv /\ ~scanned /\ ~opened
  BY <1>1 DEF DirectoryInv, Good, Writing, TypeInv, FreshWhenClosed
<1>3. /\ Len(entries) \in Nat /\ stub \in Nat
      /\ Len(entries) > 0 => d.off = DirStart /\ d.shift = stub
      /\ Len(entries) = 0 /\ stub = 0 => d.off = DirStart
      /\ d.size = Len(entries)
  BY <1>2, FinishedRead
<1> HIDE DEF d
<1>4. entries # <<>> => Len(entries) > 0
  BY EmptySeq, <1>3 DEF TypeInv, GhostType
<1>5. DirStart' = DirStart
  BY <1>1 DEF DirStart
<1>6. PlacedInv'
  BY <1>1, <1>3, <1>4, <1>5 DEF PlacedInv
<1> QED
  BY <1>1, <1>2, <1>3, <1>6

LEMMA OpenReadReader ==
  ASSUME TypeInv, DirectoryInv, ZipOpenRead PROVE ReaderInv'
BY OpenReadPlaced, Zenon DEF ReaderInv, CursorInv, OpenedInv

\* Moving to a position of the directory.
LEMMA GotoCursor ==
  ASSUME TypeInv, DirectoryInv, PlacedInv, mode = "read", Good, NEW p \in Int, Goto(p),
         p >= DirStart \/ stub > 0
  PROVE  /\ PlacedInv' /\ CursorInv' /\ cdCur' = p
         /\ scanned' <=> p \in DirStart..(flen - 2)
         /\ scanned' => ret' = "OK" /\ info' = InfoOf(file[p])
         /\ UNCHANGED <<file, flen, mode, cdStart, cdSize, shift, opened, crc, entries, health,
                        stub>>
<1>1. /\ UNCHANGED <<file, flen, mode, cdStart, cdSize, shift, opened, crc, entries, health,
                      stub>>
      /\ cdCur' = p
      /\ CdCell(p).t = "central" =>
            scanned' = TRUE /\ info' = InfoOf(CdCell(p)) /\ ret' = "OK"
      /\ CdCell(p).t # "central" => scanned' = FALSE
  BY DEF Goto, fileVars, ghostVars
<1>2. FinishedInv /\ ~cdInMem
  BY ReadFinished
<1>3. DirStart' = DirStart
  BY <1>1 DEF DirStart
<1>4. PlacedInv'
  BY <1>1, <1>3 DEF PlacedInv
<1>5. CdCell(p) = At(file, flen, p)
  BY <1>2 DEF CdCell, CdCellAt
<1>6. At(file, flen, p).t = "central" <=> p \in DirStart..(flen - 2)
  BY <1>2, HeadersAreHere
<1>7. At(file, flen, p).t = "central" => At(file, flen, p) = file[p]
  BY DEF At, Hole
<1>8. /\ scanned' <=> p \in DirStart..(flen - 2)
      /\ scanned' => ret' = "OK" /\ info' = InfoOf(file[p])
  BY <1>1, <1>5, <1>6, <1>7
<1>9. CursorInv'
  BY <1>1, <1>3, <1>8 DEF CursorInv
<1> QED
  BY <1>1, <1>4, <1>8, <1>9

LEMMA GotoReader ==
  ASSUME TypeInv, DirectoryInv, ReaderInv, mode = "read", ~opened, NEW p \in Int, Goto(p),
         Good => p >= DirStart \/ stub > 0
  PROVE  ReaderInv'
<1> SUFFICES ASSUME mode' = "read", Good' PROVE PlacedInv' /\ CursorInv' /\ OpenedInv'
  BY Zenon DEF ReaderInv
<1>1. health' = health /\ opened' = opened
  BY DEF Goto, ghostVars
<1>2. Good /\ PlacedInv
  BY <1>1 DEF Good, ReaderInv
<1> QED
  BY <1>1, <1>2, GotoCursor DEF OpenedInv

LEMMA LookReader ==
  ASSUME CallerHabits = {}, TypeInv, DirectoryInv, ReaderInv, LookNext PROVE ReaderInv'
<1>1. mode = "read" /\ ~opened
  BY DEF LookNext, GotoFirstEntry, GotoNextEntry, GotoEntry, LocateEntry, Looking
<1>2. cdStart \in Nat /\ cdCur \in Nat
  BY DEF TypeInv, DirType
<1>3. ASSUME UNCHANGED <<file, flen, mode, pos, cdStart, shift, cdCur, info, scanned, opened,
                         crc, entries, health, stub>>
      PROVE  ReaderInv'
  BY <1>3 DEF ReaderInv, PlacedInv, CursorInv, OpenedInv, Good, DirStart, LocalAt
<1>8. Good => stub > 0 \/ cdStart = DirStart
  <2>1. stub \in Nat
    BY BoundType DEF TypeInv, GhostType
  <2> QED
    BY <1>1, <2>1 DEF ReaderInv, PlacedInv
<1>9. DirStart \in Int
  BY DEF DirStart, TypeInv, FileType, GhostType
<1>4. CASE GotoFirstEntry
  BY <1>1, <1>2, <1>4, <1>8, <1>9, GotoReader DEF GotoFirstEntry
<1>5. CASE GotoNextEntry
  <2>1. cdCur + 1 \in Int
    BY <1>2
  <2>2. Good => cdCur \in DirStart..(flen - 2)
    BY <1>1, <1>5 DEF GotoNextEntry, ReaderInv, CursorInv
  <2>3. Good => cdCur + 1 >= DirStart
    BY <1>2, <1>9, <2>2
  <2> QED
    BY <1>1, <1>5, <2>1, <2>3, GotoReader DEF GotoNextEntry
<1>6. ASSUME NEW p \in Pos, GotoEntry(p) PROVE ReaderInv'
  <2>1. p \in Int
    BY DEF Pos
  <2>2. CASE p < cdStart \/ p > cdStart + cdSize
    BY <1>3, <1>6, <2>2 DEF GotoEntry, fileVars, dirVars, entryVars, ghostVars
  <2>3. CASE ~(p < cdStart \/ p > cdStart + cdSize)
    <3>1. p >= cdStart
      BY <1>2, <2>1, <2>3
    <3> QED
      BY <1>1, <1>6, <1>8, <2>1, <2>3, <3>1, GotoReader DEF GotoEntry
  <2> QED
    BY <2>2, <2>3
<1>7. ASSUME NEW n \in Names, LocateEntry(n) PROVE ReaderInv'
  <2>1. CASE \E p \in Int : p >= cdStart /\ Goto(p)
    BY <1>1, <1>8, <2>1, GotoReader
  <2>2. CASE UNCHANGED <<fileVars, mode, pos, dirVars, cdCur, entryVars, ghostVars>>
    BY <1>3, <2>2 DEF fileVars, dirVars, entryVars, ghostVars
  <2>3. \A p \in Walk \cup WalkEnd : p \in Int /\ p >= cdStart
    BY <1>2, CapacityType DEF Walk, WalkEnd
  <2> QED
    BY <1>7, <2>1, <2>2, <2>3 DEF LocateEntry
<1> QED
  BY <1>4, <1>5, <1>6, <1>7 DEF LookNext

\* A finished archive's local headers are where its directory says.
LEMMA EntryOpens ==
  ASSUME TypeInv, DirectoryInv, PlacedInv, CursorInv, Good, EntryReadOpen
  PROVE  /\ opened' = TRUE /\ crc' = <<>> /\ ret' = "OK" /\ pos' = LocalAt + 1
         /\ shift' = shift
<1>1. mode = "read" /\ scanned
  BY DEF EntryReadOpen
<1>2. LocalAt \in 0..(flen - 1) /\ file[LocalAt].t = "local"
  BY <1>1, EntryUnderCursor DEF Leads
<1>3. At(file, flen, LocalAt).t = "local"
  BY <1>2 DEF At
<1> QED
  BY <1>3 DEF EntryReadOpen

LEMMA EntryOpenReader ==
  ASSUME TypeInv, DirectoryInv, ReaderInv, EntryReadOpen PROVE ReaderInv'
<1> SUFFICES ASSUME mode' = "read", Good' PROVE PlacedInv' /\ CursorInv' /\ OpenedInv'
  BY Zenon DEF ReaderInv
<1>1. /\ mode = "read" /\ scanned
      /\ UNCHANGED <<file, flen, cdStart, cdCur, info, scanned, entries, health, stub>>
  BY DEF EntryReadOpen, fileVars, ghostVars
<1>2. Good /\ PlacedInv /\ CursorInv
  BY <1>1 DEF Good, ReaderInv
<1>3. crc' = <<>> /\ pos' = LocalAt + 1 /\ shift' = shift
  BY <1>2, EntryOpens
<1>4. PlacedInv' /\ CursorInv'
  BY <1>1, <1>2, <1>3 DEF PlacedInv, CursorInv, DirStart
<1>5. LocalAt' = LocalAt /\ Len(crc') = 0
  BY <1>1, <1>3 DEF LocalAt
<1>6. LocalAt \in Nat /\ info.csize \in Nat
  BY <1>1, <1>2, CurrentEntry DEF TypeInv, EntryType, Info
<1>7. LocalAt + 1 = LocalAt + 1 + 0 /\ 0 <= info.csize
  BY <1>6
<1>8. pos' = LocalAt' + 1 + Len(crc') /\ Len(crc') <= info'.csize
  BY <1>1, <1>3, <1>5, <1>7, Zenon
<1>9. \A i \in 1..Len(crc') : crc'[i] = info'.crc[i]
  BY <1>5
<1> QED
  BY <1>1, <1>4, <1>8, <1>9 DEF OpenedInv

LEMMA EntryReadReader ==
  ASSUME TypeInv, DirectoryInv, ReaderInv, EntryRead PROVE ReaderInv'
<1> SUFFICES ASSUME mode' = "read", Good' PROVE PlacedInv' /\ CursorInv' /\ OpenedInv'
  BY Zenon DEF ReaderInv
<1> DEFINE n == Len(crc)
           c == Payload(file[pos])
<1>1. /\ mode = "read" /\ opened /\ n < info.csize
      /\ crc' = Append(crc, c) /\ pos' = pos + 1
      /\ UNCHANGED <<file, flen, cdStart, shift, cdCur, info, scanned, opened, entries,
                     health, stub>>
  BY DEF EntryRead, fileVars, dirVars, ghostVars
<1>2. Good /\ PlacedInv /\ CursorInv /\ OpenedInv
  BY <1>1 DEF Good, ReaderInv
<1>3. PlacedInv' /\ CursorInv' /\ LocalAt' = LocalAt
  BY <1>1, <1>2 DEF PlacedInv, CursorInv, DirStart, LocalAt
<1>4. /\ scanned /\ pos = LocalAt + 1 + n /\ \A i \in 1..n : crc[i] = info.crc[i]
  BY <1>1, <1>2 DEF OpenedInv
<1>5. /\ n \in Nat /\ info.csize \in Nat /\ crc \in Content
  BY DEF TypeInv, EntryType, Info, Content
<1> DEFINE e == entries[cdCur - cdStart + 1]
<1>6. e \in Entry /\ Leads(info, e) /\ LocalAt = info.off + stub /\ LocalAt \in Nat
  BY <1>1, <1>2, <1>4, CurrentEntry
<1> HIDE DEF e, c
<1>7. /\ info.crc = e.data /\ info.csize = Len(e.data)
      /\ \A j \in 1..Len(e.data) : file[LocalAt + j] = DataCell(e.data[j])
  BY <1>6 DEF Leads
<1>8. Len(crc') = n + 1 /\ crc'[n + 1] = c /\ \A i \in 1..n : crc'[i] = crc[i]
  BY <1>1, <1>5 DEF Content
<1> HIDE DEF n
<1>9. n + 1 \in 1..info.csize /\ LocalAt + (n + 1) = pos
  BY <1>1, <1>4, <1>5, <1>6
<1>10. c = info.crc[n + 1]
  <2>1. file[pos] = DataCell(info.crc[n + 1])
    BY <1>7, <1>9
  <2> QED
    BY <2>1 DEF c, Payload, DataCell
<1>11. \A i \in 1..Len(crc') : crc'[i] = info'.crc[i]
  <2>1. \A i \in 1..(n + 1) : i \in 1..n \/ i = n + 1
    BY <1>5 DEF n
  <2> QED
    BY <1>1, <1>4, <1>8, <1>10, <2>1
<1>12. pos + 1 = LocalAt + 1 + (n + 1) /\ n + 1 <= info.csize
  BY <1>5, <1>6, <1>9
<1>13. pos' = LocalAt' + 1 + Len(crc') /\ Len(crc') <= info'.csize
  BY <1>1, <1>3, <1>8, <1>12, Zenon
<1> QED
  BY <1>1, <1>3, <1>4, <1>11, <1>13 DEF OpenedInv

LEMMA ReadReader ==
  ASSUME TypeInv, DirectoryInv, ReaderInv, ReadNext PROVE ReaderInv'
<1>1. CASE ZipCloseRead
  BY <1>1, NotReading DEF ZipCloseRead, FreshHandle
<1>2. ASSUME NEW w \in BOOLEAN, EntryReadClose(w) PROVE ReaderInv'
  <2>1. /\ opened' = FALSE
        /\ UNCHANGED <<file, flen, mode, cdStart, shift, cdCur, info, scanned, entries,
                       health, stub>>
    BY <1>2 DEF EntryReadClose, fileVars, dirVars, ghostVars
  <2> QED
    BY <2>1 DEF ReaderInv, PlacedInv, CursorInv, OpenedInv, Good, DirStart
<1> QED
  BY <1>1, <1>2, OpenReadReader, EntryOpenReader, EntryReadReader DEF ReadNext

LEMMA NextReader ==
  ASSUME CallerHabits = {}, TypeInv, DirectoryInv, ReaderInv, [Next]_vars PROVE ReaderInv'
<1>1. CASE EnvNext
  <2>1. mode' # "read"
    BY <1>1 DEF EnvNext, Crash, CrashInClose, Prepend, FreshHandle
  <2> QED
    BY <2>1, NotReading
<1>2. CASE UNCHANGED vars
  <2>1. UNCHANGED <<file, flen, mode, pos, cdStart, shift, cdCur, info, scanned, opened,
                    crc, entries, health, stub>>
    BY <1>2 DEF vars, fileVars, dirVars, entryVars, ghostVars
  <2> QED
    BY <2>1 DEF ReaderInv, PlacedInv, CursorInv, OpenedInv, Good, DirStart, LocalAt
<1> QED
  BY <1>1, <1>2, WriteReader, LookReader, ReadReader DEF Next

\* What reading and closing an entry of a finished archive reports.
LEMMA EntryCloses ==
  ASSUME TypeInv, DirectoryInv, ReaderInv, Good,
         NEW w \in BOOLEAN, EntryReadClose(w), Len(crc) = info.csize
  PROVE  ret' = "OK" /\ crc = entries[cdCur - cdStart + 1].data
<1> DEFINE e == entries[cdCur - cdStart + 1]
<1>1. mode = "read" /\ opened
  BY DEF EntryReadClose
<1>2. scanned /\ \A i \in 1..Len(crc) : crc[i] = info.crc[i]
  BY <1>1 DEF ReaderInv, OpenedInv
<1>3. e \in Entry /\ Leads(info, e) /\ LocalAt = info.off + stub
  BY <1>1, <1>2, CurrentEntry
<1> HIDE DEF e
<1>4. /\ info.crc = e.data /\ info.csize = Len(e.data)
      /\ info.dd => LocalAt + 1 + Len(crc) \in 0..(flen - 1)
                    /\ file[LocalAt + 1 + Len(crc)].t = "descriptor"
  BY <1>3 DEF Leads
<1>5. crc \in Content /\ e.data \in Content
  BY <1>3, EntryFields DEF TypeInv, EntryType
<1>6. crc = e.data
  <2>1. Len(crc) = Len(e.data) /\ \A i \in 1..Len(crc) : crc[i] = e.data[i]
    BY <1>2, <1>4
  <2> QED
    BY <1>5, <2>1, SeqEqual DEF Content
<1>7. info.dd => At(file, flen, DescriptorAt).t = "descriptor"
  BY <1>4 DEF At, DescriptorAt
<1>8. ret' = "OK"
  BY <1>4, <1>6, <1>7 DEF EntryReadClose
<1> QED
  BY <1>6, <1>8 DEF e

\* What a move to the first header, or to the one behind the current, reports.
LEMMA WalkEnds ==
  ASSUME TypeInv, DirectoryInv, ReaderInv, mode = "read", Good,
         stub = 0 \/ entries # <<>>, GotoFirstEntry \/ GotoNextEntry, ret' # "OK"
  PROVE  ret' = "END_OF_LIST" /\ cdCur' - cdStart = Len(entries)
<1> DEFINE n == Len(entries)
           D == DirStart
<1>1. /\ FinishedInv /\ ~cdInMem /\ cdStart = D
  BY ReadFinished DEF ReaderInv, PlacedInv
<1>2. /\ n \in Nat /\ D \in Nat /\ flen = D + n + 1 /\ file[flen - 1].t = "end"
  BY <1>1, FinishedFacts
<1> HIDE DEF n, D
<1>3. PICK p \in D..(flen - 1) : Goto(p)
  <2>1. CASE GotoFirstEntry
    BY <1>1, <1>2, <2>1 DEF GotoFirstEntry
  <2>2. CASE GotoNextEntry
    <3>1. Goto(cdCur + 1) /\ scanned
      BY <2>2 DEF GotoNextEntry
    <3>2. cdCur \in D..(flen - 2)
      BY <3>1 DEF ReaderInv, CursorInv, D
    <3>3. cdCur + 1 \in D..(flen - 1)
      BY <1>2, <3>2
    <3> QED
      BY <3>1, <3>3
  <2> QED
    BY <2>1, <2>2
<1>4. CdCell(p) = At(file, flen, p)
  BY <1>1 DEF CdCell, CdCellAt
<1>5. CdCell(p).t # "central"
  BY <1>3 DEF Goto
<1>6. p = flen - 1
  <2>1. p \notin D..(flen - 2)
    BY <1>1, <1>3, <1>4, <1>5, HeadersAreHere DEF D
  <2> QED
    BY <1>2, <1>3, <2>1
<1>7. CdCell(p).t = "end"
  <2>1. p \in 0..(flen - 1)
    BY <1>2, <1>3
  <2> QED
    BY <1>2, <1>4, <1>6, <2>1 DEF At
<1>8. ret' = "END_OF_LIST" /\ cdCur' = p
  BY <1>3, <1>7 DEF Goto
<1>9. p - cdStart = n
  BY <1>1, <1>2, <1>6
<1> QED
  BY <1>8, <1>9 DEF n

\* Where a walk through a finished archive comes.
LEMMA WalkIsDirectory ==
  ASSUME TypeInv, DirectoryInv, ReaderInv, mode = "read", Good
  PROVE  /\ Walk = DirStart..(flen - 2)
         /\ \A p \in Int : CdCell(p) = At(file, flen, p)
         /\ \A p \in WalkEnd : p \in Int /\ CdCell(p).t # "central"
<1> DEFINE n == Len(entries)
           D == DirStart
<1>1. FinishedInv /\ ~cdInMem
  BY ReadFinished
<1>2. /\ n \in Nat /\ D \in Nat /\ flen = D + n + 1 /\ flen \in 0..Capacity
      /\ Capacity \in Nat /\ cdStart \in Nat
  BY <1>1, FinishedFacts, CapacityType DEF TypeInv, DirType
<1>3. \A p \in Int : CdCell(p) = At(file, flen, p)
  BY <1>1 DEF CdCell, CdCellAt
<1>9. stub > 0 \/ cdStart = D
  <2>1. stub \in Nat
    BY <1>1, FinishedFacts
  <2> QED
    BY <2>1 DEF ReaderInv, PlacedInv
<1>4. \A p \in Int : p >= cdStart => (CdCell(p).t = "central" <=> p \in D..(flen - 2))
  BY <1>1, <1>3, <1>9, HeadersAreHere
<1>5. n > 0 => cdStart = D
  <2>1. n > 0 => entries # <<>>
    OBVIOUS
  <2> QED
    BY <2>1 DEF ReaderInv, PlacedInv
<1> HIDE DEF n, D
<1>6. Walk = {p \in cdStart..(cdStart + Capacity) :
                \A q \in cdStart..p : q \in D..(flen - 2)}
  BY <1>2, <1>4 DEF Walk
<1>7. Walk = D..(flen - 2)
  <2>1. ASSUME NEW p \in Walk PROVE p \in D..(flen - 2)
    <3>1. p \in cdStart..(cdStart + Capacity) /\ p \in cdStart..p
      BY <1>2, <1>6
    <3> QED
      BY <1>6, <3>1
  <2>2. ASSUME NEW p \in D..(flen - 2) PROVE p \in Walk
    <3>1. n > 0
      BY <1>2
    <3>2. cdStart = D
      BY <1>5, <3>1
    <3>3. p \in cdStart..(cdStart + Capacity)
      BY <1>2, <3>2
    <3>4. \A q \in cdStart..p : q \in D..(flen - 2)
      BY <1>2, <3>2
    <3> QED
      BY <1>6, <3>3, <3>4
  <2> QED
    BY <2>1, <2>2
<1>8. ASSUME NEW p \in WalkEnd PROVE p \in Int /\ CdCell(p).t # "central"
  <2>1. /\ p \in cdStart..(cdStart + Capacity + 1) /\ p \in Int
        /\ p \notin Walk /\ \A q \in cdStart..(p - 1) : q \in Walk
    BY <1>2 DEF WalkEnd
  <2>2. p \notin D..(flen - 2)
    BY <1>7, <2>1
  <2> QED
    BY <1>4, <2>1, <2>2
<1> QED
  BY <1>3, <1>7, <1>8 DEF D

\* Locating a name in a finished archive.
LEMMA LocateFinds ==
  ASSUME TypeInv, DirectoryInv, ReaderInv, mode = "read", Good,
         NEW name \in Names, LocateEntry(name)
  PROVE  /\ ret' = "OK" <=> \E i \in 1..Len(entries) : entries[i].name = name
         /\ ret' = "OK" => info'.name = name
<1> DEFINE matches == {p \in Walk : CdCell(p).name = name}
           n == Len(entries)
           D == DirStart
<1>1. FinishedInv
  BY ReadFinished
<1>2. /\ n \in Nat /\ D \in Nat /\ flen = D + n + 1
  BY <1>1, FinishedFacts
<1>3. /\ Walk = D..(flen - 2) /\ \A p \in Int : CdCell(p) = At(file, flen, p)
      /\ \A p \in WalkEnd : p \in Int /\ CdCell(p).t # "central"
  BY WalkIsDirectory
<1> HIDE DEF n, D
<1>4. ASSUME NEW p \in Walk
      PROVE  /\ CdCell(p).t = "central" /\ p - D + 1 \in 1..n
             /\ CdCell(p).name = entries[p - D + 1].name
  <2>1. p \in D..(flen - 2) /\ p \in 0..(flen - 1) /\ p \in Int
    BY <1>2, <1>3
  <2>2. CdCell(p) = file[p]
    BY <1>3, <2>1 DEF At
  <2>3. /\ p - D + 1 \in 1..n /\ file[p].t = "central"
        /\ Leads(InfoOf(file[p]), entries[p - D + 1])
    BY <1>1, <2>1, HeaderLeads DEF n, D
  <2>4. file[p].name = entries[p - D + 1].name
    BY <2>3 DEF Leads, InfoOf
  <2> QED
    BY <2>2, <2>3, <2>4
<1>5. (\E i \in 1..n : entries[i].name = name) <=> matches # {}
  <2>1. ASSUME NEW i \in 1..n, entries[i].name = name PROVE matches # {}
    <3>1. D + i - 1 \in Walk /\ (D + i - 1) - D + 1 = i
      BY <1>2, <1>3
    <3>2. CdCell(D + i - 1).name = name
      BY <1>4, <2>1, <3>1
    <3> QED
      BY <3>1, <3>2
  <2>2. ASSUME NEW p \in matches PROVE \E i \in 1..n : entries[i].name = name
    BY <1>4
  <2> QED
    BY <2>1, <2>2
<1>6. CASE scanned /\ info.name = name
  <2>1. ret' = "OK" /\ info' = info
    BY <1>6 DEF LocateEntry, entryVars
  <2>2. \E i \in 1..n : entries[i].name = name
    <3>1. /\ cdCur - cdStart + 1 \in 1..n
          /\ info.name = entries[cdCur - cdStart + 1].name
      BY <1>6, CurrentEntry DEF Leads, n
    <3> QED
      BY <1>6, <3>1
  <2> QED
    BY <1>6, <2>1, <2>2 DEF n
<1>7. ASSUME NEW p \in matches, Goto(p) PROVE ret' = "OK" /\ info'.name = name
  <2>1. CdCell(p).t = "central" /\ CdCell(p).name = name
    BY <1>4
  <2>2. ret' = "OK" /\ info' = InfoOf(CdCell(p))
    BY <1>7, <2>1 DEF Goto
  <2> QED
    BY <2>1, <2>2 DEF InfoOf
<1>8. ASSUME NEW p \in WalkEnd, Goto(p) PROVE ret' # "OK"
  <2>1. CdCell(p).t # "central"
    BY <1>3
  <2> QED
    BY <1>8, <2>1 DEF Goto
<1> HIDE DEF matches
<1>9. CASE ~(scanned /\ info.name = name)
  <2>1. \/ \E p \in matches : Goto(p)
        \/ matches = {} /\ \E p \in WalkEnd : Goto(p)
    BY <1>9 DEF LocateEntry, matches
  <2>2. CASE \E p \in matches : Goto(p)
    BY <1>5, <1>7, <2>2 DEF n
  <2>3. CASE matches = {} /\ \E p \in WalkEnd : Goto(p)
    BY <1>5, <1>8, <2>3 DEF n
  <2> QED
    BY <2>1, <2>2, <2>3
<1> QED
  BY <1>6, <1>9

\* The invariants a reading session needs hold throughout.
LEMMA ReadingInvariant ==
  ASSUME CallerHabits = {} PROVE Spec => [](TypeInv /\ DirectoryInv /\ ReaderInv)
<1>1. Init => TypeInv /\ DirectoryInv /\ ClearInv /\ ReaderInv
  BY InitType, InitDirectory DEF Init, ReaderInv
<1>2. TypeInv /\ DirectoryInv /\ ClearInv /\ ReaderInv /\ [Next]_vars
        => TypeInv' /\ DirectoryInv' /\ ClearInv' /\ ReaderInv'
  BY NextType, NextDirectory, NextClear, NextReader
<1> QED
  BY <1>1, <1>2, PTL DEF Spec

\* However a reading session of a finished archive came there, walking, jumping to
\* a remembered position or locating a name, the current entry is the one its
\* position counts to, also behind something put in front of the archive.
THEOREM CursorAlwaysOnEntry ==
  ASSUME CallerHabits = {} PROVE Spec => []CursorOnEntry
<1>1. TypeInv /\ DirectoryInv /\ ReaderInv => CursorOnEntry
  BY CurrentEntry DEF CursorOnEntry, Leads
<1> QED
  BY <1>1, ReadingInvariant, PTL

\* A walk through a finished archive ends behind its last entry and nowhere else,
\* and an entry is located exactly when the archive has one of that name.
THEOREM WalksAndLocates ==
  ASSUME CallerHabits = {} PROVE Spec => WalkAndLocate
<1>1. TypeInv /\ DirectoryInv /\ ReaderInv /\ [Next]_vars =>
        [ mode = "read" /\ Good =>
            /\ (stub = 0 \/ entries # <<>>) /\ (GotoFirstEntry \/ GotoNextEntry)
                 /\ ret' # "OK" =>
                   ret' = "END_OF_LIST" /\ cdCur' - cdStart = Len(entries)
            /\ \A n \in Names : LocateEntry(n) =>
                 /\ (ret' = "OK") <=> (\E i \in 1..Len(entries) : entries[i].name = n)
                 /\ ret' = "OK" => info'.name = n ]_vars
  BY WalkEnds, LocateFinds
<1> QED
  BY <1>1, ReadingInvariant, PTL DEF WalkAndLocate, Spec

\* Every entry of a finished archive opens, reading it to its end yields what was
\* written, and closing it then reports no error.
THEOREM ReadsYieldWritten ==
  ASSUME CallerHabits = {} PROVE Spec => ReadYieldsWritten
<1>1. TypeInv /\ DirectoryInv /\ ReaderInv /\ [Next]_vars =>
        [ Good =>
            /\ EntryReadOpen => ret' = "OK"
            /\ \A w \in BOOLEAN : EntryReadClose(w) /\ Len(crc) = info.csize =>
                 ret' = "OK" /\ crc = entries[cdCur - cdStart + 1].data ]_vars
  <2>1. ReaderInv /\ Good /\ EntryReadOpen => PlacedInv /\ CursorInv
    BY DEF ReaderInv, EntryReadOpen
  <2> QED
    BY <2>1, EntryOpens, EntryCloses
<1> QED
  BY <1>1, ReadingInvariant, PTL DEF ReadYieldsWritten, Spec

-----------------------------------------------------------------------------
(* The list of contents *)

\* Before the first archive is made there is none, and without crashes every one is good.
FirstInv == Good \/ (mode = "none" /\ flen = 0 /\ entries = <<>> /\ stub = 0)
ArchiveInv == TypeInv /\ DirectoryInv /\ ReaderInv /\ CountInv /\ FirstInv

\* The mapping, in terms of the history: what the cells of the archive stand for.
BeingAdded == IF Writing /\ opened THEN <<[name |-> info.name, data |-> crc]>> ELSE <<>>
Viewed == ViewContents = entries /\ ViewAdding = BeingAdded

LEMMA PayloadOfData == ASSUME NEW x PROVE Payload(DataCell(x)) = x
BY DEF Payload, DataCell

LEMMA ResolveEntry ==
  ASSUME NEW c, NEW sh \in Int, NEW e \in Entry, NEW b \in Int, b <= flen, flen \in 0..Capacity,
         DescribedBelow(file, c, sh, e, b)
  PROVE  Resolve(c, sh) = e
<1> DEFINE n == Len(e.data)
           p == c.off + sh
<1>1. /\ c.name = e.name /\ c.csize = n /\ c \in Cell /\ c.t = "central"
      /\ At(file, Capacity, p).t = "local"
      /\ \A i \in 1..n : At(file, Capacity, p + i) = DataCell(e.data[i])
      /\ p + n + (IF c.dd THEN 1 ELSE 0) < b
  BY DEF DescribedBelow, Describes
<1>2. c.off \in Nat /\ c.dd \in BOOLEAN /\ n \in Nat /\ e.data \in Content
  BY <1>1, CentralFields, EntryFields
<1>3. p \in Nat
  BY <1>1, <1>2, NotAHole DEF Pos
<1> HIDE DEF n, p
<1>4. ASSUME NEW i \in 1..n PROVE Payload(At(file, flen, p + i)) = e.data[i]
  <2>1. i \in Nat /\ p + i < b /\ p + i \in Nat
    BY <1>1, <1>2, <1>3
  <2>2. p + i \in 0..(flen - 1) /\ p + i \in 0..(Capacity - 1)
    BY <2>1, CapacityType
  <2>3. At(file, flen, p + i) = At(file, Capacity, p + i)
    BY <2>2 DEF At
  <2> QED
    BY <1>1, <2>3, PayloadOfData
<1> DEFINE d == [i \in 1..c.csize |-> Payload(At(file, flen, c.off + sh + i))]
<1>5. d = e.data
  <2>1. d = [i \in 1..n |-> Payload(At(file, flen, p + i))]
    BY <1>1 DEF p
  <2>2. e.data = [i \in 1..n |-> e.data[i]]
    BY <1>2 DEF Content, n
  <2>3. [i \in 1..n |-> Payload(At(file, flen, p + i))] = [i \in 1..n |-> e.data[i]]
    BY <1>4
  <2> QED
    BY <2>1, <2>2, <2>3
<1>6. Resolve(c, sh) = [name |-> c.name, data |-> d]
  BY DEF Resolve
<1> HIDE DEF d
<1>7. e = [name |-> e.name, data |-> e.data]
  BY DEF Entry
<1> QED
  BY <1>1, <1>5, <1>6, <1>7

LEMMA ClosingType ==
  ASSUME TypeInv, Writing, WritingInv
  PROVE  Closing \in Int /\ Closing <= pos /\ pos <= flen /\ info.off \in Nat
<1>1. info.off \in Nat /\ pos \in Nat /\ crc \in Content /\ pos <= flen /\ opened \in BOOLEAN
  BY DEF TypeInv, EntryType, FileType, FlagType, Info, WritingInv, Sound
<1>2. opened => pos = info.off + 1 + Len(crc) /\ Len(crc) \in Nat
  BY <1>1 DEF WritingInv, OpenEntryInv, Content
<1> QED
  BY <1>1, <1>2 DEF Closing

\* The cases of the view.
LEMMA ViewCases ==
  /\ Writing => ViewContents = [i \in 1..Len(cdMem) |-> Resolve(cdMem[i], 0)]
  /\ ~Writing /\ ~ReadCd(file, flen).ok => ViewContents = <<>>
  /\ ~Writing /\ ReadCd(file, flen).ok =>
       ViewContents = [i \in 1..ReadCd(file, flen).number |->
                         Resolve(file[ReadCd(file, flen).off + i - 1], ReadCd(file, flen).shift)]
BY DEF ViewContents

LEMMA ViewedAlways == ArchiveInv => Viewed
<1> SUFFICES ASSUME ArchiveInv PROVE Viewed
  OBVIOUS
<1> DEFINE n == Len(entries)
           d == ReadCd(file, flen)
<1>1. /\ TypeInv /\ flen \in 0..Capacity /\ pos \in Nat /\ n \in Nat /\ entries \in Seq(Entry)
      /\ entries = [i \in 1..n |-> entries[i]] /\ opened \in BOOLEAN
      /\ \A i \in 1..n : entries[i] \in Entry
  BY DEF ArchiveInv, TypeInv, FileType, GhostType, FlagType
<1>2. CASE Writing
  <2>1. /\ WritingInv /\ pos <= flen /\ Len(cdMem) = n
        /\ opened => OpenEntryInv
        /\ \A i \in 1..n : DescribedBelow(file, cdMem[i], 0, entries[i], Closing)
    <3>1. Good
      BY <1>2 DEF ArchiveInv, FirstInv, Writing
    <3>2. WritingInv
      BY <1>2, <3>1 DEF ArchiveInv, DirectoryInv
    <3> QED
      BY <3>2 DEF WritingInv, Sound
  <2>2. Closing \in Int /\ Closing <= flen /\ info.off \in Nat
    <3>1. Closing \in Int /\ Closing <= pos /\ info.off \in Nat
      BY <1>1, <1>2, <2>1, ClosingType, Zenon
    <3> QED
      BY <1>1, <2>1, <3>1
  <2>3. ViewContents = entries
    <3>1. \A i \in 1..n : Resolve(cdMem[i], 0) = entries[i]
      BY <1>1, <2>1, <2>2, ResolveEntry
    <3>2. ViewContents = [i \in 1..n |-> Resolve(cdMem[i], 0)]
      BY <1>2, <2>1, ViewCases, Zenon
    <3> HIDE DEF n
    <3>3. [i \in 1..n |-> Resolve(cdMem[i], 0)] = [i \in 1..n |-> entries[i]]
      BY <3>1
    <3> QED
      BY <1>1, <3>2, <3>3
  <2>4. ViewAdding = BeingAdded
    <3>1. CASE ~opened
      BY <1>2, <3>1, Zenon DEF ViewAdding, BeingAdded
    <3>2. CASE opened
      <4> DEFINE m == pos - info.off - 1
      <4>1. pos = info.off + 1 + Len(crc) /\ \A i \in 1..Len(crc) : file[info.off + i] = DataCell(crc[i])
        BY <2>1, <3>2, Zenon DEF OpenEntryInv
      <4>2. crc \in Content /\ Len(crc) \in Nat /\ crc = [i \in 1..Len(crc) |-> crc[i]]
        BY <1>1 DEF TypeInv, EntryType, Content
      <4>3. m = Len(crc)
        BY <2>2, <4>1, <4>2
      <4> HIDE DEF m
      <4>4. [i \in 1..m |-> Payload(file[info.off + i])] = [i \in 1..Len(crc) |-> crc[i]]
        BY <4>1, <4>3, PayloadOfData
      <4> QED
        BY <1>2, <3>2, <4>2, <4>4 DEF ViewAdding, BeingAdded, m
    <3> QED
      BY <1>1, <3>1, <3>2
  <2> QED
    BY <2>3, <2>4 DEF Viewed
<1>3. CASE ~Writing
  <2>1. ViewAdding = BeingAdded
    BY <1>3 DEF ViewAdding, BeingAdded
  <2>2. CASE ~Good
    <3>1. flen = 0 /\ entries = <<>>
      BY <2>2 DEF ArchiveInv, FirstInv
    <3>2. LastEnds(file, flen) = {}
      BY <3>1 DEF LastEnds, Ends
    <3>3. ~d.ok
      BY <3>2 DEF ReadCd, NoDirectory
    <3> QED
      BY <1>3, <2>1, <3>1, <3>3, ViewCases DEF Viewed
  <2>3. CASE Good
    <3>1. FinishedInv /\ file[flen - 1].number = n
      BY <1>3, <2>3 DEF ArchiveInv, DirectoryInv, CountInv
    <3>2. /\ d.ok /\ d.number = n
          /\ n > 0 => d.off = DirStart /\ d.shift = stub
          /\ DirStart \in Nat /\ stub \in Nat /\ flen = DirStart + n + 1
          /\ \A i \in 1..n :
               DescribedBelow(file, file[DirStart + i - 1], stub, entries[i], DirStart)
      BY <1>1, <3>1, FinishedRead, FinishedFacts
    <3> HIDE DEF n, d
    <3>3. ASSUME NEW i \in 1..n PROVE Resolve(file[d.off + i - 1], d.shift) = entries[i]
      <4>1. d.off = DirStart /\ d.shift = stub /\ DirStart <= flen
        BY <1>1, <3>2
      <4> QED
        BY <1>1, <3>2, <4>1, ResolveEntry
    <3>4. ViewContents = entries
      <4>1. ViewContents = [i \in 1..n |-> Resolve(file[d.off + i - 1], d.shift)]
        BY <1>3, <3>2, ViewCases, Zenon DEF d
      <4>2. [i \in 1..n |-> Resolve(file[d.off + i - 1], d.shift)] = [i \in 1..n |-> entries[i]]
        BY <3>3
      <4> QED
        BY <1>1, <4>1, <4>2
    <3> QED
      BY <2>1, <3>4 DEF Viewed
  <2> QED
    BY <2>2, <2>3
<1> QED
  BY <1>2, <1>3

\* What the abstract session, cursor and reading are in each mode.
AbstractSession == IF Writing THEN "write" ELSE mode

LEMMA ViewBetween ==
  ASSUME TypeInv, Viewed, mode = "none"
  PROVE  /\ AbstractSession = "none" /\ BeingAdded = <<>> /\ ViewAdding = <<>>
         /\ ViewCursor = 0 /\ ViewReading = <<>> /\ ViewContents = entries
<1>1. ~Writing
  BY DEF Writing
<1>2. BeingAdded = <<>> /\ AbstractSession = "none"
  BY <1>1, Zenon DEF BeingAdded, AbstractSession
<1> QED
  BY <1>2 DEF Viewed, ViewCursor, ViewReading

LEMMA ViewWriting ==
  ASSUME TypeInv, Viewed, Writing
  PROVE  /\ AbstractSession = "write" /\ mode # "read" /\ mode # "none"
         /\ ViewAdding = BeingAdded
         /\ opened => BeingAdded = <<[name |-> info.name, data |-> crc]>>
         /\ ~opened => BeingAdded = <<>>
         /\ ViewCursor = 0 /\ ViewReading = <<>> /\ ViewContents = entries
<1>1. mode # "read" /\ mode # "none"
  BY DEF Writing
<1>2. AbstractSession = "write"
  BY Zenon DEF AbstractSession
<1>3. /\ opened => BeingAdded = <<[name |-> info.name, data |-> crc]>>
      /\ ~opened => BeingAdded = <<>>
  BY Zenon DEF BeingAdded
<1> QED
  BY <1>1, <1>2, <1>3 DEF Viewed, ViewCursor, ViewReading

LEMMA ViewWhenReading ==
  ASSUME TypeInv, Viewed, mode = "read"
  PROVE  /\ AbstractSession = "read" /\ ViewAdding = <<>> /\ ViewContents = entries
         /\ scanned => ViewCursor = cdCur - cdStart + 1
         /\ ~scanned => ViewCursor = 0
         /\ opened => ViewReading = <<crc>>
         /\ ~opened => ViewReading = <<>>
<1>1. ~Writing
  BY DEF Writing
<1>2. BeingAdded = <<>> /\ AbstractSession = "read"
  BY <1>1, Zenon DEF BeingAdded, AbstractSession
<1> QED
  BY <1>2 DEF Viewed, ViewCursor, ViewReading

\* All that the steps need of the view.
Seen ==
  /\ ViewContents = entries
  /\ mode = "none" =>
       /\ AbstractSession = "none" /\ ViewAdding = <<>> /\ ViewCursor = 0 /\ ViewReading = <<>>
  /\ Writing =>
       /\ AbstractSession = "write" /\ ViewAdding = BeingAdded
       /\ opened => BeingAdded = <<[name |-> info.name, data |-> crc]>>
       /\ ~opened => BeingAdded = <<>>
       /\ ViewCursor = 0 /\ ViewReading = <<>>
  /\ mode = "read" =>
       /\ AbstractSession = "read" /\ ViewAdding = <<>>
       /\ scanned => ViewCursor = cdCur - cdStart + 1
       /\ ~scanned => ViewCursor = 0
       /\ opened => ViewReading = <<crc>>
       /\ ~opened => ViewReading = <<>>

LEMMA SeenAlways == ArchiveInv => Seen
<1> SUFFICES ASSUME ArchiveInv PROVE Seen
  OBVIOUS
<1>1. TypeInv /\ Viewed
  BY ViewedAlways DEF ArchiveInv
<1> QED
  BY <1>1, ViewBetween, ViewWriting, ViewWhenReading, Zenon DEF Seen, Viewed

\* What has been closed and what is open, after the entry that may be open is closed.
LEMMA SettledEntries ==
  ASSUME TypeInv, Seen, Writing, CountInv
  PROVE  /\ Settled.ok = TRUE /\ Settled.entries = entries \o BeingAdded
<1>1. opened => ~CentralHeaderFails(info)
  BY DEF CountInv, CentralHeaderFails, Zip64Auto, Zip64Disable
<1>2. entries \in Seq(Entry) /\ opened \in BOOLEAN
  BY DEF TypeInv, GhostType, FlagType
<1>3. CASE opened
  <2> DEFINE e == [name |-> info.name, data |-> crc]
  <2>1. Settled.ok = TRUE /\ Settled.entries = Append(entries, e)
    BY <1>1, <1>3, SettledFields
  <2>2. BeingAdded = <<e>>
    BY <1>3 DEF Seen
  <2> HIDE DEF e
  <2>3. Append(entries, e) = entries \o <<e>>
    BY <1>2
  <2> QED
    BY <2>1, <2>2, <2>3
<1>4. CASE ~opened
  <2>1. Settled.ok = TRUE /\ Settled.entries = entries
    BY <1>4, SettledFields
  <2>2. BeingAdded = <<>>
    BY <1>4 DEF Seen
  <2>3. entries \o <<>> = entries
    BY <1>2
  <2> QED
    BY <2>1, <2>2, <2>3
<1> QED
  BY <1>2, <1>3, <1>4

-----------------------------------------------------------------------------
(* The steps *)

LEMMA CreateStep == ASSUME TypeInv, Seen, Seen', ZipOpenCreate PROVE Abstract!Create
<1>1. /\ mode = "none" /\ mode' = "write" /\ entries' = <<>> /\ opened' = opened /\ ~opened
  BY DEF ZipOpenCreate, entryVars, TypeInv, FreshWhenClosed
<1>2. Writing'
  BY <1>1 DEF Writing
<1>3. /\ ViewContents' = <<>> /\ AbstractSession = "none" /\ AbstractSession' = "write"
      /\ ViewAdding = <<>> /\ ViewAdding' = <<>> /\ ViewCursor = 0 /\ ViewCursor' = 0
      /\ ViewReading = <<>> /\ ViewReading' = <<>>
  BY <1>1, <1>2, Zenon DEF Seen
<1> QED
  BY <1>3 DEF Abstract!Create, AbstractSession

LEMMA AppendStep ==
  ASSUME TypeInv, Seen, Seen', ZipOpenAppend
  PROVE  Abstract!Continue \/ UNCHANGED Abstract!vars
<1> DEFINE d == ReadCd(file, flen)
<1>1. /\ mode = "none" /\ entries' = entries /\ opened' = opened /\ ~opened
      /\ mode' = IF d.ok THEN "append" ELSE "none"
  BY DEF ZipOpenAppend, entryVars, TypeInv, FreshWhenClosed
<1> HIDE DEF d
<1>2. CASE d.ok
  <2>1. mode' = "append" /\ Writing'
    BY <1>1, <1>2 DEF Writing
  <2>2. /\ ViewContents' = ViewContents /\ AbstractSession = "none" /\ AbstractSession' = "write"
        /\ ViewAdding = <<>> /\ ViewAdding' = <<>> /\ ViewCursor = 0 /\ ViewCursor' = 0
        /\ ViewReading = <<>> /\ ViewReading' = <<>>
    BY <1>1, <2>1, Zenon DEF Seen
  <2> QED
    BY <2>2 DEF Abstract!Continue, AbstractSession
<1>3. CASE ~d.ok
  <2>1. mode' = "none"
    BY <1>1, <1>3
  <2>2. /\ ViewContents' = ViewContents /\ AbstractSession' = AbstractSession
        /\ ViewAdding' = ViewAdding /\ ViewCursor' = ViewCursor /\ ViewReading' = ViewReading
    BY <1>1, <2>1, Zenon DEF Seen
  <2> QED
    BY <2>2 DEF Abstract!vars, AbstractSession
<1> QED
  BY <1>2, <1>3

LEMMA OpenReadStep ==
  ASSUME TypeInv, Seen, Seen', ZipOpenRead
  PROVE  Abstract!OpenForReading \/ UNCHANGED Abstract!vars
<1> DEFINE d == ReadCd(file, flen)
<1>1. /\ mode = "none" /\ entries' = entries /\ opened' = opened /\ ~opened
      /\ scanned' = scanned /\ ~scanned
      /\ mode' = IF d.ok THEN "read" ELSE "none"
  BY DEF ZipOpenRead, entryVars, ghostVars, TypeInv, FreshWhenClosed
<1> HIDE DEF d
<1>2. CASE d.ok
  <2>1. mode' = "read" /\ ~opened' /\ ~scanned'
    BY <1>1, <1>2
  <2>2. /\ ViewContents' = ViewContents /\ AbstractSession = "none" /\ AbstractSession' = "read"
        /\ ViewAdding = <<>> /\ ViewAdding' = <<>> /\ ViewCursor = 0 /\ ViewCursor' = 0
        /\ ViewReading = <<>> /\ ViewReading' = <<>>
    BY <1>1, <2>1, Zenon DEF Seen
  <2> QED
    BY <2>2 DEF Abstract!OpenForReading, AbstractSession
<1>3. CASE ~d.ok
  <2>1. mode' = "none"
    BY <1>1, <1>3
  <2>2. /\ ViewContents' = ViewContents /\ AbstractSession' = AbstractSession
        /\ ViewAdding' = ViewAdding /\ ViewCursor' = ViewCursor /\ ViewReading' = ViewReading
    BY <1>1, <2>1, Zenon DEF Seen
  <2> QED
    BY <2>2 DEF Abstract!vars, AbstractSession
<1> QED
  BY <1>2, <1>3

LEMMA WriteOpenStep ==
  ASSUME TypeInv, TypeInv', CountInv, Seen, Seen', NEW name \in Names, NEW u \in Declared,
         NEW z \in Zip64Modes, NEW dd \in Descriptors, EntryWriteOpen(name, u, z, dd)
  PROVE  Abstract!BeginEntry(name)
<1>1. Writing /\ mode' = mode /\ crc' = <<>>
  BY DEF EntryWriteOpen
<1>2. Settled.ok = TRUE /\ Settled.entries = entries \o BeingAdded
  BY <1>1, SettledEntries
<1>3. entries' = Settled.entries /\ opened' = TRUE /\ info'.name = name
  BY <1>2 DEF EntryWriteOpen
<1>4. Writing'
  BY <1>1 DEF Writing
<1>5. /\ ViewContents' = entries \o BeingAdded /\ ViewContents = entries
      /\ ViewAdding = BeingAdded /\ ViewAdding' = <<[name |-> info'.name, data |-> crc']>>
      /\ AbstractSession = "write" /\ AbstractSession' = "write"
      /\ ViewCursor = 0 /\ ViewCursor' = 0 /\ ViewReading = <<>> /\ ViewReading' = <<>>
  BY <1>1, <1>2, <1>3, <1>4, Zenon DEF Seen
<1> QED
  BY <1>1, <1>3, <1>5 DEF Abstract!BeginEntry, Abstract!Closed, AbstractSession

LEMMA WriteStep ==
  ASSUME TypeInv, Seen, Seen', NEW c \in Chunks, EntryWrite(c)
  PROVE  Abstract!Put(c)
<1>1. /\ Writing /\ mode' = mode /\ opened /\ opened' = opened /\ info' = info
      /\ crc' = Append(crc, c) /\ entries' = entries
  BY DEF EntryWrite, ghostVars
<1>2. Writing'
  BY <1>1 DEF Writing
<1> DEFINE e == [name |-> info.name, data |-> crc]
<1>3. /\ ViewContents' = ViewContents /\ ViewAdding = <<e>>
      /\ ViewAdding' = <<[name |-> info'.name, data |-> crc']>>
      /\ AbstractSession = "write" /\ AbstractSession' = "write"
      /\ ViewCursor = 0 /\ ViewCursor' = 0 /\ ViewReading = <<>> /\ ViewReading' = <<>>
  BY <1>1, <1>2, Zenon DEF Seen
<1>4. ViewAdding' = [ViewAdding EXCEPT ![1].data = Append(@, c)]
  <2>1. [<<e>> EXCEPT ![1].data = Append(@, c)] = <<[name |-> info.name, data |-> Append(crc, c)]>>
    <3>1. [e EXCEPT !.data = Append(@, c)] = [name |-> info.name, data |-> Append(crc, c)]
      OBVIOUS
    <3> HIDE DEF e
    <3>2. [<<e>> EXCEPT ![1].data = Append(@, c)] = [<<e>> EXCEPT ![1] = [e EXCEPT !.data = Append(@, c)]]
      OBVIOUS
    <3>3. \A x : [<<e>> EXCEPT ![1] = x] = <<x>>
      OBVIOUS
    <3> QED
      BY <3>1, <3>2, <3>3
  <2> QED
    BY <1>1, <1>3, <2>1
<1>5. ViewAdding # <<>>
  BY <1>3
<1> QED
  BY <1>3, <1>4, <1>5 DEF Abstract!Put, AbstractSession

LEMMA WriteCloseStep ==
  ASSUME TypeInv, CountInv, Seen, Seen', EntryWriteClose
  PROVE  Abstract!EndEntry
<1>1. /\ Writing /\ mode' = mode /\ opened /\ opened' = FALSE /\ entries' = Settled.entries
  BY DEF EntryWriteClose
<1>2. Settled.entries = entries \o BeingAdded
  BY <1>1, SettledEntries
<1>3. Writing' /\ ~opened'
  BY <1>1 DEF Writing
<1>4. /\ ViewContents' = entries \o BeingAdded /\ ViewContents = entries
      /\ ViewAdding = BeingAdded /\ ViewAdding' = <<>>
      /\ BeingAdded = <<[name |-> info.name, data |-> crc]>>
      /\ AbstractSession = "write" /\ AbstractSession' = "write"
      /\ ViewCursor = 0 /\ ViewCursor' = 0 /\ ViewReading = <<>> /\ ViewReading' = <<>>
  BY <1>1, <1>2, <1>3, Zenon DEF Seen
<1>5. ViewAdding # <<>>
  BY <1>4
<1> QED
  BY <1>4, <1>5 DEF Abstract!EndEntry, Abstract!Closed, AbstractSession

LEMMA CloseWriteStep ==
  ASSUME TypeInv, CountInv, Seen, Seen', ZipCloseWrite
  PROVE  Abstract!Finish
<1>1. Writing /\ mode' = "none" /\ entries' = Settled.entries
  BY DEF ZipCloseWrite, FreshHandle
<1>2. Settled.entries = entries \o BeingAdded
  BY <1>1, SettledEntries
<1>3. /\ ViewContents' = entries \o BeingAdded /\ ViewContents = entries
      /\ ViewAdding = BeingAdded /\ ViewAdding' = <<>>
      /\ AbstractSession = "write" /\ AbstractSession' = "none"
      /\ ViewCursor = 0 /\ ViewCursor' = 0 /\ ViewReading = <<>> /\ ViewReading' = <<>>
  BY <1>1, <1>2, Zenon DEF Seen
<1> QED
  BY <1>3 DEF Abstract!Finish, Abstract!Closed, AbstractSession

\* The cursor of a reader is on an entry, and what he has read is how its data begins.
SeenReading ==
  mode = "read" =>
    /\ Good /\ ViewCursor \in 0..Len(entries)
    /\ scanned =>
         /\ ViewCursor \in 1..Len(entries)
         /\ info.crc = entries[ViewCursor].data /\ info.csize = Len(info.crc)
    /\ opened => scanned /\ Len(crc) <= info.csize /\ \A i \in 1..Len(crc) : crc[i] = info.crc[i]

LEMMA SeenReadingAlways == ArchiveInv => SeenReading
<1> SUFFICES ASSUME ArchiveInv, mode = "read" PROVE SeenReading
  BY DEF SeenReading
<1>1. TypeInv /\ DirectoryInv /\ ReaderInv /\ Good /\ Seen
  BY SeenAlways DEF ArchiveInv, FirstInv
<1>2. opened => scanned /\ Len(crc) <= info.csize /\ \A i \in 1..Len(crc) : crc[i] = info.crc[i]
  BY <1>1 DEF ReaderInv, OpenedInv
<1>3. scanned =>
        /\ ViewCursor \in 1..Len(entries)
        /\ info.crc = entries[ViewCursor].data /\ info.csize = Len(info.crc)
  <2> SUFFICES ASSUME scanned
               PROVE  /\ ViewCursor \in 1..Len(entries)
                      /\ info.crc = entries[ViewCursor].data /\ info.csize = Len(info.crc)
    OBVIOUS
  <2>1. ViewCursor = cdCur - cdStart + 1
    BY <1>1 DEF Seen
  <2>2. /\ cdCur - cdStart + 1 \in 1..Len(entries)
        /\ Leads(info, entries[cdCur - cdStart + 1])
    BY <1>1, CurrentEntry
  <2> QED
    BY <2>1, <2>2 DEF Leads
<1>4. Len(entries) \in Nat /\ scanned \in BOOLEAN
  BY <1>1 DEF TypeInv, GhostType, FlagType
<1>5. ~scanned => ViewCursor = 0
  BY <1>1 DEF Seen
<1>6. ViewCursor \in 0..Len(entries)
  BY <1>3, <1>4, <1>5
<1> QED
  BY <1>1, <1>2, <1>3, <1>6, Zenon DEF SeenReading

LEMMA LookStep ==
  ASSUME CallerHabits = {}, TypeInv, Seen, Seen', SeenReading, SeenReading', LookNext
  PROVE  \E k \in 0..Len(ViewContents) : Abstract!Select(k)
<1>1. /\ mode = "read" /\ mode' = mode /\ ~opened /\ opened' = opened /\ entries' = entries
  BY DEF LookNext, GotoFirstEntry, GotoNextEntry, GotoEntry, LocateEntry, Goto, Looking,
         ghostVars, entryVars
<1>2. /\ ViewContents' = ViewContents /\ ViewContents = entries
      /\ AbstractSession = "read" /\ AbstractSession' = "read"
      /\ ViewAdding = <<>> /\ ViewAdding' = <<>>
      /\ ViewReading = <<>> /\ ViewReading' = <<>>
  BY <1>1, Zenon DEF Seen
<1>3. ViewCursor' \in 0..Len(ViewContents)
  BY <1>1, <1>2 DEF SeenReading
<1>4. Abstract!Select(ViewCursor')
  BY <1>2 DEF Abstract!Select, AbstractSession
<1> QED
  BY <1>3, <1>4

LEMMA ReadOpenStep ==
  ASSUME TypeInv, DirectoryInv, ReaderInv, Seen, Seen', SeenReading, EntryReadOpen
  PROVE  Abstract!BeginReading
<1>1. /\ mode = "read" /\ mode' = mode /\ scanned /\ scanned' = scanned /\ ~opened
      /\ UNCHANGED <<cdCur, cdStart, entries>>
  BY DEF EntryReadOpen, ghostVars
<1>2. opened' = TRUE /\ crc' = <<>>
  <2>1. Good /\ PlacedInv /\ CursorInv
    BY <1>1 DEF SeenReading, ReaderInv
  <2> QED
    BY <2>1, EntryOpens
<1>3. /\ ViewContents' = ViewContents /\ ViewContents = entries
      /\ AbstractSession = "read" /\ AbstractSession' = "read"
      /\ ViewAdding = <<>> /\ ViewAdding' = <<>>
      /\ ViewCursor = cdCur - cdStart + 1 /\ ViewCursor' = cdCur' - cdStart' + 1
      /\ ViewReading = <<>> /\ ViewReading' = <<crc'>>
  BY <1>1, <1>2, Zenon DEF Seen
<1>4. ViewCursor # 0
  BY <1>1 DEF SeenReading
<1>5. ViewCursor' = ViewCursor /\ ViewReading' = << <<>> >>
  BY <1>1, <1>2, <1>3
<1> QED
  BY <1>3, <1>4, <1>5 DEF Abstract!BeginReading, AbstractSession

LEMMA ReadStep ==
  ASSUME TypeInv, TypeInv', Seen, Seen', SeenReading, SeenReading', EntryRead
  PROVE  Abstract!Get
<1>1. /\ mode = "read" /\ mode' = mode /\ opened /\ opened' = opened /\ scanned' = scanned
      /\ UNCHANGED <<cdCur, cdStart, entries, info>>
      /\ Len(crc) < info.csize /\ crc' = Append(crc, Payload(file[pos]))
  BY DEF EntryRead, ghostVars, dirVars
<1> DEFINE e == entries[ViewCursor].data
           n == Len(crc)
<1>2. /\ scanned /\ info.crc = e /\ info.csize = Len(e) /\ Len(crc') <= Len(e)
      /\ \A i \in 1..Len(crc') : crc'[i] = e[i]
  BY <1>1 DEF SeenReading
<1>3. /\ ViewContents' = ViewContents /\ ViewContents = entries
      /\ AbstractSession = "read" /\ AbstractSession' = "read"
      /\ ViewAdding = <<>> /\ ViewAdding' = <<>>
      /\ ViewCursor = cdCur - cdStart + 1 /\ ViewCursor' = cdCur' - cdStart' + 1
      /\ ViewReading = <<crc>> /\ ViewReading' = <<crc'>>
  BY <1>1, <1>2, Zenon DEF Seen
<1>4. ViewCursor' = ViewCursor
  BY <1>1, <1>3
<1>5. crc \in Content /\ crc' \in Content /\ e \in Content
  BY <1>2 DEF TypeInv, EntryType, Info
<1>6. n \in Nat /\ Len(crc') = n + 1 /\ n < Len(e) /\ Len(e) \in Nat
  BY <1>1, <1>2, <1>5 DEF Content
<1> HIDE DEF e, n
<1>7. crc' = SubSeq(e, 1, n + 1)
  <2> DEFINE x == SubSeq(e, 1, n + 1)
  <2>1. x \in Content /\ Len(x) = n + 1 /\ \A i \in 1..(n + 1) : x[i] = e[i]
    BY <1>5, <1>6 DEF Content
  <2>2. \A i \in 1..(n + 1) : crc'[i] = e[i]
    BY <1>2, <1>6
  <2> HIDE DEF x
  <2>3. Len(crc') = Len(x) /\ \A i \in 1..Len(crc') : crc'[i] = x[i]
    BY <1>6, <2>1, <2>2
  <2>4. crc' \in Seq(Chunks \cup {Junk}) /\ x \in Seq(Chunks \cup {Junk})
    BY <1>5, <2>1 DEF Content
  <2>5. crc' = x
    BY <2>3, <2>4, SeqEqual
  <2> QED
    BY <2>5 DEF x
<1>8. ViewReading[1] = crc /\ ViewReading # <<>>
  BY <1>3
<1>9. Len(ViewReading[1]) < Len(ViewContents[ViewCursor].data)
  BY <1>3, <1>6, <1>8 DEF e, n
<1>10. ViewReading' = <<SubSeq(ViewContents[ViewCursor].data, 1, Len(ViewReading[1]) + 1)>>
  BY <1>3, <1>7, <1>8, Zenon DEF e, n
<1> QED
  BY <1>3, <1>4, <1>8, <1>9, <1>10 DEF Abstract!Get, AbstractSession

LEMMA ReadCloseStep ==
  ASSUME TypeInv, Seen, Seen', SeenReading, NEW w \in BOOLEAN, EntryReadClose(w)
  PROVE  Abstract!EndReading
<1>1. /\ mode = "read" /\ mode' = mode /\ opened /\ opened' = FALSE /\ scanned' = scanned
      /\ UNCHANGED <<cdCur, cdStart, entries>>
  BY DEF EntryReadClose, ghostVars, dirVars
<1>2. scanned /\ ~opened' /\ scanned'
  BY <1>1 DEF SeenReading
<1>3. /\ ViewContents' = ViewContents
      /\ AbstractSession = "read" /\ AbstractSession' = "read"
      /\ ViewAdding = <<>> /\ ViewAdding' = <<>>
      /\ ViewCursor = cdCur - cdStart + 1 /\ ViewCursor' = cdCur' - cdStart' + 1
      /\ ViewReading = <<crc>> /\ ViewReading' = <<>>
  BY <1>1, <1>2, Zenon DEF Seen
<1>4. ViewCursor' = ViewCursor /\ ViewReading # <<>>
  BY <1>1, <1>3
<1> QED
  BY <1>3, <1>4 DEF Abstract!EndReading, AbstractSession

LEMMA CloseReadStep ==
  ASSUME TypeInv, Seen, Seen', ZipCloseRead PROVE Abstract!CloseReading
<1>1. mode = "read" /\ mode' = "none" /\ entries' = entries
  BY DEF ZipCloseRead, FreshHandle, ghostVars
<1>2. /\ ViewContents' = ViewContents
      /\ AbstractSession = "read" /\ AbstractSession' = "none"
      /\ ViewAdding = <<>> /\ ViewAdding' = <<>>
      /\ ViewCursor' = 0 /\ ViewReading' = <<>>
  BY <1>1, Zenon DEF Seen
<1> QED
  BY <1>2 DEF Abstract!CloseReading, AbstractSession

LEMMA PrependStep ==
  ASSUME TypeInv, Seen, Seen', NEW k \in 1..MaxStub, NEW c \in Chunks, Prepend(k, c)
  PROVE  UNCHANGED Abstract!vars
<1>1. mode = "none" /\ mode' = "none" /\ entries' = entries
  BY DEF Prepend
<1>2. /\ ViewContents' = ViewContents /\ AbstractSession' = AbstractSession
      /\ ViewAdding' = ViewAdding /\ ViewCursor' = ViewCursor /\ ViewReading' = ViewReading
  BY <1>1, Zenon DEF Seen
<1> QED
  BY <1>2 DEF Abstract!vars, AbstractSession

LEMMA StutterStep ==
  ASSUME TypeInv, Seen, Seen', UNCHANGED vars PROVE UNCHANGED Abstract!vars
<1>1. UNCHANGED <<mode, opened, scanned, cdCur, cdStart, entries, crc, info>>
  BY DEF vars, fileVars, dirVars, entryVars, ghostVars
<1>2. mode = "none" \/ Writing \/ mode = "read"
  BY DEF TypeInv, CallType, Writing
<1>3. /\ ViewCursor' = ViewCursor /\ ViewReading' = ViewReading /\ BeingAdded' = BeingAdded
      /\ Writing' = Writing /\ AbstractSession' = AbstractSession
  BY <1>1 DEF ViewCursor, ViewReading, BeingAdded, Writing, AbstractSession
<1>4. ViewContents' = ViewContents
  BY <1>1 DEF Seen
<1>5. ViewAdding' = ViewAdding
  <2>1. CASE mode = "none" \/ mode = "read"
    <3>1. ViewAdding = <<>>
      BY <2>1, Zenon DEF Seen
    <3>2. mode' = "none" \/ mode' = "read"
      BY <1>1, <2>1
    <3>3. ViewAdding' = <<>>
      BY <3>2, Zenon DEF Seen
    <3> QED
      BY <3>1, <3>3
  <2>2. CASE Writing
    <3>1. Writing'
      BY <1>3, <2>2
    <3>2. ViewAdding = BeingAdded /\ ViewAdding' = BeingAdded'
      BY <2>2, <3>1, Zenon DEF Seen
    <3> QED
      BY <1>3, <3>2
  <2> QED
    BY <1>2, <2>1, <2>2
<1> QED
  BY <1>3, <1>4, <1>5 DEF Abstract!vars, AbstractSession

\* The invariants of a history without crashes.
LEMMA FirstInit == Init => FirstInv
BY DEF Init, FirstInv

LEMMA FirstOpen ==
  ASSUME FirstInv, ZipOpenCreate \/ ZipOpenAppend \/ ZipOpenRead PROVE FirstInv'
<1>1. CASE ZipOpenCreate
  BY <1>1 DEF ZipOpenCreate, FirstInv, Good
<1>2. CASE ZipOpenAppend \/ ZipOpenRead
  <2> DEFINE d == ReadCd(file, flen)
  <2>1. /\ mode = "none" /\ UNCHANGED <<flen, entries, stub>>
        /\ health' = IF d.ok /\ ~Good THEN health' ELSE health
        /\ ~d.ok => mode' = mode
    BY <1>2 DEF ZipOpenAppend, ZipOpenRead, fileVars, ghostVars
  <2>2. CASE Good
    BY <2>1, <2>2 DEF FirstInv, Good
  <2>3. CASE ~Good
    <3>1. flen = 0 /\ entries = <<>> /\ stub = 0
      BY <2>3 DEF FirstInv
    <3>2. LastEnds(file, flen) = {}
      BY <3>1 DEF LastEnds, Ends
    <3>3. ~d.ok
      BY <3>2 DEF ReadCd, NoDirectory
    <3> QED
      BY <2>1, <3>1, <3>3 DEF FirstInv
  <2> QED
    BY <2>2, <2>3
<1> QED
  BY <1>1, <1>2

LEMMA FirstClose ==
  ASSUME TypeInv, DirectoryInv, CountInv, FirstInv, ZipCloseWrite PROVE FirstInv'
<1>1. Writing /\ Room(0)
  BY DEF ZipCloseWrite
<1>2. Good
  BY <1>1 DEF FirstInv, Writing
<1>3. WritingInv
  BY <1>1, <1>2 DEF DirectoryInv
<1>4. Settled.ok /\ Settled.number = Len(Settled.cdMem)
  BY <1>1, <1>2, <1>3, SettledCount
<1>5. Settled.cdMem \in Seq(Cell)
  BY <1>1, SettledType
<1>6. DirectoryOf(Settled) # <<>>
  <2> DEFINE s == Settled
             z == EndRecord(s.number, Len(s.cdMem), s.pos)
  <2> HIDE DEF s, z
  <2>1. ~(s.cdMem = <<>> /\ s.number > 0)
    BY <1>4 DEF s
  <2>2. DirectoryOf(s) = Append(s.cdMem, z)
    BY <2>1 DEF DirectoryOf, z
  <2>3. s.cdMem \in Seq(Cell) /\ Len(s.cdMem) \in Nat
    BY <1>5 DEF s
  <2> QED
    BY <2>2, <2>3 DEF s
<1>7. health' = health
  BY <1>4, <1>6 DEF ZipCloseWrite
<1> QED
  BY <1>2, <1>7 DEF FirstInv, Good

LEMMA FirstStep ==
  ASSUME CallerHabits = {}, CrashModes = {}, ArchiveInv, [Next]_vars PROVE FirstInv'
<1>1. TypeInv /\ DirectoryInv /\ CountInv /\ FirstInv
  BY DEF ArchiveInv
<1>2. CASE ZipOpenCreate \/ ZipOpenAppend \/ ZipOpenRead
  BY <1>1, <1>2, FirstOpen
<1>3. CASE ZipCloseWrite
  BY <1>1, <1>3, FirstClose
<1>4. CASE Crash \/ \E k \in 1..(Capacity - 1) : CrashInClose(k)
  BY <1>4 DEF Crash, CrashInClose
<1>5. CASE \E k \in 1..MaxStub, c \in Chunks : Prepend(k, c)
  BY <1>5 DEF Prepend, FirstInv, Good
<1>6. CASE \/ \E n \in Names, u \in Declared, z \in Zip64Modes, d \in Descriptors :
                 EntryWriteOpen(n, u, z, d)
           \/ \E c \in Chunks : EntryWrite(c)
           \/ EntryWriteClose
  <2>1. Writing /\ health' = health
    BY <1>6 DEF EntryWriteOpen, EntryWrite, EntryWriteClose, ghostVars
  <2> QED
    BY <2>1 DEF ArchiveInv, FirstInv, Good, Writing
<1>7. CASE LookNext
  <2>1. mode = "read" /\ health' = health
    BY <1>7 DEF LookNext, GotoFirstEntry, GotoNextEntry, GotoEntry, LocateEntry, Goto, Looking,
                ghostVars
  <2> QED
    BY <2>1 DEF ArchiveInv, FirstInv, Good
<1>8. CASE ZipCloseRead \/ EntryReadOpen \/ EntryRead \/ \E w \in BOOLEAN : EntryReadClose(w)
  <2>1. mode = "read" /\ health' = health
    BY <1>8 DEF ZipCloseRead, EntryReadOpen, EntryRead, EntryReadClose, ghostVars
  <2> QED
    BY <2>1 DEF ArchiveInv, FirstInv, Good
<1>9. CASE UNCHANGED vars
  BY <1>9 DEF vars, fileVars, ghostVars, ArchiveInv, FirstInv, Good
<1> QED
  BY <1>2, <1>3, <1>4, <1>5, <1>6, <1>7, <1>8, <1>9, Zenon
  DEF Next, WriteNext, ReadNext, EnvNext

LEMMA ArchiveStep ==
  ASSUME CallerHabits = {}, CrashModes = {}, ArchiveInv, ArchiveInv', Seen, Seen',
         SeenReading, SeenReading', [Next]_vars
  PROVE  [Abstract!Next]_(Abstract!vars)
<1>1. TypeInv /\ DirectoryInv /\ ReaderInv /\ CountInv /\ TypeInv'
  BY DEF ArchiveInv
<1>2. CASE ZipOpenCreate \/ ZipOpenAppend \/ ZipCloseWrite
  BY <1>1, <1>2, CreateStep, AppendStep, CloseWriteStep, Zenon DEF Abstract!Next
<1>3. ASSUME NEW n \in Names, NEW u \in Declared, NEW z \in Zip64Modes, NEW d \in Descriptors,
             EntryWriteOpen(n, u, z, d)
      PROVE  Abstract!Next
  BY <1>1, <1>3, WriteOpenStep, Zenon DEF Abstract!Next
<1>4. ASSUME NEW c \in Chunks, EntryWrite(c) PROVE Abstract!Next
  BY <1>1, <1>4, WriteStep, Zenon DEF Abstract!Next
<1>5. CASE EntryWriteClose
  BY <1>1, <1>5, WriteCloseStep, Zenon DEF Abstract!Next
<1>6. CASE LookNext
  BY <1>1, <1>6, LookStep, Zenon DEF Abstract!Next
<1>7. CASE ZipOpenRead \/ ZipCloseRead
  BY <1>1, <1>7, OpenReadStep, CloseReadStep, Zenon DEF Abstract!Next
<1>8. CASE EntryReadOpen \/ EntryRead
  BY <1>1, <1>8, ReadOpenStep, ReadStep, Zenon DEF Abstract!Next
<1>9. ASSUME NEW w \in BOOLEAN, EntryReadClose(w) PROVE Abstract!Next
  BY <1>1, <1>9, ReadCloseStep, Zenon DEF Abstract!Next
<1>10. CASE Crash \/ \E k \in 1..(Capacity - 1) : CrashInClose(k)
  BY <1>10 DEF Crash, CrashInClose
<1>11. ASSUME NEW k \in 1..MaxStub, NEW c \in Chunks, Prepend(k, c)
       PROVE  UNCHANGED Abstract!vars
  BY <1>1, <1>11, PrependStep
<1>12. CASE UNCHANGED vars
  BY <1>1, <1>12, StutterStep
<1> QED
  BY <1>2, <1>3, <1>4, <1>5, <1>6, <1>7, <1>8, <1>9, <1>10, <1>11, <1>12, Zenon
  DEF Next, WriteNext, ReadNext, EnvNext

\* When no session dies, callers move between entries only while reading and append only to
\* archives with nothing in front, and no entry disables the 64-bit format: the cells of the
\* file, whichever session is under way, are the list of contents that Archive describes, and
\* every call changes it as a step of Archive does, or not at all.
THEOREM ArchiveImplemented ==
  ASSUME CallerHabits = {}, CrashModes = {}, Zip64Disable \notin Zip64Modes
  PROVE  Spec => ImplementsArchive
<1>1. Init => ArchiveInv /\ ClearInv
  BY InitType, InitDirectory, FirstInit DEF Init, ArchiveInv, ReaderInv, CountInv, Good, Writing
<1>2. ArchiveInv /\ ClearInv /\ [Next]_vars => ArchiveInv' /\ ClearInv'
  <2> SUFFICES ASSUME ArchiveInv, ClearInv, [Next]_vars PROVE ArchiveInv' /\ ClearInv'
    OBVIOUS
  <2>1. TypeInv /\ DirectoryInv /\ ReaderInv /\ CountInv
    BY DEF ArchiveInv
  <2> QED
    BY <2>1, NextType, NextDirectory, NextClear, NextReader, NextCount, FirstStep
    DEF ArchiveInv
<1>3. ArchiveInv => Seen /\ SeenReading
  BY SeenAlways, SeenReadingAlways
<1>4. Init => Abstract!Init
  <2> SUFFICES ASSUME Init PROVE Abstract!Init
    OBVIOUS
  <2>1. Seen /\ mode = "none" /\ entries = <<>>
    BY <1>1, <1>3 DEF Init
  <2>2. /\ ViewContents = <<>> /\ AbstractSession = "none" /\ ViewAdding = <<>>
        /\ ViewCursor = 0 /\ ViewReading = <<>>
    BY <2>1, Zenon DEF Seen
  <2> QED
    BY <2>2 DEF Abstract!Init, AbstractSession
<1>5. ArchiveInv /\ ArchiveInv' /\ Seen /\ Seen' /\ SeenReading /\ SeenReading' /\ [Next]_vars
        => [Abstract!Next]_(Abstract!vars)
  BY ArchiveStep
<1> QED
  BY <1>1, <1>2, <1>3, <1>4, <1>5, PTL DEF Spec, ImplementsArchive, Abstract!Spec

-----------------------------------------------------------------------------
(* What a session that died leaves *)

\* Whatever is a directory header, in the file or in memory, is that of an entry
\* that was closed, and so is what the handle read from one.
Known(es, c) ==
  \E i \in 1..Len(es) : es[i] = [name |-> c.name, data |-> c.crc]
KnownInv ==
  /\ \A q \in Pos : file[q].t = "central" => Known(entries, file[q])
  /\ \A i \in 1..Len(cdMem) : cdMem[i].t = "central" => Known(entries, cdMem[i])
  /\ mode = "read" => (opened => scanned) /\ (scanned => Known(entries, info))

\* What is left of entry e in file f lies below b.
SurvivesBelow(f, e, b) ==
  \E p \in Pos, dd \in BOOLEAN :
    LET n == Len(e.data) IN
    /\ f[p].t = "local" /\ f[p].name = e.name /\ f[p].dd = dd
    /\ \A i \in 1..n : At(f, Capacity, p + i) = DataCell(e.data[i])
    /\ IF dd THEN /\ At(f, Capacity, p + n + 1).t = "descriptor"
                  /\ At(f, Capacity, p + n + 1).crc = e.data
             ELSE f[p].crc = e.data /\ f[p].csize = n
    /\ p + n + (IF dd THEN 1 ELSE 0) < b

\* No end record sends an open below b, and none of those in memory would, once
\* they are written at p.
EndsAbove(f, n, b) ==
  \A q \in 0..(n - 1) : f[q].t = "end" => f[q].off >= b /\ q - f[q].size >= b
MemAbove(mem, p, b) ==
  \A i \in 1..Len(mem) :
     mem[i].t = "end" => mem[i].off >= b /\ p + i - 1 - mem[i].size >= b

\* Nothing is written below b, where the entries of the last finished archive are.
\* An archive that is finished is the one they were committed with; nothing but a
\* finished archive has something in front.
KeptBelow(b) ==
  /\ \A i \in 1..Len(committed) : SurvivesBelow(file, committed[i], b)
  /\ EndsAbove(file, flen, b)
  /\ Writing => /\ b <= pos /\ pos <= flen /\ MemAbove(cdMem, pos, b)
                /\ opened => b <= info.off
KeptInv ==
  IF Good /\ ~Writing THEN committed = entries
  ELSE stub = 0 /\ \E b \in 0..Capacity : KeptBelow(b)

\* Until a session that follows a crash comes to its end, every end record counts
\* the entries of the last finished archive.
EndsCount(f, n, k) == \A q \in 0..(n - 1) : f[q].t = "end" => f[q].number = k
CommitInv ==
  /\ health = "crashed" => ~Writing
  /\ health = "crashed" \/ (Good /\ Writing) => EndsCount(file, flen, Len(committed))
  /\ mode = "read" /\ health = "crashed" => numberEntry = Len(committed)

-----------------------------------------------------------------------------
(* What writing leaves of file and directory *)

LEMMA SettledCells ==
  ASSUME TypeInv, Writing, NEW k \in Nat, Room(k)
  PROVE  LET s == Settled IN
         /\ \A q \in Pos :
              \/ s.file[q] = file[q]
              \/ opened /\ q \in {pos, info.off} /\ s.file[q].t \in {"local", "descriptor"}
         /\ \A i \in 1..Len(s.cdMem) :
              \/ i \in 1..Len(cdMem) /\ s.cdMem[i] = cdMem[i]
              \/ /\ opened /\ ~CentralHeaderFails(info)
                 /\ s.cdMem[i] = CentralHeader(FinalInfo)
         /\ Len(entries) \in Nat
         /\ \A i \in 1..Len(entries) : i \in 1..Len(s.entries) /\ s.entries[i] = entries[i]
         /\ opened /\ ~CentralHeaderFails(info) =>
              \E i \in 1..Len(s.entries) : s.entries[i] = [name |-> info.name, data |-> crc]
<1> DEFINE s == Settled
           n == Len(entries)
           e == [name |-> info.name, data |-> crc]
           c == CentralHeader(FinalInfo)
<1>1. /\ file \in [Pos -> Cell] /\ cdMem \in Seq(Cell) /\ cdMemPos \in 0..Len(cdMem)
      /\ entries \in Seq(Entry) /\ n \in Nat /\ Len(cdMem) \in Nat
  BY DEF TypeInv, FileType, MemType, GhostType
<1>2. ASSUME NEW q \in Pos
      PROVE  \/ s.file[q] = file[q]
             \/ opened /\ q \in {pos, info.off} /\ s.file[q].t \in {"local", "descriptor"}
  <2>1. CASE ~opened
    BY <2>1, SettledFields
  <2>2. CASE opened
    <3>1. s.file = ClosedFile
      BY <2>2, SettledFields
    <3> DEFINE d == Descriptor(LocalZip64(info), crc, Len(crc))
               h == LocalHeader(FinalInfo, LocalZip64(info))
    <3>2. d.t = "descriptor" /\ h.t = "local"
      BY DEF Descriptor, LocalHeader
    <3> HIDE DEF d, h, s
    <3>3. ClosedFile = IF info.dd THEN [file EXCEPT ![pos] = d]
                       ELSE IF CentralHeaderFails(info) THEN file
                       ELSE [file EXCEPT ![info.off] = h]
      BY DEF ClosedFile, d, h
    <3> QED
      BY <1>1, <2>2, <3>1, <3>2, <3>3
  <2> QED
    BY <2>1, <2>2
<1>3. CASE ~opened \/ CentralHeaderFails(info)
  <2>1. s.cdMem = cdMem /\ s.entries = entries
    BY <1>3, SettledFields
  <2> QED
    BY <1>1, <1>2, <1>3, <2>1
<1>4. CASE opened /\ ~CentralHeaderFails(info)
  <2>1. s.cdMem = PutAt(cdMem, cdMemPos, c) /\ s.entries = Append(entries, e)
    BY <1>4, SettledFields
  <2> HIDE DEF s, e, c
  <2>2. \A i \in 1..Len(s.cdMem) : (i \in 1..Len(cdMem) /\ s.cdMem[i] = cdMem[i]) \/ s.cdMem[i] = c
    BY <1>1, <2>1 DEF PutAt
  <2>3. /\ \A i \in 1..n : i \in 1..Len(s.entries) /\ s.entries[i] = entries[i]
        /\ n + 1 \in 1..Len(s.entries) /\ s.entries[n + 1] = e
    BY <1>1, <2>1
  <2> QED
    BY <1>1, <1>2, <1>4, <2>2, <2>3 DEF s, e, c
<1> QED
  BY <1>3, <1>4

LEMMA DirectoryCells ==
  ASSUME TypeInv, Writing, NEW k \in Nat, Room(k)
  PROVE  LET s == Settled IN
         \A i \in 1..Len(DirectoryOf(s)) :
            \/ i \in 1..Len(s.cdMem) /\ DirectoryOf(s)[i] = s.cdMem[i]
            \/ /\ i = Len(s.cdMem) + 1
               /\ DirectoryOf(s)[i] = EndRecord(s.number, Len(s.cdMem), s.pos)
<1> DEFINE s == Settled
           e == EndRecord(s.number, Len(s.cdMem), s.pos)
<1> HIDE DEF s
<1>1. s.cdMem \in Seq(Cell) /\ Len(s.cdMem) \in Nat
  BY SettledType DEF s
<1>2. CASE s.cdMem = <<>> /\ s.number > 0
  <2>1. DirectoryOf(s) = <<>>
    BY <1>2 DEF DirectoryOf
  <2> QED
    BY <2>1 DEF s
<1>3. CASE ~(s.cdMem = <<>> /\ s.number > 0)
  <2> HIDE DEF e
  <2>1. DirectoryOf(s) = Append(s.cdMem, e)
    BY <1>3 DEF DirectoryOf, e
  <2>2. \A i \in 1..Len(DirectoryOf(s)) :
           \/ i \in 1..Len(s.cdMem) /\ DirectoryOf(s)[i] = s.cdMem[i]
           \/ i = Len(s.cdMem) + 1 /\ DirectoryOf(s)[i] = e
    BY <1>1, <2>1
  <2> QED
    BY <2>2 DEF s, e
<1> QED
  BY <1>2, <1>3

\* A close that stops after k records has written the first k of its directory.
LEMMA StoppedClose ==
  ASSUME TypeInv, NEW k \in 1..(Capacity - 1), CrashInClose(k)
  PROVE  LET cells == SubSeq(DirectoryOf(Settled), 1, k)
         IN /\ Writing /\ ~opened /\ Room(0) /\ Settled.file = file /\ Settled.cdMem = cdMem
            /\ Settled.pos = pos /\ Settled.entries = entries
            /\ file' = Written(file, pos, cells) /\ flen' = Larger(flen, pos + k)
            /\ k \in Nat /\ Len(cells) = k /\ k <= Len(cdMem) /\ cells \in Seq(Cell)
            /\ \A i \in 1..k : i \in 1..Len(cdMem) /\ cells[i] = cdMem[i]
<1> DEFINE d == DirectoryOf(Settled)
           cells == SubSeq(d, 1, k)
<1>1. /\ Writing /\ ~opened /\ Room(0) /\ k < Len(d)
      /\ file' = Written(file, pos, cells) /\ flen' = Larger(flen, pos + k)
  BY DEF CrashInClose
<1>2. /\ Settled.file = file /\ Settled.cdMem = cdMem /\ Settled.pos = pos
      /\ Settled.entries = entries
  BY <1>1, SettledFields
<1>3. /\ d \in Seq(Cell)
      /\ \A i \in 1..Len(d) : (i \in 1..Len(cdMem) /\ d[i] = cdMem[i]) \/ i = Len(cdMem) + 1
  BY <1>1, <1>2, DirectoryOfType, DirectoryCells
<1>4. k \in Nat /\ k > 0 /\ cdMem \in Seq(Cell) /\ Len(cdMem) \in Nat
  BY CapacityType DEF TypeInv, MemType
<1> HIDE DEF d
<1>5. Len(d) <= Len(cdMem) + 1 /\ Len(d) \in Nat
  <2>1. Len(d) \in Nat
    BY <1>3
  <2>2. Len(d) \in 1..Len(d)
    BY <1>1, <1>4, <2>1
  <2> QED
    BY <1>3, <1>4, <2>1, <2>2
<1>6. cells \in Seq(Cell) /\ Len(cells) = k /\ \A i \in 1..k : cells[i] = d[i]
  BY <1>1, <1>3, <1>4, <1>5
<1>7. \A i \in 1..k : i \in 1..Len(cdMem) /\ i \in 1..Len(d)
  BY <1>1, <1>4, <1>5
<1>8. \A i \in 1..k : cells[i] = cdMem[i]
  <2> TAKE i \in 1..k
  <2>1. i \in 1..Len(cdMem) /\ i \in 1..Len(d) /\ i # Len(cdMem) + 1
    BY <1>4, <1>7
  <2> QED
    BY <1>3, <1>6, <2>1
<1>9. k <= Len(cdMem)
  BY <1>1, <1>4, <1>5
<1> QED
  BY <1>1, <1>2, <1>4, <1>6, <1>7, <1>8, <1>9 DEF d

-----------------------------------------------------------------------------
(* What is presented after a crash had been closed *)

LEMMA KnownGrows ==
  ASSUME NEW es, NEW fs, NEW c, Known(es, c),
         \A i \in 1..Len(es) : i \in 1..Len(fs) /\ fs[i] = es[i]
  PROVE  Known(fs, c)
BY DEF Known

LEMMA SettledKnown ==
  ASSUME TypeInv, KnownInv, Writing, NEW k \in Nat, Room(k)
  PROVE  LET s == Settled IN
         /\ \A q \in Pos : s.file[q].t = "central" => Known(s.entries, s.file[q])
         /\ \A i \in 1..Len(s.cdMem) :
              s.cdMem[i].t = "central" => Known(s.entries, s.cdMem[i])
<1> DEFINE s == Settled
           c == CentralHeader(FinalInfo)
<1>1. /\ \A q \in Pos : s.file[q] = file[q] \/ s.file[q].t \in {"local", "descriptor"}
      /\ \A i \in 1..Len(s.cdMem) :
           \/ i \in 1..Len(cdMem) /\ s.cdMem[i] = cdMem[i]
           \/ opened /\ ~CentralHeaderFails(info) /\ s.cdMem[i] = c
      /\ \A i \in 1..Len(entries) : i \in 1..Len(s.entries) /\ s.entries[i] = entries[i]
      /\ opened /\ ~CentralHeaderFails(info) =>
           \E i \in 1..Len(s.entries) : s.entries[i] = [name |-> info.name, data |-> crc]
  BY SettledCells
<1>2. c.name = info.name /\ c.crc = crc
  BY DEF TypeInv, EntryType, CentralHeader, FinalInfo, Info
<1> HIDE DEF s, c
<1>3. ASSUME NEW q \in Pos, s.file[q].t = "central" PROVE Known(s.entries, s.file[q])
  <2>1. s.file[q] = file[q]
    BY <1>1, <1>3
  <2>2. Known(entries, file[q])
    BY <1>3, <2>1 DEF KnownInv
  <2> QED
    BY <1>1, <2>1, <2>2, KnownGrows
<1>4. ASSUME NEW i \in 1..Len(s.cdMem), s.cdMem[i].t = "central"
      PROVE  Known(s.entries, s.cdMem[i])
  <2>1. CASE i \in 1..Len(cdMem) /\ s.cdMem[i] = cdMem[i]
    <3>1. Known(entries, cdMem[i])
      BY <1>4, <2>1 DEF KnownInv
    <3> QED
      BY <1>1, <2>1, <3>1, KnownGrows
  <2>2. CASE opened /\ ~CentralHeaderFails(info) /\ s.cdMem[i] = c
    BY <1>1, <1>2, <2>2 DEF Known
  <2> QED
    BY <1>1, <2>1, <2>2
<1> QED
  BY <1>3, <1>4 DEF s

\* What the close of a session writes.
LEMMA WrittenKnown ==
  ASSUME NEW f, NEW p \in Int, NEW cells, NEW es,
         \A q \in Pos : f[q].t = "central" => Known(es, f[q]),
         \A i \in 1..Len(cells) : cells[i].t = "central" => Known(es, cells[i])
  PROVE  \A q \in Pos : Written(f, p, cells)[q].t = "central" => Known(es, Written(f, p, cells)[q])
<1> TAKE q \in Pos
<1>1. Written(f, p, cells)[q] = IF q - p + 1 \in 1..Len(cells) THEN cells[q - p + 1] ELSE f[q]
  BY DEF Written
<1>2. CASE q - p + 1 \in 1..Len(cells)
  BY <1>1, <1>2
<1>3. CASE q - p + 1 \notin 1..Len(cells)
  BY <1>1, <1>3
<1> QED
  BY <1>2, <1>3

\* What a step that leaves file and entries alone, and is not one of reading,
\* preserves.
LEMMA QuietKnown ==
  ASSUME KnownInv, UNCHANGED <<file, entries>>, mode' # "read", cdMem' = cdMem \/ cdMem' = <<>>
  PROVE  KnownInv'
<1>1. \A i \in 1..Len(cdMem') : cdMem'[i].t = "central" => Known(entries, cdMem'[i])
  BY DEF KnownInv
<1> QED
  BY <1>1 DEF KnownInv

LEMMA AppendKnown == ASSUME TypeInv, KnownInv, ZipOpenAppend PROVE KnownInv'
<1> DEFINE d == ReadCd(file, flen)
           m == [i \in 1..d.size |-> file[d.off + i - 1]]
<1>1. /\ UNCHANGED <<file, entries>> /\ mode = "none"
      /\ d.ok => mode' = "append" /\ cdMem' = m
      /\ ~d.ok => mode' = mode /\ cdMem' = cdMem
  BY DEF ZipOpenAppend, fileVars
<1>2. CASE d.ok
  <2>1. /\ file \in [Pos -> Cell] /\ flen \in 0..Capacity
    BY DEF TypeInv, FileType
  <2>2. d.off \in Nat /\ d.size \in Nat /\ d.off + d.size < flen
    BY <1>2, <2>1, ReadCdType
  <2> HIDE DEF d
  <2>3. Len(m) = d.size /\ \A i \in 1..d.size : m[i] = file[d.off + i - 1]
    BY <2>2
  <2>4. \A i \in 1..d.size : d.off + i - 1 \in Pos
    BY <2>1, <2>2, CapacityType DEF Pos
  <2> HIDE DEF m
  <2>5. \A i \in 1..Len(m) : m[i].t = "central" => Known(entries, m[i])
    BY <2>3, <2>4 DEF KnownInv
  <2> QED
    BY <1>1, <1>2, <2>5 DEF KnownInv
<1>3. CASE ~d.ok
  BY <1>1, <1>3, QuietKnown
<1> QED
  BY <1>2, <1>3

LEMMA WriteKnown == ASSUME TypeInv, KnownInv, WriteNext PROVE KnownInv'
<1> DEFINE s == Settled
<1>1. CASE ZipOpenCreate
  <2>1. /\ file' = [p \in Pos |-> Hole] /\ mode' = "write" /\ cdMem' = <<>>
    BY <1>1 DEF ZipOpenCreate, TypeInv, FreshWhenClosed
  <2> QED
    BY <2>1 DEF KnownInv, Hole
<1>2. CASE EntryWriteClose
  <2>1. /\ Writing /\ Room(0) /\ mode' = mode
        /\ file' = s.file /\ cdMem' = s.cdMem /\ entries' = s.entries
    BY <1>2 DEF EntryWriteClose
  <2>2. /\ \A q \in Pos : s.file[q].t = "central" => Known(s.entries, s.file[q])
        /\ \A i \in 1..Len(s.cdMem) :
             s.cdMem[i].t = "central" => Known(s.entries, s.cdMem[i])
    BY <2>1, SettledKnown
  <2> HIDE DEF s
  <2> QED
    BY <2>1, <2>2 DEF KnownInv, Writing
<1>3. ASSUME NEW name \in Names, NEW u \in Declared, NEW z \in Zip64Modes, NEW dd \in Descriptors,
             EntryWriteOpen(name, u, z, dd)
      PROVE  KnownInv'
  <2> DEFINE i == [name |-> name, dd |-> dd, zip64 |-> z, crc |-> <<>>, csize |-> 0,
                   usize |-> u, off |-> s.pos]
             h == LocalHeader(i, LocalZip64(i))
             k == IF dd THEN 3 ELSE 2
  <2>1. /\ Writing /\ Room(k) /\ mode' = mode /\ k \in Nat
        /\ cdMem' = s.cdMem /\ entries' = s.entries
        /\ file' = [s.file EXCEPT ![s.pos] = h] \/ file' = s.file
    BY <1>3 DEF EntryWriteOpen
  <2> HIDE DEF k
  <2>2. /\ s.file \in [Pos -> Cell]
        /\ \A q \in Pos : s.file[q].t = "central" => Known(s.entries, s.file[q])
        /\ \A j \in 1..Len(s.cdMem) :
             s.cdMem[j].t = "central" => Known(s.entries, s.cdMem[j])
    BY <2>1, SettledKnown, SettledType
  <2>3. h.t = "local"
    BY DEF LocalHeader
  <2> HIDE DEF s, h, i
  <2>4. \A q \in Pos : file'[q] = s.file[q] \/ file'[q].t = "local"
    BY <2>1, <2>2, <2>3
  <2> QED
    BY <2>1, <2>2, <2>4 DEF KnownInv, Writing
<1>4. ASSUME NEW c \in Chunks, EntryWrite(c) PROVE KnownInv'
  <2>1. /\ UNCHANGED <<mode, cdMem, entries>> /\ Writing
        /\ file' = [file EXCEPT ![pos] = DataCell(c)]
    BY <1>4 DEF EntryWrite, dirVars, ghostVars
  <2>2. DataCell(c).t = "data" /\ file \in [Pos -> Cell]
    BY DEF DataCell, TypeInv, FileType
  <2>3. \A q \in Pos : file'[q] = file[q] \/ file'[q].t = "data"
    BY <2>1, <2>2
  <2> QED
    BY <2>1, <2>3 DEF KnownInv, Writing
<1>5. CASE ZipCloseWrite
  <2> DEFINE cells == IF s.ok THEN DirectoryOf(s) ELSE <<>>
  <2>1. /\ Writing /\ Room(0) /\ file' = Written(s.file, s.pos, cells)
        /\ entries' = s.entries /\ mode' = "none" /\ cdMem' = <<>>
    BY <1>5 DEF ZipCloseWrite, FreshHandle
  <2>2. /\ s.pos \in Int
        /\ \A q \in Pos : s.file[q].t = "central" => Known(s.entries, s.file[q])
        /\ \A i \in 1..Len(s.cdMem) :
             s.cdMem[i].t = "central" => Known(s.entries, s.cdMem[i])
        /\ \A i \in 1..Len(DirectoryOf(s)) :
             \/ i \in 1..Len(s.cdMem) /\ DirectoryOf(s)[i] = s.cdMem[i]
             \/ /\ i = Len(s.cdMem) + 1
                /\ DirectoryOf(s)[i] = EndRecord(s.number, Len(s.cdMem), s.pos)
    BY <2>1, SettledKnown, SettledType, DirectoryCells
  <2> HIDE DEF s
  <2>3. \A i \in 1..Len(cells) : cells[i].t = "central" => Known(s.entries, cells[i])
    BY <2>2 DEF EndRecord
  <2> HIDE DEF cells
  <2>4. \A q \in Pos : file'[q].t = "central" => Known(s.entries, file'[q])
    BY <2>1, <2>2, <2>3, WrittenKnown
  <2> QED
    BY <2>1, <2>4 DEF KnownInv
<1> QED
  BY <1>1, <1>2, <1>3, <1>4, <1>5, AppendKnown DEF WriteNext

LEMMA GotoKnown ==
  ASSUME TypeInv, KnownInv, ~opened, NEW p \in Int, Goto(p) PROVE KnownInv'
<1>1. /\ UNCHANGED <<file, mode, cdMem, entries, opened>>
      /\ CdCell(p).t = "central" => info' = InfoOf(CdCell(p)) /\ scanned' = TRUE
      /\ CdCell(p).t # "central" => scanned' = FALSE
  BY DEF Goto, fileVars, ghostVars
<1>2. ASSUME mode' = "read", scanned' PROVE Known(entries, info')
  <2>1. ~cdInMem /\ flen \in 0..Capacity
    BY <1>1, <1>2 DEF TypeInv, InMemoryWhenWriting, Writing, FileType
  <2>2. CdCell(p) = At(file, flen, p) /\ CdCell(p).t = "central"
    BY <1>1, <1>2, <2>1 DEF CdCell, CdCellAt
  <2>3. p \in Pos /\ CdCell(p) = file[p]
    BY <2>1, <2>2, CapacityType DEF At, Hole, Pos
  <2>4. Known(entries, file[p]) /\ info' = InfoOf(file[p])
    BY <1>1, <2>2, <2>3 DEF KnownInv
  <2>5. info'.name = file[p].name /\ info'.crc = file[p].crc
    BY <2>4 DEF InfoOf
  <2> QED
    BY <2>4, <2>5 DEF Known
<1> QED
  BY <1>1, <1>2 DEF KnownInv

LEMMA LookKnown == ASSUME TypeInv, KnownInv, LookNext PROVE KnownInv'
<1>1. ~opened /\ cdStart \in Nat /\ cdCur \in Nat
  BY DEF LookNext, GotoFirstEntry, GotoNextEntry, GotoEntry, LocateEntry, TypeInv, DirType
<1>2. ASSUME UNCHANGED <<file, mode, cdMem, info, scanned, opened, entries>> PROVE KnownInv'
  BY <1>2 DEF KnownInv
<1>3. CASE GotoFirstEntry
  BY <1>1, <1>3, GotoKnown DEF GotoFirstEntry
<1>4. CASE GotoNextEntry
  <2>1. cdCur + 1 \in Int
    BY <1>1
  <2> QED
    BY <1>1, <1>4, <2>1, GotoKnown DEF GotoNextEntry
<1>5. ASSUME NEW p \in Pos, GotoEntry(p) PROVE KnownInv'
  <2>1. p \in Int
    BY DEF Pos
  <2>2. CASE p < cdStart \/ p > cdStart + cdSize
    BY <1>2, <1>5, <2>2 DEF GotoEntry, fileVars, dirVars, entryVars, ghostVars
  <2>3. CASE ~(p < cdStart \/ p > cdStart + cdSize)
    BY <1>1, <1>5, <2>1, <2>3, GotoKnown DEF GotoEntry
  <2> QED
    BY <2>2, <2>3
<1>6. ASSUME NEW n \in Names, LocateEntry(n) PROVE KnownInv'
  <2>1. CASE \E p \in Int : Goto(p)
    BY <1>1, <2>1, GotoKnown
  <2>2. CASE UNCHANGED <<fileVars, mode, pos, dirVars, cdCur, entryVars, ghostVars>>
    BY <1>2, <2>2 DEF fileVars, dirVars, entryVars, ghostVars
  <2>3. Walk \subseteq Int /\ WalkEnd \subseteq Int
    BY <1>1, CapacityType DEF Walk, WalkEnd
  <2> QED
    BY <1>6, <2>1, <2>2, <2>3 DEF LocateEntry
<1> QED
  BY <1>3, <1>4, <1>5, <1>6 DEF LookNext

LEMMA ReadKnown == ASSUME TypeInv, KnownInv, ReadNext PROVE KnownInv'
<1>1. CASE ZipOpenRead
  <2>1. UNCHANGED <<file, cdMem, entries, info, scanned, opened>> /\ mode = "none"
    BY <1>1 DEF ZipOpenRead, fileVars, entryVars, ghostVars
  <2>2. ~scanned /\ ~opened
    BY <2>1 DEF TypeInv, FreshWhenClosed
  <2> QED
    BY <2>1, <2>2 DEF KnownInv
<1>2. CASE ZipCloseRead
  <2>1. UNCHANGED <<file, entries>> /\ mode' = "none" /\ cdMem' = <<>>
    BY <1>2 DEF ZipCloseRead, FreshHandle, fileVars, ghostVars
  <2> QED
    BY <2>1, QuietKnown
<1>3. CASE EntryReadOpen \/ EntryRead \/ \E w \in BOOLEAN : EntryReadClose(w)
  <2>1. /\ UNCHANGED <<file, mode, cdMem, info, scanned, entries>>
        /\ opened' => opened \/ scanned
    BY <1>3 DEF EntryReadOpen, EntryRead, EntryReadClose, fileVars, dirVars, ghostVars
  <2> QED
    BY <2>1 DEF KnownInv
<1> QED
  BY <1>1, <1>2, <1>3 DEF ReadNext

LEMMA EnvKnown == ASSUME TypeInv, KnownInv, EnvNext PROVE KnownInv'
<1>1. CASE Crash
  <2>1. UNCHANGED <<file, entries>> /\ mode' = "none" /\ cdMem' = <<>>
    BY <1>1 DEF Crash, FreshHandle, fileVars
  <2> QED
    BY <2>1, QuietKnown
<1>2. ASSUME NEW k \in 1..(Capacity - 1), CrashInClose(k) PROVE KnownInv'
  <2> DEFINE cells == SubSeq(DirectoryOf(Settled), 1, k)
  <2>1. mode' = "none" /\ cdMem' = <<>> /\ entries' = entries
    BY <1>2 DEF CrashInClose, FreshHandle
  <2>2. /\ file' = Written(file, pos, cells) /\ Len(cells) = k
        /\ \A i \in 1..k : i \in 1..Len(cdMem) /\ cells[i] = cdMem[i]
    BY <1>2, StoppedClose
  <2>3. pos \in Int
    BY DEF TypeInv, FileType
  <2> HIDE DEF cells
  <2>4. \A q \in Pos : file'[q].t = "central" => Known(entries, file'[q])
    BY <2>2, <2>3, WrittenKnown DEF KnownInv
  <2> QED
    BY <2>1, <2>4 DEF KnownInv
<1>3. ASSUME NEW k \in 1..MaxStub, NEW c \in Chunks, Prepend(k, c) PROVE KnownInv'
  <2>1. /\ file' = [q \in Pos |-> IF q < k THEN DataCell(c) ELSE At(file, flen, q - k)]
        /\ UNCHANGED <<mode, cdMem, entries>> /\ mode = "none"
    BY <1>3 DEF Prepend, dirVars
  <2>2. ASSUME NEW q \in Pos, file'[q].t = "central" PROVE Known(entries, file'[q])
    <3>1. CASE q < k
      BY <2>1, <2>2, <3>1 DEF DataCell
    <3>2. CASE ~(q < k)
      <4>1. file'[q] = At(file, flen, q - k) /\ flen \in 0..Capacity
        BY <2>1, <3>2 DEF TypeInv, FileType
      <4>2. q - k \in 0..(flen - 1) /\ file'[q] = file[q - k]
        BY <2>2, <4>1 DEF At, Hole
      <4>3. q - k \in Pos
        BY <4>1, <4>2, CapacityType DEF Pos
      <4> QED
        BY <2>2, <4>2, <4>3 DEF KnownInv
    <3> QED
      BY <3>1, <3>2
  <2> QED
    BY <2>1, <2>2 DEF KnownInv
<1> QED
  BY <1>1, <1>2, <1>3 DEF EnvNext

LEMMA NextKnown == ASSUME TypeInv, KnownInv, [Next]_vars PROVE KnownInv'
<1>1. CASE UNCHANGED vars
  <2>1. UNCHANGED <<file, mode, cdMem, info, scanned, opened, entries>>
    BY <1>1 DEF vars, fileVars, dirVars, entryVars, ghostVars
  <2> QED
    BY <2>1 DEF KnownInv
<1> QED
  BY <1>1, WriteKnown, LookKnown, ReadKnown, EnvKnown DEF Next

\* Whatever sessions died and whatever callers do: what an open without recovery
\* still presents as an entry, and reads with a matching CRC, is an entry that had
\* been closed.
THEOREM CrashNeverForges == Spec => CrashForgesNothing
<1>1. Init => TypeInv /\ KnownInv
  BY InitType DEF Init, KnownInv, Hole
<1>2. TypeInv /\ KnownInv /\ [Next]_vars => TypeInv' /\ KnownInv'
  BY NextType, NextKnown
<1>3. ASSUME TypeInv, KnownInv, NEW w \in BOOLEAN, EntryReadClose(w), ret' = "OK",
             Len(crc) = info.csize
      PROVE  \E i \in 1..Len(entries) : entries[i] = [name |-> info.name, data |-> crc]
  <2>1. mode = "read" /\ opened /\ crc = info.crc
    BY <1>3 DEF EntryReadClose
  <2>2. Known(entries, info)
    BY <1>3, <2>1, Zenon DEF KnownInv
  <2> QED
    BY <2>1, <2>2, Zenon DEF Known
<1>4. TypeInv /\ KnownInv /\ [Next]_vars =>
        [ \A w \in BOOLEAN :
            ~Good /\ EntryReadClose(w) /\ ret' = "OK" /\ Len(crc) = info.csize =>
              \E i \in 1..Len(entries) :
                 entries[i] = [name |-> info.name, data |-> crc] ]_vars
  BY <1>3
<1> QED
  BY <1>1, <1>2, <1>4, PTL DEF CrashForgesNothing, Spec

-----------------------------------------------------------------------------
(* Nothing is written where committed entries are *)

LEMMA DescribedSurvives ==
  ASSUME NEW f, NEW c, NEW sh \in Int, NEW e \in Entry, NEW b \in Int,
         DescribedBelow(f, c, sh, e, b)
  PROVE  SurvivesBelow(f, e, b)
<1> DEFINE n == Len(e.data)
           p == c.off + sh
           dd == c.dd
<1>1. /\ c \in Cell /\ c.t = "central"
      /\ At(f, Capacity, p).t = "local" /\ At(f, Capacity, p).name = e.name
      /\ At(f, Capacity, p).dd = dd
      /\ \A i \in 1..n : At(f, Capacity, p + i) = DataCell(e.data[i])
      /\ p + n + (IF dd THEN 1 ELSE 0) < b
      /\ IF dd
         THEN /\ At(f, Capacity, p + n + 1).t = "descriptor"
              /\ At(f, Capacity, p + n + 1).crc = e.data
         ELSE At(f, Capacity, p).crc = e.data /\ At(f, Capacity, p).csize = n
  BY DEF DescribedBelow, Describes
<1>2. c.off \in Nat /\ dd \in BOOLEAN
  BY <1>1, CentralFields
<1>3. p \in Pos /\ At(f, Capacity, p) = f[p]
  BY <1>1, <1>2, NotAHole
<1> HIDE DEF p, dd
<1> QED
  BY <1>1, <1>2, <1>3 DEF SurvivesBelow, n

LEMMA SurvivesAgain ==
  ASSUME NEW f, NEW g, NEW e \in Entry, NEW b \in Int, SurvivesBelow(f, e, b),
         \A q \in Pos : q < b => g[q] = f[q]
  PROVE  SurvivesBelow(g, e, b)
<1> DEFINE n == Len(e.data)
<1>1. n \in Nat
  BY EntryFields
<1>2. PICK p \in Pos, dd \in BOOLEAN :
        /\ f[p].t = "local" /\ f[p].name = e.name /\ f[p].dd = dd
        /\ \A i \in 1..n : At(f, Capacity, p + i) = DataCell(e.data[i])
        /\ IF dd THEN /\ At(f, Capacity, p + n + 1).t = "descriptor"
                      /\ At(f, Capacity, p + n + 1).crc = e.data
                 ELSE f[p].crc = e.data /\ f[p].csize = n
        /\ p + n + (IF dd THEN 1 ELSE 0) < b
  BY DEF SurvivesBelow
<1> HIDE DEF n
<1>3. p \in Nat
  BY CapacityType DEF Pos
<1>4. \A q \in Nat : q < b => At(g, Capacity, q) = At(f, Capacity, q)
  BY CapacityType DEF At, Pos
<1>5. g[p] = f[p]
  <2>1. p < b
    BY <1>1, <1>2, <1>3
  <2> QED
    BY <2>1
<1>6. \A i \in 1..n : At(g, Capacity, p + i) = DataCell(e.data[i])
  <2> TAKE i \in 1..n
  <2>1. p + i \in Nat /\ p + i < b
    BY <1>1, <1>2, <1>3
  <2> QED
    BY <1>2, <1>4, <2>1
<1>7. dd => At(g, Capacity, p + n + 1) = At(f, Capacity, p + n + 1)
  <2> SUFFICES ASSUME dd PROVE At(g, Capacity, p + n + 1) = At(f, Capacity, p + n + 1)
    OBVIOUS
  <2>1. p + n + 1 \in Nat /\ p + n + 1 < b
    BY <1>1, <1>2, <1>3
  <2> QED
    BY <1>4, <2>1
<1> QED
  BY <1>2, <1>5, <1>6, <1>7 DEF SurvivesBelow, n

LEMMA BelowSurvives ==
  ASSUME NEW f, NEW e, NEW b, SurvivesBelow(f, e, b) PROVE Survives(f, e)
<1> DEFINE n == Len(e.data)
           P(p, dd) ==
             /\ f[p].t = "local" /\ f[p].name = e.name /\ f[p].dd = dd
             /\ \A i \in 1..n : At(f, Capacity, p + i) = DataCell(e.data[i])
             /\ IF dd THEN /\ At(f, Capacity, p + n + 1).t = "descriptor"
                           /\ At(f, Capacity, p + n + 1).crc = e.data
                      ELSE f[p].crc = e.data /\ f[p].csize = n
<1>1. \E p \in Pos, dd \in BOOLEAN : P(p, dd) /\ p + n + (IF dd THEN 1 ELSE 0) < b
  BY Zenon DEF SurvivesBelow
<1>2. Survives(f, e) <=> \E p \in Pos, dd \in BOOLEAN : P(p, dd)
  BY Zenon DEF Survives
<1> HIDE DEF P
<1> QED
  BY <1>1, <1>2

\* A finished archive: its entries lie below its directory, and its only end record
\* is the last cell.
LEMMA FinishedKept ==
  ASSUME TypeInv, FinishedInv, NoDirectoryBelow(file, DirStart)
  PROVE  /\ DirStart \in 0..Capacity
         /\ \A i \in 1..Len(entries) : SurvivesBelow(file, entries[i], DirStart)
         /\ \A q \in 0..(flen - 1) : file[q].t = "end" => q = flen - 1
         /\ stub = 0 => EndsAbove(file, flen, DirStart)
<1> DEFINE n == Len(entries)
           D == DirStart
<1>1. /\ file \in [Pos -> Cell] /\ flen \in 0..Capacity /\ entries \in Seq(Entry)
      /\ n \in Nat /\ D \in Nat /\ stub \in Nat /\ flen = D + n + 1
      /\ NoDirectoryBelow(file, D)
      /\ \A i \in 1..n : DescribedBelow(file, file[D + i - 1], stub, entries[i], D)
  BY FinishedFacts
<1>2. file[flen - 1].size = n /\ file[flen - 1].off = D - stub
  BY DEF FinishedInv
<1> HIDE DEF n, D
<1>3. ASSUME NEW i \in 1..n PROVE SurvivesBelow(file, entries[i], D)
  <2>1. DescribedBelow(file, file[D + i - 1], stub, entries[i], D) /\ entries[i] \in Entry
    BY <1>1 DEF n
  <2> QED
    BY <1>1, <2>1, DescribedSurvives
<1>4. ASSUME NEW q \in 0..(flen - 1), file[q].t = "end" PROVE q = flen - 1
  <2>1. q \in Pos /\ q \in Int
    BY <1>1, CapacityType DEF Pos
  <2>2. ~(q < D)
    BY <1>1, <1>4, <2>1 DEF NoDirectoryBelow
  <2>3. At(file, flen, q) = file[q]
    BY DEF At
  <2>4. q \notin D..(flen - 2)
    BY <1>4, <2>1, <2>3, HeadersAreHere DEF D
  <2> QED
    BY <1>1, <2>2, <2>4
<1>5. ASSUME stub = 0 PROVE EndsAbove(file, flen, D)
  <2> SUFFICES ASSUME NEW q \in 0..(flen - 1), file[q].t = "end"
               PROVE  file[q].off >= D /\ q - file[q].size >= D
    BY DEF EndsAbove
  <2>1. q = flen - 1
    BY <1>4
  <2>2. file[q].off = D /\ file[q].size = n
    BY <1>1, <1>2, <1>5, <2>1
  <2>3. q - n = D
    BY <1>1, <2>1
  <2> QED
    BY <1>1, <2>2, <2>3
<1>6. D \in 0..Capacity
  BY <1>1, CapacityType
<1> QED
  BY <1>3, <1>4, <1>5, <1>6 DEF n, D

\* An open for appending never begins below what no end record leads below.
LEMMA AppendsAbove ==
  ASSUME NEW f \in [Pos -> Cell], NEW n \in 0..Capacity, NEW b \in Int,
         EndsAbove(f, n, b), ReadCd(f, n).ok
  PROVE  ReadCd(f, n).off >= b /\ n >= b
<1> DEFINE p == CHOOSE q \in LastEnds(f, n) : TRUE
           d == DirectoryAt(f, n, p)
<1> HIDE DEF p, d
<1>1. LastEnds(f, n) # {}
  BY DEF ReadCd, NoDirectory
<1>2. p \in LastEnds(f, n)
  BY <1>1, Zenon DEF p
<1>3. p \in 0..(n - 1) /\ f[p].t = "end"
  BY <1>2 DEF LastEnds, Ends
<1>4. ReadCd(f, n).off = d.off
  BY <1>1 DEF ReadCd, p, d
<1>5. f[p].off >= b /\ p - f[p].size >= b
  BY <1>3 DEF EndsAbove
<1>6. d.off = f[p].off \/ d.off = p - f[p].size
  BY DEF DirectoryAt, d
<1>7. p \in Pos
  BY <1>3, CapacityType DEF Pos
<1>8. f[p].size \in Nat
  <2>1. f[p] \in Cell
    BY <1>7
  <2> QED
    BY <1>3, <2>1 DEF Cell, Hole
<1>9. n >= b
  BY <1>3, <1>5, <1>8
<1> QED
  BY <1>4, <1>5, <1>6, <1>9

\* Closing an entry leaves the end records there are.
LEMMA SettledEnds ==
  ASSUME TypeInv, Writing, NEW k \in Nat, Room(k), pos <= flen
  PROVE  LET s == Settled IN
         /\ s.pos \in Nat /\ s.flen \in Nat /\ pos <= s.pos /\ s.pos <= s.flen
         /\ \A q \in 0..(s.flen - 1) :
              s.file[q].t = "end" => q \in 0..(flen - 1) /\ s.file[q] = file[q]
<1> DEFINE s == Settled
<1>1. /\ file \in [Pos -> Cell] /\ flen \in 0..Capacity /\ flen \in Nat /\ pos \in Nat
      /\ cdMem \in Seq(Cell) /\ Len(cdMem) \in Nat /\ Capacity \in Nat
  BY CapacityType DEF TypeInv, FileType, MemType
<1>2. s.flen \in 0..Capacity /\ s.pos \in Nat
  BY SettledType
<1>3. \A q \in Pos :
        s.file[q] = file[q] \/ s.file[q].t \in {"local", "descriptor"}
  BY SettledCells
<1>4. CASE ~opened
  <2>1. s.file = file /\ s.flen = flen /\ s.pos = pos
    BY <1>4, SettledFields
  <2> QED
    BY <1>1, <2>1
<1>5. CASE opened
  <2>1. s.file = ClosedFile /\ s.flen = Larger(flen, ClosedPos) /\ s.pos = ClosedPos
    BY <1>5, SettledFields
  <2>2. ClosedPos = IF info.dd THEN pos + 1 ELSE pos
    BY DEF ClosedPos
  <2>3. pos <= ClosedPos /\ ClosedPos <= pos + 1 /\ ClosedPos \in Nat
    BY <1>1, <2>2
  <2>4. ClosedPos <= Larger(flen, ClosedPos) /\ Larger(flen, ClosedPos) \in Nat
    BY <1>1, <2>3 DEF Larger
  <2>5. ASSUME NEW q \in 0..(s.flen - 1), s.file[q].t = "end"
        PROVE  q \in 0..(flen - 1) /\ s.file[q] = file[q]
    <3>1. q \in Pos /\ q \in Nat
      BY <1>1, <1>2 DEF Pos
    <3>2. s.file[q] = file[q]
      BY <1>3, <2>5, <3>1
    <3>3. q < Larger(flen, ClosedPos)
      BY <1>2, <2>1, <3>1
    <3>4. CASE q < flen
      BY <1>1, <3>1, <3>2, <3>4
    <3>5. CASE ~(q < flen)
      <4>1. q < ClosedPos
        BY <1>1, <2>3, <3>1, <3>3, <3>5 DEF Larger
      <4>2. q = pos /\ info.dd
        BY <1>1, <2>2, <3>1, <3>5, <4>1
      <4>3. s.file = [file EXCEPT ![pos] = Descriptor(LocalZip64(info), crc, Len(crc))]
        BY <2>1, <4>2 DEF ClosedFile
      <4>4. s.file[q].t = "descriptor"
        BY <1>1, <3>1, <4>2, <4>3 DEF Descriptor
      <4> QED
        BY <2>5, <4>4
    <3> QED
      BY <3>4, <3>5
  <2> QED
    BY <1>2, <2>1, <2>3, <2>4, <2>5
<1> QED
  BY <1>4, <1>5

\* A cell that is none written at p.
LEMMA PutEnds ==
  ASSUME NEW f \in [Pos -> Cell], NEW n \in Nat, NEW p \in Pos, p <= n, NEW c, c.t # "end"
  PROVE  \A q \in 0..(Larger(n, p + 1) - 1) :
           [f EXCEPT ![p] = c][q].t = "end" =>
             q \in 0..(n - 1) /\ [f EXCEPT ![p] = c][q] = f[q]
<1> DEFINE g == [f EXCEPT ![p] = c]
<1>1. p \in Nat /\ g[p] = c /\ \A q \in Nat : q # p => g[q] = f[q]
  BY CapacityType DEF Pos
<1> HIDE DEF g
<1> SUFFICES ASSUME NEW q \in 0..(Larger(n, p + 1) - 1), g[q].t = "end"
             PROVE  q \in 0..(n - 1) /\ g[q] = f[q]
  BY DEF g
<1>2. q \in Nat /\ q < Larger(n, p + 1)
  BY <1>1 DEF Larger
<1>3. q # p
  BY <1>1
<1>4. q < n
  BY <1>1, <1>2, <1>3 DEF Larger
<1> QED
  BY <1>1, <1>2, <1>3, <1>4

\* The cells of a directory written at p.
LEMMA WrittenCell ==
  ASSUME NEW f, NEW n \in Nat, NEW p \in Nat, p <= n, NEW cells, Len(cells) \in Nat,
         NEW q \in Pos, q < Larger(n, p + Len(cells))
  PROVE  \/ /\ q - p + 1 \in 1..Len(cells) /\ q >= p
            /\ Written(f, p, cells)[q] = cells[q - p + 1]
         \/ q \in 0..(n - 1) /\ Written(f, p, cells)[q] = f[q]
<1> DEFINE m == Len(cells)
           w == Written(f, p, cells)[q]
           i == q - p + 1
<1>1. w = IF i \in 1..m THEN cells[i] ELSE f[q]
  BY DEF Written
<1>2. q \in Nat /\ m \in Nat /\ q < Larger(n, p + m)
  BY CapacityType DEF Pos
<1> HIDE DEF m, w
<1>3. CASE i \in 1..m
  <2>1. q >= p
    BY <1>2, <1>3
  <2> QED
    BY <1>1, <1>3, <2>1 DEF m, w
<1>4. CASE i \notin 1..m
  <2>1. q \in 0..(n - 1)
    BY <1>2, <1>4 DEF Larger
  <2> QED
    BY <1>1, <1>4, <2>1 DEF m, w
<1> QED
  BY <1>3, <1>4

LEMMA WrittenBelow ==
  ASSUME NEW f, NEW p \in Nat, NEW cells, Len(cells) \in Nat, NEW q \in Pos, q < p
  PROVE  Written(f, p, cells)[q] = f[q]
<1>1. q - p + 1 \notin 1..Len(cells)
  BY CapacityType DEF Pos
<1> QED
  BY <1>1 DEF Written

LEMMA EndFields ==
  ASSUME NEW c \in Cell, c.t = "end"
  PROVE  c.number \in Nat /\ c.size \in Nat /\ c.off \in Nat
BY DEF Cell, Hole

LEMMA SettledKept ==
  ASSUME TypeInv, Writing, NEW k \in Nat, Room(k), NEW b \in 0..Capacity, KeptBelow(b)
  PROVE  LET s == Settled IN
         /\ b <= s.pos /\ s.pos <= s.flen
         /\ \A i \in 1..Len(committed) : SurvivesBelow(s.file, committed[i], b)
         /\ EndsAbove(s.file, s.flen, b) /\ MemAbove(s.cdMem, s.pos, b)
<1> DEFINE s == Settled
<1>1. /\ file \in [Pos -> Cell] /\ flen \in 0..Capacity /\ pos \in Nat /\ b \in Nat
      /\ cdMem \in Seq(Cell) /\ Len(cdMem) \in Nat /\ committed \in Seq(Entry)
  BY CapacityType DEF TypeInv, FileType, MemType, GhostType
<1>2. /\ \A i \in 1..Len(committed) : SurvivesBelow(file, committed[i], b)
      /\ EndsAbove(file, flen, b) /\ b <= pos /\ pos <= flen /\ MemAbove(cdMem, pos, b)
      /\ opened => b <= info.off
  BY DEF KeptBelow
<1>3. /\ s.pos \in Nat /\ s.flen \in Nat /\ pos <= s.pos /\ s.pos <= s.flen
      /\ \A q \in 0..(s.flen - 1) :
           s.file[q].t = "end" => q \in 0..(flen - 1) /\ s.file[q] = file[q]
  BY <1>2, SettledEnds
<1>4. /\ \A q \in Pos : s.file[q] = file[q] \/ (opened /\ q \in {pos, info.off})
      /\ \A i \in 1..Len(s.cdMem) :
           \/ i \in 1..Len(cdMem) /\ s.cdMem[i] = cdMem[i]
           \/ s.cdMem[i] = CentralHeader(FinalInfo)
  BY SettledCells
<1> HIDE DEF s
<1>5. \A q \in Pos : q < b => s.file[q] = file[q]
  <2> TAKE q \in Pos
  <2> SUFFICES ASSUME q < b PROVE s.file[q] = file[q]
    OBVIOUS
  <2>1. q # pos
    BY <1>1, <1>2, CapacityType DEF Pos
  <2>2. opened => q # info.off
    BY <1>1, <1>2, CapacityType DEF Pos
  <2> QED
    BY <1>4, <2>1, <2>2
<1>6. \A i \in 1..Len(committed) : SurvivesBelow(s.file, committed[i], b)
  <2> TAKE i \in 1..Len(committed)
  <2>1. committed[i] \in Entry /\ SurvivesBelow(file, committed[i], b) /\ b \in Int
    BY <1>1, <1>2
  <2> QED
    BY <1>5, <2>1, SurvivesAgain
<1>7. EndsAbove(s.file, s.flen, b)
  BY <1>2, <1>3 DEF EndsAbove
<1>8. MemAbove(s.cdMem, s.pos, b)
  <2> SUFFICES ASSUME NEW i \in 1..Len(s.cdMem), s.cdMem[i].t = "end"
               PROVE  s.cdMem[i].off >= b /\ s.pos + i - 1 - s.cdMem[i].size >= b
    BY DEF MemAbove
  <2>1. i \in 1..Len(cdMem) /\ s.cdMem[i] = cdMem[i]
    BY <1>4 DEF CentralHeader
  <2> DEFINE c == s.cdMem[i]
  <2>2. c \in Cell /\ c.t = "end" /\ c.off >= b /\ pos + i - 1 - c.size >= b
    <3> DEFINE x == cdMem[i]
    <3>1. x \in Cell /\ x.t = "end" /\ x.off >= b /\ pos + i - 1 - x.size >= b
      BY <1>1, <1>2, <2>1 DEF MemAbove
    <3>2. c = x
      BY <2>1
    <3> HIDE DEF c, x
    <3> QED
      BY <3>1, <3>2
  <2> HIDE DEF c
  <2>3. c.size \in Nat
    BY <2>2, EndFields
  <2>4. i \in Int /\ pos \in Int /\ s.pos \in Int /\ pos <= s.pos /\ b \in Int
        /\ c.size \in Int
    BY <1>1, <1>3, <2>1, <2>3
  <2>5. s.pos + i - 1 - c.size >= b
    BY <2>2, <2>4
  <2> QED
    BY <2>2, <2>5 DEF c
<1>9. b <= s.pos
  BY <1>1, <1>2, <1>3
<1> QED
  BY <1>3, <1>6, <1>7, <1>8, <1>9 DEF s

\* A directory written at p.
LEMMA ClosedEnds ==
  ASSUME NEW f, NEW n \in 0..Capacity, NEW p \in Nat, p <= n, NEW b \in Int,
         NEW cells \in Seq(Cell), Len(cells) \in Nat, p + Len(cells) <= Capacity,
         EndsAbove(f, n, b), MemAbove(cells, p, b)
  PROVE  EndsAbove(Written(f, p, cells), Larger(n, p + Len(cells)), b)
<1> DEFINE g == Written(f, p, cells)
           m == Larger(n, p + Len(cells))
<1> SUFFICES ASSUME NEW q \in 0..(m - 1), g[q].t = "end"
             PROVE  g[q].off >= b /\ q - g[q].size >= b
  BY DEF EndsAbove
<1>1. m \in Nat /\ m <= Capacity /\ Capacity \in Nat /\ n \in Nat
  BY CapacityType DEF Larger
<1>2. q \in Pos /\ q \in Nat /\ q < m
  BY <1>1 DEF Pos
<1> HIDE DEF g
<1>3. \/ /\ q - p + 1 \in 1..Len(cells) /\ g[q] = cells[q - p + 1]
      \/ q \in 0..(n - 1) /\ g[q] = f[q]
  BY <1>1, <1>2, WrittenCell DEF g
<1>4. CASE q \in 0..(n - 1) /\ g[q] = f[q]
  BY <1>4 DEF EndsAbove
<1>5. CASE q - p + 1 \in 1..Len(cells) /\ g[q] = cells[q - p + 1]
  <2> DEFINE i == q - p + 1
  <2>1. i \in 1..Len(cells) /\ p + i - 1 = q
    BY <1>2, <1>5
  <2> HIDE DEF i
  <2>2. g[q] = cells[i]
    BY <1>5 DEF i
  <2>3. g[q] \in Cell /\ cells[i] \in Cell
    BY <2>1, <2>2
  <2> DEFINE c == cells[i]
  <2>4. c.off >= b /\ p + i - 1 - c.size >= b /\ c.t = "end"
    BY <2>1, <2>2 DEF MemAbove
  <2>5. g[q] = c
    BY <2>2
  <2> HIDE DEF c
  <2>6. c.size \in Nat
    BY <2>3, <2>4, <2>5, EndFields
  <2>7. c.off >= b /\ q - c.size >= b
    BY <2>1, <2>4, <2>6
  <2> QED
    BY <2>5, <2>7
<1> QED
  BY <1>3, <1>4, <1>5

\* The directory a close writes leads an open to nothing below.
LEMMA DirectoryAbove ==
  ASSUME TypeInv, Writing, NEW k \in Nat, Room(k), NEW b \in 0..Capacity, KeptBelow(b)
  PROVE  MemAbove(DirectoryOf(Settled), Settled.pos, b)
<1> DEFINE s == Settled
           d == DirectoryOf(s)
<1>1. /\ b <= s.pos /\ MemAbove(s.cdMem, s.pos, b) /\ s.pos \in Nat
      /\ s.cdMem \in Seq(Cell) /\ Len(s.cdMem) \in Nat /\ b \in Nat
  BY SettledKept, SettledType, CapacityType
<1>2. \A i \in 1..Len(d) :
        \/ i \in 1..Len(s.cdMem) /\ d[i] = s.cdMem[i]
        \/ i = Len(s.cdMem) + 1 /\ d[i] = EndRecord(s.number, Len(s.cdMem), s.pos)
  BY DirectoryCells
<1> HIDE DEF s, d
<1> SUFFICES ASSUME NEW i \in 1..Len(d), d[i].t = "end"
             PROVE  d[i].off >= b /\ s.pos + i - 1 - d[i].size >= b
  BY DEF MemAbove, s, d
<1>3. CASE i \in 1..Len(s.cdMem) /\ d[i] = s.cdMem[i]
  BY <1>1, <1>3 DEF MemAbove
<1>4. CASE i = Len(s.cdMem) + 1 /\ d[i] = EndRecord(s.number, Len(s.cdMem), s.pos)
  <2> DEFINE m == Len(s.cdMem)
  <2>1. d[i].off = s.pos /\ d[i].size = m /\ i = m + 1 /\ m \in Nat
    BY <1>1, <1>4 DEF EndRecord
  <2> HIDE DEF m
  <2>2. s.pos + i - 1 - m = s.pos
    BY <1>1, <2>1
  <2> QED
    BY <1>1, <2>1, <2>2
<1> QED
  BY <1>2, <1>3, <1>4

\* What a step that leaves the file alone preserves.
LEMMA QuietKept ==
  ASSUME KeptInv, ~Writing, ~Writing',
         UNCHANGED <<file, flen, entries, committed, health, stub>>
  PROVE  KeptInv'
<1>1. Good' = Good
  BY DEF Good
<1>2. ASSUME NEW b \in 0..Capacity, KeptBelow(b)
      PROVE  KeptBelow(b)'
  BY <1>2 DEF KeptBelow
<1> QED
  BY <1>1, <1>2 DEF KeptInv

\* A session that does not reach the end of its close.
LEMMA KeptUnfinished ==
  ASSUME NEW b \in 0..Capacity, ~(Good' /\ ~Writing'), stub' = 0,
         \A i \in 1..Len(committed') : SurvivesBelow(file', committed'[i], b),
         EndsAbove(file', flen', b),
         Writing' => /\ b <= pos' /\ pos' <= flen' /\ MemAbove(cdMem', pos', b)
                     /\ opened' => b <= info'.off
  PROVE  KeptInv'
<1>1. KeptBelow(b)'
  BY DEF KeptBelow
<1> QED
  BY <1>1 DEF KeptInv

LEMMA CreateKept == ASSUME TypeInv, ZipOpenCreate PROVE KeptInv'
<1>1. /\ mode' = "write" /\ flen' = 0 /\ stub' = 0 /\ committed' = <<>>
      /\ pos' = 0 /\ cdMem' = <<>> /\ opened' = FALSE
  BY DEF ZipOpenCreate, TypeInv, FreshWhenClosed, entryVars
<1>2. 0 \in 0..Capacity
  BY CapacityType
<1>3. Writing'
  BY <1>1 DEF Writing
<1>4. EndsAbove(file', flen', 0) /\ MemAbove(cdMem', pos', 0)
  BY <1>1 DEF EndsAbove, MemAbove
<1> QED
  BY <1>1, <1>2, <1>3, <1>4, KeptUnfinished

\* Between sessions and while reading, the file has a bound that everything
\* committed is below and no end record leads below.
LEMMA KeptBetween ==
  ASSUME TypeInv, DirectoryInv, ClearInv, KeptInv, ~Writing, stub = 0
  PROVE  \E b \in 0..Capacity :
           /\ \A i \in 1..Len(committed) : SurvivesBelow(file, committed[i], b)
           /\ EndsAbove(file, flen, b)
<1>1. CASE Good
  <2>1. FinishedInv /\ committed = entries /\ NoDirectoryBelow(file, DirStart)
    BY <1>1 DEF DirectoryInv, ClearInv, KeptInv
  <2> QED
    BY <2>1, FinishedKept
<1>2. CASE ~Good
  BY <1>2 DEF KeptInv, KeptBelow
<1> QED
  BY <1>1, <1>2

LEMMA AppendKept ==
  ASSUME CallerHabits = {}, TypeInv, DirectoryInv, ClearInv, KeptInv, ZipOpenAppend PROVE KeptInv'
<1> DEFINE d == ReadCd(file, flen)
           m == [i \in 1..d.size |-> file[d.off + i - 1]]
<1>1. /\ mode = "none" /\ ~Writing /\ stub = 0 /\ ~opened
      /\ UNCHANGED <<file, flen, entries, committed, stub, opened>>
      /\ d.ok => mode' = "append" /\ cdMem' = m /\ pos' = AppendAt(d)
      /\ ~d.ok => mode' = mode /\ health' = health
  BY DEF ZipOpenAppend, Writing, TypeInv, FreshWhenClosed, fileVars, entryVars
<1>2. CASE ~d.ok
  BY <1>1, <1>2, QuietKept DEF Writing
<1>3. CASE d.ok
  <2>1. file \in [Pos -> Cell] /\ flen \in 0..Capacity
    BY DEF TypeInv, FileType
  <2>2. PICK b \in 0..Capacity :
          /\ \A i \in 1..Len(committed) : SurvivesBelow(file, committed[i], b)
          /\ EndsAbove(file, flen, b)
    BY <1>1, KeptBetween
  <2>3. b \in Nat /\ flen \in Nat
    BY <2>1, CapacityType
  <2>4. d.off >= b /\ flen >= b /\ d.off \in Nat /\ d.size \in Nat /\ d.off + d.size < flen
    BY <1>3, <2>1, <2>2, <2>3, AppendsAbove, ReadCdType
  <2> HIDE DEF d
  <2>5. b <= AppendAt(d) /\ AppendAt(d) <= flen /\ d.off <= AppendAt(d)
        /\ AppendAt(d) \in Nat
    BY <2>3, <2>4 DEF AppendAt
  <2>6. Len(m) = d.size /\ \A i \in 1..d.size : m[i] = file[d.off + i - 1]
    BY <2>4
  <2> HIDE DEF m
  <2>7. MemAbove(m, AppendAt(d), b)
    <3> DEFINE p == AppendAt(d)
    <3>0. p \in Nat /\ d.off <= p
      BY <2>5
    <3> HIDE DEF p
    <3> SUFFICES ASSUME NEW i \in 1..Len(m), m[i].t = "end"
                 PROVE  m[i].off >= b /\ p + i - 1 - m[i].size >= b
      BY DEF MemAbove, p
    <3> DEFINE q == d.off + i - 1
               c == file[q]
    <3>1. q \in 0..(flen - 1) /\ q \in Pos /\ m[i] = c
      BY <2>1, <2>3, <2>4, <2>6, CapacityType DEF Pos
    <3> HIDE DEF c
    <3>2. c \in Cell /\ c.t = "end" /\ c.off >= b /\ q - c.size >= b
      BY <2>1, <2>2, <3>1 DEF EndsAbove, c
    <3>3. c.size \in Nat
      BY <3>2, EndFields
    <3>4. p + i - 1 - c.size >= b
      BY <2>3, <2>4, <2>6, <3>0, <3>2, <3>3
    <3> QED
      BY <3>1, <3>2, <3>4
  <2>8. Writing'
    BY <1>1, <1>3 DEF Writing
  <2> QED
    BY <1>1, <1>3, <2>2, <2>5, <2>7, <2>8, KeptUnfinished
<1> QED
  BY <1>2, <1>3

\* While an archive is written.
LEMMA KeptWriting ==
  ASSUME KeptInv, Writing
  PROVE  stub = 0 /\ \E b \in 0..Capacity : KeptBelow(b)
BY DEF KeptInv

LEMMA WriteCloseKept == ASSUME TypeInv, KeptInv, EntryWriteClose PROVE KeptInv'
<1> DEFINE s == Settled
<1>1. /\ Writing /\ Writing' /\ Room(0) /\ opened' = FALSE /\ committed' = committed
      /\ file' = s.file /\ flen' = s.flen /\ pos' = s.pos /\ cdMem' = s.cdMem
      /\ stub' = stub
  BY DEF EntryWriteClose, Writing
<1>2. PICK b \in 0..Capacity : KeptBelow(b)
  BY <1>1, KeptWriting
<1>3. stub = 0
  BY <1>1, KeptWriting
<1>4. /\ b <= s.pos /\ s.pos <= s.flen
      /\ \A i \in 1..Len(committed) : SurvivesBelow(s.file, committed[i], b)
      /\ EndsAbove(s.file, s.flen, b) /\ MemAbove(s.cdMem, s.pos, b)
  BY <1>1, <1>2, SettledKept
<1> HIDE DEF s
<1> QED
  BY <1>1, <1>3, <1>4, KeptUnfinished

\* A cell that is no end record, written at the end of what was written.
LEMMA KeptPut ==
  ASSUME NEW f \in [Pos -> Cell], NEW n \in Nat, NEW p \in Pos, p <= n,
         NEW c, c.t # "end", NEW b \in Nat, b <= p, NEW es \in Seq(Entry),
         \A i \in 1..Len(es) : SurvivesBelow(f, es[i], b), EndsAbove(f, n, b)
  PROVE  LET g == [f EXCEPT ![p] = c]
         IN /\ \A i \in 1..Len(es) : SurvivesBelow(g, es[i], b)
            /\ EndsAbove(g, Larger(n, p + 1), b)
            /\ p + 1 <= Larger(n, p + 1)
<1> DEFINE g == [f EXCEPT ![p] = c]
           m == Larger(n, p + 1)
<1>1. \A q \in 0..(m - 1) : g[q].t = "end" => q \in 0..(n - 1) /\ g[q] = f[q]
  BY PutEnds
<1>2. p \in Nat /\ \A q \in Pos : q < b => g[q] = f[q]
  BY CapacityType DEF Pos
<1> HIDE DEF g
<1>3. EndsAbove(g, m, b)
  <2> HIDE DEF m
  <2> QED
    BY <1>1 DEF EndsAbove
<1>4. ASSUME NEW i \in 1..Len(es) PROVE SurvivesBelow(g, es[i], b)
  <2>1. es[i] \in Entry /\ SurvivesBelow(f, es[i], b) /\ b \in Int
    OBVIOUS
  <2> QED
    BY <1>2, <2>1, SurvivesAgain
<1>5. p + 1 <= m
  BY <1>2 DEF Larger
<1> QED
  BY <1>3, <1>4, <1>5 DEF g

LEMMA WriteOpenKept ==
  ASSUME TypeInv, KeptInv,
         NEW name \in Names, NEW u \in Declared, NEW z \in Zip64Modes, NEW dd \in Descriptors,
         EntryWriteOpen(name, u, z, dd)
  PROVE  KeptInv'
<1> DEFINE s == Settled
           i == [name |-> name, dd |-> dd, zip64 |-> z, crc |-> <<>>, csize |-> 0,
                 usize |-> u, off |-> s.pos]
           h == LocalHeader(i, LocalZip64(i))
           k == IF dd THEN 3 ELSE 2
<1>1. /\ Writing /\ Writing' /\ Room(k) /\ committed' = committed /\ stub' = stub
      /\ cdMem' = s.cdMem
      /\ s.ok => /\ file' = [s.file EXCEPT ![s.pos] = h]
                 /\ pos' = s.pos + 1 /\ flen' = Larger(s.flen, s.pos + 1)
                 /\ info' = i
      /\ ~s.ok => /\ file' = s.file /\ pos' = s.pos /\ flen' = s.flen
                  /\ opened' = FALSE
  BY DEF EntryWriteOpen, Writing
<1>2. i.off = s.pos /\ h.t = "local" /\ k \in Nat /\ k > 0
  BY DEF LocalHeader
<1>3. PICK b \in 0..Capacity : KeptBelow(b)
  BY <1>1, KeptWriting
<1>4. stub = 0 /\ committed \in Seq(Entry) /\ b \in Nat
  BY <1>1, KeptWriting, CapacityType DEF TypeInv, GhostType
<1> HIDE DEF k
<1>5. /\ b <= s.pos /\ s.pos <= s.flen
      /\ \A j \in 1..Len(committed) : SurvivesBelow(s.file, committed[j], b)
      /\ EndsAbove(s.file, s.flen, b) /\ MemAbove(s.cdMem, s.pos, b)
  BY <1>1, <1>2, <1>3, SettledKept
<1>6. /\ s.file \in [Pos -> Cell] /\ s.flen \in 0..Capacity /\ s.pos \in Nat
      /\ s.cdMem \in Seq(Cell) /\ Len(s.cdMem) \in Nat
      /\ s.pos + k + Len(s.cdMem) + 1 <= Capacity
  BY <1>1, <1>2, SettledType
<1> HIDE DEF s, h, i
<1>7. s.pos \in Pos /\ s.flen \in Nat
  BY <1>2, <1>6, CapacityType DEF Pos
<1>8. CASE s.ok
  <2> DEFINE g == [s.file EXCEPT ![s.pos] = h]
             m == Larger(s.flen, s.pos + 1)
  <2>1. /\ \A j \in 1..Len(committed) : SurvivesBelow(g, committed[j], b)
        /\ EndsAbove(g, m, b) /\ s.pos + 1 <= m
    BY <1>2, <1>4, <1>5, <1>6, <1>7, KeptPut
  <2>2. MemAbove(s.cdMem, s.pos + 1, b)
    <3> SUFFICES ASSUME NEW j \in 1..Len(s.cdMem), s.cdMem[j].t = "end"
                 PROVE  s.cdMem[j].off >= b /\ s.pos + 1 + j - 1 - s.cdMem[j].size >= b
      BY DEF MemAbove
    <3> DEFINE c == s.cdMem[j]
    <3>1. c \in Cell /\ c.t = "end" /\ c.off >= b /\ s.pos + j - 1 - c.size >= b
      BY <1>5, <1>6 DEF MemAbove
    <3> HIDE DEF c
    <3>2. c.size \in Nat
      BY <3>1, EndFields
    <3>3. s.pos + 1 + j - 1 - c.size >= b
      BY <1>4, <1>6, <3>1, <3>2
    <3> QED
      BY <3>1, <3>3 DEF c
  <2>3. b <= s.pos + 1
    BY <1>4, <1>5, <1>6
  <2>4. /\ file' = g /\ flen' = m /\ pos' = s.pos + 1 /\ info'.off = s.pos
    BY <1>1, <1>2, <1>8
  <2> HIDE DEF g, m
  <2> QED
    BY <1>1, <1>4, <1>5, <2>1, <2>2, <2>3, <2>4, KeptUnfinished
<1>9. CASE ~s.ok
  BY <1>1, <1>4, <1>5, <1>9, KeptUnfinished
<1> QED
  BY <1>8, <1>9

LEMMA WriteKept ==
  ASSUME TypeInv, KeptInv, NEW c \in Chunks, EntryWrite(c) PROVE KeptInv'
<1> DEFINE h == DataCell(c)
<1>1. /\ Writing /\ Writing' /\ opened /\ Room(1) /\ pos' = pos + 1
      /\ file' = [file EXCEPT ![pos] = h] /\ flen' = Larger(flen, pos + 1)
      /\ UNCHANGED <<cdMem, info, committed, stub>>
  BY DEF EntryWrite, Writing, dirVars, ghostVars
<1>2. PICK b \in 0..Capacity : KeptBelow(b)
  BY <1>1, KeptWriting
<1>3. /\ stub = 0 /\ committed \in Seq(Entry) /\ b \in Nat /\ file \in [Pos -> Cell]
      /\ flen \in Nat /\ pos \in Nat /\ cdMem \in Seq(Cell) /\ Len(cdMem) \in Nat
      /\ Capacity \in Nat
  BY <1>1, KeptWriting, CapacityType DEF TypeInv, GhostType, FileType, MemType
<1>4. /\ \A i \in 1..Len(committed) : SurvivesBelow(file, committed[i], b)
      /\ EndsAbove(file, flen, b) /\ b <= pos /\ pos <= flen /\ MemAbove(cdMem, pos, b)
      /\ b <= info.off
  BY <1>1, <1>2 DEF KeptBelow
<1>5. pos \in Pos
  BY <1>1, <1>3 DEF Room, Pos
<1>6. h.t # "end"
  BY DEF DataCell
<1> HIDE DEF h
<1> DEFINE g == [file EXCEPT ![pos] = h]
           m == Larger(flen, pos + 1)
<1>7. /\ \A j \in 1..Len(committed) : SurvivesBelow(g, committed[j], b)
      /\ EndsAbove(g, m, b) /\ pos + 1 <= m
  BY <1>3, <1>4, <1>5, <1>6, KeptPut
<1>8. MemAbove(cdMem, pos + 1, b)
  <2> SUFFICES ASSUME NEW j \in 1..Len(cdMem), cdMem[j].t = "end"
               PROVE  cdMem[j].off >= b /\ pos + 1 + j - 1 - cdMem[j].size >= b
    BY DEF MemAbove
  <2> DEFINE x == cdMem[j]
  <2>1. x \in Cell /\ x.t = "end" /\ x.off >= b /\ pos + j - 1 - x.size >= b
    BY <1>3, <1>4 DEF MemAbove
  <2> HIDE DEF x
  <2>2. x.size \in Nat
    BY <2>1, EndFields
  <2>3. pos + 1 + j - 1 - x.size >= b
    BY <1>3, <2>1, <2>2
  <2> QED
    BY <2>1, <2>3 DEF x
<1>9. b <= pos + 1
  BY <1>3, <1>4
<1>10. file' = g /\ flen' = m
  BY <1>1
<1> HIDE DEF g, m
<1> QED
  BY <1>1, <1>3, <1>4, <1>7, <1>8, <1>9, <1>10, KeptUnfinished

\* A directory, or a part of one, written over a file and to the end of which the
\* session does not come.
LEMMA KeptWritten ==
  ASSUME NEW f \in [Pos -> Cell], NEW n \in 0..Capacity, NEW p \in Nat, p <= n,
         NEW cells \in Seq(Cell), p + Len(cells) <= Capacity,
         NEW b \in 0..Capacity, b <= p, MemAbove(cells, p, b), EndsAbove(f, n, b),
         NEW es \in Seq(Entry), \A i \in 1..Len(es) : SurvivesBelow(f, es[i], b)
  PROVE  /\ EndsAbove(Written(f, p, cells), Larger(n, p + Len(cells)), b)
         /\ \A i \in 1..Len(es) : SurvivesBelow(Written(f, p, cells), es[i], b)
<1>1. Len(cells) \in Nat /\ b \in Int /\ b \in Nat
  BY CapacityType
<1>2. EndsAbove(Written(f, p, cells), Larger(n, p + Len(cells)), b)
  BY <1>1, ClosedEnds
<1>3. ASSUME NEW q \in Pos, q < b PROVE Written(f, p, cells)[q] = f[q]
  <2>1. q < p
    BY <1>1, <1>3, CapacityType DEF Pos
  <2> QED
    BY <1>1, <2>1, WrittenBelow
<1> DEFINE g == Written(f, p, cells)
<1> HIDE DEF g
<1>4. \A q \in Pos : q < b => g[q] = f[q]
  BY <1>3 DEF g
<1>5. ASSUME NEW i \in 1..Len(es) PROVE SurvivesBelow(g, es[i], b)
  <2>1. es[i] \in Entry /\ SurvivesBelow(f, es[i], b)
    OBVIOUS
  <2> QED
    BY <1>1, <1>4, <2>1, SurvivesAgain, Zenon
<1> QED
  BY <1>2, <1>5 DEF g

LEMMA CloseWriteKept ==
  ASSUME TypeInv, DirectoryInv, KeptInv, ZipCloseWrite PROVE KeptInv'
<1> DEFINE s == Settled
           cells == IF s.ok THEN DirectoryOf(s) ELSE <<>>
<1>1. /\ Writing /\ Room(0) /\ mode' = "none" /\ stub' = stub
      /\ file' = Written(s.file, s.pos, cells)
      /\ flen' = Larger(s.flen, s.pos + Len(cells))
      /\ entries' = s.entries /\ health' = IF cells = <<>> THEN Died ELSE health
      /\ committed' = IF cells = <<>> \/ ~Good THEN committed ELSE s.entries
  BY DEF ZipCloseWrite, FreshHandle
<1>2. ~Writing'
  BY <1>1 DEF Writing
<1>3. CASE Good'
  <2> HIDE DEF s, cells
  <2>1. cells # <<>> /\ Good
    BY <1>1, <1>3 DEF Good, Died
  <2>2. committed' = entries'
    BY <1>1, <2>1
  <2> QED
    BY <1>2, <1>3, <2>2 DEF KeptInv
<1>4. CASE ~Good'
  <2>1. committed' = committed
    <3> HIDE DEF s, cells
    <3>1. cells # <<>> => ~Good
      BY <1>1, <1>4 DEF Good
    <3> QED
      BY <1>1, <3>1
  <2>2. PICK b \in 0..Capacity : KeptBelow(b)
    BY <1>1, KeptWriting
  <2>3. stub = 0 /\ committed \in Seq(Entry) /\ b \in Nat
    BY <1>1, KeptWriting, CapacityType DEF TypeInv, GhostType
  <2>4. /\ b <= s.pos /\ s.pos <= s.flen
        /\ \A i \in 1..Len(committed) : SurvivesBelow(s.file, committed[i], b)
        /\ EndsAbove(s.file, s.flen, b)
    BY <1>1, <2>2, SettledKept
  <2>5. /\ s.file \in [Pos -> Cell] /\ s.flen \in 0..Capacity /\ s.pos \in Nat
        /\ s.cdMem \in Seq(Cell) /\ s.pos + 0 + Len(s.cdMem) + 1 <= Capacity
    BY <1>1, SettledType
  <2>6. /\ DirectoryOf(s) \in Seq(Cell) /\ s.pos + 0 + Len(DirectoryOf(s)) <= Capacity
        /\ MemAbove(DirectoryOf(s), s.pos, b)
    BY <1>1, <2>2, DirectoryOfType, DirectoryAbove
  <2> HIDE DEF s
  <2>7. /\ cells \in Seq(Cell) /\ s.pos + Len(cells) <= Capacity
        /\ MemAbove(cells, s.pos, b)
    <3>1. CASE s.ok
      BY <2>5, <2>6, <3>1
    <3>2. CASE ~s.ok
      <4>1. cells = <<>>
        BY <3>2
      <4>2. Len(s.cdMem) \in Nat
        BY <2>5
      <4>3. s.pos + 0 <= Capacity
        BY <2>5, <4>2, CapacityType
      <4> HIDE DEF cells
      <4> QED
        BY <4>1, <4>3 DEF MemAbove
    <3> QED
      BY <3>1, <3>2
  <2> HIDE DEF cells
  <2>8. /\ EndsAbove(file', flen', b)
        /\ \A i \in 1..Len(committed) : SurvivesBelow(file', committed[i], b)
    BY <1>1, <2>3, <2>4, <2>5, <2>7, KeptWritten
  <2> QED
    BY <1>1, <1>2, <1>4, <2>1, <2>3, <2>8, KeptUnfinished
<1> QED
  BY <1>3, <1>4

LEMMA CrashKept ==
  ASSUME TypeInv, KeptInv, Crash \/ \E k \in 1..(Capacity - 1) : CrashInClose(k)
  PROVE  KeptInv'
<1>1. /\ Writing /\ mode' = "none" /\ health' = Died /\ UNCHANGED <<committed, stub>>
  BY DEF Crash, CrashInClose, FreshHandle
<1>2. ~Good' /\ ~Writing'
  BY <1>1 DEF Good, Died, Writing
<1>3. PICK b \in 0..Capacity : KeptBelow(b)
  BY <1>1, KeptWriting
<1>4. /\ stub = 0 /\ committed \in Seq(Entry) /\ b \in Nat /\ file \in [Pos -> Cell]
      /\ flen \in 0..Capacity /\ pos \in Nat /\ cdMem \in Seq(Cell) /\ Len(cdMem) \in Nat
      /\ Capacity \in Nat
  BY <1>1, KeptWriting, CapacityType DEF TypeInv, GhostType, FileType, MemType
<1>5. /\ \A i \in 1..Len(committed) : SurvivesBelow(file, committed[i], b)
      /\ EndsAbove(file, flen, b) /\ b <= pos /\ pos <= flen /\ MemAbove(cdMem, pos, b)
  BY <1>1, <1>3 DEF KeptBelow
<1>6. CASE Crash
  <2>1. UNCHANGED <<file, flen>>
    BY <1>6 DEF Crash, fileVars
  <2> QED
    BY <1>1, <1>2, <1>4, <1>5, <2>1, KeptUnfinished
<1>7. ASSUME NEW k \in 1..(Capacity - 1), CrashInClose(k) PROVE KeptInv'
  <2> DEFINE cells == SubSeq(DirectoryOf(Settled), 1, k)
  <2>1. /\ ~opened /\ Room(0) /\ file' = Written(file, pos, cells)
        /\ flen' = Larger(flen, pos + k) /\ k \in Nat /\ Len(cells) = k /\ k <= Len(cdMem)
        /\ cells \in Seq(Cell) /\ \A i \in 1..k : i \in 1..Len(cdMem) /\ cells[i] = cdMem[i]
    BY <1>7, StoppedClose
  <2> HIDE DEF cells
  <2>2. MemAbove(cells, pos, b)
    BY <1>5, <2>1 DEF MemAbove
  <2>3. pos + Len(cells) <= Capacity
    BY <1>4, <2>1 DEF Room
  <2>4. /\ EndsAbove(file', flen', b)
        /\ \A i \in 1..Len(committed) : SurvivesBelow(file', committed[i], b)
    BY <1>4, <1>5, <2>1, <2>2, <2>3, KeptWritten
  <2> QED
    BY <1>1, <1>2, <1>4, <2>4, KeptUnfinished
<1> QED
  BY <1>6, <1>7

LEMMA PrependKept ==
  ASSUME KeptInv, NEW k \in 1..MaxStub, NEW c \in Chunks, Prepend(k, c) PROVE KeptInv'
<1>1. /\ mode = "none" /\ Good /\ UNCHANGED <<mode, entries, committed, health>>
  BY DEF Prepend
<1>2. ~Writing /\ ~Writing' /\ Good'
  BY <1>1 DEF Writing, Good
<1> QED
  BY <1>1, <1>2 DEF KeptInv

LEMMA LookReadKept ==
  ASSUME CallerHabits = {}, KeptInv, LookNext \/ ReadNext PROVE KeptInv'
<1>1. /\ UNCHANGED <<file, flen, entries, committed, health, stub>>
  BY DEF LookNext, GotoFirstEntry, GotoNextEntry, GotoEntry, LocateEntry, Goto, ReadNext,
         ZipOpenRead, ZipCloseRead, EntryReadOpen, EntryRead, EntryReadClose, fileVars, ghostVars
<1>2. ~Writing /\ ~Writing'
  <2>1. CASE LookNext
    <3>1. mode = "read" /\ mode' = mode
      BY <2>1 DEF LookNext, GotoFirstEntry, GotoNextEntry, GotoEntry, LocateEntry, Goto, Looking
    <3> QED
      BY <3>1 DEF Writing
  <2>2. CASE ReadNext
    BY <2>2 DEF ReadNext, ZipOpenRead, ZipCloseRead, EntryReadOpen, EntryRead, EntryReadClose,
                FreshHandle, Writing
  <2> QED
    BY <2>1, <2>2
<1> QED
  BY <1>1, <1>2, QuietKept

LEMMA NextKept ==
  ASSUME CallerHabits = {}, TypeInv, DirectoryInv, ClearInv, KeptInv, [Next]_vars PROVE KeptInv'
<1>1. CASE WriteNext
  BY <1>1, CreateKept, AppendKept, CloseWriteKept, WriteOpenKept, WriteKept, WriteCloseKept
  DEF WriteNext
<1>2. CASE LookNext \/ ReadNext
  BY <1>2, LookReadKept
<1>3. CASE EnvNext
  BY <1>3, CrashKept, PrependKept DEF EnvNext
<1>4. CASE UNCHANGED vars
  <2>1. UNCHANGED <<file, flen, mode, pos, cdMem, info, opened, entries, committed, health,
                    stub>>
    BY <1>4 DEF vars, fileVars, dirVars, entryVars, ghostVars
  <2>2. Writing' = Writing /\ Good' = Good
    BY <2>1 DEF Writing, Good
  <2>3. ASSUME NEW b \in 0..Capacity, KeptBelow(b) PROVE KeptBelow(b)'
    BY <2>1, <2>2, <2>3 DEF KeptBelow
  <2> QED
    BY <2>1, <2>2, <2>3 DEF KeptInv
<1> QED
  BY <1>1, <1>2, <1>3, <1>4 DEF Next

LEMMA KeptInvariant ==
  ASSUME CallerHabits = {} PROVE Spec => [](TypeInv /\ DirectoryInv /\ ClearInv /\ KeptInv)
<1>1. Init => KeptInv
  <2> SUFFICES ASSUME Init PROVE KeptInv
    OBVIOUS
  <2>1. stub = 0 /\ committed = <<>> /\ flen = 0 /\ mode = "none" /\ health = "crashed"
    BY DEF Init
  <2>2. KeptBelow(0) /\ 0 \in 0..Capacity
    BY <2>1, CapacityType DEF KeptBelow, EndsAbove, Writing
  <2> QED
    BY <2>1, <2>2 DEF KeptInv, Good
<1>2. Init => TypeInv /\ DirectoryInv /\ ClearInv /\ KeptInv
  BY <1>1, InitType, InitDirectory
<1>3. TypeInv /\ DirectoryInv /\ ClearInv /\ KeptInv /\ [Next]_vars
        => TypeInv' /\ DirectoryInv' /\ ClearInv' /\ KeptInv'
  BY NextType, NextDirectory, NextClear, NextKept
<1> QED
  BY <1>2, <1>3, PTL DEF Spec

\* With callers that append only to archives with nothing in front and move between
\* entries only while reading: whatever sessions died, and whatever was appended after
\* that, the entries of the last finished archive are still in the file.
THEOREM CommittedAlwaysSurvive ==
  ASSUME CallerHabits = {} PROVE Spec => []CommittedDataSurvives
<1>1. TypeInv /\ DirectoryInv /\ ClearInv /\ KeptInv => CommittedDataSurvives
  <2> SUFFICES ASSUME TypeInv, DirectoryInv, ClearInv, KeptInv PROVE CommittedDataSurvives
    OBVIOUS
  <2>1. CASE Good /\ ~Writing
    <3>1. FinishedInv /\ committed = entries /\ NoDirectoryBelow(file, DirStart)
      BY <2>1 DEF DirectoryInv, ClearInv, KeptInv
    <3>2. \A i \in 1..Len(entries) : SurvivesBelow(file, entries[i], DirStart)
      BY <3>1, FinishedKept
    <3>3. ASSUME NEW i \in 1..Len(committed) PROVE Survives(file, committed[i])
      <4>1. SurvivesBelow(file, committed[i], DirStart)
        BY <3>1, <3>2, Zenon
      <4> QED
        BY <4>1, BelowSurvives
    <3> QED
      BY <3>3, Zenon DEF CommittedDataSurvives
  <2>2. CASE ~(Good /\ ~Writing)
    <3>1. PICK b \in 0..Capacity : KeptBelow(b)
      BY <2>2 DEF KeptInv
    <3>2. ASSUME NEW i \in 1..Len(committed) PROVE Survives(file, committed[i])
      <4>1. SurvivesBelow(file, committed[i], b)
        BY <3>1, Zenon DEF KeptBelow
      <4> QED
        BY <4>1, BelowSurvives
    <3> QED
      BY <3>2, Zenon DEF CommittedDataSurvives
  <2> QED
    BY <2>1, <2>2
<1> QED
  BY <1>1, KeptInvariant, PTL

-----------------------------------------------------------------------------
(* What opens after a crash *)

LEMMA CountedRead ==
  ASSUME NEW f, NEW n, NEW k, EndsCount(f, n, k), ReadCd(f, n).ok
  PROVE  ReadCd(f, n).number = k
<1> DEFINE p == CHOOSE q \in LastEnds(f, n) : TRUE
<1> HIDE DEF p
<1>1. LastEnds(f, n) # {}
  BY DEF ReadCd, NoDirectory
<1>2. p \in LastEnds(f, n)
  BY <1>1, Zenon DEF p
<1>3. p \in 0..(n - 1) /\ f[p].t = "end"
  BY <1>2 DEF LastEnds, Ends
<1>4. ReadCd(f, n).number = f[p].number
  BY <1>1 DEF ReadCd, p
<1> QED
  BY <1>3, <1>4 DEF EndsCount

\* What a step preserves that leaves the file alone and ends or begins no session.
LEMMA QuietCommit ==
  ASSUME CommitInv, UNCHANGED <<file, flen, committed, health>>, Writing' = Writing,
         mode' = "read" => mode = "read" /\ numberEntry' = numberEntry
  PROVE  CommitInv'
BY DEF CommitInv, Good

\* ... or leaves no end record but those there were, while the session goes on.
LEMMA WritingCommit ==
  ASSUME CommitInv, Writing, Writing', UNCHANGED <<committed, health>>,
         Good => \A q \in 0..(flen' - 1) :
           file'[q].t = "end" => q \in 0..(flen - 1) /\ file'[q] = file[q]
  PROVE  CommitInv'
<1>1. health # "crashed" /\ mode' # "read"
  BY DEF CommitInv, Writing
<1>2. ASSUME Good PROVE EndsCount(file', flen', Len(committed))
  <2>1. EndsCount(file, flen, Len(committed))
    BY <1>2 DEF CommitInv
  <2> QED
    BY <1>2, <2>1 DEF EndsCount
<1> QED
  BY <1>1, <1>2 DEF CommitInv, Good

\* The session ends with no end record but those there were.
LEMMA StoppedCommit ==
  ASSUME CommitInv, Writing, mode' = "none", committed' = committed, health' = Died,
         Good => \A q \in 0..(flen' - 1) :
           file'[q].t = "end" => q \in 0..(flen - 1) /\ file'[q] = file[q]
  PROVE  CommitInv'
<1>1. health # "crashed" /\ ~Writing'
  BY DEF CommitInv, Writing
<1>2. health' = "crashed" => Good
  BY <1>1 DEF Died
<1>3. ASSUME Good PROVE EndsCount(file', flen', Len(committed))
  <2>1. EndsCount(file, flen, Len(committed))
    BY <1>3 DEF CommitInv
  <2> QED
    BY <1>3, <2>1 DEF EndsCount
<1> QED
  BY <1>1, <1>2, <1>3 DEF CommitInv

LEMMA OpenCommit ==
  ASSUME CallerHabits = {}, TypeInv, DirectoryInv, ClearInv, CountInv, KeptInv, CommitInv,
         ZipOpenAppend \/ ZipOpenRead
  PROVE  CommitInv'
<1> DEFINE d == ReadCd(file, flen)
<1>1. mode = "none" /\ ~Writing /\ UNCHANGED <<file, flen, committed, stub>>
  BY DEF ZipOpenAppend, ZipOpenRead, Writing, fileVars, ghostVars
<1>2. CASE ZipOpenAppend
  <2>1. /\ stub = 0 /\ health' = (IF d.ok /\ ~Good THEN "reused" ELSE health)
        /\ d.ok => mode' = "append"
        /\ ~d.ok => mode' = "none"
    BY <1>1, <1>2 DEF ZipOpenAppend
  <2> HIDE DEF d
  <2>2. CASE ~d.ok
    BY <1>1, <2>1, <2>2, QuietCommit DEF Writing
  <2>3. CASE d.ok /\ ~Good
    BY <2>1, <2>3 DEF CommitInv, Good
  <2>4. CASE d.ok /\ Good
    <3>1. /\ FinishedInv /\ committed = entries /\ file[flen - 1].number = Len(entries)
          /\ NoDirectoryBelow(file, DirStart)
      BY <1>1, <2>4 DEF DirectoryInv, ClearInv, KeptInv, CountInv
    <3>2. \A q \in 0..(flen - 1) : file[q].t = "end" => q = flen - 1
      BY <3>1, FinishedKept
    <3>3. EndsCount(file, flen, Len(committed))
      BY <3>1, <3>2 DEF EndsCount
    <3>4. health' = "good" /\ mode' = "append"
      BY <2>1, <2>4 DEF Good
    <3> QED
      BY <1>1, <3>3, <3>4 DEF CommitInv
  <2> QED
    BY <2>2, <2>3, <2>4
<1>3. CASE ZipOpenRead
  <2>1. /\ health' = health
        /\ d.ok => mode' = "read" /\ numberEntry' = d.number
        /\ ~d.ok => mode' = "none"
    BY <1>1, <1>3 DEF ZipOpenRead, ghostVars
  <2>2. CASE ~d.ok
    <3> HIDE DEF d
    <3> QED
      BY <1>1, <2>1, <2>2, QuietCommit DEF Writing
  <2>3. CASE d.ok
    <3>1. ASSUME health = "crashed"
          PROVE  EndsCount(file, flen, Len(committed)) /\ d.number = Len(committed)
      <4>1. EndsCount(file, flen, Len(committed))
        BY <3>1 DEF CommitInv
      <4> QED
        BY <2>3, <4>1, CountedRead
    <3>2. ~Writing'
      BY <2>1, <2>3 DEF Writing
    <3> HIDE DEF d
    <3> QED
      BY <1>1, <2>1, <2>3, <3>1, <3>2 DEF CommitInv
  <2> QED
    BY <2>2, <2>3
<1> QED
  BY <1>2, <1>3

LEMMA WriteCommit ==
  ASSUME TypeInv, DirectoryInv, KeptInv, CommitInv,
         \/ EntryWriteClose \/ \E c \in Chunks : EntryWrite(c)
         \/ \E name \in Names, u \in Declared, z \in Zip64Modes, dd \in Descriptors :
              EntryWriteOpen(name, u, z, dd)
  PROVE  CommitInv'
<1> DEFINE s == Settled
<1>1. Writing /\ Writing' /\ UNCHANGED <<committed, health>>
  BY DEF EntryWriteClose, EntryWrite, EntryWriteOpen, Writing, ghostVars
<1>2. pos <= flen /\ pos \in Nat /\ flen \in Nat /\ file \in [Pos -> Cell]
  BY <1>1, KeptWriting, CapacityType DEF KeptBelow, TypeInv, FileType
<1>3. CASE EntryWriteClose
  <2>1. Room(0) /\ file' = s.file /\ flen' = s.flen
    BY <1>3 DEF EntryWriteClose
  <2>2. \A q \in 0..(s.flen - 1) :
          s.file[q].t = "end" => q \in 0..(flen - 1) /\ s.file[q] = file[q]
    BY <1>1, <1>2, <2>1, SettledEnds
  <2> HIDE DEF s
  <2> QED
    BY <1>1, <2>1, <2>2, WritingCommit
<1>4. ASSUME NEW c \in Chunks, EntryWrite(c) PROVE CommitInv'
  <2> DEFINE h == DataCell(c)
             g == [file EXCEPT ![pos] = h]
  <2>1. /\ Room(1) /\ file' = g /\ flen' = Larger(flen, pos + 1)
    BY <1>4 DEF EntryWrite
  <2>2. pos \in Pos
    <3>1. Len(cdMem) \in Nat
      BY DEF TypeInv, MemType
    <3> QED
      BY <1>2, <2>1, <3>1, CapacityType DEF Room, Pos
  <2>3. h.t # "end"
    BY DEF DataCell
  <2> HIDE DEF h
  <2>4. \A q \in 0..(Larger(flen, pos + 1) - 1) :
          g[q].t = "end" => q \in 0..(flen - 1) /\ g[q] = file[q]
    BY <1>2, <2>2, <2>3, PutEnds
  <2> HIDE DEF g
  <2> QED
    BY <1>1, <2>1, <2>4, WritingCommit
<1>5. ASSUME NEW name \in Names, NEW u \in Declared, NEW z \in Zip64Modes, NEW dd \in Descriptors,
             EntryWriteOpen(name, u, z, dd)
      PROVE  CommitInv'
  <2> DEFINE i == [name |-> name, dd |-> dd, zip64 |-> z, crc |-> <<>>, csize |-> 0,
                   usize |-> u, off |-> s.pos]
             h == LocalHeader(i, LocalZip64(i))
             k == IF dd THEN 3 ELSE 2
             g == [s.file EXCEPT ![s.pos] = h]
  <2>1. /\ Room(k) /\ k \in Nat /\ k > 0
        /\ s.ok => file' = g /\ flen' = Larger(s.flen, s.pos + 1)
        /\ ~s.ok => file' = s.file /\ flen' = s.flen
    BY <1>5 DEF EntryWriteOpen
  <2>2. h.t # "end"
    BY DEF LocalHeader
  <2> HIDE DEF k, h
  <2>3. /\ s.pos \in Nat /\ s.flen \in Nat /\ s.pos <= s.flen
        /\ \A q \in 0..(s.flen - 1) :
             s.file[q].t = "end" => q \in 0..(flen - 1) /\ s.file[q] = file[q]
    BY <1>1, <1>2, <2>1, SettledEnds
  <2>4. /\ s.file \in [Pos -> Cell] /\ s.cdMem \in Seq(Cell) /\ Len(s.cdMem) \in Nat
        /\ s.pos + k + Len(s.cdMem) + 1 <= Capacity
    BY <1>1, <2>1, SettledType
  <2> HIDE DEF s
  <2>5. s.pos \in Pos
    BY <2>1, <2>3, <2>4, CapacityType DEF Pos
  <2>6. \A q \in 0..(Larger(s.flen, s.pos + 1) - 1) :
          g[q].t = "end" => q \in 0..(s.flen - 1) /\ g[q] = s.file[q]
    BY <2>2, <2>3, <2>4, <2>5, PutEnds
  <2> HIDE DEF g
  <2>7. CASE s.ok
    <3>1. \A q \in 0..(flen' - 1) :
            file'[q].t = "end" => q \in 0..(flen - 1) /\ file'[q] = file[q]
      BY <2>1, <2>3, <2>6, <2>7
    <3> QED
      BY <1>1, <3>1, WritingCommit
  <2>8. CASE ~s.ok
    BY <1>1, <2>1, <2>3, <2>8, WritingCommit
  <2> QED
    BY <2>7, <2>8
<1> QED
  BY <1>3, <1>4, <1>5

LEMMA CloseWriteCommit ==
  ASSUME TypeInv, DirectoryInv, KeptInv, CommitInv, ZipCloseWrite PROVE CommitInv'
<1> DEFINE s == Settled
           cells == IF s.ok THEN DirectoryOf(s) ELSE <<>>
<1>1. /\ Writing /\ Room(0) /\ mode' = "none"
      /\ file' = Written(s.file, s.pos, cells)
      /\ flen' = Larger(s.flen, s.pos + Len(cells))
      /\ health' = IF cells = <<>> THEN Died ELSE health
      /\ committed' = IF cells = <<>> \/ ~Good THEN committed ELSE s.entries
  BY DEF ZipCloseWrite, FreshHandle
<1>2. health # "crashed" /\ ~Writing'
  BY <1>1 DEF CommitInv, Writing
<1>3. CASE cells # <<>>
  <2> HIDE DEF cells, s
  <2> QED
    BY <1>1, <1>2, <1>3 DEF CommitInv
<1>4. CASE cells = <<>>
  <2>1. pos <= flen
    BY <1>1, KeptWriting DEF KeptBelow
  <2>2. /\ s.pos \in Nat /\ s.flen \in Nat /\ s.pos <= s.flen
        /\ \A q \in 0..(s.flen - 1) :
             s.file[q].t = "end" => q \in 0..(flen - 1) /\ s.file[q] = file[q]
    BY <1>1, <2>1, SettledEnds
  <2>3. s.flen \in 0..Capacity /\ Capacity \in Nat
    BY <1>1, SettledType, CapacityType
  <2> HIDE DEF s, cells
  <2>4. Len(cells) = 0
    BY <1>4
  <2>5. flen' = s.flen
    <3>1. s.pos + 0 = s.pos /\ s.flen >= s.pos
      BY <2>2
    <3>2. Larger(s.flen, s.pos) = s.flen
      BY <3>1 DEF Larger
    <3> QED
      BY <1>1, <2>4, <3>1, <3>2, Zenon
  <2>6. \A q \in Pos : file'[q] = s.file[q]
    <3>1. ASSUME NEW q \in Pos PROVE Written(s.file, s.pos, cells)[q] = s.file[q]
      <4>1. q - s.pos + 1 \notin 1..0
        BY <2>2, CapacityType DEF Pos
      <4> QED
        BY <2>4, <4>1 DEF Written
    <3> QED
      BY <1>1, <3>1
  <2>7. \A q \in 0..(s.flen - 1) : q \in Pos
    BY <2>3 DEF Pos
  <2>8. \A q \in 0..(flen' - 1) :
          file'[q].t = "end" => q \in 0..(flen - 1) /\ file'[q] = file[q]
    BY <2>2, <2>5, <2>6, <2>7
  <2> QED
    BY <1>1, <1>4, <2>8, StoppedCommit
<1> QED
  BY <1>3, <1>4

\* The same for a file grown by k cells.
LEMMA GrownCell ==
  ASSUME NEW f, NEW g, NEW n \in Nat, NEW p \in Nat, p <= n, NEW cells, NEW k \in Nat,
         Len(cells) = k, g = Written(f, p, cells),
         NEW q \in Pos, q < Larger(n, p + k)
  PROVE  \/ q - p + 1 \in 1..k /\ g[q] = cells[q - p + 1]
         \/ q \in 0..(n - 1) /\ g[q] = f[q]
<1>1. g[q] = IF q - p + 1 \in 1..k THEN cells[q - p + 1] ELSE f[q]
  BY DEF Written
<1>2. q \in Nat
  BY CapacityType DEF Pos
<1>3. q - p + 1 \notin 1..k => q \in 0..(n - 1)
  BY <1>2 DEF Larger
<1> QED
  BY <1>1, <1>3

LEMMA CrashCommit ==
  ASSUME TypeInv, DirectoryInv, KeptInv, CommitInv,
         Crash \/ \E k \in 1..(Capacity - 1) : CrashInClose(k)
  PROVE  CommitInv'
<1>1. Writing /\ mode' = "none" /\ committed' = committed /\ health' = Died
  BY DEF Crash, CrashInClose, FreshHandle
<1>2. CASE Crash
  <2>1. file' = file /\ flen' = flen
    BY <1>2 DEF Crash, fileVars
  <2> QED
    BY <1>1, <2>1, StoppedCommit
<1>3. ASSUME NEW k \in 1..(Capacity - 1), CrashInClose(k) PROVE CommitInv'
  <2> DEFINE cells == SubSeq(DirectoryOf(Settled), 1, k)
  <2>1. /\ ~opened /\ Room(0) /\ file' = Written(file, pos, cells)
        /\ flen' = Larger(flen, pos + k) /\ k \in Nat /\ Len(cells) = k /\ k <= Len(cdMem)
        /\ \A i \in 1..k : i \in 1..Len(cdMem) /\ cells[i] = cdMem[i]
    BY <1>3, StoppedClose
  <2>2. /\ pos <= flen /\ pos \in Nat /\ flen \in 0..Capacity /\ flen \in Nat
        /\ Len(cdMem) \in Nat /\ Capacity \in Nat
    BY <1>1, KeptWriting, CapacityType DEF KeptBelow, TypeInv, FileType, MemType
  <2> HIDE DEF cells
  <2>3. pos + k <= Capacity
    BY <2>1, <2>2 DEF Room
  <2>4. ASSUME NEW q \in Pos, q < Larger(flen, pos + k)
        PROVE  \/ q - pos + 1 \in 1..k /\ file'[q] = cells[q - pos + 1]
               \/ q \in 0..(flen - 1) /\ file'[q] = file[q]
    <3>1. k \in Nat /\ Len(cells) = k /\ file' = Written(file, pos, cells)
      BY <2>1
    <3>2. flen \in Nat /\ pos \in Nat /\ pos <= flen
      BY <2>2
    <3> QED
      BY <2>4, <3>1, <3>2, GrownCell
  <2>5. ASSUME Good, NEW q \in 0..(flen' - 1), file'[q].t = "end"
        PROVE  q \in 0..(flen - 1) /\ file'[q] = file[q]
    <3>1. \A i \in 1..Len(cdMem) : cdMem[i].t = "central"
      <4>1. Sound(file, flen, pos, Closing, cdMem, cdMemPos, entries)
        BY <1>1, <2>5 DEF DirectoryInv, WritingInv
      <4>2. ASSUME NEW i \in 1..Len(cdMem)
            PROVE  DescribedBelow(file, cdMem[i], 0, entries[i], Closing)
        BY <4>1 DEF Sound
      <4> QED
        BY <4>2, DescribedCell
    <3> DEFINE m == Larger(flen, pos + k)
    <3>2. m \in Nat /\ m <= Capacity
      BY <2>1, <2>2, <2>3 DEF Larger
    <3>3. q \in 0..(m - 1)
      BY <2>1, <2>5
    <3> HIDE DEF m
    <3>4. q \in Pos /\ q < m
      BY <2>2, <3>2, <3>3 DEF Pos
    <3>5. \/ q - pos + 1 \in 1..k /\ file'[q] = cells[q - pos + 1]
          \/ q \in 0..(flen - 1) /\ file'[q] = file[q]
      <4>1. q < Larger(flen, pos + k)
        BY <3>4 DEF m
      <4> QED
        BY <2>4, <3>4, <4>1
    <3>6. q - pos + 1 \in 1..k => cells[q - pos + 1].t = "central"
      BY <2>1, <3>1
    <3> QED
      BY <2>5, <3>5, <3>6
  <2> QED
    BY <1>1, <2>5, StoppedCommit
<1> QED
  BY <1>2, <1>3

LEMMA NextCommit ==
  ASSUME CallerHabits = {}, TypeInv, DirectoryInv, ClearInv, CountInv, KeptInv, CommitInv,
         [Next]_vars
  PROVE  CommitInv'
<1>1. CASE ZipOpenCreate
  <2>1. health' = "good" /\ flen' = 0 /\ mode' = "write"
    BY <1>1 DEF ZipOpenCreate
  <2> QED
    BY <2>1 DEF CommitInv, EndsCount
<1>2. CASE LookNext
  <2>1. /\ mode = "read" /\ mode' = mode
        /\ UNCHANGED <<file, flen, numberEntry, committed, health>>
    BY <1>2 DEF LookNext, GotoFirstEntry, GotoNextEntry, GotoEntry, LocateEntry, Goto, Looking,
                fileVars, dirVars, ghostVars
  <2> QED
    BY <2>1, QuietCommit DEF Writing
<1>3. CASE \/ ZipCloseRead \/ EntryReadOpen \/ EntryRead
           \/ \E w \in BOOLEAN : EntryReadClose(w)
  <2>1. /\ mode = "read" /\ mode' \in {"read", "none"}
        /\ mode' = "read" => numberEntry' = numberEntry
        /\ UNCHANGED <<file, flen, committed, health>>
    BY <1>3 DEF ZipCloseRead, EntryReadOpen, EntryRead, EntryReadClose, FreshHandle,
                fileVars, dirVars, ghostVars
  <2>2. Writing' = Writing
    BY <2>1 DEF Writing
  <2> QED
    BY <2>1, <2>2, QuietCommit
<1>4. ASSUME NEW k \in 1..MaxStub, NEW c \in Chunks, Prepend(k, c) PROVE CommitInv'
  <2>1. mode' = "none" /\ Good /\ health' = health
    BY <1>4 DEF Prepend
  <2> QED
    BY <2>1 DEF CommitInv, Good, Writing
<1>5. CASE UNCHANGED vars
  <2>1. UNCHANGED <<file, flen, mode, numberEntry, committed, health>>
    BY <1>5 DEF vars, fileVars, dirVars, ghostVars
  <2> QED
    BY <2>1, QuietCommit DEF Writing
<1> QED
  BY <1>1, <1>2, <1>3, <1>4, <1>5, OpenCommit, WriteCommit, CloseWriteCommit, CrashCommit
  DEF Next, WriteNext, ReadNext, EnvNext

\* If moreover no entry disables the 64-bit format: what opens after a crash counts as
\* many entries as the last finished archive has, whatever the session that died
\* had written, up to the last record before its end record.
THEOREM CrashedSessionsInvisible ==
  ASSUME CallerHabits = {}, Zip64Disable \notin Zip64Modes
  PROVE  Spec => []CrashedSessionIsInvisible
<1>1. Init => CountInv /\ CommitInv
  <2> SUFFICES ASSUME Init PROVE CountInv /\ CommitInv
    OBVIOUS
  <2>1. health = "crashed" /\ mode = "none" /\ flen = 0
    BY DEF Init
  <2> QED
    BY <2>1 DEF CountInv, CommitInv, EndsCount, Good, Writing
<1>2. /\ TypeInv /\ DirectoryInv /\ ClearInv /\ KeptInv /\ CountInv /\ CommitInv /\ [Next]_vars
        => CountInv' /\ CommitInv'
  BY NextCount, NextCommit
<1>3. CommitInv => CrashedSessionIsInvisible
  BY DEF CommitInv, CrashedSessionIsInvisible
<1> QED
  BY <1>1, <1>2, <1>3, KeptInvariant, PTL DEF Spec

-----------------------------------------------------------------------------
(* The handle under the interface of the old minizip *)

\* What the old interface never does: it puts nothing in front of an archive, and what
\* its directory says of a size is one number.
Sized(c) == c.usize = c.csize
SizedInv ==
  Good => IF Writing THEN \A i \in 1..Len(cdMem) : Sized(cdMem[i])
          ELSE \A q \in DirStart..(flen - 2) : Sized(file[q])
HandleInv ==
  /\ TypeInv /\ DirectoryInv /\ CountInv /\ FirstInv /\ SizedInv
  /\ stub = 0

LEMMA SettledSized ==
  ASSUME TypeInv, Writing, WritingInv, \A i \in 1..Len(cdMem) : Sized(cdMem[i])
  PROVE  \A i \in 1..Len(Settled.cdMem) : Sized(Settled.cdMem[i])
<1> DEFINE c == CentralHeader(FinalInfo)
<1>1. cdMem \in Seq(Cell) /\ cdMemPos = Len(cdMem)
  BY DEF WritingInv, Sound, TypeInv, MemType
<1>2. Sized(c)
  <2>1. info \in Info
    BY DEF TypeInv, EntryType
  <2> QED
    BY <2>1 DEF CentralHeader, FinalInfo, Sized, Info
<1> HIDE DEF c
<1>3. Settled.cdMem = cdMem \/ Settled.cdMem = Append(cdMem, c)
  BY <1>1, SettledFields DEF PutAt, c
<1>4. CASE Settled.cdMem = Append(cdMem, c)
  <2>1. /\ Len(Settled.cdMem) = Len(cdMem) + 1 /\ Settled.cdMem[Len(cdMem) + 1] = c
        /\ \A i \in 1..Len(cdMem) : Settled.cdMem[i] = cdMem[i]
    BY <1>1, <1>4
  <2>2. \A i \in 1..(Len(cdMem) + 1) : i \in 1..Len(cdMem) \/ i = Len(cdMem) + 1
    BY <1>1
  <2> QED
    BY <1>2, <2>1, <2>2
<1> QED
  BY <1>3, <1>4

\* The two ways of creating.
LEMMA CreateAfterType == ASSUME TypeInv, zipOpenCreateAfter PROVE TypeInv'
<1>1. /\ mode = "none" /\ mode' = "write" /\ cdInMem' = TRUE /\ pos' = flen /\ ret' = "OK"
      /\ entries' = <<>> /\ committed' = <<>> /\ health' = "good"
      /\ UNCHANGED <<file, flen, cdMem, cdMemPos, numberEntry, cdStart, cdSize, shift, cdCur,
                     info, scanned, opened, crc, stub>>
  BY DEF zipOpenCreateAfter, fileVars, entryVars
<1>2. FileType' /\ CallType' /\ FlagType' /\ MemType' /\ DirType' /\ EntryType' /\ GhostType'
  BY <1>1, CapacityType
  DEF TypeInv, FileType, CallType, FlagType, MemType, DirType, EntryType, GhostType
<1>3. /\ cdStart = 0 /\ cdSize = 0 /\ cdMem = <<>> /\ scanned = FALSE /\ opened = FALSE
  BY <1>1 DEF TypeInv, FreshWhenClosed
<1>4. FreshWhenClosed' /\ WithinDirectory' /\ NamedWhenOpen' /\ FoundWhenOpen'
  <2>1. cdSize' <= Len(cdMem')
    BY <1>1, <1>3
  <2> QED
    BY <1>1, <1>3, <2>1 DEF FreshWhenClosed, WithinDirectory, NamedWhenOpen, FoundWhenOpen
<1>5. InMemoryWhenWriting'
  <2>1. Writing' = TRUE
    BY <1>1 DEF Writing
  <2> QED
    BY <1>1, <2>1 DEF InMemoryWhenWriting
<1> QED
  BY <1>2, <1>4, <1>5 DEF TypeInv

LEMMA CreatesHandle ==
  ASSUME HandleInv, ZipOpenCreate \/ zipOpenCreateAfter PROVE HandleInv'
<1>1. mode = "none" /\ TypeInv /\ stub = 0
  BY DEF HandleInv, ZipOpenCreate, zipOpenCreateAfter
<1>2. cdMem = <<>> /\ cdMemPos = 0 /\ opened = FALSE /\ numberEntry = 0 /\ pos = 0
  BY <1>1 DEF TypeInv, FreshWhenClosed
<1>3. /\ mode' = "write" /\ health' = "good" /\ entries' = <<>> /\ stub' = 0
      /\ cdMem' = <<>> /\ cdMemPos' = 0 /\ opened' = FALSE /\ numberEntry' = 0
      /\ pos' = flen'
  BY <1>1, <1>2 DEF ZipOpenCreate, zipOpenCreateAfter, fileVars, entryVars
<1>4. TypeInv'
  BY <1>1, CreateType, CreateAfterType
<1>5. flen' \in Nat
  BY <1>4, CapacityType DEF TypeInv, FileType
<1>6. Sound(file', flen', pos', Closing', cdMem', cdMemPos', entries')
  <2>1. Len(cdMem') = 0 /\ Len(entries') = 0 /\ cdMemPos' = 0
    BY <1>3
  <2>2. \A n \in Nat : n <= n /\ n <= n + 0 + 1
    OBVIOUS
  <2>3. pos' <= flen' /\ flen' <= pos' + 0 + 1
    BY <1>3, <1>5, <2>2, Zenon
  <2> QED
    BY <2>1, <2>3 DEF Sound
<1>7. DirectoryInv'
  BY <1>3, <1>6 DEF DirectoryInv, WritingInv, Writing
<1>8. CountInv' /\ SizedInv' /\ FirstInv'
  BY <1>3 DEF CountInv, SizedInv, FirstInv, Good, Writing
<1> QED
  BY <1>3, <1>4, <1>7, <1>8 DEF HandleInv

LEMMA AppendHandle ==
  ASSUME CallerHabits = {}, HandleInv, ZipOpenAppend PROVE HandleInv'
<1> USE DEF HandleInv
<1>1. TypeInv' /\ DirectoryInv' /\ CountInv' /\ FirstInv' /\ stub' = 0
  <2>1. stub' = stub
    BY DEF ZipOpenAppend
  <2> QED
    BY <2>1, AppendType, AppendDirectory, AppendCount, FirstOpen
<1>2. ASSUME Good' PROVE SizedInv'
  <2> DEFINE n == Len(entries)
             m == [i \in 1..n |-> file[DirStart + i - 1]]
  <2>1. /\ Good /\ ~Writing /\ n \in Nat /\ DirStart \in Nat /\ flen = DirStart + n + 1
        /\ mode' = "append" /\ cdMem' = m
    BY <1>2, AppendBegins
  <2>2. Len(m) = n /\ \A i \in 1..n : m[i] = file[DirStart + i - 1]
    BY <2>1
  <2>3. \A i \in 1..n : DirStart + i - 1 \in DirStart..(flen - 2)
    BY <2>1
  <2> HIDE DEF m, n
  <2>4. \A i \in 1..n : Sized(m[i])
    BY <2>1, <2>2, <2>3 DEF SizedInv
  <2> QED
    BY <2>1, <2>2, <2>4 DEF SizedInv, Writing
<1> QED
  BY <1>1, <1>2 DEF SizedInv
LEMMA CloseHandle ==
  ASSUME HandleInv, ZipCloseWrite PROVE HandleInv'
<1> USE DEF HandleInv
<1>1. TypeInv' /\ DirectoryInv' /\ CountInv' /\ FirstInv' /\ stub' = 0
  <2>1. stub' = stub
    BY DEF ZipCloseWrite
  <2> QED
    BY <2>1, CloseWriteType, CloseWriteDirectory, CloseWriteCount, FirstClose
<1>2. ASSUME Good' PROVE SizedInv'
  <2> DEFINE s == Settled
             n == Len(s.entries)
  <2>1. /\ Good /\ WritingInv /\ Writing /\ mode' = "none" /\ entries' = s.entries
        /\ n \in Nat /\ s.pos \in Nat /\ flen' = s.pos + n + 1 /\ Len(s.cdMem) = n
        /\ \A i \in 1..n : file'[s.pos + i - 1] = s.cdMem[i]
    BY <1>2, ClosedArchive DEF Sound
  <2>2. \A i \in 1..n : Sized(s.cdMem[i])
    BY <2>1, SettledSized DEF SizedInv
  <2> HIDE DEF s
  <2>3. DirStart' = s.pos /\ flen' - 2 = s.pos + n - 1
    BY <2>1 DEF DirStart
  <2> HIDE DEF n
  <2>4. ASSUME NEW q \in s.pos..(s.pos + n - 1) PROVE Sized(file'[q])
    <3> DEFINE i == q - s.pos + 1
    <3>1. i \in 1..n /\ q = s.pos + i - 1
      BY <2>1
    <3> HIDE DEF i
    <3>2. file'[q] = s.cdMem[i]
      BY <2>1, <3>1
    <3> QED
      BY <2>2, <3>1, <3>2
  <2> QED
    BY <2>1, <2>3, <2>4 DEF SizedInv, Writing
<1> QED
  BY <1>1, <1>2 DEF SizedInv

LEMMA EntryHandle ==
  ASSUME HandleInv,
         \/ \E n \in Names : EntryWriteOpen(n, 0, Zip64Auto, TRUE)
         \/ \E c \in Chunks : EntryWrite(c)
         \/ EntryWriteClose
  PROVE  HandleInv'
<1>1. TypeInv /\ DirectoryInv /\ CountInv /\ FirstInv /\ SizedInv /\ stub = 0
  BY DEF HandleInv
<1>2. Zip64Auto \in {Zip64Auto, Zip64Disable} /\ 0 \in Nat /\ TRUE \in BOOLEAN
  OBVIOUS
<1>3. TypeInv' /\ DirectoryInv'
  BY <1>1, <1>2, WriteOpenType, WriteType, WriteCloseType,
     WriteOpenDirectory, WriteDirectory, WriteCloseDirectory
<1>4. /\ Writing /\ Writing' /\ health' = health /\ stub' = stub
      /\ cdMem' = cdMem \/ cdMem' = Settled.cdMem
  BY DEF EntryWriteOpen, EntryWrite, EntryWriteClose, Writing, dirVars, ghostVars
<1>5. Good /\ WritingInv
  BY <1>1, <1>4 DEF FirstInv, DirectoryInv, Writing
<1>6. CountInv'
  <2>1. ASSUME NEW c \in Chunks, EntryWrite(c) PROVE CountInv'
    <3>1. UNCHANGED <<mode, cdMem, numberEntry, info, opened, health>>
      BY <2>1 DEF EntryWrite, dirVars, ghostVars
    <3> QED
      BY <1>1, <1>4, <3>1 DEF CountInv, Good, Writing
  <2> QED
    BY <1>1, <1>2, <2>1, WriteOpenCount, WriteCloseCount
<1>7. FirstInv'
  BY <1>4, <1>5 DEF FirstInv, Good
<1>8. SizedInv'
  <2>1. \A i \in 1..Len(cdMem) : Sized(cdMem[i])
    BY <1>1, <1>4, <1>5 DEF SizedInv
  <2>2. \A i \in 1..Len(Settled.cdMem) : Sized(Settled.cdMem[i])
    BY <1>1, <1>4, <1>5, <2>1, SettledSized
  <2> QED
    BY <1>4, <2>1, <2>2 DEF SizedInv
<1> QED
  BY <1>1, <1>3, <1>4, <1>6, <1>7, <1>8 DEF HandleInv

LEMMA ZipHandle ==
  ASSUME CallerHabits = {}, Zip64Disable \notin Zip64Modes, HandleInv, ZipNext PROVE HandleInv'
<1>1. CASE zipOpen
  BY <1>1, CreatesHandle, AppendHandle DEF zipOpen
<1>2. CASE zipClose
  BY <1>2, CloseHandle DEF zipClose
<1>3. CASE zipCloseFileInZip
  BY <1>3, EntryHandle DEF zipCloseFileInZip
<1>4. ASSUME NEW n \in Names, NEW z \in Zip64Modes, zipOpenNewFileInZip(n, z = Zip64Auto)
      PROVE  HandleInv'
  <2>1. z = Zip64Auto
    BY ConstantsAssumption
  <2>2. EntryWriteOpen(n, 0, Zip64Auto, TRUE)
    BY <1>4, <2>1, Zenon DEF zipOpenNewFileInZip
  <2> QED
    BY <2>2, EntryHandle
<1>5. ASSUME NEW c \in Chunks, zipWriteInFileInZip(c) PROVE HandleInv'
  BY <1>5, EntryHandle DEF zipWriteInFileInZip
<1> QED
  BY <1>1, <1>2, <1>3, <1>4, <1>5 DEF ZipNext

\* What leaves the file and the list of entries alone, between writing sessions.
LEMMA QuietHandle ==
  ASSUME HandleInv, TypeInv', ~Writing, ~Writing',
         UNCHANGED <<file, flen, entries, health, stub>>, Good \/ mode' = mode
  PROVE  HandleInv'
<1>1. TypeInv /\ DirectoryInv /\ CountInv /\ FirstInv /\ SizedInv /\ stub = 0
  BY DEF HandleInv
<1>2. DirectoryInv' /\ CountInv'
  BY <1>1, QuietDirectory, QuietCount
<1>3. FirstInv' /\ SizedInv' /\ stub' = 0
  BY <1>1 DEF FirstInv, SizedInv, Good, DirStart
<1> QED
  BY <1>2, <1>3 DEF HandleInv
-----------------------------------------------------------------------------
(* Reading by the old interface *)

UnzType ==
  /\ entryPos \in Nat /\ totalOut \in Int /\ entryIndex \in Nat
  /\ call \in {"none", "open", "reopen", "locate"} /\ counted \in BOOLEAN
  /\ saved.num \in Nat /\ saved.counted \in BOOLEAN

\* Between readings nothing is known; an archive that was opened has its directory where
\* the handle looks for it, and a header under the cursor unless the cursor is outside.
UnzFresh == mode # "read" => call = "none" /\ entryIndex = 0 /\ saved = NoFilePos
InDirectory(p) == p \in DirStart..(flen - 2)
CursorFound ==
  /\ PlacedInv /\ CursorInv /\ cdSize = Len(entries)
  /\ ~scanned /\ call # "open" => ~InDirectory(cdCur)
CallFound ==
  /\ call # "none" => ~opened
  /\ call = "open" => entryIndex = 0
  /\ call = "locate" /\ scanned => ret = "OK"
SavedFound ==
  saved # NoFilePos => InDirectory(saved.pos) /\ saved.info = InfoOf(file[saved.pos])

\* Where the stream is in the entry being read.
PlaceFound ==
  opened => /\ scanned /\ entryPos = LocalAt + 1 /\ pos = entryPos + totalOut
            /\ Len(crc) <= info.csize

UnzFound == CursorFound /\ CallFound /\ SavedFound /\ PlaceFound
UnzInv == HandleInv /\ UnzType /\ UnzFresh /\ (mode = "read" => UnzFound)

LEMMA ReadingFacts ==
  ASSUME UnzInv, mode = "read"
  PROVE  /\ TypeInv /\ DirectoryInv /\ FinishedInv /\ Good /\ stub = 0 /\ UnzFound
         /\ Len(entries) \in Nat /\ DirStart \in Nat /\ flen = DirStart + Len(entries) + 1
         /\ flen \in 0..Capacity
         /\ cdStart = DirStart /\ cdSize = Len(entries) /\ ~Writing
<1>1. TypeInv /\ DirectoryInv /\ Good /\ stub = 0 /\ UnzFound
  BY DEF UnzInv, HandleInv, FirstInv
<1>2. FinishedInv
  BY <1>1, ReadFinished
<1>3. /\ Len(entries) \in Nat /\ DirStart \in Nat /\ flen = DirStart + Len(entries) + 1
      /\ flen \in 0..Capacity
  BY <1>1, <1>2, FinishedFacts
<1>4. cdStart = DirStart /\ cdSize = Len(entries)
  BY <1>1 DEF UnzFound, CursorFound, PlacedInv
<1> QED
  BY <1>1, <1>2, <1>3, <1>4 DEF Writing

\* Each move of the old interface goes to a place in the directory or behind it.
MovesTo(p) ==
  /\ mode = "read" /\ ~opened /\ p \in Nat /\ p >= DirStart /\ Goto(p)
  /\ UNCHANGED <<entryPos, totalOut, saved>>
  /\ entryIndex' \in Nat /\ call' \in {"none", "locate"} /\ counted' \in BOOLEAN

LEMMA Moved ==
  ASSUME UnzInv, NEW p, MovesTo(p)
  PROVE  /\ PlacedInv' /\ CursorInv' /\ cdCur' = p
         /\ scanned' <=> InDirectory(p)
         /\ scanned' => ret' = "OK" /\ info' = InfoOf(file[p])
         /\ UNCHANGED <<file, flen, mode, cdStart, cdSize, shift, opened, crc, entries, health,
                        stub, DirStart>>
<1>1. TypeInv /\ DirectoryInv /\ Good /\ PlacedInv /\ mode = "read"
  BY ReadingFacts DEF UnzFound, CursorFound, MovesTo
<1>2. p \in Int /\ p >= DirStart /\ Goto(p)
  BY DEF MovesTo
<1>3. /\ PlacedInv' /\ CursorInv' /\ cdCur' = p
      /\ scanned' <=> p \in DirStart..(flen - 2)
      /\ scanned' => ret' = "OK" /\ info' = InfoOf(file[p])
      /\ UNCHANGED <<file, flen, mode, cdStart, cdSize, shift, opened, crc, entries, health,
                     stub>>
  BY <1>1, <1>2, GotoCursor
<1>4. DirStart' = DirStart
  BY <1>3 DEF DirStart
<1> QED
  BY <1>3, <1>4 DEF InDirectory

LEMMA MoveFound == ASSUME UnzInv, NEW p, MovesTo(p) PROVE UnzInv'
<1>1. /\ TypeInv /\ Good /\ ~Writing /\ CursorFound /\ SavedFound /\ HandleInv /\ UnzType
      /\ mode = "read" /\ ~opened /\ p \in Nat /\ Goto(p)
      /\ UNCHANGED <<entryPos, totalOut, saved>>
      /\ entryIndex' \in Nat /\ call' \in {"none", "locate"} /\ counted' \in BOOLEAN
  BY ReadingFacts DEF UnzFound, UnzInv, MovesTo
<1>2. TypeInv'
  BY <1>1, GotoType DEF Looking
<1>3. /\ PlacedInv' /\ CursorInv' /\ cdCur' = p
      /\ scanned' <=> InDirectory(p)
      /\ scanned' => ret' = "OK"
      /\ UNCHANGED <<file, flen, mode, cdSize, opened, entries, health, stub, DirStart>>
  BY Moved
<1>4. ~Writing'
  BY <1>1, <1>3 DEF Writing
<1>5. HandleInv'
  BY <1>1, <1>2, <1>3, <1>4, QuietHandle
<1>6. CursorFound'
  BY <1>1, <1>3 DEF CursorFound, InDirectory
<1>7. CallFound' /\ PlaceFound'
  BY <1>1, <1>3 DEF CallFound, PlaceFound
<1>8. SavedFound'
  BY <1>1, <1>3 DEF SavedFound, InDirectory
<1>9. UnzType' /\ UnzFresh'
  BY <1>1, <1>3 DEF UnzType, UnzFresh
<1> QED
  BY <1>5, <1>6, <1>7, <1>8, <1>9 DEF UnzInv, UnzFound

\* Calls of a reading session that do not move.
LEMMA StayFound ==
  ASSUME UnzInv, mode = "read", TypeInv',
         UNCHANGED <<file, flen, mode, cdStart, cdSize, shift, cdCur, info, scanned, entries,
                     health, stub>>,
         UnzType', CallFound', SavedFound', PlaceFound', call' # "open", call # "open"
  PROVE  UnzInv'
<1>1. CursorFound /\ HandleInv /\ ~Writing /\ Good
  BY ReadingFacts DEF UnzInv, UnzFound
<1>2. ~Writing' /\ DirStart' = DirStart
  BY <1>1 DEF Writing, DirStart
<1>3. HandleInv'
  BY <1>1, <1>2, QuietHandle
<1>4. CursorFound'
  BY <1>1, <1>2 DEF CursorFound, InDirectory, PlacedInv, CursorInv
<1>5. UnzFresh'
  BY DEF UnzFresh
<1> QED
  BY <1>3, <1>4, <1>5 DEF UnzInv, UnzFound
LEMMA FirstMoves ==
  ASSUME UnzInv, unzOpenFirst \/ unzGoToFirstFile \/ \E n \in Names : unzLocateFile(n)
  PROVE  MovesTo(cdStart)
<1>1. mode = "read"
  BY DEF unzOpenFirst, unzGoToFirstFile, unzLocateFile, Idle, UnzInv, UnzFresh
<1>2. cdStart = DirStart /\ DirStart \in Nat
  BY <1>1, ReadingFacts
<1>3. ~opened /\ Goto(cdStart)
  BY DEF unzOpenFirst, unzGoToFirstFile, unzLocateFile, GotoFirstEntry
<1>4. /\ UNCHANGED <<entryPos, totalOut, saved>>
      /\ entryIndex' = entryIndex \/ entryIndex' = 0
      /\ call' = "none" \/ call' = "locate"
      /\ counted' = TRUE \/ counted' = counted
  BY DEF unzOpenFirst, unzGoToFirstFile, unzLocateFile, Idle
<1>5. entryIndex \in Nat /\ counted \in BOOLEAN
  BY DEF UnzInv, UnzType
<1>6. entryIndex' \in Nat /\ call' \in {"none", "locate"}
  BY <1>4, <1>5
<1>7. counted' \in BOOLEAN
  BY <1>4, <1>5, Zenon
<1> QED
  BY <1>1, <1>2, <1>3, <1>4, <1>6, <1>7 DEF MovesTo

LEMMA NextMoves ==
  ASSUME UnzInv,
         \/ unzGoToNextFile
         \/ unzLocateTurn /\ ret = "OK" /\ info.name # sought
  PROVE  MovesTo(cdCur + 1) /\ scanned
<1>1. mode = "read"
  BY DEF unzGoToNextFile, unzLocateTurn, Idle, UnzInv, UnzFresh
<1>2. ~opened /\ scanned /\ Goto(cdCur + 1)
  BY DEF unzGoToNextFile, unzLocateTurn, GotoNextEntry
<1>3. DirStart \in Nat /\ cdCur \in DirStart..(flen - 2) /\ flen \in Nat
  <2>1. /\ DirStart \in Nat /\ CursorInv /\ flen = DirStart + Len(entries) + 1
        /\ Len(entries) \in Nat
    BY <1>1, ReadingFacts DEF UnzFound, CursorFound
  <2> QED
    BY <1>2, <2>1 DEF CursorInv
<1>4. cdCur + 1 \in Nat /\ cdCur + 1 >= DirStart
  BY <1>3
<1>5. entryIndex \in Nat /\ counted \in BOOLEAN
  BY DEF UnzInv, UnzType
<1>6. /\ UNCHANGED <<entryPos, totalOut, saved>>
      /\ entryIndex' \in {entryIndex, entryIndex + 1} /\ call' \in {"none", "locate"}
      /\ counted' = counted
  BY DEF unzGoToNextFile, unzLocateTurn, Idle
<1> QED
  BY <1>1, <1>2, <1>4, <1>5, <1>6 DEF MovesTo

LEMMA BackMoves ==
  ASSUME UnzInv, unzGoToFilePos \/ unzSetOffset
  PROVE  MovesTo(saved.pos) /\ InDirectory(saved.pos) /\ saved.info = InfoOf(file[saved.pos])
<1>1. mode = "read" /\ saved # NoFilePos /\ call = "none" /\ GotoEntry(saved.pos)
  BY DEF unzGoToFilePos, unzSetOffset, Idle
<1>2. /\ DirStart \in Nat /\ flen = DirStart + Len(entries) + 1 /\ Len(entries) \in Nat
      /\ cdStart = DirStart /\ cdSize = Len(entries) /\ SavedFound
  BY <1>1, ReadingFacts DEF UnzFound
<1>3. InDirectory(saved.pos) /\ saved.info = InfoOf(file[saved.pos])
  BY <1>1, <1>2 DEF SavedFound
<1>4. saved.pos \in Nat /\ saved.pos >= DirStart
      /\ ~(saved.pos < cdStart \/ saved.pos > cdStart + cdSize)
  BY <1>2, <1>3 DEF InDirectory
<1>5. ~opened /\ Goto(saved.pos)
  BY <1>1, <1>4 DEF GotoEntry
<1>6. /\ entryIndex \in Nat /\ counted \in BOOLEAN
      /\ saved.num \in Nat /\ saved.counted \in BOOLEAN
  BY DEF UnzInv, UnzType
<1>7. /\ UNCHANGED <<entryPos, totalOut, call, saved>>
      /\ entryIndex' = saved.num \/ entryIndex' = entryIndex
      /\ counted' = saved.counted \/ counted' = counted
         \/ counted' = (counted /\ (cdCur' = cdCur \/ "index after locate" \in Habits))
  BY DEF unzGoToFilePos, unzSetOffset, IndexAt
<1>8. entryIndex' \in Nat /\ call' \in {"none", "locate"}
  BY <1>1, <1>6, <1>7
<1>9. counted' \in BOOLEAN
  BY <1>6, <1>7, Zenon
<1> QED
  BY <1>1, <1>3, <1>4, <1>5, <1>7, <1>8, <1>9 DEF MovesTo
LEMMA OpenFound == ASSUME UnzInv, unzOpen PROVE UnzInv'
<1>1. /\ TypeInv /\ DirectoryInv /\ HandleInv /\ FirstInv /\ stub = 0 /\ UnzType
      /\ mode = "none" /\ call = "none" /\ entryIndex = 0 /\ saved = NoFilePos
      /\ UNCHANGED <<entryIndex, entryPos, totalOut, saved, counted>>
      /\ call' = IF ret' = "OK" THEN "open" ELSE "none"
  BY DEF UnzInv, HandleInv, UnzFresh, unzOpen, ZipOpenRead
<1>2. ZipOpenRead /\ ~Writing
  BY <1>1 DEF unzOpen, Writing
<1>3. TypeInv'
  BY <1>1, <1>2, OpenReadType
<1>4. /\ UNCHANGED <<file, flen, entries, health, stub>>
      /\ \/ mode' = "read" /\ ret' = "OK"
         \/ mode' = mode /\ ret' = "FORMAT"
  BY <1>2 DEF ZipOpenRead, fileVars, ghostVars
<1>5. FirstInv'
  BY <1>1, <1>2, FirstOpen
<1>6. Good \/ mode' = mode
  BY <1>4, <1>5 DEF FirstInv, Good
<1>7. HandleInv'
  BY <1>1, <1>2, <1>3, <1>4, <1>6, QuietHandle DEF Writing
<1>8. UnzType' /\ UnzFresh'
  BY <1>1, <1>4 DEF UnzType, UnzFresh
<1>9. ASSUME mode' = "read" PROVE UnzFound'
  <2>1. Good' /\ call' = "open"
    BY <1>1, <1>4, <1>5, <1>9 DEF FirstInv
  <2>2. PlacedInv' /\ ~scanned' /\ ~opened' /\ cdSize' = Len(entries)
    BY <1>1, <1>2, <1>9, <2>1, OpenReadPlaced
  <2> QED
    BY <1>1, <1>4, <2>1, <2>2
    DEF UnzFound, CursorFound, CursorInv, CallFound, SavedFound, PlaceFound
<1> QED
  BY <1>7, <1>8, <1>9 DEF UnzInv

LEMMA CloseFound == ASSUME UnzInv, unzClose PROVE UnzInv'
<1>1. mode = "read" /\ ZipCloseRead /\ FreshUnz
  BY DEF unzClose, Idle
<1>2. TypeInv /\ HandleInv /\ ~Writing /\ Good
  BY <1>1, ReadingFacts DEF UnzInv
<1>3. TypeInv'
  BY <1>1, <1>2, ReadType DEF ReadNext
<1>4. UNCHANGED <<file, flen, entries, health, stub>> /\ mode' = "none"
  BY <1>1 DEF ZipCloseRead, FreshHandle, fileVars, ghostVars
<1>5. HandleInv'
  BY <1>2, <1>3, <1>4, QuietHandle DEF Writing
<1>6. UnzType' /\ UnzFresh'
  <2>1. /\ entryIndex' = 0 /\ entryPos' = 0 /\ totalOut' = 0 /\ call' = "none"
        /\ saved' = NoFilePos /\ counted' = FALSE
    BY <1>1 DEF FreshUnz
  <2>2. NoFilePos.num \in Nat /\ NoFilePos.counted \in BOOLEAN
    BY DEF NoFilePos
  <2>3. saved'.num \in Nat /\ saved'.counted \in BOOLEAN
    BY <2>1, <2>2, Zenon
  <2>4. counted' \in BOOLEAN
    BY <2>1, Zenon
  <2>5. UnzType'
    BY <2>1, <2>3, <2>4 DEF UnzType
  <2>6. UnzFresh'
    BY <2>1, Zenon DEF UnzFresh, NoFilePos
  <2> QED
    BY <2>5, <2>6
<1> QED
  BY <1>4, <1>5, <1>6 DEF UnzInv

\* What a call that only tells, or is through, leaves.
LEMMA QuietFound ==
  ASSUME UnzInv, mode = "read", UNCHANGED vars, UnzType', SavedFound', call # "open",
         call' = "none", UNCHANGED <<entryPos, totalOut>>
  PROVE  UnzInv'
<1>1. TypeInv /\ PlaceFound
  BY ReadingFacts DEF UnzFound
<1>2. /\ UNCHANGED <<file, flen, mode, pos, cdStart, cdSize, shift, cdCur, info, scanned,
                      opened, crc, ret, entries, health, stub>>
      /\ LocalAt' = LocalAt
  BY DEF vars, fileVars, dirVars, entryVars, ghostVars, LocalAt
<1>3. TypeInv'
  <2>1. [Next]_vars
    OBVIOUS
  <2> QED
    BY <1>1, <2>1, NextType
<1>4. CallFound' /\ PlaceFound'
  BY <1>1, <1>2 DEF CallFound, PlaceFound
<1> QED
  BY <1>2, <1>3, <1>4, StayFound

LEMMA TellFound == ASSUME UnzInv, unzGetFilePos PROVE UnzInv'
<1>1. /\ mode = "read" /\ call = "none" /\ scanned /\ UNCHANGED vars
      /\ UNCHANGED <<entryIndex, entryPos, totalOut, call, counted>>
      /\ saved' = [pos |-> cdCur, num |-> entryIndex, counted |-> counted, info |-> info]
  BY DEF unzGetFilePos, Idle
<1>2. UnzType /\ CursorFound
  BY <1>1, ReadingFacts DEF UnzInv, UnzFound
<1>3. /\ saved'.pos = cdCur /\ saved'.num = entryIndex
      /\ saved'.counted = counted /\ saved'.info = info
  BY <1>1
<1>4. file' = file /\ DirStart' = DirStart /\ flen' = flen
  BY <1>1 DEF vars, fileVars, ghostVars, DirStart
<1>5. SavedFound'
  <2>1. InDirectory(cdCur) /\ info = InfoOf(file[cdCur])
    BY <1>1, <1>2 DEF CursorFound, CursorInv, InDirectory
  <2> QED
    BY <1>3, <1>4, <2>1 DEF SavedFound, InDirectory
<1>6. UnzType'
  <2>1. saved'.num \in Nat /\ saved'.counted \in BOOLEAN
    BY <1>2, <1>3 DEF UnzType
  <2> QED
    BY <1>1, <1>2, <2>1 DEF UnzType
<1> QED
  BY <1>1, <1>5, <1>6, QuietFound

LEMMA LocatedFound ==
  ASSUME UnzInv, unzLocateTurn, ~(ret = "OK" /\ info.name # sought) PROVE UnzInv'
<1>1. /\ call = "locate" /\ call' = "none" /\ UNCHANGED vars
      /\ UNCHANGED <<entryIndex, entryPos, totalOut, saved>>
      /\ counted' = (counted /\ (ret # "OK" \/ "index after locate" \in Habits))
  BY DEF unzLocateTurn
<1>2. mode = "read"
  BY <1>1 DEF UnzInv, UnzFresh
<1>3. UnzType /\ SavedFound
  BY <1>2, ReadingFacts DEF UnzInv, UnzFound
<1>4. counted' \in BOOLEAN
  BY <1>1, Zenon
<1>5. UnzType'
  BY <1>1, <1>3, <1>4 DEF UnzType
<1>6. file' = file /\ DirStart' = DirStart /\ flen' = flen
  BY <1>1 DEF vars, fileVars, ghostVars, DirStart
<1>7. SavedFound'
  BY <1>1, <1>3, <1>6 DEF SavedFound, InDirectory
<1> QED
  BY <1>1, <1>2, <1>5, <1>7, QuietFound

\* The calls that read the entry under the cursor.
LEMMA SavedStays ==
  ASSUME SavedFound, UNCHANGED <<file, flen, entries, saved>> PROVE SavedFound'
BY DEF SavedFound, InDirectory, DirStart

LEMMA ReadCloseFound ==
  ASSUME UnzInv, unzReopen \/ unzCloseCurrentFile PROVE UnzInv'
<1>1. /\ mode = "read" /\ call = "none" /\ EntryReadClose(FALSE) /\ call' \in {"none", "reopen"}
      /\ UNCHANGED <<entryIndex, entryPos, totalOut, saved, counted>>
  BY DEF unzReopen, unzCloseCurrentFile, Idle
<1>2. TypeInv /\ UnzType /\ SavedFound
  BY <1>1, ReadingFacts DEF UnzInv, UnzFound
<1>3. TypeInv'
  BY <1>1, <1>2, ReadType DEF ReadNext
<1>4. /\ UNCHANGED <<file, flen, mode, cdStart, cdSize, shift, cdCur, info, scanned, entries,
                      health, stub>>
      /\ opened' = FALSE
  BY <1>1 DEF EntryReadClose, fileVars, dirVars, ghostVars
<1>5. UnzType'
  BY <1>1, <1>2 DEF UnzType
<1>6. SavedFound'
  BY <1>1, <1>2, <1>4, SavedStays
<1>7. CallFound' /\ PlaceFound'
  BY <1>1, <1>4 DEF CallFound, PlaceFound
<1> QED
  BY <1>1, <1>3, <1>4, <1>5, <1>6, <1>7, StayFound

LEMMA ReadOpenFound ==
  ASSUME UnzInv, unzOpenCurrentFile
  PROVE  UnzInv' /\ scanned /\ got' = <<>>
<1>1. mode = "read" /\ call \in {"none", "reopen"}
  BY DEF unzOpenCurrentFile, Idle, UnzInv, UnzFresh
<1>2. /\ TypeInv /\ DirectoryInv /\ Good /\ UnzType /\ SavedFound /\ PlacedInv /\ CursorInv
  BY <1>1, ReadingFacts DEF UnzInv, UnzFound, CursorFound
<1>3. /\ EntryReadOpen /\ totalOut' = 0 /\ entryPos' = (IF ret' = "OK" THEN pos' ELSE entryPos)
      /\ call' = "none" /\ got' = <<>> /\ UNCHANGED <<entryIndex, saved, counted>>
  BY DEF unzOpenCurrentFile, OutAtOpen
<1>4. /\ opened' = TRUE /\ crc' = <<>> /\ ret' = "OK" /\ pos' = LocalAt + 1 /\ shift' = shift
  BY <1>2, <1>3, EntryOpens
<1>5. /\ UNCHANGED <<file, flen, mode, cdStart, cdSize, cdCur, info, scanned, entries,
                      health, stub>>
      /\ scanned
  BY <1>3 DEF EntryReadOpen, fileVars, ghostVars
<1>6. TypeInv'
  BY <1>2, <1>3, ReadType DEF ReadNext
<1>7. LocalAt \in Nat /\ LocalAt' = LocalAt
  BY <1>1, <1>2, <1>4, <1>5, EntryUnderCursor DEF LocalAt
<1>8. UnzType'
  BY <1>2, <1>3, <1>4, <1>7 DEF UnzType
<1>9. SavedFound'
  BY <1>2, <1>3, <1>5, SavedStays
<1>10. PlaceFound'
  <2>1. Len(crc') = 0 /\ info'.csize \in Nat
    BY <1>4, <1>6 DEF TypeInv, EntryType, Info
  <2>2. pos' = entryPos' + totalOut'
    BY <1>3, <1>4, <1>7
  <2> QED
    BY <1>3, <1>4, <1>5, <1>7, <2>1, <2>2 DEF PlaceFound
<1>11. CallFound'
  BY <1>3 DEF CallFound
<1> QED
  BY <1>1, <1>3, <1>4, <1>5, <1>6, <1>8, <1>9, <1>10, <1>11, StayFound
LEMMA ReadFound == ASSUME UnzInv, unzReadCurrentFile PROVE UnzInv'
<1>1. /\ mode = "read" /\ call = "none" /\ EntryRead /\ totalOut' = totalOut + 1
      /\ UNCHANGED <<entryIndex, entryPos, call, saved, counted>>
  BY DEF unzReadCurrentFile, Idle
<1>2. TypeInv /\ UnzType /\ SavedFound /\ PlaceFound
  BY <1>1, ReadingFacts DEF UnzInv, UnzFound
<1>3. TypeInv'
  BY <1>1, <1>2, ReadType DEF ReadNext
<1>4. /\ UNCHANGED <<file, flen, mode, cdStart, cdSize, shift, cdCur, info, scanned, opened,
                      entries, health, stub>>
      /\ opened /\ Len(crc) < info.csize /\ pos' = pos + 1
      /\ crc' = Append(crc, Payload(file[pos]))
  BY <1>1 DEF EntryRead, fileVars, dirVars, ghostVars
<1>5. UnzType'
  BY <1>1, <1>2 DEF UnzType
<1>6. SavedFound'
  BY <1>1, <1>2, <1>4, SavedStays
<1>7. CallFound'
  BY <1>1 DEF CallFound
<1>8. PlaceFound'
  <2>1. scanned /\ entryPos = LocalAt + 1 /\ pos = entryPos + totalOut /\ LocalAt' = LocalAt
    BY <1>2, <1>4 DEF PlaceFound, LocalAt
  <2>2. info.csize \in Nat /\ crc \in Content
    BY <1>2 DEF TypeInv, EntryType, Info
  <2>3. Len(crc') = Len(crc) + 1 /\ Len(crc) \in Nat
    BY <1>4, <2>2 DEF Content
  <2>4. Len(crc') <= info.csize
    BY <1>4, <2>2, <2>3
  <2>5. entryPos \in Nat /\ totalOut \in Int
    BY <1>2 DEF UnzType
  <2>6. pos' = entryPos' + totalOut'
    BY <1>1, <1>4, <2>1, <2>5
  <2> QED
    BY <1>1, <1>4, <2>1, <2>4, <2>6 DEF PlaceFound
<1> QED
  BY <1>1, <1>3, <1>4, <1>5, <1>6, <1>7, <1>8, StayFound

LEMMA SeekFound ==
  ASSUME UnzInv, NEW o \in {"set", "cur", "end"}, NEW k \in Int, unzSeek(o, k)
  PROVE  UnzInv' /\ got' = <<>>
<1> DEFINE p == SeekPosition(o, k)
<1>1. /\ mode = "read" /\ call = "none" /\ scanned /\ entryPos + p >= 0
      /\ pos' = entryPos + p /\ totalOut' = p /\ ret' = "OK" /\ got' = <<>>
      /\ UNCHANGED <<file, flen, mode, cdMem, cdMemPos, cdInMem, numberEntry, cdStart, cdSize,
                     shift, cdCur, info, scanned, opened, crc, entries, committed, health, stub>>
      /\ UNCHANGED <<entryIndex, entryPos, call, saved, counted>>
  BY DEF unzSeek, Idle, fileVars, dirVars, entryVars, ghostVars
<1>2. TypeInv /\ UnzType /\ SavedFound /\ PlaceFound
  BY <1>1, ReadingFacts DEF UnzInv, UnzFound
<1>3. p \in Int
  <2>1. info.csize \in Nat /\ totalOut \in Int
    BY <1>2 DEF TypeInv, EntryType, Info, UnzType
  <2> QED
    BY <2>1 DEF SeekPosition
<1> HIDE DEF p
<1>4. pos' \in Nat
  BY <1>1, <1>2, <1>3 DEF UnzType
<1>5. TypeInv'
  <2>1. FileType' /\ CallType' /\ DirType' /\ MemType' /\ EntryType' /\ GhostType'
    BY <1>1, <1>2, <1>4
    DEF TypeInv, FileType, CallType, DirType, MemType, EntryType, GhostType
  <2>2. FlagType'
    BY <1>1, <1>2, Zenon DEF TypeInv, FlagType
  <2>3. Writing' = FALSE /\ Writing = FALSE /\ mode' = "read"
    BY <1>1 DEF Writing
  <2>4. FreshWhenClosed' /\ WithinDirectory' /\ NamedWhenOpen'
    BY <2>3 DEF FreshWhenClosed, WithinDirectory, NamedWhenOpen
  <2>5. InMemoryWhenWriting'
    BY <1>1, <1>2, <2>3, Zenon DEF TypeInv, InMemoryWhenWriting
  <2>6. FoundWhenOpen'
    BY <1>1, <1>2 DEF TypeInv, FoundWhenOpen
  <2> QED
    BY <2>1, <2>2, <2>4, <2>5, <2>6 DEF TypeInv
<1>6. UnzType'
  BY <1>1, <1>2, <1>3 DEF UnzType
<1>7. SavedFound'
  BY <1>1, <1>2, SavedStays
<1>8. CallFound'
  BY <1>1 DEF CallFound
<1>9. PlaceFound'
  BY <1>1, <1>2 DEF PlaceFound, LocalAt
<1> QED
  BY <1>1, <1>5, <1>6, <1>7, <1>8, <1>9, StayFound

\* Writing sessions, and the opens that begin them.
LEMMA ZipFound ==
  ASSUME CallerHabits = {}, Zip64Disable \notin Zip64Modes, UnzInv, ZipNext
  PROVE  UnzInv' /\ mode # "read" /\ mode' # "read"
<1>1. mode # "read" /\ mode' # "read"
  <2>1. CASE zipOpen
    BY <2>1 DEF zipOpen, ZipOpenCreate, zipOpenCreateAfter, ZipOpenAppend
  <2>2. CASE ~zipOpen
    <3>1. Writing /\ (mode' = mode \/ mode' = "none")
      BY <2>2 DEF ZipNext, zipClose, zipCloseFileInZip, zipOpenNewFileInZip,
                  zipWriteInFileInZip, ZipCloseWrite, EntryWriteClose, EntryWriteOpen, EntryWrite,
                  FreshHandle
    <3> QED
      BY <3>1 DEF Writing
  <2> QED
    BY <2>1, <2>2
<1>2. HandleInv'
  BY ZipHandle DEF UnzInv
<1>3. UNCHANGED <<entryIndex, entryPos, totalOut, call, saved, counted>>
  BY DEF ZipNext, unzVars
<1>4. UnzType' /\ UnzFresh'
  BY <1>1, <1>3 DEF UnzInv, UnzType, UnzFresh
<1> QED
  BY <1>1, <1>2, <1>4 DEF UnzInv

LEMMA StutterFound == ASSUME UnzInv, UNCHANGED compatVars PROVE UnzInv'
<1>1. UNCHANGED vars /\ UNCHANGED unzVars
  BY DEF compatVars
<1>2. /\ UNCHANGED <<file, flen, mode, pos, cdMem, cdMemPos, cdStart, cdSize, shift, cdCur, info,
                      scanned, opened, crc, ret, numberEntry, entries, health, stub>>
      /\ UNCHANGED <<entryIndex, entryPos, totalOut, call, saved, counted>>
      /\ DirStart' = DirStart
  BY <1>1 DEF vars, fileVars, dirVars, entryVars, ghostVars, unzVars, DirStart
<1>3. TypeInv'
  BY <1>1, NextType DEF UnzInv, HandleInv
<1>4. DirectoryInv'
  BY <1>2 DEF UnzInv, HandleInv, DirectoryInv, Good, Writing, WritingInv, Closing, OpenEntryInv,
              FinishedInv
<1>5. CountInv' /\ FirstInv' /\ SizedInv' /\ stub' = 0
  BY <1>2 DEF UnzInv, HandleInv, CountInv, FirstInv, SizedInv, Good, Writing
<1>6. HandleInv'
  BY <1>3, <1>4, <1>5 DEF HandleInv
<1>7. UnzType' /\ UnzFresh'
  BY <1>2 DEF UnzInv, UnzType, UnzFresh
<1>8. UnzFound => UnzFound'
  BY <1>2 DEF UnzFound, CursorFound, CallFound, SavedFound, PlaceFound, InDirectory, PlacedInv,
              CursorInv, LocalAt
<1> QED
  BY <1>2, <1>6, <1>7, <1>8 DEF UnzInv

LEMMA UnzStep ==
  ASSUME CallerHabits = {}, Zip64Disable \notin Zip64Modes, UnzInv, [CompatNext]_compatVars
  PROVE  UnzInv'
<1>1. CASE ZipNext
  BY <1>1, ZipFound
<1>2. CASE unzOpenFirst \/ unzGoToFirstFile \/ \E n \in Names : unzLocateFile(n)
  BY <1>2, FirstMoves, MoveFound
<1>3. CASE unzGoToNextFile
  BY <1>3, NextMoves, MoveFound
<1>4. CASE unzGoToFilePos \/ unzSetOffset
  BY <1>4, BackMoves, MoveFound
<1>5. CASE unzLocateTurn
  <2>1. CASE ret = "OK" /\ info.name # sought
    BY <1>5, <2>1, NextMoves, MoveFound
  <2>2. CASE ~(ret = "OK" /\ info.name # sought)
    BY <1>5, <2>2, LocatedFound
  <2> QED
    BY <2>1, <2>2
<1>6. CASE unzOpen \/ unzClose \/ unzGetFilePos
  BY <1>6, OpenFound, CloseFound, TellFound
<1>7. CASE unzReopen \/ unzOpenCurrentFile \/ unzReadCurrentFile \/ unzCloseCurrentFile
  BY <1>7, ReadCloseFound, ReadOpenFound, ReadFound
<1>8. ASSUME NEW o \in {"set", "cur", "end"}, NEW k \in -MaxData..MaxData, unzSeek(o, k)
      PROVE  UnzInv'
  <2>1. k \in Int
    BY ConstantsAssumption
  <2> QED
    BY <1>8, <2>1, SeekFound
<1>9. CASE UNCHANGED compatVars
  BY <1>9, StutterFound
<1> QED
  BY <1>1, <1>2, <1>3, <1>4, <1>5, <1>6, <1>7, <1>8, <1>9 DEF CompatNext, UnzNext

LEMMA UnzInit == CompatInit => UnzInv
<1> SUFFICES ASSUME CompatInit PROVE UnzInv
  OBVIOUS
<1>1. /\ Init /\ mode = "none" /\ health = "crashed" /\ stub = 0 /\ opened = FALSE
      /\ flen = 0 /\ entries = <<>> /\ entryIndex = 0 /\ entryPos = 0 /\ totalOut = 0
      /\ call = "none" /\ saved = NoFilePos /\ counted = FALSE
  BY DEF CompatInit, Init
<1>2. TypeInv /\ DirectoryInv /\ FirstInv
  BY <1>1, InitType, InitDirectory, FirstInit
<1>3. CountInv /\ SizedInv
  BY <1>1 DEF CountInv, SizedInv, Good, Writing
<1>4. UnzType
  <2>1. NoFilePos.num \in Nat /\ NoFilePos.counted \in BOOLEAN
    BY DEF NoFilePos
  <2>2. counted \in BOOLEAN
    BY <1>1, Zenon
  <2> QED
    BY <1>1, <2>1, <2>2 DEF UnzType
<1> QED
  BY <1>1, <1>2, <1>3, <1>4 DEF UnzInv, HandleInv, UnzFresh

-----------------------------------------------------------------------------
(* Numbers of entries *)

\* Where no number is used of an entry that was located: the number is that of the entry
\* under the cursor, and the one that was told with a position that of the entry there.
NumbersKept == "index after locate" \notin Habits
NumberInv ==
  /\ mode = "read" /\ call \in {"none", "reopen"} /\ scanned /\ counted =>
       entryIndex = cdCur - cdStart
  /\ saved # NoFilePos /\ saved.counted => saved.num = saved.pos - cdStart

LEMMA StayNumber ==
  ASSUME NumberInv, UNCHANGED <<mode, scanned, counted, entryIndex, cdCur, cdStart, saved>>,
         call' \in {"none", "reopen"} => call \in {"none", "reopen"}
  PROVE  NumberInv'
BY DEF NumberInv

LEMMA NumberStep ==
  ASSUME CallerHabits = {}, Zip64Disable \notin Zip64Modes, NumbersKept,
         UnzInv, UnzInv', NumberInv, [CompatNext]_compatVars
  PROVE  NumberInv'
<1>1. CASE ZipNext
  <2>1. saved' = saved /\ mode # "read" /\ mode' # "read"
    BY <1>1, ZipFound DEF ZipNext, unzVars
  <2>2. saved = NoFilePos
    BY <2>1 DEF UnzInv, UnzFresh
  <2> QED
    BY <2>1, <2>2 DEF NumberInv, NoFilePos
<1>2. CASE unzOpenFirst \/ unzGoToFirstFile \/ \E n \in Names : unzLocateFile(n)
  <2>1. mode = "read" /\ mode' = mode /\ cdCur' = cdStart /\ cdStart' = cdStart /\ saved' = saved
    BY <1>2, FirstMoves, Moved DEF MovesTo
  <2>2. call' \in {"none", "reopen"} => entryIndex' = 0
    <3>1. CASE unzOpenFirst
      BY <2>1, <3>1, ReadingFacts DEF unzOpenFirst, UnzFound, CallFound
    <3>2. CASE ~unzOpenFirst
      BY <1>2, <3>2 DEF unzGoToFirstFile, unzLocateFile
    <3> QED
      BY <3>1, <3>2
  <2>3. cdStart \in Nat
    BY <2>1, ReadingFacts
  <2> QED
    BY <2>1, <2>2, <2>3 DEF NumberInv
<1>3. CASE unzGoToNextFile
  <2>1. /\ mode = "read" /\ mode' = mode /\ cdCur' = cdCur + 1 /\ cdStart' = cdStart
        /\ saved' = saved /\ scanned /\ (scanned' => ret' = "OK")
    BY <1>3, NextMoves, Moved DEF MovesTo
  <2>2. /\ call = "none" /\ counted' = counted
        /\ entryIndex' = IF ret' = "END_OF_LIST" THEN entryIndex ELSE entryIndex + 1
    BY <1>3 DEF unzGoToNextFile, Idle
  <2>3. cdStart \in Nat /\ cdCur \in Nat /\ entryIndex \in Nat
    BY DEF UnzInv, UnzType, HandleInv, TypeInv, DirType
  <2> QED
    BY <2>1, <2>2, <2>3 DEF NumberInv
<1>4. CASE unzGoToFilePos
  <2>1. /\ mode = "read" /\ mode' = mode /\ cdCur' = saved.pos /\ cdStart' = cdStart
        /\ saved' = saved /\ scanned' /\ ret' = "OK"
    BY <1>4, BackMoves, Moved DEF MovesTo
  <2>2. saved # NoFilePos /\ entryIndex' = saved.num /\ counted' = saved.counted
    BY <1>4, <2>1 DEF unzGoToFilePos, IndexAt
  <2> QED
    BY <2>1, <2>2 DEF NumberInv
<1>5. CASE unzSetOffset
  <2>1. /\ mode = "read" /\ mode' = mode /\ cdCur' = saved.pos /\ cdStart' = cdStart
        /\ saved' = saved /\ InDirectory(saved.pos)
    BY <1>5, BackMoves, Moved DEF MovesTo
  <2>2. call = "none" /\ entryIndex' = entryIndex /\ (counted' => counted /\ cdCur' = cdCur)
    BY <1>5 DEF unzSetOffset, Idle, NumbersKept
  <2>3. ~scanned => ~InDirectory(cdCur)
    BY <2>1, <2>2, ReadingFacts DEF UnzFound, CursorFound
  <2> QED
    BY <2>1, <2>2, <2>3 DEF NumberInv
<1>6. CASE unzLocateTurn
  <2>1. CASE ret = "OK" /\ info.name # sought
    <3>1. call = "locate" /\ call' = call
      BY <1>6, <2>1 DEF unzLocateTurn
    <3>2. saved' = saved /\ cdStart' = cdStart
      BY <1>6, <2>1, NextMoves, Moved DEF MovesTo
    <3> QED
      BY <3>1, <3>2 DEF NumberInv
  <2>2. CASE ~(ret = "OK" /\ info.name # sought)
    <3>1. /\ call = "locate" /\ (counted' => ret # "OK") /\ UNCHANGED vars /\ saved' = saved
      BY <1>6, <2>2 DEF unzLocateTurn, NumbersKept
    <3>2. UNCHANGED <<mode, scanned, cdStart>>
      BY <3>1 DEF vars, entryVars, dirVars
    <3>3. mode = "read"
      BY <3>1 DEF UnzInv, UnzFresh
    <3>4. scanned => ret = "OK"
      BY <3>1, <3>3, ReadingFacts DEF UnzFound, CallFound
    <3> QED
      BY <3>1, <3>2, <3>4 DEF NumberInv
  <2> QED
    BY <2>1, <2>2
<1>7. CASE unzGetFilePos
  <2>1. /\ mode = "read" /\ call = "none" /\ scanned /\ UNCHANGED vars
        /\ UNCHANGED <<call, entryIndex, counted>>
        /\ saved' = [pos |-> cdCur, num |-> entryIndex, counted |-> counted, info |-> info]
    BY <1>7 DEF unzGetFilePos, Idle
  <2>2. saved'.pos = cdCur /\ saved'.num = entryIndex /\ (saved'.counted <=> counted)
    BY <2>1
  <2>3. UNCHANGED <<mode, scanned, cdCur, cdStart>>
    BY <2>1 DEF vars, entryVars, dirVars
  <2> QED
    BY <2>1, <2>2, <2>3 DEF NumberInv
<1>8. CASE unzOpen
  <2>1. saved = NoFilePos /\ saved' = saved /\ (mode' = "read" => call' = "open")
    BY <1>8 DEF unzOpen, ZipOpenRead, UnzInv, UnzFresh
  <2> QED
    BY <2>1 DEF NumberInv, NoFilePos
<1>9. CASE unzClose
  <2>1. saved' = NoFilePos /\ mode' = "none"
    BY <1>9 DEF unzClose, FreshUnz, ZipCloseRead, FreshHandle
  <2> QED
    BY <2>1 DEF NumberInv, NoFilePos
<1>10. CASE unzReopen \/ unzCloseCurrentFile \/ unzReadCurrentFile
  BY <1>10, StayNumber
  DEF unzReopen, unzCloseCurrentFile, unzReadCurrentFile, EntryReadClose, EntryRead, Idle, dirVars
<1>11. CASE unzOpenCurrentFile
  BY <1>11, StayNumber DEF unzOpenCurrentFile, EntryReadOpen, Idle
<1>12. ASSUME NEW o \in {"set", "cur", "end"}, NEW k \in -MaxData..MaxData, unzSeek(o, k)
       PROVE  NumberInv'
  BY <1>12, StayNumber DEF unzSeek, Idle, dirVars, entryVars
<1>13. CASE UNCHANGED compatVars
  BY <1>13, StayNumber DEF compatVars, vars, unzVars, dirVars, entryVars
<1> QED
  BY <1>1, <1>2, <1>3, <1>4, <1>5, <1>6, <1>7, <1>8, <1>9, <1>10, <1>11, <1>12, <1>13
  DEF CompatNext, UnzNext
-----------------------------------------------------------------------------
(* What a read hands out *)

\* Where no entry is read on from another place: what the last read handed out is what the
\* entry holds there.
ReadsInOrder == "read after seek" \notin Habits
GotInv ==
  mode = "read" /\ opened /\ got # <<>> =>
    LET data == entries[cdCur - cdStart + 1].data
    IN totalOut \in 1..Len(data) /\ got = <<data[totalOut]>>

\* The stream of an entry that is read in order stands before its next cell.
LEMMA ReadPlace ==
  ASSUME UnzInv, mode = "read", opened, InStep
  PROVE  LET data == entries[cdCur - cdStart + 1].data
         IN /\ totalOut = Len(crc) /\ Len(crc) \in Nat /\ info.csize = Len(data)
            /\ Len(data) \in Nat /\ Len(crc) <= Len(data) /\ info.usize = Len(data)
            /\ Len(crc) < Len(data) =>
                 pos \in 0..(flen - 1) /\ file[pos] = DataCell(data[Len(crc) + 1])
<1> DEFINE e == entries[cdCur - cdStart + 1]
           n == Len(crc)
<1>1. /\ TypeInv /\ DirectoryInv /\ Good /\ PlacedInv /\ CursorInv /\ stub = 0 /\ ~Writing
      /\ scanned /\ entryPos = LocalAt + 1 /\ pos = entryPos + totalOut /\ n <= info.csize
      /\ SizedInv /\ UnzType
  BY ReadingFacts DEF UnzFound, CursorFound, PlaceFound, UnzInv, HandleInv
<1>2. e \in Entry /\ Leads(info, e) /\ LocalAt = info.off + stub /\ LocalAt \in Nat
  BY <1>1, EntryUnderCursor
<1>3. info.usize = info.csize
  <2>1. cdCur \in DirStart..(flen - 2) /\ info = InfoOf(file[cdCur])
    BY <1>1 DEF CursorInv
  <2>2. Sized(file[cdCur])
    BY <1>1, <2>1 DEF SizedInv
  <2> QED
    BY <2>1, <2>2 DEF Sized, InfoOf
<1>4. n \in Nat /\ entryPos \in Nat /\ totalOut \in Int
  BY <1>1 DEF TypeInv, EntryType, Content, UnzType
<1>5. totalOut = n /\ pos = LocalAt + (n + 1)
  BY <1>1, <1>2, <1>4 DEF InStep
<1> HIDE DEF e
<1>6. /\ info.csize = Len(e.data)
      /\ \A j \in 1..Len(e.data) :
           LocalAt + j \in 0..(flen - 1) /\ file[LocalAt + j] = DataCell(e.data[j])
  BY <1>2 DEF Leads
<1>7. Len(e.data) \in Nat
  BY <1>2, EntryFields
<1>8. n < Len(e.data) => n + 1 \in 1..Len(e.data)
  BY <1>4, <1>7
<1> QED
  BY <1>1, <1>3, <1>4, <1>5, <1>6, <1>7, <1>8 DEF e

LEMMA GotStep ==
  ASSUME CallerHabits = {}, Zip64Disable \notin Zip64Modes, ReadsInOrder,
         UnzInv, UnzInv', GotInv, [CompatNext]_compatVars
  PROVE  GotInv'
<1>1. CASE ZipNext
  BY <1>1, ZipFound DEF GotInv
<1>2. ASSUME NEW p, MovesTo(p) PROVE GotInv'
  <2>1. ~opened'
    BY <1>2, Moved DEF MovesTo
  <2> QED
    BY <2>1 DEF GotInv
<1>3. CASE \/ unzOpenFirst \/ unzGoToFirstFile \/ unzGoToNextFile \/ unzGoToFilePos
           \/ unzSetOffset \/ \E n \in Names : unzLocateFile(n)
  BY <1>2, <1>3, FirstMoves, NextMoves, BackMoves
<1>4. ASSUME UNCHANGED <<vars, totalOut, got>> PROVE GotInv'
  BY <1>4 DEF GotInv, vars, entryVars, dirVars, ghostVars
<1>5. CASE unzLocateTurn \/ unzGetFilePos
  BY <1>2, <1>4, <1>5, NextMoves DEF unzLocateTurn, unzGetFilePos
<1>6. CASE unzOpen
  <2>1. mode' = "read" => ret' = "OK"
    BY <1>6 DEF unzOpen, ZipOpenRead, UnzInv, UnzFresh
  <2>2. mode' = "read" => call' = "open"
    BY <1>6, <2>1 DEF unzOpen
  <2>3. mode' = "read" => ~opened'
    BY <2>2 DEF UnzInv, UnzFound, CallFound
  <2> QED
    BY <2>3 DEF GotInv
<1>7. CASE unzClose
  <2>1. mode' = "none"
    BY <1>7 DEF unzClose, ZipCloseRead, FreshHandle
  <2> QED
    BY <2>1 DEF GotInv
<1>8. CASE unzReopen \/ unzCloseCurrentFile
  <2>1. opened' = FALSE
    BY <1>8 DEF unzReopen, unzCloseCurrentFile, EntryReadClose
  <2> QED
    BY <2>1 DEF GotInv
<1>9. ASSUME got' = <<>> PROVE GotInv'
  BY <1>9 DEF GotInv
<1>10. CASE unzOpenCurrentFile
  BY <1>9, <1>10 DEF unzOpenCurrentFile
<1>11. ASSUME NEW o \in {"set", "cur", "end"}, NEW k \in -MaxData..MaxData, unzSeek(o, k)
       PROVE  GotInv'
  BY <1>9, <1>11 DEF unzSeek
<1>12. CASE unzReadCurrentFile
  <2> DEFINE data == entries[cdCur - cdStart + 1].data
             n == Len(crc)
  <2>1. /\ mode = "read" /\ InStep /\ opened /\ n < info.csize
        /\ got' = <<Payload(file[pos])>> /\ totalOut' = totalOut + 1
        /\ UNCHANGED <<entries, cdCur, cdStart>>
    BY <1>12 DEF unzReadCurrentFile, Idle, EntryRead, ReadsInOrder, dirVars, ghostVars
  <2>2. /\ totalOut = n /\ n \in Nat /\ info.csize = Len(data) /\ Len(data) \in Nat
        /\ n < Len(data) => file[pos] = DataCell(data[n + 1])
    BY <2>1, ReadPlace
  <2>3. data' = data
    BY <2>1
  <2> HIDE DEF n
  <2>4. totalOut' = n + 1 /\ n + 1 \in 1..Len(data) /\ file[pos] = DataCell(data[n + 1])
    BY <2>1, <2>2
  <2> HIDE DEF data
  <2>5. Payload(file[pos]) = data[n + 1]
    BY <2>4, PayloadOfData
  <2>6. totalOut' \in 1..Len(data') /\ got' = <<data'[totalOut']>>
    BY <2>1, <2>3, <2>4, <2>5
  <2> QED
    BY <2>6 DEF GotInv, data
<1>13. CASE UNCHANGED compatVars
  BY <1>4, <1>13 DEF compatVars, unzVars
<1> QED
  BY <1>1, <1>3, <1>5, <1>6, <1>7, <1>8, <1>10, <1>11, <1>12, <1>13 DEF CompatNext, UnzNext

-----------------------------------------------------------------------------
(* The theorems *)

\* In an archive that the old interface wrote, where no caller uses the number of an entry it
\* located: whatever was walked, located and opened in between, a position that was told
\* comes with the number of its entry, and going back to it leads to that entry.
THEOREM FilePositionsLeadBack ==
  ASSUME CallerHabits = {}, Zip64Disable \notin Zip64Modes, NumbersKept
  PROVE  CompatSpec => FilePosIsEntry
<1> DEFINE Inv == UnzInv /\ NumberInv
<1>1. CompatInit => Inv
  <2>1. CompatInit => NumberInv
    BY DEF CompatInit, Init, NumberInv, NoFilePos
  <2> QED
    BY <2>1, UnzInit
<1>2. Inv /\ [CompatNext]_compatVars => Inv'
  BY UnzStep, NumberStep
<1>3. ASSUME Inv, Inv', [CompatNext]_compatVars
      PROVE  /\ mode' = "read" /\ call' = "none" /\ scanned' /\ counted' =>
                  entryIndex' = cdCur' - cdStart'
             /\ unzGoToFilePos => ret' = "OK" /\ info' = saved.info
  <2>1. mode' = "read" /\ call' = "none" /\ scanned' /\ counted' =>
          entryIndex' = cdCur' - cdStart'
    BY <1>3 DEF NumberInv
  <2>2. ASSUME unzGoToFilePos PROVE ret' = "OK" /\ info' = saved.info
    BY <1>3, <2>2, BackMoves, Moved
  <2> QED
    BY <2>1, <2>2
<1> HIDE DEF Inv
<1>4. CompatSpec => []Inv
  BY <1>1, <1>2, PTL DEF CompatSpec
<1>5. Inv /\ Inv' /\ [CompatNext]_compatVars =>
        [ /\ mode' = "read" /\ call' = "none" /\ scanned' /\ counted' =>
               entryIndex' = cdCur' - cdStart'
          /\ unzGoToFilePos => ret' = "OK" /\ info' = saved.info ]_compatVars
  BY <1>3
<1> QED
  BY <1>4, <1>5, PTL DEF FilePosIsEntry, CompatSpec

\* In an archive that the old interface wrote, where no caller reads on after a seek: what a
\* read hands out is what the entry holds at the place that is told then, and unzeof says
\* that all of the entry was read exactly when no more of it comes.
THEOREM ReadsAlwaysAtTell ==
  ASSUME CallerHabits = {}, Zip64Disable \notin Zip64Modes, ReadsInOrder
  PROVE  CompatSpec => []ReadsAreAtTell
<1> DEFINE Inv == UnzInv /\ GotInv
<1>1. CompatInit => Inv
  <2>1. CompatInit => GotInv
    BY DEF CompatInit, Init, GotInv
  <2> QED
    BY <2>1, UnzInit
<1>2. Inv /\ [CompatNext]_compatVars => Inv'
  BY UnzStep, GotStep
<1>3. Inv => ReadsAreAtTell
  <2> SUFFICES ASSUME UnzInv, GotInv, mode = "read", opened
               PROVE  LET data == entries[cdCur - cdStart + 1].data IN
                      /\ got # <<>> => totalOut \in 1..Len(data) /\ got = <<data[totalOut]>>
                      /\ InStep \/ "read after seek" \in Habits =>
                           (unzeof <=> ~(Len(crc) < info.csize /\ pos < flen))
    BY DEF ReadsAreAtTell
  <2> DEFINE data == entries[cdCur - cdStart + 1].data
  <2>1. got # <<>> => totalOut \in 1..Len(data) /\ got = <<data[totalOut]>>
    BY DEF GotInv
  <2>2. ASSUME InStep PROVE unzeof <=> ~(Len(crc) < info.csize /\ pos < flen)
    <3>1. /\ totalOut = Len(crc) /\ Len(crc) \in Nat /\ info.csize = Len(data)
          /\ Len(data) \in Nat /\ Len(crc) <= Len(data) /\ info.usize = Len(data)
          /\ Len(crc) < Len(data) => pos \in 0..(flen - 1)
      BY <2>2, ReadPlace
    <3>2. flen \in Nat
      BY ReadingFacts
    <3> HIDE DEF data
    <3> QED
      BY <3>1, <3>2 DEF unzeof
  <2> QED
    BY <2>1, <2>2 DEF ReadsInOrder
<1> HIDE DEF Inv
<1> QED
  BY <1>1, <1>2, <1>3, PTL DEF CompatSpec

-----------------------------------------------------------------------------
(* What the search of recovery meets *)

\* A list of steps that go forwards, up to n, is well defined from each of their places.
LEMMA StepsExist ==
  ASSUME NEW n \in Nat, NEW D \in SUBSET (0..n), n \in D, NEW nx \in [D -> D],
         \A h \in D : h # n => nx[h] > h
  PROVE  \E g : g = [h \in D |-> IF h = n THEN <<>> ELSE <<h>> \o g[nx[h]]]
<1> DEFINE E(k) == {h \in D : h >= n - k}
           Body(g, h) == IF h = n THEN <<>> ELSE <<h>> \o g[nx[h]]
           T == {k \in 0..n : \E g : g = [h \in E(k) |-> Body(g, h)]}
<1>1. 0 \in T
  <2> DEFINE g == [h \in E(0) |-> <<>>]
  <2>1. \A h \in E(0) : h = n
    OBVIOUS
  <2>2. \A h \in E(0) : Body(g, h) = <<>>
    BY <2>1
  <2>3. g = [h \in E(0) |-> Body(g, h)]
    BY <2>2, Zenon
  <2>4. 0 \in 0..n
    OBVIOUS
  <2> HIDE DEF g, E, Body
  <2> QED
    BY <2>3, <2>4
<1>2. ASSUME NEW k \in 0..(n - 1), k \in T PROVE k + 1 \in T
  <2>1. PICK f : f = [h \in E(k) |-> Body(f, h)]
    BY <1>2
  <2> DEFINE g == [h \in E(k + 1) |-> IF h >= n - k THEN f[h] ELSE <<h>> \o f[nx[h]]]
  <2>2. ASSUME NEW h \in E(k + 1) PROVE g[h] = Body(g, h)
    <3>1. h \in D /\ h \in 0..n /\ h >= n - (k + 1) /\ nx[h] \in D /\ nx[h] \in 0..n
      OBVIOUS
    <3>2. CASE h = n
      <4>1. h \in E(k) /\ h >= n - k
        BY <3>1, <3>2
      <4>2. f[h] = Body(f, h)
        BY <2>1, <4>1, Zenon
      <4> QED
        BY <3>2, <4>1, <4>2
    <3>3. CASE h # n
      <4>1. nx[h] \in E(k) /\ nx[h] \in E(k + 1) /\ nx[h] >= n - k
        BY <3>1, <3>3
      <4>2. g[nx[h]] = f[nx[h]]
        BY <4>1
      <4>3. CASE h >= n - k
        <5>1. h \in E(k)
          BY <3>1, <4>3
        <5>2. f[h] = <<h>> \o f[nx[h]]
          BY <2>1, <3>3, <5>1
        <5> QED
          BY <3>3, <4>2, <4>3, <5>2
      <4>4. CASE ~(h >= n - k)
        BY <3>3, <4>2, <4>4
      <4> QED
        BY <4>3, <4>4
    <3> QED
      BY <3>2, <3>3
  <2>3. g = [h \in E(k + 1) |-> g[h]]
    OBVIOUS
  <2> HIDE DEF g
  <2>4. g = [h \in E(k + 1) |-> Body(g, h)]
    BY <2>2, <2>3
  <2>5. k + 1 \in 0..n
    OBVIOUS
  <2> QED
    BY <2>4, <2>5
<1>3. n \in T
  <2> HIDE DEF T
  <2>1. \A k \in 0..n : k \in T
    BY <1>1, <1>2, Numbers!CountUp
  <2>2. n \in 0..n
    OBVIOUS
  <2> QED
    BY <2>1, <2>2
<1>4. E(n) = D
  <2>1. \A h \in D : h >= n - n
    OBVIOUS
  <2> QED
    BY <2>1
<1>5. PICK g : g = [h \in E(n) |-> Body(g, h)]
  <2> HIDE DEF E, Body
  <2> QED
    BY <1>3
<1>6. g = [h \in D |-> Body(g, h)]
  <2> HIDE DEF E, Body
  <2> QED
    BY <1>4, <1>5
<1> QED
  BY <1>6

Headers(f, n) == {q \in 0..(n - 1) : f[q].t = "local"}

LEMMA LocalsFromIs ==
  ASSUME NEW f, NEW n \in Nat,
         \A h \in Headers(f, n) : NextLocal(f, n, h) \in Headers(f, n) \cup {n} /\ NextLocal(f, n, h) > h
  PROVE  LET from == LocalsFrom(f, n) IN
         from = [h \in Headers(f, n) \cup {n} |-> IF h = n THEN <<>> ELSE <<h>> \o from[NextLocal(f, n, h)]]
<1> DEFINE D == Headers(f, n) \cup {n}
           nx == [h \in D |-> IF h = n THEN n ELSE NextLocal(f, n, h)]
           from == LocalsFrom(f, n)
<1>1. D \in SUBSET (0..n) /\ n \in D /\ nx \in [D -> D] /\ \A h \in D : h # n => nx[h] > h
  BY DEF Headers
<1>2. PICK g : g = [h \in D |-> IF h = n THEN <<>> ELSE <<h>> \o g[nx[h]]]
  <2> HIDE DEF D, nx
  <2> QED
    BY <1>1, StepsExist
<1>3. g = [h \in D |-> IF h = n THEN <<>> ELSE <<h>> \o g[NextLocal(f, n, h)]]
  BY <1>2
<1>4. from = CHOOSE x : x = [h \in D |-> IF h = n THEN <<>> ELSE <<h>> \o x[NextLocal(f, n, h)]]
  BY DEF LocalsFrom, Headers
<1> QED
  BY <1>3, <1>4

LEMMA LeastPlace ==
  ASSUME NEW T \in SUBSET Nat, T # {}
  PROVE  LET m == CHOOSE q \in T : \A r \in T : q <= r IN m \in T /\ \A r \in T : m <= r
<1>1. \E q \in T : \A r \in T : q <= r
  BY Numbers!LeastInSet
<1> QED
  BY <1>1, Zenon

\* The first place of a set is the one that is not behind another.
LEMMA LeastIsPlace ==
  ASSUME NEW T \in SUBSET Nat, NEW x \in T, \A r \in T : x <= r
  PROVE  (CHOOSE q \in T : \A r \in T : q <= r) = x
<1> DEFINE m == CHOOSE q \in T : \A r \in T : q <= r
<1>1. m \in T /\ \A r \in T : m <= r
  BY LeastPlace
<1> HIDE DEF m
<1>2. m <= x /\ x <= m /\ m \in Nat /\ x \in Nat
  BY <1>1
<1>3. m = x
  BY <1>2
<1> QED
  BY <1>3 DEF m

LEMMA NextOfIs ==
  ASSUME NEW f, NEW n \in Nat, NEW t, NEW p \in 0..n
  PROVE  /\ NextOf(f, n, t, p) \in p..n
         /\ NextOf(f, n, t, p) < n => f[NextOf(f, n, t, p)].t = t
         /\ \A q \in p..(n - 1) : f[q].t = t /\ (\A r \in p..(q - 1) : f[r].t # t) => NextOf(f, n, t, p) = q
         /\ (\A r \in p..(n - 1) : f[r].t # t) => NextOf(f, n, t, p) = n
<1> DEFINE T == {q \in p..(n - 1) : f[q].t = t}
           m == CHOOSE q \in T : \A r \in T : q <= r
<1>1. NextOf(f, n, t, p) = IF T = {} THEN n ELSE m
  BY DEF NextOf
<1>2. T \in SUBSET Nat
  OBVIOUS
<1>3. T # {} => m \in T
  <2> HIDE DEF T
  <2> QED
    BY <1>2, LeastPlace
<1>4. ASSUME NEW q \in p..(n - 1), f[q].t = t, \A r \in p..(q - 1) : f[r].t # t
      PROVE  T # {} /\ m = q
  <2>1. q \in T
    BY <1>4
  <2>2. \A r \in T : q <= r
    BY <1>4
  <2> HIDE DEF T
  <2> QED
    BY <1>2, <2>1, <2>2, LeastIsPlace
<1> HIDE DEF m
<1>5. T # {} => m \in p..(n - 1) /\ f[m].t = t
  BY <1>3
<1>6. (\A r \in p..(n - 1) : f[r].t # t) => T = {}
  OBVIOUS
<1> HIDE DEF T
<1> QED
  BY <1>1, <1>4, <1>5, <1>6

LEMMA NextLocalIs ==
  ASSUME NEW f, NEW n \in Nat, NEW h \in 0..(n - 1), f[h].csize \in Nat
  PROVE  /\ NextLocal(f, n, h) \in Headers(f, n) \cup {n} /\ NextLocal(f, n, h) > h
         /\ \A q \in (h + 1 + f[h].csize)..(n - 1) :
              /\ f[q].t = "local" /\ (f[h].dd => f[q - 1].t = "descriptor")
              /\ \A r \in (h + 1)..(q - 1) : f[r].t # "local"
              => NextLocal(f, n, h) = q
         /\ (\A r \in (h + 1)..(n - 1) : f[r].t # "local") => NextLocal(f, n, h) = n
<1> DEFINE k == f[h].csize
           T == {q \in (h + 1 + k)..(n - 1) : f[q].t = "local" /\ (f[h].dd => f[q - 1].t = "descriptor")}
           m == CHOOSE q \in T : \A r \in T : q <= r
<1>1. NextLocal(f, n, h) = IF T = {} THEN n ELSE m
  BY DEF NextLocal
<1> HIDE DEF k
<1>2. T \in SUBSET Nat /\ k \in Nat
  BY DEF k
<1>3. T # {} => m \in T
  <2> HIDE DEF T
  <2> QED
    BY <1>2, LeastPlace
<1>4. ASSUME NEW q \in (h + 1 + k)..(n - 1), f[q].t = "local", f[h].dd => f[q - 1].t = "descriptor",
             \A r \in (h + 1)..(q - 1) : f[r].t # "local"
      PROVE  T # {} /\ m = q
  <2>1. q \in T
    BY <1>4
  <2>2. ASSUME NEW r \in T PROVE q <= r
    <3>1. r \in h + 1 + k..(n - 1) /\ f[r].t = "local"
      OBVIOUS
    <3>2. r \notin (h + 1)..(q - 1)
      BY <1>4, <3>1
    <3> QED
      BY <1>2, <3>1, <3>2
  <2> HIDE DEF T
  <2> QED
    BY <1>2, <2>1, <2>2, LeastIsPlace
<1> HIDE DEF m
<1>5. T # {} => m \in (h + 1)..(n - 1) /\ f[m].t = "local"
  BY <1>2, <1>3
<1>6. (\A r \in (h + 1)..(n - 1) : f[r].t # "local") => T = {}
  BY <1>2
<1> HIDE DEF T
<1>7. NextLocal(f, n, h) \in Headers(f, n) \cup {n} /\ NextLocal(f, n, h) > h
  BY <1>1, <1>5 DEF Headers
<1> QED
  BY <1>1, <1>4, <1>6, <1>7 DEF k

-----------------------------------------------------------------------------
(* Entries one behind the other *)

\* The format of every local header and descriptor, where it is one.
OneFormat == Declared \subseteq {0} \/ 0 \notin Declared
Wide == 0 \in Declared

BehindEntry(c, e) == c.off + 1 + Len(e.data) + (IF c.dd THEN 1 ELSE 0)

\* By the directory dir the entries es lie one behind the other, from the beginning up to b.
Chain(dir, es, b) ==
  \A i \in 0..Len(es) :
    (IF i = Len(es) THEN b ELSE dir[i + 1].off) = (IF i = 0 THEN 0 ELSE BehindEntry(dir[i], es[i]))

\* The local header of an entry with a descriptor is as it was when the entry was opened.
Filled(f, c, e) ==
  c.dd => LET l == f[c.off]
              d == f[BehindEntry(c, e) - 1]
          IN /\ l.crc = <<>> /\ l.csize = 0 /\ l.z64 = Wide
             /\ d.csize = Len(e.data) /\ d.z64 = Wide

LaidOut(f, dir, es, b) ==
  /\ Len(dir) = Len(es) /\ Chain(dir, es, b)
  /\ \A i \in 1..Len(es) : DescribedBelow(f, dir[i], 0, es[i], b) /\ Filled(f, dir[i], es[i])

\* What a session that died leaves behind the entries: headers of a directory, or an entry.
Rest(f, b, n) ==
  \/ \A q \in b..(n - 1) : f[q].t = "central"
  \/ b < n /\ f[b].t = "local" /\ \A q \in (b + 1)..(n - 1) : f[q].t = "data"

LEMMA LaidOutEntry ==
  ASSUME NEW f \in [Pos -> Cell], NEW c, NEW e \in Entry, NEW b \in 0..Capacity,
         DescribedBelow(f, c, 0, e, b), Filled(f, c, e)
  PROVE  LET h == c.off
             z == BehindEntry(c, e)
             n == Len(e.data)
         IN /\ h \in Nat /\ n \in Nat /\ z \in Nat /\ h + 1 <= z /\ z <= b /\ c.dd \in BOOLEAN
            /\ c.t = "central" /\ c.name = e.name /\ c.crc = e.data /\ c.csize = n
            /\ f[h].t = "local" /\ f[h].name = e.name /\ f[h].dd = c.dd
            /\ \A q \in (h + 1)..(z - 1) : f[q].t \in {"data", "descriptor"}
            /\ \A i \in 1..n : f[h + i] = DataCell(e.data[i])
            /\ c.dd => /\ z = h + 2 + n /\ f[z - 1].t = "descriptor" /\ f[z - 1].crc = e.data
                       /\ f[z - 1].csize = n /\ f[z - 1].z64 = Wide
                       /\ f[h].crc = <<>> /\ f[h].csize = 0 /\ f[h].z64 = Wide
            /\ ~c.dd => z = h + 1 + n /\ f[h].crc = e.data /\ f[h].csize = n
<1> DEFINE h == c.off
           z == BehindEntry(c, e)
           n == Len(e.data)
<1>1. c \in Cell /\ c.t = "central" /\ h \in Nat /\ c.dd \in BOOLEAN /\ n \in Nat
  BY CentralFields, EntryFields DEF DescribedBelow, Describes
<1>2. z = h + 1 + n + (IF c.dd THEN 1 ELSE 0)
  BY DEF BehindEntry
<1>3. h + n + (IF c.dd THEN 1 ELSE 0) < b /\ h + 0 = h
  BY <1>1 DEF DescribedBelow
<1>4. /\ c.name = e.name /\ c.crc = e.data /\ c.csize = n
      /\ At(f, Capacity, h).t = "local" /\ At(f, Capacity, h).name = e.name
      /\ At(f, Capacity, h).dd = c.dd
      /\ \A i \in 1..n : At(f, Capacity, h + i) = DataCell(e.data[i])
      /\ IF c.dd
         THEN /\ At(f, Capacity, h + n + 1).t = "descriptor"
              /\ At(f, Capacity, h + n + 1).crc = e.data
         ELSE At(f, Capacity, h).crc = e.data /\ At(f, Capacity, h).csize = n
  BY <1>3 DEF DescribedBelow, Describes
<1> HIDE DEF z, n, h
<1>5. ASSUME NEW q \in h..(z - 1) PROVE At(f, Capacity, q) = f[q]
  BY <1>1, <1>2, <1>3, <1>5, CapacityType DEF At
<1>6. h \in h..(z - 1) /\ \A i \in 1..n : h + i \in h..(z - 1)
  BY <1>1, <1>2
<1>7. c.dd => h + n + 1 \in h..(z - 1) /\ z - 1 = h + n + 1
  BY <1>1, <1>2
<1>8. /\ f[h].t = "local" /\ f[h].name = e.name /\ f[h].dd = c.dd
      /\ \A i \in 1..n : f[h + i] = DataCell(e.data[i])
      /\ c.dd => f[z - 1].t = "descriptor" /\ f[z - 1].crc = e.data
      /\ ~c.dd => f[h].crc = e.data /\ f[h].csize = n
  BY <1>4, <1>5, <1>6, <1>7
<1>9. ASSUME NEW q \in (h + 1)..(z - 1) PROVE f[q].t \in {"data", "descriptor"}
  <2>1. CASE q - h \in 1..n
    <3>1. f[h + (q - h)] = DataCell(e.data[q - h])
      BY <1>8, <2>1
    <3>2. h + (q - h) = q
      BY <1>1, <1>2
    <3> QED
      BY <3>1, <3>2 DEF DataCell
  <2>2. CASE q - h \notin 1..n
    <3>1. c.dd /\ q = z - 1
      BY <1>1, <1>2, <2>2
    <3> QED
      BY <1>8, <3>1
  <2> QED
    BY <2>1, <2>2
<1>10. c.dd => /\ f[h].crc = <<>> /\ f[h].csize = 0 /\ f[h].z64 = Wide
               /\ f[z - 1].csize = n /\ f[z - 1].z64 = Wide
  BY DEF Filled, h, z, n
<1>11. z \in Nat /\ h + 1 <= z /\ z <= b /\ (c.dd => z = h + 2 + n) /\ (~c.dd => z = h + 1 + n)
  BY <1>1, <1>2, <1>3
<1> QED
  BY <1>1, <1>4, <1>8, <1>9, <1>10, <1>11 DEF h, z, n

\* What recovery needs of entries that are laid out.
LEMMA LaidOutPlaces ==
  ASSUME NEW f \in [Pos -> Cell], NEW n \in 0..Capacity, NEW b \in 0..n,
         NEW dir \in Seq(Cell), NEW es \in Seq(Entry), LaidOut(f, dir, es, b), Rest(f, b, n)
  PROVE  /\ Len(es) \in Nat
         /\ LET s == NextOf(f, n, "local", 0) IN
            IF es # <<>> THEN s = dir[1].off ELSE s = n \/ (s = b /\ b < n)
         /\ \A i \in 1..Len(es) :
              LET s == NextLocal(f, n, dir[i].off) IN
              /\ dir[i].off \in 0..(n - 1) /\ BehindEntry(dir[i], es[i]) \in 1..n
              /\ f[dir[i].off].t = "local"
              /\ i < Len(es) => s = dir[i + 1].off /\ s = BehindEntry(dir[i], es[i])
              /\ i = Len(es) => BehindEntry(dir[i], es[i]) = b
              /\ i = Len(es) => s = n \/ (s = b /\ b < n)
              /\ i = Len(es) /\ s = n => \A q \in b..(n - 1) : f[q].t = "central"
         /\ b < n /\ f[b].t = "local" => NextLocal(f, n, b) = n
<1> DEFINE N == Len(es)
           z(i) == BehindEntry(dir[i], es[i])
<1>1. N \in Nat /\ Len(dir) = N /\ n \in Nat /\ b \in 0..Capacity /\ n \in Int /\ b \in Nat
  BY CapacityType DEF LaidOut
<1>2. \A i \in 1..N : /\ es[i] \in Entry /\ DescribedBelow(f, dir[i], 0, es[i], b)
                      /\ Filled(f, dir[i], es[i])
  BY DEF LaidOut
<1>3. ASSUME NEW i \in 1..N
      PROVE  LET h == dir[i].off IN
             /\ h \in Nat /\ z(i) \in Nat /\ h + 1 <= z(i) /\ z(i) <= b /\ f[h].t = "local"
             /\ \A q \in (h + 1)..(z(i) - 1) : f[q].t \in {"data", "descriptor"}
             /\ f[h].dd => f[z(i) - 1].t = "descriptor" /\ f[h].csize = 0
             /\ f[h].csize \in Nat /\ h + 1 + f[h].csize <= z(i)
  <2> DEFINE c == dir[i]
             e == es[i]
             k == Len(e.data)
  <2>1. e \in Entry /\ DescribedBelow(f, c, 0, e, b) /\ Filled(f, c, e)
    BY <1>2
  <2> HIDE DEF c, e
  <2>2. /\ c.off \in Nat /\ k \in Nat /\ BehindEntry(c, e) \in Nat /\ c.off + 1 <= BehindEntry(c, e)
        /\ BehindEntry(c, e) <= b /\ f[c.off].t = "local" /\ f[c.off].dd = c.dd /\ c.dd \in BOOLEAN
        /\ \A q \in (c.off + 1)..(BehindEntry(c, e) - 1) : f[q].t \in {"data", "descriptor"}
        /\ c.dd => f[BehindEntry(c, e) - 1].t = "descriptor" /\ f[c.off].csize = 0
        /\ ~c.dd => BehindEntry(c, e) = c.off + 1 + k /\ f[c.off].csize = k
    BY <1>1, <2>1, LaidOutEntry
  <2> HIDE DEF k
  <2>3. f[c.off].csize \in Nat /\ c.off + 1 + f[c.off].csize <= BehindEntry(c, e)
    BY <2>2
  <2> QED
    BY <2>2, <2>3 DEF c, e
<1>4. /\ N = 0 => b = 0
      /\ N > 0 => dir[1].off = 0 /\ z(N) = b
      /\ \A i \in 1..N : i < N => dir[i + 1].off = z(i)
  <2>1. Chain(dir, es, b)
    BY DEF LaidOut
  <2> HIDE DEF N
  <2>2. \A i \in 0..N : (IF i = N THEN b ELSE dir[i + 1].off) = (IF i = 0 THEN 0 ELSE z(i))
    BY <2>1 DEF Chain, N
  <2> HIDE DEF z
  <2>3. 0 \in 0..N /\ N \in 0..N /\ 0 + 1 = 1
    BY <1>1
  <2>4. ASSUME NEW i \in 1..N, i < N PROVE dir[i + 1].off = z(i)
    <3>1. i \in 0..N /\ i # 0 /\ i # N
      BY <1>1, <2>4
    <3> QED
      BY <2>2, <3>1
  <2>5. N = 0 => b = 0
    BY <2>2, <2>3
  <2>6. N > 0 => dir[1].off = 0 /\ z(N) = b
    BY <1>1, <2>2, <2>3
  <2> QED
    BY <2>4, <2>5, <2>6
<1> HIDE DEF z
<1>5. \/ \A q \in b..(n - 1) : f[q].t = "central"
      \/ b < n /\ f[b].t = "local" /\ \A q \in (b + 1)..(n - 1) : f[q].t = "data"
  BY DEF Rest
<1>6. es # <<>> <=> N > 0
  BY <1>1
<1> HIDE DEF N
<1> DEFINE first == NextOf(f, n, "local", 0)
<1>7. ASSUME N = 0 PROVE first = n \/ (first = b /\ b < n)
  <2>1. b = 0 /\ 0 \in 0..n
    BY <1>1, <1>4, <1>7
  <2>2. ASSUME \A q \in b..(n - 1) : f[q].t = "central" PROVE first = n
    BY <1>1, <2>1, <2>2, NextOfIs
  <2>3. ASSUME b < n, f[b].t = "local" PROVE first = b
    <3>1. b \in 0..(n - 1) /\ \A r \in 0..(b - 1) : FALSE
      BY <1>1, <2>1, <2>3
    <3> QED
      BY <1>1, <2>1, <2>3, <3>1, NextOfIs
  <2> QED
    BY <1>5, <2>2, <2>3
<1>8. ASSUME N > 0 PROVE NextOf(f, n, "local", 0) = dir[1].off
  <2>1. 1 \in 1..N
    BY <1>1, <1>8
  <2>2. f[0].t = "local" /\ 0 \in 0..(n - 1) /\ 0 \in 0..n
    BY <1>1, <1>3, <1>4, <1>8, <2>1
  <2>3. \A r \in 0..(0 - 1) : FALSE
    OBVIOUS
  <2> QED
    BY <1>1, <1>4, <1>8, <2>2, <2>3, NextOfIs
<1>9. ASSUME NEW i \in 1..N
      PROVE  LET s == NextLocal(f, n, dir[i].off) IN
              /\ dir[i].off \in 0..(n - 1) /\ z(i) \in 1..n
              /\ i < N => s = dir[i + 1].off /\ s = z(i)
              /\ i = N => s = n \/ (s = b /\ b < n)
              /\ i = N /\ s = n => \A q \in b..(n - 1) : f[q].t = "central"
  <2> DEFINE h == dir[i].off
             y == z(i)
  <2>1. /\ h \in Nat /\ y \in Nat /\ h + 1 <= y /\ y <= b /\ f[h].t = "local"
        /\ \A q \in (h + 1)..(y - 1) : f[q].t \in {"data", "descriptor"}
        /\ f[h].dd => f[y - 1].t = "descriptor"
        /\ f[h].csize \in Nat /\ h + 1 + f[h].csize <= y
    BY <1>3
  <2>2. i = N => y = b
    BY <1>4
  <2>3. i < N => dir[i + 1].off = y /\ f[y].t = "local" /\ y < b
    <3> SUFFICES ASSUME i < N PROVE dir[i + 1].off = y /\ f[y].t = "local" /\ y < b
      OBVIOUS
    <3>1. dir[i + 1].off = y /\ i + 1 \in 1..N
      BY <1>1, <1>4
    <3>2. f[y].t = "local" /\ y + 1 <= z(i + 1) /\ z(i + 1) <= b /\ z(i + 1) \in Nat
      BY <1>3, <3>1
    <3> QED
      BY <1>1, <2>1, <3>1, <3>2
  <2> HIDE DEF h, y
  <2>4. h \in 0..(n - 1) /\ y \in 1..n
    BY <1>1, <2>1
  <2>5. y < n /\ f[y].t = "local" => NextLocal(f, n, h) = y
    <3> SUFFICES ASSUME y < n, f[y].t = "local" PROVE NextLocal(f, n, h) = y
      OBVIOUS
    <3>1. y \in (h + 1 + f[h].csize)..(n - 1)
      BY <1>1, <2>1
    <3>2. \A r \in (h + 1)..(y - 1) : f[r].t # "local"
      BY <2>1
    <3> QED
      BY <1>1, <2>1, <2>4, <3>1, <3>2, NextLocalIs
  <2>6. (\A q \in y..(n - 1) : f[q].t = "central") => NextLocal(f, n, h) = n
    <3> SUFFICES ASSUME \A q \in y..(n - 1) : f[q].t = "central" PROVE NextLocal(f, n, h) = n
      OBVIOUS
    <3>1. ASSUME NEW r \in (h + 1)..(n - 1) PROVE f[r].t # "local"
      <4>1. r \in (h + 1)..(y - 1) \/ r \in y..(n - 1)
        BY <1>1, <2>1
      <4> QED
        BY <2>1, <4>1
    <3> QED
      BY <1>1, <2>1, <2>4, <3>1, NextLocalIs
  <2>7. i = N \/ i < N
    BY <1>1
  <2> QED
    BY <1>1, <1>5, <2>1, <2>2, <2>3, <2>4, <2>5, <2>6, <2>7 DEF h, y
<1>10. ASSUME b < n, f[b].t = "local" PROVE NextLocal(f, n, b) = n
  <2>1. f[b].csize \in Nat
    <3>1. f[b] \in Cell
      BY <1>1, <1>10, CapacityType DEF Pos
    <3> QED
      BY <1>10, <3>1 DEF Cell, Hole
  <2>2. \A q \in (b + 1)..(n - 1) : f[q].t = "data"
    <3>1. b \in b..(n - 1)
      BY <1>1, <1>10
    <3> QED
      BY <1>5, <1>10, <3>1
  <2>3. b \in 0..(n - 1)
    BY <1>1, <1>10
  <2> QED
    BY <1>1, <2>1, <2>2, <2>3, NextLocalIs
<1>11. \A i \in 1..N : f[dir[i].off].t = "local"
  BY <1>3
<1>12. \A i \in 1..N : i = N => z(i) = b
  BY <1>4
<1> QED
  BY <1>1, <1>6, <1>7, <1>8, <1>9, <1>10, <1>11, <1>12 DEF N, z

\* The search of recovery meets the local header of every entry, in order, and at most one more.
LEMMA LocalsAre ==
  ASSUME NEW f \in [Pos -> Cell], NEW n \in 0..Capacity, NEW b \in 0..n,
         NEW dir \in Seq(Cell), NEW es \in Seq(Entry), LaidOut(f, dir, es, b), Rest(f, b, n)
  PROVE  LET hs == LocalsFrom(f, n)[NextOf(f, n, "local", 0)] IN
         /\ hs \in Seq(Int) /\ Len(hs) \in Nat /\ Len(es) <= Len(hs) /\ Len(hs) <= Len(es) + 1
         /\ \A i \in 1..Len(es) : hs[i] = dir[i].off
<1> DEFINE N == Len(es)
           D == Headers(f, n) \cup {n}
           g == LocalsFrom(f, n)
           last == IF N = 0 THEN NextOf(f, n, "local", 0) ELSE NextLocal(f, n, dir[N].off)
           place(m) == IF m < N THEN dir[m + 1].off ELSE last
           Is(x, k) == /\ x \in Seq(Int) /\ k <= Len(x) /\ Len(x) <= k + 1
                       /\ \A j \in 1..k : x[j] = dir[N - k + j].off
           T == {k \in 0..N : Is(g[place(N - k)], k)}
<1>1. n \in Nat /\ b \in Nat /\ N \in Nat /\ (es = <<>> <=> N = 0)
  BY CapacityType
<1>2. ASSUME NEW h \in Headers(f, n)
      PROVE  NextLocal(f, n, h) \in Headers(f, n) \cup {n} /\ NextLocal(f, n, h) > h
  <2>1. h \in 0..(n - 1) /\ f[h] \in Cell /\ f[h].t = "local"
    BY <1>1, <1>2, CapacityType DEF Headers, Pos
  <2>2. f[h].csize \in Nat
    BY <2>1 DEF Cell, Hole
  <2> QED
    BY <1>1, <2>1, <2>2, NextLocalIs
<1>3. g = [h \in D |-> IF h = n THEN <<>> ELSE <<h>> \o g[NextLocal(f, n, h)]]
  BY <1>1, <1>2, LocalsFromIs
<1> HIDE DEF g
<1>4. g[n] = <<>> /\ \A h \in Headers(f, n) : h # n /\ g[h] = <<h>> \o g[NextLocal(f, n, h)]
  <2>1. \A h \in Headers(f, n) : h # n
    BY <1>1 DEF Headers
  <2> QED
    BY <1>3, <2>1
<1>5. /\ IF N > 0 THEN NextOf(f, n, "local", 0) = dir[1].off ELSE last = n \/ (last = b /\ b < n)
      /\ \A i \in 1..N : /\ dir[i].off \in 0..(n - 1) /\ f[dir[i].off].t = "local"
                         /\ i < N => NextLocal(f, n, dir[i].off) = dir[i + 1].off
                         /\ i = N => last = NextLocal(f, n, dir[i].off) /\ (last = n \/ (last = b /\ b < n))
      /\ b < n /\ f[b].t = "local" => NextLocal(f, n, b) = n
  BY <1>1, LaidOutPlaces
<1>6. last = n \/ (last = b /\ b < n /\ f[b].t = "local" /\ NextLocal(f, n, b) = n)
  <2>1. last = n \/ (last = b /\ b < n)
    BY <1>1, <1>5
  <2>2. last \in Headers(f, n) \cup {n}
    <3>1. CASE N = 0
      <4>1. 0 \in 0..n /\ last = NextOf(f, n, "local", 0)
        BY <1>1, <3>1
      <4>2. last \in 0..n /\ (last < n => f[last].t = "local")
        BY <1>1, <4>1, NextOfIs
      <4> HIDE DEF last
      <4> QED
        BY <1>1, <4>2 DEF Headers
    <3>2. CASE N > 0
      <4>1. dir[N].off \in Headers(f, n) /\ last = NextLocal(f, n, dir[N].off)
        BY <1>1, <1>5, <3>2 DEF Headers
      <4> QED
        BY <1>2, <4>1
    <3> QED
      BY <1>1, <3>1, <3>2
  <2> HIDE DEF last
  <2> QED
    BY <1>1, <1>5, <2>1, <2>2 DEF Headers
<1>7. Is(g[last], 0)
  <2>1. CASE last = n
    <3>1. g[last] = <<>>
      BY <1>4, <2>1
    <3> DEFINE x == g[last]
    <3> HIDE DEF x
    <3>2. x = <<>>
      BY <3>1 DEF x
    <3>3. x \in Seq(Int) /\ Len(x) = 0 /\ 1..0 = {}
      BY <3>2
    <3>4. Is(x, 0)
      BY <3>3
    <3> HIDE DEF Is
    <3> QED
      BY <3>4 DEF x
  <2>2. CASE last = b /\ b < n /\ f[b].t = "local" /\ NextLocal(f, n, b) = n
    <3>1. b \in Headers(f, n)
      BY <1>1, <2>2 DEF Headers
    <3>2. g[last] = <<b>> \o <<>>
      BY <1>4, <2>2, <3>1
    <3>3. <<b>> \o <<>> = <<b>>
      OBVIOUS
    <3>4. <<b>> \in Seq(Int) /\ Len(<<b>>) = 1
      BY <1>1
    <3> QED
      BY <3>2, <3>3, <3>4
  <2> QED
    BY <1>6, <2>1, <2>2
<1> HIDE DEF last
<1>8. 0 \in T
  <2>1. place(N - 0) = last /\ 0 \in 0..N
    BY <1>1
  <2> HIDE DEF place, Is
  <2> QED
    BY <1>7, <2>1
<1>9. ASSUME NEW k \in 0..(N - 1), k \in T PROVE k + 1 \in T
  <2> DEFINE m == N - k
             h == dir[m].off
             x == g[place(m)]
  <2>1. /\ k \in Nat /\ m \in 1..N /\ k + 1 \in 0..N /\ N - (k + 1) = m - 1
        /\ m - 1 < N /\ m - 1 + 1 = m /\ m = N - k
    BY <1>1
  <2>2. x \in Seq(Int) /\ k <= Len(x) /\ Len(x) <= k + 1 /\ \A j \in 1..k : x[j] = dir[m + j].off
    BY <1>9
  <2>3. place(m - 1) = h
    BY <2>1
  <2>4. h \in 0..(n - 1) /\ h \in Headers(f, n) /\ NextLocal(f, n, h) = place(m)
    <3>1. /\ h \in 0..(n - 1) /\ f[h].t = "local"
          /\ m < N => NextLocal(f, n, h) = dir[m + 1].off
          /\ m = N => last = NextLocal(f, n, h)
      BY <1>5, <2>1
    <3>2. m < N \/ (m = N /\ ~(m < N))
      <4> HIDE DEF m, N
      <4> QED
        BY <1>1, <2>1
    <3>3. NextLocal(f, n, h) = place(m)
      BY <3>1, <3>2
    <3>4. h \in Headers(f, n)
      BY <3>1 DEF Headers
    <3> QED
      BY <3>1, <3>3, <3>4
  <2> HIDE DEF place, m
  <2> HIDE DEF h
  <2>5. g[h] = <<h>> \o x
    BY <1>4, <2>4
  <2> HIDE DEF x
  <2> DEFINE y == <<h>> \o x
  <2>6. h \in Int /\ Len(x) \in Nat
    BY <1>1, <2>2, <2>4
  <2>7. y \in Seq(Int) /\ Len(y) = Len(x) + 1 /\ y[1] = h /\ \A j \in 1..Len(x) : y[j + 1] = x[j]
    BY <2>2, <2>6
  <2> HIDE DEF y
  <2>8. ASSUME NEW j \in 1..(k + 1) PROVE y[j] = dir[N - (k + 1) + j].off
    <3>1. CASE j = 1
      BY <2>1, <2>7, <3>1 DEF h
    <3>2. CASE j # 1
      <4>1. j - 1 \in 1..k /\ j - 1 \in 1..Len(x) /\ (j - 1) + 1 = j /\ m + (j - 1) = N - (k + 1) + j
        BY <1>1, <2>1, <2>2, <2>6, <3>2
      <4> QED
        BY <2>2, <2>7, <4>1
    <3> QED
      BY <3>1, <3>2
  <2>9. k + 1 <= Len(y) /\ Len(y) <= k + 2
    BY <2>1, <2>2, <2>6, <2>7
  <2>10. Is(y, k + 1)
    <3>1. (k + 1) + 1 = k + 2
      BY <2>1
    <3> QED
      BY <2>7, <2>8, <2>9, <3>1
  <2>11. g[place(N - (k + 1))] = y
    BY <2>1, <2>3, <2>5 DEF y
  <2> HIDE DEF Is
  <2> QED
    BY <2>1, <2>10, <2>11
<1>10. N \in T
  <2> HIDE DEF T
  <2>1. \A k \in 0..N : k \in T
    BY <1>1, <1>8, <1>9, Numbers!CountUp
  <2>2. N \in 0..N
    BY <1>1
  <2> QED
    BY <2>1, <2>2
<1>11. place(0) = NextOf(f, n, "local", 0)
  BY <1>1, <1>5 DEF last
<1>12. Is(g[NextOf(f, n, "local", 0)], N)
  <2> HIDE DEF Is, place
  <2>1. N - N = 0
    BY <1>1
  <2> QED
    BY <1>10, <1>11, <2>1
<1> DEFINE hs == g[NextOf(f, n, "local", 0)]
<1> HIDE DEF hs
<1>13. hs \in Seq(Int) /\ N <= Len(hs) /\ Len(hs) <= N + 1 /\ \A j \in 1..N : hs[j] = dir[N - N + j].off
  BY <1>12 DEF hs
<1>14. \A j \in 1..N : N - N + j = j
  BY <1>1
<1>15. Len(hs) \in Nat
  BY <1>13
<1> QED
  BY <1>13, <1>14, <1>15 DEF hs, g, N

LEMMA LaidOutRebuilt ==
  ASSUME NEW f \in [Pos -> Cell], NEW n \in 0..Capacity, NEW b \in 0..n,
         NEW dir \in Seq(Cell), NEW es \in Seq(Entry), LaidOut(f, dir, es, b), Rest(f, b, n),
         NEW i \in 1..Len(es), NEW wide \in BOOLEAN, wide => Wide
  PROVE  /\ LET r == Rebuilt(f, n, dir[i].off, wide) IN
            /\ Describes(f, r, 0, es[i]) /\ r.off \in Nat /\ r.dd \in BOOLEAN
            /\ r.off + Len(es[i].data) + (IF r.dd THEN 1 ELSE 0) < n
         /\ HasDescriptor(f, n, dir[i].off) => f[dir[i].off].z64 = Wide
<1> DEFINE c == dir[i]
           e == es[i]
           h == c.off
           k == Len(e.data)
           z == BehindEntry(c, e)
           s == NextLocal(f, n, h)
<1>1. n \in Nat /\ b \in Nat /\ b \in 0..Capacity /\ Len(es) \in Nat
  BY CapacityType
<1>2. e \in Entry /\ DescribedBelow(f, c, 0, e, b) /\ Filled(f, c, e)
  BY DEF LaidOut
<1>3. /\ h \in 0..(n - 1) /\ z \in 1..n
      /\ i < Len(es) => s = z /\ z < n
      /\ i = Len(es) => z = b /\ (s = n \/ (s = b /\ b < n))
      /\ i = Len(es) /\ s = n => \A q \in b..(n - 1) : f[q].t = "central"
  <2>1. i < Len(es) => i + 1 \in 1..Len(es) /\ dir[i + 1].off \in 0..(n - 1)
    BY <1>1, LaidOutPlaces
  <2> QED
    BY <1>1, <2>1, LaidOutPlaces
<1> HIDE DEF c, e, s
<1>4. /\ h \in Nat /\ k \in Nat /\ z \in Nat /\ h + 1 <= z /\ z <= b /\ c.dd \in BOOLEAN
      /\ c.t = "central" /\ c.name = e.name /\ c.crc = e.data /\ c.csize = k
      /\ f[h].t = "local" /\ f[h].name = e.name /\ f[h].dd = c.dd
      /\ \A q \in (h + 1)..(z - 1) : f[q].t \in {"data", "descriptor"}
      /\ \A j \in 1..k : f[h + j] = DataCell(e.data[j])
      /\ c.dd => /\ z = h + 2 + k /\ f[z - 1].t = "descriptor" /\ f[z - 1].crc = e.data
                 /\ f[z - 1].csize = k /\ f[z - 1].z64 = Wide
                 /\ f[h].crc = <<>> /\ f[h].csize = 0 /\ f[h].z64 = Wide
      /\ ~c.dd => z = h + 1 + k /\ f[h].crc = e.data /\ f[h].csize = k
  BY <1>1, <1>2, LaidOutEntry
<1> HIDE DEF h, k, z
<1>5. EntryEnd(f, n, h) = z
  <2>1. CASE s < n
    <3>1. s = z
      BY <1>1, <1>3, <2>1
    <3> QED
      BY <2>1, <3>1 DEF EntryEnd, s
  <2>2. CASE ~(s < n)
    <3>1. i = Len(es) /\ z = b /\ s = n /\ \A q \in b..(n - 1) : f[q].t = "central"
      BY <1>1, <1>3, <2>2
    <3>2. EntryEnd(f, n, h) = NextOf(f, n, "central", h + 1)
      BY <2>2 DEF EntryEnd, s
    <3>3. h + 1 \in 0..n
      BY <1>1, <1>3
    <3>4. \A q \in (h + 1)..(z - 1) : f[q].t # "central"
      BY <1>4
    <3>5. CASE z < n
      <4>1. z \in (h + 1)..(n - 1) /\ f[z].t = "central"
        BY <1>1, <1>3, <1>4, <3>1, <3>5
      <4> QED
        BY <1>1, <3>2, <3>3, <3>4, <4>1, NextOfIs
    <3>6. CASE z = n
      BY <1>1, <3>2, <3>3, <3>4, <3>6, NextOfIs
    <3> QED
      BY <1>1, <1>3, <3>5, <3>6
  <2> QED
    BY <2>1, <2>2
<1>6. HasDescriptor(f, n, h) <=> c.dd
  <2>1. HasDescriptor(f, n, h) <=> (f[h].dd \/ f[h].csize = 0) /\ f[z - 1].t = "descriptor"
    BY <1>5 DEF HasDescriptor
  <2>2. ~c.dd /\ f[h].csize = 0 => f[z - 1].t = "local"
    <3> SUFFICES ASSUME ~c.dd, f[h].csize = 0 PROVE f[z - 1].t = "local"
      OBVIOUS
    <3>1. z - 1 = h
      BY <1>4
    <3> QED
      BY <1>4, <3>1
  <2> QED
    BY <1>4, <2>1, <2>2
<1> DEFINE r == Rebuilt(f, n, h, wide)
<1>7. /\ r.t = "central" /\ r.name = e.name /\ r.dd = c.dd /\ r.off = h
      /\ r.crc = e.data /\ r.csize = k
  <2> DEFINE d == f[z - 1]
             misread == wide /\ ~d.z64
             read == HasDescriptor(f, n, h) /\ ~(misread /\ z = n)
             size == IF misread /\ d.csize > 0 THEN U32 ELSE d.csize
  <2>1. r = [t |-> "central", name |-> f[h].name, dd |-> f[h].dd, off |-> h,
             crc   |-> IF read /\ f[h].crc = <<>> THEN d.crc ELSE f[h].crc,
             csize |-> IF read /\ f[h].csize = 0 THEN size ELSE f[h].csize,
             usize |-> IF read /\ f[h].usize = 0 THEN size ELSE f[h].usize]
    BY <1>5 DEF Rebuilt
  <2>2. c.dd => ~misread
    BY <1>4
  <2>3. c.dd => read /\ size = d.csize
    BY <1>6, <2>2
  <2>4. ~c.dd => ~read
    BY <1>6
  <2> HIDE DEF read, size, d, misread
  <2>5. c.dd => d.crc = e.data /\ d.csize = k
    BY <1>4 DEF d
  <2>6. /\ r.t = "central" /\ r.name = f[h].name /\ r.dd = f[h].dd /\ r.off = h
        /\ r.crc = IF read /\ f[h].crc = <<>> THEN d.crc ELSE f[h].crc
        /\ r.csize = IF read /\ f[h].csize = 0 THEN size ELSE f[h].csize
    BY <2>1
  <2> HIDE DEF r
  <2> QED
    BY <1>4, <2>3, <2>4, <2>5, <2>6
<1> HIDE DEF r
<1>8. Describes(f, r, 0, e)
  <2>1. ASSUME NEW q \in h..(z - 1) PROVE At(f, Capacity, q) = f[q]
    BY <1>1, <1>4, <2>1, CapacityType DEF At
  <2>2. h \in h..(z - 1) /\ \A j \in 1..k : h + j \in h..(z - 1)
    BY <1>4
  <2>3. c.dd => h + k + 1 \in h..(z - 1) /\ z - 1 = h + k + 1
    BY <1>4
  <2>4. r.off + 0 = h
    BY <1>4, <1>7
  <2> QED
    BY <1>4, <1>7, <2>1, <2>2, <2>3, <2>4 DEF Describes, k
<1>9. HasDescriptor(f, n, h) => f[h].z64 = Wide
  BY <1>4, <1>6
<1>10. r.off \in Nat /\ r.dd \in BOOLEAN /\ r.off + k + (IF r.dd THEN 1 ELSE 0) < n
  BY <1>1, <1>3, <1>4, <1>7
<1> QED
  BY <1>8, <1>9, <1>10 DEF r, h, c, e, k

\* Recovery finds every entry that is laid out, in order, and at most one more.
Regains(f, r, es, n) ==
  /\ Len(r) \in Nat /\ Len(es) <= Len(r) /\ Len(r) <= Len(es) + 1
  /\ \A i \in 1..Len(es) :
       /\ Describes(f, r[i], 0, es[i]) /\ r[i].off \in Nat /\ r[i].dd \in BOOLEAN
       /\ r[i].off + Len(es[i].data) + (IF r[i].dd THEN 1 ELSE 0) < n

LEMMA Regained ==
  ASSUME NEW f \in [Pos -> Cell], NEW n \in 0..Capacity, NEW b \in 0..n,
         NEW dir \in Seq(Cell), NEW es \in Seq(Entry), LaidOut(f, dir, es, b), Rest(f, b, n)
  PROVE  Regains(f, Recovered(f, n, 0), es, n)
<1> DEFINE hs == LocalsFrom(f, n)[NextOf(f, n, "local", 0)]
           wide(i) == Zip64At(f, n, hs, i)
           r == Recovered(f, n, 0)
<1>1. /\ hs \in Seq(Int) /\ Len(hs) \in Nat /\ Len(es) <= Len(hs) /\ Len(hs) <= Len(es) + 1
      /\ \A i \in 1..Len(es) : hs[i] = dir[i].off
  BY LocalsAre
<1>2. r = [i \in 1..Len(hs) |-> Rebuilt(f, n, hs[i], wide(i))]
  BY DEF Recovered
<1> HIDE DEF hs, r
<1>3. Len(r) = Len(hs)
  BY <1>1, <1>2
<1>4. ASSUME NEW i \in 1..Len(es) PROVE wide(i) \in BOOLEAN /\ (wide(i) => Wide)
  <2>1. ASSUME NEW j \in 1..i, HasDescriptor(f, n, hs[j]), f[hs[j]].z64 PROVE Wide
    <3>1. j \in 1..Len(es)
      BY <1>1
    <3>2. hs[j] = dir[j].off
      BY <1>1, <3>1
    <3>3. FALSE \in BOOLEAN /\ (FALSE => Wide)
      OBVIOUS
    <3>4. HasDescriptor(f, n, dir[j].off) => f[dir[j].off].z64 = Wide
      BY <3>1, <3>3, LaidOutRebuilt
    <3> QED
      BY <2>1, <3>2, <3>4
  <2> QED
    BY <2>1 DEF Zip64At
<1>5. ASSUME NEW i \in 1..Len(es)
      PROVE  /\ Describes(f, r[i], 0, es[i]) /\ r[i].off \in Nat /\ r[i].dd \in BOOLEAN
             /\ r[i].off + Len(es[i].data) + (IF r[i].dd THEN 1 ELSE 0) < n
  <2>1. i \in 1..Len(hs) /\ hs[i] = dir[i].off
    BY <1>1
  <2>2. wide(i) \in BOOLEAN /\ (wide(i) => Wide)
    BY <1>4
  <2>3. r[i] = Rebuilt(f, n, dir[i].off, wide(i))
    BY <1>2, <2>1
  <2> HIDE DEF wide
  <2> QED
    BY <2>2, <2>3, LaidOutRebuilt
<1> QED
  BY <1>1, <1>3, <1>5 DEF Regains, r

-----------------------------------------------------------------------------
(* Every session lays its entries out *)

\* A file f of length n, written up to p, has no gap, and what is left of an older
\* archive ends with the record that ended it.
Remains(f, p, n) ==
  /\ \A q \in 0..(n - 1) : f[q].t # "hole"
  /\ n = p \/ /\ f[n - 1].t = "end" /\ f[n - 1].off \in 0..(n - 1)
              /\ f[n - 1].size = n - 1 - f[n - 1].off

Laid(f, p, n, b, mem, es) ==
  /\ Chain(mem, es, b) /\ (\A i \in 1..Len(es) : Filled(f, mem[i], es[i]))
  /\ Remains(f, p, n)

\* The local header of the open entry has no sizes yet.
OpenLaid ==
  /\ file[info.off].crc = <<>> /\ file[info.off].csize = 0
  /\ file[info.off].z64 = Wide /\ LocalZip64(info) = Wide

FinishedDir == [i \in 1..Len(entries) |-> file[DirStart + i - 1]]
LayoutInv ==
  Good => IF Writing
          THEN Laid(file, pos, flen, Closing, cdMem, entries) /\ (opened => OpenLaid)
          ELSE stub = 0 => /\ Chain(FinishedDir, entries, DirStart)
                           /\ \A i \in 1..Len(entries) : Filled(file, FinishedDir[i], entries[i])

\* What a session that died leaves is found by its end record, or laid out.
CrashedInv ==
  health = "crashed" =>
    /\ ~Writing
    /\ ReadCd(file, flen).ok \/ \E dir \in Seq(Cell), b \in 0..flen :
                                  LaidOut(file, dir, entries, b) /\ Rest(file, b, flen)

LEMMA FilledAgain ==
  ASSUME NEW f, NEW g, NEW c, NEW e \in Entry, NEW b \in 0..Capacity,
         DescribedBelow(f, c, 0, e, b), Filled(f, c, e), \A q \in Pos : q < b => g[q] = f[q]
  PROVE  Filled(g, c, e)
<1> DEFINE z == BehindEntry(c, e)
<1>1. /\ c \in Cell /\ c.t = "central"
      /\ c.off + 0 + Len(e.data) + (IF c.dd THEN 1 ELSE 0) < b
  BY DEF DescribedBelow, Describes
<1>2. c.off \in Nat /\ c.dd \in BOOLEAN /\ Len(e.data) \in Nat
  BY <1>1, CentralFields, EntryFields
<1>3. c.dd => /\ c.off \in Pos /\ c.off < b /\ z - 1 \in Pos /\ z - 1 < b
  <2> SUFFICES ASSUME c.dd PROVE /\ c.off \in Pos /\ c.off < b /\ z - 1 \in Pos /\ z - 1 < b
    OBVIOUS
  <2> DEFINE o == c.off
             k == Len(e.data)
  <2>1. o \in Nat /\ k \in Nat /\ o + 0 + k + 1 < b
    BY <1>1, <1>2
  <2>2. z = o + 1 + k + 1
    BY DEF BehindEntry
  <2> HIDE DEF o, k, z
  <2>3. o \in Pos /\ o < b /\ z - 1 \in Pos /\ z - 1 < b
    BY <2>1, <2>2, CapacityType DEF Pos
  <2> QED
    BY <2>3 DEF o
<1>4. c.dd => g[c.off] = f[c.off] /\ g[z - 1] = f[z - 1]
  BY <1>3
<1>5. CASE c.dd
  <2>1. g[c.off] = f[c.off] /\ g[z - 1] = f[z - 1]
    BY <1>4, <1>5
  <2> HIDE DEF z
  <2>2. /\ f[c.off].crc = <<>> /\ f[c.off].csize = 0 /\ f[c.off].z64 = Wide
        /\ f[z - 1].csize = Len(e.data) /\ f[z - 1].z64 = Wide
    BY <1>5 DEF Filled, z
  <2>3. /\ g[c.off].crc = <<>> /\ g[c.off].csize = 0 /\ g[c.off].z64 = Wide
        /\ g[z - 1].csize = Len(e.data) /\ g[z - 1].z64 = Wide
    BY <2>1, <2>2, Zenon
  <2> QED
    BY <2>3, Zenon DEF Filled, z
<1>6. CASE ~c.dd
  BY <1>6 DEF Filled
<1> QED
  BY <1>5, <1>6

LEMMA ChainLonger ==
  ASSUME NEW mem \in Seq(Cell), NEW es \in Seq(Entry), NEW b, Len(mem) = Len(es),
         NEW c \in Cell, NEW e \in Entry, c.off = b, Chain(mem, es, b)
  PROVE  Chain(Append(mem, c), Append(es, e), BehindEntry(c, e))
<1> DEFINE N == Len(es)
           m == Append(mem, c)
           s == Append(es, e)
           y == BehindEntry(c, e)
<1>1. N \in Nat /\ Len(mem) = N
  OBVIOUS
<1>2. /\ Len(s) = N + 1 /\ m[N + 1] = c /\ s[N + 1] = e
      /\ \A i \in 1..N : m[i] = mem[i] /\ s[i] = es[i]
  OBVIOUS
<1>3. \A i \in 0..N : (IF i = N THEN b ELSE mem[i + 1].off) = (IF i = 0 THEN 0 ELSE BehindEntry(mem[i], es[i]))
  BY DEF Chain
<1> HIDE DEF N, m, s
<1>4. ASSUME NEW i \in 0..(N + 1)
      PROVE  (IF i = N + 1 THEN y ELSE m[i + 1].off) = (IF i = 0 THEN 0 ELSE BehindEntry(m[i], s[i]))
  <2>1. CASE i = N + 1
    BY <1>1, <1>2, <2>1
  <2>2. CASE i # N + 1
    <3>1. i \in 0..N /\ (i # 0 => i \in 1..N) /\ (i # N => i + 1 \in 1..N)
      BY <1>1, <2>2
    <3>2. m[i + 1].off = IF i = N THEN b ELSE mem[i + 1].off
      BY <1>2, <3>1
    <3>3. i # 0 => BehindEntry(m[i], s[i]) = BehindEntry(mem[i], es[i])
      BY <1>2, <3>1
    <3> QED
      BY <1>3, <2>2, <3>1, <3>2, <3>3
  <2> QED
    BY <2>1, <2>2
<1> QED
  BY <1>2, <1>4 DEF Chain, m, s

LEMMA RemainsPut ==
  ASSUME NEW f \in [Pos -> Cell], NEW p \in Pos, NEW n \in Nat, p <= n,
         NEW c, c.t # "hole", Remains(f, p, n)
  PROVE  Remains([f EXCEPT ![p] = c], p + 1, Larger(n, p + 1))
<1> DEFINE g == [f EXCEPT ![p] = c]
           m == Larger(n, p + 1)
<1>1. p \in Nat /\ g[p] = c /\ \A q \in Nat : q # p => g[q] = f[q]
  BY CapacityType DEF Pos
<1> HIDE DEF g
<1>2. m \in Nat /\ (m = n \/ m = p + 1) /\ (m = p + 1 \/ (m = n /\ n > p + 1))
  BY <1>1 DEF Larger
<1> HIDE DEF m
<1>3. ASSUME NEW q \in 0..(m - 1) PROVE g[q].t # "hole"
  <2>1. q = p \/ (q # p /\ q \in 0..(n - 1))
    BY <1>1, <1>2
  <2> QED
    BY <1>1, <2>1 DEF Remains
<1>4. CASE m = p + 1
  BY <1>3, <1>4 DEF Remains, g, m
<1>5. CASE m = n /\ n > p + 1
  <2>1. n # p /\ n - 1 \in Nat /\ n - 1 # p
    BY <1>1, <1>5
  <2>2. g[n - 1] = f[n - 1]
    BY <1>1, <2>1
  <2> QED
    BY <1>3, <1>5, <2>1, <2>2 DEF Remains, g, m
<1> QED
  BY <1>2, <1>4, <1>5

LEMMA RemainsSame ==
  ASSUME NEW f, NEW g, NEW p \in Nat, NEW n \in 0..Capacity, p <= n, Remains(f, p, n),
         \A q \in Pos : g[q] = f[q] \/ (q < p /\ g[q].t # "hole")
  PROVE  Remains(g, p, n)
<1>1. \A q \in 0..(n - 1) : q \in Pos
  BY CapacityType DEF Pos
<1>2. \A q \in 0..(n - 1) : g[q].t # "hole"
  BY <1>1 DEF Remains
<1>3. n # p => n - 1 \in Pos /\ ~(n - 1 < p)
  BY CapacityType DEF Pos
<1>4. n # p => g[n - 1] = f[n - 1]
  BY <1>3
<1> QED
  BY <1>2, <1>4 DEF Remains

\* An end record that is the last cell of a file without gaps leads to a directory, or
\* to what took its place.
LEMMA RemainsRead ==
  ASSUME NEW f, NEW p, NEW n \in Nat, n > 0, Remains(f, p, n), n # p
  PROVE  ReadCd(f, n).ok
<1> DEFINE last == n - 1
           d == DirectoryAt(f, n, last)
<1>1. last \in Nat /\ last \in 0..(n - 1)
  OBVIOUS
<1>2. f[last].t = "end" /\ f[last].off \in 0..(n - 1) /\ f[last].size = last - f[last].off
  BY DEF Remains
<1>3. LastEnds(f, n) = {last}
  <2>1. last \in Ends(f, n)
    BY <1>1, <1>2 DEF Ends
  <2>2. \A q \in Ends(f, n) : q <= last
    BY DEF Ends
  <2>3. Ends(f, n) \subseteq Int
    BY DEF Ends
  <2> HIDE DEF last
  <2>4. \A q \in LastEnds(f, n) : q = last
    BY <1>1, <2>1, <2>2, <2>3 DEF LastEnds
  <2>5. last \in LastEnds(f, n)
    BY <2>1, <2>2 DEF LastEnds
  <2> QED
    BY <2>4, <2>5
<1>4. (CHOOSE q \in LastEnds(f, n) : TRUE) = last
  <2> HIDE DEF last
  <2> QED
    BY <1>3
<1> HIDE DEF last
<1>5. ReadCd(f, n).ok = (d.sig # "hole" /\ d.off <= last)
  <2>1. LastEnds(f, n) # {}
    BY <1>3
  <2> HIDE DEF d
  <2> QED
    BY <1>4, <2>1 DEF ReadCd, d
<1>6. last - f[last].size = f[last].off /\ f[last].off <= last /\ f[last].off \in 0..(n - 1)
  BY <1>1, <1>2 DEF last
<1> DEFINE o == f[last].off
<1>7. At(f, n, o) = f[o] /\ f[o].t # "hole"
  BY <1>6 DEF At, Remains
<1>8. d.off = o /\ d.sig # "hole"
  <2>1. At(f, n, last - f[last].size) = f[o]
    BY <1>6, <1>7
  <2> QED
    BY <1>6, <1>7, <2>1 DEF DirectoryAt
<1> QED
  BY <1>5, <1>6, <1>8

\* Closing the open entry lays it out behind the others.
LEMMA SettledLaid ==
  ASSUME TypeInv, Writing, Good, DirectoryInv, CountInv, LayoutInv, NEW k \in Nat, Room(k)
  PROVE  LET s == Settled IN Laid(s.file, s.pos, s.flen, s.pos, s.cdMem, s.entries)
<1>1. WritingInv /\ Sound(file, flen, pos, Closing, cdMem, cdMemPos, entries)
  BY DEF DirectoryInv, WritingInv
<1>2. Laid(file, pos, flen, Closing, cdMem, entries) /\ (opened => OpenLaid)
  BY DEF LayoutInv
<1>3. CASE ~opened
  BY <1>2, <1>3, SettledFields DEF Closing
<1>4. CASE opened
  <2> DEFINE o == info.off
             n == Len(crc)
             c == CentralHeader(FinalInfo)
             e == [name |-> info.name, data |-> crc]
  <2>1. OpenEntryInv /\ OpenLaid
    BY <1>1, <1>2, <1>4 DEF WritingInv
  <2>2. /\ file \in [Pos -> Cell] /\ info \in Info /\ info.name \in Names
        /\ crc \in Content /\ n \in Nat /\ o \in Nat
        /\ info.dd \in BOOLEAN /\ pos \in Pos /\ o \in Pos
        /\ pos = o + 1 + n /\ pos + 2 <= Capacity
    BY <1>4, <2>1, OpenEntryType
  <2>3. ~CentralHeaderFails(info)
    BY <1>4 DEF CountInv, CentralHeaderFails, Zip64Auto, Zip64Disable
  <2>4. /\ flen \in 0..Capacity /\ flen \in Nat /\ pos <= flen /\ Len(cdMem) = Len(entries)
        /\ cdMemPos = Len(cdMem) /\ cdMem \in Seq(Cell) /\ entries \in Seq(Entry)
        /\ \A i \in 1..Len(entries) : DescribedBelow(file, cdMem[i], 0, entries[i], o)
        /\ pos \in Nat /\ pos < Capacity /\ o < pos
    <3>1. /\ flen \in 0..Capacity /\ cdMem \in Seq(Cell) /\ entries \in Seq(Entry)
      BY DEF TypeInv, FileType, MemType, GhostType
    <3>2. /\ pos <= flen /\ Len(cdMem) = Len(entries) /\ cdMemPos = Len(cdMem)
          /\ \A i \in 1..Len(entries) : DescribedBelow(file, cdMem[i], 0, entries[i], o)
      BY <1>1, <1>4 DEF Sound, Closing
    <3>3. flen \in Nat /\ pos \in Nat /\ pos < Capacity /\ o < pos
      BY <2>2, <3>1, CapacityType DEF Pos
    <3> QED
      BY <3>1, <3>2, <3>3
  <2>5. /\ Settled.file = ClosedFile /\ Settled.flen = Larger(flen, ClosedPos)
        /\ Settled.pos = ClosedPos /\ Settled.cdMem = Append(cdMem, c)
        /\ Settled.entries = Append(entries, e)
    BY <1>4, <2>3, <2>4, SettledFields DEF PutAt
  <2>6. c \in Cell /\ c.off = o /\ c.dd = info.dd /\ e \in Entry
    <3>1. c \in Cell
      BY <1>4, FinalInfoType, RecordTypes
    <3>2. FinalInfo.off = o /\ FinalInfo.dd = info.dd
      BY <2>2 DEF FinalInfo, Info
    <3> QED
      BY <2>2, <3>1, <3>2 DEF CentralHeader, Entry
  <2>7. BehindEntry(c, e) = ClosedPos
    BY <2>2, <2>6 DEF BehindEntry, ClosedPos
  <2>8. /\ Chain(cdMem, entries, o) /\ Remains(file, pos, flen)
        /\ \A i \in 1..Len(entries) : Filled(file, cdMem[i], entries[i])
    BY <1>2, <1>4 DEF Laid, Closing
  <2>9. /\ \A q \in Pos : q # o /\ q # pos => ClosedFile[q] = file[q]
        /\ info.dd => /\ ClosedFile[o] = file[o]
                      /\ ClosedFile[pos] = Descriptor(LocalZip64(info), crc, n)
        /\ ~info.dd => /\ ClosedFile[pos] = file[pos]
                       /\ ClosedFile[o] = LocalHeader(FinalInfo, LocalZip64(info))
    BY <1>4, <2>1, <2>3, ClosedFileCells
  <2> HIDE DEF c, e
  <2>10. Chain(Append(cdMem, c), Append(entries, e), ClosedPos)
    <3>1. Chain(Append(cdMem, c), Append(entries, e), BehindEntry(c, e))
      BY <2>4, <2>6, <2>8, ChainLonger
    <3> QED
      BY <2>7, <3>1
  <2>11. Filled(ClosedFile, c, e)
    <3>1. CASE info.dd
      <4>1. /\ ClosedFile[o].crc = <<>> /\ ClosedFile[o].csize = 0 /\ ClosedFile[o].z64 = Wide
        BY <2>1, <2>9, <3>1 DEF OpenLaid
      <4>2. LocalZip64(info) = Wide
        BY <2>1 DEF OpenLaid
      <4>3. ClosedFile[pos].csize = n /\ ClosedFile[pos].z64 = Wide
        <5> DEFINE z == LocalZip64(info)
        <5>1. ClosedFile[pos] = Descriptor(z, crc, n) /\ z = Wide
          BY <2>9, <3>1, <4>2
        <5> HIDE DEF z
        <5> QED
          BY <5>1 DEF Descriptor
      <4>4. BehindEntry(c, e) - 1 = pos /\ Len(e.data) = n
        <5>1. ClosedPos = pos + 1
          BY <3>1 DEF ClosedPos
        <5> QED
          BY <2>2, <2>7, <5>1 DEF e
      <4> QED
        BY <2>6, <4>1, <4>3, <4>4 DEF Filled
    <3>2. CASE ~info.dd
      BY <2>6, <3>2 DEF Filled
    <3> QED
      BY <3>1, <3>2
  <2>12. \A i \in 1..Len(entries) : Filled(ClosedFile, cdMem[i], entries[i])
    <3> TAKE i \in 1..Len(entries)
    <3>1. entries[i] \in Entry /\ o \in 0..Capacity
      BY <2>2, <2>4, CapacityType
    <3>2. ASSUME NEW q \in Pos, q < o PROVE ClosedFile[q] = file[q]
      <4> HIDE DEF o
      <4>1. q # o /\ q # pos
        BY <2>2, <2>4, <3>2, CapacityType DEF Pos
      <4> QED
        BY <2>9, <4>1
    <3> DEFINE x == cdMem[i]
               y == entries[i]
               g == ClosedFile
    <3>3. DescribedBelow(file, x, 0, y, o) /\ Filled(file, x, y)
      BY <2>4, <2>8
    <3>4. y \in Entry
      BY <3>1
    <3>6. \A q \in Pos : q < o => g[q] = file[q]
      BY <3>2
    <3> HIDE DEF o, x, y, g
    <3>7. o \in 0..Capacity
      BY <3>1
    <3>5. Filled(g, x, y)
      BY <3>3, <3>4, <3>6, <3>7, FilledAgain
    <3> QED
      BY <3>5 DEF g, x, y
  <2>13. Remains(ClosedFile, ClosedPos, Larger(flen, ClosedPos))
    <3>1. CASE info.dd
      <4> DEFINE h == Descriptor(LocalZip64(info), crc, n)
      <4>1. ClosedFile = [file EXCEPT ![pos] = h] /\ ClosedPos = pos + 1
        BY <3>1 DEF ClosedFile, ClosedPos
      <4>2. h.t # "hole"
        BY DEF Descriptor
      <4> HIDE DEF h
      <4>3. Remains([file EXCEPT ![pos] = h], pos + 1, Larger(flen, pos + 1))
        BY <2>2, <2>4, <2>8, <4>2, RemainsPut
      <4> QED
        BY <4>1, <4>3
    <3>2. CASE ~info.dd
      <4>1. ClosedPos = pos /\ Larger(flen, pos) = flen
        BY <2>4, <3>2 DEF ClosedPos, Larger
      <4>2. ClosedFile[o].t # "hole"
        BY <2>9, <3>2 DEF LocalHeader
      <4>3. \A q \in Pos : ClosedFile[q] = file[q] \/ (q < pos /\ ClosedFile[q].t # "hole")
        <5> TAKE q \in Pos
        <5>1. q # o => ClosedFile[q] = file[q]
          BY <2>9, <3>2
        <5> QED
          BY <2>4, <4>2, <5>1
      <4>4. Remains(ClosedFile, pos, flen)
        BY <2>4, <2>8, <4>3, RemainsSame
      <4> QED
        BY <4>1, <4>4
    <3> QED
      BY <2>2, <3>1, <3>2
  <2> DEFINE m == Append(cdMem, c)
             es == Append(entries, e)
  <2>14. /\ Len(es) = Len(entries) + 1 /\ Len(entries) \in Nat
         /\ \A i \in 1..Len(entries) : m[i] = cdMem[i] /\ es[i] = entries[i]
         /\ m[Len(entries) + 1] = c /\ es[Len(entries) + 1] = e
    BY <2>4
  <2> HIDE DEF m, es
  <2>15. \A i \in 1..Len(es) : Filled(ClosedFile, m[i], es[i])
    <3> TAKE i \in 1..Len(es)
    <3>1. i \in 1..Len(entries) \/ i = Len(entries) + 1
      BY <2>14
    <3> QED
      BY <2>11, <2>12, <2>14, <3>1
  <2>16. Laid(ClosedFile, ClosedPos, Larger(flen, ClosedPos), ClosedPos, m, es)
    BY <2>10, <2>13, <2>15 DEF Laid, m, es
  <2> QED
    BY <2>5, <2>16 DEF m, es
<1> QED
  BY <1>3, <1>4

LEMMA CreateLayout == ASSUME TypeInv, ZipOpenCreate PROVE LayoutInv'
<1>1. /\ mode' = "write" /\ flen' = 0 /\ entries' = <<>>
      /\ pos' = 0 /\ cdMem' = <<>> /\ opened' = FALSE
  BY DEF ZipOpenCreate, TypeInv, FreshWhenClosed, entryVars
<1>2. Writing' /\ Closing' = 0
  BY <1>1 DEF Writing, Closing
<1>3. Chain(<<>>, <<>>, 0) /\ Remains(file', 0, 0)
  BY DEF Chain, Remains
<1>4. Laid(file', 0, 0, 0, <<>>, <<>>)
  BY <1>3 DEF Laid
<1> QED
  BY <1>1, <1>2, <1>4 DEF LayoutInv

LEMMA AppendLayout ==
  ASSUME CallerHabits = {}, TypeInv, DirectoryInv, ClearInv, LayoutInv, ZipOpenAppend
  PROVE  LayoutInv'
<1> DEFINE n == Len(entries)
<1> SUFFICES ASSUME Good' PROVE LayoutInv'
  BY Zenon DEF LayoutInv
<1>1. /\ Good /\ FinishedInv /\ stub = 0 /\ ~opened /\ ~Writing
      /\ UNCHANGED <<file, flen, entries, stub, opened>>
      /\ n \in Nat /\ DirStart \in Nat /\ flen = DirStart + n + 1
      /\ mode' = "append" /\ pos' = DirStart /\ cdMem' = FinishedDir
  BY AppendBegins DEF FinishedDir
<1>2. flen \in 0..Capacity /\ file \in [Pos -> Cell]
  BY DEF TypeInv, FileType
<1>3. NoDirectoryBelow(file, DirStart)
  BY <1>1 DEF ClearInv
<1>4. /\ Chain(FinishedDir, entries, DirStart)
      /\ \A i \in 1..n : Filled(file, FinishedDir[i], entries[i])
  BY <1>1 DEF LayoutInv
<1>5. /\ file[flen - 1].t = "end" /\ file[flen - 1].off = DirStart - stub
      /\ file[flen - 1].size = n
      /\ \A i \in 1..n : file[DirStart + i - 1].t = "central"
  BY <1>1, DescribedCell DEF FinishedInv
<1> DEFINE D == DirStart
<1> HIDE DEF n
<1>6. ASSUME NEW q \in 0..(flen - 1) PROVE file[q].t # "hole"
  <2>1. q \in Pos
    BY <1>2, CapacityType DEF Pos
  <2> HIDE DEF D
  <2>2. D \in Nat /\ flen = D + n + 1 /\ q \in Int /\ n \in Nat
    BY <1>1 DEF D
  <2>3. CASE q < D
    BY <1>3, <2>1, <2>3 DEF NoDirectoryBelow, D
  <2>4. CASE q >= D /\ q < flen - 1
    <3>1. q - D + 1 \in 1..n /\ D + (q - D + 1) - 1 = q
      BY <2>2, <2>4
    <3>2. \A i \in 1..n : file[D + i - 1].t = "central"
      BY <1>5 DEF D
    <3>3. file[D + (q - D + 1) - 1].t = "central"
      BY <3>1, <3>2
    <3> QED
      BY <3>1, <3>3
  <2>5. CASE q = flen - 1
    BY <1>5, <2>5
  <2> QED
    BY <1>2, <2>2, <2>3, <2>4, <2>5
<1>7. Remains(file, DirStart, flen)
  <2> HIDE DEF D
  <2>1. D \in Nat /\ n \in Nat /\ flen = D + n + 1 /\ D - stub = D
    BY <1>1 DEF D
  <2>2. D \in 0..(flen - 1) /\ n = flen - 1 - D
    BY <2>1
  <2> QED
    BY <1>5, <1>6, <2>1, <2>2 DEF Remains, D
<1>8. Laid(file, DirStart, flen, DirStart, FinishedDir, entries)
  BY <1>4, <1>7 DEF Laid, n
<1>9. Writing' /\ Closing' = DirStart
  BY <1>1 DEF Writing, Closing
<1> QED
  BY <1>1, <1>8, <1>9 DEF LayoutInv

LEMMA WriteCloseLayout ==
  ASSUME TypeInv, DirectoryInv, CountInv, LayoutInv, EntryWriteClose PROVE LayoutInv'
<1> DEFINE s == Settled
<1> SUFFICES ASSUME Good' PROVE LayoutInv'
  BY Zenon DEF LayoutInv
<1>1. /\ Writing /\ Writing' /\ Room(0) /\ health' = health
      /\ file' = s.file /\ flen' = s.flen /\ pos' = s.pos
      /\ cdMem' = s.cdMem /\ entries' = s.entries /\ opened' = FALSE
  BY DEF EntryWriteClose, Writing
<1>2. Good
  BY <1>1 DEF Good
<1>3. Laid(s.file, s.pos, s.flen, s.pos, s.cdMem, s.entries)
  BY <1>1, <1>2, SettledLaid
<1> HIDE DEF s
<1>4. Closing' = s.pos
  BY <1>1 DEF Closing
<1> QED
  BY <1>1, <1>3, <1>4 DEF LayoutInv

\* What lies below the bound of a directory's entries outlives a cell written at p.
LEMMA LaidPut ==
  ASSUME NEW f \in [Pos -> Cell], NEW p \in Pos, NEW n \in Nat, NEW b \in Nat, b <= p,
         NEW mem \in Seq(Cell), NEW mp, NEW es \in Seq(Entry), NEW c, c.t # "hole",
         Sound(f, n, p, b, mem, mp, es), Laid(f, p, n, b, mem, es)
  PROVE  Laid([f EXCEPT ![p] = c], p + 1, Larger(n, p + 1), b, mem, es)
<1> DEFINE g == [f EXCEPT ![p] = c]
<1>1. p <= n /\ \A i \in 1..Len(es) : DescribedBelow(f, mem[i], 0, es[i], b)
  BY DEF Sound
<1>2. /\ Chain(mem, es, b) /\ Remains(f, p, n)
      /\ \A i \in 1..Len(es) : Filled(f, mem[i], es[i])
  BY DEF Laid
<1>3. \A q \in Pos : q < b => g[q] = f[q]
  BY CapacityType DEF Pos
<1>4. b \in 0..Capacity
  BY CapacityType DEF Pos
<1>5. Remains(g, p + 1, Larger(n, p + 1))
  BY <1>1, <1>2, RemainsPut
<1> HIDE DEF g
<1>6. ASSUME NEW i \in 1..Len(es) PROVE Filled(g, mem[i], es[i])
  <2>1. es[i] \in Entry /\ DescribedBelow(f, mem[i], 0, es[i], b) /\ Filled(f, mem[i], es[i])
    BY <1>1, <1>2
  <2> QED
    BY <1>3, <1>4, <2>1, FilledAgain
<1> QED
  BY <1>2, <1>5, <1>6 DEF Laid, g

LEMMA WriteOpenLayout ==
  ASSUME OneFormat, TypeInv, DirectoryInv, CountInv, LayoutInv,
         NEW name \in Names, NEW u \in Declared, NEW dd \in BOOLEAN,
         EntryWriteOpen(name, u, Zip64Auto, dd)
  PROVE  LayoutInv'
<1> DEFINE s == Settled
           i == [name |-> name, dd |-> dd, zip64 |-> Zip64Auto, crc |-> <<>>, csize |-> 0,
                 usize |-> u, off |-> s.pos]
           z == LocalZip64(i)
           h == LocalHeader(i, z)
           k == IF dd THEN 3 ELSE 2
<1> SUFFICES ASSUME Good' PROVE LayoutInv'
  BY Zenon DEF LayoutInv
<1>1. /\ Writing /\ Writing' /\ Room(k) /\ health' = health
      /\ cdMem' = s.cdMem /\ entries' = s.entries
      /\ s.ok => /\ file' = [s.file EXCEPT ![s.pos] = h]
                 /\ pos' = s.pos + 1 /\ flen' = Larger(s.flen, s.pos + 1)
                 /\ info' = i /\ opened' = TRUE
  BY DEF EntryWriteOpen, Writing
<1>2. Good /\ WritingInv
  BY <1>1 DEF Good, DirectoryInv
<1>3. k \in Nat /\ k > 0
  OBVIOUS
<1>4. z = Wide
  <2>1. z = (u = 0)
    BY DEF LocalZip64
  <2>2. (u = 0) = Wide
    BY DEF OneFormat, Wide
  <2> HIDE DEF z
  <2> QED
    BY <2>1, <2>2, Zenon
<1>5. i.off = s.pos /\ LocalZip64(i) = z
  OBVIOUS
<1>6. h.t = "local" /\ h.crc = <<>> /\ h.csize = 0 /\ h.z64 = z
  <2> HIDE DEF z
  <2> QED
    BY DEF LocalHeader
<1> HIDE DEF s, i, h, k, z
<1>7. s.ok
  BY <1>1, <1>2, <1>3, SettledCount DEF s
<1>8. Laid(s.file, s.pos, s.flen, s.pos, s.cdMem, s.entries)
  BY <1>1, <1>2, <1>3, SettledLaid DEF s
<1>9. Sound(s.file, s.flen, s.pos, s.pos, s.cdMem, s.cdMemPos, s.entries)
  BY <1>1, <1>2, <1>3, SettledSound DEF s
<1>10. /\ s.file \in [Pos -> Cell] /\ s.flen \in Nat /\ s.pos \in Nat
       /\ s.cdMem \in Seq(Cell) /\ s.entries \in Seq(Entry) /\ Len(s.cdMem) \in Nat
       /\ s.pos + k + Len(s.cdMem) + 1 <= Capacity
  BY <1>1, <1>3, SettledType, CapacityType DEF s
<1>11. s.pos \in Pos /\ s.pos <= s.pos
  BY <1>3, <1>10, CapacityType DEF Pos
<1>12. Laid([s.file EXCEPT ![s.pos] = h], s.pos + 1, Larger(s.flen, s.pos + 1), s.pos,
            s.cdMem, s.entries)
  <2>1. h.t # "hole"
    BY <1>6
  <2> QED
    BY <1>8, <1>9, <1>10, <1>11, <2>1, LaidPut
<1>13. Closing' = s.pos
  BY <1>1, <1>5, <1>7 DEF Closing
<1>14. OpenLaid'
  <2>1. file'[info'.off] = h /\ LocalZip64(info') = z
    BY <1>1, <1>5, <1>7, <1>10, <1>11
  <2>2. LocalZip64(info)' = LocalZip64(info')
    BY DEF LocalZip64
  <2> QED
    BY <1>4, <1>6, <2>1, <2>2, Zenon DEF OpenLaid
<1>15. Laid(file', pos', flen', Closing', cdMem', entries')
  BY <1>1, <1>7, <1>12, <1>13
<1> QED
  BY <1>1, <1>14, <1>15 DEF LayoutInv

LEMMA WriteLayout ==
  ASSUME TypeInv, DirectoryInv, LayoutInv, NEW c \in Chunks, EntryWrite(c) PROVE LayoutInv'
<1> SUFFICES ASSUME Good' PROVE LayoutInv'
  BY Zenon DEF LayoutInv
<1> DEFINE h == DataCell(c)
           b == info.off
<1>1. /\ Writing /\ Writing' /\ opened /\ Room(1)
      /\ file' = [file EXCEPT ![pos] = h] /\ pos' = pos + 1 /\ flen' = Larger(flen, pos + 1)
      /\ UNCHANGED <<cdMem, info, opened, entries, health>>
  BY DEF EntryWrite, Writing, dirVars, ghostVars
<1>2. /\ WritingInv /\ OpenEntryInv /\ OpenLaid /\ Laid(file, pos, flen, Closing, cdMem, entries)
      /\ Closing = b /\ Closing' = b
  BY <1>1 DEF DirectoryInv, Good, WritingInv, LayoutInv, Closing
<1>3. /\ file \in [Pos -> Cell] /\ pos \in Pos /\ b \in Nat /\ b \in Pos /\ Len(crc) \in Nat
      /\ pos = b + 1 + Len(crc)
  BY <1>1, <1>2, OpenEntryType
<1>4. flen \in Nat /\ cdMem \in Seq(Cell) /\ entries \in Seq(Entry)
  BY CapacityType DEF TypeInv, FileType, MemType, GhostType
<1>5. h.t # "hole" /\ b <= pos /\ b # pos
  BY <1>3 DEF DataCell
<1>6. Sound(file, flen, pos, b, cdMem, cdMemPos, entries) /\ Laid(file, pos, flen, b, cdMem, entries)
  BY <1>2 DEF WritingInv
<1> HIDE DEF h, b
<1>7. Laid([file EXCEPT ![pos] = h], pos + 1, Larger(flen, pos + 1), b, cdMem, entries)
  BY <1>3, <1>4, <1>5, <1>6, LaidPut
<1>8. OpenLaid'
  <2>1. file'[b] = file[b]
    BY <1>1, <1>3, <1>5
  <2>2. LocalZip64(info)' = LocalZip64(info) /\ file'[info'.off] = file[info.off]
    BY <1>1, <2>1 DEF LocalZip64, b
  <2> QED
    BY <1>2, <2>2, Zenon DEF OpenLaid
<1> QED
  BY <1>1, <1>2, <1>7, <1>8 DEF LayoutInv

LEMMA CloseWriteLayout ==
  ASSUME TypeInv, DirectoryInv, CountInv, LayoutInv, ZipCloseWrite PROVE LayoutInv'
<1> DEFINE s == Settled
           n == Len(s.entries)
<1> SUFFICES ASSUME Good' PROVE LayoutInv'
  BY Zenon DEF LayoutInv
<1>1. /\ Good /\ Writing /\ Room(0) /\ mode' = "none" /\ entries' = s.entries
      /\ n \in Nat /\ s.pos \in Nat /\ s.pos + n < Capacity
      /\ s.entries \in Seq(Entry) /\ s.file \in [Pos -> Cell]
      /\ Sound(s.file, s.flen, s.pos, s.pos, s.cdMem, s.cdMemPos, s.entries)
      /\ flen' = s.pos + n + 1
      /\ \A i \in 1..n : file'[s.pos + i - 1] = s.cdMem[i]
      /\ \A q \in Pos : q < s.pos => file'[q] = s.file[q]
  BY ClosedArchive
<1>2. Laid(s.file, s.pos, s.flen, s.pos, s.cdMem, s.entries) /\ s.cdMem \in Seq(Cell)
  BY <1>1, SettledLaid, SettledType
<1> HIDE DEF s
<1>3. DirStart' = s.pos
  BY <1>1 DEF DirStart
<1>4. Len(s.cdMem) = n
  BY <1>1 DEF Sound
<1>5. FinishedDir' = s.cdMem
  <2> DEFINE m == [i \in 1..n |-> file'[s.pos + i - 1]]
             t == s.cdMem
  <2>1. FinishedDir' = m
    BY <1>1, <1>3 DEF FinishedDir
  <2>2. t \in Seq(Cell) /\ Len(t) = n /\ \A i \in 1..n : m[i] = t[i]
    BY <1>1, <1>2, <1>4
  <2>3. m = t
    <3>1. m = [i \in 1..n |-> t[i]]
      BY <1>1
    <3> HIDE DEF m, t
    <3> QED
      BY <2>2, <3>1
  <2> QED
    BY <2>1, <2>3
<1>6. /\ Chain(s.cdMem, s.entries, s.pos)
      /\ \A i \in 1..n : Filled(s.file, s.cdMem[i], s.entries[i])
  BY <1>2 DEF Laid
<1>7. ASSUME NEW i \in 1..n PROVE Filled(file', s.cdMem[i], s.entries[i])
  <2> DEFINE c == s.cdMem[i]
             e == s.entries[i]
             b == s.pos
             f == s.file
             g == file'
  <2>1. e \in Entry /\ DescribedBelow(f, c, 0, e, b) /\ Filled(f, c, e)
    BY <1>1, <1>6 DEF Sound
  <2>2. b \in 0..Capacity /\ \A q \in Pos : q < b => g[q] = f[q]
    BY <1>1, CapacityType
  <2> HIDE DEF c, e, b, f, g
  <2>3. Filled(g, c, e)
    BY <2>1, <2>2, FilledAgain
  <2> QED
    BY <2>3 DEF g, c, e
<1>8. ~Writing'
  BY <1>1 DEF Writing
<1> QED
  BY <1>1, <1>3, <1>5, <1>6, <1>7, <1>8 DEF LayoutInv

LEMMA QuietLayout ==
  ASSUME LayoutInv, ~Writing, ~Writing', UNCHANGED <<file, flen, entries, health, stub>>
  PROVE  LayoutInv'
<1>1. /\ Good' = Good /\ DirStart' = DirStart /\ FinishedDir' = FinishedDir
  BY DEF Good, DirStart, FinishedDir
<1> QED
  BY <1>1 DEF LayoutInv

LEMMA NextLayout ==
  ASSUME CallerHabits = {}, Zip64Disable \notin Zip64Modes, OneFormat,
         TypeInv, DirectoryInv, ClearInv, CountInv, LayoutInv, [Next]_vars
  PROVE  LayoutInv'
<1>1. CASE WriteNext
  <2>1. ASSUME NEW n \in Names, NEW u \in Declared, NEW z \in Zip64Modes,
               NEW dd \in Descriptors, EntryWriteOpen(n, u, z, dd)
        PROVE  LayoutInv'
    <3>1. z = Zip64Auto /\ dd \in BOOLEAN
      BY DeclaredType
    <3> QED
      BY <2>1, <3>1, WriteOpenLayout
  <2> QED
    BY <1>1, <2>1, CreateLayout, AppendLayout, CloseWriteLayout, WriteLayout, WriteCloseLayout
    DEF WriteNext
<1>2. CASE LookNext
  <2>1. mode = "read" /\ UNCHANGED <<mode, file, flen, entries, health, stub>>
    BY <1>2 DEF LookNext, GotoFirstEntry, GotoNextEntry, GotoEntry, LocateEntry, Goto, Looking,
                fileVars, ghostVars
  <2> QED
    BY <2>1, QuietLayout DEF Writing
<1>3. CASE ReadNext
  <2>1. /\ ~Writing /\ ~Writing' /\ UNCHANGED <<file, flen, entries, health, stub>>
    BY <1>3 DEF ReadNext, ZipOpenRead, ZipCloseRead, EntryReadOpen, EntryRead, EntryReadClose,
                FreshHandle, Writing, fileVars, ghostVars
  <2> QED
    BY <2>1, QuietLayout
<1>4. CASE EnvNext
  <2>1. CASE Crash \/ \E k \in 1..(Capacity - 1) : CrashInClose(k)
    <3>1. health' = Died
      BY <2>1 DEF Crash, CrashInClose
    <3> QED
      BY <3>1 DEF LayoutInv, Good, Died
  <2>2. ASSUME NEW k \in 1..MaxStub, NEW c \in Chunks, Prepend(k, c) PROVE LayoutInv'
    <3>1. mode' = "none" /\ stub' = k /\ k # 0
      BY <2>2, BoundType DEF Prepend
    <3> QED
      BY <3>1 DEF LayoutInv, Writing
  <2> QED
    BY <1>4, <2>1, <2>2 DEF EnvNext
<1>5. CASE UNCHANGED vars
  <2>1. UNCHANGED <<file, flen, pos, mode, cdMem, info, opened, entries, health, stub>>
    BY <1>5 DEF vars, fileVars, dirVars, entryVars, ghostVars
  <2> QED
    BY <2>1 DEF LayoutInv, Good, Writing, Closing, OpenLaid, LocalZip64, DirStart, FinishedDir
<1> QED
  BY <1>1, <1>2, <1>3, <1>4, <1>5 DEF Next

-----------------------------------------------------------------------------
(* What a session that died leaves *)

LEMMA CrashLeaves ==
  ASSUME TypeInv, Writing, Good, DirectoryInv, LayoutInv
  PROVE  \/ ReadCd(file, flen).ok
         \/ LaidOut(file, cdMem, entries, Closing) /\ Rest(file, Closing, flen) /\ Closing \in 0..flen
<1>1. WritingInv /\ Sound(file, flen, pos, Closing, cdMem, cdMemPos, entries)
  BY DEF DirectoryInv, WritingInv
<1>2. Laid(file, pos, flen, Closing, cdMem, entries)
  BY DEF LayoutInv
<1>3. /\ pos \in Nat /\ flen \in 0..Capacity /\ flen \in Nat /\ info.off \in Nat
      /\ crc \in Content /\ Len(crc) \in Nat
  BY CapacityType DEF TypeInv, FileType, EntryType, Info, Content
<1>4. pos <= flen
  BY <1>1 DEF Sound
<1>5. CASE flen # pos
  <2>1. Remains(file, pos, flen) /\ flen > 0
    BY <1>2, <1>3, <1>4, <1>5 DEF Laid
  <2> QED
    BY <1>3, <1>5, <2>1, RemainsRead
<1>6. CASE flen = pos
  <2>1. LaidOut(file, cdMem, entries, Closing)
    BY <1>1, <1>2 DEF LaidOut, Laid, Sound
  <2>2. CASE ~opened
    <3>1. Closing = flen
      BY <1>6, <2>2 DEF Closing
    <3>2. \A q \in flen..(flen - 1) : FALSE
      BY <1>3
    <3> QED
      BY <1>3, <2>1, <3>1, <3>2 DEF Rest
  <2>3. CASE opened
    <3>1. OpenEntryInv /\ Closing = info.off
      BY <1>1, <2>3 DEF WritingInv, Closing
    <3> DEFINE o == info.off
               n == Len(crc)
    <3>2. /\ flen = o + 1 + n /\ file[o].t = "local" /\ o \in Nat /\ n \in Nat
          /\ \A i \in 1..n : file[o + i] = DataCell(crc[i])
      BY <1>3, <1>6, <3>1 DEF OpenEntryInv
    <3>3. Closing = o
      BY <3>1
    <3> HIDE DEF o, n
    <3>4. ASSUME NEW q \in (o + 1)..(flen - 1) PROVE file[q].t = "data"
      <4>1. q - o \in 1..n /\ o + (q - o) = q
        BY <3>2
      <4>2. file[o + (q - o)] = DataCell(crc[q - o])
        BY <3>2, <4>1
      <4> QED
        BY <4>1, <4>2 DEF DataCell
    <3>5. o < flen /\ o \in 0..flen
      BY <3>2
    <3> QED
      BY <2>1, <3>2, <3>3, <3>4, <3>5 DEF Rest
  <2> QED
    BY <2>2, <2>3
<1> QED
  BY <1>5, <1>6

\* ... also when it dies in its close.
LEMMA StoppedLeaves ==
  ASSUME TypeInv, Good, DirectoryInv, LayoutInv, NEW k \in 1..(Capacity - 1), CrashInClose(k)
  PROVE  \/ ReadCd(file', flen').ok
         \/ LaidOut(file', cdMem, entries, pos) /\ Rest(file', pos, flen') /\ pos \in 0..flen'
<1> DEFINE cells == SubSeq(DirectoryOf(Settled), 1, k)
<1>1. /\ Writing /\ ~opened /\ Room(0) /\ file' = Written(file, pos, cells)
      /\ flen' = Larger(flen, pos + k) /\ k \in Nat /\ Len(cells) = k /\ k <= Len(cdMem)
      /\ \A i \in 1..k : i \in 1..Len(cdMem) /\ cells[i] = cdMem[i]
  BY StoppedClose
<1> HIDE DEF cells
<1>2. Closing = pos
  BY <1>1 DEF Closing
<1>3. Sound(file, flen, pos, pos, cdMem, cdMemPos, entries) /\ Laid(file, pos, flen, pos, cdMem, entries)
  BY <1>1, <1>2 DEF DirectoryInv, WritingInv, LayoutInv
<1>4. /\ pos \in Nat /\ flen \in 0..Capacity /\ flen \in Nat /\ Len(cdMem) \in Nat
      /\ Capacity \in Nat /\ entries \in Seq(Entry)
  BY CapacityType DEF TypeInv, FileType, MemType, GhostType
<1>5. pos + k < Capacity /\ k > 0 /\ pos <= flen
  BY <1>1, <1>3, <1>4 DEF Room, Sound
<1>6. \A i \in 1..k : cells[i].t = "central"
  <2>1. \A i \in 1..Len(cdMem) : DescribedBelow(file, cdMem[i], 0, entries[i], pos)
    BY <1>3 DEF Sound
  <2> QED
    BY <1>1, <2>1, DescribedCell
<1> DEFINE g == file'
<1>7. ASSUME NEW q \in Pos
      PROVE  /\ q < pos \/ q >= pos + k => g[q] = file[q]
             /\ q >= pos /\ q < pos + k => g[q].t = "central"
  <2> DEFINE i == q - pos + 1
  <2>1. g[q] = IF i \in 1..k THEN cells[i] ELSE file[q]
    BY <1>1 DEF Written
  <2>2. q \in Nat /\ (q < pos \/ q >= pos + k => i \notin 1..k)
        /\ (q >= pos /\ q < pos + k => i \in 1..k)
    BY <1>1, <1>4, CapacityType DEF Pos
  <2> HIDE DEF g, i
  <2> QED
    BY <1>6, <2>1, <2>2
<1>8. flen' = (IF flen >= pos + k THEN flen ELSE pos + k)
  BY <1>1 DEF Larger
<1> HIDE DEF g
<1>9. CASE flen > pos + k
  <2>1. flen' = flen /\ flen # pos /\ flen # pos + k /\ flen > 0
    BY <1>1, <1>4, <1>5, <1>8, <1>9
  <2>2. /\ \A q \in 0..(flen - 1) : file[q].t # "hole"
        /\ file[flen - 1].t = "end" /\ file[flen - 1].off \in 0..(flen - 1)
        /\ file[flen - 1].size = flen - 1 - file[flen - 1].off
    BY <1>3, <2>1 DEF Laid, Remains
  <2>3. ASSUME NEW q \in 0..(flen - 1) PROVE g[q].t # "hole"
    <3>1. q \in Pos /\ ((q < pos \/ q >= pos + k) \/ (q >= pos /\ q < pos + k))
      BY <1>1, <1>4 DEF Pos
    <3> QED
      BY <1>7, <2>2, <3>1
  <2>4. g[flen - 1] = file[flen - 1]
    <3>1. flen - 1 \in Pos /\ flen - 1 >= pos + k
      BY <1>1, <1>4, <1>9 DEF Pos
    <3> QED
      BY <1>7, <3>1
  <2>5. Remains(g, pos + k, flen)
    BY <2>2, <2>3, <2>4 DEF Remains
  <2>6. ReadCd(g, flen).ok
    BY <1>4, <2>1, <2>5, RemainsRead
  <2> QED
    BY <2>1, <2>6 DEF g
<1>10. CASE ~(flen > pos + k)
  <2>1. flen' = pos + k
    BY <1>1, <1>4, <1>8, <1>10
  <2>2. ASSUME NEW q \in pos..(pos + k - 1) PROVE g[q].t = "central"
    <3>1. q \in Pos /\ q >= pos /\ q < pos + k
      BY <1>1, <1>4, <1>5 DEF Pos
    <3> QED
      BY <1>7, <3>1
  <2>3. /\ Len(cdMem) = Len(entries) /\ Chain(cdMem, entries, pos)
        /\ \A i \in 1..Len(entries) :
             DescribedBelow(file, cdMem[i], 0, entries[i], pos) /\ Filled(file, cdMem[i], entries[i])
    BY <1>3 DEF Sound, Laid
  <2>4. ASSUME NEW i \in 1..Len(entries)
        PROVE  DescribedBelow(g, cdMem[i], 0, entries[i], pos) /\ Filled(g, cdMem[i], entries[i])
    <3> DEFINE c == cdMem[i]
               e == entries[i]
               f == file
    <3>1. /\ e \in Entry /\ DescribedBelow(f, c, 0, e, pos) /\ Filled(f, c, e)
          /\ pos \in 0..Capacity /\ pos \in Int /\ pos <= pos
      BY <1>4, <1>5, <2>3
    <3>2. \A q \in Pos : q < pos => g[q] = f[q]
      BY <1>7
    <3> HIDE DEF c, e, f
    <3>3. DescribedBelow(g, c, 0, e, pos)
      BY <3>1, <3>2, Unmoved
    <3>4. Filled(g, c, e)
      BY <3>1, <3>2, FilledAgain
    <3> QED
      BY <3>3, <3>4 DEF c, e
  <2>5. LaidOut(g, cdMem, entries, pos)
    BY <2>3, <2>4 DEF LaidOut
  <2>6. Rest(g, pos, flen') /\ pos \in 0..flen'
    <3>1. pos \in 0..flen'
      BY <1>1, <1>4, <2>1
    <3>2. ASSUME NEW q \in pos..(flen' - 1) PROVE g[q].t = "central"
      <4>1. q \in pos..(pos + k - 1)
        BY <1>1, <1>4, <2>1
      <4> QED
        BY <2>2, <4>1
    <3> QED
      BY <3>1, <3>2 DEF Rest
  <2> QED
    BY <2>5, <2>6 DEF g
<1> QED
  BY <1>9, <1>10

LEMMA QuietCrashed ==
  ASSUME CrashedInv, ~Writing', UNCHANGED <<file, flen, entries, health>>
  PROVE  CrashedInv'
BY DEF CrashedInv

LEMMA InitCrashed == Init => CrashedInv /\ LayoutInv
<1> SUFFICES ASSUME Init PROVE CrashedInv /\ LayoutInv
  OBVIOUS
<1>1. flen = 0 /\ entries = <<>> /\ mode = "none" /\ health = "crashed"
  BY DEF Init
<1>2. LaidOut(file, <<>>, <<>>, 0) /\ Rest(file, 0, 0)
  BY DEF LaidOut, Chain, Rest
<1>3. <<>> \in Seq(Cell) /\ 0 \in 0..0
  OBVIOUS
<1>4. \E dir \in Seq(Cell), b \in 0..flen : LaidOut(file, dir, entries, b) /\ Rest(file, b, flen)
  BY <1>1, <1>2, <1>3
<1> QED
  BY <1>1, <1>4 DEF CrashedInv, LayoutInv, Writing, Good

LEMMA NextCrashed ==
  ASSUME TypeInv, DirectoryInv, CountInv, LayoutInv, CrashedInv, [Next]_vars
  PROVE  CrashedInv'
<1>1. CASE WriteNext
  <2>1. CASE ZipOpenCreate
    BY <2>1 DEF ZipOpenCreate, CrashedInv
  <2>2. CASE ZipOpenAppend
    <3> DEFINE d == ReadCd(file, flen)
    <3>1. /\ mode = "none" /\ UNCHANGED <<file, flen, entries>>
          /\ health' = IF d.ok /\ ~Good THEN "reused" ELSE health
          /\ ~d.ok => mode' = mode
      BY <2>2 DEF ZipOpenAppend, fileVars
    <3> HIDE DEF d
    <3>2. CASE d.ok
      BY <3>1, <3>2 DEF CrashedInv, Good
    <3>3. CASE ~d.ok
      BY <3>1, <3>3, QuietCrashed DEF Writing
    <3> QED
      BY <3>2, <3>3
  <2>3. CASE \/ EntryWriteClose \/ \E c \in Chunks : EntryWrite(c)
             \/ \E n \in Names, u \in Declared, z \in Zip64Modes, dd \in Descriptors :
                  EntryWriteOpen(n, u, z, dd)
    <3>1. Writing /\ health' = health
      BY <2>3 DEF EntryWriteClose, EntryWrite, EntryWriteOpen, ghostVars
    <3> QED
      BY <3>1 DEF CrashedInv
  <2>4. CASE ZipCloseWrite
    <3> DEFINE s == Settled
               cells == IF s.ok THEN DirectoryOf(s) ELSE <<>>
    <3>1. Writing /\ Room(0) /\ health' = (IF cells = <<>> THEN Died ELSE health)
      BY <2>4 DEF ZipCloseWrite
    <3>2. health # "crashed"
      BY <3>1 DEF CrashedInv
    <3>3. Good => cells # <<>>
      <4> SUFFICES ASSUME Good PROVE cells # <<>>
        OBVIOUS
      <4>1. s.ok /\ s.number = Len(s.cdMem)
        BY <3>1, SettledCount DEF DirectoryInv
      <4>2. s.cdMem \in Seq(Cell)
        BY <3>1, SettledType
      <4> HIDE DEF s
      <4>3. ~(s.cdMem = <<>> /\ s.number > 0)
        BY <4>1, <4>2
      <4>4. cells = Append(s.cdMem, EndRecord(s.number, Len(s.cdMem), s.pos))
        BY <4>1, <4>3 DEF DirectoryOf
      <4> HIDE DEF cells
      <4> QED
        BY <4>2, <4>4
    <3> HIDE DEF cells
    <3>4. health' # "crashed"
      BY <3>1, <3>2, <3>3 DEF Died
    <3> QED
      BY <3>4 DEF CrashedInv
  <2> QED
    BY <1>1, <2>1, <2>2, <2>3, <2>4 DEF WriteNext
<1>2. CASE LookNext
  <2>1. UNCHANGED <<mode, file, flen, entries, health>>
    BY <1>2 DEF LookNext, GotoFirstEntry, GotoNextEntry, GotoEntry, LocateEntry, Goto,
                fileVars, ghostVars
  <2> QED
    BY <2>1 DEF CrashedInv, Writing
<1>3. CASE ReadNext
  <2>1. /\ ~Writing' /\ UNCHANGED <<file, flen, entries, health>>
    BY <1>3 DEF ReadNext, ZipOpenRead, ZipCloseRead, EntryReadOpen, EntryRead, EntryReadClose,
                FreshHandle, Writing, fileVars, ghostVars
  <2> QED
    BY <2>1, QuietCrashed
<1>4. CASE EnvNext
  <2>1. CASE Crash
    <3>1. /\ Writing /\ mode' = "none" /\ health' = Died /\ UNCHANGED <<file, flen, entries>>
      BY <2>1 DEF Crash, FreshHandle, fileVars
    <3>2. health # "crashed" /\ ~Writing'
      BY <3>1 DEF CrashedInv, Writing
    <3>3. CASE Good
      <4>1. \/ ReadCd(file, flen).ok
            \/ LaidOut(file, cdMem, entries, Closing) /\ Rest(file, Closing, flen) /\ Closing \in 0..flen
        BY <3>1, <3>3, CrashLeaves
      <4>2. cdMem \in Seq(Cell)
        BY DEF TypeInv, MemType
      <4> QED
        BY <3>1, <3>2, <4>1, <4>2 DEF CrashedInv
    <3>4. CASE ~Good
      BY <3>1, <3>2, <3>4 DEF CrashedInv, Died
    <3> QED
      BY <3>3, <3>4
  <2>2. ASSUME NEW k \in 1..(Capacity - 1), CrashInClose(k) PROVE CrashedInv'
    <3>1. /\ Writing /\ mode' = "none" /\ health' = Died /\ UNCHANGED entries
      BY <2>2 DEF CrashInClose, FreshHandle
    <3>2. health # "crashed" /\ ~Writing'
      BY <3>1 DEF CrashedInv, Writing
    <3>3. CASE Good
      <4>1. \/ ReadCd(file', flen').ok
            \/ LaidOut(file', cdMem, entries, pos) /\ Rest(file', pos, flen') /\ pos \in 0..flen'
        BY <2>2, <3>3, StoppedLeaves
      <4>2. cdMem \in Seq(Cell)
        BY DEF TypeInv, MemType
      <4> QED
        BY <3>1, <3>2, <4>1, <4>2 DEF CrashedInv
    <3>4. CASE ~Good
      BY <3>1, <3>2, <3>4 DEF CrashedInv, Died
    <3> QED
      BY <3>3, <3>4
  <2>3. ASSUME NEW k \in 1..MaxStub, NEW c \in Chunks, Prepend(k, c) PROVE CrashedInv'
    <3>1. Good /\ health' = health
      BY <2>3 DEF Prepend
    <3> QED
      BY <3>1 DEF CrashedInv, Good
  <2> QED
    BY <1>4, <2>1, <2>2, <2>3 DEF EnvNext
<1>5. CASE UNCHANGED vars
  <2>1. UNCHANGED <<mode, file, flen, entries, health>>
    BY <1>5 DEF vars, fileVars, ghostVars
  <2> QED
    BY <2>1 DEF CrashedInv, Writing
<1> QED
  BY <1>1, <1>2, <1>3, <1>4, <1>5 DEF Next

-----------------------------------------------------------------------------
(* Reading a directory that was rebuilt *)

\* A handle whose directory was rebuilt is one that no session of ZipArchive has:
\* it reads, from memory, what it found in a file that does not open without.
Rebuilding == mode = "read" /\ cdInMem
RebuiltInv ==
  /\ file \in [Pos -> Cell] /\ flen \in 0..Capacity /\ GhostType
  /\ ~Good /\ CrashedInv /\ ~ReadCd(file, flen).ok
  /\ cdMem = Recovered(file, flen, 0) /\ cdStart = 0 /\ shift = 0

\* The current entry is the one the cursor counts to, and what was read of it is the
\* beginning of its data.
RebuiltCursor ==
  /\ cdCur \in Nat /\ (opened => scanned)
  /\ scanned => cdCur < Len(cdMem) /\ info = InfoOf(cdMem[cdCur + 1])
  /\ opened /\ health = "crashed" /\ cdCur < Len(entries) =>
       /\ crc \in Content /\ pos = info.off + 1 + Len(crc) /\ Len(crc) <= info.csize
       /\ \A i \in 1..Len(crc) : crc[i] = entries[cdCur + 1].data[i]

SessionInv == TypeInv /\ DirectoryInv /\ ClearInv /\ CountInv /\ LayoutInv /\ CrashedInv
RecoverInv == IF Rebuilding THEN RebuiltInv /\ RebuiltCursor ELSE SessionInv

LEMMA RegainedNow ==
  ASSUME RebuiltInv, mode = "read", health = "crashed"
  PROVE  Regains(file, cdMem, entries, flen) /\ entries \in Seq(Entry)
<1>1. /\ file \in [Pos -> Cell] /\ flen \in 0..Capacity /\ entries \in Seq(Entry)
      /\ cdMem = Recovered(file, flen, 0)
  BY DEF RebuiltInv, GhostType
<1>2. PICK dir \in Seq(Cell), b \in 0..flen : LaidOut(file, dir, entries, b) /\ Rest(file, b, flen)
  BY DEF RebuiltInv, CrashedInv
<1> QED
  BY <1>1, <1>2, Regained

LEMMA CurrentRegained ==
  ASSUME RebuiltInv, RebuiltCursor, mode = "read", health = "crashed", scanned, cdCur < Len(entries)
  PROVE  LET e == entries[cdCur + 1]
             n == Len(e.data)
             o == info.off
         IN /\ e \in Entry /\ n \in Nat /\ o \in Nat /\ info.dd \in BOOLEAN
            /\ info.csize = n /\ info.crc = e.data /\ o < flen /\ flen \in Nat
            /\ At(file, flen, o).t = "local"
            /\ \A i \in 1..n : o + i < flen /\ file[o + i] = DataCell(e.data[i])
            /\ info.dd => At(file, flen, o + 1 + n).t = "descriptor"
<1> DEFINE k == cdCur + 1
           e == entries[k]
           c == cdMem[k]
           n == Len(e.data)
           o == c.off
<1>1. Regains(file, cdMem, entries, flen) /\ entries \in Seq(Entry)
  BY RegainedNow
<1>2. k \in 1..Len(entries) /\ info = InfoOf(c)
  BY <1>1 DEF RebuiltCursor
<1>3. e \in Entry /\ n \in Nat
  BY <1>1, <1>2, EntryFields
<1>4. /\ Describes(file, c, 0, e) /\ o \in Nat /\ c.dd \in BOOLEAN
      /\ o + n + (IF c.dd THEN 1 ELSE 0) < flen
  BY <1>1, <1>2 DEF Regains
<1>5. info.off = o /\ info.dd = c.dd /\ info.csize = c.csize /\ info.crc = c.crc
  BY <1>2 DEF InfoOf
<1>6. flen \in Nat /\ flen <= Capacity /\ Capacity \in Nat
  BY CapacityType DEF RebuiltInv
<1> HIDE DEF k, c, e
<1>7. /\ c.crc = e.data /\ c.csize = n /\ At(file, Capacity, o + 0).t = "local"
      /\ \A i \in 1..n : At(file, Capacity, o + 0 + i) = DataCell(e.data[i])
      /\ c.dd => At(file, Capacity, o + 0 + n + 1).t = "descriptor"
  BY <1>4 DEF Describes
<1> HIDE DEF o, n
<1>8. ASSUME NEW p \in Nat, p < flen
      PROVE  At(file, Capacity, p) = file[p] /\ At(file, flen, p) = file[p]
  BY <1>6, <1>8 DEF At
<1>9. o + 0 = o /\ o < flen
  BY <1>3, <1>4, <1>6
<1>10. ASSUME NEW i \in 1..n PROVE o + i < flen /\ file[o + i] = DataCell(e.data[i])
  <2>1. o + i \in Nat /\ o + i < flen /\ o + 0 + i = o + i
    BY <1>3, <1>4, <1>6
  <2> QED
    BY <1>7, <1>8, <2>1
<1>11. ASSUME c.dd PROVE At(file, flen, o + 1 + n).t = "descriptor"
  <2>1. o + 1 + n \in Nat /\ o + 1 + n < flen /\ o + 0 + n + 1 = o + 1 + n
    BY <1>3, <1>4, <1>6, <1>11
  <2> QED
    BY <1>7, <1>8, <1>11, <2>1
<1>12. At(file, flen, o).t = "local"
  BY <1>4, <1>7, <1>8, <1>9
<1> QED
  BY <1>3, <1>4, <1>5, <1>6, <1>7, <1>9, <1>10, <1>11, <1>12 DEF o, n, e, k

-----------------------------------------------------------------------------
(* The steps *)

\* An open that finds no directory leaves a rebuilt one, if it finds entries.
LEMMA RebuildStep ==
  ASSUME RecoverStart = 0, SessionInv, RecoverOpenRead,
         ~(ReadCd(file, flen).ok \/ Recovered(file, flen, RecoverStart) = <<>>)
  PROVE  Rebuilding' /\ RebuiltInv' /\ RebuiltCursor'
<1> DEFINE r == Recovered(file, flen, 0)
<1>1. /\ mode = "none" /\ mode' = "read" /\ cdMem' = r /\ cdInMem' = TRUE /\ cdStart' = 0
      /\ UNCHANGED <<file, flen, shift, cdCur, scanned, opened, entries, committed, health, stub>>
  BY DEF RecoverOpenRead, fileVars, entryVars, ghostVars
<1>2. /\ shift = 0 /\ cdCur = 0 /\ scanned = FALSE /\ opened = FALSE
      /\ file \in [Pos -> Cell] /\ flen \in 0..Capacity /\ GhostType
  BY <1>1 DEF SessionInv, TypeInv, FreshWhenClosed, FileType
<1>3. ~Good
  <2>1. Good => FinishedInv
    BY <1>1 DEF SessionInv, DirectoryInv, Writing
  <2> QED
    BY <2>1, FinishedRead DEF SessionInv
<1>4. CrashedInv'
  <2>1. ~Writing'
    BY <1>1 DEF Writing
  <2> QED
    BY <1>1, <2>1, QuietCrashed DEF SessionInv
<1> HIDE DEF r
<1>5. GhostType' /\ ~Good' /\ ~ReadCd(file', flen').ok
  BY <1>1, <1>2, <1>3 DEF GhostType, Good
<1>6. r = Recovered(file', flen', 0)
  BY <1>1 DEF r
<1>7. RebuiltInv'
  BY <1>1, <1>2, <1>4, <1>5, <1>6 DEF RebuiltInv
<1>8. RebuiltCursor'
  BY <1>1, <1>2 DEF RebuiltCursor
<1> QED
  BY <1>1, <1>7, <1>8 DEF Rebuilding

\* Other steps of a handle that has no rebuilt directory are those of ZipArchive.
LEMMA HandleStep ==
  ASSUME CallerHabits = {}, Zip64Disable \notin Zip64Modes, OneFormat, SessionInv, [Next]_vars
  PROVE  ~Rebuilding' /\ SessionInv'
<1>1. /\ TypeInv' /\ DirectoryInv' /\ ClearInv' /\ CountInv' /\ LayoutInv' /\ CrashedInv'
  BY NextType, NextDirectory, NextClear, NextCount, NextLayout, NextCrashed DEF SessionInv
<1>2. cdInMem' = Writing'
  BY <1>1 DEF TypeInv, InMemoryWhenWriting
<1> QED
  BY <1>1, <1>2 DEF SessionInv, Rebuilding, Writing

\* What a step preserves that goes on reading from the directory that was rebuilt.
LEMMA StillRebuilt ==
  ASSUME Rebuilding, RebuiltInv,
         UNCHANGED <<file, flen, mode, cdMem, cdInMem, cdStart, entries, committed, health, stub>>,
         shift' = 0
  PROVE  Rebuilding' /\ RebuiltInv'
<1>1. CrashedInv' /\ Good' = Good /\ GhostType'
  <2>1. CrashedInv /\ GhostType
    BY DEF RebuiltInv
  <2>2. Writing' = Writing
    BY DEF Writing
  <2> QED
    BY <2>1, <2>2 DEF CrashedInv, GhostType, Good
<1> QED
  BY <1>1 DEF Rebuilding, RebuiltInv

LEMMA GotoRebuilt ==
  ASSUME Rebuilding, RebuiltInv, RebuiltCursor, ~opened, NEW p \in Nat, Goto(p)
  PROVE  Rebuilding' /\ RebuiltInv' /\ RebuiltCursor'
<1> DEFINE c == CdCell(p)
<1>1. /\ UNCHANGED <<file, flen, mode, cdMem, cdInMem, cdStart, shift, opened, entries, committed,
                     health, stub>>
      /\ cdCur' = p
      /\ IF c.t = "central" THEN info' = InfoOf(c) /\ scanned' = TRUE ELSE scanned' = FALSE
  BY DEF Goto, fileVars, ghostVars
<1>2. c = IF p < Len(cdMem) THEN cdMem[p + 1] ELSE Hole
  BY DEF Rebuilding, CdCell, CdCellAt
<1>3. c.t = "central" => p < Len(cdMem) /\ c = cdMem[p + 1]
  BY <1>2 DEF Hole
<1> HIDE DEF c
<1>4. scanned' => p < Len(cdMem) /\ info' = InfoOf(cdMem[p + 1])
  BY <1>1, <1>3
<1>5. RebuiltCursor'
  BY <1>1, <1>4 DEF RebuiltCursor
<1>6. shift' = 0
  BY <1>1 DEF RebuiltInv
<1> QED
  BY <1>1, <1>5, <1>6, StillRebuilt

LEMMA LookRebuilt ==
  ASSUME Rebuilding, RebuiltInv, RebuiltCursor, LookNext
  PROVE  Rebuilding' /\ RebuiltInv' /\ RebuiltCursor'
<1>1. cdCur \in Nat /\ cdStart = 0 /\ cdStart \in Nat /\ Capacity \in Nat
  BY CapacityType DEF RebuiltInv, RebuiltCursor
<1>2. ASSUME UNCHANGED <<fileVars, mode, pos, dirVars, cdCur, entryVars, ghostVars>>
      PROVE  Rebuilding' /\ RebuiltInv' /\ RebuiltCursor'
  <2>1. UNCHANGED <<file, flen, mode, pos, cdMem, cdInMem, cdStart, shift, cdCur, info, scanned,
                    opened, crc, entries, committed, health, stub>>
    BY <1>2 DEF fileVars, dirVars, entryVars, ghostVars
  <2>2. RebuiltCursor'
    BY <2>1 DEF RebuiltCursor
  <2>3. shift' = 0
    BY <2>1 DEF RebuiltInv
  <2> QED
    BY <2>1, <2>2, <2>3, StillRebuilt
<1>3. CASE GotoFirstEntry
  BY <1>1, <1>3, GotoRebuilt DEF GotoFirstEntry
<1>4. CASE GotoNextEntry
  <2>1. cdCur + 1 \in Nat
    BY <1>1
  <2> QED
    BY <1>4, <2>1, GotoRebuilt DEF GotoNextEntry
<1>5. ASSUME NEW p \in Pos, GotoEntry(p) PROVE Rebuilding' /\ RebuiltInv' /\ RebuiltCursor'
  <2>1. p \in Nat
    BY CapacityType DEF Pos
  <2> QED
    BY <1>2, <1>5, <2>1, GotoRebuilt DEF GotoEntry
<1>6. ASSUME NEW n \in Names, LocateEntry(n) PROVE Rebuilding' /\ RebuiltInv' /\ RebuiltCursor'
  <2>1. \A p \in Walk : p \in Nat
    BY <1>1 DEF Walk
  <2>2. \A p \in WalkEnd : p \in Nat
    BY <1>1 DEF WalkEnd
  <2>3. ~opened
    BY <1>6 DEF LocateEntry
  <2>4. \/ UNCHANGED <<fileVars, mode, pos, dirVars, cdCur, entryVars, ghostVars>>
        \/ \E p \in Nat : Goto(p)
    BY <1>6, <2>1, <2>2 DEF LocateEntry
  <2> QED
    BY <1>2, <2>3, <2>4, GotoRebuilt
<1> QED
  BY <1>3, <1>4, <1>5, <1>6 DEF LookNext

LEMMA ReadOpenRebuilt ==
  ASSUME Rebuilding, RebuiltInv, RebuiltCursor, EntryReadOpen
  PROVE  Rebuilding' /\ RebuiltInv' /\ RebuiltCursor'
         /\ (health = "crashed" /\ cdCur < Len(entries) => ret' = "OK")
<1>1. /\ scanned /\ ~opened /\ mode = "read"
      /\ UNCHANGED <<file, flen, mode, cdMem, cdInMem, cdStart, cdCur, info, scanned, entries, committed,
                     health, stub>>
  BY DEF EntryReadOpen, fileVars, ghostVars
<1>2. shift = 0
  BY DEF RebuiltInv
<1>3. shift' = 0
  BY <1>2 DEF EntryReadOpen
<1>4. ASSUME health = "crashed", cdCur < Len(entries)
      PROVE  /\ ret' = "OK" /\ crc' = <<>> /\ pos' = info.off + 1 /\ info.off \in Nat
             /\ info.csize \in Nat
  <2>1. At(file, flen, info.off).t = "local" /\ info.off \in Nat /\ info.csize \in Nat
    BY <1>1, <1>4, CurrentRegained
  <2>2. LocalAt = info.off
    BY <1>2, <2>1 DEF LocalAt
  <2> QED
    BY <2>1, <2>2 DEF EntryReadOpen
<1>5. RebuiltCursor'
  <2>1. cdCur' \in Nat /\ scanned'
    BY <1>1 DEF RebuiltCursor
  <2>2. cdCur' < Len(cdMem') /\ info' = InfoOf(cdMem'[cdCur' + 1])
    BY <1>1 DEF RebuiltCursor
  <2>3. ASSUME health = "crashed", cdCur < Len(entries)
        PROVE  /\ crc' \in Content /\ pos' = info'.off + 1 + Len(crc') /\ Len(crc') <= info'.csize
               /\ \A i \in 1..Len(crc') : crc'[i] = entries'[cdCur' + 1].data[i]
    <3>1. crc' = <<>> /\ Len(crc') = 0 /\ 1..0 = {} /\ crc' \in Content
      BY <1>4, <2>3, ContentEmpty
    <3> QED
      BY <1>1, <1>4, <2>3, <3>1
  <2> QED
    BY <1>1, <2>1, <2>2, <2>3 DEF RebuiltCursor
<1> QED
  BY <1>1, <1>3, <1>4, <1>5, StillRebuilt

LEMMA ReadRebuilt ==
  ASSUME Rebuilding, RebuiltInv, RebuiltCursor, EntryRead
  PROVE  Rebuilding' /\ RebuiltInv' /\ RebuiltCursor'
<1>1. /\ opened /\ mode = "read" /\ Len(crc) < info.csize /\ pos < flen
      /\ crc' = Append(crc, Payload(file[pos])) /\ pos' = pos + 1
      /\ UNCHANGED <<file, flen, mode, cdMem, cdInMem, cdStart, shift, cdCur, info, scanned, opened,
                     entries, committed, health, stub>>
  BY DEF EntryRead, fileVars, dirVars, ghostVars
<1>2. shift' = 0
  BY <1>1 DEF RebuiltInv
<1>3. ASSUME health = "crashed", cdCur < Len(entries)
      PROVE  /\ crc' \in Content /\ pos' = info.off + 1 + Len(crc') /\ Len(crc') <= info.csize
             /\ \A i \in 1..Len(crc') : crc'[i] = entries[cdCur + 1].data[i]
  <2> DEFINE e == entries[cdCur + 1]
             n == Len(e.data)
             m == Len(crc)
             o == info.off
             x == Payload(file[pos])
  <2>1. /\ scanned /\ crc \in Content /\ pos = o + 1 + m /\ m <= info.csize
        /\ \A i \in 1..m : crc[i] = e.data[i]
    BY <1>1, <1>3 DEF RebuiltCursor
  <2>2. /\ n \in Nat /\ o \in Nat /\ info.csize = n
        /\ \A i \in 1..n : o + i < flen /\ file[o + i] = DataCell(e.data[i])
    BY <1>1, <1>3, <2>1, CurrentRegained
  <2>3. m \in Nat
    BY <2>1 DEF Content
  <2> HIDE DEF e, n, m, o
  <2>4. m + 1 \in 1..n /\ pos = o + (m + 1)
    BY <1>1, <2>1, <2>2, <2>3 DEF m
  <2>5. x = e.data[m + 1]
    BY <2>2, <2>4, PayloadOfData
  <2>6. x \in Chunks \cup {Junk}
    <3>1. pos \in Pos
      <4>1. pos \in Nat /\ pos < flen /\ flen \in 0..Capacity /\ Capacity \in Nat
        BY <1>1, <2>2, <2>3, <2>4, CapacityType DEF RebuiltInv
      <4> QED
        BY <4>1 DEF Pos
    <3>2. file[pos] \in Cell
      BY <3>1 DEF RebuiltInv
    <3> QED
      BY <3>2, PayloadType
  <2> HIDE DEF x
  <2>7. crc' = Append(crc, x)
    BY <1>1 DEF x
  <2>8. crc' \in Content /\ Len(crc') = m + 1
    BY <2>1, <2>6, <2>7 DEF Content, m
  <2>9. ASSUME NEW i \in 1..Len(crc') PROVE crc'[i] = e.data[i]
    <3>1. CASE i \in 1..m
      <4>1. crc'[i] = crc[i]
        BY <2>1, <2>7, <3>1 DEF Content, m
      <4> QED
        BY <2>1, <3>1, <4>1
    <3>2. CASE i = m + 1
      <4>1. crc'[i] = x
        BY <2>1, <2>7, <3>2 DEF Content, m
      <4> QED
        BY <2>5, <3>2, <4>1
    <3> QED
      BY <2>3, <2>8, <3>1, <3>2
  <2>10. pos' = o + 1 + Len(crc') /\ Len(crc') <= info.csize
    BY <1>1, <2>2, <2>3, <2>4, <2>8
  <2> QED
    BY <2>8, <2>9, <2>10 DEF e, o
<1>4. RebuiltCursor'
  <2>1. /\ cdCur' \in Nat /\ scanned'
        /\ cdCur' < Len(cdMem') /\ info' = InfoOf(cdMem'[cdCur' + 1])
    BY <1>1 DEF RebuiltCursor
  <2> QED
    BY <1>1, <1>3, <2>1 DEF RebuiltCursor
<1> QED
  BY <1>1, <1>2, <1>4, StillRebuilt

LEMMA ReadCloseRebuilt ==
  ASSUME Rebuilding, RebuiltInv, RebuiltCursor, NEW w \in BOOLEAN, EntryReadClose(w)
  PROVE  /\ Rebuilding' /\ RebuiltInv' /\ RebuiltCursor'
         /\ health = "crashed" /\ cdCur < Len(entries) /\ Len(crc) = info.csize =>
              ret' = "OK" /\ crc = entries[cdCur + 1].data
<1>1. /\ opened /\ opened' = FALSE
      /\ UNCHANGED <<file, flen, mode, cdMem, cdInMem, cdStart, shift, cdCur, info, scanned,
                     entries, committed, health, stub>>
  BY DEF EntryReadClose, fileVars, dirVars, ghostVars
<1>2. shift' = 0
  BY <1>1 DEF RebuiltInv
<1>3. RebuiltCursor'
  <2>1. cdCur' \in Nat /\ (scanned' => cdCur' < Len(cdMem') /\ info' = InfoOf(cdMem'[cdCur' + 1]))
    BY <1>1 DEF RebuiltCursor
  <2> QED
    BY <1>1, <2>1 DEF RebuiltCursor
<1>4. ASSUME health = "crashed", cdCur < Len(entries), Len(crc) = info.csize
      PROVE  ret' = "OK" /\ crc = entries[cdCur + 1].data
  <2> DEFINE e == entries[cdCur + 1]
             n == Len(e.data)
             o == info.off
  <2>1. scanned /\ mode = "read" /\ crc \in Content /\ \A i \in 1..Len(crc) : crc[i] = e.data[i]
    BY <1>1, <1>4 DEF RebuiltCursor, Rebuilding
  <2>2. /\ e \in Entry /\ n \in Nat /\ o \in Nat /\ info.csize = n /\ info.crc = e.data
        /\ info.dd => At(file, flen, o + 1 + n).t = "descriptor"
    BY <1>4, <2>1, CurrentRegained
  <2>3. crc = e.data
    <3>1. e.data \in Content /\ Len(crc) = n
      BY <1>4, <2>2, EntryFields
    <3> HIDE DEF e
    <3>2. crc = [i \in 1..n |-> crc[i]] /\ e.data = [i \in 1..n |-> e.data[i]]
      BY <2>1, <3>1 DEF Content
    <3>3. \A i \in 1..n : crc[i] = e.data[i]
      BY <2>1, <3>1
    <3> QED
      BY <3>2, <3>3
  <2>4. LocalAt = o
    BY <2>2 DEF RebuiltInv, LocalAt
  <2>5. DescriptorAt = o + 1 + n
    BY <1>4, <2>2, <2>4 DEF DescriptorAt
  <2> HIDE DEF o, n
  <2>6. info.dd => At(file, flen, DescriptorAt).t = "descriptor"
    BY <2>2, <2>5
  <2>7. crc = info.crc
    BY <2>2, <2>3
  <2>8. ret' = "OK"
    BY <2>6, <2>7 DEF EntryReadClose
  <2> QED
    BY <2>3, <2>8
<1> QED
  BY <1>1, <1>2, <1>3, <1>4, StillRebuilt

\* A handle is closed as any other, and the file goes on without its directory.
LEMMA CloseRebuilt ==
  ASSUME Rebuilding, RebuiltInv, RebuiltCursor, ZipCloseRead
  PROVE  ~Rebuilding' /\ SessionInv'
<1>1. FreshHandle /\ UNCHANGED <<file, flen, entries, committed, health, stub>>
  BY DEF ZipCloseRead, fileVars, ghostVars
<1>2. mode' = "none" /\ ~Writing'
  BY <1>1 DEF FreshHandle, Writing
<1>3. TypeInv'
  <2>1. file' \in [Pos -> Cell] /\ flen' \in 0..Capacity
    BY <1>1 DEF RebuiltInv
  <2>2. GhostType'
    BY <1>1 DEF RebuiltInv, GhostType
  <2>3. ret' \in {"OK", "PARAM", "FORMAT", "CRC", "END_OF_LIST"}
    BY DEF ZipCloseRead
  <2> QED
    BY <1>1, <2>1, <2>2, <2>3, FreshType
<1>4. ~Good'
  BY <1>1 DEF RebuiltInv, Good
<1>5. CrashedInv'
  BY <1>1, <1>2, QuietCrashed DEF RebuiltInv
<1>6. DirectoryInv' /\ ClearInv' /\ LayoutInv' /\ CountInv'
  BY <1>2, <1>4 DEF DirectoryInv, ClearInv, LayoutInv, CountInv
<1> QED
  BY <1>2, <1>3, <1>5, <1>6 DEF SessionInv, Rebuilding

LEMMA IdleRebuilt ==
  ASSUME Rebuilding, RebuiltInv, RebuiltCursor, UNCHANGED vars
  PROVE  Rebuilding' /\ RebuiltInv' /\ RebuiltCursor'
<1>1. UNCHANGED <<file, flen, mode, pos, cdMem, cdInMem, cdStart, shift, cdCur, info, scanned,
                  opened, crc, entries, committed, health, stub>>
  BY DEF vars, fileVars, dirVars, entryVars, ghostVars
<1>2. RebuiltCursor'
  BY <1>1 DEF RebuiltCursor
<1>3. shift' = 0
  BY <1>1 DEF RebuiltInv
<1> QED
  BY <1>1, <1>2, <1>3, StillRebuilt

\* A handle that reads does not write, nor does its process die writing.
LEMMA ReadersOnlyRead ==
  ASSUME mode = "read", WriteNext \/ EnvNext \/ ZipOpenRead \/ RecoverOpenRead
  PROVE  FALSE
<1>1. ~Writing
  BY DEF Writing
<1>2. ~WriteNext
  BY <1>1 DEF WriteNext, ZipOpenCreate, ZipOpenAppend, ZipCloseWrite, EntryWriteOpen, EntryWrite,
              EntryWriteClose
<1>3. ~EnvNext
  BY <1>1 DEF EnvNext, Crash, CrashInClose, Prepend
<1>4. ~ZipOpenRead
  BY DEF ZipOpenRead
<1>5. ~RecoverOpenRead
  BY <1>4 DEF RecoverOpenRead
<1> QED
  BY <1>2, <1>3, <1>4, <1>5

-----------------------------------------------------------------------------
(* The theorems *)

LEMMA InitRecover == Init => RecoverInv
<1> SUFFICES ASSUME Init PROVE RecoverInv
  OBVIOUS
<1>1. TypeInv /\ DirectoryInv /\ ClearInv /\ CrashedInv /\ LayoutInv
  BY InitType, InitDirectory, InitCrashed
<1>2. mode = "none" /\ health = "crashed"
  BY DEF Init
<1>3. CountInv
  BY <1>2 DEF CountInv, Good, Writing
<1> QED
  BY <1>1, <1>2, <1>3 DEF RecoverInv, SessionInv, Rebuilding

LEMMA RecoverStep ==
  ASSUME CallerHabits = {}, Zip64Disable \notin Zip64Modes, OneFormat, RecoverStart = 0,
         RecoverInv, [RecoverNext]_vars
  PROVE  RecoverInv'
<1>1. CASE Rebuilding
  <2>1. RebuiltInv /\ RebuiltCursor /\ mode = "read"
    BY <1>1 DEF RecoverInv, Rebuilding
  <2>2. CASE UNCHANGED vars
    BY <1>1, <2>1, <2>2, IdleRebuilt DEF RecoverInv
  <2>3. CASE LookNext
    BY <1>1, <2>1, <2>3, LookRebuilt DEF RecoverInv
  <2>4. CASE RecoverReadNext
    <3>1. CASE ZipCloseRead
      BY <1>1, <2>1, <3>1, CloseRebuilt DEF RecoverInv
    <3>2. CASE EntryReadOpen
      BY <1>1, <2>1, <3>2, ReadOpenRebuilt DEF RecoverInv
    <3>3. CASE EntryRead
      BY <1>1, <2>1, <3>3, ReadRebuilt DEF RecoverInv
    <3>4. ASSUME NEW w \in BOOLEAN, EntryReadClose(w) PROVE RecoverInv'
      BY <1>1, <2>1, <3>4, ReadCloseRebuilt DEF RecoverInv
    <3> QED
      BY <2>1, <2>4, <3>1, <3>2, <3>3, <3>4, ReadersOnlyRead DEF RecoverReadNext
  <2> QED
    BY <2>1, <2>2, <2>3, <2>4, ReadersOnlyRead DEF RecoverNext
<1>2. CASE ~Rebuilding
  <2>1. SessionInv
    BY <1>2 DEF RecoverInv
  <2>2. ASSUME [Next]_vars PROVE RecoverInv'
    BY <2>1, <2>2, HandleStep DEF RecoverInv
  <2>3. CASE RecoverOpenRead
    <3>1. CASE ReadCd(file, flen).ok \/ Recovered(file, flen, RecoverStart) = <<>>
      <4>1. ZipOpenRead
        BY <2>3, <3>1 DEF RecoverOpenRead
      <4>2. Next
        BY <4>1 DEF Next, ReadNext
      <4> QED
        BY <2>2, <4>2
    <3>2. CASE ~(ReadCd(file, flen).ok \/ Recovered(file, flen, RecoverStart) = <<>>)
      BY <2>1, <2>3, <3>2, RebuildStep DEF RecoverInv
    <3> QED
      BY <3>1, <3>2
  <2>4. CASE ~RecoverOpenRead
    <3>1. [Next]_vars
      BY <2>4 DEF RecoverNext, RecoverReadNext, Next, ReadNext
    <3> QED
      BY <2>2, <3>1
  <2> QED
    BY <2>3, <2>4
<1> QED
  BY <1>1, <1>2

\* However many sessions there were before, and whatever older directory they left: the
\* directory that is rebuilt after a process died has every entry it had closed, in order,
\* and at most one more.  Assumed, as in the theorems about finished archives, of callers
\* and formats; of the stream, that it is rewound before the search, as a split one is; and
\* that writers declare all sizes or none.
THEOREM RecoveryAlwaysRegains ==
  ASSUME CallerHabits = {}, Zip64Disable \notin Zip64Modes, OneFormat, RecoverStart = 0
  PROVE  RecoverSpec => []RecoveryRegainsEntries
<1>1. Init => RecoverInv
  BY InitRecover
<1>2. RecoverInv /\ [RecoverNext]_vars => RecoverInv'
  BY RecoverStep
<1>3. RecoverInv => RecoveryRegainsEntries
  <2> SUFFICES ASSUME RecoverInv, mode = "read", cdInMem, health = "crashed"
               PROVE  Presents(entries) /\ Len(cdMem) <= Len(entries) + 1
    BY DEF RecoveryRegainsEntries
  <2>1. RebuiltInv
    BY DEF RecoverInv, Rebuilding
  <2>2. /\ Regains(file, cdMem, entries, flen) /\ entries \in Seq(Entry)
        /\ cdStart = 0 /\ shift = 0
    BY <2>1, RegainedNow DEF RebuiltInv
  <2>3. /\ Len(cdMem) \in Nat /\ Len(entries) \in Nat /\ Len(entries) <= Len(cdMem)
        /\ Len(cdMem) <= Len(entries) + 1
    BY <2>2 DEF Regains
  <2>4. ASSUME NEW i \in 1..Len(entries)
        PROVE  Describes(file, CdCell(cdStart + i - 1), shift, entries[i])
    <3>1. cdStart + i - 1 = i - 1 /\ i - 1 < Len(cdMem) /\ (i - 1) + 1 = i
      BY <2>2, <2>3
    <3>2. CdCell(cdStart + i - 1) = cdMem[i]
      BY <3>1 DEF CdCell, CdCellAt
    <3> QED
      BY <2>2, <3>2 DEF Regains
  <2> QED
    BY <2>3, <2>4 DEF Presents
<1> QED
  BY <1>1, <1>2, <1>3, PTL DEF RecoverSpec

\* And every entry that was closed opens by that directory, yields what was written to it
\* when it is read to its end, and is then closed without an error.
THEOREM RecoveredAlwaysRead ==
  ASSUME CallerHabits = {}, Zip64Disable \notin Zip64Modes, OneFormat, RecoverStart = 0
  PROVE  RecoverSpec => RecoveredEntriesRead
<1>1. Init => RecoverInv
  BY InitRecover
<1>2. RecoverInv /\ [RecoverNext]_vars => RecoverInv'
  BY RecoverStep
<1>3. RecoverInv =>
        (cdInMem /\ health = "crashed" /\ cdCur < Len(entries) =>
          /\ EntryReadOpen => ret' = "OK"
          /\ \A w \in BOOLEAN : EntryReadClose(w) /\ Len(crc) = info.csize =>
               ret' = "OK" /\ crc = entries[cdCur + 1].data)
  <2> SUFFICES ASSUME RecoverInv, cdInMem, health = "crashed", cdCur < Len(entries)
               PROVE  /\ EntryReadOpen => ret' = "OK"
                      /\ \A w \in BOOLEAN : EntryReadClose(w) /\ Len(crc) = info.csize =>
                           ret' = "OK" /\ crc = entries[cdCur + 1].data
    OBVIOUS
  <2>1. mode = "read" => Rebuilding /\ RebuiltInv /\ RebuiltCursor
    BY DEF RecoverInv, Rebuilding
  <2>2. ASSUME EntryReadOpen PROVE ret' = "OK"
    <3>1. mode = "read"
      BY <2>2 DEF EntryReadOpen
    <3> QED
      BY <2>1, <2>2, <3>1, ReadOpenRebuilt
  <2>3. ASSUME NEW w \in BOOLEAN, EntryReadClose(w), Len(crc) = info.csize
        PROVE  ret' = "OK" /\ crc = entries[cdCur + 1].data
    <3>1. mode = "read"
      BY <2>3 DEF EntryReadClose
    <3> QED
      BY <2>1, <2>3, <3>1, ReadCloseRebuilt
  <2> QED
    BY <2>2, <2>3
<1>4. RecoverInv /\ [RecoverNext]_vars =>
        [ cdInMem /\ health = "crashed" /\ cdCur < Len(entries) =>
            /\ EntryReadOpen => ret' = "OK"
            /\ \A w \in BOOLEAN : EntryReadClose(w) /\ Len(crc) = info.csize =>
                 ret' = "OK" /\ crc = entries[cdCur + 1].data ]_vars
  BY <1>3
<1> QED
  BY <1>1, <1>2, <1>4, PTL DEF RecoverSpec, RecoveredEntriesRead
=============================================================================
