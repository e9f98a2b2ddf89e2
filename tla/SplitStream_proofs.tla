-------------------------- MODULE SplitStream_proofs ---------------------------
(***************************************************************************)
(* Theorems about SplitStream, for every size of the parts, every entry    *)
(* and every bound, when no header is patched on another part.             *)
(***************************************************************************)
EXTENDS SplitStream, Overlays_proofs

-----------------------------------------------------------------------------
(* The invariant *)

Stored == Bytes \cup {DiskHeader, Dir}
SplitType ==
  [mode : {"create", "append", "read"}, diskSize : Nat, number : Int, out : Nat,
   outDisk : Nat, current : Int, base : Int, pos : Nat]
EntryType ==
  [data : Seq(Bytes), cells : Seq(Int \X Nat), disk : Nat, offset : Nat]

Held(f) == f \in [DOMAIN f -> Seq(Stored)] /\ DOMAIN f \subseteq Int
TypeInv ==
  /\ Held(files)
  /\ call \in {"none", "read", "write", "skip"} /\ err \in {"ok", "exist", "open"}
  /\ phase \in {"closed", "writing", "entry", "directory", "reading"}
  /\ entries \in Seq(EntryType)
  /\ withCd \in Nat /\ cdAt \in Nat /\ diskSize \in Nat /\ lost \in BOOLEAN /\ writers \in Nat
  /\ left \in Nat /\ got \in Seq(Stored) /\ todo \in Seq(Stored)
  /\ cursor \in Nat \X Nat /\ origin \in Nat
PhaseInv ==
  /\ phase # "closed" => split \in SplitType /\ writers > 0
  /\ writers = 0 => DOMAIN files = {} /\ entries = <<>>
  /\ call = "write" => phase \in {"entry", "directory"}
  /\ call \in {"read", "skip"} => phase = "reading"
  /\ phase # "reading" => cursor[1] = 0

\* The numbered parts of an archive; without a size of parts there is only its file.
Writing == phase \in {"writing", "entry"}
Top == IF Writing THEN split.number ELSE withCd - 1
Parts(d, top) == IF d = 0 THEN {Cd} ELSE 0..top

\* The parts are those the archive was written to, until one is lost, and the first begins with the disk header.
PartsInv ==
  /\ DOMAIN files \subseteq {Cd} \cup Parts(diskSize, Top)
  /\ ~lost => Parts(diskSize, Top) \subseteq DOMAIN files
  /\ 0 \in DOMAIN files => files[0] # <<>> /\ files[0][1] = DiskHeader
  /\ diskSize = 0 => withCd = 0
  /\ ~Writing => Cd \in DOMAIN files /\ cdAt <= Len(files[Cd]) /\ (diskSize > 0 => withCd >= 1)
FilesInv == writers > 0 => PartsInv

\* Byte d is the next one behind place c in files f, in its part or at the beginning of the next.
Follows(f, c, d) ==
  \/ d = <<c[1], c[2] + 1>>
  \/ c[1] >= 0 /\ d = <<c[1] + 1, 1>> /\ (c[1] \in DOMAIN f => c[2] = Len(f[c[1]]))

PartOf(d, e) == IF d = 0 THEN Cd ELSE e.disk
StartOf(d, e) == <<PartOf(d, e), e.offset>>
PlaceOf(d, e, j) == IF j = 0 THEN StartOf(d, e) ELSE e.cells[j]

\* Where entry e begins is a place in its part.
BeginsIn(f, d, top, e) ==
  /\ PartOf(d, e) \in Parts(d, top) /\ (d = 0 => e.disk = 0)
  /\ PartOf(d, e) \in DOMAIN f => e.offset <= Len(f[PartOf(d, e)])
  /\ PartOf(d, e) = 0 => e.offset >= 1
\* Cell c is in the parts and holds b, unless its part is lost.
Keeps(f, d, top, c, b) ==
  /\ c[1] \in Parts(d, top) /\ c[2] >= 1
  /\ c[1] \in DOMAIN f => c[2] <= Len(f[c[1]]) /\ f[c[1]][c[2]] = b
\* The bytes of e are in cells, each behind the one before.
Placed(f, d, top, e) ==
  /\ BeginsIn(f, d, top, e)
  /\ Len(e.cells) = Len(e.data)
  /\ \A j \in 1..Len(e.data) : Keeps(f, d, top, e.cells[j], e.data[j])
  /\ \A j \in 0..(Len(e.data) - 1) : Follows(f, PlaceOf(d, e, j), e.cells[j + 1])

\* Nothing of an archive in one file is behind where its directory is, or will be.
Mark == IF Writing THEN split.pos ELSE cdAt
UpTo(m, e) == e.offset <= m /\ \A j \in 1..Len(e.data) : e.cells[j][2] <= m
EntriesInv ==
  \A i \in 1..Len(entries) :
    Placed(files, diskSize, Top, entries[i]) /\ (diskSize = 0 => UpTo(Mark, entries[i]))

\* A writer stands at the end of the last part; one that appends in the archive's file, before it
\* writes.  It has failed when it stands nowhere.
AtEnd ==
  /\ split.base = split.number /\ split.current = split.number
  /\ split.pos = Len(files[split.number]) /\ split.outDisk <= diskSize
AtDirectory ==
  /\ phase = "writing" /\ split.mode = "append" /\ split.base = Cd /\ split.current = Cd
  /\ Cd \in DOMAIN files /\ split.pos <= Len(files[Cd]) /\ split.outDisk = 0
WriterInv ==
  Writing =>
    /\ ~lost /\ split.diskSize = diskSize /\ split.mode \in {"create", "append"} /\ err \in {"ok", "open"}
    /\ split.mode = "append" => Cd \in DOMAIN files
    /\ diskSize = 0 => /\ split.number = 0 /\ split.base = Cd /\ err = "ok"
                       /\ split.pos <= Len(files[Cd])
    /\ diskSize > 0 => /\ split.number >= 0
                       /\ IF err = "ok" THEN AtEnd \/ AtDirectory
                          ELSE split.base = Closed /\ split.mode = "append" /\ call = "none"
DirectoryInv ==
  phase = "directory" =>
    /\ ~lost /\ split.diskSize = diskSize /\ split.mode \in {"create", "append"} /\ err = "ok"
    /\ split.number = Cd /\ split.base = Cd
    /\ split.pos <= Len(files[Cd])
    /\ call = "write" => split.pos = cdAt /\ todo = <<Dir>>
    /\ diskSize > 0 => split.current = Cd /\ (call = "write" => split.outDisk = 0)

\* The entry being written ends where the writer stands, begins behind the others, and has its first
\* byte in one cell only.
Precedes(c, d) == c[1] < d[1] \/ (c[1] = d[1] /\ c[2] <= d[2])
EntryInv ==
  phase = "entry" =>
    LET n == Len(entries)
        e == entries[n]
    IN /\ n > 0
       /\ \A i \in 1..(n - 1) : \A j \in 1..Len(entries[i].data) :
            Precedes(entries[i].cells[j], StartOf(diskSize, e))
       /\ \A j \in 2..Len(e.data) : e.cells[j] # e.cells[1]
       /\ err = "ok" => PlaceOf(diskSize, e, Len(e.data)) = <<split.base, split.pos>>
       /\ call = "write" => todo \in Seq(Bytes) /\ todo # <<>>

\* A reader stands in a part it has, in front of the byte that it reads next.
ReaderAt(j) ==
  LET e == entries[cursor[1]] IN
  j < Len(e.data) => Follows(files, <<split.base, split.pos>>, e.cells[j + 1])
CursorInv ==
  cursor[1] # 0 =>
    LET e == entries[cursor[1]] IN
    /\ cursor[1] <= Len(entries) /\ cursor[2] <= Len(e.data)
    /\ origin + Len(got) = cursor[2] /\ \A i \in 1..Len(got) : got[i] = e.data[origin + i]
    /\ err = "ok" => CASE call = "skip" -> left <= cursor[2] /\ ReaderAt(cursor[2] - left)
                       [] call = "read" -> cursor[2] + left <= Len(e.data) /\ ReaderAt(cursor[2])
                       [] OTHER -> ReaderAt(cursor[2])
ReaderInv ==
  phase = "reading" =>
    /\ split.mode = "read" /\ split.diskSize = 0
    /\ err = "ok" => /\ split.current = split.base /\ split.number = split.base
                     /\ split.base \in DOMAIN files /\ split.pos <= Len(files[split.base])
    /\ err # "ok" => split.base = Closed /\ lost
    /\ call # "none" => err = "ok" /\ cursor[1] # 0 /\ left > 0
    /\ CursorInv

\* The first writer counts what it has put into the last part, and has filled those before.
FilledInv ==
  writers = 1 /\ diskSize > 0 =>
    /\ \A n \in DOMAIN files \ {Cd} :
         Len(files[n]) <= diskSize /\ (n < Top => Len(files[n]) = diskSize)
    /\ Writing => /\ split.mode = "create" /\ split.outDisk = Len(files[split.number])

SplitInv ==
  /\ TypeInv /\ PhaseInv /\ FilesInv /\ EntriesInv /\ WriterInv /\ DirectoryInv /\ EntryInv
  /\ ReaderInv /\ FilledInv

-----------------------------------------------------------------------------
(* What turning to a part does *)

LEMMA GotoSame ==
  ASSUME NEW f, NEW s \in SplitType, NEW n, s.base # Closed,
         n = s.current \/ (s.diskSize = 0 /\ s.mode # "read")
  PROVE  GotoDisk(f, s, n) = [f |-> f, s |-> s, err |-> "ok"]
BY DEF GotoDisk, SplitType

\* The stream after part n was opened, in a call that leaves m as its number.
InPart(s, n, m, p, k, q) ==
  [mode |-> s.mode, diskSize |-> s.diskSize, number |-> m, current |-> n,
   base |-> n, out |-> q, outDisk |-> k, pos |-> p]

LEMMA ClosedFirst ==
  ASSUME NEW s \in SplitType
  PROVE  LET t == [s EXCEPT !.base = Closed] IN
           /\ t \in SplitType /\ t.mode = s.mode /\ t.diskSize = s.diskSize /\ t.number = s.number
           /\ t.out = s.out /\ t.base = Closed /\ t.current = s.current /\ t.outDisk = s.outDisk
BY DEF SplitType, Closed

LEMMA GotoOther ==
  ASSUME NEW f, NEW s \in SplitType, s.diskSize > 0 \/ s.mode = "read",
         NEW n \in Int, n # s.current \/ s.base = Closed
  PROVE  LET o == OpenDisk(f, [s EXCEPT !.base = Closed], n) IN
         GotoDisk(f, s, n) = IF o.err = "ok" THEN [o EXCEPT !.s.number = n] ELSE o
BY DEF GotoDisk, SplitType

LEMMA NumberSet ==
  ASSUME NEW s, NEW n, NEW m, NEW p, NEW k, NEW q, NEW g, NEW o,
         o = [f |-> g, s |-> InPart(s, n, m, p, k, q), err |-> "ok"]
  PROVE  /\ o.err = "ok"
         /\ [o EXCEPT !.s.number = n] = [f |-> g, s |-> InPart(s, n, n, p, k, q), err |-> "ok"]
<1> DEFINE t == InPart(s, n, m, p, k, q)
           u == InPart(s, n, n, p, k, q)
<1>1. [t EXCEPT !.number = n] = u
  BY DEF InPart
<1>2. o = [f |-> g, s |-> t, err |-> "ok"]
  OBVIOUS
<1> HIDE DEF t, u
<1>3. o.err = "ok" /\ [o EXCEPT !.s.number = n] = [f |-> g, s |-> u, err |-> "ok"]
  BY <1>1, <1>2
<1> QED
  BY <1>3 DEF u

LEMMA WithSamePart ==
  ASSUME NEW f, f = [x \in DOMAIN f |-> f[x]], NEW p \in DOMAIN f
  PROVE  WithPart(f, p, f[p]) = f
<1>1. DOMAIN f \cup {p} = DOMAIN f
  OBVIOUS
<1>2. [x \in DOMAIN f |-> IF x = p THEN f[p] ELSE f[x]] = [x \in DOMAIN f |-> f[x]]
  OBVIOUS
<1> QED
  BY <1>1, <1>2 DEF WithPart

LEMMA GotoRead ==
  ASSUME NEW f, f = [x \in DOMAIN f |-> f[x]], NEW s \in SplitType, s.mode = "read", NEW n \in Int,
         n = Cd \/ n >= 0, n \in DOMAIN f, f[n] \in Seq(Stored),
         n = 0 => f[n] # <<>> /\ f[n][1] = DiskHeader,
         n # s.current \/ s.base = Closed
  PROVE  \E p \in 0..Len(f[n]) : (n # 0 => p = 0) /\
           GotoDisk(f, s, n) = [f |-> f, s |-> InPart(s, n, n, p, 0, s.out), err |-> "ok"]
<1> DEFINE s0 == [s EXCEPT !.base = Closed]
           o == OpenDisk(f, s0, n)
           opened == InPart(s, n, s.number, 0, 0, s.out)
<1>0. GotoDisk(f, s, n) = IF o.err = "ok" THEN [o EXCEPT !.s.number = n] ELSE o
  BY GotoOther
<1>1. /\ s0.mode = "read" /\ s0.diskSize = s.diskSize /\ s0.number = s.number /\ s0.out = s.out
      /\ s.out + 0 = s.out
  BY ClosedFirst DEF SplitType
<1> HIDE DEF s0
<1>2. PathOf(s0, n) = n
  BY <1>1 DEF PathOf, Cd
<1>3. WithPart(f, n, f[n]) = f
  BY WithSamePart, Zenon
<1>4. Len(f[n]) \in Nat
  BY LenProperties
<1>5. CASE n = 0
  <2> DEFINE p == Least(1, Len(f[n]))
  <2>1. Head(f[n]) = DiskHeader /\ n \in DOMAIN f
    BY <1>5
  <2>2. o = [f |-> f, s |-> [opened EXCEPT !.pos = p], err |-> "ok"]
    BY <1>1, <1>2, <1>5, <2>1 DEF OpenDisk, Start, InPart
  <2>3. p \in 0..Len(f[n])
    BY <1>4 DEF Least
  <2> HIDE DEF p
  <2>4. [opened EXCEPT !.pos = p] = InPart(s, n, s.number, p, 0, s.out)
    BY DEF InPart
  <2>5. o = [f |-> f, s |-> InPart(s, n, s.number, p, 0, s.out), err |-> "ok"]
    BY <2>2, <2>4, Zenon
  <2> HIDE DEF o
  <2>6. GotoDisk(f, s, n) = [f |-> f, s |-> InPart(s, n, n, p, 0, s.out), err |-> "ok"]
    BY <1>0, <2>5, NumberSet
  <2> QED
    BY <2>3, <2>6, <1>5
<1>6. CASE n # 0
  <2>1. o = [f |-> WithPart(f, n, f[n]), s |-> opened, err |-> "ok"]
    BY <1>1, <1>2, <1>6 DEF OpenDisk, Start, InPart
  <2>2. o = [f |-> f, s |-> opened, err |-> "ok"]
    BY <2>1, <1>3, Zenon
  <2> HIDE DEF o
  <2>3. GotoDisk(f, s, n) = [f |-> f, s |-> InPart(s, n, n, 0, 0, s.out), err |-> "ok"]
    BY <1>0, <2>2, NumberSet
  <2> QED
    BY <1>4, <2>3
<1> QED
  BY <1>5, <1>6

LEMMA GotoMissing ==
  ASSUME NEW f, NEW s \in SplitType, s.mode # "create", NEW n \in Int, n >= 0, n \notin DOMAIN f,
         s.mode = "read" \/ s.diskSize > 0, n # s.current \/ s.base = Closed
  PROVE  GotoDisk(f, s, n) = [f |-> f, s |-> [s EXCEPT !.base = Closed],
                              err |-> IF s.mode = "read" THEN "exist" ELSE "open"]
<1> DEFINE s0 == [s EXCEPT !.base = Closed]
           o == OpenDisk(f, s0, n)
<1>0. GotoDisk(f, s, n) = IF o.err = "ok" THEN [o EXCEPT !.s.number = n] ELSE o
  BY GotoOther
<1>2. s0.mode = s.mode /\ s0.diskSize = s.diskSize
  BY ClosedFirst
<1> HIDE DEF s0
<1>3. PathOf(s0, n) = n
  BY <1>2 DEF PathOf, Cd
<1>4. o = [f |-> f, s |-> s0, err |-> IF s.mode = "read" THEN "exist" ELSE "open"]
  BY <1>2, <1>3 DEF OpenDisk, Cd
<1> HIDE DEF o
<1>5. o.err # "ok"
  BY <1>4
<1> QED
  BY <1>0, <1>4, <1>5 DEF s0

\* A writer that creates gets an empty file, except that the first part has its header.
LEMMA GotoCreate ==
  ASSUME NEW f, NEW s \in SplitType, s.mode = "create", s.diskSize > 0, NEW n \in Int,
         n = Cd \/ n > 0, n # s.current \/ s.base = Closed
  PROVE  GotoDisk(f, s, n) =
           [f |-> WithPart(f, n, <<>>), s |-> InPart(s, n, n, 0, 0, s.out), err |-> "ok"]
<1> DEFINE s0 == [s EXCEPT !.base = Closed]
           o == OpenDisk(f, s0, n)
<1>0. GotoDisk(f, s, n) = IF o.err = "ok" THEN [o EXCEPT !.s.number = n] ELSE o
  BY GotoOther
<1>1. /\ s0.mode = "create" /\ s0.diskSize = s.diskSize /\ s0.number = s.number /\ s0.out = s.out
      /\ s.out + 0 = s.out /\ n # 0
  BY ClosedFirst DEF SplitType, Cd
<1> HIDE DEF s0
<1>2. PathOf(s0, n) = n
  BY <1>1 DEF PathOf, Cd
<1>3. o = [f |-> WithPart(f, n, <<>>), s |-> InPart(s, n, s.number, 0, 0, s.out), err |-> "ok"]
  BY <1>1, <1>2 DEF OpenDisk, Start, InPart
<1> HIDE DEF o
<1> QED
  BY <1>0, <1>3, NumberSet

\* One that appends is behind what there is, and behind another header in the first part.
Opening(n, old) == IF n = 0 THEN Append(old, DiskHeader) ELSE old
Put(n) == IF n = 0 THEN 1 ELSE 0
LEMMA GotoAppend ==
  ASSUME NEW f, NEW s \in SplitType, s.mode = "append", s.diskSize > 0, NEW n \in Int,
         n = Cd \/ n >= 0, n \in DOMAIN f, n # s.current \/ s.base = Closed
  PROVE  LET new == Opening(n, f[n]) IN
         GotoDisk(f, s, n) =
           [f |-> WithPart(f, n, new), s |-> InPart(s, n, n, Len(new), Put(n), s.out + Put(n)), err |-> "ok"]
<1> DEFINE s0 == [s EXCEPT !.base = Closed]
           o == OpenDisk(f, s0, n)
           new == Opening(n, f[n])
<1>0. GotoDisk(f, s, n) = IF o.err = "ok" THEN [o EXCEPT !.s.number = n] ELSE o
  BY GotoOther
<1>1. s0.mode = "append" /\ s0.diskSize = s.diskSize /\ s0.number = s.number /\ s0.out = s.out
  BY ClosedFirst
<1> HIDE DEF s0
<1>2. PathOf(s0, n) = n
  BY <1>1 DEF PathOf, Cd
<1>3. o = [f |-> WithPart(f, n, new), s |-> InPart(s, n, s.number, Len(new), Put(n), s.out + Put(n)),
           err |-> "ok"]
  BY <1>1, <1>2 DEF OpenDisk, Start, InPart, Opening, Put
<1> HIDE DEF o
<1> QED
  BY <1>0, <1>3, NumberSet

-----------------------------------------------------------------------------
(* The places of the bytes of an entry *)

LEMMA EntryTypes ==
  ASSUME NEW e \in EntryType
  PROVE  /\ e.data \in Seq(Bytes) /\ e.cells \in Seq(Int \X Nat) /\ e.disk \in Nat /\ e.offset \in Nat
         /\ Len(e.data) \in Nat
         /\ \A j \in 1..Len(e.cells) : /\ e.cells[j] \in Int \X Nat
                                       /\ e.cells[j][1] \in Int /\ e.cells[j][2] \in Nat
<1>1. e.data \in Seq(Bytes) /\ e.cells \in Seq(Int \X Nat) /\ e.disk \in Nat /\ e.offset \in Nat
  BY DEF EntryType
<1>2. \A j \in 1..Len(e.cells) : e.cells[j] \in Int \X Nat
  BY <1>1, ElementOfSeq
<1>3. \A j \in 1..Len(e.cells) : e.cells[j][1] \in Int /\ e.cells[j][2] \in Nat
  BY <1>2
<1> QED
  BY <1>1, <1>2, <1>3, LenProperties

\* The bytes that follow in a part as long as it goes on are behind each other there; the file of an
\* archive that is not split goes on for the whole entry.
TakenFrom(f, e, b, p, j, m) ==
  \A i \in 1..m : e.cells[j + i] = <<b, p + i>> /\ p + i <= Len(f[b]) /\ f[b][p + i] = e.data[j + i]
LEMMA RunOn ==
  ASSUME NEW f, NEW d, NEW top, NEW e \in EntryType, Placed(f, d, top, e),
         NEW b \in DOMAIN f, b \in Int, Len(f[b]) \in Nat, NEW p \in Nat,
         NEW j \in Nat, NEW m \in Nat, j + m <= Len(e.data),
         m > 0 => Follows(f, <<b, p>>, e.cells[j + 1]),
         b < 0 \/ p + m <= Len(f[b])
  PROVE  TakenFrom(f, e, b, p, j, m)
<1> DEFINE T == {i \in 0..m : i = 0 \/ e.cells[j + i] = <<b, p + i>>}
<1>1. Len(e.data) \in Nat /\ Len(e.cells) = Len(e.data)
  BY EntryTypes DEF Placed
<1>2. 0 \in T
  OBVIOUS
<1>3. ASSUME NEW i \in 0..(m - 1), i \in T PROVE i + 1 \in T
  <2> DEFINE l == Len(e.data)
  <2>0. i \in Nat /\ i + 1 <= m /\ l \in Nat /\ j + m <= l
    BY <1>1
  <2> HIDE DEF l, T
  <2>1. i \in Nat /\ i + 1 \in 0..m /\ j + i + 1 \in 1..l /\ j + i \in 0..(l - 1)
    BY <2>0
  <2> USE DEF l, T
  <2>2. Follows(f, <<b, p + i>>, e.cells[j + i + 1])
    <3>1. CASE i = 0
      BY <3>1
    <3>2. CASE i # 0
      <4>1. e.cells[j + i] = <<b, p + i>> /\ j + i # 0
        BY <1>3, <2>1, <3>2
      <4>2. Follows(f, PlaceOf(d, e, j + i), e.cells[j + i + 1])
        BY <2>1, Zenon DEF Placed
      <4> QED
        BY <4>1, <4>2 DEF PlaceOf
    <3> QED
      BY <3>1, <3>2
  <2>3. b < 0 \/ p + i < Len(f[b])
    BY <2>1
  <2>4. e.cells[j + i + 1] = <<b, p + i + 1>>
    BY <2>1, <2>2, <2>3 DEF Follows
  <2>5. j + i + 1 = j + (i + 1) /\ p + i + 1 = p + (i + 1)
    BY <2>1
  <2> QED
    BY <2>1, <2>4, <2>5
<1>4. \A i \in 0..m : i \in T
  BY <1>2, <1>3, CountUp
<1>5. ASSUME NEW i \in 1..m
      PROVE  /\ e.cells[j + i] = <<b, p + i>>
             /\ p + i <= Len(f[b]) /\ f[b][p + i] = e.data[j + i]
  <2>1. i \in 0..m /\ i # 0 /\ j + i \in 1..Len(e.data)
    BY <1>1
  <2>2. e.cells[j + i] = <<b, p + i>>
    BY <1>4, <2>1
  <2>3. Keeps(f, d, top, e.cells[j + i], e.data[j + i])
    BY <2>1, Zenon DEF Placed
  <2> QED
    BY <2>2, <2>3 DEF Keeps
<1> QED
  BY <1>5 DEF TakenFrom

\* Where bytes j + 1 to j + m have been taken, the next one follows.
LEMMA NextFollows ==
  ASSUME NEW f, NEW d, NEW top, NEW e \in EntryType, Placed(f, d, top, e),
         NEW b, NEW p \in Nat, NEW j \in Nat, NEW m \in Nat,
         j < Len(e.data) => Follows(f, <<b, p>>, e.cells[j + 1]),
         m > 0 => e.cells[j + m] = <<b, p + m>>
  PROVE  j + m < Len(e.data) => Follows(f, <<b, p + m>>, e.cells[j + m + 1])
<1> SUFFICES ASSUME j + m < Len(e.data) PROVE Follows(f, <<b, p + m>>, e.cells[j + m + 1])
  OBVIOUS
<1>1. Len(e.data) \in Nat
  BY EntryTypes
<1>2. CASE m = 0
  BY <1>1, <1>2
<1>3. CASE m # 0
  <2>1. j + m \in 0..(Len(e.data) - 1) /\ j + m # 0
    BY <1>1, <1>3
  <2>2. Follows(f, PlaceOf(d, e, j + m), e.cells[j + m + 1])
    BY <2>1, Zenon DEF Placed
  <2> QED
    BY <1>3, <2>1, <2>2 DEF PlaceOf
<1> QED
  BY <1>2, <1>3

\* At the end of a part the next byte is the first of the next part.
LEMMA CrossesOver ==
  ASSUME NEW f, NEW d, NEW top, NEW e \in EntryType, Placed(f, d, top, e),
         NEW b \in DOMAIN f, b \in Int, Len(f[b]) \in Nat,
         NEW j \in Nat, j < Len(e.data), Follows(f, <<b, Len(f[b])>>, e.cells[j + 1])
  PROVE  b >= 0 /\ e.cells[j + 1] = <<b + 1, 1>> /\ b + 1 \in Parts(d, top)
<1>1. Len(e.data) \in Nat
  BY EntryTypes
<1>2. Keeps(f, d, top, e.cells[j + 1], e.data[j + 1])
  <2>1. j + 1 \in 1..Len(e.data)
    BY <1>1
  <2> QED
    BY <2>1, Zenon DEF Placed
<1>3. e.cells[j + 1] # <<b, Len(f[b]) + 1>>
  BY <1>2 DEF Keeps
<1>4. b >= 0 /\ e.cells[j + 1] = <<b + 1, 1>>
  BY <1>3 DEF Follows
<1> QED
  BY <1>2, <1>4 DEF Keeps

\* Files that keep what an entry has, and grow only where nothing lies behind, keep the entry.
LEMMA PlacedFrame ==
  ASSUME NEW f, NEW g, NEW d \in Nat, NEW top \in Int, NEW top2 \in Int, top <= top2,
         NEW e \in EntryType, Placed(f, d, top, e),
         \A n \in Parts(d, top) : n \in DOMAIN g =>
           /\ n \in DOMAIN f /\ Len(f[n]) \in Nat /\ Len(g[n]) \in Nat /\ Len(f[n]) <= Len(g[n])
           /\ n >= 0 /\ n < top => Len(g[n]) = Len(f[n]),
         \A j \in 1..Len(e.data) :
           e.cells[j][1] \in DOMAIN g => g[e.cells[j][1]][e.cells[j][2]] = f[e.cells[j][1]][e.cells[j][2]]
  PROVE  Placed(g, d, top2, e)
<1>1. /\ e.offset \in Nat /\ e.disk \in Nat /\ Len(e.data) \in Nat /\ Len(e.cells) = Len(e.data)
      /\ \A j \in 1..Len(e.data) : e.cells[j] \in Int \X Nat /\ e.cells[j][1] \in Int /\ e.cells[j][2] \in Nat
  BY EntryTypes DEF Placed
<1>2. Parts(d, top) \subseteq Parts(d, top2) /\ PartOf(d, e) \in Int
  BY <1>1 DEF Parts, PartOf, Cd
<1>3. BeginsIn(g, d, top2, e)
  <2>1. BeginsIn(f, d, top, e)
    BY DEF Placed
  <2> DEFINE n == PartOf(d, e)
  <2>2. n \in DOMAIN g => e.offset <= Len(g[n])
    <3> HIDE DEF n
    <3> SUFFICES ASSUME n \in DOMAIN g PROVE e.offset <= Len(g[n])
      OBVIOUS
    <3>1. n \in Parts(d, top)
      BY <2>1 DEF BeginsIn, n
    <3>2. n \in DOMAIN f /\ Len(f[n]) \in Nat /\ Len(g[n]) \in Nat /\ Len(f[n]) <= Len(g[n])
      BY <3>1
    <3>3. e.offset <= Len(f[n])
      BY <2>1, <3>2 DEF BeginsIn, n
    <3> QED
      BY <1>1, <3>2, <3>3
  <2> QED
    BY <1>2, <2>1, <2>2 DEF BeginsIn
<1>4. ASSUME NEW j \in 1..Len(e.data) PROVE Keeps(g, d, top2, e.cells[j], e.data[j])
  <2>1. Keeps(f, d, top, e.cells[j], e.data[j])
    BY DEF Placed
  <2> DEFINE n == e.cells[j][1]
             q == e.cells[j][2]
  <2>2. n \in Parts(d, top) /\ q \in Nat
    BY <1>1, <2>1 DEF Keeps
  <2>3. n \in DOMAIN g => q <= Len(g[n]) /\ g[n][q] = e.data[j]
    <3> SUFFICES ASSUME n \in DOMAIN g PROVE q <= Len(g[n]) /\ g[n][q] = e.data[j]
      OBVIOUS
    <3>1. n \in DOMAIN f /\ Len(f[n]) \in Nat /\ Len(g[n]) \in Nat /\ Len(f[n]) <= Len(g[n])
      BY <2>2
    <3>2. q <= Len(f[n]) /\ f[n][q] = e.data[j]
      BY <2>1, <3>1 DEF Keeps
    <3>3. g[n][q] = f[n][q]
      OBVIOUS
    <3> HIDE DEF n, q
    <3> QED
      BY <2>2, <3>1, <3>2, <3>3
  <2> QED
    BY <1>2, <2>1, <2>3 DEF Keeps
<1>5. ASSUME NEW j \in 0..(Len(e.data) - 1) PROVE Follows(g, PlaceOf(d, e, j), e.cells[j + 1])
  <2> DEFINE c == PlaceOf(d, e, j)
             x == e.cells[j + 1]
  <2>1. Follows(f, c, x) /\ j + 1 \in 1..Len(e.data)
    BY <1>1 DEF Placed
  <2>2. x[1] \in Parts(d, top) /\ x \in Int \X Nat
    BY <1>1, <2>1 DEF Placed, Keeps
  <2>3. c[1] \in Int /\ c[2] \in Nat /\ (d = 0 => c[1] = Cd)
    <3>1. CASE j = 0
      BY <1>1, <1>2, <3>1 DEF PlaceOf, StartOf, PartOf
    <3>2. CASE j # 0
      <4>1. j \in 1..Len(e.data) /\ c = e.cells[j]
        BY <1>1, <3>2 DEF PlaceOf
      <4>2. c[1] \in Parts(d, top)
        BY <4>1 DEF Placed, Keeps
      <4> QED
        BY <1>1, <4>1, <4>2 DEF Parts
    <3> QED
      BY <3>1, <3>2
  <2> HIDE DEF c, x
  <2>4. CASE x = <<c[1], c[2] + 1>>
    BY <2>4 DEF Follows, c, x
  <2>5. CASE c[1] >= 0 /\ x = <<c[1] + 1, 1>> /\ (c[1] \in DOMAIN f => c[2] = Len(f[c[1]]))
    <3>1. d # 0
      BY <2>3, <2>5 DEF Cd
    <3>2. c[1] + 1 \in 0..top /\ c[1] \in Parts(d, top) /\ c[1] < top
      BY <2>2, <2>3, <2>5, <3>1 DEF Parts
    <3>3. c[1] \in DOMAIN g => c[2] = Len(g[c[1]])
      BY <2>3, <2>5, <3>2
    <3> QED
      BY <2>5, <3>3 DEF Follows, c, x
  <2> QED
    BY <2>1, <2>4, <2>5 DEF Follows
<1> QED
  BY <1>1, <1>3, <1>4, <1>5, Zenon DEF Placed

\* Entry h is e with x behind its data, which is from p on in part b.
IsGrown(h, e, x, b, p) ==
  /\ h \in EntryType /\ h.disk = e.disk /\ h.offset = e.offset
  /\ h.data = e.data \o x /\ Len(h.data) = Len(e.data) + Len(x)
  /\ \A j \in 1..Len(e.data) : h.cells[j] = e.cells[j]
  /\ \A i \in 1..Len(x) : h.cells[Len(e.data) + i] = <<b, p + i>>
\* The bytes x are in part b of g, from p on.
Holds(g, b, p, x) ==
  p + Len(x) <= Len(g[b]) /\ Len(g[b]) \in Nat /\ \A i \in 1..Len(x) : g[b][p + i] = x[i]

LEMMA EntryGrows ==
  ASSUME NEW e \in EntryType, Len(e.cells) = Len(e.data), NEW b \in Int, NEW p \in Nat, NEW x \in Seq(Bytes),
         NEW s, s.base = b, s.pos = p, NEW h, h = Grown(e, x, s)
  PROVE  IsGrown(h, e, x, b, p) /\ Len(h.cells) = Len(h.data)
<1> DEFINE n == Len(e.data)
           m == Len(x)
           y == [i \in 1..m |-> <<b, p + i>>]
<1>1. /\ e.data \in Seq(Bytes) /\ e.cells \in Seq(Int \X Nat) /\ e.disk \in Nat /\ e.offset \in Nat
      /\ n \in Nat /\ m \in Nat /\ Len(e.cells) = n /\ n = Len(e.data) /\ m = Len(x)
  BY EntryTypes, LenProperties
<1>0. n \in Nat /\ m \in Nat
  BY <1>1
<1>2. y \in Seq(Int \X Nat) /\ Len(y) = m
  <2>1. y \in [1..m -> Int \X Nat]
    BY <1>1
  <2>2. y \in Seq(Int \X Nat)
    BY <1>1, <2>1, SeqDef
  <2> QED
    BY <1>1, <2>1, <2>2, LenProperties
<1>3. \A i \in 1..m : y[i] = <<b, p + i>>
  OBVIOUS
<1>4. h = [e EXCEPT !.data = e.data \o x, !.cells = e.cells \o y]
  BY DEF Grown
<1> DEFINE S == Int \X Nat
<1> HIDE DEF y, S
<1>5. /\ e.data \o x \in Seq(Bytes) /\ Len(e.data \o x) = n + m
      /\ \A i \in 1..(n + m) : (e.data \o x)[i] = IF i <= n THEN e.data[i] ELSE x[i - n]
  BY <1>1, ConcatProperties
<1>6. /\ e.cells \o y \in Seq(S) /\ Len(e.cells \o y) = n + m
      /\ \A i \in 1..(n + m) : (e.cells \o y)[i] = IF i <= n THEN e.cells[i] ELSE y[i - n]
  <2>1. e.cells \in Seq(S) /\ y \in Seq(S)
    BY <1>1, <1>2 DEF S
  <2> HIDE DEF n, m
  <2>2. /\ e.cells \o y \in Seq(S) /\ Len(e.cells \o y) = Len(e.cells) + Len(y)
        /\ \A i \in 1..(Len(e.cells) + Len(y)) :
             (e.cells \o y)[i] = IF i <= Len(e.cells) THEN e.cells[i] ELSE y[i - Len(e.cells)]
    <3> DEFINE c == e.cells
    <3> HIDE DEF c
    <3>1. c \in Seq(S) /\ y \in Seq(S)
      BY <2>1 DEF c
    <3>2. /\ c \o y \in Seq(S) /\ Len(c \o y) = Len(c) + Len(y)
          /\ \A i \in 1..(Len(c) + Len(y)) : (c \o y)[i] = IF i <= Len(c) THEN c[i] ELSE y[i - Len(c)]
      BY <3>1, ConcatProperties
    <3> QED
      BY <3>2 DEF c
  <2>3. Len(e.cells) = n /\ Len(y) = m
    BY <1>1, <1>2
  <2> QED
    BY <2>2, <2>3
<1> HIDE DEF n, m
<1>7. /\ h \in EntryType /\ h.disk = e.disk /\ h.offset = e.offset
      /\ h.data = e.data \o x /\ h.cells = e.cells \o y
  BY <1>1, <1>4, <1>5, <1>6 DEF EntryType, S
<1>8. Len(h.data) = n + m /\ Len(h.cells) = n + m
  BY <1>5, <1>6, <1>7
<1>9. ASSUME NEW j \in 1..n PROVE h.cells[j] = e.cells[j]
  <2>1. j \in 1..(n + m) /\ j <= n
    BY <1>0, <1>9
  <2> QED
    BY <1>5, <1>6, <1>7, <2>1
<1>10. ASSUME NEW i \in 1..m PROVE h.cells[n + i] = <<b, p + i>>
  <2>1. n + i \in 1..(n + m) /\ ~(n + i <= n) /\ (n + i) - n = i
    BY <1>0, <1>10
  <2> QED
    BY <1>3, <1>5, <1>6, <1>7, <2>1
<1> QED
  BY <1>1, <1>7, <1>8, <1>9, <1>10 DEF n, m, IsGrown

LEMMA GrownPlaced ==
  ASSUME NEW g, NEW d \in Nat, NEW top \in Int, NEW e \in EntryType, Placed(g, d, top, e),
         NEW b \in DOMAIN g, b \in Int, b \in Parts(d, top), NEW p \in Nat, NEW x \in Seq(Bytes),
         NEW s, s.base = b, s.pos = p, NEW h, h = Grown(e, x, s), Holds(g, b, p, x),
         x # <<>> => Follows(g, PlaceOf(d, e, Len(e.data)), <<b, p + 1>>)
  PROVE  Placed(g, d, top, h) /\ IsGrown(h, e, x, b, p)
<1> DEFINE n == Len(e.data)
           m == Len(x)
           l == Len(g[b])
<1>1. /\ e.data \in Seq(Bytes) /\ n \in Nat /\ m \in Nat /\ Len(e.cells) = n
      /\ n = Len(e.data) /\ m = Len(x)
  BY EntryTypes, LenProperties DEF Placed
<1>2. p + m <= l /\ l \in Nat /\ \A i \in 1..m : g[b][p + i] = x[i]
  BY DEF Holds
<1>3. IsGrown(h, e, x, b, p) /\ Len(h.cells) = Len(h.data)
  BY <1>1, EntryGrows
<1>4. /\ Len(e.data \o x) = n + m
      /\ \A i \in 1..(n + m) : (e.data \o x)[i] = IF i <= n THEN e.data[i] ELSE x[i - n]
  BY <1>1, ConcatProperties
<1> HIDE DEF n, m, l
<1>5. n \in Nat /\ m \in Nat
  BY <1>1
<1>6. h.disk = e.disk /\ h.offset = e.offset /\ h.data = e.data \o x
  BY <1>3 DEF IsGrown
<1>7. Len(h.data) = n + m /\ Len(h.cells) = n + m
  BY <1>3, <1>4, <1>6
<1>8. ASSUME NEW j \in 1..n PROVE h.cells[j] = e.cells[j] /\ h.data[j] = e.data[j]
  <2>1. j \in 1..(n + m) /\ j <= n
    BY <1>5, <1>8
  <2>2. h.cells[j] = e.cells[j]
    BY <1>3 DEF IsGrown, n
  <2> QED
    BY <1>4, <1>6, <2>1, <2>2
<1>9. ASSUME NEW i \in 1..m PROVE h.cells[n + i] = <<b, p + i>> /\ h.data[n + i] = x[i]
  <2>1. n + i \in 1..(n + m) /\ ~(n + i <= n) /\ (n + i) - n = i
    BY <1>5, <1>9
  <2>2. h.cells[n + i] = <<b, p + i>>
    BY <1>3 DEF IsGrown, n, m
  <2> QED
    BY <1>4, <1>6, <2>1, <2>2
<1>10. ASSUME NEW j \in 1..(n + m) PROVE Keeps(g, d, top, h.cells[j], h.data[j])
  <2>1. CASE j <= n
    <3>1. j \in 1..n
      BY <1>5, <1>10, <2>1
    <3>2. Keeps(g, d, top, e.cells[j], e.data[j])
      BY <1>1, <3>1 DEF Placed
    <3> QED
      BY <1>8, <3>1, <3>2
  <2>2. CASE j > n
    <3> DEFINE i == j - n
    <3>1. i \in 1..m /\ n + i = j
      BY <1>5, <1>10, <2>2
    <3>2. h.cells[j] = <<b, p + i>> /\ h.data[j] = x[i]
      BY <1>9, <3>1
    <3>3. g[b][p + i] = x[i] /\ p + i >= 1 /\ p + i <= l
      BY <1>2, <1>5, <3>1
    <3> HIDE DEF i
    <3> QED
      BY <3>2, <3>3 DEF Keeps, l
  <2> QED
    BY <1>5, <1>10, <2>1, <2>2
<1>11. \A j \in 0..n : PlaceOf(d, h, j) = PlaceOf(d, e, j)
  BY <1>1, <1>6, <1>8 DEF PlaceOf, StartOf, PartOf
<1>12. ASSUME NEW j \in 0..(n + m - 1) PROVE Follows(g, PlaceOf(d, h, j), h.cells[j + 1])
  <2>1. CASE j < n
    <3>1. j \in 0..(n - 1) /\ j + 1 \in 1..n /\ j \in 0..n
      BY <1>5, <1>12, <2>1
    <3>2. Follows(g, PlaceOf(d, e, j), e.cells[j + 1])
      BY <1>1, <3>1 DEF Placed
    <3> QED
      BY <1>8, <1>11, <3>1, <3>2
  <2>2. CASE j = n
    <3>1. 1 \in 1..m /\ n \in 0..n /\ x # <<>>
      <4>1. m >= 1
        BY <1>5, <1>12, <2>2
      <4> QED
        BY <1>5, <1>1, <4>1
    <3>2. h.cells[n + 1] = <<b, p + 1>>
      BY <1>9, <3>1
    <3>3. Follows(g, PlaceOf(d, e, n), <<b, p + 1>>)
      BY <1>1, <3>1
    <3> QED
      BY <1>11, <2>2, <3>1, <3>2, <3>3
  <2>3. CASE j > n
    <3> DEFINE i == j - n
    <3>1. i \in 1..m /\ i + 1 \in 1..m /\ n + i = j /\ n + (i + 1) = j + 1 /\ j # 0
      BY <1>5, <1>12, <2>3
    <3>2. h.cells[j] = <<b, p + i>> /\ h.cells[j + 1] = <<b, p + (i + 1)>>
      BY <1>9, <3>1
    <3>3. p + (i + 1) = p + i + 1
      BY <1>5, <3>1
    <3> HIDE DEF i
    <3> QED
      BY <3>1, <3>2, <3>3 DEF Follows, PlaceOf
  <2> QED
    BY <1>5, <1>12, <2>1, <2>2, <2>3
<1>13. BeginsIn(g, d, top, h)
  BY <1>6 DEF Placed, BeginsIn, PartOf
<1>14. Placed(g, d, top, h)
  <2>1. Len(h.cells) = Len(h.data)
    BY <1>7
  <2>2. \A j \in 1..Len(h.data) : Keeps(g, d, top, h.cells[j], h.data[j])
    BY <1>7, <1>10, Zenon
  <2>3. \A j \in 0..(Len(h.data) - 1) : Follows(g, PlaceOf(d, h, j), h.cells[j + 1])
    <3>1. 0..(Len(h.data) - 1) = 0..(n + m - 1)
      BY <1>5, <1>7
    <3> QED
      BY <1>12, <3>1, Zenon
  <2> QED
    BY <1>13, <2>1, <2>2, <2>3, Zenon DEF Placed
<1> QED
  BY <1>3, <1>14

-----------------------------------------------------------------------------
(* Reading *)

LEMMA FileTypes ==
  ASSUME TypeInv
  PROVE  /\ files = [n \in DOMAIN files |-> files[n]] /\ DOMAIN files \subseteq Int
         /\ \A n \in DOMAIN files : files[n] \in Seq(Stored) /\ Len(files[n]) \in Nat
<1>1. /\ files = [n \in DOMAIN files |-> files[n]] /\ DOMAIN files \subseteq Int
      /\ \A n \in DOMAIN files : files[n] \in Seq(Stored)
  BY DEF TypeInv, Held
<1> QED
  BY <1>1, LenProperties

\* Whoever reads changes nothing of the archive.
Quiet ==
  /\ UNCHANGED <<files, entries, withCd, cdAt, diskSize, lost, writers, todo>>
  /\ ~Writing /\ phase' \in {"closed", "reading"} /\ phase # "directory"
LEMMA QuietKeeps ==
  ASSUME SplitInv, Quiet
  PROVE  /\ FilesInv' /\ EntriesInv' /\ WriterInv' /\ DirectoryInv' /\ EntryInv' /\ FilledInv'
         /\ todo' \in Seq(Stored) /\ (TypeInv' <=> /\ call' \in {"none", "read", "write", "skip"}
                                                   /\ err' \in {"ok", "exist", "open"} /\ left' \in Nat
                                                   /\ got' \in Seq(Stored) /\ cursor' \in Nat \X Nat
                                                   /\ origin' \in Nat)
<1>1. ~Writing /\ ~Writing' /\ Top' = Top /\ Mark' = Mark
  BY DEF Quiet, Writing, Top, Mark
<1>2. FilesInv'
  BY <1>1 DEF SplitInv, Quiet, FilesInv, PartsInv
<1>3. EntriesInv'
  BY <1>1, Zenon DEF SplitInv, Quiet, EntriesInv
<1>4. WriterInv' /\ DirectoryInv' /\ EntryInv'
  BY <1>1 DEF Quiet, WriterInv, DirectoryInv, EntryInv
<1>5. FilledInv'
  BY <1>1 DEF SplitInv, Quiet, FilledInv
<1>6. todo' \in Seq(Stored)
  BY DEF SplitInv, TypeInv, Quiet
<1>7. TypeInv' <=> /\ call' \in {"none", "read", "write", "skip"}
                   /\ err' \in {"ok", "exist", "open"} /\ left' \in Nat
                   /\ got' \in Seq(Stored) /\ cursor' \in Nat \X Nat
                   /\ origin' \in Nat
  BY <1>6 DEF SplitInv, TypeInv, Quiet
<1> QED
  BY <1>2, <1>3, <1>4, <1>5, <1>6, <1>7

\* What a reader has to go by: the entry under its cursor, the part it stands in and that its
\* parts are all there or some are lost.
LEMMA ReadingFacts ==
  ASSUME SplitInv, phase = "reading"
  PROVE  /\ split \in SplitType /\ split.mode = "read" /\ split.diskSize = 0
         /\ ~Writing /\ writers > 0 /\ PartsInv /\ Top = withCd - 1
         /\ files = [n \in DOMAIN files |-> files[n]] /\ DOMAIN files \subseteq Int
         /\ \A n \in DOMAIN files : files[n] \in Seq(Stored) /\ Len(files[n]) \in Nat
         /\ withCd \in Nat /\ diskSize \in Nat /\ Top \in Int /\ entries \in Seq(EntryType)
         /\ \A i \in 1..Len(entries) : /\ entries[i] \in EntryType
                                       /\ Placed(files, diskSize, Top, entries[i])
                                       /\ diskSize = 0 => UpTo(cdAt, entries[i])
<1>1. ~Writing /\ Top = withCd - 1 /\ Mark = cdAt
  BY DEF Writing, Top, Mark
<1>2. split \in SplitType /\ writers > 0 /\ PartsInv
  BY DEF SplitInv, PhaseInv, FilesInv
<1>3. split.mode = "read" /\ split.diskSize = 0
  BY DEF SplitInv, ReaderInv
<1>4. withCd \in Nat /\ diskSize \in Nat /\ entries \in Seq(EntryType)
  BY DEF SplitInv, TypeInv
<1>5. \A i \in 1..Len(entries) : entries[i] \in EntryType
  BY <1>4, ElementOfSeq
<1>6. \A i \in 1..Len(entries) : /\ Placed(files, diskSize, Top, entries[i])
                                 /\ diskSize = 0 => UpTo(cdAt, entries[i])
  BY <1>1 DEF SplitInv, EntriesInv
<1>7. TypeInv
  BY DEF SplitInv
<1> QED
  BY <1>1, <1>2, <1>3, <1>4, <1>5, <1>6, <1>7, FileTypes

LEMMA CursorFacts ==
  ASSUME SplitInv, phase = "reading", cursor[1] # 0
  PROVE  LET e == entries[cursor[1]] IN
         /\ e \in EntryType /\ Placed(files, diskSize, Top, e) /\ Len(e.data) \in Nat
         /\ cursor[1] \in 1..Len(entries) /\ cursor = <<cursor[1], cursor[2]>>
         /\ cursor[1] \in Nat /\ cursor[2] \in Nat /\ origin \in Nat
         /\ cursor[2] <= Len(e.data) /\ origin + Len(got) = cursor[2]
         /\ \A i \in 1..Len(got) : got[i] = e.data[origin + i]
         /\ got \in Seq(Stored) /\ Len(got) \in Nat
<1>1. cursor[1] \in Nat /\ cursor[2] \in Nat /\ origin \in Nat /\ cursor = <<cursor[1], cursor[2]>>
      /\ got \in Seq(Stored) /\ entries \in Seq(EntryType)
  BY DEF SplitInv, TypeInv
<1>2. CursorInv
  BY DEF SplitInv, ReaderInv
<1>3. cursor[1] \in 1..Len(entries)
  <2>1. Len(entries) \in Nat /\ cursor[1] <= Len(entries)
    BY <1>1, <1>2, LenProperties DEF CursorInv
  <2> QED
    BY <1>1, <2>1
<1>4. entries[cursor[1]] \in EntryType /\ Placed(files, diskSize, Top, entries[cursor[1]])
  BY <1>3, ReadingFacts
<1>5. Len(entries[cursor[1]].data) \in Nat
  BY <1>4, EntryTypes
<1>6. /\ cursor[2] <= Len(entries[cursor[1]].data) /\ origin + Len(got) = cursor[2]
      /\ \A i \in 1..Len(got) : got[i] = entries[cursor[1]].data[origin + i]
  BY <1>2 DEF CursorInv
<1> QED
  BY <1>1, <1>3, <1>4, <1>5, <1>6, LenProperties

\* A part with a number of an entry is there, or lost, and turning to it stands in it.
LEMMA TurnsToPart ==
  ASSUME SplitInv, phase = "reading", NEW s \in SplitType, s.mode = "read", NEW n \in Int,
         n \in Parts(diskSize, Top) \/ n = Cd, n # s.current \/ s.base = Closed
  PROVE  \/ /\ n \in DOMAIN files
            /\ \E p \in 0..Len(files[n]) : (n # 0 => p = 0) /\
                 GotoDisk(files, s, n) = [f |-> files, s |-> InPart(s, n, n, p, 0, s.out), err |-> "ok"]
         \/ /\ n \notin DOMAIN files /\ n >= 0 /\ lost
            /\ GotoDisk(files, s, n) = [f |-> files, s |-> [s EXCEPT !.base = Closed], err |-> "exist"]
<1>1. PartsInv /\ ~Writing
  BY ReadingFacts
<1>2. n = Cd \/ n >= 0
  BY DEF Parts, Cd
<1>3. CASE n \in DOMAIN files
  <2>1. files[n] \in Seq(Stored) /\ files = [x \in DOMAIN files |-> files[x]]
    BY <1>3, ReadingFacts
  <2>2. n = 0 => files[n] # <<>> /\ files[n][1] = DiskHeader
    BY <1>1, <1>3 DEF PartsInv
  <2> QED
    BY <1>2, <1>3, <2>1, <2>2, GotoRead
<1>4. CASE n \notin DOMAIN files
  <2>1. n # Cd
    BY <1>1, <1>4 DEF PartsInv
  <2>2. lost
    BY <1>1, <1>4, <2>1 DEF PartsInv
  <2>3. n >= 0
    BY <1>2, <2>1
  <2> QED
    BY <1>4, <2>2, <2>3, GotoMissing
<1> QED
  BY <1>3, <1>4

-----------------------------------------------------------------------------
(* A reader in its part *)

LEMMA PartIs ==
  ASSUME NEW s \in SplitType, NEW n \in Int, NEW p \in Nat, NEW t, t = InPart(s, n, n, p, 0, s.out)
  PROVE  t \in SplitType
BY DEF SplitType, InPart

LEMMA ReaderKeeps ==
  ASSUME SplitInv, Quiet, writers > 0, phase' = "reading", split' \in SplitType,
         call' \in {"none", "read", "skip"}, err' \in {"ok", "exist", "open"},
         left' \in Nat, got' \in Seq(Stored), cursor' \in Nat \X Nat, origin' \in Nat, ReaderInv'
  PROVE  SplitInv'
<1>1. TypeInv'
  BY QuietKeeps
<1>2. PhaseInv'
  BY DEF PhaseInv, Quiet
<1> QED
  BY <1>1, <1>2, QuietKeeps DEF SplitInv

\* Where a reader may stand: in part n, or, when some part is lost, nowhere.
Stands(s, e) ==
  /\ s \in SplitType /\ s.mode = "read" /\ s.diskSize = 0
  /\ e = "ok" => s.current = s.base /\ s.number = s.base /\ s.base \in DOMAIN files /\ s.pos <= Len(files[s.base])
  /\ e # "ok" => s.base = Closed /\ lost

LEMMA StandsInPart ==
  ASSUME SplitInv, phase = "reading"
  PROVE  /\ Stands(split, err)
         /\ \A n \in DOMAIN files : n # Closed
         /\ err = "ok" => /\ split.base \in DOMAIN files /\ split.base # Closed /\ split.base \in Int
                          /\ split.pos \in Nat /\ Len(files[split.base]) \in Nat
<1>1. Stands(split, err)
  BY ReadingFacts DEF SplitInv, ReaderInv, Stands
<1>2. PartsInv /\ Top \in Int
  BY ReadingFacts
<1>3. \A n \in DOMAIN files : n # Closed
  BY <1>2 DEF PartsInv, Parts, Cd, Closed
<1> QED
  BY <1>1, <1>3, ReadingFacts DEF Stands, SplitType

\* Turning to a part of an entry, or to the file with the directory, ends in it, or fails because it is lost.
LEMMA TurnsAndStands ==
  ASSUME SplitInv, phase = "reading", NEW s \in SplitType, s.mode = "read", s.diskSize = 0, NEW n \in Int,
         n \in Parts(diskSize, Top) \/ n = Cd, n # s.current \/ s.base = Closed
  PROVE  LET r == GotoDisk(files, s, n) IN
         /\ r.f = files /\ Stands(r.s, r.err) /\ r.err \in {"ok", "exist"}
         /\ r.err = "ok" => r.s.base = n /\ (n # 0 => r.s.pos = 0)
<1> DEFINE r == GotoDisk(files, s, n)
<1>1. CASE /\ n \in DOMAIN files
           /\ \E p \in 0..Len(files[n]) : (n # 0 => p = 0) /\
                r = [f |-> files, s |-> InPart(s, n, n, p, 0, s.out), err |-> "ok"]
  <2>1. PICK p \in 0..Len(files[n]) : (n # 0 => p = 0) /\
                r = [f |-> files, s |-> InPart(s, n, n, p, 0, s.out), err |-> "ok"]
    BY <1>1
  <2> HIDE DEF r
  <2> DEFINE t == InPart(s, n, n, p, 0, s.out)
  <2>0. t = InPart(s, n, n, p, 0, s.out)
    OBVIOUS
  <2> HIDE DEF t
  <2>2. Len(files[n]) \in Nat /\ p \in Nat /\ p <= Len(files[n])
    BY <1>1, <2>1, ReadingFacts
  <2>21. s \in SplitType /\ n \in Int /\ p \in Nat
    BY <2>2
  <2>3. t \in SplitType
    BY <2>0, <2>21, PartIs
  <2>31. t.mode = s.mode /\ t.diskSize = s.diskSize
    BY <2>0 DEF InPart
  <2>32. t.base = n /\ t.current = n /\ t.number = n
    BY <2>0 DEF InPart
  <2>33. t.pos = p
    BY <2>0 DEF InPart
  <2>4. r.f = files /\ r.s = t /\ r.err = "ok"
    BY <2>1 DEF t
  <2> QED
    BY <1>1, <2>1, <2>2, <2>3, <2>31, <2>32, <2>33, <2>4 DEF Stands, r
<1>2. CASE /\ n \notin DOMAIN files /\ n >= 0 /\ lost
           /\ r = [f |-> files, s |-> [s EXCEPT !.base = Closed], err |-> "exist"]
  <2> DEFINE t == [s EXCEPT !.base = Closed]
  <2>1. t \in SplitType /\ t.mode = s.mode /\ t.diskSize = s.diskSize /\ t.base = Closed
    BY ClosedFirst
  <2>2. r.f = files /\ r.s = t /\ r.err = "exist"
    BY <1>2
  <2> HIDE DEF t, r
  <2> QED
    BY <1>2, <2>1, <2>2 DEF Stands, r
<1> QED
  BY <1>1, <1>2, TurnsToPart

LEMMA OpenReadKeeps ==
  ASSUME SplitInv, OpenRead
  PROVE  SplitInv'
<1> DEFINE s == [mode |-> "read", diskSize |-> 0, number |-> 0, out |-> 0, outDisk |-> 0,
                 current |-> 0, base |-> Closed, pos |-> 0]
           r == GotoDisk(files, s, Cd)
<1>1. phase = "closed" /\ writers > 0 /\ ~Writing /\ TypeInv
  BY DEF OpenRead, Writing, SplitInv
<1>2. s \in SplitType /\ s.mode = "read" /\ s.base = Closed /\ s.diskSize = 0 /\ s.out = 0
  BY DEF SplitType, Closed
<1>3. Cd \in DOMAIN files /\ files[Cd] \in Seq(Stored) /\ files = [x \in DOMAIN files |-> files[x]]
  BY <1>1, FileTypes DEF SplitInv, FilesInv, PartsInv
<1>4. Opened(files, "read", 0) = r
  BY DEF Opened, Cd
<1> HIDE DEF s
<1>5. PICK p \in 0..Len(files[Cd]) : (Cd # 0 => p = 0) /\
         r = [f |-> files, s |-> InPart(s, Cd, Cd, p, 0, s.out), err |-> "ok"]
  BY <1>2, <1>3, GotoRead DEF Cd
<1> DEFINE t == InPart(s, Cd, Cd, p, 0, s.out)
<1>0. t = InPart(s, Cd, Cd, p, 0, s.out)
  OBVIOUS
<1> HIDE DEF t
<1>6. p \in Nat /\ p = 0 /\ Cd \in Int /\ 0 \in Nat /\ s.out \in Nat
  BY <1>2, <1>5 DEF Cd
<1>61. s \in SplitType /\ Cd \in Int /\ p \in Nat
    BY <1>2, <1>6
<1>71. t \in SplitType
  BY <1>0, <1>61, PartIs
<1>72. t.mode = s.mode /\ t.diskSize = s.diskSize
  BY <1>0 DEF InPart
<1>73. t.base = Cd /\ t.current = Cd /\ t.number = Cd
  BY <1>0 DEF InPart
<1>74. t.pos = p
  BY <1>0 DEF InPart
<1>7. /\ t \in SplitType /\ t.mode = s.mode /\ t.diskSize = s.diskSize
      /\ t.base = Cd /\ t.current = Cd /\ t.number = Cd /\ t.pos = p
  BY <1>71, <1>72, <1>73, <1>74, Zenon
<1> HIDE DEF r
<1>8. files' = files /\ split' = t /\ err' = "ok" /\ phase' = "reading" /\ cursor' = <<0, 0>>
      /\ UNCHANGED <<call, left, todo, got, archive, origin>>
  BY <1>4, <1>5 DEF OpenRead, Result, t
<1>9. Quiet
  BY <1>1, <1>8 DEF Quiet, archive
<1>10. call = "none"
  BY <1>1 DEF SplitInv, TypeInv, PhaseInv
<1>11. p <= Len(files[Cd])
  BY <1>3, <1>6, LenProperties
<1>12. ReaderInv'
  BY <1>2, <1>3, <1>7, <1>8, <1>10, <1>11 DEF ReaderInv, CursorInv
<1> QED
  BY <1>1, <1>7, <1>8, <1>9, <1>10, <1>12, ReaderKeeps DEF TypeInv

LEMMA CloseReaderKeeps ==
  ASSUME SplitInv, CloseReader
  PROVE  SplitInv'
<1>1. phase = "reading" /\ call = "none" /\ phase' = "closed" /\ err' = "ok" /\ got' = <<>> /\ cursor' = <<0, 0>>
      /\ UNCHANGED <<files, call, left, todo, archive, origin>>
  BY DEF CloseReader
<1>2. Quiet
  BY <1>1 DEF Quiet, Writing, archive
<1>3. writers > 0
  BY <1>1 DEF SplitInv, PhaseInv
<1>4. TypeInv'
  BY <1>1, <1>2, QuietKeeps DEF SplitInv, TypeInv
<1>5. PhaseInv' /\ ReaderInv'
  <2>1. writers' > 0 /\ writers' \in Nat /\ call' = "none"
    BY <1>1, <1>3 DEF archive, SplitInv, TypeInv
  <2> QED
    BY <1>1, <2>1 DEF PhaseInv, ReaderInv
<1> QED
  BY <1>2, <1>4, <1>5, QuietKeeps DEF SplitInv

-----------------------------------------------------------------------------
(* Seeking, and the calls of a reader *)

LEMMA SeekEntryKeeps ==
  ASSUME SplitInv, NEW i \in DOMAIN entries, SeekEntry(i)
  PROVE  SplitInv'
<1> DEFINE e == entries[i]
           n == DiskOf(e)
           s == [split EXCEPT !.number = n]
           r == GotoDisk(files, s, n)
           v == SeekSet(r, e.offset)
<1>1. phase = "reading" /\ call = "none"
  BY DEF SeekEntry
<1>2. i \in 1..Len(entries) /\ i \in Nat /\ i # 0 /\ e \in EntryType /\ Placed(files, diskSize, Top, e)
  <2>1. i \in 1..Len(entries)
    BY <1>1, ReadingFacts, LenProperties
  <2> QED
    BY <1>1, <2>1, ReadingFacts, LenProperties
<1>3. e.offset \in Nat /\ e.disk \in Nat /\ Len(e.data) \in Nat
  BY <1>2, EntryTypes
<1>4. n = PartOf(diskSize, e) /\ n \in Int /\ (n \in Parts(diskSize, Top) \/ n = Cd)
  <2>1. BeginsIn(files, diskSize, Top, e) /\ PartsInv /\ Top = withCd - 1 /\ withCd \in Nat
    BY <1>1, <1>2, ReadingFacts DEF Placed
  <2>2. CASE diskSize = 0
    BY <2>1, <2>2 DEF BeginsIn, PartsInv, DiskOf, PartOf, Cd
  <2>3. CASE diskSize # 0
    <3>1. e.disk \in 0..Top /\ PartOf(diskSize, e) = e.disk
      BY <2>1, <2>3 DEF BeginsIn, Parts, PartOf
    <3>2. e.disk # withCd
      BY <2>1, <3>1
    <3> QED
      BY <1>3, <2>3, <3>1, <3>2 DEF DiskOf, Parts
  <2> QED
    BY <2>2, <2>3
<1>5. s \in SplitType /\ s.mode = "read" /\ s.diskSize = 0
      /\ s.base = split.base /\ s.current = split.current /\ s.pos = split.pos /\ s.number = n
  <2>1. split \in SplitType /\ split.mode = "read" /\ split.diskSize = 0
    BY <1>1, ReadingFacts
  <2> HIDE DEF n
  <2>2. s \in SplitType
    BY <1>4, <2>1 DEF SplitType
  <2> QED
    BY <2>1, <2>2 DEF SplitType
<1> HIDE DEF n, s
<1>6. /\ r.f = files /\ Stands(r.s, r.err) /\ r.err \in {"ok", "exist"}
      /\ r.err = "ok" => r.s.base = n
  <2>1. CASE n # s.current \/ s.base = Closed
    BY <1>1, <1>4, <1>5, <2>1, TurnsAndStands
  <2>2. CASE ~(n # s.current \/ s.base = Closed)
    <3>1. r = [f |-> files, s |-> s, err |-> "ok"]
      BY <1>5, <2>2, GotoSame
    <3>2. r.f = files /\ r.s = s /\ r.err = "ok"
      BY <3>1
    <3>3. err = "ok"
      BY <1>1, <1>5, <2>2, StandsInPart DEF Stands
    <3>4. split.current = split.base /\ split.base \in DOMAIN files /\ split.pos <= Len(files[split.base])
      BY <1>1, <3>3, StandsInPart DEF Stands
    <3> HIDE DEF r
    <3>5. Stands(r.s, r.err)
      BY <1>5, <2>2, <3>2, <3>4 DEF Stands
    <3> QED
      BY <1>5, <2>2, <3>2, <3>4, <3>5
  <2> QED
    BY <2>1, <2>2
<1>7. Located(files, split, DiskOf(e)) = r
  BY DEF Located, n, s
<1>8. /\ files' = v.f /\ split' = v.s /\ err' = v.err
      /\ cursor' = IF v.err = "ok" THEN <<i, 0>> ELSE <<0, 0>>
      /\ got' = <<>> /\ origin' = 0
      /\ UNCHANGED <<call, left, todo, archive, phase>>
  BY <1>7 DEF SeekEntry, Result
<1> HIDE DEF r
<1>9. /\ v.f = files /\ v.err = r.err
      /\ r.err = "ok" => v.s = [r.s EXCEPT !.pos = e.offset]
      /\ r.err # "ok" => v.s = r.s
  BY <1>6 DEF SeekSet
<1> HIDE DEF v
<1>10. CASE r.err = "ok"
  <2> DEFINE t == r.s
  <2>1. /\ t \in SplitType /\ t.mode = "read" /\ t.diskSize = 0
        /\ t.current = n /\ t.number = n /\ t.base = n /\ n \in DOMAIN files
    BY <1>6, <1>10 DEF Stands
  <2>2. /\ split' = [t EXCEPT !.pos = e.offset] /\ files' = files /\ err' = "ok"
    BY <1>8, <1>9, <1>10
  <2> HIDE DEF t, e
  <2>3. /\ split' \in SplitType /\ split'.mode = "read" /\ split'.diskSize = 0
        /\ split'.current = n /\ split'.number = n /\ split'.base = n /\ split'.pos = e.offset
    BY <1>3, <2>1, <2>2 DEF SplitType
  <2>4. e.offset <= Len(files[n]) /\ (0 < Len(e.data) => Follows(files, <<n, e.offset>>, e.cells[0 + 1]))
    <3>1. PlaceOf(diskSize, e, 0) = <<n, e.offset>>
      BY <1>4 DEF PlaceOf, StartOf
    <3>2. 0 < Len(e.data) => 0 \in 0..(Len(e.data) - 1)
      BY <1>3
    <3> QED
      BY <1>2, <1>4, <2>1, <3>1, <3>2 DEF Placed, BeginsIn
  <2>5. cursor' = <<i, 0>> /\ cursor'[1] = i /\ cursor'[2] = 0 /\ got' = <<>> /\ origin' = 0 /\ call' = "none"
        /\ entries' = entries /\ phase' = "reading" /\ UNCHANGED <<left, todo, archive>>
    BY <1>1, <1>8, <1>9, <1>10 DEF archive
  <2>6. CursorInv'
    <3>1. entries'[cursor'[1]] = e
      BY <2>5 DEF e
    <3>2. cursor'[1] <= Len(entries') /\ cursor'[2] <= Len(e.data)
      BY <1>2, <1>3, <2>5
    <3>3. ReaderAt(cursor[2])'
      BY <2>2, <2>3, <2>4, <2>5, <3>1 DEF ReaderAt
    <3> QED
      BY <2>5, <3>1, <3>2, <3>3 DEF CursorInv
  <2>7. ReaderInv'
    BY <2>1, <2>2, <2>3, <2>4, <2>5, <2>6 DEF ReaderInv
  <2>8. Quiet /\ writers > 0
    BY <1>1, <2>2, <2>5, ReadingFacts DEF Quiet, archive
  <2> QED
    BY <1>2, <2>2, <2>3, <2>5, <2>7, <2>8, ReaderKeeps DEF SplitInv, TypeInv
<1>11. CASE r.err # "ok"
  <2>1. split' = r.s /\ files' = files /\ err' = "exist" /\ cursor' = <<0, 0>> /\ cursor'[1] = 0 /\ got' = <<>>
        /\ origin' = 0 /\ call' = "none" /\ phase' = "reading" /\ UNCHANGED <<left, todo, archive>>
    BY <1>1, <1>6, <1>8, <1>9, <1>11 DEF archive
  <2>2. ReaderInv'
    BY <1>6, <1>11, <2>1 DEF ReaderInv, CursorInv, Stands, archive
  <2>3. Quiet /\ writers > 0
    BY <1>1, <2>1, ReadingFacts DEF Quiet, archive
  <2> QED
    BY <1>6, <2>1, <2>2, <2>3, ReaderKeeps DEF SplitInv, TypeInv, Stands
<1> QED
  BY <1>10, <1>11

\* A call that begins turns to the part it is in.
LEMMA StaysInPart ==
  ASSUME SplitInv, phase = "reading", err = "ok"
  PROVE  GotoDisk(files, split, split.number) = [f |-> files, s |-> split, err |-> "ok"]
BY StandsInPart, GotoSame DEF Stands

LEMMA ReadCallKeeps ==
  ASSUME SplitInv, NEW n \in 1..MaxIO, ReadCall(n)
  PROVE  SplitInv'
<1>1. phase = "reading" /\ call = "none" /\ err = "ok" /\ n <= Unread /\ n \in Nat /\ n > 0
  <2>1. MaxIO \in Nat
    BY SplitAssumption
  <2>2. n \in Nat /\ n > 0
    BY <2>1
  <2> QED
    BY <2>2 DEF ReadCall
<1>2. GotoDisk(files, split, split.number) = [f |-> files, s |-> split, err |-> "ok"]
  BY <1>1, StaysInPart
<1>3. /\ files' = files /\ split' = split /\ err' = "ok" /\ call' = "read" /\ left' = n /\ got' = <<>>
      /\ origin' = cursor[2] /\ UNCHANGED <<todo, archive, phase, cursor>>
  BY <1>2 DEF ReadCall, Result
<1>4. cursor[1] # 0
  BY <1>1 DEF Unread
<1> DEFINE e == entries[cursor[1]]
<1>5. /\ Len(e.data) \in Nat /\ cursor[2] \in Nat /\ cursor[2] <= Len(e.data) /\ n <= Len(e.data) - cursor[2]
      /\ cursor[1] \in 1..Len(entries)
  BY <1>1, <1>4, CursorFacts DEF Unread
<1>6. ReaderAt(cursor[2])
  BY <1>1, <1>4 DEF SplitInv, ReaderInv, CursorInv
<1>7. CursorInv'
  <2>1. entries' = entries /\ cursor' = cursor
    BY <1>3 DEF archive
  <2>2. ReaderAt(cursor[2])'
    BY <1>3, <1>6, <2>1 DEF ReaderAt
  <2>3. cursor[2] + n <= Len(e.data) /\ cursor[2] + 0 = cursor[2] /\ cursor[1] <= Len(entries)
    BY <1>5
  <2> QED
    BY <1>3, <1>5, <2>1, <2>2, <2>3 DEF CursorInv
<1>8. ReaderInv'
  BY <1>1, <1>3, <1>4, <1>7 DEF ReaderInv, SplitInv
<1>9. Quiet /\ writers > 0 /\ split' \in SplitType
  BY <1>1, <1>3, ReadingFacts DEF Quiet, archive
<1> QED
  BY <1>1, <1>3, <1>5, <1>8, <1>9, ReaderKeeps DEF SplitInv, TypeInv

LEMMA SkipCallKeeps ==
  ASSUME SplitInv, NEW k \in 1..MaxIO, SkipCall(k)
  PROVE  SplitInv'
<1>1. phase = "reading" /\ call = "none" /\ err = "ok" /\ k <= Unread /\ k \in Nat /\ k > 0
  <2>1. MaxIO \in Nat
    BY SplitAssumption
  <2>2. k \in Nat /\ k > 0
    BY <2>1
  <2> QED
    BY <2>2 DEF SkipCall
<1>2. GotoDisk(files, split, split.number) = [f |-> files, s |-> split, err |-> "ok"]
  BY <1>1, StaysInPart
<1>3. /\ files' = files /\ split' = split /\ err' = "ok" /\ call' = "skip" /\ left' = k /\ got' = <<>>
      /\ cursor' = <<cursor[1], cursor[2] + k>> /\ origin' = cursor[2] + k
      /\ UNCHANGED <<todo, archive, phase>>
  BY <1>2 DEF SkipCall, Result
<1>4. cursor[1] # 0
  BY <1>1 DEF Unread
<1> DEFINE e == entries[cursor[1]]
<1>5. /\ Len(e.data) \in Nat /\ cursor[2] \in Nat /\ cursor[2] <= Len(e.data) /\ k <= Len(e.data) - cursor[2]
      /\ cursor[1] \in 1..Len(entries) /\ cursor[1] \in Nat
  BY <1>1, <1>4, CursorFacts DEF Unread
<1>6. ReaderAt(cursor[2])
  BY <1>1, <1>4 DEF SplitInv, ReaderInv, CursorInv
<1>7. CursorInv'
  <2>1. entries' = entries /\ cursor'[1] = cursor[1] /\ cursor'[2] = cursor[2] + k
    BY <1>3 DEF archive
  <2>2. /\ cursor[2] + k <= Len(e.data) /\ cursor[2] + k + 0 = cursor[2] + k /\ cursor[1] <= Len(entries)
        /\ k <= cursor[2] + k /\ (cursor[2] + k) - k = cursor[2]
    BY <1>1, <1>5
  <2>3. ReaderAt(cursor[2] - left)'
    <3>1. (cursor[2] - left)' = cursor[2]
      BY <1>3, <2>1, <2>2
    <3> QED
      BY <1>3, <1>6, <2>1, <3>1 DEF ReaderAt
  <2> QED
    BY <1>3, <1>5, <2>1, <2>2, <2>3 DEF CursorInv
<1>8. ReaderInv'
  BY <1>1, <1>3, <1>4, <1>7 DEF ReaderInv, SplitInv
<1>9. Quiet /\ writers > 0 /\ split' \in SplitType
  BY <1>1, <1>3, ReadingFacts DEF Quiet, archive
<1>10. cursor' \in Nat \X Nat /\ cursor[2] + k \in Nat
  BY <1>1, <1>3, <1>5
<1> QED
  BY <1>1, <1>3, <1>8, <1>9, <1>10, ReaderKeeps DEF SplitInv, TypeInv

-----------------------------------------------------------------------------
(* Reading *)

\* A running read or skip: an entry is under the cursor, and its next byte follows the position.
LEMMA RunningFacts ==
  ASSUME SplitInv, call \in {"read", "skip"}
  PROVE  /\ phase = "reading" /\ err = "ok" /\ cursor[1] # 0 /\ left \in Nat /\ left > 0
         /\ split \in SplitType /\ split.mode = "read" /\ split.diskSize = 0
         /\ split.current = split.base /\ split.number = split.base /\ split.pos <= Len(files[split.base])
         /\ split.base \in DOMAIN files /\ split.base # Closed /\ split.base \in Int
         /\ split.pos \in Nat /\ Len(files[split.base]) \in Nat /\ files[split.base] \in Seq(Stored)
<1>1. phase = "reading"
  BY DEF SplitInv, PhaseInv
<1>2. err = "ok" /\ cursor[1] # 0 /\ left \in Nat /\ left > 0
  BY <1>1 DEF SplitInv, ReaderInv, TypeInv
<1> QED
  BY <1>1, <1>2, StandsInPart, ReadingFacts DEF Stands

\* Part b after the one the reader has come to the end of, where its next byte is.
LEMMA TurnsOver ==
  ASSUME SplitInv, call \in {"read", "skip"}, NEW j \in Nat, j < Len(entries[cursor[1]].data),
         Follows(files, <<split.base, Len(files[split.base])>>, entries[cursor[1]].cells[j + 1])
  PROVE  LET r == GotoDisk(files, split, split.current + 1) IN
         /\ split.base >= 0 /\ r.f = files /\ Stands(r.s, r.err) /\ r.err \in {"ok", "exist"}
         /\ r.err = "ok" => Follows(files, <<r.s.base, r.s.pos>>, entries[cursor[1]].cells[j + 1])
<1> DEFINE e == entries[cursor[1]]
           b == split.base
           r == GotoDisk(files, split, split.current + 1)
<1>1. e \in EntryType /\ Placed(files, diskSize, Top, e) /\ Len(e.data) \in Nat
  BY RunningFacts, CursorFacts
<1>2. /\ b \in DOMAIN files /\ b \in Int /\ Len(files[b]) \in Nat /\ split \in SplitType /\ split.mode = "read"
      /\ split.diskSize = 0 /\ split.current = b /\ phase = "reading"
  BY RunningFacts
<1> HIDE DEF b, e
<1>3. j < Len(e.data) /\ Follows(files, <<b, Len(files[b])>>, e.cells[j + 1])
  BY DEF e, b
<1>4. b >= 0 /\ e.cells[j + 1] = <<b + 1, 1>> /\ b + 1 \in Parts(diskSize, Top)
  BY <1>1, <1>2, <1>3, CrossesOver
<1>5. b + 1 # split.current /\ b + 1 \in Int /\ b + 1 # 0 /\ split.current + 1 = b + 1
  BY <1>2, <1>4
<1>6. /\ r.f = files /\ Stands(r.s, r.err) /\ r.err \in {"ok", "exist"}
      /\ r.err = "ok" => r.s.base = b + 1 /\ r.s.pos = 0
  BY <1>2, <1>4, <1>5, TurnsAndStands
<1> HIDE DEF r
<1>7. r.err = "ok" => Follows(files, <<r.s.base, r.s.pos>>, e.cells[j + 1])
  BY <1>4, <1>6 DEF Follows
<1> QED
  BY <1>4, <1>6, <1>7 DEF e, b, r

LEMMA ReadLoopKeeps ==
  ASSUME SplitInv, ReadLoop
  PROVE  SplitInv' /\ (call' = "none" /\ err' = "ok" => got' # <<>>)
<1> DEFINE e == entries[cursor[1]]
           b == split.base
           p == split.pos
           j == cursor[2]
           file == files[split.base]
           m == Least(p + left, Len(file)) - p
           chunk == SubSeq(file, split.pos + 1, Least(split.pos + left, Len(file)))
           r == GotoDisk(files, split, split.current + 1)
<1>1. call = "read" /\ call \in {"read", "skip"} /\ UNCHANGED <<files, todo, archive, phase, origin>>
  BY DEF ReadLoop
<1>2. /\ phase = "reading" /\ err = "ok" /\ cursor[1] # 0 /\ left \in Nat /\ left > 0
      /\ split \in SplitType /\ split.mode = "read" /\ split.diskSize = 0
      /\ split.current = b /\ split.number = b /\ p <= Len(file)
      /\ b \in DOMAIN files /\ b # Closed /\ b \in Int
      /\ p \in Nat /\ Len(file) \in Nat /\ file \in Seq(Stored)
  BY <1>1, RunningFacts
<1>3. /\ e \in EntryType /\ Placed(files, diskSize, Top, e) /\ Len(e.data) \in Nat
      /\ cursor[1] \in 1..Len(entries) /\ cursor[1] \in Nat /\ cursor = <<cursor[1], j>>
      /\ j \in Nat /\ origin \in Nat /\ j <= Len(e.data) /\ origin + Len(got) = j
      /\ \A i \in 1..Len(got) : got[i] = e.data[origin + i]
      /\ got \in Seq(Stored) /\ Len(got) \in Nat /\ cursor[1] <= Len(entries)
  BY <1>2, CursorFacts
<1>4. j + left <= Len(e.data) /\ ReaderAt(j)
  BY <1>1, <1>2 DEF SplitInv, ReaderInv, CursorInv
<1>5. m \in Nat /\ m <= left /\ p + m <= Len(file) /\ Least(p + left, Len(file)) = p + m
      /\ (m = 0 => p = Len(file))
  <2> DEFINE l == Len(file)
  <2>1. l \in Nat /\ p \in Nat /\ left \in Nat /\ p <= l /\ left > 0
    BY <1>2
  <2> HIDE DEF l, p
  <2>2. /\ Least(p + left, l) - p \in Nat /\ Least(p + left, l) - p <= left /\ p + (Least(p + left, l) - p) <= l
        /\ Least(p + left, l) = p + (Least(p + left, l) - p)
        /\ (Least(p + left, l) - p = 0 => p = l)
    BY <2>1 DEF Least
  <2> QED
    BY <2>2 DEF l
<1>6. chunk \in Seq(Stored) /\ Len(chunk) = m /\ \A i \in 1..m : chunk[i] = file[p + i]
  <2> DEFINE q == p + m
  <2>1. q \in 0..Len(file) /\ p <= q /\ q - p = m
    BY <1>2, <1>5
  <2>2. chunk = SubSeq(file, p + 1, q)
    BY <1>5
  <2> HIDE DEF m, p, file, q, chunk
  <2>3. SubSeq(file, p + 1, q) \in Seq(Stored) /\ IsPart(SubSeq(file, p + 1, q), file, p, q)
    BY <1>2, <2>1, PartOfSeq
  <2> QED
    BY <2>1, <2>2, <2>3 DEF IsPart
<1> HIDE DEF m, p, file, chunk, b, e, j, r
<1>7. \A i \in 1..m : e.cells[j + i] = <<b, p + i>> /\ chunk[i] = e.data[j + i]
  <2>1. j + m <= Len(e.data) /\ j < Len(e.data)
    <3> DEFINE l == Len(e.data)
    <3>1. m \in Nat /\ m <= left /\ j \in Nat /\ l \in Nat
      BY <1>3, <1>5
    <3>2. j + left <= l /\ left \in Nat /\ left > 0
      BY <1>2, <1>4
    <3> HIDE DEF l
    <3>3. j + m <= l /\ j < l
      BY <3>1, <3>2
    <3> QED
      BY <3>3 DEF l
  <2>2. Follows(files, <<b, p>>, e.cells[j + 1]) /\ file = files[b]
    BY <1>4, <2>1 DEF ReaderAt, e, b, p, j, file
  <2>3. Len(files[b]) \in Nat /\ p + m <= Len(files[b])
    BY <1>2, <1>5, <2>2
  <2>4. TakenFrom(files, e, b, p, j, m)
    <3>1. e \in EntryType /\ Placed(files, diskSize, Top, e) /\ b \in DOMAIN files
      BY <1>2, <1>3
    <3>2. b \in Int /\ p \in Nat /\ j \in Nat /\ m \in Nat
      BY <1>2, <1>3, <1>5
    <3>3. (m > 0 => Follows(files, <<b, p>>, e.cells[j + 1])) /\ (b < 0 \/ p + m <= Len(files[b]))
      BY <2>2, <2>3
    <3>4. j + m <= Len(e.data) /\ Len(files[b]) \in Nat
      BY <2>1, <2>3
    <3> QED
      BY <3>1, <3>2, <3>3, <3>4, RunOn
  <2> QED
    BY <1>6, <2>2, <2>4 DEF TakenFrom
<1>8. Follows(files, <<b, p>>, e.cells[j + 1]) /\ j < Len(e.data)
  <2>1. j < Len(e.data)
    BY <1>2, <1>3, <1>4
  <2> QED
    BY <1>4, <2>1 DEF ReaderAt, e, b, p, j
<1>9. Quiet /\ writers > 0
  BY <1>1, <1>2, ReadingFacts DEF Quiet, archive
<1>10. CASE /\ chunk # <<>>
            /\ split' = [split EXCEPT !.pos = p + Len(chunk)] /\ err' = "ok"
            /\ left' = left - Len(chunk) /\ got' = got \o chunk
            /\ cursor' = <<cursor[1], j + Len(chunk)>>
            /\ call' = IF left' = 0 THEN "none" ELSE "read"
  <2>1. m > 0
    BY <1>5, <1>6, <1>10
  <2>2. /\ split' \in SplitType /\ split'.mode = "read" /\ split'.diskSize = 0
        /\ split'.current = b /\ split'.number = b /\ split'.base = b /\ split'.pos = p + m
    <3>1. p + m \in Nat /\ split' = [split EXCEPT !.pos = p + m] /\ split.base = b
      BY <1>2, <1>5, <1>6, <1>10 DEF b
    <3> QED
      BY <1>2, <3>1 DEF SplitType
  <2>3. left' = left - m /\ left' \in Nat /\ j + m + left' <= Len(e.data) /\ j + m \in Nat /\ j + m <= Len(e.data)
    <3>1. /\ left - m \in Nat /\ j + m + (left - m) <= Len(e.data) /\ j + m \in Nat
          /\ j + m <= Len(e.data)
      <4> DEFINE l == Len(e.data)
      <4>1. left \in Nat /\ m \in Nat /\ m <= left /\ j \in Nat /\ l \in Nat /\ j + left <= l
        BY <1>2, <1>3, <1>4, <1>5
      <4> HIDE DEF l
      <4>2. left - m \in Nat /\ j + m + (left - m) <= l /\ j + m \in Nat /\ j + m <= l
        BY <4>1
      <4> QED
        BY <4>2 DEF l
    <3>2. left' = left - m
      BY <1>6, <1>10
    <3> QED
      BY <3>1, <3>2
  <2>4. cursor' = <<cursor[1], j + m>> /\ cursor'[1] = cursor[1] /\ cursor'[2] = j + m /\ entries' = entries
        /\ phase' = "reading" /\ files' = files /\ origin' = origin
    BY <1>1, <1>2, <1>6, <1>10 DEF archive
  <2>5. /\ got' \in Seq(Stored) /\ Len(got') = Len(got) + m
        /\ \A i \in 1..Len(got') : got'[i] = e.data[origin + i]
    <3> DEFINE n == Len(got)
    <3>0. n \in Nat /\ m \in Nat /\ origin \in Nat /\ origin + n = j
      BY <1>3, <1>5
    <3>1. /\ got \o chunk \in Seq(Stored) /\ Len(got \o chunk) = n + m
          /\ \A i \in 1..(n + m) : (got \o chunk)[i] = IF i <= n THEN got[i] ELSE chunk[i - n]
      BY <1>3, <1>6, ConcatProperties
    <3>2. got' = got \o chunk
      BY <1>10
    <3>3. \A i \in 1..n : got[i] = e.data[origin + i]
      BY <1>3
    <3> HIDE DEF n
    <3>4. ASSUME NEW i \in 1..(n + m) PROVE (got \o chunk)[i] = e.data[origin + i]
      <4>1. CASE i <= n
        <5>1. i \in 1..n
          BY <3>0, <3>4, <4>1
        <5> QED
          BY <3>1, <3>3, <3>4, <4>1, <5>1
      <4>2. CASE ~(i <= n)
        <5>1. i - n \in 1..m /\ j + (i - n) = origin + i
          BY <3>0, <3>4, <4>2
        <5>2. chunk[i - n] = e.data[origin + i]
          BY <1>7, <5>1
        <5> QED
          BY <3>1, <3>4, <4>2, <5>2
      <4> QED
        BY <4>1, <4>2
    <3> QED
      BY <3>1, <3>2, <3>4 DEF n
  <2>6. j + m < Len(e.data) => Follows(files, <<b, p + m>>, e.cells[j + m + 1])
    <3>1. m \in 1..m
      BY <1>5, <2>1
    <3>2. e.cells[j + m] = <<b, p + m>> /\ m \in Nat
      BY <1>5, <1>7, <3>1
    <3> QED
      BY <1>2, <1>3, <1>8, <3>2, NextFollows
  <2>7. CursorInv'
    <3>1. (entries[cursor[1]])' = e
      BY <2>4 DEF e
    <3>2. ReaderAt(cursor[2])'
      BY <2>2, <2>4, <2>6, <3>1 DEF ReaderAt
    <3>3. (origin + Len(got))' = cursor'[2]
      <4>1. origin + (Len(got) + m) = j + m
        BY <1>3, <1>5
      <4> QED
        BY <2>4, <2>5, <4>1
    <3>4. (cursor[2] + left)' <= Len(e.data)
      BY <2>3, <2>4
    <3>5. cursor'[1] <= Len(entries')
      BY <1>3, <2>4
    <3> QED
      BY <1>10, <2>3, <2>4, <2>5, <3>1, <3>2, <3>3, <3>4, <3>5 DEF CursorInv
  <2>8. ReaderInv'
    <3>1. split'.base \in DOMAIN files' /\ split'.pos <= Len(files'[split'.base])
      <4>1. file = files[b] /\ b \in DOMAIN files
        BY <1>2 DEF file, b
      <4> QED
        BY <1>5, <2>2, <2>4, <4>1
    <3>2. call' # "none" => left' > 0
      BY <1>10, <2>3
    <3> QED
      BY <1>2, <1>10, <2>2, <2>4, <2>7, <3>1, <3>2 DEF ReaderInv
  <2>9. cursor' \in Nat \X Nat /\ origin' \in Nat /\ phase' = "reading" /\ call' \in {"none", "read", "skip"}
    BY <1>3, <1>10, <2>3, <2>4
  <2>10. got' # <<>>
    <3>1. Len(got) + m # 0 /\ Len(<<>>) = 0
      BY <1>3, <1>5, <2>1
    <3> QED
      BY <2>5, <3>1
  <2> QED
    BY <1>9, <1>10, <2>2, <2>3, <2>5, <2>8, <2>9, <2>10, ReaderKeeps
<1>11. ASSUME chunk = <<>>
       PROVE  b >= 0 /\ r.f = files /\ Stands(r.s, r.err) /\ r.err \in {"ok", "exist"}
              /\ (r.err = "ok" => Follows(files, <<r.s.base, r.s.pos>>, e.cells[j + 1]))
  <2>1. m = 0
    BY <1>5, <1>6, <1>11
  <2>2. Follows(files, <<b, Len(files[b])>>, e.cells[j + 1])
    BY <1>5, <1>8, <2>1 DEF file, b
  <2> QED
    BY <1>1, <1>3, <1>8, <2>2, TurnsOver DEF e, b, r
<1>12. CASE /\ chunk = <<>> /\ (split.current < 0 \/ got # <<>>)
            /\ call' = "none" /\ UNCHANGED <<split, left, got, err, cursor>>
  <2>1. got # <<>>
    BY <1>2, <1>11, <1>12
  <2>2. entries' = entries /\ files' = files /\ phase' = phase /\ origin' = origin /\ lost' = lost
    BY <1>1 DEF archive
  <2>3. ReaderInv /\ CursorInv
    BY <1>2 DEF SplitInv, ReaderInv
  <2>4. CursorInv'
    <3>1. ReaderAt(cursor[2])'
      BY <1>4, <1>12, <2>2 DEF ReaderAt, j
    <3> QED
      BY <1>12, <2>2, <2>3, <3>1 DEF CursorInv
  <2>5. ReaderInv'
    BY <1>12, <2>2, <2>3, <2>4 DEF ReaderInv
  <2>6. TypeInv /\ split' \in SplitType
    BY <1>2, <1>12 DEF SplitInv
  <2> QED
    BY <1>2, <1>9, <1>12, <2>1, <2>2, <2>5, <2>6, ReaderKeeps DEF TypeInv
<1>13. CASE /\ chunk = <<>> /\ split.current >= 0 /\ got = <<>>
            /\ split' = IF r.err = "exist" THEN [r.s EXCEPT !.current = -1] ELSE r.s
            /\ err' = Missing(r.err) /\ call' = IF r.err = "ok" THEN "read" ELSE "none"
            /\ UNCHANGED <<left, got, cursor>>
  <2>1. entries' = entries /\ files' = files /\ phase' = "reading" /\ origin' = origin /\ lost' = lost /\ err' = r.err
    BY <1>1, <1>2, <1>13 DEF archive, Missing
  <2>2. Stands(r.s, r.err) /\ r.err \in {"ok", "exist"}
        /\ (r.err = "ok" => Follows(files, <<r.s.base, r.s.pos>>, e.cells[j + 1]))
    BY <1>11, <1>13
  <2>3. ReaderInv /\ CursorInv
    BY <1>2 DEF SplitInv, ReaderInv
  <2>4. CASE r.err = "ok"
    <3>1. split' = r.s /\ call' = "read"
      BY <1>13, <2>4
    <3>2. ReaderAt(cursor[2])'
      BY <1>13, <2>1, <2>2, <2>4, <3>1 DEF ReaderAt, e, j
    <3>3. CursorInv'
      BY <1>1, <1>2, <1>13, <2>1, <2>3, <3>1, <3>2 DEF CursorInv
    <3>4. ReaderInv'
      BY <1>2, <1>13, <2>1, <2>2, <2>4, <3>1, <3>3 DEF ReaderInv, Stands
    <3> QED
      BY <1>9, <1>13, <2>1, <2>2, <2>4, <3>1, <3>4, ReaderKeeps DEF SplitInv, TypeInv, Stands
  <2>5. CASE r.err = "exist"
    <3> DEFINE t == r.s
    <3>1. t \in SplitType /\ t.mode = "read" /\ t.diskSize = 0 /\ t.base = Closed /\ lost
      BY <2>2, <2>5 DEF Stands
    <3>2. split' = [t EXCEPT !.current = -1] /\ call' = "none"
      BY <1>13, <2>5
    <3> HIDE DEF t
    <3>3. split' \in SplitType /\ split'.mode = "read" /\ split'.diskSize = 0 /\ split'.base = Closed
      BY <3>1, <3>2 DEF SplitType
    <3>4. CursorInv'
      BY <1>13, <2>1, <2>3, <2>5 DEF CursorInv
    <3>5. ReaderInv'
      BY <2>1, <2>5, <3>1, <3>2, <3>3, <3>4 DEF ReaderInv
    <3> QED
      BY <1>9, <1>13, <2>1, <2>5, <3>2, <3>3, <3>5, ReaderKeeps DEF SplitInv, TypeInv
  <2> QED
    BY <2>2, <2>4, <2>5
<1> QED
  BY <1>10, <1>12, <1>13 DEF ReadLoop, chunk, r, file, p, j

-----------------------------------------------------------------------------
(* Skipping *)

LEMMA SkipLoopKeeps ==
  ASSUME SplitInv, SkipLoop
  PROVE  SplitInv'
<1> DEFINE e == entries[cursor[1]]
           b == split.base
           p == split.pos
           j == cursor[2] - left
           rest == Len(files[split.base]) - split.pos
           r == GotoDisk(files, split, split.current + 1)
<1>1. call = "skip" /\ call \in {"read", "skip"}
      /\ UNCHANGED <<files, todo, got, archive, phase, cursor, origin>>
  BY DEF SkipLoop
<1>2. /\ phase = "reading" /\ err = "ok" /\ cursor[1] # 0 /\ left \in Nat /\ left > 0
      /\ split \in SplitType /\ split.mode = "read" /\ split.diskSize = 0
      /\ split.current = b /\ split.number = b /\ p <= Len(files[b])
      /\ b \in DOMAIN files /\ b \in Int /\ p \in Nat /\ Len(files[b]) \in Nat
  BY <1>1, RunningFacts
<1>3. e \in EntryType /\ Placed(files, diskSize, Top, e) /\ Len(e.data) \in Nat
  BY <1>2, CursorFacts
<1>4. ReaderAt(j) /\ j \in Nat /\ j + left = cursor[2] /\ j + left <= Len(e.data) /\ cursor[2] \in Nat
      /\ cursor = <<cursor[1], cursor[2]>> /\ cursor[1] \in Nat
  <2>1. cursor[2] \in Nat /\ cursor[2] <= Len(e.data) /\ cursor = <<cursor[1], cursor[2]>> /\ cursor[1] \in Nat
    BY <1>2, CursorFacts
  <2>2. left <= cursor[2] /\ ReaderAt(j)
    BY <1>1, <1>2 DEF SplitInv, ReaderInv, CursorInv
  <2> QED
    BY <1>2, <2>1, <2>2
<1>5. rest \in Nat /\ p + rest = Len(files[b])
  BY <1>2
<1>6. ReaderInv /\ CursorInv /\ TypeInv
  BY <1>2 DEF SplitInv, ReaderInv
<1>7. /\ entries' = entries /\ files' = files /\ phase' = "reading" /\ origin' = origin /\ lost' = lost /\ got' = got
      /\ cursor' = cursor /\ Quiet /\ writers > 0
  <2>1. Quiet /\ writers > 0
    BY <1>1, <1>2, ReadingFacts DEF Quiet, archive
  <2> QED
    BY <1>1, <1>2, <2>1 DEF archive
<1> HIDE DEF b, p, e, r, rest
<1>8. j < Len(e.data) /\ Follows(files, <<b, p>>, e.cells[j + 1])
  <2>1. j < Len(e.data)
    BY <1>2, <1>3, <1>4
  <2> QED
    BY <1>4, <2>1 DEF ReaderAt, e, b, p
<1> HIDE DEF j
<1>9. ASSUME NEW m \in Nat, m <= left, b < 0 \/ p + m <= Len(files[b])
      PROVE  /\ TakenFrom(files, e, b, p, j, m)
             /\ j + m < Len(e.data) => Follows(files, <<b, p + m>>, e.cells[j + m + 1])
  <2>1. j + m <= Len(e.data)
    BY <1>2, <1>3, <1>4, <1>9
  <2>2. TakenFrom(files, e, b, p, j, m)
    <3>1. m > 0 => Follows(files, <<b, p>>, e.cells[j + 1])
      BY <1>8
    <3> QED
      BY <1>2, <1>3, <1>4, <1>9, <2>1, <3>1, RunOn
  <2>3. m > 0 => e.cells[j + m] = <<b, p + m>>
    BY <2>2 DEF TakenFrom
  <2>4. j + m < Len(e.data) => Follows(files, <<b, p + m>>, e.cells[j + m + 1])
    BY <1>2, <1>3, <1>4, <1>8, <2>3, NextFollows
  <2> QED
    BY <2>2, <2>4
<1>10. CASE /\ split.number # Cd /\ left > rest
            /\ split' = r.s /\ err' = r.err
            /\ left' = AfterPart(left, rest) /\ call' = IF r.err = "ok" THEN "skip" ELSE "none"
  <2>1. Follows(files, <<b, Len(files[b])>>, e.cells[j + rest + 1]) /\ j + rest < Len(e.data) /\ j + rest \in Nat
    <3>1. j + rest < Len(e.data) /\ rest <= left /\ p + rest <= Len(files[b]) /\ j + rest \in Nat
      BY <1>2, <1>3, <1>4, <1>5, <1>10
    <3> QED
      BY <1>5, <1>9, <3>1
  <2>2. /\ Stands(r.s, r.err) /\ r.err \in {"ok", "exist"}
        /\ r.err = "ok" => Follows(files, <<r.s.base, r.s.pos>>, e.cells[j + rest + 1])
    BY <1>1, <2>1, TurnsOver DEF e, b, r
  <2>3. left' = left - rest /\ left - rest \in Nat /\ left - rest > 0 /\ left - rest <= cursor[2]
        /\ cursor[2] - (left - rest) = j + rest
    BY <1>2, <1>4, <1>5, <1>10 DEF AfterPart
  <2>4. CASE r.err = "ok"
    <3>1. split' = r.s /\ call' = "skip" /\ err' = "ok"
      BY <1>10, <2>4
    <3>2. (cursor[2] - left)' = j + rest
      BY <1>7, <2>3
    <3>3. ReaderAt(cursor[2] - left)'
      BY <1>7, <2>2, <2>4, <3>1, <3>2 DEF ReaderAt, e
    <3>4. CursorInv'
      BY <1>2, <1>6, <1>7, <2>3, <3>1, <3>3 DEF CursorInv
    <3>5. ReaderInv'
      BY <1>2, <1>7, <2>2, <2>3, <2>4, <3>1, <3>4 DEF ReaderInv, Stands
    <3> QED
      BY <1>6, <1>7, <2>2, <2>3, <3>1, <3>5, ReaderKeeps DEF TypeInv, Stands
  <2>5. CASE r.err = "exist"
    <3>1. split' = r.s /\ call' = "none" /\ err' = "exist"
      BY <1>10, <2>5
    <3>2. CursorInv'
      BY <1>6, <1>7, <3>1 DEF CursorInv
    <3>3. ReaderInv'
      BY <1>7, <2>2, <2>5, <3>1, <3>2 DEF ReaderInv, Stands
    <3> QED
      BY <1>6, <1>7, <2>2, <2>3, <3>1, <3>3, ReaderKeeps DEF TypeInv, Stands
  <2> QED
    BY <2>2, <2>4, <2>5
<1>11. CASE /\ split.number = Cd \/ left <= rest
            /\ split' = [split EXCEPT !.pos = p + left]
            /\ call' = "none" /\ UNCHANGED <<left, err>>
  <2>1. b < 0 \/ p + left <= Len(files[b])
    BY <1>2, <1>5, <1>11 DEF Cd
  <2>2. /\ TakenFrom(files, e, b, p, j, left)
        /\ j + left < Len(e.data) => Follows(files, <<b, p + left>>, e.cells[j + left + 1])
    BY <1>2, <1>9, <2>1
  <2>3. p + left <= Len(files[b]) /\ p + left \in Nat
    <3>1. left \in 1..left
      BY <1>2
    <3> QED
      BY <1>2, <2>2, <3>1 DEF TakenFrom
  <2>4. /\ split' \in SplitType /\ split'.mode = "read" /\ split'.diskSize = 0
        /\ split'.current = b /\ split'.number = b /\ split'.base = b /\ split'.pos = p + left
    <3>1. split' = [split EXCEPT !.pos = p + left] /\ split.base = b
      BY <1>11 DEF b
    <3> QED
      BY <1>2, <2>3, <3>1 DEF SplitType
  <2>5. ReaderAt(cursor[2])'
    BY <1>4, <1>7, <2>2, <2>4 DEF ReaderAt, e
  <2>6. CursorInv'
    BY <1>6, <1>7, <1>11, <2>5 DEF CursorInv
  <2>7. ReaderInv'
    BY <1>2, <1>7, <1>11, <2>3, <2>4, <2>6 DEF ReaderInv
  <2> QED
    BY <1>6, <1>7, <1>11, <2>4, <2>7, ReaderKeeps DEF TypeInv
<1> QED
  BY <1>10, <1>11 DEF SkipLoop, r, rest, p

-----------------------------------------------------------------------------
(* What a writer goes by, and its calls *)

\* Parts g are parts f, except that part p holds o.
PartIsSet(g, f, p, o) ==
  /\ Held(g) /\ DOMAIN g = DOMAIN f \cup {p} /\ g[p] = o /\ \A n \in DOMAIN f : n # p => g[n] = f[n]
  /\ p \in DOMAIN f => g = [f EXCEPT ![p] = o]
LEMMA HeldWith ==
  ASSUME NEW f, Held(f), NEW p, p \in Int, NEW o \in Seq(Stored)
  PROVE  PartIsSet(WithPart(f, p, o), f, p, o)
<1> DEFINE g == WithPart(f, p, o)
<1>1. g = [n \in DOMAIN f \cup {p} |-> IF n = p THEN o ELSE f[n]] /\ p \in DOMAIN f \cup {p}
  BY DEF WithPart
<1>2. f \in [DOMAIN f -> Seq(Stored)] /\ DOMAIN f \subseteq Int
  BY DEF Held
<1> HIDE DEF g
<1>3. DOMAIN g = DOMAIN f \cup {p} /\ g[p] = o /\ \A n \in DOMAIN f : n # p => g[n] = f[n]
  BY <1>1
<1>4. Held(g)
  <2>1. \A n \in DOMAIN g : g[n] \in Seq(Stored)
    BY <1>2, <1>3
  <2>2. g = [n \in DOMAIN g |-> g[n]]
    BY <1>1, <1>3
  <2>3. DOMAIN g \subseteq Int
    BY <1>2, <1>3
  <2> QED
    BY <2>1, <2>2, <2>3 DEF Held
<1>5. ASSUME p \in DOMAIN f PROVE g = [f EXCEPT ![p] = o]
  <2>1. DOMAIN f \cup {p} = DOMAIN f
    BY <1>5
  <2> QED
    BY <1>1, <1>2, <2>1
<1> QED
  BY <1>3, <1>4, <1>5 DEF g, PartIsSet

LEMMA HeldExcept ==
  ASSUME NEW f, Held(f), NEW p, p \in DOMAIN f, NEW o \in Seq(Stored), NEW g, g = [f EXCEPT ![p] = o]
  PROVE  PartIsSet(g, f, p, o)
<1>1. f \in [DOMAIN f -> Seq(Stored)] /\ DOMAIN f \subseteq Int
  BY DEF Held
<1>2. g \in [DOMAIN f -> Seq(Stored)] /\ DOMAIN g = DOMAIN f /\ g[p] = o /\ \A n \in DOMAIN f : n # p => g[n] = f[n]
  BY <1>1
<1>3. Held(g) /\ DOMAIN f = DOMAIN f \cup {p}
  BY <1>1, <1>2 DEF Held
<1> QED
  BY <1>2, <1>3 DEF PartIsSet

\* What a writer has to go by.
LEMMA WritingFacts ==
  ASSUME SplitInv, phase \in {"writing", "entry", "directory"}
  PROVE  /\ split \in SplitType /\ split.diskSize = diskSize /\ split.mode \in {"create", "append"}
         /\ writers > 0 /\ writers \in Nat /\ diskSize \in Nat /\ Top \in Int /\ ~lost /\ cursor[1] = 0
         /\ call \in {"none", "write"}
         /\ Held(files) /\ \A n \in DOMAIN files : files[n] \in Seq(Stored) /\ Len(files[n]) \in Nat
         /\ PartsInv /\ Parts(diskSize, Top) \subseteq DOMAIN files
         /\ DOMAIN files \subseteq {Cd} \cup Parts(diskSize, Top)
         /\ entries \in Seq(EntryType) /\ Len(entries) \in Nat
         /\ \A i \in 1..Len(entries) : /\ entries[i] \in EntryType
                                       /\ Placed(files, diskSize, Top, entries[i])
                                       /\ diskSize = 0 => UpTo(Mark, entries[i])
<1>1. TypeInv /\ PhaseInv /\ FilesInv /\ EntriesInv /\ WriterInv /\ DirectoryInv
  BY DEF SplitInv
<1>2. split \in SplitType /\ writers > 0 /\ writers \in Nat /\ diskSize \in Nat /\ withCd \in Nat /\ cursor[1] = 0
      /\ call \in {"none", "write"} /\ Held(files) /\ entries \in Seq(EntryType)
  BY <1>1 DEF PhaseInv, TypeInv
<1>3. split.diskSize = diskSize /\ split.mode \in {"create", "append"} /\ ~lost
  BY <1>1 DEF WriterInv, DirectoryInv, Writing
<1>4. Top \in Int
  BY <1>2 DEF Top, SplitType
<1>5. PartsInv
  BY <1>1, <1>2 DEF FilesInv
<1>6. Parts(diskSize, Top) \subseteq DOMAIN files /\ DOMAIN files \subseteq {Cd} \cup Parts(diskSize, Top)
  BY <1>3, <1>5 DEF PartsInv
<1>7. \A i \in 1..Len(entries) : entries[i] \in EntryType
  BY <1>2, ElementOfSeq
<1>8. \A i \in 1..Len(entries) : /\ Placed(files, diskSize, Top, entries[i])
                                 /\ diskSize = 0 => UpTo(Mark, entries[i])
  BY <1>1 DEF EntriesInv
<1>9. \A n \in DOMAIN files : files[n] \in Seq(Stored) /\ Len(files[n]) \in Nat
  BY <1>1, FileTypes
<1> QED
  BY <1>2, <1>3, <1>4, <1>5, <1>6, <1>7, <1>8, <1>9, LenProperties

LEMMA WriterKeeps ==
  ASSUME SplitInv, cursor[1] = 0, UNCHANGED <<left, got, cursor, origin>>,
         phase' \in {"writing", "entry", "directory"}, split' \in SplitType,
         call' \in {"none", "write"}, call' = "write" => phase' \in {"entry", "directory"},
         err' \in {"ok", "exist", "open"}, todo' \in Seq(Stored),
         Held(files'), entries' \in Seq(EntryType), withCd' \in Nat, cdAt' \in Nat, diskSize' \in Nat,
         lost' \in BOOLEAN, writers' \in Nat, writers' > 0,
         PartsInv', EntriesInv', WriterInv', DirectoryInv', EntryInv', FilledInv'
  PROVE  SplitInv'
<1>1. TypeInv'
  BY DEF SplitInv, TypeInv
<1>2. PhaseInv' /\ ReaderInv'
  BY DEF PhaseInv, ReaderInv
<1> QED
  BY <1>1, <1>2 DEF SplitInv, FilesInv

LEMMA WriteCallKeeps ==
  ASSUME SplitInv, NEW d \in Strings(MaxIO), WriteCall(d)
  PROVE  SplitInv'
<1>1. /\ phase = "entry" /\ call' = "write" /\ todo' = d
      /\ UNCHANGED <<files, split, left, got, err, archive, phase, cursor, origin>> /\ err = "ok"
  BY DEF WriteCall
<1>2. d \in Seq(Bytes) /\ d # <<>>
  <2>1. PICK k \in 1..MaxIO : d \in [1..k -> Bytes]
    BY DEF Strings
  <2>2. MaxIO \in Nat
    BY SplitAssumption
  <2>3. k \in Nat /\ k # 0
    BY <2>2
  <2>4. d \in Seq(Bytes) /\ Len(d) = k
    <3>1. d \in Seq(Bytes)
      BY <2>1, <2>3, SeqDef
    <3> QED
      BY <2>1, <2>3, <3>1, LenProperties
  <2> QED
    BY <2>3, <2>4
<1>3. d \in Seq(Stored)
  BY <1>2 DEF Stored
<1>4. /\ Top' = Top /\ Mark' = Mark /\ Writing' = Writing
  BY <1>1 DEF Top, Mark, Writing, archive
<1>5. PartsInv' /\ EntriesInv'
  <2>1. PartsInv /\ EntriesInv
    BY <1>1, WritingFacts DEF SplitInv
  <2>2. files' = files /\ diskSize' = diskSize /\ lost' = lost /\ withCd' = withCd /\ cdAt' = cdAt /\ entries' = entries
    BY <1>1 DEF archive
  <2>3. PartsInv'
    BY <1>4, <2>1, <2>2 DEF PartsInv
  <2>4. EntriesInv'
    BY <1>4, <2>1, <2>2, Zenon DEF EntriesInv
  <2> QED
    BY <2>3, <2>4
<1>6. WriterInv'
  <2>1. WriterInv
    BY DEF SplitInv
  <2> QED
    BY <1>1, <2>1 DEF WriterInv, Writing, AtEnd, AtDirectory, archive
<1>7. EntryInv' /\ DirectoryInv'
  <2>1. EntryInv
    BY DEF SplitInv
  <2>2. EntryInv'
    BY <1>1, <1>2, <2>1 DEF EntryInv, archive
  <2> QED
    BY <1>1, <2>2 DEF DirectoryInv
<1>8. FilledInv'
  BY <1>1, <1>4 DEF SplitInv, FilledInv, archive
<1> QED
  BY <1>1, <1>3, <1>5, <1>6, <1>7, <1>8, WritingFacts, WriterKeeps DEF archive, SplitInv, TypeInv

LEMMA WriteCloseKeeps ==
  ASSUME SplitInv, WriteClose
  PROVE  SplitInv'
<1>1. /\ phase = "entry" /\ phase' = "writing" /\ call = "none"
      /\ UNCHANGED <<files, split, callVars, archive, cursor, origin>>
  BY DEF WriteClose
<1>2. /\ Top' = Top /\ Mark' = Mark /\ Writing' /\ Writing
  BY <1>1 DEF Top, Mark, Writing, archive
<1>3. PartsInv' /\ EntriesInv'
  <2>1. PartsInv /\ EntriesInv
    BY <1>1, WritingFacts DEF SplitInv
  <2>2. files' = files /\ diskSize' = diskSize /\ lost' = lost /\ withCd' = withCd /\ cdAt' = cdAt /\ entries' = entries
    BY <1>1 DEF archive
  <2>3. PartsInv'
    BY <1>2, <2>1, <2>2 DEF PartsInv
  <2>4. EntriesInv'
    BY <1>2, <2>1, <2>2, Zenon DEF EntriesInv
  <2> QED
    BY <2>3, <2>4
<1>4. WriterInv'
  <2>1. WriterInv
    BY DEF SplitInv
  <2> QED
    BY <1>1, <1>2, <2>1 DEF WriterInv, AtEnd, AtDirectory, archive, callVars
<1>5. EntryInv' /\ DirectoryInv'
  BY <1>1 DEF EntryInv, DirectoryInv
<1>6. FilledInv'
  BY <1>1, <1>2 DEF SplitInv, FilledInv, archive
<1> QED
  BY <1>1, <1>3, <1>4, <1>5, <1>6, WritingFacts, WriterKeeps DEF archive, callVars, SplitInv, TypeInv

-----------------------------------------------------------------------------
(* The ends of sessions, and appending *)

\* What does not change the parts leaves every entry where it is.
LEMMA PlacedSame ==
  ASSUME NEW g, Held(g), NEW d \in Nat, NEW top \in Int, NEW top2 \in Int, NEW e \in EntryType,
         Placed(g, d, top, e), d > 0 => top = top2
  PROVE  Placed(g, d, top2, e)
<1>1. Parts(d, top) = Parts(d, top2)
  BY DEF Parts
<1> QED
  BY <1>1 DEF Placed, BeginsIn, Keeps

LEMMA CloseWriterKeeps ==
  ASSUME SplitInv, CloseWriter
  PROVE  SplitInv'
<1>1. /\ phase = "directory" /\ phase' = "closed" /\ call = "none" /\ err' = "ok"
      /\ UNCHANGED <<files, call, left, todo, got, archive, cursor, origin>>
  BY DEF CloseWriter
<1>2. /\ Top' = Top /\ Mark' = Mark /\ ~Writing' /\ ~Writing
  BY <1>1 DEF Top, Mark, Writing, archive
<1>3. /\ files' = files /\ diskSize' = diskSize /\ lost' = lost /\ withCd' = withCd /\ cdAt' = cdAt
      /\ entries' = entries /\ writers' = writers
  BY <1>1 DEF archive
<1>4. PartsInv' /\ EntriesInv'
  <2>1. PartsInv /\ EntriesInv
    BY <1>1, WritingFacts DEF SplitInv
  <2>2. PartsInv'
    BY <1>2, <1>3, <2>1 DEF PartsInv
  <2>3. EntriesInv'
    BY <1>2, <1>3, <2>1, Zenon DEF EntriesInv
  <2> QED
    BY <2>2, <2>3
<1>5. WriterInv' /\ DirectoryInv' /\ EntryInv' /\ ReaderInv'
  BY <1>1, <1>2 DEF WriterInv, DirectoryInv, EntryInv, ReaderInv
<1>6. FilledInv'
  BY <1>2, <1>3 DEF SplitInv, FilledInv
<1>7. TypeInv'
  BY <1>1, <1>3 DEF SplitInv, TypeInv
<1>8. PhaseInv'
  BY <1>1, <1>3, WritingFacts DEF PhaseInv
<1> QED
  BY <1>4, <1>5, <1>6, <1>7, <1>8 DEF SplitInv, FilesInv

LEMMA LoseKeeps ==
  ASSUME SplitInv, NEW n, Lose(n)
  PROVE  SplitInv'
<1>1. /\ phase = "closed" /\ n \in DOMAIN files \ {Cd} /\ lost'
      /\ files' = [m \in DOMAIN files \ {n} |-> files[m]]
      /\ UNCHANGED <<split, callVars, entries, withCd, cdAt, diskSize, writers, phase, cursor, origin>>
  BY DEF Lose
<1>2. lost' = TRUE
  BY DEF Lose
<1>3. TypeInv /\ PhaseInv /\ FilesInv /\ EntriesInv /\ ReaderInv /\ FilledInv
  BY DEF SplitInv
<1>4. ~Writing /\ ~Writing' /\ Top' = Top /\ Mark' = Mark /\ Top \in Int
  BY <1>1, <1>3 DEF Writing, Top, Mark, TypeInv
<1>5. /\ DOMAIN files' = DOMAIN files \ {n} /\ \A m \in DOMAIN files' : files'[m] = files[m] /\ m \in DOMAIN files
  BY <1>1
<1>6. Held(files')
  <2>1. /\ \A m \in DOMAIN files : files[m] \in Seq(Stored)
        /\ DOMAIN files \subseteq Int
    BY <1>3, FileTypes
  <2>2. files' = [m \in DOMAIN files' |-> files'[m]] /\ \A m \in DOMAIN files' : files'[m] \in Seq(Stored)
    BY <1>1, <1>5, <2>1
  <2>3. DOMAIN files' \subseteq Int
    BY <1>5, <2>1
  <2> QED
    BY <2>2, <2>3 DEF Held
<1>7. writers > 0
  BY <1>1, <1>3 DEF PhaseInv, TypeInv
<1>8. PartsInv'
  <2>1. PartsInv
    BY <1>3, <1>7 DEF FilesInv
  <2> QED
    BY <1>1, <1>2, <1>4, <1>5, <2>1 DEF PartsInv
<1>9. EntriesInv'
  <2>1. ASSUME NEW i \in 1..Len(entries)
        PROVE  Placed(files', diskSize, Top, entries[i]) /\ (diskSize = 0 => UpTo(Mark, entries[i]))
    <3>1. Placed(files, diskSize, Top, entries[i]) /\ (diskSize = 0 => UpTo(Mark, entries[i]))
      BY <1>3 DEF EntriesInv
    <3>2. entries[i] \in EntryType
      BY <1>3, ElementOfSeq DEF TypeInv
    <3>3. \A m \in DOMAIN files : Len(files[m]) \in Nat
      BY <1>3, FileTypes
    <3> DEFINE g == files'
    <3>4. \A m \in DOMAIN g : g[m] = files[m] /\ m \in DOMAIN files
      BY <1>5
    <3> HIDE DEF g
    <3>5. diskSize \in Nat
      BY <1>3 DEF TypeInv
    <3>6. Placed(g, diskSize, Top, entries[i])
      <4>1. \A m \in Parts(diskSize, Top) : m \in DOMAIN g =>
              /\ m \in DOMAIN files /\ Len(files[m]) \in Nat /\ Len(g[m]) \in Nat /\ Len(files[m]) <= Len(g[m])
              /\ m >= 0 /\ m < Top => Len(g[m]) = Len(files[m])
        BY <3>3, <3>4
      <4>2. \A j \in 1..Len(entries[i].data) :
              entries[i].cells[j][1] \in DOMAIN g =>
                g[entries[i].cells[j][1]][entries[i].cells[j][2]] = files[entries[i].cells[j][1]][entries[i].cells[j][2]]
        BY <3>4
      <4> QED
        BY <1>4, <3>1, <3>2, <3>5, <4>1, <4>2, PlacedFrame, Top <= Top
    <3> QED
      BY <3>1, <3>6 DEF g
  <2> QED
    BY <1>1, <1>4, <2>1, Zenon DEF EntriesInv
<1>10. WriterInv' /\ DirectoryInv' /\ EntryInv' /\ ReaderInv'
  BY <1>1, <1>4 DEF WriterInv, DirectoryInv, EntryInv, ReaderInv
<1>11. FilledInv'
  BY <1>1, <1>3, <1>4, <1>5 DEF FilledInv
<1>12. TypeInv'
  BY <1>1, <1>2, <1>3, <1>6 DEF TypeInv, callVars
<1>13. PhaseInv'
  BY <1>1, <1>3, <1>5, <1>7 DEF PhaseInv, callVars
<1> QED
  BY <1>7, <1>8, <1>9, <1>10, <1>11, <1>12, <1>13 DEF SplitInv, FilesInv

LEMMA OpenAppendKeeps ==
  ASSUME SplitInv, OpenAppend
  PROVE  SplitInv'
<1> DEFINE s0 == [mode |-> "append", diskSize |-> diskSize, number |-> 0, out |-> 0, outDisk |-> 0,
                  current |-> 0, base |-> Closed, pos |-> 0]
           r == GotoDisk(files, s0, Cd)
           s == [r.s EXCEPT !.pos = cdAt]
<1>1. /\ phase = "closed" /\ 0 < writers /\ writers' = writers + 1 /\ ~lost
      /\ split' = [s EXCEPT !.number = IF withCd > 0 THEN withCd - 1 ELSE @]
      /\ phase' = "writing" /\ err' = "ok"
      /\ UNCHANGED <<files, call, left, todo, got, entries, withCd, cdAt, diskSize, lost, cursor, origin>>
  BY DEF OpenAppend, Opened, Cd
<1>2. TypeInv /\ PhaseInv /\ FilesInv /\ EntriesInv
  BY DEF SplitInv
<1>3. withCd \in Nat /\ cdAt \in Nat /\ diskSize \in Nat /\ writers \in Nat /\ Held(files) /\ entries \in Seq(EntryType)
      /\ lost' \in BOOLEAN
  BY <1>1, <1>2 DEF TypeInv
<1>4. ~Writing /\ Top = withCd - 1 /\ Mark = cdAt /\ Writing'
  BY <1>1 DEF Writing, Top, Mark
<1>5. PartsInv /\ Cd \in DOMAIN files /\ cdAt <= Len(files[Cd]) /\ (diskSize = 0 => withCd = 0)
      /\ (diskSize > 0 => withCd >= 1)
  BY <1>1, <1>2, <1>4 DEF FilesInv, PartsInv
<1>6. s0 \in SplitType /\ s0.mode = "append" /\ s0.diskSize = diskSize /\ s0.base = Closed /\ s0.number = 0
  BY <1>3 DEF SplitType, Closed
<1>7. \E m \in {0, Cd}, p \in Nat :
        r.s = InPart(s0, Cd, m, p, 0, 0) /\ (diskSize = 0 => m = 0)
  <2>1. CASE diskSize = 0
    <3>1. r = OpenDisk(files, s0, Cd)
      BY <1>6, <2>1 DEF GotoDisk
    <3>2. PathOf(s0, Cd) = Cd
      BY DEF PathOf
    <3>3. r.s = InPart(s0, Cd, 0, Len(files[Cd]), 0, 0)
      BY <1>5, <2>1, <3>1, <3>2 DEF OpenDisk, Start, InPart, Cd
    <3>4. Len(files[Cd]) \in Nat
      BY <1>2, <1>5, FileTypes
    <3> QED
      BY <3>3, <3>4
  <2>2. CASE diskSize > 0
    <3> DEFINE new == Opening(Cd, files[Cd])
    <3> HIDE DEF s0
    <3>1. r = [f |-> WithPart(files, Cd, new), s |-> InPart(s0, Cd, Cd, Len(new), Put(Cd), s0.out + Put(Cd)), err |-> "ok"]
      BY <1>5, <1>6, <2>2, GotoAppend DEF Cd
    <3>2. Put(Cd) = 0 /\ s0.out + Put(Cd) = 0 /\ new = files[Cd]
      BY DEF Put, s0, Opening, Cd
    <3>3. Len(files[Cd]) \in Nat
      BY <1>2, <1>5, FileTypes
    <3> QED
      BY <2>2, <3>1, <3>2, <3>3
  <2> QED
    BY <1>3, <2>1, <2>2
<1>8. PICK m \in {0, Cd}, p \in Nat : r.s = InPart(s0, Cd, m, p, 0, 0) /\ (diskSize = 0 => m = 0)
  BY <1>7
<1> DEFINE n == IF withCd > 0 THEN withCd - 1 ELSE m
<1>9. split' = InPart(s0, Cd, n, cdAt, 0, 0)
  <2>1. s = InPart(s0, Cd, m, cdAt, 0, 0)
    BY <1>8 DEF InPart
  <2> HIDE DEF s, s0
  <2>2. [s EXCEPT !.number = IF withCd > 0 THEN withCd - 1 ELSE @] = InPart(s0, Cd, n, cdAt, 0, 0)
    BY <2>1 DEF InPart
  <2> QED
    BY <1>1, <2>2
<1>10. n \in Int /\ (diskSize > 0 => n = withCd - 1 /\ n >= 0) /\ (diskSize = 0 => n = 0)
  BY <1>3, <1>5, <1>8 DEF Cd
<1> HIDE DEF s0, r, s, n
<1>11. split' \in SplitType
  BY <1>3, <1>6, <1>9, <1>10 DEF SplitType, InPart, Cd
<1>12. /\ split'.mode = "append" /\ split'.diskSize = diskSize /\ split'.number = n
  BY <1>6, <1>9 DEF InPart
<1>13. split'.current = Cd /\ split'.base = Cd /\ split'.pos = cdAt /\ split'.outDisk = 0
  BY <1>9 DEF InPart
<1>14. Top' = n /\ Mark' = cdAt
  BY <1>4, <1>12, <1>13 DEF Top, Mark
<1>15. PartsInv'
  <2>1. Parts(diskSize, n) = Parts(diskSize, Top)
    BY <1>4, <1>3, <1>10 DEF Parts
  <2> QED
    BY <1>1, <1>4, <1>5, <1>14, <2>1 DEF PartsInv
<1>16. EntriesInv'
  <2>1. ASSUME NEW i \in 1..Len(entries)
        PROVE  Placed(files, diskSize, n, entries[i]) /\ (diskSize = 0 => UpTo(cdAt, entries[i]))
    <3>1. Placed(files, diskSize, Top, entries[i]) /\ (diskSize = 0 => UpTo(cdAt, entries[i])) /\ entries[i] \in EntryType
      BY <1>2, <1>3, <1>4, ElementOfSeq DEF EntriesInv
    <3>2. Top \in Int /\ (diskSize > 0 => Top = n)
      BY <1>3, <1>4, <1>10
    <3> QED
      BY <1>3, <1>10, <3>1, <3>2, PlacedSame
  <2> QED
    BY <1>1, <1>14, <2>1, Zenon DEF EntriesInv
<1>17. WriterInv'
  <2>1. AtDirectory'
    BY <1>1, <1>5, <1>12, <1>13 DEF AtDirectory
  <2> QED
    BY <1>1, <1>5, <1>10, <1>12, <1>13, <2>1 DEF WriterInv
<1>18. DirectoryInv' /\ EntryInv' /\ FilledInv'
  BY <1>1, <1>3 DEF DirectoryInv, EntryInv, FilledInv
<1>19. cursor[1] = 0 /\ call = "none" /\ todo \in Seq(Stored)
  BY <1>1, <1>2 DEF PhaseInv, TypeInv
<1> QED
  BY <1>1, <1>3, <1>11, <1>15, <1>16, <1>17, <1>18, <1>19, WriterKeeps

-----------------------------------------------------------------------------
(* Creating, and turning to the directory *)

LEMMA OpenCreateKeeps ==
  ASSUME SplitInv, NEW size \in DiskSizes, OpenCreate(size)
  PROVE  SplitInv'
<1> DEFINE s0 == [mode |-> "create", diskSize |-> size, number |-> 0, out |-> 0, outDisk |-> 0,
                  current |-> -1, base |-> Closed, pos |-> 0]
           r == GotoDisk(files, s0, 0)
           b == IF size > 0 THEN 0 ELSE Cd
           first == IF size > 0 THEN <<DiskHeader>> ELSE <<>>
           k == IF size > 0 THEN 1 ELSE 0
           t == [mode |-> "create", diskSize |-> size, number |-> 0, current |-> 0,
                 base |-> b, out |-> k, outDisk |-> k, pos |-> k]
<1>1. /\ phase = "closed" /\ writers = 0 /\ writers' = 1 /\ Result(r)
      /\ phase' = "writing" /\ entries' = <<>> /\ withCd' = 0 /\ cdAt' = 0
      /\ diskSize' = size /\ lost' = FALSE
      /\ UNCHANGED <<call, left, todo, got, cursor, origin>>
  BY DEF OpenCreate, Opened
<1>2. TypeInv /\ PhaseInv
  BY DEF SplitInv
<1>3. size \in Nat /\ DOMAIN files = {} /\ Held(files) /\ cursor[1] = 0 /\ todo \in Seq(Stored) /\ call = "none"
  BY <1>1, <1>2, SplitAssumption DEF TypeInv, PhaseInv
<1>4. s0 \in SplitType /\ s0.mode = "create" /\ s0.diskSize = size /\ s0.base = Closed /\ s0.number = 0 /\ s0.out = 0
  BY <1>3 DEF SplitType, Closed
<1>5. r = [f |-> WithPart(files, b, first), s |-> t, err |-> "ok"]
  <2>1. CASE size = 0
    <3>1. r = OpenDisk(files, s0, 0)
      BY <1>4, <2>1 DEF GotoDisk
    <3>2. PathOf(s0, 0) = Cd
      BY <2>1 DEF PathOf
    <3> QED
      BY <2>1, <3>1, <3>2 DEF OpenDisk, Start
  <2>2. CASE size > 0
    <3> DEFINE s1 == [s0 EXCEPT !.base = Closed]
               o == OpenDisk(files, s1, 0)
    <3>1. r = IF o.err = "ok" THEN [o EXCEPT !.s.number = 0] ELSE o
      <4>1. s0 \in SplitType /\ s0.diskSize > 0 /\ s0.base = Closed /\ 0 \in Int
        BY <1>4, <2>2
      <4> HIDE DEF s0
      <4> QED
        BY <4>1, GotoOther
    <3>2. s1 = s0
      OBVIOUS
    <3>3. PathOf(s0, 0) = 0
      BY <2>2 DEF PathOf
    <3>4. Append(<<>>, DiskHeader) = <<DiskHeader>> /\ Len(<<DiskHeader>>) = 1
      OBVIOUS
    <3>5. OpenDisk(files, s0, 0) = [f |-> WithPart(files, 0, <<DiskHeader>>), s |-> t, err |-> "ok"]
      BY <2>2, <3>3, <3>4 DEF OpenDisk, Start
    <3>6. o = [f |-> WithPart(files, 0, <<DiskHeader>>), s |-> t, err |-> "ok"]
      BY <3>2, <3>5
    <3> HIDE DEF o, s0
    <3>7. [t EXCEPT !.number = 0] = t
      OBVIOUS
    <3> HIDE DEF t
    <3>8. [o EXCEPT !.s.number = 0] = [f |-> WithPart(files, 0, <<DiskHeader>>), s |-> t, err |-> "ok"] /\ o.err = "ok"
      BY <3>6, <3>7
    <3> QED
      BY <2>2, <3>1, <3>8
  <2> QED
    BY <1>3, <2>1, <2>2
<1>6. first \in Seq(Stored) /\ Len(first) = k /\ k \in Nat /\ k <= size /\ b \in Int /\ b # Closed
      /\ (size > 0 => first # <<>> /\ first[1] = DiskHeader)
  <2>1. DiskHeader \in Stored
    BY DEF Stored
  <2>2. /\ <<DiskHeader>> \in Seq(Stored) /\ Len(<<DiskHeader>>) = 1 /\ <<DiskHeader>>[1] = DiskHeader
        /\ <<DiskHeader>> # <<>>
    BY <2>1
  <2>3. <<>> \in Seq(Stored) /\ Len(<<>>) = 0
    OBVIOUS
  <2>4. first \in Seq(Stored) /\ Len(first) = k
    BY <2>2, <2>3
  <2>5. size > 0 => first # <<>> /\ first[1] = DiskHeader
    BY <2>2
  <2>6. k \in Nat /\ k <= size /\ b \in Int /\ b # Closed
    BY <1>3 DEF Cd, Closed
  <2> QED
    BY <2>4, <2>5, <2>6
<1>7. t \in SplitType /\ t.mode = "create" /\ t.diskSize = size /\ t.number = 0
      /\ t.base = b /\ t.pos = k /\ t.outDisk = k /\ t.current = 0
  BY <1>3, <1>6 DEF SplitType
<1> HIDE DEF r, t, first, k, s0
<1>8. files' = WithPart(files, b, first) /\ split' = t /\ err' = "ok"
  BY <1>1, <1>5 DEF Result
<1>9. Held(files') /\ DOMAIN files' = {b} /\ files'[b] = first
  <2>1. Held(files') /\ DOMAIN files' = DOMAIN files \cup {b} /\ files'[b] = first
    <3>1. PartIsSet(files', files, b, first)
      BY <1>3, <1>6, <1>8, HeldWith
    <3> QED
      BY <3>1 DEF PartIsSet
  <2> QED
    BY <1>3, <2>1
<1>10. Writing' /\ Top' = 0 /\ Mark' = k
  BY <1>1, <1>7, <1>8 DEF Writing, Top, Mark
<1>11. PartsInv'
  <2>1. Parts(size, 0) = {b}
    BY <1>3 DEF Parts
  <2>2. 0 \in DOMAIN files' => size > 0 /\ b = 0
    BY <1>9 DEF Cd
  <2>3. 0 \in DOMAIN files' => files'[0] # <<>> /\ files'[0][1] = DiskHeader
    BY <1>6, <1>9, <2>2
  <2> QED
    BY <1>1, <1>9, <1>10, <2>1, <2>3 DEF PartsInv
<1>12. Len(<<>>) = 0 /\ <<>> \in Seq(EntryType)
  OBVIOUS
<1>13. EntriesInv' /\ DirectoryInv' /\ EntryInv'
  BY <1>1, <1>12 DEF EntriesInv, DirectoryInv, EntryInv
<1>14. WriterInv'
  <2>1. CASE size = 0
    BY <1>1, <1>3, <1>6, <1>7, <1>8, <1>9, <2>1 DEF WriterInv
  <2>2. CASE size > 0
    <3>1. AtEnd'
      BY <1>1, <1>6, <1>7, <1>8, <1>9, <2>2 DEF AtEnd
    <3> QED
      BY <1>1, <1>3, <1>6, <1>7, <1>8, <1>9, <2>2, <3>1 DEF WriterInv
  <2> QED
    BY <1>3, <2>1, <2>2
<1>15. FilledInv'
  <2>1. ASSUME size > 0
        PROVE  \A n \in DOMAIN files' : n = 0 /\ Len(files'[n]) = k
    BY <1>6, <1>9, <2>1
  <2> QED
    BY <1>1, <1>6, <1>7, <1>8, <1>9, <1>10, <2>1 DEF FilledInv
<1>16. /\ split' \in SplitType /\ entries' \in Seq(EntryType) /\ withCd' \in Nat /\ cdAt' \in Nat
       /\ diskSize' \in Nat /\ lost' \in BOOLEAN /\ writers' \in Nat /\ writers' > 0
       /\ call' = "none" /\ todo' \in Seq(Stored) /\ err' = "ok" /\ Held(files')
  <2>1. split' \in SplitType /\ Held(files') /\ err' = "ok"
    BY <1>7, <1>8, <1>9
  <2>2. entries' \in Seq(EntryType)
    BY <1>1, <1>12
  <2>3. withCd' \in Nat /\ cdAt' \in Nat /\ diskSize' \in Nat /\ writers' \in Nat /\ writers' > 0
    BY <1>1, <1>3
  <2>4. lost' \in BOOLEAN /\ call' = "none" /\ todo' \in Seq(Stored)
    BY <1>1, <1>3
  <2> QED
    BY <2>1, <2>2, <2>3, <2>4
<1> QED
  BY <1>1, <1>3, <1>11, <1>13, <1>14, <1>15, <1>16, WriterKeeps

\* Only the file with the directory changes, or nothing.
LEMMA OutsideParts ==
  ASSUME SplitInv, phase \in {"writing", "directory"}, diskSize > 0,
         NEW o \in Seq(Stored), NEW i \in 1..Len(entries)
  PROVE  Placed(WithPart(files, Cd, o), diskSize, Top, entries[i])
<1> DEFINE g == WithPart(files, Cd, o)
           e == entries[i]
<1>1. /\ Held(files) /\ \A n \in DOMAIN files : files[n] \in Seq(Stored) /\ Len(files[n]) \in Nat
      /\ e \in EntryType /\ Placed(files, diskSize, Top, e) /\ diskSize \in Nat /\ Top \in Int
  BY WritingFacts
<1>2. /\ DOMAIN g = DOMAIN files \cup {Cd} /\ \A n \in DOMAIN files : n # Cd => g[n] = files[n]
  <2>1. Cd \in Int
    BY DEF Cd
  <2>2. PartIsSet(g, files, Cd, o)
    BY <1>1, <2>1, HeldWith
  <2> QED
    BY <2>2 DEF PartIsSet
<1>3. Cd \notin Parts(diskSize, Top)
  BY DEF Parts, Cd
<1> HIDE DEF g, e
<1>4. \A n \in Parts(diskSize, Top) : n \in DOMAIN g => n \in DOMAIN files /\ g[n] = files[n]
  BY <1>2, <1>3
<1>5. \A n \in Parts(diskSize, Top) : n \in DOMAIN g =>
        /\ n \in DOMAIN files /\ Len(files[n]) \in Nat /\ Len(g[n]) \in Nat /\ Len(files[n]) <= Len(g[n])
        /\ n >= 0 /\ n < Top => Len(g[n]) = Len(files[n])
  BY <1>1, <1>4
<1>6. \A j \in 1..Len(e.data) : e.cells[j][1] \in Parts(diskSize, Top)
  BY <1>1 DEF Placed, Keeps
<1>7. \A j \in 1..Len(e.data) :
        e.cells[j][1] \in DOMAIN g => g[e.cells[j][1]][e.cells[j][2]] = files[e.cells[j][1]][e.cells[j][2]]
  BY <1>4, <1>6
<1>8. Placed(g, diskSize, Top, e)
  BY <1>1, <1>5, <1>7, PlacedFrame, Top <= Top
<1> QED
  BY <1>8 DEF g, e

LEMMA DirectoryOpenKeeps ==
  ASSUME SplitInv, DirectoryOpen
  PROVE  SplitInv'
<1> DEFINE s == [split EXCEPT !.number = Cd]
           r == GotoDisk(files, s, Cd)
           with == split.number + (IF split.diskSize > 0 THEN 1 ELSE 0)
           at == IF with > 0 /\ split.mode = "append" THEN SeekSet(r, 0) ELSE r
<1>1. /\ phase = "writing" /\ call = "none"
      /\ Result(at) /\ withCd' = with /\ cdAt' = at.s.pos /\ phase' = "directory"
      /\ call' = "write" /\ todo' = <<Dir>>
      /\ UNCHANGED <<left, got, entries, diskSize, lost, writers, cursor, origin>>
  BY DEF DirectoryOpen, Located, DirectoryPart
<1>2. /\ split \in SplitType /\ split.diskSize = diskSize /\ split.mode \in {"create", "append"}
      /\ writers > 0 /\ writers \in Nat /\ diskSize \in Nat /\ Top \in Int /\ ~lost /\ cursor[1] = 0
      /\ Held(files) /\ \A n \in DOMAIN files : files[n] \in Seq(Stored) /\ Len(files[n]) \in Nat
      /\ PartsInv /\ Parts(diskSize, Top) \subseteq DOMAIN files
      /\ DOMAIN files \subseteq {Cd} \cup Parts(diskSize, Top)
      /\ entries \in Seq(EntryType) /\ Len(entries) \in Nat
  BY <1>1, WritingFacts
<1>3. WriterInv /\ EntriesInv /\ FilledInv
  BY DEF SplitInv
<1>4. Writing /\ ~Writing' /\ Top = split.number /\ Mark = split.pos
  BY <1>1 DEF Writing, Top, Mark
<1>5. s \in SplitType /\ s.mode = split.mode /\ s.diskSize = diskSize /\ s.number = Cd
      /\ s.base = split.base /\ s.current = split.current /\ s.pos = split.pos /\ s.outDisk = split.outDisk
  BY <1>2 DEF SplitType, Cd
<1>6. CASE diskSize = 0
  <2>1. split.number = 0 /\ split.base = Cd /\ split.pos <= Len(files[Cd]) /\ with = 0 /\ split.pos \in Nat
    BY <1>2, <1>3, <1>4, <1>6 DEF WriterInv, SplitType
  <2> HIDE DEF s
  <2>2. r = [f |-> files, s |-> s, err |-> "ok"]
    BY <1>2, <1>5, <1>6, <2>1, GotoSame DEF Cd, Closed
  <2>3. files' = files /\ split' = s /\ err' = "ok" /\ withCd' = 0 /\ cdAt' = split.pos
    BY <1>1, <1>5, <2>1, <2>2 DEF Result
  <2>4. Top' = -1 /\ Mark' = split.pos
    BY <1>4, <2>3 DEF Top, Mark
  <2>5. PartsInv'
    BY <1>1, <1>2, <1>4, <1>6, <2>1, <2>3 DEF PartsInv, Parts
  <2>6. EntriesInv'
    <3>1. ASSUME NEW i \in 1..Len(entries)
          PROVE  Placed(files, diskSize, -1, entries[i]) /\ UpTo(split.pos, entries[i])
      <4>1. Placed(files, diskSize, Top, entries[i]) /\ UpTo(split.pos, entries[i]) /\ entries[i] \in EntryType
        BY <1>1, <1>4, <1>6, WritingFacts
      <4> QED
        BY <1>2, <1>6, <4>1, PlacedSame
    <3> QED
      BY <1>1, <2>3, <2>4, <3>1, Zenon DEF EntriesInv
  <2>7. DirectoryInv'
    BY <1>1, <1>2, <1>5, <1>6, <2>1, <2>3 DEF DirectoryInv
  <2>8. WriterInv' /\ EntryInv' /\ FilledInv'
    BY <1>1, <1>4, <1>6 DEF WriterInv, EntryInv, FilledInv
  <2>9. <<Dir>> \in Seq(Stored)
    BY DEF Stored
  <2> QED
    BY <1>1, <1>2, <1>5, <2>1, <2>3, <2>5, <2>6, <2>7, <2>8, <2>9, WriterKeeps DEF SplitInv, TypeInv
<1>7. CASE diskSize > 0
  <2>1. /\ split.number >= 0 /\ split.number \in Nat /\ with = split.number + 1 /\ with \in Nat /\ with > 0
        /\ split.mode = "append" => Cd \in DOMAIN files
        /\ split.current = Cd /\ split.base # Closed =>
             split.mode = "append" /\ split.base = Cd /\ Cd \in DOMAIN files /\ split.outDisk = 0
    BY <1>2, <1>3, <1>4, <1>7 DEF WriterInv, SplitType, AtEnd, AtDirectory, Cd
  <2>2. \E o \in Seq(Stored), t \in SplitType :
          /\ files' = WithPart(files, Cd, o) /\ split' = t /\ err' = "ok" /\ cdAt' = 0
          /\ t.mode = split.mode /\ t.diskSize = diskSize /\ t.number = Cd /\ t.base = Cd /\ t.current = Cd
          /\ t.pos = 0 /\ t.outDisk = 0
    <3> HIDE DEF s, with
    <3>1. CASE split.current = Cd /\ split.base # Closed
      <4> DEFINE t == [s EXCEPT !.pos = 0]
      <4>1. r = [f |-> files, s |-> s, err |-> "ok"]
        BY <1>5, <3>1, GotoSame
      <4>2. at.f = files /\ at.s = t /\ at.err = "ok"
        BY <2>1, <3>1, <4>1 DEF SeekSet
      <4>3. t \in SplitType /\ t.mode = split.mode /\ t.diskSize = diskSize /\ t.number = Cd /\ t.base = Cd
            /\ t.current = Cd /\ t.pos = 0 /\ t.outDisk = 0
        BY <1>5, <2>1, <3>1 DEF SplitType
      <4>4. files = WithPart(files, Cd, files[Cd]) /\ files[Cd] \in Seq(Stored)
        <5>1. files = [x \in DOMAIN files |-> files[x]] /\ Cd \in DOMAIN files
          BY <1>2, <2>1, <3>1 DEF Held
        <5> QED
          BY <1>2, <5>1, WithSamePart
      <4> HIDE DEF t, at
      <4> QED
        BY <1>1, <4>2, <4>3, <4>4 DEF Result
    <3>2. CASE ~(split.current = Cd /\ split.base # Closed)
      <4>1. \E o \in Seq(Stored), p \in Nat, q \in Nat :
              r = [f |-> WithPart(files, Cd, o), s |-> InPart(s, Cd, Cd, p, 0, q), err |-> "ok"]
              /\ (split.mode = "create" => p = 0)
        <5>1. CASE split.mode = "create"
          <6>1. r = [f |-> WithPart(files, Cd, <<>>), s |-> InPart(s, Cd, Cd, 0, 0, s.out), err |-> "ok"]
            BY <1>5, <1>7, <3>2, <5>1, GotoCreate DEF Cd
          <6>2. s.out \in Nat /\ <<>> \in Seq(Stored)
            BY <1>5 DEF SplitType
          <6> QED
            BY <5>1, <6>1, <6>2
        <5>2. CASE split.mode = "append"
          <6> DEFINE new == Opening(Cd, files[Cd])
          <6>1. r = [f |-> WithPart(files, Cd, new), s |-> InPart(s, Cd, Cd, Len(new), Put(Cd), s.out + Put(Cd)),
                     err |-> "ok"]
            BY <1>5, <1>7, <2>1, <3>2, <5>2, GotoAppend DEF Cd
          <6>2. new = files[Cd] /\ Put(Cd) = 0
            BY DEF Opening, Put, Cd
          <6>3. s.out + 0 \in Nat /\ files[Cd] \in Seq(Stored) /\ Len(files[Cd]) \in Nat
            BY <1>2, <1>5, <2>1, <5>2 DEF SplitType
          <6> HIDE DEF new, r
          <6> QED
            BY <5>2, <6>1, <6>2, <6>3
        <5> QED
          BY <1>2, <5>1, <5>2
      <4>2. PICK o \in Seq(Stored), p \in Nat, q \in Nat :
              r = [f |-> WithPart(files, Cd, o), s |-> InPart(s, Cd, Cd, p, 0, q), err |-> "ok"]
              /\ (split.mode = "create" => p = 0)
        BY <4>1
      <4> DEFINE t == InPart(s, Cd, Cd, 0, 0, q)
      <4> HIDE DEF r
      <4>3. at.f = WithPart(files, Cd, o) /\ at.err = "ok" /\ at.s = t
        <5>1. CASE split.mode = "append"
          <6>1. [InPart(s, Cd, Cd, p, 0, q) EXCEPT !.pos = 0] = t
            BY DEF InPart
          <6> QED
            BY <2>1, <4>2, <5>1, <6>1 DEF SeekSet
        <5>2. CASE split.mode = "create"
          BY <4>2, <5>2
        <5> QED
          BY <1>2, <5>1, <5>2
      <4>4. t \in SplitType
        BY <1>5 DEF SplitType, InPart, Cd
      <4>5. t.mode = s.mode /\ t.diskSize = s.diskSize
        BY DEF InPart
      <4>6. t.number = Cd /\ t.base = Cd /\ t.current = Cd
        BY DEF InPart
      <4>7. t.pos = 0 /\ t.outDisk = 0
        BY DEF InPart
      <4> HIDE DEF t, at
      <4> QED
        BY <1>1, <1>5, <4>2, <4>3, <4>4, <4>5, <4>6, <4>7 DEF Result
    <3> QED
      BY <3>1, <3>2
  <2>3. PICK o \in Seq(Stored), t \in SplitType :
          /\ files' = WithPart(files, Cd, o) /\ split' = t /\ err' = "ok" /\ cdAt' = 0
          /\ t.mode = split.mode /\ t.diskSize = diskSize /\ t.number = Cd /\ t.base = Cd /\ t.current = Cd
          /\ t.pos = 0 /\ t.outDisk = 0
    BY <2>2
  <2> HIDE DEF with, at
  <2>4. withCd' = with /\ Top' = Top /\ Mark' = 0
    BY <1>1, <1>2, <1>4, <2>1, <2>3 DEF Top, Mark
  <2>5. Held(files') /\ DOMAIN files' = DOMAIN files \cup {Cd} /\ files'[Cd] = o
        /\ (\A n \in DOMAIN files : n # Cd => files'[n] = files[n])
    <3>1. Cd \in Int
      BY DEF Cd
    <3>2. PartIsSet(files', files, Cd, o)
      BY <1>2, <2>3, <3>1, HeldWith
    <3> QED
      BY <3>2 DEF PartIsSet
  <2>6. Len(o) \in Nat
    BY LenProperties
  <2>7. PartsInv'
    <3>1. 0 \in DOMAIN files' => 0 \in DOMAIN files /\ files'[0] = files[0]
      BY <2>5 DEF Cd
    <3>2. DOMAIN files' \subseteq {Cd} \cup Parts(diskSize, Top)
      BY <1>2, <2>5
    <3> QED
      BY <1>1, <1>2, <1>4, <1>7, <2>1, <2>3, <2>4, <2>5, <2>6, <3>1, <3>2 DEF PartsInv
  <2>8. EntriesInv'
    <3>1. \A i \in 1..Len(entries) : Placed(files', diskSize, Top, entries[i])
      BY <1>1, <1>7, <2>3, OutsideParts
    <3> QED
      BY <1>1, <1>7, <2>4, <3>1 DEF EntriesInv
  <2>9. DirectoryInv'
    BY <1>1, <1>2, <2>3, <2>5, <2>6 DEF DirectoryInv
  <2>10. FilledInv'
    BY <1>1, <1>3, <1>4, <2>4, <2>5 DEF FilledInv
  <2>11. WriterInv' /\ EntryInv'
    BY <1>1, <1>4 DEF WriterInv, EntryInv
  <2>12. <<Dir>> \in Seq(Stored)
    BY DEF Stored
  <2> QED
    BY <1>1, <1>2, <2>1, <2>3, <2>4, <2>5, <2>7, <2>8, <2>9, <2>10, <2>11, <2>12, WriterKeeps DEF SplitInv, TypeInv
<1> QED
  BY <1>2, <1>6, <1>7

-----------------------------------------------------------------------------
(* Beginning an entry *)

\* A part that grows, the last one or one outside of the entry's, leaves entry e where it is.
LEMMA GrowFrame ==
  ASSUME NEW g, Held(g), NEW d \in Nat, NEW top \in Int, NEW e \in EntryType, Placed(g, d, top, e),
         NEW b, b \in DOMAIN g, b \in Parts(d, top) /\ d > 0 => b = top,
         NEW o \in Seq(Stored), NEW h, PartIsSet(h, g, b, o), Len(g[b]) <= Len(o),
         \A j \in 1..Len(e.data) : e.cells[j][1] = b => o[e.cells[j][2]] = g[b][e.cells[j][2]]
  PROVE  Placed(h, d, top, e)
<1>1. /\ DOMAIN h = DOMAIN g /\ h[b] = o /\ \A n \in DOMAIN g : n # b => h[n] = g[n]
  BY DEF PartIsSet
<1>2. \A n \in DOMAIN g : Len(g[n]) \in Nat
  BY LenProperties DEF Held
<1>3. Len(o) \in Nat
  BY LenProperties
<1>4. ASSUME NEW n \in Parts(d, top), n \in DOMAIN h
      PROVE  /\ n \in DOMAIN g /\ Len(g[n]) \in Nat /\ Len(h[n]) \in Nat /\ Len(g[n]) <= Len(h[n])
             /\ n >= 0 /\ n < top => Len(h[n]) = Len(g[n])
  <2>1. CASE n = b
    <3>1. n >= 0 => d > 0
      BY <1>4 DEF Parts, Cd
    <3>2. ~(n >= 0 /\ n < top)
      BY <2>1, <3>1
    <3> QED
      BY <1>1, <1>2, <1>3, <1>4, <2>1, <3>2
  <2>2. CASE n # b
    BY <1>1, <1>2, <1>4, <2>2
  <2> QED
    BY <2>1, <2>2
<1>5. \A j \in 1..Len(e.data) :
        e.cells[j][1] \in DOMAIN h => h[e.cells[j][1]][e.cells[j][2]] = g[e.cells[j][1]][e.cells[j][2]]
  BY <1>1
<1> QED
  BY <1>4, <1>5, PlacedFrame, top <= top

LEMMA WriteOpenGoes ==
  ASSUME SplitInv, WriteOpen
  PROVE  \E n \in DOMAIN files, o \in Seq(Stored), t \in SplitType :
           /\ PartIsSet(files', files, n, o) /\ split' = t /\ err' = "ok" /\ phase' = "entry"
           /\ entries' = Append(entries, EntryAt(t))
           /\ Len(files[n]) <= Len(o) /\ \A i \in 1..Len(files[n]) : o[i] = files[n][i]
           /\ t.mode = split.mode /\ t.diskSize = diskSize /\ t.number = split.number /\ t.base = n
           /\ diskSize = 0 => n = Cd /\ t.pos = split.pos /\ t.pos <= Len(o)
           /\ diskSize > 0 => n = split.number /\ t.current = n /\ t.pos = Len(o) /\ t.outDisk <= diskSize
           /\ split.mode = "create" => files' = files /\ t = split
<1> DEFINE s == [split EXCEPT !.number = split.number]
           r == GotoDisk(files, s, split.number)
<1>1. /\ phase = "writing" /\ call = "none" /\ err = "ok" /\ Result(r)
      /\ entries' = IF r.err = "ok" THEN Append(entries, EntryAt(r.s)) ELSE entries
      /\ phase' = IF r.err = "ok" THEN "entry" ELSE "writing"
  BY DEF WriteOpen, Located
<1>2. /\ split \in SplitType /\ split.diskSize = diskSize /\ split.mode \in {"create", "append"}
      /\ diskSize \in Nat /\ Top \in Int
      /\ Held(files) /\ \A n \in DOMAIN files : files[n] \in Seq(Stored) /\ Len(files[n]) \in Nat
      /\ PartsInv /\ Parts(diskSize, Top) \subseteq DOMAIN files
      /\ DOMAIN files \subseteq {Cd} \cup Parts(diskSize, Top)
  BY <1>1, WritingFacts
<1>3. WriterInv /\ Writing /\ Top = split.number
  BY <1>1 DEF SplitInv, Writing, Top
<1>4. s = split
  BY <1>2 DEF SplitType
<1> HIDE DEF s
<1>5. CASE diskSize = 0 \/ AtEnd
  <2> DEFINE n == split.base
  <2>1. /\ n # Closed /\ (diskSize > 0 => n = split.number /\ split.current = n /\ split.pos = Len(files[n]) /\ split.outDisk <= diskSize)
        /\ (diskSize = 0 => n = Cd /\ split.pos <= Len(files[n])) /\ n \in DOMAIN files
    <3>1. CASE diskSize = 0
      BY <1>2, <1>3, <3>1 DEF WriterInv, Closed, Cd, Parts
    <3>2. CASE diskSize > 0
      <4>1. AtEnd /\ split.number >= 0 /\ split.number \in 0..Top
        BY <1>2, <1>3, <1>5, <3>2 DEF WriterInv
      <4>2. split.number \in DOMAIN files
        BY <1>2, <3>2, <4>1 DEF Parts
      <4> QED
        BY <3>2, <4>1, <4>2 DEF AtEnd, Closed
    <3> QED
      BY <1>2, <3>1, <3>2
  <2>2. r = [f |-> files, s |-> split, err |-> "ok"]
    BY <1>2, <1>4, <2>1, GotoSame
  <2>3. files' = files /\ split' = split /\ err' = "ok" /\ phase' = "entry" /\ entries' = Append(entries, EntryAt(split))
    BY <1>1, <2>2 DEF Result
  <2>4. PartIsSet(files, files, n, files[n])
    <3>1. files \in [DOMAIN files -> Seq(Stored)]
      BY <1>2 DEF Held
    <3>2. [files EXCEPT ![n] = files[n]] = files
      BY <2>1, <3>1
    <3> QED
      BY <1>2, <2>1, <3>2 DEF PartIsSet
  <2> HIDE DEF n
  <2>5. Len(files[n]) <= Len(files[n]) /\ files[n] \in Seq(Stored)
    BY <1>2, <2>1
  <2>6. n = split.base
    BY DEF n
  <2> QED
    BY <1>2, <2>1, <2>3, <2>4, <2>5, <2>6
<1>6. CASE diskSize > 0 /\ ~AtEnd
  <2> DEFINE n == split.number
             new == Opening(n, files[n])
             t == InPart(split, n, n, Len(new), Put(n), split.out + Put(n))
  <2>1. split.mode = "append" /\ n >= 0 /\ n \in Int /\ n # split.current /\ n \in DOMAIN files
    <3>1. split.number >= 0 /\ AtDirectory
      BY <1>1, <1>3, <1>6 DEF WriterInv
    <3>2. n \in Int /\ n \in 0..Top
      BY <1>2, <1>3, <3>1
    <3>3. n \in DOMAIN files
      BY <1>2, <1>6, <3>2 DEF Parts
    <3> QED
      BY <3>1, <3>2, <3>3 DEF AtDirectory, Cd
  <2>2. r = [f |-> WithPart(files, n, new), s |-> t, err |-> "ok"]
    BY <1>2, <1>4, <1>6, <2>1, GotoAppend
  <2>3. /\ new \in Seq(Stored) /\ Len(new) \in Nat /\ Len(files[n]) <= Len(new)
        /\ \A i \in 1..Len(files[n]) : new[i] = files[n][i]
    <3> DEFINE old == files[n]
    <3>1. old \in Seq(Stored) /\ Len(old) \in Nat /\ DiskHeader \in Stored
      BY <1>2, <2>1 DEF Stored
    <3> HIDE DEF old
    <3>2. /\ Append(old, DiskHeader) \in Seq(Stored) /\ Len(Append(old, DiskHeader)) = Len(old) + 1
          /\ \A i \in 1..Len(old) : Append(old, DiskHeader)[i] = old[i]
      BY <3>1, AppendProperties
    <3> QED
      BY <3>1, <3>2 DEF Opening, old
  <2> HIDE DEF new, r
  <2>4. t \in SplitType
    BY <1>2, <2>1, <2>3 DEF SplitType, InPart, Put
  <2>5. t.mode = split.mode /\ t.diskSize = split.diskSize
    BY DEF InPart
  <2>6. t.number = n /\ t.base = n /\ t.current = n
    BY DEF InPart
  <2>7. t.pos = Len(new) /\ t.outDisk = Put(n)
    BY DEF InPart
  <2> HIDE DEF t
  <2>8. files' = WithPart(files, n, new) /\ split' = t /\ err' = "ok" /\ phase' = "entry"
        /\ entries' = Append(entries, EntryAt(t))
    BY <1>1, <2>2 DEF Result
  <2>9. PartIsSet(files', files, n, new)
    BY <1>2, <2>1, <2>3, <2>8, HeldWith
  <2>10. Put(n) <= diskSize
    BY <1>2, <1>6 DEF Put
  <2> HIDE DEF n
  <2>11. n = split.number
    BY DEF n
  <2> QED
    BY <1>2, <1>6, <2>1, <2>3, <2>4, <2>5, <2>6, <2>7, <2>8, <2>9, <2>10, <2>11
<1> QED
  BY <1>2, <1>5, <1>6

\* What lies in the parts does not lie behind the end of the last one.
LEMMA BeforeEnd ==
  ASSUME NEW f, NEW d \in Nat, NEW top \in Int, NEW e \in EntryType, Placed(f, d, top, e),
         NEW b, b \in DOMAIN f, NEW p \in Nat,
         d = 0 => b = Cd /\ UpTo(p, e),
         d > 0 => b = top /\ p = Len(f[b]),
         NEW j \in 1..Len(e.data)
  PROVE  Precedes(e.cells[j], <<b, p>>)
<1>1. Keeps(f, d, top, e.cells[j], e.data[j]) /\ e.cells[j][1] \in Int
  BY EntryTypes DEF Placed
<1>2. CASE d = 0
  BY <1>1, <1>2 DEF Keeps, Parts, UpTo, Precedes
<1>3. CASE d > 0
  BY <1>1, <1>3 DEF Keeps, Parts, Precedes
<1> QED
  BY <1>2, <1>3

LEMMA WriteOpenKeeps ==
  ASSUME SplitInv, WriteOpen
  PROVE  SplitInv'
<1>1. /\ phase = "writing" /\ call = "none" /\ err = "ok"
      /\ UNCHANGED <<call, left, todo, got, withCd, cdAt, diskSize, lost, writers, cursor, origin>>
  BY DEF WriteOpen
<1>2. /\ split \in SplitType /\ split.diskSize = diskSize /\ split.mode \in {"create", "append"}
      /\ writers > 0 /\ writers \in Nat /\ diskSize \in Nat /\ Top \in Int /\ ~lost /\ cursor[1] = 0
      /\ Held(files) /\ \A n \in DOMAIN files : files[n] \in Seq(Stored) /\ Len(files[n]) \in Nat
      /\ PartsInv /\ Parts(diskSize, Top) \subseteq DOMAIN files
      /\ DOMAIN files \subseteq {Cd} \cup Parts(diskSize, Top)
      /\ entries \in Seq(EntryType) /\ Len(entries) \in Nat
      /\ \A i \in 1..Len(entries) : /\ entries[i] \in EntryType
                                    /\ Placed(files, diskSize, Top, entries[i])
                                    /\ diskSize = 0 => UpTo(Mark, entries[i])
  BY <1>1, WritingFacts
<1>3. WriterInv /\ FilledInv /\ Writing /\ Top = split.number /\ Mark = split.pos
  BY <1>1 DEF SplitInv, Writing, Top, Mark
<1>4. PICK n \in DOMAIN files, o \in Seq(Stored), t \in SplitType :
           /\ PartIsSet(files', files, n, o) /\ split' = t /\ err' = "ok" /\ phase' = "entry"
           /\ entries' = Append(entries, EntryAt(t))
           /\ Len(files[n]) <= Len(o) /\ \A i \in 1..Len(files[n]) : o[i] = files[n][i]
           /\ t.mode = split.mode /\ t.diskSize = diskSize /\ t.number = split.number /\ t.base = n
           /\ diskSize = 0 => n = Cd /\ t.pos = split.pos /\ t.pos <= Len(o)
           /\ diskSize > 0 => n = split.number /\ t.current = n /\ t.pos = Len(o) /\ t.outDisk <= diskSize
           /\ split.mode = "create" => files' = files /\ t = split
  BY WriteOpenGoes, Zenon
<1> DEFINE e == EntryAt(t)
           m == Len(entries)
<1>5. /\ Held(files') /\ DOMAIN files' = DOMAIN files /\ files'[n] = o
      /\ \A k \in DOMAIN files : k # n => files'[k] = files[k]
  BY <1>4 DEF PartIsSet
<1>6. n \in Int /\ t.pos \in Nat /\ t.number \in Int /\ Len(o) \in Nat /\ Len(files[n]) \in Nat /\ t.pos <= Len(o)
  BY <1>2, <1>4, LenProperties DEF Held, SplitType
<1>7. diskSize > 0 => split.number >= 0 /\ n >= 0
  BY <1>3, <1>4 DEF WriterInv
<1>8. diskSize = 0 => t.number = 0 /\ n = Cd
  BY <1>3, <1>4 DEF WriterInv
<1>9. Writing' /\ Top' = Top /\ Mark' = t.pos
  BY <1>3, <1>4 DEF Writing, Top, Mark
<1>10. e \in EntryType /\ e.data = <<>> /\ Len(e.data) = 0 /\ e.cells = <<>> /\ e.disk = t.number /\ e.offset = t.pos
  <2>1. e = [data |-> <<>>, cells |-> <<>>, disk |-> t.number, offset |-> t.pos]
    BY DEF EntryAt
  <2>2. t.number \in Nat
    BY <1>2, <1>4, <1>6, <1>7, <1>8
  <2> HIDE DEF e
  <2>3. e.data = <<>> /\ e.cells = <<>> /\ e.disk = t.number /\ e.offset = t.pos
    BY <2>1
  <2>4. e \in EntryType
    BY <1>6, <2>1, <2>2 DEF EntryType
  <2> QED
    BY <2>3, <2>4
<1>11. entries' \in Seq(EntryType) /\ Len(entries') = m + 1 /\ entries'[m + 1] = e
       /\ \A i \in 1..m : entries'[i] = entries[i]
  <2> HIDE DEF e
  <2>1. entries' = Append(entries, e)
    BY <1>4 DEF e
  <2> QED
    BY <1>2, <1>10, <2>1, AppendProperties
<1>12. PartOf(diskSize, e) = n /\ StartOf(diskSize, e) = <<n, t.pos>>
  BY <1>2, <1>4, <1>8, <1>10 DEF PartOf, StartOf
<1> HIDE DEF e, m
<1>120. m = Len(entries) /\ m \in Nat
  BY <1>2 DEF m
<1>13. PartsInv'
  <2>1. 0 \in DOMAIN files => files'[0] # <<>> /\ files'[0][1] = DiskHeader
    <3> SUFFICES ASSUME 0 \in DOMAIN files PROVE files'[0] # <<>> /\ files'[0][1] = DiskHeader
      OBVIOUS
    <3>1. files[0] # <<>> /\ files[0][1] = DiskHeader
      BY <1>2 DEF PartsInv
    <3>2. CASE n = 0
      <4>1. Len(files[0]) # 0
        BY <1>2, <3>1, <3>2, EmptySeq
      <4>2. 1 \in 1..Len(files[n]) /\ Len(o) # 0
        BY <1>4, <1>6, <3>2, <4>1
      <4>3. o[1] = DiskHeader /\ o # <<>>
        BY <1>4, <3>1, <3>2, <4>2
      <4> QED
        BY <1>5, <3>2, <4>3
    <3>3. CASE n # 0
      BY <1>5, <3>1, <3>3
    <3> QED
      BY <3>2, <3>3
  <2> QED
    BY <1>1, <1>2, <1>5, <1>9, <2>1 DEF PartsInv
<1>14. ASSUME NEW i \in 1..m
       PROVE  Placed(files', diskSize, Top, entries[i]) /\ entries[i] \in EntryType
              /\ (diskSize = 0 => UpTo(t.pos, entries[i]))
  <2>1. Placed(files, diskSize, Top, entries[i]) /\ entries[i] \in EntryType /\ (diskSize = 0 => UpTo(t.pos, entries[i]))
    BY <1>2, <1>3, <1>4, <1>120
  <2> DEFINE x == entries[i]
             g == files'
  <2> HIDE DEF x, g
  <2>2. \A j \in 1..Len(x.data) : x.cells[j][1] = n => o[x.cells[j][2]] = files[n][x.cells[j][2]]
    <3> SUFFICES ASSUME NEW j \in 1..Len(x.data), x.cells[j][1] = n
                 PROVE  o[x.cells[j][2]] = files[n][x.cells[j][2]]
      OBVIOUS
    <3> DEFINE q == x.cells[j][2]
    <3>1. Keeps(files, diskSize, Top, x.cells[j], x.data[j]) /\ q \in Nat
      BY <2>1, EntryTypes DEF x, Placed
    <3>2. q >= 1 /\ q <= Len(files[n])
      BY <3>1 DEF Keeps
    <3> HIDE DEF q
    <3>3. q \in 1..Len(files[n])
      BY <1>6, <3>1, <3>2
    <3>4. o[q] = files[n][q]
      BY <1>4, <3>3
    <3> QED
      BY <3>4 DEF q
  <2>3. n \in Parts(diskSize, Top) /\ diskSize > 0 => n = Top
    BY <1>3, <1>4
  <2>4. PartIsSet(g, files, n, o) /\ Len(files[n]) <= Len(o)
    BY <1>4 DEF g
  <2>5. Placed(files, diskSize, Top, x) /\ x \in EntryType
    BY <2>1 DEF x
  <2>6. Placed(g, diskSize, Top, x)
    BY <1>2, <2>2, <2>3, <2>4, <2>5, GrowFrame
  <2> QED
    BY <2>1, <2>6 DEF g, x
<1>15. Placed(files', diskSize, Top, e) /\ (diskSize = 0 => UpTo(t.pos, e))
  <2>1. BeginsIn(files', diskSize, Top, e)
    <3>1. n \in Parts(diskSize, Top)
      BY <1>2, <1>3, <1>4, <1>7, <1>8 DEF Parts
    <3>2. t.pos <= Len(files'[n])
      BY <1>5, <1>6
    <3>3. n = 0 => t.pos >= 1
      <4> SUFFICES ASSUME n = 0 PROVE t.pos >= 1
        OBVIOUS
      <4>1. diskSize > 0
        BY <1>2, <1>8 DEF Cd
      <4>2. files[0] # <<>>
        BY <1>2, <1>4 DEF PartsInv
      <4>3. Len(files[n]) # 0
        BY <1>2, <4>2, EmptySeq
      <4> QED
        BY <1>4, <1>6, <4>1, <4>3
    <3>4. diskSize = 0 => e.disk = 0
      BY <1>8, <1>10
    <3> QED
      BY <1>10, <1>12, <3>1, <3>2, <3>3, <3>4 DEF BeginsIn
  <2>2. Len(e.cells) = Len(e.data)
    BY <1>10
  <2>3. \A j \in 1..Len(e.data) : FALSE
    BY <1>10
  <2>4. \A j \in 0..(Len(e.data) - 1) : FALSE
    BY <1>10
  <2>5. Placed(files', diskSize, Top, e)
    BY <2>1, <2>2, <2>3, <2>4 DEF Placed
  <2>6. UpTo(t.pos, e)
    BY <1>6, <1>10, <2>3 DEF UpTo
  <2> QED
    BY <2>5, <2>6
<1>16. EntriesInv'
  <2>1. ASSUME NEW i \in 1..(m + 1)
        PROVE  Placed(files', diskSize, Top, entries'[i]) /\ (diskSize = 0 => UpTo(t.pos, entries'[i]))
    <3>1. CASE i = m + 1
      BY <1>11, <1>15, <3>1
    <3>2. CASE i # m + 1
      <4>1. i \in 1..m
        BY <1>120, <2>1, <3>2
      <4> QED
        BY <1>11, <1>14, <4>1
    <3> QED
      BY <3>1, <3>2
  <2> QED
    BY <1>1, <1>9, <1>11, <2>1, Zenon DEF EntriesInv
<1>17. WriterInv'
  <2>1. split.mode = "append" => Cd \in DOMAIN files'
    BY <1>3, <1>5 DEF WriterInv
  <2>2. CASE diskSize = 0
    BY <1>1, <1>2, <1>4, <1>5, <1>6, <1>8, <2>1, <2>2 DEF WriterInv
  <2>3. CASE diskSize > 0
    <3>1. AtEnd'
      BY <1>1, <1>4, <1>5, <2>3 DEF AtEnd
    <3> QED
      BY <1>1, <1>2, <1>4, <1>5, <1>7, <2>1, <2>3, <3>1 DEF WriterInv
  <2> QED
    BY <1>2, <2>2, <2>3
<1>18. EntryInv'
  <2>1. ASSUME NEW i \in 1..m, NEW j \in 1..Len(entries[i].data)
        PROVE  Precedes(entries[i].cells[j], <<n, t.pos>>)
    <3>1. Placed(files', diskSize, Top, entries[i]) /\ entries[i] \in EntryType
          /\ (diskSize = 0 => UpTo(t.pos, entries[i]))
      BY <1>14, <2>1
    <3> DEFINE g == files'
    <3>2. n \in DOMAIN g /\ (diskSize > 0 => n = Top /\ t.pos = Len(g[n]))
      BY <1>3, <1>4, <1>5
    <3>3. Placed(g, diskSize, Top, entries[i]) /\ (diskSize = 0 => n = Cd /\ UpTo(t.pos, entries[i]))
      BY <1>8, <3>1
    <3> HIDE DEF g
    <3> QED
      BY <1>2, <1>6, <2>1, <3>1, <3>2, <3>3, BeforeEnd
  <2>2. PlaceOf(diskSize, e, Len(e.data)) = <<n, t.pos>>
    BY <1>10, <1>12 DEF PlaceOf
  <2>3. \A j \in 2..Len(e.data) : FALSE
    BY <1>10
  <2> DEFINE N == Len(entries')
  <2>4. N > 0 /\ N - 1 = m /\ entries'[N] = e
    BY <1>11, <1>120
  <2>5. \A i \in 1..(N - 1) : \A j \in 1..Len(entries'[i].data) :
          Precedes(entries'[i].cells[j], StartOf(diskSize, e))
    <3> SUFFICES ASSUME NEW i \in 1..m, NEW j \in 1..Len(entries[i].data)
                 PROVE  Precedes(entries[i].cells[j], StartOf(diskSize, e))
      BY <1>11, <2>4
    <3> QED
      BY <1>12, <2>1
  <2>6. split'.base = n /\ split'.pos = t.pos
    BY <1>4
  <2>7. call' # "write" /\ diskSize' = diskSize
    BY <1>1
  <2> HIDE DEF N
  <2>8. N = Len(entries')
    BY DEF N
  <2> QED
    BY <2>2, <2>3, <2>4, <2>5, <2>6, <2>7, <2>8 DEF EntryInv
<1>19. DirectoryInv'
  BY <1>4 DEF DirectoryInv
<1>20. FilledInv'
  <2> SUFFICES ASSUME writers = 1, diskSize > 0
               PROVE  /\ \A k \in DOMAIN files' \ {Cd} :
                           Len(files'[k]) <= diskSize /\ (k < Top => Len(files'[k]) = diskSize)
                      /\ split'.mode = "create" /\ split'.outDisk = Len(files'[split'.number])
    BY <1>1, <1>9 DEF FilledInv
  <2>1. split.mode = "create"
    BY <1>3 DEF FilledInv
  <2>2. files' = files /\ split' = split
    BY <1>4, <2>1
  <2> QED
    BY <1>3, <2>2 DEF FilledInv
<1>21. split' \in SplitType /\ withCd' \in Nat /\ cdAt' \in Nat /\ lost' \in BOOLEAN /\ todo' \in Seq(Stored)
  BY <1>1, <1>4 DEF SplitInv, TypeInv
<1> QED
  BY <1>1, <1>2, <1>4, <1>5, <1>11, <1>13, <1>16, <1>17, <1>18, <1>19, <1>20, <1>21, WriterKeeps

-----------------------------------------------------------------------------
(* A turn of the loop of a write *)

\* A writer of an entry that stands in parts f as t says, and writes k bytes there.
Ready(f, t, k) ==
  LET d == diskSize
      e == entries[Len(entries)]
  IN /\ Held(f) /\ t \in SplitType /\ t.mode = split.mode /\ t.diskSize = d /\ k \in 0..Len(todo)
     /\ t.base \in DOMAIN f /\ t.pos <= Len(f[t.base])
     /\ DOMAIN f \subseteq {Cd} \cup Parts(d, t.number) /\ Parts(d, t.number) \subseteq DOMAIN f
     /\ 0 \in DOMAIN f => f[0] # <<>> /\ f[0][1] = DiskHeader
     /\ split.mode = "append" => Cd \in DOMAIN f
     /\ \A i \in 1..Len(entries) : Placed(f, d, t.number, entries[i])
     /\ d = 0 => t.base = Cd /\ t.number = 0 /\ t.pos = split.pos
     /\ d > 0 => /\ t.number >= 0 /\ t.base = t.number /\ t.current = t.number
                 /\ t.pos = Len(f[t.base]) /\ t.outDisk + k <= d
     /\ \/ PlaceOf(d, e, Len(e.data)) = <<t.base, t.pos>>
        \/ /\ k > 0 /\ t.pos = 0 /\ t.base - 1 >= 0
           /\ PlaceOf(d, e, Len(e.data)) = <<t.base - 1, Len(f[t.base - 1])>>
     /\ writers = 1 /\ d > 0 =>
          /\ t.mode = "create" /\ t.outDisk = Len(f[t.base])
          /\ \A n \in DOMAIN f \ {Cd} : Len(f[n]) <= d /\ (n < t.number => Len(f[n]) = d)

\* What such a write does to the parts and the entries.
HasGrown(f, t, k, x, g) ==
  LET n == Len(entries)
        e == entries[n]
        h == Grown(e, x, t)
        p == t.pos + k
    IN /\ Held(g) /\ DOMAIN g = DOMAIN f /\ p \in Nat /\ p <= Len(g[t.base])
       /\ 0 \in DOMAIN g => g[0] # <<>> /\ g[0][1] = DiskHeader
       /\ \A m \in DOMAIN f : m # t.base => g[m] = f[m]
       /\ diskSize > 0 => p = Len(g[t.base])
       /\ \A i \in 1..n : Placed(g, diskSize, t.number, entries[i]) /\ (diskSize = 0 => UpTo(p, entries[i]))
       /\ h \in EntryType /\ Placed(g, diskSize, t.number, h) /\ (diskSize = 0 => UpTo(p, h))
       /\ StartOf(diskSize, h) = StartOf(diskSize, e)
       /\ PlaceOf(diskSize, h, Len(h.data)) = <<t.base, p>>
       /\ \A j \in 2..Len(h.data) : h.cells[j] # h.cells[1]
LEMMA WriteGrows ==
  ASSUME SplitInv, phase = "entry", call = "write", NEW f, NEW t, NEW k, Ready(f, t, k),
         NEW x \in Seq(Bytes), Len(x) = k,
         NEW g, g = [f EXCEPT ![t.base] = Overlay(f[t.base], t.pos, x)]
  PROVE  HasGrown(f, t, k, x, g)
<1> DEFINE d == diskSize
           n == Len(entries)
           e == entries[n]
           h == Grown(e, x, t)
           p == t.pos
           b == t.base
           o == Overlay(f[b], p, x)
<1>1. /\ d \in Nat /\ n \in Nat /\ n > 0 /\ n \in 1..n /\ Mark = split.pos
      /\ \A i \in 1..n : entries[i] \in EntryType /\ (d = 0 => UpTo(Mark, entries[i]))
      /\ \A j \in 2..Len(e.data) : e.cells[j] # e.cells[1]
  <2>1. d \in Nat /\ n \in Nat /\ \A i \in 1..n : entries[i] \in EntryType /\ (d = 0 => UpTo(Mark, entries[i]))
    BY WritingFacts
  <2>2. n > 0 /\ \A j \in 2..Len(e.data) : e.cells[j] # e.cells[1]
    BY DEF SplitInv, EntryInv
  <2>3. Mark = split.pos
    BY DEF Mark, Writing
  <2> QED
    BY <2>1, <2>2, <2>3
<1>2. /\ Held(f) /\ t \in SplitType /\ b \in DOMAIN f /\ p <= Len(f[b])
      /\ 0 \in DOMAIN f => f[0] # <<>> /\ f[0][1] = DiskHeader
      /\ \A i \in 1..n : Placed(f, d, t.number, entries[i])
      /\ d = 0 => b = Cd /\ t.number = 0 /\ p = split.pos
      /\ d > 0 => t.number >= 0 /\ b = t.number /\ p = Len(f[b])
      /\ Parts(d, t.number) \subseteq DOMAIN f /\ k \in 0..Len(todo)
  BY DEF Ready
<1>3. /\ b \in Int /\ p \in Nat /\ t.number \in Int /\ f[b] \in Seq(Stored) /\ Len(f[b]) \in Nat /\ p \in 0..Len(f[b])
      /\ x \in Seq(Stored) /\ k \in Nat
  <2>1. b \in Int /\ f[b] \in Seq(Stored)
    BY <1>2 DEF Held
  <2>2. p \in Nat /\ t.number \in Int
    BY <1>2 DEF SplitType
  <2>3. Len(f[b]) \in Nat
    BY <2>1, LenProperties
  <2>4. x \in Seq(Stored) /\ k \in Nat
    BY LenProperties DEF Stored
  <2> QED
    BY <1>2, <2>1, <2>2, <2>3, <2>4
<1>4. /\ \/ PlaceOf(d, e, Len(e.data)) = <<b, p>>
         \/ /\ k > 0 /\ p = 0 /\ b - 1 >= 0
            /\ PlaceOf(d, e, Len(e.data)) = <<b - 1, Len(f[b - 1])>>
  BY DEF Ready
<1> HIDE DEF d, n, e, h, p, b, o
<1>5. o \in Seq(Stored) /\ Len(o) = Longer(Len(f[b]), p + k)
      /\ (\A i \in 1..k : o[p + i] = x[i])
      /\ \A i \in 1..Len(f[b]) : i <= p => o[i] = f[b][i]
  <2>1. o \in Seq(Stored) /\ Written(o, f[b], p, x)
    BY <1>3, OverlayProperties DEF o
  <2> DEFINE l == Len(f[b])
  <2>2. l \in Nat /\ p \in Nat /\ p <= l /\ k \in Nat
    BY <1>3
  <2> HIDE DEF l
  <2>3. Len(o) = Longer(l, p + k)
    BY <2>1 DEF Written, l
  <2>31. \A q \in 1..Longer(l, p + k) : o[q] = IF q \in (p + 1)..(p + k) THEN x[q - p] ELSE f[b][q]
    BY <2>1 DEF Written, l
  <2>4. ASSUME NEW i \in 1..k PROVE o[p + i] = x[i]
    <3> DEFINE q == p + i
    <3>1. q \in 1..Longer(l, p + k) /\ q \in (p + 1)..(p + k) /\ q - p = i
      BY <2>2 DEF Longer
    <3> HIDE DEF q
    <3>2. o[q] = x[i]
      BY <2>31, <3>1
    <3> QED
      BY <3>2 DEF q
  <2>5. ASSUME NEW i \in 1..l, i <= p PROVE o[i] = f[b][i]
    <3>1. i \in 1..Longer(l, p + k) /\ i \notin (p + 1)..(p + k)
      BY <2>2, <2>5 DEF Longer
    <3> QED
      BY <2>1, <3>1 DEF Written, l
  <2> QED
    BY <2>1, <2>3, <2>4, <2>5 DEF l
<1>6. Len(o) \in Nat /\ Len(f[b]) <= Len(o) /\ p + k <= Len(o) /\ p + k \in Nat /\ (p = Len(f[b]) => p + k = Len(o))
  <2> DEFINE l == Len(f[b])
  <2>1. l \in Nat /\ p \in Nat /\ p <= l /\ k \in Nat /\ Len(o) = Longer(l, p + k)
    BY <1>3, <1>5
  <2> HIDE DEF l
  <2>2. Longer(l, p + k) \in Nat /\ l <= Longer(l, p + k) /\ p + k <= Longer(l, p + k) /\ p + k \in Nat
        /\ (p = l => p + k = Longer(l, p + k))
    BY <2>1 DEF Longer
  <2> QED
    BY <2>1, <2>2 DEF l
<1>7. PartIsSet(g, f, b, o) /\ Held(g) /\ DOMAIN g = DOMAIN f /\ g[b] = o
      /\ \A m \in DOMAIN f : m # b => g[m] = f[m]
  <2>1. g = [f EXCEPT ![b] = o]
    BY DEF b, o, p
  <2>2. PartIsSet(g, f, b, o)
    BY <1>2, <1>5, <2>1, HeldExcept
  <2>3. DOMAIN f = DOMAIN f \cup {b}
    BY <1>2
  <2> QED
    BY <2>2, <2>3 DEF PartIsSet
<1>8. ASSUME NEW i \in 1..n
      PROVE  /\ entries[i] \in EntryType /\ Placed(g, d, t.number, entries[i])
             /\ d = 0 => UpTo(p, entries[i])
             /\ \A j \in 1..Len(entries[i].data) : Precedes(entries[i].cells[j], <<b, p>>)
  <2> DEFINE y == entries[i]
  <2>1. y \in EntryType /\ Placed(f, d, t.number, y) /\ (d = 0 => b = Cd /\ UpTo(p, y))
    BY <1>1, <1>2
  <2> HIDE DEF y
  <2>2. d > 0 => b = t.number /\ p = Len(f[b])
    BY <1>2
  <2>3. \A j \in 1..Len(y.data) : Precedes(y.cells[j], <<b, p>>)
    BY <1>1, <1>2, <1>3, <2>1, <2>2, BeforeEnd
  <2>4. \A j \in 1..Len(y.data) : y.cells[j][1] = b => o[y.cells[j][2]] = f[b][y.cells[j][2]]
    <3> SUFFICES ASSUME NEW j \in 1..Len(y.data), y.cells[j][1] = b
                 PROVE  o[y.cells[j][2]] = f[b][y.cells[j][2]]
      OBVIOUS
    <3> DEFINE q == y.cells[j][2]
    <3>1. Keeps(f, d, t.number, y.cells[j], y.data[j]) /\ q \in Nat
      BY <2>1, EntryTypes DEF Placed
    <3>2. q >= 1 /\ q <= Len(f[b]) /\ q <= p
      BY <1>2, <1>3, <2>3, <3>1 DEF Keeps, Precedes
    <3> HIDE DEF q
    <3>3. q \in 1..Len(f[b])
      BY <1>3, <3>1, <3>2
    <3> QED
      BY <1>5, <3>2, <3>3 DEF q
  <2>5. b \in Parts(d, t.number) /\ d > 0 => b = t.number
    BY <2>2
  <2>6. Placed(g, d, t.number, y)
    BY <1>1, <1>2, <1>3, <1>5, <1>6, <1>7, <2>1, <2>4, <2>5, GrowFrame
  <2> QED
    BY <2>1, <2>3, <2>6 DEF y
<1>9. e \in EntryType /\ Placed(g, d, t.number, e) /\ (d = 0 => UpTo(p, e))
      /\ \A j \in 1..Len(e.data) : Precedes(e.cells[j], <<b, p>>)
  BY <1>1, <1>8 DEF e
<1>10. x # <<>> => Follows(g, PlaceOf(d, e, Len(e.data)), <<b, p + 1>>)
  <2>1. CASE PlaceOf(d, e, Len(e.data)) = <<b, p>>
    BY <2>1 DEF Follows
  <2>2. CASE /\ k > 0 /\ p = 0 /\ b - 1 >= 0
             /\ PlaceOf(d, e, Len(e.data)) = <<b - 1, Len(f[b - 1])>>
    <3>1. b - 1 \in DOMAIN g => g[b - 1] = f[b - 1]
      BY <1>3, <1>7
    <3>2. (b - 1) + 1 = b /\ p + 1 = 1
      BY <1>3, <2>2
    <3> QED
      BY <2>2, <3>1, <3>2 DEF Follows
  <2> QED
    BY <1>4, <2>1, <2>2
<1>11. b \in Parts(d, t.number)
  BY <1>1, <1>2, <1>3 DEF Parts
<1>12. /\ h \in EntryType /\ Placed(g, d, t.number, h) /\ h.disk = e.disk /\ h.offset = e.offset
       /\ h.data = e.data \o x /\ Len(h.data) = Len(e.data) + k
       /\ \A j \in 1..Len(e.data) : h.cells[j] = e.cells[j]
       /\ \A i \in 1..k : h.cells[Len(e.data) + i] = <<b, p + i>>
  <2>1. Holds(g, b, p, x) /\ b \in DOMAIN g
    BY <1>2, <1>5, <1>6, <1>7 DEF Holds
  <2>2. t.base = b /\ t.pos = p
    BY DEF b, p
  <2>3. Placed(g, d, t.number, h) /\ IsGrown(h, e, x, b, p)
    <3>1. e \in EntryType /\ Placed(g, d, t.number, e) /\ h = Grown(e, x, t)
      BY <1>9 DEF h
    <3>2. d \in Nat /\ t.number \in Int /\ b \in Int /\ p \in Nat
      BY <1>1, <1>3
    <3> QED
      BY <1>10, <1>11, <2>1, <2>2, <3>1, <3>2, GrownPlaced
  <2> QED
    BY <2>3 DEF IsGrown
<1>13. Len(e.data) \in Nat /\ Len(h.data) \in Nat
  BY <1>9, <1>12, EntryTypes
<1>14. d = 0 => UpTo(p + k, h) /\ \A i \in 1..n : UpTo(p + k, entries[i])
  <2> SUFFICES ASSUME d = 0 PROVE UpTo(p + k, h) /\ \A i \in 1..n : UpTo(p + k, entries[i])
    OBVIOUS
  <2>1. ASSUME NEW y \in EntryType, UpTo(p, y), Len(y.cells) = Len(y.data) PROVE UpTo(p + k, y)
    <3>1. y.offset \in Nat /\ \A j \in 1..Len(y.data) : y.cells[j][2] \in Nat
      BY <2>1, EntryTypes
    <3> QED
      BY <1>3, <2>1, <3>1 DEF UpTo
  <2>2. ASSUME NEW i \in 1..n PROVE UpTo(p + k, entries[i])
    <3>1. entries[i] \in EntryType /\ UpTo(p, entries[i]) /\ Len(entries[i].cells) = Len(entries[i].data)
      BY <1>8 DEF Placed
    <3> QED
      BY <2>1, <3>1
  <2>3. UpTo(p + k, e)
    BY <1>1, <2>2 DEF e
  <2>4. ASSUME NEW j \in 1..Len(h.data) PROVE h.cells[j][2] <= p + k
    <3>1. CASE j <= Len(e.data)
      <4>1. j \in 1..Len(e.data)
        BY <1>13, <2>4, <3>1
      <4> QED
        BY <1>12, <2>3, <4>1 DEF UpTo
    <3>2. CASE j > Len(e.data)
      <4> DEFINE i == j - Len(e.data)
                 l == Len(e.data)
      <4>1. i \in 1..k /\ l + i = j
        BY <1>3, <1>12, <1>13, <2>4, <3>2
      <4>2. h.cells[l + i] = <<b, p + i>>
        BY <1>12, <4>1
      <4>3. p + i <= p + k
        <5>1. i \in Nat /\ i <= k /\ p \in Nat /\ k \in Nat
          BY <1>3, <4>1
        <5> HIDE DEF i
        <5> QED
          BY <5>1
      <4> HIDE DEF i, l
      <4> QED
        BY <4>1, <4>2, <4>3
    <3> QED
      BY <1>13, <2>4, <3>1, <3>2
  <2> QED
    BY <1>12, <2>2, <2>3, <2>4 DEF UpTo
<1>15. PlaceOf(d, h, Len(h.data)) = <<b, p + k>>
  <2>1. CASE k = 0
    <3>1. PlaceOf(d, e, Len(e.data)) = <<b, p>> /\ Len(h.data) = Len(e.data) /\ p + k = p
      BY <1>3, <1>4, <1>12, <1>13, <2>1
    <3>2. PlaceOf(d, h, Len(h.data)) = PlaceOf(d, e, Len(e.data))
      BY <1>12, <1>13, <3>1 DEF PlaceOf, StartOf, PartOf
    <3> QED
      BY <3>1, <3>2
  <2>2. CASE k # 0
    <3>1. k \in 1..k /\ Len(e.data) + k # 0
      BY <1>3, <1>13, <2>2
    <3> QED
      BY <1>12, <3>1 DEF PlaceOf
  <2> QED
    BY <2>1, <2>2
<1>16. ASSUME NEW j \in 2..Len(h.data) PROVE h.cells[j] # h.cells[1]
  <2> DEFINE l == Len(e.data)
  <2>1. l \in Nat /\ Len(h.data) = l + k /\ j \in Nat
    BY <1>12, <1>13
  <2> HIDE DEF l
  <2>2. CASE l = 0
    <3>1. j \in 1..k /\ 1 \in 1..k /\ l + j = j /\ l + 1 = 1
      BY <1>3, <1>16, <2>1, <2>2
    <3>2. h.cells[j] = <<b, p + j>> /\ h.cells[1] = <<b, p + 1>>
      <4>1. h.cells[l + j] = <<b, p + j>> /\ h.cells[l + 1] = <<b, p + 1>>
        BY <1>12, <3>1 DEF l
      <4> QED
        BY <3>1, <4>1
    <3>3. p + j # p + 1
      BY <1>3, <1>16
    <3> QED
      BY <3>2, <3>3
  <2>3. CASE l > 0 /\ j <= l
    <3>1. j \in 2..l /\ j \in 1..l /\ 1 \in 1..l
      BY <1>16, <2>1, <2>3
    <3>2. e.cells[j] # e.cells[1] /\ h.cells[j] = e.cells[j] /\ h.cells[1] = e.cells[1]
      BY <1>1, <1>12, <3>1 DEF l
    <3> QED
      BY <3>2
  <2>4. CASE l > 0 /\ j > l
    <3> DEFINE i == j - l
    <3>1. i \in 1..k /\ l + i = j /\ 1 \in 1..l
      BY <1>3, <1>16, <2>1, <2>4
    <3>2. h.cells[j] = <<b, p + i>> /\ h.cells[1] = e.cells[1]
      BY <1>12, <3>1 DEF l
    <3>3. Precedes(e.cells[1], <<b, p>>)
      BY <1>9, <3>1 DEF l
    <3>4. e.cells[1] # <<b, p + i>>
      <4>1. i \in Nat /\ i >= 1
        BY <1>3, <3>1
      <4> HIDE DEF i
      <4>2. ~(p + i <= p)
        BY <1>3, <4>1
      <4> QED
        BY <1>3, <3>3, <4>2 DEF Precedes
    <3> QED
      BY <3>2, <3>4
  <2> QED
    BY <2>1, <2>2, <2>3, <2>4
<1>17. 0 \in DOMAIN g => g[0] # <<>> /\ g[0][1] = DiskHeader
  <2> SUFFICES ASSUME 0 \in DOMAIN f PROVE g[0] # <<>> /\ g[0][1] = DiskHeader
    BY <1>7
  <2>1. f[0] # <<>> /\ f[0][1] = DiskHeader
    BY <1>2
  <2>2. CASE b = 0
    <3>1. d > 0 /\ p = Len(f[b])
      BY <1>1, <1>2, <2>2 DEF Cd
    <3>2. Len(f[b]) # 0
      BY <1>3, <2>1, <2>2, EmptySeq
    <3>3. 1 \in 1..Len(f[b]) /\ 1 <= p /\ Len(o) # 0
      BY <1>3, <1>6, <3>1, <3>2
    <3>4. o[1] = DiskHeader /\ o # <<>>
      BY <1>5, <2>1, <2>2, <3>3
    <3> QED
      BY <1>7, <2>2, <3>4
  <2>3. CASE b # 0
    BY <1>7, <2>1, <2>3
  <2> QED
    BY <2>2, <2>3
<1>18. StartOf(d, h) = StartOf(d, e)
  BY <1>12 DEF StartOf, PartOf
<1>19. p + k <= Len(g[b]) /\ (d > 0 => p + k = Len(g[b])) /\ p + k \in Nat
  BY <1>2, <1>6, <1>7
<1> QED
  BY <1>7, <1>8, <1>12, <1>14, <1>15, <1>16, <1>17, <1>18, <1>19 DEF HasGrown, d, n, e, h, p, b

LEMMA EntryFacts ==
  ASSUME SplitInv, phase = "entry"
  PROVE  LET n == Len(entries)
             e == entries[n]
         IN /\ n \in Nat /\ n > 0 /\ n \in 1..n
            /\ e \in EntryType /\ Placed(files, diskSize, split.number, e) /\ Len(e.data) \in Nat
            /\ \A i \in 1..(n - 1) : \A j \in 1..Len(entries[i].data) :
                 Precedes(entries[i].cells[j], StartOf(diskSize, e))
            /\ Top = split.number /\ Mark = split.pos /\ Writing
            /\ call = "write" => todo \in Seq(Bytes) /\ todo # <<>> /\ Len(todo) \in Nat /\ Len(todo) > 0 /\ err = "ok"
            /\ err = "ok" => PlaceOf(diskSize, e, Len(e.data)) = <<split.base, split.pos>>
            /\ diskSize = 0 => split.number = 0 /\ split.base = Cd /\ split.pos <= Len(files[Cd]) /\ Cd \in DOMAIN files
            /\ err = "ok" /\ diskSize > 0 => AtEnd /\ split.number >= 0 /\ split.number \in DOMAIN files
<1>1. Top = split.number /\ Mark = split.pos /\ Writing /\ WriterInv /\ EntryInv
  BY DEF SplitInv, Top, Mark, Writing
<1> DEFINE n == Len(entries)
           e == entries[n]
<1>2. n \in Nat /\ n > 0 /\ n \in 1..n
  <2>1. n \in Nat /\ n > 0
    BY <1>1, WritingFacts DEF EntryInv
  <2> QED
    BY <2>1
<1>3. e \in EntryType /\ Placed(files, diskSize, split.number, e) /\ Len(e.data) \in Nat
  <2>1. e \in EntryType /\ Placed(files, diskSize, split.number, e)
    BY <1>1, <1>2, WritingFacts
  <2> QED
    BY <2>1, EntryTypes
<1>4. /\ \A i \in 1..(n - 1) : \A j \in 1..Len(entries[i].data) :
           Precedes(entries[i].cells[j], StartOf(diskSize, e))
      /\ err = "ok" => PlaceOf(diskSize, e, Len(e.data)) = <<split.base, split.pos>>
      /\ call = "write" => todo \in Seq(Bytes) /\ todo # <<>>
  BY <1>1 DEF EntryInv
<1>5. call = "write" => Len(todo) \in Nat /\ Len(todo) > 0
  BY <1>4, EmptySeq, LenProperties
<1>6. diskSize \in Nat /\ (call = "write" => err = "ok")
  BY <1>1, WritingFacts DEF WriterInv
<1>7. diskSize = 0 => split.number = 0 /\ split.base = Cd /\ split.pos <= Len(files[Cd]) /\ Cd \in DOMAIN files
  BY <1>1, WritingFacts DEF WriterInv, Parts
<1>8. err = "ok" /\ diskSize > 0 => AtEnd /\ split.number >= 0 /\ split.number \in DOMAIN files
  <2> SUFFICES ASSUME err = "ok", diskSize > 0 PROVE AtEnd /\ split.number >= 0 /\ split.number \in DOMAIN files
    OBVIOUS
  <2>1. AtEnd /\ split.number >= 0
    BY <1>1 DEF WriterInv, AtDirectory
  <2>2. split.number \in Parts(diskSize, Top)
    BY <1>1, <2>1, WritingFacts DEF Parts, SplitType
  <2> QED
    BY <2>1, <2>2, WritingFacts
<1> QED
  BY <1>1, <1>2, <1>3, <1>4, <1>5, <1>6, <1>7, <1>8

LEMMA FitsFacts ==
  ASSUME NEW s \in SplitType, NEW n \in Nat, s.diskSize > 0 => s.outDisk <= s.diskSize, s.number # Cd
  PROVE  /\ Fits(s, n) \in 0..n
         /\ s.diskSize > 0 => s.outDisk + Fits(s, n) <= s.diskSize
         /\ s.diskSize > 0 /\ s.outDisk = 0 /\ n > 0 => Fits(s, n) > 0
<1>1. s.diskSize \in Nat /\ s.outDisk \in Nat
  BY DEF SplitType
<1> DEFINE d == s.diskSize
           o == s.outDisk
<1>2. CASE d = 0
  <2>1. Fits(s, n) = n
    BY <1>2 DEF Fits
  <2> QED
    BY <1>2, <2>1
<1>3. CASE d > 0
  <2>1. Fits(s, n) = Least(n, d - o) /\ o <= d /\ d \in Nat /\ o \in Nat
    BY <1>1, <1>3 DEF Fits
  <2> HIDE DEF d, o
  <2>2. Least(n, d - o) \in 0..n /\ o + Least(n, d - o) <= d /\ (d > 0 /\ o = 0 /\ n > 0 => Least(n, d - o) > 0)
    BY <2>1 DEF Least
  <2>3. d = s.diskSize /\ o = s.outDisk
    BY DEF d, o
  <2> QED
    BY <2>1, <2>2, <2>3
<1> QED
  BY <1>1, <1>2, <1>3

LEMMA ReadyHere ==
  ASSUME SplitInv, phase = "entry", call = "write"
  PROVE  Ready(files, split, Fits(split, Len(todo)))
<1> DEFINE k == Fits(split, Len(todo))
           n == Len(entries)
           e == entries[n]
<1>1. /\ todo \in Seq(Bytes) /\ Len(todo) \in Nat /\ Len(todo) > 0 /\ err = "ok" /\ n \in 1..n
      /\ PlaceOf(diskSize, e, Len(e.data)) = <<split.base, split.pos>>
      /\ diskSize = 0 => split.number = 0 /\ split.base = Cd /\ split.pos <= Len(files[Cd]) /\ Cd \in DOMAIN files
      /\ diskSize > 0 => AtEnd /\ split.number >= 0 /\ split.number \in DOMAIN files
      /\ Top = split.number
  BY EntryFacts
<1>2. /\ split \in SplitType /\ split.diskSize = diskSize /\ split.mode \in {"create", "append"}
      /\ diskSize \in Nat /\ ~lost /\ Held(files)
      /\ \A m \in DOMAIN files : files[m] \in Seq(Stored) /\ Len(files[m]) \in Nat
      /\ PartsInv /\ Parts(diskSize, Top) \subseteq DOMAIN files
      /\ DOMAIN files \subseteq {Cd} \cup Parts(diskSize, Top)
      /\ \A i \in 1..Len(entries) : Placed(files, diskSize, Top, entries[i])
  BY WritingFacts
<1>3. split.number # Cd /\ (diskSize > 0 => split.outDisk <= diskSize)
  BY <1>1, <1>2 DEF AtEnd, Cd
<1>4. k \in 0..Len(todo) /\ (diskSize > 0 => split.outDisk + k <= diskSize)
  BY <1>1, <1>2, <1>3, FitsFacts
<1> HIDE DEF k
<1>5. split.mode = "append" => Cd \in DOMAIN files
  BY EntryFacts DEF SplitInv, WriterInv
<1>6. writers = 1 /\ diskSize > 0 =>
          /\ split.mode = "create" /\ split.outDisk = Len(files[split.base])
          /\ \A m \in DOMAIN files \ {Cd} : Len(files[m]) <= diskSize /\ (m < split.number => Len(files[m]) = diskSize)
  BY <1>1, EntryFacts DEF SplitInv, FilledInv, AtEnd
<1>7. 0 \in DOMAIN files => files[0] # <<>> /\ files[0][1] = DiskHeader
  BY <1>2 DEF PartsInv
<1>8. split.base \in DOMAIN files /\ split.pos <= Len(files[split.base])
      /\ (diskSize > 0 => split.base = split.number /\ split.current = split.number /\ split.pos = Len(files[split.base]))
  BY <1>1, <1>2 DEF AtEnd
<1>9. Ready(files, split, k)
  BY <1>1, <1>2, <1>4, <1>5, <1>6, <1>7, <1>8 DEF Ready
<1> QED
  BY <1>9 DEF k

\* A writer that creates goes on in an empty part, one that appends has no next part.
LEMMA ReadyNext ==
  ASSUME SplitInv, phase = "entry", call = "write", diskSize > 0, Full(split)
  PROVE  LET r == GotoDisk(files, split, split.current + 1) IN
         \/ r.err = "ok" /\ Ready(r.f, r.s, Fits(r.s, Len(todo)))
         \/ r.err = "open" /\ r.f = files /\ r.s = [split EXCEPT !.base = Closed] /\ split.mode = "append"
<1> DEFINE n == split.number + 1
           e == entries[Len(entries)]
           r == GotoDisk(files, split, split.current + 1)
<1>1. /\ todo \in Seq(Bytes) /\ Len(todo) \in Nat /\ Len(todo) > 0 /\ err = "ok" /\ Len(entries) \in 1..Len(entries)
      /\ PlaceOf(diskSize, e, Len(e.data)) = <<split.base, split.pos>>
      /\ AtEnd /\ split.number >= 0 /\ split.number \in DOMAIN files
      /\ Top = split.number
  BY EntryFacts
<1>2. /\ split \in SplitType /\ split.diskSize = diskSize /\ split.mode \in {"create", "append"}
      /\ diskSize \in Nat /\ Held(files) /\ Top \in Int
      /\ \A m \in DOMAIN files : files[m] \in Seq(Stored) /\ Len(files[m]) \in Nat
      /\ PartsInv /\ Parts(diskSize, Top) \subseteq DOMAIN files
      /\ DOMAIN files \subseteq {Cd} \cup Parts(diskSize, Top)
      /\ \A i \in 1..Len(entries) : entries[i] \in EntryType /\ Placed(files, diskSize, Top, entries[i])
  BY WritingFacts
<1>3. n \in Int /\ n > 0 /\ n # split.current /\ n \notin DOMAIN files /\ split.current + 1 = n /\ n # 0
      /\ Parts(diskSize, n) = Parts(diskSize, Top) \cup {n} /\ Top <= n /\ n - 1 = Top /\ n # Cd
  <2>1. split.number \in Int /\ split.number >= 0 /\ split.current = split.number /\ Top = split.number
    BY <1>1, <1>2 DEF AtEnd
  <2>2. n \in Int /\ n > 0 /\ n # split.current /\ split.current + 1 = n /\ n # 0 /\ Top <= n /\ n - 1 = Top /\ n # Cd
    BY <2>1 DEF Cd
  <2>3. 0..n = 0..Top \cup {n} /\ n \notin 0..Top
    BY <2>1
  <2>4. Parts(diskSize, Top) = 0..Top /\ Parts(diskSize, n) = 0..n
    BY DEF Parts
  <2> QED
    BY <1>2, <2>2, <2>3, <2>4
<1> HIDE DEF n, e
<1>4. CASE split.mode = "append"
  <2>1. r = [f |-> files, s |-> [split EXCEPT !.base = Closed], err |-> "open"]
    BY <1>2, <1>3, <1>4, GotoMissing
  <2> QED
    BY <1>4, <2>1
<1>5. CASE split.mode = "create"
  <2> DEFINE f == WithPart(files, n, <<>>)
             t == InPart(split, n, n, 0, 0, split.out)
             k == Fits(t, Len(todo))
  <2>1. r = [f |-> f, s |-> t, err |-> "ok"]
    BY <1>2, <1>3, <1>5, GotoCreate
  <2>2. r.f = f /\ r.s = t /\ r.err = "ok"
    BY <2>1
  <2>3. t \in SplitType
    BY <1>2, <1>3 DEF SplitType, InPart
  <2>4. t.mode = split.mode /\ t.diskSize = split.diskSize
    BY DEF InPart
  <2>5. t.number = n /\ t.base = n /\ t.current = n
    BY DEF InPart
  <2>6. t.pos = 0 /\ t.outDisk = 0
    BY DEF InPart
  <2> HIDE DEF t, r
  <2>7. k \in 0..Len(todo) /\ t.outDisk + k <= diskSize /\ k > 0
    <3> DEFINE l == Len(todo)
    <3>1. l \in Nat /\ l > 0 /\ t.diskSize > 0 /\ t.outDisk <= t.diskSize /\ t.number # Cd /\ t.outDisk = 0
          /\ t.diskSize = diskSize
      <4>1. l \in Nat /\ l > 0
        BY <1>1
      <4>2. t.diskSize = diskSize /\ t.number # Cd /\ t.outDisk = 0
        BY <1>2, <1>3, <2>4, <2>5, <2>6
      <4> QED
        BY <1>2, <4>1, <4>2
    <3> HIDE DEF l
    <3>2. /\ Fits(t, l) \in 0..l
          /\ t.diskSize > 0 => t.outDisk + Fits(t, l) <= t.diskSize
          /\ t.diskSize > 0 /\ t.outDisk = 0 /\ l > 0 => Fits(t, l) > 0
      BY <2>3, <3>1, FitsFacts
    <3>3. k = Fits(t, l) /\ l = Len(todo)
      BY DEF l
    <3> HIDE DEF k
    <3> QED
      BY <3>1, <3>2, <3>3
  <2>8. PartIsSet(f, files, n, <<>>)
    <3>1. <<>> \in Seq(Stored)
      OBVIOUS
    <3> QED
      BY <1>2, <1>3, <3>1, HeldWith
  <2> HIDE DEF f, k
  <2>9. Held(f) /\ DOMAIN f = DOMAIN files \cup {n} /\ f[n] = <<>> /\ \A m \in DOMAIN files : m # n => f[m] = files[m]
    BY <2>8 DEF PartIsSet
  <2>10. \A m \in DOMAIN files : f[m] = files[m]
    BY <1>3, <2>9
  <2>11. ASSUME NEW i \in 1..Len(entries) PROVE Placed(f, diskSize, n, entries[i])
    <3> DEFINE y == entries[i]
    <3>1. y \in EntryType /\ Placed(files, diskSize, Top, y)
      BY <1>2
    <3> HIDE DEF y
    <3>2. \A j \in 1..Len(y.data) : y.cells[j][1] \in Parts(diskSize, Top)
      BY <3>1 DEF Placed, Keeps
    <3>3. \A m \in Parts(diskSize, Top) : m \in DOMAIN f =>
            /\ m \in DOMAIN files /\ Len(files[m]) \in Nat /\ Len(f[m]) \in Nat /\ Len(files[m]) <= Len(f[m])
            /\ m >= 0 /\ m < Top => Len(f[m]) = Len(files[m])
      BY <1>2, <2>10
    <3>4. \A j \in 1..Len(y.data) :
            y.cells[j][1] \in DOMAIN f => f[y.cells[j][1]][y.cells[j][2]] = files[y.cells[j][1]][y.cells[j][2]]
      BY <1>2, <2>10, <3>2
    <3>5. Placed(f, diskSize, n, y)
      BY <1>2, <1>3, <3>1, <3>3, <3>4, PlacedFrame
    <3> QED
      BY <3>5 DEF y
  <2>12. DOMAIN f \subseteq {Cd} \cup Parts(diskSize, n) /\ Parts(diskSize, n) \subseteq DOMAIN f
    BY <1>2, <1>3, <2>9
  <2>13. 0 \in DOMAIN f => f[0] # <<>> /\ f[0][1] = DiskHeader
    BY <1>2, <1>3, <2>9, <2>10 DEF PartsInv
  <2>14. PlaceOf(diskSize, e, Len(e.data)) = <<n - 1, Len(f[n - 1])>> /\ n - 1 >= 0
    BY <1>1, <1>3, <2>10 DEF AtEnd
  <2>15. writers = 1 =>
           \A m \in DOMAIN f \ {Cd} : Len(f[m]) <= diskSize /\ (m < n => Len(f[m]) = diskSize)
    <3> SUFFICES ASSUME writers = 1, NEW m \in DOMAIN f \ {Cd}
                 PROVE  Len(f[m]) <= diskSize /\ (m < n => Len(f[m]) = diskSize)
      OBVIOUS
    <3>1. FilledInv /\ Writing
      BY EntryFacts DEF SplitInv
    <3>2. CASE m = n
      <4>1. Len(f[m]) = 0
        BY <2>9, <3>2, EmptySeq
      <4> QED
        BY <1>2, <1>3, <3>2, <4>1
    <3>3. CASE m # n
      <4>1. m \in DOMAIN files /\ f[m] = files[m] /\ m \in 0..Top
        <5>1. m \in DOMAIN files /\ m # Cd
          BY <2>9, <3>3
        <5>2. m \in Parts(diskSize, Top)
          BY <1>2, <5>1
        <5> QED
          BY <2>10, <5>1, <5>2 DEF Parts
      <4>2. Len(files[m]) <= diskSize /\ (m < Top => Len(files[m]) = diskSize)
        BY <3>1, <4>1 DEF FilledInv
      <4>3. m = Top => Len(files[m]) = diskSize
        BY <1>1, <1>2, <3>1 DEF FilledInv, Full
      <4> QED
        BY <1>2, <4>1, <4>2, <4>3
    <3> QED
      BY <3>2, <3>3
  <2>16. t.outDisk = Len(f[n]) /\ t.pos = Len(f[n]) /\ n \in DOMAIN f /\ t.pos <= Len(f[n])
    BY <2>6, <2>9
  <2>17. Ready(f, t, k)
    BY <1>2, <1>3, <1>5, <2>3, <2>4, <2>5, <2>6, <2>7, <2>9, <2>11, <2>12, <2>13, <2>14, <2>15, <2>16 DEF Ready, e
  <2>18. Fits(t, Len(todo)) = k
    BY DEF k
  <2>19. r.err = "ok" /\ Ready(r.f, r.s, Fits(r.s, Len(todo)))
    BY <2>2, <2>17, <2>18
  <2> QED
    BY <2>19 DEF r
<1> QED
  BY <1>2, <1>4, <1>5

\* The stream after k bytes were written in the part in which it is.
IsMoved(u, t, k) ==
  /\ u \in SplitType /\ u.mode = t.mode /\ u.diskSize = t.diskSize /\ u.number = t.number
  /\ u.current = t.current /\ u.base = t.base /\ u.pos = t.pos + k /\ u.outDisk = t.outDisk + k
LEMMA Moved ==
  ASSUME NEW t \in SplitType, NEW k \in Nat,
         NEW u, u = [t EXCEPT !.pos = @ + k, !.outDisk = @ + k, !.out = Least(@ + k, 1)]
  PROVE  IsMoved(u, t, k)
<1>1. /\ t.pos \in Nat /\ t.outDisk \in Nat /\ t.out \in Nat
  BY DEF SplitType
<1>2. t.pos + k \in Nat /\ t.outDisk + k \in Nat /\ Least(t.out + k, 1) \in Nat
  BY <1>1 DEF Least
<1> DEFINE p == t.pos + k
           o == t.outDisk + k
           q == Least(t.out + k, 1)
<1>3. u = [t EXCEPT !.pos = p, !.outDisk = o, !.out = q]
  OBVIOUS
<1>4. p \in Nat /\ o \in Nat /\ q \in Nat
  BY <1>2
<1> HIDE DEF p, o, q
<1>5. u \in SplitType
  BY <1>3, <1>4 DEF SplitType
<1>6. u.mode = t.mode /\ u.diskSize = t.diskSize /\ u.number = t.number
  BY <1>3 DEF SplitType
<1>7. u.current = t.current /\ u.base = t.base
  BY <1>3 DEF SplitType
<1>8. u.pos = p /\ u.outDisk = o
  BY <1>3 DEF SplitType
<1> QED
  BY <1>5, <1>6, <1>7, <1>8 DEF IsMoved, p, o

\* A turn of the loop that writes an entry where the writer then stands.
LEMMA WritesThere ==
  ASSUME SplitInv, phase = "entry", call = "write", NEW f, NEW t, NEW k, Ready(f, t, k),
         NEW x, x = SubSeq(todo, 1, k),
         files' = [f EXCEPT ![t.base] = Overlay(@, t.pos, x)],
         split' = [t EXCEPT !.pos = @ + k, !.outDisk = @ + k, !.out = Least(@ + k, 1)],
         todo' = SubSeq(todo, k + 1, Len(todo)),
         call' = IF todo' = <<>> THEN "none" ELSE "write",
         entries' = [entries EXCEPT ![Len(entries)] = Grown(@, x, t)], err' = "ok",
         UNCHANGED <<left, got, withCd, cdAt, diskSize, lost, writers, phase, cursor, origin>>
  PROVE  SplitInv'
<1> DEFINE n == Len(entries)
           e == entries[n]
           h == Grown(e, x, t)
           d == diskSize
           b == t.base
           p == t.pos + k
           g == files'
           u == split'
           l == Len(todo)
<1>1. /\ n \in Nat /\ n > 0 /\ n \in 1..n /\ e \in EntryType
      /\ \A i \in 1..(n - 1) : \A j \in 1..Len(entries[i].data) : Precedes(entries[i].cells[j], StartOf(d, e))
      /\ todo \in Seq(Bytes) /\ l \in Nat
  BY EntryFacts
<1>2. /\ writers \in Nat /\ writers > 0 /\ d \in Nat /\ ~lost /\ cursor[1] = 0 /\ entries \in Seq(EntryType)
      /\ split.mode \in {"create", "append"}
  BY WritingFacts
<1>3. /\ Held(f) /\ t \in SplitType /\ t.mode = split.mode /\ t.diskSize = d /\ k \in 0..l
      /\ t.base \in DOMAIN f /\ t.pos <= Len(f[t.base])
      /\ DOMAIN f \subseteq {Cd} \cup Parts(d, t.number) /\ Parts(d, t.number) \subseteq DOMAIN f
      /\ split.mode = "append" => Cd \in DOMAIN f
      /\ d = 0 => t.base = Cd /\ t.number = 0
      /\ d > 0 => t.number >= 0 /\ t.base = t.number /\ t.current = t.number
                  /\ t.pos = Len(f[t.base]) /\ t.outDisk + k <= d
      /\ writers = 1 /\ d > 0 =>
           /\ t.mode = "create" /\ t.outDisk = Len(f[t.base])
           /\ \A m \in DOMAIN f \ {Cd} : Len(f[m]) <= d /\ (m < t.number => Len(f[m]) = d)
  BY DEF Ready
<1>4. k \in Nat /\ x \in Seq(Bytes) /\ Len(x) = k /\ todo' \in Seq(Bytes)
  <2> HIDE DEF l
  <2>0. k \in Nat /\ k <= l /\ l = Len(todo) /\ 1 \in 1..(l + 1) /\ k + 1 \in 1..(l + 1)
    BY <1>1, <1>3 DEF l
  <2>1. x \in Seq(Bytes) /\ Len(x) = IF 1 <= k THEN k - 1 + 1 ELSE 0
    BY <1>1, <2>0, SubSeqProperties
  <2>2. todo' \in Seq(Bytes)
    BY <1>1, <2>0, SubSeqProperties
  <2> QED
    BY <2>0, <2>1, <2>2
<1>5. IsMoved(u, t, k)
  BY <1>3, <1>4, Moved
<1>6. u \in SplitType /\ u.mode = t.mode /\ u.diskSize = d /\ u.number = t.number
      /\ u.current = t.current /\ u.base = b /\ u.pos = p /\ u.outDisk = t.outDisk + k
  BY <1>3, <1>5 DEF IsMoved
<1>7. g = [f EXCEPT ![t.base] = Overlay(f[t.base], t.pos, x)]
  OBVIOUS
<1> HIDE DEF g
<1>8. /\ Held(g) /\ DOMAIN g = DOMAIN f /\ p \in Nat /\ p <= Len(g[b])
      /\ 0 \in DOMAIN g => g[0] # <<>> /\ g[0][1] = DiskHeader
      /\ \A m \in DOMAIN f : m # b => g[m] = f[m]
      /\ d > 0 => p = Len(g[b])
      /\ \A i \in 1..n : Placed(g, d, t.number, entries[i]) /\ (d = 0 => UpTo(p, entries[i]))
      /\ h \in EntryType /\ Placed(g, d, t.number, h) /\ (d = 0 => UpTo(p, h))
      /\ StartOf(d, h) = StartOf(d, e)
      /\ PlaceOf(d, h, Len(h.data)) = <<b, p>>
      /\ \A j \in 2..Len(h.data) : h.cells[j] # h.cells[1]
  <2>1. HasGrown(f, t, k, x, g)
    BY <1>4, <1>7, WriteGrows
  <2> QED
    BY <2>1 DEF HasGrown
<1> HIDE DEF h, e, p, u, b
<1>9. /\ entries' \in Seq(EntryType) /\ Len(entries') = n /\ entries'[n] = h
      /\ \A i \in 1..n : i # n => entries'[i] = entries[i]
  <2>1. entries' = [entries EXCEPT ![n] = h]
    BY DEF h, e
  <2> QED
    BY <1>1, <1>2, <1>8, <2>1, ExceptSeq
<1>10. Writing' /\ Top' = t.number /\ Mark' = p /\ diskSize' = d
  BY <1>6 DEF Writing, Top, Mark, u
<1>11. files' = g /\ split' = u
  BY DEF g, u
<1>12. PartsInv'
  BY <1>2, <1>3, <1>8, <1>10, <1>11 DEF PartsInv, SplitInv, FilesInv
<1>13. EntriesInv'
  <2>1. ASSUME NEW i \in 1..n
        PROVE  Placed(g, d, t.number, entries'[i]) /\ (d = 0 => UpTo(p, entries'[i]))
    <3>1. CASE i = n
      BY <1>8, <1>9, <3>1
    <3>2. CASE i # n
      BY <1>8, <1>9, <3>2
    <3> QED
      BY <3>1, <3>2
  <2> QED
    BY <1>9, <1>10, <1>11, <2>1 DEF EntriesInv
<1>14. WriterInv'
  <2>1. d = 0 => u.number = 0 /\ u.base = Cd /\ u.pos <= Len(g[Cd])
    BY <1>3, <1>6, <1>8 DEF b
  <2>2. d > 0 => /\ u.number >= 0 /\ u.base = u.number /\ u.current = u.number
                 /\ u.pos = Len(g[u.number]) /\ u.outDisk <= d
    BY <1>3, <1>6, <1>8 DEF b
  <2>3. u.mode = "append" => Cd \in DOMAIN g
    BY <1>3, <1>6, <1>8
  <2> QED
    BY <1>2, <1>3, <1>6, <1>10, <1>11, <2>1, <2>2, <2>3 DEF WriterInv, AtEnd
<1>15. EntryInv' /\ DirectoryInv'
  <2>1. \A i \in 1..(n - 1) : \A j \in 1..Len(entries'[i].data) : Precedes(entries'[i].cells[j], StartOf(d, h))
    <3>1. \A i \in 1..(n - 1) : i \in 1..n /\ i # n
      BY <1>1
    <3> QED
      BY <1>1, <1>8, <1>9, <3>1
  <2>2. PlaceOf(d, h, Len(h.data)) = <<u.base, u.pos>>
    BY <1>6, <1>8
  <2> QED
    BY <1>1, <1>4, <1>8, <1>9, <1>10, <1>11, <2>1, <2>2 DEF EntryInv, DirectoryInv
<1>16. FilledInv'
  <2> SUFFICES ASSUME writers = 1, d > 0 PROVE FilledInv'
    BY <1>10 DEF FilledInv
  <2>1. Len(g[b]) = t.outDisk + k /\ Len(g[b]) <= d /\ u.mode = "create" /\ u.number = b
    BY <1>3, <1>6, <1>8 DEF p, b
  <2>2. ASSUME NEW m \in DOMAIN g \ {Cd} PROVE Len(g[m]) <= d /\ (m < t.number => Len(g[m]) = d)
    <3>1. CASE m = b
      BY <1>3, <2>1, <3>1 DEF b, SplitType
    <3>2. CASE m # b
      BY <1>3, <1>8, <3>2
    <3> QED
      BY <3>1, <3>2
  <2> QED
    BY <1>6, <1>10, <1>11, <2>1, <2>2 DEF FilledInv
<1>17. /\ left \in Nat /\ withCd' \in Nat /\ cdAt' \in Nat /\ lost' \in BOOLEAN
       /\ call' \in {"none", "write"} /\ todo' \in Seq(Stored)
  <2>1. left \in Nat /\ withCd \in Nat /\ cdAt \in Nat /\ lost \in BOOLEAN
    BY DEF SplitInv, TypeInv
  <2>2. todo' \in Seq(Stored)
    BY <1>4 DEF Stored
  <2>3. call' \in {"none", "write"}
    OBVIOUS
  <2> QED
    BY <2>1, <2>2, <2>3
<1> QED
  BY <1>2, <1>6, <1>8, <1>9, <1>10, <1>11, <1>12, <1>13, <1>14, <1>15, <1>16, <1>17, WriterKeeps

-----------------------------------------------------------------------------
(* The directory *)

\* A turn of the loop writes the directory where its part was opened.
LEMMA DirectoryTurn ==
  ASSUME SplitInv, phase = "directory", WriteLoop
  PROVE  /\ call = "write" /\ split.number = Cd /\ split.base = Cd /\ split.pos = cdAt
         /\ split.pos \in 0..Len(files[Cd]) /\ (diskSize > 0 => split.current = Cd)
         /\ Cd \in DOMAIN files /\ files[Cd] \in Seq(Stored) /\ Len(files[Cd]) \in Nat
         /\ files' = [files EXCEPT ![Cd] = Overlay(files[Cd], split.pos, <<Dir>>)]
         /\ split' = [split EXCEPT !.pos = @ + 1, !.outDisk = @ + 1, !.out = Least(@ + 1, 1)]
         /\ todo' = <<>> /\ call' = "none" /\ err' = "ok"
         /\ UNCHANGED <<entries, left, got, withCd, cdAt, diskSize, lost, writers, phase, cursor, origin>>
<1> DEFINE switch == split.diskSize > 0 /\ (Full(split) \/ (split.number = Cd /\ split.current # Cd))
           r == IF switch THEN GotoDisk(files, split, IF split.number = Cd THEN Cd ELSE split.current + 1)
                ELSE [f |-> files, s |-> split, err |-> "ok"]
           k == Fits(r.s, Len(todo))
           x == SubSeq(todo, 1, k)
           p == split.pos
           d == diskSize
<1>1. /\ call = "write" /\ err' = r.err
      /\ IF r.err = "ok"
         THEN /\ files' = [r.f EXCEPT ![r.s.base] = Overlay(@, r.s.pos, x)]
              /\ split' = [r.s EXCEPT !.pos = @ + k, !.outDisk = @ + k, !.out = Least(@ + k, 1)]
              /\ todo' = SubSeq(todo, k + 1, Len(todo))
              /\ call' = IF todo' = <<>> THEN "none" ELSE "write"
              /\ entries' = IF phase = "entry"
                            THEN [entries EXCEPT ![Len(entries)] = Grown(@, x, r.s)] ELSE entries
         ELSE files' = r.f /\ split' = r.s /\ call' = "none" /\ todo' = <<>> /\ UNCHANGED entries
      /\ UNCHANGED <<left, got, withCd, cdAt, diskSize, lost, writers, phase, cursor, origin>>
  BY DEF WriteLoop
<1>2. /\ split \in SplitType /\ split.diskSize = d /\ d \in Nat /\ PartsInv
      /\ \A n \in DOMAIN files : files[n] \in Seq(Stored) /\ Len(files[n]) \in Nat
  BY WritingFacts
<1>3. /\ split.number = Cd /\ split.base = Cd /\ p <= Len(files[Cd]) /\ p = cdAt /\ todo = <<Dir>> /\ p \in Nat
      /\ d > 0 => split.current = Cd /\ split.outDisk = 0
  BY <1>1, <1>2 DEF SplitInv, DirectoryInv, SplitType
<1>4. Cd \in DOMAIN files /\ files[Cd] \in Seq(Stored) /\ Len(files[Cd]) \in Nat
  BY <1>2 DEF PartsInv, Writing
<1>5. r = [f |-> files, s |-> split, err |-> "ok"]
  <2>1. ~switch
    BY <1>2, <1>3 DEF Full
  <2> QED
    BY <2>1
<1> HIDE DEF switch, r
<1>6. r.f = files /\ r.s = split /\ r.err = "ok"
  BY <1>5
<1>7. k = 1 /\ x = <<Dir>> /\ SubSeq(todo, k + 1, Len(todo)) = <<>>
  <2>1. Len(todo) = 1 /\ todo[1] = Dir
    BY <1>3
  <2>2. k = 1
    BY <1>3, <1>6, <2>1 DEF Fits
  <2> HIDE DEF k
  <2>3. x = <<Dir>>
    <3>1. todo \in Seq(Stored) /\ x = SubSeq(todo, 1, Len(todo))
      BY <1>3, <2>1, <2>2 DEF Stored
    <3>2. x = todo
      BY <3>1, SubSeqFull
    <3> QED
      BY <1>3, <3>2
  <2>4. SubSeq(todo, k + 1, Len(todo)) = <<>>
    BY <1>3, <2>1, <2>2
  <2> QED
    BY <2>2, <2>3, <2>4
<1> HIDE DEF k, x
<1>8. /\ files' = [files EXCEPT ![Cd] = Overlay(files[Cd], p, <<Dir>>)]
      /\ split' = [split EXCEPT !.pos = @ + 1, !.outDisk = @ + 1, !.out = Least(@ + 1, 1)]
      /\ todo' = <<>> /\ call' = "none" /\ entries' = entries /\ err' = "ok"
  BY <1>1, <1>3, <1>6, <1>7
<1> QED
  BY <1>1, <1>3, <1>4, <1>8

\* The directory is written in one turn, behind every entry of its file.
LEMMA DirectoryWrites ==
  ASSUME SplitInv, phase = "directory", WriteLoop
  PROVE  SplitInv'
<1> DEFINE k == 1
           x == <<Dir>>
           p == split.pos
           o == Overlay(files[Cd], p, x)
           d == diskSize
           u == split'
           g == files'
<1>1. /\ call = "write"
      /\ UNCHANGED <<left, got, withCd, cdAt, diskSize, lost, writers, phase, cursor, origin>>
  BY DirectoryTurn
<1>2. /\ split \in SplitType /\ split.diskSize = d /\ split.mode \in {"create", "append"}
      /\ writers > 0 /\ writers \in Nat /\ d \in Nat /\ Top \in Int /\ ~lost /\ cursor[1] = 0
      /\ Held(files) /\ \A n \in DOMAIN files : files[n] \in Seq(Stored) /\ Len(files[n]) \in Nat
      /\ PartsInv /\ Parts(d, Top) \subseteq DOMAIN files /\ DOMAIN files \subseteq {Cd} \cup Parts(d, Top)
      /\ entries \in Seq(EntryType) /\ Len(entries) \in Nat
  BY WritingFacts
<1>3. /\ split.number = Cd /\ split.base = Cd /\ p <= Len(files[Cd]) /\ p = cdAt /\ todo = <<Dir>> /\ p \in Nat
      /\ d > 0 => split.current = Cd /\ split.outDisk = 0
  BY <1>1, <1>2 DEF SplitInv, DirectoryInv, SplitType
<1>4. ~Writing /\ ~Writing' /\ Top' = Top /\ Mark' = Mark /\ Mark = p
  BY <1>1, <1>3 DEF Writing, Top, Mark
<1>5. Cd \in DOMAIN files /\ files[Cd] \in Seq(Stored) /\ Len(files[Cd]) \in Nat
  BY <1>2, <1>4 DEF PartsInv
<1>6. k = 1 /\ x = <<Dir>>
  OBVIOUS
<1> HIDE DEF k, x, g, u
<1>7. /\ g = [files EXCEPT ![Cd] = o] /\ u = [split EXCEPT !.pos = @ + k, !.outDisk = @ + k, !.out = Least(@ + k, 1)]
      /\ todo' = <<>> /\ call' = "none" /\ entries' = entries /\ err' = "ok"
  BY DirectoryTurn DEF g, u, k, x
<1>8. IsMoved(u, split, k) /\ k \in Nat
  BY <1>2, <1>6, <1>7, Moved
<1>9. u \in SplitType /\ u.mode = split.mode /\ u.diskSize = d /\ u.number = Cd
       /\ u.current = split.current /\ u.base = Cd /\ u.pos = p + 1
  BY <1>2, <1>3, <1>6, <1>8 DEF IsMoved
<1>10. o \in Seq(Stored) /\ Written(o, files[Cd], p, x)
  <2>1. x \in Seq(Stored)
    BY <1>6 DEF Stored
  <2> QED
    BY <1>3, <1>5, <2>1, OverlayProperties
<1> HIDE DEF o, p, d
<1>11. Len(o) \in Nat /\ Len(files[Cd]) <= Len(o) /\ p + 1 <= Len(o)
       /\ \A i \in 1..Len(files[Cd]) : i <= p => o[i] = files[Cd][i]
  <2> DEFINE l == Len(files[Cd])
  <2>1. l \in Nat /\ p \in Nat /\ Len(x) = 1
    BY <1>3, <1>5, <1>6
  <2>2. Len(o) = Longer(l, p + 1)
        /\ \A q \in 1..Longer(l, p + 1) : o[q] = IF q \in (p + 1)..(p + 1) THEN x[q - p] ELSE files[Cd][q]
    BY <1>10, <2>1 DEF Written
  <2> HIDE DEF l
  <2>3. Longer(l, p + 1) \in Nat /\ l <= Longer(l, p + 1) /\ p + 1 <= Longer(l, p + 1)
    BY <2>1 DEF Longer
  <2>4. ASSUME NEW i \in 1..l, i <= p PROVE o[i] = files[Cd][i]
    <3>1. i \in 1..Longer(l, p + 1) /\ i \notin (p + 1)..(p + 1)
      BY <2>1, <2>3, <2>4
    <3> QED
      BY <2>2, <3>1
  <2> QED
    BY <2>2, <2>3, <2>4 DEF l
<1>12. PartIsSet(g, files, Cd, o)
  BY <1>2, <1>5, <1>7, <1>10, HeldExcept
<1>13. Held(g) /\ DOMAIN g = DOMAIN files /\ g[Cd] = o /\ \A n \in DOMAIN files : n # Cd => g[n] = files[n]
  BY <1>5, <1>12 DEF PartIsSet
<1>14. ASSUME NEW i \in 1..Len(entries)
       PROVE  Placed(g, d, Top, entries[i]) /\ (d = 0 => UpTo(p, entries[i]))
  <2> DEFINE e == entries[i]
  <2>1. e \in EntryType /\ Placed(files, d, Top, e) /\ (d = 0 => UpTo(p, e))
    BY <1>4, WritingFacts DEF d
  <2> HIDE DEF e
  <2>2. Cd \in Parts(d, Top) /\ d > 0 => Cd = Top
    BY DEF Parts, Cd
  <2>3. \A j \in 1..Len(e.data) : e.cells[j][1] = Cd => o[e.cells[j][2]] = files[Cd][e.cells[j][2]]
    <3> SUFFICES ASSUME NEW j \in 1..Len(e.data), e.cells[j][1] = Cd
                 PROVE  o[e.cells[j][2]] = files[Cd][e.cells[j][2]]
      OBVIOUS
    <3> DEFINE q == e.cells[j][2]
    <3>1. Keeps(files, d, Top, e.cells[j], e.data[j]) /\ q \in Nat
      BY <2>1, EntryTypes DEF Placed
    <3>2. d = 0
      BY <1>2, <3>1 DEF Keeps, Parts, Cd, d
    <3>3. q >= 1 /\ q <= Len(files[Cd]) /\ q <= p
      BY <1>5, <2>1, <3>1, <3>2 DEF Keeps, UpTo
    <3> HIDE DEF q
    <3>4. q \in 1..Len(files[Cd])
      BY <1>5, <3>1, <3>3
    <3> QED
      BY <1>11, <3>3, <3>4 DEF q
  <2>4. Placed(g, d, Top, e)
    BY <1>2, <1>5, <1>10, <1>11, <1>12, <2>1, <2>2, <2>3, GrowFrame DEF d
  <2> QED
    BY <2>1, <2>4 DEF e
<1>15. files' = g /\ split' = u /\ diskSize' = d /\ diskSize = d /\ entries' = entries
  BY <1>1, <1>7 DEF g, u, d
<1>16. EntriesInv'
  BY <1>4, <1>14, <1>15 DEF EntriesInv
<1>17. PartsInv'
  <2>1. p <= Len(g[Cd])
    BY <1>3, <1>11, <1>13
  <2>2. 0 \in DOMAIN g => g[0] = files[0]
    BY <1>13 DEF Cd
  <2> QED
    BY <1>1, <1>2, <1>3, <1>4, <1>5, <1>13, <1>15, <2>1, <2>2 DEF PartsInv
<1>18. DirectoryInv'
  <2>1. u.pos <= Len(g[Cd]) /\ (d > 0 => u.current = Cd)
    BY <1>3, <1>9, <1>11, <1>13
  <2> QED
    BY <1>1, <1>2, <1>7, <1>9, <1>15, <2>1 DEF DirectoryInv
<1>19. WriterInv' /\ EntryInv'
  BY <1>1, <1>4 DEF WriterInv, EntryInv
<1>20. FilledInv'
  <2>1. FilledInv /\ writers' = writers
    BY <1>1 DEF SplitInv
  <2> QED
    BY <1>4, <1>13, <1>15, <2>1 DEF FilledInv
<1>21. /\ withCd \in Nat /\ cdAt \in Nat /\ lost \in BOOLEAN
  BY DEF SplitInv, TypeInv
<1> QED
  BY <1>1, <1>2, <1>7, <1>9, <1>13, <1>15, <1>16, <1>17, <1>18, <1>19, <1>20, <1>21, WriterKeeps DEF d

\* A writer that appends has no part to go on in: the write fails and leaves the parts as they are.
LEMMA WriteFails ==
  ASSUME SplitInv, phase = "entry", call = "write", diskSize > 0, split.mode = "append",
         files' = files, split' = [split EXCEPT !.base = Closed], err' = "open",
         call' = "none", todo' = <<>>,
         UNCHANGED <<left, got, entries, withCd, cdAt, diskSize, lost, writers, phase, cursor, origin>>
  PROVE  SplitInv'
<1>1. /\ split \in SplitType /\ writers > 0 /\ cursor[1] = 0 /\ PartsInv /\ Held(files) /\ entries \in Seq(EntryType)
      /\ Writing /\ Top = split.number /\ split.number >= 0
  BY WritingFacts, EntryFacts DEF SplitInv, WriterInv
<1>2. split' \in SplitType /\ split'.mode = "append" /\ split'.diskSize = split.diskSize
      /\ split'.number = split.number /\ split'.base = Closed
  BY <1>1, ClosedFirst
<1>3. Writing' /\ Top' = Top
  BY <1>1, <1>2 DEF Writing, Top
<1>4. PartsInv'
  BY <1>1, <1>3 DEF PartsInv
<1>5. EntriesInv'
  <2>1. EntriesInv
    BY DEF SplitInv
  <2> QED
    BY <1>3, <2>1 DEF EntriesInv
<1>6. WriterInv'
  <2>1. WriterInv
    BY DEF SplitInv
  <2> QED
    BY <1>1, <1>2, <2>1 DEF WriterInv
<1>7. EntryInv' /\ DirectoryInv'
  <2>1. EntryInv
    BY DEF SplitInv
  <2> QED
    BY <2>1 DEF EntryInv, DirectoryInv
<1>8. FilledInv'
  <2>1. writers # 1
    BY <1>1 DEF SplitInv, FilledInv
  <2> QED
    BY <2>1 DEF FilledInv
<1>9. <<>> \in Seq(Stored) /\ TypeInv
  BY DEF SplitInv
<1> QED
  BY <1>1, <1>2, <1>4, <1>5, <1>6, <1>7, <1>8, <1>9, WriterKeeps DEF TypeInv

\* A turn of the loop writes an entry in a part that is ready for it; one that appends has no next part.
LEMMA EntryTurn ==
  ASSUME SplitInv, phase = "entry", call = "write"
  PROVE  LET switch == split.diskSize > 0 /\ (Full(split) \/ (split.number = Cd /\ split.current # Cd))
             r == IF switch THEN GotoDisk(files, split, IF split.number = Cd THEN Cd ELSE split.current + 1)
                  ELSE [f |-> files, s |-> split, err |-> "ok"]
             k == Fits(r.s, Len(todo))
         IN \/ r.err = "ok" /\ Ready(r.f, r.s, k)
            \/ /\ r.err = "open" /\ r.f = files /\ r.s = [split EXCEPT !.base = Closed]
               /\ split.mode = "append" /\ diskSize > 0
<1> DEFINE switch == split.diskSize > 0 /\ (Full(split) \/ (split.number = Cd /\ split.current # Cd))
           r == IF switch THEN GotoDisk(files, split, IF split.number = Cd THEN Cd ELSE split.current + 1)
                ELSE [f |-> files, s |-> split, err |-> "ok"]
<1>1. split.diskSize = diskSize /\ diskSize \in Nat /\ split.number # Cd
  <2>1. split.diskSize = diskSize /\ diskSize \in Nat
    BY WritingFacts
  <2>2. diskSize = 0 => split.number = 0
    BY EntryFacts
  <2>3. diskSize > 0 => split.number >= 0
    BY EntryFacts
  <2> QED
    BY <2>1, <2>2, <2>3 DEF Cd
<1>2. CASE diskSize > 0 /\ Full(split)
  <2>1. r = GotoDisk(files, split, split.current + 1)
    BY <1>1, <1>2
  <2> HIDE DEF r
  <2>2. \/ r.err = "ok" /\ Ready(r.f, r.s, Fits(r.s, Len(todo)))
        \/ r.err = "open" /\ r.f = files /\ r.s = [split EXCEPT !.base = Closed] /\ split.mode = "append"
    BY <1>2, <2>1, ReadyNext
  <2> QED
    BY <1>2, <2>2 DEF r
<1>3. CASE ~(diskSize > 0 /\ Full(split))
  <2>1. r = [f |-> files, s |-> split, err |-> "ok"]
    BY <1>1, <1>3
  <2> HIDE DEF r
  <2>2. r.f = files /\ r.s = split /\ r.err = "ok"
    BY <2>1
  <2>3. Ready(files, split, Fits(split, Len(todo)))
    BY ReadyHere
  <2> QED
    BY <2>2, <2>3 DEF r
<1> QED
  BY <1>2, <1>3

LEMMA WriteLoopKeeps ==
  ASSUME SplitInv, WriteLoop
  PROVE  SplitInv'
<1> DEFINE switch == split.diskSize > 0 /\ (Full(split) \/ (split.number = Cd /\ split.current # Cd))
           r == IF switch THEN GotoDisk(files, split, IF split.number = Cd THEN Cd ELSE split.current + 1)
                ELSE [f |-> files, s |-> split, err |-> "ok"]
           k == Fits(r.s, Len(todo))
           x == SubSeq(todo, 1, k)
<1>1. /\ call = "write" /\ err' = r.err
      /\ IF r.err = "ok"
         THEN /\ files' = [r.f EXCEPT ![r.s.base] = Overlay(@, r.s.pos, x)]
              /\ split' = [r.s EXCEPT !.pos = @ + k, !.outDisk = @ + k, !.out = Least(@ + k, 1)]
              /\ todo' = SubSeq(todo, k + 1, Len(todo))
              /\ call' = IF todo' = <<>> THEN "none" ELSE "write"
              /\ entries' = IF phase = "entry"
                            THEN [entries EXCEPT ![Len(entries)] = Grown(@, x, r.s)] ELSE entries
         ELSE files' = r.f /\ split' = r.s /\ call' = "none" /\ todo' = <<>> /\ UNCHANGED entries
      /\ UNCHANGED <<left, got, withCd, cdAt, diskSize, lost, writers, phase, cursor, origin>>
  BY DEF WriteLoop
<1>2. phase \in {"entry", "directory"}
  BY <1>1 DEF SplitInv, PhaseInv
<1>3. CASE phase = "directory"
  BY <1>3, DirectoryWrites
<1>4. CASE phase = "entry"
  <2>1. \/ r.err = "ok" /\ Ready(r.f, r.s, k)
        \/ /\ r.err = "open" /\ r.f = files /\ r.s = [split EXCEPT !.base = Closed]
           /\ split.mode = "append" /\ diskSize > 0
    BY <1>1, <1>4, EntryTurn
  <2> HIDE DEF r
  <2>2. CASE r.err = "ok" /\ Ready(r.f, r.s, k)
    <3> DEFINE f == r.f
               t == r.s
    <3> HIDE DEF k, x, f, t
    <3>1. Ready(f, t, k) /\ x = SubSeq(todo, 1, k) /\ files' = [f EXCEPT ![t.base] = Overlay(@, t.pos, x)]
          /\ split' = [t EXCEPT !.pos = @ + k, !.outDisk = @ + k, !.out = Least(@ + k, 1)]
          /\ todo' = SubSeq(todo, k + 1, Len(todo)) /\ call' = (IF todo' = <<>> THEN "none" ELSE "write")
          /\ entries' = [entries EXCEPT ![Len(entries)] = Grown(@, x, t)] /\ err' = "ok"
      BY <1>1, <1>4, <2>2 DEF f, t, x
    <3>2. UNCHANGED <<left, got, withCd, cdAt, diskSize, lost, writers, phase, cursor, origin>> /\ call = "write"
      BY <1>1
    <3> QED
      BY <1>4, <3>1, <3>2, WritesThere
  <2>3. CASE /\ r.err = "open" /\ r.f = files /\ r.s = [split EXCEPT !.base = Closed]
             /\ split.mode = "append" /\ diskSize > 0
    BY <1>1, <1>4, <2>3, WriteFails
  <2> QED
    BY <2>1, <2>2, <2>3
<1> QED
  BY <1>2, <1>3, <1>4

-----------------------------------------------------------------------------
(* Patching a header *)

\* A part that keeps its length: entry e is where it was, with the bytes that are there now.
LEMMA PatchFrame ==
  ASSUME NEW f, NEW g, DOMAIN g = DOMAIN f, \A n \in DOMAIN f : Len(g[n]) = Len(f[n]),
         NEW d, NEW top, NEW e \in EntryType, Placed(f, d, top, e),
         NEW h \in EntryType, h.disk = e.disk, h.offset = e.offset, h.cells = e.cells, Len(h.data) = Len(e.data),
         \A j \in 1..Len(e.data) : e.cells[j][1] \in DOMAIN g => g[e.cells[j][1]][e.cells[j][2]] = h.data[j]
  PROVE  Placed(g, d, top, h)
<1>1. PartOf(d, h) = PartOf(d, e)
  BY DEF PartOf
<1>2. BeginsIn(g, d, top, h)
  BY <1>1 DEF Placed, BeginsIn
<1>3. ASSUME NEW j \in 1..Len(h.data) PROVE Keeps(g, d, top, h.cells[j], h.data[j])
  <2>1. Keeps(f, d, top, e.cells[j], e.data[j]) /\ j \in 1..Len(e.data)
    BY <1>3 DEF Placed
  <2> QED
    BY <2>1 DEF Keeps
<1>4. ASSUME NEW j \in 0..(Len(h.data) - 1) PROVE Follows(g, PlaceOf(d, h, j), h.cells[j + 1])
  <2>1. Follows(f, PlaceOf(d, e, j), e.cells[j + 1])
    BY <1>4 DEF Placed
  <2>2. PlaceOf(d, h, j) = PlaceOf(d, e, j)
    BY <1>1 DEF PlaceOf, StartOf
  <2> QED
    BY <2>1, <2>2 DEF Follows
<1>5. Len(h.cells) = Len(h.data)
  BY DEF Placed
<1> QED
  BY <1>2, <1>3, <1>4, <1>5, Zenon DEF Placed

LEMMA SeekSetOk ==
  ASSUME NEW f, NEW s, NEW p, NEW r, r = [f |-> f, s |-> s, err |-> "ok"]
  PROVE  SeekSet(r, p) = [f |-> f, s |-> [s EXCEPT !.pos = p], err |-> "ok"]
<1>1. r.f = f /\ r.s = s /\ r.err = "ok"
  OBVIOUS
<1> QED
  BY <1>1, Zenon DEF SeekSet

\* No header is patched on a part that was left.
PatchesHere == "patch across parts" \notin Habits

\* In the part being written the writer goes back to the entry's first byte and returns.
LEMMA PatchCloseGoes ==
  ASSUME SplitInv, PatchesHere, NEW b \in Bytes, PatchClose(b)
  PROVE  LET n == Len(entries)
             e == entries[n]
         IN /\ phase = "entry" /\ call = "none" /\ phase' = "writing" /\ err = "ok" /\ err' = "ok"
            /\ split.number = e.disk /\ e.offset < split.pos /\ e.data # <<>>
            /\ split' = split /\ files' = [files EXCEPT ![split.base] = Overlay(@, e.offset, <<b>>)]
            /\ entries' = [entries EXCEPT ![n] = [e EXCEPT !.data = [e.data EXCEPT ![1] = b]]]
            /\ UNCHANGED <<call, left, todo, got, withCd, cdAt, diskSize, lost, writers, cursor, origin>>
<1> DEFINE e == entries[Len(entries)]
           s1 == [split EXCEPT !.number = e.disk]
           back == SeekSet(GotoDisk(files, s1, e.disk), e.offset)
           file == [back.f EXCEPT ![back.s.base] = Overlay(@, back.s.pos, <<b>>)]
           s2 == [back.s EXCEPT !.number = split.number]
           r == SeekSet(GotoDisk(file, s2, split.number), split.pos)
<1>1. /\ phase = "entry" /\ call = "none" /\ err = "ok" /\ e.data # <<>> /\ phase' = "writing"
      /\ split.number = e.disk /\ e.offset < split.pos /\ Result(r)
      /\ UNCHANGED <<call, left, todo, got, withCd, cdAt, diskSize, lost, writers, cursor, origin>>
  BY DEF PatchClose, Located, PatchesHere
<1>0. entries' = [entries EXCEPT ![Len(entries)].data[1] = b]
  BY DEF PatchClose
<1>2. split \in SplitType /\ split.diskSize = diskSize /\ split.mode \in {"create", "append"} /\ diskSize \in Nat
  BY <1>1, WritingFacts
<1> HIDE DEF s1, back, file, s2, r
<1>3. split.base # Closed /\ (split.number = split.current \/ (split.diskSize = 0 /\ split.mode # "read"))
  <2>1. CASE diskSize = 0
    BY <1>1, <1>2, <2>1, EntryFacts DEF Cd, Closed
  <2>2. CASE diskSize > 0
    BY <1>1, <1>2, <2>2, EntryFacts DEF AtEnd, Closed
  <2> QED
    BY <1>2, <2>1, <2>2
<1>4. e.offset \in Nat
  BY <1>1, EntryFacts, EntryTypes
<1> HIDE DEF e
<1>5. s1 = split
  BY <1>1, <1>2 DEF SplitType, s1
<1>6. GotoDisk(files, s1, e.disk) = [f |-> files, s |-> split, err |-> "ok"]
  <2>1. GotoDisk(files, split, split.number) = [f |-> files, s |-> split, err |-> "ok"]
    BY <1>2, <1>3, GotoSame
  <2> QED
    BY <1>1, <1>5, <2>1
<1> DEFINE t == [split EXCEPT !.pos = e.offset]
<1>7. back.f = files /\ back.s = t /\ back.err = "ok"
  <2>1. back = [f |-> files, s |-> t, err |-> "ok"]
    BY <1>6, SeekSetOk DEF back
  <2> QED
    BY <2>1
<1>8. t \in SplitType /\ t.base = split.base /\ t.pos = e.offset /\ t.number = split.number
      /\ t.current = split.current /\ t.diskSize = split.diskSize /\ t.mode = split.mode
  BY <1>2, <1>4 DEF SplitType
<1>9. [t EXCEPT !.pos = split.pos] = split /\ [t EXCEPT !.number = split.number] = t
  BY <1>2, <1>4 DEF SplitType
<1> HIDE DEF t
<1>10. s2 = t /\ file = [files EXCEPT ![split.base] = Overlay(@, e.offset, <<b>>)]
  BY <1>7, <1>8, <1>9 DEF s2, file
<1>11. GotoDisk(file, s2, split.number) = [f |-> file, s |-> t, err |-> "ok"]
  BY <1>3, <1>8, <1>10, GotoSame
<1>12. r.f = file /\ r.s = split /\ r.err = "ok"
  <2>1. r = [f |-> file, s |-> [t EXCEPT !.pos = split.pos], err |-> "ok"]
    BY <1>11, SeekSetOk DEF r
  <2> QED
    BY <1>9, <2>1
<1>13. files' = file /\ split' = split /\ err' = "ok"
  BY <1>1, <1>12 DEF Result
<1>14. entries' = [entries EXCEPT ![Len(entries)] = [e EXCEPT !.data = [e.data EXCEPT ![1] = b]]]
  BY <1>0 DEF e
<1> QED
  BY <1>1, <1>10, <1>13, <1>14 DEF e

LEMMA PatchCloseKeeps ==
  ASSUME SplitInv, PatchesHere, NEW b \in Bytes, PatchClose(b)
  PROVE  SplitInv'
<1> DEFINE n == Len(entries)
           e == entries[n]
           y == [e.data EXCEPT ![1] = b]
           h == [e EXCEPT !.data = y]
           d == diskSize
           m == split.base
           p == e.offset
           o == Overlay(files[m], p, <<b>>)
           g == files'
<1>1. /\ phase = "entry" /\ call = "none" /\ phase' = "writing" /\ err = "ok" /\ err' = "ok"
      /\ split.number = e.disk /\ p < split.pos /\ e.data # <<>>
      /\ split' = split /\ g = [files EXCEPT ![m] = o]
      /\ entries' = [entries EXCEPT ![n] = h]
      /\ UNCHANGED <<call, left, todo, got, withCd, cdAt, diskSize, lost, writers, cursor, origin>>
  BY PatchCloseGoes
<1>2. /\ split \in SplitType /\ split.diskSize = d /\ split.mode \in {"create", "append"}
      /\ writers > 0 /\ writers \in Nat /\ d \in Nat /\ Top \in Int /\ ~lost /\ cursor[1] = 0
      /\ Held(files) /\ \A i \in DOMAIN files : files[i] \in Seq(Stored) /\ Len(files[i]) \in Nat
      /\ PartsInv /\ Parts(d, Top) \subseteq DOMAIN files /\ DOMAIN files \subseteq {Cd} \cup Parts(d, Top)
      /\ entries \in Seq(EntryType)
      /\ \A i \in 1..n : entries[i] \in EntryType /\ Placed(files, d, Top, entries[i]) /\ (d = 0 => UpTo(Mark, entries[i]))
  BY <1>1, WritingFacts
<1>3. /\ n \in Nat /\ n > 0 /\ n \in 1..n /\ Len(e.data) \in Nat /\ e \in EntryType
      /\ \A i \in 1..(n - 1) : \A j \in 1..Len(entries[i].data) : Precedes(entries[i].cells[j], StartOf(d, e))
      /\ Top = split.number /\ Mark = split.pos /\ Writing
      /\ d = 0 => split.number = 0 /\ m = Cd /\ split.pos <= Len(files[Cd]) /\ Cd \in DOMAIN files
      /\ d > 0 => AtEnd /\ split.number >= 0 /\ split.number \in DOMAIN files
  BY <1>1, EntryFacts
<1>4. \A j \in 2..Len(e.data) : e.cells[j] # e.cells[1]
  BY <1>1 DEF SplitInv, EntryInv
<1> HIDE DEF e, n
<1>5. Placed(files, d, Top, e) /\ (d = 0 => UpTo(Mark, e))
  BY <1>2, <1>3 DEF e
<1>6. e.data \in Seq(Bytes) /\ e.disk \in Nat /\ p \in Nat /\ Len(e.data) > 0 /\ 1 \in 1..Len(e.data)
  <2>1. e.data \in Seq(Bytes) /\ e.disk \in Nat /\ p \in Nat
    BY <1>3, EntryTypes
  <2>2. Len(e.data) # 0
    BY <1>1, <2>1, EmptySeq
  <2> QED
    BY <1>3, <2>1, <2>2
<1>7. /\ m = PartOf(d, e) /\ m \in DOMAIN files /\ m \in Int /\ split.pos <= Len(files[m]) /\ split.pos \in Nat
      /\ files[m] \in Seq(Stored) /\ Len(files[m]) \in Nat /\ (d > 0 => m = Top)
  <2>1. CASE d = 0
    BY <1>2, <1>3, <2>1 DEF PartOf, SplitType
  <2>2. CASE d > 0
    BY <1>1, <1>2, <1>3, <2>2 DEF PartOf, SplitType, AtEnd
  <2> QED
    BY <1>2, <2>1, <2>2
<1>8. e.cells[1] = <<m, p + 1>>
  <2>1. Follows(files, <<m, p>>, e.cells[1])
    <3>1. 0 \in 0..(Len(e.data) - 1) /\ 0 + 1 = 1
      BY <1>6
    <3>2. Follows(files, PlaceOf(d, e, 0), e.cells[0 + 1])
      BY <1>5, <3>1 DEF Placed
    <3> QED
      BY <1>7, <3>1, <3>2 DEF PlaceOf, StartOf
  <2>2. p # Len(files[m])
    BY <1>1, <1>6, <1>7
  <2> QED
    BY <1>7, <2>1, <2>2 DEF Follows
<1> HIDE DEF o, p, d, m, g
<1>9. /\ o \in Seq(Stored) /\ Len(o) = Len(files[m]) /\ p + 1 \in Nat /\ o[p + 1] = b
      /\ \A q \in 1..Len(files[m]) : q # p + 1 => o[q] = files[m][q]
  <2> DEFINE l == Len(files[m])
             z == <<b>>
  <2>1. l \in Nat /\ p \in Nat /\ p + 1 <= l /\ z \in Seq(Stored) /\ Len(z) = 1 /\ z[1] = b
    BY <1>1, <1>6, <1>7 DEF Stored
  <2>2. p \in 0..l /\ o = Overlay(files[m], p, z)
    BY <2>1 DEF o
  <2> HIDE DEF z
  <2>3. o \in Seq(Stored) /\ Written(o, files[m], p, z)
    BY <1>7, <2>1, <2>2, OverlayProperties DEF l
  <2>4. Len(o) = Longer(l, p + 1)
        /\ \A q \in 1..Longer(l, p + 1) : o[q] = IF q \in (p + 1)..(p + 1) THEN z[q - p] ELSE files[m][q]
    BY <2>1, <2>3 DEF Written
  <2> HIDE DEF l
  <2>5. Longer(l, p + 1) = l
    BY <2>1 DEF Longer
  <2>6. p + 1 \in 1..l /\ p + 1 \in (p + 1)..(p + 1) /\ (p + 1) - p = 1
    BY <2>1
  <2>7. o[p + 1] = z[1]
    BY <2>4, <2>5, <2>6
  <2>8. ASSUME NEW q \in 1..l, q # p + 1 PROVE o[q] = files[m][q]
    <3>1. q \notin (p + 1)..(p + 1)
      BY <2>1, <2>8
    <3> QED
      BY <2>4, <2>5, <3>1
  <2> QED
    BY <2>1, <2>3, <2>4, <2>5, <2>7, <2>8 DEF l
<1>10. PartIsSet(g, files, m, o)
  BY <1>1, <1>2, <1>7, <1>9, HeldExcept
<1>11. Held(g) /\ DOMAIN g = DOMAIN files /\ g[m] = o /\ \A i \in DOMAIN files : i # m => g[i] = files[i]
  BY <1>7, <1>10 DEF PartIsSet
<1>12. \A i \in DOMAIN files : Len(g[i]) = Len(files[i])
  BY <1>9, <1>11
<1>13. ASSUME NEW x \in EntryType, NEW j \in 1..Len(x.data), Placed(files, d, Top, x), x.cells[j] # <<m, p + 1>>,
              x.cells[j][1] \in DOMAIN g
       PROVE  g[x.cells[j][1]][x.cells[j][2]] = x.data[j]
  <2> DEFINE c1 == x.cells[j][1]
             c2 == x.cells[j][2]
  <2>1. Keeps(files, d, Top, x.cells[j], x.data[j]) /\ x.cells[j] \in Int \X Nat /\ c2 \in Nat
    BY <1>13, EntryTypes DEF Placed
  <2>2. c2 >= 1 /\ c1 \in DOMAIN files /\ c2 <= Len(files[c1]) /\ files[c1][c2] = x.data[j]
    BY <1>11, <1>13, <2>1 DEF Keeps
  <2>3. x.cells[j] = <<c1, c2>>
    BY <2>1
  <2> HIDE DEF c1, c2
  <2>4. CASE c1 = m
    <3>1. c2 # p + 1 /\ c2 \in 1..Len(files[m])
      BY <1>7, <1>13, <2>1, <2>2, <2>3, <2>4
    <3> QED
      BY <1>9, <1>11, <2>2, <2>4, <3>1 DEF c1, c2
  <2>5. CASE c1 # m
    BY <1>11, <2>2, <2>5 DEF c1, c2
  <2> QED
    BY <2>4, <2>5
<1>14. ASSUME NEW i \in 1..n, i # n PROVE Placed(g, d, Top, entries[i]) /\ (d = 0 => UpTo(Mark, entries[i]))
  <2> DEFINE x == entries[i]
  <2>1. x \in EntryType /\ Placed(files, d, Top, x) /\ (d = 0 => UpTo(Mark, x))
    BY <1>2
  <2>2. i \in 1..(n - 1)
    BY <1>3, <1>14
  <2>3. \A j \in 1..Len(x.data) : Precedes(x.cells[j], <<m, p>>)
    BY <1>3, <1>7, <2>2 DEF StartOf, p
  <2> HIDE DEF x
  <2>4. \A j \in 1..Len(x.data) : x.cells[j] # <<m, p + 1>>
    <3>1. ~(p + 1 <= p) /\ ~(m < m)
      BY <1>6, <1>7
    <3> QED
      BY <2>3, <3>1 DEF Precedes
  <2>5. \A j \in 1..Len(x.data) : x.cells[j][1] \in DOMAIN g => g[x.cells[j][1]][x.cells[j][2]] = x.data[j]
    BY <1>13, <2>1, <2>4
  <2>6. Placed(g, d, Top, x)
    BY <1>11, <1>12, <2>1, <2>5, PatchFrame
  <2> QED
    BY <2>1, <2>6 DEF x
<1>15. /\ y \in Seq(Bytes) /\ Len(y) = Len(e.data) /\ y[1] = b
       /\ \A j \in 1..Len(e.data) : j # 1 => y[j] = e.data[j]
  BY <1>6, ExceptSeq
<1> HIDE DEF y
<1>16. h \in EntryType /\ h.data = y /\ h.cells = e.cells /\ h.disk = e.disk /\ h.offset = e.offset
  BY <1>3, <1>15 DEF EntryType
<1> HIDE DEF h
<1>17. Placed(g, d, Top, h) /\ (d = 0 => UpTo(Mark, h))
  <2>1. ASSUME NEW j \in 1..Len(e.data), e.cells[j][1] \in DOMAIN g PROVE g[e.cells[j][1]][e.cells[j][2]] = h.data[j]
    <3>1. CASE j = 1
      BY <1>8, <1>9, <1>11, <1>15, <1>16, <3>1
    <3>2. CASE j # 1
      <4>1. j \in 2..Len(e.data)
        BY <1>3, <2>1, <3>2
      <4>2. e.cells[j] # <<m, p + 1>>
        BY <1>4, <1>8, <4>1
      <4>3. g[e.cells[j][1]][e.cells[j][2]] = e.data[j]
        BY <1>3, <1>5, <1>13, <2>1, <4>2
      <4> QED
        BY <1>15, <1>16, <2>1, <3>2, <4>3
    <3> QED
      BY <3>1, <3>2
  <2>2. Placed(g, d, Top, h)
    BY <1>3, <1>5, <1>11, <1>12, <1>15, <1>16, <2>1, PatchFrame
  <2>3. d = 0 => UpTo(Mark, h)
    BY <1>5, <1>15, <1>16 DEF UpTo
  <2> QED
    BY <2>2, <2>3
<1>18. /\ entries' \in Seq(EntryType) /\ Len(entries') = n /\ entries'[n] = h
       /\ \A i \in 1..n : i # n => entries'[i] = entries[i]
  BY <1>1, <1>2, <1>3, <1>16, ExceptSeq DEF n
<1>19. /\ Writing' /\ Top' = Top /\ Mark' = Mark /\ diskSize' = d /\ diskSize = d /\ files' = g /\ split' = split
       /\ d \in Nat /\ split.diskSize = d
  BY <1>1, <1>2, <1>3 DEF Writing, Top, Mark, d, g
<1>20. EntriesInv'
  <2>1. ASSUME NEW i \in 1..n PROVE Placed(g, d, Top, entries'[i]) /\ (d = 0 => UpTo(Mark, entries'[i]))
    <3>1. CASE i = n
      BY <1>17, <1>18, <3>1
    <3>2. CASE i # n
      BY <1>14, <1>18, <3>2
    <3> QED
      BY <3>1, <3>2
  <2> QED
    BY <1>18, <1>19, <2>1 DEF EntriesInv
<1>21. PartsInv'
  <2>1. 0 \in DOMAIN g => g[0] # <<>> /\ g[0][1] = DiskHeader
    <3> SUFFICES ASSUME 0 \in DOMAIN files PROVE g[0] # <<>> /\ g[0][1] = DiskHeader
      BY <1>11
    <3>1. files[0] # <<>> /\ files[0][1] = DiskHeader /\ files[0] \in Seq(Stored) /\ Len(files[0]) \in Nat
      BY <1>2 DEF PartsInv
    <3>2. CASE m = 0
      <4>1. p >= 1
        BY <1>5, <1>7, <3>2 DEF Placed, BeginsIn, p
      <4>2. Len(files[0]) # 0
        BY <3>1, EmptySeq
      <4>3. 1 \in 1..Len(files[m]) /\ 1 # p + 1 /\ Len(o) # 0
        BY <1>6, <1>9, <3>1, <3>2, <4>1, <4>2
      <4>4. o[1] = DiskHeader /\ o # <<>>
        BY <1>9, <3>1, <3>2, <4>3, EmptySeq
      <4> QED
        BY <1>11, <3>2, <4>4
    <3>3. CASE m # 0
      BY <1>11, <3>1, <3>3
    <3> QED
      BY <3>2, <3>3
  <2>2. PartsInv /\ UNCHANGED <<withCd, cdAt, lost>>
    BY <1>1, <1>2
  <2> QED
    BY <1>3, <1>11, <1>12, <1>19, <2>1, <2>2 DEF PartsInv
<1>22. WriterInv'
  <2>1. WriterInv
    BY DEF SplitInv
  <2>2. d = 0 => split.pos <= Len(g[Cd])
    BY <1>3, <1>7, <1>12
  <2>3. d > 0 => Len(g[split.number]) = Len(files[split.number])
    BY <1>3, <1>12
  <2> QED
    BY <1>1, <1>2, <1>3, <1>11, <1>19, <2>1, <2>2, <2>3 DEF WriterInv, AtEnd
<1>23. EntryInv' /\ DirectoryInv'
  BY <1>1 DEF EntryInv, DirectoryInv
<1>24. FilledInv'
  <2>1. FilledInv /\ writers' = writers /\ (d > 0 => split.number \in DOMAIN files)
    BY <1>1, <1>3 DEF SplitInv
  <2> QED
    BY <1>3, <1>11, <1>12, <1>19, <2>1 DEF FilledInv
<1>25. TypeInv
  BY DEF SplitInv
<1> QED
  BY <1>1, <1>2, <1>11, <1>18, <1>19, <1>20, <1>21, <1>22, <1>23, <1>24, <1>25, WriterKeeps DEF TypeInv

-----------------------------------------------------------------------------
(* The invariant holds *)

LEMMA InitKeeps == Init => SplitInv
<1> SUFFICES ASSUME Init PROVE SplitInv
  OBVIOUS
<1>1. /\ files = <<>> /\ call = "none" /\ left = 0 /\ todo = <<>> /\ got = <<>> /\ err = "ok"
      /\ entries = <<>> /\ withCd = 0 /\ cdAt = 0 /\ diskSize = 0 /\ lost = FALSE /\ writers = 0
      /\ phase = "closed" /\ cursor = <<0, 0>> /\ origin = 0
  BY DEF Init
<1>2. DOMAIN files = {} /\ Held(files)
  <2>1. DOMAIN files = 1..Len(files) /\ Len(files) = 0 /\ files \in Seq(Seq(Stored))
    BY <1>1
  <2>2. DOMAIN files = {}
    BY <2>1
  <2>3. files \in [1..Len(files) -> Seq(Stored)]
    BY <2>1
  <2> QED
    BY <2>1, <2>2, <2>3 DEF Held
<1>3. TypeInv
  <2>1. <<>> \in Seq(EntryType) /\ <<>> \in Seq(Stored) /\ <<0, 0>> \in Nat \X Nat
    OBVIOUS
  <2>2. entries \in Seq(EntryType) /\ got \in Seq(Stored) /\ todo \in Seq(Stored) /\ cursor \in Nat \X Nat
    BY <1>1, <2>1, Zenon
  <2>3. lost \in BOOLEAN
    BY <1>1, Zenon
  <2>4. withCd \in Nat /\ cdAt \in Nat /\ diskSize \in Nat /\ writers \in Nat /\ left \in Nat /\ origin \in Nat
    BY <1>1
  <2>5. /\ call \in {"none", "read", "write", "skip"} /\ err \in {"ok", "exist", "open"}
        /\ phase \in {"closed", "writing", "entry", "directory", "reading"}
    BY <1>1
  <2> QED
    BY <1>2, <2>2, <2>3, <2>4, <2>5 DEF TypeInv
<1>4. PhaseInv /\ FilesInv
  BY <1>1, <1>2 DEF PhaseInv, FilesInv
<1>5. EntriesInv
  BY <1>1 DEF EntriesInv
<1>6. WriterInv /\ DirectoryInv /\ EntryInv /\ ReaderInv /\ FilledInv
  BY <1>1 DEF WriterInv, DirectoryInv, EntryInv, ReaderInv, FilledInv, Writing
<1> QED
  BY <1>3, <1>4, <1>5, <1>6 DEF SplitInv

LEMMA StutterKeeps ==
  ASSUME SplitInv, UNCHANGED vars
  PROVE  SplitInv'
<1>1. UNCHANGED <<files, split, call, left, todo, got, err, entries, withCd, cdAt, diskSize, lost, writers,
                  phase, cursor, origin>>
  BY DEF vars, callVars, archive
<1>2. Writing' = Writing /\ Top' = Top /\ Mark' = Mark /\ AtEnd' = AtEnd /\ AtDirectory' = AtDirectory
  BY <1>1 DEF Writing, Top, Mark, AtEnd, AtDirectory
<1>3. TypeInv' /\ PhaseInv' /\ FilesInv' /\ EntriesInv'
  <2>1. TypeInv /\ PhaseInv /\ FilesInv /\ EntriesInv
    BY DEF SplitInv
  <2>2. TypeInv'
    BY <1>1, <2>1 DEF TypeInv
  <2>3. PhaseInv'
    BY <1>1, <2>1 DEF PhaseInv
  <2>4. FilesInv'
    BY <1>1, <1>2, <2>1 DEF FilesInv, PartsInv
  <2>5. EntriesInv'
    BY <1>1, <1>2, <2>1, Zenon DEF EntriesInv
  <2> QED
    BY <2>2, <2>3, <2>4, <2>5
<1>4. WriterInv' /\ DirectoryInv' /\ EntryInv' /\ FilledInv'
  <2>1. WriterInv /\ DirectoryInv /\ EntryInv /\ FilledInv
    BY DEF SplitInv
  <2>2. WriterInv'
    BY <1>1, <1>2, <2>1 DEF WriterInv
  <2>3. DirectoryInv'
    BY <1>1, <2>1 DEF DirectoryInv
  <2>4. EntryInv'
    BY <1>1, <2>1 DEF EntryInv
  <2>5. FilledInv'
    BY <1>1, <1>2, <2>1 DEF FilledInv
  <2> QED
    BY <2>2, <2>3, <2>4, <2>5
<1>5. ReaderInv'
  <2>1. ReaderInv
    BY DEF SplitInv
  <2> QED
    BY <1>1, <2>1 DEF ReaderInv, CursorInv, ReaderAt
<1> QED
  BY <1>3, <1>4, <1>5 DEF SplitInv

\* Every step keeps the invariant, and a read that ends without an error has handed out something.
LEMMA StepKeeps ==
  ASSUME SplitInv, PatchesHere, [Next]_vars
  PROVE  SplitInv'
<1>1. ASSUME NEW size \in DiskSizes, OpenCreate(size) PROVE SplitInv'
  BY <1>1, OpenCreateKeeps
<1>2. CASE OpenAppend
  BY <1>2, OpenAppendKeeps
<1>3. CASE WriteOpen
  BY <1>3, WriteOpenKeeps
<1>4. ASSUME NEW d \in Strings(MaxIO), WriteCall(d) PROVE SplitInv'
  BY <1>4, WriteCallKeeps
<1>5. CASE WriteLoop
  BY <1>5, WriteLoopKeeps
<1>6. CASE WriteClose
  BY <1>6, WriteCloseKeeps
<1>7. ASSUME NEW b \in Bytes, PatchClose(b) PROVE SplitInv'
  BY <1>7, PatchCloseKeeps
<1>8. CASE DirectoryOpen
  BY <1>8, DirectoryOpenKeeps
<1>9. CASE CloseWriter
  BY <1>9, CloseWriterKeeps
<1>10. CASE OpenRead
  BY <1>10, OpenReadKeeps
<1>11. ASSUME NEW i \in DOMAIN entries, SeekEntry(i) PROVE SplitInv'
  BY <1>11, SeekEntryKeeps
<1>12. ASSUME NEW n \in 1..MaxIO, ReadCall(n) PROVE SplitInv'
  BY <1>12, ReadCallKeeps
<1>13. CASE ReadLoop
  BY <1>13, ReadLoopKeeps
<1>14. ASSUME NEW k \in 1..MaxIO, SkipCall(k) PROVE SplitInv'
  BY <1>14, SkipCallKeeps
<1>15. CASE SkipLoop
  BY <1>15, SkipLoopKeeps
<1>16. CASE CloseReader
  BY <1>16, CloseReaderKeeps
<1>17. ASSUME NEW n \in DOMAIN files, Lose(n) PROVE SplitInv'
  BY <1>17, LoseKeeps
<1>18. CASE UNCHANGED vars
  BY <1>18, StutterKeeps
<1> QED
  BY <1>1, <1>2, <1>3, <1>4, <1>5, <1>6, <1>7, <1>8, <1>9, <1>10, <1>11, <1>12, <1>13, <1>14, <1>15,
     <1>16, <1>17, <1>18 DEF Next

LEMMA SplitInvariant ==
  ASSUME PatchesHere
  PROVE  Spec => []SplitInv
<1>1. SplitInv /\ [Next]_vars => SplitInv'
  BY StepKeeps
<1> QED
  BY <1>1, InitKeeps, PTL DEF Spec

-----------------------------------------------------------------------------
(* Theorems *)

LEMMA SplitInvReads == SplitInv => ReadIsEntry
<1> SUFFICES ASSUME SplitInv PROVE ReadIsEntry
  OBVIOUS
<1>1. phase = "reading" /\ ~lost => err = "ok"
  BY DEF SplitInv, ReaderInv
<1>2. ASSUME cursor[1] # 0
      PROVE  got = SubSeq(entries[cursor[1]].data, origin + 1, origin + Len(got))
  <2> DEFINE e == entries[cursor[1]]
             x == e.data
             b == origin + Len(got)
  <2>1. phase = "reading"
    BY <1>2 DEF SplitInv, PhaseInv
  <2>2. ReaderInv /\ TypeInv
    BY DEF SplitInv
  <2>3. /\ cursor[1] \in Nat /\ cursor[1] <= Len(entries) /\ cursor[2] \in Nat /\ origin \in Nat /\ got \in Seq(Stored)
        /\ entries \in Seq(EntryType) /\ Len(entries) \in Nat /\ Len(got) \in Nat
        /\ cursor[2] <= Len(e.data) /\ b = cursor[2] /\ \A i \in 1..Len(got) : got[i] = e.data[origin + i]
    BY <1>2, <2>1, <2>2, LenProperties DEF ReaderInv, CursorInv, TypeInv
  <2>4. e \in EntryType
    BY <1>2, <2>3, ElementOfSeq
  <2>5. x \in Seq(Bytes) /\ Len(x) \in Nat /\ x \in Seq(Stored)
    <3>1. x \in Seq(Bytes) /\ Len(x) \in Nat
      BY <2>4, EntryTypes
    <3> QED
      BY <3>1 DEF Stored
  <2>6. IsPart(got, x, origin, b) /\ origin <= b /\ b \in 0..Len(x)
    <3>1. b - origin = Len(got) /\ origin <= b /\ b \in 0..Len(x)
      BY <2>3, <2>5
    <3> QED
      BY <2>3, <3>1 DEF IsPart
  <2> HIDE DEF x, b
  <2>7. got = SubSeq(x, origin + 1, b)
    BY <2>3, <2>5, <2>6, PartIsSubSeq
  <2> QED
    BY <2>7 DEF x, b
<1> QED
  BY <1>1, <1>2 DEF ReadIsEntry

LEMMA SplitInvFull == SplitInv => PartsAreFull
<1> SUFFICES ASSUME SplitInv, writers = 1, diskSize > 0, NEW n \in DOMAIN files \ {Cd}
             PROVE  Len(files[n]) <= diskSize /\ (n + 1 \in DOMAIN files => Len(files[n]) = diskSize)
  BY DEF PartsAreFull
<1>1. PartsInv /\ FilledInv /\ Top \in Int
  BY DEF SplitInv, FilesInv, TypeInv, PhaseInv, Top, SplitType, Writing
<1>2. n \in 0..Top
  BY <1>1 DEF PartsInv, Parts
<1>3. n + 1 \in DOMAIN files => n < Top
  BY <1>1, <1>2 DEF PartsInv, Parts, Cd
<1> QED
  BY <1>1, <1>3 DEF FilledInv

\* What is read from an entry of a split archive is what was written to it, across the ends of parts
\* and after skips, and as long as no part is missing no read fails (mz_stream_split_read, _write,
\* _seek, _goto_disk): for all sizes of parts, entries and calls, when no header is patched on a part
\* that was left.
THEOREM ReadsAreOfEntry ==
  ASSUME PatchesHere
  PROVE  Spec => []ReadIsEntry
<1> QED
  BY SplitInvariant, SplitInvReads, PTL

\* An entry whose next part is missing is never taken for a shorter one: a read that ends without an
\* error has handed out something (mz_stream_split_read at the end of a part).
THEOREM NoEndIsSilent ==
  ASSUME PatchesHere
  PROVE  Spec => NoSilentEnd
<1>1. SplitInv /\ [Next]_vars => [ReadLoop /\ call' = "none" /\ err' = "ok" => got' # <<>>]_vars
  BY ReadLoopKeeps
<1> QED
  BY <1>1, SplitInvariant, PTL DEF Spec, NoSilentEnd

\* A writer that made the archive has filled every part but the last and overfilled none
\* (mz_stream_split_write): it goes on to the next part at the right byte, whatever the sizes of the
\* writes.
THEOREM FullPartsAlways ==
  ASSUME PatchesHere
  PROVE  Spec => []PartsAreFull
<1> QED
  BY SplitInvariant, SplitInvFull, PTL

\* Every byte of every entry stays where it was written, behind the one before, in its part or at the
\* beginning of the next, through every later writer and every patch of a header
\* (mz_stream_split_write, _goto_disk, _open_disk): no session writes over an entry.
THEOREM EntriesStay ==
  ASSUME PatchesHere
  PROVE  Spec => []EntriesInv
<1>1. SplitInv => EntriesInv
  BY DEF SplitInv
<1> QED
  BY <1>1, SplitInvariant, PTL

-----------------------------------------------------------------------------
(* The order of the bytes *)

\* The bytes of the entries lie in the order in which they were written, and the parts hold no others.
Before(c, d) == c[1] < d[1] \/ (c[1] = d[1] /\ c[2] < d[2])
InOrder(es) ==
  \A i \in 1..Len(es), u \in 1..Len(es) :
    \A j \in 1..Len(es[i].data), v \in 1..Len(es[u].data) :
      i < u \/ (i = u /\ j < v) => Before(es[i].cells[j], es[u].cells[v])
Covered(es, n, q) ==
  \E i \in 1..Len(es) : \E j \in 1..Len(es[i].data) : es[i].cells[j] = <<n, q>>
NothingElse(f, es) ==
  \A n \in DOMAIN f : \A q \in 1..Len(f[n]) : f[n][q] \in Bytes => Covered(es, n, q)
OrderInv == InOrder(entries) /\ NothingElse(files, entries)

\* The bytes in parts g are bytes in parts f.
OnlyOf(g, f) ==
  \A n \in DOMAIN g : \A q \in 1..Len(g[n]) :
    g[n][q] \in Bytes => n \in DOMAIN f /\ q \in 1..Len(f[n]) /\ f[n][q] \in Bytes

LEMMA OnlyOfSame == ASSUME NEW f PROVE OnlyOf(f, f)
BY DEF OnlyOf

\* The entries es with the bytes of their cells changed at most.
SameCells(fs, es) ==
  /\ Len(fs) = Len(es)
  /\ \A i \in 1..Len(es) : Len(fs[i].data) = Len(es[i].data) /\ fs[i].cells = es[i].cells

LEMMA StaysInOrder ==
  ASSUME OrderInv, OnlyOf(files', files), SameCells(entries', entries)
  PROVE  OrderInv'
<1>1. InOrder(entries')
  <2>1. InOrder(entries)
    BY DEF OrderInv
  <2> QED
    BY <2>1 DEF InOrder, SameCells
<1>2. \A n, q : Covered(entries, n, q) => Covered(entries', n, q)
  BY DEF Covered, SameCells
<1>3. NothingElse(files', entries')
  <2>1. NothingElse(files, entries)
    BY DEF OrderInv
  <2> QED
    BY <1>2, <2>1 DEF NothingElse, OnlyOf
<1> QED
  BY <1>1, <1>3 DEF OrderInv

LEMMA StaysWithEntries ==
  ASSUME OrderInv, OnlyOf(files', files), UNCHANGED entries
  PROVE  OrderInv'
<1>1. SameCells(entries', entries)
  BY DEF SameCells
<1> QED
  BY <1>1, StaysInOrder

\* Turning to a part adds a disk header at most.
LEMMA OpenDiskOnly ==
  ASSUME NEW f, Held(f), NEW s, NEW n
  PROVE  OnlyOf(OpenDisk(f, s, n).f, f)
<1> DEFINE p == PathOf(s, n)
           old == IF s.mode = "create" THEN <<>> ELSE f[p]
           header == s.mode # "read" /\ n = 0 /\ s.diskSize > 0
           new == IF header THEN Append(old, DiskHeader) ELSE old
           g == OpenDisk(f, s, n).f
<1>1. g = f \/ ((s.mode # "create" => p \in DOMAIN f) /\ g = WithPart(f, p, new))
  BY DEF OpenDisk
<1>2. CASE g = f
  BY <1>2, OnlyOfSame
<1>3. CASE (s.mode # "create" => p \in DOMAIN f) /\ g = WithPart(f, p, new)
  <2>1. old = <<>> \/ (p \in DOMAIN f /\ old = f[p])
    BY <1>3
  <2>2. old \in Seq(Stored)
    <3>1. <<>> \in Seq(Stored) /\ (p \in DOMAIN f => f[p] \in Seq(Stored))
      BY DEF Held
    <3> HIDE DEF old
    <3> QED
      BY <2>1, <3>1
  <2>3. DiskHeader \notin Bytes
    BY SplitAssumption
  <2> HIDE DEF old, g, p
  <2>4. ASSUME NEW q \in 1..Len(new), new[q] \in Bytes PROVE q \in 1..Len(old) /\ new[q] = old[q]
    <3>1. CASE header
      <4>1. new = Append(old, DiskHeader)
        BY <3>1
      <4> HIDE DEF new
      <4>2. Len(new) = Len(old) + 1 /\ Len(old) \in Nat
        BY <2>2, <4>1
      <4>3. q = Len(old) + 1 => new[q] = DiskHeader
        BY <2>2, <4>1
      <4>4. q \in 1..Len(old)
        BY <2>3, <2>4, <4>2, <4>3
      <4> QED
        BY <2>2, <4>1, <4>4
    <3>2. CASE ~header
      BY <2>4, <3>2
    <3> QED
      BY <3>1, <3>2
  <2>5. ASSUME NEW q \in 1..Len(new), new[q] \in Bytes
        PROVE  p \in DOMAIN f /\ q \in 1..Len(f[p]) /\ f[p][q] \in Bytes
    <3>1. q \in 1..Len(old) /\ old[q] \in Bytes
      BY <2>4, <2>5
    <3>2. old # <<>>
      BY <3>1
    <3> QED
      BY <2>1, <3>1, <3>2
  <2> HIDE DEF new
  <2>6. /\ DOMAIN g = DOMAIN f \cup {p} /\ g[p] = new
        /\ \A m \in DOMAIN f : m # p => g[m] = f[m]
    BY <1>3 DEF WithPart
  <2>7. OnlyOf(g, f)
    <3> SUFFICES ASSUME NEW m \in DOMAIN g, NEW q \in 1..Len(g[m]), g[m][q] \in Bytes
                 PROVE  m \in DOMAIN f /\ q \in 1..Len(f[m]) /\ f[m][q] \in Bytes
      BY DEF OnlyOf
    <3>1. CASE m = p
      BY <2>5, <2>6, <3>1
    <3>2. CASE m # p
      BY <2>6, <3>2
    <3> QED
      BY <3>1, <3>2
  <2> QED
    BY <2>7 DEF g
<1> QED
  BY <1>1, <1>2, <1>3

LEMMA GotoDiskOnly ==
  ASSUME NEW f, Held(f), NEW s, NEW n
  PROVE  OnlyOf(GotoDisk(f, s, n).f, f)
<1> DEFINE g == GotoDisk(f, s, n).f
           t == [s EXCEPT !.base = Closed]
<1>1. g = f \/ g = OpenDisk(f, s, n).f \/ g = OpenDisk(f, t, n).f
  <2> DEFINE o == OpenDisk(f, t, n)
  <2>1. PICK a, b, c : o = [f |-> a, s |-> b, err |-> c]
    BY DEF OpenDisk
  <2> HIDE DEF o
  <2>2. [o EXCEPT !.s.number = n].f = o.f
    BY <2>1
  <2> USE DEF o
  <2> QED
    BY <2>2 DEF GotoDisk
<1> HIDE DEF g, t
<1> QED
  BY <1>1, OnlyOfSame, OpenDiskOnly DEF g

LEMMA TurningKeepsOrder ==
  ASSUME OrderInv, Held(files), NEW s, NEW n, NEW p,
         \/ Result(GotoDisk(files, s, n))
         \/ Result(SeekSet(GotoDisk(files, s, n), p)),
         UNCHANGED entries
  PROVE  OrderInv'
<1> DEFINE r == GotoDisk(files, s, n)
<1>1. SeekSet(r, p).f = r.f
  BY DEF SeekSet
<1>2. files' = r.f
  BY <1>1 DEF Result
<1> HIDE DEF r
<1>3. OnlyOf(files', files)
  BY <1>2, GotoDiskOnly DEF r
<1> QED
  BY <1>3, StaysWithEntries

LEMMA IdleKeepsOrder ==
  ASSUME OrderInv, UNCHANGED <<files, entries>>
  PROVE  OrderInv'
BY OnlyOfSame, StaysWithEntries

LEMMA OpensKeepOrder ==
  ASSUME SplitInv, OrderInv,
         \/ \E size \in DiskSizes : OpenCreate(size)
         \/ DirectoryOpen \/ OpenRead
         \/ \E i \in DOMAIN entries : SeekEntry(i)
         \/ \E n \in 1..MaxIO : ReadCall(n) \/ SkipCall(n)
  PROVE  OrderInv'
<1>0. Held(files)
  BY DEF SplitInv, TypeInv
<1>1. ASSUME NEW size \in DiskSizes, OpenCreate(size) PROVE OrderInv'
  <2>1. entries' = entries
    BY <1>1 DEF OpenCreate, SplitInv, PhaseInv
  <2> QED
    BY <1>0, <1>1, <2>1, TurningKeepsOrder DEF OpenCreate, Opened
<1>2. CASE DirectoryOpen
  BY <1>0, <1>2, TurningKeepsOrder DEF DirectoryOpen, Located
<1>3. CASE OpenRead
  BY <1>0, <1>3, TurningKeepsOrder DEF OpenRead, Opened, archive
<1>4. ASSUME NEW i \in DOMAIN entries, SeekEntry(i) PROVE OrderInv'
  BY <1>0, <1>4, TurningKeepsOrder DEF SeekEntry, Located, archive
<1>5. ASSUME NEW n \in 1..MaxIO, ReadCall(n) PROVE OrderInv'
  BY <1>0, <1>5, TurningKeepsOrder DEF ReadCall, archive
<1>6. ASSUME NEW n \in 1..MaxIO, SkipCall(n) PROVE OrderInv'
  BY <1>0, <1>6, TurningKeepsOrder DEF SkipCall, archive
<1> QED
  BY <1>1, <1>2, <1>3, <1>4, <1>5, <1>6

LEMMA LoseKeepsOrder ==
  ASSUME OrderInv, NEW n \in DOMAIN files, Lose(n)
  PROVE  OrderInv'
<1>1. files' = [m \in DOMAIN files \ {n} |-> files[m]] /\ UNCHANGED entries
  BY DEF Lose
<1>2. OnlyOf(files', files)
  BY <1>1 DEF OnlyOf
<1> QED
  BY <1>1, <1>2, StaysWithEntries

LEMMA WriteOpenKeepsOrder ==
  ASSUME SplitInv, OrderInv, WriteOpen
  PROVE  OrderInv'
<1> DEFINE r == GotoDisk(files, [split EXCEPT !.number = split.number], split.number)
           a == EntryAt(r.s)
<1>1. files' = r.f /\ entries' = (IF r.err = "ok" THEN Append(entries, a) ELSE entries)
  BY DEF WriteOpen, Located, Result
<1>2. OnlyOf(files', files) /\ entries \in Seq(EntryType)
  BY <1>1, GotoDiskOnly DEF SplitInv, TypeInv
<1>3. a.data = <<>>
  BY DEF EntryAt
<1> HIDE DEF r, a
<1>4. CASE entries' = entries
  BY <1>2, <1>4, StaysWithEntries
<1>5. CASE entries' = Append(entries, a)
  <2> DEFINE n == Len(entries)
  <2>1. n \in Nat /\ Len(entries') = n + 1 /\ entries'[n + 1] = a /\ \A i \in 1..n : entries'[i] = entries[i]
    BY <1>2, <1>5
  <2>2. \A j \in 1..Len(a.data) : FALSE
    BY <1>3
  <2>3. InOrder(entries) /\ NothingElse(files, entries)
    BY DEF OrderInv
  <2> DEFINE fs == entries'
  <2> HIDE DEF n, fs
  <2>4. ASSUME NEW i \in 1..Len(fs), NEW j \in 1..Len(fs[i].data) PROVE i \in 1..n /\ fs[i] = entries[i]
    <3>1. i # n + 1
      BY <2>1, <2>2, <2>4 DEF fs
    <3> QED
      BY <2>1, <3>1 DEF fs
  <2>5. InOrder(fs)
    BY <2>3, <2>4 DEF InOrder, n
  <2>6. \A m, q : Covered(entries, m, q) => Covered(fs, m, q)
    <3> SUFFICES ASSUME NEW m, NEW q, Covered(entries, m, q) PROVE Covered(fs, m, q)
      OBVIOUS
    <3>1. PICK i \in 1..n : \E j \in 1..Len(entries[i].data) : entries[i].cells[j] = <<m, q>>
      BY DEF Covered, n
    <3>2. i \in 1..Len(fs) /\ fs[i] = entries[i]
      BY <2>1 DEF fs
    <3> QED
      BY <3>1, <3>2 DEF Covered
  <2>7. NothingElse(files', fs)
    BY <1>2, <2>3, <2>6 DEF NothingElse, OnlyOf
  <2> QED
    BY <2>5, <2>7 DEF OrderInv, fs
<1> QED
  BY <1>1, <1>4, <1>5

\* Sequence t is s with h at n.
ElementIs(t, s, n, h) ==
  Len(t) = Len(s) /\ t[n] = h /\ \A i \in 1..Len(s) : i # n => t[i] = s[i]

LEMMA ExceptElement ==
  ASSUME NEW S, NEW s \in Seq(S), NEW n \in 1..Len(s), NEW h, NEW t, t = [s EXCEPT ![n] = h]
  PROVE  ElementIs(t, s, n, h)
<1>0. DOMAIN s = 1..Len(s) /\ Len(s) \in Nat
  BY LenProperties
<1>1. t = [i \in 1..Len(s) |-> IF i = n THEN h ELSE s[i]] /\ Len(s) \in Nat
  BY <1>0
<1>2. Len(t) = Len(s)
  BY <1>1
<1> QED
  BY <1>1, <1>2 DEF ElementIs

\* The byte that a patch changes is the entry's first.
LEMMA PatchKeepsOrder ==
  ASSUME SplitInv, OrderInv, PatchesHere, NEW b \in Bytes, PatchClose(b)
  PROVE  OrderInv'
<1> DEFINE n == Len(entries)
           e == entries[n]
           p == split.base
           o == e.offset
           new == Overlay(files[p], o, <<b>>)
<1>1. /\ phase = "entry" /\ err = "ok" /\ split.number = e.disk /\ o < split.pos /\ e.data # <<>>
      /\ files' = [files EXCEPT ![p] = new]
      /\ entries' = [entries EXCEPT ![n] = [e EXCEPT !.data = [e.data EXCEPT ![1] = b]]]
  BY PatchCloseGoes
<1>2. /\ n \in 1..n /\ n \in Nat /\ e \in EntryType /\ Placed(files, diskSize, split.number, e)
      /\ diskSize = 0 => p = Cd /\ split.pos <= Len(files[Cd]) /\ Cd \in DOMAIN files
      /\ diskSize > 0 => AtEnd /\ split.number >= 0 /\ split.number \in DOMAIN files
  BY <1>1, EntryFacts
<1>3. /\ diskSize \in Nat /\ Held(files) /\ entries \in Seq(EntryType) /\ split \in SplitType
  BY <1>1, WritingFacts
<1>4. /\ p \in DOMAIN files /\ p = PartOf(diskSize, e) /\ o < Len(files[p]) /\ p \in Int
      /\ files[p] \in Seq(Stored) /\ o \in Nat /\ e.data \in Seq(Bytes) /\ Len(e.data) \in Nat
      /\ e.cells \in Seq(Int \X Nat) /\ Len(files[p]) \in Nat
  <2>1. p \in DOMAIN files /\ p = PartOf(diskSize, e) /\ split.pos <= Len(files[p])
    <3>1. CASE diskSize = 0
      BY <1>2, <3>1 DEF PartOf
    <3>2. CASE diskSize > 0
      BY <1>1, <1>2, <1>3, <3>2 DEF PartOf, AtEnd, SplitType
    <3> QED
      BY <1>3, <3>1, <3>2
  <2>2. files[p] \in Seq(Stored) /\ p \in Int /\ o \in Nat /\ split.pos \in Nat
    BY <1>2, <1>3, <2>1, EntryTypes DEF Held, SplitType
  <2>3. Len(files[p]) \in Nat
    BY <2>2, LenProperties
  <2>4. e.data \in Seq(Bytes) /\ Len(e.data) \in Nat /\ e.cells \in Seq(Int \X Nat)
    BY <1>2, EntryTypes
  <2> QED
    BY <1>1, <2>1, <2>2, <2>3, <2>4
<1>5. Len(e.data) > 0
  BY <1>1, <1>4, EmptySeq
<1>6. e.cells[1] = <<p, o + 1>>
  <2>1. Follows(files, <<p, o>>, e.cells[1])
    <3>1. Follows(files, PlaceOf(diskSize, e, 0), e.cells[0 + 1])
      BY <1>2, <1>4, <1>5 DEF Placed
    <3> QED
      BY <1>4, <3>1 DEF PlaceOf, StartOf
  <2> QED
    BY <1>4, <2>1 DEF Follows
<1>7. Covered(entries, p, o + 1)
  <2>1. n \in 1..Len(entries) /\ 1 \in 1..Len(e.data)
    BY <1>2, <1>4, <1>5
  <2> QED
    BY <1>6, <2>1 DEF Covered
<1>8. SameCells(entries', entries)
  <2> DEFINE h == [e EXCEPT !.data = [e.data EXCEPT ![1] = b]]
  <2>1. entries' = [entries EXCEPT ![n] = h] /\ n \in 1..Len(entries)
    BY <1>1, <1>2
  <2> HIDE DEF h, e
  <2>2. ElementIs(entries', entries, n, h)
    <3> HIDE DEF n
    <3> QED
      BY <1>3, <2>1, ExceptElement
  <2>3. entries'[n] = [e EXCEPT !.data = [e.data EXCEPT ![1] = b]]
    BY <2>2 DEF h, ElementIs
  <2> DEFINE d == [e.data EXCEPT ![1] = b]
  <2>4. Len(d) = Len(e.data)
    BY <1>4
  <2> HIDE DEF d
  <2>5. entries'[n].data = d /\ entries'[n].cells = e.cells
    BY <1>2, <2>3 DEF EntryType, d
  <2> QED
    BY <1>2, <2>2, <2>4, <2>5 DEF SameCells, ElementIs, e
<1> HIDE DEF n, e, p, o
<1>9. Len(new) = Len(files[p]) /\ \A q \in 1..Len(files[p]) : q # o + 1 => new[q] = files[p][q]
  <2> DEFINE l == Len(files[p])
             s == files[p]
  <2>1. Len(<<b>>) = 1
    OBVIOUS
  <2>2. o \in Nat /\ l \in Nat /\ o + 1 <= l
    BY <1>4
  <2>3. new = [i \in 1..l |-> IF i \in (o + 1)..(o + 1) THEN <<b>>[i - o] ELSE s[i]]
    BY <2>1, <2>2 DEF Overlay
  <2> HIDE DEF l, s, new
  <2>4. Len(new) = l
    BY <2>2, <2>3
  <2>5. \A q \in 1..l : q # o + 1 => new[q] = s[q]
    BY <2>2, <2>3
  <2> QED
    BY <2>4, <2>5 DEF l, s
<1> HIDE DEF new
<1>10. ASSUME NEW m \in DOMAIN files', NEW q \in 1..Len(files'[m]), files'[m][q] \in Bytes
       PROVE  Covered(entries, m, q)
  <2>1. m \in DOMAIN files /\ (m # p => files'[m] = files[m]) /\ (m = p => files'[m] = new)
    BY <1>1, <1>3, <1>4 DEF Held
  <2>2. NothingElse(files, entries)
    BY DEF OrderInv
  <2>3. CASE m # p
    BY <1>10, <2>1, <2>2, <2>3 DEF NothingElse
  <2>4. CASE m = p /\ q = o + 1
    BY <1>7, <2>4
  <2>5. CASE m = p /\ q # o + 1
    <3>1. q \in 1..Len(files[p]) /\ files[p][q] \in Bytes
      BY <1>9, <1>10, <2>1, <2>5
    <3> QED
      BY <1>4, <2>2, <2>5, <3>1 DEF NothingElse
  <2> QED
    BY <2>3, <2>4, <2>5
<1>11. \A m, q : Covered(entries, m, q) => Covered(entries', m, q)
  BY <1>8 DEF Covered, SameCells
<1>12. NothingElse(files', entries')
  BY <1>10, <1>11 DEF NothingElse
<1>13. InOrder(entries')
  BY <1>8 DEF OrderInv, InOrder, SameCells
<1> QED
  BY <1>12, <1>13 DEF OrderInv

\* A part that was written over holds what was written and what it held besides.
LEMMA OverlayHolds ==
  ASSUME NEW s \in Seq(Stored), NEW d \in Seq(Stored), NEW p \in 0..Len(s), NEW q \in 1..Len(Overlay(s, p, d))
  PROVE  /\ q \in 1..Len(s) \/ q \in (p + 1)..(p + Len(d))
         /\ q \in (p + 1)..(p + Len(d)) => Overlay(s, p, d)[q] = d[q - p]
         /\ q \notin (p + 1)..(p + Len(d)) => Overlay(s, p, d)[q] = s[q]
<1> DEFINE o == Overlay(s, p, d)
           l == Len(s)
           k == Len(d)
<1>1. Written(o, s, p, d) /\ l \in Nat /\ k \in Nat
  BY OverlayProperties, LenProperties
<1> HIDE DEF o, l, k
<1>2. Len(o) = Longer(l, p + k)
      /\ \A i \in 1..Longer(l, p + k) : o[i] = IF i \in (p + 1)..(p + k) THEN d[i - p] ELSE s[i]
  BY <1>1 DEF Written, l, k
<1>3. q \in 1..Longer(l, p + k)
  BY <1>2 DEF o
<1>4. p \in 0..l
  BY DEF l
<1>5. q \in 1..l \/ q \in (p + 1)..(p + k)
  BY <1>1, <1>3, <1>4 DEF Longer
<1> QED
  BY <1>2, <1>3, <1>5 DEF o, l, k

LEMMA DirectoryKeepsOrder ==
  ASSUME SplitInv, OrderInv, phase = "directory", WriteLoop
  PROVE  OrderInv'
<1> DEFINE p == split.pos
           s == files[Cd]
           o == Overlay(s, p, <<Dir>>)
<1>1. /\ p \in 0..Len(s) /\ Cd \in DOMAIN files /\ s \in Seq(Stored)
      /\ files' = [files EXCEPT ![Cd] = o] /\ UNCHANGED entries
  BY DirectoryTurn
<1>2. <<Dir>> \in Seq(Stored) /\ Len(<<Dir>>) = 1 /\ Dir \notin Bytes
  <2>1. Dir \notin Bytes
    BY SplitAssumption
  <2>2. Dir \in Stored
    BY DEF Stored
  <2> QED
    BY <2>1, <2>2
<1>3. Held(files)
  BY DEF SplitInv, TypeInv
<1> HIDE DEF s, p
<1>4. ASSUME NEW q \in 1..Len(o), o[q] \in Bytes PROVE q \in 1..Len(s) /\ s[q] \in Bytes
  <2>1. /\ q \in 1..Len(s) \/ q \in (p + 1)..(p + 1)
        /\ q \in (p + 1)..(p + 1) => o[q] = <<Dir>>[q - p]
        /\ q \notin (p + 1)..(p + 1) => o[q] = s[q]
    BY <1>1, <1>2, <1>4, OverlayHolds
  <2>2. p \in Nat
    BY <1>1
  <2> HIDE DEF o
  <2>3. q \in (p + 1)..(p + 1) => o[q] = Dir
    BY <2>1, <2>2
  <2> QED
    BY <1>2, <1>4, <2>1, <2>3
<1> HIDE DEF o
<1>5. DOMAIN files' = DOMAIN files /\ files'[Cd] = o /\ \A m \in DOMAIN files : m # Cd => files'[m] = files[m]
  BY <1>1, <1>3 DEF Held
<1>6. OnlyOf(files', files)
  <2> SUFFICES ASSUME NEW m \in DOMAIN files', NEW q \in 1..Len(files'[m]), files'[m][q] \in Bytes
               PROVE  m \in DOMAIN files /\ q \in 1..Len(files[m]) /\ files[m][q] \in Bytes
    BY DEF OnlyOf
  <2>1. CASE m = Cd
    BY <1>4, <1>5, <2>1 DEF s
  <2>2. CASE m # Cd
    BY <1>5, <2>2
  <2> QED
    BY <2>1, <2>2
<1> QED
  BY <1>1, <1>6, StaysWithEntries

\* Places keep their order where a part is counted from another byte.
LEMMA Behind ==
  ASSUME NEW a \in Int, NEW b \in Int, NEW c \in Int, NEW d \in Int, a < b
  PROVE  c + (a - d) < c + (b - d)
OBVIOUS

LEMMA EntryKeepsOrder ==
  ASSUME SplitInv, OrderInv, phase = "entry", call = "write", NEW f, NEW t, NEW k, Ready(f, t, k),
         OnlyOf(f, files), NEW x, x = SubSeq(todo, 1, k),
         files' = [f EXCEPT ![t.base] = Overlay(@, t.pos, x)],
         entries' = [entries EXCEPT ![Len(entries)] = Grown(@, x, t)]
  PROVE  OrderInv'
<1> DEFINE n == Len(entries)
           e == entries[n]
           m == Len(e.data)
           h == Grown(e, x, t)
           d == diskSize
           b == t.base
           p == t.pos
           s == f[b]
           o == Overlay(s, p, x)
<1>1. /\ n \in Nat /\ n \in 1..n /\ e \in EntryType /\ todo \in Seq(Bytes)
      /\ entries \in Seq(EntryType) /\ d \in Nat /\ Mark = split.pos
      /\ \A i \in 1..n : entries[i] \in EntryType /\ (d = 0 => UpTo(Mark, entries[i]))
  BY EntryFacts, WritingFacts
<1>2. /\ Held(f) /\ t \in SplitType /\ k \in 0..Len(todo) /\ b \in DOMAIN f /\ p <= Len(s)
      /\ \A i \in 1..n : Placed(f, d, t.number, entries[i])
      /\ d = 0 => b = Cd /\ p = split.pos
      /\ d > 0 => b = t.number /\ p = Len(s)
  BY DEF Ready
<1>3. x \in Seq(Bytes) /\ Len(x) = k /\ k \in Nat /\ x \in Seq(Stored)
  <2>1. Len(todo) \in Nat
    BY <1>1, LenProperties
  <2>2. x \in Seq(Bytes) /\ Len(x) = k
    BY <1>1, <1>2, <2>1
  <2> QED
    BY <1>2, <2>1, <2>2 DEF Stored
<1>4. s \in Seq(Stored) /\ p \in 0..Len(s) /\ p \in Nat /\ t.number \in Int /\ b \in Int
  <2>1. s \in Seq(Stored) /\ p \in Nat /\ t.number \in Int /\ b \in Int
    BY <1>2 DEF Held, SplitType
  <2>2. Len(s) \in Nat
    BY <2>1, LenProperties
  <2> QED
    BY <1>2, <2>1, <2>2
<1>5. /\ m \in Nat /\ Len(h.data) = m + k
      /\ \A j \in 1..m : h.cells[j] = e.cells[j]
      /\ \A i \in 1..k : h.cells[m + i] = <<b, p + i>>
  <2>1. Len(e.cells) = Len(e.data)
    BY <1>1, <1>2 DEF Placed
  <2>2. h = Grown(e, x, t)
    OBVIOUS
  <2> HIDE DEF e, h
  <2>3. e \in EntryType /\ x \in Seq(Bytes) /\ b \in Int /\ p \in Nat
    BY <1>1, <1>3, <1>4
  <2>4. t.base = b /\ t.pos = p
    OBVIOUS
  <2> HIDE DEF b, p
  <2>5. IsGrown(h, e, x, b, p) /\ Len(e.data) \in Nat
    BY <2>1, <2>2, <2>3, <2>4, EntryGrows, EntryTypes
  <2> QED
    BY <1>3, <2>5 DEF IsGrown
<1>6. Len(entries') = n /\ entries'[n] = h /\ \A i \in 1..n : i # n => entries'[i] = entries[i]
  <2>1. entries' = [entries EXCEPT ![n] = h] /\ n \in 1..Len(entries)
    BY <1>1
  <2> HIDE DEF h
  <2>2. ElementIs(entries', entries, n, h)
    <3> HIDE DEF n
    <3> QED
      BY <1>1, <2>1, ExceptElement
  <2> QED
    BY <2>2 DEF ElementIs
<1>7. ASSUME NEW i \in 1..n, NEW j \in 1..Len(entries[i].data)
      PROVE  Precedes(entries[i].cells[j], <<b, p>>)
  <2>1. entries[i] \in EntryType /\ Placed(f, d, t.number, entries[i]) /\ (d = 0 => b = Cd /\ UpTo(p, entries[i]))
        /\ (d > 0 => b = t.number /\ p = Len(f[b]))
    BY <1>1, <1>2
  <2> QED
    BY <1>1, <1>2, <1>4, <2>1, BeforeEnd
<1> DEFINE fs == entries'
<1> HIDE DEF n, e, m, h, d, b, p, s, o, fs
\* A cell of an entry is one it had, or one of those it was just written to.
<1>8. ASSUME NEW i \in 1..Len(fs), NEW j \in 1..Len(fs[i].data)
      PROVE  \/ i \in 1..n /\ j \in 1..Len(entries[i].data) /\ fs[i].cells[j] = entries[i].cells[j]
             \/ i = n /\ j > m /\ j - m \in 1..k /\ fs[i].cells[j] = <<b, p + (j - m)>>
  <2>1. i \in 1..n
    BY <1>6, <1>8 DEF fs
  <2>2. CASE i # n
    BY <1>6, <1>8, <2>1, <2>2 DEF fs
  <2>3. CASE i = n
    <3>1. fs[i] = h /\ j \in 1..(m + k)
      BY <1>5, <1>6, <1>8, <2>3 DEF fs
    <3>2. CASE j \in 1..m
      BY <1>5, <2>1, <2>3, <3>1, <3>2 DEF e, m
    <3>3. CASE j \notin 1..m
      <4>1. j - m \in 1..k /\ m + (j - m) = j /\ j > m
        BY <1>3, <1>5, <3>1, <3>3
      <4>2. h.cells[m + (j - m)] = <<b, p + (j - m)>>
        BY <1>5, <4>1
      <4> QED
        BY <2>3, <3>1, <4>1, <4>2
    <3> QED
      BY <3>2, <3>3
  <2> QED
    BY <2>2, <2>3
<1>9. InOrder(fs)
  <2> SUFFICES ASSUME NEW i \in 1..Len(fs), NEW u \in 1..Len(fs),
                      NEW j \in 1..Len(fs[i].data), NEW v \in 1..Len(fs[u].data),
                      i < u \/ (i = u /\ j < v)
               PROVE  Before(fs[i].cells[j], fs[u].cells[v])
    BY DEF InOrder
  <2>1. n \in Nat /\ Len(fs) = n /\ m = Len(entries[n].data) /\ m \in Nat
    BY <1>1, <1>5, <1>6 DEF fs, e, m
  <2>2. j \in Int /\ v \in Int /\ i \in 1..n /\ u \in 1..n
    BY <2>1
  <2>3. CASE u \in 1..n /\ v \in 1..Len(entries[u].data) /\ fs[u].cells[v] = entries[u].cells[v]
    <3>1. i \in 1..n /\ j \in 1..Len(entries[i].data) /\ fs[i].cells[j] = entries[i].cells[j]
      <4>1. ~(i = n /\ j > m)
        <5> SUFFICES ASSUME i = n, j > m PROVE FALSE
          OBVIOUS
        <5>1. u = n /\ j < v
          BY <2>1, <2>2
        <5>2. v \in 1..m
          BY <2>1, <2>3, <5>1
        <5> QED
          BY <2>1, <2>2, <5>1, <5>2
      <4> QED
        BY <1>8, <4>1
    <3>2. InOrder(entries)
      BY DEF OrderInv
    <3>3. Before(entries[i].cells[j], entries[u].cells[v])
      BY <2>3, <3>1, <3>2 DEF InOrder, n
    <3> QED
      BY <2>3, <3>1, <3>3
  <2>4. CASE u = n /\ v > m /\ v - m \in 1..k /\ fs[u].cells[v] = <<b, p + (v - m)>>
    <3>1. CASE i \in 1..n /\ j \in 1..Len(entries[i].data) /\ fs[i].cells[j] = entries[i].cells[j]
      <4>1. Precedes(fs[i].cells[j], <<b, p>>)
        BY <1>7, <3>1
      <4>2. v - m > 0 /\ v - m \in Int
        BY <2>4
      <4> DEFINE c == fs[i].cells[j]
                 w == v - m
      <4>3. c[1] \in Int /\ c[2] \in Int
        <5>1. entries[i] \in EntryType
          BY <1>1, <3>1
        <5>2. Len(entries[i].cells) = Len(entries[i].data)
          BY <1>2, <3>1 DEF Placed
        <5>3. entries[i].cells[j] \in Int \X Nat
          BY <3>1, <5>1, <5>2 DEF EntryType
        <5> QED
          BY <3>1, <5>3
      <4> HIDE DEF c, w
      <4>4. Before(c, <<b, p + w>>)
        BY <1>4, <4>1, <4>2, <4>3 DEF Precedes, Before, c, w
      <4> QED
        BY <2>4, <4>4 DEF c, w
    <3>2. CASE i = n /\ j > m /\ j - m \in 1..k /\ fs[i].cells[j] = <<b, p + (j - m)>>
      <4>1. j < v
        BY <2>1, <2>4, <3>2
      <4>2. p \in Int /\ m \in Int /\ j \in Int /\ v \in Int
        BY <1>4, <2>1, <2>2
      <4>3. p + (j - m) < p + (v - m)
        BY <4>1, <4>2, Behind, Zenon
      <4> QED
        BY <2>4, <3>2, <4>3 DEF Before
    <3> QED
      BY <1>8, <3>1, <3>2
  <2> QED
    BY <1>8, <2>3, <2>4
<1>10. ASSUME NEW g, NEW q, Covered(entries, g, q) PROVE Covered(fs, g, q)
  <2>1. PICK i \in 1..n : \E j \in 1..Len(entries[i].data) : entries[i].cells[j] = <<g, q>>
    BY <1>10 DEF Covered, n
  <2>2. PICK j \in 1..Len(entries[i].data) : entries[i].cells[j] = <<g, q>>
    BY <2>1
  <2>3. i \in 1..Len(fs) /\ j \in 1..Len(fs[i].data) /\ fs[i].cells[j] = entries[i].cells[j]
    <3>1. CASE i # n
      BY <1>6, <3>1 DEF fs
    <3>2. CASE i = n
      <4>1. j \in 1..m /\ fs[i] = h
        BY <1>6, <3>2 DEF fs, m, e
      <4>2. j \in 1..(m + k)
        BY <1>3, <1>5, <4>1
      <4> QED
        BY <1>5, <1>6, <3>2, <4>1, <4>2 DEF fs, e
    <3> QED
      BY <3>1, <3>2
  <2> QED
    BY <2>2, <2>3 DEF Covered
<1>11. ASSUME NEW i \in 1..k PROVE Covered(fs, b, p + i)
  <2>1. n \in 1..Len(fs) /\ fs[n] = h /\ m + i \in 1..Len(h.data)
    BY <1>1, <1>3, <1>5, <1>6 DEF fs
  <2>2. h.cells[m + i] = <<b, p + i>>
    BY <1>5
  <2> QED
    BY <2>1, <2>2 DEF Covered
<1>12. /\ DOMAIN files' = DOMAIN f /\ files'[b] = o
       /\ \A g \in DOMAIN f : g # b => files'[g] = f[g]
  <2>1. files' = [f EXCEPT ![b] = o]
    BY DEF b, o, s, p
  <2> QED
    BY <1>2, <2>1 DEF Held
<1>13. ASSUME NEW g \in DOMAIN f, NEW q \in 1..Len(f[g]), f[g][q] \in Bytes PROVE Covered(fs, g, q)
  <2>1. g \in DOMAIN files /\ q \in 1..Len(files[g]) /\ files[g][q] \in Bytes
    BY <1>13 DEF OnlyOf
  <2>2. Covered(entries, g, q)
    BY <2>1 DEF OrderInv, NothingElse
  <2> QED
    BY <1>10, <2>2
<1>14. ASSUME NEW q \in 1..Len(o), o[q] \in Bytes PROVE Covered(fs, b, q)
  <2>1. /\ q \in 1..Len(s) \/ q \in (p + 1)..(p + k)
        /\ q \notin (p + 1)..(p + k) => o[q] = s[q]
    BY <1>3, <1>4, <1>14, OverlayHolds DEF o
  <2>2. CASE q \in (p + 1)..(p + k)
    <3>1. q - p \in 1..k /\ p + (q - p) = q
      BY <1>3, <1>4, <2>2
    <3>2. Covered(fs, b, p + (q - p))
      BY <1>11, <3>1
    <3> QED
      BY <3>1, <3>2
  <2>3. CASE q \notin (p + 1)..(p + k)
    BY <1>2, <1>13, <1>14, <2>1, <2>3 DEF s
  <2> QED
    BY <2>2, <2>3
<1>15. NothingElse(files', fs)
  <2> SUFFICES ASSUME NEW g \in DOMAIN files', NEW q \in 1..Len(files'[g]), files'[g][q] \in Bytes
               PROVE  Covered(fs, g, q)
    BY DEF NothingElse
  <2>1. CASE g = b
    BY <1>12, <1>14, <2>1
  <2>2. CASE g # b
    BY <1>12, <1>13, <2>2
  <2> QED
    BY <2>1, <2>2
<1> QED
  BY <1>9, <1>15 DEF OrderInv, fs

LEMMA WriteLoopKeepsOrder ==
  ASSUME SplitInv, OrderInv, WriteLoop
  PROVE  OrderInv'
<1> DEFINE switch == split.diskSize > 0 /\ (Full(split) \/ (split.number = Cd /\ split.current # Cd))
           r == IF switch THEN GotoDisk(files, split, IF split.number = Cd THEN Cd ELSE split.current + 1)
                ELSE [f |-> files, s |-> split, err |-> "ok"]
           k == Fits(r.s, Len(todo))
           x == SubSeq(todo, 1, k)
<1>1. /\ call = "write"
      /\ IF r.err = "ok"
         THEN /\ files' = [r.f EXCEPT ![r.s.base] = Overlay(@, r.s.pos, x)]
              /\ entries' = IF phase = "entry"
                            THEN [entries EXCEPT ![Len(entries)] = Grown(@, x, r.s)] ELSE entries
         ELSE files' = r.f /\ UNCHANGED entries
  BY DEF WriteLoop
<1>2. phase \in {"entry", "directory"}
  BY <1>1 DEF SplitInv, PhaseInv
<1>3. CASE phase = "directory"
  BY <1>3, DirectoryKeepsOrder
<1>4. CASE phase = "entry"
  <2>1. \/ r.err = "ok" /\ Ready(r.f, r.s, k)
        \/ r.err = "open" /\ r.f = files
    BY <1>1, <1>4, EntryTurn
  <2>2. OnlyOf(r.f, files)
    <3>1. r.f = files \/ \E n : r.f = GotoDisk(files, split, n).f
      OBVIOUS
    <3>2. Held(files)
      BY DEF SplitInv, TypeInv
    <3> HIDE DEF r
    <3> QED
      BY <3>1, <3>2, OnlyOfSame, GotoDiskOnly
  <2> HIDE DEF r, k
  <2>3. CASE r.err = "ok" /\ Ready(r.f, r.s, k)
    <3> DEFINE f == r.f
               t == r.s
    <3> HIDE DEF f, t, x
    <3>1. /\ Ready(f, t, k) /\ OnlyOf(f, files) /\ x = SubSeq(todo, 1, k)
          /\ files' = [f EXCEPT ![t.base] = Overlay(@, t.pos, x)]
          /\ entries' = [entries EXCEPT ![Len(entries)] = Grown(@, x, t)]
      BY <1>1, <1>4, <2>2, <2>3 DEF f, t, x
    <3> QED
      BY <1>1, <1>4, <3>1, EntryKeepsOrder
  <2>4. CASE r.err = "open" /\ r.f = files
    <3>1. UNCHANGED <<files, entries>>
      BY <1>1, <2>4
    <3> QED
      BY <3>1, IdleKeepsOrder
  <2> QED
    BY <2>1, <2>3, <2>4
<1> QED
  BY <1>2, <1>3, <1>4

LEMMA StepKeepsOrder ==
  ASSUME SplitInv, OrderInv, PatchesHere, [Next]_vars
  PROVE  OrderInv'
<1>1. CASE UNCHANGED <<files, entries>>
  BY <1>1, IdleKeepsOrder
<1>2. CASE WriteOpen
  BY <1>2, WriteOpenKeepsOrder
<1>3. CASE WriteLoop
  BY <1>3, WriteLoopKeepsOrder
<1>4. ASSUME NEW b \in Bytes, PatchClose(b) PROVE OrderInv'
  BY <1>4, PatchKeepsOrder
<1>5. ASSUME NEW n \in DOMAIN files, Lose(n) PROVE OrderInv'
  BY <1>5, LoseKeepsOrder
<1>6. CASE \/ \E size \in DiskSizes : OpenCreate(size)
           \/ DirectoryOpen \/ OpenRead
           \/ \E i \in DOMAIN entries : SeekEntry(i)
           \/ \E n \in 1..MaxIO : ReadCall(n) \/ SkipCall(n)
  BY <1>6, OpensKeepOrder
<1>7. \/ OpenAppend \/ WriteClose \/ CloseWriter \/ ReadLoop \/ SkipLoop \/ CloseReader \/ UNCHANGED vars
      \/ \E d \in Strings(MaxIO) : WriteCall(d)
      => UNCHANGED <<files, entries>>
  BY DEF OpenAppend, WriteClose, CloseWriter, ReadLoop, SkipLoop, CloseReader, WriteCall, vars, archive
<1> QED
  BY <1>1, <1>2, <1>3, <1>4, <1>5, <1>6, <1>7 DEF Next

\* What the parts hold of the entries lies one byte behind the other in the order in which it was
\* written, and nothing else of them is there, neither twice nor left over
\* (mz_stream_split_write, _goto_disk): with EntriesStay, the parts one after the other are
\* the entries.
THEOREM PartsInOrder ==
  ASSUME PatchesHere
  PROVE  Spec => []OrderInv
<1>1. Init => OrderInv
  BY DEF Init, OrderInv, InOrder, NothingElse
<1>2. SplitInv /\ OrderInv /\ [Next]_vars => OrderInv'
  BY StepKeepsOrder
<1> QED
  BY <1>1, <1>2, SplitInvariant, PTL DEF Spec

=============================================================================
