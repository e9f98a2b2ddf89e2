---------------------------- MODULE OsStream_proofs ----------------------------
(***************************************************************************)
(* Theorems about OsStream, for every set of systems, every disk and every *)
(* bound, when none of Habits is in use.                                   *)
(***************************************************************************)
EXTENDS OsStream, Overlays_proofs

-----------------------------------------------------------------------------
(* The invariant *)

DiskOK == disk = Nil \/ (disk \in Seq(Bytes) /\ Len(disk) <= Space)

\* Only the WASM build opens for appending in the sense of the C library, and only that moves
\* writes away from the position.
HandleOK ==
  /\ handle.open \in BOOLEAN /\ handle.appends = FALSE
  /\ handle.open => disk # Nil /\ pos \in 0..Len(disk)
KeptOK ==
  /\ kept \in Seq(Bytes)
  /\ kept # <<>> => handle.open /\ handle.writes /\ Buffered

\* With what is kept written behind the position, the file is what it should be.
AsWanted == want = Overlay(disk, pos, kept) /\ at = pos + Len(kept)

OsInv ==
  /\ system \in Systems /\ failed \in BOOLEAN
  /\ DiskOK /\ HandleOK /\ KeptOK
  /\ handle.open /\ ~failed => AsWanted
  /\ ReadsAreFile /\ ClosedIsWritten

LEMMA SpaceType == Space \in Nat
BY OsAssumption

\* The sequences of up to n bytes.
LEMMA StringsAreSeqs ==
  ASSUME NEW n \in Nat, NEW s
  PROVE  s \in Strings(n) <=> s \in Seq(Bytes) /\ Len(s) <= n
<1>1. ASSUME s \in Strings(n) PROVE s \in Seq(Bytes) /\ Len(s) <= n
  <2>1. PICK k \in 0..n : s \in [1..k -> Bytes]
    BY <1>1 DEF Strings
  <2>2. s \in Seq(Bytes)
    BY <2>1, SeqDef
  <2>3. DOMAIN s = 1..k /\ DOMAIN s = 1..Len(s) /\ Len(s) \in Nat
    BY <2>1, <2>2, LenProperties
  <2> QED
    BY <2>2, <2>3
<1>2. ASSUME s \in Seq(Bytes), Len(s) <= n PROVE s \in Strings(n)
  <2>1. Len(s) \in 0..n /\ s \in [1..Len(s) -> Bytes]
    BY <1>2, LenProperties
  <2> QED
    BY <2>1 DEF Strings
<1> QED
  BY <1>1, <1>2

LEMMA OsInvStreamIsFile == OsInv => StreamIsFile /\ ClosedIsWritten
<1> SUFFICES ASSUME OsInv PROVE StreamIsFile /\ ClosedIsWritten
  OBVIOUS
<1>1. TypeOK
  <2>1. disk \in {Nil} \cup Strings(Space)
    BY StringsAreSeqs, SpaceType DEF OsInv, DiskOK
  <2> QED
    BY <2>1 DEF TypeOK, OsInv, HandleOK, KeptOK
<1>2. WriteAt = pos /\ TellPos = pos + Len(kept)
  BY DEF OsInv, HandleOK, WriteAt, TellPos
<1> QED
  BY <1>1, <1>2 DEF OsInv, AsWanted, StreamIsFile

LEMMA InitOs == Init => OsInv
<1> SUFFICES ASSUME Init PROVE OsInv
  OBVIOUS
<1>1. disk = Nil \/ (disk \in Seq(Bytes) /\ Len(disk) <= Space)
  <2>1. disk = Nil \/ disk \in Strings(Least(1, Space))
    BY DEF Init
  <2>2. Least(1, Space) \in Nat /\ Least(1, Space) <= Space
    BY SpaceType DEF Least
  <2>3. disk \in Strings(Least(1, Space)) => disk \in Seq(Bytes) /\ Len(disk) \in Nat /\ Len(disk) <= Least(1, Space)
    BY <2>2, StringsAreSeqs, LenProperties
  <2> QED
    BY <2>1, <2>2, <2>3, SpaceType
<1>2. handle.open = FALSE /\ handle.appends = FALSE
  BY DEF Init, NoHandle
<1>3. kept \in Seq(Bytes) /\ kept = <<>>
  BY EmptySeq DEF Init
<1>4. last.op = "none"
  BY DEF Init, NoResult
<1> QED
  BY <1>1, <1>2, <1>3, <1>4
  DEF Init, OsInv, DiskOK, HandleOK, KeptOK, ReadsAreFile, ClosedIsWritten

-----------------------------------------------------------------------------
(* What the library writes *)

\* How much of s the disk takes.
Taken(s) == Least(Len(s), IF pos > Space THEN 0 ELSE Space - pos)

\* w is what comes of writing s behind the position: all of it, or what the disk takes.
WritesTo(w, s) ==
  /\ w.disk \in Seq(Bytes) /\ Len(w.disk) <= Space /\ w.pos \in 0..Len(w.disk)
  /\ w.fits \in 0..Len(s) /\ (w.ok <=> w.fits = Len(s)) /\ w.ok \in BOOLEAN
  /\ w.ok => w.disk = Overlay(disk, pos, s) /\ w.pos = pos + Len(s)

LEMMA FlushedWrites ==
  ASSUME OsInv, handle.open, NEW s \in Seq(Bytes)
  PROVE  WritesTo(Flushed(s), s)
<1> DEFINE w == Flushed(s)
           k == Taken(s)
           d == SubSeq(s, 1, k)
<1>1. disk \in Seq(Bytes) /\ Len(disk) <= Space /\ pos \in 0..Len(disk) /\ WriteAt = pos
  BY DEF OsInv, DiskOK, HandleOK, WriteAt
<1>2. /\ w.disk = (IF k = 0 THEN disk ELSE Overlay(disk, pos, d))
      /\ w.pos = (IF s = <<>> THEN pos ELSE pos + k) /\ w.fits = k /\ w.ok = (k = Len(s))
  BY <1>1 DEF Flushed, Taken
<1>3. Len(s) \in Nat /\ Len(disk) \in Nat /\ pos \in Nat /\ Space \in Nat /\ pos <= Len(disk) /\ pos <= Space
  <2>1. Len(s) \in Nat /\ Len(disk) \in Nat /\ Space \in Nat
    BY <1>1, LenProperties, SpaceType
  <2> QED
    BY <1>1, <2>1
<1>4. k \in 0..Len(s) /\ pos + k <= Space
  BY <1>3 DEF Taken, Least
<1>5. d \in Seq(Bytes) /\ Len(d) = k
  <2>1. 0 \in Nat /\ 0 <= k /\ 0 + 1 = 1 /\ k - 0 = k
    BY <1>3, <1>4
  <2>2. SubSeq(s, 0 + 1, k) \in Seq(Bytes) /\ IsPart(SubSeq(s, 0 + 1, k), s, 0, k)
    BY <1>4, <2>1, PartOfSeq, Zenon
  <2> QED
    BY <2>1, <2>2 DEF IsPart
<1> HIDE DEF w, k
<1>6. Overlay(disk, pos, d) \in Seq(Bytes) /\ Len(Overlay(disk, pos, d)) = Longer(Len(disk), pos + k)
  <2> HIDE DEF d
  <2>1. Overlay(disk, pos, d) \in Seq(Bytes) /\ Written(Overlay(disk, pos, d), disk, pos, d)
    BY <1>1, <1>5, OverlayProperties, Zenon
  <2> QED
    BY <1>5, <2>1 DEF Written
<1>7. w.disk \in Seq(Bytes) /\ Len(w.disk) \in Nat /\ Len(w.disk) <= Space /\ pos + k <= Len(w.disk)
      /\ pos <= Len(w.disk)
  <2>1. CASE k = 0
    BY <1>1, <1>2, <1>3, <2>1
  <2>2. CASE k # 0
    <3>1. w.disk = Overlay(disk, pos, d)
      BY <1>2, <2>2
    <3> HIDE DEF d
    <3>2. Longer(Len(disk), pos + k) <= Space /\ pos + k <= Longer(Len(disk), pos + k)
          /\ Longer(Len(disk), pos + k) \in Nat
      BY <1>1, <1>3, <1>4 DEF Longer
    <3> QED
      BY <1>3, <1>4, <1>6, <3>1, <3>2
  <2> QED
    BY <2>1, <2>2
<1>8. w.pos \in 0..Len(w.disk)
  BY <1>2, <1>3, <1>4, <1>7
<1>9. ASSUME w.ok PROVE w.disk = Overlay(disk, pos, s) /\ w.pos = pos + Len(s)
  <2>1. k = Len(s)
    BY <1>2, <1>9
  <2>2. d = s
    BY <2>1, WholePart
  <2>3. CASE k = 0
    <3>1. s = <<>>
      BY <2>1, <2>3, EmptySeq
    <3>2. Overlay(disk, pos, s) = disk
      BY <1>1, <3>1, OverlayNothing
    <3>3. pos + Len(s) = pos
      BY <1>3, <2>1, <2>3
    <3> QED
      BY <1>2, <2>3, <3>1, <3>2, <3>3
  <2>4. CASE k # 0
    <3>1. s # <<>>
      BY <2>1, <2>4, EmptySeq
    <3> QED
      BY <1>2, <2>1, <2>2, <2>4, <3>1
  <2> QED
    BY <2>3, <2>4
<1>10. w.fits \in 0..Len(s) /\ (w.ok <=> w.fits = Len(s)) /\ w.ok \in BOOLEAN
  BY <1>2, <1>4
<1>11. WritesTo(w, s)
  BY <1>7, <1>8, <1>9, <1>10, Zenon DEF WritesTo
<1> QED
  BY <1>11 DEF w

\* Nothing is written when nothing is kept.
LEMMA NothingKept ==
  ASSUME OsInv, handle.open
  PROVE  Flushed(<<>>).disk = disk /\ Flushed(<<>>).ok
<1>1. Len(<<>>) = 0
  BY EmptySeq
<1>2. Least(0, IF pos > Space THEN 0 ELSE Space - pos) = 0
  <2>1. pos \in Nat /\ Space \in Nat
    <3>1. disk \in Seq(Bytes) /\ pos \in 0..Len(disk)
      BY DEF OsInv, DiskOK, HandleOK
    <3> QED
      BY <3>1, SpaceType
  <2> QED
    BY <2>1 DEF Least
<1>3. WriteAt = pos
  BY DEF OsInv, HandleOK, WriteAt
<1> QED
  BY <1>1, <1>2, <1>3 DEF Flushed

-----------------------------------------------------------------------------
(* The calls *)

\* What the calls that hand out nothing and end nothing leave of the invariant.
LEMMA OtherResults ==
  ASSUME last'.op \notin {"read", "close", "delete"}
  PROVE  ReadsAreFile' /\ ClosedIsWritten'
BY DEF ReadsAreFile, ClosedIsWritten

LEMMA OpenStep ==
  ASSUME OsInv, Habits = {}, NEW mode \in {"read", "create", "append"}, Open(mode)
  PROVE  OsInv'
<1>1. ~handle.open /\ kept' = <<>> /\ system' = system /\ ~(mode = "append" /\ system = "wasm")
  BY DEF Open
<1>2. <<>> \in Seq(Bytes) /\ Len(<<>>) = 0 /\ Nil # <<>>
  BY EmptySeq, OsAssumption
<1>3. CASE disk = Nil /\ ~MayBeMissing(mode)
  <2>1. /\ UNCHANGED <<handle, pos, disk>> /\ UNCHANGED <<wantVars, failed>>
        /\ last' = [op |-> "open", err |-> "open", bytes |-> <<>>, mode |-> mode]
    BY <1>3 DEF Open
  <2>2. last'.op = "open"
    BY <2>1
  <2> QED
    BY <1>1, <1>2, <2>1, <2>2, OtherResults
    DEF OsInv, DiskOK, HandleOK, KeptOK
<1>4. CASE ~(disk = Nil /\ ~MayBeMissing(mode))
  <2> DEFINE new == IF mode = "create" \/ disk = Nil THEN <<>> ELSE disk
             p   == IF disk = Nil THEN 0 ELSE OpenAt(mode)
  <2>1. /\ handle' = HandleOf(mode) /\ failed' = FALSE /\ disk' = new /\ pos' = p
        /\ want' = new /\ at' = pos'
        /\ last' = [op |-> "open", err |-> "ok", bytes |-> <<>>, mode |-> mode]
    BY <1>4 DEF Open, Creates
  <2>2. handle'.open = TRUE /\ handle'.appends = FALSE
    <3>1. system \in {"posix", "wasm", "win32"}
      BY OsAssumption DEF OsInv
    <3> QED
      BY <1>1, <2>1, <3>1 DEF HandleOf, Handle
  <2>3. new \in Seq(Bytes) /\ Len(new) <= Space /\ new # Nil /\ p \in 0..Len(new)
    <3>1. CASE mode = "create" \/ disk = Nil
      <4>1. new = <<>> /\ p = 0
        BY <3>1 DEF OpenAt
      <4>2. 0 <= Space /\ 0 \in 0..0
        BY SpaceType
      <4> HIDE DEF new, p
      <4> QED
        BY <1>2, <4>1, <4>2, Zenon
    <3>2. CASE ~(mode = "create" \/ disk = Nil)
      <4>1. new = disk /\ disk \in Seq(Bytes) /\ Len(disk) <= Space /\ Len(disk) \in Nat
        BY <3>2, LenProperties DEF OsInv, DiskOK
      <4>2. p = 0 \/ p = Len(disk)
        BY <3>2 DEF OpenAt
      <4> QED
        BY <3>2, <4>1, <4>2
    <3> QED
      BY <3>1, <3>2
  <2> HIDE DEF new, p
  <2>4. Overlay(new, p, <<>>) = new /\ p + 0 = p
    BY <2>3, OverlayNothing
  <2>5. AsWanted'
    BY <1>1, <1>2, <2>1, <2>4, Zenon DEF AsWanted
  <2>6. DiskOK' /\ HandleOK'
    BY <2>1, <2>2, <2>3 DEF DiskOK, HandleOK
  <2>7. KeptOK'
    BY <1>1, <1>2 DEF KeptOK
  <2>8. ReadsAreFile' /\ ClosedIsWritten'
    BY <2>1, OtherResults
  <2> QED
    BY <1>1, <2>1, <2>5, <2>6, <2>7, <2>8 DEF OsInv
<1> QED
  BY <1>3, <1>4

LEMMA ReadStep ==
  ASSUME OsInv, NEW n \in 1..MaxIO, Read(n)
  PROVE  OsInv'
<1> DEFINE end == Least(pos + n, Len(disk))
           got == SubSeq(disk, pos + 1, end)
<1>1. handle.open /\ kept = <<>> /\ UNCHANGED <<system, disk, handle, kept, want>>
  BY DEF Read
<1>2. KeptOK' /\ DiskOK'
  BY <1>1 DEF OsInv, KeptOK, DiskOK, Buffered
<1>3. CASE ~handle.reads
  <2>1. last' = [op |-> "read", err |-> "read", bytes |-> <<>>] /\ failed' = TRUE /\ pos' = pos /\ at' = at
    BY <1>3 DEF Read, Says
  <2>2. ReadsAreFile' /\ ClosedIsWritten'
    BY <2>1 DEF ReadsAreFile, ClosedIsWritten
  <2> QED
    BY <1>1, <1>2, <2>1, <2>2 DEF OsInv, HandleOK
<1>4. CASE handle.reads
  <2>1. /\ last' = [op |-> "read", err |-> "ok", bytes |-> got] /\ failed' = failed
        /\ pos' = pos + Len(got) /\ at' = at + Len(got)
    BY <1>4 DEF Read, Says
  <2>2. disk \in Seq(Bytes) /\ Len(disk) \in Nat /\ pos \in 0..Len(disk) /\ pos \in Nat /\ n \in Nat /\ n >= 1
    <3>1. disk \in Seq(Bytes) /\ pos \in 0..Len(disk) /\ n \in 1..MaxIO /\ MaxIO \in Nat
      BY <1>1, OsAssumption DEF OsInv, DiskOK, HandleOK
    <3> QED
      BY <3>1, LenProperties
  <2>3. end \in 0..Len(disk) /\ pos <= end /\ (end = pos => pos = Len(disk)) /\ end \in Nat
    BY <2>2 DEF Least
  <2> HIDE DEF end
  <2>4. got \in Seq(Bytes) /\ IsPart(got, disk, pos, end)
    BY <2>2, <2>3, PartOfSeq, Zenon
  <2> HIDE DEF got
  <2>5. Len(got) = end - pos /\ \A i \in 1..(end - pos) : got[i] = disk[pos + i]
    BY <2>4 DEF IsPart
  <2>6. pos' = end
    BY <2>1, <2>2, <2>3, <2>5
  <2>7. HandleOK'
    BY <1>1, <2>3, <2>6 DEF OsInv, HandleOK
  <2>8. ASSUME ~failed PROVE want = disk /\ at = pos /\ at' = end
    <3>1. want = Overlay(disk, pos, kept) /\ at = pos + Len(kept)
      BY <1>1, <2>8 DEF OsInv, AsWanted
    <3>2. want = disk /\ at = pos + 0
      BY <1>1, <2>2, <3>1, OverlayNothing, EmptySeq
    <3> QED
      BY <2>1, <2>2, <2>3, <2>5, <3>2
  <2>9. ASSUME ~failed PROVE AsWanted'
    <3>1. kept' = <<>> /\ disk' = disk /\ want' = disk /\ pos' = end /\ at' = end
      BY <1>1, <2>6, <2>8, <2>9
    <3>2. Overlay(disk, end, <<>>) = disk /\ Len(<<>>) = 0 /\ end + 0 = end
      BY <2>2, <2>3, OverlayNothing, EmptySeq
    <3> QED
      BY <3>1, <3>2, Zenon DEF AsWanted
  <2>10. ReadsAreFile'
    <3> SUFFICES ASSUME ~failed
        PROVE  /\ end <= Len(disk)
               /\ \A i \in DOMAIN got : got[i] = disk[end - Len(got) + i]
               /\ got = <<>> => end = Len(disk)
      <4>1. last'.op = "read" /\ last'.bytes = got /\ failed' = failed
        BY <2>1
      <4>2. ~failed => at' = end /\ want' = disk
        BY <1>1, <2>8
      <4> QED
        BY <4>1, <4>2, Zenon DEF ReadsAreFile
    <3>1. DOMAIN got = 1..(end - pos) /\ end - Len(got) = pos
      BY <2>2, <2>3, <2>4, <2>5, LenProperties
    <3>2. got = <<>> => end = pos
      BY <2>2, <2>3, <2>5, EmptySeq
    <3> QED
      BY <2>2, <2>3, <2>5, <3>1, <3>2
  <2>11. ClosedIsWritten'
    BY <2>1 DEF ClosedIsWritten
  <2> QED
    BY <1>1, <1>2, <2>1, <2>7, <2>9, <2>10, <2>11 DEF OsInv
<1> QED
  BY <1>3, <1>4

\* Writing s where the caller is, behind what is kept, is writing both behind the position.
LEMMA BehindKept ==
  ASSUME OsInv, handle.open, AsWanted, NEW s \in Seq(Bytes)
  PROVE  Overlay(want, at, s) = Overlay(disk, pos, kept \o s) /\ at + Len(s) = pos + Len(kept \o s)
<1>1. disk \in Seq(Bytes) /\ pos \in 0..Len(disk) /\ kept \in Seq(Bytes)
  BY DEF OsInv, DiskOK, HandleOK, KeptOK
<1>2. Len(disk) \in Nat /\ Len(kept) \in Nat /\ Len(s) \in Nat /\ Len(kept) \in 0..Len(kept)
  BY <1>1, LenProperties
<1>3. Len(kept \o s) = Len(kept) + Len(s)
  BY <1>1, ConcatProperties
<1>4. want = Overlay(disk, pos, kept) /\ at = pos + Len(kept)
  BY DEF AsWanted
<1>5. Overlay(disk, pos, Overlay(kept, Len(kept), s)) = Overlay(Overlay(disk, pos, kept), pos + Len(kept), s)
  BY <1>1, <1>2, OverlayOverlay
<1>6. Overlay(kept, Len(kept), s) = kept \o s
  BY <1>1, OverlayAtEnd
<1> QED
  BY <1>1, <1>2, <1>3, <1>4, <1>5, <1>6

\* The library has written c and keeps nothing.
LEMMA NothingLeft ==
  ASSUME OsInv, handle.open, NEW c \in Seq(Bytes), NEW w, WritesTo(w, c),
         disk' = w.disk, pos' = w.pos, kept' = <<>>, handle' = handle
  PROVE  /\ DiskOK' /\ HandleOK' /\ KeptOK'
         /\ w.ok => Overlay(disk', pos', kept') = Overlay(disk, pos, c) /\ pos' + Len(kept') = pos + Len(c)
<1> DEFINE d == w.disk
           p == w.pos
<1>1. /\ d \in Seq(Bytes) /\ Len(d) <= Space /\ p \in 0..Len(d)
      /\ w.ok => d = Overlay(disk, pos, c) /\ p = pos + Len(c)
  BY Zenon DEF WritesTo
<1>2. <<>> \in Seq(Bytes) /\ Len(<<>>) = 0 /\ d # Nil
  BY <1>1, EmptySeq, OsAssumption
<1>3. handle.open \in BOOLEAN /\ handle.appends = FALSE
  BY DEF OsInv, HandleOK
<1> HIDE DEF d, p
<1>4. disk' = d /\ pos' = p
  BY DEF d, p
<1>5. DiskOK' /\ HandleOK' /\ KeptOK'
  BY <1>1, <1>2, <1>3, <1>4 DEF DiskOK, HandleOK, KeptOK
<1>6. Overlay(d, p, <<>>) = d /\ p + 0 = p
  BY <1>1, OverlayNothing
<1>7. Overlay(disk', pos', kept') = d /\ pos' + Len(kept') = p
  BY <1>2, <1>4, <1>6, Zenon
<1> QED
  BY <1>1, <1>5, <1>7

LEMMA WriteStep ==
  ASSUME OsInv, NEW s \in Strings(MaxIO) \ {<<>>}, Write(s)
  PROVE  OsInv'
<1>1. handle.open /\ handle.writes /\ system' = system /\ handle' = handle
      /\ at' = at + Len(s) /\ want' = Overlay(want, at, s)
  BY DEF Write
<1>2. s \in Seq(Bytes) /\ kept \in Seq(Bytes) /\ kept \o s \in Seq(Bytes)
  <2>1. s \in Seq(Bytes)
    BY StringsAreSeqs, OsAssumption
  <2>2. kept \in Seq(Bytes)
    BY DEF OsInv, KeptOK
  <2> QED
    BY <2>1, <2>2, ConcatProperties
<1>3. AsWanted => want' = Overlay(disk, pos, kept \o s) /\ at' = pos + Len(kept \o s)
  BY <1>1, <1>2, BehindKept
<1>4. CASE /\ Buffered /\ kept' = kept \o s /\ UNCHANGED <<disk, pos, failed>>
           /\ Says("write", "ok", s)
  <2>1. last'.op = "write"
    BY <1>4 DEF Says
  <2>2. DiskOK' /\ HandleOK' /\ KeptOK'
    BY <1>1, <1>2, <1>4 DEF OsInv, DiskOK, HandleOK, KeptOK, Buffered
  <2>3. AsWanted => AsWanted'
    BY <1>3, <1>4, Zenon DEF AsWanted
  <2> QED
    BY <1>1, <1>4, <2>1, <2>2, <2>3, OtherResults DEF OsInv
<1>5. ASSUME NEW w \in {Flushed(kept \o s)},
             disk' = w.disk, pos' = w.pos, kept' = <<>>,
             Says("write", IF Buffered THEN Outcome(w) ELSE "ok", IF Buffered THEN s ELSE WrittenOf(s, w)),
             failed' = (failed \/ last'.err # "ok" \/ Len(last'.bytes) # Len(s))
      PROVE  OsInv'
  <2>1. WritesTo(w, kept \o s)
    BY <1>1, <1>2, <1>5, FlushedWrites
  <2>2. DiskOK' /\ HandleOK' /\ KeptOK'
    BY <1>1, <1>2, <1>5, <2>1, NothingLeft
  <2>3. /\ last'.op = "write" /\ last'.err = (IF Buffered THEN Outcome(w) ELSE "ok")
        /\ last'.bytes = (IF Buffered THEN s ELSE WrittenOf(s, w))
    BY <1>5 DEF Says
  <2>4. failed' \in BOOLEAN
    BY <1>5
  <2>5. ASSUME ~failed' PROVE w.ok
    <3>1. last'.err = "ok" /\ Len(last'.bytes) = Len(s)
      BY <1>5, <2>5
    <3>2. CASE Buffered
      BY <2>3, <3>1, <3>2 DEF Outcome
    <3>3. CASE ~Buffered
      <4>1. kept = <<>>
        BY <3>3 DEF OsInv, KeptOK
      <4>2. WritesTo(w, s)
        BY <1>2, <2>1, <4>1, ConcatEmptySeq
      <4>3. w.fits \in 0..Len(s) /\ (w.ok <=> w.fits = Len(s)) /\ Len(s) \in Nat
        BY <1>2, <4>2, LenProperties DEF WritesTo
      <4>4. ASSUME ~w.ok PROVE FALSE
        <5> DEFINE k == w.fits
        <5>1. k \in Nat /\ k < Len(s) /\ k \in 0..Len(s) /\ 0 \in Nat /\ 0 <= k /\ 0 + 1 = 1 /\ k - 0 = k
          BY <4>3, <4>4
        <5>2. system = "win32"
          BY <3>3 DEF Buffered
        <5> HIDE DEF k
        <5>3. last'.bytes = SubSeq(s, 1, k)
          <6>1. Least(Len(s), k) = k
            BY <4>3, <5>1 DEF Least
          <6> QED
            BY <2>3, <3>3, <5>2, <6>1 DEF WrittenOf, k
        <5>4. IsPart(SubSeq(s, 0 + 1, k), s, 0, k)
          BY <1>2, <5>1, PartOfSeq, Zenon
        <5>5. Len(SubSeq(s, 1, k)) = k
          BY <5>1, <5>4 DEF IsPart
        <5> QED
          BY <3>1, <4>3, <5>1, <5>3, <5>5
      <4> QED
        BY <4>4
    <3> QED
      BY <3>2, <3>3
  <2>6. ASSUME ~failed' PROVE AsWanted'
    <3>1. ~failed
      BY <1>5, <2>6 DEF OsInv
    <3>2. AsWanted
      BY <1>1, <3>1 DEF OsInv
    <3>3. Overlay(disk', pos', kept') = Overlay(disk, pos, kept \o s)
          /\ pos' + Len(kept') = pos + Len(kept \o s)
      BY <1>1, <1>2, <1>5, <2>1, <2>5, <2>6, NothingLeft
    <3> QED
      BY <1>3, <3>2, <3>3, Zenon DEF AsWanted
  <2> QED
    BY <1>1, <2>2, <2>3, <2>4, <2>6, OtherResults DEF OsInv
<1> QED
  BY <1>4, <1>5, Zenon DEF Write

LEMMA SeekStep ==
  ASSUME OsInv, NEW origin \in {"set", "cur", "end"}, NEW offset \in Int, Seek(origin, offset)
  PROVE  OsInv'
<1> DEFINE w == FlushAtSeek
<1>1. handle.open /\ ~failed /\ Target(origin, offset) \in 0..Len(want)
      /\ system' = system /\ handle' = handle /\ want' = want /\ disk' = w.disk /\ kept' = <<>>
  BY DEF Seek
<1>2. kept \in Seq(Bytes)
  BY DEF OsInv, KeptOK
<1>3. WritesTo(w, kept)
  BY <1>1, <1>2, FlushedWrites DEF FlushAtSeek
<1>4. AsWanted
  BY <1>1 DEF OsInv
<1>5. CASE ~w.ok
  <2>1. pos' = w.pos /\ Says("seek", "seek", <<>>) /\ failed' = TRUE
    BY <1>5 DEF Seek
  <2>2. DiskOK' /\ HandleOK' /\ KeptOK'
    BY <1>1, <1>2, <1>3, <2>1, NothingLeft
  <2>3. last'.op = "seek"
    BY <2>1 DEF Says
  <2> QED
    BY <1>1, <2>1, <2>2, <2>3, OtherResults DEF OsInv
<1>6. CASE w.ok
  <2> DEFINE p == Target(origin, offset)
  <2>1. pos' = Reached(origin, offset) /\ at' = p /\ Says("seek", "ok", <<>>) /\ failed' = failed
    BY <1>6 DEF Seek
  <2>2. w.disk = want /\ w.pos = at /\ w.disk \in Seq(Bytes) /\ Len(w.disk) <= Space
    BY <1>3, <1>4, <1>6, Zenon DEF WritesTo, AsWanted
  <2>3. Reached(origin, offset) = p
    BY <2>2 DEF Reached, Target
  <2>4. want # Nil /\ <<>> \in Seq(Bytes) /\ Len(<<>>) = 0
    BY <2>2, EmptySeq, OsAssumption
  <2>5. p \in 0..Len(want) /\ want \in Seq(Bytes)
    BY <1>1, <2>2
  <2> HIDE DEF p
  <2>6. Overlay(want, p, <<>>) = want /\ p + 0 = p
    BY <2>5, OverlayNothing
  <2>7. disk' = want /\ pos' = p
    BY <1>1, <2>1, <2>2, <2>3
  <2>8. AsWanted'
    BY <1>1, <2>1, <2>4, <2>6, <2>7, Zenon DEF AsWanted
  <2>9. DiskOK' /\ KeptOK'
    BY <1>1, <2>2, <2>4, <2>7 DEF DiskOK, KeptOK
  <2>10. HandleOK'
    BY <1>1, <2>4, <2>5, <2>7 DEF OsInv, HandleOK
  <2>11. last'.op = "seek"
    BY <2>1 DEF Says
  <2> QED
    BY <1>1, <2>1, <2>8, <2>9, <2>10, <2>11, OtherResults DEF OsInv
<1> QED
  BY <1>5, <1>6

LEMMA TellStep ==
  ASSUME OsInv, Tell
  PROVE  OsInv'
<1>1. last'.op = "tell" /\ UNCHANGED <<system, fileVars, handle, failed, wantVars>>
  BY DEF Tell
<1> QED
  BY <1>1, OtherResults
  DEF OsInv, fileVars, wantVars, DiskOK, HandleOK, KeptOK, AsWanted, Buffered

LEMMA CloseStep ==
  ASSUME OsInv, Close
  PROVE  OsInv'
<1> DEFINE w == Flushed(kept)
<1>1. /\ handle.open /\ disk' = w.disk /\ Says("close", CloseResult(w), <<>>)
      /\ failed' = (failed \/ CloseResult(w) # "ok")
      /\ handle' = NoHandle /\ kept' = <<>> /\ pos' = 0 /\ system' = system /\ want' = want
  BY DEF Close, wantVars
<1>2. WritesTo(w, kept)
  BY <1>1, FlushedWrites DEF OsInv, KeptOK
<1>3. w.disk \in Seq(Bytes) /\ Len(w.disk) <= Space
  BY <1>2, Zenon DEF WritesTo
<1>4. DiskOK' /\ HandleOK' /\ KeptOK' /\ handle'.open = FALSE
  BY <1>1, <1>3, EmptySeq DEF DiskOK, HandleOK, KeptOK, NoHandle
<1>5. ASSUME ~failed' PROVE w.disk = want
  <2>1. ~failed /\ CloseResult(w) = "ok"
    BY <1>1, <1>5 DEF OsInv
  <2>2. w.ok /\ AsWanted
    BY <1>1, <2>1 DEF CloseResult, OsInv
  <2> QED
    BY <1>2, <2>2, Zenon DEF WritesTo, AsWanted
<1>6. last'.op = "close"
  BY <1>1 DEF Says
<1>7. ReadsAreFile' /\ ClosedIsWritten'
  BY <1>1, <1>5, <1>6 DEF ReadsAreFile, ClosedIsWritten
<1> QED
  BY <1>1, <1>4, <1>7 DEF OsInv

LEMMA DeleteStep ==
  ASSUME OsInv, Habits = {}, Delete
  PROVE  OsInv'
<1>1. /\ handle.open /\ kept = <<>> /\ disk' = (IF system = "wasm" THEN Flushed(kept).disk ELSE disk)
      /\ handle' = NoHandle /\ kept' = <<>> /\ pos' = 0 /\ Says("delete", "ok", <<>>)
      /\ system' = system /\ failed' = failed /\ want' = want
  BY DEF Delete, wantVars
<1>2. disk' = disk
  BY <1>1, NothingKept
<1>3. DiskOK' /\ HandleOK' /\ KeptOK' /\ handle'.open = FALSE
  BY <1>1, <1>2, EmptySeq DEF OsInv, DiskOK, HandleOK, KeptOK, NoHandle
<1>4. ASSUME ~failed PROVE disk = want
  <2>1. disk \in Seq(Bytes) /\ pos \in 0..Len(disk) /\ want = Overlay(disk, pos, <<>>)
    BY <1>1, <1>4 DEF OsInv, DiskOK, HandleOK, AsWanted
  <2> QED
    BY <2>1, OverlayNothing
<1>5. last'.op = "delete"
  BY <1>1 DEF Says
<1>6. ReadsAreFile' /\ ClosedIsWritten'
  BY <1>1, <1>2, <1>4, <1>5 DEF ReadsAreFile, ClosedIsWritten
<1> QED
  BY <1>1, <1>3, <1>6 DEF OsInv

-----------------------------------------------------------------------------
(* The theorems *)

LEMMA OsInvariant ==
  ASSUME Habits = {}
  PROVE  Spec => []OsInv
<1>1. Init => OsInv
  BY InitOs
<1>2. OsInv /\ [Next]_vars => OsInv'
  <2> SUFFICES ASSUME OsInv, [Next]_vars PROVE OsInv'
    OBVIOUS
  <2>1. ASSUME NEW mode \in {"read", "create", "append"}, Open(mode) PROVE OsInv'
    BY <2>1, OpenStep
  <2>2. ASSUME NEW n \in 1..MaxIO, Read(n) PROVE OsInv'
    BY <2>2, ReadStep
  <2>3. ASSUME NEW s \in Strings(MaxIO) \ {<<>>}, Write(s) PROVE OsInv'
    BY <2>3, WriteStep
  <2>4. ASSUME NEW origin \in {"set", "cur", "end"}, NEW o \in (-MaxSize)..MaxSize, Seek(origin, o)
        PROVE  OsInv'
    <3>1. o \in Int
      BY OsAssumption
    <3> QED
      BY <2>4, <3>1, SeekStep
  <2>5. CASE Tell
    BY <2>5, TellStep
  <2>6. CASE Close
    BY <2>6, CloseStep
  <2>7. CASE Delete
    BY <2>7, DeleteStep
  <2>8. CASE UNCHANGED vars
    BY <2>8
    DEF vars, OsInv, DiskOK, HandleOK, KeptOK, AsWanted, ReadsAreFile, ClosedIsWritten, Buffered
  <2> QED
    BY <2>1, <2>2, <2>3, <2>4, <2>5, <2>6, <2>7, <2>8, Zenon DEF Next
<1> QED
  BY <1>1, <1>2, PTL DEF Spec

\* On each of the three systems, as long as no call has failed, the file with what the C library
\* still keeps is the file that the calls describe, reads hand out that file, and a tell names the
\* caller's place in it (mz_stream_os_open, _read, _write, _seek, _tell): for every disk and every
\* sequence of calls, when no archive is appended to in the WASM build.
THEOREM StreamIsFileAlways ==
  ASSUME Habits = {}
  PROVE  Spec => []StreamIsFile
<1>1. OsInv => StreamIsFile
  BY OsInvStreamIsFile
<1> QED
  BY <1>1, OsInvariant, PTL

\* A file that was closed, or deleted as a stream, without any call reporting a failure holds what
\* was written to it, also when the disk is full (mz_stream_os_write, _seek, _close): no write that
\* did not reach the disk goes unreported.
THEOREM ClosedIsWrittenAlways ==
  ASSUME Habits = {}
  PROVE  Spec => []ClosedIsWritten
<1>1. OsInv => ClosedIsWritten
  BY OsInvStreamIsFile
<1> QED
  BY <1>1, OsInvariant, PTL

=============================================================================
