-------------------------- MODULE BufferedStream_proofs --------------------------
(***************************************************************************)
(* Theorems about BufferedStream, for every size of the buffers, every     *)
(* file and every bound, when none of Habits is in use.                    *)
(***************************************************************************)
EXTENDS BufferedStream, Overlays_proofs

-----------------------------------------------------------------------------
(* The invariant *)

FileOK ==
  /\ file \in Seq(Bytes) /\ Len(file) <= MaxLen
  /\ basePos \in 0..Len(file) /\ position = basePos

\* A read buffer that is not full was filled at the end of the file, so that the next fill,
\* which goes behind what it holds, adds nothing.
ReadOK ==
  /\ readbuf \in Seq(Bytes) /\ Len(readbuf) <= BufSize /\ readPos \in 0..Len(readbuf)
  /\ ReadbufIsFile
  /\ readbuf # <<>> /\ Len(readbuf) < BufSize => basePos = Len(file)
WriteOK ==
  /\ writebuf \in Seq(Bytes) /\ Len(writebuf) <= BufSize /\ writePos \in 0..Len(writebuf)
  /\ basePos + Len(writebuf) <= MaxLen
OneBuffer == readbuf = <<>> \/ writebuf = <<>>

\* A running call has put the other buffer away, and a write has room for what is left of it.
CallOK ==
  /\ call \in {"none", "read", "write"}
  /\ left \in Nat /\ todo \in Seq(Bytes) /\ out \in Seq(Bytes)
  /\ call = "read" => writebuf = <<>>
  /\ call = "write" => readbuf = <<>> /\ todo # <<>> /\ basePos + writePos + Len(todo) <= MaxLen

BufInv == FileOK /\ ReadOK /\ WriteOK /\ OneBuffer /\ CallOK

LEMMA BufInvBuffersOK == BufInv => BuffersOK
BY DEF BufInv, FileOK, ReadOK, WriteOK, OneBuffer, CallOK, BuffersOK

LEMMA SizeTypes == BufSize \in Nat /\ BufSize > 0 /\ MaxLen \in Nat /\ MaxIO \in Nat
<1>1. BufSize \in Nat \ {0} /\ MaxLen \in Nat /\ MaxIO \in Nat
  BY BufferAssumption
<1> QED
  BY <1>1

\* Lengths and positions are numbers.
LEMMA NumberTypes ==
  ASSUME BufInv
  PROVE  /\ Len(file) \in Nat /\ Len(readbuf) \in Nat /\ Len(writebuf) \in Nat /\ Len(todo) \in Nat
         /\ basePos \in Nat /\ readPos \in Nat /\ writePos \in Nat /\ position \in Nat /\ left \in Nat
         /\ basePos <= Len(file) /\ readPos <= Len(readbuf) /\ writePos <= Len(writebuf)
         /\ Len(readbuf) <= basePos /\ At \in Nat
<1>1. /\ Len(file) \in Nat /\ Len(readbuf) \in Nat /\ Len(writebuf) \in Nat /\ Len(todo) \in Nat
      /\ left \in Nat
  BY LenProperties DEF BufInv, FileOK, ReadOK, WriteOK, CallOK
<1>2. /\ basePos \in 0..Len(file) /\ readPos \in 0..Len(readbuf) /\ writePos \in 0..Len(writebuf)
      /\ position = basePos /\ Len(readbuf) <= basePos
  BY DEF BufInv, FileOK, ReadOK, WriteOK, ReadbufIsFile
<1> QED
  BY <1>1, <1>2 DEF At

\* What the file becomes when the write buffer goes into it.
LEMMA FlushedFile ==
  ASSUME BufInv
  PROVE  /\ Flushed \in Seq(Bytes) /\ Flushed = Contents
         /\ Len(Flushed) \in Nat /\ Len(Flushed) = Longer(Len(file), basePos + Len(writebuf))
         /\ Len(Flushed) <= MaxLen
         /\ writebuf = <<>> => Flushed = file
<1>1. file \in Seq(Bytes) /\ writebuf \in Seq(Bytes) /\ basePos \in 0..Len(file)
  BY DEF BufInv, FileOK, WriteOK
<1>2. Flushed \in Seq(Bytes) /\ Written(Flushed, file, basePos, writebuf)
  BY <1>1, OverlayProperties, Zenon DEF Flushed
<1>3. Len(Flushed) = Longer(Len(file), basePos + Len(writebuf))
  BY <1>2, Zenon DEF Written
<1>4. writebuf = <<>> => Flushed = file
  BY <1>1, OverlayNothing, Zenon DEF Flushed
<1>5. Len(file) <= MaxLen /\ basePos + Len(writebuf) <= MaxLen
  BY DEF BufInv, FileOK, WriteOK
<1>6. Len(Flushed) <= MaxLen
  BY <1>3, <1>5 DEF Longer
<1>7. Flushed = Contents /\ Len(Flushed) \in Nat
  BY <1>2, LenProperties DEF Flushed, Contents
<1> QED
  BY <1>2, <1>3, <1>4, <1>6, <1>7

\* The caller is within the file.
LEMMA AtInside ==
  ASSUME BufInv
  PROVE  /\ At \in 0..Len(Contents) /\ Len(Contents) \in Nat
         /\ At + (Len(readbuf) - readPos) + (Len(writebuf) - writePos) <= Len(Contents)
<1>1. Len(Contents) = Longer(Len(file), basePos + Len(writebuf))
  BY FlushedFile
<1>2. Len(readbuf) = 0 \/ Len(writebuf) = 0
  BY DEF BufInv, OneBuffer
<1> QED
  BY <1>1, <1>2, NumberTypes DEF At, Longer

\* A file f without buffers, at b.
LEMMA EmptyBuffers ==
  ASSUME NEW f \in Seq(Bytes), Len(f) <= MaxLen, NEW b \in 0..Len(f),
         file' = f, basePos' = b, position' = b, NoReadbuf, NoWritebuf
  PROVE  FileOK' /\ ReadOK' /\ WriteOK' /\ OneBuffer' /\ Contents' = f /\ At' = b
<1>1. Len(f) \in Nat /\ b \in Nat /\ MaxLen \in Nat /\ BufSize \in Nat /\ BufSize > 0
  BY LenProperties, SizeTypes
<1>2. readbuf' = <<>> /\ writebuf' = <<>> /\ readPos' = 0 /\ writePos' = 0
  BY DEF NoReadbuf, NoWritebuf
<1>3. <<>> \in Seq(Bytes) /\ Len(<<>>) = 0
  BY EmptySeq
<1>4. FileOK'
  BY DEF FileOK
<1>5. SubSeq(f, b - 0 + 1, b) = <<>>
  <2>1. b - 0 + 1 > b /\ b - 0 + 1 \in Int /\ b \in Int
    BY <1>1
  <2> QED
    BY <2>1, SubSeqEmpty
<1>6. ReadOK'
  BY <1>1, <1>2, <1>3, <1>5 DEF ReadOK, ReadbufIsFile
<1>7. WriteOK'
  BY <1>1, <1>2, <1>3 DEF WriteOK
<1>8. OneBuffer'
  BY <1>2 DEF OneBuffer
<1>9. Contents' = f
  BY <1>2, OverlayNothing DEF Contents
<1>10. At' = b
  BY <1>1, <1>2, <1>3 DEF At
<1> QED
  BY <1>4, <1>6, <1>7, <1>8, <1>9, <1>10

-----------------------------------------------------------------------------
(* Calls that flush, seek or tell *)

LEMMA InitBuffers == Init => BufInv /\ Contents \in Seq(Bytes) /\ At = 0
<1> SUFFICES ASSUME Init PROVE BufInv /\ Contents \in Seq(Bytes) /\ At = 0
  OBVIOUS
<1>1. MaxLen \in Nat /\ BufSize \in Nat
  BY SizeTypes
<1>2. /\ basePos = 0 /\ position = 0 /\ readbuf = <<>> /\ writebuf = <<>> /\ readPos = 0 /\ writePos = 0
      /\ call = "none" /\ left = 0 /\ todo = <<>> /\ out = <<>>
  BY DEF Init
<1>3. <<>> \in Seq(Bytes) /\ Len(<<>>) = 0
  BY EmptySeq
<1>4. file \in Seq(Bytes) /\ Len(file) <= MaxLen
  <2>1. CASE file = <<>>
    BY <1>1, <1>3, <2>1
  <2>2. CASE file \in [1..MaxLen -> Bytes]
    <3>1. file \in Seq(Bytes)
      BY <1>1, <2>2, SeqDef
    <3>2. DOMAIN file = 1..MaxLen /\ DOMAIN file = 1..Len(file) /\ Len(file) \in Nat
      BY <2>2, <3>1, LenProperties
    <3> QED
      BY <1>1, <3>1, <3>2
  <2> QED
    BY <2>1, <2>2 DEF Init
<1>5. Len(file) \in Nat
  BY <1>4, LenProperties
<1>6. SubSeq(file, 0 - 0 + 1, 0) = <<>>
  <2>1. ASSUME NEW b \in {0} PROVE SubSeq(file, b - 0 + 1, b) = <<>>
    <3>1. b - 0 + 1 \in Int /\ b \in Int /\ b < b - 0 + 1
      OBVIOUS
    <3> QED
      BY <3>1, SubSeqEmpty
  <2> QED
    BY <2>1
<1>7. FileOK
  BY <1>2, <1>4, <1>5 DEF FileOK
<1>8. ReadOK
  BY <1>1, <1>2, <1>3, <1>6 DEF ReadOK, ReadbufIsFile
<1>9. WriteOK /\ OneBuffer /\ CallOK
  BY <1>1, <1>2, <1>3 DEF WriteOK, OneBuffer, CallOK
<1>10. Contents = file
  BY <1>2, <1>4, <1>5, OverlayNothing DEF Contents
<1>11. At = 0
  <2>1. basePos = 0 /\ Len(readbuf) = 0 /\ readPos = 0 /\ writePos = 0
    BY <1>2, <1>3
  <2>2. 0 - (0 - 0) + 0 = 0
    OBVIOUS
  <2> QED
    BY <2>1, <2>2, Zenon DEF At
<1> QED
  BY <1>4, <1>7, <1>8, <1>9, <1>10, <1>11 DEF BufInv

\* A flush that leaves both buffers empty and the base stream at b.
LEMMA FlushedAt ==
  ASSUME BufInv, NEW b \in 0..Len(Flushed), file' = Flushed, basePos' = b, position' = b,
         NoReadbuf, NoWritebuf
  PROVE  FileOK' /\ ReadOK' /\ WriteOK' /\ OneBuffer' /\ Contents' = Contents /\ At' = b
<1>1. Flushed \in Seq(Bytes) /\ Flushed = Contents /\ Len(Flushed) <= MaxLen
  BY FlushedFile
<1> DEFINE f == Flushed
<1> HIDE DEF f
<1>2. f \in Seq(Bytes) /\ Len(f) <= MaxLen /\ b \in 0..Len(f) /\ file' = f
  BY <1>1 DEF f
<1>3. FileOK' /\ ReadOK' /\ WriteOK' /\ OneBuffer' /\ Contents' = f /\ At' = b
  BY <1>2, EmptyBuffers, Zenon
<1> QED
  BY <1>1, <1>3 DEF f

\* A call that begins or ends leaves the rest of its state as it was.
LEMMA IdleCall ==
  ASSUME BufInv, call = "none", UNCHANGED callVars
  PROVE  CallOK'
BY DEF BufInv, CallOK, callVars

LEMMA CloseStep ==
  ASSUME BufInv, Close
  PROVE  BufInv' /\ Contents' = Contents /\ At' = 0
<1>1. /\ call = "none" /\ file' = Flushed /\ basePos' = 0 /\ position' = 0
      /\ NoReadbuf /\ NoWritebuf /\ UNCHANGED callVars
  BY DEF Close
<1>2. 0 \in 0..Len(Flushed)
  BY FlushedFile
<1>3. FileOK' /\ ReadOK' /\ WriteOK' /\ OneBuffer' /\ Contents' = Contents /\ At' = 0
  BY <1>1, <1>2, FlushedAt
<1> QED
  BY <1>1, <1>3, IdleCall DEF BufInv

LEMMA TellStep ==
  ASSUME BufInv, Tell
  PROVE  BufInv' /\ Contents' = Contents /\ At' = At /\ ret' = At
<1>1. /\ call = "none" /\ position' = basePos /\ ret' = TellPos
      /\ UNCHANGED <<file, basePos, bufVars, callVars>>
  BY DEF Tell
<1>2. position = basePos
  BY DEF BufInv, FileOK
<1>3. BufInv'
  BY <1>1, <1>2 DEF BufInv, FileOK, ReadOK, ReadbufIsFile, WriteOK, OneBuffer, CallOK, bufVars, callVars
<1>4. Contents' = Contents /\ At' = At
  BY <1>1 DEF Contents, At, bufVars
<1>5. TellPos = At
  <2>1. readbuf = <<>> => Len(readbuf) = 0 /\ readPos = 0
    <3>1. readPos \in 0..Len(readbuf)
      BY DEF BufInv, ReadOK
    <3> QED
      BY <3>1
  <2>2. writebuf = <<>> => writePos = 0
    <3>1. writePos \in 0..Len(writebuf)
      BY DEF BufInv, WriteOK
    <3> QED
      BY <3>1
  <2> QED
    BY <2>1, <2>2, NumberTypes DEF TellPos, At
<1> QED
  BY <1>1, <1>3, <1>4, <1>5

\* The position moves within the read buffer.
LEMMA MovedInReadbuf ==
  ASSUME BufInv, NEW r \in 0..Len(readbuf), readbuf # <<>>, readPos' = r, call = "none",
         UNCHANGED <<file, basePos, position, readbuf, writebuf, writePos, callVars>>
  PROVE  BufInv' /\ Contents' = Contents /\ At' = At + (r - readPos)
<1>1. FileOK' /\ WriteOK' /\ OneBuffer' /\ CallOK'
  BY DEF BufInv, FileOK, WriteOK, OneBuffer, CallOK, callVars
<1>2. ReadOK'
  BY DEF BufInv, ReadOK, ReadbufIsFile
<1>3. Contents' = Contents
  BY DEF Contents
<1>4. At' = At + (r - readPos)
  BY NumberTypes DEF At
<1> QED
  BY <1>1, <1>2, <1>3, <1>4 DEF BufInv

\* ... or within the write buffer.
LEMMA MovedInWritebuf ==
  ASSUME BufInv, NEW w \in 0..Len(writebuf), writePos' = w, call = "none",
         UNCHANGED <<file, basePos, position, readbuf, readPos, writebuf, callVars>>
  PROVE  BufInv' /\ Contents' = Contents /\ At' = At + (w - writePos)
<1>1. FileOK' /\ ReadOK' /\ OneBuffer' /\ CallOK'
  BY DEF BufInv, FileOK, ReadOK, ReadbufIsFile, OneBuffer, CallOK, callVars
<1>2. WriteOK'
  BY DEF BufInv, WriteOK
<1>3. Contents' = Contents
  BY DEF Contents
<1>4. At' = At + (w - writePos)
  BY NumberTypes DEF At
<1> QED
  BY <1>1, <1>2, <1>3, <1>4 DEF BufInv

LEMMA SeekSetStep ==
  ASSUME BufInv, NEW p \in 0..Len(Contents), SeekSet(p)
  PROVE  BufInv' /\ Contents' = Contents /\ At' = p
<1>1. call = "none" /\ UNCHANGED callVars
  BY DEF SeekSet
<1>2. p \in Nat /\ position = basePos
  BY AtInside DEF BufInv, FileOK
<1>3. CASE InReadbuf(p) /\ readPos' = p - (position - Len(readbuf))
           /\ UNCHANGED <<file, basePos, position, readbuf, writebuf, writePos>>
  <2> DEFINE r == p - (position - Len(readbuf))
  <2>1. readbuf # <<>> /\ p < position /\ p >= position - Len(readbuf)
    BY <1>3 DEF InReadbuf
  <2>2. r \in 0..Len(readbuf) /\ writebuf = <<>> /\ writePos = 0
    <3>1. writebuf = <<>> /\ writePos \in 0..Len(writebuf) /\ Len(<<>>) = 0
      BY <2>1, EmptySeq DEF BufInv, OneBuffer, WriteOK
    <3> QED
      BY <1>2, <2>1, <3>1, NumberTypes
  <2>3. BufInv' /\ Contents' = Contents /\ At' = At + (r - readPos)
    BY <1>1, <1>3, <2>1, <2>2, MovedInReadbuf
  <2>4. At + (r - readPos) = p
    BY <1>2, <2>2, NumberTypes DEF At
  <2> QED
    BY <2>3, <2>4
<1>4. CASE InWritebuf(p) /\ writePos' = p - position
           /\ UNCHANGED <<file, basePos, position, readbuf, readPos, writebuf>>
  <2> DEFINE w == p - position
  <2>1. writebuf # <<>> /\ p >= position /\ p <= position + Len(writebuf)
    BY <1>4 DEF InWritebuf
  <2>2. w \in 0..Len(writebuf) /\ Len(readbuf) = 0 /\ readPos = 0
    <3>1. readbuf = <<>> /\ readPos \in 0..Len(readbuf) /\ Len(<<>>) = 0
      BY <2>1, EmptySeq DEF BufInv, OneBuffer, ReadOK
    <3> QED
      BY <1>2, <2>1, <3>1, NumberTypes
  <2>3. BufInv' /\ Contents' = Contents /\ At' = At + (w - writePos)
    BY <1>1, <1>4, <2>2, MovedInWritebuf
  <2>4. At + (w - writePos) = p
    BY <1>2, <2>2, NumberTypes DEF At
  <2> QED
    BY <2>3, <2>4
<1>5. CASE file' = Flushed /\ position' = p /\ basePos' = p /\ NoReadbuf /\ NoWritebuf
  <2>1. p \in 0..Len(Flushed)
    BY FlushedFile
  <2> QED
    BY <1>1, <1>5, <2>1, FlushedAt, IdleCall DEF BufInv
<1> QED
  BY <1>3, <1>4, <1>5 DEF SeekSet

LEMMA SeekCurStep ==
  ASSUME BufInv, Habits = {}, NEW k \in 0..(Len(Contents) - At), SeekCur(k)
  PROVE  BufInv' /\ Contents' = Contents /\ At' = At + k
<1> DEFINE ahead == Len(readbuf) - readPos
<1>1. call = "none" /\ UNCHANGED callVars
  BY DEF SeekCur
<1>2. k \in Nat /\ k <= Len(Contents) - At /\ position = basePos
  BY AtInside DEF BufInv, FileOK
<1>3. CASE readbuf # <<>> /\ k <= ahead /\ readPos' = readPos + k
           /\ UNCHANGED <<file, basePos, position, readbuf, writebuf, writePos>>
  <2>1. readPos + k \in 0..Len(readbuf)
    BY <1>2, <1>3, NumberTypes
  <2>2. BufInv' /\ Contents' = Contents /\ At' = At + ((readPos + k) - readPos)
    BY <1>1, <1>3, <2>1, MovedInReadbuf
  <2> QED
    BY <1>2, <2>2, NumberTypes
<1>4. CASE readbuf # <<>> /\ k > ahead
           /\ file' = Flushed /\ basePos' = basePos + (k - ahead)
           /\ position' = position + (k - ahead) /\ NoReadbuf /\ NoWritebuf
  <2> DEFINE b == basePos + (k - ahead)
  <2>1. writePos = 0
    <3>1. writebuf = <<>> /\ writePos \in 0..Len(writebuf) /\ Len(<<>>) = 0
      BY <1>4, EmptySeq DEF BufInv, OneBuffer, WriteOK
    <3> QED
      BY <3>1
  <2>2. b = At + k
    BY <1>2, <2>1, NumberTypes DEF At
  <2>3. b \in 0..Len(Flushed)
    <3>1. At + k \in 0..Len(Contents)
      BY <1>2, AtInside
    <3> QED
      BY <2>2, <3>1, FlushedFile
  <2> HIDE DEF b
  <2>4. basePos' = b /\ position' = b
    BY <1>2, <1>4 DEF b
  <2>5. FileOK' /\ ReadOK' /\ WriteOK' /\ OneBuffer' /\ Contents' = Contents /\ At' = b
    BY <1>4, <2>3, <2>4, FlushedAt, Zenon
  <2> QED
    BY <1>1, <2>2, <2>5, IdleCall DEF BufInv
<1>5. CASE readbuf = <<>> /\ k <= Len(writebuf) - writePos /\ writePos' = writePos + k
           /\ UNCHANGED <<file, basePos, position, readbuf, readPos, writebuf>>
  <2>1. writePos + k \in 0..Len(writebuf)
    BY <1>2, <1>5, NumberTypes
  <2>2. BufInv' /\ Contents' = Contents /\ At' = At + ((writePos + k) - writePos)
    BY <1>1, <1>5, <2>1, MovedInWritebuf
  <2> QED
    BY <1>2, <2>2, NumberTypes
<1> QED
  BY <1>3, <1>4, <1>5 DEF SeekCur

LEMMA SeekEndStep ==
  ASSUME BufInv, Habits = {}, SeekEnd
  PROVE  BufInv' /\ Contents' = Contents /\ At' = Len(Contents) /\ ret' = Len(Contents)
<1>1. call = "none" /\ UNCHANGED callVars
  BY DEF SeekEnd
<1>2. position = basePos
  BY DEF BufInv, FileOK
<1>3. CASE /\ writebuf # <<>> /\ basePos + Len(writebuf) >= Len(file)
           /\ writePos' = Len(writebuf) /\ position' = basePos
           /\ ret' = basePos + Len(writebuf) - (Len(readbuf) - readPos)
           /\ UNCHANGED <<file, basePos, readbuf, readPos, writebuf>>
  <2>1. Len(readbuf) = 0 /\ readPos = 0
    <3>1. readbuf = <<>> /\ readPos \in 0..Len(readbuf) /\ Len(<<>>) = 0
      BY <1>3, EmptySeq DEF BufInv, OneBuffer, ReadOK
    <3> QED
      BY <3>1
  <2>2. Len(writebuf) \in 0..Len(writebuf)
    BY NumberTypes
  <2>3. BufInv' /\ Contents' = Contents /\ At' = At + (Len(writebuf) - writePos)
    BY <1>1, <1>2, <1>3, <2>2, MovedInWritebuf
  <2>4. Len(Contents) = basePos + Len(writebuf)
    <3>1. Len(Contents) = Longer(Len(file), basePos + Len(writebuf))
      BY FlushedFile
    <3> QED
      BY <1>3, <3>1, NumberTypes DEF Longer
  <2>5. At + (Len(writebuf) - writePos) = basePos + Len(writebuf)
        /\ basePos + Len(writebuf) - (Len(readbuf) - readPos) = basePos + Len(writebuf)
    BY <2>1, NumberTypes DEF At
  <2> QED
    BY <1>3, <2>3, <2>4, <2>5
<1>4. CASE /\ writebuf = <<>> /\ basePos' = Len(file) /\ position' = Len(file) /\ ret' = Len(file)
           /\ NoReadbuf /\ NoWritebuf /\ UNCHANGED file
  <2>1. Flushed = file /\ Contents = file /\ Len(file) \in 0..Len(Flushed)
    BY <1>4, FlushedFile, NumberTypes
  <2>2. FileOK' /\ ReadOK' /\ WriteOK' /\ OneBuffer' /\ Contents' = Contents /\ At' = Len(file)
    BY <1>4, <2>1, FlushedAt, Zenon
  <2> QED
    BY <1>1, <1>4, <2>1, <2>2, IdleCall DEF BufInv
<1> QED
  BY <1>3, <1>4 DEF SeekEnd

-----------------------------------------------------------------------------
(* Reads *)

LEMMA ReadCallStep ==
  ASSUME BufInv, NEW n \in 1..MaxIO, ReadCall(n)
  PROVE  BufInv' /\ Contents' = Contents /\ At' = At
<1>1. call = "none" /\ call' = "read" /\ left' = n /\ out' = <<>> /\ todo' = todo
  BY DEF ReadCall
<1>2. n \in Nat
  BY SizeTypes
<1>3. ASSUME writebuf' = <<>> PROVE CallOK'
  <2>1. <<>> \in Seq(Bytes)
    BY EmptySeq
  <2>2. todo \in Seq(Bytes)
    BY DEF BufInv, CallOK
  <2> QED
    BY <1>1, <1>2, <1>3, <2>1, <2>2 DEF CallOK
<1>4. CASE writebuf # <<>>
  <2> DEFINE b == basePos + writePos
  <2>1. file' = Flushed /\ position' = position + writePos /\ basePos' = position + writePos
        /\ NoReadbuf /\ NoWritebuf
    BY <1>4 DEF ReadCall
  <2>2. position = basePos
    BY DEF BufInv, FileOK
  <2>3. b \in 0..Len(Flushed)
    <3>1. Len(Flushed) = Longer(Len(file), basePos + Len(writebuf))
      BY FlushedFile
    <3> QED
      BY <3>1, NumberTypes DEF Longer
  <2>4. b = At
    <3>1. readbuf = <<>> /\ readPos \in 0..Len(readbuf) /\ Len(<<>>) = 0
      BY <1>4, EmptySeq DEF BufInv, OneBuffer, ReadOK
    <3>2. Len(readbuf) = 0 /\ readPos = 0
      BY <3>1
    <3> QED
      BY <3>2, NumberTypes DEF At
  <2> HIDE DEF b
  <2>5. basePos' = b /\ position' = b
    BY <2>1, <2>2 DEF b
  <2>6. FileOK' /\ ReadOK' /\ WriteOK' /\ OneBuffer' /\ Contents' = Contents /\ At' = b
    BY <2>1, <2>3, <2>5, FlushedAt, Zenon
  <2>7. CallOK'
    BY <1>3, <2>1 DEF NoWritebuf
  <2> QED
    BY <2>4, <2>6, <2>7 DEF BufInv
<1>5. CASE writebuf = <<>>
  <2>1. UNCHANGED <<file, basePos, position, bufVars>>
    BY <1>5 DEF ReadCall
  <2>2. FileOK' /\ ReadOK' /\ WriteOK' /\ OneBuffer'
    BY <2>1 DEF BufInv, FileOK, ReadOK, ReadbufIsFile, WriteOK, OneBuffer, bufVars
  <2>3. CallOK'
    BY <1>3, <1>5, <2>1 DEF bufVars
  <2>4. Contents' = Contents /\ At' = At
    BY <2>1 DEF Contents, At, bufVars
  <2> QED
    BY <2>2, <2>3, <2>4 DEF BufInv
<1> QED
  BY <1>4, <1>5

\* What one turn of the loop of a read uses: ReadLoop by its parts.
Exhausted == readPos = Len(readbuf)
Kept      == IF Len(readbuf) = BufSize THEN <<>> ELSE readbuf
FillEnd   == Least(basePos + BufSize, Len(file))
Filled    == SubSeq(file, basePos + 1, FillEnd)
Buffer    == IF Exhausted THEN Kept \o Filled ELSE readbuf
From      == IF Exhausted THEN Len(Kept) ELSE readPos
BaseThen  == IF Exhausted THEN basePos + Len(Filled) ELSE basePos
Taken     == Least(Len(Buffer) - From, left)

\* The buffer a turn works on is what the file has before the base stream, and starts where the caller is.
BufferFits ==
  /\ Buffer \in Seq(Bytes) /\ Len(Buffer) <= BufSize /\ Len(Buffer) <= BaseThen
  /\ BaseThen \in 0..Len(file) /\ IsPart(Buffer, file, BaseThen - Len(Buffer), BaseThen)
  /\ From \in 0..Len(Buffer) /\ BaseThen - Len(Buffer) + From = basePos - (Len(readbuf) - readPos)
  /\ Buffer # <<>> /\ Len(Buffer) < BufSize => BaseThen = Len(file)
  /\ Exhausted /\ Filled = <<>> => BaseThen = Len(file) /\ From = Len(Buffer)

LEMMA ReadbufPart ==
  ASSUME BufInv
  PROVE  IsPart(readbuf, file, basePos - Len(readbuf), basePos)
<1>1. readbuf = SubSeq(file, (basePos - Len(readbuf)) + 1, basePos)
  BY DEF BufInv, ReadOK, ReadbufIsFile
<1>2. basePos - Len(readbuf) \in Nat /\ basePos - Len(readbuf) <= basePos /\ basePos \in 0..Len(file)
  BY NumberTypes
<1>3. file \in Seq(Bytes)
  BY DEF BufInv, FileOK
<1>4. IsPart(SubSeq(file, (basePos - Len(readbuf)) + 1, basePos), file, basePos - Len(readbuf), basePos)
  BY <1>2, <1>3, PartOfSeq, Zenon
<1> QED
  BY <1>1, <1>4, Zenon

LEMMA FillsOrStays ==
  ASSUME BufInv
  PROVE  BufferFits
<1>1. /\ file \in Seq(Bytes) /\ readbuf \in Seq(Bytes) /\ Len(readbuf) <= BufSize
      /\ readbuf # <<>> /\ Len(readbuf) < BufSize => basePos = Len(file)
  BY DEF BufInv, FileOK, ReadOK
<1>2. BufSize \in Nat /\ BufSize > 0
  BY SizeTypes
<1>3. IsPart(readbuf, file, basePos - Len(readbuf), basePos)
  BY ReadbufPart
<1>4. CASE ~Exhausted
  <2>1. Buffer = readbuf /\ From = readPos /\ BaseThen = basePos
    BY <1>4 DEF Buffer, From, BaseThen
  <2>2. Len(Buffer) <= BaseThen /\ BaseThen \in 0..Len(file) /\ From \in 0..Len(Buffer)
        /\ BaseThen - Len(Buffer) + From = basePos - (Len(readbuf) - readPos)
    BY <2>1, NumberTypes
  <2> QED
    BY <1>1, <1>3, <1>4, <2>1, <2>2, Zenon DEF BufferFits
<1>5. CASE Exhausted
  <2>1. Len(readbuf) - readPos = 0
    BY <1>5, NumberTypes DEF Exhausted
  <2>2. FillEnd \in 0..Len(file) /\ basePos <= FillEnd /\ FillEnd - basePos <= BufSize
        /\ (FillEnd - basePos < BufSize => FillEnd = Len(file)) /\ FillEnd \in Nat
    BY <1>2, NumberTypes DEF FillEnd, Least
  <2>3. Filled \in Seq(Bytes) /\ IsPart(Filled, file, basePos, FillEnd)
    BY <1>1, <2>2, NumberTypes, PartOfSeq, Zenon DEF Filled
  <2>4. Len(Filled) = FillEnd - basePos
    BY <2>3, Zenon DEF IsPart
  <2>5. BaseThen = FillEnd
    BY <1>5, <2>2, <2>4, NumberTypes DEF BaseThen
  <2>6. Filled = <<>> => FillEnd = Len(file) /\ FillEnd = basePos
    <3>1. Filled = <<>> => Len(Filled) = 0
      BY EmptySeq
    <3> QED
      BY <1>2, <2>2, <2>4, <3>1, NumberTypes
  <2>7. CASE readbuf # <<>> /\ Len(readbuf) < BufSize
    <3>1. basePos = Len(file) /\ Len(Filled) = 0
      BY <1>1, <2>2, <2>4, <2>7, NumberTypes
    <3>2. Filled = <<>>
      BY <2>3, <3>1, EmptySeq
    <3>3. Kept = readbuf
      BY <1>2, <2>7, NumberTypes DEF Kept
    <3>4. Buffer = readbuf /\ From = Len(readbuf)
      BY <1>1, <1>5, <3>2, <3>3, ConcatEmptySeq DEF Buffer, From
    <3>5. BaseThen = basePos
      BY <2>5, <2>6, <3>2
    <3>6. Len(Buffer) <= BaseThen /\ BaseThen \in 0..Len(file) /\ From \in 0..Len(Buffer)
          /\ BaseThen - Len(Buffer) + From = basePos - (Len(readbuf) - readPos)
      BY <2>1, <3>4, <3>5, NumberTypes
    <3> QED
      BY <1>1, <1>3, <3>1, <3>4, <3>5, <3>6, Zenon DEF BufferFits
  <2>8. CASE ~(readbuf # <<>> /\ Len(readbuf) < BufSize)
    <3>1. Kept = <<>> /\ Len(Kept) = 0
      <4>1. readbuf = <<>> \/ Len(readbuf) = BufSize
        BY <1>1, <1>2, <2>8, NumberTypes
      <4>2. Len(<<>>) = 0
        BY EmptySeq
      <4> QED
        BY <4>1, <4>2, Zenon DEF Kept
    <3>2. Buffer = Filled /\ From = 0
      BY <1>5, <2>3, <3>1, ConcatEmptySeq DEF Buffer, From
    <3>3. BaseThen - Len(Buffer) = basePos /\ Len(Buffer) <= BaseThen /\ BaseThen \in 0..Len(file)
          /\ From \in 0..Len(Buffer) /\ Len(Buffer) <= BufSize
          /\ BaseThen - Len(Buffer) + From = basePos - (Len(readbuf) - readPos)
          /\ (Len(Buffer) < BufSize => BaseThen = Len(file))
      BY <2>1, <2>2, <2>4, <2>5, <3>2, NumberTypes
    <3>4. Filled = <<>> => From = Len(Buffer)
      BY <3>2, EmptySeq
    <3> QED
      BY <2>3, <2>5, <2>6, <3>2, <3>3, <3>4, Zenon DEF BufferFits
  <2> QED
    BY <2>7, <2>8
<1> QED
  BY <1>4, <1>5

LEMMA ReadLoopParts ==
  ASSUME ReadLoop
  PROVE  /\ call = "read" /\ readbuf' = Buffer /\ readPos' = From + Taken /\ basePos' = BaseThen
         /\ position' = IF Exhausted THEN position + Len(Filled) ELSE position
         /\ out' = out \o SubSeq(Buffer, From + 1, From + Taken) /\ left' = left - Taken
         /\ call' = IF left' = 0 \/ (Exhausted /\ Filled = <<>>) THEN "none" ELSE "read"
         /\ UNCHANGED <<file, writebuf, writePos, todo, ret>>
BY DEF ReadLoop, ReadDone, Buffer, From, Taken, Exhausted, Filled, FillEnd, Kept, BaseThen

\* A turn of the loop of a read hands out what the file has from where the caller is, and one that
\* ends the call short of what it was asked for has come to the end.
LEMMA ReadLoopStep ==
  ASSUME BufInv, ReadLoop
  PROVE  /\ BufInv' /\ Contents' = Contents
         /\ Taken \in Nat /\ At + Taken <= Len(Contents) /\ At' = At + Taken
         /\ out' = out \o SubSeq(Contents, At + 1, At + Taken)
         /\ call' = "none" /\ left' > 0 => At' = Len(Contents)
<1> DEFINE g == Buffer
           b == BaseThen
           m == Len(Buffer)
           r == From
           k == Taken
           c == left - Taken
           e == Exhausted /\ Filled = <<>>
<1>1. /\ call = "read" /\ readbuf' = g /\ readPos' = r + k /\ basePos' = b
      /\ out' = out \o SubSeq(g, r + 1, r + k) /\ left' = c
      /\ call' = IF left' = 0 \/ e THEN "none" ELSE "read"
      /\ UNCHANGED <<file, writebuf, writePos, todo, ret>>
  BY ReadLoopParts
<1>2. /\ file \in Seq(Bytes) /\ position = basePos /\ writebuf = <<>> /\ writePos = 0
      /\ left \in Nat /\ todo \in Seq(Bytes) /\ out \in Seq(Bytes) /\ Len(file) <= MaxLen
  <2>1. writebuf = <<>> /\ writePos \in 0..Len(writebuf) /\ Len(<<>>) = 0
    BY <1>1, EmptySeq DEF BufInv, CallOK, WriteOK
  <2>2. writePos = 0
    BY <2>1
  <2> QED
    BY <2>1, <2>2 DEF BufInv, FileOK, CallOK
<1>3. Contents = file
  BY <1>2, FlushedFile
<1>4. /\ g \in Seq(Bytes) /\ m <= BufSize /\ m <= b /\ b \in 0..Len(file)
      /\ IsPart(g, file, b - m, b) /\ r \in 0..m
      /\ b - m + r = basePos - (Len(readbuf) - readPos)
      /\ (g # <<>> /\ m < BufSize => b = Len(file))
      /\ (e => b = Len(file) /\ r = m)
  BY FillsOrStays, Zenon DEF BufferFits
<1>5. position' = b
  BY <1>2, ReadLoopParts DEF BaseThen
<1>6. m = Len(g)
  OBVIOUS
<1>7. k = Least(m - r, left) /\ (b - m + r) + writePos = At
  BY <1>2, <1>4, NumberTypes DEF Taken, At
<1>8. m \in Nat /\ b \in Nat /\ r \in Nat /\ Len(file) \in Nat /\ m \in 0..b /\ r <= m /\ b <= Len(file)
  <2>1. m \in Nat
    BY <1>4, <1>6, LenProperties
  <2> QED
    BY <1>4, <2>1, NumberTypes
<1> HIDE DEF g, b, m, r, k, c, e
<1>9. k \in 0..(m - r) /\ k \in Nat /\ k <= left /\ (k = left \/ k = m - r)
  BY <1>2, <1>7, <1>8 DEF Least
<1>10. c = left - k
  BY DEF c, k
<1>11. c \in Nat /\ (c > 0 => k = m - r)
  BY <1>2, <1>9, <1>10
<1>12. At = b - m + r
  BY <1>2, <1>7, <1>8
<1>13. FileOK'
  <2>1. file' = file /\ basePos' = b /\ position' = b
    BY <1>1, <1>5
  <2> QED
    BY <1>2, <1>4, <2>1 DEF FileOK
<1>14. g = SubSeq(file, b - m + 1, b)
  <2>1. b - m \in Nat /\ b - m <= b
    BY <1>8
  <2> QED
    BY <1>2, <1>4, <2>1, PartIsSubSeq, Zenon
<1>15. ReadOK'
  <2>1. r + k \in 0..m
    BY <1>8, <1>9
  <2>2. ReadbufIsFile'
    BY <1>1, <1>4, <1>6, <1>14, Zenon DEF ReadbufIsFile
  <2> QED
    BY <1>1, <1>4, <1>6, <2>1, <2>2, Zenon DEF ReadOK
<1>16. WriteOK'
  <2>1. Len(<<>>) = 0 /\ <<>> \in Seq(Bytes)
    BY EmptySeq
  <2>2. b + 0 <= MaxLen
    BY <1>2, <1>8, SizeTypes
  <2>3. 0 <= BufSize /\ 0 \in 0..0
    BY SizeTypes
  <2>4. writebuf' = <<>> /\ writePos' = 0 /\ basePos' = b
    BY <1>1, <1>2
  <2> QED
    BY <2>1, <2>2, <2>3, <2>4, Zenon DEF WriteOK
<1>17. OneBuffer'
  BY <1>1, <1>2 DEF OneBuffer
<1>18. SubSeq(g, r + 1, r + k) = SubSeq(file, (b - m + r) + 1, (b - m + r) + k)
  <2>1. r \in 0..m /\ b \in 0..Len(file) /\ m \in 0..b
    BY <1>4, <1>8
  <2>2. k \in 0..(m - r) /\ IsPart(g, file, b - m, b) /\ file \in Seq(Bytes) /\ g \in Seq(Bytes)
    BY <1>2, <1>4, <1>9
  <2> QED
    BY <2>1, <2>2, PartOfPart
<1>19. out' = out \o SubSeq(Contents, At + 1, At + k)
  BY <1>1, <1>3, <1>12, <1>18, Zenon
<1>20. CallOK'
  <2>1. out' \in Seq(Bytes)
    <3>1. r + k \in 0..Len(g) /\ r \in Nat /\ r <= r + k
      BY <1>6, <1>8, <1>9
    <3>2. SubSeq(g, r + 1, r + k) \in Seq(Bytes)
      BY <1>4, <3>1, PartOfSeq, Zenon
    <3> QED
      BY <1>1, <1>2, <3>2, ConcatProperties
  <2>2. call' \in {"none", "read", "write"} /\ call' # "write"
    BY <1>1
  <2> QED
    BY <1>1, <1>2, <1>11, <2>1, <2>2, Zenon DEF CallOK
<1>21. Contents' = Contents
  <2>1. writebuf' = <<>> /\ file' = file /\ basePos' \in 0..Len(file)
    BY <1>1, <1>2, <1>4
  <2> QED
    BY <1>2, <1>3, <2>1, OverlayNothing, Zenon DEF Contents
<1>22. At' = At + k
  <2>1. At' = b - (m - (r + k)) + 0
    BY <1>1, <1>2, <1>6, Zenon DEF At
  <2> QED
    BY <1>8, <1>9, <1>12, <2>1
<1>23. At + k <= Len(Contents)
  BY <1>3, <1>8, <1>9, <1>12
<1>24. ASSUME call' = "none", left' > 0 PROVE At' = Len(Contents)
  <2>1. c > 0 /\ c # 0
    BY <1>1, <1>11, <1>24
  <2>2. e
    BY <1>1, <1>24, <2>1
  <2>3. b = Len(file) /\ r = m
    BY <1>4, <2>2
  <2> QED
    BY <1>3, <1>8, <1>9, <1>12, <1>22, <2>3
<1> QED
  BY <1>9, <1>13, <1>15, <1>16, <1>17, <1>19, <1>20, <1>21, <1>22, <1>23, <1>24, Zenon DEF BufInv, k

-----------------------------------------------------------------------------
(* Writes *)

LEMMA WriteCallStep ==
  ASSUME BufInv, NEW n \in 1..MaxIO, NEW d \in [1..n -> Bytes], WriteCall(d)
  PROVE  BufInv' /\ Contents' = Contents /\ At' = At
<1>1. call = "none" /\ call' = "write" /\ todo' = d /\ At + Len(d) <= MaxLen
      /\ UNCHANGED <<file, writebuf, writePos, left, out, ret>>
  BY DEF WriteCall
<1>2. d \in Seq(Bytes) /\ Len(d) = n /\ d # <<>>
  <2>1. n \in Nat /\ n > 0
    BY SizeTypes
  <2>2. d \in Seq(Bytes)
    BY <2>1, SeqDef
  <2>3. DOMAIN d = 1..n /\ DOMAIN d = 1..Len(d) /\ Len(d) \in Nat
    BY <2>2, LenProperties
  <2>4. Len(d) = n
    BY <2>1, <2>3
  <2> QED
    BY <2>1, <2>2, <2>4, EmptySeq
<1>3. ASSUME NEW b \in Nat, NEW w \in Nat, basePos' = b, writePos' = w, readbuf' = <<>>, b + w = At
      PROVE  CallOK'
  <2>1. b + w + Len(d) <= MaxLen
    BY <1>1, <1>3
  <2>2. left \in Nat /\ out \in Seq(Bytes)
    BY DEF BufInv, CallOK
  <2> QED
    BY <1>1, <1>2, <1>3, <2>1, <2>2, Zenon DEF CallOK
<1>4. CASE readbuf # <<>>
  <2> DEFINE b == WriteFrom
  <2>1. position' = b /\ basePos' = b /\ NoReadbuf
    BY <1>4 DEF WriteCall
  <2>2. writebuf = <<>> /\ writePos = 0
    <3>1. writebuf = <<>> /\ writePos \in 0..Len(writebuf) /\ Len(<<>>) = 0
      BY <1>4, EmptySeq DEF BufInv, OneBuffer, WriteOK
    <3> QED
      BY <3>1
  <2>3. file \in Seq(Bytes) /\ Len(file) <= MaxLen /\ position = basePos
    BY DEF BufInv, FileOK
  <2>4. b \in 0..Len(file) /\ b = At /\ b \in Nat
    BY <2>2, <2>3, NumberTypes DEF WriteFrom, At
  <2> HIDE DEF b
  <2>5. NoWritebuf
    BY <1>1, <2>2 DEF NoWritebuf
  <2>6. FileOK' /\ ReadOK' /\ WriteOK' /\ OneBuffer' /\ Contents' = file /\ At' = b
    BY <1>1, <2>1, <2>3, <2>4, <2>5, EmptyBuffers, Zenon
  <2>7. Contents = file
    BY <2>2, FlushedFile
  <2>8. CallOK'
    <3>1. writePos' = 0 /\ readbuf' = <<>> /\ b + 0 = At /\ 0 \in Nat
      BY <2>1, <2>4, <2>5 DEF NoReadbuf, NoWritebuf
    <3> QED
      BY <1>3, <2>1, <2>4, <3>1
  <2> QED
    BY <2>4, <2>6, <2>7, <2>8, Zenon DEF BufInv
<1>5. CASE readbuf = <<>>
  <2>1. UNCHANGED <<position, basePos, readbuf, readPos>>
    BY <1>5 DEF WriteCall
  <2>2. FileOK' /\ ReadOK' /\ WriteOK' /\ OneBuffer'
    BY <1>1, <2>1 DEF BufInv, FileOK, ReadOK, ReadbufIsFile, WriteOK, OneBuffer
  <2>3. Contents' = Contents /\ At' = At
    BY <1>1, <2>1 DEF Contents, At
  <2>4. basePos + writePos = At
    <3>1. readPos \in 0..Len(readbuf) /\ Len(<<>>) = 0
      BY EmptySeq DEF BufInv, ReadOK
    <3>2. Len(readbuf) = 0 /\ readPos = 0
      BY <1>5, <3>1
    <3> QED
      BY <3>2, NumberTypes DEF At
  <2>5. CallOK'
    BY <1>1, <1>3, <1>5, <2>1, <2>4, NumberTypes
  <2> QED
    BY <2>2, <2>3, <2>5 DEF BufInv
<1> QED
  BY <1>4, <1>5

\* A write under way: the read buffer is empty, and there is something left to write.
LEMMA Writing ==
  ASSUME BufInv, call = "write"
  PROVE  /\ readbuf = <<>> /\ readPos = 0 /\ At = basePos + writePos
         /\ todo \in Seq(Bytes) /\ Len(todo) > 0 /\ basePos + writePos + Len(todo) <= MaxLen
<1>1. readbuf = <<>> /\ readPos \in 0..Len(readbuf) /\ Len(<<>>) = 0
  BY EmptySeq DEF BufInv, CallOK, ReadOK
<1>2. readPos = 0 /\ Len(readbuf) = 0
  BY <1>1
<1>3. todo \in Seq(Bytes) /\ todo # <<>> /\ basePos + writePos + Len(todo) <= MaxLen
  BY DEF BufInv, CallOK
<1>4. Len(todo) # 0
  BY <1>3, EmptySeq
<1> QED
  BY <1>1, <1>2, <1>3, <1>4, NumberTypes DEF At

\* What a turn of the loop of a write copies.
Copied == Least(BufSize - Least(Len(writebuf), writePos), Len(todo))

LEMMA WriteLoopFlushes ==
  ASSUME BufInv, WriteLoop, Copied = 0
  PROVE  BufInv' /\ Contents' = Contents /\ At' = At
<1> DEFINE b == basePos + Len(writebuf)
<1>1. /\ call = "write" /\ file' = Flushed /\ basePos' = FlushedPos
      /\ position' = position + Len(writebuf) /\ NoWritebuf
      /\ UNCHANGED <<todo, call, readbuf, readPos, left, out>>
  BY DEF WriteLoop, Copied
<1>2. /\ readbuf = <<>> /\ readPos = 0 /\ At = basePos + writePos
      /\ todo \in Seq(Bytes) /\ Len(todo) > 0 /\ basePos + writePos + Len(todo) <= MaxLen
  BY <1>1, Writing
<1>3. position = basePos /\ Len(writebuf) <= BufSize
  BY DEF BufInv, FileOK, WriteOK
<1>4. writePos = Len(writebuf)
  BY <1>2, <1>3, NumberTypes, SizeTypes DEF Copied, Least
<1>5. b = At /\ b \in 0..Len(Flushed) /\ b + 0 + Len(todo) <= MaxLen
  <2>1. Len(Flushed) = Longer(Len(file), basePos + Len(writebuf))
    BY FlushedFile
  <2> QED
    BY <1>2, <1>4, <2>1, NumberTypes DEF Longer
<1>6. basePos' = b /\ position' = b
  BY <1>1, <1>3 DEF FlushedPos
<1>7. NoReadbuf
  BY <1>1, <1>2 DEF NoReadbuf
<1> HIDE DEF b
<1>8. FileOK' /\ ReadOK' /\ WriteOK' /\ OneBuffer' /\ Contents' = Contents /\ At' = b
  BY <1>1, <1>5, <1>6, <1>7, FlushedAt, Zenon
<1>9. CallOK'
  <2>1. left \in Nat /\ out \in Seq(Bytes) /\ todo # <<>>
    BY <1>1 DEF BufInv, CallOK
  <2>2. readbuf' = <<>> /\ writePos' = 0
    BY <1>1, <1>2 DEF NoWritebuf
  <2> QED
    BY <1>1, <1>2, <1>5, <1>6, <2>1, <2>2, Zenon DEF CallOK
<1> QED
  BY <1>5, <1>8, <1>9, Zenon DEF BufInv

LEMMA WriteLoopCopies ==
  ASSUME BufInv, WriteLoop, Copied # 0
  PROVE  /\ BufInv' /\ Copied \in 1..BufSize /\ Copied <= Len(todo)
         /\ SubSeq(todo, 1, Copied) \in [1..Copied -> Bytes]
         /\ Contents' = Overlay(Contents, At, SubSeq(todo, 1, Copied)) /\ At' = At + Copied
<1> DEFINE k == Copied
           d == SubSeq(todo, 1, k)
           v == Overlay(writebuf, writePos, d)
           t == SubSeq(todo, k + 1, Len(todo))
<1>1. /\ call = "write" /\ writebuf' = v /\ writePos' = writePos + k /\ todo' = t
      /\ call' = (IF todo' = <<>> THEN "none" ELSE "write")
      /\ UNCHANGED <<file, basePos, position, readbuf, readPos, left, out>>
  BY DEF WriteLoop, Copied
<1>2. /\ readbuf = <<>> /\ readPos = 0 /\ At = basePos + writePos
      /\ todo \in Seq(Bytes) /\ Len(todo) > 0 /\ basePos + writePos + Len(todo) <= MaxLen
  BY <1>1, Writing
<1>3. Len(writebuf) <= BufSize /\ basePos + Len(writebuf) <= MaxLen /\ writebuf \in Seq(Bytes)
      /\ writePos \in 0..Len(writebuf) /\ file \in Seq(Bytes) /\ basePos \in 0..Len(file)
  BY DEF BufInv, FileOK, WriteOK
<1>4. k \in 1..BufSize /\ k <= Len(todo) /\ writePos + k <= BufSize /\ k \in Nat /\ k \in 0..Len(todo)
  BY <1>2, <1>3, NumberTypes, SizeTypes DEF Copied, Least
<1>5. d \in Seq(Bytes) /\ Len(d) = k
  <2>1. 0 \in Nat /\ 0 <= k /\ 0 + 1 = 1 /\ k - 0 = k
    BY <1>4
  <2>2. SubSeq(todo, 0 + 1, k) \in Seq(Bytes) /\ IsPart(SubSeq(todo, 0 + 1, k), todo, 0, k)
    BY <1>2, <1>4, <2>1, PartOfSeq, Zenon
  <2> QED
    BY <2>1, <2>2 DEF IsPart
<1>6. t \in Seq(Bytes) /\ Len(t) = Len(todo) - k
  <2>1. Len(todo) \in 0..Len(todo) /\ k <= Len(todo)
    BY <1>4, NumberTypes
  <2> QED
    BY <1>2, <1>4, <2>1, PartOfSeq, Zenon DEF IsPart
<1>7. d \in [1..k -> Bytes]
  <2>1. DOMAIN d = 1..Len(d) /\ d \in [1..Len(d) -> Bytes]
    BY <1>5, LenProperties
  <2> QED
    BY <1>5, <2>1
<1> HIDE DEF k, d, v, t
<1>8. v \in Seq(Bytes) /\ Len(v) = Longer(Len(writebuf), writePos + k)
  <2>1. v \in Seq(Bytes) /\ Written(v, writebuf, writePos, d)
    BY <1>3, <1>5, OverlayProperties, Zenon DEF v
  <2>2. Len(v) = Longer(Len(writebuf), writePos + Len(d))
    BY <2>1, Zenon DEF Written
  <2> QED
    BY <1>5, <2>1, <2>2
<1>9. /\ Len(v) <= BufSize /\ writePos + k \in 0..Len(v) /\ basePos + Len(v) <= MaxLen
      /\ basePos + (writePos + k) + Len(t) <= MaxLen
  <2>1. Len(v) = Len(writebuf) \/ Len(v) = writePos + k
    BY <1>8 DEF Longer
  <2>2. Len(v) >= writePos + k /\ Len(v) \in Nat
    BY <1>4, <1>8, NumberTypes DEF Longer
  <2>3. basePos + writePos + Len(todo) <= MaxLen
    BY <1>2
  <2>4. /\ basePos \in Nat /\ writePos \in Nat /\ Len(todo) \in Nat /\ Len(writebuf) \in Nat
        /\ MaxLen \in Nat /\ BufSize \in Nat /\ k \in Nat
    BY <1>4, NumberTypes, SizeTypes
  <2>5. k <= Len(todo) /\ writePos + k <= BufSize /\ Len(writebuf) <= BufSize
        /\ basePos + Len(writebuf) <= MaxLen
    BY <1>3, <1>4
  <2>6. basePos + writePos + k <= MaxLen /\ basePos + (writePos + k) + Len(t) = basePos + writePos + Len(todo)
    BY <1>6, <2>3, <2>4, <2>5
  <2> QED
    BY <2>1, <2>2, <2>3, <2>4, <2>5, <2>6
<1>10. FileOK' /\ ReadOK' /\ OneBuffer'
  BY <1>1, <1>2 DEF BufInv, FileOK, ReadOK, ReadbufIsFile, OneBuffer
<1>11. WriteOK'
  BY <1>1, <1>8, <1>9, Zenon DEF WriteOK
<1>12. CallOK'
  <2>1. left \in Nat /\ out \in Seq(Bytes)
    BY DEF BufInv, CallOK
  <2>2. call' \in {"none", "read", "write"} /\ call' # "read" /\ (call' = "write" => t # <<>>)
    BY <1>1
  <2> QED
    BY <1>1, <1>2, <1>6, <1>9, <2>1, <2>2, Zenon DEF CallOK
<1>13. Contents' = Overlay(Contents, At, d)
  <2>1. Contents' = Overlay(file, basePos, Overlay(writebuf, writePos, d))
    BY <1>1 DEF Contents, v
  <2>2. @ = Overlay(Overlay(file, basePos, writebuf), basePos + writePos, d)
    BY <1>3, <1>5, OverlayOverlay
  <2> QED
    BY <1>2, <2>1, <2>2, Zenon DEF Contents
<1>14. At' = At + k
  <2>1. At' = basePos - (Len(readbuf) - readPos) + (writePos + k)
    BY <1>1, Zenon DEF At
  <2> QED
    BY <1>4, <2>1, NumberTypes DEF At
<1> QED
  BY <1>4, <1>7, <1>10, <1>11, <1>12, <1>13, <1>14, Zenon DEF BufInv, k, d

-----------------------------------------------------------------------------
(* The theorems *)

LEMMA NextBuffers == BufInv /\ Habits = {} /\ [Next]_vars => BufInv'
<1> SUFFICES ASSUME BufInv, Habits = {}, [Next]_vars PROVE BufInv'
  OBVIOUS
<1>1. ASSUME NEW n \in 1..MaxIO, ReadCall(n) PROVE BufInv'
  BY <1>1, ReadCallStep
<1>2. CASE ReadLoop
  BY <1>2, ReadLoopStep
<1>3. ASSUME NEW n \in 1..MaxIO, NEW d \in [1..n -> Bytes], WriteCall(d) PROVE BufInv'
  BY <1>3, WriteCallStep
<1>4. CASE WriteLoop
  BY <1>4, WriteLoopFlushes, WriteLoopCopies, Zenon
<1>5. CASE Tell
  BY <1>5, TellStep
<1>6. ASSUME NEW p \in 0..Len(Contents), SeekSet(p) PROVE BufInv'
  BY <1>6, SeekSetStep
<1>7. ASSUME NEW k \in 0..(Len(Contents) - At), SeekCur(k) PROVE BufInv'
  BY <1>7, SeekCurStep
<1>8. CASE SeekEnd
  BY <1>8, SeekEndStep
<1>9. CASE Close
  BY <1>9, CloseStep
<1>10. CASE UNCHANGED vars
  BY <1>10 DEF vars, bufVars, callVars, BufInv, FileOK, ReadOK, ReadbufIsFile, WriteOK, OneBuffer, CallOK
<1> QED
  BY <1>1, <1>2, <1>3, <1>4, <1>5, <1>6, <1>7, <1>8, <1>9, <1>10, Zenon DEF Next

LEMMA BufferInvariant ==
  ASSUME Habits = {}
  PROVE  Spec => []BufInv
<1>1. Init => BufInv
  BY InitBuffers
<1>2. BufInv /\ [Next]_vars => BufInv'
  BY NextBuffers
<1> QED
  BY <1>1, <1>2, PTL DEF Spec

\* Between any two calls and within them, the two buffers are never in use together, hold no more
\* than they may, the read buffer is what the file has, and position is where the base stream is
\* (mz_stream_buffered_read, _write, _seek): for every file, every size of the buffers and of the
\* calls, as long as none of the seeks that Habits names is made.
THEOREM BuffersAlwaysOK ==
  ASSUME Habits = {}
  PROVE  Spec => []BuffersOK
<1>1. BufInv => BuffersOK
  BY BufInvBuffersOK
<1> QED
  BY <1>1, BufferInvariant, PTL

\* What is read of the file is what it holds from where the caller is, and every call but a read or a
\* write leaves the contents alone.
LEMMA StepIsOfFile ==
  ASSUME BufInv, Habits = {}, [Next]_vars
  PROVE  [Unbuffered!Next]_(Unbuffered!vars)
<1>1. ASSUME NEW n \in 1..MaxIO, ReadCall(n) PROVE Unbuffered!Next
  <2>1. call = "none" /\ call' = "read" /\ out' = <<>>
    BY <1>1 DEF ReadCall
  <2> QED
    BY <1>1, <2>1, ReadCallStep DEF Unbuffered!Next, Unbuffered!BeginRead
<1>2. CASE ReadLoop
  <2>1. call = "read" /\ call' \in {"read", "none"}
    BY <1>2, ReadLoopParts
  <2>2. Contents' = Contents /\ Taken \in Nat /\ At + Taken <= Len(Contents) /\ At' = At + Taken
        /\ out' = out \o SubSeq(Contents, At + 1, At + Taken)
    BY <1>2, ReadLoopStep
  <2>3. Taken \in 0..Len(Contents)
    BY <2>2, AtInside
  <2>4. Unbuffered!Get(Taken)
    BY <2>1, <2>2, Zenon DEF Unbuffered!Get
  <2> QED
    BY <2>3, <2>4, Zenon DEF Unbuffered!Next
<1>3. ASSUME NEW n \in 1..MaxIO, NEW d \in [1..n -> Bytes], WriteCall(d) PROVE Unbuffered!Next
  <2>1. call = "none" /\ call' = "write" /\ out' = out
    BY <1>3 DEF WriteCall
  <2>2. Contents' = Contents /\ At' = At
    BY <1>3, WriteCallStep
  <2> QED
    BY <2>1, <2>2 DEF Unbuffered!Next, Unbuffered!BeginWrite
<1>4. CASE WriteLoop /\ Copied = 0
  <2>1. call' = call /\ out' = out
    BY <1>4 DEF WriteLoop, Copied
  <2>2. Contents' = Contents /\ At' = At
    BY <1>4, WriteLoopFlushes
  <2> QED
    BY <2>1, <2>2 DEF Unbuffered!vars
<1>5. CASE WriteLoop /\ Copied # 0
  <2> DEFINE d == SubSeq(todo, 1, Copied)
  <2>1. call = "write" /\ call' \in {"write", "none"} /\ out' = out
    BY <1>5 DEF WriteLoop, Copied
  <2>2. /\ Copied \in 1..BufSize /\ d \in [1..Copied -> Bytes]
        /\ Contents' = Overlay(Contents, At, d) /\ At' = At + Copied
    BY <1>5, WriteLoopCopies
  <2> HIDE DEF d
  <2>3. Len(d) = Copied
    <3>1. Copied \in Nat
      BY <2>2, SizeTypes
    <3>2. d \in Seq(Bytes)
      BY <2>2, <3>1, SeqDef
    <3>3. DOMAIN d = 1..Copied /\ DOMAIN d = 1..Len(d) /\ Len(d) \in Nat
      BY <2>2, <3>2, LenProperties
    <3> QED
      BY <3>1, <3>3
  <2>4. Unbuffered!Put(d)
    <3>1. Unbuffered!Overlay(Contents, At, d) = Overlay(Contents, At, d)
      BY DEF Overlay, Unbuffered!Overlay
    <3> QED
      BY <2>1, <2>2, <2>3, <3>1, Zenon DEF Unbuffered!Put
  <2> QED
    BY <2>2, <2>4, Zenon DEF Unbuffered!Next
<1>6. CASE Tell
  <2>1. call' = call /\ out' = out
    BY <1>6 DEF Tell, callVars
  <2> QED
    BY <1>6, <2>1, TellStep DEF Unbuffered!vars
<1>7. ASSUME NEW p \in 0..Len(Contents), call = "none", UNCHANGED callVars, Contents' = Contents, At' = p
      PROVE  Unbuffered!Next
  <2>1. Unbuffered!Seek(p)
    BY <1>7 DEF Unbuffered!Seek, callVars
  <2> QED
    BY <2>1, Zenon DEF Unbuffered!Next
<1>8. ASSUME NEW p \in 0..Len(Contents), SeekSet(p) PROVE Unbuffered!Next
  <2>1. call = "none" /\ UNCHANGED callVars
    BY <1>8 DEF SeekSet
  <2> QED
    BY <1>7, <1>8, <2>1, SeekSetStep
<1>9. ASSUME NEW k \in 0..(Len(Contents) - At), SeekCur(k) PROVE Unbuffered!Next
  <2>1. call = "none" /\ UNCHANGED callVars
    BY <1>9 DEF SeekCur
  <2>2. At + k \in 0..Len(Contents)
    BY AtInside
  <2>3. Contents' = Contents /\ At' = At + k
    BY <1>9, SeekCurStep
  <2> QED
    BY <1>7, <2>1, <2>2, <2>3, Zenon
<1>10. CASE SeekEnd
  <2>1. call = "none" /\ UNCHANGED callVars
    BY <1>10 DEF SeekEnd
  <2>2. Len(Contents) \in 0..Len(Contents)
    BY AtInside
  <2>3. Contents' = Contents /\ At' = Len(Contents)
    BY <1>10, SeekEndStep
  <2> QED
    BY <1>7, <2>1, <2>2, <2>3, Zenon
<1>11. CASE Close
  <2>1. call = "none" /\ UNCHANGED callVars
    BY <1>11 DEF Close
  <2>2. 0 \in 0..Len(Contents)
    BY AtInside
  <2>3. Contents' = Contents /\ At' = 0
    BY <1>11, CloseStep
  <2> QED
    BY <1>7, <2>1, <2>2, <2>3, Zenon
<1>12. CASE UNCHANGED vars
  BY <1>12 DEF vars, bufVars, callVars, Contents, At, Unbuffered!vars
<1> QED
  BY <1>1, <1>2, <1>3, <1>4, <1>5, <1>6, <1>8, <1>9, <1>10, <1>11, <1>12, Zenon DEF Next

\* The buffers do not show: reads hand out, and writes and closes leave, what they would on the file
\* itself, one after the other in any order (mz_strm_buf.c implements the stream of mz_strm.h that
\* its base is).
THEOREM BufferedIsFile ==
  ASSUME Habits = {}
  PROVE  Spec => ImplementsFile
<1>1. Init => Unbuffered!Init
  <2>1. Init => call = "none" /\ out = <<>>
    BY DEF Init
  <2> QED
    BY <2>1, InitBuffers DEF Unbuffered!Init
<1>2. BufInv /\ [Next]_vars => [Unbuffered!Next]_(Unbuffered!vars)
  BY StepIsOfFile
<1> QED
  BY <1>1, <1>2, BufferInvariant, PTL DEF Spec, ImplementsFile, Unbuffered!Spec

\* A seek lands where it was told to, or at the end, whichever buffer is in use and however far into
\* it; a tell answers where the caller is and does not move him; and a read that hands out less than
\* it was asked for is at the end of the file.
THEOREM SeeksAndTellsAlways ==
  ASSUME Habits = {}
  PROVE  Spec => SeeksAndTells
<1> DEFINE Right ==
      /\ \A p \in 0..Len(Contents) : SeekSet(p) => At' = p
      /\ \A k \in 0..(Len(Contents) - At) : SeekCur(k) => At' = At + k
      /\ SeekEnd => At' = Len(Contents) /\ ret' = At'
      /\ Tell => ret' = At /\ At' = At
      /\ ReadLoop /\ call' = "none" /\ left' > 0 => At' = Len(Contents)
<1>1. BufInv => Right
  <2> SUFFICES ASSUME BufInv PROVE Right
    OBVIOUS
  <2>1. ASSUME NEW p \in 0..Len(Contents), SeekSet(p) PROVE At' = p
    BY <2>1, SeekSetStep
  <2>2. ASSUME NEW k \in 0..(Len(Contents) - At), SeekCur(k) PROVE At' = At + k
    BY <2>2, SeekCurStep
  <2>3. SeekEnd => At' = Len(Contents) /\ ret' = At'
    BY SeekEndStep
  <2>4. Tell => ret' = At /\ At' = At
    BY TellStep
  <2>5. ReadLoop /\ call' = "none" /\ left' > 0 => At' = Len(Contents)
    BY ReadLoopStep
  <2> QED
    BY <2>1, <2>2, <2>3, <2>4, <2>5
<1>2. BufInv /\ [Next]_vars => [Right]_vars
  BY <1>1
<1> QED
  BY <1>2, BufferInvariant, PTL DEF Spec, SeeksAndTells

=============================================================================
