--------------------------- MODULE StreamFind_proofs ---------------------------
(***************************************************************************)
(* Theorems about MemStream and StreamFind, for every pattern of at most   *)
(* half a window and every bound.                                          *)
(***************************************************************************)
EXTENDS StreamFind, Overlays_proofs

-----------------------------------------------------------------------------
(* The memory stream *)

Cells == Bytes \cup {Junk}

MemTypes ==
  /\ buffer \in Seq(Cells) /\ limit \in Nat /\ position \in Nat /\ grow \in Nat
  /\ limit <= Len(buffer) /\ position <= limit

\* What a copy has moved is the beginning of what it was asked to move.
Moved == request.len - wanted
CopyInv ==
  /\ source \in Seq(Bytes) /\ wanted \in 0..MaxIO
  /\ wanted > 0 =>
       /\ request.from \in Nat /\ request.source \in Seq(Bytes) /\ request.len \in Nat
       /\ Moved \in 0..Len(request.source) /\ position = request.from + Moved
       /\ IsPart(source, request.source, Moved, Len(request.source))
       /\ \A i \in 1..Moved : buffer[request.from + i] = request.source[i]

MemInv == MemTypes /\ CopyInv

LEMMA MemBounds ==
  /\ MaxLen \in Nat /\ MaxIO \in Nat /\ MaxIO > 0 /\ CopySize \in Nat /\ CopySize > 0
  /\ \A g \in GrowSizes : g \in Nat /\ g > 0
BY MemAssumption

\* The sequences of up to n bytes.
LEMMA StringsAreSeqs ==
  ASSUME NEW n \in Nat, NEW s \in Strings(n)
  PROVE  s \in Seq(Bytes) /\ Len(s) \in Nat /\ Len(s) <= n
<1>1. PICK k \in 0..n : s \in [1..k -> Bytes]
  BY DEF Strings
<1>2. s \in Seq(Bytes)
  BY <1>1, SeqDef
<1>3. DOMAIN s = 1..k /\ DOMAIN s = 1..Len(s) /\ Len(s) \in Nat
  BY <1>1, <1>2, LenProperties
<1> QED
  BY <1>2, <1>3

\* Bytes are cells.
LEMMA BytesAreCells ==
  ASSUME NEW s \in Seq(Bytes)
  PROVE  s \in Seq(Cells) /\ Len(s) \in Nat
<1>1. Len(s) \in Nat /\ s \in [1..Len(s) -> Bytes]
  BY LenProperties
<1>2. s \in [1..Len(s) -> Cells]
  BY <1>1 DEF Cells
<1>3. s \in Seq(Cells)
  BY <1>1, <1>2, SeqDef
<1> QED
  BY <1>1, <1>3

LEMMA ContentsOfBuffer ==
  ASSUME MemTypes
  PROVE  /\ Contents \in Seq(Cells) /\ Len(Contents) = limit
         /\ \A i \in 1..limit : Contents[i] = buffer[i]
<1>1. buffer \in Seq(Cells) /\ limit \in 0..Len(buffer) /\ 0 \in Nat /\ 0 <= limit /\ 0 + 1 = 1
  BY LenProperties DEF MemTypes
<1>2. Contents \in Seq(Cells) /\ IsPart(Contents, buffer, 0, limit)
  BY <1>1, PartOfSeq, Zenon DEF Contents
<1> QED
  BY <1>1, <1>2 DEF IsPart

-----------------------------------------------------------------------------
(* Writes *)

\* A buffer that grows keeps what it has.
LEMMA SizedKeeps ==
  ASSUME buffer \in Seq(Cells), NEW n \in Nat, n >= Len(buffer)
  PROVE  /\ Sized(n) \in Seq(Cells) /\ Len(Sized(n)) = n
         /\ \A i \in 1..Len(buffer) : Sized(n)[i] = buffer[i]
<1>1. Len(buffer) \in Nat
  BY LenProperties
<1>2. ASSUME NEW i \in 1..n PROVE (IF i <= Len(buffer) THEN buffer[i] ELSE Junk) \in Cells
  <2>1. i <= Len(buffer) => i \in 1..Len(buffer)
    BY <1>1
  <2>2. i <= Len(buffer) => buffer[i] \in Cells
    BY <2>1, ElementOfSeq
  <2> QED
    BY <2>2 DEF Cells
<1>3. Sized(n) \in [1..n -> Cells]
  BY <1>2 DEF Sized
<1>4. Sized(n) \in Seq(Cells)
  BY <1>3, SeqDef
<1>5. Len(Sized(n)) = n
  <2>1. DOMAIN Sized(n) = 1..n /\ DOMAIN Sized(n) = 1..Len(Sized(n)) /\ Len(Sized(n)) \in Nat
    BY <1>3, <1>4, LenProperties
  <2> QED
    BY <2>1
<1>6. \A i \in 1..Len(buffer) : i \in 1..n /\ i <= Len(buffer)
  BY <1>1
<1>7. \A i \in 1..Len(buffer) : Sized(n)[i] = buffer[i]
  BY <1>6 DEF Sized
<1> QED
  BY <1>4, <1>5, <1>7

\* The buffer a write goes to, and how much it takes.
LEMMA RoomKeeps ==
  ASSUME MemTypes, NEW d \in Seq(Bytes)
  PROVE  /\ Room(d) \in Seq(Cells) /\ Len(Room(d)) \in Nat /\ Len(buffer) <= Len(Room(d))
         /\ \A i \in 1..Len(buffer) : Room(d)[i] = buffer[i]
         /\ Takes(d) \in 0..Len(d) /\ position + Takes(d) <= Len(Room(d))
         /\ Takes(d) < Len(d) => grow = 0 /\ Len(buffer) < position + Len(d)
<1>1. /\ buffer \in Seq(Cells) /\ Len(buffer) \in Nat /\ Len(d) \in Nat /\ grow \in Nat
      /\ position \in Nat /\ position <= Len(buffer)
  <2>1. buffer \in Seq(Cells) /\ Len(buffer) \in Nat /\ Len(d) \in Nat
    BY LenProperties DEF MemTypes
  <2> QED
    BY <2>1 DEF MemTypes
<1> DEFINE roomy == Len(d) <= Len(buffer) - position \/ grow = 0
           g == Grown(Len(d))
<1>2. g \in Nat /\ g >= Len(buffer) /\ g >= Len(buffer) + Len(d)
  BY <1>1 DEF Grown
<1>3. CASE roomy
  <2>1. Room(d) = buffer
    BY <1>3 DEF Room
  <2>2. Takes(d) = Least(Len(d), Len(buffer) - position)
    BY <2>1 DEF Takes
  <2>3. Takes(d) \in 0..Len(d) /\ position + Takes(d) <= Len(buffer)
        /\ (Takes(d) < Len(d) => grow = 0 /\ Len(buffer) < position + Len(d))
    BY <1>1, <1>3, <2>2 DEF Least
  <2> QED
    BY <1>1, <2>1, <2>3
<1>4. CASE ~roomy
  <2>1. Room(d) = Sized(g)
    BY <1>4 DEF Room
  <2> HIDE DEF g
  <2>2. Room(d) \in Seq(Cells) /\ Len(Room(d)) = g /\ \A i \in 1..Len(buffer) : Room(d)[i] = buffer[i]
    BY <1>1, <1>2, <2>1, SizedKeeps
  <2>3. Takes(d) = Least(Len(d), g - position)
    BY <2>2 DEF Takes
  <2>4. Takes(d) = Len(d)
    BY <1>1, <1>2, <2>3 DEF Least
  <2> QED
    BY <1>1, <1>2, <2>2, <2>4
<1> QED
  BY <1>3, <1>4

\* What a write leaves: d, as far as it was taken, behind what there was.
WroteWell(d) ==
  LET k == Takes(d) IN
  /\ buffer' \in Seq(Cells) /\ Len(buffer') \in Nat /\ Len(buffer) <= Len(buffer')
  /\ position' = position + k /\ position' \in Nat
  /\ limit' = Longer(limit, position + k) /\ limit' \in Nat
  /\ limit' <= Len(buffer') /\ position' <= limit' /\ grow' = grow
  /\ \A i \in 1..Len(buffer) : i \notin (position + 1)..(position + k) => buffer'[i] = buffer[i]
  /\ \A i \in 1..k : buffer'[position + i] = d[i]

LEMMA WriteLeaves ==
  ASSUME MemTypes, NEW d \in Seq(Bytes), Wrote(d)
  PROVE  WroteWell(d)
<1> DEFINE k == Takes(d)
           r == Room(d)
           p == position
           t == SubSeq(d, 1, k)
           o == Overlay(r, p, t)
<1>1. /\ r \in Seq(Cells) /\ Len(r) \in Nat /\ Len(buffer) <= Len(r)
      /\ \A i \in 1..Len(buffer) : r[i] = buffer[i]
      /\ k \in 0..Len(d) /\ p + k <= Len(r)
  BY RoomKeeps
<1>2. buffer' = o /\ position' = p + k /\ limit' = LimitAfter(p + k) /\ grow' = grow
  BY DEF Wrote
<1>3. /\ Len(buffer) \in Nat /\ Len(d) \in Nat /\ limit \in Nat /\ p \in Nat
      /\ p <= limit /\ limit <= Len(buffer) /\ k \in Nat
  <2>1. Len(buffer) \in Nat /\ Len(d) \in Nat
    BY LenProperties DEF MemTypes
  <2> QED
    BY <1>1, <2>1 DEF MemTypes
<1>4. t \in Seq(Bytes) /\ IsPart(t, d, 0, k)
  <2>1. 0 \in Nat /\ 0 <= k /\ 0 + 1 = 1
    BY <1>3
  <2> QED
    BY <1>1, <2>1, PartOfSeq, Zenon
<1>5. t \in Seq(Cells) /\ Len(t) = k /\ \A i \in 1..k : t[i] = d[i]
  <2>1. k - 0 = k /\ \A i \in 1..k : 0 + i = i
    BY <1>3
  <2>2. Len(t) = k /\ \A i \in 1..k : t[i] = d[i]
    BY <1>4, <2>1 DEF IsPart
  <2> QED
    BY <1>4, <2>2, BytesAreCells
<1>6. p \in 0..Len(r)
  BY <1>1, <1>3
<1> HIDE DEF k, r, p, t, o
<1>7. o \in Seq(Cells) /\ Written(o, r, p, t)
  BY <1>1, <1>5, <1>6, OverlayProperties, Zenon DEF o
<1>8. Longer(Len(r), p + k) = Len(r)
  BY <1>1, <1>3 DEF Longer
<1>9. Len(o) = Len(r) /\ \A i \in 1..Len(r) : o[i] = IF i \in (p + 1)..(p + k) THEN t[i - p] ELSE r[i]
  BY <1>5, <1>7, <1>8 DEF Written
<1>10. ASSUME NEW i \in 1..Len(buffer), i \notin (p + 1)..(p + k) PROVE o[i] = buffer[i]
  <2>1. i \in 1..Len(r)
    BY <1>1, <1>3
  <2> QED
    BY <1>1, <1>9, <1>10, <2>1
<1>11. ASSUME NEW i \in 1..k PROVE o[p + i] = d[i]
  <2>1. p + i \in 1..Len(r) /\ p + i \in (p + 1)..(p + k) /\ (p + i) - p = i
    BY <1>1, <1>3
  <2> QED
    BY <1>5, <1>9, <2>1
<1>12. /\ LimitAfter(p + k) = Longer(limit, p + k) /\ Longer(limit, p + k) \in Nat
       /\ Longer(limit, p + k) <= Len(r) /\ p + k <= Longer(limit, p + k) /\ p + k \in Nat
  BY <1>1, <1>3 DEF LimitAfter, Longer
<1>13. buffer' = o /\ position' = p + k /\ limit' = Longer(limit, p + k) /\ grow' = grow
  BY <1>2, <1>12
<1>14. o \in Seq(Cells) /\ Len(o) \in Nat /\ Len(buffer) <= Len(o) /\ Longer(limit, p + k) <= Len(o)
  BY <1>1, <1>7, <1>9, <1>12
<1>15. position = p /\ k = Takes(d)
  BY DEF p, k
<1> QED
  BY <1>10, <1>11, <1>12, <1>13, <1>14, <1>15, Zenon DEF WroteWell

-----------------------------------------------------------------------------
(* Copies *)

\* What one turn of the loop takes from the source.
Chunk == SubSeq(source, 1, Least(Least(wanted, CopySize), Len(source)))

LEMMA ChunkOfSource ==
  ASSUME MemInv, wanted > 0
  PROVE  /\ Chunk \in Seq(Bytes) /\ Len(Chunk) \in Nat /\ Len(Chunk) <= wanted /\ Len(Chunk) <= MaxIO
         /\ Len(source) \in Nat /\ Len(Chunk) <= Len(source) /\ (Len(Chunk) = 0 => Len(source) = 0)
         /\ \A i \in 1..Len(Chunk) : Chunk[i] = source[i]
<1> DEFINE c == Least(Least(wanted, CopySize), Len(source))
<1>1. source \in Seq(Bytes) /\ Len(source) \in Nat /\ wanted \in Nat /\ wanted > 0 /\ wanted <= MaxIO
      /\ CopySize \in Nat /\ CopySize > 0
  BY MemBounds, LenProperties DEF MemInv, CopyInv
<1>2. c \in 0..Len(source) /\ c \in Nat /\ c <= wanted /\ (c = 0 => Len(source) = 0)
  BY <1>1 DEF Least
<1> HIDE DEF c
<1>3. 0 \in Nat /\ 0 <= c /\ 0 + 1 = 1 /\ c - 0 = c /\ \A i \in 1..c : 0 + i = i
  BY <1>2
<1>4. SubSeq(source, 1, c) \in Seq(Bytes) /\ IsPart(SubSeq(source, 1, c), source, 0, c)
  BY <1>1, <1>2, <1>3, PartOfSeq, Zenon
<1>5. Chunk = SubSeq(source, 1, c)
  BY DEF Chunk, c
<1>6. Len(Chunk) = c /\ \A i \in 1..c : Chunk[i] = source[i]
  BY <1>3, <1>4, <1>5 DEF IsPart
<1>7. Len(Chunk) <= MaxIO
  <2>1. MaxIO \in Nat
    BY MemBounds
  <2> QED
    BY <1>1, <1>2, <1>6, <2>1
<1> QED
  BY <1>1, <1>2, <1>4, <1>5, <1>6, <1>7

\* The state of a copy after it moved k bytes more.
MovedOn(k) ==
  /\ source' = SubSeq(source, k + 1, Len(source)) /\ wanted' = wanted - k /\ wanted' > 0
  /\ request' = request

\* How a turn ends: the copy goes on, is done, or fails.
LEMMA CopyTurn ==
  ASSUME MemInv, CopyLoop
  PROVE  LET k == Len(Chunk) IN
         /\ wanted > 0 /\ out' = out
         /\ \/ /\ Chunk = <<>> /\ UNCHANGED memVars
               /\ wanted' = 0 /\ source' = <<>> /\ request' = NoRequest /\ ret' = "error"
            \/ /\ Chunk # <<>> /\ Wrote(Chunk) /\ Takes(Chunk) < k
               /\ wanted' = 0 /\ source' = <<>> /\ request' = NoRequest /\ ret' = "error"
            \/ /\ Chunk # <<>> /\ Wrote(Chunk) /\ Takes(Chunk) = k
               /\ wanted = k /\ wanted' = 0 /\ source' = <<>> /\ request' = NoRequest /\ ret' = "ok"
            \/ /\ Chunk # <<>> /\ Wrote(Chunk) /\ Takes(Chunk) = k
               /\ MovedOn(k) /\ ret' = "ok"
<1> DEFINE k == Len(Chunk)
<1>1. /\ wanted > 0 /\ out' = out
      /\ \/ Chunk = <<>> /\ wanted' = 0 /\ ret' = EarlyEnd /\ UNCHANGED memVars
         \/ /\ Chunk # <<>> /\ Wrote(Chunk)
            /\ IF Takes(Chunk) < k
               THEN wanted' = 0 /\ ret' = "error"
               ELSE wanted' = wanted - k /\ ret' = "ok"
      /\ source' = IF wanted' = 0 THEN <<>> ELSE SubSeq(source, k + 1, Len(source))
      /\ request' = IF wanted' = 0 THEN NoRequest ELSE request
  BY DEF CopyLoop, Chunk
<1>2. Chunk \in Seq(Bytes) /\ k \in Nat /\ k <= wanted /\ wanted \in Nat
  <2>1. wanted \in Nat
    BY MemBounds DEF MemInv, CopyInv
  <2> QED
    BY <1>1, <2>1, ChunkOfSource
<1>3. Takes(Chunk) \in 0..k
  BY <1>2, RoomKeeps DEF MemInv
<1> HIDE DEF k
<1>4. CASE Chunk = <<>> /\ wanted' = 0 /\ ret' = EarlyEnd /\ UNCHANGED memVars
  BY <1>1, <1>4 DEF EarlyEnd
<1>5. CASE Chunk # <<>> /\ Wrote(Chunk) /\ Takes(Chunk) < k /\ wanted' = 0 /\ ret' = "error"
  BY <1>1, <1>5 DEF k
<1>6. CASE Chunk # <<>> /\ Wrote(Chunk) /\ ~(Takes(Chunk) < k) /\ wanted' = wanted - k /\ ret' = "ok"
  <2>1. Takes(Chunk) = k
    BY <1>2, <1>3, <1>6
  <2>2. CASE wanted = k
    <3>1. wanted' = 0
      BY <1>2, <1>6, <2>2
    <3> QED
      BY <1>1, <1>6, <2>1, <2>2, <3>1 DEF k
  <2>3. CASE wanted # k
    <3>1. wanted' > 0 /\ wanted' # 0
      BY <1>2, <1>6, <2>3
    <3>2. MovedOn(k)
      BY <1>1, <1>6, <3>1 DEF MovedOn
    <3> QED
      BY <1>1, <1>6, <2>1, <3>2 DEF k
  <2> QED
    BY <2>2, <2>3
<1> QED
  BY <1>1, <1>4, <1>5, <1>6

\* What was moved with a chunk is what was moved before it, and the chunk.
LEMMA MovedOnKeeps ==
  ASSUME MemInv, wanted > 0, WroteWell(Chunk), Takes(Chunk) = Len(Chunk)
  PROVE  LET m == Moved + Len(Chunk) IN
         /\ m \in 0..Len(request.source) /\ m \in Nat /\ position' = request.from + m
         /\ m = request.len - (wanted - Len(Chunk))
         /\ \A i \in 1..m : buffer'[request.from + i] = request.source[i]
         /\ \A i \in 1..(Len(source) - Len(Chunk)) :
              source[Len(Chunk) + i] = request.source[m + i]
         /\ Len(source) - Len(Chunk) = Len(request.source) - m
<1> DEFINE k == Len(Chunk)
           n == Moved
           m == n + k
           from == request.from
           src == request.source
<1>1. /\ k \in Nat /\ k <= wanted /\ Len(source) \in Nat /\ k <= Len(source)
      /\ \A i \in 1..k : Chunk[i] = source[i]
  BY ChunkOfSource
<1>2. /\ from \in Nat /\ src \in Seq(Bytes) /\ request.len \in Nat /\ Len(src) \in Nat /\ n \in Nat
      /\ n <= Len(src) /\ position = from + n /\ wanted \in Nat /\ n = request.len - wanted
      /\ IsPart(source, src, n, Len(src)) /\ \A i \in 1..n : buffer[from + i] = src[i]
  <2>1. src \in Seq(Bytes) /\ wanted \in Nat
    BY MemBounds DEF MemInv, CopyInv
  <2>2. Len(src) \in Nat
    BY <2>1, LenProperties
  <2> QED
    BY <2>1, <2>2 DEF MemInv, CopyInv, Moved
<1>3. Len(source) = Len(src) - n /\ \A i \in 1..Len(source) : source[i] = src[n + i]
  <2>1. Len(source) = Len(src) - n /\ \A i \in 1..(Len(src) - n) : source[i] = src[n + i]
    BY <1>2, Zenon DEF IsPart
  <2> QED
    BY <2>1
<1>4. /\ position' = position + k
      /\ \A i \in 1..Len(buffer) : i \notin (position + 1)..(position + k) => buffer'[i] = buffer[i]
      /\ \A i \in 1..k : buffer'[position + i] = Chunk[i]
  BY DEF WroteWell
<1>5. Len(buffer) \in Nat /\ position <= Len(buffer)
  <2>1. Len(buffer) \in Nat
    BY LenProperties DEF MemInv, MemTypes
  <2> QED
    BY <2>1 DEF MemInv, MemTypes
<1> HIDE DEF k, n, from, src
<1>6. m \in Nat /\ m = n + k /\ m <= Len(src) /\ Len(source) - k = Len(src) - m
      /\ m = request.len - (wanted - k)
  <2>1. n \in Nat /\ k \in Nat /\ Len(src) \in Nat /\ Len(source) \in Nat /\ k <= Len(source)
        /\ Len(source) = Len(src) - n
    BY <1>1, <1>2, <1>3
  <2>2. request.len \in Nat /\ wanted \in Nat /\ n = request.len - wanted
    BY <1>2
  <2>3. m \in Nat /\ m = n + k /\ m <= Len(src) /\ Len(source) - k = Len(src) - m
    BY <2>1
  <2>4. m = request.len - (wanted - k)
    BY <2>1, <2>2
  <2> QED
    BY <2>3, <2>4
<1> HIDE DEF m
<1>10. m \in Nat /\ n \in Nat /\ k \in Nat /\ from \in Nat /\ position \in Nat /\ m = n + k
       /\ position = from + n /\ position <= Len(buffer) /\ Len(buffer) \in Nat
       /\ Len(source) \in Nat /\ k <= Len(source)
  <2>1. position \in Nat
    BY DEF MemInv, MemTypes
  <2> QED
    BY <1>1, <1>2, <1>5, <1>6, <2>1, Zenon
<1>7. ASSUME NEW i \in 1..m PROVE buffer'[from + i] = src[i]
  <2>1. CASE i <= n
    <3>1. i \in 1..n /\ from + i \in 1..Len(buffer) /\ from + i \notin (position + 1)..(position + k)
      BY <1>10, <2>1
    <3> QED
      BY <1>2, <1>4, <3>1
  <2>2. CASE ~(i <= n)
    <3>1. i - n \in 1..k /\ i - n \in 1..Len(source) /\ from + i = position + (i - n) /\ n + (i - n) = i
      BY <1>10, <2>2
    <3>2. buffer'[from + i] = Chunk[i - n]
      BY <1>4, <3>1
    <3>3. Chunk[i - n] = src[i]
      BY <1>1, <1>3, <3>1
    <3> QED
      BY <3>2, <3>3
  <2> QED
    BY <2>1, <2>2
<1>8. ASSUME NEW i \in 1..(Len(source) - k) PROVE source[k + i] = src[m + i]
  <2>1. k + i \in 1..Len(source) /\ n + (k + i) = m + i
    BY <1>10
  <2> QED
    BY <1>3, <2>1
<1>9. m \in 0..Len(src) /\ position' = from + m
  BY <1>1, <1>2, <1>4, <1>6
<1> QED
  BY <1>6, <1>7, <1>8, <1>9, Zenon DEF k, m, n, from, src

LEMMA CopyTurnKeeps ==
  ASSUME MemInv, CopyLoop
  PROVE  MemInv'
<1> DEFINE k == Len(Chunk)
<1>1. wanted > 0
  BY CopyTurn
<1>2. Chunk \in Seq(Bytes) /\ k \in Nat /\ Len(source) \in Nat /\ k <= Len(source)
  BY <1>1, ChunkOfSource
<1>3. 0 \in 0..MaxIO /\ <<>> \in Seq(Bytes) /\ MaxIO \in Nat
  BY MemBounds, EmptySeq
<1>4. MemTypes'
  <2>1. CASE UNCHANGED memVars
    BY <2>1 DEF MemInv, MemTypes, memVars
  <2>2. CASE Wrote(Chunk)
    <3>1. WroteWell(Chunk)
      BY <1>2, <2>2, WriteLeaves DEF MemInv
    <3> QED
      BY <3>1, Zenon DEF WroteWell, MemInv, MemTypes
  <2> QED
    BY <2>1, <2>2, CopyTurn
<1>5. CASE wanted' = 0 /\ source' = <<>>
  BY <1>3, <1>4, <1>5 DEF MemInv, CopyInv
<1>6. CASE Wrote(Chunk) /\ Takes(Chunk) = k /\ MovedOn(k)
  <2> DEFINE m == Moved + k
             src == request.source
             rest == SubSeq(source, k + 1, Len(source))
  <2>1. WroteWell(Chunk)
    BY <1>2, <1>6, WriteLeaves DEF MemInv
  <2>2. /\ m \in 0..Len(src) /\ m \in Nat /\ position' = request.from + m
        /\ m = request.len - (wanted - k)
        /\ \A i \in 1..m : buffer'[request.from + i] = src[i]
        /\ \A i \in 1..(Len(source) - k) : source[k + i] = src[m + i]
        /\ Len(source) - k = Len(src) - m
    BY <1>1, <1>6, <2>1, MovedOnKeeps
  <2>3. source' = rest /\ wanted' = wanted - k /\ wanted' > 0 /\ request' = request
    BY <1>6 DEF MovedOn
  <2>4. /\ request.from \in Nat /\ src \in Seq(Bytes) /\ request.len \in Nat
        /\ source \in Seq(Bytes) /\ wanted \in 0..MaxIO
    BY <1>1 DEF MemInv, CopyInv
  <2>5. rest \in Seq(Bytes) /\ IsPart(rest, source, k, Len(source))
    <3>1. Len(source) \in 0..Len(source)
      BY <1>2
    <3> QED
      BY <1>2, <2>4, <3>1, PartOfSeq, Zenon
  <2> HIDE DEF k, m, src, rest
  <2>6. IsPart(rest, src, m, Len(src))
    <3>1. Len(rest) = Len(source) - k /\ \A i \in 1..(Len(source) - k) : rest[i] = source[k + i]
      BY <2>5, Zenon DEF IsPart
    <3>2. Len(rest) = Len(src) - m /\ \A i \in 1..(Len(src) - m) : rest[i] = src[m + i]
      BY <2>2, <3>1
    <3> QED
      BY <3>2, Zenon DEF IsPart
  <2>7. wanted - k \in 0..MaxIO
    <3>1. wanted \in Nat /\ wanted <= MaxIO /\ wanted - k > 0
      BY <1>3, <2>3, <2>4
    <3> QED
      BY <1>2, <1>3, <3>1 DEF k
  <2>8. Moved' = m
    BY <2>2, <2>3, Zenon DEF Moved
  <2>9. CopyInv'
    <3>1. source' \in Seq(Bytes) /\ wanted' \in 0..MaxIO /\ request'.from \in Nat
          /\ request'.source = src /\ request'.source \in Seq(Bytes) /\ request'.len \in Nat
      BY <2>3, <2>4, <2>5, <2>7 DEF src
    <3>2. Moved' \in 0..Len(request'.source) /\ position' = request'.from + Moved'
          /\ IsPart(source', request'.source, Moved', Len(request'.source))
          /\ \A i \in 1..Moved' : buffer'[request'.from + i] = request'.source[i]
      BY <2>2, <2>3, <2>6, <2>8, <3>1, Zenon
    <3> QED
      BY <3>1, <3>2, Zenon DEF CopyInv
  <2> QED
    BY <1>4, <2>9 DEF MemInv
<1> QED
  BY <1>5, <1>6, CopyTurn, Zenon

\* A copy that ends well has moved all, and one that fails could not.
LEMMA CopyTurnExact ==
  ASSUME MemInv, CopyLoop, wanted' = 0
  PROVE  /\ ret' = "ok" =>
              /\ Len(request.source) >= request.len /\ position' = request.from + request.len
              /\ SubSeq(buffer', request.from + 1, position') = SubSeq(request.source, 1, request.len)
         /\ ret' = "error" =>
              \/ Len(request.source) < request.len
              \/ grow = 0 /\ Len(buffer) < request.from + request.len
<1> DEFINE k == Len(Chunk)
           src == request.source
           len == request.len
           from == request.from
<1>1. wanted > 0
  BY CopyTurn
<1>2. Chunk \in Seq(Bytes) /\ k \in Nat /\ k <= wanted /\ Len(source) \in Nat /\ (k = 0 => Len(source) = 0)
  BY <1>1, ChunkOfSource
<1>3. /\ from \in Nat /\ src \in Seq(Bytes) /\ len \in Nat /\ Len(src) \in Nat
      /\ Moved \in Nat /\ position = from + Moved /\ wanted \in Nat /\ Moved = len - wanted
      /\ Len(source) = Len(src) - Moved /\ Len(buffer) \in Nat
  <2>1. src \in Seq(Bytes) /\ wanted \in Nat /\ buffer \in Seq(Cells)
    BY <1>1, MemBounds DEF MemInv, CopyInv, MemTypes
  <2>2. Len(src) \in Nat /\ Len(buffer) \in Nat
    BY <2>1, LenProperties
  <2>3. Moved \in 0..Len(src) /\ IsPart(source, src, Moved, Len(src))
    BY <1>1 DEF MemInv, CopyInv
  <2>4. Len(source) = Len(src) - Moved /\ Moved \in Nat
    BY <2>2, <2>3 DEF IsPart
  <2> QED
    BY <1>1, <2>1, <2>2, <2>4 DEF MemInv, CopyInv, Moved
<1>4. CASE Chunk = <<>> /\ ret' = "error"
  <2>1. k = 0
    BY <1>4
  <2>2. Len(source) = 0
    BY <1>2, <2>1
  <2> HIDE DEF src, len, from
  <2>3. Len(src) < len
    BY <1>1, <1>3, <2>2
  <2> QED
    BY <1>4, <2>3 DEF src, len
<1>5. CASE Takes(Chunk) < k /\ ret' = "error"
  <2>1. grow = 0 /\ Len(buffer) < position + k
    BY <1>2, <1>5, RoomKeeps DEF MemInv
  <2> HIDE DEF src, len, from, k
  <2>2. Len(buffer) < from + len
    BY <1>2, <1>3, <2>1
  <2> QED
    BY <1>5, <2>1, <2>2 DEF len, from
<1>6. CASE Wrote(Chunk) /\ Takes(Chunk) = k /\ wanted = k /\ ret' = "ok"
  <2> DEFINE m == Moved + k
  <2>1. WroteWell(Chunk)
    BY <1>2, <1>6, WriteLeaves DEF MemInv
  <2>2. /\ m \in 0..Len(src) /\ m \in Nat /\ position' = from + m
        /\ \A i \in 1..m : buffer'[from + i] = src[i]
    BY <1>1, <1>6, <2>1, MovedOnKeeps
  <2>3. buffer' \in Seq(Cells) /\ Len(buffer') \in Nat /\ position' <= limit' /\ limit' <= Len(buffer')
        /\ position' \in Nat /\ limit' \in Nat
    BY <2>1 DEF WroteWell
  <2> DEFINE p == from + m
             a == SubSeq(buffer', from + 1, p)
             b == SubSeq(src, 1, m)
             L == Len(buffer')
  <2> HIDE DEF src, len, from, k, m
  <2>4. m = len
    BY <1>1, <1>2, <1>3, <1>6 DEF m, k
  <2>5. p \in 0..L /\ from <= p /\ p - from = m
    <3> HIDE DEF L
    <3>1. L \in Nat /\ p \in Nat /\ from \in Nat /\ m \in Nat
      BY <1>3, <2>2, <2>3 DEF L
    <3>2. p <= L
      <4>1. position' <= L /\ position' = p
        BY <2>2, <2>3 DEF L
      <4> QED
        BY <4>1
    <3> QED
      BY <3>1, <3>2
  <2>6. a \in Seq(Cells) /\ IsPart(a, buffer', from, p)
    <3> HIDE DEF p
    <3> QED
      BY <1>3, <2>3, <2>5, PartOfSeq, Zenon
  <2>7. b \in Seq(Bytes) /\ IsPart(b, src, 0, m)
    <3>1. 0 \in Nat /\ 0 <= m /\ 0 + 1 = 1
      BY <2>2
    <3> QED
      BY <1>3, <2>2, <3>1, PartOfSeq, Zenon
  <2> HIDE DEF a, b
  <2>8. Len(a) = m /\ \A i \in 1..m : a[i] = buffer'[from + i]
    BY <2>5, <2>6, Zenon DEF IsPart
  <2>9. Len(b) = m /\ \A i \in 1..m : b[i] = src[i]
    <3>1. m - 0 = m /\ \A i \in 1..m : 0 + i = i
      BY <2>2
    <3> QED
      BY <2>7, <3>1 DEF IsPart
  <2>10. b \in Seq(Cells)
    BY <2>7, BytesAreCells
  <2>11. a = b
    <3>1. \A i \in 1..Len(a) : a[i] = b[i]
      BY <2>2, <2>8, <2>9, Zenon
    <3> QED
      BY <2>6, <2>8, <2>9, <2>10, <3>1, PartsEqual, Zenon
  <2>12. SubSeq(buffer', from + 1, position') = SubSeq(src, 1, len)
    BY <2>2, <2>4, <2>11 DEF a, b
  <2>13. Len(src) >= len /\ position' = from + len
    BY <1>3, <2>2, <2>4
  <2> QED
    BY <1>6, <2>12, <2>13 DEF src, len, from
<1>7. CASE MovedOn(k)
  <2>1. wanted' > 0
    BY <1>7 DEF MovedOn
  <2> QED
    BY <2>1
<1> QED
  BY <1>4, <1>5, <1>6, <1>7, CopyTurn, Zenon

-----------------------------------------------------------------------------
(* The file *)

FileStep == [PlainFile!Next]_(PlainFile!vars)

\* A write writes over the contents.
LEMMA WriteIsOfFile ==
  ASSUME MemTypes, NEW d \in Seq(Bytes), Wrote(d), WroteWell(d)
  PROVE  LET k == Takes(d)
             t == SubSeq(d, 1, k) IN
         /\ Contents' = Overlay(Contents, position, t) /\ position' = position + k
         /\ t \in [1..k -> Bytes] /\ t \in Seq(Bytes) /\ Len(t) = k /\ k \in 0..Len(d)
<1> DEFINE k == Takes(d)
           t == SubSeq(d, 1, k)
           p == position
           c == Contents
           n == Longer(limit, p + k)
           x == SubSeq(buffer', 1, n)
           y == Overlay(c, p, t)
           L == Len(buffer')
<1>1. k \in 0..Len(d) /\ Len(d) \in Nat
  BY RoomKeeps, LenProperties
<1>2. t \in Seq(Bytes) /\ IsPart(t, d, 0, k)
  <2>1. 0 \in Nat /\ 0 <= k /\ 0 + 1 = 1
    BY <1>1
  <2> QED
    BY <1>1, <2>1, PartOfSeq, Zenon
<1>3. Len(t) = k /\ (\A i \in 1..k : t[i] = d[i]) /\ k \in Nat
  <2>1. k \in Nat /\ k - 0 = k /\ \A i \in 1..k : 0 + i = i
    BY <1>1
  <2> HIDE DEF k, t
  <2> QED
    BY <1>2, <2>1 DEF IsPart
<1>4. t \in [1..k -> Bytes]
  <2>1. t \in [1..Len(t) -> Bytes]
    BY <1>2, LenProperties
  <2> HIDE DEF t, k
  <2> QED
    BY <1>3, <2>1
<1>5. c \in Seq(Cells) /\ Len(c) = limit /\ \A i \in 1..limit : c[i] = buffer[i]
  BY ContentsOfBuffer
<1>6. limit \in Nat /\ p \in Nat /\ p <= limit /\ limit <= Len(buffer) /\ Len(buffer) \in Nat
  <2>1. Len(buffer) \in Nat
    BY LenProperties DEF MemTypes
  <2> QED
    BY <2>1 DEF MemTypes
<1>7. /\ buffer' \in Seq(Cells) /\ L \in Nat /\ limit' = n /\ n \in Nat /\ n <= L
      /\ \A i \in 1..Len(buffer) : i \notin (p + 1)..(p + k) => buffer'[i] = buffer[i]
      /\ \A i \in 1..k : buffer'[p + i] = d[i]
  <2>1. limit' = n /\ limit' \in Nat /\ limit' <= L
    BY DEF WroteWell
  <2>2. n \in Nat /\ n <= L
    BY <2>1
  <2> QED
    BY <2>1, <2>2 DEF WroteWell
<1>8. position' = p + k
  BY DEF WroteWell
<1>9. Contents' = x
  BY <1>7 DEF Contents
<1>10. n \in 0..L /\ 0 \in Nat /\ 0 <= n /\ 0 + 1 = 1 /\ n - 0 = n /\ \A i \in 1..n : 0 + i = i
  <2> HIDE DEF n, L
  <2> QED
    BY <1>7
<1>11. x \in Seq(Cells) /\ IsPart(x, buffer', 0, n)
  <2> HIDE DEF n
  <2> QED
    BY <1>7, <1>10, PartOfSeq, Zenon
<1>12. p \in 0..Len(c) /\ t \in Seq(Cells)
  <2>1. t \in Seq(Cells)
    BY <1>2, BytesAreCells
  <2> HIDE DEF c, t
  <2> QED
    BY <1>5, <1>6, <2>1
<1> HIDE DEF k, t, p, c, x
<1>13. y \in Seq(Cells) /\ Written(y, c, p, t)
  BY <1>5, <1>12, OverlayProperties, Zenon
<1> HIDE DEF y
<1>14. Len(y) = n /\ \A i \in 1..n : y[i] = IF i \in (p + 1)..(p + k) THEN t[i - p] ELSE c[i]
  BY <1>3, <1>5, <1>13, Zenon DEF Written
<1>15. n \in Nat /\ (n = limit \/ n = p + k) /\ limit <= n /\ p + k <= n
  BY <1>3, <1>6 DEF Longer
<1> HIDE DEF n
<1>16. Len(x) = n /\ \A i \in 1..n : x[i] = buffer'[i]
  BY <1>10, <1>11 DEF IsPart
<1>17. ASSUME NEW i \in 1..n PROVE x[i] = y[i]
  <2>1. CASE i \in (p + 1)..(p + k)
    <3>1. i - p \in 1..k /\ p + (i - p) = i
      BY <1>3, <1>6, <2>1
    <3>2. buffer'[i] = d[i - p] /\ t[i - p] = d[i - p]
      BY <1>3, <1>7, <3>1
    <3> QED
      BY <1>14, <1>16, <1>17, <2>1, <3>2
  <2>2. CASE i \notin (p + 1)..(p + k)
    <3>1. i \in 1..limit /\ i \in 1..Len(buffer)
      BY <1>3, <1>6, <1>15, <1>17, <2>2
    <3>2. buffer'[i] = buffer[i] /\ c[i] = buffer[i]
      BY <1>5, <1>7, <2>2, <3>1
    <3> QED
      BY <1>14, <1>16, <1>17, <2>2, <3>2
  <2> QED
    BY <2>1, <2>2
<1>18. x = y
  <2>1. Len(x) = Len(y) /\ \A i \in 1..Len(x) : x[i] = y[i]
    BY <1>14, <1>16, <1>17, Zenon
  <2> QED
    BY <1>11, <1>13, <2>1, PartsEqual, Zenon
<1>19. Contents' = Overlay(Contents, position, t)
  BY <1>9, <1>18 DEF y, c, p
<1> QED
  BY <1>1, <1>2, <1>3, <1>4, <1>8, <1>19 DEF k, t, p

\* A write of something is one of the file, and a write of nothing is none.
LEMMA WriteIsFileStep ==
  ASSUME MemTypes, NEW d \in Seq(Bytes), Len(d) <= MaxIO, Wrote(d), out' = out
  PROVE  FileStep
<1> DEFINE k == Takes(d)
           t == SubSeq(d, 1, k)
<1>1. WroteWell(d)
  BY WriteLeaves
<1>2. /\ Contents' = Overlay(Contents, position, t) /\ position' = position + k
      /\ t \in [1..k -> Bytes] /\ t \in Seq(Bytes) /\ Len(t) = k /\ k \in 0..Len(d)
  BY <1>1, WriteIsOfFile
<1>3. k \in Nat /\ k <= MaxIO /\ MaxIO \in Nat
  <2>1. Len(d) \in Nat /\ MaxIO \in Nat
    BY LenProperties, MemBounds
  <2> HIDE DEF k
  <2> QED
    BY <1>2, <2>1
<1> HIDE DEF k, t
<1>4. CASE k = 0
  <2>1. t = <<>>
    BY <1>2, <1>4, EmptySeq
  <2>2. Contents \in Seq(Cells) /\ position \in 0..Len(Contents) /\ position \in Nat
    <3>1. Contents \in Seq(Cells) /\ Len(Contents) = limit
      BY ContentsOfBuffer
    <3>2. position \in 0..limit /\ position \in Nat
      BY DEF MemTypes
    <3> QED
      BY <3>1, <3>2
  <2>3. Overlay(Contents, position, <<>>) = Contents
    BY <2>2, OverlayNothing, Zenon
  <2>4. Contents' = Contents
    BY <1>2, <2>1, <2>3
  <2>5. position' = position
    BY <1>2, <1>4, <2>2
  <2> QED
    BY <2>4, <2>5 DEF FileStep, PlainFile!vars
<1>5. CASE k > 0
  <2>1. k \in 1..MaxIO
    BY <1>3, <1>5
  <2>2. PlainFile!WriteAtOnce(t)
    <3>1. PlainFile!Overlay(Contents, position, t) = Overlay(Contents, position, t)
      BY DEF Overlay, PlainFile!Overlay
    <3> QED
      BY <1>2, <3>1, Zenon DEF PlainFile!WriteAtOnce
  <2> QED
    BY <1>2, <2>1, <2>2, Zenon DEF FileStep, PlainFile!Next
<1> QED
  BY <1>3, <1>4, <1>5

\* A step that leaves the contents, and goes to some place in them, is a seek.
LEMMA SeekIsFileStep ==
  ASSUME MemTypes, UNCHANGED <<buffer, limit, out>>, position' \in 0..limit
  PROVE  FileStep
<1>1. Contents' = Contents /\ Len(Contents) = limit
  BY ContentsOfBuffer DEF Contents
<1>2. PlainFile!Seek(position')
  BY <1>1 DEF PlainFile!Seek
<1> QED
  BY <1>1, <1>2, Zenon DEF FileStep, PlainFile!Next

-----------------------------------------------------------------------------
(* The steps of the memory stream *)

LEMMA ReadKeeps ==
  ASSUME MemInv, NEW n \in Nat, Read(n)
  PROVE  MemInv' /\ FileStep
<1> DEFINE k == Readable(n)
           p == position
<1>1. /\ wanted = 0 /\ out' = SubSeq(buffer, p + 1, p + k) /\ position' = p + k
      /\ UNCHANGED <<buffer, limit, grow, copyVars>>
  BY DEF Read
<1>2. buffer \in Seq(Cells) /\ Len(buffer) \in Nat /\ limit \in Nat /\ p \in Nat /\ p <= limit /\ limit <= Len(buffer)
  <2>1. buffer \in Seq(Cells) /\ Len(buffer) \in Nat
    BY LenProperties DEF MemInv, MemTypes
  <2> QED
    BY <2>1 DEF MemInv, MemTypes
<1>3. k \in Nat /\ p + k <= limit
  BY <1>2 DEF Readable, Least
<1>4. Contents \in Seq(Cells) /\ Len(Contents) = limit /\ \A i \in 1..limit : Contents[i] = buffer[i]
  BY ContentsOfBuffer DEF MemInv
<1> HIDE DEF k, p
<1>5. SubSeq(Contents, p + 1, p + k) = SubSeq(buffer, p + 1, p + k)
  <2> DEFINE c == Contents
             x == SubSeq(c, p + 1, p + k)
             q == p + k
  <2>1. q \in 0..limit /\ q \in 0..Len(buffer) /\ q \in 0..Len(c) /\ p <= q /\ q - p \in Nat
    BY <1>2, <1>3, <1>4
  <2>2. c \in Seq(Cells)
    BY <1>4
  <2> HIDE DEF q, c
  <2>3. SubSeq(c, p + 1, q) \in Seq(Cells) /\ IsPart(SubSeq(c, p + 1, q), c, p, q)
    BY <1>2, <2>1, <2>2, PartOfSeq, Zenon
  <2> DEFINE z == SubSeq(c, p + 1, q)
  <2> HIDE DEF z
  <2>4. \A i \in 1..(q - p) : p + i \in 1..limit
    BY <1>2, <2>1
  <2>5. IsPart(z, buffer, p, q)
    <3>1. \A i \in 1..(q - p) : c[p + i] = buffer[p + i]
      BY <1>4, <2>4 DEF c
    <3>2. Len(z) = q - p /\ \A i \in 1..(q - p) : z[i] = buffer[p + i]
      BY <2>3, <3>1, Zenon DEF IsPart, z
    <3> QED
      BY <3>2, Zenon DEF IsPart
  <2>6. z = SubSeq(buffer, p + 1, q)
    BY <1>2, <2>1, <2>3, <2>5, PartIsSubSeq, Zenon DEF z
  <2> QED
    BY <2>6 DEF z, q, c
<1>6. k \in 0..limit /\ p + k \in Nat
  BY <1>2, <1>3
<1>7. PlainFile!ReadAtOnce(k)
  <2>1. Contents' = Contents
    BY <1>1 DEF Contents
  <2>2. position + k <= Len(Contents) /\ position' = position + k
        /\ out' = SubSeq(Contents, position + 1, position + k)
    BY <1>1, <1>3, <1>4, <1>5 DEF p
  <2> QED
    BY <2>1, <2>2, Zenon DEF PlainFile!ReadAtOnce
<1>8. FileStep
  BY <1>4, <1>6, <1>7, Zenon DEF FileStep, PlainFile!Next
<1>9. MemInv'
  <2>1. MemTypes'
    BY <1>1, <1>3, <1>6 DEF MemInv, MemTypes
  <2>2. CopyInv'
    <3>1. 0 > 0 <=> FALSE
      OBVIOUS
    <3> QED
      BY <1>1, <3>1 DEF MemInv, CopyInv, copyVars
  <2> QED
    BY <2>1, <2>2 DEF MemInv
<1> QED
  BY <1>8, <1>9

LEMMA WriteKeeps ==
  ASSUME MemInv, NEW d \in Strings(MaxIO), Write(d)
  PROVE  MemInv' /\ FileStep
<1>1. d \in Seq(Bytes) /\ Len(d) <= MaxIO
  BY StringsAreSeqs, MemBounds
<1>2. wanted = 0 /\ Wrote(d) /\ out' = out /\ UNCHANGED copyVars
  BY DEF Write
<1>3. WroteWell(d)
  BY <1>1, <1>2, WriteLeaves DEF MemInv
<1>4. MemTypes'
  BY <1>3, Zenon DEF WroteWell, MemInv, MemTypes
<1>5. CopyInv'
  <2>1. 0 > 0 <=> FALSE
    OBVIOUS
  <2> QED
    BY <1>2, <2>1 DEF MemInv, CopyInv, copyVars
<1>6. FileStep
  BY <1>1, <1>2, WriteIsFileStep DEF MemInv
<1> QED
  BY <1>4, <1>5, <1>6 DEF MemInv

\* A step between the calls of the stream that only moves the position.
LEMMA MoveKeeps ==
  ASSUME MemInv, UNCHANGED <<buffer, limit, grow, out, copyVars>>, wanted = 0, position' \in 0..limit
  PROVE  MemInv' /\ FileStep
<1>1. position' \in Nat /\ position' <= limit
  BY DEF MemInv, MemTypes
<1>2. MemTypes'
  BY <1>1 DEF MemInv, MemTypes
<1>3. CopyInv'
  <2>1. 0 > 0 <=> FALSE
    OBVIOUS
  <2> QED
    BY <2>1 DEF MemInv, CopyInv, copyVars
<1> QED
  BY <1>2, <1>3, SeekIsFileStep DEF MemInv

LEMMA EmptyKeeps ==
  ASSUME MemInv, Empty
  PROVE  MemInv' /\ FileStep
<1>1. wanted = 0 /\ limit' = 0 /\ position' = 0 /\ UNCHANGED <<buffer, grow, out, copyVars>>
  BY DEF Empty
<1>2. buffer \in Seq(Cells) /\ Len(buffer) \in Nat /\ 0 <= Len(buffer)
  BY LenProperties DEF MemInv, MemTypes
<1>3. MemTypes'
  BY <1>1, <1>2 DEF MemInv, MemTypes
<1>4. CopyInv'
  <2>1. 0 > 0 <=> FALSE
    OBVIOUS
  <2> QED
    BY <1>1, <2>1 DEF MemInv, CopyInv, copyVars
<1>5. Contents' = <<>>
  <2>1. Contents' = SubSeq(buffer, 1, 0)
    BY <1>1 DEF Contents
  <2>2. 0 \in Nat /\ 0 \in 0..Len(buffer) /\ 0 <= 0 /\ 0 + 1 = 1 /\ 0 - 0 = 0
    BY <1>2
  <2>3. SubSeq(buffer, 1, 0) \in Seq(Cells) /\ IsPart(SubSeq(buffer, 1, 0), buffer, 0, 0)
    BY <1>2, <2>2, PartOfSeq, Zenon
  <2>4. Len(SubSeq(buffer, 1, 0)) = 0
    BY <2>2, <2>3, Zenon DEF IsPart
  <2> QED
    BY <2>1, <2>3, <2>4, EmptySeq
<1>6. PlainFile!Clear
  BY <1>1, <1>5 DEF PlainFile!Clear
<1> QED
  BY <1>3, <1>4, <1>6, Zenon DEF MemInv, FileStep, PlainFile!Next

LEMMA CopyCallKeeps ==
  ASSUME MemInv, NEW s \in Strings(MaxIO + 1), NEW len \in 1..MaxIO, CopyCall(s, len)
  PROVE  MemInv' /\ FileStep
<1>1. /\ source' = s /\ wanted' = len /\ UNCHANGED <<memVars, out>>
      /\ request' = [from |-> position, source |-> s, len |-> len]
  BY DEF CopyCall
<1>2. s \in Seq(Bytes) /\ Len(s) \in Nat /\ MaxIO \in Nat
  <2>1. MaxIO \in Nat /\ MaxIO + 1 \in Nat
    BY MemBounds
  <2> QED
    BY <2>1, StringsAreSeqs
<1>3. len \in 0..MaxIO /\ len \in Nat /\ len - len = 0 /\ 0 \in 0..Len(s) /\ len > 0
  BY <1>2
<1>4. request'.from = position /\ request'.source = s /\ request'.len = len
  BY <1>1
<1>5. Moved' = 0
  BY <1>1, <1>3, <1>4 DEF Moved
<1>6. IsPart(s, s, 0, Len(s))
  <2>1. Len(s) = Len(s) - 0 /\ \A i \in 1..(Len(s) - 0) : 0 + i = i
    BY <1>2
  <2>2. \A i \in 1..(Len(s) - 0) : s[i] = s[0 + i]
    BY <2>1
  <2> QED
    BY <2>1, <2>2, Zenon DEF IsPart
<1>7. position \in Nat /\ position' = position
  BY <1>1 DEF MemInv, MemTypes, memVars
<1>8. CopyInv'
  <2>1. source' \in Seq(Bytes) /\ wanted' \in 0..MaxIO
    BY <1>1, <1>2, <1>3
  <2>2. request'.from \in Nat /\ request'.source \in Seq(Bytes) /\ request'.len \in Nat
    BY <1>2, <1>3, <1>4, <1>7
  <2>3. Moved' \in 0..Len(request'.source) /\ position' = request'.from + Moved'
    <3>1. position = position + 0
      BY <1>7
    <3> QED
      BY <1>3, <1>4, <1>5, <1>7, <3>1
  <2>4. IsPart(source', request'.source, Moved', Len(request'.source))
    BY <1>1, <1>4, <1>5, <1>6
  <2>5. \A i \in 1..Moved' : buffer'[request'.from + i] = request'.source[i]
    <3>1. 1..0 = {}
      OBVIOUS
    <3> QED
      BY <1>5, <3>1
  <2> QED
    BY <2>1, <2>2, <2>3, <2>4, <2>5, Zenon DEF CopyInv
<1>9. MemTypes'
  BY <1>1 DEF MemInv, MemTypes, memVars
<1>10. FileStep
  BY <1>1 DEF FileStep, PlainFile!vars, Contents, memVars
<1> QED
  BY <1>8, <1>9, <1>10 DEF MemInv

LEMMA CopyTurnOfFile ==
  ASSUME MemInv, CopyLoop
  PROVE  FileStep
<1>1. wanted > 0 /\ out' = out
  BY CopyTurn
<1>2. CASE UNCHANGED memVars
  BY <1>1, <1>2 DEF FileStep, PlainFile!vars, Contents, memVars
<1>3. CASE Wrote(Chunk)
  <2>1. Chunk \in Seq(Bytes) /\ Len(Chunk) <= MaxIO
    BY <1>1, ChunkOfSource
  <2> QED
    BY <1>1, <1>3, <2>1, WriteIsFileStep DEF MemInv
<1> QED
  BY <1>2, <1>3, CopyTurn

LEMMA NextMemKeeps ==
  ASSUME MemInv, NextMem
  PROVE  MemInv' /\ FileStep
<1>1. ASSUME NEW n \in 1..MaxIO, Read(n) PROVE MemInv' /\ FileStep
  <2>1. n \in Nat
    OBVIOUS
  <2> QED
    BY <1>1, <2>1, ReadKeeps
<1>2. ASSUME NEW d \in Strings(MaxIO), Write(d) PROVE MemInv' /\ FileStep
  BY <1>2, WriteKeeps
<1>3. ASSUME NEW p \in 0..limit, SeekSet(p) PROVE MemInv' /\ FileStep
  BY <1>3, MoveKeeps DEF SeekSet
<1>4. CASE Empty
  BY <1>4, EmptyKeeps
<1>5. ASSUME NEW s \in Strings(MaxIO + 1), NEW len \in 1..MaxIO, CopyCall(s, len)
      PROVE  MemInv' /\ FileStep
  BY <1>5, CopyCallKeeps
<1>6. CASE CopyLoop
  BY <1>6, CopyTurnKeeps, CopyTurnOfFile
<1> QED
  BY <1>1, <1>2, <1>3, <1>4, <1>5, <1>6, Zenon DEF NextMem

-----------------------------------------------------------------------------
(* Searches *)

LEMMA LeastOfSet ==
  ASSUME NEW T \in SUBSET Nat, T # {}
  PROVE  LeastOf(T) \in T /\ \A y \in T : LeastOf(T) <= y
BY LeastInSet, Zenon DEF LeastOf

\* A number of the set that is at most each of them is the least.
LEMMA LeastIs ==
  ASSUME NEW T \in SUBSET Nat, NEW x \in T, \A y \in T : x <= y
  PROVE  LeastOf(T) = x
<1>1. LeastOf(T) \in T /\ \A y \in T : LeastOf(T) <= y
  BY LeastOfSet
<1>2. LeastOf(T) <= x /\ x <= LeastOf(T) /\ LeastOf(T) \in Nat /\ x \in Nat
  BY <1>1
<1> QED
  BY <1>2

LEMMA PatternType == Pattern \in Seq(Cells) /\ fs \in Nat /\ fs >= 1 /\ FindSize \in Nat /\ 2 * fs <= FindSize
<1>1. Pattern \in Seq(Bytes)
  BY FindAssumption
<1>2. Pattern \in Seq(Cells) /\ Len(Pattern) \in Nat
  BY <1>1, BytesAreCells
<1> QED
  BY <1>2, FindAssumption DEF fs

\* The pattern lies in f from place q on.
PatternIn(f, q) == \A j \in 1..fs : f[q + j] = Pattern[j]

LEMMA MatchIsPattern ==
  ASSUME NEW f \in Seq(Cells), NEW q \in Int
  PROVE  MatchAt(f, q) <=> q >= 0 /\ q + fs <= Len(f) /\ PatternIn(f, q)
<1> SUFFICES ASSUME q >= 0, q + fs <= Len(f)
             PROVE  SubSeq(f, q + 1, q + fs) = Pattern <=> PatternIn(f, q)
  BY DEF MatchAt
<1> DEFINE b == q + fs
           x == SubSeq(f, q + 1, b)
<1>1. Pattern \in Seq(Cells) /\ fs \in Nat /\ fs >= 1 /\ Len(f) \in Nat
  BY PatternType, LenProperties
<1>2. q \in Nat /\ b \in 0..Len(f) /\ q <= b /\ b - q = fs
  BY <1>1
<1> HIDE DEF b
<1>3. x \in Seq(Cells) /\ IsPart(x, f, q, b)
  BY <1>2, PartOfSeq, Zenon
<1>4. x = SubSeq(f, q + 1, q + fs)
  BY DEF b
<1> HIDE DEF x
<1>5. Len(x) = fs /\ \A j \in 1..fs : x[j] = f[q + j]
  BY <1>2, <1>3, Zenon DEF IsPart
<1>6. ASSUME x = Pattern PROVE PatternIn(f, q)
  BY <1>5, <1>6 DEF PatternIn
<1>7. ASSUME PatternIn(f, q) PROVE x = Pattern
  <2>1. Len(x) = Len(Pattern) /\ \A j \in 1..Len(x) : x[j] = Pattern[j]
    BY <1>5, <1>7 DEF PatternIn, fs
  <2> QED
    BY <1>1, <1>3, <2>1, PartsEqual, Zenon
<1> QED
  BY <1>4, <1>6, <1>7

LEMMA MatchInContents ==
  ASSUME MemTypes, NEW q \in Int
  PROVE  MatchAt(Contents, q) <=> q >= 0 /\ q + fs <= limit /\ PatternIn(buffer, q)
<1>1. Contents \in Seq(Cells) /\ Len(Contents) = limit /\ \A i \in 1..limit : Contents[i] = buffer[i]
  BY ContentsOfBuffer
<1>2. fs \in Nat /\ limit \in Nat
  BY PatternType DEF MemTypes
<1>3. ASSUME q >= 0, q + fs <= limit PROVE PatternIn(Contents, q) <=> PatternIn(buffer, q)
  <2>1. \A j \in 1..fs : q + j \in 1..limit
    BY <1>2, <1>3
  <2> QED
    BY <1>1, <2>1 DEF PatternIn
<1> QED
  BY <1>1, <1>3, MatchIsPattern

\* A part of the buffer holds the pattern where the buffer does.
LEMMA MatchInPart ==
  ASSUME NEW f \in Seq(Cells), NEW x \in Seq(Cells), NEW a \in Nat, NEW b \in 0..Len(f), a <= b,
         IsPart(x, f, a, b), NEW i \in Int
  PROVE  MatchAt(x, i) <=> i >= 0 /\ a + i + fs <= b /\ PatternIn(f, a + i)
<1>1. fs \in Nat /\ b \in Int /\ b - a \in Nat
  BY PatternType, LenProperties
<1>2. Len(x) = b - a /\ \A j \in 1..(b - a) : x[j] = f[a + j]
  BY DEF IsPart
<1>3. i + fs <= b - a <=> a + i + fs <= b
  BY <1>1
<1>4. ASSUME i >= 0, i + fs <= b - a PROVE PatternIn(x, i) <=> PatternIn(f, a + i)
  <2>1. \A j \in 1..fs : i + j \in 1..(b - a) /\ a + (i + j) = (a + i) + j
    BY <1>1, <1>4
  <2>2. \A j \in 1..fs : x[i + j] = f[(a + i) + j]
    BY <1>2, <2>1
  <2> QED
    BY <2>2 DEF PatternIn
<1> QED
  BY <1>2, <1>3, <1>4, MatchIsPattern

SearchTypes ==
  /\ search \in {"none", "find", "reverse"}
  /\ search # "none" =>
       /\ wanted = 0 /\ startPos \in 0..limit /\ maxSeek \in Nat /\ found = -1
       /\ readPos \in Nat /\ readSize \in Nat /\ bufPos \in {0, fs}

\* The pattern does not lie in the buffer at any place from a to b.
NotIn(a, b) == \A q \in a..b : ~PatternIn(buffer, q)

\* The window is what lies in front of the position, and the pattern begins nowhere before it.  A
\* window is read to less than what was asked for at the end only.
ForwardInv ==
  search = "find" =>
    /\ position = startPos + readPos + bufPos /\ readPos + bufPos <= maxSeek
    /\ bufPos = 0 => readPos = 0 /\ readSize = FindSize
    /\ bufPos # 0 /\ readSize = 0 => readPos + bufPos = maxSeek \/ position = limit
    /\ window \in Seq(Cells) /\ IsPart(window, buffer, startPos + readPos, position)
    /\ NotIn(startPos, position - fs)

FindInv == MemInv /\ SearchTypes /\ ForwardInv

Size  == Least(readSize, maxSeek - readPos - bufPos)
Data  == window \o SubSeq(buffer, position + 1, position + Readable(Size))
Hits  == {i \in 0..(Len(Data) - fs) : MatchAt(Data, i)}
Begin == startPos + readPos
After == position + Readable(Size)

\* What the loop looks at is what lies in the buffer from Begin to After.
LEMMA WindowOfBuffer ==
  ASSUME FindInv, search = "find"
  PROVE  /\ Size \in Nat /\ Readable(Size) \in Nat /\ Readable(Size) <= Size
         /\ (Readable(Size) < Size => After = limit)
         /\ Begin \in Nat /\ After \in Nat /\ position <= After /\ After <= limit
         /\ Begin + bufPos = position
         /\ Data \in Seq(Cells) /\ Len(Data) = After - Begin /\ IsPart(Data, buffer, Begin, After)
         /\ Hits \in SUBSET Nat
         /\ \A q \in Int : q - Begin \in Hits <=>
                             q >= Begin /\ q + fs <= After /\ PatternIn(buffer, q)
<1> DEFINE r == Readable(Size)
<1>1. /\ wanted = 0 /\ startPos \in Nat /\ maxSeek \in Nat /\ readPos \in Nat /\ readSize \in Nat
      /\ bufPos \in Nat /\ fs \in Nat /\ position = startPos + readPos + bufPos
      /\ readPos + bufPos <= maxSeek
      /\ window \in Seq(Cells) /\ IsPart(window, buffer, Begin, position)
  BY PatternType DEF FindInv, SearchTypes, ForwardInv, MemInv, MemTypes, Begin
<1>2. /\ buffer \in Seq(Cells) /\ limit \in Nat /\ position \in Nat /\ limit <= Len(buffer)
      /\ position <= limit /\ Len(buffer) \in Nat
  <2>1. buffer \in Seq(Cells) /\ Len(buffer) \in Nat
    BY LenProperties DEF FindInv, MemInv, MemTypes
  <2> QED
    BY <2>1 DEF FindInv, MemInv, MemTypes
<1>3. Size \in Nat
  BY <1>1 DEF Size, Least
<1>4. r \in Nat /\ r <= Size /\ position + r <= limit /\ (r < Size => position + r = limit)
  BY <1>2, <1>3 DEF Readable, Least
<1> HIDE DEF r
<1>5. /\ Begin \in Nat /\ After \in Nat /\ position <= After /\ After <= limit
      /\ Begin + bufPos = position /\ Begin <= position /\ After = position + r
      /\ After \in 0..Len(buffer) /\ Begin <= After
  BY <1>1, <1>2, <1>4 DEF Begin, After, r
<1>6. Data = window \o SubSeq(buffer, position + 1, After)
  BY DEF Data, After
<1>7. SubSeq(buffer, position + 1, After) \in Seq(Cells)
      /\ IsPart(SubSeq(buffer, position + 1, After), buffer, position, After)
  BY <1>2, <1>5, PartOfSeq, Zenon
<1>8. Data \in Seq(Cells) /\ IsPart(Data, buffer, Begin, After)
  BY <1>1, <1>2, <1>5, <1>6, <1>7, PartsJoin, Zenon
<1>9. Len(Data) = After - Begin
  BY <1>8, Zenon DEF IsPart
<1>10. Hits \in SUBSET Nat
  BY DEF Hits
<1>11. ASSUME NEW q \in Int
       PROVE  q - Begin \in Hits <=> q >= Begin /\ q + fs <= After /\ PatternIn(buffer, q)
  <2> DEFINE i == q - Begin
  <2>1. i \in Int /\ Begin + i = q /\ (i >= 0 <=> q >= Begin)
    BY <1>5
  <2>2. i \in Hits <=> i \in 0..(Len(Data) - fs) /\ MatchAt(Data, i)
    BY DEF Hits
  <2> HIDE DEF i
  <2>3. MatchAt(Data, i) <=> i >= 0 /\ Begin + i + fs <= After /\ PatternIn(buffer, Begin + i)
    BY <1>2, <1>5, <1>8, <2>1, MatchInPart, Zenon
  <2>4. i >= 0 /\ q + fs <= After => i \in 0..(Len(Data) - fs)
    BY <1>1, <1>5, <1>9, <2>1
  <2>5. i \in Hits <=> q >= Begin /\ q + fs <= After /\ PatternIn(buffer, q)
    BY <2>1, <2>2, <2>3, <2>4
  <2> QED
    BY <2>5 DEF i
<1> QED
  BY <1>3, <1>4, <1>5, <1>8, <1>9, <1>10, <1>11 DEF r

LEMMA FindTurn ==
  ASSUME FindLoop
  PROVE  LET at == IF readPos < maxSeek THEN After ELSE position IN
         /\ search = "find" /\ UNCHANGED <<buffer, limit, grow, out, copyVars, ret>>
         /\ \/ /\ readPos >= maxSeek \/ Size = 0 \/ Readable(Size) = 0 \/ Len(Data) < fs
               /\ Ends(at) /\ found' = found
            \/ /\ readPos < maxSeek /\ Readable(Size) > 0 /\ Hits # {}
               /\ Ends(at - (Len(Data) - LeastOf(Hits)))
               /\ found' = startPos + readPos + LeastOf(Hits)
            \/ /\ readPos < maxSeek /\ Readable(Size) > 0 /\ Len(Data) >= fs /\ Hits = {}
               /\ position' = at /\ window' = Kept(Data) /\ bufPos' = fs
               /\ readPos' = readPos + Len(Data) - fs
               /\ readSize' = IF bufPos = 0 THEN Size - fs ELSE Size
               /\ UNCHANGED <<search, startPos, maxSeek, found>>
BY DEF FindLoop, Size, Data, Hits, After

\* Where a search forwards looks.
Sought == {p \in startPos..(startPos + maxSeek - fs) : MatchAt(Contents, p)}

\* When a search forwards ends without a hit, all of the stream it was to look at is behind it.
LEMMA NoneBehind ==
  ASSUME FindInv, search = "find", readPos >= maxSeek \/ Size = 0 \/ Readable(Size) = 0 \/ Len(Data) < fs
  PROVE  Sought = {}
<1>1. /\ startPos \in Nat /\ maxSeek \in Nat /\ readPos \in Nat /\ readSize \in Nat
      /\ bufPos \in Nat /\ (bufPos = 0 \/ bufPos = fs) /\ fs \in Nat /\ fs >= 1 /\ limit \in Nat
      /\ FindSize \in Nat /\ FindSize > fs /\ position \in Nat /\ position <= limit
  BY PatternType DEF FindInv, SearchTypes, MemInv, MemTypes
<1>2. /\ position = startPos + readPos + bufPos /\ readPos + bufPos <= maxSeek
      /\ (bufPos = 0 => readPos = 0 /\ readSize = FindSize)
      /\ (bufPos # 0 /\ readSize = 0 => readPos + bufPos = maxSeek \/ position = limit)
      /\ NotIn(startPos, position - fs)
  BY DEF FindInv, ForwardInv
<1>3. Size \in Nat /\ Readable(Size) \in Nat /\ Readable(Size) <= Size /\ Size = Least(readSize, maxSeek - readPos - bufPos)
      /\ (Readable(Size) < Size => After = limit) /\ After = position + Readable(Size)
      /\ Len(Data) = After - Begin /\ Begin = startPos + readPos
  BY WindowOfBuffer DEF Size, After, Begin
<1>4. SUFFICES ASSUME NEW p \in startPos..(startPos + maxSeek - fs), MatchAt(Contents, p) PROVE FALSE
  BY DEF Sought
<1>5. p \in Nat /\ p >= startPos /\ p + fs <= startPos + maxSeek
  BY <1>1, <1>4
<1>6. p + fs <= limit /\ PatternIn(buffer, p)
  BY <1>4, <1>5, MatchInContents DEF FindInv, MemInv
<1>7. ~(p + fs <= position)
  <2>1. p + fs <= position => p \in startPos..(position - fs)
    BY <1>1, <1>5
  <2> QED
    BY <1>2, <1>6, <2>1 DEF NotIn
<1>8. CASE readPos >= maxSeek
  BY <1>1, <1>2, <1>5, <1>8
<1>9. CASE Size = 0
  <2>1. readSize = 0 \/ maxSeek - readPos - bufPos = 0
    BY <1>1, <1>2, <1>3, <1>9 DEF Least
  <2> QED
    BY <1>1, <1>2, <1>5, <1>6, <1>7, <2>1
<1>10. CASE Readable(Size) = 0 /\ Size # 0
  <2>1. position = limit
    BY <1>1, <1>3, <1>10
  <2> QED
    BY <1>6, <1>7, <2>1
<1>11. CASE Len(Data) < fs
  <2> DEFINE r == Readable(Size)
  <2> HIDE DEF r
  <2>1. r \in Nat /\ r <= Size /\ position + r - (startPos + readPos) < fs /\ (r < Size => position + r = limit)
    <3>1. Len(Data) = position + Readable(Size) - (startPos + readPos)
      BY <1>1, <1>3
    <3> QED
      BY <1>3, <1>11, <3>1, Zenon DEF r
  <2>2. bufPos = 0 /\ r < fs
    BY <1>1, <1>2, <2>1
  <2>3. readPos = 0 /\ readSize = FindSize /\ position = startPos
    BY <1>1, <1>2, <2>2
  <2>4. CASE r < Size
    BY <1>1, <1>5, <1>6, <2>1, <2>2, <2>3, <2>4
  <2>5. CASE r = Size
    <3>1. Size = maxSeek
      BY <1>1, <1>3, <2>2, <2>3, <2>5 DEF Least
    <3> QED
      BY <1>1, <1>5, <2>2, <2>5, <3>1
  <2> QED
    BY <1>3, <2>1, <2>4, <2>5
<1> QED
  BY <1>8, <1>9, <1>10, <1>11

\* A hit of the first window that has one is the first.
LEMMA FirstIsFirst ==
  ASSUME FindInv, search = "find", readPos < maxSeek, Readable(Size) > 0, Hits # {}
  PROVE  LET q == Begin + LeastOf(Hits) IN
         /\ Sought # {} /\ LeastOf(Sought) = q /\ q \in 0..limit
         /\ After - (Len(Data) - LeastOf(Hits)) = q
<1> DEFINE h == LeastOf(Hits)
           q == Begin + h
<1>1. /\ startPos \in Nat /\ maxSeek \in Nat /\ readPos \in Nat
      /\ bufPos \in Nat /\ fs \in Nat /\ fs >= 1 /\ limit \in Nat /\ position \in Nat
      /\ Begin = startPos + readPos /\ position = startPos + readPos + bufPos
      /\ readPos + bufPos <= maxSeek /\ NotIn(startPos, position - fs)
      /\ ((bufPos = 0 /\ readPos = 0) \/ bufPos = fs)
  BY PatternType DEF FindInv, SearchTypes, MemInv, MemTypes, ForwardInv, Begin
<1>2. /\ Begin \in Nat /\ After \in Nat /\ position <= After /\ After <= limit
      /\ Len(Data) = After - Begin /\ Hits \in SUBSET Nat
      /\ \A x \in Int : x - Begin \in Hits <=> x >= Begin /\ x + fs <= After /\ PatternIn(buffer, x)
  BY WindowOfBuffer
<1>3. After = position + Readable(Size) /\ Readable(Size) <= Size /\ Readable(Size) \in Nat
      /\ Size \in Nat /\ Size <= maxSeek - readPos - bufPos
  <2>1. Size = Least(readSize, maxSeek - readPos - bufPos) /\ readSize \in Nat
    BY DEF Size, FindInv, SearchTypes
  <2>2. Size <= maxSeek - readPos - bufPos
    BY <1>1, <2>1 DEF Least
  <2> QED
    BY <2>2, WindowOfBuffer DEF After
<1>4. h \in Hits /\ \A y \in Hits : h <= y
  BY <1>2, LeastOfSet
<1> HIDE DEF h
<1>5. h \in Nat /\ q \in Nat /\ q - Begin = h
  <2>1. h \in Nat /\ Begin \in Nat
    BY <1>2, <1>4
  <2> QED
    BY <2>1
<1> HIDE DEF q
<1>6. q >= Begin /\ q + fs <= After /\ PatternIn(buffer, q)
  <2>1. q \in Int /\ q - Begin \in Hits
    BY <1>4, <1>5
  <2> QED
    BY <1>2, <2>1, Zenon
<1>7. q \in 0..limit /\ After - (Len(Data) - h) = q
  BY <1>1, <1>2, <1>5, <1>6 DEF q
<1>8. q \in Sought
  <2> DEFINE r == Readable(Size)
  <2>1. r \in Nat /\ r <= maxSeek - readPos - bufPos /\ After = position + r
    BY <1>1, <1>3
  <2> HIDE DEF r
  <2>3. q \in startPos..(startPos + maxSeek - fs)
    BY <1>1, <1>5, <1>6, <2>1
  <2>2. MatchAt(Contents, q)
    <3>1. q \in Int /\ q >= 0 /\ q + fs <= limit
      BY <1>1, <1>2, <1>5, <1>6
    <3> QED
      BY <1>6, <3>1, MatchInContents DEF FindInv, MemInv
  <2> QED
    BY <2>2, <2>3 DEF Sought
<1>9. ASSUME NEW x \in Sought PROVE q <= x /\ x \in Nat
  <2>1. x \in Nat /\ x >= startPos /\ MatchAt(Contents, x)
    BY <1>1 DEF Sought
  <2>2. PatternIn(buffer, x)
    BY <2>1, MatchInContents DEF FindInv, MemInv
  <2>3. CASE x + fs <= position
    <3>1. x \in startPos..(position - fs)
      BY <1>1, <2>1, <2>3
    <3> QED
      BY <1>1, <2>2, <3>1 DEF NotIn
  <2>4. CASE ~(x + fs <= position) /\ x + fs <= After
    <3>1. x >= Begin
      BY <1>1, <2>1, <2>4
    <3>2. x - Begin \in Hits
      BY <1>2, <2>1, <2>2, <2>4, <3>1
    <3>3. h <= x - Begin
      BY <1>4, <3>2
    <3> QED
      BY <1>2, <1>5, <2>1, <3>3
  <2>5. CASE ~(x + fs <= After)
    BY <1>1, <1>2, <1>5, <1>6, <2>1, <2>5
  <2> QED
    BY <2>3, <2>4, <2>5
<1>10. LeastOf(Sought) = q
  <2>1. Sought \in SUBSET Nat
    BY <1>9
  <2> QED
    BY <1>8, <1>9, <2>1, LeastIs
<1>11. Sought # {}
  BY <1>8
<1> QED
  BY <1>7, <1>10, <1>11 DEF q, h

\* A search that ends.
LEMMA EndsKeeps ==
  ASSUME MemInv, NEW p \in 0..limit, Ends(p), wanted = 0, UNCHANGED <<buffer, limit, grow, out, copyVars>>
  PROVE  FindInv' /\ FileStep /\ search' = "none" /\ position' = p
<1>1. search' = "none" /\ position' = p
  BY DEF Ends
<1>2. MemInv' /\ FileStep
  BY <1>1, MoveKeeps
<1>3. search' # "find" /\ search' \in {"none", "find", "reverse"}
  BY <1>1
<1>4. SearchTypes' /\ ForwardInv'
  BY <1>1, <1>3 DEF SearchTypes, ForwardInv
<1> QED
  BY <1>1, <1>2, <1>4 DEF FindInv

\* The window keeps what lies in front of the position.
LEMMA KeptOfBuffer ==
  ASSUME NEW f \in Seq(Cells), NEW d \in Seq(Cells), NEW a \in Nat, NEW b \in Nat, a + fs <= b,
         b <= Len(f), IsPart(d, f, a, b)
  PROVE  Kept(d) \in Seq(Cells) /\ IsPart(Kept(d), f, b - fs, b)
<1> DEFINE n == Len(d)
           k == n - fs
           x == SubSeq(d, k + 1, n)
<1>1. fs \in Nat /\ n \in Nat /\ n = b - a /\ \A i \in 1..(b - a) : d[i] = f[a + i]
  BY PatternType, LenProperties DEF IsPart
<1>2. k \in Nat /\ k <= n /\ n - k = fs /\ b - (b - fs) = fs
      /\ \A i \in 1..fs : k + i \in 1..(b - a) /\ a + (k + i) = (b - fs) + i
  BY <1>1
<1>3. Kept(d) = x
  BY DEF Kept
<1>4. n \in 0..Len(d)
  BY <1>1
<1> HIDE DEF n, k
<1>5. x \in Seq(Cells) /\ IsPart(x, d, k, n)
  BY <1>2, <1>4, PartOfSeq, Zenon
<1> HIDE DEF x
<1>6. Len(x) = fs /\ \A i \in 1..fs : x[i] = d[k + i]
  BY <1>2, <1>5, Zenon DEF IsPart
<1>7. \A i \in 1..fs : x[i] = f[(b - fs) + i]
  BY <1>1, <1>2, <1>6
<1>8. IsPart(x, f, b - fs, b)
  BY <1>2, <1>6, <1>7, Zenon DEF IsPart
<1> QED
  BY <1>3, <1>5, <1>8

LEMMA GoesOnForward ==
  ASSUME FindInv, search = "find", UNCHANGED <<buffer, limit, grow, out, copyVars>>,
         readPos < maxSeek, Readable(Size) > 0, Len(Data) >= fs, Hits = {},
         position' = After, window' = Kept(Data), bufPos' = fs, readPos' = readPos + Len(Data) - fs,
         readSize' = IF bufPos = 0 THEN Size - fs ELSE Size,
         UNCHANGED <<search, startPos, maxSeek, found>>
  PROVE  FindInv' /\ FileStep
<1> DEFINE r == Readable(Size)
           rp == After - fs - startPos
           rs == IF bufPos = 0 THEN Size - fs ELSE Size
<1>1. /\ wanted = 0 /\ startPos \in Nat /\ startPos <= limit /\ maxSeek \in Nat /\ readPos \in Nat
      /\ readSize \in Nat /\ found = -1 /\ bufPos \in Nat /\ fs \in Nat /\ fs >= 1 /\ limit \in Nat
      /\ position \in Nat /\ Begin = startPos + readPos /\ position = startPos + readPos + bufPos
      /\ readPos + bufPos <= maxSeek /\ NotIn(startPos, position - fs)
      /\ FindSize \in Nat /\ FindSize > fs
      /\ ((bufPos = 0 /\ readPos = 0 /\ readSize = FindSize) \/ bufPos = fs)
  <2>1. startPos \in 0..limit /\ limit \in Nat /\ position \in Nat
    BY DEF FindInv, SearchTypes, MemInv, MemTypes
  <2>2. startPos \in Nat /\ startPos <= limit
    BY <2>1
  <2>3. wanted = 0 /\ maxSeek \in Nat /\ readPos \in Nat /\ readSize \in Nat /\ found = -1 /\ bufPos \in {0, fs}
    BY DEF FindInv, SearchTypes
  <2>4. fs \in Nat /\ fs >= 1 /\ FindSize \in Nat /\ FindSize > fs
    BY PatternType
  <2>5. /\ position = startPos + readPos + bufPos /\ readPos + bufPos <= maxSeek
        /\ NotIn(startPos, position - fs) /\ (bufPos = 0 => readPos = 0 /\ readSize = FindSize)
    BY DEF FindInv, ForwardInv
  <2>6. bufPos \in Nat
    BY <2>3, <2>4
  <2> QED
    BY <2>1, <2>2, <2>3, <2>4, <2>5, <2>6, Zenon DEF Begin
<1>2. /\ Begin \in Nat /\ After \in Nat /\ position <= After /\ After <= limit
      /\ Data \in Seq(Cells) /\ Len(Data) = After - Begin /\ IsPart(Data, buffer, Begin, After)
      /\ r \in Nat /\ r <= Size /\ After = position + r /\ Size \in Nat
      /\ \A q \in Int : q >= Begin /\ q + fs <= After => ~PatternIn(buffer, q)
  <2>1. \A q \in Int : q - Begin \in Hits <=> q >= Begin /\ q + fs <= After /\ PatternIn(buffer, q)
    BY WindowOfBuffer
  <2>2. \A q \in Int : q >= Begin /\ q + fs <= After => ~PatternIn(buffer, q)
    BY <2>1
  <2> QED
    BY <2>2, WindowOfBuffer DEF After
<1>3. Size = Least(readSize, maxSeek - readPos - bufPos) /\ Size <= maxSeek - readPos - bufPos
  <2>1. Size = Least(readSize, maxSeek - readPos - bufPos)
    BY DEF Size
  <2> QED
    BY <1>1, <2>1 DEF Least
<1> HIDE DEF r
<1>4. After - Begin >= fs /\ Begin + fs <= After /\ readPos' = rp /\ readSize' = rs
  <2>1. readPos' = readPos + (After - Begin) - fs /\ After - Begin >= fs
    BY <1>2
  <2>2. readPos + (After - Begin) - fs = rp
    BY <1>1, <1>2
  <2> QED
    BY <1>1, <1>2, <2>1, <2>2
<1>5. rp \in Nat /\ After = startPos + rp + fs /\ rp + fs <= maxSeek
  BY <1>1, <1>2, <1>3, <1>4
<1>6. rs \in Nat /\ (rs = 0 => rp + fs = maxSeek)
  <2>1. CASE bufPos = 0
    <3>1. r >= fs /\ Size >= fs
      BY <1>1, <1>2, <1>4, <2>1
    <3>2. rs = Size - fs
      BY <2>1
    <3>3. ASSUME Size = fs PROVE rp + fs = maxSeek
      <4>1. r = fs /\ Size = maxSeek
        BY <1>1, <1>2, <1>3, <2>1, <3>1, <3>3 DEF Least
      <4>2. After = startPos + fs
        BY <1>1, <1>2, <2>1, <4>1
      <4> HIDE DEF rp
      <4> QED
        BY <1>1, <1>5, <3>3, <4>1, <4>2
    <3> QED
      BY <1>1, <1>2, <3>1, <3>2, <3>3
  <2>2. CASE bufPos # 0
    <3>1. rs = Size /\ Size > 0
      BY <1>2, <2>2 DEF r
    <3> QED
      BY <1>2, <3>1
  <2> QED
    BY <2>1, <2>2
<1>7. Kept(Data) \in Seq(Cells) /\ IsPart(Kept(Data), buffer, startPos + rp, After)
  <2>1. buffer \in Seq(Cells) /\ After <= Len(buffer)
    <3>1. buffer \in Seq(Cells) /\ limit <= Len(buffer) /\ Len(buffer) \in Nat
      BY LenProperties DEF FindInv, MemInv, MemTypes
    <3> QED
      BY <1>1, <1>2, <3>1
  <2>2. IsPart(Kept(Data), buffer, After - fs, After) /\ Kept(Data) \in Seq(Cells)
    BY <1>2, <1>4, <2>1, KeptOfBuffer
  <2>3. After - fs = startPos + rp
    BY <1>1, <1>2, <1>5
  <2> QED
    BY <2>2, <2>3
<1>8. NotIn(startPos, After - fs)
  <2> SUFFICES ASSUME NEW q \in startPos..(After - fs) PROVE ~PatternIn(buffer, q)
    BY DEF NotIn
  <2>1. q \in Int /\ q >= startPos /\ q + fs <= After
    BY <1>1, <1>2
  <2>2. CASE q >= Begin
    BY <1>2, <2>1, <2>2
  <2>3. CASE ~(q >= Begin)
    <3>1. q \in startPos..(position - fs)
      BY <1>1, <2>1, <2>3
    <3> QED
      BY <1>1, <3>1 DEF NotIn
  <2> QED
    BY <2>2, <2>3
<1> HIDE DEF rp, rs
<1>9. MemInv' /\ FileStep
  <2>1. position' \in 0..limit
    BY <1>1, <1>2
  <2> QED
    BY <1>1, <2>1, MoveKeeps DEF FindInv
<1>10. SearchTypes'
  <2>1. bufPos' \in {0, fs} /\ readPos' \in Nat /\ readSize' \in Nat
    BY <1>4, <1>5, <1>6
  <2>2. UNCHANGED <<search, wanted, startPos, limit, maxSeek, found>>
    BY DEF copyVars
  <2> QED
    BY <2>1, <2>2, Zenon DEF FindInv, SearchTypes
<1>11. ForwardInv'
  <2>1. position' = startPos' + readPos' + bufPos' /\ readPos' + bufPos' <= maxSeek'
    BY <1>4, <1>5
  <2>2. bufPos' # 0
    BY <1>1
  <2>3. readSize' = 0 => readPos' + bufPos' = maxSeek'
    BY <1>4, <1>6
  <2>4. window' \in Seq(Cells) /\ IsPart(window', buffer', startPos' + readPos', position')
    BY <1>4, <1>7
  <2>5. NotIn(startPos, position - fs)'
    BY <1>8 DEF NotIn, PatternIn, fs
  <2> QED
    BY <2>1, <2>2, <2>3, <2>4, <2>5, Zenon DEF ForwardInv
<1> QED
  BY <1>9, <1>10, <1>11 DEF FindInv

\* A turn of the search forwards keeps the invariant, and when it ends it has found the first.
LEMMA FindLoopKeeps ==
  ASSUME FindInv, FindLoop
  PROVE  /\ FindInv' /\ FileStep
         /\ search' = "none" => IF Sought = {} THEN found' = -1
                                ELSE found' = LeastOf(Sought) /\ position' = found'
<1> DEFINE Done == IF Sought = {} THEN found' = -1
                   ELSE found' = LeastOf(Sought) /\ position' = found'
<1>1. /\ search = "find" /\ UNCHANGED <<buffer, limit, grow, out, copyVars>> /\ wanted = 0
      /\ found = -1
  BY FindTurn DEF FindInv, SearchTypes
<1>2. position \in 0..limit
  BY DEF FindInv, MemInv, MemTypes
<1>3. After \in 0..limit
  <2>1. After \in Nat /\ After <= limit /\ limit \in Nat
    BY <1>1, WindowOfBuffer DEF FindInv, MemInv, MemTypes
  <2> QED
    BY <2>1
<1>4. ASSUME readPos >= maxSeek \/ Size = 0 \/ Readable(Size) = 0 \/ Len(Data) < fs,
             Ends(IF readPos < maxSeek THEN After ELSE position), found' = found
      PROVE  FindInv' /\ FileStep /\ Done
  <2>1. (IF readPos < maxSeek THEN After ELSE position) \in 0..limit
    BY <1>2, <1>3
  <2>2. FindInv' /\ FileStep
    BY <1>1, <1>4, <2>1, EndsKeeps DEF FindInv
  <2>3. Sought = {}
    BY <1>1, <1>4, NoneBehind
  <2> QED
    BY <1>1, <1>4, <2>2, <2>3
<1>5. ASSUME readPos < maxSeek, Readable(Size) > 0, Hits # {},
             Ends(After - (Len(Data) - LeastOf(Hits))), found' = startPos + readPos + LeastOf(Hits)
      PROVE  FindInv' /\ FileStep /\ Done
  <2> DEFINE q == Begin + LeastOf(Hits)
  <2>1. Sought # {} /\ LeastOf(Sought) = q /\ q \in 0..limit /\ After - (Len(Data) - LeastOf(Hits)) = q
    BY <1>1, <1>5, FirstIsFirst
  <2>2. found' = q
    BY <1>5 DEF Begin
  <2> HIDE DEF q
  <2>3. Ends(q)
    BY <1>5, <2>1
  <2>4. FindInv' /\ FileStep /\ position' = q
    BY <1>1, <2>1, <2>3, EndsKeeps DEF FindInv
  <2> QED
    BY <2>1, <2>2, <2>4
<1>6. ASSUME readPos < maxSeek, Readable(Size) > 0, Len(Data) >= fs, Hits = {},
             position' = (IF readPos < maxSeek THEN After ELSE position),
             window' = Kept(Data), bufPos' = fs,
             readPos' = readPos + Len(Data) - fs,
             readSize' = (IF bufPos = 0 THEN Size - fs ELSE Size),
             UNCHANGED <<search, startPos, maxSeek, found>>
      PROVE  FindInv' /\ FileStep /\ search' # "none"
  <2>1. position' = After
    BY <1>6
  <2>2. FindInv' /\ FileStep
    BY <1>1, <1>6, <2>1, GoesOnForward
  <2> QED
    BY <1>1, <1>6, <2>2
<1> QED
  BY <1>4, <1>5, <1>6, FindTurn

-----------------------------------------------------------------------------
(* Searches backwards *)

SizeBack  == Least(readSize, maxSeek - readPos)
FromBack  == startPos - (readPos + SizeBack)
ChunkBack == SubSeq(buffer, FromBack + 1, Least(FromBack + SizeBack, limit))
InWindow  == Len(ChunkBack) + bufPos
ReadBack  == Overlay(window, 0, ChunkBack)
BufBack   == IF InWindow < FindSize THEN Overlay(ReadBack, FindSize - InWindow, ChunkBack) ELSE ReadBack
HitsBack  == {i \in Places(InWindow) : MatchAt(BufBack, FindSize - i)}
LessBack  == IF bufPos = 0 THEN fs ELSE 0

LEMMA ReverseTurn ==
  ASSUME ReverseLoop
  PROVE  /\ search = "reverse" /\ UNCHANGED <<buffer, limit, grow, out, copyVars, ret>>
         /\ \/ /\ readPos >= maxSeek \/ FromBack < 0 \/ ChunkBack = <<>> \/ InWindow < fs
               /\ Ends(IF readPos < maxSeek /\ FromBack >= 0 THEN FromBack + Len(ChunkBack) ELSE position)
               /\ found' = found
            \/ /\ readPos < maxSeek /\ FromBack >= 0 /\ ChunkBack # <<>> /\ HitsBack # {}
               /\ Ends(FromBack + Len(ChunkBack) + bufPos - LeastOf(HitsBack))
               /\ found' = startPos - (readPos - bufPos + LeastOf(HitsBack))
            \/ /\ readPos < maxSeek /\ FromBack >= 0 /\ ChunkBack # <<>> /\ InWindow >= fs
               /\ HitsBack = {} /\ Len(ChunkBack) = LessBack
               /\ Ends(FromBack + Len(ChunkBack)) /\ found' = found
            \/ /\ readPos < maxSeek /\ FromBack >= 0 /\ ChunkBack # <<>> /\ InWindow >= fs
               /\ HitsBack = {} /\ Len(ChunkBack) # LessBack
               /\ readPos' = readPos + Advance(Len(ChunkBack), LessBack)
               /\ readSize' = SizeBack - LessBack /\ bufPos' = fs
               /\ window' = Overlay(BufBack, readSize', SubSeq(BufBack, 1, fs))
               /\ position' = FromBack + Len(ChunkBack)
               /\ UNCHANGED <<search, startPos, maxSeek, found>>
BY DEF ReverseLoop, SizeBack, FromBack, ChunkBack, InWindow, ReadBack, BufBack, HitsBack, LessBack

\* What is read lies in the stream, in front of what was read before.
LEMMA ChunkBackOfBuffer ==
  ASSUME FindInv, search = "reverse", readPos < maxSeek, FromBack >= 0
  PROVE  /\ SizeBack \in Nat /\ SizeBack <= readSize /\ SizeBack <= maxSeek - readPos
         /\ FromBack \in Nat /\ FromBack + SizeBack = startPos - readPos /\ FromBack + SizeBack <= limit
         /\ ChunkBack \in Seq(Cells) /\ Len(ChunkBack) = SizeBack
         /\ \A i \in 1..SizeBack : ChunkBack[i] = buffer[FromBack + i]
         /\ (SizeBack = 0 <=> ChunkBack = <<>>)
         /\ HitsBack \subseteq fs..InWindow /\ HitsBack \in SUBSET Nat
<1>1. /\ startPos \in Nat /\ startPos <= limit /\ maxSeek \in Nat /\ readPos \in Nat /\ readSize \in Nat
      /\ limit \in Nat /\ limit <= Len(buffer) /\ Len(buffer) \in Nat /\ buffer \in Seq(Cells)
  <2>1. startPos \in 0..limit /\ maxSeek \in Nat /\ readPos \in Nat /\ readSize \in Nat
    BY DEF FindInv, SearchTypes
  <2>2. limit \in Nat /\ limit <= Len(buffer) /\ buffer \in Seq(Cells)
    BY DEF FindInv, MemInv, MemTypes
  <2>3. Len(buffer) \in Nat
    BY <2>2, LenProperties
  <2> QED
    BY <2>1, <2>2, <2>3
<1>2. SizeBack \in Nat /\ SizeBack <= readSize /\ SizeBack <= maxSeek - readPos
  BY <1>1 DEF SizeBack, Least
<1>3. FromBack = startPos - (readPos + SizeBack)
  BY DEF FromBack
<1>4. FromBack \in Nat /\ FromBack + SizeBack = startPos - readPos /\ FromBack + SizeBack <= limit
  BY <1>1, <1>2, <1>3
<1> DEFINE b == FromBack + SizeBack
<1>5. b \in 0..Len(buffer) /\ FromBack <= b /\ b - FromBack = SizeBack /\ Least(b, limit) = b
  BY <1>1, <1>2, <1>4 DEF Least
<1>6. ChunkBack = SubSeq(buffer, FromBack + 1, b)
  BY <1>5 DEF ChunkBack
<1> HIDE DEF b
<1>7. ChunkBack \in Seq(Cells) /\ IsPart(ChunkBack, buffer, FromBack, b)
  BY <1>1, <1>4, <1>5, <1>6, PartOfSeq, Zenon
<1>8. Len(ChunkBack) = SizeBack /\ \A i \in 1..SizeBack : ChunkBack[i] = buffer[FromBack + i]
  BY <1>5, <1>7, Zenon DEF IsPart
<1>9. SizeBack = 0 <=> ChunkBack = <<>>
  BY <1>7, <1>8, EmptySeq
<1>10. HitsBack \subseteq fs..InWindow /\ HitsBack \in SUBSET Nat
  <2>1. fs \in Nat
    BY PatternType
  <2>2. \A i \in fs..InWindow : i \in Nat
    BY <2>1
  <2> QED
    BY <2>2 DEF HitsBack, Places
<1> QED
  BY <1>2, <1>4, <1>7, <1>8, <1>9, <1>10

\* A turn of the search backwards stays in the stream.
LEMMA ReverseLoopKeeps ==
  ASSUME FindInv, ReverseLoop
  PROVE  FindInv' /\ FileStep
<1>1. /\ search = "reverse" /\ UNCHANGED <<buffer, limit, grow, out, copyVars>> /\ wanted = 0
  BY ReverseTurn DEF FindInv, SearchTypes
<1>2. /\ position \in 0..limit /\ limit \in Nat /\ fs \in Nat /\ fs >= 1 /\ bufPos \in {0, fs}
      /\ readPos \in Nat
  BY <1>1, PatternType DEF FindInv, MemInv, MemTypes, SearchTypes
<1>3. ASSUME NEW p \in 0..limit, Ends(p) PROVE FindInv' /\ FileStep
  BY <1>1, <1>3, EndsKeeps DEF FindInv
<1>4. ASSUME readPos < maxSeek, FromBack >= 0 PROVE FromBack + Len(ChunkBack) \in 0..limit
  <2>1. /\ SizeBack \in Nat /\ FromBack \in Nat /\ FromBack + SizeBack <= limit /\ Len(ChunkBack) = SizeBack
    BY <1>1, <1>4, ChunkBackOfBuffer
  <2> QED
    BY <1>2, <2>1
<1>5. ASSUME Ends(IF readPos < maxSeek /\ FromBack >= 0 THEN FromBack + Len(ChunkBack) ELSE position)
      PROVE  FindInv' /\ FileStep
  <2>1. (IF readPos < maxSeek /\ FromBack >= 0 THEN FromBack + Len(ChunkBack) ELSE position) \in 0..limit
    BY <1>2, <1>4
  <2> QED
    BY <1>3, <1>5, <2>1
<1>6. ASSUME readPos < maxSeek, FromBack >= 0, HitsBack # {},
             Ends(FromBack + Len(ChunkBack) + bufPos - LeastOf(HitsBack))
      PROVE  FindInv' /\ FileStep
  <2> DEFINE h == LeastOf(HitsBack)
             p == FromBack + Len(ChunkBack) + bufPos - h
  <2>1. /\ SizeBack \in Nat /\ FromBack \in Nat /\ FromBack + SizeBack <= limit /\ Len(ChunkBack) = SizeBack
        /\ HitsBack \subseteq fs..InWindow /\ HitsBack \in SUBSET Nat
    BY <1>1, <1>6, ChunkBackOfBuffer
  <2>2. h \in HitsBack
    BY <1>6, <2>1, LeastOfSet
  <2> HIDE DEF h
  <2>3. h \in Nat /\ h >= fs /\ h <= SizeBack + bufPos
    <3>1. h \in fs..(SizeBack + bufPos)
      BY <2>1, <2>2 DEF InWindow
    <3> QED
      BY <1>2, <3>1
  <2>4. p \in 0..limit
    BY <1>2, <2>1, <2>3
  <2> QED
    BY <1>3, <1>6, <2>4 DEF h
<1>7. ASSUME readPos < maxSeek, FromBack >= 0, Ends(FromBack + Len(ChunkBack))
      PROVE  FindInv' /\ FileStep
  BY <1>3, <1>4, <1>7
<1>8. ASSUME readPos < maxSeek, FromBack >= 0, InWindow >= fs,
             readPos' = readPos + Advance(Len(ChunkBack), LessBack),
             readSize' = SizeBack - LessBack, bufPos' = fs, position' = FromBack + Len(ChunkBack),
             UNCHANGED <<search, startPos, maxSeek, found>>
      PROVE  FindInv' /\ FileStep
  <2>1. SizeBack \in Nat /\ Len(ChunkBack) = SizeBack
    BY <1>1, <1>8, ChunkBackOfBuffer
  <2>2. LessBack \in Nat /\ SizeBack - LessBack \in Nat
    BY <1>2, <1>8, <2>1 DEF LessBack, InWindow
  <2>3. readPos + Advance(Len(ChunkBack), LessBack) \in Nat
    BY <1>2, <2>1, <2>2 DEF Advance
  <2>4. MemInv' /\ FileStep
    BY <1>1, <1>4, <1>8, MoveKeeps DEF FindInv
  <2>5. SearchTypes'
    <3>1. readPos' \in Nat /\ readSize' \in Nat /\ bufPos' \in {0, fs}
      BY <1>8, <2>2, <2>3
    <3>2. UNCHANGED <<search, wanted, startPos, limit, maxSeek, found>>
      BY <1>1, <1>8 DEF copyVars
    <3> QED
      BY <3>1, <3>2, Zenon DEF FindInv, SearchTypes
  <2>6. search' # "find"
    BY <1>1, <1>8
  <2>7. ForwardInv'
    BY <2>6 DEF ForwardInv
  <2> QED
    BY <2>4, <2>5, <2>7 DEF FindInv
<1> QED
  BY <1>5, <1>6, <1>7, <1>8, ReverseTurn

-----------------------------------------------------------------------------
(* The specification *)

LEMMA InitKeeps == Init => FindInv /\ PlainFile!Init
<1> SUFFICES ASSUME Init PROVE FindInv /\ PlainFile!Init
  OBVIOUS
<1>1. /\ position = 0 /\ out = <<>> /\ source = <<>> /\ wanted = 0 /\ search = "none"
  BY DEF Init, InitMem, InitFind
<1>3. ASSUME NEW g \in GrowSizes, buffer = [i \in 1..g |-> Junk], limit = 0, grow = g
      PROVE  MemTypes /\ Contents \in Seq(Bytes)
  <2>1. g \in Nat
    BY MemBounds
  <2>2. buffer \in [1..g -> Cells]
    BY <1>3 DEF Cells
  <2>3. buffer \in Seq(Cells)
    BY <2>1, <2>2, SeqDef
  <2>4. Len(buffer) \in Nat
    BY <2>3, LenProperties
  <2>5. 0 <= Len(buffer)
    BY <2>4
  <2>6. MemTypes
    BY <1>1, <1>3, <2>1, <2>3, <2>5 DEF MemTypes
  <2>7. Contents \in Seq(Cells) /\ Len(Contents) = 0
    BY <1>3, <2>6, ContentsOfBuffer
  <2>8. Contents = <<>>
    BY <2>7, EmptySeq
  <2> QED
    BY <2>6, <2>8, EmptySeq
<1>4. MemTypes /\ Contents \in Seq(Bytes)
  <2>1. CASE \E g \in GrowSizes : buffer = [i \in 1..g |-> Junk] /\ limit = 0 /\ grow = g
    BY <1>3, <2>1
  <2>2. CASE buffer \in Strings(MaxSought) /\ limit = Len(buffer) /\ grow = 0
    <3>1. PICK k \in 0..MaxSought : buffer \in [1..k -> Bytes]
      BY <2>2 DEF Strings
    <3>2. k \in Nat
      OBVIOUS
    <3>3. buffer \in Seq(Bytes)
      BY <3>1, <3>2, SeqDef
    <3>4. Len(buffer) \in Nat /\ buffer \in Seq(Cells)
      BY <3>3, BytesAreCells
    <3>5. Contents = buffer
      BY <2>2, <3>3, WholePart DEF Contents
    <3>6. MemTypes
      BY <1>1, <2>2, <3>4 DEF MemTypes
    <3> QED
      BY <3>3, <3>5, <3>6
  <2> QED
    BY <2>1, <2>2 DEF Init, InitMem
<1>5. CopyInv
  <2>1. 0 \in 0..MaxIO /\ <<>> \in Seq(Bytes) /\ ~(0 > 0)
    BY MemBounds, EmptySeq
  <2> QED
    BY <1>1, <2>1 DEF CopyInv
<1>6. SearchTypes /\ ForwardInv
  BY <1>1 DEF SearchTypes, ForwardInv
<1>7. PlainFile!Init
  BY <1>1, <1>4 DEF PlainFile!Init
<1> QED
  BY <1>4, <1>5, <1>6, <1>7 DEF FindInv, MemInv

LEMMA SearchCallKeeps ==
  ASSUME FindInv, NEW kind \in {"find", "reverse"}, NEW p \in 0..limit, NEW max \in Nat,
         SearchCall(kind, p, max)
  PROVE  FindInv' /\ FileStep
<1>1. /\ search = "none" /\ wanted = 0 /\ search' = kind /\ position' = p /\ startPos' = p
      /\ maxSeek' = max /\ readPos' = 0 /\ readSize' = FindSize /\ bufPos' = 0 /\ found' = -1
      /\ UNCHANGED <<buffer, limit, grow, out, copyVars>>
  BY DEF SearchCall
<1>2. kind = "find" => window' = <<>>
  BY DEF SearchCall
<1>3. MemInv' /\ FileStep
  BY <1>1, MoveKeeps DEF FindInv
<1>4. fs \in Nat /\ fs >= 1 /\ FindSize \in Nat
  BY PatternType
<1>5. p \in Nat /\ limit \in Nat
  BY DEF FindInv, MemInv, MemTypes
<1>6. SearchTypes'
  <2>1. wanted' = wanted /\ limit' = limit
    BY <1>1 DEF copyVars
  <2> QED
    BY <1>1, <1>4, <2>1, Zenon DEF SearchTypes
<1>7. ASSUME kind = "find" PROVE ForwardInv'
  <2>1. p = p + 0 + 0 /\ 0 + 0 <= max /\ ~(p <= p - fs) /\ p + 0 = p /\ p - p = 0 /\ 1..0 = {}
        /\ p..(p - fs) = {}
    BY <1>4, <1>5
  <2>2. NotIn(startPos, position - fs)'
    BY <1>1, <2>1 DEF NotIn, fs
  <2>3. <<>> \in Seq(Cells) /\ IsPart(<<>>, buffer', p, p)
    BY <2>1, EmptySeq DEF IsPart
  <2>4. window' \in Seq(Cells) /\ IsPart(window', buffer', startPos' + readPos', position')
    BY <1>1, <1>2, <1>7, <2>1, <2>3
  <2>5. position' = startPos' + readPos' + bufPos' /\ readPos' + bufPos' <= maxSeek'
    BY <1>1, <2>1
  <2> QED
    BY <1>1, <2>2, <2>4, <2>5, Zenon DEF ForwardInv
<1>8. ASSUME kind = "reverse" PROVE ForwardInv'
  BY <1>1, <1>8 DEF ForwardInv
<1> QED
  BY <1>3, <1>6, <1>7, <1>8 DEF FindInv

LEMMA StepKeeps == FindInv /\ [Next]_vars => FindInv' /\ FileStep
<1> SUFFICES ASSUME FindInv, [Next]_vars PROVE FindInv' /\ FileStep
  OBVIOUS
<1>1. CASE search = "none" /\ NextMem /\ UNCHANGED <<search, startPos, maxSeek, readPos, readSize, bufPos, window>>
  <2>1. MemInv' /\ FileStep
    BY <1>1, NextMemKeeps DEF FindInv
  <2>2. SearchTypes' /\ ForwardInv'
    BY <1>1 DEF SearchTypes, ForwardInv
  <2> QED
    BY <2>1, <2>2 DEF FindInv
<1>2. ASSUME NEW p \in 0..limit, NEW max \in 0..(limit + 1), SearchCall("find", p, max)
      PROVE  FindInv' /\ FileStep
  <2>1. max \in Nat
    OBVIOUS
  <2> QED
    BY <1>2, <2>1, SearchCallKeeps
<1>3. ASSUME NEW p \in 0..limit, NEW max \in 0..limit, SearchCall("reverse", p, max)
      PROVE  FindInv' /\ FileStep
  <2>1. max \in Nat
    OBVIOUS
  <2> QED
    BY <1>3, <2>1, SearchCallKeeps
<1>4. CASE FindLoop
  BY <1>4, FindLoopKeeps
<1>5. CASE ReverseLoop
  BY <1>5, ReverseLoopKeeps
<1>6. CASE UNCHANGED vars
  <2>1. UNCHANGED <<buffer, limit, position, grow, out, source, wanted, request, ret>>
        /\ UNCHANGED <<search, startPos, maxSeek, readPos, readSize, bufPos, window, found>>
    BY <1>6 DEF vars, memStreamVars, memVars, copyVars, findVars
  <2>2. MemInv'
    BY <2>1 DEF FindInv, MemInv, MemTypes, CopyInv, Moved
  <2>3. SearchTypes'
    BY <2>1 DEF FindInv, SearchTypes
  <2>4. ForwardInv'
    BY <2>1 DEF FindInv, ForwardInv, NotIn, PatternIn
  <2>5. FileStep
    BY <2>1 DEF FileStep, PlainFile!vars, Contents
  <2> QED
    BY <2>2, <2>3, <2>4, <2>5 DEF FindInv
<1> QED
  BY <1>1, <1>2, <1>3, <1>4, <1>5, <1>6, Zenon DEF Next

LEMMA FindInvariant == Spec => []FindInv
<1>1. Init => FindInv
  BY InitKeeps
<1>2. FindInv /\ [Next]_vars => FindInv'
  BY StepKeeps
<1> QED
  BY <1>1, <1>2, PTL DEF Spec

\* Whatever is read, written, emptied, copied or searched, the contents of a memory stream up to its
\* limit, and its position, are those of a file: buffers that grow keep what they have, memory nobody
\* wrote never shows, and the limit and the position stay inside (mz_strm_mem.c, and the callers of
\* mz_stream_copy and the searches of mz_strm.c).
THEOREM MemAlwaysFile == Spec => MemIsFile
<1>1. FindInv => MemOK
  BY DEF FindInv, MemInv, MemTypes, CopyInv, MemOK, Cells
<1>2. Init => PlainFile!Init
  BY InitKeeps
<1>3. FindInv /\ [Next]_vars => [PlainFile!Next]_(PlainFile!vars)
  BY StepKeeps DEF FileStep
<1> QED
  BY <1>1, <1>2, <1>3, FindInvariant, PTL DEF Spec, MemIsFile, PlainFile!Spec

\* A copy that says it succeeded has moved exactly the bytes it was asked for, in any number of turns
\* and with any growth of the target, and one that failed had too short a source or too small a target
\* (mz_stream_copy).
THEOREM CopiesAreExact == Spec => CopyIsExact
<1> DEFINE Exact ==
      LET done == wanted > 0 /\ wanted' = 0 IN
      /\ done /\ ret' = "ok" =>
           /\ Len(request.source) >= request.len /\ position' = request.from + request.len
           /\ SubSeq(buffer', request.from + 1, position') = SubSeq(request.source, 1, request.len)
      /\ done /\ ret' = "error" =>
           \/ Len(request.source) < request.len
           \/ grow = 0 /\ Len(buffer) < request.from + request.len
<1>1. FindInv /\ [Next]_vars => [Exact]_copyVars
  <2> SUFFICES ASSUME FindInv, [Next]_vars, wanted > 0, wanted' = 0 PROVE Exact
    BY Zenon
  <2>1. wanted # 0 /\ wanted' # wanted
    OBVIOUS
  <2>2. CopyLoop
    <3>1. UNCHANGED copyVars => wanted' = wanted
      BY DEF copyVars
    <3>2. \A kind, p, max : SearchCall(kind, p, max) => wanted = 0
      BY DEF SearchCall
    <3>3. ~FindLoop /\ ~ReverseLoop
      BY <2>1, <3>1, FindTurn, ReverseTurn
    <3>4. ~UNCHANGED vars
      BY <2>1, <3>1 DEF vars, memStreamVars
    <3>5. NextMem
      BY <2>1, <3>2, <3>3, <3>4, Zenon DEF Next
    <3>6. (\A n : ~Read(n)) /\ (\A d : ~Write(d)) /\ (\A p : ~SeekSet(p)) /\ ~Empty
          /\ \A s, len : ~CopyCall(s, len)
      BY <2>1 DEF Read, Write, SeekSet, Empty, CopyCall
    <3> QED
      BY <3>5, <3>6, Zenon DEF NextMem
  <2> QED
    BY <2>2, CopyTurnExact DEF FindInv
<1> QED
  BY <1>1, FindInvariant, PTL DEF Spec, CopyIsExact

\* A search forwards stops at the first occurrence that begins within max_seek, wherever it lies over
\* the borders of the windows, and goes there; and it only fails when there is none (mz_stream_find).
THEOREM FindsFirstAlways == Spec => FindsFirst
<1> DEFINE First ==
      search = "find" /\ search' = "none" =>
        IF Sought = {} THEN found' = -1 ELSE found' = LeastOf(Sought) /\ position' = found'
<1>1. FindInv /\ [Next]_vars => [First]_vars
  <2> SUFFICES ASSUME FindInv, [Next]_vars, search = "find", search' = "none" PROVE First
    BY Zenon
  <2>1. FindLoop
    <3>1. ~UNCHANGED vars
      BY DEF vars, findVars
    <3>2. \A kind, p, max : ~SearchCall(kind, p, max)
      BY DEF SearchCall
    <3>3. ~ReverseLoop
      BY ReverseTurn
    <3> QED
      BY <3>1, <3>2, <3>3, Zenon DEF Next
  <2> QED
    BY <2>1, FindLoopKeeps
<1>2. FindInv /\ [Next]_vars =>
        [ LET places == {p \in startPos..(startPos + maxSeek - fs) : MatchAt(Contents, p)} IN
          search = "find" /\ search' = "none" =>
            IF places = {} THEN found' = -1
            ELSE found' = LeastOf(places) /\ position' = found' ]_vars
  BY <1>1 DEF Sought
<1> QED
  BY <1>2, FindInvariant, PTL DEF Spec, FindsFirst

-----------------------------------------------------------------------------
(* What a search backwards finds *)

NotRotated == \A q \in 0..(limit - fs) : SubSeq(buffer, q + 1, q + fs) \notin Rotations
InShort == \E q \in (startPos - maxSeek)..(startPos - fs) : MatchAt(Contents, q)

\* Where the bytes that were kept lie.  The first window counts as read but for the bytes it keeps;
\* the later ones count whole.
Edge == startPos - readPos - (IF readPos = FindSize - fs THEN fs ELSE 0)
KeptAtEdge == \A j \in 1..fs : window[FindSize - fs + j] = buffer[Edge + j]

\* After the first window, the pattern begins nowhere from Edge on, and the window ends in what lies
\* at Edge.
BackInv ==
  search = "reverse" =>
    /\ maxSeek <= startPos /\ window \in Seq(Cells) /\ Len(window) = FindSize
    /\ NotRotated
    /\ maxSeek \in fs..(FindSize - 1) => InShort
    /\ bufPos = 0 => readPos = 0 /\ readSize = FindSize
    /\ bufPos # 0 =>
         /\ FindSize <= maxSeek /\ FindSize - fs <= readPos /\ readPos <= maxSeek
         /\ NotIn(Edge, startPos - fs)
         /\ readPos < maxSeek => readSize = FindSize - fs /\ KeptAtEdge

ReverseInv == FindInv /\ BackInv

\* The end of the window, as a place in the stream.
Top == startPos - readPos + bufPos

LEMMA BackFacts ==
  ASSUME ReverseInv, search = "reverse"
  PROVE  /\ startPos \in Nat /\ startPos <= limit /\ limit \in Nat /\ maxSeek \in Nat /\ maxSeek <= startPos
         /\ readPos \in Nat /\ readSize \in Nat /\ bufPos \in Nat /\ fs \in Nat /\ fs >= 1
         /\ FindSize \in Nat /\ 2 * fs <= FindSize /\ (bufPos = 0 \/ bufPos = fs) /\ found = -1
         /\ buffer \in Seq(Cells) /\ limit <= Len(buffer) /\ Len(buffer) \in Nat
         /\ window \in Seq(Cells) /\ Len(window) = FindSize /\ Edge \in Int /\ Top \in Int
<1>1. startPos \in 0..limit /\ limit \in Nat /\ limit <= Len(buffer) /\ buffer \in Seq(Cells)
  BY DEF ReverseInv, FindInv, SearchTypes, MemInv, MemTypes
<1>2. maxSeek \in Nat /\ readPos \in Nat /\ readSize \in Nat /\ found = -1 /\ bufPos \in {0, fs}
  BY DEF ReverseInv, FindInv, SearchTypes
<1>3. maxSeek <= startPos /\ window \in Seq(Cells) /\ Len(window) = FindSize
  BY DEF ReverseInv, BackInv
<1>4. fs \in Nat /\ fs >= 1 /\ FindSize \in Nat /\ 2 * fs <= FindSize
  BY PatternType
<1>5. startPos \in Nat /\ startPos <= limit /\ bufPos \in Nat
  BY <1>1, <1>2, <1>4
<1>6. Edge \in Int /\ Top \in Int
  BY <1>2, <1>4, <1>5 DEF Edge, Top
<1>7. Len(buffer) \in Nat
  BY <1>1, LenProperties
<1> QED
  BY <1>1, <1>2, <1>3, <1>4, <1>5, <1>6, <1>7

\* How much a turn reads, and where.
LEMMA BackSizes ==
  ASSUME ReverseInv, search = "reverse", readPos < maxSeek
  PROVE  /\ FromBack >= 0 /\ FromBack \in Nat /\ SizeBack \in Nat /\ SizeBack >= 1
         /\ SizeBack <= maxSeek - readPos /\ SizeBack <= FindSize - bufPos
         /\ (SizeBack = FindSize - bufPos \/ SizeBack = maxSeek - readPos)
         /\ InWindow = SizeBack + bufPos /\ Top - InWindow = FromBack
         /\ FromBack + SizeBack = startPos - readPos /\ FromBack >= startPos - maxSeek
<1>1. /\ startPos \in Nat /\ maxSeek \in Nat /\ maxSeek <= startPos
      /\ readPos \in Nat /\ readSize \in Nat /\ bufPos \in Nat /\ fs \in Nat /\ fs >= 1
      /\ FindSize \in Nat /\ 2 * fs <= FindSize /\ (bufPos = 0 \/ bufPos = fs)
  BY BackFacts
<1>2. readSize = FindSize - bufPos
  <2>1. CASE bufPos = 0
    BY <1>1, <2>1 DEF ReverseInv, BackInv
  <2>2. CASE bufPos = fs
    <3>1. bufPos # 0
      BY <1>1, <2>2
    <3> QED
      BY <2>2, <3>1 DEF ReverseInv, BackInv
  <2> QED
    BY <1>1, <2>1, <2>2
<1>3. /\ SizeBack \in Nat /\ SizeBack >= 1 /\ SizeBack <= maxSeek - readPos /\ SizeBack <= readSize
      /\ (SizeBack = readSize \/ SizeBack = maxSeek - readPos)
  <2>1. readSize >= 1 /\ maxSeek - readPos >= 1 /\ maxSeek - readPos \in Nat
    BY <1>1, <1>2
  <2> QED
    BY <1>1, <2>1 DEF SizeBack, Least
<1>4. FromBack = startPos - (readPos + SizeBack)
  BY DEF FromBack
<1>5. FromBack >= 0 /\ FromBack \in Nat /\ FromBack + SizeBack = startPos - readPos /\ FromBack >= startPos - maxSeek
  BY <1>1, <1>3, <1>4
<1>6. Len(ChunkBack) = SizeBack
  BY <1>5, ChunkBackOfBuffer DEF ReverseInv
<1>7. InWindow = SizeBack + bufPos /\ Top = startPos - readPos + bufPos
  BY <1>6 DEF InWindow, Top
<1>8. Top - InWindow = FromBack
  BY <1>1, <1>3, <1>4, <1>7
<1> QED
  BY <1>2, <1>3, <1>5, <1>7, <1>8

\* The window ends in what was read and, behind it, what was kept.
LEMMA WindowBack ==
  ASSUME ReverseInv, search = "reverse", readPos < maxSeek
  PROVE  /\ BufBack \in Seq(Cells) /\ Len(BufBack) = FindSize
         /\ \A j \in 1..SizeBack : BufBack[FindSize - InWindow + j] = buffer[FromBack + j]
         /\ bufPos # 0 => \A j \in 1..fs : BufBack[FindSize - fs + j] = buffer[Edge + j]
<1> DEFINE m == SizeBack
           n == InWindow
           c == ChunkBack
           w == window
           r == ReadBack
           N == FindSize
           p == N - n
           o == Overlay(r, p, c)
<1>1. /\ bufPos \in Nat /\ fs \in Nat /\ fs >= 1 /\ N \in Nat /\ 2 * fs <= N /\ (bufPos = 0 \/ bufPos = fs)
      /\ w \in Seq(Cells) /\ Len(w) = N
  BY BackFacts
<1>2. m \in Nat /\ m <= N - bufPos /\ n = m + bufPos /\ FromBack >= 0
  BY BackSizes
<1>3. c \in Seq(Cells) /\ Len(c) = m /\ \A i \in 1..m : c[i] = buffer[FromBack + i]
  BY <1>2, ChunkBackOfBuffer DEF ReverseInv
<1>4. bufPos # 0 => \A j \in 1..fs : w[N - fs + j] = buffer[Edge + j]
  BY DEF ReverseInv, BackInv, KeptAtEdge
<1>5. r = Overlay(w, 0, c) /\ BufBack = (IF n < N THEN o ELSE r)
  BY DEF ReadBack, BufBack
<1>50. p = N - n
  OBVIOUS
<1> HIDE DEF m, n, c, w, r, N, p, o
<1>6. 0 \in 0..Len(w) /\ 0 + Len(c) = m /\ Longer(Len(w), m) = N
  BY <1>1, <1>2, <1>3 DEF Longer
<1>7. r \in Seq(Cells) /\ Written(r, w, 0, c)
  BY <1>1, <1>3, <1>5, <1>6, OverlayProperties, Zenon
<1>8. Len(r) = N /\ \A i \in 1..N : r[i] = IF i \in (0 + 1)..m THEN c[i - 0] ELSE w[i]
  BY <1>6, <1>7, Zenon DEF Written
<1>9. (\A i \in 1..m : r[i] = c[i]) /\ (\A j \in 1..fs : bufPos # 0 => r[N - fs + j] = w[N - fs + j])
  <2>1. \A i \in 1..m : i \in 1..N /\ i \in (0 + 1)..m /\ i - 0 = i
    BY <1>1, <1>2
  <2>2. \A j \in 1..fs : bufPos # 0 => N - fs + j \in 1..N /\ N - fs + j \notin (0 + 1)..m
    BY <1>1, <1>2
  <2> QED
    BY <1>8, <2>1, <2>2
<1>10. CASE n < N
  <2>1. p \in 0..Len(r) /\ p + Len(c) = N - bufPos /\ p \in Nat /\ Longer(Len(r), p + Len(c)) = N
    BY <1>1, <1>2, <1>3, <1>8, <1>10, <1>50 DEF Longer
  <2>2. o \in Seq(Cells) /\ Written(o, r, p, c)
    BY <1>3, <1>7, <2>1, OverlayProperties, Zenon DEF o
  <2>3. Len(o) = N /\ \A i \in 1..N : o[i] = IF i \in (p + 1)..(N - bufPos) THEN c[i - p] ELSE r[i]
    BY <2>1, <2>2, Zenon DEF Written
  <2>4. ASSUME NEW j \in 1..m PROVE o[p + j] = c[j]
    <3>1. p = N - (m + bufPos)
      BY <1>2, <1>50
    <3>2. p + j \in 1..N /\ p + j \in (p + 1)..(N - bufPos) /\ (p + j) - p = j
      BY <1>1, <1>2, <2>1, <3>1
    <3> QED
      BY <2>3, <3>2
  <2>5. ASSUME NEW j \in 1..fs, bufPos # 0 PROVE o[N - fs + j] = w[N - fs + j]
    <3>1. N - fs + j \in 1..N /\ N - fs + j \notin (p + 1)..(N - bufPos)
      BY <1>1, <2>1, <2>5
    <3> QED
      BY <1>9, <2>3, <2>5, <3>1
  <2>6. BufBack = o
    BY <1>5, <1>10
  <2>7. \A j \in 1..m : BufBack[p + j] = buffer[FromBack + j]
    BY <1>3, <2>4, <2>6
  <2>8. bufPos # 0 => \A j \in 1..fs : BufBack[N - fs + j] = buffer[Edge + j]
    BY <1>4, <2>5, <2>6
  <2> QED
    BY <2>2, <2>3, <2>6, <2>7, <2>8 DEF p, m, n, N
<1>11. CASE ~(n < N)
  <2>1. BufBack = r /\ N - n = 0
    BY <1>1, <1>2, <1>5, <1>11
  <2>2. \A j \in 1..m : 0 + j = j
    BY <1>2
  <2>3. \A j \in 1..m : BufBack[N - n + j] = buffer[FromBack + j]
    BY <1>3, <1>9, <2>1, <2>2
  <2>4. bufPos # 0 => \A j \in 1..fs : BufBack[N - fs + j] = buffer[Edge + j]
    BY <1>4, <1>9, <2>1
  <2> QED
    BY <1>7, <1>8, <2>1, <2>3, <2>4 DEF m, n, N
<1> QED
  BY <1>10, <1>11

\* Bytes that are the pattern from its k-th byte on, and then its first k bytes, are a rotation of it.
LEMMA RotationOfPattern ==
  ASSUME NEW f \in Seq(Cells), NEW e \in Nat, e + fs <= Len(f), NEW k \in 1..(fs - 1),
         \A j \in 1..(fs - k) : f[e + j] = Pattern[k + j],
         \A j \in 1..k : f[e + (fs - k) + j] = Pattern[j]
  PROVE  SubSeq(f, e + 1, e + fs) \in Rotations \/ PatternIn(f, e)
<1> DEFINE b == e + fs
           x == SubSeq(f, e + 1, b)
           y == SubSeq(Pattern, k + 1, fs)
           z == SubSeq(Pattern, 1, k)
<1>1. fs \in Nat /\ Pattern \in Seq(Cells) /\ Len(Pattern) = fs /\ k \in Nat /\ k <= fs /\ Len(f) \in Nat /\ fs - k \in Nat
  <2>1. fs \in Nat /\ Pattern \in Seq(Cells) /\ Len(Pattern) = fs /\ Len(f) \in Nat
    BY PatternType, LenProperties DEF fs
  <2> QED
    BY <2>1
<1>2. b \in 0..Len(f) /\ e <= b /\ b - e = fs /\ k \in 0..Len(Pattern) /\ fs \in 0..Len(Pattern)
      /\ 0 \in Nat /\ 0 <= k /\ 0 + 1 = 1 /\ k - 0 = k /\ \A i \in 1..k : 0 + i = i
  BY <1>1
<1>3. x \in Seq(Cells) /\ IsPart(x, f, e, b)
  <2> HIDE DEF b
  <2> QED
    BY <1>2, PartOfSeq, Zenon
<1>4. y \in Seq(Cells) /\ IsPart(y, Pattern, k, fs)
  BY <1>1, <1>2, PartOfSeq, Zenon
<1>5. z \in Seq(Cells) /\ IsPart(z, Pattern, 0, k)
  BY <1>1, <1>2, PartOfSeq, Zenon
<1>6. x = SubSeq(f, e + 1, e + fs)
  OBVIOUS
<1>7. y \o z \in {SubSeq(Pattern, i + 1, fs) \o SubSeq(Pattern, 1, i) : i \in 1..(fs - 1)}
  OBVIOUS
<1> HIDE DEF b, x, y, z
<1>8. Len(x) = fs /\ \A j \in 1..fs : x[j] = f[e + j]
  BY <1>2, <1>3, Zenon DEF IsPart
<1>9. Len(y) = fs - k /\ \A j \in 1..(fs - k) : y[j] = Pattern[k + j]
  BY <1>4, Zenon DEF IsPart
<1>10. Len(z) = k /\ \A j \in 1..k : z[j] = Pattern[j]
  BY <1>2, <1>5 DEF IsPart
<1>11. y \o z \in Seq(Cells) /\ Len(y \o z) = Len(y) + Len(z)
       /\ \A i \in 1..(Len(y) + Len(z)) : (y \o z)[i] = IF i <= Len(y) THEN y[i] ELSE z[i - Len(y)]
  BY <1>4, <1>5, ConcatProperties
<1>12. Len(y) + Len(z) = fs
  BY <1>1, <1>9, <1>10
<1>13. ASSUME NEW i \in 1..fs PROVE x[i] = (y \o z)[i]
  <2>1. CASE i <= fs - k
    <3>1. i \in 1..(fs - k)
      BY <1>1, <2>1
    <3> QED
      BY <1>8, <1>9, <1>11, <1>12, <2>1, <3>1
  <2>2. CASE ~(i <= fs - k)
    <3>1. i - (fs - k) \in 1..k /\ e + (fs - k) + (i - (fs - k)) = e + i
      BY <1>1, <2>2
    <3>2. x[i] = Pattern[i - (fs - k)]
      BY <1>8, <3>1
    <3>3. ~(i <= Len(y)) /\ i - Len(y) = i - (fs - k) /\ i \in 1..(Len(y) + Len(z))
      BY <1>1, <1>9, <1>12, <2>2
    <3>4. (y \o z)[i] = z[i - (fs - k)]
      BY <1>11, <3>3, Zenon
    <3> QED
      BY <1>10, <3>1, <3>2, <3>4
  <2> QED
    BY <2>1, <2>2
<1>14. x = y \o z
  BY <1>3, <1>8, <1>11, <1>12, <1>13, PartsEqual, Zenon
<1>15. CASE x = Pattern
  BY <1>8, <1>15 DEF PatternIn
<1>16. CASE x # Pattern
  BY <1>6, <1>7, <1>14, <1>16 DEF Rotations
<1> QED
  BY <1>15, <1>16

\* The hits of a turn are the places of the stream, from what was read to the end of the window, where
\* the pattern begins: what the window keeps of the first one is not where the window says, but only a
\* rotated pattern could show there.
LEMMA HitsBackAre ==
  ASSUME ReverseInv, search = "reverse", readPos < maxSeek, NEW q \in Int
  PROVE  Top - q \in HitsBack <=> q >= FromBack /\ q + fs <= Top /\ PatternIn(buffer, q)
<1> DEFINE N == FindSize
           n == InWindow
           m == SizeBack
           F == FromBack
           f == buffer
           g == BufBack
           T == Top
           e == Edge
<1>1. /\ fs \in Nat /\ fs >= 1 /\ N \in Nat /\ 2 * fs <= N /\ bufPos \in Nat /\ (bufPos = 0 \/ bufPos = fs)
      /\ readPos \in Nat /\ startPos \in Nat /\ maxSeek \in Nat /\ maxSeek <= startPos /\ startPos <= limit
      /\ limit \in Nat /\ limit <= Len(f) /\ Len(f) \in Nat /\ f \in Seq(Cells) /\ T \in Int /\ e \in Int
  BY BackFacts
<1>2. F \in Nat /\ m \in Nat /\ m >= 1 /\ m <= N - bufPos /\ n = m + bufPos /\ T - n = F /\ F + m = startPos - readPos
  BY BackSizes
<1>3. /\ g \in Seq(Cells) /\ Len(g) = N
      /\ \A j \in 1..m : g[N - n + j] = f[F + j]
      /\ bufPos # 0 => \A j \in 1..fs : g[N - fs + j] = f[e + j]
  BY WindowBack
<1>4. e = startPos - readPos - (IF readPos = N - fs THEN fs ELSE 0)
  BY DEF Edge
<1>5. bufPos # 0 => N <= maxSeek /\ N - fs <= readPos /\ \A x \in e..(startPos - fs) : ~PatternIn(f, x)
  BY DEF ReverseInv, BackInv, NotIn
<1>6. \A x \in 0..(limit - fs) : SubSeq(f, x + 1, x + fs) \notin Rotations
  BY DEF ReverseInv, BackInv, NotRotated
<1>7. T - q \in HitsBack <=> T - q \in fs..n /\ MatchAt(g, N - (T - q))
  BY DEF HitsBack, Places
<1> HIDE DEF N, n, m, F, f, g, T, e
<1>8. T - q \in fs..n <=> q >= F /\ q + fs <= T
  BY <1>1, <1>2
<1>9. ASSUME q >= F, q + fs <= T PROVE MatchAt(g, N - (T - q)) <=> PatternIn(f, q)
  <2> DEFINE s == q - F
             p == N - (T - q)
  <2>1. s \in Nat /\ s + fs <= n /\ p = N - n + s /\ p \in Nat /\ p + fs <= N /\ q = F + s /\ q \in Nat
    BY <1>1, <1>2, <1>9
  <2>2. MatchAt(g, p) <=> PatternIn(g, p)
    BY <1>3, <2>1, MatchIsPattern
  <2> HIDE DEF s, p
  <2>3. ASSUME NEW j \in 1..fs, s + j <= m PROVE g[p + j] = f[q + j]
    <3>1. s + j \in 1..m /\ N - n + (s + j) = p + j /\ F + (s + j) = q + j
      BY <1>1, <1>2, <2>1, <2>3
    <3> QED
      BY <1>3, <3>1
  <2>4. ASSUME NEW j \in 1..fs, s + j > m PROVE bufPos = fs /\ bufPos # 0 /\ g[p + j] = f[e + (s + j - m)]
    <3>1. bufPos = fs /\ bufPos # 0
      BY <1>1, <1>2, <2>1, <2>4
    <3>2. s + j - m \in 1..fs /\ N - fs + (s + j - m) = p + j
      BY <1>1, <1>2, <2>1, <2>4, <3>1
    <3> QED
      BY <1>3, <3>1, <3>2
  <2>5. CASE s + fs <= m
    <3>1. \A j \in 1..fs : s + j <= m
      BY <1>1, <1>2, <2>1, <2>5
    <3> QED
      BY <2>2, <2>3, <3>1 DEF PatternIn, p
  <2>6. CASE s + fs > m /\ readPos # N - fs
    <3>1. e = F + m
      BY <1>1, <1>2, <1>4, <2>6
    <3>2. \A j \in 1..fs : e + (s + j - m) = q + j /\ (s + j <= m \/ s + j > m)
      BY <1>1, <1>2, <2>1, <3>1
    <3>3. \A j \in 1..fs : g[p + j] = f[q + j]
      BY <2>3, <2>4, <3>2
    <3> QED
      BY <2>2, <3>3 DEF PatternIn, p
  <2>7. CASE s + fs > m /\ readPos = N - fs
    <3> DEFINE k == m - s
    <3>1. bufPos = fs /\ bufPos # 0
      BY <1>1, <1>2, <2>1, <2>7
    <3>2. N <= maxSeek /\ \A x \in e..(startPos - fs) : ~PatternIn(f, x)
      BY <1>5, <3>1
    <3>3. /\ e = startPos - N /\ e \in Nat /\ e + fs <= limit /\ e + fs <= Len(f) /\ F + m = e + fs
          /\ k \in Nat /\ k < fs /\ q = e + (fs - k) /\ e <= startPos - fs /\ q <= startPos - fs
      BY <1>1, <1>2, <1>4, <2>1, <2>7, <3>1, <3>2
    <3> HIDE DEF k
    <3>4. ~PatternIn(f, q) /\ ~PatternIn(f, e)
      <4> HIDE DEF e, F, m, N, n, T, f, g
      <4>1. q \in e..(startPos - fs) /\ e \in e..(startPos - fs)
        BY <1>1, <3>3
      <4> QED
        BY <3>2, <4>1
    <3>5. ASSUME PatternIn(g, p) PROVE FALSE
      <4>1. \A j \in 1..fs : g[p + j] = Pattern[j]
        BY <3>5 DEF PatternIn
      <4>2. ASSUME NEW j \in 1..(fs - k) PROVE f[e + j] = Pattern[k + j]
        <5>1. k + j \in 1..fs /\ s + (k + j) > m /\ s + (k + j) - m = j
          BY <1>1, <1>2, <2>1, <3>3 DEF k
        <5> QED
          BY <2>4, <4>1, <5>1
      <4>3. ASSUME NEW j \in 1..k PROVE f[e + (fs - k) + j] = Pattern[j]
        <5>1. j \in 1..fs /\ s + j <= m /\ e + (fs - k) + j = q + j
          BY <1>1, <1>2, <2>1, <3>3 DEF k
        <5> QED
          BY <2>3, <4>1, <5>1
      <4>4. CASE k = 0
        <5>1. fs - k = fs /\ \A j \in 1..fs : k + j = j
          BY <1>1, <4>4
        <5>2. PatternIn(f, e)
          BY <4>2, <5>1 DEF PatternIn
        <5> QED
          BY <3>4, <5>2
      <4>5. CASE k # 0
        <5>1. k \in 1..(fs - 1) /\ e \in 0..(limit - fs)
          BY <1>1, <3>3, <4>5
        <5>2. SubSeq(f, e + 1, e + fs) \in Rotations \/ PatternIn(f, e)
          BY <1>1, <3>3, <4>2, <4>3, <5>1, RotationOfPattern
        <5> QED
          BY <1>6, <3>4, <5>1, <5>2
      <4> QED
        BY <4>4, <4>5
    <3> QED
      BY <2>2, <3>4, <3>5 DEF p
  <2> QED
    BY <1>1, <1>2, <2>1, <2>5, <2>6, <2>7
<1>10. T - q \in HitsBack <=> q >= F /\ q + fs <= T /\ PatternIn(f, q)
  BY <1>7, <1>8, <1>9
<1> QED
  BY <1>10 DEF T, F, f

\* Where a search backwards looks.
SoughtBack == {p \in (startPos - maxSeek)..(startPos - fs) : MatchAt(Contents, p)}

LEMMA SoughtBackAre ==
  ASSUME ReverseInv, search = "reverse", NEW q
  PROVE  q \in SoughtBack <=> /\ q \in Int /\ q >= startPos - maxSeek /\ q + fs <= startPos
                             /\ PatternIn(buffer, q)
<1>1. /\ startPos \in Nat /\ startPos <= limit /\ maxSeek \in Nat /\ maxSeek <= startPos /\ fs \in Nat /\ limit \in Nat
  BY BackFacts
<1>2. q \in SoughtBack <=> q \in Int /\ q >= startPos - maxSeek /\ q + fs <= startPos /\ MatchAt(Contents, q)
  BY <1>1 DEF SoughtBack
<1>3. ASSUME q \in Int, q >= startPos - maxSeek, q + fs <= startPos
      PROVE  MatchAt(Contents, q) <=> PatternIn(buffer, q)
  <2>1. q >= 0 /\ q + fs <= limit
    BY <1>1, <1>3
  <2> QED
    BY <1>3, <2>1, MatchInContents DEF ReverseInv, FindInv, MemInv
<1> QED
  BY <1>2, <1>3

\* The pattern begins nowhere behind the window, and nowhere at its end.
LEMMA NoneBeyond ==
  ASSUME ReverseInv, search = "reverse", NEW q \in Int, q + fs > Top, q + fs <= startPos
  PROVE  bufPos = fs /\ bufPos # 0 /\ ~PatternIn(buffer, q)
<1>1. /\ startPos \in Nat /\ readPos \in Nat /\ fs \in Nat /\ fs >= 1 /\ (bufPos = 0 \/ bufPos = fs)
      /\ Top = startPos - readPos + bufPos
      /\ Edge = startPos - readPos - (IF readPos = FindSize - fs THEN fs ELSE 0)
  BY BackFacts DEF Top, Edge
<1>2. (bufPos = 0 => readPos = 0) /\ (bufPos # 0 => NotIn(Edge, startPos - fs))
  BY DEF ReverseInv, BackInv
<1>3. bufPos = fs /\ bufPos # 0
  BY <1>1, <1>2
<1>4. q \in Edge..(startPos - fs)
  BY <1>1, <1>3
<1> QED
  BY <1>2, <1>3, <1>4 DEF NotIn

\* The hit that a search backwards takes is the last place where the pattern begins.
LEMMA LastIsLast ==
  ASSUME ReverseInv, search = "reverse", readPos < maxSeek, HitsBack # {}
  PROVE  /\ LeastOf(HitsBack) \in Nat /\ LeastOf(HitsBack) >= fs
         /\ Top - LeastOf(HitsBack) \in SoughtBack
         /\ \A x \in SoughtBack : x <= Top - LeastOf(HitsBack)
         /\ FromBack + Len(ChunkBack) + bufPos - LeastOf(HitsBack) = Top - LeastOf(HitsBack)
         /\ startPos - (readPos - bufPos + LeastOf(HitsBack)) = Top - LeastOf(HitsBack)
<1> DEFINE h == LeastOf(HitsBack)
           q == Top - h
<1>1. /\ fs \in Nat /\ fs >= 1 /\ bufPos \in Nat /\ (bufPos = 0 \/ bufPos = fs) /\ readPos \in Nat /\ startPos \in Nat
      /\ maxSeek \in Nat /\ maxSeek <= startPos /\ Top \in Int /\ FindSize \in Nat /\ 2 * fs <= FindSize
  BY BackFacts
<1>2. /\ FromBack >= 0 /\ FromBack \in Nat /\ SizeBack \in Nat /\ FromBack + SizeBack = startPos - readPos
      /\ FromBack >= startPos - maxSeek
  BY BackSizes
<1>3. Top = startPos - readPos + bufPos /\ Len(ChunkBack) = SizeBack /\ HitsBack \in SUBSET Nat /\ HitsBack \subseteq fs..InWindow
  BY <1>2, ChunkBackOfBuffer DEF ReverseInv, Top
<1>4. h \in HitsBack /\ \A y \in HitsBack : h <= y
  BY <1>3, LeastOfSet
<1> HIDE DEF h
<1>5. h \in Nat /\ h >= fs /\ q \in Int /\ Top - q = h
  <2>1. h \in Nat /\ h \in fs..InWindow
    BY <1>3, <1>4
  <2> QED
    BY <1>1, <2>1
<1> HIDE DEF q
<1>6. q >= FromBack /\ q + fs <= Top /\ PatternIn(buffer, q)
  BY <1>4, <1>5, HitsBackAre
<1>7. Top <= startPos
  <2>1. bufPos # 0 => FindSize - fs <= readPos
    BY DEF ReverseInv, BackInv
  <2> QED
    BY <1>1, <1>3, <2>1
<1>8. q \in SoughtBack
  <2>1. q >= startPos - maxSeek /\ q + fs <= startPos
    BY <1>1, <1>2, <1>5, <1>6, <1>7
  <2> QED
    BY <1>5, <1>6, <2>1, SoughtBackAre
<1>9. ASSUME NEW x \in SoughtBack PROVE x <= q
  <2>1. x \in Int /\ x >= startPos - maxSeek /\ x + fs <= startPos /\ PatternIn(buffer, x)
    BY SoughtBackAre
  <2>2. x + fs <= Top
    BY <1>1, <2>1, NoneBeyond
  <2>3. CASE x >= FromBack
    <3>1. Top - x \in HitsBack
      BY <2>1, <2>2, <2>3, HitsBackAre
    <3>2. h <= Top - x
      BY <1>4, <3>1
    <3> QED
      BY <1>1, <1>5, <2>1, <3>2
  <2>4. CASE ~(x >= FromBack)
    BY <1>2, <1>5, <1>6, <2>1, <2>4
  <2> QED
    BY <2>3, <2>4
<1>10. FromBack + Len(ChunkBack) + bufPos - h = q /\ startPos - (readPos - bufPos + h) = q
  BY <1>1, <1>2, <1>3, <1>5
<1>11. q = Top - LeastOf(HitsBack) /\ h = LeastOf(HitsBack)
  BY DEF q, h
<1> QED
  BY <1>5, <1>8, <1>9, <1>10, <1>11, Zenon

\* A search backwards that ends without a hit has looked everywhere.
LEMMA NoneLeft ==
  ASSUME ReverseInv, search = "reverse",
         \/ readPos >= maxSeek \/ FromBack < 0 \/ ChunkBack = <<>> \/ InWindow < fs
         \/ HitsBack = {} /\ Len(ChunkBack) = LessBack
  PROVE  SoughtBack = {}
<1>1. /\ fs \in Nat /\ fs >= 1 /\ bufPos \in Nat /\ (bufPos = 0 \/ bufPos = fs) /\ readPos \in Nat /\ startPos \in Nat
      /\ maxSeek \in Nat /\ maxSeek <= startPos /\ FindSize \in Nat /\ 2 * fs <= FindSize
      /\ Edge = startPos - readPos - (IF readPos = FindSize - fs THEN fs ELSE 0)
      /\ Top = startPos - readPos + bufPos
  BY BackFacts DEF Edge, Top
<1>2. /\ (bufPos = 0 => readPos = 0)
      /\ (bufPos # 0 => readPos <= maxSeek /\ NotIn(Edge, startPos - fs))
  BY DEF ReverseInv, BackInv
<1>3. SUFFICES ASSUME NEW x \in SoughtBack PROVE FALSE
  OBVIOUS
<1>4. x \in Int /\ x >= startPos - maxSeek /\ x + fs <= startPos /\ PatternIn(buffer, x)
  BY <1>3, SoughtBackAre
<1>5. CASE readPos >= maxSeek
  <2>1. bufPos # 0 /\ x \in Edge..(startPos - fs)
    BY <1>1, <1>2, <1>4, <1>5
  <2> QED
    BY <1>2, <1>4, <2>1 DEF NotIn
<1>6. CASE readPos < maxSeek
  <2>1. /\ FromBack >= 0 /\ FromBack \in Nat /\ SizeBack \in Nat /\ SizeBack >= 1
        /\ (SizeBack = FindSize - bufPos \/ SizeBack = maxSeek - readPos)
        /\ InWindow = SizeBack + bufPos /\ FromBack + SizeBack = startPos - readPos
    BY <1>6, BackSizes
  <2>2. Len(ChunkBack) = SizeBack /\ ChunkBack # <<>>
    BY <1>6, <2>1, ChunkBackOfBuffer DEF ReverseInv
  <2>3. CASE InWindow < fs
    BY <1>1, <1>2, <1>4, <2>1, <2>3
  <2>4. CASE HitsBack = {} /\ Len(ChunkBack) = LessBack
    <3>1. SizeBack = (IF bufPos = 0 THEN fs ELSE 0)
      BY <2>2, <2>4 DEF LessBack
    <3>2. x >= FromBack /\ x + fs <= Top
      BY <1>1, <1>2, <1>4, <2>1, <3>1
    <3>3. Top - x \in HitsBack
      BY <1>4, <1>6, <3>2, HitsBackAre
    <3> QED
      BY <2>4, <3>3
  <2> QED
    BY <1>1, <1>3, <1>6, <2>1, <2>2, <2>3, <2>4
<1> QED
  BY <1>1, <1>5, <1>6

\* A turn without a hit that is not the last looks next in front of where it began to read.
LEMMA GoesOnBack ==
  ASSUME ReverseInv, search = "reverse", UNCHANGED <<buffer, limit>>,
         readPos < maxSeek, InWindow >= fs, HitsBack = {}, Len(ChunkBack) # LessBack,
         readPos' = readPos + Advance(Len(ChunkBack), LessBack),
         readSize' = SizeBack - LessBack, bufPos' = fs,
         window' = Overlay(BufBack, readSize', SubSeq(BufBack, 1, fs)),
         UNCHANGED <<search, startPos, maxSeek>>
  PROVE  BackInv'
<1> DEFINE N == FindSize
           m == SizeBack
           F == FromBack
           g == BufBack
           less == LessBack
           r == readPos + (m - less)
           z == m - less
           k == SubSeq(g, 1, fs)
           w == Overlay(g, z, k)
           e == startPos - r - (IF r = N - fs THEN fs ELSE 0)
<1>1. /\ fs \in Nat /\ fs >= 1 /\ bufPos \in Nat /\ (bufPos = 0 \/ bufPos = fs) /\ readPos \in Nat /\ startPos \in Nat
      /\ maxSeek \in Nat /\ maxSeek <= startPos /\ N \in Nat /\ 2 * fs <= N
      /\ Edge = startPos - readPos - (IF readPos = N - fs THEN fs ELSE 0)
      /\ Top = startPos - readPos + bufPos
  BY BackFacts DEF Edge, Top
<1>2. /\ F >= 0 /\ F \in Nat /\ m \in Nat /\ m >= 1 /\ m <= N - bufPos /\ m <= maxSeek - readPos
      /\ (m = N - bufPos \/ m = maxSeek - readPos)
      /\ InWindow = m + bufPos /\ F + m = startPos - readPos /\ F >= startPos - maxSeek
  BY BackSizes
<1>3. Len(ChunkBack) = m
  BY <1>2, ChunkBackOfBuffer DEF ReverseInv
<1>4. /\ (bufPos = 0 => readPos = 0)
      /\ (bufPos # 0 => N <= maxSeek /\ N - fs <= readPos /\ readPos <= maxSeek)
      /\ (maxSeek \in fs..(N - 1) => InShort) /\ NotRotated
  BY DEF ReverseInv, BackInv
<1>5. /\ g \in Seq(Cells) /\ Len(g) = N /\ \A j \in 1..m : g[N - (m + bufPos) + j] = buffer[F + j]
  BY <1>2, WindowBack
<1>6. less = (IF bufPos = 0 THEN fs ELSE 0) /\ less # m
  BY <1>3 DEF LessBack
<1>7. /\ search' = search /\ startPos' = startPos /\ maxSeek' = maxSeek /\ buffer' = buffer /\ limit' = limit
      /\ readPos' = r /\ readSize' = z /\ bufPos' = fs /\ window' = w
  BY <1>3 DEF Advance
<1>8. e = startPos - r - (IF r = N - fs THEN fs ELSE 0)
  OBVIOUS
<1>9. r = readPos + (m - less) /\ z = m - less
  OBVIOUS
<1> HIDE DEF N, m, F, g, less, r, z, k, w, e
<1>10. N <= maxSeek
  <2>1. CASE bufPos # 0
    BY <1>4, <2>1
  <2>2. CASE bufPos = 0 /\ maxSeek < N
    <3>1. maxSeek \in fs..(N - 1)
      BY <1>1, <1>2, <1>4, <2>2
    <3>2. PICK q \in (startPos - maxSeek)..(startPos - fs) : MatchAt(Contents, q)
      BY <1>4, <3>1 DEF InShort
    <3>3. q \in SoughtBack
      BY <3>2 DEF SoughtBack
    <3>4. q \in Int /\ q >= startPos - maxSeek /\ q + fs <= startPos /\ PatternIn(buffer, q)
      BY <3>3, SoughtBackAre
    <3>5. q >= F /\ q + fs <= Top
      BY <1>1, <1>2, <1>4, <2>2, <3>4
    <3> QED
      BY <3>4, <3>5, HitsBackAre DEF F
  <2> QED
    BY <1>1, <2>1, <2>2
<1>11. z \in Nat /\ z + fs <= N /\ r \in Nat /\ N - fs <= r /\ r <= maxSeek /\ e = F
  <2>1. CASE bufPos = 0
    <3>1. m = N /\ readPos = 0 /\ less = fs
      BY <1>1, <1>2, <1>4, <1>6, <1>10, <2>1
    <3> QED
      BY <1>1, <1>2, <1>8, <1>9, <1>10, <3>1
  <2>2. CASE bufPos # 0
    <3>1. less = 0 /\ bufPos = fs /\ N - fs <= readPos
      BY <1>1, <1>4, <1>6, <2>2
    <3>2. z = m /\ r = readPos + m /\ r # N - fs /\ z + fs <= N /\ N - fs <= r /\ r <= maxSeek /\ r \in Nat
      BY <1>1, <1>2, <1>9, <3>1
    <3>3. e = F
      BY <1>1, <1>2, <1>8, <3>2
    <3> QED
      BY <1>2, <3>2, <3>3
  <2> QED
    BY <2>1, <2>2
<1>12. \A q \in F..(startPos - fs) : ~PatternIn(buffer, q)
  <2> SUFFICES ASSUME NEW q \in F..(startPos - fs), PatternIn(buffer, q) PROVE FALSE
    OBVIOUS
  <2>1. q \in Int /\ q >= F /\ q + fs <= startPos
    BY <1>1, <1>2
  <2>2. CASE q + fs <= Top
    <3>1. Top - q \in HitsBack
      BY <2>1, <2>2, HitsBackAre DEF F
    <3> QED
      BY <3>1
  <2>3. CASE q + fs > Top
    BY <2>1, <2>3, NoneBeyond
  <2> QED
    BY <1>1, <2>1, <2>2, <2>3
<1>13. r < maxSeek => z = N - fs /\ m + bufPos = N /\ m >= fs
  <2>1. CASE bufPos = 0
    BY <1>1, <1>2, <1>4, <1>6, <1>9, <1>10, <2>1
  <2>2. CASE bufPos # 0
    <3>1. less = 0 /\ bufPos = fs
      BY <1>1, <1>6, <2>2
    <3> QED
      BY <1>1, <1>2, <1>9, <3>1
  <2> QED
    BY <2>1, <2>2
<1>14. k \in Seq(Cells) /\ Len(k) = fs /\ \A j \in 1..fs : k[j] = g[j]
  <2>1. 0 \in Nat /\ fs \in 0..Len(g) /\ 0 <= fs /\ 0 + 1 = 1 /\ fs - 0 = fs /\ \A j \in 1..fs : 0 + j = j
    BY <1>1, <1>5
  <2>2. k \in Seq(Cells) /\ IsPart(k, g, 0, fs)
    BY <1>5, <2>1, PartOfSeq, Zenon DEF k
  <2> QED
    BY <2>1, <2>2 DEF IsPart
<1>15. w \in Seq(Cells) /\ Len(w) = N /\ \A j \in 1..fs : w[z + j] = g[j]
  <2>1. z \in 0..Len(g) /\ Longer(Len(g), z + Len(k)) = N /\ z + Len(k) = z + fs
    BY <1>1, <1>5, <1>11, <1>14 DEF Longer
  <2>2. w \in Seq(Cells) /\ Written(w, g, z, k)
    BY <1>5, <1>14, <2>1, OverlayProperties, Zenon DEF w
  <2>3. Len(w) = N /\ \A i \in 1..N : w[i] = IF i \in (z + 1)..(z + fs) THEN k[i - z] ELSE g[i]
    BY <2>1, <2>2, Zenon DEF Written
  <2>4. \A j \in 1..fs : z + j \in 1..N /\ z + j \in (z + 1)..(z + fs) /\ (z + j) - z = j
    BY <1>1, <1>11
  <2> QED
    BY <1>14, <2>2, <2>3, <2>4
<1>16. r < maxSeek => \A j \in 1..fs : w[N - fs + j] = buffer[e + j]
  <2> SUFFICES ASSUME r < maxSeek, NEW j \in 1..fs PROVE w[N - fs + j] = buffer[e + j]
    OBVIOUS
  <2>1. z = N - fs /\ j \in 1..m /\ N - (m + bufPos) + j = j
    BY <1>1, <1>2, <1>11, <1>13
  <2>2. g[j] = buffer[F + j]
    BY <1>5, <2>1
  <2> QED
    BY <1>11, <1>15, <2>1, <2>2
<1>17. Edge' = e
  BY <1>7, <1>8 DEF Edge, fs, N
<1>18. (r < maxSeek => z = N - fs /\ KeptAtEdge') /\ NotIn(Edge, startPos - fs)'
  <2>1. r < maxSeek => KeptAtEdge'
    BY <1>7, <1>16, <1>17 DEF KeptAtEdge, fs, N
  <2>2. NotIn(Edge, startPos - fs)'
    BY <1>7, <1>11, <1>12, <1>17, Zenon DEF NotIn, PatternIn, fs
  <2> QED
    BY <1>13, <2>1, <2>2
<1>19. NotRotated' /\ (maxSeek \in fs..(N - 1) => InShort')
  BY <1>4, <1>7 DEF NotRotated, InShort, MatchAt, Contents, Rotations, fs
<1>20. fs # 0
  BY <1>1
<1>21. search' = "reverse" =>
         /\ maxSeek <= startPos /\ w \in Seq(Cells) /\ Len(w) = N
         /\ NotRotated' /\ (maxSeek \in fs..(N - 1) => InShort')
         /\ N <= maxSeek /\ N - fs <= r /\ r <= maxSeek
         /\ NotIn(Edge, startPos - fs)'
         /\ (r < maxSeek => z = N - fs /\ KeptAtEdge')
  BY <1>1, <1>10, <1>11, <1>15, <1>18, <1>19, Zenon
<1> QED
  BY <1>7, <1>20, <1>21, Zenon DEF BackInv, N, fs

LEMMA SearchBackStarts ==
  ASSUME FindInv, Habits = {}, NEW p \in 0..limit, NEW max \in 0..limit,
         Searchable(p, max), SearchCall("reverse", p, max)
  PROVE  BackInv'
<1>1. /\ max <= p /\ startPos' = p /\ maxSeek' = max /\ readPos' = 0 /\ readSize' = FindSize /\ bufPos' = 0
      /\ window' = [i \in 1..FindSize |-> Junk] /\ UNCHANGED <<buffer, limit>>
  BY DEF SearchCall
<1>2. /\ \A q \in 0..(limit - fs) : SubSeq(buffer, q + 1, q + fs) \notin Rotations
      /\ (max \in fs..(FindSize - 1) => \E q \in (p - max)..(p - fs) : MatchAt(Contents, q))
  BY DEF Searchable
<1> DEFINE w == [i \in 1..FindSize |-> Junk]
<1>3. w \in Seq(Cells) /\ Len(w) = FindSize
  <2>1. FindSize \in Nat /\ Junk \in Cells
    BY PatternType DEF Cells
  <2>2. w \in [1..FindSize -> Cells]
    BY <2>1
  <2> QED
    BY <2>1, <2>2, SeqDef, LenProperties
<1>4. NotRotated' /\ (max \in fs..(FindSize - 1) => InShort')
  BY <1>1, <1>2 DEF NotRotated, InShort, MatchAt, Contents, Rotations, fs
<1> QED
  BY <1>1, <1>3, <1>4 DEF BackInv, fs

LEMMA BackStepKeeps ==
  ASSUME Habits = {}, ReverseInv, [Next]_vars
  PROVE  ReverseInv'
<1>1. SUFFICES BackInv'
  BY StepKeeps DEF ReverseInv
<1>2. CASE search = "none" /\ NextMem /\ UNCHANGED <<search, startPos, maxSeek, readPos, readSize, bufPos, window>>
  BY <1>2 DEF BackInv
<1>3. ASSUME NEW p \in 0..limit, NEW max \in 0..(limit + 1), SearchCall("find", p, max) PROVE BackInv'
  BY <1>3 DEF SearchCall, BackInv
<1>4. ASSUME NEW p \in 0..limit, NEW max \in 0..limit, Searchable(p, max), SearchCall("reverse", p, max) PROVE BackInv'
  BY <1>4, SearchBackStarts DEF ReverseInv
<1>5. CASE FindLoop
  BY <1>5, FindTurn DEF BackInv, Ends
<1>6. CASE ReverseLoop
  <2>1. CASE search' = "none"
    BY <2>1 DEF BackInv
  <2>2. CASE search' # "none"
    <3>1. \A p : ~Ends(p)
      BY <2>2 DEF Ends
    <3> QED
      BY <1>6, <3>1, ReverseTurn, GoesOnBack
  <2> QED
    BY <2>1, <2>2
<1>7. CASE UNCHANGED vars
  <2>1. UNCHANGED <<buffer, limit, search, startPos, maxSeek, readPos, readSize, bufPos, window>>
    BY <1>7 DEF vars, memStreamVars, memVars, findVars
  <2>2. NotRotated' = NotRotated /\ InShort' = InShort /\ Edge' = Edge
    BY <2>1 DEF NotRotated, InShort, MatchAt, Contents, Rotations, Edge, fs
  <2>3. KeptAtEdge' = KeptAtEdge
    BY <2>1, <2>2 DEF KeptAtEdge, fs
  <2>4. NotIn(Edge, startPos - fs)' = NotIn(Edge, startPos - fs)
    BY <2>1, <2>2 DEF NotIn, PatternIn, fs
  <2> QED
    BY <2>1, <2>2, <2>3, <2>4 DEF ReverseInv, BackInv, fs
<1> QED
  BY <1>2, <1>3, <1>4, <1>5, <1>6, <1>7, Zenon DEF Next

\* A search backwards stops at the last occurrence that ends where the stream stood, and goes there,
\* and it only fails when there is none: what a turn keeps of the one before joins what it reads, and
\* misses nothing between two windows (mz_stream_find_reverse).  It holds where the contents do not
\* hold the pattern rotated, and less than a window is searched for what is there.
THEOREM FindsLastAlways ==
  ASSUME Habits = {}
  PROVE  Spec => FindsLast
<1> DEFINE Last ==
      search = "reverse" /\ search' = "none" =>
        IF SoughtBack = {} THEN found' = -1
        ELSE found' \in SoughtBack /\ (\A p \in SoughtBack : p <= found') /\ position' = found'
<1>1. ReverseInv /\ [Next]_vars => [Last]_vars
  <2> SUFFICES ASSUME ReverseInv, [Next]_vars, search = "reverse", search' = "none" PROVE Last
    BY Zenon
  <2>1. ReverseLoop
    <3>1. ~UNCHANGED vars
      BY DEF vars, findVars
    <3>2. \A kind, p, max : ~SearchCall(kind, p, max)
      BY DEF SearchCall
    <3>3. ~FindLoop
      BY FindTurn
    <3> QED
      BY <3>1, <3>2, <3>3, Zenon DEF Next
  <2>2. found = -1
    BY DEF ReverseInv, FindInv, SearchTypes
  <2>3. CASE found' = found /\ \/ readPos >= maxSeek \/ FromBack < 0 \/ ChunkBack = <<>> \/ InWindow < fs
                               \/ HitsBack = {} /\ Len(ChunkBack) = LessBack
    BY <2>2, <2>3, NoneLeft
  <2>4. CASE /\ readPos < maxSeek /\ HitsBack # {}
             /\ Ends(FromBack + Len(ChunkBack) + bufPos - LeastOf(HitsBack))
             /\ found' = startPos - (readPos - bufPos + LeastOf(HitsBack))
    <3> DEFINE q == Top - LeastOf(HitsBack)
    <3>1. q \in SoughtBack /\ \A x \in SoughtBack : x <= q
      BY <2>4, LastIsLast
    <3>2. FromBack + Len(ChunkBack) + bufPos - LeastOf(HitsBack) = q /\ found' = q
      BY <2>4, LastIsLast
    <3> HIDE DEF q
    <3>3. position' = q
      BY <2>4, <3>2 DEF Ends
    <3> QED
      BY <3>1, <3>2, <3>3
  <2> QED
    BY <2>1, <2>3, <2>4, ReverseTurn
<1>2. ReverseInv /\ [Next]_vars =>
        [ LET places == {p \in (startPos - maxSeek)..(startPos - fs) : MatchAt(Contents, p)} IN
          search = "reverse" /\ search' = "none" =>
            IF places = {} THEN found' = -1
            ELSE found' \in places /\ (\A p \in places : p <= found') /\ position' = found' ]_vars
  BY <1>1 DEF SoughtBack
<1>3. Init => ReverseInv
  <2>1. Init => search = "none"
    BY DEF Init, InitFind
  <2> QED
    BY <2>1, InitKeeps DEF ReverseInv, BackInv
<1>4. ReverseInv /\ [Next]_vars => ReverseInv'
  BY BackStepKeeps
<1> QED
  BY <1>2, <1>3, <1>4, PTL DEF Spec, FindsLast

=============================================================================
