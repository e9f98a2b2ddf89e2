------------------------------- MODULE StreamFind -------------------------------
(***************************************************************************)
(* mz_stream_find and mz_stream_find_reverse of src/mz_strm.c, over a      *)
(* stream in memory: a window slides over the stream and keeps the last    *)
(* (first) bytes of what it held before.  mz_zip.c finds the end record    *)
(* and, in recovery, headers and descriptors with them.                    *)
(***************************************************************************)
EXTENDS MemStream

CONSTANTS
  Pattern,   \* what is sought
  MaxSought, \* bound: length of a stream that is only searched
  FindSize,  \* MZ_STREAM_FIND_SIZE
  Habits     \* "rotated pattern": the stream may hold the pattern's bytes rotated;
             \* "absent": less than a window may be searched backwards for what is not there

\* Patterns are of 4 bytes, and a window of 1024.
ASSUME FindAssumption ==
  /\ Pattern \in Seq(Bytes) /\ Len(Pattern) >= 1 /\ FindSize \in Nat
  /\ 2 * Len(Pattern) <= FindSize
  /\ Habits \subseteq {"rotated pattern", "absent"}

VARIABLES
  search,   \* "none", "find", "reverse"
  startPos, \* where the stream stood
  maxSeek,  \* max_seek
  readPos,  \* read_pos
  readSize, \* read_size
  bufPos,   \* buf_pos: what the window has kept of the previous one
  window,   \* buf
  found     \* *position, or -1

findVars == <<search, startPos, maxSeek, readPos, readSize, bufPos, window, found>>
vars == <<memStreamVars, findVars>>

fs == Len(Pattern)
MatchAt(s, p) == p >= 0 /\ p + fs <= Len(s) /\ SubSeq(s, p + 1, p + fs) = Pattern
LeastOf(S) == CHOOSE x \in S : \A y \in S : x <= y

InitFind ==
  /\ search = "none" /\ startPos = 0 /\ maxSeek = 0 /\ readPos = 0 /\ readSize = FindSize
  /\ bufPos = 0 /\ window = <<>> /\ found = -1

\* A search ends, with the stream at position p.
Ends(p) ==
  /\ search' = "none" /\ position' = p
  /\ startPos' = 0 /\ maxSeek' = 0
  /\ readPos' = 0 /\ readSize' = FindSize /\ bufPos' = 0 /\ window' = <<>>

\* The caller seeks to p before.
SearchCall(kind, p, max) ==
  /\ search = "none" /\ wanted = 0 /\ search' = kind
  /\ kind = "reverse" => max <= p  \* every caller sees to that
  /\ position' = p /\ startPos' = p /\ maxSeek' = max /\ readPos' = 0 /\ readSize' = FindSize
  /\ bufPos' = 0 /\ found' = -1
  /\ window' = IF kind = "find" THEN <<>> ELSE [i \in 1..FindSize |-> Junk]
  /\ UNCHANGED <<buffer, limit, grow, out, copyVars, ret>>

\* What the window keeps.  Mutant: one byte less than the pattern, but counted.
KeptShort(data) == SubSeq(data, Len(data) - fs + 2, Len(data))
Kept(data) == SubSeq(data, Len(data) - fs + 1, Len(data))

\* One turn of the loop of mz_stream_find; the window is what buf holds.
FindLoop ==
  LET size == Least(readSize, maxSeek - readPos - bufPos)
      data == window \o SubSeq(buffer, position + 1, position + Readable(size))
      hits == {i \in 0..(Len(data) - fs) : MatchAt(data, i)}
      at   == IF readPos < maxSeek THEN position + Readable(size) ELSE position
  IN /\ search = "find"
     /\ \/ /\ readPos >= maxSeek \/ size = 0 \/ Readable(size) = 0 \/ Len(data) < fs
           /\ Ends(at) /\ UNCHANGED found
        \/ /\ readPos < maxSeek /\ Readable(size) > 0 /\ hits # {}
           /\ Ends(at - (Len(data) - LeastOf(hits)))
           /\ found' = startPos + readPos + LeastOf(hits)
        \/ /\ readPos < maxSeek /\ Readable(size) > 0 /\ Len(data) >= fs /\ hits = {}
           /\ position' = at /\ window' = Kept(data) /\ bufPos' = fs
           /\ readPos' = readPos + Len(data) - fs
           /\ readSize' = IF bufPos = 0 THEN size - fs ELSE size
           /\ UNCHANGED <<search, startPos, maxSeek, found>>
     /\ UNCHANGED <<buffer, limit, grow, out, copyVars, ret>>

\* The places of the window where find_reverse looks, counted from its end; it takes the last.
\* Mutant: not at the very end.
PlacesInside(n) == (fs + 1)..n
Places(n)       == fs..n

\* How far read_pos moves.  Mutant: it does not.
Standstill(n, less) == 0
Advance(n, less)    == n - less

\* One turn of the loop of mz_stream_find_reverse.  What was read goes to the end of buf, in
\* front of what was kept; i counts from the end of buf.
ReverseLoop ==
  LET size  == Least(readSize, maxSeek - readPos)
      from  == startPos - (readPos + size)
      chunk == SubSeq(buffer, from + 1, Least(from + size, limit))
      n     == Len(chunk) + bufPos
      read  == Overlay(window, 0, chunk)
      buf   == IF n < FindSize THEN Overlay(read, FindSize - n, chunk) ELSE read
      hits  == {i \in Places(n) : MatchAt(buf, FindSize - i)}
      less  == IF bufPos = 0 THEN fs ELSE 0
  IN /\ search = "reverse"
     /\ \/ /\ readPos >= maxSeek \/ from < 0 \/ chunk = <<>> \/ n < fs
           /\ Ends(IF readPos < maxSeek /\ from >= 0 THEN from + Len(chunk) ELSE position)
           /\ UNCHANGED found
        \/ /\ readPos < maxSeek /\ from >= 0 /\ chunk # <<>> /\ hits # {}
           /\ Ends(from + Len(chunk) + bufPos - LeastOf(hits))
           /\ found' = startPos - (readPos - bufPos + LeastOf(hits))
        \/ /\ readPos < maxSeek /\ from >= 0 /\ chunk # <<>> /\ n >= fs /\ hits = {}
           /\ Len(chunk) = less /\ Ends(from + Len(chunk)) /\ UNCHANGED found
        \/ /\ readPos < maxSeek /\ from >= 0 /\ chunk # <<>> /\ n >= fs /\ hits = {}
           /\ Len(chunk) # less
           /\ readPos' = readPos + Advance(Len(chunk), less)
           /\ readSize' = size - less /\ bufPos' = fs
           /\ window' = Overlay(buf, readSize', SubSeq(buf, 1, fs))
           /\ position' = from + Len(chunk)
           /\ UNCHANGED <<search, startPos, maxSeek, found>>
     /\ UNCHANGED <<buffer, limit, grow, out, copyVars, ret>>

Init == InitMem(MaxSought) /\ InitFind

\* Where a pattern may be sought backwards: the contents hold it or not, but not rotated, and
\* in less than a window they do, unless that is a habit.
Rotations == {SubSeq(Pattern, k + 1, fs) \o SubSeq(Pattern, 1, k) : k \in 1..(fs - 1)} \ {Pattern}
Searchable(p, max) ==
  /\ \/ "rotated pattern" \in Habits
     \/ \A q \in 0..(limit - fs) : SubSeq(buffer, q + 1, q + fs) \notin Rotations
  /\ \/ "absent" \in Habits \/ max \notin fs..(FindSize - 1)
     \/ \E q \in (p - max)..(p - fs) : MatchAt(Contents, q)

Next ==
  \/ search = "none" /\ NextMem /\ found' = -1
     /\ UNCHANGED <<search, startPos, maxSeek, readPos, readSize, bufPos, window>>
  \/ \E p \in 0..limit, max \in 0..(limit + 1) : SearchCall("find", p, max)
  \/ \E p \in 0..limit, max \in 0..limit : Searchable(p, max) /\ SearchCall("reverse", p, max)
  \/ FindLoop
  \/ ReverseLoop

\* A copy or a search comes to its end: nothing in their loops waits.
Spec ==
  Init /\ [][Next]_vars /\ WF_memStreamVars(CopyLoop) /\ WF_vars(FindLoop) /\ WF_vars(ReverseLoop)

-----------------------------------------------------------------------------
(* Properties *)

\* find stops at the first occurrence within the first max_seek bytes, and misses none: those
\* that lie across two windows are found, and found once.
FindsFirst ==
  [][ LET places == {p \in startPos..(startPos + maxSeek - fs) : MatchAt(Contents, p)} IN
      search = "find" /\ search' = "none" =>
        IF places = {} THEN found' = -1
        ELSE found' = LeastOf(places) /\ position' = found' ]_vars

\* find_reverse stops at the last occurrence that ends where the stream stood, and misses none.
FindsLast ==
  [][ LET places == {p \in (startPos - maxSeek)..(startPos - fs) : MatchAt(Contents, p)} IN
      search = "reverse" /\ search' = "none" =>
        IF places = {} THEN found' = -1
        ELSE found' \in places /\ (\A p \in places : p <= found') /\ position' = found' ]_vars

\* A search returns, and so does a copy.
CallsReturn == (search # "none" \/ wanted > 0) ~> (search = "none" /\ wanted = 0)
=============================================================================
