------------------------------ MODULE EntryStreams ------------------------------
(***************************************************************************)
(* An entry between its local header and its data descriptor: the stack of *)
(* streams that mz_zip_entry_open_int builds for writing and for reading   *)
(* it (src/mz_zip.c), with the streams of CryptStreams and                 *)
(* CompressStreams.  base is the archive from the entry's data on.         *)
(*                                                                         *)
(* One entry is written, its bytes may be damaged, and it is read as often *)
(* as the caller likes, in pieces of any size.                             *)
(***************************************************************************)
EXTENDS CompressStreams, TLC

CONSTANTS
  Methods,   \* MZ_COMPRESS_METHOD_*: "store", "deflate", "bzip2", "lzma", "zstd"
  Kinds,     \* encryption: "none", "pk", "aes"
  Keys,      \* passwords; the entry is encrypted with Right
  Right,
  MaxData,   \* bound: tokens in the entry
  MaxIO,     \* bound: tokens of one read or write
  Rooms,     \* bound: tokens after which the disk may be full
  Habits     \* what happens besides, see EntryHabits

EntryHabits == {
  "no CRC at open",  \* PKWARE encryption, no data descriptor, CRC not known before the data
  "disk full",       \* the disk fills under an entry without a data descriptor
  "bzip2 endless",   \* the end of an entry compressed by bzip2 is missing
  "short is whole"}  \* ... or one that is stored, or compressed by zstd

ASSUME EntryAssumption ==
  /\ Right \in Keys /\ Nil \notin Keys
  /\ MaxData \in Nat /\ MaxIO \in Nat \ {0} /\ Rooms \subseteq Nat /\ ZBuf \in Nat \ {0, 1}
  /\ Habits \subseteq EntryHabits

VARIABLES
  base,   \* the archive, from the entry's data on
  room,   \* tokens the disk takes more
  pos,    \* position in it
  mode,   \* "new", "write", "closed", "failed", "read"
  info,   \* file_info
  crypt,  \* crypt_stream
  comp,   \* compress_stream
  raw,    \* entry_raw
  crc,    \* entry_crc32: the tokens it was computed from
  call,   \* the call whose loop runs: [op, n, todo, got]; tick changes with every turn
  damage, \* history: what became of the entry's bytes
  given,  \* history: how many tokens were written
  good,   \* history: every write said it wrote all it was given
  got,    \* history: what the reads delivered since the entry was opened
  ended,  \* history: the last read returned 0
  last    \* history: the call that ended last

vars == <<base, room, pos, mode, info, crypt, comp, raw, crc, call, damage, given, good, got, ended, last>>

NoCall == [op |-> "none", todo |-> <<>>, n |-> 0, got |-> <<>>, tick |-> 0]
Ticked == [call EXCEPT !.tick = 1 - @]
NoInfo == [method |-> "store", kind |-> "none", descriptor |-> FALSE, verify |-> <<>>,
           crc |-> <<>>, csize |-> 0, usize |-> 0]
NoResult == [op |-> "none", err |-> "ok"]
Tokens(from, n) == [i \in 1..n |-> Data(from + i)]
Encrypted == info.kind # "none"
Ended(op, err) == last' = [op |-> op, err |-> err]

Init ==
  /\ base = <<>> /\ pos = 0 /\ mode = "new" /\ info = NoInfo /\ room = 0
  /\ crypt = CryptStream("none", Nil) /\ comp = CompressStream("store") /\ raw = FALSE
  /\ crc = <<>> /\ call = NoCall
  /\ damage = "none" /\ given = 0 /\ good = TRUE /\ got = <<>> /\ ended = FALSE
  /\ last = NoResult

-----------------------------------------------------------------------------
(* Writing *)

\* mz_zip_get_pk_verify: what verifies a PKWARE password, the date or, if there is no data
\* descriptor, the CRC.
PkVerify(descriptor, sum) == IF descriptor THEN <<>> ELSE sum

\* mz_zip_entry_write_open and mz_zip_entry_open_int.  The caller has set the CRC: sum.
\* Bound: the disk fills after r tokens, or not at all.
Unlimited == 4 * (MaxData + ZBuf + 4)
OpenWrite(m, k, d, r, sum) ==
  /\ mode = "new" /\ mode' = "write"
  /\ \E magic \in {Encoded(CryptStream(k, Right), StreamMagic(m))} :
     \E written \in {CryptHeader(k, Right, PkVerify(d, sum)) \o magic.s} :
     /\ r >= Len(written)
     /\ d \/ m = "store" \/ r = Unlimited \/ "disk full" \in Habits
     /\ info' = [NoInfo EXCEPT !.method = m, !.kind = k, !.descriptor = d, !.verify = PkVerify(d, sum)]
     /\ base' = written /\ room' = r - Len(written)
     /\ crypt' = [magic.c EXCEPT !.out = Len(written)]
     /\ comp' = [CompressStream(m) EXCEPT !.out = Len(StreamMagic(m))]
     /\ UNCHANGED <<pos, raw, crc, call, damage, given, good, got, ended, last>>

\* mz_zip_entry_write: to mz_stream_raw_write or mz_stream_zlib_write and its like.
Written(n) == IF n > 0 THEN crc' = crc \o Tokens(given, n) ELSE UNCHANGED crc
Write(n) ==
  /\ mode = "write" /\ call = NoCall /\ given + n <= MaxData
  /\ IF info.method = "store"
     THEN \E w \in {CryptWrite(crypt, Tokens(given, n), room)} : \E k \in {Len(w.s)} :
             /\ crypt' = w.c /\ base' = base \o w.s /\ room' = room - k
             /\ comp' = [comp EXCEPT !.in = @ + k, !.out = @ + k]
             /\ Written(k) /\ good' = (good /\ k = n) /\ given' = given + n
             /\ UNCHANGED call
     ELSE /\ call' = [NoCall EXCEPT !.op = "write", !.n = n, !.todo = Tokens(given, n)]
          /\ UNCHANGED <<crypt, base, room, comp, crc, good, given>>
  /\ UNCHANGED <<pos, mode, info, raw, damage, got, ended, last>>

\* A turn of the loop of a write, or of the close, which does not ask how it went.
Turned(t) == /\ crypt' = t.c /\ base' = base \o t.s /\ room' = room - Len(t.s)
WriteTurn ==
  /\ call.op = "write"
  /\ \E t \in {DeflateTurn(comp, crypt, call.todo, FALSE, room)}, done \in BOOLEAN :
     /\ done = (t.fails \/ ~t.more) /\ Turned(t)
     /\ comp' = IF done /\ ~t.fails THEN [t.z EXCEPT !.in = @ + call.n] ELSE t.z
     /\ call' = IF done THEN NoCall ELSE [Ticked EXCEPT !.todo = t.todo]
     /\ IF done THEN /\ (IF t.fails THEN UNCHANGED crc ELSE Written(call.n))
                     /\ good' = (good /\ ~t.fails) /\ given' = given + call.n
        ELSE UNCHANGED <<crc, good, given>>
     /\ UNCHANGED <<pos, mode, info, raw, damage, got, ended, last>>

\* mz_zip_entry_write_close calls mz_stream_zlib_close or its like ...  The CRC that was set was
\* the right one, if it mattered.
CloseWrite ==
  /\ mode = "write" /\ call = NoCall
  /\ (info.kind = "pk" /\ "no CRC at open" \notin Habits) => info.verify = PkVerify(info.descriptor, Tokens(0, given))
  /\ call' = [NoCall EXCEPT !.op = IF info.method = "store" THEN "closed" ELSE "finish"]
  /\ UNCHANGED <<base, room, pos, mode, info, crypt, comp, raw, crc, damage, given, good, got, ended, last>>
FinishTurn ==
  /\ call.op = "finish"
  /\ \E t \in {DeflateTurn(comp, crypt, <<>>, TRUE, room)} : \E w \in {CryptWrite(t.c, FlushOf(t.z), room - Len(t.s))} :
     /\ IF t.fails \/ ~t.more
        THEN /\ crypt' = w.c /\ base' = base \o t.s \o w.s /\ room' = room - Len(t.s \o w.s)
             /\ comp' = AfterFlush(t.z) /\ call' = [call EXCEPT !.op = "closed"]
        ELSE Turned(t) /\ comp' = t.z /\ call' = Ticked
     /\ UNCHANGED <<pos, mode, info, raw, crc, damage, given, good, got, ended, last>>

\* ... takes the sizes from the streams, closes an encryption stream, and writes the
\* descriptor.  Then the record in the central directory has them.
\* Mutant: the compressed size is that of the compression stream.
CompSize(c, z) == z.out
SizeOf(c, z)   == IF Encrypted THEN c.out + Len(CryptFooter(c)) ELSE z.out
Descriptor(i)  == [descriptor |-> <<i.crc, i.csize, i.usize>>]
WriteClosed ==
  LET i == [info EXCEPT !.crc = crc, !.csize = SizeOf(crypt, comp), !.usize = comp.in]
      tail == CryptFooter(crypt) \o (IF info.descriptor THEN <<Descriptor(i)>> ELSE <<>>)
      ok   == Len(tail) <= room
  IN /\ call.op = "closed" /\ mode = "write" /\ call' = NoCall
     /\ info' = i /\ base' = base \o SubSeq(tail, 1, Lower(room, Len(tail)))
     /\ room' = room - Lower(room, Len(tail))
     /\ mode' = IF ok THEN "closed" ELSE "failed"
     /\ Ended("write close", IF ok THEN "ok" ELSE "write")
     /\ UNCHANGED <<pos, crypt, comp, raw, crc, damage, given, good, got, ended>>

-----------------------------------------------------------------------------
(* Reading *)

\* Between writing and reading a token changes, or the archive ends early.  External.
Damage ==
  /\ mode = "closed" /\ damage = "none" /\ good
  /\ \/ \E i \in 1..info.csize, t \in {Junk, JunkBlock} :
          /\ (info.method = "bzip2" /\ t = JunkBlock) => "bzip2 endless" \in Habits
          /\ base' = [base EXCEPT ![i] = t] /\ damage' = "altered"
     \/ /\ \/ info.method \in {"deflate", "lzma"}
           \/ info.method = "bzip2" /\ "bzip2 endless" \in Habits
           \/ info.method \in {"store", "zstd"} /\ "short is whole" \in Habits
        /\ \E n \in 0..(info.csize - 1) : base' = SubSeq(base, 1, n) /\ damage' = "cut"
  /\ UNCHANGED <<room, pos, mode, info, crypt, comp, raw, crc, call, given, good, got, ended, last>>

\* mz_zip_entry_read_open and mz_zip_entry_open_int: an encryption stream only with a
\* password, the limits of both streams, and the sizes of its header and footer.
LimitOf(k) == info.csize - HeaderSize(k) - FooterSize(k)
OpenRead(password, r) ==
  LET says(err) == last' = [op |-> "open", err |-> err, right |-> password = Right]
      k    == IF Encrypted /\ password # Nil THEN info.kind ELSE "none"
      m    == IF r THEN "store" ELSE info.method
      c0   == CryptStream(k, password)
      size == HeaderSize(k)
      open == IF m = "store" \/ Encrypted THEN [c0 EXCEPT !.max = info.csize] ELSE c0
      lim  == CASE info.method \in {"lzma", "zstd"} -> info.csize
                [] OTHER -> IF m = "store" \/ Encrypted THEN LimitOf(k) ELSE 0
  IN /\ mode = "closed" /\ good /\ (password # Nil => Encrypted)
     /\ \E err \in CryptOpens(k, base, password, PkVerify(info.descriptor, info.crc)) :
          IF err # "ok" THEN says(err) /\ UNCHANGED <<mode, crypt, comp, raw, crc, got, ended, pos>>
          ELSE \E x \in {CryptRead([open EXCEPT !.in = size], base, size, Len(StreamMagic(m)))} :
                  /\ mode' = "read" /\ raw' = r /\ says("ok")
                  /\ crypt' = x.c /\ pos' = x.pos
                  /\ comp' = [CompressStream(m) EXCEPT !.max = lim, !.in = Len(StreamMagic(m))]
                  /\ crc' = <<>> /\ got' = <<>> /\ ended' = FALSE
     /\ UNCHANGED <<base, room, info, call, damage, given, good>>

\* What mz_zip_entry_read does with what the stream delivers.
Delivered(s) == /\ got' = got \o s /\ crc' = crc \o s /\ ended' = (s = <<>>)
                /\ Ended("read", "ok") /\ call' = NoCall
ReadFails(e) == Ended("read", e) /\ call' = NoCall /\ ended' = FALSE /\ UNCHANGED <<got, crc>>

\* mz_zip_entry_read: from mz_stream_raw_read, or mz_stream_zlib_read and its like, where bzip2
\* remembers the end.
Read(n) ==
  /\ mode = "read" /\ call = NoCall
  /\ CASE info.csize = 0 \/ (comp.method = "bzip2" /\ comp.end) ->
            Delivered(<<>>) /\ UNCHANGED <<crypt, comp, pos>>
       [] info.csize > 0 /\ comp.method = "store" ->
            \E x \in {CryptRead(crypt, base, pos, RawWants(comp, n))} :
               /\ crypt' = x.c /\ pos' = x.pos /\ Delivered(x.s)
               /\ comp' = [comp EXCEPT !.in = @ + Len(x.s), !.out = @ + Len(x.s)]
       [] OTHER -> /\ call' = [NoCall EXCEPT !.op = "read", !.n = n]
                   /\ UNCHANGED <<crypt, comp, pos, got, crc, ended, last>>
  /\ UNCHANGED <<base, room, mode, info, raw, damage, given, good>>
ReadTurn ==
  /\ call.op = "read"
  /\ \E t \in {InflateTurn(comp, crypt, base, pos, call.n - Len(call.got), eager) : eager \in BOOLEAN} :
     LET all == call.got \o t.got
     IN
       /\ crypt' = t.c /\ comp' = t.z /\ pos' = t.pos
       /\ IF t.says = "go on" THEN call' = [Ticked EXCEPT !.got = all] /\ UNCHANGED <<got, crc, ended, last>>
          ELSE IF t.z.err # "ok" THEN ReadFails(t.z.err) ELSE Delivered(all)
       /\ UNCHANGED <<base, room, mode, info, raw, damage, given, good>>

\* mz_zip_entry_read_close.  With outputs it seeks to the descriptor behind what the compression
\* stream took in.  The CRC is compared if that stream took in everything.
\* Mutant: the CRC is not compared.
CrcUnread(z)   == FALSE
DescriptorAt(z) == z.in
AllRead(z)     == z.in = info.csize
CloseRead(outputs) ==
  LET seen   == info.descriptor /\ outputs
      here   == DescriptorAt(comp) < Len(base) /\ "descriptor" \in DOMAIN base[DescriptorAt(comp) + 1]
      values == IF seen /\ here THEN base[DescriptorAt(comp) + 1].descriptor ELSE <<info.crc, info.csize, info.usize>>
      err    == CASE seen /\ ~here -> "format"
                  [] OTHER -> IF AllRead(comp) /\ ~raw /\ crc # info.crc THEN "crc" ELSE "ok"
  IN /\ mode = "read" /\ call = NoCall /\ mode' = "closed"
     /\ last' = [op |-> "read close", err |-> err, values |-> values, outputs |-> outputs,
                 ended |-> ended, raw |-> raw, kind |-> crypt.kind, data |-> got]
     /\ pos' = 0 /\ got' = <<>> /\ ended' = FALSE /\ crc' = <<>> /\ raw' = FALSE
     /\ crypt' = CryptStream("none", Nil) /\ comp' = CompressStream("store")
     /\ UNCHANGED <<base, room, info, call, damage, given, good>>

Turn == WriteTurn \/ FinishTurn \/ WriteClosed \/ ReadTurn
Next ==
  \/ \E m \in Methods, k \in Kinds, d \in BOOLEAN, r \in Rooms \cup {Unlimited}, n \in 0..MaxData :
       /\ (k = "pk" /\ ~d) \/ n = 0
       /\ OpenWrite(m, k, d, r, Tokens(0, n))
  \/ \E n \in 1..MaxIO : Write(n)
  \/ CloseWrite
  \/ Damage
  \/ \E p \in Keys \cup {Nil}, r \in BOOLEAN : OpenRead(p, r)
  \/ \E n \in 1..MaxIO : Read(n)
  \/ \E o \in BOOLEAN : CloseRead(o)
  \/ Turn

Spec == Init /\ [][Next]_vars

-----------------------------------------------------------------------------
(* Properties *)

Stored == SubSeq(base, 1, Lower(info.csize, Len(base)))
Whole  == Tokens(0, given)

\* The streams count what went through them, and nothing waits in a buffer after a call that has
\* none (mz_strm_zlib.c:48-61).
TypeOK ==
  /\ mode \in {"new", "write", "closed", "failed", "read"} /\ damage \in {"none", "altered", "cut"}
  /\ call.op \in {"none", "write", "finish", "closed", "read"}
  /\ Len(comp.queue) <= ZBuf /\ Len(comp.inbuf) <= ZBuf + 1 /\ Len(comp.held) <= 1
  /\ comp.in >= 0 /\ pos <= Len(base)
  /\ mode = "read" /\ (comp.method = "store" \/ Encrypted) => pos <= info.csize - FooterSize(crypt.kind)

\* An entry whose writes and whose close report success is in the archive, with the
\* sizes and the CRC of what was written (mz_zip.c:2134-2175).
SizesAreOfFile ==
  mode = "closed" /\ good /\ damage = "none" =>
    /\ Len(base) = info.csize + (IF info.descriptor THEN 1 ELSE 0)
    /\ info.usize = given /\ info.crc = Whole

\* Read raw, without a password, an entry yields the bytes in the archive, as
\* mz_zip_writer_copy_from_reader needs them (mz_zip_rw.c:1805).
RawDeliversStored ==
  mode = "read" /\ raw /\ crypt.kind = "none" /\ damage # "cut" =>
    IsPrefix(got, Stored) /\ (ended => got = Stored)

\* Its password opens an entry.  Read with it, in pieces of any size, the entry yields what was
\* written in pieces of any size, to its end and no further, and no error; read raw it yields
\* what is stored, and no stream reads beyond it (mz_zip.c:2036-2058).
DeliversEntry ==
  /\ TypeOK /\ RawDeliversStored
  /\ (last.op = "open" /\ damage = "none" /\ last.right) => last.err = "ok"
  /\ (mode = "read" /\ damage = "none" /\ ~raw /\ (Encrypted => crypt.key = Right)) =>
       IsPrefix(got, Whole) /\ (ended => got = Whole) /\ last.err = "ok"

\* Closed after it was read to its end the caller gets the descriptor of this entry,
\* also when the streams have read beyond it (mz_zip.c:2091-2115).
DescriptorIsFound ==
  last.op = "read close" /\ last.outputs /\ last.ended /\ damage = "none" /\ last.kind = "none"
    /\ (Encrypted => last.raw) =>
       last.err = "ok" /\ last.values = <<Whole, info.csize, given>>

\* A close that reports success tells the truth of an entry that was read to its end: its descriptor is
\* found, and data that are not encrypted are what was written (mz_zip.c:2091-2133).
AlteredIsNoticed ==
  /\ DescriptorIsFound
  /\ last.op = "read close" /\ last.err = "ok" /\ last.ended /\ ~last.raw /\ ~Encrypted => last.data = Whole

\* The same of an entry that is decrypted, which the authentication code and the CRC are for
\* (mz_zip.c:2047-2048, mz_strm_wzaes.c:255-266).
AlteredIsAlwaysNoticed ==
  last.op = "read close" /\ last.err = "ok" /\ last.ended /\ ~last.raw /\ (Encrypted => last.kind = info.kind) =>
    last.data = Whole

\* Every call returns, whatever the archive holds: each turn of its loop takes something from
\* what there is to read or to write, and what there is ends (mz_strm_zlib.c:133-176, 187-219).
LeftToDo ==
  CASE call.op \in {"write", "finish"} ->
         1 + 4 * Len(call.todo) + 2 * Len(comp.held) + (IF comp.started THEN 0 ELSE 1) + (IF comp.end THEN 0 ELSE 1)
    [] call.op = "read" ->
         2 * (Len(base) - pos + Len(comp.inbuf)) + Len(comp.pend) + call.n - Len(call.got)
    [] OTHER -> 0
TurnsAdvance == [][call.op # "none" /\ call'.op # "none" => LeftToDo' < LeftToDo]_vars
================================================================================
