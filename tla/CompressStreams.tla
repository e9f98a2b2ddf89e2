----------------------------- MODULE CompressStreams -----------------------------
(***************************************************************************)
(* The compression streams over an encryption stream: mz_stream_zlib,      *)
(* _bzip, _lzma and _zstd, as operators on their state.  The libraries     *)
(* below them pack two tokens into one block, and end with an empty block; *)
(* what differs between the four streams is what they do with what the     *)
(* library says.                                                           *)
(***************************************************************************)
EXTENDS CryptStreams

CONSTANT ZBuf  \* the size of the streams' own buffer

\* The state of a compression stream.  queue is its buffer when it writes, inbuf when it reads;
\* held and pend are inside the library, end and err what it said.  header: of an LZMA stream.
CompressStream(method) ==
  [method |-> method, in |-> 0, out |-> 0, max |-> 0, queue |-> <<>>, inbuf |-> <<>>,
   held |-> <<>>, pend |-> <<>>, end |-> FALSE, err |-> "ok", header |-> method = "lzma",
   started |-> FALSE]

Block(s) == [block |-> s]
Props    == [header |-> 1]  \* the properties of an LZMA stream,
NoSize   == [header |-> 2]  \* and its size, which a zip file does not have
Magic    == [header |-> 0]  \* what a zip file has instead

\* What mz_stream_lzma_open puts before everything else.
StreamMagic(method) == IF method = "lzma" THEN <<Magic>> ELSE <<>>

-----------------------------------------------------------------------------
(* Writing *)

\* The library takes what it has room for: two tokens a block.
\* At the end it gives what it holds, and says so.
Compressed(z, todo, room, finish) ==
  LET start == IF z.method = "lzma" /\ ~z.started THEN <<Props, NoSize>> ELSE <<>>
      free  == room - Len(start)
      takes == Lower(Len(todo), 2 * free + 1 - Len(z.held))
      all   == z.held \o SubSeq(todo, 1, takes)
      full  == Len(all) \div 2
      pairs == [i \in 1..full |-> Block(<<all[2 * i - 1], all[2 * i]>>)]
      odd   == SubSeq(all, 2 * full + 1, Len(all))
      left  == free - full
      rest  == (IF odd = <<>> THEN <<>> ELSE <<Block(odd)>>) \o <<Block(<<>>)>>
      last  == IF ~finish \/ takes < Len(todo) THEN <<>> ELSE SubSeq(rest, 1, Lower(left, Len(rest)))
      ended == last # <<>> /\ last[Len(last)] = Block(<<>>)
  IN [out  |-> start \o pairs \o last,
      todo |-> SubSeq(todo, takes + 1, Len(todo)),
      held |-> IF last # <<>> THEN <<>> ELSE odd,
      end  |-> ended]

\* mz_stream_zlib_flush and its like; that of LZMA leaves the size out.
\* Mutant: it leaves the size in.
FlushAll(z)    == z.queue
LzmaFlush(z)   == IF z.header THEN (IF Len(z.queue) < 2 THEN <<>> ELSE <<Props>> \o SubSeq(z.queue, 3, Len(z.queue)))
                  ELSE z.queue
FlushOf(z)     == IF z.method = "lzma" THEN LzmaFlush(z) ELSE z.queue
AfterFlush(z)  == [z EXCEPT !.out = IF z.header /\ Len(z.queue) >= 2 THEN @ - 1 ELSE @,
                            !.header = z.header /\ Len(z.queue) < 2]

\* One turn of mz_stream_zlib_deflate and its like: a full buffer goes to the base, which takes
\* room tokens, then the library is called.  f.c is the encryption stream.
DeflateTurn(z, c, todo, finish, room) ==
  LET full == Len(z.queue) = ZBuf
      w    == CryptWrite(c, FlushOf(z), room)
      base == IF full THEN w ELSE [c |-> c, s |-> <<>>]
      z1   == IF full THEN [AfterFlush(z) EXCEPT !.queue = <<>>] ELSE z
      lib  == Compressed(z1, todo, ZBuf - Len(z1.queue), finish)
      fails == full /\ Len(w.s) # Len(FlushOf(z))
  IN [fails |-> fails, c |-> base.c, s |-> base.s, todo |-> lib.todo,
      more  |-> lib.todo # <<>> \/ (finish /\ ~lib.end),
      z |-> IF fails THEN z
            ELSE [z1 EXCEPT !.queue = @ \o lib.out, !.out = @ + Len(lib.out), !.held = lib.held,
                            !.started = TRUE, !.end = lib.end]]

-----------------------------------------------------------------------------
(* Reading *)

\* The library decodes what it is given until there is no room for more; eager tells whether
\* it then looks at the end of the stream already.  a: what it has done so far.
Emit(a, s, room) ==
  LET all == a.out \o s
  IN [a EXCEPT !.out = SubSeq(all, 1, Lower(room, Len(all))), !.pend = SubSeq(all, room + 1, Len(all))]
RECURSIVE Decode(_, _, _, _)
Decode(a, s, room, eager) ==
  LET t    == Head(s)
      used == [a EXCEPT !.used = @ + 1]
      full == Len(a.out) = room
  IN CASE s = <<>> \/ a.end \/ a.pend # <<>> -> a
       [] OTHER ->
          CASE "header" \in DOMAIN t /\ a.lzma -> Decode(used, Tail(s), room, eager)
            [] "header" \in DOMAIN t /\ ~a.lzma -> [a EXCEPT !.bad = TRUE]
            [] {"header", "block"} \cap DOMAIN t = {} -> [a EXCEPT !.bad = TRUE]
            [] t = Block(<<>>) -> IF full /\ ~eager THEN a ELSE [used EXCEPT !.end = TRUE]
            [] OTHER -> IF full THEN a ELSE Decode(Emit(used, t.block, room), Tail(s), room, eager)
Decompressed(z, input, room, eager) ==
  Decode(Emit([out |-> <<>>, pend |-> <<>>, end |-> z.end, bad |-> FALSE, used |-> 0,
               lzma |-> z.method = "lzma"], z.pend, room), input, room, eager)

\* How many tokens a read of the stream asks its base for.  The first of an LZMA stream is its header.
Refill(z) ==
  LET want == IF z.max > 0 THEN Lower(ZBuf, z.max - z.in) ELSE ZBuf
  IN IF z.header THEN 1 ELSE want
\* ... which the library wants to be told the size behind.
Given(z, s) == IF z.header /\ s # <<>> THEN s \o <<NoSize>> ELSE s

\* What the four streams make of a turn that did not fill the caller's buffer: go on, return, or
\* an error.  idle: the library was given nothing, and gave nothing.
\* Mutant: a stream that ends early is waited for.
ZlibWaits(d, idle) == IF d.bad THEN "data" ELSE IF d.end THEN "return" ELSE "go on"
ZlibTurn(d, idle) == CASE d.bad -> "data" [] ~d.bad /\ d.end -> "return"
                       [] OTHER -> IF idle THEN "buf" ELSE "go on"
BzipTurn(d, idle) == IF d.bad THEN "data" ELSE IF d.end THEN "return" ELSE "go on"
LzmaTurn(d, idle) == IF d.bad \/ (idle /\ ~d.end) THEN "data" ELSE IF d.end THEN "return" ELSE "go on"
ZstdTurn(d, idle) == IF d.bad THEN "data" ELSE IF idle THEN "return" ELSE "go on"
TurnOf(method, d, idle) ==
  CASE method = "deflate" -> ZlibTurn(d, idle)
    [] method = "bzip2"   -> BzipTurn(d, idle)
    [] method = "lzma"    -> LzmaTurn(d, idle)
    [] method = "zstd"    -> ZstdTurn(d, idle)

\* One turn of mz_stream_zlib_read and its like, with room tokens of the caller's buffer left.
InflateTurn(z, c, base, pos, room, eager) ==
  LET r     == IF z.inbuf = <<>> THEN CryptRead(c, base, pos, Refill(z)) ELSE [c |-> c, s |-> <<>>, pos |-> pos]
      input == IF z.inbuf = <<>> THEN Given(z, r.s) ELSE z.inbuf
      d     == Decompressed(z, input, room, eager)
      size  == IF z.header /\ input # <<>> THEN 1 ELSE 0
      says  == TurnOf(z.method, d, input = <<>> /\ d.out = <<>>)
  IN [c |-> r.c, pos |-> r.pos, got |-> d.out,
      says |-> IF says = "go on" /\ Len(d.out) = room THEN "return" ELSE says,
      z |-> [z EXCEPT !.inbuf = SubSeq(input, d.used + 1, Len(input)), !.in = @ + d.used - size,
                      !.out = @ + Len(d.out), !.pend = d.pend, !.end = d.end,
                      !.header = z.header /\ input = <<>>,
                      !.err = IF says \in {"data", "buf"} THEN says ELSE @]]
================================================================================
