------------------------------ MODULE CryptStreams ------------------------------
(***************************************************************************)
(* The streams between an entry and the archive it lies in, as operators   *)
(* on their state: mz_stream_raw (mz_strm.c), mz_stream_pkcrypt and        *)
(* mz_stream_wzaes.  Data are tokens.  An encrypted token tells the key    *)
(* and the state of the key stream it was made with, and nothing else      *)
(* decrypts it.                                                            *)
(***************************************************************************)
EXTENDS Integers, Sequences, SequencesExt

CONSTANT Nil  \* no password, no key

\* What a file is made of.  Every token is a record, and its field tells what it is.
Data(i)   == [data |-> i]
Junk      == [junk |-> 0]        \* not what anybody wrote, and not a compressed block
JunkBlock == [block |-> <<Data(0)>>] \* not what anybody wrote, but a compressed block
Cipher(key, state, t) == [key |-> key, state |-> state, of |-> t]

Lower(a, b) == IF a < b THEN a ELSE b

\* mz_stream_pkcrypt, mz_stream_wzaes or, for no encryption, mz_stream_raw.  hist is what went
\* through the key stream, mac what the authentication code is of.
CryptStream(kind, key) ==
  [kind |-> kind, key |-> key, in |-> 0, out |-> 0, max |-> 0, hist |-> <<>>, mac |-> <<>>]

\* MZ_STREAM_PROP_HEADER_SIZE and _FOOTER_SIZE, which mz_stream_raw does not have.
HeaderSize(kind) == CASE kind = "none" -> 0 [] kind = "pk" -> 1 [] kind = "aes" -> 2
FooterSize(kind) == IF kind = "aes" THEN 1 ELSE 0

\* The counter of the AES stream, and the keys of the PKWARE stream, which take in the plain text.
KeyState(c)  == IF c.kind = "aes" THEN Len(c.hist) ELSE c.hist
Decrypted(c, t) ==
  CASE t = JunkBlock -> t
    [] "key" \in DOMAIN t -> IF t.key = c.key /\ t.state = KeyState(c) THEN t.of ELSE Junk
    [] OTHER -> Junk

\* mz_stream_wzaes_ctr_encrypt and the loops of mz_stream_pkcrypt_read and _write.
Through(c, t, x) == [c EXCEPT !.hist = Append(@, t), !.mac = Append(@, x)]
RECURSIVE Encoded(_, _)
Encoded(c, s) ==
  IF c.kind = "none" \/ s = <<>> THEN [c |-> c, s |-> s]
  ELSE LET x == Cipher(c.key, KeyState(c), Head(s))
           rest == Encoded(Through(c, Head(s), x), Tail(s))
       IN [c |-> rest.c, s |-> <<x>> \o rest.s]
RECURSIVE Decoded(_, _)
Decoded(c, s) ==
  IF c.kind = "none" \/ s = <<>> THEN [c |-> c, s |-> s]
  ELSE LET t == Decrypted(c, Head(s))
           rest == Decoded(Through(c, t, Head(s)), Tail(s))
       IN [c |-> rest.c, s |-> <<t>> \o rest.s]

\* How many tokens a read asks the base for.
RawWants(c, n) == IF c.max > 0 THEN Lower(n, c.max - c.in) ELSE n
PkWants(c, n)  == Lower(n, c.max - c.in)
AesWants(c, n) == Lower(n, c.max - FooterSize("aes") - c.in)
Wants(c, n) ==
  CASE c.kind = "none" -> RawWants(c, n)
    [] c.kind = "pk"   -> PkWants(c, n)
    [] c.kind = "aes"  -> AesWants(c, n)

\* mz_stream_raw_read, _pkcrypt_read, _wzaes_read of n tokens at position pos of the base:
\* the stream, the tokens and the position afterwards.
CryptRead(c, base, pos, n) ==
  LET got == SubSeq(base, pos + 1, Lower(pos + Wants(c, n), Len(base)))
      d   == Decoded(c, got)
  IN [c |-> [d.c EXCEPT !.in = @ + Len(got)], s |-> d.s, pos |-> pos + Len(got)]

\* mz_stream_raw_write, _pkcrypt_write, _wzaes_write to a base that takes room tokens more: the
\* stream, and what the base took.  The stream counts what was taken.
RawWrite(c, s, room) ==
  [c |-> [c EXCEPT !.in = @ + Lower(Len(s), room), !.out = @ + Lower(Len(s), room)],
   s |-> SubSeq(s, 1, Lower(Len(s), room))]
CipherWrite(c, s, room) ==
  LET e == Encoded(c, s)
      w == SubSeq(e.s, 1, Lower(Len(s), room))
  IN [c |-> [e.c EXCEPT !.out = @ + Len(w)], s |-> w]
CryptWrite(c, s, room) ==
  IF c.kind = "none" THEN RawWrite(c, s, room) ELSE CipherWrite(c, s, room)

-----------------------------------------------------------------------------
(* Headers and footers *)

\* What mz_stream_pkcrypt_open and mz_stream_wzaes_open write before the data: the bytes that
\* verify the password, the PKWARE ones made of what verify holds.
PkHeader(key, verify) == <<Cipher(key, <<>>, [verify |-> verify])>>
AesHeader(key)        == <<[salt |-> key], [salted |-> key]>>
CryptHeader(kind, key, verify) ==
  CASE kind = "none" -> <<>>
    [] kind = "pk"   -> PkHeader(key, verify)
    [] kind = "aes"  -> AesHeader(key)

\* mz_stream_pkcrypt_open and mz_stream_wzaes_open for reading: one byte, or two, tell whether the
\* password is the right one, so a wrong one passes now and then.
PkOpens(base, key, verify) ==
  CASE Len(base) < 1 -> {"read"}
    [] Len(base) >= 1 /\ base[1] = PkHeader(key, verify)[1] -> {"ok"}
    [] OTHER -> {"ok", "password"}
AesOpens(base, key) ==
  CASE Len(base) < 2 -> {"read"}
    [] Len(base) >= 2 /\ SubSeq(base, 1, 2) = AesHeader(key) -> {"ok"}
    [] OTHER -> {"ok", "password"}
CryptOpens(kind, base, key, verify) ==
  CASE kind = "none" -> {"ok"}
    [] kind = "pk"   -> PkOpens(base, key, verify)
    [] kind = "aes"  -> AesOpens(base, key)

\* What the close of a written stream adds: the authentication code, of the encrypted data.
CryptFooter(c) == IF c.kind = "aes" THEN <<[auth |-> c.mac]>> ELSE <<>>
================================================================================
