-------------------------- MODULE ZipWriter_proofs --------------------------
(***************************************************************************)
(* Theorems about ZipReader and ZipWriter, for every value of their        *)
(* constants and any number of sessions: the types; that a reader is shown *)
(* what a writer was given; that a save which reports success has saved.   *)
(***************************************************************************)
EXTENDS ZipWriter, SequenceTheorems, TLAPS

Numbers == INSTANCE Overlays_proofs

-----------------------------------------------------------------------------
(* The reader: its fields, and closing an entry *)

\* The fields of a reader, and of the entry it has open.
RdFields == {"open", "path", "list", "at", "info", "entry", "hash", "cdZipped", "opts"}
EnFields == {"i", "e", "data", "fails", "pos", "eof", "raw", "crypt"}

\* r2 is r but for what a call may change of the open entry.
SamePlace(r2, r) ==
  /\ DOMAIN r2 = RdFields
  /\ r2.open = r.open /\ r2.path = r.path /\ r2.list = r.list /\ r2.at = r.at
  /\ r2.info = r.info /\ r2.opts = r.opts

\* An entry that is closed is gone, with its hash; the reader stays where it is.
LEMMA EntryClosedIs ==
  ASSUME NEW r, DOMAIN r = RdFields, NEW c \in EntryClosed(r)
  PROVE  SamePlace(c.r, r) /\ c.r.entry = NoEntry /\ c.r.hash = Nil
<1>1. PICK h \in HashErr(r.hash, r.entry.e), err \in ZipClosed(r) :
        c = [r |-> [r EXCEPT !.entry = NoEntry, !.hash = Nil], err |-> IF h = "ok" THEN err ELSE h]
  BY Zenon DEF EntryClosed
<1>2. c.r = [r EXCEPT !.entry = NoEntry, !.hash = Nil]
  BY <1>1
<1> QED
  BY <1>2 DEF SamePlace, RdFields

\* Closing the entry that is open without an error: its data were compared with what they should be.
Compared(en, e) == en.eof /\ ~en.fails /\ ~en.raw /\ ~en.crypt /\ en.pos = Len(en.data)

\* Closing it without an error: it was compared with its CRC, if all was read in the clear, and its hash.
LEMMA EntryClosedOk ==
  ASSUME NEW r, DOMAIN r = RdFields, NEW c \in EntryClosed(r), c.err = "ok"
  PROVE  /\ Compared(r.entry, r.entry.e) => SubSeq(r.entry.data, 1, r.entry.pos) = r.entry.e.crc
         /\ r.hash # Nil => r.entry.e.hash \in {Nil, Unknown, r.hash}
<1>1. PICK h \in HashErr(r.hash, r.entry.e), err \in ZipClosed(r) :
        c = [r |-> [r EXCEPT !.entry = NoEntry, !.hash = Nil], err |-> IF h = "ok" THEN err ELSE h]
  BY Zenon DEF EntryClosed
<1>2. h = "ok" /\ err = "ok"
  BY <1>1 DEF HashErr
<1>3. PICK all \in Consumed(r.entry.e, r.entry) :
        err = IF all /\ ~r.entry.raw /\ SubSeq(r.entry.data, 1, r.entry.pos) # r.entry.e.crc
              THEN "crc" ELSE "ok"
  BY DEF ZipClosed
<1>4. Compared(r.entry, r.entry.e) => SubSeq(r.entry.data, 1, r.entry.pos) = r.entry.e.crc
  <2> HAVE Compared(r.entry, r.entry.e)
  <2>1. ~r.entry.raw
    BY DEF Compared
  <2>2. all = TRUE
    BY DEF Compared, Consumed
  <2> QED
    BY <1>2, <1>3, <2>1, <2>2
<1>5. r.hash # Nil => r.entry.e.hash \in {Nil, Unknown, r.hash}
  BY <1>2 DEF HashErr
<1> QED
  BY <1>4, <1>5

-----------------------------------------------------------------------------
(* What an archive holds *)

\* An entry that holds a compressed directory, and any that may be stored.
Zipped == EntriesOf({CdName}, Seq(Plain))
Listed == Plain \cup Zipped

\* The fields of an entry that an archive holds.
LEMMA ListedFields ==
  ASSUME NEW e \in Listed
  PROVE  /\ e.body \in Body /\ e.crc \in Body /\ e.hash \in Body \cup {Nil, Unknown}
         /\ e.packed \in BOOLEAN /\ (e.packed => e.body \in Seq(Data))
         /\ e.method \in {"store", "deflate"} /\ e.dir \in Seq(Plain)
         /\ e.key \in {Nil, Key} /\ e.name \in Names \cup {CdName}
         /\ e.kind \in {"file", "dir", "link"}
<1>1. CASE e \in Plain
  <2>1. <<>> \in Seq(Plain)
    OBVIOUS
  <2> HIDE DEF Plain
  <2>2. e \in EntriesOf(Names, {<<>>})
    BY <1>1 DEF Plain
  <2> QED
    BY <2>1, <2>2 DEF EntriesOf
<1>2. CASE e \in Zipped
  BY <1>2 DEF Zipped, EntriesOf
<1> QED
  BY <1>1, <1>2 DEF Listed

\* Data are bodies, and bodies are sequences, which are no hash that is missing.
LEMMA BodyFacts ==
  /\ Data \subseteq Body /\ <<>> \in Data /\ <<>> \in Body
  /\ \A s \in Body : Len(s) \in Nat /\ s # Nil /\ s # Unknown
  /\ \A s \in Body : \A i \in 0..Len(s) : SubSeq(s, 1, i) \in Body
  /\ \A s, t \in Body : s \o t \in Body
<1>1. Data \subseteq Body
  BY DEF Data, Body
<1>2. \A s \in Body : s # Nil /\ s # Unknown
  BY ReaderAssumption, Zenon
<1>3. \A s, t \in Body : s \o t \in Body
  BY ConcatProperties DEF Body
<1>4. \A s \in Body : \A i \in 0..Len(s) : SubSeq(s, 1, i) \in Body
  <2> TAKE s \in Body
  <2> TAKE i \in 0..Len(s)
  <2>1. \A k \in 1..i : s[k] \in Units \cup Data
    BY DEF Body
  <2> QED
    BY <2>1, SubSeqProperties DEF Body
<1>5. \A s \in Body : Len(s) \in Nat
  BY DEF Body
<1>6. <<>> \in Data /\ <<>> \in Body
  BY DEF Data, Body
<1> QED
  BY <1>1, <1>2, <1>3, <1>4, <1>5, <1>6

\* What reading an entry yields is a sequence.
LEMMA StreamType ==
  ASSUME NEW e \in Listed, NEW raw, NEW key
  PROVE  Stream(e, raw, key).data \in Body /\ DOMAIN Stream(e, raw, key) = {"data", "fails"}
<1> DEFINE ciphered == [i \in DOMAIN e.body |-> Junk]
           body == IF e.key # Nil /\ key # e.key THEN ciphered ELSE e.body
<1>1. e.body \in Body /\ (e.packed => e.body \in Seq(Data))
  BY ListedFields, Zenon
<1>2. ciphered \in Body
  <2>1. DOMAIN e.body = 1..Len(e.body) /\ Len(e.body) \in Nat
    BY <1>1 DEF Body
  <2>2. Junk \in Units \cup Data
    BY DEF Units
  <2> QED
    BY <2>1, <2>2 DEF Body
<1>3. body \in Body
  BY <1>1, <1>2
<1> HIDE DEF body
<1>4. Stream(e, raw, key) =
        IF raw \/ e.method = "store" \/ e.body = <<>> THEN [data |-> body, fails |-> FALSE]
        ELSE IF body = e.body /\ e.packed THEN [data |-> body[1], fails |-> FALSE]
        ELSE [data |-> <<>>, fails |-> TRUE]
  BY Zenon DEF Stream, body
<1>5. CASE raw \/ e.method = "store" \/ e.body = <<>>
  <2>1. Stream(e, raw, key) = [data |-> body, fails |-> FALSE]
    BY <1>4, <1>5
  <2> QED
    BY <1>3, <2>1
<1>6. CASE ~(raw \/ e.method = "store" \/ e.body = <<>>) /\ body = e.body /\ e.packed
  <2>1. e.body \in Seq(Data) /\ e.body # <<>>
    BY <1>1, <1>6
  <2>2. e.body[1] \in Data
    BY <2>1
  <2>3. body[1] \in Body
    BY <1>6, <2>2, BodyFacts
  <2>4. Stream(e, raw, key) = [data |-> body[1], fails |-> FALSE]
    BY <1>4, <1>6
  <2> QED
    BY <2>3, <2>4
<1>7. CASE ~(raw \/ e.method = "store" \/ e.body = <<>>) /\ ~(body = e.body /\ e.packed)
  <2>1. Stream(e, raw, key) = [data |-> <<>>, fails |-> TRUE]
    BY <1>4, <1>7
  <2> QED
    BY <2>1, BodyFacts
<1> QED
  BY <1>5, <1>6, <1>7

-----------------------------------------------------------------------------
(* What a reader is, and going to an entry *)

\* The list and the place in it.
PlaceInv(r) ==
  /\ DOMAIN r = RdFields /\ r.list \in Seq(Listed) /\ r.opts.raw \in BOOLEAN
  /\ r.at \in 0..(Len(r.list) + 1) /\ r.info \in {0, r.at} /\ r.info <= Len(r.list)

\* The entry that is open: which one it is, and what came out of it.
HashOf(en) == IF en.e.hash = Nil THEN Nil ELSE SubSeq(en.data, 1, en.pos)
OpenInv(r, en) ==
  /\ DOMAIN en = EnFields /\ en.i = r.info /\ r.info # 0 /\ en.e = r.list[r.info]
  /\ en.data \in Body /\ en.pos \in 0..Len(en.data) /\ en.eof \in BOOLEAN
  /\ en.raw = r.opts.raw /\ (en.e.key = Nil => en.crypt = FALSE)
  /\ r.hash = HashOf(en)

\* A reader: the inductive invariant of each.
RdInv(r) == PlaceInv(r) /\ (r.entry = NoEntry \/ OpenInv(r, r.entry))

\* The numbers of a place are numbers, and the current entry is one of the archive's.
LEMMA PlaceType ==
  ASSUME NEW r, PlaceInv(r)
  PROVE  /\ Len(r.list) \in Nat /\ r.at \in Nat /\ r.info \in Nat
         /\ r.info # 0 => r.info \in 1..Len(r.list) /\ Current(r) \in Listed /\ r.info = r.at
<1>1. r.list \in Seq(Listed) /\ r.at \in 0..(Len(r.list) + 1) /\ r.info \in {0, r.at} /\ r.info <= Len(r.list)
  BY DEF PlaceInv
<1>2. Len(r.list) \in Nat
  BY <1>1
<1>3. r.at \in Nat /\ r.info \in Nat
  BY <1>1, <1>2
<1>4. r.info # 0 => r.info \in 1..Len(r.list) /\ r.info = r.at
  BY <1>1, <1>2, <1>3
<1> QED
  BY <1>1, <1>2, <1>3, <1>4 DEF Current

\* An entry is open if and only if its number is not 0.
LEMMA OpenIsOpen ==
  ASSUME NEW r, RdInv(r) PROVE r.entry.i = 0 <=> r.entry = NoEntry
<1>1. NoEntry.i = 0
  BY DEF NoEntry
<1>2. OpenInv(r, r.entry) => r.entry.i # 0
  BY DEF OpenInv
<1> QED
  BY <1>1, <1>2 DEF RdInv

\* A reader with no open entry is at a place and nothing more.
LEMMA NoLongerOpen ==
  ASSUME NEW r, PlaceInv(r), r.entry = NoEntry PROVE RdInv(r)
BY DEF RdInv

\* Whoever is at the same place is at a place.
LEMMA PlaceAgain ==
  ASSUME NEW r, NEW r2, PlaceInv(r), SamePlace(r2, r) PROVE PlaceInv(r2)
BY DEF PlaceInv, SamePlace

\* Going to entry i, or to the end.
Gone(r2, r, i) ==
  /\ DOMAIN r2 = RdFields /\ r2.open = r.open /\ r2.path = r.path /\ r2.list = r.list /\ r2.opts = r.opts
  /\ r2.at = i /\ r2.info = (IF i <= Len(r.list) THEN i ELSE 0) /\ r2.entry = NoEntry

\* mz_zip_reader_goto_*: what was open is closed, whatever that says, and its info dropped.
LEMMA GoneToIs ==
  ASSUME NEW r, DOMAIN r = RdFields, r.entry.i = 0 => r.entry = NoEntry, NEW i, NEW g \in GoneTo(r, i)
  PROVE  Gone(g.r, r, i) /\ g.err = IF i <= Len(r.list) THEN "ok" ELSE "end"
<1> DEFINE info == IF i <= Len(r.list) THEN i ELSE 0
           err == IF i <= Len(r.list) THEN "ok" ELSE "end"
           C == IF r.entry.i = 0 THEN {[r |-> r, err |-> "ok"]} ELSE EntryClosed(r)
<1>1. PICK c \in C : g = [r |-> [c.r EXCEPT !.at = i, !.info = info], err |-> err]
  BY Zenon DEF GoneTo
<1>2. SamePlace(c.r, r) /\ c.r.entry = NoEntry
  <2>1. CASE r.entry.i = 0
    <3>1. c = [r |-> r, err |-> "ok"]
      BY <2>1
    <3> QED
      BY <2>1, <3>1 DEF SamePlace
  <2>2. CASE r.entry.i # 0
    <3>1. c \in EntryClosed(r)
      BY <2>2
    <3> QED
      BY <3>1, EntryClosedIs
  <2> QED
    BY <2>1, <2>2
<1> HIDE DEF info, err, C
<1>3. g.r = [c.r EXCEPT !.at = i, !.info = info] /\ g.err = err
  BY <1>1
<1>4. DOMAIN c.r = RdFields
  BY <1>2 DEF SamePlace
<1>5. /\ DOMAIN g.r = RdFields /\ g.r.at = i /\ g.r.info = info /\ g.r.open = c.r.open
      /\ g.r.path = c.r.path /\ g.r.list = c.r.list /\ g.r.opts = c.r.opts /\ g.r.entry = c.r.entry
  BY <1>3, <1>4 DEF RdFields
<1>6. Gone(g.r, r, i)
  BY <1>2, <1>5 DEF Gone, SamePlace, info
<1> QED
  BY <1>3, <1>6 DEF err

\* A reader that went to an entry, or to the end, is a reader.
LEMMA GoneInv ==
  ASSUME NEW r, NEW r2, r.list \in Seq(Listed), r.opts.raw \in BOOLEAN, NEW i \in 1..(Len(r.list) + 1),
         Gone(r2, r, i)
  PROVE  RdInv(r2)
<1>1. Len(r.list) \in Nat
  OBVIOUS
<1>2. PlaceInv(r2)
  BY <1>1 DEF PlaceInv, Gone
<1> QED
  BY <1>2 DEF RdInv, Gone

\* A set of numbers has a least one.
LEMMA MinOfIs ==
  ASSUME NEW S, S \subseteq Nat, S # {}
  PROVE  MinOf(S) \in S /\ \A y \in S : MinOf(S) <= y
<1>1. \E x \in S : \A y \in S : x <= y
  BY Numbers!LeastInSet
<1> QED
  BY <1>1, Zenon DEF MinOf

-----------------------------------------------------------------------------
(* Opening an entry *)

\* Where GotoFrom goes.
Found(r, from, i) ==
  /\ i \in from..(Len(r.list) + 1)
  /\ i <= Len(r.list) => i \in Matching(r, from)
  /\ \A k \in Matching(r, from) : i <= k

\* Going to the next entry the pattern matches: that is the first from there, or the end.
LEMMA GotoFromIs ==
  ASSUME NEW r, DOMAIN r = RdFields, r.entry.i = 0 => r.entry = NoEntry, Len(r.list) \in Nat,
         NEW from \in Nat, from <= Len(r.list) + 1, NEW g \in GotoFrom(r, from)
  PROVE  \E i \in Nat : /\ Found(r, from, i) /\ Gone(g.r, r, i)
                        /\ g.err = IF i <= Len(r.list) THEN "ok" ELSE "end"
<1> DEFINE i == IF Matching(r, from) = {} THEN Len(r.list) + 1 ELSE MinOf(Matching(r, from))
<1>1. Gone(g.r, r, i) /\ g.err = IF i <= Len(r.list) THEN "ok" ELSE "end"
  <2>1. g \in GoneTo(r, i)
    BY DEF GotoFrom
  <2> HIDE DEF i
  <2> QED
    BY <2>1, GoneToIs
<1>2. Found(r, from, i)
  <2>1. CASE Matching(r, from) = {}
    BY <2>1 DEF Found
  <2>2. CASE Matching(r, from) # {}
    <3>1. Matching(r, from) \subseteq from..Len(r.list)
      BY DEF Matching
    <3>2. Matching(r, from) \subseteq Nat
      BY <3>1
    <3>3. i \in Matching(r, from) /\ \A k \in Matching(r, from) : i <= k
      BY <2>2, <3>2, MinOfIs
    <3> HIDE DEF i
    <3>4. i \in from..(Len(r.list) + 1)
      BY <3>1, <3>3
    <3> QED
      BY <3>3, <3>4 DEF Found
  <2> QED
    BY <2>1, <2>2
<1>3. i \in Nat
  <2> HIDE DEF i
  <2> QED
    BY <1>2 DEF Found
<1> QED
  BY <1>1, <1>2, <1>3

\* Opening the current entry.
Began(r2, r) ==
  /\ SamePlace(r2, r) /\ OpenInv(r2, r2.entry) /\ r2.entry.pos = 0
Accepted(o, r) ==
  /\ o.err = IF Current(r).hash = Unknown THEN "support" ELSE "ok"
  /\ LET s == Stream(Current(r), r.opts.raw, r.opts.password)
     IN o.r.entry.data = s.data /\ o.r.entry.fails = s.fails
Refused(err, r) ==
  err = "password" /\ Current(r).key # Nil /\ r.opts.password \notin {Nil, Current(r).key}

\* mz_zip_reader_entry_open: what is open stays open; a wrong password may be refused; or it begins.
LEMMA EntryOpenedIs ==
  ASSUME NEW r, RdInv(r), r.info # 0, NEW o \in EntryOpened(r)
  PROVE  \/ r.entry # NoEntry /\ o.r = r /\ o.err = "ok"
         \/ r.entry = NoEntry /\ o.r = r /\ Refused(o.err, r)
         \/ r.entry = NoEntry /\ Began(o.r, r) /\ Accepted(o, r)
<1> DEFINE e == Current(r)
           s == Stream(e, r.opts.raw, r.opts.password)
           en == [i |-> r.info, e |-> e, data |-> s.data, fails |-> s.fails, pos |-> 0, eof |-> FALSE,
                  raw |-> r.opts.raw, crypt |-> e.key # Nil /\ r.opts.password # Nil]
           hash == IF e.hash = Nil THEN Nil ELSE <<>>
           began == [r |-> [r EXCEPT !.entry = en, !.hash = hash],
                     err |-> IF e.hash = Unknown THEN "support" ELSE "ok"]
<1>1. CASE r.entry.i # 0
  <2>1. o \in {[r |-> r, err |-> "ok"]}
    BY <1>1 DEF EntryOpened
  <2>2. r.entry # NoEntry
    BY <1>1, OpenIsOpen
  <2> QED
    BY <2>1, <2>2
<1>2. CASE r.entry.i = 0
  <2>1. r.entry = NoEntry
    BY <1>2, OpenIsOpen
  <2>2. \/ o = began
        \/ o = [r |-> r, err |-> "password"] /\ e.key # Nil /\ r.opts.password \notin {Nil, e.key}
    BY <1>2, Zenon DEF EntryOpened
  <2>3. ASSUME o = began PROVE Began(o.r, r) /\ Accepted(o, r)
    <3>1. PlaceInv(r) /\ e \in Listed /\ r.info \in Nat
      BY PlaceType DEF RdInv
    <3>2. s.data \in Body
      BY <3>1, StreamType
    <3>3. Len(s.data) \in Nat
      BY <3>2, BodyFacts
    <3>4. DOMAIN en = EnFields /\ en.i = r.info /\ en.e = e /\ en.data = s.data /\ en.pos = 0
          /\ en.eof = FALSE /\ en.fails = s.fails /\ en.raw = r.opts.raw /\ (e.key = Nil => en.crypt = FALSE)
      BY DEF EnFields
    <3>5. hash = HashOf(en)
      <4>1. SubSeq(s.data, 1, 0) = <<>>
        BY <3>2 DEF Body
      <4> QED
        BY <3>4, <4>1 DEF HashOf
    <3>6. e = r.list[r.info]
      BY DEF Current
    <3> HIDE DEF e, s, en, hash
    <3>7. o.r = [r EXCEPT !.entry = en, !.hash = hash]
      BY <2>3
    <3>8. DOMAIN r = RdFields
      BY <3>1 DEF PlaceInv
    <3>9. /\ SamePlace(o.r, r) /\ o.r.entry = en /\ o.r.hash = hash
      BY <3>7, <3>8 DEF SamePlace, RdFields
    <3>10. OpenInv(o.r, en)
      <4>1. o.r.info = r.info /\ o.r.list = r.list /\ o.r.opts = r.opts /\ o.r.hash = HashOf(en)
        BY <3>5, <3>9 DEF SamePlace
      <4>2. en.e = o.r.list[o.r.info] /\ en.i = o.r.info /\ o.r.info # 0
        BY <3>4, <3>6, <4>1
      <4>3. en.data \in Body /\ en.pos \in 0..Len(en.data)
        BY <3>2, <3>3, <3>4
      <4>4. en.raw = o.r.opts.raw /\ (en.e.key = Nil => en.crypt = FALSE) /\ en.eof \in BOOLEAN
        BY <3>4, <4>1, Zenon
      <4> QED
        BY <3>4, <4>1, <4>2, <4>3, <4>4, Zenon DEF OpenInv
    <3>11. o.err = IF e.hash = Unknown THEN "support" ELSE "ok"
      BY <2>3
    <3>12. Accepted(o, r)
      BY <3>4, <3>9, <3>11, Zenon DEF Accepted, e, s
    <3> QED
      BY <3>4, <3>9, <3>10, <3>12 DEF Began
  <2>4. ASSUME o = [r |-> r, err |-> "password"], e.key # Nil, r.opts.password \notin {Nil, e.key}
        PROVE  o.r = r /\ Refused(o.err, r)
    <3>1. o.r = r /\ o.err = "password"
      BY <2>4
    <3> QED
      BY <2>4, <3>1, Zenon DEF Refused
  <2> QED
    BY <2>1, <2>2, <2>3, <2>4, Zenon
<1> QED
  BY <1>1, <1>2

\* A reader that opened an entry is a reader with an entry open.
LEMMA BeganInv ==
  ASSUME NEW r, NEW r2, PlaceInv(r), Began(r2, r)
  PROVE  RdInv(r2) /\ r2.entry # NoEntry /\ r2.entry.i # 0
<1>1. PlaceInv(r2)
  BY PlaceAgain DEF Began
<1>2. r2.entry.i # 0
  BY DEF Began, OpenInv
<1> QED
  BY <1>1, <1>2 DEF RdInv, Began, NoEntry

-----------------------------------------------------------------------------
(* Reading from it *)

\* A read from the entry that is open.
ReadOn(r2, r, got) ==
  /\ SamePlace(r2, r) /\ OpenInv(r2, r2.entry)
  /\ r2.entry.e = r.entry.e /\ r2.entry.data = r.entry.data /\ r2.entry.fails = r.entry.fails
  /\ r2.entry.crypt = r.entry.crypt /\ r2.entry.eof = (got = <<>>)
  /\ SubSeq(r2.entry.data, 1, r2.entry.pos) = SubSeq(r.entry.data, 1, r.entry.pos) \o got
  /\ got = <<>> => r2.entry.pos = Len(r.entry.data)

\* What came out of an entry grows by the next token.
LEMMA SubSeqOn ==
  ASSUME NEW s \in Body, NEW k \in 0..Len(s), k < Len(s)
  PROVE  SubSeq(s, 1, k + 1) = SubSeq(s, 1, k) \o <<s[k + 1]>> /\ <<s[k + 1]>> # <<>>
<1>1. s \in Seq(Units \cup Data) /\ Len(s) \in Nat
  BY DEF Body
<1> DEFINE U == Units \cup Data
<1> HIDE DEF U
<1>2. s \in Seq(U)
  BY <1>1 DEF U
<1> QED
  BY <1>1, <1>2

\* The types of an open entry.
LEMMA OpenType ==
  ASSUME NEW r, NEW en, OpenInv(r, en)
  PROVE  /\ DOMAIN en = EnFields /\ en.data \in Body /\ Len(en.data) \in Nat /\ en.pos \in 0..Len(en.data)
         /\ en.pos \in Nat /\ SubSeq(en.data, 1, en.pos) \in Body
         /\ r.hash = HashOf(en) /\ en.i = r.info /\ r.info # 0 /\ en.e = r.list[r.info]
<1>1. /\ DOMAIN en = EnFields /\ en.data \in Body /\ en.pos \in 0..Len(en.data) /\ r.hash = HashOf(en)
      /\ en.i = r.info /\ r.info # 0 /\ en.e = r.list[r.info]
  BY DEF OpenInv
<1>2. Len(en.data) \in Nat /\ SubSeq(en.data, 1, en.pos) \in Body
  BY <1>1, BodyFacts
<1> QED
  BY <1>1, <1>2

\* The open entry at another place: its hash runs along.
Moving(r2, r, pos, eof, got) ==
  /\ PlaceInv(r) /\ OpenInv(r, r.entry) /\ pos \in 0..Len(r.entry.data) /\ eof \in BOOLEAN
  /\ SubSeq(r.entry.data, 1, pos) = SubSeq(r.entry.data, 1, r.entry.pos) \o got
  /\ r2 = [r EXCEPT !.entry.pos = pos, !.entry.eof = eof, !.hash = IF @ = Nil THEN @ ELSE @ \o got]
MovedTo(r2, r, pos, eof) ==
  /\ SamePlace(r2, r) /\ OpenInv(r2, r2.entry)
  /\ r2.entry.e = r.entry.e /\ r2.entry.data = r.entry.data /\ r2.entry.fails = r.entry.fails
  /\ r2.entry.crypt = r.entry.crypt /\ r2.entry.eof = eof /\ r2.entry.pos = pos

\* The hash of an open entry is of what came out of it, and stays so as that grows.
LEMMA MovedOn ==
  ASSUME NEW r, NEW pos, NEW eof, NEW got, NEW r2, Moving(r2, r, pos, eof, got)
  PROVE  MovedTo(r2, r, pos, eof)
<1> DEFINE en == r.entry
           en2 == [en EXCEPT !.pos = pos, !.eof = eof]
           hash == IF r.hash = Nil THEN r.hash ELSE r.hash \o got
<1>1. DOMAIN r = RdFields
  BY DEF Moving, PlaceInv
<1>2. OpenInv(r, en) /\ DOMAIN en = EnFields
  BY OpenType DEF Moving
<1>3. r2 = [r EXCEPT !.entry = en2, !.hash = hash]
  BY <1>1 DEF RdFields, Moving
<1>4. /\ DOMAIN en2 = EnFields /\ en2.pos = pos /\ en2.eof = eof /\ en2.i = en.i /\ en2.e = en.e
      /\ en2.data = en.data /\ en2.fails = en.fails /\ en2.raw = en.raw /\ en2.crypt = en.crypt
  BY <1>2 DEF EnFields
<1>5. hash = HashOf(en2)
  <2>1. r.hash = HashOf(en) /\ SubSeq(en.data, 1, en.pos) # Nil
    BY <1>2, OpenType, BodyFacts
  <2>2. SubSeq(en.data, 1, pos) = SubSeq(en.data, 1, en.pos) \o got
    BY DEF Moving
  <2> HIDE DEF en2, en
  <2> QED
    BY <1>4, <2>1, <2>2 DEF HashOf
<1> HIDE DEF en2, hash
<1>6. SamePlace(r2, r) /\ r2.entry = en2 /\ r2.hash = hash
  BY <1>1, <1>3 DEF SamePlace, RdFields
<1>7. r2.info = r.info /\ r2.list = r.list /\ r2.opts = r.opts /\ r2.hash = HashOf(en2)
  BY <1>5, <1>6 DEF SamePlace
<1>8. en2.data \in Body /\ en2.pos \in 0..Len(en2.data)
  <2>1. pos \in 0..Len(en.data)
    BY DEF Moving
  <2> QED
    BY <1>2, <1>4, <2>1, OpenType
<1>9. en2.raw = r2.opts.raw /\ (en2.e.key = Nil => en2.crypt = FALSE) /\ en2.eof \in BOOLEAN
  BY <1>2, <1>4, <1>7, Zenon DEF OpenInv, Moving
<1>10. en2.i = r2.info /\ r2.info # 0 /\ en2.e = r2.list[r2.info]
  BY <1>2, <1>4, <1>7, OpenType
<1>11. OpenInv(r2, en2)
  BY <1>4, <1>7, <1>8, <1>9, <1>10, Zenon DEF OpenInv
<1> QED
  BY <1>4, <1>6, <1>11 DEF MovedTo

\* mz_zip_reader_entry_read: it gives the next token, or at the end nothing and the stream's error.
LEMMA EntryReadIs ==
  ASSUME NEW r, RdInv(r), r.entry # NoEntry
  PROVE  LET x == EntryRead(r)
         IN /\ ReadOn(x.r, r, x.got) /\ x.err = IF x.got = <<>> /\ r.entry.fails THEN "data" ELSE "ok"
<1> DEFINE en == r.entry
           got == IF en.pos < Len(en.data) THEN <<en.data[en.pos + 1]>> ELSE <<>>
           x == EntryRead(r)
           pos == en.pos + Len(got)
           eof == got = <<>>
<1>1. PlaceInv(r) /\ OpenInv(r, en)
  BY DEF RdInv
<1>2. en.data \in Body /\ Len(en.data) \in Nat /\ en.pos \in 0..Len(en.data) /\ en.pos \in Nat
  BY <1>1, OpenType
<1>3. /\ pos \in 0..Len(en.data) /\ SubSeq(en.data, 1, pos) = SubSeq(en.data, 1, en.pos) \o got
      /\ got = <<>> => pos = Len(en.data)
  <2>1. CASE en.pos < Len(en.data)
    <3>1. got = <<en.data[en.pos + 1]>> /\ Len(got) = 1
      BY <2>1
    <3>2. pos = en.pos + 1 /\ pos \in 0..Len(en.data)
      BY <1>2, <2>1, <3>1
    <3> QED
      BY <1>2, <2>1, <3>1, <3>2, SubSeqOn
  <2>2. CASE ~(en.pos < Len(en.data))
    <3>1. got = <<>> /\ Len(got) = 0
      BY <2>2
    <3>2. pos = en.pos /\ pos = Len(en.data)
      BY <1>2, <2>2, <3>1
    <3>3. SubSeq(en.data, 1, en.pos) \in Seq(Units \cup Data)
      BY <1>1, OpenType DEF Body
    <3>4. SubSeq(en.data, 1, en.pos) \o <<>> = SubSeq(en.data, 1, en.pos)
      BY <3>3
    <3> QED
      BY <1>2, <3>1, <3>2, <3>4
  <2> QED
    BY <2>1, <2>2
<1>4. /\ x.r = [r EXCEPT !.entry.pos = @ + Len(got), !.entry.eof = eof,
                         !.hash = IF @ = Nil THEN @ ELSE @ \o got]
      /\ x.got = got /\ x.err = IF got = <<>> /\ en.fails THEN "data" ELSE "ok"
  BY DEF EntryRead
<1>5. x.r = [r EXCEPT !.entry.pos = pos, !.entry.eof = eof,
                      !.hash = IF @ = Nil THEN @ ELSE @ \o got]
  <2>1. DOMAIN r = RdFields /\ DOMAIN r.entry = EnFields
    BY <1>1, OpenType DEF PlaceInv
  <2> HIDE DEF got, eof, x
  <2> QED
    BY <1>4, <2>1 DEF RdFields, EnFields
<1>6. eof \in BOOLEAN
  OBVIOUS
<1>7. Moving(x.r, r, pos, eof, got)
  <2> HIDE DEF got, pos, eof, x
  <2> QED
    BY <1>1, <1>3, <1>5, <1>6, Zenon DEF Moving
<1>8. MovedTo(x.r, r, pos, eof)
  <2> HIDE DEF got, pos, eof, x
  <2> QED
    BY <1>7, MovedOn
<1> HIDE DEF got, pos, x
<1>9. /\ x.r.entry.eof = (got = <<>>)
      /\ SubSeq(x.r.entry.data, 1, x.r.entry.pos) = SubSeq(r.entry.data, 1, r.entry.pos) \o got
      /\ got = <<>> => x.r.entry.pos = Len(r.entry.data)
  BY <1>3, <1>8 DEF MovedTo
<1>10. ReadOn(x.r, r, x.got)
  BY <1>4, <1>8, <1>9 DEF ReadOn, MovedTo
<1> QED
  BY <1>4, <1>10 DEF x

-----------------------------------------------------------------------------
(* A compressed directory *)

\* The compressed directory was read, all of it.
LEMMA CdReadIs ==
  ASSUME NEW r, RdInv(r), r.entry # NoEntry, r.entry.pos = 0
  PROVE  RdInv(CdRead(r)) /\ SamePlace(CdRead(r), r) /\ CdRead(r).entry.i # 0
<1> DEFINE data == r.entry.data
<1>1. PlaceInv(r) /\ OpenInv(r, r.entry)
  BY DEF RdInv
<1>2. data \in Body /\ Len(data) \in Nat
  BY <1>1, OpenType
<1>3. SubSeq(data, 1, Len(data)) = SubSeq(data, 1, r.entry.pos) \o data
  <2>1. data \in Seq(Units \cup Data)
    BY <1>2 DEF Body
  <2> QED
    BY <2>1
<1>4. CdRead(r) = [r EXCEPT !.entry.pos = Len(data), !.entry.eof = TRUE,
                            !.hash = IF @ = Nil THEN @ ELSE @ \o data]
  BY Zenon DEF CdRead
<1>5. Moving(CdRead(r), r, Len(data), TRUE, data)
  <2>1. Len(data) \in 0..Len(data) /\ TRUE \in BOOLEAN
    BY <1>2
  <2> QED
    BY <1>1, <1>3, <1>4, <2>1, Zenon DEF Moving
<1>6. SamePlace(CdRead(r), r) /\ OpenInv(CdRead(r), CdRead(r).entry)
  BY <1>5, MovedOn DEF MovedTo
<1>7. PlaceInv(CdRead(r))
  BY <1>1, <1>6, PlaceAgain
<1>8. CdRead(r).entry.i # 0
  BY <1>6 DEF OpenInv
<1> QED
  BY <1>6, <1>7, <1>8 DEF RdInv

\* Going on with what a directory lists.
LEMMA UnzippedIs ==
  ASSUME NEW r, DOMAIN r = RdFields, r.opts.raw \in BOOLEAN, r.entry.i # 0, NEW dir \in Seq(Listed),
         NEW g \in GotoFirst(Unzipped(r, dir))
  PROVE  RdInv(g.r) /\ g.r.list = dir /\ g.r.open = r.open /\ g.r.path = r.path /\ g.r.opts = r.opts
<1> DEFINE z == Unzipped(r, dir)
<1>1. /\ DOMAIN z = RdFields /\ z.list = dir /\ z.open = r.open /\ z.path = r.path /\ z.opts = r.opts
      /\ z.entry = r.entry
  BY DEF Unzipped, RdFields
<1>2. g \in GotoFrom(z, 1)
  BY Zenon DEF GotoFirst
<1> HIDE DEF z
<1>3. Len(z.list) \in Nat /\ z.entry.i # 0 /\ 1 \in Nat /\ 1 <= Len(z.list) + 1
  BY <1>1
<1>4. \E i \in Nat : /\ Found(z, 1, i) /\ Gone(g.r, z, i)
                     /\ g.err = IF i <= Len(z.list) THEN "ok" ELSE "end"
  BY <1>1, <1>2, <1>3, GotoFromIs
<1>5. PICK i \in Nat : Found(z, 1, i) /\ Gone(g.r, z, i)
  BY <1>4
<1>6. i \in 1..(Len(z.list) + 1)
  BY <1>5 DEF Found
<1>7. RdInv(g.r)
  BY <1>1, <1>5, <1>6, GoneInv
<1> QED
  BY <1>1, <1>5, <1>7 DEF Gone

\* Going to the first entry the pattern matches, and then to the next.
LEMMA GotoInv ==
  ASSUME NEW r, RdInv(r), NEW from \in Nat, from \in 1..(Len(r.list) + 1), NEW g \in GotoFrom(r, from)
  PROVE  /\ RdInv(g.r) /\ g.r.entry = NoEntry
         /\ g.r.list = r.list /\ g.r.open = r.open /\ g.r.path = r.path /\ g.r.opts = r.opts
         /\ \E i \in Nat : Found(r, from, i) /\ Gone(g.r, r, i)
                           /\ g.err = IF i <= Len(r.list) THEN "ok" ELSE "end"
<1>1. DOMAIN r = RdFields /\ r.list \in Seq(Listed) /\ r.opts.raw \in BOOLEAN
  BY DEF RdInv, PlaceInv
<1>2. Len(r.list) \in Nat /\ (r.entry.i = 0 => r.entry = NoEntry)
  BY <1>1, OpenIsOpen
<1>3. from <= Len(r.list) + 1
  BY <1>2
<1>4. \E i \in Nat : Found(r, from, i) /\ Gone(g.r, r, i)
                     /\ g.err = IF i <= Len(r.list) THEN "ok" ELSE "end"
  BY <1>1, <1>2, <1>3, GotoFromIs
<1>5. PICK i \in Nat : Found(r, from, i) /\ Gone(g.r, r, i)
  BY <1>4
<1>6. i \in 1..(Len(r.list) + 1)
  BY <1>2, <1>5 DEF Found
<1>7. RdInv(g.r)
  BY <1>1, <1>5, <1>6, GoneInv
<1> QED
  BY <1>4, <1>5, <1>7 DEF Gone

\* A session begins: the directory is the one in the file, or the one its first entry holds.
SameSession(u, r) == u.open = r.open /\ u.path = r.path /\ u.opts = r.opts
ReadsAsCrc(z, key) == z.key \in {Nil, key} /\ z.hash # Unknown /\ Stream(z, FALSE, key).data = z.crc
Lists(u, r) ==
  /\ r.list \in Seq(Plain) => u.list = r.list
  /\ \A z \in Zipped : r.list = <<z>> /\ CdName \in r.opts.pattern /\ ~r.opts.raw
                       /\ ReadsAsCrc(z, r.opts.password) => u.list = z.dir

\* mz_zip_reader_unzip_cd, once its entry is open: the list becomes the one in the entry if that
\* reads as its CRC, empty if it does not, and stays if it is short.
LEMMA CdCopiedIs ==
  ASSUME NEW o, RdInv(o), o.entry # NoEntry, o.entry.pos = 0, Current(o).name = CdName, NEW u \in CdCopied(o)
  PROVE  /\ RdInv(u) /\ SameSession(u, o)
         /\ \A z \in Zipped : o.list = <<z>> /\ o.entry.data = z.crc => u.list = z.dir
<1> DEFINE data == o.entry.data
           entry == Current(o)
           c == CdRead(o)
           dir == IF data = entry.crc THEN entry.dir ELSE <<>>
<1>1. RdInv(c) /\ SamePlace(c, o) /\ c.entry.i # 0
  BY CdReadIs
<1>2. PlaceInv(o) /\ o.info \in 1..Len(o.list) /\ entry \in Listed
  <2>1. PlaceInv(o) /\ OpenInv(o, o.entry)
    BY DEF RdInv
  <2>2. o.info # 0
    BY <2>1 DEF OpenInv
  <2> QED
    BY <2>1, <2>2, PlaceType
<1>3. \A z : o.list = <<z>> => entry = z
  <2> TAKE z
  <2> HAVE o.list = <<z>>
  <2>1. o.info = 1
    BY <1>2
  <2> QED
    BY <2>1 DEF Current
<1>4. CASE Len(data) < Len(entry.crc)
  <2>1. u = c
    BY <1>4 DEF CdCopied
  <2>2. SameSession(c, o)
    BY <1>1 DEF SamePlace, SameSession
  <2>3. \A z : o.list = <<z>> => o.entry.data # z.crc
    <3> TAKE z
    <3> HAVE o.list = <<z>>
    <3>1. Len(entry.crc) \in Nat /\ entry = z
      BY <1>2, <1>3, ListedFields, BodyFacts
    <3> QED
      BY <1>4, <3>1
  <2> QED
    BY <1>1, <2>1, <2>2, <2>3
<1>5. CASE ~(Len(data) < Len(entry.crc))
  <2>1. PICK g \in GotoFirst(Unzipped(c, dir)) : u = g.r
    BY <1>5, Zenon DEF CdCopied
  <2>2. dir \in Seq(Listed)
    <3>1. entry.dir \in Seq(Plain)
      BY <1>2, ListedFields
    <3>2. Plain \subseteq Listed
      BY Zenon DEF Listed
    <3> HIDE DEF entry
    <3>3. entry.dir \in Seq(Listed)
      <4> HIDE DEF Plain, Listed
      <4> QED
        BY <3>1, <3>2
    <3> QED
      BY <3>3
  <2>3. DOMAIN c = RdFields /\ c.opts.raw \in BOOLEAN
    BY <1>1 DEF RdInv, PlaceInv
  <2> HIDE DEF c, dir
  <2>4. RdInv(u) /\ u.list = dir /\ u.open = c.open /\ u.path = c.path /\ u.opts = c.opts
    BY <1>1, <2>1, <2>2, <2>3, UnzippedIs
  <2>5. SameSession(u, o)
    BY <1>1, <2>4 DEF SamePlace, SameSession
  <2>6. \A z : o.list = <<z>> /\ o.entry.data = z.crc => u.list = z.dir
    BY <1>3, <2>4 DEF dir
  <2> QED
    BY <2>4, <2>5, <2>6
<1> QED
  BY <1>4, <1>5

\* Plain entries are not the one that holds a compressed directory.
LEMMA ListedNames ==
  /\ \A e \in Plain : e.name \in Names /\ e.name # CdName
  /\ \A z \in Zipped : z.name = CdName /\ z.dir \in Seq(Plain)
<1>1. \A e \in Plain : e.name \in Names /\ e.name # CdName
  <2>1. CdName \notin Names
    BY ReaderAssumption
  <2>2. \A e \in Plain : e.name \in Names
    BY DEF Plain, EntriesOf
  <2> QED
    BY <2>1, <2>2
<1>2. \A z \in Zipped : z.name = CdName /\ z.dir \in Seq(Plain)
  BY DEF Zipped, EntriesOf
<1> QED
  BY <1>1, <1>2

\* mz_zip_reader_unzip_cd: what is listed is the archive's own list, or the one in its first entry.
LEMMA UnzipCdIs ==
  ASSUME NEW r, PlaceInv(r), r.entry = NoEntry, NEW u \in UnzipCd(r)
  PROVE  RdInv(u) /\ SameSession(u, r) /\ Lists(u, r)
<1>1. RdInv(r)
  BY NoLongerOpen
<1>2. PICK f \in GotoFirst(r) :
        u \in IF f.err # "ok" THEN {f.r}
              ELSE IF Current(f.r).name # CdName THEN {g.r : g \in GotoFirst(f.r)}
              ELSE UNION {IF o.err = "ok" THEN CdCopied(o.r) ELSE {o.r} : o \in EntryOpened(f.r)}
  BY Zenon DEF UnzipCd
<1>3. Len(r.list) \in Nat /\ 1 \in Nat /\ 1 \in 1..(Len(r.list) + 1)
  <2>1. Len(r.list) \in Nat
    BY PlaceType
  <2> QED
    BY <2>1
<1>4. f \in GotoFrom(r, 1)
  BY Zenon DEF GotoFirst
<1>5. /\ RdInv(f.r) /\ f.r.entry = NoEntry
      /\ f.r.list = r.list /\ f.r.open = r.open /\ f.r.path = r.path /\ f.r.opts = r.opts
      /\ \E i \in Nat : Found(r, 1, i) /\ Gone(f.r, r, i)
                        /\ f.err = IF i <= Len(r.list) THEN "ok" ELSE "end"
  BY <1>1, <1>3, <1>4, GotoInv
<1>6. PICK i \in Nat : Found(r, 1, i) /\ Gone(f.r, r, i) /\ f.err = IF i <= Len(r.list) THEN "ok" ELSE "end"
  BY <1>5
<1>7. i >= 1 /\ (f.err = "ok" => i \in 1..Len(r.list) /\ f.r.info = i)
  BY <1>3, <1>6 DEF Found, Gone
<1>8. \A z \in Zipped : r.list = <<z>> /\ CdName \in r.opts.pattern => i = 1
  <2> TAKE z \in Zipped
  <2> HAVE r.list = <<z>> /\ CdName \in r.opts.pattern
  <2>1. Len(r.list) = 1 /\ r.list[1].name \in r.opts.pattern
    BY ListedNames
  <2>2. 1 \in Matching(r, 1)
    BY <2>1 DEF Matching
  <2> QED
    BY <1>6, <1>7, <2>2 DEF Found
<1>9. CASE f.err # "ok"
  <2>1. u = f.r
    BY <1>2, <1>9
  <2>2. \A z \in Zipped : ~(r.list = <<z>> /\ CdName \in r.opts.pattern)
    <3>1. ~(i <= Len(r.list))
      BY <1>6, <1>9
    <3> TAKE z \in Zipped
    <3> SUFFICES ASSUME r.list = <<z>>, CdName \in r.opts.pattern PROVE FALSE
      OBVIOUS
    <3>2. i = 1 /\ Len(r.list) = 1
      BY <1>8
    <3> QED
      BY <3>1, <3>2
  <2>3. Lists(u, r)
    BY <1>5, <2>1, <2>2 DEF Lists
  <2> QED
    BY <1>5, <2>1, <2>3 DEF SameSession
<1>10. CASE f.err = "ok" /\ Current(f.r).name # CdName
  <2>1. PICK g \in GotoFirst(f.r) : u = g.r
    BY <1>2, <1>10
  <2>2. g \in GotoFrom(f.r, 1) /\ 1 \in 1..(Len(f.r.list) + 1)
    BY <1>3, <1>5, Zenon DEF GotoFirst
  <2>3. RdInv(u) /\ u.list = f.r.list /\ u.open = f.r.open /\ u.path = f.r.path /\ u.opts = f.r.opts
    BY <1>3, <1>5, <2>1, <2>2, GotoInv
  <2>4. \A z \in Zipped : ~(r.list = <<z>> /\ CdName \in r.opts.pattern)
    <3> TAKE z \in Zipped
    <3> SUFFICES ASSUME r.list = <<z>>, CdName \in r.opts.pattern PROVE FALSE
      OBVIOUS
    <3>1. i = 1
      BY <1>8
    <3>2. Current(f.r) = z
      BY <1>5, <1>7, <1>10, <3>1 DEF Current
    <3> QED
      BY <1>10, <3>2, ListedNames
  <2>5. Lists(u, r)
    BY <1>5, <2>3, <2>4 DEF Lists
  <2> QED
    BY <1>5, <2>3, <2>5 DEF SameSession
<1>11. CASE f.err = "ok" /\ Current(f.r).name = CdName
  <2>1. PICK o \in EntryOpened(f.r) : u \in IF o.err = "ok" THEN CdCopied(o.r) ELSE {o.r}
    BY <1>2, <1>11, Zenon
  <2>2. f.r.info # 0 /\ f.r.info \in 1..Len(r.list)
    BY <1>7, <1>11
  <2>3. r.list \notin Seq(Plain)
    <3> SUFFICES ASSUME r.list \in Seq(Plain) PROVE FALSE
      OBVIOUS
    <3> HIDE DEF Plain
    <3>1. r.list[f.r.info] \in Plain
      BY <2>2
    <3>2. Current(f.r) = r.list[f.r.info]
      BY <1>5, Zenon DEF Current
    <3> QED
      BY <1>11, <3>1, <3>2, ListedNames
  <2>4. \/ o.r = f.r /\ Refused(o.err, f.r)
        \/ Began(o.r, f.r) /\ Accepted(o, f.r)
    BY <1>5, <2>1, <2>2, EntryOpenedIs
  <2>5. CASE o.r = f.r /\ Refused(o.err, f.r)
    <3>1. u = f.r
      BY <2>1, <2>5 DEF Refused
    <3>2. Current(f.r).key # Nil /\ f.r.opts.password \notin {Nil, Current(f.r).key}
      BY <2>5 DEF Refused
    <3>3. \A z \in Zipped : r.list = <<z>> => ~ReadsAsCrc(z, r.opts.password)
      <4> TAKE z \in Zipped
      <4> HAVE r.list = <<z>>
      <4>1. Current(f.r) = z
        <5>1. f.r.info = 1
          BY <2>2
        <5> QED
          BY <1>5, <5>1 DEF Current
      <4> QED
        BY <1>5, <3>2, <4>1 DEF ReadsAsCrc
    <3>4. Lists(u, r)
      BY <2>3, <3>3, Zenon DEF Lists
    <3> QED
      BY <1>5, <3>1, <3>4 DEF SameSession
  <2>6. CASE Began(o.r, f.r) /\ Accepted(o, f.r)
    <3>1. RdInv(o.r) /\ o.r.entry # NoEntry /\ o.r.entry.pos = 0 /\ SamePlace(o.r, f.r)
      <4>1. PlaceInv(f.r)
        BY <1>5 DEF RdInv
      <4> QED
        BY <2>6, <4>1, BeganInv DEF Began
    <3>2. Current(o.r) = Current(f.r) /\ o.r.list = r.list /\ SameSession(o.r, r)
      BY <1>5, <3>1 DEF Current, SamePlace, SameSession
    <3>3. \A z \in Zipped : r.list = <<z>> => Current(f.r) = z
      <4> TAKE z \in Zipped
      <4> HAVE r.list = <<z>>
      <4>1. f.r.info = 1
        BY <2>2
      <4> QED
        BY <1>5, <4>1 DEF Current
    <3>4. o.err = IF Current(f.r).hash = Unknown THEN "support" ELSE "ok"
      BY <2>6, Zenon DEF Accepted
    <3>5. o.r.entry.data = Stream(Current(f.r), f.r.opts.raw, f.r.opts.password).data
      BY <2>6, Zenon DEF Accepted
    <3>6. CASE o.err # "ok"
      <4>1. u = o.r
        BY <2>1, <3>6
      <4>2. Lists(u, r)
        BY <2>3, <3>3, <3>4, <3>6, Zenon DEF Lists, ReadsAsCrc
      <4> QED
        BY <3>1, <3>2, <4>1, <4>2
    <3>7. CASE o.err = "ok"
      <4>1. u \in CdCopied(o.r)
        BY <2>1, <3>7
      <4>2. Current(o.r).name = CdName
        BY <1>11, <3>2
      <4>3. /\ RdInv(u) /\ SameSession(u, o.r)
            /\ \A z \in Zipped : o.r.list = <<z>> /\ o.r.entry.data = z.crc => u.list = z.dir
        BY <3>1, <4>1, <4>2, CdCopiedIs
      <4>4. Lists(u, r)
        <5> SUFFICES ASSUME NEW z \in Zipped, r.list = <<z>>, ~r.opts.raw, ReadsAsCrc(z, r.opts.password), r.opts.raw \in BOOLEAN
                     PROVE  u.list = z.dir
          BY <2>3, Zenon DEF Lists, PlaceInv
        <5>1. r.opts.raw = FALSE /\ f.r.opts = r.opts
          BY <1>5
        <5>2. o.r.entry.data = Stream(z, FALSE, r.opts.password).data
          BY <3>3, <3>5, <5>1
        <5> QED
          BY <3>2, <4>3, <5>2 DEF ReadsAsCrc
      <4>5. SameSession(u, r)
        BY <3>2, <4>3 DEF SameSession
      <4> QED
        BY <4>3, <4>4, <4>5
    <3> QED
      BY <3>6, <3>7
  <2> QED
    BY <2>4, <2>5, <2>6
<1> QED
  BY <1>9, <1>10, <1>11

-----------------------------------------------------------------------------
(* Goto, locate and open *)

\* Going on, from wherever it is.
SameList(r2, r) == SameSession(r2, r) /\ r2.list = r.list

\* mz_zip_reader_goto_next_entry goes to the first entry behind that matches, if there is one.
LEMMA GotoNextIs ==
  ASSUME NEW r, RdInv(r), NEW g \in GotoNext(r)
  PROVE  /\ RdInv(g.r) /\ g.r.entry = NoEntry /\ SameList(g.r, r)
         /\ g.err = "ok" => g.r.info # 0 /\ g.r.info > r.at /\ g.r.info \in Matching(r, r.at + 1)
         /\ \A k \in Matching(r, r.at + 1) : g.err = "ok" /\ g.r.info <= k
<1>1. PlaceInv(r) /\ (r.entry.i = 0 => r.entry = NoEntry)
  BY OpenIsOpen DEF RdInv
<1>2. /\ DOMAIN r = RdFields /\ r.list \in Seq(Listed) /\ r.opts.raw \in BOOLEAN
      /\ Len(r.list) \in Nat /\ r.at \in 0..(Len(r.list) + 1) /\ r.at \in Nat
  BY <1>1, PlaceType DEF PlaceInv
<1>3. g \in GotoFrom(r, r.at + 1)
  BY Zenon DEF GotoNext
<1>4. CASE r.at <= Len(r.list)
  <2>1. r.at + 1 \in Nat /\ r.at + 1 \in 1..(Len(r.list) + 1)
    BY <1>2, <1>4
  <2>2. /\ RdInv(g.r) /\ g.r.entry = NoEntry
        /\ g.r.list = r.list /\ g.r.open = r.open /\ g.r.path = r.path /\ g.r.opts = r.opts
        /\ \E i \in Nat : Found(r, r.at + 1, i) /\ Gone(g.r, r, i)
                          /\ g.err = IF i <= Len(r.list) THEN "ok" ELSE "end"
    BY <1>3, <2>1, GotoInv
  <2>3. PICK i \in Nat : Found(r, r.at + 1, i) /\ Gone(g.r, r, i)
                         /\ g.err = IF i <= Len(r.list) THEN "ok" ELSE "end"
    BY <2>2
  <2>4. i <= Len(r.list) => g.r.info = i /\ i > r.at /\ i # 0 /\ i \in Matching(r, r.at + 1)
    BY <1>2, <2>3 DEF Gone, Found
  <2>5. \A k \in Matching(r, r.at + 1) : i <= k /\ k <= Len(r.list) /\ k \in Nat
    BY <1>2, <2>3 DEF Found, Matching
  <2>6. g.err = "ok" => i <= Len(r.list)
    BY <2>3
  <2>7. \A k \in Matching(r, r.at + 1) : g.err = "ok" /\ g.r.info <= k
    BY <1>2, <2>3, <2>4, <2>5
  <2> QED
    BY <2>2, <2>4, <2>6, <2>7 DEF SameList, SameSession
<1>5. CASE ~(r.at <= Len(r.list))
  <2>1. r.at = Len(r.list) + 1
    BY <1>2, <1>5
  <2>2. Matching(r, r.at + 1) = {}
    BY <1>2, <2>1 DEF Matching
  <2>3. g \in GoneTo(r, Len(r.list) + 1)
    BY <1>3, <2>2 DEF GotoFrom
  <2> DEFINE i == Len(r.list) + 1
  <2>4. Gone(g.r, r, i) /\ g.err = IF i <= Len(r.list) THEN "ok" ELSE "end"
    BY <1>1, <1>2, <2>3, GoneToIs
  <2>5. i \in 1..(Len(r.list) + 1) /\ ~(i <= Len(r.list))
    BY <1>2
  <2>6. RdInv(g.r)
    <3> HIDE DEF i
    <3> QED
      BY <1>2, <2>4, <2>5, GoneInv
  <2>7. g.err # "ok"
    BY <2>4, <2>5
  <2> QED
    BY <2>2, <2>4, <2>6, <2>7 DEF Gone, SameList, SameSession
<1> QED
  BY <1>4, <1>5

\* mz_zip_reader_goto_first_entry goes to the first entry that matches, if there is one.
LEMMA GotoFirstIs ==
  ASSUME NEW r, RdInv(r), NEW g \in GotoFirst(r)
  PROVE  /\ RdInv(g.r) /\ g.r.entry = NoEntry /\ SameList(g.r, r)
         /\ g.err = "ok" => g.r.info # 0 /\ g.r.info \in Matching(r, 1)
         /\ \A k \in Matching(r, 1) : g.err = "ok" /\ g.r.info <= k
<1>1. Len(r.list) \in Nat
  BY PlaceType DEF RdInv
<1>2. 1 \in Nat /\ 1 \in 1..(Len(r.list) + 1)
  BY <1>1
<1>3. g \in GotoFrom(r, 1)
  BY Zenon DEF GotoFirst
<1>4. /\ RdInv(g.r) /\ g.r.entry = NoEntry
      /\ g.r.list = r.list /\ g.r.open = r.open /\ g.r.path = r.path /\ g.r.opts = r.opts
      /\ \E i \in Nat : Found(r, 1, i) /\ Gone(g.r, r, i)
                        /\ g.err = IF i <= Len(r.list) THEN "ok" ELSE "end"
  BY <1>2, <1>3, GotoInv
<1>5. PICK i \in Nat : Found(r, 1, i) /\ Gone(g.r, r, i)
                       /\ g.err = IF i <= Len(r.list) THEN "ok" ELSE "end"
  BY <1>4
<1>6. i <= Len(r.list) => g.r.info = i /\ i # 0 /\ i \in Matching(r, 1)
  BY <1>1, <1>5 DEF Gone, Found
<1>7. \A k \in Matching(r, 1) : i <= k /\ k <= Len(r.list) /\ k \in Nat
  BY <1>1, <1>5 DEF Found, Matching
<1>8. g.err = "ok" => i <= Len(r.list)
  BY <1>5
<1>9. \A k \in Matching(r, 1) : g.err = "ok" /\ g.r.info <= k
  BY <1>1, <1>5, <1>6, <1>7
<1> QED
  BY <1>4, <1>6, <1>8, <1>9 DEF SameList, SameSession

\* Locating an entry.
LEMMA LocateIs ==
  ASSUME NEW name, RdInv(rd), Locate(name)
  PROVE  RdInv(rd') /\ SameList(rd', rd)
<1> DEFINE here == rd.info # 0 /\ Current(rd).name = name
           all  == {i \in DOMAIN rd.list : rd.list[i].name = name}
           i == IF here THEN rd.at ELSE IF all = {} THEN Len(rd.list) + 1 ELSE MinOf(all)
<1>1. PICK g \in GoneTo(rd, i) : rd' = g.r
  BY Zenon DEF Locate
<1>2. PlaceInv(rd) /\ (rd.entry.i = 0 => rd.entry = NoEntry)
  BY OpenIsOpen DEF RdInv
<1>3. /\ DOMAIN rd = RdFields /\ rd.list \in Seq(Listed) /\ rd.opts.raw \in BOOLEAN
      /\ Len(rd.list) \in Nat /\ (rd.info # 0 => rd.info \in 1..Len(rd.list) /\ rd.info = rd.at)
  BY <1>2, PlaceType DEF PlaceInv
<1>4. i \in 1..(Len(rd.list) + 1)
  <2>1. CASE here
    BY <1>3, <2>1
  <2>2. CASE ~here /\ all = {}
    <3>1. i = Len(rd.list) + 1
      BY <2>2
    <3> HIDE DEF i
    <3> QED
      BY <1>3, <3>1
  <2>3. CASE ~here /\ all # {}
    <3>1. all \subseteq 1..Len(rd.list)
      BY <1>3
    <3>2. all \subseteq Nat
      BY <3>1
    <3>3. MinOf(all) \in all
      BY <2>3, <3>2, MinOfIs
    <3>4. MinOf(all) \in 1..Len(rd.list)
      BY <3>1, <3>3, Zenon
    <3>5. i = MinOf(all)
      BY <2>3
    <3> HIDE DEF i, all
    <3> QED
      BY <1>3, <3>4, <3>5
  <2> QED
    BY <2>1, <2>2, <2>3
<1> HIDE DEF i
<1>5. Gone(rd', rd, i)
  BY <1>1, <1>2, <1>3, GoneToIs
<1>6. RdInv(rd')
  BY <1>3, <1>4, <1>5, GoneInv
<1> QED
  BY <1>5, <1>6 DEF Gone, SameList, SameSession

\* A reader without an archive.
LEMMA NoReaderInv == RdInv(NoReader) /\ NoReader.open = FALSE
<1>1. /\ DOMAIN NoReader = RdFields /\ NoReader.list = <<>> /\ NoReader.opts = NoOptions
      /\ NoReader.at = 0 /\ NoReader.info = 0 /\ NoReader.entry = NoEntry /\ NoReader.open = FALSE
  BY DEF NoReader, RdFields
<1>2. NoReader.opts.raw \in BOOLEAN
  BY <1>1 DEF NoOptions
<1>3. NoReader.list \in Seq(Listed) /\ Len(NoReader.list) = 0
  <2>1. <<>> \in Seq(Listed) /\ Len(<<>>) = 0
    OBVIOUS
  <2> QED
    BY <1>1, <2>1
<1>4. PlaceInv(NoReader)
  BY <1>1, <1>2, <1>3 DEF PlaceInv
<1> QED
  BY <1>1, <1>4, NoLongerOpen

\* What archives hold.
Stored(L) == L \in Seq(Plain) \/ \E z \in Zipped : L = <<z>>
ArchivesInv(A) == \A p \in DOMAIN A : Stored(A[p])

\* What is stored in an archive is a list of entries.
LEMMA StoredIsListed ==
  ASSUME NEW L, Stored(L) PROVE L \in Seq(Listed)
<1>1. CASE L \in Seq(Plain)
  <2>1. Plain \subseteq Listed
    BY Zenon DEF Listed
  <2> HIDE DEF Plain, Listed
  <2> QED
    BY <1>1, <2>1
<1>2. ASSUME NEW z \in Zipped, L = <<z>> PROVE L \in Seq(Listed)
  <2>1. z \in Listed
    BY Zenon DEF Listed
  <2> QED
    BY <1>2, <2>1
<1> QED
  BY <1>1, <1>2 DEF Stored

\* mz_zip_reader_open_file: a reader of that archive, which lists what is in it.
LEMMA ReaderOpenIs ==
  ASSUME ArchivesInv(archives), NEW p \in DOMAIN archives, NEW o \in ReaderOptions, ReaderOpen(p, o)
  PROVE  /\ RdInv(rd') /\ rd'.open /\ rd'.path = p /\ rd'.opts = o
         /\ \E r : r.list = archives[p] /\ r.opts = o /\ Lists(rd', r)
<1> DEFINE r == [NoReader EXCEPT !.open = TRUE, !.path = p, !.list = archives[p], !.opts = o]
<1>1. rd' \in UnzipCd(r)
  BY Zenon DEF ReaderOpen
<1>2. /\ DOMAIN r = RdFields /\ r.open = TRUE /\ r.path = p /\ r.list = archives[p] /\ r.opts = o
      /\ r.at = 0 /\ r.info = 0 /\ r.entry = NoEntry
  BY DEF NoReader, RdFields
<1>3. o.raw \in BOOLEAN
  BY ReaderAssumption
<1>4. archives[p] \in Seq(Listed)
  BY StoredIsListed DEF ArchivesInv
<1> HIDE DEF r
<1>5. Len(r.list) \in Nat
  BY <1>2, <1>4
<1>6. PlaceInv(r)
  BY <1>2, <1>3, <1>4, <1>5 DEF PlaceInv
<1>7. RdInv(rd') /\ SameSession(rd', r) /\ Lists(rd', r)
  BY <1>1, <1>2, <1>6, UnzipCdIs
<1> QED
  BY <1>2, <1>7 DEF SameSession

-----------------------------------------------------------------------------
(* The steps of a reader *)

\* Closing an entry leaves a reader.
LEMMA EntryClosedInv ==
  ASSUME NEW r, RdInv(r), NEW c \in EntryClosed(r)
  PROVE  RdInv(c.r) /\ c.r.entry = NoEntry /\ SamePlace(c.r, r) /\ SameList(c.r, r)
<1>1. PlaceInv(r) /\ DOMAIN r = RdFields
  BY DEF RdInv, PlaceInv
<1>2. SamePlace(c.r, r) /\ c.r.entry = NoEntry
  BY <1>1, EntryClosedIs
<1>3. PlaceInv(c.r)
  BY <1>1, <1>2, PlaceAgain
<1>4. RdInv(c.r)
  BY <1>2, <1>3, NoLongerOpen
<1> QED
  BY <1>2, <1>4 DEF SamePlace, SameList, SameSession

\* So does reading from it.
LEMMA EntryReadInv ==
  ASSUME NEW r, RdInv(r), r.entry # NoEntry
  PROVE  RdInv(EntryRead(r).r) /\ SamePlace(EntryRead(r).r, r) /\ SameList(EntryRead(r).r, r)
<1> DEFINE r2 == EntryRead(r).r
<1>1. SamePlace(r2, r) /\ OpenInv(r2, r2.entry)
  BY EntryReadIs DEF ReadOn
<1> HIDE DEF r2
<1>2. PlaceInv(r2)
  BY <1>1, PlaceAgain DEF RdInv
<1>3. RdInv(r2)
  BY <1>1, <1>2 DEF RdInv
<1>4. SameList(r2, r)
  BY <1>1 DEF SamePlace, SameList, SameSession
<1> QED
  BY <1>1, <1>3, <1>4 DEF r2

\* So does opening one.
LEMMA EntryOpenedInv ==
  ASSUME NEW r, RdInv(r), NEW o \in EntryOpened(r)
  PROVE  RdInv(o.r) /\ SamePlace(o.r, r) /\ SameList(o.r, r)
<1>0. PlaceInv(r) /\ SamePlace(r, r) /\ SameList(r, r)
  BY DEF RdInv, PlaceInv, SamePlace, SameList, SameSession
<1>1. CASE r.info = 0
  <2>1. o \in {[r |-> r, err |-> "param"]}
    BY <1>1 DEF EntryOpened
  <2>2. o.r = r
    BY <2>1
  <2> QED
    BY <1>0, <2>2
<1>2. CASE r.info # 0 /\ o.r = r
  BY <1>0, <1>2
<1>3. CASE r.info # 0 /\ o.r # r
  <2>1. Began(o.r, r)
    BY <1>3, EntryOpenedIs
  <2>2. RdInv(o.r) /\ SamePlace(o.r, r)
    BY <1>0, <2>1, BeganInv DEF Began
  <2> QED
    BY <2>2 DEF SamePlace, SameList, SameSession
<1> QED
  BY <1>1, <1>2, <1>3

\* What most steps of a reader leave alone, and that only an open is noted as one.
Later == last' = last \/ last'.op # "open"
Stays == RdInv(rd') /\ SameList(rd', rd) /\ archives' = archives /\ Later

\* What leaves the reader alone is such a step.
LEMMA SameStays ==
  ASSUME RdInv(rd), rd' = rd, archives' = archives, Later PROVE Stays
BY DEF Stays, SameList, SameSession

\* A call that is not noted is no open.
LEMMA QuietIsLater == ASSUME Quiet PROVE Later
BY DEF Quiet, NoResult, Later

\* The end of a save is no open.
LEMMA DeliverIsLater ==
  ASSUME NEW err, job.op \in {"stream", "buffer", "file"}, Deliver(err) PROVE Later
<1>1. CASE last' = last
  BY <1>1 DEF Later
<1>2. CASE Finish(err)
  <2>1. last'.op = job.op
    BY <1>2 DEF Finish
  <2> QED
    BY <2>1 DEF Later
<1> QED
  BY <1>1, <1>2 DEF Deliver

\* Of the reader's steps only open, close and configure change what it lists or how it reads.
LEMMA ReaderStep ==
  ASSUME RdInv(rd), ArchivesInv(archives), ReaderMoves \/ ReaderReads \/ SaveStep
  PROVE  \/ Stays
         \/ ReaderClose
         \/ \E o \in ReaderOptions : Configure(o)
         \/ \E p \in DOMAIN archives, o \in ReaderOptions : ReaderOpen(p, o)
<1>1. ASSUME NEW how \in {"first", "next"}, Goto(how) PROVE Stays
  <2>1. PICK g \in IF how = "first" THEN GotoFirst(rd) ELSE GotoNext(rd) : rd' = g.r /\ Quiet
    BY <1>1, Zenon DEF Goto
  <2>2. RdInv(rd') /\ SameList(rd', rd)
    BY <2>1, GotoFirstIs, GotoNextIs
  <2>3. archives' = archives
    BY <1>1 DEF Goto
  <2> QED
    BY <2>1, <2>2, <2>3, QuietIsLater DEF Stays
<1>2. ASSUME NEW n \in Names, Locate(n) PROVE Stays
  <2>1. archives' = archives /\ Quiet
    BY <1>2 DEF Locate
  <2> QED
    BY <1>2, <2>1, LocateIs, QuietIsLater DEF Stays
<1>3. ASSUME NEW op \in {"stream", "buffer"}, SaveCall(op) PROVE Stays
  BY <1>3, SameStays DEF SaveCall, Later
<1>4. ASSUME SaveFile PROVE Stays
  BY <1>4, SameStays DEF SaveFile, Later
<1>5. ASSUME SaveAll PROVE Stays
  <2>1. PICK g \in GotoFirst(rd) :
          /\ rd' = g.r
          /\ IF g.err = "ok" THEN job' = [op |-> "all"] /\ UNCHANGED last
             ELSE job' = NoJob /\ Ended("all", g.err)
    BY <1>5, Zenon DEF SaveAll
  <2>2. RdInv(rd') /\ SameList(rd', rd)
    BY <2>1, GotoFirstIs
  <2>3. archives' = archives
    BY <1>5 DEF SaveAll
  <2>4. Later
    BY <2>1 DEF Later, Ended
  <2> QED
    BY <2>2, <2>3, <2>4 DEF Stays
<1>6. ASSUME ReadSome PROVE Stays
  <2>1. archives' = archives /\ Quiet
    BY <1>6 DEF ReadSome
  <2>2. RdInv(rd') /\ SameList(rd', rd)
    <3>1. CASE \E o \in EntryOpened(rd) : rd' = o.r
      BY <3>1, EntryOpenedInv
    <3>2. CASE rd.entry.i # 0 /\ rd' = EntryRead(rd).r
      <4>1. rd.entry # NoEntry
        BY <3>2, OpenIsOpen
      <4> QED
        BY <3>2, <4>1, EntryReadInv
    <3>3. CASE \E c \in EntryClosed(rd) : rd' = c.r
      BY <3>3, EntryClosedInv
    <3> QED
      BY <1>6, <3>1, <3>2, <3>3, Zenon DEF ReadSome
  <2> QED
    BY <2>1, <2>2, QuietIsLater DEF Stays
<1>7. ASSUME SaveOpen PROVE Stays
  <2>1. PICK o \in EntryOpened(rd) : rd' = o.r /\ IF o.err = "ok" THEN UNCHANGED <<job, last>> ELSE Deliver(o.err)
    BY <1>7, Zenon DEF SaveOpen
  <2>2. archives' = archives /\ job.op \in {"stream", "buffer", "file"}
    BY <1>7 DEF SaveOpen
  <2>3. Later
    <3>1. CASE o.err = "ok"
      BY <2>1, <3>1 DEF Later
    <3>2. CASE o.err # "ok"
      BY <2>1, <2>2, <3>2, DeliverIsLater
    <3> QED
      BY <3>1, <3>2
  <2> QED
    BY <2>1, <2>2, <2>3, EntryOpenedInv DEF Stays
<1>8. ASSUME NEW takes \in BOOLEAN, SaveProcess(takes) PROVE Stays
  <2>1. /\ job.op \in {"stream", "buffer", "file"} /\ rd.entry.i # 0 /\ rd' = EntryRead(rd).r
        /\ archives' = archives
    BY <1>8, Zenon DEF SaveProcess
  <2>2. RdInv(rd') /\ SameList(rd', rd)
    <3>1. rd.entry # NoEntry
      BY <2>1, OpenIsOpen
    <3> QED
      BY <2>1, <3>1, EntryReadInv
  <2>3. (\E err : Deliver(err)) \/ last' = last
    BY <1>8, Zenon DEF SaveProcess
  <2>4. Later
    <3>1. CASE last' = last
      BY <3>1 DEF Later
    <3> QED
      BY <2>1, <2>3, <3>1, DeliverIsLater
  <2> QED
    BY <2>1, <2>2, <2>4 DEF Stays
<1>9. ASSUME SaveEnd PROVE Stays
  <2>1. /\ job.op \in {"stream", "buffer", "file"} /\ rd.entry.i # 0 /\ archives' = archives
        /\ \E c \in EntryClosed(EntryRead(rd).r) : rd' = c.r /\ Deliver(c.err)
    BY <1>9, Zenon DEF SaveEnd
  <2>2. PICK c \in EntryClosed(EntryRead(rd).r) : rd' = c.r /\ Deliver(c.err)
    BY <2>1
  <2>3. rd.entry # NoEntry
    BY <2>1, OpenIsOpen
  <2>4. RdInv(EntryRead(rd).r) /\ SameList(EntryRead(rd).r, rd)
    BY <2>3, EntryReadInv
  <2>5. RdInv(rd') /\ SameList(rd', EntryRead(rd).r)
    BY <2>2, <2>4, EntryClosedInv
  <2>6. SameList(rd', rd)
    BY <2>4, <2>5 DEF SameList, SameSession
  <2> QED
    BY <2>1, <2>2, <2>5, <2>6, DeliverIsLater DEF Stays
<1>10. ASSUME SaveAllFile PROVE Stays
  BY <1>10, SameStays DEF SaveAllFile, Later
<1>11. ASSUME SaveFileDone PROVE Stays
  <2>1. archives' = archives
    BY <1>11 DEF SaveFileDone
  <2>2. CASE ~job.all \/ job.err # "ok"
    <3>1. rd' = rd /\ Ended(IF job.all THEN "all" ELSE "file without data", job.err)
      BY <1>11, <2>2 DEF SaveFileDone
    <3>2. Later
      BY <3>1 DEF Ended, Later
    <3> QED
      BY <2>1, <3>1, <3>2, SameStays
  <2>3. CASE ~(~job.all \/ job.err # "ok")
    <3>1. PICK g \in GotoNext(rd) : /\ rd' = g.r
                                    /\ IF g.err = "ok" THEN job' = [op |-> "all"] /\ UNCHANGED last
                                       ELSE job' = NoJob /\ Ended("all", "ok")
      BY <1>11, <2>3, Zenon DEF SaveFileDone, AfterSaved
    <3>2. Later
      BY <3>1 DEF Ended, Later
    <3>3. RdInv(rd') /\ SameList(rd', rd)
      BY <3>1, GotoNextIs
    <3> QED
      BY <2>1, <3>2, <3>3 DEF Stays
  <2> QED
    BY <2>2, <2>3
<1> QED
  BY <1>1, <1>2, <1>3, <1>4, <1>5, <1>6, <1>7, <1>8, <1>9, <1>10, <1>11, Zenon
     DEF ReaderMoves, ReaderReads, SaveStep

-----------------------------------------------------------------------------
(* What a writer is, and closing an entry *)

\* What an entry's record is written with, before its data are known.
Headers(names, dirs) ==
  [name : names, kind : {"file", "dir", "link"}, crc : Body, method : {"store", "deflate"},
   hash : Body \cup {Nil, Unknown}, key : {Nil, Key}, body : Body, packed : BOOLEAN, dir : dirs]

\* An entry that is being written.
WeFields == {"i", "raw", "tokens", "info"}
WeInv(en, names, dirs) ==
  /\ DOMAIN en = WeFields /\ en.i = 1 /\ en.raw \in BOOLEAN /\ en.tokens \in Body
  /\ en.info \in Headers(names, dirs)
  /\ ~en.raw => en.tokens \in Data
  /\ en.raw /\ en.info.packed => en.tokens \in Seq(Data)
  /\ en.info.kind = "dir" => en.tokens = <<>> /\ en.info.method = "store"

\* An entry, field by field.
LEMMA EntryIs ==
  ASSUME NEW names, NEW dirs, NEW e
  PROVE  e \in EntriesOf(names, dirs) <=>
           /\ e \in Headers(names, dirs) /\ (e.packed => e.body \in Seq(Data))
           /\ (e.kind = "dir" => e.body = <<>>)
BY DEF EntriesOf, Headers

\* Its record, field by field.
IsRecord(r, en, crc, hash) ==
  /\ r.name = en.info.name /\ r.kind = en.info.kind /\ r.hash = hash /\ r.key = en.info.key
  /\ r.method = en.info.method /\ r.dir = en.info.dir
  /\ r.crc = IF en.raw THEN crc ELSE en.tokens
  /\ r.body = IF ~en.raw /\ en.info.method = "deflate" THEN <<en.tokens>> ELSE en.tokens
  /\ r.packed = IF en.raw THEN en.info.packed /\ en.tokens # <<>> ELSE en.info.method = "deflate"

\* The record an entry leaves when it is closed is an entry.
LEMMA RecordedIs ==
  ASSUME NEW names, NEW dirs, NEW en, WeInv(en, names, dirs),
         NEW crc \in Body, NEW hash \in Body \cup {Nil, Unknown},
         NEW r, r = Recorded(en, crc, hash)
  PROVE  IsRecord(r, en, crc, hash) /\ r \in EntriesOf(names, dirs)
<1> DEFINE e == en.info
<1>1. e \in Headers(names, dirs) /\ en.tokens \in Body /\ en.raw \in BOOLEAN
  BY DEF WeInv
<1>2. /\ e.name \in names /\ e.kind \in {"file", "dir", "link"} /\ e.method \in {"store", "deflate"}
      /\ e.key \in {Nil, Key} /\ e.packed \in BOOLEAN /\ e.dir \in dirs /\ e.body \in Body
  BY <1>1 DEF Headers
<1>3. CASE en.raw
  <2> DEFINE x == [e EXCEPT !.crc = crc, !.body = en.tokens, !.hash = hash,
                            !.packed = @ /\ en.tokens # <<>>]
  <2>1. r = x
    BY <1>3 DEF Recorded
  <2>2. x \in Headers(names, dirs) /\ x.name = e.name /\ x.kind = e.kind /\ x.hash = hash /\ x.key = e.key
        /\ x.method = e.method /\ x.dir = e.dir /\ x.crc = crc /\ x.body = en.tokens
        /\ x.packed = (e.packed /\ en.tokens # <<>>)
    BY <1>1 DEF Headers
  <2> HIDE DEF x, e
  <2>3. x.packed => x.body \in Seq(Data)
    BY <1>3, <2>2, Zenon DEF WeInv, e
  <2>4. x.kind = "dir" => x.body = <<>>
    BY <2>2, Zenon DEF WeInv, e
  <2>5. x \in EntriesOf(names, dirs)
    BY <2>2, <2>3, <2>4, EntryIs
  <2> QED
    BY <1>3, <2>1, <2>2, <2>5 DEF IsRecord, e
<1>4. CASE ~en.raw
  <2> DEFINE body == IF e.method = "deflate" THEN <<en.tokens>> ELSE en.tokens
             x == [name |-> e.name, kind |-> e.kind, crc |-> en.tokens, method |-> e.method, hash |-> hash,
                   key |-> e.key, body |-> body, packed |-> e.method = "deflate", dir |-> e.dir]
  <2>1. r = [Entry(e.name, e.kind, en.tokens, e.method, hash, e.key) EXCEPT !.dir = e.dir]
    BY <1>4 DEF Recorded
  <2>2. r = x
    BY <2>1 DEF Entry
  <2>3. en.tokens \in Data
    BY <1>4 DEF WeInv
  <2>4. body \in Body /\ (e.method = "deflate" => body \in Seq(Data))
    <3>1. <<en.tokens>> \in Seq(Data)
      BY <2>3
    <3>2. <<en.tokens>> \in Body
      BY <2>3 DEF Body
    <3> QED
      BY <1>1, <3>1, <3>2
  <2>5. e.kind = "dir" => body = <<>>
    <3>1. e.kind = "dir" => en.tokens = <<>> /\ e.method = "store"
      BY DEF WeInv
    <3> QED
      BY <3>1
  <2> HIDE DEF body, e
  <2>6. x \in Headers(names, dirs)
    BY <1>1, <1>2, <2>4 DEF Headers
  <2>7. x \in EntriesOf(names, dirs)
    BY <2>4, <2>5, <2>6, EntryIs
  <2> QED
    BY <1>4, <2>2, <2>7 DEF IsRecord, e, body
<1> QED
  BY <1>1, <1>3, <1>4

\* A writer.
WrFields == {"open", "path", "mem", "list", "entry", "hash", "raw", "opts"}
Settings == [level : {"best", "none"}, raw : BOOLEAN, zipCd : BOOLEAN, key : {Nil, Key}]
WrInv(w) ==
  /\ DOMAIN w = WrFields /\ w.raw \in BOOLEAN /\ w.list \in Seq(Plain)
  /\ w.hash \in Body \cup {Nil} /\ w.opts \in Settings
  /\ w.entry = NoEntry \/ WeInv(w.entry, Names, {<<>>})
SameWriter(w2, w) ==
  /\ DOMAIN w2 = WrFields /\ w2.open = w.open /\ w2.path = w.path /\ w2.mem = w.mem /\ w2.opts = w.opts

\* mz_zip_entry_close leaves a writer, with the record of what was open behind the others.
LEMMA ClosedIs ==
  ASSUME NEW w, WrInv(w), NEW c, c = Closed(w)
  PROVE  /\ WrInv(c) /\ SameWriter(c, w) /\ c.raw = w.raw /\ c.hash = w.hash /\ c.entry = NoEntry
         /\ Len(c.list) = Len(w.list) + w.entry.i /\ w.entry.i \in {0, 1}
         /\ w.entry = NoEntry => c = w
<1>1. DOMAIN w = WrFields /\ w.list \in Seq(Plain)
  BY DEF WrInv
<1>2. w.entry = NoEntry => w.entry.i = 0
  BY DEF NoEntry
<1>3. WeInv(w.entry, Names, {<<>>}) => w.entry.i = 1
  BY DEF WeInv
<1>4. CASE w.entry.i = 0
  <2>1. c = w
    BY <1>4 DEF Closed
  <2>2. Len(w.list) \in Nat
    BY <1>1
  <2>3. w.entry = NoEntry
    BY <1>3, <1>4 DEF WrInv
  <2> QED
    BY <1>1, <1>4, <2>1, <2>2, <2>3 DEF SameWriter
<1>5. CASE w.entry.i # 0
  <2>1. WeInv(w.entry, Names, {<<>>}) /\ w.entry.i = 1
    BY <1>2, <1>3, <1>5 DEF WrInv
  <2> DEFINE x == Recorded(w.entry, <<>>, w.entry.info.hash)
  <2>2. w.entry.info.hash \in Body \cup {Nil, Unknown} /\ <<>> \in Body
    BY <2>1, BodyFacts DEF WeInv, Headers
  <2>3. x \in Plain
    <3> HIDE DEF x
    <3>1. x \in EntriesOf(Names, {<<>>})
      BY <2>1, <2>2, RecordedIs DEF x
    <3> QED
      BY <3>1, Zenon DEF Plain
  <2> HIDE DEF x
  <2>4. c = [w EXCEPT !.list = Append(@, x), !.entry = NoEntry]
    BY <1>5, Zenon DEF Closed, x
  <2>5. /\ DOMAIN c = WrFields /\ c.open = w.open /\ c.path = w.path /\ c.mem = w.mem /\ c.opts = w.opts
        /\ c.raw = w.raw /\ c.hash = w.hash /\ c.entry = NoEntry /\ c.list = Append(w.list, x)
    BY <1>1, <2>4 DEF WrFields
  <2>6. c.list \in Seq(Plain) /\ Len(c.list) = Len(w.list) + 1
    <3> HIDE DEF Plain
    <3> QED
      BY <1>1, <2>3, <2>5
  <2>7. WrInv(c)
    BY <2>5, <2>6 DEF WrInv
  <2> QED
    BY <1>2, <2>1, <2>5, <2>6, <2>7 DEF SameWriter
<1> QED
  BY <1>4, <1>5

\* Opening an entry and giving it data.
Header(w, e) ==
  [e EXCEPT !.method = Method(w.opts.level, e),
            !.key = IF ~w.raw /\ e.kind # "dir" /\ w.opts.key # Nil THEN w.opts.key ELSE e.key]
Ready(w, e, d) == [i |-> 1, raw |-> w.raw, tokens |-> d, info |-> Header(w, e)]

\* What is open is described by a header.
LEMMA HeaderIs ==
  ASSUME NEW w, WrInv(w), NEW names, NEW dirs, NEW e \in Headers(names, dirs)
  PROVE  /\ Header(w, e) \in Headers(names, dirs)
         /\ Header(w, e).name = e.name /\ Header(w, e).kind = e.kind /\ Header(w, e).hash = e.hash
         /\ Header(w, e).dir = e.dir /\ Header(w, e).packed = e.packed /\ Header(w, e).crc = e.crc
         /\ Header(w, e).method = Method(w.opts.level, e)
         /\ Header(w, e).key = IF ~w.raw /\ e.kind # "dir" /\ w.opts.key # Nil THEN w.opts.key ELSE e.key
         /\ e.kind = "dir" => Header(w, e).method = "store"
<1> DEFINE m == Method(w.opts.level, e)
           k == IF ~w.raw /\ e.kind # "dir" /\ w.opts.key # Nil THEN w.opts.key ELSE e.key
<1>1. w.opts.key \in {Nil, Key}
  BY DEF WrInv, Settings
<1>2. e.key \in {Nil, Key} /\ e.method \in {"store", "deflate"}
  BY DEF Headers
<1>3. k \in {Nil, Key} /\ m \in {"store", "deflate"} /\ (e.kind = "dir" => m = "store")
  BY <1>1, <1>2 DEF Method
<1> HIDE DEF m, k
<1>4. Header(w, e) = [e EXCEPT !.method = m, !.key = k]
  BY Zenon DEF Header, m, k
<1> QED
  BY <1>3, <1>4 DEF Headers, m, k

-----------------------------------------------------------------------------
(* Opening, writing and finishing an entry *)

\* Data that an entry can be given.
Suits(w, e, d) ==
  /\ d \in Body /\ (~w.raw => d \in Data) /\ (w.raw /\ e.packed => d \in Seq(Data))
  /\ e.kind = "dir" => d = <<>>

\* An entry that is written to is one that may be closed.
LEMMA ReadyInv ==
  ASSUME NEW w, WrInv(w), NEW names, NEW dirs, NEW e \in Headers(names, dirs), NEW d, Suits(w, e, d)
  PROVE  WeInv(Ready(w, e, d), names, dirs)
<1> DEFINE en == Ready(w, e, d)
<1>1. DOMAIN en = WeFields /\ en.i = 1 /\ en.raw = w.raw /\ en.tokens = d /\ en.info = Header(w, e)
  BY DEF Ready, WeFields
<1> HIDE DEF en
<1>2. /\ en.info \in Headers(names, dirs) /\ en.info.packed = e.packed /\ en.info.kind = e.kind
      /\ (e.kind = "dir" => en.info.method = "store")
  BY <1>1, HeaderIs
<1>3. w.raw \in BOOLEAN
  BY DEF WrInv
<1>4. WeInv(en, names, dirs)
  BY <1>1, <1>2, <1>3 DEF WeInv, Suits
<1> QED
  BY <1>4 DEF en

\* mz_zip_writer_entry_open: what was open is closed, and the entry opened.
LEMMA OpenedIs ==
  ASSUME NEW w, WrInv(w), NEW e, NEW o, o = Opened(w, e)
  PROVE  /\ SameWriter(o, w) /\ o.raw = w.raw /\ o.list = Closed(w).list
         /\ o.entry = Ready(w, e, <<>>) /\ o.hash = IF e.kind = "dir" THEN w.hash ELSE <<>>
<1> DEFINE c == Closed(w)
           en == Ready(w, e, <<>>)
           hash == IF e.kind = "dir" THEN c.hash ELSE <<>>
<1>1. SameWriter(c, w) /\ c.raw = w.raw /\ c.hash = w.hash
  BY ClosedIs
<1>2. o = [c EXCEPT !.entry = en, !.hash = hash]
  BY DEF Opened, Ready, Header
<1> HIDE DEF c, en, hash
<1>3. /\ DOMAIN o = WrFields /\ o.open = c.open /\ o.path = c.path /\ o.mem = c.mem /\ o.opts = c.opts
      /\ o.raw = c.raw /\ o.list = c.list /\ o.entry = en /\ o.hash = hash
  BY <1>1, <1>2 DEF SameWriter, WrFields
<1>4. SameWriter(o, w)
  BY <1>1, <1>3 DEF SameWriter
<1>5. hash = IF e.kind = "dir" THEN w.hash ELSE <<>>
  BY <1>1 DEF hash
<1> QED
  BY <1>1, <1>3, <1>4, <1>5 DEF c, en

\* mz_zip_writer_entry_write: what is written goes behind what was, and into the hash.
LEMMA WrittenIs ==
  ASSUME NEW o, DOMAIN o = WrFields, NEW w, NEW e, o.entry = Ready(w, e, <<>>), NEW d \in Body,
         NEW x, x = Written(o, d)
  PROVE  /\ SameWriter(x, o) /\ x.raw = o.raw /\ x.list = o.list /\ x.entry = Ready(w, e, d)
         /\ x.hash = IF o.hash = Nil THEN Nil ELSE o.hash \o d
<1> DEFINE en == [o.entry EXCEPT !.tokens = @ \o d]
           hash == IF o.hash = Nil THEN Nil ELSE o.hash \o d
<1>1. x = [o EXCEPT !.entry = en, !.hash = hash]
  BY DEF Written
<1>2. <<>> \o d = d
  BY DEF Body
<1>3. en = Ready(w, e, d)
  <2>1. en = [Ready(w, e, <<>>) EXCEPT !.tokens = <<>> \o d]
    BY DEF Ready
  <2>2. en = [Ready(w, e, <<>>) EXCEPT !.tokens = d]
    BY <1>2, <2>1, Zenon
  <2> HIDE DEF en
  <2> QED
    BY <2>2 DEF Ready
<1> HIDE DEF en, hash
<1>4. /\ DOMAIN x = WrFields /\ x.open = o.open /\ x.path = o.path /\ x.mem = o.mem /\ x.opts = o.opts
      /\ x.raw = o.raw /\ x.list = o.list /\ x.entry = en /\ x.hash = hash
  BY <1>1 DEF WrFields
<1> QED
  BY <1>3, <1>4 DEF SameWriter, hash

\* An entry is opened and given its data.
LEMMA BegunIs ==
  ASSUME NEW w, WrInv(w), NEW names, NEW dirs, NEW e \in Headers(names, dirs), NEW d, Suits(w, e, d),
         NEW x, x = Written(Opened(w, e), d)
  PROVE  /\ SameWriter(x, w) /\ x.raw = w.raw /\ x.list = Closed(w).list
         /\ x.entry = Ready(w, e, d) /\ WeInv(x.entry, names, dirs)
         /\ x.hash \in Body \cup {Nil}
         /\ e.kind # "dir" => x.hash = d
         /\ e.kind = "dir" /\ w.hash = Nil => x.hash = Nil
<1> DEFINE o == Opened(w, e)
<1>1. /\ SameWriter(o, w) /\ o.raw = w.raw /\ o.list = Closed(w).list
      /\ o.entry = Ready(w, e, <<>>) /\ o.hash = IF e.kind = "dir" THEN w.hash ELSE <<>>
  BY OpenedIs
<1>2. x = Written(o, d)
  OBVIOUS
<1> HIDE DEF o
<1>3. d \in Body /\ DOMAIN o = WrFields
  BY <1>1 DEF Suits, SameWriter
<1>4. /\ SameWriter(x, o) /\ x.raw = o.raw /\ x.list = o.list /\ x.entry = Ready(w, e, d)
      /\ x.hash = IF o.hash = Nil THEN Nil ELSE o.hash \o d
  BY <1>1, <1>2, <1>3, WrittenIs
<1>5. WeInv(x.entry, names, dirs)
  BY <1>4, ReadyInv
<1>6. SameWriter(x, w)
  BY <1>1, <1>4 DEF SameWriter
<1>7. <<>> # Nil /\ <<>> \o d = d
  <2>1. <<>> # Nil
    BY BodyFacts
  <2>2. <<>> \o d = d
    BY <1>3 DEF Body
  <2> QED
    BY <2>1, <2>2
<1>8. e.kind # "dir" => x.hash = d
  BY <1>1, <1>4, <1>7
<1>9. e.kind = "dir" /\ w.hash = Nil => x.hash = Nil
  BY <1>1, <1>4
<1>10. x.hash \in Body \cup {Nil}
  <2>1. CASE e.kind # "dir"
    BY <1>3, <1>8, <2>1
  <2>2. CASE e.kind = "dir"
    <3>1. w.hash \in Body \cup {Nil}
      BY DEF WrInv
    <3>2. x.hash = IF w.hash = Nil THEN Nil ELSE w.hash \o d
      BY <1>1, <1>4, <2>2
    <3> QED
      BY <1>3, <3>1, <3>2, BodyFacts
  <2> QED
    BY <2>1, <2>2
<1> QED
  BY <1>1, <1>4, <1>5, <1>6, <1>8, <1>9, <1>10

\* An entry is ended with a record.
Ends(y, x, r) ==
  /\ SameWriter(y, x) /\ y.raw = x.raw /\ y.list = Append(x.list, r) /\ y.entry = NoEntry

\* mz_zip_writer_entry_close: the entry is recorded with its hash, and gone.
LEMMA EntryFinishedIs ==
  ASSUME NEW x, DOMAIN x = WrFields, NEW y, y = EntryFinished(x)
  PROVE  Ends(y, x, Recorded(x.entry, x.entry.info.crc, HashField(x))) /\ y.hash = Nil
<1> DEFINE r == Recorded(x.entry, x.entry.info.crc, HashField(x))
<1>1. y = [x EXCEPT !.list = Append(@, r), !.entry = NoEntry, !.hash = Nil]
  BY DEF EntryFinished
<1> HIDE DEF r
<1>2. Ends(y, x, r) /\ y.hash = Nil
  BY <1>1 DEF Ends, SameWriter, WrFields
<1> QED
  BY <1>2 DEF r

\* mz_zip_entry_write_close of a copied entry: it is recorded under the CRC it had.
LEMMA RawFinishedIs ==
  ASSUME NEW x, DOMAIN x = WrFields, NEW e, NEW y, y = RawFinished(x, e)
  PROVE  Ends(y, x, Recorded(x.entry, e.crc, x.entry.info.hash)) /\ y.hash = x.hash
<1> DEFINE r == Recorded(x.entry, e.crc, x.entry.info.hash)
<1>1. y = [x EXCEPT !.list = Append(@, r), !.entry = NoEntry]
  BY DEF RawFinished
<1> HIDE DEF r
<1>2. Ends(y, x, r) /\ y.hash = x.hash
  BY <1>1 DEF Ends, SameWriter, WrFields
<1> QED
  BY <1>2 DEF r

-----------------------------------------------------------------------------
(* The types of these *)

Used(w) == Len(w.list) + w.entry.i

\* The hash that is recorded is one.
LEMMA HashFieldType ==
  ASSUME NEW x, NEW names, NEW dirs, WeInv(x.entry, names, dirs), x.hash \in Body \cup {Nil}
  PROVE  HashField(x) \in Body \cup {Nil, Unknown}
<1>1. x.entry.info.hash \in Body \cup {Nil, Unknown}
  BY DEF WeInv, Headers
<1> QED
  BY <1>1 DEF HashField

\* The writer keeps its shape when an entry is begun, and when it is ended.
LEMMA BegunType ==
  ASSUME NEW w, WrInv(w), NEW e \in Headers(Names, {<<>>}), NEW d, Suits(w, e, d),
         NEW x, x = Written(Opened(w, e), d)
  PROVE  WrInv(x) /\ Used(x) = Used(w) + 1 /\ x.entry # NoEntry
<1>1. /\ SameWriter(x, w) /\ x.raw = w.raw /\ x.list = Closed(w).list
      /\ WeInv(x.entry, Names, {<<>>}) /\ x.hash \in Body \cup {Nil}
  BY BegunIs
<1>2. /\ Closed(w).list \in Seq(Plain) /\ Len(Closed(w).list) = Len(w.list) + w.entry.i
  BY ClosedIs DEF WrInv
<1>3. x.entry.i = 1
  BY <1>1 DEF WeInv
<1>4. WrInv(x)
  BY <1>1, <1>2 DEF WrInv, SameWriter
<1>5. Len(Closed(w).list) \in Nat
  BY <1>2
<1> QED
  BY <1>1, <1>2, <1>3, <1>4, <1>5 DEF Used, NoEntry

\* An entry that ended takes the room it had when it was open.
LEMMA EndsType ==
  ASSUME NEW x, WrInv(x), x.entry # NoEntry, NEW y, NEW r \in Plain, Ends(y, x, r), y.hash \in Body \cup {Nil}
  PROVE  WrInv(y) /\ Used(y) = Used(x) /\ y.entry = NoEntry /\ y.list = Append(x.list, r)
<1>1. WeInv(x.entry, Names, {<<>>}) /\ x.list \in Seq(Plain)
  BY DEF WrInv
<1>2. x.entry.i = 1 /\ y.entry.i = 0
  BY <1>1 DEF WeInv, Ends, NoEntry
<1>3. y.list \in Seq(Plain) /\ Len(y.list) = Len(x.list) + 1 /\ Len(x.list) \in Nat
  <2> HIDE DEF Plain
  <2> QED
    BY <1>1 DEF Ends
<1>4. WrInv(y)
  BY <1>3 DEF WrInv, Ends, SameWriter
<1> QED
  BY <1>2, <1>3, <1>4 DEF Used, Ends

\* Finishing an entry leaves a writer.
LEMMA FinishedType ==
  ASSUME NEW x, WrInv(x), x.entry # NoEntry, NEW y, y = EntryFinished(x)
  PROVE  /\ WrInv(y) /\ Used(y) = Used(x) /\ y.entry = NoEntry /\ SameWriter(y, x) /\ y.raw = x.raw
         /\ y.hash = Nil /\ y.list = Append(x.list, Recorded(x.entry, x.entry.info.crc, HashField(x)))
<1> DEFINE r == Recorded(x.entry, x.entry.info.crc, HashField(x))
<1>1. WeInv(x.entry, Names, {<<>>}) /\ DOMAIN x = WrFields /\ x.hash \in Body \cup {Nil}
  BY DEF WrInv
<1>2. Ends(y, x, r) /\ y.hash = Nil
  BY <1>1, EntryFinishedIs
<1>3. x.entry.info.crc \in Body /\ HashField(x) \in Body \cup {Nil, Unknown}
  BY <1>1, HashFieldType DEF WeInv, Headers
<1>4. r \in Plain
  <2>1. r \in EntriesOf(Names, {<<>>})
    BY <1>1, <1>3, RecordedIs
  <2> HIDE DEF r
  <2> QED
    BY <2>1, Zenon DEF Plain
<1> HIDE DEF r
<1>5. WrInv(y) /\ Used(y) = Used(x) /\ y.entry = NoEntry /\ y.list = Append(x.list, r)
  BY <1>2, <1>4, EndsType
<1> QED
  BY <1>2, <1>5 DEF Ends, r

\* So does finishing a copied one.
LEMMA RawFinishedType ==
  ASSUME NEW x, WrInv(x), x.entry # NoEntry, NEW e, e.crc \in Body, NEW y, y = RawFinished(x, e)
  PROVE  /\ WrInv(y) /\ Used(y) = Used(x) /\ y.entry = NoEntry /\ SameWriter(y, x)
         /\ y.list = Append(x.list, Recorded(x.entry, e.crc, x.entry.info.hash))
<1> DEFINE r == Recorded(x.entry, e.crc, x.entry.info.hash)
<1>1. WeInv(x.entry, Names, {<<>>}) /\ DOMAIN x = WrFields /\ x.hash \in Body \cup {Nil}
  BY DEF WrInv
<1>2. Ends(y, x, r) /\ y.hash = x.hash
  BY <1>1, RawFinishedIs
<1>3. x.entry.info.hash \in Body \cup {Nil, Unknown}
  BY <1>1 DEF WeInv, Headers
<1>4. r \in Plain
  <2>1. r \in EntriesOf(Names, {<<>>})
    BY <1>1, <1>3, RecordedIs
  <2> HIDE DEF r
  <2> QED
    BY <2>1, Zenon DEF Plain
<1> HIDE DEF r
<1>5. WrInv(y) /\ Used(y) = Used(x) /\ y.entry = NoEntry /\ y.list = Append(x.list, r)
  BY <1>1, <1>2, <1>4, EndsType
<1> QED
  BY <1>2, <1>5 DEF Ends, r

\* What mz_zip_writer_add_info opens an entry with.
NewEntry(name) == [Entry(name, KindOf[name], DataOf[name], "deflate", Nil, Nil) EXCEPT !.body = <<>>]
Given1(name, k) == IF KindOf[name] = "dir" THEN <<>> ELSE SubSeq(Input(name), 1, k)

\* An entry that is added is one a writer may open, and what its source gives may be written to it.
LEMMA NewEntryIs ==
  ASSUME NEW name \in Names, WrInv(wr), NEW k \in 0..Len(Input(name))
  PROVE  /\ NewEntry(name) \in Headers(Names, {<<>>}) /\ Suits(wr, NewEntry(name), Given1(name, k))
         /\ NewEntry(name).name = name /\ NewEntry(name).kind = KindOf[name]
         /\ NewEntry(name).hash = Nil /\ NewEntry(name).method = "deflate"
         /\ DataOf[name] \in Data /\ Len(Input(name)) \in Nat
         /\ ~wr.raw => Given1(name, Len(Input(name))) = DataOf[name]
<1> DEFINE e == NewEntry(name)
           d == Given1(name, k)
<1>1. /\ DataOf[name] \in Seq(Tokens) /\ KindOf[name] \in {"file", "dir", "link"}
      /\ (KindOf[name] # "file" => DataOf[name] = <<>>)
  BY WriterAssumption
<1>2. DataOf[name] \in Data /\ DataOf[name] \in Body /\ <<>> \in Body
  <2>1. DataOf[name] \in Data
    <3>1. Tokens \subseteq Units
      BY DEF Units
    <3> HIDE DEF Units
    <3> QED
      BY <1>1, <3>1 DEF Data
  <2> QED
    BY <2>1, BodyFacts
<1>3. /\ DOMAIN e = {"name", "kind", "crc", "method", "hash", "key", "body", "packed", "dir"}
      /\ e = [name |-> name, kind |-> KindOf[name], crc |-> DataOf[name], method |-> "deflate", hash |-> Nil,
              key |-> Nil, body |-> <<>>, packed |-> TRUE, dir |-> <<>>]
  <2> DEFINE n == KindOf[name]
             c == DataOf[name]
  <2>1. \A p : [name |-> name, kind |-> n, crc |-> c, method |-> "deflate", hash |-> Nil, key |-> Nil,
                body |-> IF "deflate" = "deflate" THEN <<c>> ELSE c, packed |-> p, dir |-> <<>>]
              = [name |-> name, kind |-> n, crc |-> c, method |-> "deflate", hash |-> Nil, key |-> Nil,
                 body |-> <<c>>, packed |-> p, dir |-> <<>>]
    OBVIOUS
  <2>2. Entry(name, n, c, "deflate", Nil, Nil) =
          [name |-> name, kind |-> n, crc |-> c, method |-> "deflate", hash |-> Nil, key |-> Nil,
           body |-> <<c>>, packed |-> "deflate" = "deflate", dir |-> <<>>]
    BY <2>1, Zenon DEF Entry
  <2>3. PICK p \in BOOLEAN : p = TRUE /\ p = ("deflate" = "deflate")
    BY Zenon
  <2>4. Entry(name, n, c, "deflate", Nil, Nil) =
          [name |-> name, kind |-> n, crc |-> c, method |-> "deflate", hash |-> Nil, key |-> Nil,
           body |-> <<c>>, packed |-> p, dir |-> <<>>]
    BY <2>2, <2>3, Zenon
  <2>6. e = [Entry(name, n, c, "deflate", Nil, Nil) EXCEPT !.body = <<>>]
    BY Zenon DEF NewEntry
  <2> HIDE DEF n, c, e
  <2>7. e = [name |-> name, kind |-> n, crc |-> c, method |-> "deflate", hash |-> Nil,
             key |-> Nil, body |-> <<>>, packed |-> p, dir |-> <<>>]
    BY <2>4, <2>6
  <2>8. e = [name |-> name, kind |-> n, crc |-> c, method |-> "deflate", hash |-> Nil,
             key |-> Nil, body |-> <<>>, packed |-> TRUE, dir |-> <<>>]
    BY <2>3, <2>7, Zenon
  <2>5. DOMAIN e = {"name", "kind", "crc", "method", "hash", "key", "body", "packed", "dir"}
    BY <2>8
  <2> QED
    BY <2>5, <2>8 DEF n, c
<1>4. e \in Headers(Names, {<<>>})
  BY <1>1, <1>2, <1>3 DEF Headers
<1>5. Len(DataOf[name]) \in Nat /\ wr.raw \in BOOLEAN
  BY <1>1 DEF WrInv
<1>6. CASE wr.raw /\ KindOf[name] = "file"
  <2>1. Input(name) = <<DataOf[name]>>
    BY <1>6 DEF Input
  <2>2. Input(name) \in Seq(Data) /\ Len(Input(name)) = 1
    BY <1>2, <2>1
  <2>3. d = SubSeq(Input(name), 1, k)
    BY <1>6 DEF Given1
  <2>4. d \in Seq(Data)
    <3> HIDE DEF d
    <3>1. \A i \in 1..k : Input(name)[i] \in Data
      BY <2>2
    <3> QED
      BY <2>2, <2>3, <3>1, SubSeqProperties
  <2>5. d \in Body
    <3> HIDE DEF d, Data, Units
    <3>1. Data \subseteq Units \cup Data
      BY Zenon
    <3> QED
      BY <2>4, <3>1 DEF Body
  <2>6. Suits(wr, e, d)
    <3>1. e.kind # "dir"
      BY <1>3, <1>6
    <3> HIDE DEF e, d
    <3> QED
      BY <1>6, <2>4, <2>5, <3>1 DEF Suits
  <2> QED
    BY <1>2, <1>3, <1>4, <1>6, <2>2, <2>6
<1>7. CASE ~(wr.raw /\ KindOf[name] = "file")
  <2>1. Input(name) = DataOf[name]
    BY <1>7 DEF Input
  <2>2. Len(Input(name)) \in Nat
    BY <1>5, <2>1
  <2>3. d \in Data /\ d \in Body /\ (KindOf[name] # "file" => d = <<>>)
    <3>1. CASE KindOf[name] = "dir"
      BY <3>1, BodyFacts DEF Given1
    <3>2. CASE KindOf[name] # "dir"
      <4>1. d = SubSeq(DataOf[name], 1, k)
        BY <2>1, <3>2 DEF Given1
      <4>2. d \in Data
        <5> HIDE DEF d
        <5>1. \A i \in 1..k : DataOf[name][i] \in Units
          BY <1>2, <2>1 DEF Data
        <5> QED
          BY <1>2, <2>1, <4>1, <5>1, SubSeqProperties DEF Data
      <4>3. KindOf[name] # "file" => d = <<>>
        <5> HAVE KindOf[name] # "file"
        <5>1. DataOf[name] = <<>> /\ k = 0
          BY <1>1, <2>1
        <5> HIDE DEF d
        <5> QED
          BY <4>1, <5>1
      <4> QED
        BY <4>2, <4>3, BodyFacts
    <3> QED
      BY <3>1, <3>2
  <2>4. Suits(wr, e, d)
    <3>1. e.kind = KindOf[name]
      BY <1>3
    <3>2. wr.raw => d = <<>>
      BY <1>7, <2>3
    <3>3. <<>> \in Seq(Data)
      OBVIOUS
    <3>4. e.kind = "dir" => d = <<>>
      BY <2>3, <3>1
    <3> HIDE DEF e, d
    <3> QED
      BY <2>3, <3>2, <3>3, <3>4 DEF Suits
  <2>5. ~wr.raw => Given1(name, Len(Input(name))) = DataOf[name]
    <3>1. CASE KindOf[name] = "dir"
      BY <1>1, <3>1 DEF Given1
    <3>2. CASE KindOf[name] # "dir"
      <4>1. Given1(name, Len(Input(name))) = SubSeq(DataOf[name], 1, Len(DataOf[name]))
        BY <2>1, <3>2 DEF Given1
      <4> QED
        BY <1>1, <4>1
    <3> QED
      BY <3>1, <3>2
  <2> QED
    BY <1>2, <1>3, <1>4, <2>2, <2>4, <2>5
<1> QED
  BY <1>6, <1>7

-----------------------------------------------------------------------------
(* Adding an entry *)

\* An entry that reads as its CRC says.
Reads(e, data) == \A key : e.key = Nil \/ e.key = key => Stream(e, FALSE, key) = [data |-> data, fails |-> FALSE]

\* An entry that was written and closed reads as what was written.
LEMMA RecordedReads ==
  ASSUME NEW names, NEW dirs, NEW en, WeInv(en, names, dirs), ~en.raw,
         NEW crc \in Body, NEW hash \in Body \cup {Nil, Unknown}, NEW r, r = Recorded(en, crc, hash)
  PROVE  IsRecord(r, en, crc, hash) /\ Reads(r, en.tokens) /\ r.crc = en.tokens /\ r.hash = hash
<1>0. IsRecord(r, en, crc, hash)
  BY RecordedIs
<1>1. /\ r.method = en.info.method /\ r.crc = en.tokens /\ r.hash = hash
      /\ r.body = IF en.info.method = "deflate" THEN <<en.tokens>> ELSE en.tokens
      /\ r.packed = (en.info.method = "deflate")
  BY <1>0 DEF IsRecord
<1>2. r.method \in {"store", "deflate"} /\ r.packed = (r.method = "deflate")
  BY <1>1 DEF WeInv, Headers
<1>3. ASSUME NEW key, r.key = Nil \/ r.key = key
      PROVE  Stream(r, FALSE, key) = [data |-> en.tokens, fails |-> FALSE]
  <2> DEFINE body == IF r.key # Nil /\ key # r.key THEN [i \in DOMAIN r.body |-> Junk] ELSE r.body
  <2>1. body = r.body
    BY <1>3
  <2> HIDE DEF body
  <2>2. Stream(r, FALSE, key) =
          IF r.method = "store" \/ r.body = <<>> THEN [data |-> body, fails |-> FALSE]
          ELSE IF body = r.body /\ r.packed THEN [data |-> body[1], fails |-> FALSE]
          ELSE [data |-> <<>>, fails |-> TRUE]
    BY Zenon DEF Stream, body
  <2>3. CASE r.method = "store"
    <3>1. r.body = en.tokens
      BY <1>1, <2>3
    <3> QED
      BY <2>1, <2>2, <2>3, <3>1
  <2>4. CASE r.method = "deflate"
    <3>1. r.body = <<en.tokens>> /\ r.packed
      BY <1>1, <1>2, <2>4
    <3>2. r.body # <<>> /\ r.body[1] = en.tokens
      BY <3>1
    <3>3. Stream(r, FALSE, key) = [data |-> body[1], fails |-> FALSE]
      BY <2>1, <2>2, <2>4, <3>1, <3>2
    <3> QED
      BY <2>1, <3>2, <3>3
  <2> QED
    BY <1>2, <2>3, <2>4
<1> QED
  BY <1>0, <1>1, <1>3, Zenon DEF Reads

\* What a source gives is finite.
LEMMA InputLength ==
  ASSUME NEW name \in Names PROVE Len(Input(name)) \in Nat
<1>1. DataOf[name] \in Seq(Tokens)
  BY WriterAssumption
<1>2. Len(DataOf[name]) \in Nat /\ Len(<<DataOf[name]>>) = 1
  BY <1>1
<1> QED
  BY <1>2 DEF Input

\* mz_zip_writer_add_info.
LEMMA AddInfoIs ==
  ASSUME NEW name \in Names, WrInv(wr), AddInfo(name)
  PROVE  /\ WrInv(wr') /\ Used(wr') = Used(wr) + 1 /\ SameWriter(wr', wr) /\ wr'.raw = wr.raw
         /\ wr'.hash = Nil /\ wr'.entry = NoEntry
         /\ wr.hash = Nil /\ ~wr.raw =>
              \E r \in Plain : wr'.list = Append(Closed(wr).list, r) /\ Told(r) = Promised(name, DataOf[name])
<1> DEFINE k == Len(Input(name))
           e == NewEntry(name)
           d == Given1(name, k)
           x == Written(Opened(wr, e), d)
<1>1. wr' = EntryFinished(x)
  BY Zenon DEF AddInfo, Adding, NewEntry, Given1
<1>2. k \in Nat
  BY InputLength
<1>3. k \in 0..k
  BY <1>2
<1>4. /\ e \in Headers(Names, {<<>>}) /\ Suits(wr, e, d) /\ e.name = name /\ e.kind = KindOf[name]
      /\ e.hash = Nil /\ e.method = "deflate" /\ DataOf[name] \in Data
      /\ ~wr.raw => d = DataOf[name]
  <2> HIDE DEF e
  <2> QED
    BY <1>3, NewEntryIs DEF e
<1> HIDE DEF e, d, k
<1>5. WrInv(x) /\ Used(x) = Used(wr) + 1 /\ x.entry # NoEntry
  BY <1>4, BegunType
<1>6. /\ SameWriter(x, wr) /\ x.raw = wr.raw /\ x.list = Closed(wr).list
      /\ x.entry = Ready(wr, e, d) /\ WeInv(x.entry, Names, {<<>>}) /\ x.hash \in Body \cup {Nil}
      /\ (e.kind # "dir" => x.hash = d) /\ (e.kind = "dir" /\ wr.hash = Nil => x.hash = Nil)
  BY <1>4, BegunIs
<1> HIDE DEF x
<1>13. PICK r : r = Recorded(x.entry, x.entry.info.crc, HashField(x))
  OBVIOUS
<1>7. /\ WrInv(wr') /\ Used(wr') = Used(x) /\ wr'.entry = NoEntry /\ SameWriter(wr', x) /\ wr'.raw = x.raw
      /\ wr'.hash = Nil /\ wr'.list = Append(x.list, r)
  BY <1>1, <1>5, <1>13, FinishedType
<1>8. SameWriter(wr', wr)
  BY <1>6, <1>7 DEF SameWriter
<1>9. /\ x.entry.raw = wr.raw /\ x.entry.tokens = d /\ x.entry.info = Header(wr, e)
  BY <1>6 DEF Ready
<1>10. /\ x.entry.info.name = name /\ x.entry.info.hash = Nil /\ x.entry.info.kind = KindOf[name]
  BY <1>4, <1>9, HeaderIs
<1>11. x.entry.info.crc \in Body /\ HashField(x) \in Body \cup {Nil, Unknown}
  BY <1>6, HashFieldType DEF WeInv, Headers
<1>14. WeInv(x.entry, Names, {<<>>})
  BY <1>6
<1>12. ASSUME wr.hash = Nil, ~wr.raw
       PROVE  r \in Plain /\ Told(r) = Promised(name, DataOf[name])
  <2>1. d = DataOf[name] /\ d # Nil
    BY <1>4, <1>12, BodyFacts
  <2>2. HashField(x) = IF KindOf[name] = "dir" THEN Nil ELSE DataOf[name]
    BY <1>4, <1>6, <1>10, <1>12, <2>1 DEF HashField
  <2>3. r.name = name /\ r \in EntriesOf(Names, {<<>>})
    <3>1. IsRecord(r, x.entry, x.entry.info.crc, HashField(x)) /\ r \in EntriesOf(Names, {<<>>})
      BY <1>11, <1>13, <1>14, RecordedIs
    <3> QED
      BY <1>10, <3>1 DEF IsRecord
  <2>4. r \in Plain
    <3> QED
      BY <2>3, Zenon DEF Plain
  <2>5. Reads(r, d) /\ r.crc = d /\ r.hash = HashField(x)
    <3>1. ~x.entry.raw
      BY <1>9, <1>12
    <3>2. Reads(r, x.entry.tokens) /\ r.crc = x.entry.tokens /\ r.hash = HashField(x)
      BY <1>11, <1>13, <1>14, <3>1, RecordedReads
    <3> QED
      BY <3>2, <1>9
  <2>6. Stream(r, FALSE, r.key) = [data |-> d, fails |-> FALSE]
    BY <2>5, Zenon DEF Reads
  <2> DEFINE s == Stream(r, FALSE, r.key)
  <2>7. Told(r) = [name |-> r.name, read |-> s, crc |-> r.crc, hash |-> r.hash]
    BY Zenon DEF Told
  <2>8. Promised(name, DataOf[name]) =
          [name |-> name, read |-> [data |-> d, fails |-> FALSE], crc |-> d, hash |-> HashField(x)]
    BY <2>1, <2>2, Zenon DEF Promised
  <2> HIDE DEF s
  <2>9. s = [data |-> d, fails |-> FALSE]
    BY <2>6 DEF s
  <2>10. Told(r) = Promised(name, DataOf[name])
    BY <2>3, <2>5, <2>7, <2>8, <2>9, Zenon
  <2> QED
    BY <2>4, <2>10
<1> QED
  BY <1>5, <1>6, <1>7, <1>8, <1>12

\* mz_zip_writer_add_info whose source fails leaves a writer, with an entry open.
LEMMA AddInfoFailsIs ==
  ASSUME NEW name \in Names, WrInv(wr), AddInfoFails(name)
  PROVE  WrInv(wr') /\ Used(wr') = Used(wr) + 1 /\ SameWriter(wr', wr) /\ wr'.raw = wr.raw
<1>1. PICK k \in 0..Len(Input(name)) - 1 : wr' = Adding(name, k)
  BY DEF AddInfoFails
<1>2. Len(Input(name)) \in Nat
  BY InputLength
<1>3. k \in 0..Len(Input(name))
  BY <1>2
<1> DEFINE e == NewEntry(name)
           d == Given1(name, k)
<1>4. wr' = Written(Opened(wr, e), d)
  BY <1>1, Zenon DEF Adding, NewEntry, Given1
<1>5. e \in Headers(Names, {<<>>}) /\ Suits(wr, e, d)
  <2> HIDE DEF e, d
  <2> QED
    BY <1>3, NewEntryIs DEF e, d
<1> HIDE DEF e, d
<1>6. WrInv(wr') /\ Used(wr') = Used(wr) + 1
  BY <1>4, <1>5, BegunType
<1>7. SameWriter(wr', wr) /\ wr'.raw = wr.raw
  BY <1>4, <1>5, BegunIs
<1> QED
  BY <1>6, <1>7

-----------------------------------------------------------------------------
(* Copying an entry *)

\* mz_zip_writer_copy_from_reader makes the writer raw for a while.
LEMMA RawWriter ==
  ASSUME NEW w, WrInv(w), NEW w1, w1 = [w EXCEPT !.raw = TRUE]
  PROVE  /\ WrInv(w1) /\ SameWriter(w1, w) /\ w1.raw = TRUE /\ w1.hash = w.hash /\ Used(w1) = Used(w)
         /\ Closed(w1).list = Closed(w).list
<1>1. DOMAIN w = WrFields
  BY DEF WrInv
<1>2. /\ DOMAIN w1 = WrFields /\ w1.open = w.open /\ w1.path = w.path /\ w1.mem = w.mem /\ w1.opts = w.opts
      /\ w1.raw = TRUE /\ w1.list = w.list /\ w1.entry = w.entry /\ w1.hash = w.hash
  BY <1>1 DEF WrFields
<1>3. WrInv(w1)
  BY <1>2 DEF WrInv
<1>4. Closed(w1).list = Closed(w).list
  <2>1. CASE w.entry.i = 0
    BY <1>2, <2>1 DEF Closed
  <2>2. CASE w.entry.i # 0
    <3> DEFINE x == Recorded(w.entry, <<>>, w.entry.info.hash)
    <3>1. Closed(w) = [w EXCEPT !.list = Append(@, x), !.entry = NoEntry]
      BY <2>2 DEF Closed
    <3>2. Closed(w1) = [w1 EXCEPT !.list = Append(@, x), !.entry = NoEntry]
      BY <1>2, <2>2 DEF Closed
    <3> HIDE DEF x
    <3>3. Closed(w).list = Append(w.list, x)
      BY <1>1, <3>1 DEF WrFields
    <3>4. Closed(w1).list = Append(w1.list, x)
      BY <1>2, <3>2 DEF WrFields
    <3> QED
      BY <1>2, <3>3, <3>4
  <2> QED
    BY <2>1, <2>2
<1> QED
  BY <1>2, <1>3, <1>4 DEF SameWriter, Used

\* mz_zip_writer_copy_from_reader up to the close.
IsCopying(x, e, k) ==
  /\ WrInv(x) /\ Used(x) = Used(wr) + 1 /\ x.entry # NoEntry /\ SameWriter(x, wr)
  /\ x.list = Closed(wr).list /\ WeInv(x.entry, Names, {<<>>}) /\ x.entry.raw = TRUE
  /\ x.entry.info.name = e.name /\ x.entry.info.hash = e.hash /\ x.entry.info.key = e.key
  /\ x.entry.info.packed = e.packed /\ x.entry.info.method = Method(wr.opts.level, e)
  /\ k = Len(e.body) => x.entry.tokens = e.body
  /\ e.crc \in Body

\* ... opens an entry and writes the body of the other to it, as it is,
LEMMA CopyingIs ==
  ASSUME NEW e \in Plain, WrInv(wr), NEW k \in 0..Len(e.body), NEW x, x = Copying(e, k)
  PROVE  IsCopying(x, e, k)
<1> DEFINE w1 == [wr EXCEPT !.raw = TRUE]
           d == IF e.kind = "dir" THEN <<>> ELSE SubSeq(e.body, 1, k)
<1>1. x = Written(Opened(w1, e), d)
  BY Zenon DEF Copying
<1>2. /\ e \in Headers(Names, {<<>>}) /\ (e.packed => e.body \in Seq(Data)) /\ (e.kind = "dir" => e.body = <<>>)
      /\ e.crc \in Body /\ e.body \in Body
  <2> HIDE DEF Plain
  <2>1. e \in EntriesOf(Names, {<<>>})
    BY Zenon DEF Plain
  <2>2. /\ e \in Headers(Names, {<<>>}) /\ (e.packed => e.body \in Seq(Data)) /\ (e.kind = "dir" => e.body = <<>>)
    BY <2>1, EntryIs
  <2> QED
    BY <2>2 DEF Headers
<1>3. /\ WrInv(w1) /\ SameWriter(w1, wr) /\ w1.raw = TRUE /\ Used(w1) = Used(wr)
      /\ Closed(w1).list = Closed(wr).list
  BY RawWriter
<1>4. d \in Body /\ (e.packed => d \in Seq(Data)) /\ (k = Len(e.body) => d = e.body)
  <2>1. CASE e.kind = "dir"
    <3>1. d = <<>> /\ e.body = <<>>
      BY <1>2, <2>1
    <3> QED
      BY <3>1, BodyFacts
  <2>2. CASE e.kind # "dir"
    <3>1. d = SubSeq(e.body, 1, k)
      BY <2>2
    <3> HIDE DEF d
    <3>2. d \in Body
      BY <1>2, <3>1, BodyFacts
    <3>3. e.packed => d \in Seq(Data)
      <4> HAVE e.packed
      <4>1. e.body \in Seq(Data)
        BY <1>2
      <4>2. \A j \in 1..k : e.body[j] \in Data
        BY <4>1
      <4> QED
        BY <3>1, <4>1, <4>2, SubSeqProperties
    <3>4. k = Len(e.body) => d = e.body
      BY <1>2, <3>1 DEF Body
    <3> QED
      BY <3>2, <3>3, <3>4
  <2> QED
    BY <2>1, <2>2
<1>5. e.kind = "dir" => d = <<>>
  OBVIOUS
<1> HIDE DEF w1, d
<1>6. Suits(w1, e, d)
  BY <1>3, <1>4, <1>5 DEF Suits
<1>7. WrInv(x) /\ Used(x) = Used(w1) + 1 /\ x.entry # NoEntry
  BY <1>1, <1>2, <1>3, <1>6, BegunType
<1>8. /\ SameWriter(x, w1) /\ x.list = Closed(w1).list /\ x.entry = Ready(w1, e, d)
      /\ WeInv(x.entry, Names, {<<>>})
  BY <1>1, <1>2, <1>3, <1>6, BegunIs
<1>9. x.entry.raw = TRUE /\ x.entry.tokens = d /\ x.entry.info = Header(w1, e)
  BY <1>3, <1>8 DEF Ready
<1>10. w1.opts = wr.opts
  BY <1>3 DEF SameWriter
<1>11. /\ x.entry.info.name = e.name /\ x.entry.info.hash = e.hash /\ x.entry.info.packed = e.packed
       /\ x.entry.info.method = Method(w1.opts.level, e) /\ x.entry.info.key = e.key
  <2> PICK h : h = Header(w1, e)
    OBVIOUS
  <2>1. /\ h.name = e.name /\ h.hash = e.hash /\ h.packed = e.packed /\ h.method = Method(w1.opts.level, e)
        /\ h.key = IF ~w1.raw /\ e.kind # "dir" /\ w1.opts.key # Nil THEN w1.opts.key ELSE e.key
    BY <1>2, <1>3, HeaderIs
  <2> QED
    BY <1>3, <1>9, <2>1
<1> QED
  BY <1>2, <1>3, <1>4, <1>7, <1>8, <1>9, <1>10, <1>11 DEF SameWriter, IsCopying

\* ... and takes the setting back.
LEMMA CopiedIs ==
  ASSUME NEW y, WrInv(y), WrInv(wr), NEW z, z = Copied(y)
  PROVE  /\ WrInv(z) /\ Used(z) = Used(y) /\ SameWriter(z, y) /\ z.raw = wr.raw /\ z.hash = Nil
         /\ z.entry = y.entry /\ z.list = y.list
<1>1. DOMAIN y = WrFields /\ wr.raw \in BOOLEAN
  BY DEF WrInv
<1>2. z = [y EXCEPT !.raw = wr.raw, !.hash = Nil]
  BY DEF Copied
<1>3. /\ DOMAIN z = WrFields /\ z.open = y.open /\ z.path = y.path /\ z.mem = y.mem /\ z.opts = y.opts
      /\ z.raw = wr.raw /\ z.list = y.list /\ z.entry = y.entry /\ z.hash = Nil
  BY <1>1, <1>2 DEF WrFields
<1>4. WrInv(z)
  BY <1>1, <1>3 DEF WrInv
<1> QED
  BY <1>3, <1>4 DEF SameWriter, Used

\* The entry a reader is at is one of the archive's, or holds its directory.
LEMMA CurrentIsPlain ==
  ASSUME RdInv(rd), rd.info # 0, Current(rd).name # CdName
  PROVE  Current(rd) \in Plain
<1>1. Current(rd) \in Listed
  BY PlaceType DEF RdInv
<1> QED
  BY <1>1, ListedNames, Zenon DEF Listed

\* An entry with the same body, CRC, hash and key tells the same; an empty one does packed or not.
LEMMA ToldAgain ==
  ASSUME NEW e \in Plain, NEW r, r.name = e.name, r.crc = e.crc, r.hash = e.hash, r.key = e.key,
         r.method = Method("best", e), r.body = e.body, r.packed = (e.packed /\ e.body # <<>>)
  PROVE  Told(r) = Told(e)
<1>1. e.kind = "dir" => e.body = <<>>
  <2> HIDE DEF Plain
  <2>1. e \in EntriesOf(Names, {<<>>})
    BY Zenon DEF Plain
  <2> QED
    BY <2>1, EntryIs
<1>2. e.kind # "dir" => r.method = e.method
  BY DEF Method
<1> DEFINE cr == IF r.key # Nil /\ r.key # r.key THEN [i \in DOMAIN r.body |-> Junk] ELSE r.body
           ce == IF e.key # Nil /\ e.key # e.key THEN [i \in DOMAIN e.body |-> Junk] ELSE e.body
<1>3. cr = e.body /\ ce = e.body
  OBVIOUS
<1> HIDE DEF cr, ce
<1>4. Stream(r, FALSE, r.key) =
        IF r.method = "store" \/ r.body = <<>> THEN [data |-> cr, fails |-> FALSE]
        ELSE IF cr = r.body /\ r.packed THEN [data |-> cr[1], fails |-> FALSE]
        ELSE [data |-> <<>>, fails |-> TRUE]
  BY Zenon DEF Stream, cr
<1>5. Stream(e, FALSE, e.key) =
        IF e.method = "store" \/ e.body = <<>> THEN [data |-> ce, fails |-> FALSE]
        ELSE IF ce = e.body /\ e.packed THEN [data |-> ce[1], fails |-> FALSE]
        ELSE [data |-> <<>>, fails |-> TRUE]
  BY Zenon DEF Stream, ce
<1>6. PICK sr : sr = Stream(r, FALSE, r.key)
  OBVIOUS
<1>7. PICK se : se = Stream(e, FALSE, e.key)
  OBVIOUS
<1>8. sr = se
  <2>1. CASE e.body = <<>>
    <3>1. sr = [data |-> cr, fails |-> FALSE]
      BY <1>4, <1>6, <2>1, Zenon
    <3>2. se = [data |-> ce, fails |-> FALSE]
      BY <1>5, <1>7, <2>1, Zenon
    <3> QED
      BY <1>3, <3>1, <3>2, Zenon
  <2>2. CASE e.body # <<>>
    <3>1. r.method = e.method /\ r.body = e.body /\ (r.packed <=> e.packed)
      BY <1>1, <1>2, <2>2
    <3>2. sr = IF e.method = "store" \/ e.body = <<>> THEN [data |-> e.body, fails |-> FALSE]
               ELSE IF e.body = e.body /\ e.packed THEN [data |-> e.body[1], fails |-> FALSE]
               ELSE [data |-> <<>>, fails |-> TRUE]
      BY <1>3, <1>4, <1>6, <3>1
    <3>3. se = IF e.method = "store" \/ e.body = <<>> THEN [data |-> e.body, fails |-> FALSE]
               ELSE IF e.body = e.body /\ e.packed THEN [data |-> e.body[1], fails |-> FALSE]
               ELSE [data |-> <<>>, fails |-> TRUE]
      BY <1>3, <1>5, <1>7
    <3> QED
      BY <3>2, <3>3
  <2> QED
    BY <2>1, <2>2
<1>9. Told(r) = [name |-> r.name, read |-> sr, crc |-> r.crc, hash |-> r.hash]
  BY <1>6, Zenon DEF Told
<1>10. Told(e) = [name |-> e.name, read |-> se, crc |-> e.crc, hash |-> e.hash]
  BY <1>7, Zenon DEF Told
<1> QED
  BY <1>8, <1>9, <1>10

\* mz_zip_writer_copy_from_reader: a record that tells what the entry it was copied from does.
LEMMA CopyIs ==
  ASSUME WrInv(wr), RdInv(rd), CopyFromReader
  PROVE  /\ WrInv(wr') /\ Used(wr') = Used(wr) + 1 /\ SameWriter(wr', wr) /\ wr'.raw = wr.raw
         /\ wr'.hash = Nil /\ wr'.entry = NoEntry
         /\ wr.opts.level = "best" =>
              \E r \in Plain : wr'.list = Append(Closed(wr).list, r) /\ Told(r) = Told(Current(rd))
<1>1. PICK e : e = Current(rd)
  OBVIOUS
<1>2. rd.info # 0 /\ e.name # CdName /\ wr' = Copied(RawFinished(Copying(e, Len(e.body)), e))
  BY <1>1, Zenon DEF CopyFromReader
<1>3. e \in Plain
  BY <1>1, <1>2, CurrentIsPlain
<1>4. Len(e.body) \in 0..Len(e.body)
  <2>1. e \in Listed
    BY <1>3, Zenon DEF Listed
  <2>2. Len(e.body) \in Nat
    BY <2>1, ListedFields, BodyFacts
  <2> QED
    BY <2>2
<1>5. PICK x : x = Copying(e, Len(e.body))
  OBVIOUS
<1>6. /\ WrInv(x) /\ Used(x) = Used(wr) + 1 /\ x.entry # NoEntry /\ SameWriter(x, wr)
      /\ x.list = Closed(wr).list /\ WeInv(x.entry, Names, {<<>>}) /\ x.entry.raw = TRUE
      /\ x.entry.info.name = e.name /\ x.entry.info.hash = e.hash /\ x.entry.info.key = e.key
      /\ x.entry.info.packed = e.packed /\ x.entry.info.method = Method(wr.opts.level, e)
      /\ x.entry.tokens = e.body /\ e.crc \in Body
  <2>1. IsCopying(x, e, Len(e.body))
    BY <1>3, <1>4, <1>5, CopyingIs
  <2> QED
    BY <2>1 DEF IsCopying
<1>7. PICK y : y = RawFinished(x, e)
  OBVIOUS
<1>8. PICK r : r = Recorded(x.entry, e.crc, x.entry.info.hash)
  OBVIOUS
<1>9. /\ WrInv(y) /\ Used(y) = Used(x) /\ y.entry = NoEntry /\ SameWriter(y, x) /\ y.list = Append(x.list, r)
  BY <1>6, <1>7, <1>8, RawFinishedType
<1>10. wr' = Copied(y)
  BY <1>2, <1>5, <1>7
<1>11. /\ WrInv(wr') /\ Used(wr') = Used(y) /\ SameWriter(wr', y) /\ wr'.raw = wr.raw /\ wr'.hash = Nil
       /\ wr'.entry = y.entry /\ wr'.list = y.list
  BY <1>9, <1>10, CopiedIs
<1>12. SameWriter(wr', wr)
  BY <1>6, <1>9, <1>11 DEF SameWriter
<1>13. IsRecord(r, x.entry, e.crc, e.hash) /\ r \in Plain
  <2>1. WeInv(x.entry, Names, {<<>>}) /\ e.crc \in Body
    BY <1>6
  <2>2. x.entry.info.hash \in Body \cup {Nil, Unknown}
    BY <2>1 DEF WeInv, Headers
  <2>3. IsRecord(r, x.entry, e.crc, x.entry.info.hash) /\ r \in EntriesOf(Names, {<<>>})
    BY <1>8, <2>1, <2>2, RecordedIs
  <2> QED
    BY <1>6, <2>3, Zenon DEF Plain
<1>14. wr.opts.level = "best" => Told(r) = Told(e)
  <2> HAVE wr.opts.level = "best"
  <2>1. /\ r.name = e.name /\ r.crc = e.crc /\ r.hash = e.hash /\ r.key = e.key
        /\ r.method = Method("best", e) /\ r.body = e.body /\ r.packed = (e.packed /\ e.body # <<>>)
    BY <1>6, <1>13 DEF IsRecord
  <2> QED
    BY <1>3, <2>1, ToldAgain
<1> QED
  BY <1>1, <1>6, <1>9, <1>11, <1>12, <1>13, <1>14

\* One that fails leaves a writer, with no entry open.
LEMMA CopyFailsIs ==
  ASSUME WrInv(wr), RdInv(rd), CopyFails
  PROVE  /\ WrInv(wr') /\ Used(wr') = Used(wr) + 1 /\ SameWriter(wr', wr) /\ wr'.raw = wr.raw
         /\ wr'.hash = Nil /\ wr'.entry = NoEntry
<1>1. PICK e : e = Current(rd)
  OBVIOUS
<1>2. rd.info # 0 /\ e.name # CdName /\ \E k \in 0..Len(e.body) - 1 : wr' = Copied(Closed(Copying(e, k)))
  BY <1>1, Zenon DEF CopyFails
<1>3. PICK k \in 0..Len(e.body) - 1 : wr' = Copied(Closed(Copying(e, k)))
  BY <1>2
<1>4. e \in Plain
  BY <1>1, <1>2, CurrentIsPlain
<1>5. k \in 0..Len(e.body)
  <2>1. e \in Listed
    BY <1>4, Zenon DEF Listed
  <2>2. Len(e.body) \in Nat
    BY <2>1, ListedFields, BodyFacts
  <2> QED
    BY <2>2
<1>6. PICK x : x = Copying(e, k)
  OBVIOUS
<1>7. /\ WrInv(x) /\ Used(x) = Used(wr) + 1 /\ SameWriter(x, wr)
  BY <1>4, <1>5, <1>6, CopyingIs DEF IsCopying
<1>8. PICK c : c = Closed(x)
  OBVIOUS
<1>9. /\ WrInv(c) /\ SameWriter(c, x) /\ c.entry = NoEntry /\ Len(c.list) = Len(x.list) + x.entry.i
  BY <1>7, <1>8, ClosedIs
<1>10. Used(c) = Used(x)
  <2>1. Len(c.list) \in Nat
    BY <1>9 DEF WrInv
  <2> QED
    BY <1>9, <2>1 DEF Used, NoEntry
<1>11. wr' = Copied(c)
  BY <1>3, <1>6, <1>8
<1>12. /\ WrInv(wr') /\ Used(wr') = Used(c) /\ SameWriter(wr', c) /\ wr'.raw = wr.raw /\ wr'.hash = Nil
       /\ wr'.entry = c.entry
  BY <1>9, <1>11, CopiedIs
<1>13. SameWriter(wr', wr)
  BY <1>7, <1>9, <1>12 DEF SameWriter
<1> QED
  BY <1>7, <1>9, <1>10, <1>12, <1>13

-----------------------------------------------------------------------------
(* Writing the directory compressed *)

\* The bound is a number.
LEMMA BoundFact == MaxEntries \in Nat
BY WriterAssumption

\* The directory as data: the names it lists, and the entry that holds them.
CdRecords(w) == [i \in DOMAIN w.list |-> w.list[i].name]
CdEntry(w) ==
  [Entry(CdName, "file", CdRecords(w), "deflate", Nil, Nil)
     EXCEPT !.packed = FALSE, !.dir = IF w.entry.i = 0 THEN w.list ELSE <<>>]

\* The records of a directory are data.
LEMMA CdRecordsType ==
  ASSUME NEW w, WrInv(w) PROVE CdRecords(w) \in Data
<1>1. w.list \in Seq(Plain)
  BY DEF WrInv
<1>2. DOMAIN w.list = 1..Len(w.list) /\ Len(w.list) \in Nat
  BY <1>1
<1>3. \A i \in 1..Len(w.list) : w.list[i].name \in Units
  <2> TAKE i \in 1..Len(w.list)
  <2>1. w.list[i] \in Plain
    <3> HIDE DEF Plain
    <3> QED
      BY <1>1
  <2>2. w.list[i].name \in Names
    BY <2>1, ListedNames
  <2> QED
    BY <2>2 DEF Units
<1>4. CdRecords(w) = [i \in 1..Len(w.list) |-> w.list[i].name]
  BY <1>2, Zenon DEF CdRecords
<1> QED
  BY <1>2, <1>3, <1>4 DEF Data

\* The entry of a compressed directory is one a writer may open.
LEMMA CdEntryIs ==
  ASSUME NEW w, WrInv(w), NEW e, e = CdEntry(w)
  PROVE  /\ e \in Headers({CdName}, Seq(Plain)) /\ e.kind = "file" /\ e.packed = FALSE /\ e.key = Nil
         /\ e.crc = CdRecords(w) /\ (w.entry = NoEntry => e.dir = w.list)
<1> DEFINE c == CdRecords(w)
           dir == IF w.entry.i = 0 THEN w.list ELSE <<>>
<1>1. c \in Data /\ c \in Body
  BY CdRecordsType, BodyFacts
<1>2. dir \in Seq(Plain) /\ (w.entry = NoEntry => dir = w.list)
  <2>1. w.list \in Seq(Plain)
    BY DEF WrInv
  <2>2. <<>> \in Seq(Plain)
    OBVIOUS
  <2> HIDE DEF Plain
  <2> QED
    BY <2>1, <2>2 DEF NoEntry
<1>3. <<c>> \in Body
  BY <1>1 DEF Body
<1>4. \A p : [name |-> CdName, kind |-> "file", crc |-> c, method |-> "deflate", hash |-> Nil, key |-> Nil,
              body |-> IF "deflate" = "deflate" THEN <<c>> ELSE c, packed |-> p, dir |-> <<>>]
            = [name |-> CdName, kind |-> "file", crc |-> c, method |-> "deflate", hash |-> Nil, key |-> Nil,
               body |-> <<c>>, packed |-> p, dir |-> <<>>]
  <2> HIDE DEF c
  <2> QED
    OBVIOUS
<1>5. Entry(CdName, "file", c, "deflate", Nil, Nil) =
        [name |-> CdName, kind |-> "file", crc |-> c, method |-> "deflate", hash |-> Nil, key |-> Nil,
         body |-> <<c>>, packed |-> "deflate" = "deflate", dir |-> <<>>]
  <2> HIDE DEF c
  <2> QED
    BY <1>4, Zenon DEF Entry
<1>6. PICK p \in BOOLEAN : p = ("deflate" = "deflate")
  BY Zenon
<1>7. Entry(CdName, "file", c, "deflate", Nil, Nil) =
        [name |-> CdName, kind |-> "file", crc |-> c, method |-> "deflate", hash |-> Nil, key |-> Nil,
         body |-> <<c>>, packed |-> p, dir |-> <<>>]
  BY <1>5, <1>6, Zenon
<1>8. e = [Entry(CdName, "file", c, "deflate", Nil, Nil) EXCEPT !.packed = FALSE, !.dir = dir]
  BY DEF CdEntry
<1> HIDE DEF c, dir
<1>9. e = [name |-> CdName, kind |-> "file", crc |-> c, method |-> "deflate", hash |-> Nil, key |-> Nil,
           body |-> <<c>>, packed |-> FALSE, dir |-> dir]
  <2>1. PICK q \in BOOLEAN : q = FALSE
    BY Zenon
  <2>2. PICK E : E = Entry(CdName, "file", c, "deflate", Nil, Nil)
    OBVIOUS
  <2>3. e = [E EXCEPT !.packed = q, !.dir = dir]
    BY <1>8, <2>1, <2>2, Zenon
  <2>4. E = [name |-> CdName, kind |-> "file", crc |-> c, method |-> "deflate", hash |-> Nil, key |-> Nil,
             body |-> <<c>>, packed |-> p, dir |-> <<>>]
    BY <1>7, <2>2, Zenon
  <2>5. e = [name |-> CdName, kind |-> "file", crc |-> c, method |-> "deflate", hash |-> Nil, key |-> Nil,
             body |-> <<c>>, packed |-> q, dir |-> dir]
    BY <2>3, <2>4
  <2> QED
    BY <2>1, <2>5, Zenon
<1>10. e \in Headers({CdName}, Seq(Plain))
  <2> HIDE DEF Plain
  <2> QED
    BY <1>1, <1>2, <1>3, <1>9 DEF Headers
<1> QED
  BY <1>2, <1>9, <1>10 DEF c

\* mz_zip_writer_zip_cd: one entry, which reads as the records and holds the list.
LEMMA CdZippedIs ==
  ASSUME NEW w, WrInv(w), NEW y, y = CdZipped(w)
  PROVE  /\ SameWriter(y, w) /\ y.raw = w.raw /\ y.entry = NoEntry /\ y.hash = Nil
         /\ \E z \in Zipped : /\ y.list = <<z>>
                              /\ ~w.raw /\ w.entry = NoEntry =>
                                   Reads(z, z.crc) /\ z.hash # Unknown /\ z.dir = w.list
<1>1. PICK e : e = CdEntry(w)
  OBVIOUS
<1>2. /\ e \in Headers({CdName}, Seq(Plain)) /\ e.kind = "file" /\ e.packed = FALSE /\ e.key = Nil
      /\ e.crc = CdRecords(w) /\ (w.entry = NoEntry => e.dir = w.list)
  <2> HIDE DEF Plain
  <2> QED
    BY <1>1, CdEntryIs
<1>3. PICK d : d = CdRecords(w)
  OBVIOUS
<1>4. d \in Data /\ d \in Body
  BY <1>3, CdRecordsType, BodyFacts
<1>5. PICK o : o = Opened(w, e)
  OBVIOUS
<1>6. /\ SameWriter(o, w) /\ o.raw = w.raw /\ o.entry = Ready(w, e, <<>>) /\ o.hash = <<>>
  BY <1>2, <1>5, OpenedIs
<1>7. PICK n : n = [o EXCEPT !.list = <<>>]
  OBVIOUS
<1>8. /\ SameWriter(n, w) /\ n.raw = w.raw /\ n.entry = Ready(w, e, <<>>) /\ n.hash = <<>> /\ n.list = <<>>
      /\ DOMAIN n = WrFields
  <2>1. DOMAIN o = WrFields
    BY <1>6 DEF SameWriter
  <2>2. /\ DOMAIN n = WrFields /\ n.open = o.open /\ n.path = o.path /\ n.mem = o.mem /\ n.opts = o.opts
        /\ n.raw = o.raw /\ n.entry = o.entry /\ n.hash = o.hash /\ n.list = <<>>
    BY <1>7, <2>1 DEF WrFields
  <2> QED
    BY <1>6, <2>2 DEF SameWriter
<1>9. PICK x : x = Written(n, d)
  OBVIOUS
<1>10. /\ SameWriter(x, n) /\ x.raw = n.raw /\ x.list = n.list /\ x.entry = Ready(w, e, d)
       /\ x.hash = IF n.hash = Nil THEN Nil ELSE n.hash \o d
  <2>1. DOMAIN n = WrFields /\ n.entry = Ready(w, e, <<>>)
    BY <1>8
  <2>2. d \in Body
    BY <1>4
  <2> QED
    BY <1>9, <2>1, <2>2, WrittenIs
<1>11. x.hash = d /\ d # Nil /\ d # Unknown
  <2>1. <<>> # Nil /\ d # Nil /\ d # Unknown
    BY <1>4, BodyFacts
  <2>2. <<>> \o d = d
    BY <1>4 DEF Data
  <2> QED
    BY <1>8, <1>10, <2>1, <2>2
<1>12. Suits(w, e, d)
  BY <1>2, <1>4 DEF Suits
<1>13. WeInv(x.entry, {CdName}, Seq(Plain))
  BY <1>2, <1>10, <1>12, ReadyInv
<1>14. y = EntryFinished(x)
  <2>1. y = EntryFinished(Written([Opened(w, CdEntry(w)) EXCEPT !.list = <<>>], CdRecords(w)))
    BY Zenon DEF CdZipped, CdEntry, CdRecords
  <2> QED
    BY <1>1, <1>3, <1>5, <1>7, <1>9, <2>1
<1>15. PICK z : z = Recorded(x.entry, x.entry.info.crc, HashField(x))
  OBVIOUS
<1>16. Ends(y, x, z) /\ y.hash = Nil
  <2>1. DOMAIN x = WrFields
    BY <1>10 DEF SameWriter
  <2> QED
    BY <1>14, <1>15, <2>1, EntryFinishedIs
<1>17. HashField(x) = d /\ x.entry.info.crc \in Body
  <2>1. HashField(x) = d
    BY <1>11 DEF HashField
  <2>2. x.entry.info.crc \in Body
    BY <1>13 DEF WeInv, Headers
  <2> QED
    BY <2>1, <2>2
<1>18. IsRecord(z, x.entry, x.entry.info.crc, d) /\ z \in EntriesOf({CdName}, Seq(Plain))
  <2>1. HashField(x) \in Body \cup {Nil, Unknown}
    BY <1>4, <1>17
  <2> QED
    BY <1>13, <1>15, <1>17, <2>1, RecordedIs
<1>19. z \in Zipped
  BY <1>18, Zenon DEF Zipped
<1>20. y.list = <<z>>
  BY <1>8, <1>10, <1>16 DEF Ends
<1>21. ASSUME ~w.raw, w.entry = NoEntry PROVE Reads(z, z.crc) /\ z.hash # Unknown /\ z.dir = w.list
  <2>1. x.entry.raw = w.raw /\ x.entry.tokens = d /\ x.entry.info = Header(w, e)
    BY <1>10 DEF Ready
  <2>2. HashField(x) \in Body \cup {Nil, Unknown} /\ ~x.entry.raw
    BY <1>4, <1>17, <1>21, <2>1
  <2>3. Reads(z, x.entry.tokens) /\ z.crc = x.entry.tokens
    BY <1>13, <1>15, <1>17, <2>2, RecordedReads
  <2>4. z.hash = d /\ z.dir = x.entry.info.dir
    BY <1>18 DEF IsRecord
  <2>5. x.entry.info.dir = e.dir
    BY <1>2, <2>1, HeaderIs
  <2> QED
    BY <1>2, <1>11, <1>21, <2>3, <2>4, <2>5
<1>22. SameWriter(y, w) /\ y.raw = w.raw /\ y.entry = NoEntry
  BY <1>8, <1>10, <1>16 DEF SameWriter, Ends
<1> QED
  BY <1>16, <1>19, <1>20, <1>21, <1>22

-----------------------------------------------------------------------------
(* The sessions of a writer *)

\* A caller that does not append to an archive whose directory is compressed.
NoAppendToZipped == "append to zipped" \notin Habits

\* What reader, writer and archives are; added and failed speak of archives there were.
TypeInv ==
  /\ ArchivesInv(archives) /\ \A p \in DOMAIN archives : Len(archives[p]) <= MaxEntries + 1
  /\ RdInv(rd)
  /\ WrInv(wr) /\ Used(wr) <= MaxEntries + 1
  /\ DOMAIN archives \subseteq DOMAIN added /\ failed \subseteq DOMAIN added
  /\ wr.open => wr.path \in DOMAIN added

\* A writer that was created is one.
LEMMA NoWriterInv ==
  /\ WrInv(NoWriter) /\ NoWriter.open = FALSE /\ NoWriter.entry = NoEntry /\ NoWriter.list = <<>>
  /\ NoWriter.raw = FALSE /\ NoWriter.hash = Nil /\ NoWriter.mem = FALSE
<1> DEFINE opts == [level |-> "best", raw |-> FALSE, zipCd |-> FALSE, key |-> Nil]
<1>1. opts \in Settings
  BY DEF Settings
<1>2. NoWriter = [open |-> FALSE, path |-> Nil, mem |-> FALSE, list |-> <<>>, entry |-> NoEntry,
                  hash |-> Nil, raw |-> FALSE, opts |-> opts]
  BY DEF NoWriter
<1> HIDE DEF opts
<1>3. /\ DOMAIN NoWriter = WrFields /\ NoWriter.raw = FALSE /\ NoWriter.list = <<>> /\ NoWriter.hash = Nil
      /\ NoWriter.opts = opts /\ NoWriter.entry = NoEntry /\ NoWriter.open = FALSE /\ NoWriter.mem = FALSE
  BY <1>2 DEF WrFields
<1>4. <<>> \in Seq(Plain)
  OBVIOUS
<1>5. WrInv(NoWriter)
  BY <1>1, <1>3, <1>4 DEF WrInv
<1> QED
  BY <1>3, <1>5

\* A writer that was closed keeps its hash and nothing else.
LEMMA NoWriterWith ==
  ASSUME NEW h \in Body \cup {Nil}, NEW w, w = [NoWriter EXCEPT !.hash = h]
  PROVE  /\ WrInv(w) /\ w.open = FALSE /\ w.entry = NoEntry /\ w.list = <<>> /\ w.raw = FALSE /\ w.hash = h
         /\ w.mem = FALSE /\ Used(w) = 0
<1>1. DOMAIN NoWriter = WrFields /\ NoWriter.opts \in Settings
  BY NoWriterInv DEF WrInv
<1>2. /\ DOMAIN w = WrFields /\ w.raw = NoWriter.raw /\ w.list = NoWriter.list /\ w.hash = h
      /\ w.opts = NoWriter.opts /\ w.entry = NoWriter.entry /\ w.open = NoWriter.open /\ w.mem = NoWriter.mem
  BY <1>1 DEF WrFields
<1>3. /\ w.open = FALSE /\ w.entry = NoEntry /\ w.list = <<>> /\ w.raw = FALSE /\ w.mem = FALSE
  BY <1>2, NoWriterInv
<1>4. <<>> \in Seq(Plain) /\ Len(<<>>) = 0
  OBVIOUS
<1>5. WrInv(w)
  BY <1>1, <1>2, <1>3, <1>4 DEF WrInv
<1>6. Used(w) = 0
  BY <1>3, <1>4 DEF Used, NoEntry
<1> QED
  BY <1>2, <1>3, <1>5, <1>6

\* mz_zip_writer_close: what ends up in the archive.
ClosedWith(w) == Closed(IF w.opts.zipCd THEN CdZipped(w) ELSE w)

\* mz_zip_writer_close: what is stored is the list, with what was open, or its compressed directory.
LEMMA CloseIs ==
  ASSUME NEW w, WrInv(w), Used(w) <= MaxEntries + 1, NEW c, c = ClosedWith(w)
  PROVE  /\ Stored(c.list) /\ Len(c.list) <= MaxEntries + 1 /\ c.hash \in Body \cup {Nil}
         /\ w.hash = Nil => c.hash = Nil
         /\ ~w.raw /\ w.entry = NoEntry =>
              \/ c.list = w.list
              \/ \E z \in Zipped : c.list = <<z>> /\ Reads(z, z.crc) /\ z.hash # Unknown /\ z.dir = w.list
<1>1. CASE w.opts.zipCd
  <2>1. PICK y : y = CdZipped(w)
    OBVIOUS
  <2>2. c = Closed(y)
    BY <1>1, <2>1 DEF ClosedWith
  <2>3. y.entry = NoEntry /\ y.hash = Nil
    BY <2>1, CdZippedIs
  <2>4. PICK z \in Zipped : /\ y.list = <<z>>
                            /\ ~w.raw /\ w.entry = NoEntry =>
                                 Reads(z, z.crc) /\ z.hash # Unknown /\ z.dir = w.list
    BY <2>1, CdZippedIs
  <2>5. c = y
    BY <2>2, <2>3 DEF Closed, NoEntry
  <2>6. Len(c.list) <= MaxEntries + 1
    <3>1. Len(c.list) = 1
      BY <2>4, <2>5
    <3> QED
      BY <3>1, BoundFact
  <2> QED
    BY <2>3, <2>4, <2>5, <2>6 DEF Stored
<1>2. CASE ~w.opts.zipCd
  <2>1. c = Closed(w)
    BY <1>2 DEF ClosedWith
  <2>2. /\ WrInv(c) /\ c.hash = w.hash /\ Len(c.list) = Len(w.list) + w.entry.i
        /\ w.entry = NoEntry => c = w
    BY <2>1, ClosedIs
  <2> QED
    BY <2>2 DEF WrInv, Stored, Used
<1> QED
  BY <1>1, <1>2

\* mz_zip_writer_close keeps the types.
LEMMA WriterCloseType ==
  ASSUME TypeInv, WriterClose PROVE TypeInv'
<1>1. PICK c : c = ClosedWith(wr)
  OBVIOUS
<1>2. /\ wr.open /\ archives' = IF wr.mem THEN archives ELSE Put(archives, wr.path, c.list)
      /\ wr' = [NoWriter EXCEPT !.hash = c.hash] /\ rd' = rd /\ added' = added /\ failed' = failed
  BY <1>1 DEF WriterClose, ClosedWith, Idle, readerVars
<1>3. WrInv(wr) /\ Used(wr) <= MaxEntries + 1 /\ wr.path \in DOMAIN added
  BY <1>2 DEF TypeInv
<1>4. Stored(c.list) /\ Len(c.list) <= MaxEntries + 1 /\ c.hash \in Body \cup {Nil}
  BY <1>1, <1>3, CloseIs
<1>5. WrInv(wr') /\ wr'.open = FALSE /\ Used(wr') = 0
  BY <1>2, <1>4, NoWriterWith
<1>6. /\ ArchivesInv(archives') /\ \A p \in DOMAIN archives' : Len(archives'[p]) <= MaxEntries + 1
      /\ DOMAIN archives' \subseteq DOMAIN added
  <2>1. /\ \A p \in DOMAIN archives : Stored(archives[p]) /\ Len(archives[p]) <= MaxEntries + 1
        /\ DOMAIN archives \subseteq DOMAIN added
    BY DEF TypeInv, ArchivesInv
  <2>2. CASE wr.mem
    BY <1>2, <2>1, <2>2 DEF ArchivesInv
  <2>3. CASE ~wr.mem
    <3>1. archives' = Put(archives, wr.path, c.list)
      BY <1>2, <2>3
    <3>2. /\ DOMAIN archives' = DOMAIN archives \cup {wr.path} /\ archives'[wr.path] = c.list
          /\ \A y \in DOMAIN archives : y # wr.path => archives'[y] = archives[y]
      BY <3>1 DEF Put
    <3> QED
      BY <1>3, <1>4, <2>1, <3>2 DEF ArchivesInv
  <2> QED
    BY <2>2, <2>3
<1>7. Used(wr') <= MaxEntries + 1
  BY <1>5, BoundFact
<1>8. RdInv(rd') /\ failed' \subseteq DOMAIN added' /\ DOMAIN archives' \subseteq DOMAIN added'
  BY <1>2, <1>6 DEF TypeInv
<1>9. wr'.open => wr'.path \in DOMAIN added'
  BY <1>5
<1> QED
  BY <1>5, <1>6, <1>7, <1>8, <1>9 DEF TypeInv

\* Options are settings.
LEMMA OptionsAreSettings == ASSUME NEW o \in WriterOptions PROVE o \in Settings
BY WriterAssumption DEF Settings

\* A writer that is opened.
OpenedFor(p, append, mem, o) ==
  /\ WrInv(wr') /\ Used(wr') <= MaxEntries + 1
  /\ wr'.open = TRUE /\ wr'.path = p /\ wr'.mem = mem /\ wr'.raw = o.raw /\ wr'.hash = wr.hash
  /\ wr'.entry = NoEntry /\ wr'.opts = o
  /\ wr'.list = IF append /\ p \in DOMAIN archives THEN archives[p] ELSE <<>>
  /\ append /\ p \in DOMAIN archives => archives[p] \in Seq(Plain)

\* mz_zip_writer_open_file: a new writer, which has the archive's list if it appends.
LEMMA WriterOpenIs ==
  ASSUME NoAppendToZipped, TypeInv, NEW p, NEW append \in BOOLEAN, NEW mem \in BOOLEAN, NEW o \in WriterOptions,
         WriterOpen(p, append, mem, o)
  PROVE  OpenedFor(p, append, mem, o)
<1> DEFINE w == [NoWriter EXCEPT !.open = TRUE, !.path = p, !.mem = mem, !.opts = o, !.raw = o.raw, !.hash = wr.hash]
<1>1. /\ wr' = IF append /\ p \in DOMAIN archives THEN [w EXCEPT !.list = archives[p]] ELSE w
      /\ append => ~(p \in DOMAIN archives /\ archives[p] # <<>> /\ archives[p][1].name = CdName)
  BY DEF WriterOpen, NoAppendToZipped
<1>2. o \in Settings /\ o.raw \in BOOLEAN
  BY OptionsAreSettings DEF Settings
<1>3. DOMAIN NoWriter = WrFields /\ NoWriter.entry = NoEntry /\ NoWriter.list = <<>>
  BY NoWriterInv DEF WrInv
<1>4. /\ DOMAIN w = WrFields /\ w.open = TRUE /\ w.path = p /\ w.mem = mem /\ w.opts = o /\ w.raw = o.raw
      /\ w.hash = wr.hash /\ w.entry = NoEntry /\ w.list = <<>>
  BY <1>3 DEF WrFields
<1>5. wr.hash \in Body \cup {Nil} /\ <<>> \in Seq(Plain) /\ Len(<<>>) = 0
  BY DEF TypeInv, WrInv
<1> HIDE DEF w
<1>6. CASE append /\ p \in DOMAIN archives
  <2>1. wr' = [w EXCEPT !.list = archives[p]]
    BY <1>1, <1>6
  <2>2. Stored(archives[p]) /\ Len(archives[p]) <= MaxEntries + 1
    BY <1>6 DEF TypeInv, ArchivesInv
  <2>3. archives[p] \in Seq(Plain)
    <3>1. ~(archives[p] # <<>> /\ archives[p][1].name = CdName)
      BY <1>1, <1>6
    <3>2. ASSUME NEW z \in Zipped, archives[p] = <<z>> PROVE FALSE
      <4>1. archives[p] # <<>> /\ archives[p][1] = z
        BY <3>2
      <4> QED
        BY <3>1, <4>1, ListedNames
    <3> QED
      BY <2>2, <3>2 DEF Stored
  <2>4. /\ DOMAIN wr' = WrFields /\ wr'.open = w.open /\ wr'.path = w.path /\ wr'.mem = w.mem
        /\ wr'.opts = w.opts /\ wr'.raw = w.raw /\ wr'.hash = w.hash /\ wr'.entry = w.entry
        /\ wr'.list = archives[p]
    BY <1>4, <2>1 DEF WrFields
  <2>5. WrInv(wr')
    BY <1>2, <1>4, <1>5, <2>3, <2>4 DEF WrInv
  <2>6. Used(wr') <= MaxEntries + 1
    <3>1. Len(archives[p]) \in Nat
      BY <2>3
    <3> QED
      BY <1>4, <2>2, <2>4, <3>1 DEF Used, NoEntry
  <2> QED
    BY <1>4, <1>6, <2>3, <2>4, <2>5, <2>6 DEF OpenedFor
<1>7. CASE ~(append /\ p \in DOMAIN archives)
  <2>1. wr' = w
    BY <1>1, <1>7
  <2>2. WrInv(wr')
    BY <1>2, <1>4, <1>5, <2>1 DEF WrInv
  <2>3. Used(wr') <= MaxEntries + 1
    BY <1>4, <1>5, <2>1, BoundFact DEF Used, NoEntry
  <2> QED
    BY <1>4, <1>7, <2>1, <2>2, <2>3 DEF OpenedFor
<1> QED
  BY <1>6, <1>7

-----------------------------------------------------------------------------
(* The types *)

\* mz_zip_writer_open_file keeps the types,
LEMMA WriterOpenType ==
  ASSUME NoAppendToZipped, TypeInv, NEW p, NEW append \in BOOLEAN, NEW mem \in BOOLEAN, NEW o \in WriterOptions,
         WriterOpen(p, append, mem, o)
  PROVE  TypeInv'
<1>1. WrInv(wr') /\ Used(wr') <= MaxEntries + 1 /\ wr'.path = p
  BY WriterOpenIs DEF OpenedFor
<1>2. /\ archives' = IF append THEN archives ELSE [q \in DOMAIN archives \ {p} |-> archives[q]]
      /\ added' = IF append /\ p \in DOMAIN archives THEN added ELSE Put(added, p, <<>>)
      /\ failed' = failed \ {p} /\ rd' = rd
  BY DEF WriterOpen, readerVars
<1>3. /\ \A q \in DOMAIN archives : Stored(archives[q]) /\ Len(archives[q]) <= MaxEntries + 1
      /\ DOMAIN archives \subseteq DOMAIN added /\ failed \subseteq DOMAIN added /\ RdInv(rd)
  BY DEF TypeInv, ArchivesInv
<1>4. DOMAIN added' = DOMAIN added \cup {p}
  <2>1. CASE append /\ p \in DOMAIN archives
    BY <1>2, <1>3, <2>1
  <2>2. CASE ~(append /\ p \in DOMAIN archives)
    BY <1>2, <2>2 DEF Put
  <2> QED
    BY <2>1, <2>2
<1>5. /\ ArchivesInv(archives') /\ \A q \in DOMAIN archives' : Len(archives'[q]) <= MaxEntries + 1
      /\ DOMAIN archives' \subseteq DOMAIN archives
  <2>1. CASE append
    BY <1>2, <1>3, <2>1 DEF ArchivesInv
  <2>2. CASE ~append
    BY <1>2, <1>3, <2>2 DEF ArchivesInv
  <2> QED
    BY <2>1, <2>2
<1>6. failed' \subseteq DOMAIN added' /\ DOMAIN archives' \subseteq DOMAIN added' /\ p \in DOMAIN added'
  BY <1>2, <1>3, <1>4, <1>5
<1> QED
  BY <1>1, <1>2, <1>3, <1>5, <1>6 DEF TypeInv

\* ... so does throwing the archive away,
LEMMA WriterDiscardType ==
  ASSUME TypeInv, WriterDiscard PROVE TypeInv'
<1>1. /\ archives' = [q \in DOMAIN archives \ {wr.path} |-> archives[q]]
      /\ added' = Put(added, wr.path, <<>>) /\ wr' = NoWriter /\ failed' = failed /\ rd' = rd
  BY DEF WriterDiscard, readerVars
<1>2. /\ \A q \in DOMAIN archives : Stored(archives[q]) /\ Len(archives[q]) <= MaxEntries + 1
      /\ DOMAIN archives \subseteq DOMAIN added /\ failed \subseteq DOMAIN added /\ RdInv(rd)
  BY DEF TypeInv, ArchivesInv
<1>3. DOMAIN added' = DOMAIN added \cup {wr.path}
  BY <1>1 DEF Put
<1>4. /\ ArchivesInv(archives') /\ \A q \in DOMAIN archives' : Len(archives'[q]) <= MaxEntries + 1
      /\ DOMAIN archives' \subseteq DOMAIN archives
  BY <1>1, <1>2 DEF ArchivesInv
<1>5. WrInv(wr') /\ Used(wr') <= MaxEntries + 1 /\ wr'.open = FALSE
  <2>1. /\ WrInv(NoWriter) /\ NoWriter.open = FALSE /\ NoWriter.entry.i = 0 /\ Len(NoWriter.list) = 0
    <3>1. Len(<<>>) = 0
      OBVIOUS
    <3> QED
      BY <3>1, NoWriterInv DEF NoEntry
  <2> QED
    BY <1>1, <2>1, BoundFact DEF Used
<1>6. failed' \subseteq DOMAIN added' /\ DOMAIN archives' \subseteq DOMAIN added'
  BY <1>1, <1>2, <1>3, <1>4
<1> QED
  BY <1>1, <1>2, <1>4, <1>5, <1>6 DEF TypeInv

\* The calls that add.
Adds == (\E n \in Names : AddInfo(n) \/ AddInfoFails(n)) \/ CopyFromReader \/ CopyFails

\* ... and a call that adds takes one place in the list and changes no archive,
LEMMA AddsIs ==
  ASSUME TypeInv, Adds
  PROVE  /\ WrInv(wr') /\ Used(wr') <= MaxEntries + 1 /\ SameWriter(wr', wr) /\ wr'.raw = wr.raw
         /\ wr.open /\ archives' = archives /\ rd' = rd /\ last' = last
         /\ \/ (\E a : NoteAdded(a)) \/ NoteFailed
<1>1. WrInv(wr) /\ RdInv(rd)
  BY DEF TypeInv
<1>2. ASSUME NEW n \in Names, AddInfo(n)
      PROVE  WrInv(wr') /\ Used(wr') = Used(wr) + 1 /\ SameWriter(wr', wr) /\ wr'.raw = wr.raw
  BY <1>1, <1>2, AddInfoIs
<1>3. ASSUME NEW n \in Names, AddInfoFails(n)
      PROVE  WrInv(wr') /\ Used(wr') = Used(wr) + 1 /\ SameWriter(wr', wr) /\ wr'.raw = wr.raw
  BY <1>1, <1>3, AddInfoFailsIs
<1>4. ASSUME CopyFromReader
      PROVE  WrInv(wr') /\ Used(wr') = Used(wr) + 1 /\ SameWriter(wr', wr) /\ wr'.raw = wr.raw
  BY <1>1, <1>4, CopyIs
<1>5. ASSUME CopyFails
      PROVE  WrInv(wr') /\ Used(wr') = Used(wr) + 1 /\ SameWriter(wr', wr) /\ wr'.raw = wr.raw
  BY <1>1, <1>5, CopyFailsIs
<1>6. WrInv(wr') /\ Used(wr') = Used(wr) + 1 /\ SameWriter(wr', wr) /\ wr'.raw = wr.raw
  BY <1>2, <1>3, <1>4, <1>5, Zenon DEF Adds
<1>7. /\ wr.open /\ archives' = archives /\ rd' = rd /\ last' = last /\ Room
      /\ \/ (\E a : NoteAdded(a)) \/ NoteFailed
  BY Zenon DEF Adds, AddInfo, AddInfoFails, CopyFromReader, CopyFails, Idle, readerVars
<1>8. Used(wr) < MaxEntries /\ Used(wr) \in Nat
  <2>1. Len(wr.list) \in Nat /\ wr.entry.i \in {0, 1}
    BY <1>1, ClosedIs DEF WrInv
  <2> QED
    BY <1>7, <2>1 DEF Used, Room
<1> QED
  BY <1>6, <1>7, <1>8, BoundFact

\* ... which keeps the types.
LEMMA AddsType ==
  ASSUME TypeInv, Adds PROVE TypeInv'
<1>1. /\ WrInv(wr') /\ Used(wr') <= MaxEntries + 1 /\ SameWriter(wr', wr)
      /\ wr.open /\ archives' = archives /\ rd' = rd
      /\ \/ (\E a : NoteAdded(a)) \/ NoteFailed
  BY AddsIs
<1>2. wr.path \in DOMAIN added /\ failed \subseteq DOMAIN added
  BY <1>1 DEF TypeInv
<1>3. DOMAIN added' = DOMAIN added /\ failed' \subseteq DOMAIN added
  <2>1. ASSUME NEW a, NoteAdded(a) PROVE DOMAIN added' = DOMAIN added /\ failed' = failed
    BY <2>1 DEF NoteAdded
  <2>2. ASSUME NoteFailed PROVE added' = added /\ failed' = failed \cup {wr.path}
    BY <2>2 DEF NoteFailed
  <2> QED
    BY <1>1, <1>2, <2>1, <2>2
<1>4. wr'.path = wr.path
  BY <1>1 DEF SameWriter
<1> QED
  BY <1>1, <1>2, <1>3, <1>4 DEF TypeInv

\* The steps of the reader, as far as they matter to a writer.
ReaderSteps ==
  \/ ReaderMoves /\ rd'.path \notin {wr.path} \ {Nil} /\ UNCHANGED writerVars
  \/ ReaderReads /\ ~wr.open /\ (writers = 0 \/ rd.path \in Paths) /\ UNCHANGED writerVars
  \/ SaveStep /\ UNCHANGED writerVars

\* The steps, in groups.
LEMMA NextIs ==
  ASSUME Next
  PROVE  \/ ReaderSteps
         \/ \E p \in Paths, append, mem \in BOOLEAN, o \in WriterOptions : WriterOpen(p, append, mem, o)
         \/ WriterClose
         \/ WriterDiscard
         \/ Adds
BY Zenon DEF Next, ReaderSteps, Adds

\* No step of the reader touches an archive or the writer.
LEMMA ReaderStepIs ==
  ASSUME TypeInv, ReaderSteps
  PROVE  RdInv(rd') /\ archives' = archives /\ wr' = wr /\ added' = added /\ failed' = failed
<1>1. wr' = wr /\ added' = added /\ failed' = failed /\ (ReaderMoves \/ ReaderReads \/ SaveStep)
  BY DEF ReaderSteps, writerVars
<1>2. RdInv(rd) /\ ArchivesInv(archives)
  BY DEF TypeInv
<1>3. \/ Stays
      \/ ReaderClose
      \/ \E o \in ReaderOptions : Configure(o)
      \/ \E p \in DOMAIN archives, o \in ReaderOptions : ReaderOpen(p, o)
  BY <1>1, <1>2, ReaderStep
<1>4. CASE Stays
  BY <1>1, <1>4 DEF Stays
<1>5. CASE ReaderClose
  BY <1>1, <1>5, NoReaderInv DEF ReaderClose
<1>6. ASSUME NEW o \in ReaderOptions, Configure(o) PROVE RdInv(rd') /\ archives' = archives
  <2>1. rd.entry.i = 0 /\ rd' = [rd EXCEPT !.opts = o] /\ archives' = archives
    BY <1>6 DEF Configure
  <2>2. rd.entry = NoEntry /\ PlaceInv(rd)
    BY <1>2, <2>1, OpenIsOpen DEF RdInv
  <2>3. DOMAIN rd = RdFields /\ o.raw \in BOOLEAN
    BY <2>2, ReaderAssumption DEF PlaceInv
  <2>4. /\ DOMAIN rd' = RdFields /\ rd'.list = rd.list /\ rd'.at = rd.at /\ rd'.info = rd.info
        /\ rd'.entry = rd.entry /\ rd'.opts = o
    BY <2>1, <2>3 DEF RdFields
  <2>5. PlaceInv(rd')
    BY <2>2, <2>3, <2>4 DEF PlaceInv
  <2> QED
    BY <2>1, <2>2, <2>4, <2>5, NoLongerOpen
<1>7. ASSUME NEW p \in DOMAIN archives, NEW o \in ReaderOptions, ReaderOpen(p, o)
      PROVE  RdInv(rd') /\ archives' = archives
  BY <1>2, <1>7, ReaderOpenIs DEF ReaderOpen
<1> QED
  BY <1>1, <1>3, <1>4, <1>5, <1>6, <1>7

\* Every step keeps the types.
LEMMA TypeStep ==
  ASSUME NoAppendToZipped, TypeInv, [Next]_vars PROVE TypeInv'
<1>1. CASE ReaderSteps
  <2>1. RdInv(rd') /\ archives' = archives /\ wr' = wr /\ added' = added /\ failed' = failed
    BY <1>1, ReaderStepIs
  <2> QED
    BY <2>1 DEF TypeInv
<1>2. CASE UNCHANGED vars
  BY <1>2 DEF TypeInv, vars, readerVars, writerVars
<1> QED
  BY <1>1, <1>2, NextIs, WriterOpenType, WriterCloseType, WriterDiscardType, AddsType

\* They hold at first.
LEMMA TypeInit == Init => TypeInv
<1> SUFFICES ASSUME Init PROVE TypeInv
  OBVIOUS
<1>1. PICK a \in Given : /\ archives = [p \in DOMAIN a |-> a[p]]
                         /\ added = [p \in DOMAIN a |-> [i \in DOMAIN a[p] |-> Told(a[p][i])]]
  BY DEF Init
<1>2. rd = NoReader /\ wr = NoWriter /\ failed = {}
  BY DEF Init
<1>3. \A p \in DOMAIN a : a[p] \in Seq(Plain) /\ Len(a[p]) <= MaxEntries + 1
  BY GivenAssumption
<1>4. DOMAIN archives = DOMAIN a /\ DOMAIN added = DOMAIN a /\ \A p \in DOMAIN a : archives[p] = a[p]
  BY <1>1
<1>5. ArchivesInv(archives) /\ \A p \in DOMAIN archives : Len(archives[p]) <= MaxEntries + 1
  BY <1>3, <1>4 DEF ArchivesInv, Stored
<1>6. RdInv(rd)
  BY <1>2, NoReaderInv
<1>7. WrInv(wr) /\ Used(wr) <= MaxEntries + 1 /\ ~wr.open
  <2>1. Len(<<>>) = 0
    OBVIOUS
  <2> QED
    BY <1>2, <2>1, NoWriterInv, BoundFact DEF Used, NoEntry
<1> QED
  BY <1>2, <1>4, <1>5, <1>6, <1>7 DEF TypeInv

\* The inductive invariant of the types.
LEMMA TypeAlways ==
  ASSUME NoAppendToZipped PROVE Spec => []TypeInv
<1>1. TypeInv /\ [Next]_vars => TypeInv'
  BY TypeStep
<1> QED
  BY <1>1, TypeInit, PTL DEF Spec

\* It implies the type invariant of the runs.
LEMMA TypeIsOK == TypeInv => TypeOK
<1> SUFFICES ASSUME TypeInv PROVE TypeOK
  OBVIOUS
<1>1. RdInv(rd) /\ PlaceInv(rd)
  BY DEF TypeInv, RdInv
<1>2. /\ Len(rd.list) \in Nat /\ rd.at \in 0..(Len(rd.list) + 1) /\ rd.info \in {0, rd.at}
      /\ (rd.info # 0 => rd.info \in 1..Len(rd.list))
  BY <1>1, PlaceType DEF PlaceInv
<1>3. CASE rd.entry = NoEntry
  <2>1. rd.entry.i = 0
    BY <1>3 DEF NoEntry
  <2>2. rd.entry.i \in 0..Len(rd.list)
    BY <1>2, <2>1
  <2>3. Len(wr.list) <= MaxEntries + 1
    <3>1. WrInv(wr) /\ Used(wr) <= MaxEntries + 1
      BY DEF TypeInv
    <3>2. Len(wr.list) \in Nat /\ wr.entry.i \in {0, 1}
      BY <3>1, ClosedIs DEF WrInv
    <3> QED
      BY <3>1, <3>2, BoundFact DEF Used
  <2> QED
    BY <1>2, <2>1, <2>2, <2>3 DEF TypeInv, TypeOK
<1>4. CASE OpenInv(rd, rd.entry)
  <2>1. rd.entry.i = rd.info /\ rd.info # 0 /\ rd.entry.pos \in 0..Len(rd.entry.data)
    BY <1>4 DEF OpenInv
  <2>2. rd.entry.i \in 0..Len(rd.list)
    BY <1>2, <2>1
  <2>3. Len(wr.list) <= MaxEntries + 1
    <3>1. WrInv(wr) /\ Used(wr) <= MaxEntries + 1
      BY DEF TypeInv
    <3>2. Len(wr.list) \in Nat /\ wr.entry.i \in {0, 1}
      BY <3>1, ClosedIs DEF WrInv
    <3> QED
      BY <3>1, <3>2, BoundFact DEF Used
  <2> QED
    BY <1>2, <2>1, <2>2, <2>3 DEF TypeInv, TypeOK
<1> QED
  BY <1>1, <1>3, <1>4 DEF RdInv

\* The reader's cursor, its entry info and the entry that is open agree, and a writer never holds more
\* records than were added, but for that of a compressed directory (mz_zip_rw.c:321-381).
THEOREM TypeOKAlways ==
  ASSUME NoAppendToZipped PROVE Spec => []TypeOK
<1>1. Spec => []TypeInv
  BY TypeAlways
<1> QED
  BY <1>1, TypeIsOK, PTL

-----------------------------------------------------------------------------
(* What a reader is shown *)

\* Callers with none of the habits of a writer's, who set a reader up once it is open.
PlainCallers == WriterHabits \cap Habits = {} /\ "set up at open" \notin Habits

\* Their habits, one by one.
LEMMA HabitFacts ==
  ASSUME PlainCallers
  PROVE  /\ "go on after a failed add" \notin Habits /\ "copy at level 0" \notin Habits
         /\ "write raw" \notin Habits /\ "write in memory" \notin Habits /\ NoAppendToZipped
         /\ "set up at open" \notin Habits
BY DEF PlainCallers, WriterHabits, NoAppendToZipped

\* A list of entries shows what was added; so does an archive.
Shown(L, A) == [i \in DOMAIN L |-> Told(L[i])] = A
ArchiveShows(L, A) ==
  \/ L \in Seq(Plain) /\ Shown(L, A)
  \/ \E z \in Zipped : L = <<z>> /\ Reads(z, z.crc) /\ z.hash # Unknown /\ Shown(z.dir, A)

\* A list that shows what was added goes on to, with an entry more and what it tells.
LEMMA ShownOn ==
  ASSUME NEW L \in Seq(Plain), NEW A, Shown(L, A), NEW e \in Plain
  PROVE  Shown(Append(L, e), Append(A, Told(e)))
<1>1. DOMAIN L = 1..Len(L) /\ Len(L) \in Nat
  OBVIOUS
<1> DEFINE n == Len(L)
           M == Append(L, e)
           f == [i \in DOMAIN M |-> Told(M[i])]
<1>2. A = [i \in 1..n |-> Told(L[i])]
  BY <1>1, Zenon DEF Shown
<1>3. DOMAIN M = 1..(n + 1) /\ M[n + 1] = e /\ \A i \in 1..n : M[i] = L[i]
  <2> HIDE DEF Plain
  <2> QED
    BY <1>1
<1> DEFINE T == {Told(x) : x \in Plain}
<1>4. A \in Seq(T) /\ Len(A) = n
  <2>1. \A i \in 1..n : L[i] \in Plain
    <3> HIDE DEF Plain
    <3> QED
      BY <1>1
  <2>2. \A i \in 1..n : Told(L[i]) \in T
    BY <2>1, Zenon
  <2> HIDE DEF T, n
  <2>3. n \in Nat
    BY <1>1 DEF n
  <2> QED
    BY <1>2, <2>2, <2>3
<1>5. Told(e) \in T
  BY Zenon
<1> HIDE DEF T
<1> DEFINE B == Append(A, Told(e))
<1>6. DOMAIN B = 1..(n + 1) /\ B[n + 1] = Told(e) /\ \A i \in 1..n : B[i] = A[i]
  BY <1>1, <1>4, <1>5
<1>7. B \in Seq(T)
  BY <1>4, <1>5
<1>8. \A i \in 1..n : B[i] = Told(M[i])
  BY <1>2, <1>3, <1>6, Zenon
<1>9. B[n + 1] = Told(M[n + 1])
  BY <1>3, <1>6, Zenon
<1>10. \A i \in DOMAIN M : B[i] = Told(M[i])
  <2> HIDE DEF B, M, n
  <2>1. n \in Nat
    BY <1>1 DEF n
  <2>2. \A i \in 1..(n + 1) : i \in 1..n \/ i = n + 1
    BY <2>1
  <2> QED
    BY <1>3, <1>8, <1>9, <2>2, Zenon
<1> HIDE DEF B, M, n
<1>11. B = [i \in DOMAIN B |-> B[i]]
  BY <1>7
<1>12. f = B
  <2>1. DOMAIN B = DOMAIN M
    BY <1>3, <1>6
  <2>2. B = [i \in DOMAIN M |-> B[i]]
    BY <1>11, <2>1, Zenon
  <2> QED
    BY <1>10, <2>2
<1> QED
  BY <1>12, Zenon DEF Shown, B, M

\* An empty list shows that nothing was added.
LEMMA ShownNothing == Shown(<<>>, <<>>)
BY DEF Shown

\* Opening an archive shows what it holds.
Keyed(r, L) == \A e \in ToSet(r.list \o L) : e.key \in {Nil, r.opts.password}

\* A reader that opens an archive, with the passwords of its entries, lists what was added.
LEMMA OpenShows ==
  ASSUME NEW L, NEW A, ArchiveShows(L, A), NEW r, r.list = L, CdName \in r.opts.pattern, ~r.opts.raw,
         NEW u, Lists(u, r), u.opts = r.opts, u.list \in Seq(Listed), Keyed(u, L)
  PROVE  Shown(u.list, A)
<1>1. CASE L \in Seq(Plain) /\ Shown(L, A)
  BY <1>1, Zenon DEF Lists
<1>2. ASSUME NEW z \in Zipped, L = <<z>>, Reads(z, z.crc), z.hash # Unknown, Shown(z.dir, A)
      PROVE  Shown(u.list, A)
  <2>1. z \in ToSet(u.list \o L)
    <3>1. Len(u.list) \in Nat
      OBVIOUS
    <3>2. z \in Listed
      BY Zenon DEF Listed
    <3>3. (u.list \o L)[Len(u.list) + 1] = z /\ Len(u.list) + 1 \in DOMAIN (u.list \o L)
      <4> HIDE DEF Listed, Zipped
      <4> QED
        BY <1>2, <3>1, <3>2
    <3> QED
      BY <3>3 DEF ToSet
  <2>2. z.key = Nil \/ z.key = r.opts.password
    BY <2>1 DEF Keyed
  <2>3. Stream(z, FALSE, r.opts.password) = [data |-> z.crc, fails |-> FALSE]
    BY <1>2, <2>2, Zenon DEF Reads
  <2>4. PICK s : s = Stream(z, FALSE, r.opts.password)
    OBVIOUS
  <2>5. s.data = z.crc
    <3>1. s = [data |-> z.crc, fails |-> FALSE]
      BY <2>3, <2>4, Zenon
    <3> QED
      BY <3>1
  <2>6. ReadsAsCrc(z, r.opts.password)
    <3>1. z.key \in {Nil, r.opts.password}
      BY <2>2
    <3> QED
      BY <1>2, <2>4, <2>5, <3>1, Zenon DEF ReadsAsCrc
  <2>7. u.list = z.dir
    BY <1>2, <2>6, Zenon DEF Lists
  <2> QED
    BY <1>2, <2>7
<1> QED
  BY <1>1, <1>2 DEF ArchiveShows

\* The archives that are not being written, the one that is, and the reader's.
FilesShow == \A p \in DOMAIN archives : (wr.open /\ wr.path = p) \/ ArchiveShows(archives[p], added[p])
WriterShows ==
  /\ wr.open /\ wr.path \notin failed =>
       wr.entry = NoEntry /\ wr.hash = Nil /\ Shown(wr.list, added[wr.path])
  /\ ~wr.open => wr.hash = Nil
  /\ ~wr.raw /\ ~wr.mem
ReaderShows ==
  /\ wr.open => wr.path # rd.path /\ wr.path \in Paths
  /\ rd.open => rd.path \in DOMAIN archives
  /\ rd.open /\ last.op = "open" /\ Keyed(rd, archives[rd.path]) => Shown(rd.list, added[rd.path])
\* The inductive invariant of what is shown.
ShowInv == TypeInv /\ FilesShow /\ WriterShows /\ ReaderShows

\* The reader's steps keep that.
LEMMA ReaderStepsShow ==
  ASSUME PlainCallers, ShowInv, ReaderSteps PROVE FilesShow' /\ WriterShows' /\ ReaderShows'
<1>1. RdInv(rd') /\ archives' = archives /\ wr' = wr /\ added' = added /\ failed' = failed
  BY ReaderStepIs DEF ShowInv
<1>2. FilesShow' /\ WriterShows'
  BY <1>1 DEF ShowInv, FilesShow, WriterShows
<1>3. RdInv(rd) /\ ArchivesInv(archives) /\ ReaderShows /\ FilesShow
  BY DEF ShowInv, TypeInv
<1>4. \/ Stays
      \/ ReaderClose
      \/ \E o \in ReaderOptions : Configure(o)
      \/ \E p \in DOMAIN archives, o \in ReaderOptions : ReaderOpen(p, o)
  <2>1. ReaderMoves \/ ReaderReads \/ SaveStep
    BY DEF ReaderSteps
  <2> QED
    BY <1>3, <2>1, ReaderStep
<1>5. CASE Stays
  <2>1. rd'.open = rd.open /\ rd'.path = rd.path /\ rd'.opts = rd.opts /\ rd'.list = rd.list /\ Later
    BY <1>5 DEF Stays, SameList, SameSession
  <2>2. Keyed(rd', archives[rd.path]) => Keyed(rd, archives[rd.path])
    BY <2>1 DEF Keyed
  <2> QED
    BY <1>1, <1>2, <1>3, <2>1, <2>2 DEF ReaderShows, Later
<1>6. CASE ReaderClose
  <2>1. rd' = NoReader /\ NoReader.path = Nil /\ NoReader.open = FALSE
    BY <1>6, NoReaderInv DEF ReaderClose, NoReader
  <2>2. wr.open => wr.path \in Paths /\ Nil \notin Paths
    BY <1>3, WriterAssumption DEF ReaderShows
  <2> QED
    BY <1>1, <1>2, <2>1, <2>2 DEF ReaderShows
<1>7. ASSUME NEW o \in ReaderOptions, Configure(o) PROVE ReaderShows'
  <2>1. rd' = [rd EXCEPT !.opts = o] /\ last'.op # "open"
    BY <1>7 DEF Configure, Quiet, NoResult
  <2>2. DOMAIN rd = RdFields
    BY <1>3 DEF RdInv, PlaceInv
  <2>3. rd'.open = rd.open /\ rd'.path = rd.path
    BY <2>1, <2>2 DEF RdFields
  <2> QED
    BY <1>1, <1>3, <2>1, <2>3 DEF ReaderShows
<1>8. ASSUME NEW p \in DOMAIN archives, NEW o \in ReaderOptions, ReaderOpen(p, o) PROVE ReaderShows'
  <2>1. /\ rd'.open /\ rd'.path = p /\ rd'.opts = o
        /\ \E r : r.list = archives[p] /\ r.opts = o /\ Lists(rd', r)
    BY <1>3, <1>8, ReaderOpenIs
  <2>2. PICK r : r.list = archives[p] /\ r.opts = o /\ Lists(rd', r)
    BY <2>1
  <2>3. wr.open => wr.path # p /\ wr.path \in Paths
    <3> HAVE wr.open
    <3>1. wr.path \in Paths /\ wr.path # Nil
      BY <1>3, WriterAssumption DEF ReaderShows
    <3>2. \/ rd'.path \notin {wr.path} \ {Nil}
          \/ SaveStep
          \/ ~wr.open
      BY DEF ReaderSteps
    <3>3. ~SaveStep
      <4>1. job = NoJob
        BY <1>8 DEF ReaderOpen
      <4>2. job.op = "none"
        BY <4>1 DEF NoJob
      <4> QED
        BY <4>2 DEF SaveStep, SaveOpen, SaveProcess, SaveEnd, SaveAllFile, SaveFileDone
    <3> QED
      BY <2>1, <3>1, <3>2, <3>3
  <2>4. ArchiveShows(archives[p], added[p])
    BY <1>3, <2>3 DEF FilesShow
  <2>5. CdName \in o.pattern /\ ~o.raw
    BY <1>8, HabitFacts DEF ReaderOpen
  <2>6. rd'.list \in Seq(Listed)
    BY <1>1 DEF RdInv, PlaceInv
  <2>7. Keyed(rd', archives[p]) => Shown(rd'.list, added[p])
    BY <2>1, <2>2, <2>4, <2>5, <2>6, OpenShows
  <2> QED
    BY <1>1, <2>1, <2>3, <2>7 DEF ReaderShows
<1>9. ReaderShows'
  BY <1>4, <1>5, <1>6, <1>7, <1>8
<1> QED
  BY <1>2, <1>9

\* A step of the writer's, at its path: what the reader is told does not change.
LEMMA ElsewhereShows ==
  ASSUME ReaderShows, rd' = rd, last' = last, NEW p, rd.path # p \/ ~rd.open,
         \A q \in DOMAIN archives : q # p => q \in DOMAIN archives' /\ archives'[q] = archives[q] /\ added'[q] = added[q],
         wr'.open => wr'.path # rd.path /\ wr'.path \in Paths
  PROVE  ReaderShows'
<1>1. CASE ~rd.open
  BY <1>1 DEF ReaderShows
<1>2. CASE rd.open
  <2>1. rd.path \in DOMAIN archives /\ rd.path # p
    BY <1>2 DEF ReaderShows
  <2>2. rd.path \in DOMAIN archives' /\ archives'[rd.path] = archives[rd.path] /\ added'[rd.path] = added[rd.path]
    BY <2>1
  <2> QED
    BY <1>2, <2>2 DEF ReaderShows
<1> QED
  BY <1>1, <1>2

\* So does mz_zip_writer_close: the file shows what the writer did,
LEMMA WriterCloseShows ==
  ASSUME PlainCallers, ShowInv, WriterClose PROVE FilesShow' /\ WriterShows' /\ ReaderShows'
<1>1. PICK c : c = ClosedWith(wr)
  OBVIOUS
<1>2. /\ wr.open /\ wr.path \notin failed /\ archives' = IF wr.mem THEN archives ELSE Put(archives, wr.path, c.list)
      /\ wr' = [NoWriter EXCEPT !.hash = c.hash] /\ rd' = rd /\ last' = last /\ added' = added /\ failed' = failed
  BY <1>1, HabitFacts DEF WriterClose, ClosedWith, Idle, readerVars
<1>3. TypeInv /\ FilesShow /\ WriterShows /\ ReaderShows
  BY DEF ShowInv
<1>4. /\ wr.entry = NoEntry /\ wr.hash = Nil /\ Shown(wr.list, added[wr.path]) /\ ~wr.raw /\ ~wr.mem
      /\ WrInv(wr) /\ Used(wr) <= MaxEntries + 1
  BY <1>2, <1>3 DEF WriterShows, TypeInv
<1>5. /\ c.hash = Nil
      /\ \/ c.list = wr.list
         \/ \E z \in Zipped : c.list = <<z>> /\ Reads(z, z.crc) /\ z.hash # Unknown /\ z.dir = wr.list
  BY <1>1, <1>4, CloseIs
<1>6. ArchiveShows(c.list, added[wr.path])
  <2>1. wr.list \in Seq(Plain)
    BY <1>4 DEF WrInv
  <2>2. CASE c.list = wr.list
    BY <1>4, <2>1, <2>2 DEF ArchiveShows
  <2>3. ASSUME NEW z \in Zipped, c.list = <<z>>, Reads(z, z.crc), z.hash # Unknown, z.dir = wr.list
        PROVE  ArchiveShows(c.list, added[wr.path])
    <3>1. Shown(z.dir, added[wr.path])
      BY <1>4, <2>3
    <3> QED
      BY <2>3, <3>1, Zenon DEF ArchiveShows
  <2> QED
    BY <1>5, <2>2, <2>3
<1>7. /\ DOMAIN archives' = DOMAIN archives \cup {wr.path} /\ archives'[wr.path] = c.list
      /\ \A y \in DOMAIN archives : y # wr.path => archives'[y] = archives[y]
  BY <1>2, <1>4 DEF Put
<1>8. FilesShow'
  BY <1>2, <1>3, <1>6, <1>7 DEF FilesShow
<1>9. wr'.open = FALSE /\ wr'.hash = Nil /\ wr'.raw = FALSE /\ wr'.mem = FALSE
  <2>1. Nil \in Body \cup {Nil}
    OBVIOUS
  <2> QED
    BY <1>2, <1>5, <2>1, NoWriterWith
<1>10. WriterShows'
  BY <1>9 DEF WriterShows
<1>11. ReaderShows'
  <2>1. rd.path # wr.path
    BY <1>2, <1>3 DEF ReaderShows
  <2>2. \A q \in DOMAIN archives : q # wr.path =>
          q \in DOMAIN archives' /\ archives'[q] = archives[q] /\ added'[q] = added[q]
    BY <1>2, <1>7
  <2> QED
    BY <1>2, <1>3, <1>9, <2>1, <2>2, ElsewhereShows
<1> QED
  BY <1>8, <1>10, <1>11

\* ... so does throwing the archive away,
LEMMA WriterDiscardShows ==
  ASSUME PlainCallers, ShowInv, WriterDiscard PROVE FilesShow' /\ WriterShows' /\ ReaderShows'
<1>1. /\ archives' = [q \in DOMAIN archives \ {wr.path} |-> archives[q]] /\ wr.open
      /\ added' = Put(added, wr.path, <<>>) /\ wr' = NoWriter /\ failed' = failed /\ rd' = rd /\ last' = last
  BY DEF WriterDiscard, readerVars
<1>2. FilesShow /\ WriterShows /\ ReaderShows /\ DOMAIN archives \subseteq DOMAIN added
  BY DEF ShowInv, TypeInv
<1>3. \A q \in DOMAIN archives : q # wr.path =>
        q \in DOMAIN archives' /\ archives'[q] = archives[q] /\ added'[q] = added[q]
  <2>1. \A q \in DOMAIN added : q # wr.path => added'[q] = added[q]
    BY <1>1 DEF Put
  <2> QED
    BY <1>1, <1>2, <2>1
<1>4. DOMAIN archives' = DOMAIN archives \ {wr.path}
  BY <1>1
<1>5. FilesShow'
  BY <1>2, <1>3, <1>4 DEF FilesShow
<1>6. wr'.open = FALSE /\ wr'.hash = Nil /\ wr'.raw = FALSE /\ wr'.mem = FALSE
  BY <1>1, NoWriterInv
<1>7. WriterShows'
  BY <1>6 DEF WriterShows
<1>8. ReaderShows'
  <2>1. rd.path # wr.path
    BY <1>1, <1>2 DEF ReaderShows
  <2> QED
    BY <1>1, <1>2, <1>3, <1>6, <2>1, ElsewhereShows
<1> QED
  BY <1>5, <1>7, <1>8

-----------------------------------------------------------------------------
(* What a reader is shown: opening, adding, and all steps *)

\* ... so does mz_zip_writer_open_file: nothing was added yet, or what the archive shows,
LEMMA WriterOpenShows ==
  ASSUME PlainCallers, ShowInv, NEW p \in Paths, NEW append \in BOOLEAN, NEW mem \in BOOLEAN, NEW o \in WriterOptions,
         WriterOpen(p, append, mem, o)
  PROVE  FilesShow' /\ WriterShows' /\ ReaderShows'
<1>1. TypeInv /\ FilesShow /\ WriterShows /\ ReaderShows /\ DOMAIN archives \subseteq DOMAIN added
  BY DEF ShowInv, TypeInv
<1>2. /\ archives' = IF append THEN archives ELSE [q \in DOMAIN archives \ {p} |-> archives[q]]
      /\ added' = IF append /\ p \in DOMAIN archives THEN added ELSE Put(added, p, <<>>)
      /\ failed' = failed \ {p} /\ rd' = rd /\ last' = last /\ ~wr.open /\ rd.path # p
      /\ ~mem
  BY HabitFacts DEF WriterOpen, readerVars
<1>0. OpenedFor(p, append, mem, o)
  BY <1>1, HabitFacts, WriterOpenIs
<1>3. /\ wr'.open = TRUE /\ wr'.path = p /\ wr'.mem = mem /\ wr'.raw = o.raw /\ wr'.hash = wr.hash
      /\ wr'.entry = NoEntry
      /\ wr'.list = IF append /\ p \in DOMAIN archives THEN archives[p] ELSE <<>>
      /\ append /\ p \in DOMAIN archives => archives[p] \in Seq(Plain)
  BY <1>0 DEF OpenedFor
<1>4. ~o.raw
  BY HabitFacts, WriterAssumption
<1>5. \A q \in DOMAIN archives : q # p =>
        q \in DOMAIN archives' /\ archives'[q] = archives[q] /\ added'[q] = added[q]
  <2>1. \A q \in DOMAIN added : q # p => added'[q] = added[q]
    <3>1. CASE append /\ p \in DOMAIN archives
      BY <1>2, <3>1
    <3>2. CASE ~(append /\ p \in DOMAIN archives)
      BY <1>2, <3>2 DEF Put
    <3> QED
      BY <3>1, <3>2
  <2>2. \A q \in DOMAIN archives : q # p => q \in DOMAIN archives' /\ archives'[q] = archives[q]
    <3>1. CASE append
      BY <1>2, <3>1
    <3>2. CASE ~append
      BY <1>2, <3>2
    <3> QED
      BY <3>1, <3>2
  <2> QED
    BY <1>1, <2>1, <2>2
<1>6. DOMAIN archives' \subseteq DOMAIN archives
  <2>1. CASE append
    BY <1>2, <2>1
  <2>2. CASE ~append
    BY <1>2, <2>2
  <2> QED
    BY <2>1, <2>2
<1>7. FilesShow'
  BY <1>1, <1>2, <1>3, <1>5, <1>6 DEF FilesShow
<1>8. Shown(wr'.list, added'[p])
  <2>1. CASE append /\ p \in DOMAIN archives
    <3>1. wr'.list = archives[p] /\ added' = added /\ archives[p] \in Seq(Plain)
      BY <1>2, <1>3, <2>1
    <3>2. ArchiveShows(archives[p], added[p])
      BY <1>1, <1>2, <2>1 DEF FilesShow
    <3>3. ASSUME NEW z \in Zipped, archives[p] = <<z>> PROVE FALSE
      <4>1. z \in Plain
        <5>1. archives[p][1] = z /\ Len(archives[p]) = 1
          BY <3>3
        <5> HIDE DEF Plain
        <5> QED
          BY <3>1, <5>1
      <4> QED
        BY <4>1, ListedNames
    <3>4. Shown(archives[p], added[p])
      BY <3>2, <3>3, Zenon DEF ArchiveShows
    <3> QED
      BY <3>1, <3>4
  <2>2. CASE ~(append /\ p \in DOMAIN archives)
    <3>1. wr'.list = <<>>
      BY <1>3, <2>2
    <3>2. added'[p] = <<>>
      BY <1>2, <2>2 DEF Put
    <3> QED
      BY <3>1, <3>2, ShownNothing
  <2> QED
    BY <2>1, <2>2
<1>9. WriterShows'
  BY <1>1, <1>2, <1>3, <1>4, <1>8 DEF WriterShows
<1>10. ReaderShows'
  BY <1>1, <1>2, <1>3, <1>5, ElsewhereShows
<1> QED
  BY <1>7, <1>9, <1>10

\* ... and so do the calls that add: one more is shown, or the archive has failed.
LEMMA AddsShow ==
  ASSUME PlainCallers, ShowInv, Adds PROVE FilesShow' /\ WriterShows' /\ ReaderShows'
<1>1. TypeInv /\ FilesShow /\ WriterShows /\ ReaderShows /\ WrInv(wr) /\ RdInv(rd) /\ DOMAIN archives \subseteq DOMAIN added
  BY DEF ShowInv, TypeInv
<1>2. /\ SameWriter(wr', wr) /\ wr'.raw = wr.raw /\ wr.open /\ archives' = archives /\ rd' = rd /\ last' = last
      /\ \/ (\E a : NoteAdded(a)) \/ NoteFailed
  BY <1>1, AddsIs
<1>3. /\ wr.path \notin failed /\ wr.path \in DOMAIN added /\ wr.entry = NoEntry /\ wr.hash = Nil
      /\ Shown(wr.list, added[wr.path]) /\ ~wr.raw /\ ~wr.mem
  <2>1. wr.path \notin failed
    BY HabitFacts, Zenon DEF Adds, AddInfo, AddInfoFails, CopyFromReader, CopyFails, Idle
  <2>2. wr.path \in DOMAIN added
    BY <1>1, <1>2 DEF TypeInv
  <2> QED
    BY <1>1, <1>2, <2>1, <2>2 DEF WriterShows
<1>4. wr'.open = wr.open /\ wr'.path = wr.path /\ wr'.mem = wr.mem
  BY <1>2 DEF SameWriter
<1>5. \A q \in DOMAIN archives : q # wr.path =>
        q \in DOMAIN archives' /\ archives'[q] = archives[q] /\ added'[q] = added[q]
  BY <1>1, <1>2 DEF NoteAdded, NoteFailed
<1>6. FilesShow'
  BY <1>1, <1>2, <1>4, <1>5 DEF FilesShow
<1>7. ReaderShows'
  <2>1. rd.path # wr.path /\ wr.path \in Paths
    BY <1>1, <1>2 DEF ReaderShows
  <2> QED
    BY <1>1, <1>2, <1>4, <1>5, <2>1, ElsewhereShows
<1>8. ASSUME NoteFailed PROVE WriterShows'
  <2>1. wr'.path \in failed'
    BY <1>4, <1>8 DEF NoteFailed
  <2> QED
    BY <1>2, <1>3, <1>4, <2>1 DEF WriterShows
<1>9. ASSUME NEW r \in Plain, wr'.list = Append(Closed(wr).list, r), NoteAdded(Told(r)),
             wr'.entry = NoEntry, wr'.hash = Nil
      PROVE  WriterShows'
  <2>1. Closed(wr) = wr
    BY <1>3 DEF Closed, NoEntry
  <2>2. added'[wr.path] = Append(added[wr.path], Told(r)) /\ failed' = failed
    BY <1>3, <1>9 DEF NoteAdded
  <2>3. wr.list \in Seq(Plain)
    BY <1>1 DEF WrInv
  <2>4. Shown(Append(wr.list, r), Append(added[wr.path], Told(r)))
    BY <1>3, <2>3, ShownOn
  <2>5. Shown(wr'.list, added'[wr'.path])
    BY <1>4, <1>9, <2>1, <2>2, <2>4
  <2> QED
    BY <1>2, <1>3, <1>4, <1>9, <2>5 DEF WriterShows
<1>10. ASSUME NEW n \in Names, AddInfo(n) PROVE WriterShows'
  <2>1. /\ wr'.hash = Nil /\ wr'.entry = NoEntry
        /\ \E r \in Plain : wr'.list = Append(Closed(wr).list, r) /\ Told(r) = Promised(n, DataOf[n])
    BY <1>1, <1>3, <1>10, AddInfoIs
  <2>2. PICK r \in Plain : wr'.list = Append(Closed(wr).list, r) /\ Told(r) = Promised(n, DataOf[n])
    BY <2>1
  <2>3. NoteAdded(Told(r))
    <3>1. NoteAdded(Promised(n, DataOf[n]))
      BY <1>10 DEF AddInfo
    <3> QED
      BY <2>2, <3>1
  <2> QED
    BY <1>9, <2>1, <2>2, <2>3
<1>11. ASSUME CopyFromReader PROVE WriterShows'
  <2>1. wr.opts.level = "best"
    BY <1>11, HabitFacts DEF CopyFromReader
  <2>2. /\ wr'.hash = Nil /\ wr'.entry = NoEntry
        /\ \E r \in Plain : wr'.list = Append(Closed(wr).list, r) /\ Told(r) = Told(Current(rd))
    BY <1>1, <1>11, <2>1, CopyIs
  <2>3. PICK r \in Plain : wr'.list = Append(Closed(wr).list, r) /\ Told(r) = Told(Current(rd))
    BY <2>2
  <2>4. NoteAdded(Told(r))
    <3>1. NoteAdded(Told(Current(rd)))
      BY <1>11, Zenon DEF CopyFromReader
    <3> QED
      BY <2>3, <3>1
  <2> QED
    BY <1>9, <2>2, <2>3, <2>4
<1>12. WriterShows'
  <2>1. ASSUME NEW n \in Names, AddInfoFails(n) PROVE NoteFailed
    BY <2>1 DEF AddInfoFails
  <2>2. ASSUME CopyFails PROVE NoteFailed
    BY <2>2, Zenon DEF CopyFails
  <2> QED
    BY <1>8, <1>10, <1>11, <2>1, <2>2, Zenon DEF Adds
<1> QED
  BY <1>6, <1>7, <1>12

\* Every step keeps it,
LEMMA ShowStep ==
  ASSUME PlainCallers, ShowInv, [Next]_vars PROVE ShowInv'
<1>1. NoAppendToZipped /\ TypeInv
  BY HabitFacts DEF ShowInv
<1>2. TypeInv'
  BY <1>1, TypeStep
<1>3. CASE UNCHANGED vars
  <2>1. FilesShow' /\ WriterShows' /\ ReaderShows'
    BY <1>3 DEF ShowInv, FilesShow, WriterShows, ReaderShows, vars, readerVars, writerVars
  <2> QED
    BY <1>2, <2>1 DEF ShowInv
<1>4. CASE Next
  <2>1. FilesShow' /\ WriterShows' /\ ReaderShows'
    BY <1>4, NextIs, ReaderStepsShow, WriterOpenShows, WriterCloseShows, WriterDiscardShows, AddsShow
  <2> QED
    BY <1>2, <2>1 DEF ShowInv
<1> QED
  BY <1>3, <1>4

\* ... and it holds at first.
LEMMA ShowInit == Init => ShowInv
<1> SUFFICES ASSUME Init PROVE ShowInv
  OBVIOUS
<1>1. PICK a \in Given : /\ archives = [p \in DOMAIN a |-> a[p]]
                         /\ added = [p \in DOMAIN a |-> [i \in DOMAIN a[p] |-> Told(a[p][i])]]
  BY DEF Init
<1>2. rd.open = FALSE /\ wr.open = FALSE /\ wr.hash = Nil /\ wr.raw = FALSE /\ wr.mem = FALSE
  BY NoReaderInv, NoWriterInv DEF Init
<1>3. FilesShow
  <2> SUFFICES ASSUME NEW p \in DOMAIN archives PROVE ArchiveShows(archives[p], added[p])
    BY DEF FilesShow
  <2>1. p \in DOMAIN a /\ archives[p] = a[p] /\ added[p] = [i \in DOMAIN a[p] |-> Told(a[p][i])]
    BY <1>1
  <2>2. a[p] \in Seq(Plain)
    BY <2>1, GivenAssumption
  <2>3. Shown(archives[p], added[p])
    BY <2>1, Zenon DEF Shown
  <2> QED
    BY <2>1, <2>2, <2>3, Zenon DEF ArchiveShows
<1> QED
  BY <1>2, <1>3, TypeInit DEF ShowInv, WriterShows, ReaderShows

\* A reader that opens an archive with the password of its entries is shown all that was added to it
\* by calls that reported success, in order and nothing else, every entry reading as what it was
\* added from (mz_zip_rw.c:249, 1099, 1412, 1785), for callers with none of the habits that break it.
THEOREM ShowsWhatWasAddedAlways ==
  ASSUME PlainCallers PROVE Spec => []ShowsWhatWasAdded
<1>1. ShowInv /\ [Next]_vars => ShowInv'
  BY ShowStep
<1>2. ShowInv => ShowsWhatWasAdded
  <2> SUFFICES ASSUME ShowInv PROVE ShowsWhatWasAdded
    OBVIOUS
  <2>1. TypeOK
    BY TypeIsOK DEF ShowInv
  <2>2. (rd.open /\ last.op = "open"
         /\ \A e \in ToSet(rd.list \o archives[rd.path]) : e.key \in {Nil, rd.opts.password}) =>
          [i \in DOMAIN rd.list |-> Told(rd.list[i])] = added[rd.path]
    BY Zenon DEF ShowInv, ReaderShows, Keyed, Shown
  <2> QED
    BY <2>1, <2>2, Zenon DEF ShowsWhatWasAdded
<1> QED
  BY <1>1, <1>2, ShowInit, PTL DEF Spec

-----------------------------------------------------------------------------
(* What a save of all has saved *)

\* No entry matched between i and m has the name of entry i.
LastSoFar(r, i, m) == \A k \in Matching(r, i + 1) : k <= m => r.list[k].name # r.list[i].name
\* Entry i is on disk, d, if the names in kp are not counted.
SavedAt(r, d, kp, i, m) ==
  LET e == r.list[i]
  IN /\ e.name \in DOMAIN d
     /\ e.kind = "file" /\ e.name \notin kp /\ LastSoFar(r, i, m) => Whole(e, d[e.name])
\* All that are matched up to entry n are, of those with one name the last up to m.
SavedTo(r, d, kp, n, m) == \A i \in Matching(r, 1) : i <= n => SavedAt(r, d, kp, i, m)

\* The numbers of entries that match.
LEMMA MatchedIs ==
  ASSUME NEW r, PlaceInv(r), NEW i \in Matching(r, 1)
  PROVE  /\ i \in Nat /\ i >= 1
         /\ \A k \in Matching(r, 1) : k > i => k \in Matching(r, i + 1)
         /\ \A k \in Matching(r, i + 1) : k \in Matching(r, 1) /\ k \in Nat /\ k > i
<1>1. Len(r.list) \in Nat
  BY PlaceType
<1> QED
  BY <1>1 DEF Matching

\* What is saved depends on the list and the pattern alone.
LEMMA SavedSame ==
  ASSUME NEW r, NEW r2, r2.list = r.list, r2.opts = r.opts, NEW d, NEW kp, NEW n, NEW m, SavedTo(r, d, kp, n, m)
  PROVE  SavedTo(r2, d, kp, n, m)
<1>1. \A from : Matching(r2, from) = Matching(r, from)
  BY DEF Matching
<1>2. \A i : LastSoFar(r2, i, m) => LastSoFar(r, i, m)
  BY <1>1 DEF LastSoFar
<1>3. \A i : SavedAt(r, d, kp, i, m) => SavedAt(r2, d, kp, i, m)
  BY <1>2 DEF SavedAt
<1> QED
  BY <1>1, <1>3 DEF SavedTo

\* Less is asked when more names were kept.
LEMMA SavedKept ==
  ASSUME NEW r, NEW d, NEW kp, NEW kp2, kp \subseteq kp2, NEW n, NEW m, SavedTo(r, d, kp, n, m)
  PROVE  SavedTo(r, d, kp2, n, m)
<1>1. \A i : SavedAt(r, d, kp, i, m) => SavedAt(r, d, kp2, i, m)
  BY DEF SavedAt
<1> QED
  BY <1>1 DEF SavedTo

\* What is written to the file of entry n alone disturbs no other that counts.
LEMMA SavedBefore ==
  ASSUME NEW r, PlaceInv(r), NEW n \in Matching(r, 1), NEW d, NEW d2, NEW kp, NEW m \in {n - 1, n},
         SavedTo(r, d, kp, n - 1, m),
         DOMAIN d \subseteq DOMAIN d2, \A x \in DOMAIN d : x # r.list[n].name => d2[x] = d[x]
  PROVE  SavedTo(r, d2, kp, n - 1, n)
<1> SUFFICES ASSUME NEW i \in Matching(r, 1), i <= n - 1 PROVE SavedAt(r, d2, kp, i, n)
  BY DEF SavedTo
<1>1. SavedAt(r, d, kp, i, m)
  BY DEF SavedTo
<1>2. /\ n \in Nat /\ i \in Nat /\ n \in Matching(r, i + 1)
      /\ \A k \in Matching(r, i + 1) : k \in Nat
  BY MatchedIs
<1>3. LastSoFar(r, i, n) => LastSoFar(r, i, m) /\ r.list[n].name # r.list[i].name
  BY <1>2 DEF LastSoFar
<1> QED
  BY <1>1, <1>3 DEF SavedAt

\* With entry n itself saved, all up to n are.
LEMMA SavedHere ==
  ASSUME NEW r, PlaceInv(r), NEW n \in Matching(r, 1), NEW d, NEW kp, SavedTo(r, d, kp, n - 1, n),
         SavedAt(r, d, kp, n, n)
  PROVE  SavedTo(r, d, kp, n, n)
<1> SUFFICES ASSUME NEW i \in Matching(r, 1), i <= n PROVE SavedAt(r, d, kp, i, n)
  BY DEF SavedTo
<1>1. n \in Nat /\ i \in Nat
  BY MatchedIs
<1>2. i = n \/ i <= n - 1
  BY <1>1
<1> QED
  BY <1>2 DEF SavedTo

\* The next that is matched.
LEMMA SavedOn ==
  ASSUME NEW r, PlaceInv(r), NEW n \in Nat, NEW n2 \in Nat, n2 > n, \A k \in Matching(r, n + 1) : n2 <= k,
         NEW d, NEW kp, SavedTo(r, d, kp, n, n)
  PROVE  SavedTo(r, d, kp, n2 - 1, n2 - 1)
<1> SUFFICES ASSUME NEW i \in Matching(r, 1), i <= n2 - 1 PROVE SavedAt(r, d, kp, i, n2 - 1)
  BY DEF SavedTo
<1>1. i \in Nat /\ \A k \in Matching(r, i + 1) : k \in Nat
  BY MatchedIs
<1>2. i <= n
  <2> SUFFICES ASSUME i > n PROVE FALSE
    BY <1>1
  <2>1. i \in Matching(r, n + 1)
    <3>1. Len(r.list) \in Nat
      BY PlaceType
    <3> QED
      BY <1>1, <3>1 DEF Matching
  <2> QED
    BY <1>1, <2>1
<1>3. SavedAt(r, d, kp, i, n)
  BY <1>2 DEF SavedTo
<1>4. LastSoFar(r, i, n2 - 1) => LastSoFar(r, i, n)
  BY <1>1 DEF LastSoFar
<1> QED
  BY <1>3, <1>4 DEF SavedAt

\* At the end all are.
LEMMA SavedAll ==
  ASSUME NEW r, PlaceInv(r), NEW n \in Nat, Matching(r, n + 1) = {}, NEW d, NEW kp, SavedTo(r, d, kp, n, n),
         NEW i \in Matching(r, 1)
  PROVE  LET e == r.list[i]
             later == {k \in Matching(r, i + 1) : r.list[k].name = e.name}
         IN /\ e.name \in DOMAIN d
            /\ e.kind = "file" /\ later = {} /\ e.name \notin kp => Whole(e, d[e.name])
<1>1. i \in Nat /\ \A k \in Matching(r, i + 1) : k \in Nat
  BY MatchedIs
<1>2. i <= n
  <2> SUFFICES ASSUME i > n PROVE FALSE
    BY <1>1
  <2>1. i \in Matching(r, n + 1)
    <3>1. Len(r.list) \in Nat
      BY PlaceType
    <3> QED
      BY <1>1, <3>1 DEF Matching
  <2> QED
    BY <2>1
<1>3. SavedAt(r, d, kp, i, n)
  BY <1>2 DEF SavedTo
<1>4. {k \in Matching(r, i + 1) : r.list[k].name = r.list[i].name} = {} => LastSoFar(r, i, n)
  BY DEF LastSoFar
<1> QED
  BY <1>3, <1>4 DEF SavedAt

-----------------------------------------------------------------------------
(* Saves: what is true while one runs *)

\* Callers that do not save an entry again after a save of it failed.
NoSaveAgain == "save again" \notin Habits

\* A save that runs, and what it has delivered: all that came out of the entry it has open.
Running == job.op \in {"stream", "buffer", "file"}
Taken == IF rd.entry = NoEntry THEN <<>> ELSE SubSeq(rd.entry.data, 1, rd.entry.pos)
OnDisk == Current(rd).kind = "file" /\ Current(rd).name \in DOMAIN disk /\ disk[Current(rd).name] = job.data
RunInv ==
  /\ Running => /\ DOMAIN job = {"op", "data", "all", "room"} /\ rd.info # 0 /\ job.data = Taken
                /\ job.op = "file" => OnDisk
  /\ job.op = "all" => rd.info # 0 /\ rd.entry = NoEntry

\* A save of all: before an entry, in one, and after it.
AllInv ==
  ~rd.opts.raw =>
    /\ job.op = "all" => /\ rd.info \in Matching(rd, 1)
                         /\ SavedTo(rd, disk, kept, rd.info - 1, rd.info - 1)
    /\ job.op = "file" /\ job.all => /\ rd.info \in Matching(rd, 1)
                                     /\ SavedTo(rd, disk, kept, rd.info - 1, rd.info)
    /\ job.op = "file done" /\ job.all /\ job.err = "ok" => /\ rd.info # 0
                                                            /\ SavedTo(rd, disk, kept, rd.info, rd.info)
\* The inductive invariant of saves, next to the types.
SaveInv == RunInv /\ AllInv /\ SavedIsEntry

\* No save is one.
LEMMA NoJobIs == NoJob.op = "none"
BY DEF NoJob

\* No save runs, and the one that ended last, if any, failed or was not a save that counts.
LEMMA NothingSaved ==
  ASSUME job' = NoJob,
         last'.op \notin {"all", "stream", "buffer", "file"} \/ last'.err # "ok"
  PROVE  SaveInv'
BY NoJobIs DEF SaveInv, RunInv, AllInv, SavedIsEntry, AllIsSaved, Running

\* While a save runs nothing is said of it.
LEMMA StillSaved ==
  ASSUME SavedIsEntry, last' = last, rd'.opts = rd.opts, job'.op # "none" PROVE SavedIsEntry'
<1>1. job' # NoJob
  BY NoJobIs
<1> QED
  BY <1>1 DEF SavedIsEntry, AllIsSaved

\* What leaves the reader alone changes nothing of this.
LEMMA SameSaved ==
  ASSUME SaveInv, last' = last, rd' = rd, job' = job, disk' = disk, kept' = kept PROVE SaveInv'
BY DEF SaveInv, RunInv, AllInv, SavedIsEntry, AllIsSaved, Running, Taken, OnDisk, SavedTo, SavedAt, LastSoFar

\* A call that is not a save ends no save.
LEMMA QuietSaves ==
  ASSUME Quiet, job' = NoJob PROVE SaveInv'
BY NothingSaved DEF Quiet, NoResult

\* The calls that move a reader are such calls.
LEMMA MovesSave ==
  ASSUME SaveInv, ReaderMoves PROVE SaveInv'
<1>1. ASSUME NEW p \in DOMAIN archives, NEW o \in ReaderOptions, ReaderOpen(p, o) PROVE SaveInv'
  <2>1. job' = NoJob /\ last'.op = "open"
    BY <1>1, Zenon DEF ReaderOpen, Ended
  <2> QED
    BY <2>1, NothingSaved
<1>2. CASE ReaderClose
  BY <1>2, QuietSaves DEF ReaderClose
<1>3. ASSUME NEW o \in ReaderOptions, Configure(o) PROVE SaveInv'
  BY <1>3, QuietSaves DEF Configure
<1>4. ASSUME NEW how \in {"first", "next"}, Goto(how) PROVE SaveInv'
  <2>1. job' = NoJob /\ Quiet
    BY <1>4, Zenon DEF Goto
  <2> QED
    BY <2>1, QuietSaves
<1>5. ASSUME NEW n \in Names, Locate(n) PROVE SaveInv'
  <2>1. job' = NoJob /\ Quiet
    BY <1>5, Zenon DEF Locate
  <2> QED
    BY <2>1, QuietSaves
<1> QED
  BY <1>1, <1>2, <1>3, <1>4, <1>5, Zenon DEF ReaderMoves

\* A save of the caller's, into a stream or a buffer, begins.
LEMMA SaveCallSaves ==
  ASSUME NoSaveAgain, SaveInv, RdInv(rd), NEW op \in {"stream", "buffer"}, SaveCall(op) PROVE SaveInv'
<1>1. /\ rd.info # 0 /\ rd.entry.i = 0 /\ rd' = rd /\ last' = last
      /\ job' = [op |-> op, data |-> <<>>, all |-> FALSE,
                 room |-> IF op = "buffer" THEN Len(Current(rd).crc) ELSE 9]
  BY DEF SaveCall, NoSaveAgain
<1>2. DOMAIN job' = {"op", "data", "all", "room"} /\ job'.op = op /\ job'.data = <<>>
  BY <1>1
<1>3. rd.entry = NoEntry
  BY <1>1, OpenIsOpen
<1>4. RunInv'
  BY <1>1, <1>2, <1>3 DEF RunInv, Taken, Running
<1>5. AllInv'
  BY <1>2 DEF AllInv
<1>6. SavedIsEntry'
  BY <1>1, <1>2, StillSaved DEF SaveInv
<1> QED
  BY <1>4, <1>5, <1>6 DEF SaveInv

-----------------------------------------------------------------------------
(* Saving to a file *)

\* A save to a file begins: nothing is to be written, or the file is made empty.
Nothing(all, err) == job' = [op |-> "file done", all |-> all, err |-> err]
Emptied == disk' = Put(disk, Current(rd).name, <<>>) /\ kept' = kept
SaysKept == disk' = disk /\ kept' = kept \cup {Current(rd).name} /\ Current(rd).name \in DOMAIN disk

\* mz_zip_reader_entry_save_file up to its loop: nothing is to be done, or the file is emptied.
LEMMA StartIs ==
  ASSUME NEW all, SaveFileStart(all)
  PROVE  \/ Nothing(all, "ok") /\ Emptied /\ Current(rd).kind # "file"
         \/ Nothing(all, "ok") /\ SaysKept
         \/ Nothing(all, "internal")
         \/ job' = FileJob(all) /\ Emptied /\ Current(rd).kind = "file"
<1> DEFINE e == Current(rd)
           next(err) == [op |-> "file done", all |-> all, err |-> err]
<1>1. \/ /\ e.kind = "dir" /\ disk' = Put(disk, e.name, <<>>)
         /\ job' = next("ok") /\ UNCHANGED kept
      \/ /\ e.kind # "dir" /\ e.name \in DOMAIN disk
         /\ job' = next("ok") /\ kept' = kept \cup {e.name} /\ UNCHANGED disk
      \/ /\ e.kind = "link" /\ UNCHANGED kept
         /\ \/ disk' = Put(disk, e.name, <<>>) /\ job' = next("ok")
            \/ e.name \in DOMAIN disk /\ job' = next("internal") /\ UNCHANGED disk
      \/ /\ e.kind = "file" /\ disk' = Put(disk, e.name, <<>>)
         /\ job' = FileJob(all) /\ UNCHANGED kept
  BY Zenon DEF SaveFileStart
<1> QED
  BY <1>1 DEF Nothing, Emptied, SaysKept

\* A save to a file that begins has delivered nothing yet.
LEMMA FileJobIs ==
  ASSUME NEW all, job' = FileJob(all), Emptied, rd' = rd, rd.entry = NoEntry, rd.info # 0,
         Current(rd).kind = "file"
  PROVE  RunInv' /\ job'.op = "file" /\ job'.all = all
<1>1. DOMAIN job' = {"op", "data", "all", "room"} /\ job'.op = "file" /\ job'.data = <<>> /\ job'.all = all
  BY DEF FileJob
<1>2. Current(rd).name \in DOMAIN disk' /\ disk'[Current(rd).name] = <<>>
  BY DEF Emptied, Put
<1> QED
  BY <1>1, <1>2 DEF RunInv, Running, Taken, OnDisk, Current

\* mz_zip_reader_entry_save_file begins.
LEMMA SaveFileSaves ==
  ASSUME NoSaveAgain, SaveInv, RdInv(rd), SaveFile PROVE SaveInv'
<1>1. rd.info # 0 /\ rd.entry.i = 0 /\ rd' = rd /\ last' = last /\ SaveFileStart(FALSE)
  BY DEF SaveFile, NoSaveAgain
<1>2. rd.entry = NoEntry
  BY <1>1, OpenIsOpen
<1>3. ASSUME NEW err, Nothing(FALSE, err) PROVE SaveInv'
  <2>1. job'.op = "file done" /\ job'.all = FALSE
    BY <1>3 DEF Nothing
  <2>2. SavedIsEntry'
    BY <1>1, <2>1, StillSaved DEF SaveInv
  <2> QED
    BY <2>1, <2>2 DEF SaveInv, RunInv, AllInv, Running
<1>4. CASE job' = FileJob(FALSE) /\ Emptied /\ Current(rd).kind = "file"
  <2>1. RunInv' /\ job'.op = "file" /\ job'.all = FALSE
    BY <1>1, <1>2, <1>4, FileJobIs
  <2>2. SavedIsEntry'
    BY <1>1, <2>1, StillSaved DEF SaveInv
  <2> QED
    BY <2>1, <2>2 DEF SaveInv, AllInv
<1> QED
  BY <1>1, <1>3, <1>4, StartIs

\* What an entry's own file is made into disturbs no other that counts.
LEMMA EmptiedSaves ==
  ASSUME RdInv(rd), ~rd.opts.raw, AllInv, job.op = "all", Emptied
  PROVE  /\ SavedTo(rd, disk', kept', rd.info - 1, rd.info) /\ rd.info \in Matching(rd, 1)
         /\ Current(rd).name \in DOMAIN disk'
<1>1. rd.info \in Matching(rd, 1) /\ SavedTo(rd, disk, kept, rd.info - 1, rd.info - 1) /\ PlaceInv(rd)
  BY DEF AllInv, RdInv
<1>2. /\ DOMAIN disk \subseteq DOMAIN disk' /\ Current(rd).name \in DOMAIN disk' /\ kept' = kept
      /\ \A x \in DOMAIN disk : x # rd.list[rd.info].name => disk'[x] = disk[x]
  BY DEF Emptied, Put, Current
<1>3. SavedTo(rd, disk', kept, rd.info - 1, rd.info)
  BY <1>1, <1>2, SavedBefore
<1> QED
  BY <1>1, <1>2, <1>3

\* mz_zip_reader_save_all comes to an entry.
LEMMA SaveAllFileSaves ==
  ASSUME SaveInv, RdInv(rd), SaveAllFile PROVE SaveInv'
<1>1. /\ job.op = "all" /\ rd' = rd /\ last' = last /\ SaveFileStart(TRUE)
      /\ rd.info # 0 /\ rd.entry = NoEntry /\ PlaceInv(rd)
  BY DEF SaveAllFile, SaveInv, RunInv, RdInv
<1>2. ASSUME NEW err, Nothing(TRUE, err),
             (~rd.opts.raw /\ err = "ok") => SavedTo(rd, disk', kept', rd.info, rd.info)
      PROVE  SaveInv'
  <2>1. job'.op = "file done" /\ job'.all = TRUE /\ job'.err = err
    BY <1>2 DEF Nothing
  <2>2. SavedIsEntry'
    BY <1>1, <2>1, StillSaved DEF SaveInv
  <2>3. RunInv'
    BY <2>1 DEF RunInv, Running
  <2>4. AllInv'
    BY <1>1, <1>2, <2>1 DEF AllInv
  <2> QED
    BY <2>2, <2>3, <2>4 DEF SaveInv
<1>3. CASE Nothing(TRUE, "ok") /\ Emptied /\ Current(rd).kind # "file"
  <2>1. ASSUME ~rd.opts.raw PROVE SavedTo(rd, disk', kept', rd.info, rd.info)
    <3>1. /\ SavedTo(rd, disk', kept', rd.info - 1, rd.info) /\ rd.info \in Matching(rd, 1)
          /\ Current(rd).name \in DOMAIN disk'
      BY <1>1, <1>3, <2>1, EmptiedSaves DEF SaveInv
    <3>2. SavedAt(rd, disk', kept', rd.info, rd.info)
      BY <1>3, <3>1 DEF SavedAt, Current
    <3> QED
      BY <1>1, <3>1, <3>2, SavedHere
  <2> QED
    BY <1>2, <1>3, <2>1
<1>4. CASE Nothing(TRUE, "ok") /\ SaysKept
  <2>1. ASSUME ~rd.opts.raw PROVE SavedTo(rd, disk', kept', rd.info, rd.info)
    <3>1. rd.info \in Matching(rd, 1) /\ SavedTo(rd, disk, kept, rd.info - 1, rd.info - 1)
      BY <1>1, <2>1 DEF SaveInv, AllInv
    <3>2. SavedTo(rd, disk, kept, rd.info - 1, rd.info)
      BY <1>1, <3>1, SavedBefore
    <3>3. SavedTo(rd, disk', kept', rd.info - 1, rd.info)
      BY <1>4, <3>2, SavedKept DEF SaysKept
    <3>4. SavedAt(rd, disk', kept', rd.info, rd.info)
      BY <1>4 DEF SavedAt, SaysKept, Current
    <3> QED
      BY <1>1, <3>1, <3>3, <3>4, SavedHere
  <2> QED
    BY <1>2, <1>4, <2>1
<1>5. CASE Nothing(TRUE, "internal")
  BY <1>2, <1>5
<1>6. CASE job' = FileJob(TRUE) /\ Emptied /\ Current(rd).kind = "file"
  <2>1. RunInv' /\ job'.op = "file" /\ job'.all = TRUE
    BY <1>1, <1>6, FileJobIs
  <2>2. SavedIsEntry'
    BY <1>1, <2>1, StillSaved DEF SaveInv
  <2>3. AllInv'
    <3>1. ~rd.opts.raw => /\ SavedTo(rd, disk', kept', rd.info - 1, rd.info)
                          /\ rd.info \in Matching(rd, 1)
      BY <1>1, <1>6, EmptiedSaves DEF SaveInv
    <3> QED
      BY <1>1, <2>1, <3>1 DEF AllInv
  <2> QED
    BY <2>1, <2>2, <2>3 DEF SaveInv
<1> QED
  BY <1>1, <1>3, <1>4, <1>5, <1>6, StartIs

-----------------------------------------------------------------------------
(* Saving all *)

\* The caller's own reads are no save.
LEMMA ReadSomeSaves ==
  ASSUME ReadSome PROVE SaveInv'
<1>1. job' = NoJob /\ Quiet
  BY Zenon DEF ReadSome
<1> QED
  BY <1>1, QuietSaves

\* A save of all goes to the first entry, or on to the next.
AtEntry(n) == job' = [op |-> "all"] /\ last' = last /\ rd'.info = n

\* There, all before it are saved.
LEMMA AtEntrySaves ==
  ASSUME SaveInv, RdInv(rd), rd'.opts = rd.opts, rd'.list = rd.list, rd'.entry = NoEntry,
         NEW n, AtEntry(n), n # 0, n \in Matching(rd, 1),
         ~rd.opts.raw => SavedTo(rd, disk', kept', n - 1, n - 1)
  PROVE  SaveInv'
<1>1. job'.op = "all" /\ rd'.info = n /\ last' = last
  BY DEF AtEntry
<1>2. RunInv'
  BY <1>1 DEF RunInv, Running
<1>3. SavedIsEntry'
  BY <1>1, StillSaved DEF SaveInv
<1>4. n \in Matching(rd', 1)
  BY DEF Matching
<1>5. ~rd.opts.raw => SavedTo(rd', disk', kept', n - 1, n - 1)
  BY SavedSame
<1>6. AllInv'
  BY <1>1, <1>4, <1>5 DEF AllInv
<1> QED
  BY <1>2, <1>3, <1>6 DEF SaveInv

\* mz_zip_reader_save_all begins.
LEMMA SaveAllSaves ==
  ASSUME SaveInv, RdInv(rd), SaveAll PROVE SaveInv'
<1>1. PICK g \in GotoFirst(rd) :
        /\ rd' = g.r
        /\ IF g.err = "ok" THEN job' = [op |-> "all"] /\ UNCHANGED last
           ELSE job' = NoJob /\ Ended("all", g.err)
  BY Zenon DEF SaveAll
<1>2. /\ g.r.entry = NoEntry /\ SameList(g.r, rd)
      /\ g.err = "ok" => g.r.info # 0 /\ g.r.info \in Matching(rd, 1)
      /\ \A k \in Matching(rd, 1) : g.err = "ok" /\ g.r.info <= k
  BY GotoFirstIs
<1>3. CASE g.err # "ok"
  <2>1. job' = NoJob /\ last'.err = g.err
    BY <1>1, <1>3 DEF Ended
  <2> QED
    BY <1>3, <2>1, NothingSaved
<1>4. CASE g.err = "ok"
  <2>1. AtEntry(g.r.info)
    BY <1>1, <1>4 DEF AtEntry
  <2>2. rd'.opts = rd.opts /\ rd'.list = rd.list /\ rd'.entry = NoEntry
    BY <1>1, <1>2 DEF SameList, SameSession
  <2>3. SavedTo(rd, disk', kept', g.r.info - 1, g.r.info - 1)
    <3> SUFFICES ASSUME NEW i \in Matching(rd, 1), i <= g.r.info - 1 PROVE FALSE
      BY DEF SavedTo
    <3>1. i \in Nat /\ g.r.info \in Nat
      BY <1>2, <1>4, MatchedIs DEF RdInv
    <3> QED
      BY <1>2, <3>1
  <2> QED
    BY <1>2, <1>4, <2>1, <2>2, <2>3, AtEntrySaves
<1> QED
  BY <1>3, <1>4

\* mz_zip_reader_save_all goes on, or ends.
LEMMA SaveFileDoneSaves ==
  ASSUME SaveInv, RdInv(rd), SaveFileDone PROVE SaveInv'
<1>1. CASE ~job.all \/ job.err # "ok"
  <2>1. job' = NoJob /\ Ended(IF job.all THEN "all" ELSE "file without data", job.err)
    BY <1>1 DEF SaveFileDone
  <2>2. last'.op = (IF job.all THEN "all" ELSE "file without data") /\ last'.err = job.err
    BY <2>1 DEF Ended
  <2> QED
    BY <1>1, <2>1, <2>2, NothingSaved
<1>2. CASE ~(~job.all \/ job.err # "ok")
  <2>1. PICK g \in GotoNext(rd) : /\ rd' = g.r
                                  /\ IF g.err = "ok" THEN job' = [op |-> "all"] /\ UNCHANGED last
                                     ELSE job' = NoJob /\ Ended("all", "ok")
    BY <1>2, Zenon DEF SaveFileDone, AfterSaved
  <2>2. /\ RdInv(g.r) /\ g.r.entry = NoEntry /\ SameList(g.r, rd)
        /\ g.err = "ok" => g.r.info # 0 /\ g.r.info > rd.at /\ g.r.info \in Matching(rd, rd.at + 1)
        /\ \A k \in Matching(rd, rd.at + 1) : g.err = "ok" /\ g.r.info <= k
    BY GotoNextIs
  <2>3. disk' = disk /\ kept' = kept /\ job.op = "file done" /\ PlaceInv(rd)
    BY DEF SaveFileDone, RdInv
  <2>4. rd'.opts = rd.opts /\ rd'.list = rd.list /\ rd'.entry = NoEntry
    BY <2>1, <2>2 DEF SameList, SameSession
  <2>5. ~rd.opts.raw => /\ rd.info = rd.at /\ rd.info \in Nat
                        /\ SavedTo(rd, disk, kept, rd.info, rd.info)
    BY <1>2, <2>3, PlaceType DEF SaveInv, AllInv
  <2>6. CASE g.err = "ok"
    <3>1. AtEntry(g.r.info)
      BY <2>1, <2>6 DEF AtEntry
    <3>2. g.r.info \in Matching(rd, 1) /\ g.r.info \in Nat
      <4>1. rd.at \in Nat /\ Len(rd.list) \in Nat /\ g.r.info \in Matching(rd, rd.at + 1)
        BY <2>2, <2>3, <2>6, PlaceType
      <4> QED
        BY <4>1 DEF Matching
    <3>3. ~rd.opts.raw => SavedTo(rd, disk, kept, g.r.info - 1, g.r.info - 1)
      BY <2>2, <2>3, <2>5, <2>6, <3>2, SavedOn
    <3> QED
      BY <2>2, <2>3, <2>4, <2>6, <3>1, <3>2, <3>3, AtEntrySaves
  <2>7. CASE g.err # "ok"
    <3>1. job' = NoJob /\ last' = [op |-> "all", err |-> "ok"]
      BY <2>1, <2>7 DEF Ended
    <3>2. Matching(rd, rd.at + 1) = {}
      BY <2>2, <2>7
    <3>3. AllIsSaved'
      <4> SUFFICES ASSUME ~rd'.opts.raw, NEW i \in Matching(rd', 1)
                   PROVE  LET e == rd'.list[i]
                              later == {k \in Matching(rd', i + 1) : rd'.list[k].name = e.name}
                          IN /\ e.name \in DOMAIN disk'
                             /\ e.kind = "file" /\ later = {} /\ e.name \notin kept' => Whole(e, disk'[e.name])
        BY DEF AllIsSaved
      <4>1. ~rd.opts.raw /\ Matching(rd', 1) = Matching(rd, 1) /\ Matching(rd', i + 1) = Matching(rd, i + 1)
        BY <2>4 DEF Matching
      <4>2. LET e == rd.list[i]
                later == {k \in Matching(rd, i + 1) : rd.list[k].name = e.name}
            IN /\ e.name \in DOMAIN disk
               /\ e.kind = "file" /\ later = {} /\ e.name \notin kept => Whole(e, disk[e.name])
        BY <2>3, <2>5, <3>2, <4>1, SavedAll
      <4> QED
        BY <2>3, <2>4, <4>1, <4>2
    <3>4. SavedIsEntry'
      BY <3>1, <3>3 DEF SavedIsEntry
    <3> QED
      BY <3>1, <3>4, NoJobIs DEF SaveInv, RunInv, AllInv, Running
  <2> QED
    BY <2>6, <2>7
<1> QED
  BY <1>1, <1>2

-----------------------------------------------------------------------------
(* The turns of a save *)

\* The end of a save of one entry.
LEMMA DeliverIs ==
  ASSUME NEW err, Deliver(err)
  PROVE  \/ /\ job.op = "file" /\ job.all /\ Nothing(TRUE, err) /\ last' = last
         \/ /\ ~(job.op = "file" /\ job.all) /\ job' = NoJob
            /\ last' = [op |-> job.op, err |-> err, entry |-> Current(rd), data |-> job.data]
<1>1. CASE job.op = "file" /\ job.all
  BY <1>1, Zenon DEF Deliver, Nothing
<1>2. CASE ~(job.op = "file" /\ job.all)
  BY <1>2, Zenon DEF Deliver, Finish
<1> QED
  BY <1>1, <1>2

\* A save fails.
LEMMA FailedSaves ==
  ASSUME SaveInv, NEW err, Deliver(err), err # "ok", rd'.opts = rd.opts PROVE SaveInv'
<1>1. CASE Nothing(TRUE, err) /\ last' = last
  <2>1. job'.op = "file done" /\ job'.err = err
    BY <1>1 DEF Nothing
  <2>2. SavedIsEntry'
    BY <1>1, <2>1, StillSaved DEF SaveInv
  <2> QED
    BY <2>1, <2>2 DEF SaveInv, RunInv, AllInv, Running
<1>2. CASE job' = NoJob /\ last' = [op |-> job.op, err |-> err, entry |-> Current(rd), data |-> job.data]
  <2>1. last'.err = err
    BY <1>2
  <2> QED
    BY <1>2, <2>1, NothingSaved
<1> QED
  BY <1>1, <1>2, DeliverIs

\* The first turn opens the entry.
LEMMA SaveOpenSaves ==
  ASSUME SaveInv, RdInv(rd), SaveOpen PROVE SaveInv'
<1>1. Running /\ rd.entry.i = 0 /\ disk' = disk /\ kept' = kept
  BY DEF SaveOpen, Running
<1>2. PICK o \in EntryOpened(rd) : rd' = o.r /\ IF o.err = "ok" THEN UNCHANGED <<job, last>> ELSE Deliver(o.err)
  BY Zenon DEF SaveOpen
<1>3. rd.entry = NoEntry /\ rd.info # 0
  BY <1>1, OpenIsOpen DEF SaveInv, RunInv
<1>4. SamePlace(rd', rd) /\ RdInv(rd')
  BY <1>2, EntryOpenedInv
<1>5. CASE o.err # "ok"
  BY <1>2, <1>4, <1>5, FailedSaves DEF SamePlace
<1>6. CASE o.err = "ok"
  <2>1. Began(rd', rd)
    BY <1>2, <1>3, <1>6, EntryOpenedIs DEF Refused
  <2>2. job' = job /\ last' = last /\ job.data = <<>>
    BY <1>1, <1>2, <1>3, <1>6 DEF SaveInv, RunInv, Taken
  <2>3. Taken' = <<>>
    <3>1. PlaceInv(rd)
      BY DEF RdInv
    <3>2. rd'.entry # NoEntry
      BY <2>1, <3>1, BeganInv
    <3>3. rd'.entry.pos = 0
      BY <2>1 DEF Began
    <3> QED
      BY <3>2, <3>3 DEF Taken
  <2>4. rd'.info = rd.info /\ rd'.list = rd.list /\ rd'.opts = rd.opts
    BY <1>4 DEF SamePlace
  <2>5. RunInv'
    BY <1>1, <1>3, <2>2, <2>3, <2>4 DEF SaveInv, RunInv, Running, OnDisk, Current
  <2>6. AllInv'
    <3>1. job.op = "all" => ~Running
      BY DEF Running
    <3>2. job.op = "file done" => ~Running
      BY DEF Running
    <3>3. (job.op = "file" /\ job.all /\ ~rd.opts.raw) =>
            rd.info \in Matching(rd', 1) /\ SavedTo(rd', disk, kept, rd.info - 1, rd.info)
      BY <2>4, SavedSame DEF SaveInv, AllInv, Matching
    <3> QED
      BY <1>1, <2>2, <2>4, <3>1, <3>2, <3>3 DEF AllInv
  <2>7. SavedIsEntry'
    <3>1. job'.op # "none"
      BY <1>1, <2>2 DEF Running
    <3> QED
      BY <2>2, <2>4, <3>1, StillSaved DEF SaveInv
  <2> QED
    BY <2>5, <2>6, <2>7 DEF SaveInv
<1> QED
  BY <1>5, <1>6

\* A token, or an error.
LEMMA SaveProcessSaves ==
  ASSUME SaveInv, RdInv(rd), NEW takes \in BOOLEAN, SaveProcess(takes) PROVE SaveInv'
<1>1. PICK x : x = EntryRead(rd)
  OBVIOUS
<1>2. /\ Running /\ rd.entry.i # 0 /\ (x.got # <<>> \/ x.err # "ok") /\ rd' = x.r /\ kept' = kept
      /\ IF x.err # "ok" THEN Deliver(x.err) /\ UNCHANGED disk
         ELSE LET took == takes /\ Len(job.data) < job.room
              IN /\ disk' = IF took /\ job.op = "file"
                            THEN [disk EXCEPT ![Current(rd).name] = @ \o x.got] ELSE disk
                 /\ IF ~Took(took) THEN Deliver("write")
                    ELSE job' = (IF took THEN [job EXCEPT !.data = @ \o x.got] ELSE job) /\ UNCHANGED last
  BY <1>1, Zenon DEF SaveProcess, Running
<1>3. rd.entry # NoEntry /\ rd.info # 0
  BY <1>2, OpenIsOpen DEF SaveInv, RunInv
<1>4. ReadOn(rd', rd, x.got)
  BY <1>1, <1>2, <1>3, EntryReadIs
<1>5. rd'.info = rd.info /\ rd'.list = rd.list /\ rd'.opts = rd.opts
  BY <1>4 DEF ReadOn, SamePlace
<1>6. CASE x.err # "ok"
  BY <1>2, <1>5, <1>6, FailedSaves
<1>7. PICK took \in BOOLEAN : took = (takes /\ Len(job.data) < job.room)
  OBVIOUS
<1>8. CASE x.err = "ok" /\ ~took
  <2>1. Deliver("write")
    BY <1>2, <1>7, <1>8 DEF Took
  <2> QED
    BY <1>5, <2>1, FailedSaves
<1>9. CASE x.err = "ok" /\ took
  <2>1. /\ disk' = IF job.op = "file" THEN [disk EXCEPT ![Current(rd).name] = @ \o x.got] ELSE disk
        /\ job' = [job EXCEPT !.data = @ \o x.got] /\ last' = last
    BY <1>2, <1>7, <1>9 DEF Took
  <2>2. DOMAIN job = {"op", "data", "all", "room"} /\ job.data = Taken
    BY <1>2 DEF SaveInv, RunInv
  <2>3. /\ DOMAIN job' = {"op", "data", "all", "room"} /\ job'.op = job.op /\ job'.all = job.all
        /\ job'.data = job.data \o x.got
    BY <2>1, <2>2
  <2>4. Taken' = job'.data
    <3>1. rd'.entry # NoEntry
      BY <1>4, OpenType DEF ReadOn, NoEntry, OpenInv
    <3>2. SubSeq(rd'.entry.data, 1, rd'.entry.pos) = SubSeq(rd.entry.data, 1, rd.entry.pos) \o x.got
      BY <1>4 DEF ReadOn
    <3> QED
      BY <1>3, <2>2, <2>3, <3>1, <3>2 DEF Taken
  <2>5. job.op = "file" =>
          /\ DOMAIN disk' = DOMAIN disk /\ disk'[Current(rd).name] = job'.data /\ OnDisk
          /\ \A y \in DOMAIN disk : y # Current(rd).name => disk'[y] = disk[y]
    BY <1>2, <2>1, <2>3 DEF SaveInv, RunInv, OnDisk
  <2>6. RunInv'
    <3>1. OnDisk /\ job.op = "file" => OnDisk'
      BY <1>5, <2>5 DEF OnDisk, Current
    <3> QED
      BY <1>2, <1>3, <1>5, <2>3, <2>4, <2>5, <3>1 DEF RunInv, Running
  <2>7. AllInv'
    <3>1. job.op = "all" => ~Running
      BY DEF Running
    <3>2. job.op = "file done" => ~Running
      BY DEF Running
    <3>3. ASSUME job.op = "file", job.all, ~rd.opts.raw
          PROVE  rd.info \in Matching(rd', 1) /\ SavedTo(rd', disk', kept, rd.info - 1, rd.info)
      <4>1. PlaceInv(rd) /\ rd.info \in Matching(rd, 1) /\ SavedTo(rd, disk, kept, rd.info - 1, rd.info)
        BY <3>3 DEF SaveInv, AllInv, RdInv
      <4>2. SavedTo(rd, disk', kept, rd.info - 1, rd.info)
        BY <2>5, <3>3, <4>1, SavedBefore DEF Current
      <4>3. rd.info \in Matching(rd', 1)
        BY <1>5, <4>1 DEF Matching
      <4> QED
        BY <1>5, <4>2, <4>3, SavedSame
    <3> QED
      BY <1>2, <1>5, <2>3, <3>1, <3>2, <3>3 DEF AllInv
  <2>8. SavedIsEntry'
    <3>1. job'.op # "none"
      BY <1>2, <2>3 DEF Running
    <3> QED
      BY <1>5, <2>1, <3>1, StillSaved DEF SaveInv
  <2> QED
    BY <2>6, <2>7, <2>8 DEF SaveInv
<1> QED
  BY <1>6, <1>8, <1>9

-----------------------------------------------------------------------------
(* The end of a save, and all steps *)

\* A save ends without an error: its data have been compared with what the entry's record says.
LEMMA EndIsWhole ==
  ASSUME SaveInv, RdInv(rd), Running, rd.entry # NoEntry, ~rd.opts.raw, NEW x, x = EntryRead(rd),
         x.got = <<>>, x.err = "ok", NEW c \in EntryClosed(x.r), c.err = "ok"
  PROVE  Whole(Current(rd), job.data)
<1>1. ReadOn(x.r, rd, <<>>) /\ x.err = IF x.got = <<>> /\ rd.entry.fails THEN "data" ELSE "ok"
  BY EntryReadIs
<1>2. ~rd.entry.fails
  BY <1>1
<1> DEFINE en == rd.entry
           y == x.r.entry
<1>3. OpenInv(rd, en)
  BY DEF RdInv
<1>4. OpenInv(x.r, y) /\ SamePlace(x.r, rd)
  BY <1>1 DEF ReadOn
<1>5. /\ y.e = en.e /\ y.data = en.data /\ y.fails = en.fails /\ y.crypt = en.crypt /\ y.eof = TRUE
      /\ y.pos = Len(en.data)
  BY <1>1 DEF ReadOn
<1>6. SubSeq(y.data, 1, y.pos) = job.data
  <2>1. SubSeq(en.data, 1, en.pos) \in Seq(Units \cup Data)
    BY <1>3, OpenType DEF Body
  <2>2. SubSeq(en.data, 1, en.pos) \o <<>> = SubSeq(en.data, 1, en.pos)
    BY <2>1
  <2>3. SubSeq(y.data, 1, y.pos) = SubSeq(en.data, 1, en.pos) \o <<>>
    BY <1>1 DEF ReadOn
  <2>4. job.data = SubSeq(en.data, 1, en.pos)
    BY DEF SaveInv, RunInv, Taken
  <2> QED
    BY <2>2, <2>3, <2>4
<1>7. y.e = Current(rd)
  BY <1>3, <1>5, OpenType DEF Current
<1>8. DOMAIN x.r = RdFields
  BY <1>4 DEF SamePlace
<1>9. /\ Compared(y, y.e) => SubSeq(y.data, 1, y.pos) = y.e.crc
      /\ x.r.hash # Nil => y.e.hash \in {Nil, Unknown, x.r.hash}
  BY <1>8, EntryClosedOk
<1>10. ASSUME y.e.key = Nil PROVE Compared(y, y.e)
  <2>1. y.crypt = FALSE /\ y.raw = x.r.opts.raw
    BY <1>4, <1>10 DEF OpenInv
  <2>2. ~y.raw
    BY <1>4, <2>1 DEF SamePlace
  <2> QED
    BY <1>2, <1>5, <2>1, <2>2 DEF Compared
<1>11. y.e.hash \in {Nil, Unknown, job.data}
  <2>1. x.r.hash = HashOf(y) /\ SubSeq(y.data, 1, y.pos) # Nil
    BY <1>4, OpenType, BodyFacts
  <2>2. CASE y.e.hash = Nil
    BY <2>2
  <2>3. CASE y.e.hash # Nil
    <3>1. x.r.hash = SubSeq(y.data, 1, y.pos)
      BY <2>1, <2>3 DEF HashOf
    <3> QED
      BY <1>6, <1>9, <2>1, <3>1
  <2> QED
    BY <2>2, <2>3
<1> QED
  BY <1>6, <1>7, <1>9, <1>10, <1>11 DEF Whole

\* The last turn closes the entry, and tells what that said.
LEMMA SaveEndSaves ==
  ASSUME SaveInv, RdInv(rd), SaveEnd PROVE SaveInv'
<1>1. PICK x : x = EntryRead(rd)
  OBVIOUS
<1>2. /\ Running /\ rd.entry.i # 0 /\ x.got = <<>> /\ x.err = "ok" /\ disk' = disk /\ kept' = kept
      /\ \E c \in EntryClosed(x.r) : rd' = c.r /\ Deliver(c.err)
  BY <1>1, Zenon DEF SaveEnd, Running
<1>3. PICK c \in EntryClosed(x.r) : rd' = c.r /\ Deliver(c.err)
  BY <1>2
<1>4. rd.entry # NoEntry /\ PlaceInv(rd) /\ rd.info # 0
  BY <1>2, OpenIsOpen DEF RdInv, SaveInv, RunInv
<1>5. RdInv(x.r) /\ SamePlace(x.r, rd)
  BY <1>1, <1>4, EntryReadInv
<1>6. SamePlace(rd', x.r)
  BY <1>3, <1>5, EntryClosedInv
<1>7. rd'.list = rd.list /\ rd'.info = rd.info /\ rd'.opts = rd.opts
  BY <1>5, <1>6 DEF SamePlace
<1>8. CASE c.err # "ok"
  BY <1>3, <1>7, <1>8, FailedSaves
<1>9. CASE c.err = "ok"
  <2>1. ~rd.opts.raw => Whole(Current(rd), job.data)
    BY <1>1, <1>2, <1>4, <1>9, EndIsWhole
  <2>2. CASE job.op = "file" /\ job.all /\ Nothing(TRUE, "ok") /\ last' = last
    <3>1. job'.op = "file done" /\ job'.all = TRUE /\ job'.err = "ok"
      BY <2>2 DEF Nothing
    <3>2. SavedIsEntry'
      BY <1>7, <2>2, <3>1, StillSaved DEF SaveInv
    <3>3. ~rd.opts.raw => SavedTo(rd, disk, kept, rd.info, rd.info)
      <4> HAVE ~rd.opts.raw
      <4>1. rd.info \in Matching(rd, 1) /\ SavedTo(rd, disk, kept, rd.info - 1, rd.info)
        BY <2>2 DEF SaveInv, AllInv
      <4>2. OnDisk
        BY <1>2, <2>2 DEF SaveInv, RunInv
      <4>3. SavedAt(rd, disk, kept, rd.info, rd.info)
        BY <2>1, <4>2 DEF SavedAt, OnDisk, Current
      <4> QED
        BY <1>4, <4>1, <4>3, SavedHere
    <3>4. ~rd.opts.raw => SavedTo(rd', disk, kept, rd.info, rd.info)
      BY <1>7, <3>3, SavedSame
    <3>5. AllInv'
      BY <1>2, <1>4, <1>7, <3>1, <3>4 DEF AllInv
    <3> QED
      BY <3>1, <3>2, <3>5 DEF SaveInv, RunInv, Running
  <2>3. CASE job' = NoJob /\ last' = [op |-> job.op, err |-> "ok", entry |-> Current(rd), data |-> job.data]
    <3>1. last'.op = job.op /\ last'.entry = Current(rd) /\ last'.data = job.data
      BY <2>3
    <3>2. AllIsSaved'
      BY <1>2, <3>1 DEF AllIsSaved, Running
    <3>3. SavedIsEntry'
      BY <1>7, <2>1, <3>1, <3>2 DEF SavedIsEntry
    <3> QED
      BY <2>3, <3>3, NoJobIs DEF SaveInv, RunInv, AllInv, Running
  <2> QED
    BY <1>3, <1>9, <2>2, <2>3, DeliverIs
<1> QED
  BY <1>8, <1>9

\* Every step keeps what is true of saves,
LEMMA SaveStepSaves ==
  ASSUME NoSaveAgain, NoAppendToZipped, TypeInv, SaveInv, [Next]_vars PROVE SaveInv'
<1>1. RdInv(rd)
  BY DEF TypeInv
<1>2. CASE ReaderSteps
  <2>1. ReaderMoves \/ ReaderReads \/ SaveStep
    BY <1>2 DEF ReaderSteps
  <2>2. CASE ReaderReads
    BY <1>1, <2>2, SaveCallSaves, SaveFileSaves, SaveAllSaves, ReadSomeSaves, Zenon DEF ReaderReads
  <2>3. CASE SaveStep
    BY <1>1, <2>3, SaveOpenSaves, SaveProcessSaves, SaveEndSaves, SaveAllFileSaves, SaveFileDoneSaves, Zenon DEF SaveStep
  <2> QED
    BY <2>1, <2>2, <2>3, MovesSave
<1>3. ASSUME readerVars' = readerVars PROVE SaveInv'
  BY <1>3, SameSaved DEF readerVars
<1>4. CASE UNCHANGED vars
  BY <1>3, <1>4 DEF vars
<1>5. CASE Next /\ ~ReaderSteps
  <2>1. readerVars' = readerVars
    BY <1>5, NextIs, Zenon DEF WriterOpen, WriterClose, WriterDiscard, Adds, AddInfo, AddInfoFails, CopyFromReader, CopyFails
  <2> QED
    BY <1>3, <2>1
<1> QED
  BY <1>2, <1>4, <1>5

\* ... which holds at first.
LEMMA SaveInit == Init => SaveInv
<1> SUFFICES ASSUME Init PROVE SaveInv
  OBVIOUS
<1>1. job.op = "none" /\ last.op = "none"
  BY NoJobIs DEF Init, NoResult
<1> QED
  BY <1>1 DEF SaveInv, RunInv, AllInv, SavedIsEntry, AllIsSaved, Running

\* A save that reports success has delivered the whole entry, and mz_zip_reader_save_all every entry
\* that the pattern matches, for callers that do not save an entry again after a save of it failed
\* and do not append to an archive whose directory is compressed (mz_zip_rw.c:578-663, 832-920).
THEOREM SavedIsEntryAlways ==
  ASSUME NoSaveAgain, NoAppendToZipped PROVE Spec => []SavedIsEntry
<1>1. (TypeInv /\ TypeInv') /\ SaveInv /\ [Next]_vars => SaveInv'
  BY SaveStepSaves
<1>2. SaveInv => SavedIsEntry
  BY DEF SaveInv
<1>3. Spec => []TypeInv
  BY TypeAlways
<1> QED
  BY <1>1, <1>2, <1>3, SaveInit, PTL DEF Spec
=============================================================================
