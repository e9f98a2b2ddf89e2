----------------------------- MODULE MCZipWriter -----------------------------
(* Instance of ZipReader and ZipWriter for TLC: a file of two tokens and a directory; two
   archives there are at first. *)
EXTENDS ZipWriter, TLC

CONSTANTS fileName, dirName, cdName, junk, secret, nil, unknown, tok1, tok2, in, out

MCDataOf == fileName :> <<tok1, tok2>> @@ dirName :> <<>>
MCKindOf == fileName :> "file" @@ dirName :> "dir"
\* An entry whose data went bad in the file.
Damaged(e) == [e EXCEPT !.body[Len(e.body)] = Junk, !.packed = FALSE]
\* An entry that was changed with its CRC, but not its hash.
Altered  == Entry(dirName, "file", <<tok1>>, "store", <<tok2>>, Nil)
MCGiven  ==
  {in :> <<Entry(fileName, "file", <<tok1, tok2>>, "deflate", Unknown, Nil), Entry(fileName, "file", <<tok1>>, "store", <<tok1>>, Key)>>,
   in :> <<Damaged(Entry(fileName, "file", <<tok1, tok2>>, "store", <<tok1, tok2>>, Nil)), Altered, Entry(dirName, "link", <<>>, "store", Nil, Nil)>>}
MCReaderOptions == {[pattern |-> Names \cup {CdName}, password |-> p, raw |-> FALSE] : p \in {Nil, Key}}
  \cup {[pattern |-> {fileName}, password |-> IF r THEN Key ELSE Junk, raw |-> r] : r \in BOOLEAN}
MCWriterOptions == {[level |-> "best", raw |-> FALSE, zipCd |-> TRUE, key |-> Key],
                    [level |-> "none", raw |-> FALSE, zipCd |-> FALSE, key |-> Nil]}
==============================================================================
