-------------------------------- MODULE Archive --------------------------------
(***************************************************************************)
(* What a zip archive promises its users: a list of named contents that    *)
(* sessions extend, in the order in which entries are added, and that a    *)
(* reader gets back.  No file, no directory, no position.                  *)
(***************************************************************************)
EXTENDS Naturals, Sequences

CONSTANTS
  Names,  \* entry names
  Chunks  \* units of entry data

VARIABLES
  contents,  \* the entries added and closed, oldest first
  session,   \* "none", "write" or "read"
  adding,    \* <<the entry being added>>, or <<>>
  cursor,    \* the entry a reader is at; 0 at none
  reading    \* <<what was read of it since it was opened>>, or <<>>

vars == <<contents, session, adding, cursor, reading>>

Init ==
  /\ contents = <<>> /\ session = "none" /\ adding = <<>>
  /\ cursor = 0 /\ reading = <<>>

\* The contents once the entry being added is closed.
Closed == contents \o adding

Create ==
  /\ session = "none" /\ session' = "write" /\ contents' = <<>>
  /\ UNCHANGED <<adding, cursor, reading>>

Continue ==
  /\ session = "none" /\ session' = "write"
  /\ UNCHANGED <<contents, adding, cursor, reading>>

BeginEntry(n) ==
  /\ session = "write" /\ contents' = Closed
  /\ adding' = <<[name |-> n, data |-> <<>>]>>
  /\ UNCHANGED <<session, cursor, reading>>

Put(c) ==
  /\ session = "write" /\ adding # <<>>
  /\ adding' = [adding EXCEPT ![1].data = Append(@, c)]
  /\ UNCHANGED <<contents, session, cursor, reading>>

EndEntry ==
  /\ adding # <<>> /\ contents' = Closed /\ adding' = <<>>
  /\ UNCHANGED <<session, cursor, reading>>

Finish ==
  /\ session = "write" /\ session' = "none"
  /\ contents' = Closed /\ adding' = <<>>
  /\ UNCHANGED <<cursor, reading>>

OpenForReading ==
  /\ session = "none" /\ session' = "read"
  /\ UNCHANGED <<contents, adding, cursor, reading>>

\* First, next, a position kept from before, or the entry of a name.
Select(k) ==
  /\ session = "read" /\ reading = <<>>
  /\ cursor' = k
  /\ UNCHANGED <<contents, session, adding, reading>>

BeginReading ==
  /\ cursor # 0 /\ reading = <<>> /\ reading' = << <<>> >>
  /\ UNCHANGED <<contents, session, adding, cursor>>

Get ==
  /\ reading # <<>>
  /\ Len(reading[1]) < Len(contents[cursor].data)
  /\ reading' = <<SubSeq(contents[cursor].data, 1, Len(reading[1]) + 1)>>
  /\ UNCHANGED <<contents, session, adding, cursor>>

EndReading ==
  /\ reading # <<>> /\ reading' = <<>>
  /\ UNCHANGED <<contents, session, adding, cursor>>

CloseReading ==
  /\ session = "read" /\ session' = "none"
  /\ cursor' = 0 /\ reading' = <<>>
  /\ UNCHANGED <<contents, adding>>

Next ==
  \/ Create \/ Continue \/ EndEntry \/ Finish
  \/ \E n \in Names : BeginEntry(n)
  \/ \E c \in Chunks : Put(c)
  \/ OpenForReading \/ BeginReading \/ Get \/ EndReading \/ CloseReading
  \/ \E k \in 0..Len(contents) : Select(k)

Spec == Init /\ [][Next]_vars
=============================================================================
