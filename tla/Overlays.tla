-------------------------------- MODULE Overlays --------------------------------
(* Writing over a part of a sequence of bytes. *)
EXTENDS Naturals, Sequences

Least(a, b) == IF a <= b THEN a ELSE b

\* Sequence s with d written over it from position p on; p is at most Len(s).
Overlay(s, p, d) ==
  [i \in 1..(IF p + Len(d) > Len(s) THEN p + Len(d) ELSE Len(s)) |->
     IF i \in (p + 1)..(p + Len(d)) THEN d[i - p] ELSE s[i]]
=============================================================================
