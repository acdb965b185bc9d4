------------------------------- MODULE Filter -------------------------------
(* SelectSeq of the standard module Sequences, for a test that is a set:   *)
(* as a function on prefixes, so that proofs can follow it by induction.   *)
EXTENDS Naturals, Sequences

\* The elements of s that are in T, in their order.
Only(s, T) ==
  LET upto[i \in 0..Len(s)] ==
        IF i = 0 THEN <<>>
        ELSE IF s[i] \in T THEN Append(upto[i - 1], s[i]) ELSE upto[i - 1]
  IN  upto[Len(s)]
=============================================================================
