------------------------------- MODULE Lists -------------------------------
(* The elements of a list and its filter, which is a recursive function and   *)
(* not SelectSeq, so that proofs can follow it.                               *)
EXTENDS Naturals, Sequences

Elements(s) == {s[i] : i \in 1 .. Len(s)}

(* The elements of s that are in S, in their order.                           *)
Among(s, S) ==
  LET kept[n \in 0 .. Len(s)] ==
        IF n = 0 THEN <<>>
        ELSE IF s[n] \in S THEN Append(kept[n - 1], s[n]) ELSE kept[n - 1]
  IN  kept[Len(s)]
=============================================================================
