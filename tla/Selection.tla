----------------------------- MODULE Selection -----------------------------
(***************************************************************************)
(* Taking elements out of a list while walking through it, as the loops    *)
(* that drop expired packets do.  It is a recursive function, not          *)
(* SelectSeq, so that it can be reasoned about (see SelectionProofs).      *)
(***************************************************************************)
EXTENDS Integers, Sequences

\* The elements of s at the positions I, in their order.
Selected(s, I) ==
  LET taken[n \in 0 .. Len(s)] ==
        IF n = 0 THEN <<>>
        ELSE IF n \in I THEN Append(taken[n - 1], s[n]) ELSE taken[n - 1]
  IN  taken[Len(s)]
=============================================================================
