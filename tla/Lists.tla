-------------------------------- MODULE Lists --------------------------------
(***************************************************************************)
(* What the lists of several modules have in common.                       *)
(***************************************************************************)
EXTENDS Integers, Sequences

(* The elements of s that are in T, in their order.                        *)
Kept(s, T) ==
  LET kept[n \in 0..Len(s)] ==
        IF n = 0 THEN <<>>
        ELSE IF s[n] \in T THEN Append(kept[n - 1], s[n]) ELSE kept[n - 1]
  IN  kept[Len(s)]
=============================================================================
