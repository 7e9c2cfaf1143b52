-------------------------------- MODULE Lists --------------------------------
(***************************************************************************)
(* What the pages take out of a list: filter, with the places to keep.        *)
(***************************************************************************)
EXTENDS Naturals, Sequences

\* The elements of s whose places are in K, in their order.
Kept(s, K) ==
    LET kept[n \in 0..Len(s)] ==
            IF n = 0 THEN <<>>
            ELSE IF n \in K THEN Append(kept[n - 1], s[n]) ELSE kept[n - 1]
    IN kept[Len(s)]
=============================================================================
