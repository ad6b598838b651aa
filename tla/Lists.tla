------------------------------- MODULE Lists -------------------------------
(***************************************************************************)
(* What the programs do to a Vec in one call.  SelectSeq of the standard    *)
(* modules says the same as Sift, but cannot be expanded in a proof.        *)
(***************************************************************************)
EXTENDS Naturals, Sequences

\* Vec::retain: the elements of s that are in S, in their order.
Sift(s, S) ==
    LET kept[i \in 0..Len(s)] ==
            IF i = 0 THEN <<>>
            ELSE IF s[i] \in S THEN Append(kept[i - 1], s[i])
            ELSE kept[i - 1]
    IN  kept[Len(s)]
=============================================================================
