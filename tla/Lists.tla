-------------------------------- MODULE Lists --------------------------------
(****************************************************************************)
(* Lists as the server walks them: from the front, leaving out what a       *)
(* condition says, and in an order that matters.                            *)
(****************************************************************************)
EXTENDS Naturals, SequencesExt

\* The members of s that are in T, in their order.
Only(s, T) ==
  LET only[n \in 0..Len(s)] ==
        IF n = 0 THEN <<>>
        ELSE IF s[n] \in T THEN Append(only[n - 1], s[n]) ELSE only[n - 1]
  IN  only[Len(s)]

Precedes(s, x, y) == \E i, j \in DOMAIN s : i < j /\ s[i] = x /\ s[j] = y
=============================================================================
