----------------------------- MODULE Filtering -----------------------------
(***************************************************************************)
(* SelectSeq with a set for the test, as a walk along the sequence: a      *)
(* recursive function that proofs can unfold.                              *)
(***************************************************************************)
LOCAL INSTANCE Naturals
LOCAL INSTANCE Sequences

\* The elements of s that are in S, in their order.
Filter(s, S) ==
    LET upTo[n \in 0..Len(s)] ==
          IF n = 0 THEN <<>>
          ELSE IF s[n] \in S THEN Append(upTo[n - 1], s[n]) ELSE upTo[n - 1]
    IN  upTo[Len(s)]
=============================================================================
