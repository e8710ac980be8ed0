----------------------------- MODULE Selection -----------------------------
(***************************************************************************)
(* The loops of the passes that go through a list and keep some of its     *)
(* elements in order.                                                      *)
(***************************************************************************)
EXTENDS Naturals, Sequences

(* The elements of the sequence s that are in S.                           *)
Selected(s, S) ==
    LET keep[i \in 0 .. Len(s)] ==
            IF i = 0 THEN <<>>
            ELSE IF s[i] \in S THEN Append(keep[i - 1], s[i]) ELSE keep[i - 1]
    IN keep[Len(s)]
=============================================================================
