------------------------------- MODULE Filter -------------------------------
(* The filter of a list (Iterator::filter, Vec::retain, VecDeque::retain)   *)
(* in a form that proofs can use, written as a recursive function.          *)
EXTENDS Naturals, Sequences

(* The elements of s that are in S, in their order.                        *)
Keeping(s, S) ==
    LET kept[i \in 0..Len(s)] ==
            IF i = 0 THEN <<>>
            ELSE IF s[i] \in S THEN Append(kept[i - 1], s[i]) ELSE kept[i - 1]
    IN  kept[Len(s)]
=============================================================================
