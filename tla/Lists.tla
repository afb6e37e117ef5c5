------------------------------- MODULE Lists -------------------------------
(***************************************************************************)
(* What the loops of jquery-1.7.2.js that take elements out of an array    *)
(* leave of it.                                                            *)
(***************************************************************************)
EXTENDS Integers, Sequences

\* The elements of s that are in keep, in their order.  A recursive function of
\* the number of elements that the loop has seen, for the proofs.
Kept(s, keep) ==
    LET upto[i \in 0..Len(s)] ==
            IF i = 0 THEN <<>>
            ELSE IF s[i] \in keep THEN Append(upto[i - 1], s[i])
            ELSE upto[i - 1]
    IN  upto[Len(s)]
=============================================================================
