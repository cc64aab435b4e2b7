-------------------------------- MODULE Lists --------------------------------
(***************************************************************************)
(* Python's comprehensions with a condition, [x for x in s if test(x)]:    *)
(* as functions of positions, so that they can be reasoned about.          *)
(***************************************************************************)
EXTENDS Integers, Sequences

(* The members of I, a set of positions up to n, in order.                 *)
Ordered(I, n) ==
    LET upto[k \in 0..n] ==
            IF k = 0 THEN <<>> ELSE IF k \in I THEN Append(upto[k - 1], k) ELSE upto[k - 1]
    IN  upto[n]
(* The elements of s at the positions in I.                                *)
Kept(s, I) ==
    LET upto[k \in 0..Len(s)] ==
            IF k = 0 THEN <<>> ELSE IF k \in I THEN Append(upto[k - 1], s[k]) ELSE upto[k - 1]
    IN  upto[Len(s)]
Where(s, Test(_)) == Kept(s, {i \in DOMAIN s : Test(s[i])})
==============================================================================
