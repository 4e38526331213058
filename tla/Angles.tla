------------------------------- MODULE Angles -------------------------------
(***************************************************************************)
(* The order of directions by which cyclic_order.c sorts the members of a  *)
(* region, and what a cyclic order of directions is.  A direction is a     *)
(* pair of integers other than <<0, 0>>.                                   *)
(***************************************************************************)
EXTENDS Integers, Sequences

Directions == (Int \X Int) \ {<<0, 0>>}

\* Directions by atan2, which runs from -pi to pi: below the axis, then from
\* east to just before west, then west.
Half(d) == IF d[2] < 0 THEN 0 ELSE IF d[2] = 0 /\ d[1] < 0 THEN 2 ELSE 1
Cross(d, e) == d[1] * e[2] - d[2] * e[1]
Unsorted(d, e) == FALSE   \* mutant of compare_angles
compare_angles(d, e) == Half(d) < Half(e) \/ (Half(d) = Half(e) /\ Cross(d, e) > 0)
SameDirection(d, e) == Half(d) = Half(e) /\ Cross(d, e) = 0

\* Turning to the left (counter-clockwise) from d, e is met before f: first what
\* lies within half a turn, then what lies opposite, then the rest.
Turn(d, e) == IF Cross(d, e) > 0 THEN 1 ELSE IF Cross(d, e) < 0 THEN 3 ELSE 2
MetBefore(d, e, f) == Turn(d, e) < Turn(d, f) \/ (Turn(d, e) = Turn(d, f) /\ Cross(e, f) > 0)

\* What qsort makes of directions of which no two are the same.
Sorted(s) == \A i, j \in 1 .. Len(s) : i < j => compare_angles(s[i], s[j])
=============================================================================
