---------------------------- MODULE MCCoroutine -----------------------------
(* Coroutine on small instances. *)
EXTENDS Coroutine, TLC

CONSTANTS c1, c2, c3

Two == {c1, c2}
Three == {c1, c2, c3}

\* Coroutines are interchangeable.
Symmetry == Permutations(Three)
=============================================================================
