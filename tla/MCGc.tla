-------------------------------- MODULE MCGc --------------------------------
(* Gc on small instances. *)
EXTENDS Gc, TLC

CONSTANTS o1, o2, o3

ThreeObjects == {o1, o2, o3}

\* Addresses are interchangeable.
Symmetry == Permutations(ThreeObjects)
=============================================================================
