----------------------------- MODULE MCThreads ------------------------------
(* Threads on small instances. *)
EXTENDS Threads

CONSTANTS m, a, b

ThreeThreads == {m, a, b}
=============================================================================
