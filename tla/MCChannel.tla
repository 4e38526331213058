----------------------------- MODULE MCChannel ------------------------------
(* Channel on small instances. *)
EXTENDS Channel

CONSTANTS t1, t2, t3, v1, v2

ThreeThreads == {t1, t2, t3}
TwoValues == {v1, v2}
=============================================================================
