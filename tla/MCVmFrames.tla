----------------------------- MODULE MCVmFrames -----------------------------
(* VmFrames on small instances. *)
EXTENDS VmFrames

OneInt == {1}
=============================================================================
