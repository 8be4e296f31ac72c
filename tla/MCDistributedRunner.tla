------------------------ MODULE MCDistributedRunner ------------------------
(* Instances of DistributedRunner for TLC. *)
EXTENDS DistributedRunner
=============================================================================
