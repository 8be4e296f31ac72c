---------------------------- MODULE MCClientPool ----------------------------
(* Instances of ClientPool for TLC. *)
EXTENDS ClientPool
=============================================================================
