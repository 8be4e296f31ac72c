----------------------------- MODULE MCHeartbeat -----------------------------
(* Instances of Heartbeat for TLC. *)
EXTENDS Heartbeat, TLC

OneAgent == {"a1"}
TwoAgents == {"a1", "a2"}
=============================================================================
