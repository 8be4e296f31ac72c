----------------------------- MODULE MCBrokerDB -----------------------------
(* Instances of BrokerDB for TLC. *)
EXTENDS BrokerDB, TLC

OneRun == {"r1"}
TwoRuns == {"r1", "r2"}
ThreeRuns == {"r1", "r2", "r3"}
=============================================================================
