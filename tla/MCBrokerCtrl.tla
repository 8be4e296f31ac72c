---------------------------- MODULE MCBrokerCtrl ----------------------------
(* Instances of BrokerCtrl for TLC. *)
EXTENDS BrokerCtrl, TLC

Symmetry == Permutations(Agents)
=============================================================================
