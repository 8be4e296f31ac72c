----------------------------- MODULE MCCluster ------------------------------
(* Instances of Cluster for TLC. *)
EXTENDS Cluster, TLC

Symmetry == Permutations(Agents)

\* States that differ only in what the last step sent have the same future.
NoOut == <<agents, agentTimes, runs, meta, spinning, agentVars>>
=============================================================================
