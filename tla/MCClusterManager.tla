-------------------------- MODULE MCClusterManager --------------------------
(* Model values and bounds under which TLC checks ClusterManager. *)
EXTENDS ClusterManager, TLC

CONSTANTS master, w1, w2

MCNode == {master, w1, w2}

AllTypes == {"CLUSTER_JOIN_REQUEST", "CLUSTER_HEARTBEAT", "NODE_DEREGISTER", "OTHER"}

\* The clock creeps, or jumps past both limits at once.
CreepAndJump == {1, 3}
=============================================================================
