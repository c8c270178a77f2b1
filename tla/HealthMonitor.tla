--------------------------- MODULE HealthMonitor ----------------------------
(***************************************************************************)
(* The monitor of a node's K3s (PiNetOS/scripts/k3s-health-monitor.sh and  *)
(* its unit): rounds of checks, two remedies, and the state it serves to   *)
(* Prometheus.  Service, API server, nodes and pods change at any time, in *)
(* particular between two checks of one round.                             *)
(***************************************************************************)
EXTENDS Naturals

CONSTANT MAX_RESTART_ATTEMPTS

ASSUME MonitorAssumption == MAX_RESTART_ATTEMPTS \in Nat

VARIABLES
    service,        \* k3s or k3s-agent is active
    api,            \* kubectl is answered
    ready,          \* all nodes are
    pods,           \* "fine"; "crashing", of which a new one may be fine; or "no image"
    round,          \* where the monitor is in its round
    ok,             \* of this round
    failure_count,  \* counted up to MAX_RESTART_ATTEMPTS
    health          \* the status in the health file

monitorVars == <<service, api, ready, pods, round, ok, failure_count, health>>

MonitorTypeOK ==
    /\ {service, api, ready, ok} \subseteq BOOLEAN
    /\ pods \in {"fine", "crashing", "no image"}
    /\ round \in {"service", "nodes", "pods", "report", "asleep", "ended"}
    /\ failure_count \in 0..MAX_RESTART_ATTEMPTS
    /\ health \in {"starting", "ok", "degraded"}

MonitorStarts ==
    /\ round' = "service" /\ ok' = TRUE
    /\ failure_count' = 0
    /\ health' = "starting"

MonitorInit ==
    /\ service \in BOOLEAN /\ api \in BOOLEAN /\ ready \in BOOLEAN
    /\ pods = "fine"
    /\ round = "service" /\ ok = TRUE
    /\ failure_count = 0
    /\ health = "starting"

\* A service that is down is restarted, with or without success; the round has
\* failed all the same.
CheckService ==
    /\ round = "service"
    /\ round' = "nodes"
    /\ ok' = service
    /\ service => UNCHANGED service
    /\ service' \in BOOLEAN
    /\ UNCHANGED <<api, ready, pods, failure_count, health>>

\* Mutation: a check that passes makes good for one that failed.
CheckNodesForgets ==
    /\ round = "nodes"
    /\ round' = "pods"
    /\ ok' = TRUE
    /\ UNCHANGED <<service, api, ready, pods, failure_count, health>>

\* Without an answer there is no node that is not ready.
CheckNodes ==
    /\ round = "nodes"
    /\ round' = "pods"
    /\ ok' = (ok /\ (api => ready))
    /\ UNCHANGED <<service, api, ready, pods, failure_count, health>>

\* Neither is there a pod that fails, or one without an image to restart.
CheckPods ==
    /\ round = "pods"
    /\ api => pods = "fine"
    /\ round' = "report"
    /\ UNCHANGED <<service, api, ready, pods, ok, failure_count, health>>

RestartPods ==
    /\ round = "pods"
    /\ api /\ pods # "fine"
    /\ round' = "report" /\ ok' = FALSE
    /\ \/ failure_count < MAX_RESTART_ATTEMPTS /\ pods = "crashing" /\ pods' = "fine"
       \/ UNCHANGED pods
    /\ UNCHANGED <<service, api, ready, failure_count, health>>

\* kubectl answered the check and fails for the remedy: errexit ends the script.
RestartPodsEnds ==
    /\ round = "pods"
    /\ api /\ pods # "fine" /\ failure_count < MAX_RESTART_ATTEMPTS
    /\ api' = FALSE
    /\ round' = "ended"
    /\ UNCHANGED <<service, ready, pods, ok, failure_count, health>>

Report ==
    /\ round = "report"
    /\ round' = "asleep"
    /\ \/ ok /\ failure_count' = 0 /\ health' = "ok"
       \/ /\ ~ok /\ health' = "degraded"
          /\ failure_count' = IF failure_count < MAX_RESTART_ATTEMPTS
                              THEN failure_count + 1 ELSE failure_count
    /\ UNCHANGED <<service, api, ready, pods, ok>>

\* CHECK_INTERVAL is over, or, after an end, RestartSec.
NextRound ==
    /\ \/ /\ round = "asleep"
          /\ round' = "service" /\ ok' = TRUE
          /\ UNCHANGED <<failure_count, health>>
       \/ round = "ended" /\ MonitorStarts
    /\ UNCHANGED <<service, api, ready, pods>>

ClusterChanges ==
    /\ \/ service' \in BOOLEAN /\ UNCHANGED <<api, ready, pods>>
       \/ api' \in BOOLEAN /\ UNCHANGED <<service, ready, pods>>
       \/ ready' \in BOOLEAN /\ UNCHANGED <<service, api, pods>>
       \/ pods' \in {"fine", "crashing", "no image"} /\ UNCHANGED <<service, api, ready>>
    /\ UNCHANGED <<round, ok, failure_count, health>>

MonitorStep ==
    \/ CheckService \/ CheckNodes \/ CheckPods \/ RestartPods \/ RestartPodsEnds
    \/ Report \/ NextRound

MonitorNext == MonitorStep \/ ClusterChanges

-----------------------------------------------------------------------------
(* What is served to Prometheus follows the cluster, through any restarts  *)
(* of service, pods and monitor: a cluster that stays well is shown well   *)
(* in the end and for good, and one that answers and stays not ready is    *)
(* shown degraded (main loop of k3s-health-monitor.sh).                    *)
HealthFollowsCluster ==
    /\ <>[](service /\ api /\ ready /\ pods = "fine") => <>[](health = "ok")
    /\ <>[](api /\ ~ready) => <>[](health = "degraded")
=============================================================================
