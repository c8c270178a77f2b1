--------------------------- MODULE WeatherStation ---------------------------
(***************************************************************************)
(* The weather dApp (zedd-weather/app.py): a loop that reads the sensors   *)
(* and writes to InfluxDB, waits longer after every failure, and tells a   *)
(* health endpoint how it went; and the kubelet, which probes the endpoint *)
(* and replaces a container that answers too often that it is not well     *)
(* (zedd-weather-deployment.yaml).  Times are multiples of 10 seconds.     *)
(***************************************************************************)
EXTENDS Naturals

CONSTANTS
    SENSOR_INTERVAL,
    max_backoff,       \* 60 seconds
    WriteTimes,        \* how long a write may take before it fails
    initialDelay, probePeriod, failureThreshold  \* of the liveness probe

ASSUME WeatherAssumption ==
    /\ {SENSOR_INTERVAL, max_backoff, initialDelay, probePeriod, failureThreshold}
         \subseteq Nat \ {0}
    /\ WriteTimes \subseteq Nat

VARIABLES
    faults,                \* what does not work: the sensors, InfluxDB
    container,             \* "running", or "waiting" to be started again
    wait,                  \* until the loop goes on
    consecutive_failures,  \* counted up to max_backoff
    status,                \* _health["status"]
    nextProbe,             \* until the next probe
    missed                 \* probes in a row that were answered 503

weatherVars == <<faults, container, wait, consecutive_failures, status, nextProbe, missed>>

WeatherTypeOK ==
    /\ faults \subseteq {"influx", "sensors"}
    /\ container \in {"running", "waiting"}
    /\ wait \in Nat
    /\ consecutive_failures \in 0..max_backoff
    /\ status \in {"starting", "ok", "degraded", "error"}
    /\ nextProbe \in 0..(initialDelay + probePeriod)
    /\ missed \in 0..failureThreshold

WeatherInit ==
    /\ faults \in SUBSET {"influx", "sensors"}
    /\ container = "running"
    /\ wait = 0 /\ consecutive_failures = 0 /\ status = "starting"
    /\ nextProbe = initialDelay /\ missed = 0

Least(a, b) == IF a < b THEN a ELSE b

\* Mutation: only a failure tells the endpoint.
WriteSucceedsQuietly ==
    /\ container = "running" /\ wait = 0 /\ faults = {}
    /\ consecutive_failures' = 0 /\ UNCHANGED status
    /\ wait' = SENSOR_INTERVAL
    /\ UNCHANGED <<faults, container, nextProbe, missed>>

WriteSucceeds ==
    /\ container = "running" /\ wait = 0 /\ faults = {}
    /\ consecutive_failures' = 0 /\ status' = "ok"
    /\ wait' = SENSOR_INTERVAL
    /\ UNCHANGED <<faults, container, nextProbe, missed>>

\* InfluxDB answers with an error, or does not answer, or the sensors raise.
IterationFails ==
    /\ container = "running" /\ wait = 0 /\ faults # {}
    /\ consecutive_failures' = Least(consecutive_failures + 1, max_backoff)
    /\ \/ status' = "degraded" /\ "sensors" \notin faults
       \/ status' = "error"
    /\ \E t \in WriteTimes :
         wait' = t + Least(SENSOR_INTERVAL * (consecutive_failures + 1), max_backoff)
    /\ UNCHANGED <<faults, container, nextProbe, missed>>

-----------------------------------------------------------------------------
(* The kubelet. *)

ProbeAnswered ==
    /\ container = "running" /\ nextProbe = 0
    /\ status = "ok"
    /\ missed' = 0 /\ nextProbe' = probePeriod
    /\ UNCHANGED <<faults, container, wait, consecutive_failures, status>>

ProbeFails ==
    /\ container = "running" /\ nextProbe = 0
    /\ status # "ok"
    /\ missed' = missed + 1 /\ nextProbe' = probePeriod
    /\ container' = IF missed + 1 = failureThreshold THEN "waiting" ELSE "running"
    /\ UNCHANGED <<faults, wait, consecutive_failures, status>>

ContainerStarts ==
    /\ container = "waiting"
    /\ container' = "running"
    /\ wait' = 0 /\ consecutive_failures' = 0 /\ status' = "starting"
    /\ nextProbe' = initialDelay /\ missed' = 0
    /\ UNCHANGED faults

TimePasses ==
    /\ container = "running" /\ wait > 0 /\ nextProbe > 0
    /\ wait' = wait - 1 /\ nextProbe' = nextProbe - 1
    /\ UNCHANGED <<faults, container, consecutive_failures, status, missed>>

FaultsChange ==
    /\ faults' \in SUBSET {"influx", "sensors"}
    /\ UNCHANGED <<container, wait, consecutive_failures, status, nextProbe, missed>>

WeatherStep ==
    \/ WriteSucceeds \/ IterationFails
    \/ ProbeAnswered \/ ProbeFails \/ ContainerStarts
    \/ TimePasses

WeatherNext == WeatherStep \/ FaultsChange

-----------------------------------------------------------------------------
(* When what it needs works again the station is well in the end and is    *)
(* left running: neither its waits nor the kubelet's restarts keep it from *)
(* it (main of zedd-weather/app.py, livenessProbe of its deployment).      *)
StationRecovers ==
    <>[](faults = {}) => <>[](container = "running" /\ status = "ok")
=============================================================================
