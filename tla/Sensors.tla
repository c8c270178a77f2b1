------------------------------ MODULE Sensors ------------------------------
(***************************************************************************)
(* Sensors a user attaches to a node (backend/sensor_manager.py and        *)
(* routes/sensors.py): what the board allows, the definitions, kept in a   *)
(* dictionary of the process, and readings, which threads take while the   *)
(* definitions may change.                                                 *)
(***************************************************************************)
EXTENDS Integers, Sequences, FiniteSets, Dicts

CONSTANTS
    SensorIds,
    Boards,        \* boards: the words of the device tree and of /proc/cpuinfo
    Buses,         \* buses sensors are created on
    Attached,      \* those whose device file is there
    Intervals,     \* whole numbers sent as the poll interval
    NotAnInterval  \* any other value sent as one

ASSUME SensorsAssumption ==
    /\ Intervals \subseteq Int /\ NotAnInterval \notin Int
    /\ Boards \subseteq [tree : SUBSET STRING, cpu : SUBSET STRING]
    /\ Buses \subseteq {"i2c", "gpio", "spi", "one_wire", "uart"}

VARIABLES
    platform,  \* _platform
    sensors,   \* _sensors
    reading,   \* sensors read_all_async still waits for
    lastRead,  \* how the last reading of a sensor ended, or ""
    unfloored  \* sensors whose last update was refused half way

sensorVars == <<platform, sensors, reading, lastRead, unfloored>>

Sensor == [enabled : BOOLEAN, bus : Buses,
           placed : BOOLEAN,     \* the address, pin or channel of the bus is set
           poll_interval : Int \cup {NotAnInterval}]
Ending == {"disabled", "simulated", "measured", "raised"}

-----------------------------------------------------------------------------
(* The board. *)

\* Words of the device tree, in the order they are looked for.
TreeWords == <<
    <<{"pi 5", "bcm2712"}, "pi5">>,  <<{"pi 4", "bcm2711"}, "pi4">>,
    <<{"zero 2", "zero2"}, "zero2w">>,
    <<{"pi 3", "bcm2837"}, "pi3">>,  <<{"pi 2", "bcm2836"}, "pi2">>,
    <<{"zero"}, "zero">>,
    <<{"compute module 4", "cm4"}, "cm4">>, <<{"compute module 3", "cm3"}, "cm3">>,
    <<{"compute module"}, "cm">>,
    <<{"pi 1", "model a", "model b"}, "pi1">>, <<{"raspberry pi"}, "pi">> >>

CpuWords == << <<{"bcm2712"}, "pi5">>, <<{"bcm2711"}, "pi4">>, <<{"bcm2837"}, "pi3">>,
               <<{"bcm2836"}, "pi2">>, <<{"bcm2835"}, "pi1">> >>

\* The first row with a word in words, or "generic".
FirstMatch(rows, words) ==
    LET hits == {i \in DOMAIN rows : rows[i][1] \cap words # {}} IN
    IF hits = {} THEN "generic"
    ELSE rows[CHOOSE i \in hits : \A j \in hits : i <= j][2]

\* detect_pi_model: a device tree that is missing, not read or of no known
\* board leaves the decision to the processor.
DetectPiModel(board) ==
    LET found == FirstMatch(TreeWords, board.tree) IN
    IF found # "generic" THEN found ELSE FirstMatch(CpuWords, board.cpu)

\* _PLATFORM_CAPS, and "generic" for a platform it does not have.
Capped == [max_sensors : Nat, min_poll_interval : Nat]
Caps(n, s) == [max_sensors |-> n, min_poll_interval |-> s]
PlatformCaps(p) ==
    CASE p = "pi5" -> Caps(16, 5)      [] p = "pi4" -> Caps(12, 5)
      [] p = "pi3" -> Caps(8, 10)      [] p = "pi2" -> Caps(6, 10)
      [] p = "pi1" -> Caps(4, 20)      [] p = "zero2w" -> Caps(4, 15)
      [] p = "zero" -> Caps(3, 30)     [] p = "cm4" -> Caps(12, 5)
      [] p = "cm3" -> Caps(6, 10)      [] OTHER -> Caps(4, 15)

MAX_SENSORS == PlatformCaps(platform).max_sensors
MIN_INTERVAL == PlatformCaps(platform).min_poll_interval

Platform == {DetectPiModel(b) : b \in Boards}

SensorsTypeOK ==
    /\ platform \in Platform
    /\ IsDict(sensors, SensorIds, Sensor)
    /\ reading \subseteq SensorIds
    /\ lastRead \in Ending \cup {""}
    /\ unfloored \subseteq SensorIds

SensorsInit ==
    /\ platform \in Platform
    /\ sensors = EmptyDict
    /\ reading = {}
    /\ lastRead = ""
    /\ unfloored = {}

-----------------------------------------------------------------------------
(* Definitions. *)

Floored(i) == IF i < MIN_INTERVAL THEN MIN_INTERVAL ELSE i

\* add_sensor, behind the route's test for a sensor of that name.
CreateSensor(s, bus, placed, i) ==
    /\ s \notin DOMAIN sensors
    /\ Cardinality(DOMAIN sensors) < MAX_SENSORS
    /\ sensors' = Put(sensors, s, [enabled |-> TRUE, bus |-> bus, placed |-> placed,
                                   poll_interval |-> Floored(i)])
    /\ unfloored' = unfloored \ {s}
    /\ UNCHANGED <<platform, reading, lastRead>>

\* Mutation: the interval is only floored when the sensor is added.
UpdateSensorAsSent(s, i) ==
    /\ s \in DOMAIN sensors
    /\ i # NotAnInterval
    /\ sensors' = [sensors EXCEPT ![s].poll_interval = i]
    /\ unfloored' = unfloored \ {s}
    /\ UNCHANGED <<platform, reading, lastRead>>

\* update_sensor with a new interval.
UpdateSensor(s, i) ==
    /\ s \in DOMAIN sensors
    /\ i # NotAnInterval
    /\ sensors' = [sensors EXCEPT ![s].poll_interval = Floored(i)]
    /\ unfloored' = unfloored \ {s}
    /\ UNCHANGED <<platform, reading, lastRead>>

\* ... with another attribute, here whether it is read; the interval of before
\* is floored again, which raises TypeError (500) if it is no number.
UpdateOther(s, enabled) ==
    /\ s \in DOMAIN sensors
    /\ LET i == sensors[s].poll_interval IN
       /\ sensors' = [sensors EXCEPT ![s].enabled = enabled,
                      ![s].poll_interval = IF i = NotAnInterval THEN i ELSE Floored(i)]
       /\ unfloored' = IF i = NotAnInterval THEN unfloored ELSE unfloored \ {s}
    /\ UNCHANGED <<platform, reading, lastRead>>

\* ... with an interval that is no number (500), or one before a name that is
\* no field (400): it is stored all the same.
UpdateRefusedLate(s, i) ==
    /\ s \in DOMAIN sensors
    /\ sensors' = [sensors EXCEPT ![s].poll_interval = i]
    /\ unfloored' = unfloored \cup {s}
    /\ UNCHANGED <<platform, reading, lastRead>>

RemoveSensor(s) ==
    /\ s \in DOMAIN sensors
    /\ sensors' = Drop(sensors, s)
    /\ UNCHANGED <<platform, reading, lastRead, unfloored>>

-----------------------------------------------------------------------------
(* Readings. *)

\* What a backend may end in; an ADC is read over spi or i2c.  Without the device
\* file, or the place on the bus where one is needed, a value is made up, as it
\* is after an OSError.  Any other exception, of a library that is not installed
\* or of an address that is no number, is not caught.
Endings(sensor) ==
    IF ~sensor.enabled THEN {"disabled"}
    ELSE IF sensor.bus \notin Attached \/ (sensor.bus \in {"i2c", "gpio", "spi"} /\ ~sensor.placed)
    THEN {"simulated"}
    ELSE {"simulated", "measured", "raised"}

\* GET of one reading.
ReadSensor(s) ==
    /\ s \in DOMAIN sensors
    /\ lastRead' \in Endings(sensors[s])
    /\ UNCHANGED <<platform, sensors, reading, unfloored>>

\* read_all_async: a thread for each sensor that is enabled now.
BeginReadAll ==
    /\ reading = {}
    /\ reading' = {s \in DOMAIN sensors : sensors[s].enabled}
    /\ UNCHANGED <<platform, sensors, lastRead, unfloored>>

\* A thread reads the definition as it is by now; that of a sensor that was
\* removed is as it was, here any.
ReadInThread(s) ==
    /\ s \in reading
    /\ reading' = reading \ {s}
    /\ lastRead' \in IF s \in DOMAIN sensors THEN Endings(sensors[s]) ELSE Ending
    /\ UNCHANGED <<platform, sensors, unfloored>>

SensorRequest ==
    \/ \E s \in SensorIds :
         \/ \E bus \in Buses, placed \in BOOLEAN, i \in Intervals : CreateSensor(s, bus, placed, i)
         \/ \E i \in Intervals \cup {NotAnInterval} :
              UpdateSensor(s, i) \/ UpdateRefusedLate(s, i)
         \/ \E enabled \in BOOLEAN : UpdateOther(s, enabled)
         \/ RemoveSensor(s)
         \/ ReadSensor(s)
         \/ ReadInThread(s)
    \/ BeginReadAll

\* The process ends: to_state and from_state are called by nothing.
SensorsLost ==
    /\ sensors' = EmptyDict
    /\ reading' = {}
    /\ lastRead' = ""
    /\ unfloored' = {}
    /\ UNCHANGED platform

-----------------------------------------------------------------------------
(* No sensor is polled more often than the board allows, whatever updates  *)
(* it was sent, unless the last of them was refused half way: the floor in *)
(* add_sensor and update_sensor of backend/sensor_manager.py.              *)
IntervalsFloored ==
    \A s \in DOMAIN sensors \ unfloored :
        /\ sensors[s].poll_interval # NotAnInterval
        /\ sensors[s].poll_interval >= MIN_INTERVAL
=============================================================================
