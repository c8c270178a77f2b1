------------------------------ MODULE AppState ------------------------------
(***************************************************************************)
(* The application state of the backend (backend/state.py): one object in  *)
(* memory, one JSON file that every save writes anew and a restart reads,  *)
(* and the requests and tasks that meet in both (routes/settings.py,       *)
(* routes/enterprise.py, discovery and provisioning in routes/cluster.py,  *)
(* the poller in main.py).                                                 *)
(*                                                                         *)
(* Handlers run on one event loop: what is between two awaits, a save      *)
(* included, is one step.  The state is a function from what it holds, one *)
(* key for a group of fields written together, to values; the fields of    *)
(* the Minima node are StatusPoll's.  A job is the rest of a request       *)
(* behind its first await, and is named after the key it writes.           *)
(***************************************************************************)
EXTENDS Naturals, FiniteSets

CONSTANTS
    Nodes,            \* nodes the state file may list
    Settings,         \* settings a client may send
    DefaultSettings,  \* those of a new installation
    Mistyped,         \* settings that are stored but cannot be loaded again
    Unreadable,       \* a file that is missing, cut short or not valid JSON
    Requests,         \* places for requests that wait for something
    MaxRequests,      \* bound: requests that write the state
    MaxDeaths,        \* bound: ends of the process
    MaxFaults         \* bound: saves that raise OSError

ASSUME SettingsAssumption ==
    /\ Mistyped \subseteq Settings
    /\ DefaultSettings \in Settings \ Mistyped

ASSUME BoundsAssumption ==
    MaxRequests \in Nat /\ MaxDeaths \in Nat /\ MaxFaults \in Nat

Status ==
    {"absent", "online", "offline", "provisioning",                 \* a node
     "uninitialized", "initializing",                               \* the LXC
     "host", "container",                                           \* priority
     "detecting", "found", "error",                                 \* AI
     "unknown", "checking", "verified", "compromised",              \* health
     "idle", "building", "releasing", "released", "failed"}         \* builds

Group == {"settings", "lxc", "priority", "accel", "health", "build"}

ASSUME KeysAssumption ==
    /\ Nodes \cap (Group \cup {"none", "release", "discover", "discover raised"}) = {}
    /\ Unreadable \notin [Group \cup Nodes -> Settings \cup Status]

VARIABLES
    up,        \* the process runs
    mem,       \* the state in memory; meaningless while the process is down
    file,      \* pinet-state.json
    job,       \* per place: what the request there still has to do, or "none"
    pending,   \* per place: the nodes its discovery still probes
    requests, deaths, faults,   \* counters of the bounds
    promised,  \* the settings last answered with success
    attempted, \* the settings of changes that failed since
    lost,      \* the file could not be loaded since
    leftover,  \* keys whose busy status outlived what it announced
    unsaved    \* a save failed, a change of settings was refused half-way, a
               \* discovery raised or the file could not be loaded, and no save
               \* was completed since

promises == <<promised, attempted, lost>>
history == <<promises, leftover, unsaved>>
counters == <<requests, deaths, faults>>
vars == <<up, mem, file, job, pending, counters, history>>

State == [Group \cup Nodes -> Settings \cup Status]

Default == [k \in Group \cup Nodes |->
    CASE k = "settings" -> DefaultSettings
      [] k = "lxc"      -> "uninitialized"
      [] k = "priority" -> "host"
      [] k = "accel"    -> "detecting"
      [] k = "health"   -> "unknown"
      [] k = "build"    -> "idle"
      [] OTHER          -> "absent"]

Kind == (Group \ {"settings"}) \cup Nodes \cup {"release"}

\* The key a kind of request writes.
Key(k) == IF k = "release" THEN "build" ELSE k

\* What a request says before it waits.
Busy(k) ==
    CASE k = "lxc"      -> {"initializing"}
      [] k = "priority" -> {"host", "container"}
      [] k = "accel"    -> {"detecting"}
      [] k = "health"   -> {"checking"}
      [] k = "build"    -> {"building"}
      [] k = "release"  -> {"releasing"}
      [] OTHER          -> {"provisioning"}

\* Mutation: a script that fails is not reported.
OutcomesSilent(k) ==
    CASE k = "lxc"      -> {"none", "failed"}
      [] k = "priority" -> {"none"}
      [] k = "accel"    -> {"found", "none"}
      [] k = "health"   -> {"verified", "none"}
      [] k = "build"    -> {"none", "failed"}
      [] k = "release"  -> {"released", "failed"}
      [] OTHER          -> {"none", "offline"}

\* What it says afterwards, unless it ends in an exception nobody catches;
\* "none" stands for nothing, as of a script that was only started.
Outcomes(k) ==
    CASE k = "lxc"      -> {"none", "failed"}
      [] k = "priority" -> {"none"}
      [] k = "accel"    -> {"found", "error"}
      [] k = "health"   -> {"verified", "compromised"}
      [] k = "build"    -> {"none", "failed"}
      [] k = "release"  -> {"released", "failed"}
      [] OTHER          -> {"none", "offline"}

\* Statuses that announce a result.
Announces(k) ==
    CASE k = "accel" -> "detecting" [] k = "health" -> "checking"
      [] k = "build" -> "releasing"

Announced == {"accel", "health", "build"}
Announcer(k) == IF k = "build" THEN "release" ELSE k
BusyIn(m) == {k \in Announced : m[k] = Announces(k)}

TypeOK ==
    /\ up \in BOOLEAN
    /\ mem \in State
    /\ file \in State \cup {Unreadable}
    /\ job \in [Requests -> Kind \cup {"none", "discover", "discover raised"}]
    /\ pending \in [Requests -> SUBSET Nodes]
    /\ requests \in 0..MaxRequests
    /\ deaths \in 0..MaxDeaths
    /\ faults \in 0..MaxFaults
    /\ promised \in Settings
    /\ attempted \subseteq Settings
    /\ lost \in BOOLEAN
    /\ leftover \subseteq Announced
    /\ unsaved \in BOOLEAN

\* The device starts with the file of an earlier run, or with none.
Init ==
    /\ up = FALSE
    /\ mem = Default
    /\ \/ file = Unreadable
       \/ \E nodes \in {{}, Nodes}, health \in {"unknown", "checking"} :
            file = [k \in Group \cup Nodes |->
                IF k \in nodes THEN "online"
                ELSE IF k = "health" THEN health ELSE Default[k]]
    /\ job = [r \in Requests |-> "none"]
    /\ pending = [r \in Requests |-> {}]
    /\ requests = 0 /\ deaths = 0 /\ faults = 0
    /\ promised = DefaultSettings
    /\ attempted = {}
    /\ lost = FALSE
    /\ leftover = {}
    /\ unsaved = FALSE

-----------------------------------------------------------------------------
(* The file. *)

Loadable(f) == f # Unreadable /\ f["settings"] \notin Mistyped

\* Mutation: the file is written before the change is made.
SavedBefore(m) ==
    /\ mem' = m
    /\ file' = mem
    /\ unsaved' = FALSE
    /\ UNCHANGED faults

\* save_state rewrites the whole file from memory.
Saved(m) ==
    /\ mem' = m
    /\ file' = m
    /\ unsaved' = FALSE
    /\ UNCHANGED faults

\* Opening the file fails, or writing it after it was emptied.
SaveRaises(m) ==
    /\ faults < MaxFaults
    /\ faults' = faults + 1
    /\ mem' = m
    /\ file' \in {file, Unreadable}
    /\ unsaved' = TRUE

\* The first get_state of the process.  Nobody else writes the file.
Boot ==
    /\ ~up
    /\ up' = TRUE
    /\ mem' = IF Loadable(file) THEN file ELSE Default
    /\ lost' = (lost \/ ~Loadable(file))
    /\ leftover' = BusyIn(mem')
    /\ unsaved' = ~Loadable(file)
    /\ UNCHANGED <<file, job, pending, counters, promised, attempted>>

\* The process may end anywhere, in a save too: some task may always be in one.
Dies ==
    /\ up
    /\ deaths < MaxDeaths
    /\ deaths' = deaths + 1
    /\ up' = FALSE
    /\ mem' = Default
    /\ file' \in {file, Unreadable}
    /\ job' = [r \in Requests |-> "none"]
    /\ pending' = [r \in Requests |-> {}]
    /\ UNCHANGED <<requests, faults, history>>

\* _poll_minima_status saves every ten seconds, and survives a save that fails.
Poll ==
    /\ up
    /\ Saved(mem) \/ SaveRaises(mem)
    /\ UNCHANGED <<up, job, pending, requests, deaths, promises, leftover>>

-----------------------------------------------------------------------------
(* Requests. *)

Arrives ==
    /\ up
    /\ requests < MaxRequests
    /\ requests' = requests + 1
    /\ UNCHANGED <<up, deaths>>

\* Mutation: the new settings are not saved.
UpdateSettingsUnsaved(v) ==
    /\ Arrives
    /\ mem' = [mem EXCEPT !["settings"] = v]
    /\ promised' = v /\ attempted' = {} /\ lost' = FALSE
    /\ UNCHANGED <<file, faults, job, pending, leftover, unsaved>>

\* The keys of the request are set one by one.  A name that is an attribute but
\* no field of the settings raises, and v is then what the keys before it left
\* in memory.
UpdateSettings(v) ==
    /\ Arrives
    /\ LET m == [mem EXCEPT !["settings"] = v] IN
       \/ /\ Saved(m)
          /\ promised' = v /\ attempted' = {} /\ lost' = FALSE
       \/ /\ \/ SaveRaises(m)
             \/ mem' = m /\ unsaved' = TRUE /\ UNCHANGED <<file, faults>>
          /\ attempted' = attempted \cup {v}
          /\ UNCHANGED <<promised, lost>>
    /\ UNCHANGED <<job, pending, leftover>>

\* A request says what it is about to do, saves, and waits for a thread.  If
\* the save raises, the request ends there and what it said stays.
Begin(r, k) ==
    /\ Arrives
    /\ job[r] = "none"
    /\ k \in Nodes => mem[k] # "absent"
    /\ \E busy \in Busy(k) :
         LET m == [mem EXCEPT ![Key(k)] = busy] IN
         \/ /\ Saved(m)
            /\ job' = [job EXCEPT ![r] = k]
            /\ leftover' = leftover \ {Key(k)}
         \/ /\ SaveRaises(m)
            /\ leftover' = leftover \cup ({Key(k)} \cap BusyIn(m))
            /\ UNCHANGED job
    /\ UNCHANGED <<pending, promises>>

\* The request goes on and ends.
Says(r, o) ==
    /\ up
    /\ job[r] \in Kind
    /\ o \in Outcomes(job[r]) \ {"none"}
    /\ LET m == [mem EXCEPT ![Key(job[r])] = o] IN
       \/ Saved(m)
       \/ SaveRaises(m) /\ o # "released"
    /\ job' = [job EXCEPT ![r] = "none"]
    /\ leftover' = leftover \ {Key(job[r])}
    /\ UNCHANGED <<up, pending, requests, deaths, promises>>

\* What OSError the save of "released" raises is taken for one of the upload:
\* the release failed, and is saved, or not, as that.
ReleasedNotSaved(r) ==
    /\ up
    /\ job[r] = "release"
    /\ faults < MaxFaults
    /\ faults' = faults + 1
    /\ mem' = [mem EXCEPT !["build"] = "failed"]
    /\ \/ file' = mem' /\ unsaved' = FALSE
       \/ file' \in {file, Unreadable} /\ unsaved' = TRUE
    /\ job' = [job EXCEPT ![r] = "none"]
    /\ leftover' = leftover \ {"build"}
    /\ UNCHANGED <<up, pending, requests, deaths, promises>>

SaysNothing(r) ==
    /\ up
    /\ job[r] \in Kind
    /\ "none" \in Outcomes(job[r])
    /\ job' = [job EXCEPT ![r] = "none"]
    /\ UNCHANGED <<up, mem, file, pending, counters, history>>

\* An exception the handler does not catch, for which no status was thought of:
\* the output of a script cannot be decoded, a thread cannot be started, a
\* release ends in something else than HTTPError and OSError.
Escapes(r) ==
    /\ up
    /\ job[r] \in {Announcer(k) : k \in Announced}
    /\ job' = [job EXCEPT ![r] = "none"]
    /\ leftover' = IF \E q \in Requests \ {r} : job[q] = job[r]
                   THEN leftover
                   ELSE leftover \cup ({Key(job[r])} \cap BusyIn(mem))
    /\ UNCHANGED <<up, mem, file, pending, counters, promises, unsaved>>

\* Mutation: the scripts have no timeout.
EndHangs(r) ==
    /\ job[r] \notin {"accel", "health"}
    /\ (\E o \in Status : Says(r, o)) \/ ReleasedNotSaved(r) \/ SaysNothing(r) \/ Escapes(r)

End(r) ==
    (\E o \in Status : Says(r, o)) \/ ReleasedNotSaved(r) \/ SaysNothing(r) \/ Escapes(r)

-----------------------------------------------------------------------------
(* discover_cluster: one task per node, a save when all of them are done. *)

BeginDiscovery(r) ==
    /\ Arrives
    /\ job[r] = "none"
    /\ job' = [job EXCEPT ![r] = "discover"]
    /\ pending' = [pending EXCEPT ![r] = {n \in Nodes : mem[n] # "absent"}]
    /\ UNCHANGED <<mem, file, faults, history>>

Probed(r, n, s) ==
    /\ up
    /\ n \in pending[r]
    /\ pending' = [pending EXCEPT ![r] = @ \ {n}]
    /\ mem' = [mem EXCEPT ![n] = s]
    /\ UNCHANGED <<up, file, job, counters, history>>

\* A node that answers something else than a JSON object: the request fails at
\* once, and the probes of the other nodes go on without it.
ProbeRaises(r, n) ==
    /\ up
    /\ n \in pending[r]
    /\ pending' = [pending EXCEPT ![r] = @ \ {n}]
    /\ job' = [job EXCEPT ![r] = "discover raised"]
    /\ UNCHANGED <<up, mem, file, counters, history>>

EndDiscovery(r) ==
    /\ up
    /\ pending[r] = {}
    /\ \/ job[r] = "discover" /\ (Saved(mem) \/ SaveRaises(mem))
       \/ /\ job[r] = "discover raised"
          /\ unsaved' = TRUE
          /\ UNCHANGED <<mem, file, faults>>
    /\ job' = [job EXCEPT ![r] = "none"]
    /\ UNCHANGED <<up, pending, requests, deaths, promises, leftover>>

Discovery(r) ==
    \/ \E n \in Nodes : (\E s \in {"online", "offline"} : Probed(r, n, s)) \/ ProbeRaises(r, n)
    \/ EndDiscovery(r)

-----------------------------------------------------------------------------

Next ==
    \/ Boot \/ Dies \/ Poll
    \/ \E v \in Settings : UpdateSettings(v)
    \/ \E r \in Requests :
         \/ \E k \in Kind : Begin(r, k)
         \/ End(r)
         \/ BeginDiscovery(r)
         \/ Discovery(r)

Spec == Init /\ [][Next]_vars

\* The scripts that detect and check have thirty seconds, a ping three and a
\* node's answer two; the others have no limit that holds.
Fairness ==
    \A r \in Requests :
        /\ WF_vars(job[r] \in {"accel", "health"} /\ End(r))
        /\ WF_vars(Discovery(r))

FairSpec == Spec /\ Fairness

-----------------------------------------------------------------------------
(* The settings every request sees are those a client was last told are    *)
(* stored, or what a change that failed or was refused since has left of   *)
(* them: over restarts, and whatever other requests and the poller save in *)
(* between, unless the file was lost (update_settings, save_state and      *)
(* get_state).                                                             *)
SettingsSurvive == up /\ ~lost => mem["settings"] \in {promised} \cup attempted

(* A status that announces a result ("checking", "detecting", "releasing") *)
(* is backed by a request that will report one, unless it was loaded from  *)
(* the file, its save failed or the last request behind it ended in an     *)
(* exception its handler does not catch: routes/enterprise.py, with        *)
(* handlers that overlap.                                                  *)
BusyMeansRunning ==
    up => \A k \in BusyIn(mem) :
            \/ k \in leftover
            \/ \E r \in Requests : job[r] = Announcer(k)

(* Whatever a request shows it has saved: the file differs from memory     *)
(* only while a discovery is under way, or after a save failed, a change   *)
(* of settings was refused half-way, a discovery raised or the file could  *)
(* not be loaded: each handler's saves.                                    *)
ShownIsSaved ==
    /\ up
    /\ ~unsaved
    /\ \A r \in Requests : job[r] \notin {"discover", "discover raised"}
    => file = mem

(* A detection or check that is announced ends in a result, in spite of    *)
(* others that begin and end meanwhile, unless the last of them ends in an *)
(* exception that is not caught: ai_detect and health_check.               *)
ResultsArrive ==
    \A k \in {"accel", "health"} :
        (up /\ k \in BusyIn(mem) /\ k \notin leftover)
            ~> (~up \/ k \notin BusyIn(mem) \/ k \in leftover)
=============================================================================
