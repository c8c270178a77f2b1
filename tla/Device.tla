------------------------------- MODULE Device -------------------------------
(***************************************************************************)
(* The life of one node: power, first-boot provisioning and updates over   *)
(* the air.  pinet-first-boot.service runs before everything else, and its *)
(* failure does not hold up the boot; it enables the update timer, which a *)
(* later boot starts.  The two scripts write the same version file and the *)
(* same units, and the power may fail anywhere in either.                  *)
(***************************************************************************)
EXTENDS Naturals, Sequences, FiniteSets

CONSTANTS
    MaxVersion,   \* bound: versions the server publishes
    MaxMishaps    \* bound: power cuts, failed commands and kills

ASSUME BoundsAssumption == MaxVersion \in Nat \ {0} /\ MaxMishaps \in Nat

\* The version of the image the node was flashed with.
ImageVersion == 1

VARIABLES
    phase,     \* "off", "provisioning" or "running"
    timers,    \* the update timer was enabled when this boot began
    step, made, version, units,            \* see FirstBoot
    latest, app, ota, skipped,             \* see OtaUpdate
    mishaps    \* mishaps so far

vars == <<phase, timers, step, made, version, units, latest, app, ota, skipped,
          mishaps>>

FB == INSTANCE FirstBoot
OTA == INSTANCE OtaUpdate

firstBootOnly == <<step, made>>
power == <<phase, timers>>

Version == 1..MaxVersion
Steps == FB!Steps
StepNames == {Steps[i] : i \in DOMAIN Steps}

TypeOK ==
    /\ phase \in {"off", "provisioning", "running"}
    /\ timers \in BOOLEAN
    /\ skipped \in BOOLEAN
    /\ step \in 0..Len(Steps)
    /\ made \subseteq StepNames
    /\ version \in 0..MaxVersion
    /\ latest \in Version
    /\ app \subseteq Version /\ units \subseteq Version
    /\ ota \in [pc: {"idle", "download", "install", "rsync", "units", "record", "restart"},
                target: 0..MaxVersion]
    /\ mishaps \in 0..MaxMishaps

\* A flashed card, before it was ever powered.
Init ==
    /\ phase = "off"
    /\ timers = FALSE
    /\ FB!FirstBootInit
    /\ OTA!OtaInit
    /\ mishaps = 0

-----------------------------------------------------------------------------
(* Power. *)

\* Power comes on: provisioning if there is no marker, services otherwise.
Boot ==
    /\ phase = "off"
    /\ timers' = ("services" \in made)
    /\ IF FB!Provisioned
         THEN /\ phase' = "running"
              /\ UNCHANGED <<step, made, version, units>>
         ELSE /\ phase' = "provisioning"
              /\ FB!BeginFirstBoot
    /\ UNCHANGED <<latest, app, ota, skipped, mishaps>>

\* Everything stops.  The disk keeps what was written, or half written.
PowerOff ==
    /\ phase' = "off"
    /\ timers' = FALSE
    /\ step' = 0
    /\ OTA!HalfDone
    /\ ota' = OTA!Idle
    /\ UNCHANGED <<made, latest, app, skipped>>

PowerCut ==
    /\ phase # "off"
    /\ mishaps < MaxMishaps
    /\ mishaps' = mishaps + 1
    /\ PowerOff

\* "Reboot recommended", or any other orderly reboot between two updates.
Reboot ==
    /\ phase = "running"
    /\ ota.pc = "idle"
    /\ PowerOff
    /\ UNCHANGED mishaps

-----------------------------------------------------------------------------
(* Provisioning. *)

\* The boot goes on when the script has ended, well or not.  (The units it has
\* enabled are not started before the next one.)
EnterRunning == IF step' = 0 THEN phase' = "running" ELSE UNCHANGED phase

Provision ==
    /\ phase = "provisioning"
    /\ FB!RunStep
    /\ EnterRunning
    /\ UNCHANGED <<timers, latest, app, ota, skipped, mishaps>>

ProvisionFails ==
    /\ phase = "provisioning"
    /\ mishaps < MaxMishaps
    /\ mishaps' = mishaps + 1
    /\ FB!StepFails
    /\ EnterRunning
    /\ UNCHANGED <<timers, latest, app, ota, skipped>>

-----------------------------------------------------------------------------
(* Updates. *)

Publish ==
    /\ \E v \in Version : OTA!Publish(v)
    /\ UNCHANGED <<power, firstBootOnly, mishaps>>

\* The timer fires, or an operator starts the service by hand.
CheckManifest ==
    /\ phase = "running"
    /\ "services" \in made
    /\ OTA!CheckManifest
    /\ UNCHANGED <<power, firstBootOnly, mishaps>>

Update ==
    /\ \/ OTA!DownloadAndVerify
       \/ OTA!BeginInstall
       \/ OTA!EndInstall
       \/ OTA!InstallUnits
       \/ OTA!RecordVersion
       \/ OTA!RestartServices
    /\ UNCHANGED <<power, firstBootOnly, mishaps>>

UpdateMishap ==
    /\ mishaps < MaxMishaps
    /\ mishaps' = mishaps + 1
    /\ OTA!Abort \/ OTA!UnitsNotCopied
    /\ UNCHANGED <<power, firstBootOnly>>

Next ==
    \/ Boot
    \/ PowerCut
    \/ Reboot
    \/ Provision
    \/ ProvisionFails
    \/ Publish
    \/ CheckManifest
    \/ Update
    \/ UpdateMishap

Spec == Init /\ [][Next]_vars

\* Power comes back, a script that runs goes on, and the timer fires although
\* reboots come between (Persistent=true) once a boot has started it.
FairSpec ==
    /\ Spec
    /\ WF_vars(Boot)
    /\ WF_vars(Provision)
    /\ WF_vars(Update)
    /\ SF_vars(timers /\ CheckManifest)

-----------------------------------------------------------------------------
(* Properties. *)

\* However often provisioning was cut short and begun again, a node with the
\* marker has host keys, the user, its home, its name, its services and its
\* version.  (A password is not among them: see the README.)
MarkerMeansProvisioned ==
    FB!Provisioned =>
        {"keygen", "useradd", "home", "hostname", "services", "version"} \subseteq made

\* On a provisioned node the version file never claims more than is installed,
\* whatever was interrupted in which script; so a wrong claim never keeps the
\* next check from installing (RecordVersion comes last in its script).  Of the
\* units and scripts this holds unless copying them failed unnoticed since they
\* were last all copied: the script records the version all the same.
VersionClaimsNoMore ==
    FB!Provisioned =>
        /\ \A v \in app : version <= v
        /\ ~skipped => \A v \in units : version <= v

\* Once provisioned and rebooted, the node gets to the latest version with no
\* file of another left, through any finite number of mishaps and any number of
\* reboots between two updates; units and scripts of another may be left if
\* copying them failed unnoticed.  (Before the marker it need not: a first boot
\* begun again puts the units of the image back and may then fail.)
UpdateArrives ==
    []<>(timers /\ FB!Provisioned)
      => <>[](/\ version = latest
              /\ latest > ImageVersion =>
                   app = {latest} /\ (units = {latest} \/ skipped))
=============================================================================
