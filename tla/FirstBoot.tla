----------------------------- MODULE FirstBoot ------------------------------
(***************************************************************************)
(* pinet-first-boot.sh: the provisioning of a node, run at each boot until *)
(* its marker exists.  It is a list of steps under "set -e": a step that   *)
(* fails ends the run, a power cut ends it anywhere, and the next boot     *)
(* begins again at the first step.                                         *)
(*                                                                         *)
(* What a step leaves on disk is a member of "made", named like the step;  *)
(* "mark" is the marker.  The image is assumed to hold OpenSSH and the     *)
(* services directory (their absence only skips a step with a warning).    *)
(***************************************************************************)
EXTENDS Naturals, Sequences

CONSTANT ImageVersion    \* the version file of the image

VARIABLES
    step,      \* the step of Steps to run next; 0 when the script does not run
    made,      \* what the steps left on disk
    version,   \* /etc/pinetos/version
    units      \* the versions the installed systemd units come from

\* Mutation: the marker comes before the version.
StepsMarkEarly == <<"rootfs", "rmkeys", "keygen", "useradd", "password", "sudoers",
                    "home", "hostname", "services", "mark", "version">>

Steps == <<"rootfs", "rmkeys", "keygen", "useradd", "password", "sudoers",
           "home", "hostname", "services", "version", "mark">>

HomeStep == 7

Provisioned == "mark" \in made

\* The image as build-rootfs-overlay.sh lays it out: a version file, and the
\* units still to be installed.
FirstBootInit ==
    /\ step = 0
    /\ made = {}
    /\ version = ImageVersion
    /\ units = {}

\* The guard on the marker, in the unit and again in the script.
BeginFirstBoot ==
    /\ step = 0
    /\ ~Provisioned
    /\ step' = 1
    /\ UNCHANGED <<made, version, units>>

\* A user that exists is taken as complete, and what would follow its creation
\* is skipped.
AfterStep ==
    IF Steps[step] = "useradd" /\ "useradd" \in made THEN HomeStep
    ELSE IF step = Len(Steps) THEN 0
    ELSE step + 1

\* The image's host keys are removed before new ones are made.
RunStep ==
    /\ step # 0
    /\ made' = IF Steps[step] = "rmkeys" THEN made \ {"keygen"}
                                         ELSE made \cup {Steps[step]}
    /\ units' = IF Steps[step] = "services" THEN {ImageVersion} ELSE units
    /\ version' = IF Steps[step] = "version" THEN ImageVersion ELSE version
    /\ step' = AfterStep

\* A command fails and "set -e" ends the script.
StepFails ==
    /\ step # 0
    /\ step' = 0
    /\ UNCHANGED <<made, version, units>>
=============================================================================
