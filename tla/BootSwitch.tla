----------------------------- MODULE BootSwitch ------------------------------
(***************************************************************************)
(* The switch of a board between the boot files of PiNet-OS and those of   *)
(* the system it was installed with (scripts/pinet-boot-switch.sh).  The   *)
(* script first saves the host's files, unless it finds two of them saved, *)
(* then copies a profile over the live boot partition, file by file in any *)
(* order, and last writes the label.  It may be cut off between any two    *)
(* files or inside one.                                                    *)
(***************************************************************************)
EXTENDS Naturals, FiniteSets, Dicts

CONSTANTS
    HostFiles, PinetFiles,  \* the files of either profile
    MaxCuts                 \* bound: runs cut off

Marks == {"config.txt", "cmdline.txt"}

ASSUME BootSwitchAssumption ==
    Marks \subseteq HostFiles /\ Marks \subseteq PinetFiles /\ MaxCuts \in Nat

VARIABLES
    mount,      \* what each file of the boot partition comes from
    snapshot,   \* HOST_PROFILE_DIR, in the same way
    label,      \* active-profile
    switch,     \* where the script is, its target, and the files still to copy
    cuts,
    halfApplied, \* the last profile was not copied to its end
    halfSaved    \* a run was cut off with both marks, and not all files, saved

switchVars == <<mount, snapshot, label, switch, cuts, halfApplied, halfSaved>>

\* "updated": by an upgrade of the host's own system.
FileOrigin == {"host", "updated", "pinet", "torn"}
HostsOwn == {"host", "updated"}
AtRest == [pc |-> "idle", to |-> "host", left |-> {}]
Switching(pc, to, files) == switch' = [pc |-> pc, to |-> to, left |-> files]

SwitchInit ==
    /\ mount = [f \in HostFiles |-> "host"]
    /\ snapshot = EmptyDict
    /\ label = "none"
    /\ switch = AtRest
    /\ cuts = 0
    /\ halfApplied = FALSE
    /\ halfSaved = FALSE

SnapshotFound == Marks \subseteq DOMAIN snapshot

\* Mutation: the host's files are saved at every switch.
BeginPinetAlwaysSaves ==
    /\ switch.pc = "idle"
    /\ snapshot' = EmptyDict
    /\ Switching("snapshot", "pinet", DOMAIN mount)
    /\ UNCHANGED <<mount, label, cuts, halfApplied, halfSaved>>

BeginPinet ==
    /\ switch.pc = "idle"
    /\ \/ /\ SnapshotFound
          /\ Switching("stage", "pinet", {})
          /\ UNCHANGED snapshot
       \/ /\ ~SnapshotFound
          /\ snapshot' = EmptyDict
          /\ Switching("snapshot", "pinet", DOMAIN mount)
    /\ UNCHANGED <<mount, label, cuts, halfApplied, halfSaved>>

BeginHost ==
    /\ switch.pc = "idle"
    /\ SnapshotFound
    /\ Switching("apply", "host", DOMAIN snapshot)
    /\ UNCHANGED <<mount, snapshot, label, cuts, halfApplied, halfSaved>>

SaveFile(f) ==
    /\ switch.pc = "snapshot" /\ f \in switch.left
    /\ snapshot' = Put(snapshot, f, mount[f])
    /\ Switching("snapshot", "pinet", switch.left \ {f})
    /\ UNCHANGED <<mount, label, cuts, halfApplied, halfSaved>>

SnapshotTaken ==
    /\ switch.pc = "snapshot" /\ switch.left = {}
    /\ Switching("stage", "pinet", {})
    /\ UNCHANGED <<mount, snapshot, label, cuts, halfApplied, halfSaved>>

\* The profile is made anew in directories of its own each time, or the script
\* ends, as it lacks the repository or python3.
StagePinet ==
    /\ switch.pc = "stage"
    /\ \/ Switching("apply", "pinet", PinetFiles)
       \/ switch' = AtRest
    /\ UNCHANGED <<mount, snapshot, label, cuts, halfApplied, halfSaved>>

ApplyFile(f) ==
    /\ switch.pc = "apply" /\ f \in switch.left
    /\ mount' = Put(mount, f, IF switch.to = "pinet" THEN "pinet" ELSE snapshot[f])
    /\ Switching("apply", switch.to, switch.left \ {f})
    /\ halfApplied' = TRUE
    /\ UNCHANGED <<snapshot, label, cuts, halfSaved>>

LabelProfile ==
    /\ switch.pc = "apply" /\ switch.left = {}
    /\ label' = switch.to
    /\ switch' = AtRest
    /\ halfApplied' = FALSE
    /\ UNCHANGED <<mount, snapshot, cuts, halfSaved>>

\* Power is cut or the disk full, perhaps inside a file.
SwitchCut ==
    /\ switch.pc \in {"snapshot", "apply"}
    /\ cuts < MaxCuts
    /\ cuts' = cuts + 1
    /\ \/ UNCHANGED <<mount, snapshot, halfApplied>>
       \/ \E f \in switch.left :
            \/ /\ switch.pc = "snapshot"
               /\ snapshot' = Put(snapshot, f, "torn")
               /\ UNCHANGED <<mount, halfApplied>>
            \/ /\ switch.pc = "apply"
               /\ mount' = Put(mount, f, "torn")
               /\ halfApplied' = TRUE
               /\ UNCHANGED snapshot
    /\ halfSaved' = (halfSaved \/ (switch.pc = "snapshot" /\ SnapshotFound'))
    /\ switch' = AtRest
    /\ UNCHANGED label

\* While it runs, the host's system upgrades files of its own.
HostUpgrades(f) ==
    /\ switch.pc = "idle" /\ label # "pinet"
    /\ f \in HostFiles /\ mount[f] = "host"
    /\ mount' = Put(mount, f, "updated")
    /\ UNCHANGED <<snapshot, label, switch, cuts, halfApplied, halfSaved>>

SwitchNext ==
    \/ BeginPinet \/ BeginHost
    \/ \E f \in HostFiles \cup PinetFiles : SaveFile(f) \/ ApplyFile(f)
    \/ SnapshotTaken \/ StagePinet \/ LabelProfile
    \/ SwitchCut
    \/ \E f \in HostFiles : HostUpgrades(f)

SwitchSpec == SwitchInit /\ [][SwitchNext]_switchVars

-----------------------------------------------------------------------------
(* The way back stays open: whatever is switched, cut off and begun again, *)
(* no file of PiNet-OS gets among those saved of the host; and unless the  *)
(* very run that saves them is cut off after the two marks, no file of the *)
(* host is touched before it is safely saved, and a way back that got to   *)
(* its end has put the host's files in place, every one.  A way there that *)
(* got to its end has put all of PiNet-OS's: the order of snapshot, apply  *)
(* and label in scripts/pinet-boot-switch.sh.  (After such a cut nothing   *)
(* is promised of the files not yet saved: the next run takes the snapshot *)
(* for whole.  An upgrade of the host after the snapshot is undone by a    *)
(* way there and back.)                                                    *)
HostCanReturn ==
    LET whole == switch.pc = "idle" /\ ~halfApplied
    IN  /\ \A f \in DOMAIN snapshot : snapshot[f] # "pinet"
        /\ ~halfSaved =>
             /\ \A f \in HostFiles :
                  mount[f] \notin HostsOwn => f \in DOMAIN snapshot /\ snapshot[f] \in HostsOwn
             /\ whole /\ label = "host" => \A f \in HostFiles : mount[f] \in HostsOwn
        /\ whole /\ label = "pinet" => \A f \in PinetFiles : mount[f] = "pinet"
=============================================================================
